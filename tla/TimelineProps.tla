---------------------------- MODULE TimelineProps ----------------------------
(* What must hold of a timeline.                                           *)
EXTENDS Timeline

\* The state is well formed: no event is counted below zero, none is placed twice.
TimelineOK ==
    /\ call.events \subseteq Events /\ call.edges \subseteq Edge
    /\ verdict \in {"idle", "building"} \cup Results
    /\ placed \in Seq(call.events)
    /\ \A i, j \in DOMAIN placed : placed[i] = placed[j] => i = j
    /\ verdict = "building" =>
         indegree \in [Ids(call.events) \ Ids(Placed) -> Nat]

\* An event is placed after every event a hard edge puts before it, whatever
\* their timestamps say.
RespectsHardEdges ==
    \A j \in DOMAIN placed : \A d \in Hard(call.edges) :
        d.to = placed[j].id => \E i \in 1 .. j - 1 : placed[i].id = d.from

\* An event comes before an earlier one only if they are at most 5 ms apart,
\* or if the earlier one still had to wait for an event it depends on.
WithinTolerance ==
    \A i \in DOMAIN placed : \A e \in call.events \ {placed[k] : k \in 1 .. i - 1} :
        \/ placed[i].at <= e.at + ToleranceMs
        \/ \E d \in Hard(call.edges) :
             d.to = e.id /\ \A k \in 1 .. i - 1 : placed[k].id # d.from

\* Some events constrain each other in a circle: each has a predecessor among them.
Circular(edges) ==
    \E circle \in SUBSET ({d.from : d \in edges} \cap {d.to : d \in edges}) :
        circle # {} /\ \A n \in circle : \E d \in edges : d.from \in circle /\ d.to = n

\* Self edges aside, which Validate refuses for another reason.
Proper(edges) == {d \in Hard(edges) : d.from # d.to}

\* A cycle is never silently reordered, nothing else is reported as one, and a call
\* that is refused for another reason has none among its events.  (A circle of ids
\* that are no events is refused as well, but hasHardCycle starts from events.)
CyclesAreReported ==
    /\ verdict = "ordered" => ~Circular(Hard(call.edges))
    /\ verdict = "cycle" => Circular(Proper(call.edges))
    /\ verdict = "invalid" /\ Distinct(call.events) =>
         ~Circular({d \in Proper(call.edges) : {d.from, d.to} \subseteq Ids(call.events)})

\* The tie-break leaves no choice: the timeline of the same events is the same
\* on every call, in the API and in the worker.
OneTimeline ==
    verdict = "building" /\ Eligible # {} => \E e \in Selectable : Selectable = {e}

\* BuildNodes delivers what the contract promises: a call it accepts brings the
\* items, and the order is handed over when the call returns.
Live    == verdict \in {"building", "ordered"}
Items   == IF Live THEN call.events ELSE {}
Before  == IF Live THEN {p \in call.events \X call.events : HardEdges(p[1].id, p[2].id) # {}}
           ELSE {}
Emitted == IF Live THEN placed ELSE <<>>

Linear == INSTANCE LinearExtension WITH items <- Items, before <- Before, emitted <- Emitted

\* A timeline is a linear extension of its hard edges that leaves no event out.
ImplementsLinearExtension == Linear!Spec
=============================================================================
