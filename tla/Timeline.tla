------------------------------ MODULE Timeline ------------------------------
(***************************************************************************)
(* internal/graph: BuildNodes derives the timeline of an execution from    *)
(* its events and the graph's edges, Order puts events into the order of a *)
(* graph.  A call of BuildNodes is a machine here: it validates, selects   *)
(* one event per turn of its loop, and returns.                            *)
(*                                                                         *)
(* Data abstraction.  Strings that are only compared (component name,      *)
(* instance, event id) are numbers in the same order, times are whole      *)
(* milliseconds.  An edge is its ends and its type: the edge ids, which    *)
(* the callers number, are distinct.                                       *)
(***************************************************************************)
EXTENDS Integers, Sequences, FiniteSets

CONSTANTS
    Events,   \* the events there can be
    Calls     \* the arguments BuildNodes is called with: events and edges

EdgeTypes == {"PARENT_CHILD", "DEPENDENCY", "RETRY", "STATE", "SIDE_EFFECT", "TEMPORAL"}

Edge == [from : Nat, to : Nat, type : EdgeTypes]

ASSUME EventAssumption ==
    \A e \in Events : {e.id, e.name, e.instance, e.sequence, e.at} \subseteq Nat

ASSUME CallAssumption ==
    \A c \in Calls : /\ c.events \subseteq Events /\ IsFiniteSet(c.events)
                     /\ c.edges \subseteq Edge /\ IsFiniteSet(c.edges)

VARIABLES
    call,      \* the arguments of the call under way
    verdict,   \* "idle", "building", or what the call returns
    indegree,  \* hard edges into each event not yet selected, by event id
    placed     \* the nodes so far: the event at each timeline index

timelineVars == <<call, verdict, indegree, placed>>

NoCall  == [events |-> {}, edges |-> {}]
Results == {"ordered", "cycle", "invalid"}

-----------------------------------------------------------------------------
(* Graphs.                                                                 *)

Hard(edges) == {d \in edges : d.type # "TEMPORAL"}

Ids(events) == {e.id : e \in events}

\* The depth-first search, at v: v[1] holds the nodes being visited, v[2] is next.
RunsIntoCycle(ids, edges) ==
    LET nodes == ids \cup {d.from : d \in edges} \cup {d.to : d \in edges}
        visit[v \in (SUBSET nodes) \X nodes] ==
            \/ v[2] \in v[1]
            \/ \E d \in edges : d.from = v[2] /\ visit[<<v[1] \cup {v[2]}, d.to>>]
    IN  \E n \in ids : visit[<<{}, n>>]

\* Mutant of HasHardCycle: self edges count.
HasAnyCycle(ids, edges) == RunsIntoCycle(ids, Hard(edges))

\* hasHardCycle only tells the error GRAPH_CYCLE from the others.
HasHardCycle(ids, edges) == RunsIntoCycle(ids, {d \in Hard(edges) : d.from # d.to})

\* ExecutionGraph.Validate on distinct nodes with contiguous indices.
GraphValid(ids, edges) ==
    /\ \A d \in edges : d.from \in ids /\ d.to \in ids /\ d.from # d.to
    /\ ~RunsIntoCycle(ids, Hard(edges))

\* event_id is unique among the events.
Distinct(events) == \A e, f \in events : e.id = f.id => e = f

Accepted(c) == Distinct(c.events) /\ GraphValid(Ids(c.events), c.edges)

Rejection(c) ==
    IF Distinct(c.events) /\ HasHardCycle(Ids(c.events), c.edges) THEN "cycle" ELSE "invalid"

\* parentChildEdges; parent 0 stands for no parent_event_id.
ParentChildEdges(events) ==
    {[from |-> e.parent, to |-> e.id, type |-> "PARENT_CHILD"] :
        e \in {x \in events : x.parent # 0}}

Position(timeline, id) == CHOOSE i \in DOMAIN timeline : timeline[i].id = id

\* Order returns the events as the graph orders them, or an error when the
\* graph is not a valid graph of exactly these events.
OrderAccepts(events, timeline, edges) ==
    /\ GraphValid({timeline[i].id : i \in DOMAIN timeline}, edges)
    /\ Distinct(events)
    /\ Cardinality(events) = Len(timeline)
    /\ \A i \in DOMAIN timeline : timeline[i].id \in Ids(events)
    /\ \A d \in Hard(edges) : Position(timeline, d.from) < Position(timeline, d.to)

-----------------------------------------------------------------------------
(* BuildNodes.                                                             *)

\* Mutant of TieLess: the event id is forgotten.
TieLessUpToSequence(a, b) ==
    \/ a.name < b.name
    \/ a.name = b.name /\ a.instance < b.instance
    \/ a.name = b.name /\ a.instance = b.instance /\ a.sequence < b.sequence

TieLess(a, b) ==
    \/ a.name < b.name
    \/ /\ a.name = b.name
       /\ \/ a.instance < b.instance
          \/ /\ a.instance = b.instance
             /\ a.sequence < b.sequence \/ (a.sequence = b.sequence /\ a.id < b.id)

ToleranceMs == 5

Placed    == {placed[i] : i \in DOMAIN placed}
Remaining == {e \in call.events : e.id \in DOMAIN indegree}
Eligible  == {e \in Remaining : indegree[e.id] = 0}

\* Mutant of Candidates: every eligible event.
NoCutoff == Eligible

\* The eligible events at most ToleranceMs after the earliest of them.
Candidates == {e \in Eligible : \A f \in Eligible : e.at <= f.at + ToleranceMs}

\* A candidate no other candidate comes before: a map is ranged over in any
\* order and sort.Slice is not stable, so ties would be broken at random.
Selectable == {e \in Candidates : \A f \in Candidates : ~TieLess(f, e)}

HardEdges(from, to) == {d \in Hard(call.edges) : d.from = from /\ d.to = to}

\* Mutant of Decremented: an event with two edges from the selected one loses one.
DecrementedOnce(e) ==
    [i \in DOMAIN indegree \ {e.id} |->
        indegree[i] - (IF HardEdges(e.id, i) = {} THEN 0 ELSE 1)]

Decremented(e) ==
    [i \in DOMAIN indegree \ {e.id} |-> indegree[i] - Cardinality(HardEdges(e.id, i))]

\* Mutant of Indegrees: edges that contradict the timestamps are left out.
ClockwiseIndegrees(c) ==
    [i \in Ids(c.events) |->
        Cardinality({d \in Hard(c.edges) : d.to = i /\ \E e, f \in c.events :
            e.id = d.from /\ f.id = i /\ e.at <= f.at})]

Indegrees(c) ==
    [i \in Ids(c.events) |-> Cardinality({d \in Hard(c.edges) : d.to = i})]

TimelineInit ==
    /\ call = NoCall
    /\ verdict = "idle"
    /\ indegree = <<>>
    /\ placed = <<>>

\* The call up to its loop.
CallBuildNodes(c) ==
    /\ verdict = "idle"
    /\ call' = c
    /\ IF Accepted(c)
         THEN verdict' = "building" /\ indegree' = Indegrees(c)
         ELSE verdict' = Rejection(c) /\ UNCHANGED indegree
    /\ UNCHANGED placed

\* One turn of the loop.
Select(e) ==
    /\ verdict = "building"
    /\ e \in Selectable
    /\ placed' = Append(placed, e)
    /\ indegree' = Decremented(e)
    /\ UNCHANGED <<call, verdict>>

\* The loop ends, or finds no eligible event.
LoopEnds ==
    /\ verdict = "building"
    /\ Eligible = {}
    /\ verdict' = IF Len(placed) = Cardinality(call.events) THEN "ordered" ELSE "cycle"
    /\ UNCHANGED <<call, indegree, placed>>

\* The caller has taken the result.
Return ==
    /\ verdict \in Results
    /\ call' = NoCall /\ verdict' = "idle" /\ indegree' = <<>> /\ placed' = <<>>

Build == (\E e \in call.events : Select(e)) \/ LoopEnds

BuildNodes == verdict = "idle" /\ \E c \in Calls : CallBuildNodes(c)

Next == BuildNodes \/ Build \/ Return

Spec == TimelineInit /\ [][Next]_timelineVars
=============================================================================
