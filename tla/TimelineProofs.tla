---------------------------- MODULE TimelineProofs ----------------------------
(***************************************************************************)
(* Proofs about BuildNodes: for any call, any events and any edges the     *)
(* timeline respects every hard edge and the 5 ms window, and what is      *)
(* returned as ordered has no circle of hard edges.                        *)
(*                                                                         *)
(* RespectsHardEdges is not inductive: the loop never looks at what it has *)
(* placed, only at its counters.  Counting says what they mean: the        *)
(* counter of an event that waits is the number of hard edges into it from *)
(* events that wait as well.                                               *)
(***************************************************************************)
EXTENDS TimelineProps, FiniteSetTheorems, WellFoundedInduction, TLAPS

\* The hard edges into i from the events of S.
EdgesInto(i, S) == {d \in Hard(call.edges) : d.to = i /\ d.from \in S}

\* The arguments of the call are those of one of Calls, or there is no call.
CallOK ==
    /\ call.events \subseteq Events /\ IsFiniteSet(call.events)
    /\ call.edges \subseteq Edge /\ IsFiniteSet(call.edges)
    /\ verdict \in {"idle", "building"} \cup Results
    /\ verdict = "idle" => call = NoCall

\* The nodes are distinct events of the call.
PlacedOK ==
    /\ placed \in Seq(call.events)
    /\ \A i, j \in DOMAIN placed : placed[i] = placed[j] => i = j
    /\ IsFiniteSet(Placed) /\ Cardinality(Placed) = Len(placed)
    /\ verdict \in {"idle", "invalid"} => placed = <<>>

\* A counter is the number of hard edges from events that still wait.
Counting ==
    verdict = "building" =>
        /\ Distinct(call.events)
        /\ \A d \in Hard(call.edges) : d.from \in Ids(call.events) /\ d.to \in Ids(call.events)
        /\ indegree \in [Ids(call.events) \ Ids(Placed) -> Nat]
        /\ \A i \in DOMAIN indegree : indegree[i] = Cardinality(EdgesInto(i, DOMAIN indegree))

\* What is returned as ordered has every event of the call.
AllPlaced ==
    verdict = "ordered" => /\ Placed = call.events /\ Distinct(call.events)
                           /\ \A d \in Hard(call.edges) : d.from \in Ids(call.events)

IInv == CallOK /\ PlacedOK /\ Counting /\ AllPlaced /\ RespectsHardEdges /\ WithinTolerance

\* A set of natural numbers has a least element.
LEMMA LeastNatural ==
    ASSUME NEW T, T \subseteq Nat, T # {}
    PROVE  \E n \in T : \A m \in T : n <= m
  <1> DEFINE R == OpToRel(<, Nat)
  <1>1. IsWellFoundedOn(R, Nat)
    BY NatLessThanWellFounded
  <1>2. \A m, n \in Nat : m < n => <<m, n>> \in R
    BY DEF OpToRel
  <1> HIDE DEF R
  <1>3. PICK n \in T : \A m \in T : ~(<<m, n>> \in R)
    BY <1>1, WFMin
  <1>4. \A m \in T : m \in Nat /\ n \in Nat /\ ~(m < n)
    BY <1>2, <1>3
  <1>5. \A m \in T : n <= m
    BY <1>4
  <1> QED
    BY <1>5

\* A set whose elements have natural numbers for keys has one with the least key.
LEMMA LeastKey ==
    ASSUME NEW C, C # {}, NEW key \in [C -> Nat]
    PROVE  \E e \in C : \A f \in C : key[e] <= key[f]
  <1> DEFINE T == {key[e] : e \in C}
  <1>1. T \subseteq Nat /\ T # {} /\ \A f \in C : key[f] \in T
    OBVIOUS
  <1> HIDE DEF T
  <1>2. PICK n \in T : \A m \in T : n <= m
    BY <1>1, LeastNatural
  <1>3. PICK e \in C : n = key[e]
    BY DEF T
  <1>4. \A f \in C : key[e] <= key[f]
    BY <1>1, <1>2, <1>3
  <1> QED
    BY <1>4

-----------------------------------------------------------------------------
(* Counting edges.                                                         *)

\* Edges into an event are finitely many.
LEMMA EdgesFinite ==
    ASSUME IsFiniteSet(call.edges), NEW i, NEW S
    PROVE  IsFiniteSet(EdgesInto(i, S)) /\ Cardinality(EdgesInto(i, S)) \in Nat
  <1>1. EdgesInto(i, S) \in SUBSET call.edges
    BY DEF EdgesInto, Hard
  <1>2. IsFiniteSet(EdgesInto(i, S))
    BY <1>1, FS_Subset
  <1> QED
    BY <1>2, FS_CardinalityType

\* Once the edges from one source are gone, as many fewer are left.
LEMMA EdgesSplit ==
    ASSUME IsFiniteSet(call.edges), NEW i, NEW S, NEW s \in S
    PROVE  Cardinality(EdgesInto(i, S \ {s}))
             = Cardinality(EdgesInto(i, S)) - Cardinality(HardEdges(s, i))
  <1> DEFINE A == EdgesInto(i, S \ {s})
             B == HardEdges(s, i)
  <1>1. B = EdgesInto(i, {s})
    BY DEF HardEdges, EdgesInto
  <1>2. /\ IsFiniteSet(A) /\ Cardinality(A) \in Nat
        /\ IsFiniteSet(B) /\ Cardinality(B) \in Nat
    BY <1>1, EdgesFinite
  <1>3. EdgesInto(i, S) = A \cup B /\ A \cap B = {}
    BY DEF EdgesInto, HardEdges
  <1>4. Cardinality(A \cup B) = Cardinality(A) + Cardinality(B) - Cardinality(A \cap B)
    BY <1>2, FS_Union
  <1>5. Cardinality(A \cap B) = 0
    BY <1>3, FS_EmptySet
  <1> QED
    BY <1>2, <1>3, <1>4, <1>5

\* While building, an event that is eligible has all its predecessors placed.
LEMMA EligibleIsReady ==
    ASSUME CallOK, Counting, verdict = "building", NEW e \in Eligible
    PROVE  /\ e \in call.events /\ e \notin Placed /\ e.id \in DOMAIN indegree
           /\ \A d \in Hard(call.edges) : d.to = e.id => d.from \in Ids(Placed)
  <1>1. e \in call.events /\ e.id \in DOMAIN indegree /\ indegree[e.id] = 0
    BY DEF Eligible, Remaining
  <1>2. DOMAIN indegree = Ids(call.events) \ Ids(Placed)
    BY DEF Counting
  <1>3. EdgesInto(e.id, DOMAIN indegree) = {}
    BY <1>1, EdgesFinite, FS_EmptySet DEF Counting, CallOK
  <1>4. ASSUME NEW d \in Hard(call.edges), d.to = e.id
        PROVE  d.from \in Ids(Placed)
    BY <1>2, <1>3, <1>4 DEF EdgesInto, Counting
  <1>5. e \notin Placed
    BY <1>1, <1>2 DEF Ids
  <1> QED
    BY <1>1, <1>4, <1>5

-----------------------------------------------------------------------------
(* The steps.                                                              *)

\* A call that fits the package's types establishes the invariant.
LEMMA CallKeeps ==
    ASSUME IInv, NEW c, c.events \subseteq Events, IsFiniteSet(c.events),
           c.edges \subseteq Edge, IsFiniteSet(c.edges), CallBuildNodes(c)
    PROVE  IInv'
  <1>1. /\ verdict = "idle" /\ call' = c /\ placed = <<>> /\ placed' = <<>>
        /\ verdict' \in {"building", "cycle", "invalid"}
    BY DEF IInv, PlacedOK, CallBuildNodes, Rejection
  <1>2. CallOK'
    BY <1>1 DEF CallOK, Results
  <1>3. Placed' = {}
    BY <1>1 DEF Placed
  <1>4. PlacedOK'
    BY <1>1, <1>3, FS_EmptySet DEF PlacedOK
  <1>5. Counting'
    <2> SUFFICES ASSUME verdict' = "building"
                 PROVE  Counting'
      BY DEF Counting
    <2>1. Accepted(c) /\ indegree' = Indegrees(c)
      BY DEF CallBuildNodes, Rejection
    <2>2. /\ Distinct(c.events)
          /\ \A d \in Hard(c.edges) : d.from \in Ids(c.events) /\ d.to \in Ids(c.events)
      BY <2>1 DEF Accepted, GraphValid, Hard
    <2>3. DOMAIN indegree' = Ids(c.events) /\ Ids(Placed') = {}
      BY <2>1, <1>3 DEF Indegrees, Ids
    <2>4. ASSUME NEW i \in Ids(c.events)
          PROVE  /\ indegree'[i] = Cardinality(EdgesInto(i, Ids(c.events))')
                 /\ indegree'[i] \in Nat
      <3>1. EdgesInto(i, Ids(c.events))' = {d \in Hard(c.edges) : d.to = i}
        BY <1>1, <2>2 DEF EdgesInto
      <3>2. {d \in Hard(c.edges) : d.to = i} \in SUBSET c.edges
        BY DEF Hard
      <3>3. Cardinality({d \in Hard(c.edges) : d.to = i}) \in Nat
        BY <3>2, FS_Subset, FS_CardinalityType
      <3> QED
        BY <2>1, <3>1, <3>3 DEF Indegrees
    <2>5. indegree' \in [Ids(c.events) \ Ids(Placed') -> Nat]
      BY <2>1, <2>3, <2>4 DEF Indegrees
    <2> QED
      BY <1>1, <2>2, <2>3, <2>4, <2>5 DEF Counting
  <1>6. AllPlaced' /\ RespectsHardEdges' /\ WithinTolerance'
    BY <1>1 DEF AllPlaced, RespectsHardEdges, WithinTolerance
  <1> QED
    BY <1>2, <1>4, <1>5, <1>6 DEF IInv

\* A turn of the loop adds the selected event at the end.
LEMMA SelectAppends ==
    ASSUME IInv, NEW e, Select(e)
    PROVE  /\ e \in Eligible /\ e \in call.events
           /\ placed \in Seq(call.events) /\ placed' \in Seq(call.events)
           /\ Len(placed') = Len(placed) + 1
           /\ DOMAIN placed = 1 .. Len(placed)
           /\ DOMAIN placed' = 1 .. Len(placed) + 1
           /\ \A i \in 1 .. Len(placed) : placed'[i] = placed[i]
           /\ placed'[Len(placed) + 1] = e
           /\ Placed' = Placed \cup {e} /\ e \notin Placed
           /\ Len(placed) \in Nat
  <1>1. e \in Eligible /\ verdict = "building"
    BY DEF Select, Selectable, Candidates
  <1>2. e \in call.events /\ e \notin Placed
    BY <1>1, EligibleIsReady DEF IInv
  <1>3. placed \in Seq(call.events) /\ placed' = Append(placed, e)
    BY DEF Select, IInv, PlacedOK
  <1>4. /\ placed' \in Seq(call.events) /\ Len(placed') = Len(placed) + 1
        /\ DOMAIN placed = 1 .. Len(placed) /\ DOMAIN placed' = 1 .. Len(placed) + 1
        /\ \A i \in 1 .. Len(placed) : placed'[i] = placed[i]
        /\ placed'[Len(placed) + 1] = e /\ Len(placed) \in Nat
    BY <1>2, <1>3
  <1>5. Placed' = Placed \cup {e}
    BY <1>4 DEF Placed
  <1> QED
    BY <1>1, <1>2, <1>3, <1>4, <1>5

\* A turn of the loop keeps the nodes distinct.
LEMMA SelectKeepsPlaced ==
    ASSUME IInv, NEW e, Select(e)
    PROVE  CallOK' /\ PlacedOK' /\ AllPlaced'
  <1>1. verdict = "building" /\ verdict' = verdict /\ call' = call
    BY DEF Select
  <1>2. CallOK' /\ AllPlaced'
    BY <1>1 DEF IInv, CallOK, AllPlaced, Results
  <1>3. \A i, j \in DOMAIN placed' : placed'[i] = placed'[j] => i = j
    <2>1. \A i \in 1 .. Len(placed) : placed[i] \in Placed
      BY SelectAppends DEF Placed
    <2> QED
      BY <2>1, SelectAppends DEF IInv, PlacedOK
  <1>4. IsFiniteSet(Placed') /\ Cardinality(Placed') = Len(placed')
    BY SelectAppends, FS_AddElement DEF IInv, PlacedOK
  <1> QED
    BY <1>1, <1>2, <1>3, <1>4, SelectAppends DEF PlacedOK

\* A turn of the loop keeps the counters right.
LEMMA SelectKeepsCounting ==
    ASSUME IInv, NEW e, Select(e)
    PROVE  Counting'
  <1> DEFINE R == DOMAIN indegree
             D == [i \in R \ {e.id} |-> indegree[i] - Cardinality(HardEdges(e.id, i))]
  <1>1. verdict = "building" /\ call' = call /\ indegree' = D
    BY DEF Select, Decremented
  <1>2. /\ R = Ids(call.events) \ Ids(Placed)
        /\ \A i \in R : indegree[i] = Cardinality(EdgesInto(i, R))
        /\ IsFiniteSet(call.edges) /\ Distinct(call.events)
    BY <1>1 DEF IInv, Counting, CallOK
  <1>3. e.id \in R
    BY <1>1, SelectAppends, EligibleIsReady DEF IInv
  <1>4. DOMAIN indegree' = R \ {e.id}
    BY <1>1
  <1>5. R \ {e.id} = Ids(call.events) \ Ids(Placed')
    BY <1>2, SelectAppends DEF Ids
  <1>6. ASSUME NEW i \in R \ {e.id}
        PROVE  indegree'[i] = Cardinality(EdgesInto(i, R \ {e.id})) /\ indegree'[i] \in Nat
    <2>1. indegree'[i] = Cardinality(EdgesInto(i, R)) - Cardinality(HardEdges(e.id, i))
      BY <1>1, <1>2
    <2>2. Cardinality(EdgesInto(i, R \ {e.id}))
            = Cardinality(EdgesInto(i, R)) - Cardinality(HardEdges(e.id, i))
      BY <1>2, <1>3, EdgesSplit
    <2>3. Cardinality(EdgesInto(i, R \ {e.id})) \in Nat
      BY <1>2, EdgesFinite
    <2> QED
      BY <2>1, <2>2, <2>3
  <1>7. indegree' \in [Ids(call.events) \ Ids(Placed') -> Nat]
    BY <1>1, <1>5, <1>6
  <1>8. ASSUME NEW i \in DOMAIN indegree'
        PROVE  indegree'[i] = Cardinality(EdgesInto(i, DOMAIN indegree)')
    BY <1>1, <1>4, <1>6 DEF EdgesInto
  <1> QED
    BY <1>1, <1>7, <1>8 DEF IInv, Counting

\* A turn of the loop places an event behind all it depends on.
LEMMA SelectRespectsEdges ==
    ASSUME IInv, NEW e, Select(e)
    PROVE  RespectsHardEdges'
  <1>1. verdict = "building" /\ call' = call
    BY DEF Select
  <1> SUFFICES ASSUME NEW j \in DOMAIN placed', NEW d \in Hard(call.edges),
                      d.to = placed'[j].id
               PROVE  \E i \in 1 .. j - 1 : placed'[i].id = d.from
    BY <1>1 DEF RespectsHardEdges
  <1>2. CASE j \in 1 .. Len(placed)
    BY <1>2, SelectAppends DEF IInv, RespectsHardEdges
  <1>3. CASE j = Len(placed) + 1
    <2>1. d.from \in Ids(Placed)
      BY <1>1, <1>3, SelectAppends, EligibleIsReady DEF IInv
    <2>2. PICK i \in DOMAIN placed : placed[i].id = d.from
      BY <2>1 DEF Ids, Placed
    <2> QED
      BY <1>3, <2>2, SelectAppends
  <1> QED
    BY <1>2, <1>3, SelectAppends

\* A turn of the loop never overtakes an earlier event that was ready by more
\* than the causal window.
LEMMA SelectKeepsTolerance ==
    ASSUME IInv, NEW e, Select(e)
    PROVE  WithinTolerance'
  <1>1. verdict = "building" /\ call' = call
    BY DEF Select
  <1> DEFINE Earlier(i) == {placed'[k] : k \in 1 .. i - 1}
             Waits(f, i) == \E d \in Hard(call.edges) :
                              d.to = f.id /\ \A k \in 1 .. i - 1 : placed'[k].id # d.from
  <1> SUFFICES ASSUME NEW i \in DOMAIN placed', NEW f \in call.events \ Earlier(i)
               PROVE  placed'[i].at <= f.at + ToleranceMs \/ Waits(f, i)
    BY <1>1 DEF WithinTolerance
  <1>2. CASE i \in 1 .. Len(placed)
    <2>1. \A k \in 1 .. i - 1 : placed'[k] = placed[k]
      <3>1. 1 .. i - 1 \subseteq 1 .. Len(placed)
        BY <1>2, SelectAppends
      <3> QED
        BY <3>1, SelectAppends
    <2>2. f \in call.events \ {placed[k] : k \in 1 .. i - 1}
      BY <2>1
    <2>3. \/ placed[i].at <= f.at + ToleranceMs
          \/ \E d \in Hard(call.edges) :
               d.to = f.id /\ \A k \in 1 .. i - 1 : placed[k].id # d.from
      BY <1>2, <2>2, SelectAppends DEF IInv, WithinTolerance
    <2> QED
      BY <1>2, <2>1, <2>3, SelectAppends
  <1>3. CASE i = Len(placed) + 1
    <2>1. \A k \in 1 .. i - 1 : k \in DOMAIN placed /\ placed'[k] = placed[k]
      BY <1>3, SelectAppends
    <2>2. f \notin Placed
      BY <1>3, <2>1, SelectAppends DEF Placed
    <2>3. f.id \in DOMAIN indegree
      <3>1. f.id \notin Ids(Placed)
        BY <1>1, <2>2, SelectAppends DEF Ids, Placed, IInv, Counting, Distinct
      <3> QED
        BY <1>1, <3>1 DEF IInv, Counting, Ids
    <2>4. CASE f \in Eligible
      BY <1>3, <2>4, SelectAppends DEF Select, Selectable, Candidates
    <2>5. CASE f \notin Eligible
      <3>1. indegree[f.id] # 0
        BY <2>3, <2>5 DEF Eligible, Remaining
      <3>2. EdgesInto(f.id, DOMAIN indegree) # {}
        BY <1>1, <2>3, <3>1, FS_EmptySet DEF IInv, Counting
      <3>3. PICK d \in Hard(call.edges) : d.to = f.id /\ d.from \in DOMAIN indegree
        BY <3>2 DEF EdgesInto
      <3>4. d.from \notin Ids(Placed)
        BY <1>1, <3>3 DEF IInv, Counting
      <3>5. \A k \in 1 .. i - 1 : placed'[k].id # d.from
        BY <2>1, <3>4 DEF Ids, Placed
      <3> QED
        BY <3>3, <3>5
    <2> QED
      BY <2>4, <2>5
  <1> QED
    BY <1>2, <1>3, SelectAppends

\* A turn of the loop preserves the invariant.
LEMMA SelectKeeps ==
    ASSUME IInv, NEW e, Select(e)
    PROVE  IInv'
  BY SelectKeepsPlaced, SelectKeepsCounting, SelectRespectsEdges, SelectKeepsTolerance DEF IInv

\* The end of the loop preserves the invariant: as many nodes as events are all events.
LEMMA LoopEndsKeeps ==
    ASSUME IInv, LoopEnds
    PROVE  IInv'
  <1>1. /\ verdict = "building" /\ verdict' \in {"ordered", "cycle"}
        /\ call' = call /\ placed' = placed /\ indegree' = indegree
    BY DEF LoopEnds
  <1>2. CallOK' /\ PlacedOK' /\ Counting' /\ RespectsHardEdges' /\ WithinTolerance'
    BY <1>1 DEF IInv, CallOK, PlacedOK, Counting, RespectsHardEdges, WithinTolerance,
                Results, Placed
  <1>3. AllPlaced'
    <2> SUFFICES ASSUME verdict' = "ordered" PROVE AllPlaced'
      BY DEF AllPlaced
    <2>1. Cardinality(Placed) = Cardinality(call.events)
      BY DEF LoopEnds, IInv, PlacedOK
    <2>2. Placed \in SUBSET call.events
      BY DEF IInv, PlacedOK, Placed
    <2>3. Placed = call.events
      BY <2>1, <2>2, FS_Subset DEF IInv, CallOK
    <2> QED
      BY <1>1, <2>3 DEF AllPlaced, IInv, Counting, Placed
  <1> QED
    BY <1>2, <1>3 DEF IInv

\* Returning forgets the call.
LEMMA ReturnKeeps ==
    ASSUME IInv, Return
    PROVE  IInv'
  <1>1. verdict' = "idle" /\ call' = NoCall /\ placed' = <<>>
    BY DEF Return
  <1>2. CallOK'
    BY <1>1, FS_EmptySet DEF CallOK, NoCall
  <1>3. PlacedOK'
    <2>1. Placed' = {}
      BY <1>1 DEF Placed
    <2> QED
      BY <1>1, <2>1, FS_EmptySet DEF PlacedOK
  <1>4. Counting' /\ AllPlaced' /\ RespectsHardEdges' /\ WithinTolerance'
    BY <1>1 DEF Counting, AllPlaced, RespectsHardEdges, WithinTolerance
  <1> QED
    BY <1>2, <1>3, <1>4 DEF IInv

-----------------------------------------------------------------------------
(* The theorems.                                                           *)

\* Nothing has been called.
LEMMA InitHolds == TimelineInit => IInv
  <1> SUFFICES ASSUME TimelineInit PROVE IInv
    OBVIOUS
  <1>1. verdict = "idle" /\ call = NoCall /\ placed = <<>>
    BY DEF TimelineInit
  <1>2. Placed = {}
    BY <1>1 DEF Placed
  <1> QED
    BY <1>1, <1>2, FS_EmptySet
       DEF IInv, CallOK, PlacedOK, Counting, AllPlaced, RespectsHardEdges, WithinTolerance, NoCall

\* Every step of BuildNodes and of its caller preserves the invariant.
LEMMA StepKeeps == IInv /\ [Next]_timelineVars => IInv'
  <1> SUFFICES ASSUME IInv, [Next]_timelineVars PROVE IInv'
    OBVIOUS
  <1>1. CASE BuildNodes
    BY <1>1, CallAssumption, CallKeeps DEF BuildNodes
  <1>2. CASE \E e \in call.events : Select(e)
    BY <1>2, SelectKeeps
  <1>3. CASE LoopEnds
    BY <1>3, LoopEndsKeeps
  <1>4. CASE Return
    BY <1>4, ReturnKeeps
  <1>5. CASE UNCHANGED timelineVars
    BY <1>5 DEF timelineVars, IInv, CallOK, PlacedOK, Counting, AllPlaced, RespectsHardEdges,
                WithinTolerance, Placed, EdgesInto
  <1> QED
    BY <1>1, <1>2, <1>3, <1>4, <1>5 DEF Next, Build

\* The invariant holds of every execution.
LEMMA Invariance == Spec => []IInv
  BY InitHolds, StepKeeps, PTL DEF Spec

\* Every timeline is well formed, for any calls: no event is placed twice and no
\* counter of BuildNodes falls below zero.
THEOREM TimelineTypeCorrect == Spec => []TimelineOK
  <1>1. IInv => TimelineOK
    BY DEF IInv, CallOK, PlacedOK, Counting, TimelineOK
  <1> QED
    BY <1>1, Invariance, PTL

\* For any events and edges BuildNodes places an event after all its hard predecessors.
THEOREM HardEdgesRespected == Spec => []RespectsHardEdges
  <1>1. IInv => RespectsHardEdges
    BY DEF IInv
  <1> QED
    BY <1>1, Invariance, PTL

\* For any events and edges BuildNodes overtakes an earlier event by more than the
\* causal window only while that event waits for another.
THEOREM ToleranceKept == Spec => []WithinTolerance
  <1>1. IInv => WithinTolerance
    BY DEF IInv
  <1> QED
    BY <1>1, Invariance, PTL

\* Nodes that each come after a predecessor among them are none.
LEMMA NoCircleInOrder ==
    ASSUME IInv, verdict = "ordered", NEW circle, circle # {},
           circle \subseteq {d.from : d \in Hard(call.edges)},
           \A n \in circle : \E d \in Hard(call.edges) : d.from \in circle /\ d.to = n
    PROVE  FALSE
  <1> DEFINE T == {i \in DOMAIN placed : placed[i].id \in circle}
  <1>1. DOMAIN placed = 1 .. Len(placed) /\ Len(placed) \in Nat
    <2>1. placed \in Seq(call.events)
      BY DEF IInv, PlacedOK
    <2> QED
      BY <2>1
  <1>2. T \subseteq Nat /\ T # {}
    <2>1. PICK n \in circle : TRUE
      OBVIOUS
    <2>2. n \in Ids(Placed)
      BY <2>1 DEF IInv, AllPlaced, Ids
    <2> QED
      BY <1>1, <2>1, <2>2 DEF Ids, Placed
  <1>3. PICK j \in T : \A i \in T : j <= i
    BY <1>2, LeastNatural
  <1>4. PICK d \in Hard(call.edges) : d.from \in circle /\ d.to = placed[j].id
    BY <1>3
  <1>5. PICK i \in 1 .. j - 1 : placed[i].id = d.from
    BY <1>3, <1>4 DEF IInv, RespectsHardEdges
  <1>6. j \in 1 .. Len(placed) /\ i \in DOMAIN placed /\ i < j
    BY <1>1, <1>3, <1>5
  <1>7. i \in T
    BY <1>4, <1>5, <1>6
  <1> QED
    BY <1>1, <1>3, <1>6, <1>7

\* Whatever the search of Validate overlooks, a graph with a circle of hard edges is
\* never returned as ordered.
THEOREM CirclesAreNeverOrdered ==
    Spec => [](verdict = "ordered" => ~Circular(Hard(call.edges)))
  <1>1. IInv /\ verdict = "ordered" => ~Circular(Hard(call.edges))
    BY NoCircleInOrder DEF Circular
  <1> QED
    BY <1>1, Invariance, PTL
-----------------------------------------------------------------------------
(* The choice of the next event.                                           *)

\* Some eligible event is the earliest of them: the cut-off leaves one.
LEMMA CutoffLeavesOne ==
    ASSUME call.events \subseteq Events, Eligible # {}
    PROVE  Candidates # {}
  <1> DEFINE key == [e \in Eligible |-> e.at]
  <1>1. \A e \in Eligible : e.at \in Nat
    BY EventAssumption DEF Eligible, Remaining
  <1>2. key \in [Eligible -> Nat] /\ \A e \in Eligible : key[e] = e.at
    BY <1>1
  <1> HIDE DEF key
  <1>3. PICK e \in Eligible : \A f \in Eligible : key[e] <= key[f]
    BY <1>2, LeastKey
  <1>4. \A f \in Eligible : e.at <= f.at
    BY <1>2, <1>3
  <1>5. \A f \in Eligible : e.at <= f.at + ToleranceMs
    BY <1>1, <1>4 DEF ToleranceMs
  <1> QED
    BY <1>5 DEF Candidates

\* Among events with different ids one comes before all others: its component is
\* least, of those with that its instance, then its sequence, then its id.
LEMMA TieBreakDecides ==
    ASSUME NEW C, C \subseteq Events, C # {}, Distinct(C)
    PROVE  \E e \in C : \A f \in C \ {e} : TieLess(e, f) /\ ~TieLess(f, e)
  <1>1. \A e \in C : {e.id, e.name, e.instance, e.sequence} \subseteq Nat
    BY EventAssumption
  <1>2. PICK a \in C : \A f \in C : a.name <= f.name
    <2> DEFINE key == [e \in C |-> e.name]
    <2>1. key \in [C -> Nat] /\ \A e \in C : key[e] = e.name
      BY <1>1
    <2> HIDE DEF key
    <2>2. PICK e \in C : \A f \in C : key[e] <= key[f]
      BY <2>1, LeastKey
    <2>3. \A f \in C : e.name <= f.name
      BY <2>1, <2>2
    <2> QED
      BY <2>3
  <1> DEFINE C1 == {e \in C : e.name = a.name}
  <1>3. C1 # {} /\ C1 \subseteq C /\ \A f \in C \ C1 : a.name < f.name
    BY <1>1, <1>2
  <1> HIDE DEF C1
  <1>4. PICK b \in C1 : \A f \in C1 : b.instance <= f.instance
    <2> DEFINE key == [e \in C1 |-> e.instance]
    <2>1. key \in [C1 -> Nat] /\ \A e \in C1 : key[e] = e.instance
      BY <1>1, <1>3
    <2> HIDE DEF key
    <2>2. PICK e \in C1 : \A f \in C1 : key[e] <= key[f]
      BY <2>1, <1>3, LeastKey
    <2>3. \A f \in C1 : e.instance <= f.instance
      BY <2>1, <2>2
    <2> QED
      BY <2>3
  <1> DEFINE C2 == {e \in C1 : e.instance = b.instance}
  <1>5. C2 # {} /\ C2 \subseteq C1 /\ \A f \in C1 \ C2 : b.instance < f.instance
    BY <1>1, <1>3, <1>4
  <1> HIDE DEF C2
  <1>6. PICK c \in C2 : \A f \in C2 : c.sequence <= f.sequence
    <2> DEFINE key == [e \in C2 |-> e.sequence]
    <2>1. key \in [C2 -> Nat] /\ \A e \in C2 : key[e] = e.sequence
      BY <1>1, <1>3, <1>5
    <2> HIDE DEF key
    <2>2. PICK e \in C2 : \A f \in C2 : key[e] <= key[f]
      BY <2>1, <1>3, <1>5, LeastKey
    <2>3. \A f \in C2 : e.sequence <= f.sequence
      BY <2>1, <2>2
    <2> QED
      BY <2>3
  <1> DEFINE C3 == {e \in C2 : e.sequence = c.sequence}
  <1>7. C3 # {} /\ C3 \subseteq C2 /\ \A f \in C2 \ C3 : c.sequence < f.sequence
    BY <1>1, <1>3, <1>5, <1>6
  <1> HIDE DEF C3
  <1>8. PICK e \in C3 : \A f \in C3 : e.id <= f.id
    <2> DEFINE key == [e \in C3 |-> e.id]
    <2>1. key \in [C3 -> Nat] /\ \A e \in C3 : key[e] = e.id
      BY <1>1, <1>3, <1>5, <1>7
    <2> HIDE DEF key
    <2>2. PICK e \in C3 : \A f \in C3 : key[e] <= key[f]
      BY <2>1, <1>3, <1>5, <1>7, LeastKey
    <2>3. \A f \in C3 : e.id <= f.id
      BY <2>1, <2>2
    <2> QED
      BY <2>3
  <1>9. /\ \A f \in C3 : f.sequence = c.sequence
        /\ \A f \in C2 : f.instance = b.instance
        /\ \A f \in C1 : f.name = a.name
    BY DEF C1, C2, C3
  <1>10. /\ e \in C /\ e.name = a.name /\ e.instance = b.instance /\ e.sequence = c.sequence
         /\ {e.name, e.instance, e.sequence, e.id} \subseteq Nat
    BY <1>1, <1>3, <1>5, <1>7, <1>9
  <1>11. ASSUME NEW f \in C \ {e}
         PROVE  \/ e.name < f.name
                \/ e.name = f.name /\ e.instance < f.instance
                \/ e.name = f.name /\ e.instance = f.instance /\ e.sequence < f.sequence
                \/ /\ e.name = f.name /\ e.instance = f.instance
                   /\ e.sequence = f.sequence /\ e.id < f.id
    <2>1. CASE f \notin C1
      BY <1>3, <1>10, <2>1
    <2>2. CASE f \in C1 /\ f \notin C2
      BY <1>5, <1>9, <1>10, <2>2
    <2>3. CASE f \in C2 /\ f \notin C3
      BY <1>5, <1>7, <1>9, <1>10, <2>3
    <2>4. CASE f \in C3
      <3>1. e.id <= f.id /\ f.id \in Nat
        BY <1>1, <1>8, <2>4
      <3>2. f.id # e.id
        BY <1>10 DEF Distinct
      <3>3. f.name = e.name /\ f.instance = e.instance /\ f.sequence = e.sequence
        BY <1>5, <1>7, <1>9, <1>10, <2>4
      <3> QED
        BY <1>10, <3>1, <3>2, <3>3
    <2> QED
      BY <2>1, <2>2, <2>3, <2>4
  <1>12. ASSUME NEW f \in C \ {e}
         PROVE  TieLess(e, f) /\ ~TieLess(f, e)
    BY <1>1, <1>10, <1>11 DEF TieLess
  <1> QED
    BY <1>10, <1>12

\* So the next event is the only one that can be taken.
LEMMA NextIsUnique == IInv => OneTimeline
  <1> SUFFICES ASSUME IInv, verdict = "building", Eligible # {}
               PROVE  \E e \in Selectable : Selectable = {e}
    BY DEF OneTimeline
  <1>1. /\ call.events \subseteq Events /\ Distinct(call.events)
        /\ Candidates \subseteq call.events
    BY DEF IInv, CallOK, Counting, Candidates, Eligible, Remaining
  <1>2. /\ Candidates # {} /\ Candidates \subseteq Events /\ Distinct(Candidates)
    BY <1>1, CutoffLeavesOne DEF Distinct
  <1>3. PICK e \in Candidates : \A f \in Candidates \ {e} : TieLess(e, f) /\ ~TieLess(f, e)
    BY <1>2, TieBreakDecides
  <1>4. ~TieLess(e, e)
    <2>1. {e.id, e.name, e.instance, e.sequence} \subseteq Nat
      BY <1>2, EventAssumption
    <2> QED
      BY <2>1 DEF TieLess
  <1>5. e \in Selectable /\ \A f \in Candidates \ {e} : f \notin Selectable
    BY <1>3, <1>4 DEF Selectable
  <1> QED
    BY <1>5 DEF Selectable

\* The timeline has no choice at any turn, for any events and edges: the event it
\* takes next is the only one the loop of BuildNodes can take.
THEOREM TimelineIsUnique == Spec => []OneTimeline
  BY NextIsUnique, Invariance, PTL

-----------------------------------------------------------------------------
(* The search for cycles.  A recursive function is a CHOOSE among those that *)
(* satisfy its equation; which value they share is found without induction: *)
(* one solution is written down, and a smallest place where another differs  *)
(* from it does not exist.                                                   *)

\* Among subsets of a finite set there is one that contains no other of them.
LEMMA SmallestSubset ==
    ASSUME NEW S, IsFiniteSet(S), NEW F, F \subseteq SUBSET S, F # {}
    PROVE  \E X \in F : \A Y \in F : Y \subseteq X => Y = X
  <1> DEFINE T == {Cardinality(X) : X \in F}
  <1>1. \A X \in F : IsFiniteSet(X) /\ Cardinality(X) \in Nat
    BY FS_Subset, FS_CardinalityType
  <1>2. T \subseteq Nat /\ T # {}
    BY <1>1
  <1>3. PICK n \in T : \A m \in T : n <= m
    BY <1>2, LeastNatural
  <1>4. PICK X \in F : n = Cardinality(X)
    BY <1>3
  <1>5. ASSUME NEW Y \in F, Y \subseteq X, Y # X
        PROVE  FALSE
    <2>1. Y \in SUBSET X
      BY <1>5
    <2>2. Cardinality(Y) <= Cardinality(X) /\ (Cardinality(Y) = Cardinality(X) => Y = X)
      BY <1>1, <2>1, FS_Subset
    <2>3. Cardinality(X) <= Cardinality(Y)
      BY <1>3, <1>4, <1>5
    <2>4. Cardinality(X) \in Nat /\ Cardinality(Y) \in Nat
      BY <1>1, <1>5
    <2> QED
      BY <1>5, <2>2, <2>3, <2>4
  <1> QED
    BY <1>5

\* Every node of S has a predecessor in S, or a successor.
HasPredecessors(S, edges) == \A n \in S : \E d \in edges : d.from \in S /\ d.to = n
HasSuccessors(S, edges)   == \A n \in S : \E d \in edges : d.from = n /\ d.to \in S

\* Nodes that each have a predecessor among them contain a circle, in which each
\* has a successor as well.
LEMMA CircleFromPredecessors ==
    ASSUME NEW edges, NEW S, IsFiniteSet(S), S # {}, HasPredecessors(S, edges)
    PROVE  \E X \in SUBSET S : X # {} /\ HasPredecessors(X, edges) /\ HasSuccessors(X, edges)
  <1> DEFINE F == {X \in SUBSET S : X # {} /\ HasPredecessors(X, edges)}
  <1>1. S \in F /\ F \subseteq SUBSET S
    OBVIOUS
  <1> HIDE DEF F
  <1>2. PICK X \in F : \A Y \in F : Y \subseteq X => Y = X
    BY <1>1, SmallestSubset
  <1>3. X \in SUBSET S /\ X # {} /\ HasPredecessors(X, edges)
    BY DEF F
  <1>4. ASSUME NEW m \in X, ~\E d \in edges : d.from = m /\ d.to \in X
        PROVE  FALSE
    <2>1. ASSUME NEW n \in X \ {m}
          PROVE  \E d \in edges : d.from \in X \ {m} /\ d.to = n
      <3>1. PICK d \in edges : d.from \in X /\ d.to = n
        BY <1>3 DEF HasPredecessors
      <3>2. d.from # m
        BY <1>4, <3>1
      <3> QED
        BY <3>1, <3>2
    <2>2. CASE X \ {m} = {}
      BY <1>3, <1>4, <2>2 DEF HasPredecessors
    <2>3. CASE X \ {m} # {}
      <3>1. X \ {m} \in F
        BY <1>3, <2>1, <2>3 DEF F, HasPredecessors
      <3> QED
        BY <1>2, <3>1
    <2> QED
      BY <2>2, <2>3
  <1> QED
    BY <1>3, <1>4 DEF HasSuccessors

\* And so do nodes that each have a successor among them.
LEMMA CircleFromSuccessors ==
    ASSUME NEW edges, NEW S, IsFiniteSet(S), S # {}, HasSuccessors(S, edges)
    PROVE  \E X \in SUBSET S : X # {} /\ HasPredecessors(X, edges) /\ HasSuccessors(X, edges)
  <1> DEFINE F == {X \in SUBSET S : X # {} /\ HasSuccessors(X, edges)}
  <1>1. S \in F /\ F \subseteq SUBSET S
    OBVIOUS
  <1> HIDE DEF F
  <1>2. PICK X \in F : \A Y \in F : Y \subseteq X => Y = X
    BY <1>1, SmallestSubset
  <1>3. X \in SUBSET S /\ X # {} /\ HasSuccessors(X, edges)
    BY DEF F
  <1>4. ASSUME NEW m \in X, ~\E d \in edges : d.from \in X /\ d.to = m
        PROVE  FALSE
    <2>1. ASSUME NEW n \in X \ {m}
          PROVE  \E d \in edges : d.from = n /\ d.to \in X \ {m}
      <3>1. PICK d \in edges : d.from = n /\ d.to \in X
        BY <1>3 DEF HasSuccessors
      <3>2. d.to # m
        BY <1>4, <3>1
      <3> QED
        BY <3>1, <3>2
    <2>2. CASE X \ {m} = {}
      BY <1>3, <1>4, <2>2 DEF HasSuccessors
    <2>3. CASE X \ {m} # {}
      <3>1. X \ {m} \in F
        BY <1>3, <2>1, <2>3 DEF F, HasSuccessors
      <3> QED
        BY <1>2, <3>1
    <2> QED
      BY <2>2, <2>3
  <1> QED
    BY <1>3, <1>4 DEF HasPredecessors

\* From n one can walk on for ever, or into path.
WalksOn(nodes, edges, path, n) ==
    \E S \in SUBSET nodes :
        n \in S /\ \A m \in S : m \in path \/ \E d \in edges : d.from = m /\ d.to \in S

VisitEquation(nodes, edges, visit) ==
    visit = [v \in (SUBSET nodes) \X nodes |->
                \/ v[2] \in v[1]
                \/ \E d \in edges : d.from = v[2] /\ visit[<<v[1] \cup {v[2]}, d.to>>]]

\* One step of the walk.
LEMMA WalksOnStep ==
    ASSUME NEW nodes, NEW edges, \A d \in edges : d.from \in nodes /\ d.to \in nodes,
           NEW path \in SUBSET nodes, NEW n \in nodes
    PROVE  WalksOn(nodes, edges, path, n) <=>
               \/ n \in path
               \/ \E d \in edges : d.from = n /\ WalksOn(nodes, edges, path \cup {n}, d.to)
  <1>1. ASSUME WalksOn(nodes, edges, path, n), n \notin path
        PROVE  \E d \in edges : d.from = n /\ WalksOn(nodes, edges, path \cup {n}, d.to)
    <2>1. PICK S \in SUBSET nodes :
            n \in S /\ \A m \in S : m \in path \/ \E d \in edges : d.from = m /\ d.to \in S
      BY <1>1 DEF WalksOn
    <2>2. PICK d \in edges : d.from = n /\ d.to \in S
      BY <1>1, <2>1
    <2>3. WalksOn(nodes, edges, path \cup {n}, d.to)
      BY <2>1, <2>2 DEF WalksOn
    <2> QED
      BY <2>2, <2>3
  <1>2. ASSUME n \in path
        PROVE  WalksOn(nodes, edges, path, n)
    <2>1. {n} \in SUBSET nodes
      OBVIOUS
    <2> QED
      BY <1>2, <2>1 DEF WalksOn
  <1>3. ASSUME NEW d \in edges, d.from = n, WalksOn(nodes, edges, path \cup {n}, d.to)
        PROVE  WalksOn(nodes, edges, path, n)
    <2>1. PICK S \in SUBSET nodes :
            /\ d.to \in S
            /\ \A m \in S : m \in path \cup {n} \/ \E e \in edges : e.from = m /\ e.to \in S
      BY <1>3 DEF WalksOn
    <2>2. S \cup {n} \in SUBSET nodes
      OBVIOUS
    <2>3. \A m \in S \cup {n} :
            m \in path \/ \E e \in edges : e.from = m /\ e.to \in S \cup {n}
      BY <1>3, <2>1
    <2> QED
      BY <2>2, <2>3 DEF WalksOn
  <1> QED
    BY <1>1, <1>2, <1>3

\* The walks solve the equation of the search.
LEMMA WalksSolve ==
    ASSUME NEW nodes, NEW edges, \A d \in edges : d.from \in nodes /\ d.to \in nodes
    PROVE  \E visit : VisitEquation(nodes, edges, visit)
  <1> DEFINE w == [v \in (SUBSET nodes) \X nodes |-> WalksOn(nodes, edges, v[1], v[2])]
  <1>1. ASSUME NEW path \in SUBSET nodes, NEW n \in nodes
        PROVE  WalksOn(nodes, edges, path, n)
                 <=> \/ n \in path
                     \/ \E d \in edges : d.from = n /\ w[<<path \cup {n}, d.to>>]
    <2>1. ASSUME NEW d \in edges
          PROVE  w[<<path \cup {n}, d.to>>] = WalksOn(nodes, edges, path \cup {n}, d.to)
      <3>1. <<path \cup {n}, d.to>> \in (SUBSET nodes) \X nodes
        OBVIOUS
      <3> QED
        BY <3>1
    <2> HIDE DEF w
    <2>2. WalksOn(nodes, edges, path, n)
            <=> \/ n \in path
                \/ \E d \in edges : d.from = n /\ WalksOn(nodes, edges, path \cup {n}, d.to)
      BY WalksOnStep
    <2>3. (\E d \in edges : d.from = n /\ w[<<path \cup {n}, d.to>>])
            <=> \E d \in edges : d.from = n /\ WalksOn(nodes, edges, path \cup {n}, d.to)
      BY <2>1
    <2> QED
      BY <2>2, <2>3
  <1>2. w = [v \in (SUBSET nodes) \X nodes |->
               \/ v[2] \in v[1]
               \/ \E d \in edges : d.from = v[2] /\ w[<<v[1] \cup {v[2]}, d.to>>]]
    <2>1. ASSUME NEW v \in (SUBSET nodes) \X nodes
          PROVE  WalksOn(nodes, edges, v[1], v[2])
                   = (\/ v[2] \in v[1]
                      \/ \E d \in edges : d.from = v[2] /\ w[<<v[1] \cup {v[2]}, d.to>>])
      <3>1. v[1] \in SUBSET nodes /\ v[2] \in nodes
        OBVIOUS
      <3>2. WalksOn(nodes, edges, v[1], v[2]) \in BOOLEAN
        BY DEF WalksOn
      <3> HIDE DEF w
      <3>3. WalksOn(nodes, edges, v[1], v[2])
              <=> \/ v[2] \in v[1]
                  \/ \E d \in edges : d.from = v[2] /\ w[<<v[1] \cup {v[2]}, d.to>>]
        BY <1>1, <3>1
      <3> QED
        BY <3>2, <3>3
    <2> QED
      BY <2>1
  <1> QED
    BY <1>2 DEF VisitEquation

\* And every solution is the walks: where one differs, it differs further on.
LEMMA WalksAreTheSolution ==
    ASSUME NEW nodes, IsFiniteSet(nodes), NEW edges,
           \A d \in edges : d.from \in nodes /\ d.to \in nodes,
           NEW visit, VisitEquation(nodes, edges, visit), NEW n \in nodes
    PROVE  visit[<<{}, n>>] <=> WalksOn(nodes, edges, {}, n)
  <1> DEFINE Bad(path) == \E m \in nodes : ~(visit[<<path, m>>] <=> WalksOn(nodes, edges, path, m))
             F == {rest \in SUBSET nodes : Bad(nodes \ rest)}
  <1>1. ASSUME NEW path \in SUBSET nodes, NEW m \in nodes
        PROVE  visit[<<path, m>>]
                 <=> \/ m \in path
                     \/ \E d \in edges : d.from = m /\ visit[<<path \cup {m}, d.to>>]
    <2>1. <<path, m>> \in (SUBSET nodes) \X nodes
      OBVIOUS
    <2> QED
      BY <2>1 DEF VisitEquation
  <1>2. F = {}
    <2> SUFFICES ASSUME F # {} PROVE FALSE
      OBVIOUS
    <2>1. F \subseteq SUBSET nodes
      OBVIOUS
    <2> HIDE DEF F
    <2>2. PICK rest \in F : \A other \in F : other \subseteq rest => other = rest
      BY <2>1, SmallestSubset
    <2> DEFINE path == nodes \ rest
    <2>3. rest \in SUBSET nodes /\ path \in SUBSET nodes
      BY <2>1, <2>2
    <2>4. PICK m \in nodes : ~(visit[<<path, m>>] <=> WalksOn(nodes, edges, path, m))
      BY <2>2 DEF F
    <2>5. m \notin path
      BY <1>1, <2>3, <2>4, WalksOnStep
    <2>6. /\ nodes \ (rest \ {m}) = path \cup {m}
          /\ rest \ {m} \subseteq rest /\ rest \ {m} # rest /\ rest \ {m} \in SUBSET nodes
      BY <2>3, <2>5
    <2>7. ~Bad(path \cup {m})
      BY <2>2, <2>6 DEF F
    <2>8. \A d \in edges : visit[<<path \cup {m}, d.to>>]
                             <=> WalksOn(nodes, edges, path \cup {m}, d.to)
      BY <2>7
    <2> HIDE DEF path
    <2>9. visit[<<path, m>>]
            <=> \/ m \in path
                \/ \E d \in edges : d.from = m /\ visit[<<path \cup {m}, d.to>>]
      BY <1>1, <2>3
    <2>10. WalksOn(nodes, edges, path, m)
             <=> \/ m \in path
                 \/ \E d \in edges : d.from = m /\ WalksOn(nodes, edges, path \cup {m}, d.to)
      BY <2>3, WalksOnStep
    <2>11. (\E d \in edges : d.from = m /\ visit[<<path \cup {m}, d.to>>])
             <=> \E d \in edges : d.from = m /\ WalksOn(nodes, edges, path \cup {m}, d.to)
      BY <2>8
    <2> QED
      BY <2>4, <2>9, <2>10, <2>11
  <1>3. nodes \notin F /\ nodes \ nodes = {}
    BY <1>2
  <1>4. ~Bad({})
    BY <1>3
  <1> QED
    BY <1>4

\* The ends of finitely many edges are finitely many.
LEMMA EndsFinite ==
    ASSUME NEW edges, IsFiniteSet(edges)
    PROVE  IsFiniteSet({d.from : d \in edges}) /\ IsFiniteSet({d.to : d \in edges})
  <1> DEFINE From == {d.from : d \in edges}
             To   == {d.to : d \in edges}
             f == [d \in edges |-> d.from]
             t == [d \in edges |-> d.to]
  <1>1. f \in Surjection(edges, From) /\ t \in Surjection(edges, To)
    BY DEF Surjection
  <1> HIDE DEF f, t
  <1> QED
    BY <1>1, FS_Surjection

\* The search runs into a cycle exactly if some event can walk on for ever.
LEMMA SearchIsWalk ==
    ASSUME NEW ids, IsFiniteSet(ids), NEW edges, IsFiniteSet(edges)
    PROVE  LET nodes == ids \cup {d.from : d \in edges} \cup {d.to : d \in edges}
           IN  RunsIntoCycle(ids, edges) <=> \E n \in ids : WalksOn(nodes, edges, {}, n)
  <1> DEFINE nodes == ids \cup {d.from : d \in edges} \cup {d.to : d \in edges}
             visit == CHOOSE f : VisitEquation(nodes, edges, f)
  <1>1. IsFiniteSet(nodes)
    <2>1. IsFiniteSet({d.from : d \in edges}) /\ IsFiniteSet({d.to : d \in edges})
      BY EndsFinite
    <2> QED
      BY <2>1, FS_Union
  <1>2. \A d \in edges : d.from \in nodes /\ d.to \in nodes
    OBVIOUS
  <1>3. RunsIntoCycle(ids, edges) <=> \E n \in ids : visit[<<{}, n>>]
    BY DEF RunsIntoCycle, VisitEquation
  <1>4. ids \subseteq nodes
    OBVIOUS
  <1> HIDE DEF nodes
  <1>5. VisitEquation(nodes, edges, visit)
    BY <1>2, WalksSolve
  <1> HIDE DEF visit
  <1>6. \A n \in ids : visit[<<{}, n>>] <=> WalksOn(nodes, edges, {}, n)
    BY <1>1, <1>2, <1>4, <1>5, WalksAreTheSolution
  <1> QED
    BY <1>3, <1>6 DEF nodes

\* The ids of finitely many events are finitely many.
LEMMA IdsFinite ==
    ASSUME NEW events, IsFiniteSet(events)
    PROVE  IsFiniteSet(Ids(events))
  <1> DEFINE f == [e \in events |-> e.id]
  <1>1. f \in Surjection(events, Ids(events))
    BY DEF Surjection, Ids
  <1> HIDE DEF f
  <1> QED
    BY <1>1, FS_Surjection

\* Events that each have a predecessor among them are found.
LEMMA SearchFindsCircles ==
    ASSUME NEW ids, IsFiniteSet(ids), NEW edges, IsFiniteSet(edges),
           NEW X \in SUBSET ids, X # {}, HasPredecessors(X, edges)
    PROVE  RunsIntoCycle(ids, edges)
  <1> DEFINE nodes == ids \cup {d.from : d \in edges} \cup {d.to : d \in edges}
  <1>1. IsFiniteSet(X)
    BY FS_Subset
  <1>2. PICK S \in SUBSET X : S # {} /\ HasSuccessors(S, edges)
    BY <1>1, CircleFromPredecessors
  <1>3. PICK n \in S : TRUE
    BY <1>2
  <1>4. S \in SUBSET nodes /\ n \in ids
    OBVIOUS
  <1>5. RunsIntoCycle(ids, edges) <=> \E m \in ids : WalksOn(nodes, edges, {}, m)
    BY SearchIsWalk
  <1> HIDE DEF nodes
  <1>6. WalksOn(nodes, edges, {}, n)
    BY <1>2, <1>4 DEF WalksOn, HasSuccessors
  <1> QED
    BY <1>4, <1>5, <1>6

\* And what is found is a circle.
LEMMA SearchFindsOnlyCircles ==
    ASSUME NEW ids, IsFiniteSet(ids), NEW edges, IsFiniteSet(edges),
           RunsIntoCycle(ids, edges)
    PROVE  Circular(edges)
  <1> DEFINE nodes == ids \cup {d.from : d \in edges} \cup {d.to : d \in edges}
  <1>1. RunsIntoCycle(ids, edges) <=> \E m \in ids : WalksOn(nodes, edges, {}, m)
    BY SearchIsWalk
  <1>2. IsFiniteSet(nodes)
    <2>1. IsFiniteSet({d.from : d \in edges}) /\ IsFiniteSet({d.to : d \in edges})
      BY EndsFinite
    <2> QED
      BY <2>1, FS_Union
  <1> HIDE DEF nodes
  <1>3. PICK n \in ids : WalksOn(nodes, edges, {}, n)
    BY <1>1
  <1>4. PICK S \in SUBSET nodes : n \in S /\ HasSuccessors(S, edges)
    BY <1>3 DEF WalksOn, HasSuccessors
  <1>5. IsFiniteSet(S)
    BY <1>2, FS_Subset
  <1>6. PICK X \in SUBSET S : X # {} /\ HasPredecessors(X, edges) /\ HasSuccessors(X, edges)
    BY <1>4, <1>5, CircleFromSuccessors
  <1>7. X \in SUBSET ({d.from : d \in edges} \cap {d.to : d \in edges})
    BY <1>6 DEF HasPredecessors, HasSuccessors
  <1> QED
    BY <1>6, <1>7 DEF Circular, HasPredecessors

\* A graph Validate accepts has no circle.
LEMMA ValidHasNoCircle ==
    ASSUME NEW ids, IsFiniteSet(ids), NEW edges, IsFiniteSet(edges), GraphValid(ids, edges)
    PROVE  ~Circular(Hard(edges))
  <1> SUFFICES ASSUME Circular(Hard(edges)) PROVE FALSE
    OBVIOUS
  <1>1. PICK circle : /\ circle \subseteq {d.from : d \in Hard(edges)}
                      /\ circle # {} /\ HasPredecessors(circle, Hard(edges))
    BY DEF Circular, HasPredecessors
  <1>2. circle \in SUBSET ids
    BY <1>1 DEF GraphValid, Hard
  <1>3. Hard(edges) \in SUBSET edges
    BY DEF Hard
  <1>4. IsFiniteSet(Hard(edges))
    BY <1>3, FS_Subset
  <1> QED
    BY <1>1, <1>2, <1>4, SearchFindsCircles DEF GraphValid

-----------------------------------------------------------------------------
(* What is said of cycles.                                                 *)

\* While BuildNodes builds, there is no circle in its way: the error it has for a
\* loop that finds no eligible event is never returned.
Unbroken == verdict = "building" => ~Circular(Hard(call.edges))

\* If every event that waits has a predecessor that waits, they wait in a circle.
LEMMA StuckIsCircular ==
    ASSUME IInv, verdict = "building", Eligible = {}, Placed # call.events
    PROVE  Circular(Hard(call.edges))
  <1> DEFINE R == DOMAIN indegree
             From == {d.from : d \in Hard(call.edges)}
             To   == {d.to : d \in Hard(call.edges)}
             circle == R \cap From
  <1>1. /\ R = Ids(call.events) \ Ids(Placed)
        /\ \A i \in R : indegree[i] = Cardinality(EdgesInto(i, R))
        /\ Distinct(call.events) /\ IsFiniteSet(call.edges) /\ Placed \subseteq call.events
    BY DEF IInv, Counting, CallOK, PlacedOK, Placed
  <1>2. R # {}
    <2>1. PICK f \in call.events : f \notin Placed
      BY <1>1
    <2>2. f.id \notin Ids(Placed)
      BY <1>1, <2>1 DEF Ids, Distinct
    <2> QED
      BY <1>1, <2>1, <2>2 DEF Ids
  <1>3. ASSUME NEW i \in R
        PROVE  \E d \in Hard(call.edges) : d.from \in circle /\ d.to = i
    <2>1. PICK f \in call.events : f.id = i
      BY <1>1, <1>3 DEF Ids
    <2>2. indegree[i] # 0
      BY <1>3, <2>1 DEF Eligible, Remaining
    <2>3. EdgesInto(i, R) # {}
      BY <1>1, <1>3, <2>2, FS_EmptySet
    <2> QED
      BY <2>3 DEF EdgesInto
  <1>4. circle # {}
    BY <1>2, <1>3
  <1>5. circle \in SUBSET (From \cap To)
    BY <1>3
  <1> QED
    BY <1>3, <1>4, <1>5 DEF Circular

\* A refused call says "cycle" exactly if hasHardCycle finds one.
LEMMA RejectionNamesCycles ==
    ASSUME NEW c, IsFiniteSet(c.events), IsFiniteSet(c.edges)
    PROVE  /\ Rejection(c) = "cycle" => Circular(Proper(c.edges))
           /\ Rejection(c) = "invalid" /\ Distinct(c.events) =>
                ~Circular({d \in Proper(c.edges) : {d.from, d.to} \subseteq Ids(c.events)})
  <1> DEFINE ids == Ids(c.events)
             E == Proper(c.edges)
             Inner == {d \in E : {d.from, d.to} \subseteq ids}
  <1>1. E \in SUBSET c.edges /\ Inner \subseteq E
    BY DEF Proper, Hard
  <1>2. IsFiniteSet(E) /\ IsFiniteSet(ids)
    BY <1>1, FS_Subset, IdsFinite
  <1>3. HasHardCycle(ids, c.edges) <=> RunsIntoCycle(ids, E)
    BY DEF HasHardCycle, Proper
  <1>4. Rejection(c) = "cycle" => HasHardCycle(ids, c.edges)
    BY DEF Rejection
  <1>5. Rejection(c) = "invalid" /\ Distinct(c.events) => ~HasHardCycle(ids, c.edges)
    BY DEF Rejection
  <1>6. ASSUME Circular(Inner)
        PROVE  RunsIntoCycle(ids, E)
    <2> HIDE DEF ids, E
    <2>1. PICK circle : /\ circle \subseteq {d.from : d \in Inner} /\ circle # {}
                        /\ HasPredecessors(circle, Inner)
      BY <1>6 DEF Circular, HasPredecessors
    <2>2. circle \in SUBSET ids /\ HasPredecessors(circle, E)
      BY <2>1 DEF HasPredecessors
    <2> QED
      BY <1>2, <2>1, <2>2, SearchFindsCircles
  <1> HIDE DEF ids, E
  <1>7. RunsIntoCycle(ids, E) => Circular(E)
    BY <1>2, SearchFindsOnlyCircles
  <1> QED
    BY <1>3, <1>4, <1>5, <1>6, <1>7 DEF ids, E

\* BuildNodes answers a call as its graph deserves.
LEMMA CallAnswers ==
    ASSUME NEW c, IsFiniteSet(c.events), IsFiniteSet(c.edges), CallBuildNodes(c)
    PROVE  Unbroken' /\ CyclesAreReported'
  <1>1. call' = c
    BY DEF CallBuildNodes
  <1>2. CASE Accepted(c)
    <2>1. verdict' = "building"
      BY <1>2 DEF CallBuildNodes
    <2>2. ~Circular(Hard(c.edges))
      BY <1>2, IdsFinite, ValidHasNoCircle DEF Accepted
    <2> QED
      BY <1>1, <2>1, <2>2 DEF Unbroken, CyclesAreReported
  <1>3. CASE ~Accepted(c)
    <2>1. verdict' = Rejection(c) /\ Rejection(c) \in {"cycle", "invalid"}
      BY <1>3 DEF CallBuildNodes, Rejection
    <2> QED
      BY <1>1, <2>1, RejectionNamesCycles DEF Unbroken, CyclesAreReported
  <1> QED
    BY <1>2, <1>3

\* The loop only ends when every event is placed.
LEMMA LoopEndsOrdered ==
    ASSUME IInv, Unbroken, LoopEnds
    PROVE  verdict = "building" /\ call' = call /\ verdict' = "ordered"
  <1>1. verdict = "building" /\ call' = call
    BY DEF LoopEnds
  <1>2. Placed = call.events
    BY <1>1, StuckIsCircular DEF LoopEnds, Unbroken
  <1> QED
    BY <1>1, <1>2 DEF LoopEnds, IInv, PlacedOK

\* The rest of BuildNodes and of its caller keeps to that.
LEMMA BuildAnswers ==
    ASSUME IInv, Unbroken, CyclesAreReported, Build \/ Return \/ UNCHANGED timelineVars
    PROVE  Unbroken' /\ CyclesAreReported'
  <1>1. ASSUME NEW e \in call.events, Select(e)
        PROVE  Unbroken' /\ CyclesAreReported'
    BY <1>1 DEF Select, Unbroken, CyclesAreReported
  <1>2. CASE LoopEnds
    BY <1>2, LoopEndsOrdered DEF Unbroken, CyclesAreReported
  <1>3. CASE Return
    BY <1>3 DEF Return, Unbroken, CyclesAreReported
  <1>4. CASE UNCHANGED timelineVars
    BY <1>4 DEF timelineVars, Unbroken, CyclesAreReported
  <1> QED
    BY <1>1, <1>2, <1>3, <1>4 DEF Build

\* Both hold of every execution.
LEMMA CyclesInvariance == Spec => [](Unbroken /\ CyclesAreReported)
  <1>1. TimelineInit => Unbroken /\ CyclesAreReported
    BY DEF TimelineInit, Unbroken, CyclesAreReported
  <1>2. IInv /\ Unbroken /\ CyclesAreReported /\ [Next]_timelineVars
          => Unbroken' /\ CyclesAreReported'
    BY CallAnswers, BuildAnswers, CallAssumption DEF Next, BuildNodes
  <1> QED
    BY <1>1, <1>2, Invariance, PTL DEF Spec

\* For any events and edges: what BuildNodes returns as ordered has no circle, what it
\* reports as a cycle has one, and what it refuses otherwise has none among its events.
THEOREM CyclesReported == Spec => []CyclesAreReported
  BY CyclesInvariance, PTL

-----------------------------------------------------------------------------
(* The refinement.                                                         *)

\* A turn of the loop emits an item whose predecessors are all emitted.
LEMMA SelectEmits ==
    ASSUME IInv, NEW e, Select(e)
    PROVE  Linear!Emit(e)
  <1>1. verdict = "building" /\ verdict' = verdict /\ call' = call
    BY DEF Select
  <1>2. /\ Items = call.events /\ Items' = Items /\ Emitted = placed /\ Emitted' = placed'
        /\ Before' = Before
        /\ Before = {p \in call.events \X call.events : HardEdges(p[1].id, p[2].id) # {}}
    BY <1>1 DEF Live, Items, Emitted, Before, HardEdges
  <1>3. Linear!Emitted = Placed
    BY <1>2 DEF Linear!Emitted, Placed
  <1>4. e \in Items \ Linear!Emitted /\ Emitted' = Append(Emitted, e)
    BY <1>2, <1>3, SelectAppends DEF Select
  <1>5. ASSUME NEW y \in Items, <<y, e>> \in Before
        PROVE  y \in Linear!Emitted
    <2>1. PICK d \in Hard(call.edges) : d.from = y.id /\ d.to = e.id
      BY <1>2, <1>5 DEF HardEdges
    <2>2. y.id \in Ids(Placed)
      BY <1>1, <2>1, SelectAppends, EligibleIsReady DEF IInv
    <2> QED
      BY <1>1, <1>2, <1>3, <1>5, <2>2 DEF Ids, IInv, Counting, Distinct, PlacedOK, Placed
  <1> QED
    BY <1>2, <1>4, <1>5 DEF Linear!Emit

\* Every step of BuildNodes is one of the ordering it promises, whoever calls it.
LEMMA StepOrders ==
    ASSUME IInv, Unbroken,
           (\E c : CallBuildNodes(c)) \/ Build \/ Return \/ UNCHANGED timelineVars
    PROVE  [Linear!Next]_(Linear!vars)
  <1> SUFFICES Linear!Next \/ (Items' = Items /\ Before' = Before /\ Emitted' = Emitted)
    BY DEF Linear!vars
  <1>1. CASE \E c : CallBuildNodes(c)
    <2>1. verdict = "idle" /\ placed = <<>> /\ placed' = <<>>
      BY <1>1 DEF CallBuildNodes, IInv, PlacedOK
    <2>2. Items = {} /\ Emitted = <<>> /\ Emitted' = <<>>
      BY <2>1 DEF Live, Items, Emitted
    <2> QED
      BY <2>2 DEF Linear!Begin, Linear!Next
  <1>2. ASSUME NEW e \in call.events, Select(e)
        PROVE  Linear!Next
    <2>1. Items = call.events
      BY <1>2 DEF Select, Live, Items
    <2> QED
      BY <1>2, <2>1, SelectEmits DEF Linear!Next
  <1>3. CASE LoopEnds
    <2>1. placed' = placed
      BY <1>3 DEF LoopEnds
    <2> QED
      BY <1>3, <2>1, LoopEndsOrdered DEF Live, Items, Before, Emitted, HardEdges
  <1>4. CASE Return
    <2>1. verdict' = "idle" /\ Items' = {} /\ Before' = {} /\ Emitted' = <<>>
      BY <1>4 DEF Return, Live, Items, Before, Emitted
    <2>2. CASE verdict = "ordered"
      <3>1. Linear!Emitted = Placed /\ Items = call.events
        BY <2>2 DEF Linear!Emitted, Placed, Live, Items, Emitted
      <3> QED
        BY <2>1, <2>2, <3>1 DEF Linear!End, Linear!Next, IInv, AllPlaced
    <2>3. CASE verdict # "ordered"
      BY <1>4, <2>1, <2>3 DEF Return, Results, Live, Items, Before, Emitted
    <2> QED
      BY <2>2, <2>3
  <1>5. CASE UNCHANGED timelineVars
    BY <1>5 DEF timelineVars, Live, Items, Before, Emitted, HardEdges
  <1> QED
    BY <1>1, <1>2, <1>3, <1>4, <1>5 DEF Build

\* BuildNodes implements the order the contract promises, for any events and edges: no
\* step puts an item before one it depends on, and none hands over an order that leaves
\* an item out.
THEOREM LinearExtensionImplemented == Spec => ImplementsLinearExtension
  <1>1. TimelineInit => Linear!Init
    BY DEF TimelineInit, Linear!Init, Live, Items, Before, Emitted
  <1>2. IInv /\ Unbroken /\ [Next]_timelineVars => [Linear!Next]_(Linear!vars)
    BY StepOrders DEF Next, BuildNodes
  <1> QED
    BY <1>1, <1>2, Invariance, CyclesInvariance, PTL
       DEF Spec, ImplementsLinearExtension, Linear!Spec
=============================================================================
