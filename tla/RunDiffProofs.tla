---------------------------- MODULE RunDiffProofs ----------------------------
(***************************************************************************)
(* Proofs about POST /v1/diffs: whatever the worker records between the    *)
(* handler's statements, a diff accounts for the evidence of both runs     *)
(* until a reset deletes it.                                               *)
(*                                                                         *)
(* The handler's copies are never compared with the tables again but in    *)
(* PutDiff: a run that is still there then was there all the time, since a *)
(* reset removes both runs or neither and nothing brings them back         *)
(* (Tables).  Until a reset deletes the events, what has been read under a *)
(* completed run is at least what it was judged on (Request, Building,     *)
(* Timelines).  The alignment is followed event by     *)
(* event (Progress): of each semantic key as many events of the what-if    *)
(* are taken as the baseline has had, or all there are.  From a complete   *)
(* alignment the rest is arithmetic: what it covers, what delta it shows   *)
(* and where the sides differ first.                                       *)
(***************************************************************************)
EXTENDS RunDiffProps, TimelineProofs

-----------------------------------------------------------------------------
(* The tables and the request.                                             *)

\* What the row of a run can be while it exists.
RowsOf(s) ==
    IF s = "base" THEN {Completed("base", replay.judged.base)}
    ELSE {Running, Completed("what", replay.judged.what)}

AnyRow == {Absent, Running, Completed("base", replay.judged.base),
           Completed("what", replay.judged.what)}

\* The events of T are all a run recorded, or, for the what-if, at least those it
\* was judged on.
Recorded(s, T) ==
    /\ T \subseteq replay[s]
    /\ IF s = "base" THEN T = replay[s] ELSE replay.judged[s] \subseteq T

Both    == \A s \in Sides : runs[s] \in RowsOf(s)
Neither == \A s \in Sides : runs[s] = Absent

\* Until a reset both runs exist and their events are stored; after it both or
\* neither exists, whatever a worker still ingests, and no diff without its runs.
Tables ==
    /\ replay \in Replays /\ pack \in Packs
    /\ sent \subseteq replay.what
    /\ stored \in [Sides -> SUBSET Events] /\ \A s \in Sides : stored[s] \subseteq replay[s]
    /\ runs \in [Sides -> AnyRow]
    /\ resets \in 0 .. MaxResets
    /\ resets = 0 => stored.base = replay.base /\ stored.what = sent
    /\ ~Both => resets # 0 /\ Neither /\ diffs = {}
    /\ runs.what.status = "COMPLETED" => replay.judged.what \subseteq sent

Stages == {"idle", "getBase", "getWhat", "events", "graph", "building", "align", "compose", "put"}
Replies == {"none", "created", "not found", "prerequisites", "lifecycle", "conflict", "failed"}
Comparing == {"events", "graph", "building", "align", "compose", "put"}

\* The handler goes on only with the runs it asked for, and they have not been
\* removed unless it is noted that a reset came between.
Request ==
    /\ pc \in Stages /\ reply \in Replies
    /\ pc # "idle" => reply = "none"
    /\ posts \in 0 .. MaxPosts
    /\ named \in Sides /\ side \in Sides
    /\ copy \in [Sides -> AnyRow] /\ \A s \in Sides : copy[s] \in RowsOf(s) \cup {Absent}
    /\ copy.what.status = "COMPLETED" => replay.judged.what \subseteq sent
    /\ pc \in Comparing => Prerequisites(copy)
    /\ pc \notin {"idle", "getBase"} /\ ~raced => Both
    /\ raced => resets # 0

TR == Tables /\ Request

-----------------------------------------------------------------------------
(* Steps that leave the tables or the request alone.                       *)

\* The two names are different.
LEMMA TwoSides == Sides = {"base", "what"} /\ \A s \in Sides : Other(s) \in Sides /\ Other(s) # s
  BY DEF Sides, Other

\* The rows do not depend on anything that changes.
LEMMA RowStatus ==
    /\ Absent.status = "ABSENT" /\ Running.status = "RUNNING"
    /\ \A s, events : Completed(s, events).status = "COMPLETED"
    /\ Absent # Running /\ \A s, events : Absent # Completed(s, events)
  BY DEF Absent, Running, Completed

\* Nor do they change.
LEMMA RowsStay ==
    ASSUME UNCHANGED <<replay, pack>>
    PROVE  AnyRow' = AnyRow /\ \A s : RowsOf(s)' = RowsOf(s)
  BY DEF AnyRow, RowsOf, Completed, Reproduces, SummaryOf, OracleMatches

\* What a replay records are finitely many events.
LEMMA ReplayIs ==
    ASSUME Tables
    PROVE  /\ \A s \in Sides : /\ replay[s] \subseteq Events /\ IsFiniteSet(replay[s])
                              /\ replay.judged[s] \subseteq replay[s]
                              /\ \A e \in replay[s] : e.parent \in Nat
           /\ {MaxPosts, MaxResets} \subseteq Nat
  BY RunDiffAssumption DEF Tables

\* The worker ingests.
LEMMA IngestTR ==
    ASSUME TR, Ingest
    PROVE  TR'
  <1>1. /\ replay.what \subseteq Events /\ replay.judged.what \subseteq replay.what
        /\ stored \in [Sides -> SUBSET Events]
    BY ReplayIs, TwoSides DEF TR, Tables
  <1>2. PICK e \in replay.what : /\ sent' = sent \cup {e}
                                 /\ stored' = [stored EXCEPT !["what"] = @ \cup {e}]
    BY <1>1 DEF Ingest
  <1>3. /\ UNCHANGED <<runs, diffs, copy, named, side, raced>>
        /\ UNCHANGED <<replay, pack, posts, resets, pc, reply>>
    BY DEF Ingest, buildVars, envVars
  <1>4. AnyRow' = AnyRow /\ \A s : RowsOf(s)' = RowsOf(s)
    BY <1>3, RowsStay
  <1>5. /\ stored' \in [Sides -> SUBSET Events] /\ stored'["base"] = stored["base"]
        /\ stored'["what"] = stored["what"] \cup {e}
    BY <1>1, <1>2, TwoSides
  <1>6. Tables'
    BY <1>1, <1>2, <1>3, <1>4, <1>5, TwoSides DEF TR, Tables, Both, Neither
  <1>7. Request'
    BY <1>2, <1>3, <1>4 DEF TR, Request, Prerequisites, Both
  <1> QED
    BY <1>6, <1>7 DEF TR

\* Steps that leave the tables alone.
LEMMA TablesStay ==
    ASSUME Tables, UNCHANGED <<replay, pack, sent, stored, runs, resets>>,
           Neither => diffs' = diffs
    PROVE  Tables' /\ Both' = Both
  <1>1. AnyRow' = AnyRow /\ \A s : RowsOf(s)' = RowsOf(s)
    BY RowsStay
  <1> QED
    BY <1>1 DEF Tables, Both, Neither

\* The worker that settles the what-if.
LEMMA CompleteTR ==
    ASSUME TR, Complete
    PROVE  TR'
  <1>1. /\ runs["what"] = Running /\ Both /\ replay.judged.what \subseteq sent
        /\ runs' = [runs EXCEPT !["what"] = Completed("what", replay.judged.what)]
    BY RowStatus, TwoSides DEF Complete, Ingested, TR, Tables, Both, Neither, RowsOf
  <1>2. /\ UNCHANGED <<stored, sent, diffs, copy, named, side, raced>>
        /\ UNCHANGED <<replay, pack, posts, resets, pc, reply>>
    BY DEF Complete, buildVars, envVars
  <1>3. AnyRow' = AnyRow /\ \A s : RowsOf(s)' = RowsOf(s)
    BY <1>2, RowsStay
  <1>4. /\ runs' \in [Sides -> AnyRow] /\ runs'["base"] = runs["base"]
        /\ runs'["what"] = Completed("what", replay.judged.what)
    BY <1>1, TwoSides DEF TR, Tables, AnyRow
  <1>5. Tables' /\ Both'
    BY <1>1, <1>2, <1>3, <1>4, TwoSides DEF TR, Tables, Both, RowsOf
  <1>6. Request'
    BY <1>2, <1>3, <1>5 DEF TR, Request, Prerequisites
  <1> QED
    BY <1>5, <1>6 DEF TR

\* A reset removes what is stored under both runs, and them unless they outlive it.
LEMMA ResetTR ==
    ASSUME TR, Reset
    PROVE  TR'
  <1>1. /\ stored' = [s \in Sides |-> {}]
        /\ resets < MaxResets /\ resets' = resets + 1 /\ raced' = (raced \/ pc # "idle")
        /\ UNCHANGED <<sent, copy, named, side, replay, pack, posts, pc, reply>>
    BY DEF Reset
  <1>5. \/ runs' = [s \in Sides |-> Absent] /\ diffs' = {}
        \/ UNCHANGED <<runs, diffs>>
    BY DEF Reset, Survive
  <1>2. AnyRow' = AnyRow /\ \A s : RowsOf(s)' = RowsOf(s)
    BY <1>1, RowsStay
  <1>3. resets \in Nat /\ resets' \in 0 .. MaxResets /\ resets' # 0
    BY <1>1, ReplayIs DEF TR, Tables
  <1>4. CASE runs' = [s \in Sides |-> Absent] /\ diffs' = {}
    <2>1. Tables'
      BY <1>1, <1>2, <1>3, <1>4, RowStatus, TwoSides DEF TR, Tables, Neither, AnyRow
    <2>2. Request'
      BY <1>1, <1>2, <1>3 DEF TR, Request, Prerequisites
    <2> QED
      BY <2>1, <2>2 DEF TR
  <1>6. CASE UNCHANGED <<runs, diffs>>
    <2>1. Both' = Both /\ Neither' = Neither
      BY <1>2, <1>6 DEF Both, Neither
    <2>2. Tables'
      BY <1>1, <1>2, <1>3, <1>6, <2>1, TwoSides DEF TR, Tables
    <2>3. Request'
      BY <1>1, <1>2, <1>3, <2>1 DEF TR, Request, Prerequisites
    <2> QED
      BY <2>2, <2>3 DEF TR
  <1> QED
    BY <1>4, <1>5, <1>6

\* A new request.
LEMMA PostDiffTR ==
    ASSUME TR, NEW b \in Sides, PostDiff(b)
    PROVE  TR'
  <1>1. /\ posts < MaxPosts /\ posts' = posts + 1 /\ named' = b /\ side' = "base"
        /\ copy' = [s \in Sides |-> Absent] /\ pc' = "getBase" /\ reply' = "none" /\ raced' = FALSE
        /\ UNCHANGED <<runs, stored, diffs, sent, replay, pack, resets>>
    BY DEF PostDiff, storeVars
  <1>2. AnyRow' = AnyRow /\ \A s : RowsOf(s)' = RowsOf(s)
    BY <1>1, RowsStay
  <1>3. Tables'
    BY <1>1, TablesStay DEF TR
  <1>4. posts' \in 0 .. MaxPosts
    BY <1>1, ReplayIs DEF TR, Tables, Request
  <1>5. copy' \in [Sides -> AnyRow] /\ \A s \in Sides : copy'[s] = Absent
    BY <1>1 DEF AnyRow
  <1>6. Request'
    BY <1>1, <1>2, <1>4, <1>5, RowStatus, TwoSides DEF Request, Stages, Replies, Comparing
  <1> QED
    BY <1>3, <1>6 DEF TR

\* The handler reads a run.
LEMMA ReadsRow ==
    ASSUME TR, NEW s \in Sides, Read(s), UNCHANGED <<replay, pack, sent>>
    PROVE  /\ copy' \in [Sides -> AnyRow'] /\ \A t \in Sides : copy'[t] \in (RowsOf(t) \cup {Absent})'
           /\ copy'.what.status = "COMPLETED" => replay.judged.what \subseteq sent
           /\ copy'[s] = runs[s] /\ \A t \in Sides : t # s => copy'[t] = copy[t]
  <1>1. AnyRow' = AnyRow /\ \A t : RowsOf(t)' = RowsOf(t)
    BY RowsStay
  <1>2. /\ copy \in [Sides -> AnyRow] /\ runs \in [Sides -> AnyRow]
        /\ copy' = [copy EXCEPT ![s] = runs[s]]
    BY DEF TR, Tables, Request, Read
  <1>3. /\ copy' \in [Sides -> AnyRow] /\ copy'[s] = runs[s]
        /\ \A t \in Sides : t # s => copy'[t] = copy[t]
    BY <1>2
  <1>4. \A t \in Sides : runs[t] \in RowsOf(t) \cup {Absent}
    BY DEF TR, Tables, Both, Neither
  <1> QED
    BY <1>1, <1>3, <1>4, TwoSides DEF TR, Tables, Request

\* GetRun of the run the request names.
LEMMA GetBaseTR ==
    ASSUME TR, GetBase
    PROVE  TR'
  <1>1. /\ pc = "getBase" /\ Read(named)
        /\ UNCHANGED <<runs, stored, diffs, sent, named, side, raced, replay, pack, posts, resets>>
    BY DEF GetBase, storeVars, envVars
  <1>2. \/ pc' = "idle" /\ reply' = "not found"
        \/ runs[named].status # "ABSENT" /\ pc' = "getWhat" /\ reply' = reply
    BY DEF GetBase, Answer, Go
  <1>3. Tables' /\ Both' = Both
    BY <1>1, TablesStay DEF TR
  <1>4. runs[named].status # "ABSENT" => Both
    BY RowStatus DEF TR, Tables, Neither, Request
  <1>5. Request'
    BY <1>1, <1>2, <1>3, <1>4, ReadsRow DEF TR, Request, Stages, Replies, Comparing
  <1> QED
    BY <1>3, <1>5 DEF TR

\* GetRun of the other one, and the prerequisites.
LEMMA GetWhatTR ==
    ASSUME TR, GetWhat
    PROVE  TR'
  <1>1. /\ pc = "getWhat" /\ Read(Other(named))
        /\ UNCHANGED <<runs, stored, diffs, sent, named, side, raced, replay, pack, posts, resets>>
    BY DEF GetWhat, storeVars, envVars
  <1>2. \/ pc' = "idle" /\ reply' = "not found"
        \/ Prerequisites(copy') /\ pc' = "events" /\ reply' = reply
        \/ pc' = "idle" /\ reply' = "prerequisites"
    BY DEF GetWhat, Answer, Go
  <1>3. Tables' /\ Both' = Both
    BY <1>1, TablesStay DEF TR
  <1>4. Prerequisites(copy') => Prerequisites(copy)'
    BY <1>1 DEF Prerequisites
  <1>5. Other(named) \in Sides
    BY TwoSides DEF TR, Request
  <1>6. Request'
    BY <1>1, <1>2, <1>3, <1>4, <1>5, ReadsRow DEF TR, Request, Stages, Replies, Comparing
  <1> QED
    BY <1>3, <1>6 DEF TR

\* The later steps of the handler read no run.
LEMMA RestTR ==
    ASSUME TR, UNCHANGED <<replay, pack, sent, stored, runs, resets>>,
           Neither => diffs' = diffs,
           UNCHANGED <<copy, named, raced, posts>>, pc \in Comparing, side' \in Sides,
           \/ pc' = "idle" /\ reply' \in Replies
           \/ pc' \in Comparing /\ reply' = reply
    PROVE  TR'
  <1>1. AnyRow' = AnyRow /\ \A s : RowsOf(s)' = RowsOf(s)
    BY RowsStay
  <1>2. Tables' /\ Both' = Both
    BY TablesStay DEF TR
  <1>3. Prerequisites(copy)' = Prerequisites(copy)
    BY DEF Prerequisites
  <1>4. Request'
    BY <1>1, <1>2, <1>3 DEF TR, Request, Stages, Replies, Comparing
  <1> QED
    BY <1>2, <1>4 DEF TR

\* What PutDiff does: a diff is stored only while both runs are there.
LEMMA PutDiffAnswers ==
    ASSUME TR, PutDiff
    PROVE  /\ pc' = "idle"
           /\ \/ reply' = "not found" /\ diffs' = diffs /\ ~Both
              \/ reply' = "lifecycle" /\ diffs' = diffs /\ Both /\ ~Prerequisites(runs)
              \/ reply' = "conflict" /\ diffs' = diffs
              \/ /\ reply' = "created" /\ diffs = {} /\ diffs' = {diff}
                 /\ Both /\ Prerequisites(runs)
  <1>1. ~Both => runs["base"].status = "ABSENT"
    BY TwoSides, RowStatus DEF TR, Tables, Neither
  <1>2. Both => \A s \in Sides : runs[s].status # "ABSENT"
    BY RowStatus DEF Both, RowsOf
  <1>3. CASE \E s \in Sides : runs[s].status = "ABSENT"
    <2>1. ~Prerequisites(runs)
      BY <1>2, <1>3, <1>1 DEF Prerequisites
    <2>2. Answer("not found") /\ UNCHANGED diffs
      BY <1>3, <2>1 DEF PutDiff
    <2> QED
      BY <1>2, <1>3, <2>2 DEF Answer
  <1>4. CASE (\A s \in Sides : runs[s].status # "ABSENT") /\ ~Prerequisites(runs)
    <2>1. Answer("lifecycle") /\ UNCHANGED diffs
      BY <1>4 DEF PutDiff
    <2> QED
      BY <1>1, <1>4, <2>1, TwoSides DEF Answer
  <1>5. CASE (\A s \in Sides : runs[s].status # "ABSENT") /\ Prerequisites(runs)
    <2>1. \/ Answer("conflict") /\ UNCHANGED diffs
          \/ Answer("created") /\ ~Taken /\ diffs' = diffs \cup {diff}
      BY <1>5 DEF PutDiff
    <2>2. Both
      BY <1>1, <1>5, TwoSides
    <2> QED
      BY <1>5, <2>1, <2>2 DEF Answer, Taken
  <1> QED
    BY <1>3, <1>4, <1>5

\* Both parts hold in every state.
LEMMA StepTR ==
    ASSUME TR, [DiffNext]_vars
    PROVE  TR'
  <1>1. CASE Ingest \/ Complete \/ Reset \/ \E b \in Sides : PostDiff(b)
    BY <1>1, IngestTR, CompleteTR, ResetTR, PostDiffTR
  <1>2. CASE GetBase \/ GetWhat
    BY <1>2, GetBaseTR, GetWhatTR
  <1>3. CASE LoadEvents \/ LoadGraph
    BY <1>3, RestTR DEF LoadEvents, LoadGraph, Go, storeVars, buildVars, envVars, Comparing, TR, Request
  <1>4. CASE BuildTurn
    BY <1>4, RestTR DEF BuildTurn, storeVars, buildVars, envVars, Comparing, TR, Request
  <1>5. CASE OrderEvents
    <2>1. /\ UNCHANGED <<replay, pack, sent, stored, runs, resets, diffs>>
          /\ UNCHANGED <<copy, named, raced, posts>> /\ pc = "building" /\ side' \in Sides
          /\ \/ pc' = "idle" /\ reply' = "failed"
             \/ pc' \in {"events", "align"} /\ reply' = reply
      BY <1>5, TwoSides DEF OrderEvents, Answer, Go, storeVars, envVars, TR, Request
    <2> QED
      BY <2>1, RestTR DEF Replies, Comparing
  <1>6. CASE AlignNext
    BY <1>6, RestTR DEF AlignNext, storeVars, buildVars, envVars, Comparing, TR, Request
  <1>7. CASE AlignRest \/ AlignByKey
    BY <1>7, RestTR DEF AlignRest, AlignByKey, Go, storeVars, buildVars, envVars, Comparing, TR, Request
  <1>8. CASE Compose
    <2>1. /\ UNCHANGED <<replay, pack, sent, stored, runs, resets, diffs>>
          /\ UNCHANGED <<copy, named, raced, posts, side>> /\ pc = "compose"
          /\ \/ pc' = "idle" /\ reply' = "failed"
             \/ pc' = "put" /\ reply' = reply
      BY <1>8 DEF Compose, Answer, Go, storeVars, envVars
    <2> QED
      BY <2>1, RestTR DEF Replies, Comparing, TR, Request
  <1>9. CASE PutDiff
    <2>1. /\ UNCHANGED <<replay, pack, sent, stored, runs, resets>>
          /\ UNCHANGED <<copy, named, raced, posts, side>> /\ pc = "put"
          /\ pc' = "idle" /\ reply' \in Replies
      BY <1>9 DEF PutDiff, Answer, buildVars, envVars, Replies
    <2>2. Neither => diffs' = diffs
      <3>1. Neither => ~Both
        BY RowStatus, TwoSides DEF Neither, Both, RowsOf
      <3> QED
        BY <1>9, <3>1, PutDiffAnswers
    <2> QED
      BY <2>1, <2>2, RestTR DEF Comparing, TR, Request
  <1>10. CASE UNCHANGED vars
    <2>1. /\ UNCHANGED <<replay, pack, sent, stored, runs, resets, diffs>>
          /\ UNCHANGED <<copy, named, raced, posts, side, pc, reply>>
      BY <1>10 DEF vars, storeVars, buildVars, envVars
    <2>2. AnyRow' = AnyRow /\ \A s : RowsOf(s)' = RowsOf(s)
      BY <2>1, RowsStay
    <2> QED
      BY <2>1, <2>2, TablesStay DEF TR, Request, Prerequisites
  <1> QED
    BY <1>1, <1>2, <1>3, <1>4, <1>5, <1>6, <1>7, <1>8, <1>9, <1>10 DEF DiffNext, Handler

-----------------------------------------------------------------------------
(* What the handler has read.                                              *)

\* A call of BuildNodes is under way exactly while the handler loads a graph, with
\* events of the run whose side it is.
Building ==
    /\ IInv /\ Unbroken /\ CyclesAreReported
    /\ verdict # "idle" <=> pc = "building"
    /\ pc \in {"getBase", "getWhat"} => side = "base"
    /\ pc \in {"graph", "building"} =>
         raw \subseteq replay[side] /\ (resets = 0 => Recorded(side, raw))
    /\ pc = "building" =>
         /\ call.edges = ParentChildEdges(call.events)
         /\ call.events \subseteq replay[side] /\ (resets = 0 => Recorded(side, call.events))

Composing == {"align", "compose", "put"}

\* A timeline has no event twice, and what it had to have.
Timelines ==
    /\ ordered \in [Sides -> Seq(Events)]
    /\ \A s \in Sides : /\ InTimeline(s) \subseteq replay[s]
                        /\ \A i, j \in DOMAIN ordered[s] : ordered[s][i] = ordered[s][j] => i = j
    /\ pc \in Composing => side = "what"
    /\ resets = 0 /\ pc \in Comparing /\ side = "what" => Recorded("base", InTimeline("base"))
    /\ resets = 0 /\ pc \in Composing => Recorded("what", InTimeline("what"))

Reading == Building /\ Timelines

\* The edges BuildRunGraph derives are edges.
LEMMA ParentEdges ==
    ASSUME NEW T, T \subseteq Events, IsFiniteSet(T), \A e \in T : e.parent \in Nat
    PROVE  ParentChildEdges(T) \subseteq Edge /\ IsFiniteSet(ParentChildEdges(T))
  <1> DEFINE C == {e \in T : e.parent # 0}
             f == [e \in C |-> [from |-> e.parent, to |-> e.id, type |-> "PARENT_CHILD"]]
  <1>1. ParentChildEdges(T) = {[from |-> e.parent, to |-> e.id, type |-> "PARENT_CHILD"] : e \in C}
    BY DEF ParentChildEdges
  <1>2. f \in Surjection(C, ParentChildEdges(T))
    BY <1>1 DEF Surjection
  <1>3. C \in SUBSET T
    OBVIOUS
  <1>4. IsFiniteSet(C)
    BY <1>3, FS_Subset
  <1>5. ParentChildEdges(T) \subseteq Edge
    BY <1>1, EventAssumption DEF Edge, EdgeTypes
  <1> HIDE DEF f, C
  <1> QED
    BY <1>2, <1>4, <1>5, FS_Surjection

\* What is stored while the handler compares is what it has to compare.
LEMMA StoredIsRecorded ==
    ASSUME TR, pc \in Comparing, resets = 0, NEW s \in Sides
    PROVE  Recorded(s, stored[s])
  <1>1. replay.judged.what \subseteq sent
    BY DEF TR, Request, Prerequisites
  <1> QED
    BY <1>1, TwoSides DEF TR, Tables, Recorded

\* Nothing the handler has read changes under it.
LEMMA ReadingStays ==
    ASSUME Reading, UNCHANGED <<timelineVars, ordered, side, raw, replay>>,
           resets' = resets \/ resets' # 0,
           \/ pc' = pc
           \/ pc = "getBase" /\ pc' \in {"idle", "getWhat"}
           \/ pc = "getWhat" /\ pc' \in {"idle", "events"}
           \/ pc \in Composing /\ pc' \in Composing \cup {"idle"}
    PROVE  Reading'
  <1>1. IInv' /\ Unbroken' /\ CyclesAreReported'
    BY StepKeeps, BuildAnswers DEF Reading, Building
  <1>2. call' = call /\ verdict' = verdict
    BY DEF timelineVars
  <1>3. Building'
    BY <1>1, <1>2 DEF Reading, Building, Recorded, Composing
  <1>4. \A s \in Sides : InTimeline(s)' = InTimeline(s)
    BY DEF InTimeline
  <1>5. InTimeline("base")' = InTimeline("base") /\ InTimeline("what")' = InTimeline("what")
    BY <1>4, TwoSides
  <1>6. Timelines'
    BY <1>4, <1>5 DEF Reading, Building, Timelines, Recorded, Composing, Comparing
  <1> QED
    BY <1>3, <1>6 DEF Reading

\* A new request has read nothing.
LEMMA PostDiffReads ==
    ASSUME TR, Reading, NEW b \in Sides, PostDiff(b)
    PROVE  Reading'
  <1>1. /\ UNCHANGED timelineVars /\ ordered' = [s \in Sides |-> <<>>] /\ side' = "base"
        /\ verdict = "idle" /\ pc' = "getBase" /\ replay' = replay
    BY DEF PostDiff
  <1>2. IInv' /\ Unbroken' /\ CyclesAreReported'
    BY <1>1, StepKeeps, BuildAnswers DEF Reading, Building
  <1>3. verdict' = "idle"
    BY <1>1 DEF timelineVars
  <1>4. \A s \in Sides : ordered'[s] = <<>> /\ InTimeline(s)' = {}
    BY <1>1 DEF InTimeline
  <1>5. ordered' \in [Sides -> Seq(Events)]
    BY <1>1
  <1> QED
    BY <1>1, <1>2, <1>3, <1>4, <1>5 DEF Reading, Building, Timelines, Composing, Comparing

\* EventsForRun.
LEMMA LoadEventsReads ==
    ASSUME TR, Reading, LoadEvents
    PROVE  Reading'
  <1>1. /\ UNCHANGED timelineVars /\ UNCHANGED <<ordered, side, replay, resets>>
        /\ pc = "events" /\ pc' = "graph" /\ raw' = stored[side]
    BY DEF LoadEvents, Go, envVars
  <1>2. IInv' /\ Unbroken' /\ CyclesAreReported'
    BY <1>1, StepKeeps, BuildAnswers DEF Reading, Building
  <1>3. call' = call /\ verdict' = verdict
    BY <1>1 DEF timelineVars
  <1>4. stored[side] \subseteq replay[side] /\ (resets = 0 => Recorded(side, stored[side]))
    BY <1>1, StoredIsRecorded DEF TR, Tables, Request, Comparing
  <1>5. Building'
    BY <1>1, <1>2, <1>3, <1>4 DEF Reading, Building, Recorded
  <1>6. \A s \in Sides : InTimeline(s)' = InTimeline(s)
    BY <1>1 DEF InTimeline
  <1>7. InTimeline("base")' = InTimeline("base") /\ InTimeline("what")' = InTimeline("what")
    BY <1>6, TwoSides
  <1>8. Timelines'
    BY <1>1, <1>6, <1>7 DEF Reading, Timelines, Recorded, Composing, Comparing
  <1> QED
    BY <1>5, <1>8 DEF Reading

\* GraphsForRun.
LEMMA LoadGraphReads ==
    ASSUME TR, Reading, LoadGraph
    PROVE  Reading'
  <1> DEFINE c == [events |-> stored[side], edges |-> ParentChildEdges(stored[side])]
  <1>1. /\ UNCHANGED <<raw, ordered, side, replay, resets>>
        /\ pc = "graph" /\ pc' = "building" /\ CallBuildNodes(c)
    BY DEF LoadGraph, Go, buildVars, envVars
  <1>2. stored[side] \subseteq replay[side] /\ (resets = 0 => Recorded(side, stored[side]))
    BY <1>1, StoredIsRecorded DEF TR, Tables, Request, Comparing
  <1>3. stored[side] \in SUBSET replay[side] /\ IsFiniteSet(replay[side])
    BY <1>2, ReplayIs DEF TR, Request
  <1>4. /\ c.events \subseteq Events /\ IsFiniteSet(c.events)
        /\ \A e \in c.events : e.parent \in Nat
    BY <1>3, ReplayIs, FS_Subset DEF TR, Request
  <1>5. c.edges \subseteq Edge /\ IsFiniteSet(c.edges)
    BY <1>4, ParentEdges
  <1>6. /\ call' = c /\ verdict' # "idle"
        /\ call'.events = stored[side] /\ call'.edges = ParentChildEdges(stored[side])
    BY <1>1 DEF CallBuildNodes, Rejection
  <1> HIDE DEF c
  <1>7. IInv' /\ Unbroken' /\ CyclesAreReported'
    BY <1>1, <1>4, <1>5, CallKeeps, CallAnswers DEF Reading, Building
  <1>8. Building'
    BY <1>1, <1>2, <1>6, <1>7 DEF Reading, Building, Recorded
  <1>9. \A s \in Sides : InTimeline(s)' = InTimeline(s)
    BY <1>1 DEF InTimeline
  <1>10. InTimeline("base")' = InTimeline("base") /\ InTimeline("what")' = InTimeline("what")
    BY <1>9, TwoSides
  <1>11. Timelines'
    BY <1>1, <1>9, <1>10 DEF Reading, Timelines, Recorded, Composing, Comparing
  <1> QED
    BY <1>8, <1>11 DEF Reading

\* The loop of BuildNodes.
LEMMA BuildTurnReads ==
    ASSUME Reading, BuildTurn
    PROVE  Reading'
  <1>1. /\ UNCHANGED <<raw, ordered, side, replay, resets, pc>> /\ pc = "building" /\ Build
    BY DEF BuildTurn, buildVars, envVars
  <1>2. IInv' /\ Unbroken' /\ CyclesAreReported'
    BY <1>1, StepKeeps, BuildAnswers DEF Reading, Building, Next
  <1>3. call' = call /\ verdict' # "idle"
    BY <1>1 DEF Build, Select, LoopEnds
  <1>4. Building'
    BY <1>1, <1>2, <1>3 DEF Reading, Building, Recorded
  <1>5. \A s \in Sides : InTimeline(s)' = InTimeline(s)
    BY <1>1 DEF InTimeline
  <1>6. InTimeline("base")' = InTimeline("base") /\ InTimeline("what")' = InTimeline("what")
    BY <1>5, TwoSides
  <1>7. Timelines'
    BY <1>1, <1>5, <1>6 DEF Reading, Timelines, Recorded, Composing, Comparing
  <1> QED
    BY <1>4, <1>7 DEF Reading

\* Order.
LEMMA OrderEventsReads ==
    ASSUME TR, Reading, OrderEvents
    PROVE  Reading'
  <1>1. /\ pc = "building" /\ Return /\ UNCHANGED <<replay, resets, raw>> /\ side \in Sides
    BY DEF OrderEvents, envVars, TR, Request
  <1>2. IInv' /\ Unbroken' /\ CyclesAreReported' /\ verdict' = "idle"
    BY <1>1, StepKeeps, BuildAnswers DEF Reading, Building, Next, Return
  <1>3. CASE verdict = "ordered" /\ OrderAccepts(raw, placed, call.edges)
    <2>1. /\ ordered' = [ordered EXCEPT ![side] = placed] /\ side' = "what"
          /\ pc' = (IF side = "base" THEN "events" ELSE "align")
      BY <1>3 DEF OrderEvents, Go
    <2>2. /\ placed \in Seq(call.events) /\ Placed = call.events
          /\ \A i, j \in DOMAIN placed : placed[i] = placed[j] => i = j
      BY <1>3 DEF Reading, Building, IInv, PlacedOK, AllPlaced
    <2>3. call.events \subseteq replay[side] /\ (resets = 0 => Recorded(side, call.events))
      BY <1>1 DEF Reading, Building
    <2>4. call.events \subseteq Events
      BY DEF Reading, Building, IInv, CallOK
    <2>5. /\ ordered' \in [Sides -> Seq(Events)] /\ ordered'[side] = placed
          /\ \A s \in Sides : s # side => ordered'[s] = ordered[s]
      BY <1>1, <2>1, <2>2, <2>4 DEF Reading, Timelines
    <2>6. \A s \in Sides : InTimeline(s)' = IF s = side THEN call.events ELSE InTimeline(s)
      <3>1. ASSUME NEW s \in Sides, s = side
            PROVE  InTimeline(s)' = call.events
        BY <2>2, <2>5, <3>1 DEF InTimeline, Placed
      <3>2. ASSUME NEW s \in Sides, s # side
            PROVE  InTimeline(s)' = InTimeline(s)
        BY <2>5, <3>2 DEF InTimeline
      <3> QED
        BY <3>1, <3>2
    <2>7. Building'
      BY <1>1, <1>2, <2>1 DEF Building
    <2>8. CASE side = "base"
      <3>1. InTimeline("base")' = call.events /\ InTimeline("what")' = InTimeline("what")
        BY <2>6, <2>8, TwoSides
      <3>2. Timelines'
        BY <1>1, <2>1, <2>2, <2>3, <2>5, <2>6, <2>8, <3>1, TwoSides
           DEF Reading, Timelines, Recorded, Composing, Comparing
      <3> QED
        BY <2>7, <3>2 DEF Reading
    <2>9. CASE side = "what"
      <3>1. InTimeline("what")' = call.events /\ InTimeline("base")' = InTimeline("base")
        BY <2>6, <2>9, TwoSides
      <3>2. Timelines'
        BY <1>1, <2>1, <2>2, <2>3, <2>5, <2>6, <2>9, <3>1, TwoSides
           DEF Reading, Timelines, Recorded, Composing, Comparing
      <3> QED
        BY <2>7, <3>2 DEF Reading
    <2> QED
      BY <1>1, <2>8, <2>9, TwoSides
  <1>4. CASE ~(verdict = "ordered" /\ OrderAccepts(raw, placed, call.edges))
    <2>1. UNCHANGED <<ordered, side>> /\ pc' = "idle"
      BY <1>4 DEF OrderEvents, Answer
    <2>2. Building'
      BY <1>1, <1>2, <2>1 DEF Building
    <2>3. \A s \in Sides : InTimeline(s)' = InTimeline(s)
      BY <2>1 DEF InTimeline
    <2>4. Timelines'
      BY <1>1, <2>1, <2>3 DEF Reading, Timelines, Composing, Comparing
    <2> QED
      BY <2>2, <2>4 DEF Reading
  <1> QED
    BY <1>3, <1>4

\* It holds after every step.
LEMMA StepReads ==
    ASSUME TR, Reading, [DiffNext]_vars
    PROVE  Reading'
  <1>1. CASE Ingest \/ Complete \/ Reset
    <2>1. UNCHANGED <<timelineVars, ordered, side, raw, replay, pc>>
      BY <1>1 DEF Ingest, Complete, Reset, buildVars, envVars
    <2>2. resets' = resets \/ resets' # 0
      BY <1>1 DEF Ingest, Complete, Reset, envVars, TR, Tables
    <2> QED
      BY <2>1, <2>2, ReadingStays
  <1>2. CASE \E b \in Sides : PostDiff(b)
    BY <1>2, PostDiffReads
  <1>3. CASE GetBase \/ GetWhat
    <2>1. UNCHANGED <<timelineVars, ordered, side, raw, replay, resets>>
      BY <1>3 DEF GetBase, GetWhat, envVars
    <2>2. \/ pc = "getBase" /\ pc' \in {"idle", "getWhat"}
          \/ pc = "getWhat" /\ pc' \in {"idle", "events"}
      BY <1>3 DEF GetBase, GetWhat, Answer, Go
    <2> QED
      BY <2>1, <2>2, ReadingStays
  <1>4. CASE LoadEvents \/ LoadGraph \/ BuildTurn \/ OrderEvents
    BY <1>4, LoadEventsReads, LoadGraphReads, BuildTurnReads, OrderEventsReads
  <1>5. CASE AlignNext \/ AlignRest \/ AlignByKey \/ Compose \/ PutDiff
    <2>1. UNCHANGED <<timelineVars, ordered, side, raw, replay, resets>>
      BY <1>5 DEF AlignNext, AlignRest, AlignByKey, Compose, PutDiff, buildVars, envVars
    <2>2. pc \in Composing /\ pc' \in Composing \cup {"idle"}
      <3>1. CASE AlignNext \/ AlignRest \/ AlignByKey
        BY <3>1 DEF AlignNext, AlignRest, AlignByKey, Go, Composing
      <3>2. CASE Compose
        BY <3>2 DEF Compose, Answer, Go, Composing
      <3>3. CASE PutDiff
        BY <3>3, PutDiffAnswers DEF PutDiff, Composing
      <3> QED
        BY <1>5, <3>1, <3>2, <3>3
    <2> QED
      BY <2>1, <2>2, ReadingStays
  <1>6. CASE UNCHANGED vars
    BY <1>6, ReadingStays DEF vars, buildVars, envVars
  <1> QED
    BY <1>1, <1>2, <1>3, <1>4, <1>5, <1>6 DEF DiffNext, Handler

\* Nothing has been posted.
LEMMA InitReads == Init => TR /\ Reading
  <1> SUFFICES ASSUME Init PROVE TR /\ Reading
    OBVIOUS
  <1>1. replay \in Replays /\ pack \in Packs
    BY DEF Init
  <1>2. /\ \A s \in Sides : /\ replay[s] \subseteq Events /\ IsFiniteSet(replay[s])
                            /\ replay.judged[s] \subseteq replay[s]
        /\ {MaxPosts, MaxResets} \subseteq Nat
    BY <1>1, RunDiffAssumption
  <1>3. /\ runs = [base |-> Completed("base", replay.judged.base), what |-> Running]
        /\ stored = [base |-> replay.base, what |-> {}]
        /\ copy = [s \in Sides |-> Absent]
    BY DEF Init
  <1>4. runs \in [Sides -> AnyRow] /\ runs["base"] \in RowsOf("base") /\ runs["what"] \in RowsOf("what")
    BY <1>3, TwoSides DEF AnyRow, RowsOf
  <1>5. stored \in [Sides -> SUBSET Events] /\ stored["base"] = replay.base /\ stored["what"] = {}
    BY <1>2, <1>3, TwoSides
  <1>6. runs["what"].status = "RUNNING"
    BY <1>3, RowStatus
  <1>7. Tables
    BY <1>1, <1>2, <1>4, <1>5, <1>6, TwoSides DEF Init, Tables, Both
  <1>8. copy \in [Sides -> AnyRow] /\ \A s \in Sides : copy[s] = Absent
    BY <1>3 DEF AnyRow
  <1>9. Request
    BY <1>2, <1>8, RowStatus, TwoSides DEF Init, Request, Stages, Replies, Comparing
  <1>10. Building
    BY InitHolds DEF Init, Building, TimelineInit, Unbroken, CyclesAreReported
  <1>11. \A s \in Sides : ordered[s] = <<>> /\ InTimeline(s) = {}
    BY DEF Init, InTimeline
  <1>12. ordered \in [Sides -> Seq(Events)]
    BY DEF Init
  <1>13. Timelines
    BY <1>11, <1>12 DEF Init, Timelines, Composing, Comparing
  <1> QED
    BY <1>7, <1>9, <1>10, <1>13 DEF TR, Reading

-----------------------------------------------------------------------------
(* Grouping by key.  WithKey appends events one by one; as for the search  *)
(* of the timeline, its value is found by writing a solution down and by   *)
(* looking at the first place where something would go wrong.              *)

\* How many of the first n events of t have key k.
Occurrences(t, k, n) == Cardinality({i \in 1 .. n : KeyOf(t[i]) = k})

\* g groups the first n events.
Groups(t, k, n, g) ==
    g = [i \in 0 .. n |->
            IF i = 0 THEN <<>>
            ELSE IF KeyOf(t[i]) = k THEN Append(g[i - 1], t[i]) ELSE g[i - 1]]

\* A number counts up by one at an occurrence.
LEMMA OccurrencesStep ==
    ASSUME NEW t, NEW k, NEW n \in Nat
    PROVE  /\ Occurrences(t, k, n) \in Nat /\ Occurrences(t, k, 0) = 0
           /\ KeyOf(t[n + 1]) = k => Occurrences(t, k, n + 1) = Occurrences(t, k, n) + 1
           /\ KeyOf(t[n + 1]) # k => Occurrences(t, k, n + 1) = Occurrences(t, k, n)
  <1> DEFINE O(m) == {i \in 1 .. m : KeyOf(t[i]) = k}
  <1>1. IsFiniteSet(1 .. n)
    BY FS_Interval
  <1>2. O(n) \in SUBSET (1 .. n)
    OBVIOUS
  <1>3. IsFiniteSet(O(n)) /\ Cardinality(O(n)) \in Nat
    BY <1>1, <1>2, FS_Subset, FS_CardinalityType
  <1>4. O(0) = {}
    OBVIOUS
  <1>5. CASE KeyOf(t[n + 1]) = k
    <2>1. O(n + 1) = O(n) \cup {n + 1} /\ n + 1 \notin O(n)
      BY <1>5
    <2> HIDE DEF O
    <2>2. Cardinality(O(n + 1)) = Cardinality(O(n)) + 1
      BY <1>3, <2>1, FS_AddElement
    <2> QED
      BY <1>3, <1>4, <1>5, <2>2, FS_EmptySet DEF Occurrences, O
  <1>6. CASE KeyOf(t[n + 1]) # k
    <2>1. O(n + 1) = O(n)
      BY <1>6
    <2> QED
      BY <1>3, <1>4, <1>6, <2>1, FS_EmptySet DEF Occurrences
  <1> QED
    BY <1>5, <1>6

\* The groups, event by event.
LEMMA GroupsUnfold ==
    ASSUME NEW t, NEW k, NEW n \in Nat, NEW g, Groups(t, k, n, g), NEW i \in 1 .. n
    PROVE  g[i] = IF KeyOf(t[i]) = k THEN Append(g[i - 1], t[i]) ELSE g[i - 1]
  <1>1. PICK f : f = g
    OBVIOUS
  <1>2. g = [j \in 0 .. n |->
               IF j = 0 THEN <<>>
               ELSE IF KeyOf(t[j]) = k THEN Append(f[j - 1], t[j]) ELSE f[j - 1]]
    BY <1>1, Zenon DEF Groups
  <1>3. i \in 0 .. n /\ i # 0
    OBVIOUS
  <1>4. g[i] = IF KeyOf(t[i]) = k THEN Append(f[i - 1], t[i]) ELSE f[i - 1]
    BY <1>2, <1>3
  <1> QED
    BY <1>1, <1>4

\* Any number of events can be grouped.
LEMMA GroupsExist ==
    ASSUME NEW t, NEW k, NEW n \in Nat
    PROVE  \E g : Groups(t, k, n, g)
  <1> DEFINE T == {m \in Nat : ~\E g : Groups(t, k, m, g)}
  <1> SUFFICES ASSUME T # {} PROVE FALSE
    OBVIOUS
  <1>1. PICK m \in T : \A l \in T : m <= l
    BY LeastNatural
  <1>2. m \in Nat /\ ~\E g : Groups(t, k, m, g)
    BY <1>1
  <1>3. CASE m = 0
    <2> DEFINE g == [i \in 0 .. 0 |-> <<>>]
    <2>1. g = [i \in 0 .. 0 |->
                 IF i = 0 THEN <<>>
                 ELSE IF KeyOf(t[i]) = k THEN Append(g[i - 1], t[i]) ELSE g[i - 1]]
      OBVIOUS
    <2> HIDE DEF g
    <2> QED
      BY <1>2, <1>3, <2>1 DEF Groups
  <1>4. CASE m # 0
    <2>1. m - 1 \in Nat /\ ~(m <= m - 1)
      BY <1>2, <1>4
    <2>2. m - 1 \notin T
      BY <1>1, <2>1
    <2>3. PICK g : Groups(t, k, m - 1, g)
      BY <2>1, <2>2
    <2> DEFINE Last == IF KeyOf(t[m]) = k THEN Append(g[m - 1], t[m]) ELSE g[m - 1]
               h == [i \in 0 .. m |-> IF i < m THEN g[i] ELSE Last]
    <2>4. /\ \A i \in 0 .. m - 1 : h[i] = g[i]
          /\ h[m] = Last /\ m \in 0 .. m /\ m - 1 \in 0 .. m - 1
      BY <1>2, <2>1
    <2>5. g[0] = <<>>
      BY <2>1, <2>3 DEF Groups
    <2>6. \A i \in 1 .. m - 1 : g[i] = IF KeyOf(t[i]) = k THEN Append(g[i - 1], t[i]) ELSE g[i - 1]
      BY <2>1, <2>3, GroupsUnfold
    <2>7. ASSUME NEW i \in 0 .. m
          PROVE  h[i] = IF i = 0 THEN <<>>
                        ELSE IF KeyOf(t[i]) = k THEN Append(h[i - 1], t[i]) ELSE h[i - 1]
      <3> HIDE DEF h
      <3>1. CASE i = 0
        BY <2>1, <2>4, <2>5, <3>1
      <3>2. CASE i \in 1 .. m - 1
        <4>1. i \in 0 .. m - 1 /\ i - 1 \in 0 .. m - 1 /\ i # 0
          BY <2>1, <3>2
        <4>2. h[i] = g[i] /\ h[i - 1] = g[i - 1]
          BY <2>4, <4>1
        <4> QED
          BY <2>6, <3>2, <4>1, <4>2
      <3>3. CASE i = m
        <4>1. h[m - 1] = g[m - 1]
          BY <2>4
        <4> QED
          BY <1>4, <2>4, <3>3, <4>1
      <3> QED
        BY <1>2, <3>1, <3>2, <3>3
    <2>8. h = [i \in 0 .. m |->
                 IF i = 0 THEN <<>>
                 ELSE IF KeyOf(t[i]) = k THEN Append(h[i - 1], t[i]) ELSE h[i - 1]]
      BY <2>7
    <2> HIDE DEF h
    <2> QED
      BY <1>2, <2>8 DEF Groups
  <1> QED
    BY <1>3, <1>4

\* What w must be to hold, in order, the events of key k among the first n of t.
Ranked(t, k, n, w) ==
    /\ Len(w) = Occurrences(t, k, n) /\ Len(w) \in Nat /\ DOMAIN w = 1 .. Len(w)
    /\ \A i \in 1 .. n : KeyOf(t[i]) = k =>
         Occurrences(t, k, i) \in 1 .. Len(w) /\ w[Occurrences(t, k, i)] = t[i]
    /\ \A j \in 1 .. Len(w) :
         \E i \in 1 .. n : KeyOf(t[i]) = k /\ w[j] = t[i] /\ Occurrences(t, k, i) = j

\* One more event.
LEMMA RankedStep ==
    ASSUME NEW S, NEW t, NEW k, NEW n \in Nat, t[n + 1] \in S, NEW w \in Seq(S), Ranked(t, k, n, w),
           NEW v, v = IF KeyOf(t[n + 1]) = k THEN Append(w, t[n + 1]) ELSE w
    PROVE  v \in Seq(S) /\ Ranked(t, k, n + 1, v)
  <1>1. \A i \in 1 .. n + 1 : i \in 1 .. n \/ i = n + 1
    OBVIOUS
  <1>2. n + 1 \in 1 .. n + 1 /\ \A i \in 1 .. n : i \in 1 .. n + 1
    OBVIOUS
  <1>3. CASE KeyOf(t[n + 1]) = k
    <2>1. /\ v \in Seq(S) /\ Len(v) = Len(w) + 1 /\ DOMAIN v = 1 .. Len(w) + 1
          /\ v[Len(w) + 1] = t[n + 1] /\ \A j \in 1 .. Len(w) : v[j] = w[j]
          /\ Len(w) \in Nat
      BY <1>3
    <2>2. Occurrences(t, k, n + 1) = Len(w) + 1
      BY <1>3, OccurrencesStep DEF Ranked
    <2>3. /\ \A j \in 1 .. Len(w) + 1 : j \in 1 .. Len(w) \/ j = Len(w) + 1
          /\ Len(w) + 1 \in 1 .. Len(w) + 1 /\ \A j \in 1 .. Len(w) : j \in 1 .. Len(w) + 1
      BY <2>1
    <2>4. \A i \in 1 .. n + 1 : KeyOf(t[i]) = k =>
            Occurrences(t, k, i) \in 1 .. Len(v) /\ v[Occurrences(t, k, i)] = t[i]
      BY <1>1, <2>1, <2>2, <2>3 DEF Ranked
    <2>5. \A j \in 1 .. Len(v) :
            \E i \in 1 .. n + 1 : KeyOf(t[i]) = k /\ v[j] = t[i] /\ Occurrences(t, k, i) = j
      BY <1>2, <1>3, <2>1, <2>2, <2>3 DEF Ranked
    <2> QED
      BY <2>1, <2>2, <2>4, <2>5 DEF Ranked
  <1>4. CASE KeyOf(t[n + 1]) # k
    <2>1. v = w /\ Occurrences(t, k, n + 1) = Occurrences(t, k, n)
      BY <1>4, OccurrencesStep
    <2> QED
      BY <1>1, <1>2, <1>4, <2>1 DEF Ranked
  <1> QED
    BY <1>3, <1>4

\* The group of a key holds the events of that key, each at its rank.
LEMMA WithKeyRanks ==
    ASSUME NEW S, NEW t \in Seq(S), NEW k
    PROVE  WithKey(t, k) \in Seq(S) /\ Ranked(t, k, Len(t), WithKey(t, k))
  <1> DEFINE g == CHOOSE f : Groups(t, k, Len(t), f)
  <1>1. WithKey(t, k) = g[Len(t)]
    BY DEF WithKey, Groups
  <1>2. Len(t) \in Nat /\ \A i \in 1 .. Len(t) : t[i] \in S
    OBVIOUS
  <1>3. Groups(t, k, Len(t), g)
    BY <1>2, GroupsExist
  <1> HIDE DEF g
  <1>4. g[0] = <<>>
    BY <1>2, <1>3 DEF Groups
  <1>5. \A i \in 1 .. Len(t) : g[i] = IF KeyOf(t[i]) = k THEN Append(g[i - 1], t[i]) ELSE g[i - 1]
    BY <1>2, <1>3, GroupsUnfold
  <1> DEFINE Fine(n) == g[n] \in Seq(S) /\ Ranked(t, k, n, g[n])
             T == {n \in 0 .. Len(t) : ~Fine(n)}
  <1>6. T = {}
    <2> SUFFICES ASSUME T # {} PROVE FALSE
      OBVIOUS
    <2>1. T \subseteq Nat
      BY <1>2
    <2>2. PICK n \in T : \A l \in T : n <= l
      BY <2>1, LeastNatural
    <2>3. n \in 0 .. Len(t) /\ ~Fine(n)
      BY <2>2
    <2> HIDE DEF T
    <2>4. CASE n = 0
      <3>1. <<>> \in Seq(S) /\ Len(<<>>) = 0 /\ DOMAIN <<>> = 1 .. 0
        OBVIOUS
      <3>2. Occurrences(t, k, 0) = 0
        BY OccurrencesStep
      <3>3. Ranked(t, k, 0, <<>>)
        BY <3>1, <3>2 DEF Ranked
      <3> QED
        BY <1>4, <2>3, <2>4, <3>1, <3>3
    <2>5. CASE n # 0
      <3>1. PICK m \in Nat : n = m + 1 /\ m \in 0 .. Len(t) /\ n \in 1 .. Len(t) /\ m = n - 1
        BY <1>2, <2>3, <2>5
      <3>2. Fine(m)
        <4>1. m \notin T
          BY <2>2, <3>1
        <4> QED
          BY <3>1, <4>1 DEF T
      <3>3. g[m + 1] = IF KeyOf(t[m + 1]) = k THEN Append(g[m], t[m + 1]) ELSE g[m]
        BY <1>5, <3>1
      <3>4. t[m + 1] \in S
        BY <1>2, <3>1
      <3>5. g[m + 1] \in Seq(S) /\ Ranked(t, k, m + 1, g[m + 1])
        BY <3>2, <3>3, <3>4, RankedStep
      <3> QED
        BY <2>3, <3>1, <3>5
    <2> QED
      BY <2>4, <2>5
  <1>7. Fine(Len(t))
    <2>1. Len(t) \in 0 .. Len(t)
      BY <1>2
    <2> QED
      BY <1>6, <2>1
  <1> QED
    BY <1>1, <1>7

-----------------------------------------------------------------------------
(* The alignment.                                                          *)

Firsts  == {p[1] : p \in matched}
Seconds == {p[2] : p \in matched}
Seen    == {ordered["base"][i] : i \in 1 .. cursor}

\* A pair is an event of each side with the same key and the same rank.
Paired ==
    /\ IsFiniteSet(matched)
    /\ \A p \in matched :
         /\ p \in InTimeline("base") \X InTimeline("what")
         /\ KeyOf(p[1]) = KeyOf(p[2]) /\ Rank("base", p[1]) = Rank("what", p[2])
    /\ changed = UNION {Changes(p[1], p[2]) : p \in matched}

\* Of each key as many events of the what-if are taken, from the first on, as the
\* baseline has had, or all there are.
Progress(k) ==
    /\ Consumed(k) \in 0 .. Len(WithKey(ordered["what"], k))
    /\ \/ Consumed(k) = Occurrences(ordered["base"], k, cursor)
       \/ Consumed(k) = Len(WithKey(ordered["what"], k))
    /\ \A j \in 1 .. Consumed(k) : WithKey(ordered["what"], k)[j] \in Seconds

\* The loop over the baseline's timeline.
Aligning ==
    pc = "align" =>
        /\ cursor \in 0 .. Len(ordered["base"])
        /\ Paired /\ Firsts \subseteq Seen /\ removed = Seen \ Firsts
        /\ \A k : Progress(k)
        /\ \A r \in removed : Consumed(KeyOf(r)) = Len(WithKey(ordered["what"], KeyOf(r)))

\* The alignment is complete.
Aligned ==
    pc \in {"compose", "put"} =>
        /\ Paired /\ removed = InTimeline("base") \ Firsts
        /\ pack = "checkout" => added = InTimeline("what") \ Seconds
        /\ pack = "dev" => added = {e \in InTimeline("what") \ Seconds :
                                      \E b \in InTimeline("base") : KeyOf(b) = KeyOf(e)}
        /\ \A r \in removed : \A a \in added : KeyOf(r) # KeyOf(a)

\* Before it nothing is aligned; the dev pack has no loop.
Unaligned ==
    pc \in (Stages \ Composing) \ {"idle"} \/ (pc = "align" /\ pack = "dev") =>
        cursor = 0 /\ matched = {} /\ removed = {} /\ changed = {}

Alignment == Aligning /\ Aligned /\ Unaligned

\* An event is where it is, and its rank is how often its key has occurred there.
LEMMA RankIs ==
    ASSUME Timelines, NEW s \in Sides, NEW i \in DOMAIN ordered[s]
    PROVE  /\ IndexIn(s, ordered[s][i]) = i
           /\ Rank(s, ordered[s][i]) = Occurrences(ordered[s], KeyOf(ordered[s][i]), i)
  <1>1. ordered[s] \in Seq(Events) /\ \A j, l \in DOMAIN ordered[s] : ordered[s][j] = ordered[s][l] => j = l
    BY DEF Timelines
  <1>2. IndexIn(s, ordered[s][i]) = i
    BY <1>1 DEF IndexIn
  <1> DEFINE k == KeyOf(ordered[s][i])
  <1>3. {j \in DOMAIN ordered[s] : KeyOf(ordered[s][j]) = k /\ j <= i} = {j \in 1 .. i : KeyOf(ordered[s][j]) = k}
    <2>1. DOMAIN ordered[s] = 1 .. Len(ordered[s]) /\ Len(ordered[s]) \in Nat
      BY <1>1
    <2>2. \A j : j \in DOMAIN ordered[s] /\ j <= i <=> j \in 1 .. i
      BY <2>1
    <2> HIDE DEF k
    <2> QED
      BY <2>2
  <1> QED
    BY <1>2, <1>3 DEF Rank, Occurrences

\* The events of a key, each at its rank, and only those.
LEMMA GroupIs ==
    ASSUME Timelines, NEW s \in Sides, NEW k
    PROVE  /\ Ranked(ordered[s], k, Len(ordered[s]), WithKey(ordered[s], k))
           /\ Len(WithKey(ordered[s], k)) \in Nat
           /\ DOMAIN WithKey(ordered[s], k) = 1 .. Len(WithKey(ordered[s], k))
           /\ \A j \in 1 .. Len(WithKey(ordered[s], k)) :
                LET e == WithKey(ordered[s], k)[j]
                IN  e \in InTimeline(s) /\ KeyOf(e) = k /\ Rank(s, e) = j
           /\ \A e \in InTimeline(s) : KeyOf(e) = k =>
                /\ Rank(s, e) \in 1 .. Len(WithKey(ordered[s], k))
                /\ WithKey(ordered[s], k)[Rank(s, e)] = e
  <1> DEFINE w == WithKey(ordered[s], k)
  <1>1. ordered[s] \in Seq(Events)
    BY DEF Timelines
  <1>2. DOMAIN ordered[s] = 1 .. Len(ordered[s])
    BY <1>1
  <1>3. Ranked(ordered[s], k, Len(ordered[s]), w)
    BY <1>1, WithKeyRanks
  <1> HIDE DEF w
  <1>4. Len(w) \in Nat /\ DOMAIN w = 1 .. Len(w)
    BY <1>3 DEF Ranked
  <1>5. ASSUME NEW j \in 1 .. Len(w)
        PROVE  w[j] \in InTimeline(s) /\ KeyOf(w[j]) = k /\ Rank(s, w[j]) = j
    <2>1. PICK i \in 1 .. Len(ordered[s]) :
            /\ KeyOf(ordered[s][i]) = k /\ w[j] = ordered[s][i]
            /\ Occurrences(ordered[s], k, i) = j
      BY <1>3 DEF Ranked
    <2>2. i \in DOMAIN ordered[s]
      BY <1>2
    <2>3. Rank(s, ordered[s][i]) = Occurrences(ordered[s], KeyOf(ordered[s][i]), i)
      BY <2>2, RankIs
    <2> QED
      BY <2>1, <2>2, <2>3 DEF InTimeline
  <1>6. ASSUME NEW e \in InTimeline(s), KeyOf(e) = k
        PROVE  Rank(s, e) \in 1 .. Len(w) /\ w[Rank(s, e)] = e
    <2>1. PICK i \in DOMAIN ordered[s] : e = ordered[s][i]
      BY DEF InTimeline
    <2>2. Rank(s, e) = Occurrences(ordered[s], k, i)
      BY <1>6, <2>1, RankIs
    <2> QED
      BY <1>2, <1>3, <1>6, <2>1, <2>2 DEF Ranked
  <1> QED
    BY <1>3, <1>4, <1>5, <1>6 DEF w

\* A pair more is consumed for its key, and for no other.
LEMMA ConsumedStep ==
    ASSUME IsFiniteSet(matched), NEW b, NEW c, <<b, c>> \notin matched,
           matched' = matched \cup {<<b, c>>}, NEW k
    PROVE  /\ Consumed(k) \in Nat
           /\ KeyOf(b) = k => Consumed(k)' = Consumed(k) + 1
           /\ KeyOf(b) # k => Consumed(k)' = Consumed(k)
  <1> DEFINE M == {p \in matched : KeyOf(p[1]) = k}
             N == {p \in matched' : KeyOf(p[1]) = k}
  <1>1. M \in SUBSET matched
    OBVIOUS
  <1>2. IsFiniteSet(M) /\ Cardinality(M) \in Nat
    BY <1>1, FS_Subset, FS_CardinalityType
  <1>3. Consumed(k) = Cardinality(M) /\ Consumed(k)' = Cardinality(N)
    BY DEF Consumed
  <1>4. ASSUME KeyOf(b) = k
        PROVE  Cardinality(N) = Cardinality(M) + 1
    <2>1. N = M \cup {<<b, c>>} /\ <<b, c>> \notin M
      BY <1>4
    <2> HIDE DEF M, N
    <2> QED
      BY <1>2, <2>1, FS_AddElement
  <1>5. ASSUME KeyOf(b) # k
        PROVE  N = M
    BY <1>5
  <1> QED
    BY <1>2, <1>3, <1>4, <1>5

\* Nothing moves in the timelines while they are aligned.
LEMMA RanksStay ==
    ASSUME UNCHANGED ordered
    PROVE  /\ \A s : InTimeline(s)' = InTimeline(s)
           /\ \A s, e : Rank(s, e)' = Rank(s, e) /\ IndexIn(s, e)' = IndexIn(s, e)
  BY DEF InTimeline, Rank, IndexIn

\* What one pair more adds.
LEMMA OnePairMore ==
    ASSUME NEW b, NEW c, matched' = matched \cup {<<b, c>>}
    PROVE  /\ Firsts' = Firsts \cup {b} /\ Seconds' = Seconds \cup {c}
           /\ UNION {Changes(p[1], p[2]) : p \in matched'}
                = (UNION {Changes(p[1], p[2]) : p \in matched}) \cup Changes(b, c)
  <1>1. PICK q : q = <<b, c>> /\ q[1] = b /\ q[2] = c
    <2>1. <<b, c>>[1] = b /\ <<b, c>>[2] = c
      OBVIOUS
    <2> QED
      BY <2>1, Zenon
  <1>2. PICK N : N = matched'
    OBVIOUS
  <1>3. N = matched \cup {q}
    BY <1>1, <1>2
  <1>4. {p[1] : p \in N} = {p[1] : p \in matched} \cup {q[1]}
    BY <1>3
  <1>5. {p[2] : p \in N} = {p[2] : p \in matched} \cup {q[2]}
    BY <1>3
  <1>6. UNION {Changes(p[1], p[2]) : p \in N}
          = (UNION {Changes(p[1], p[2]) : p \in matched}) \cup Changes(q[1], q[2])
    <2>1. {Changes(p[1], p[2]) : p \in N}
            = {Changes(p[1], p[2]) : p \in matched} \cup {Changes(q[1], q[2])}
      BY <1>3
    <2> QED
      BY <2>1
  <1> QED
    BY <1>1, <1>2, <1>4, <1>5, <1>6 DEF Firsts, Seconds

\* The loop starts with nothing aligned.
LEMMA AlignStarts ==
    Timelines /\ cursor = 0 /\ matched = {} /\ removed = {} /\ changed = {} => Aligning
  <1> SUFFICES ASSUME Timelines, cursor = 0, matched = {}, removed = {}, changed = {}
               PROVE  Aligning
    OBVIOUS
  <1>1. ordered["base"] \in Seq(Events)
    BY TwoSides DEF Timelines
  <1>2. 0 \in 0 .. Len(ordered["base"])
    BY <1>1
  <1>3. Firsts = {} /\ Seen = {}
    BY DEF Firsts, Seen
  <1>4. Paired
    BY FS_EmptySet DEF Paired
  <1>5. ASSUME NEW k
        PROVE  Progress(k)
    <2>1. {p \in matched : KeyOf(p[1]) = k} = {}
      OBVIOUS
    <2>2. Consumed(k) = 0
      BY <2>1, FS_EmptySet DEF Consumed
    <2>3. Occurrences(ordered["base"], k, 0) = 0
      BY OccurrencesStep
    <2>4. Len(WithKey(ordered["what"], k)) \in Nat
      BY GroupIs, TwoSides
    <2> QED
      BY <2>2, <2>3, <2>4 DEF Progress
  <1> QED
    BY <1>2, <1>3, <1>4, <1>5 DEF Aligning

\* The next event of the baseline is one the loop has not seen.
LEMMA NextIsNew ==
    ASSUME Timelines, cursor \in 0 .. Len(ordered["base"]), cursor < Len(ordered["base"]),
           NEW b, b = ordered["base"][cursor + 1]
    PROVE  /\ cursor \in Nat /\ cursor + 1 \in DOMAIN ordered["base"]
           /\ cursor + 1 \in 0 .. Len(ordered["base"])
           /\ b \in InTimeline("base") /\ b \notin Seen
           /\ {ordered["base"][i] : i \in 1 .. cursor + 1} = Seen \cup {b}
           /\ Rank("base", b) = Occurrences(ordered["base"], KeyOf(b), cursor + 1)
           /\ \A k : /\ KeyOf(b) = k => Occurrences(ordered["base"], k, cursor + 1)
                                         = Occurrences(ordered["base"], k, cursor) + 1
                     /\ KeyOf(b) # k => Occurrences(ordered["base"], k, cursor + 1)
                                         = Occurrences(ordered["base"], k, cursor)
  <1>1. /\ ordered["base"] \in Seq(Events)
        /\ \A i, j \in DOMAIN ordered["base"] : ordered["base"][i] = ordered["base"][j] => i = j
    BY TwoSides DEF Timelines
  <1>2. /\ DOMAIN ordered["base"] = 1 .. Len(ordered["base"]) /\ cursor \in Nat
        /\ Len(ordered["base"]) \in Nat
    BY <1>1
  <1>3. /\ cursor + 1 \in DOMAIN ordered["base"] /\ cursor + 1 \in 0 .. Len(ordered["base"])
        /\ \A i \in 1 .. cursor : i \in DOMAIN ordered["base"] /\ i # cursor + 1
        /\ \A i : i \in 1 .. cursor + 1 <=> i \in 1 .. cursor \/ i = cursor + 1
    BY <1>2
  <1>4. b \notin Seen
    BY <1>1, <1>3 DEF Seen
  <1>5. {ordered["base"][i] : i \in 1 .. cursor + 1} = Seen \cup {b}
    BY <1>3 DEF Seen
  <1>6. Rank("base", b) = Occurrences(ordered["base"], KeyOf(b), cursor + 1)
    BY <1>3, RankIs, TwoSides
  <1>7. \A k : /\ KeyOf(b) = k => Occurrences(ordered["base"], k, cursor + 1)
                                    = Occurrences(ordered["base"], k, cursor) + 1
               /\ KeyOf(b) # k => Occurrences(ordered["base"], k, cursor + 1)
                                    = Occurrences(ordered["base"], k, cursor)
    BY <1>2, OccurrencesStep
  <1>8. b \in InTimeline("base")
    BY <1>3 DEF InTimeline
  <1> QED
    BY <1>2, <1>3, <1>4, <1>5, <1>6, <1>7, <1>8

\* A baseline event for which a partner is left.
LEMMA MatchKeeps ==
    ASSUME TR, Timelines, Aligning, pc = "align", cursor < Len(ordered["base"]),
           NEW b, b = ordered["base"][cursor + 1],
           NEW n, n = Consumed(KeyOf(b)) + 1, n <= Len(WithKey(ordered["what"], KeyOf(b))),
           NEW c, c = WithKey(ordered["what"], KeyOf(b))[n],
           cursor' = cursor + 1, matched' = matched \cup {<<b, c>>},
           changed' = changed \cup Changes(b, c), UNCHANGED <<removed, ordered, pack>>
    PROVE  Aligning'
  <1> DEFINE W == ordered["what"]
             B == ordered["base"]
             key == KeyOf(b)
  <1>1. /\ cursor \in 0 .. Len(B) /\ Paired /\ Firsts \subseteq Seen /\ removed = Seen \ Firsts
        /\ \A k : Progress(k)
        /\ \A r \in removed : Consumed(KeyOf(r)) = Len(WithKey(W, KeyOf(r)))
    BY DEF Aligning
  <1>2. /\ cursor \in Nat /\ cursor + 1 \in 0 .. Len(B) /\ b \in InTimeline("base") /\ b \notin Seen
        /\ {B[i] : i \in 1 .. cursor + 1} = Seen \cup {b}
        /\ Rank("base", b) = Occurrences(B, key, cursor + 1)
    BY <1>1, NextIsNew
  <1>3. \A k : /\ key = k => Occurrences(B, k, cursor + 1) = Occurrences(B, k, cursor) + 1
               /\ key # k => Occurrences(B, k, cursor + 1) = Occurrences(B, k, cursor)
    BY <1>1, NextIsNew
  <1>4. \A k : Len(WithKey(W, k)) \in Nat
    BY GroupIs, TwoSides
  <1>5. /\ Consumed(key) \in Nat /\ n \in 1 .. Len(WithKey(W, key))
        /\ n = Occurrences(B, key, cursor + 1)
    BY <1>1, <1>3, <1>4 DEF Progress
  <1>6. c \in InTimeline("what") /\ KeyOf(c) = key /\ Rank("what", c) = n
    BY <1>5, GroupIs, TwoSides
  <1>7. <<b, c>> \notin matched
    BY <1>1, <1>2 DEF Firsts
  <1>8. \A k : /\ key = k => Consumed(k)' = Consumed(k) + 1
               /\ key # k => Consumed(k)' = Consumed(k)
    BY <1>1, <1>7, ConsumedStep DEF Paired
  <1>9. Firsts' = Firsts \cup {b} /\ Seconds' = Seconds \cup {c} /\ Seen' = Seen \cup {b}
    <2>1. Seen' = {B[i] : i \in 1 .. cursor + 1}
      BY DEF Seen
    <2> QED
      BY <1>2, <2>1, OnePairMore
  <1>10. Paired'
    <2>1. IsFiniteSet(matched')
      BY <1>1, FS_AddElement DEF Paired
    <2>2. UNION {Changes(p[1], p[2]) : p \in matched'} = changed \cup Changes(b, c)
      <3>1. changed = UNION {Changes(p[1], p[2]) : p \in matched}
        BY <1>1 DEF Paired
      <3> QED
        BY <3>1, OnePairMore
    <2>3. \A x, y : Changes(x, y)' = Changes(x, y)
      BY DEF Changes
    <2>4. changed' = UNION {Changes(p[1], p[2])' : p \in matched'}
      BY <2>2, <2>3
    <2>5. /\ InTimeline("base")' = InTimeline("base") /\ InTimeline("what")' = InTimeline("what")
          /\ \A s, e : Rank(s, e)' = Rank(s, e)
      BY RanksStay
    <2>6. ASSUME NEW p \in matched'
          PROVE  /\ p \in InTimeline("base") \X InTimeline("what")
                 /\ KeyOf(p[1]) = KeyOf(p[2]) /\ Rank("base", p[1]) = Rank("what", p[2])
      <3>1. CASE p \in matched
        BY <1>1, <3>1 DEF Paired
      <3>2. CASE p = <<b, c>>
        BY <1>2, <1>5, <1>6, <3>2
      <3> QED
        BY <3>1, <3>2
    <2> QED
      BY <2>1, <2>4, <2>5, <2>6 DEF Paired
  <1>11. ASSUME NEW k
         PROVE  Progress(k)'
    <2>1. WithKey(ordered["what"], k)' = WithKey(W, k)
      BY DEF WithKey
    <2>2. \A m : Occurrences(ordered["base"], k, m)' = Occurrences(B, k, m)
      BY DEF Occurrences
    <2>3. Progress(k) /\ Seconds \subseteq Seconds'
      BY <1>1, <1>9
    <2>4. CASE k = key
      <3>1. Consumed(k)' = n /\ n = Occurrences(B, k, cursor + 1) /\ n \in 0 .. Len(WithKey(W, k))
        BY <1>5, <1>8, <2>4
      <3>2. ASSUME NEW j \in 1 .. n
            PROVE  WithKey(W, k)[j] \in Seconds'
        <4>1. CASE j \in 1 .. Consumed(k)
          BY <2>3, <4>1 DEF Progress
        <4>2. CASE j = n
          BY <1>9, <2>4, <4>2
        <4> QED
          BY <1>5, <2>4, <4>1, <4>2
      <3>3. Occurrences(ordered["base"], k, cursor)' = Occurrences(B, k, cursor + 1)
        BY <2>2
      <3> QED
        BY <2>1, <3>1, <3>2, <3>3 DEF Progress
    <2>5. CASE k # key
      <3>1. Consumed(k)' = Consumed(k) /\ Occurrences(B, k, cursor + 1) = Occurrences(B, k, cursor)
        BY <1>3, <1>8, <2>5
      <3>2. Occurrences(ordered["base"], k, cursor)' = Occurrences(B, k, cursor + 1)
        BY <2>2
      <3> QED
        BY <2>1, <2>3, <3>1, <3>2 DEF Progress
    <2> QED
      BY <2>4, <2>5
  <1>12. ASSUME NEW r \in removed
         PROVE  Consumed(KeyOf(r))' = Len(WithKey(W, KeyOf(r)))
    <2>1. Consumed(KeyOf(r)) = Len(WithKey(W, KeyOf(r)))
      BY <1>1
    <2>2. KeyOf(r) # key
      BY <1>4, <1>5, <2>1
    <2> QED
      BY <1>8, <2>1, <2>2
  <1>13. \A k : WithKey(ordered["what"], k)' = WithKey(W, k)
    BY DEF WithKey
  <1>14. Firsts' \subseteq Seen' /\ removed' = Seen' \ Firsts'
    BY <1>1, <1>2, <1>9
  <1> QED
    BY <1>2, <1>10, <1>11, <1>12, <1>13, <1>14 DEF Aligning

\* A baseline event for which none is left.
LEMMA RemoveKeeps ==
    ASSUME Timelines, Aligning, pc = "align", cursor < Len(ordered["base"]),
           NEW b, b = ordered["base"][cursor + 1],
           Consumed(KeyOf(b)) + 1 > Len(WithKey(ordered["what"], KeyOf(b))),
           cursor' = cursor + 1, removed' = removed \cup {b},
           UNCHANGED <<matched, changed, ordered, pack>>
    PROVE  Aligning'
  <1> DEFINE W == ordered["what"]
             B == ordered["base"]
             key == KeyOf(b)
  <1>1. /\ cursor \in 0 .. Len(B) /\ Paired /\ Firsts \subseteq Seen /\ removed = Seen \ Firsts
        /\ \A k : Progress(k)
        /\ \A r \in removed : Consumed(KeyOf(r)) = Len(WithKey(W, KeyOf(r)))
    BY DEF Aligning
  <1>2. /\ cursor \in Nat /\ cursor + 1 \in 0 .. Len(B) /\ b \notin Seen
        /\ {B[i] : i \in 1 .. cursor + 1} = Seen \cup {b}
    BY <1>1, NextIsNew
  <1>3. \A k : key # k => Occurrences(B, k, cursor + 1) = Occurrences(B, k, cursor)
    BY <1>1, NextIsNew
  <1>4. \A k : Len(WithKey(W, k)) \in Nat
    BY GroupIs, TwoSides
  <1>5. Consumed(key) = Len(WithKey(W, key))
    BY <1>1, <1>4 DEF Progress
  <1>6. /\ Firsts' = Firsts /\ Seconds' = Seconds /\ \A k : Consumed(k)' = Consumed(k)
        /\ \A k : WithKey(ordered["what"], k)' = WithKey(W, k)
        /\ \A k, m : Occurrences(ordered["base"], k, m)' = Occurrences(B, k, m)
    BY DEF Firsts, Seconds, Consumed, WithKey, Occurrences
  <1>7. Seen' = Seen \cup {b}
    <2>1. Seen' = {B[i] : i \in 1 .. cursor + 1}
      BY DEF Seen
    <2> QED
      BY <1>2, <2>1
  <1>8. Paired'
    <2>1. \A x, y : Changes(x, y)' = Changes(x, y)
      BY DEF Changes
    <2>2. changed' = UNION {Changes(p[1], p[2])' : p \in matched}
      BY <1>1, <2>1 DEF Paired
    <2> QED
      BY <1>1, <2>2, RanksStay DEF Paired
  <1>9. ASSUME NEW k
        PROVE  Progress(k)'
    <2>1. CASE k = key
      BY <1>1, <1>5, <1>6, <2>1 DEF Progress
    <2>2. CASE k # key
      <3>1. Occurrences(ordered["base"], k, cursor)' = Occurrences(B, k, cursor + 1)
        BY <1>6
      <3> QED
        BY <1>1, <1>3, <1>6, <2>2, <3>1 DEF Progress
    <2> QED
      BY <2>1, <2>2
  <1>10. Firsts' \subseteq Seen' /\ removed' = Seen' \ Firsts'
    BY <1>1, <1>2, <1>6, <1>7
  <1>11. \A r \in removed' : Consumed(KeyOf(r))' = Len(WithKey(ordered["what"], KeyOf(r))')
    BY <1>1, <1>5, <1>6
  <1> QED
    BY <1>2, <1>6, <1>8, <1>9, <1>10, <1>11 DEF Aligning

\* One turn of the loop.
LEMMA AlignNextAligns ==
    ASSUME TR, Timelines, Alignment, AlignNext
    PROVE  Alignment'
  <1> DEFINE b == ordered["base"][cursor + 1]
             candidates == WithKey(ordered["what"], KeyOf(b))
             n == Consumed(KeyOf(b)) + 1
  <1>1. /\ pc = "align" /\ pc' = "align" /\ pack = "checkout" /\ cursor < Len(ordered["base"])
        /\ cursor' = cursor + 1 /\ UNCHANGED <<ordered, pack>>
    BY DEF AlignNext, buildVars, envVars
  <1>2. \/ n > Len(candidates) /\ removed' = removed \cup {b} /\ UNCHANGED <<matched, changed>>
        \/ /\ ~(n > Len(candidates)) /\ matched' = matched \cup {<<b, candidates[n]>>}
           /\ changed' = changed \cup Changes(b, candidates[n]) /\ UNCHANGED removed
    BY DEF AlignNext
  <1>3. Len(candidates) \in Nat /\ Aligning
    BY GroupIs, TwoSides DEF Alignment
  <1>4. n \in Nat
    BY <1>1, <1>3 DEF Aligning, Progress
  <1>5. Aligning'
    <2>1. CASE n > Len(candidates)
      BY <1>1, <1>2, <1>3, <2>1, RemoveKeeps
    <2>2. CASE n <= Len(candidates)
      BY <1>1, <1>2, <1>3, <1>4, <2>2, MatchKeeps
    <2> QED
      BY <1>3, <1>4, <2>1, <2>2
  <1> QED
    BY <1>1, <1>5 DEF Alignment, Aligned, Unaligned, Stages, Composing

\* After the loop what has no partner is added.
LEMMA AlignRestAligns ==
    ASSUME Timelines, Alignment, AlignRest
    PROVE  Alignment'
  <1>1. /\ pc = "align" /\ pc' = "compose" /\ pack = "checkout" /\ cursor = Len(ordered["base"])
        /\ added' = InTimeline("what") \ Seconds
        /\ UNCHANGED <<cursor, matched, removed, changed, ordered, pack>>
    BY DEF AlignRest, Go, buildVars, envVars, Seconds
  <1>2. /\ Paired /\ removed = Seen \ Firsts
        /\ \A r \in removed : Consumed(KeyOf(r)) = Len(WithKey(ordered["what"], KeyOf(r)))
        /\ \A k : Progress(k)
    BY <1>1 DEF Alignment, Aligning
  <1>3. Seen = InTimeline("base")
    <2>1. ordered["base"] \in Seq(Events)
      BY TwoSides DEF Timelines
    <2>2. DOMAIN ordered["base"] = 1 .. cursor
      BY <1>1, <2>1
    <2> QED
      BY <2>2 DEF Seen, InTimeline
  <1>4. ASSUME NEW r \in removed, NEW a \in InTimeline("what"), KeyOf(r) = KeyOf(a)
        PROVE  a \in Seconds
    <2>1. /\ Rank("what", a) \in 1 .. Len(WithKey(ordered["what"], KeyOf(r)))
          /\ WithKey(ordered["what"], KeyOf(r))[Rank("what", a)] = a
      BY <1>4, GroupIs, TwoSides
    <2> QED
      BY <1>2, <2>1 DEF Progress
  <1>5. \A r \in removed' : \A a \in added' : KeyOf(r) # KeyOf(a)
    BY <1>1, <1>4
  <1>6. /\ InTimeline("base")' = InTimeline("base") /\ InTimeline("what")' = InTimeline("what")
        /\ Firsts' = Firsts /\ Seconds' = Seconds
    BY <1>1, RanksStay DEF Firsts, Seconds
  <1>7. Paired'
    <2>1. \A x, y : Changes(x, y)' = Changes(x, y)
      BY <1>1 DEF Changes
    <2>2. changed' = UNION {Changes(p[1], p[2])' : p \in matched}
      BY <1>1, <1>2, <2>1 DEF Paired
    <2> QED
      BY <1>1, <1>2, <1>6, <2>2, RanksStay DEF Paired
  <1> QED
    BY <1>1, <1>2, <1>3, <1>5, <1>6, <1>7 DEF Alignment, Aligning, Aligned, Unaligned, Stages, Composing

\* The pairs of a key.
LEMMA PairsAre ==
    ASSUME Timelines, NEW k
    PROVE  /\ \A p \in Pairs(k) :
                /\ p \in InTimeline("base") \X InTimeline("what")
                /\ KeyOf(p[1]) = k /\ KeyOf(p[2]) = k /\ Rank("base", p[1]) = Rank("what", p[2])
           /\ \A b \in InTimeline("base") : \A e \in InTimeline("what") :
                KeyOf(b) = k /\ KeyOf(e) = k =>
                  (\E p \in Pairs(k) : p[1] = b) \/ (\E p \in Pairs(k) : p[2] = e)
  <1> DEFINE B == WithKey(ordered["base"], k)
             C == WithKey(ordered["what"], k)
  <1>1. /\ Len(B) \in Nat /\ Len(C) \in Nat /\ DOMAIN B = 1 .. Len(B) /\ DOMAIN C = 1 .. Len(C)
        /\ \A i \in 1 .. Len(B) : B[i] \in InTimeline("base") /\ KeyOf(B[i]) = k /\ Rank("base", B[i]) = i
        /\ \A i \in 1 .. Len(C) : C[i] \in InTimeline("what") /\ KeyOf(C[i]) = k /\ Rank("what", C[i]) = i
    BY GroupIs, TwoSides
  <1>2. Pairs(k) = {<<B[i], C[i]>> : i \in DOMAIN B \cap DOMAIN C}
    BY DEF Pairs
  <1>3. /\ \A b \in InTimeline("base") : KeyOf(b) = k =>
             Rank("base", b) \in 1 .. Len(B) /\ B[Rank("base", b)] = b
        /\ \A e \in InTimeline("what") : KeyOf(e) = k =>
             Rank("what", e) \in 1 .. Len(C) /\ C[Rank("what", e)] = e
    BY GroupIs, TwoSides
  <1> HIDE DEF B, C
  <1>4. ASSUME NEW p \in Pairs(k)
        PROVE  /\ p \in InTimeline("base") \X InTimeline("what")
               /\ KeyOf(p[1]) = k /\ KeyOf(p[2]) = k /\ Rank("base", p[1]) = Rank("what", p[2])
    <2>1. PICK i \in DOMAIN B \cap DOMAIN C : p = <<B[i], C[i]>>
      BY <1>2
    <2> QED
      BY <1>1, <2>1
  <1>5. ASSUME NEW b \in InTimeline("base"), NEW e \in InTimeline("what"), KeyOf(b) = k, KeyOf(e) = k
        PROVE  (\E p \in Pairs(k) : p[1] = b) \/ (\E p \in Pairs(k) : p[2] = e)
    <2>1. PICK i \in 1 .. Len(B) : B[i] = b
      BY <1>3, <1>5
    <2>2. PICK j \in 1 .. Len(C) : C[j] = e
      BY <1>3, <1>5
    <2>3. i \in DOMAIN C \/ j \in DOMAIN B
      BY <1>1
    <2>4. CASE i \in DOMAIN C
      <3>1. <<B[i], C[i]>> \in Pairs(k)
        BY <1>1, <1>2, <2>4
      <3> QED
        BY <2>1, <3>1
    <2>5. CASE j \in DOMAIN B
      <3>1. <<B[j], C[j]>> \in Pairs(k)
        BY <1>1, <1>2, <2>5
      <3> QED
        BY <2>2, <3>1
    <2> QED
      BY <2>3, <2>4, <2>5
  <1> QED
    BY <1>4, <1>5

\* A timeline is of finitely many events.
LEMMA TimelinesFinite ==
    ASSUME Tables, Timelines, NEW s \in Sides
    PROVE  IsFiniteSet(InTimeline(s))
  <1>1. InTimeline(s) \in SUBSET replay[s] /\ IsFiniteSet(replay[s])
    BY ReplayIs DEF Timelines
  <1> QED
    BY <1>1, FS_Subset

\* The dev pack pairs key by key.
LEMMA AlignByKeyAligns ==
    ASSUME Tables, Timelines, Alignment, AlignByKey
    PROVE  Alignment'
  <1>1. /\ pc = "align" /\ pc' = "compose" /\ pack = "dev"
        /\ matched' = UNION {Pairs(k) : k \in Keys}
        /\ removed' = InTimeline("base") \ {p[1] : p \in matched'}
        /\ added' = {e \in InTimeline("what") \ {p[2] : p \in matched'} :
                       \E b \in InTimeline("base") : KeyOf(b) = KeyOf(e)}
        /\ changed' = UNION {Changes(p[1], p[2]) : p \in matched'}
        /\ UNCHANGED <<cursor, ordered, pack>>
    BY DEF AlignByKey, Go, buildVars, envVars
  <1>2. /\ Firsts' = {p[1] : p \in matched'} /\ Seconds' = {p[2] : p \in matched'}
    BY DEF Firsts, Seconds
  <1>3. ASSUME NEW p \in matched'
        PROVE  /\ p \in InTimeline("base") \X InTimeline("what")
               /\ KeyOf(p[1]) = KeyOf(p[2]) /\ Rank("base", p[1]) = Rank("what", p[2])
    <2>1. PICK k \in Keys : p \in Pairs(k)
      BY <1>1
    <2> QED
      BY <2>1, PairsAre
  <1>4. IsFiniteSet(matched')
    <2>1. IsFiniteSet(InTimeline("base") \X InTimeline("what"))
      BY TimelinesFinite, TwoSides, FS_Product
    <2>2. matched' \in SUBSET (InTimeline("base") \X InTimeline("what"))
      BY <1>3
    <2> QED
      BY <2>1, <2>2, FS_Subset
  <1>5. ASSUME NEW r \in removed', NEW a \in added', KeyOf(r) = KeyOf(a)
        PROVE  FALSE
    <2>1. r \in InTimeline("base") /\ a \in InTimeline("what") /\ KeyOf(r) \in Keys
      BY <1>1 DEF Keys
    <2>2. Pairs(KeyOf(r)) \subseteq matched'
      BY <1>1, <2>1
    <2>3. (\E p \in Pairs(KeyOf(r)) : p[1] = r) \/ (\E p \in Pairs(KeyOf(r)) : p[2] = a)
      BY <1>5, <2>1, PairsAre
    <2> QED
      BY <1>1, <2>2, <2>3
  <1>6. /\ InTimeline("base")' = InTimeline("base") /\ InTimeline("what")' = InTimeline("what")
        /\ \A s, e : Rank(s, e)' = Rank(s, e)
    BY <1>1, RanksStay
  <1>7. Paired'
    <2>1. \A x, y : Changes(x, y)' = Changes(x, y)
      BY <1>1 DEF Changes
    <2>2. changed' = UNION {Changes(p[1], p[2])' : p \in matched'}
      BY <1>1, <2>1
    <2> QED
      BY <1>3, <1>4, <1>6, <2>2 DEF Paired
  <1>8. \A r \in removed' : \A a \in added' : KeyOf(r) # KeyOf(a)
    BY <1>5
  <1> QED
    BY <1>1, <1>2, <1>6, <1>7, <1>8 DEF Alignment, Aligning, Aligned, Unaligned, Stages, Composing

\* Steps outside the alignment leave it alone, and it begins with nothing.
LEMMA AlignmentStays ==
    ASSUME Timelines, Alignment, UNCHANGED <<alignVars, ordered, pack>>,
           pc' = pc \/ pc' = "idle" \/ (pc = "compose" /\ pc' = "put")
             \/ (pc \in (Stages \ Composing) \ {"idle"} /\ pc' \in (Stages \ Composing) \ {"idle"})
    PROVE  Alignment'
  <1>1. /\ UNCHANGED <<cursor, matched, removed, added, changed>>
        /\ Firsts' = Firsts /\ Seconds' = Seconds /\ Seen' = Seen
        /\ \A k : Consumed(k)' = Consumed(k)
        /\ \A k : WithKey(ordered["what"], k)' = WithKey(ordered["what"], k)
        /\ \A k : Occurrences(ordered["base"], k, cursor)' = Occurrences(ordered["base"], k, cursor)
    BY DEF alignVars, Firsts, Seconds, Seen, Consumed, WithKey, Occurrences
  <1>2. /\ InTimeline("base")' = InTimeline("base") /\ InTimeline("what")' = InTimeline("what")
        /\ \A s, e : Rank(s, e)' = Rank(s, e)
    BY RanksStay
  <1>3. Paired => Paired'
    <2> SUFFICES ASSUME Paired PROVE Paired'
      OBVIOUS
    <2>1. \A x, y : Changes(x, y)' = Changes(x, y)
      BY DEF Changes
    <2>2. changed' = UNION {Changes(p[1], p[2])' : p \in matched}
      BY <1>1, <2>1 DEF Paired
    <2> QED
      BY <1>1, <1>2, <2>2 DEF Paired
  <1>4. \A k : Progress(k)' <=> Progress(k)
    BY <1>1 DEF Progress
  <1>5. Aligning'
    <2> SUFFICES ASSUME pc' = "align" PROVE Aligning'
      BY DEF Aligning
    <2>1. pc = "align"
      BY DEF Stages, Composing
    <2> QED
      BY <1>1, <1>3, <1>4, <2>1 DEF Alignment, Aligning
  <1>6. Aligned'
    BY <1>1, <1>2, <1>3 DEF Alignment, Aligned, Stages, Composing
  <1>7. Unaligned'
    BY <1>1 DEF Alignment, Unaligned, Stages, Composing
  <1> QED
    BY <1>5, <1>6, <1>7 DEF Alignment

\* Order hands over to the alignment.
LEMMA OrderEventsAligns ==
    ASSUME TR, Reading, Alignment, OrderEvents
    PROVE  Alignment'
  <1>1. /\ pc = "building" /\ pc' \in {"events", "align", "idle"}
        /\ UNCHANGED <<cursor, matched, removed, added, changed>>
    BY DEF OrderEvents, Answer, Go, alignVars
  <1>2. cursor = 0 /\ matched = {} /\ removed = {} /\ changed = {}
    BY <1>1 DEF Alignment, Unaligned, Stages, Composing
  <1>3. Timelines'
    BY OrderEventsReads DEF Reading
  <1>4. (Timelines /\ cursor = 0 /\ matched = {} /\ removed = {} /\ changed = {} => Aligning)'
    BY AlignStarts, PTL
  <1>5. Aligning'
    BY <1>1, <1>2, <1>3, <1>4
  <1> QED
    BY <1>1, <1>2, <1>5 DEF Alignment, Aligned, Unaligned

\* The alignment is right after every step.
LEMMA StepAligns ==
    ASSUME TR, Reading, Alignment, [DiffNext]_vars
    PROVE  Alignment'
  <1>1. pc \in Stages /\ Timelines /\ Tables
    BY DEF TR, Request, Reading
  <1>2. CASE Ingest \/ Complete \/ Reset \/ UNCHANGED vars
    <2>1. UNCHANGED <<alignVars, ordered, pack, pc>>
      BY <1>2 DEF Ingest, Complete, Reset, vars, buildVars, envVars
    <2> QED
      BY <1>1, <2>1, AlignmentStays
  <1>3. CASE \E b \in Sides : PostDiff(b)
    <2>1. /\ cursor' = 0 /\ matched' = {} /\ removed' = {} /\ changed' = {} /\ pc' = "getBase"
      BY <1>3 DEF PostDiff, NoAlignment
    <2> QED
      BY <2>1 DEF Alignment, Aligning, Aligned, Unaligned
  <1>4. CASE GetBase \/ GetWhat
    <2>1. UNCHANGED <<alignVars, ordered, pack>>
      BY <1>4 DEF GetBase, GetWhat, envVars
    <2>2. pc \in {"getBase", "getWhat"} /\ pc' \in {"idle", "getWhat", "events"}
      BY <1>4 DEF GetBase, GetWhat, Answer, Go
    <2> QED
      BY <1>1, <2>1, <2>2, AlignmentStays DEF Stages, Composing
  <1>5. CASE LoadEvents \/ LoadGraph \/ BuildTurn
    <2>1. UNCHANGED <<alignVars, ordered, pack>>
      BY <1>5 DEF LoadEvents, LoadGraph, BuildTurn, buildVars, envVars
    <2>2. pc \in {"events", "graph", "building"} /\ pc' \in {"graph", "building"}
      BY <1>5 DEF LoadEvents, LoadGraph, BuildTurn, Go
    <2> QED
      BY <1>1, <2>1, <2>2, AlignmentStays DEF Stages, Composing
  <1>6. CASE OrderEvents
    BY <1>6, OrderEventsAligns
  <1>7. CASE AlignNext \/ AlignRest \/ AlignByKey
    BY <1>1, <1>7, AlignNextAligns, AlignRestAligns, AlignByKeyAligns
  <1>8. CASE Compose \/ PutDiff
    <2>1. UNCHANGED <<alignVars, ordered, pack>>
      BY <1>8 DEF Compose, PutDiff, buildVars, envVars
    <2>2. (pc = "compose" /\ pc' = "put") \/ pc' = "idle"
      <3>1. CASE Compose
        BY <3>1 DEF Compose, Answer, Go
      <3>2. CASE PutDiff
        BY <3>2, PutDiffAnswers
      <3> QED
        BY <1>8, <3>1, <3>2
    <2> QED
      BY <1>1, <2>1, <2>2, AlignmentStays
  <1> QED
    BY <1>2, <1>3, <1>4, <1>5, <1>6, <1>7, <1>8 DEF DiffNext, Handler

\* Aligned gives what AlignsByRank says.
LEMMA AlignedByRank == Alignment => AlignsByRank
  BY DEF Alignment, Aligned, Paired, AlignsByRank

-----------------------------------------------------------------------------
(* What the alignment says of the evidence.                                *)

\* A set of pairs has as many first components, if these tell the pairs apart.
LEMMA AsManyFirsts ==
    ASSUME NEW M, IsFiniteSet(M), \A p, q \in M : p[1] = q[1] => p = q
    PROVE  /\ IsFiniteSet({p[1] : p \in M}) /\ Cardinality({p[1] : p \in M}) = Cardinality(M)
           /\ Cardinality(M) \in Nat
  <1> DEFINE f == [p \in M |-> p[1]]
             F == {p[1] : p \in M}
  <1>1. f \in Surjection(M, F) /\ f \in Injection(M, F)
    BY DEF Surjection, Injection, IsInjective
  <1> HIDE DEF f
  <1>2. IsFiniteSet(F) /\ Cardinality(F) = Cardinality(M)
    BY <1>1, FS_Surjection
  <1> QED
    BY <1>2, FS_CardinalityType

\* And as many second ones.
LEMMA AsManySeconds ==
    ASSUME NEW M, IsFiniteSet(M), \A p, q \in M : p[2] = q[2] => p = q
    PROVE  IsFiniteSet({p[2] : p \in M}) /\ Cardinality({p[2] : p \in M}) = Cardinality(M)
  <1> DEFINE f == [p \in M |-> p[2]]
             F == {p[2] : p \in M}
  <1>1. f \in Surjection(M, F) /\ f \in Injection(M, F)
    BY DEF Surjection, Injection, IsInjective
  <1> HIDE DEF f
  <1> QED
    BY <1>1, FS_Surjection

\* A partner is found by key and rank, so no event has two.
LEMMA OnePartner ==
    ASSUME Timelines, Paired, NEW p \in matched, NEW q \in matched
    PROVE  (p[1] = q[1] => p = q) /\ (p[2] = q[2] => p = q)
  <1>1. /\ p \in InTimeline("base") \X InTimeline("what")
        /\ q \in InTimeline("base") \X InTimeline("what")
        /\ KeyOf(p[1]) = KeyOf(p[2]) /\ Rank("base", p[1]) = Rank("what", p[2])
        /\ KeyOf(q[1]) = KeyOf(q[2]) /\ Rank("base", q[1]) = Rank("what", q[2])
    BY DEF Paired
  <1>2. ASSUME NEW s \in Sides, NEW e \in InTimeline(s), NEW f \in InTimeline(s),
               KeyOf(e) = KeyOf(f), Rank(s, e) = Rank(s, f)
        PROVE  e = f
    <2>1. PICK k : k = KeyOf(e)
      OBVIOUS
    <2>2. WithKey(ordered[s], k)[Rank(s, e)] = e /\ WithKey(ordered[s], k)[Rank(s, f)] = f
      BY <1>2, <2>1, GroupIs
    <2> QED
      BY <1>2, <2>2
  <1>3. p[1] = q[1] => p[2] = q[2]
    BY <1>1, <1>2, TwoSides
  <1>4. p[2] = q[2] => p[1] = q[1]
    BY <1>1, <1>2, TwoSides
  <1> QED
    BY <1>1, <1>3, <1>4

\* Both sides of the alignment, when it is complete.
LEMMA SidesSplit ==
    ASSUME Timelines, Alignment, pc \in {"compose", "put"}, pack \in Packs
    PROVE  /\ Firsts \cup removed = InTimeline("base") /\ Firsts \cap removed = {}
           /\ Seconds \cup added \subseteq InTimeline("what") /\ Seconds \cap added = {}
           /\ pack = "checkout" => Seconds \cup added = InTimeline("what")
           /\ pack # "checkout" => \A e \in InTimeline("what") \ (Seconds \cup added) :
                                     \A b \in InTimeline("base") : KeyOf(b) # KeyOf(e)
           /\ Paired
  <1>1. /\ Paired /\ removed = InTimeline("base") \ Firsts
        /\ pack = "checkout" => added = InTimeline("what") \ Seconds
        /\ pack = "dev" => added = {e \in InTimeline("what") \ Seconds :
                                      \E b \in InTimeline("base") : KeyOf(b) = KeyOf(e)}
    BY DEF Alignment, Aligned
  <1>2. Firsts \subseteq InTimeline("base") /\ Seconds \subseteq InTimeline("what")
    BY <1>1 DEF Firsts, Seconds, Paired
  <1>3. pack \in {"checkout", "dev"}
    BY RunDiffAssumption
  <1> QED
    BY <1>1, <1>2, <1>3

-----------------------------------------------------------------------------
(* What is stored.                                                         *)

\* A diff accounts for the evidence of both runs.
Covers(d) ==
    /\ {p[1] : p \in d.matched} \cup d.removed = replay.base
    /\ Positioned \subseteq {p[2] : p \in d.matched} \cup d.added
    /\ {p[2] : p \in d.matched} \cup d.added \subseteq replay.what
    /\ {p[1] : p \in d.matched} \cap d.removed = {}
    /\ {p[2] : p \in d.matched} \cap d.added = {}
    /\ Cardinality(d.matched) = Cardinality({p[1] : p \in d.matched})
    /\ Cardinality(d.matched) = Cardinality({p[2] : p \in d.matched})

\* Its delta is the one its alignment shows.
DeltaShown(d) ==
    pack = "checkout" /\ ExecutedOnce =>
        d.delta.commits = Cardinality(Of(d.added, "EFFECT")) - Cardinality(Of(d.removed, "EFFECT"))

\* The diff that waits to be stored is the one that was aligned.
Composed ==
    pc = "put" =>
        /\ diff.matched = matched /\ diff.removed = removed
        /\ diff.added = added /\ diff.changed = changed
        /\ diff.delta = Delta /\ diff.first = Divergence

\* The alignment covers the evidence.
LEMMA AlignmentCovers ==
    ASSUME TR, Timelines, Alignment, Composed, pc = "put", resets = 0
    PROVE  Covers(diff)
  <1>1. pack \in Packs /\ replay \in Replays
    BY DEF TR, Tables
  <1>2. /\ InTimeline("base") = replay.base
        /\ replay.judged.what \subseteq InTimeline("what") /\ InTimeline("what") \subseteq replay.what
    BY TwoSides DEF Timelines, Comparing, Composing, Recorded
  <1>3. /\ diff.matched = matched /\ diff.removed = removed /\ diff.added = added
        /\ {p[1] : p \in diff.matched} = Firsts /\ {p[2] : p \in diff.matched} = Seconds
    BY DEF Composed, Firsts, Seconds
  <1>4. /\ Firsts \cup removed = InTimeline("base") /\ Firsts \cap removed = {}
        /\ Seconds \cup added \subseteq InTimeline("what") /\ Seconds \cap added = {}
        /\ pack = "checkout" => Seconds \cup added = InTimeline("what")
        /\ pack # "checkout" => \A e \in InTimeline("what") \ (Seconds \cup added) :
                                  \A b \in InTimeline("base") : KeyOf(b) # KeyOf(e)
        /\ Paired
    BY <1>1, SidesSplit
  <1>5. pack \in {"checkout", "dev"}
    BY <1>1, RunDiffAssumption
  <1>6. Positioned \subseteq Seconds \cup added
    BY <1>2, <1>4, <1>5 DEF Positioned
  <1>7. IsFiniteSet(matched)
    BY <1>4 DEF Paired
  <1>8. Cardinality(Firsts) = Cardinality(matched)
    BY <1>4, <1>7, OnePartner, AsManyFirsts DEF Firsts
  <1>9. Cardinality(Seconds) = Cardinality(matched)
    BY <1>4, <1>7, OnePartner, AsManySeconds DEF Seconds
  <1> QED
    BY <1>2, <1>3, <1>4, <1>6, <1>8, <1>9 DEF Covers

\* The rows the handler has read are of the executions the runs were judged on.
LEMMA CopiesAre ==
    ASSUME TR, pc \in Comparing
    PROVE  /\ copy["base"] = Completed("base", replay.judged.base)
           /\ copy["what"] = Completed("what", replay.judged.what)
  <1>1. copy["base"].status = "COMPLETED" /\ copy["what"].status = "COMPLETED"
    BY DEF TR, Request, Prerequisites
  <1>2. copy["base"] \in RowsOf("base") \cup {Absent} /\ copy["what"] \in RowsOf("what") \cup {Absent}
    BY TwoSides DEF TR, Request
  <1> QED
    BY <1>1, <1>2, RowStatus DEF RowsOf

\* The effects of one side, split by the alignment.
LEMMA EffectsSplit ==
    ASSUME NEW A, NEW B, IsFiniteSet(A), IsFiniteSet(B), A \cap B = {}, NEW y
    PROVE  /\ Cardinality(Of(A \cup B, y)) = Cardinality(Of(A, y)) + Cardinality(Of(B, y))
           /\ Cardinality(Of(A, y)) \in Nat /\ Cardinality(Of(B, y)) \in Nat
  <1>1. Of(A, y) \in SUBSET A /\ Of(B, y) \in SUBSET B
    BY DEF Of
  <1>2. /\ IsFiniteSet(Of(A, y)) /\ IsFiniteSet(Of(B, y))
    BY <1>1, FS_Subset
  <1>3. Cardinality(Of(A, y)) \in Nat /\ Cardinality(Of(B, y)) \in Nat
    BY <1>2, FS_CardinalityType
  <1>4. Of(A \cup B, y) = Of(A, y) \cup Of(B, y) /\ Of(A, y) \cap Of(B, y) = {}
    BY DEF Of
  <1>5. Cardinality(Of(A, y) \cup Of(B, y))
          = Cardinality(Of(A, y)) + Cardinality(Of(B, y)) - Cardinality(Of(A, y) \cap Of(B, y))
    BY <1>2, FS_Union
  <1>6. Cardinality(Of(A, y) \cap Of(B, y)) = 0
    BY <1>4, FS_EmptySet
  <1>7. \A i, j, l, n : i \in Nat /\ j \in Nat /\ l = 0 /\ n = i + j - l => n = i + j
    OBVIOUS
  <1>8. Cardinality(Of(A, y) \cup Of(B, y)) = Cardinality(Of(A, y)) + Cardinality(Of(B, y))
    BY <1>3, <1>5, <1>6, <1>7
  <1> QED
    BY <1>3, <1>4, <1>8

\* As many effects of the baseline as of the what-if have a partner.
LEMMA PartnersEffects ==
    ASSUME Timelines, Paired, NEW y
    PROVE  Cardinality(Of(Firsts, y)) = Cardinality(Of(Seconds, y))
  <1> DEFINE M == {p \in matched : p[1].type = y}
  <1>1. \A p \in matched : p[1].type = p[2].type
    BY DEF Paired, KeyOf
  <1>2. M \in SUBSET matched /\ IsFiniteSet(matched)
    BY DEF Paired
  <1>3. IsFiniteSet(M)
    BY <1>2, FS_Subset
  <1>4. \A p, q \in M : (p[1] = q[1] => p = q) /\ (p[2] = q[2] => p = q)
    BY OnePartner
  <1>5. Of(Firsts, y) = {p[1] : p \in M}
    BY DEF Of, Firsts
  <1>6. Of(Seconds, y) = {p[2] : p \in M}
    BY <1>1 DEF Of, Seconds
  <1> HIDE DEF M
  <1>7. Cardinality({p[1] : p \in M}) = Cardinality(M)
    BY <1>3, <1>4, AsManyFirsts
  <1>8. Cardinality({p[2] : p \in M}) = Cardinality(M)
    BY <1>3, <1>4, AsManySeconds
  <1> QED
    BY <1>5, <1>6, <1>7, <1>8

\* The delta is the one the alignment shows.
LEMMA AlignmentShowsDelta ==
    ASSUME TR, Timelines, Alignment, Composed, pc = "put", resets = 0
    PROVE  DeltaShown(diff)
  <1> SUFFICES ASSUME pack = "checkout", ExecutedOnce
               PROVE  diff.delta.commits = Cardinality(Of(diff.added, "EFFECT"))
                                             - Cardinality(Of(diff.removed, "EFFECT"))
    BY DEF DeltaShown
  <1>1. pack \in Packs
    BY DEF TR, Tables
  <1>2. InTimeline("base") = replay.judged.base /\ InTimeline("what") = replay.judged.what
    BY TwoSides DEF Timelines, Comparing, Composing, Recorded, ExecutedOnce
  <1>3. /\ diff.removed = removed /\ diff.added = added /\ diff.delta = Delta
    BY DEF Composed
  <1>4. /\ Firsts \cup removed = InTimeline("base") /\ Firsts \cap removed = {}
        /\ Seconds \cup added = InTimeline("what") /\ Seconds \cap added = {}
        /\ Paired
    BY <1>1, SidesSplit
  <1>5. /\ copy["base"] = Completed("base", replay.judged.base)
        /\ copy["what"] = Completed("what", replay.judged.what)
    BY CopiesAre DEF Comparing
  <1>6. /\ copy["base"].effects.commits = Cardinality(Of(replay.judged.base, "EFFECT"))
        /\ copy["what"].effects.commits = Cardinality(Of(replay.judged.what, "EFFECT"))
    BY <1>5 DEF Completed, SummaryOf, Summary
  <1>7. IsFiniteSet(InTimeline("base")) /\ IsFiniteSet(InTimeline("what"))
    BY TimelinesFinite, TwoSides DEF TR
  <1>8. /\ Firsts \in SUBSET InTimeline("base") /\ removed \in SUBSET InTimeline("base")
        /\ Seconds \in SUBSET InTimeline("what") /\ added \in SUBSET InTimeline("what")
    BY <1>4
  <1>9. IsFiniteSet(Firsts) /\ IsFiniteSet(removed) /\ IsFiniteSet(Seconds) /\ IsFiniteSet(added)
    BY <1>7, <1>8, FS_Subset
  <1>10. PICK y : y = "EFFECT"
    OBVIOUS
  <1>11. /\ Cardinality(Of(Firsts \cup removed, y)) = Cardinality(Of(Firsts, y)) + Cardinality(Of(removed, y))
         /\ Cardinality(Of(Firsts, y)) \in Nat /\ Cardinality(Of(removed, y)) \in Nat
    BY <1>4, <1>9, EffectsSplit
  <1>12. /\ Cardinality(Of(Seconds \cup added, y)) = Cardinality(Of(Seconds, y)) + Cardinality(Of(added, y))
         /\ Cardinality(Of(Seconds, y)) \in Nat /\ Cardinality(Of(added, y)) \in Nat
    BY <1>4, <1>9, EffectsSplit
  <1>13. Cardinality(Of(Firsts, y)) = Cardinality(Of(Seconds, y))
    BY <1>4, PartnersEffects
  <1>14. Delta.commits = Cardinality(Of(Seconds \cup added, y)) - Cardinality(Of(Firsts \cup removed, y))
    BY <1>2, <1>4, <1>6, <1>10 DEF Delta
  <1> QED
    BY <1>3, <1>10, <1>11, <1>12, <1>13, <1>14

\* The points of the baseline where the what-if differs, and its timeouts that are
\* gone.
Differing(d) ==
    {i \in DOMAIN ordered["base"] :
        \E p \in d.matched : p[1] = ordered["base"][i] /\ Differs(p[1], p[2])}
GoneTimeouts(d) ==
    {i \in DOMAIN ordered["base"] :
        ordered["base"][i].type = "TIMEOUT" /\ ordered["base"][i] \in d.removed}

\* The divergence is the earliest.
Earliest(d) ==
    CASE Differing(d) # {} ->
           d.first.base \in Differing(d) /\ \A i \in Differing(d) : d.first.base <= i
      [] Differing(d) = {} /\ pack = "checkout" /\ GoneTimeouts(d) # {} /\ ordered["what"] # <<>> ->
           d.first.base \in GoneTimeouts(d) /\ \A i \in GoneTimeouts(d) : d.first.base <= i
      [] OTHER -> d.first = NoDivergence

\* A change is reported exactly for events that differ, with two different values.
LEMMA ChangesShow ==
    ASSUME pack \in Packs, NEW b, NEW c
    PROVE  /\ Changes(b, c) # {} <=> Differs(b, c)
           /\ \A x \in Changes(b, c) : /\ x.base = b /\ x.what = c /\ x.field # "NONE"
                                       /\ x.base[x.field] # x.what[x.field]
  <1>1. pack \in {"checkout", "dev"}
    BY RunDiffAssumption
  <1> DEFINE fields == IF pack = "dev" THEN FirstChange(b, c) ELSE StatusChange(b, c)
  <1>2. Changes(b, c) = {[base |-> b, what |-> c, field |-> f] : f \in fields}
    BY DEF Changes
  <1>3. fields # {} <=> Differs(b, c)
    BY <1>1 DEF FirstChange, StatusChange, Differs
  <1>4. \A f \in fields : f # "NONE" /\ b[f] # c[f]
    BY DEF FirstChange, StatusChange
  <1> HIDE DEF fields
  <1>5. Changes(b, c) # {} <=> fields # {}
    BY <1>2
  <1>6. ASSUME NEW x \in Changes(b, c)
        PROVE  /\ x.base = b /\ x.what = c /\ x.field # "NONE"
               /\ x.base[x.field] # x.what[x.field]
    <2>1. PICK f \in fields : x = [base |-> b, what |-> c, field |-> f]
      BY <1>2
    <2>2. x.base = b /\ x.what = c /\ x.field = f
      BY <2>1
    <2> QED
      BY <1>4, <2>2
  <1> QED
    BY <1>3, <1>5, <1>6

\* Where an event of a timeline is.
LEMMA IndexOf ==
    ASSUME Timelines, NEW s \in Sides, NEW e \in InTimeline(s)
    PROVE  /\ IndexIn(s, e) \in DOMAIN ordered[s] /\ ordered[s][IndexIn(s, e)] = e
           /\ IndexIn(s, e) \in Nat
  <1>1. PICK i \in DOMAIN ordered[s] : e = ordered[s][i]
    BY DEF InTimeline
  <1>2. IndexIn(s, e) = i
    BY <1>1, RankIs
  <1>3. ordered[s] \in Seq(Events)
    BY DEF Timelines
  <1> QED
    BY <1>1, <1>2, <1>3

\* FirstDivergenceFrom sorts the changes by their place in the baseline.
LEMMA FirstChangeIs ==
    ASSUME pack \in Packs, Timelines, Paired, changed # {}
    PROVE  /\ FirstDivergenceFrom(changed) # NoDivergence
           /\ \E x \in changed :
                /\ FirstDivergenceFrom(changed).base = IndexIn("base", x.base)
                /\ \A y \in changed : IndexIn("base", x.base) <= IndexIn("base", y.base)
  <1>1. ASSUME NEW x \in changed
        PROVE  x.base \in InTimeline("base") /\ x.field # "NONE"
    <2>1. PICK p \in matched : x \in Changes(p[1], p[2])
      BY DEF Paired
    <2>2. p[1] \in InTimeline("base")
      BY DEF Paired
    <2> QED
      BY <2>1, <2>2, ChangesShow
  <1>2. \A x \in changed : IndexIn("base", x.base) \in Nat
    BY <1>1, IndexOf, TwoSides
  <1> DEFINE key == [x \in changed |-> IndexIn("base", x.base)]
  <1>3. key \in [changed -> Nat] /\ \A x \in changed : key[x] = IndexIn("base", x.base)
    BY <1>2
  <1> HIDE DEF key
  <1>4. \E x \in changed : \A y \in changed : key[x] <= key[y]
    BY <1>3, LeastKey
  <1>5. \E x \in changed : \A y \in changed : IndexIn("base", x.base) <= IndexIn("base", y.base)
    BY <1>3, <1>4
  <1> DEFINE c == CHOOSE x \in changed :
                    \A y \in changed : IndexIn("base", x.base) <= IndexIn("base", y.base)
  <1>6. /\ c \in changed
        /\ \A y \in changed : IndexIn("base", c.base) <= IndexIn("base", y.base)
    BY <1>5
  <1>7. FirstDivergenceFrom(changed) =
          [rule |-> c.field, base |-> IndexIn("base", c.base), what |-> IndexIn("what", c.what)]
    BY DEF FirstDivergenceFrom
  <1> HIDE DEF c
  <1>8. c.field # "NONE"
    BY <1>1, <1>6
  <1> QED
    BY <1>6, <1>7, <1>8 DEF NoDivergence

\* The points that differ are those of the changes.
LEMMA ChangesAreDiffering ==
    ASSUME pack \in Packs, Timelines, Paired, NEW d, d.matched = matched
    PROVE  /\ \A x \in changed : IndexIn("base", x.base) \in Differing(d)
           /\ \A i \in Differing(d) : \E x \in changed : IndexIn("base", x.base) = i
  <1>1. ASSUME NEW x \in changed
        PROVE  IndexIn("base", x.base) \in Differing(d)
    <2>1. PICK p \in matched : x \in Changes(p[1], p[2])
      BY DEF Paired
    <2>2. x.base = p[1] /\ Differs(p[1], p[2]) /\ p[1] \in InTimeline("base")
      BY <2>1, ChangesShow DEF Paired
    <2>3. IndexIn("base", p[1]) \in DOMAIN ordered["base"] /\ ordered["base"][IndexIn("base", p[1])] = p[1]
      BY <2>2, IndexOf, TwoSides
    <2> QED
      BY <2>2, <2>3 DEF Differing
  <1>2. ASSUME NEW i \in Differing(d)
        PROVE  \E x \in changed : IndexIn("base", x.base) = i
    <2>1. PICK p \in matched : p[1] = ordered["base"][i] /\ Differs(p[1], p[2]) /\ i \in DOMAIN ordered["base"]
      BY DEF Differing
    <2>2. PICK x \in Changes(p[1], p[2]) : TRUE
      BY <2>1, ChangesShow
    <2>3. x \in changed /\ x.base = p[1]
      BY <2>2, ChangesShow DEF Paired
    <2>4. IndexIn("base", p[1]) = i
      BY <2>1, RankIs, TwoSides
    <2> QED
      BY <2>3, <2>4
  <1> QED
    BY <1>1, <1>2

\* The divergence of the diff is the earliest.
LEMMA AlignmentShowsDivergence ==
    ASSUME TR, Timelines, Alignment, Composed, pc = "put"
    PROVE  Earliest(diff)
  <1>1. pack \in Packs /\ pack \in {"checkout", "dev"} /\ replay \in Replays
    BY RunDiffAssumption DEF TR, Tables
  <1>2. diff.matched = matched /\ diff.removed = removed /\ diff.first = Divergence
    BY DEF Composed
  <1>3. Paired
    BY DEF Alignment, Aligned
  <1>4. /\ \A x \in changed : IndexIn("base", x.base) \in Differing(diff)
        /\ \A i \in Differing(diff) : \E x \in changed : IndexIn("base", x.base) = i
    BY <1>1, <1>2, <1>3, ChangesAreDiffering
  <1>5. CASE changed # {}
    <2>1. /\ FirstDivergenceFrom(changed) # NoDivergence
          /\ \E x \in changed :
               /\ FirstDivergenceFrom(changed).base = IndexIn("base", x.base)
               /\ \A y \in changed : IndexIn("base", x.base) <= IndexIn("base", y.base)
      BY <1>1, <1>3, <1>5, FirstChangeIs
    <2>2. diff.first = FirstDivergenceFrom(changed)
      BY <1>2, <2>1 DEF Divergence
    <2>3. PICK x \in changed :
               /\ diff.first.base = IndexIn("base", x.base)
               /\ \A y \in changed : IndexIn("base", x.base) <= IndexIn("base", y.base)
      BY <2>1, <2>2
    <2>4. diff.first.base \in Differing(diff) /\ \A i \in Differing(diff) : diff.first.base <= i
      BY <1>4, <2>3
    <2> QED
      BY <2>4 DEF Earliest
  <1>6. CASE changed = {}
    <2>1. Differing(diff) = {} /\ FirstDivergenceFrom(changed) = NoDivergence
      BY <1>4, <1>6 DEF FirstDivergenceFrom
    <2>2. diff.first = StructuralDivergence
      BY <1>2, <2>1 DEF Divergence
    <2>3. GoneTimeouts(diff) = RemovedTimeout
      BY <1>2 DEF GoneTimeouts, RemovedTimeout
    <2>4. CASE pack = "dev" \/ RemovedTimeout = {} \/ ordered["what"] = <<>>
      <3>1. diff.first = NoDivergence
        BY <2>2, <2>4 DEF StructuralDivergence
      <3> QED
        BY <2>1, <2>3, <2>4, <3>1 DEF Earliest
    <2>5. CASE pack = "checkout" /\ RemovedTimeout # {} /\ ordered["what"] # <<>>
      <3>3. diff.first.base = Least(RemovedTimeout)
        BY <2>2, <2>5 DEF StructuralDivergence
      <3>4. RemovedTimeout \subseteq Nat
        <4>1. ordered["base"] \in Seq(Events)
          BY TwoSides DEF Timelines
        <4> QED
          BY <4>1 DEF RemovedTimeout
      <3>5. \E i \in RemovedTimeout : \A j \in RemovedTimeout : i <= j
        BY <2>5, <3>4, LeastNatural
      <3>6. Least(RemovedTimeout) \in RemovedTimeout /\ \A j \in RemovedTimeout : Least(RemovedTimeout) <= j
        BY <2>5, <3>5 DEF Least
      <3> QED
        BY <2>1, <2>3, <2>5, <3>3, <3>6 DEF Earliest
    <2> QED
      BY <1>1, <2>4, <2>5
  <1> QED
    BY <1>5, <1>6

\* Effect summaries are numbers.
LEMMA SummariesAreNumbers ==
    ASSUME NEW s, NEW T, IsFiniteSet(T)
    PROVE  /\ Completed(s, T).effects["attempts"] \in Nat
           /\ Completed(s, T).effects["commits"] \in Nat
  <1> DEFINE S == {x \in Of(T, "START") : x.name = Payment}
             A == {e.attempt : e \in S}
             f == [e \in S |-> e.attempt]
  <1>1. S \in SUBSET T /\ Of(T, "EFFECT") \in SUBSET T
    BY DEF Of
  <1>2. IsFiniteSet(S) /\ IsFiniteSet(Of(T, "EFFECT"))
    BY <1>1, FS_Subset
  <1>3. f \in Surjection(S, A)
    BY DEF Surjection
  <1>4. Summary(T) = [attempts |-> Cardinality(A), commits |-> Cardinality(Of(T, "EFFECT"))]
    BY DEF Summary
  <1> HIDE DEF f, S
  <1>5. IsFiniteSet(A)
    BY <1>2, <1>3, FS_Surjection
  <1> HIDE DEF A
  <1>6. Cardinality(A) \in Nat /\ Cardinality(Of(T, "EFFECT")) \in Nat
    BY <1>2, <1>5, FS_CardinalityType
  <1>7. SummaryOf(s, T)["attempts"] \in Nat /\ SummaryOf(s, T)["commits"] \in Nat
    BY <1>4, <1>6 DEF SummaryOf
  <1>8. Completed(s, T).effects = SummaryOf(s, T)
    BY DEF Completed
  <1> QED
    BY <1>7, <1>8

\* A diff the handler has composed is valid, so it is always put.
LEMMA ComposePuts ==
    ASSUME TR, Timelines, Alignment, Compose
    PROVE  pc' = "put" /\ UNCHANGED reply /\ Composed'
  <1> DEFINE d == [id |-> posts, matched |-> matched, removed |-> removed, added |-> added,
                   changed |-> changed, delta |-> Delta, first |-> Divergence]
  <1>1. /\ pc = "compose" /\ diff' = d
        /\ UNCHANGED <<cursor, matched, removed, added, changed, copy, ordered, pack>>
        /\ DiffValid(diff') => pc' = "put" /\ UNCHANGED reply
    BY DEF Compose, Go, alignVars, envVars
  <1>2. /\ copy["base"] = Completed("base", replay.judged.base)
        /\ copy["what"] = Completed("what", replay.judged.what)
    BY <1>1, CopiesAre DEF Comparing
  <1>3. \A s \in Sides : replay.judged[s] \in SUBSET replay[s] /\ IsFiniteSet(replay[s])
    BY ReplayIs DEF TR
  <1>4. IsFiniteSet(replay.judged.base) /\ IsFiniteSet(replay.judged.what)
    BY <1>3, TwoSides, FS_Subset
  <1>5. /\ copy["base"].effects["attempts"] \in Nat /\ copy["base"].effects["commits"] \in Nat
        /\ copy["what"].effects["attempts"] \in Nat /\ copy["what"].effects["commits"] \in Nat
    BY <1>2, <1>4, SummariesAreNumbers
  <1>6. \A g \in {"attempts", "commits"} :
          copy["base"].effects[g] + Delta[g] = copy["what"].effects[g]
    BY <1>5 DEF Delta
  <1>7. \A x \in changed : x.base[x.field] # x.what[x.field]
    <2>1. Paired /\ pack \in Packs
      BY <1>1 DEF Alignment, Aligned, TR, Tables
    <2> QED
      BY <2>1, ChangesShow DEF Paired
  <1>8. /\ diff'.matched = matched /\ diff'.removed = removed /\ diff'.added = added
        /\ diff'.changed = changed /\ diff'.delta = Delta /\ diff'.first = Divergence
    BY <1>1
  <1> HIDE DEF d
  <1>9. DiffValid(diff')
    BY <1>6, <1>7, <1>8 DEF DiffValid
  <1>10. Delta' = Delta
    BY <1>1 DEF Delta
  <1>11. Divergence' = Divergence
    BY <1>1 DEF Divergence, FirstDivergenceFrom, StructuralDivergence, IndexIn, RemovedTimeout,
                PaymentCompletes, Least
  <1> QED
    BY <1>1, <1>8, <1>9, <1>10, <1>11 DEF Composed

\* The diff waits unchanged.
LEMMA StepComposes ==
    ASSUME TR, Timelines, Alignment, Composed, [DiffNext]_vars
    PROVE  Composed'
  <1>1. CASE Ingest \/ Complete \/ Reset \/ UNCHANGED vars
    <2>1. UNCHANGED <<pc, diff, cursor, matched, removed, added, changed, copy, ordered, pack>>
      BY <1>1 DEF Ingest, Complete, Reset, vars, alignVars, buildVars, envVars
    <2>2. Delta' = Delta
      BY <2>1 DEF Delta
    <2>3. Divergence' = Divergence
      BY <2>1 DEF Divergence, FirstDivergenceFrom, StructuralDivergence, IndexIn, RemovedTimeout,
                  PaymentCompletes, Least
    <2> QED
      BY <2>1, <2>2, <2>3 DEF Composed
  <1>2. CASE Compose
    BY <1>2, ComposePuts
  <1>3. CASE (\E b \in Sides : PostDiff(b)) \/ GetBase \/ GetWhat \/ LoadEvents \/ LoadGraph \/ BuildTurn
    BY <1>3 DEF PostDiff, GetBase, GetWhat, LoadEvents, LoadGraph, BuildTurn, Answer, Go, Composed
  <1>4. CASE OrderEvents \/ AlignNext \/ AlignRest \/ AlignByKey
    BY <1>4 DEF OrderEvents, AlignNext, AlignRest, AlignByKey, Answer, Go, Composed
  <1>5. CASE PutDiff
    BY <1>5, PutDiffAnswers DEF Composed
  <1> QED
    BY <1>1, <1>2, <1>3, <1>4, <1>5 DEF DiffNext, Handler

\* There is one diff of the pair at most; before a reset it covers the evidence and
\* shows its delta, and its divergence is right.  (The timelines are there until the next request.)
Kept ==
    /\ diffs = {} \/ \E d : diffs = {d}
    /\ resets = 0 => \A d \in diffs : Covers(d) /\ DeltaShown(d)
    /\ reply = "created" => \A d \in diffs : Earliest(d)

\* What is said of a stored diff does not depend on what changes afterwards.
LEMMA WordsStay ==
    ASSUME UNCHANGED <<replay, pack>>
    PROVE  /\ \A d : Covers(d)' <=> Covers(d)
           /\ \A d : DeltaShown(d)' <=> DeltaShown(d)
           /\ UNCHANGED ordered => \A d : Earliest(d)' <=> Earliest(d)
  <1>1. \A d : Covers(d)' <=> Covers(d)
    BY DEF Covers, Positioned
  <1>2. \A d : DeltaShown(d)' <=> DeltaShown(d)
    BY DEF DeltaShown, ExecutedOnce
  <1>3. ASSUME UNCHANGED ordered, NEW d
        PROVE  Earliest(d)' <=> Earliest(d)
    <2>1. Differing(d)' = Differing(d) /\ GoneTimeouts(d)' = GoneTimeouts(d)
      BY <1>3 DEF Differing, GoneTimeouts, Differs
    <2> QED
      BY <2>1 DEF Earliest
  <1> QED
    BY <1>1, <1>2, <1>3

\* What is stored stays right.
LEMMA StepKeepsDiffs ==
    ASSUME TR, Timelines, Alignment, Composed, Kept, [DiffNext]_vars
    PROVE  Kept'
  <1>1. UNCHANGED <<replay, pack>>
    BY DEF DiffNext, Handler, Ingest, Complete, Reset, PostDiff, GetBase, GetWhat, LoadEvents, LoadGraph,
           BuildTurn, OrderEvents, AlignNext, AlignRest, AlignByKey, Compose, PutDiff, vars, envVars
  <1>2. /\ \A d : Covers(d)' <=> Covers(d)
        /\ \A d : DeltaShown(d)' <=> DeltaShown(d)
        /\ UNCHANGED ordered => \A d : Earliest(d)' <=> Earliest(d)
    BY <1>1, WordsStay
  <1>3. CASE Ingest \/ Complete \/ UNCHANGED vars
    <2>1. UNCHANGED <<diffs, reply, ordered, resets>>
      BY <1>3 DEF Ingest, Complete, vars, storeVars, buildVars, envVars
    <2> QED
      BY <1>2, <2>1 DEF Kept
  <1>4. CASE Reset
    <2>1. resets' # 0 /\ UNCHANGED <<reply, ordered>> /\ (diffs' = {} \/ diffs' = diffs)
      BY <1>4 DEF Reset, Survive, TR, Tables
    <2> QED
      BY <1>2, <2>1 DEF Kept
  <1>5. CASE \E b \in Sides : PostDiff(b)
    <2>1. UNCHANGED <<diffs, resets>> /\ reply' = "none"
      BY <1>5 DEF PostDiff, storeVars
    <2> QED
      BY <1>2, <2>1 DEF Kept
  <1>6. CASE GetBase \/ GetWhat \/ LoadEvents \/ LoadGraph \/ BuildTurn
    <2>1. UNCHANGED <<diffs, resets>> /\ reply' # "created"
      BY <1>6 DEF GetBase, GetWhat, LoadEvents, LoadGraph, BuildTurn, storeVars, envVars, Answer, Go, TR, Request
    <2> QED
      BY <1>2, <2>1 DEF Kept
  <1>7. CASE OrderEvents \/ AlignNext \/ AlignRest \/ AlignByKey \/ Compose
    <2>1. UNCHANGED <<diffs, resets>> /\ reply' # "created"
      BY <1>7 DEF OrderEvents, AlignNext, AlignRest, AlignByKey, Compose, storeVars, envVars, Answer, Go, TR, Request
    <2> QED
      BY <1>2, <2>1 DEF Kept
  <1>8. CASE PutDiff
    <2>1. pc = "put" /\ UNCHANGED <<ordered, diff, resets>>
      BY <1>8 DEF PutDiff, buildVars, envVars
    <2>2. CASE reply' = "created" /\ diffs' = {diff}
      <3>1. Earliest(diff) /\ (resets = 0 => Covers(diff) /\ DeltaShown(diff))
        BY <2>1, AlignmentCovers, AlignmentShowsDelta, AlignmentShowsDivergence
      <3> QED
        BY <1>2, <2>1, <2>2, <3>1 DEF Kept
    <2>3. CASE reply' # "created" /\ diffs' = diffs
      BY <1>2, <2>1, <2>3 DEF Kept
    <2> QED
      BY <1>8, <2>2, <2>3, PutDiffAnswers
  <1> QED
    BY <1>3, <1>4, <1>5, <1>6, <1>7, <1>8 DEF DiffNext, Handler

-----------------------------------------------------------------------------
(* Failures.                                                               *)

\* The graph of an execution is valid: a circle of parents has an event with the
\* smallest id in it, and its parent is smaller.
LEMMA ParentsAreValid ==
    ASSUME NEW T, T \subseteq Events, IsFiniteSet(T), \A e \in T : e.parent \in Nat,
           \A e \in T : e.parent # 0 => e.parent < e.id /\ e.parent \in Ids(T)
    PROVE  GraphValid(Ids(T), ParentChildEdges(T))
  <1> DEFINE E == ParentChildEdges(T)
             H == Hard(E)
  <1>1. E \subseteq Edge /\ IsFiniteSet(E)
    BY ParentEdges
  <1>2. \A d \in E : d.from < d.to /\ d.from \in Ids(T) /\ d.to \in Ids(T) /\ d.from \in Nat /\ d.to \in Nat
    BY EventAssumption DEF ParentChildEdges, Ids
  <1>3. H \in SUBSET E
    BY DEF Hard
  <1>4. IsFiniteSet(H) /\ IsFiniteSet(Ids(T))
    BY <1>1, <1>3, FS_Subset, IdsFinite
  <1> HIDE DEF E, H
  <1>5. ASSUME RunsIntoCycle(Ids(T), H)
        PROVE  FALSE
    <2>1. Circular(H)
      BY <1>4, <1>5, SearchFindsOnlyCircles
    <2>2. PICK circle \in SUBSET ({d.from : d \in H} \cap {d.to : d \in H}) :
            circle # {} /\ \A n \in circle : \E d \in H : d.from \in circle /\ d.to = n
      BY <2>1 DEF Circular
    <2>3. circle \subseteq Nat
      BY <1>2, <1>3, <2>2
    <2>4. PICK n \in circle : \A m \in circle : n <= m
      BY <2>2, <2>3, LeastNatural
    <2>5. PICK d \in H : d.from \in circle /\ d.to = n
      BY <2>2
    <2>6. d.from < n /\ n <= d.from /\ n \in Nat /\ d.from \in Nat
      BY <1>2, <1>3, <2>3, <2>4, <2>5
    <2> QED
      BY <2>6
  <1>6. \A d \in E : d.from \in Ids(T) /\ d.to \in Ids(T) /\ d.from # d.to
    BY <1>2
  <1> QED
    BY <1>5, <1>6 DEF GraphValid, E, H

\* So is that of what a run was judged on.
LEMMA ExecutionIsValid ==
    ASSUME Tables, NEW s \in Sides
    PROVE  /\ Distinct(replay.judged[s]) /\ IsFiniteSet(replay.judged[s])
           /\ GraphValid(Ids(replay.judged[s]), ParentChildEdges(replay.judged[s]))
  <1>1. /\ replay.judged[s] \in SUBSET replay[s] /\ IsFiniteSet(replay[s])
        /\ replay[s] \subseteq Events /\ \A e \in replay[s] : e.parent \in Nat
    BY ReplayIs
  <1>2. IsFiniteSet(replay.judged[s])
    BY <1>1, FS_Subset
  <1>3. /\ Distinct(replay.judged[s])
        /\ \A e \in replay.judged[s] :
             e.parent # 0 => e.parent < e.id /\ e.parent \in Ids(replay.judged[s])
    BY ExecutionAssumption DEF Tables
  <1>4. GraphValid(Ids(replay.judged[s]), ParentChildEdges(replay.judged[s]))
    BY <1>1, <1>2, <1>3, ParentsAreValid
  <1> QED
    BY <1>2, <1>3, <1>4

\* Without a reset and a second execution the handler has read what was judged.
LEMMA RecordedOnce ==
    ASSUME ExecutedOnce, NEW s \in Sides, NEW T, Recorded(s, T)
    PROVE  T = replay.judged[s]
  BY DEF ExecutedOnce, Recorded

\* Its graph is then built without an error.
Smooth ==
    pc = "building" /\ resets = 0 /\ ExecutedOnce => verdict \in {"building", "ordered"}

\* It stays so.
LEMMA StepSmooth ==
    ASSUME TR, Reading, Smooth, [DiffNext]_vars
    PROVE  Smooth'
  <1>1. UNCHANGED replay
    BY DEF DiffNext, Handler, Ingest, Complete, Reset, PostDiff, GetBase, GetWhat, LoadEvents, LoadGraph,
           BuildTurn, OrderEvents, AlignNext, AlignRest, AlignByKey, Compose, PutDiff, vars, envVars
  <1>2. ExecutedOnce' <=> ExecutedOnce
    BY <1>1 DEF ExecutedOnce
  <1>3. CASE LoadGraph
    <2> SUFFICES ASSUME resets' = 0, ExecutedOnce PROVE verdict' = "building"
      BY <1>2 DEF Smooth
    <2> DEFINE c == [events |-> stored[side], edges |-> ParentChildEdges(stored[side])]
    <2>1. pc = "graph" /\ CallBuildNodes(c) /\ resets = 0 /\ side \in Sides /\ Tables
      BY <1>3 DEF LoadGraph, envVars, TR, Request
    <2>2. Recorded(side, stored[side])
      BY <2>1, StoredIsRecorded DEF Comparing
    <2>3. stored[side] = replay.judged[side]
      BY <2>1, <2>2, RecordedOnce
    <2>4. Accepted(c)
      BY <2>1, <2>3, ExecutionIsValid DEF Accepted
    <2> QED
      BY <2>1, <2>4 DEF CallBuildNodes
  <1>4. CASE BuildTurn
    <2>1. pc = "building" /\ UNCHANGED <<pc, resets>> /\ Build
      BY <1>4 DEF BuildTurn, envVars
    <2>2. ASSUME NEW e \in call.events, Select(e)
          PROVE  verdict' = verdict
      BY <2>2 DEF Select
    <2>3. CASE LoopEnds
      BY <2>3, LoopEndsOrdered DEF Reading, Building, Smooth
    <2> QED
      BY <1>2, <2>1, <2>2, <2>3 DEF Build, Smooth
  <1>5. CASE Ingest \/ Complete \/ UNCHANGED vars
    BY <1>2, <1>5 DEF Ingest, Complete, vars, envVars, timelineVars, Smooth
  <1>6. CASE Reset
    <2>1. resets' # 0
      BY <1>6 DEF Reset, TR, Tables
    <2> QED
      BY <2>1 DEF Smooth
  <1>7. CASE (\E b \in Sides : PostDiff(b)) \/ GetBase \/ GetWhat \/ LoadEvents
    BY <1>7 DEF PostDiff, GetBase, GetWhat, LoadEvents, Answer, Go, Smooth
  <1>8. CASE OrderEvents \/ AlignNext \/ AlignRest \/ AlignByKey \/ Compose
    BY <1>8 DEF OrderEvents, AlignNext, AlignRest, AlignByKey, Compose, Answer, Go, Smooth
  <1>9. CASE PutDiff
    BY <1>9, PutDiffAnswers DEF Smooth
  <1> QED
    BY <1>3, <1>4, <1>5, <1>6, <1>7, <1>8, <1>9 DEF DiffNext, Handler

\* And Order finds the graph to be one of the events it was read for.
LEMMA OrderSucceeds ==
    ASSUME TR, Reading, Smooth, OrderEvents, resets = 0, ExecutedOnce
    PROVE  pc' # "idle"
  <1>1. pc = "building" /\ Return /\ side \in Sides /\ Tables
    BY DEF OrderEvents, TR, Request
  <1>2. verdict = "ordered"
    BY <1>1 DEF Return, Results, Smooth
  <1>3. raw = replay.judged[side] /\ call.events = replay.judged[side]
    BY <1>1, RecordedOnce DEF Reading, Building
  <1>4. call.edges = ParentChildEdges(call.events) /\ IInv
    BY <1>1 DEF Reading, Building
  <1>5. /\ Placed = call.events /\ Cardinality(Placed) = Len(placed)
        /\ RespectsHardEdges /\ placed \in Seq(call.events)
        /\ \A i, j \in DOMAIN placed : placed[i] = placed[j] => i = j
    BY <1>2, <1>4 DEF IInv, PlacedOK, AllPlaced
  <1>6. Distinct(raw) /\ GraphValid(Ids(call.events), call.edges)
    BY <1>1, <1>3, <1>4, ExecutionIsValid
  <1>7. {placed[i].id : i \in DOMAIN placed} = Ids(call.events)
    BY <1>5 DEF Placed, Ids
  <1>8. \A i \in DOMAIN placed : placed[i] \in call.events /\ placed[i].id \in Ids(raw)
    BY <1>3, <1>5 DEF Placed, Ids
  <1>9. ASSUME NEW i \in DOMAIN placed
        PROVE  Position(placed, placed[i].id) = i
    <2>1. \A j \in DOMAIN placed : placed[j].id = placed[i].id => j = i
      BY <1>3, <1>5, <1>6, <1>8 DEF Distinct
    <2> QED
      BY <2>1 DEF Position
  <1>10. ASSUME NEW d \in Hard(call.edges)
         PROVE  Position(placed, d.from) < Position(placed, d.to)
    <2>1. d.to \in Ids(call.events)
      BY <1>6 DEF GraphValid, Hard
    <2>2. PICK j \in DOMAIN placed : placed[j].id = d.to
      BY <1>7, <2>1
    <2>3. PICK i \in 1 .. j - 1 : placed[i].id = d.from
      BY <1>5, <2>2 DEF RespectsHardEdges
    <2>4. DOMAIN placed = 1 .. Len(placed) /\ Len(placed) \in Nat
      BY <1>5
    <2>5. i \in DOMAIN placed /\ i < j
      BY <2>2, <2>3, <2>4
    <2> QED
      BY <1>9, <2>2, <2>3, <2>5
  <1>11. OrderAccepts(raw, placed, call.edges)
    BY <1>3, <1>5, <1>6, <1>7, <1>8, <1>10 DEF OrderAccepts
  <1> QED
    BY <1>2, <1>11 DEF OrderEvents, Go

\* A copy is taken once, and a run that was completed when it was read is completed
\* while it is there.
Followed ==
    /\ pc = "getBase" => \A s \in Sides : copy[s] = Absent
    /\ Both /\ copy["what"].status = "COMPLETED" => runs["what"].status = "COMPLETED"

\* Reading keeps up with the tables.
LEMMA StepFollows ==
    ASSUME TR, Followed, [DiffNext]_vars
    PROVE  Followed'
  <1>9. UNCHANGED <<runs, replay, pack>> => Both' = Both
    BY RowsStay DEF Both
  <1>1. CASE Ingest \/ LoadEvents \/ LoadGraph \/ BuildTurn \/ OrderEvents \/ AlignNext \/ AlignRest
             \/ AlignByKey \/ UNCHANGED vars
    <2>1. UNCHANGED <<runs, copy, replay, pack>> /\ (pc' = pc \/ pc' # "getBase")
      BY <1>1 DEF Ingest, LoadEvents, LoadGraph, BuildTurn, OrderEvents, AlignNext, AlignRest, AlignByKey,
                  Answer, Go, vars, storeVars, buildVars, envVars
    <2> QED
      BY <2>1, <1>9 DEF Followed
  <1>2. CASE Compose
    <2>1. UNCHANGED <<runs, copy, replay, pack>> /\ pc' # "getBase"
      BY <1>2 DEF Compose, Answer, Go, storeVars, envVars
    <2> QED
      BY <2>1, <1>9 DEF Followed
  <1>3. CASE PutDiff
    <2>1. UNCHANGED <<runs, copy, replay, pack>> /\ pc' = "idle"
      BY <1>3, PutDiffAnswers DEF PutDiff, buildVars, envVars
    <2> QED
      BY <2>1, <1>9 DEF Followed
  <1>4. CASE Complete
    <2>1. UNCHANGED <<pc, copy>>
      BY <1>4 DEF Complete, buildVars
    <2>2. runs'["what"] = Completed("what", replay.judged.what)
      BY <1>4, TwoSides DEF Complete, TR, Tables
    <2> QED
      BY <2>1, <2>2, RowStatus DEF Followed
  <1>5. CASE Reset
    <2>1. UNCHANGED <<pc, copy, replay, pack>>
      BY <1>5 DEF Reset
    <2>2. CASE runs' = [s \in Sides |-> Absent]
      <3>1. runs'["base"] = Absent /\ RowsOf("base")' = RowsOf("base")
        BY <2>1, <2>2, RowsStay, TwoSides
      <3>2. Absent \notin RowsOf("base")
        BY RowStatus DEF RowsOf
      <3>3. ~Both'
        BY <3>1, <3>2, TwoSides DEF Both
      <3> QED
        BY <2>1, <3>3 DEF Followed
    <2>3. CASE UNCHANGED runs
      <3>1. Both' = Both
        BY <2>1, <2>3, RowsStay DEF Both
      <3> QED
        BY <2>1, <2>3, <3>1 DEF Followed
    <2> QED
      BY <1>5, <2>2, <2>3 DEF Reset, Survive
  <1>6. CASE \E b \in Sides : PostDiff(b)
    <2>1. \A s \in Sides : copy'[s] = Absent
      BY <1>6 DEF PostDiff
    <2> QED
      BY <2>1, RowStatus, TwoSides DEF Followed
  <1>7. CASE GetBase
    <2>1. Read(named) /\ UNCHANGED <<runs, replay, pack, sent>> /\ pc' # "getBase"
      BY <1>7 DEF GetBase, Answer, Go, storeVars, envVars
    <2>2. /\ named \in Sides /\ copy'[named] = runs[named]
          /\ \A t \in Sides : t # named => copy'[t] = copy[t]
      BY <2>1, ReadsRow DEF TR, Request
    <2>3. Both' = Both
      BY <2>1, RowsStay DEF Both
    <2> QED
      BY <2>1, <2>2, <2>3, TwoSides DEF Followed
  <1>8. CASE GetWhat
    <2>1. Read(Other(named)) /\ UNCHANGED <<runs, replay, pack, sent>> /\ pc' # "getBase"
      BY <1>8 DEF GetWhat, Answer, Go, storeVars, envVars
    <2>2. PICK o \in Sides : o = Other(named)
      BY TwoSides DEF TR, Request
    <2>3. Read(o)
      BY <2>1, <2>2
    <2>4. /\ copy'[o] = runs[o] /\ \A t \in Sides : t # o => copy'[t] = copy[t]
      BY <2>1, <2>3, ReadsRow
    <2>5. Both' = Both
      BY <2>1, RowsStay DEF Both
    <2> QED
      BY <2>1, <2>2, <2>4, <2>5, TwoSides DEF Followed
  <1> QED
    BY <1>1, <1>2, <1>3, <1>4, <1>5, <1>6, <1>7, <1>8 DEF DiffNext, Handler

\* PutDiff refuses runs it has found only after a reset.
LEMMA PutDiffExcused ==
    ASSUME TR, Followed, PutDiff
    PROVE  FailsOnlyUnderReset'
  <1>1. pc = "put" /\ UNCHANGED <<replay, raced, copy, named, resets>>
    BY DEF PutDiff, buildVars, envVars
  <1>2. ~raced => Both
    BY <1>1 DEF TR, Request
  <1>3. reply' # "failed"
    BY PutDiffAnswers
  <1>4. reply' = "not found" => ~Both
    BY PutDiffAnswers
  <1>5. ASSUME reply' = "lifecycle"
        PROVE  FALSE
    <2>1. Both /\ ~Prerequisites(runs)
      BY <1>5, PutDiffAnswers
    <2>2. Prerequisites(copy)
      BY <1>1 DEF TR, Request, Comparing
    <2>3. copy["base"] = Completed("base", replay.judged.base)
      BY <1>1, CopiesAre DEF Comparing
    <2>4. runs["base"] = Completed("base", replay.judged.base)
      BY <2>1, TwoSides DEF Both, RowsOf
    <2>5. runs["what"].status = "COMPLETED"
      BY <2>1, <2>2 DEF Followed, Prerequisites
    <2> QED
      BY <2>1, <2>2, <2>3, <2>4, <2>5 DEF Prerequisites
  <1> QED
    BY <1>1, <1>2, <1>3, <1>4, <1>5 DEF FailsOnlyUnderReset

\* No request fails without a reason.
LEMMA StepExcused ==
    ASSUME TR, Reading, Alignment, Smooth, Followed, FailsOnlyUnderReset, [DiffNext]_vars
    PROVE  FailsOnlyUnderReset'
  <1>1. pc # "idle" => reply = "none"
    BY DEF TR, Request
  <1>2. CASE Ingest \/ Complete \/ UNCHANGED vars
    <2>1. UNCHANGED <<reply, raced, replay, copy, named, resets>>
      BY <1>2 DEF Ingest, Complete, vars, buildVars, envVars
    <2> QED
      BY <2>1 DEF FailsOnlyUnderReset, ExecutedOnce
  <1>3. CASE Reset
    <2>1. UNCHANGED <<reply, replay, copy, named>> /\ (raced => raced') /\ resets' = resets + 1
      BY <1>3 DEF Reset
    <2>2. resets' > 0
      BY <2>1 DEF TR, Tables
    <2> QED
      BY <2>1, <2>2 DEF FailsOnlyUnderReset, ExecutedOnce
  <1>4. CASE \E b \in Sides : PostDiff(b)
    BY <1>4 DEF PostDiff, FailsOnlyUnderReset
  <1>5. CASE GetBase
    <2>1. pc = "getBase" /\ Read(named) /\ UNCHANGED <<replay, pack, sent, named>>
      BY <1>5 DEF GetBase, storeVars, envVars
    <2>2. \/ reply' = "not found"
          \/ reply' = reply
      BY <1>5 DEF GetBase, Answer, Go
    <2>3. named \in Sides /\ Other(named) \in Sides /\ Other(named) # named
      BY TwoSides DEF TR, Request
    <2>4. copy'[Other(named)] = copy[Other(named)]
      BY <2>1, <2>3, ReadsRow
    <2>5. copy'[Other(named)] = Absent
      BY <2>1, <2>3, <2>4 DEF Followed
    <2>6. Other(named') = Other(named)
      BY <2>1
    <2> QED
      BY <1>1, <2>1, <2>2, <2>5, <2>6 DEF FailsOnlyUnderReset
  <1>6. CASE GetWhat
    <2>1. pc = "getWhat" /\ Read(Other(named)) /\ UNCHANGED <<replay, pack, sent, named>>
      BY <1>6 DEF GetWhat, storeVars, envVars
    <2>2. \/ reply' = "not found" /\ runs[Other(named)].status = "ABSENT"
          \/ reply' = "prerequisites"
          \/ reply' = reply
      BY <1>6 DEF GetWhat, Answer, Go
    <2>3. PICK o \in Sides : o = Other(named)
      BY TwoSides DEF TR, Request
    <2>4. copy'[o] = runs[o]
      BY <2>1, <2>3, ReadsRow
    <2>5. runs[o].status = "ABSENT" => runs[o] = Absent
      BY RowStatus DEF TR, Tables, AnyRow
    <2>6. Other(named') = o
      BY <2>1, <2>3
    <2> QED
      BY <1>1, <2>1, <2>2, <2>3, <2>4, <2>5, <2>6 DEF FailsOnlyUnderReset
  <1>7. CASE LoadEvents \/ LoadGraph \/ BuildTurn \/ AlignNext \/ AlignRest \/ AlignByKey
    <2>1. pc # "idle" /\ reply' = reply
      BY <1>7 DEF LoadEvents, LoadGraph, BuildTurn, AlignNext, AlignRest, AlignByKey, Go
    <2> QED
      BY <1>1, <2>1 DEF FailsOnlyUnderReset
  <1>8. CASE OrderEvents
    <2>1. pc = "building" /\ UNCHANGED <<replay, resets>>
      BY <1>8 DEF OrderEvents, envVars
    <2>2. resets = 0 \/ resets > 0
      BY DEF TR, Tables
    <2>3. pc' = "idle" => resets > 0 \/ ~ExecutedOnce
      BY <1>8, <2>2, OrderSucceeds
    <2>4. \/ pc' = "idle" /\ reply' = "failed"
          \/ reply' = reply
      BY <1>8 DEF OrderEvents, Answer, Go
    <2> QED
      BY <1>1, <2>1, <2>3, <2>4 DEF FailsOnlyUnderReset, ExecutedOnce
  <1>9. CASE Compose
    <2>1. reply' = reply /\ pc = "compose"
      BY <1>9, ComposePuts DEF Reading, Compose
    <2> QED
      BY <1>1, <2>1 DEF FailsOnlyUnderReset
  <1>10. CASE PutDiff
    BY <1>10, PutDiffExcused
  <1> QED
    BY <1>2, <1>3, <1>4, <1>5, <1>6, <1>7, <1>8, <1>9, <1>10 DEF DiffNext, Handler

-----------------------------------------------------------------------------
(* The theorems.                                                           *)

\* What holds in every state, whatever is recorded, asked for and reset.
DInv == TR /\ Reading /\ Alignment /\ Composed /\ Kept /\ Smooth /\ Followed /\ FailsOnlyUnderReset

\* It holds before the first request.
LEMMA InitDInv == Init => DInv
  <1> SUFFICES ASSUME Init PROVE DInv
    OBVIOUS
  <1>1. TR /\ Reading
    BY InitReads
  <1>2. pc = "idle" /\ reply = "none" /\ diffs = {} /\ copy = [s \in Sides |-> Absent]
    BY DEF Init
  <1>3. Alignment
    BY <1>2 DEF Alignment, Aligning, Aligned, Unaligned
  <1>4. copy["what"] = Absent
    BY <1>2, TwoSides
  <1> QED
    BY <1>1, <1>2, <1>3, <1>4, RowStatus DEF DInv, Composed, Kept, Smooth, Followed, FailsOnlyUnderReset

\* And after every step.
LEMMA DiffInvariance == DiffSpec => []DInv
  <1>1. DInv /\ [DiffNext]_vars => DInv'
    BY StepTR, StepReads, StepAligns, StepComposes, StepKeepsDiffs, StepSmooth, StepFollows, StepExcused
       DEF DInv, Reading
  <1> QED
    BY <1>1, InitDInv, PTL DEF DiffSpec

\* The bookkeeping of POST /v1/diffs is well formed: its calls of BuildNodes are, the
\* events of a run are read after its row, a timeline has only events its run recorded,
\* and the UNIQUE pair of runs has one diff at most.
THEOREM DiffTypeCorrect == DiffSpec => []DiffOK
  <1>1. ASSUME DInv
        PROVE  DiffOK
    <2>1. TR /\ Building /\ Timelines /\ Kept
      BY <1>1 DEF DInv, Reading
    <2>2. Cardinality(diffs) <= 1
      <3>1. CASE diffs = {}
        BY <3>1, FS_EmptySet
      <3>2. ASSUME NEW d, diffs = {d}
            PROVE  Cardinality(diffs) <= 1
        <4>1. Cardinality({d}) = 1
          BY FS_Singleton
        <4> QED
          BY <3>2, <4>1
      <3> QED
        BY <2>1, <3>1, <3>2 DEF Kept
    <2>3. verdict # "idle" => pc \in {"idle", "building"}
      BY <2>1 DEF Building
    <2>4. TimelineOK
      BY <2>1 DEF Building, IInv, CallOK, PlacedOK, Counting, TimelineOK
    <2> QED
      BY <2>1, <2>2, <2>3, <2>4
         DEF TR, Tables, Request, Timelines, Stages, Replies, Comparing, DiffOK
  <1> QED
    BY <1>1, DiffInvariance, PTL

\* Whatever workers record while the handler reads, a stored diff accounts for every
\* event of the baseline and every event of the what-if its pack takes a position on,
\* each exactly once, until a reset deletes the events.
THEOREM DiffsCoverEvidence == DiffSpec => []DiffCoversEvidence
  <1>1. DInv => DiffCoversEvidence
    BY DEF DInv, Kept, Covers, DiffCoversEvidence
  <1> QED
    BY <1>1, DiffInvariance, PTL

\* Both packs pair the k-th event of a semantic key with the k-th of that key, for
\* any two executions, and leave no possible pair.
THEOREM AlignmentByRank == DiffSpec => []AlignsByRank
  <1>1. DInv => AlignsByRank
    BY AlignedByRank DEF DInv
  <1> QED
    BY <1>1, DiffInvariance, PTL

\* The divergence a created diff names is the earliest change, or else the first
\* timeout that is gone, and it names none only if there is neither.
THEOREM DivergenceEarliest == DiffSpec => []DivergenceIsEarliest
  <1>1. ASSUME DInv
        PROVE  DivergenceIsEarliest
    <2>1. reply = "created" => \A d \in diffs : Earliest(d)
      BY <1>1 DEF DInv, Kept
    <2> QED
      BY <2>1 DEF Earliest, Differing, GoneTimeouts, DivergenceIsEarliest
  <1> QED
    BY <1>1, DiffInvariance, PTL

\* The effect delta computed from the two run summaries is what the alignment of
\* the events shows, for any two executions that happened once.
THEOREM DeltaIsShown == DiffSpec => []DeltaMatchesAlignment
  <1>1. DInv => DeltaMatchesAlignment
    BY DEF DInv, Kept, DeltaShown, DeltaMatchesAlignment
  <1> QED
    BY <1>1, DiffInvariance, PTL

\* A diff request fails inside only if the demo was reset or a second execution still
\* records, and is refused for runs it has found only if the demo was reset under it.
THEOREM FailuresNeedReset == DiffSpec => []FailsOnlyUnderReset
  <1>1. DInv => FailsOnlyUnderReset
    BY DEF DInv
  <1> QED
    BY <1>1, DiffInvariance, PTL

\* The timelines the handler compares, whatever half of a run's events it has read
\* them from, respect their hard edges and the causal window, are the only ones
\* there are, and are refused exactly for cycles.
THEOREM ComparedTimelines ==
    DiffSpec => [](RespectsHardEdges /\ WithinTolerance /\ OneTimeline /\ CyclesAreReported)
  <1>1. DInv => RespectsHardEdges /\ WithinTolerance /\ OneTimeline /\ CyclesAreReported
    BY NextIsUnique DEF DInv, Reading, Building, IInv
  <1> QED
    BY <1>1, DiffInvariance, PTL

\* The handler's calls implement the order the contract promises, too: with events
\* and edges read while a worker still records them, no event is put before one it
\* depends on, and no timeline that leaves one out is handed over.
THEOREM ComparedLinearExtension == DiffSpec => ImplementsLinearExtension
  <1>1. Init => Linear!Init
    BY DEF Init, TimelineInit, Linear!Init, Live, Items, Before, Emitted
  <1>2. ASSUME DInv, [DiffNext]_vars
        PROVE  [Linear!Next]_(Linear!vars)
    <2>1. (\E c : CallBuildNodes(c)) \/ Build \/ Return \/ UNCHANGED timelineVars
      BY <1>2 DEF DiffNext, Handler, Ingest, Complete, Reset, PostDiff, GetBase, GetWhat, LoadEvents,
                  LoadGraph, BuildTurn, OrderEvents, AlignNext, AlignRest, AlignByKey, Compose, PutDiff, vars
    <2> QED
      BY <1>2, <2>1, StepOrders DEF DInv, Reading, Building
  <1> QED
    BY <1>1, <1>2, DiffInvariance, PTL DEF DiffSpec, ImplementsLinearExtension, Linear!Spec
=============================================================================
