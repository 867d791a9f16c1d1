------------------------- MODULE ReplayWorkerProofs -------------------------
(* Proofs about ReplayWorker, for any number of workers, runs and capsules   *)
(* and any number of crashes, resets and restarts.                           *)
EXTENDS ReplayWorkerProps, TLAPS

-----------------------------------------------------------------------------
(* Records: what the workers write has the type of a run.                    *)

\* Run ids are the numbers from 1; 0 stands for none.
LEMMA RunIdsInRange == /\ 0 \in 0 .. MaxRun
                       /\ \A r \in RunIds : r \in 0 .. MaxRun /\ r # 0
                       /\ \A n \in 0 .. MaxRun : n # 0 => n \in RunIds
BY MaxRunAssumption, SMT DEF RunIds

\* The answer for a run that does not exist is a well-typed record.
LEMMA NoRunType == NoRun \in Run
BY RunIdsInRange DEF NoRun, Run, RunStatus

\* Changing a run's status keeps its type.
LEMMA StatusType ==
  ASSUME NEW run \in Run, NEW s \in RunStatus
  PROVE  [run EXCEPT !.status = s] \in Run
BY DEF Run

\* FinalizeOrphan's record is well typed.
LEMMA OrphanType ==
  ASSUME NEW run \in Run
  PROVE  OrphanTarget(run) \in Run
BY DEF Run, OrphanTarget, RunStatus, Terminal, ErrorCodes, IsolationErrors

\* AdvanceRun's RUNNING record is well typed.
LEMMA StartedType ==
  ASSUME NEW run \in Run
  PROVE  [run EXCEPT !.status = "RUNNING", !.started = TRUE] \in Run
BY DEF Run, RunStatus

\* NewRun returns a well-typed CREATED run under the id it is given.
LEMMA NewRunType ==
  ASSUME epoch \in [Capsules -> Nat], NEW r \in RunIds, NEW b \in 0 .. MaxRun, NEW c \in Capsules,
         NEW type \in {"BASELINE", "WHAT_IF"}
  PROVE  /\ NewRun(r, type, b, c) \in Run
         /\ NewRun(r, type, b, c).id = r
         /\ NewRun(r, type, b, c).status = "CREATED"
<1>1. r \in 0 .. MaxRun
  BY RunIdsInRange
<1>2. "CREATED" \in RunStatus
  BY DEF RunStatus
<1> QED BY <1>1, <1>2, NoRunType DEF NewRun, Run

\* finalizeExecuteError maps every failure to BLOCKED or FAILED with a code.
LEMMA VerdictType ==
  ASSUME NEW f
  PROVE  /\ Verdict(f).status \in {"BLOCKED", "FAILED"}
         /\ Verdict(f).error \in ErrorCodes
BY DEF Verdict, ErrorCodes, IsolationErrors

\* Setting a status and an error code keeps a run's type.
LEMMA VerdictFieldsType ==
  ASSUME NEW run \in Run, NEW s \in RunStatus, NEW e \in {"NONE"} \cup ErrorCodes
  PROVE  [run EXCEPT !.status = s, !.error = e] \in Run
BY DEF Run

\* finalizeTerminal's record is well typed.
LEMMA SettledType ==
  ASSUME NEW w \in Workers, held \in [Workers -> Run]
  PROVE  SettledTarget(w) \in Run
<1>1. /\ Verdict(fate[w]).status \in RunStatus
      /\ Verdict(fate[w]).error \in {"NONE"} \cup ErrorCodes
  BY VerdictType DEF RunStatus, Terminal
<1>2. held[w] \in Run
  OBVIOUS
<1> QED BY <1>1, <1>2, VerdictFieldsType DEF SettledTarget

\* deriveOutcome returns an outcome of the run's own type.
LEMMA OutcomeType ==
  ASSUME NEW type, NEW f
  PROVE  /\ type = "BASELINE" => OutcomeFor(type, f) \in Outcomes.BASELINE
         /\ type = "WHAT_IF"  => OutcomeFor(type, f) \in Outcomes.WHAT_IF
BY DEF OutcomeFor, Outcomes

\* The events a worker ingests carry ids of the run it holds.
LEMMA OwnEventType ==
  ASSUME NEW w \in Workers, TypeOK, WorkerWellFormed(w), pc[w] \in {"ingest", "finish"},
         NEW i \in 1 .. EventsPerRun
  PROVE  OwnEvent(w, i) \in EventIds
<1>1. held[w].id \in RunIds /\ emitted[w] >= EventsPerRun /\ emitted[w] \in Nat
  BY DEF WorkerWellFormed, TypeOK
<1>2. emitted[w] - EventsPerRun + i \in Nat
  BY <1>1, WorkerAssumption, SMT
<1> QED BY <1>1, <1>2 DEF OwnEvent, EventIds

\* FinalizeRun's COMPLETED record is well typed.
LEMMA CompletedType ==
  ASSUME NEW w \in Workers, TypeOK, WorkerWellFormed(w), pc[w] = "finish"
  PROVE  CompletedTarget(w) \in Run
<1> DEFINE o == OutcomeFor(held[w].type, fate[w])
           e == OwnEvents(w)
<1>1. held[w] \in Run
  BY DEF TypeOK
<1>2. held[w].type \in {"BASELINE", "WHAT_IF"}
  BY <1>1 DEF Run
<1>3. o \in {"NONE"} \cup Outcomes.BASELINE \cup Outcomes.WHAT_IF
  BY <1>2, OutcomeType
<1>4. e \in SUBSET EventIds
  BY OwnEventType DEF OwnEvents
<1>5. "COMPLETED" \in RunStatus
  BY DEF RunStatus, Terminal
<1> HIDE DEF o, e
<1>6. [held[w] EXCEPT !.status = "COMPLETED", !.isolated = TRUE, !.evidence = e,
                      !.outcome = o] \in Run
  BY <1>1, <1>3, <1>4, <1>5 DEF Run
<1> QED BY <1>6 DEF CompletedTarget, o, e

-----------------------------------------------------------------------------
(* Types: what a store operation or a piece of control flow leaves behind.   *)

\* TransitionRun keeps the type of the table.
LEMMA TransitionTypes ==
  ASSUME runs \in [RunIds -> Run], NEW from, NEW run \in Run, TransitionRun(from, run)
  PROVE  runs' \in [RunIds -> Run]
BY DEF TransitionRun

\* ClaimRun keeps the types of the table and the leases.
LEMMA ClaimTypes ==
  ASSUME runs \in [RunIds -> Run], lease \in [RunIds -> {"null", "live", "expired"}],
         NEW r \in RunIds, ClaimRun(r)
  PROVE  /\ runs' \in [RunIds -> Run]
         /\ lease' \in [RunIds -> {"null", "live", "expired"}]
<1>1. [runs[r] EXCEPT !.status = "VALIDATING"] \in Run
  BY StatusType DEF RunStatus
<1>2. CASE ClaimAccepts(r)
  <2>1. runs' = [runs EXCEPT ![r] = [runs[r] EXCEPT !.status = "VALIDATING"]]
    BY <1>2 DEF ClaimRun
  <2> QED BY <1>1, <1>2, <2>1 DEF ClaimRun
<1>3. CASE ~ClaimAccepts(r)
  BY <1>3 DEF ClaimRun
<1> QED BY <1>2, <1>3

\* PutRun keeps the types of the table and the leases.
LEMMA PutTypes ==
  ASSUME runs \in [RunIds -> Run], lease \in [RunIds -> {"null", "live", "expired"}],
         NEW run \in Run, PutRun(run)
  PROVE  /\ runs' \in [RunIds -> Run]
         /\ lease' \in [RunIds -> {"null", "live", "expired"}]
BY DEF PutRun

\* Leaving processRun brings a worker back to the loop, well typed.
LEMMA LeaveTypes ==
  ASSUME TypeOK, NEW w \in Workers, NEW rest \in SUBSET RunIds, Leave(w, rest)
  PROVE  /\ listed' \in [Workers -> SUBSET RunIds]
         /\ held' \in [Workers -> Run]
         /\ fate' \in [Workers -> Fates]
         /\ stored' \in [Workers -> 0 .. EventsPerRun]
         /\ pc' \in [Workers -> Labels]
         /\ pc'[w] \in {"get", "reclaim", "down"}
         /\ stored'[w] = 0
<1>1. 0 \in 0 .. EventsPerRun
  BY WorkerAssumption
<1> QED BY <1>1, NoRunType DEF TypeOK, Leave, Goto, Labels, Fates


\* Every step leaves every variable in its type.
LEMMA TypeStep ==
  ASSUME TypeOK, WellFormed, Next
  PROVE  TypeOK'
<1> USE DEF vars, storeVars, workerVars, apiVars, boundVars
<1>1. ASSUME NEW w \in Workers, WorkerStep(w)
      PROVE  TypeOK'
  <2>1. CASE Reclaim(w)
    <3>1. ExpiredRuns \in SUBSET Run
      BY DEF TypeOK, StoreTypeOK, ExpiredRuns
    <3> QED BY <2>1, <3>1 DEF TypeOK, StoreTypeOK, Reclaim, Goto, Labels
  <2>2. CASE FailOrphan(w)
    <3>1. PICK run \in orphans[w] : /\ TransitionRun(run.status, OrphanTarget(run))
                                    /\ orphans' = [orphans EXCEPT ![w] = @ \ {run}]
      BY <2>2 DEF FailOrphan
    <3>2. OrphanTarget(run) \in Run
      BY OrphanType DEF TypeOK
    <3>3. runs' \in [RunIds -> Run]
      BY <3>1, <3>2, TransitionTypes DEF TypeOK, StoreTypeOK
    <3>4. orphans' \in [Workers -> SUBSET Run]
      BY <3>1 DEF TypeOK
    <3> QED BY <2>2, <3>3, <3>4 DEF TypeOK, StoreTypeOK, FailOrphan
  <2>3. CASE List(w)
    <3>1. CreatedRuns \in SUBSET RunIds
      BY DEF CreatedRuns
    <3> QED BY <2>3, <3>1 DEF TypeOK, StoreTypeOK, List, Goto, Labels
  <2>4. CASE GetRun(w)
    <3>1. PICK r \in listed[w] :
            \/ Continue(w, r) \/ Break(w)
            \/ /\ held' = [held EXCEPT ![w] = runs[r]]
               /\ Goto(w, CASE runs[r].status = "CREATED" -> "claim"
                            [] runs[r].status = "RUNNING" -> "load"
                            [] OTHER -> IF runs[r].type = "WHAT_IF" THEN "authorize" ELSE "advance")
               /\ UNCHANGED <<listed, fate, stored>>
      BY <2>4 DEF GetRun
    <3>2. r \in RunIds /\ listed[w] \ {r} \in SUBSET RunIds /\ runs[r] \in Run
      BY DEF TypeOK, StoreTypeOK
    <3>3. CASE Continue(w, r) \/ Break(w)
      BY <2>4, <3>2, <3>3, LeaveTypes DEF TypeOK, StoreTypeOK, GetRun, Continue, Break
    <3>4. CASE ~(Continue(w, r) \/ Break(w))
      BY <2>4, <3>1, <3>2, <3>4 DEF TypeOK, StoreTypeOK, GetRun, Goto, Labels
    <3> QED BY <3>3, <3>4
  <2>5. CASE Claim(w)
    <3>1. held[w].id \in RunIds
      BY <2>5 DEF WellFormed, WorkerWellFormed, Claim
    <3>2. runs' \in [RunIds -> Run] /\ lease' \in [RunIds -> {"null", "live", "expired"}]
      BY <2>5, <3>1, ClaimTypes DEF TypeOK, StoreTypeOK, Claim
    <3>3. held' \in [Workers -> Run] /\ pc' \in [Workers -> Labels]
      BY <2>5, <3>1, <3>2 DEF TypeOK, Claim, Goto, Labels
    <3> QED BY <2>5, <3>2, <3>3 DEF TypeOK, StoreTypeOK, Claim
  <2>6. CASE Recheck(w)
    <3>1. listed[w] \ {held[w].id} \in SUBSET RunIds
      BY DEF TypeOK
    <3> QED BY <2>6, <3>1, LeaveTypes DEF TypeOK, StoreTypeOK, Recheck, Continue, Break
  <2>7. CASE Authorize(w)
    BY <2>7 DEF TypeOK, StoreTypeOK, Authorize, Settle, Goto, Labels, Fates
  <2>8. CASE Advance(w)
    <3> DEFINE next == [held[w] EXCEPT !.status = "RUNNING", !.started = TRUE]
    <3>1. next \in Run
      BY StartedType DEF TypeOK
    <3> HIDE DEF next
    <3>2. /\ TransitionRun(held[w].status, next)
          /\ IF TransitionAccepts(held[w].status, next)
               THEN /\ held' = [held EXCEPT ![w] = next]
                    /\ Goto(w, "renew")
                    /\ UNCHANGED <<listed, fate, stored>>
               ELSE Continue(w, held[w].id)
      BY <2>8 DEF Advance, next
    <3>3. runs' \in [RunIds -> Run]
      BY <3>1, <3>2, TransitionTypes DEF TypeOK, StoreTypeOK
    <3>4. listed[w] \ {held[w].id} \in SUBSET RunIds
      BY DEF TypeOK
    <3>5. CASE TransitionAccepts(held[w].status, next)
      BY <2>8, <3>1, <3>2, <3>3, <3>5 DEF TypeOK, StoreTypeOK, Advance, Goto, Labels
    <3>6. CASE ~TransitionAccepts(held[w].status, next)
      BY <2>8, <3>2, <3>3, <3>4, <3>6, LeaveTypes DEF TypeOK, StoreTypeOK, Advance, Continue
    <3> QED BY <3>5, <3>6
  <2>9. CASE Renew(w)
    BY <2>9 DEF TypeOK, StoreTypeOK, Renew, RenewLease, Goto, Labels
  <2>10. CASE Load(w)
    BY <2>10 DEF TypeOK, StoreTypeOK, Load, Settle, Goto, Labels, Fates
  <2>11. CASE Execute(w)
    <3>1. PICK res \in Results :
            /\ \E n \in Allocated(res) : emitted' = [emitted EXCEPT ![w] = @ + n]
            /\ fate' = [fate EXCEPT ![w] = res]
            /\ Goto(w, IF res \in Observed THEN "ingest" ELSE "settle")
      BY <2>11 DEF Execute
    <3>2. PICK n \in Allocated(res) : emitted' = [emitted EXCEPT ![w] = @ + n]
      BY <3>1
    <3>3. n \in Nat
      BY WorkerAssumption DEF Allocated
    <3>4. emitted' \in [Workers -> Nat]
      BY <3>2, <3>3 DEF TypeOK
    <3>5. fate' \in [Workers -> Fates]
      BY <3>1, WorkerAssumption DEF TypeOK, Fates
    <3>6. execs' \in [RunIds -> Nat]
      <4>1. held[w].id \in RunIds
        BY <2>11 DEF WellFormed, WorkerWellFormed, Execute
      <4>2. execs' = [execs EXCEPT ![held[w].id] = execs[held[w].id] + 1]
        BY <2>11 DEF Execute
      <4> QED BY <4>1, <4>2 DEF TypeOK
    <3>7. pc' \in [Workers -> Labels]
      BY <3>1 DEF TypeOK, Goto, Labels
    <3> QED BY <2>11, <3>4, <3>5, <3>6, <3>7 DEF TypeOK, StoreTypeOK, Execute
  <2>12. CASE Ingest(w)
    <3> DEFINE e == OwnEvent(w, stored[w] + 1)
    <3>1. stored[w] \in 0 .. EventsPerRun /\ stored[w] < EventsPerRun
      BY <2>12 DEF TypeOK, WellFormed, WorkerWellFormed, Ingest
    <3>2. stored[w] + 1 \in 1 .. EventsPerRun /\ stored[w] + 1 \in 0 .. EventsPerRun
      BY <3>1, WorkerAssumption, SMT
    <3>3. e \in EventIds
      BY <2>12, <3>2, OwnEventType DEF WellFormed, Ingest
    <3>4. events' \subseteq EventIds
      BY <2>12, <3>3 DEF TypeOK, StoreTypeOK, Ingest, IngestEvent
    <3>5. stored' \in [Workers -> 0 .. EventsPerRun]
      BY <2>12, <3>2 DEF TypeOK, Ingest
    <3>6. fate' \in [Workers -> Fates] /\ pc' \in [Workers -> Labels]
      BY <2>12 DEF TypeOK, Ingest, Settle, Goto, Labels, Fates
    <3> QED BY <2>12, <3>4, <3>5, <3>6 DEF TypeOK, StoreTypeOK, Ingest
  <2>13. CASE Finish(w)
    <3>1. CompletedTarget(w) \in Run
      BY <2>13, CompletedType DEF WellFormed, Finish
    <3>2. runs' \in [RunIds -> Run]
      BY <2>13, <3>1, TransitionTypes DEF TypeOK, StoreTypeOK, Finish
    <3>3. listed[w] \ {held[w].id} \in SUBSET RunIds
      BY DEF TypeOK
    <3>4. Break(w) \/ Continue(w, held[w].id)
      BY <2>13 DEF Finish
    <3> QED BY <2>13, <3>2, <3>3, <3>4, LeaveTypes
            DEF TypeOK, StoreTypeOK, Finish, Continue, Break
  <2>14. CASE SettleRun(w)
    <3>1. SettledTarget(w) \in Run
      BY SettledType DEF TypeOK
    <3>2. runs' \in [RunIds -> Run]
      BY <2>14, <3>1, TransitionTypes DEF TypeOK, StoreTypeOK, SettleRun
    <3>3. listed[w] \ {held[w].id} \in SUBSET RunIds
      BY DEF TypeOK
    <3>4. Break(w) \/ Continue(w, held[w].id)
      BY <2>14 DEF SettleRun
    <3> QED BY <2>14, <3>2, <3>3, <3>4, LeaveTypes
            DEF TypeOK, StoreTypeOK, SettleRun, Continue, Break
  <2> QED BY <1>1, <2>1, <2>2, <2>3, <2>4, <2>5, <2>6, <2>7, <2>8, <2>9, <2>10,
             <2>11, <2>12, <2>13, <2>14 DEF WorkerStep
<1>2. ASSUME NEW w \in Workers, Crash(w)
      PROVE  TypeOK'
  BY <1>2, NoRunType, WorkerAssumption DEF TypeOK, StoreTypeOK, Crash, Goto, Labels, Fates
<1>3. ASSUME NEW w \in Workers, Restart(w)
      PROVE  TypeOK'
  BY <1>3 DEF TypeOK, StoreTypeOK, Restart, Goto, Labels
<1>4. ASSUME NEW w \in Workers, NEW r \in RunIds, RunOnce(w, r)
      PROVE  TypeOK'
  BY <1>4 DEF TypeOK, StoreTypeOK, RunOnce, Goto, Labels
<1>5. ASSUME NEW r \in RunIds, LeaseExpires(r)
      PROVE  TypeOK'
  BY <1>5 DEF TypeOK, StoreTypeOK, LeaseExpires
<1>6. ASSUME NEW c \in Capsules, PostCapsule(c)
      PROVE  TypeOK'
  BY <1>6 DEF TypeOK, StoreTypeOK, PostCapsule
<1>7. ASSUME NEW c \in Capsules, NEW type \in {"BASELINE", "WHAT_IF"}, NEW b \in 0 .. MaxRun,
             PostRun(type, b, c)
      PROVE  TypeOK'
  <2>1. nextRun' \in RunIds /\ nextRun' \in 0 .. MaxRun
    BY <1>7, MaxRunAssumption DEF TypeOK, PostRun, RunIds
  <2>2. NewRun(nextRun', type, b, c) \in Run
    BY <2>1, NewRunType DEF TypeOK, StoreTypeOK
  <2> QED BY <1>7, <2>1, <2>2 DEF TypeOK, StoreTypeOK, PostRun
<1>8. ASSUME NEW run \in posting, PutPosted(run)
      PROVE  TypeOK'
  <2>1. runs' \in [RunIds -> Run] /\ lease' \in [RunIds -> {"null", "live", "expired"}]
    BY <1>8, PutTypes DEF TypeOK, StoreTypeOK, PutPosted
  <2> QED BY <1>8, <2>1 DEF TypeOK, StoreTypeOK, PutPosted
<1>9. ASSUME PostReset
      PROVE  TypeOK'
  <2>1. PICK late \in SUBSET compiled : Reset(late)
    BY <1>9 DEF PostReset
  <2>2. /\ runs' \in [RunIds -> Run] /\ lease' \in [RunIds -> {"null", "live", "expired"}]
        /\ events' \subseteq EventIds /\ compiled' \subseteq Capsules /\ left' \subseteq RunIds
    BY <2>1, NoRunType DEF TypeOK, StoreTypeOK, Reset, Kept
  <2>3. epoch' \in [Capsules -> Nat]
    <3>1. \A c \in Capsules : epoch[c] \in Nat /\ epoch[c] + 1 \in Nat
      BY DEF TypeOK, StoreTypeOK
    <3> QED BY <2>1, <3>1 DEF Reset
  <2> QED BY <1>9, <2>2, <2>3 DEF TypeOK, StoreTypeOK, PostReset
<1>10. ASSUME ApiRestart
       PROVE  TypeOK'
  BY <1>10, MaxRunAssumption DEF TypeOK, StoreTypeOK, ApiRestart
<1>11. RunIds \subseteq 0 .. MaxRun /\ 0 \in 0 .. MaxRun
  BY RunIdsInRange
<1> QED BY <1>1, <1>2, <1>3, <1>4, <1>5, <1>6, <1>7, <1>8, <1>9, <1>10, <1>11
        DEF Next, ApiStep

-----------------------------------------------------------------------------
(* The rows: a step changes one of them, by the store's rules, or a reset    *)
(* drops all but those it leaves behind.                                     *)

RowPut(run) ==
  PutPosted(run) /\ PutRunAccepts(run) /\ runs' = [runs EXCEPT ![run.id] = run]
RowClaimed(r) == ClaimAccepts(r) /\ runs' = [runs EXCEPT ![r].status = "VALIDATING"]
RowMoved(run) ==
  TransitionAccepts(runs[run.id].status, run) /\ runs' = [runs EXCEPT ![run.id] = run]
RowsDropped ==
  /\ PostReset
  /\ \E late \in SUBSET compiled :
       runs' = [r \in RunIds |-> IF r \in Kept(late) THEN runs[r] ELSE NoRun]

\* TransitionRun moves one row as RowMoved says, or changes nothing.
LEMMA MovedOrNot ==
  ASSUME runs \in [RunIds -> Run], NEW from, NEW run \in Run, TransitionRun(from, run)
  PROVE  \/ runs' = runs
         \/ run.id \in RunIds /\ RowMoved(run)
<1>1. CASE ~TransitionAccepts(from, run)
  BY <1>1 DEF TransitionRun
<1>2. CASE TransitionAccepts(from, run)
  <2>1. runs' = [runs EXCEPT ![run.id] = run] /\ runs[run.id].status = from
    BY <1>2 DEF TransitionRun, TransitionAccepts
  <2>2. CASE run.id \in RunIds
    BY <1>2, <2>1, <2>2 DEF RowMoved
  <2>3. CASE run.id \notin RunIds
    BY <2>1, <2>3
  <2> QED BY <2>2, <2>3
<1> QED BY <1>1, <1>2

\* However the workers, the API, the clock and the crashes interleave, the table
\* of runs changes only in these five ways.
LEMMA RowChange ==
  ASSUME TypeOK, WellFormed, Next
  PROVE  \/ runs' = runs
         \/ \E run \in posting : RowPut(run)
         \/ \E r \in RunIds : RowClaimed(r)
         \/ \E run \in Run : run.id \in RunIds /\ RowMoved(run)
         \/ RowsDropped
<1> USE DEF storeVars
<1>0. runs \in [RunIds -> Run]
  BY DEF TypeOK, StoreTypeOK
<1>1. ASSUME NEW w \in Workers, WorkerStep(w)
      PROVE  \/ runs' = runs
             \/ \E r \in RunIds : RowClaimed(r)
             \/ \E run \in Run : run.id \in RunIds /\ RowMoved(run)
  <2>1. CASE \/ Reclaim(w) \/ List(w) \/ GetRun(w) \/ Recheck(w) \/ Authorize(w)
             \/ Renew(w) \/ Load(w) \/ Execute(w) \/ Ingest(w)
    BY <2>1 DEF Reclaim, List, GetRun, Recheck, Authorize, Renew, Load, Execute, Ingest
  <2>2. CASE FailOrphan(w)
    <3>1. PICK run \in orphans[w] : TransitionRun(run.status, OrphanTarget(run))
      BY <2>2 DEF FailOrphan
    <3>2. OrphanTarget(run) \in Run
      BY OrphanType DEF TypeOK
    <3> QED BY <1>0, <3>1, <3>2, MovedOrNot
  <2>3. CASE Claim(w)
    <3>1. held[w].id \in RunIds
      BY <2>3 DEF WellFormed, WorkerWellFormed, Claim
    <3> QED BY <2>3, <3>1 DEF Claim, ClaimRun, RowClaimed
  <2>4. CASE Advance(w)
    <3>1. [held[w] EXCEPT !.status = "RUNNING", !.started = TRUE] \in Run
      BY StartedType DEF TypeOK
    <3> QED BY <1>0, <2>4, <3>1, MovedOrNot DEF Advance
  <2>5. CASE Finish(w)
    <3>1. CompletedTarget(w) \in Run
      BY <2>5, CompletedType DEF WellFormed, Finish
    <3> QED BY <1>0, <2>5, <3>1, MovedOrNot DEF Finish
  <2>6. CASE SettleRun(w)
    <3>1. SettledTarget(w) \in Run
      BY SettledType DEF TypeOK
    <3> QED BY <1>0, <2>6, <3>1, MovedOrNot DEF SettleRun
  <2> QED BY <1>1, <2>1, <2>2, <2>3, <2>4, <2>5, <2>6 DEF WorkerStep
<1>2. ASSUME NEW run \in posting, PutPosted(run)
      PROVE  runs' = runs \/ RowPut(run)
  BY <1>2 DEF PutPosted, PutRun, RowPut
<1>3. ASSUME PostReset
      PROVE  RowsDropped
  BY <1>3 DEF PostReset, Reset, RowsDropped
<1>4. CASE \/ \E w \in Workers : Crash(w) \/ Restart(w)
           \/ \E w \in Workers, r \in RunIds : RunOnce(w, r)
           \/ \E r \in RunIds : LeaseExpires(r)
  BY <1>4 DEF Crash, Restart, RunOnce, LeaseExpires
<1>5. CASE \/ \E c \in Capsules : PostCapsule(c) \/ PostRun("BASELINE", 0, c)
           \/ \E c \in Capsules, b \in RunIds : PostRun("WHAT_IF", b, c)
           \/ ApiRestart
  BY <1>5 DEF PostCapsule, PostRun, ApiRestart
<1> QED BY <1>1, <1>2, <1>3, <1>4, <1>5 DEF Next, ApiStep

\* An absent row looks like a baseline that does not exist.
LEMMA NoRunRow == NoRun.status = "ABSENT" /\ NoRun.type = "BASELINE"
BY DEF NoRun

\* Contract-valid rows under their own ids stay so.
LEMMA RowsStep ==
  ASSUME TypeOK, WellFormed, Next
  PROVE  RowsWellFormed'
<1>1. /\ runs \in [RunIds -> Run]
      /\ RowsWellFormed
      /\ PostingWellFormed
      /\ posting \subseteq Run
  BY DEF TypeOK, StoreTypeOK, WellFormed
<1> SUFFICES ASSUME NEW q \in RunIds
             PROVE  \/ runs'[q] = NoRun
                    \/ runs'[q].status # "ABSENT" /\ runs'[q].id = q /\ RunValid(runs'[q])
  BY DEF RowsWellFormed, RunValid
<1>2. \/ runs[q] = NoRun
      \/ runs[q].status # "ABSENT" /\ runs[q].id = q /\ RunValid(runs[q])
  BY <1>1 DEF RowsWellFormed
<1>3. CASE runs' = runs
  BY <1>2, <1>3
<1>4. ASSUME NEW run \in posting, RowPut(run)
      PROVE  \/ runs'[q] = runs[q]
             \/ runs'[q].status # "ABSENT" /\ runs'[q].id = q /\ RunValid(runs'[q])
  <2>1. run.id \in RunIds /\ run.status = "CREATED" /\ RunValid(run)
    BY <1>1, <1>4 DEF PostingWellFormed, RowPut, PutRunAccepts
  <2> QED BY <1>1, <1>4, <2>1 DEF RowPut
<1>5. ASSUME NEW r \in RunIds, RowClaimed(r)
      PROVE  \/ runs'[q] = runs[q]
             \/ runs'[q].status # "ABSENT" /\ runs'[q].id = q /\ RunValid(runs'[q])
  <2>1. CASE q = r
    <3>1. runs'[q] = [runs[q] EXCEPT !.status = "VALIDATING"]
      BY <1>1, <1>5, <2>1 DEF RowClaimed
    <3>2. runs[q].status = "CREATED" /\ runs[q] \in Run
      BY <1>1, <1>5, <2>1 DEF RowClaimed, ClaimAccepts
    <3>3. runs[q].id = q /\ RunValid(runs[q])
      BY <1>2, <3>2, NoRunRow
    <3>4. /\ runs'[q].status = "VALIDATING" /\ runs'[q].id = runs[q].id
          /\ runs'[q].type = runs[q].type /\ runs'[q].baseline = runs[q].baseline
          /\ runs'[q].started = runs[q].started /\ runs'[q].outcome = runs[q].outcome
          /\ runs'[q].isolated = runs[q].isolated /\ runs'[q].error = runs[q].error
      BY <3>1, <3>2 DEF Run
    <3> QED BY <3>2, <3>3, <3>4 DEF RunValid
  <2>2. CASE q # r
    BY <1>1, <1>5, <2>2 DEF RowClaimed
  <2> QED BY <2>1, <2>2
<1>6. ASSUME NEW run \in Run, run.id \in RunIds, RowMoved(run)
      PROVE  \/ runs'[q] = runs[q]
             \/ runs'[q].status # "ABSENT" /\ runs'[q].id = q /\ RunValid(runs'[q])
  <2>1. RunValid(run) /\ run.status # "ABSENT"
    BY <1>6 DEF RowMoved, TransitionAccepts, LegalTransition, Terminal
  <2> QED BY <1>1, <1>6, <2>1 DEF RowMoved
<1>7. CASE RowsDropped
  BY <1>2, <1>7 DEF RowsDropped
<1> QED BY <1>2, <1>3, <1>4, <1>5, <1>6, <1>7, RowChange

\* The row of a COMPLETED run is neither inserted over, claimed nor moved.
LEMMA CompletedIsFixed ==
  ASSUME TypeOK, NEW b \in RunIds, runs[b].status = "COMPLETED"
  PROVE  /\ \A run \in posting : RowPut(run) => runs'[b] = runs[b]
         /\ \A r \in RunIds : RowClaimed(r) => runs'[b] = runs[b]
         /\ \A run \in Run : RowMoved(run) => runs'[b] = runs[b]
<1>1. runs \in [RunIds -> Run]
  BY DEF TypeOK, StoreTypeOK
<1>2. \A run \in posting : RowPut(run) => runs'[b] = runs[b]
  BY <1>1 DEF RowPut, PutRunAccepts
<1>3. \A r \in RunIds : RowClaimed(r) => runs'[b] = runs[b]
  BY <1>1 DEF RowClaimed, ClaimAccepts
<1>4. \A run \in Run : RowMoved(run) => runs'[b] = runs[b]
  BY <1>1 DEF RowMoved, TransitionAccepts, LegalTransition
<1> QED BY <1>2, <1>3, <1>4

\* What the gate says of one what-if run and its baseline.
Gated(run, b) ==
  /\ b.type = "BASELINE" /\ b.status = "COMPLETED"
  /\ b.outcome = "REPRODUCED" /\ b.isolated
  /\ b.capsule = run.capsule /\ b.digest = run.digest

\* Every step keeps the gate: a stored what-if stands beside its reproduced
\* baseline.
LEMMA GateStep ==
  ASSUME TypeOK, WellFormed, WhatIfGate, Next
  PROVE  WhatIfGate'
<1>1. /\ runs \in [RunIds -> Run]
      /\ posting \subseteq Run
      /\ RowsWellFormed
  BY DEF TypeOK, StoreTypeOK, WellFormed
<1>2. \A r \in RunIds : runs[r].type = "WHAT_IF" => Gated(runs[r], runs[runs[r].baseline])
  BY DEF WhatIfGate, Gated
<1>3. \A r \in RunIds : runs[r].type = "WHAT_IF" => runs[r].baseline \in RunIds
  <2> SUFFICES ASSUME NEW r \in RunIds, runs[r].type = "WHAT_IF"
               PROVE  runs[r].baseline \in RunIds
    OBVIOUS
  <2>1. runs[r].baseline # 0
    BY <1>1, NoRunRow DEF RowsWellFormed, RunValid
  <2>2. runs[r].baseline \in 0 .. MaxRun
    BY <1>1 DEF Run
  <2> QED BY <2>1, <2>2, RunIdsInRange
<1> SUFFICES ASSUME NEW q \in RunIds, runs'[q].type = "WHAT_IF"
             PROVE  Gated(runs'[q], runs'[runs'[q].baseline])
  BY DEF WhatIfGate, Gated
<1>4. CASE runs' = runs
  BY <1>2, <1>4
<1>5. ASSUME NEW run \in posting, RowPut(run)
      PROVE  Gated(runs'[q], runs'[runs'[q].baseline])
  <2>1. CASE q = run.id
    <3>1. runs'[q] = run /\ run \in Run
      BY <1>1, <1>5, <2>1 DEF RowPut
    <3>2. Gated(run, runs[run.baseline])
      BY <1>5, <3>1 DEF RowPut, PutRunAccepts, EligibleBaseline, Gated
    <3>3. run.baseline \in RunIds
      <4>1. run.baseline # 0
        BY <1>5, <3>1 DEF RowPut, PutRunAccepts, RunValid
      <4>2. run.baseline \in 0 .. MaxRun
        BY <3>1 DEF Run
      <4> QED BY <4>1, <4>2, RunIdsInRange
    <3>4. runs'[run.baseline] = runs[run.baseline]
      BY <1>5, <3>2, <3>3, CompletedIsFixed DEF Gated
    <3> QED BY <3>1, <3>2, <3>4
  <2>2. CASE q # run.id
    <3>1. runs'[q] = runs[q]
      BY <1>1, <1>5, <2>2 DEF RowPut
    <3>2. Gated(runs[q], runs[runs[q].baseline]) /\ runs[q].baseline \in RunIds
      BY <1>2, <1>3, <3>1
    <3>3. runs'[runs[q].baseline] = runs[runs[q].baseline]
      BY <1>5, <3>2, CompletedIsFixed DEF Gated
    <3> QED BY <3>1, <3>2, <3>3
  <2> QED BY <2>1, <2>2
<1>6. ASSUME NEW r \in RunIds, RowClaimed(r)
      PROVE  Gated(runs'[q], runs'[runs'[q].baseline])
  <2>1. /\ runs'[q].type = runs[q].type /\ runs'[q].baseline = runs[q].baseline
        /\ runs'[q].capsule = runs[q].capsule /\ runs'[q].digest = runs[q].digest
    BY <1>1, <1>6 DEF RowClaimed, Run
  <2>2. Gated(runs[q], runs[runs[q].baseline]) /\ runs[q].baseline \in RunIds
    BY <1>2, <1>3, <2>1
  <2>3. runs'[runs[q].baseline] = runs[runs[q].baseline]
    BY <1>6, <2>2, CompletedIsFixed DEF Gated
  <2> QED BY <2>1, <2>2, <2>3 DEF Gated
<1>7. ASSUME NEW run \in Run, run.id \in RunIds, RowMoved(run)
      PROVE  Gated(runs'[q], runs'[runs'[q].baseline])
  <2>1. /\ runs'[q].type = runs[q].type /\ runs'[q].baseline = runs[q].baseline
        /\ runs'[q].capsule = runs[q].capsule /\ runs'[q].digest = runs[q].digest
    BY <1>1, <1>7 DEF RowMoved, TransitionAccepts, SameIdentity
  <2>2. Gated(runs[q], runs[runs[q].baseline]) /\ runs[q].baseline \in RunIds
    BY <1>2, <1>3, <2>1
  <2>3. runs'[runs[q].baseline] = runs[runs[q].baseline]
    BY <1>7, <2>2, CompletedIsFixed DEF Gated
  <2> QED BY <2>1, <2>2, <2>3 DEF Gated
<1>8. CASE RowsDropped
  <2>1. PICK late \in SUBSET compiled :
          runs' = [r \in RunIds |-> IF r \in Kept(late) THEN runs[r] ELSE NoRun]
    BY <1>8 DEF RowsDropped
  <2>2. q \in Kept(late) /\ runs'[q] = runs[q]
    BY <2>1, NoRunRow
  <2>3. Gated(runs[q], runs[runs[q].baseline]) /\ runs[q].baseline \in RunIds
    BY <1>2, <1>3, <2>2
  <2>4. runs'[runs[q].baseline] = runs[runs[q].baseline]
    BY <2>1, <2>2, <2>3 DEF Kept, Gated
  <2> QED BY <2>2, <2>3, <2>4
<1> QED BY <1>4, <1>5, <1>6, <1>7, <1>8, RowChange

-----------------------------------------------------------------------------
(* The handlers and the workers.                                             *)

\* Every step of the API keeps the runs it is about to insert well formed.
LEMMA PostingStep ==
  ASSUME TypeOK, WellFormed, Next
  PROVE  PostingWellFormed'
<1> USE DEF apiVars
<1>1. PostingWellFormed
  BY DEF WellFormed
<1>2. ASSUME NEW c \in Capsules, NEW type \in {"BASELINE", "WHAT_IF"}, NEW b \in 0 .. MaxRun,
             PostRun(type, b, c)
      PROVE  PostingWellFormed'
  <2>1. nextRun' \in RunIds
    BY <1>2, MaxRunAssumption DEF TypeOK, PostRun, RunIds
  <2>2. /\ NewRun(nextRun', type, b, c).id = nextRun'
        /\ NewRun(nextRun', type, b, c).status = "CREATED"
    BY <2>1, NewRunType DEF TypeOK, StoreTypeOK
  <2> QED BY <1>1, <1>2, <2>1, <2>2 DEF PostingWellFormed, PostRun
<1>3. CASE (\E run \in posting : PutPosted(run)) \/ ApiRestart
  BY <1>1, <1>3 DEF PostingWellFormed, PutPosted, ApiRestart
<1>4. CASE UNCHANGED posting
  BY <1>1, <1>4 DEF PostingWellFormed
<1>5. CASE \E w \in Workers : WorkerStep(w) \/ Crash(w) \/ Restart(w)
  BY <1>4, <1>5 DEF WorkerStep, Reclaim, FailOrphan, List, GetRun, Claim, Recheck, Authorize,
     Advance, Renew, Load, Execute, Ingest, Finish, SettleRun, Crash, Restart
<1>6. CASE \/ \E w \in Workers, r \in RunIds : RunOnce(w, r)
           \/ \E r \in RunIds : LeaseExpires(r)
           \/ \E c \in Capsules : PostCapsule(c)
           \/ PostReset
  BY <1>4, <1>6 DEF RunOnce, LeaseExpires, PostCapsule, PostReset
<1>7. RunIds \subseteq 0 .. MaxRun /\ 0 \in 0 .. MaxRun
  BY RunIdsInRange
<1> QED BY <1>2, <1>3, <1>5, <1>6, <1>7 DEF Next, ApiStep

\* A worker that left a run holds nothing of it.
LEMMA LeftWellFormed ==
  ASSUME TypeOK, NEW w \in Workers, NEW rest, Leave(w, rest)
  PROVE  WorkerWellFormed(w)'
<1>1. pc'[w] \in {"get", "reclaim", "down"} /\ stored'[w] = 0
  BY DEF TypeOK, Leave, Goto
<1> QED BY <1>1 DEF WorkerWellFormed

\* One step of a worker keeps it well-formed.
LEMMA OwnStep ==
  ASSUME TypeOK, WellFormed, NEW w \in Workers, WorkerStep(w)
  PROVE  WorkerWellFormed(w)'
<1> USE DEF storeVars
<1>1. WorkerWellFormed(w) /\ RowsWellFormed
  BY DEF WellFormed
<1>2. CASE Reclaim(w) \/ FailOrphan(w) \/ List(w)
  BY <1>1, <1>2 DEF TypeOK, WorkerWellFormed, Reclaim, FailOrphan, List, Goto
<1>3. CASE GetRun(w)
  <2>1. PICK r \in listed[w] :
          \/ Continue(w, r) \/ Break(w)
          \/ /\ runs[r].status # "ABSENT"
             /\ held' = [held EXCEPT ![w] = runs[r]]
             /\ Goto(w, CASE runs[r].status = "CREATED" -> "claim"
                          [] runs[r].status = "RUNNING" -> "load"
                          [] OTHER -> IF runs[r].type = "WHAT_IF" THEN "authorize" ELSE "advance")
             /\ UNCHANGED <<listed, fate, stored>>
    BY <1>3 DEF GetRun
  <2>2. CASE Continue(w, r) \/ Break(w)
    BY <2>2, LeftWellFormed DEF Continue, Break
  <2>3. CASE ~(Continue(w, r) \/ Break(w))
    <3>1. r \in RunIds
      BY DEF TypeOK
    <3>2. runs[r].id = r
      BY <1>1, <2>1, <2>3, <3>1, NoRunRow DEF RowsWellFormed
    <3>3. held'[w].id \in RunIds /\ pc'[w] \in {"claim", "load", "authorize", "advance"}
      BY <2>1, <2>3, <3>1, <3>2 DEF TypeOK, Goto
    <3>4. stored'[w] = 0
      BY <1>1, <1>3, <2>1, <2>3 DEF WorkerWellFormed, GetRun
    <3> QED BY <3>3, <3>4 DEF WorkerWellFormed
  <2> QED BY <2>2, <2>3
<1>4. CASE Claim(w)
  <2>1. held[w].id \in RunIds /\ stored[w] = 0
    BY <1>1, <1>4 DEF WorkerWellFormed, Claim
  <2>2. held'[w].id \in RunIds
    <3>1. CASE ClaimAccepts(held[w].id)
      <4>1. runs' = [runs EXCEPT ![held[w].id].status = "VALIDATING"]
        BY <1>4, <3>1 DEF Claim, ClaimRun
      <4>2. runs[held[w].id] \in Run /\ runs[held[w].id].id = held[w].id
        BY <1>1, <2>1, <3>1, NoRunRow DEF TypeOK, StoreTypeOK, RowsWellFormed, ClaimAccepts
      <4>3. runs'[held[w].id].id = held[w].id
        BY <2>1, <4>1, <4>2 DEF TypeOK, StoreTypeOK, Run
      <4>4. held'[w] = runs'[held[w].id]
        BY <1>4, <3>1 DEF TypeOK, Claim
      <4> QED BY <2>1, <4>3, <4>4
    <3>2. CASE ~ClaimAccepts(held[w].id)
      BY <1>4, <2>1, <3>2 DEF Claim
    <3> QED BY <3>1, <3>2
  <2>3. pc'[w] \in {"authorize", "advance", "recheck"} /\ stored'[w] = 0
    BY <1>4, <2>1 DEF TypeOK, Claim, Goto
  <2> QED BY <2>2, <2>3 DEF WorkerWellFormed
<1>5. CASE Recheck(w)
  BY <1>5, LeftWellFormed DEF Recheck, Continue, Break
<1>6. CASE Authorize(w) \/ Renew(w) \/ Load(w)
  BY <1>1, <1>6 DEF TypeOK, WorkerWellFormed, Authorize, Renew, Load, Settle, Goto
<1>7. CASE Advance(w)
  <2>1. CASE Continue(w, held[w].id)
    BY <2>1, LeftWellFormed DEF Continue
  <2>2. CASE ~Continue(w, held[w].id)
    <3> DEFINE next == [held[w] EXCEPT !.status = "RUNNING", !.started = TRUE]
    <3>1. held' = [held EXCEPT ![w] = next] /\ Goto(w, "renew") /\ UNCHANGED stored
      BY <1>7, <2>2 DEF Advance
    <3>2. held[w].id \in RunIds /\ stored[w] = 0 /\ held[w] \in Run
      BY <1>1, <1>7 DEF TypeOK, WorkerWellFormed, Advance
    <3>3. next.id = held[w].id
      BY <3>2 DEF Run
    <3>4. held'[w].id \in RunIds /\ pc'[w] = "renew" /\ stored'[w] = 0
      BY <3>1, <3>2, <3>3 DEF TypeOK, Goto
    <3> QED BY <3>4 DEF WorkerWellFormed
  <2> QED BY <2>1, <2>2
<1>8. CASE Execute(w)
  <2>1. PICK res \in Results :
          /\ \E n \in Allocated(res) : emitted' = [emitted EXCEPT ![w] = @ + n]
          /\ Goto(w, IF res \in Observed THEN "ingest" ELSE "settle")
    BY <1>8 DEF Execute
  <2>2. PICK n \in Allocated(res) : emitted' = [emitted EXCEPT ![w] = @ + n]
    BY <2>1
  <2>3. /\ held[w].id \in RunIds /\ stored[w] = 0
        /\ held' = held /\ stored' = stored
    BY <1>1, <1>8 DEF WorkerWellFormed, Execute
  <2>4. CASE res \in Observed
    <3>1. n = EventsPerRun /\ emitted'[w] = emitted[w] + EventsPerRun
      BY <2>2, <2>4 DEF TypeOK, Allocated, Observed
    <3>2. emitted'[w] >= EventsPerRun /\ 0 < EventsPerRun
      BY <3>1, WorkerAssumption DEF TypeOK
    <3>3. pc'[w] = "ingest"
      BY <2>1, <2>4 DEF TypeOK, Goto
    <3> QED BY <2>3, <3>2, <3>3 DEF WorkerWellFormed
  <2>5. CASE res \notin Observed
    <3>1. pc'[w] = "settle"
      BY <2>1, <2>5 DEF TypeOK, Goto
    <3> QED BY <2>3, <3>1 DEF WorkerWellFormed
  <2> QED BY <2>4, <2>5
<1>9. CASE Ingest(w)
  <2>1. /\ held[w].id \in RunIds /\ emitted[w] >= EventsPerRun
        /\ stored[w] < EventsPerRun /\ stored[w] \in 0 .. EventsPerRun
    BY <1>1, <1>9 DEF TypeOK, WorkerWellFormed, Ingest
  <2>2. held' = held /\ emitted' = emitted
    BY <1>9 DEF Ingest
  <2>3. CASE pc'[w] = "ingest"
    <3>1. stored'[w] = stored[w] + 1 /\ stored[w] + 1 # EventsPerRun
      BY <1>9, <2>3 DEF TypeOK, Ingest, Settle, Goto
    <3>2. stored[w] + 1 < EventsPerRun
      BY <2>1, <3>1, WorkerAssumption
    <3> QED BY <2>1, <2>2, <2>3, <3>1, <3>2 DEF WorkerWellFormed
  <2>4. CASE pc'[w] # "ingest"
    <3>1. pc'[w] \in {"finish", "settle"}
      BY <1>9, <2>4 DEF TypeOK, Ingest, Settle, Goto
    <3> QED BY <2>1, <2>2, <3>1 DEF WorkerWellFormed
  <2> QED BY <2>3, <2>4
<1>10. CASE Finish(w) \/ SettleRun(w)
  <2>1. Break(w) \/ Continue(w, held[w].id)
    BY <1>10 DEF Finish, SettleRun
  <2> QED BY <2>1, LeftWellFormed DEF Break, Continue
<1> QED BY <1>2, <1>3, <1>4, <1>5, <1>6, <1>7, <1>8, <1>9, <1>10 DEF WorkerStep

\* A worker's own memory is touched by nobody else.
LEMMA Frame ==
  ASSUME TypeOK, NEW w \in Workers, NEW v \in Workers, v # w, WorkerStep(v)
  PROVE  /\ pc'[w] = pc[w] /\ held'[w] = held[w]
         /\ emitted'[w] = emitted[w] /\ stored'[w] = stored[w]
<1> USE DEF TypeOK, Goto, storeVars
<1>1. CASE \/ Reclaim(v) \/ FailOrphan(v) \/ List(v) \/ Authorize(v) \/ Renew(v)
           \/ Load(v) \/ Execute(v) \/ Ingest(v)
  BY <1>1 DEF Reclaim, FailOrphan, List, Authorize, Renew, Load, Execute, Ingest, Settle
<1>2. CASE GetRun(v)
  BY <1>2 DEF GetRun, Continue, Break, Leave
<1>3. CASE Claim(v) \/ Recheck(v)
  BY <1>3 DEF Claim, Recheck, Continue, Break, Leave
<1>4. CASE Advance(v)
  BY <1>4 DEF Advance, Continue, Leave
<1>5. CASE Finish(v) \/ SettleRun(v)
  BY <1>5 DEF Finish, SettleRun, Continue, Break, Leave
<1> QED BY <1>1, <1>2, <1>3, <1>4, <1>5 DEF WorkerStep

\* Every step keeps what a worker must know inside processRun.
LEMMA WorkersStep ==
  ASSUME TypeOK, WellFormed, Next, NEW w \in Workers
  PROVE  WorkerWellFormed(w)'
<1> USE DEF storeVars, workerVars
<1>1. WorkerWellFormed(w)
  BY DEF WellFormed
<1>2. CASE /\ pc'[w] = pc[w] /\ held'[w] = held[w]
           /\ emitted'[w] = emitted[w] /\ stored'[w] = stored[w]
  BY <1>1, <1>2 DEF WorkerWellFormed
<1>3. ASSUME NEW v \in Workers, WorkerStep(v)
      PROVE  WorkerWellFormed(w)'
  BY <1>2, <1>3, OwnStep, Frame
<1>4. ASSUME NEW v \in Workers, Crash(v) \/ Restart(v) \/ \E r \in RunIds : RunOnce(v, r)
      PROVE  WorkerWellFormed(w)'
  <2>1. CASE v = w
    <3>1. pc'[w] \in {"down", "reclaim", "get"} /\ stored'[w] = 0
      BY <1>1, <1>4, <2>1 DEF TypeOK, WorkerWellFormed, Crash, Restart, RunOnce, Goto
    <3> QED BY <3>1 DEF WorkerWellFormed
  <2>2. CASE v # w
    BY <1>2, <1>4, <2>2 DEF TypeOK, Crash, Restart, RunOnce, Goto
  <2> QED BY <2>1, <2>2
<1>5. CASE (\E r \in RunIds : LeaseExpires(r)) \/ ApiStep
  BY <1>2, <1>5 DEF LeaseExpires, ApiStep, PostCapsule, PostRun, PutPosted, PostReset, ApiRestart
<1> QED BY <1>3, <1>4, <1>5 DEF Next

-----------------------------------------------------------------------------
(* The invariant.  The gate is not inductive alone: a what-if could then     *)
(* point to run 0, or an insert hit a row that is there; WellFormed excludes *)
(* both, and needs the types.                                                *)

IndInv == TypeOK /\ WellFormed /\ WhatIfGate

\* The empty store and idle workers satisfy the invariant.
LEMMA InitInv == Init => IndInv
<1> SUFFICES ASSUME Init
             PROVE  IndInv
  OBVIOUS
<1>1. TypeOK
  <2>1. 0 \in 0 .. EventsPerRun /\ 0 \in 0 .. MaxRun
    BY MaxRunAssumption, WorkerAssumption
  <2> QED BY <2>1, NoRunType DEF Init, StoreInit, TypeOK, StoreTypeOK, Labels, Fates
<1>2. RowsWellFormed /\ WhatIfGate
  BY NoRunRow DEF Init, StoreInit, RowsWellFormed, WhatIfGate
<1>3. PostingWellFormed /\ \A w \in Workers : WorkerWellFormed(w)
  BY DEF Init, PostingWellFormed, WorkerWellFormed
<1> QED BY <1>1, <1>2, <1>3 DEF IndInv, WellFormed

\* Every step keeps the invariant.
LEMMA StepInv == IndInv /\ [Next]_vars => IndInv'
<1> SUFFICES ASSUME IndInv, [Next]_vars
             PROVE  IndInv'
  OBVIOUS
<1>1. CASE Next
  <2>1. TypeOK /\ WellFormed /\ WhatIfGate
    BY DEF IndInv
  <2>2. RowsWellFormed' /\ PostingWellFormed' /\ \A w \in Workers : WorkerWellFormed(w)'
    BY <1>1, <2>1, RowsStep, PostingStep, WorkersStep
  <2>3. WellFormed'
    BY <2>2 DEF WellFormed
  <2>4. TypeOK' /\ WhatIfGate'
    BY <1>1, <2>1, TypeStep, GateStep
  <2> QED BY <2>3, <2>4 DEF IndInv
<1>2. CASE UNCHANGED vars
  BY <1>2 DEF IndInv, TypeOK, StoreTypeOK, WellFormed, RowsWellFormed, PostingWellFormed,
     WorkerWellFormed, WhatIfGate, vars, storeVars, workerVars, apiVars, boundVars
<1> QED BY <1>1, <1>2

\* The inductive invariant holds of every reachable state, whatever workers,
\* API and clock do.
THEOREM Invariance == Spec => []IndInv
BY InitInv, StepInv, PTL DEF Spec

\* Every variable keeps its type, whatever the workers, the API and the clock
\* do and however many of them there are.
THEOREM TypeCorrect == Spec => []TypeOK
BY Invariance, PTL DEF IndInv

\* Only contract-valid rows are stored, each under its id, and processRun never
\* ingests past the events it holds nor works on a run it has no id of.
THEOREM StaysWellFormed == Spec => []WellFormed
BY Invariance, PTL DEF IndInv

\* A what-if run is stored only beside its COMPLETED, REPRODUCED, isolated
\* baseline of the same capsule content (PutRun's gate), for ever.
THEOREM GateHolds == Spec => []WhatIfGate
BY Invariance, PTL DEF IndInv

-----------------------------------------------------------------------------
(* Terminal rows, and the contract's lifecycle.                              *)

\* A row in a terminal status keeps its content until a reset deletes it.
LEMMA TerminalStep ==
  ASSUME TypeOK, WellFormed, Next, NEW r \in RunIds, runs[r].status \in Terminal
  PROVE  runs'[r] = runs[r] \/ runs'[r].status = "ABSENT"
<1>1. runs \in [RunIds -> Run]
  BY DEF TypeOK, StoreTypeOK
<1>2. ASSUME NEW run \in posting, RowPut(run)
      PROVE  runs'[r] = runs[r]
  BY <1>1, <1>2 DEF RowPut, PutRunAccepts, Terminal
<1>3. ASSUME NEW q \in RunIds, RowClaimed(q)
      PROVE  runs'[r] = runs[r]
  BY <1>1, <1>3 DEF RowClaimed, ClaimAccepts, Terminal
<1>4. ASSUME NEW run \in Run, RowMoved(run)
      PROVE  runs'[r] = runs[r]
  BY <1>1, <1>4 DEF RowMoved, TransitionAccepts, LegalTransition, Terminal
<1>5. CASE RowsDropped
  BY <1>5, NoRunRow DEF RowsDropped
<1> QED BY <1>2, <1>3, <1>4, <1>5, RowChange

\* No worker, late, crashed or doubled, rewrites the terminal status of a run;
\* only a reset removes it (TransitionRun's comparison under FOR UPDATE).
THEOREM TerminalStaysFinal == Spec => TerminalIsFinal
<1>1. IndInv /\ [Next]_vars =>
        [\A r \in RunIds : runs[r].status \in Terminal =>
           runs'[r] = runs[r] \/ runs'[r].status = "ABSENT"]_vars
  BY TerminalStep DEF IndInv
<1> QED BY <1>1, Invariance, PTL DEF Spec, TerminalIsFinal

\* An absent row is an absent run of the abstract lifecycle, and only a
\* COMPLETED row has an outcome to show.
LEMMA ShownRows ==
  ASSUME RowsWellFormed, NEW r \in RunIds
  PROVE  /\ runs[r].status = "ABSENT" => LifeOf(runs[r]) = Lifecycle!Absent
         /\ runs[r].status # "COMPLETED" => runs[r].outcome = "NONE"
BY DEF RowsWellFormed, RunValid, NoRun, LifeOf, Lifecycle!Absent

\* The runs a reset leaves behind include the baseline of each what-if among
\* them, which is of the same capsule.
LEMMA KeptWithBaselines ==
  ASSUME IndInv, NEW late, NEW r \in Kept(late)
  PROVE  runs[r].baseline \in Kept(late) \cup {0}
<1>1. r \in RunIds /\ runs[r] \in Run /\ runs[r].capsule \in late
  BY DEF IndInv, TypeOK, StoreTypeOK, Kept
<1>2. runs[r].baseline \in 0 .. MaxRun
  BY <1>1 DEF Run
<1>3. CASE runs[r].baseline # 0
  <2>1. runs[r].type = "WHAT_IF"
    BY <1>1, <1>3 DEF IndInv, WellFormed, RowsWellFormed, RunValid, NoRun
  <2> QED BY <1>1, <1>2, <1>3, <2>1, RunIdsInRange DEF IndInv, WhatIfGate, Kept
<1> QED BY <1>3

Life == [r \in RunIds |-> LifeOf(runs[r])]

\* A lawful change of one run is a step of the lifecycle, or shows nothing new.
LEMMA OneRunSteps ==
  ASSUME NEW r \in RunIds,
       \/ \E b \in RunIds \cup {0} : Lifecycle!Create(r, b)
       \/ Lifecycle!Claim(r) \/ Lifecycle!Start(r)
       \/ Lifecycle!Reject(r) \/ Lifecycle!Complete(r)
  PROVE  Lifecycle!Next \/ Life' = Life
<1>1. \A s \in RunIds : s # r => Life'[s] = Life[s]
  BY DEF Life, Lifecycle!Create, Lifecycle!Claim, Lifecycle!Start, Lifecycle!Reject,
       Lifecycle!Complete, Lifecycle!Move
<1>2. CASE Life'[r] = Life[r]
  BY <1>1, <1>2 DEF Life
<1>3. CASE Life'[r] # Life[r]
  BY <1>3 DEF Life, Lifecycle!Next
<1> QED
  BY <1>2, <1>3

\* The empty store is the abstract initial state.
LEMMA LifeInit == Init => Lifecycle!Init
BY DEF Init, StoreInit, Lifecycle!Init, Lifecycle!Absent, LifeOf, NoRun

\* Every step of the system is a step of the contract's lifecycle or a
\* stutter.
LEMMA LifeStep ==
  ASSUME IndInv, Next
  PROVE  Lifecycle!Next \/ Life' = Life
<1>1. runs \in [RunIds -> Run] /\ posting \subseteq Run
      /\ RowsWellFormed /\ PostingWellFormed /\ TypeOK /\ WellFormed
  BY DEF IndInv, TypeOK, StoreTypeOK, WellFormed
<1>2. CASE runs' = runs
  BY <1>2 DEF Life
<1>3. ASSUME NEW run \in posting, RowPut(run)
      PROVE  \E r \in RunIds, b \in RunIds \cup {0} : Lifecycle!Create(r, b)
  <2>1. /\ run.id \in RunIds /\ run.status = "CREATED" /\ run \in Run
        /\ RunValid(run) /\ runs[run.id].status = "ABSENT"
        /\ runs' = [runs EXCEPT ![run.id] = run]
        /\ run.type = "WHAT_IF" => EligibleBaseline(runs[run.baseline], run)
    BY <1>1, <1>3 DEF PostingWellFormed, RowPut, PutRunAccepts
  <2>2. run.baseline \in RunIds \cup {0}
    BY <2>1, RunIdsInRange DEF Run
  <2>3. LifeOf(runs[run.id]) = Lifecycle!Absent
    BY <1>1, <2>1, ShownRows
  <2>4. ASSUME run.baseline \in RunIds
        PROVE  LifeOf(runs[run.baseline])
                 = [status |-> "COMPLETED", verdict |-> "REPRODUCED", baseline |-> 0]
    <3>1. run.type = "WHAT_IF"
      BY <2>1, <2>4, RunIdsInRange DEF RunValid
    <3>2. /\ runs[run.baseline].type = "BASELINE"
          /\ runs[run.baseline].status = "COMPLETED"
          /\ runs[run.baseline].outcome = "REPRODUCED"
      BY <2>1, <3>1 DEF EligibleBaseline
    <3>3. runs[run.baseline].baseline = 0
      BY <1>1, <2>4, <3>2, NoRunRow DEF RowsWellFormed, RunValid
    <3> QED BY <3>2, <3>3 DEF LifeOf
  <2>5. LifeOf(run) = [status |-> "CREATED", verdict |-> "NONE", baseline |-> run.baseline]
    BY <2>1 DEF RunValid, LifeOf
  <2>6. Life' = [Life EXCEPT ![run.id] = LifeOf(run)]
    BY <1>1, <2>1 DEF Life
  <2>7. Lifecycle!Create(run.id, run.baseline)
    BY <2>1, <2>3, <2>4, <2>5, <2>6 DEF Life, Lifecycle!Create, Lifecycle!Reproduced
  <2> QED BY <2>1, <2>2, <2>7
<1>4. ASSUME NEW r \in RunIds, RowClaimed(r)
      PROVE  Lifecycle!Claim(r)
  <2>1. /\ runs[r].status = "CREATED" /\ runs[r] \in Run
        /\ runs' = [runs EXCEPT ![r].status = "VALIDATING"]
    BY <1>1, <1>4 DEF RowClaimed, ClaimAccepts
  <2>2. LifeOf([runs[r] EXCEPT !.status = "VALIDATING"])
          = [LifeOf(runs[r]) EXCEPT !.status = "VALIDATING"]
    BY <2>1 DEF LifeOf, Run
  <2>3. Life' = [Life EXCEPT ![r] = LifeOf([runs[r] EXCEPT !.status = "VALIDATING"])]
    BY <1>1, <2>1 DEF Life
  <2> QED BY <2>1, <2>2, <2>3 DEF Life, LifeOf, Lifecycle!Claim, Lifecycle!Move
<1>5. ASSUME NEW run \in Run, run.id \in RunIds, RowMoved(run)
      PROVE  \E r \in RunIds : \/ Lifecycle!Claim(r) \/ Lifecycle!Start(r)
                                \/ Lifecycle!Reject(r) \/ Lifecycle!Complete(r)
  <2> DEFINE r == run.id
             old == runs[r]
  <2>1. /\ LegalTransition(old.status, run.status) /\ RunValid(run) /\ SameIdentity(old, run)
        /\ runs' = [runs EXCEPT ![r] = run]
    BY <1>5 DEF RowMoved, TransitionAccepts
  <2>2. Life[r] = LifeOf(old) /\ Life' = [Life EXCEPT ![r] = LifeOf(run)]
    BY <1>1, <1>5, <2>1 DEF Life
  <2>3. old.status # "COMPLETED" /\ old.outcome = "NONE" /\ old.baseline = run.baseline
    BY <1>1, <1>5, <2>1, ShownRows DEF LegalTransition, SameIdentity
  <2>4. ASSUME run.status # "COMPLETED"
        PROVE  LifeOf(run) = [LifeOf(old) EXCEPT !.status = run.status]
    BY <2>1, <2>3, <2>4 DEF RunValid, LifeOf
  <2>5. CASE old.status = "CREATED"
    <3>1. run.status = "VALIDATING"
      BY <2>1, <2>5 DEF LegalTransition
    <3>2. Lifecycle!Claim(r)
      BY <1>5, <2>2, <2>4, <2>5, <3>1 DEF Life, LifeOf, Lifecycle!Claim, Lifecycle!Move
    <3> QED BY <1>5, <3>2
  <2>6. CASE run.status = "RUNNING"
    <3>1. old.status = "VALIDATING"
      BY <2>1, <2>6 DEF LegalTransition, Terminal
    <3>2. Lifecycle!Start(r)
      BY <1>5, <2>2, <2>4, <2>6, <3>1 DEF Life, LifeOf, Lifecycle!Start, Lifecycle!Move
    <3> QED BY <1>5, <3>2
  <2>7. CASE old.status \in {"VALIDATING", "RUNNING"} /\ run.status \in {"BLOCKED", "FAILED"}
    <3>1. Lifecycle!Move(r, old.status, run.status)
      BY <1>5, <2>2, <2>4, <2>7 DEF Life, LifeOf, Lifecycle!Move
    <3>2. Lifecycle!Reject(r)
      BY <2>7, <3>1 DEF Lifecycle!Reject
    <3> QED BY <1>5, <3>2
  <2>8. CASE run.status = "COMPLETED"
    <3>1. old.status = "RUNNING"
      BY <2>1, <2>8 DEF LegalTransition
    <3>2. run.outcome \in IF old.baseline = 0 THEN Lifecycle!BaselineVerdicts
                                              ELSE Lifecycle!WhatIfVerdicts
      BY <1>5, <2>1, <2>3, <2>8
         DEF RunValid, Outcomes, Run, Lifecycle!BaselineVerdicts, Lifecycle!WhatIfVerdicts
    <3>3. LifeOf(run) = [status |-> "COMPLETED", verdict |-> run.outcome,
                         baseline |-> LifeOf(old).baseline]
      BY <2>3, <2>8 DEF LifeOf
    <3>4. Lifecycle!Complete(r)
      BY <1>5, <2>2, <3>1, <3>2, <3>3 DEF Life, LifeOf, Lifecycle!Complete
    <3> QED BY <1>5, <3>4
  <2> QED BY <2>1, <2>5, <2>6, <2>7, <2>8 DEF LegalTransition, Terminal
<1>6. CASE RowsDropped
  <2>1. PICK late \in SUBSET compiled :
          runs' = [r \in RunIds |-> IF r \in Kept(late) THEN runs[r] ELSE NoRun]
    BY <1>6 DEF RowsDropped
  <2>2. Life' = [r \in RunIds |-> IF r \in Kept(late) THEN Life[r] ELSE Lifecycle!Absent]
    BY <2>1 DEF Life, LifeOf, NoRun, Lifecycle!Absent
  <2>3. Kept(late) \in SUBSET RunIds
    BY DEF Kept
  <2>4. \A r \in Kept(late) : Life[r].baseline \in Kept(late) \cup {0}
    BY KeptWithBaselines, <2>1, <2>3 DEF Life, LifeOf
  <2>5. Lifecycle!Wipe
    BY <2>2, <2>3, <2>4 DEF Life, Lifecycle!Wipe
  <2> QED BY <2>5 DEF Lifecycle!Next
<1>7. CASE \E run \in posting : RowPut(run)
  BY <1>3, <1>7, OneRunSteps
<1>8. CASE \E r \in RunIds : RowClaimed(r)
  BY <1>4, <1>8, OneRunSteps
<1>9. CASE \E run \in Run : run.id \in RunIds /\ RowMoved(run)
  BY <1>5, <1>9, OneRunSteps
<1> QED BY <1>1, <1>2, <1>6, <1>7, <1>8, <1>9, RowChange

\* The table of runs, driven by any number of workers and API handlers that may
\* crash, race, repeat and lose their leases, goes through the lifecycle of the
\* contract and no other (CONTRACTS.md "ReplayRun", CanTransitionReplayRun).
THEOREM Refinement == Spec => ImplementsLifecycle
<1>1. IndInv /\ [Next]_vars => [Lifecycle!Next]_Life
  <2> SUFFICES ASSUME IndInv, [Next]_vars
               PROVE  Lifecycle!Next \/ Life' = Life
    OBVIOUS
  <2>1. CASE UNCHANGED vars
    BY <2>1 DEF vars, storeVars, Life
  <2> QED BY <2>1, LifeStep
<1> QED BY <1>1, LifeInit, Invariance, PTL
        DEF Spec, ImplementsLifecycle, Lifecycle!Spec, Life

-----------------------------------------------------------------------------
(* The evidence of a verdict.  What holds it together is that a run id is    *)
(* never given to a second run: the API counts its ids in memory, so that    *)
(* takes a reset followed by a restart of the API.                           *)

IdsNeverReused == MaxApiRestarts = 0 \/ MaxResets = 0

\* A handler has not inserted run r yet, or the API not allocated its id.
Pending(r) == nextRun < r \/ \E run \in posting : run.id = r

\* A run may still be inserted under r.
Unused(r) == runs[r].status = "ABSENT" /\ (MaxApiRestarts = 0 => Pending(r))

\* A worker is inside processRun and has read its run.
Processing(w) == pc[w] \notin {"down", "reclaim", "orphans", "get"}

\* As long as the API is not restarted, no inserted run is pending and no two
\* handlers hold the same id.
IdsDistinct ==
  MaxApiRestarts = 0 =>
    /\ apiRestarts = 0
    /\ \A r \in RunIds : runs[r].status # "ABSENT" => ~Pending(r)
    /\ \A run \in posting : run.id <= nextRun
    /\ \A a, b \in posting : a.id = b.id => a = b

\* Nobody works on, or has stored events of, a run that is still to be inserted.
UnusedIsUntouched ==
  \A r \in RunIds : Unused(r) =>
    /\ \A w \in Workers : Processing(w) => held[w].id # r
    /\ EventsForRun(r) = {}

\* A run is stored, and not one whose events a reset has deleted from under it.
Whole(r) == runs[r].status # "ABSENT" /\ r \notin left

\* What a worker ingested of a run that is stored, is stored.
IngestedIsStored(w) ==
  /\ pc[w] \in {"ingest", "finish"} /\ Whole(held[w].id) =>
       \A i \in 1 .. stored[w] : OwnEvent(w, i) \in events
  /\ pc[w] = "finish" => stored[w] = EventsPerRun

EvidenceInv ==
  /\ IdsDistinct
  /\ UnusedIsUntouched
  /\ \A w \in Workers : IngestedIsStored(w)
  /\ EvidencePersisted

\* A row appears by a handler's insertion alone.
LEMMA AppearsByPut ==
  ASSUME TypeOK, WellFormed, Next, NEW r \in RunIds,
         runs[r].status = "ABSENT", runs'[r].status # "ABSENT"
  PROVE  \E run \in posting : run.id = r /\ RowPut(run)
<1>1. runs \in [RunIds -> Run]
  BY DEF TypeOK, StoreTypeOK
<1>2. ASSUME NEW run \in posting, RowPut(run)
      PROVE  run.id = r
  BY <1>1, <1>2 DEF RowPut
<1>3. ASSUME NEW q \in RunIds, RowClaimed(q)
      PROVE  FALSE
  BY <1>1, <1>3 DEF RowClaimed, ClaimAccepts
<1>4. ASSUME NEW run \in Run, run.id \in RunIds, RowMoved(run)
      PROVE  FALSE
  BY <1>1, <1>4 DEF RowMoved, TransitionAccepts, LegalTransition
<1>5. ~RowsDropped
  BY NoRunRow DEF RowsDropped
<1> QED BY <1>2, <1>3, <1>4, <1>5, RowChange

\* A row disappears by a reset alone.
LEMMA VanishesByReset ==
  ASSUME TypeOK, WellFormed, Next, NEW r \in RunIds,
         runs[r].status # "ABSENT", runs'[r].status = "ABSENT"
  PROVE  PostReset
<1>1. runs \in [RunIds -> Run]
  BY DEF TypeOK, StoreTypeOK
<1>2. ASSUME NEW run \in posting, RowPut(run)
      PROVE  FALSE
  BY <1>1, <1>2 DEF RowPut, PutRunAccepts, WellFormed, PostingWellFormed
<1>3. ASSUME NEW q \in RunIds, RowClaimed(q)
      PROVE  FALSE
  <2>1. runs'[q].status = "VALIDATING"
    BY <1>1, <1>3 DEF RowClaimed, Run
  <2>2. CASE q = r
    BY <2>1, <2>2
  <2>3. CASE q # r
    BY <1>1, <1>3, <2>3 DEF RowClaimed
  <2> QED BY <2>2, <2>3
<1>4. ASSUME NEW run \in Run, run.id \in RunIds, RowMoved(run)
      PROVE  FALSE
  BY <1>1, <1>4 DEF RowMoved, TransitionAccepts, LegalTransition, Terminal
<1>5. RowsDropped => PostReset
  BY DEF RowsDropped
<1> QED BY <1>2, <1>3, <1>4, <1>5, RowChange

\* The API's own variables change in its own handlers alone.
LEMMA ApiChange ==
  ASSUME Next
  PROVE  \/ UNCHANGED <<nextRun, posting, apiRestarts>>
         \/ \E c \in Capsules, type \in {"BASELINE", "WHAT_IF"}, b \in 0 .. MaxRun :
              PostRun(type, b, c)
         \/ \E run \in posting : PutPosted(run)
         \/ ApiRestart
<1> USE DEF apiVars, boundVars
<1>1. CASE \E w \in Workers : WorkerStep(w) \/ Crash(w) \/ Restart(w)
  BY <1>1 DEF WorkerStep, Reclaim, FailOrphan, List, GetRun, Claim, Recheck, Authorize,
     Advance, Renew, Load, Execute, Ingest, Finish, SettleRun, Crash, Restart
<1>2. CASE \/ \E w \in Workers, r \in RunIds : RunOnce(w, r)
           \/ \E r \in RunIds : LeaseExpires(r)
           \/ \E c \in Capsules : PostCapsule(c)
           \/ PostReset
  BY <1>2 DEF RunOnce, LeaseExpires, PostCapsule, PostReset
<1>3. RunIds \subseteq 0 .. MaxRun /\ 0 \in 0 .. MaxRun
  BY RunIdsInRange
<1> QED BY <1>1, <1>2, <1>3 DEF Next, ApiStep

\* Without a restart of the API, ids stay distinct, and an id that is not pending
\* never becomes so again.
LEMMA IdsStep ==
  ASSUME TypeOK, WellFormed, IdsDistinct, Next, MaxApiRestarts = 0
  PROVE  IdsDistinct' /\ \A r \in RunIds : Pending(r)' => Pending(r)
<1>1. /\ apiRestarts = 0
      /\ \A r \in RunIds : runs[r].status # "ABSENT" => ~Pending(r)
      /\ \A run \in posting : run.id <= nextRun
      /\ \A a, b \in posting : a.id = b.id => a = b
  BY DEF IdsDistinct
<1>2. /\ runs \in [RunIds -> Run] /\ posting \subseteq Run /\ nextRun \in Nat
      /\ \A r \in RunIds : r \in Nat
      /\ \A run \in posting : run.id \in Nat
  <2>1. nextRun \in Nat /\ (\A n \in 0 .. MaxRun : n \in Nat) /\ \A r \in RunIds : r \in Nat
    BY MaxRunAssumption, SMT DEF TypeOK, RunIds
  <2> QED BY <2>1 DEF TypeOK, StoreTypeOK, Run
<1>3. ASSUME NEW c \in Capsules, NEW type \in {"BASELINE", "WHAT_IF"}, NEW b \in 0 .. MaxRun,
             PostRun(type, b, c)
      PROVE  IdsDistinct' /\ \A r \in RunIds : Pending(r)' => Pending(r)
  <2> DEFINE new == NewRun(nextRun + 1, type, b, c)
  <2>1. /\ nextRun' = nextRun + 1 /\ posting' = posting \cup {new}
        /\ runs' = runs /\ apiRestarts' = apiRestarts
    BY <1>3 DEF PostRun, storeVars, boundVars, NewRun
  <2>2. new.id = nextRun + 1
    <3>1. nextRun + 1 \in RunIds
      BY <1>2, <1>3, MaxRunAssumption DEF PostRun, RunIds
    <3> QED BY <3>1, NewRunType DEF TypeOK, StoreTypeOK
  <2> HIDE DEF new
  <2>3. ASSUME NEW r \in RunIds, Pending(r)'
        PROVE  Pending(r)
    BY <1>2, <2>1, <2>2, <2>3 DEF Pending
  <2>4. \A run \in posting' : run.id <= nextRun'
    BY <1>1, <1>2, <2>1, <2>2
  <2>5. \A x, y \in posting' : x.id = y.id => x = y
    BY <1>1, <1>2, <2>1, <2>2
  <2> QED BY <1>1, <2>1, <2>3, <2>4, <2>5 DEF IdsDistinct
<1>4. ASSUME NEW run \in posting, PutPosted(run)
      PROVE  IdsDistinct' /\ \A r \in RunIds : Pending(r)' => Pending(r)
  <2>1. /\ posting' = posting \ {run} /\ nextRun' = nextRun /\ apiRestarts' = apiRestarts
        /\ runs' = runs \/ runs' = [runs EXCEPT ![run.id] = run]
    BY <1>4 DEF PutPosted, PutRun, boundVars
  <2>2. \A r \in RunIds : Pending(r)' => Pending(r)
    BY <2>1 DEF Pending
  <2>3. ~Pending(run.id)'
    BY <1>1, <1>2, <2>1 DEF Pending
  <2>4. ASSUME NEW r \in RunIds, runs'[r].status # "ABSENT"
        PROVE  ~Pending(r)'
    <3>1. CASE r = run.id
      BY <2>3, <3>1
    <3>2. CASE r # run.id
      BY <1>1, <1>2, <2>1, <2>2, <2>4, <3>2
    <3> QED BY <3>1, <3>2
  <2> QED BY <1>1, <2>1, <2>2, <2>4 DEF IdsDistinct
<1>5. CASE /\ UNCHANGED <<nextRun, posting, apiRestarts>>
           /\ ~\E run \in posting : PutPosted(run)
  <2>1. \A r \in RunIds : runs'[r].status # "ABSENT" => runs[r].status # "ABSENT"
    BY <1>5, AppearsByPut DEF RowPut
  <2>2. \A r \in RunIds : Pending(r)' <=> Pending(r)
    BY <1>5 DEF Pending
  <2> QED BY <1>1, <1>5, <2>1, <2>2 DEF IdsDistinct
<1>6. ~ApiRestart
  BY <1>1 DEF ApiRestart
<1> QED BY <1>3, <1>4, <1>5, <1>6, ApiChange

\* Once a run is inserted, none is ever inserted under its id again.
LEMMA UnusedShrinks ==
  ASSUME TypeOK, WellFormed, EvidenceInv, IdsNeverReused, Next,
         NEW r \in RunIds, Unused(r)'
  PROVE  Unused(r)
<1>1. IdsDistinct
  BY DEF EvidenceInv
<1>2. CASE MaxApiRestarts = 0
  <2>1. Pending(r)
    BY <1>1, <1>2, IdsStep DEF Unused
  <2> QED BY <1>1, <1>2, <2>1 DEF IdsDistinct, Unused
<1>3. CASE MaxApiRestarts # 0
  <2>1. ~PostReset
    BY <1>3 DEF IdsNeverReused, PostReset, TypeOK
  <2> QED BY <1>3, <2>1, VanishesByReset DEF Unused
<1> QED BY <1>2, <1>3

\* The event table grows by one ingested event at a time, or is emptied.
LEMMA EventChange ==
  ASSUME Next
  PROVE  \/ events' = events
         \/ \E w \in Workers : Ingest(w) /\ events' = events \cup {OwnEvent(w, stored[w] + 1)}
         \/ PostReset
<1> USE DEF storeVars
<1>1. ASSUME NEW w \in Workers, WorkerStep(w)
      PROVE  \/ events' = events
             \/ Ingest(w) /\ events' = events \cup {OwnEvent(w, stored[w] + 1)}
  <2>1. CASE Ingest(w)
    BY <2>1 DEF Ingest, IngestEvent
  <2>2. CASE ~Ingest(w)
    BY <1>1, <2>2 DEF WorkerStep, Reclaim, FailOrphan, List, GetRun, Claim, Recheck,
       Authorize, Advance, Renew, Load, Execute, Finish, SettleRun
  <2> QED BY <2>1, <2>2
<1>2. CASE \E w \in Workers : Crash(w) \/ Restart(w) \/ \E r \in RunIds : RunOnce(w, r)
  BY <1>2 DEF Crash, Restart, RunOnce
<1>3. CASE (\E r \in RunIds : LeaseExpires(r)) \/ (ApiStep /\ ~PostReset)
  BY <1>3 DEF LeaseExpires, ApiStep, PostCapsule, PostRun, PutPosted, ApiRestart
<1> QED BY <1>1, <1>2, <1>3 DEF Next, ApiStep

\* Which runs were left behind changes at a reset alone.
LEMMA LeftChange ==
  ASSUME Next, ~PostReset
  PROVE  left' = left
<1> USE DEF storeVars
<1>1. CASE \E w \in Workers : WorkerStep(w) \/ Crash(w) \/ Restart(w)
  BY <1>1 DEF WorkerStep, Reclaim, FailOrphan, List, GetRun, Claim, Recheck, Authorize,
     Advance, Renew, Load, Execute, Ingest, Finish, SettleRun, Crash, Restart
<1>2. CASE \/ \E w \in Workers, r \in RunIds : RunOnce(w, r)
           \/ \E r \in RunIds : LeaseExpires(r)
           \/ ApiStep
  BY <1>2 DEF RunOnce, LeaseExpires, ApiStep, PostCapsule, PostRun, PutPosted, ApiRestart
<1> QED BY <1>1, <1>2 DEF Next

\* Steps other than a worker's own leave its memory alone, or end its processRun.
LEMMA OthersStep ==
  ASSUME TypeOK, Next, NEW w \in Workers, ~WorkerStep(w)
  PROVE  \/ /\ pc'[w] = pc[w] /\ held'[w] = held[w]
            /\ emitted'[w] = emitted[w] /\ stored'[w] = stored[w]
         \/ pc'[w] \in {"down", "reclaim", "get"} /\ ~Processing(w)'
<1> USE DEF workerVars
<1>1. ASSUME NEW v \in Workers, WorkerStep(v)
      PROVE  /\ pc'[w] = pc[w] /\ held'[w] = held[w]
             /\ emitted'[w] = emitted[w] /\ stored'[w] = stored[w]
  BY <1>1, Frame
<1>2. ASSUME NEW v \in Workers, Crash(v) \/ Restart(v) \/ \E r \in RunIds : RunOnce(v, r)
      PROVE  \/ /\ pc'[w] = pc[w] /\ held'[w] = held[w]
                /\ emitted'[w] = emitted[w] /\ stored'[w] = stored[w]
             \/ pc'[w] \in {"down", "reclaim", "get"} /\ ~Processing(w)'
  <2>1. CASE v = w
    BY <1>2, <2>1 DEF TypeOK, Crash, Restart, RunOnce, Goto, Processing
  <2>2. CASE v # w
    BY <1>2, <2>2 DEF TypeOK, Crash, Restart, RunOnce, Goto
  <2> QED BY <2>1, <2>2
<1>3. CASE (\E r \in RunIds : LeaseExpires(r)) \/ ApiStep
  BY <1>3 DEF LeaseExpires, ApiStep, PostCapsule, PostRun, PutPosted, PostReset, ApiRestart
<1> QED BY <1>1, <1>2, <1>3 DEF Next

\* A worker that left a run is outside processRun.
LEMMA LeftIsIdle ==
  ASSUME TypeOK, NEW w \in Workers, NEW rest, Leave(w, rest)
  PROVE  /\ pc'[w] \in {"get", "reclaim", "down"} /\ ~Processing(w)'
         /\ listed'[w] = rest
<1>1. /\ pc' = [pc EXCEPT ![w] = IF rest # {} THEN "get"
                                 ELSE IF w \in Pollers THEN "reclaim" ELSE "down"]
      /\ listed' = [listed EXCEPT ![w] = rest]
  BY DEF Leave, Goto
<1>2. pc'[w] \in {"get", "reclaim", "down"} /\ listed'[w] = rest
  BY <1>1 DEF TypeOK
<1> QED BY <1>2 DEF Processing

\* A worker enters processRun by reading a stored row, and then keeps its id.
LEMMA HeldId ==
  ASSUME TypeOK, WellFormed, NEW w \in Workers, WorkerStep(w), Processing(w)'
  PROVE  \/ Processing(w) /\ held'[w].id = held[w].id
         \/ GetRun(w) /\ runs' = runs /\ runs[held'[w].id].status # "ABSENT"
<1> USE DEF storeVars
<1>0. held[w] \in Run /\ RowsWellFormed
  BY DEF TypeOK, WellFormed
<1>1. CASE Reclaim(w) \/ FailOrphan(w) \/ List(w)
  BY <1>1 DEF TypeOK, Reclaim, FailOrphan, List, Goto, Processing
<1>2. CASE GetRun(w)
  <2>1. PICK r \in listed[w] :
          \/ Continue(w, r) \/ Break(w)
          \/ runs[r].status # "ABSENT" /\ held' = [held EXCEPT ![w] = runs[r]]
    BY <1>2 DEF GetRun
  <2>2. ~(Continue(w, r) \/ Break(w))
    BY LeftIsIdle DEF Continue, Break
  <2>3. r \in RunIds /\ runs[r].id = r
    BY <1>0, <2>1, <2>2, NoRunRow DEF TypeOK, RowsWellFormed
  <2>4. held'[w].id = r
    BY <2>1, <2>2, <2>3 DEF TypeOK
  <2>5. runs' = runs
    BY <1>2 DEF GetRun
  <2> QED BY <1>2, <2>1, <2>2, <2>4, <2>5
<1>3. CASE Claim(w)
  <2>1. Processing(w)
    BY <1>3 DEF Claim, Processing
  <2>2. CASE ClaimAccepts(held[w].id)
    <3>1. /\ held[w].id \in RunIds
          /\ runs' = [runs EXCEPT ![held[w].id].status = "VALIDATING"]
          /\ held'[w] = runs'[held[w].id]
      BY <1>3, <2>2 DEF TypeOK, WellFormed, WorkerWellFormed, Claim, ClaimRun
    <3>2. runs[held[w].id].id = held[w].id /\ runs[held[w].id] \in Run
      BY <1>0, <2>2, <3>1, NoRunRow DEF TypeOK, StoreTypeOK, RowsWellFormed, ClaimAccepts
    <3>3. runs'[held[w].id].id = held[w].id
      BY <3>1, <3>2 DEF TypeOK, StoreTypeOK, Run
    <3> QED BY <2>1, <3>1, <3>3
  <2>3. CASE ~ClaimAccepts(held[w].id)
    BY <1>3, <2>1, <2>3 DEF Claim
  <2> QED BY <2>2, <2>3
<1>4. CASE Recheck(w) \/ Finish(w) \/ SettleRun(w)
  BY <1>4, LeftIsIdle DEF Recheck, Finish, SettleRun, Continue, Break
<1>5. CASE Authorize(w) \/ Renew(w) \/ Load(w) \/ Execute(w) \/ Ingest(w)
  BY <1>5 DEF Authorize, Renew, Load, Execute, Ingest, Processing
<1>6. CASE Advance(w)
  <2>1. ~Continue(w, held[w].id)
    BY LeftIsIdle DEF Continue
  <2>2. held' = [held EXCEPT ![w] = [held[w] EXCEPT !.status = "RUNNING", !.started = TRUE]]
    BY <1>6, <2>1 DEF Advance
  <2>3. held'[w].id = held[w].id
    BY <1>0, <2>2 DEF TypeOK, Run
  <2> QED BY <1>6, <2>3 DEF Advance, Processing
<1> QED BY <1>1, <1>2, <1>3, <1>4, <1>5, <1>6 DEF WorkerStep

\* Nobody starts to work on a run that is still to be inserted.
LEMMA UntouchedStep ==
  ASSUME TypeOK, WellFormed, EvidenceInv, IdsNeverReused, Next
  PROVE  UnusedIsUntouched'
<1> SUFFICES ASSUME NEW r \in RunIds, Unused(r)'
             PROVE  /\ \A w \in Workers : Processing(w)' => held'[w].id # r
                    /\ EventsForRun(r)' = {}
  BY DEF UnusedIsUntouched
<1>1. Unused(r)
  BY UnusedShrinks
<1>2. /\ \A w \in Workers : Processing(w) => held[w].id # r
      /\ EventsForRun(r) = {}
  BY <1>1 DEF EvidenceInv, UnusedIsUntouched
<1>3. ASSUME NEW w \in Workers, Processing(w)'
      PROVE  held'[w].id # r
  <2>1. CASE WorkerStep(w)
    BY <1>1, <1>2, <1>3, <2>1, HeldId DEF Unused
  <2>2. CASE ~WorkerStep(w)
    BY <1>2, <1>3, <2>2, OthersStep DEF Processing
  <2> QED BY <2>1, <2>2
<1>4. EventsForRun(r)' = {}
  <2>1. CASE events' = events
    BY <1>2, <2>1 DEF EventsForRun
  <2>2. ASSUME NEW w \in Workers, Ingest(w),
               events' = events \cup {OwnEvent(w, stored[w] + 1)}
        PROVE  EventsForRun(r)' = {}
    <3>1. held[w].id # r
      BY <1>2, <2>2 DEF Ingest, Processing
    <3>2. OwnEvent(w, stored[w] + 1)[1] # r
      BY <3>1 DEF OwnEvent
    <3> QED BY <1>2, <2>2, <3>2 DEF EventsForRun
  <2>3. CASE PostReset
    <3>1. events' = {}
      BY <2>3 DEF PostReset, Reset
    <3> QED BY <3>1 DEF EventsForRun
  <2> QED BY <2>1, <2>2, <2>3, EventChange
<1> QED BY <1>3, <1>4

\* What a worker ingested stays stored as long as its run is.
LEMMA IngestedStep ==
  ASSUME TypeOK, WellFormed, EvidenceInv, IdsNeverReused, Next, NEW w \in Workers
  PROVE  IngestedIsStored(w)'
<1> USE DEF storeVars
<1>1. IngestedIsStored(w) /\ WorkerWellFormed(w) /\ UnusedIsUntouched
  BY DEF EvidenceInv, WellFormed
<1>2. ASSUME pc[w] \in {"ingest", "finish"},
             runs'[held[w].id].status # "ABSENT", held[w].id \notin left'
      PROVE  Whole(held[w].id) /\ events \subseteq events'
  <2>1. held[w].id \in RunIds /\ Processing(w)
    BY <1>1, <1>2 DEF WorkerWellFormed, Processing
  <2>2. runs[held[w].id].status # "ABSENT"
    <3> SUFFICES ASSUME runs[held[w].id].status = "ABSENT"
                 PROVE  FALSE
      OBVIOUS
    <3>1. \E run \in posting : run.id = held[w].id
      BY <1>2, <2>1, AppearsByPut
    <3>2. Unused(held[w].id)
      BY <3>1 DEF Unused, Pending
    <3> QED BY <1>1, <2>1, <3>2 DEF UnusedIsUntouched
  <2>3. ~PostReset
    BY <1>2, <2>1, NoRunRow DEF PostReset, Reset
  <2>4. left' = left
    BY <2>3, LeftChange
  <2> QED BY <1>2, <2>2, <2>3, <2>4, EventChange DEF Whole
<1>3. CASE WorkerStep(w)
  <2>1. CASE Ingest(w)
    <3>1. /\ pc[w] = "ingest" /\ runs' = runs /\ left' = left
          /\ held' = held /\ emitted' = emitted
      BY <2>1 DEF Ingest
    <3>2. stored[w] \in Nat /\ EventsPerRun \in Nat
      BY WorkerAssumption DEF TypeOK
    <3>3. CASE pc'[w] \in {"ingest", "finish"}
      <4>1. /\ events' = events \cup {OwnEvent(w, stored[w] + 1)}
            /\ stored'[w] = stored[w] + 1
            /\ pc'[w] = "finish" => stored[w] + 1 = EventsPerRun
        BY <2>1, <3>3 DEF TypeOK, Ingest, IngestEvent, Settle, Goto
      <4>2. \A i \in 1 .. (stored[w] + 1) : i \in 1 .. stored[w] \/ i = stored[w] + 1
        BY <3>2
      <4>3. \A i : OwnEvent(w, i)' = OwnEvent(w, i)
        BY <3>1 DEF OwnEvent
      <4> QED BY <1>1, <3>1, <4>1, <4>2, <4>3 DEF IngestedIsStored, Whole
    <3>4. CASE pc'[w] \notin {"ingest", "finish"}
      BY <3>4 DEF IngestedIsStored
    <3> QED BY <3>3, <3>4
  <2>2. CASE Execute(w)
    <3>1. stored'[w] = 0 /\ pc'[w] \in {"ingest", "settle"}
      BY <1>1, <2>2 DEF TypeOK, WorkerWellFormed, Execute, Goto
    <3> QED BY <3>1 DEF IngestedIsStored
  <2>3. CASE \/ Reclaim(w) \/ FailOrphan(w) \/ List(w) \/ Authorize(w)
             \/ Renew(w) \/ Load(w)
    <3>1. pc'[w] \notin {"ingest", "finish"}
      BY <2>3 DEF TypeOK, Reclaim, FailOrphan, List, Authorize, Renew, Load, Settle, Goto
    <3> QED BY <3>1 DEF IngestedIsStored
  <2>4. CASE Recheck(w) \/ Finish(w) \/ SettleRun(w)
    <3>1. pc'[w] \notin {"ingest", "finish"}
      BY <2>4, LeftIsIdle DEF Recheck, Finish, SettleRun, Continue, Break
    <3> QED BY <3>1 DEF IngestedIsStored
  <2>5. CASE GetRun(w) \/ Claim(w) \/ Advance(w)
    <3>1. pc'[w] \notin {"ingest", "finish"}
      BY <2>5, LeftIsIdle DEF TypeOK, GetRun, Claim, Advance, Continue, Break, Goto
    <3> QED BY <3>1 DEF IngestedIsStored
  <2> QED BY <1>3, <2>1, <2>2, <2>3, <2>4, <2>5 DEF WorkerStep
<1>4. CASE ~WorkerStep(w)
  <2>1. CASE pc'[w] \in {"down", "reclaim", "get"}
    BY <2>1 DEF IngestedIsStored
  <2>2. CASE /\ pc'[w] = pc[w] /\ held'[w] = held[w]
             /\ emitted'[w] = emitted[w] /\ stored'[w] = stored[w]
    <3>1. \A i : OwnEvent(w, i)' = OwnEvent(w, i)
      BY <2>2 DEF OwnEvent
    <3> QED BY <1>1, <1>2, <2>2, <3>1 DEF IngestedIsStored, Whole
  <2> QED BY <1>4, <2>1, <2>2, OthersStep
<1> QED BY <1>3, <1>4

\* Only FinalizeRun completes a run, the one its worker has executed.
LEMMA CompletedByFinish ==
  ASSUME TypeOK, WellFormed, Next, NEW r \in RunIds \ left', runs'[r].status = "COMPLETED"
  PROVE  \/ runs'[r] = runs[r] /\ ~PostReset
         \/ \E w \in Workers : /\ Finish(w) /\ held[w].id = r
                               /\ runs'[r] = CompletedTarget(w)
                               /\ runs[r].status = "RUNNING"
<1> USE DEF storeVars
<1>0. runs \in [RunIds -> Run]
  BY DEF TypeOK, StoreTypeOK
<1>1. ~PostReset
  BY NoRunRow DEF PostReset, Reset
<1>2. ASSUME NEW run \in Run, run.status # "COMPLETED",
             runs' = runs \/ (run.id \in RunIds /\ RowMoved(run))
      PROVE  runs'[r] = runs[r]
  BY <1>0, <1>2 DEF RowMoved
<1>3. ASSUME NEW w \in Workers, WorkerStep(w)
      PROVE  \/ runs'[r] = runs[r]
             \/ /\ Finish(w) /\ held[w].id = r
                /\ runs'[r] = CompletedTarget(w)
                /\ runs[r].status = "RUNNING"
  <2>1. CASE \/ Reclaim(w) \/ List(w) \/ GetRun(w) \/ Recheck(w) \/ Authorize(w)
             \/ Renew(w) \/ Load(w) \/ Execute(w) \/ Ingest(w)
    BY <2>1 DEF Reclaim, List, GetRun, Recheck, Authorize, Renew, Load, Execute, Ingest
  <2>2. CASE FailOrphan(w)
    <3>1. PICK run \in orphans[w] : TransitionRun(run.status, OrphanTarget(run))
      BY <2>2 DEF FailOrphan
    <3>2. OrphanTarget(run) \in Run /\ OrphanTarget(run).status = "FAILED"
      <4>1. run \in Run
        BY DEF TypeOK
      <4>2. OrphanTarget(run).status = "FAILED"
        BY <4>1 DEF OrphanTarget, Run
      <4> QED BY <4>1, <4>2, OrphanType
    <3> QED BY <1>0, <1>2, <3>1, <3>2, MovedOrNot
  <2>3. CASE Claim(w)
    <3>1. held[w].id \in RunIds
      BY <2>3 DEF WellFormed, WorkerWellFormed, Claim
    <3>2. runs' = runs \/ runs' = [runs EXCEPT ![held[w].id].status = "VALIDATING"]
      BY <2>3 DEF Claim, ClaimRun
    <3> QED BY <1>0, <3>1, <3>2 DEF Run
  <2>4. CASE Advance(w)
    <3> DEFINE next == [held[w] EXCEPT !.status = "RUNNING", !.started = TRUE]
    <3>1. next \in Run /\ next.status = "RUNNING"
      <4>1. held[w] \in Run
        BY DEF TypeOK
      <4>2. next \in Run
        BY <4>1, StartedType
      <4>3. next.status = "RUNNING"
        BY <4>1 DEF Run
      <4> QED BY <4>2, <4>3
    <3>2. TransitionRun(held[w].status, next)
      BY <2>4 DEF Advance
    <3> HIDE DEF next
    <3> QED BY <1>0, <1>2, <3>1, <3>2, MovedOrNot
  <2>5. CASE SettleRun(w)
    <3>1. SettledTarget(w) \in Run /\ SettledTarget(w).status # "COMPLETED"
      BY SettledType, VerdictType DEF TypeOK, SettledTarget, Run
    <3> QED BY <1>0, <1>2, <2>5, <3>1, MovedOrNot DEF SettleRun
  <2>6. CASE Finish(w)
    <3>1. CompletedTarget(w) \in Run /\ CompletedTarget(w).id = held[w].id
      <4>1. CompletedTarget(w) \in Run
        BY <2>6, CompletedType DEF WellFormed, Finish
      <4>2. CompletedTarget(w).id = held[w].id
        BY DEF TypeOK, CompletedTarget, Run
      <4> QED BY <4>1, <4>2
    <3>2. CompletedTarget(w).status = "COMPLETED"
      BY DEF TypeOK, CompletedTarget, Run
    <3>3. \/ runs' = runs
          \/ held[w].id \in RunIds /\ RowMoved(CompletedTarget(w))
      BY <1>0, <2>6, <3>1, MovedOrNot DEF Finish
    <3>4. ASSUME RowMoved(CompletedTarget(w))
          PROVE  /\ runs[held[w].id].status = "RUNNING"
                 /\ runs' = [runs EXCEPT ![held[w].id] = CompletedTarget(w)]
      BY <3>1, <3>2, <3>4 DEF RowMoved, TransitionAccepts, LegalTransition
    <3> QED BY <1>0, <2>6, <3>3, <3>4
  <2> QED BY <1>3, <2>1, <2>2, <2>3, <2>4, <2>5, <2>6 DEF WorkerStep
<1>4. ASSUME NEW run \in posting, PutPosted(run)
      PROVE  runs'[r] = runs[r]
  <2>1. run.status = "CREATED"
    BY DEF WellFormed, PostingWellFormed
  <2> QED BY <1>0, <1>4, <2>1 DEF PutPosted, PutRun
<1>5. ASSUME \/ \E w \in Workers : Crash(w) \/ Restart(w)
             \/ \E w \in Workers, q \in RunIds : RunOnce(w, q)
             \/ \E q \in RunIds : LeaseExpires(q)
      PROVE  runs' = runs
  BY <1>5 DEF Crash, Restart, RunOnce, LeaseExpires
<1>6. ASSUME \/ \E c \in Capsules : PostCapsule(c) \/ PostRun("BASELINE", 0, c)
             \/ \E c \in Capsules, b \in RunIds : PostRun("WHAT_IF", b, c)
             \/ ApiRestart
      PROVE  runs' = runs
  BY <1>6 DEF PostCapsule, PostRun, ApiRestart
<1> QED BY <1>1, <1>3, <1>4, <1>5, <1>6 DEF Next, ApiStep

\* Every step keeps the events that the verdicts stand on.
LEMMA PersistedStep ==
  ASSUME TypeOK, WellFormed, EvidenceInv, Next
  PROVE  EvidencePersisted'
<1> SUFFICES ASSUME NEW r \in RunIds \ left', runs'[r].status = "COMPLETED"
             PROVE  runs'[r].evidence # {} /\ runs'[r].evidence \subseteq events'
  BY DEF EvidencePersisted
<1>1. CASE runs'[r] = runs[r] /\ ~PostReset
  <2>1. runs[r].evidence # {} /\ runs[r].evidence \subseteq events
    BY <1>1, LeftChange DEF EvidenceInv, EvidencePersisted
  <2> QED BY <1>1, <2>1, EventChange
<1>2. ASSUME NEW w \in Workers, Finish(w), held[w].id = r,
             runs'[r] = CompletedTarget(w), runs[r].status = "RUNNING"
      PROVE  runs'[r].evidence # {} /\ runs'[r].evidence \subseteq events'
  <2>1. runs'[r].evidence = OwnEvents(w)
    BY <1>2 DEF TypeOK, CompletedTarget, Run
  <2>2. OwnEvents(w) \subseteq events
    <3>1. left' = left
      BY <1>2 DEF Finish
    <3> QED BY <1>2, <3>1 DEF EvidenceInv, IngestedIsStored, Whole, Finish, OwnEvents
  <2>3. OwnEvent(w, 1) \in OwnEvents(w)
    BY WorkerAssumption DEF OwnEvents
  <2>4. events' = events
    BY <1>2 DEF Finish
  <2> QED BY <2>1, <2>2, <2>3, <2>4
<1> QED BY <1>1, <1>2, CompletedByFinish

\* The empty store satisfies the invariant of the evidence.
LEMMA EvidenceInit == Init => EvidenceInv
<1> SUFFICES ASSUME Init
             PROVE  EvidenceInv
  OBVIOUS
<1>1. /\ \A r \in RunIds : runs[r].status = "ABSENT"
      /\ posting = {} /\ events = {} /\ apiRestarts = 0
      /\ \A w \in Workers : pc[w] \in {"reclaim", "down"}
  BY NoRunRow DEF Init, StoreInit
<1> QED BY <1>1 DEF EvidenceInv, IdsDistinct, UnusedIsUntouched, EventsForRun, Processing,
        IngestedIsStored, EvidencePersisted

\* Every step keeps the invariant of the evidence, unless a run id is re-used.
LEMMA EvidenceStep ==
  ASSUME IdsNeverReused
  PROVE  IndInv /\ EvidenceInv /\ [Next]_vars => EvidenceInv'
<1> SUFFICES ASSUME IndInv, EvidenceInv, [Next]_vars
             PROVE  EvidenceInv'
  OBVIOUS
<1>1. TypeOK /\ WellFormed
  BY DEF IndInv
<1>2. CASE Next
  <2>1. IdsDistinct'
    <3>1. CASE MaxApiRestarts = 0
      BY <1>1, <1>2, <3>1, IdsStep DEF EvidenceInv
    <3>2. CASE MaxApiRestarts # 0
      BY <3>2 DEF IdsDistinct
    <3> QED BY <3>1, <3>2
  <2>2. UnusedIsUntouched' /\ (\A w \in Workers : IngestedIsStored(w)') /\ EvidencePersisted'
    BY <1>1, <1>2, UntouchedStep, IngestedStep, PersistedStep
  <2> QED BY <2>1, <2>2 DEF EvidenceInv
<1>3. CASE UNCHANGED vars
  BY <1>3 DEF EvidenceInv, IdsDistinct, Pending, Unused, UnusedIsUntouched, Processing,
     EventsForRun, IngestedIsStored, Whole, OwnEvent, EvidencePersisted, vars, storeVars,
     workerVars, apiVars, boundVars
<1> QED BY <1>2, <1>3

\* However many workers crash, race and lose their leases, the verdict of a
\* COMPLETED run can be retraced in the store, whichever runs resets leave behind
\* (those excepted), if no run id is used twice: the API is not restarted, or the
\* store is never reset (main.go nextID).
THEOREM VerdictsCanBeRetraced ==
  ASSUME IdsNeverReused
  PROVE  Spec => []EvidencePersisted
<1>1. Init => EvidenceInv
  BY EvidenceInit
<1>2. IndInv /\ EvidenceInv /\ [Next]_vars => EvidenceInv'
  BY EvidenceStep
<1>3. EvidenceInv => EvidencePersisted
  BY DEF EvidenceInv
<1> QED BY <1>1, <1>2, <1>3, Invariance, PTL DEF Spec

-----------------------------------------------------------------------------
(* One poller alone, which may die and be restarted: its copy of a run is    *)
(* the row, and it runs what it has just claimed.                            *)

SolePoller == OneShots = {} /\ \A v, w \in Workers : v = w

\* The copy a worker holds is the row, unless a reset has deleted that.
CopyIsRow(w) ==
  Processing(w) => runs[held[w].id] = held[w] \/ runs[held[w].id].status = "ABSENT"

\* The runs it has yet to try are still CREATED, or deleted.
ListedAreCreated(w) ==
  /\ pc[w] = "get" => \A r \in listed[w] : runs[r].status \in {"CREATED", "ABSENT"}
  /\ Processing(w) =>
       \A r \in listed[w] \ {held[w].id} : runs[r].status \in {"CREATED", "ABSENT"}

\* How far the run it holds has come.
StatusByPc(w) ==
  /\ pc[w] = "claim" => held[w].status = "CREATED"
  /\ pc[w] \in {"authorize", "advance"} => held[w].status = "VALIDATING"
  /\ pc[w] \in {"renew", "load", "execute", "ingest", "finish"} => held[w].status = "RUNNING"

\* Up to Execute, the run it holds has left no trace.
NotYetExecuted(w) ==
  pc[w] \in {"renew", "load", "execute"} =>
    execs[held[w].id] = 0 /\ EventsForRun(held[w].id) = {}

\* Then the events stored of its run are those it ingested.
OnlyIngested(w) ==
  pc[w] \in {"ingest", "finish"} /\ Whole(held[w].id) =>
    EventsForRun(held[w].id) = {OwnEvent(w, i) : i \in 1 .. stored[w]}

SoleWorker(w) ==
  /\ CopyIsRow(w) /\ ListedAreCreated(w) /\ StatusByPc(w)
  /\ NotYetExecuted(w) /\ OnlyIngested(w)

\* A run that has not been RUNNING has not been executed.
FreshRows ==
  \A r \in RunIds : runs[r].status \in {"CREATED", "VALIDATING"} =>
    execs[r] = 0 /\ EventsForRun(r) = {}

SoleTables == FreshRows /\ SingleExecution /\ EvidenceIsExact
SoleInv == SoleTables /\ \A w \in Workers : SoleWorker(w)

\* A worker outside processRun has only its list to vouch for.
LEMMA IdleSole ==
  ASSUME NEW w \in Workers, ~Processing(w)',
         pc'[w] = "get" => \A r \in listed'[w] : runs'[r].status \in {"CREATED", "ABSENT"}
  PROVE  SoleWorker(w)'
<1>1. pc'[w] \in {"down", "reclaim", "orphans", "get"}
  BY DEF Processing
<1> QED BY <1>1 DEF SoleWorker, CopyIsRow, ListedAreCreated, StatusByPc, NotYetExecuted,
        OnlyIngested, Whole

\* Nothing of what is said about a worker depends on other variables.
LEMMA SameSole ==
  ASSUME NEW w \in Workers, SoleWorker(w), UNCHANGED <<runs, events, execs, left>>,
         pc'[w] = pc[w], held'[w] = held[w], listed'[w] = listed[w],
         emitted'[w] = emitted[w], stored'[w] = stored[w]
  PROVE  SoleWorker(w)'
<1>1. \A r : EventsForRun(r)' = EventsForRun(r)
  BY DEF EventsForRun
<1>2. \A i : OwnEvent(w, i)' = OwnEvent(w, i)
  BY DEF OwnEvent
<1> QED BY <1>1, <1>2 DEF SoleWorker, CopyIsRow, ListedAreCreated, StatusByPc, NotYetExecuted,
        OnlyIngested, Whole, Processing

\* Nor of what is said about the tables.
LEMMA SameTables ==
  ASSUME SoleTables, UNCHANGED <<runs, events, execs, left>>
  PROVE  SoleTables'
BY DEF SoleTables, FreshRows, SingleExecution, EvidenceIsExact, EventsForRun

\* A transition keeps the tables consistent if a verdict it stores is on the
\* events of its run.
LEMMA MovedTables ==
  ASSUME runs \in [RunIds -> Run], SoleTables, UNCHANGED <<events, execs, left>>,
         NEW run \in Run, run.id \in RunIds, RowMoved(run),
         run.status = "COMPLETED" /\ run.id \notin left => EventsForRun(run.id) = run.evidence
  PROVE  SoleTables'
<1>1. /\ runs' = [runs EXCEPT ![run.id] = run]
      /\ LegalTransition(runs[run.id].status, run.status)
  BY DEF RowMoved, TransitionAccepts
<1>2. \A r : EventsForRun(r)' = EventsForRun(r)
  BY DEF EventsForRun
<1>3. FreshRows'
  <2> SUFFICES ASSUME NEW r \in RunIds, runs'[r].status \in {"CREATED", "VALIDATING"}
               PROVE  execs[r] = 0 /\ EventsForRun(r) = {}
    BY <1>2 DEF FreshRows
  <2>1. runs[r].status \in {"CREATED", "VALIDATING"}
    BY <1>1 DEF LegalTransition, Terminal
  <2> QED BY <2>1 DEF SoleTables, FreshRows
<1>4. EvidenceIsExact'
  BY <1>1, <1>2 DEF SoleTables, EvidenceIsExact
<1>5. SingleExecution'
  BY DEF SoleTables, SingleExecution
<1> QED BY <1>3, <1>4, <1>5 DEF SoleTables

\* The steps that only read the store.
LEMMA SoleReads ==
  ASSUME TypeOK, WellFormed, SolePoller, SoleInv, NEW w \in Workers,
         \/ Reclaim(w) \/ List(w) \/ GetRun(w) \/ Recheck(w) \/ Authorize(w)
         \/ Renew(w) \/ Load(w)
  PROVE  SoleInv'
<1> USE DEF storeVars
<1>1. UNCHANGED <<runs, events, execs, left>>
  BY DEF Reclaim, List, GetRun, Recheck, Authorize, Renew, Load
<1>2. SoleWorker(w) /\ SoleTables
  BY DEF SoleInv
<1>3. SoleTables'
  BY <1>1, <1>2, SameTables
<1>4. CASE Reclaim(w)
  <2>1. pc'[w] = "orphans"
    BY <1>4 DEF TypeOK, Reclaim, Goto
  <2>2. SoleWorker(w)'
    BY <2>1, IdleSole DEF Processing
  <2> QED BY <1>3, <2>2 DEF SoleInv, SolePoller
<1>5. CASE List(w)
  <2>1. pc'[w] \in {"reclaim", "get"} /\ listed'[w] = CreatedRuns
    BY <1>5 DEF TypeOK, List, Goto
  <2>2. SoleWorker(w)'
    BY <1>1, <2>1, IdleSole DEF Processing, CreatedRuns
  <2> QED BY <1>3, <2>2 DEF SoleInv, SolePoller
<1>6. CASE GetRun(w)
  <2>1. PICK r \in listed[w] :
          \/ Continue(w, r)
          \/ runs[r].status \in Terminal
          \/ /\ runs[r].status \in {"CREATED", "VALIDATING", "RUNNING"}
             /\ held' = [held EXCEPT ![w] = runs[r]]
             /\ Goto(w, CASE runs[r].status = "CREATED" -> "claim"
                          [] runs[r].status = "RUNNING" -> "load"
                          [] OTHER -> IF runs[r].type = "WHAT_IF" THEN "authorize" ELSE "advance")
             /\ UNCHANGED listed
    BY <1>6 DEF GetRun
  <2>2. /\ \A q \in listed[w] : runs[q].status \in {"CREATED", "ABSENT"}
        /\ r \in RunIds /\ listed[w] \subseteq RunIds
    BY <1>2, <1>6 DEF TypeOK, GetRun, SoleWorker, ListedAreCreated
  <2>3. CASE Continue(w, r)
    <3>1. ~Processing(w)' /\ listed'[w] = listed[w] \ {r}
      BY <2>3, LeftIsIdle DEF Continue
    <3> QED BY <1>1, <2>2, <3>1, IdleSole, <1>3 DEF SoleInv, SolePoller
  <2>4. CASE ~Continue(w, r)
    <3>1. runs[r].status = "CREATED"
      BY <2>1, <2>2, <2>4 DEF Terminal
    <3>2. /\ held'[w] = runs[r] /\ listed'[w] = listed[w] /\ pc'[w] = "claim"
      BY <2>1, <2>4, <3>1 DEF TypeOK, Goto, Terminal
    <3>3. runs[r].id = r
      BY <2>2, <3>1, NoRunRow DEF WellFormed, RowsWellFormed
    <3>4. SoleWorker(w)'
      BY <1>1, <2>2, <3>1, <3>2, <3>3 DEF SoleWorker, CopyIsRow, ListedAreCreated, StatusByPc,
         NotYetExecuted, OnlyIngested, Whole
    <3> QED BY <1>3, <3>4 DEF SoleInv, SolePoller
  <2> QED BY <2>3, <2>4
<1>7. CASE Recheck(w)
  <2>1. Processing(w)
    BY <1>7 DEF Recheck, Processing
  <2>2. Break(w) \/ Continue(w, held[w].id)
    BY <1>7 DEF Recheck
  <2>3. ~Processing(w)' /\ listed'[w] \in {{}, listed[w] \ {held[w].id}}
    BY <2>2, LeftIsIdle DEF Break, Continue
  <2>4. SoleWorker(w)'
    BY <1>1, <1>2, <2>1, <2>3, IdleSole DEF SoleWorker, ListedAreCreated
  <2> QED BY <1>3, <2>4 DEF SoleInv, SolePoller
<1>8. CASE Authorize(w) \/ Renew(w) \/ Load(w)
  <2>1. /\ held' = held /\ listed' = listed /\ emitted' = emitted /\ stored' = stored
        /\ Processing(w)
    BY <1>8 DEF Authorize, Renew, Load, Processing
  <2>2. \/ pc[w] = "authorize" /\ pc'[w] \in {"advance", "settle"}
        \/ pc[w] = "renew" /\ pc'[w] = "load"
        \/ pc[w] = "load" /\ pc'[w] \in {"execute", "settle"}
    BY <1>8 DEF TypeOK, Authorize, Renew, Load, Settle, Goto
  <2>3. \A r : EventsForRun(r)' = EventsForRun(r)
    BY <1>1 DEF EventsForRun
  <2>4. CopyIsRow(w)' /\ ListedAreCreated(w)'
    BY <1>1, <1>2, <2>1, <2>2 DEF SoleWorker, CopyIsRow, ListedAreCreated
  <2>5. StatusByPc(w)' /\ NotYetExecuted(w)' /\ OnlyIngested(w)'
    BY <1>1, <1>2, <2>1, <2>2, <2>3
       DEF SoleWorker, StatusByPc, NotYetExecuted, OnlyIngested, Whole
  <2> QED BY <1>3, <2>4, <2>5 DEF SoleInv, SolePoller, SoleWorker
<1> QED BY <1>4, <1>5, <1>6, <1>7, <1>8

\* One step of the worker itself that changes a row.
LEMMA SoleMoves ==
  ASSUME TypeOK, WellFormed, EvidenceInv, SolePoller, SoleInv, NEW w \in Workers,
         FailOrphan(w) \/ Claim(w) \/ Advance(w) \/ Finish(w) \/ SettleRun(w)
  PROVE  SoleInv'
<1> USE DEF storeVars
<1>1. UNCHANGED <<events, execs, left>>
  BY DEF FailOrphan, Claim, Advance, Finish, SettleRun
<1>2. /\ SoleWorker(w) /\ SoleTables /\ RowsWellFormed /\ WorkerWellFormed(w)
      /\ runs \in [RunIds -> Run] /\ held[w] \in Run /\ listed[w] \subseteq RunIds
      /\ \A v \in Workers : v = w
  BY DEF SoleInv, WellFormed, TypeOK, StoreTypeOK, SolePoller
<1>3. \A r : EventsForRun(r)' = EventsForRun(r)
  BY <1>1 DEF EventsForRun
<1>4. ASSUME runs' = runs
      PROVE  SoleTables'
  BY <1>1, <1>2, <1>4, SameTables
<1>5. ASSUME Processing(w), Continue(w, held[w].id), runs' = runs
      PROVE  SoleInv'
  <2>1. ~Processing(w)' /\ listed'[w] = listed[w] \ {held[w].id}
    BY <1>5, LeftIsIdle DEF Continue
  <2>2. SoleWorker(w)'
    BY <1>2, <1>5, <2>1, IdleSole DEF SoleWorker, ListedAreCreated
  <2> QED BY <1>2, <1>4, <1>5, <2>2 DEF SoleInv
<1>6. ASSUME Break(w), SoleTables'
      PROVE  SoleInv'
  <2>1. ~Processing(w)' /\ listed'[w] = {}
    BY <1>6, LeftIsIdle DEF Break
  <2>2. SoleWorker(w)'
    BY <2>1, IdleSole
  <2> QED BY <1>2, <1>6, <2>2 DEF SoleInv
<1>7. CASE FailOrphan(w)
  <2>1. PICK run \in orphans[w] : TransitionRun(run.status, OrphanTarget(run))
    BY <1>7 DEF FailOrphan
  <2>2. OrphanTarget(run) \in Run /\ OrphanTarget(run).status = "FAILED"
    <3>1. run \in Run
      BY DEF TypeOK
    <3>2. OrphanTarget(run).status = "FAILED"
      BY <3>1 DEF OrphanTarget, Run
    <3> QED BY <3>1, <3>2, OrphanType
  <2>3. SoleTables'
    BY <1>1, <1>2, <1>4, <2>1, <2>2, MovedOrNot, MovedTables
  <2>4. pc'[w] = "orphans"
    BY <1>7 DEF FailOrphan
  <2>5. SoleWorker(w)'
    BY <2>4, IdleSole DEF Processing
  <2> QED BY <1>2, <2>3, <2>5 DEF SoleInv
<1>8. CASE Claim(w)
  <2> DEFINE r == held[w].id
  <2>1. r \in RunIds /\ Processing(w) /\ pc[w] = "claim" /\ listed' = listed
    BY <1>2, <1>8 DEF WorkerWellFormed, Claim, Processing
  <2>2. CASE ClaimAccepts(r)
    <3>1. /\ runs' = [runs EXCEPT ![r].status = "VALIDATING"]
          /\ held'[w] = runs'[r] /\ pc'[w] \in {"authorize", "advance"}
      BY <1>8, <2>2 DEF TypeOK, Claim, ClaimRun, Goto
    <3>2. runs[r].status = "CREATED" /\ runs[r].id = r
      BY <1>2, <2>1, <2>2, NoRunRow DEF ClaimAccepts, RowsWellFormed
    <3>3. runs'[r].status = "VALIDATING" /\ runs'[r].id = r
      BY <1>2, <2>1, <3>1, <3>2 DEF Run
    <3>4. \A q \in RunIds \ {r} : runs'[q] = runs[q]
      BY <1>2, <3>1
    <3>5. SoleWorker(w)'
      BY <1>2, <2>1, <3>1, <3>3, <3>4 DEF SoleWorker, CopyIsRow, ListedAreCreated, StatusByPc,
         NotYetExecuted, OnlyIngested, Whole
    <3>6. FreshRows' /\ SingleExecution' /\ EvidenceIsExact'
      BY <1>1, <1>2, <1>3, <3>2, <3>3, <3>4 DEF SoleTables, FreshRows, SingleExecution,
         EvidenceIsExact
    <3> QED BY <1>2, <3>5, <3>6 DEF SoleInv, SoleTables
  <2>3. CASE ~ClaimAccepts(r)
    <3>1. runs' = runs /\ held' = held /\ pc'[w] = "recheck"
      BY <1>8, <2>3 DEF TypeOK, Claim, ClaimRun, Goto
    <3>2. SoleWorker(w)'
      BY <1>2, <2>1, <3>1 DEF SoleWorker, CopyIsRow, ListedAreCreated, StatusByPc,
         NotYetExecuted, OnlyIngested, Whole, Processing
    <3> QED BY <1>2, <1>4, <3>1, <3>2 DEF SoleInv
  <2> QED BY <2>2, <2>3
<1>9. CASE Advance(w)
  <2>1. PICK next : next = [held[w] EXCEPT !.status = "RUNNING", !.started = TRUE]
    OBVIOUS
  <2>2. next \in Run /\ next.status = "RUNNING" /\ next.id = held[w].id
    <3>1. next \in Run
      BY <1>2, <2>1, StartedType
    <3> QED BY <1>2, <2>1, <3>1 DEF Run
  <2>3. held[w].id \in RunIds /\ Processing(w) /\ held[w].status = "VALIDATING"
    BY <1>2, <1>9 DEF WorkerWellFormed, Advance, Processing, SoleWorker, StatusByPc
  <2>4. TransitionRun(held[w].status, next)
    BY <1>9, <2>1 DEF Advance
  <2>5. CASE TransitionAccepts(held[w].status, next)
    <3>1. /\ runs' = [runs EXCEPT ![held[w].id] = next] /\ RowMoved(next)
          /\ runs[held[w].id].status = "VALIDATING"
      BY <2>2, <2>3, <2>4, <2>5 DEF TransitionRun, TransitionAccepts, RowMoved
    <3>2. held'[w] = next /\ pc'[w] = "renew" /\ listed' = listed
      BY <1>9, <2>1, <2>5 DEF TypeOK, Advance, Goto
    <3>3. execs[held[w].id] = 0 /\ EventsForRun(held[w].id) = {}
      BY <1>2, <2>3, <3>1 DEF SoleTables, FreshRows
    <3>4. /\ runs'[held[w].id] = next
          /\ \A q \in RunIds \ {held[w].id} : runs'[q] = runs[q]
      BY <1>2, <2>3, <3>1
    <3>5. SoleWorker(w)'
      BY <1>1, <1>2, <1>3, <2>2, <2>3, <3>2, <3>3, <3>4 DEF SoleWorker, CopyIsRow,
         ListedAreCreated, StatusByPc, NotYetExecuted, OnlyIngested, Whole
    <3>6. SoleTables'
      BY <1>1, <1>2, <2>2, <2>3, <3>1, MovedTables
    <3> QED BY <1>2, <3>5, <3>6 DEF SoleInv
  <2>6. CASE ~TransitionAccepts(held[w].status, next)
    <3>1. runs' = runs /\ Continue(w, held[w].id)
      BY <1>9, <2>1, <2>6 DEF Advance, TransitionRun
    <3> QED BY <1>5, <2>3, <3>1
  <2> QED BY <2>5, <2>6
<1>10. CASE Finish(w)
  <2>1. /\ CompletedTarget(w) \in Run /\ CompletedTarget(w).id = held[w].id
        /\ CompletedTarget(w).evidence = OwnEvents(w)
        /\ held[w].id \in RunIds /\ Processing(w)
    BY <1>2, <1>10, CompletedType DEF WorkerWellFormed, Finish, CompletedTarget, Run, Processing
  <2>2. CASE TransitionAccepts(held[w].status, CompletedTarget(w))
    <3>1. RowMoved(CompletedTarget(w)) /\ runs[held[w].id].status # "ABSENT" /\ Break(w)
      BY <1>10, <2>1, <2>2 DEF Finish, TransitionRun, TransitionAccepts, RowMoved, LegalTransition
    <3>2. held[w].id \notin left => EventsForRun(held[w].id) = OwnEvents(w)
      BY <1>2, <1>10, <3>1 DEF Finish, SoleWorker, OnlyIngested, Whole, OwnEvents, EvidenceInv,
         IngestedIsStored
    <3>3. SoleTables'
      BY <1>1, <1>2, <2>1, <3>1, <3>2, MovedTables
    <3> QED BY <1>6, <3>1, <3>3
  <2>3. CASE ~TransitionAccepts(held[w].status, CompletedTarget(w))
    BY <1>5, <1>10, <2>1, <2>3 DEF Finish, TransitionRun
  <2> QED BY <2>2, <2>3
<1>11. CASE SettleRun(w)
  <2>1. /\ SettledTarget(w) \in Run /\ SettledTarget(w).id = held[w].id
        /\ SettledTarget(w).status # "COMPLETED"
        /\ held[w].id \in RunIds /\ Processing(w)
    <3>1. SettledTarget(w) \in Run
      BY SettledType DEF TypeOK
    <3> QED BY <1>2, <1>11, <3>1, VerdictType DEF WorkerWellFormed, SettleRun, SettledTarget,
            Run, Processing
  <2>2. CASE TransitionAccepts(held[w].status, SettledTarget(w))
    <3>1. RowMoved(SettledTarget(w)) /\ Break(w)
      BY <1>11, <2>1, <2>2 DEF SettleRun, TransitionRun, TransitionAccepts, RowMoved
    <3>2. SoleTables'
      BY <1>1, <1>2, <2>1, <3>1, MovedTables
    <3> QED BY <1>6, <3>1, <3>2
  <2>3. CASE ~TransitionAccepts(held[w].status, SettledTarget(w))
    BY <1>5, <1>11, <2>1, <2>3 DEF SettleRun, TransitionRun
  <2> QED BY <2>2, <2>3
<1> QED BY <1>7, <1>8, <1>9, <1>10, <1>11

\* The execution, and the events it records.
LEMMA SoleExecutes ==
  ASSUME TypeOK, WellFormed, SolePoller, SoleInv, NEW w \in Workers, Execute(w) \/ Ingest(w)
  PROVE  SoleInv'
<1> USE DEF storeVars
<1>1. /\ SoleWorker(w) /\ SoleTables /\ WorkerWellFormed(w)
      /\ \A v \in Workers : v = w
      /\ runs' = runs /\ left' = left /\ held' = held /\ listed' = listed
  BY DEF SoleInv, WellFormed, SolePoller, Execute, Ingest
<1>2. /\ held[w].id \in RunIds /\ held[w].status = "RUNNING" /\ Processing(w)
      /\ runs[held[w].id].status \in {"RUNNING", "ABSENT"}
  BY <1>1 DEF WorkerWellFormed, Execute, Ingest, SoleWorker, StatusByPc, CopyIsRow, Processing
<1>3. CopyIsRow(w)' /\ ListedAreCreated(w)'
  <2>1. pc'[w] # "get"
    BY DEF TypeOK, Execute, Ingest, Settle, Goto
  <2> QED BY <1>1, <1>2, <2>1 DEF SoleWorker, CopyIsRow, ListedAreCreated
<1>4. CASE Execute(w)
  <2>1. /\ pc[w] = "execute" /\ pc'[w] \in {"ingest", "settle"}
        /\ execs' = [execs EXCEPT ![held[w].id] = execs[held[w].id] + 1]
        /\ events' = events /\ stored'[w] = 0
    BY <1>1, <1>4 DEF TypeOK, WorkerWellFormed, Execute, Goto
  <2>2. execs[held[w].id] = 0 /\ EventsForRun(held[w].id) = {}
    BY <1>1, <2>1 DEF SoleWorker, NotYetExecuted
  <2>3. \A r : EventsForRun(r)' = EventsForRun(r)
    BY <2>1 DEF EventsForRun
  <2>4. {OwnEvent(w, i)' : i \in 1 .. 0} = {}
    OBVIOUS
  <2>5. StatusByPc(w)' /\ NotYetExecuted(w)' /\ OnlyIngested(w)'
    BY <1>1, <1>2, <2>1, <2>2, <2>3, <2>4 DEF StatusByPc, NotYetExecuted, OnlyIngested, Whole
  <2>6. FreshRows' /\ EvidenceIsExact'
    BY <1>1, <1>2, <2>1, <2>3 DEF TypeOK, SoleTables, FreshRows, EvidenceIsExact
  <2>7. SingleExecution'
    BY <1>1, <1>2, <2>1, <2>2 DEF TypeOK, SoleTables, SingleExecution
  <2> QED BY <1>1, <1>3, <2>5, <2>6, <2>7 DEF SoleInv, SoleTables, SoleWorker
<1>5. CASE Ingest(w)
  <2> DEFINE e == OwnEvent(w, stored[w] + 1)
  <2>1. /\ pc[w] = "ingest" /\ pc'[w] \in {"ingest", "finish", "settle"}
        /\ execs' = execs /\ emitted' = emitted
        /\ \/ events' = events \cup {e} /\ stored'[w] = stored[w] + 1
           \/ events' = events /\ pc'[w] = "settle"
    BY <1>5 DEF TypeOK, Ingest, IngestEvent, Settle, Goto
  <2>2. e[1] = held[w].id
    BY DEF OwnEvent
  <2>3. /\ \A r : r # held[w].id => EventsForRun(r)' = EventsForRun(r)
        /\ events' = events \cup {e} =>
             EventsForRun(held[w].id)' = EventsForRun(held[w].id) \cup {e}
    <3> HIDE DEF e
    <3>1. ASSUME NEW r, r # held[w].id
          PROVE  EventsForRun(r)' = EventsForRun(r)
      BY <2>1, <2>2, <3>1 DEF EventsForRun
    <3>2. ASSUME events' = events \cup {e}
          PROVE  EventsForRun(held[w].id)' = EventsForRun(held[w].id) \cup {e}
      BY <1>1, <2>2, <3>2 DEF EventsForRun
    <3> QED BY <3>1, <3>2
  <2>4. StatusByPc(w)' /\ NotYetExecuted(w)'
    BY <1>1, <1>2, <2>1 DEF StatusByPc, NotYetExecuted
  <2>5. OnlyIngested(w)'
    <3>1. \A i : OwnEvent(w, i)' = OwnEvent(w, i)
      BY <1>1, <2>1 DEF OwnEvent
    <3>2. CASE events' = events \cup {e} /\ stored'[w] = stored[w] + 1
      <4>1. 1 .. (stored[w] + 1) = (1 .. stored[w]) \cup {stored[w] + 1}
        BY WorkerAssumption DEF TypeOK
      <4>2. {OwnEvent(w, i) : i \in 1 .. (stored[w] + 1)}
              = {OwnEvent(w, i) : i \in 1 .. stored[w]} \cup {e}
        BY <4>1
      <4>3. {OwnEvent(w, i)' : i \in 1 .. stored'[w]}
              = {OwnEvent(w, i) : i \in 1 .. (stored[w] + 1)}
        BY <3>1, <3>2
      <4> HIDE DEF e
      <4> QED BY <1>1, <2>1, <2>3, <3>2, <4>2, <4>3 DEF SoleWorker, OnlyIngested, Whole
    <3>3. CASE pc'[w] = "settle"
      BY <3>3 DEF OnlyIngested, Whole
    <3> QED BY <2>1, <3>2, <3>3
  <2>6. FreshRows' /\ SingleExecution' /\ EvidenceIsExact'
    BY <1>1, <1>2, <2>1, <2>3 DEF SoleTables, FreshRows, SingleExecution, EvidenceIsExact
  <2> QED BY <1>1, <1>3, <2>4, <2>5, <2>6 DEF SoleInv, SoleTables, SoleWorker
<1> QED BY <1>4, <1>5

\* What the API and the processes do beside the worker.
LEMMA SoleOthers ==
  ASSUME TypeOK, WellFormed, EvidenceInv, SolePoller, SoleInv, Next,
         ~\E w \in Workers : WorkerStep(w)
  PROVE  SoleInv'
<1>1. /\ SoleTables /\ \A w \in Workers : SoleWorker(w) /\ WorkerWellFormed(w)
      /\ runs \in [RunIds -> Run] /\ OneShots = {}
  BY DEF SoleInv, WellFormed, TypeOK, StoreTypeOK, SolePoller
<1>2. CASE PostReset
  <2>1. /\ \A r \in RunIds : (runs'[r] = runs[r] /\ r \in left')
                              \/ (runs'[r] = NoRun /\ r \notin left')
        /\ events' = {} /\ UNCHANGED <<pc, held, listed, execs>>
    BY <1>2 DEF PostReset, Reset, workerVars
  <2>2. \A r : EventsForRun(r)' = {}
    BY <2>1 DEF EventsForRun
  <2>3. SoleTables'
    BY <1>1, <2>1, <2>2, NoRunRow DEF SoleTables, FreshRows, SingleExecution, EvidenceIsExact
  <2>4. ASSUME NEW w \in Workers
        PROVE  SoleWorker(w)'
    <3>1. Processing(w) => held[w].id \in RunIds
      BY <1>1 DEF WorkerWellFormed, Processing
    <3>2. listed[w] \subseteq RunIds
      BY DEF TypeOK
    <3>3. CopyIsRow(w)' /\ ListedAreCreated(w)'
      BY <1>1, <2>1, <3>1, <3>2, NoRunRow DEF SoleWorker, CopyIsRow, ListedAreCreated, Processing
    <3>4. StatusByPc(w)' /\ NotYetExecuted(w)' /\ OnlyIngested(w)'
      BY <1>1, <2>1, <2>2, <3>1, NoRunRow
         DEF SoleWorker, StatusByPc, NotYetExecuted, OnlyIngested, Whole, Processing
    <3> QED BY <3>3, <3>4 DEF SoleWorker
  <2> QED BY <2>3, <2>4 DEF SoleInv
<1>3. ASSUME NEW run \in posting, PutPosted(run)
      PROVE  SoleInv'
  <2>1. UNCHANGED <<events, left, pc, held, listed, emitted, stored>>
    BY <1>3 DEF PutPosted, workerVars
  <2>2. CASE ~PutRunAccepts(run)
    <3>1. UNCHANGED <<runs, execs>>
      BY <1>3, <2>2 DEF PutPosted, PutRun
    <3> QED BY <1>1, <2>1, <3>1, SameSole, SameTables DEF SoleInv
  <2>3. CASE PutRunAccepts(run)
    <3> DEFINE q == run.id
    <3>1. /\ q \in RunIds /\ run.status = "CREATED" /\ runs[q].status = "ABSENT"
          /\ runs' = [runs EXCEPT ![q] = run] /\ execs' = [execs EXCEPT ![q] = 0]
      BY <1>3, <2>3 DEF WellFormed, PostingWellFormed, PutPosted, PutRun, PutRunAccepts
    <3>2. Unused(q)
      BY <3>1 DEF Unused, Pending
    <3>3. /\ EventsForRun(q) = {}
          /\ \A w \in Workers : Processing(w) => held[w].id # q /\ held[w].id \in RunIds
      BY <1>1, <3>1, <3>2 DEF EvidenceInv, UnusedIsUntouched, WorkerWellFormed, Processing
    <3>4. /\ runs'[q].status = "CREATED" /\ execs'[q] = 0
          /\ \A r \in RunIds \ {q} : runs'[r] = runs[r] /\ execs'[r] = execs[r]
      BY <1>1, <3>1 DEF TypeOK
    <3>5. \A r : EventsForRun(r)' = EventsForRun(r)
      BY <2>1 DEF EventsForRun
    <3> HIDE DEF q
    <3>6. SoleTables'
      BY <1>1, <2>1, <3>3, <3>4, <3>5 DEF SoleTables, FreshRows, SingleExecution, EvidenceIsExact
    <3>7. ASSUME NEW w \in Workers
          PROVE  SoleWorker(w)'
      <4>1. Processing(w)' <=> Processing(w)
        BY <2>1 DEF Processing
      <4>2. listed[w] \subseteq RunIds
        BY DEF TypeOK
      <4>3. CopyIsRow(w)' /\ ListedAreCreated(w)' /\ StatusByPc(w)'
        BY <1>1, <2>1, <3>3, <3>4, <4>1, <4>2
           DEF SoleWorker, CopyIsRow, ListedAreCreated, StatusByPc
      <4>4. \A i : OwnEvent(w, i)' = OwnEvent(w, i)
        BY <2>1 DEF OwnEvent
      <4>5. NotYetExecuted(w)' /\ OnlyIngested(w)'
        <5>1. CASE Processing(w)
          BY <1>1, <2>1, <3>3, <3>4, <3>5, <4>4, <5>1
             DEF SoleWorker, NotYetExecuted, OnlyIngested, Whole
        <5>2. CASE ~Processing(w)
          BY <2>1, <5>2 DEF NotYetExecuted, OnlyIngested, Whole, Processing
        <5> QED BY <5>1, <5>2
      <4> QED BY <4>3, <4>5 DEF SoleWorker
    <3> QED BY <3>6, <3>7 DEF SoleInv
  <2> QED BY <2>2, <2>3
<1>4. CASE \/ \E r \in RunIds : LeaseExpires(r)
           \/ ApiStep /\ ~PostReset /\ ~\E run \in posting : PutPosted(run)
  <2>1. UNCHANGED <<runs, events, execs, left, pc, held, listed, emitted, stored>>
    BY <1>4 DEF LeaseExpires, ApiStep, PostCapsule, PostRun, ApiRestart, storeVars, workerVars
  <2> QED BY <1>1, <2>1, SameSole, SameTables DEF SoleInv
<1>5. ASSUME NEW w \in Workers, Crash(w) \/ Restart(w)
      PROVE  SoleInv'
  <2>1. UNCHANGED <<runs, events, execs, left>> /\ pc'[w] \in {"down", "reclaim"}
    BY <1>5 DEF TypeOK, Crash, Restart, Goto, storeVars
  <2>2. SoleWorker(w)'
    BY <2>1, IdleSole DEF Processing
  <2> QED BY <1>1, <2>1, <2>2, SameTables DEF SoleInv, SolePoller
<1>6. ~\E w \in Workers, r \in RunIds : RunOnce(w, r)
  BY <1>1 DEF RunOnce
<1> QED BY <1>2, <1>3, <1>4, <1>5, <1>6 DEF Next, ApiStep

\* The empty store and an idle poller satisfy the invariant.
LEMMA SoleInit == Init => SoleInv
<1> SUFFICES ASSUME Init
             PROVE  SoleInv
  OBVIOUS
<1>1. /\ \A r \in RunIds : runs[r].status = "ABSENT" /\ execs[r] = 0
      /\ \A w \in Workers : pc[w] \in {"reclaim", "down"}
  BY NoRunRow DEF Init, StoreInit
<1>2. SoleTables
  BY <1>1 DEF SoleTables, FreshRows, SingleExecution, EvidenceIsExact
<1>3. \A w \in Workers : SoleWorker(w)
  BY <1>1 DEF SoleWorker, CopyIsRow, ListedAreCreated, StatusByPc, NotYetExecuted,
     OnlyIngested, Whole, Processing
<1> QED BY <1>2, <1>3 DEF SoleInv

\* Every step keeps it, if there is one poller and no run id is re-used.
LEMMA SoleStep ==
  ASSUME SolePoller
  PROVE  IndInv /\ EvidenceInv /\ SoleInv /\ [Next]_vars => SoleInv'
<1> SUFFICES ASSUME IndInv, EvidenceInv, SoleInv, [Next]_vars
             PROVE  SoleInv'
  OBVIOUS
<1>1. TypeOK /\ WellFormed
  BY DEF IndInv
<1>2. ASSUME NEW w \in Workers, WorkerStep(w)
      PROVE  SoleInv'
  BY <1>1, <1>2, SoleReads, SoleMoves, SoleExecutes DEF WorkerStep
<1>3. CASE Next /\ ~\E w \in Workers : WorkerStep(w)
  BY <1>1, <1>3, SoleOthers
<1>4. CASE UNCHANGED vars
  BY <1>4, SameSole, SameTables DEF SoleInv, vars, storeVars, workerVars
<1> QED BY <1>2, <1>3, <1>4

\* The two invariants of the evidence hold together.
LEMMA SoleInvariance ==
  ASSUME SolePoller, IdsNeverReused
  PROVE  Spec => []SoleInv
<1>1. Init => EvidenceInv /\ SoleInv
  BY EvidenceInit, SoleInit
<1>2. IndInv /\ EvidenceInv /\ SoleInv /\ [Next]_vars => EvidenceInv' /\ SoleInv'
  BY EvidenceStep, SoleStep
<1> QED BY <1>1, <1>2, Invariance, PTL DEF Spec

\* A single poller executes no run twice, whatever crashes, leases and restarts
\* do to it (main.go "Replaying never re-runs an already-claimed run"); with
\* two, a run that one has just claimed can be read and executed by the other.
THEOREM SolePollerExecutesOnce ==
  ASSUME SolePoller, IdsNeverReused
  PROVE  Spec => []SingleExecution
BY SoleInvariance, PTL DEF SoleInv, SoleTables

\* And the events stored for a COMPLETED run are those it was judged on, no
\* more, so that Replay Diff compares what the oracle saw (store.go EventsForRun);
\* the runs that a reset left behind are again excepted, no others.
THEOREM SolePollerEvidenceIsExact ==
  ASSUME SolePoller, IdsNeverReused
  PROVE  Spec => []EvidenceIsExact
BY SoleInvariance, PTL DEF SoleInv, SoleTables
=============================================================================
