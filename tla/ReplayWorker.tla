---------------------------- MODULE ReplayWorker ----------------------------
(***************************************************************************)
(* Replay workers (cmd/replay-worker) driving runs of the shared store to  *)
(* a terminal status, beside the Core API handlers that create runs and    *)
(* reset the store.  A poller repeats: fail the stranded runs, list the    *)
(* CREATED ones, process the first that can be.  A one-shot worker is the  *)
(* same program started with -run-id: it processes one run and exits.      *)
(*                                                                         *)
(* Between two steps of a worker every other worker, the API, a lease      *)
(* timeout or a crash may act: a step is one store call with the code up   *)
(* to the next one.  The runner (replay.Runner) is an interface, modelled  *)
(* by the results Execute can return from it.                              *)
(***************************************************************************)
EXTENDS RunStore

CONSTANTS
  Pollers,        \* workers in polling mode
  OneShots,       \* workers started by hand with -run-id
  Results,        \* what the wired pack and runner may yield: subset of ExecResults
  EventsPerRun,   \* events one execution records
  MaxCrashes,     \* bound: worker crashes in a behaviour
  MaxManual,      \* bound: one-shot starts in a behaviour
  MaxResets,      \* bound: POST /v1/demo/reset in a behaviour
  MaxApiRestarts  \* bound: restarts of the Core API in a behaviour

Workers == Pollers \cup OneShots

\* Execute returned the run's own events, evaluated by the oracle afterwards ...
Observed == {"matched", "unmatched", "oracleError"}
\* ... or an error, before or after the runner was driven.
Refused == {"badDigest", "packInvalid", "invalidIntervention", "unsafe", "teardown", "foreignEvents",
            "noEvents", "runtimeError"}
ExecResults == Observed \cup Refused
Fates == ExecResults \cup {"none", "unauthorised", "fixtureMissing", "persistFailed"}

ASSUME WorkerAssumption ==
  /\ Pollers \cap OneShots = {}
  /\ Results \subseteq ExecResults
  /\ EventsPerRun \in Nat \ {0}
  /\ {MaxCrashes, MaxManual, MaxResets, MaxApiRestarts} \subseteq Nat

VARIABLES
  pc,        \* the store call each worker makes next
  orphans,   \* reclaimOrphans: expired runs still to fail, as read
  listed,    \* runPoll: listed ids not yet tried
  held,      \* processRun: the local copy "run"
  fate,      \* processRun: how the execution went
  stored,    \* processRun: events of this execution ingested so far
  emitted,   \* the process's IDGenerator: event ids allocated since it started
  nextRun,   \* Core API: the in-process counter of nextID
  posting,   \* Core API: the runs of the postRun handlers between GetCapsule and PutRun
  crashes, manual, apiRestarts, resets,   \* counters for the bounds
  execs      \* history: executions started per run row

workerVars == <<pc, orphans, listed, held, fate, stored, emitted>>
apiVars == <<nextRun, posting>>
boundVars == <<crashes, manual, apiRestarts, resets>>
vars == <<storeVars, workerVars, apiVars, boundVars, execs>>

Labels == {"down", "reclaim", "orphans", "get", "claim", "recheck", "authorize",
           "advance", "renew", "load", "execute", "ingest", "finish", "settle"}

\* Every variable keeps its type; what a worker may have stored is bounded by the
\* events its run produced.
TypeOK ==
  /\ StoreTypeOK
  /\ pc \in [Workers -> Labels]
  /\ orphans \in [Workers -> SUBSET Run]
  /\ listed \in [Workers -> SUBSET RunIds]
  /\ held \in [Workers -> Run]
  /\ fate \in [Workers -> Fates]
  /\ stored \in [Workers -> 0 .. EventsPerRun]
  /\ emitted \in [Workers -> Nat]
  /\ nextRun \in 0 .. MaxRun
  /\ posting \subseteq Run
  /\ crashes \in Nat /\ manual \in Nat /\ apiRestarts \in Nat /\ resets \in Nat
  /\ execs \in [RunIds -> Nat]

Init ==
  /\ StoreInit
  /\ pc = [w \in Workers |-> IF w \in Pollers THEN "reclaim" ELSE "down"]
  /\ orphans = [w \in Workers |-> {}]
  /\ listed = [w \in Workers |-> {}]
  /\ held = [w \in Workers |-> NoRun]
  /\ fate = [w \in Workers |-> "none"]
  /\ stored = [w \in Workers |-> 0]
  /\ emitted = [w \in Workers |-> 0]
  /\ nextRun = 0
  /\ posting = {}
  /\ crashes = 0 /\ manual = 0 /\ apiRestarts = 0 /\ resets = 0
  /\ execs = [r \in RunIds |-> 0]

-----------------------------------------------------------------------------
(* Control flow shared by the steps of processRun.                          *)

Goto(w, label) == pc' = [pc EXCEPT ![w] = label]

\* Mutant of Leave: the ingestion count survives the run.
LeaveStored(w, rest) ==
  /\ listed' = [listed EXCEPT ![w] = rest]
  /\ held' = [held EXCEPT ![w] = NoRun]
  /\ fate' = [fate EXCEPT ![w] = "none"]
  /\ UNCHANGED stored
  /\ Goto(w, IF rest # {} THEN "get" ELSE IF w \in Pollers THEN "reclaim" ELSE "down")

\* processRun is over and the ids in rest are still to try: none after a
\* success (break) or in one-shot mode, the remaining ones after an error.
Leave(w, rest) ==
  /\ listed' = [listed EXCEPT ![w] = rest]
  /\ held' = [held EXCEPT ![w] = NoRun]
  /\ fate' = [fate EXCEPT ![w] = "none"]
  /\ stored' = [stored EXCEPT ![w] = 0]
  /\ Goto(w, IF rest # {} THEN "get" ELSE IF w \in Pollers THEN "reclaim" ELSE "down")
Break(w) == Leave(w, {})
Continue(w, r) == Leave(w, listed[w] \ {r})

\* finalizeTerminal is next, with the error that f stands for.
Settle(w, f) ==
  /\ fate' = [fate EXCEPT ![w] = f]
  /\ Goto(w, "settle")

\* finalizeExecuteError and the other calls of finalizeBlocked and finalizeFailed.
Verdict(f) ==
  CASE f \in {"badDigest", "foreignEvents"} -> [status |-> "BLOCKED", error |-> "INTEGRITY_MISMATCH"]
    [] f = "packInvalid"    -> [status |-> "BLOCKED", error |-> "SANITIZATION_FAILED"]
    [] f = "unsafe"         -> [status |-> "BLOCKED", error |-> "DESTINATION_BLOCKED"]
    [] f = "teardown"       -> [status |-> "BLOCKED", error |-> "ISOLATION_VIOLATION"]
    [] f \in {"unauthorised", "invalidIntervention"} -> [status |-> "BLOCKED", error |-> "INTERVENTION_INVALID"]
    [] f = "fixtureMissing" -> [status |-> "FAILED",  error |-> "FIXTURE_MISSING"]
    [] f = "oracleError"    -> [status |-> "FAILED",  error |-> "ORACLE_UNAVAILABLE"]
    [] OTHER                -> [status |-> "FAILED",  error |-> "INTERNAL_FAILURE"]

\* deriveOutcome.
OutcomeFor(type, f) ==
  IF type = "WHAT_IF"
    THEN IF f = "matched" THEN "UNCHANGED" ELSE "MITIGATED"
    ELSE IF f = "matched" THEN "REPRODUCED" ELSE "NOT_REPRODUCED"

\* The event ids of the execution in progress: the last EventsPerRun allocated,
\* under the run's namespace.
OwnEvent(w, i) == <<held[w].id, emitted[w] - EventsPerRun + i>>
OwnEvents(w) == {OwnEvent(w, i) : i \in 1 .. EventsPerRun}

-----------------------------------------------------------------------------
(* runPoll *)

\* reclaimOrphans: the query.
Reclaim(w) ==
  /\ pc[w] = "reclaim"
  /\ orphans' = [orphans EXCEPT ![w] = ExpiredRuns]
  /\ Goto(w, "orphans")
  /\ UNCHANGED <<storeVars, listed, held, fate, stored, emitted, apiVars, boundVars, execs>>

\* FinalizeOrphan: FAILED, everything else as it was read.  It validates the
\* target before the store does; either refusal is skipped by the loop.
OrphanTarget(run) == [run EXCEPT !.status = "FAILED", !.error = "INTERNAL_FAILURE"]

\* Mutant of FailOrphan: a run that cannot be failed is tried again.
RetryOrphan(w) ==
  /\ pc[w] = "orphans"
  /\ \E run \in orphans[w] :
       /\ \A other \in orphans[w] : run.id <= other.id
       /\ TransitionRun(run.status, OrphanTarget(run))
       /\ orphans' = [orphans EXCEPT ![w] =
             IF TransitionAccepts(run.status, OrphanTarget(run)) THEN @ \ {run} ELSE @]
  /\ UNCHANGED <<lease, events, compiled, epoch, left, pc, listed, held, fate, stored,
                 emitted, apiVars, boundVars, execs>>

FailOrphan(w) ==
  /\ pc[w] = "orphans"
  /\ \E run \in orphans[w] :
       /\ \A other \in orphans[w] : run.id <= other.id
       /\ TransitionRun(run.status, OrphanTarget(run))
       /\ orphans' = [orphans EXCEPT ![w] = @ \ {run}]
  /\ UNCHANGED <<lease, events, compiled, epoch, left, pc, listed, held, fate, stored,
                 emitted, apiVars, boundVars, execs>>

\* ListRuns(CREATED), or the pause when there is none.
List(w) ==
  /\ pc[w] = "orphans"
  /\ orphans[w] = {}
  /\ listed' = [listed EXCEPT ![w] = CreatedRuns]
  /\ Goto(w, IF CreatedRuns = {} THEN "reclaim" ELSE "get")
  /\ UNCHANGED <<storeVars, orphans, held, fate, stored, emitted, apiVars, boundVars, execs>>

-----------------------------------------------------------------------------
(* processRun *)

\* GetRun of the next listed run, in any order, and the branch on its status.
GetRun(w) ==
  /\ pc[w] = "get"
  /\ \E r \in listed[w] :
       LET run == runs[r]
       IN \/ run.status = "ABSENT"  /\ Continue(w, r)
          \/ run.status \in Terminal /\ Break(w)
          \/ /\ run.status \in {"CREATED", "VALIDATING", "RUNNING"}
             /\ held' = [held EXCEPT ![w] = run]
             /\ Goto(w, CASE run.status = "CREATED" -> "claim"
                          [] run.status = "RUNNING" -> "load"
                          [] OTHER -> IF run.type = "WHAT_IF" THEN "authorize" ELSE "advance")
             /\ UNCHANGED <<listed, fate, stored>>
  /\ UNCHANGED <<storeVars, orphans, emitted, apiVars, boundVars, execs>>

Claim(w) ==
  /\ pc[w] = "claim"
  /\ ClaimRun(held[w].id)
  /\ IF ClaimAccepts(held[w].id)
       THEN /\ held' = [held EXCEPT ![w] = runs'[held[w].id]]
            /\ Goto(w, IF runs[held[w].id].type = "WHAT_IF" THEN "authorize" ELSE "advance")
       ELSE Goto(w, "recheck") /\ UNCHANGED held
  /\ UNCHANGED <<events, compiled, epoch, left, orphans, listed, fate, stored, emitted,
                 apiVars, boundVars, execs>>

\* The claim failed: another worker has it (skip), or the error is returned.
Recheck(w) ==
  /\ pc[w] = "recheck"
  /\ IF runs[held[w].id].status \in {"ABSENT", "CREATED"} THEN Continue(w, held[w].id) ELSE Break(w)
  /\ UNCHANGED <<storeVars, orphans, emitted, apiVars, boundVars, execs>>

\* authorizeBaseline: the what-if's baseline is read again, at execution time.
Authorize(w) ==
  /\ pc[w] = "authorize"
  /\ IF EligibleBaseline(runs[held[w].baseline], held[w])
       THEN Goto(w, "advance") /\ UNCHANGED fate
       ELSE Settle(w, "unauthorised")
  /\ UNCHANGED <<storeVars, orphans, listed, held, stored, emitted, apiVars, boundVars, execs>>

\* AdvanceRun(RUNNING).
Advance(w) ==
  /\ pc[w] = "advance"
  /\ LET next == [held[w] EXCEPT !.status = "RUNNING", !.started = TRUE]
     IN /\ TransitionRun(held[w].status, next)
        /\ IF TransitionAccepts(held[w].status, next)
             THEN /\ held' = [held EXCEPT ![w] = next]
                  /\ Goto(w, "renew")
                  /\ UNCHANGED <<listed, fate, stored>>
             ELSE Continue(w, held[w].id)
  /\ UNCHANGED <<lease, events, compiled, epoch, left, orphans, emitted, apiVars, boundVars, execs>>

Renew(w) ==
  /\ pc[w] = "renew"
  /\ RenewLease(held[w].id)
  /\ Goto(w, "load")
  /\ UNCHANGED <<runs, events, compiled, epoch, left, orphans, listed, held, fate, stored,
                 emitted, apiVars, boundVars, execs>>

\* GetCapsule by id.
Load(w) ==
  /\ pc[w] = "load"
  /\ IF held[w].capsule \in compiled
       THEN Goto(w, "execute") /\ UNCHANGED fate
       ELSE Settle(w, "fixtureMissing")
  /\ UNCHANGED <<storeVars, orphans, listed, held, stored, emitted, apiVars, boundVars, execs>>

\* The event ids the runner took from the generator: none when it was not started.
Allocated(res) ==
  CASE res \in Observed                   -> {EventsPerRun}
    [] res \in {"badDigest", "packInvalid", "invalidIntervention"} -> {0}
    [] OTHER                              -> {0, EventsPerRun}

\* Execute: the live replay, in memory.  Nothing is recorded in the store yet.
Execute(w) ==
  /\ pc[w] = "execute"
  /\ \E res \in Results :
       /\ res = "invalidIntervention" => held[w].type = "WHAT_IF"
       /\ \E n \in Allocated(res) : emitted' = [emitted EXCEPT ![w] = @ + n]
       /\ fate' = [fate EXCEPT ![w] = res]
       /\ Goto(w, IF res \in Observed THEN "ingest" ELSE "settle")
  /\ execs' = [execs EXCEPT ![held[w].id] = @ + 1]
  /\ UNCHANGED <<storeVars, orphans, listed, held, stored, apiVars, boundVars>>

\* One IngestEvent; after the last one the oracle is evaluated.
Ingest(w) ==
  /\ pc[w] = "ingest"
  /\ LET e == OwnEvent(w, stored[w] + 1)
         done == stored[w] + 1 = EventsPerRun
     IN IF IngestAccepts(e)
          THEN /\ IngestEvent(e)
               /\ stored' = [stored EXCEPT ![w] = @ + 1]
               /\ Goto(w, IF ~done THEN "ingest"
                          ELSE IF fate[w] = "oracleError" THEN "settle" ELSE "finish")
               /\ UNCHANGED fate
          ELSE Settle(w, "persistFailed") /\ UNCHANGED <<events, stored>>
  /\ UNCHANGED <<runs, lease, compiled, epoch, left, orphans, listed, held, emitted,
                 apiVars, boundVars, execs>>

\* FinalizeRun with the oracle's result over the events Execute returned.
CompletedTarget(w) ==
  [held[w] EXCEPT !.status = "COMPLETED", !.isolated = TRUE, !.evidence = OwnEvents(w),
                  !.outcome = OutcomeFor(held[w].type, fate[w])]
Finish(w) ==
  /\ pc[w] = "finish"
  /\ TransitionRun(held[w].status, CompletedTarget(w))
  /\ IF TransitionAccepts(held[w].status, CompletedTarget(w)) THEN Break(w) ELSE Continue(w, held[w].id)
  /\ UNCHANGED <<lease, events, compiled, epoch, left, orphans, emitted, apiVars, boundVars, execs>>

\* finalizeTerminal: Validate, then the transition; either error is returned.
SettledTarget(w) ==
  [held[w] EXCEPT !.status = Verdict(fate[w]).status, !.error = Verdict(fate[w]).error]
SettleRun(w) ==
  /\ pc[w] = "settle"
  /\ TransitionRun(held[w].status, SettledTarget(w))
  /\ IF TransitionAccepts(held[w].status, SettledTarget(w)) THEN Break(w) ELSE Continue(w, held[w].id)
  /\ UNCHANGED <<lease, events, compiled, epoch, left, orphans, emitted, apiVars, boundVars, execs>>

-----------------------------------------------------------------------------
(* The processes themselves, and time.                                      *)

\* A process dies between two steps: its memory is gone, the store is not told.
Crash(w) ==
  /\ pc[w] # "down"
  /\ crashes < MaxCrashes
  /\ crashes' = crashes + 1
  /\ orphans' = [orphans EXCEPT ![w] = {}]
  /\ listed' = [listed EXCEPT ![w] = {}]
  /\ held' = [held EXCEPT ![w] = NoRun]
  /\ fate' = [fate EXCEPT ![w] = "none"]
  /\ stored' = [stored EXCEPT ![w] = 0]
  /\ emitted' = [emitted EXCEPT ![w] = 0]   \* the next process has a new IDGenerator
  /\ Goto(w, "down")
  /\ UNCHANGED <<storeVars, apiVars, manual, apiRestarts, resets, execs>>

Restart(w) ==
  /\ w \in Pollers
  /\ pc[w] = "down"
  /\ Goto(w, "reclaim")
  /\ UNCHANGED <<storeVars, orphans, listed, held, fate, stored, emitted, apiVars,
                 boundVars, execs>>

RunOnce(w, r) ==
  /\ w \in OneShots
  /\ pc[w] = "down"
  /\ manual < MaxManual
  /\ manual' = manual + 1
  /\ emitted' = [emitted EXCEPT ![w] = 0]
  /\ listed' = [listed EXCEPT ![w] = {r}]
  /\ Goto(w, "get")
  /\ UNCHANGED <<storeVars, orphans, held, fate, stored, apiVars, crashes, apiRestarts, resets, execs>>

LeaseExpires(r) ==
  /\ lease[r] = "live"
  /\ lease' = [lease EXCEPT ![r] = "expired"]
  /\ UNCHANGED <<runs, events, compiled, epoch, left, workerVars, apiVars, boundVars, execs>>

-----------------------------------------------------------------------------
(* The Core API beside the workers.                                         *)

\* postCapsule of an incident without a capsule.
PostCapsule(c) ==
  /\ c \notin compiled
  /\ compiled' = compiled \cup {c}
  /\ UNCHANGED <<runs, lease, events, epoch, left, workerVars, apiVars, boundVars, execs>>

\* postRun up to PutRun: the capsule is read and an id allocated.
PostRun(type, b, c) ==
  /\ c \in compiled
  /\ type = "WHAT_IF" <=> b # 0
  /\ nextRun < MaxRun
  /\ nextRun' = nextRun + 1
  /\ posting' = posting \cup {NewRun(nextRun', type, b, c)}
  /\ UNCHANGED <<storeVars, workerVars, boundVars, execs>>

\* postRun's PutRun.  A refusal is answered and the id stays allocated.
PutPosted(run) ==
  /\ PutRun(run)
  /\ execs' = IF PutRunAccepts(run) THEN [execs EXCEPT ![run.id] = 0] ELSE execs
  /\ posting' = posting \ {run}
  /\ UNCHANGED <<events, compiled, epoch, left, workerVars, nextRun, boundVars>>

\* Which capsules came late enough to be left behind is open: a reset may take any time.
PostReset ==
  /\ resets < MaxResets
  /\ resets' = resets + 1
  /\ \E late \in SUBSET compiled : Reset(late)
  /\ UNCHANGED <<workerVars, apiVars, crashes, manual, apiRestarts, execs>>

\* The API process is restarted; requests in flight are lost.
ApiRestart ==
  /\ apiRestarts < MaxApiRestarts
  /\ apiRestarts' = apiRestarts + 1
  /\ nextRun' = 0
  /\ posting' = {}
  /\ UNCHANGED <<storeVars, workerVars, crashes, manual, resets, execs>>

-----------------------------------------------------------------------------
WorkerStep(w) ==
  \/ Reclaim(w) \/ FailOrphan(w) \/ List(w)
  \/ GetRun(w) \/ Claim(w) \/ Recheck(w) \/ Authorize(w) \/ Advance(w) \/ Renew(w)
  \/ Load(w) \/ Execute(w) \/ Ingest(w) \/ Finish(w) \/ SettleRun(w)

ApiStep ==
  \/ \E c \in Capsules : PostCapsule(c)
  \/ \E c \in Capsules : PostRun("BASELINE", 0, c)
  \/ \E c \in Capsules, b \in RunIds : PostRun("WHAT_IF", b, c)
  \/ \E run \in posting : PutPosted(run)
  \/ PostReset
  \/ ApiRestart

Next ==
  \/ \E w \in Workers : WorkerStep(w)
  \/ \E w \in Workers : Crash(w)
  \/ \E w \in Workers : Restart(w)
  \/ \E w \in Workers, r \in RunIds : RunOnce(w, r)
  \/ \E r \in RunIds : LeaseExpires(r)
  \/ ApiStep

Spec == Init /\ [][Next]_vars

\* A live process keeps executing its loop and time passes; nobody has to
\* crash, restart a process by hand, or call the API.
FairSpec ==
  /\ Spec
  /\ \A w \in Workers : WF_vars(WorkerStep(w))
  /\ \A r \in RunIds : WF_vars(LeaseExpires(r))
=============================================================================
