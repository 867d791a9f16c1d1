------------------------------- MODULE RunStore -------------------------------
(***************************************************************************)
(* The run side of the Core repository (internal/core: PostgresRepository, *)
(* and Store, its in-memory twin): capsules, replay runs with their lease, *)
(* and the replay events recorded for a run.  An operation is one SQL      *)
(* statement, or a transaction that takes the run's row FOR UPDATE, and so *)
(* one atomic step of the modules that use it.  Not so Reset: a            *)
(* transaction of six DELETEs, each of which removes what was committed    *)
(* when it began.  What it leaves behind depends on when they began, and   *)
(* Reset below has that choice for a parameter; its one step is the moment *)
(* the last DELETE, of the events, begins.                                 *)
(*                                                                         *)
(* Data abstraction.  A run keeps the fields that guards read: the         *)
(* intervention is implied by the run type, execution id and trial number  *)
(* by the run id, completed_at by a terminal status (every writer of a     *)
(* terminal status sets it).  A capsule digest covers created_at, so a     *)
(* capsule compiled again after a reset has another digest: a digest is    *)
(* the pair of the capsule id and the number of times it was deleted.      *)
(***************************************************************************)
EXTENDS Integers, FiniteSets

CONSTANTS
  MaxRun,     \* bound: run ids are 1..MaxRun ("run-1", "run-2", ...)
  Capsules    \* capsule ids ("cap-<incident>-1")

ASSUME MaxRunAssumption == MaxRun \in Nat

VARIABLES
  runs,       \* table replay_runs: run id -> row payload, NoRun when absent
  lease,      \* column lease_until: "null", "live" or "expired" per run id
  events,     \* table execution_events, rows with a replay_run_id: set of event ids
  compiled,   \* table replay_capsules: the capsule ids present
  epoch,      \* how often resets have deleted each capsule; dates the digests
  left        \* history: the runs that the last reset left behind

storeVars == <<runs, lease, events, compiled, epoch, left>>

RunIds == 1 .. MaxRun

Terminal == {"COMPLETED", "FAILED", "BLOCKED"}
RunStatus == {"ABSENT", "CREATED", "VALIDATING", "RUNNING"} \cup Terminal

Outcomes == [BASELINE |-> {"REPRODUCED", "NOT_REPRODUCED", "INCONCLUSIVE"},
             WHAT_IF  |-> {"MITIGATED", "UNCHANGED", "INCONCLUSIVE"}]

IsolationErrors == {"ISOLATION_VIOLATION", "DESTINATION_BLOCKED"}
ErrorCodes == IsolationErrors \cup
  {"INTERNAL_FAILURE", "FIXTURE_MISSING", "ORACLE_UNAVAILABLE",
   "INTERVENTION_INVALID", "INTEGRITY_MISMATCH", "SANITIZATION_FAILED"}

\* An event id is "evt-<run>-<component>-<n>": the run and the emitter's counter.
EventIds == RunIds \X Nat

Run == [id        : 0 .. MaxRun,
        type      : {"BASELINE", "WHAT_IF"},
        baseline  : 0 .. MaxRun,                 \* baseline_run_id, 0 when omitted
        capsule   : Capsules \cup {"none"},      \* capsule_id
        digest    : Nat,                         \* epoch half of capsule_hash
        status    : RunStatus,
        started   : BOOLEAN,                     \* started_at is set
        outcome   : {"NONE"} \cup Outcomes.BASELINE \cup Outcomes.WHAT_IF,
        isolated  : BOOLEAN,                     \* isolation_evidence with verdict PASS
        evidence  : SUBSET EventIds,             \* events the oracle result was computed from
        error     : {"NONE"} \cup ErrorCodes]

NoRun == [id |-> 0, type |-> "BASELINE", baseline |-> 0, capsule |-> "none",
          digest |-> 0, status |-> "ABSENT", started |-> FALSE, outcome |-> "NONE",
          isolated |-> FALSE, evidence |-> {}, error |-> "NONE"]

\* NewRun: a CREATED run over the capsule as it is now.
NewRun(r, type, b, c) ==
  [NoRun EXCEPT !.id = r, !.type = type, !.baseline = b, !.capsule = c,
                !.digest = epoch[c], !.status = "CREATED"]

\* Every table holds what its columns and the payloads allow.
StoreTypeOK ==
  /\ runs \in [RunIds -> Run]
  /\ lease \in [RunIds -> {"null", "live", "expired"}]
  /\ events \subseteq EventIds
  /\ compiled \subseteq Capsules
  /\ epoch \in [Capsules -> Nat]
  /\ left \subseteq RunIds

StoreInit ==
  /\ runs = [r \in RunIds |-> NoRun]
  /\ lease = [r \in RunIds |-> "null"]
  /\ events = {}
  /\ compiled = {}
  /\ epoch = [c \in Capsules |-> 0]
  /\ left = {}

-----------------------------------------------------------------------------
(* Pure rules of the contract. *)

\* CanTransitionReplayRun, and its copy legalTransition beside the SQL.
LegalTransition(from, to) ==
  \/ from = "CREATED"    /\ to = "VALIDATING"
  \/ from = "VALIDATING" /\ to \in {"RUNNING", "BLOCKED", "FAILED"}
  \/ from = "RUNNING"    /\ to \in Terminal

\* ReplayRun.Validate on the fields kept here.
RunValid(run) ==
  /\ run.type = "WHAT_IF" <=> run.baseline # 0
  /\ run.status \in {"CREATED", "VALIDATING"} => ~run.started
  /\ run.status \in {"RUNNING", "COMPLETED", "FAILED"} => run.started
  /\ run.status = "COMPLETED" => /\ run.outcome \in Outcomes[run.type]
                                 /\ run.isolated
                                 /\ run.error = "NONE"
  /\ run.status # "COMPLETED" => run.outcome = "NONE"
  /\ run.status \in {"FAILED", "BLOCKED"} <=> run.error # "NONE"
  /\ run.status = "BLOCKED" /\ run.error \in IsolationErrors => run.isolated

\* The fields TransitionRun refuses to change.
SameIdentity(a, b) ==
  /\ a.type = b.type
  /\ a.baseline = b.baseline
  /\ a.capsule = b.capsule
  /\ a.digest = b.digest

\* Mutant of EligibleBaseline: the capsule's content is not compared.
AnyContentBaseline(b, run) ==
  /\ b.type = "BASELINE" /\ b.status = "COMPLETED" /\ b.outcome = "REPRODUCED"
  /\ b.isolated
  /\ b.capsule = run.capsule

\* The stored baseline a what-if may be created from.
EligibleBaseline(b, run) ==
  /\ b.type = "BASELINE"
  /\ b.status = "COMPLETED"
  /\ b.outcome = "REPRODUCED"
  /\ b.isolated
  /\ b.capsule = run.capsule
  /\ b.digest = run.digest

-----------------------------------------------------------------------------
(* Operations.  A refused call leaves every table unchanged; the caller     *)
(* tests the same predicate to know which answer it got.                    *)

\* Mutant of PutRunAccepts: an upsert.
PutRunOverwrites(run) ==
  /\ RunValid(run)
  /\ run.capsule \in compiled
  /\ run.type = "WHAT_IF" => EligibleBaseline(runs[run.baseline], run)

\* run_id is the primary key, capsule_id a foreign key.
PutRunAccepts(run) ==
  /\ RunValid(run)
  /\ run.capsule \in compiled
  /\ runs[run.id].status = "ABSENT"
  /\ run.type = "WHAT_IF" => EligibleBaseline(runs[run.baseline], run)

\* PutRun inserts the row without a lease.
PutRun(run) ==
  IF PutRunAccepts(run)
    THEN /\ runs' = [runs EXCEPT ![run.id] = run]
         /\ lease' = [lease EXCEPT ![run.id] = "null"]
    ELSE UNCHANGED <<runs, lease>>

\* Mutants of TransitionAccepts: the stored status is not compared; a missing row
\* is inserted.
TransitionUnchecked(from, run) ==
  /\ LegalTransition(from, run.status) /\ RunValid(run)
  /\ runs[run.id].status # "ABSENT" /\ SameIdentity(runs[run.id], run)
TransitionUpserts(from, run) ==
  /\ LegalTransition(from, run.status) /\ RunValid(run)
  /\ \/ runs[run.id].status = "ABSENT"
     \/ runs[run.id].status = from /\ SameIdentity(runs[run.id], run)

TransitionAccepts(from, run) ==
  /\ LegalTransition(from, run.status)
  /\ RunValid(run)
  /\ runs[run.id].status = from
  /\ SameIdentity(runs[run.id], run)

\* TransitionRun replaces the payload; lease_until is not in its UPDATE.
TransitionRun(from, run) ==
  runs' = IF TransitionAccepts(from, run)
            THEN [runs EXCEPT ![run.id] = run]
            ELSE runs

\* Mutant of ClaimAccepts: any run can be claimed.
ClaimsAny(r) == runs[r].status # "ABSENT"

ClaimAccepts(r) == runs[r].status = "CREATED"

\* ClaimRun: CREATED -> VALIDATING and a lease, in one UPDATE.
ClaimRun(r) ==
  IF ClaimAccepts(r)
    THEN /\ runs' = [runs EXCEPT ![r].status = "VALIDATING"]
         /\ lease' = [lease EXCEPT ![r] = "live"]
    ELSE UNCHANGED <<runs, lease>>

\* RenewLease checks neither the status nor the owner, only that the row exists.
RenewLease(r) ==
  lease' = IF runs[r].status # "ABSENT" THEN [lease EXCEPT ![r] = "live"] ELSE lease

\* Mutant of ExpiredRuns: a lease once granted is never looked at again.
NeverLeasedRuns ==
  {runs[r] : r \in {x \in RunIds : /\ runs[x].status \in {"VALIDATING", "RUNNING"}
                                   /\ lease[x] = "null"}}

\* ReclaimExpiredRuns: a snapshot of the stranded runs; nothing is written.
ExpiredRuns ==
  {runs[r] : r \in {x \in RunIds : /\ runs[x].status \in {"VALIDATING", "RUNNING"}
                                   /\ lease[x] # "live"}}

\* Mutant of CreatedRuns: orphans are listed again.
UnfinishedRuns == {r \in RunIds : runs[r].status \notin Terminal \cup {"ABSENT"}}

\* ListRuns(CREATED), as ids: the caller reads nothing else of the rows.  (It
\* sorts them as text, "run-10" before "run-2"; the caller tries them in any order.)
CreatedRuns == {r \in RunIds : runs[r].status = "CREATED"}

\* EventsForRun: selected by replay_run_id alone.
EventsForRun(r) == {e \in events : e[1] = r}

\* IngestEvent: event_id is the primary key.
IngestAccepts(e) == e \notin events
IngestEvent(e) == events' = events \cup {e}

\* The runs a reset leaves behind: those of the capsules in late.
Kept(late) == {r \in RunIds : runs[r].capsule \in late}

\* Reset, in foreign-key order.  A capsule outlives it, with all its runs, if its
\* incident was committed after the DELETE of the incidents had begun: an older
\* incident is deleted, and the foreign keys let no row outlive the one it refers
\* to (the transaction is rolled back, or the insert refused).  The events have
\* no foreign key and are deleted last, those of the runs left behind included.
Reset(late) ==
  /\ runs' = [r \in RunIds |-> IF r \in Kept(late) THEN runs[r] ELSE NoRun]
  /\ lease' = [r \in RunIds |-> IF r \in Kept(late) THEN lease[r] ELSE "null"]
  /\ events' = {}
  /\ compiled' = late
  /\ epoch' = [c \in Capsules |-> IF c \in compiled \ late THEN epoch[c] + 1 ELSE epoch[c]]
  /\ left' = Kept(late)
=============================================================================
