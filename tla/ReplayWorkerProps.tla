-------------------------- MODULE ReplayWorkerProps --------------------------
(* What must hold of ReplayWorker: invariants, action properties, liveness,  *)
(* and the refinement of RunLifecycle.                                       *)
EXTENDS ReplayWorker

\* A what-if run exists, in whatever status, only beside its baseline, which is
\* COMPLETED, REPRODUCED, isolated, and of the same capsule content: PutRun's
\* gate cannot be overtaken by a later transition, a reset, a re-used run id or
\* a worker acting on an old copy (store.go PutRun, main.go authorizeBaseline).
WhatIfGate ==
  \A r \in RunIds : runs[r].type = "WHAT_IF" =>
    LET baseline == runs[runs[r].baseline]
    IN /\ baseline.type = "BASELINE" /\ baseline.status = "COMPLETED"
       /\ baseline.outcome = "REPRODUCED" /\ baseline.isolated
       /\ baseline.capsule = runs[r].capsule /\ baseline.digest = runs[r].digest

\* Only contract-valid rows are stored, each under its own id, a handler posts
\* CREATED runs only, and a worker that processes a run knows its id, holds ids
\* for all events of the execution and ingests no event past the last one: what
\* the guards of the store and the control flow of processRun leave implicit.
RowsWellFormed ==
  \A r \in RunIds :
    \/ runs[r] = NoRun
    \/ runs[r].status # "ABSENT" /\ runs[r].id = r /\ RunValid(runs[r])
PostingWellFormed ==
  \A run \in posting : run.id \in RunIds /\ run.status = "CREATED"
WorkerWellFormed(w) ==
  /\ pc[w] \notin {"down", "reclaim", "orphans", "get"} => held[w].id \in RunIds
  /\ pc[w] \in {"ingest", "finish"} => emitted[w] >= EventsPerRun
  /\ pc[w] \notin {"ingest", "finish", "settle"} => stored[w] = 0
  /\ pc[w] = "ingest" => stored[w] < EventsPerRun
WellFormed ==
  RowsWellFormed /\ PostingWellFormed /\ \A w \in Workers : WorkerWellFormed(w)

\* The verdict of a COMPLETED run can be retraced: each event its oracle result
\* was computed from is in the store, even if workers crash between the single
\* IngestEvent calls, collide, or go on after a reset (main.go processRun); unless
\* the reset left the run behind: its six DELETEs end with the events (postgres.go
\* Reset), so what such a run had recorded is gone while its row remains.
EvidencePersisted ==
  \A r \in RunIds \ left : runs[r].status = "COMPLETED" =>
    runs[r].evidence # {} /\ runs[r].evidence \subseteq events

\* EventsForRun of a COMPLETED run returns exactly the events it was judged on,
\* nothing of an aborted or a second execution: Replay Diff aligns those
\* (store.go "only the events the run itself observed during replay"); again but
\* for runs a reset left behind.
EvidenceIsExact ==
  \A r \in RunIds \ left : runs[r].status = "COMPLETED" =>
    EventsForRun(r) = runs[r].evidence

\* No run is executed twice (main.go "Replaying never re-runs an
\* already-claimed run").
SingleExecution == \A r \in RunIds : execs[r] <= 1

\* A terminal run never changes, it can only be deleted by a reset: a worker
\* whose lease expired cannot overwrite the FAILED of the one that reclaimed its
\* run, nor a reclaim the result of a worker that was merely slow.
TerminalIsFinal ==
  [][\A r \in RunIds : runs[r].status \in Terminal =>
       runs'[r] = runs[r] \/ runs'[r].status = "ABSENT"]_vars

\* What RunLifecycle shows of a row.
LifeOf(run) == [status |-> run.status, verdict |-> run.outcome, baseline |-> run.baseline]
Lifecycle == INSTANCE RunLifecycle WITH
  Ids <- RunIds,
  life <- [r \in RunIds |-> LifeOf(runs[r])]

\* The store under any number of workers implements the contract's lifecycle.
ImplementsLifecycle == Lifecycle!Spec

\* Some poller is alive for good; after a crash it has been restarted.
SomePollerLives == \E w \in Pollers : <>[](pc[w] # "down")

\* A CREATED run is taken up as long as some poller lives, whatever happens to
\* the runs before it in the list (runPoll continues after an error).
CreatedIsTaken ==
  SomePollerLives => \A r \in RunIds : []<>(runs[r].status # "CREATED")

\* A RUNNING run does not stay so: its worker finishes it, or dies and a
\* surviving or restarted worker fails it once the lease has expired (lease.go).
RunningSettles ==
  SomePollerLives => \A r \in RunIds : []<>(runs[r].status # "RUNNING")

\* The same for a run whose worker died before the runtime started
\* (004_replay_lease.sql "can be recovered without re-executing it").
ValidatingSettles ==
  \A r \in RunIds : runs[r].status = "VALIDATING" ~> runs[r].status # "VALIDATING"
=============================================================================
