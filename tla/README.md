# CausaLens: TLA+ models, TLC checks and TLAPS proofs

CausaLens captures a distributed execution, detects a failure in it with an
oracle, compiles the evidence into a *replay capsule*, replays the capsule in
isolation (a *baseline* run that must reproduce the failure, then *what-if* runs
under an intervention) and compares the runs.  This directory models the parts
of it in which something can go wrong between two steps, checks small instances
with TLC and proves the central results with TLAPS for instances of any size.

## 1. The system

| Component | Code | State it keeps | Operations | Talks to |
|---|---|---|---|---|
| Run store | `internal/core/{postgres,store,lease}.go` | tables of events, incidents, graphs, capsules, runs (status, payload, `lease_until`), diffs | IngestEvent, PutIncident, PutCapsule, PutRun, ClaimRun, RenewLease, ReclaimExpiredRuns, TransitionRun, PutDiff, queries, Reset | everybody, through SQL |
| Replay worker | `cmd/replay-worker`, `internal/replay` | the run it holds, the list it works through, an event id counter | poll: fail orphans, list CREATED, process one; `-run-id`: process one | run store, runner |
| Core API | `cmd/core-api/main.go` | an id counter | POST events, capsules, runs, diffs, reset; GETs | run store |
| Incident detection | `cmd/core-api/detect.go` | none | after every ingested event: read the execution, evaluate the oracle, store incident and graph | run store, oracle |
| Checkout pack | `internal/systempack/checkout` | none | failure oracle, normalisation, interventions | pure |
| Graph, differential | `internal/graph`, `internal/differential` | none | timeline order, first divergence | pure |
| Capsule compiler | `internal/capsule` | none | compile, digest, verify | pure |
| Demo services | `cmd/demo-{gateway,checkout,payment,ledger}` | ids, timeouts, payment latency, ledger effects | checkout with timeout and retry, authorize, commit, reset | each other over HTTP; events to the Core API |
| Capture | `internal/capture` | event ids, sequences | Record, Emit | Core API |
| Command Center | `web/src/features` | panels of the view, a generation counter | compile, start baseline / what-if, diff, reset, trigger | Core API, gateway |

**What is hard.**  Any number of workers, started by polling or by hand, share the
store and nothing else.  Each of their steps is one store call; between two calls
every other worker, the API and the clock may act.  A worker may die between any
two calls; the store learns of it only when a lease runs out, and a lease may also
run out under a live worker.  A run is created by two API calls' worth of store
access, executed from a copy, its events are stored one by one, and a demo reset
may empty the store at any point.  The hazards are listed, each at its line, in
`PROJECT.json`.

**What makes the components correct.**
- *Run store and workers*: one execution per run; a terminal run is final; a
  verdict is backed by exactly the stored events it was computed from; a what-if
  stands beside a reproduced baseline of the same content; every run is taken up,
  and none is stranded.
- *Detection*: an incident exists exactly for the executions whose evidence matches
  the oracle, and its evidence is in the store.
- *Demo services*: the faulted checkout commits twice, the healthy one once, and
  neither influences the other.
- *Pure algorithms*: a total, deterministic order that respects the causal edges; the
  first divergence is the first one.
- *Command Center*: nothing from before a reset or another selection shows up after it.

## 2. Modules

| Module | Role |
|---|---|
| `RunStore` | the tables and the store's operations on runs, with the contract's rules (`LegalTransition`, `RunValid`, `SameIdentity`, `EligibleBaseline`) |
| `ReplayWorker` | workers, Core API handlers, crashes and time over `RunStore`; `Spec`, `FairSpec` |
| `ReplayWorkerProps` | what must hold of it, and the refinement mapping |
| `RunLifecycle` | the abstract specification: the contract's life of a run |
| `ReplayWorkerProofs` | the theorems |
| `MCReplayWorker` | result sets for the TLC instances |
| `DemoCheckout` | the demo services, capture and incident detection: requests, attempts, the event store, incidents |
| `DemoCheckoutProps` | what must hold of it, and the refinement mapping |
| `Detection` | the abstract specification: effects are committed, an incident is raised once and for two of them |
| `DemoCheckoutProofs` | its invariant, earned incidents, and the refinement |
| `DemoReplyProofs` | answers and the incidents they promise; the healthy control |
| `DemoGraphProofs` | the graph of an incident |
| `MCDemoCheckout` | execution ids for the TLC instances |
| `Timeline` | `internal/graph`: `BuildNodes` as a machine that validates, selects one event per turn and returns; `Order`; the cycle search |
| `TimelineProps` | what must hold of a timeline, and the refinement mapping |
| `LinearExtension` | the abstract specification: items come out one at a time, each after all it depends on, none left out |
| `TimelineProofs` | its theorems |
| `RunDiff` | `POST /v1/diffs` over `Timeline`: the reads, the two timelines, the packs' alignments, the divergence and `PutDiff`, beside the worker and a reset |
| `RunDiffProps` | what must hold of a stored diff |
| `RunDiffProofs` | its theorems, and those of `TimelineProofs` carried over to the timelines of a diff |
| `MCRunDiff` | the executions the replay runner records, and small graphs |
| `CoreApi` | every handler that writes as its SQL statements, and the reset as its six `DELETE`s, on PostgreSQL at READ COMMITTED |
| `CoreApiProps` | what must hold of the store and the reset |
| `CoreApiProofs` | its theorems |
| `CommandCenter` | the reducer, the generation token and the asynchronous flows of the web application |
| `CommandCenterProps` | what must hold of it |
| `CommandCenterProofs` | its theorems |

### RunStore
A row keeps the fields that some guard reads; the rest of the payload follows from
them (see the module's header).  A capsule's digest covers `created_at`, so a capsule
compiled again after a reset has the same id and another digest: `digest` is the
number of resets at compilation.  `lease` is `lease_until` against the clock: `null`,
`live` or `expired`.  An event id is the pair of the run that namespaces it
(`replaySink.Emit`) and the emitter's counter.  Each operation but `Reset` is one SQL
statement, or one transaction that holds the row `FOR UPDATE`, hence one atomic step.

`Reset` is a transaction of six `DELETE`s at READ COMMITTED, each of which removes what was
committed when it began: diffs, runs, capsules, graphs, incidents, events.  A capsule and its
runs outlive it if their incident was committed after the `DELETE` of the incidents had begun (an
older incident is deleted, and the foreign keys roll the reset back, or refuse the insertion,
where a row would outlive what it refers to).  The events are deleted last and
have no foreign key, so what such runs have recorded by then is gone.  `RunStore.Reset(late)` is
this transaction as one step, at the moment its last `DELETE` begins, with the surviving capsules
`late` as a free choice; `left` remembers their runs.  Nothing is lost by the one step: what the
earlier `DELETE`s remove stays visible to others until the COMMIT, but whoever depends on it
commits before the moment or waits for the COMMIT, and any subset for `late` is more than the
real transaction can leave.  That one step is right for the lifecycle is not assumed: `CoreApi` has
the six statements one by one, and implements the same `RunLifecycle`.  Reads that fall
between the moment and the COMMIT are taken to see what the COMMIT shows.

### ReplayWorker
`pc[w]` names the store call worker `w` makes next; `held[w]` is `processRun`'s local
`run`.  One action is one store call with the code up to the next one:

| Code | Actions |
|---|---|
| `reclaimOrphans` | `Reclaim` (query), `FailOrphan` (one `FinalizeOrphan`) |
| `runPoll` | `List`; `Break` / `Continue` at the end of `processRun` |
| `processRun` | `GetRun`, `Claim`, `Recheck`, `Authorize`, `Advance`, `Renew`, `Load`, `Execute`, `Ingest` (per event), `Finish` |
| `finalizeTerminal` and its callers | `SettleRun`, with `Verdict` for the mapping of errors |
| `main` | `RunOnce` (`-run-id`), `Restart`; a crash is `Crash` |
| Core API | `PostCapsule`, `PostRun` (up to GetCapsule) and `PutPosted`, `PostReset`, `ApiRestart` |

The runner is an interface: `Execute` picks any of `Results`, the outcomes
`Execute` in `internal/replay/executor.go` can return.  Listed runs are tried in any
order (the code's order by text of the id is one of them).  Store errors other than
refusals (a lost connection) lead to the same branches as a refusal or a crash and
are not modelled apart.  `Verdict` maps every error to the terminal record, a refused
intervention (`invalidIntervention`, of a what-if only) included.

### DemoCheckout
A request is four threads: the gateway's handler, the checkout's handler, and one
goroutine per payment attempt, which stands for the handlers of Payment and Ledger it
calls as well.  `pc[t]` is where a thread is; in the places of `EmitsAt` it is inside
`Recorder.Record`, that is, waiting for `POST /v1/events`, and `api[t]` says where the
Core API's handler of that call is:

| Code | Actions |
|---|---|
| `POST /v1/events` | `Ingest`, then detection: `DetectNothing` or `DetectIncident` (`EventsForExecution`, oracle, `BuildNodes`), `CheckNodes` / `NodesMissing` and `PutIncident` (the two halves of `PutIncident`'s transaction) |
| gateway `Checkout` | `Arrive`, `LowerLatency`, `Resume`, `Leave` with its deferred `SetLatency` |
| checkout `Process` | `TimerFires`, `Join`; the events in between by `AfterEmit`, the attempts they launch by `Starts` |
| an attempt | `Authorize` (reads the latency), `Wake`, `Commit` |
| failures | `Abort` (context cancelled), `AbandonLatency`, `Lose` (a call, or by `DetectionFails` a query of a detection), `Disconnect`, `Reset` |

Recorded events are named by request, thread and place; a request records each at most
once.  Both requests of an instance name different checkouts: two concurrent requests
with one checkout id share an execution, and their evidence mixes.  A connection between
gateway and checkout that drops in mid-call is not an action of its own: what both sides do
then, they also do when the client leaves or a call is lost.

Detection is best-effort (`main.go:89-95`): when one of its queries fails, the error is logged
and the event is answered 202.  `DetectionFails` is this, at any query, and with the
INSERTs of `PutIncident` carried out or not, since the answer to a COMMIT may be lost as well.
`blind` remembers the events whose detection has failed.  `ReplyMeansDetected` says how much can go
wrong: after a request's second effect there are three detections (of the later effect, the
checkout's end, the gateway's exit), and an incident is missed only if all three fail.

`ImplementsDetection` maps the ledger's effects to `committed` and the stored graphs to
`incident` of `Detection`: the four calls of a thread's detection, its retries and conflicts
with others come down to one `Raise`, and reading evidence to knowing of two effects.  Time is
the order of a sleep and a timer.  With `Prompt` scheduling delays are small against
50, 200 and 350 ms, so that a 50 ms attempt beats the timer and a 350 ms one does not;
without it any order of the two is possible.  With `LossyNetwork` calls between the
services and to the database fail, with or without having been carried out.

### Timeline and RunDiff
An event is a record of the fields that order, align or compare it; strings that are only
compared are numbers in the same order.  A call of `BuildNodes` is a machine, so that the
invariant of its loop can be stated: `indegree` is the map of the code, `placed` the nodes.

| Code | Actions and operators |
|---|---|
| `BuildNodes` | `CallBuildNodes` (validation, `Indegrees`), `Select` (one turn: `Eligible`, `Candidates` within 5 ms of the earliest, `Selectable` by `TieLess`, `Decremented`), `LoopEnds` |
| `ExecutionGraph.Validate`, `HasHardCycle` | `GraphValid`, `HasHardCycle` over `RunsIntoCycle` |
| `Order` | `OrderAccepts` |
| `differential.Build` | `GetBase`, `GetWhat` (with `verifyPrerequisites`), then for each run `LoadEvents`, `LoadGraph` (which reads the events again), `BuildTurn`, `OrderEvents` |
| checkout pack `Align`, `Compare` | `AlignNext`, `AlignRest`; `StatusChange`, `StructuralDivergence` |
| development pack `alignEvents` | `AlignByKey`, `FirstChange` |
| `FirstDivergenceFrom`, `ReplayDiff.Validate` | `FirstDivergenceFrom`, `DiffValid`, `Compose` |
| `PostgresRepository.PutDiff` | `PutDiff` |

`Selectable` is a set: where the tie-break left a choice, Go's map order and unstable sort
would choose at random.  `OneTimeline` says it never does.

Between two statements of the handler (`AtStatement`) the worker ingests the what-if's
events one by one, settles the run, or a second worker that executes the same run (run
`ReplayTwice`) adds another execution's events; and the demo may be reset.  As in `RunStore`
a reset is one step, at which the events go and the runs with their diffs either go or outlive it
(`Survive`): in the second case the handler may compare two runs without any evidence left.
`differential.Build` names no divergence for an INCONCLUSIVE what-if; no code gives a run that
outcome, and the branch is left out.

### CoreApi
A row has the key and the foreign keys of its table (`refs`) and the rows its payload
names without a foreign key (`names`): a graph's events, a what-if's baseline.  An
insertion is one step with its COMMIT.  `deleted` are the rows the open reset has deleted:
others still read them, but wait when they would insert the same key or a reference
(`Waits`), or lock them (`Lockable`).  `DeleteRows` works through the runs one by one,
since it may wait for the lock of each, and through other tables at once; the foreign keys
are checked at the end of a statement (`Referenced`), graphs cascade with their incident.
What PostgreSQL does is modelled as far as the handlers meet it, and marked external.

| Code | Actions |
|---|---|
| `POST /v1/events` | `IngestEvent`, `ReadExecution`, `CheckNode` (one SELECT of `PutIncident`), `InsertIncident` |
| `postCapsule` | `ReadIncident`, `ReadEvents`, `CompileCapsule`, `PutCapsule` |
| `postRun` | `ReadCapsule`, `Gate` (SELECT ... FOR UPDATE), `PutRun` |
| `postDiff` | `BuildDiff`, `LockBaseline`, `LockComparison`, `PutDiff` |
| `postReset` | `BeginReset`, `DeleteRows`; `BreakDeadlock` |
| the worker | `Claim`, `Advance`, `Record`, `SettleRun`: as much of it as the handlers meet |

Replays record under the golden execution id, so detection reads their events as well:
`IncidentIsSound` says they never become evidence of the incident they replay.

`ImplementsLifecycle` maps the rows of `replay_runs` to `RunLifecycle`, the abstract
specification `ReplayWorker` implements as well.  There each operation of the store is one
step; here `PutRun` is two statements and the reset is six, so it is here that a what-if
could be created over a baseline that is on its way out, or a reset take some of the runs.
What the rows do not say follows from the payload: the baseline of a what-if is the row it
names, and a COMPLETED baseline has reproduced the failure.

### CommandCenter
JavaScript runs one callback at a time, so an action is one callback: a click, or an
answer up to the next await.  `flows` records the calls of the workflow started so far
with the token they were issued (`gen`), the incident and epoch they were asked under
and the flows whose results they refer to (`of`).  A panel remembers the flow that
filled it and what its run shows (`RunViews`).  The reset dialog declares itself modal and
covers the page, but traps no focus and makes nothing inert, so every button behind it can be
operated by keyboard in every stage of a reset, a second reset included: `resetting` counts those
without an answer, and a flow remembers if it was started while one was awaited (`behind`).  The
success of a reset clears the panels but moves no generation on, so the answer to such
a flow is still taken for a current one.  Run `CommandCenterReset` shows it against the completion
design; `NothingStale`, `ChainMatches` and `WhatIfUnlocked` say that nothing worse happens: the
late answer stands alone, beside idle panels and with no incident selected.  `runHealthyControl` is
left out: it touches neither token nor reducer.

## 3. Runs

| Run | Instance | Question |
|---|---|---|
| `ReplaySingle` | 1 poller, 2 runs, 2 events per run, all results, a crash, an API restart, fairness | With one worker, is a run executed once and are the events of a COMPLETED run exactly those it was judged on, even if ids are issued twice?  As long as the poller lives or is restarted, is every CREATED run taken up, also behind one that cannot be failed, and does no run stay RUNNING? |
| `ReplayPair` | a poller and a one-shot worker, 2 runs, a crash, a reset | Do the baseline gate, the evidence of verdicts and the finality of terminal runs survive two workers on the same run, and is the lifecycle of the contract implemented? |
| `ReplayOrphan` | 2 pollers, 1 run, a crash, fairness | *violated*: a run orphaned in VALIDATING is never settled |
| `ReplayTwice` | 2 pollers, 1 run | *violated*: a run is executed by two workers |
| `DemoCheckout` | a golden checkout and a healthy control, one lost call, failed detection, disconnect or reset | Is an incident detected only for a doubled effect and never for the control, is its graph the ten-event scenario, and is `Detection` implemented? |
| `DemoAnswer` | a golden checkout, any scheduling delays, three disturbances, fairness | Does a reply of two attempts mean a stored incident, unless every detection after the second effect has failed, and two ledger effects, and does every request end? |
| `DemoRestore` | a healthy control, a disconnect | *violated*: the golden latency is not restored |
| `RunDiff` | 1 baseline, 1 what-if (with or without a second execution), both packs, 2 requests, a reset; `BuildNodes` on every graph of `MCCalls` | Is a timeline the one order its edges and the window allow, and are circles reported?  Does a stored diff cover the evidence its pack takes a position on, pair events by rank, name the earliest divergence and state the delta its alignment shows?  Does a request fail for no other reason than a reset or a second execution? |
| `RunDiffDev` | the same, development pack only | *violated*: an event only the what-if has is in no set of the diff |
| `CoreApi` | one request of each kind at a time, 3 events of golden checkouts, a reset, with and without a pack | Do references hold, is a reset all or nothing, does every incident have its evidence, does a what-if keep its baseline, is a compiled capsule returned, do the statements implement the lifecycle of the contract, and does somebody always move on? |
| `CommandCenter` | 1 incident, 4 flows, 4 generations, a reset that succeeds, fairness | Does no panel show a stale answer, do the panels belong together, is the what-if locked without its baseline, but for an answer a reset overtook, and does loading end? |
| `CommandCenterReset` | the same, 2 flows | *violated*: after a reset a panel shows what was asked for before it |

**Bounds.**  Two run ids are what the properties need: a baseline and a what-if, or a
run and the one behind it in the list.  Two workers give every race between two
copies of a run; a third adds no new relation between a copy and the row.  Two events
per run separate "before the first", "between" and "after the last" ingestion.  One
crash, one reset and one API restart each reach the states the hazards describe;
`MaxCrashes`, `MaxManual`, `MaxResets`, `MaxApiRestarts` and `MaxRun` name the bounds.
`ReplayPair` has no API restart: together with a reset it re-issues ids, for which
`EvidencePersisted` does not hold: the counter of the API starts again while the reset
has removed the runs but not the workers, and a run under a re-used id collects the events
a busy worker still ingests for its predecessor.

One poller with a crash and a restart is enough for the liveness properties of `ReplaySingle`:
the premise `SomePollerLives` asks for a poller that is up for good from some time on, and what
another one that died has left (a run claimed, RUNNING or refused) the restarted poller finds just so.

For the demo services, one golden checkout and one control are the two roles that meet
in the shared latency and the shared store, and each has all its threads.  One
disturbance (`MaxDisturbances`) beside the race of two requests reaches a failure of every call;
three beside a single request let all detections fail that could have raised its incident.  For `RunDiff`, the
executions are those the replay runner records: the baseline with its timeout, retry and
two effects, and what-ifs in which the first attempt returns in time; the graphs beside
them have at most three events, with every set of at most three of sixteen arcs: self edges, opposite and
parallel ones, temporal ones and one to an event that is not there; ties have times within,
at and beyond the window.  Among the what-ifs are one that answers as the timer fires and
one that still times out.  Two requests (`MaxPosts`) give a second
diff of the same pair and a swapped one; one reset (`MaxResets`) can fall between any two
statements.  For `CoreApi`, one request of each kind meets each other kind and the reset at
every statement, and starts over after its answer; two requests of one kind meet each other
only as far as the first has returned.  The third event (`MaxEvents`) is that of a second
checkout: its detection meets an incident that is there and replayed evidence, and after a
reset it makes an incident with what a worker the reset has left still records.  One reset
lets runs come while it is at its last tables and survive it; that a second one may then
remove them is in the proof.  For the Command Center, four flows (`MaxFlows`) are a whole
chain of capsule, baseline, what-if and diff, or shorter chains with retries and a trigger;
four generations (`MaxGenerations`) are a selection, a confirmed reset (two) and one more change.  A second incident would change
the selection as deselecting does.  A selection and two resets that are
awaited at once take five generations, so that panels filled beside two resets are beyond the
bound; the proofs have none.

**Fairness** (`FairSpec`).  *Replay*: a live worker keeps executing its loop and leases run out:
weak fairness of `WorkerStep(w)` and of `LeaseExpires(r)`.  A poller sleeps a fixed
interval and has no other blocking call than the store, so a step that stays possible
is taken.  Nothing is assumed of crashes, restarts, one-shot starts or API calls:
`Crash` may happen, and `Restart` need not.  `CreatedIsTaken` and `RunningSettles` say what
follows if some poller is up for good in the end (`SomePollerLives`).  *Demo services*: weak fairness of `Step`
as a whole: if some handler or goroutine can go on, one of them does, which is less than
the Go scheduler gives.  Clients, failures and resets are not forced.  *Command Center*:
`fetch` settles the first request of every flow and the reset's; nothing is assumed of
the user or of the runs that are polled.

**Deadlock** is checked in the replay runs: a poller always has a step.  A demo instance
stops when its requests are answered, and the Command Center when its bounds are reached
and the user is done; `RunDiff` stops after its last request (`CHECK_DEADLOCK FALSE`).
`CoreApi` checks deadlock, and `SomebodyMoves` says more: whoever waits, waits for
somebody who can go on.  That every request ends is not claimed there: a reset waits for
row locks, and a client that posts diffs without end may hold one at every turn.

## 4. Proofs

`ReplayWorkerProofs` proves, for every number of workers, runs, capsules, events,
crashes, resets and restarts (`MaxRunAssumption`, `WorkerAssumption` are all that is
assumed of the constants):

| Theorem | Statement |
|---|---|
| `TypeCorrect` | `Spec => []TypeOK` |
| `StaysWellFormed` | `Spec => []WellFormed` |
| `GateHolds` | `Spec => []WhatIfGate` |
| `TerminalStaysFinal` | `Spec => TerminalIsFinal` |
| `Refinement` | `Spec => ImplementsLifecycle` |
| `VerdictsCanBeRetraced` | `Spec => []EvidencePersisted`, if ids are never reused; of runs no reset has left behind |
| `SolePollerExecutesOnce` | `Spec => []SingleExecution`, for a single poller and if ids are never reused |
| `SolePollerEvidenceIsExact` | `Spec => []EvidenceIsExact`, under the same premises; again of runs not left behind |

The inductive invariant is `IndInv == TypeOK /\ WellFormed /\ WhatIfGate`.  The gate
alone is not inductive: a stored what-if must have a baseline id at all
(`RowsWellFormed`, from `ReplayRun.Validate`), a posted run must be a CREATED one under
a real id (`PostingWellFormed`), and a worker in `processRun` must know its run and the
event ids it is about to store (`WorkerWellFormed`), without which not even the types
are preserved.

`RowChange` is the argument in one lemma: whatever interleaves, one step changes the
table of runs in one of five ways (not at all, an accepted insertion, an accepted
claim, an accepted transition, a reset that keeps some runs as they are).  A capsule keeps all its
runs or none, so a what-if outlives a reset only with its baseline.  From there the gate follows because the row
of a COMPLETED run admits none of the middle three (`CompletedIsFixed`), finality
likewise, and the refinement because each of the five is an action of `RunLifecycle` or
a stutter (`LifeStep`).

The last three theorems have premises, and TLC has a counterexample without each.
`IdsNeverReused` says that the Core API's counter of ids never starts over while runs may
have been removed: no API restart, or no reset.  Without it, a worker busy with a removed run ingests into
the next one of that id.  With it, no worker knows of a run that is still to be inserted
(`UnusedIsUntouched`) and what a worker has ingested stays stored as long as its run is
(`IngestedIsStored`), so that the verdict it settles with can be retraced.  `SolePoller` says
that there is one worker, a poller.  Two can both load a run one of them has just claimed, and then
both execute it (run `ReplayTwice`).  With one, its copy of the run is the row unless a reset
has removed that (`CopyIsRow`), the runs on its list are still CREATED, and a run that has not
been RUNNING has left no trace; so it executes what it has itself just claimed, and a run
it lost by a crash is only ever failed.

`CommandCenterProofs` proves for every set of incidents and every bound, whatever is clicked behind
the dialog:

| Theorem | Statement |
|---|---|
| `CommandCenterTypeCorrect` | `Spec => []TypeOK` |
| `NothingStaleIsShown` | `Spec => []NothingStale` |
| `PanelsBelongTogether` | `Spec => []ChainMatches` |
| `WhatIfStaysUnlocked` | `Spec => []WhatIfUnlocked` |

The inductive invariant adds `TokensOK`: a flow whose token is current was started under
the incident and epoch that still hold, or behind a reset that has succeeded since, and then no
incident is selected; and while the answer to a reset is awaited, only tokens issued since are
current.  The last part is what remains of `NothingStale` after a successful reset, which
changes the incident and the epoch without another invalidation: every selection moves the
generation on, so an overtaken answer finds no incident beside it.

The other two rest on `ChainInv`.  A pending flow holds its panel, so that no other flow of
its kind can be started, and its inputs are *settled*: final, ready and, for runs, as good as
the buttons ask (`PendingOK`, `Alone`).  A settled panel has no pending flow left that could
change it under the panels made from it (`PendingUnsettled`), and whatever restarts one clears
those first.  A reset that succeeds clears the inputs under a flow started behind it; from then
until the next selection `Orphaned` holds: no capsule can be compiled without an incident, so
nothing but that one flow's own panel can be filled.

`TimelineProofs` proves for every finite set of events, any edges and any number of calls:

| Theorem | Statement |
|---|---|
| `TimelineTypeCorrect` | `Spec => []TimelineOK` |
| `HardEdgesRespected` | `Spec => []RespectsHardEdges` |
| `ToleranceKept` | `Spec => []WithinTolerance` |
| `CirclesAreNeverOrdered` | a graph with a circle of hard edges is never returned as ordered |
| `CyclesReported` | `Spec => []CyclesAreReported` |
| `TimelineIsUnique` | `Spec => []OneTimeline` |
| `LinearExtensionImplemented` | `Spec => ImplementsLinearExtension` |

`BuildNodes` never looks at the edges into an event again once it has counted them, so
everything rests on what the counters mean: `Counting` says that each is the number of hard
edges from events that are still to be placed.  An event is eligible at zero, hence after
all its predecessors; and when the loop ends early, every event left has one among those
left.  Such a remainder of a finite set contains a circle, and no circle is ever entered,
which is why `CirclesAreNeverOrdered` holds whatever the depth-first search has overlooked.

That the search overlooks none (`CyclesReported`) is a statement about a recursive function on
sets, for every graph.  TLA+ defines such a function by CHOOSE, so first one has to be
exhibited: `WalksOn` says directly what the recursion computes (the event belongs to a set each
member of which is on the path already or has an edge to a member), and solves its equation.
That every solution agrees with it goes by a smallest counterexample: of the paths on which the
two differ take one that leaves as few events unvisited as possible.  No induction theorem of the library is used; each
takes an operator as its parameter.

`TimelineIsUnique` is about `Selectable`, where Go would fall back on the order of a map:
among events with ids of their own the tie-break always finds one that comes before all others
(`TieBreakDecides`).

`CoreApiProofs` proves for any number of requests of each kind, events and resets:

| Theorem | Statement |
|---|---|
| `StoreIsWellFormed` | `Spec => []StoreOK` |
| `ResetIsAllOrNothing` | `Spec => []ResetIsAtomic` |
| `BaselinesRemain` | `Spec => []BaselineRemains` |
| `CompiledCapsuleIsReturned` | `Spec => []AlreadyCompiledIsReturned` |
| `IncidentsAreSound` | `Spec => []IncidentIsSound` |
| `NobodyIsStuck` | `Spec => []NobodyStuck` |
| `StatementsImplementLifecycle` | `Spec => ImplementsLifecycle` |

Its invariant `IInv` has three parts.  `StoreInv` is about the tables and the open reset:
`Emptied` says which rows from before the reset its statements can still find, so that the
COMMIT leaves none and a reset nothing has crossed trips over no foreign key;
`Unreferenced` says that what stays refers to nothing deleted but by the statement that is
not over yet, so that a COMMIT leaves no dangling reference.  `BaselineRemains` is the
subtle one, since no foreign key protects it: a what-if may be inserted after the statement
on runs has begun, and that statement does not see it.  `RunsGoTogether` shows that the
reset then fails: it goes on to the capsule both runs refer to, and the late what-if keeps
it from being deleted.  `RequestInv` is about handlers in the middle (a what-if about to be
inserted has its baseline locked and undeleted; a compilation that met a capsule still has
it unless a reset began), and `EventsToCome` keeps ids of events fresh.  What the handlers do
to the tables is one of three things (`DbStep`: nothing, an insertion that fits, a new status
of a run nobody has deleted), which is all that the store's part of the proof knows of them.

`IncidentsAreSound` adds `SoundInv`.  Between two SELECTs of `PutIncident` nothing is known of
the rows it has seen but that no reset had begun when it saw them, so the invariant speaks of
resets: an insertion no reset has overlapped finds every node still stored.  That a replay's
events are in no incident of their own follows from the order of insertions: a run is stored only
while its incident is, and an incident is never written again.

`NobodyIsStuck` says without ENABLED what `SomebodyMoves` says of the handlers and the reset:
if anybody is at work, then one of them does not wait (`Awaits`, read off the guards), or the
reset goes on.  `OnlyWaitersStay`, the other half of `SomebodyMoves`, says that whoever does not
wait has a step; it speaks of ENABLED and is left to TLC.  `WaitInv` gives the exact locks of
a request from where it is (`Held`).  Only runs are ever locked, so that only the statement on
runs waits for a request.  Who holds a run is a what-if about to be inserted, which waits for
nobody before the statement on capsules, or a diff; a diff with one run waits for one with both;
and that one can wait for the reset alone, if the reset has deleted the diff that has its key.
Then the runs of the pair are still ahead of the statement on runs (`RunsToCome`), and the circle
is a deadlock PostgreSQL breaks.  The proof needs that no request for a baseline is one for
a what-if (`RunPostsAssumption`).  It also showed that `Deadlocked` must not ask that one diff
holds *every* run the reset has yet to come to: the scan may stop at any of them, and two diffs
that each held one would have been stuck in the model, but not in PostgreSQL.

`StatementsImplementLifecycle` has one lemma at its centre, as `Refinement` of the workers has:
a statement changes the table of runs in one of four ways (`RunsStep`: not at all, an insertion
under a free id, a transition, or to the empty table).  That a COMMIT of the reset does no more
and no less is `RunsGoTogether` again: a reset that has deleted a run has deleted its capsule
and, as every run refers to that one, every run; one that found none leaves those that came after.
(Such survivors are real: an incident, its capsule and a run can all be stored while the reset
is at `execution_events`; they lose the events recorded until then, see `RunStore`.)  `LifeInv` is what an insertion needs: the baseline a gate has found
COMPLETED is so until the INSERT (`GateStaysOpen`), locked and moved by nobody, since no
transition leaves COMPLETED; and a stored what-if names the run of a request for a baseline.

`DemoCheckoutProofs`, `DemoReplyProofs` and `DemoGraphProofs` prove, for any
number of requests, executions, lost calls, disconnects and resets, and for any scheduling
unless a premise says otherwise:

| Theorem | Statement | Premise |
|---|---|---|
| `TypeCorrect` | `Spec => []TypeOK` | |
| `ServicesDetect` | `Spec => ImplementsDetection` | |
| `IncidentsAreEarned` | `Spec => []IncidentIsEarned` | distinct executions |
| `RepliesCountEffects` | `Spec => []ReplyCountsEffects` | |
| `AnsweredRetriesAreDetected` | `Spec => []ReplyMeansDetected` | |
| `ControlStaysSilent` | `Spec => []ControlIsSilent` | `Prompt`, distinct executions |
| `GraphsAreScenarios` | `Spec => []GraphIsTheScenario` | distinct executions |

*Distinct executions* means that no two requests name one checkout.  Without it the evidence
of several requests mixes: one's retry and one effect of each make a match.

The argument is about what evidence means.  `IInv` has four parts: `DataOK` (types), `Control`
(where the threads of a request can be together, so that no attempt is launched twice),
`Calling` (a thread whose event is being ingested does not move) and `Evidence` (an effect's
event is recorded by the attempt that has committed it, and whatever a detection carries on
with, stored or not any more, matches the oracle).  So a match stands for two effects, which
is the guard of `Detection`'s `Raise`.

The other direction, from an answer to its incident, follows the threads: `Joined` (the gateway
exits after the checkout has joined every attempt it launched) and, until a reset, `Recorded`
(what a thread has passed is stored, parents first).  Hence the detection of the exit event
itself finds a complete graph, and either raises the incident or finds it raised, even if every
earlier detection met a dangling graph or was lost; or it fails.  `Answered` counts the failures
along the way: the later effect's detection, then the checkout's, then the gateway's, each of which
raises the incident unless it has failed as those before it (`AllBlind`).

`Calm` is the control's invariant: while its checkout is at work, Payment's latency is low and
the control's gateway is waiting, or its client has left, and then its context is cancelled and
nothing is restored.  So its first attempt never reads 350 ms, its timer never fires, and no
detection of its execution can read a timeout.

`GraphsAreScenarios` needs two arguments.  *No event is missing*, in spite of resets: a begin
event is the parent of all an attempt records and is recorded once, so while it is stored no
reset has come after it, and what the request has passed since is stored too (`Whole`).
*None is too many*, until a reset and as long as no detection of the execution has failed: the events that
end a request follow the later of two attempts, whose own detection has found both effects (`Exact`).
If that one failed, the incident is raised by the next, with the checkout's end in its graph as well.

`RunDiffProofs` proves for any number of runs, requests and resets, either pack, and any
executions (`RunDiffAssumption`, `ExecutionAssumption`), with or without a second worker:

| Theorem | Statement |
|---|---|
| `DiffTypeCorrect` | `DiffSpec => []DiffOK` (its first part is `TimelineOK`) |
| `DiffsCoverEvidence` | `DiffSpec => []DiffCoversEvidence` |
| `AlignmentByRank` | `DiffSpec => []AlignsByRank` |
| `DivergenceEarliest` | `DiffSpec => []DivergenceIsEarliest` |
| `DeltaIsShown` | `DiffSpec => []DeltaMatchesAlignment` |
| `FailuresNeedReset` | `DiffSpec => []FailsOnlyUnderReset` |
| `ComparedTimelines` | `DiffSpec => []RespectsHardEdges`, `[]WithinTolerance`, `[]OneTimeline`, `[]CyclesAreReported` |
| `ComparedLinearExtension` | `DiffSpec => ImplementsLinearExtension` |

`RunDiff` calls `BuildNodes` from a handler, and `TimelineProofs` states the invariance of its
loop for any caller; the last two theorems are that composition.  Beyond the types (`TR`), the
invariant of a request says what it has in hand after each statement: until a reset each
reading has found all the baseline recorded and at least what the what-if was judged on, and
the timelines lose none of it (`Reading`); the loop over the baseline's events has taken, of each
semantic key, as many events of the what-if as the baseline has had, or all there are
(`Alignment`); and the diff that waits to be stored is the one that was aligned (`Composed`).  From
a complete alignment the rest is arithmetic.  What a diff *covers* is said of diffs stored before a
reset, since a reset deletes the events in any case; and of the what-if's events the pack takes a
position on (`Positioned`), all of them in the checkout pack: run `RunDiffDev` shows the ones the
development pack leaves out.  The handler's copies are compared with the tables
again only in `PutDiff`; a run that is still there then was there all the time, since nothing brings
back what a reset has removed, and a reset removes both runs or neither (`Tables`; why so is
`RunsGoTogether` above).

`FailuresNeedReset` goes the other way: in a request before any reset, of runs executed once, each check that could fail succeeds.  The events are then those of one whole
execution, whose edges lead from smaller ids to greater ones, so that its graph is valid
(`ParentsAreValid`) and ordered without an error (`Smooth`).  `ExecutionAssumption` states as much of the executions: an event has an id of its
own, and its causes are events emitted before it.  `cmd/replay-worker/runner.go` numbers its
events as it emits them and passes each the id of an earlier one.

**Only model-checked.**  `OnlyWaitersStay` in `SomebodyMoves` (ENABLED), the liveness properties,
`AlwaysAnswered` among them (liveness under fairness is beyond the prover), and the violations.

## 5. What the models show of the code

The five `violated` runs are findings in `PROJECT.json`: a run orphaned in VALIDATING is never
settled (`ReplayOrphan`), a run is executed by two workers (`ReplayTwice`), a disconnected control
leaves Payment at 50 ms (`DemoRestore`), the view shows an answer from before a reset
(`CommandCenterReset`), and the development pack's diff is incomplete (`RunDiffDev`).  Beside them, the
models have these behaviours, which no property of a run is about, or which one excepts by name:

- `finalizeTerminal` (`cmd/replay-worker/main.go:221`) builds the BLOCKED record of `ErrTeardown` and
  `ErrUnsafeReplay` without isolation evidence, which `ReplayRun.Validate`
  (`internal/contracts/contracts.go:897-900`) requires for `ISOLATION_VIOLATION` and
  `DESTINATION_BLOCKED`.  The record is refused, the run stays RUNNING until its lease has expired and
  is then reclaimed as FAILED/`INTERNAL_FAILURE`, although `main.go:185-187` says "contract/safety
  invalidation -> BLOCKED".  `ReplaySingle` has it among its runner results (`AllResults`), and
  `RunningSettles` says that such a run ends at all.  The runner the worker is wired with returns
  neither error.
- A run stored with its incident and capsule while a reset is at its last tables survives it without
  the events it had recorded (`RunStore`), although `docs/CONTRACTS.md:859` has a reset restore "empty
  replay state".  `EvidencePersisted` and `EvidenceIsExact` except these runs (`left`).
- A reset that succeeds under `PutIncident` leaves an incident without its events
  (`IncidentIsSound`, `raced`).

- After a restart of the Core API together with a reset, run ids are issued again
  (`main.go` `nextID`).  A worker still busy with the old run of that id stores its events
  under the new one.  `ReplayWorker` has it when `MaxApiRestarts` and `MaxResets` are both 1.
- A capsule's id follows from its incident, but its digest covers `created_at`
  (`internal/capsule/capsule.go`): compiled again after a reset, the capsule of one id has
  another digest.  Whatever refers to a capsule compares digests, and is right to.
- Within the causal window of 5 ms the tie-break decides, and it compares components before
  times: a timeline may show a COMPLETE or EFFECT of one component before the COMPLETE of
  another that came first on the clock, if no edge says otherwise.  The ordering policy of
  `docs/CONTRACTS.md:172-184` allows it.

## 6. Plan

*Done*: run store, workers, lifecycle; demo services, detection and its abstract
specification; Command Center; timeline and differential; the Core API on its database beside
a reset; the proofs of Section 4, with which every safety property of a passing run is a theorem,
some of them under a premise named there, but for what `SomebodyMoves` says of ENABLED.

*Left*: two checkouts of one execution with all their threads, and a restart of a demo service,
whose event ids start again.

## 7. Not modelled

- Rendering, carousel and styling of the web application, its schema decoding and API client:
  they keep no state another component depends on.
- The list and get routes of the Core API, request decoding and the mapping of errors to
  status codes: they change nothing.
- Validation of the formats of events, capsules and incidents (`internal/contracts`), the
  sanitisation and the digest algorithms of capsules: data no property here tells apart.
- The registry of packs: filled at start-up and constant afterwards.  The alignment and the
  outcome of both packs are modelled.
- The runner inside `Execute` (virtual time, isolation checks) beyond the results it can
  return, its events included.
- Migrations, other than the tables and constraints they leave.
- Failed connections to the database in the worker and in the handlers other than that of events, which
  lead to the same branches as a refusal or a crash.  In detection, where they are logged and the
  event is accepted, they are modelled (`DetectionFails`).
