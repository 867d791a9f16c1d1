------------------------------- MODULE CoreApi -------------------------------
(***************************************************************************)
(* The Core API on PostgreSQL: the handlers of cmd/core-api as the         *)
(* sequences of statements they are, and the demo reset as the six DELETE  *)
(* statements of one transaction, all at READ COMMITTED.                   *)
(*                                                                         *)
(* Of PostgreSQL the model has what the handlers meet: a row deleted by    *)
(* the open reset is still read by everybody; who would insert a row with  *)
(* its key or a reference to it, or lock it, waits for the reset to end;   *)
(* a row locked FOR UPDATE makes the reset wait; a deadlock is broken.     *)
(* Insertions are one step with their COMMIT: a row that nobody sees yet   *)
(* can as well be inserted at its COMMIT.                                  *)
(*                                                                         *)
(* There is one golden execution, so one incident id and one capsule id;   *)
(* replays record events under that execution id as well.  One reset is    *)
(* open at a time; how executions fail is the matter of ReplayWorker.      *)
(***************************************************************************)
EXTENDS Naturals, Sequences, FiniteSets

CONSTANTS
    EventPosts,     \* POST /v1/events that may be under way at the same time
    CapsulePosts,   \* ... POST /v1/incidents/{id}/capsules
    BaselinePosts,  \* POST /v1/capsules/{id}/runs, a baseline: each creates one run
    WhatIfPosts,    \* ... a what-if
    DiffPosts,      \* ... POST /v1/diffs at the same time
    Packs,          \* the System Packs of PACK_IMPL: "checkout", "none"
    MaxEvents,      \* bound: events of golden checkouts
    MaxResets       \* bound: demo resets

RunPosts == BaselinePosts \cup WhatIfPosts

\* A request for a baseline is none for a what-if; 0 stands for no run.
ASSUME RunPostsAssumption == BaselinePosts \cap WhatIfPosts = {} /\ 0 \notin RunPosts

Requests == EventPosts \cup CapsulePosts \cup RunPosts \cup DiffPosts

VARIABLES
    pack,
    rows,      \* the committed rows of all tables
    deleted,   \* those the open reset has deleted
    reset,     \* the reset: at which statement, the rows it has yet to delete,
               \* how many have begun, the last that committed
    ingested,  \* events of golden checkouts so far
    working,   \* the runs a worker is executing
    pc,        \* where a request is
    got,       \* what it has read; history: met, there was a capsule when it began,
               \* and raced, a reset has overlapped it (of a detection: its PutIncident)
    locks      \* the rows it has locked

dbVars  == <<rows, deleted, reset>>
reqVars == <<pc, got, locks>>
vars    == <<pack, dbVars, ingested, working, reqVars>>

-----------------------------------------------------------------------------
(* Rows: refs are its foreign keys; names are the rows its payload names    *)
(* without one, the events of a graph and the baseline of a what-if; born   *)
(* says how many resets had begun when it was committed, raced whether one  *)
(* overlapped the request it is from.                                       *)

\* The tables in the order in which Reset empties them.
Statements ==
    <<"replay_diffs", "replay_runs", "replay_capsules", "execution_graphs", "incidents",
      "execution_events">>

Run(r) == <<"replay_runs", <<r>>>>

Golden == <<"exec-original-8271">>

\* A checkout's events in the order of their ingestion: the oracle needs both.
CheckoutEvent(n, k) == <<"checkout", n, k>>

\* What one execution of a run recorded.
ReplayEvent(r) == <<r, 0, 0>>

Blank ==
    [table |-> "", key |-> <<>>, refs |-> {}, names |-> {}, stamp |-> <<>>, status |-> "",
     raced |-> FALSE, born |-> 0]

EventRow(k) == [Blank EXCEPT !.table = "execution_events", !.key = k, !.born = reset.begun]

RowOf(q, table, key, refs) ==
    [Blank EXCEPT !.table = table, !.key = key, !.refs = refs,
                  !.born = reset.begun]

IncidentRow(q) == [RowOf(q, "incidents", Golden, {}) EXCEPT
                     !.names = got[q].nodes, !.raced = got[q].raced]
GraphRow(q)    == [RowOf(q, "execution_graphs", Golden, {<<"incidents", Golden>>}) EXCEPT
                     !.names = got[q].nodes]

\* The digest of a capsule covers its created_at: no two compilations have the same.
CapsuleRow(q)  == [RowOf(q, "replay_capsules", Golden, {<<"incidents", Golden>>}) EXCEPT
                     !.names = got[q].nodes, !.stamp = <<q, reset.begun>>]

\* Mutant of RunRow: replay_runs has no foreign key to replay_capsules.
RunRowWithoutKey(q) ==
    [RowOf(q, "replay_runs", <<q>>, {}) EXCEPT
       !.stamp = got[q].stamp, !.status = "CREATED",
       !.names = IF q \in WhatIfPosts THEN {Run(got[q].pair[1])} ELSE {}]

RunRow(q) ==
    [RowOf(q, "replay_runs", <<q>>, {<<"replay_capsules", Golden>>}) EXCEPT
       !.stamp = got[q].stamp, !.status = "CREATED",
       !.names = IF q \in WhatIfPosts THEN {Run(got[q].pair[1])} ELSE {}]

DiffRow(q) == RowOf(q, "replay_diffs", got[q].pair,
                    {<<"replay_runs", <<got[q].pair[i]>>>> : i \in 1 .. 2})

Name(r)   == <<r.table, r.key>>
Table(t)  == {r \in rows : r.table = t}
Find(n)   == {r \in rows : Name(r) = n}
Row(n)    == CHOOSE r \in Find(n) : TRUE
Events    == {r.key : r \in Table("execution_events")}

Deleting(n) == \E r \in deleted : Name(r) = n
LockedByOthers(q, n) == \E p \in Requests \ {q} : n \in locks[p]

\* The unique constraints: primary keys, and the pair of runs of a diff.
Duplicate(r) == \E s \in rows \ deleted : Name(s) = Name(r)
Orphan(r)    == \E n \in r.refs : Find(n) = {}
Waits(r)     == Deleting(Name(r)) \/ \E n \in r.refs : Deleting(n)

\* SELECT ... FOR UPDATE of a row that is there: it may have to wait.
Lockable(q, n) == ~Deleting(n) /\ ~LockedByOthers(q, n)

-----------------------------------------------------------------------------
(* Requests.                                                               *)

NothingRead == [nodes |-> {}, left |-> {}, stamp |-> <<>>, pair |-> <<>>, met |-> FALSE,
                raced |-> FALSE]

Init ==
    /\ pack \in Packs
    /\ rows = {} /\ deleted = {}
    /\ reset = [at |-> 0, target |-> {}, begun |-> 0, done |-> 0, failed |-> FALSE, crossed |-> FALSE]
    /\ ingested = 0 /\ working = {}
    /\ pc = [q \in Requests |-> "idle"]
    /\ got = [q \in Requests |-> NothingRead]
    /\ locks = [q \in Requests |-> {}]

Resetting == reset.at # 0

Active(q) == pc[q] \notin {"idle", "used"}

\* Mutant of Released: the transaction is not rolled back on an error path.
ReleasedOnSuccess(q, a) == IF a = "created" THEN {} ELSE locks[q]

\* The deferred Rollback, or the Commit, gives up the locks.
Released(q, a) == {}

\* Mutant of ForUpdate: a plain SELECT.
PlainSelect(n) == {}

\* The rows SELECT ... FOR UPDATE locks.
ForUpdate(n) == {n}

Goto(q, p) == pc' = [pc EXCEPT ![q] = p] /\ UNCHANGED locks

\* The handler writes its answer and is free for the next request; a run id is
\* never used again.
Answer(q, a) ==
    /\ pc' = [pc EXCEPT ![q] = IF q \in RunPosts /\ a = "created" THEN "used" ELSE "idle"]
    /\ got' = [got EXCEPT ![q] = NothingRead]
    /\ locks' = [locks EXCEPT ![q] = Released(q, a)]

\* A row is committed while the reset is under way.
Insert(new) ==
    /\ rows' = rows \cup new
    /\ reset' = [reset EXCEPT !.crossed = @ \/ Resetting]

Starts(q) == pc[q] = "idle"

\* The next event of a golden checkout; event ids are never reused.
IngestEvent(q) ==
    /\ q \in EventPosts /\ Starts(q)
    /\ ingested < MaxEvents
    /\ ingested' = ingested + 1
    /\ Insert({EventRow(CheckoutEvent((ingested \div 2) + 1, (ingested % 2) + 1))})
    /\ Goto(q, "detect") /\ UNCHANGED got
    /\ UNCHANGED <<pack, deleted, working>>

\* The part of the evidence an event is; a baseline's replay has all of it, the
\* what-if that removes the failure does not.
Evidence(e) ==
    CASE e[1] = "checkout" -> {e[3]}
      [] e[1] \in BaselinePosts -> {1, 2}
      [] e[1] \in WhatIfPosts -> {1}

\* The oracle tells neither one checkout's events from another's nor a replay's:
\* all of them have the golden logical operation.
Matches(nodes) == UNION {Evidence(e) : e \in nodes} = {1, 2}

\* detectAndPersistIncident up to PutIncident.
ReadExecution(q) ==
    /\ q \in EventPosts /\ pc[q] = "detect"
    /\ IF pack = "none" \/ ~Matches(Events)
         THEN Answer(q, "nothing")
         ELSE /\ Goto(q, "check")
              /\ got' = [got EXCEPT ![q].nodes = Events, ![q].left = Events]
    /\ UNCHANGED <<pack, dbVars, ingested, working>>

\* Mutant of Stored: the nodes are not looked up.
AlwaysStored(n) == TRUE

Stored(n) == n \in Events

\* One SELECT of PutIncident's loop over the graph's nodes.
CheckNode(q) ==
    /\ q \in EventPosts /\ pc[q] = "check"
    /\ LET n == CHOOSE n \in got[q].left : TRUE
       IN  IF Stored(n)
             THEN /\ got' = [got EXCEPT ![q].left = @ \ {n}, ![q].raced = Resetting \/ (@ /\ got[q].left # got[q].nodes)]
                  /\ Goto(q, IF got[q].left = {n} THEN "insertIncident" ELSE "check")
             ELSE Answer(q, "internal")
    /\ UNCHANGED <<pack, dbVars, ingested, working>>

\* Mutant of Overwrites: INSERT ... ON CONFLICT DO UPDATE.
Upserts(r) == Duplicate(r)

Overwrites(r) == FALSE

\* INSERT both rows and COMMIT; a duplicate means the incident is there already.
InsertIncident(q) ==
    /\ q \in EventPosts /\ pc[q] = "insertIncident"
    /\ CASE Overwrites(IncidentRow(q)) ->
              /\ rows' = {r \in rows : r.key # Golden \/ r.table \notin {"incidents", "execution_graphs"}}
                           \cup {IncidentRow(q), GraphRow(q)}
              /\ UNCHANGED reset
              /\ Answer(q, "created")
         [] ~Overwrites(IncidentRow(q)) /\ Duplicate(IncidentRow(q)) ->
              Answer(q, "nothing") /\ UNCHANGED <<rows, reset>>
         [] ~Duplicate(IncidentRow(q)) /\ ~Deleting(Name(IncidentRow(q))) ->
              Insert({IncidentRow(q), GraphRow(q)}) /\ Answer(q, "created")
         [] OTHER -> FALSE
    /\ UNCHANGED <<pack, deleted, ingested, working>>

-----------------------------------------------------------------------------
(* Reading an incident, and compiling its capsule.                         *)

\* GetIncidentDetail's first statement.
ReadIncident(q) ==
    /\ q \in CapsulePosts /\ Starts(q)
    /\ CASE pack = "none" -> Answer(q, "unavailable")
         [] pack # "none" /\ Table("execution_graphs") = {} -> Answer(q, "not found")
         [] OTHER ->
              /\ Goto(q, "events")
              /\ got' = [got EXCEPT ![q].nodes = Row(<<"execution_graphs", Golden>>).names,
                                    ![q].met = Table("replay_capsules") # {},
                                    ![q].raced = Resetting]
    /\ UNCHANGED <<pack, dbVars, ingested, working>>

\* Its second statement: every node must have its event.
ReadEvents(q) ==
    /\ q \in CapsulePosts /\ pc[q] = "events"
    /\ CASE ~(got[q].nodes \subseteq Events) -> Answer(q, "internal")
         [] got[q].nodes \subseteq Events -> Goto(q, "compile") /\ UNCHANGED got
    /\ UNCHANGED <<pack, dbVars, ingested, working>>

\* Mutant of Compiled: nobody looks for a capsule that is there.
NeverCompiled == FALSE

Compiled == Table("replay_capsules") # {}

\* GetCapsule, then capsule.Compile. The fixture's latency is that of the first
\* payment in the evidence: not the golden 350 ms if that is a what-if's.
CompileCapsule(q) ==
    /\ q \in CapsulePosts /\ pc[q] = "compile"
    /\ \/ Compiled /\ Answer(q, "existing")
       \/ ~Compiled /\ Goto(q, "insertCapsule") /\ UNCHANGED got
       \/ /\ ~Compiled /\ \E r \in WhatIfPosts : ReplayEvent(r) \in got[q].nodes
          /\ Answer(q, "refused")
    /\ UNCHANGED <<pack, dbVars, ingested, working>>

\* A single INSERT: wait, conflict or succeed.
InsertOne(q, r, ok) ==
    CASE Overwrites(r) -> rows' = {s \in rows : Name(s) # Name(r)} \cup {r} /\ UNCHANGED reset /\ Answer(q, ok)
      [] ~Overwrites(r) /\ (Duplicate(r) \/ (~Waits(r) /\ Orphan(r))) ->
           Answer(q, "conflict") /\ UNCHANGED <<rows, reset>>
      [] ~Duplicate(r) /\ ~Waits(r) /\ ~Orphan(r) -> Insert({r}) /\ Answer(q, ok)
      [] OTHER -> FALSE

PutCapsule(q) ==
    /\ q \in CapsulePosts /\ pc[q] = "insertCapsule"
    /\ InsertOne(q, CapsuleRow(q), "created")
    /\ UNCHANGED <<pack, deleted, ingested, working>>

-----------------------------------------------------------------------------
(* Runs.                                                                   *)

\* postRun's GetCapsule; a what-if names its baseline.
ReadCapsule(q) ==
    /\ q \in RunPosts /\ Starts(q)
    /\ \E b \in BaselinePosts :
         IF Table("replay_capsules") = {}
           THEN Answer(q, "not found")
           ELSE /\ Goto(q, IF q \in WhatIfPosts THEN "gate" ELSE "insertRun")
                /\ got' = [got EXCEPT ![q].stamp = Row(<<"replay_capsules", Golden>>).stamp,
                                      ![q].pair = <<b, q>>]
    /\ UNCHANGED <<pack, dbVars, ingested, working>>

\* PutRun of a what-if reads its baseline FOR UPDATE.
Gate(q) ==
    /\ q \in WhatIfPosts /\ pc[q] = "gate"
    /\ LET n == Run(got[q].pair[1])
       IN  \/ Find(n) = {} /\ Answer(q, "not found")
           \/ /\ Find(n) # {} /\ Lockable(q, n)
              /\ IF Row(n).status = "COMPLETED" /\ Row(n).stamp = got[q].stamp
                   THEN /\ pc' = [pc EXCEPT ![q] = "insertRun"]
                        /\ locks' = [locks EXCEPT ![q] = ForUpdate(n)]
                        /\ UNCHANGED got
                   ELSE Answer(q, "lifecycle")
    /\ UNCHANGED <<pack, dbVars, ingested, working>>

PutRun(q) ==
    /\ q \in RunPosts /\ pc[q] = "insertRun"
    /\ InsertOne(q, RunRow(q), "created")
    /\ UNCHANGED <<pack, deleted, ingested, working>>

\* TransitionRun, and ClaimRun: one UPDATE of a row that has the expected status.
Transition(r, from, to) ==
    /\ Find(Run(r)) # {} /\ Row(Run(r)).status = from /\ Lockable(r, Run(r))
    /\ rows' = (rows \ Find(Run(r))) \cup {[Row(Run(r)) EXCEPT !.status = to]}

\* The worker claims a run and starts it, records under the golden execution id, and
\* settles the run if it is still there.
Claim(r) ==
    /\ Transition(r, "CREATED", "VALIDATING")
    /\ UNCHANGED <<pack, deleted, reset, ingested, working, reqVars>>

Advance(r) ==
    /\ Transition(r, "VALIDATING", "RUNNING")
    /\ working' = working \cup {r}
    /\ UNCHANGED <<pack, deleted, reset, ingested, reqVars>>

Record(r) ==
    /\ r \in working /\ ReplayEvent(r) \notin Events
    /\ Insert({EventRow(ReplayEvent(r))})
    /\ UNCHANGED <<pack, deleted, ingested, working, reqVars>>

SettleRun(r) ==
    /\ r \in working
    /\ working' = working \ {r}
    /\ \/ ReplayEvent(r) \in Events /\ Transition(r, "RUNNING", "COMPLETED")
       \/ Find(Run(r)) = {} /\ UNCHANGED rows
    /\ UNCHANGED <<pack, deleted, reset, ingested, reqVars>>

-----------------------------------------------------------------------------
(* Diffs.                                                                  *)

\* differential.Build has found both runs COMPLETED and the one to refer to the other.
BuildDiff(q) ==
    /\ q \in DiffPosts /\ Starts(q)
    /\ \E b \in BaselinePosts, w \in WhatIfPosts :
         CASE pack = "none" -> Answer(q, "unavailable")
           [] pack # "none" /\ (Find(Run(b)) = {} \/ Find(Run(w)) = {}) ->
                Answer(q, "not found")
           [] pack # "none" /\ Find(Run(b)) # {} /\ Find(Run(w)) # {} ->
                IF /\ Row(Run(b)).status = "COMPLETED" /\ Row(Run(w)).status = "COMPLETED"
                   /\ Run(b) \in Row(Run(w)).names /\ Row(Run(b)).stamp = Row(Run(w)).stamp
                  THEN Goto(q, "lockBaseline") /\ got' = [got EXCEPT ![q].pair = <<b, w>>]
                  ELSE Answer(q, "prerequisites")
    /\ UNCHANGED <<pack, dbVars, ingested, working>>

\* PutDiff locks the baseline, then the comparison.
LockRun(q, i, at, next) ==
    /\ q \in DiffPosts /\ pc[q] = at
    /\ LET n == Run(got[q].pair[i])
       IN  \/ Find(n) = {} /\ Answer(q, "not found")
           \/ /\ Find(n) # {} /\ Lockable(q, n)
              /\ locks' = [locks EXCEPT ![q] = @ \cup ForUpdate(n)]
              /\ pc' = [pc EXCEPT ![q] = next]
              /\ UNCHANGED got
    /\ UNCHANGED <<pack, dbVars, ingested, working>>

LockBaseline(q)   == LockRun(q, 1, "lockBaseline", "lockComparison")
LockComparison(q) == LockRun(q, 2, "lockComparison", "insertDiff")

PutDiff(q) ==
    /\ q \in DiffPosts /\ pc[q] = "insertDiff"
    /\ InsertOne(q, DiffRow(q), "created")
    /\ UNCHANGED <<pack, deleted, ingested, working>>

-----------------------------------------------------------------------------
(* The demo reset.                                                         *)

\* Mutant of Order: incidents before their capsules.
IncidentsFirst ==
    <<"replay_diffs", "replay_runs", "execution_graphs", "incidents", "replay_capsules",
      "execution_events">>

Order == Statements

BeginReset ==
    /\ ~Resetting /\ reset.begun < MaxResets
    /\ reset' = [reset EXCEPT !.at = 1, !.target = Table(Order[1]), !.begun = @ + 1,
                              !.failed = FALSE, !.crossed = \E q \in Requests : Active(q)]
    /\ got' = [q \in Requests |-> [got[q] EXCEPT !.raced = @ \/ Active(q)]]
    /\ UNCHANGED <<pack, rows, deleted, ingested, working, pc, locks>>

\* A DELETE works through the rows it saw when it started: runs one by one, of the
\* other tables all at once.
Batches ==
    IF Order[reset.at] = "replay_runs" /\ reset.target # {}
      THEN {{r} : r \in reset.target}
      ELSE {reset.target}

\* The graph of an incident goes with it: ON DELETE CASCADE.
Cascade(n) == Find(n) \cup {r \in Table("execution_graphs") : n \in r.refs}

\* A foreign key still refers to a row the statement has deleted.
Referenced(gone) ==
    \E d \in gone : d.table = Order[reset.at] /\ \E r \in rows \ gone : Name(d) \in r.refs

Rollback ==
    /\ deleted' = {}
    /\ reset' = [reset EXCEPT !.at = 0, !.target = {}, !.failed = TRUE,
                              !.crossed = @ \/ \E q \in Requests : Active(q)]
    /\ UNCHANGED rows

Commit(gone) ==
    /\ rows' = rows \ gone
    /\ deleted' = {}
    /\ reset' = [reset EXCEPT !.at = 0, !.target = {}, !.done = reset.begun, !.crossed = FALSE]

\* A row that somebody has locked is waited for, and deleted though it was updated;
\* the foreign keys are checked at the end of the statement.
DeleteRows ==
    /\ Resetting
    /\ \E batch \in Batches :
         LET gone == deleted \cup UNION {Cascade(Name(r)) : r \in batch}
             left == reset.target \ batch
         IN  /\ \A r \in batch, q \in Requests : Name(r) \notin locks[q]
             /\ CASE left # {} ->
                       /\ deleted' = gone /\ reset' = [reset EXCEPT !.target = left]
                       /\ UNCHANGED rows
                  [] left = {} /\ Referenced(gone) -> Rollback
                  [] left = {} /\ ~Referenced(gone) /\ reset.at < Len(Order) ->
                       /\ deleted' = gone
                       /\ reset' = [reset EXCEPT !.at = @ + 1, !.target = Table(Order[reset.at + 1])]
                       /\ UNCHANGED rows
                  [] OTHER -> Commit(gone)
    /\ UNCHANGED <<pack, ingested, working, reqVars>>

\* A diff holds a run the reset has come to, and waits for the other run or for the
\* row that has its key: PostgreSQL ends one of the two.
Deadlocked(q) ==
    /\ Resetting
    /\ \E batch \in Batches : \E r \in batch : Name(r) \in locks[q]
    /\ \/ pc[q] = "lockComparison" /\ Deleting(Run(got[q].pair[2]))
       \/ pc[q] = "insertDiff" /\ Waits(DiffRow(q))

BreakDeadlock ==
    \E q \in DiffPosts :
        /\ Deadlocked(q)
        /\ \/ Rollback /\ UNCHANGED reqVars
           \/ Answer(q, "internal") /\ UNCHANGED dbVars
        /\ UNCHANGED <<pack, ingested, working>>

-----------------------------------------------------------------------------

Detect(q)  == IngestEvent(q) \/ ReadExecution(q) \/ CheckNode(q) \/ InsertIncident(q)
Read(q)    == ReadIncident(q) \/ ReadEvents(q) \/ CompileCapsule(q) \/ PutCapsule(q)
Post(q)    == ReadCapsule(q) \/ Gate(q) \/ PutRun(q)
Diff(q)    == BuildDiff(q) \/ LockBaseline(q) \/ LockComparison(q) \/ PutDiff(q)
Work(r)    == Claim(r) \/ Advance(r) \/ Record(r) \/ SettleRun(r)
ResetStep  == DeleteRows \/ BreakDeadlock

Handle(q) == Detect(q) \/ Read(q) \/ Post(q) \/ Diff(q)

Next ==
    \/ \E q \in Requests : Handle(q)
    \/ \E r \in RunPosts : Work(r)
    \/ BeginReset
    \/ ResetStep

Spec == Init /\ [][Next]_vars
=============================================================================
