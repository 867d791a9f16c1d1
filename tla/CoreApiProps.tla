---------------------------- MODULE CoreApiProps ----------------------------
(* What must hold of the Core API, its store and the demo reset.           *)
EXTENDS CoreApi

\* The store is well formed: the primary keys are unique, a reference is to a row
\* that is there (postgres.go Reset deletes "in foreign-key order"), and only an
\* open reset has deleted rows nobody else can see are gone.
StoreOK ==
    /\ \A r, s \in rows : r.table = s.table /\ r.key = s.key => r = s
    /\ \A r \in rows : ~Orphan(r)
    /\ deleted \subseteq rows
    /\ deleted # {} => Resetting
    /\ \A q \in Requests : locks[q] # {} => Active(q)

\* Everything committed before a successful reset began is gone.
ResetClearsAll == \A r \in rows : r.born >= reset.done

\* A reset fails only if somebody was at work: on a quiet system it never trips
\* over a foreign key.
ResetFailsOnlyIfCrossed == reset.failed => reset.crossed

\* The demo reset is all or nothing and does not fail without a cause (main.go
\* postReset; "a failed reset blocks the golden demo").
ResetIsAtomic == ResetClearsAll /\ ResetFailsOnlyIfCrossed

\* An incident's graph names only stored events, unless a reset overlapped the
\* transaction that checked them: between its SELECTs and its COMMIT it may lose
\* them all (postgres.go PutIncident).
IncidentIsWhole == \A i \in Table("incidents") : ~i.raced => i.names \subseteq Events

\* An incident never names what a replay of it recorded, though replays record
\* under the execution the incident is detected from.
IncidentIsClean ==
    \A i \in Table("incidents"), r \in RunPosts :
        Find(Run(r)) # {} => ReplayEvent(r) \notin i.names

\* The evidence of an incident is there, and is evidence of the failure itself.
IncidentIsSound == IncidentIsWhole /\ IncidentIsClean

\* The baseline of every stored what-if is stored and of the same capsule digest:
\* no foreign key says so, only PutRun's lock and the order of the reset's
\* statements do.
BaselineRemains ==
    \A w \in Table("replay_runs"), b \in UNION {r.names : r \in Table("replay_runs")} :
        b \in w.names => Find(b) # {} /\ Row(b).stamp = w.stamp

\* "Re-requesting an already-compiled capsule returns the existing one rather
\* than failing with a conflict" (main.go postCapsule): a request that begins
\* when there is a capsule never compiles one, unless a reset overlaps it.
AlreadyCompiledIsReturned ==
    \A q \in CapsulePosts :
        got[q].met /\ pc[q] = "insertCapsule" => got[q].raced

Working == {q \in Requests : Active(q)}

\* The row a request is about to insert, and the run it is about to lock.
Inserting(q) ==
    CASE pc[q] = "insertIncident" -> IncidentRow(q)
      [] pc[q] = "insertCapsule"  -> CapsuleRow(q)
      [] pc[q] = "insertRun"      -> RunRow(q)
      [] pc[q] = "insertDiff"     -> DiffRow(q)

Locking(q) == Run(got[q].pair[IF pc[q] = "lockComparison" THEN 2 ELSE 1])

AwaitsReset(q) ==
    /\ pc[q] \in {"insertIncident", "insertCapsule", "insertRun", "insertDiff"}
    /\ ~Duplicate(Inserting(q)) /\ Waits(Inserting(q))

AwaitsLock(q) ==
    /\ pc[q] \in {"gate", "lockBaseline", "lockComparison"}
    /\ Find(Locking(q)) # {} /\ ~Lockable(q, Locking(q))

Awaits(q) == AwaitsReset(q) \/ AwaitsLock(q)

\* The reset comes by some row nobody has locked, or is in a deadlock.
ResetGoesOn ==
    /\ Resetting
    /\ \/ \E batch \in Batches : \A r \in batch, q \in Requests : Name(r) \notin locks[q]
       \/ \E q \in DiffPosts : Deadlocked(q)

\* Somebody at work waits for nobody: no lock is left behind on an error path, and
\* the locks of a diff, of a what-if and of the reset never close a circle PostgreSQL
\* does not break.
NobodyStuck ==
    Working # {} \/ Resetting => ResetGoesOn \/ \E q \in Working : ~Awaits(q)

\* Waiting for the reset and for a lock is all that keeps a handler from its next
\* statement.
OnlyWaitersStay ==
    /\ ResetGoesOn => ENABLED ResetStep
    /\ \A q \in Working : ~Awaits(q) => ENABLED Handle(q)

\* Whoever waits waits for somebody who can go on.
SomebodyMoves == NobodyStuck /\ OnlyWaitersStay

BaselineOf(r, names) ==
    IF r \in BaselinePosts THEN 0 ELSE CHOOSE b \in BaselinePosts : Run(b) \in names

\* What RunLifecycle shows of a run: a baseline that is COMPLETED has reproduced the
\* failure, a what-if has mitigated it.
Shown(r, row) ==
    [status   |-> row.status,
     verdict  |-> IF row.status # "COMPLETED" THEN "NONE"
                  ELSE IF r \in BaselinePosts THEN "REPRODUCED" ELSE "MITIGATED",
     baseline |-> BaselineOf(r, row.names)]

NotThere == [status |-> "ABSENT", verdict |-> "NONE", baseline |-> 0]

LifeIn(r, found) ==
    IF found = {} THEN NotThere ELSE Shown(r, CHOOSE row \in found : TRUE)

LifeOf(r) == LifeIn(r, {row \in rows : row.table = "replay_runs" /\ row.key = <<r>>})

Lifecycle == INSTANCE RunLifecycle WITH
    Ids <- RunPosts, life <- [r \in RunPosts |-> LifeOf(r)]

\* Handlers of several statements and a reset of six, among each other, still make one
\* step each of the contract's lifecycle of runs (RunLifecycle, which ReplayWorker
\* implements with a store whose operations are atomic): a what-if is created over a
\* COMPLETED baseline, and a reset removes all runs or, when it finds none and others
\* come while it is at the last tables, none.
ImplementsLifecycle == Lifecycle!Spec
=============================================================================
