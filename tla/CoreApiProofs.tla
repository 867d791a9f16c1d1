---------------------------- MODULE CoreApiProofs ----------------------------
(***************************************************************************)
(* Proofs about the Core API and the demo reset, for any number of         *)
(* requests, checkouts and resets.                                         *)
(*                                                                         *)
(* What the properties need and do not say: which rows a reset in progress *)
(* has deleted and which it still has to (Emptied), that nothing left      *)
(* refers to what is deleted (Unreferenced), and why a reset that has      *)
(* deleted a baseline cannot leave its what-if (RunsGoTogether): the rows  *)
(* of both refer to one capsule, which is deleted next, and a what-if that *)
(* came too late for the statement on runs fails the one on capsules.      *)
(* Why nobody is stuck is told further on, under who waits for whom, and   *)
(* how the runs go through the contract's lifecycle at the end.            *)
(***************************************************************************)
EXTENDS CoreApiProps, TLAPS

Tables == {"replay_diffs", "replay_runs", "replay_capsules", "execution_graphs", "incidents",
           "execution_events"}

Incident == <<"incidents", Golden>>
Capsule  == <<"replay_capsules", Golden>>

-----------------------------------------------------------------------------
(* The invariant.                                                          *)

\* A row has the fields of Blank, and the foreign keys of its table.
RowShape(r) ==
    /\ r = [table |-> r.table, key |-> r.key, refs |-> r.refs, names |-> r.names,
            stamp |-> r.stamp, status |-> r.status, raced |-> r.raced, born |-> r.born]
    /\ r.table \in Tables
    /\ r.born \in Nat
    /\ r.table = "replay_diffs" => \A n \in r.refs : n[1] = "replay_runs"
    /\ r.table = "replay_runs" => r.refs = {Capsule}
    /\ r.table \in {"replay_capsules", "execution_graphs"} => r.refs = {Incident}
    /\ r.table \in {"incidents", "execution_events"} => r.refs = {}

\* Nothing is older than the resets that have begun; while one is open and nothing
\* has crossed it, everything is older than it.
Ages ==
    \A r \in rows : /\ r.born <= reset.begun
                    /\ Resetting /\ ~reset.crossed => r.born < reset.begun

ResetShape ==
    /\ DOMAIN reset = {"at", "target", "begun", "done", "failed", "crossed"}
    /\ reset.at \in 0 .. 6 /\ reset.begun \in Nat /\ reset.done \in Nat
    /\ reset.done <= reset.begun
    /\ reset.failed \in BOOLEAN /\ reset.crossed \in BOOLEAN
    /\ Resetting => ~reset.failed
    /\ \A t \in reset.target : t.table = Order[reset.at]

RequestShape ==
    /\ pc = [q \in Requests |-> pc[q]]
    /\ locks = [q \in Requests |-> locks[q]]
    /\ got = [q \in Requests |-> got[q]]
    /\ \A q \in Requests :
         DOMAIN got[q] = {"nodes", "left", "stamp", "pair", "met", "raced"}

\* The events of a checkout that are still to come are not there.
EventsToCome ==
    /\ ingested \in Nat
    /\ \A i \in Nat : i >= ingested =>
         Find(<<"execution_events", CheckoutEvent((i \div 2) + 1, (i % 2) + 1)>>) = {}

\* A row that stays refers to a deleted one only while the statement that deleted it
\* is not over.
Unreferenced ==
    \A d \in deleted, r \in rows \ deleted :
        Name(d) \in r.refs => d.table = Order[reset.at]

\* The statements that are over have emptied their tables of what was there before the
\* reset; the present one has the rest of its table before it.
Emptied ==
    \A r \in rows \ deleted : Resetting /\ r.born < reset.begun =>
        /\ \E j \in reset.at .. 6 : r.table = Order[j]
        /\ r.table = Order[reset.at] => \E t \in reset.target : Name(t) = Name(r)

\* Once a run is deleted, its capsule is the next to go, and then no run is left.
RunsGoTogether ==
    (\E d \in deleted : d.table = "replay_runs") =>
        /\ reset.at = 3 => \E t \in reset.target : Name(t) = Capsule
        /\ reset.at > 3 => /\ Deleting(Capsule)
                           /\ \A r \in rows : r.table = "replay_runs" => r \in deleted

\* A what-if that is about to be inserted has its baseline locked.
BaselineIsLocked ==
    \A q \in WhatIfPosts : pc[q] = "insertRun" =>
        LET n == Run(got[q].pair[1])
        IN  /\ n \in locks[q] /\ ~Deleting(n) /\ Find(n) # {}
            /\ \A r \in Find(n) : r.stamp = got[q].stamp

\* What a baseline's what-if is: of the same digest.
BaselineIsThere ==
    \A w \in Table("replay_runs") : \A b \in w.names :
        /\ b[1] = "replay_runs"
        /\ Find(b) # {} /\ \A r \in Find(b) : r.stamp = w.stamp

\* The capsule a compilation has met is there until a reset begins.
MetStays ==
    \A q \in CapsulePosts :
        pc[q] \in {"events", "compile", "insertCapsule"} /\ got[q].met /\ ~got[q].raced =>
            ~Resetting /\ Table("replay_capsules") # {} /\ pc[q] # "insertCapsule"

\* A lock is held by a request at work.
LocksHeld == \A q \in Requests : locks[q] # {} => Active(q)

KeysUnique   == \A r, s \in rows : Name(r) = Name(s) => r = s
RefsThere    == \A r \in rows : \A n \in r.refs : Find(n) # {}
DeletedThere == deleted \subseteq rows /\ (deleted # {} => Resetting)

StoreInv ==
    /\ \A r \in rows : RowShape(r)
    /\ Ages /\ ResetShape /\ KeysUnique /\ RefsThere /\ DeletedThere
    /\ Unreferenced /\ Emptied /\ RunsGoTogether
    /\ ResetIsAtomic /\ BaselineIsThere

RequestInv == RequestShape /\ LocksHeld /\ BaselineIsLocked /\ MetStays

IInv == StoreInv /\ RequestInv /\ EventsToCome

-----------------------------------------------------------------------------
(* The statements of the reset.                                            *)

\* The tables in order, each once.
LEMMA OrderFacts ==
    /\ Order[1] = "replay_diffs" /\ Order[2] = "replay_runs" /\ Order[3] = "replay_capsules"
    /\ Order[4] = "execution_graphs" /\ Order[5] = "incidents" /\ Order[6] = "execution_events"
    /\ Len(Order) = 6
    /\ \A j \in 1 .. 6 : Order[j] \in Tables
    /\ \A t \in Tables : \E j \in 1 .. 6 : t = Order[j]
    /\ \A i, j \in 1 .. 6 : Order[i] = Order[j] => i = j
  <1>1. /\ Order[1] = "replay_diffs" /\ Order[2] = "replay_runs" /\ Order[3] = "replay_capsules"
        /\ Order[4] = "execution_graphs" /\ Order[5] = "incidents"
        /\ Order[6] = "execution_events" /\ Len(Order) = 6
    BY DEF Order, Statements
  <1>2. \A j \in 1 .. 6 : j = 1 \/ j = 2 \/ j = 3 \/ j = 4 \/ j = 5 \/ j = 6
    OBVIOUS
  <1>3. \A j \in 1 .. 6 : Order[j] \in Tables
    BY <1>1, <1>2 DEF Tables
  <1>4. \A t \in Tables : \E j \in 1 .. 6 : t = Order[j]
    BY <1>1 DEF Tables
  <1>5. \A i, j \in 1 .. 6 : Order[i] = Order[j] => i = j
    BY <1>1, <1>2
  <1> QED
    BY <1>1, <1>3, <1>4, <1>5

-----------------------------------------------------------------------------
(* What the handlers do to the store: nothing, an insertion or an update.  *)

\* New rows: their names are free, what they refer to is there and stays, and a
\* what-if has its baseline.
DbInsert(new) ==
    /\ rows' = rows \cup new /\ deleted' = deleted
    /\ reset' = [reset EXCEPT !.crossed = @ \/ Resetting]
    /\ \A r \in new :
         /\ RowShape(r) /\ r.born = reset.begun /\ Find(Name(r)) = {}
         /\ \A n \in r.refs : ~Deleting(n) /\ \E s \in rows \cup new : Name(s) = n
         /\ r.table = "replay_runs" => \A b \in r.names :
               b[1] = "replay_runs" /\ Find(b) # {} /\ \A s \in Find(b) : s.stamp = r.stamp
    /\ \A r, s \in new : Name(r) = Name(s) => r = s

\* A run that no reset has deleted gets another status.
DbUpdate(old, new) ==
    /\ old \in rows /\ ~Deleting(Name(old)) /\ old.table = "replay_runs"
    /\ rows' = (rows \ {old}) \cup {new}
    /\ UNCHANGED <<deleted, reset>>
    /\ new.table = old.table /\ new.key = old.key /\ new.refs = old.refs
    /\ new.names = old.names /\ new.stamp = old.stamp /\ new.born = old.born
    /\ RowShape(new)

\* A new row has a name no row had, so that the rows of other names stay.
LEMMA InsertFind ==
    ASSUME NEW new, DbInsert(new), NEW n, Find(n) # {}
    PROVE  Find(n)' = Find(n)
  BY DEF DbInsert, Find, Name

\* An update keeps the rows of each name, but for the status.
LEMMA UpdateFind ==
    ASSUME NEW old, NEW new, DbUpdate(old, new), NEW n
    PROVE  /\ Find(n) # {} => Find(n)' # {}
           /\ Find(n) = {} => Find(n)' = {}
           /\ \A s \in Find(n)' : \E r \in Find(n) : s.stamp = r.stamp /\ s.table = r.table
  BY DEF DbUpdate, Find, Name

\* An insertion preserves what the store and the reset rely on.
LEMMA InsertKeeps ==
    ASSUME StoreInv, NEW new, DbInsert(new)
    PROVE  StoreInv'
  <1>1. /\ reset'.at = reset.at /\ reset'.target = reset.target
        /\ reset'.begun = reset.begun /\ reset'.done = reset.done
        /\ reset'.failed = reset.failed /\ reset'.crossed = (reset.crossed \/ Resetting)
        /\ DOMAIN reset' = DOMAIN reset
    BY DEF StoreInv, ResetShape, DbInsert
  <1>2. deleted' = deleted /\ rows' = rows \cup new
    BY DEF DbInsert
  <1>3. \A r \in rows' : RowShape(r)
    BY <1>2 DEF DbInsert, StoreInv
  <1>4. Ages'
    <2>1. Resetting' => reset'.crossed
      BY <1>1 DEF Resetting
    <2>2. \A r \in rows' : r.born <= reset'.begun
      BY <1>1, <1>2 DEF DbInsert, StoreInv, Ages, RowShape, ResetShape
    <2> QED
      BY <2>1, <2>2 DEF Ages
  <1>5. ResetShape'
    BY <1>1 DEF StoreInv, ResetShape, Resetting, Order
  <1>6. KeysUnique'
    BY <1>2 DEF DbInsert, StoreInv, KeysUnique, Find
  <1>7. RefsThere'
    BY <1>2 DEF DbInsert, StoreInv, RefsThere, Find
  <1>8. DeletedThere'
    BY <1>1, <1>2 DEF StoreInv, DeletedThere, Resetting
  <1>9. Unreferenced'
    BY <1>1, <1>2 DEF DbInsert, StoreInv, Unreferenced, Deleting, Order
  <1>10. Emptied'
    BY <1>1, <1>2 DEF DbInsert, StoreInv, Emptied, Resetting, Order, ResetShape
  <1>11. RunsGoTogether'
    <2> SUFFICES ASSUME \E d \in deleted : d.table = "replay_runs"
                 PROVE  RunsGoTogether'
      BY <1>2 DEF RunsGoTogether
    <2>1. reset'.at = 3 => \E t \in reset'.target : Name(t) = Capsule
      BY <1>1 DEF StoreInv, RunsGoTogether
    <2>2. ASSUME reset'.at > 3
          PROVE  Deleting(Capsule)' /\ \A r \in rows' : r.table = "replay_runs" => r \in deleted'
      <3>1. Deleting(Capsule) /\ \A r \in rows : r.table = "replay_runs" => r \in deleted
        BY <1>1, <2>2 DEF StoreInv, RunsGoTogether
      <3>2. \A r \in new : r.table # "replay_runs"
        BY <3>1 DEF DbInsert, RowShape
      <3> QED
        BY <1>2, <3>1, <3>2 DEF Deleting
    <2> QED
      BY <2>1, <2>2 DEF RunsGoTogether
  <1>12. ResetIsAtomic'
    BY <1>1, <1>2 DEF DbInsert, StoreInv, ResetIsAtomic, ResetClearsAll, ResetFailsOnlyIfCrossed, ResetShape
  <1>13. BaselineIsThere'
    <2>1. \A w \in Table("replay_runs")' : \A b \in w.names :
             b[1] = "replay_runs" /\ Find(b) # {} /\ \A r \in Find(b) : r.stamp = w.stamp
      BY <1>2 DEF DbInsert, StoreInv, BaselineIsThere, Table
    <2> QED
      BY <2>1, InsertFind DEF BaselineIsThere
  <1> QED
    BY <1>3, <1>4, <1>5, <1>6, <1>7, <1>8, <1>9, <1>10, <1>11, <1>12, <1>13 DEF StoreInv

\* A change of a run's status preserves what the store and the reset rely on.
LEMMA UpdateKeeps ==
    ASSUME StoreInv, NEW old, NEW new, DbUpdate(old, new)
    PROVE  StoreInv'
  <1>1. reset' = reset /\ deleted' = deleted /\ rows' = (rows \ {old}) \cup {new} /\ old \in rows
    BY DEF DbUpdate
  <1>2. old \notin deleted /\ new \notin deleted /\ Name(new) = Name(old)
    BY DEF DbUpdate, Deleting, Name
  <1>3. \A r \in rows' : RowShape(r)
    BY <1>1 DEF DbUpdate, StoreInv
  <1>4. Ages' /\ ResetShape'
    BY <1>1 DEF DbUpdate, StoreInv, Ages, ResetShape, Resetting, Order
  <1>5. KeysUnique'
    BY <1>1, <1>2 DEF StoreInv, KeysUnique
  <1>6. RefsThere'
    BY <1>1, UpdateFind DEF DbUpdate, StoreInv, RefsThere
  <1>7. DeletedThere'
    BY <1>1, <1>2 DEF StoreInv, DeletedThere, Resetting
  <1>8. Unreferenced'
    BY <1>1, <1>2 DEF DbUpdate, StoreInv, Unreferenced, Order, Name
  <1>9. Emptied'
    BY <1>1, <1>2 DEF DbUpdate, StoreInv, Emptied, Resetting, Order, Name
  <1>10. RunsGoTogether'
    BY <1>1, <1>2 DEF DbUpdate, StoreInv, RunsGoTogether, Deleting
  <1>11. ResetIsAtomic'
    BY <1>1 DEF DbUpdate, StoreInv, ResetIsAtomic, ResetClearsAll, ResetFailsOnlyIfCrossed
  <1>12. BaselineIsThere'
    <2>1. \A w \in Table("replay_runs")' : \E v \in Table("replay_runs") :
             w.names = v.names /\ w.stamp = v.stamp
      BY <1>1 DEF DbUpdate, Table
    <2> QED
      BY <2>1, UpdateFind DEF StoreInv, BaselineIsThere
  <1> QED
    BY <1>3, <1>4, <1>5, <1>6, <1>7, <1>8, <1>9, <1>10, <1>11, <1>12 DEF StoreInv

-----------------------------------------------------------------------------
(* The reset itself.                                                       *)

\* The statement on the first table is prepared.
LEMMA BeginKeeps ==
    ASSUME StoreInv, BeginReset
    PROVE  StoreInv'
  <1>1. /\ reset.at = 0 /\ rows' = rows /\ deleted' = deleted
        /\ reset'.at = 1 /\ reset'.target = Table(Order[1])
        /\ reset'.begun = reset.begun + 1 /\ reset'.done = reset.done
        /\ reset'.failed = FALSE /\ reset'.crossed \in BOOLEAN
        /\ DOMAIN reset' = DOMAIN reset
    BY DEF StoreInv, ResetShape, BeginReset, Resetting
  <1>2. deleted = {}
    BY <1>1 DEF StoreInv, DeletedThere, Resetting
  <1>3. \A r \in rows' : RowShape(r) /\ r.born < reset'.begun
    BY <1>1 DEF StoreInv, Ages, RowShape, ResetShape
  <1>4. Ages'
    BY <1>1, <1>3 DEF StoreInv, Ages, RowShape, ResetShape
  <1>5. ResetShape'
    <2>1. \A t \in reset'.target : t.table = Order[reset'.at]
      BY <1>1 DEF Table
    <2>2. reset'.begun \in Nat /\ reset'.done \in Nat /\ reset'.done <= reset'.begun
      BY <1>1 DEF StoreInv, ResetShape
    <2>3. reset'.at \in 0 .. 6
      BY <1>1
    <2>4. reset'.failed \in BOOLEAN /\ reset'.crossed \in BOOLEAN /\ ~reset'.failed
      BY <1>1
    <2>5. DOMAIN reset' = {"at", "target", "begun", "done", "failed", "crossed"}
      BY <1>1 DEF StoreInv, ResetShape
    <2> QED
      BY <2>1, <2>2, <2>3, <2>4, <2>5 DEF ResetShape
  <1>6. KeysUnique' /\ RefsThere' /\ BaselineIsThere'
    BY <1>1 DEF StoreInv, KeysUnique, RefsThere, BaselineIsThere, Table, Find
  <1>7. DeletedThere' /\ Unreferenced' /\ RunsGoTogether'
    BY <1>1, <1>2 DEF DeletedThere, Unreferenced, RunsGoTogether
  <1>8. Emptied'
    <2>1. ASSUME NEW r \in rows
          PROVE  \E j \in 1 .. 6 : r.table = Order[j]
      BY OrderFacts DEF StoreInv, RowShape
    <2> QED
      BY <1>1, <2>1 DEF Emptied, Table, Order
  <1>9. ResetIsAtomic'
    BY <1>1 DEF StoreInv, ResetIsAtomic, ResetClearsAll, ResetFailsOnlyIfCrossed
  <1> QED
    BY <1>3, <1>4, <1>5, <1>6, <1>7, <1>8, <1>9 DEF StoreInv

\* What is gone once a batch is deleted.
Gone(batch) == deleted \cup UNION {Cascade(Name(r)) : r \in batch}

\* A batch goes with all rows of its names, and with graphs.
LEMMA GoneIs ==
    ASSUME StoreInv, Resetting, NEW batch \in Batches
    PROVE  /\ batch \subseteq reset.target
           /\ Order[reset.at] # "replay_runs" => batch = reset.target
           /\ deleted \subseteq Gone(batch) /\ Gone(batch) \subseteq rows
           /\ \A r \in rows : (\E t \in batch : Name(t) = Name(r)) => r \in Gone(batch)
           /\ \A d \in Gone(batch) :
                 \/ d \in deleted
                 \/ d.table = Order[reset.at] /\ \E t \in batch : Name(t) = Name(d)
                 \/ d.table = "execution_graphs"
           /\ reset.at \in 1 .. 6
  <1>1. /\ batch \subseteq reset.target
        /\ Order[reset.at] # "replay_runs" => batch = reset.target
    BY DEF Batches
  <1>2. deleted \subseteq Gone(batch) /\ Gone(batch) \subseteq rows
    BY DEF Gone, Cascade, Find, Table, StoreInv, DeletedThere
  <1>3. ASSUME NEW r \in rows, NEW t \in batch, Name(t) = Name(r)
        PROVE  r \in Gone(batch)
    BY <1>3 DEF Gone, Cascade, Find
  <1>4. ASSUME NEW d \in Gone(batch), d \notin deleted
        PROVE  \/ d.table = Order[reset.at] /\ \E t \in batch : Name(t) = Name(d)
               \/ d.table = "execution_graphs"
    <2>1. PICK t \in batch : d \in Cascade(Name(t))
      BY <1>4 DEF Gone
    <2>2. t.table = Order[reset.at]
      BY <1>1 DEF StoreInv, ResetShape
    <2> QED
      BY <2>1, <2>2 DEF Cascade, Find, Name, Table
  <1>5. reset.at \in 1 .. 6
    BY DEF Resetting, StoreInv, ResetShape
  <1> QED
    BY <1>1, <1>2, <1>3, <1>4, <1>5

\* At the end of a statement nothing refers to what is gone.
LEMMA NothingRefers ==
    ASSUME StoreInv, Resetting, NEW batch \in Batches, ~Referenced(Gone(batch)),
           NEW d \in Gone(batch), NEW r \in rows \ Gone(batch)
    PROVE  Name(d) \notin r.refs
  <1>1. CASE d.table = Order[reset.at]
    BY <1>1 DEF Referenced
  <1>2. CASE d.table # Order[reset.at] /\ d \in deleted
    BY <1>2, GoneIs DEF StoreInv, Unreferenced
  <1>3. CASE d.table = "execution_graphs"
    BY <1>3 DEF StoreInv, RowShape, Name, Capsule, Incident, Tables
  <1> QED
    BY <1>1, <1>2, <1>3, GoneIs

\* At the end of a statement its table has no row left from before the reset.
LEMMA TableIsEmptied ==
    ASSUME StoreInv, Resetting, NEW batch \in Batches, batch = reset.target,
           NEW r \in rows \ Gone(batch), r.born < reset.begun
    PROVE  \E j \in reset.at + 1 .. 6 : r.table = Order[j]
  <1>1. r \in rows \ deleted
    BY GoneIs
  <1>2. PICK j \in reset.at .. 6 : r.table = Order[j]
    BY <1>1 DEF StoreInv, Emptied
  <1>3. r.table # Order[reset.at]
    BY <1>1, GoneIs DEF StoreInv, Emptied
  <1> QED
    BY <1>2, <1>3, GoneIs

\* A statement that has emptied its table has taken the capsule of deleted runs
\* with it, and every run.
LEMMA RunsGoWithCapsule ==
    ASSUME StoreInv, Resetting, NEW batch \in Batches, batch = reset.target,
           ~Referenced(Gone(batch)), NEW d \in Gone(batch), d.table = "replay_runs",
           reset.at > 2
    PROVE  /\ \E c \in Gone(batch) : Name(c) = Capsule
           /\ \A r \in rows : r.table = "replay_runs" => r \in Gone(batch)
  <1>1. d \in deleted /\ d \in rows
    BY OrderFacts, GoneIs
  <1>2. \E c \in Gone(batch) : Name(c) = Capsule
    <2>1. CASE reset.at = 3
      <3>1. PICK t \in batch : Name(t) = Capsule
        BY <1>1, <2>1 DEF StoreInv, RunsGoTogether
      <3>2. PICK c \in rows : Name(c) = Capsule
        BY <1>1 DEF StoreInv, RowShape, RefsThere, Find
      <3> QED
        BY <3>1, <3>2, GoneIs
    <2>2. CASE reset.at > 3
      BY <1>1, <2>2, GoneIs DEF StoreInv, RunsGoTogether, Deleting
    <2> QED
      BY <2>1, <2>2, GoneIs
  <1>3. ASSUME NEW r \in rows, r.table = "replay_runs", r \notin Gone(batch)
        PROVE  FALSE
    <2>1. r.refs = {Capsule}
      BY <1>3 DEF StoreInv, RowShape
    <2> QED
      BY <1>2, <1>3, <2>1, NothingRefers
  <1> QED
    BY <1>2, <1>3

\* Deleting some runs of a statement that goes on.
LEMMA DeleteSomeKeeps ==
    ASSUME StoreInv, Resetting, NEW batch \in Batches, reset.target \ batch # {},
           deleted' = Gone(batch), reset' = [reset EXCEPT !.target = reset.target \ batch],
           rows' = rows
    PROVE  StoreInv'
  <1>1. /\ reset'.at = reset.at /\ reset'.target = reset.target \ batch
        /\ reset'.begun = reset.begun /\ reset'.done = reset.done
        /\ reset'.failed = reset.failed /\ reset'.crossed = reset.crossed
        /\ DOMAIN reset' = DOMAIN reset
    BY DEF StoreInv, ResetShape
  <1>2. Order[reset.at] = "replay_runs" /\ reset.at = 2 /\ \E r \in reset.target : batch = {r}
    <2>1. Order[reset.at] = "replay_runs"
      BY GoneIs
    <2> QED
      BY <2>1, OrderFacts, GoneIs DEF Batches
  <1>3. (\A r \in rows' : RowShape(r)) /\ Ages' /\ KeysUnique' /\ RefsThere' /\ BaselineIsThere'
    BY <1>1 DEF StoreInv, Ages, KeysUnique, RefsThere, BaselineIsThere, Table, Find, Resetting
  <1>4. ResetShape'
    BY <1>1 DEF StoreInv, ResetShape, Resetting
  <1>5. DeletedThere'
    BY <1>1, GoneIs DEF DeletedThere, Resetting
  <1>6. Unreferenced'
    <2>1. ASSUME NEW d \in Gone(batch), NEW r \in rows \ Gone(batch), Name(d) \in r.refs
          PROVE  d.table = Order[reset.at]
      <3>1. d.table # "execution_graphs"
        BY <2>1 DEF StoreInv, RowShape, Name, Capsule, Incident, Tables
      <3> QED
        BY <2>1, <3>1, GoneIs DEF StoreInv, Unreferenced
    <2> QED
      BY <1>1, <2>1 DEF Unreferenced
  <1>7. Emptied'
    <2>1. ASSUME NEW r \in rows \ Gone(batch), r.born < reset.begun, r.table = Order[reset.at]
          PROVE  \E t \in reset.target \ batch : Name(t) = Name(r)
      <3>1. PICK t \in reset.target : Name(t) = Name(r)
        BY <2>1, GoneIs DEF StoreInv, Emptied
      <3>2. t \notin batch
        BY <2>1, <3>1, GoneIs
      <3> QED
        BY <3>1, <3>2
    <2> QED
      BY <1>1, <2>1, GoneIs DEF StoreInv, Emptied, Resetting
  <1>8. RunsGoTogether'
    BY <1>1, <1>2 DEF RunsGoTogether
  <1>9. ResetIsAtomic'
    BY <1>1 DEF StoreInv, ResetIsAtomic, ResetClearsAll, ResetFailsOnlyIfCrossed
  <1> QED
    BY <1>3, <1>4, <1>5, <1>6, <1>7, <1>8, <1>9 DEF StoreInv

\* Going on to the next table.
LEMMA NextTableKeeps ==
    ASSUME StoreInv, Resetting, NEW batch \in Batches, batch = reset.target,
           ~Referenced(Gone(batch)), reset.at < 6, deleted' = Gone(batch),
           reset' = [reset EXCEPT !.at = reset.at + 1, !.target = Table(Order[reset.at + 1])],
           rows' = rows
    PROVE  StoreInv'
  <1>1. /\ reset'.at = reset.at + 1 /\ reset'.target = Table(Order[reset.at + 1])
        /\ reset'.begun = reset.begun /\ reset'.done = reset.done
        /\ reset'.failed = reset.failed /\ reset'.crossed = reset.crossed
        /\ DOMAIN reset' = DOMAIN reset
        /\ reset.at \in 1 .. 5
    BY GoneIs DEF StoreInv, ResetShape
  <1>2. Resetting'
    BY <1>1 DEF Resetting
  <1>3. (\A r \in rows' : RowShape(r)) /\ Ages' /\ KeysUnique' /\ RefsThere' /\ BaselineIsThere'
    BY <1>1 DEF StoreInv, Ages, KeysUnique, RefsThere, BaselineIsThere, Table, Find, Resetting
  <1>4. ResetShape'
    <2>1. \A t \in reset'.target : t.table = Order[reset'.at]
      BY <1>1 DEF Table
    <2>2. reset'.at \in 0 .. 6
      BY <1>1
    <2> QED
      BY <1>1, <2>1, <2>2 DEF StoreInv, ResetShape
  <1>5. DeletedThere'
    BY <1>2, GoneIs DEF DeletedThere
  <1>6. Unreferenced'
    BY NothingRefers DEF Unreferenced
  <1>7. Emptied'
    <2>1. ASSUME NEW r \in rows \ Gone(batch), r.born < reset.begun
          PROVE  \E j \in reset'.at .. 6 : r.table = Order[j]
      BY <1>1, <2>1, TableIsEmptied
    <2>2. ASSUME NEW r \in rows, r.table = Order[reset'.at]
          PROVE  r \in reset'.target
      BY <1>1, <2>2 DEF Table
    <2> QED
      BY <1>1, <2>1, <2>2 DEF Emptied
  <1>8. RunsGoTogether'
    <2> SUFFICES ASSUME NEW d \in Gone(batch), d.table = "replay_runs"
                 PROVE  /\ reset'.at = 3 => \E t \in reset'.target : Name(t) = Capsule
                        /\ reset'.at > 3 => /\ \E c \in Gone(batch) : Name(c) = Capsule
                                            /\ \A r \in rows : r.table = "replay_runs" => r \in Gone(batch)
      BY DEF RunsGoTogether, Deleting
    <2>1. ASSUME reset'.at = 3
          PROVE  \E t \in reset'.target : Name(t) = Capsule
      <3>1. reset'.target = Table("replay_capsules")
        BY <1>1, <2>1, OrderFacts
      <3>2. PICK c \in rows : Name(c) = Capsule
        BY GoneIs DEF StoreInv, RowShape, RefsThere, Find
      <3> QED
        BY <3>1, <3>2 DEF Table, Name, Capsule
    <2>2. ASSUME reset'.at > 3
          PROVE  /\ \E c \in Gone(batch) : Name(c) = Capsule
                 /\ \A r \in rows : r.table = "replay_runs" => r \in Gone(batch)
      BY <1>1, <2>2, RunsGoWithCapsule
    <2> QED
      BY <2>1, <2>2
  <1>9. ResetIsAtomic'
    BY <1>1 DEF StoreInv, ResetIsAtomic, ResetClearsAll, ResetFailsOnlyIfCrossed
  <1> QED
    BY <1>3, <1>4, <1>5, <1>6, <1>7, <1>8, <1>9 DEF StoreInv

\* The COMMIT: whatever was there before the reset is gone, and what is left still
\* has all it refers to.
LEMMA CommitKeeps ==
    ASSUME StoreInv, Resetting, NEW batch \in Batches, batch = reset.target,
           ~Referenced(Gone(batch)), reset.at = 6, Commit(Gone(batch))
    PROVE  StoreInv'
  <1>1. /\ reset'.at = 0 /\ reset'.target = {}
        /\ reset'.begun = reset.begun /\ reset'.done = reset.begun
        /\ reset'.failed = reset.failed /\ reset'.crossed = FALSE
        /\ DOMAIN reset' = DOMAIN reset
        /\ rows' = rows \ Gone(batch) /\ deleted' = {}
    BY DEF StoreInv, ResetShape, Commit
  <1>2. ~Resetting'
    BY <1>1 DEF Resetting
  <1>3. (\A r \in rows' : RowShape(r)) /\ Ages' /\ KeysUnique'
    BY <1>1, <1>2 DEF StoreInv, Ages, KeysUnique
  <1>4. ResetShape'
    <2>1. reset'.at \in 0 .. 6 /\ reset'.done \in Nat /\ reset'.done <= reset'.begun
      BY <1>1 DEF StoreInv, ResetShape
    <2>2. reset'.failed \in BOOLEAN /\ reset'.crossed \in BOOLEAN
      BY <1>1 DEF StoreInv, ResetShape
    <2> QED
      BY <1>1, <1>2, <2>1, <2>2 DEF StoreInv, ResetShape
  <1>5. RefsThere'
    <2>1. ASSUME NEW r \in rows \ Gone(batch), NEW n \in r.refs
          PROVE  \E s \in rows \ Gone(batch) : Name(s) = n
      <3>1. PICK s \in rows : Name(s) = n
        BY <2>1 DEF StoreInv, RefsThere, Find
      <3> QED
        BY <2>1, <3>1, NothingRefers
    <2> QED
      BY <1>1, <2>1 DEF RefsThere, Find
  <1>6. DeletedThere' /\ Unreferenced' /\ RunsGoTogether' /\ Emptied'
    BY <1>1, <1>2 DEF DeletedThere, Unreferenced, RunsGoTogether, Emptied
  <1>7. ResetIsAtomic'
    <2>1. ASSUME NEW r \in rows \ Gone(batch)
          PROVE  r.born >= reset.begun
      <3>1. ~(r.born < reset.begun)
        BY TableIsEmptied
      <3> QED
        BY <3>1 DEF StoreInv, RowShape, ResetShape
    <2> QED
      BY <1>1, <2>1 DEF StoreInv, ResetShape, ResetIsAtomic, ResetClearsAll, ResetFailsOnlyIfCrossed
  <1>8. BaselineIsThere'
    <2> SUFFICES ASSUME NEW w \in rows \ Gone(batch), w.table = "replay_runs", NEW b \in w.names
                 PROVE  /\ b[1] = "replay_runs"
                        /\ Find(b)' # {} /\ \A r \in Find(b)' : r.stamp = w.stamp
      BY <1>1 DEF BaselineIsThere, Table
    <2>1. Find(b) # {} /\ \A r \in Find(b) : r.stamp = w.stamp
      BY DEF StoreInv, BaselineIsThere, Table
    <2>2. \A d \in Gone(batch) : d.table # "replay_runs"
      BY RunsGoWithCapsule
    <2>3. b[1] = "replay_runs"
      BY DEF StoreInv, BaselineIsThere, Table
    <2> QED
      BY <1>1, <2>1, <2>2, <2>3 DEF Find, Name
  <1> QED
    BY <1>3, <1>4, <1>5, <1>6, <1>7, <1>8 DEF StoreInv

\* A rollback undoes the deletions.
LEMMA RollbackKeeps ==
    ASSUME StoreInv, Rollback, reset.crossed \/ \E q \in Requests : Active(q)
    PROVE  StoreInv'
  <1>1. /\ reset'.at = 0 /\ reset'.target = {}
        /\ reset'.begun = reset.begun /\ reset'.done = reset.done
        /\ reset'.failed = TRUE /\ reset'.crossed = TRUE
        /\ DOMAIN reset' = DOMAIN reset
        /\ rows' = rows /\ deleted' = {}
    BY DEF StoreInv, ResetShape, Rollback
  <1>2. ~Resetting'
    BY <1>1 DEF Resetting
  <1>3. /\ \A r \in rows' : RowShape(r)
        /\ Ages' /\ KeysUnique' /\ RefsThere' /\ BaselineIsThere'
    BY <1>1, <1>2 DEF StoreInv, Ages, KeysUnique, RefsThere, BaselineIsThere, Table, Find
  <1>4. ResetShape'
    <2>1. reset'.at \in 0 .. 6
      BY <1>1
    <2>2. reset'.failed \in BOOLEAN /\ reset'.crossed \in BOOLEAN
      BY <1>1
    <2> QED
      BY <1>1, <1>2, <2>1, <2>2 DEF StoreInv, ResetShape
  <1>5. DeletedThere' /\ Unreferenced' /\ RunsGoTogether' /\ Emptied'
    BY <1>1, <1>2 DEF DeletedThere, Unreferenced, RunsGoTogether, Emptied
  <1>6. ResetIsAtomic'
    BY <1>1 DEF StoreInv, ResetIsAtomic, ResetClearsAll, ResetFailsOnlyIfCrossed
  <1> QED
    BY <1>3, <1>4, <1>5, <1>6 DEF StoreInv

\* A foreign key fails a statement only if somebody has inserted a row meanwhile: what
\* refers to a table is in an earlier one.
LEMMA FailsOnlyIfCrossed ==
    ASSUME StoreInv, Resetting, NEW batch \in Batches, Referenced(Gone(batch)), ~reset.crossed
    PROVE  FALSE
  <1>1. PICK d \in Gone(batch) :
           d.table = Order[reset.at] /\ \E r \in rows \ Gone(batch) : Name(d) \in r.refs
    BY DEF Referenced
  <1>2. PICK r \in rows \ Gone(batch) : Name(d) \in r.refs
    BY <1>1
  <1>3. r \in rows \ deleted /\ r.born < reset.begun /\ RowShape(r) /\ d \in rows
    BY GoneIs DEF StoreInv, Ages
  <1>4. PICK j \in reset.at .. 6 : r.table = Order[j]
    BY <1>3 DEF StoreInv, Emptied
  <1>5. reset.at \in 1 .. 6
    BY GoneIs
  <1>6. \/ d.table = "replay_runs" /\ r.table = "replay_diffs"
        \/ d.table = "replay_capsules" /\ r.table = "replay_runs"
        \/ d.table = "incidents" /\ r.table \in {"replay_capsules", "execution_graphs"}
    BY <1>2, <1>3 DEF RowShape, Name, Capsule, Incident, Tables
  <1>7. \/ reset.at = 2 /\ j = 1
        \/ reset.at = 3 /\ j = 2
        \/ reset.at = 5 /\ j \in {3, 4}
    BY <1>1, <1>4, <1>5, <1>6, OrderFacts
  <1> QED
    BY <1>4, <1>7

\* Every turn of a DELETE preserves what the store and the reset rely on.
LEMMA DeleteKeeps ==
    ASSUME StoreInv, DeleteRows
    PROVE  StoreInv'
  <1>1. Resetting
    BY DEF DeleteRows
  <1>2. PICK batch \in Batches :
          CASE reset.target \ batch # {} ->
                 /\ deleted' = Gone(batch)
                 /\ reset' = [reset EXCEPT !.target = reset.target \ batch]
                 /\ UNCHANGED rows
            [] reset.target \ batch = {} /\ Referenced(Gone(batch)) -> Rollback
            [] reset.target \ batch = {} /\ ~Referenced(Gone(batch)) /\ reset.at < Len(Order) ->
                 /\ deleted' = Gone(batch)
                 /\ reset' = [reset EXCEPT !.at = reset.at + 1,
                                           !.target = Table(Order[reset.at + 1])]
                 /\ UNCHANGED rows
            [] OTHER -> Commit(Gone(batch))
    BY DEF DeleteRows, Gone
  <1>3. CASE reset.target \ batch # {}
    BY <1>1, <1>2, <1>3, DeleteSomeKeeps
  <1>4. CASE reset.target \ batch = {}
    <2>1. batch = reset.target
      BY <1>1, <1>4, GoneIs
    <2>2. CASE Referenced(Gone(batch))
      <3>1. Rollback
        BY <1>2, <1>4, <2>2
      <3>2. reset.crossed
        BY <1>1, <2>2, FailsOnlyIfCrossed DEF StoreInv, ResetShape
      <3> QED
        BY <3>1, <3>2, RollbackKeeps
    <2>3. CASE ~Referenced(Gone(batch)) /\ reset.at < 6
      <3>1. /\ deleted' = Gone(batch)
            /\ reset' = [reset EXCEPT !.at = reset.at + 1,
                                      !.target = Table(Order[reset.at + 1])]
            /\ rows' = rows
        BY <1>2, <1>4, <2>3, OrderFacts
      <3> QED
        BY <1>1, <2>1, <2>3, <3>1, NextTableKeeps
    <2>4. CASE ~Referenced(Gone(batch)) /\ ~(reset.at < 6)
      <3>1. reset.at = 6
        BY <1>1, <2>4, GoneIs
      <3>2. Commit(Gone(batch))
        BY <1>2, <1>4, <2>4, OrderFacts
      <3> QED
        BY <1>1, <2>1, <2>4, <3>1, <3>2, CommitKeeps
    <2> QED
      BY <2>2, <2>3, <2>4
  <1> QED
    BY <1>3, <1>4

-----------------------------------------------------------------------------
(* Requests.                                                               *)

\* What a handler or the worker may do to the store in one statement.
DbStep ==
    \/ UNCHANGED dbVars
    \/ \E new : DbInsert(new)
    \/ \E old, new : DbUpdate(old, new)

HasStamp(n, stamp) == ~Deleting(n) /\ Find(n) # {} /\ \A r \in Find(n) : r.stamp = stamp

\* Nobody but q goes on.
OnlyMoves(q) ==
    \A p \in Requests \ {q} : pc'[p] = pc[p] /\ got'[p] = got[p] /\ locks'[p] = locks[p]

\* A statement of a handler preserves what the store relies on.
LEMMA DbStepKeeps ==
    ASSUME StoreInv, DbStep
    PROVE  StoreInv'
  <1>1. CASE UNCHANGED dbVars
    BY <1>1 DEF dbVars, StoreInv, Ages, ResetShape, KeysUnique, RefsThere, DeletedThere,
                Unreferenced, Emptied, RunsGoTogether, ResetIsAtomic, ResetClearsAll,
                ResetFailsOnlyIfCrossed, BaselineIsThere, Resetting, Table, Find, Deleting
  <1>2. CASE \E new : DbInsert(new)
    BY <1>2, InsertKeeps
  <1>3. CASE \E old, new : DbUpdate(old, new)
    BY <1>3, UpdateKeeps
  <1> QED
    BY <1>1, <1>2, <1>3 DEF DbStep

\* A statement of a handler keeps rows, their stamps and the state of the reset.
LEMMA DbStepKeepsRows ==
    ASSUME StoreInv, DbStep
    PROVE  /\ Resetting' = Resetting
           /\ \A n, stamp : HasStamp(n, stamp) => HasStamp(n, stamp)'
           /\ Table("replay_capsules") # {} => Table("replay_capsules")' # {}
  <1>1. CASE UNCHANGED dbVars
    BY <1>1 DEF dbVars, HasStamp, Resetting, Table, Find, Deleting
  <1>2. CASE \E new : DbInsert(new)
    <2>1. PICK new : DbInsert(new)
      BY <1>2
    <2>2. Resetting' = Resetting
      BY <2>1 DEF DbInsert, Resetting, StoreInv, ResetShape
    <2>3. Table("replay_capsules") # {} => Table("replay_capsules")' # {}
      BY <2>1 DEF DbInsert, Table
    <2>4. ASSUME NEW n, NEW stamp, HasStamp(n, stamp) PROVE HasStamp(n, stamp)'
      BY <2>1, <2>4, InsertFind DEF DbInsert, HasStamp, Deleting
    <2> QED
      BY <2>2, <2>3, <2>4
  <1>3. CASE \E old, new : DbUpdate(old, new)
    <2>1. PICK old, new : DbUpdate(old, new)
      BY <1>3
    <2>2. Resetting' = Resetting
      BY <2>1 DEF DbUpdate, Resetting
    <2>3. Table("replay_capsules") # {} => Table("replay_capsules")' # {}
      BY <2>1 DEF DbUpdate, Table
    <2>4. ASSUME NEW n, NEW stamp, HasStamp(n, stamp) PROVE HasStamp(n, stamp)'
      BY <2>1, <2>4, UpdateFind DEF DbUpdate, HasStamp, Deleting
    <2> QED
      BY <2>2, <2>3, <2>4
  <1> QED
    BY <1>1, <1>2, <1>3 DEF DbStep

\* A request that goes on preserves what is known of requests, if what is known of
\* itself holds.
LEMMA RequestKeeps ==
    ASSUME StoreInv, RequestInv, DbStep, NEW q \in Requests, RequestShape', OnlyMoves(q),
           locks'[q] # {} => pc'[q] \notin {"idle", "used"},
           q \in WhatIfPosts /\ pc'[q] = "insertRun" =>
               /\ Run(got'[q].pair[1]) \in locks'[q]
               /\ HasStamp(Run(got'[q].pair[1]), got'[q].stamp),
           pc'[q] \in {"events", "compile", "insertCapsule"} /\ got'[q].met /\ ~got'[q].raced =>
               ~Resetting /\ Table("replay_capsules") # {} /\ pc'[q] # "insertCapsule"
    PROVE  RequestInv'
  <1>1. /\ Resetting' = Resetting
        /\ \A n, stamp : HasStamp(n, stamp) => HasStamp(n, stamp)'
        /\ Table("replay_capsules") # {} => Table("replay_capsules")' # {}
    BY DbStepKeepsRows
  <1>2. LocksHeld'
    BY DEF OnlyMoves, RequestInv, LocksHeld, Active
  <1>3. BaselineIsLocked'
    <2> SUFFICES ASSUME NEW p \in WhatIfPosts, pc'[p] = "insertRun", NEW n, NEW stamp,
                        n = Run(got'[p].pair[1]), stamp = got'[p].stamp
                 PROVE  n \in locks'[p] /\ HasStamp(n, stamp)'
      BY DEF BaselineIsLocked, HasStamp
    <2>1. CASE p = q
      BY <1>1, <2>1
    <2>2. CASE p # q
      <3>1. pc'[p] = pc[p] /\ got'[p] = got[p] /\ locks'[p] = locks[p]
        BY <2>2 DEF OnlyMoves, Requests, RunPosts
      <3>2. n \in locks[p] /\ HasStamp(n, stamp)
        BY <3>1 DEF RequestInv, BaselineIsLocked, HasStamp
      <3> QED
        BY <1>1, <3>1, <3>2
    <2> QED
      BY <2>1, <2>2
  <1>4. MetStays'
    <2> SUFFICES ASSUME NEW p \in CapsulePosts, got'[p].met, ~got'[p].raced,
                        pc'[p] \in {"events", "compile", "insertCapsule"}
                 PROVE  ~Resetting' /\ Table("replay_capsules")' # {} /\ pc'[p] # "insertCapsule"
      BY DEF MetStays
    <2>1. CASE p = q
      BY <1>1, <2>1
    <2>2. CASE p # q
      <3>1. pc'[p] = pc[p] /\ got'[p] = got[p]
        BY <2>2 DEF OnlyMoves, Requests
      <3> QED
        BY <1>1, <3>1 DEF RequestInv, MetStays
    <2> QED
      BY <2>1, <2>2
  <1> QED
    BY <1>2, <1>3, <1>4 DEF RequestInv

\* What an answer leaves of a request.
LEMMA AnswerFacts ==
    ASSUME RequestShape, NEW q \in Requests, NEW a, Answer(q, a)
    PROVE  /\ RequestShape' /\ OnlyMoves(q)
           /\ pc'[q] \in {"idle", "used"} /\ locks'[q] = {}
  <1>1. /\ pc' = [pc EXCEPT ![q] = IF q \in RunPosts /\ a = "created" THEN "used" ELSE "idle"]
        /\ got' = [got EXCEPT ![q] = NothingRead] /\ locks' = [locks EXCEPT ![q] = {}]
    BY DEF Answer, Released
  <1>2. /\ pc' = [p \in Requests |-> pc'[p]] /\ locks' = [p \in Requests |-> locks'[p]]
        /\ got' = [p \in Requests |-> got'[p]]
        /\ OnlyMoves(q) /\ got'[q] = NothingRead /\ locks'[q] = {}
        /\ pc'[q] \in {"idle", "used"}
    BY <1>1 DEF RequestShape, OnlyMoves
  <1>3. DOMAIN NothingRead = {"nodes", "left", "stamp", "pair", "met", "raced"}
    BY DEF NothingRead
  <1>4. \A p \in Requests : DOMAIN got'[p] = {"nodes", "left", "stamp", "pair", "met", "raced"}
    BY <1>2, <1>3 DEF RequestShape, OnlyMoves
  <1> QED
    BY <1>2, <1>4 DEF RequestShape

\* An answer preserves what is known of requests.
LEMMA AnswerKeeps ==
    ASSUME StoreInv, RequestInv, DbStep, NEW q \in Requests, NEW a, Answer(q, a)
    PROVE  RequestInv'
  <1>1. /\ RequestShape' /\ OnlyMoves(q)
        /\ pc'[q] \in {"idle", "used"} /\ locks'[q] = {}
    BY AnswerFacts DEF RequestInv
  <1> QED
    BY <1>1, RequestKeeps

\* What going to p, having read g, leaves of a request.
LEMMA GotoFacts ==
    ASSUME RequestShape, NEW q \in Requests, NEW p, Goto(q, p), NEW g,
           got' = [got EXCEPT ![q] = g], DOMAIN g = DOMAIN got[q]
    PROVE  /\ RequestShape' /\ OnlyMoves(q)
           /\ pc'[q] = p /\ got'[q] = g /\ locks'[q] = locks[q]
  <1>1. pc' = [pc EXCEPT ![q] = p] /\ locks' = locks
    BY DEF Goto
  <1>2. /\ pc' = [x \in Requests |-> pc'[x]] /\ locks' = [x \in Requests |-> locks'[x]]
        /\ got' = [x \in Requests |-> got'[x]]
        /\ OnlyMoves(q) /\ got'[q] = g /\ locks'[q] = locks[q] /\ pc'[q] = p
    BY <1>1 DEF RequestShape, OnlyMoves
  <1>3. \A x \in Requests : DOMAIN got'[x] = {"nodes", "left", "stamp", "pair", "met", "raced"}
    BY <1>2 DEF RequestShape, OnlyMoves
  <1> QED
    BY <1>2, <1>3 DEF RequestShape

\* Going on within a handler preserves what is known of requests, away from the
\* places where something is claimed.
LEMMA GotoKeeps ==
    ASSUME StoreInv, RequestInv, DbStep, NEW q \in Requests, NEW p, Goto(q, p), NEW g,
           got' = [got EXCEPT ![q] = g], DOMAIN g = DOMAIN got[q],
           p \notin {"idle", "used", "events", "compile", "insertCapsule"},
           p = "insertRun" => q \notin WhatIfPosts
    PROVE  RequestInv'
  <1>1. /\ RequestShape' /\ OnlyMoves(q)
        /\ pc'[q] = p /\ got'[q] = g /\ locks'[q] = locks[q]
    BY GotoFacts DEF RequestInv
  <1> QED
    BY <1>1, RequestKeeps

\* A worker's statement preserves what is known of requests.
LEMMA QuietKeeps ==
    ASSUME StoreInv, RequestInv, DbStep, UNCHANGED reqVars
    PROVE  RequestInv'
  <1>1. /\ Resetting' = Resetting
        /\ \A n, stamp : HasStamp(n, stamp) => HasStamp(n, stamp)'
        /\ Table("replay_capsules") # {} => Table("replay_capsules")' # {}
    BY DbStepKeepsRows
  <1>2. pc' = pc /\ got' = got /\ locks' = locks
    BY DEF reqVars
  <1>3. RequestShape' /\ LocksHeld' /\ MetStays'
    BY <1>1, <1>2 DEF RequestInv, RequestShape, LocksHeld, MetStays, Active
  <1>4. BaselineIsLocked'
    <2> SUFFICES ASSUME NEW p \in WhatIfPosts, pc[p] = "insertRun", NEW n, NEW stamp,
                        n = Run(got[p].pair[1]), stamp = got[p].stamp
                 PROVE  n \in locks[p] /\ HasStamp(n, stamp)'
      BY <1>2 DEF BaselineIsLocked, HasStamp
    <2>1. n \in locks[p] /\ HasStamp(n, stamp)
      BY DEF RequestInv, BaselineIsLocked, HasStamp
    <2> QED
      BY <1>1, <2>1
  <1> QED
    BY <1>3, <1>4 DEF RequestInv

-----------------------------------------------------------------------------
(* Rows.                                                                   *)

\* The row of a name.
LEMMA RowIs ==
    ASSUME KeysUnique, NEW n, Find(n) # {}
    PROVE  Row(n) \in rows /\ Name(Row(n)) = n /\ Find(n) = {Row(n)}
  <1>1. Row(n) \in Find(n)
    BY DEF Row
  <1> QED
    BY <1>1 DEF KeysUnique, Find

\* The row of an event has the shape of its table.
LEMMA EventRowIs ==
    ASSUME reset.begun \in Nat, NEW k, NEW r, r = EventRow(k)
    PROVE  RowShape(r) /\ r.table = "execution_events" /\ r.key = k /\ r.refs = {}
           /\ r.born = reset.begun
  BY DEF EventRow, Blank, RowShape, Tables

\* The row of an incident has the shape of its table.
LEMMA IncidentRowIs ==
    ASSUME reset.begun \in Nat, NEW q, NEW r, r = IncidentRow(q)
    PROVE  RowShape(r) /\ r.table = "incidents" /\ r.key = Golden /\ r.refs = {}
           /\ r.born = reset.begun
  BY DEF IncidentRow, RowOf, Blank, RowShape, Tables

\* The row of a graph refers to its incident.
LEMMA GraphRowIs ==
    ASSUME reset.begun \in Nat, NEW q, NEW r, r = GraphRow(q)
    PROVE  RowShape(r) /\ r.table = "execution_graphs" /\ r.key = Golden
           /\ r.refs = {Incident} /\ r.born = reset.begun
  BY DEF GraphRow, RowOf, Blank, RowShape, Tables, Incident

\* The row of a capsule refers to its incident.
LEMMA CapsuleRowIs ==
    ASSUME reset.begun \in Nat, NEW q, NEW r, r = CapsuleRow(q)
    PROVE  RowShape(r) /\ r.table = "replay_capsules" /\ r.key = Golden
           /\ r.refs = {Incident} /\ r.born = reset.begun
  BY DEF CapsuleRow, RowOf, Blank, RowShape, Tables, Incident

\* The row of a run refers to its capsule, and names its baseline if it is a what-if.
LEMMA RunRowIs ==
    ASSUME reset.begun \in Nat, NEW q, NEW r, r = RunRow(q)
    PROVE  RowShape(r) /\ r.table = "replay_runs" /\ r.key = <<q>>
           /\ r.refs = {Capsule} /\ r.born = reset.begun /\ r.stamp = got[q].stamp
           /\ r.names = IF q \in WhatIfPosts THEN {Run(got[q].pair[1])} ELSE {}
  BY DEF RunRow, RowOf, Blank, RowShape, Tables, Capsule

\* A row without a payload has the fields of Blank.
LEMMA RowOfIs ==
    ASSUME NEW q, NEW table, NEW key, NEW refs, NEW r, r = RowOf(q, table, key, refs)
    PROVE  /\ r.table = table /\ r.key = key /\ r.refs = refs /\ r.born = reset.begun
           /\ r = [table |-> r.table, key |-> r.key, refs |-> r.refs, names |-> r.names,
                   stamp |-> r.stamp, status |-> r.status, raced |-> r.raced, born |-> r.born]
  BY DEF RowOf, Blank

\* The row of a diff refers to its two runs.
LEMMA DiffRowIs ==
    ASSUME reset.begun \in Nat, NEW q, NEW r, r = DiffRow(q)
    PROVE  RowShape(r) /\ r.table = "replay_diffs" /\ r.born = reset.begun
  <1> DEFINE refs == {<<"replay_runs", <<got[q].pair[i]>>>> : i \in 1 .. 2}
  <1>1. \A n \in refs : n[1] = "replay_runs"
    OBVIOUS
  <1>2. r = RowOf(q, "replay_diffs", got[q].pair, refs)
    BY DEF DiffRow
  <1> HIDE DEF refs
  <1>3. /\ r.table = "replay_diffs" /\ r.refs = refs /\ r.born = reset.begun
        /\ r = [table |-> r.table, key |-> r.key, refs |-> r.refs, names |-> r.names,
                stamp |-> r.stamp, status |-> r.status, raced |-> r.raced, born |-> r.born]
    BY <1>2, RowOfIs
  <1> QED
    BY <1>1, <1>3 DEF RowShape, Tables

\* A single INSERT that is answered has been refused, or has put a row that fits.
LEMMA InsertOneIs ==
    ASSUME StoreInv, NEW q, NEW r, NEW ok, InsertOne(q, r, ok), deleted' = deleted,
           RowShape(r), r.born = reset.begun,
           r.table = "replay_runs" => \A b \in r.names :
               b[1] = "replay_runs" /\ Find(b) # {} /\ \A s \in Find(b) : s.stamp = r.stamp
    PROVE  /\ DbStep
           /\ \/ Answer(q, "conflict") /\ rows' = rows
              \/ Answer(q, ok) /\ rows' = rows \cup {r}
  <1>1. \/ Answer(q, "conflict") /\ UNCHANGED <<rows, reset>>
        \/ ~Duplicate(r) /\ ~Waits(r) /\ ~Orphan(r) /\ Insert({r}) /\ Answer(q, ok)
    BY DEF InsertOne, Overwrites
  <1>2. CASE Answer(q, "conflict") /\ UNCHANGED <<rows, reset>>
    BY <1>2 DEF DbStep, dbVars
  <1>3. CASE ~Duplicate(r) /\ ~Waits(r) /\ ~Orphan(r) /\ Insert({r}) /\ Answer(q, ok)
    <2>1. Find(Name(r)) = {}
      BY <1>3 DEF Duplicate, Waits, Deleting, Find
    <2>2. \A n \in r.refs : ~Deleting(n) /\ \E s \in rows : Name(s) = n
      BY <1>3 DEF Waits, Orphan, Find
    <2>3. DbInsert({r})
      BY <1>3, <2>1, <2>2 DEF DbInsert, Insert
    <2> QED
      BY <1>3, <2>3 DEF DbStep, Insert
  <1> QED
    BY <1>1, <1>2, <1>3

\* A run's new status changes nothing else of its row.
LEMMA TransitionIs ==
    ASSUME StoreInv, NEW r, NEW from, NEW to, Transition(r, from, to),
           UNCHANGED <<deleted, reset>>
    PROVE  DbStep /\ \A x \in rows' \ rows : x.table # "execution_events"
  <1> DEFINE old == Row(Run(r))
             new == [old EXCEPT !.status = to]
  <1>1. old \in rows /\ Name(old) = Run(r) /\ Find(Run(r)) = {old}
    BY RowIs DEF StoreInv, Transition
  <1>2. old.table = "replay_runs" /\ ~Deleting(Name(old)) /\ RowShape(old)
    BY <1>1 DEF Transition, Lockable, Name, Run, StoreInv
  <1>3. rows' = (rows \ {old}) \cup {new}
    BY <1>1 DEF Transition
  <1> HIDE DEF old
  <1>4. /\ new.table = old.table /\ new.key = old.key /\ new.refs = old.refs
        /\ new.names = old.names /\ new.stamp = old.stamp /\ new.born = old.born
        /\ new = [table |-> new.table, key |-> new.key, refs |-> new.refs, names |-> new.names,
                  stamp |-> new.stamp, status |-> new.status, raced |-> new.raced,
                  born |-> new.born]
    BY <1>2 DEF RowShape
  <1> HIDE DEF new
  <1>5. RowShape(new)
    BY <1>2, <1>4 DEF RowShape
  <1>6. DbUpdate(old, new)
    BY <1>1, <1>2, <1>3, <1>4, <1>5 DEF DbUpdate
  <1> QED
    BY <1>2, <1>3, <1>4, <1>6 DEF DbStep

-----------------------------------------------------------------------------
(* The events that are still to come.                                      *)

\* Unless a checkout's event is stored, those to come are still to come.
LEMMA EventsKept ==
    ASSUME EventsToCome, ingested' = ingested,
           \A r \in rows' \ rows : r.table = "execution_events" => r.key[3] = 0
    PROVE  EventsToCome'
  <1> SUFFICES ASSUME NEW i \in Nat, i >= ingested, NEW r \in rows',
                      Name(r) = <<"execution_events", CheckoutEvent((i \div 2) + 1, (i % 2) + 1)>>
               PROVE  FALSE
    BY DEF EventsToCome, Find, Name
  <1>1. r \notin rows
    BY DEF EventsToCome, Find, Name
  <1>2. r.table = "execution_events" /\ r.key[3] = (i % 2) + 1
    BY DEF Name, CheckoutEvent
  <1> QED
    BY <1>1, <1>2

\* The event that is ingested is none of those to come.
LEMMA NextEvent ==
    ASSUME EventsToCome, ingested' = ingested + 1, NEW e, rows' = rows \cup {e},
           Name(e) = <<"execution_events",
                       CheckoutEvent((ingested \div 2) + 1, (ingested % 2) + 1)>>
    PROVE  EventsToCome'
  <1>1. ingested \in Nat
    BY DEF EventsToCome
  <1> SUFFICES ASSUME NEW i \in Nat, i >= ingested + 1, NEW r \in rows',
                      Name(r) = <<"execution_events", CheckoutEvent((i \div 2) + 1, (i % 2) + 1)>>
               PROVE  FALSE
    BY <1>1 DEF EventsToCome, Find, Name
  <1>2. r = e
    BY <1>1 DEF EventsToCome, Find, Name
  <1>3. CheckoutEvent((i \div 2) + 1, (i % 2) + 1)
          = CheckoutEvent((ingested \div 2) + 1, (ingested % 2) + 1)
    BY <1>2
  <1>4. (i \div 2) + 1 = (ingested \div 2) + 1 /\ (i % 2) + 1 = (ingested % 2) + 1
    BY <1>3 DEF CheckoutEvent
  <1>5. /\ i \div 2 \in Nat /\ ingested \div 2 \in Nat
        /\ i % 2 \in Nat /\ ingested % 2 \in Nat
    BY <1>1
  <1>6. i \div 2 = ingested \div 2 /\ i % 2 = ingested % 2
    BY <1>4, <1>5
  <1>7. i = 2 * (i \div 2) + (i % 2) /\ ingested = 2 * (ingested \div 2) + (ingested % 2)
    BY <1>1
  <1> QED
    BY <1>1, <1>6, <1>7

-----------------------------------------------------------------------------
(* One lemma per action: what it does to the store, and what it leaves of  *)
(* the requests.                                                           *)

\* The worker's four statements.
LEMMA WorkIs ==
    ASSUME IInv, NEW r \in RunPosts, Work(r)
    PROVE  DbStep /\ RequestInv' /\ EventsToCome'
  <1>1. CASE Claim(r) \/ Advance(r)
    <2>1. DbStep /\ (\A x \in rows' \ rows : x.table # "execution_events")
      BY <1>1, TransitionIs DEF Claim, Advance, IInv
    <2> QED
      BY <1>1, <2>1, QuietKeeps, EventsKept DEF Claim, Advance, IInv
  <1>2. CASE Record(r)
    <2> DEFINE e == EventRow(ReplayEvent(r))
    <2>1. /\ RowShape(e) /\ e.table = "execution_events" /\ e.key = ReplayEvent(r)
          /\ e.refs = {} /\ e.born = reset.begun
      BY EventRowIs DEF IInv, StoreInv, ResetShape
    <2>2. Find(Name(e)) = {}
      BY <1>2, <2>1 DEF Record, Events, Table, Find, Name
    <2>3. Insert({e}) /\ deleted' = deleted
      BY <1>2 DEF Record
    <2> HIDE DEF e
    <2>4. DbInsert({e})
      BY <2>1, <2>2, <2>3 DEF DbInsert, Insert
    <2>5. \A x \in rows' \ rows : x.key[3] = 0
      BY <2>1, <2>3 DEF Insert, ReplayEvent
    <2> QED
      BY <1>2, <2>4, <2>5, QuietKeeps, EventsKept DEF Record, IInv, DbStep
  <1>3. CASE SettleRun(r)
    <2>1. DbStep /\ (\A x \in rows' \ rows : x.table # "execution_events")
      <3>1. CASE Transition(r, "RUNNING", "COMPLETED")
        BY <1>3, <3>1, TransitionIs DEF SettleRun, IInv
      <3>2. CASE UNCHANGED rows
        BY <1>3, <3>2 DEF SettleRun, DbStep, dbVars
      <3> QED
        BY <1>3, <3>1, <3>2 DEF SettleRun
    <2> QED
      BY <1>3, <2>1, QuietKeeps, EventsKept DEF SettleRun, IInv
  <1> QED
    BY <1>1, <1>2, <1>3 DEF Work


\* A statement that only reads.
LEMMA ReadsOnly ==
    ASSUME IInv, UNCHANGED dbVars, ingested' = ingested
    PROVE  DbStep /\ EventsToCome'
  <1>1. rows' = rows
    BY DEF dbVars
  <1> QED
    BY <1>1, EventsKept DEF DbStep, IInv

\* An answer after a statement that only reads.
LEMMA ReadAndAnswer ==
    ASSUME IInv, UNCHANGED dbVars, ingested' = ingested, NEW q \in Requests, NEW a, Answer(q, a)
    PROVE  DbStep /\ RequestInv' /\ EventsToCome'
  BY ReadsOnly, AnswerKeeps DEF IInv

\* An answer after a single INSERT of a row that is not a checkout's event.
LEMMA InsertAndAnswer ==
    ASSUME IInv, ingested' = ingested, deleted' = deleted, NEW q \in Requests, NEW r, NEW ok,
           InsertOne(q, r, ok), RowShape(r), r.born = reset.begun, r.table # "execution_events",
           r.table = "replay_runs" => \A b \in r.names :
               b[1] = "replay_runs" /\ Find(b) # {} /\ \A s \in Find(b) : s.stamp = r.stamp
    PROVE  DbStep /\ RequestInv' /\ EventsToCome'
  <1>1. /\ DbStep
        /\ Answer(q, ok) \/ Answer(q, "conflict")
        /\ rows' = rows \/ rows' = rows \cup {r}
    BY InsertOneIs DEF IInv
  <1>2. RequestInv'
    BY <1>1, AnswerKeeps DEF IInv
  <1>3. EventsToCome'
    BY <1>1, EventsKept DEF IInv
  <1> QED
    BY <1>1, <1>2, <1>3

\* An event is stored, and the request goes on to detect.
LEMMA IngestIs ==
    ASSUME IInv, NEW q \in Requests, IngestEvent(q)
    PROVE  DbStep /\ RequestInv' /\ EventsToCome'
  <1> DEFINE k == CheckoutEvent((ingested \div 2) + 1, (ingested % 2) + 1)
             e == EventRow(k)
  <1>1. /\ RowShape(e) /\ e.table = "execution_events" /\ e.key = k
        /\ e.refs = {} /\ e.born = reset.begun
    BY EventRowIs DEF IInv, StoreInv, ResetShape
  <1>2. /\ Insert({e}) /\ deleted' = deleted /\ ingested' = ingested + 1
        /\ Goto(q, "detect") /\ got' = got
    BY DEF IngestEvent
  <1>3. ingested \in Nat /\ Find(<<"execution_events", k>>) = {}
    BY DEF IInv, EventsToCome
  <1>4. Name(e) = <<"execution_events", k>> /\ rows' = rows \cup {e}
    BY <1>1, <1>2 DEF Name, Insert
  <1>5. EventsToCome'
    <2> HIDE DEF e
    <2> QED
      BY <1>2, <1>4, NextEvent DEF IInv
  <1> HIDE DEF k, e
  <1>6. DbInsert({e})
    BY <1>1, <1>2, <1>3, <1>4 DEF DbInsert, Insert
  <1>7. got' = [got EXCEPT ![q] = got[q]]
    BY <1>2 DEF IInv, RequestInv, RequestShape
  <1>8. DbStep /\ Goto(q, "detect")
    BY <1>2, <1>6 DEF DbStep
  <1>9. PICK p : p = "detect" /\ p \notin {"idle", "used", "events", "compile", "insertCapsule",
                                           "insertRun"}
    OBVIOUS
  <1>10. Goto(q, p)
    BY <1>8, <1>9
  <1>11. RequestInv'
    BY <1>7, <1>8, <1>9, <1>10, GotoKeeps DEF IInv
  <1> QED
    BY <1>5, <1>8, <1>11

\* The two rows of an incident: the graph's name is free when the incident's is, since
\* no graph is without its incident.
LEMMA InsertIncidentIs ==
    ASSUME IInv, NEW q \in Requests, InsertIncident(q)
    PROVE  DbStep /\ RequestInv' /\ EventsToCome'
  <1> DEFINE i == IncidentRow(q)
             g == GraphRow(q)
  <1>1. /\ RowShape(i) /\ i.table = "incidents" /\ i.key = Golden /\ i.refs = {}
        /\ i.born = reset.begun
    BY IncidentRowIs DEF IInv, StoreInv, ResetShape
  <1>2. /\ RowShape(g) /\ g.table = "execution_graphs" /\ g.key = Golden
        /\ g.refs = {Incident} /\ g.born = reset.begun
    BY GraphRowIs DEF IInv, StoreInv, ResetShape
  <1>3. deleted' = deleted /\ ingested' = ingested
    BY DEF InsertIncident
  <1>4. \/ Answer(q, "nothing") /\ UNCHANGED <<rows, reset>>
        \/ ~Duplicate(i) /\ ~Deleting(Name(i)) /\ Insert({i, g}) /\ Answer(q, "created")
    BY DEF InsertIncident, Overwrites
  <1> HIDE DEF i, g
  <1>5. CASE Answer(q, "nothing") /\ UNCHANGED <<rows, reset>>
    BY <1>3, <1>5, ReadAndAnswer DEF dbVars
  <1>6. CASE ~Duplicate(i) /\ ~Deleting(Name(i)) /\ Insert({i, g}) /\ Answer(q, "created")
    <2>1. Name(i) = Incident /\ Name(g) # Name(i)
      BY <1>1, <1>2 DEF Name, Incident
    <2>2. Find(Incident) = {}
      BY <1>6, <2>1 DEF Duplicate, Deleting, Find
    <2>3. Find(Name(g)) = {}
      <3> SUFFICES ASSUME NEW s \in rows, Name(s) = Name(g) PROVE FALSE
        BY DEF Find
      <3>1. s.refs = {Incident}
        BY <1>2 DEF Name, IInv, StoreInv, RowShape
      <3> QED
        BY <2>2, <3>1 DEF IInv, StoreInv, RefsThere
    <2>4. rows' = rows \cup {i, g} /\ reset' = [reset EXCEPT !.crossed = @ \/ Resetting]
      BY <1>6 DEF Insert
    <2>5. \A r \in {i, g} :
             \A n \in r.refs : ~Deleting(n) /\ \E s \in rows \cup {i, g} : Name(s) = n
      BY <1>1, <1>2, <1>6, <2>1
    <2>6. DbInsert({i, g})
      BY <1>1, <1>2, <1>3, <2>1, <2>2, <2>3, <2>4, <2>5 DEF DbInsert
    <2>7. EventsToCome'
      BY <1>1, <1>2, <1>3, <2>4, EventsKept DEF IInv
    <2> QED
      BY <1>6, <2>6, <2>7, AnswerKeeps DEF DbStep, IInv
  <1> QED
    BY <1>4, <1>5, <1>6

\* Ingestion and detection.
LEMMA DetectIs ==
    ASSUME IInv, NEW q \in Requests, Detect(q)
    PROVE  DbStep /\ RequestInv' /\ EventsToCome'
  <1>1. CASE ReadExecution(q)
    <2>1. UNCHANGED dbVars /\ ingested' = ingested
      BY <1>1 DEF ReadExecution
    <2>2. CASE Answer(q, "nothing")
      BY <2>1, <2>2, ReadAndAnswer
    <2>3. CASE /\ Goto(q, "check")
               /\ got' = [got EXCEPT ![q].nodes = Events, ![q].left = Events]
      <3> DEFINE g == [got[q] EXCEPT !.nodes = Events, !.left = Events]
      <3>1. got' = [got EXCEPT ![q] = g] /\ DOMAIN g = DOMAIN got[q]
        BY <2>3 DEF IInv, RequestInv, RequestShape
      <3> HIDE DEF g
      <3>2. DbStep /\ EventsToCome' /\ Goto(q, "check")
        BY <2>1, <2>3, ReadsOnly
      <3>3. PICK p : p = "check" /\ p \notin {"idle", "used", "events", "compile",
                                               "insertCapsule", "insertRun"}
        OBVIOUS
      <3>4. Goto(q, p)
        BY <3>2, <3>3
      <3>5. RequestInv'
        BY <3>1, <3>2, <3>3, <3>4, GotoKeeps DEF IInv
      <3> QED
        BY <3>2, <3>5
    <2> QED
      BY <1>1, <2>2, <2>3 DEF ReadExecution
  <1>2. CASE CheckNode(q)
    <2>1. UNCHANGED dbVars /\ ingested' = ingested
      BY <1>2 DEF CheckNode
    <2>2. CASE Answer(q, "internal")
      BY <2>1, <2>2, ReadAndAnswer
    <2>3. CASE ~Answer(q, "internal")
      <3>1. PICK n, raced, p :
              /\ got' = [got EXCEPT ![q].left = @ \ {n}, ![q].raced = raced]
              /\ Goto(q, p) /\ p \in {"insertIncident", "check"}
        BY <1>2, <2>3 DEF CheckNode
      <3> DEFINE g == [got[q] EXCEPT !.left = @ \ {n}, !.raced = raced]
      <3>2. got' = [got EXCEPT ![q] = g] /\ DOMAIN g = DOMAIN got[q]
        BY <3>1 DEF IInv, RequestInv, RequestShape
      <3> HIDE DEF g
      <3> QED
        BY <2>1, <3>1, <3>2, ReadsOnly, GotoKeeps DEF IInv
    <2> QED
      BY <2>2, <2>3
  <1> QED
    BY <1>1, <1>2, IngestIs, InsertIncidentIs DEF Detect


\* Reading an incident and compiling its capsule.
LEMMA ReadIs ==
    ASSUME IInv, NEW q \in Requests, Read(q)
    PROVE  DbStep /\ RequestInv' /\ EventsToCome'
  <1>1. CASE ReadIncident(q)
    <2>1. UNCHANGED dbVars /\ ingested' = ingested
      BY <1>1 DEF ReadIncident
    <2>2. CASE \E a : Answer(q, a)
      BY <2>1, <2>2, ReadAndAnswer
    <2>3. CASE ~(\E a : Answer(q, a))
      <3> DEFINE nodes == Row(<<"execution_graphs", Golden>>).names
                 met == Table("replay_capsules") # {}
                 g == [got[q] EXCEPT !.nodes = nodes, !.met = met, !.raced = Resetting]
      <3>1. /\ Goto(q, "events")
            /\ got' = [got EXCEPT ![q].nodes = nodes, ![q].met = met, ![q].raced = Resetting]
        BY <1>1, <2>3 DEF ReadIncident
      <3>2. got' = [got EXCEPT ![q] = g] /\ DOMAIN g = DOMAIN got[q]
        BY <3>1 DEF IInv, RequestInv, RequestShape
      <3>3. g.met = met /\ g.raced = Resetting
        BY DEF IInv, RequestInv, RequestShape
      <3> HIDE DEF g
      <3>4. /\ RequestShape' /\ OnlyMoves(q)
            /\ pc'[q] = "events" /\ got'[q] = g /\ locks'[q] = locks[q]
        BY <3>1, <3>2, GotoFacts DEF IInv, RequestInv
      <3>5. got'[q].met /\ ~got'[q].raced => ~Resetting /\ Table("replay_capsules") # {}
        BY <3>3, <3>4
      <3>6. RequestInv'
        BY <2>1, <3>4, <3>5, ReadsOnly, RequestKeeps DEF IInv
      <3> QED
        BY <2>1, <3>6, ReadsOnly
    <2> QED
      BY <2>2, <2>3
  <1>2. CASE ReadEvents(q)
    <2>1. UNCHANGED dbVars /\ ingested' = ingested /\ q \in CapsulePosts /\ pc[q] = "events"
      BY <1>2 DEF ReadEvents
    <2>2. CASE Answer(q, "internal")
      BY <2>1, <2>2, ReadAndAnswer
    <2>3. CASE ~Answer(q, "internal")
      <3>1. Goto(q, "compile") /\ got' = [got EXCEPT ![q] = got[q]]
        BY <1>2, <2>3 DEF ReadEvents, IInv, RequestInv, RequestShape
      <3>2. /\ RequestShape' /\ OnlyMoves(q)
            /\ pc'[q] = "compile" /\ got'[q] = got[q] /\ locks'[q] = locks[q]
        BY <3>1, GotoFacts DEF IInv, RequestInv
      <3>3. got'[q].met /\ ~got'[q].raced => ~Resetting /\ Table("replay_capsules") # {}
        BY <2>1, <3>2 DEF IInv, RequestInv, MetStays
      <3>4. RequestInv'
        BY <2>1, <3>2, <3>3, ReadsOnly, RequestKeeps DEF IInv
      <3> QED
        BY <2>1, <3>4, ReadsOnly
    <2> QED
      BY <2>2, <2>3
  <1>3. CASE CompileCapsule(q)
    <2>1. UNCHANGED dbVars /\ ingested' = ingested /\ q \in CapsulePosts /\ pc[q] = "compile"
      BY <1>3 DEF CompileCapsule
    <2>2. CASE \E a : Answer(q, a)
      BY <2>1, <2>2, ReadAndAnswer
    <2>3. CASE ~(\E a : Answer(q, a))
      <3>1. /\ Goto(q, "insertCapsule") /\ got' = [got EXCEPT ![q] = got[q]]
            /\ Table("replay_capsules") = {}
        BY <1>3, <2>3 DEF CompileCapsule, Compiled, IInv, RequestInv, RequestShape
      <3>2. /\ RequestShape' /\ OnlyMoves(q)
            /\ pc'[q] = "insertCapsule" /\ got'[q] = got[q] /\ locks'[q] = locks[q]
        BY <3>1, GotoFacts DEF IInv, RequestInv
      <3>3. ~(got'[q].met /\ ~got'[q].raced)
        BY <2>1, <3>1, <3>2 DEF IInv, RequestInv, MetStays
      <3>4. RequestInv'
        BY <2>1, <3>2, <3>3, ReadsOnly, RequestKeeps DEF IInv
      <3> QED
        BY <2>1, <3>4, ReadsOnly
    <2> QED
      BY <2>2, <2>3
  <1>4. CASE PutCapsule(q)
    <2> DEFINE r == CapsuleRow(q)
    <2>1. RowShape(r) /\ r.table = "replay_capsules" /\ r.born = reset.begun
      BY CapsuleRowIs DEF IInv, StoreInv, ResetShape
    <2>2. InsertOne(q, r, "created") /\ deleted' = deleted /\ ingested' = ingested
      BY <1>4 DEF PutCapsule
    <2> HIDE DEF r
    <2> QED
      BY <2>1, <2>2, InsertAndAnswer
  <1> QED
    BY <1>1, <1>2, <1>3, <1>4 DEF Read

\* What taking locks and going to p leaves of a request.
LEMMA LockFacts ==
    ASSUME RequestShape, NEW q \in Requests, NEW p, NEW held,
           pc' = [pc EXCEPT ![q] = p], locks' = [locks EXCEPT ![q] = held], got' = got
    PROVE  /\ RequestShape' /\ OnlyMoves(q)
           /\ pc'[q] = p /\ got'[q] = got[q] /\ locks'[q] = held
  BY DEF RequestShape, OnlyMoves

\* Creating a run: a what-if is inserted with its baseline locked.
LEMMA PostIs ==
    ASSUME IInv, NEW q \in Requests, Post(q)
    PROVE  DbStep /\ RequestInv' /\ EventsToCome'
  <1>1. CASE ReadCapsule(q)
    <2>1. UNCHANGED dbVars /\ ingested' = ingested
      BY <1>1 DEF ReadCapsule
    <2>2. CASE Answer(q, "not found")
      BY <2>1, <2>2, ReadAndAnswer
    <2>3. CASE ~Answer(q, "not found")
      <3>1. PICK p, stamp, pair :
              /\ p = IF q \in WhatIfPosts THEN "gate" ELSE "insertRun"
              /\ Goto(q, p)
              /\ got' = [got EXCEPT ![q].stamp = stamp, ![q].pair = pair]
        BY <1>1, <2>3 DEF ReadCapsule
      <3> DEFINE g == [got[q] EXCEPT !.stamp = stamp, !.pair = pair]
      <3>2. got' = [got EXCEPT ![q] = g] /\ DOMAIN g = DOMAIN got[q]
        BY <3>1 DEF IInv, RequestInv, RequestShape
      <3> HIDE DEF g
      <3>3. /\ p \notin {"idle", "used", "events", "compile", "insertCapsule"}
            /\ p = "insertRun" => q \notin WhatIfPosts
        BY <3>1
      <3>4. RequestInv'
        BY <2>1, <3>1, <3>2, <3>3, ReadsOnly, GotoKeeps DEF IInv
      <3> QED
        BY <2>1, <3>4, ReadsOnly
    <2> QED
      BY <2>2, <2>3
  <1>2. CASE Gate(q)
    <2>1. UNCHANGED dbVars /\ ingested' = ingested
      BY <1>2 DEF Gate
    <2>2. CASE \E a : Answer(q, a)
      BY <2>1, <2>2, ReadAndAnswer
    <2>3. CASE ~(\E a : Answer(q, a))
      <3> DEFINE n == Run(got[q].pair[1])
      <3>1. /\ Find(n) # {} /\ Lockable(q, n) /\ Row(n).stamp = got[q].stamp
            /\ pc' = [pc EXCEPT ![q] = "insertRun"] /\ locks' = [locks EXCEPT ![q] = {n}]
            /\ got' = got
        BY <1>2, <2>3 DEF Gate, ForUpdate
      <3>2. HasStamp(n, got[q].stamp)
        BY <3>1, RowIs DEF HasStamp, Lockable, IInv, StoreInv
      <3>3. /\ RequestShape' /\ OnlyMoves(q)
            /\ pc'[q] = "insertRun" /\ got'[q] = got[q] /\ locks'[q] = {n}
        BY <3>1, LockFacts DEF IInv, RequestInv
      <3>4. RequestInv'
        BY <2>1, <3>2, <3>3, ReadsOnly, RequestKeeps DEF IInv
      <3> QED
        BY <2>1, <3>4, ReadsOnly
    <2> QED
      BY <2>2, <2>3
  <1>3. CASE PutRun(q)
    <2> DEFINE r == RunRow(q)
    <2>1. /\ RowShape(r) /\ r.table = "replay_runs" /\ r.born = reset.begun
          /\ r.stamp = got[q].stamp
          /\ r.names = IF q \in WhatIfPosts THEN {Run(got[q].pair[1])} ELSE {}
      BY RunRowIs DEF IInv, StoreInv, ResetShape
    <2>2. /\ InsertOne(q, r, "created") /\ deleted' = deleted /\ ingested' = ingested
          /\ pc[q] = "insertRun"
      BY <1>3 DEF PutRun
    <2> HIDE DEF r
    <2>3. ASSUME NEW b \in r.names
          PROVE  b[1] = "replay_runs" /\ Find(b) # {} /\ \A s \in Find(b) : s.stamp = r.stamp
      <3>1. q \in WhatIfPosts /\ b = Run(got[q].pair[1])
        BY <2>1, <2>3
      <3> QED
        BY <2>1, <2>2, <3>1 DEF IInv, RequestInv, BaselineIsLocked, Run
    <2> QED
      BY <2>1, <2>2, <2>3, InsertAndAnswer
  <1> QED
    BY <1>1, <1>2, <1>3 DEF Post

\* PutDiff's locks.
LEMMA LockRunIs ==
    ASSUME IInv, NEW q \in Requests, NEW i, NEW at, NEW next, LockRun(q, i, at, next),
           next \in {"lockComparison", "insertDiff"}
    PROVE  DbStep /\ RequestInv' /\ EventsToCome'
  <1>1. UNCHANGED dbVars /\ ingested' = ingested
    BY DEF LockRun
  <1>2. CASE Answer(q, "not found")
    BY <1>1, <1>2, ReadAndAnswer
  <1>3. CASE ~Answer(q, "not found")
    <2>1. PICK held : /\ pc' = [pc EXCEPT ![q] = next]
                      /\ locks' = [locks EXCEPT ![q] = held] /\ got' = got
      BY <1>3 DEF LockRun
    <2>2. /\ RequestShape' /\ OnlyMoves(q)
          /\ pc'[q] = next /\ got'[q] = got[q] /\ locks'[q] = held
      BY <2>1, LockFacts DEF IInv, RequestInv
    <2>3. RequestInv'
      BY <1>1, <2>2, ReadsOnly, RequestKeeps DEF IInv
    <2> QED
      BY <1>1, <2>3, ReadsOnly
  <1> QED
    BY <1>2, <1>3

\* Building a diff and storing it.
LEMMA DiffIs ==
    ASSUME IInv, NEW q \in Requests, Diff(q)
    PROVE  DbStep /\ RequestInv' /\ EventsToCome'
  <1>1. CASE BuildDiff(q)
    <2>1. UNCHANGED dbVars /\ ingested' = ingested
      BY <1>1 DEF BuildDiff
    <2>2. CASE \E a : Answer(q, a)
      BY <2>1, <2>2, ReadAndAnswer
    <2>3. CASE ~(\E a : Answer(q, a))
      <3>1. PICK p, pair :
              p = "lockBaseline" /\ Goto(q, p) /\ got' = [got EXCEPT ![q].pair = pair]
        BY <1>1, <2>3 DEF BuildDiff
      <3> DEFINE g == [got[q] EXCEPT !.pair = pair]
      <3>2. got' = [got EXCEPT ![q] = g] /\ DOMAIN g = DOMAIN got[q]
        BY <3>1 DEF IInv, RequestInv, RequestShape
      <3> HIDE DEF g
      <3>3. p \notin {"idle", "used", "events", "compile", "insertCapsule", "insertRun"}
        BY <3>1
      <3>4. RequestInv'
        BY <2>1, <3>1, <3>2, <3>3, ReadsOnly, GotoKeeps DEF IInv
      <3> QED
        BY <2>1, <3>4, ReadsOnly
    <2> QED
      BY <2>2, <2>3
  <1>2. CASE LockBaseline(q) \/ LockComparison(q)
    BY <1>2, LockRunIs DEF LockBaseline, LockComparison
  <1>3. CASE PutDiff(q)
    <2> DEFINE r == DiffRow(q)
    <2>1. RowShape(r) /\ r.table = "replay_diffs" /\ r.born = reset.begun
      BY DiffRowIs DEF IInv, StoreInv, ResetShape
    <2>2. InsertOne(q, r, "created") /\ deleted' = deleted /\ ingested' = ingested
      BY <1>3 DEF PutDiff
    <2> HIDE DEF r
    <2> QED
      BY <2>1, <2>2, InsertAndAnswer
  <1> QED
    BY <1>1, <1>2, <1>3 DEF Diff


-----------------------------------------------------------------------------
(* The reset and the requests.                                             *)

\* A statement of the reset leaves to the requests what they have locked, and they
\* know by now of the reset.
LEMMA ResetSpares ==
    ASSUME RequestInv, Resetting, UNCHANGED reqVars, rows' \subseteq rows, NEW gone,
           deleted' \subseteq gone, rows \ gone \subseteq rows',
           \A p \in WhatIfPosts : pc[p] = "insertRun" =>
               \A d \in gone : Name(d) # Run(got[p].pair[1])
    PROVE  RequestInv'
  <1>1. pc' = pc /\ got' = got /\ locks' = locks
    BY DEF reqVars
  <1>2. RequestShape' /\ LocksHeld'
    BY <1>1 DEF RequestInv, RequestShape, LocksHeld, Active
  <1>3. MetStays'
    BY <1>1 DEF RequestInv, MetStays
  <1>4. BaselineIsLocked'
    <2> SUFFICES ASSUME NEW p \in WhatIfPosts, pc[p] = "insertRun", NEW n, NEW stamp,
                        n = Run(got[p].pair[1]), stamp = got[p].stamp
                 PROVE  n \in locks[p] /\ HasStamp(n, stamp)'
      BY <1>1 DEF BaselineIsLocked, HasStamp
    <2>1. n \in locks[p] /\ HasStamp(n, stamp)
      BY DEF RequestInv, BaselineIsLocked, HasStamp
    <2>2. ~Deleting(n)' /\ Find(n)' = Find(n)
      BY DEF Deleting, Find, Name
    <2> QED
      BY <2>1, <2>2 DEF HasStamp
  <1> QED
    BY <1>2, <1>3, <1>4 DEF RequestInv

\* A reset that begins races every request at work.
LEMMA BeginIs ==
    ASSUME IInv, BeginReset
    PROVE  IInv'
  <1>1. /\ pc' = pc /\ locks' = locks /\ rows' = rows /\ deleted' = deleted
        /\ got' = [q \in Requests |-> [got[q] EXCEPT !.raced = @ \/ Active(q)]]
        /\ ingested' = ingested
    BY DEF BeginReset
  <1>2. \A q \in Requests :
           /\ DOMAIN got'[q] = DOMAIN got[q]
           /\ got'[q].pair = got[q].pair /\ got'[q].stamp = got[q].stamp
           /\ got'[q].raced = (got[q].raced \/ Active(q))
    BY <1>1 DEF IInv, RequestInv, RequestShape
  <1>3. RequestShape' /\ LocksHeld'
    BY <1>1, <1>2 DEF IInv, RequestInv, RequestShape, LocksHeld, Active
  <1>4. MetStays'
    <2> SUFFICES ASSUME NEW q \in CapsulePosts, ~got'[q].raced,
                        pc[q] \in {"events", "compile", "insertCapsule"}
                 PROVE  FALSE
      BY <1>1 DEF MetStays
    <2>1. Active(q) /\ q \in Requests
      BY DEF Active, Requests
    <2> QED
      BY <1>2, <2>1
  <1>5. BaselineIsLocked'
    <2> SUFFICES ASSUME NEW p \in WhatIfPosts, pc[p] = "insertRun", NEW n, NEW stamp,
                        n = Run(got'[p].pair[1]), stamp = got'[p].stamp
                 PROVE  n \in locks[p] /\ HasStamp(n, stamp)'
      BY <1>1 DEF BaselineIsLocked, HasStamp
    <2>1. n = Run(got[p].pair[1]) /\ stamp = got[p].stamp
      BY <1>2 DEF Requests, RunPosts
    <2>2. n \in locks[p] /\ HasStamp(n, stamp)
      BY <2>1 DEF IInv, RequestInv, BaselineIsLocked, HasStamp
    <2> QED
      BY <1>1, <2>2 DEF HasStamp, Deleting, Find
  <1>6. EventsToCome'
    BY <1>1, EventsKept DEF IInv
  <1>7. StoreInv'
    BY BeginKeeps DEF IInv
  <1> QED
    BY <1>3, <1>4, <1>5, <1>6, <1>7 DEF IInv, RequestInv

\* A DELETE waits for the baseline of a what-if about to be inserted.
LEMMA DeleteIs ==
    ASSUME IInv, DeleteRows
    PROVE  IInv'
  <1>1. PICK batch \in Batches :
          /\ Resetting /\ ingested' = ingested /\ UNCHANGED reqVars
          /\ \A r \in batch, q \in Requests : Name(r) \notin locks[q]
          /\ deleted' = Gone(batch) \/ deleted' = {}
          /\ rows' = rows \/ rows' = rows \ Gone(batch)
    BY DEF DeleteRows, Gone, Rollback, Commit
  <1>2. ASSUME NEW p \in WhatIfPosts, pc[p] = "insertRun", NEW d \in Gone(batch),
               Name(d) = Run(got[p].pair[1])
        PROVE  FALSE
    <2>1. Name(d) \in locks[p] /\ ~Deleting(Name(d)) /\ p \in Requests
      BY <1>2 DEF IInv, RequestInv, BaselineIsLocked, Requests, RunPosts
    <2>2. d.table = "replay_runs"
      BY <1>2 DEF Name, Run
    <2>3. d \notin deleted
      BY <2>1 DEF Deleting
    <2>4. \A r \in batch : Name(r) # Name(d)
      BY <1>1, <2>1
    <2>5. PICK r \in batch : d \in Cascade(Name(r))
      BY <2>3 DEF Gone
    <2> QED
      BY <2>2, <2>4, <2>5 DEF Cascade, Table, Find
  <1>3. RequestInv'
    BY <1>1, <1>2, ResetSpares DEF IInv
  <1>4. EventsToCome'
    BY <1>1, EventsKept DEF IInv
  <1> QED
    BY <1>3, <1>4, DeleteKeeps DEF IInv

\* PostgreSQL ends the reset, or the diff.
LEMMA BreakIs ==
    ASSUME IInv, BreakDeadlock
    PROVE  IInv'
  <1>1. PICK q \in DiffPosts :
          /\ Deadlocked(q) /\ ingested' = ingested
          /\ \/ Rollback /\ UNCHANGED reqVars
             \/ Answer(q, "internal") /\ UNCHANGED dbVars
    BY DEF BreakDeadlock
  <1>2. Resetting /\ Active(q) /\ q \in Requests
    BY <1>1 DEF Deadlocked, Active, Requests
  <1>3. CASE Rollback /\ UNCHANGED reqVars
    <2>1. rows' = rows /\ deleted' = {}
      BY <1>3 DEF Rollback
    <2>2. RequestInv'
      BY <1>2, <1>3, <2>1, ResetSpares DEF IInv
    <2>3. StoreInv'
      BY <1>2, <1>3, RollbackKeeps DEF IInv
    <2>4. EventsToCome'
      BY <1>1, <2>1, EventsKept DEF IInv
    <2> QED
      BY <2>2, <2>3, <2>4 DEF IInv
  <1>4. CASE Answer(q, "internal") /\ UNCHANGED dbVars
    <2>1. DbStep /\ RequestInv' /\ EventsToCome'
      BY <1>1, <1>2, <1>4, ReadAndAnswer
    <2> QED
      BY <2>1, DbStepKeeps DEF IInv
  <1> QED
    BY <1>1, <1>3, <1>4

-----------------------------------------------------------------------------
(* The theorems.                                                           *)

\* The empty database satisfies the invariant.
LEMMA InitHolds == Init => IInv
  <1> SUFFICES ASSUME Init PROVE IInv
    OBVIOUS
  <1> USE DEF Init
  <1>1. ResetShape
    BY DEF ResetShape, Resetting
  <1>2. /\ \A r \in rows : RowShape(r)
        /\ Ages /\ KeysUnique /\ RefsThere /\ DeletedThere /\ Unreferenced /\ Emptied
        /\ RunsGoTogether
    BY DEF Ages, KeysUnique, RefsThere, DeletedThere, Unreferenced, Emptied, RunsGoTogether
  <1>3. ResetIsAtomic /\ BaselineIsThere
    BY DEF ResetIsAtomic, ResetClearsAll, ResetFailsOnlyIfCrossed, BaselineIsThere, Table
  <1>4. RequestShape
    BY DEF RequestShape, NothingRead
  <1>5. LocksHeld /\ BaselineIsLocked /\ MetStays
    BY DEF LocksHeld, BaselineIsLocked, MetStays, Requests, RunPosts
  <1>6. EventsToCome
    BY DEF EventsToCome, Find
  <1> QED
    BY <1>1, <1>2, <1>3, <1>4, <1>5, <1>6 DEF IInv, StoreInv, RequestInv

\* Every step preserves the invariant.
LEMMA StepKeeps == IInv /\ [Next]_vars => IInv'
  <1> SUFFICES ASSUME IInv, [Next]_vars PROVE IInv'
    OBVIOUS
  <1>1. ASSUME DbStep, RequestInv', EventsToCome' PROVE IInv'
    BY <1>1, DbStepKeeps DEF IInv
  <1>2. CASE \E q \in Requests : Handle(q)
    BY <1>1, <1>2, DetectIs, ReadIs, PostIs, DiffIs DEF Handle
  <1>3. CASE \E r \in RunPosts : Work(r)
    BY <1>1, <1>3, WorkIs
  <1>4. CASE BeginReset
    BY <1>4, BeginIs
  <1>5. CASE ResetStep
    BY <1>5, DeleteIs, BreakIs DEF ResetStep
  <1>6. CASE UNCHANGED vars
    <2>1. UNCHANGED dbVars /\ UNCHANGED reqVars /\ ingested' = ingested
      BY <1>6 DEF vars
    <2>2. DbStep /\ EventsToCome'
      BY <2>1, ReadsOnly
    <2>3. RequestInv'
      BY <2>1, <2>2, QuietKeeps DEF IInv
    <2> QED
      BY <1>1, <2>2, <2>3
  <1> QED
    BY <1>2, <1>3, <1>4, <1>5, <1>6 DEF Next

\* The invariant holds of the Core API.
THEOREM Invariance == Spec => []IInv
  <1> QED
    BY InitHolds, StepKeeps, PTL DEF Spec

\* The store is well formed in every state: keys are unique, references are to rows
\* that are there (postgres.go Reset deletes in foreign-key order), nothing is
\* half deleted after a reset and no request that has answered holds a lock.
THEOREM StoreIsWellFormed == Spec => []StoreOK
  <1>1. IInv => StoreOK
    BY DEF IInv, StoreInv, RequestInv, KeysUnique, RefsThere, DeletedThere, LocksHeld,
           StoreOK, Orphan, Name
  <1> QED
    BY <1>1, Invariance, PTL

\* A reset that commits has cleared everything older than itself, and one that fails
\* has been crossed by a request (main.go postReset).
THEOREM ResetIsAllOrNothing == Spec => []ResetIsAtomic
  <1>1. IInv => ResetIsAtomic
    BY DEF IInv, StoreInv
  <1> QED
    BY <1>1, Invariance, PTL

\* No what-if loses its baseline, though no foreign key keeps it (postgres.go PutRun,
\* Reset).
THEOREM BaselinesRemain == Spec => []BaselineRemains
  <1>1. ASSUME IInv PROVE BaselineRemains
    <2> SUFFICES ASSUME NEW w \in Table("replay_runs"), NEW b, b \in w.names
                 PROVE  Find(b) # {} /\ Row(b).stamp = w.stamp
      BY DEF BaselineRemains
    <2>1. Find(b) # {} /\ \A r \in Find(b) : r.stamp = w.stamp
      BY <1>1 DEF IInv, StoreInv, BaselineIsThere
    <2> QED
      BY <1>1, <2>1, RowIs DEF IInv, StoreInv
  <1> QED
    BY <1>1, Invariance, PTL

\* A request that begins when the capsule is compiled returns that capsule, unless a
\* reset overlaps it (main.go postCapsule).
THEOREM CompiledCapsuleIsReturned == Spec => []AlreadyCompiledIsReturned
  <1>1. IInv => AlreadyCompiledIsReturned
    BY DEF IInv, RequestInv, MetStays, AlreadyCompiledIsReturned
  <1> QED
    BY <1>1, Invariance, PTL


-----------------------------------------------------------------------------
(* The evidence of an incident.                                            *)
(*                                                                         *)
(* PutIncident checks its nodes one by one, each in a snapshot of its own, *)
(* so what is known in between is that no reset has begun (Checked).  That *)
(* replays record under the execution they replay does not matter, since a *)
(* run can only be there while the incident is (Fresh).                    *)

\* A request in PutIncident's loop, or past it.
InPutIncident(q) == pc[q] \in {"check", "insertIncident"}

\* The nodes a detection has found stored are still stored unless it was raced.
CheckedBy(q) ==
    /\ pc[q] = "insertIncident" => got[q].left = {}
    /\ InPutIncident(q) /\ ~got[q].raced
         /\ (pc[q] = "insertIncident" \/ got[q].left # got[q].nodes) =>
            ~Resetting /\ got[q].nodes \ got[q].left \subseteq Events

Checked == \A q \in EventPosts : CheckedBy(q)

\* An incident that was not raced has its events, and is older than the open reset.
Whole ==
    \A i \in Table("incidents") : ~i.raced =>
        i.names \subseteq Events /\ (Resetting => i.born < reset.begun)

\* Of a run that is still to be created there is nothing anywhere.
Fresh ==
    \A r \in RunPosts : pc[r] # "used" =>
        /\ r \notin working /\ Find(Run(r)) = {} /\ ReplayEvent(r) \notin Events
        /\ \A i \in Table("incidents") : ReplayEvent(r) \notin i.names
        /\ \A q \in EventPosts : InPutIncident(q) => ReplayEvent(r) \notin got[q].nodes

SoundInv == Checked /\ Whole /\ Fresh /\ IncidentIsClean

\* What a step other than the reset's adds to the tables.
OnlyAdds(q) ==
    \A x \in rows' \ rows :
        /\ x.table = "execution_events" =>
             \/ x.key[3] # 0
             \/ \E r \in working : x.key = ReplayEvent(r)
        /\ x.table = "replay_runs" =>
             \/ Find(Name(x)) # {}
             \/ q \in RunPosts /\ x.key = <<q>> /\ pc[q] = "insertRun" /\ pc'[q] = "used"
        /\ x.table = "incidents" =>
             /\ Find(Incident) = {} /\ q \in EventPosts /\ pc[q] = "insertIncident"
             /\ x.names = got[q].nodes /\ x.raced = got[q].raced

\* How a request goes on within a detection.
GoesOn(q) ==
    /\ pc'[q] # "used" => pc[q] # "used"
    /\ q \in EventPosts /\ InPutIncident(q)' /\ ~(pc'[q] = pc[q] /\ got'[q] = got[q]) =>
         /\ \/ got'[q].nodes \subseteq Events
            \/ InPutIncident(q) /\ got'[q].nodes = got[q].nodes
         /\ pc'[q] = "insertIncident" => got'[q].left = {}
         /\ ~got'[q].raced /\ (pc'[q] = "insertIncident" \/ got'[q].left # got'[q].nodes) =>
               ~Resetting /\ got'[q].nodes \ got'[q].left \subseteq Events

\* A statement of a handler keeps the events that are there.
LEMMA EventsGrow ==
    ASSUME StoreInv, DbStep
    PROVE  Events \subseteq Events'
  <1>1. CASE UNCHANGED dbVars
    BY <1>1 DEF dbVars, Events, Table
  <1>2. CASE \E new : DbInsert(new)
    BY <1>2 DEF DbInsert, Events, Table
  <1>3. CASE \E old, new : DbUpdate(old, new)
    <2>1. PICK old, new : DbUpdate(old, new)
      BY <1>3
    <2>2. \A r \in rows : r.table = "execution_events" => r \in rows'
      BY <2>1 DEF DbUpdate
    <2> QED
      BY <2>2 DEF Events, Table
  <1> QED
    BY <1>1, <1>2, <1>3 DEF DbStep

\* The two kinds of event ids, and the names of two runs, are different.
LEMMA NamesDiffer ==
    /\ \A r, s : ReplayEvent(r) = ReplayEvent(s) => r = s
    /\ \A r, s : Run(r) = Run(s) => r = s
    /\ \A r : ReplayEvent(r)[3] = 0
  BY DEF ReplayEvent, Run

\* Without an incident there is no capsule, and without a capsule no run.
LEMMA NoIncidentNoRun ==
    ASSUME StoreInv, Find(Incident) = {}
    PROVE  \A r \in rows : r.table # "replay_runs"
  <1>1. Find(Capsule) = {}
    <2> SUFFICES ASSUME NEW c \in rows, Name(c) = Capsule PROVE FALSE
      BY DEF Find
    <2>1. c.refs = {Incident}
      BY DEF Name, Capsule, StoreInv, RowShape
    <2> QED
      BY <2>1 DEF StoreInv, RefsThere
  <1> QED
    BY <1>1 DEF StoreInv, RefsThere, RowShape

\* A statement of a handler or a worker keeps the evidence sound, if it adds and goes
\* on as above.
LEMMA SoundKept ==
    ASSUME IInv, SoundInv, DbStep, NEW q \in Requests, OnlyMoves(q), OnlyAdds(q), GoesOn(q),
           \A r \in working' \ working : Find(Run(r)) # {}
    PROVE  SoundInv'
  <1>1. Events \subseteq Events' /\ Resetting' = Resetting
    BY EventsGrow, DbStepKeepsRows DEF IInv
  <1>2. \A p \in Requests : p # q => pc'[p] = pc[p] /\ got'[p] = got[p]
    BY DEF OnlyMoves
  <1>3. EventPosts \subseteq Requests /\ RunPosts \subseteq Requests
    BY DEF Requests
  <1>4. Checked'
    <2> SUFFICES ASSUME NEW p \in EventPosts PROVE CheckedBy(p)'
      BY DEF Checked
    <2>1. CASE pc'[p] = pc[p] /\ got'[p] = got[p]
      BY <1>1, <2>1 DEF SoundInv, Checked, CheckedBy, InPutIncident
    <2>2. CASE ~(pc'[p] = pc[p] /\ got'[p] = got[p])
      <3>1. p = q
        BY <1>2, <1>3, <2>2
      <3> QED
        BY <1>1, <2>2, <3>1 DEF GoesOn, CheckedBy, InPutIncident
    <2> QED
      BY <2>1, <2>2
  <1>5. ASSUME NEW i \in Table("incidents")'
        PROVE  \/ i \in Table("incidents")
               \/ /\ Find(Incident) = {} /\ q \in EventPosts /\ pc[q] = "insertIncident"
                  /\ i.names = got[q].nodes /\ i.raced = got[q].raced
    BY <1>5 DEF OnlyAdds, Table
  <1>6. Whole'
    <2> SUFFICES ASSUME NEW i \in Table("incidents")', ~i.raced
                 PROVE  i.names \subseteq Events' /\ (Resetting' => i.born < reset'.begun)
      BY DEF Whole
    <2>1. CASE i \in Table("incidents")
      <3>1. reset'.begun = reset.begun
        BY DEF DbStep, DbInsert, DbUpdate, dbVars, IInv, StoreInv, ResetShape
      <3> QED
        BY <1>1, <2>1, <3>1 DEF SoundInv, Whole
    <2>2. CASE i \notin Table("incidents")
      <3>1. /\ q \in EventPosts /\ pc[q] = "insertIncident"
            /\ i.names = got[q].nodes /\ ~got[q].raced
        BY <1>5, <2>2
      <3>2. ~Resetting /\ got[q].nodes \subseteq Events
        BY <3>1 DEF SoundInv, Checked, CheckedBy, InPutIncident
      <3> QED
        BY <1>1, <3>1, <3>2
    <2> QED
      BY <2>1, <2>2
  <1>7. ASSUME NEW r \in RunPosts, pc'[r] # "used"
        PROVE  /\ pc[r] # "used" /\ r \notin working /\ Find(Run(r)) = {}
               /\ ReplayEvent(r) \notin Events
               /\ \A i \in Table("incidents") : ReplayEvent(r) \notin i.names
               /\ \A p \in EventPosts : InPutIncident(p) => ReplayEvent(r) \notin got[p].nodes
    <2>1. pc[r] # "used"
      BY <1>2, <1>3, <1>7 DEF GoesOn
    <2> QED
      BY <2>1 DEF SoundInv, Fresh
  <1>8. Fresh'
    <2> SUFFICES ASSUME NEW r \in RunPosts, pc'[r] # "used"
                 PROVE  /\ r \notin working' /\ Find(Run(r))' = {}
                        /\ ReplayEvent(r) \notin Events'
                        /\ \A i \in Table("incidents")' : ReplayEvent(r) \notin i.names
                        /\ \A p \in EventPosts :
                              InPutIncident(p)' => ReplayEvent(r) \notin got'[p].nodes
      BY DEF Fresh
    <2>1. r \notin working'
      BY <1>7
    <2>2. Find(Run(r))' = {}
      <3> SUFFICES ASSUME NEW x \in rows', Name(x) = Run(r) PROVE FALSE
        BY DEF Find
      <3>1. x \notin rows
        BY <1>7 DEF Find
      <3>2. x.table = "replay_runs" /\ x.key = <<r>>
        BY DEF Name, Run
      <3>3. x.key = <<q>> /\ pc'[q] = "used"
        BY <1>7, <3>1, <3>2 DEF OnlyAdds
      <3> QED
        BY <3>2, <3>3
    <2>3. ReplayEvent(r) \notin Events'
      <3> SUFFICES ASSUME NEW x \in rows', x.table = "execution_events", x.key = ReplayEvent(r)
                   PROVE  FALSE
        BY DEF Events, Table
      <3>1. x \notin rows
        BY <1>7 DEF Events, Table
      <3>2. PICK s \in working : x.key = ReplayEvent(s)
        BY <3>1, NamesDiffer DEF OnlyAdds
      <3> QED
        BY <1>7, <3>2, NamesDiffer
    <2>4. \A i \in Table("incidents")' : ReplayEvent(r) \notin i.names
      BY <1>5, <1>7 DEF InPutIncident
    <2>5. ASSUME NEW p \in EventPosts, InPutIncident(p)'
          PROVE  ReplayEvent(r) \notin got'[p].nodes
      <3>1. CASE pc'[p] = pc[p] /\ got'[p] = got[p]
        BY <1>7, <2>5, <3>1 DEF InPutIncident
      <3>2. CASE ~(pc'[p] = pc[p] /\ got'[p] = got[p])
        <4>1. p = q
          BY <1>2, <1>3, <3>2
        <4>2. \/ got'[p].nodes \subseteq Events
              \/ InPutIncident(p) /\ got'[p].nodes = got[p].nodes
          BY <2>5, <3>2, <4>1 DEF GoesOn
        <4> QED
          BY <1>7, <4>2
      <3> QED
        BY <3>1, <3>2
    <2> QED
      BY <2>1, <2>2, <2>3, <2>4, <2>5
  <1>9. IncidentIsClean'
    <2> SUFFICES ASSUME NEW i \in Table("incidents")', NEW r \in RunPosts, Find(Run(r))' # {}
                 PROVE  ReplayEvent(r) \notin i.names
      BY DEF IncidentIsClean
    <2>1. PICK x \in rows' : Name(x) = Run(r)
      BY DEF Find
    <2>2. x.table = "replay_runs" /\ x.key = <<r>>
      BY <2>1 DEF Name, Run
    <2>3. \/ Find(Run(r)) # {}
          \/ q = r /\ pc[r] # "used" /\ pc[q] # "insertIncident"
      <3>1. CASE x \in rows
        BY <2>1, <3>1 DEF Find
      <3>2. CASE x \notin rows
        BY <2>1, <2>2, <3>2 DEF OnlyAdds
      <3> QED
        BY <3>1, <3>2
    <2> QED
      BY <1>5, <2>3, NoIncidentNoRun DEF IInv, SoundInv, Fresh, IncidentIsClean, Find, Name, Run
  <1> QED
    BY <1>4, <1>6, <1>8, <1>9 DEF SoundInv


\* An answer ends a detection.
LEMMA AnswerGoesOn ==
    ASSUME RequestShape, NEW q \in Requests, NEW a, Answer(q, a), pc[q] # "used"
    PROVE  OnlyMoves(q) /\ GoesOn(q)
  <1>1. OnlyMoves(q) /\ pc'[q] \in {"idle", "used"}
    BY AnswerFacts
  <1> QED
    BY <1>1 DEF GoesOn, InPutIncident

\* A statement that only reads adds nothing.
LEMMA NothingAdded ==
    ASSUME NEW q, rows' = rows
    PROVE  OnlyAdds(q)
  BY DEF OnlyAdds

\* A request that reads, and answers or goes on outside PutIncident.
LEMMA ReadingIsSound ==
    ASSUME IInv, SoundInv, UNCHANGED dbVars, ingested' = ingested, working' = working,
           NEW q \in Requests, pc[q] # "used", RequestShape', OnlyMoves(q),
           pc'[q] \notin {"check", "insertIncident"}
    PROVE  SoundInv'
  <1>1. DbStep /\ rows' = rows
    BY ReadsOnly DEF dbVars
  <1>2. GoesOn(q)
    BY DEF GoesOn, InPutIncident
  <1> QED
    BY <1>1, <1>2, NothingAdded, SoundKept

\* Detection keeps the evidence sound.
LEMMA DetectIsSound ==
    ASSUME IInv, SoundInv, NEW q \in Requests, Detect(q)
    PROVE  SoundInv'
  <1>1. DbStep /\ RequestShape
    BY DetectIs DEF IInv, RequestInv
  <1>2. \A x \in working' \ working : Find(Run(x)) # {}
    BY DEF Detect, IngestEvent, ReadExecution, CheckNode, InsertIncident
  <1>3. CASE IngestEvent(q)
    <2> DEFINE k == CheckoutEvent((ingested \div 2) + 1, (ingested % 2) + 1)
               e == EventRow(k)
    <2>1. e.table = "execution_events" /\ e.key = k
      BY EventRowIs DEF IInv, StoreInv, ResetShape
    <2>2. k[3] # 0
      BY DEF CheckoutEvent, IInv, EventsToCome
    <2>3. /\ rows' = rows \cup {e} /\ Goto(q, "detect") /\ got' = [got EXCEPT ![q] = got[q]]
          /\ pc[q] = "idle"
      BY <1>1, <1>3 DEF IngestEvent, Insert, Starts, RequestShape
    <2> HIDE DEF k, e
    <2>4. OnlyAdds(q)
      BY <2>1, <2>2, <2>3 DEF OnlyAdds
    <2>5. OnlyMoves(q) /\ pc'[q] = "detect"
      BY <1>1, <2>3, GotoFacts
    <2>6. GoesOn(q)
      BY <2>3, <2>5 DEF GoesOn, InPutIncident
    <2> QED
      BY <1>1, <1>2, <2>4, <2>5, <2>6, SoundKept
  <1>4. CASE ReadExecution(q)
    <2>1. rows' = rows /\ pc[q] = "detect"
      BY <1>4 DEF ReadExecution, dbVars
    <2>2. CASE Answer(q, "nothing")
      BY <1>1, <1>2, <2>1, <2>2, AnswerGoesOn, NothingAdded, SoundKept
    <2>3. CASE ~Answer(q, "nothing")
      <3>1. /\ Goto(q, "check")
            /\ got' = [got EXCEPT ![q].nodes = Events, ![q].left = Events]
        BY <1>4, <2>3 DEF ReadExecution
      <3> DEFINE g == [got[q] EXCEPT !.nodes = Events, !.left = Events]
      <3>2. /\ got' = [got EXCEPT ![q] = g] /\ DOMAIN g = DOMAIN got[q]
            /\ g.nodes = Events /\ g.left = Events
        BY <1>1, <3>1 DEF RequestShape
      <3> HIDE DEF g
      <3>3. OnlyMoves(q) /\ pc'[q] = "check" /\ got'[q] = g
        BY <1>1, <3>1, <3>2, GotoFacts
      <3>4. GoesOn(q)
        BY <2>1, <3>2, <3>3 DEF GoesOn, InPutIncident
      <3> QED
        BY <1>1, <1>2, <2>1, <3>3, <3>4, NothingAdded, SoundKept
    <2> QED
      BY <2>2, <2>3
  <1>5. CASE CheckNode(q)
    <2>1. rows' = rows /\ pc[q] = "check" /\ q \in EventPosts
      BY <1>5 DEF CheckNode, dbVars
    <2>2. CASE Answer(q, "internal")
      BY <1>1, <1>2, <2>1, <2>2, AnswerGoesOn, NothingAdded, SoundKept
    <2>3. CASE ~Answer(q, "internal")
      <3> DEFINE raced(n) == Resetting \/ (got[q].raced /\ got[q].left # got[q].nodes)
      <3>1. PICK n : /\ n \in Events
                     /\ got' = [got EXCEPT ![q].left = @ \ {n}, ![q].raced = raced(n)]
                     /\ Goto(q, IF got[q].left = {n} THEN "insertIncident" ELSE "check")
        BY <1>5, <2>3 DEF CheckNode, Stored
      <3> DEFINE g == [got[q] EXCEPT !.left = @ \ {n}, !.raced = raced(n)]
                 p == IF got[q].left = {n} THEN "insertIncident" ELSE "check"
      <3>2. /\ got' = [got EXCEPT ![q] = g] /\ DOMAIN g = DOMAIN got[q]
            /\ g.nodes = got[q].nodes /\ g.left = got[q].left \ {n} /\ g.raced = raced(n)
        BY <1>1, <3>1 DEF RequestShape
      <3> HIDE DEF g
      <3>3. p = "insertIncident" => g.left = {}
        BY <3>2
      <3>4. Goto(q, p) /\ p \in {"check", "insertIncident"}
        BY <3>1
      <3> HIDE DEF p
      <3>5. OnlyMoves(q) /\ pc'[q] = p /\ got'[q] = g
        BY <1>1, <3>2, <3>4, GotoFacts
      <3>6. ASSUME ~g.raced PROVE ~Resetting /\ g.nodes \ g.left \subseteq Events
        <4>1. ~Resetting /\ ~(got[q].raced /\ got[q].left # got[q].nodes)
          BY <3>2, <3>6
        <4>2. got[q].nodes \ got[q].left \subseteq Events
          BY <2>1, <4>1 DEF SoundInv, Checked, CheckedBy, InPutIncident
        <4> QED
          BY <3>1, <3>2, <4>1, <4>2
      <3>7. GoesOn(q)
        BY <2>1, <3>2, <3>3, <3>5, <3>6 DEF GoesOn, InPutIncident
      <3> QED
        BY <1>1, <1>2, <2>1, <3>5, <3>7, NothingAdded, SoundKept
    <2> QED
      BY <2>2, <2>3
  <1>6. CASE InsertIncident(q)
    <2> DEFINE i == IncidentRow(q)
               g == GraphRow(q)
    <2>1. /\ i.table = "incidents" /\ i.key = Golden
          /\ i.names = got[q].nodes /\ i.raced = got[q].raced
      BY DEF IncidentRow, RowOf, Blank
    <2>2. g.table = "execution_graphs"
      BY DEF GraphRow, RowOf, Blank
    <2>3. pc[q] = "insertIncident" /\ q \in EventPosts
      BY <1>6 DEF InsertIncident
    <2>4. \/ Answer(q, "nothing") /\ rows' = rows
          \/ /\ ~Duplicate(i) /\ ~Deleting(Name(i))
             /\ rows' = rows \cup {i, g} /\ Answer(q, "created")
      BY <1>6 DEF InsertIncident, Overwrites, Insert
    <2> HIDE DEF i, g
    <2>5. CASE Answer(q, "nothing") /\ rows' = rows
      BY <1>1, <1>2, <2>3, <2>5, AnswerGoesOn, NothingAdded, SoundKept
    <2>6. CASE /\ ~Duplicate(i) /\ ~Deleting(Name(i))
               /\ rows' = rows \cup {i, g} /\ Answer(q, "created")
      <3>1. Find(Incident) = {}
        BY <2>1, <2>6 DEF Duplicate, Deleting, Find, Name, Incident
      <3>2. OnlyAdds(q)
        BY <2>1, <2>2, <2>3, <2>6, <3>1 DEF OnlyAdds
      <3>3. OnlyMoves(q) /\ GoesOn(q)
        BY <1>1, <2>3, <2>6, AnswerGoesOn
      <3> QED
        BY <1>1, <1>2, <3>2, <3>3, SoundKept
    <2> QED
      BY <2>4, <2>5, <2>6
  <1> QED
    BY <1>3, <1>4, <1>5, <1>6 DEF Detect


\* A single INSERT of a row that is neither an event nor an incident.
LEMMA InsertIsSound ==
    ASSUME IInv, SoundInv, DbStep, working' = working, NEW q \in Requests, pc[q] # "used",
           NEW r, NEW ok,
           \/ Answer(q, "conflict") /\ rows' = rows
           \/ Answer(q, ok) /\ rows' = rows \cup {r},
           r.table \notin {"execution_events", "incidents"},
           r.table = "replay_runs" =>
               q \in RunPosts /\ r.key = <<q>> /\ pc[q] = "insertRun" /\ ok = "created"
    PROVE  SoundInv'
  <1>1. OnlyMoves(q) /\ GoesOn(q)
    BY AnswerGoesOn DEF IInv, RequestInv
  <1>2. CASE rows' = rows
    BY <1>1, <1>2, NothingAdded, SoundKept
  <1>3. CASE Answer(q, ok) /\ rows' = rows \cup {r}
    <2>1. r.table = "replay_runs" => pc'[q] = "used"
      BY <1>3 DEF Answer, IInv, RequestInv, RequestShape
    <2>2. OnlyAdds(q)
      BY <1>3, <2>1 DEF OnlyAdds
    <2> QED
      BY <1>1, <2>2, SoundKept
  <1> QED
    BY <1>2, <1>3

\* Compiling a capsule keeps the evidence sound.
LEMMA ReadIsSound ==
    ASSUME IInv, SoundInv, NEW q \in Requests, Read(q)
    PROVE  SoundInv'
  <1>1. DbStep /\ RequestShape /\ RequestShape'
    BY ReadIs DEF IInv, RequestInv
  <1>2. CASE PutCapsule(q)
    <2> DEFINE r == CapsuleRow(q)
    <2>1. RowShape(r) /\ r.table = "replay_capsules" /\ r.born = reset.begun
      BY CapsuleRowIs DEF IInv, StoreInv, ResetShape
    <2>2. /\ InsertOne(q, r, "created") /\ deleted' = deleted /\ working' = working
          /\ pc[q] = "insertCapsule"
      BY <1>2 DEF PutCapsule
    <2> HIDE DEF r
    <2>3. \/ Answer(q, "conflict") /\ rows' = rows
          \/ Answer(q, "created") /\ rows' = rows \cup {r}
      BY <2>1, <2>2, InsertOneIs DEF IInv
    <2> QED
      BY <1>1, <2>1, <2>2, <2>3, InsertIsSound
  <1>3. CASE ReadIncident(q) \/ ReadEvents(q) \/ CompileCapsule(q)
    <2>1. /\ UNCHANGED dbVars /\ ingested' = ingested /\ working' = working
          /\ pc[q] \in {"idle", "events", "compile"}
      BY <1>3 DEF ReadIncident, ReadEvents, CompileCapsule, Starts
    <2>2. CASE \E a : Answer(q, a)
      BY <1>1, <2>1, <2>2, AnswerFacts, ReadingIsSound
    <2>3. CASE ~(\E a : Answer(q, a))
      <3>1. PICK p : Goto(q, p) /\ p \in {"events", "compile", "insertCapsule"}
        BY <1>3, <2>3 DEF ReadIncident, ReadEvents, CompileCapsule
      <3>2. \A x \in Requests : x # q => got'[x] = got[x]
        BY <1>1, <1>3, <2>3 DEF ReadIncident, ReadEvents, CompileCapsule, RequestShape
      <3>3. OnlyMoves(q) /\ pc'[q] = p
        BY <1>1, <3>1, <3>2 DEF Goto, OnlyMoves, RequestShape
      <3> QED
        BY <1>1, <2>1, <3>1, <3>3, ReadingIsSound
    <2> QED
      BY <2>2, <2>3
  <1> QED
    BY <1>2, <1>3 DEF Read

\* Creating a run keeps the evidence sound: its events are still to come.
LEMMA PostIsSound ==
    ASSUME IInv, SoundInv, NEW q \in Requests, Post(q)
    PROVE  SoundInv'
  <1>1. DbStep /\ RequestShape /\ RequestShape'
    BY PostIs DEF IInv, RequestInv
  <1>2. CASE PutRun(q)
    <2> DEFINE r == RunRow(q)
    <2>1. r.table = "replay_runs" /\ r.key = <<q>>
      BY RunRowIs DEF IInv, StoreInv, ResetShape
    <2>2. /\ InsertOne(q, r, "created") /\ deleted' = deleted /\ working' = working
          /\ pc[q] = "insertRun" /\ q \in RunPosts
      BY <1>2 DEF PutRun
    <2> HIDE DEF r
    <2>3. \/ Answer(q, "conflict") /\ rows' = rows
          \/ Answer(q, "created") /\ rows' = rows \cup {r}
      BY <2>2 DEF InsertOne, Overwrites, Insert
    <2> QED
      BY <1>1, <2>1, <2>2, <2>3, InsertIsSound
  <1>3. CASE ReadCapsule(q) \/ Gate(q)
    <2>1. /\ UNCHANGED dbVars /\ ingested' = ingested /\ working' = working
          /\ pc[q] \in {"idle", "gate"}
      BY <1>3 DEF ReadCapsule, Gate, Starts
    <2>2. CASE \E a : Answer(q, a)
      BY <1>1, <2>1, <2>2, AnswerFacts, ReadingIsSound
    <2>3. CASE ~(\E a : Answer(q, a))
      <3>1. PICK p : pc' = [pc EXCEPT ![q] = p] /\ p \in {"gate", "insertRun"}
        BY <1>3, <2>3 DEF ReadCapsule, Gate, Goto
      <3>2. \A x \in Requests : x # q => got'[x] = got[x] /\ locks'[x] = locks[x]
        BY <1>1, <1>3, <2>3 DEF ReadCapsule, Gate, Goto, RequestShape
      <3>3. OnlyMoves(q) /\ pc'[q] = p
        BY <1>1, <3>1, <3>2 DEF OnlyMoves, RequestShape
      <3> QED
        BY <1>1, <2>1, <3>1, <3>3, ReadingIsSound
    <2> QED
      BY <2>2, <2>3
  <1> QED
    BY <1>2, <1>3 DEF Post

\* Storing a diff keeps the evidence sound.
LEMMA DiffIsSound ==
    ASSUME IInv, SoundInv, NEW q \in Requests, Diff(q)
    PROVE  SoundInv'
  <1>1. DbStep /\ RequestShape /\ RequestShape'
    BY DiffIs DEF IInv, RequestInv
  <1>2. CASE PutDiff(q)
    <2> DEFINE r == DiffRow(q)
    <2>1. r.table = "replay_diffs"
      BY DiffRowIs DEF IInv, StoreInv, ResetShape
    <2>2. InsertOne(q, r, "created") /\ working' = working /\ pc[q] = "insertDiff"
      BY <1>2 DEF PutDiff
    <2> HIDE DEF r
    <2>3. \/ Answer(q, "conflict") /\ rows' = rows
          \/ Answer(q, "created") /\ rows' = rows \cup {r}
      BY <2>2 DEF InsertOne, Overwrites, Insert
    <2> QED
      BY <1>1, <2>1, <2>2, <2>3, InsertIsSound
  <1>3. CASE BuildDiff(q) \/ LockBaseline(q) \/ LockComparison(q)
    <2>1. /\ UNCHANGED dbVars /\ ingested' = ingested /\ working' = working
          /\ pc[q] \in {"idle", "lockBaseline", "lockComparison"}
      BY <1>3 DEF BuildDiff, LockBaseline, LockComparison, LockRun, Starts
    <2>2. CASE \E a : Answer(q, a)
      BY <1>1, <2>1, <2>2, AnswerFacts, ReadingIsSound
    <2>3. CASE ~(\E a : Answer(q, a))
      <3>1. PICK p : /\ pc' = [pc EXCEPT ![q] = p]
                     /\ p \in {"lockBaseline", "lockComparison", "insertDiff"}
        BY <1>3, <2>3 DEF BuildDiff, LockBaseline, LockComparison, LockRun, Goto
      <3>2. \A x \in Requests : x # q => got'[x] = got[x] /\ locks'[x] = locks[x]
        BY <1>1, <1>3, <2>3
           DEF BuildDiff, LockBaseline, LockComparison, LockRun, Goto, RequestShape
      <3>3. OnlyMoves(q) /\ pc'[q] = p
        BY <1>1, <3>1, <3>2 DEF OnlyMoves, RequestShape
      <3> QED
        BY <1>1, <2>1, <3>1, <3>3, ReadingIsSound
    <2> QED
      BY <2>2, <2>3
  <1> QED
    BY <1>2, <1>3 DEF Diff

\* A step in which no request moves.
LEMMA QuietIsSound ==
    ASSUME IInv, SoundInv, DbStep, NEW r \in RunPosts, UNCHANGED reqVars, OnlyAdds(r),
           \A x \in working' \ working : Find(Run(x)) # {}
    PROVE  SoundInv'
  <1>1. r \in Requests /\ OnlyMoves(r) /\ GoesOn(r)
    BY DEF reqVars, OnlyMoves, GoesOn, Requests
  <1> QED
    BY <1>1, SoundKept

\* The worker keeps the evidence sound: it records only for a run that was created.
LEMMA WorkIsSound ==
    ASSUME IInv, SoundInv, NEW r \in RunPosts, Work(r)
    PROVE  SoundInv'
  <1>1. DbStep /\ UNCHANGED reqVars
    BY WorkIs DEF Work, Claim, Advance, Record, SettleRun
  <1>2. \A x \in working' \ working : Find(Run(x)) # {}
    BY DEF Work, Claim, Advance, Record, SettleRun, Transition
  <1>3. ASSUME NEW from, NEW to, Transition(r, from, to) PROVE OnlyAdds(r)
    <2> DEFINE old == Row(Run(r))
               new == [old EXCEPT !.status = to]
    <2>1. old \in rows /\ Name(old) = Run(r)
      BY <1>3, RowIs DEF IInv, StoreInv, Transition
    <2>2. new.table = old.table /\ new.key = old.key
      BY <2>1 DEF IInv, StoreInv, RowShape
    <2>3. \A x \in rows' \ rows : x = new
      BY <1>3 DEF Transition
    <2> HIDE DEF old, new
    <2>4. new.table = "replay_runs" /\ Name(new) = Run(r)
      BY <2>1, <2>2 DEF Name, Run
    <2>5. Find(Run(r)) # {}
      BY <1>3 DEF Transition
    <2> QED
      BY <2>3, <2>4, <2>5 DEF OnlyAdds
  <1>4. CASE Record(r)
    <2> DEFINE e == EventRow(ReplayEvent(r))
    <2>1. e.table = "execution_events" /\ e.key = ReplayEvent(r)
      BY EventRowIs DEF IInv, StoreInv, ResetShape
    <2>2. rows' = rows \cup {e} /\ r \in working
      BY <1>4 DEF Record, Insert
    <2> HIDE DEF e
    <2>3. OnlyAdds(r)
      BY <2>1, <2>2 DEF OnlyAdds
    <2> QED
      BY <1>1, <1>2, <2>3, QuietIsSound
  <1>5. CASE Claim(r) \/ Advance(r) \/ SettleRun(r)
    <2>1. OnlyAdds(r)
      BY <1>3, <1>5, NothingAdded DEF Claim, Advance, SettleRun
    <2> QED
      BY <1>1, <1>2, <2>1, QuietIsSound
  <1> QED
    BY <1>4, <1>5 DEF Work

\* A statement of the reset keeps the evidence sound: when events go, so do the
\* incidents from before it.
LEMMA ResetIsSound ==
    ASSUME IInv, IInv', SoundInv, Resetting, UNCHANGED reqVars, working' = working,
           reset'.begun = reset.begun,
           rows' = rows \/ (rows' \subseteq rows /\ reset'.done = reset.begun)
    PROVE  SoundInv'
  <1>1. pc' = pc /\ got' = got /\ rows' \subseteq rows
    BY DEF reqVars
  <1>2. Checked'
    BY <1>1 DEF SoundInv, Checked, CheckedBy, InPutIncident
  <1>3. Whole'
    <2>1. CASE rows' = rows
      BY <2>1 DEF SoundInv, Whole, Table, Events
    <2>2. CASE rows' \subseteq rows /\ reset'.done = reset.begun
      <3> SUFFICES ASSUME NEW i \in Table("incidents")', ~i.raced PROVE FALSE
        BY DEF Whole
      <3>1. i.born >= reset.begun
        BY <2>2 DEF IInv, StoreInv, ResetIsAtomic, ResetClearsAll, Table
      <3>2. i.born < reset.begun /\ i \in rows
        BY <2>2 DEF SoundInv, Whole, Table
      <3> QED
        BY <3>1, <3>2 DEF IInv, StoreInv, ResetShape, RowShape
    <2> QED
      BY <2>1, <2>2
  <1>4. \A n : Find(n) = {} => Find(n)' = {}
    BY <1>1 DEF Find
  <1>5. Events' \subseteq Events /\ Table("incidents")' \subseteq Table("incidents")
    BY <1>1 DEF Events, Table
  <1>6. Fresh'
    BY <1>1, <1>4, <1>5 DEF SoundInv, Fresh, InPutIncident
  <1>7. IncidentIsClean'
    BY <1>4, <1>5 DEF SoundInv, IncidentIsClean
  <1> QED
    BY <1>2, <1>3, <1>6, <1>7 DEF SoundInv

\* A reset that begins races every detection at work.
LEMMA BeginIsSound ==
    ASSUME IInv, SoundInv, BeginReset
    PROVE  SoundInv'
  <1>1. /\ pc' = pc /\ rows' = rows /\ working' = working
        /\ got' = [q \in Requests |-> [got[q] EXCEPT !.raced = @ \/ Active(q)]]
        /\ reset'.begun = reset.begun + 1
    BY DEF BeginReset, IInv, StoreInv, ResetShape
  <1>2. \A q \in EventPosts :
           /\ got'[q].left = got[q].left /\ got'[q].nodes = got[q].nodes
           /\ got'[q].raced = (got[q].raced \/ Active(q))
    BY <1>1 DEF IInv, RequestInv, RequestShape, Requests
  <1>3. Checked'
    <2> SUFFICES ASSUME NEW q \in EventPosts PROVE CheckedBy(q)'
      BY DEF Checked
    <2>1. InPutIncident(q)' => got'[q].raced
      BY <1>1, <1>2 DEF InPutIncident, Active
    <2> QED
      BY <1>1, <1>2, <2>1 DEF SoundInv, Checked, CheckedBy
  <1>4. Whole'
    <2> SUFFICES ASSUME NEW i \in Table("incidents")', ~i.raced
                 PROVE  i.names \subseteq Events' /\ i.born < reset'.begun
      BY DEF Whole
    <2>1. i \in rows /\ i.names \subseteq Events
      BY <1>1 DEF SoundInv, Whole, Table
    <2>2. i.born <= reset.begun /\ i.born \in Nat /\ reset.begun \in Nat
      BY <2>1 DEF IInv, StoreInv, Ages, RowShape, ResetShape
    <2> QED
      BY <1>1, <2>1, <2>2 DEF Events, Table
  <1>5. Fresh'
    BY <1>1, <1>2 DEF SoundInv, Fresh, InPutIncident, Find, Events, Table
  <1>6. IncidentIsClean'
    BY <1>1 DEF SoundInv, IncidentIsClean, Find, Table
  <1> QED
    BY <1>3, <1>4, <1>5, <1>6 DEF SoundInv

\* Every step keeps the evidence sound.
LEMMA StepIsSound == IInv /\ IInv' /\ SoundInv /\ [Next]_vars => SoundInv'
  <1> SUFFICES ASSUME IInv, IInv', SoundInv, [Next]_vars PROVE SoundInv'
    OBVIOUS
  <1>1. CASE \E q \in Requests : Handle(q)
    BY <1>1, DetectIsSound, ReadIsSound, PostIsSound, DiffIsSound DEF Handle
  <1>2. CASE \E r \in RunPosts : Work(r)
    BY <1>2, WorkIsSound
  <1>3. CASE BeginReset
    BY <1>3, BeginIsSound
  <1>4. CASE DeleteRows
    <2>1. Resetting /\ UNCHANGED reqVars /\ working' = working
      BY <1>4 DEF DeleteRows
    <2>2. PICK batch, left :
            \/ reset' = [reset EXCEPT !.target = left] /\ UNCHANGED rows
            \/ Rollback
            \/ /\ reset' = [reset EXCEPT !.at = @ + 1, !.target = Table(Order[reset.at + 1])]
               /\ UNCHANGED rows
            \/ Commit(Gone(batch))
      BY <1>4 DEF DeleteRows, Gone
    <2>3. DOMAIN reset = {"at", "target", "begun", "done", "failed", "crossed"}
      BY DEF IInv, StoreInv, ResetShape
    <2>4. /\ reset'.begun = reset.begun
          /\ rows' = rows \/ (rows' \subseteq rows /\ reset'.done = reset.begun)
      BY <2>2, <2>3 DEF Rollback, Commit
    <2> QED
      BY <2>1, <2>4, ResetIsSound
  <1>5. CASE BreakDeadlock
    <2>1. PICK q \in DiffPosts :
            /\ Deadlocked(q) /\ ingested' = ingested /\ working' = working
            /\ \/ Rollback /\ UNCHANGED reqVars
               \/ Answer(q, "internal") /\ UNCHANGED dbVars
      BY <1>5 DEF BreakDeadlock
    <2>2. Resetting /\ q \in Requests /\ pc[q] # "used"
      BY <2>1 DEF Deadlocked, Requests
    <2>3. CASE Rollback /\ UNCHANGED reqVars
      <3>1. rows' = rows /\ reset'.begun = reset.begun
        BY <2>3 DEF Rollback, IInv, StoreInv, ResetShape
      <3> QED
        BY <2>1, <2>2, <2>3, <3>1, ResetIsSound
    <2>4. CASE Answer(q, "internal") /\ UNCHANGED dbVars
      <3>1. RequestShape' /\ OnlyMoves(q) /\ pc'[q] \in {"idle", "used"}
        BY <2>2, <2>4, AnswerFacts DEF IInv, RequestInv
      <3> QED
        BY <2>1, <2>2, <2>4, <3>1, ReadingIsSound
    <2> QED
      BY <2>1, <2>3, <2>4
  <1>6. CASE UNCHANGED vars
    BY <1>6 DEF vars, dbVars, reqVars, SoundInv, Checked, CheckedBy, Whole, Fresh,
                InPutIncident, IncidentIsClean, Find, Events, Table, Resetting
  <1> QED
    BY <1>1, <1>2, <1>3, <1>4, <1>5, <1>6 DEF Next, ResetStep

\* In the empty database there is no evidence.
LEMMA InitIsSound == Init => SoundInv
  <1> SUFFICES ASSUME Init PROVE SoundInv
    OBVIOUS
  <1>1. rows = {} /\ working = {} /\ \A q \in Requests : pc[q] = "idle"
    BY DEF Init
  <1>2. Events = {} /\ Table("incidents") = {} /\ \A n : Find(n) = {}
    BY <1>1 DEF Events, Table, Find
  <1> QED
    BY <1>1, <1>2 DEF SoundInv, Checked, CheckedBy, Whole, Fresh, IncidentIsClean,
                      InPutIncident, Requests

\* The evidence of an incident is stored unless a reset overlapped its PutIncident
\* (postgres.go PutIncident), and an incident never names what a replay of it recorded
\* (postgres.go EventsForExecution).
THEOREM IncidentsAreSound == Spec => []IncidentIsSound
  <1>1. SoundInv => IncidentIsSound
    BY DEF SoundInv, Whole, IncidentIsSound, IncidentIsWhole
  <1> QED
    BY <1>1, InitIsSound, Invariance, StepIsSound, PTL DEF Spec

-----------------------------------------------------------------------------
(* Who waits for whom.                                                     *)
(*                                                                         *)
(* Only runs are ever locked, so only the statement on runs waits for a    *)
(* request.  Who holds a run is a what-if about to be inserted, which      *)
(* waits for nobody then, or a diff.  A diff with one run waits for one    *)
(* with both, which waits for the reset alone; and if the reset has        *)
(* deleted the row it waits for, the statement on runs has its runs still  *)
(* to come (RunsToCome), so that the circle is a deadlock and is broken.   *)

\* The row is there to stay until it is unlocked.
HasRow(n) == ~Deleting(n) /\ Find(n) # {}

\* The runs a request has locked, from where it is.
Held(q) ==
    CASE pc[q] = "insertRun" /\ q \in WhatIfPosts -> {Run(got[q].pair[1])}
      [] pc[q] = "lockComparison" -> {Run(got[q].pair[1])}
      [] pc[q] = "insertDiff" -> {Run(got[q].pair[1]), Run(got[q].pair[2])}
      [] OTHER -> {}

\* A request that locks knows its runs.
PairKnown(q) ==
    /\ pc[q] \in {"gate", "insertRun"} => q \in RunPosts /\ got[q].pair[1] \in BaselinePosts
    /\ pc[q] \in {"lockBaseline", "lockComparison", "insertDiff"} =>
         /\ q \in DiffPosts
         /\ got[q].pair[1] \in BaselinePosts /\ got[q].pair[2] \in WhatIfPosts

Fits(q) == PairKnown(q) /\ locks[q] = Held(q)

Fitting == \A q \in Requests : Fits(q)

HeldStays == \A q \in Requests : \A n \in locks[q] : HasRow(n)

OfPair(r) == r.table = "replay_diffs" => r.refs = {Run(r.key[1]), Run(r.key[2])}

DiffsAreOfPairs == \A r \in rows : OfPair(r)

\* Up to the statement on runs, nothing else but diffs has been deleted.
EarlyDeletions ==
    Resetting /\ reset.at <= 2 => \A d \in deleted : d.table \in {"replay_diffs", "replay_runs"}

\* The runs of a deleted diff are deleted by the next statement.
RunsToCome ==
    reset.at = 2 =>
        \A d \in deleted : d.table = "replay_diffs" =>
            \A n \in d.refs : Deleting(n) \/ \E t \in reset.target : Name(t) = n

WaitInv == Fitting /\ HeldStays /\ DiffsAreOfPairs /\ EarlyDeletions /\ RunsToCome

\* A statement of a handler leaves the reset where it is, and rows where they are.
LEMMA DbStepSpares ==
    ASSUME StoreInv, DbStep
    PROVE  /\ deleted' = deleted /\ reset'.at = reset.at /\ reset'.target = reset.target
           /\ \A n : HasRow(n) => HasRow(n)'
  <1>1. deleted' = deleted /\ reset'.at = reset.at /\ reset'.target = reset.target
    BY DEF DbStep, dbVars, DbInsert, DbUpdate, StoreInv, ResetShape
  <1>2. ASSUME NEW n, HasRow(n), NEW s, s = Row(n).stamp
        PROVE  HasRow(n)'
    <2>1. HasStamp(n, s)
      BY <1>2, RowIs DEF HasRow, HasStamp, StoreInv
    <2>2. HasStamp(n, s)'
      BY <2>1, DbStepKeepsRows
    <2> QED
      BY <2>2 DEF HasRow, HasStamp
  <1> QED
    BY <1>1, <1>2

\* A request that stands still fits.
LEMMA StillFits ==
    ASSUME NEW p, Fits(p), pc'[p] = pc[p], got'[p].pair = got[p].pair, locks'[p] = locks[p]
    PROVE  Fits(p)'
  BY DEF Fits, PairKnown, Held

\* A statement of a handler leaves all others waiting for whom they wait.
LEMMA WaitKept ==
    ASSUME IInv, WaitInv, DbStep, NEW q \in Requests, OnlyMoves(q),
           \A x \in rows' \ rows : OfPair(x),
           Fits(q)', \A n \in locks'[q] : HasRow(n)
    PROVE  WaitInv'
  <1>1. /\ deleted' = deleted /\ reset'.at = reset.at /\ reset'.target = reset.target
        /\ \A n : HasRow(n) => HasRow(n)'
    BY DbStepSpares DEF IInv
  <1>2. Fitting'
    <2> SUFFICES ASSUME NEW p \in Requests PROVE Fits(p)'
      BY DEF Fitting
    <2>1. CASE p # q
      BY <2>1, StillFits DEF OnlyMoves, WaitInv, Fitting
    <2> QED
      BY <2>1
  <1>3. HeldStays'
    <2> SUFFICES ASSUME NEW p \in Requests, NEW n \in locks'[p] PROVE HasRow(n)'
      BY DEF HeldStays
    <2>1. HasRow(n)
      BY DEF OnlyMoves, WaitInv, HeldStays
    <2> QED
      BY <1>1, <2>1
  <1>4. DiffsAreOfPairs'
    BY DEF WaitInv, DiffsAreOfPairs, OfPair
  <1>5. EarlyDeletions' /\ RunsToCome'
    BY <1>1 DEF WaitInv, EarlyDeletions, RunsToCome, Resetting, Deleting
  <1> QED
    BY <1>2, <1>3, <1>4, <1>5 DEF WaitInv

\* Who answers holds nothing.
LEMMA AnswerFits ==
    ASSUME RequestShape, NEW q \in Requests, NEW a, Answer(q, a)
    PROVE  /\ OnlyMoves(q) /\ Fits(q)' /\ \A n \in locks'[q] : HasRow(n)
  <1>1. OnlyMoves(q) /\ pc'[q] \in {"idle", "used"} /\ locks'[q] = {}
    BY AnswerFacts
  <1> QED
    BY <1>1 DEF Fits, PairKnown, Held

\* A request that reads and goes on where no lock is taken.
LEMMA ReadingWaits ==
    ASSUME IInv, WaitInv, DbStep, NEW q \in Requests, RequestShape',
           \A x \in rows' \ rows : OfPair(x),
           \/ \E a : Answer(q, a)
           \/ /\ OnlyMoves(q) /\ locks' = locks
              /\ pc[q] \in {"idle", "detect", "check", "events", "compile"}
              /\ pc'[q] \in {"detect", "check", "insertIncident", "events", "compile", "insertCapsule"}
    PROVE  WaitInv'
  <1>1. CASE \E a : Answer(q, a)
    BY <1>1, AnswerFits, WaitKept DEF IInv, RequestInv
  <1>2. CASE ~(\E a : Answer(q, a))
    <2>1. locks[q] = {}
      BY <1>2 DEF WaitInv, Fitting, Fits, Held
    <2>2. OnlyMoves(q) /\ Fits(q)' /\ locks'[q] = {}
      BY <1>2, <2>1 DEF Fits, PairKnown, Held
    <2> QED
      BY <2>2, WaitKept
  <1> QED
    BY <1>1, <1>2

\* Detection takes no lock.
LEMMA DetectWaits ==
    ASSUME IInv, WaitInv, NEW q \in Requests, Detect(q)
    PROVE  WaitInv'
  <1>1. DbStep /\ RequestShape /\ RequestShape'
    BY DetectIs DEF IInv, RequestInv
  <1>2. \A x \in rows' \ rows : OfPair(x)
    <2>1. CASE ReadExecution(q) \/ CheckNode(q)
      BY <2>1 DEF ReadExecution, CheckNode, dbVars
    <2>2. CASE IngestEvent(q)
      <3> DEFINE e == EventRow(CheckoutEvent((ingested \div 2) + 1, (ingested % 2) + 1))
      <3>1. e.table = "execution_events"
        BY EventRowIs DEF IInv, StoreInv, ResetShape
      <3>2. rows' = rows \cup {e}
        BY <2>2 DEF IngestEvent, Insert
      <3> HIDE DEF e
      <3> QED
        BY <3>1, <3>2 DEF OfPair
    <2>3. CASE InsertIncident(q)
      <3> DEFINE i == IncidentRow(q)
                 g == GraphRow(q)
      <3>1. i.table = "incidents" /\ g.table = "execution_graphs"
        BY IncidentRowIs, GraphRowIs DEF IInv, StoreInv, ResetShape
      <3>2. rows' = rows \/ rows' = rows \cup {i, g}
        BY <2>3 DEF InsertIncident, Overwrites, Insert
      <3> HIDE DEF i, g
      <3> QED
        BY <3>1, <3>2 DEF OfPair
    <2> QED
      BY <2>1, <2>2, <2>3 DEF Detect
  <1>3. CASE \E a : Answer(q, a)
    BY <1>1, <1>2, <1>3, ReadingWaits
  <1>4. CASE ~(\E a : Answer(q, a))
    <2>1. ~InsertIncident(q)
      BY <1>4 DEF InsertIncident, Overwrites
    <2>2. PICK p : Goto(q, p) /\ p \in {"detect", "check", "insertIncident"}
      BY <1>4, <2>1 DEF Detect, IngestEvent, ReadExecution, CheckNode
    <2>3. pc[q] \in {"idle", "detect", "check"}
      BY <2>1 DEF Detect, IngestEvent, ReadExecution, CheckNode, Starts
    <2>4. \A x \in Requests : x # q => got'[x] = got[x]
      BY <1>1, <1>4, <2>1 DEF Detect, IngestEvent, ReadExecution, CheckNode, RequestShape
    <2>5. OnlyMoves(q) /\ pc'[q] = p /\ locks' = locks
      BY <1>1, <2>2, <2>4 DEF Goto, OnlyMoves, RequestShape
    <2> QED
      BY <1>1, <1>2, <2>2, <2>3, <2>5, ReadingWaits
  <1> QED
    BY <1>3, <1>4

\* Nor does the compilation of a capsule.
LEMMA ReadWaits ==
    ASSUME IInv, WaitInv, NEW q \in Requests, Read(q)
    PROVE  WaitInv'
  <1>1. DbStep /\ RequestShape /\ RequestShape'
    BY ReadIs DEF IInv, RequestInv
  <1>2. CASE PutCapsule(q)
    <2> DEFINE r == CapsuleRow(q)
    <2>1. RowShape(r) /\ r.table = "replay_capsules" /\ r.born = reset.begun
      BY CapsuleRowIs DEF IInv, StoreInv, ResetShape
    <2>2. InsertOne(q, r, "created") /\ deleted' = deleted
      BY <1>2 DEF PutCapsule
    <2> HIDE DEF r
    <2>3. \/ Answer(q, "conflict") /\ rows' = rows
          \/ Answer(q, "created") /\ rows' = rows \cup {r}
      BY <2>1, <2>2, InsertOneIs DEF IInv
    <2>4. \A x \in rows' \ rows : OfPair(x)
      BY <2>1, <2>3 DEF OfPair
    <2> QED
      BY <1>1, <2>3, <2>4, ReadingWaits
  <1>3. CASE ReadIncident(q) \/ ReadEvents(q) \/ CompileCapsule(q)
    <2>1. rows' = rows /\ pc[q] \in {"idle", "events", "compile"}
      BY <1>3 DEF ReadIncident, ReadEvents, CompileCapsule, Starts, dbVars
    <2>2. CASE \E a : Answer(q, a)
      BY <1>1, <2>1, <2>2, ReadingWaits
    <2>3. CASE ~(\E a : Answer(q, a))
      <3>1. PICK p : Goto(q, p) /\ p \in {"events", "compile", "insertCapsule"}
        BY <1>3, <2>3 DEF ReadIncident, ReadEvents, CompileCapsule
      <3>2. \A x \in Requests : x # q => got'[x] = got[x]
        BY <1>1, <1>3, <2>3 DEF ReadIncident, ReadEvents, CompileCapsule, RequestShape
      <3>3. OnlyMoves(q) /\ pc'[q] = p /\ locks' = locks
        BY <1>1, <3>1, <3>2 DEF Goto, OnlyMoves, RequestShape
      <3> QED
        BY <1>1, <2>1, <3>1, <3>3, ReadingWaits
    <2> QED
      BY <2>2, <2>3
  <1> QED
    BY <1>2, <1>3 DEF Read

\* A what-if locks the baseline it names.
LEMMA PostWaits ==
    ASSUME IInv, WaitInv, NEW q \in Requests, Post(q)
    PROVE  WaitInv'
  <1>1. DbStep /\ RequestShape /\ RequestShape'
    BY PostIs DEF IInv, RequestInv
  <1>2. CASE PutRun(q)
    <2> DEFINE r == RunRow(q)
    <2>1. r.table = "replay_runs"
      BY RunRowIs DEF IInv, StoreInv, ResetShape
    <2>2. InsertOne(q, r, "created")
      BY <1>2 DEF PutRun
    <2> HIDE DEF r
    <2>3. \/ Answer(q, "conflict") /\ rows' = rows
          \/ Answer(q, "created") /\ rows' = rows \cup {r}
      BY <2>2 DEF InsertOne, Overwrites, Insert
    <2>4. \A x \in rows' \ rows : OfPair(x)
      BY <2>1, <2>3 DEF OfPair
    <2> QED
      BY <1>1, <2>3, <2>4, ReadingWaits
  <1>3. CASE (ReadCapsule(q) \/ Gate(q)) /\ \E a : Answer(q, a)
    <2>1. rows' = rows
      BY <1>3 DEF ReadCapsule, Gate, dbVars
    <2> QED
      BY <1>1, <1>3, <2>1, ReadingWaits
  <1>4. CASE ReadCapsule(q) /\ ~(\E a : Answer(q, a))
    <2>1. PICK b, stamp :
            /\ b \in BaselinePosts
            /\ Goto(q, IF q \in WhatIfPosts THEN "gate" ELSE "insertRun")
            /\ got' = [got EXCEPT ![q].stamp = stamp, ![q].pair = <<b, q>>]
            /\ rows' = rows /\ q \in RunPosts /\ pc[q] = "idle"
      BY <1>4 DEF ReadCapsule, Starts, dbVars
    <2>2. /\ pc'[q] = IF q \in WhatIfPosts THEN "gate" ELSE "insertRun"
          /\ got'[q].pair = <<b, q>> /\ locks'[q] = locks[q] /\ OnlyMoves(q)
      BY <1>1, <2>1 DEF Goto, OnlyMoves, RequestShape
    <2>3. locks[q] = {}
      BY <2>1 DEF WaitInv, Fitting, Fits, Held
    <2>4. got'[q].pair[1] = b /\ locks'[q] = {}
      BY <2>2, <2>3
    <2>5. PairKnown(q)'
      BY <2>1, <2>2, <2>4 DEF PairKnown
    <2>6. Held(q)' = {}
      BY <2>2 DEF Held
    <2>7. Fits(q)'
      BY <2>4, <2>5, <2>6 DEF Fits
    <2> QED
      BY <1>1, <2>1, <2>2, <2>4, <2>7, WaitKept
  <1>5. CASE Gate(q) /\ ~(\E a : Answer(q, a))
    <2> DEFINE n == Run(got[q].pair[1])
    <2>1. /\ Find(n) # {} /\ Lockable(q, n) /\ rows' = rows
          /\ q \in WhatIfPosts /\ pc[q] = "gate"
          /\ pc' = [pc EXCEPT ![q] = "insertRun"] /\ locks' = [locks EXCEPT ![q] = {n}]
          /\ got' = got
      BY <1>5 DEF Gate, ForUpdate, dbVars
    <2>2. pc'[q] = "insertRun" /\ got'[q] = got[q] /\ locks'[q] = {n} /\ OnlyMoves(q)
      BY <1>1, <2>1 DEF OnlyMoves, RequestShape
    <2>3. PairKnown(q)
      BY DEF WaitInv, Fitting, Fits
    <2>4. Fits(q)'
      BY <2>1, <2>2, <2>3 DEF Fits, PairKnown, Held
    <2>5. HasRow(n)
      BY <2>1 DEF HasRow, Lockable
    <2> QED
      BY <1>1, <2>1, <2>2, <2>4, <2>5, WaitKept
  <1> QED
    BY <1>2, <1>3, <1>4, <1>5 DEF Post

\* A diff locks its baseline, then its comparison.
LEMMA DiffWaits ==
    ASSUME IInv, WaitInv, NEW q \in Requests, Diff(q)
    PROVE  WaitInv'
  <1>1. DbStep /\ RequestShape /\ RequestShape'
    BY DiffIs DEF IInv, RequestInv
  <1>2. CASE PutDiff(q)
    <2> DEFINE r == DiffRow(q)
    <2>1. OfPair(r)
      BY DEF DiffRow, RowOf, Blank, OfPair, Run
    <2>2. InsertOne(q, r, "created")
      BY <1>2 DEF PutDiff
    <2> HIDE DEF r
    <2>3. \/ Answer(q, "conflict") /\ rows' = rows
          \/ Answer(q, "created") /\ rows' = rows \cup {r}
      BY <2>2 DEF InsertOne, Overwrites, Insert
    <2>4. \A x \in rows' \ rows : OfPair(x)
      BY <2>1, <2>3
    <2> QED
      BY <1>1, <2>3, <2>4, ReadingWaits
  <1>3. CASE (BuildDiff(q) \/ LockBaseline(q) \/ LockComparison(q)) /\ \E a : Answer(q, a)
    <2>1. rows' = rows
      BY <1>3 DEF BuildDiff, LockBaseline, LockComparison, LockRun, dbVars
    <2> QED
      BY <1>1, <1>3, <2>1, ReadingWaits
  <1>4. CASE BuildDiff(q) /\ ~(\E a : Answer(q, a))
    <2>1. PICK b, w :
            /\ b \in BaselinePosts /\ w \in WhatIfPosts
            /\ Goto(q, "lockBaseline") /\ got' = [got EXCEPT ![q].pair = <<b, w>>]
            /\ rows' = rows /\ q \in DiffPosts /\ pc[q] = "idle"
      BY <1>4 DEF BuildDiff, Starts, dbVars
    <2>2. /\ pc'[q] = "lockBaseline" /\ got'[q].pair = <<b, w>>
          /\ locks'[q] = locks[q] /\ OnlyMoves(q)
      BY <1>1, <2>1 DEF Goto, OnlyMoves, RequestShape
    <2>3. locks'[q] = {}
      BY <2>1, <2>2 DEF WaitInv, Fitting, Fits, Held
    <2>4. PairKnown(q)'
      BY <2>1, <2>2 DEF PairKnown
    <2>5. Held(q)' = {}
      BY <2>2 DEF Held
    <2>6. Fits(q)'
      BY <2>3, <2>4, <2>5 DEF Fits
    <2> QED
      BY <1>1, <2>1, <2>2, <2>3, <2>6, WaitKept
  <1>5. CASE LockBaseline(q) /\ ~(\E a : Answer(q, a))
    <2> DEFINE n == Run(got[q].pair[1])
    <2>1. /\ Find(n) # {} /\ Lockable(q, n) /\ rows' = rows /\ pc[q] = "lockBaseline"
          /\ pc' = [pc EXCEPT ![q] = "lockComparison"]
          /\ locks' = [locks EXCEPT ![q] = @ \cup {n}] /\ got' = got
      BY <1>5 DEF LockBaseline, LockRun, ForUpdate, dbVars
    <2>2. /\ pc'[q] = "lockComparison" /\ got'[q] = got[q] /\ locks'[q] = locks[q] \cup {n}
          /\ OnlyMoves(q)
      BY <1>1, <2>1 DEF OnlyMoves, RequestShape
    <2>3. PairKnown(q) /\ locks[q] = {}
      BY <2>1 DEF WaitInv, Fitting, Fits, Held
    <2>4. PairKnown(q)'
      BY <2>1, <2>2, <2>3 DEF PairKnown
    <2>5. Held(q)' = {n}
      BY <2>2 DEF Held
    <2>6. Fits(q)' /\ locks'[q] = {n}
      BY <2>2, <2>3, <2>4, <2>5 DEF Fits
    <2>7. HasRow(n)
      BY <2>1 DEF HasRow, Lockable
    <2> QED
      BY <1>1, <2>1, <2>2, <2>6, <2>7, WaitKept
  <1>6. CASE LockComparison(q) /\ ~(\E a : Answer(q, a))
    <2> DEFINE m == Run(got[q].pair[1])
               n == Run(got[q].pair[2])
    <2>1. /\ Find(n) # {} /\ Lockable(q, n) /\ rows' = rows /\ pc[q] = "lockComparison"
          /\ pc' = [pc EXCEPT ![q] = "insertDiff"]
          /\ locks' = [locks EXCEPT ![q] = @ \cup {n}] /\ got' = got
      BY <1>6 DEF LockComparison, LockRun, ForUpdate, dbVars
    <2>2. /\ pc'[q] = "insertDiff" /\ got'[q] = got[q] /\ locks'[q] = locks[q] \cup {n}
          /\ OnlyMoves(q)
      BY <1>1, <2>1 DEF OnlyMoves, RequestShape
    <2>3. PairKnown(q) /\ locks[q] = {m} /\ HasRow(m)
      BY <2>1 DEF WaitInv, Fitting, Fits, Held, HeldStays
    <2>4. PairKnown(q)'
      BY <2>1, <2>2, <2>3 DEF PairKnown
    <2>5. Held(q)' = {m, n}
      BY <2>2 DEF Held
    <2>6. Fits(q)' /\ locks'[q] = {m, n}
      BY <2>2, <2>3, <2>4, <2>5 DEF Fits
    <2>7. HasRow(n)
      BY <2>1 DEF HasRow, Lockable
    <2> QED
      BY <1>1, <2>1, <2>2, <2>3, <2>6, <2>7, WaitKept
  <1> QED
    BY <1>2, <1>3, <1>4, <1>5, <1>6 DEF Diff

\* The worker changes nobody's locks, and no diff.
LEMMA WorkWaits ==
    ASSUME IInv, WaitInv, NEW r \in RunPosts, Work(r)
    PROVE  WaitInv'
  <1>1. DbStep /\ UNCHANGED reqVars
    BY WorkIs DEF Work, Claim, Advance, Record, SettleRun
  <1>2. \A x \in rows' \ rows : OfPair(x)
    <2>1. ASSUME NEW from, NEW to, Transition(r, from, to)
          PROVE  \A x \in rows' \ rows : OfPair(x)
      <3> DEFINE old == Row(Run(r))
                 new == [old EXCEPT !.status = to]
      <3>1. old \in rows /\ Name(old) = Run(r)
        BY <2>1, RowIs DEF IInv, StoreInv, Transition
      <3>2. new.table = old.table /\ old.table = "replay_runs"
        BY <3>1 DEF IInv, StoreInv, RowShape, Name, Run
      <3>3. \A x \in rows' \ rows : x = new
        BY <2>1 DEF Transition
      <3> HIDE DEF old, new
      <3> QED
        BY <3>2, <3>3 DEF OfPair
    <2>2. CASE Record(r)
      <3> DEFINE e == EventRow(ReplayEvent(r))
      <3>1. e.table = "execution_events"
        BY EventRowIs DEF IInv, StoreInv, ResetShape
      <3>2. rows' = rows \cup {e}
        BY <2>2 DEF Record, Insert
      <3> HIDE DEF e
      <3> QED
        BY <3>1, <3>2 DEF OfPair
    <2>3. CASE UNCHANGED rows
      BY <2>3
    <2> QED
      BY <2>1, <2>2, <2>3 DEF Work, Claim, Advance, SettleRun
  <1>3. /\ r \in Requests /\ OnlyMoves(r)
        /\ pc'[r] = pc[r] /\ got'[r] = got[r] /\ locks'[r] = locks[r]
    BY <1>1 DEF reqVars, OnlyMoves, Requests
  <1>4. Fits(r)' /\ \A n \in locks'[r] : HasRow(n)
    BY <1>3, StillFits DEF WaitInv, Fitting, HeldStays
  <1> QED
    BY <1>1, <1>2, <1>3, <1>4, WaitKept

\* When a reset begins nothing is deleted yet.
LEMMA BeginWaits ==
    ASSUME IInv, WaitInv, BeginReset
    PROVE  WaitInv'
  <1>1. /\ pc' = pc /\ locks' = locks /\ rows' = rows /\ deleted' = deleted
        /\ got' = [q \in Requests |-> [got[q] EXCEPT !.raced = @ \/ Active(q)]]
        /\ ~Resetting
    BY DEF BeginReset
  <1>2. \A q \in Requests : got'[q].pair = got[q].pair
    BY <1>1 DEF IInv, RequestInv, RequestShape
  <1>3. reset'.at = 1 /\ deleted = {}
    BY <1>1 DEF BeginReset, IInv, StoreInv, ResetShape, DeletedThere
  <1>4. Fitting'
    BY <1>1, <1>2, StillFits DEF WaitInv, Fitting
  <1>5. HeldStays'
    BY <1>1 DEF WaitInv, HeldStays, HasRow, Deleting, Find
  <1>6. DiffsAreOfPairs' /\ EarlyDeletions' /\ RunsToCome'
    BY <1>1, <1>3 DEF WaitInv, DiffsAreOfPairs, EarlyDeletions, RunsToCome
  <1> QED
    BY <1>4, <1>5, <1>6 DEF WaitInv

\* Only runs are locked, by a what-if about to be inserted, or by a diff.
LEMMA LockedAreRuns ==
    ASSUME WaitInv, NEW p \in Requests, NEW n \in locks[p]
    PROVE  /\ \E r : n = Run(r)
           /\ \/ pc[p] = "insertRun" /\ p \in WhatIfPosts
              \/ pc[p] = "lockComparison"
              \/ pc[p] = "insertDiff"
  <1>1. n \in Held(p)
    BY DEF WaitInv, Fitting, Fits
  <1> QED
    BY <1>1 DEF Held

\* A row that somebody has locked is in no batch.
LEMMA LockedIsSpared ==
    ASSUME IInv, WaitInv, NEW batch \in Batches, Resetting,
           \A r \in batch, q \in Requests : Name(r) \notin locks[q],
           NEW p \in Requests, NEW n \in locks[p], NEW d \in Gone(batch)
    PROVE  Name(d) # n
  <1> SUFFICES ASSUME Name(d) = n PROVE FALSE
    OBVIOUS
  <1>1. d \notin deleted
    BY DEF WaitInv, HeldStays, HasRow, Deleting
  <1>2. PICK r \in batch : d \in Cascade(Name(r))
    BY <1>1 DEF Gone
  <1>3. d.table = "execution_graphs"
    BY <1>2 DEF Cascade, Table, Find
  <1>4. n[1] = "replay_runs"
    BY LockedAreRuns DEF Run
  <1> QED
    BY <1>3, <1>4 DEF Name

\* What is gone with a batch of the first two statements.
LEMMA EarlyGone ==
    ASSUME IInv, WaitInv, Resetting, reset.at <= 2, NEW batch \in Batches, NEW d \in Gone(batch)
    PROVE  d \in deleted \/ d.table = Order[reset.at]
  <1> SUFFICES ASSUME d \notin deleted PROVE d.table = Order[reset.at]
    OBVIOUS
  <1>1. PICK t \in batch : d \in Cascade(Name(t))
    BY DEF Gone
  <1>2. reset.at \in {1, 2} /\ t.table = Order[reset.at] /\ d \in rows
    BY GoneIs DEF IInv, StoreInv, ResetShape
  <1>3. t.table \in {"replay_diffs", "replay_runs"}
    BY <1>2, OrderFacts
  <1>4. d.table # "execution_graphs" \/ Name(t) \notin d.refs
    BY <1>2, <1>3 DEF IInv, StoreInv, RowShape, Incident, Name
  <1> QED
    BY <1>1, <1>2, <1>4 DEF Cascade, Find, Table, Name

\* The rows a diff refers to are runs, and they are there.
LEMMA DiffRefs ==
    ASSUME IInv, NEW d \in rows, d.table = "replay_diffs", NEW n \in d.refs
    PROVE  \E r \in rows : Name(r) = n /\ r.table = "replay_runs"
  <1>1. n[1] = "replay_runs" /\ Find(n) # {}
    BY DEF IInv, StoreInv, RowShape, RefsThere
  <1> QED
    BY <1>1 DEF Find, Name

\* A statement of the reset spares what is locked, and comes to runs next.
LEMMA DeleteWaits ==
    ASSUME IInv, WaitInv, DeleteRows
    PROVE  WaitInv'
  <1>1. PICK batch \in Batches :
          /\ Resetting /\ UNCHANGED reqVars
          /\ \A r \in batch, q \in Requests : Name(r) \notin locks[q]
          /\ \/ /\ deleted' = Gone(batch) /\ rows' = rows
                /\ reset' = [reset EXCEPT !.target = reset.target \ batch]
             \/ Rollback
             \/ /\ deleted' = Gone(batch) /\ rows' = rows
                /\ reset' = [reset EXCEPT !.at = @ + 1, !.target = Table(Order[reset.at + 1])]
             \/ Commit(Gone(batch))
    BY DEF DeleteRows, Gone
  <1>2. DOMAIN reset = {"at", "target", "begun", "done", "failed", "crossed"} /\ reset.at \in 1 .. 6
    BY <1>1, GoneIs DEF IInv, StoreInv, ResetShape
  <1>3. /\ pc' = pc /\ got' = got /\ locks' = locks
        /\ deleted' \subseteq Gone(batch) /\ rows' \subseteq rows /\ rows \ Gone(batch) \subseteq rows'
    BY <1>1 DEF reqVars, Rollback, Commit
  <1>4. Fitting'
    BY <1>3, StillFits DEF WaitInv, Fitting
  <1>5. HeldStays'
    <2> SUFFICES ASSUME NEW p \in Requests, NEW n \in locks[p] PROVE HasRow(n)'
      BY <1>3 DEF HeldStays
    <2>1. \A d \in Gone(batch) : Name(d) # n
      BY <1>1, LockedIsSpared
    <2>2. HasRow(n)
      BY DEF WaitInv, HeldStays
    <2> QED
      BY <1>3, <2>1, <2>2 DEF HasRow, Deleting, Find, Name
  <1>6. DiffsAreOfPairs'
    BY <1>3 DEF WaitInv, DiffsAreOfPairs, OfPair
  <1>7. CASE deleted' = {} /\ reset'.at = 0
    <2>1. EarlyDeletions' /\ RunsToCome'
      BY <1>7 DEF EarlyDeletions, RunsToCome
    <2> QED
      BY <1>4, <1>5, <1>6, <2>1 DEF WaitInv
  <1>8. CASE /\ deleted' = Gone(batch) /\ rows' = rows
             /\ reset' = [reset EXCEPT !.target = reset.target \ batch]
    <2>1. reset'.at = reset.at /\ reset'.target = reset.target \ batch
      BY <1>2, <1>8
    <2>2. EarlyDeletions'
      <3> SUFFICES ASSUME reset.at <= 2, NEW d \in Gone(batch)
                   PROVE  d.table \in {"replay_diffs", "replay_runs"}
        BY <1>8, <2>1 DEF EarlyDeletions
      <3>1. d \in deleted \/ d.table = Order[reset.at]
        BY <1>1, EarlyGone
      <3>2. reset.at = 1 \/ reset.at = 2
        BY <1>2
      <3> QED
        BY <1>1, <3>1, <3>2, OrderFacts DEF WaitInv, EarlyDeletions
    <2>3. RunsToCome'
      <3> SUFFICES ASSUME reset.at = 2, NEW d \in Gone(batch), d.table = "replay_diffs",
                          NEW n \in d.refs, \A t \in reset.target \ batch : Name(t) # n
                   PROVE  \E x \in Gone(batch) : Name(x) = n
        BY <1>8, <2>1 DEF RunsToCome, Deleting, Name
      <3>1. d \in deleted /\ d \in rows
        BY <1>1, EarlyGone, GoneIs, OrderFacts DEF IInv
      <3>2. CASE Deleting(n)
        BY <1>1, <3>2, GoneIs DEF Deleting, IInv
      <3>3. CASE \E t \in batch : Name(t) = n
        BY <1>1, <3>1, <3>3, DiffRefs, GoneIs DEF IInv
      <3> QED
        BY <3>1, <3>2, <3>3 DEF WaitInv, RunsToCome
    <2> QED
      BY <1>4, <1>5, <1>6, <2>2, <2>3 DEF WaitInv
  <1>9. CASE /\ deleted' = Gone(batch) /\ rows' = rows
             /\ reset' = [reset EXCEPT !.at = @ + 1, !.target = Table(Order[reset.at + 1])]
    <2>1. reset'.at = reset.at + 1 /\ reset'.target = Table(Order[reset.at + 1])
      BY <1>2, <1>9
    <2>2. ASSUME reset'.at <= 2, NEW d \in Gone(batch)
          PROVE  reset.at = 1 /\ d \in rows /\ d.table \in {"replay_diffs", "replay_runs"}
      <3>1. reset.at = 1
        BY <1>2, <2>1, <2>2
      <3>2. d \in deleted \/ d.table = Order[reset.at]
        BY <1>1, <3>1, EarlyGone
      <3> QED
        BY <1>1, <3>1, <3>2, GoneIs, OrderFacts DEF WaitInv, EarlyDeletions, IInv
    <2>3. EarlyDeletions'
      BY <1>9, <2>2 DEF EarlyDeletions
    <2>4. RunsToCome'
      <3> SUFFICES ASSUME reset'.at = 2, NEW d \in Gone(batch), d.table = "replay_diffs",
                          NEW n \in d.refs
                   PROVE  \E t \in reset'.target : Name(t) = n
        BY <1>9 DEF RunsToCome, Name
      <3>1. d \in rows /\ reset'.target = Table("replay_runs")
        BY <2>1, <2>2, OrderFacts
      <3> QED
        BY <3>1, DiffRefs DEF Table
    <2> QED
      BY <1>4, <1>5, <1>6, <2>3, <2>4 DEF WaitInv
  <1> QED
    BY <1>1, <1>2, <1>7, <1>8, <1>9 DEF Rollback, Commit

\* Every step keeps what is known of waiting.
LEMMA StepWaits == IInv /\ WaitInv /\ [Next]_vars => WaitInv'
  <1> SUFFICES ASSUME IInv, WaitInv, [Next]_vars PROVE WaitInv'
    OBVIOUS
  <1>1. CASE \E q \in Requests : Handle(q)
    BY <1>1, DetectWaits, ReadWaits, PostWaits, DiffWaits DEF Handle
  <1>2. CASE \E r \in RunPosts : Work(r)
    BY <1>2, WorkWaits
  <1>3. CASE BeginReset
    BY <1>3, BeginWaits
  <1>4. CASE DeleteRows
    BY <1>4, DeleteWaits
  <1>5. CASE BreakDeadlock
    <2>1. PICK q \in DiffPosts : \/ Rollback /\ UNCHANGED reqVars
                                 \/ Answer(q, "internal") /\ UNCHANGED dbVars
      BY <1>5 DEF BreakDeadlock
    <2>2. q \in Requests
      BY DEF Requests
    <2>3. CASE Rollback /\ UNCHANGED reqVars
      <3>1. /\ pc' = pc /\ got' = got /\ locks' = locks /\ rows' = rows /\ deleted' = {}
            /\ reset'.at = 0
        BY <2>3 DEF Rollback, reqVars, IInv, StoreInv, ResetShape
      <3>2. Fitting'
        BY <3>1, StillFits DEF WaitInv, Fitting
      <3>3. HeldStays' /\ DiffsAreOfPairs'
        BY <3>1 DEF WaitInv, HeldStays, HasRow, Deleting, Find, DiffsAreOfPairs
      <3>4. EarlyDeletions' /\ RunsToCome'
        BY <3>1 DEF EarlyDeletions, RunsToCome
      <3> QED
        BY <3>2, <3>3, <3>4 DEF WaitInv
    <2>4. CASE Answer(q, "internal") /\ UNCHANGED dbVars
      <3>1. DbStep /\ RequestShape' /\ rows' = rows
        BY <2>2, <2>4, AnswerFacts DEF DbStep, dbVars, IInv, RequestInv
      <3> QED
        BY <2>2, <2>4, <3>1, ReadingWaits
    <2> QED
      BY <2>1, <2>3, <2>4
  <1>6. CASE UNCHANGED vars
    BY <1>6 DEF vars, dbVars, reqVars, WaitInv, Fitting, Fits, PairKnown, Held, HeldStays,
                HasRow, DiffsAreOfPairs, EarlyDeletions, RunsToCome, Resetting, Deleting, Find
  <1> QED
    BY <1>1, <1>2, <1>3, <1>4, <1>5, <1>6 DEF Next, ResetStep

\* A diff that has both runs waits for the reset at most, and then has what the reset
\* has come to.
LEMMA BothRunsSuffice ==
    ASSUME IInv, WaitInv, NEW q \in Requests, pc[q] = "insertDiff", Resetting => reset.at = 2,
           AwaitsReset(q)
    PROVE  ResetGoesOn
  <1> DEFINE n == Run(got[q].pair[1])
             m == Run(got[q].pair[2])
             new == DiffRow(q)
  <1>1. q \in DiffPosts /\ locks[q] = {n, m} /\ HasRow(n) /\ HasRow(m)
    BY DEF WaitInv, Fitting, Fits, PairKnown, Held, HeldStays
  <1>2. new.table = "replay_diffs" /\ new.key = got[q].pair /\ new.refs = {n, m}
    BY DEF DiffRow, RowOf, Blank, Run
  <1>3. Waits(new)
    BY DEF AwaitsReset, Inserting
  <1> HIDE DEF new
  <1>4. PICK d \in deleted : Name(d) = Name(new)
    BY <1>1, <1>2, <1>3 DEF Waits, Deleting, HasRow
  <1>5. Resetting /\ reset.at = 2 /\ d \in rows
    BY <1>4 DEF IInv, StoreInv, DeletedThere
  <1>6. d.table = "replay_diffs" /\ n \in d.refs
    BY <1>2, <1>4, <1>5 DEF Name, WaitInv, DiffsAreOfPairs, OfPair
  <1>7. PICK t \in reset.target : Name(t) = n
    BY <1>1, <1>4, <1>5, <1>6 DEF WaitInv, RunsToCome, HasRow
  <1>8. {t} \in Batches
    BY <1>5, <1>7, OrderFacts DEF Batches
  <1>9. Waits(DiffRow(q))
    BY <1>3 DEF new
  <1>10. Deadlocked(q)
    BY <1>1, <1>5, <1>7, <1>8, <1>9 DEF Deadlocked
  <1> QED
    BY <1>1, <1>5, <1>10 DEF ResetGoesOn

\* A what-if that has its baseline does not wait before the statement on capsules.
LEMMA WhatIfGoesOn ==
    ASSUME IInv, SoundInv, WaitInv, NEW q \in WhatIfPosts, pc[q] = "insertRun",
           Resetting => reset.at = 2
    PROVE  ~Awaits(q)
  <1> DEFINE new == RunRow(q)
  <1>1. new.table = "replay_runs" /\ new.key = <<q>> /\ new.refs = {Capsule}
    BY RunRowIs DEF IInv, StoreInv, ResetShape
  <1>2. Inserting(q) = new
    BY DEF Inserting
  <1> HIDE DEF new
  <1>3. Find(Name(new)) = {}
    <2>1. q \in RunPosts /\ Name(new) = Run(q)
      BY <1>1 DEF RunPosts, Name, Run
    <2> QED
      BY <2>1 DEF SoundInv, Fresh
  <1>4. \A d \in deleted : d.table \in {"replay_diffs", "replay_runs"} /\ d \in rows
    BY DEF IInv, StoreInv, DeletedThere, WaitInv, EarlyDeletions
  <1>5. ~Waits(new)
    BY <1>1, <1>3, <1>4 DEF Waits, Deleting, Find, Name, Capsule
  <1> QED
    BY <1>2, <1>5 DEF Awaits, AwaitsReset, AwaitsLock

\* Whoever holds a run that somebody waits for can go on, or waits for one who can.
LEMMA HolderGoesOn ==
    ASSUME IInv, SoundInv, WaitInv, RunPostsAssumption, NEW q \in Requests, NEW n \in locks[q],
           Resetting => reset.at = 2 /\ \E t \in reset.target : Name(t) = n
    PROVE  ResetGoesOn \/ \E p \in Working : ~Awaits(p)
  <1> SUFFICES ASSUME ~ResetGoesOn
               PROVE  \E p \in Working : ~Awaits(p)
    OBVIOUS
  <1>1. ASSUME NEW p \in Requests, pc[p] = "insertDiff"
        PROVE  p \in Working /\ ~Awaits(p)
    BY <1>1, BothRunsSuffice DEF Working, Active, Awaits, AwaitsLock
  <1>2. CASE pc[q] = "insertRun" /\ q \in WhatIfPosts
    BY <1>2, WhatIfGoesOn DEF Working, Active
  <1>3. CASE pc[q] = "insertDiff"
    BY <1>1, <1>3
  <1>4. CASE pc[q] = "lockComparison"
    <2> DEFINE m == Run(got[q].pair[2])
    <2>1. q \in Working /\ q \in DiffPosts /\ got[q].pair[2] \in WhatIfPosts
      BY <1>4 DEF Working, Active, WaitInv, Fitting, Fits, PairKnown
    <2>2. CASE ~Awaits(q)
      BY <2>1, <2>2
    <2>3. CASE Awaits(q)
      <3>1. ~Lockable(q, m)
        BY <1>4, <2>3 DEF Awaits, AwaitsReset, AwaitsLock, Locking
      <3>2. ~Deleting(m)
        <4> SUFFICES ASSUME Deleting(m) PROVE FALSE
          OBVIOUS
        <4>1. Resetting
          BY DEF Deleting, IInv, StoreInv, DeletedThere
        <4>2. PICK t \in reset.target : Name(t) = n
          BY <4>1
        <4>3. {t} \in Batches
          BY <4>1, <4>2, OrderFacts DEF Batches
        <4>4. Deadlocked(q)
          BY <1>4, <4>1, <4>2, <4>3 DEF Deadlocked
        <4> QED
          BY <2>1, <4>1, <4>4 DEF ResetGoesOn
      <3>3. PICK p \in Requests : m \in locks[p] /\ p # q
        BY <3>1, <3>2 DEF Lockable, LockedByOthers
      <3>4. pc[p] = "insertDiff"
        <4> SUFFICES ASSUME pc[p] # "insertDiff" PROVE FALSE
          OBVIOUS
        <4>1. m = Run(got[p].pair[1]) /\ got[p].pair[1] \in BaselinePosts
          <5>1. (pc[p] = "insertRun" /\ p \in WhatIfPosts) \/ pc[p] = "lockComparison"
            BY <3>3, LockedAreRuns
          <5>2. locks[p] = Held(p) /\ PairKnown(p)
            BY DEF WaitInv, Fitting, Fits
          <5>3. Held(p) = {Run(got[p].pair[1])}
            BY <5>1 DEF Held
          <5>4. got[p].pair[1] \in BaselinePosts
            BY <5>1, <5>2 DEF PairKnown
          <5> HIDE DEF m
          <5> QED
            BY <3>3, <5>2, <5>3, <5>4
        <4>2. got[p].pair[1] = got[q].pair[2]
          BY <4>1, NamesDiffer
        <4> QED
          BY <2>1, <4>1, <4>2 DEF RunPostsAssumption
      <3> QED
        BY <1>1, <3>4
    <2> QED
      BY <2>2, <2>3
  <1> QED
    BY <1>2, <1>3, <1>4, LockedAreRuns

\* Somebody at work waits for nobody.
LEMMA NobodyIsStuckNow ==
    ASSUME IInv, SoundInv, WaitInv
    PROVE  NobodyStuck
  <1>1. CASE Resetting /\ reset.at # 2
    <2>1. PICK batch \in Batches : batch \subseteq reset.target
      BY DEF Batches
    <2>2. ASSUME NEW r \in batch, NEW q \in Requests, Name(r) \in locks[q]
          PROVE  FALSE
      <3>1. Name(r)[1] = "replay_runs"
        BY <2>2, LockedAreRuns DEF Run
      <3>2. r.table = Order[reset.at] /\ reset.at \in 1 .. 6
        BY <1>1, <2>1, GoneIs DEF IInv, StoreInv, ResetShape
      <3> QED
        BY <1>1, <3>1, <3>2, OrderFacts DEF Name
    <2> QED
      BY <1>1, <2>1, <2>2 DEF NobodyStuck, ResetGoesOn
  <1>2. CASE Resetting /\ reset.at = 2
    <2>1. CASE reset.target = {}
      <3>1. {} \in Batches
        BY <2>1 DEF Batches
      <3> QED
        BY <1>2, <3>1 DEF NobodyStuck, ResetGoesOn
    <2>2. CASE reset.target # {}
      <3>1. PICK t \in reset.target : {t} \in Batches
        BY <1>2, <2>2, OrderFacts DEF Batches
      <3>2. CASE \A q \in Requests : Name(t) \notin locks[q]
        BY <1>2, <3>1, <3>2 DEF NobodyStuck, ResetGoesOn
      <3>3. CASE \E q \in Requests : Name(t) \in locks[q]
        BY <1>2, <3>3, HolderGoesOn, RunPostsAssumption DEF NobodyStuck
      <3> QED
        BY <3>2, <3>3
    <2> QED
      BY <2>1, <2>2
  <1>3. CASE ~Resetting
    <2> SUFFICES ASSUME NEW q \in Working, Awaits(q)
                 PROVE  ResetGoesOn \/ \E p \in Working : ~Awaits(p)
      BY <1>3 DEF NobodyStuck
    <2>1. \A n : ~Deleting(n)
      BY <1>3 DEF Deleting, IInv, StoreInv, DeletedThere
    <2>2. AwaitsLock(q)
      BY <2>1 DEF Awaits, AwaitsReset, Waits
    <2>3. PICK p \in Requests : Locking(q) \in locks[p]
      BY <2>1, <2>2 DEF AwaitsLock, Lockable, LockedByOthers
    <2> QED
      BY <1>3, <2>3, HolderGoesOn, RunPostsAssumption
  <1> QED
    BY <1>1, <1>2, <1>3

\* At first nobody waits.
LEMMA InitWaits == Init => WaitInv
  <1> SUFFICES ASSUME Init PROVE WaitInv
    OBVIOUS
  <1>1. /\ rows = {} /\ deleted = {} /\ reset.at = 0
        /\ \A q \in Requests : pc[q] = "idle" /\ locks[q] = {}
    BY DEF Init
  <1> QED
    BY <1>1 DEF WaitInv, Fitting, Fits, PairKnown, Held, HeldStays, DiffsAreOfPairs,
                EarlyDeletions, RunsToCome

\* Whoever waits waits for somebody who can go on: the locks of diffs, what-ifs and
\* the reset, which they take in no common order, close no circle but the one that
\* PostgreSQL breaks (postgres.go PutDiff, PutRun, Reset).
THEOREM NobodyIsStuck == Spec => []NobodyStuck
  <1>1. Init => SoundInv /\ WaitInv
    BY InitIsSound, InitWaits
  <1>2. IInv /\ SoundInv /\ WaitInv => NobodyStuck
    BY NobodyIsStuckNow
  <1> QED
    BY <1>1, <1>2, Invariance, StepIsSound, StepWaits, PTL DEF Spec
-----------------------------------------------------------------------------
(* The lifecycle of runs.                                                  *)
(*                                                                         *)
(* Whatever interleaves, a step changes the table of runs in one of four   *)
(* ways (RunsStep): not at all; a run is inserted under an id that is      *)
(* free; the worker moves a run on; or a reset that commits leaves none.   *)
(* The last is RunsGoTogether: a reset that has deleted a run ends with    *)
(* all of them gone, and one that has deleted none leaves the table as it  *)
(* is.  What RunLifecycle asks of a creation is kept from Gate to PutRun   *)
(* (GateStaysOpen): a run in a terminal status is moved by nobody.         *)

Runs == Table("replay_runs")

\* The baseline of a what-if that is about to be inserted is COMPLETED.
GateStaysOpen ==
    \A q \in WhatIfPosts : pc[q] = "insertRun" =>
        \A x \in Find(Run(got[q].pair[1])) : x.status = "COMPLETED"

\* A stored what-if names the run of a baseline's request.
WhatIfsNameBaselines ==
    \A r \in WhatIfPosts : \A x \in Find(Run(r)) : \E b \in BaselinePosts : Run(b) \in x.names

LifeInv == GateStaysOpen /\ WhatIfsNameBaselines

\* What a step does to the table of runs.
Posted(q) ==
    /\ pc[q] = "insertRun" /\ Find(Run(q)) = {}
    /\ Runs' = Runs \cup {RunRow(q)}

Moved(r) ==
    \/ Transition(r, "CREATED", "VALIDATING")
    \/ Transition(r, "VALIDATING", "RUNNING")
    \/ Transition(r, "RUNNING", "COMPLETED")

RunsStep ==
    \/ Runs' = Runs
    \/ \E q \in RunPosts : Posted(q)
    \/ \E r \in RunPosts : Moved(r)
    \/ Runs' = {}

\* New rows of other tables do not touch it.
LEMMA NoRunAdded ==
    ASSUME NEW new, rows' = rows \cup new, \A x \in new : x.table # "replay_runs"
    PROVE  Runs' = Runs
  BY DEF Runs, Table

\* A single INSERT that is answered adds its row under a free name, or nothing.
LEMMA InsertOneAdds ==
    ASSUME NEW q, NEW r, NEW ok, InsertOne(q, r, ok)
    PROVE  rows' = rows \/ (rows' = rows \cup {r} /\ Find(Name(r)) = {})
  <1>1. CASE rows' = rows
    BY <1>1
  <1>2. CASE ~Duplicate(r) /\ ~Waits(r) /\ Insert({r})
    BY <1>2 DEF Duplicate, Waits, Deleting, Find, Insert
  <1> QED
    BY <1>1, <1>2 DEF InsertOne, Overwrites

\* Of the handlers' statements only the INSERT of a run does.
LEMMA HandleRuns ==
    ASSUME IInv, NEW q \in Requests, Handle(q)
    PROVE  RunsStep
  <1> USE DEF RunsStep
  <1>1. reset.begun \in Nat
    BY DEF IInv, StoreInv, ResetShape
  <1>2. ASSUME rows' = rows PROVE RunsStep
    BY <1>2 DEF Runs, Table
  <1>3. CASE Detect(q)
    <2>1. ASSUME NEW k, Insert({EventRow(k)}) PROVE RunsStep
      <3>1. EventRow(k).table = "execution_events"
        BY <1>1, EventRowIs
      <3>2. rows' = rows \cup {EventRow(k)}
        BY <2>1 DEF Insert
      <3>3. Runs' = Runs
        BY <3>1, <3>2 DEF Runs, Table
      <3> QED
        BY <3>3
    <2>2. ASSUME Insert({IncidentRow(q), GraphRow(q)}) PROVE RunsStep
      <3>1. IncidentRow(q).table = "incidents" /\ GraphRow(q).table = "execution_graphs"
        BY <1>1, IncidentRowIs, GraphRowIs
      <3>2. rows' = rows \cup {IncidentRow(q), GraphRow(q)}
        BY <2>2 DEF Insert
      <3>3. Runs' = Runs
        BY <3>1, <3>2 DEF Runs, Table
      <3> QED
        BY <3>3
    <2>3. CASE IngestEvent(q)
      BY <2>1, <2>3 DEF IngestEvent
    <2>4. CASE InsertIncident(q)
      BY <1>2, <2>2, <2>4 DEF InsertIncident, Overwrites
    <2> QED
      BY <1>2, <1>3, <2>3, <2>4 DEF Detect, ReadExecution, CheckNode, dbVars
  <1>4. CASE Read(q)
    <2>1. CASE PutCapsule(q)
      <3>1. CapsuleRow(q).table = "replay_capsules"
        BY <1>1, CapsuleRowIs
      <3>2. rows' = rows \/ rows' = rows \cup {CapsuleRow(q)}
        BY <2>1, InsertOneAdds DEF PutCapsule
      <3> QED
        BY <1>2, <3>1, <3>2, NoRunAdded
    <2> QED
      BY <1>2, <1>4, <2>1 DEF Read, ReadIncident, ReadEvents, CompileCapsule, dbVars
  <1>5. CASE Post(q)
    <2>1. CASE PutRun(q)
      <3>1. RunRow(q).table = "replay_runs" /\ RunRow(q).key = <<q>>
        BY <1>1, RunRowIs
      <3>2. rows' = rows \/ (rows' = rows \cup {RunRow(q)} /\ Find(Name(RunRow(q))) = {})
        BY <2>1, InsertOneAdds DEF PutRun
      <3>3. ASSUME rows' = rows \cup {RunRow(q)}, Find(Name(RunRow(q))) = {} PROVE RunsStep
        <4>1. Runs' = Runs \cup {RunRow(q)} /\ Find(Run(q)) = {}
          BY <3>1, <3>3 DEF Runs, Table, Name, Run
        <4> QED
          BY <2>1, <4>1 DEF Posted, PutRun
      <3> QED
        BY <1>2, <3>2, <3>3
    <2> QED
      BY <1>2, <1>5, <2>1 DEF Post, ReadCapsule, Gate, dbVars
  <1>6. CASE Diff(q)
    <2>1. CASE PutDiff(q)
      <3>1. DiffRow(q).table = "replay_diffs"
        BY <1>1, DiffRowIs
      <3>2. rows' = rows \/ rows' = rows \cup {DiffRow(q)}
        BY <2>1, InsertOneAdds DEF PutDiff
      <3> QED
        BY <1>2, <3>1, <3>2, NoRunAdded
    <2> QED
      BY <1>2, <1>6, <2>1 DEF Diff, BuildDiff, LockBaseline, LockComparison, LockRun, dbVars
  <1> QED
    BY <1>3, <1>4, <1>5, <1>6 DEF Handle

\* The worker moves a run on.
LEMMA WorkRuns ==
    ASSUME IInv, NEW r \in RunPosts, Work(r)
    PROVE  RunsStep
  <1>1. CASE Record(r)
    <2>1. EventRow(ReplayEvent(r)).table = "execution_events"
      BY EventRowIs DEF IInv, StoreInv, ResetShape
    <2>2. rows' = rows \cup {EventRow(ReplayEvent(r))}
      BY <1>1 DEF Record, Insert
    <2>3. Runs' = Runs
      BY <2>1, <2>2 DEF Runs, Table
    <2> QED
      BY <2>3 DEF RunsStep
  <1>2. CASE Moved(r)
    BY <1>2 DEF RunsStep
  <1>3. CASE rows' = rows
    BY <1>3 DEF RunsStep, Runs, Table
  <1> QED
    BY <1>1, <1>2, <1>3 DEF Work, Claim, Advance, SettleRun, Moved

\* A reset takes every run, or none.
LEMMA ResetRuns ==
    ASSUME IInv, BeginReset \/ ResetStep
    PROVE  RunsStep
  <1>1. CASE rows' = rows
    BY <1>1 DEF RunsStep, Runs, Table
  <1>2. ASSUME DeleteRows, rows' # rows PROVE RunsStep
    <2>1. Resetting /\ StoreInv
      BY <1>2 DEF DeleteRows, IInv
    <2>2. PICK batch \in Batches :
            /\ reset.target \ batch = {} /\ ~Referenced(Gone(batch)) /\ ~(reset.at < Len(Order))
            /\ rows' = rows \ Gone(batch)
      BY <1>2 DEF DeleteRows, Rollback, Commit, Gone
    <2>3. batch = reset.target /\ reset.at = 6
      BY <2>1, <2>2, GoneIs, OrderFacts
    <2>4. CASE \E d \in Gone(batch) : d.table = "replay_runs"
      BY <2>1, <2>2, <2>3, <2>4, RunsGoWithCapsule DEF RunsStep, Runs, Table
    <2>5. CASE ~(\E d \in Gone(batch) : d.table = "replay_runs")
      BY <2>2, <2>5 DEF RunsStep, Runs, Table
    <2> QED
      BY <2>4, <2>5
  <1> QED
    BY <1>1, <1>2 DEF BeginReset, ResetStep, BreakDeadlock, Rollback, dbVars

\* Every step does one of the four.
LEMMA NextRuns == IInv /\ [Next]_vars => RunsStep
  <1>1. UNCHANGED vars => RunsStep
    BY DEF vars, dbVars, RunsStep, Runs, Table
  <1> QED
    BY <1>1, HandleRuns, WorkRuns, ResetRuns DEF Next

\* What a handler's statement leaves of the other requests, and how a what-if comes to
\* its INSERT: by PutRun's gate.
LEMMA HandleMoves ==
    ASSUME IInv, NEW q \in Requests, Handle(q)
    PROVE  /\ \A p \in Requests \ {q} : pc'[p] = pc[p] /\ got'[p] = got[p]
           /\ q \in WhatIfPosts /\ pc'[q] = "insertRun" =>
                /\ rows' = rows /\ got'[q] = got[q]
                /\ Find(Run(got[q].pair[1])) # {} /\ Row(Run(got[q].pair[1])).status = "COMPLETED"
  <1>1. RequestShape
    BY DEF IInv, RequestInv
  <1>2. CASE \E a : Answer(q, a)
    BY <1>1, <1>2, AnswerFacts DEF OnlyMoves
  <1>3. CASE ~(\E a : Answer(q, a))
    <2>1. CASE Gate(q)
      BY <1>1, <1>3, <2>1 DEF Gate, RequestShape, dbVars
    <2>2. CASE ~Gate(q)
      <3>1. \E p : pc' = [pc EXCEPT ![q] = p] /\ (q \in WhatIfPosts => p # "insertRun")
        <4>1. CASE Detect(q)
          <5>1. ~InsertIncident(q)
            BY <1>3 DEF InsertIncident, Overwrites
          <5>2. \E p : Goto(q, p) /\ p # "insertRun"
            BY <1>3, <4>1, <5>1 DEF Detect, IngestEvent, ReadExecution, CheckNode
          <5> QED
            BY <5>2 DEF Goto
        <4>2. CASE Read(q)
          BY <1>3, <4>2
             DEF Read, ReadIncident, ReadEvents, CompileCapsule, PutCapsule, InsertOne, Overwrites,
                 Goto
        <4>3. CASE Post(q)
          BY <1>3, <2>2, <4>3 DEF Post, ReadCapsule, PutRun, InsertOne, Overwrites, Goto
        <4>4. CASE Diff(q)
          BY <1>3, <4>4
             DEF Diff, BuildDiff, LockBaseline, LockComparison, LockRun, PutDiff, InsertOne,
                 Overwrites, Goto
        <4> QED
          BY <4>1, <4>2, <4>3, <4>4 DEF Handle
      <3>2. \A p1 \in Requests \ {q} : got'[p1] = got[p1]
        BY <1>1, <1>3, <2>2
           DEF RequestShape, Handle, Detect, Read, Post, Diff, IngestEvent, ReadExecution,
              CheckNode, InsertIncident, ReadIncident, ReadEvents, CompileCapsule, PutCapsule,
              ReadCapsule, PutRun, BuildDiff, LockBaseline, LockComparison, LockRun, PutDiff,
              InsertOne, Overwrites
      <3> QED
        BY <1>1, <3>1, <3>2 DEF RequestShape
    <2> QED
      BY <2>1, <2>2
  <1> QED
    BY <1>2, <1>3

\* A what-if that is about to be inserted was so before, or has just passed the gate.
LEMMA NextMoves ==
    ASSUME IInv, [Next]_vars, NEW q \in WhatIfPosts, pc'[q] = "insertRun"
    PROVE  \/ pc[q] = "insertRun" /\ got'[q].pair = got[q].pair
           \/ /\ rows' = rows /\ got'[q] = got[q]
              /\ Find(Run(got[q].pair[1])) # {}
              /\ Row(Run(got[q].pair[1])).status = "COMPLETED"
  <1>1. q \in Requests /\ RequestShape
    BY DEF Requests, RunPosts, IInv, RequestInv
  <1>2. CASE UNCHANGED reqVars
    BY <1>2 DEF reqVars
  <1>3. CASE \E p \in Requests : Handle(p)
    BY <1>1, <1>3, HandleMoves
  <1>4. CASE BeginReset
    BY <1>1, <1>4 DEF BeginReset, RequestShape
  <1>5. CASE \E p \in Requests : Answer(p, "internal")
    BY <1>1, <1>5, AnswerFacts DEF OnlyMoves
  <1>6. CASE \E r \in RunPosts : Work(r)
    BY <1>2, <1>6 DEF Work, Claim, Advance, Record, SettleRun
  <1>7. CASE ResetStep
    BY <1>2, <1>5, <1>7 DEF ResetStep, DeleteRows, BreakDeadlock, Requests
  <1> QED
    BY <1>2, <1>3, <1>4, <1>6, <1>7 DEF Next, vars

\* The row of a run is the one of the table that has its key.
LEMMA RunIsFound ==
    /\ \A r : Find(Run(r)) = {x \in Runs : x.key = <<r>>}
    /\ \A r : Find(Run(r))' = {x \in Runs' : x.key = <<r>>}
  BY DEF Find, Run, Runs, Table, Name

\* A run that is posted is the only row of its name; the others are as they were.
LEMMA PostedFinds ==
    ASSUME IInv, NEW q, Posted(q)
    PROVE  /\ Find(Run(q)) = {} /\ Find(Run(q))' = {RunRow(q)}
           /\ \A r : r # q => Find(Run(r))' = Find(Run(r))
  <1> DEFINE new == RunRow(q)
  <1>1. new.key = <<q>>
    BY RunRowIs DEF IInv, StoreInv, ResetShape
  <1>2. Find(Run(q)) = {} /\ Runs' = Runs \cup {new}
    BY DEF Posted
  <1> HIDE DEF new
  <1>3. Find(Run(q))' = Find(Run(q)) \cup {new}
    BY <1>1, <1>2, RunIsFound
  <1>4. ASSUME NEW r, r # q PROVE Find(Run(r))' = Find(Run(r))
    <2>1. new.key # <<r>>
      BY <1>1, <1>4
    <2>2. {x \in Runs \cup {new} : x.key = <<r>>} = {x \in Runs : x.key = <<r>>}
      BY <2>1
    <2> QED
      BY <1>2, <2>2, RunIsFound
  <1> QED
    BY <1>2, <1>3, <1>4 DEF new

\* A run that is moved on has a new status; the others are as they were.
LEMMA TransitionFinds ==
    ASSUME IInv, NEW r, NEW from, NEW to, Transition(r, from, to)
    PROVE  \E old, new :
             /\ Find(Run(r)) = {old} /\ Find(Run(r))' = {new}
             /\ old.status = from /\ new.status = to /\ new.names = old.names
             /\ \A p : p # r => Find(Run(p))' = Find(Run(p))
  <1> DEFINE old == Row(Run(r))
             new == [old EXCEPT !.status = to]
  <1>1. /\ old \in rows /\ Name(old) = Run(r) /\ Find(Run(r)) = {old}
        /\ rows' = (rows \ {old}) \cup {new} /\ old.status = from
    BY RowIs DEF IInv, StoreInv, Transition
  <1>2. RowShape(old)
    BY <1>1 DEF IInv, StoreInv
  <1> HIDE DEF old
  <1>3. new.table = old.table /\ new.key = old.key /\ new.names = old.names /\ new.status = to
    BY <1>2 DEF RowShape
  <1> HIDE DEF new
  <1>4. Name(new) = Run(r)
    BY <1>1, <1>3 DEF Name
  <1>5. Find(Run(r))' = {new}
    BY <1>1, <1>4 DEF Find, Name
  <1>6. ASSUME NEW p, p # r PROVE Find(Run(p))' = Find(Run(p))
    <2>1. Run(p) # Run(r)
      BY <1>6 DEF Run
    <2> QED
      BY <1>1, <1>4, <2>1 DEF Find, Name
  <1> QED
    BY <1>1, <1>3, <1>5, <1>6

\* What RunLifecycle asks of a creation stays true until it.
LEMMA StepLife == IInv /\ WaitInv /\ LifeInv /\ [Next]_vars => LifeInv'
  <1> SUFFICES ASSUME IInv, WaitInv, LifeInv, [Next]_vars PROVE LifeInv'
    OBVIOUS
  <1>1. RunsStep
    BY NextRuns
  <1>2. GateStaysOpen'
    <2> SUFFICES ASSUME NEW q \in WhatIfPosts, pc'[q] = "insertRun", NEW b, b = got'[q].pair[1],
                        NEW x \in Find(Run(b))'
                 PROVE  x.status = "COMPLETED"
      BY DEF GateStaysOpen
    <2>1. \/ /\ pc[q] = "insertRun" /\ b = got[q].pair[1]
             /\ Find(Run(b)) # {} /\ \A y \in Find(Run(b)) : y.status = "COMPLETED"
          \/ rows' = rows /\ \A y \in Find(Run(b)) : y.status = "COMPLETED"
      BY NextMoves, RowIs DEF LifeInv, GateStaysOpen, IInv, RequestInv, BaselineIsLocked, StoreInv
    <2>2. CASE Runs' = Runs
      BY <2>1, <2>2, RunIsFound
    <2>3. CASE Runs' = {}
      BY <2>3, RunIsFound
    <2>4. CASE \E p \in RunPosts : Posted(p)
      BY <2>1, <2>2, <2>4, PostedFinds DEF Runs, Table
    <2>5. CASE \E r \in RunPosts : Moved(r)
      BY <2>1, <2>2, <2>5, TransitionFinds DEF Moved, Runs, Table
    <2> QED
      BY <1>1, <2>2, <2>3, <2>4, <2>5 DEF RunsStep
  <1>3. WhatIfsNameBaselines'
    <2> SUFFICES ASSUME NEW r \in WhatIfPosts, NEW x \in Find(Run(r))'
                 PROVE  \E b \in BaselinePosts : Run(b) \in x.names
      BY DEF WhatIfsNameBaselines, Run
    <2>1. \A y \in Find(Run(r)) : \E b \in BaselinePosts : Run(b) \in y.names
      BY DEF LifeInv, WhatIfsNameBaselines
    <2>2. CASE Runs' = Runs
      BY <2>1, <2>2, RunIsFound
    <2>3. CASE Runs' = {}
      BY <2>3, RunIsFound
    <2>4. ASSUME NEW q \in RunPosts, Posted(q)
          PROVE  \E b \in BaselinePosts : Run(b) \in x.names
      <3>1. CASE q # r
        BY <2>1, <2>4, <3>1, PostedFinds
      <3>2. CASE q = r
        <4>1. x = RunRow(q)
          BY <2>4, <3>2, PostedFinds
        <4>2. x.names = {Run(got[q].pair[1])}
          BY <3>2, <4>1, RunRowIs DEF IInv, StoreInv, ResetShape
        <4>3. got[q].pair[1] \in BaselinePosts
          BY <2>4 DEF Posted, WaitInv, Fitting, Fits, PairKnown, Requests
        <4> QED
          BY <4>2, <4>3
      <3> QED
        BY <3>1, <3>2
    <2>5. CASE \E p \in RunPosts : Moved(p)
      BY <2>1, <2>5, TransitionFinds DEF Moved
    <2> QED
      BY <1>1, <2>2, <2>3, <2>4, <2>5 DEF RunsStep
  <1> QED
    BY <1>2, <1>3 DEF LifeInv

\* Nothing is about to be inserted, and no run is stored.
LEMMA InitLife == Init => LifeInv
  BY DEF Init, LifeInv, GateStaysOpen, WhatIfsNameBaselines, Find, Requests, RunPosts

Life == [r \in RunPosts |-> LifeOf(r)]

\* A lawful change of one run is a step of the lifecycle, or shows nothing new.
LEMMA OneRunSteps ==
    ASSUME NEW r \in RunPosts,
           \/ \E b \in RunPosts \cup {0} : Lifecycle!Create(r, b)
           \/ Lifecycle!Claim(r) \/ Lifecycle!Start(r)
           \/ Lifecycle!Reject(r) \/ Lifecycle!Complete(r)
    PROVE  Lifecycle!Next \/ Life' = Life
  <1>1. \A s \in RunPosts : s # r => Life'[s] = Life[s]
    BY DEF Life, Lifecycle!Create, Lifecycle!Claim, Lifecycle!Start, Lifecycle!Reject,
           Lifecycle!Complete, Lifecycle!Move
  <1>2. CASE Life'[r] = Life[r]
    BY <1>1, <1>2 DEF Life
  <1>3. CASE Life'[r] # Life[r]
    BY <1>3 DEF Life, Lifecycle!Next
  <1> QED
    BY <1>2, <1>3

\* An empty store is the abstract initial state.
LEMMA LifeBegins == Init => Lifecycle!Init
  BY DEF Init, Lifecycle!Init, Lifecycle!Absent, LifeOf, LifeIn, NotThere

\* The rows a run is shown by are those found under its name.
LEMMA ShownIsFound ==
    ASSUME NEW r
    PROVE  /\ {x \in rows : x.table = "replay_runs" /\ x.key = <<r>>} = Find(Run(r))
           /\ {x \in rows' : x.table = "replay_runs" /\ x.key = <<r>>} = Find(Run(r))'
  BY DEF Find, Name, Run

\* A run shows its only row.
LEMMA LifeOfRow ==
    ASSUME NEW r, NEW x
    PROVE  /\ Find(Run(r)) = {x} => LifeOf(r) = Shown(r, x)
           /\ Find(Run(r))' = {x} => LifeOf(r)' = Shown(r, x)
  <1>1. LifeIn(r, {x}) = Shown(r, x)
    BY DEF LifeIn
  <1> QED
    BY <1>1, ShownIsFound DEF LifeOf

\* A run whose rows stay shows the same.
LEMMA LifeStays ==
    ASSUME NEW r, Find(Run(r))' = Find(Run(r))
    PROVE  LifeOf(r)' = LifeOf(r)
  BY ShownIsFound DEF LifeOf

\* A posted run is created: as a baseline, or over a baseline that has reproduced the
\* failure.
LEMMA PostedCreates ==
    ASSUME IInv, WaitInv, LifeInv, NEW q \in RunPosts, Posted(q)
    PROVE  \E b \in RunPosts \cup {0} : Lifecycle!Create(q, b)
  <1> DEFINE new == RunRow(q)
             b == Shown(q, new).baseline
  <1>1. new.status = "CREATED" /\ new.names = IF q \in WhatIfPosts THEN {Run(got[q].pair[1])} ELSE {}
    BY DEF RunRow, RowOf, Blank
  <1>2. Find(Run(q)) = {} /\ Find(Run(q))' = {new} /\ pc[q] = "insertRun"
    BY PostedFinds DEF Posted
  <1>3. Shown(q, new) = [status |-> "CREATED", verdict |-> "NONE", baseline |-> b]
    BY <1>1 DEF Shown
  <1>4. Life[q] = Lifecycle!Absent
    BY <1>2, ShownIsFound DEF Life, LifeOf, LifeIn, NotThere, Lifecycle!Absent
  <1>5. Life' = [Life EXCEPT ![q] = Shown(q, new)]
    <2>1. LifeOf(q)' = Shown(q, new)
      BY <1>2, LifeOfRow
    <2>2. \A r \in RunPosts : r # q => LifeOf(r)' = LifeOf(r)
      BY PostedFinds, LifeStays
    <2> QED
      BY <2>1, <2>2 DEF Life
  <1>6. CASE q \in BaselinePosts
    <2>1. b = 0
      BY <1>6 DEF Shown, BaselineOf
    <2> QED
      BY <1>3, <1>4, <1>5, <2>1, RunPostsAssumption DEF Life, Lifecycle!Create
  <1>7. CASE q \notin BaselinePosts
    <2>1. q \in WhatIfPosts /\ q \in Requests
      BY <1>7 DEF RunPosts, Requests
    <2>2. PICK c \in BaselinePosts : c = got[q].pair[1]
      BY <1>2, <2>1 DEF WaitInv, Fitting, Fits, PairKnown
    <2>3. b = c
      <3>1. \A d : Run(d) \in new.names <=> d = c
        BY <1>1, <2>1, <2>2 DEF Run
      <3> QED
        BY <1>7, <2>2, <3>1 DEF Shown, BaselineOf
    <2>4. Find(Run(c)) # {} /\ \A x \in Find(Run(c)) : x.status = "COMPLETED"
      BY <1>2, <2>1, <2>2 DEF IInv, RequestInv, BaselineIsLocked, LifeInv, GateStaysOpen
    <2>5. Life[c] = [status |-> "COMPLETED", verdict |-> "REPRODUCED", baseline |-> 0]
      <3>1. PICK x \in Find(Run(c)) : LifeOf(c) = Shown(c, x)
        BY <2>4, ShownIsFound DEF LifeOf, LifeIn
      <3> QED
        BY <2>2, <2>4, <3>1 DEF Life, Shown, BaselineOf, RunPosts
    <2>6. c \in RunPosts
      BY <2>2 DEF RunPosts
    <2> HIDE DEF b, new
    <2> QED
      BY <1>3, <1>4, <1>5, <2>3, <2>5, <2>6 DEF Life, Lifecycle!Create, Lifecycle!Reproduced
  <1> QED
    BY <1>6, <1>7

\* A transition changes what its run shows to what its row now shows.
LEMMA TransitionShows ==
    ASSUME IInv, LifeInv, NEW r \in RunPosts, NEW from, NEW to, Transition(r, from, to)
    PROVE  \E old, new :
             /\ old.status = from /\ new.status = to /\ new.names = old.names
             /\ Life[r] = Shown(r, old) /\ Life' = [Life EXCEPT ![r] = Shown(r, new)]
             /\ r \in WhatIfPosts => \E b \in BaselinePosts : Run(b) \in old.names
  <1>1. PICK old, new :
          /\ Find(Run(r)) = {old} /\ Find(Run(r))' = {new}
          /\ old.status = from /\ new.status = to /\ new.names = old.names
          /\ \A p : p # r => Find(Run(p))' = Find(Run(p))
    BY TransitionFinds
  <1>2. LifeOf(r) = Shown(r, old) /\ LifeOf(r)' = Shown(r, new)
    BY <1>1, LifeOfRow
  <1>3. \A p \in RunPosts : p # r => LifeOf(p)' = LifeOf(p)
    BY <1>1, LifeStays
  <1>4. r \in WhatIfPosts => \E b \in BaselinePosts : Run(b) \in old.names
    BY <1>1 DEF LifeInv, WhatIfsNameBaselines
  <1> QED
    BY <1>1, <1>2, <1>3, <1>4 DEF Life

\* The worker's transitions are those of the contract.
LEMMA MovedGoesOn ==
    ASSUME IInv, LifeInv, NEW r \in RunPosts, Moved(r)
    PROVE  Lifecycle!Claim(r) \/ Lifecycle!Start(r) \/ Lifecycle!Complete(r)
  <1>1. ASSUME NEW from, NEW to, Transition(r, from, to), from # "COMPLETED", to # "COMPLETED"
        PROVE  Lifecycle!Move(r, from, to)
    <2>1. PICK old, new :
            /\ old.status = from /\ new.status = to /\ new.names = old.names
            /\ Life[r] = Shown(r, old) /\ Life' = [Life EXCEPT ![r] = Shown(r, new)]
      BY <1>1, TransitionShows
    <2>2. Shown(r, new) = [Shown(r, old) EXCEPT !.status = to]
      BY <1>1, <2>1 DEF Shown
    <2>3. Life[r].status = from
      BY <2>1 DEF Shown
    <2>4. Life' = [Life EXCEPT ![r].status = to]
      BY <2>1, <2>2
    <2> QED
      BY <2>3, <2>4 DEF Life, Lifecycle!Move
  <1>2. ASSUME Transition(r, "RUNNING", "COMPLETED") PROVE Lifecycle!Complete(r)
    <2>1. PICK old, new :
            /\ old.status = "RUNNING" /\ new.status = "COMPLETED" /\ new.names = old.names
            /\ Life[r] = Shown(r, old) /\ Life' = [Life EXCEPT ![r] = Shown(r, new)]
            /\ r \in WhatIfPosts => \E b \in BaselinePosts : Run(b) \in old.names
      BY <1>2, TransitionShows
    <2> DEFINE v == IF r \in BaselinePosts THEN "REPRODUCED" ELSE "MITIGATED"
    <2>2. Shown(r, new) = [status |-> "COMPLETED", verdict |-> v, baseline |-> Life[r].baseline]
      BY <2>1 DEF Shown
    <2>3. r \notin BaselinePosts => Life[r].baseline \in BaselinePosts
      BY <2>1 DEF Shown, BaselineOf, RunPosts
    <2>4. v \in IF Life[r].baseline = 0 THEN Lifecycle!BaselineVerdicts ELSE Lifecycle!WhatIfVerdicts
      <3>1. CASE r \in BaselinePosts
        BY <2>1, <3>1 DEF Shown, BaselineOf, Lifecycle!BaselineVerdicts
      <3>2. CASE r \notin BaselinePosts
        BY <2>3, <3>2, RunPostsAssumption DEF RunPosts, Lifecycle!WhatIfVerdicts
      <3> QED
        BY <3>1, <3>2
    <2>5. Life[r].status = "RUNNING"
      BY <2>1 DEF Shown
    <2> HIDE DEF v
    <2> QED
      BY <2>1, <2>2, <2>4, <2>5 DEF Life, Lifecycle!Complete
  <1> QED
    BY <1>1, <1>2 DEF Moved, Lifecycle!Claim, Lifecycle!Start

\* Every statement is a step of the lifecycle or a stutter.
LEMMA LifeStep == IInv /\ WaitInv /\ LifeInv /\ [Next]_vars => Lifecycle!Next \/ Life' = Life
  <1> SUFFICES ASSUME IInv, WaitInv, LifeInv, [Next]_vars
               PROVE  Lifecycle!Next \/ Life' = Life
    OBVIOUS
  <1>1. RunsStep
    BY NextRuns
  <1>2. CASE Runs' = Runs
    <2>1. \A r \in RunPosts : LifeOf(r)' = LifeOf(r)
      BY <1>2, RunIsFound, LifeStays
    <2> QED
      BY <2>1 DEF Life
  <1>3. CASE \E q \in RunPosts : Posted(q)
    BY <1>3, PostedCreates, OneRunSteps
  <1>4. CASE \E r \in RunPosts : Moved(r)
    BY <1>4, MovedGoesOn, OneRunSteps
  <1>5. CASE Runs' = {}
    <2>1. \A r \in RunPosts : Find(Run(r))' = {}
      BY <1>5, RunIsFound
    <2>2. \A r \in RunPosts : LifeOf(r)' = NotThere
      BY <2>1, ShownIsFound DEF LifeOf, LifeIn, NotThere
    <2>3. Lifecycle!Wipe
      <3>1. Life' = [r \in RunPosts |-> IF r \in {} THEN Life[r] ELSE Lifecycle!Absent]
        BY <2>2 DEF Life, NotThere, Lifecycle!Absent
      <3>2. \E kept \in SUBSET RunPosts :
              /\ \A r \in kept : Life[r].baseline \in kept \cup {0}
              /\ Life' = [r \in RunPosts |-> IF r \in kept THEN Life[r] ELSE Lifecycle!Absent]
        <4> WITNESS {} \in SUBSET RunPosts
        <4> QED BY <3>1
      <3> QED BY <3>2 DEF Life, Lifecycle!Wipe
    <2> QED
      BY <2>3 DEF Lifecycle!Next
  <1> QED
    BY <1>1, <1>2, <1>3, <1>4, <1>5 DEF RunsStep

\* Handlers of several statements, among each other and under a reset of six, take the
\* runs through the lifecycle of the contract and no other: what PutRun's gate has found
\* is still so at its INSERT, and a reset, wherever it interleaves, removes all runs
\* together or leaves every one (CONTRACTS.md "ReplayRun", postgres.go PutRun, Reset).
THEOREM StatementsImplementLifecycle == Spec => ImplementsLifecycle
  <1>1. IInv /\ WaitInv /\ LifeInv /\ [Next]_vars => [Lifecycle!Next]_Life
    BY LifeStep
  <1>2. Init => WaitInv
    BY InitWaits
  <1> QED
    BY <1>1, <1>2, InitLife, StepLife, StepWaits, LifeBegins, Invariance, PTL
       DEF Spec, ImplementsLifecycle, Lifecycle!Spec, Life
=============================================================================
