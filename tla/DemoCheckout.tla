---------------------------- MODULE DemoCheckout ----------------------------
(***************************************************************************)
(* The captured system: checkout requests through the demo Gateway,        *)
(* Checkout, Payment and Ledger, and the incident detection the Core API   *)
(* runs after every event it ingests.                                      *)
(*                                                                         *)
(* A request has four threads: the gateway's handler, the checkout's       *)
(* handler and one goroutine per payment attempt, the handlers of Payment  *)
(* and Ledger that work for the goroutine included.  A thread whose pc is  *)
(* in EmitsAt is inside Recorder.Record, that is, inside POST /v1/events:  *)
(* api[t] says where the Core API's handler is.                            *)
(*                                                                         *)
(* Time is the order of a sleep and a timer: Prompt says that everything   *)
(* but a sleep is fast against the distances between 50, 200 and 350 ms.   *)
(***************************************************************************)
EXTENDS Naturals, FiniteSets

CONSTANTS
    Requests,    \* POST /checkout requests
    Executions,  \* execution ids the gateway derives from checkout ids
    ExecutionOf, \* the execution of a request (several may name one checkout)
    Healthy,     \* the requests with scenario "healthy"
    Prompt,      \* scheduling delays are small against the configured times
    LossyNetwork, \* calls between the services and to the database can fail
    MaxDisturbances  \* bound on failed calls, disconnected clients and resets

ASSUME RequestAssumption == ExecutionOf \in [Requests -> Executions] /\ Healthy \subseteq Requests
ASSUME BoundAssumption   == MaxDisturbances \in Nat /\ {Prompt, LossyNetwork} \subseteq BOOLEAN

VARIABLES
    pc,        \* where a thread is
    api,       \* where the Core API is with the event a thread emits
    seen,      \* the events its detection has read
    charge,    \* the latency an attempt read from Payment
    latency,   \* Payment's configured latency, one for all requests
    effects,   \* the effects the ledger committed
    events,    \* table execution_events
    incidents, \* tables incidents and execution_graphs: the graph's nodes
    reply,     \* the attempts reported by a request's 200, or 0
    gone,      \* the client has closed its connection
    blind,     \* history: the events accepted although their detection failed
    faults, resets

checkoutVars == <<pc, charge, latency, effects, reply, gone>>
coreVars     == <<events, incidents>>
callVars     == <<api, seen>>
vars         == <<checkoutVars, coreVars, callVars, blind, faults, resets>>

HealthyPaymentLatencyMs == 50
GoldenPaymentLatencyMs  == 350
DefaultTimeoutMs        == 200

Attempts == {"first", "second"}
Roles    == {"gateway", "checkout"} \cup Attempts
Threads  == Requests \X Roles

Gateway(r)  == <<r, "gateway">>
Checkout(r) == <<r, "checkout">>
First(r)    == <<r, "first">>
Second(r)   == <<r, "second">>

GatewayAt  == {"idle", "lower", "entry", "calling", "exit", "leaving", "left"}
CheckoutAt == {"idle", "begin", "select", "timeout", "retry", "wait", "end", "returned", "failed"}
AttemptAt  == {"idle", "authorize", "started", "sleep", "charged", "commit", "effect", "ok", "err"}

\* Where a thread is inside Record, and thereby what it records.
EmitsAt == {"entry", "exit", "begin", "timeout", "retry", "end", "started", "charged", "effect"}

-----------------------------------------------------------------------------
(* Events.  A request records an event of a kind and a role at most once.  *)

Event == [req : Requests, role : Roles, at : EmitsAt]

EventOf(t) == [req |-> t[1], role |-> t[2], at |-> pc[t]]

EntryEvent(r) == [req |-> r, role |-> "gateway", at |-> "entry"]
BeginEvent(r) == [req |-> r, role |-> "checkout", at |-> "begin"]

\* The parent_event_id each caller of Record passes, as a set of at most one.
ParentOf(e) ==
    CASE e.at = "entry"             -> {}
      [] e.at \in {"exit", "begin"} -> {EntryEvent(e.req)}
      [] OTHER                      -> {BeginEvent(e.req)}

Stored(x) == {e \in events : ExecutionOf[e.req] = x}

\* Mutants of OracleMatches: one effect is enough; two are not.
OracleNeedsOne(es) ==
    /\ \E e \in es : e.at = "timeout"
    /\ \E e \in es : e.at = "retry"
    /\ \E e \in es : e.at = "effect"
OracleNeedsThree(es) ==
    /\ \E e \in es : e.at = "timeout"
    /\ \E e \in es : e.at = "retry"
    /\ Cardinality({e \in es : e.at = "effect"}) > 2

\* The duplicate-effect oracle: a timeout, a retry, an attempt >= 2 (the
\* retry is one) and two committed effects in one logical operation.
OracleMatches(es) ==
    /\ \E e \in es : e.at = "timeout"
    /\ \E e \in es : e.at = "retry"
    /\ Cardinality({e \in es : e.at = "effect"}) >= 2

\* Mutant of EdgesResolve: dangling edges are accepted.
EdgesUnchecked(es) == TRUE

\* BuildNodes accepts the parent-child edges: no parent is missing.
EdgesResolve(es) == \A e \in es : ParentOf(e) \subseteq es

-----------------------------------------------------------------------------
(* Threads.                                                                *)

Init ==
    /\ pc = [t \in Threads |-> "idle"]
    /\ api = [t \in Threads |-> "idle"]
    /\ seen = [t \in Threads |-> {}]
    /\ charge = [t \in Threads |-> 0]
    /\ latency = GoldenPaymentLatencyMs
    /\ effects = {}
    /\ events = {}
    /\ incidents = [x \in Executions |-> {}]
    /\ reply = [r \in Requests |-> 0]
    /\ gone = [r \in Requests |-> FALSE]
    /\ blind = {}
    /\ faults = 0
    /\ resets = 0

IsAttempt(t) == t[2] \in Attempts

Launched(r) == {t \in {First(r), Second(r)} : pc[t] # "idle"}

\* The next pc after a recorded event, and the thread it lets start.
AfterEmit(at) ==
    CASE at = "entry"   -> "calling"
      [] at = "exit"    -> "leaving"
      [] at = "begin"   -> "select"
      [] at = "timeout" -> "retry"
      [] at = "retry"   -> "wait"
      [] at = "end"     -> "returned"
      [] at = "started" -> "sleep"
      [] at = "charged" -> "commit"
      [] at = "effect"  -> "ok"

Starts(r, at) ==
    CASE at = "entry" -> [t \in {Checkout(r)} |-> "begin"]
      [] at = "begin" -> [t \in {First(r)} |-> "authorize"]
      [] at = "retry" -> [t \in {Second(r)} |-> "authorize"]
      [] OTHER        -> [t \in {} |-> "idle"]

\* Where the error return of a call in the thread leads.
AfterError(t) ==
    CASE t[2] = "gateway"  -> "leaving"
      [] t[2] = "checkout" -> "failed"
      [] OTHER             -> "err"

\* The context of a thread's calls is cancelled: its client is gone, or the
\* handler that launched it has returned.
Cancelled(t) == gone[t[1]] \/ (IsAttempt(t) /\ pc[Checkout(t[1])] = "failed")

Failing(t) == pc' = [pc EXCEPT ![t] = AfterError(t)] /\ UNCHANGED reply

\* Mutant of Succeeding: the reply counts the attempt still allowed.
SucceedingMiscounts(t) ==
    LET r == t[1]
        started == Starts(r, pc[t])
    IN  /\ pc' = [u \in Threads |-> IF u \in DOMAIN started THEN started[u]
                                    ELSE IF u = t THEN AfterEmit(pc[t]) ELSE pc[u]]
        /\ reply' = IF pc[t] = "exit"
                    THEN [reply EXCEPT ![r] = Cardinality(Launched(r)) + 1] ELSE reply

Succeeding(t) ==
    LET r == t[1]
        started == Starts(r, pc[t])
    IN  /\ pc' = [u \in Threads |-> IF u \in DOMAIN started THEN started[u]
                                    ELSE IF u = t THEN AfterEmit(pc[t]) ELSE pc[u]]
        /\ reply' = IF pc[t] = "exit"
                    THEN [reply EXCEPT ![r] = Cardinality(Launched(r))] ELSE reply

-----------------------------------------------------------------------------
(* POST /v1/events: ingestion, then detectAndPersistIncident, then 202.    *)

\* The handler answers 202, and Record returns to its caller.  The gateway's
\* next call fails at once when its own client is gone.
Accepted(t) ==
    /\ api' = [api EXCEPT ![t] = "idle"]
    /\ seen' = [seen EXCEPT ![t] = {}]
    /\ IF t[2] = "gateway" /\ gone[t[1]] THEN Failing(t) ELSE Succeeding(t)
    /\ UNCHANGED <<charge, latency, effects, gone, events, resets>>

Ingest(t) ==
    /\ pc[t] \in EmitsAt
    /\ api[t] = "idle"
    /\ events' = events \cup {EventOf(t)}
    /\ api' = [api EXCEPT ![t] = "detect"]
    /\ UNCHANGED <<checkoutVars, incidents, seen, blind, faults, resets>>

Detectable(x) == OracleMatches(Stored(x)) /\ EdgesResolve(Stored(x))

\* No match, or a graph that cannot be built yet: nothing is persisted.
DetectNothing(t) ==
    /\ api[t] = "detect"
    /\ ~Detectable(ExecutionOf[t[1]])
    /\ Accepted(t)
    /\ UNCHANGED <<incidents, blind, faults>>

DetectIncident(t) ==
    /\ api[t] = "detect"
    /\ Detectable(ExecutionOf[t[1]])
    /\ seen' = [seen EXCEPT ![t] = Stored(ExecutionOf[t[1]])]
    /\ api' = [api EXCEPT ![t] = "check"]
    /\ UNCHANGED <<checkoutVars, coreVars, blind, faults, resets>>

\* PutIncident reads every node's event; an absent one is an error, logged.
CheckNodes(t) ==
    /\ api[t] = "check"
    /\ seen[t] \subseteq events
    /\ api' = [api EXCEPT ![t] = "insert"]
    /\ UNCHANGED <<checkoutVars, coreVars, seen, blind, faults, resets>>

NodesMissing(t) ==
    /\ api[t] = "check"
    /\ ~(seen[t] \subseteq events)
    /\ Accepted(t)
    /\ UNCHANGED <<incidents, blind, faults>>

\* Mutant of PutIncident: an upsert.
PutIncidentUpserts(t) ==
    /\ api[t] = "insert"
    /\ incidents' = [incidents EXCEPT ![ExecutionOf[t[1]]] = seen[t]]
    /\ Accepted(t)
    /\ UNCHANGED <<blind, faults>>

\* The INSERTs; an incident that exists is a conflict, taken for success.
Inserts(t) ==
    LET x == ExecutionOf[t[1]]
    IN  /\ api[t] = "insert"
        /\ incidents' = IF incidents[x] = {} THEN [incidents EXCEPT ![x] = seen[t]] ELSE incidents

PutIncident(t) == Inserts(t) /\ Accepted(t) /\ UNCHANGED <<blind, faults>>

-----------------------------------------------------------------------------
(* The gateway.                                                            *)

Arrive(r) ==
    /\ pc[Gateway(r)] = "idle"
    /\ pc' = [pc EXCEPT ![Gateway(r)] = IF r \in Healthy THEN "lower" ELSE "entry"]
    /\ UNCHANGED <<charge, latency, effects, reply, gone, coreVars, callVars, blind, faults, resets>>

\* Mutant of LowerLatency: the control runs under the golden latency.
LowerLatencyForgotten(r) ==
    /\ pc[Gateway(r)] = "lower"
    /\ pc' = [pc EXCEPT ![Gateway(r)] = "entry"]
    /\ UNCHANGED <<charge, latency, effects, reply, gone, coreVars, callVars, blind, faults, resets>>

LowerLatency(r) ==
    /\ pc[Gateway(r)] = "lower"
    /\ latency' = HealthyPaymentLatencyMs
    /\ pc' = [pc EXCEPT ![Gateway(r)] = "entry"]
    /\ UNCHANGED <<charge, effects, reply, gone, coreVars, callVars, blind, faults, resets>>

Resume(r) ==
    /\ pc[Gateway(r)] = "calling"
    /\ pc[Checkout(r)] \in {"returned", "failed"} \/ gone[r]
    /\ pc' = [pc EXCEPT ![Gateway(r)] =
                IF pc[Checkout(r)] = "returned" /\ ~gone[r] THEN "exit" ELSE "leaving"]
    /\ UNCHANGED <<charge, latency, effects, reply, gone, coreVars, callVars, blind, faults, resets>>

\* The handler returns; a healthy one runs its deferred SetLatency first.
Leave(r) ==
    /\ pc[Gateway(r)] = "leaving"
    /\ pc' = [pc EXCEPT ![Gateway(r)] = "left"]
    /\ latency' = IF r \in Healthy THEN GoldenPaymentLatencyMs ELSE latency
    /\ r \in Healthy => ~gone[r]
    /\ UNCHANGED <<charge, effects, reply, gone, coreVars, callVars, blind, faults, resets>>

\* A SetLatency call fails: the first one before the deferred one is
\* registered, the deferred one with a line in the log.
SetLatencyFails(r) ==
    /\ r \in Healthy
    /\ pc[Gateway(r)] \in {"lower", "leaving"}
    /\ pc' = [pc EXCEPT ![Gateway(r)] = "left"]
    /\ UNCHANGED <<charge, effects, reply, gone, coreVars, callVars, blind, resets>>

-----------------------------------------------------------------------------
(* The checkout.                                                           *)

\* The timer of Process.  Prompt: not before an attempt that takes less.
TimerFires(r) ==
    /\ pc[Checkout(r)] = "select"
    /\ Prompt => charge[First(r)] > DefaultTimeoutMs /\ pc[First(r)] \notin {"ok", "err"}
    /\ pc' = [pc EXCEPT ![Checkout(r)] = "timeout"]
    /\ UNCHANGED <<charge, latency, effects, reply, gone, coreVars, callVars, blind, faults, resets>>

\* Mutants of Join: one report is enough; a failed attempt never reports.
JoinFirstReport(r) ==
    /\ pc[Checkout(r)] \in {"select", "wait"}
    /\ \E t \in Launched(r) : pc[t] \in {"ok", "err"} \/ Cancelled(t)
    /\ pc' = [pc EXCEPT ![Checkout(r)] =
                IF \E t \in Launched(r) : pc[t] = "ok" THEN "end" ELSE "failed"]
    /\ UNCHANGED <<charge, latency, effects, reply, gone, coreVars, callVars, blind, faults, resets>>
JoinUnreportedError(r) ==
    /\ pc[Checkout(r)] \in {"select", "wait"}
    /\ \A t \in Launched(r) : pc[t] = "ok"
    /\ pc' = [pc EXCEPT ![Checkout(r)] = "end"]
    /\ UNCHANGED <<charge, latency, effects, reply, gone, coreVars, callVars, blind, faults, resets>>

\* Every launched attempt has reported on done.
Join(r) ==
    /\ pc[Checkout(r)] \in {"select", "wait"}
    /\ \A t \in Launched(r) : pc[t] \in {"ok", "err"} \/ Cancelled(t)
    /\ pc' = [pc EXCEPT ![Checkout(r)] =
                IF \A t \in Launched(r) : pc[t] = "ok" THEN "end" ELSE "failed"]
    /\ UNCHANGED <<charge, latency, effects, reply, gone, coreVars, callVars, blind, faults, resets>>

-----------------------------------------------------------------------------
(* An attempt: Payment's Authorize, then Ledger's Commit.                  *)

Authorize(t) ==
    /\ pc[t] = "authorize"
    /\ ~(pc[Checkout(t[1])] = "failed")
    /\ charge' = [charge EXCEPT ![t] = latency]
    /\ pc' = [pc EXCEPT ![t] = "started"]
    /\ UNCHANGED <<latency, effects, reply, gone, coreVars, callVars, blind, faults, resets>>

\* The sleep ends.  Prompt: not before a timer that was set to less.
Wake(t) ==
    /\ pc[t] = "sleep"
    /\ Prompt /\ t[2] = "first" /\ charge[t] > DefaultTimeoutMs => pc[Checkout(t[1])] # "select"
    /\ pc' = [pc EXCEPT ![t] = "charged"]
    /\ UNCHANGED <<charge, latency, effects, reply, gone, coreVars, callVars, blind, faults, resets>>

\* The ledger commits every attempt it is asked to: deduplication is off.
Commit(t) ==
    /\ pc[t] = "commit"
    /\ ~(pc[Checkout(t[1])] = "failed")
    /\ effects' = effects \cup {t}
    /\ pc' = [pc EXCEPT ![t] = "effect"]
    /\ UNCHANGED <<charge, latency, reply, gone, coreVars, callVars, blind, faults, resets>>

-----------------------------------------------------------------------------
(* Failures.                                                               *)

\* A call of thread t returns an error; the Core API's handler stops where
\* it is, since its own context is cancelled or the process is gone, or it
\* has come to its end and the answer is lost.
CallFails(t) ==
    /\ pc[t] \in EmitsAt \cup {"authorize", "commit"}
    /\ Failing(t)
    /\ api' = [api EXCEPT ![t] = "idle"]
    /\ seen' = [seen EXCEPT ![t] = {}]
    /\ UNCHANGED incidents \/ Inserts(t)
    /\ UNCHANGED <<charge, latency, effects, gone, events, blind, resets>>

\* A query of a detection fails, or only the answer to its COMMIT is lost: the
\* error is logged and the event is answered 202 all the same.
DetectionFails(t) ==
    /\ api[t] # "idle"
    /\ blind' = blind \cup {EventOf(t)}
    /\ UNCHANGED incidents \/ Inserts(t)
    /\ Accepted(t)

Abort(t) == Cancelled(t) /\ CallFails(t) /\ UNCHANGED faults

\* With a cancelled context SetLatency is not even sent.
AbandonLatency(r) == gone[r] /\ SetLatencyFails(r) /\ UNCHANGED <<latency, faults>>

\* A call or a detection fails; a lost SetLatency may have been carried out, if
\* it was sent.
Lose ==
    /\ LossyNetwork
    /\ faults + resets < MaxDisturbances
    /\ faults' = faults + 1
    /\ \/ \E t \in Threads : CallFails(t) \/ DetectionFails(t)
       \/ \E r \in Requests :
            /\ ~gone[r]
            /\ SetLatencyFails(r)
            /\ latency' \in {latency, IF pc[Gateway(r)] = "lower" THEN HealthyPaymentLatencyMs
                                                                  ELSE GoldenPaymentLatencyMs}

Disconnect(r) ==
    /\ pc[Gateway(r)] \notin {"idle", "left"}
    /\ ~gone[r]
    /\ faults + resets < MaxDisturbances
    /\ faults' = faults + 1
    /\ gone' = [gone EXCEPT ![r] = TRUE]
    /\ UNCHANGED <<pc, charge, latency, effects, reply, coreVars, callVars, blind, resets>>

\* POST /v1/demo/reset empties the Core API's tables and nothing else.
Reset ==
    /\ faults + resets < MaxDisturbances
    /\ resets' = resets + 1
    /\ events' = {}
    /\ incidents' = [x \in Executions |-> {}]
    /\ UNCHANGED <<checkoutVars, callVars, blind, faults>>

-----------------------------------------------------------------------------

RequestStep(r) == LowerLatency(r) \/ Resume(r) \/ Leave(r) \/ AbandonLatency(r) \/ TimerFires(r) \/ Join(r)

ThreadStep(t) ==
    \/ Ingest(t) \/ DetectNothing(t) \/ DetectIncident(t)
    \/ CheckNodes(t) \/ NodesMissing(t) \/ PutIncident(t)
    \/ Abort(t)
    \/ IsAttempt(t) /\ (Authorize(t) \/ Wake(t) \/ Commit(t))

Step == (\E r \in Requests : RequestStep(r)) \/ (\E t \in Threads : ThreadStep(t))

Next ==
    \/ Step
    \/ \E r \in Requests : Arrive(r) \/ Disconnect(r)
    \/ Lose
    \/ Reset

Spec == Init /\ [][Next]_vars

\* Some handler or goroutine that can go on does: less than the scheduler
\* gives.  Nothing is assumed of clients, failures and resets.
FairSpec == Spec /\ WF_vars(Step)
=============================================================================
