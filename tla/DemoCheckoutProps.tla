-------------------------- MODULE DemoCheckoutProps --------------------------
(* What must hold of the demo services and of incident detection.          *)
EXTENDS DemoCheckout

\* Every variable keeps its type; a reply reports at most maxAttempts attempts.
TypeOK ==
    /\ pc \in [Threads -> GatewayAt \cup CheckoutAt \cup AttemptAt]
    /\ api \in [Threads -> {"idle", "detect", "check", "insert"}]
    /\ seen \in [Threads -> SUBSET Event]
    /\ charge \in [Threads -> {0, HealthyPaymentLatencyMs, GoldenPaymentLatencyMs}]
    /\ latency \in {HealthyPaymentLatencyMs, GoldenPaymentLatencyMs}
    /\ effects \subseteq Threads
    /\ events \subseteq Event
    /\ incidents \in [Executions -> SUBSET Event]
    /\ reply \in [Requests -> 0 .. 2]
    /\ gone \in [Requests -> BOOLEAN]
    /\ blind \subseteq Event
    /\ faults \in 0 .. MaxDisturbances
    /\ resets \in 0 .. MaxDisturbances

EffectsOf(r) == {t \in effects : t[1] = r}

Detected(x) == incidents[x] # {}

\* No false alarm: an incident exists only for an execution that retried and
\* for which the ledger, and not only the evidence, holds two effects.
IncidentIsEarned ==
    \A x \in Executions : Detected(x) =>
        /\ Cardinality({t \in effects : ExecutionOf[t[1]] = x}) >= 2
        /\ \E r \in Requests : ExecutionOf[r] = x /\ pc[Second(r)] # "idle"

EventAt(r, role, at) == [req |-> r, role |-> role, at |-> at]

\* Every detection that runs after a request's second effect has failed: the
\* one of an effect, of the checkout's end and of the gateway's exit.
AllBlind(r) ==
    /\ {EventAt(r, "checkout", "end"), EventAt(r, "gateway", "exit")} \subseteq blind
    /\ \E role \in Attempts : EventAt(r, role, "effect") \in blind

\* No missed incident: when the gateway answers that a checkout took two
\* attempts, its incident is in the store, whatever calls were lost on the way.
\* Detection is best-effort (main.go:89-95): it may fail and the event is
\* accepted, but an incident is missed only if all three detections fail that
\* come after the second effect.
ReplyMeansDetected ==
    \A r \in Requests :
        reply[r] = 2 /\ resets = 0 => Detected(ExecutionOf[r]) \/ AllBlind(r)

\* The number of attempts in the answer is the number of effects committed.
ReplyCountsEffects ==
    \A r \in Requests : reply[r] # 0 => Cardinality(EffectsOf(r)) = reply[r]

\* A healthy control that is the only one leaves the oracle silent, even
\* beside a faulted checkout.
ControlIsSilent ==
    \A r \in Healthy : Healthy = {r} => ~Detected(ExecutionOf[r])

Scenario(r) ==
    {EntryEvent(r), BeginEvent(r)}
        \cup [req : {r}, role : {"checkout"}, at : {"timeout", "retry"}]
        \cup [req : {r}, role : Attempts, at : {"started", "charged", "effect"}]

\* The graph of an incident holds the whole golden scenario of one request,
\* and nothing else (README: "10 graph nodes; 9 edges"), whichever thread's
\* detection comes first.  After a reset, or when a detection of the execution
\* has failed, a later one adds the events that followed, and drops none.
GraphIsTheScenario ==
    \A x \in Executions : Detected(x) =>
        \E r \in Requests :
            /\ Scenario(r) \subseteq incidents[x]
            /\ EdgesResolve(incidents[x])
            /\ resets = 0 /\ (\A e \in blind : ExecutionOf[e.req] # x) => incidents[x] = Scenario(r)

\* Every thread's detection on its own, lost answers and resets included, amounts to
\* one detection that raises an incident once and for two committed effects
\* (detect.go detectAndPersistIncident).
Committed == [x \in Executions |-> {t \in effects : ExecutionOf[t[1]] = x}]

Abstract == INSTANCE Detection WITH
    Effects <- Threads, committed <- Committed, incident <- incidents

\* Evaluating an execution again never changes its incident, and none is raised
\* without its effects, whatever the evidence says.
ImplementsDetection == Abstract!Spec

\* Every request is answered or given up: no handler waits for an attempt
\* that never reports.
AlwaysAnswered ==
    \A r \in Requests : pc[Gateway(r)] # "idle" ~> pc[Gateway(r)] = "left"

\* "always restore the golden configuration afterwards": with no healthy
\* control at the gateway, Payment is configured for the golden fault.
GoldenRestored ==
    (\A r \in Healthy : pc[Gateway(r)] \in {"idle", "left"}) => latency = GoldenPaymentLatencyMs
=============================================================================
