-------------------------- MODULE DemoCheckoutProofs --------------------------
(***************************************************************************)
(* Proofs about the demo services and incident detection, for any number   *)
(* of requests and executions, any scheduling and any disturbances.        *)
(*                                                                         *)
(* Detection reads evidence, the promise is about effects.  Evidence says  *)
(* why one stands for the other: an effect's event is recorded only by the *)
(* attempt that has committed it, and two events of this kind are of two   *)
(* attempts.  Control says where the threads of a request can be together, *)
(* so that no attempt is launched twice and no thread moves while its own  *)
(* event is being ingested.                                                *)
(***************************************************************************)
EXTENDS DemoCheckoutProps, FiniteSetTheorems, TLAPS

-----------------------------------------------------------------------------
(* The invariant.                                                          *)

\* Every thread is where its role can be; the checkout begins after the gateway's entry
\* and launches each attempt once.
Control ==
    /\ pc = [t \in Threads |-> pc[t]]
    /\ \A r \in Requests :
         /\ pc[Gateway(r)] \in GatewayAt /\ pc[Checkout(r)] \in CheckoutAt
         /\ pc[First(r)] \in AttemptAt /\ pc[Second(r)] \in AttemptAt
         /\ pc[Gateway(r)] \in {"idle", "lower", "entry"} => pc[Checkout(r)] = "idle"
         /\ pc[Checkout(r)] \in {"idle", "begin"} => pc[First(r)] = "idle"
         /\ pc[Checkout(r)] \in {"idle", "begin", "select", "timeout", "retry"} =>
                pc[Second(r)] = "idle"

\* The Core API works for threads that record an event.
Calling == \A t \in Threads : api[t] # "idle" => pc[t] \in EmitsAt

\* An effect's event has its effect.
IsReal(e) == e.at = "effect" => <<e.req, e.role>> \in effects

TwoEffects(x) ==
    \E a, b \in effects : a # b /\ ExecutionOf[a[1]] = x /\ ExecutionOf[b[1]] = x

\* Effects are those of attempts that were launched, one that says so included.
EffectsOK ==
    /\ IsFiniteSet(effects)
    /\ \A t \in effects : IsAttempt(t) /\ pc[t] # "idle"
    /\ \A t \in Threads : pc[t] = "effect" => t \in effects

EventsOK == IsFiniteSet(events) /\ \A e \in events : IsReal(e)

\* A detection that goes on has read enough of its own execution.
SeenOK ==
    \A t \in Threads :
        /\ IsFiniteSet(seen[t])
        /\ \A e \in seen[t] : IsReal(e) /\ ExecutionOf[e.req] = ExecutionOf[t[1]]
        /\ api[t] \in {"check", "insert"} => OracleMatches(seen[t])

IncidentsOK == \A x \in Executions : Detected(x) => TwoEffects(x)

\* What is recorded, read and raised is backed by effects.
Evidence == EffectsOK /\ EventsOK /\ SeenOK /\ IncidentsOK

\* TypeOK but for pc, of which Control says more.
DataOK ==
    /\ api \in [Threads -> {"idle", "detect", "check", "insert"}]
    /\ seen \in [Threads -> SUBSET Event]
    /\ charge \in [Threads -> {0, HealthyPaymentLatencyMs, GoldenPaymentLatencyMs}]
    /\ latency \in {HealthyPaymentLatencyMs, GoldenPaymentLatencyMs}
    /\ effects \subseteq Threads
    /\ events \subseteq Event
    /\ incidents \in [Executions -> SUBSET Event]
    /\ reply \in [Requests -> 0 .. 2]
    /\ gone \in [Requests -> BOOLEAN]
    /\ blind \subseteq Event
    /\ faults \in 0 .. MaxDisturbances
    /\ resets \in 0 .. MaxDisturbances

IInv == DataOK /\ Control /\ Calling /\ Evidence

-----------------------------------------------------------------------------
(* Threads and sets.                                                       *)

\* The threads of a request.
LEMMA ThreadIs ==
    /\ \A t \in Threads :
         /\ t[1] \in Requests /\ t[2] \in Roles /\ t = <<t[1], t[2]>>
         /\ t \in {Gateway(t[1]), Checkout(t[1]), First(t[1]), Second(t[1])}
    /\ \A r \in Requests : {Gateway(r), Checkout(r), First(r), Second(r)} \subseteq Threads
  BY DEF Threads, Roles, Attempts, Gateway, Checkout, First, Second

\* Threads differ by request and role.
LEMMA ThreadsDiffer ==
    ASSUME NEW r, NEW s
    PROVE  /\ Gateway(r) # Checkout(s) /\ Gateway(r) # First(s) /\ Gateway(r) # Second(s)
           /\ Checkout(r) # First(s) /\ Checkout(r) # Second(s) /\ First(r) # Second(s)
           /\ Gateway(r) = Gateway(s) => r = s
           /\ Checkout(r) = Checkout(s) => r = s
           /\ First(r) = First(s) => r = s
           /\ Second(r) = Second(s) => r = s
           /\ Gateway(r)[1] = r /\ Checkout(r)[1] = r /\ First(r)[1] = r /\ Second(r)[1] = r
           /\ Gateway(r)[2] = "gateway" /\ Checkout(r)[2] = "checkout"
           /\ First(r)[2] = "first" /\ Second(r)[2] = "second"
  BY DEF Gateway, Checkout, First, Second

\* Two members make a cardinality of two, and no less does.
LEMMA TwoMembers ==
    ASSUME NEW S, IsFiniteSet(S)
    PROVE  Cardinality(S) >= 2 <=> \E a, b \in S : a # b
  <1>1. Cardinality(S) \in Nat
    BY FS_CardinalityType
  <1>2. ASSUME Cardinality(S) >= 2 PROVE \E a, b \in S : a # b
    <2>1. S # {}
      BY <1>2, FS_EmptySet
    <2>2. PICK a : a \in S
      BY <2>1
    <2>3. S # {a}
      BY <1>2, FS_Singleton
    <2> QED
      BY <2>2, <2>3
  <1>3. ASSUME NEW a \in S, NEW b \in S, a # b PROVE Cardinality(S) >= 2
    <2>1. IsFiniteSet({a}) /\ Cardinality({a}) = 1
      BY FS_Singleton
    <2>4. b \notin {a}
      BY <1>3
    <2>5. Cardinality({a} \cup {b}) = IF b \in {a} THEN Cardinality({a}) ELSE Cardinality({a}) + 1
      BY <2>1, FS_AddElement
    <2>2. Cardinality({a} \cup {b}) = 2
      BY <2>1, <2>4, <2>5
    <2>3. {a} \cup {b} \subseteq S
      BY <1>3
    <2> QED
      BY <1>1, <2>2, <2>3, FS_Subset
  <1> QED
    BY <1>2, <1>3

\* Evidence that satisfies the oracle is evidence of two effects.
LEMMA OracleMeansTwo ==
    ASSUME NEW S, IsFiniteSet(S), S \subseteq Event, OracleMatches(S), NEW x,
           \A e \in S : IsReal(e) /\ ExecutionOf[e.req] = x
    PROVE  TwoEffects(x)
  <1> DEFINE E == {e \in S : e.at = "effect"}
  <1>1. IsFiniteSet(E)
    BY FS_Subset
  <1>2. PICK a, b \in E : a # b
    BY <1>1, TwoMembers DEF OracleMatches
  <1>3. <<a.req, a.role>> # <<b.req, b.role>>
    BY <1>2 DEF Event
  <1>4. <<a.req, a.role>> \in effects /\ <<b.req, b.role>> \in effects
    BY DEF IsReal
  <1> QED
    BY <1>3, <1>4 DEF TwoEffects

-----------------------------------------------------------------------------
(* How threads move.                                                       *)

\* What a step of thread t does to the threads: they stay in their roles, only t and
\* threads it starts move, none becomes idle.
Moves(t) ==
    /\ Control'
    /\ \A u \in Threads : u # t /\ pc[u] # "idle" => pc'[u] = pc[u]
    /\ \A u \in Threads : pc[u] # "idle" => pc'[u] # "idle"
    /\ \A u \in Threads : u # t => (pc'[u] = "effect" => pc[u] = "effect")

\* Where thread t can go on its own.
Reachable(t, p) ==
    /\ p # "idle"
    /\ t[2] = "gateway" =>
         p \in GatewayAt /\ (p \in {"lower", "entry"} => pc[t] \in {"idle", "lower"})
    /\ t[2] = "checkout" =>
         /\ p \in CheckoutAt /\ p # "begin" /\ pc[t] # "idle"
         /\ p \in {"select", "timeout", "retry"} => pc[t] \in {"begin", "select", "timeout"}
    /\ IsAttempt(t) => p \in AttemptAt /\ pc[t] # "idle"

\* A thread that goes on along its handler stays in its role.
LEMMA MoveKeeps ==
    ASSUME Control, NEW t \in Threads, NEW p, Reachable(t, p), pc' = [pc EXCEPT ![t] = p]
    PROVE  Moves(t)
  <1>1. pc' = [u \in Threads |-> pc'[u]] /\ \A u \in Threads : pc'[u] = IF u = t THEN p ELSE pc[u]
    BY DEF Control
  <1>2. ASSUME NEW r \in Requests
        PROVE  /\ pc'[Gateway(r)] \in GatewayAt /\ pc'[Checkout(r)] \in CheckoutAt
               /\ pc'[First(r)] \in AttemptAt /\ pc'[Second(r)] \in AttemptAt
               /\ pc'[Gateway(r)] \in {"idle", "lower", "entry"} => pc'[Checkout(r)] = "idle"
               /\ pc'[Checkout(r)] \in {"idle", "begin"} => pc'[First(r)] = "idle"
               /\ pc'[Checkout(r)] \in {"idle", "begin", "select", "timeout", "retry"} =>
                      pc'[Second(r)] = "idle"
    <2> DEFINE g == Gateway(r)  c == Checkout(r)  f == First(r)  s == Second(r)
    <2>1. {g, c, f, s} \subseteq Threads
      BY ThreadIs
    <2>2. /\ g # c /\ g # f /\ g # s /\ c # f /\ c # s /\ f # s
          /\ g[2] = "gateway" /\ c[2] = "checkout" /\ IsAttempt(f) /\ IsAttempt(s)
      BY ThreadsDiffer DEF IsAttempt, Attempts
    <2>3. /\ pc[g] \in GatewayAt /\ pc[c] \in CheckoutAt
          /\ pc[f] \in AttemptAt /\ pc[s] \in AttemptAt
          /\ pc[g] \in {"idle", "lower", "entry"} => pc[c] = "idle"
          /\ pc[c] \in {"idle", "begin"} => pc[f] = "idle"
          /\ pc[c] \in {"idle", "begin", "select", "timeout", "retry"} => pc[s] = "idle"
      BY DEF Control
    <2> HIDE DEF g, c, f, s
    <2>4. CASE t \notin {g, c, f, s}
      BY <1>1, <2>1, <2>3, <2>4 DEF g, c, f, s
    <2>5. CASE t = g
      BY <1>1, <2>1, <2>2, <2>3, <2>5 DEF g, c, f, s, Reachable
    <2>6. CASE t = c
      BY <1>1, <2>1, <2>2, <2>3, <2>6 DEF g, c, f, s, Reachable
    <2>7. CASE t = f
      BY <1>1, <2>1, <2>2, <2>3, <2>7 DEF g, c, f, s, Reachable
    <2>8. CASE t = s
      BY <1>1, <2>1, <2>2, <2>3, <2>8 DEF g, c, f, s, Reachable
    <2> QED
      BY <2>4, <2>5, <2>6, <2>7, <2>8
  <1>3. Control'
    BY <1>1, <1>2 DEF Control
  <1> QED
    BY <1>1, <1>3 DEF Moves, Reachable

\* A thread that emits is known by what it emits.
LEMMA EmitterIs ==
    ASSUME Control, NEW t \in Threads
    PROVE  /\ pc[t] \in {"entry", "exit"} => t = Gateway(t[1])
           /\ pc[t] \in {"begin", "timeout", "retry", "end"} => t = Checkout(t[1])
           /\ pc[t] \in {"started", "charged", "effect"} => IsAttempt(t)
  <1>1. t[1] \in Requests /\ t \in {Gateway(t[1]), Checkout(t[1]), First(t[1]), Second(t[1])}
    BY ThreadIs
  <1>2. CASE t = Gateway(t[1])
    <2>1. pc[t] \in GatewayAt
      BY <1>1, <1>2 DEF Control
    <2> QED
      BY <1>2, <2>1 DEF GatewayAt
  <1>3. CASE t = Checkout(t[1])
    <2>1. pc[t] \in CheckoutAt
      BY <1>1, <1>3 DEF Control
    <2> QED
      BY <1>3, <2>1 DEF CheckoutAt
  <1>4. CASE t \in {First(t[1]), Second(t[1])}
    <2>1. pc[t] \in AttemptAt
      BY <1>1, <1>4 DEF Control
    <2>2. IsAttempt(t)
      BY <1>4, ThreadsDiffer DEF IsAttempt, Attempts
    <2> QED
      BY <2>1, <2>2 DEF AttemptAt
  <1> QED
    BY <1>1, <1>2, <1>3, <1>4

\* A thread that goes on and starts another, which was idle.
LEMMA MoveAndStart ==
    ASSUME Control, NEW r \in Requests, NEW t \in Threads, NEW u \in Threads,
           NEW p, NEW q,
           pc' = [v \in Threads |-> IF v = u THEN q ELSE IF v = t THEN p ELSE pc[v]],
           \/ /\ t = Gateway(r) /\ pc[t] = "entry" /\ p = "calling"
              /\ u = Checkout(r) /\ q = "begin"
           \/ /\ t = Checkout(r) /\ pc[t] = "begin" /\ p = "select"
              /\ u = First(r) /\ q = "authorize"
           \/ /\ t = Checkout(r) /\ pc[t] = "retry" /\ p = "wait"
              /\ u = Second(r) /\ q = "authorize"
    PROVE  Moves(t)
  <1>1. pc' = [v \in Threads |-> pc'[v]]
        /\ \A v \in Threads : pc'[v] = IF v = u THEN q ELSE IF v = t THEN p ELSE pc[v]
    OBVIOUS
  <1>2. ASSUME NEW o \in Requests
        PROVE  /\ pc'[Gateway(o)] \in GatewayAt /\ pc'[Checkout(o)] \in CheckoutAt
               /\ pc'[First(o)] \in AttemptAt /\ pc'[Second(o)] \in AttemptAt
               /\ pc'[Gateway(o)] \in {"idle", "lower", "entry"} => pc'[Checkout(o)] = "idle"
               /\ pc'[Checkout(o)] \in {"idle", "begin"} => pc'[First(o)] = "idle"
               /\ pc'[Checkout(o)] \in {"idle", "begin", "select", "timeout", "retry"} =>
                      pc'[Second(o)] = "idle"
    <2> DEFINE g == Gateway(o)  c == Checkout(o)  f == First(o)  s == Second(o)
    <2>1. {g, c, f, s} \subseteq Threads
      BY ThreadIs
    <2>2. /\ g # c /\ g # f /\ g # s /\ c # f /\ c # s /\ f # s
      BY ThreadsDiffer
    <2>3. /\ pc[g] \in GatewayAt /\ pc[c] \in CheckoutAt
          /\ pc[f] \in AttemptAt /\ pc[s] \in AttemptAt
          /\ pc[g] \in {"idle", "lower", "entry"} => pc[c] = "idle"
          /\ pc[c] \in {"idle", "begin"} => pc[f] = "idle"
          /\ pc[c] \in {"idle", "begin", "select", "timeout", "retry"} => pc[s] = "idle"
      BY DEF Control
    <2>4. CASE o = r
      <3>1. \/ /\ t = g /\ pc[t] = "entry" /\ p = "calling" /\ u = c /\ q = "begin"
            \/ /\ t = c /\ pc[t] = "begin" /\ p = "select" /\ u = f /\ q = "authorize"
            \/ /\ t = c /\ pc[t] = "retry" /\ p = "wait" /\ u = s /\ q = "authorize"
        BY <2>4
      <3> HIDE DEF g, c, f, s
      <3>2. /\ pc'[g] \in GatewayAt /\ pc'[c] \in CheckoutAt
            /\ pc'[f] \in AttemptAt /\ pc'[s] \in AttemptAt
            /\ pc'[g] \in {"idle", "lower", "entry"} => pc'[c] = "idle"
            /\ pc'[c] \in {"idle", "begin"} => pc'[f] = "idle"
            /\ pc'[c] \in {"idle", "begin", "select", "timeout", "retry"} => pc'[s] = "idle"
        BY <1>1, <2>1, <2>2, <2>3, <3>1 DEF GatewayAt, CheckoutAt, AttemptAt
      <3> QED
        BY <3>2 DEF g, c, f, s
    <2>5. CASE o # r
      <3>1. t \notin {g, c, f, s} /\ u \notin {g, c, f, s}
        BY <2>5, ThreadsDiffer
      <3>2. pc'[g] = pc[g] /\ pc'[c] = pc[c] /\ pc'[f] = pc[f] /\ pc'[s] = pc[s]
        BY <1>1, <2>1, <3>1
      <3> QED
        BY <2>3, <3>2
    <2> QED
      BY <2>4, <2>5
  <1>3. Control'
    BY <1>1, <1>2 DEF Control
  <1>4. u # t
    BY ThreadsDiffer
  <1>5. pc[u] = "idle" /\ p # "idle" /\ q \notin {"idle", "effect"}
    BY DEF Control
  <1> QED
    BY <1>1, <1>3, <1>4, <1>5 DEF Moves


\* Record's success.
LEMMA SucceedingKeeps ==
    ASSUME Control, NEW t \in Threads, pc[t] \in EmitsAt, Succeeding(t)
    PROVE  Moves(t) /\ pc'[t] # "effect"
  <1>1. t[1] \in Requests
    BY ThreadIs
  <1>2. CASE pc[t] = "entry"
    <2>1. pc' = [v \in Threads |-> IF v = Checkout(t[1]) THEN "begin"
                                   ELSE IF v = t THEN "calling" ELSE pc[v]]
      BY <1>2 DEF Succeeding, Starts, AfterEmit
    <2>2. t = Gateway(t[1]) /\ Checkout(t[1]) \in Threads /\ Checkout(t[1]) # t
      BY <1>1, <1>2, EmitterIs, ThreadIs, ThreadsDiffer
    <2>3. PICK p, q : p = "calling" /\ q = "begin"
      OBVIOUS
    <2>4. Moves(t)
      BY <1>1, <1>2, <2>1, <2>2, <2>3, MoveAndStart
    <2> QED
      BY <2>1, <2>2, <2>4
  <1>3. CASE pc[t] = "begin"
    <2>1. pc' = [v \in Threads |-> IF v = First(t[1]) THEN "authorize"
                                   ELSE IF v = t THEN "select" ELSE pc[v]]
      BY <1>3 DEF Succeeding, Starts, AfterEmit
    <2>2. t = Checkout(t[1]) /\ First(t[1]) \in Threads /\ First(t[1]) # t
      BY <1>1, <1>3, EmitterIs, ThreadIs, ThreadsDiffer
    <2>3. PICK p, q : p = "select" /\ q = "authorize"
      OBVIOUS
    <2>4. Moves(t)
      BY <1>1, <1>3, <2>1, <2>2, <2>3, MoveAndStart
    <2> QED
      BY <2>1, <2>2, <2>4
  <1>4. CASE pc[t] = "retry"
    <2>1. pc' = [v \in Threads |-> IF v = Second(t[1]) THEN "authorize"
                                   ELSE IF v = t THEN "wait" ELSE pc[v]]
      BY <1>4 DEF Succeeding, Starts, AfterEmit
    <2>2. t = Checkout(t[1]) /\ Second(t[1]) \in Threads /\ Second(t[1]) # t
      BY <1>1, <1>4, EmitterIs, ThreadIs, ThreadsDiffer
    <2>3. PICK p, q : p = "wait" /\ q = "authorize"
      OBVIOUS
    <2>4. Moves(t)
      BY <1>1, <1>4, <2>1, <2>2, <2>3, MoveAndStart
    <2> QED
      BY <2>1, <2>2, <2>4
  <1>5. CASE pc[t] \in {"exit", "timeout", "end", "started", "charged", "effect"}
    <2>1. pc' = [v \in Threads |-> IF v = t THEN AfterEmit(pc[t]) ELSE pc[v]]
      BY <1>5 DEF Succeeding, Starts
    <2>2. PICK p : p = AfterEmit(pc[t])
      OBVIOUS
    <2>3. pc' = [pc EXCEPT ![t] = p]
      BY <2>1, <2>2 DEF Control
    <2>4. /\ pc[t] = "exit" => p = "leaving"
          /\ pc[t] = "timeout" => p = "retry"
          /\ pc[t] = "end" => p = "returned"
          /\ pc[t] = "started" => p = "sleep"
          /\ pc[t] = "charged" => p = "commit"
          /\ pc[t] = "effect" => p = "ok"
      BY <2>2 DEF AfterEmit
    <2>5. Reachable(t, p)
      BY <1>1, <1>5, <2>4, EmitterIs, ThreadsDiffer
      DEF Reachable, GatewayAt, CheckoutAt, AttemptAt, IsAttempt, Attempts
    <2> QED
      BY <1>5, <2>1, <2>2, <2>3, <2>4, <2>5, MoveKeeps
  <1> QED
    BY <1>2, <1>3, <1>4, <1>5 DEF EmitsAt

\* Record's failure.
LEMMA FailingKeeps ==
    ASSUME Control, NEW t \in Threads, pc[t] \in EmitsAt \cup {"authorize", "commit"}, Failing(t)
    PROVE  Moves(t) /\ pc'[t] # "effect"
  <1>1. PICK p : p = AfterError(t)
    OBVIOUS
  <1>2. /\ t[2] = "gateway" => p = "leaving"
        /\ t[2] = "checkout" => p = "failed"
        /\ IsAttempt(t) => p = "err"
        /\ t[2] \in {"gateway", "checkout"} \/ IsAttempt(t)
    BY <1>1, ThreadIs DEF AfterError, IsAttempt, Attempts, Roles
  <1>3. Reachable(t, p)
    BY <1>2 DEF Reachable, GatewayAt, CheckoutAt, AttemptAt, IsAttempt, Attempts, EmitsAt
  <1>4. pc' = [pc EXCEPT ![t] = p]
    BY <1>1 DEF Failing
  <1> QED
    BY <1>2, <1>3, <1>4, MoveKeeps DEF Control

-----------------------------------------------------------------------------
(* What the parts of a step keep.                                          *)

\* Moving keeps the effects backed, unless it claims a new one.
LEMMA EffectsKept ==
    ASSUME IInv, NEW t \in Threads, Moves(t), UNCHANGED effects,
           pc'[t] = "effect" => pc[t] = "effect"
    PROVE  EffectsOK'
  BY DEF IInv, Evidence, EffectsOK, Moves, IsAttempt, DataOK

\* Evidence stays evidence as long as no effect is undone.
LEMMA EvidenceStays ==
    ASSUME effects \subseteq effects'
    PROVE  /\ \A e : IsReal(e) => IsReal(e)'
           /\ \A x : TwoEffects(x) => TwoEffects(x)'
  BY DEF IsReal, TwoEffects

\* Calls that go on are left as they are.
LEMMA CallsKept ==
    ASSUME IInv, effects \subseteq effects', UNCHANGED callVars
    PROVE  SeenOK'
  <1>1. \A e : IsReal(e) => IsReal(e)'
    BY EvidenceStays
  <1> QED
    BY <1>1 DEF IInv, Evidence, SeenOK, callVars

\* A call that ends forgets what it has read; its thread may go on.
LEMMA CallEnds ==
    ASSUME IInv, NEW t \in Threads, Moves(t), UNCHANGED effects,
           api' = [api EXCEPT ![t] = "idle"], seen' = [seen EXCEPT ![t] = {}]
    PROVE  Calling' /\ SeenOK' /\ (\A u \in Threads : seen'[u] \subseteq seen[u])
  <1>1. \A e : IsReal(e) => IsReal(e)'
    BY EvidenceStays
  <1>2. \A u \in Threads : /\ u # t => api'[u] = api[u] /\ seen'[u] = seen[u]
                           /\ u = t => api'[u] = "idle" /\ seen'[u] = {}
    BY DEF IInv, DataOK
  <1>3. IsFiniteSet({})
    BY FS_EmptySet
  <1>4. SeenOK'
    BY <1>1, <1>2, <1>3 DEF IInv, Evidence, SeenOK
  <1>5. ASSUME NEW u \in Threads, api'[u] # "idle" PROVE pc'[u] \in EmitsAt
    <2>1. u # t /\ api[u] # "idle"
      BY <1>2, <1>5
    <2>2. pc[u] \in EmitsAt
      BY <2>1 DEF IInv, Calling
    <2>3. pc'[u] = pc[u]
      BY <2>1, <2>2 DEF Moves, EmitsAt
    <2> QED
      BY <2>2, <2>3
  <1> QED
    BY <1>2, <1>4, <1>5 DEF Calling

\* What a thread inserts is evidence of two effects.
LEMMA InsertsKeeps ==
    ASSUME IInv, NEW t \in Threads, UNCHANGED effects, Inserts(t)
    PROVE  /\ IncidentsOK'
           /\ incidents' \in [Executions -> SUBSET Event]
           /\ \/ UNCHANGED incidents
              \/ /\ incidents[ExecutionOf[t[1]]] = {}
                 /\ incidents' = [incidents EXCEPT ![ExecutionOf[t[1]]] = seen[t]]
                 /\ TwoEffects(ExecutionOf[t[1]])
  <1> DEFINE x == ExecutionOf[t[1]]
  <1>1. x \in Executions
    BY ThreadIs, RequestAssumption
  <1>2. /\ IsFiniteSet(seen[t]) /\ OracleMatches(seen[t]) /\ seen[t] \subseteq Event
        /\ \A e \in seen[t] : IsReal(e) /\ ExecutionOf[e.req] = x
    BY DEF IInv, DataOK, Evidence, SeenOK, Inserts
  <1>3. TwoEffects(x)
    BY <1>2, OracleMeansTwo
  <1>4. \A y : TwoEffects(y) => TwoEffects(y)'
    BY EvidenceStays
  <1>5. \/ UNCHANGED incidents
        \/ incidents[x] = {} /\ incidents' = [incidents EXCEPT ![x] = seen[t]]
    BY DEF Inserts
  <1>6. incidents \in [Executions -> SUBSET Event]
    BY DEF IInv, DataOK
  <1>7. incidents' \in [Executions -> SUBSET Event]
    BY <1>1, <1>2, <1>5, <1>6
  <1>8. \A y \in Executions : y # x => incidents'[y] = incidents[y]
    BY <1>5, <1>6
  <1> HIDE DEF x
  <1>9. IncidentsOK'
    BY <1>3, <1>4, <1>8 DEF IInv, Evidence, IncidentsOK, Detected
  <1> QED
    BY <1>3, <1>5, <1>7, <1>9 DEF x

\* Incidents that stay are still earned.
LEMMA IncidentsKept ==
    ASSUME IInv, effects \subseteq effects', UNCHANGED incidents
    PROVE  IncidentsOK'
  <1>1. \A y : TwoEffects(y) => TwoEffects(y)'
    BY EvidenceStays
  <1> QED
    BY <1>1 DEF IInv, Evidence, IncidentsOK, Detected

\* A move outside Record records nothing.
LEMMA QuietMove ==
    ASSUME IInv, NEW t \in Threads, NEW p, Reachable(t, p), p # "effect",
           pc' = [pc EXCEPT ![t] = p], pc[t] \notin EmitsAt,
           UNCHANGED <<effects, coreVars, callVars>>
    PROVE  Control' /\ Calling' /\ Evidence'
  <1>1. Moves(t)
    BY MoveKeeps DEF IInv
  <1>2. pc'[t] = p /\ \A u \in Threads : u # t => pc'[u] = pc[u]
    BY DEF IInv, Control
  <1>3. EffectsOK'
    BY <1>1, <1>2, EffectsKept
  <1>4. SeenOK' /\ IncidentsOK'
    BY CallsKept, IncidentsKept DEF coreVars
  <1>5. EventsOK'
    BY EvidenceStays DEF IInv, Evidence, EventsOK, coreVars
  <1>6. Calling'
    BY <1>2 DEF IInv, Calling, callVars
  <1> QED
    BY <1>1, <1>3, <1>4, <1>5, <1>6 DEF Moves, Evidence

-----------------------------------------------------------------------------
(* The actions: the Core API.                                              *)

\* A request launches at most two attempts.
LEMMA AtMostTwo ==
    ASSUME NEW r
    PROVE  Cardinality(Launched(r)) \in 0 .. 2
  <1> DEFINE F == {First(r)}  B == F \cup {Second(r)}
  <1>1. IsFiniteSet(F) /\ Cardinality(F) = 1
    BY FS_Singleton
  <1>2. Second(r) \notin F
    BY ThreadsDiffer
  <1>3. IsFiniteSet(B) /\ Cardinality(B) = IF Second(r) \in F THEN Cardinality(F) ELSE Cardinality(F) + 1
    BY <1>1, FS_AddElement
  <1>4. Launched(r) \subseteq B
    BY DEF Launched
  <1> HIDE DEF F, B
  <1>5. Cardinality(Launched(r)) <= 2 /\ IsFiniteSet(Launched(r))
    BY <1>1, <1>2, <1>3, <1>4, FS_Subset
  <1> QED
    BY <1>5, FS_CardinalityType

\* An event is answered: its thread goes on, or gives up when its client is gone.
LEMMA AcceptedKeeps ==
    ASSUME IInv, NEW t \in Threads, api[t] # "idle", Accepted(t),
           IncidentsOK', incidents' \in [Executions -> SUBSET Event],
           blind' \subseteq Event, faults' \in 0 .. MaxDisturbances
    PROVE  IInv'
  <1>1. pc[t] \in EmitsAt
    BY DEF IInv, Calling
  <1>2. Moves(t) /\ pc'[t] # "effect"
    BY <1>1, SucceedingKeeps, FailingKeeps DEF IInv, Accepted
  <1>3. EffectsOK'
    BY <1>2, EffectsKept DEF Accepted
  <1>4. Calling' /\ SeenOK'
    BY <1>2, CallEnds DEF Accepted
  <1>5. EventsOK'
    BY EvidenceStays DEF IInv, Evidence, EventsOK, Accepted
  <1>6. reply' \in [Requests -> 0 .. 2]
    <2>1. PICK n : n = Cardinality(Launched(t[1]))
      OBVIOUS
    <2>2. n \in 0 .. 2
      BY <2>1, AtMostTwo
    <2>3. reply' = reply \/ reply' = [reply EXCEPT ![t[1]] = n]
      BY <2>1 DEF Accepted, Succeeding, Failing
    <2> QED
      BY <2>2, <2>3 DEF IInv, DataOK
  <1>7. DataOK'
    BY <1>6 DEF IInv, DataOK, Accepted
  <1> QED
    BY <1>2, <1>3, <1>4, <1>5, <1>7 DEF IInv, Evidence, Moves

\* The event recorded in "effect" has its effect.
LEMMA IngestKeeps ==
    ASSUME IInv, NEW t \in Threads, Ingest(t)
    PROVE  IInv'
  <1>1. t[1] \in Requests /\ t[2] \in Roles /\ t = <<t[1], t[2]>>
    BY ThreadIs
  <1> DEFINE e == EventOf(t)
  <1>2. e \in Event /\ e.at = pc[t] /\ e.req = t[1] /\ e.role = t[2]
    BY <1>1 DEF EventOf, Event, Ingest
  <1>3. IsReal(e)
    BY <1>1, <1>2 DEF IsReal, IInv, Evidence, EffectsOK
  <1>4. events' = events \cup {e} /\ effects' = effects
    BY DEF Ingest, checkoutVars
  <1> HIDE DEF e
  <1>5. IsFiniteSet(events')
    BY <1>4, FS_AddElement DEF IInv, Evidence, EventsOK
  <1>6. EventsOK'
    BY <1>3, <1>4, <1>5, EvidenceStays DEF IInv, Evidence, EventsOK
  <1>7. \A u \in Threads : api'[u] = (IF u = t THEN "detect" ELSE api[u]) /\ seen'[u] = seen[u]
    BY DEF Ingest, IInv, DataOK
  <1>8. SeenOK'
    BY <1>4, <1>7, EvidenceStays DEF IInv, Evidence, SeenOK
  <1>9. IncidentsOK'
    BY <1>4, IncidentsKept DEF Ingest
  <1>10. EffectsOK' /\ Control'
    BY DEF IInv, Evidence, EffectsOK, Control, IsAttempt, Ingest, checkoutVars
  <1>11. Calling'
    BY <1>7 DEF IInv, Calling, Ingest, checkoutVars
  <1>12. DataOK'
    BY <1>2, <1>4 DEF IInv, DataOK, Ingest, checkoutVars
  <1> QED
    BY <1>6, <1>8, <1>9, <1>10, <1>11, <1>12 DEF IInv, Evidence

\* Detection reads the evidence of its execution that is stored.
LEMMA DetectIncidentKeeps ==
    ASSUME IInv, NEW t \in Threads, DetectIncident(t)
    PROVE  IInv'
  <1> DEFINE S == Stored(ExecutionOf[t[1]])
  <1>1. /\ S \subseteq events
        /\ \A e \in S : ExecutionOf[e.req] = ExecutionOf[t[1]]
    BY DEF Stored
  <1>2. IsFiniteSet(S) /\ OracleMatches(S)
    BY <1>1, FS_Subset DEF IInv, Evidence, EventsOK, DetectIncident, Detectable
  <1>3. S \subseteq Event /\ \A e \in S : IsReal(e)
    BY <1>1 DEF IInv, DataOK, Evidence, EventsOK
  <1>4. \A u \in Threads : /\ api'[u] = IF u = t THEN "check" ELSE api[u]
                           /\ seen'[u] = IF u = t THEN S ELSE seen[u]
    BY DEF DetectIncident, IInv, DataOK
  <1> HIDE DEF S
  <1>5. effects' = effects
    BY DEF DetectIncident, checkoutVars
  <1>6. SeenOK'
    BY <1>1, <1>2, <1>3, <1>4, <1>5, EvidenceStays DEF IInv, Evidence, SeenOK
  <1>7. EventsOK' /\ IncidentsOK'
    BY <1>5, EvidenceStays, IncidentsKept
    DEF IInv, Evidence, EventsOK, DetectIncident, coreVars
  <1>8. EffectsOK' /\ Control'
    BY DEF IInv, Evidence, EffectsOK, Control, IsAttempt, DetectIncident, checkoutVars
  <1>9. Calling'
    BY <1>4 DEF IInv, Calling, DetectIncident, checkoutVars
  <1>10. seen' = [seen EXCEPT ![t] = S]
    BY DEF DetectIncident, S
  <1>11. DataOK'
    BY <1>3, <1>10 DEF IInv, DataOK, DetectIncident, checkoutVars, coreVars
  <1> QED
    BY <1>6, <1>7, <1>8, <1>9, <1>11 DEF IInv, Evidence

\* The check of the nodes only lets the call go on.
LEMMA CheckNodesKeeps ==
    ASSUME IInv, NEW t \in Threads, CheckNodes(t)
    PROVE  IInv'
  <1>1. \A u \in Threads : api'[u] = (IF u = t THEN "insert" ELSE api[u]) /\ seen'[u] = seen[u]
    BY DEF CheckNodes, IInv, DataOK
  <1>2. effects' = effects
    BY DEF CheckNodes, checkoutVars
  <1>3. OracleMatches(seen[t])
    BY DEF CheckNodes, IInv, Evidence, SeenOK
  <1>4. \A u \in Threads : OracleMatches(seen[u]) => OracleMatches(seen'[u])
    BY <1>1
  <1>5. SeenOK'
    BY <1>1, <1>2, <1>3, <1>4, EvidenceStays DEF IInv, Evidence, SeenOK
  <1>6. EventsOK' /\ IncidentsOK'
    BY <1>2, EvidenceStays, IncidentsKept DEF IInv, Evidence, EventsOK, CheckNodes, coreVars
  <1>7. EffectsOK' /\ Control'
    BY DEF IInv, Evidence, EffectsOK, Control, IsAttempt, CheckNodes, checkoutVars
  <1>8. Calling'
    BY <1>1 DEF IInv, Calling, CheckNodes, checkoutVars
  <1>9. DataOK'
    BY DEF IInv, DataOK, CheckNodes, checkoutVars, coreVars
  <1> QED
    BY <1>5, <1>6, <1>7, <1>8, <1>9 DEF IInv, Evidence

\* The ends of a detection: nothing is persisted, or what was read is.
LEMMA DetectionEnds ==
    ASSUME IInv, NEW t \in Threads, DetectNothing(t) \/ NodesMissing(t) \/ PutIncident(t)
    PROVE  IInv'
  <1>1. api[t] # "idle" /\ Accepted(t)
    BY DEF DetectNothing, NodesMissing, PutIncident, Inserts
  <1>2. effects' = effects
    BY <1>1 DEF Accepted
  <1>3. blind' \subseteq Event /\ faults' \in 0 .. MaxDisturbances
    BY DEF DetectNothing, NodesMissing, PutIncident, IInv, DataOK
  <1>4. CASE UNCHANGED incidents
    BY <1>1, <1>2, <1>3, <1>4, AcceptedKeeps, IncidentsKept DEF IInv, DataOK
  <1>5. CASE Inserts(t)
    BY <1>1, <1>2, <1>3, <1>5, AcceptedKeeps, InsertsKeeps
  <1> QED
    BY <1>4, <1>5 DEF DetectNothing, NodesMissing, PutIncident

\* A detection that fails, its incident stored or not.
LEMMA DetectionFailsKeeps ==
    ASSUME IInv, NEW t \in Threads, DetectionFails(t), faults' \in 0 .. MaxDisturbances
    PROVE  IInv'
  <1>1. api[t] # "idle" /\ Accepted(t)
    BY DEF DetectionFails
  <1>2. effects' = effects
    BY <1>1 DEF Accepted
  <1>3. EventOf(t) \in Event
    <2>1. pc[t] \in EmitsAt
      BY <1>1 DEF IInv, Calling
    <2> QED
      BY <2>1, ThreadIs DEF EventOf, Event
  <1>4. blind' \subseteq Event
    BY <1>3 DEF DetectionFails, IInv, DataOK
  <1>5. CASE UNCHANGED incidents
    BY <1>1, <1>2, <1>4, <1>5, AcceptedKeeps, IncidentsKept DEF IInv, DataOK
  <1>6. CASE Inserts(t)
    BY <1>1, <1>2, <1>4, <1>6, AcceptedKeeps, InsertsKeeps
  <1> QED
    BY <1>5, <1>6 DEF DetectionFails

\* A call that fails, the Core API's handler having come to its end or not.
LEMMA CallFailsKeeps ==
    ASSUME IInv, NEW t \in Threads, CallFails(t), faults' \in 0 .. MaxDisturbances
    PROVE  IInv'
  <1>1. pc[t] \in EmitsAt \cup {"authorize", "commit"} /\ Failing(t) /\ effects' = effects
    BY DEF CallFails
  <1>2. Moves(t) /\ pc'[t] # "effect"
    BY <1>1, FailingKeeps DEF IInv
  <1>3. EffectsOK'
    BY <1>1, <1>2, EffectsKept
  <1>4. Calling' /\ SeenOK'
    BY <1>1, <1>2, CallEnds DEF CallFails
  <1>5. EventsOK'
    BY EvidenceStays DEF IInv, Evidence, EventsOK, CallFails
  <1>6. IncidentsOK' /\ incidents' \in [Executions -> SUBSET Event]
    <2>1. CASE UNCHANGED incidents
      BY <1>1, <2>1, IncidentsKept DEF IInv, DataOK
    <2>2. CASE Inserts(t)
      BY <1>1, <2>2, InsertsKeeps
    <2> QED
      BY <2>1, <2>2 DEF CallFails
  <1>7. DataOK'
    BY <1>6 DEF IInv, DataOK, CallFails, Failing
  <1> QED
    BY <1>2, <1>3, <1>4, <1>5, <1>6, <1>7 DEF IInv, Evidence, Moves

-----------------------------------------------------------------------------
(* The actions: the gateway, the checkout and the attempts.                *)

\* The gateway's own steps.
LEMMA GatewayKeeps ==
    ASSUME IInv, NEW r \in Requests,
           \/ Arrive(r) \/ LowerLatency(r) \/ Resume(r) \/ Leave(r)
           \/ SetLatencyFails(r) /\ latency' \in {HealthyPaymentLatencyMs, GoldenPaymentLatencyMs}
                /\ faults' \in 0 .. MaxDisturbances
    PROVE  IInv'
  <1> DEFINE g == Gateway(r)
  <1>1. g \in Threads /\ g[2] = "gateway" /\ ~IsAttempt(g)
    BY ThreadIs, ThreadsDiffer DEF IsAttempt, Attempts
  <1>2. PICK p : /\ p \in {"lower", "entry", "exit", "leaving", "left"}
                 /\ p \in {"lower", "entry"} => pc[g] \in {"idle", "lower"}
                 /\ pc' = [pc EXCEPT ![g] = p]
    BY DEF Arrive, LowerLatency, Resume, Leave, SetLatencyFails
  <1>3. pc[g] \notin EmitsAt
    BY DEF Arrive, LowerLatency, Resume, Leave, SetLatencyFails, EmitsAt
  <1>4. UNCHANGED <<effects, coreVars, callVars>>
    BY DEF Arrive, LowerLatency, Resume, Leave, SetLatencyFails
  <1>5. Reachable(g, p) /\ p # "effect"
    BY <1>1, <1>2 DEF Reachable, GatewayAt
  <1> HIDE DEF g
  <1>6. Control' /\ Calling' /\ Evidence'
    BY <1>1, <1>2, <1>3, <1>4, <1>5, QuietMove
  <1>7. DataOK'
    BY DEF IInv, DataOK, Arrive, LowerLatency, Resume, Leave, SetLatencyFails, coreVars, callVars
  <1> QED
    BY <1>6, <1>7 DEF IInv

\* The checkout's own steps.
LEMMA CheckoutKeeps ==
    ASSUME IInv, NEW r \in Requests, TimerFires(r) \/ Join(r)
    PROVE  IInv'
  <1> DEFINE c == Checkout(r)
  <1>1. c \in Threads /\ c[2] = "checkout" /\ ~IsAttempt(c)
    BY ThreadIs, ThreadsDiffer DEF IsAttempt, Attempts
  <1>2. PICK p : /\ p \in {"timeout", "end", "failed"}
                 /\ p = "timeout" => pc[c] = "select"
                 /\ pc' = [pc EXCEPT ![c] = p]
    BY DEF TimerFires, Join
  <1>3. pc[c] \in {"select", "wait"} /\ pc[c] \notin EmitsAt
    BY DEF TimerFires, Join, EmitsAt
  <1>4. UNCHANGED <<effects, coreVars, callVars>>
    BY DEF TimerFires, Join
  <1>5. Reachable(c, p) /\ p # "effect"
    BY <1>1, <1>2, <1>3 DEF Reachable, CheckoutAt
  <1> HIDE DEF c
  <1>6. Control' /\ Calling' /\ Evidence'
    BY <1>1, <1>2, <1>3, <1>4, <1>5, QuietMove
  <1>7. DataOK'
    BY DEF IInv, DataOK, TimerFires, Join, coreVars, callVars
  <1> QED
    BY <1>6, <1>7 DEF IInv

\* An attempt that is not yet at the ledger's commit, or back from it.
LEMMA AttemptKeeps ==
    ASSUME IInv, NEW t \in Threads, IsAttempt(t), Authorize(t) \/ Wake(t)
    PROVE  IInv'
  <1>1. t[2] # "gateway" /\ t[2] # "checkout"
    BY DEF IsAttempt, Attempts
  <1>2. PICK p : p \in {"started", "charged"} /\ pc' = [pc EXCEPT ![t] = p]
    BY DEF Authorize, Wake
  <1>3. pc[t] \in {"authorize", "sleep"} /\ pc[t] \notin EmitsAt
    BY DEF Authorize, Wake, EmitsAt
  <1>4. UNCHANGED <<effects, coreVars, callVars>>
    BY DEF Authorize, Wake
  <1>5. Reachable(t, p) /\ p # "effect"
    BY <1>1, <1>2, <1>3 DEF Reachable, AttemptAt
  <1>6. Control' /\ Calling' /\ Evidence'
    BY <1>2, <1>3, <1>4, <1>5, QuietMove
  <1>7. DataOK'
    BY DEF IInv, DataOK, Authorize, Wake, coreVars, callVars
  <1> QED
    BY <1>6, <1>7 DEF IInv

\* The ledger's commit: the effect comes with the place it is recorded from.
LEMMA CommitKeeps ==
    ASSUME IInv, NEW t \in Threads, IsAttempt(t), Commit(t)
    PROVE  IInv'
  <1>1. PICK p : p = "effect"
    OBVIOUS
  <1>2. pc' = [pc EXCEPT ![t] = p] /\ effects' = effects \cup {t} /\ pc[t] = "commit"
    BY <1>1 DEF Commit
  <1>3. Reachable(t, p)
    BY <1>1, <1>2 DEF Reachable, AttemptAt, IsAttempt, Attempts
  <1>4. Moves(t) /\ pc'[t] = "effect"
    BY <1>1, <1>2, <1>3, MoveKeeps DEF IInv, Control
  <1>5. UNCHANGED <<events, incidents, api, seen, reply, gone, blind, faults, resets, latency,
                    charge>>
    BY DEF Commit, coreVars, callVars
  <1>6. IsFiniteSet(effects')
    BY <1>2, FS_AddElement DEF IInv, Evidence, EffectsOK
  <1>7. EffectsOK'
    <2>1. \A u \in effects' : IsAttempt(u) /\ pc'[u] # "idle"
      BY <1>2, <1>4 DEF IInv, DataOK, Evidence, EffectsOK, Moves
    <2>2. \A u \in Threads : pc'[u] = "effect" => u \in effects'
      BY <1>2, <1>4 DEF IInv, Evidence, EffectsOK, Moves
    <2> QED
      BY <1>6, <2>1, <2>2 DEF EffectsOK, IsAttempt
  <1>8. SeenOK' /\ IncidentsOK'
    BY <1>2, <1>5, CallsKept, IncidentsKept DEF callVars
  <1>9. EventsOK'
    BY <1>2, <1>5, EvidenceStays DEF IInv, Evidence, EventsOK
  <1>10. Calling'
    <2>1. \A u \in Threads : u # t => pc'[u] = pc[u]
      BY <1>2 DEF IInv, Control
    <2> QED
      BY <1>4, <1>5, <2>1 DEF IInv, Calling, EmitsAt
  <1>11. DataOK'
    BY <1>2, <1>5 DEF IInv, DataOK
  <1> QED
    BY <1>4, <1>7, <1>8, <1>9, <1>10, <1>11 DEF IInv, Evidence, Moves

\* The bound on disturbances.
LEMMA OneMore ==
    ASSUME IInv, faults + resets < MaxDisturbances
    PROVE  faults + 1 \in 0 .. MaxDisturbances /\ resets + 1 \in 0 .. MaxDisturbances
  BY BoundAssumption DEF IInv, DataOK

\* A client that goes away changes nothing by itself.
LEMMA DisconnectKeeps ==
    ASSUME IInv, NEW r \in Requests, Disconnect(r)
    PROVE  IInv'
  <1>1. DataOK'
    BY OneMore DEF IInv, DataOK, Disconnect, coreVars, callVars
  <1>2. UNCHANGED <<pc, effects, events, incidents, api, seen>>
    BY DEF Disconnect, coreVars, callVars
  <1> QED
    BY <1>1, <1>2
    DEF IInv, Control, Calling, Evidence, EffectsOK, EventsOK, SeenOK, IncidentsOK,
        IsReal, TwoEffects, Detected

\* A reset leaves effects and calls as they are: what a call has read is still backed.
LEMMA ResetKeeps ==
    ASSUME IInv, Reset
    PROVE  IInv'
  <1>1. UNCHANGED <<pc, effects, api, seen, charge, latency, reply, gone, blind, faults>>
    BY DEF Reset, checkoutVars, callVars
  <1>2. events' = {} /\ incidents' = [x \in Executions |-> {}] /\ resets' \in 0 .. MaxDisturbances
    BY OneMore DEF Reset
  <1>3. DataOK'
    BY <1>1, <1>2 DEF IInv, DataOK
  <1>4. EventsOK' /\ IncidentsOK'
    BY <1>2, FS_EmptySet DEF EventsOK, IncidentsOK, Detected
  <1>5. Control' /\ Calling' /\ EffectsOK' /\ SeenOK'
    BY <1>1 DEF IInv, Control, Calling, Evidence, EffectsOK, SeenOK, IsReal
  <1> QED
    BY <1>3, <1>4, <1>5 DEF IInv, Evidence

-----------------------------------------------------------------------------
(* The invariant holds.                                                    *)

\* Every disturbance of the calls keeps the invariant.
LEMMA LoseKeeps ==
    ASSUME IInv, Lose
    PROVE  IInv'
  <1>1. faults' \in 0 .. MaxDisturbances
    BY OneMore DEF Lose
  <1>2. CASE \E t \in Threads : CallFails(t) \/ DetectionFails(t)
    BY <1>1, <1>2, CallFailsKeeps, DetectionFailsKeeps
  <1>3. CASE \E r \in Requests :
                 /\ SetLatencyFails(r)
                 /\ latency' \in {latency, IF pc[Gateway(r)] = "lower"
                                           THEN HealthyPaymentLatencyMs ELSE GoldenPaymentLatencyMs}
    <2>1. latency' \in {HealthyPaymentLatencyMs, GoldenPaymentLatencyMs}
      BY <1>3 DEF IInv, DataOK
    <2> QED
      BY <1>1, <1>3, <2>1, GatewayKeeps
  <1> QED
    BY <1>2, <1>3 DEF Lose

\* Every step keeps the invariant.
LEMMA StepKeeps ==
    ASSUME IInv, [Next]_vars
    PROVE  IInv'
  <1>1. CASE \E r \in Requests : RequestStep(r)
    <2>1. PICK r \in Requests : RequestStep(r)
      BY <1>1
    <2>2. CASE LowerLatency(r) \/ Resume(r) \/ Leave(r)
      BY <2>2, GatewayKeeps
    <2>3. CASE AbandonLatency(r)
      <3>1. SetLatencyFails(r) /\ UNCHANGED <<latency, faults>>
        BY <2>3 DEF AbandonLatency
      <3>2. /\ latency' \in {HealthyPaymentLatencyMs, GoldenPaymentLatencyMs}
            /\ faults' \in 0 .. MaxDisturbances
        BY <3>1 DEF IInv, DataOK
      <3> QED
        BY <3>1, <3>2, GatewayKeeps
    <2>4. CASE TimerFires(r) \/ Join(r)
      BY <2>4, CheckoutKeeps
    <2> QED
      BY <2>1, <2>2, <2>3, <2>4 DEF RequestStep
  <1>2. CASE \E t \in Threads : ThreadStep(t)
    <2>1. PICK t \in Threads : ThreadStep(t)
      BY <1>2
    <2>2. CASE Abort(t)
      <3>1. CallFails(t) /\ faults' \in 0 .. MaxDisturbances
        BY <2>2 DEF Abort, IInv, DataOK
      <3> QED
        BY <3>1, CallFailsKeeps
    <2> QED
      BY <2>1, <2>2, IngestKeeps, DetectIncidentKeeps, CheckNodesKeeps, DetectionEnds,
         AttemptKeeps, CommitKeeps DEF ThreadStep
  <1>3. CASE UNCHANGED vars
    BY <1>3
    DEF vars, checkoutVars, coreVars, callVars, IInv, DataOK, Control, Calling, Evidence,
        EffectsOK, EventsOK, SeenOK, IncidentsOK, IsReal, TwoEffects, Detected
  <1> QED
    BY <1>1, <1>2, <1>3, GatewayKeeps, DisconnectKeeps, LoseKeeps, ResetKeeps DEF Next, Step

\* Nothing has happened at first.
LEMMA InitHolds == Init => IInv
  <1> SUFFICES ASSUME Init PROVE IInv
    OBVIOUS
  <1>1. DataOK
    BY BoundAssumption DEF Init, DataOK
  <1>2. Control
    BY ThreadIs DEF Init, Control, GatewayAt, CheckoutAt, AttemptAt
  <1>3. Calling /\ IncidentsOK /\ EventsOK /\ SeenOK /\ EffectsOK
    BY FS_EmptySet DEF Init, Calling, IncidentsOK, EventsOK, SeenOK, EffectsOK, Detected
  <1> QED
    BY <1>1, <1>2, <1>3 DEF IInv, Evidence

\* The invariant of the demo services, for every set of requests.
THEOREM Invariance == Spec => []IInv
  BY InitHolds, StepKeeps, PTL DEF Spec

-----------------------------------------------------------------------------
(* Theorems.                                                               *)

\* Every place is that of the thread's role, every value of its type.
LEMMA InvImpliesType == IInv => TypeOK
  <1> SUFFICES ASSUME IInv PROVE TypeOK
    OBVIOUS
  <1>1. ASSUME NEW t \in Threads PROVE pc[t] \in GatewayAt \cup CheckoutAt \cup AttemptAt
    BY ThreadIs DEF IInv, Control
  <1>2. pc \in [Threads -> GatewayAt \cup CheckoutAt \cup AttemptAt]
    BY <1>1 DEF IInv, Control
  <1> QED
    BY <1>2 DEF IInv, DataOK, TypeOK

\* Every variable of the demo services keeps its type (TypeOK).
THEOREM TypeCorrect == Spec => []TypeOK
  BY Invariance, InvImpliesType, PTL

\* Two effects in an execution are counted as two.
LEMMA TwoEffectsCount ==
    ASSUME IInv, NEW x
    PROVE  /\ TwoEffects(x) <=> Cardinality({t \in effects : ExecutionOf[t[1]] = x}) >= 2
           /\ Cardinality({t \in effects : ExecutionOf[t[1]] = x}) \in Nat
  <1> DEFINE E == {t \in effects : ExecutionOf[t[1]] = x}
  <1>1. IsFiniteSet(E)
    BY FS_Subset DEF IInv, Evidence, EffectsOK
  <1>2. Cardinality(E) >= 2 <=> \E a, b \in E : a # b
    BY <1>1, TwoMembers
  <1> QED
    BY <1>1, <1>2, FS_CardinalityType DEF TwoEffects

\* With one request to a checkout the two effects are those of its two attempts, so
\* that the second has been launched.
LEMMA InvImpliesEarned ==
    ASSUME IInv, \A r, s \in Requests : ExecutionOf[r] = ExecutionOf[s] => r = s
    PROVE  IncidentIsEarned
  <1> SUFFICES ASSUME NEW x \in Executions, Detected(x)
               PROVE  /\ Cardinality({t \in effects : ExecutionOf[t[1]] = x}) >= 2
                      /\ \E r \in Requests : ExecutionOf[r] = x /\ pc[Second(r)] # "idle"
    BY DEF IncidentIsEarned
  <1>1. TwoEffects(x)
    BY DEF IInv, Evidence, IncidentsOK
  <1>2. PICK a, b \in effects : a # b /\ ExecutionOf[a[1]] = x /\ ExecutionOf[b[1]] = x
    BY <1>1 DEF TwoEffects
  <1>3. /\ a \in Threads /\ b \in Threads /\ IsAttempt(a) /\ IsAttempt(b)
        /\ pc[a] # "idle" /\ pc[b] # "idle"
    BY DEF IInv, DataOK, Evidence, EffectsOK
  <1>4. a[1] = b[1] /\ a[1] \in Requests
    BY <1>2, <1>3, ThreadIs
  <1>5. a \in {First(a[1]), Second(a[1])} /\ b \in {First(a[1]), Second(a[1])}
    BY <1>3, <1>4, ThreadIs, ThreadsDiffer DEF IsAttempt, Attempts
  <1>6. Second(a[1]) \in {a, b}
    BY <1>2, <1>5
  <1> QED
    BY <1>1, <1>2, <1>3, <1>4, <1>6, TwoEffectsCount

\* No false alarm (IncidentIsEarned, detect.go): an incident has two committed effects,
\* and a retry, when no two requests name one checkout.
THEOREM IncidentsAreEarned ==
    ASSUME \A r, s \in Requests : ExecutionOf[r] = ExecutionOf[s] => r = s
    PROVE  Spec => []IncidentIsEarned
  <1>1. IInv => IncidentIsEarned
    BY InvImpliesEarned
  <1> QED
    BY <1>1, Invariance, PTL

\* The initial states of detection.
LEMMA InitRefines == Init => Abstract!Init
  BY DEF Init, Abstract!Init, Committed

\* What thread t inserts is raised, or already was.
LEMMA InsertsRefines ==
    ASSUME IInv, NEW t \in Threads, UNCHANGED effects, Inserts(t)
    PROVE  [Abstract!Next]_Abstract!vars
  <1> DEFINE x == ExecutionOf[t[1]]
  <1>1. x \in Executions
    BY ThreadIs, RequestAssumption
  <1>2. Committed' = Committed
    BY DEF Committed
  <1>3. CASE UNCHANGED incidents
    BY <1>2, <1>3 DEF Abstract!vars
  <1>4. CASE incidents[x] = {} /\ incidents' = [incidents EXCEPT ![x] = seen[t]] /\ TwoEffects(x)
    <2>1. incidents'[x] = seen[t]
      BY <1>1, <1>4 DEF IInv, DataOK
    <2>2. incidents' = [incidents EXCEPT ![x] = incidents'[x]]
      BY <1>4, <2>1
    <2>3. Committed[x] = {u \in effects : ExecutionOf[u[1]] = x}
      BY <1>1 DEF Committed
    <2>4. \E a, b \in Committed[x] : a # b
      BY <1>4, <2>3 DEF TwoEffects
    <2>5. Abstract!Raise(x)
      BY <1>2, <1>4, <2>2, <2>4 DEF Abstract!Raise
    <2> QED
      BY <1>1, <2>5 DEF Abstract!Next
  <1> QED
    BY <1>3, <1>4, InsertsKeeps

\* The ledger's commit is detection's.
LEMMA CommitRefines ==
    ASSUME IInv, NEW t \in Threads, Commit(t)
    PROVE  [Abstract!Next]_Abstract!vars
  <1> DEFINE x == ExecutionOf[t[1]]
  <1>1. x \in Executions
    BY ThreadIs, RequestAssumption
  <1>2. effects' = effects \cup {t} /\ incidents' = incidents
    BY DEF Commit, coreVars
  <1>3. Committed' = [y \in Executions |-> {u \in effects' : ExecutionOf[u[1]] = y}]
    BY DEF Committed
  <1>4. ASSUME NEW y \in Executions
        PROVE  Committed'[y] = IF y = x THEN Committed[y] \cup {t} ELSE Committed[y]
    BY <1>2, <1>3 DEF Committed
  <1>5. Committed' = [Committed EXCEPT ![x] = @ \cup {t}]
    BY <1>1, <1>3, <1>4 DEF Committed
  <1>6. Abstract!Commit(x, t)
    BY <1>2, <1>5 DEF Abstract!Commit
  <1> QED
    BY <1>1, <1>6 DEF Abstract!Next

\* Every step of the services is a step of detection, or none.
LEMMA StepRefines ==
    ASSUME IInv, [Next]_vars
    PROVE  [Abstract!Next]_Abstract!vars
  <1>1. CASE UNCHANGED <<effects, incidents>>
    BY <1>1 DEF Committed, Abstract!vars
  <1>2. CASE \E t \in Threads : UNCHANGED effects /\ Inserts(t)
    BY <1>2, InsertsRefines
  <1>3. CASE \E t \in Threads : Commit(t)
    BY <1>3, CommitRefines
  <1>4. CASE Reset
    BY <1>4 DEF Reset, checkoutVars, Committed, Abstract!Next, Abstract!Reset
  <1>5. ASSUME NEW r \in Requests, RequestStep(r) \/ Arrive(r) \/ Disconnect(r)
        PROVE  UNCHANGED <<effects, incidents>>
    BY <1>5 DEF RequestStep, LowerLatency, Resume, Leave, AbandonLatency, SetLatencyFails,
                TimerFires, Join, Arrive, Disconnect, coreVars
  <1>6. ASSUME NEW t \in Threads, CallFails(t) \/ DetectionFails(t)
        PROVE  UNCHANGED effects /\ (UNCHANGED incidents \/ Inserts(t))
    BY <1>6 DEF CallFails, DetectionFails, Accepted
  <1>7. ASSUME NEW t \in Threads, ThreadStep(t)
        PROVE  \/ UNCHANGED <<effects, incidents>>
               \/ UNCHANGED effects /\ Inserts(t)
               \/ Commit(t)
    BY <1>6, <1>7 DEF ThreadStep, Ingest, DetectNothing, DetectIncident, CheckNodes, NodesMissing,
                      PutIncident, Abort, Authorize, Wake, Accepted, coreVars, checkoutVars
  <1>8. ASSUME Lose
        PROVE  \/ UNCHANGED <<effects, incidents>>
               \/ \E t \in Threads : UNCHANGED effects /\ Inserts(t)
    BY <1>6, <1>8 DEF Lose, SetLatencyFails, coreVars
  <1>9. CASE UNCHANGED vars
    BY <1>1, <1>9 DEF vars, checkoutVars, coreVars
  <1> QED
    BY <1>1, <1>2, <1>3, <1>4, <1>5, <1>7, <1>8, <1>9 DEF Next, Step

\* The services implement detection (ImplementsDetection, detect.go:23 and PutIncident):
\* whatever the interleaving, and with any calls lost, an incident is raised once, for
\* two committed effects, and stays as it was raised until a reset.
THEOREM ServicesDetect == Spec => ImplementsDetection
  <1>1. Spec => Abstract!Init /\ [][Abstract!Next]_Abstract!vars
    BY Invariance, InitRefines, StepRefines, PTL DEF Spec
  <1> QED
    BY <1>1 DEF ImplementsDetection, Abstract!Spec
=============================================================================
