--------------------------- MODULE DemoGraphProofs ---------------------------
(***************************************************************************)
(* Proofs about the graph of an incident: it is the golden scenario,       *)
(* whichever thread's detection finds it and whatever a reset has removed. *)
(*                                                                         *)
(* A checkout's begin event is the parent of everything its attempts       *)
(* record, and it is recorded once: as long as it is stored, no reset has  *)
(* come after it, and whatever the request has passed since is stored too  *)
(* (Whole).  A graph without dangling edges therefore has all of it.  That *)
(* nothing of the answer is in the graph is a race: the events that end a  *)
(* request come after both attempts are done, and the later of them has    *)
(* been detected by then, unless its detection failed (Exact).             *)
(***************************************************************************)
EXTENDS DemoReplyProofs

-----------------------------------------------------------------------------
(* The invariant.                                                          *)

Has(r, role, at) == EventAt(r, role, at) \in events

\* An event is of a kind its role records.
Recordable(e) ==
    /\ e.role = "gateway"   => e.at \in {"entry", "exit"}
    /\ e.role = "checkout"  => e.at \in {"begin", "timeout", "retry", "end"}
    /\ e.role \in Attempts  => e.at \in {"started", "charged", "effect"}

\* What the stored events of a request say of where its threads are.
Trace(r) ==
    /\ pc[Checkout(r)] \in BegunAt => pc[First(r)] # "idle"
    /\ pc[Checkout(r)] = "wait" => pc[Second(r)] # "idle"
    /\ Has(r, "checkout", "timeout") =>
         /\ pc[Checkout(r)] \notin {"idle", "begin", "select"}
         /\ pc[Checkout(r)] \in {"end", "returned"} => pc[Second(r)] # "idle"
    /\ Has(r, "checkout", "end") => pc[Checkout(r)] \in {"end", "returned", "failed"}
    /\ Has(r, "gateway", "exit") => pc[Checkout(r)] = "returned"

\* An attempt's events follow one another.
InOrder(r, t) ==
    /\ pc[t] \in {"sleep", "charged", "commit", "effect", "ok"} \/ Has(r, t[2], "charged") =>
           Has(r, t[2], "started")
    /\ pc[t] \in {"commit", "effect", "ok"} \/ Has(r, t[2], "effect") => Has(r, t[2], "charged")

\* An attempt that was not launched has recorded nothing.
NothingEarly(r, t) ==
    pc[t] = "idle" => ~Has(r, t[2], "started") /\ ~Has(r, t[2], "charged") /\ ~Has(r, t[2], "effect")

\* While the begin event is stored, so is what the request has passed.
Whole(r) ==
    Has(r, "checkout", "begin") =>
        /\ pc[Checkout(r)] = "retry" \/ pc[Second(r)] # "idle" => Has(r, "checkout", "timeout")
        /\ pc[Second(r)] # "idle" => Has(r, "checkout", "retry")
        /\ InOrder(r, First(r)) /\ InOrder(r, Second(r))

\* And so is what one of its threads is being answered for.
Answering(r) ==
    \A t \in {Checkout(r), First(r), Second(r)} :
        Has(r, "checkout", "begin") /\ api[t] # "idle" => EventOf(t) \in events

Stays(r) == Trace(r) /\ NothingEarly(r, First(r)) /\ NothingEarly(r, Second(r)) /\ Whole(r)

Traced ==
    /\ \A e \in events : Recordable(e)
    /\ \A r \in Requests : Stays(r) /\ Answering(r)

\* What a detection goes on with, and what has been raised.
SeenWhole ==
    \A t \in Threads : api[t] \in {"check", "insert"} =>
        /\ Scenario(t[1]) \subseteq seen[t] /\ EdgesResolve(seen[t])
        /\ \A e \in seen[t] : Recordable(e)

RaisedWhole ==
    /\ \A x \in Executions : Detected(x) => \E r \in Requests : ExecutionOf[r] = x
    /\ \A r \in Requests : Detected(ExecutionOf[r]) =>
         /\ Scenario(r) \subseteq incidents[ExecutionOf[r]]
         /\ EdgesResolve(incidents[ExecutionOf[r]])

\* No detection of the request's execution has failed.
Sighted(r) == \A e \in blind : ExecutionOf[e.req] # ExecutionOf[r]

\* By the time a request that timed out records its end, it has been detected.
EndDetected ==
    \A r \in Requests :
        /\ Sighted(r) /\ Has(r, "checkout", "timeout")
        /\ Has(r, "checkout", "end") \/ Has(r, "gateway", "exit")
        => Detected(ExecutionOf[r])

\* An incident is its request's scenario.
RaisedExactly ==
    \A r \in Requests :
        Sighted(r) /\ Detected(ExecutionOf[r]) => incidents[ExecutionOf[r]] = Scenario(r)

Exact == EndDetected /\ RaisedExactly

-----------------------------------------------------------------------------
(* How the threads of one request move.                                    *)

Still(r) ==
    /\ pc'[Checkout(r)] = pc[Checkout(r)]
    /\ pc'[First(r)] = pc[First(r)] /\ pc'[Second(r)] = pc[Second(r)]

CheckoutMoves(r) ==
    /\ pc'[First(r)] = pc[First(r)] /\ pc'[Second(r)] = pc[Second(r)]
    /\ \/ pc[Checkout(r)] = "idle" /\ pc'[Checkout(r)] = "begin"
       \/ pc[Checkout(r)] = "select" /\ pc'[Checkout(r)] = "timeout"
       \/ pc[Checkout(r)] \in {"select", "wait"} /\ pc'[Checkout(r)] = "end"
       \/ /\ pc[Checkout(r)] \notin {"idle", "returned", "failed"}
          /\ pc'[Checkout(r)] = "failed"
       \/ /\ api[Checkout(r)] # "idle"
          /\ pc[Checkout(r)] = "timeout" /\ pc'[Checkout(r)] = "retry"
       \/ pc[Checkout(r)] = "end" /\ pc'[Checkout(r)] = "returned"

CheckoutLaunches(r) ==
    \/ /\ pc[Checkout(r)] = "begin" /\ pc'[Checkout(r)] = "select"
       /\ pc[First(r)] = "idle" /\ pc'[First(r)] = "authorize"
       /\ pc'[Second(r)] = pc[Second(r)]
    \/ /\ api[Checkout(r)] # "idle"
       /\ pc[Checkout(r)] = "retry" /\ pc'[Checkout(r)] = "wait"
       /\ pc[Second(r)] = "idle" /\ pc'[Second(r)] = "authorize"
       /\ pc'[First(r)] = pc[First(r)]

Strides(t) ==
    \/ pc[t] = "authorize" /\ pc'[t] = "started"
    \/ pc[t] = "sleep" /\ pc'[t] = "charged"
    \/ pc[t] = "commit" /\ pc'[t] = "effect"
    \/ pc[t] # "idle" /\ pc'[t] = "err"
    \/ /\ api[t] # "idle"
       /\ \/ pc[t] = "started" /\ pc'[t] = "sleep"
          \/ pc[t] = "charged" /\ pc'[t] = "commit"
          \/ pc[t] = "effect" /\ pc'[t] = "ok"

AttemptMoves(r) ==
    /\ pc'[Checkout(r)] = pc[Checkout(r)]
    /\ \/ Strides(First(r)) /\ pc'[Second(r)] = pc[Second(r)]
       \/ Strides(Second(r)) /\ pc'[First(r)] = pc[First(r)]

Local(r) == Still(r) \/ CheckoutMoves(r) \/ CheckoutLaunches(r) \/ AttemptMoves(r)

\* Thread t goes to p on its own, as its role does.
Goes(t, p) ==
    /\ \A u \in Threads : pc'[u] = IF u = t THEN p ELSE pc[u]
    /\ t[2] = "checkout" =>
         \/ pc[t] = "select" /\ p = "timeout"
         \/ pc[t] \in {"select", "wait"} /\ p = "end"
         \/ pc[t] \notin {"idle", "returned", "failed"} /\ p = "failed"
         \/ api[t] # "idle" /\ pc[t] = "timeout" /\ p = "retry"
         \/ pc[t] = "end" /\ p = "returned"
    /\ IsAttempt(t) => Strides(t)

\* Then the threads of every request move as they may.
LEMMA GoesIsLocal ==
    ASSUME NEW t \in Threads, NEW p, Goes(t, p), NEW r \in Requests
    PROVE  Local(r)
  <1> DEFINE g == Gateway(r)  c == Checkout(r)  f == First(r)  s == Second(r)
  <1>1. /\ {c, f, s} \subseteq Threads /\ c # f /\ c # s /\ f # s /\ g # c /\ g # f /\ g # s
        /\ c[2] = "checkout" /\ IsAttempt(f) /\ IsAttempt(s)
    BY ThreadIs, ThreadsDiffer DEF IsAttempt, Attempts
  <1>2. \A u \in Threads : pc'[u] = IF u = t THEN p ELSE pc[u]
    BY DEF Goes
  <1>3. CASE t \notin {c, f, s}
    <2>1. Still(r)
      BY <1>1, <1>2, <1>3 DEF Still
    <2> QED
      BY <2>1 DEF Local
  <1>4. CASE t = c
    <2>1. CheckoutMoves(r)
      BY <1>1, <1>2, <1>4 DEF CheckoutMoves, Goes
    <2> QED
      BY <2>1 DEF Local
  <1>5. CASE t \in {f, s}
    <2>1. AttemptMoves(r)
      BY <1>1, <1>2, <1>5 DEF AttemptMoves, Goes
    <2> QED
      BY <2>1 DEF Local
  <1> QED
    BY <1>3, <1>4, <1>5

\* The steps of gateways, checkouts and attempts outside Record.
LEMMA RequestLocal ==
    ASSUME IInv, NEW o \in Requests, RequestStep(o) \/ Arrive(o) \/ SetLatencyFails(o),
           NEW r \in Requests
    PROVE  Local(r)
  <1>1. /\ Gateway(o) \in Threads /\ Gateway(o)[2] = "gateway" /\ ~IsAttempt(Gateway(o))
        /\ Checkout(o) \in Threads /\ Checkout(o)[2] = "checkout" /\ ~IsAttempt(Checkout(o))
    BY ThreadIs, ThreadsDiffer DEF IsAttempt, Attempts
  <1>2. CASE Arrive(o) \/ LowerLatency(o) \/ Resume(o) \/ Leave(o) \/ SetLatencyFails(o)
    <2>1. PICK p : pc' = [pc EXCEPT ![Gateway(o)] = p]
      BY <1>2 DEF Arrive, LowerLatency, Resume, Leave, SetLatencyFails
    <2>2. Goes(Gateway(o), p)
      BY <1>1, <2>1 DEF Goes, IInv, Control
    <2> QED
      BY <1>1, <2>2, GoesIsLocal
  <1>3. CASE TimerFires(o) \/ Join(o)
    <2>1. PICK p : /\ pc' = [pc EXCEPT ![Checkout(o)] = p]
                   /\ \/ pc[Checkout(o)] = "select" /\ p = "timeout"
                      \/ pc[Checkout(o)] \in {"select", "wait"} /\ p \in {"end", "failed"}
      BY <1>3 DEF TimerFires, Join
    <2>2. Goes(Checkout(o), p)
      BY <1>1, <2>1 DEF Goes, IInv, Control
    <2> QED
      BY <1>1, <2>2, GoesIsLocal
  <1> QED
    BY <1>2, <1>3 DEF RequestStep, AbandonLatency

\* So do those of attempts.
LEMMA AttemptLocal ==
    ASSUME IInv, NEW t \in Threads, IsAttempt(t), Authorize(t) \/ Wake(t) \/ Commit(t),
           NEW r \in Requests
    PROVE  Local(r)
  <1>1. PICK p : /\ pc' = [pc EXCEPT ![t] = p]
                 /\ \/ pc[t] = "authorize" /\ p = "started"
                    \/ pc[t] = "sleep" /\ p = "charged"
                    \/ pc[t] = "commit" /\ p = "effect"
    BY DEF Authorize, Wake, Commit
  <1>2. t[2] # "checkout"
    BY DEF IsAttempt, Attempts
  <1>3. Goes(t, p)
    BY <1>1, <1>2 DEF Goes, Strides, IInv, Control
  <1> QED
    BY <1>3, GoesIsLocal

\* So does a call that fails.
LEMMA FailureLocal ==
    ASSUME IInv, NEW t \in Threads, pc[t] \in EmitsAt \cup {"authorize", "commit"}, Failing(t),
           NEW r \in Requests
    PROVE  Local(r)
  <1>1. PICK p : p = AfterError(t)
    OBVIOUS
  <1>2. /\ t[2] = "checkout" => p = "failed"
        /\ IsAttempt(t) => p = "err"
    BY <1>1 DEF AfterError, IsAttempt, Attempts
  <1>3. pc' = [pc EXCEPT ![t] = p]
    BY <1>1 DEF Failing
  <1>4. Goes(t, p)
    BY <1>2, <1>3 DEF Goes, Strides, EmitsAt, IInv, Control
  <1> QED
    BY <1>4, GoesIsLocal

\* So does an answered event.
LEMMA SuccessLocal ==
    ASSUME IInv, NEW t \in Threads, api[t] # "idle", Succeeding(t), NEW r \in Requests
    PROVE  Local(r)
  <1>1. pc[t] \in EmitsAt /\ Control
    BY DEF IInv, Calling
  <1>2. PICK o : o = t[1]
    OBVIOUS
  <1>3. /\ o \in Requests
        /\ {Gateway(r), Checkout(r), First(r), Second(r)} \subseteq Threads
        /\ Checkout(r) # First(r) /\ Checkout(r) # Second(r) /\ First(r) # Second(r)
        /\ Gateway(r) # Checkout(r) /\ Gateway(r) # First(r) /\ Gateway(r) # Second(r)
    BY <1>2, ThreadIs, ThreadsDiffer
  <1>4. ASSUME NEW u \in {Checkout(o), First(o), Second(o)}, NEW p, NEW q, Starting(t, p, u, q),
               t[1] # r
        PROVE  Still(r)
    <2>1. {Checkout(r), First(r), Second(r)} \cap {t, u} = {}
      BY <1>2, <1>4, ThreadsDiffer
    <2> QED
      BY <1>3, <1>4, <2>1 DEF Starting, Still
  <1>5. CASE pc[t] = "entry" /\ t = Gateway(o) /\ Starting(t, "calling", Checkout(o), "begin")
    <2>1. CASE o = r
      <3>1. CheckoutMoves(r)
        BY <1>3, <1>5, <2>1 DEF Starting, CheckoutMoves
      <3> QED
        BY <3>1 DEF Local
    <2> QED
      BY <1>2, <1>4, <1>5, <2>1 DEF Local
  <1>6. CASE \/ pc[t] = "begin" /\ t = Checkout(o) /\ Starting(t, "select", First(o), "authorize")
             \/ pc[t] = "retry" /\ t = Checkout(o) /\ Starting(t, "wait", Second(o), "authorize")
    <2>1. CASE o = r
      <3>1. CheckoutLaunches(r)
        BY <1>3, <1>6, <2>1 DEF Starting, CheckoutLaunches
      <3> QED
        BY <3>1 DEF Local
    <2> QED
      BY <1>2, <1>4, <1>6, <2>1 DEF Local
  <1>7. CASE pc[t] = "exit" /\ t = Gateway(o) /\ Only(t, "leaving")
    <2>1. t[2] # "checkout" /\ ~IsAttempt(t)
      BY <1>7, ThreadsDiffer DEF IsAttempt, Attempts
    <2>2. Goes(t, "leaving")
      BY <1>7, <2>1 DEF Goes, Only
    <2> QED
      BY <2>2, GoesIsLocal
  <1>8. CASE /\ t = Checkout(o)
             /\ \/ pc[t] = "timeout" /\ Only(t, "retry")
                \/ pc[t] = "end" /\ Only(t, "returned")
    <2>1. ~IsAttempt(t)
      BY <1>8, ThreadsDiffer DEF IsAttempt, Attempts
    <2>2. PICK p : /\ Only(t, p)
                   /\ (pc[t] = "timeout" /\ p = "retry") \/ (pc[t] = "end" /\ p = "returned")
      BY <1>8
    <2>3. Goes(t, p)
      BY <2>1, <2>2 DEF Goes, Only
    <2> QED
      BY <2>3, GoesIsLocal
  <1>9. CASE /\ IsAttempt(t)
             /\ \/ pc[t] = "started" /\ Only(t, "sleep")
                \/ pc[t] = "charged" /\ Only(t, "commit")
                \/ pc[t] = "effect" /\ Only(t, "ok")
    <2>1. t[2] # "checkout"
      BY <1>9 DEF IsAttempt, Attempts
    <2>2. PICK p : /\ Only(t, p)
                   /\ \/ pc[t] = "started" /\ p = "sleep"
                      \/ pc[t] = "charged" /\ p = "commit"
                      \/ pc[t] = "effect" /\ p = "ok"
      BY <1>9
    <2>3. Goes(t, p)
      BY <2>1, <2>2 DEF Goes, Only, Strides
    <2> QED
      BY <2>3, GoesIsLocal
  <1> QED
    BY <1>1, <1>2, <1>5, <1>6, <1>7, <1>8, <1>9, SucceedingIs

-----------------------------------------------------------------------------
(* Events stay whole.                                                      *)

\* The events of a request that its checkout and its attempts are inside of.
LEMMA AnsweredEvent ==
    ASSUME NEW r \in Requests, Answering(r), Has(r, "checkout", "begin")
    PROVE  /\ api[Checkout(r)] # "idle" => Has(r, "checkout", pc[Checkout(r)])
           /\ api[First(r)] # "idle" => Has(r, "first", pc[First(r)])
           /\ api[Second(r)] # "idle" => Has(r, "second", pc[Second(r)])
  BY ThreadsDiffer DEF Answering, Has, EventAt, EventOf

\* A step of a request's threads passes no event that is not stored.
LEMMA LocalKeeps ==
    ASSUME NEW r \in Requests, Stays(r), Answering(r), Local(r), UNCHANGED events
    PROVE  Stays(r)'
  <1> DEFINE c == Checkout(r)  f == First(r)  s == Second(r)
  <1>1. /\ c # f /\ c # s /\ f # s /\ f[2] = "first" /\ s[2] = "second"
    BY ThreadsDiffer
  <1>2. \A role, at : Has(r, role, at)' = Has(r, role, at)
    BY DEF Has, EventAt
  <1>3. Trace(r)'
    <2>1. CASE Still(r) \/ CheckoutMoves(r)
      BY <1>2, <2>1 DEF Stays, Trace, Still, CheckoutMoves, BegunAt
    <2>2. CASE CheckoutLaunches(r)
      BY <1>2, <2>2 DEF Stays, Trace, CheckoutLaunches, BegunAt
    <2>3. CASE AttemptMoves(r)
      BY <1>2, <2>3 DEF Stays, Trace, AttemptMoves, Strides, BegunAt
    <2> QED
      BY <2>1, <2>2, <2>3 DEF Local
  <1>4. NothingEarly(r, f)' /\ NothingEarly(r, s)'
    BY <1>2 DEF Stays, NothingEarly, Local, Still, CheckoutMoves, CheckoutLaunches, AttemptMoves, Strides
  <1>5. ASSUME Has(r, "checkout", "begin")
        PROVE  /\ pc'[c] = "retry" \/ pc'[s] # "idle" => Has(r, "checkout", "timeout")
               /\ pc'[s] # "idle" => Has(r, "checkout", "retry")
               /\ InOrder(r, f)' /\ InOrder(r, s)'
    <2>1. /\ api[c] # "idle" => Has(r, "checkout", pc[c])
          /\ api[f] # "idle" => Has(r, "first", pc[f])
          /\ api[s] # "idle" => Has(r, "second", pc[s])
      BY <1>5, AnsweredEvent
    <2>2. /\ pc[c] = "retry" \/ pc[s] # "idle" => Has(r, "checkout", "timeout")
          /\ pc[s] # "idle" => Has(r, "checkout", "retry")
          /\ InOrder(r, f) /\ InOrder(r, s)
      BY <1>5 DEF Stays, Whole
    <2>3. CASE Still(r)
      BY <1>2, <2>2, <2>3 DEF Still, InOrder
    <2>4. CASE CheckoutMoves(r)
      BY <1>2, <2>1, <2>2, <2>4 DEF CheckoutMoves, InOrder
    <2>5. CASE CheckoutLaunches(r)
      BY <1>2, <2>1, <2>2, <2>5 DEF CheckoutLaunches, InOrder
    <2>6. CASE AttemptMoves(r)
      <3>1. ASSUME Strides(f) PROVE InOrder(r, f)'
        BY <1>1, <1>2, <2>1, <2>2, <3>1 DEF Strides, InOrder
      <3>2. ASSUME Strides(s) PROVE InOrder(r, s)'
        BY <1>1, <1>2, <2>1, <2>2, <3>2 DEF Strides, InOrder
      <3>3. ASSUME pc'[f] = pc[f] PROVE InOrder(r, f)'
        BY <1>2, <2>2, <3>3 DEF InOrder
      <3>4. ASSUME pc'[s] = pc[s] PROVE InOrder(r, s)'
        BY <1>2, <2>2, <3>4 DEF InOrder
      <3>5. pc'[c] = pc[c] /\ (pc'[s] # "idle" => pc[s] # "idle")
        BY <2>6 DEF AttemptMoves, Strides
      <3> QED
        BY <2>2, <2>6, <3>1, <3>2, <3>3, <3>4, <3>5 DEF AttemptMoves
    <2> QED
      BY <2>3, <2>4, <2>5, <2>6 DEF Local
  <1>6. Whole(r)'
    BY <1>2, <1>5 DEF Whole
  <1> QED
    BY <1>3, <1>4, <1>6 DEF Stays

\* A call that is not answered yet has its event still.
LEMMA AnsweringStays ==
    ASSUME NEW r \in Requests, Answering(r), UNCHANGED events,
           \A t \in {Checkout(r), First(r), Second(r)} :
               api'[t] # "idle" => api[t] # "idle" /\ pc'[t] = pc[t]
    PROVE  Answering(r)'
  BY DEF Answering, Has, EventAt, EventOf

\* An event is ingested where its thread is.
LEMMA IngestStays ==
    ASSUME IInv, Joined, NEW r \in Requests, Stays(r), Answering(r), NEW t \in Threads, Ingest(t)
    PROVE  Stays(r)' /\ Answering(r)'
  <1> DEFINE c == Checkout(r)  f == First(r)  s == Second(r)  e == EventOf(t)
  <1>1. PICK o : o = t[1]
    OBVIOUS
  <1>2. /\ {c, f, s} \subseteq Threads /\ c # f /\ c # s /\ f # s
        /\ c[1] = r /\ f[1] = r /\ s[1] = r
        /\ c[2] = "checkout" /\ f[2] = "first" /\ s[2] = "second"
        /\ o \in Requests /\ t \in {Gateway(o), Checkout(o), First(o), Second(o)}
        /\ Gateway(o)[2] = "gateway"
    BY <1>1, ThreadIs, ThreadsDiffer
  <1>3. /\ events' = events \cup {e} /\ UNCHANGED pc /\ pc[t] \in EmitsAt
        /\ \A u \in Threads : api'[u] = IF u = t THEN "detect" ELSE api[u]
    BY DEF Ingest, checkoutVars, IInv, DataOK
  <1>4. e = EventAt(o, t[2], pc[t]) /\ \A u : EventOf(u)' = EventOf(u)
    BY <1>1, <1>3 DEF EventOf, EventAt
  <1>5. \A role, at : Has(r, role, at)' <=>
            Has(r, role, at) \/ (o = r /\ role = t[2] /\ at = pc[t])
    BY <1>3, <1>4 DEF Has, EventAt
  <1> HIDE DEF e
  <1>6. Control /\ (\A u \in Threads : api[u] # "idle" => pc[u] \in EmitsAt)
    BY DEF IInv, Calling
  <1>7. CASE o # r
    <2>1. \A role, at : Has(r, role, at)' <=> Has(r, role, at)
      BY <1>5, <1>7
    <2>2. t \notin {c, f, s}
      BY <1>1, <1>2, <1>7
    <2>3. Stays(r)'
      BY <1>3, <2>1 DEF Stays, Trace, NothingEarly, Whole, InOrder
    <2>4. Answering(r)'
      BY <1>2, <1>3, <1>4, <2>1, <2>2 DEF Answering
    <2> QED
      BY <2>3, <2>4
  <1>8. CASE o = r
    <2>1. /\ pc[t] \in {"entry", "exit"} => t[2] = "gateway"
          /\ pc[t] \in {"begin", "timeout", "retry", "end"} => t = c
          /\ pc[t] \in {"started", "charged", "effect"} => t \in {f, s}
          /\ pc[t] = "exit" => pc[c] = "returned"
      BY <1>1, <1>2, <1>6, <1>8, EmitterIs DEF IsAttempt, Attempts, Joined, ExitAfterReturn
    <2>2. \A role, at : Has(r, role, at)' <=> Has(r, role, at) \/ (role = t[2] /\ at = pc[t])
      BY <1>5, <1>8
    <2>3. /\ pc[c] \in {"idle", "begin"} => pc[f] = "idle"
          /\ pc[c] \in {"idle", "begin", "select", "timeout", "retry"} => pc[s] = "idle"
      BY <1>6 DEF Control
    <2>4. ASSUME pc[t] = "end" PROVE Has(r, "checkout", "timeout") => pc[s] # "idle"
      BY <2>1, <2>4 DEF Stays, Trace
    <2>5. Trace(r)'
      BY <1>2, <1>3, <2>1, <2>2, <2>3 DEF Stays, Trace
    <2>6. NothingEarly(r, f)' /\ NothingEarly(r, s)'
      BY <1>2, <1>3, <2>1, <2>2 DEF Stays, NothingEarly, EmitsAt
    <2>7. Whole(r)' /\ Answering(r)'
      <3>1. CASE pc[t] = "begin"
        <4>1. t = c /\ pc[f] = "idle" /\ pc[s] = "idle"
          BY <2>1, <2>3, <3>1
        <4>2. api[f] = "idle" /\ api[s] = "idle"
          BY <1>2, <1>6, <4>1 DEF EmitsAt
        <4>3. Whole(r)'
          BY <1>2, <1>3, <2>2, <2>6, <3>1, <4>1 DEF Whole, InOrder, NothingEarly
        <4>4. Answering(r)'
          BY <1>2, <1>3, <1>4, <4>1, <4>2 DEF Answering, e
        <4> QED
          BY <4>3, <4>4
      <3>2. CASE pc[t] # "begin"
        <4>1. Has(r, "checkout", "begin")' <=> Has(r, "checkout", "begin")
          BY <2>2, <3>2
        <4>2. Answering(r)'
          BY <1>2, <1>3, <1>4, <4>1 DEF Answering, e
        <4>3. Whole(r)'
          <5>1. ASSUME Has(r, "checkout", "begin"), NEW u \in {f, s}, InOrder(r, u)
                PROVE  InOrder(r, u)'
            BY <1>2, <1>3, <2>1, <2>2, <5>1 DEF InOrder, EmitsAt
          <5> QED
            BY <1>3, <2>2, <4>1, <5>1 DEF Stays, Whole
        <4> QED
          BY <4>2, <4>3
      <3> QED
        BY <3>1, <3>2
    <2> QED
      BY <2>5, <2>6, <2>7 DEF Stays
  <1> QED
    BY <1>7, <1>8

\* A reset leaves nothing that could be incomplete.
LEMMA ResetStays ==
    ASSUME NEW r \in Requests, Stays(r), events' = {}, UNCHANGED pc
    PROVE  Stays(r)' /\ Answering(r)'
  BY DEF Stays, Trace, NothingEarly, Whole, Answering, Has

\* Every step keeps the stored events of every request whole.
LEMMA StepTraced ==
    ASSUME IInv, Joined, Traced, [Next]_vars
    PROVE  Traced'
  <1>1. ASSUME \A r \in Requests : Local(r), UNCHANGED events,
               \A t \in Threads : api'[t] # "idle" => api[t] # "idle" /\ pc'[t] = pc[t]
        PROVE  Traced'
    <2>1. ASSUME NEW r \in Requests PROVE Stays(r)' /\ Answering(r)'
      BY <1>1, LocalKeeps, AnsweringStays, ThreadIs DEF Traced
    <2> QED
      BY <1>1, <2>1 DEF Traced, Recordable
  <1>2. ASSUME UNCHANGED pc PROVE \A r \in Requests : Local(r)
    BY <1>2 DEF Local, Still
  <1>3. ASSUME UNCHANGED <<pc, events, api>> PROVE Traced'
    BY <1>1, <1>2, <1>3
  <1>4. ASSUME NEW r \in Requests, RequestStep(r) \/ Arrive(r) \/ SetLatencyFails(r)
        PROVE  Traced'
    <2>1. UNCHANGED <<events, api>>
      BY <1>4 DEF RequestStep, Arrive, LowerLatency, Resume, Leave, AbandonLatency,
         SetLatencyFails, TimerFires, Join, coreVars, callVars
    <2>2. PICK t \in Threads, p \in Places : Hop(t, p) /\ pc[t] \notin EmitsAt
      BY <1>4, RequestHops
    <2>3. \A u \in Threads : api[u] # "idle" => pc'[u] = pc[u]
      BY <2>2 DEF Hop, IInv, Calling, Control
    <2> QED
      BY <1>1, <1>4, <2>1, <2>3, RequestLocal
  <1>5. ASSUME NEW t \in Threads, pc[t] \in EmitsAt \cup {"authorize", "commit"}, Moves(t),
               api' = [api EXCEPT ![t] = "idle"], UNCHANGED events, \A r \in Requests : Local(r)
        PROVE  Traced'
    <2>1. \A u \in Threads : api'[u] = IF u = t THEN "idle" ELSE api[u]
      BY <1>5 DEF IInv, DataOK
    <2>2. ASSUME NEW u \in Threads, api'[u] # "idle" PROVE api[u] # "idle" /\ pc'[u] = pc[u]
      BY <1>5, <2>1, <2>2 DEF IInv, Calling, Moves, EmitsAt
    <2> QED
      BY <1>1, <1>5, <2>2
  <1>6. ASSUME NEW t \in Threads, pc[t] \in EmitsAt \cup {"authorize", "commit"}, Failing(t),
               api' = [api EXCEPT ![t] = "idle"], UNCHANGED events
        PROVE  Traced'
    <2>1. Moves(t)
      BY <1>6, FailingKeeps DEF IInv
    <2> QED
      BY <1>5, <1>6, <2>1, FailureLocal
  <1>7. ASSUME NEW t \in Threads, CallFails(t) PROVE Traced'
    BY <1>6, <1>7 DEF CallFails
  <1>8. ASSUME NEW t \in Threads, Accepted(t), api[t] # "idle" PROVE Traced'
    <2>1. pc[t] \in EmitsAt
      BY <1>8 DEF IInv, Calling
    <2>2. CASE Failing(t)
      BY <1>6, <1>8, <2>1, <2>2 DEF Accepted
    <2>3. CASE Succeeding(t)
      <3>1. Moves(t)
        BY <2>1, <2>3, SucceedingKeeps DEF IInv
      <3> QED
        BY <1>5, <1>8, <2>1, <2>3, <3>1, SuccessLocal DEF Accepted
    <2> QED
      BY <1>8, <2>2, <2>3 DEF Accepted
  <1>9. ASSUME NEW t \in Threads, Ingest(t) PROVE Traced'
    <2>1. \A r \in Requests : Stays(r)' /\ Answering(r)'
      BY <1>9, IngestStays DEF Traced
    <2>2. Recordable(EventOf(t))
      <3>1. EventOf(t).role = t[2] /\ EventOf(t).at = pc[t] /\ pc[t] \in EmitsAt
        BY <1>9 DEF EventOf, Ingest
      <3>2. /\ pc[t] \in {"entry", "exit"} => t[2] = "gateway"
            /\ pc[t] \in {"begin", "timeout", "retry", "end"} => t[2] = "checkout"
            /\ pc[t] \in {"started", "charged", "effect"} => t[2] \in Attempts
        BY EmitterIs, ThreadIs, ThreadsDiffer DEF IInv, IsAttempt
      <3> QED
        BY <3>1, <3>2 DEF Recordable, EmitsAt, Attempts
    <2> QED
      BY <1>9, <2>1, <2>2 DEF Ingest, Traced, Recordable
  <1>10. ASSUME NEW t \in Threads, DetectIncident(t) \/ CheckNodes(t) PROVE Traced'
    <2>1. UNCHANGED <<pc, events>>
      BY <1>10 DEF DetectIncident, CheckNodes, checkoutVars, coreVars
    <2>2. \A u \in Threads : api'[u] # "idle" => api[u] # "idle"
      BY <1>10 DEF DetectIncident, CheckNodes, IInv, DataOK
    <2> QED
      BY <1>1, <1>2, <2>1, <2>2
  <1>11. ASSUME NEW t \in Threads, ThreadStep(t) PROVE Traced'
    <2>1. CASE DetectNothing(t) \/ NodesMissing(t) \/ PutIncident(t)
      BY <1>8, <2>1 DEF DetectNothing, NodesMissing, PutIncident, Inserts
    <2>2. CASE Abort(t)
      BY <1>7, <2>2 DEF Abort
    <2>3. CASE IsAttempt(t) /\ (Authorize(t) \/ Wake(t) \/ Commit(t))
      <3>1. UNCHANGED <<events, api>>
        BY <2>3 DEF Authorize, Wake, Commit, coreVars, callVars
      <3>2. PICK p \in Places : Hop(t, p) /\ pc[t] \notin EmitsAt
        BY <2>3, AttemptHops
      <3>3. \A u \in Threads : api[u] # "idle" => pc'[u] = pc[u]
        BY <3>2 DEF Hop, IInv, Calling, Control
      <3> QED
        BY <1>1, <2>3, <3>1, <3>3, AttemptLocal
    <2> QED
      BY <1>9, <1>10, <1>11, <2>1, <2>2, <2>3 DEF ThreadStep
  <1>12. CASE Reset
    BY <1>12, ResetStays DEF Reset, checkoutVars, Traced
  <1>13. CASE UNCHANGED vars \/ \E r \in Requests : Disconnect(r)
    BY <1>3, <1>13 DEF Disconnect, vars, checkoutVars, coreVars, callVars
  <1>14. CASE Lose
    BY <1>4, <1>7, <1>8, <1>14 DEF Lose, DetectionFails
  <1> QED
    BY <1>4, <1>11, <1>12, <1>13, <1>14 DEF Next, Step

\* The stored events of every request are whole.
LEMMA AlwaysTraced == Spec => []Traced
  <1>1. Init => Traced
    BY ThreadIs DEF Init, Traced, Stays, Trace, NothingEarly, Whole, Answering, Has, BegunAt
  <1> QED
    BY <1>1, Invariance, AlwaysJoined, StepTraced, PTL DEF Spec

-----------------------------------------------------------------------------
(* What is detected is whole.                                              *)

\* No two requests name one checkout.
Distinct == \A r, o \in Requests : ExecutionOf[r] = ExecutionOf[o] => r = o

\* An event is named by what it records.
LEMMA EventIs ==
    ASSUME NEW e \in Event
    PROVE  e = EventAt(e.req, e.role, e.at) /\ e.req \in Requests /\ e.role \in Roles
  BY DEF Event, EventAt

\* Evidence that matches, without a dangling edge, holds the scenario.
LEMMA ScenarioStored ==
    ASSUME Distinct, IInv, Traced, NEW r \in Requests, Detectable(ExecutionOf[r])
    PROVE  /\ Scenario(r) \subseteq Stored(ExecutionOf[r])
           /\ \A e \in Stored(ExecutionOf[r]) : Recordable(e)
  <1> DEFINE S == Stored(ExecutionOf[r])  E == {e \in S : e.at = "effect"}
  <1>1. /\ S \subseteq events
        /\ \A e \in S : e \in Event /\ e.req = r /\ Recordable(e) /\ e = EventAt(r, e.role, e.at)
    <2>1. \A e \in S : e \in events /\ ExecutionOf[e.req] = ExecutionOf[r]
      BY DEF Stored
    <2>2. \A e \in events : e \in Event /\ Recordable(e)
      BY DEF Traced, IInv, DataOK
    <2> QED
      BY <2>1, <2>2, EventIs DEF Distinct
  <1>2. ASSUME NEW role, NEW at, Has(r, role, at) PROVE EventAt(r, role, at) \in S
    BY <1>2 DEF Has, Stored, EventAt
  <1>3. /\ \E e \in S : e.at = "timeout"
        /\ \E e \in S : e.at = "retry"
        /\ Cardinality(E) >= 2
        /\ \A e \in S : ParentOf(e) \subseteq S
    BY DEF Detectable, OracleMatches, EdgesResolve
  <1>4. IsFiniteSet(E)
    <2>1. E \subseteq events
      BY <1>1
    <2> QED
      BY <2>1, FS_Subset DEF IInv, Evidence, EventsOK
  <1>5. PICK a, b \in E : a # b
    BY <1>3, <1>4, TwoMembers
  <1> HIDE DEF S
  <1>6. EventAt(r, "checkout", "timeout") \in S
    BY <1>1, <1>3, EventIs DEF Recordable, Roles
  <1>7. EventAt(r, "checkout", "retry") \in S
    BY <1>1, <1>3, EventIs DEF Recordable, Roles
  <1>8. EventAt(r, "first", "effect") \in S /\ EventAt(r, "second", "effect") \in S
    <2>1. ASSUME NEW e \in E PROVE e.role \in Attempts /\ e = EventAt(r, e.role, "effect") /\ e \in S
      BY <1>1, EventIs DEF Recordable, Roles
    <2>2. a.role # b.role
      BY <1>5, <2>1
    <2> QED
      BY <2>1, <2>2 DEF Attempts
  <1>9. BeginEvent(r) \in S
    BY <1>3, <1>6 DEF ParentOf, EventAt
  <1>10. EntryEvent(r) \in S
    BY <1>3, <1>9 DEF ParentOf, BeginEvent
  <1>11. /\ Has(r, "checkout", "begin")
         /\ Has(r, "first", "effect") /\ Has(r, "second", "effect")
    BY <1>1, <1>8, <1>9 DEF Has, BeginEvent, EventAt
  <1>12. /\ Has(r, "first", "started") /\ Has(r, "first", "charged")
         /\ Has(r, "second", "started") /\ Has(r, "second", "charged")
    <2>1. InOrder(r, First(r)) /\ InOrder(r, Second(r))
      BY <1>11 DEF Traced, Stays, Whole
    <2>2. First(r)[2] = "first" /\ Second(r)[2] = "second"
      BY ThreadsDiffer
    <2> QED
      BY <1>11, <2>1, <2>2 DEF InOrder
  <1>13. /\ EventAt(r, "first", "started") \in S /\ EventAt(r, "first", "charged") \in S
         /\ EventAt(r, "second", "started") \in S /\ EventAt(r, "second", "charged") \in S
    BY <1>2, <1>12
  <1>14. ASSUME NEW e \in Scenario(r) PROVE e \in S
    <2>1. CASE e \in {EntryEvent(r), BeginEvent(r)}
      BY <1>9, <1>10, <2>1
    <2>2. CASE e \in [req : {r}, role : {"checkout"}, at : {"timeout", "retry"}]
      <3>1. e = EventAt(r, "checkout", "timeout") \/ e = EventAt(r, "checkout", "retry")
        BY <2>2 DEF EventAt
      <3> QED
        BY <1>6, <1>7, <3>1
    <2>3. CASE e \in [req : {r}, role : Attempts, at : {"started", "charged", "effect"}]
      <3>1. /\ e = EventAt(r, e.role, e.at) /\ e.role \in {"first", "second"}
            /\ e.at \in {"started", "charged", "effect"}
        BY <2>3 DEF EventAt, Attempts
      <3> QED
        BY <1>8, <1>13, <3>1
    <2> QED
      BY <2>1, <2>2, <2>3 DEF Scenario
  <1> QED
    BY <1>1, <1>14 DEF S

\* What an insertion does to incidents.
LEMMA InsertionIs ==
    ASSUME IInv, NEW t \in Threads, Inserts(t)
    PROVE  /\ t[1] \in Requests /\ ExecutionOf[t[1]] \in Executions /\ seen[t] # {}
           /\ api[t] = "insert"
           /\ \A x \in Executions :
                \/ incidents'[x] = incidents[x]
                \/ /\ x = ExecutionOf[t[1]] /\ incidents[x] = {}
                   /\ incidents'[x] = seen[t]
  <1>1. PICK x : x = ExecutionOf[t[1]]
    OBVIOUS
  <1>2. x \in Executions /\ t[1] \in Requests
    BY <1>1, ThreadIs, RequestAssumption
  <1>3. \/ incidents' = incidents
        \/ incidents[x] = {} /\ incidents' = [incidents EXCEPT ![x] = seen[t]]
    BY <1>1 DEF Inserts
  <1>4. api[t] = "insert" /\ seen[t] # {}
    BY DEF Inserts, IInv, Evidence, SeenOK, OracleMatches
  <1> QED
    BY <1>1, <1>2, <1>3, <1>4 DEF IInv, DataOK

\* What is raised is whole.
LEMMA RaisedStays ==
    ASSUME Distinct, IInv, SeenWhole, RaisedWhole, UNCHANGED incidents \/ \E t \in Threads : Inserts(t)
    PROVE  RaisedWhole'
  <1>1. CASE UNCHANGED incidents
    BY <1>1 DEF RaisedWhole, Detected, EdgesResolve, ParentOf, EntryEvent, BeginEvent, Scenario
  <1>2. CASE \E t \in Threads : Inserts(t)
    <2>1. PICK t \in Threads : Inserts(t)
      BY <1>2
    <2>2. /\ t[1] \in Requests /\ api[t] = "insert"
          /\ \A x \in Executions :
                \/ incidents'[x] = incidents[x]
                \/ x = ExecutionOf[t[1]] /\ incidents'[x] = seen[t]
      BY <2>1, InsertionIs
    <2>3. Scenario(t[1]) \subseteq seen[t] /\ EdgesResolve(seen[t])
      BY <2>2 DEF SeenWhole
    <2>4. ASSUME NEW r \in Requests, incidents'[ExecutionOf[r]] # {}
          PROVE  /\ Scenario(r) \subseteq incidents'[ExecutionOf[r]]
                 /\ EdgesResolve(incidents'[ExecutionOf[r]])
      <3>1. ExecutionOf[r] \in Executions
        BY RequestAssumption
      <3>2. CASE incidents'[ExecutionOf[r]] = incidents[ExecutionOf[r]]
        BY <2>4, <3>2 DEF RaisedWhole, Detected
      <3>3. CASE ExecutionOf[r] = ExecutionOf[t[1]] /\ incidents'[ExecutionOf[r]] = seen[t]
        BY <2>2, <2>3, <3>3 DEF Distinct
      <3> QED
        BY <2>2, <3>1, <3>2, <3>3
    <2>5. \A x \in Executions : incidents'[x] # {} => \E r \in Requests : ExecutionOf[r] = x
      BY <2>2 DEF RaisedWhole, Detected
    <2> QED
      BY <2>4, <2>5 DEF RaisedWhole, Detected, EdgesResolve, ParentOf, EntryEvent, BeginEvent, Scenario
  <1> QED
    BY <1>1, <1>2

\* What a detection goes on with is whole.
LEMMA SeenStays ==
    ASSUME SeenWhole,
           \A t \in Threads : api'[t] \in {"check", "insert"} =>
               api[t] \in {"check", "insert"} /\ seen'[t] = seen[t]
    PROVE  SeenWhole'
  BY DEF SeenWhole, EdgesResolve, Recordable, ParentOf, EntryEvent, BeginEvent, Scenario

\* A detection that finds a match reads the scenario.
LEMMA DetectSees ==
    ASSUME Distinct, IInv, Traced, SeenWhole, NEW t \in Threads, DetectIncident(t)
    PROVE  SeenWhole'
  <1> DEFINE S == Stored(ExecutionOf[t[1]])
  <1>1. t[1] \in Requests
    BY ThreadIs
  <1>2. /\ Scenario(t[1]) \subseteq S /\ EdgesResolve(S)
        /\ \A e \in S : Recordable(e)
    BY <1>1, ScenarioStored DEF DetectIncident, Detectable
  <1>3. \A u \in Threads : /\ api'[u] = IF u = t THEN "check" ELSE api[u]
                           /\ seen'[u] = IF u = t THEN S ELSE seen[u]
    BY DEF DetectIncident, IInv, DataOK
  <1> HIDE DEF S
  <1>4. ASSUME NEW u \in Threads, api'[u] \in {"check", "insert"}
        PROVE  /\ Scenario(u[1]) \subseteq seen'[u] /\ EdgesResolve(seen'[u])
               /\ \A e \in seen'[u] : Recordable(e)
    BY <1>2, <1>3, <1>4 DEF SeenWhole
  <1> QED
    BY <1>4 DEF SeenWhole, EdgesResolve, Recordable, ParentOf, EntryEvent, BeginEvent, Scenario

\* What a step does to calls and incidents.
LEMMA StepCalls ==
    ASSUME IInv, [Next]_vars
    PROVE  /\ Reset \/ UNCHANGED incidents \/ \E t \in Threads : Inserts(t)
           /\ \/ \E t \in Threads : DetectIncident(t)
              \/ \A t \in Threads : api'[t] \in {"check", "insert"} =>
                    api[t] \in {"check", "insert"} /\ seen'[t] = seen[t]
  <1> DEFINE Keep == \A t \in Threads : api'[t] \in {"check", "insert"} =>
                        api[t] \in {"check", "insert"} /\ seen'[t] = seen[t]
             Same == UNCHANGED incidents \/ \E t \in Threads : Inserts(t)
  <1>1. ASSUME UNCHANGED callVars PROVE Keep
    BY <1>1 DEF callVars
  <1>2. ASSUME NEW t \in Threads, api' = [api EXCEPT ![t] = "idle"], seen' = [seen EXCEPT ![t] = {}]
        PROVE  Keep
    BY <1>2 DEF IInv, DataOK
  <1>3. ASSUME NEW r \in Requests, RequestStep(r) \/ Arrive(r) \/ SetLatencyFails(r)
        PROVE  Keep /\ Same
    BY <1>1, <1>3, RequestHops DEF coreVars
  <1>4. ASSUME NEW t \in Threads, CallFails(t) \/ DetectionFails(t) PROVE Keep /\ Same
    BY <1>2, <1>4 DEF CallFails, DetectionFails, Accepted
  <1>5. ASSUME NEW t \in Threads, ThreadStep(t), ~DetectIncident(t) PROVE Keep /\ Same
    <2>1. CASE Ingest(t)
      BY <2>1 DEF Ingest, IInv, DataOK
    <2>2. CASE CheckNodes(t)
      BY <2>2 DEF CheckNodes, coreVars, IInv, DataOK
    <2>3. CASE DetectNothing(t) \/ NodesMissing(t) \/ PutIncident(t)
      BY <1>2, <2>3 DEF DetectNothing, NodesMissing, PutIncident, Accepted
    <2>4. CASE Abort(t)
      BY <1>4, <2>4 DEF Abort
    <2>5. CASE IsAttempt(t) /\ (Authorize(t) \/ Wake(t) \/ Commit(t))
      BY <1>1, <2>5, AttemptHops DEF coreVars
    <2> QED
      BY <1>5, <2>1, <2>2, <2>3, <2>4, <2>5 DEF ThreadStep
  <1>6. ASSUME NEW t \in Threads, DetectIncident(t) PROVE Same
    BY <1>6 DEF DetectIncident, coreVars
  <1>7. CASE Reset
    BY <1>1, <1>7 DEF Reset
  <1>8. CASE UNCHANGED vars \/ \E r \in Requests : Disconnect(r)
    BY <1>1, <1>8 DEF Disconnect, vars, coreVars
  <1>9. CASE Lose
    BY <1>3, <1>4, <1>9 DEF Lose
  <1> QED
    BY <1>3, <1>5, <1>6, <1>7, <1>8, <1>9 DEF Next, Step

\* Detection reads and raises whole scenarios, reset or not.
LEMMA AlwaysWhole == ASSUME Distinct PROVE Spec => [](SeenWhole /\ RaisedWhole)
  <1>1. Init => SeenWhole /\ RaisedWhole
    BY RequestAssumption DEF Init, SeenWhole, RaisedWhole, Detected
  <1>2. IInv /\ Traced /\ (SeenWhole /\ RaisedWhole) /\ [Next]_vars => (SeenWhole /\ RaisedWhole)'
    <2> SUFFICES ASSUME IInv, Traced, SeenWhole, RaisedWhole, [Next]_vars
                 PROVE  SeenWhole' /\ RaisedWhole'
      OBVIOUS
    <2>1. SeenWhole'
      BY StepCalls, SeenStays, DetectSees
    <2>2. CASE Reset
      BY <2>1, <2>2, RequestAssumption DEF Reset, RaisedWhole, Detected
    <2>3. CASE UNCHANGED incidents \/ \E t \in Threads : Inserts(t)
      BY <2>1, <2>3, RaisedStays
    <2> QED
      BY <2>2, <2>3, StepCalls
  <1> QED
    BY <1>1, <1>2, Invariance, AlwaysTraced, PTL DEF Spec

-----------------------------------------------------------------------------
(* Until a reset, the graph is the scenario and no more.                   *)

\* Events of one request that are not of its end are the scenario's.
LEMMA NothingElse ==
    ASSUME NEW r \in Requests, NEW es, es \subseteq Event,
           \A e \in es : e.req = r /\ Recordable(e),
           EventAt(r, "checkout", "end") \notin es, EventAt(r, "gateway", "exit") \notin es
    PROVE  es \subseteq Scenario(r)
  <1> SUFFICES ASSUME NEW e \in es PROVE e \in Scenario(r)
    OBVIOUS
  <1>1. e = EventAt(r, e.role, e.at) /\ e.role \in Roles /\ Recordable(e)
    BY EventIs
  <1>2. CASE e.role = "gateway"
    <2>1. e = EventAt(r, "gateway", "entry")
      BY <1>1, <1>2 DEF Recordable
    <2> QED
      BY <2>1 DEF Scenario, EntryEvent, EventAt
  <1>3. CASE e.role = "checkout"
    <2>1. e = EventAt(r, "checkout", "begin") \/ e = EventAt(r, "checkout", "timeout") \/ e = EventAt(r, "checkout", "retry")
      BY <1>1, <1>3 DEF Recordable
    <2> QED
      BY <2>1 DEF Scenario, BeginEvent, EventAt
  <1>4. CASE e.role \in Attempts
    <2>1. e.at \in {"started", "charged", "effect"}
      BY <1>1, <1>4 DEF Recordable
    <2> QED
      BY <1>1, <1>4, <2>1 DEF Scenario, EventAt
  <1> QED
    BY <1>1, <1>2, <1>3, <1>4 DEF Roles

\* An incident is raised before its request's end is recorded.
LEMMA RaisedStaysExact ==
    ASSUME Distinct, IInv, Kept, SeenWhole, Exact,
           UNCHANGED incidents \/ \E t \in Threads : Inserts(t), blind \subseteq blind'
    PROVE  RaisedExactly'
  <1> SUFFICES ASSUME NEW r \in Requests, Sighted(r)', incidents'[ExecutionOf[r]] # {}
               PROVE  incidents'[ExecutionOf[r]] = Scenario(r)
    BY DEF RaisedExactly, Detected, Scenario, EntryEvent, BeginEvent
  <1>0. Sighted(r)
    BY DEF Sighted
  <1>1. CASE incidents'[ExecutionOf[r]] = incidents[ExecutionOf[r]]
    BY <1>0, <1>1 DEF Exact, RaisedExactly, Detected
  <1>2. CASE incidents'[ExecutionOf[r]] # incidents[ExecutionOf[r]]
    <2>1. PICK t \in Threads : Inserts(t)
      BY <1>2
    <2>2. /\ ExecutionOf[r] = ExecutionOf[t[1]] /\ t[1] \in Requests /\ api[t] = "insert"
          /\ incidents[ExecutionOf[r]] = {} /\ incidents'[ExecutionOf[r]] = seen[t]
      BY <1>2, <2>1, InsertionIs, RequestAssumption
    <2>3. t[1] = r
      BY <2>2 DEF Distinct
    <2>4. /\ seen[t] \subseteq Event /\ seen[t] \subseteq events
          /\ \A e \in seen[t] : ExecutionOf[e.req] = ExecutionOf[r]
      BY <2>2 DEF IInv, DataOK, Evidence, SeenOK, Kept
    <2>5. /\ Scenario(r) \subseteq seen[t]
          /\ \A e \in seen[t] : e.req = r /\ Recordable(e)
      BY <2>2, <2>3, <2>4, EventIs DEF SeenWhole, Distinct
    <2>6. Has(r, "checkout", "timeout")
      BY <2>4, <2>5 DEF Scenario, Has, EventAt
    <2>7. ~Has(r, "checkout", "end") /\ ~Has(r, "gateway", "exit")
      BY <1>0, <2>2, <2>6 DEF Exact, EndDetected, Detected
    <2>8. seen[t] \subseteq Scenario(r)
      BY <2>4, <2>5, <2>7, NothingElse DEF Has
    <2> QED
      BY <2>2, <2>5, <2>8
  <1> QED
    BY <1>1, <1>2

\* The end of a request is recorded after its attempts are done.
LEMMA IngestEnds ==
    ASSUME IInv, Joined, Traced, Recorded, Exact, NEW t \in Threads, Ingest(t)
    PROVE  EndDetected'
  <1> SUFFICES ASSUME NEW r \in Requests, Sighted(r)', Has(r, "checkout", "timeout")',
                      Has(r, "checkout", "end")' \/ Has(r, "gateway", "exit")'
               PROVE  Detected(ExecutionOf[r])
    BY DEF EndDetected, Detected, Ingest
  <1>0. Sighted(r)
    BY DEF Sighted, Ingest
  <1>1. PICK o : o = t[1]
    OBVIOUS
  <1>2. /\ o \in Requests /\ pc[t] \in EmitsAt /\ Control
        /\ events' = events \cup {EventOf(t)} /\ EventOf(t) = EventAt(o, t[2], pc[t])
    BY <1>1, ThreadIs DEF IInv, Ingest, EventOf, EventAt
  <1>3. \A role, at : Has(r, role, at)' <=>
            Has(r, role, at) \/ (o = r /\ role = t[2] /\ at = pc[t])
    BY <1>2 DEF Has, EventAt
  <1>4. /\ pc[t] \in {"timeout", "end"} => t = Checkout(o)
        /\ pc[t] = "exit" => pc[Checkout(o)] = "returned"
    BY <1>1, <1>2, EmitterIs DEF Joined, ExitAfterReturn
  <1>5. Trace(r)
    BY DEF Traced, Stays
  <1>6. CASE Has(r, "checkout", "timeout")
    <2>1. CASE Has(r, "checkout", "end") \/ Has(r, "gateway", "exit")
      BY <1>0, <1>6, <2>1 DEF Exact, EndDetected
    <2>2. CASE o = r /\ pc[t] \in {"end", "exit"}
      <3>1. pc[Checkout(r)] \in {"end", "returned"}
        BY <1>4, <2>2
      <3>2. pc[First(r)] # "idle" /\ pc[Second(r)] # "idle"
        BY <1>5, <1>6, <3>1 DEF Trace, BegunAt
      <3>3. pc[First(r)] = "ok" /\ pc[Second(r)] = "ok"
        BY <3>1, <3>2 DEF Joined, JoinedAll, Launched
      <3>4. ~EffectBlind(r)
        BY <1>0 DEF Sighted, EffectBlind, EventAt
      <3> QED
        BY <3>3, <3>4 DEF Recorded, Answered, AnsweredTo
    <2> QED
      BY <1>3, <2>1, <2>2
  <1>7. CASE o = r /\ pc[t] = "timeout"
    <2>1. pc[Checkout(r)] = "timeout"
      BY <1>4, <1>7
    <2>2. ~Has(r, "checkout", "end") /\ ~Has(r, "gateway", "exit")
      BY <1>5, <2>1 DEF Trace
    <2> QED
      BY <1>3, <1>7, <2>2
  <1> QED
    BY <1>3, <1>6, <1>7

\* What a step does to the stored events and to the failures of detection.
LEMMA StepEvents ==
    ASSUME [Next]_vars
    PROVE  /\ Reset \/ UNCHANGED events \/ \E t \in Threads : Ingest(t)
           /\ blind \subseteq blind'
  <1>1. ASSUME NEW r \in Requests,
               RequestStep(r) \/ Arrive(r) \/ Disconnect(r) \/ SetLatencyFails(r)
        PROVE  UNCHANGED <<events, blind>>
    BY <1>1 DEF RequestStep, Arrive, LowerLatency, Resume, Leave, AbandonLatency, SetLatencyFails,
       TimerFires, Join, Disconnect, coreVars
  <1>2. ASSUME NEW t \in Threads, CallFails(t) \/ DetectionFails(t)
        PROVE  UNCHANGED events /\ blind \subseteq blind'
    BY <1>2 DEF CallFails, DetectionFails, Accepted
  <1>3. ASSUME NEW t \in Threads, ThreadStep(t), ~Ingest(t)
        PROVE  UNCHANGED events /\ blind \subseteq blind'
    BY <1>2, <1>3 DEF ThreadStep, DetectNothing, DetectIncident, CheckNodes, NodesMissing, PutIncident,
       Accepted, Abort, Authorize, Wake, Commit, coreVars
  <1>4. ASSUME NEW t \in Threads, Ingest(t) PROVE UNCHANGED blind
    BY <1>4 DEF Ingest
  <1>5. CASE Lose
    BY <1>1, <1>2, <1>5 DEF Lose
  <1>6. CASE Reset \/ UNCHANGED vars
    BY <1>6 DEF Reset, vars, coreVars
  <1> QED
    BY <1>1, <1>3, <1>4, <1>5, <1>6 DEF Next, Step

\* Until a reset every step keeps incidents to their scenarios.
LEMMA StepExact ==
    ASSUME Distinct, IInv, Joined, Traced, SeenWhole, resets = 0 => Recorded,
           resets = 0 => Exact, [Next]_vars, resets' = 0
    PROVE  Exact'
  <1>1. ~Reset
    BY DEF Reset, IInv, DataOK
  <1>2. resets = 0
    BY <1>1 DEF Next, Step, RequestStep, ThreadStep, Ingest, DetectNothing, DetectIncident,
       CheckNodes, NodesMissing, PutIncident, Accepted, Arrive, LowerLatency, Resume, Leave,
       SetLatencyFails, AbandonLatency, TimerFires, Join, Authorize, Wake, Commit, CallFails,
       DetectionFails, Abort, Lose, Disconnect, vars
  <1>3. Recorded /\ Exact
    BY <1>2
  <1>4. UNCHANGED incidents \/ \E t \in Threads : Inserts(t)
    BY <1>1, StepCalls
  <1>5. RaisedExactly'
    BY <1>3, <1>4, StepEvents, RaisedStaysExact DEF Recorded
  <1>6. CASE UNCHANGED events
    <2> SUFFICES ASSUME NEW r \in Requests, Sighted(r)', Has(r, "checkout", "timeout")',
                        Has(r, "checkout", "end")' \/ Has(r, "gateway", "exit")'
                 PROVE  Detected(ExecutionOf[r])'
      BY <1>5 DEF Exact, EndDetected
    <2>1. Sighted(r)
      BY StepEvents DEF Sighted
    <2>2. Detected(ExecutionOf[r])
      BY <1>3, <1>6, <2>1 DEF Exact, EndDetected, Has, EventAt
    <2> QED
      BY <1>4, <2>2, DetectedStays
  <1>7. CASE \E t \in Threads : Ingest(t)
    BY <1>3, <1>5, <1>7, IngestEnds DEF Exact
  <1> QED
    BY <1>1, <1>6, <1>7, StepEvents

\* The graph of an incident (GraphIsTheScenario, detect.go:29) is the ten events of one golden
\* checkout: never a part of them, whatever a reset removes between two calls, and, until a
\* reset and while no detection of the execution fails, nothing beside them, whichever
\* thread's detection comes first.
THEOREM GraphsAreScenarios ==
    ASSUME Distinct PROVE Spec => []GraphIsTheScenario
  <1>1. Init => (resets = 0 => Exact)
    <2> SUFFICES ASSUME Init PROVE Exact
      OBVIOUS
    <2>1. \A r \in Requests : ExecutionOf[r] \in Executions
      BY RequestAssumption
    <2> QED
      BY <2>1 DEF Init, Exact, EndDetected, RaisedExactly, Detected, Has
  <1>2. /\ IInv /\ Joined /\ Traced /\ (SeenWhole /\ RaisedWhole) /\ (resets = 0 => Recorded)
        /\ (resets = 0 => Exact) /\ [Next]_vars
        => (resets = 0 => Exact)'
    BY StepExact
  <1>3. RaisedWhole /\ (resets = 0 => Exact) => GraphIsTheScenario
    <2> SUFFICES ASSUME RaisedWhole, resets = 0 => Exact, NEW x \in Executions, Detected(x)
                 PROVE  \E r \in Requests :
                          /\ Scenario(r) \subseteq incidents[x]
                          /\ EdgesResolve(incidents[x])
                          /\ resets = 0 /\ (\A e \in blind : ExecutionOf[e.req] # x)
                                => incidents[x] = Scenario(r)
      BY DEF GraphIsTheScenario
    <2>1. PICK r \in Requests : ExecutionOf[r] = x
      BY DEF RaisedWhole
    <2> QED
      BY <2>1 DEF RaisedWhole, Exact, RaisedExactly, Sighted
  <1>4. Spec => [](SeenWhole /\ RaisedWhole)
    BY AlwaysWhole
  <1> QED
    BY <1>1, <1>2, <1>3, <1>4, Invariance, AlwaysJoined, AlwaysTraced, AlwaysRecorded, PTL DEF Spec
=============================================================================
