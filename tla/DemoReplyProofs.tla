--------------------------- MODULE DemoReplyProofs ---------------------------
(***************************************************************************)
(* Proofs about the gateway's answer: it counts the effects, an answer of  *)
(* two attempts means that their incident is stored, and a healthy control *)
(* leaves no evidence of a failure, beside any number of faulted checkouts.*)
(*                                                                         *)
(* Joined follows the answer back to the attempts: the gateway exits after *)
(* the checkout has returned, which has joined every attempt it launched,  *)
(* and an attempt that is done has its effect.  Recorded follows events:   *)
(* until a reset, what a thread has passed is stored, its parents first,   *)
(* so that each detection after the second effect, the exit event's being  *)
(* the last, finds a complete graph, unless it fails itself.               *)
(***************************************************************************)
EXTENDS DemoCheckoutProofs

-----------------------------------------------------------------------------
(* The invariants.                                                         *)

OkHasEffect == \A t \in Threads : pc[t] = "ok" => t \in effects

JoinedAll ==
    \A r \in Requests : pc[Checkout(r)] \in {"end", "returned"} =>
        \A t \in Launched(r) : pc[t] = "ok"

ExitAfterReturn == \A r \in Requests : pc[Gateway(r)] = "exit" => pc[Checkout(r)] = "returned"

ReplyAfterReturn ==
    \A r \in Requests : reply[r] # 0 =>
        pc[Checkout(r)] = "returned" /\ reply[r] = Cardinality(Launched(r))

Joined == OkHasEffect /\ JoinedAll /\ ExitAfterReturn /\ ReplyAfterReturn

-----------------------------------------------------------------------------
(* How threads move.                                                       *)

Places == GatewayAt \cup CheckoutAt \cup AttemptAt

\* A step of one thread other than the success of Record.
Hop(t, p) ==
    /\ pc' = [pc EXCEPT ![t] = p]
    /\ pc[t] \notin {"ok", "returned"} /\ p \notin {"ok", "returned", "retry", "idle"}
    /\ p = "end" => \A u \in Launched(t[1]) : pc[u] = "ok"
    /\ p = "exit" => pc[Checkout(t[1])] = "returned"
    /\ t[2] # "gateway" => pc[t] # "idle"
    /\ t[2] = "checkout" /\ p # "failed" => pc[t] \in {"select", "wait"}

\* The steps of the gateway, the checkout and the attempts are hops.
LEMMA RequestHops ==
    ASSUME IInv, NEW r \in Requests,
           RequestStep(r) \/ Arrive(r) \/ SetLatencyFails(r)
    PROVE  /\ \E t \in Threads, p \in Places : Hop(t, p) /\ pc[t] \notin EmitsAt
           /\ UNCHANGED <<effects, reply, coreVars, callVars, blind>>
  <1> DEFINE g == Gateway(r)  c == Checkout(r)
  <1>1. /\ g \in Threads /\ g[1] = r /\ g[2] = "gateway"
        /\ c \in Threads /\ c[1] = r /\ c[2] = "checkout"
    BY ThreadIs, ThreadsDiffer
  <1>2. UNCHANGED <<effects, reply, coreVars, callVars, blind>>
    BY DEF RequestStep, Arrive, LowerLatency, Resume, Leave, AbandonLatency, SetLatencyFails,
           TimerFires, Join
  <1>3. CASE Arrive(r) \/ LowerLatency(r) \/ Resume(r) \/ Leave(r) \/ SetLatencyFails(r)
    <2>1. PICK p : /\ p \in {"lower", "entry", "exit", "leaving", "left"}
                   /\ p = "exit" => pc[c] = "returned"
                   /\ pc' = [pc EXCEPT ![g] = p]
      BY <1>3 DEF Arrive, LowerLatency, Resume, Leave, SetLatencyFails
    <2>2. pc[g] \in {"idle", "lower", "calling", "leaving"}
      BY <1>3 DEF Arrive, LowerLatency, Resume, Leave, SetLatencyFails
    <2>3. Hop(g, p) /\ p \in Places /\ pc[g] \notin EmitsAt
      BY <1>1, <2>1, <2>2 DEF Hop, EmitsAt, Places, GatewayAt, CheckoutAt, AttemptAt
    <2> QED
      BY <1>1, <1>2, <2>3
  <1>4. CASE TimerFires(r) \/ Join(r)
    <2>1. PICK p : /\ p \in {"timeout", "end", "failed"}
                   /\ p = "end" => \A u \in Launched(r) : pc[u] = "ok"
                   /\ pc' = [pc EXCEPT ![c] = p]
      BY <1>4 DEF TimerFires, Join
    <2>2. pc[c] \in {"select", "wait"}
      BY <1>4 DEF TimerFires, Join
    <2>3. Hop(c, p) /\ p \in Places /\ pc[c] \notin EmitsAt
      BY <1>1, <2>1, <2>2 DEF Hop, EmitsAt, Places, GatewayAt, CheckoutAt, AttemptAt
    <2> QED
      BY <1>1, <1>2, <2>3
  <1> QED
    BY <1>3, <1>4 DEF RequestStep, AbandonLatency

\* So are those of an attempt outside Record.
LEMMA AttemptHops ==
    ASSUME NEW t \in Threads, IsAttempt(t), Authorize(t) \/ Wake(t) \/ Commit(t)
    PROVE  /\ \E p \in Places : Hop(t, p) /\ pc[t] \notin EmitsAt
           /\ effects \subseteq effects' /\ UNCHANGED <<reply, coreVars, callVars, blind>>
  <1>1. PICK p : p \in {"started", "charged", "effect"} /\ pc' = [pc EXCEPT ![t] = p]
    BY DEF Authorize, Wake, Commit
  <1>2. pc[t] \in {"authorize", "sleep", "commit"}
    BY DEF Authorize, Wake, Commit
  <1>3. Hop(t, p) /\ p \in Places /\ pc[t] \notin EmitsAt
    BY <1>1, <1>2 DEF Hop, Places, GatewayAt, CheckoutAt, AttemptAt, EmitsAt, IsAttempt, Attempts
  <1> QED
    BY <1>3 DEF Authorize, Wake, Commit

\* And the failure of a call.
LEMMA FailureHops ==
    ASSUME NEW t \in Threads, pc[t] \in EmitsAt \cup {"authorize", "commit"}, Failing(t)
    PROVE  (\E p \in Places : Hop(t, p)) /\ UNCHANGED reply
  <1>1. PICK p : p = AfterError(t)
    OBVIOUS
  <1>2. p \in {"leaving", "failed", "err"}
    BY <1>1 DEF AfterError
  <1>3. Hop(t, p) /\ p \in Places
    BY <1>1, <1>2 DEF Hop, Failing, EmitsAt, AfterError, Places, GatewayAt, CheckoutAt, AttemptAt
  <1> QED
    BY <1>3 DEF Failing

\* A hop keeps what was joined.
LEMMA HopKeeps ==
    ASSUME IInv, Joined, NEW t \in Threads, NEW p \in Places, Hop(t, p),
           effects \subseteq effects', UNCHANGED reply
    PROVE  Joined' /\ \A r \in Requests : Launched(r)' = Launched(r)
  <1>1. \A u \in Threads : pc'[u] = IF u = t THEN p ELSE pc[u]
    BY DEF IInv, Control, Hop
  <1>2. OkHasEffect'
    BY <1>1 DEF Joined, OkHasEffect, Hop
  <1>3. ASSUME NEW r \in Requests PROVE Launched(r)' = Launched(r)
    <2>1. First(r) \in Threads /\ Second(r) \in Threads
          /\ First(r)[2] # "gateway" /\ Second(r)[2] # "gateway"
      BY ThreadIs, ThreadsDiffer
    <2>2. \A u \in {First(r), Second(r)} : pc'[u] # "idle" <=> pc[u] # "idle"
      BY <1>1, <2>1 DEF Hop
    <2> QED
      BY <2>2 DEF Launched
  <1>4. ASSUME NEW r \in Requests
        PROVE  /\ Checkout(r) \in Threads /\ Checkout(r)[1] = r
               /\ Gateway(r) \in Threads /\ Gateway(r)[1] = r
               /\ \A u \in Launched(r) : u \in Threads
    BY ThreadIs, ThreadsDiffer DEF Launched
  <1>5. ASSUME NEW r \in Requests, pc'[Checkout(r)] \in {"end", "returned"}, NEW u \in Launched(r)
        PROVE  pc'[u] = "ok"
    <2>1. pc[u] = "ok"
      BY <1>1, <1>4, <1>5 DEF Joined, JoinedAll, Hop
    <2> QED
      BY <1>1, <1>4, <2>1 DEF Hop
  <1>6. JoinedAll'
    BY <1>3, <1>5 DEF JoinedAll
  <1>7. \A r \in Requests : pc[Checkout(r)] = "returned" => pc'[Checkout(r)] = "returned"
    BY <1>1, <1>4 DEF Hop
  <1>8. ExitAfterReturn'
    BY <1>1, <1>4, <1>7 DEF Joined, ExitAfterReturn, Hop
  <1>9. ReplyAfterReturn'
    BY <1>3, <1>7 DEF Joined, ReplyAfterReturn
  <1> QED
    BY <1>2, <1>3, <1>6, <1>8, <1>9 DEF Joined

\* A hop ends no attempt and no checkout.
LEMMA HopEnds ==
    ASSUME IInv, NEW t \in Threads, NEW p \in Places, Hop(t, p)
    PROVE  \A u \in Threads : pc'[u] \in {"ok", "returned"} => pc'[u] = pc[u]
  BY DEF IInv, Control, Hop

\* Only thread t moves.
Only(t, p) == \A u \in Threads : pc'[u] = IF u = t THEN p ELSE pc[u]

\* Thread t moves and starts thread u.
Starting(t, p, u, q) ==
    /\ u \in Threads /\ u # t /\ pc[u] = "idle"
    /\ \A v \in Threads : pc'[v] = IF v = u THEN q ELSE IF v = t THEN p ELSE pc[v]

\* The success of Record, event by event.
LEMMA SucceedingIs ==
    ASSUME Control, NEW t \in Threads, pc[t] \in EmitsAt, Succeeding(t), NEW r, r = t[1]
    PROVE  \/ /\ pc[t] = "entry" /\ t = Gateway(r) /\ UNCHANGED reply
              /\ Starting(t, "calling", Checkout(r), "begin")
           \/ /\ pc[t] = "begin" /\ t = Checkout(r) /\ UNCHANGED reply
              /\ Starting(t, "select", First(r), "authorize")
           \/ /\ pc[t] = "retry" /\ t = Checkout(r) /\ UNCHANGED reply
              /\ Starting(t, "wait", Second(r), "authorize")
           \/ /\ pc[t] = "exit" /\ t = Gateway(r) /\ Only(t, "leaving")
              /\ reply' = [reply EXCEPT ![r] = Cardinality(Launched(r))]
           \/ pc[t] = "timeout" /\ t = Checkout(r) /\ Only(t, "retry") /\ UNCHANGED reply
           \/ pc[t] = "end" /\ t = Checkout(r) /\ Only(t, "returned") /\ UNCHANGED reply
           \/ pc[t] = "started" /\ IsAttempt(t) /\ Only(t, "sleep") /\ UNCHANGED reply
           \/ pc[t] = "charged" /\ IsAttempt(t) /\ Only(t, "commit") /\ UNCHANGED reply
           \/ pc[t] = "effect" /\ IsAttempt(t) /\ Only(t, "ok") /\ UNCHANGED reply
  <1>0. r \in Requests
    BY ThreadIs
  <1>1. r \in Requests /\ {Checkout(r), First(r), Second(r)} \subseteq Threads
    BY <1>0, ThreadIs
  <1>2. pc[t] # "exit" => UNCHANGED reply
    BY DEF Succeeding
  <1>3. CASE pc[t] = "entry"
    <2>1. t = Gateway(r) /\ Checkout(r) # t
      BY <1>3, EmitterIs, ThreadsDiffer
    <2>2. pc[Checkout(r)] = "idle"
      BY <1>1, <1>3, <2>1 DEF Control
    <2>3. \A v \in Threads : pc'[v] = IF v = Checkout(r) THEN "begin"
                                      ELSE IF v = t THEN "calling" ELSE pc[v]
      BY <1>3 DEF Succeeding, Starts, AfterEmit
    <2> QED
      BY <1>1, <1>2, <1>3, <2>1, <2>2, <2>3 DEF Starting
  <1>4. CASE pc[t] = "begin"
    <2>1. t = Checkout(r) /\ First(r) # t
      BY <1>4, EmitterIs, ThreadsDiffer
    <2>2. pc[First(r)] = "idle"
      BY <1>1, <1>4, <2>1 DEF Control
    <2>3. \A v \in Threads : pc'[v] = IF v = First(r) THEN "authorize"
                                      ELSE IF v = t THEN "select" ELSE pc[v]
      BY <1>4 DEF Succeeding, Starts, AfterEmit
    <2> QED
      BY <1>1, <1>2, <1>4, <2>1, <2>2, <2>3 DEF Starting
  <1>5. CASE pc[t] = "retry"
    <2>1. t = Checkout(r) /\ Second(r) # t
      BY <1>5, EmitterIs, ThreadsDiffer
    <2>2. pc[Second(r)] = "idle"
      BY <1>1, <1>5, <2>1 DEF Control
    <2>3. \A v \in Threads : pc'[v] = IF v = Second(r) THEN "authorize"
                                      ELSE IF v = t THEN "wait" ELSE pc[v]
      BY <1>5 DEF Succeeding, Starts, AfterEmit
    <2> QED
      BY <1>1, <1>2, <1>5, <2>1, <2>2, <2>3 DEF Starting
  <1>6. CASE pc[t] \in {"exit", "timeout", "end", "started", "charged", "effect"}
    <2>1. \A v \in Threads : pc'[v] = IF v = t THEN AfterEmit(pc[t]) ELSE pc[v]
      BY <1>6 DEF Succeeding, Starts
    <2>2. /\ pc[t] = "exit" => Only(t, "leaving")
          /\ pc[t] = "timeout" => Only(t, "retry")
          /\ pc[t] = "end" => Only(t, "returned")
          /\ pc[t] = "started" => Only(t, "sleep")
          /\ pc[t] = "charged" => Only(t, "commit")
          /\ pc[t] = "effect" => Only(t, "ok")
      BY <2>1 DEF AfterEmit, Only
    <2>3. pc[t] = "exit" => reply' = [reply EXCEPT ![r] = Cardinality(Launched(r))]
      BY DEF Succeeding
    <2> QED
      BY <1>2, <1>6, <2>2, <2>3, EmitterIs
  <1> QED
    BY <1>3, <1>4, <1>5, <1>6 DEF EmitsAt

\* What a success of Record says of any thread.
LEMMA SucceedingThreads ==
    ASSUME Control, NEW t \in Threads, pc[t] \in EmitsAt, Succeeding(t), NEW u \in Threads
    PROVE  /\ pc[u] \in {"ok", "returned", "wait", "select"} => pc'[u] = pc[u]
           /\ pc'[u] = "ok" => pc[u] = "ok" \/ (u = t /\ pc[u] = "effect")
           /\ pc'[u] = "returned" => pc[u] = "returned" \/ (u = t /\ pc[u] = "end")
           /\ pc'[u] \in {"exit", "end", "effect"} => pc'[u] = pc[u]
  <1>1. PICK r : r = t[1]
    OBVIOUS
  <1> QED
    BY <1>1, SucceedingIs DEF Starting, Only, EmitsAt

\* Attempts start while their checkout launches them.
LEMMA SucceedingLaunches ==
    ASSUME Control, NEW t \in Threads, pc[t] \in EmitsAt, Succeeding(t), NEW r \in Requests
    PROVE  \/ Launched(r)' = Launched(r)
           \/ pc[Checkout(r)] \in {"begin", "retry"} /\ pc'[Checkout(r)] \in {"select", "wait"}
  <1>1. PICK o : o = t[1]
    OBVIOUS
  <1>2. /\ First(r) \in Threads /\ Second(r) \in Threads /\ Checkout(r) \in Threads
        /\ First(r) # Second(r) /\ First(r) # Checkout(r) /\ Second(r) # Checkout(r)
        /\ First(r) # Gateway(o) /\ First(r) # Checkout(o)
        /\ Second(r) # Gateway(o) /\ Second(r) # Checkout(o)
        /\ First(r) # Second(o) /\ Second(r) # First(o)
        /\ First(o) = First(r) => o = r
        /\ Second(o) = Second(r) => o = r
    BY ThreadIs, ThreadsDiffer
  <1>3. CASE \A u \in {First(r), Second(r)} : pc'[u] # "idle" <=> pc[u] # "idle"
    BY <1>3 DEF Launched
  <1>4. CASE \E u \in {First(r), Second(r)} : ~(pc'[u] # "idle" <=> pc[u] # "idle")
    BY <1>1, <1>2, <1>4, SucceedingIs DEF Starting, Only, EmitsAt
  <1> QED
    BY <1>3, <1>4

\* The success of Record keeps what was joined.
LEMMA SucceedingJoins ==
    ASSUME IInv, Joined, NEW t \in Threads, pc[t] \in EmitsAt, Succeeding(t), UNCHANGED effects
    PROVE  Joined'
  <1>1. Control
    BY DEF IInv
  <1>2. OkHasEffect'
    BY <1>1, SucceedingThreads DEF Joined, OkHasEffect, IInv, Evidence, EffectsOK
  <1>3. ASSUME NEW r \in Requests
        PROVE  /\ Checkout(r) \in Threads /\ Gateway(r) \in Threads
               /\ \A u \in Launched(r) : u \in Threads
    BY ThreadIs DEF Launched
  <1>4. ASSUME NEW r \in Requests, pc'[Checkout(r)] \in {"end", "returned"}, NEW u \in Launched(r)'
        PROVE  pc'[u] = "ok"
    <2>1. pc[Checkout(r)] \in {"end", "returned"}
      BY <1>1, <1>3, <1>4, SucceedingThreads
    <2>2. Launched(r)' = Launched(r)
      BY <1>1, <2>1, SucceedingLaunches
    <2>3. pc[u] = "ok"
      BY <1>4, <2>1, <2>2 DEF Joined, JoinedAll
    <2> QED
      BY <1>1, <1>3, <1>4, <2>2, <2>3, SucceedingThreads
  <1>5. JoinedAll'
    BY <1>4 DEF JoinedAll
  <1>6. ExitAfterReturn'
    BY <1>1, <1>3, SucceedingThreads DEF Joined, ExitAfterReturn
  <1>7. ASSUME NEW r \in Requests, reply'[r] # 0
        PROVE  pc'[Checkout(r)] = "returned" /\ reply'[r] = Cardinality(Launched(r)')
    <2>1. CASE reply'[r] = reply[r]
      <3>1. pc[Checkout(r)] = "returned" /\ reply[r] = Cardinality(Launched(r))
        BY <1>7, <2>1 DEF Joined, ReplyAfterReturn
      <3>2. pc'[Checkout(r)] = "returned" /\ Launched(r)' = Launched(r)
        BY <1>1, <1>3, <3>1, SucceedingThreads, SucceedingLaunches
      <3> QED
        BY <2>1, <3>1, <3>2
    <2>2. CASE reply'[r] # reply[r]
      <3>1. PICK o : o = t[1]
        OBVIOUS
      <3>2. /\ pc[t] = "exit" /\ t = Gateway(o)
            /\ reply' = [reply EXCEPT ![o] = Cardinality(Launched(o))]
        BY <1>1, <2>2, <3>1, SucceedingIs
      <3>3. r = o /\ reply'[r] = Cardinality(Launched(r))
        BY <2>2, <3>2 DEF IInv, DataOK
      <3>4. pc[Checkout(r)] = "returned"
        BY <3>2, <3>3 DEF Joined, ExitAfterReturn
      <3>5. pc'[Checkout(r)] = "returned" /\ Launched(r)' = Launched(r)
        BY <1>1, <1>3, <3>4, SucceedingThreads, SucceedingLaunches
      <3> QED
        BY <3>3, <3>5
    <2> QED
      BY <2>1, <2>2
  <1>8. ReplyAfterReturn'
    BY <1>7 DEF ReplyAfterReturn
  <1> QED
    BY <1>2, <1>5, <1>6, <1>8 DEF Joined

-----------------------------------------------------------------------------
(* Answers count effects.                                                  *)

\* Every step keeps what was joined.
LEMMA StepJoins ==
    ASSUME IInv, Joined, [Next]_vars
    PROVE  Joined'
  <1>1. ASSUME UNCHANGED <<pc, effects, reply>> PROVE Joined'
    BY <1>1 DEF Joined, OkHasEffect, JoinedAll, ExitAfterReturn, ReplyAfterReturn, Launched
  <1>2. ASSUME NEW r \in Requests, RequestStep(r) \/ Arrive(r) \/ SetLatencyFails(r)
        PROVE  Joined'
    BY <1>2, RequestHops, HopKeeps
  <1>3. ASSUME NEW t \in Threads, CallFails(t) PROVE Joined'
    <2>1. pc[t] \in EmitsAt \cup {"authorize", "commit"} /\ Failing(t) /\ UNCHANGED effects
      BY <1>3 DEF CallFails
    <2> QED
      BY <2>1, FailureHops, HopKeeps
  <1>4. ASSUME NEW t \in Threads, api[t] # "idle", Accepted(t) PROVE Joined'
    <2>1. pc[t] \in EmitsAt /\ UNCHANGED effects
      BY <1>4 DEF IInv, Calling, Accepted
    <2>2. CASE Succeeding(t)
      BY <2>1, <2>2, SucceedingJoins
    <2>3. CASE Failing(t)
      BY <2>1, <2>3, FailureHops, HopKeeps
    <2> QED
      BY <1>4, <2>2, <2>3 DEF Accepted
  <1>5. ASSUME NEW t \in Threads, ThreadStep(t) PROVE Joined'
    <2>1. CASE Ingest(t) \/ DetectIncident(t) \/ CheckNodes(t)
      BY <1>1, <2>1 DEF Ingest, DetectIncident, CheckNodes, checkoutVars
    <2>2. CASE DetectNothing(t) \/ NodesMissing(t) \/ PutIncident(t)
      BY <1>4, <2>2 DEF DetectNothing, NodesMissing, PutIncident, Inserts
    <2>3. CASE Abort(t)
      BY <1>3, <2>3 DEF Abort
    <2>4. CASE IsAttempt(t) /\ (Authorize(t) \/ Wake(t) \/ Commit(t))
      BY <2>4, AttemptHops, HopKeeps
    <2> QED
      BY <1>5, <2>1, <2>2, <2>3, <2>4 DEF ThreadStep
  <1>6. CASE Lose
    BY <1>2, <1>3, <1>4, <1>6 DEF Lose, DetectionFails
  <1>7. CASE Reset \/ UNCHANGED vars \/ \E r \in Requests : Disconnect(r)
    BY <1>1, <1>7 DEF Reset, Disconnect, vars, checkoutVars
  <1> QED
    BY <1>2, <1>5, <1>6, <1>7 DEF Next, Step

\* Answers follow joined attempts.
LEMMA AlwaysJoined == Spec => []Joined
  <1>1. Init => Joined
    BY ThreadIs DEF Init, Joined, OkHasEffect, JoinedAll, ExitAfterReturn, ReplyAfterReturn
  <1> QED
    BY <1>1, Invariance, StepJoins, PTL DEF Spec

\* The attempts in the gateway's answer are the effects committed (ReplyCountsEffects,
\* service.go of the gateway and of the checkout): no effect of a request is left out
\* of its answer, however its attempts overlap.
THEOREM RepliesCountEffects == Spec => []ReplyCountsEffects
  <1>1. IInv /\ Joined => ReplyCountsEffects
    <2> SUFFICES ASSUME IInv, Joined, NEW r \in Requests, reply[r] # 0
                 PROVE  Cardinality(EffectsOf(r)) = reply[r]
      BY DEF ReplyCountsEffects
    <2>1. /\ reply[r] = Cardinality(Launched(r))
          /\ \A t \in Launched(r) : pc[t] = "ok" /\ t \in Threads /\ t[1] = r
      BY ThreadIs, ThreadsDiffer DEF Joined, ReplyAfterReturn, JoinedAll, Launched
    <2>2. Launched(r) \subseteq EffectsOf(r)
      BY <2>1 DEF Joined, OkHasEffect, EffectsOf
    <2>3. ASSUME NEW t \in EffectsOf(r) PROVE t \in Launched(r)
      <3>1. t \in Threads /\ t[1] = r /\ IsAttempt(t) /\ pc[t] # "idle"
        BY DEF EffectsOf, IInv, DataOK, Evidence, EffectsOK
      <3>2. t \in {First(r), Second(r)}
        BY <3>1, ThreadIs, ThreadsDiffer DEF IsAttempt, Attempts
      <3> QED
        BY <3>1, <3>2 DEF Launched
    <2>4. EffectsOf(r) = Launched(r)
      BY <2>2, <2>3
    <2> QED
      BY <2>1, <2>4
  <1> QED
    BY <1>1, Invariance, AlwaysJoined, PTL

-----------------------------------------------------------------------------
(* Until a reset, events stay.                                             *)

BegunAt == {"select", "timeout", "retry", "wait", "end", "returned"}

\* What calls know is stored, and so is the parent of what is stored.
Kept ==
    /\ \A t \in Threads : seen[t] \subseteq events
    /\ \A t \in Threads : api[t] # "idle" => EventOf(t) \in events
    /\ \A e \in events : ParentOf(e) \subseteq events

\* The events a request's threads have passed are stored.
PassedBy(r) ==
    /\ pc[Checkout(r)] # "idle" => EntryEvent(r) \in events
    /\ pc[Checkout(r)] \in BegunAt \/ pc[First(r)] # "idle" \/ pc[Second(r)] # "idle" =>
           BeginEvent(r) \in events
    /\ pc[Checkout(r)] = "retry" \/ pc[Second(r)] # "idle" =>
           EventAt(r, "checkout", "timeout") \in events
    /\ pc[Second(r)] # "idle" => EventAt(r, "checkout", "retry") \in events
    /\ pc[First(r)] = "ok" => EventAt(r, "first", "effect") \in events
    /\ pc[Second(r)] = "ok" => EventAt(r, "second", "effect") \in events

Passed == \A r \in Requests : PassedBy(r)

EffectBlind(r) == \E role \in Attempts : EventAt(r, role, "effect") \in blind

\* The detections of the last effect, of the checkout's end and of the gateway's
\* exit come one after the other, and each has raised the incident or failed.
AnsweredTo(r) ==
    \/ Detected(ExecutionOf[r])
    \/ /\ pc[First(r)] = "ok" /\ pc[Second(r)] = "ok" => EffectBlind(r)
       /\ pc[Checkout(r)] = "returned" /\ Cardinality(Launched(r)) = 2 =>
              EffectBlind(r) /\ EventAt(r, "checkout", "end") \in blind
       /\ reply[r] = 2 => AllBlind(r)

Answered == \A r \in Requests : AnsweredTo(r)

Recorded == Kept /\ Passed /\ Answered

\* Incidents that exist stay.
LEMMA DetectedStays ==
    ASSUME IInv, UNCHANGED incidents \/ \E t \in Threads : Inserts(t), NEW x, Detected(x)
    PROVE  Detected(x)'
  <1>1. CASE UNCHANGED incidents
    BY <1>1 DEF Detected
  <1>2. CASE \E t \in Threads : Inserts(t)
    <2>1. PICK t \in Threads : Inserts(t)
      BY <1>2
    <2>2. CASE incidents[ExecutionOf[t[1]]] = {}
      <3>1. /\ incidents' = [incidents EXCEPT ![ExecutionOf[t[1]]] = seen[t]]
            /\ x # ExecutionOf[t[1]]
        BY <2>1, <2>2 DEF Inserts, Detected
      <3>2. incidents'[x] = incidents[x]
        BY <3>1 DEF IInv, DataOK
      <3> QED
        BY <3>2 DEF Detected
    <2>3. CASE incidents[ExecutionOf[t[1]]] # {}
      BY <2>1, <2>3 DEF Inserts, Detected
    <2> QED
      BY <2>2, <2>3
  <1> QED
    BY <1>1, <1>2

\* While a thread other than t is in a call, it stays where it is.
LEMMA CallersStay ==
    ASSUME IInv, NEW t \in Threads, Moves(t), NEW u \in Threads, u # t, api[u] # "idle"
    PROVE  EventOf(u)' = EventOf(u)
  <1>1. pc[u] \in EmitsAt
    BY DEF IInv, Calling
  <1>2. pc'[u] = pc[u]
    BY <1>1 DEF Moves, EmitsAt
  <1> QED
    BY <1>2 DEF EventOf

\* A call that ends leaves the others what they know.
LEMMA KeptAfterCall ==
    ASSUME IInv, Kept, NEW t \in Threads, Moves(t), UNCHANGED events,
           api' = [api EXCEPT ![t] = "idle"], seen' = [seen EXCEPT ![t] = {}]
    PROVE  Kept'
  <1>1. \A u \in Threads : /\ api'[u] = IF u = t THEN "idle" ELSE api[u]
                           /\ seen'[u] = IF u = t THEN {} ELSE seen[u]
    BY DEF IInv, DataOK
  <1>2. \A u \in Threads : seen'[u] \subseteq events'
    BY <1>1 DEF Kept
  <1>3. ASSUME NEW u \in Threads, api'[u] # "idle" PROVE EventOf(u)' \in events'
    <2>1. u # t /\ api[u] # "idle"
      BY <1>1, <1>3
    <2> QED
      BY <2>1, CallersStay DEF Kept
  <1>4. \A e \in events' : ParentOf(e) \subseteq events'
    BY DEF Kept
  <1> QED
    BY <1>2, <1>3, <1>4 DEF Kept, ParentOf, EntryEvent, BeginEvent

\* A hop outside Record leaves all of them.
LEMMA KeptAfterHop ==
    ASSUME IInv, Kept, NEW t \in Threads, NEW p \in Places, Hop(t, p), pc[t] \notin EmitsAt,
           UNCHANGED <<coreVars, callVars>>
    PROVE  Kept'
  <1>1. UNCHANGED <<events, api, seen>>
    BY DEF coreVars, callVars
  <1>2. ASSUME NEW u \in Threads, api[u] # "idle" PROVE EventOf(u)' = EventOf(u)
    <2>1. u # t
      BY <1>2 DEF IInv, Calling
    <2>2. pc'[u] = pc[u]
      BY <2>1 DEF IInv, Control, Hop
    <2> QED
      BY <2>2 DEF EventOf
  <1>3. \A u \in Threads : api'[u] # "idle" => EventOf(u)' \in events'
    BY <1>1, <1>2 DEF Kept
  <1> QED
    BY <1>1, <1>3 DEF Kept, ParentOf, EntryEvent, BeginEvent

\* A hop passes no event.
LEMMA PassedAfterHop ==
    ASSUME IInv, Passed, NEW t \in Threads, NEW p \in Places, Hop(t, p), UNCHANGED events
    PROVE  Passed'
  <1> SUFFICES ASSUME NEW r \in Requests PROVE PassedBy(r)'
    BY DEF Passed
  <1> DEFINE c == Checkout(r)  f == First(r)  s == Second(r)
  <1>1. /\ c \in Threads /\ f \in Threads /\ s \in Threads
        /\ c[2] = "checkout" /\ f[2] # "gateway" /\ s[2] # "gateway"
    BY ThreadIs, ThreadsDiffer
  <1>2. \A u \in Threads : pc'[u] = IF u = t THEN p ELSE pc[u]
    BY DEF IInv, Control, Hop
  <1>3. /\ pc'[f] # "idle" => pc[f] # "idle"
        /\ pc'[s] # "idle" => pc[s] # "idle"
        /\ pc'[c] # "idle" => pc[c] # "idle"
        /\ pc'[f] = "ok" => pc[f] = "ok"
        /\ pc'[s] = "ok" => pc[s] = "ok"
        /\ pc'[c] = "retry" => pc[c] = "retry"
    BY <1>1, <1>2 DEF Hop
  <1>4. pc'[c] \in BegunAt => pc[c] \in BegunAt
    BY <1>1, <1>2 DEF Hop, BegunAt
  <1>5. PassedBy(r)
    BY DEF Passed
  <1> QED
    BY <1>3, <1>4, <1>5 DEF PassedBy, EntryEvent, BeginEvent, EventAt

\* The success of Record passes the event it has recorded.
LEMMA PassedAfterSuccess ==
    ASSUME IInv, Kept, Passed, NEW t \in Threads, api[t] # "idle", Succeeding(t), UNCHANGED events
    PROVE  Passed'
  <1> SUFFICES ASSUME NEW r \in Requests PROVE PassedBy(r)'
    BY DEF Passed
  <1> DEFINE g == Gateway(r)  c == Checkout(r)  f == First(r)  s == Second(r)
  <1>1. PICK o : o = t[1]
    OBVIOUS
  <1>2. pc[t] \in EmitsAt /\ Control /\ o \in Requests
    BY <1>1, ThreadIs DEF IInv, Calling
  <1>3. EventOf(t) \in events /\ EventOf(t) = EventAt(o, t[2], pc[t])
    BY <1>1 DEF Kept, EventOf, EventAt
  <1>4. PassedBy(r) /\ PassedBy(o)
    BY <1>2 DEF Passed
  <1>5. /\ EntryEvent(r) = EventAt(r, "gateway", "entry") /\ BeginEvent(r) = EventAt(r, "checkout", "begin")
    BY DEF EntryEvent, BeginEvent, EventAt
  <1>6. {c, f, s} \subseteq Threads /\ c # f /\ c # s /\ f # s /\ g # c /\ g # f /\ g # s
    BY ThreadIs, ThreadsDiffer
  <1>7. CASE o # r
    <2>1. /\ {c, f, s} \cap {t, Checkout(o), First(o), Second(o)} = {}
      BY <1>1, <1>7, ThreadsDiffer
    <2>3. ASSUME NEW u \in Threads, u \notin {t, Checkout(o), First(o), Second(o)}
          PROVE  pc'[u] = pc[u]
      BY <1>1, <1>2, <2>3, SucceedingIs DEF Starting, Only
    <2>2. pc'[c] = pc[c] /\ pc'[f] = pc[f] /\ pc'[s] = pc[s]
      BY <1>6, <2>1, <2>3
    <2> QED
      BY <1>4, <2>2 DEF PassedBy, EntryEvent, BeginEvent, EventAt
  <1>8. CASE o = r
    <2>1. /\ t = g => t[2] = "gateway"
          /\ t = c => t[2] = "checkout"
          /\ t = f => t[2] = "first"
          /\ t = s => t[2] = "second"
          /\ IsAttempt(t) => t \in {f, s}
      <3>1. t \in {g, c, f, s}
        BY <1>1, <1>8, ThreadIs
      <3>2. g[2] = "gateway" /\ c[2] = "checkout" /\ f[2] = "first" /\ s[2] = "second"
        BY ThreadsDiffer
      <3> QED
        BY <3>1, <3>2 DEF IsAttempt, Attempts
    <2>2. PassedBy(r) /\ EventAt(r, t[2], pc[t]) \in events
      BY <1>3, <1>4, <1>8
    <2>3. /\ (pc'[c] # "idle") => (EventAt(r, "gateway", "entry") \in events)
          /\ (pc'[c] \in BegunAt \/ pc'[f] # "idle" \/ pc'[s] # "idle") =>
                 EventAt(r, "checkout", "begin") \in events
          /\ (pc'[c] = "retry" \/ pc'[s] # "idle") => EventAt(r, "checkout", "timeout") \in events
          /\ (pc'[s] # "idle") => EventAt(r, "checkout", "retry") \in events
          /\ (pc'[f] = "ok") => EventAt(r, "first", "effect") \in events
          /\ (pc'[s] = "ok") => EventAt(r, "second", "effect") \in events
      <3>1. CASE pc[t] = "entry" /\ t = g /\ Starting(t, "calling", c, "begin")
        BY <1>5, <1>6, <2>1, <2>2, <3>1 DEF PassedBy, Starting, BegunAt
      <3>2. CASE pc[t] = "begin" /\ t = c /\ Starting(t, "select", f, "authorize")
        BY <1>5, <1>6, <2>1, <2>2, <3>2 DEF PassedBy, Starting, BegunAt
      <3>3. CASE pc[t] = "retry" /\ t = c /\ Starting(t, "wait", s, "authorize")
        BY <1>5, <1>6, <2>1, <2>2, <3>3 DEF PassedBy, Starting, BegunAt
      <3>4. CASE pc[t] = "exit" /\ t = g /\ Only(t, "leaving")
        BY <1>5, <1>6, <2>1, <2>2, <3>4 DEF PassedBy, Only, BegunAt
      <3>5. CASE pc[t] = "timeout" /\ t = c /\ Only(t, "retry")
        BY <1>5, <1>6, <2>1, <2>2, <3>5 DEF PassedBy, Only, BegunAt
      <3>6. CASE pc[t] = "end" /\ t = c /\ Only(t, "returned")
        BY <1>5, <1>6, <2>1, <2>2, <3>6 DEF PassedBy, Only, BegunAt
      <3>7. CASE pc[t] = "started" /\ IsAttempt(t) /\ Only(t, "sleep")
        BY <1>5, <1>6, <2>1, <2>2, <3>7 DEF PassedBy, Only, BegunAt
      <3>8. CASE pc[t] = "charged" /\ IsAttempt(t) /\ Only(t, "commit")
        BY <1>5, <1>6, <2>1, <2>2, <3>8 DEF PassedBy, Only, BegunAt
      <3>9. CASE pc[t] = "effect" /\ IsAttempt(t) /\ Only(t, "ok")
        BY <1>5, <1>6, <2>1, <2>2, <3>9 DEF PassedBy, Only, BegunAt
      <3> QED
        BY <1>1, <1>2, <1>8, <3>1, <3>2, <3>3, <3>4, <3>5, <3>6, <3>7, <3>8, <3>9, SucceedingIs
    <2> QED
      BY <1>5, <2>3 DEF PassedBy, EntryEvent, BeginEvent, EventAt
  <1> QED
    BY <1>7, <1>8

-----------------------------------------------------------------------------
(* No incident is missed.                                                  *)

\* The events of a request make a graph once both effects are recorded.
LEMMA CompleteEvidence ==
    ASSUME IInv, Kept, Passed, NEW r \in Requests, pc[Second(r)] # "idle",
           EventAt(r, "first", "effect") \in events, EventAt(r, "second", "effect") \in events
    PROVE  Detectable(ExecutionOf[r])
  <1> DEFINE S == Stored(ExecutionOf[r])
             a == EventAt(r, "first", "effect")  b == EventAt(r, "second", "effect")
             E == {e \in S : e.at = "effect"}
  <1>3. /\ EventAt(r, "checkout", "timeout") \in events /\ EventAt(r, "checkout", "retry") \in events
        /\ a \in events /\ b \in events
    BY DEF Passed, PassedBy
  <1>4. /\ EventAt(r, "checkout", "timeout") \in S /\ EventAt(r, "checkout", "retry") \in S
        /\ a \in E /\ b \in E
    BY <1>3 DEF Stored, EventAt
  <1>5. a # b
    BY DEF EventAt
  <1>6. E \subseteq events
    BY DEF Stored
  <1> HIDE DEF E, a, b
  <1>7. IsFiniteSet(E)
    BY <1>6, FS_Subset DEF IInv, Evidence, EventsOK
  <1>8. Cardinality(E) >= 2
    BY <1>4, <1>5, <1>7, TwoMembers
  <1>9. OracleMatches(S)
    BY <1>4, <1>8 DEF OracleMatches, E, EventAt
  <1>10. ASSUME NEW e \in S, NEW q \in ParentOf(e) PROVE q \in S
    <2>1. e \in events /\ ExecutionOf[e.req] = ExecutionOf[r]
      BY DEF Stored
    <2>2. q \in events
      BY <2>1 DEF Kept
    <2>3. q.req = e.req
      BY DEF ParentOf, EntryEvent, BeginEvent
    <2> QED
      BY <2>1, <2>2, <2>3 DEF Stored
  <1>11. EdgesResolve(S)
    BY <1>10 DEF EdgesResolve
  <1> QED
    BY <1>9, <1>11 DEF Detectable

\* While nothing it is about changes, what is answered stays answered.
LEMMA AnsweredUntouched ==
    ASSUME Answered, UNCHANGED <<pc, reply, incidents, blind>>
    PROVE  Answered'
  <1> SUFFICES ASSUME NEW r \in Requests PROVE AnsweredTo(r)'
    BY DEF Answered
  <1>1. AnsweredTo(r)
    BY DEF Answered
  <1>2. Launched(r)' = Launched(r)
    BY DEF Launched
  <1> QED
    BY <1>1, <1>2 DEF AnsweredTo, Detected, EffectBlind, AllBlind, EventAt

\* The parent of an event is stored before it.
LEMMA IngestRecords ==
    ASSUME IInv, Joined, Recorded, NEW t \in Threads, Ingest(t)
    PROVE  Recorded'
  <1> DEFINE e == EventOf(t)
  <1>1. PICK r : r = t[1]
    OBVIOUS
  <1>2. r \in Requests
    BY <1>1, ThreadIs
  <1>3. /\ UNCHANGED <<pc, reply, incidents, seen>> /\ events' = events \cup {e}
        /\ pc[t] \in EmitsAt
        /\ \A u \in Threads : api'[u] = IF u = t THEN "detect" ELSE api[u]
    BY DEF Ingest, checkoutVars, IInv, DataOK
  <1>4. e.at = pc[t] /\ e.req = r
    BY <1>1 DEF EventOf
  <1>5. t \in {Gateway(r), Checkout(r), First(r), Second(r)}
    BY <1>1, ThreadIs
  <1>6. PassedBy(r) /\ Control
    BY <1>2 DEF Recorded, Passed, IInv
  <1>7. ParentOf(e) \subseteq events
    <2>1. CASE pc[t] = "entry"
      BY <1>4, <2>1 DEF ParentOf
    <2>2. CASE pc[t] \in {"exit", "begin"}
      <3>1. ParentOf(e) = {EntryEvent(r)}
        BY <1>4, <2>2 DEF ParentOf
      <3>2. CASE pc[t] = "exit"
        <4>1. pc[Checkout(r)] = "returned"
          BY <1>1, <1>2, <1>6, <3>2, EmitterIs DEF Joined, ExitAfterReturn
        <4> QED
          BY <1>6, <3>1, <4>1 DEF PassedBy
      <3>3. CASE pc[t] = "begin"
        <4>1. pc[Checkout(r)] = "begin"
          BY <1>1, <1>6, <3>3, EmitterIs
        <4> QED
          BY <1>6, <3>1, <4>1 DEF PassedBy
      <3> QED
        BY <2>2, <3>2, <3>3
    <2>3. CASE pc[t] \in {"timeout", "retry", "end", "started", "charged", "effect"}
      <3>1. ParentOf(e) = {BeginEvent(r)}
        BY <1>4, <2>3 DEF ParentOf
      <3>2. CASE pc[t] \in {"timeout", "retry", "end"}
        <4>1. pc[Checkout(r)] \in {"timeout", "retry", "end"}
          BY <1>1, <1>6, <3>2, EmitterIs
        <4> QED
          BY <1>6, <3>1, <4>1 DEF PassedBy, BegunAt
      <3>3. CASE pc[t] \in {"started", "charged", "effect"}
        <4>1. t \in {First(r), Second(r)}
          BY <1>5, <1>6, <3>3, EmitterIs, ThreadsDiffer DEF IsAttempt, Attempts
        <4> QED
          BY <1>6, <3>1, <3>3, <4>1 DEF PassedBy
      <3> QED
        BY <2>3, <3>2, <3>3
    <2> QED
      BY <1>3, <2>1, <2>2, <2>3 DEF EmitsAt
  <1>8. \A u \in Threads : EventOf(u)' = EventOf(u)
    BY <1>3 DEF EventOf
  <1> HIDE DEF e
  <1>9. \A u \in Threads : seen'[u] \subseteq events'
    BY <1>3 DEF Recorded, Kept
  <1>10. \A u \in Threads : api'[u] # "idle" => EventOf(u)' \in events'
    BY <1>3, <1>8 DEF Recorded, Kept, e
  <1>11. \A d \in events' : ParentOf(d) \subseteq events'
    BY <1>3, <1>7 DEF Recorded, Kept
  <1>12. Kept'
    BY <1>9, <1>10, <1>11 DEF Kept, ParentOf, EntryEvent, BeginEvent
  <1>13. ASSUME NEW o \in Requests PROVE PassedBy(o)'
    <2>1. PassedBy(o)
      BY DEF Recorded, Passed
    <2> QED
      BY <1>3, <2>1 DEF PassedBy, EntryEvent, BeginEvent, EventAt
  <1>14. Answered'
    <2>1. UNCHANGED <<pc, reply, incidents, blind>>
      BY <1>3 DEF Ingest
    <2> QED
      BY <2>1, AnsweredUntouched DEF Recorded
  <1> QED
    BY <1>12, <1>13, <1>14 DEF Recorded, Passed

\* What detection reads is stored.
LEMMA DetectRecords ==
    ASSUME IInv, Recorded, NEW t \in Threads, DetectIncident(t) \/ CheckNodes(t)
    PROVE  Recorded'
  <1>1. UNCHANGED <<pc, reply, events, incidents>>
    BY DEF DetectIncident, CheckNodes, checkoutVars, coreVars
  <1>2. ASSUME NEW u \in Threads PROVE seen'[u] \subseteq events /\ (api'[u] # "idle" => api[u] # "idle")
    BY DEF DetectIncident, CheckNodes, IInv, DataOK, Recorded, Kept, Stored
  <1>3. \A u \in Threads : EventOf(u)' = EventOf(u)
    BY <1>1 DEF EventOf
  <1>4. \A u \in Threads : seen'[u] \subseteq events'
    BY <1>1, <1>2
  <1>5. \A u \in Threads : api'[u] # "idle" => EventOf(u)' \in events'
    BY <1>1, <1>2, <1>3 DEF Recorded, Kept
  <1>6. Kept'
    BY <1>1, <1>4, <1>5 DEF Recorded, Kept, ParentOf, EntryEvent, BeginEvent
  <1>7. Passed'
    BY <1>1 DEF Recorded, Passed, PassedBy, EntryEvent, BeginEvent, EventAt
  <1>8. Answered'
    <2>1. UNCHANGED blind
      BY DEF DetectIncident, CheckNodes
    <2> QED
      BY <1>1, <2>1, AnsweredUntouched DEF Recorded
  <1> QED
    BY <1>6, <1>7, <1>8 DEF Recorded

\* What ends the detection of a recorded event: it succeeds or fails.
Ends(t) == DetectNothing(t) \/ NodesMissing(t) \/ PutIncident(t) \/ DetectionFails(t)

LEMMA EndsWith ==
    ASSUME IInv, NEW t \in Threads, Ends(t)
    PROVE  /\ Accepted(t) /\ api[t] # "idle" /\ pc[t] \in EmitsAt
           /\ UNCHANGED incidents \/ Inserts(t)
           /\ blind \subseteq blind'
  BY DEF Ends, DetectNothing, NodesMissing, PutIncident, Inserts, DetectionFails, IInv, Calling

\* A detection that can raise the incident leaves it raised, or fails.
LEMMA EndDetects ==
    ASSUME IInv, Recorded, NEW t \in Threads, Ends(t), NEW r \in Requests, r = t[1],
           Detectable(ExecutionOf[r])
    PROVE  Detected(ExecutionOf[r])' \/ EventOf(t) \in blind'
  <1>1. CASE DetectionFails(t)
    BY <1>1 DEF DetectionFails
  <1>2. CASE PutIncident(t)
    <2>1. Inserts(t)
      BY <1>2 DEF PutIncident
    <2>2. seen[t] # {}
      BY <2>1 DEF Inserts, IInv, Evidence, SeenOK, OracleMatches
    <2>3. ExecutionOf[r] \in Executions
      BY RequestAssumption
    <2>4. incidents'[ExecutionOf[r]] # {}
      BY <2>1, <2>2, <2>3 DEF Inserts, IInv, DataOK
    <2> QED
      BY <2>4 DEF Detected
  <1>3. ~DetectNothing(t) /\ ~NodesMissing(t)
    BY DEF DetectNothing, NodesMissing, Recorded, Kept
  <1> QED
    BY <1>1, <1>2, <1>3 DEF Ends

\* A request that answers for two attempts has launched both.
LEMMA BothLaunched ==
    ASSUME NEW r \in Requests, Cardinality(Launched(r)) = 2
    PROVE  First(r) \in Launched(r) /\ Second(r) \in Launched(r)
  <1> DEFINE f == First(r)  s == Second(r)
  <1>1. /\ IsFiniteSet({f}) /\ Cardinality({f}) = 1
        /\ IsFiniteSet({s}) /\ Cardinality({s}) = 1
    BY FS_Singleton
  <1>2. ASSUME Launched(r) \subseteq {f} PROVE FALSE
    BY <1>1, <1>2, FS_Subset
  <1>3. ASSUME Launched(r) \subseteq {s} PROVE FALSE
    BY <1>1, <1>3, FS_Subset
  <1>4. Launched(r) \subseteq {f, s}
    BY DEF Launched
  <1> QED
    BY <1>2, <1>3, <1>4

\* A step that ends no attempt and no checkout leaves what was answered.
LEMMA AnsweredStays ==
    ASSUME IInv, Answered, UNCHANGED reply, UNCHANGED incidents \/ \E t \in Threads : Inserts(t),
           blind \subseteq blind',
           \A u \in Threads : pc'[u] \in {"ok", "returned"} => pc'[u] = pc[u],
           \A r \in Requests : Launched(r)' = Launched(r)
    PROVE  Answered'
  <1> SUFFICES ASSUME NEW r \in Requests, ~Detected(ExecutionOf[r])' PROVE AnsweredTo(r)'
    BY DEF Answered, AnsweredTo
  <1>1. AnsweredTo(r) /\ ~Detected(ExecutionOf[r])
    BY DetectedStays DEF Answered
  <1>2. /\ pc'[First(r)] = "ok" => pc[First(r)] = "ok"
        /\ pc'[Second(r)] = "ok" => pc[Second(r)] = "ok"
        /\ pc'[Checkout(r)] = "returned" => pc[Checkout(r)] = "returned"
    BY ThreadIs
  <1>3. /\ EffectBlind(r) => EffectBlind(r)'
        /\ AllBlind(r) => AllBlind(r)'
        /\ EventAt(r, "checkout", "end") \in blind => EventAt(r, "checkout", "end") \in blind'
    BY DEF EffectBlind, AllBlind, EventAt
  <1> QED
    BY <1>1, <1>2, <1>3 DEF AnsweredTo, EventAt

\* The success of Record: its detection has raised the incident, if it could.
LEMMA AnswerDetects ==
    ASSUME IInv, Joined, Recorded, NEW t \in Threads, Ends(t), Succeeding(t)
    PROVE  Answered'
  <1> SUFFICES ASSUME NEW r \in Requests, ~Detected(ExecutionOf[r])' PROVE AnsweredTo(r)'
    BY DEF Answered, AnsweredTo
  <1> DEFINE c == Checkout(r)  f == First(r)  s == Second(r)
  <1>1. /\ api[t] # "idle" /\ pc[t] \in EmitsAt /\ Control /\ blind \subseteq blind'
        /\ UNCHANGED incidents \/ Inserts(t)
    BY EndsWith DEF IInv
  <1>2. AnsweredTo(r) /\ ~Detected(ExecutionOf[r]) /\ PassedBy(r)
    BY <1>1, DetectedStays DEF Recorded, Answered, Passed
  <1>3. {c, f, s} \subseteq Threads /\ f[1] = r /\ s[1] = r /\ c[1] = r
        /\ f[2] = "first" /\ s[2] = "second" /\ c[2] = "checkout"
    BY ThreadIs, ThreadsDiffer
  <1>4. /\ EffectBlind(r) => EffectBlind(r)'
        /\ AllBlind(r) => AllBlind(r)'
        /\ EventAt(r, "checkout", "end") \in blind => EventAt(r, "checkout", "end") \in blind'
    BY <1>1 DEF EffectBlind, AllBlind, EventAt
  <1>5. ASSUME t[1] = r, Detectable(ExecutionOf[r]) PROVE EventAt(r, t[2], pc[t]) \in blind'
    BY <1>5, EndDetects DEF EventOf, EventAt
  <1>6. EventOf(t) \in events /\ EventOf(t) = EventAt(t[1], t[2], pc[t])
    BY <1>1 DEF Recorded, Kept, EventOf, EventAt
  <1>7. ASSUME Cardinality(Launched(r)) = 2, pc[c] \in {"end", "returned"}
        PROVE  pc[f] = "ok" /\ pc[s] = "ok" /\ Detectable(ExecutionOf[r])
    <2>1. pc[f] = "ok" /\ pc[s] = "ok"
      BY <1>7, BothLaunched DEF Joined, JoinedAll
    <2> QED
      BY <1>2, <2>1, CompleteEvidence DEF PassedBy, Recorded
  <1>8. ASSUME pc'[f] = "ok", pc'[s] = "ok" PROVE EffectBlind(r)'
    <2>1. CASE pc[f] = "ok" /\ pc[s] = "ok"
      BY <1>2, <1>4, <2>1 DEF AnsweredTo
    <2>2. CASE t = f /\ pc[t] = "effect" /\ pc[s] = "ok"
      <3>1. Detectable(ExecutionOf[r])
        BY <1>2, <1>3, <1>6, <2>2, CompleteEvidence DEF PassedBy, Recorded
      <3>2. EventAt(r, "first", "effect") \in blind'
        BY <1>3, <1>5, <2>2, <3>1
      <3> QED
        BY <3>2 DEF EffectBlind, Attempts, EventAt
    <2>3. CASE t = s /\ pc[t] = "effect" /\ pc[f] = "ok"
      <3>1. Detectable(ExecutionOf[r])
        BY <1>2, <1>3, <1>6, <2>3, CompleteEvidence DEF PassedBy, Recorded
      <3>2. EventAt(r, "second", "effect") \in blind'
        BY <1>3, <1>5, <2>3, <3>1
      <3> QED
        BY <3>2 DEF EffectBlind, Attempts, EventAt
    <2>4. /\ pc[f] = "ok" \/ (f = t /\ pc[f] = "effect")
          /\ pc[s] = "ok" \/ (s = t /\ pc[s] = "effect")
      BY <1>1, <1>3, <1>8, SucceedingThreads
    <2>5. f # s
      BY ThreadsDiffer
    <2> QED
      BY <2>1, <2>2, <2>3, <2>4, <2>5
  <1>9. ASSUME pc'[c] = "returned", Cardinality(Launched(r)') = 2
        PROVE  EffectBlind(r)' /\ EventAt(r, "checkout", "end") \in blind'
    <2>1. pc[c] = "returned" \/ (c = t /\ pc[c] = "end")
      BY <1>1, <1>3, <1>9, SucceedingThreads
    <2>2. Cardinality(Launched(r)) = 2
      BY <1>1, <1>9, <2>1, SucceedingLaunches
    <2>3. CASE pc[c] = "returned"
      BY <1>2, <1>4, <2>2, <2>3 DEF AnsweredTo
    <2>4. CASE c = t /\ pc[c] = "end"
      <3>1. pc[f] = "ok" /\ pc[s] = "ok" /\ Detectable(ExecutionOf[r])
        BY <1>7, <2>2, <2>4
      <3> QED
        BY <1>2, <1>3, <1>4, <1>5, <2>4, <3>1 DEF AnsweredTo
    <2> QED
      BY <2>1, <2>3, <2>4
  <1>10. ASSUME reply'[r] = 2 PROVE AllBlind(r)'
    <2>1. CASE reply'[r] = reply[r]
      BY <1>2, <1>4, <1>10, <2>1 DEF AnsweredTo
    <2>2. CASE reply'[r] # reply[r]
      <3>1. PICK o : o = t[1]
        OBVIOUS
      <3>2. /\ pc[t] = "exit" /\ t = Gateway(o)
            /\ reply' = [reply EXCEPT ![o] = Cardinality(Launched(o))]
        BY <1>1, <2>2, <3>1, SucceedingIs
      <3>3. r = o /\ Cardinality(Launched(r)) = 2
        BY <1>10, <2>2, <3>2 DEF IInv, DataOK
      <3>4. pc[c] = "returned"
        BY <3>2, <3>3 DEF Joined, ExitAfterReturn
      <3>5. Detectable(ExecutionOf[r])
        BY <1>7, <3>3, <3>4
      <3>6. t[2] = "gateway"
        BY <3>2, ThreadsDiffer
      <3>7. EventAt(r, "gateway", "exit") \in blind'
        BY <1>5, <3>1, <3>2, <3>3, <3>5, <3>6
      <3>8. EffectBlind(r) /\ EventAt(r, "checkout", "end") \in blind
        BY <1>2, <3>3, <3>4 DEF AnsweredTo
      <3> QED
        BY <1>4, <3>7, <3>8 DEF AllBlind, EffectBlind, EventAt
    <2> QED
      BY <2>1, <2>2
  <1> QED
    BY <1>8, <1>9, <1>10 DEF AnsweredTo, EventAt

\* Until a reset every step keeps events where they are needed.
LEMMA StepRecords ==
    ASSUME IInv, Joined, resets = 0 => Recorded, [Next]_vars, resets' = 0
    PROVE  Recorded'
  <1>1. ~Reset
    BY DEF Reset, IInv, DataOK
  <1>2. resets = 0
    BY <1>1 DEF Next, Step, RequestStep, ThreadStep, Ingest, DetectNothing, DetectIncident,
       CheckNodes, NodesMissing, PutIncident, Accepted, Arrive, LowerLatency, Resume, Leave,
       SetLatencyFails, AbandonLatency, TimerFires, Join, Authorize, Wake, Commit, CallFails,
       DetectionFails, Abort, Lose, Disconnect, vars
  <1>3. Recorded
    BY <1>2
  <1>4. ASSUME UNCHANGED <<pc, reply, coreVars, callVars, blind>> PROVE Recorded'
    <2>1. Kept' /\ Passed'
      BY <1>3, <1>4 DEF Recorded, Kept, Passed, PassedBy, EventOf, ParentOf,
         EntryEvent, BeginEvent, EventAt, coreVars, callVars
    <2>2. Answered'
      BY <1>3, <1>4, AnsweredUntouched DEF Recorded, coreVars
    <2> QED
      BY <2>1, <2>2 DEF Recorded
  <1>5. ASSUME NEW t \in Threads, NEW p \in Places, Hop(t, p), pc[t] \notin EmitsAt,
               effects \subseteq effects', UNCHANGED <<reply, coreVars, callVars, blind>>
        PROVE  Recorded'
    <2>1. Kept' /\ Passed'
      BY <1>3, <1>5, KeptAfterHop, PassedAfterHop DEF Recorded, coreVars
    <2>2. /\ \A u \in Threads : pc'[u] \in {"ok", "returned"} => pc'[u] = pc[u]
          /\ \A r \in Requests : Launched(r)' = Launched(r)
      BY <1>5, HopEnds, HopKeeps
    <2>3. UNCHANGED incidents
      BY <1>5 DEF coreVars
    <2>4. Answered'
      BY <1>3, <1>5, <2>2, <2>3, AnsweredStays DEF Recorded
    <2> QED
      BY <2>1, <2>4 DEF Recorded
  <1>6. ASSUME NEW r \in Requests, RequestStep(r) \/ Arrive(r) \/ SetLatencyFails(r)
        PROVE  Recorded'
    BY <1>5, <1>6, RequestHops
  <1>7. ASSUME NEW t \in Threads, pc[t] \in EmitsAt \cup {"authorize", "commit"}, Failing(t),
               api' = [api EXCEPT ![t] = "idle"], seen' = [seen EXCEPT ![t] = {}],
               UNCHANGED <<events, effects>>, UNCHANGED incidents \/ Inserts(t),
               blind \subseteq blind'
        PROVE  Recorded'
    <2>1. Moves(t)
      BY <1>7, FailingKeeps DEF IInv
    <2>2. Kept'
      BY <1>3, <1>7, <2>1, KeptAfterCall DEF Recorded
    <2>3. Passed' /\ UNCHANGED reply
      BY <1>3, <1>7, FailureHops, PassedAfterHop DEF Recorded
    <2>4. PICK p \in Places : Hop(t, p)
      BY <1>7, FailureHops
    <2>5. /\ \A u \in Threads : pc'[u] \in {"ok", "returned"} => pc'[u] = pc[u]
          /\ \A r \in Requests : Launched(r)' = Launched(r)
      BY <1>7, <2>3, <2>4, HopEnds, HopKeeps
    <2>6. Answered'
      BY <1>3, <1>7, <2>3, <2>5, AnsweredStays DEF Recorded
    <2> QED
      BY <2>2, <2>3, <2>6 DEF Recorded
  <1>8. ASSUME NEW t \in Threads, CallFails(t) PROVE Recorded'
    BY <1>7, <1>8 DEF CallFails
  <1>9. ASSUME NEW t \in Threads, Ends(t)
        PROVE  Recorded'
    <2>1. /\ Accepted(t) /\ api[t] # "idle" /\ (UNCHANGED incidents \/ Inserts(t))
          /\ blind \subseteq blind'
      BY <1>9, EndsWith
    <2>2. pc[t] \in EmitsAt
      BY <1>9, EndsWith
    <2>3. CASE Failing(t)
      BY <1>7, <2>1, <2>2, <2>3 DEF Accepted
    <2>4. CASE Succeeding(t)
      <3>1. Moves(t)
        BY <2>2, <2>4, SucceedingKeeps DEF IInv
      <3>2. Kept'
        BY <1>3, <2>1, <3>1, KeptAfterCall DEF Recorded, Accepted
      <3>3. Passed'
        BY <1>3, <2>1, <2>4, PassedAfterSuccess DEF Recorded, Accepted
      <3>4. Answered'
        BY <1>3, <1>9, <2>4, AnswerDetects
      <3> QED
        BY <3>2, <3>3, <3>4 DEF Recorded
    <2> QED
      BY <2>1, <2>3, <2>4 DEF Accepted
  <1>10. ASSUME NEW t \in Threads, ThreadStep(t) PROVE Recorded'
    <2>1. CASE IsAttempt(t) /\ (Authorize(t) \/ Wake(t) \/ Commit(t))
      BY <1>5, <2>1, AttemptHops
    <2>2. CASE Abort(t)
      BY <1>8, <2>2 DEF Abort
    <2> QED
      BY <1>3, <1>9, <1>10, <2>1, <2>2, IngestRecords, DetectRecords DEF ThreadStep, Ends
  <1>11. CASE Lose
    BY <1>6, <1>8, <1>9, <1>11 DEF Lose, Ends
  <1>12. CASE UNCHANGED vars \/ \E r \in Requests : Disconnect(r)
    BY <1>4, <1>12 DEF Disconnect, vars, checkoutVars
  <1> QED
    BY <1>1, <1>6, <1>10, <1>11, <1>12 DEF Next, Step

\* Until a reset, events are recorded.
LEMMA AlwaysRecorded == Spec => [](resets = 0 => Recorded)
  <1>1. Init => Recorded
    <2> SUFFICES ASSUME Init PROVE Recorded
      OBVIOUS
    <2>1. \A t \in Threads : pc[t] = "idle"
      BY DEF Init
    <2>2. ASSUME NEW r \in Requests PROVE PassedBy(r)
      <3>1. pc[Checkout(r)] = "idle" /\ pc[First(r)] = "idle" /\ pc[Second(r)] = "idle"
        BY <2>1, ThreadIs
      <3> QED
        BY <3>1 DEF PassedBy, BegunAt
    <2>3. ASSUME NEW r \in Requests PROVE AnsweredTo(r)
      <3>1. pc[Checkout(r)] = "idle" /\ pc[First(r)] = "idle" /\ reply[r] = 0
        BY <2>1, ThreadIs DEF Init
      <3> QED
        BY <3>1 DEF AnsweredTo
    <2> QED
      BY <2>2, <2>3 DEF Init, Recorded, Kept, Passed, Answered
  <1>2. (IInv /\ Joined /\ (resets = 0 => Recorded)) /\ [Next]_vars => (resets = 0 => Recorded)'
    BY StepRecords
  <1> QED
    BY <1>1, <1>2, Invariance, AlwaysJoined, PTL DEF Spec

\* No missed incident (ReplyMeansDetected, detect.go:23, main.go:89 and service.go:115): an
\* answer of two attempts comes after their incident is stored, whatever calls were lost
\* on the way and whichever other detections ran beside it, unless all three detections
\* that follow the second effect have failed.
THEOREM AnsweredRetriesAreDetected == Spec => []ReplyMeansDetected
  <1>1. (resets = 0 => Recorded) => ReplyMeansDetected
    BY DEF ReplyMeansDetected, Recorded, Answered, AnsweredTo
  <1> QED
    BY <1>1, AlwaysRecorded, PTL

-----------------------------------------------------------------------------
(* The healthy control.  Payment's latency is one setting for everybody.   *)
(* What a lone control needs is that the setting is low whenever its own   *)
(* attempt may still read it: its gateway restores the latency only after  *)
(* its checkout has come to an end, or not at all, when its client has     *)
(* left and its context is cancelled.                                      *)

\* While the control's checkout is at work, Payment is fast, and its gateway
\* waits for it or will not restore anything; its timer never fires.
Quick(r) ==
    /\ pc[Gateway(r)] = "entry" => latency = HealthyPaymentLatencyMs
    /\ pc[Checkout(r)] \in {"begin", "select", "end"} =>
         /\ latency = HealthyPaymentLatencyMs
         /\ pc[Gateway(r)] = "calling" \/ (gone[r] /\ pc[Gateway(r)] \in {"leaving", "left"})
    /\ pc[Checkout(r)] \notin {"timeout", "retry", "wait"}
    /\ charge[First(r)] # GoldenPaymentLatencyMs

\* No event says that it did.
NoTimeout(r, es) == \A e \in es : e.req = r => e.at # "timeout"

Untroubled(r) ==
    /\ NoTimeout(r, events)
    /\ \A t \in Threads : NoTimeout(r, seen[t])
    /\ incidents[ExecutionOf[r]] = {}

Calm(r) == Quick(r) /\ Untroubled(r)

-----------------------------------------------------------------------------
(* What a step does to the control.                                        *)

\* A step that leaves the control's gateway, checkout and latencies alone.
LEMMA QuickStays ==
    ASSUME NEW r \in Requests, Quick(r),
           pc'[Gateway(r)] = pc[Gateway(r)], pc'[Checkout(r)] = pc[Checkout(r)],
           latency' \in {latency, HealthyPaymentLatencyMs}, charge'[First(r)] = charge[First(r)],
           gone[r] => gone'[r]
    PROVE  Quick(r)'
  BY DEF Quick

\* A thread of another role or request that moves on its own leaves it quick.
LEMMA OthersMove ==
    ASSUME IInv, NEW r \in Requests, Quick(r), NEW t \in Threads, t # Gateway(r), t # Checkout(r),
           \A u \in Threads : u # t => pc'[u] = pc[u],
           latency' \in {latency, HealthyPaymentLatencyMs}, charge'[First(r)] = charge[First(r)],
           UNCHANGED gone
    PROVE  Quick(r)'
  <1>1. Gateway(r) \in Threads /\ Checkout(r) \in Threads
    BY ThreadIs
  <1> QED
    BY <1>1, QuickStays

\* The steps of gateways: the control's comes after its checkout, or does not restore.
LEMMA GatewayQuick ==
    ASSUME IInv, NEW r \in Requests, Healthy = {r}, Quick(r), NEW o \in Requests,
           \/ Arrive(o) \/ LowerLatency(o) \/ Resume(o) \/ Leave(o)
           \/ SetLatencyFails(o) /\ (~gone[o] \/ UNCHANGED latency)
    PROVE  Quick(r)'
  <1> DEFINE g == Gateway(r)  c == Checkout(r)
  <1>1. /\ g \in Threads /\ c \in Threads /\ g # c
        /\ Gateway(o) \in Threads /\ Gateway(o) # c /\ (Gateway(o) = g => o = r)
    BY ThreadIs, ThreadsDiffer
  <1>2. /\ UNCHANGED <<charge, gone>> /\ pc'[c] = pc[c]
        /\ \A u \in Threads : u # Gateway(o) => pc'[u] = pc[u]
    BY <1>1 DEF Arrive, LowerLatency, Resume, Leave, SetLatencyFails, IInv, Control
  <1>3. CASE o # r
    <2>1. o \notin Healthy
      BY <1>3
    <2>2. latency' \in {latency, HealthyPaymentLatencyMs}
      BY <2>1 DEF Arrive, LowerLatency, Resume, Leave, SetLatencyFails
    <2> QED
      BY <1>1, <1>2, <1>3, <2>2, QuickStays
  <1>4. CASE o = r
    <2>1. pc[g] \in {"idle", "lower", "entry"} => pc[c] = "idle"
      BY DEF IInv, Control
    <2>2. CASE Arrive(r)
      <3>1. pc[g] = "idle" /\ pc'[g] = "lower"
        BY <1>1, <2>2 DEF Arrive, IInv, Control
      <3> QED
        BY <1>2, <2>1, <3>1 DEF Quick
    <2>3. CASE LowerLatency(r)
      <3>1. pc[g] = "lower" /\ pc'[g] = "entry" /\ latency' = HealthyPaymentLatencyMs
        BY <1>1, <2>3 DEF LowerLatency, IInv, Control
      <3> QED
        BY <1>2, <2>1, <3>1 DEF Quick
    <2>4. CASE Resume(r)
      <3>1. /\ pc[g] = "calling" /\ pc'[g] \in {"exit", "leaving"} /\ latency' = latency
            /\ pc'[g] = "exit" => pc[c] = "returned"
            /\ pc[c] \in {"returned", "failed"} \/ gone[r]
        BY <1>1, <2>4 DEF Resume, IInv, Control
      <3> QED
        BY <1>2, <3>1 DEF Quick
    <2>5. CASE Leave(r)
      <3>1. pc[g] = "leaving" /\ pc'[g] = "left" /\ ~gone[r]
        BY <1>1, <2>5 DEF Leave, IInv, Control
      <3> QED
        BY <1>2, <3>1 DEF Quick
    <2>6. CASE SetLatencyFails(r) /\ (~gone[r] \/ UNCHANGED latency)
      <3>1. pc[g] \in {"lower", "leaving"} /\ pc'[g] = "left"
        BY <1>1, <2>6 DEF SetLatencyFails, IInv, Control
      <3> QED
        BY <1>2, <2>1, <2>6, <3>1 DEF Quick
    <2> QED
      BY <1>4, <2>2, <2>3, <2>4, <2>5, <2>6
  <1> QED
    BY <1>3, <1>4

\* The steps of checkouts: a prompt attempt of 50 ms keeps the timer from firing.
LEMMA CheckoutQuick ==
    ASSUME Prompt, IInv, NEW r \in Requests, Quick(r), NEW o \in Requests,
           TimerFires(o) \/ Join(o)
    PROVE  Quick(r)'
  <1>1. /\ Gateway(r) \in Threads /\ Checkout(r) \in Threads /\ First(r) \in Threads
        /\ Checkout(o) \in Threads /\ Checkout(o) # Gateway(r)
        /\ Checkout(o) = Checkout(r) => o = r
    BY ThreadIs, ThreadsDiffer
  <1>2. UNCHANGED <<charge, gone, latency>> /\ \A u \in Threads : u # Checkout(o) => pc'[u] = pc[u]
    BY DEF TimerFires, Join, IInv, Control
  <1>3. CASE o # r
    BY <1>1, <1>2, <1>3, OthersMove
  <1>4. CASE o = r
    <2>1. ~(charge[First(r)] > DefaultTimeoutMs)
      <3>1. charge[First(r)] \in {0, HealthyPaymentLatencyMs}
        BY <1>1 DEF Quick, IInv, DataOK
      <3> QED
        BY <3>1 DEF DefaultTimeoutMs, HealthyPaymentLatencyMs
    <2>2. Join(r)
      BY <1>4, <2>1 DEF TimerFires
    <2>3. pc[Checkout(r)] \in {"select", "wait"} /\ pc'[Checkout(r)] \in {"end", "failed"}
      BY <1>1, <2>2 DEF Join, IInv, Control
    <2> QED
      BY <1>1, <1>2, <2>3 DEF Quick
  <1> QED
    BY <1>3, <1>4

\* The steps of attempts: the control's reads the low latency.
LEMMA AttemptQuick ==
    ASSUME IInv, Joined, NEW r \in Requests, Quick(r), NEW t \in Threads, IsAttempt(t),
           Authorize(t) \/ Wake(t) \/ Commit(t)
    PROVE  Quick(r)'
  <1>1. /\ First(r) \in Threads /\ t # Gateway(r) /\ t # Checkout(r)
        /\ First(r)[1] = r
    BY ThreadIs, ThreadsDiffer DEF IsAttempt, Attempts
  <1>2. /\ UNCHANGED <<latency, gone>>
        /\ \A u \in Threads : u # t => pc'[u] = pc[u] /\ charge'[u] = charge[u]
    BY DEF Authorize, Wake, Commit, IInv, Control, DataOK
  <1>3. CASE charge'[First(r)] = charge[First(r)]
    BY <1>1, <1>2, <1>3, OthersMove
  <1>4. CASE charge'[First(r)] # charge[First(r)]
    <2>1. t = First(r) /\ Authorize(t)
      BY <1>1, <1>2, <1>4 DEF Wake, Commit
    <2>2. pc[First(r)] = "authorize" /\ pc[Checkout(r)] # "failed"
      BY <1>1, <2>1 DEF Authorize
    <2>3. First(r) \in Launched(r)
      BY <2>2 DEF Launched
    <2>4. pc[Checkout(r)] \notin {"end", "returned", "idle", "begin"}
      BY <2>2, <2>3 DEF Joined, JoinedAll, IInv, Control
    <2>5. pc[Checkout(r)] = "select"
      BY <2>2, <2>4 DEF Quick, IInv, Control, CheckoutAt
    <2>6. charge'[First(r)] = HealthyPaymentLatencyMs
      BY <1>1, <2>1, <2>5 DEF Quick, Authorize, IInv, DataOK
    <2>7. pc'[Gateway(r)] = pc[Gateway(r)] /\ pc'[Checkout(r)] = pc[Checkout(r)]
      BY <1>1, <1>2, ThreadIs
    <2> QED
      BY <1>2, <2>6, <2>7 DEF Quick, HealthyPaymentLatencyMs, GoldenPaymentLatencyMs
  <1> QED
    BY <1>3, <1>4

\* A call that fails ends the part of the thread that made it.
LEMMA FailureQuick ==
    ASSUME IInv, Joined, NEW r \in Requests, Quick(r), NEW t \in Threads,
           pc[t] \in EmitsAt \cup {"authorize", "commit"}, Failing(t),
           UNCHANGED <<charge, latency, gone>>
    PROVE  Quick(r)'
  <1>1. /\ Gateway(r) \in Threads /\ Checkout(r) \in Threads /\ Gateway(r) # Checkout(r)
        /\ Gateway(r)[2] = "gateway" /\ Checkout(r)[2] = "checkout"
    BY ThreadIs, ThreadsDiffer
  <1>2. /\ \A u \in Threads : u # t => pc'[u] = pc[u]
        /\ pc'[t] = AfterError(t)
    BY DEF Failing, IInv, Control
  <1>3. CASE t = Gateway(r)
    <2>1. pc'[t] = "leaving"
      BY <1>1, <1>2, <1>3 DEF AfterError
    <2>2. pc[t] \in {"entry", "exit"}
      BY <1>3 DEF IInv, Control, GatewayAt, EmitsAt
    <2>3. pc[Checkout(r)] \in {"idle", "returned"}
      BY <1>3, <2>2 DEF IInv, Control, Joined, ExitAfterReturn
    <2> QED
      BY <1>1, <1>2, <1>3, <2>1, <2>3 DEF Quick
  <1>4. CASE t = Checkout(r)
    <2>1. pc'[t] = "failed"
      BY <1>1, <1>2, <1>4 DEF AfterError
    <2> QED
      BY <1>1, <1>2, <1>4, <2>1 DEF Quick
  <1>5. CASE t # Gateway(r) /\ t # Checkout(r)
    BY <1>2, <1>5, OthersMove
  <1> QED
    BY <1>3, <1>4, <1>5

\* A recorded event lets its thread go on.
LEMMA SuccessQuick ==
    ASSUME IInv, Joined, NEW r \in Requests, Quick(r), NEW t \in Threads, pc[t] \in EmitsAt,
           Succeeding(t), UNCHANGED <<charge, latency, gone>>
    PROVE  Quick(r)'
  <1>1. PICK o : o = t[1]
    OBVIOUS
  <1>2. o \in Requests /\ Gateway(r) \in Threads /\ Checkout(r) \in Threads
    BY <1>1, ThreadIs
  <1>3. /\ Gateway(r) # Checkout(o) /\ Gateway(r) # First(o) /\ Gateway(r) # Second(o)
        /\ Checkout(r) # Gateway(o) /\ Checkout(r) # First(o) /\ Checkout(r) # Second(o)
        /\ Gateway(r) # Checkout(r)
        /\ Gateway(r) = Gateway(o) => r = o
        /\ Checkout(r) = Checkout(o) => r = o
        /\ ~IsAttempt(Gateway(r)) /\ ~IsAttempt(Checkout(r))
    BY ThreadsDiffer DEF IsAttempt, Attempts
  <1>4. Control
    BY DEF IInv
  <1>5. CASE o # r
    <2>1. pc'[Gateway(r)] = pc[Gateway(r)] /\ pc'[Checkout(r)] = pc[Checkout(r)]
      BY <1>1, <1>2, <1>3, <1>4, <1>5, SucceedingIs DEF Starting, Only
    <2> QED
      BY <2>1, QuickStays
  <1>6. CASE o = r
    <2>1. /\ pc[Gateway(r)] \in {"idle", "lower", "entry"} => pc[Checkout(r)] = "idle"
          /\ pc[Gateway(r)] = "exit" => pc[Checkout(r)] = "returned"
      BY DEF IInv, Control, Joined, ExitAfterReturn
    <2>2. CASE pc[t] = "entry" /\ t = Gateway(r) /\ Starting(t, "calling", Checkout(r), "begin")
      <3>1. pc'[Gateway(r)] = "calling" /\ pc'[Checkout(r)] = "begin"
        BY <1>2, <1>3, <2>2 DEF Starting
      <3> QED
        BY <2>2, <3>1 DEF Quick
    <2>3. CASE pc[t] = "begin" /\ t = Checkout(r) /\ Starting(t, "select", First(r), "authorize")
      <3>1. pc'[Gateway(r)] = pc[Gateway(r)] /\ pc'[Checkout(r)] = "select"
        BY <1>2, <1>3, <1>6, <2>3 DEF Starting
      <3> QED
        BY <2>3, <3>1 DEF Quick
    <2>4. CASE pc[t] \in {"retry", "timeout"} /\ t = Checkout(r)
      BY <2>4 DEF Quick
    <2>5. CASE pc[t] = "exit" /\ t = Gateway(r) /\ Only(t, "leaving")
      <3>1. pc'[Gateway(r)] = "leaving" /\ pc'[Checkout(r)] = "returned"
        BY <1>2, <1>3, <2>1, <2>5 DEF Only
      <3> QED
        BY <3>1 DEF Quick
    <2>6. CASE pc[t] = "end" /\ t = Checkout(r) /\ Only(t, "returned")
      <3>1. pc'[Gateway(r)] = pc[Gateway(r)] /\ pc'[Checkout(r)] = "returned"
        BY <1>2, <1>3, <2>6 DEF Only
      <3> QED
        BY <3>1 DEF Quick
    <2>7. CASE IsAttempt(t) /\ \E p \in {"sleep", "commit", "ok"} : Only(t, p)
      <3>1. pc'[Gateway(r)] = pc[Gateway(r)] /\ pc'[Checkout(r)] = pc[Checkout(r)]
        BY <1>2, <1>3, <2>7 DEF Only
      <3> QED
        BY <3>1, QuickStays
    <2> QED
      BY <1>1, <1>4, <1>6, <2>2, <2>3, <2>4, <2>5, <2>6, <2>7, SucceedingIs
  <1> QED
    BY <1>5, <1>6

-----------------------------------------------------------------------------
(* What a step does to its evidence.                                       *)

\* Only the control's own checkout could record its timeout.
LEMMA IngestUntroubled ==
    ASSUME IInv, NEW r \in Requests, Calm(r), NEW t \in Threads, Ingest(t)
    PROVE  Untroubled(r)'
  <1>1. events' = events \cup {EventOf(t)} /\ pc[t] \in EmitsAt /\ UNCHANGED <<incidents, seen>>
    BY DEF Ingest
  <1>2. EventOf(t).req = t[1] /\ EventOf(t).at = pc[t]
    BY DEF EventOf
  <1>3. t[1] = r => pc[t] # "timeout"
    BY EmitterIs DEF IInv, Calm, Quick
  <1>4. NoTimeout(r, events')
    BY <1>1, <1>2, <1>3 DEF Calm, Untroubled, NoTimeout
  <1> QED
    BY <1>1, <1>4 DEF Calm, Untroubled

\* What a detection reads is stored.
LEMMA DetectUntroubled ==
    ASSUME IInv, NEW r \in Requests, Untroubled(r), NEW t \in Threads,
           DetectIncident(t) \/ CheckNodes(t)
    PROVE  Untroubled(r)'
  <1>1. UNCHANGED <<events, incidents>>
    BY DEF DetectIncident, CheckNodes, coreVars
  <1>2. \A u \in Threads : seen'[u] = seen[u] \/ seen'[u] \subseteq events
    BY DEF DetectIncident, CheckNodes, IInv, DataOK, Stored
  <1> QED
    BY <1>1, <1>2 DEF Untroubled, NoTimeout

\* A detection that inserts has read a timeout, hence of another execution.
LEMMA CallUntroubled ==
    ASSUME IInv, NEW r \in Requests, \A o \in Requests : ExecutionOf[o] = ExecutionOf[r] => o = r,
           Untroubled(r), NEW t \in Threads,
           seen' = [seen EXCEPT ![t] = {}], UNCHANGED events, UNCHANGED incidents \/ Inserts(t)
    PROVE  Untroubled(r)'
  <1>1. \A u \in Threads : seen'[u] \subseteq seen[u]
    BY DEF IInv, DataOK
  <1>2. ASSUME Inserts(t), ExecutionOf[t[1]] = ExecutionOf[r] PROVE FALSE
    <2>1. /\ \A e \in seen[t] : e \in Event /\ ExecutionOf[e.req] = ExecutionOf[r]
          /\ OracleMatches(seen[t])
      BY <1>2 DEF Inserts, IInv, Evidence, SeenOK, DataOK
    <2>2. PICK e \in seen[t] : e.at = "timeout"
      BY <2>1 DEF OracleMatches
    <2>3. e.req = r
      BY <2>1, <2>2 DEF Event
    <2> QED
      BY <2>2, <2>3 DEF Untroubled, NoTimeout
  <1>3. incidents'[ExecutionOf[r]] = incidents[ExecutionOf[r]]
    <2>1. CASE Inserts(t)
      <3>1. PICK x : x = ExecutionOf[t[1]]
        OBVIOUS
      <3>2. incidents' = incidents \/ incidents' = [incidents EXCEPT ![x] = seen[t]]
        BY <2>1, <3>1 DEF Inserts
      <3>3. x # ExecutionOf[r]
        BY <1>2, <2>1, <3>1
      <3>4. ExecutionOf[r] \in DOMAIN incidents
        BY RequestAssumption DEF IInv, DataOK
      <3> QED
        BY <3>2, <3>3, <3>4
    <2> QED
      BY <2>1
  <1> QED
    BY <1>1, <1>3 DEF Untroubled, NoTimeout

-----------------------------------------------------------------------------
(* The control stays silent.                                               *)

\* Every step keeps a lone control calm.
LEMMA StepCalm ==
    ASSUME Prompt, NEW r \in Requests, Healthy = {r},
           \A o \in Requests : ExecutionOf[o] = ExecutionOf[r] => o = r,
           IInv, Joined, Calm(r), [Next]_vars
    PROVE  Calm(r)'
  <1>1. Quick(r) /\ Untroubled(r)
    BY DEF Calm
  <1>2. ASSUME UNCHANGED <<coreVars, callVars>> PROVE Untroubled(r)'
    BY <1>1, <1>2 DEF Untroubled, coreVars, callVars
  <1>3. ASSUME NEW o \in Requests,
               \/ Arrive(o) \/ LowerLatency(o) \/ Resume(o) \/ Leave(o) \/ TimerFires(o) \/ Join(o)
               \/ SetLatencyFails(o) /\ (~gone[o] \/ UNCHANGED latency)
        PROVE  Calm(r)'
    <2>1. UNCHANGED <<coreVars, callVars>>
      BY <1>3 DEF Arrive, LowerLatency, Resume, Leave, TimerFires, Join, SetLatencyFails
    <2>2. Quick(r)'
      BY <1>1, <1>3, GatewayQuick, CheckoutQuick
    <2> QED
      BY <1>2, <2>1, <2>2 DEF Calm
  <1>4. ASSUME NEW t \in Threads, Accepted(t), api[t] # "idle", UNCHANGED incidents \/ Inserts(t)
        PROVE  Calm(r)'
    <2>1. pc[t] \in EmitsAt
      BY <1>4 DEF IInv, Calling
    <2>2. Quick(r)'
      BY <1>1, <1>4, <2>1, FailureQuick, SuccessQuick DEF Accepted
    <2>3. Untroubled(r)'
      BY <1>1, <1>4, CallUntroubled DEF Accepted
    <2> QED
      BY <2>2, <2>3 DEF Calm
  <1>5. ASSUME NEW t \in Threads, CallFails(t) PROVE Calm(r)'
    <2>1. Quick(r)'
      BY <1>1, <1>5, FailureQuick DEF CallFails
    <2>2. Untroubled(r)'
      BY <1>1, <1>5, CallUntroubled DEF CallFails
    <2> QED
      BY <2>1, <2>2 DEF Calm
  <1>6. ASSUME NEW t \in Threads, ThreadStep(t) PROVE Calm(r)'
    <2>1. CASE Ingest(t) \/ DetectIncident(t) \/ CheckNodes(t)
      <3>1. Quick(r)'
        BY <1>1, <2>1 DEF Ingest, DetectIncident, CheckNodes, checkoutVars, Quick
      <3>2. Untroubled(r)'
        BY <1>1, <2>1, IngestUntroubled, DetectUntroubled
      <3> QED
        BY <3>1, <3>2 DEF Calm
    <2>2. CASE DetectNothing(t) \/ NodesMissing(t) \/ PutIncident(t)
      <3>1. Accepted(t) /\ api[t] # "idle" /\ (UNCHANGED incidents \/ Inserts(t))
        BY <2>2 DEF DetectNothing, NodesMissing, PutIncident, Inserts
      <3> QED
        BY <1>4, <3>1
    <2>3. CASE Abort(t)
      BY <1>5, <2>3 DEF Abort
    <2>4. CASE IsAttempt(t) /\ (Authorize(t) \/ Wake(t) \/ Commit(t))
      <3>1. UNCHANGED <<coreVars, callVars>>
        BY <2>4 DEF Authorize, Wake, Commit
      <3> QED
        BY <1>1, <1>2, <2>4, <3>1, AttemptQuick DEF Calm
    <2> QED
      BY <1>6, <2>1, <2>2, <2>3, <2>4 DEF ThreadStep
  <1>7. CASE \E o \in Requests : RequestStep(o)
    BY <1>3, <1>7 DEF RequestStep, AbandonLatency
  <1>8. CASE Lose
    BY <1>3, <1>4, <1>5, <1>8 DEF Lose, DetectionFails
  <1>9. CASE Reset
    <2>1. Quick(r)'
      BY <1>1, <1>9 DEF Reset, checkoutVars, Quick
    <2>2. Untroubled(r)'
      BY <1>1, <1>9, RequestAssumption DEF Reset, callVars, Untroubled, NoTimeout
    <2> QED
      BY <2>1, <2>2 DEF Calm
  <1>10. CASE \E o \in Requests : Disconnect(o)
    <2>1. UNCHANGED <<pc, latency, charge, coreVars, callVars>> /\ (gone[r] => gone'[r])
      BY <1>10 DEF Disconnect, IInv, DataOK
    <2> QED
      BY <1>1, <1>2, <2>1, QuickStays DEF Calm
  <1>11. CASE UNCHANGED vars
    BY <1>1, <1>2, <1>11 DEF vars, checkoutVars, Quick, Calm
  <1> QED
    BY <1>3, <1>6, <1>7, <1>8, <1>9, <1>10, <1>11 DEF Next, Step

\* No false alarm for the control (ControlIsSilent, service.go:115): if delays are small and
\* nobody else names its checkout, a lone control leaves the oracle silent, beside any
\* number of faulted checkouts, lost calls, disconnected clients and resets.
THEOREM ControlStaysSilent ==
    ASSUME Prompt, \A r, o \in Requests : ExecutionOf[o] = ExecutionOf[r] => o = r
    PROVE  Spec => []ControlIsSilent
  <1>1. Init => (\A r \in Healthy : Healthy = {r} => Calm(r))
    <2> SUFFICES ASSUME Init, NEW r \in Healthy PROVE Calm(r)
      OBVIOUS
    <2>1. /\ r \in Requests /\ ExecutionOf[r] \in Executions
          /\ Gateway(r) \in Threads /\ Checkout(r) \in Threads /\ First(r) \in Threads
      BY RequestAssumption, ThreadIs
    <2> QED
      BY <2>1 DEF Init, Calm, Quick, Untroubled, NoTimeout, GoldenPaymentLatencyMs
  <1>2. (IInv /\ Joined /\ (\A r \in Healthy : Healthy = {r} => Calm(r))) /\ [Next]_vars
           => (\A r \in Healthy : Healthy = {r} => Calm(r))'
    <2> SUFFICES ASSUME IInv, Joined, [Next]_vars, NEW r \in Healthy, Healthy = {r}, Calm(r)
                 PROVE  Calm(r)'
      OBVIOUS
    <2>1. r \in Requests
      BY RequestAssumption
    <2> QED
      BY <2>1, StepCalm
  <1>3. (\A r \in Healthy : Healthy = {r} => Calm(r)) => ControlIsSilent
    BY DEF ControlIsSilent, Detected, Calm, Untroubled
  <1> QED
    BY <1>1, <1>2, <1>3, Invariance, AlwaysJoined, PTL DEF Spec
=============================================================================
