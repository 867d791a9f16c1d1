------------------------ MODULE CommandCenterProofs ------------------------
(***************************************************************************)
(* Proofs about the Command Center: its panels are well formed, and none   *)
(* shows an answer of another incident or epoch, but for flows that a      *)
(* reset overtook.                                                         *)
(*                                                                         *)
(* NothingStale is not inductive: an answer that is still to come must be  *)
(* known to carry the current incident and epoch whenever its token is     *)
(* current, and a reset that is under way must have left current only the  *)
(* tokens issued behind it, since its success changes incident and epoch   *)
(* without another invalidation.                                           *)
(*                                                                         *)
(* Nor is ChainMatches: a panel may only change while nothing is shown     *)
(* that was made from it.  Chained says why that is so: a flow that may    *)
(* still answer has its panel to itself, and that panel is not yet settled,*)
(* while whatever is shown has settled panels for inputs.  A reset that    *)
(* succeeds takes the inputs from the one flow still pending; what follows *)
(* is Orphaned, where nothing but that flow's own panel may be filled.     *)
(***************************************************************************)
EXTENDS CommandCenterProps, TLAPS

\* A token whose generation is current was issued in this epoch, and under
\* this incident, or behind a reset that has succeeded since.  While a reset
\* is under way, only tokens issued behind it are current.
TokensOK ==
    /\ resetting <= generation
    /\ \A f \in DOMAIN flows : flows[f].gen <= generation /\ flows[f].epoch <= epoch
    /\ \A f \in DOMAIN flows :
          Current(f) => IF flows[f].epoch = epoch
                          THEN flows[f].incident = selected
                          ELSE flows[f].behind /\ selected = None
    /\ resetting > 0 => \A f \in DOMAIN flows : Current(f) => flows[f].behind

IInv == TypeOK /\ TokensOK /\ NothingStale

-----------------------------------------------------------------------------
(* The building blocks of the actions.                                     *)

\* Appending a flow keeps the others and adds the new one.
LEMMA AppendFlow ==
    ASSUME flows \in Seq(Flow), NEW e \in Flow
    PROVE  /\ Append(flows, e) \in Seq(Flow)
           /\ Len(Append(flows, e)) = Len(flows) + 1
           /\ DOMAIN Append(flows, e) = 1 .. (Len(flows) + 1)
           /\ \A f \in 1 .. Len(flows) : Append(flows, e)[f] = flows[f]
           /\ Append(flows, e)[Len(flows) + 1] = e
  OBVIOUS

\* What a flow does leaves everything but its phase.
LEMMA GoesFlow ==
    ASSUME flows \in Seq(Flow), NEW f \in DOMAIN flows,
           NEW phase \in {"request", "poll", "done"}, Goes(f, phase)
    PROVE  /\ flows' \in Seq(Flow) /\ Len(flows') = Len(flows)
           /\ DOMAIN flows' = DOMAIN flows
           /\ \A g \in DOMAIN flows :
                 /\ flows'[g].kind = flows[g].kind
                 /\ flows'[g].gen = flows[g].gen
                 /\ flows'[g].incident = flows[g].incident
                 /\ flows'[g].epoch = flows[g].epoch
                 /\ flows'[g].of = flows[g].of
                 /\ flows'[g].behind = flows[g].behind
                 /\ flows'[g].phase = IF g = f THEN phase ELSE flows[g].phase
  <1> DEFINE next == [flows[f] EXCEPT !.phase = phase]
  <1>1. flows[f] \in Flow
    OBVIOUS
  <1>2. /\ next \in Flow
        /\ next.kind = flows[f].kind /\ next.gen = flows[f].gen
        /\ next.incident = flows[f].incident /\ next.epoch = flows[f].epoch
        /\ next.of = flows[f].of /\ next.phase = phase /\ next.behind = flows[f].behind
    BY <1>1 DEF Flow
  <1>3. flows' = [flows EXCEPT ![f] = next]
    BY DEF Goes
  <1> HIDE DEF next
  <1>4. flows' \in Seq(Flow) /\ Len(flows') = Len(flows) /\ DOMAIN flows' = DOMAIN flows
    BY <1>2, <1>3
  <1>5. \A g \in DOMAIN flows : flows'[g] = IF g = f THEN next ELSE flows[g]
    BY <1>3
  <1> QED
    BY <1>2, <1>4, <1>5

\* Generations and epochs are numbers.
LEMMA FlowGen ==
    ASSUME TypeOK
    PROVE  /\ generation \in Nat /\ epoch \in Nat /\ resetting \in Nat
           /\ \A f \in DOMAIN flows : flows[f].gen \in Nat /\ flows[f].epoch \in Nat
  <1>1. flows \in Seq(Flow) /\ generation \in Nat /\ epoch \in Nat /\ resetting \in Nat
    BY BoundsAssumption DEF TypeOK
  <1>2. ASSUME NEW f \in DOMAIN flows PROVE flows[f].gen \in Nat /\ flows[f].epoch \in Nat
    <2>1. flows[f] \in Flow
      BY <1>1
    <2> QED
      BY <2>1 DEF Flow
  <1> QED
    BY <1>1, <1>2

\* Panels that are not ready satisfy whatever is said of those that are.
LEMMA NoPanelsFact ==
    /\ NoPanels \in [Panels -> Panel]
    /\ \A p \in Panels : NoPanels[p].status # "ready"
  BY BoundsAssumption DEF NoPanels, Idle, Panel

\* A panel that goes to "loading" or "error" leaves the others.
LEMMA NotReadyFact ==
    ASSUME panel \in [Panels -> Panel], NEW p \in Panels, NEW status \in {"loading", "error"}
    PROVE  LET new == [panel EXCEPT ![p] = [Idle EXCEPT !.status = status]]
           IN  /\ new \in [Panels -> Panel]
               /\ new[p].status # "ready"
               /\ \A q \in Panels \ {p} : new[q] = panel[q]
  <1>1. [Idle EXCEPT !.status = status] \in Panel /\ [Idle EXCEPT !.status = status].status # "ready"
    BY BoundsAssumption DEF Idle, Panel
  <1> QED
    BY <1>1

\* A panel that becomes ready shows the flow it is given.
LEMMA ReadyFact ==
    ASSUME panel \in [Panels -> Panel], NEW p \in Panels, NEW f \in 1 .. MaxFlows,
           NEW run \in RunViews \cup {None}
    PROVE  /\ Ready(p, f, run) \in [Panels -> Panel]
           /\ Ready(p, f, run)[p] = [status |-> "ready", by |-> f, run |-> run]
           /\ \A q \in Panels \ {p} : Ready(p, f, run)[q] = panel[q]
  BY DEF Ready, Panel

\* A click that starts a flow.
LEMMA StartKeeps ==
    ASSUME IInv, NEW kind \in Kinds, NEW of \in SUBSET (1 .. MaxFlows), Start(kind, of),
           UNCHANGED <<generation, reset, resetting, selected, epoch>>,
           demo' \in {"idle", "starting", "waiting", "failed"}
    PROVE  IInv'
  <1> DEFINE e == [kind |-> kind, gen |-> generation, incident |-> selected,
                   epoch |-> epoch, of |-> of, phase |-> "request", behind |-> resetting > 0]
  <1> USE BoundsAssumption
  <1>0. e \in Flow /\ e.gen = generation /\ e.incident = selected /\ e.epoch = epoch
    BY DEF IInv, TypeOK, Flow
  <1>1. /\ e \in Flow /\ e.gen = generation /\ e.incident = selected /\ e.epoch = epoch
        /\ resetting > 0 => e.behind
    BY <1>0
  <1>2. flows' = Append(flows, e) /\ Len(flows) < MaxFlows /\ flows \in Seq(Flow)
    BY DEF Start, IInv, TypeOK
  <1> HIDE DEF e
  <1>3. /\ flows' \in Seq(Flow) /\ Len(flows') = Len(flows) + 1 /\ Len(flows') <= MaxFlows
        /\ DOMAIN flows' = 1 .. (Len(flows) + 1) /\ DOMAIN flows = 1 .. Len(flows)
        /\ \A f \in 1 .. Len(flows) : flows'[f] = flows[f]
        /\ flows'[Len(flows) + 1] = e
    BY <1>1, <1>2, AppendFlow
  <1>4. /\ panel' \in [Panels -> Panel]
        /\ \A p \in Panels : panel'[p].status = "ready" => panel'[p] = panel[p]
    <2>1. CASE kind \in Panels
      <3>1. panel' = [panel EXCEPT ![kind] = [Idle EXCEPT !.status = "loading"]]
        BY <2>1 DEF Start, Loading
      <3> QED
        BY <2>1, <3>1, NotReadyFact DEF IInv, TypeOK
    <2>2. CASE kind \notin Panels
      BY <2>2 DEF Start, IInv, TypeOK
    <2> QED
      BY <2>1, <2>2
  <1>5. \A p \in Panels : panel'[p].status = "ready" =>
            panel[p].by \in 1 .. Len(flows) /\ flows'[panel'[p].by] = flows[panel[p].by]
    BY <1>3, <1>4 DEF IInv, TypeOK, PanelOK
  <1>6. TypeOK'
    <2>1. \A p \in Panels : PanelOK(p)'
      BY <1>3, <1>4, <1>5 DEF IInv, TypeOK, PanelOK
    <2> QED
      BY <1>3, <1>4, <2>1 DEF IInv, TypeOK
  <1>7. TokensOK'
    <2>1. generation \in Nat /\ epoch \in Nat /\ resetting \in Nat
      BY FlowGen DEF IInv
    <2>2. ASSUME NEW f \in DOMAIN flows'
          PROVE  /\ flows'[f].gen <= generation /\ flows'[f].epoch <= epoch
                 /\ flows'[f].gen = generation =>
                       /\ IF flows'[f].epoch = epoch
                            THEN flows'[f].incident = selected
                            ELSE flows'[f].behind /\ selected = None
                       /\ resetting > 0 => flows'[f].behind
      <3>1. CASE f \in DOMAIN flows
        BY <1>3, <2>1, <3>1 DEF IInv, TokensOK, Current
      <3>2. CASE f = Len(flows) + 1
        <4>1. flows'[f] = e
          BY <1>3, <3>2
        <4> QED
          BY <1>1, <2>1, <4>1
      <3> QED
        BY <1>2, <1>3, <2>2, <3>1, <3>2
    <2> QED
      BY <2>1, <2>2 DEF IInv, TokensOK, Current
  <1>8. NothingStale'
    BY <1>4, <1>5 DEF IInv, NothingStale, Shown
  <1> QED
    BY <1>6, <1>7, <1>8 DEF IInv

\* An answer that fills a panel only while its token is current.
LEMMA AnswerKeeps ==
    ASSUME IInv, NEW f \in DOMAIN flows, NEW phase \in {"request", "poll", "done"},
           Goes(f, phase), AnswerUnchanged,
           demo' \in {"idle", "starting", "waiting", "failed"},
           panel' \in [Panels -> Panel],
           \A p \in Panels :
              \/ panel'[p] = panel[p]
              \/ panel'[p].status # "ready"
              \/ /\ panel'[p].by = f /\ flows[f].kind = p /\ Current(f)
                 /\ panel'[p].run \in IF p \in Runs THEN RunViews ELSE {None}
    PROVE  IInv'
  <1>1. /\ flows' \in Seq(Flow) /\ Len(flows') = Len(flows) /\ DOMAIN flows' = DOMAIN flows
        /\ \A g \in DOMAIN flows :
              /\ flows'[g].kind = flows[g].kind /\ flows'[g].gen = flows[g].gen
              /\ flows'[g].incident = flows[g].incident /\ flows'[g].epoch = flows[g].epoch
              /\ flows'[g].behind = flows[g].behind
    BY GoesFlow DEF IInv, TypeOK
  <1>2. DOMAIN flows = 1 .. Len(flows)
    BY DEF IInv, TypeOK
  <1>3. UNCHANGED <<generation, reset, resetting, selected, epoch>>
    BY DEF AnswerUnchanged
  <1>4. TypeOK'
    <2>1. \A p \in Panels : PanelOK(p)'
      BY <1>1, <1>2 DEF IInv, TypeOK, PanelOK
    <2> QED
      BY <1>1, <1>3, <2>1 DEF IInv, TypeOK
  <1>5. TokensOK'
    BY <1>1, <1>3 DEF IInv, TokensOK, Current
  <1>6. NothingStale'
    <2> SUFFICES ASSUME NEW p \in Panels, panel'[p].status = "ready"
                 PROVE  IF flows'[panel'[p].by].epoch = epoch
                          THEN flows'[panel'[p].by].incident = selected
                          ELSE flows'[panel'[p].by].behind /\ selected = None
      BY <1>3 DEF NothingStale, Shown
    <2>1. CASE panel'[p] = panel[p]
      BY <1>1, <1>2, <2>1 DEF IInv, NothingStale, Shown, TypeOK, PanelOK
    <2>2. CASE panel'[p].by = f /\ Current(f)
      BY <1>1, <2>2 DEF IInv, TokensOK
    <2> QED
      BY <2>1, <2>2
  <1> QED
    BY <1>4, <1>5, <1>6 DEF IInv

\* Steps that bring every panel back to idle and move the token on.
LEMMA MovesOnKeeps ==
    ASSUME IInv, generation' \in 0 .. MaxGenerations, generation' > generation,
           flows' \in Seq(Flow), Len(flows') = Len(flows),
           \A f \in DOMAIN flows :
              flows'[f].gen = flows[f].gen /\ flows'[f].epoch = flows[f].epoch,
           panel' = NoPanels, UNCHANGED <<reset, resetting, epoch>>,
           selected' \in Incidents \cup {None},
           demo' \in {"idle", "starting", "waiting", "failed"}
    PROVE  IInv'
  <1>1. DOMAIN flows' = DOMAIN flows
    BY DEF IInv, TypeOK
  <1>2. TypeOK'
    BY NoPanelsFact DEF IInv, TypeOK, PanelOK
  <1>3. TokensOK'
    <2>1. /\ generation \in Nat /\ generation' \in Nat /\ resetting \in Nat
          /\ \A f \in DOMAIN flows : flows[f].gen \in Nat
      BY FlowGen DEF IInv
    <2>2. \A f \in DOMAIN flows' : flows'[f].gen < generation'
      BY <1>1, <2>1 DEF IInv, TokensOK
    <2> QED
      BY <1>1, <2>1, <2>2 DEF IInv, TokensOK, Current
  <1>4. NothingStale'
    BY NoPanelsFact DEF NothingStale
  <1> QED
    BY <1>2, <1>3, <1>4 DEF IInv

-----------------------------------------------------------------------------
(* The inductive invariant.                                                *)

\* The first render satisfies the invariant: no flow has been started.
LEMMA InitInv == Init => IInv
  <1> SUFFICES ASSUME Init PROVE IInv
    OBVIOUS
  <1>1. TypeOK
    BY BoundsAssumption, NoPanelsFact DEF Init, TypeOK, PanelOK
  <1>2. TokensOK /\ NothingStale
    BY NoPanelsFact DEF Init, TokensOK, NothingStale
  <1> QED
    BY <1>1, <1>2 DEF IInv

\* No click of the user breaks the invariant: confirming a reset leaves no
\* token current, and a click behind the dialog is remembered as one.
LEMMA ClickKeeps ==
    ASSUME IInv, Click
    PROVE  IInv'
  <1> USE BoundsAssumption
  <1>1. ASSUME NEW p \in Panels, panel[p].status = "ready"
        PROVE  panel[p].by \in 1 .. MaxFlows
    BY <1>1 DEF IInv, TypeOK, PanelOK, Panel
  <1>2. demo \in {"idle", "starting", "waiting", "failed"} /\ generation \in Nat
    BY DEF IInv, TypeOK
  <1>3. CASE CompileCapsule
    BY <1>2, <1>3, StartKeeps DEF CompileCapsule, ClickUnchanged, Kinds, Panels
  <1>4. CASE StartBaseline
    BY <1>1, <1>2, <1>4, StartKeeps DEF StartBaseline, ClickUnchanged, Kinds, Panels
  <1>5. CASE StartWhatIf
    BY <1>1, <1>2, <1>5, StartKeeps DEF StartWhatIf, WhatIfGate, ClickUnchanged, Kinds, Panels
  <1>6. CASE CreateDiff
    BY <1>1, <1>2, <1>6, StartKeeps DEF CreateDiff, ClickUnchanged, Kinds, Panels
  <1>7. CASE StartFaultedCheckout
    BY <1>7, StartKeeps DEF StartFaultedCheckout, Kinds
  <1>8. CASE DismissDemo \/ OpenReset \/ CancelReset
    <2>1. /\ UNCHANGED <<generation, flows, panel, resetting, selected, epoch>>
          /\ demo' \in {demo, "idle"}
          /\ reset' = reset \/ reset' \in {"confirming", "idle"}
      BY <1>8 DEF DismissDemo, OpenReset, CancelReset
    <2>2. TypeOK'
      BY <2>1 DEF IInv, TypeOK, PanelOK
    <2>3. TokensOK' /\ NothingStale'
      BY <2>1 DEF IInv, TokensOK, NothingStale, Current, Shown
    <2> QED
      BY <2>2, <2>3 DEF IInv
  <1>9. CASE ConfirmReset
    <2>1. /\ generation' = generation + 2 /\ generation' <= MaxGenerations
          /\ reset' = "submitting" /\ demo' = "idle" /\ resetting' = resetting + 1
          /\ UNCHANGED <<flows, panel, selected, epoch>>
      BY <1>9 DEF ConfirmReset
    <2>2. TypeOK'
      BY <1>2, <2>1 DEF IInv, TypeOK, TokensOK, PanelOK
    <2>3. resetting \in Nat /\ \A f \in DOMAIN flows : flows[f].gen \in Nat
      BY FlowGen DEF IInv
    <2>4. TokensOK'
      BY <1>2, <2>1, <2>3 DEF IInv, TokensOK, Current
    <2>5. NothingStale'
      BY <2>1 DEF IInv, NothingStale, Shown
    <2> QED
      BY <2>2, <2>4, <2>5 DEF IInv
  <1> QED
    BY <1>3, <1>4, <1>5, <1>6, <1>7, <1>8, <1>9 DEF Click

\* No answer, however late, breaks the invariant: one whose token is not
\* current fills no panel.
LEMMA FlowAnswerKeeps ==
    ASSUME IInv, NEW f \in 1 .. Len(flows), Answer(f)
    PROVE  IInv'
  <1> USE BoundsAssumption
  <1>1. /\ f \in DOMAIN flows /\ f \in 1 .. MaxFlows
        /\ flows \in Seq(Flow) /\ panel \in [Panels -> Panel]
        /\ demo \in {"idle", "starting", "waiting", "failed"}
    BY DEF IInv, TypeOK
  <1>2. ASSUME NEW run \in RunViews \cup {None}, Current(f), flows[f].kind \in Panels,
               run \in IF flows[f].kind \in Runs THEN RunViews ELSE {None},
               NEW phase \in {"request", "poll", "done"}, Goes(f, phase),
               panel' = Ready(flows[f].kind, f, run), AnswerUnchanged, UNCHANGED demo
        PROVE  IInv'
    <2>1. /\ panel' \in [Panels -> Panel]
          /\ panel'[flows[f].kind] = [status |-> "ready", by |-> f, run |-> run]
          /\ \A q \in Panels \ {flows[f].kind} : panel'[q] = panel[q]
      BY <1>1, <1>2, ReadyFact
    <2> QED
      BY <1>1, <1>2, <2>1, AnswerKeeps
  <1>3. ASSUME NEW phase \in {"request", "poll", "done"}, Goes(f, phase), UNCHANGED panel,
               AnswerUnchanged, demo' \in {"idle", "starting", "waiting", "failed"}
        PROVE  IInv'
    BY <1>1, <1>3, AnswerKeeps
  <1>4. CASE Created(f)
    <2>1. flows[f].kind \in Panels /\ AnswerUnchanged /\ UNCHANGED demo
      BY <1>4 DEF Created
    <2>2. CASE Current(f)
      <3>1. CASE flows[f].kind \in Runs
        <4>1. panel' = Ready(flows[f].kind, f, "active") /\ Goes(f, "poll")
          BY <1>4, <2>2, <3>1 DEF Created
        <4> QED
          BY <1>2, <2>1, <2>2, <3>1, <4>1 DEF RunViews
      <3>2. CASE flows[f].kind \notin Runs
        <4>1. panel' = Ready(flows[f].kind, f, None) /\ Goes(f, "done")
          BY <1>4, <2>2, <3>2 DEF Created
        <4> QED
          BY <1>2, <2>1, <2>2, <3>2, <4>1
      <3> QED
        BY <3>1, <3>2
    <2>3. CASE ~Current(f)
      BY <1>1, <1>3, <1>4, <2>1, <2>3 DEF Created
    <2> QED
      BY <2>2, <2>3
  <1>5. CASE \E run \in RunViews : Polled(f, run)
    <2> PICK run \in RunViews : Polled(f, run)
      BY <1>5
    <2>1. /\ flows[f].kind \in Runs /\ flows[f].kind \in Panels
          /\ AnswerUnchanged /\ UNCHANGED demo
      BY DEF Polled, Runs, Panels
    <2>2. CASE Current(f)
      <3>1. /\ panel' = Ready(flows[f].kind, f, run)
            /\ Goes(f, IF run = "active" THEN "poll" ELSE "done")
        BY <2>2 DEF Polled
      <3> QED
        BY <1>2, <2>1, <2>2, <3>1
    <2>3. CASE ~Current(f)
      BY <1>1, <1>3, <2>1, <2>3 DEF Polled
    <2> QED
      BY <2>2, <2>3
  <1>6. CASE RequestFails(f)
    <2>1. /\ flows[f].kind \in Panels /\ Goes(f, "done") /\ AnswerUnchanged /\ UNCHANGED demo
          /\ panel' = IF Current(f) THEN Failed(flows[f].kind) ELSE panel
      BY <1>6 DEF RequestFails
    <2>2. CASE Current(f)
      <3>1. /\ panel' \in [Panels -> Panel] /\ panel'[flows[f].kind].status # "ready"
            /\ \A q \in Panels \ {flows[f].kind} : panel'[q] = panel[q]
        BY <1>1, <2>1, <2>2, NotReadyFact DEF Failed
      <3> QED
        BY <1>1, <2>1, <3>1, AnswerKeeps
    <2>3. CASE ~Current(f)
      BY <1>1, <1>3, <2>1, <2>3
    <2> QED
      BY <2>2, <2>3
  <1>7. CASE CheckoutAnswered(f)
    BY <1>1, <1>3, <1>7 DEF CheckoutAnswered
  <1>8. CASE IncidentFound(f)
    <2>1. /\ Goes(f, "done") /\ generation < MaxGenerations /\ generation' = generation + 1
          /\ panel' = NoPanels /\ demo' = "idle"
          /\ UNCHANGED <<reset, resetting, selected, epoch>>
      BY <1>8 DEF IncidentFound, Invalidate, IncidentChanged
    <2>2. /\ flows' \in Seq(Flow) /\ Len(flows') = Len(flows)
          /\ \A g \in DOMAIN flows :
                flows'[g].gen = flows[g].gen /\ flows'[g].epoch = flows[g].epoch
      BY <1>1, <2>1, GoesFlow
    <2> QED
      BY <2>1, <2>2, FlowGen, MovesOnKeeps DEF IInv, TypeOK
  <1>9. CASE DemoEnds(f)
    BY <1>1, <1>3, <1>9 DEF DemoEnds
  <1> QED
    BY <1>4, <1>5, <1>6, <1>7, <1>8, <1>9 DEF Answer

\* Every step, the reset's answer and a change of selection included, keeps
\* the invariant.
LEMMA StepKeeps ==
    ASSUME IInv, [Next]_vars
    PROVE  IInv'
  <1> USE BoundsAssumption
  <1>1. CASE Click
    BY <1>1, ClickKeeps
  <1>2. CASE ResetSucceeds
    <2>0. /\ resetting \in Nat /\ epoch \in Nat /\ generation \in Nat
          /\ \A f \in DOMAIN flows : flows[f].epoch \in Nat
      BY FlowGen DEF IInv
    <2>1. /\ resetting > 0 /\ resetting' = resetting - 1
          /\ epoch < MaxEpochs /\ epoch' = epoch + 1
          /\ panel' = NoPanels /\ reset' = "completed" /\ selected' = None
          /\ UNCHANGED <<generation, flows, demo>>
      BY <1>2 DEF ResetSucceeds
    <2>2. TypeOK'
      BY <2>0, <2>1, NoPanelsFact DEF IInv, TypeOK, PanelOK
    <2>3. TokensOK'
      BY <2>0, <2>1 DEF IInv, TokensOK, Current
    <2>4. NothingStale'
      BY <2>1, NoPanelsFact DEF NothingStale
    <2> QED
      BY <2>2, <2>3, <2>4 DEF IInv
  <1>3. CASE ResetFails
    <2>0. resetting \in Nat /\ generation \in Nat
      BY FlowGen DEF IInv
    <2>1. /\ resetting > 0 /\ resetting' = resetting - 1
          /\ reset' = "failed" /\ UNCHANGED <<generation, flows, panel, selected, demo, epoch>>
      BY <1>3 DEF ResetFails
    <2>2. TypeOK'
      BY <2>0, <2>1 DEF IInv, TypeOK, PanelOK
    <2>3. TokensOK' /\ NothingStale'
      BY <2>0, <2>1 DEF IInv, TokensOK, NothingStale, Current, Shown
    <2> QED
      BY <2>2, <2>3 DEF IInv
  <1>4. CASE \E i \in Incidents \cup {None} : SelectionChanges(i)
    <2> PICK i \in Incidents \cup {None} : SelectionChanges(i)
      BY <1>4
    <2>1. /\ generation < MaxGenerations /\ generation' = generation + 1 /\ selected' = i
          /\ panel' = NoPanels /\ demo' \in {demo, "idle"}
          /\ UNCHANGED <<flows, reset, resetting, epoch>>
      BY DEF SelectionChanges, Invalidate, IncidentChanged
    <2> QED
      BY <2>1, FlowGen, MovesOnKeeps DEF IInv, TypeOK
  <1>5. CASE \E f \in 1 .. Len(flows) : Answer(f)
    BY <1>5, FlowAnswerKeeps
  <1>6. CASE UNCHANGED vars
    <2>1. UNCHANGED <<generation, flows, panel, reset, resetting, selected, demo, epoch>>
      BY <1>6 DEF vars
    <2> QED
      BY <2>1 DEF IInv, TypeOK, PanelOK, TokensOK, NothingStale, Current, Shown
  <1> QED
    BY <1>1, <1>2, <1>3, <1>4, <1>5, <1>6 DEF Next

-----------------------------------------------------------------------------
(* The chain of panels.                                                    *)

\* A panel others can be made from: what it shows is final and as it should be.
Settled(q) == panel[q].status = "ready" /\ (q \in Runs => panel[q].run = "good")

\* A flow that may still fill its panel.
Pending(f) == flows[f].kind \in Panels /\ flows[f].phase # "done" /\ Current(f)

\* Such a flow holds its panel, and was made from what its inputs still show.
PendingOK ==
    \A f \in DOMAIN flows : Pending(f) =>
        LET p == flows[f].kind
        IN  /\ flows[f].phase = "request" => panel[p].status = "loading"
            /\ flows[f].phase = "poll" =>
                   p \in Runs /\ panel[p] = [status |-> "ready", by |-> f, run |-> "active"]
            /\ \A q \in Inputs(p) : Settled(q)
            /\ flows[f].of = {panel[q].by : q \in Inputs(p)}

Alone ==
    \A f, g \in DOMAIN flows :
        Pending(f) /\ Pending(g) /\ flows[f].kind = flows[g].kind => f = g

\* What is shown, asked for or failed has settled inputs, and what is shown is made of them.
ShownOK ==
    \A p \in Panels :
        /\ panel[p].status # "idle" => \A q \in Inputs(p) : Settled(q)
        /\ panel[p].status = "ready" => Shown(p).of = {panel[q].by : q \in Inputs(p)}

Chained == PendingOK /\ Alone /\ ShownOK

\* A reset overtook the flow f: only its own panel may show anything, and only
\* f may still answer.
OrphanedBy(f) ==
    /\ flows[f].kind \in Panels /\ Overtaken(f)
    /\ \A g \in DOMAIN flows : Pending(g) => g = f
    /\ \A q \in Panels \ {flows[f].kind} : panel[q].status = "idle"
    /\ panel[flows[f].kind].status = "ready" => panel[flows[f].kind].by = f
    /\ flows[f].kind = "capsule" =>
          Pending(f) /\ panel["capsule"].status = "idle" /\ flows[f].of = {}

Orphaned == selected = None /\ \E f \in DOMAIN flows : OrphanedBy(f)

ChainInv == Chained \/ Orphaned

\* No panel is made from itself.
LEMMA InputsFact ==
    ASSUME NEW p \in Panels
    PROVE  Inputs(p) \subseteq Panels \ {p}
  BY DEF Inputs, Panels

\* A panel whose flow is still pending is not settled.
LEMMA PendingUnsettled ==
    ASSUME IInv, Chained, NEW f \in DOMAIN flows, Pending(f)
    PROVE  ~Settled(flows[f].kind) /\ panel[flows[f].kind].status \in {"loading", "ready"}
  <1>1. flows[f] \in Flow
    BY DEF IInv, TypeOK
  <1>2. flows[f].phase \in {"request", "poll"}
    BY <1>1 DEF Flow, Pending
  <1>3. CASE flows[f].phase = "request"
    BY <1>3 DEF Chained, PendingOK, Settled
  <1>4. CASE flows[f].phase = "poll"
    <2>1. /\ flows[f].kind \in Runs
          /\ panel[flows[f].kind] = [status |-> "ready", by |-> f, run |-> "active"]
      BY <1>4 DEF Chained, PendingOK
    <2>2. panel[flows[f].kind].status = "ready" /\ panel[flows[f].kind].run = "active"
      BY <2>1
    <2> QED
      BY <2>1, <2>2 DEF Settled
  <1> QED
    BY <1>2, <1>3, <1>4

\* A change of one panel that is not settled leaves what the others are made from.
LEMMA ChangeOne ==
    ASSUME IInv, Chained, NEW p \in Panels, ~Settled(p),
           \A q \in Panels \ {p} : panel'[q] = panel[q]
    PROVE  \A o \in Panels : (\A q \in Inputs(o) : Settled(q)) =>
               /\ \A q \in Inputs(o) : q # p /\ panel'[q] = panel[q]
               /\ \A q \in Inputs(o) : Settled(q)'
               /\ {panel'[q].by : q \in Inputs(o)} = {panel[q].by : q \in Inputs(o)}
  <1> SUFFICES ASSUME NEW o \in Panels, \A q \in Inputs(o) : Settled(q)
               PROVE  /\ \A q \in Inputs(o) : q # p /\ panel'[q] = panel[q]
                      /\ \A q \in Inputs(o) : Settled(q)'
                      /\ {panel'[q].by : q \in Inputs(o)} = {panel[q].by : q \in Inputs(o)}
    OBVIOUS
  <1>1. \A q \in Inputs(o) : q # p /\ panel'[q] = panel[q]
    BY InputsFact
  <1> QED
    BY <1>1 DEF Settled

\* A flow started for an empty or failed panel from settled inputs.
LEMMA StartChains ==
    ASSUME IInv, Chained, NEW kind \in Kinds, NEW of, Start(kind, of), UNCHANGED generation,
           kind \in Panels =>
               /\ panel[kind].status \in {"idle", "error"}
               /\ \A q \in Inputs(kind) : Settled(q)
               /\ of = {panel[q].by : q \in Inputs(kind)}
    PROVE  Chained'
  <1>0. PICK n : n = Len(flows) + 1
    OBVIOUS
  <1>1. /\ flows \in Seq(Flow) /\ DOMAIN flows = 1 .. Len(flows) /\ Len(flows) \in Nat
        /\ panel \in [Panels -> Panel]
    BY DEF IInv, TypeOK
  <1>2. PICK e : /\ e.kind = kind /\ e.gen = generation /\ e.of = of /\ e.phase = "request"
                 /\ flows' = Append(flows, e)
    BY DEF Start
  <1>3. /\ DOMAIN flows' = 1 .. n /\ flows'[n] = e
        /\ \A f \in DOMAIN flows : flows'[f] = flows[f]
    BY <1>0, <1>1, <1>2
  <1>4. /\ \A f \in DOMAIN flows : Pending(f)' <=> Pending(f)
        /\ Pending(n)' <=> kind \in Panels
    BY <1>2, <1>3 DEF Pending, Current
  <1>5. CASE kind \notin Panels
    <2>1. panel' = panel /\ ~Pending(n)'
      BY <1>4, <1>5 DEF Start
    <2>2. \A f \in DOMAIN flows' : Pending(f)' =>
              f \in DOMAIN flows /\ Pending(f) /\ flows'[f] = flows[f]
      BY <1>0, <1>1, <1>3, <1>4, <2>1
    <2>5. PendingOK'
      BY <2>1, <2>2 DEF Chained, PendingOK, Settled
    <2>6. Alone'
      BY <2>2 DEF Chained, Alone
    <2>3. \A p \in Panels : panel[p].status = "ready" => panel[p].by \in DOMAIN flows
      BY <1>1 DEF IInv, TypeOK, PanelOK
    <2>4. ShownOK'
      BY <1>3, <2>1, <2>3 DEF Chained, ShownOK, Shown, Settled
    <2> QED
      BY <2>4, <2>5, <2>6 DEF Chained
  <1>6. CASE kind \in Panels
    <2>1. /\ panel'[kind].status = "loading"
          /\ \A q \in Panels \ {kind} : panel'[q] = panel[q]
      <3>1. panel' = [panel EXCEPT ![kind] = [Idle EXCEPT !.status = "loading"]]
        BY <1>6 DEF Start, Loading
      <3> QED
        BY <1>1, <1>6, <3>1 DEF Idle
    <2>2. ~Settled(kind)
      BY <1>6 DEF Settled
    <2>3. \A o \in Panels : (\A q \in Inputs(o) : Settled(q)) =>
              /\ \A q \in Inputs(o) : q # kind /\ panel'[q] = panel[q]
              /\ \A q \in Inputs(o) : Settled(q)'
              /\ {panel'[q].by : q \in Inputs(o)} = {panel[q].by : q \in Inputs(o)}
      BY <1>6, <2>1, <2>2, ChangeOne
    <2>4. ASSUME NEW f \in DOMAIN flows, Pending(f) PROVE flows[f].kind # kind
      BY <1>6, <2>4, PendingUnsettled
    <2>5. ASSUME NEW f \in DOMAIN flows', Pending(f)'
          PROVE  /\ flows'[f].phase = "request" => panel'[flows'[f].kind].status = "loading"
                 /\ flows'[f].phase = "poll" =>
                        /\ flows'[f].kind \in Runs
                        /\ panel'[flows'[f].kind] = [status |-> "ready", by |-> f, run |-> "active"]
                 /\ \A q \in Inputs(flows'[f].kind) : Settled(q)'
                 /\ flows'[f].of = {panel'[q].by : q \in Inputs(flows'[f].kind)}
      <3>1. CASE f \in DOMAIN flows
        <4>1. Pending(f) /\ flows[f].kind # kind /\ flows'[f] = flows[f] /\ flows[f].kind \in Panels
          BY <1>3, <1>4, <2>4, <2>5, <3>1 DEF Pending
        <4>2. panel'[flows[f].kind] = panel[flows[f].kind]
          BY <2>1, <4>1
        <4> QED
          BY <2>3, <3>1, <4>1, <4>2 DEF Chained, PendingOK
      <3>2. CASE f = n
        BY <1>2, <1>3, <1>6, <2>1, <2>3, <3>2
      <3> QED
        BY <1>0, <1>1, <1>3, <3>1, <3>2
    <2>6. PendingOK'
      BY <2>5 DEF PendingOK
    <2>7. Alone'
      BY <1>0, <1>1, <1>2, <1>3, <1>4, <2>4 DEF Chained, Alone
    <2>8. ASSUME NEW p \in Panels
          PROVE  /\ panel'[p].status # "idle" => \A q \in Inputs(p) : Settled(q)'
                 /\ panel'[p].status = "ready" =>
                        flows'[panel'[p].by].of = {panel'[q].by : q \in Inputs(p)}
      <3>1. CASE p = kind
        BY <1>6, <2>1, <2>3, <3>1
      <3>2. CASE p # kind
        <4>1. panel'[p] = panel[p]
          BY <2>1, <3>2
        <4>2. panel[p].status = "ready" => panel[p].by \in DOMAIN flows
          BY <1>1 DEF IInv, TypeOK, PanelOK
        <4>3. panel[p].status = "ready" => panel[p].status # "idle"
          OBVIOUS
        <4> QED
          BY <1>3, <2>3, <4>1, <4>2, <4>3 DEF Chained, ShownOK, Shown
      <3> QED
        BY <3>1, <3>2
    <2>9. ShownOK'
      BY <2>8 DEF ShownOK, Shown
    <2> QED
      BY <2>6, <2>7, <2>9 DEF Chained
  <1> QED
    BY <1>5, <1>6

\* An answer fills or fails the panel of its pending flow, or changes none.
LEMMA AnswerChains ==
    ASSUME IInv, Chained, NEW f \in DOMAIN flows, NEW phase \in {"request", "poll", "done"},
           Goes(f, phase), UNCHANGED generation,
           \/ UNCHANGED panel /\ (phase = "done" \/ flows[f].kind \notin Panels)
           \/ /\ Pending(f) /\ \A q \in Panels \ {flows[f].kind} : panel'[q] = panel[q]
              /\ \/ /\ phase = "poll" /\ flows[f].kind \in Runs
                    /\ panel'[flows[f].kind] = [status |-> "ready", by |-> f, run |-> "active"]
                 \/ phase = "done" /\ panel'[flows[f].kind].status = "ready"
                       /\ panel'[flows[f].kind].by = f
                 \/ phase = "done" /\ panel'[flows[f].kind].status = "error"
    PROVE  Chained'
  <1> DEFINE p == flows[f].kind
  <1>1. /\ DOMAIN flows' = DOMAIN flows /\ DOMAIN flows = 1 .. Len(flows)
        /\ \A g \in DOMAIN flows :
              /\ flows'[g].kind = flows[g].kind /\ flows'[g].gen = flows[g].gen
              /\ flows'[g].of = flows[g].of
              /\ flows'[g].phase = IF g = f THEN phase ELSE flows[g].phase
    BY GoesFlow DEF IInv, TypeOK
  <1>2. \A g \in DOMAIN flows : g # f => (Pending(g)' <=> Pending(g))
    BY <1>1 DEF Pending, Current
  <1>3. \A o \in Panels : panel[o].status = "ready" => panel[o].by \in DOMAIN flows
    BY <1>1 DEF IInv, TypeOK, PanelOK
  <1>4. CASE UNCHANGED panel /\ (phase = "done" \/ p \notin Panels)
    <2>1. ~Pending(f)'
      BY <1>1, <1>4 DEF Pending
    <2>2. \A g \in DOMAIN flows : Pending(g)' => g # f /\ Pending(g)
      BY <1>2, <2>1
    <2>3. PendingOK' /\ Alone'
      BY <1>1, <1>4, <2>2 DEF Chained, PendingOK, Alone, Settled
    <2>4. ShownOK'
      BY <1>1, <1>3, <1>4 DEF Chained, ShownOK, Shown, Settled
    <2> QED
      BY <2>3, <2>4 DEF Chained
  <1>5. CASE /\ Pending(f) /\ \A q \in Panels \ {p} : panel'[q] = panel[q]
             /\ \/ /\ phase = "poll" /\ p \in Runs
                   /\ panel'[p] = [status |-> "ready", by |-> f, run |-> "active"]
                \/ phase = "done" /\ panel'[p].status = "ready" /\ panel'[p].by = f
                \/ phase = "done" /\ panel'[p].status = "error"
    <2>1. p \in Panels /\ ~Settled(p)
      BY <1>5, PendingUnsettled DEF Pending
    <2>2. \A o \in Panels : (\A q \in Inputs(o) : Settled(q)) =>
              /\ \A q \in Inputs(o) : q # p /\ panel'[q] = panel[q]
              /\ \A q \in Inputs(o) : Settled(q)'
              /\ {panel'[q].by : q \in Inputs(o)} = {panel[q].by : q \in Inputs(o)}
      BY <1>5, <2>1, ChangeOne
    <2>3. /\ \A q \in Inputs(p) : Settled(q)
          /\ flows[f].of = {panel[q].by : q \in Inputs(p)}
      BY <1>5 DEF Chained, PendingOK
    <2>4. ASSUME NEW g \in DOMAIN flows, g # f, Pending(g) PROVE flows[g].kind # p
      BY <1>5, <2>4 DEF Chained, Alone
    <2>5. ASSUME NEW g \in DOMAIN flows', Pending(g)'
          PROVE  /\ flows'[g].phase = "request" => panel'[flows'[g].kind].status = "loading"
                 /\ flows'[g].phase = "poll" =>
                        /\ flows'[g].kind \in Runs
                        /\ panel'[flows'[g].kind] = [status |-> "ready", by |-> g, run |-> "active"]
                 /\ \A q \in Inputs(flows'[g].kind) : Settled(q)'
                 /\ flows'[g].of = {panel'[q].by : q \in Inputs(flows'[g].kind)}
      <3>1. CASE g # f
        <4>1. Pending(g) /\ flows[g].kind # p /\ flows[g].kind \in Panels
          BY <1>1, <1>2, <2>4, <2>5, <3>1 DEF Pending
        <4>2. panel'[flows[g].kind] = panel[flows[g].kind]
          BY <1>5, <4>1
        <4>3. /\ flows'[g].kind = flows[g].kind /\ flows'[g].phase = flows[g].phase
              /\ flows'[g].of = flows[g].of
          BY <1>1, <2>5, <3>1
        <4> HIDE DEF p
        <4> QED
          BY <1>1, <2>2, <4>1, <4>2, <4>3 DEF Chained, PendingOK
      <3>2. CASE g = f
        <4>1. phase # "done"
          BY <1>1, <2>5, <3>2 DEF Pending
        <4> QED
          BY <1>1, <1>5, <2>1, <2>2, <2>3, <3>2, <4>1
      <3> QED
        BY <3>1, <3>2
    <2>6. PendingOK'
      BY <2>5 DEF PendingOK
    <2>7. Alone'
      BY <1>1, <1>2, <1>5, <2>4 DEF Chained, Alone
    <2>8. ASSUME NEW o \in Panels
          PROVE  /\ panel'[o].status # "idle" => \A q \in Inputs(o) : Settled(q)'
                 /\ panel'[o].status = "ready" =>
                        flows'[panel'[o].by].of = {panel'[q].by : q \in Inputs(o)}
      <3>1. CASE o = p
        BY <1>1, <1>5, <2>1, <2>2, <2>3, <3>1
      <3>2. CASE o # p
        <4>1. panel'[o] = panel[o]
          BY <1>5, <3>2
        <4>2. panel[o].status = "ready" =>
                  panel[o].by \in DOMAIN flows /\ flows'[panel[o].by].of = Shown(o).of
          BY <1>1, <1>3 DEF Shown
        <4>3. panel[o].status = "ready" => panel[o].status # "idle"
          OBVIOUS
        <4> QED
          BY <2>2, <4>1, <4>2, <4>3 DEF Chained, ShownOK
      <3> QED
        BY <3>1, <3>2
    <2>9. ShownOK'
      BY <2>8 DEF ShownOK, Shown
    <2> QED
      BY <2>6, <2>7, <2>9 DEF Chained
  <1> QED
    BY <1>4, <1>5

\* With every panel empty and no flow pending there is nothing to match.
LEMMA EmptyChains ==
    ASSUME \A p \in Panels : panel[p].status = "idle", \A f \in DOMAIN flows : ~Pending(f)
    PROVE  Chained
  BY DEF Chained, PendingOK, Alone, ShownOK

\* At most one flow is pending: of two panels one is made from the other.
LEMMA OnePending ==
    ASSUME IInv, Chained, NEW f \in DOMAIN flows, NEW g \in DOMAIN flows, Pending(f), Pending(g)
    PROVE  f = g
  <1>1. /\ flows[f].kind \in Panels /\ ~Settled(flows[f].kind)
        /\ flows[g].kind \in Panels /\ ~Settled(flows[g].kind)
    BY PendingUnsettled DEF Pending
  <1>2. /\ \A q \in Inputs(flows[f].kind) : Settled(q)
        /\ \A q \in Inputs(flows[g].kind) : Settled(q)
    BY DEF Chained, PendingOK
  <1>3. Settled("baseline") => Settled("capsule")
    BY DEF Chained, ShownOK, Settled, Inputs, Panels
  <1>4. ASSUME NEW p \in Panels, NEW q \in Panels, ~Settled(p), ~Settled(q),
               \A o \in Inputs(p) : Settled(o), \A o \in Inputs(q) : Settled(o)
        PROVE  p = q
    <2>1. /\ \A o \in {"capsule"} : p = "baseline" => Settled(o)
          /\ p = "whatIf" => Settled("capsule") /\ Settled("baseline")
          /\ p = "diff" => Settled("baseline") /\ Settled("whatIf")
      BY <1>4 DEF Inputs
    <2>2. /\ q = "baseline" => Settled("capsule")
          /\ q = "whatIf" => Settled("capsule") /\ Settled("baseline")
          /\ q = "diff" => Settled("baseline") /\ Settled("whatIf")
      BY <1>4 DEF Inputs
    <2> QED
      BY <1>3, <1>4, <2>1, <2>2 DEF Panels
  <1>5. flows[f].kind = flows[g].kind
    BY <1>1, <1>2, <1>4
  <1> QED
    BY <1>5 DEF Chained, Alone

\* What an answer does where a reset overtook the one flow that is pending.
LEMMA OrphanAnswers ==
    ASSUME IInv, Orphaned, NEW f \in DOMAIN flows, NEW phase \in {"request", "poll", "done"},
           Goes(f, phase), UNCHANGED <<generation, selected, epoch>>,
           \/ UNCHANGED panel /\ (phase = "done" \/ flows[f].kind \notin Panels)
           \/ /\ Pending(f) /\ \A q \in Panels \ {flows[f].kind} : panel'[q] = panel[q]
              /\ \/ /\ phase = "poll" /\ flows[f].kind \in Runs
                    /\ panel'[flows[f].kind] = [status |-> "ready", by |-> f, run |-> "active"]
                 \/ phase = "done" /\ panel'[flows[f].kind].status = "ready"
                       /\ panel'[flows[f].kind].by = f
                 \/ phase = "done" /\ panel'[flows[f].kind].status = "error"
    PROVE  ChainInv'
  <1> PICK o \in DOMAIN flows : OrphanedBy(o)
    BY DEF Orphaned
  <1>1. /\ DOMAIN flows' = DOMAIN flows
        /\ \A g \in DOMAIN flows :
              /\ flows'[g].kind = flows[g].kind /\ flows'[g].gen = flows[g].gen
              /\ flows'[g].of = flows[g].of /\ flows'[g].epoch = flows[g].epoch
              /\ flows'[g].behind = flows[g].behind
              /\ flows'[g].phase = IF g = f THEN phase ELSE flows[g].phase
    BY GoesFlow DEF IInv, TypeOK
  <1>2. ASSUME NEW g \in DOMAIN flows, Pending(g)' PROVE Pending(g)
    <2>1. CASE g = f
      BY <1>1, <1>2, <2>1 DEF Pending, Current
    <2>2. CASE g # f
      BY <1>1, <1>2, <2>2 DEF Pending, Current
    <2> QED
      BY <2>1, <2>2
  <1>3. flows[o].kind \in Panels /\ Overtaken(o)'
    BY <1>1 DEF OrphanedBy, Overtaken
  <1>4. \A g \in DOMAIN flows : Pending(g) => g = o
    BY DEF OrphanedBy
  <1>5. \A g \in DOMAIN flows' : Pending(g)' => g = o
    BY <1>1, <1>2, <1>4
  <1>6. CASE UNCHANGED panel /\ (phase = "done" \/ flows[f].kind \notin Panels)
    <2>1. CASE f = o /\ flows[o].kind = "capsule"
      <3>1. \A p \in Panels : panel'[p].status = "idle"
        BY <1>6, <2>1 DEF OrphanedBy
      <3>2. phase = "done"
        BY <1>3, <1>6, <2>1
      <3>3. \A g \in DOMAIN flows' : ~Pending(g)'
        BY <1>1, <1>5, <2>1, <3>2 DEF Pending
      <3>4. Chained'
        BY <3>1, <3>3 DEF Chained, PendingOK, Alone, ShownOK
      <3> QED
        BY <3>4 DEF ChainInv
    <2>2. CASE f # o \/ flows[o].kind # "capsule"
      <3>1. flows[o].kind = "capsule" => Pending(o)'
        BY <1>1, <2>2 DEF OrphanedBy, Pending, Current
      <3>2. OrphanedBy(o)'
        BY <1>1, <1>3, <1>5, <1>6, <3>1 DEF OrphanedBy
      <3> QED
        BY <1>1, <3>2 DEF ChainInv, Orphaned
    <2> QED
      BY <2>1, <2>2
  <1>7. CASE /\ Pending(f) /\ \A q \in Panels \ {flows[f].kind} : panel'[q] = panel[q]
             /\ \/ /\ phase = "poll" /\ flows[f].kind \in Runs
                   /\ panel'[flows[f].kind] = [status |-> "ready", by |-> f, run |-> "active"]
                \/ phase = "done" /\ panel'[flows[f].kind].status = "ready"
                      /\ panel'[flows[f].kind].by = f
                \/ phase = "done" /\ panel'[flows[f].kind].status = "error"
    <2>1. f = o
      BY <1>4, <1>7
    <2>2. \A q \in Panels \ {flows[o].kind} : panel'[q].status = "idle"
      BY <1>7, <2>1 DEF OrphanedBy
    <2>3. panel'[flows[o].kind].status = "ready" => panel'[flows[o].kind].by = o
      BY <1>7, <2>1
    <2>4. CASE flows[o].kind # "capsule"
      <3>1. OrphanedBy(o)'
        BY <1>1, <1>3, <1>5, <2>2, <2>3, <2>4 DEF OrphanedBy
      <3> QED
        BY <1>1, <3>1 DEF ChainInv, Orphaned
    <2>5. CASE flows[o].kind = "capsule"
      <3>1. phase = "done" /\ flows[o].of = {}
        BY <1>7, <2>1, <2>5 DEF OrphanedBy, Runs
      <3>2. \A g \in DOMAIN flows' : ~Pending(g)'
        BY <1>1, <1>5, <2>1, <3>1 DEF Pending
      <3>3. ASSUME NEW p \in Panels, panel'[p].status # "idle"
            PROVE  /\ Inputs(p) = {}
                   /\ panel'[p].status = "ready" => flows'[panel'[p].by].of = {}
        BY <1>1, <2>2, <2>3, <2>5, <3>1, <3>3 DEF Inputs
      <3>4. ShownOK'
        BY <3>3 DEF ShownOK, Shown
      <3> QED
        BY <3>2, <3>4 DEF ChainInv, Chained, PendingOK, Alone
    <2> QED
      BY <2>4, <2>5
  <1> QED
    BY <1>6, <1>7

\* An answer keeps the chain, overtaken by a reset or not.
LEMMA AnswerChainInv ==
    ASSUME IInv, ChainInv, NEW f \in DOMAIN flows, NEW phase \in {"request", "poll", "done"},
           Goes(f, phase), UNCHANGED <<generation, selected, epoch>>,
           \/ UNCHANGED panel /\ (phase = "done" \/ flows[f].kind \notin Panels)
           \/ /\ Pending(f) /\ \A q \in Panels \ {flows[f].kind} : panel'[q] = panel[q]
              /\ \/ /\ phase = "poll" /\ flows[f].kind \in Runs
                    /\ panel'[flows[f].kind] = [status |-> "ready", by |-> f, run |-> "active"]
                 \/ phase = "done" /\ panel'[flows[f].kind].status = "ready"
                       /\ panel'[flows[f].kind].by = f
                 \/ phase = "done" /\ panel'[flows[f].kind].status = "error"
    PROVE  ChainInv'
  <1>1. CASE Chained
    <2>1. Chained'
      BY <1>1, AnswerChains
    <2> QED
      BY <2>1 DEF ChainInv
  <1>2. CASE Orphaned
    BY <1>2, OrphanAnswers
  <1> QED
    BY <1>1, <1>2 DEF ChainInv

\* Where a reset overtook a flow, no click starts another but the trigger's.
LEMMA OrphanClicks ==
    ASSUME IInv, Orphaned, Click
    PROVE  ChainInv'
  <1> PICK o \in DOMAIN flows : OrphanedBy(o)
    BY DEF Orphaned
  <1>1. selected = None /\ panel["capsule"].status # "ready"
    BY DEF Orphaned, OrphanedBy, Panels
  <1>2. panel["baseline"].status # "ready" \/ panel["whatIf"].status # "ready"
    BY DEF OrphanedBy, Panels
  <1>3. ~(CompileCapsule \/ StartBaseline \/ StartWhatIf \/ CreateDiff)
    BY <1>1, <1>2 DEF CompileCapsule, StartBaseline, StartWhatIf, CreateDiff
  <1>4. CASE StartFaultedCheckout
    <2>1. PICK e : /\ e.kind = "demo" /\ flows' = Append(flows, e)
                   /\ UNCHANGED <<generation, panel, selected, epoch>>
      BY <1>4 DEF StartFaultedCheckout, Start, Panels
    <2>2. /\ flows \in Seq(Flow) /\ DOMAIN flows' = 1 .. (Len(flows) + 1)
          /\ Len(flows) \in Nat /\ DOMAIN flows = 1 .. Len(flows)
          /\ \A f \in DOMAIN flows : flows'[f] = flows[f]
          /\ flows'[Len(flows) + 1] = e
      BY <2>1 DEF IInv, TypeOK
    <2>3. ASSUME NEW f \in DOMAIN flows PROVE Pending(f)' <=> Pending(f)
      BY <2>1, <2>2 DEF Pending, Current
    <2>4. ASSUME NEW g \in DOMAIN flows', Pending(g)' PROVE g = o
      <3>1. flows'[g].kind # "demo"
        BY <2>4 DEF Pending, Panels
      <3>2. g \in DOMAIN flows
        BY <2>1, <2>2, <3>1
      <3> QED
        BY <2>3, <2>4, <3>2 DEF OrphanedBy
    <2>5. o \in DOMAIN flows' /\ flows'[o] = flows[o] /\ Overtaken(o)'
      BY <2>1, <2>2 DEF OrphanedBy, Overtaken
    <2>6. OrphanedBy(o)'
      BY <2>1, <2>3, <2>4, <2>5 DEF OrphanedBy
    <2> QED
      BY <1>1, <2>1, <2>5, <2>6 DEF ChainInv, Orphaned
  <1>5. CASE DismissDemo \/ OpenReset \/ CancelReset
    <2>1. UNCHANGED <<generation, flows, panel, selected, epoch>>
      BY <1>5 DEF DismissDemo, OpenReset, CancelReset
    <2>2. OrphanedBy(o)'
      BY <2>1 DEF OrphanedBy, Overtaken, Pending, Current
    <2> QED
      BY <1>1, <2>1, <2>2 DEF ChainInv, Orphaned
  <1>6. CASE ConfirmReset
    <2>1. /\ \A f \in DOMAIN flows : flows[f].gen <= generation
          /\ generation \in Nat /\ \A f \in DOMAIN flows : flows[f].gen \in Nat
      BY FlowGen DEF IInv, TokensOK
    <2>2. generation' = generation + 2 /\ UNCHANGED <<flows, panel, selected, epoch>>
      BY <1>6 DEF ConfirmReset
    <2>3. \A f \in DOMAIN flows' : ~Pending(f)'
      BY <2>1, <2>2 DEF Pending, Current
    <2>4. CASE flows[o].kind = "capsule"
      <3>1. \A p \in Panels : panel'[p].status = "idle"
        BY <2>2, <2>4 DEF OrphanedBy
      <3> QED
        BY <2>3, <3>1 DEF ChainInv, Chained, PendingOK, Alone, ShownOK
    <2>5. CASE flows[o].kind # "capsule"
      <3>1. OrphanedBy(o)'
        BY <2>2, <2>3, <2>5 DEF OrphanedBy, Overtaken
      <3> QED
        BY <1>1, <2>2, <3>1 DEF ChainInv, Orphaned
    <2> QED
      BY <2>4, <2>5
  <1> QED
    BY <1>3, <1>4, <1>5, <1>6 DEF Click

\* Clicks keep the chain: each asks only for what its inputs allow.
LEMMA ClickChains ==
    ASSUME IInv, Chained, Click
    PROVE  Chained'
  <1>1. \A p \in Panels : panel[p].status \in {"idle", "loading", "ready", "error"}
    BY DEF IInv, TypeOK, Panel
  <1>2. CASE CompileCapsule
    BY <1>2, StartChains DEF CompileCapsule, ClickUnchanged, Kinds, Panels, Inputs
  <1>3. CASE StartBaseline
    <2>1. Settled("capsule") /\ "baseline" \in Kinds /\ Inputs("baseline") = {"capsule"}
      BY <1>3 DEF StartBaseline, Settled, Runs, Kinds, Panels, Inputs
    <2> QED
      BY <1>3, <2>1, StartChains DEF StartBaseline, ClickUnchanged
  <1>4. CASE StartWhatIf
    <2>1. /\ Settled("capsule") /\ Settled("baseline") /\ "whatIf" \in Kinds
          /\ Inputs("whatIf") = {"capsule", "baseline"}
      BY <1>4 DEF StartWhatIf, WhatIfGate, Settled, Runs, Kinds, Panels, Inputs
    <2> QED
      BY <1>4, <2>1, StartChains DEF StartWhatIf, ClickUnchanged
  <1>5. CASE CreateDiff
    <2>1. /\ Settled("whatIf") /\ "diff" \in Kinds /\ Inputs("diff") = {"baseline", "whatIf"}
      BY <1>5 DEF CreateDiff, Settled, Runs, Kinds, Panels, Inputs
    <2>2. Settled("baseline")
      BY <2>1 DEF Chained, ShownOK, Settled, Inputs, Panels
    <2> QED
      BY <1>5, <2>1, <2>2, StartChains DEF CreateDiff, ClickUnchanged
  <1>6. CASE StartFaultedCheckout
    BY <1>6, StartChains DEF StartFaultedCheckout, Kinds, Panels
  <1>7. CASE DismissDemo \/ OpenReset \/ CancelReset
    BY <1>7 DEF DismissDemo, OpenReset, CancelReset, Chained, PendingOK, Alone, ShownOK,
                Pending, Current, Settled, Shown
  <1>8. CASE ConfirmReset
    <2>1. /\ \A f \in DOMAIN flows : flows[f].gen <= generation
          /\ generation \in Nat /\ \A f \in DOMAIN flows : flows[f].gen \in Nat
      BY FlowGen DEF IInv, TokensOK
    <2>2. generation' = generation + 2 /\ UNCHANGED <<flows, panel>>
      BY <1>8 DEF ConfirmReset
    <2>3. \A f \in DOMAIN flows' : ~Pending(f)'
      BY <2>1, <2>2 DEF Pending, Current
    <2> QED
      BY <2>2, <2>3 DEF Chained, PendingOK, Alone, ShownOK, Shown, Settled
  <1> QED
    BY <1>2, <1>3, <1>4, <1>5, <1>6, <1>7, <1>8 DEF Click

\* Answers keep the chain: a pending flow alone may change its panel.
LEMMA FlowAnswerChains ==
    ASSUME IInv, ChainInv, NEW f \in DOMAIN flows, Answer(f), ~IncidentFound(f)
    PROVE  ChainInv'
  <1> DEFINE p == flows[f].kind
  <1>1. panel \in [Panels -> Panel] /\ (p \in Runs => p \in Panels)
    BY DEF IInv, TypeOK, Runs, Panels
  <1>2. ASSUME NEW run, p \in Panels, panel' = Ready(p, f, run)
        PROVE  /\ panel'[p] = [status |-> "ready", by |-> f, run |-> run]
               /\ panel'[p].status = "ready" /\ panel'[p].by = f
               /\ \A q \in Panels \ {p} : panel'[q] = panel[q]
    BY <1>1, <1>2 DEF Ready
  <1>3. CASE Created(f)
    <2>1. p \in Panels /\ flows[f].phase = "request" /\ UNCHANGED <<generation, selected, epoch>>
      BY <1>3 DEF Created, AnswerUnchanged
    <2>2. CASE ~Current(f)
      BY <1>3, <2>1, <2>2, AnswerChainInv DEF Created
    <2>3. CASE Current(f) /\ p \in Runs
      <3>1. panel' = Ready(p, f, "active") /\ Goes(f, "poll")
        BY <1>3, <2>3 DEF Created
      <3> QED
        BY <1>2, <2>1, <2>3, <3>1, AnswerChainInv DEF Pending
    <2>4. CASE Current(f) /\ p \notin Runs
      <3>1. panel' = Ready(p, f, None) /\ Goes(f, "done")
        BY <1>3, <2>4 DEF Created
      <3> QED
        BY <1>2, <2>1, <2>4, <3>1, AnswerChainInv DEF Pending
    <2> QED
      BY <2>2, <2>3, <2>4
  <1>4. CASE \E run \in RunViews : Polled(f, run)
    <2> PICK run \in RunViews : Polled(f, run)
      BY <1>4
    <2>1. p \in Panels /\ p \in Runs /\ flows[f].phase = "poll" /\ UNCHANGED <<generation, selected, epoch>>
      BY <1>1 DEF Polled, AnswerUnchanged
    <2>2. CASE ~Current(f)
      BY <2>1, <2>2, AnswerChainInv DEF Polled
    <2>3. CASE Current(f) /\ run = "active"
      <3>1. panel' = Ready(p, f, "active") /\ Goes(f, "poll")
        BY <2>3 DEF Polled
      <3> QED
        BY <1>2, <2>1, <2>3, <3>1, AnswerChainInv DEF Pending
    <2>4. CASE Current(f) /\ run # "active"
      <3>1. panel' = Ready(p, f, run) /\ Goes(f, "done")
        BY <2>4 DEF Polled
      <3> QED
        BY <1>2, <2>1, <2>4, <3>1, AnswerChainInv DEF Pending
    <2> QED
      BY <2>2, <2>3, <2>4
  <1>5. CASE RequestFails(f)
    <2>1. p \in Panels /\ flows[f].phase # "done" /\ Goes(f, "done") /\ UNCHANGED <<generation, selected, epoch>>
      BY <1>5 DEF RequestFails, AnswerUnchanged
    <2>2. CASE ~Current(f)
      BY <1>5, <2>1, <2>2, AnswerChainInv DEF RequestFails
    <2>3. CASE Current(f)
      <3>1. panel' = [panel EXCEPT ![p] = [Idle EXCEPT !.status = "error"]]
        BY <1>5, <2>3 DEF RequestFails, Failed
      <3>2. panel'[p].status = "error" /\ \A q \in Panels \ {p} : panel'[q] = panel[q]
        BY <1>1, <2>1, <3>1 DEF Idle
      <3> QED
        BY <2>1, <2>3, <3>2, AnswerChainInv DEF Pending
    <2> QED
      BY <2>2, <2>3
  <1>6. CASE CheckoutAnswered(f) \/ DemoEnds(f)
    <2>1. /\ p = "demo" /\ UNCHANGED <<panel, generation, selected, epoch>>
          /\ Goes(f, "poll") \/ Goes(f, "done")
      BY <1>6 DEF CheckoutAnswered, DemoEnds, AnswerUnchanged
    <2> QED
      BY <2>1, AnswerChainInv DEF Panels
  <1> QED
    BY <1>3, <1>4, <1>5, <1>6 DEF Answer

\* The reset's success empties the panels and leaves at most one flow pending.
LEMMA ResetChains ==
    ASSUME IInv, ChainInv, ResetSucceeds
    PROVE  ChainInv'
  <1>1. /\ panel' = NoPanels /\ UNCHANGED <<flows, generation>> /\ resetting > 0
        /\ epoch' = epoch + 1 /\ selected' = None
    BY DEF ResetSucceeds
  <1>2. \A p \in Panels : panel'[p].status = "idle"
    BY <1>1 DEF NoPanels, Idle
  <1>3. \A f \in DOMAIN flows : Pending(f)' <=> Pending(f)
    BY <1>1 DEF Pending, Current
  <1>4. ASSUME NEW f \in DOMAIN flows PROVE flows[f].epoch # epoch'
    <2>1. epoch \in Nat /\ flows[f].epoch \in Nat /\ flows[f].epoch <= epoch
      BY FlowGen DEF IInv, TokensOK
    <2> QED
      BY <1>1, <2>1
  <1>5. CASE Chained
    <2>1. CASE \A f \in DOMAIN flows : ~Pending(f)
      BY <1>1, <1>2, <1>3, <2>1 DEF ChainInv, Chained, PendingOK, Alone, ShownOK
    <2>2. ASSUME NEW f \in DOMAIN flows, Pending(f) PROVE ChainInv'
      <3>1. \A g \in DOMAIN flows : Pending(g) => g = f
        BY <1>5, <2>2, OnePending
      <3>2. flows[f].kind \in Panels /\ flows[f].behind
        BY <1>1, <2>2 DEF Pending, IInv, TokensOK
      <3>3. flows[f].kind = "capsule" => flows[f].of = {}
        BY <1>5, <2>2 DEF Chained, PendingOK, Inputs
      <3>4. Overtaken(f)'
        BY <1>1, <1>4, <3>2 DEF Overtaken
      <3>5. OrphanedBy(f)'
        <4>1. \A q \in Panels \ {flows[f].kind} : panel'[q].status = "idle"
          BY <1>2
        <4>2. panel'[flows[f].kind].status = "idle"
          BY <1>2, <3>2
        <4>3. panel'[flows[f].kind].status # "ready"
          BY <4>2
        <4> QED
          BY <1>1, <1>3, <2>2, <3>1, <3>2, <3>3, <3>4, <4>1, <4>2, <4>3 DEF OrphanedBy
      <3> QED
        BY <1>1, <3>5 DEF ChainInv, Orphaned
    <2> QED
      BY <2>1, <2>2
  <1>6. CASE Orphaned
    <2> PICK f \in DOMAIN flows : OrphanedBy(f)
      BY <1>6 DEF Orphaned
    <2>1. Overtaken(f)'
      BY <1>1, <1>4 DEF OrphanedBy, Overtaken
    <2>2. flows[f].kind \in Panels
      BY DEF OrphanedBy
    <2>3. OrphanedBy(f)'
      <3>1. panel'[flows[f].kind].status = "idle"
        BY <1>2, <2>2
      <3>2. panel'[flows[f].kind].status # "ready"
        BY <3>1
      <3> QED
        BY <1>1, <1>2, <1>3, <2>1, <2>2, <3>1, <3>2 DEF OrphanedBy
    <2> QED
      BY <1>1, <2>3 DEF ChainInv, Orphaned
  <1> QED
    BY <1>5, <1>6 DEF ChainInv

\* Every step keeps the chain.
LEMMA StepChains ==
    ASSUME IInv, ChainInv, [Next]_vars
    PROVE  ChainInv'
  <1>1. /\ \A f \in DOMAIN flows : flows[f].gen <= generation
        /\ generation \in Nat /\ \A f \in DOMAIN flows : flows[f].gen \in Nat
    BY FlowGen DEF IInv, TokensOK
  <1>2. ASSUME panel' = NoPanels, DOMAIN flows' = DOMAIN flows, generation' = generation + 1,
               \A f \in DOMAIN flows : flows'[f].gen = flows[f].gen
        PROVE  ChainInv'
    <2>1. \A f \in DOMAIN flows' : ~Current(f)'
      BY <1>1, <1>2 DEF Current
    <2>2. \A p \in Panels : panel'[p].status = "idle"
      BY <1>2 DEF NoPanels, Idle
    <2> QED
      BY <2>1, <2>2 DEF ChainInv, Chained, PendingOK, Alone, ShownOK, Pending
  <1>3. CASE ResetSucceeds
    BY <1>3, ResetChains
  <1>4. CASE ResetFails \/ UNCHANGED vars
    <2>1. UNCHANGED <<generation, flows, panel, selected, epoch>>
      BY <1>4 DEF ResetFails, vars
    <2>2. Chained => Chained'
      BY <2>1 DEF Chained, PendingOK, Alone, ShownOK, Pending, Current, Settled, Shown
    <2>3. Orphaned => Orphaned'
      BY <2>1 DEF Orphaned, OrphanedBy, Overtaken, Pending, Current
    <2> QED
      BY <2>2, <2>3 DEF ChainInv
  <1>5. CASE \E i \in Incidents \cup {None} : SelectionChanges(i)
    BY <1>2, <1>5 DEF SelectionChanges, Invalidate, IncidentChanged
  <1>6. ASSUME NEW f \in DOMAIN flows, IncidentFound(f) PROVE ChainInv'
    <2>1. Goes(f, "done") /\ panel' = NoPanels /\ generation' = generation + 1
      BY <1>6 DEF IncidentFound, Invalidate, IncidentChanged
    <2>2. DOMAIN flows' = DOMAIN flows /\ \A g \in DOMAIN flows : flows'[g].gen = flows[g].gen
      BY <2>1, GoesFlow DEF IInv, TypeOK
    <2> QED
      BY <1>2, <2>1, <2>2
  <1>7. CASE Click
    <2>1. Chained => ChainInv'
      BY <1>7, ClickChains DEF ChainInv
    <2> QED
      BY <1>7, <2>1, OrphanClicks DEF ChainInv
  <1>8. DOMAIN flows = 1 .. Len(flows)
    BY DEF IInv, TypeOK
  <1> QED
    BY <1>3, <1>4, <1>5, <1>6, <1>7, <1>8, FlowAnswerChains DEF Next

\* The chain of panels is kept in every behaviour.
LEMMA AlwaysChained == Spec => [](IInv /\ ChainInv)
  <1>1. Init => IInv /\ ChainInv
    <2>1. Init => \A f \in DOMAIN flows : ~Pending(f)
      BY DEF Init
    <2>2. Init => \A p \in Panels : panel[p].status = "idle"
      BY DEF Init, NoPanels, Idle
    <2> QED
      BY <2>1, <2>2, InitInv, EmptyChains DEF ChainInv
  <1>2. IInv /\ ChainInv /\ [Next]_vars => (IInv /\ ChainInv)'
    BY StepKeeps, StepChains
  <1> QED
    BY <1>1, <1>2, PTL DEF Spec

-----------------------------------------------------------------------------
(* The theorems.                                                           *)

\* The Command Center's state is well formed: whatever a panel shows was put
\* there by a flow of its own kind, for every number of flows and resets.
THEOREM CommandCenterTypeCorrect == Spec => []TypeOK
  <1>1. IInv => TypeOK
    BY DEF IInv
  <1> QED
    BY <1>1, AlwaysChained, PTL

\* With every control behind the reset dialog in reach, the generation token
\* keeps every answer of another incident, or of before a reset, out of the
\* panels; but for those asked for while the reset's answer was awaited.
THEOREM NothingStaleIsShown == Spec => []NothingStale
  <1>1. IInv => NothingStale
    BY DEF IInv
  <1> QED
    BY <1>1, AlwaysChained, PTL

\* The panels belong together (ChainMatches): polls, late answers, errors, restarts
\* and resets never put a what-if beside another baseline, or a diff beside other
\* runs, than those it was made from; what a reset overtook is shown beside nothing.
THEOREM PanelsBelongTogether == Spec => []ChainMatches
  <1>1. Chained => ChainMatches
    BY DEF Chained, ShownOK, ChainMatches, Settled
  <1>2. Orphaned => ChainMatches
    BY DEF Orphaned, OrphanedBy, ChainMatches
  <1> QED
    BY <1>1, <1>2, AlwaysChained, PTL DEF ChainInv

\* Nothing of a what-if is shown without its reproduced baseline (WhatIfUnlocked,
\* deriveWhatIfGate), unless a reset overtook the what-if; then it has no baseline.
THEOREM WhatIfStaysUnlocked == Spec => []WhatIfUnlocked
  <1>1. Chained => WhatIfUnlocked
    BY DEF Chained, ShownOK, WhatIfUnlocked, WhatIfGate, Settled, Inputs, Panels, Runs
  <1>2. Orphaned => WhatIfUnlocked
    BY DEF Orphaned, OrphanedBy, WhatIfUnlocked, Panels
  <1> QED
    BY <1>1, <1>2, AlwaysChained, PTL DEF ChainInv
=============================================================================
