---------------------------- MODULE CommandCenter ----------------------------
(***************************************************************************)
(* The Command Center's replay workflow: the reducer's panels, the         *)
(* generation token, and the asynchronous flows that answer into the       *)
(* panels while the user selects incidents, triggers checkouts and resets  *)
(* the demo.                                                               *)
(*                                                                         *)
(* A flow is one call of compileCapsule, startBaseline, startWhatIf,       *)
(* createDiff or startFaultedCheckout; its number stands for the resource  *)
(* its request creates.  JavaScript runs one callback at a time, so an     *)
(* action is one callback: a click, or an answer up to the next await.     *)
(***************************************************************************)
EXTENDS Naturals, Sequences

CONSTANTS
    Incidents,      \* incident ids the list shows
    MaxFlows,       \* bound on flows started
    MaxGenerations, \* bound on the token's generation
    MaxEpochs       \* bound on successful resets

ASSUME BoundsAssumption == {MaxFlows, MaxGenerations, MaxEpochs} \subseteq Nat

VARIABLES
    generation, \* createGenerationToken's current
    flows,      \* the flows started, in order
    panel,      \* the reducer's four resource stages
    reset,      \* the reducer's reset stage
    resetting,  \* reset requests without an answer
    selected,   \* selectedIncidentRef, or None
    demo,       \* the state of the golden trigger
    epoch       \* resets that succeeded

vars == <<generation, flows, panel, reset, resetting, selected, demo, epoch>>

None == "none"

Panels == {"capsule", "baseline", "whatIf", "diff"}
Runs   == {"baseline", "whatIf"}
Kinds  == Panels \cup {"demo"}

\* What a panel shows of a run: "good" is COMPLETED, and for a baseline
\* REPRODUCED in passing isolation as well; "bad" is any other final record.
RunViews == {"active", "good", "bad"}

Idle == [status |-> "idle", by |-> 0, run |-> None]

NoPanels == [p \in Panels |-> Idle]

Init ==
    /\ generation = 0
    /\ flows = <<>>
    /\ panel = NoPanels
    /\ reset = "idle"
    /\ resetting = 0
    /\ selected = None
    /\ demo = "idle"
    /\ epoch = 0

-----------------------------------------------------------------------------
(* The token and the reducer.                                              *)

\* Mutant of Current: the token is not consulted.
CurrentAlways(f) == TRUE

Current(f) == flows[f].gen = generation

Invalidate == generation' = generation + 1

Loading(p) == [panel EXCEPT ![p] = [Idle EXCEPT !.status = "loading"]]

Ready(p, f, run) == [panel EXCEPT ![p] = [status |-> "ready", by |-> f, run |-> run]]

Failed(p) == [panel EXCEPT ![p] = [Idle EXCEPT !.status = "error"]]

\* Mutant of IncidentChanged: the what-if is forgotten.
IncidentChangedKeepsWhatIf == [p \in Panels |-> IF p = "whatIf" THEN panel[p] ELSE Idle]

IncidentChanged == NoPanels

\* Sends the request of a new flow and shows its panel as loading.  "behind"
\* remembers whether the answer to a reset was awaited at the time.
Start(kind, of) ==
    /\ Len(flows) < MaxFlows
    /\ flows' = Append(flows, [kind |-> kind, gen |-> generation, incident |-> selected,
                               epoch |-> epoch, of |-> of, phase |-> "request",
                               behind |-> resetting > 0])
    /\ panel' = IF kind \in Panels THEN Loading(kind) ELSE panel

Goes(f, phase) == flows' = [flows EXCEPT ![f].phase = phase]

-----------------------------------------------------------------------------
(* The user.  The reset dialog says aria-modal but traps no focus and makes  *)
(* nothing inert, so every control behind it can be operated at any stage.   *)

ClickUnchanged == UNCHANGED <<generation, reset, resetting, selected, demo, epoch>>

CompileCapsule ==
    /\ selected # None
    /\ panel["capsule"].status = "idle"
    /\ Start("capsule", {})
    /\ ClickUnchanged

\* Mutant of StartBaseline: a baseline that ended can be started again.
StartBaselineAgain ==
    /\ panel["capsule"].status = "ready"
    /\ panel["baseline"].status # "loading" /\ panel["baseline"].run # "active"
    /\ Start("baseline", {panel["capsule"].by})
    /\ ClickUnchanged

\* baselineDisabled: not while loading, active or terminal.
StartBaseline ==
    /\ panel["capsule"].status = "ready"
    /\ panel["baseline"].status \in {"idle", "error"}
    /\ Start("baseline", {panel["capsule"].by})
    /\ ClickUnchanged

\* deriveWhatIfGate
WhatIfGate == panel["baseline"].status = "ready" /\ panel["baseline"].run = "good"

StartWhatIf ==
    /\ panel["capsule"].status = "ready"
    /\ WhatIfGate
    /\ panel["whatIf"].status \in {"idle", "error"}
    /\ Start("whatIf", {panel["capsule"].by, panel["baseline"].by})
    /\ ClickUnchanged

CreateDiff ==
    /\ panel["baseline"].status = "ready"
    /\ panel["whatIf"].status = "ready" /\ panel["whatIf"].run = "good"
    /\ panel["diff"].status \in {"idle", "error"}
    /\ Start("diff", {panel["baseline"].by, panel["whatIf"].by})
    /\ ClickUnchanged

StartFaultedCheckout ==
    /\ demo \notin {"starting", "waiting"}
    /\ Start("demo", {})
    /\ demo' = "starting"
    /\ UNCHANGED <<generation, reset, resetting, selected, epoch>>

DismissDemo ==
    /\ demo = "failed"
    /\ demo' = "idle"
    /\ UNCHANGED <<generation, flows, panel, reset, resetting, selected, epoch>>

\* The button below the panels is never disabled, nor does the reducer ask
\* which stage the reset is in.
OpenReset ==
    /\ reset' = "confirming"
    /\ UNCHANGED <<generation, flows, panel, resetting, selected, demo, epoch>>

CancelReset ==
    /\ reset = "confirming"
    /\ reset' = "idle"
    /\ UNCHANGED <<generation, flows, panel, resetting, selected, demo, epoch>>

\* The component and the workflow invalidate, one after the other.
ConfirmReset ==
    /\ reset = "confirming"
    /\ generation + 2 <= MaxGenerations
    /\ generation' = generation + 2
    /\ reset' = "submitting"
    /\ resetting' = resetting + 1
    /\ demo' = "idle"
    /\ UNCHANGED <<flows, panel, selected, epoch>>

-----------------------------------------------------------------------------
(* Answers.                                                                *)

\* The answers to a reset change the stage whatever it has become meanwhile,
\* and invalidate nothing.
ResetSucceeds ==
    /\ resetting > 0
    /\ resetting' = resetting - 1
    /\ epoch < MaxEpochs
    /\ epoch' = epoch + 1
    /\ panel' = NoPanels
    /\ reset' = "completed"
    /\ selected' = None
    /\ UNCHANGED <<generation, flows, demo>>

ResetFails ==
    /\ resetting > 0
    /\ resetting' = resetting - 1
    /\ reset' = "failed"
    /\ UNCHANGED <<generation, flows, panel, selected, demo, epoch>>

\* handleSelectionChange, when the detail of another incident has loaded or
\* the list has turned out empty or unusable.
SelectionChanges(i) ==
    /\ selected # i
    /\ generation < MaxGenerations
    /\ Invalidate
    /\ selected' = i
    /\ panel' = IncidentChanged
    /\ demo' = IF demo \in {"starting", "waiting"} THEN "idle" ELSE demo
    /\ UNCHANGED <<flows, reset, resetting, epoch>>

AnswerUnchanged == UNCHANGED <<generation, reset, resetting, selected, epoch>>

\* Mutant of Created: a new run is always shown as the baseline.
CreatedAsBaseline(f) ==
    LET kind == flows[f].kind
        shown == IF kind \in Runs THEN "baseline" ELSE kind
    IN  /\ kind \in Panels /\ flows[f].phase = "request"
        /\ IF Current(f)
           THEN /\ panel' = Ready(shown, f, IF kind \in Runs THEN "active" ELSE None)
                /\ Goes(f, IF kind \in Runs THEN "poll" ELSE "done")
           ELSE Goes(f, "done") /\ UNCHANGED panel
        /\ AnswerUnchanged /\ UNCHANGED demo

\* The answer to the first request of a panel's flow.
Created(f) ==
    LET kind == flows[f].kind
    IN  /\ kind \in Panels /\ flows[f].phase = "request"
        /\ IF Current(f)
           THEN /\ panel' = Ready(kind, f, IF kind \in Runs THEN "active" ELSE None)
                /\ Goes(f, IF kind \in Runs THEN "poll" ELSE "done")
           ELSE Goes(f, "done") /\ UNCHANGED panel
        /\ AnswerUnchanged /\ UNCHANGED demo

\* One round of pollRunUntilTerminal; a flow that is cancelled ends.
Polled(f, run) ==
    /\ flows[f].kind \in Runs /\ flows[f].phase = "poll"
    /\ IF Current(f)
       THEN panel' = Ready(flows[f].kind, f, run) /\ Goes(f, IF run = "active" THEN "poll" ELSE "done")
       ELSE Goes(f, "done") /\ UNCHANGED panel
    /\ AnswerUnchanged /\ UNCHANGED demo

\* Mutant of RequestFails: the error is swallowed.
RequestFailsSilently(f) ==
    /\ flows[f].kind \in Panels /\ flows[f].phase # "done"
    /\ Goes(f, "done")
    /\ UNCHANGED panel
    /\ AnswerUnchanged /\ UNCHANGED demo

\* A request of a panel's flow fails.
RequestFails(f) ==
    /\ flows[f].kind \in Panels /\ flows[f].phase # "done"
    /\ Goes(f, "done")
    /\ panel' = IF Current(f) THEN Failed(flows[f].kind) ELSE panel
    /\ AnswerUnchanged /\ UNCHANGED demo

\* The gateway has answered: wait for the incident, if still wanted.
CheckoutAnswered(f) ==
    /\ flows[f].kind = "demo" /\ flows[f].phase = "request"
    /\ Goes(f, IF Current(f) THEN "poll" ELSE "done")
    /\ demo' = IF Current(f) THEN "waiting" ELSE "idle"
    /\ UNCHANGED panel /\ AnswerUnchanged

\* pollForIncident has found the incident: it is to be selected.
IncidentFound(f) ==
    /\ flows[f].kind = "demo" /\ flows[f].phase = "poll"
    /\ Current(f)
    /\ generation < MaxGenerations
    /\ Goes(f, "done")
    /\ demo' = "idle"
    /\ Invalidate
    /\ panel' = IncidentChanged
    /\ UNCHANGED <<reset, resetting, selected, epoch>>

\* The trigger fails, finds no incident in time, or has been cancelled.
DemoEnds(f) ==
    /\ flows[f].kind = "demo" /\ flows[f].phase # "done"
    /\ Goes(f, "done")
    /\ demo' = IF Current(f) THEN "failed" ELSE "idle"
    /\ UNCHANGED panel /\ AnswerUnchanged

-----------------------------------------------------------------------------

Answer(f) ==
    \/ Created(f) \/ (\E run \in RunViews : Polled(f, run)) \/ RequestFails(f)
    \/ CheckoutAnswered(f) \/ IncidentFound(f) \/ DemoEnds(f)

Click ==
    \/ CompileCapsule \/ StartBaseline \/ StartWhatIf \/ CreateDiff
    \/ StartFaultedCheckout \/ DismissDemo
    \/ OpenReset \/ CancelReset \/ ConfirmReset

FirstAnswer(f) == flows[f].phase = "request" /\ Answer(f)

Next ==
    \/ Click
    \/ ResetSucceeds \/ ResetFails
    \/ \E i \in Incidents \cup {None} : SelectionChanges(i)
    \/ \E f \in 1 .. Len(flows) : Answer(f)

Spec == Init /\ [][Next]_vars

\* fetch settles every request, the reset's included.  Nothing is assumed of
\* the user, nor of the runs the server works on.
FairSpec ==
    /\ Spec
    /\ WF_vars(ResetSucceeds \/ ResetFails)
    /\ \A f \in 1 .. MaxFlows : WF_vars(f \in DOMAIN flows /\ FirstAnswer(f))
=============================================================================
