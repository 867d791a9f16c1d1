------------------------- MODULE CommandCenterProps -------------------------
(* What must hold of the Command Center's workflow.                        *)
EXTENDS CommandCenter

Flow == [kind : Kinds, gen : 0 .. MaxGenerations, incident : Incidents \cup {None},
         epoch : 0 .. MaxEpochs, of : SUBSET (1 .. MaxFlows),
         phase : {"request", "poll", "done"}, behind : BOOLEAN]

Panel == [status : {"idle", "loading", "ready", "error"}, by : 0 .. MaxFlows,
          run : RunViews \cup {None}]

PanelOK(p) ==
    panel[p].status = "ready" =>
        /\ panel[p].by \in 1 .. Len(flows)
        /\ flows[panel[p].by].kind = p
        /\ panel[p].run \in IF p \in Runs THEN RunViews ELSE {None}

\* The state is well formed: a panel that is ready shows what a flow of its own
\* kind fetched.
TypeOK ==
    /\ generation \in 0 .. MaxGenerations
    /\ flows \in Seq(Flow) /\ Len(flows) <= MaxFlows
    /\ panel \in [Panels -> Panel] /\ \A p \in Panels : PanelOK(p)
    /\ reset \in {"idle", "confirming", "submitting", "completed", "failed"}
    /\ resetting \in 0 .. MaxGenerations
    /\ selected \in Incidents \cup {None}
    /\ demo \in {"idle", "starting", "waiting", "failed"}
    /\ epoch \in 0 .. MaxEpochs

Shown(p) == flows[panel[p].by]

\* What a panel shows was asked for after the last reset, and then under the
\* incident that is selected, however late the answer came; unless it was
\* asked for while the answer to a reset was awaited, behind the dialog.
NothingStale ==
    \A p \in Panels : panel[p].status = "ready" =>
        IF Shown(p).epoch = epoch
          THEN Shown(p).incident = selected
          ELSE Shown(p).behind /\ selected = None

\* After a reset that succeeded no panel shows what was asked for before: "on
\* success, clear all selected incident, capsule, run, diff ... state" (the
\* completion design).  The code does not keep this: the reset's success moves
\* no generation on, so a flow started behind the dialog still fills its panel.
ResetClears == \A p \in Panels : panel[p].status = "ready" => Shown(p).epoch = epoch

Inputs(p) ==
    CASE p = "capsule"  -> {}
      [] p = "baseline" -> {"capsule"}
      [] p = "whatIf"   -> {"capsule", "baseline"}
      [] p = "diff"     -> {"baseline", "whatIf"}

\* A flow that a reset overtook: started while the reset was under way.
Overtaken(f) == flows[f].behind /\ flows[f].epoch # epoch

\* The panels belong together: the baseline replays the capsule beside it,
\* the what-if refers to that baseline, and the diff compares those two.  An
\* answer that a reset overtook stands alone, never beside a stranger.
ChainMatches ==
    \A p \in Panels : panel[p].status = "ready" =>
        \/ /\ \A q \in Inputs(p) : panel[q].status = "ready"
           /\ Shown(p).of = {panel[q].by : q \in Inputs(p)}
        \/ /\ Overtaken(panel[p].by)
           /\ \A q \in Panels \ {p} : panel[q].status = "idle"

\* A what-if is shown, asked for or failed only beside a reproduced baseline,
\* whatever happened to the baseline's panel since it was unlocked; but for
\* one that a reset overtook, beside no baseline at all and no incident.
WhatIfUnlocked ==
    panel["whatIf"].status # "idle" =>
        \/ WhatIfGate
        \/ /\ panel["baseline"].status = "idle" /\ selected = None
           /\ \E f \in DOMAIN flows : flows[f].kind = "whatIf" /\ Overtaken(f)

Awaited(p) ==
    \E f \in DOMAIN flows : flows[f].kind = p /\ flows[f].phase = "request" /\ Current(f)

\* A panel that waits for an answer gets out of "loading", with the answer,
\* with its error, or because the selection moved on, unless a reset cancels
\* the flow meanwhile: if that reset fails, nobody clears the panel.
LoadingEnds ==
    \A p \in Panels :
        panel[p].status = "loading" /\ Awaited(p)
            ~> panel[p].status # "loading" \/ reset = "submitting"
=============================================================================
