---------------------------- MODULE RunLifecycle ----------------------------
(***************************************************************************)
(* What the run store promises its readers, whoever drives the runs: the   *)
(* lifecycle of CONTRACTS.md ("ReplayRun"), one run at a time, a verdict   *)
(* only on a COMPLETED run, and what-if runs only over a baseline that has *)
(* reproduced the failure.  Terminal runs do not change again; a demo      *)
(* reset removes runs together, never a baseline from under a what-if.     *)
(***************************************************************************)
EXTENDS Naturals

CONSTANT Ids          \* run ids; 0, which is none of them, stands for "no baseline"

VARIABLE life         \* life[r]: status, verdict and baseline of run r

Absent == [status |-> "ABSENT", verdict |-> "NONE", baseline |-> 0]

BaselineVerdicts == {"REPRODUCED", "NOT_REPRODUCED", "INCONCLUSIVE"}
WhatIfVerdicts == {"MITIGATED", "UNCHANGED", "INCONCLUSIVE"}

Reproduced(b) == life[b] = [status |-> "COMPLETED", verdict |-> "REPRODUCED", baseline |-> 0]

Init == life = [r \in Ids |-> Absent]

Create(r, b) ==
  /\ life[r] = Absent
  /\ b \in Ids => Reproduced(b)
  /\ life' = [life EXCEPT ![r] = [status |-> "CREATED", verdict |-> "NONE", baseline |-> b]]

Move(r, from, to) ==
  /\ life[r].status = from
  /\ life' = [life EXCEPT ![r].status = to]

Claim(r) == Move(r, "CREATED", "VALIDATING")
Start(r) == Move(r, "VALIDATING", "RUNNING")

Reject(r) == \E from \in {"VALIDATING", "RUNNING"}, to \in {"BLOCKED", "FAILED"} : Move(r, from, to)

Complete(r) ==
  /\ life[r].status = "RUNNING"
  /\ \E v \in IF life[r].baseline = 0 THEN BaselineVerdicts ELSE WhatIfVerdicts :
       life' = [life EXCEPT ![r] = [status |-> "COMPLETED", verdict |-> v, baseline |-> @.baseline]]

\* A reset: runs it does not see yet stay, those that stay with their baselines.
Wipe ==
  \E kept \in SUBSET Ids :
    /\ \A r \in kept : life[r].baseline \in kept \cup {0}
    /\ life' = [r \in Ids |-> IF r \in kept THEN life[r] ELSE Absent]

\* A step is of one run, which changes, or a reset.
Next ==
  \/ \E r \in Ids :
       /\ life'[r] # life[r]
       /\ \/ \E b \in Ids \cup {0} : Create(r, b)
          \/ Claim(r) \/ Start(r) \/ Reject(r) \/ Complete(r)
  \/ Wipe

Spec == Init /\ [][Next]_life
=============================================================================
