------------------------------ MODULE Detection ------------------------------
(***************************************************************************)
(* What incident detection promises its readers: an incident is raised for *)
(* an execution only after two effects have been committed in it, it is    *)
(* raised once, and it stays as it was raised until a demo reset removes   *)
(* all incidents together.  Detection never undoes an effect.              *)
(***************************************************************************)
CONSTANTS Executions, Effects

VARIABLES committed,  \* committed[x]: the effects committed in execution x
          incident    \* incident[x]: the evidence of its incident, or {}

vars == <<committed, incident>>

Init ==
    /\ committed = [x \in Executions |-> {}]
    /\ incident = [x \in Executions |-> {}]

Commit(x, e) ==
    /\ committed' = [committed EXCEPT ![x] = @ \cup {e}]
    /\ UNCHANGED incident

\* Any evidence will do here: which events it is, is the oracle's matter.
Raise(x) ==
    /\ incident[x] = {}
    /\ \E a, b \in committed[x] : a # b
    /\ incident' = [incident EXCEPT ![x] = incident'[x]]
    /\ UNCHANGED committed

Reset ==
    /\ incident' = [x \in Executions |-> {}]
    /\ UNCHANGED committed

Next ==
    \/ \E x \in Executions, e \in Effects : Commit(x, e)
    \/ \E x \in Executions : Raise(x)
    \/ Reset

Spec == Init /\ [][Next]_vars
=============================================================================
