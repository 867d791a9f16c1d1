--------------------------- MODULE LinearExtension ---------------------------
(***************************************************************************)
(* What CONTRACTS.md ("Deterministic graph and timeline ordering") promises *)
(* of a timeline: items come out one at a time, an item only after all     *)
(* items constrained to come before it, and nothing is left out.           *)
(***************************************************************************)
EXTENDS Sequences

VARIABLES items,    \* what has to be ordered
          before,   \* hard constraints, pairs of items
          emitted   \* the order so far

vars == <<items, before, emitted>>

Emitted == {emitted[i] : i \in DOMAIN emitted}

Init == items = {} /\ before = {} /\ emitted = <<>>

\* Items and constraints arrive.
Begin == items = {} /\ emitted = <<>> /\ emitted' = <<>>

Emit(x) ==
    /\ x \in items \ Emitted
    /\ \A y \in items : <<y, x>> \in before => y \in Emitted
    /\ emitted' = Append(emitted, x)
    /\ UNCHANGED <<items, before>>

\* The order is handed over once it is complete.
End ==
    /\ Emitted = items
    /\ items' = {} /\ before' = {} /\ emitted' = <<>>

Next == Begin \/ (\E x \in items : Emit(x)) \/ End

Spec == Init /\ [][Next]_vars
=============================================================================
