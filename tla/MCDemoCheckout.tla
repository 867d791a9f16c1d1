--------------------------- MODULE MCDemoCheckout ---------------------------
(* Instances of DemoCheckout for TLC.                                      *)
EXTENDS DemoCheckoutProps

CONSTANTS xGolden, xControl

\* The golden checkouts name one checkout, the controls another.
Separate == [r \in Requests |-> IF r \in Healthy THEN xControl ELSE xGolden]
=============================================================================
