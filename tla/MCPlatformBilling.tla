------------------------- MODULE MCPlatformBilling -------------------------
(* An instance of PlatformBilling for TLC.                                  *)
EXTENDS PlatformBilling, TLC

CONSTANTS p1, p2

\* A fee of three leaves a remainder below a minor unit, which the next takes up.
MCCost == p1 :> 3 @@ p2 :> 2
=============================================================================
