--------------------------- MODULE MCUsageInvoice ---------------------------
(* Instances of UsageInvoice for TLC.                                       *)
EXTENDS UsageInvoice, TLC

\* One month of two lines.
OneMonth == (1 :> <<3, 2>>)

\* Two lines that reach a minor unit and leave a residual, a month below a minor
\* unit, and one whose usage costs nothing.
ThreeMonths == OneMonth @@ (2 :> <<1>>) @@ (3 :> <<0>>)
=============================================================================
