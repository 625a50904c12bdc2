------------------------------ MODULE MCOutbox ------------------------------
(* Constants for checking Outbox on small instances. *)
EXTENDS Outbox

MCGated == {2}
=============================================================================
