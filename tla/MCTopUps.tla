------------------------------ MODULE MCTopUps ------------------------------
(* Instances of TopUps for TLC.                                             *)
EXTENDS TopUps

\* Every session is for the one Checkout attempt.
OneAttempt == [s \in Sessions |-> CHOOSE c \in Checkouts : TRUE]

\* Bound: Stripe has two events of an attempt, of its payments or of a payment
\* and its refund.  Fairness owes nothing to the steps that make events.
TwoEvents == Cardinality(emitted) <= 2
=============================================================================
