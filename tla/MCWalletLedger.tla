--------------------------- MODULE MCWalletLedger ---------------------------
(* Instances of WalletLedger for TLC.                                       *)
EXTENDS WalletLedger

\* Every event costs two, so a lot of one unit pays for part of it.
MCCost == [e \in Events |-> 2]

\* A top-up of three, refunded by Stripe in two parts.
MCTopUp == [a \in Attempts |-> 3]
MCRefunds == [a \in Attempts |-> <<1, 2>>]

\* Caller keys and grant keys are interchangeable, and so are the events.
Symmetry == Permutations(CallKeys) \cup Permutations(GrantKeys) \cup Permutations(Events)
=============================================================================
