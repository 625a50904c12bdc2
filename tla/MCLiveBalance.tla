---------------------------- MODULE MCLiveBalance ----------------------------
(* Instances of LiveBalance for TLC.                                        *)
EXTENDS LiveBalance

\* Recordings cost two, which is past the de-minimis on its own; a credit
\* brings three and any other debit takes one.
MCBilled == [r \in Recordings |-> 2]
MCAmount == [m \in Credits \cup Debits |-> IF m \in Credits THEN 3 ELSE 1]
=============================================================================
