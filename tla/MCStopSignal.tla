---------------------------- MODULE MCStopSignal ----------------------------
(* Instances of StopSignal for TLC.                                         *)
EXTENDS StopSignal, TLC

Bound(month, dispute, failure, hold, start, fault) ==
    [k \in Kinds |-> CASE k = "month" -> month [] k = "dispute" -> dispute
                       [] k = "failure" -> failure [] k = "hold" -> hold
                       [] k = "start" -> start [] k = "fault" -> fault]

\* Every other cause of a suspension beside one line.
CausesBudget == Bound(0, 1, 1, 1, 0, 0)

\* A month turns, work starts once, and one thing goes wrong.
RecoveryBudget == Bound(1, 0, 0, 0, 1, 1)

\* The owner is at its floor; or at its floor, or one above it and one below the
\* pool's line.
CausesStarts == {<<0, 0>>}
RecoveryStarts == {<<0, 0>>, <<1, 1>>}

\* Bound: the wallet is credited, or else a month turns and work starts.
\* Fairness owes neither.
WorkOrCredit == left["start"] + left["month"] = 2 \/ \A c \in Credits : lift[c] = "idle"
=============================================================================
