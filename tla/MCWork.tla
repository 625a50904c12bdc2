------------------------------- MODULE MCWork -------------------------------
(* Instances of Work for TLC.                                               *)
EXTENDS Work, TLC

\* One report reaches the ceiling of the unit and of the one that contains it.
Ceilings == [u \in Units |-> 1]

\* A report is costed and priced, or waits for one of them, or is a credit.
SomeAmounts == {<<"known", "known">>, <<"unresolved", "known">>, <<"known", "unresolved">>,
                <<"credit", "known">>}

\* The report stops the unit, or its cost is missing and the unit goes on.
StopAmounts == {<<"known", "known">>, <<"unresolved", "known">>}

Begun == {u \in Units : status[u] # "unborn" \/ start[u] # NoStart}
Reported == {k \in Postings : post[k] # NoPosting}

(***************************************************************************)
(* Bounds on what the environment begins, which fairness owes nothing.     *)
(***************************************************************************)

\* One unit, the unit it contains and a report; or several units that start at
\* the same time, and nothing else.
TreeOrRace == Cardinality(Begun \cap Tops) <= 1 \/ (Begun \subseteq Tops /\ Reported = {})

\* One unit, the unit it contains and a report, of those that are alike always
\* the same; or one unit and two reports.
TreeOrReports == Reported \subseteq {CHOOSE k \in Postings : TRUE} \/ Begun \subseteq Tops

\* Work that starts in any order is the same.
AnyStart == Permutations(Tops)
=============================================================================
