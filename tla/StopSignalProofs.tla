-------------------------- MODULE StopSignalProofs --------------------------
(***************************************************************************)
(* Safety of the customer-wide stop, for any number of recordings and      *)
(* credits, any balance and lines, and any number of environment actions.  *)
(***************************************************************************)
EXTENDS StopSignal, TLAPS

\* What a recording's transaction has won is a line it drove, whose row it holds
\* locked, and nobody else opens that line before it commits.
WonClosed ==
    \A r \in Recordings :
        /\ rec[r].won \subseteq rec[r].drove
        /\ \A l \in rec[r].won : ~open[l]

Inv == TypeOK /\ WonClosed /\ SignalsAlternate /\ FailureHoldsOwner

\* What a recording can be at, with what its transaction did so far.
RecStates == [pc : RecSteps, leg : Lines, fresh : BOOLEAN,
              drove : SUBSET Lines, won : SUBSET Lines]

-----------------------------------------------------------------------------
\* The end of a leg of debit leaves a recording well formed and its
\* transaction as it was.
LEMMA NextLegType ==
    ASSUME TypeOK, NEW r \in Recordings
    PROVE  /\ NextLeg(r) \in RecStates
           /\ NextLeg(r).drove = rec[r].drove /\ NextLeg(r).won = rec[r].won
  <1>1. rec[r] \in RecStates
    BY DEF TypeOK, RecStates
  <1>2. CASE rec[r].leg = "floor"
    BY <1>1, <1>2 DEF NextLeg, RecStates, RecSteps, Lines
  <1>3. CASE rec[r].leg # "floor"
    BY <1>1, <1>3 DEF NextLeg, RecStates, RecSteps
  <1> QED BY <1>2, <1>3

\* Opening lines keeps the types, and suspends with a reason.
LEMMA OpensType ==
    ASSUME TypeOK, NEW S \in SUBSET Lines, OpenAndSuspend(S)
    PROVE  /\ open' \in [Lines -> BOOLEAN] /\ stops' \in [Lines -> Nat]
           /\ status' \in {"active", "suspended"}
           /\ reason' \in Lines \cup {"none", "dispute_lost", "payment_failed", "manual"}
           /\ (status' = "active") = (reason' = "none")
  BY DEF TypeOK, OpenAndSuspend, First, Lines, owner

\* One step keeps the types, the holder of the lock and the reason of a
\* suspension.
LEMMA TypeStep == TypeOK /\ [Next]_vars => TypeOK'
  <1> SUFFICES ASSUME TypeOK PROVE [Next]_vars => TypeOK'
    OBVIOUS
  <1> USE StopAssumption DEF TypeOK, Lines, Passes, Lifters, Kinds, RecSteps,
                             LockedSteps, LiftSteps
  <1>1. ASSUME NEW r \in Recordings, Begin(r) PROVE TypeOK'
    BY <1>1 DEF Begin, Step, money, ledger, owner, invoice
  <1>2. ASSUME NEW r \in Recordings, MeasureFloor(r) PROVE TypeOK'
    <2>1. rec'[r] \in RecStates /\ rec'[r].drove = rec[r].drove
      BY <1>2, NextLegType DEF MeasureFloor, RecStates
    <2>2. live' \in Int
      BY <1>2 DEF MeasureFloor
    <2> QED BY <1>2, <2>1, <2>2 DEF MeasureFloor, RecStates, ledger, owner, invoice
  <1>3. ASSUME NEW r \in Recordings, MeasurePool(r) PROVE TypeOK'
    <2>1. rec'[r] \in RecStates /\ rec'[r].drove = rec[r].drove
      <3>1. rec[r] \in RecStates /\ NextLeg(r) \in RecStates /\ NextLeg(r).drove = rec[r].drove
        BY NextLegType DEF RecStates
      <3>2. rec'[r] = NextLeg(r) \/ rec'[r] = [rec[r] EXCEPT !.pc = "flag"]
        BY <1>3 DEF MeasurePool
      <3> QED BY ONLY <3>1, <3>2 DEF RecStates, RecSteps
    <2> QED BY <1>3, <2>1 DEF MeasurePool, RecStates, ledger, owner, invoice
  <1>4. ASSUME NEW r \in Recordings, DebitFails(r) PROVE TypeOK'
    BY <1>4 DEF DebitFails, Spend, Step, money, ledger, owner, invoice
  <1>5. ASSUME NEW r \in Recordings, SetFlag(r) PROVE TypeOK'
    <2>1. rec[r] \in RecStates
      BY DEF RecStates
    <2>2. CASE rec'[r] = NextLeg(r)
      BY <1>5, <2>2, NextLegType DEF SetFlag, RecStates, money, ledger, owner, invoice
    <2>3. CASE rec'[r] = [rec[r] EXCEPT !.pc = "drive", !.fresh = (flag = "none")]
      <3>1. rec'[r] \in RecStates /\ rec'[r].drove = rec[r].drove
        BY <2>1, <2>3 DEF RecStates
      <3> QED BY <1>5, <3>1 DEF SetFlag, RecStates, money, ledger, owner, invoice
    <2>4. \/ rec'[r] = NextLeg(r)
          \/ rec'[r] = [rec[r] EXCEPT !.pc = "drive", !.fresh = (flag = "none")]
      BY <1>5 DEF SetFlag
    <2> QED BY <2>2, <2>3, <2>4
  <1>6. ASSUME NEW r \in Recordings, Drive(r) PROVE TypeOK'
    <2> DEFINE l == rec[r].leg
               n == NextLeg(r)
               w == IF open[l] THEN n.won ELSE n.won \cup {l}
    <2>1. /\ l \in Lines /\ n \in RecStates
          /\ n.drove \cup {l} \in SUBSET Lines /\ w \in SUBSET Lines
      BY NextLegType DEF RecStates
    <2>2. rec' = [rec EXCEPT ![r] = [n EXCEPT !.drove = n.drove \cup {l}, !.won = w]]
      BY <1>6 DEF Drive
    <2> HIDE DEF n, w
    <2>3. rec'[r] \in RecStates /\ rec'[r].drove # {}
      BY <2>1, <2>2 DEF RecStates
    <2>4. rec' \in [Recordings -> RecStates]
      BY <2>2, <2>3 DEF RecStates
    <2>5. \A q \in Recordings \ {r} : rec'[q] = rec[q] /\ rec[q].drove = {}
      BY <1>6, <2>2 DEF Drive
    <2>6. \A q \in Recordings : (lock' = q) = (rec'[q].drove # {})
      <3>1. lock' = r
        BY <1>6 DEF Drive
      <3> QED BY ONLY <3>1, <2>3, <2>5
    <2>7. \A p \in Passes : (lock' = p) = (lift'[p] \in LockedSteps)
      BY <1>6 DEF Drive
    <2>8. flag' \in Lines \cup {"none"}
      BY <1>6, <2>1 DEF Drive
    <2> QED BY <1>6, <2>4, <2>6, <2>7, <2>8 DEF Drive, RecStates, money, ledger, owner, invoice
  <1>7. ASSUME NEW r \in Recordings, DriveFails(r) PROVE TypeOK'
    <2>1. rec'[r] \in RecStates /\ rec'[r].drove = rec[r].drove
      BY <1>7, NextLegType DEF DriveFails, RecStates
    <2> QED BY <1>7, <2>1 DEF DriveFails, Spend, RecStates, money, ledger, owner, invoice
  <1>8. ASSUME NEW r \in Recordings, CommitRecording(r) PROVE TypeOK'
    <2>1. rec' \in [Recordings -> RecStates]
      BY <1>8 DEF CommitRecording, Idle, RecStates
    <2>2. rec'[r].drove = {} /\ \A q \in Recordings \ {r} : rec'[q] = rec[q]
      BY <1>8 DEF CommitRecording, Idle
    <2>3. lock' \in Recordings \cup Passes \cup {NoOne} /\ lock' # r
      BY <1>8 DEF CommitRecording, Unlock
    <2>4. \A q \in (Recordings \cup Passes) \ {r} : (lock' = q) = (lock = q)
      BY <1>8 DEF CommitRecording, Unlock
    <2>5. \A q \in Recordings : (lock' = q) = (rec'[q].drove # {})
      BY <2>2, <2>3, <2>4
    <2>6. \A p \in Passes : (lock' = p) = (lift'[p] \in LockedSteps)
      <3>1. lift' = lift /\ r \notin Passes
        BY <1>8 DEF CommitRecording
      <3> QED BY <2>4, <3>1
    <2>7. /\ open' \in [Lines -> BOOLEAN] /\ stops' \in [Lines -> Nat]
          /\ status' \in {"active", "suspended"}
          /\ reason' \in Lines \cup {"none", "dispute_lost", "payment_failed", "manual"}
          /\ (status' = "active") = (reason' = "none")
      BY <1>8, OpensType DEF CommitRecording
    <2> QED BY <1>8, <2>1, <2>3, <2>5, <2>6, <2>7 DEF CommitRecording, RecStates, invoice
  <1>9. ASSUME NEW r \in Recordings, RollBack(r) PROVE TypeOK'
    <2>1. rec' \in [Recordings -> RecStates]
      BY <1>9 DEF RollBack, Idle, RecStates
    <2>2. rec'[r].drove = {} /\ \A q \in Recordings \ {r} : rec'[q] = rec[q]
      BY <1>9 DEF RollBack, Idle
    <2>3. lock' \in Recordings \cup Passes \cup {NoOne} /\ lock' # r
      BY <1>9 DEF RollBack, Unlock
    <2>4. \A q \in (Recordings \cup Passes) \ {r} : (lock' = q) = (lock = q)
      BY <1>9 DEF RollBack, Unlock
    <2>5. \A q \in Recordings : (lock' = q) = (rec'[q].drove # {})
      BY <2>2, <2>3, <2>4
    <2>6. \A p \in Passes : (lock' = p) = (lift'[p] \in LockedSteps)
      <3>1. lift' = lift /\ r \notin Passes
        BY <1>9 DEF RollBack
      <3> QED BY <2>4, <3>1
    <2> QED BY <1>9, <2>1, <2>3, <2>5, <2>6
           DEF RollBack, Spend, RecStates, money, ledger, owner, invoice
  <1>10. ASSUME NEW r \in Recordings, SweepOnCommit(r) PROVE TypeOK'
    BY <1>10 DEF SweepOnCommit, Step, Kill, money, ledger, owner, invoice
  <1>11. ASSUME NEW r \in Recordings, SweepLost(r) PROVE TypeOK'
    BY <1>11 DEF SweepLost, Spend, Step, money, ledger, owner, invoice
  <1>12. ASSUME NEW r \in Recordings, DrawDown(r) PROVE TypeOK'
    BY <1>12 DEF DrawDown, PastFloor, Step, OpenAndSuspend, First, owner, invoice
  <1>13. ASSUME NEW p \in Lifters, resume_DriveClear(p) PROVE TypeOK'
    BY <1>13 DEF resume_DriveClear, At, RowFree, LineOf, CloseLine, money, owner,
       invoice
  <1>14. ASSUME NEW p \in Lifters, resume_OpenLines(p) PROVE TypeOK'
    BY <1>14 DEF resume_OpenLines, OpenLines, At, Rest, First, money, ledger, owner,
       invoice
  <1>15. ASSUME NEW p \in Lifters, resume_ClearStop(p) PROVE TypeOK'
    BY <1>15 DEF resume_ClearStop, At, money, ledger, owner, invoice
  <1>16. ASSUME NEW p \in Lifters, resume_DurableGate(p) PROVE TypeOK'
    BY <1>16 DEF resume_DurableGate, At, PastFloor, Rest, money, ledger, owner, invoice
  <1>17. ASSUME NEW p \in Lifters, resume_Unsuspend(p) PROVE TypeOK'
    BY <1>17 DEF resume_Unsuspend, At, Rest, MaybeUnsuspend, owner, MoneyReasons, money,
       ledger, invoice
  <1>18. ASSUME NEW p \in Lifters, LifterFails(p) PROVE TypeOK'
    <2>1. PICK next \in {Rest(p)} \cup {q \in {"pool"} : p = "reconcile" /\ lock = p} :
              lift' = [lift EXCEPT ![p] = next]
      BY <1>18 DEF LifterFails
    <2>2. next \in LiftSteps \ LockedSteps
      BY <2>1 DEF Rest
    <2> QED BY <1>18, <2>1, <2>2 DEF LifterFails, Spend, money, ledger, owner, invoice
  <1>19. ASSUME NEW c \in Credits, PostCredit(c) PROVE TypeOK'
    BY <1>19 DEF PostCredit, At, ledger, owner, invoice
  <1>20. ASSUME NEW c \in Credits, CreditHook(c) PROVE TypeOK'
    BY <1>20 DEF CreditHook, At, PastFloor, ledger, owner, invoice
  <1>21. ASSUME NEW c \in Credits, CreditHookLost(c) PROVE TypeOK'
    BY <1>21 DEF CreditHookLost, At, Spend, money, ledger, owner, invoice
  <1>22. ASSUME NEW p \in Passes, LockedOpenLines(p) PROVE TypeOK'
    BY <1>22 DEF LockedOpenLines, At, money, ledger, owner, invoice
  <1>23. ASSUME NEW p \in Passes, LockedClearStop(p) PROVE TypeOK'
    BY <1>23 DEF LockedClearStop, At, money, ledger, owner, invoice
  <1>24. ASSUME NEW p \in Passes, LockedCommit(p) PROVE TypeOK'
    BY <1>24 DEF LockedCommit, At, owner, PastFloor, MaybeUnsuspend, MoneyReasons,
       CloseLine, money, invoice
  <1>25. ASSUME WalletPass PROVE TypeOK'
    BY <1>25 DEF WalletPass, At, PastFloor, ledger, owner, invoice
  <1>26. ASSUME WalletEnsureFlag PROVE TypeOK'
    BY <1>26 DEF WalletEnsureFlag, At, money, ledger, owner, invoice
  <1>27. ASSUME WalletCommitOpen PROVE TypeOK'
    BY <1>27 DEF WalletCommitOpen, At, OpenAndSuspend, First, owner, OpenLines, money,
       invoice
  <1>28. ASSUME PoolPass PROVE TypeOK'
    BY <1>28 DEF PoolPass, At, PastPool, ledger, owner, invoice
  <1>29. ASSUME PoolDrive PROVE TypeOK'
    BY <1>29 DEF PoolDrive, At, OpenAndSuspend, First, owner, OpenLines, money, invoice
  <1>30. ASSUME PoolSweep PROVE TypeOK'
    BY <1>30 DEF PoolSweep, At, Kill, money, ledger, owner, invoice
  <1>31. ASSUME PoolEnsureFlag PROVE TypeOK'
    BY <1>31 DEF PoolEnsureFlag, At, money, ledger, owner, invoice
  <1>32. ASSUME PoolResweep PROVE TypeOK'
    BY <1>32 DEF PoolResweep, At, Kill, money, ledger, owner, invoice
  <1>33. ASSUME Repair PROVE TypeOK'
    BY <1>33 DEF Repair, PastFloor, At, ledger, owner, invoice
  <1>34. ASSUME DisputeLost PROVE TypeOK'
    BY <1>34 DEF DisputeLost, Spend, PastFloor, owner, ledger, invoice
  <1>35. ASSUME InvoiceFails PROVE TypeOK'
    BY <1>35 DEF InvoiceFails, Spend, money, ledger, owner
  <1>36. ASSUME SuspendForFailure PROVE TypeOK'
    BY <1>36 DEF SuspendForFailure, owner, money, ledger
  <1>37. ASSUME InvoiceSettles PROVE TypeOK'
    <2>1. failed' \in BOOLEAN /\ failing' \in BOOLEAN
      BY <1>37, Zenon DEF InvoiceSettles
    <2>2. UNCHANGED <<money, ledger, flag, owner, lock, rec, lift, work, left>>
      BY <1>37 DEF InvoiceSettles
    <2> QED BY <2>1, <2>2 DEF money, ledger, owner
  <1>38. ASSUME clear_payment_failed_suspension PROVE TypeOK'
    BY <1>38 DEF clear_payment_failed_suspension, MaybeUnsuspend, owner, StandingCause,
       OpenLines, First, PastFloor, money, ledger, invoice
  <1>39. ASSUME place_manual_hold PROVE TypeOK'
    BY <1>39 DEF place_manual_hold, Spend, money, ledger, invoice
  <1>40. ASSUME release_manual_hold PROVE TypeOK'
    BY <1>40 DEF release_manual_hold, MaybeUnsuspend, owner, StandingCause, OpenLines,
       First, PastFloor, money, ledger, invoice
  <1>41. ASSUME AdmitWork PROVE TypeOK'
    BY <1>41 DEF AdmitWork, Spend, PastFloor, money, ledger, owner, invoice
  <1>42. ASSUME StartWork PROVE TypeOK'
    BY <1>42 DEF StartWork, money, ledger, owner, invoice
  <1>43. ASSUME NewMonth PROVE TypeOK'
    BY <1>43 DEF NewMonth, Spend, ledger, owner, invoice
  <1>44. ASSUME Flush PROVE TypeOK'
    BY <1>44 DEF Flush, Spend, ledger, owner, invoice
  <1>45. ASSUME UNCHANGED vars PROVE TypeOK'
    BY <1>45 DEF vars, money, ledger, owner, invoice
  <1> QED BY <1>1, <1>2, <1>3, <1>4, <1>5, <1>6, <1>7, <1>8, <1>9, <1>10, <1>11, <1>12,
         <1>13, <1>14, <1>15, <1>16, <1>17, <1>18, <1>19, <1>20, <1>21, <1>22, <1>23,
         <1>24, <1>25, <1>26, <1>27, <1>28, <1>29, <1>30, <1>31, <1>32, <1>33, <1>34,
         <1>35, <1>36, <1>37, <1>38, <1>39, <1>40, <1>41, <1>42, <1>43, <1>44, <1>45 DEF
         Next

-----------------------------------------------------------------------------
\* Who writes the stop ledger: the transitions of drive_stop and drive_clear.
LEMMA LedgerWriters ==
    ASSUME [Next]_vars
    PROVE  \/ UNCHANGED ledger
           \/ \E r \in Recordings : CommitRecording(r) \/ DrawDown(r)
           \/ \E p \in Lifters : resume_DriveClear(p)
           \/ \E p \in Passes : LockedCommit(p)
           \/ WalletCommitOpen \/ PoolDrive
  BY DEF Next, vars, ledger, Begin, MeasureFloor, MeasurePool, DebitFails, SetFlag, Drive,
         DriveFails, RollBack, SweepOnCommit, SweepLost, resume_OpenLines, resume_ClearStop,
         resume_DurableGate, resume_Unsuspend, LifterFails, PostCredit, CreditHook,
         CreditHookLost, LockedOpenLines, LockedClearStop, WalletPass, WalletEnsureFlag,
         PoolPass, PoolSweep, PoolEnsureFlag, PoolResweep, Repair, DisputeLost, InvoiceFails,
         SuspendForFailure, InvoiceSettles, clear_payment_failed_suspension,
         place_manual_hold, release_manual_hold, AdmitWork, StartWork, NewMonth, Flush

\* Who writes the owner's standing.
LEMMA OwnerWriters ==
    ASSUME [Next]_vars
    PROVE  \/ UNCHANGED owner
           \/ \E r \in Recordings : CommitRecording(r) \/ DrawDown(r)
           \/ \E p \in Lifters : resume_Unsuspend(p)
           \/ \E p \in Passes : LockedCommit(p)
           \/ WalletCommitOpen \/ PoolDrive \/ DisputeLost \/ SuspendForFailure
           \/ clear_payment_failed_suspension \/ place_manual_hold \/ release_manual_hold
  BY DEF Next, vars, owner, Begin, MeasureFloor, MeasurePool, DebitFails, SetFlag, Drive,
         DriveFails, RollBack, SweepOnCommit, SweepLost, resume_DriveClear, resume_OpenLines,
         resume_ClearStop, resume_DurableGate, LifterFails, PostCredit, CreditHook,
         CreditHookLost, LockedOpenLines, LockedClearStop, WalletPass, WalletEnsureFlag,
         PoolPass, PoolSweep, PoolEnsureFlag, PoolResweep, Repair, InvoiceFails,
         InvoiceSettles, AdmitWork, StartWork, NewMonth, Flush

\* What a transaction won changes when it drives a line and when it ends.
LEMMA WonWriters ==
    ASSUME TypeOK, [Next]_vars
    PROVE  \/ \A q \in Recordings : rec'[q].won = rec[q].won /\ rec'[q].drove = rec[q].drove
           \/ \E r \in Recordings : Drive(r) \/ CommitRecording(r) \/ RollBack(r)
  <1> USE DEF TypeOK
  <1> DEFINE Keeps == \A q \in Recordings :
                         rec'[q].won = rec[q].won /\ rec'[q].drove = rec[q].drove
  <1>1. ASSUME NEW r \in Recordings,
               \/ Begin(r) \/ DebitFails(r) \/ SweepOnCommit(r) \/ SweepLost(r) \/ DrawDown(r)
        PROVE  Keeps
    BY <1>1 DEF Begin, DebitFails, SweepOnCommit, SweepLost, DrawDown, Step
  <1>2. ASSUME NEW r \in Recordings, NEW n, rec' = [rec EXCEPT ![r] = n],
               n.won = rec[r].won, n.drove = rec[r].drove
        PROVE  Keeps
    BY <1>2
  <1>3. ASSUME NEW r \in Recordings, MeasureFloor(r) PROVE Keeps
    BY <1>3, <1>2, NextLegType DEF MeasureFloor
  <1>4. ASSUME NEW r \in Recordings, MeasurePool(r) PROVE Keeps
    BY <1>4, <1>2, NextLegType DEF MeasurePool
  <1>5. ASSUME NEW r \in Recordings, SetFlag(r) PROVE Keeps
    BY <1>5, <1>2, NextLegType DEF SetFlag
  <1>6. ASSUME NEW r \in Recordings, DriveFails(r) PROVE Keeps
    BY <1>6, <1>2, NextLegType DEF DriveFails
  <1>7. \/ rec' = rec
        \/ \E r \in Recordings :
             \/ Begin(r) \/ MeasureFloor(r) \/ MeasurePool(r) \/ DebitFails(r) \/ SetFlag(r)
             \/ Drive(r) \/ DriveFails(r) \/ CommitRecording(r) \/ RollBack(r)
             \/ SweepOnCommit(r) \/ SweepLost(r) \/ DrawDown(r)
    BY DEF Next, vars, resume_DriveClear, resume_OpenLines, resume_ClearStop,
           resume_DurableGate, resume_Unsuspend, LifterFails, PostCredit, CreditHook,
           CreditHookLost, LockedOpenLines, LockedClearStop, LockedCommit, WalletPass,
           WalletEnsureFlag, WalletCommitOpen, PoolPass, PoolDrive, PoolSweep,
           PoolEnsureFlag, PoolResweep, Repair, DisputeLost, InvoiceFails,
           SuspendForFailure, InvoiceSettles, clear_payment_failed_suspension,
           place_manual_hold, release_manual_hold, AdmitWork, StartWork, NewMonth, Flush
  <1> QED BY <1>1, <1>3, <1>4, <1>5, <1>6, <1>7

-----------------------------------------------------------------------------
\* Opening lines that were closed announces each of them once.
LEMMA OpeningAlternates ==
    ASSUME TypeOK, SignalsAlternate, NEW S \in SUBSET Lines, \A l \in S : ~open[l],
           OpenAndSuspend(S), UNCHANGED clears
    PROVE  SignalsAlternate'
  <1> SUFFICES ASSUME NEW l \in Lines
               PROVE  stops'[l] = clears'[l] + (IF open'[l] THEN 1 ELSE 0)
    BY DEF SignalsAlternate
  <1>1. CASE l \in S
    <2>1. stops[l] = clears[l] /\ clears' = clears /\ stops[l] \in Nat
      BY <1>1 DEF TypeOK, SignalsAlternate
    <2>2. stops'[l] = stops[l] + 1 /\ open'[l]
      BY <1>1 DEF OpenAndSuspend
    <2> QED BY <2>1, <2>2
  <1>2. CASE l \notin S
    BY <1>2 DEF TypeOK, SignalsAlternate, OpenAndSuspend
  <1> QED BY <1>1, <1>2

\* Closing a line announces it exactly when it was open.
LEMMA ClosingAlternates ==
    ASSUME TypeOK, SignalsAlternate, NEW l \in Lines, CloseLine(l)
    PROVE  SignalsAlternate'
  BY DEF TypeOK, SignalsAlternate, CloseLine

\* One step keeps the alternation: what a recording opens at its commit is
\* closed until then, and every other writer looks at the row under its lock.
LEMMA SignalsStep ==
    ASSUME TypeOK, WonClosed, SignalsAlternate, [Next]_vars
    PROVE  SignalsAlternate'
  <1>1. CASE UNCHANGED ledger
    BY <1>1 DEF SignalsAlternate, ledger
  <1>2. ASSUME NEW r \in Recordings, CommitRecording(r) PROVE SignalsAlternate'
    <2>1. rec[r].won \in SUBSET Lines /\ \A l \in rec[r].won : ~open[l]
      BY DEF TypeOK, WonClosed
    <2> QED BY <1>2, <2>1, OpeningAlternates DEF CommitRecording
  <1>3. ASSUME NEW r \in Recordings, DrawDown(r) PROVE SignalsAlternate'
    <2>1. PICK S \in SUBSET Lines : OpenAndSuspend(S) /\ \A l \in S : ~open[l]
      BY <1>3 DEF DrawDown, Lines
    <2> QED BY <1>3, <2>1, OpeningAlternates DEF DrawDown
  <1>4. ASSUME NEW p \in Lifters, resume_DriveClear(p) PROVE SignalsAlternate'
    <2>1. LineOf(p) \in Lines
      BY DEF LineOf, Lines
    <2> QED BY <1>4, <2>1, ClosingAlternates DEF resume_DriveClear
  <1>5. ASSUME NEW p \in Passes, LockedCommit(p) PROVE SignalsAlternate'
    <2>1. CloseLine("floor")
      BY <1>5 DEF LockedCommit
    <2> QED BY <2>1, ClosingAlternates DEF Lines
  <1>6. CASE WalletCommitOpen
    <2>1. {"floor"} \ OpenLines \in SUBSET Lines /\ \A l \in {"floor"} \ OpenLines : ~open[l]
      BY DEF OpenLines, Lines
    <2> QED BY <1>6, <2>1, OpeningAlternates DEF WalletCommitOpen
  <1>7. CASE PoolDrive
    <2>1. {"pool"} \ OpenLines \in SUBSET Lines /\ \A l \in {"pool"} \ OpenLines : ~open[l]
      BY DEF OpenLines, Lines
    <2> QED BY <1>7, <2>1, OpeningAlternates DEF PoolDrive
  <1> QED BY <1>1, <1>2, <1>3, <1>4, <1>5, <1>6, <1>7, LedgerWriters

-----------------------------------------------------------------------------
\* While a recording holds the owner's row lock, no line opens but at its own
\* commit.
LEMMA OpensUnderLock ==
    ASSUME TypeOK, WonClosed, [Next]_vars, NEW q \in Recordings, lock = q,
           NEW l \in Lines, ~open[l], open'[l]
    PROVE  CommitRecording(q)
  <1>1. lock # NoOne /\ lock \notin Passes
    BY StopAssumption
  <1>2. ~ UNCHANGED ledger
    BY DEF ledger
  <1>3. ASSUME NEW r \in Recordings, CommitRecording(r) PROVE r = q
    <2>1. rec[r].won # {}
      BY <1>3 DEF CommitRecording, OpenAndSuspend
    <2> QED BY <2>1 DEF TypeOK, WonClosed
  <1>4. ASSUME NEW r \in Recordings PROVE ~DrawDown(r)
    BY <1>1 DEF DrawDown
  <1>5. ASSUME NEW k \in Lines PROVE ~CloseLine(k)
    BY DEF CloseLine, TypeOK
  <1>6. ASSUME NEW p \in Lifters PROVE ~resume_DriveClear(p)
    BY <1>5 DEF resume_DriveClear, LineOf, Lines
  <1>7. ASSUME NEW p \in Passes PROVE ~LockedCommit(p)
    BY <1>5 DEF LockedCommit, Lines
  <1>8. ~WalletCommitOpen
    BY <1>1 DEF WalletCommitOpen, At, TypeOK, Passes, LockedSteps
  <1>9. ~PoolDrive
    BY <1>1 DEF PoolDrive
  <1> QED BY <1>2, <1>3, <1>4, <1>6, <1>7, <1>8, <1>9, LedgerWriters

\* One step keeps what a transaction has won closed.
LEMMA WonStep ==
    ASSUME TypeOK, WonClosed, [Next]_vars
    PROVE  WonClosed'
  <1> SUFFICES ASSUME NEW q \in Recordings
               PROVE  rec'[q].won \subseteq rec'[q].drove /\ \A l \in rec'[q].won : ~open'[l]
    BY DEF WonClosed
  <1>1. rec[q].won \subseteq rec[q].drove /\ rec[q].won \subseteq Lines
    BY DEF TypeOK, WonClosed
  <1>2. ASSUME rec[q].won # {} PROVE lock = q
    BY <1>1, <1>2 DEF TypeOK
  <1>3. ASSUME ~CommitRecording(q), NEW l \in rec[q].won PROVE ~open'[l]
    BY <1>1, <1>2, <1>3, OpensUnderLock DEF WonClosed
  <1>4. CASE rec'[q].won = {}
    BY <1>4
  <1>5. CASE rec'[q].won = rec[q].won /\ rec'[q].drove = rec[q].drove
    <2>1. ASSUME CommitRecording(q) PROVE rec'[q].won = {}
      BY <2>1 DEF CommitRecording, Idle, TypeOK
    <2> QED BY <1>1, <1>3, <1>4, <1>5, <2>1
  <1>6. ASSUME Drive(q)
        PROVE  rec'[q].won \subseteq rec'[q].drove /\ \A l \in rec'[q].won : ~open'[l]
    <2> DEFINE l == rec[q].leg
               n == NextLeg(q)
               w == IF open[l] THEN n.won ELSE n.won \cup {l}
    <2>1. n \in RecStates /\ n.won = rec[q].won /\ n.drove = rec[q].drove
      BY NextLegType
    <2>2. rec' = [rec EXCEPT ![q] = [n EXCEPT !.drove = n.drove \cup {l}, !.won = w]]
      BY <1>6 DEF Drive
    <2> HIDE DEF n
    <2>3. rec'[q].won = w /\ rec'[q].drove = rec[q].drove \cup {l}
      BY <2>1, <2>2 DEF TypeOK, RecStates
    <2>4. open' = open
      BY <1>6 DEF Drive, ledger
    <2> QED BY <1>1, <2>1, <2>3, <2>4 DEF WonClosed
  <1>7. ASSUME NEW r \in Recordings, r # q, Drive(r) \/ CommitRecording(r) \/ RollBack(r)
        PROVE  rec'[q] = rec[q]
    BY <1>7 DEF Drive, CommitRecording, RollBack, TypeOK
  <1>8. ASSUME CommitRecording(q) \/ RollBack(q) PROVE rec'[q].won = {}
    BY <1>8 DEF CommitRecording, RollBack, Idle, TypeOK
  <1> QED BY <1>4, <1>5, <1>6, <1>7, <1>8, WonWriters

-----------------------------------------------------------------------------
\* Who writes the invoice's state.
LEMMA InvoiceWriters ==
    ASSUME [Next]_vars
    PROVE  UNCHANGED invoice \/ InvoiceFails \/ SuspendForFailure \/ InvoiceSettles
  BY DEF Next, vars, invoice, Begin, MeasureFloor, MeasurePool, DebitFails, SetFlag, Drive,
         DriveFails, CommitRecording, RollBack, SweepOnCommit, SweepLost, DrawDown,
         resume_DriveClear, resume_OpenLines, resume_ClearStop, resume_DurableGate,
         resume_Unsuspend, LifterFails, PostCredit, CreditHook, CreditHookLost,
         LockedOpenLines, LockedClearStop, LockedCommit, WalletPass, WalletEnsureFlag,
         WalletCommitOpen, PoolPass, PoolDrive, PoolSweep, PoolEnsureFlag, PoolResweep,
         Repair, DisputeLost, clear_payment_failed_suspension, place_manual_hold,
         release_manual_hold, AdmitWork, StartWork, NewMonth, Flush

\* Only _maybe_unsuspend reactivates an owner: never under a standing payment
\* failure, and the release of a hold and the settled invoice never under a
\* standing money cause.
LEMMA Reactivation ==
    ASSUME TypeOK, [Next]_vars, status = "suspended", status' = "active"
    PROVE  /\ ~failed
           /\ reason \in {"manual", "payment_failed"} => StandingCause = "none"
  <1>1. ASSUME NEW S, NEW c, MaybeUnsuspend(S, c) PROVE ~failed /\ reason \in S /\ c = "none"
    BY <1>1 DEF MaybeUnsuspend, owner
  <1>2. ASSUME NEW S PROVE ~OpenAndSuspend(S)
    BY DEF OpenAndSuspend, owner
  <1>3. ~ UNCHANGED owner
    BY DEF owner
  <1>4. ASSUME NEW r \in Recordings PROVE ~CommitRecording(r) /\ ~DrawDown(r)
    BY <1>2 DEF CommitRecording, DrawDown
  <1>5. ~WalletCommitOpen /\ ~PoolDrive
    BY <1>2 DEF WalletCommitOpen, PoolDrive
  <1>6. ~DisputeLost /\ ~SuspendForFailure /\ ~place_manual_hold
    BY <1>3 DEF DisputeLost, SuspendForFailure, place_manual_hold
  <1>7. ASSUME NEW p \in Lifters, resume_Unsuspend(p) PROVE MaybeUnsuspend(MoneyReasons, "none")
    BY <1>7 DEF resume_Unsuspend
  <1>8. ASSUME NEW p \in Passes, LockedCommit(p) PROVE MaybeUnsuspend(MoneyReasons, "none")
    BY <1>3, <1>8 DEF LockedCommit
  <1>9. CASE MaybeUnsuspend(MoneyReasons, "none")
    BY <1>1, <1>9 DEF MoneyReasons
  <1>10. CASE clear_payment_failed_suspension \/ release_manual_hold
    BY <1>1, <1>10 DEF clear_payment_failed_suspension, release_manual_hold
  <1> QED BY <1>3, <1>4, <1>5, <1>6, <1>7, <1>8, <1>9, <1>10, OwnerWriters

\* One step keeps an owner suspended under a payment failure that has landed.
LEMMA FailureStep ==
    ASSUME TypeOK, FailureHoldsOwner, [Next]_vars
    PROVE  FailureHoldsOwner'
  <1>1. CASE UNCHANGED invoice
    BY <1>1, Reactivation, TypeStep DEF FailureHoldsOwner, invoice, TypeOK
  <1>2. CASE InvoiceFails
    BY <1>2 DEF InvoiceFails, FailureHoldsOwner
  <1>3. CASE SuspendForFailure
    BY <1>3 DEF SuspendForFailure, FailureHoldsOwner, TypeOK, owner
  <1>4. CASE InvoiceSettles
    BY <1>4 DEF InvoiceSettles, FailureHoldsOwner
  <1> QED BY <1>1, <1>2, <1>3, <1>4, InvoiceWriters

-----------------------------------------------------------------------------
\* The inductive invariant: types, locks and reasons, what recordings have won,
\* the alternation of the events and the hold of a payment failure.
THEOREM Invariance == Spec => []Inv
  <1>1. Init => TypeOK
    <2> SUFFICES ASSUME Init PROVE TypeOK
      OBVIOUS
    <2>1. Idle \in RecStates /\ Idle.drove = {}
      BY DEF Idle, RecStates, RecSteps, Lines
    <2>2. /\ rec \in [Recordings -> RecStates]
          /\ \A r \in Recordings : lock # r /\ rec[r].drove = {}
      BY <2>1, StopAssumption DEF Init
    <2>3. \A p \in Passes : lock # p /\ lift[p] \notin LockedSteps
      BY StopAssumption DEF Init, Lifters, LockedSteps
    <2>4. lift \in [Lifters -> LiftSteps]
      BY DEF Init, LiftSteps
    <2>5. /\ balance \in Int /\ live \in Int /\ billed \in Nat /\ spend \in Nat
          /\ lock = NoOne /\ flag = "none" /\ work = "none" /\ left \in [Kinds -> Nat]
          /\ status = "active" /\ reason = "none"
      BY StopAssumption DEF Init
    <2>6. open \in [Lines -> BOOLEAN] /\ stops \in [Lines -> Nat] /\ clears \in [Lines -> Nat]
      BY DEF Init
    <2>7. failed \in BOOLEAN /\ failing \in BOOLEAN
      BY Zenon DEF Init
    <2>8. \A r \in Recordings : (lock = r) = (rec[r].drove # {})
      BY <2>2
    <2>9. \A p \in Passes : (lock = p) = (lift[p] \in LockedSteps)
      BY <2>3
    <2> QED BY <2>2, <2>4, <2>5, <2>6, <2>7, <2>8, <2>9 DEF TypeOK, RecStates
  <1>2. Init => WonClosed /\ SignalsAlternate /\ FailureHoldsOwner
    BY DEF Init, WonClosed, SignalsAlternate, FailureHoldsOwner, Idle
  <1>3. Inv /\ [Next]_vars => Inv'
    BY TypeStep, WonStep, SignalsStep, FailureStep DEF Inv
  <1> QED BY <1>1, <1>2, <1>3, PTL DEF Spec, Inv

\* The stop's state keeps its types: the row lock is held only by a transaction
\* that drove a line or runs a pass, and an owner is suspended exactly when it
\* has a reason.
THEOREM StopTypeCorrect == Spec => []TypeOK
  BY Invariance, PTL DEF Inv

\* customer.stopped and customer.stop_cleared alternate on each line, for any
\* number of recordings and credits racing the passes.
THEOREM SignalsAlternating == Spec => []SignalsAlternate
  BY Invariance, PTL DEF Inv

\* An unpaid failed invoice whose webhook has run holds the owner suspended.
THEOREM FailureHolds == Spec => []FailureHoldsOwner
  BY Invariance, PTL DEF Inv

\* The release of a manual hold and the settlement of a failed invoice
\* reactivate only an owner that nothing else holds.
THEOREM HandOverHolds == Spec => HandOver
  <1> DEFINE Handed == status' = "active" /\ reason \in {"manual", "payment_failed"}
                          => OpenLines = {} /\ ~PastFloor(balance) /\ ~failed
  <1>1. Inv /\ [Next]_vars => [Handed]_vars
    <2> SUFFICES ASSUME Inv, [Next]_vars, status' = "active",
                        reason \in {"manual", "payment_failed"}
                 PROVE  OpenLines = {} /\ ~PastFloor(balance) /\ ~failed
      OBVIOUS
    <2>1. status = "suspended"
      BY DEF Inv, TypeOK
    <2>2. ~failed /\ StandingCause = "none"
      BY <2>1, Reactivation DEF Inv
    <2> QED BY <2>2 DEF StandingCause, First
  <1> QED BY <1>1, Invariance, PTL DEF Spec, HandOver
=============================================================================
