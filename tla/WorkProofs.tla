----------------------------- MODULE WorkProofs -----------------------------
(***************************************************************************)
(* For any units, reports, ceilings, prices and faults: containment, the   *)
(* charges, the reservations, the announcements of stops and the books.    *)
(* The life of a unit (Lifecycle) carries the first four; the books also   *)
(* need that a report's unit had started (Posted).                         *)
(***************************************************************************)
EXTENDS Work, FiniteSetTheorems, TLAPS

\* What the life of a unit fixes: an unborn unit has no regime and no
\* reservation, a unit has a cause exactly when it has ended, only an unborn unit
\* is being started, and containment has one level.
Lifecycle ==
    \A u \in Units :
        /\ status[u] = "unborn" => mode[u] = "none" /\ resv[u] = "none"
        /\ cause[u] = "none" <=> status[u] \in {"unborn", "active"}
        /\ start[u] # NoStart => status[u] = "unborn"
        /\ u \in Subs /\ status[u] # "unborn" => parent[u] \in Tops
        /\ u \in Subs /\ start[u] # NoStart => start[u].parent \in Tops

IInv ==
    /\ TypeOK /\ Lifecycle /\ NoOrphans
    /\ ChargeMatchesDelivery /\ ReservedWhileActive /\ StopsAnnouncedOnce

\* What an end of a unit leaves to the rest of the step: the listeners, the
\* charge and the announcement.
Ends(u, s, why, lost) ==
    /\ status[u] = "active" /\ s \in Terminal
    /\ why \in {"declared", "ceiling", "window", "abandoned"}
    /\ Flip(u, s, why, lost)
    /\ UNCHANGED <<parent, mode, start>>

\* The initial states satisfy the invariant.
LEMMA InitHolds == ASSUME WorkAssumption, Init PROVE IInv
<1> USE DEF Init, Units, Terminal, Closed, NoStart, NoPosting, Pins
<1>1. TypeOK
  BY DEF WorkAssumption, TypeOK, Sides
<1>2. Lifecycle /\ NoOrphans
  BY DEF Lifecycle, NoOrphans
<1>3. ChargeMatchesDelivery /\ ReservedWhileActive /\ StopsAnnouncedOnce
  BY DEF ChargeMatchesDelivery, ReservedWhileActive, StopsAnnouncedOnce
<1> QED BY <1>1, <1>2, <1>3 DEF IInv

\* The end of a unit (_flip and _cascade) keeps the lifecycle and the rest of
\* the unit's types.
LEMMA EndKeepsLife ==
    ASSUME WorkAssumption, IInv, NEW u \in Units, NEW s, NEW why, NEW lost \in BOOLEAN,
           Ends(u, s, why, lost)
    PROVE  /\ status' \in [Units -> {"unborn", "active"} \cup Terminal]
           /\ cause' \in [Units -> {"none", "declared", "ceiling", "window", "abandoned", "parent"}]
           /\ resv' \in [Units -> {"none", "open", "released"}]
           /\ Lifecycle' /\ NoOrphans' /\ ReservedWhileActive'
<1> USE DEF WorkAssumption, IInv, TypeOK, Ends, Flip, Units, Terminal, Closed, CascadeStatus, Children
<1>1. status' \in [Units -> {"unborn", "active"} \cup Terminal]
  OBVIOUS
<1>2. cause' \in [Units -> {"none", "declared", "ceiling", "window", "abandoned", "parent"}]
  OBVIOUS
<1>3. resv' \in [Units -> {"none", "open", "released"}]
  OBVIOUS
<1>4. Lifecycle'
  BY DEF Lifecycle
<1>5. NoOrphans'
  BY DEF NoOrphans, Lifecycle
<1>6. ReservedWhileActive'
  BY DEF ReservedWhileActive, Pins
<1> QED BY <1>1, <1>2, <1>3, <1>4, <1>5, <1>6

\* A step that leaves the unit, its reservation, its charge and its announcement
\* alone owes only the types.
LEMMA Frame ==
    ASSUME IInv, TypeOK', UNCHANGED <<unit, start, resv, charges, ann, copies>>
    PROVE  IInv'
  BY DEF IInv, unit, Lifecycle, NoOrphans, Children, ChargeMatchesDelivery,
         ReservedWhileActive, StopsAnnouncedOnce, Pins

\* A stop keeps the invariant whether or not it was the one that ended the unit.
LEMMA StopKeeps ==
    ASSUME WorkAssumption, IInv, NEW u \in Units, NEW s \in {"killed", "expired"},
           NEW why \in {"ceiling", "window"}, NEW lost \in BOOLEAN, Stop(u, s, why, lost),
           UNCHANGED <<parent, mode, heard, books, start, charges, drawn, balance>>,
           plan' \in [Postings -> Seq(Units)], listed' \subseteq Units, unheard' \subseteq Units,
           over' \subseteq Units
    PROVE  IInv'
<1>1. CASE status[u] = "active"
  <2>1. Ends(u, s, why, lost) /\ Announce(u) /\ Listening(lost)
    BY <1>1 DEF Stop, Ends, Terminal
  <2>2. /\ status' \in [Units -> {"unborn", "active"} \cup Terminal]
        /\ cause' \in [Units -> {"none", "declared", "ceiling", "window", "abandoned", "parent"}]
        /\ resv' \in [Units -> {"none", "open", "released"}]
        /\ Lifecycle' /\ NoOrphans' /\ ReservedWhileActive'
    BY <2>1, EndKeepsLife
  <2>3. ann[u] = "none" /\ copies[u] = 0
    BY <1>1 DEF IInv, StopsAnnouncedOnce, Lifecycle
  <2>4. TypeOK'
    <3>1. faults' \in Nat
      BY <2>1 DEF IInv, TypeOK, Listening, Fault
    <3>2. ann' \in [Units -> {"none", "pending", "delivered", "failed"}] /\ copies' \in [Units -> Int]
      BY <2>1 DEF IInv, TypeOK, Announce
    <3> QED BY <2>2, <3>1, <3>2 DEF IInv, TypeOK, books
  <2>5. ChargeMatchesDelivery'
    BY <1>1, <2>1 DEF IInv, TypeOK, Lifecycle, ChargeMatchesDelivery, Ends, Flip, Children,
                      CascadeStatus, Closed, Terminal, Pins, Units
  <2>6. StopsAnnouncedOnce'
    BY <2>1, <2>3 DEF IInv, TypeOK, Lifecycle, StopsAnnouncedOnce, Announce, Ends, Flip, Children
  <2> QED BY <2>2, <2>4, <2>5, <2>6 DEF IInv
<1>2. CASE status[u] # "active"
  <2>1. TypeOK'
    BY <1>2 DEF Stop, IInv, TypeOK, books, news
  <2> QED BY <1>2, <2>1, Frame DEF Stop, unit, news
<1> QED BY <1>1, <1>2

\* One step of anyone keeps the invariant.
LEMMA StepKeeps == ASSUME WorkAssumption, IInv, [Next]_vars PROVE IInv'
<1> USE DEF unit, books, sweeps, money, news
<1>1. ASSUME NEW u \in Units, NEW p \in Tops \cup {NoUnit}, NEW m \in {"event", "fixed"},
             Admit(u, p, m)
      PROVE  IInv'
  <2>1. TypeOK'
    BY <1>1 DEF IInv, TypeOK, Admit
  <2>2. Lifecycle'
    BY <1>1 DEF IInv, TypeOK, Lifecycle, Admit, NoStart, WorkAssumption, Units
  <2> QED BY <1>1, <2>1, <2>2 DEF IInv, Admit, NoOrphans, ChargeMatchesDelivery,
             ReservedWhileActive, StopsAnnouncedOnce, Pins
<1>2. ASSUME NEW u \in Units, Start(u) PROVE IInv'
  <2>0. status[u] = "unborn" /\ mode[u] = "none" /\ resv[u] = "none" /\ cause[u] = "none"
    BY <1>2 DEF Start, IInv, Lifecycle
  <2>1. TypeOK'
    BY <1>2 DEF IInv, TypeOK, Start, NoStart
  <2>2. Lifecycle'
    BY <1>2, <2>0 DEF IInv, TypeOK, Lifecycle, Start, NoStart, Pins
  <2>3. NoOrphans'
    BY <1>2, <2>0 DEF IInv, TypeOK, Lifecycle, NoOrphans, Start, ParentAllows, WorkAssumption, Units
  <2>4. ChargeMatchesDelivery'
    BY <1>2, <2>0 DEF IInv, TypeOK, ChargeMatchesDelivery, Start, Pins
  <2>5. ReservedWhileActive'
    BY <1>2, <2>0 DEF IInv, TypeOK, ReservedWhileActive, Start, Pins
  <2>6. StopsAnnouncedOnce'
    BY <1>2 DEF IInv, StopsAnnouncedOnce, Start
  <2> QED BY <2>1, <2>2, <2>3, <2>4, <2>5, <2>6 DEF IInv
<1>3. ASSUME NEW u \in Units, Refuse(u) PROVE IInv'
  <2>1. TypeOK'
    BY <1>3 DEF IInv, TypeOK, Refuse, NoStart
  <2>2. Lifecycle'
    BY <1>3 DEF IInv, TypeOK, Lifecycle, Refuse, NoStart
  <2> QED BY <1>3, <2>1, <2>2 DEF IInv, Refuse, NoOrphans, ChargeMatchesDelivery,
             ReservedWhileActive, StopsAnnouncedOnce, Pins
<1>4. ASSUME NEW k \in Postings, NEW u \in Units, NEW a \in Amounts, Record(k, u, a[1], a[2])
      PROVE  IInv'
  <2>1. total' \in [Units -> [Sides -> Int]] /\ missing' \in [Units -> [Sides -> Int]]
    <3>1. ASSUME NEW c, NEW p PROVE /\ Added(u, c, p) \in [Units -> [Sides -> Int]]
                                    /\ Counted(u, c, p) \in [Units -> [Sides -> Int]]
      <4>1. ASSUME NEW x \in Units
            PROVE  /\ Added(u, c, p)[x] \in [Sides -> Int]
                   /\ Counted(u, c, p)[x] \in [Sides -> Int]
        <5>1. total[x] \in [Sides -> Int] /\ missing[x] \in [Sides -> Int]
          BY DEF IInv, TypeOK
        <5>2. \A st : Worth(st) \in Int
          BY DEF Worth
        <5> QED BY <5>1, <5>2 DEF Added, Counted
      <4> QED BY <4>1 DEF Added, Counted
    <3> QED BY <1>4, <3>1 DEF Record
  <2>2. plan' \in [Postings -> Seq(Units)]
    <3>1. parent[u] \in Units \cup {NoUnit}
      BY DEF IInv, TypeOK, Units
    <3>2. KillPlan(u, total') \in Seq(Units)
      BY <3>1 DEF KillPlan
    <3> QED BY <1>4, <3>2 DEF IInv, TypeOK, Record
  <2>3. post' \in [Postings -> [unit : Units \cup {NoUnit},
                               cost : {"none", "known", "credit", "unresolved"},
                               price : {"none", "known", "unresolved", "na"}]]
    BY <1>4 DEF IInv, TypeOK, Record, WorkAssumption
  <2>4. heard' \in [Units -> {"never", "overdue", "recent", "silent"}]
    BY <1>4 DEF IInv, TypeOK, Record
  <2>5. TypeOK'
    BY <1>4, <2>1, <2>2, <2>3, <2>4 DEF IInv, TypeOK, Record
  <2> QED BY <1>4, <2>5, Frame DEF Record
<1>5. ASSUME NEW k \in Postings, NEW lost \in BOOLEAN, ExecuteKill(k, lost) PROVE IInv'
  <2>1. Head(plan[k]) \in Units /\ Tail(plan[k]) \in Seq(Units)
    BY <1>5 DEF ExecuteKill, IInv, TypeOK
  <2>2. plan' \in [Postings -> Seq(Units)]
    BY <1>5, <2>1 DEF ExecuteKill, IInv, TypeOK
  <2>3. listed' \subseteq Units /\ unheard' \subseteq Units /\ over' \subseteq Units
    BY <1>5 DEF ExecuteKill, IInv, TypeOK
  <2> QED BY <1>5, <2>1, <2>2, <2>3, StopKeeps DEF ExecuteKill
<1>6. ASSUME NEW k \in Postings, KillsLost(k) PROVE IInv'
  <2>1. plan' \in [Postings -> Seq(Units)]
    <3>1. Tail(plan[k]) \in Seq(Units) /\ <<>> \in Seq(Units)
      BY <1>6 DEF KillsLost, IInv, TypeOK
    <3> QED BY <1>6, <3>1 DEF KillsLost, IInv, TypeOK
  <2>2. faults' \in Nat
    BY <1>6 DEF KillsLost, Fault, IInv, TypeOK
  <2>3. TypeOK'
    BY <1>6, <2>1, <2>2 DEF KillsLost, IInv, TypeOK
  <2> QED BY <1>6, <2>3, Frame DEF KillsLost
<1>7. ASSUME NEW k \in Postings, NEW side \in Sides, NEW st \in {"known", "credit"},
             side = "price" => st = "known", Settle(k, side, st)
      PROVE  IInv'
  <2>1. total' \in [Units -> [Sides -> Int]] /\ missing' \in [Units -> [Sides -> Int]]
    <3>1. ASSUME NEW x \in Units
          PROVE  /\ total[x] \in [Sides -> Int] /\ missing[x] \in [Sides -> Int]
                 /\ [total[x] EXCEPT ![side] = @ + Worth(st)] \in [Sides -> Int]
                 /\ [missing[x] EXCEPT ![side] = @ - 1] \in [Sides -> Int]
      <4>1. total[x] \in [Sides -> Int] /\ missing[x] \in [Sides -> Int]
        BY DEF IInv, TypeOK
      <4>2. Worth(st) \in Int
        BY DEF Worth
      <4> QED BY <4>1, <4>2
    <3> QED BY <1>7, <3>1 DEF Settle
  <2>2. post' \in [Postings -> [unit : Units \cup {NoUnit},
                               cost : {"none", "known", "credit", "unresolved"},
                               price : {"none", "known", "unresolved", "na"}]]
    <3>1. CASE side = "cost"
      <4>1. post' = [post EXCEPT ![k] = [post[k] EXCEPT !.cost = st]]
        BY <1>7, <3>1 DEF Settle
      <4>2. [post[k] EXCEPT !.cost = st] \in [unit : Units \cup {NoUnit},
                               cost : {"none", "known", "credit", "unresolved"},
                               price : {"none", "known", "unresolved", "na"}]
        <5>1. post[k] \in [unit : Units \cup {NoUnit},
                            cost : {"none", "known", "credit", "unresolved"},
                            price : {"none", "known", "unresolved", "na"}]
          BY DEF IInv, TypeOK
        <5> QED BY <5>1
      <4> QED BY <4>1, <4>2 DEF IInv, TypeOK
    <3>2. CASE side = "price"
      <4>1. post' = [post EXCEPT ![k] = [post[k] EXCEPT !.price = st]]
        BY <1>7, <3>2 DEF Settle
      <4>2. [post[k] EXCEPT !.price = st] \in [unit : Units \cup {NoUnit},
                               cost : {"none", "known", "credit", "unresolved"},
                               price : {"none", "known", "unresolved", "na"}]
        <5>1. post[k] \in [unit : Units \cup {NoUnit},
                            cost : {"none", "known", "credit", "unresolved"},
                            price : {"none", "known", "unresolved", "na"}]
          BY DEF IInv, TypeOK
        <5> QED BY <1>7, <3>2, <5>1
      <4> QED BY <4>1, <4>2 DEF IInv, TypeOK
    <3> QED BY <3>1, <3>2 DEF Sides
  <2>3. TypeOK'
    BY <1>7, <2>1, <2>2 DEF IInv, TypeOK, Settle
  <2> QED BY <1>7, <2>3, Frame DEF Settle
<1>8. ASSUME NEW u \in Units, NEW s \in Declared, NEW lost \in BOOLEAN, Close(u, s, lost)
      PROVE  IInv'
  <2>0. s \in Closed
    BY DEF WorkAssumption, Closed
  <2>1. Ends(u, s, "declared", lost)
    BY <1>8, <2>0 DEF Close, Ends, Terminal
  <2>2. /\ status' \in [Units -> {"unborn", "active"} \cup Terminal]
        /\ cause' \in [Units -> {"none", "declared", "ceiling", "window", "abandoned", "parent"}]
        /\ resv' \in [Units -> {"none", "open", "released"}]
        /\ Lifecycle' /\ NoOrphans' /\ ReservedWhileActive'
    BY <2>1, EndKeepsLife
  <2>3. TypeOK'
    <3>1. Charge(u, s) \in Nat /\ Charge(u, s) * Price \in Nat
      BY DEF Charge, WorkAssumption
    <3>2. total' \in [Units -> [Sides -> Int]] /\ charges' \in [Units -> Nat]
      <4>1. total[u] \in [Sides -> Int] /\ total \in [Units -> [Sides -> Int]]
        BY DEF IInv, TypeOK
      <4>2. [total[u] EXCEPT !.price = @ + Charge(u, s) * Price] \in [Sides -> Int]
        BY <3>1, <4>1 DEF Sides
      <4>3. total' = [total EXCEPT ![u] = [total[u] EXCEPT !.price = @ + Charge(u, s) * Price]]
        BY <1>8, <4>1 DEF Close
      <4>4. charges' \in [Units -> Nat]
        BY <1>8, <3>1 DEF Close, IInv, TypeOK
      <4> QED BY <4>1, <4>2, <4>3, <4>4
    <3>3. faults' \in Nat
      BY <1>8 DEF Close, Listening, Fault, IInv, TypeOK
    <3> QED BY <1>8, <2>2, <3>2, <3>3 DEF Close, IInv, TypeOK
  <2>4. ChargeMatchesDelivery'
    <3>1. charges[u] = 0
      BY <2>1 DEF Ends, IInv, ChargeMatchesDelivery, Closed
    <3>2. status'[u] = s /\ cause'[u] = "declared" /\ charges'[u] = Charge(u, s) /\ mode' = mode
      BY <1>8, <3>1 DEF Close, Flip, Charge, IInv, TypeOK
    <3>3. ASSUME NEW x \in Units, x # u
          PROVE  /\ charges'[x] = charges[x]
                 /\ \/ status'[x] = status[x] /\ cause'[x] = cause[x]
                    \/ x \in Subs /\ cause'[x] = "parent" /\ status[x] = "active"
      BY <1>8, <3>3 DEF Close, Flip, Children, IInv, TypeOK
    <3> QED BY <3>2, <3>3 DEF Charge, IInv, ChargeMatchesDelivery, Pins, WorkAssumption, Units
  <2>5. StopsAnnouncedOnce'
    BY <1>8 DEF Close, Flip, Children, IInv, TypeOK, Lifecycle, StopsAnnouncedOnce
  <2> QED BY <2>2, <2>3, <2>4, <2>5 DEF IInv
<1>9. ASSUME NEW u \in Units, Draw(u) PROVE IInv'
  <2>1. TypeOK'
    BY <1>9 DEF Draw, IInv, TypeOK, WorkAssumption
  <2> QED BY <1>9, <2>1, Frame DEF Draw
<1>10. ASSUME NEW u \in Units, Quiet(u) PROVE IInv'
  <2>1. TypeOK'
    BY <1>10 DEF Quiet, IInv, TypeOK
  <2> QED BY <1>10, <2>1, Frame DEF Quiet
<1>11. ASSUME ListStale \/ ListAbandoned \/ ListOver PROVE IInv'
  <2>1. TypeOK'
    BY <1>11 DEF ListStale, ListAbandoned, ListOver, Stale, Abandoned, OverCeiling, IInv, TypeOK
  <2> QED BY <1>11, <2>1, Frame DEF ListStale, ListAbandoned, ListOver
<1>12. ASSUME NEW u \in Units, NEW lost \in BOOLEAN, Reap(u, lost) PROVE IInv'
  <2>1. listed' \subseteq Units /\ unheard' \subseteq Units /\ over' \subseteq Units /\ plan' \in [Postings -> Seq(Units)]
    BY <1>12 DEF Reap, IInv, TypeOK
  <2> QED BY <1>12, <2>1, StopKeeps DEF Reap
<1>13. ASSUME NEW u \in Units, NEW lost \in BOOLEAN, Patrol(u, lost) PROVE IInv'
  <2>1. listed' \subseteq Units /\ unheard' \subseteq Units /\ over' \subseteq Units /\ plan' \in [Postings -> Seq(Units)]
    BY <1>13 DEF Patrol, IInv, TypeOK
  <2> QED BY <1>13, <2>1, StopKeeps DEF Patrol
<1>14. ASSUME NEW u \in Units, NEW lost \in BOOLEAN, Abandon(u, lost) PROVE IInv'
  <2>1. CASE status[u] = "active"
    <3>1. Ends(u, "expired", "abandoned", lost)
      BY <1>14, <2>1 DEF Abandon, Ends, Terminal
    <3>2. /\ status' \in [Units -> {"unborn", "active"} \cup Terminal]
          /\ cause' \in [Units -> {"none", "declared", "ceiling", "window", "abandoned", "parent"}]
          /\ resv' \in [Units -> {"none", "open", "released"}]
          /\ Lifecycle' /\ NoOrphans' /\ ReservedWhileActive'
      BY <3>1, EndKeepsLife
    <3>3. faults' \in Nat
      BY <1>14, <2>1 DEF Abandon, Listening, Fault, IInv, TypeOK
    <3>4. TypeOK'
      BY <1>14, <3>2, <3>3 DEF Abandon, IInv, TypeOK
    <3>5. ChargeMatchesDelivery'
      BY <1>14, <2>1, <3>1 DEF Abandon, Ends, Flip, IInv, TypeOK, Lifecycle, ChargeMatchesDelivery,
                              Children, CascadeStatus, Closed, Pins, Units
    <3>6. StopsAnnouncedOnce'
      BY <1>14, <2>1, <3>1 DEF Abandon, Ends, Flip, Children, IInv, TypeOK, Lifecycle, StopsAnnouncedOnce
    <3> QED BY <3>2, <3>4, <3>5, <3>6 DEF IInv
  <2>2. CASE status[u] # "active"
    <3>1. TypeOK'
      BY <1>14, <2>2 DEF Abandon, IInv, TypeOK
    <3> QED BY <1>14, <2>2, <3>1, Frame DEF Abandon
  <2> QED BY <2>1, <2>2
<1>15. ASSUME NEW u \in Units, Deliver(u) \/ DeadLetter(u) \/ Remint(u) PROVE IInv'
  <2>1. TypeOK'
    <3>1. CASE Deliver(u)
      BY <3>1 DEF Deliver, IInv, TypeOK
    <3>2. CASE DeadLetter(u)
      <4>1. faults' \in Nat
        BY <3>2 DEF DeadLetter, Fault, IInv, TypeOK
      <4>2. copies' \in [Units -> Int]
        BY <3>2 DEF DeadLetter, IInv, TypeOK
      <4> QED BY <3>2, <4>1, <4>2 DEF DeadLetter, IInv, TypeOK
    <3>3. CASE Remint(u)
      BY <3>3 DEF Remint, Announce, IInv, TypeOK
    <3> QED BY <1>15, <3>1, <3>2, <3>3
  <2>2. StopsAnnouncedOnce'
    BY <1>15 DEF Deliver, DeadLetter, Remint, Announce, IInv, TypeOK, StopsAnnouncedOnce
  <2> QED BY <1>15, <2>1, <2>2 DEF Deliver, DeadLetter, Remint, IInv, Lifecycle, NoOrphans,
             ChargeMatchesDelivery, ReservedWhileActive, Pins
<1>16. ASSUME NEW u \in Units, ReleaseLeftOpen(u) PROVE IInv'
  <2>1. TypeOK'
    BY <1>16 DEF ReleaseLeftOpen, IInv, TypeOK
  <2>2. Lifecycle' /\ ReservedWhileActive'
    BY <1>16 DEF ReleaseLeftOpen, IInv, TypeOK, Lifecycle, ReservedWhileActive, Terminal, Closed, Pins
  <2> QED BY <1>16, <2>1, <2>2 DEF ReleaseLeftOpen, IInv, NoOrphans, ChargeMatchesDelivery,
             StopsAnnouncedOnce, Pins
<1>17. ASSUME UNCHANGED vars PROVE IInv'
  <2>1. TypeOK'
    BY <1>17 DEF vars, IInv, TypeOK
  <2> QED BY <1>17, <2>1, Frame DEF vars
<1> QED
  BY <1>1, <1>2, <1>3, <1>4, <1>5, <1>6, <1>7, <1>8, <1>9, <1>10, <1>11, <1>12, <1>13, <1>14,
     <1>15, <1>16, <1>17
     DEF Next, StartStep, ReportStep, settle_provider_cost, resolve_customer_price, Sides, CloseStep,
         TimeStep, SweepStep, NewsStep
-----------------------------------------------------------------------------
\* The invariant holds of every behaviour of the units of work.
THEOREM WorkInvariance == WorkAssumption /\ Spec => []IInv
<1>1. WorkAssumption /\ Init => IInv
  BY InitHolds
<1>2. WorkAssumption /\ IInv /\ [Next]_vars => IInv'
  BY StepKeeps
<1> QED BY <1>1, <1>2, WorkAssumption, PTL DEF Spec

\* Units, reports, reservations and announcements keep their types.
THEOREM WorkTypeCorrect == Spec => []TypeOK
<1>1. IInv => TypeOK
  BY DEF IInv
<1> QED BY <1>1, WorkInvariance, WorkAssumption, PTL

\* No unit is active inside a unit that has ended (parent_for and _cascade),
\* whichever starts, closes, kills and expiries race.
THEOREM ContainmentHolds == Spec => []NoOrphans
<1>1. IInv => NoOrphans
  BY DEF IInv
<1> QED BY <1>1, WorkInvariance, WorkAssumption, PTL

\* Work is charged exactly once if it was delivered at an agreed price, and never
\* otherwise (charge_for_delivered_work on the winning transition).
THEOREM ChargesMatch == Spec => []ChargeMatchesDelivery
<1>1. IInv => ChargeMatchesDelivery
  BY DEF IInv
<1> QED BY <1>1, WorkInvariance, WorkAssumption, PTL

\* An active unit with an agreed price keeps its reservation (reservations.py).
THEOREM ReservationsHold == Spec => []ReservedWhileActive
<1>1. IInv => ReservedWhileActive
  BY DEF IInv
<1> QED BY <1>1, WorkInvariance, WorkAssumption, PTL

\* The stops UBB made, and only those, are announced, and one announcement of
\* each is not a dead letter (_stop_and_announce, remint_unannounced_kills).
THEOREM StopsAnnounced == Spec => []StopsAnnouncedOnce
<1>1. IInv => StopsAnnouncedOnce
  BY DEF IInv
<1> QED BY <1>1, WorkInvariance, WorkAssumption, PTL

\* How a unit ended is never rewritten (_flip's early return).
THEOREM EndsFinal == Spec => EndIsFinal
<1>1. ASSUME IInv, [Next]_vars
      PROVE  [\A u \in Units : status[u] \in Terminal => status'[u] = status[u] /\ cause'[u] = cause[u]]_vars
  <2> SUFFICES ASSUME Next, NEW v \in Units, status[v] \in Terminal
               PROVE  status'[v] = status[v] /\ cause'[v] = cause[v]
    BY <1>1
  <2>0. status \in [Units -> {"unborn", "active"} \cup Terminal] /\ status[v] \notin {"unborn", "active"}
    BY <1>1 DEF IInv, TypeOK, Terminal, Closed
  <2>1. ASSUME NEW u \in Units, NEW s, NEW why, NEW lost, Stop(u, s, why, lost)
        PROVE  status'[v] = status[v] /\ cause'[v] = cause[v]
    BY <2>0, <2>1 DEF Stop, Flip, Children
  <2>2. ASSUME NEW u \in Units, NEW s, NEW why, NEW lost, status[u] = "active", Flip(u, s, why, lost)
        PROVE  status'[v] = status[v] /\ cause'[v] = cause[v]
    BY <2>0, <2>2 DEF Flip, Children
  <2>3. CASE StartStep
    <3>1. ASSUME NEW u \in Units, Start(u) PROVE u # v /\ status' = [status EXCEPT ![u] = "active"] /\ cause' = cause
      BY <1>1, <2>0, <3>1 DEF Start, IInv, Lifecycle
    <3> QED BY <2>0, <2>3, <3>1 DEF StartStep, Admit, Refuse, unit
  <2>4. CASE ReportStep
    <3>1. ASSUME NEW k \in Postings, NEW lost \in BOOLEAN, ExecuteKill(k, lost)
          PROVE  status'[v] = status[v] /\ cause'[v] = cause[v]
      <4>1. Head(plan[k]) \in Units
        BY <1>1, <3>1 DEF ExecuteKill, IInv, TypeOK
      <4> QED BY <2>1, <3>1, <4>1 DEF ExecuteKill
    <3> QED BY <2>4, <3>1 DEF ReportStep, Record, KillsLost, Settle, settle_provider_cost,
        resolve_customer_price, unit
  <2>5. CASE CloseStep
    BY <2>2, <2>5 DEF CloseStep, Close, Draw, unit
  <2>6. CASE SweepStep
    <3>1. ASSUME NEW u \in Units, NEW lost \in BOOLEAN, Abandon(u, lost)
          PROVE  status'[v] = status[v] /\ cause'[v] = cause[v]
      BY <2>2, <3>1 DEF Abandon
    <3> QED BY <2>1, <2>6, <3>1 DEF SweepStep, ListStale, ListAbandoned, ListOver, Reap, Patrol, Remint,
               ReleaseLeftOpen, unit
  <2>7. CASE TimeStep \/ NewsStep
    BY <2>7 DEF TimeStep, NewsStep, Quiet, Deliver, DeadLetter, unit
  <2> QED BY <2>3, <2>4, <2>5, <2>6, <2>7 DEF Next
<1> QED BY <1>1, WorkInvariance, WorkAssumption, PTL DEF Spec, EndIsFinal

-----------------------------------------------------------------------------
(* What the reservations of one wallet leave of it.                         *)

OpenUnits == {u \in Units : resv[u] = "open"}

\* Fewer open reservations hold less money.
LEMMA Holding ==
    ASSUME WorkAssumption, NEW A \in SUBSET Units, NEW B \in SUBSET A
    PROVE  Cardinality(A) \in Nat /\ Cardinality(B) \in Nat /\ Price * Cardinality(B) <= Price * Cardinality(A)
<1>1. IsFiniteSet(A) /\ IsFiniteSet(B)
  BY FS_Subset DEF WorkAssumption
<1>2. Cardinality(A) \in Nat /\ Cardinality(B) \in Nat /\ Cardinality(B) <= Cardinality(A)
  BY <1>1, FS_Subset, FS_CardinalityType
<1>3. ASSUME NEW a \in Nat, NEW b \in Nat, NEW p \in Nat, b <= a PROVE p * b <= p * a
  BY <1>3
<1> QED BY <1>2, <1>3 DEF WorkAssumption

\* One more reservation, or one more charge paid, is one price more.
LEMMA OneMore ==
    ASSUME WorkAssumption, NEW A \in SUBSET Units, NEW u \in Units, u \notin A
    PROVE  Cardinality(A) \in Nat /\ Price * Cardinality(A \cup {u}) = Price * Cardinality(A) + Price
<1>1. IsFiniteSet(A)
  BY FS_Subset DEF WorkAssumption
<1>2. Cardinality(A) \in Nat /\ Cardinality(A \cup {u}) = Cardinality(A) + 1
  BY <1>1, FS_AddElement, FS_CardinalityType
<1>3. ASSUME NEW a \in Nat, NEW p \in Nat PROVE p * (a + 1) = p * a + p
  BY <1>3
<1> QED BY <1>2, <1>3 DEF WorkAssumption

\* A step that opens no reservation and pays no charge leaves at least as much.
LEMMA ShrinkKeeps ==
    ASSUME WorkAssumption, TypeOK, TypeOK', NeverOversold, OpenUnits' \subseteq OpenUnits,
           (\A u \in Units : resv[u] = "none") => (\A u \in Units : resv'[u] = "none"),
           UNCHANGED <<drawn, balance>>
    PROVE  NeverOversold'
<1>1. CASE \A u \in Units : resv[u] = "none"
  BY <1>1 DEF NeverOversold
<1>2. CASE ~PastFloor(Available + Price * Cardinality(drawn))
  <2>1. OpenUnits \subseteq Units /\ drawn \subseteq Units
    BY DEF OpenUnits, TypeOK
  <2>2. /\ Price * Cardinality(OpenUnits') <= Price * Cardinality(OpenUnits)
        /\ Cardinality(OpenUnits') \in Nat /\ Cardinality(OpenUnits) \in Nat
    BY <2>1, Holding
  <2>3. Cardinality(drawn) \in Nat
    BY <2>1, Holding
  <2> DEFINE pd == Price * Cardinality(drawn)
             po == Price * Cardinality(OpenUnits)
             pn == Price * Cardinality(OpenUnits')
  <2>4. pd \in Int /\ po \in Int /\ pn \in Int /\ balance \in Int /\ MinBalance \in Int
    <3>1. Price \in Nat /\ MinBalance \in Int /\ balance \in Int
      BY DEF WorkAssumption, TypeOK
    <3>2. \A c \in Nat : Price * c \in Int
      BY <3>1
    <3> QED BY <2>2, <2>3, <3>1, <3>2
  <2>5. ~(balance - po + pd < -MinBalance)
    BY <1>2 DEF PastFloor, Available, Reserved, OpenUnits
  <2>6. pn <= po
    BY <2>2
  <2> HIDE DEF pd, po, pn
  <2>7. ~(balance - pn + pd < -MinBalance)
    BY <2>4, <2>5, <2>6
  <2>8. (Available + Price * Cardinality(drawn))' = balance - pn + pd
    BY DEF Available, Reserved, OpenUnits, pd, pn
  <2> QED BY <2>7, <2>8 DEF NeverOversold, PastFloor
<1> QED BY <1>1, <1>2 DEF NeverOversold

\* An end of a unit only gives reservations back.
LEMMA FlipShrinks ==
    ASSUME TypeOK, NEW u \in Units, NEW s, NEW why, NEW lost, Flip(u, s, why, lost)
    PROVE  /\ OpenUnits' \subseteq OpenUnits
           /\ (\A x \in Units : resv[x] = "none") => (\A x \in Units : resv'[x] = "none")
  BY DEF Flip, OpenUnits, TypeOK

\* One step of anyone keeps the reservations within the wallet.
LEMMA OversoldStep == ASSUME WorkAssumption, IInv, IInv', NeverOversold, [Next]_vars PROVE NeverOversold'
<1> USE DEF unit, books, sweeps, money, news
<1>0. TypeOK /\ TypeOK'
  BY DEF IInv
<1>1. ASSUME NEW u \in Units, Start(u) PROVE NeverOversold'
  <2>1. resv[u] = "none"
    BY <1>1 DEF Start, IInv, Lifecycle
  <2>2. CASE ~Pins(u, start[u].mode)
    <3>1. resv' = resv /\ UNCHANGED <<drawn, balance>>
      BY <1>0, <1>1, <2>2 DEF Start, TypeOK
    <3> QED BY <3>1 DEF NeverOversold, Available, Reserved, PastFloor
  <2>3. CASE Pins(u, start[u].mode)
    <3>1. OpenUnits' = OpenUnits \cup {u} /\ u \notin OpenUnits /\ UNCHANGED <<drawn, balance>>
      BY <1>0, <1>1, <2>1, <2>3 DEF Start, TypeOK, OpenUnits
    <3>2. Price * Cardinality(OpenUnits') = Price * Cardinality(OpenUnits) + Price /\ Cardinality(OpenUnits) \in Nat
      BY <3>1, OneMore DEF OpenUnits
    <3>3. Cardinality(drawn) \in Nat
      BY <1>0, Holding DEF TypeOK
    <3> DEFINE pd == Price * Cardinality(drawn)
               po == Price * Cardinality(OpenUnits)
               pn == Price * Cardinality(OpenUnits')
    <3>4. pd \in Nat /\ po \in Nat /\ pn = po + Price /\ balance \in Int /\ MinBalance \in Int /\ Price \in Nat
      BY <1>0, <3>2, <3>3 DEF WorkAssumption, TypeOK
    <3>5. ~(balance - po - Price < -MinBalance)
      BY <1>1, <2>3 DEF Start, Affordable, PastFloor, Available, Reserved, OpenUnits
    <3> HIDE DEF pd, po, pn
    <3>6. ~(balance - pn + pd < -MinBalance)
      BY <3>4, <3>5
    <3>7. (Available + Price * Cardinality(drawn))' = balance - pn + pd
      BY <3>1 DEF Available, Reserved, OpenUnits, pd, pn
    <3> QED BY <3>6, <3>7 DEF NeverOversold, PastFloor
  <2> QED BY <2>2, <2>3
<1>2. ASSUME NEW u \in Units, Draw(u) PROVE NeverOversold'
  <2>1. drawn \subseteq Units /\ u \notin drawn /\ drawn' = drawn \cup {u} /\ resv' = resv /\ balance' = balance - Price
    BY <1>0, <1>2 DEF Draw, TypeOK
  <2>2. Price * Cardinality(drawn') = Price * Cardinality(drawn) + Price /\ Cardinality(drawn) \in Nat
    BY <2>1, OneMore
  <2>3. Cardinality(OpenUnits) \in Nat
    BY Holding DEF OpenUnits
  <2> DEFINE pd == Price * Cardinality(drawn)
             pn == Price * Cardinality(drawn')
             po == Price * Cardinality(OpenUnits)
  <2>4. pd \in Nat /\ po \in Nat /\ pn = pd + Price /\ balance \in Int /\ MinBalance \in Int /\ Price \in Nat
    BY <1>0, <2>2, <2>3 DEF WorkAssumption, TypeOK
  <2>5. Available + Price * Cardinality(drawn) = balance - po + pd
    BY DEF Available, Reserved, OpenUnits, pd, po
  <2>6. (Available + Price * Cardinality(drawn))' = (balance - Price) - po + pn
    BY <2>1 DEF Available, Reserved, OpenUnits, pn, po
  <2> HIDE DEF pd, po, pn
  <2>7. (balance - Price) - po + pn = balance - po + pd
    BY <2>4
  <2> QED BY <2>1, <2>5, <2>6, <2>7 DEF NeverOversold, PastFloor
<1>3. ASSUME NEW u \in Units, NEW s, NEW why, NEW lost, Stop(u, s, why, lost), UNCHANGED <<drawn, balance>>
      PROVE  NeverOversold'
  <2>1. CASE status[u] = "active"
    BY <1>0, <1>3, <2>1, FlipShrinks, ShrinkKeeps DEF Stop
  <2>2. CASE status[u] # "active"
    BY <1>0, <1>3, <2>2, ShrinkKeeps DEF Stop, OpenUnits
  <2> QED BY <2>1, <2>2
<1>4. ASSUME NEW u \in Units, NEW s \in Declared, NEW lost \in BOOLEAN, Close(u, s, lost) PROVE NeverOversold'
  BY <1>0, <1>4, FlipShrinks, ShrinkKeeps DEF Close
<1>5. ASSUME NEW u \in Units, NEW lost \in BOOLEAN, Abandon(u, lost) PROVE NeverOversold'
  <2>1. CASE status[u] = "active"
    BY <1>0, <1>5, <2>1, FlipShrinks, ShrinkKeeps DEF Abandon
  <2>2. CASE status[u] # "active"
    BY <1>0, <1>5, <2>2, ShrinkKeeps DEF Abandon, OpenUnits
  <2> QED BY <2>1, <2>2
<1>6. ASSUME NEW u \in Units, ReleaseLeftOpen(u) PROVE NeverOversold'
  <2>1. OpenUnits' \subseteq OpenUnits /\ resv[u] # "none" /\ UNCHANGED <<drawn, balance>>
    BY <1>0, <1>6 DEF ReleaseLeftOpen, OpenUnits, TypeOK
  <2> QED BY <1>0, <2>1, ShrinkKeeps
<1>7. ASSUME UNCHANGED <<resv, drawn, balance>> PROVE NeverOversold'
  BY <1>7 DEF NeverOversold, Available, Reserved, PastFloor
<1>8. CASE StartStep
  BY <1>1, <1>7, <1>8 DEF StartStep, Admit, Refuse
<1>9. CASE ReportStep
  <2>1. ASSUME NEW k \in Postings, NEW lost \in BOOLEAN, ExecuteKill(k, lost) PROVE NeverOversold'
    <3>1. Head(plan[k]) \in Units
      BY <1>0, <2>1 DEF ExecuteKill, TypeOK
    <3> QED BY <1>3, <2>1, <3>1 DEF ExecuteKill
  <2> QED BY <1>7, <1>9, <2>1 DEF ReportStep, Record, KillsLost, Settle, settle_provider_cost,
      resolve_customer_price
<1>10. CASE CloseStep
  BY <1>2, <1>4, <1>10 DEF CloseStep
<1>11. CASE SweepStep
  BY <1>3, <1>5, <1>6, <1>7, <1>11 DEF SweepStep, ListStale, ListAbandoned, ListOver, Reap, Patrol, Remint
<1>12. CASE TimeStep \/ NewsStep
  BY <1>7, <1>12 DEF TimeStep, NewsStep, Quiet, Deliver, DeadLetter
<1>13. CASE UNCHANGED vars
  BY <1>7, <1>13 DEF vars
<1> QED BY <1>8, <1>9, <1>10, <1>11, <1>12, <1>13 DEF Next

\* However many starts race for one wallet, what is reserved stays within the
\* floor, apart from charges paid meanwhile (reserve_agreed_price).
THEOREM WalletNotOversold == Spec => []NeverOversold
<1>1. WorkAssumption /\ Init => NeverOversold
  BY DEF Init, NeverOversold
<1>2. WorkAssumption /\ IInv /\ IInv' /\ NeverOversold /\ [Next]_vars => NeverOversold'
  BY OversoldStep
<1> QED BY <1>1, <1>2, WorkInvariance, WorkAssumption, PTL DEF Spec

-----------------------------------------------------------------------------
(* The books of a unit.  That they add up rests on what a report found: the *)
(* unit it was posted to had started, so the unit that contains it is fixed *)
(* and no later start moves a posting to other books.                       *)

Posted ==
    \A k \in Postings :
        /\ post[k].unit = NoUnit => post[k] = NoPosting
        /\ post[k].unit # NoUnit => status[post[k].unit] # "unborn"

\* The postings with one state of one amount in the books of a unit.
Having(u, side, st) == {k \in Reports(u) : post[k][side] = st}

\* One more posting counts one more.
LEMMA OneMorePosting ==
    ASSUME WorkAssumption, NEW S \in SUBSET Postings, NEW k \in Postings, k \notin S
    PROVE  Cardinality(S) \in Nat /\ Cardinality(S \cup {k}) = Cardinality(S) + 1
<1>1. IsFiniteSet(S)
  BY FS_Subset DEF WorkAssumption
<1> QED BY <1>1, FS_AddElement, FS_CardinalityType

\* A step that leaves the postings, the containment of what has started and the
\* charge alone leaves the books as they are.
LEMMA BooksFrame ==
    ASSUME WorkAssumption, IInv, Posted, BooksAddUp, UNCHANGED <<books, charges>>,
           \A u \in Units : status[u] # "unborn" => status'[u] # "unborn" /\ parent'[u] = parent[u]
    PROVE  Posted' /\ BooksAddUp'
<1> USE DEF books
<1>1. \A k \in Postings : post[k].unit \in Units \cup {NoUnit}
  BY DEF IInv, TypeOK
<1>2. Posted'
  BY <1>1 DEF Posted
<1>3. ASSUME NEW u \in Units PROVE Reports(u)' = Reports(u)
  BY <1>1 DEF Reports, Chain, Posted
<1>4. ASSUME NEW u \in Units, NEW side, NEW st PROVE In(u, side, st)' = In(u, side, st)
  BY <1>3 DEF In
<1>5. ASSUME NEW u \in Units
      PROVE  /\ total'[u]["cost"] = In(u, "cost", "known")' - In(u, "cost", "credit")'
             /\ total'[u]["price"] = In(u, "price", "known")' + charges'[u] * Price
             /\ \A side \in Sides : missing'[u][side] = In(u, side, "unresolved")'
  <2>1. /\ In(u, "cost", "known")' = In(u, "cost", "known") /\ In(u, "price", "known")' = In(u, "price", "known")
        /\ In(u, "cost", "credit")' = In(u, "cost", "credit")
    BY <1>4
  <2>2. \A side \in Sides : In(u, side, "unresolved")' = In(u, side, "unresolved")
    BY <1>4
  <2> QED BY <2>1, <2>2 DEF BooksAddUp
<1>6. BooksAddUp'
  BY <1>5 DEF BooksAddUp
<1> QED BY <1>2, <1>6

\* The report: the posting is new to the books of its unit and of the unit that
\* contains it, and to no others.
LEMMA RecordBooks ==
    ASSUME WorkAssumption, IInv, Posted, BooksAddUp,
           NEW k \in Postings, NEW u \in Units, NEW a \in Amounts, Record(k, u, a[1], a[2])
    PROVE  Posted' /\ BooksAddUp'
<1> DEFINE c == a[1]
           p == IF mode[u] = "fixed" THEN "na" ELSE a[2]
           Amount(s) == IF s = "cost" THEN c ELSE p
           One(s, st) == IF Amount(s) = st THEN 1 ELSE 0
<1>1. /\ post[k] = NoPosting /\ status[u] # "unborn"
      /\ post' = [post EXCEPT ![k] = [unit |-> u, cost |-> c, price |-> p]]
      /\ total' = Added(u, c, p) /\ missing' = Counted(u, c, p)
      /\ UNCHANGED <<status, parent, charges>>
  BY DEF Record, unit, money
<1> HIDE DEF c, p
<1>2. /\ u # NoUnit /\ post[k].unit = NoUnit
      /\ \A j \in Postings : post[j].unit \in Units \cup {NoUnit}
      /\ DOMAIN post = Postings
  BY <1>1 DEF WorkAssumption, NoPosting, IInv, TypeOK
<1>3. /\ post'[k] = [unit |-> u, cost |-> c, price |-> p]
      /\ \A j \in Postings : j # k => post'[j] = post[j]
  BY <1>1, <1>2
<1>4. Posted'
  BY <1>1, <1>2, <1>3 DEF Posted
<1>5. ASSUME NEW v \in Units, NEW side \in Sides, NEW st \in {"known", "credit", "unresolved"}
      PROVE  In(v, side, st)' = In(v, side, st) + (IF v \in Chain(u) THEN One(side, st) ELSE 0)
  <2>1. post'[k][side] = Amount(side) /\ post'[k].unit = u
    BY <1>3 DEF Sides
  <2>2. k \notin Having(v, side, st) /\ Having(v, side, st) \in SUBSET Postings
    BY <1>2 DEF Having, Reports
  <2>3. \A j \in Postings : j # k => (j \in Having(v, side, st)' <=> j \in Having(v, side, st))
    BY <1>1, <1>3 DEF Having, Reports, Chain
  <2>4. k \in Having(v, side, st)' <=> v \in Chain(u) /\ Amount(side) = st
    BY <1>1, <1>2, <2>1 DEF Having, Reports, Chain
  <2>5. Having(v, side, st)' \subseteq Postings
    BY DEF Having, Reports
  <2>6. In(v, side, st) = Cardinality(Having(v, side, st)) /\ In(v, side, st)' = Cardinality(Having(v, side, st)')
    BY DEF In, Having
  <2>7. CASE v \in Chain(u) /\ Amount(side) = st
    <3>1. Having(v, side, st)' = Having(v, side, st) \cup {k}
      BY <2>2, <2>3, <2>4, <2>5, <2>7
    <3> QED BY <2>2, <2>6, <2>7, <3>1, OneMorePosting
  <2>8. CASE ~(v \in Chain(u) /\ Amount(side) = st)
    <3>1. Having(v, side, st)' = Having(v, side, st)
      BY <2>2, <2>3, <2>4, <2>5, <2>8
    <3>2. Cardinality(Having(v, side, st)) \in Nat
      BY <2>2, OneMorePosting
    <3> QED BY <2>6, <2>8, <3>1, <3>2
  <2> QED BY <2>7, <2>8
<1>6. ASSUME NEW v \in Units, NEW side \in Sides
      PROVE  /\ total'[v][side] = total[v][side] + (IF v \in Chain(u) THEN One(side, "known") - One(side, "credit") ELSE 0)
             /\ missing'[v][side] = missing[v][side] + (IF v \in Chain(u) THEN One(side, "unresolved") ELSE 0)
  <2>1. total[v][side] \in Int /\ missing[v][side] \in Int
    BY DEF IInv, TypeOK
  <2>2. Worth(Amount(side)) = One(side, "known") - One(side, "credit")
    BY DEF Worth
  <2>3. /\ total'[v][side] = total[v][side] + (IF v \in Chain(u) THEN Worth(Amount(side)) ELSE 0)
        /\ missing'[v][side] = missing[v][side] + (IF v \in Chain(u) THEN One(side, "unresolved") ELSE 0)
    BY <1>1, <2>1 DEF Added, Counted
  <2> QED BY <2>2, <2>3
<1>7. ASSUME NEW v \in Units, NEW side \in Sides, NEW st \in {"known", "credit", "unresolved"}
      PROVE  In(v, side, st) \in Nat /\ (IF v \in Chain(u) THEN One(side, st) ELSE 0) \in Nat
  <2>1. Having(v, side, st) \in SUBSET Postings /\ k \notin Having(v, side, st)
    BY <1>2 DEF Having, Reports
  <2>2. Cardinality(Having(v, side, st)) \in Nat
    BY <2>1, OneMorePosting
  <2> QED BY <2>2 DEF In, Having
<1>8. ASSUME NEW v \in Units
      PROVE  /\ total'[v]["cost"] = In(v, "cost", "known")' - In(v, "cost", "credit")'
             /\ total'[v]["price"] = In(v, "price", "known")' + charges'[v] * Price
             /\ \A side \in Sides : missing'[v][side] = In(v, side, "unresolved")'
  <2>1. "cost" \in Sides /\ "price" \in Sides
    BY DEF Sides
  <2>2. charges'[v] * Price = charges[v] * Price /\ charges[v] * Price \in Nat
    BY <1>1 DEF IInv, TypeOK, WorkAssumption
  <2> DEFINE ch == charges[v] * Price
             grow(s, st) == IF v \in Chain(u) THEN One(s, st) ELSE 0
  <2>3. /\ total[v]["cost"] = In(v, "cost", "known") - In(v, "cost", "credit")
        /\ total[v]["price"] = In(v, "price", "known") + ch
        /\ \A side \in Sides : missing[v][side] = In(v, side, "unresolved")
    BY DEF BooksAddUp
  <2>4. \A s \in Sides, st \in {"known", "credit", "unresolved"} :
           In(v, s, st)' = In(v, s, st) + grow(s, st) /\ In(v, s, st) \in Nat /\ grow(s, st) \in Nat
    BY <1>5, <1>7
  <2>5. \A s \in Sides : total'[v][s] = total[v][s] + (grow(s, "known") - grow(s, "credit"))
                         /\ missing'[v][s] = missing[v][s] + grow(s, "unresolved")
    BY <1>6
  <2>6. ch \in Nat /\ charges'[v] * Price = ch
    BY <2>2
  <2>10. grow("price", "credit") = 0
    BY DEF WorkAssumption, p
  <2> HIDE DEF ch, grow
  <2>7. total'[v]["cost"] = In(v, "cost", "known")' - In(v, "cost", "credit")'
    BY <2>1, <2>3, <2>4, <2>5
  <2>8. \A side \in Sides : missing'[v][side] = In(v, side, "unresolved")'
    BY <2>3, <2>4, <2>5
  <2>9. total'[v]["price"] = In(v, "price", "known")' + ch
    <3>1. ASSUME NEW x \in Nat, NEW y \in Nat, NEW z \in Nat PROVE x + z + y = x + y + z
      OBVIOUS
    <3>3. grow("price", "known") - grow("price", "credit") = grow("price", "known")
      BY <2>1, <2>4, <2>10
    <3>2. /\ total'[v]["price"] = In(v, "price", "known") + ch + grow("price", "known")
          /\ In(v, "price", "known")' = In(v, "price", "known") + grow("price", "known")
          /\ In(v, "price", "known") \in Nat /\ grow("price", "known") \in Nat
      BY <2>1, <2>3, <2>4, <2>5, <3>3
    <3> QED BY <2>6, <3>1, <3>2
  <2> QED BY <2>6, <2>7, <2>8, <2>9
<1>9. BooksAddUp'
  BY <1>8 DEF BooksAddUp
<1> QED BY <1>4, <1>9

\* A settlement moves one posting of one side from unresolved to its amount, in the
\* books that counted it when it was reported.
LEMMA SettleBooks ==
    ASSUME WorkAssumption, IInv, Posted, BooksAddUp,
           NEW k \in Postings, NEW side \in Sides, NEW amt \in {"known", "credit"},
           side = "price" => amt = "known", Settle(k, side, amt)
    PROVE  Posted' /\ BooksAddUp'
<1> DEFINE u == post[k].unit
<1>0. "cost" \in Sides /\ "price" \in Sides /\ Sides = {"cost", "price"}
  BY DEF Sides
<1>1. /\ post[k][side] = "unresolved"
      /\ post' = [post EXCEPT ![k][side] = amt]
      /\ UNCHANGED <<status, parent, charges>>
  BY DEF Settle, unit, money
<1>2. /\ \A j \in Postings : post[j].unit \in Units \cup {NoUnit}
      /\ DOMAIN post = Postings
      /\ post[k] \in [unit : Units \cup {NoUnit}, cost : {"none", "known", "credit", "unresolved"},
                      price : {"none", "known", "unresolved", "na"}]
  BY DEF IInv, TypeOK
<1>3. u # NoUnit
  BY <1>0, <1>1 DEF Posted, NoPosting
<1>4. /\ \A j \in Postings : j # k => post'[j] = post[j]
      /\ post'[k].unit = u
      /\ post'[k][side] = amt
      /\ \A s \in Sides : s # side => post'[k][s] = post[k][s]
  <2>1. CASE side = "cost"
    BY <1>0, <1>1, <1>2, <2>1
  <2>2. CASE side = "price"
    BY <1>0, <1>1, <1>2, <2>2
  <2> QED BY <1>0, <2>1, <2>2
<1>5. Posted'
  BY <1>1, <1>3, <1>4 DEF Posted
<1>6. ASSUME NEW v \in Units, NEW s \in Sides, NEW st \in {"known", "credit", "unresolved"}
      PROVE  /\ In(v, s, st) \in Nat
             /\ s # side \/ v \notin Chain(u) => In(v, s, st)' = In(v, s, st)
             /\ s = side /\ v \in Chain(u) /\ st = amt => In(v, s, st)' = In(v, s, st) + 1
             /\ s = side /\ v \in Chain(u) /\ st = "unresolved" => In(v, s, st)' = In(v, s, st) - 1
             /\ st \notin {amt, "unresolved"} => In(v, s, st)' = In(v, s, st)
  <2> DEFINE Old == Having(v, s, st)
             New == Having(v, s, st)'
  <2>1. /\ In(v, s, st) = Cardinality(Old) /\ In(v, s, st)' = Cardinality(New)
        /\ Old \in SUBSET Postings /\ New \in SUBSET Postings
    BY DEF In, Having, Reports
  <2>2. \A j \in Postings : j # k => (j \in New <=> j \in Old)
    BY <1>1, <1>4 DEF Having, Reports, Chain
  <2>3. k \in Old <=> v \in Chain(u) /\ post[k][s] = st
    BY <1>3 DEF Having, Reports
  <2>4. k \in New <=> v \in Chain(u) /\ post'[k][s] = st
    BY <1>1, <1>3, <1>4 DEF Having, Reports, Chain
  <2> HIDE DEF Old, New
  <2>5. ASSUME NEW S \in SUBSET Postings PROVE Cardinality(S) \in Nat
    <3>1. IsFiniteSet(S)
      BY FS_Subset DEF WorkAssumption
    <3> QED BY <3>1, FS_CardinalityType
  <2>6. CASE s # side \/ v \notin Chain(u) \/ st \notin {amt, "unresolved"}
    <3>2. k \in New <=> k \in Old
      <4>1. CASE s # side
        BY <1>4, <2>3, <2>4, <4>1
      <4>2. CASE s = side /\ st \notin {amt, "unresolved"}
        BY <1>1, <1>4, <2>3, <2>4, <4>2
      <4> QED BY <2>3, <2>4, <2>6, <4>1, <4>2
    <3>0. \A j \in Postings : j \in New <=> j \in Old
      BY <2>2, <3>2
    <3>1. New = Old
      BY <2>1, <3>0
    <3>3. In(v, s, st)' = In(v, s, st) /\ In(v, s, st) \in Nat
      BY <2>1, <2>5, <3>1
    <3>4. ~(s = side /\ v \in Chain(u) /\ st = amt) /\ ~(s = side /\ v \in Chain(u) /\ st = "unresolved")
      BY <2>6
    <3> QED BY <3>3, <3>4
  <2>7. CASE s = side /\ v \in Chain(u) /\ st = amt
    <3>0. k \in New /\ k \notin Old
      BY <1>1, <1>4, <2>3, <2>4, <2>7
    <3>1. New = Old \cup {k} /\ k \notin Old
      BY <2>1, <2>2, <3>0
    <3>2. Cardinality(Old) \in Nat /\ Cardinality(New) = Cardinality(Old) + 1
      BY <2>1, <3>1, OneMorePosting
    <3> QED BY <2>1, <2>7, <3>2
  <2>8. CASE s = side /\ v \in Chain(u) /\ st = "unresolved"
    <3>0. k \in Old /\ k \notin New
      BY <1>1, <1>4, <2>3, <2>4, <2>8
    <3>1. Old = New \cup {k} /\ k \notin New
      BY <2>1, <2>2, <3>0
    <3>2. Cardinality(New) \in Nat /\ Cardinality(Old) = Cardinality(New) + 1
      BY <2>1, <3>1, OneMorePosting
    <3>3. Cardinality(New) = Cardinality(Old) - 1 /\ Cardinality(Old) \in Nat
      BY <3>2
    <3> QED BY <2>1, <2>8, <3>3
  <2> QED BY <2>6, <2>7, <2>8
<1>7. ASSUME NEW v \in Units, NEW s \in Sides
      PROVE  /\ total[v][s] \in Int /\ missing[v][s] \in Int
             /\ s # side \/ v \notin Chain(u) => total'[v][s] = total[v][s] /\ missing'[v][s] = missing[v][s]
             /\ s = side /\ v \in Chain(u) => /\ total'[v][s] = total[v][s] + Worth(amt)
                                              /\ missing'[v][s] = missing[v][s] - 1
  <2>1. total[v] \in [Sides -> Int] /\ missing[v] \in [Sides -> Int]
    BY DEF IInv, TypeOK
  <2>2. /\ total'[v] = IF v \in Chain(u) THEN [total[v] EXCEPT ![side] = @ + Worth(amt)] ELSE total[v]
        /\ missing'[v] = IF v \in Chain(u) THEN [missing[v] EXCEPT ![side] = @ - 1] ELSE missing[v]
    BY DEF Settle
  <2>3. Worth(amt) \in Int
    BY DEF Worth
  <2> QED BY <2>1, <2>2, <2>3
<1> HIDE DEF u
<1>8. ASSUME NEW v \in Units
      PROVE  /\ total'[v]["cost"] = In(v, "cost", "known")' - In(v, "cost", "credit")'
             /\ total'[v]["price"] = In(v, "price", "known")' + charges'[v] * Price
             /\ \A s \in Sides : missing'[v][s] = In(v, s, "unresolved")'
  <2> DEFINE ch == charges[v] * Price
  <2>1. ch \in Nat /\ charges'[v] * Price = ch
    BY <1>1 DEF IInv, TypeOK, WorkAssumption
  <2>2. /\ total[v]["cost"] = In(v, "cost", "known") - In(v, "cost", "credit")
        /\ total[v]["price"] = In(v, "price", "known") + ch
        /\ \A s \in Sides : missing[v][s] = In(v, s, "unresolved")
    BY DEF BooksAddUp
  <2> HIDE DEF ch
  <2>3. total'[v]["cost"] = In(v, "cost", "known")' - In(v, "cost", "credit")'
    <3>1. CASE side # "cost" \/ v \notin Chain(u)
      BY <1>0, <1>6, <1>7, <2>2, <3>1
    <3>2. CASE side = "cost" /\ v \in Chain(u)
      <4> DEFINE kn == In(v, "cost", "known")
                 cr == In(v, "cost", "credit")
      <4>1. /\ total'[v]["cost"] = (kn - cr) + Worth(amt) /\ kn \in Nat /\ cr \in Nat
            /\ amt = "known" => In(v, "cost", "known")' = kn + 1 /\ In(v, "cost", "credit")' = cr
            /\ amt = "credit" => In(v, "cost", "known")' = kn /\ In(v, "cost", "credit")' = cr + 1
        BY <1>0, <1>6, <1>7, <2>2, <3>2
      <4>2. (amt = "known" => Worth(amt) = 1) /\ (amt = "credit" => Worth(amt) = -1)
        BY DEF Worth
      <4> HIDE DEF kn, cr
      <4> QED BY <4>1, <4>2
    <3> QED BY <3>1, <3>2
  <2>4. total'[v]["price"] = In(v, "price", "known")' + ch
    <3>1. CASE side # "price" \/ v \notin Chain(u)
      BY <1>0, <1>6, <1>7, <2>2, <3>1
    <3>2. CASE side = "price" /\ v \in Chain(u)
      <4>1. /\ total'[v]["price"] = In(v, "price", "known") + ch + 1
            /\ In(v, "price", "known")' = In(v, "price", "known") + 1
            /\ In(v, "price", "known") \in Nat
        <5>1. amt = "known" /\ Worth(amt) = 1
          BY <3>2 DEF Worth
        <5> QED BY <1>0, <1>6, <1>7, <2>2, <3>2, <5>1
      <4> QED BY <2>1, <4>1
    <3> QED BY <3>1, <3>2
  <2>5. ASSUME NEW s \in Sides PROVE missing'[v][s] = In(v, s, "unresolved")'
    BY <1>6, <1>7, <2>2
  <2> QED BY <2>1, <2>3, <2>4, <2>5
<1>9. BooksAddUp'
  BY <1>8 DEF BooksAddUp
<1> QED BY <1>5, <1>9

\* A delivery adds its charge to the unit's price total and to its charges.
LEMMA CloseBooks ==
    ASSUME WorkAssumption, IInv, Posted, BooksAddUp,
           NEW u \in Units, NEW s \in Declared, NEW lost \in BOOLEAN, Close(u, s, lost)
    PROVE  Posted' /\ BooksAddUp'
<1>1. /\ charges' = [charges EXCEPT ![u] = @ + Charge(u, s)]
      /\ total' = [total EXCEPT ![u].price = @ + Charge(u, s) * Price]
      /\ UNCHANGED <<parent, missing, post>>
  BY DEF Close
<1>2. \A v \in Units : status[v] # "unborn" => status'[v] # "unborn"
  BY DEF Close, Flip, Children, CascadeStatus, Closed, WorkAssumption
<1>3. Posted'
  BY <1>1, <1>2 DEF Posted, IInv, TypeOK
<1>4. ASSUME NEW v, NEW side, NEW st PROVE In(v, side, st)' = In(v, side, st)
  BY <1>1 DEF In, Reports, Chain
<1>5. ASSUME NEW v \in Units
      PROVE  /\ total'[v]["cost"] = In(v, "cost", "known")' - In(v, "cost", "credit")'
             /\ total'[v]["price"] = In(v, "price", "known")' + charges'[v] * Price
             /\ \A side \in Sides : missing'[v][side] = In(v, side, "unresolved")'
  <2>1. /\ total \in [Units -> [Sides -> Int]] /\ charges \in [Units -> Nat] /\ Price \in Nat
        /\ "cost" \in Sides /\ "price" \in Sides
    BY DEF IInv, TypeOK, WorkAssumption, Sides
  <2>2. /\ total[v]["cost"] = In(v, "cost", "known") - In(v, "cost", "credit")
        /\ total[v]["price"] = In(v, "price", "known") + charges[v] * Price
        /\ \A side \in Sides : missing[v][side] = In(v, side, "unresolved")
    BY DEF BooksAddUp
  <2>3. total'[v]["cost"] = total[v]["cost"]
    BY <1>1, <2>1
  <2>4. v # u => total'[v]["price"] = total[v]["price"] /\ charges'[v] = charges[v]
    BY <1>1, <2>1
  <2>5. /\ total'[u]["price"] = total[u]["price"] + Charge(u, s) * Price
        /\ charges'[u] = charges[u] + Charge(u, s)
    BY <1>1, <2>1
  <2>6. Charge(u, s) \in {0, 1}
    BY DEF Charge
  <2>7. In(v, "price", "known") \in Nat
    <3>1. IsFiniteSet(Having(v, "price", "known"))
      BY FS_Subset DEF WorkAssumption, Having, Reports
    <3> QED BY <3>1, FS_CardinalityType DEF In, Having
  <2>8. total'[v]["price"] = In(v, "price", "known") + charges'[v] * Price
    <3>1. CASE v # u
      BY <2>2, <2>4, <3>1
    <3>2. CASE v = u
      <4>1. ASSUME NEW x \in Nat, NEW c \in Nat, NEW d \in {0, 1}, NEW q \in Nat
            PROVE  (x + c * q) + d * q = x + (c + d) * q
        <5>1. CASE d = 0
          BY <5>1
        <5>2. CASE d = 1
          <6>1. (c + 1) * q = c * q + q
            OBVIOUS
          <6>2. c * q \in Nat
            OBVIOUS
          <6> DEFINE cq == c * q
          <6>3. cq \in Nat /\ (c + 1) * q = cq + q /\ d * q = q
            BY <5>2, <6>1, <6>2
          <6> HIDE DEF cq
          <6>4. (x + cq) + q = x + (cq + q)
            BY <6>3
          <6> QED BY <5>2, <6>3, <6>4 DEF cq
        <5> QED BY <5>1, <5>2
      <4>2. charges[u] \in Nat /\ Price \in Nat
        BY <2>1
      <4>3. (In(u, "price", "known") + charges[u] * Price) + Charge(u, s) * Price
              = In(u, "price", "known") + (charges[u] + Charge(u, s)) * Price
        BY <2>6, <2>7, <3>2, <4>1, <4>2
      <4>4. /\ total'[u]["price"] = (In(u, "price", "known") + charges[u] * Price) + Charge(u, s) * Price
            /\ charges'[u] = charges[u] + Charge(u, s)
        BY <2>2, <2>5, <3>2
      <4>5. total'[u]["price"] = In(u, "price", "known") + charges'[u] * Price
        BY ONLY <4>3, <4>4
      <4> QED BY <3>2, <4>5
    <3> QED BY <3>1, <3>2
  <2> QED BY <1>1, <1>4, <2>2, <2>3, <2>8
<1>6. BooksAddUp'
  BY <1>5 DEF BooksAddUp
<1> QED BY <1>3, <1>6

\* One step of anyone keeps the books.
LEMMA BooksStep ==
    ASSUME WorkAssumption, IInv, Posted, BooksAddUp, [Next]_vars PROVE Posted' /\ BooksAddUp'
<1> USE DEF unit, books, money
<1> DEFINE Kept == \A v \in Units : status[v] # "unborn" => status'[v] # "unborn" /\ parent'[v] = parent[v]
<1>1. ASSUME NEW u \in Units, NEW s \in {"killed", "expired"}, NEW why, NEW lost,
             Stop(u, s, why, lost), UNCHANGED parent
      PROVE  Kept
  BY <1>1 DEF Stop, Flip, Children, CascadeStatus, Closed
<1>2. ASSUME NEW u \in Units, NEW lost, Abandon(u, lost) PROVE Kept
  BY <1>2 DEF Abandon, Flip, Children, CascadeStatus, Closed
<1>3. CASE StartStep
  <2>1. ASSUME NEW u \in Units, Start(u) PROVE Kept /\ UNCHANGED <<books, charges>>
    <3>1. status[u] = "unborn"
      BY <2>1 DEF Start, IInv, Lifecycle
    <3> QED BY <2>1, <3>1 DEF Start, IInv, TypeOK
  <2>2. ASSUME NEW u \in Units, NEW p, NEW m, Admit(u, p, m) PROVE Kept /\ UNCHANGED <<books, charges>>
    BY <2>2 DEF Admit
  <2>3. ASSUME NEW u \in Units, Refuse(u) PROVE Kept /\ UNCHANGED <<books, charges>>
    BY <2>3 DEF Refuse
  <2>4. Kept /\ UNCHANGED <<books, charges>>
    BY <1>3, <2>1, <2>2, <2>3 DEF StartStep
  <2> QED BY <2>4, BooksFrame
<1>4. CASE ReportStep
  <2>1. ASSUME NEW k \in Postings, NEW lost \in BOOLEAN, ExecuteKill(k, lost)
        PROVE  Kept /\ UNCHANGED <<books, charges>>
    <3>1. Head(plan[k]) \in Units
      BY <2>1 DEF ExecuteKill, IInv, TypeOK
    <3>2. Stop(Head(plan[k]), "killed", "ceiling", lost) /\ UNCHANGED <<parent, books, charges>>
      BY <2>1 DEF ExecuteKill
    <3> QED BY <1>1, <3>1, <3>2
  <2>2. ASSUME NEW k \in Postings, KillsLost(k) PROVE Kept /\ UNCHANGED <<books, charges>>
    BY <2>2 DEF KillsLost
  <2>3. ASSUME NEW k \in Postings, NEW lost \in BOOLEAN, ExecuteKill(k, lost) PROVE Posted' /\ BooksAddUp'
    BY <2>1, <2>3, BooksFrame
  <2>4. ASSUME NEW k \in Postings, KillsLost(k) PROVE Posted' /\ BooksAddUp'
    BY <2>2, <2>4, BooksFrame
  <2>5. ASSUME NEW k \in Postings, settle_provider_cost(k) \/ resolve_customer_price(k)
        PROVE  Posted' /\ BooksAddUp'
    BY <2>5, SettleBooks DEF settle_provider_cost, resolve_customer_price, Sides
  <2> QED BY <1>4, <2>3, <2>4, <2>5, RecordBooks DEF ReportStep
<1>5. CASE CloseStep
  <2>1. ASSUME NEW u \in Units, Draw(u) PROVE Posted' /\ BooksAddUp'
    <3>1. Kept /\ UNCHANGED <<books, charges>>
      BY <2>1 DEF Draw
    <3> QED BY <3>1, BooksFrame
  <2> QED BY <1>5, <2>1, CloseBooks DEF CloseStep
<1>6. CASE SweepStep
  <2>1. ASSUME NEW u \in Units, NEW lost \in BOOLEAN, Reap(u, lost) \/ Patrol(u, lost) PROVE Kept
    BY <1>1, <2>1 DEF Reap, Patrol
  <2>2. ASSUME NEW u \in Units, Remint(u) \/ ReleaseLeftOpen(u) PROVE Kept
    BY <2>2 DEF Remint, ReleaseLeftOpen
  <2>3. ListStale \/ ListAbandoned \/ ListOver => Kept
    BY DEF ListStale, ListAbandoned, ListOver
  <2>4. Kept
    BY <1>2, <1>6, <2>1, <2>2, <2>3 DEF SweepStep
  <2>5. UNCHANGED <<books, charges>>
    BY <1>6 DEF SweepStep, ListStale, ListAbandoned, ListOver, Reap, Abandon, Patrol, Remint, ReleaseLeftOpen
  <2> QED BY <2>4, <2>5, BooksFrame
<1>7. CASE TimeStep \/ NewsStep \/ UNCHANGED vars
  <2>1. Kept /\ UNCHANGED <<books, charges>>
    BY <1>7 DEF TimeStep, NewsStep, Quiet, Deliver, DeadLetter, vars
  <2> QED BY <2>1, BooksFrame
<1> QED BY <1>3, <1>4, <1>5, <1>6, <1>7 DEF Next

\* A unit's totals are the sums of what it and its contained work were reported,
\* with the charge, and it counts exactly the reports whose amount is missing
\* (accumulate_cost, take_up_a_late_resolution, the close endpoint), in whatever
\* order starts, reports, settlements and ends come.
THEOREM UnitBooksAddUp == Spec => []BooksAddUp
<1>1. WorkAssumption /\ Init => Posted /\ BooksAddUp
  <2> SUFFICES ASSUME WorkAssumption, Init PROVE Posted /\ BooksAddUp
    OBVIOUS
  <2>1. \A k \in Postings : post[k] = NoPosting /\ post[k].unit = NoUnit
    BY DEF Init, NoPosting
  <2>2. \A u \in Units : Reports(u) = {}
    BY <2>1 DEF Reports
  <2>3. ASSUME NEW u \in Units, NEW side, NEW st PROVE In(u, side, st) = 0
    <3>1. {k \in Reports(u) : post[k][side] = st} = {}
      BY <2>2
    <3> QED BY <3>1, FS_EmptySet DEF In
  <2>4. \A u \in Units : charges[u] * Price = 0
    BY DEF Init, WorkAssumption
  <2> QED BY <2>1, <2>3, <2>4 DEF Posted, BooksAddUp, Init, Sides
<1>2. WorkAssumption /\ IInv /\ Posted /\ BooksAddUp /\ [Next]_vars => Posted' /\ BooksAddUp'
  BY BooksStep
<1> QED BY <1>1, <1>2, WorkInvariance, WorkAssumption, PTL DEF Spec
=============================================================================
