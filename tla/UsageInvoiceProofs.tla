------------------------- MODULE UsageInvoiceProofs -------------------------
(***************************************************************************)
(* For any number of months, lines, workers and faults: a row that says    *)
(* pushed has every line that reaches a minor unit on an invoice that is   *)
(* final or finalizes itself, and only a repush that read the row before   *)
(* takes a recorded month back.                                            *)
(*                                                                         *)
(* PushedIsBilled is not inductive.  The worker that writes it relied on   *)
(* what it saw at Stripe some steps earlier (Seen), and when it resumed an *)
(* invoice that was final already, on what the worker before it had pinned *)
(* there (Finals).  Both survive because Stripe's lines only grow, a final *)
(* invoice stays final, and the carry that decides which lines reach a     *)
(* minor unit is reserved once.                                            *)
(*                                                                         *)
(* Two more facts rest on it.  No micro is lost between the months: what   *)
(* they came to was billed, is in the ledger or is reserved by a row, up   *)
(* to the residuals of the months such a repush took back (Exact says how  *)
(* much those are).  And no line is billed on two invoices unless a worker *)
(* that had lost its claim wrote the pointer: before that, one invoice at  *)
(* a time may bill a month, and one worker holds it (OneBillers).          *)
(***************************************************************************)
EXTENDS UsageInvoice, Sums

Ours == {"standalone", "remainder"}

\* Every line of the month that reaches a minor unit is billed.
Billed(m) ==
    \A i \in CentLines(m) : \E k \in Invoices : i \in items[m][k] /\ (k = "renewal" \/ inv[m][k] = "final")

\* An invoice of ours was finalized with all that the renewal has not.
Finals ==
    \A m \in Months : \A k \in Ours : inv[m][k] = "final" =>
        carry[m] # None /\ CentLines(m) \subseteq items[m][k] \cup items[m]["renewal"]

\* The worker has an invoice that exists.
Target(w) == worker[w].at # None /\ inv[worker[w].on][worker[w].at] # "none"

\* A worker that has pinned its lines has billed them, and before that it has an
\* invoice.
Seen ==
    \A w \in Workers :
        /\ worker[w].step = "pinned" /\ worker[w].at # None => Billed(worker[w].on)
        /\ worker[w].step \in {"resolved", "pinning", "splitting"} => Target(w)
        /\ worker[w].step = "splitting" => worker[w].at \in Ours

Pushed == \A m \in Months : row[m] = "pushed" => Billed(m)

IInv == TypeOK /\ Finals /\ Seen /\ Pushed

\* What no step does: take a carry back, a line off an invoice, or an invoice
\* out of its final state.
Grows(m) ==
    /\ carry[m] # None => carry'[m] = carry[m]
    /\ \A k \in Invoices : /\ items[m][k] \subseteq items'[m][k]
                           /\ inv[m][k] = "final" => inv'[m][k] = "final"
                           /\ inv[m][k] # "none" => inv'[m][k] # "none"

LEMMA CentLinesKept ==
    ASSUME NEW m \in Months, carry'[m] = carry[m] PROVE CentLines(m)' = CentLines(m)
  BY DEF CentLines, Cents, Lines

LEMMA BilledKept ==
    ASSUME NEW m \in Months, carry[m] # None, Grows(m), Billed(m) PROVE Billed(m)'
  <1>1. CentLines(m)' = CentLines(m)
    BY CentLinesKept DEF Grows
  <1> QED BY <1>1 DEF Billed, Grows

\* A sum of amounts is an amount.
LEMMA TotalIsNat ==
    ASSUME NEW m \in Months PROVE Total(m) \in Nat
  <1>1. Micros[m] \in Seq(Nat)
    BY UsageInvoiceAssumption
  <1>2. Len(Micros[m]) \in Nat /\ \A i \in 1..Len(Micros[m]) : Micros[m][i] \in Nat
    BY <1>1
  <1>3. IsFiniteSet(1..Len(Micros[m]))
    BY <1>2, FS_Interval
  <1>4. SumFunctionOnSet(Micros[m], 1..Len(Micros[m])) \in Nat
    BY <1>2, <1>3, SumNat
  <1> QED BY <1>4 DEF Total, UpTo

LEMMA ResidualIsNat ==
    ASSUME NEW c \in Nat, NEW t \in Nat
    PROVE  (c + t) % Unit \in Nat /\ (c + t) \div Unit \in Nat
  BY UsageInvoiceAssumption

-----------------------------------------------------------------------------
(* The types, in three parts.                                               *)

Steps == {"claimed", "resolved", "pinning", "splitting", "pinned"}
Tasks == {Idle} \cup [step : Steps, on : Months, at : Invoices \cup {None}, lost : BOOLEAN]

RowsFit ==
    /\ row \in [Months -> Statuses] /\ attempts \in [Months -> Nat]
    /\ carry \in [Months -> Nat \cup {None}] /\ pointer \in [Months -> Invoices \cup {None}]
    /\ ledger \in Nat /\ billed \in [Months -> Nat]
    /\ \A m \in Months : row[m] \in {"pushing"} \cup Recorded => carry[m] # None

WorkersFit ==
    /\ worker \in [Workers -> Tasks]
    /\ \A w \in Workers : worker[w] # Idle => carry[worker[w].on] # None

StripeFits ==
    /\ inv \in [Months -> [Invoices -> {"none", "draft", "young", "aging", "final"}]]
    /\ items \in [Months -> [Invoices -> SUBSET Nat]]

OperatorFits == asked \subseteq Months /\ surplus \in Nat

OthersFit == ready \in BOOLEAN /\ stale \subseteq Months /\ left \in Nat /\ OperatorFits

LEMMA Types == TypeOK <=> RowsFit /\ WorkersFit /\ StripeFits /\ OthersFit
  BY DEF TypeOK, RowsFit, WorkersFit, StripeFits, OthersFit, OperatorFits, Tasks, Steps

LEMMA TypesNext ==
    ASSUME RowsFit', WorkersFit', StripeFits', OthersFit' PROVE TypeOK'
  BY DEF TypeOK, RowsFit, WorkersFit, StripeFits, OthersFit, OperatorFits, Tasks, Steps

\* A worker that works is on a month.
LEMMA OnMonth ==
    ASSUME TypeOK, NEW w \in Workers, worker[w].step \in Steps
    PROVE  /\ worker[w] # Idle /\ worker[w].on \in Months /\ carry[worker[w].on] \in Nat
           /\ worker[w].at \in Invoices \cup {None}
  <1>1. worker[w] \in [step : Steps, on : Months, at : Invoices \cup {None}, lost : BOOLEAN]
    BY Types DEF WorkersFit, Tasks, Idle, Steps
  <1>2. worker[w] # Idle
    BY DEF Idle, Steps
  <1> QED BY <1>1, <1>2, Types DEF WorkersFit, RowsFit

\* What a worker may turn to.
Turns(w) ==
    \/ /\ worker'[w].step = worker[w].step /\ worker'[w].on = worker[w].on /\ worker'[w].at = worker[w].at
    \/ worker'[w].step \in {"idle", "claimed"}
    \/ worker'[w].step \in {"resolved", "pinning"} /\ Target(w)'
    \/ worker'[w].step = "splitting" /\ worker'[w].at \in Ours /\ Target(w)'
    \/ worker'[w].step = "pinned" /\ (worker'[w].at = None \/ Billed(worker[w].on)')

\* A step that only adds keeps the invariant, if what it finalizes, finishes or
\* records is billed.
LEMMA Frame ==
    ASSUME IInv, TypeOK', \A m \in Months : Grows(m),
           \A m \in Months : \A k \in Ours : inv'[m][k] = "final" =>
               \/ inv[m][k] = "final"
               \/ carry[m] # None /\ CentLines(m) \subseteq items[m][k] \cup items[m]["renewal"],
           \A w \in Workers : Turns(w),
           \A m \in Months : row'[m] = "pushed" => row[m] = "pushed" \/ Billed(m)'
    PROVE  IInv'
<1>1. Finals'
  <2> SUFFICES ASSUME NEW m \in Months, NEW k \in Ours, inv'[m][k] = "final"
               PROVE  carry'[m] # None /\ CentLines(m)' \subseteq items'[m][k] \cup items'[m]["renewal"]
    BY DEF Finals
  <2>1. carry[m] # None /\ CentLines(m) \subseteq items[m][k] \cup items[m]["renewal"]
    BY DEF IInv, Finals
  <2>2. CentLines(m)' = CentLines(m) /\ carry'[m] = carry[m]
    BY <2>1, CentLinesKept DEF Grows
  <2>3. k \in Invoices /\ "renewal" \in Invoices
    BY DEF Ours, Invoices
  <2> QED BY <2>1, <2>2, <2>3 DEF Grows
<1>2. Seen'
  <2> SUFFICES ASSUME NEW w \in Workers
               PROVE  /\ worker'[w].step = "pinned" /\ worker'[w].at # None => Billed(worker[w].on)'
                      /\ worker'[w].step \in {"resolved", "pinning", "splitting"} => Target(w)'
                      /\ worker'[w].step = "splitting" => worker'[w].at \in Ours
    BY DEF Seen
  <2>1. CASE worker'[w].step = worker[w].step /\ worker'[w].on = worker[w].on /\ worker'[w].at = worker[w].at
    <3>1. ASSUME worker[w].step = "pinned", worker[w].at # None PROVE Billed(worker[w].on)'
      <4>1. worker[w].on \in Months /\ carry[worker[w].on] # None
        BY <3>1, OnMonth, Types, UsageInvoiceAssumption DEF IInv, Steps, WorkersFit
      <4>2. Billed(worker[w].on)
        BY <3>1 DEF IInv, Seen
      <4>3. PICK m \in Months : m = worker[w].on
        BY <4>1
      <4>4. Billed(m)'
        BY <4>1, <4>2, <4>3, BilledKept
      <4>5. worker'[w].on = m
        BY <2>1, <4>3
      <4> QED BY <4>4, <4>5 DEF Billed, CentLines, Lines
    <3>2. ASSUME worker[w].step \in {"resolved", "pinning", "splitting"} PROVE Target(w)'
      <4>1. worker[w].on \in Months /\ worker[w].at \in Invoices /\ Target(w)
        BY <3>2, OnMonth DEF IInv, Steps, Seen, Target
      <4>2. inv'[worker[w].on][worker[w].at] # "none"
        BY <4>1 DEF Grows, Target
      <4> QED BY <2>1, <4>1, <4>2 DEF Target
    <3> QED BY <2>1, <3>1, <3>2 DEF IInv, Seen
  <2> QED BY <2>1 DEF Turns
<1>3. Pushed'
  <2> SUFFICES ASSUME NEW m \in Months, row'[m] = "pushed" PROVE Billed(m)'
    BY DEF Pushed
  <2>1. CASE row[m] = "pushed"
    BY <2>1, BilledKept, Types DEF IInv, Pushed, RowsFit, Recorded
  <2> QED BY <2>1
<1> QED BY <1>1, <1>2, <1>3 DEF IInv

-----------------------------------------------------------------------------
LEMMA InitInv == Init => IInv
<1> SUFFICES ASSUME Init PROVE IInv
  OBVIOUS
<1>1. RowsFit /\ OthersFit
  BY UsageInvoiceAssumption DEF Init, RowsFit, OthersFit, OperatorFits, Statuses, Recorded
<1>2. WorkersFit
  BY DEF Init, WorkersFit, Tasks
<1>3. StripeFits /\ \A m \in Months : \A k \in Invoices : inv[m][k] # "final"
  BY DEF Init, StripeFits
<1>4. Finals /\ Seen /\ Pushed
  BY <1>3 DEF Init, Finals, Seen, Pushed, Idle, Ours, Invoices
<1> QED BY <1>1, <1>2, <1>3, <1>4, Types DEF IInv

\* Steps that touch neither Stripe nor a carry.
LEMMA QuietStep ==
    ASSUME IInv, TypeOK', UNCHANGED <<carry, inv, items>>, \A w \in Workers : Turns(w),
           \A m \in Months : row'[m] = "pushed" => row[m] = "pushed" \/ Billed(m)'
    PROVE  IInv'
<1>1. \A m \in Months : Grows(m)
  BY DEF Grows
<1> QED BY <1>1, Frame

LEMMA FaultIsNat == ASSUME left \in Nat, Fault \/ UNCHANGED left PROVE left' \in Nat
  BY DEF Fault

\* The claim of a row.
LEMMA ClaimStep ==
    ASSUME IInv, NEW w \in Workers, NEW m \in Months, Claim(w, m) PROVE IInv'
<1>0. RowsFit /\ WorkersFit /\ StripeFits /\ OthersFit
  BY Types DEF IInv
<1>1. CASE UNCHANGED <<attempts, carry, ledger, worker>>
  <2>1. PICK s \in {"failed_permanent", "empty", "skipped"} : row' = [row EXCEPT ![m] = s]
    BY <1>0, <1>1 DEF Claim, RowsFit, Claimable
  <2>2. RowsFit'
    BY <1>0, <1>1, <2>1 DEF Claim, RowsFit, Statuses, Recorded
  <2>3. TypeOK'
    BY <1>0, <1>1, <2>2, TypesNext DEF Claim, stripe, operator, WorkersFit, StripeFits, OthersFit, OperatorFits
  <2>4. \A v \in Workers : Turns(v)
    BY <1>1 DEF Turns
  <2>5. \A n \in Months : row'[n] = "pushed" => row[n] = "pushed"
    BY <1>0, <2>1 DEF RowsFit
  <2> QED BY <1>1, <2>3, <2>4, <2>5, QuietStep DEF Claim, stripe
<1>2. CASE /\ Reserve(m) /\ row' = [row EXCEPT ![m] = "pushing"]
           /\ attempts' = [attempts EXCEPT ![m] = @ + 1]
           /\ worker' = [v \in Workers |->
                IF v = w THEN [Idle EXCEPT !.step = "claimed", !.on = m]
                ELSE [worker[v] EXCEPT !.lost = @ \/ worker[v].on = m]]
  <2>1. /\ carry' \in [Months -> Nat \cup {None}] /\ ledger' \in Nat /\ carry'[m] # None
        /\ \A n \in Months : carry[n] # None => carry'[n] = carry[n]
    <3>1. CASE carry[m] # None
      BY <1>0, <1>2, <3>1 DEF Reserve, RowsFit
    <3>2. CASE carry[m] = None
      <4>1. carry' = [carry EXCEPT ![m] = ledger] /\ ledger' = 0
        BY <1>2, <3>2 DEF Reserve
      <4>2. carry \in [Months -> Nat \cup {None}] /\ ledger \in Nat /\ ledger # None
        BY <1>0, UsageInvoiceAssumption DEF RowsFit
      <4>3. carry'[m] = ledger /\ \A n \in Months : n # m => carry'[n] = carry[n]
        BY <4>1, <4>2
      <4>4. carry' \in [Months -> Nat \cup {None}]
        BY <4>1, <4>2
      <4>5. \A n \in Months : carry[n] # None => carry'[n] = carry[n]
        BY <3>2, <4>3
      <4> QED BY <4>1, <4>2, <4>3, <4>4, <4>5
    <3> QED BY <3>1, <3>2
  <2>2. RowsFit'
    <3>1. /\ row' \in [Months -> Statuses] /\ attempts' \in [Months -> Nat]
          /\ \A n \in Months : n # m => row'[n] = row[n]
      BY <1>0, <1>2 DEF RowsFit, Statuses
    <3>2. \A n \in Months : row'[n] \in {"pushing"} \cup Recorded => carry'[n] # None
      BY <1>0, <2>1, <3>1 DEF RowsFit
    <3> QED BY <1>0, <2>1, <3>1, <3>2 DEF Claim, RowsFit
  <2>3. WorkersFit'
    <3>1. ASSUME NEW v \in Workers, v # w
          PROVE  worker'[v] \in Tasks /\ (worker'[v] # Idle => carry'[worker'[v].on] # None)
      <4>1. CASE worker[v] = Idle
        <5>1. Idle.on # m /\ Idle.lost = FALSE
          BY UsageInvoiceAssumption DEF Idle
        <5>2. worker'[v] = Idle
          BY <1>2, <3>1, <4>1, <5>1 DEF Idle
        <5> QED BY <5>2 DEF Tasks
      <4>2. CASE worker[v] # Idle
        <5>1. /\ worker[v] \in [step : Steps, on : Months, at : Invoices \cup {None}, lost : BOOLEAN]
              /\ carry[worker[v].on] # None
          BY <1>0, <4>2 DEF WorkersFit, Tasks
        <5>2. /\ worker'[v] \in [step : Steps, on : Months, at : Invoices \cup {None}, lost : BOOLEAN]
              /\ worker'[v].on = worker[v].on
          BY <1>2, <3>1, <5>1
        <5> QED BY <2>1, <5>1, <5>2 DEF Tasks
      <4> QED BY <4>1, <4>2
    <3>2. worker'[w] = [step |-> "claimed", on |-> m, at |-> None, lost |-> FALSE]
      BY <1>2 DEF Idle
    <3>3. worker'[w] \in Tasks /\ carry'[worker'[w].on] # None
      BY <2>1, <3>2 DEF Tasks, Steps
    <3>4. worker' = [v \in Workers |-> worker'[v]]
      BY <1>2
    <3> QED BY <3>1, <3>3, <3>4 DEF WorkersFit
  <2>4. TypeOK'
    BY <1>0, <2>2, <2>3, TypesNext DEF Claim, stripe, operator, StripeFits, OthersFit, OperatorFits
  <2>5. \A n \in Months : Grows(n)
    BY <2>1 DEF Claim, stripe, Grows
  <2>6. \A v \in Workers : Turns(v)
    <3>1. worker'[w].step = "claimed"
      BY <1>2 DEF Idle
    <3>2. ASSUME NEW v \in Workers, v # w
          PROVE  /\ worker'[v].step = worker[v].step /\ worker'[v].on = worker[v].on
                 /\ worker'[v].at = worker[v].at
      BY <1>0, <1>2, <3>2 DEF WorkersFit, Tasks, Idle
    <3> QED BY <3>1, <3>2 DEF Turns
  <2>7. \A n \in Months : row'[n] = "pushed" => row[n] = "pushed"
    BY <1>0, <1>2 DEF RowsFit
  <2>8. inv' = inv
    BY DEF Claim, stripe
  <2> QED BY <2>4, <2>5, <2>6, <2>7, <2>8, Frame
<1> QED BY <1>1, <1>2 DEF Claim

-----------------------------------------------------------------------------
(* Steps of one worker: to x, with the carries as they are.                 *)

LEMMA WorkerTo ==
    ASSUME WorkersFit, NEW w \in Workers, NEW x \in Tasks, worker' = [worker EXCEPT ![w] = x],
           UNCHANGED carry, x # Idle => carry[x.on] # None
    PROVE  /\ WorkersFit' /\ worker'[w] = x
           /\ \A v \in Workers : v # w => worker'[v] = worker[v]
<1>1. worker' \in [Workers -> Tasks]
  BY DEF WorkersFit
<1>2. worker'[w] = x /\ \A v \in Workers : v # w => worker'[v] = worker[v]
  BY DEF WorkersFit
<1>3. \A v \in Workers : worker'[v] # Idle => carry'[worker'[v].on] # None
  BY <1>2 DEF WorkersFit
<1> QED BY <1>1, <1>2, <1>3 DEF WorkersFit

\* The worker drops what it was at.
LEMMA WorkerDrops ==
    ASSUME IInv, NEW w \in Workers, worker' = [worker EXCEPT ![w] = Idle], UNCHANGED carry
    PROVE  WorkersFit' /\ \A v \in Workers : Turns(v)
<1>1. Idle \in Tasks
  BY DEF Tasks
<1>2. WorkersFit' /\ worker'[w] = Idle /\ \A v \in Workers : v # w => worker'[v] = worker[v]
  BY <1>1, WorkerTo, Types DEF IInv
<1> QED BY <1>2 DEF Turns, Idle

\* The worker goes on with the month it is at.
LEMMA WorkerGoesOn ==
    ASSUME IInv, NEW w \in Workers, worker[w].step \in Steps, UNCHANGED carry,
           NEW s \in Steps, NEW t \in Invoices \cup {None},
           worker' = [worker EXCEPT ![w] = [worker[w] EXCEPT !.step = s, !.at = t]]
    PROVE  /\ WorkersFit' /\ worker'[w].step = s /\ worker'[w].at = t
           /\ worker'[w].on = worker[w].on /\ worker'[w].lost = worker[w].lost
           /\ \A v \in Workers : v # w => worker'[v] = worker[v]
<1> DEFINE x == [worker[w] EXCEPT !.step = s, !.at = t]
<1>1. /\ worker[w] \in [step : Steps, on : Months, at : Invoices \cup {None}, lost : BOOLEAN]
      /\ carry[worker[w].on] # None
  BY Types DEF IInv, WorkersFit, Tasks, Idle, Steps
<1>2. /\ x \in [step : Steps, on : Months, at : Invoices \cup {None}, lost : BOOLEAN]
      /\ x.step = s /\ x.at = t /\ x.on = worker[w].on /\ x.lost = worker[w].lost
  BY <1>1
<1>3. x \in Tasks /\ carry[x.on] # None
  BY <1>1, <1>2 DEF Tasks
<1> HIDE DEF x
<1>4. worker' = [worker EXCEPT ![w] = x]
  BY DEF x
<1>5. WorkersFit' /\ worker'[w] = x /\ \A v \in Workers : v # w => worker'[v] = worker[v]
  BY <1>3, <1>4, WorkerTo, Types DEF IInv
<1> QED BY <1>2, <1>5

\* An EXCEPT on the step alone, or on both fields, is such a move.
LEMMA MoveForms ==
    ASSUME IInv, NEW w \in Workers, worker[w].step \in Steps, NEW s \in Steps
    PROVE  /\ [worker EXCEPT ![w].step = s]
                = [worker EXCEPT ![w] = [worker[w] EXCEPT !.step = s, !.at = worker[w].at]]
           /\ \A t : [worker EXCEPT ![w].step = s, ![w].at = t]
                = [worker EXCEPT ![w] = [worker[w] EXCEPT !.step = s, !.at = t]]
<1>1. /\ worker[w] \in [step : Steps, on : Months, at : Invoices \cup {None}, lost : BOOLEAN]
      /\ worker \in [Workers -> Tasks]
  BY Types DEF IInv, WorkersFit, Tasks, Idle, Steps
<1>2. [worker[w] EXCEPT !.step = s] = [worker[w] EXCEPT !.step = s, !.at = worker[w].at]
  BY <1>1
<1> QED BY <1>1, <1>2

GoesTo(w, s, t) == worker' = [worker EXCEPT ![w].step = s, ![w].at = t]

LEMMA WorkerGoesTo ==
    ASSUME IInv, NEW w \in Workers, worker[w].step \in Steps, UNCHANGED carry,
           NEW s \in Steps, NEW t \in Invoices, GoesTo(w, s, t)
    PROVE  /\ WorkersFit' /\ worker'[w].step = s /\ worker'[w].at = t
           /\ worker'[w].on = worker[w].on /\ worker'[w].lost = worker[w].lost
           /\ \A v \in Workers : v # w => worker'[v] = worker[v]
<1>1. worker' = [worker EXCEPT ![w] = [worker[w] EXCEPT !.step = s, !.at = t]]
  BY MoveForms, Zenon DEF GoesTo
<1>2. t \in Invoices \cup {None}
  OBVIOUS
<1> QED BY <1>1, <1>2, WorkerGoesOn

-----------------------------------------------------------------------------
(* Steps that only move a row, or drop a worker.                            *)

LEMMA RowMoves ==
    ASSUME RowsFit, NEW m \in Months, NEW s \in Statuses \ ({"pushing"} \cup Recorded),
           row' = row \/ row' = [row EXCEPT ![m] = s], attempts' \in [Months -> Nat],
           UNCHANGED <<carry, pointer, ledger, billed>>
    PROVE  RowsFit' /\ \A n \in Months : row'[n] = "pushed" => row[n] = "pushed"
<1>1. \A n \in Months : row'[n] = row[n] \/ row'[n] = s
  BY DEF RowsFit
<1>2. row' \in [Months -> Statuses]
  BY DEF RowsFit
<1>3. s # "pushed" /\ s \notin {"pushing"} \cup Recorded
  BY DEF Recorded
<1>4. \A n \in Months : row'[n] \in {"pushing"} \cup Recorded => carry'[n] # None
  BY <1>1, <1>3 DEF RowsFit
<1> QED BY <1>1, <1>2, <1>3, <1>4 DEF RowsFit

LEMMA RowStep ==
    ASSUME IInv, NEW m \in Months,
           ClaimRaises(m) \/ Reclaim(m) \/ Recover(m) \/ RepushSave(m)
    PROVE  IInv'
<1>0. RowsFit /\ WorkersFit /\ StripeFits /\ OthersFit
  BY Types DEF IInv
<1>1. PICK s \in {"failed", "pending"} : row' = [row EXCEPT ![m] = s]
  BY DEF ClaimRaises, Reclaim, Recover, RepushSave
<1>2. attempts' \in [Months -> Nat]
  BY <1>0 DEF ClaimRaises, Reclaim, Recover, RepushSave, RowsFit
<1>3. UNCHANGED <<carry, pointer, ledger, billed, worker, inv, items, ready, stale>>
  BY DEF ClaimRaises, Reclaim, Recover, RepushSave, stripe
<1>4. left' \in Nat
  BY <1>0, FaultIsNat DEF ClaimRaises, Reclaim, Recover, RepushSave, OthersFit
<1>5. RowsFit' /\ \A n \in Months : row'[n] = "pushed" => row[n] = "pushed"
  BY <1>0, <1>1, <1>2, <1>3, RowMoves DEF Statuses, Recorded
<1>6. OperatorFits'
  <2>1. CASE UNCHANGED operator
    BY <1>0, <2>1 DEF OthersFit, OperatorFits, operator
  <2>2. CASE RepushSave(m)
    <3>1. row[m] \in Recorded => Residual(m) \in Nat
      BY <1>0, TotalIsNat, ResidualIsNat DEF RowsFit, Residual
    <3> QED BY <1>0, <2>2, <3>1 DEF RepushSave, OthersFit, OperatorFits
  <2> QED BY <2>1, <2>2 DEF ClaimRaises, Reclaim, Recover
<1>7. TypeOK'
  BY <1>0, <1>3, <1>4, <1>5, <1>6, TypesNext DEF WorkersFit, StripeFits, OthersFit
<1>8. \A w \in Workers : Turns(w)
  BY <1>3 DEF Turns
<1> QED BY <1>3, <1>5, <1>7, <1>8, QuietStep

\* The command reads a row.
LEMMA AskStep == ASSUME IInv, NEW m \in Months, RepushRead(m) PROVE IInv'
<1>0. RowsFit /\ WorkersFit /\ StripeFits /\ OthersFit
  BY Types DEF IInv
<1>1. UNCHANGED <<row, attempts, carry, pointer, ledger, billed, worker, inv, items, ready, surplus, stale>>
  BY DEF RepushRead, books, stripe
<1>2. left' \in Nat /\ asked' \subseteq Months
  BY <1>0, FaultIsNat DEF RepushRead, OthersFit, OperatorFits
<1>3. TypeOK'
  BY <1>0, <1>1, <1>2, TypesNext DEF RowsFit, WorkersFit, StripeFits, OthersFit, OperatorFits
<1>4. \A w \in Workers : Turns(w)
  BY <1>1 DEF Turns
<1> QED BY <1>1, <1>3, <1>4, QuietStep

LEMMA DropStep ==
    ASSUME IInv, NEW w \in Workers, WorkerDies(w) \/ \E fatal \in BOOLEAN : PushFails(w, fatal)
    PROVE  IInv'
<1>0. RowsFit /\ WorkersFit /\ StripeFits /\ OthersFit
  BY Types DEF IInv
<1>1. /\ worker' = [worker EXCEPT ![w] = Idle] /\ worker[w] # Idle /\ Fault
      /\ UNCHANGED <<attempts, carry, pointer, ledger, billed, inv, items, ready, stale>>
      /\ UNCHANGED operator
  BY DEF WorkerDies, PushFails, books, stripe
<1>2. WorkersFit' /\ \A v \in Workers : Turns(v)
  BY <1>1, WorkerDrops
<1>3. worker[w].on \in Months
  BY <1>0, <1>1 DEF WorkersFit, Tasks
<1>4. PICK s \in {"failed", "failed_permanent"} :
        row' = row \/ row' = [row EXCEPT ![worker[w].on] = s]
  BY DEF WorkerDies, PushFails, books, Mark
<1>5. attempts' \in [Months -> Nat]
  BY <1>0, <1>1 DEF RowsFit
<1>6. RowsFit' /\ \A n \in Months : row'[n] = "pushed" => row[n] = "pushed"
  BY <1>0, <1>1, <1>3, <1>4, <1>5, RowMoves DEF Statuses, Recorded
<1>7. left' \in Nat
  BY <1>0, <1>1, FaultIsNat DEF OthersFit
<1>8. TypeOK'
  BY <1>0, <1>1, <1>2, <1>6, <1>7, TypesNext DEF StripeFits, OthersFit, OperatorFits, operator
<1> QED BY <1>1, <1>2, <1>6, <1>8, QuietStep

LEMMA ReadyStep == ASSUME IInv, BecomeReady PROVE IInv'
<1>1. UNCHANGED <<row, attempts, carry, pointer, ledger, billed, worker, inv, items, asked, surplus, stale, left>>
  BY DEF BecomeReady, books, stripe, operator
<1>2. TypeOK'
  BY <1>1, Types, TypesNext DEF IInv, RowsFit, WorkersFit, StripeFits, OthersFit, OperatorFits, BecomeReady
<1>3. \A w \in Workers : Turns(w)
  BY <1>1 DEF Turns
<1> QED BY <1>1, <1>2, <1>3, QuietStep

\* Phase 2a.
LEMMA PersistStep == ASSUME IInv, NEW w \in Workers, Persist(w) PROVE IInv'
<1>0. RowsFit /\ WorkersFit /\ StripeFits /\ OthersFit
  BY Types DEF IInv
<1>1. /\ worker[w].step \in Steps /\ worker[w].on \in Months /\ worker[w].at \in Invoices
      /\ Target(w)
  BY OnMonth DEF Persist, Steps, IInv, Seen, Target
<1>2. UNCHANGED <<row, attempts, carry, ledger, billed, inv, items, ready, asked, surplus, left>>
  BY DEF Persist, stripe, operator
<1>3. RowsFit'
  <2>1. pointer' \in [Months -> Invoices \cup {None}]
    BY <1>0, <1>1 DEF Persist, RowsFit
  <2> QED BY <1>0, <1>2, <2>1 DEF RowsFit
<1>4. stale' \subseteq Months
  BY <1>0, <1>1 DEF Persist, OthersFit
<1>5. WorkersFit' /\ \A v \in Workers : Turns(v)
  <2>1. CASE worker' = [worker EXCEPT ![w] = Idle]
    BY <1>2, <2>1, WorkerDrops
  <2>2. CASE Step(w, "pinning")
    <3>1. worker' = [worker EXCEPT ![w] = [worker[w] EXCEPT !.step = "pinning", !.at = worker[w].at]]
      BY <1>1, <2>2, MoveForms DEF Step, Steps
    <3>2. /\ WorkersFit' /\ worker'[w].step = "pinning" /\ worker'[w].at = worker[w].at
          /\ worker'[w].on = worker[w].on
          /\ \A v \in Workers : v # w => worker'[v] = worker[v]
      BY <1>1, <1>2, <3>1, WorkerGoesOn DEF Steps
    <3> QED BY <1>1, <1>2, <3>2 DEF Turns, Target
  <2> QED BY <2>1, <2>2 DEF Persist
<1>6. TypeOK'
  BY <1>0, <1>2, <1>3, <1>4, <1>5, TypesNext DEF StripeFits, OthersFit, OperatorFits
<1> QED BY <1>2, <1>5, <1>6, QuietStep

\* Phase 3.
LEMMA RecordStep == ASSUME IInv, NEW w \in Workers, Record(w) PROVE IInv'
<1>0. RowsFit /\ WorkersFit /\ StripeFits /\ OthersFit
  BY Types DEF IInv
<1>1. /\ worker[w].step \in Steps /\ worker[w].on \in Months
      /\ worker[w].at \in Invoices \cup {None} /\ carry[worker[w].on] \in Nat
      /\ carry[worker[w].on] # None
  BY OnMonth, <1>0 DEF Record, Steps, IInv, WorkersFit
<1>2. UNCHANGED <<attempts, carry, inv, items, ready, asked, surplus, stale, left>>
  BY DEF Record, stripe, operator
<1>3. WorkersFit' /\ \A v \in Workers : Turns(v)
  BY <1>2, WorkerDrops DEF Record
<1>4. PICK m \in Months : m = worker[w].on
  BY <1>1
<1>5. RowsFit' /\ \A n \in Months : row'[n] = "pushed" => row[n] = "pushed" \/ Billed(n)'
  <2>1. CASE row[m] # "pushing"
    BY <1>0, <1>2, <1>4, <2>1 DEF Record, RowsFit
  <2>2. CASE row[m] = "pushing"
    <3>1. PICK s \in Recorded : /\ row' = [row EXCEPT ![m] = s]
                                /\ s = "pushed" => worker[w].at # None
      BY <1>4, <2>2 DEF Record, Recorded
    <3>2. /\ row' \in [Months -> Statuses] /\ \A n \in Months : n # m => row'[n] = row[n]
          /\ row'[m] = s
      BY <1>0, <3>1 DEF RowsFit, Statuses
    <3>3. pointer' \in [Months -> Invoices \cup {None}]
      BY <1>0, <1>1, <1>4, <2>2 DEF Record, RowsFit
    <3>4. /\ Residual(m) \in Nat /\ (carry[m] + Total(m)) \div Unit \in Nat
      BY <1>1, <1>4, TotalIsNat, ResidualIsNat DEF Residual
    <3>5. ledger' \in Nat /\ billed' \in [Months -> Nat]
      BY <1>0, <1>4, <2>2, <3>4 DEF Record, RowsFit
    <3>6. \A n \in Months : row'[n] \in {"pushing"} \cup Recorded => carry'[n] # None
      BY <1>0, <1>1, <1>2, <1>4, <3>2 DEF RowsFit
    <3>7. RowsFit'
      BY <1>0, <1>2, <3>2, <3>3, <3>5, <3>6 DEF RowsFit
    <3>8. ASSUME s = "pushed" PROVE Billed(m)'
      <4>1. Billed(m)
        BY <1>4, <3>1, <3>8 DEF Record, IInv, Seen
      <4>2. Grows(m)
        BY <1>2 DEF Grows
      <4> QED BY <1>1, <1>4, <4>1, <4>2, BilledKept
    <3> QED BY <3>2, <3>7, <3>8
  <2> QED BY <2>1, <2>2
<1>6. TypeOK'
  BY <1>0, <1>2, <1>3, <1>5, TypesNext DEF StripeFits, OthersFit, OperatorFits
<1> QED BY <1>2, <1>3, <1>5, <1>6, QuietStep

-----------------------------------------------------------------------------
(* Steps at Stripe.                                                         *)

LEMMA RenewalStep == ASSUME IInv, NEW m \in Months, RenewalMoves(m) PROVE IInv'
<1>0. RowsFit /\ WorkersFit /\ StripeFits /\ OthersFit
  BY Types DEF IInv
<1>1. UNCHANGED <<row, attempts, carry, pointer, ledger, billed, worker, items, ready, asked, surplus, stale,
                 left>>
  BY DEF RenewalMoves, books, operator
<1>2. PICK s \in {"aging", "final"} : /\ inv' = [inv EXCEPT ![m]["renewal"] = s]
                                      /\ inv[m]["renewal"] \in {"young", "aging"}
  BY DEF RenewalMoves
<1>3. /\ StripeFits' /\ \A n \in Months : Grows(n)
      /\ \A n \in Months : \A j \in Invoices : inv'[n][j] = inv[n][j] \/ j = "renewal"
  <2>1. StripeFits'
    BY <1>0, <1>1, <1>2 DEF StripeFits
  <2>2. \A n \in Months : \A j \in Invoices :
          inv'[n][j] = IF n = m /\ j = "renewal" THEN s ELSE inv[n][j]
    BY <1>0, <1>2 DEF StripeFits
  <2>3. ASSUME NEW n \in Months PROVE Grows(n)
    BY <1>1, <1>2, <2>2 DEF Grows
  <2> QED BY <2>1, <2>2, <2>3
<1>4. TypeOK'
  BY <1>0, <1>1, <1>3, TypesNext DEF RowsFit, WorkersFit, OthersFit, OperatorFits
<1>5. \A w \in Workers : Turns(w)
  BY <1>1 DEF Turns
<1>6. \A n \in Months : \A k \in Ours : inv'[n][k] = "final" => inv[n][k] = "final"
  BY <1>3 DEF Ours, Invoices
<1> QED BY <1>1, <1>3, <1>4, <1>5, <1>6, Frame

\* The worker goes to an invoice, which is created when there is none.
LEMMA TargetStep ==
    ASSUME IInv, NEW w \in Workers, worker[w].step \in Steps, NEW s \in {"resolved", "splitting"},
           NEW t \in Invoices, s = "splitting" => t \in Ours,
           worker' = [worker EXCEPT ![w].step = s, ![w].at = t],
           inv' = IF inv[worker[w].on][t] = "none" THEN [inv EXCEPT ![worker[w].on][t] = "draft"] ELSE inv,
           UNCHANGED <<books, items, ready, operator, stale, left>>
    PROVE  IInv'
<1>0. RowsFit /\ WorkersFit /\ StripeFits /\ OthersFit
  BY Types DEF IInv
<1>1. worker[w].on \in Months /\ t # None
  BY OnMonth, UsageInvoiceAssumption DEF IInv, Invoices
<1>2. UNCHANGED <<row, attempts, carry, pointer, ledger, billed, asked, surplus>>
  BY DEF books, operator
<1>3. s \in Steps /\ UNCHANGED carry /\ GoesTo(w, s, t)
  BY <1>2 DEF Steps, GoesTo
<1>4. /\ WorkersFit' /\ worker'[w].step = s /\ worker'[w].at = t /\ worker'[w].on = worker[w].on
      /\ \A v \in Workers : v # w => worker'[v] = worker[v]
  BY <1>3, WorkerGoesTo
<1>5. PICK m \in Months : m = worker[w].on
  BY <1>1
<1>6. inv' = IF inv[m][t] = "none" THEN [inv EXCEPT ![m][t] = "draft"] ELSE inv
  BY <1>5
<1>7. /\ StripeFits' /\ \A n \in Months : Grows(n)
      /\ \A n \in Months : \A j \in Invoices : inv'[n][j] = inv[n][j] \/ inv'[n][j] = "draft"
  <2>1. CASE inv[m][t] = "none"
    <3>1. StripeFits'
      BY <1>0, <1>2, <1>6, <2>1 DEF StripeFits
    <3>2. \A n \in Months : \A j \in Invoices :
            inv'[n][j] = IF n = m /\ j = t THEN "draft" ELSE inv[n][j]
      BY <1>0, <1>6, <2>1 DEF StripeFits
    <3>3. ASSUME NEW n \in Months PROVE Grows(n)
      BY <1>2, <2>1, <3>2 DEF Grows
    <3> QED BY <3>1, <3>2, <3>3
  <2>2. CASE inv[m][t] # "none"
    BY <1>0, <1>2, <1>6, <2>2 DEF StripeFits, Grows
  <2> QED BY <2>1, <2>2
<1>8. inv'[m][t] # "none"
  BY <1>0, <1>6 DEF StripeFits
<1>9. TypeOK'
  BY <1>0, <1>2, <1>4, <1>7, TypesNext DEF RowsFit, OthersFit, OperatorFits
<1>10. Turns(w)
  BY <1>1, <1>4, <1>5, <1>8 DEF Turns, Target
<1>11. \A v \in Workers : Turns(v)
  BY <1>4, <1>10 DEF Turns
<1>12. \A n \in Months : \A k \in Ours : inv'[n][k] = "final" => inv[n][k] = "final"
  BY <1>7 DEF Ours, Invoices
<1> QED BY <1>2, <1>7, <1>9, <1>11, <1>12, Frame

LEMMA ResolveStep == ASSUME IInv, NEW w \in Workers, Resolve(w) PROVE IInv'
<1>0. RowsFit /\ WorkersFit /\ StripeFits /\ OthersFit
  BY Types DEF IInv
<1>1. worker[w].step \in Steps /\ worker[w].on \in Months /\ worker[w].at \in Invoices \cup {None}
  BY OnMonth DEF Resolve, Steps, IInv
<1>2. CASE CentLines(worker[w].on) = {}
  <2>1. UNCHANGED <<row, attempts, carry, pointer, ledger, billed, inv, items, ready, asked, surplus,
                   stale, left>>
    BY <1>2 DEF Resolve, books, operator
  <2>2. worker' = [worker EXCEPT ![w] = [worker[w] EXCEPT !.step = "pinned", !.at = worker[w].at]]
    BY <1>1, <1>2, MoveForms DEF Resolve, Step, Steps
  <2>3. /\ WorkersFit' /\ worker'[w].step = "pinned" /\ worker'[w].on = worker[w].on
        /\ \A v \in Workers : v # w => worker'[v] = worker[v]
    BY <1>1, <2>1, <2>2, WorkerGoesOn DEF Steps
  <2>4. PICK m \in Months : m = worker[w].on
    BY <1>1
  <2>5. CentLines(m)' = {}
    BY <1>2, <2>1, <2>4, CentLinesKept
  <2>6. worker'[w].on = m
    BY <2>3, <2>4
  <2>7. Billed(worker[w].on)'
    BY <2>5, <2>6 DEF Billed
  <2>8. \A v \in Workers : Turns(v)
    BY <2>3, <2>7 DEF Turns
  <2>9. TypeOK'
    BY <1>0, <2>1, <2>3, TypesNext DEF RowsFit, StripeFits, OthersFit, OperatorFits
  <2> QED BY <2>1, <2>8, <2>9, QuietStep
<1>3. CASE CentLines(worker[w].on) # {}
  <2>1. PICK t \in Targets(worker[w].on) :
          /\ worker' = [worker EXCEPT ![w].step = "resolved", ![w].at = t]
          /\ inv' = IF inv[worker[w].on][t] = "none"
                    THEN [inv EXCEPT ![worker[w].on][t] = "draft"] ELSE inv
    BY <1>3 DEF Resolve
  <2>2. t \in Invoices
    BY <1>0, <1>1, <2>1 DEF Targets, Found, RowsFit, Invoices
  <2>3. UNCHANGED <<books, items, ready, operator, stale, left>>
    BY DEF Resolve
  <2> QED BY <1>1, <2>1, <2>2, <2>3, TargetStep
<1> QED BY <1>2, <1>3

LEMMA SplitStep == ASSUME IInv, NEW w \in Workers, Split(w) PROVE IInv'
<1>1. worker[w].step \in Steps
  BY DEF Split, Steps
<1>2. PICK t \in {"remainder"} \cup Found(worker[w].on) :
        /\ worker' = [worker EXCEPT ![w].step = "splitting", ![w].at = t]
        /\ inv' = IF inv[worker[w].on][t] = "none"
                  THEN [inv EXCEPT ![worker[w].on][t] = "draft"] ELSE inv
  BY DEF Split
<1>3. t \in Ours /\ t \in Invoices
  BY <1>2 DEF Found, Ours, Invoices
<1>4. UNCHANGED <<books, items, ready, operator, stale, left>>
  BY DEF Split
<1> QED BY <1>1, <1>2, <1>3, <1>4, TargetStep

LEMMA PinStep ==
    ASSUME IInv, NEW w \in Workers, NEW m \in Months, NEW i \in Lines(m), worker[w].on = m, Pin(w, i)
    PROVE  IInv'
<1>0. RowsFit /\ WorkersFit /\ StripeFits /\ OthersFit
  BY Types DEF IInv
<1>1. UNCHANGED <<row, attempts, carry, pointer, ledger, billed, worker, inv, ready, asked, surplus, stale,
                 left>>
  BY DEF Pin, books, operator
<1>2. PICK t \in Invoices : t = worker[w].at
  BY OnMonth DEF Pin, Steps, IInv, Seen, Target
<1>3. i \in Nat
  BY UsageInvoiceAssumption DEF Lines
<1>4. items' = [items EXCEPT ![m][t] = @ \cup {i}]
  BY <1>2 DEF Pin
<1>5. StripeFits'
  BY <1>0, <1>1, <1>3, <1>4 DEF StripeFits
<1>6. \A n \in Months : \A k \in Invoices : items[n][k] \subseteq items'[n][k]
  BY <1>0, <1>4 DEF StripeFits
<1>7. \A n \in Months : Grows(n)
  BY <1>1, <1>6 DEF Grows
<1>8. TypeOK'
  BY <1>0, <1>1, <1>5, TypesNext DEF RowsFit, WorkersFit, OthersFit, OperatorFits
<1>9. \A v \in Workers : Turns(v)
  BY <1>1 DEF Turns
<1> QED BY <1>1, <1>7, <1>8, <1>9, Frame

LEMMA FinalizeStep == ASSUME IInv, NEW w \in Workers, Finalize(w) PROVE IInv'
<1>0. RowsFit /\ WorkersFit /\ StripeFits /\ OthersFit
  BY Types DEF IInv
<1>1. UNCHANGED <<row, attempts, carry, pointer, ledger, billed, items, ready, asked, surplus, stale, left>>
  BY DEF Finalize, books, operator
<1>2. /\ worker[w].step \in {"pinning", "splitting"} /\ worker[w].step \in Steps
      /\ worker[w].on \in Months /\ worker[w].at \in Invoices /\ Target(w)
      /\ worker[w].step = "splitting" => worker[w].at \in Ours
      /\ carry[worker[w].on] # None
  BY <1>0, OnMonth DEF Finalize, Steps, IInv, Seen, Target, WorkersFit
<1>3. PICK m \in Months : m = worker[w].on
  BY <1>2
<1>4. PICK t \in Invoices : t = worker[w].at
  BY <1>2
<1>5. inv' = IF t = "renewal" THEN inv ELSE [inv EXCEPT ![m][t] = "final"]
  BY <1>3, <1>4 DEF Finalize
<1>6. worker' = [worker EXCEPT ![w] = [worker[w] EXCEPT !.step = "pinned", !.at = t]]
  BY <1>2, <1>4, MoveForms DEF Finalize, Step, Steps
<1>7. /\ WorkersFit' /\ worker'[w].step = "pinned" /\ worker'[w].on = worker[w].on
      /\ \A v \in Workers : v # w => worker'[v] = worker[v]
  BY <1>1, <1>2, <1>6, WorkerGoesOn DEF Steps
<1>8. StripeFits'
  BY <1>0, <1>1, <1>5 DEF StripeFits
<1>9. \A n \in Months : \A j \in Invoices :
        inv'[n][j] = IF n = m /\ j = t /\ t # "renewal" THEN "final" ELSE inv[n][j]
  BY <1>0, <1>5 DEF StripeFits
<1>10. \A n \in Months : Grows(n)
  <2>1. ASSUME NEW n \in Months PROVE Grows(n)
    BY <1>1, <1>9 DEF Grows
  <2> QED BY <2>1
<1>11. CentLines(m) \subseteq items[m][t] \cup items[m]["renewal"]
  <2>1. CASE Missing(w) = {}
    BY <1>3, <1>4, <2>1 DEF Missing, Wanted
  <2>2. CASE t # "renewal" /\ ~Draft(m, t)
    <3>1. inv[m][t] = "final"
      BY <1>0, <1>2, <1>3, <1>4, <2>2 DEF Draft, StripeFits, Target
    <3>2. t \in Ours
      BY <2>2 DEF Ours, Invoices
    <3> QED BY <3>1, <3>2 DEF IInv, Finals
  <2> QED BY <1>3, <1>4, <2>1, <2>2 DEF Finalize
<1>12. Billed(m)'
  <2>1. CentLines(m)' = CentLines(m)
    BY <1>1, CentLinesKept
  <2>2. "renewal" \in Invoices /\ (t = "renewal" \/ inv'[m][t] = "final")
    BY <1>9 DEF Invoices
  <2> QED BY <1>1, <1>11, <2>1, <2>2 DEF Billed
<1>13. Billed(worker[w].on)'
  <2>1. worker'[w].on = m
    BY <1>3, <1>7
  <2> QED BY <1>12, <2>1 DEF Billed, CentLines, Lines
<1>14. \A v \in Workers : Turns(v)
  BY <1>7, <1>13 DEF Turns
<1>15. TypeOK'
  BY <1>0, <1>1, <1>7, <1>8, TypesNext DEF RowsFit, OthersFit, OperatorFits
<1>16. \A n \in Months : \A k \in Ours : inv'[n][k] = "final" =>
         \/ inv[n][k] = "final"
         \/ carry[n] # None /\ CentLines(n) \subseteq items[n][k] \cup items[n]["renewal"]
  <2> SUFFICES ASSUME NEW n \in Months, NEW k \in Ours, inv'[n][k] = "final", inv[n][k] # "final"
               PROVE  carry[n] # None /\ CentLines(n) \subseteq items[n][k] \cup items[n]["renewal"]
    OBVIOUS
  <2>1. k \in Invoices
    BY DEF Ours, Invoices
  <2>2. n = m /\ k = t
    BY <1>9, <2>1
  <2> QED BY <1>2, <1>3, <1>11, <2>2
<1> QED BY <1>1, <1>10, <1>14, <1>15, <1>16, Frame

-----------------------------------------------------------------------------
LEMMA StepInv == IInv /\ [Next]_vars => IInv'
<1> SUFFICES ASSUME IInv, [Next]_vars PROVE IInv'
  OBVIOUS
<1>1. CASE UNCHANGED vars
  <2>1. UNCHANGED <<row, attempts, carry, pointer, ledger, billed, worker, inv, items, ready, asked,
                   surplus, stale, left>>
    BY <1>1 DEF vars, books, stripe, operator
  <2>2. TypeOK'
    BY <2>1 DEF IInv, TypeOK
  <2>3. \A w \in Workers : Turns(w)
    BY <2>1 DEF Turns
  <2> QED BY <2>1, <2>2, <2>3, QuietStep
<1>2. ASSUME NEW w \in Workers,
             \/ Resolve(w) \/ Persist(w) \/ Split(w) \/ Finalize(w) \/ Record(w)
             \/ \E fatal \in BOOLEAN : PushFails(w, fatal)
             \/ WorkerDies(w)
      PROVE  IInv'
  BY <1>2, ResolveStep, PersistStep, SplitStep, FinalizeStep, RecordStep, DropStep
<1>3. ASSUME NEW m \in Months, NEW w \in Workers,
             Claim(w, m) \/ (\E i \in Lines(m) : worker[w].on = m /\ Pin(w, i))
      PROVE  IInv'
  BY <1>3, ClaimStep, PinStep
<1>4. ASSUME NEW m \in Months,
             \/ ClaimRaises(m) \/ Reclaim(m) \/ Recover(m) \/ RenewalMoves(m)
             \/ RepushRead(m) \/ RepushSave(m)
      PROVE  IInv'
  BY <1>4, RowStep, AskStep, RenewalStep
<1>5. CASE BecomeReady
  BY <1>5, ReadyStep
<1> QED BY <1>1, <1>2, <1>3, <1>4, <1>5 DEF Next

\* The inductive invariant holds in every state of the push.
THEOREM UsageInvoiceInvariance == Spec => []IInv
  BY InitInv, StepInv, PTL DEF Spec

\* Rows, workers, invoices and the ledger keep their types; a row that was ever
\* claimed keeps its carry (take-and-zero in Stage 2 happens once).
THEOREM UsageInvoiceTypeCorrect == Spec => []TypeOK
<1>1. IInv => TypeOK
  BY DEF IInv
<1> QED BY <1>1, UsageInvoiceInvariance, PTL

\* A row that Phase 3 recorded as pushed has every line that reaches a minor unit
\* on an invoice that is final or finalizes itself.
THEOREM PushedRowsAreBilled == Spec => []PushedIsBilled
<1>1. IInv => PushedIsBilled
  BY DEF IInv, Pushed, Billed, PushedIsBilled, OnInvoices
<1> QED BY <1>1, UsageInvoiceInvariance, PTL

\* Nobody takes a recorded month back, since Stage 2, Phase 3, a failure and the
\* hourly pass test the row's status under its lock.  The operator's command
\* does not: it takes back a month it read before that was recorded.  What was
\* billed for the month stays.
THEOREM RecordedMonthsStay == Spec => RecordedIsFinal
<1>1. IInv /\ [Next]_vars =>
        [\A m \in Months : row[m] \in Recorded =>
           billed'[m] = billed[m] /\ (row'[m] = row[m] \/ m \in asked \ asked')]_vars
  <2> SUFFICES ASSUME IInv, Next, NEW m \in Months, row[m] \in Recorded
               PROVE  billed'[m] = billed[m] /\ (row'[m] = row[m] \/ m \in asked \ asked')
    OBVIOUS
  <2>0. row \in [Months -> Statuses] /\ billed \in [Months -> Nat] /\ row[m] \in {"pushed", "below"}
    BY DEF IInv, TypeOK, Recorded
  <2>1. ASSUME NEW w \in Workers, Resolve(w) \/ Persist(w) \/ Split(w) \/ Finalize(w) \/ WorkerDies(w)
        PROVE  row'[m] = row[m] /\ billed'[m] = billed[m]
    BY <2>1 DEF Resolve, Persist, Split, Finalize, WorkerDies, books
  <2>2. ASSUME NEW w \in Workers, Record(w) PROVE row'[m] = row[m] /\ billed'[m] = billed[m]
    BY <2>0, <2>2 DEF Record
  <2>3. ASSUME NEW w \in Workers, NEW fatal \in BOOLEAN, PushFails(w, fatal)
        PROVE  row'[m] = row[m] /\ billed'[m] = billed[m]
    BY <2>0, <2>3 DEF PushFails, Mark
  <2>4. ASSUME NEW n \in Months, NEW w \in Workers, Claim(w, n)
        PROVE  row'[m] = row[m] /\ billed'[m] = billed[m]
    BY <2>0, <2>4 DEF Claim, Claimable
  <2>5. ASSUME NEW w \in Workers, NEW i, Pin(w, i) PROVE row'[m] = row[m] /\ billed'[m] = billed[m]
    BY <2>5 DEF Pin, books
  <2>6. ASSUME NEW n \in Months, ClaimRaises(n) \/ Reclaim(n) \/ Recover(n) \/ RepushRead(n)
        PROVE  row'[m] = row[m] /\ billed'[m] = billed[m]
    BY <2>0, <2>6 DEF ClaimRaises, Reclaim, Recover, RepushRead, books
  <2>7. ASSUME NEW n \in Months, RepushSave(n)
        PROVE  billed'[m] = billed[m] /\ (row'[m] = row[m] \/ m \in asked \ asked')
    <3>1. CASE n = m
      BY <2>7, <3>1 DEF RepushSave
    <3>2. CASE n # m
      BY <2>0, <2>7, <3>2 DEF RepushSave
    <3> QED BY <3>1, <3>2
  <2>8. ASSUME NEW n \in Months, RenewalMoves(n) PROVE row'[m] = row[m] /\ billed'[m] = billed[m]
    BY <2>8 DEF RenewalMoves, books
  <2>9. CASE BecomeReady
    BY <2>9 DEF BecomeReady, books
  <2> QED BY <2>1, <2>2, <2>3, <2>4, <2>5, <2>6, <2>7, <2>8, <2>9 DEF Next
<1> QED BY <1>1, UsageInvoiceInvariance, PTL DEF Spec, RecordedIsFinal

-----------------------------------------------------------------------------
(***************************************************************************)
(* Not a micro is lost.  A claim moves the ledger into the row's carry, a  *)
(* record splits carry and usage into minor units and a residual for the   *)
(* ledger.  A repush that takes a recorded month back leaves its residual  *)
(* in the ledger and its carry with the row: that residual is in excess.   *)
(***************************************************************************)

Totals == [m \in Months |-> Total(m)]
Done == {m \in Months : row[m] \in Recorded}
Held == {m \in Months \ Done : carry[m] # None}

LEMMA ConservedIs ==
    ResidualConserved <=> SumFunctionOnSet(Totals, Done) + surplus
        = Unit * SumFunctionOnSet(billed, Done) + ledger + SumFunctionOnSet(carry, Held)
  BY DEF ResidualConserved, Totals, Done, Held

LEMMA ConservedNext ==
    ASSUME SumFunctionOnSet(Totals, Done') + surplus'
             = Unit * SumFunctionOnSet(billed', Done') + ledger' + SumFunctionOnSet(carry', Held')
    PROVE  ResidualConserved'
  BY DEF ResidualConserved, Totals, Done, Held, Total, UpTo

\* The sets are finite, and what is summed over them are numbers.
LEMMA MoneyIsNumbers ==
    ASSUME TypeOK
    PROVE  /\ IsFiniteSet(Done) /\ IsFiniteSet(Held)
           /\ \A m \in Months : Totals[m] \in Nat /\ billed[m] \in Nat
           /\ \A m \in Held : carry[m] \in Nat
           /\ SumFunctionOnSet(Totals, Done) \in Nat /\ SumFunctionOnSet(billed, Done) \in Nat
           /\ SumFunctionOnSet(carry, Held) \in Nat /\ ledger \in Nat /\ surplus \in Nat
  <1>1. IsFiniteSet(Done) /\ IsFiniteSet(Held)
    BY FS_Subset, UsageInvoiceAssumption DEF Done, Held
  <1>2. \A m \in Months : Totals[m] \in Nat /\ billed[m] \in Nat
    BY TotalIsNat, Types DEF Totals, RowsFit
  <1>3. \A m \in Held : carry[m] \in Nat
    BY Types DEF Held, RowsFit
  <1>4. \A m \in Done : Totals[m] \in Nat /\ billed[m] \in Nat
    BY <1>2 DEF Done
  <1>5. SumFunctionOnSet(Totals, Done) \in Nat /\ SumFunctionOnSet(billed, Done) \in Nat
    BY <1>1, <1>4, SumNat
  <1>6. SumFunctionOnSet(carry, Held) \in Nat
    BY <1>1, <1>3, SumNat
  <1> QED BY <1>1, <1>2, <1>3, <1>5, <1>6, Types DEF RowsFit, OthersFit, OperatorFits

\* A step that moves rows other than to or from recorded moves no money.
LEMMA NothingDeposited ==
    ASSUME TypeOK, ResidualConserved, UNCHANGED <<carry, ledger, billed, surplus>>,
           \A m \in Months : row'[m] \in Recorded <=> row[m] \in Recorded
    PROVE  ResidualConserved'
  <1>1. Done' = Done
    BY DEF Done
  <1>2. Held' = Held
    BY <1>1 DEF Held
  <1> QED BY <1>1, <1>2, ConservedIs, ConservedNext

\* The carry is taken from the ledger.
LEMMA ClaimConserves ==
    ASSUME TypeOK, ResidualConserved, NEW m \in Months, Reserve(m), row[m] \notin Recorded,
           row' = [row EXCEPT ![m] = "pushing"], UNCHANGED <<billed, surplus>>
    PROVE  ResidualConserved'
  <1>0. row \in [Months -> Statuses] /\ carry \in [Months -> Nat \cup {None}]
    BY Types DEF RowsFit
  <1>1. \A n \in Months : row'[n] \in Recorded <=> row[n] \in Recorded
    BY <1>0 DEF Recorded
  <1>2. CASE carry[m] # None
    BY <1>1, <1>2, NothingDeposited DEF Reserve
  <1>3. CASE carry[m] = None
    <2>1. Done' = Done
      BY <1>1 DEF Done
    <2>2. carry' = [carry EXCEPT ![m] = ledger] /\ ledger' = 0
      BY <1>3 DEF Reserve
    <2>3. ledger \in Nat /\ ledger # None
      BY MoneyIsNumbers, UsageInvoiceAssumption
    <2>4. m \notin Held /\ Held' = Held \cup {m}
      BY <1>0, <1>3, <2>1, <2>2, <2>3 DEF Held, Done
    <2>5. /\ \A n \in Held : carry'[n] = carry[n] /\ carry[n] \in Int
          /\ carry'[m] = ledger /\ \A n \in Held \cup {m} : carry'[n] \in Int
      BY <1>0, <2>2, <2>3, <2>4, MoneyIsNumbers DEF Held
    <2>6. SumFunctionOnSet(carry', Held \cup {m}) = SumFunctionOnSet(carry', Held) + carry'[m]
      BY <2>4, <2>5, MoneyIsNumbers, SumAdds
    <2>7. SumFunctionOnSet(carry', Held) = SumFunctionOnSet(carry, Held)
      BY <2>5, MoneyIsNumbers, SumSame
    <2>8. SumFunctionOnSet(carry', Held') = SumFunctionOnSet(carry, Held) + ledger
      BY <2>4, <2>5, <2>6, <2>7
    <2>9. SumFunctionOnSet(Totals, Done) + surplus
            = Unit * SumFunctionOnSet(billed, Done) + ledger' + SumFunctionOnSet(carry', Held')
      <3> DEFINE a == SumFunctionOnSet(Totals, Done)
                 b == Unit * SumFunctionOnSet(billed, Done)
                 c == SumFunctionOnSet(carry, Held)
                 d == SumFunctionOnSet(carry', Held')
      <3>1. a + surplus = b + ledger + c /\ d = c + ledger /\ ledger' = 0
        BY <2>2, <2>8, ConservedIs
      <3>2. a \in Int /\ b \in Int /\ c \in Int /\ ledger \in Int /\ surplus \in Int
        BY MoneyIsNumbers, UsageInvoiceAssumption
      <3> HIDE DEF a, b, c, d
      <3>3. a + surplus = b + ledger' + d
        BY <3>1, <3>2
      <3> QED BY <3>3 DEF a, b, d
    <2> QED BY <2>1, <2>9, ConservedNext
  <1> QED BY <1>2, <1>3

\* Minor units and residual make up the amount.
LEMMA Divided ==
    ASSUME NEW a \in Nat PROVE a = Unit * (a \div Unit) + (a % Unit)
  BY UsageInvoiceAssumption

\* A record moves the month from what is reserved to what is billed.
LEMMA RecordConserves ==
    ASSUME IInv, ResidualConserved, NEW w \in Workers, Record(w) PROVE ResidualConserved'
  <1>0. TypeOK /\ RowsFit
    BY Types DEF IInv
  <1>1. PICK m \in Months : m = worker[w].on /\ carry[m] \in Nat /\ carry[m] # None
    BY OnMonth, Types, <1>0 DEF Record, Steps, IInv, WorkersFit
  <1>2. CASE row[m] # "pushing"
    BY <1>0, <1>1, <1>2, NothingDeposited DEF Record, operator
  <1>3. CASE row[m] = "pushing"
    <2> DEFINE amount == carry[m] + Total(m)
    <2>1. PICK s \in Recorded : row' = [row EXCEPT ![m] = s]
      BY <1>1, <1>3 DEF Record, Recorded
    <2>2. billed' = [billed EXCEPT ![m] = amount \div Unit] /\ ledger' = ledger + (amount % Unit)
      BY <1>1, <1>3 DEF Record, Residual
    <2>3. carry' = carry /\ surplus' = surplus
      BY DEF Record, operator
    <2>4. m \notin Done /\ Done' = Done \cup {m}
      BY <1>0, <1>3, <2>1 DEF Done, RowsFit, Recorded
    <2>5. m \in Held /\ Held' = Held \ {m}
      BY <1>1, <2>3, <2>4 DEF Held
    <2>6. Total(m) \in Nat /\ amount \in Nat /\ Totals[m] = Total(m)
      BY <1>1, TotalIsNat DEF Totals
    <2>7. amount = Unit * (amount \div Unit) + (amount % Unit)
          /\ amount \div Unit \in Nat /\ amount % Unit \in Nat
      BY <1>1, <2>6, Divided, ResidualIsNat
    <2> HIDE DEF amount
    <2>8. /\ billed'[m] = amount \div Unit
          /\ \A n \in Done : billed'[n] = billed[n] /\ billed[n] \in Int /\ Totals[n] \in Int
          /\ \A n \in Done \cup {m} : billed'[n] \in Int /\ Totals[n] \in Int
      BY <1>0, <2>2, <2>4, <2>7, MoneyIsNumbers DEF RowsFit, Done
    <2>9. SumFunctionOnSet(billed', Done \cup {m}) = SumFunctionOnSet(billed', Done) + billed'[m]
      BY <1>0, <2>4, <2>8, MoneyIsNumbers, SumAdds
    <2>10. SumFunctionOnSet(billed', Done) = SumFunctionOnSet(billed, Done)
      BY <1>0, <2>8, MoneyIsNumbers, SumSame
    <2>11. SumFunctionOnSet(Totals, Done \cup {m}) = SumFunctionOnSet(Totals, Done) + Totals[m]
      <3>1. \A n \in Done \cup {m} : Totals[n] \in Int
        BY <2>8
      <3>2. IsFiniteSet(Done)
        BY <1>0, MoneyIsNumbers
      <3> QED BY ONLY <3>1, <3>2, <2>4, SumAdds
    <2>12. \A n \in Held : carry[n] \in Int
      BY <1>0, MoneyIsNumbers
    <2>13. SumFunctionOnSet(carry, Held) = carry[m] + SumFunctionOnSet(carry, Held \ {m})
           /\ SumFunctionOnSet(carry, Held) \in Int
      BY <1>0, <2>5, <2>12, MoneyIsNumbers, SumTakes
    <2>14. SumFunctionOnSet(Totals, Done') + surplus'
             = Unit * SumFunctionOnSet(billed', Done') + ledger' + SumFunctionOnSet(carry', Held')
      <3> DEFINE t == SumFunctionOnSet(Totals, Done)
                 t2 == SumFunctionOnSet(Totals, Done')
                 b == SumFunctionOnSet(billed, Done)
                 b2 == SumFunctionOnSet(billed', Done')
                 c == SumFunctionOnSet(carry, Held)
                 c2 == SumFunctionOnSet(carry', Held')
                 q == amount \div Unit
                 r == amount % Unit
      <3>1. t2 = t + Total(m)
        BY <2>4, <2>6, <2>11
      <3>2. b2 = b + q
        BY <2>4, <2>8, <2>9, <2>10
      <3>3. c = carry[m] + c2
        BY <2>3, <2>5, <2>13
      <3>4. c2 \in Int
        BY <1>0, <2>3, <2>5, <2>12, MoneyIsNumbers, SumTakes, FS_RemoveElement
      <3>5. amount = Unit * q + r /\ q \in Nat /\ r \in Nat
        BY <2>7
      <3>6. amount = carry[m] + Total(m)
        BY DEF amount
      <3>7. t + surplus = Unit * b + ledger + c
        BY ConservedIs
      <3>8. t \in Nat /\ b \in Nat /\ c \in Nat /\ ledger \in Nat /\ surplus \in Nat
        BY <1>0, MoneyIsNumbers
      <3>9. ledger' = ledger + r
        BY <2>2
      <3>10. Unit \in Nat /\ carry[m] \in Nat /\ Total(m) \in Nat
        BY <1>1, <2>6, UsageInvoiceAssumption
      <3> HIDE DEF t, t2, b, b2, c, c2, q, r
      <3>11. Unit * b2 = Unit * b + Unit * q
        BY <3>2, <3>5, <3>8, <3>10
      <3>12. Unit * b \in Nat /\ Unit * q \in Nat
        BY <3>5, <3>8, <3>10
      <3>13. t2 + surplus = Unit * b2 + ledger' + c2
        BY <3>1, <3>3, <3>4, <3>5, <3>6, <3>7, <3>8, <3>9, <3>10, <3>11, <3>12
      <3> QED BY <2>3, <3>13 DEF t2, b2, c2
    <2> QED BY <2>14, ConservedNext
  <1> QED BY <1>2, <1>3

\* What a recorded month was billed is its carry and usage in minor units.
Exact == \A m \in Months : row[m] \in Recorded => billed[m] = (carry[m] + Total(m)) \div Unit

\* A step that records nothing and reserves at most for rows that are not recorded.
LEMMA ExactKept ==
    ASSUME Exact, UNCHANGED billed,
           \A m \in Months : row'[m] \in Recorded => row[m] \in Recorded /\ carry'[m] = carry[m]
    PROVE  Exact'
  <1> SUFFICES ASSUME NEW m \in Months, row'[m] \in Recorded
               PROVE  billed'[m] = (carry'[m] + Total(m)) \div Unit
    BY DEF Exact, Total, UpTo
  <1> QED BY DEF Exact

LEMMA StepExact == ASSUME IInv, Exact, Next PROVE Exact'
  <1>0. RowsFit /\ WorkersFit
    BY Types DEF IInv
  <1> DEFINE Records(m) == row[m] \in Recorded /\ carry'[m] = carry[m]
             Keeps == UNCHANGED billed /\ \A m \in Months : row'[m] \in Recorded => Records(m)
  <1>1. ASSUME NEW w \in Workers, Resolve(w) \/ Persist(w) \/ Split(w) \/ Finalize(w) \/ WorkerDies(w)
        PROVE  Keeps
    BY <1>1 DEF Resolve, Persist, Split, Finalize, WorkerDies, books
  <1>2. ASSUME NEW w \in Workers, NEW fatal \in BOOLEAN, PushFails(w, fatal) PROVE Keeps
    BY <1>0, <1>2 DEF PushFails, Mark, RowsFit, Recorded
  <1>3. ASSUME NEW m \in Months, NEW w \in Workers, Claim(w, m) PROVE Keeps
    <2>1. PICK s \in {"failed_permanent", "empty", "skipped", "pushing"} : row' = [row EXCEPT ![m] = s]
      BY <1>3 DEF Claim
    <2>2. \A n \in Months : n # m => carry'[n] = carry[n]
      BY <1>0, <1>3 DEF Claim, Reserve, RowsFit
    <2> QED BY <1>0, <1>3, <2>1, <2>2 DEF Claim, RowsFit, Recorded
  <1>4. ASSUME NEW w \in Workers, NEW i, Pin(w, i) PROVE Keeps
    BY <1>4 DEF Pin, books
  <1>5. ASSUME NEW m \in Months, ClaimRaises(m) \/ Reclaim(m) \/ Recover(m) \/ RepushSave(m)
        PROVE  Keeps
    BY <1>0, <1>5 DEF ClaimRaises, Reclaim, Recover, RepushSave, RowsFit, Recorded
  <1>6. ASSUME NEW m \in Months, RenewalMoves(m) \/ RepushRead(m) PROVE Keeps
    BY <1>6 DEF RenewalMoves, RepushRead, books
  <1>7. ASSUME BecomeReady PROVE Keeps
    BY <1>7 DEF BecomeReady, books
  <1>8. ASSUME NEW w \in Workers, Record(w) PROVE Exact'
    <2>1. PICK m \in Months : m = worker[w].on
      BY <1>8, OnMonth DEF Record, Steps, IInv
    <2>2. CASE row[m] # "pushing"
      BY <1>8, <2>1, <2>2, ExactKept DEF Record
    <2>3. CASE row[m] = "pushing"
      <3>1. \A n \in Months : n # m => row'[n] = row[n] /\ billed'[n] = billed[n]
        BY <1>0, <1>8, <2>1, <2>3 DEF Record, RowsFit
      <3>2. billed'[m] = (carry[m] + Total(m)) \div Unit /\ carry' = carry
        BY <1>0, <1>8, <2>1, <2>3 DEF Record, RowsFit
      <3>3. ASSUME NEW n \in Months, row'[n] \in Recorded
            PROVE  billed'[n] = (carry'[n] + Total(n)) \div Unit
        BY <3>1, <3>2, <3>3 DEF Exact
      <3> QED BY <3>3 DEF Exact, Total, UpTo
    <2> QED BY <2>2, <2>3
  <1>9. Keeps => Exact'
    BY ExactKept
  <1> HIDE DEF Keeps
  <1> QED BY <1>1, <1>2, <1>3, <1>4, <1>5, <1>6, <1>7, <1>8, <1>9 DEF Next

\* A repush that takes a recorded month back: its residual stays in the ledger.
LEMMA RepushConserves ==
    ASSUME IInv, Exact, ResidualConserved, NEW m \in Months, RepushSave(m) PROVE ResidualConserved'
  <1>0. TypeOK /\ RowsFit
    BY Types DEF IInv
  <1>1. row' = [row EXCEPT ![m] = "pending"] /\ UNCHANGED <<carry, ledger, billed>>
    BY DEF RepushSave
  <1>2. CASE row[m] \notin Recorded
    <2>1. \A n \in Months : row'[n] \in Recorded <=> row[n] \in Recorded
      BY <1>0, <1>1, <1>2 DEF RowsFit, Recorded
    <2>2. surplus' = surplus
      BY <1>2 DEF RepushSave
    <2> QED BY <1>0, <1>1, <2>1, <2>2, NothingDeposited
  <1>3. CASE row[m] \in Recorded
    <2> DEFINE amount == carry[m] + Total(m)
    <2>1. carry[m] \in Nat /\ carry[m] # None
      BY <1>0, <1>3 DEF RowsFit
    <2>2. m \in Done /\ Done' = Done \ {m}
      BY <1>0, <1>1, <1>3 DEF Done, RowsFit, Recorded
    <2>3. m \notin Held /\ Held' = Held \cup {m}
      BY <1>1, <2>1, <2>2 DEF Held
    <2>4. Total(m) \in Nat /\ amount \in Nat /\ Totals[m] = Total(m)
      BY <2>1, TotalIsNat DEF Totals
    <2>5. amount = Unit * (amount \div Unit) + (amount % Unit)
          /\ amount \div Unit \in Nat /\ amount % Unit \in Nat
      BY <2>1, <2>4, Divided, ResidualIsNat
    <2>6. billed[m] = amount \div Unit /\ surplus' = surplus + (amount % Unit)
      BY <1>3 DEF Exact, RepushSave, Residual
    <2> HIDE DEF amount
    <2>7. \A n \in Done : billed[n] \in Int /\ Totals[n] \in Int
      BY <1>0, MoneyIsNumbers DEF Done
    <2>8. \A n \in Held \cup {m} : carry[n] \in Int
      BY <1>0, <2>1, MoneyIsNumbers
    <2>9. /\ SumFunctionOnSet(Totals, Done) = Totals[m] + SumFunctionOnSet(Totals, Done \ {m})
          /\ SumFunctionOnSet(Totals, Done \ {m}) \in Int
      <3>1. IsFiniteSet(Done) /\ \A n \in Done : Totals[n] \in Int
        BY <1>0, <2>7, MoneyIsNumbers
      <3> QED BY ONLY <2>2, <3>1, SumTakes, FS_RemoveElement
    <2>10. /\ SumFunctionOnSet(billed, Done) = billed[m] + SumFunctionOnSet(billed, Done \ {m})
           /\ SumFunctionOnSet(billed, Done \ {m}) \in Int
      <3>1. IsFiniteSet(Done) /\ \A n \in Done : billed[n] \in Int
        BY <1>0, <2>7, MoneyIsNumbers
      <3> QED BY ONLY <2>2, <3>1, SumTakes, FS_RemoveElement
    <2>11. SumFunctionOnSet(carry, Held \cup {m}) = SumFunctionOnSet(carry, Held) + carry[m]
      <3>1. IsFiniteSet(Held)
        BY <1>0, MoneyIsNumbers
      <3> QED BY ONLY <2>3, <2>8, <3>1, SumAdds
    <2>12. SumFunctionOnSet(Totals, Done') + surplus'
             = Unit * SumFunctionOnSet(billed', Done') + ledger' + SumFunctionOnSet(carry', Held')
      <3> DEFINE t == SumFunctionOnSet(Totals, Done)
                 t2 == SumFunctionOnSet(Totals, Done')
                 b == SumFunctionOnSet(billed, Done)
                 b2 == SumFunctionOnSet(billed', Done')
                 c == SumFunctionOnSet(carry, Held)
                 c2 == SumFunctionOnSet(carry', Held')
                 q == amount \div Unit
                 k == amount % Unit
      <3>1. t = Total(m) + t2 /\ t2 \in Int
        BY <2>2, <2>4, <2>9
      <3>2. b = q + b2 /\ b2 \in Int
        BY <1>1, <2>2, <2>6, <2>10
      <3>3. c2 = c + carry[m]
        BY <1>1, <2>3, <2>11
      <3>4. carry[m] + Total(m) = Unit * q + k /\ q \in Nat /\ k \in Nat
        BY <2>5 DEF amount
      <3>5. t + surplus = Unit * b + ledger + c
        BY ConservedIs
      <3>6. t \in Nat /\ b \in Nat /\ c \in Nat /\ ledger \in Nat /\ surplus \in Nat
        BY <1>0, MoneyIsNumbers
      <3>7. surplus' = surplus + k /\ ledger' = ledger
        BY <1>1, <2>6
      <3>8. Unit \in Nat /\ carry[m] \in Nat /\ Total(m) \in Nat
        BY <2>1, <2>4, UsageInvoiceAssumption
      <3> HIDE DEF t, t2, b, b2, c, c2, q, k
      <3>9. Unit * b = Unit * q + Unit * b2
        BY <3>2, <3>4, <3>6, <3>8
      <3>10. Unit * b2 \in Int /\ Unit * q \in Int
        BY <3>2, <3>4, <3>8
      <3>11. t2 + surplus' = Unit * b2 + ledger' + c2
        <4> DEFINE x == Unit * b
                   y == Unit * b2
                   z == Unit * q
        <4>1. x = z + y /\ y \in Int /\ z \in Int
          BY <3>9, <3>10
        <4>2. carry[m] + Total(m) = z + k /\ t + surplus = x + ledger + c
          BY <3>4, <3>5
        <4> HIDE DEF x, y, z
        <4>3. t2 + surplus' = y + ledger' + c2
          BY <3>1, <3>3, <3>4, <3>6, <3>7, <3>8, <4>1, <4>2
        <4> QED BY <4>3 DEF y
      <3> QED BY <3>11 DEF t2, b2, c2
    <2> QED BY <2>12, ConservedNext
  <1> QED BY <1>2, <1>3

LEMMA StepConserves ==
    ASSUME IInv, Exact, ResidualConserved, Next PROVE ResidualConserved'
  <1>0. TypeOK /\ RowsFit /\ WorkersFit
    BY Types DEF IInv
  <1> DEFINE Idles == /\ UNCHANGED <<carry, ledger, billed, surplus>>
                      /\ \A m \in Months : row'[m] \in Recorded <=> row[m] \in Recorded
  <1>1. ASSUME NEW w \in Workers, Resolve(w) \/ Persist(w) \/ Split(w) \/ Finalize(w) \/ WorkerDies(w)
        PROVE  Idles
    BY <1>1 DEF Resolve, Persist, Split, Finalize, WorkerDies, books, operator
  <1>2. ASSUME NEW w \in Workers, NEW fatal \in BOOLEAN, PushFails(w, fatal) PROVE Idles
    <2>1. PICK s \in {"failed", "failed_permanent"} :
            row' = row \/ (row' = [row EXCEPT ![worker[w].on] = s] /\ row[worker[w].on] = "pushing")
      BY <1>2 DEF PushFails, Mark
    <2> QED BY <1>0, <1>2, <2>1 DEF PushFails, operator, RowsFit, Recorded
  <1>3. ASSUME NEW m \in Months, NEW w \in Workers, Claim(w, m)
        PROVE  Idles \/ ResidualConserved'
    <2>1. row[m] \notin Recorded
      BY <1>3 DEF Claim, Claimable, Recorded
    <2>2. CASE row' = [row EXCEPT ![m] = "pushing"] /\ Reserve(m)
      BY <1>0, <1>3, <2>1, <2>2, ClaimConserves DEF Claim, operator
    <2>3. CASE UNCHANGED <<carry, ledger>> /\ \E s \in {"failed_permanent", "empty", "skipped"} :
                 row' = [row EXCEPT ![m] = s]
      BY <1>0, <1>3, <2>1, <2>3 DEF Claim, operator, RowsFit, Recorded
    <2> QED BY <1>3, <2>2, <2>3 DEF Claim
  <1>4. ASSUME NEW w \in Workers, NEW i, Pin(w, i) PROVE Idles
    BY <1>4 DEF Pin, books, operator
  <1>5. ASSUME NEW m \in Months, ClaimRaises(m) \/ Reclaim(m) \/ Recover(m) PROVE Idles
    <2>1. /\ row[m] \notin Recorded
          /\ \E s \in {"failed", "pending"} : row' = [row EXCEPT ![m] = s]
      BY <1>5 DEF ClaimRaises, Reclaim, Recover, Recorded
    <2> QED BY <1>0, <1>5, <2>1 DEF ClaimRaises, Reclaim, Recover, operator, RowsFit, Recorded
  <1>6. ASSUME NEW m \in Months, RenewalMoves(m) \/ RepushRead(m) PROVE Idles
    BY <1>6 DEF RenewalMoves, RepushRead, books, operator
  <1>7. ASSUME BecomeReady PROVE Idles
    BY <1>7 DEF BecomeReady, books, operator
  <1>8. Idles => ResidualConserved'
    BY <1>0, NothingDeposited
  <1> HIDE DEF Idles
  <1> QED BY <1>1, <1>2, <1>3, <1>4, <1>5, <1>6, <1>7, <1>8, RecordConserves, RepushConserves DEF Next

\* Over the months not a micro is lost: what the recorded months came to is what
\* was billed, what the ledger holds and what rows in flight have reserved,
\* whichever workers die, fail, resume or record late.  What the ledger and the
\* rows have in excess is exactly the residual of each recorded month that a late
\* save of the operator's command made pending again.
THEOREM NoMicroLost == Spec => []ResidualConserved
  <1>1. Init => ResidualConserved
    <2> SUFFICES ASSUME Init PROVE ResidualConserved
      OBVIOUS
    <2>1. Done = {}
      BY DEF Init, Done, Recorded
    <2>2. Held = {}
      BY DEF Init, Held
    <2>3. SumFunctionOnSet(Totals, {}) = 0 /\ SumFunctionOnSet(billed, {}) = 0
          /\ SumFunctionOnSet(carry, {}) = 0 /\ ledger = 0 /\ surplus = 0 /\ Unit \in Nat
      BY SumEmpty, UsageInvoiceAssumption DEF Init
    <2> QED BY <2>1, <2>2, <2>3, ConservedIs
  <1>2. IInv /\ Exact /\ ResidualConserved /\ [Next]_vars => ResidualConserved'
    <2> SUFFICES ASSUME IInv, Exact, ResidualConserved, [Next]_vars PROVE ResidualConserved'
      OBVIOUS
    <2>1. CASE UNCHANGED vars
      BY <2>1, NothingDeposited DEF vars, books, operator, IInv
    <2> QED BY <2>1, StepConserves
  <1>3. Init => Exact
    BY DEF Init, Exact, Recorded
  <1>4. IInv /\ Exact /\ [Next]_vars => Exact'
    <2> SUFFICES ASSUME IInv, Exact, [Next]_vars PROVE Exact'
      OBVIOUS
    <2>1. CASE UNCHANGED vars
      BY <2>1, ExactKept DEF vars, books
    <2> QED BY <2>1, StepExact
  <1> QED BY <1>1, <1>2, <1>3, <1>4, UsageInvoiceInvariance, PTL DEF Spec

-----------------------------------------------------------------------------
(***************************************************************************)
(* No line is billed twice.  While nobody without the claim has written    *)
(* the pointer, a month is in one of three cases: nothing is pinned yet;   *)
(* all that pins does so on one invoice of ours, which the pointer names;  *)
(* or the renewal was chosen, and an invoice of ours takes what the        *)
(* renewal does not have, once that is final.  A month recorded so and     *)
(* taken back by a repush is resumed at that invoice of ours, which is     *)
(* final and takes nothing any more.                                       *)
(***************************************************************************)

\* The worker pins lines of month m, or has pinned them.
Pins(w, m) ==
    worker[w].on = m /\ \/ worker[w].step \in {"pinning", "splitting"}
                        \/ worker[w].step = "pinned" /\ worker[w].at # None

Unpinned(m) ==
    /\ pointer[m] = None /\ \A k \in Invoices : items[m][k] = {}
    /\ \A w \in Workers : ~Pins(w, m)

OnOne(m) ==
    /\ pointer[m] \in Ours
    /\ \A k \in Invoices : k # pointer[m] => items[m][k] = {}
    /\ \A w \in Workers : Pins(w, m) => worker[w].step # "splitting" /\ worker[w].at = pointer[m]

\* An invoice of ours has only what the renewal, being final, does not have.
Completes(m) ==
    \A k \in Ours : items[m][k] # {} =>
        inv[m]["renewal"] = "final" /\ items[m][k] \cap items[m]["renewal"] = {}

OnRenewal(m) ==
    /\ pointer[m] # None
    /\ pointer[m] # "renewal" => inv[m][pointer[m]] = "final" /\ inv[m]["renewal"] = "final"
    /\ Completes(m)
    /\ \A w \in Workers : Pins(w, m) =>
         \/ worker[w].at = "renewal" /\ worker[w].step # "splitting"
         \/ /\ worker[w].at \in Ours /\ inv[m]["renewal"] = "final"
            /\ worker[w].step = "pinning" => inv[m][worker[w].at] = "final"

\* There is one invoice of ours, lines are on invoices that exist, and a worker
\* that has pinned all left an invoice of ours final.
Stands(w, m) ==
    /\ inv[m][worker[w].at] # "none"
    /\ worker[w].step = "pinned" => worker[w].at = "renewal" \/ inv[m][worker[w].at] = "final"

OneOfOurs(m) ==
    /\ inv[m]["standalone"] = "none" \/ inv[m]["remainder"] = "none"
    /\ inv[m]["remainder"] # "none" => pointer[m] # None
    /\ \A k \in Invoices : items[m][k] # {} \/ pointer[m] = k => inv[m][k] # "none"
    /\ \A w \in Workers : Pins(w, m) => Stands(w, m)

\* One worker holds the claim, and it bills where the pointer says.
Holds(w, m) == worker[w].on = m /\ ~worker[w].lost

OneHolder(m) ==
    /\ \A v, w \in Workers : Holds(v, m) /\ Holds(w, m) => v = w
    /\ \A w \in Workers : worker[w].on = m /\ worker[w].step = "claimed" => worker[w].at = None
    /\ row[m] = "pushing" => \A w \in Workers :
         Holds(w, m) /\ worker[w].step = "resolved" => pointer[m] \in {None, worker[w].at}

OneBiller(m) ==
    m \notin stale =>
        /\ Unpinned(m) \/ OnOne(m) \/ OnRenewal(m)
        /\ OneOfOurs(m) /\ OneHolder(m)

OneBillers == \A m \in Months : OneBiller(m)

LEMMA BilledByOne == ASSUME OneBillers PROVE BilledOnce
  <1> SUFFICES ASSUME NEW m \in Months, m \notin stale PROVE ~BilledTwice(m)
    BY DEF BilledOnce
  <1>1. Unpinned(m) \/ OnOne(m) \/ OnRenewal(m)
    BY DEF OneBillers, OneBiller
  <1>2. OneOfOurs(m)
    BY DEF OneBillers, OneBiller
  <1>3. SUFFICES ASSUME NEW i \in Lines(m), NEW j \in Invoices, NEW k \in Invoices, j # k,
                        i \in items[m][j], i \in items[m][k]
                 PROVE  FALSE
    BY DEF BilledTwice, OnInvoices
  <1>4. CASE Unpinned(m)
    BY <1>3, <1>4 DEF Unpinned
  <1>5. CASE OnOne(m)
    BY <1>3, <1>5 DEF OnOne
  <1>6. CASE OnRenewal(m)
    <2>1. ~(j \in Ours /\ k \in Ours)
      BY <1>2, <1>3 DEF OneOfOurs, Ours, Invoices
    <2>2. \A l \in Ours : items[m][l] \cap items[m]["renewal"] = {}
      BY <1>6 DEF OnRenewal, Completes
    <2> QED BY <1>3, <2>1, <2>2 DEF Ours, Invoices
  <1> QED BY <1>1, <1>4, <1>5, <1>6

\* A step that leaves the month's pointer, invoices and workers alone, or drops
\* a worker.
LEMMA Untouched ==
    ASSUME NEW m \in Months, OneBiller(m), m \in stale => m \in stale',
           pointer'[m] = pointer[m], items'[m] = items[m], inv'[m] = inv[m],
           row'[m] = row[m] \/ row'[m] # "pushing",
           \A w \in Workers : worker'[w].on = m => worker'[w] = worker[w]
    PROVE  OneBiller(m)'
  <1> SUFFICES ASSUME m \notin stale'
               PROVE  /\ Unpinned(m)' \/ OnOne(m)' \/ OnRenewal(m)'
                      /\ OneOfOurs(m)' /\ OneHolder(m)'
    BY DEF OneBiller
  <1>1. /\ Unpinned(m) \/ OnOne(m) \/ OnRenewal(m)
        /\ OneOfOurs(m) /\ OneHolder(m)
    BY DEF OneBiller
  <1>2. \A w \in Workers : Pins(w, m)' => Pins(w, m) /\ worker'[w] = worker[w]
    BY DEF Pins
  <1>3. Unpinned(m) => Unpinned(m)'
    BY <1>2 DEF Unpinned
  <1>4. OnOne(m) => OnOne(m)'
    BY <1>2 DEF OnOne
  <1>5. OnRenewal(m) => OnRenewal(m)'
    BY <1>2 DEF OnRenewal, Completes
  <1>6. OneOfOurs(m)'
    BY <1>1, <1>2 DEF OneOfOurs, Stands
  <1>7. OneHolder(m)'
    BY <1>1 DEF OneHolder, Holds
  <1> QED BY <1>1, <1>3, <1>4, <1>5, <1>6, <1>7

LEMMA ResolveOne ==
    ASSUME IInv, NEW w \in Workers, NEW m \in Months, worker[w].on = m, OneBiller(m), Resolve(w)
    PROVE  OneBiller(m)'
  <1>0. RowsFit /\ WorkersFit /\ StripeFits
    BY Types DEF IInv
  <1>1. /\ worker[w].step = "claimed" /\ worker[w].step \in Steps
        /\ UNCHANGED <<row, carry, pointer, items, stale>>
    BY DEF Resolve, Steps, books
  <1> SUFFICES ASSUME m \notin stale
               PROVE  /\ Unpinned(m)' \/ OnOne(m)' \/ OnRenewal(m)'
                      /\ OneOfOurs(m)' /\ OneHolder(m)'
    BY <1>1 DEF OneBiller
  <1>2. /\ Unpinned(m) \/ OnOne(m) \/ OnRenewal(m)
        /\ OneOfOurs(m) /\ OneHolder(m)
    BY DEF OneBiller
  <1>3. worker[w].at = None /\ ~Pins(w, m)
    BY <1>1, <1>2 DEF OneHolder, Pins
  <1>4. /\ \A v \in Workers : v # w => worker'[v] = worker[v]
        /\ worker'[w].on = m /\ worker'[w].lost = worker[w].lost
        /\ \/ inv' = inv /\ worker'[w].step = "pinned" /\ worker'[w].at = None
           \/ \E t \in Targets(m) :
                /\ worker'[w].step = "resolved" /\ worker'[w].at = t
                /\ inv' = IF inv[m][t] = "none" THEN [inv EXCEPT ![m][t] = "draft"] ELSE inv
    <2>1. CASE CentLines(m) = {}
      <3>1. worker' = [worker EXCEPT ![w] = [worker[w] EXCEPT !.step = "pinned", !.at = worker[w].at]]
            /\ inv' = inv
        BY <1>1, <2>1, MoveForms DEF Resolve, Step, Steps
      <3>2. worker[w].at \in Invoices \cup {None} /\ "pinned" \in Steps /\ UNCHANGED carry
        BY <1>1, <1>3 DEF Steps
      <3>3. /\ worker'[w].step = "pinned" /\ worker'[w].at = worker[w].at
            /\ worker'[w].on = worker[w].on /\ worker'[w].lost = worker[w].lost
            /\ \A v \in Workers : v # w => worker'[v] = worker[v]
        BY <1>1, <3>1, <3>2, WorkerGoesOn DEF Steps
      <3> QED BY <1>3, <3>1, <3>3
    <2>2. CASE CentLines(m) # {}
      <3>1. PICK t \in Targets(m) :
              /\ GoesTo(w, "resolved", t)
              /\ inv' = IF inv[m][t] = "none" THEN [inv EXCEPT ![m][t] = "draft"] ELSE inv
        BY <2>2 DEF Resolve, GoesTo
      <3>2. t \in Invoices /\ "resolved" \in Steps
        BY <1>0, <3>1 DEF Targets, Found, RowsFit, Invoices, Steps
      <3>3. /\ worker'[w].step = "resolved" /\ worker'[w].at = t
            /\ worker'[w].on = worker[w].on /\ worker'[w].lost = worker[w].lost
            /\ \A v \in Workers : v # w => worker'[v] = worker[v]
        BY <1>1, <3>1, <3>2, WorkerGoesTo
      <3> QED BY <3>1, <3>3
    <2> QED BY <2>1, <2>2
  <1>5. /\ ~Pins(w, m)'
        /\ \A v \in Workers : Pins(v, m)' => Pins(v, m) /\ worker'[v] = worker[v]
    BY <1>4 DEF Pins
  <1>6. /\ \A k \in Invoices : inv'[m][k] = inv[m][k] \/ (inv[m][k] = "none" /\ inv'[m][k] # "none")
        /\ inv'[m]["remainder"] = inv[m]["remainder"]
        /\ inv'[m]["standalone"] # inv[m]["standalone"] => inv[m]["remainder"] = "none"
    <2>1. CASE inv' = inv
      BY <2>1
    <2>2. ASSUME NEW t \in Targets(m), inv[m][t] = "none", inv' = [inv EXCEPT ![m][t] = "draft"]
          PROVE  <1>6!:
      <3>1. t \in Invoices
        BY <1>0, <2>2 DEF Targets, Found, RowsFit, Invoices
      <3>2. \A k \in Invoices : inv'[m][k] = IF k = t THEN "draft" ELSE inv[m][k]
        BY <1>0, <2>2, <3>1 DEF StripeFits
      <3>3. pointer[m] = None
        BY <1>2, <2>2, <3>1 DEF Targets, OneOfOurs
      <3>4. t = "standalone" /\ inv[m]["remainder"] = "none"
        BY <2>2, <3>3 DEF Targets, Found
      <3> QED BY <2>2, <3>2, <3>4 DEF Invoices
    <2> QED BY <1>4, <2>1, <2>2
  <1>7. Unpinned(m) => Unpinned(m)'
    BY <1>1, <1>5 DEF Unpinned
  <1>8. OnOne(m) => OnOne(m)'
    BY <1>1, <1>5 DEF OnOne
  <1>9. OnRenewal(m) => OnRenewal(m)'
    <2>1. \A k \in Invoices : inv[m][k] = "final" => inv'[m][k] = "final"
      BY <1>6
    <2>2. \A v \in Workers : Pins(v, m) => worker[v].at \in Invoices
      BY OnMonth DEF Pins, IInv, Seen, Target, Steps
    <2>3. pointer[m] \in Invoices \cup {None} /\ "renewal" \in Invoices
      BY <1>0 DEF RowsFit, Invoices
    <2> QED BY <1>1, <1>5, <2>1, <2>2, <2>3 DEF OnRenewal, Completes
  <1>10. OneOfOurs(m)'
    <2>1. \A k \in Invoices : inv[m][k] # "none" => inv'[m][k] # "none"
      BY <1>6
    <2>2. \A v \in Workers : Pins(v, m) => worker[v].at \in Invoices
      BY OnMonth DEF Pins, IInv, Seen, Target, Steps
    <2>3. inv'[m]["standalone"] = "none" \/ inv'[m]["remainder"] = "none"
      BY <1>2, <1>6 DEF OneOfOurs
    <2>4. \A v \in Workers : Pins(v, m)' => Stands(v, m)'
      BY <1>2, <1>5, <1>6, <2>1, <2>2 DEF OneOfOurs, Stands
    <2> QED BY <1>1, <1>2, <1>6, <2>1, <2>3, <2>4 DEF OneOfOurs
  <1>11. OneHolder(m)'
    <2>1. \A v, u \in Workers : Holds(v, m)' /\ Holds(u, m)' => v = u
      BY <1>2, <1>4 DEF OneHolder, Holds
    <2>2. \A v \in Workers : worker'[v].on = m /\ worker'[v].step = "claimed" => worker'[v].at = None
      BY <1>2, <1>4 DEF OneHolder
    <2>3. ASSUME row[m] = "pushing", NEW v \in Workers, Holds(v, m)', worker'[v].step = "resolved"
          PROVE  pointer[m] \in {None, worker'[v].at}
      <3>1. CASE v # w
        BY <1>2, <1>4, <2>3, <3>1 DEF OneHolder, Holds
      <3>2. CASE v = w
        BY <1>4, <2>3, <3>2 DEF Targets
      <3> QED BY <3>1, <3>2
    <2> QED BY <1>1, <2>1, <2>2, <2>3 DEF OneHolder
  <1> QED BY <1>2, <1>7, <1>8, <1>9, <1>10, <1>11

\* What pins a month does so on an invoice.
LEMMA PinsWhere ==
    ASSUME IInv, NEW w \in Workers, NEW m \in Months, Pins(w, m)
    PROVE  worker[w].at \in Invoices
  BY OnMonth DEF Pins, IInv, Seen, Target, Steps

LEMMA PersistOne ==
    ASSUME IInv, NEW w \in Workers, NEW m \in Months, worker[w].on = m, OneBiller(m), Persist(w)
    PROVE  OneBiller(m)'
  <1>0. RowsFit /\ WorkersFit /\ StripeFits
    BY Types DEF IInv
  <1>1. /\ worker[w].step = "resolved" /\ worker[w].step \in Steps
        /\ UNCHANGED <<row, carry, items, inv>>
    BY DEF Persist, Steps, stripe
  <1>2. worker[w].at \in Invoices /\ inv[m][worker[w].at] # "none" /\ worker[w].at # None
    BY <1>1, OnMonth DEF IInv, Seen, Target
  <1>3. CASE row[m] # "pushing"
    <2>1. worker' = [worker EXCEPT ![w] = Idle] /\ UNCHANGED <<pointer, stale>>
      BY <1>3 DEF Persist
    <2>2. /\ worker'[w].on # m
          /\ \A v \in Workers : v # w => worker'[v] = worker[v]
      BY <1>0, <2>1, UsageInvoiceAssumption DEF Idle, WorkersFit
    <2> QED BY <1>1, <2>1, <2>2, Untouched
  <1>4. CASE row[m] = "pushing"
    <2> SUFFICES ASSUME m \notin stale'
                 PROVE  /\ Unpinned(m)' \/ OnOne(m)' \/ OnRenewal(m)'
                        /\ OneOfOurs(m)' /\ OneHolder(m)'
      BY DEF OneBiller
    <2>1. /\ pointer'[m] = worker[w].at /\ ~worker[w].lost /\ m \notin stale
      BY <1>0, <1>4 DEF Persist, RowsFit
    <2>2. /\ Unpinned(m) \/ OnOne(m) \/ OnRenewal(m)
          /\ OneOfOurs(m) /\ OneHolder(m)
      BY <2>1 DEF OneBiller
    <2>3. /\ worker'[w].step = "pinning" /\ worker'[w].at = worker[w].at
          /\ worker'[w].on = m /\ worker'[w].lost = worker[w].lost
          /\ \A v \in Workers : v # w => worker'[v] = worker[v]
      <3>1. worker' = [worker EXCEPT ![w] = [worker[w] EXCEPT !.step = "pinning", !.at = worker[w].at]]
        BY <1>1, <1>4, MoveForms DEF Persist, Step, Steps
      <3>2. worker[w].at \in Invoices \cup {None} /\ "pinning" \in Steps /\ UNCHANGED carry
        BY <1>1, <1>2 DEF Steps
      <3>3. /\ worker'[w].step = "pinning" /\ worker'[w].at = worker[w].at
            /\ worker'[w].on = worker[w].on /\ worker'[w].lost = worker[w].lost
            /\ \A v \in Workers : v # w => worker'[v] = worker[v]
        BY <1>1, <3>1, <3>2, WorkerGoesOn DEF Steps
      <3> QED BY <3>3
    <2>4. pointer[m] \in {None, worker[w].at}
      BY <1>1, <1>4, <2>1, <2>2 DEF OneHolder, Holds
    <2>5. \A v \in Workers : v # w => (Pins(v, m)' <=> Pins(v, m)) /\ (Holds(v, m)' <=> Holds(v, m))
      BY <2>3 DEF Pins, Holds
    <2>6. ASSUME Unpinned(m) PROVE OnOne(m)' \/ OnRenewal(m)'
      <3>1. (\A v \in Workers : v # w => ~Pins(v, m)') /\ \A k \in Invoices : items'[m][k] = {}
        BY <1>1, <2>5, <2>6 DEF Unpinned
      <3>2. CASE worker[w].at \in Ours
        BY <2>1, <2>3, <3>1, <3>2 DEF OnOne
      <3>3. CASE worker[w].at = "renewal"
        <4>1. Completes(m)'
          BY <3>1 DEF Completes, Ours, Invoices
        <4> QED BY <1>2, <2>1, <2>3, <3>1, <3>3, <4>1 DEF OnRenewal
      <3> QED BY <1>2, <3>2, <3>3 DEF Ours, Invoices
    <2>7. ASSUME OnOne(m) PROVE OnOne(m)' \/ OnRenewal(m)'
      <3>1. pointer'[m] = pointer[m] /\ worker[w].at = pointer[m]
        BY <2>1, <2>4, <2>7, UsageInvoiceAssumption DEF OnOne, Ours
      <3>2. \A v \in Workers : Pins(v, m)' => worker'[v].step # "splitting" /\ worker'[v].at = pointer[m]
        BY <2>3, <2>5, <2>7, <3>1 DEF OnOne
      <3> QED BY <1>1, <2>7, <3>1, <3>2 DEF OnOne
    <2>8. ASSUME OnRenewal(m) PROVE OnOne(m)' \/ OnRenewal(m)'
      <3>1. worker[w].at = pointer[m] /\ pointer'[m] = pointer[m]
        BY <2>1, <2>4, <2>8 DEF OnRenewal
      <3>2. \/ worker[w].at = "renewal"
            \/ worker[w].at \in Ours /\ inv[m][worker[w].at] = "final" /\ inv[m]["renewal"] = "final"
        BY <1>2, <2>8, <3>1 DEF OnRenewal, Invoices, Ours
      <3>3. \A v \in Workers : Pins(v, m)' =>
              \/ worker'[v].at = "renewal" /\ worker'[v].step # "splitting"
              \/ /\ worker'[v].at \in Ours /\ inv'[m]["renewal"] = "final"
                 /\ worker'[v].step = "pinning" => inv'[m][worker'[v].at] = "final"
        BY <1>1, <2>3, <2>5, <2>8, <3>2 DEF OnRenewal
      <3>4. Completes(m)'
        BY <1>1, <2>8 DEF OnRenewal, Completes
      <3> QED BY <1>1, <1>2, <2>8, <3>1, <3>3, <3>4 DEF OnRenewal
    <2>9. OneOfOurs(m)'
      <3>1. \A v \in Workers : Pins(v, m)' => Stands(v, m)'
        BY <1>1, <1>2, <2>2, <2>3, <2>5 DEF OneOfOurs, Stands
      <3> QED BY <1>1, <1>2, <2>1, <2>2, <3>1 DEF OneOfOurs
    <2>10. OneHolder(m)'
      <3>1. Holds(w, m)
        BY <2>1 DEF Holds
      <3>2. \A v \in Workers : Holds(v, m)' => v = w
        BY <2>2, <2>5, <3>1 DEF OneHolder
      <3>3. \A v \in Workers : worker'[v].on = m /\ worker'[v].step = "claimed" => worker'[v].at = None
        BY <2>2, <2>3 DEF OneHolder
      <3> QED BY <2>3, <3>2, <3>3 DEF OneHolder
    <2> QED BY <2>2, <2>6, <2>7, <2>8, <2>9, <2>10
  <1> QED BY <1>3, <1>4

LEMMA SplitOne ==
    ASSUME IInv, NEW w \in Workers, NEW m \in Months, worker[w].on = m, OneBiller(m), Split(w)
    PROVE  OneBiller(m)'
  <1>0. RowsFit /\ WorkersFit /\ StripeFits
    BY Types DEF IInv
  <1>1. /\ worker[w].step = "pinning" /\ worker[w].step \in Steps /\ worker[w].at = "renewal"
        /\ ~Draft(m, "renewal") /\ UNCHANGED <<row, carry, pointer, items, stale>>
    BY DEF Split, Steps, books
  <1> SUFFICES ASSUME m \notin stale
               PROVE  /\ Unpinned(m)' \/ OnOne(m)' \/ OnRenewal(m)'
                      /\ OneOfOurs(m)' /\ OneHolder(m)'
    BY <1>1 DEF OneBiller
  <1>2. /\ Unpinned(m) \/ OnOne(m) \/ OnRenewal(m)
        /\ OneOfOurs(m) /\ OneHolder(m)
    BY DEF OneBiller
  <1>3. Pins(w, m) /\ "renewal" \notin Ours
    BY <1>1 DEF Pins, Ours
  <1>4. OnRenewal(m)
    BY <1>1, <1>2, <1>3 DEF Unpinned, OnOne
  <1>5. inv[m]["renewal"] = "final"
    BY <1>0, <1>1 DEF IInv, Seen, Target, Draft, StripeFits, Invoices
  <1>6. PICK r \in Ours :
          /\ GoesTo(w, "splitting", r)
          /\ inv[m][r] = "none" => r = "remainder" /\ Found(m) = {}
          /\ inv' = IF inv[m][r] = "none" THEN [inv EXCEPT ![m][r] = "draft"] ELSE inv
    BY DEF Split, GoesTo, Found, Ours
  <1>7. r \in Invoices /\ "splitting" \in Steps
    BY DEF Ours, Invoices, Steps
  <1>8. /\ worker'[w].step = "splitting" /\ worker'[w].at = r
        /\ worker'[w].on = worker[w].on /\ worker'[w].lost = worker[w].lost
        /\ \A v \in Workers : v # w => worker'[v] = worker[v]
    BY <1>1, <1>6, <1>7, WorkerGoesTo
  <1>9. \A k \in Invoices : inv'[m][k] = IF k = r /\ inv[m][r] = "none" THEN "draft" ELSE inv[m][k]
    BY <1>0, <1>6, <1>7 DEF StripeFits
  <1>10. /\ \A k \in Invoices : inv[m][k] # "none" => inv'[m][k] # "none"
         /\ \A k \in Invoices : inv[m][k] = "final" => inv'[m][k] = "final"
         /\ inv'[m]["renewal"] = "final" /\ inv'[m][r] # "none"
         /\ inv'[m]["standalone"] = "none" \/ inv'[m]["remainder"] = "none"
    <2>1. inv'[m]["renewal"] = "final"
      BY <1>5, <1>9 DEF Invoices
    <2>2. CASE inv[m][r] = "none"
      BY <1>6, <1>9, <2>1, <2>2 DEF Invoices, Found, Ours
    <2>3. CASE inv[m][r] # "none"
      BY <1>2, <1>9, <1>7, <2>1, <2>3 DEF Invoices, OneOfOurs
    <2> QED BY <2>2, <2>3
  <1>11. \A v \in Workers : v # w => (Pins(v, m)' <=> Pins(v, m)) /\ (Holds(v, m)' <=> Holds(v, m))
    BY <1>8 DEF Pins, Holds
  <1>12. OnRenewal(m)'
    <2>1. \A v \in Workers : Pins(v, m)' =>
            \/ worker'[v].at = "renewal" /\ worker'[v].step # "splitting"
            \/ /\ worker'[v].at \in Ours /\ inv'[m]["renewal"] = "final"
               /\ worker'[v].step = "pinning" => inv'[m][worker'[v].at] = "final"
      BY <1>4, <1>8, <1>10, <1>11, PinsWhere DEF OnRenewal
    <2>2. Completes(m)'
      BY <1>1, <1>4, <1>10 DEF OnRenewal, Completes
    <2>3. pointer[m] \in Invoices \cup {None}
      BY <1>0 DEF RowsFit
    <2> QED BY <1>1, <1>4, <1>10, <2>1, <2>2, <2>3 DEF OnRenewal
  <1>13. OneOfOurs(m)'
    <2>1. \A v \in Workers : Pins(v, m)' => Stands(v, m)'
      BY <1>2, <1>8, <1>10, <1>11, PinsWhere DEF OneOfOurs, Stands
    <2>2. pointer'[m] # None
      BY <1>1, <1>4 DEF OnRenewal
    <2> QED BY <1>1, <1>2, <1>10, <2>1, <2>2 DEF OneOfOurs
  <1>14. OneHolder(m)'
    <2>1. Holds(w, m)' <=> Holds(w, m)
      BY <1>8 DEF Holds
    <2> QED BY <1>1, <1>2, <1>8, <1>11, <2>1 DEF OneHolder
  <1> QED BY <1>12, <1>13, <1>14

LEMMA PinOne ==
    ASSUME IInv, NEW w \in Workers, NEW m \in Months, worker[w].on = m, OneBiller(m),
           NEW i \in Lines(m), Pin(w, i)
    PROVE  OneBiller(m)'
  <1>0. RowsFit /\ WorkersFit /\ StripeFits
    BY Types DEF IInv
  <1>1. UNCHANGED <<row, pointer, worker, inv, stale>>
    BY DEF Pin, books
  <1> SUFFICES ASSUME m \notin stale
               PROVE  /\ Unpinned(m)' \/ OnOne(m)' \/ OnRenewal(m)'
                      /\ OneOfOurs(m)' /\ OneHolder(m)'
    BY <1>1 DEF OneBiller
  <1>2. /\ Unpinned(m) \/ OnOne(m) \/ OnRenewal(m)
        /\ OneOfOurs(m) /\ OneHolder(m)
    BY DEF OneBiller
  <1>3. Pins(w, m) /\ worker[w].step \in {"pinning", "splitting"}
    BY DEF Pins, Pin
  <1>4. PICK t \in Invoices : t = worker[w].at
    BY <1>3, PinsWhere
  <1>5. /\ Draft(m, t) /\ items' = [items EXCEPT ![m][t] = @ \cup {i}]
        /\ worker[w].step = "splitting" => i \notin items[m]["renewal"]
    BY <1>4 DEF Pin, Missing, Wanted
  <1>6. \A k \in Invoices : items'[m][k] = IF k = t THEN items[m][k] \cup {i} ELSE items[m][k]
    BY <1>0, <1>5 DEF StripeFits
  <1>7. \A v \in Workers : Pins(v, m)' <=> Pins(v, m)
    BY <1>1 DEF Pins
  <1>8. OnOne(m) => OnOne(m)'
    <2> SUFFICES ASSUME OnOne(m) PROVE OnOne(m)'
      OBVIOUS
    <2>1. t = pointer[m]
      BY <1>3, <1>4 DEF OnOne
    <2>2. \A k \in Invoices : k # pointer'[m] => items'[m][k] = {}
      BY <1>1, <1>6, <2>1 DEF OnOne
    <2> QED BY <1>1, <1>7, <2>2 DEF OnOne
  <1>9. OnRenewal(m) => OnRenewal(m)'
    <2> SUFFICES ASSUME OnRenewal(m) PROVE OnRenewal(m)'
      OBVIOUS
    <2>0. "renewal" \in Invoices /\ \A k \in Ours : k \in Invoices /\ k # "renewal"
      BY DEF Ours, Invoices
    <2>1. CASE t = "renewal"
      <3>1. inv[m]["renewal"] # "final"
        BY <1>5, <2>1 DEF Draft
      <3>2. \A k \in Ours : items[m][k] = {}
        BY <3>1 DEF OnRenewal, Completes
      <3>3. \A k \in Ours : items'[m][k] = {}
        BY <1>6, <2>0, <2>1, <3>2
      <3>4. Completes(m)'
        BY <3>3 DEF Completes
      <3> QED BY <1>1, <1>7, <3>4 DEF OnRenewal
    <2>2. CASE t # "renewal"
      <3>1. t \in Ours /\ worker[w].step = "splitting" /\ inv[m]["renewal"] = "final"
        BY <1>3, <1>4, <1>5, <2>2 DEF OnRenewal, Draft
      <3>2. items'[m]["renewal"] = items[m]["renewal"] /\ i \notin items[m]["renewal"]
        BY <1>5, <1>6, <2>0, <2>2, <3>1
      <3>3. \A k \in Ours : items[m][k] \cap items[m]["renewal"] = {}
        BY DEF OnRenewal, Completes
      <3>4. \A k \in Ours : items'[m][k] \cap items'[m]["renewal"] = {}
        <4> SUFFICES ASSUME NEW k \in Ours
                     PROVE  items'[m][k] \cap items'[m]["renewal"] = {}
          OBVIOUS
        <4>1. items'[m][k] \subseteq items[m][k] \cup {i}
          BY ONLY <1>6, <2>0, k \in Ours
        <4> QED BY ONLY <3>2, <3>3, <4>1, k \in Ours
      <3>5. Completes(m)'
        BY <1>1, <3>1, <3>4 DEF Completes
      <3> QED BY <1>1, <1>7, <3>5 DEF OnRenewal
    <2> QED BY <2>1, <2>2
  <1>10. OneOfOurs(m)'
    <2>1. inv[m][t] # "none"
      BY <1>5 DEF Draft
    <2>2. \A k \in Invoices : items'[m][k] # {} \/ pointer'[m] = k => inv'[m][k] # "none"
      BY <1>1, <1>2, <1>6, <2>1 DEF OneOfOurs
    <2> QED BY <1>1, <1>2, <1>7, <2>2 DEF OneOfOurs, Stands
  <1>11. OneHolder(m)'
    BY <1>1, <1>2 DEF OneHolder, Holds
  <1>12. ~Unpinned(m)
    BY <1>3 DEF Unpinned
  <1> QED BY <1>2, <1>8, <1>9, <1>10, <1>11, <1>12

LEMMA FinalizeOne ==
    ASSUME IInv, NEW w \in Workers, NEW m \in Months, worker[w].on = m, OneBiller(m), Finalize(w)
    PROVE  OneBiller(m)'
  <1>0. RowsFit /\ WorkersFit /\ StripeFits
    BY Types DEF IInv
  <1>1. /\ UNCHANGED <<row, carry, pointer, items, stale>> /\ worker[w].step \in Steps
        /\ worker[w].step \in {"pinning", "splitting"}
    BY DEF Finalize, books, Steps
  <1> SUFFICES ASSUME m \notin stale
               PROVE  /\ Unpinned(m)' \/ OnOne(m)' \/ OnRenewal(m)'
                      /\ OneOfOurs(m)' /\ OneHolder(m)'
    BY <1>1 DEF OneBiller
  <1>2. /\ Unpinned(m) \/ OnOne(m) \/ OnRenewal(m)
        /\ OneOfOurs(m) /\ OneHolder(m)
    BY DEF OneBiller
  <1>3. Pins(w, m) /\ inv[m][worker[w].at] # "none"
    BY <1>1, <1>2 DEF Pins, OneOfOurs, Stands
  <1>4. PICK t \in Invoices : t = worker[w].at
    BY <1>3, PinsWhere
  <1>5. /\ worker'[w].step = "pinned" /\ worker'[w].at = t
        /\ worker'[w].on = worker[w].on /\ worker'[w].lost = worker[w].lost
        /\ \A v \in Workers : v # w => worker'[v] = worker[v]
    <2>1. worker' = [worker EXCEPT ![w] = [worker[w] EXCEPT !.step = "pinned", !.at = t]]
      BY <1>1, <1>4, MoveForms DEF Finalize, Step, Steps
    <2> QED BY <1>1, <2>1, WorkerGoesOn DEF Steps
  <1>6. /\ \A k \in Invoices : inv[m][k] # "none" => inv'[m][k] # "none"
        /\ inv'[m]["renewal"] = inv[m]["renewal"]
        /\ \A k \in Invoices : inv[m][k] = "none" => inv'[m][k] = "none"
        /\ \A k \in Invoices : inv[m][k] = "final" => inv'[m][k] = "final"
        /\ t = "renewal" \/ inv'[m][t] = "final"
    <2>1. inv' = IF t = "renewal" THEN inv ELSE [inv EXCEPT ![m][t] = "final"]
      BY <1>4 DEF Finalize
    <2>2. \A k \in Invoices : inv'[m][k] = IF k = t /\ t # "renewal" THEN "final" ELSE inv[m][k]
      BY <1>0, <2>1 DEF StripeFits
    <2> QED BY <1>3, <1>4, <2>2 DEF Invoices
  <1>7. /\ \A v \in Workers : (Pins(v, m)' <=> Pins(v, m)) /\ (Holds(v, m)' <=> Holds(v, m))
        /\ \A v \in Workers : worker'[v].at = worker[v].at
        /\ \A v \in Workers : worker'[v].step = worker[v].step \/ v = w
    <2>1. t # None
      BY UsageInvoiceAssumption DEF Invoices
    <2>2. Pins(w, m)' /\ (Holds(w, m)' <=> Holds(w, m))
      BY <1>5, <2>1 DEF Pins, Holds
    <2>3. ASSUME NEW v \in Workers, v # w
          PROVE  (Pins(v, m)' <=> Pins(v, m)) /\ (Holds(v, m)' <=> Holds(v, m))
      BY <1>5, <2>3 DEF Pins, Holds
    <2> QED BY <1>3, <1>4, <1>5, <2>2, <2>3
  <1>8. OnOne(m) => OnOne(m)'
    BY <1>1, <1>5, <1>7 DEF OnOne
  <1>9. OnRenewal(m) => OnRenewal(m)'
    <2> SUFFICES ASSUME OnRenewal(m) PROVE OnRenewal(m)'
      OBVIOUS
    <2>1. pointer[m] \in Invoices \cup {None}
      BY <1>0 DEF RowsFit
    <2>2. pointer'[m] # None
          /\ (pointer'[m] # "renewal" => inv'[m][pointer'[m]] = "final" /\ inv'[m]["renewal"] = "final")
      BY <1>1, <1>6, <2>1 DEF OnRenewal
    <2>3. Completes(m)'
      BY <1>1, <1>6 DEF OnRenewal, Completes
    <2>4. ASSUME NEW v \in Workers, Pins(v, m)'
          PROVE  \/ worker'[v].at = "renewal" /\ worker'[v].step # "splitting"
                 \/ /\ worker'[v].at \in Ours /\ inv'[m]["renewal"] = "final"
                    /\ worker'[v].step = "pinning" => inv'[m][worker'[v].at] = "final"
      BY <1>5, <1>6, <1>7, <2>4, PinsWhere DEF OnRenewal
    <2> QED BY <2>2, <2>3, <2>4 DEF OnRenewal
  <1>10. OneOfOurs(m)'
    <2>1. \A v \in Workers : Pins(v, m)' => Stands(v, m)'
      <3>1. ASSUME NEW v \in Workers, Pins(v, m)', v # w PROVE Stands(v, m)'
        BY <1>2, <1>5, <1>6, <1>7, <3>1, PinsWhere DEF OneOfOurs, Stands
      <3>2. Stands(w, m)'
        BY <1>3, <1>4, <1>5, <1>6 DEF Stands
      <3> QED BY <3>1, <3>2
    <2>2. inv'[m]["standalone"] = "none" \/ inv'[m]["remainder"] = "none"
      BY <1>2, <1>6 DEF OneOfOurs, Invoices
    <2>3. inv'[m]["remainder"] # "none" => pointer'[m] # None
      BY <1>1, <1>2, <1>6 DEF OneOfOurs, Invoices
    <2> QED BY <1>1, <1>2, <1>6, <2>1, <2>2, <2>3 DEF OneOfOurs
  <1>11. OneHolder(m)'
    BY <1>1, <1>2, <1>5, <1>7 DEF OneHolder
  <1>12. ~Unpinned(m)
    BY <1>3 DEF Unpinned
  <1> QED BY <1>2, <1>8, <1>9, <1>10, <1>11, <1>12

LEMMA RecordOne ==
    ASSUME IInv, NEW w \in Workers, NEW m \in Months, worker[w].on = m, OneBiller(m), Record(w)
    PROVE  OneBiller(m)'
  <1>0. RowsFit /\ WorkersFit /\ StripeFits
    BY Types DEF IInv
  <1>1. UNCHANGED <<carry, inv, items, stale>> /\ worker[w].step = "pinned"
    BY DEF Record, stripe
  <1>2. /\ worker'[w].on # m
        /\ \A v \in Workers : v # w => worker'[v] = worker[v]
    BY <1>0, UsageInvoiceAssumption DEF Record, Idle, WorkersFit
  <1>3. CASE row[m] # "pushing"
    BY <1>1, <1>2, <1>3, Untouched DEF Record
  <1>4. CASE row[m] = "pushing"
    <2>1. /\ pointer'[m] = IF worker[w].at = None THEN pointer[m] ELSE worker[w].at
          /\ row'[m] \in Recorded /\ row'[m] # "pushing"
      BY <1>0, <1>4 DEF Record, RowsFit, Recorded
    <2> SUFFICES ASSUME m \notin stale
                 PROVE  /\ Unpinned(m)' \/ OnOne(m)' \/ OnRenewal(m)'
                        /\ OneOfOurs(m)' /\ OneHolder(m)'
      BY <1>1 DEF OneBiller
    <2>2. /\ Unpinned(m) \/ OnOne(m) \/ OnRenewal(m)
          /\ OneOfOurs(m) /\ OneHolder(m)
      BY DEF OneBiller
    <2>3. \A v \in Workers : Pins(v, m)' => Pins(v, m) /\ worker'[v] = worker[v]
      BY <1>2 DEF Pins
    <2>4. worker[w].at # None => Pins(w, m)
      BY <1>1 DEF Pins
    <2>5. worker[w].at # None => inv[m][worker[w].at] # "none"
      BY <2>2, <2>4 DEF OneOfOurs, Stands
    <2>6. Unpinned(m) => Unpinned(m)'
      BY <1>1, <2>1, <2>3, <2>4 DEF Unpinned
    <2>7. OnOne(m) => OnOne(m)'
      <3> SUFFICES ASSUME OnOne(m) PROVE OnOne(m)'
        OBVIOUS
      <3>1. pointer'[m] = pointer[m]
        BY <2>1, <2>4 DEF OnOne
      <3> QED BY <1>1, <2>3, <3>1 DEF OnOne
    <2>8. OnRenewal(m) => OnRenewal(m)'
      <3> SUFFICES ASSUME OnRenewal(m) PROVE OnRenewal(m)'
        OBVIOUS
      <3>1. /\ pointer'[m] # None
            /\ pointer'[m] # "renewal" => inv[m][pointer'[m]] = "final" /\ inv[m]["renewal"] = "final"
        BY <1>1, <2>1, <2>2, <2>4 DEF OnRenewal, OneOfOurs, Stands
      <3>2. Completes(m)'
        BY <1>1 DEF OnRenewal, Completes
      <3> QED BY <1>1, <2>1, <2>3, <3>1, <3>2 DEF OnRenewal
    <2>9. OneOfOurs(m)'
      <3>1. \A k \in Invoices : items'[m][k] # {} \/ pointer'[m] = k => inv'[m][k] # "none"
        BY <1>1, <2>1, <2>2, <2>5 DEF OneOfOurs
      <3>2. inv'[m]["remainder"] # "none" => pointer'[m] # None
        BY <1>1, <2>1, <2>2 DEF OneOfOurs
      <3> QED BY <1>1, <2>2, <2>3, <3>1, <3>2 DEF OneOfOurs, Stands
    <2>10. OneHolder(m)'
      <3>1. \A v \in Workers : worker'[v].on = m => worker'[v] = worker[v]
        BY <1>2
      <3> QED BY <2>1, <2>2, <3>1 DEF OneHolder, Holds
    <2> QED BY <2>2, <2>6, <2>7, <2>8, <2>9, <2>10
  <1> QED BY <1>3, <1>4

LEMMA RenewalOne ==
    ASSUME IInv, NEW m \in Months, OneBiller(m), RenewalMoves(m) PROVE OneBiller(m)'
  <1>0. StripeFits
    BY Types DEF IInv
  <1>1. UNCHANGED <<row, pointer, worker, items, stale>>
    BY DEF RenewalMoves, books
  <1> SUFFICES ASSUME m \notin stale
               PROVE  /\ Unpinned(m)' \/ OnOne(m)' \/ OnRenewal(m)'
                      /\ OneOfOurs(m)' /\ OneHolder(m)'
    BY <1>1 DEF OneBiller
  <1>2. /\ Unpinned(m) \/ OnOne(m) \/ OnRenewal(m)
        /\ OneOfOurs(m) /\ OneHolder(m)
    BY DEF OneBiller
  <1>3. /\ inv[m]["renewal"] \in {"young", "aging"} /\ inv'[m]["renewal"] \in {"aging", "final"}
        /\ \A k \in Invoices : k # "renewal" => inv'[m][k] = inv[m][k]
    BY <1>0 DEF RenewalMoves, StripeFits, Invoices
  <1>4. \A v \in Workers : (Pins(v, m)' <=> Pins(v, m)) /\ (Holds(v, m)' <=> Holds(v, m))
    BY <1>1 DEF Pins, Holds
  <1>5. Unpinned(m) => Unpinned(m)'
    BY <1>1, <1>4 DEF Unpinned
  <1>6. OnOne(m) => OnOne(m)'
    BY <1>1, <1>4 DEF OnOne
  <1>7. OnRenewal(m) => OnRenewal(m)'
    <2> SUFFICES ASSUME OnRenewal(m) PROVE OnRenewal(m)'
      OBVIOUS
    <2>1. pointer[m] = "renewal" /\ \A v \in Workers : Pins(v, m) => worker[v].at = "renewal"
      BY <1>3 DEF OnRenewal
    <2>2. \A k \in Ours : items[m][k] = {}
      BY <1>3 DEF OnRenewal, Completes
    <2>3. Completes(m)'
      BY <1>1, <2>2 DEF Completes
    <2>4. \A v \in Workers : Pins(v, m)' => worker'[v].at = "renewal" /\ worker'[v].step # "splitting"
      BY <1>1, <1>4, <2>1 DEF OnRenewal, Ours
    <2> QED BY <1>1, <2>1, <2>3, <2>4, UsageInvoiceAssumption DEF OnRenewal
  <1>8. OneOfOurs(m)'
    <2>1. \A k \in Invoices : inv[m][k] # "none" => inv'[m][k] # "none"
      BY <1>3
    <2>2. \A v \in Workers : Pins(v, m)' => Stands(v, m)'
      BY <1>1, <1>2, <1>3, <1>4, <2>1, PinsWhere DEF OneOfOurs, Stands
    <2>3. inv'[m]["standalone"] = inv[m]["standalone"] /\ inv'[m]["remainder"] = inv[m]["remainder"]
      BY <1>3 DEF Invoices
    <2> QED BY <1>1, <1>2, <2>1, <2>2, <2>3 DEF OneOfOurs
  <1>9. OneHolder(m)'
    BY <1>1, <1>2, <1>4 DEF OneHolder
  <1> QED BY <1>2, <1>5, <1>6, <1>7, <1>8, <1>9

LEMMA ClaimOne ==
    ASSUME IInv, NEW w \in Workers, NEW m \in Months, OneBiller(m), Claim(w, m) PROVE OneBiller(m)'
  <1>0. RowsFit /\ WorkersFit
    BY Types DEF IInv
  <1>1. UNCHANGED <<pointer, inv, items, stale>>
    BY DEF Claim, stripe
  <1>2. CASE worker' = worker /\ row'[m] # "pushing"
    BY <1>1, <1>2, Untouched
  <1>3. CASE /\ row' = [row EXCEPT ![m] = "pushing"]
             /\ worker' = [v \in Workers |->
                  IF v = w THEN [Idle EXCEPT !.step = "claimed", !.on = m]
                  ELSE [worker[v] EXCEPT !.lost = @ \/ worker[v].on = m]]
    <2> SUFFICES ASSUME m \notin stale
                 PROVE  /\ Unpinned(m)' \/ OnOne(m)' \/ OnRenewal(m)'
                        /\ OneOfOurs(m)' /\ OneHolder(m)'
      BY <1>1 DEF OneBiller
    <2>2. /\ Unpinned(m) \/ OnOne(m) \/ OnRenewal(m)
          /\ OneOfOurs(m) /\ OneHolder(m)
      BY DEF OneBiller
    <2>3. worker'[w].step = "claimed" /\ worker'[w].at = None /\ ~worker'[w].lost
      BY <1>3 DEF Idle
    <2>4. ASSUME NEW v \in Workers, v # w
          PROVE  /\ worker'[v].step = worker[v].step /\ worker'[v].on = worker[v].on
                 /\ worker'[v].at = worker[v].at /\ (worker[v].on = m => worker'[v].lost)
      <3>1. worker'[v] = [worker[v] EXCEPT !.lost = @ \/ worker[v].on = m]
        BY <1>3, <2>4
      <3>2. worker[v] \in [step : {"idle"} \cup Steps, on : {None} \cup Months,
                          at : Invoices \cup {None}, lost : BOOLEAN]
        <4>1. worker[v] \in Tasks
          BY <1>0 DEF WorkersFit
        <4>2. CASE worker[v] = Idle
          BY <4>2 DEF Idle
        <4>3. CASE worker[v] \in [step : Steps, on : Months, at : Invoices \cup {None}, lost : BOOLEAN]
          BY <4>3
        <4> QED BY <4>1, <4>2, <4>3 DEF Tasks
      <3>3. /\ worker'[v].step = worker[v].step /\ worker'[v].on = worker[v].on
            /\ worker'[v].at = worker[v].at
        BY <3>1, <3>2
      <3>4. worker'[v].lost = (worker[v].lost \/ worker[v].on = m)
        BY <3>1, <3>2, Zenon
      <3> QED BY <3>3, <3>4
    <2>5. \A v \in Workers : Pins(v, m)' => /\ Pins(v, m) /\ worker'[v].step = worker[v].step
                                            /\ worker'[v].at = worker[v].at
      BY <2>3, <2>4 DEF Pins
    <2>6. Unpinned(m) => Unpinned(m)'
      BY <1>1, <2>5 DEF Unpinned
    <2>7. OnOne(m) => OnOne(m)'
      BY <1>1, <2>5 DEF OnOne
    <2>8. OnRenewal(m) => OnRenewal(m)'
      <3> SUFFICES ASSUME OnRenewal(m) PROVE OnRenewal(m)'
        OBVIOUS
      <3>1. Completes(m)'
        BY <1>1 DEF OnRenewal, Completes
      <3> QED BY <1>1, <2>5, <3>1 DEF OnRenewal
    <2>9. OneOfOurs(m)'
      BY <1>1, <2>2, <2>5 DEF OneOfOurs, Stands
    <2>10. OneHolder(m)'
      <3>1. \A v \in Workers : Holds(v, m)' => v = w
        BY <2>4 DEF Holds
      <3>2. \A v \in Workers : worker'[v].on = m /\ worker'[v].step = "claimed" => worker'[v].at = None
        BY <2>2, <2>3, <2>4 DEF OneHolder
      <3> QED BY <2>3, <3>1, <3>2 DEF OneHolder
    <2> QED BY <2>2, <2>6, <2>7, <2>8, <2>9, <2>10
  <1> QED
    <2>1. \/ worker' = worker /\ \E s \in {"failed_permanent", "empty", "skipped"} :
                 row' = [row EXCEPT ![m] = s]
          \/ /\ row' = [row EXCEPT ![m] = "pushing"]
             /\ worker' = [v \in Workers |->
                  IF v = w THEN [Idle EXCEPT !.step = "claimed", !.on = m]
                  ELSE [worker[v] EXCEPT !.lost = @ \/ worker[v].on = m]]
      BY DEF Claim
    <2>2. (\E s \in {"failed_permanent", "empty", "skipped"} : row' = [row EXCEPT ![m] = s])
            => row'[m] # "pushing"
      BY <1>0 DEF RowsFit
    <2> QED BY <1>2, <1>3, <2>1, <2>2

\* A step on another month.
LEMMA ElsewhereOne ==
    ASSUME IInv, NEW w \in Workers, NEW n \in Months, NEW m \in Months, n # m, OneBiller(m),
           \/ Claim(w, n)
           \/ /\ worker[w].on = n
              /\ \/ Resolve(w) \/ Persist(w) \/ Split(w) \/ Finalize(w) \/ Record(w)
                 \/ \E i \in Lines(n) : Pin(w, i)
    PROVE  OneBiller(m)'
  <1>0. RowsFit /\ WorkersFit /\ StripeFits
    BY Types DEF IInv
  <1>1. CASE Claim(w, n)
    <2>1. UNCHANGED <<pointer, inv, items, stale>> /\ row'[m] = row[m]
      BY <1>0, <1>1 DEF Claim, stripe, RowsFit
    <2>2. \A v \in Workers : worker'[v].on = m => worker'[v] = worker[v]
      <3>1. CASE worker' = worker
        BY <3>1
      <3>2. CASE worker' = [v \in Workers |->
                  IF v = w THEN [Idle EXCEPT !.step = "claimed", !.on = n]
                  ELSE [worker[v] EXCEPT !.lost = @ \/ worker[v].on = n]]
        <4> SUFFICES ASSUME NEW v \in Workers, worker'[v].on = m PROVE worker'[v] = worker[v]
          OBVIOUS
        <4>1. v # w
          BY <3>2 DEF Idle
        <4>2. worker'[v] = [worker[v] EXCEPT !.lost = @ \/ worker[v].on = n]
          BY <3>2, <4>1
        <4>3. worker[v] # Idle => worker[v].on = m /\ worker[v].lost \in BOOLEAN
          BY <1>0, <4>2 DEF WorkersFit, Tasks
        <4>4. worker[v] # Idle
          BY <4>2, UsageInvoiceAssumption DEF Idle
        <4>5. worker[v] \in [step : Steps, on : Months, at : Invoices \cup {None}, lost : BOOLEAN]
          BY <1>0, <4>4 DEF WorkersFit, Tasks
        <4> QED BY <4>2, <4>3, <4>4, <4>5
      <3> QED BY <1>1, <3>1, <3>2 DEF Claim
    <2> QED BY <2>1, <2>2, Untouched
  <1>2. CASE /\ worker[w].on = n
             /\ \/ Resolve(w) \/ Persist(w) \/ Split(w) \/ Finalize(w) \/ Record(w)
                \/ \E i \in Lines(n) : Pin(w, i)
    <2>1. row'[m] = row[m] /\ pointer'[m] = pointer[m] /\ (m \in stale => m \in stale')
      BY <1>0, <1>2 DEF Resolve, Persist, Split, Finalize, Record, Pin, books, RowsFit
    <2>2. inv'[m] = inv[m]
      BY <1>0, <1>2 DEF Resolve, Persist, Split, Finalize, Record, Pin, stripe, StripeFits
    <2>3. items'[m] = items[m]
      BY <1>0, <1>2 DEF Resolve, Persist, Split, Finalize, Record, Pin, stripe, StripeFits
    <2>4. (\A v \in Workers : v # w => worker'[v] = worker[v]) /\ worker'[w].on # m
      <3>1. ASSUME NEW x, worker' = [worker EXCEPT ![w] = x]
            PROVE  \A v \in Workers : v # w => worker'[v] = worker[v]
        BY <1>0, <3>1 DEF WorkersFit
      <3>2. worker[w] # Idle /\ worker[w].step \in Steps
        BY <1>0, <1>2, UsageInvoiceAssumption DEF WorkersFit, Tasks, Idle
      <3>3. worker[w] \in [step : Steps, on : Months, at : Invoices \cup {None}, lost : BOOLEAN]
            /\ worker \in [Workers -> Tasks]
        BY <1>0, <3>2 DEF WorkersFit, Tasks
      <3>4. \/ worker' = worker
            \/ worker' = [worker EXCEPT ![w] = Idle]
            \/ \E s : worker' = [worker EXCEPT ![w].step = s]
            \/ \E s, t : worker' = [worker EXCEPT ![w].step = s, ![w].at = t]
        <4>1. CASE Resolve(w) \/ Persist(w)
          BY ONLY <4>1 DEF Resolve, Persist, Step
        <4>2. CASE Split(w) \/ Finalize(w) \/ Record(w)
          BY ONLY <4>2 DEF Split, Finalize, Record, Step
        <4>3. CASE \E i \in Lines(n) : Pin(w, i)
          BY ONLY <4>3 DEF Pin
        <4> QED BY <1>2, <4>1, <4>2, <4>3
      <3>5. CASE worker' = worker
        BY <1>2, <3>5
      <3>6. CASE worker' = [worker EXCEPT ![w] = Idle]
        BY <3>3, <3>6, UsageInvoiceAssumption DEF Idle
      <3>7. ASSUME NEW s, worker' = [worker EXCEPT ![w].step = s] PROVE <2>4!:
        BY <1>2, <3>3, <3>7
      <3>8. ASSUME NEW s, NEW t, worker' = [worker EXCEPT ![w].step = s, ![w].at = t] PROVE <2>4!:
        BY <1>2, <3>3, <3>8
      <3> QED BY <3>4, <3>5, <3>6, <3>7, <3>8
    <2> QED BY <2>1, <2>2, <2>3, <2>4, Untouched
  <1> QED BY <1>1, <1>2

\* A worker that works is on a month.
LEMMA WorksOn ==
    ASSUME IInv, NEW w \in Workers,
           Resolve(w) \/ Persist(w) \/ Split(w) \/ Finalize(w) \/ Record(w)
    PROVE  worker[w].on \in Months
  <1>1. worker[w].step \in Steps
    BY DEF Resolve, Persist, Split, Finalize, Record, Steps
  <1> QED BY <1>1, OnMonth DEF IInv

LEMMA StepOne == ASSUME IInv, OneBillers, Next PROVE OneBillers'
  <1>0. RowsFit /\ WorkersFit /\ StripeFits
    BY Types DEF IInv
  <1> SUFFICES ASSUME NEW m \in Months, OneBiller(m) PROVE OneBiller(m)'
    BY DEF OneBillers
  <1>1. ASSUME NEW w \in Workers, Resolve(w) \/ Persist(w) \/ Split(w) \/ Finalize(w) \/ Record(w)
        PROVE  OneBiller(m)'
    <2>1. worker[w].on \in Months
      BY <1>1, WorksOn
    <2>2. CASE worker[w].on = m
      BY <1>1, <2>2, ResolveOne, PersistOne, SplitOne, FinalizeOne, RecordOne
    <2>3. CASE worker[w].on # m
      BY <1>1, <2>1, <2>3, ElsewhereOne
    <2> QED BY <2>2, <2>3
  <1>2. ASSUME NEW w \in Workers, WorkerDies(w) \/ \E fatal \in BOOLEAN : PushFails(w, fatal)
        PROVE  OneBiller(m)'
    <2>1. worker' = [worker EXCEPT ![w] = Idle] /\ UNCHANGED <<pointer, inv, items, stale>>
      BY <1>2 DEF WorkerDies, PushFails, books, stripe
    <2>2. /\ worker'[w].on # m /\ \A v \in Workers : v # w => worker'[v] = worker[v]
      BY <1>0, <2>1, UsageInvoiceAssumption DEF Idle, WorkersFit
    <2>3. row'[m] = row[m] \/ row'[m] # "pushing"
      BY <1>0, <1>2 DEF WorkerDies, PushFails, Mark, books, RowsFit
    <2> QED BY <2>1, <2>2, <2>3, Untouched
  <1>3. ASSUME NEW n \in Months, NEW w \in Workers,
               Claim(w, n) \/ (\E i \in Lines(n) : worker[w].on = n /\ Pin(w, i))
        PROVE  OneBiller(m)'
    <2>1. CASE n = m
      BY <1>3, <2>1, ClaimOne, PinOne
    <2>2. CASE n # m
      BY <1>3, <2>2, ElsewhereOne
    <2> QED BY <2>1, <2>2
  <1>4. ASSUME NEW n \in Months,
               ClaimRaises(n) \/ Reclaim(n) \/ Recover(n) \/ RepushRead(n) \/ RepushSave(n)
        PROVE  OneBiller(m)'
    <2>1. UNCHANGED <<pointer, worker, inv, items, stale>>
      BY <1>4 DEF ClaimRaises, Reclaim, Recover, RepushRead, RepushSave, books, stripe
    <2>2. row'[m] = row[m] \/ row'[m] # "pushing"
      BY <1>0, <1>4 DEF ClaimRaises, Reclaim, Recover, RepushRead, RepushSave, books, RowsFit
    <2> QED BY <2>1, <2>2, Untouched
  <1>5. ASSUME NEW n \in Months, RenewalMoves(n) PROVE OneBiller(m)'
    <2>1. CASE n = m
      BY <1>5, <2>1, RenewalOne
    <2>2. CASE n # m
      <3>1. UNCHANGED <<row, pointer, worker, items, stale>> /\ inv'[m] = inv[m]
        BY <1>0, <1>5, <2>2 DEF RenewalMoves, books, StripeFits
      <3> QED BY <3>1, Untouched
    <2> QED BY <2>1, <2>2
  <1>6. CASE BecomeReady
    BY <1>6, Untouched DEF BecomeReady, books, stripe
  <1> QED BY <1>1, <1>2, <1>3, <1>4, <1>5, <1>6 DEF Next

LEMMA InitOne == Init => OneBillers
  <1> SUFFICES ASSUME Init, NEW m \in Months PROVE OneBiller(m)
    BY DEF OneBillers
  <1>1. \A w \in Workers : worker[w].on # m
    BY UsageInvoiceAssumption DEF Init, Idle
  <1>2. /\ row[m] = "none" /\ pointer[m] = None /\ \A k \in Invoices : items[m][k] = {}
        /\ inv[m]["standalone"] = "none" /\ inv[m]["remainder"] = "none"
    BY DEF Init, Invoices
  <1>3. Unpinned(m)
    BY <1>1, <1>2 DEF Unpinned, Pins
  <1>4. None \notin Invoices
    BY UsageInvoiceAssumption DEF Invoices
  <1>5. OneOfOurs(m)
    BY <1>1, <1>2, <1>4 DEF OneOfOurs, Pins
  <1>6. OneHolder(m)
    BY <1>1, <1>2 DEF OneHolder, Holds
  <1> QED BY <1>3, <1>5, <1>6 DEF OneBiller

\* No line is billed twice, whichever workers die, fail, lose their claim or are
\* resumed and whenever Stripe finalizes the renewal, except in a month where a
\* worker that lost its claim wrote the pointer (Phase 2a).
THEOREM LinesBilledOnce == Spec => []BilledOnce
  <1>1. IInv /\ OneBillers /\ [Next]_vars => OneBillers'
    <2> SUFFICES ASSUME IInv, OneBillers, [Next]_vars PROVE OneBillers'
      OBVIOUS
    <2>1. CASE UNCHANGED vars
      <3>1. UNCHANGED <<row, pointer, worker, inv, items, stale>>
        BY <2>1 DEF vars, books, stripe
      <3> QED BY <3>1, Untouched DEF OneBillers
    <2> QED BY <2>1, StepOne
  <1>2. OneBillers => BilledOnce
    BY BilledByOne
  <1> QED BY <1>1, <1>2, InitOne, UsageInvoiceInvariance, PTL DEF Spec
=============================================================================
