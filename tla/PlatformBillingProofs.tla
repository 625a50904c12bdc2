------------------------ MODULE PlatformBillingProofs ------------------------
(***************************************************************************)
(* For any number of months, postings, runs and faults: a tenant is        *)
(* charged at most once for a period, unless a run ended between Stripe's  *)
(* finalize and its record, and a recorded invoice is final.               *)
(*                                                                         *)
(* ChargedOnce is not inductive.  That a second run reaches the same       *)
(* invoice rests on Stripe's key outliving the runs that know it (Keyed),  *)
(* and that no run starts once the key is forgotten rests on a final       *)
(* invoice being recorded or about to be (Answered).                       *)
(*                                                                         *)
(* The fees have an invariant of their own (FInv).  A close carries from   *)
(* the period closed before it because periods are made and closed in the  *)
(* order of their months (Ordered), and what it bills arrived in its month *)
(* because what is under way at the end of one is named (InFlight) and     *)
(* what a pass found of a month that is over is final until its close      *)
(* (Seen, Found).  A price that is set later is known to be late (Late).   *)
(***************************************************************************)
EXTENDS PlatformBilling, Sums

\* The state of the invoice job.
JobType ==
    /\ status \in [Months -> Statuses] /\ invoice \in [Months -> Nat]
    /\ worker \in [Workers -> WorkerType] /\ stripe \in [Months -> StripeType]
    /\ lost \subseteq Months

\* A run holds the invoice that the key answers, and has done at Stripe what
\* lies before its step.
Keyed ==
    \A w \in Workers :
        LET m == worker[w].on
            x == worker[w].at
        IN  /\ worker[w].step \in {"item", "finalize", "record"} =>
                  x # 0 /\ x = stripe[m].key
            /\ worker[w].step \in {"finalize", "record"} => x \in stripe[m].items
            /\ worker[w].step = "record" => x \in stripe[m].final

Running(m) == \E w \in Workers : worker[w].step # "idle" /\ worker[w].on = m
Recording(m) == \E w \in Workers : worker[w].step = "record" /\ worker[w].on = m

\* A final invoice is the one the key answers, or it is recorded and no run is
\* left; and until it is recorded a run is about to.
Answered ==
    \A m \in Months \ lost : \A x \in stripe[m].final :
        /\ x # 0
        /\ \/ x = stripe[m].key
           \/ status[m] = "invoiced" /\ ~Running(m)
        /\ status[m] # "invoiced" => Recording(m)

IInv == JobType /\ Keyed /\ Answered /\ ChargedOnce

LEMMA OneIsMonth == 1 \in Months
  BY PlatformBillingAssumption DEF Months

\* The initial states satisfy the invariant.
LEMMA InitJob == Init => IInv
  BY OneIsMonth DEF Init, IInv, JobType, Keyed, Answered, ChargedOnce, Statuses, WorkerType,
                    StripeType, IdleWorker

\* Steps of the usage and of the passes: no run moves, no invoiced period
\* changes and none becomes invoiced.
LEMMA JobAlone ==
    ASSUME IInv, UNCHANGED <<invoice, worker, stripe, lost>>,
           status' \in [Months -> Statuses],
           \A m \in Months : status[m] = "invoiced" <=> status'[m] = "invoiced"
    PROVE  IInv'
  BY DEF IInv, JobType, Keyed, Answered, ChargedOnce, Running, Recording

\* A posting accumulates: the update and the create are of a period that was
\* not closed.
LEMMA PostingStep ==
    ASSUME IInv, NEW p \in Postings, OnPosting(p)
    PROVE  IInv'
  <1> USE DEF IInv, JobType, Statuses
  <1>1. UNCHANGED <<invoice, worker, stripe, lost>>
    BY DEF OnPosting, Create, Commit, ReadPeriod, CreatePeriod, NoPeriodYet, HandlerFails,
           Accumulate, Raised, invoicing
  <1> DEFINE Kept == /\ status' \in [Months -> Statuses]
                     /\ \A n \in Months : status[n] = "invoiced" <=> status'[n] = "invoiced"
  <1>2. ASSUME NEW m, status[m] \in {"none", "open"}, status' = [status EXCEPT ![m] = "open"]
        PROVE  Kept
    BY <1>2
  <1>3. Kept
    <2>1. CASE CreatePeriod(p)
      <3>1. status[now] \in {"none", "open"} /\ status' = [status EXCEPT ![now] = "open"]
        BY <2>1 DEF CreatePeriod, Add
      <3> QED BY <3>1, <1>2
    <2>2. CASE Accumulate(p)
      <3> DEFINE m == IF status[post[p].target] = "open" THEN post[p].target ELSE now
      <3>1. CASE status[m] = "none" /\ Open # {}
        BY <2>2, <3>1 DEF Accumulate, Raised, billing
      <3>2. CASE ~(status[m] = "none" /\ Open # {}) /\ status[m] \in {"none", "open"}
        <4>1. status' = [status EXCEPT ![m] = "open"]
          BY <2>2, <3>2 DEF Accumulate, Add
        <4> QED BY <3>2, <4>1, <1>2
      <3>3. CASE status[m] \notin {"none", "open"}
        BY <2>2, <3>3 DEF Accumulate
      <3> QED BY <3>1, <3>2, <3>3
    <2>3. CASE ~CreatePeriod(p) /\ ~Accumulate(p)
      BY <2>3 DEF OnPosting, Create, Commit, ReadPeriod, NoPeriodYet, HandlerFails, Raised, billing
    <2> QED BY <2>1, <2>2, <2>3
  <1> QED BY <1>1, <1>3, JobAlone

\* The passes close only an open period.
LEMMA PassStep ==
    ASSUME IInv,
           \/ \E k \in Passes : OnPass(k)
           \/ \E m \in Months : StartHourly(m) \/ StartClose(m) \/ Resolve(m)
           \/ RefuseClose \/ ClosePeriod \/ SetCustomer
    PROVE  IInv'
  <1> USE DEF IInv, JobType, Statuses
  <1>1. UNCHANGED <<invoice, worker, stripe, lost>>
    BY DEF OnPass, ReadTotals, WriteTotals, PassDies, StartHourly, StartClose, Resolve, RefuseClose,
           ClosePeriod, SetCustomer, invoicing
  <1>2. \/ UNCHANGED status
        \/ \E m : status[m] = "open" /\ status' = [status EXCEPT ![m] = "closed"]
    BY DEF OnPass, ReadTotals, WriteTotals, PassDies, StartHourly, StartClose, Resolve, RefuseClose,
           ClosePeriod, SetCustomer, billing
  <1>3. /\ status' \in [Months -> Statuses]
        /\ \A m \in Months : status[m] = "invoiced" <=> status'[m] = "invoiced"
    BY <1>2
  <1> QED BY <1>1, <1>3, JobAlone

\* A period that has no fee, a claim that is taken back: the runs are not told.
LEMMA MonthStep ==
    ASSUME IInv, NEW m \in Months, InvoiceNothing(m) \/ Reclaim(m)
    PROVE  IInv'
  <1>1. UNCHANGED <<invoice, worker, stripe, lost>>
    BY DEF InvoiceNothing, Reclaim, invoicing
  <1>2. CASE InvoiceNothing(m)
    <2>1. status' = [status EXCEPT ![m] = "invoiced"]
      BY <1>2 DEF InvoiceNothing
    <2> QED BY <1>1, <2>1 DEF IInv, JobType, Statuses, Keyed, Answered, ChargedOnce, Running, Recording
  <1>3. CASE Reclaim(m)
    <2>1. status[m] = "invoicing" /\ status' = [status EXCEPT ![m] = "closed"]
      BY <1>3 DEF Reclaim, GivenUp
    <2>2. /\ status' \in [Months -> Statuses]
          /\ \A n \in Months : status[n] = "invoiced" <=> status'[n] = "invoiced"
      BY <2>1 DEF IInv, JobType, Statuses
    <2> QED BY <1>1, <2>2, JobAlone
  <1> QED BY <1>2, <1>3

\* A claim starts a run at the first call, of a period that is not invoiced.
LEMMA ClaimStep ==
    ASSUME IInv, NEW w \in Workers, NEW m \in Months, Claim(w, m)
    PROVE  IInv'
  <1>1. /\ worker[w].step = "idle" /\ status[m] = "closed"
        /\ status' = [status EXCEPT ![m] = "invoicing"]
        /\ worker' = [worker EXCEPT ![w] = [step |-> "create", on |-> m, at |-> 0]]
        /\ UNCHANGED <<invoice, stripe, lost>>
    BY DEF Claim
  <1>2. JobType'
    BY <1>1 DEF IInv, JobType, Statuses, WorkerType
  <1>3. Keyed'
    BY <1>1 DEF IInv, JobType, Keyed
  <1>4. Answered'
    BY <1>1 DEF IInv, JobType, Answered, Running, Recording
  <1>5. ChargedOnce'
    BY <1>1 DEF IInv, ChargedOnce
  <1> QED BY <1>2, <1>3, <1>4, <1>5 DEF IInv

\* Invoice.create: the key answers what it made.  A key that is forgotten has
\* no final invoice behind it, for a run is under way.
LEMMA CreateStep ==
    ASSUME IInv, NEW w \in Workers, CreateInvoice(w)
    PROVE  IInv'
  <1> DEFINE m == worker[w].on
             id == IF stripe[m].key = 0 THEN stripe[m].made + 1 ELSE stripe[m].key
  <1>1. /\ worker[w].step = "create" /\ m \in Months /\ id \in Nat /\ id # 0
        /\ stripe[m].key # 0 => id = stripe[m].key
    BY DEF IInv, JobType, WorkerType, StripeType, CreateInvoice
  <1>2. /\ worker' = [worker EXCEPT ![w].step = "item", ![w].at = id]
        /\ UNCHANGED <<status, invoice, lost>>
    BY DEF CreateInvoice, billing
  <1>3. \E made \in Nat : stripe' = [stripe EXCEPT ![m].made = made, ![m].key = id]
    BY <1>1 DEF IInv, JobType, StripeType, CreateInvoice
  <1> HIDE DEF id
  <1>4. JobType'
    <2>1. worker' \in [Workers -> WorkerType]
      BY <1>1, <1>2 DEF IInv, JobType, WorkerType
    <2>2. PICK made \in Nat : stripe' = [stripe EXCEPT ![m].made = made, ![m].key = id]
      BY <1>3
    <2>3. [stripe[m] EXCEPT !.made = made, !.key = id] \in StripeType
      BY <1>1 DEF IInv, JobType, StripeType
    <2>4. stripe' = [stripe EXCEPT ![m] = [stripe[m] EXCEPT !.made = made, !.key = id]]
      BY <1>1, <2>2 DEF IInv, JobType, StripeType
    <2>5. stripe' \in [Months -> StripeType]
      BY <1>1, <2>3, <2>4 DEF IInv, JobType
    <2> QED BY <1>2, <2>1, <2>5 DEF IInv, JobType
  <1>5. \A n \in Months : /\ stripe'[n].final = stripe[n].final /\ stripe'[n].items = stripe[n].items
                          /\ n # m => stripe'[n].key = stripe[n].key
    BY <1>1, <1>3 DEF IInv, JobType, StripeType
  <1>6. stripe'[m].key = id
    BY <1>1, <1>3 DEF IInv, JobType, StripeType
  <1>7. Keyed'
    BY <1>1, <1>2, <1>5, <1>6 DEF IInv, JobType, WorkerType, Keyed
  <1>8. Answered'
    <2> SUFFICES ASSUME NEW n \in Months \ lost, NEW x \in stripe[n].final
                 PROVE  /\ x # 0
                        /\ x = stripe'[n].key \/ (status[n] = "invoiced" /\ ~Running(n)')
                        /\ status[n] # "invoiced" => Recording(n)'
      BY <1>2, <1>5 DEF Answered
    <2>1. x # 0 /\ (status[n] # "invoiced" => Recording(n))
      BY DEF IInv, Answered
    <2>2. Recording(n) => Recording(n)'
      BY <1>1, <1>2 DEF IInv, JobType, WorkerType, Recording
    <2>3. CASE n = m
      <3>1. Running(m)
        BY <1>1 DEF Running
      <3>2. x = stripe[m].key
        BY <2>3, <3>1 DEF IInv, Answered
      <3> QED BY <1>1, <1>6, <2>1, <2>2, <2>3, <3>2
    <2>4. CASE n # m
      <3>1. Running(n)' => Running(n)
        BY <1>1, <1>2 DEF IInv, JobType, WorkerType, Running
      <3> QED BY <1>5, <2>1, <2>2, <2>4, <3>1 DEF IInv, Answered
    <2> QED BY <2>3, <2>4
  <1>9. ChargedOnce'
    BY <1>2, <1>5 DEF IInv, ChargedOnce
  <1> QED BY <1>4, <1>7, <1>8, <1>9 DEF IInv

\* InvoiceItem.create.
LEMMA ItemStep ==
    ASSUME IInv, NEW w \in Workers, CreateItem(w)
    PROVE  IInv'
  <1> DEFINE m == worker[w].on
  <1>1. /\ worker[w].step = "item" /\ m \in Months
        /\ worker' = [worker EXCEPT ![w].step = "finalize"]
        /\ stripe' = [stripe EXCEPT ![m].items = @ \cup {worker[w].at}]
        /\ UNCHANGED <<status, invoice, lost>>
    BY DEF IInv, JobType, WorkerType, CreateItem, billing
  <1>2. JobType'
    <2>1. worker' \in [Workers -> WorkerType]
      BY <1>1 DEF IInv, JobType, WorkerType
    <2>2. worker[w].at \in Nat
      BY DEF IInv, JobType, WorkerType
    <2>3. stripe' \in [Months -> StripeType]
      BY <1>1, <2>2 DEF IInv, JobType, StripeType
    <2> QED BY <1>1, <2>1, <2>3 DEF IInv, JobType
  <1>3. \A n \in Months : /\ stripe'[n].final = stripe[n].final /\ stripe'[n].key = stripe[n].key
                          /\ stripe[n].items \subseteq stripe'[n].items
    BY <1>1 DEF IInv, JobType, StripeType
  <1>4. worker[w].at \in stripe'[m].items
    BY <1>1 DEF IInv, JobType, StripeType
  <1>5. Keyed'
    BY <1>1, <1>3, <1>4 DEF IInv, JobType, WorkerType, Keyed
  <1>6. Answered'
    BY <1>1, <1>3 DEF IInv, JobType, WorkerType, Answered, Running, Recording
  <1>7. ChargedOnce'
    BY <1>1, <1>3 DEF IInv, ChargedOnce
  <1> QED BY <1>2, <1>5, <1>6, <1>7 DEF IInv

\* Invoice.finalize_invoice: whatever is final already is the key's.
LEMMA FinalizeStep ==
    ASSUME IInv, NEW w \in Workers, Finalize(w)
    PROVE  IInv'
  <1> DEFINE m == worker[w].on
             x == worker[w].at
  <1>1. /\ worker[w].step = "finalize" /\ m \in Months
        /\ worker' = [worker EXCEPT ![w].step = "record"]
        /\ stripe' = [stripe EXCEPT ![m].final = @ \cup {x}]
        /\ UNCHANGED <<status, invoice, lost>>
    BY DEF IInv, JobType, WorkerType, Finalize, billing
  <1>2. JobType'
    <2>1. worker' \in [Workers -> WorkerType]
      BY <1>1 DEF IInv, JobType, WorkerType
    <2>2. worker[w].at \in Nat
      BY DEF IInv, JobType, WorkerType
    <2>3. stripe' \in [Months -> StripeType]
      BY <1>1, <2>2 DEF IInv, JobType, StripeType
    <2> QED BY <1>1, <2>1, <2>3 DEF IInv, JobType
  <1>3. \A n \in Months : /\ stripe'[n].items = stripe[n].items /\ stripe'[n].key = stripe[n].key
                          /\ n # m => stripe'[n].final = stripe[n].final
    BY <1>1 DEF IInv, JobType, StripeType
  <1>4. stripe'[m].final = stripe[m].final \cup {x}
    BY <1>1 DEF IInv, JobType, StripeType
  <1>5. x # 0 /\ x = stripe[m].key /\ x \in stripe[m].items
    BY <1>1 DEF IInv, Keyed
  <1>6. Keyed'
    BY <1>1, <1>3, <1>4 DEF IInv, JobType, WorkerType, Keyed
  <1>7. m \notin lost => \A y \in stripe[m].final : y = x
    BY <1>1, <1>5 DEF IInv, Answered, Running
  <1>8. Answered'
    BY <1>1, <1>3, <1>4, <1>5, <1>7 DEF IInv, JobType, WorkerType, Answered, Running, Recording
  <1>9. ChargedOnce'
    BY <1>1, <1>3, <1>4, <1>5, <1>7 DEF IInv, ChargedOnce
  <1> QED BY <1>2, <1>6, <1>8, <1>9 DEF IInv

\* A run that ends: what it leaves final is recorded, recorded by itself, or
\* counted among the lost.
LEMMA EndStep ==
    ASSUME IInv, NEW w \in Workers, worker[w].step # "idle",
           worker' = [worker EXCEPT ![w] = IdleWorker], UNCHANGED stripe,
           invoice' \in [Months -> Nat], status' \in [Months -> Statuses],
           lost \subseteq lost', lost' \subseteq Months,
           \A m \in Months : /\ invoice'[m] # 0 => invoice'[m] = invoice[m]
                                                   \/ invoice'[m] \in stripe[m].final
                             /\ status[m] = "invoiced" => status'[m] = "invoiced",
           worker[w].step = "record" /\ worker[w].on \notin lost'
               => status'[worker[w].on] = "invoiced"
    PROVE  IInv'
  <1>1. JobType'
    BY OneIsMonth DEF IInv, JobType, WorkerType, IdleWorker
  <1>2. Keyed'
    BY DEF IInv, JobType, Keyed, IdleWorker
  <1>3. Answered'
    BY DEF IInv, JobType, WorkerType, Answered, Running, Recording, IdleWorker
  <1>4. ChargedOnce'
    BY DEF IInv, ChargedOnce
  <1> QED BY <1>1, <1>2, <1>3, <1>4 DEF IInv

\* Phase 3, a failure of Stripe and the end of a run.
LEMMA EndSteps ==
    ASSUME IInv, NEW w \in Workers, Record(w) \/ StripeFails(w) \/ WorkerDies(w)
    PROVE  IInv'
  <1> USE DEF IInv, JobType, WorkerType, Statuses
  <1>1. CASE Record(w)
    <2>1. CASE status[worker[w].on] = "invoicing"
      <3>1. /\ worker[w].step = "record" /\ worker' = [worker EXCEPT ![w] = IdleWorker]
            /\ UNCHANGED <<stripe, lost>>
            /\ invoice' = [invoice EXCEPT ![worker[w].on] = worker[w].at]
            /\ status' = [status EXCEPT ![worker[w].on] = "invoiced"]
        BY <1>1, <2>1 DEF Record
      <3>2. worker[w].at \in stripe[worker[w].on].final
        BY <3>1 DEF Keyed
      <3> QED BY <3>1, <3>2, EndStep
    <2>2. CASE status[worker[w].on] # "invoicing"
      <3>1. /\ worker[w].step = "record" /\ worker' = [worker EXCEPT ![w] = IdleWorker]
            /\ UNCHANGED <<stripe, invoice, status>> /\ lost' = EndedUnrecorded(w)
        BY <1>1, <2>2 DEF Record
      <3> QED BY <3>1, EndStep DEF EndedUnrecorded
    <2> QED BY <2>1, <2>2
  <1>2. CASE StripeFails(w)
    <2>1. /\ worker[w].step # "idle" /\ worker' = [worker EXCEPT ![w] = IdleWorker]
          /\ UNCHANGED <<stripe, invoice>> /\ lost' = EndedUnrecorded(w)
          /\ status' = IF status[worker[w].on] = "invoicing"
                       THEN [status EXCEPT ![worker[w].on] = "closed"] ELSE status
      BY <1>2 DEF StripeFails, GivenUp
    <2> QED BY <2>1, EndStep DEF EndedUnrecorded
  <1>3. CASE WorkerDies(w)
    <2>1. /\ worker[w].step # "idle" /\ worker' = [worker EXCEPT ![w] = IdleWorker]
          /\ UNCHANGED <<stripe, invoice, status>> /\ lost' = EndedUnrecorded(w)
      BY <1>3 DEF WorkerDies, billing
    <2> QED BY <2>1, EndStep DEF EndedUnrecorded
  <1> QED BY <1>1, <1>2, <1>3

\* The month turns when no run is under way: a final invoice that was not lost
\* is recorded, so the forgotten key is not asked again.
LEMMA MonthTurns ==
    ASSUME IInv, NextMonth
    PROVE  IInv'
  <1>1. /\ \A w \in Workers : worker[w].step = "idle"
        /\ stripe' = [m \in Months |-> [stripe[m] EXCEPT !.key = 0]]
        /\ UNCHANGED <<status, invoice, worker, lost>>
    BY DEF NextMonth, billing
  <1>2. JobType'
    BY <1>1 DEF IInv, JobType, StripeType
  <1>3. \A m \in Months : stripe'[m].final = stripe[m].final /\ stripe'[m].items = stripe[m].items
    BY <1>1 DEF IInv, JobType, StripeType
  <1>4. Keyed'
    BY <1>1 DEF Keyed
  <1>5. Answered'
    BY <1>1, <1>3 DEF IInv, Answered, Running, Recording
  <1>6. ChargedOnce'
    BY <1>1, <1>3 DEF IInv, ChargedOnce
  <1> QED BY <1>2, <1>4, <1>5, <1>6 DEF IInv

\* Every step keeps the invariant.
LEMMA StepInv == IInv /\ [Next]_vars => IInv'
  <1> SUFFICES ASSUME IInv, [Next]_vars PROVE IInv'
    OBVIOUS
  <1>1. CASE \E p \in Postings : OnPosting(p)
    BY <1>1, PostingStep
  <1>2. CASE \E k \in Passes : OnPass(k)
    BY <1>2, PassStep
  <1>3. CASE \E m \in Months : OnMonth(m)
    BY <1>3, PassStep, MonthStep DEF OnMonth
  <1>4. CASE \E w \in Workers : OnWorker(w)
    BY <1>4, ClaimStep, CreateStep, ItemStep, FinalizeStep, EndSteps DEF OnWorker, Push
  <1>5. CASE RefuseClose \/ ClosePeriod \/ SetCustomer
    BY <1>5, PassStep
  <1>6. CASE NextMonth
    BY <1>6, MonthTurns
  <1>7. CASE UNCHANGED vars
    <2>1. UNCHANGED <<status, invoice, worker, stripe, lost>>
      BY <1>7 DEF vars, billing, invoicing
    <2> QED BY <2>1, JobAlone DEF IInv, JobType
  <1>8. CASE \E p \in Postings : ResolvePrice(p)
    <2>1. UNCHANGED <<status, invoice, worker, stripe, lost>>
      BY <1>8 DEF ResolvePrice, billing, invoicing
    <2> QED BY <2>1, JobAlone DEF IInv, JobType
  <1> QED BY <1>1, <1>2, <1>3, <1>4, <1>5, <1>6, <1>7, <1>8 DEF Next

\* The invariant of the invoice job, with the keys Stripe remembers.
THEOREM InvoiceJobInvariance == Spec => []IInv
  <1>1. Init => IInv
    BY InitJob
  <1>2. IInv /\ [Next]_vars => IInv'
    BY StepInv
  <1> QED BY <1>1, <1>2, PTL DEF Spec

\* A tenant is charged once for a period, unless a run ended between Stripe's
\* finalize and its record (_create_tenant_invoice).
THEOREM TenantsChargedOnce == Spec => []ChargedOnce
  <1>1. IInv => ChargedOnce
    BY DEF IInv
  <1> QED BY <1>1, InvoiceJobInvariance, PTL

-----------------------------------------------------------------------------
(* The fees.  Periods are made and closed in the order of their months: the *)
(* open period is the last one there is.                                    *)

Ordered ==
    /\ \A m \in Months : status[m] # "none" => m <= now
    /\ \A m \in Open, n \in Months : status[n] # "none" => n <= m
    /\ Closed # {} => \E m \in Closed : \A n \in Closed : n <= m

\* Only months that are over are closed.
Behind ==
    /\ \A m \in Closed : m < now
    /\ pass["close"].step # "idle" => pass["close"].on < now

\* A posting that is under way belongs to this month, unless the turn of the
\* months found it so; and so does the period its handler read.
InFlight ==
    \A p \in Postings :
        /\ post[p].step \in {"writing", "pending", "read"} =>
              post[p].month = now \/ {post[p].month, now} \subseteq straddled
        /\ post[p].step = "read" =>
              post[p].target = now \/ {post[p].target, now} \subseteq straddled

\* What a period or a pass counts has arrived.
Seen ==
    /\ \A m \in Months \ straddled : period[m].count > 0 => Arrived(m) \cap Metered # {}
    /\ \A k \in Passes :
          pass[k].step \in {"listed", "write"} /\ pass[k].on \notin straddled /\ pass[k].count > 0 =>
              Arrived(pass[k].on) \cap Metered # {}

\* What a pass has found of a month that is over and not closed is final, and
\* before the lock of the close the row holds it.
Found ==
    \A k \in Passes :
        LET m == pass[k].on
        IN  m < now /\ m \notin straddled /\ m \notin Closed =>
              /\ pass[k].step = "write" => pass[k].total = ArrivedCost(m)
              /\ k = "close" /\ pass[k].step = "listed" =>
                     period[m].total \in {pass[k].total, ArrivedCost(m)}
              /\ pass[k].step = "lock" => period[m].total = ArrivedCost(m)

\* A price is late only for a posting of a month that is closed.
Late ==
    \A p \in Postings :
        price[p] = "late" => post[p].step \notin {"new", "writing"} /\ post[p].month \in Closed

\* What arrived in a month and was priced by its close.
KnownCost(m) == SumFunctionOnSet(Cost, {p \in Arrived(m) : price[p] = "known"})

\* The rest of the state: the usage, the passes and the faults.
UsageType ==
    /\ now \in Months /\ post \in [Postings -> PostType]
    /\ price \in [Postings -> {"unknown", "known", "late"}]
    /\ period \in [Months -> PeriodType]
    /\ held \subseteq Months /\ pass \in [Passes -> PassType] /\ closeRan \in 0 .. MaxMonth
    /\ customer \in BOOLEAN /\ straddled \subseteq 1 .. MaxMonth + 1 /\ left \in 0 .. Faults

\* A step of a posting: one of them moves on ...
Moves(p) ==
    /\ \A o \in Postings \ {p} : post'[o] = post[o]
    /\ \/ post[p].step = "new" /\ post'[p] = [step |-> "writing", month |-> now, target |-> now]
       \/ post[p].step = "writing" /\ post'[p] = [post[p] EXCEPT !.step = "pending"]
       \/ post[p].step = "pending" /\ post'[p] = [post[p] EXCEPT !.step = "read", !.target = now]
       \/ /\ post[p].step \in {"pending", "read"}
          /\ \E s \in {"pending", "dead", "done"} : post'[p] = [post[p] EXCEPT !.step = s]

\* ... and at most one period, open or new, takes it.
Takes(p) ==
    \/ UNCHANGED <<status, period>>
    \/ \E m \in Months :
          /\ Add(m, p) /\ post[p].step \in {"pending", "read"}
          /\ m = now \/ (post[p].step = "read" /\ m = post[p].target)
          /\ status[m] = "open" \/ (status[m] = "none" /\ m = now /\ Open = {})

LEMMA FaultTypes == ASSUME UsageType, Fault PROVE left' \in 0 .. Faults
  BY PlatformBillingAssumption DEF UsageType, Fault

LEMMA PostingEffect ==
    ASSUME JobType, UsageType, NEW p \in Postings, OnPosting(p)
    PROVE  /\ Moves(p) /\ Takes(p) /\ DOMAIN post' = Postings
           /\ UNCHANGED <<now, price, straddled, held, pass, closeRan, invoicing>> /\ left' \in 0 .. Faults
  <1> USE DEF billing
  <1>0. /\ post \in [Postings -> PostType] /\ post[p] \in PostType /\ now \in Months /\ post[p].target \in Months
        /\ left \in 0 .. Faults
    BY DEF UsageType, PostType
  <1>1. CASE Create(p)
    BY <1>0, <1>1 DEF Create, Moves, Takes
  <1>2. CASE Commit(p)
    BY <1>0, <1>2 DEF Commit, Moves, Takes
  <1>3. CASE ReadPeriod(p)
    <2>1. post'[p] = [post[p] EXCEPT !.step = "read", !.target = now]
      BY <1>0, <1>3 DEF ReadPeriod, PostType
    <2> QED BY <1>0, <1>3, <2>1 DEF ReadPeriod, Moves, Takes
  <1>4. ASSUME Raised(p), post[p].step \in {"pending", "read"}
        PROVE  /\ Moves(p) /\ Takes(p) /\ DOMAIN post' = Postings
               /\ UNCHANGED <<now, price, straddled, held, pass, closeRan, invoicing>>
    BY <1>0, <1>4 DEF Raised, Moves, Takes
  <1>5. CASE NoPeriodYet(p)
    BY <1>0, <1>4, <1>5 DEF NoPeriodYet
  <1>6. CASE HandlerFails(p)
    BY <1>0, <1>4, <1>6, FaultTypes DEF HandlerFails
  <1>7. CASE CreatePeriod(p)
    <2>1. Moves(p)
      BY <1>0, <1>7 DEF CreatePeriod, Moves
    <2>2. Takes(p)
      BY <1>0, <1>7 DEF CreatePeriod, Takes
    <2> QED BY <1>0, <1>7, <2>1, <2>2 DEF CreatePeriod
  <1>8. CASE Accumulate(p)
    <2> DEFINE m == IF status[post[p].target] = "open" THEN post[p].target ELSE now
    <2>0. post[p].step = "read" /\ left' = left /\ m \in Months
      BY <1>0, <1>8 DEF Accumulate
    <2>1. CASE status[m] = "none" /\ Open # {}
      <3>1. Raised(p)
        BY <1>8, <2>1 DEF Accumulate
      <3> QED BY <1>0, <1>4, <2>0, <3>1
    <2>2. CASE ~(status[m] = "none" /\ Open # {})
      <3>1. /\ IF status[m] \in {"none", "open"} THEN Add(m, p) ELSE UNCHANGED <<status, period>>
            /\ post' = [post EXCEPT ![p].step = "done"]
            /\ UNCHANGED <<now, price, straddled, held, pass, closeRan, invoicing>>
        BY <1>8, <2>2 DEF Accumulate
      <3>2. Moves(p)
        BY <1>0, <2>0, <3>1 DEF Moves
      <3>3. m = now \/ m = post[p].target
        OBVIOUS
      <3>4. status[m] = "none" => m = now /\ Open = {}
        BY <2>2
      <3> HIDE DEF m
      <3>5. Takes(p)
        BY <2>0, <3>1, <3>3, <3>4 DEF Takes
      <3> QED BY <1>0, <2>0, <3>1, <3>2, <3>5
    <2> QED BY <2>1, <2>2
  <1> QED BY <1>1, <1>2, <1>3, <1>5, <1>6, <1>7, <1>8 DEF OnPosting

\* Steps that leave the usage, the totals and the passes alone, and close no
\* period: the invoice job and the tenant's.
Aside ==
    /\ UNCHANGED <<now, post, price, straddled, period, pass, closeRan>>
    /\ Open' = Open /\ Closed' = Closed
    /\ \A m \in Months : status'[m] = "none" <=> status[m] = "none"
    /\ held' \subseteq held /\ customer' \in BOOLEAN /\ left' \in 0 .. Faults

LEMMA JobAside ==
    ASSUME JobType, UsageType,
           \/ \E m \in Months : Resolve(m) \/ InvoiceNothing(m) \/ Reclaim(m)
           \/ \E w \in Workers : OnWorker(w)
           \/ SetCustomer \/ UNCHANGED vars
    PROVE  Aside
  <1> USE DEF usage, billing, invoicing
  <1>0. left \in 0 .. Faults /\ customer \in BOOLEAN /\ status \in [Months -> Statuses]
    BY DEF UsageType, JobType
  <1>1. ASSUME UNCHANGED status PROVE Open' = Open /\ Closed' = Closed
    BY <1>1 DEF Open, Closed
  <1>2. ASSUME NEW m \in Months, NEW s \in {"closed", "invoicing", "invoiced"},
               status[m] \in {"closed", "invoicing", "invoiced"}, status' = [status EXCEPT ![m] = s]
        PROVE  Open' = Open /\ Closed' = Closed /\ \A n \in Months : status'[n] = "none" <=> status[n] = "none"
    BY <1>0, <1>2 DEF Open, Closed
  <1>3. ASSUME NEW m \in Months, GivenUp(m)
        PROVE  Open' = Open /\ Closed' = Closed /\ \A n \in Months : status'[n] = "none" <=> status[n] = "none"
    <2>1. CASE status[m] = "invoicing"
      BY <1>2, <1>3, <2>1 DEF GivenUp
    <2>2. CASE status[m] # "invoicing"
      BY <1>1, <1>3, <2>2 DEF GivenUp
    <2> QED BY <2>1, <2>2
  <1>4. ASSUME NEW m \in Months, Resolve(m) PROVE Aside
    BY <1>0, <1>1, <1>4 DEF Resolve, Aside
  <1>5. ASSUME NEW m \in Months, InvoiceNothing(m) PROVE Aside
    BY <1>0, <1>2, <1>5 DEF InvoiceNothing, Aside
  <1>6. ASSUME NEW m \in Months, Reclaim(m) PROVE Aside
    BY <1>0, <1>3, <1>6, FaultTypes DEF Reclaim, Aside
  <1>7. ASSUME NEW w \in Workers, OnWorker(w) PROVE Aside
    <2>0. worker[w].on \in Months
      BY DEF JobType, WorkerType
    <2>1. CASE CreateInvoice(w) \/ CreateItem(w) \/ Finalize(w)
      BY <1>0, <1>1, <2>1 DEF CreateInvoice, CreateItem, Finalize, Aside
    <2>2. CASE Record(w)
      BY <1>0, <1>1, <1>2, <2>0, <2>2 DEF Record, Aside
    <2>3. CASE StripeFails(w)
      BY <1>0, <1>3, <2>0, <2>3, FaultTypes DEF StripeFails, Aside
    <2>4. CASE WorkerDies(w)
      BY <1>0, <1>1, <2>4, FaultTypes DEF WorkerDies, Aside
    <2>5. ASSUME NEW m \in Months, Claim(w, m) PROVE Aside
      BY <1>0, <1>2, <2>5 DEF Claim, Aside
    <2> QED BY <1>7, <2>1, <2>2, <2>3, <2>4, <2>5 DEF OnWorker, Push
  <1>8. CASE SetCustomer
    BY <1>0, <1>1, <1>8 DEF SetCustomer, Aside
  <1>9. CASE UNCHANGED vars
    BY <1>0, <1>1, <1>9 DEF vars, Aside
  <1> QED BY <1>4, <1>5, <1>6, <1>7, <1>8, <1>9

\* Rounding down leaves less than a unit and takes nothing below zero.
LEMMA Rounding ==
    ASSUME NEW a \in Nat, NEW b \in Nat \ {0}
    PROVE  a % b \in Nat /\ a - (a % b) \in Nat /\ a \div b \in Nat
  <1>1. a % b \in 0 .. (b - 1) /\ a \div b \in Int /\ a = b * (a \div b) + (a % b)
    OBVIOUS
  <1>2. a \div b >= 0
    OBVIOUS
  <1>3. b * (a \div b) \in Nat
    BY <1>1, <1>2
  <1> DEFINE q == b * (a \div b)
             r == a % b
  <1>4. q \in Nat /\ r \in Nat /\ a = q + r
    BY <1>1, <1>3
  <1> HIDE DEF q, r
  <1>5. a - r \in Nat
    BY <1>4
  <1> QED BY <1>1, <1>2, <1>4, <1>5 DEF r

\* The fee of a total.
LEMMA FeeTypes == ASSUME NEW t \in Nat PROVE Fee(t) \in Nat
  <1>1. t * Num \in Nat /\ Den \in Nat \ {0} /\ Flat \in Nat
    BY PlatformBillingAssumption
  <1>2. (t * Num) \div Den \in Nat
    BY <1>1, Rounding
  <1> QED BY <1>1, <1>2 DEF Fee

\* What arrived in a month is a number of postings and a number of micros.
LEMMA ArrivedTypes ==
    ASSUME NEW m
    PROVE  /\ Arrived(m) \subseteq Postings /\ IsFiniteSet(Arrived(m))
           /\ ArrivedCost(m) \in Nat /\ ArrivedCount(m) \in Nat
           /\ ArrivedCount(m) = 0 <=> Arrived(m) \cap Metered = {}
  <1>1. Arrived(m) \subseteq Postings
    BY DEF Arrived
  <1>2. IsFiniteSet(Arrived(m)) /\ IsFiniteSet(Arrived(m) \cap Metered)
    BY <1>1, FS_Subset, PlatformBillingAssumption
  <1>3. \A p \in Arrived(m) : Cost[p] \in Nat
    BY <1>1, PlatformBillingAssumption
  <1>4. ArrivedCost(m) \in Nat
    <2> DEFINE S == {p \in Arrived(m) : price[p] # "unknown"}
    <2>1. S \subseteq Arrived(m)
      OBVIOUS
    <2>2. IsFiniteSet(S) /\ \A p \in S : Cost[p] \in Nat
      BY <1>2, <1>3, <2>1, FS_Subset
    <2> HIDE DEF S
    <2>3. SumFunctionOnSet(Cost, S) \in Nat
      BY <2>2, SumNat
    <2> QED BY <2>3 DEF S, ArrivedCost
  <1>5. ArrivedCount(m) \in Nat /\ (ArrivedCount(m) = 0 <=> Arrived(m) \cap Metered = {})
    BY <1>2, FS_CardinalityType, FS_EmptySet DEF ArrivedCount
  <1> QED BY <1>1, <1>2, <1>4, <1>5

\* The predecessor that a close carries from is the last period closed.
LEMMA CarriedFrom ==
    ASSUME JobType, UsageType, Ordered, NEW m \in Open
    PROVE  /\ Closed = {} => CarriedIn(m) = 0
           /\ Closed # {} => \E n \in Closed : (\A o \in Closed : o <= n) /\ CarriedIn(m) = period[n].carried
           /\ CarriedIn(m) \in Nat /\ m \notin Closed /\ \A n \in Closed : n < m
  <1>1. \A n \in Closed : n < m /\ n \in Months
    BY DEF Ordered, Open, Closed, Months
  <1>2. {n \in Closed : n < m} = Closed
    BY <1>1
  <1>3. CarriedIn(m) = IF Closed = {} THEN 0
                       ELSE period[CHOOSE n \in Closed : \A o \in Closed : o <= n].carried
    <2> DEFINE C(E) == IF E = {} THEN 0 ELSE period[CHOOSE n \in E : \A o \in E : o <= n].carried
    <2>1. CarriedIn(m) = C({n \in Closed : n < m})
      BY DEF CarriedIn
    <2> HIDE DEF C
    <2>2. CarriedIn(m) = C(Closed)
      BY <1>2, <2>1
    <2> QED BY <2>2 DEF C
  <1>4. ASSUME Closed # {}
        PROVE  \E n \in Closed : (\A o \in Closed : o <= n) /\ CarriedIn(m) = period[n].carried
    <2> DEFINE n == CHOOSE n \in Closed : \A o \in Closed : o <= n
    <2>1. n \in Closed /\ \A o \in Closed : o <= n
      BY <1>4 DEF Ordered
    <2>2. CarriedIn(m) = period[n].carried
      BY <1>3, <1>4
    <2> QED BY <2>1, <2>2
  <1>5. CarriedIn(m) \in Nat
    BY <1>1, <1>3, <1>4 DEF UsageType, PeriodType
  <1> QED BY <1>1, <1>3, <1>4, <1>5 DEF Open, Closed

\* Every step keeps the types of the usage and of the passes.
LEMMA UsageTypeStep ==
    ASSUME JobType, UsageType, Ordered, [Next]_vars PROVE UsageType'
  <1> USE DEF usage, billing, invoicing
  <1>0. /\ now \in Months /\ post \in [Postings -> PostType] /\ period \in [Months -> PeriodType]
        /\ pass \in [Passes -> PassType] /\ left \in 0 .. Faults /\ MaxMonth \in Nat \ {0}
        /\ IdlePass \in PassType
    BY OneIsMonth, PlatformBillingAssumption DEF UsageType, IdlePass, PassType
  <1>1. ASSUME NEW p \in Postings, OnPosting(p) PROVE UsageType'
    <2>1. /\ Moves(p) /\ Takes(p) /\ DOMAIN post' = Postings
          /\ UNCHANGED <<now, price, straddled, held, pass, closeRan, invoicing>> /\ left' \in 0 .. Faults
      BY <1>1, PostingEffect
    <2>2. post'[p] \in PostType
      <3>1. post[p] \in PostType
        BY <1>0
      <3>2. \A s \in {"pending", "dead", "done"} : [post[p] EXCEPT !.step = s] \in PostType
        BY <3>1 DEF PostType
      <3>3. /\ [post[p] EXCEPT !.step = "read", !.target = now] \in PostType
            /\ [step |-> "writing", month |-> now, target |-> now] \in PostType
        BY <1>0, <3>1 DEF PostType
      <3> QED BY <2>1, <3>2, <3>3 DEF Moves
    <2>3. post' \in [Postings -> PostType]
      <3>1. \A o \in Postings : post'[o] \in PostType
        BY <1>0, <2>1, <2>2 DEF Moves
      <3>2. post' = [o \in Postings |-> post'[o]]
        <4>1. \E f : post' = [post EXCEPT ![p] = f]
          BY <1>1 DEF OnPosting, Create, Commit, ReadPeriod, CreatePeriod, NoPeriodYet, HandlerFails,
                      Accumulate, Raised
        <4> QED BY <1>0, <4>1
      <3> QED BY <3>1, <3>2
    <2>4. period' \in [Months -> PeriodType]
      <3>1. ASSUME NEW m \in Months, Add(m, p) PROVE period' \in [Months -> PeriodType]
        <4>1. period[m] \in PeriodType /\ Carries(p) \in Nat /\ Counts(p) \in Nat
          BY <1>0, PlatformBillingAssumption DEF Counts, Carries
        <4>2. [period[m] EXCEPT !.total = @ + Carries(p), !.count = @ + Counts(p)] \in PeriodType
          <5>1. period[m].total + Carries(p) \in Nat /\ period[m].count + Counts(p) \in Nat
            BY <4>1 DEF PeriodType
          <5> DEFINE t == period[m].total + Carries(p)
                     c == period[m].count + Counts(p)
          <5>2. t \in Nat /\ c \in Nat
            BY <5>1
          <5> HIDE DEF t, c
          <5>3. [period[m] EXCEPT !.total = t, !.count = c] \in PeriodType
            BY <4>1, <5>2 DEF PeriodType
          <5> QED BY <5>3 DEF t, c
        <4>3. period' = [period EXCEPT ![m] = [period[m] EXCEPT !.total = @ + Carries(p), !.count = @ + Counts(p)]]
          BY <1>0, <3>1, <4>1 DEF Add, PeriodType
        <4> QED BY <1>0, <4>2, <4>3
      <3> QED BY <1>0, <2>1, <3>1 DEF Takes
    <2> QED BY <2>1, <2>3, <2>4 DEF UsageType
  <1>2. ASSUME NEW m \in Months, StartHourly(m) \/ StartClose(m) PROVE UsageType'
    <2>1. Listed(m) \in PassType
      BY <1>0 DEF Listed, PassType, PeriodType
    <2>2. pass' \in [Passes -> PassType]
      BY <1>0, <1>2, <2>1 DEF StartHourly, StartClose
    <2>3. closeRan' \in 0 .. MaxMonth
      BY <1>0, <1>2 DEF StartHourly, StartClose, UsageType, Months
    <2> QED BY <1>2, <2>2, <2>3 DEF StartHourly, StartClose, UsageType
  <1>3. ASSUME NEW k \in Passes PROVE Reconciled(k) \in PassType
    BY <1>0 DEF Reconciled, PassType
  <1>4. ASSUME NEW k \in Passes, ReadTotals(k) PROVE UsageType'
    <2> DEFINE m == pass[k].on
               row == [pass[k] EXCEPT !.step = "write", !.total = ArrivedCost(m), !.count = ArrivedCount(m)]
    <2>1. row \in PassType
      BY <1>0, ArrivedTypes DEF PassType
    <2>2. \E r \in {Reconciled(k), row} : pass' = [pass EXCEPT ![k] = r]
      BY <1>4 DEF ReadTotals
    <2> HIDE DEF row
    <2>3. pass' \in [Passes -> PassType]
      BY <1>0, <1>3, <2>1, <2>2
    <2> QED BY <1>4, <2>3 DEF ReadTotals, UsageType
  <1>5. ASSUME NEW k \in Passes, WriteTotals(k) PROVE UsageType'
    <2> DEFINE m == pass[k].on
    <2>1. m \in Months /\ pass[k].total \in Nat /\ pass[k].count \in Nat /\ period[m] \in PeriodType
      BY <1>0 DEF PassType
    <2>2. [period[m] EXCEPT !.total = pass[k].total, !.count = pass[k].count] \in PeriodType
      BY <2>1 DEF PeriodType
    <2>3. period' = [period EXCEPT ![m] = [period[m] EXCEPT !.total = pass[k].total, !.count = pass[k].count]]
      BY <1>0, <1>5, <2>1 DEF WriteTotals, PeriodType
    <2>4. pass' \in [Passes -> PassType]
      BY <1>0, <1>3, <1>5 DEF WriteTotals
    <2> QED BY <1>0, <1>5, <2>2, <2>3, <2>4 DEF WriteTotals, UsageType
  <1>6. ASSUME NEW k \in Passes, PassDies(k) PROVE UsageType'
    <2>1. closeRan' \in 0 .. MaxMonth
      BY <1>0, <1>6 DEF PassDies, UsageType, Months
    <2> QED BY <1>0, <1>6, <2>1, FaultTypes DEF PassDies, UsageType
  <1>7. CASE RefuseClose
    BY <1>0, <1>7 DEF RefuseClose, UsageType
  <1>8. CASE ClosePeriod
    <2> DEFINE m == pass["close"].on
               exact == Fee(period[m].total)
               due == exact + CarriedIn(m)
    <2>1. pass' \in [Passes -> PassType]
      BY <1>0, <1>8 DEF ClosePeriod
    <2>2. period' \in [Months -> PeriodType]
      <3>1. CASE status[m] # "open"
        BY <1>0, <1>8, <3>1 DEF ClosePeriod
      <3>2. CASE status[m] = "open"
        <4>1. m \in Months /\ period[m] \in PeriodType /\ period[m].total \in Nat /\ m \in Open
          BY <1>0, <3>2 DEF PassType, PeriodType, Passes, Open
        <4>2. exact \in Nat /\ CarriedIn(m) \in Nat
          BY <4>1, FeeTypes, CarriedFrom
        <4>3. due \in Nat /\ Unit \in Nat \ {0}
          BY <4>2, PlatformBillingAssumption
        <4>4. due - (due % Unit) \in Nat /\ due % Unit \in Nat
          BY <4>3, Rounding
        <4>5. period' = [period EXCEPT ![m].exact = exact, ![m].fee = due - (due % Unit), ![m].carried = due % Unit]
          BY <1>8, <3>2 DEF ClosePeriod
        <4> HIDE DEF exact, due
        <4>6. [period[m] EXCEPT !.exact = exact, !.fee = due - (due % Unit), !.carried = due % Unit] \in PeriodType
          BY <4>1, <4>2, <4>4 DEF PeriodType
        <4>7. period' = [period EXCEPT ![m] = [period[m] EXCEPT !.exact = exact, !.fee = due - (due % Unit),
                                                                !.carried = due % Unit]]
          BY <1>0, <4>1, <4>5 DEF PeriodType
        <4> QED BY <1>0, <4>6, <4>7
      <3> QED BY <3>1, <3>2
    <2> QED BY <1>8, <2>1, <2>2 DEF ClosePeriod, UsageType
  <1>9. CASE NextMonth
    BY <1>0, <1>9 DEF NextMonth, UsageType, Months
  <1>10. CASE Aside
    BY <1>10 DEF Aside, UsageType
  <1>11. ASSUME NEW p \in Postings, ResolvePrice(p) PROVE UsageType'
    <2>1. price' \in [Postings -> {"unknown", "known", "late"}]
      BY <1>11 DEF ResolvePrice, UsageType
    <2>2. post[p].month \in 1 .. MaxMonth + 1
      BY <1>0 DEF PostType, Months
    <2>3. straddled' \subseteq 1 .. MaxMonth + 1
      BY <1>11, <2>2 DEF ResolvePrice, UsageType
    <2> QED BY <1>11, <2>1, <2>3 DEF ResolvePrice, UsageType
  <1> QED BY <1>1, <1>2, <1>4, <1>5, <1>6, <1>7, <1>8, <1>9, <1>10, <1>11, JobAside
          DEF Next, OnPass, OnMonth

\* The close takes the open period, which is the last.
LEMMA CloseEffect ==
    ASSUME JobType, UsageType, Ordered, Behind, ClosePeriod
    PROVE  LET m == pass["close"].on
               exact == Fee(period[m].total)
               due == exact + CarriedIn(m)
           IN  /\ m \in Months /\ m < now
               /\ UNCHANGED usage /\ pass' = [pass EXCEPT !["close"] = IdlePass]
               /\ status[m] # "open" => UNCHANGED <<status, period>>
               /\ status[m] = "open" =>
                    /\ m \in Open /\ Closed' = Closed \cup {m} /\ Open' = {}
                    /\ status' = [status EXCEPT ![m] = "closed"]
                    /\ period'[m].exact = exact /\ period'[m].fee = due - (due % Unit)
                    /\ period'[m].carried = due % Unit
                    /\ period'[m].total = period[m].total /\ period'[m].count = period[m].count
                    /\ \A n \in Months \ {m} : period'[n] = period[n]
  <1> DEFINE m == pass["close"].on
             exact == Fee(period[m].total)
             due == exact + CarriedIn(m)
             billed == due - (due % Unit)
             rest == due % Unit
  <1>1. /\ m \in Months /\ m < now /\ UNCHANGED usage
        /\ pass' = [pass EXCEPT !["close"] = IdlePass]
    BY DEF ClosePeriod, Behind, UsageType, PassType, Passes, usage
  <1>2. status[m] # "open" => UNCHANGED <<status, period>>
    BY DEF ClosePeriod
  <1>3. ASSUME status[m] = "open"
        PROVE  /\ m \in Open /\ Closed' = Closed \cup {m} /\ Open' = {}
               /\ status' = [status EXCEPT ![m] = "closed"]
               /\ period'[m].exact = exact /\ period'[m].fee = billed /\ period'[m].carried = rest
               /\ period'[m].total = period[m].total /\ period'[m].count = period[m].count
               /\ \A n \in Months \ {m} : period'[n] = period[n]
    <2>1. /\ status' = [status EXCEPT ![m] = "closed"]
          /\ period' = [period EXCEPT ![m].exact = exact, ![m].fee = billed, ![m].carried = rest]
      BY <1>3 DEF ClosePeriod
    <2>2. period \in [Months -> PeriodType] /\ status \in [Months -> Statuses]
      BY DEF JobType, UsageType
    <2>3. m \in Open /\ \A n \in Open : n = m
      BY <1>1, <1>3 DEF Ordered, Open, Months
    <2>4. Closed' = Closed \cup {m} /\ Open' = {}
      BY <1>1, <2>1, <2>2, <2>3 DEF Open, Closed
    <2> HIDE DEF m, exact, billed, rest
    <2>5. /\ period'[m].exact = exact /\ period'[m].fee = billed /\ period'[m].carried = rest
          /\ period'[m].total = period[m].total /\ period'[m].count = period[m].count
          /\ \A n \in Months \ {m} : period'[n] = period[n]
      BY <1>1, <2>1, <2>2 DEF PeriodType
    <2> QED BY <2>1, <2>3, <2>4, <2>5
  <1> QED BY <1>1, <1>2, <1>3

\* What the steps of the passes, other than the lock, do to the periods' order.
LEMMA PassEffect ==
    ASSUME UsageType,
           \/ \E k \in Passes : OnPass(k)
           \/ \E m \in Months : StartHourly(m) \/ StartClose(m)
           \/ RefuseClose
    PROVE  /\ UNCHANGED <<usage, status>>
           /\ \A m \in Months : /\ period'[m].exact = period[m].exact /\ period'[m].fee = period[m].fee
                                /\ period'[m].carried = period[m].carried
           /\ \/ pass'["close"].step = "idle" \/ pass'["close"].on < now
              \/ pass["close"].step # "idle" /\ pass'["close"].on = pass["close"].on
  <1>0. pass \in [Passes -> PassType] /\ period \in [Months -> PeriodType] /\ "close" \in Passes
    BY DEF UsageType, Passes
  <1>1. UNCHANGED <<usage, status>>
    BY DEF OnPass, ReadTotals, WriteTotals, PassDies, StartHourly, StartClose, RefuseClose
  <1>2. \A m \in Months : /\ period'[m].exact = period[m].exact /\ period'[m].fee = period[m].fee
                          /\ period'[m].carried = period[m].carried
    <2>1. ASSUME NEW k \in Passes, WriteTotals(k), NEW m \in Months
          PROVE  /\ period'[m].exact = period[m].exact /\ period'[m].fee = period[m].fee
                 /\ period'[m].carried = period[m].carried
      BY <1>0, <2>1 DEF WriteTotals, PeriodType
    <2>2. CASE ~\E k \in Passes : WriteTotals(k)
      <3>1. UNCHANGED period
        BY <2>2 DEF OnPass, ReadTotals, PassDies, StartHourly, StartClose, RefuseClose
      <3> QED BY <3>1
    <2> QED BY <2>1, <2>2
  <1> DEFINE Kept == \/ pass'["close"].step = "idle" \/ pass'["close"].on < now
                     \/ pass["close"].step # "idle" /\ pass'["close"].on = pass["close"].on
  <1>3. ASSUME NEW r, pass' = [pass EXCEPT !["hourly"] = r] PROVE pass'["close"] = pass["close"]
    BY <1>0, <1>3
  <1>4. ASSUME pass'["close"] = pass["close"] PROVE Kept
    BY <1>4
  <1>5. Reconciled("close").on = pass["close"].on
    BY <1>0 DEF Reconciled, PassType
  <1>6. ASSUME NEW k \in Passes, ReadTotals(k) \/ WriteTotals(k) PROVE Kept
    <2>1. CASE k = "hourly"
      BY <1>3, <1>4, <1>6, <2>1 DEF ReadTotals, WriteTotals
    <2>2. CASE k = "close"
      <3>1. pass["close"].step # "idle"
        BY <1>6, <2>2 DEF ReadTotals, WriteTotals
      <3>2. pass'["close"].on = pass["close"].on
        <4> DEFINE m == pass["close"].on
                   row == [pass["close"] EXCEPT !.step = "write", !.total = ArrivedCost(m), !.count = ArrivedCount(m)]
        <4>1. \E r \in {Reconciled("close"), row} : pass' = [pass EXCEPT !["close"] = r]
          BY <1>6, <2>2 DEF ReadTotals, WriteTotals
        <4>2. row.on = pass["close"].on
          BY <1>0 DEF PassType
        <4> HIDE DEF row
        <4> QED BY <1>0, <1>5, <4>1, <4>2
      <3> QED BY <3>1, <3>2
    <2> QED BY <2>1, <2>2 DEF Passes
  <1>7. ASSUME NEW k \in Passes, PassDies(k) PROVE Kept
    <2>1. CASE k = "hourly"
      BY <1>3, <1>4, <1>7, <2>1 DEF PassDies
    <2>2. CASE k = "close"
      BY <1>0, <1>7, <2>2 DEF PassDies, IdlePass
    <2> QED BY <2>1, <2>2 DEF Passes
  <1>8. ASSUME NEW m \in Months, StartHourly(m) PROVE Kept
    BY <1>3, <1>4, <1>8 DEF StartHourly
  <1>9. ASSUME NEW m \in Months, StartClose(m) PROVE Kept
    BY <1>0, <1>9 DEF StartClose, Listed
  <1>10. ASSUME RefuseClose PROVE Kept
    BY <1>0, <1>10 DEF RefuseClose, IdlePass
  <1>11. Kept
    BY <1>6, <1>7, <1>8, <1>9, <1>10 DEF OnPass
  <1> QED BY <1>1, <1>2, <1>11

\* Periods are made and closed in order.
LEMMA OrderStep ==
    ASSUME JobType, UsageType, Ordered, Behind, [Next]_vars PROVE Ordered' /\ Behind'
  <1>0. /\ now \in Months /\ status \in [Months -> Statuses] /\ MaxMonth \in Nat
        /\ \A m \in Months : m \in Int
    BY PlatformBillingAssumption DEF JobType, UsageType, Months
  <1>1. ASSUME NEW p \in Postings, OnPosting(p) PROVE Ordered' /\ Behind'
    <2>1. Takes(p) /\ UNCHANGED <<now, pass>>
      BY <1>1, PostingEffect
    <2>2. CASE UNCHANGED status
      BY <2>1, <2>2 DEF Ordered, Behind, Open, Closed
    <2>3. ASSUME NEW m \in Months, status[m] = "none", m = now, Open = {},
                 status' = [status EXCEPT ![m] = "open"]
          PROVE  Ordered' /\ Behind'
      <3>1. Open' = {now} /\ Closed' = Closed
        BY <1>0, <2>3 DEF Open, Closed
      <3>2. \A n \in Months : status'[n] # "none" => n <= now
        BY <1>0, <2>3 DEF Ordered
      <3> QED BY <2>1, <3>1, <3>2 DEF Ordered, Behind
    <2>4. ASSUME NEW m \in Months, status[m] = "open", status' = [status EXCEPT ![m] = "open"]
          PROVE  UNCHANGED status
      BY <1>0, <2>4
    <2> QED BY <2>1, <2>2, <2>3, <2>4 DEF Takes, Add
  <1>2. ASSUME \/ \E k \in Passes : OnPass(k)
               \/ \E m \in Months : StartHourly(m) \/ StartClose(m)
               \/ RefuseClose
        PROVE  Ordered' /\ Behind'
    <2>1. /\ UNCHANGED <<now, status>>
          /\ \/ pass'["close"].step = "idle" \/ pass'["close"].on < now
             \/ pass["close"].step # "idle" /\ pass'["close"].on = pass["close"].on
      BY <1>2, PassEffect DEF usage
    <2> QED BY <2>1 DEF Ordered, Behind, Open, Closed
  <1>3. CASE ClosePeriod
    <2> DEFINE m == pass["close"].on
    <2>1. /\ m \in Months /\ m < now /\ UNCHANGED now /\ pass'["close"].step = "idle"
          /\ status[m] # "open" => UNCHANGED status
          /\ status[m] = "open" => /\ m \in Open /\ Closed' = Closed \cup {m} /\ Open' = {}
                                   /\ status' = [status EXCEPT ![m] = "closed"]
      BY <1>3, CloseEffect DEF usage, IdlePass, UsageType, Passes
    <2>2. CASE status[m] # "open"
      BY <2>1, <2>2 DEF Ordered, Behind, Open, Closed
    <2>3. CASE status[m] = "open"
      <3>1. \A n \in Closed : n <= m /\ n \in Months
        BY <2>1, <2>3 DEF Ordered, Closed
      <3>2. \A n \in Months : status'[n] # "none" => status[n] # "none"
        BY <1>0, <2>1, <2>3
      <3>3. m <= m
        BY <1>0, <2>1
      <3> QED BY <2>1, <2>3, <3>1, <3>2, <3>3 DEF Ordered, Behind
    <2> QED BY <2>2, <2>3
  <1>4. CASE NextMonth
    <2>1. now' = now + 1 /\ UNCHANGED <<status, pass>>
      BY <1>4 DEF NextMonth, billing
    <2>2. \A m \in Months : m <= now => m <= now'
      BY <1>0, <2>1
    <2>3. \A m \in Months : m < now => m < now'
      BY <1>0, <2>1
    <2>4. pass["close"].on \in Months
      BY DEF UsageType, Passes, PassType
    <2> QED BY <2>1, <2>2, <2>3, <2>4 DEF Ordered, Behind, Open, Closed
  <1>5. CASE Aside
    BY <1>5 DEF Aside, Ordered, Behind
  <1>6. CASE \E p \in Postings : ResolvePrice(p)
    <2>1. UNCHANGED <<now, status, pass>>
      BY <1>6 DEF ResolvePrice, billing
    <2> QED BY <2>1 DEF Ordered, Behind, Open, Closed
  <1> QED BY <1>1, <1>2, <1>3, <1>4, <1>5, <1>6, JobAside DEF Next, OnMonth

\* The close adds the exact fee of its period to the one side, and what it bills
\* with the change of the remainder to the other.
LEMMA ConservedClose ==
    ASSUME JobType, UsageType, Ordered, Behind, TypeOK', FeesConserved, ClosePeriod
    PROVE  FeesConserved'
  <1> DEFINE m == pass["close"].on
             e == Fee(period[m].total)
             c == CarriedIn(m)
             due == e + c
             r == due % Unit
             E == [n \in Closed |-> period[n].exact]
             B == [n \in Closed |-> period[n].fee]
             NE == [n \in Closed' |-> period'[n].exact]
             NB == [n \in Closed' |-> period'[n].fee]
  <1>1. /\ m \in Months
        /\ status[m] # "open" => UNCHANGED <<status, period>>
        /\ status[m] = "open" =>
              /\ m \in Open /\ Closed' = Closed \cup {m}
              /\ period'[m].exact = e /\ period'[m].fee = due - r /\ period'[m].carried = r
              /\ \A n \in Months \ {m} : period'[n] = period[n]
    BY CloseEffect
  <1>2. CASE status[m] # "open"
    BY <1>1, <1>2 DEF FeesConserved, Closed
  <1>3. CASE status[m] = "open"
    <2>1. /\ m \in Open /\ m \notin Closed /\ Closed' = Closed \cup {m} /\ Closed \subseteq Months
          /\ \A n \in Closed : n < m
          /\ Closed = {} => c = 0
          /\ Closed # {} => \E n \in Closed : (\A o \in Closed : o <= n) /\ c = period[n].carried
          /\ c \in Nat
      BY <1>1, <1>3, CarriedFrom DEF Closed
    <2>2. e \in Nat /\ due \in Nat /\ Unit \in Nat \ {0} /\ m \in Nat
      <3>1. period[m].total \in Nat
        BY <1>1 DEF UsageType, PeriodType
      <3> QED BY <1>1, <2>1, <3>1, FeeTypes, PlatformBillingAssumption DEF Months
    <2>3. r \in Nat /\ due - r \in Nat
      BY <2>2, Rounding
    <2>4. IsFiniteSet(Closed)
      <3>1. IsFiniteSet(Months)
        BY FS_Interval, PlatformBillingAssumption DEF Months
      <3> QED BY <2>1, <3>1, FS_Subset
    <2>5. \A n \in Closed : E[n] \in Int /\ B[n] \in Int /\ NE[n] = E[n] /\ NB[n] = B[n]
      BY <1>1, <1>3, <2>1 DEF UsageType, PeriodType
    <2>6. NE[m] = e /\ NB[m] = due - r
      BY <1>1, <1>3, <2>1
    <2>7. /\ DOMAIN E = Closed /\ DOMAIN B = Closed
          /\ DOMAIN NE = Closed \cup {m} /\ DOMAIN NB = Closed \cup {m}
      BY <2>1
    <2>8. /\ SumFunction(E) = SumFunctionOnSet(E, Closed) /\ SumFunction(B) = SumFunctionOnSet(B, Closed)
          /\ SumFunction(NE) = SumFunctionOnSet(NE, Closed \cup {m})
          /\ SumFunction(NB) = SumFunctionOnSet(NB, Closed \cup {m})
      <3>1. ASSUME NEW f PROVE SumFunction(f) = SumFunctionOnSet(f, DOMAIN f)
        BY DEF SumFunction, SumFunctionOnSet, FoldFunction
      <3> HIDE DEF E, B, NE, NB
      <3> QED BY <2>7, <3>1
    <2>9. TypeOK' /\ FeesConserved' = (TypeOK' /\ \A x \in Closed' :
              (\A n \in Closed' : n <= x) => SumFunction(NE) = SumFunction(NB) + period'[x].carried)
      BY DEF FeesConserved
    <2>10. \A x \in Closed : (\A n \in Closed : n <= x) => SumFunction(E) = SumFunction(B) + period[x].carried
      BY DEF FeesConserved
    <2>11. r = period'[m].carried
      BY <1>1, <1>3
    <2> HIDE DEF E, B, NE, NB, e, c, due, r
    <2>12. /\ SumFunctionOnSet(NE, Closed \cup {m}) = SumFunctionOnSet(NE, Closed) + e
           /\ SumFunctionOnSet(NB, Closed \cup {m}) = SumFunctionOnSet(NB, Closed) + (due - r)
      <3>1. \A y \in Closed \cup {m} : NE[y] \in Int /\ NB[y] \in Int
        BY <2>2, <2>3, <2>5, <2>6
      <3>2. m \notin Closed
        BY <2>1
      <3> HIDE DEF m
      <3>3. SumFunctionOnSet(NE, Closed \cup {m}) = SumFunctionOnSet(NE, Closed) + NE[m]
        BY <2>4, <3>1, <3>2, SumAdds
      <3>4. SumFunctionOnSet(NB, Closed \cup {m}) = SumFunctionOnSet(NB, Closed) + NB[m]
        BY <2>4, <3>1, <3>2, SumAdds
      <3> QED BY <2>6, <3>3, <3>4
    <2>13. /\ SumFunctionOnSet(NE, Closed) = SumFunctionOnSet(E, Closed)
           /\ SumFunctionOnSet(NB, Closed) = SumFunctionOnSet(B, Closed)
      BY <2>4, <2>5, SumSame
    <2>14. SumFunctionOnSet(E, Closed) \in Int /\ SumFunctionOnSet(B, Closed) \in Int
      BY <2>4, <2>5, SumTakes
    <2>15. SumFunctionOnSet(E, Closed) = SumFunctionOnSet(B, Closed) + c
      <3>1. CASE Closed = {}
        BY <2>1, <3>1, SumEmpty
      <3>2. CASE Closed # {}
        BY <2>1, <2>8, <2>10, <3>2
      <3> QED BY <3>1, <3>2
    <2> DEFINE se == SumFunctionOnSet(E, Closed)
               sb == SumFunctionOnSet(B, Closed)
    <2>16. SumFunction(NE) = se + e /\ SumFunction(NB) = sb + (due - r)
      BY <2>8, <2>12, <2>13
    <2>17. se \in Int /\ sb \in Int /\ se = sb + c /\ c \in Int /\ e \in Int /\ r \in Int /\ due = e + c
      BY <2>1, <2>2, <2>3, <2>14, <2>15 DEF due
    <2> HIDE DEF se, sb
    <2>18. se + e = (sb + (due - r)) + r
      BY ONLY <2>17
    <2>19. SumFunction(NE) = SumFunction(NB) + r
      BY <2>16, <2>18
    <2>20. ASSUME NEW x \in Closed', \A n \in Closed' : n <= x
           PROVE  SumFunction(NE) = SumFunction(NB) + period'[x].carried
      <3>1. m <= x /\ x \in Closed \cup {m}
        BY <2>1, <2>20
      <3>2. \A n \in Closed : n < m /\ n \in Nat
        BY <2>1, PlatformBillingAssumption DEF Months
      <3>3. x = m
        BY ONLY <2>2, <3>1, <3>2
      <3> QED BY <2>11, <2>19, <3>3
    <2> QED BY <2>9, <2>20
  <1> QED BY <1>2, <1>3

\* Every step keeps what was billed and the remainder equal to the exact fees.
LEMMA ConservedStep ==
    ASSUME JobType, UsageType, Ordered, Behind, TypeOK', FeesConserved, [Next]_vars PROVE FeesConserved'
  <1>0. status \in [Months -> Statuses] /\ period \in [Months -> PeriodType] /\ Closed \subseteq Months
    BY DEF JobType, UsageType, Closed
  <1>1. ASSUME Closed' = Closed,
               \A m \in Months : /\ period'[m].exact = period[m].exact /\ period'[m].fee = period[m].fee
                                 /\ period'[m].carried = period[m].carried
        PROVE  FeesConserved'
    <2>1. /\ [m \in Closed |-> period[m].exact]' = [m \in Closed |-> period[m].exact]
          /\ [m \in Closed |-> period[m].fee]' = [m \in Closed |-> period[m].fee]
      BY <1>0, <1>1
    <2> DEFINE E == [m \in Closed |-> period[m].exact]
               B == [m \in Closed |-> period[m].fee]
    <2>2. E' = E /\ B' = B
      BY <2>1
    <2>3. FeesConserved' <=> TypeOK' /\ \A m \in Closed' : (\A n \in Closed' : n <= m)
                                          => SumFunction(E') = SumFunction(B') + period'[m].carried
      BY DEF FeesConserved
    <2>4. \A m \in Closed : (\A n \in Closed : n <= m) => SumFunction(E) = SumFunction(B) + period[m].carried
      BY DEF FeesConserved
    <2> HIDE DEF E, B
    <2> QED BY <1>0, <1>1, <2>2, <2>3, <2>4
  <1>2. ASSUME NEW p \in Postings, OnPosting(p) PROVE FeesConserved'
    <2>1. Takes(p)
      BY <1>2, PostingEffect
    <2>2. ASSUME NEW m \in Months, Add(m, p), status[m] \in {"none", "open"} PROVE FeesConserved'
      <3>1. Closed' = Closed
        BY <1>0, <2>2 DEF Add, Closed
      <3>2. ASSUME NEW n \in Months
            PROVE  /\ period'[n].exact = period[n].exact /\ period'[n].fee = period[n].fee
                   /\ period'[n].carried = period[n].carried
        BY <1>0, <2>2 DEF Add, PeriodType
      <3> QED BY <1>1, <3>1, <3>2
    <2>3. CASE UNCHANGED <<status, period>>
      BY <1>1, <2>3 DEF Closed
    <2> QED BY <2>1, <2>2, <2>3 DEF Takes
  <1>3. ASSUME \/ \E k \in Passes : OnPass(k)
               \/ \E m \in Months : StartHourly(m) \/ StartClose(m)
               \/ RefuseClose
        PROVE  FeesConserved'
    <2>1. Closed' = Closed
      BY <1>3, PassEffect DEF Closed
    <2>2. \A m \in Months : /\ period'[m].exact = period[m].exact /\ period'[m].fee = period[m].fee
                            /\ period'[m].carried = period[m].carried
      BY <1>3, PassEffect
    <2> QED BY <1>1, <2>1, <2>2
  <1>4. CASE NextMonth
    BY <1>1, <1>4 DEF NextMonth, billing, Closed
  <1>5. CASE Aside
    BY <1>1, <1>5 DEF Aside
  <1>6. CASE \E p \in Postings : ResolvePrice(p)
    BY <1>1, <1>6 DEF ResolvePrice, billing, Closed
  <1> QED BY <1>2, <1>3, <1>4, <1>5, <1>6, ConservedClose, JobAside DEF Next, OnMonth

-----------------------------------------------------------------------------
(* The fee of what arrived.  A month that is over and that nothing straddled *)
(* receives no more postings, and no more prices while a pass is at it, so   *)
(* what any pass reads of it before its close is final.                      *)

Arrivals == InFlight /\ Seen /\ Found /\ Late /\ FeeOfArrivals

\* A posting that arrived stays, and months that are over receive none.
LEMMA ArrivedMoves ==
    ASSUME UsageType, InFlight, NEW p \in Postings, Moves(p), UNCHANGED <<now, straddled>>
    PROVE  /\ \A m : Arrived(m) \subseteq Arrived(m)'
           /\ \A m \in Months \ straddled : m < now => Arrived(m)' = Arrived(m)
  <1>0. post[p] \in PostType /\ now \in Nat
    BY PlatformBillingAssumption DEF UsageType, Months
  <1>1. ASSUME NEW m PROVE p \in Arrived(m) => p \in Arrived(m)'
    BY <1>0 DEF Moves, Arrived, PostType
  <1>2. ASSUME NEW m \in Months \ straddled, m < now PROVE p \in Arrived(m)' => p \in Arrived(m)
    <2>1. CASE post[p].step = "new"
      BY <1>0, <2>1 DEF Moves, Arrived, PostType
    <2>2. CASE post[p].step = "writing"
      <3>1. post[p].month # m
        BY <1>0, <1>2, <2>2 DEF InFlight
      <3>2. post'[p].month = post[p].month
        BY <1>0, <2>2 DEF Moves, PostType
      <3> QED BY <3>1, <3>2 DEF Arrived
    <2>3. CASE post[p].step \notin {"new", "writing"}
      <3>1. post'[p].month = post[p].month
        BY <1>0, <2>3 DEF Moves, PostType
      <3> QED BY <2>3, <3>1 DEF Arrived
    <2> QED BY <2>1, <2>2, <2>3
  <1>3. ASSUME NEW m, NEW o \in Postings, o # p PROVE o \in Arrived(m)' <=> o \in Arrived(m)
    BY <1>3 DEF Moves, Arrived
  <1> QED BY <1>1, <1>2, <1>3 DEF Arrived

LEMMA PostingArrivals ==
    ASSUME JobType, UsageType, Behind, Arrivals, NEW p \in Postings, OnPosting(p)
    PROVE  Arrivals'
  <1> USE DEF Arrivals
  <1>1. Moves(p) /\ Takes(p) /\ UNCHANGED <<now, price, straddled, pass>>
    BY PostingEffect
  <1>2. /\ \A m : Arrived(m) \subseteq Arrived(m)'
        /\ \A m \in Months \ straddled : m < now => Arrived(m)' = Arrived(m)
    BY <1>1, ArrivedMoves
  <1>3. \A m \in Months \ straddled :
            m < now => ArrivedCost(m)' = ArrivedCost(m) /\ KnownCost(m)' = KnownCost(m)
    BY <1>1, <1>2 DEF ArrivedCost, KnownCost
  <1>4. /\ period \in [Months -> PeriodType] /\ status \in [Months -> Statuses] /\ now \in Months
        /\ pass \in [Passes -> PassType] /\ post[p] \in PostType
        /\ \A m \in Months : m \in Int
    BY PlatformBillingAssumption DEF UsageType, JobType, Months
  <1>5. InFlight'
    <2>1. /\ post'[p].step \in {"writing", "pending", "read"} =>
                post'[p].month = now \/ {post'[p].month, now} \subseteq straddled
          /\ post'[p].step = "read" =>
                post'[p].target = now \/ {post'[p].target, now} \subseteq straddled
      <3>1. CASE post[p].step = "new"
        BY <1>1, <1>4, <3>1 DEF Moves
      <3>2. CASE post[p].step = "writing"
        BY <1>1, <1>4, <3>2 DEF Moves, InFlight, PostType
      <3>3. CASE post[p].step \in {"pending", "read"}
        <4>1. post[p].month = now \/ {post[p].month, now} \subseteq straddled
          BY <3>3 DEF InFlight
        <4>2. post'[p].month = post[p].month
          BY <1>1, <1>4, <3>3 DEF Moves, PostType
        <4>3. post'[p].step = "read" => post'[p].target = now
          BY <1>1, <1>4, <3>3 DEF Moves, PostType
        <4> QED BY <4>1, <4>2, <4>3
      <3> QED BY <1>1, <3>1, <3>2, <3>3 DEF Moves
    <2> QED BY <1>1, <2>1 DEF InFlight, Moves
  <1>6. /\ \A m \in Months : period'[m].exact = period[m].exact
        /\ \A m \in Months \ straddled :
              /\ m # now => period'[m].total = period[m].total
              /\ period'[m].count > 0 => period[m].count > 0 \/ p \in Arrived(m) \cap Metered
        /\ Closed' = Closed
    <2>1. ASSUME NEW m \in Months, Add(m, p), post[p].step \in {"pending", "read"},
                 m = now \/ (post[p].step = "read" /\ m = post[p].target),
                 status[m] \in {"none", "open"}
          PROVE  <1>6!1 /\ <1>6!2 /\ <1>6!3
      <3>1. /\ \A n \in Months : period'[n].exact = period[n].exact
            /\ \A n \in Months \ {m} : period'[n].total = period[n].total /\ period'[n].count = period[n].count
            /\ period'[m].count = period[m].count + Counts(p)
        BY <1>4, <2>1 DEF Add, PeriodType
      <3>2. Closed' = Closed
        BY <1>4, <2>1 DEF Add, Closed
      <3>3. m \notin straddled => m = now /\ post[p].month = m
        BY <2>1 DEF InFlight
      <3>4. m \notin straddled => p \in Arrived(m)
        BY <2>1, <3>3 DEF Arrived
      <3>5. period[m].count \in Nat
        BY <1>4, <2>1 DEF PeriodType
      <3>6. m \notin straddled /\ period'[m].count > 0 => period[m].count > 0 \/ p \in Arrived(m) \cap Metered
        BY <3>1, <3>4, <3>5 DEF Counts
      <3> QED BY <3>1, <3>2, <3>3, <3>6
    <2>2. CASE UNCHANGED <<status, period>>
      BY <2>2 DEF Closed
    <2> QED BY <1>1, <2>1, <2>2 DEF Takes
  <1>7. Seen'
    <2>1. ASSUME NEW m \in Months \ straddled, period'[m].count > 0 PROVE Arrived(m)' \cap Metered # {}
      BY <1>2, <1>6, <2>1 DEF Seen
    <2>2. ASSUME NEW k \in Passes, pass[k].step \in {"listed", "write"}, pass[k].on \notin straddled,
                 pass[k].count > 0
          PROVE  Arrived(pass[k].on)' \cap Metered # {}
      <3>1. Arrived(pass[k].on) \cap Metered # {}
        BY <2>2 DEF Seen
      <3>2. Arrived(pass[k].on) \subseteq Arrived(pass[k].on)'
        <4> DEFINE m == pass[k].on
        <4>1. m = pass'[k].on
          BY <1>1
        <4>2. Arrived(m) \subseteq {o \in Postings : post'[o].month = m /\ post'[o].step \notin {"new", "writing"}}
          BY <1>2 DEF Arrived
        <4> QED BY <4>1, <4>2 DEF Arrived
      <3> QED BY <3>1, <3>2
    <2> QED BY <1>1, <2>1, <2>2 DEF Seen
  <1>8. Found'
    <2> SUFFICES ASSUME NEW k \in Passes, NEW m, m = pass[k].on, m < now, m \notin straddled,
                        m \notin Closed
                 PROVE  /\ pass[k].step = "write" => pass[k].total = ArrivedCost(m)'
                        /\ k = "close" /\ pass[k].step = "listed" =>
                               period'[m].total \in {pass[k].total, ArrivedCost(m)'}
                        /\ pass[k].step = "lock" => period'[m].total = ArrivedCost(m)'
      BY <1>1, <1>6 DEF Found, ArrivedCost, Arrived
    <2>1. m \in Months /\ m # now
      BY <1>4 DEF PassType
    <2>2. ArrivedCost(m)' = ArrivedCost(m) /\ period'[m].total = period[m].total
      BY <1>3, <1>6, <2>1
    <2> QED BY <2>2 DEF Found
  <1>9. FeeOfArrivals'
    <2> SUFFICES ASSUME NEW m \in Closed \ straddled PROVE period'[m].exact = Fee(KnownCost(m)')
      BY <1>1, <1>6 DEF FeeOfArrivals, KnownCost
    <2>1. m \in Months /\ m < now
      BY DEF Behind, Closed
    <2> QED BY <1>3, <1>6, <2>1 DEF FeeOfArrivals, KnownCost
  <1>10. Late'
    <2> SUFFICES ASSUME NEW o \in Postings, price[o] = "late"
                 PROVE  post'[o].step \notin {"new", "writing"} /\ post'[o].month \in Closed
      BY <1>1, <1>6 DEF Late
    <2>1. post[o].step \notin {"new", "writing"} /\ post[o].month \in Closed
      BY DEF Late
    <2> QED BY <1>1, <1>4, <2>1 DEF Moves, PostType
  <1> QED BY <1>5, <1>7, <1>8, <1>9, <1>10

\* A step that leaves the postings, the prices and the month alone leaves the
\* arrivals.
LEMMA SameArrivals ==
    ASSUME UNCHANGED <<now, post, price, straddled>>
    PROVE  /\ \A m : /\ Arrived(m)' = Arrived(m) /\ ArrivedCost(m)' = ArrivedCost(m)
                     /\ KnownCost(m)' = KnownCost(m)
           /\ InFlight => InFlight'
           /\ Late /\ Closed \subseteq Closed' => Late'
  <1>1. \A m : /\ Arrived(m)' = Arrived(m) /\ ArrivedCost(m)' = ArrivedCost(m)
              /\ KnownCost(m)' = KnownCost(m)
    BY DEF Arrived, ArrivedCost, KnownCost
  <1>2. (InFlight => InFlight') /\ (Late /\ Closed \subseteq Closed' => Late')
    BY DEF InFlight, Late
  <1> QED BY <1>1, <1>2

\* A total that a pass rewrites is rewritten with what arrived ...
Rewrites ==
    \A m \in Months :
        /\ period'[m].exact = period[m].exact
        /\ m \notin straddled =>
              /\ period'[m].count > 0 => Arrived(m) \cap Metered # {}
              /\ m < now /\ m \notin Closed => period'[m].total \in {period[m].total, ArrivedCost(m)}

\* ... and so is what it goes on with, r.
Owes(k, r) ==
    r.on \notin straddled =>
        /\ r.step \in {"listed", "write"} /\ r.count > 0 => Arrived(r.on) \cap Metered # {}
        /\ r.on < now /\ r.on \notin Closed =>
              /\ r.step = "write" => r.total = ArrivedCost(r.on)
              /\ k = "close" /\ r.step = "listed" => period'[r.on].total \in {r.total, ArrivedCost(r.on)}
              /\ r.step = "lock" => period'[r.on].total = ArrivedCost(r.on)

\* A step of one pass owes what it leaves that pass with: the other keeps its own,
\* for a total that is rewritten is rewritten with what arrived.
LEMMA PassArrivals ==
    ASSUME JobType, UsageType, UsageType', Behind, Arrivals,
           NEW k \in Passes, NEW r, pass' = [pass EXCEPT ![k] = r],
           UNCHANGED <<now, post, price, straddled>>, Closed' = Closed,
           Rewrites, Owes(k, r)
    PROVE  Arrivals'
  <1> USE DEF Arrivals, Rewrites, Owes
  <1>1. /\ \A m : Arrived(m)' = Arrived(m) /\ KnownCost(m)' = KnownCost(m)
        /\ InFlight' /\ Late'
    BY SameArrivals
  <1>2. pass \in [Passes -> PassType] /\ pass'[k] = r /\ \A j \in Passes \ {k} : pass'[j] = pass[j]
    BY DEF UsageType
  <1>3. Seen'
    <2>1. ASSUME NEW j \in Passes, NEW q, q = pass'[j], q.step \in {"listed", "write"},
                 q.on \notin straddled, q.count > 0
          PROVE  Arrived(q.on) \cap Metered # {}
      BY <1>2, <2>1 DEF Seen
    <2>2. \A m \in Months \ straddled : period'[m].count > 0 => Arrived(m)' \cap Metered # {}
      BY <1>1
    <2>3. \A j \in Passes : pass'[j].step \in {"listed", "write"} /\ pass'[j].on \notin straddled
                            /\ pass'[j].count > 0 => Arrived(pass'[j].on) \cap Metered # {}
      BY <2>1
    <2> QED BY <2>2, <2>3 DEF Seen, Arrived
  <1>4. Found'
    <2>1. ASSUME NEW j \in Passes, NEW m, m = pass'[j].on, m < now, m \notin straddled,
                 m \notin Closed
          PROVE  /\ pass'[j].step = "write" => pass'[j].total = ArrivedCost(m)
                 /\ j = "close" /\ pass'[j].step = "listed" =>
                        period'[m].total \in {pass'[j].total, ArrivedCost(m)}
                 /\ pass'[j].step = "lock" => period'[m].total = ArrivedCost(m)
      <3>1. CASE j = k
        BY <1>2, <2>1, <3>1
      <3>2. CASE j # k
        <4>1. pass'[j] = pass[j] /\ m = pass[j].on /\ m \in Months
          BY <1>2, <2>1, <3>2 DEF PassType
        <4>2. period'[m].total \in {period[m].total, ArrivedCost(m)}
          BY <2>1, <4>1
        <4>3. /\ pass[j].step = "write" => pass[j].total = ArrivedCost(m)
              /\ j = "close" /\ pass[j].step = "listed" =>
                     period[m].total \in {pass[j].total, ArrivedCost(m)}
              /\ pass[j].step = "lock" => period[m].total = ArrivedCost(m)
          BY <2>1, <4>1 DEF Found
        <4> QED BY <4>1, <4>2, <4>3
      <3> QED BY <3>1, <3>2
    <2> QED BY <2>1 DEF Found, ArrivedCost, Arrived
  <1>5. FeeOfArrivals'
    <2>1. Closed \subseteq Months
      BY DEF Closed
    <2> QED BY <1>1, <2>1 DEF FeeOfArrivals, KnownCost
  <1> QED BY <1>1, <1>3, <1>4, <1>5

\* What each step of a pass leaves it with.
LEMMA PassStepArrivals ==
    ASSUME JobType, UsageType, UsageType', Ordered, Behind, Arrivals,
           \/ \E k \in Passes : OnPass(k)
           \/ \E m \in Months : StartHourly(m) \/ StartClose(m)
           \/ RefuseClose
    PROVE  Arrivals'
  <1> USE DEF Arrivals
  <1>0. /\ UNCHANGED <<now, post, price, straddled>> /\ Closed' = Closed
        /\ pass \in [Passes -> PassType] /\ period \in [Months -> PeriodType]
        /\ "close" \in Passes /\ "hourly" \in Passes
        /\ \A m \in Months : m \notin straddled /\ period[m].count > 0 => Arrived(m) \cap Metered # {}
    BY PassEffect DEF usage, Closed, UsageType, Passes, Seen
  <1>1. IdlePass.step = "idle"
    BY DEF IdlePass
  <1>2. ASSUME NEW k \in Passes, PassDies(k) PROVE Arrivals'
    <2>1. pass' = [pass EXCEPT ![k] = IdlePass] /\ UNCHANGED period
      BY <1>2 DEF PassDies
    <2>2. Rewrites /\ Owes(k, IdlePass)
      BY <1>0, <1>1, <2>1 DEF Rewrites, Owes
    <2> QED BY <1>0, <2>1, <2>2, PassArrivals
  <1>3. ASSUME RefuseClose PROVE Arrivals'
    <2>1. pass' = [pass EXCEPT !["close"] = IdlePass] /\ UNCHANGED period
      BY <1>3 DEF RefuseClose
    <2>2. Rewrites /\ Owes("close", IdlePass)
      BY <1>0, <1>1, <2>1 DEF Rewrites, Owes
    <2> QED BY <1>0, <2>1, <2>2, PassArrivals
  <1>4. ASSUME NEW m \in Months, NEW k \in Passes, pass' = [pass EXCEPT ![k] = Listed(m)], UNCHANGED period
        PROVE  Arrivals'
    <2>1. /\ Listed(m).step = "listed" /\ Listed(m).on = m /\ Listed(m).total = period[m].total
          /\ Listed(m).count = period[m].count
      BY DEF Listed
    <2>2. Rewrites /\ Owes(k, Listed(m))
      BY <1>0, <1>4, <2>1 DEF Rewrites, Owes
    <2> QED BY <1>0, <1>4, <2>2, PassArrivals
  <1>5. ASSUME NEW m \in Months, StartHourly(m) \/ StartClose(m) PROVE Arrivals'
    BY <1>0, <1>4, <1>5 DEF StartHourly, StartClose
  <1>6. ASSUME NEW k \in Passes
        PROVE  /\ Reconciled(k).step \in {"idle", "lock"}
               /\ Reconciled(k).step = "lock" => k = "close" /\ Reconciled(k).on = pass[k].on
    BY <1>0, <1>1 DEF Reconciled, PassType
  <1>7. ASSUME NEW k \in Passes, ReadTotals(k) PROVE Arrivals'
    <2> DEFINE m == pass[k].on
               unseen == ArrivedCount(m) = 0 /\ pass[k].count > 0
               same == ArrivedCost(m) = pass[k].total /\ ArrivedCount(m) = pass[k].count
               row == [pass[k] EXCEPT !.step = "write", !.total = ArrivedCost(m), !.count = ArrivedCount(m)]
    <2>1. /\ pass[k].step = "listed" /\ UNCHANGED period /\ m \in Months
          /\ pass' = [pass EXCEPT ![k] = IF unseen \/ same THEN Reconciled(k) ELSE row]
      BY <1>0, <1>7 DEF ReadTotals, PassType
    <2>2. CASE unseen \/ same
      <3>1. pass' = [pass EXCEPT ![k] = Reconciled(k)]
        BY <2>1, <2>2
      <3>2. m \notin straddled => ~unseen
        BY <2>1, ArrivedTypes DEF Seen
      <3>3. m \notin straddled /\ m < now /\ m \notin Closed /\ k = "close" =>
                period[m].total = ArrivedCost(m)
        BY <2>1, <2>2, <3>2 DEF Found
      <3>4. Rewrites /\ Owes(k, Reconciled(k))
        BY <1>0, <1>6, <2>1, <3>3 DEF Rewrites, Owes
      <3> QED BY <1>0, <3>1, <3>4, PassArrivals
    <2>3. CASE ~(unseen \/ same)
      <3>1. pass' = [pass EXCEPT ![k] = row]
        BY <2>1, <2>3
      <3>2. row.step = "write" /\ row.on = m /\ row.total = ArrivedCost(m) /\ row.count = ArrivedCount(m)
        BY <1>0 DEF PassType
      <3>3. ArrivedCount(m) > 0 => Arrived(m) \cap Metered # {}
        BY ArrivedTypes
      <3> HIDE DEF row
      <3>4. Rewrites /\ Owes(k, row)
        BY <1>0, <2>1, <3>2, <3>3 DEF Rewrites, Owes
      <3> QED BY <1>0, <3>1, <3>4, PassArrivals
    <2> QED BY <2>2, <2>3
  <1>8. ASSUME NEW k \in Passes, WriteTotals(k) PROVE Arrivals'
    <2> DEFINE m == pass[k].on
    <2>1. /\ pass[k].step = "write" /\ m \in Months
          /\ pass' = [pass EXCEPT ![k] = Reconciled(k)]
          /\ period' = [period EXCEPT ![m].total = pass[k].total, ![m].count = pass[k].count]
      BY <1>0, <1>8 DEF WriteTotals, PassType
    <2>2. /\ period'[m].total = pass[k].total /\ period'[m].count = pass[k].count
          /\ period'[m].exact = period[m].exact
          /\ \A n \in Months \ {m} : period'[n] = period[n]
      BY <1>0, <2>1 DEF PeriodType
    <2>3. m \notin straddled /\ pass[k].count > 0 => Arrived(m) \cap Metered # {}
      BY <2>1 DEF Seen
    <2>4. m \notin straddled /\ m < now /\ m \notin Closed => pass[k].total = ArrivedCost(m)
      BY <2>1 DEF Found
    <2>5. Rewrites
      BY <1>0, <2>1, <2>2, <2>3, <2>4 DEF Rewrites
    <2>6. Owes(k, Reconciled(k))
      BY <1>6, <2>1, <2>2, <2>4 DEF Owes
    <2> QED BY <1>0, <2>1, <2>5, <2>6, PassArrivals
  <1> QED BY <1>2, <1>3, <1>5, <1>7, <1>8 DEF OnPass

\* The lock of the close finds the total of what arrived.
LEMMA CloseArrivals ==
    ASSUME JobType, UsageType, UsageType', Ordered, Behind, Arrivals, ClosePeriod
    PROVE  Arrivals'
  <1> USE DEF Arrivals
  <1> DEFINE m == pass["close"].on
  <1>1. /\ m \in Months /\ m < now /\ UNCHANGED <<now, post, price, straddled>>
        /\ pass' = [pass EXCEPT !["close"] = IdlePass]
        /\ status[m] # "open" => UNCHANGED <<status, period>>
        /\ status[m] = "open" =>
              /\ Closed' = Closed \cup {m} /\ period'[m].exact = Fee(period[m].total)
              /\ period'[m].total = period[m].total /\ period'[m].count = period[m].count
              /\ \A n \in Months \ {m} : period'[n] = period[n]
    BY CloseEffect DEF usage
  <1>0. Closed \subseteq Closed'
    BY <1>1 DEF Closed
  <1>2. /\ \A n : Arrived(n)' = Arrived(n) /\ KnownCost(n)' = KnownCost(n)
        /\ InFlight' /\ Late'
    BY <1>0, <1>1, SameArrivals
  <1>3. \A n \in Months : period'[n].total = period[n].total /\ period'[n].count = period[n].count
    BY <1>1
  <1>4. /\ pass \in [Passes -> PassType] /\ pass'["close"].step = "idle"
        /\ \A j \in Passes : j # "close" => pass'[j] = pass[j]
    BY <1>1 DEF UsageType, Passes, IdlePass
  <1>5. Seen'
    <2>1. \A n \in Months \ straddled : period'[n].count > 0 => Arrived(n)' \cap Metered # {}
      BY <1>2, <1>3 DEF Seen
    <2>2. \A j \in Passes : pass'[j].step \in {"listed", "write"} /\ pass'[j].on \notin straddled
                            /\ pass'[j].count > 0 => Arrived(pass'[j].on) \cap Metered # {}
      BY <1>4 DEF Seen
    <2> QED BY <1>1, <2>1, <2>2 DEF Seen, Arrived
  <1>6. Found'
    <2>1. ASSUME NEW j \in Passes, NEW n, n = pass'[j].on, n < now, n \notin straddled,
                 n \notin Closed
          PROVE  /\ pass'[j].step = "write" => pass'[j].total = ArrivedCost(n)
                 /\ j = "close" /\ pass'[j].step = "listed" =>
                        period'[n].total \in {pass'[j].total, ArrivedCost(n)}
                 /\ pass'[j].step = "lock" => period'[n].total = ArrivedCost(n)
      <3>1. CASE j = "close"
        BY <1>4, <3>1
      <3>2. CASE j # "close"
        <4>1. pass'[j] = pass[j] /\ n = pass[j].on /\ n \in Months
          BY <1>4, <2>1, <3>2 DEF PassType
        <4> QED BY <1>3, <2>1, <4>1 DEF Found
      <3> QED BY <3>1, <3>2
    <2> QED BY <1>0, <1>1, <2>1 DEF Found, ArrivedCost, Arrived
  <1>7. FeeOfArrivals'
    <2>1. m \notin straddled /\ m \notin Closed => period[m].total = ArrivedCost(m)
      <3>1. pass["close"].step = "lock" /\ "close" \in Passes
        BY DEF ClosePeriod, Passes
      <3> QED BY <1>1, <3>1 DEF Found
    <2>2. \A n \in Closed \ straddled : period[n].exact = Fee(KnownCost(n))
      BY DEF FeeOfArrivals, KnownCost
    <2>3. \A n \in Closed' \ straddled : period'[n].exact = Fee(KnownCost(n))
      <3>1. CASE status[m] # "open"
        BY <1>1, <2>2, <3>1 DEF Closed
      <3>2. CASE status[m] = "open"
        <4>1. m \notin Closed /\ Closed \subseteq Months
          BY <3>2 DEF Closed
        <4>2. {o \in Arrived(m) : price[o] # "unknown"} = {o \in Arrived(m) : price[o] = "known"}
          BY <4>1 DEF Arrived, Late, UsageType
        <4>3. m \notin straddled => period[m].total = KnownCost(m)
          BY <2>1, <4>1, <4>2 DEF ArrivedCost, KnownCost
        <4> QED BY <1>1, <2>2, <3>2, <4>1, <4>3
      <3> QED BY <3>1, <3>2
    <2> QED BY <1>1, <1>2, <2>3 DEF FeeOfArrivals, KnownCost
  <1> QED BY <1>2, <1>5, <1>6, <1>7

\* The turn of the month: what is under way straddles it, and what is not stays
\* final.
LEMMA MonthArrivals ==
    ASSUME JobType, UsageType, UsageType', Behind, Arrivals, NextMonth
    PROVE  Arrivals'
  <1> USE DEF Arrivals
  <1> DEFINE busy == \/ pass["hourly"].step # "idle"
                     \/ \E p \in Postings : post[p].step \in {"writing", "pending", "read"}
  <1>1. /\ now' = now + 1 /\ UNCHANGED <<post, price, status, period, pass>> /\ Closed' = Closed
        /\ pass["close"].step = "idle"
        /\ straddled' = IF busy THEN straddled \cup {now, now + 1} ELSE straddled
    BY DEF NextMonth, billing, Closed
  <1>2. now \in Int /\ (\A m \in Months : m \in Int) /\ straddled \subseteq straddled'
        /\ pass \in [Passes -> PassType]
    BY <1>1, PlatformBillingAssumption DEF UsageType, Months
  <1>3. \A m : Arrived(m)' = Arrived(m) /\ KnownCost(m)' = KnownCost(m)
    BY <1>1 DEF Arrived, KnownCost
  <1>4. InFlight'
    <2> SUFFICES ASSUME NEW p \in Postings, post[p].step \in {"writing", "pending", "read"}
                 PROVE  /\ {post[p].month, now'} \subseteq straddled'
                        /\ post[p].step = "read" => {post[p].target, now'} \subseteq straddled'
      BY <1>1 DEF InFlight
    <2>1. straddled' = straddled \cup {now, now'}
      BY <1>1
    <2> QED BY <2>1 DEF InFlight
  <1>5. Seen'
    <2>1. \A m \in Months \ straddled' : period'[m].count > 0 => Arrived(m)' \cap Metered # {}
      BY <1>1, <1>2, <1>3 DEF Seen
    <2>2. \A j \in Passes : pass'[j].step \in {"listed", "write"} /\ pass'[j].on \notin straddled'
                            /\ pass'[j].count > 0 => Arrived(pass'[j].on) \cap Metered # {}
      BY <1>1, <1>2 DEF Seen
    <2> QED BY <1>1, <2>1, <2>2 DEF Seen, Arrived
  <1>6. Found'
    <2>1. ASSUME NEW j \in Passes, NEW n, n = pass'[j].on, n < now', n \notin straddled',
                 n \notin Closed
          PROVE  /\ pass'[j].step = "write" => pass'[j].total = ArrivedCost(n)
                 /\ j = "close" /\ pass'[j].step = "listed" =>
                        period'[n].total \in {pass'[j].total, ArrivedCost(n)}
                 /\ pass'[j].step = "lock" => period'[n].total = ArrivedCost(n)
      <3>1. CASE pass[j].step = "idle"
        BY <1>1, <3>1
      <3>2. CASE pass[j].step # "idle"
        <4>1. busy /\ n \in Months /\ n = pass[j].on
          BY <1>1, <1>2, <2>1, <3>2 DEF Passes, PassType
        <4>2. n < now /\ n \notin straddled
          BY <1>1, <1>2, <2>1, <4>1
        <4> QED BY <1>1, <2>1, <4>1, <4>2 DEF Found
      <3> QED BY <3>1, <3>2
    <2> QED BY <1>1, <2>1 DEF Found, ArrivedCost, Arrived
  <1>7. FeeOfArrivals'
    BY <1>1, <1>2, <1>3 DEF FeeOfArrivals, KnownCost
  <1>8. Late'
    BY <1>1 DEF Late
  <1> QED BY <1>4, <1>5, <1>6, <1>7, <1>8

\* A price that is set: it straddles its month when a pass is at that month and
\* the month is over, and it is late when the month is closed.
LEMMA PriceArrivals ==
    ASSUME JobType, UsageType, Behind, Arrivals, NEW p \in Postings, ResolvePrice(p)
    PROVE  Arrivals'
  <1> USE DEF Arrivals
  <1> DEFINE m == post[p].month
             passing == \E k \in Passes : pass[k].step # "idle" /\ pass[k].on = m
  <1>1. /\ UNCHANGED <<now, post, status, period, pass>> /\ Closed' = Closed
        /\ post[p].step \notin {"new", "writing"} /\ price[p] = "unknown"
        /\ price' = [price EXCEPT ![p] = IF m \in Closed THEN "late" ELSE "known"]
        /\ straddled \subseteq straddled'
        /\ m < now /\ m \notin Closed /\ passing => m \in straddled'
    BY DEF ResolvePrice, billing, Closed
  <1>2. \A n : Arrived(n)' = Arrived(n)
    BY <1>1 DEF Arrived
  <1>3. /\ \A o \in Postings \ {p} : price'[o] = price[o]
        /\ price'[p] = IF m \in Closed THEN "late" ELSE "known"
    BY <1>1 DEF UsageType
  <1>4. \A n : n # m => ArrivedCost(n)' = ArrivedCost(n)
    <2>1. ASSUME NEW n, n # m
          PROVE  {o \in Arrived(n) : price'[o] # "unknown"} = {o \in Arrived(n) : price[o] # "unknown"}
      BY <1>3, <2>1 DEF Arrived
    <2> QED BY <1>2, <2>1 DEF ArrivedCost
  <1>5. \A n \in Closed : KnownCost(n)' = KnownCost(n)
    <2>1. ASSUME NEW n \in Closed
          PROVE  {o \in Arrived(n) : price'[o] = "known"} = {o \in Arrived(n) : price[o] = "known"}
      BY <1>1, <1>3 DEF Arrived
    <2> QED BY <1>2, <2>1 DEF KnownCost
  <1>6. InFlight'
    BY <1>1 DEF InFlight
  <1>7. Seen'
    <2>1. \A n \in Months \ straddled' : period'[n].count > 0 => Arrived(n)' \cap Metered # {}
      BY <1>1, <1>2 DEF Seen
    <2>2. \A j \in Passes : pass'[j].step \in {"listed", "write"} /\ pass'[j].on \notin straddled'
                            /\ pass'[j].count > 0 => Arrived(pass'[j].on) \cap Metered # {}
      BY <1>1 DEF Seen
    <2> QED BY <1>1, <2>1, <2>2 DEF Seen, Arrived
  <1>8. Found'
    <2>1. ASSUME NEW j \in Passes, NEW n, n = pass[j].on, n < now, n \notin straddled', n \notin Closed,
                 pass[j].step # "idle"
          PROVE  ArrivedCost(n)' = ArrivedCost(n) /\ n \notin straddled
      BY <1>1, <1>4, <2>1
    <2>2. ASSUME NEW j \in Passes, NEW n, n = pass[j].on, n < now, n \notin straddled', n \notin Closed
          PROVE  /\ pass[j].step = "write" => pass[j].total = ArrivedCost(n)'
                 /\ j = "close" /\ pass[j].step = "listed" =>
                        period[n].total \in {pass[j].total, ArrivedCost(n)'}
                 /\ pass[j].step = "lock" => period[n].total = ArrivedCost(n)'
      <3>1. CASE pass[j].step = "idle"
        BY <3>1
      <3>2. CASE pass[j].step # "idle"
        BY <2>1, <2>2, <3>2 DEF Found
      <3> QED BY <3>1, <3>2
    <2> QED BY <1>1, <2>2 DEF Found, ArrivedCost, Arrived
  <1>9. Late'
    BY <1>1, <1>3 DEF Late
  <1>10. FeeOfArrivals'
    <2>1. \A n \in Closed \ straddled : period[n].exact = Fee(KnownCost(n))
      BY DEF FeeOfArrivals, KnownCost
    <2>2. \A n \in Closed' \ straddled' : period'[n].exact = Fee(KnownCost(n)')
      BY <1>1, <1>5, <2>1
    <2> QED BY <2>2 DEF FeeOfArrivals, KnownCost
  <1> QED BY <1>6, <1>7, <1>8, <1>9, <1>10

\* Every step keeps what is known of the arrivals.
LEMMA ArrivalsStep ==
    ASSUME JobType, UsageType, UsageType', Ordered, Behind, Arrivals, [Next]_vars PROVE Arrivals'
  <1>1. CASE Aside
    <2>1. /\ \A m : Arrived(m)' = Arrived(m) /\ KnownCost(m)' = KnownCost(m)
          /\ InFlight' /\ Late'
      BY <1>1, SameArrivals DEF Aside, Arrivals
    <2>2. UNCHANGED <<now, post, price, straddled, period, pass>> /\ Closed' = Closed
      BY <1>1 DEF Aside
    <2>3. Seen'
      BY <2>2 DEF Arrivals, Seen, Arrived
    <2>4. Found'
      BY <2>2 DEF Arrivals, Found, ArrivedCost, Arrived
    <2>5. FeeOfArrivals'
      BY <2>1, <2>2 DEF Arrivals, FeeOfArrivals, KnownCost
    <2> QED BY <2>1, <2>3, <2>4, <2>5 DEF Arrivals
  <1> QED BY <1>1, PostingArrivals, PriceArrivals, PassStepArrivals, CloseArrivals, MonthArrivals, JobAside
          DEF Next, OnMonth

\* The types, the order of the periods, the fees and the arrivals together.
FInv == UsageType /\ Ordered /\ Behind /\ FeesConserved /\ Arrivals

\* A period that nothing was closed in has nothing to conserve.
LEMMA InitFees == Init => FInv
  <1> SUFFICES ASSUME Init PROVE FInv
    OBVIOUS
  <1>1. UsageType
    <2>1. NoPeriod \in PeriodType /\ IdlePass \in PassType
      BY OneIsMonth DEF NoPeriod, PeriodType, IdlePass, PassType
    <2>2. [step |-> "new", month |-> 1, target |-> 1] \in PostType
      BY OneIsMonth DEF PostType
    <2>3. held \subseteq Months /\ closeRan \in 0 .. MaxMonth /\ left \in 0 .. Faults
      BY PlatformBillingAssumption DEF Init, Months
    <2>4. /\ post \in [Postings -> PostType] /\ period \in [Months -> PeriodType]
          /\ pass \in [Passes -> PassType]
      BY <2>1, <2>2 DEF Init
    <2>5. price \in [Postings -> {"unknown", "known", "late"}]
      BY DEF Init
    <2> QED BY <2>3, <2>4, <2>5, OneIsMonth DEF Init, UsageType
  <1>2. Closed = {} /\ Open = {}
    BY DEF Init, Closed, Open
  <1>3. Ordered /\ Behind
    BY <1>2, OneIsMonth DEF Init, Ordered, Behind, IdlePass, Passes
  <1>4. TypeOK
    BY <1>1, InitJob DEF UsageType, IInv, JobType, TypeOK
  <1>5. FeesConserved
    BY <1>2, <1>4 DEF FeesConserved
  <1>6. InFlight
    BY DEF Init, InFlight
  <1>7. Seen
    BY DEF Init, Seen, NoPeriod, IdlePass
  <1>8. Found
    BY DEF Init, Found, IdlePass
  <1>9. FeeOfArrivals
    BY <1>2 DEF FeeOfArrivals
  <1>10. Late
    BY DEF Init, Late
  <1> QED BY <1>1, <1>3, <1>5, <1>6, <1>7, <1>8, <1>9, <1>10 DEF FInv, Arrivals

\* The invariant of the periods, for any months, postings, fees and faults.
THEOREM PeriodsInvariance == Spec => []FInv
  <1>1. Init => FInv
    BY InitFees
  <1>2. IInv /\ IInv' /\ FInv /\ [Next]_vars => FInv'
    <2> SUFFICES ASSUME IInv, IInv', FInv, [Next]_vars PROVE FInv'
      OBVIOUS
    <2>1. JobType /\ JobType'
      BY DEF IInv
    <2>2. UsageType'
      BY <2>1, UsageTypeStep DEF FInv
    <2>3. TypeOK'
      BY <2>1, <2>2 DEF JobType, UsageType, TypeOK
    <2>4. Ordered' /\ Behind'
      BY <2>1, OrderStep DEF FInv
    <2>5. FeesConserved'
      BY <2>1, <2>3, ConservedStep DEF FInv
    <2>6. Arrivals'
      BY <2>1, <2>2, ArrivalsStep DEF FInv
    <2> QED BY <2>2, <2>4, <2>5, <2>6 DEF FInv
  <1> QED BY <1>1, <1>2, InvoiceJobInvariance, PTL DEF Spec

\* What the closed periods bill and the last remainder add up to the exact fees,
\* however closes, refusals and the invoice job interleave (_bank_fee_carry):
\* the period that a close reads its carry from is the last one closed, because
\* the open period is always the last one there is.
THEOREM NoFeeLost == Spec => []FeesConserved
  <1>1. FInv => FeesConserved
    BY DEF FInv
  <1> QED BY <1>1, PeriodsInvariance, PTL

\* The fee of a closed period is of exactly what arrived in its month and was
\* priced by its close, whatever the accumulator and the hourly pass did to its
\* totals and whatever prices came later (reconcile_period, close_period and
\* resolve_price), unless something was under way at one of the month's ends or
\* a price came while a pass was at the month that was over.
THEOREM FeesOfArrivals == Spec => []FeeOfArrivals
  <1>1. FInv => FeeOfArrivals
    BY DEF FInv, Arrivals
  <1> QED BY <1>1, PeriodsInvariance, PTL
=============================================================================
