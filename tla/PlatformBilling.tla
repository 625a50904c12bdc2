--------------------------- MODULE PlatformBilling ---------------------------
(***************************************************************************)
(* What UBB bills a tenant: postings accumulate into the tenant's period   *)
(* of the current month, the hourly pass rewrites an open period from the  *)
(* postings, the first of the month closes the month before and computes   *)
(* its fee, and the invoice job sends the fee to Stripe.  A posting UBB    *)
(* cannot price is recorded without an amount, which a Resolution Run sets *)
(* on the posting later and on nothing else.                               *)
(*                                                                         *)
(* A handler of the outbox is one transaction; between its read of the     *)
(* period and its update anything may happen.  The two passes read, decide *)
(* and write without a lock; only the close itself takes the row's.        *)
(* Stripe forgets idempotency keys after a day, so between two months.     *)
(***************************************************************************)
EXTENDS Integers, FiniteSets, Functions

CONSTANTS Postings,
          Cost,       \* billed_cost_micros of each posting, once it is priced
          Unpriced,   \* the postings recorded without a price
          Metered,    \* the postings that count as events (not Task Charges)
          Held,       \* months in which a name is quarantined
          MaxMonth,   \* bound: months that pass
          Flat,       \* a flat product fee
          Num, Den,   \* the percentage
          Unit,       \* micros in a minor unit
          Workers,    \* runs of the invoice job
          Faults      \* bound: things that may go wrong

ASSUME PlatformBillingAssumption ==
    /\ Cost \in [Postings -> Nat] /\ Metered \subseteq Postings /\ Unpriced \subseteq Postings
    /\ Held \subseteq 1 .. MaxMonth
    /\ IsFiniteSet(Postings) /\ MaxMonth \in Nat \ {0}
    /\ Flat \in Nat /\ Num \in Nat /\ Den \in Nat \ {0} /\ Unit \in Nat \ {0}
    /\ Faults \in Nat

Months == 1 .. MaxMonth

\* reconcile_tenant_billing_periods and close_tenant_billing_periods.
Passes == {"hourly", "close"}

VARIABLES
    now,       \* the current month
    post,      \* each posting: where it is, its created_at and the period read
    price,     \* each posting's price: unknown, known, or known after the close
    status,    \* TenantBillingPeriod.status, "none" before it is created
    period,    \* its totals, its fee, and the row its close banked
    held,      \* months with a quarantined name nobody decided about
    pass,      \* each pass: its step, its period and the totals it read
    closeRan,  \* the last month whose first day ran the close
    invoice,   \* the TenantInvoice row: the Stripe invoice recorded, 0 if none
    customer,  \* the tenant has a usable platform billing customer
    worker,    \* each run of the invoice job
    stripe,    \* Stripe: the invoices of each period and the key's answer
    lost,      \* periods with a run that ended between Stripe and its record
    straddled, \* months with something unfinished at an end, or a price that
               \* came while a pass was at the month that was over
    left       \* faults that may still happen

usage == <<now, post, price, straddled>>
billing == <<status, period, held, pass, closeRan>>
invoicing == <<invoice, customer, worker, stripe, lost>>
vars == <<usage, billing, invoicing, left>>

NoPeriod == [total |-> 0, count |-> 0, exact |-> 0, fee |-> 0, carried |-> 0]
IdlePass == [step |-> "idle", on |-> 1, total |-> 0, count |-> 0]
IdleWorker == [step |-> "idle", on |-> 1, at |-> 0]

Init ==
    /\ now = 1
    /\ post = [p \in Postings |-> [step |-> "new", month |-> 1, target |-> 1]]
    /\ price = [p \in Postings |-> IF p \in Unpriced THEN "unknown" ELSE "known"]
    /\ status = [m \in Months |-> "none"]
    /\ period = [m \in Months |-> NoPeriod] /\ held = Held
    /\ pass = [k \in Passes |-> IdlePass] /\ closeRan = 1
    /\ invoice = [m \in Months |-> 0] /\ customer = FALSE
    /\ worker = [w \in Workers |-> IdleWorker]
    /\ stripe = [m \in Months |-> [made |-> 0, key |-> 0, items |-> {}, final |-> {}]]
    /\ lost = {} /\ straddled = {} /\ left = Faults

Fault == left > 0 /\ left' = left - 1

-----------------------------------------------------------------------------
(* Accumulation.                                                            *)

Open == {m \in Months : status[m] = "open"}

Counts(p) == IF p \in Metered THEN 1 ELSE 0

\* The posting's created_at is set, its transaction is open.
Create(p) ==
    /\ post[p].step = "new"
    /\ post' = [post EXCEPT ![p] = [step |-> "writing", month |-> now, target |-> now]]
    /\ UNCHANGED <<now, price, straddled, billing, invoicing, left>>

\* The posting commits, with its event in the outbox.
Commit(p) ==
    /\ post[p].step = "writing"
    /\ post' = [post EXCEPT ![p].step = "pending"]
    /\ UNCHANGED <<now, price, straddled, billing, invoicing, left>>

\* get_or_create_current_period, the period exists: it is read whatever its
\* status.
ReadPeriod(p) ==
    /\ post[p].step = "pending" /\ status[now] # "none"
    /\ post' = [post EXCEPT ![p].step = "read", ![p].target = now]
    /\ UNCHANGED <<now, price, straddled, billing, invoicing, left>>

\* The amount the posting's event carries: nothing when it had no price.
Carries(p) == IF p \in Unpriced THEN 0 ELSE Cost[p]

\* One more posting in the open period.
Add(m, p) ==
    /\ status' = [status EXCEPT ![m] = "open"]
    /\ period' = [period EXCEPT ![m].total = @ + Carries(p), ![m].count = @ + Counts(p)]

\* The month's first posting creates its period; the index admits one open
\* period of a tenant.
CreatePeriod(p) ==
    /\ post[p].step = "pending" /\ status[now] = "none" /\ Open = {}
    /\ Add(now, p)
    /\ post' = [post EXCEPT ![p].step = "done"]
    /\ UNCHANGED <<now, price, straddled, held, pass, closeRan, invoicing, left>>

\* The handler raises: the outbox tries again, or has given up.
Raised(p) ==
    /\ \E s \in {"pending", "dead"} : post' = [post EXCEPT ![p].step = s]
    /\ UNCHANGED <<now, price, straddled, billing, invoicing>>

\* A period of an earlier month is still open: the create is refused and the
\* row that the handler then fetches does not exist.
NoPeriodYet(p) ==
    /\ post[p].step = "pending" /\ status[now] = "none" /\ Open # {}
    /\ Raised(p) /\ UNCHANGED left

\* The handler fails for a reason of its own.
HandlerFails(p) == post[p].step \in {"pending", "read"} /\ Fault /\ Raised(p)

\* accumulate_usage: the guarded update, and one retry on the current period
\* when the one that was read has closed.
Accumulate(p) ==
    /\ post[p].step = "read"
    /\ LET m == IF status[post[p].target] = "open" THEN post[p].target ELSE now
       IN  IF status[m] = "none" /\ Open # {}
           THEN Raised(p)
           ELSE /\ IF status[m] \in {"none", "open"} THEN Add(m, p)
                   ELSE UNCHANGED <<status, period>>
                /\ post' = [post EXCEPT ![p].step = "done"]
                /\ UNCHANGED <<now, price, straddled, held, pass, closeRan, invoicing>>
    /\ UNCHANGED left

-----------------------------------------------------------------------------
(* The hourly pass and the close.                                           *)

\* get_period_totals by arrival: the postings that committed with a
\* created_at in the month.
Arrived(m) ==
    {p \in Postings : post[p].month = m /\ post[p].step \notin {"new", "writing"}}
ArrivedCost(m) == SumFunctionOnSet(Cost, {p \in Arrived(m) : price[p] # "unknown"})
ArrivedCount(m) == Cardinality(Arrived(m) \cap Metered)

\* The period's row as the pass listed it.
Listed(m) == [step |-> "listed", on |-> m,
              total |-> period[m].total, count |-> period[m].count]

\* reconcile_tenant_billing_periods: every hour, each open period.
StartHourly(m) ==
    /\ pass["hourly"].step = "idle" /\ m \in Open
    /\ pass' = [pass EXCEPT !["hourly"] = Listed(m)]
    /\ UNCHANGED <<usage, status, period, held, closeRan, invoicing, left>>

\* close_tenant_billing_periods: once, on the first of a month, for the open
\* period of an earlier one.
StartClose(m) ==
    /\ pass["close"].step = "idle" /\ closeRan < now /\ m \in Open /\ m < now
    /\ pass' = [pass EXCEPT !["close"] = Listed(m)] /\ closeRan' = now
    /\ UNCHANGED <<usage, status, period, held, invoicing, left>>

\* refuse_a_silent_close: a name is held in the period, which stays open.
RefuseClose ==
    /\ pass["close"].step = "listed" /\ pass["close"].on \in held
    /\ pass' = [pass EXCEPT !["close"] = IdlePass]
    /\ UNCHANGED <<usage, status, period, held, closeRan, invoicing, left>>

\* What follows reconcile_period.
Reconciled(k) ==
    IF k = "close" THEN [pass[k] EXCEPT !.step = "lock"] ELSE IdlePass

\* Mutant: the close takes the accumulated totals as they are.
ReadTotalsHourly(k) ==
    /\ pass[k].step = "listed" /\ ~(k = "close" /\ pass[k].on \in held)
    /\ LET m == pass[k].on
       IN  pass' = [pass EXCEPT ![k] =
             IF k = "close" \/ (ArrivedCount(m) = 0 /\ pass[k].count > 0) THEN Reconciled(k)
             ELSE [@ EXCEPT !.step = "write",
                            !.total = ArrivedCost(m), !.count = ArrivedCount(m)]]
    /\ UNCHANGED <<usage, status, period, held, closeRan, invoicing, left>>

\* reconcile_period reads the postings.  It writes nothing when it finds no
\* event where the row it was given counts some, nor when the two agree.
ReadTotals(k) ==
    /\ pass[k].step = "listed" /\ ~(k = "close" /\ pass[k].on \in held)
    /\ LET m == pass[k].on
           unseen == ArrivedCount(m) = 0 /\ pass[k].count > 0
           same == ArrivedCost(m) = pass[k].total /\ ArrivedCount(m) = pass[k].count
       IN  pass' = [pass EXCEPT ![k] =
             IF unseen \/ same THEN Reconciled(k)
             ELSE [@ EXCEPT !.step = "write",
                            !.total = ArrivedCost(m), !.count = ArrivedCount(m)]]
    /\ UNCHANGED <<usage, status, period, held, closeRan, invoicing, left>>

\* ... and writes them, whatever happened to the period in between.
WriteTotals(k) ==
    /\ pass[k].step = "write"
    /\ period' = [period EXCEPT ![pass[k].on].total = pass[k].total,
                                ![pass[k].on].count = pass[k].count]
    /\ pass' = [pass EXCEPT ![k] = Reconciled(k)]
    /\ UNCHANGED <<usage, status, held, closeRan, invoicing, left>>

Closed == {m \in Months : status[m] \in {"closed", "invoicing", "invoiced"}}

\* _calculate_fees: exact micros.
Fee(total) == Flat + (total * Num) \div Den

\* Mutant: the remainder is dropped.
CarriedInNothing(m) == 0

\* _bank_fee_carry: what the most recent earlier period carried out.
CarriedIn(m) ==
    LET earlier == {n \in Closed : n < m}
    IN  IF earlier = {} THEN 0
        ELSE period[CHOOSE n \in earlier : \A o \in earlier : o <= n].carried

\* close_period under the row's lock: the fee of the total that is stored now,
\* floored once to the minor unit with the rest carried on.
ClosePeriod ==
    /\ pass["close"].step = "lock"
    /\ LET m == pass["close"].on
           exact == Fee(period[m].total)
           due == exact + CarriedIn(m)
       IN  IF status[m] # "open" THEN UNCHANGED <<status, period>>
           ELSE /\ status' = [status EXCEPT ![m] = "closed"]
                /\ period' = [period EXCEPT ![m].exact = exact,
                                ![m].fee = due - (due % Unit), ![m].carried = due % Unit]
    /\ pass' = [pass EXCEPT !["close"] = IdlePass]
    /\ UNCHANGED <<usage, held, closeRan, invoicing, left>>

\* A pass ends on a database error.  Celery runs it again, unless that too is
\* lost.
PassDies(k) ==
    /\ pass[k].step # "idle" /\ Fault
    /\ pass' = [pass EXCEPT ![k] = IdlePass]
    /\ \/ UNCHANGED closeRan
       \/ k = "close" /\ closeRan' = now - 1
    /\ UNCHANGED <<usage, status, period, held, invoicing>>

\* The tenant maps, registers or dismisses the held names of a month.
Resolve(m) ==
    /\ m \in held /\ held' = held \ {m}
    /\ UNCHANGED <<usage, status, period, pass, closeRan, invoicing, left>>

\* resolve_customer_price sets the amount of a committed posting.  No period is
\* told: the passes read it while there is one to come, and a closed month is
\* not revised.
ResolvePrice(p) ==
    /\ price[p] = "unknown" /\ post[p].step \notin {"new", "writing"}
    /\ LET m == post[p].month
           passing == \E k \in Passes : pass[k].step # "idle" /\ pass[k].on = m
       IN  /\ price' = [price EXCEPT ![p] = IF m \in Closed THEN "late" ELSE "known"]
           /\ straddled' = IF m < now /\ m \notin Closed /\ passing
                           THEN straddled \cup {m} ELSE straddled
    /\ UNCHANGED <<now, post, billing, invoicing, left>>

-----------------------------------------------------------------------------
(* The invoice job.                                                         *)

\* A fee of nothing is invoiced by recording it so.
InvoiceNothing(m) ==
    /\ status[m] = "closed" /\ period[m].fee = 0
    /\ status' = [status EXCEPT ![m] = "invoiced"]
    /\ UNCHANGED <<usage, period, held, pass, closeRan, invoicing, left>>

\* Phase 1 of _create_tenant_invoice, of a tenant with a platform customer.  A
\* period that has its row already needs no other.
Claim(w, m) ==
    /\ worker[w].step = "idle" /\ customer
    /\ status[m] = "closed" /\ period[m].fee > 0 /\ invoice[m] = 0
    /\ status' = [status EXCEPT ![m] = "invoicing"]
    /\ worker' = [worker EXCEPT ![w] = [step |-> "create", on |-> m, at |-> 0]]
    /\ UNCHANGED <<usage, period, held, pass, closeRan, invoice, customer, stripe, lost, left>>

\* Mutant: a key for each attempt.
CreateInvoiceAnew(w) ==
    /\ worker[w].step = "create"
    /\ LET m == worker[w].on
       IN  /\ stripe' = [stripe EXCEPT ![m].made = @ + 1, ![m].key = stripe[m].made + 1]
           /\ worker' = [worker EXCEPT ![w].step = "item", ![w].at = stripe[m].made + 1]
    /\ UNCHANGED <<usage, billing, invoice, customer, lost, left>>

\* Phase 2: Invoice.create.  A key that Stripe remembers answers the invoice it
\* made.
CreateInvoice(w) ==
    /\ worker[w].step = "create"
    /\ LET m == worker[w].on
           new == stripe[m].key = 0
           id == IF new THEN stripe[m].made + 1 ELSE stripe[m].key
       IN  /\ stripe' = [stripe EXCEPT ![m].made = IF new THEN id ELSE @, ![m].key = id]
           /\ worker' = [worker EXCEPT ![w].step = "item", ![w].at = id]
    /\ UNCHANGED <<usage, billing, invoice, customer, lost, left>>

\* InvoiceItem.create, once for a key.
CreateItem(w) ==
    /\ worker[w].step = "item"
    /\ stripe' = [stripe EXCEPT ![worker[w].on].items = @ \cup {worker[w].at}]
    /\ worker' = [worker EXCEPT ![w].step = "finalize"]
    /\ UNCHANGED <<usage, billing, invoice, customer, lost, left>>

\* Invoice.finalize_invoice: the tenant is charged.
Finalize(w) ==
    /\ worker[w].step = "finalize"
    /\ stripe' = [stripe EXCEPT ![worker[w].on].final = @ \cup {worker[w].at}]
    /\ worker' = [worker EXCEPT ![w].step = "record"]
    /\ UNCHANGED <<usage, billing, invoice, customer, lost, left>>

\* A run ends: was its invoice final, and no run's record knows it?
EndedUnrecorded(w) ==
    IF worker[w].step = "record" /\ status[worker[w].on] # "invoiced"
    THEN lost \cup {worker[w].on} ELSE lost

\* The period that a run gives up, if it is still being invoiced.
GivenUp(m) ==
    status' = IF status[m] = "invoicing" THEN [status EXCEPT ![m] = "closed"] ELSE status

\* Stripe fails, or its last answer does not arrive: the claim is given back.
StripeFails(w) ==
    /\ worker[w].step # "idle" /\ Fault
    /\ GivenUp(worker[w].on)
    /\ lost' = EndedUnrecorded(w)
    /\ worker' = [worker EXCEPT ![w] = IdleWorker]
    /\ UNCHANGED <<usage, period, held, pass, closeRan, invoice, customer, stripe>>

\* The run dies and leaves its claim.
WorkerDies(w) ==
    /\ worker[w].step # "idle" /\ Fault
    /\ lost' = EndedUnrecorded(w)
    /\ worker' = [worker EXCEPT ![w] = IdleWorker]
    /\ UNCHANGED <<usage, billing, invoice, customer, stripe>>

\* Phase 3: the row and the status, unless the claim is gone.
Record(w) ==
    /\ worker[w].step = "record"
    /\ LET m == worker[w].on
       IN  IF status[m] = "invoicing"
           THEN /\ invoice' = [invoice EXCEPT ![m] = worker[w].at]
                /\ status' = [status EXCEPT ![m] = "invoiced"]
                /\ UNCHANGED lost
           ELSE UNCHANGED <<invoice, status>> /\ lost' = EndedUnrecorded(w)
    /\ worker' = [worker EXCEPT ![w] = IdleWorker]
    /\ UNCHANGED <<usage, period, held, pass, closeRan, customer, stripe, left>>

Working(m) == {w \in Workers : worker[w].step # "idle" /\ worker[w].on = m}

\* Mutant: only claims that have their row.
ReclaimRecorded(m) ==
    /\ status[m] = "invoicing" /\ invoice[m] # 0
    /\ GivenUp(m)
    /\ UNCHANGED <<usage, period, held, pass, closeRan, invoicing, left>>

\* A run takes a claim of half an hour ago back; that its worker still runs is
\* a fault.
Reclaim(m) ==
    /\ status[m] = "invoicing"
    /\ IF Working(m) = {} THEN UNCHANGED left ELSE Fault
    /\ GivenUp(m)
    /\ UNCHANGED <<usage, period, held, pass, closeRan, invoicing>>

\* set_platform_billing_customer.
SetCustomer ==
    /\ ~customer /\ customer' = TRUE
    /\ UNCHANGED <<usage, billing, invoice, worker, stripe, lost, left>>

-----------------------------------------------------------------------------
\* The month turns, and with it a day: Stripe forgets its keys, and the runs of
\* the first have ended.
NextMonth ==
    /\ now < MaxMonth /\ now' = now + 1
    /\ \A w \in Workers : worker[w].step = "idle"
    /\ pass["close"].step = "idle"
    /\ stripe' = [m \in Months |-> [stripe[m] EXCEPT !.key = 0]]
    /\ straddled' =
         IF \/ pass["hourly"].step # "idle"
            \/ \E p \in Postings : post[p].step \in {"writing", "pending", "read"}
         THEN straddled \cup {now, now + 1} ELSE straddled
    /\ UNCHANGED <<post, price, billing, invoice, customer, worker, lost, left>>

OnPosting(p) ==
    \/ Create(p) \/ Commit(p) \/ ReadPeriod(p) \/ CreatePeriod(p)
    \/ NoPeriodYet(p) \/ HandlerFails(p) \/ Accumulate(p)

OnPass(k) == ReadTotals(k) \/ WriteTotals(k) \/ PassDies(k)

OnMonth(m) ==
    StartHourly(m) \/ StartClose(m) \/ Resolve(m) \/ InvoiceNothing(m) \/ Reclaim(m)

Push(w) == CreateInvoice(w) \/ CreateItem(w) \/ Finalize(w) \/ Record(w)

OnWorker(w) ==
    Push(w) \/ StripeFails(w) \/ WorkerDies(w) \/ \E m \in Months : Claim(w, m)

Next ==
    \/ \E p \in Postings : OnPosting(p) \/ ResolvePrice(p)
    \/ \E k \in Passes : OnPass(k)
    \/ \E m \in Months : OnMonth(m)
    \/ \E w \in Workers : OnWorker(w)
    \/ RefuseClose \/ ClosePeriod \/ SetCustomer \/ NextMonth

Spec == Init /\ [][Next]_vars

\* Celery's beat starts the invoice job again and again, and a run that was
\* started goes on.
Fairness ==
    /\ \A w \in Workers : WF_vars(Push(w)) /\ WF_vars(\E m \in Months : Claim(w, m))
    /\ \A m \in Months : WF_vars(InvoiceNothing(m)) /\ WF_vars(Reclaim(m) /\ Working(m) = {})

FairSpec == Spec /\ Fairness

-----------------------------------------------------------------------------
PostType == [step : {"new", "writing", "pending", "read", "done", "dead"},
             month : Months, target : Months]
Statuses == {"none", "open", "closed", "invoicing", "invoiced"}
PeriodType == [total : Nat, count : Nat, exact : Nat, fee : Nat, carried : Nat]
PassType == [step : {"idle", "listed", "write", "lock"}, on : Months,
             total : Nat, count : Nat]
WorkerType == [step : {"idle", "create", "item", "finalize", "record"},
               on : Months, at : Nat]
StripeType == [made : Nat, key : Nat, items : SUBSET Nat, final : SUBSET Nat]

\* Every variable has its type.
TypeOK ==
    /\ now \in Months /\ post \in [Postings -> PostType]
    /\ price \in [Postings -> {"unknown", "known", "late"}]
    /\ status \in [Months -> Statuses] /\ period \in [Months -> PeriodType]
    /\ held \subseteq Months /\ pass \in [Passes -> PassType] /\ closeRan \in 0 .. MaxMonth
    /\ invoice \in [Months -> Nat] /\ customer \in BOOLEAN
    /\ worker \in [Workers -> WorkerType] /\ stripe \in [Months -> StripeType]
    /\ lost \subseteq Months /\ straddled \subseteq 1 .. MaxMonth + 1 /\ left \in 0 .. Faults

\* A closed period's fee is of exactly what arrived in its month and was priced
\* by its close, whatever the accumulator lost or the hourly pass overwrote, and
\* no price that came later.  Excepted is a month where a posting, a handler or
\* the hourly pass was under way at an end, or where a price came while a pass
\* was at the month that was over (the reconcile of close_period runs before
\* its lock).
FeeOfArrivals ==
    \A m \in Closed \ straddled :
        period[m].exact = Fee(SumFunctionOnSet(Cost, {p \in Arrived(m) : price[p] = "known"}))

\* The remainder below a minor unit is carried on once: what the closed
\* periods bill and the last remainder add up to their exact fees
\* (_bank_fee_carry reads its predecessor without a lock on it).
FeesConserved ==
    LET exact == SumFunction([m \in Closed |-> period[m].exact])
        billed == SumFunction([m \in Closed |-> period[m].fee])
    IN  TypeOK /\ \A m \in Closed :
            (\A n \in Closed : n <= m) => exact = billed + period[m].carried

\* A tenant is charged once for a period, and what it is charged is recorded,
\* with dying runs and reclaimed claims; only a run that ended between Stripe's
\* finalize and its record may lead to a second charge, a month later.
ChargedOnce ==
    \A m \in Months :
        /\ m \notin lost => \A i, j \in stripe[m].final : i = j
        /\ stripe[m].final \subseteq stripe[m].items
        /\ invoice[m] # 0 => invoice[m] \in stripe[m].final

\* A closed period of a tenant with a platform customer is invoiced in the
\* end, although a run failed or died with the claim.
FeesInvoiced ==
    \A m \in Months : m \in Closed /\ customer ~> status[m] = "invoiced"
=============================================================================
