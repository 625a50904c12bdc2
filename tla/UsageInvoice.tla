---------------------------- MODULE UsageInvoice ----------------------------
(***************************************************************************)
(* The push of a postpaid owner's monthly usage to Stripe: the claim, the  *)
(* calls to Stripe with no transaction held, the record, and the residual  *)
(* below a minor unit that is carried from month to month.  Workers push,  *)
(* die, fail and come back; an hourly pass takes back a claim that is half *)
(* an hour old, whether or not its worker still runs.                      *)
(*                                                                         *)
(* The lines of a month are numbered as in its frozen snapshot.  Stripe's  *)
(* objects are named for what their idempotency key or their metadata      *)
(* fixes: a month has one standalone invoice, one remainder invoice and    *)
(* one renewal of the subscription, and a line is on each at most once.    *)
(* Voided invoices and their rebilling are left out.                       *)
(***************************************************************************)
EXTENDS Integers, Sequences, FiniteSets, Functions

CONSTANTS Months,        \* the months pushed
          Micros,        \* the amounts of each month's lines
          Unit,          \* micros in a minor unit
          Workers,
          None,
          Consolidate,   \* the tenant asked for usage on the renewal
          Renewals,      \* months in which a subscription may renew
          MaxAttempts,   \* UBB_POSTPAID_PUSH_MAX_ATTEMPTS
          Faults         \* bound: things that may go wrong

ASSUME UsageInvoiceAssumption ==
    /\ IsFiniteSet(Months) /\ Micros \in [Months -> Seq(Nat)]
    /\ Unit \in Nat \ {0} /\ Consolidate \in BOOLEAN /\ Renewals \subseteq Months
    /\ MaxAttempts \in Nat \ {0} /\ Faults \in Nat
    /\ None \notin Months \cup Nat \cup {"standalone", "remainder", "renewal"}

Invoices == {"standalone", "remainder", "renewal"}

\* Rows whose money is decided: on Stripe, or carried below a minor unit.
Recorded == {"pushed", "below"}

VARIABLES
    row,      \* CustomerUsageInvoice.status, with the skip reason
    attempts, \* push_attempts
    carry,    \* carry_in_micros, None before it is reserved
    pointer,  \* stripe_invoice_id, and with it the invoice kind
    ledger,   \* PostpaidResidualLedger.balance_micros
    billed,   \* the minor units recorded for each month
    worker,   \* what each worker is at, and whether its claim went to another
    inv,      \* Stripe: status of each invoice
    items,    \* Stripe: the lines on each invoice
    ready,    \* the owner can be charged: customer, account, rail
    asked,    \* months whose row a repush command has read and not saved yet
    surplus,  \* residuals of recorded months that a late save made pending again
    stale,    \* months where a worker without the claim wrote the pointer
    left      \* faults that may still happen

books == <<row, attempts, carry, pointer, ledger, billed>>
stripe == <<inv, items>>
operator == <<asked, surplus>>
vars == <<books, worker, stripe, ready, operator, stale, left>>

Idle == [step |-> "idle", on |-> None, at |-> None, lost |-> FALSE]

Init ==
    /\ row = [m \in Months |-> "none"] /\ attempts = [m \in Months |-> 0]
    /\ carry = [m \in Months |-> None] /\ pointer = [m \in Months |-> None]
    /\ ledger = 0 /\ billed = [m \in Months |-> 0]
    /\ worker = [w \in Workers |-> Idle]
    /\ \E R \in SUBSET Renewals :
         inv = [m \in Months |-> [i \in Invoices |->
                  IF i = "renewal" /\ m \in R THEN "young" ELSE "none"]]
    /\ items = [m \in Months |-> [i \in Invoices |-> {}]]
    /\ ready \in BOOLEAN /\ stale = {} /\ left = Faults
    /\ asked = {} /\ surplus = 0

Fault == left > 0 /\ left' = left - 1

-----------------------------------------------------------------------------
(* Money.                                                                   *)

Lines(m) == DOMAIN Micros[m]

\* What the first i lines of a month come to.
UpTo(m, i) == SumFunctionOnSet(Micros[m], 1..i)

Total(m) == UpTo(m, Len(Micros[m]))

\* The minor units of line i after a carry: each line is floored with the
\* residual of the lines before it (to_minor is divmod).
Cents(m, c, i) == (c + UpTo(m, i)) \div Unit - (c + UpTo(m, i - 1)) \div Unit

\* The lines that reach a minor unit.
CentLines(m) == {i \in Lines(m) : Cents(m, carry[m], i) > 0}

Residual(m) == (carry[m] + Total(m)) % Unit

-----------------------------------------------------------------------------
(* The claim.                                                               *)

\* The statuses a push goes on from; the rest it returns unchanged.
Claimable(m) == row[m] \in {"none", "pending", "failed", "skipped"}

\* The retries are used up (the age limit parks in the same way).
Exhausted(m) == row[m] \in {"pending", "failed"} /\ attempts[m] >= MaxAttempts

\* Mutant: the carry is reserved again on a retry.
ReserveAgain(m) == /\ carry' = [carry EXCEPT ![m] = ledger] /\ ledger' = 0

\* The carry is taken from the residual ledger once per row.
Reserve(m) ==
    IF carry[m] # None THEN UNCHANGED <<carry, ledger>>
    ELSE carry' = [carry EXCEPT ![m] = ledger] /\ ledger' = 0

\* Stage 2 of push_customer_period, under the row's lock.
Claim(w, m) ==
    /\ worker[w] = Idle /\ Claimable(m)
    /\ \/ /\ Exhausted(m) /\ row' = [row EXCEPT ![m] = "failed_permanent"]
          /\ UNCHANGED <<attempts, carry, ledger, worker>>
       \/ /\ ~Exhausted(m) /\ Total(m) = 0 /\ row' = [row EXCEPT ![m] = "empty"]
          /\ UNCHANGED <<attempts, carry, ledger, worker>>
       \/ /\ ~Exhausted(m) /\ Total(m) # 0 /\ ~ready
          /\ row' = [row EXCEPT ![m] = "skipped"]
          /\ UNCHANGED <<attempts, carry, ledger, worker>>
       \/ /\ ~Exhausted(m) /\ Total(m) # 0 /\ ready
          /\ Reserve(m)
          /\ row' = [row EXCEPT ![m] = "pushing"]
          /\ attempts' = [attempts EXCEPT ![m] = @ + 1]
          /\ worker' = [v \in Workers |->
               IF v = w THEN [Idle EXCEPT !.step = "claimed", !.on = m]
               ELSE [worker[v] EXCEPT !.lost = @ \/ worker[v].on = m]]
    /\ UNCHANGED <<pointer, billed, stripe, ready, stale, left, operator>>

\* Stage 2 raises: it rolls back, and one attempt is counted.
ClaimRaises(m) ==
    /\ row[m] \in {"none", "pending", "failed"} /\ ~Exhausted(m) /\ Fault
    /\ row' = [row EXCEPT ![m] = "failed"] /\ attempts' = [attempts EXCEPT ![m] = @ + 1]
    /\ UNCHANGED <<carry, pointer, ledger, billed, worker, stripe, ready, stale, operator>>

-----------------------------------------------------------------------------
(* The calls to Stripe.                                                     *)

Step(w, step) == worker' = [worker EXCEPT ![w].step = step]

\* An invoice of the month that carries the row's metadata.
Found(m) == {i \in {"standalone", "remainder"} : inv[m][i] # "none"}

\* Mutant: a retry resolves afresh.
TargetsFresh(m) ==
    IF Consolidate /\ inv[m]["renewal"] = "young" THEN {"renewal"} ELSE {"standalone"}

\* The invoice to bill on: the pointer, or one of ours that an earlier attempt
\* left, or the renewal while its draft is young, or a standalone one.
Targets(m) ==
    CASE pointer[m] # None -> {pointer[m]}
      [] pointer[m] = None /\ Found(m) # {} -> Found(m)
      [] pointer[m] = None /\ Found(m) = {} /\ Consolidate /\ inv[m]["renewal"] = "young" ->
            {"renewal"}
      [] OTHER -> {"standalone"}

\* Nothing reaches a minor unit: there is no invoice.  Otherwise the target is
\* looked up or created.
Resolve(w) ==
    /\ worker[w].step = "claimed"
    /\ LET m == worker[w].on IN
       IF CentLines(m) = {} THEN Step(w, "pinned") /\ UNCHANGED inv
       ELSE \E t \in Targets(m) :
              /\ worker' = [worker EXCEPT ![w].step = "resolved", ![w].at = t]
              /\ inv' = IF inv[m][t] = "none" THEN [inv EXCEPT ![m][t] = "draft"] ELSE inv
    /\ UNCHANGED <<books, items, ready, stale, left, operator>>

\* Phase 2a: the pointer is written where the row is pushing, whoever made it so.
Persist(w) ==
    /\ worker[w].step = "resolved"
    /\ LET m == worker[w].on IN
       IF row[m] = "pushing"
       THEN /\ pointer' = [pointer EXCEPT ![m] = worker[w].at]
            /\ stale' = IF worker[w].lost THEN stale \cup {m} ELSE stale
            /\ Step(w, "pinning")
       ELSE worker' = [worker EXCEPT ![w] = Idle] /\ UNCHANGED <<pointer, stale>>
    /\ UNCHANGED <<row, attempts, carry, ledger, billed, stripe, ready, left, operator>>

\* The lines the worker wants on its invoice: after a split, what the renewal did
\* not get.
Wanted(w) ==
    LET m == worker[w].on IN
    IF worker[w].step = "splitting" THEN CentLines(m) \ items[m]["renewal"] ELSE CentLines(m)

Missing(w) == Wanted(w) \ items[worker[w].on][worker[w].at]

Draft(m, i) == inv[m][i] \in {"draft", "young", "aging"}

\* One line is pinned to the draft.
Pin(w, i) ==
    /\ worker[w].step \in {"pinning", "splitting"} /\ i \in Missing(w)
    /\ Draft(worker[w].on, worker[w].at)
    /\ items' = [items EXCEPT ![worker[w].on][worker[w].at] = @ \cup {i}]
    /\ UNCHANGED <<books, worker, inv, ready, stale, left, operator>>

\* The renewal was finalized with lines missing: they go on an invoice of ours,
\* found by its metadata or created (_bill_remainder).
Split(w) ==
    /\ worker[w].step = "pinning" /\ worker[w].at = "renewal" /\ Missing(w) # {}
    /\ LET m == worker[w].on IN
       /\ ~Draft(m, "renewal")
       /\ \E r \in IF Found(m) = {} THEN {"remainder"} ELSE Found(m) :
            /\ worker' = [worker EXCEPT ![w].step = "splitting", ![w].at = r]
            /\ inv' = IF inv[m][r] = "none" THEN [inv EXCEPT ![m][r] = "draft"] ELSE inv
    /\ UNCHANGED <<books, items, ready, stale, left, operator>>

\* Mutant: a renewal that is final is taken as it is.
FinalizeBlind(w) ==
    /\ worker[w].step \in {"pinning", "splitting"}
    /\ LET m == worker[w].on
           at == worker[w].at IN
       /\ Missing(w) = {} \/ ~Draft(m, at)
       /\ inv' = IF at = "renewal" THEN inv ELSE [inv EXCEPT ![m][at] = "final"]
    /\ Step(w, "pinned")
    /\ UNCHANGED <<books, items, ready, stale, left, operator>>

\* All lines are there: an invoice of ours is finalized, the renewal finalizes
\* itself.  An invoice of ours that is final is taken as it is.
Finalize(w) ==
    /\ worker[w].step \in {"pinning", "splitting"}
    /\ LET m == worker[w].on
           at == worker[w].at IN
       /\ Missing(w) = {} \/ (at # "renewal" /\ ~Draft(m, at))
       /\ inv' = IF at = "renewal" THEN inv ELSE [inv EXCEPT ![m][at] = "final"]
    /\ Step(w, "pinned")
    /\ UNCHANGED <<books, items, ready, stale, left, operator>>

\* Phase 3, under the row's lock, and only for a row that is still pushing.
Record(w) ==
    /\ worker[w].step = "pinned"
    /\ LET m == worker[w].on IN
       IF row[m] = "pushing"
       THEN /\ row' = [row EXCEPT ![m] = IF worker[w].at = None THEN "below" ELSE "pushed"]
            /\ pointer' = [pointer EXCEPT ![m] = IF worker[w].at = None THEN @
                                                                        ELSE worker[w].at]
            /\ billed' = [billed EXCEPT ![m] = (carry[m] + Total(m)) \div Unit]
            /\ ledger' = ledger + Residual(m)
       ELSE UNCHANGED <<row, pointer, billed, ledger>>
    /\ worker' = [worker EXCEPT ![w] = Idle]
    /\ UNCHANGED <<attempts, carry, stripe, ready, stale, left, operator>>

\* A failure is written only on a row that is still pushing.
Mark(m, status) == row' = IF row[m] = "pushing" THEN [row EXCEPT ![m] = status] ELSE row

\* A call raises: for good (StripeFatalError), or to be tried again.
PushFails(w, fatal) ==
    /\ worker[w] # Idle /\ Fault
    /\ Mark(worker[w].on, IF fatal THEN "failed_permanent" ELSE "failed")
    /\ worker' = [worker EXCEPT ![w] = Idle]
    /\ UNCHANGED <<attempts, carry, pointer, ledger, billed, stripe, ready, stale, operator>>

WorkerDies(w) ==
    /\ worker[w] # Idle /\ Fault /\ worker' = [worker EXCEPT ![w] = Idle]
    /\ UNCHANGED <<books, stripe, ready, stale, operator>>

-----------------------------------------------------------------------------
(* The hourly pass, the operator and the world.                             *)

Working(m) == \E w \in Workers : worker[w].on = m

\* Mutant: a claim that reached Stripe is not taken back.
ReclaimUnstarted(m) ==
    /\ row[m] = "pushing" /\ pointer[m] = None /\ row' = [row EXCEPT ![m] = "pending"]
    /\ IF Working(m) THEN Fault ELSE UNCHANGED left
    /\ UNCHANGED <<attempts, carry, pointer, ledger, billed, worker, stripe, ready, stale, operator>>

\* reconcile_postpaid_usage takes back a claim of half an hour ago.  While its
\* worker still runs, that is a fault.
Reclaim(m) ==
    /\ row[m] = "pushing" /\ row' = [row EXCEPT ![m] = "pending"]
    /\ IF Working(m) THEN Fault ELSE UNCHANGED left
    /\ UNCHANGED <<attempts, carry, pointer, ledger, billed, worker, stripe, ready, stale, operator>>

\* _recover_skipped_usage_invoices.
Recover(m) ==
    /\ row[m] = "skipped" /\ ready /\ row' = [row EXCEPT ![m] = "pending"]
    /\ UNCHANGED <<attempts, carry, pointer, ledger, billed, worker, stripe, ready, stale, left, operator>>

\* repush_usage_invoice, an operator's move: the command reads the row with no
\* lock and refuses what is not for it, a month below a minor unit among it.
RepushRead(m) ==
    /\ row[m] \in {"failed", "failed_permanent", "skipped", "empty"} /\ m \notin asked /\ Fault
    /\ asked' = asked \cup {m}
    /\ UNCHANGED <<books, worker, stripe, ready, surplus, stale>>

\* The command saves what it decided, whatever the row has become.
RepushSave(m) ==
    /\ m \in asked /\ asked' = asked \ {m}
    /\ row' = [row EXCEPT ![m] = "pending"] /\ attempts' = [attempts EXCEPT ![m] = 0]
    /\ surplus' = IF row[m] \in Recorded THEN surplus + Residual(m) ELSE surplus
    /\ UNCHANGED <<carry, pointer, ledger, billed, worker, stripe, ready, stale, left>>

BecomeReady ==
    /\ ~ready /\ ready' = TRUE
    /\ UNCHANGED <<books, worker, stripe, stale, left, operator>>

\* The renewal's draft ages past the safe window, and Stripe finalizes it.
RenewalMoves(m) ==
    /\ \/ inv[m]["renewal"] = "young" /\ inv' = [inv EXCEPT ![m]["renewal"] = "aging"]
       \/ inv[m]["renewal"] = "aging" /\ inv' = [inv EXCEPT ![m]["renewal"] = "final"]
    /\ UNCHANGED <<books, worker, items, ready, stale, left, operator>>

-----------------------------------------------------------------------------
Push(w) == \/ Resolve(w) \/ Persist(w) \/ Split(w) \/ Finalize(w) \/ Record(w)
           \/ \E m \in Months : \E i \in Lines(m) : Pin(w, i)

Next ==
    \/ \E w \in Workers : \/ Resolve(w) \/ Persist(w) \/ Split(w) \/ Finalize(w) \/ Record(w)
                          \/ \E fatal \in BOOLEAN : PushFails(w, fatal)
                          \/ WorkerDies(w)
    \/ \E m \in Months :
         \/ \E w \in Workers : Claim(w, m) \/ (\E i \in Lines(m) : worker[w].on = m /\ Pin(w, i))
         \/ ClaimRaises(m) \/ Reclaim(m) \/ Recover(m) \/ RenewalMoves(m)
         \/ RepushRead(m) \/ RepushSave(m)
    \/ BecomeReady

Spec == Init /\ [][Next]_vars

(***************************************************************************)
(* The hourly pass comes round: it takes back claims nobody works on,      *)
(* recovers what was skipped and claims what waits.  A worker that pushes  *)
(* goes on.  Nothing is owed to the operator, and the owner need never     *)
(* become ready.                                                           *)
(***************************************************************************)
Fairness ==
    /\ \A w \in Workers : WF_vars(Push(w))
    /\ \A m \in Months : /\ SF_vars(\E w \in Workers : Claim(w, m) /\ row[m] # "skipped")
                         /\ WF_vars(Reclaim(m) /\ ~Working(m)) /\ WF_vars(Recover(m))

FairSpec == Spec /\ Fairness

-----------------------------------------------------------------------------
(* Properties.                                                              *)

Statuses == {"none", "pending", "pushing", "failed", "failed_permanent", "skipped", "empty"}
                \cup Recorded

\* The types of the state; a row that is or was pushing has its carry, and a
\* worker that pushes has one too.
TypeOK ==
    /\ row \in [Months -> Statuses] /\ attempts \in [Months -> Nat]
    /\ carry \in [Months -> Nat \cup {None}] /\ pointer \in [Months -> Invoices \cup {None}]
    /\ ledger \in Nat /\ billed \in [Months -> Nat]
    /\ worker \in [Workers -> {Idle} \cup [step : {"claimed", "resolved", "pinning", "splitting",
                                                   "pinned"},
                                           on : Months, at : Invoices \cup {None}, lost : BOOLEAN]]
    /\ inv \in [Months -> [Invoices -> {"none", "draft", "young", "aging", "final"}]]
    /\ items \in [Months -> [Invoices -> SUBSET Nat]]
    /\ ready \in BOOLEAN /\ stale \subseteq Months /\ left \in Nat
    /\ asked \subseteq Months /\ surplus \in Nat
    /\ \A m \in Months : row[m] \in {"pushing"} \cup Recorded => carry[m] # None
    /\ \A w \in Workers : worker[w] # Idle => carry[worker[w].on] # None

\* The month's lines that are billed, on one invoice or on several.
OnInvoices(m, i) == {k \in Invoices : i \in items[m][k]}
BilledTwice(m) == \E i \in Lines(m), j, k \in Invoices : j # k /\ {j, k} \subseteq OnInvoices(m, i)

\* No line is billed twice, whichever attempts resume one another and whenever
\* Stripe finalizes the renewal, as long as no worker that lost its claim wrote
\* the pointer (Phase 2a).
BilledOnce == \A m \in Months : BilledTwice(m) => m \in stale

\* A row says pushed only when every line that reaches a minor unit is on an
\* invoice that is final, or on the renewal, which finalizes itself.
PushedIsBilled ==
    \A m \in Months : row[m] = "pushed" =>
        \A i \in CentLines(m) : \E k \in OnInvoices(m, i) :
            k = "renewal" \/ inv[m][k] = "final"

\* Not a micro is lost or billed twice over the months: what the recorded months
\* came to is what was billed, what the ledger holds and what rows in flight
\* have reserved (take-and-zero at the claim, deposit at the record).  The one
\* excess is the residual of a recorded month that a repush made pending again.
ResidualConserved ==
    LET done == {m \in Months : row[m] \in Recorded}
        held == {m \in Months \ done : carry[m] # None} IN
    SumFunctionOnSet([m \in Months |-> Total(m)], done) + surplus
        = Unit * SumFunctionOnSet(billed, done) + ledger + SumFunctionOnSet(carry, held)

\* A month that is recorded stays so, with what was billed for it: no late worker
\* and no pass takes it back, only a repush that read its row before it was.
RecordedIsFinal ==
    [][ \A m \in Months : row[m] \in Recorded =>
          billed'[m] = billed[m] /\ (row'[m] = row[m] \/ m \in asked \ asked') ]_vars

\* Every month that was begun ends: recorded, empty, or parked for an operator;
\* a month waits as skipped only while the owner cannot be charged.
MonthsSettle ==
    \A m \in Months : row[m] # "none" ~> \/ row[m] \in Recorded \cup {"empty", "failed_permanent"}
                                         \/ row[m] = "skipped" /\ ~ready

\* The comment at Phase 2a: "double-billing is impossible".
DoubleBillingImpossible == \A m \in Months : ~BilledTwice(m)
=============================================================================
