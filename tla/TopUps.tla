------------------------------- MODULE TopUps -------------------------------
(***************************************************************************)
(* Top-ups of one wallet: the automatic ones (a charge task after a low    *)
(* balance), the ones a customer pays in a Checkout Session, and the       *)
(* receiver of Stripe's webhooks that both rely on.  An automatic attempt  *)
(* has one PaymentIntent; a Checkout attempt has a session, and a further  *)
(* one when the customer comes back after Stripe forgot the key under      *)
(* which it created the last.  Every payment has one key in the ledger.    *)
(*                                                                         *)
(* Time is abstract: an attempt may be past its limit, a processing row    *)
(* past its thirty minutes and a session past its day at any moment.       *)
(* Whether the balance is below the configured threshold is one Boolean,   *)
(* which usage and credits move.  Amounts are WalletLedger's matter, and   *)
(* so is a claw-back's sum.                                                *)
(***************************************************************************)
EXTENDS Naturals, FiniteSets

CONSTANTS Autos,       \* attempts that a low balance may start
          Checkouts,   \* idempotency keys of top-ups a customer may start
          Sessions,    \* bound: Checkout Sessions that Stripe may create
          For,         \* the Checkout attempt each session would be for
          Workers,     \* Celery workers of the charge task
          NoAttempt, NoPayment,
          MaxAttempts, \* bound: attempts that are ever started
          Faults       \* bound: things that may go wrong

ASSUME TopUpsAssumption ==
    /\ Autos \cap Checkouts = {} /\ NoAttempt \notin Autos \cup Checkouts
    /\ Autos \cap Sessions = {} /\ NoPayment \notin Autos \cup Sessions
    /\ For \in [Sessions -> Checkouts]
    /\ MaxAttempts \in Nat /\ Faults \in Nat

Attempts == Autos \cup Checkouts

\* PaymentIntents of automatic attempts, and Checkout Sessions.
Payments == Autos \cup Sessions

\* The attempt a payment is for (topup_attempt_id, client_reference_id).
Of(p) == IF p \in Sessions THEN For[p] ELSE p

Statuses == {"pending", "succeeded", "failed", "expired", "requires_action", "superseded"}

\* What Stripe answers to a charge, and answers again under the same key.
Answers == {"succeeded", "deferred", "authentication_required", "declined"}

\* What becomes of a payment at Stripe.  "completed" is a session that completed
\* before it was paid, and "delayed" such a session paid since.
PaymentStates == {"none", "open", "unpaid", "paid", "expired", "completed", "delayed"}

\* payment_intent.succeeded and checkout.session.completed are both "completed";
\* a session may complete before it is paid.
Events == ({"completed", "refunded"} \X Payments) \cup ({"declined"} \X Autos)

VARIABLES
    att,      \* status of each attempt, "none" before it exists
    charge,   \* the payment whose charge id the attempt has stored
    credits,  \* ledger rows under each payment's key
    clawed,   \* whether the refund was taken back from the wallet
    low,      \* the balance is below the threshold in force
    prepaid,  \* the tenant's mode has a wallet subject
    queued,   \* attempts whose charge message is not acknowledged
    job,      \* what each worker is at
    pay,      \* Stripe: each PaymentIntent or Checkout Session
    saved,    \* Stripe: the answer stored under the charge's key
    refund,   \* Stripe: the charge was refunded, before or after its id was stored
    aged,     \* Stripe: PaymentIntents created more than four days ago
    emitted,  \* Stripe: events that exist
    acked,    \* Stripe: events answered with a 2xx, not sent again
    row,      \* StripeWebhookEvent.status of each event
    old,      \* the row was last touched more than the time limit ago
    claimed,  \* receivers between their claim and the handler's commit
    done,     \* receivers between the handler's commit and the row's save
    left      \* faults that may still happen

books == <<att, charge, credits, clawed, low>>
tasks == <<queued, job>>
stripe == <<pay, saved, refund, aged>>
receiver == <<acked, row, old, claimed, done>>
vars == <<books, prepaid, tasks, stripe, emitted, receiver, left>>

Idle == [step |-> "idle", on |-> NoAttempt]

Init ==
    /\ att = [a \in Attempts |-> "none"] /\ charge = [a \in Attempts |-> NoPayment]
    /\ credits = [p \in Payments |-> 0] /\ clawed = [a \in Attempts |-> FALSE]
    /\ low = FALSE /\ prepaid = TRUE
    /\ queued = {} /\ job = [w \in Workers |-> Idle]
    /\ pay = [p \in Payments |-> "none"] /\ saved = [a \in Autos |-> "none"]
    /\ refund = [p \in Payments |-> "none"] /\ aged = {}
    /\ emitted = {} /\ acked = {}
    /\ row = [e \in Events |-> "absent"] /\ old = [e \in Events |-> FALSE]
    /\ claimed = [e \in Events |-> 0] /\ done = [e \in Events |-> 0]
    /\ left = Faults

\* One more attempt is within the bound.
MayStart == Cardinality({a \in Attempts : att[a] # "none"}) < MaxAttempts

Fault == left > 0 /\ left' = left - 1

-----------------------------------------------------------------------------
(* The books of an attempt.                                                 *)

Become(a, status) ==
    att' = [att EXCEPT ![a] = status] /\ UNCHANGED <<charge, credits, clawed, low>>

\* The writes that only a pending attempt accepts.
BecomeIfPending(a, status) ==
    IF att[a] = "pending" THEN Become(a, status) ELSE UNCHANGED books

\* A ledger row under the payment's key, and the attempt with it, which stores
\* the charge id when it is known.  A credit need not lift the balance over the
\* threshold.
Post(p, known) ==
    /\ credits' = [credits EXCEPT ![p] = @ + 1]
    /\ att' = [att EXCEPT ![Of(p)] = "succeeded"]
    /\ charge' = [charge EXCEPT ![Of(p)] = IF known THEN p ELSE @]
    /\ low' \in {low, FALSE}
    /\ UNCHANGED clawed

\* apply_topup_credit: whatever the attempt's status, once per key.
apply_topup_credit(a) == IF credits[a] > 0 THEN UNCHANGED books ELSE Post(a, TRUE)

-----------------------------------------------------------------------------
(* Automatic top-ups.                                                       *)

\* handle_balance_low_stripe and create_pending_attempt, under the billing lock:
\* one pending automatic attempt at a time.  The task is sent after the commit,
\* and the sending may fail.
LowBalance(a, sent) ==
    /\ att[a] = "none" /\ low /\ prepaid /\ MayStart
    /\ \A b \in Autos : att[b] # "pending"
    /\ Become(a, "pending")
    /\ IF sent THEN queued' = queued \cup {a} /\ UNCHANGED left
               ELSE Fault /\ UNCHANGED queued
    /\ UNCHANGED <<prepaid, job, stripe, emitted, receiver>>

\* The gate of charge_auto_top_up_task, under the wallet's and the attempt's
\* locks.  A message that is taken twice before its acknowledgement is a fault.
Gate(w, a) ==
    /\ job[w] = Idle /\ a \in queued
    /\ IF \E v \in Workers : job[v].on = a THEN Fault ELSE UNCHANGED left
    /\ \/ /\ att[a] = "pending" /\ prepaid /\ low
          /\ job' = [job EXCEPT ![w] = [step |-> "gated", on |-> a]]
          /\ UNCHANGED <<books, queued>>
       \/ /\ ~(att[a] = "pending" /\ prepaid /\ low)
          /\ BecomeIfPending(a, IF prepaid THEN "superseded" ELSE "failed")
          /\ queued' = queued \ {a} /\ UNCHANGED job
    /\ UNCHANGED <<prepaid, stripe, emitted, receiver>>

\* The payment a charge leaves at Stripe.
Outcome(answer) ==
    CASE answer = "succeeded" -> "paid" [] answer = "deferred" -> "open" [] OTHER -> "unpaid"

\* The events a payment has when it gets there.
Emits(p, payment) ==
    CASE payment \in {"paid", "completed"} -> {<<"completed", p>>}
      [] payment = "unpaid" -> {<<"declined", p>>}
      [] OTHER -> {}

\* charge_saved_payment_method, outside the locks: the first call creates the
\* PaymentIntent, a later one is answered as the first was.
Charge(w) ==
    /\ job[w].step = "gated"
    /\ LET a == job[w].on IN
       \E answer \in IF saved[a] = "none" THEN Answers ELSE {saved[a]} :
         /\ job' = [job EXCEPT ![w].step = answer]
         /\ saved' = [saved EXCEPT ![a] = answer]
         /\ IF saved[a] = "none"
            THEN /\ pay' = [pay EXCEPT ![a] = Outcome(answer)]
                 /\ emitted' = emitted \cup Emits(a, Outcome(answer))
            ELSE UNCHANGED <<pay, emitted>>
    /\ UNCHANGED <<books, prepaid, queued, refund, aged, receiver, left>>

\* No account, no card, or Stripe refuses before there is a PaymentIntent.
ChargeRefused(w) ==
    /\ job[w].step = "gated" /\ saved[job[w].on] = "none"
    /\ job' = [job EXCEPT ![w].step = "declined"]
    /\ UNCHANGED <<books, prepaid, queued, stripe, emitted, receiver, left>>

\* The rest of the task, on the answer.  Without a wallet subject the credit
\* raises, and the message is gone.
Settle(w) ==
    /\ job[w].step \in Answers
    /\ LET a == job[w].on IN
       /\ CASE job[w].step = "succeeded" -> IF prepaid THEN apply_topup_credit(a)
                                                       ELSE UNCHANGED books
            [] job[w].step = "deferred" -> UNCHANGED books
            [] job[w].step = "authentication_required" -> BecomeIfPending(a, "requires_action")
            [] job[w].step = "declined" -> BecomeIfPending(a, "failed")
       /\ queued' = queued \ {a}
    /\ job' = [job EXCEPT ![w] = Idle]
    /\ UNCHANGED <<prepaid, stripe, emitted, receiver, left>>

\* The worker dies, or Stripe does not answer: the message is delivered or
\* retried again, unless the retries are used up.
TaskLost(w, again) ==
    /\ job[w] # Idle /\ Fault
    /\ queued' = IF again THEN queued ELSE queued \ {job[w].on}
    /\ job' = [job EXCEPT ![w] = Idle]
    /\ UNCHANGED <<books, prepaid, stripe, emitted, receiver>>

\* expire_stale_topup_attempts: 30 minutes, or 24 hours for a Checkout.
ExpireStale(a) ==
    /\ att[a] = "pending" /\ Become(a, "expired")
    /\ UNCHANGED <<prepaid, tasks, stripe, emitted, receiver, left>>

\* Mutant: only what is pending is repaired.
ReconcilePending(a) ==
    /\ pay[a] = "paid" /\ a \notin aged /\ credits[a] = 0 /\ prepaid /\ att[a] = "pending"
    /\ apply_topup_credit(a)
    /\ UNCHANGED <<prepaid, tasks, stripe, emitted, receiver, left>>

\* reconcile_topups_with_stripe, one listed PaymentIntent: created in the last
\* four days, paid since, and without its credit.
Reconcile(a) ==
    /\ pay[a] = "paid" /\ a \notin aged /\ credits[a] = 0 /\ prepaid
    /\ apply_topup_credit(a)
    /\ UNCHANGED <<prepaid, tasks, stripe, emitted, receiver, left>>

-----------------------------------------------------------------------------
(* Checkouts.                                                               *)

\* start_top_up refuses before it writes, then finds or creates the attempt of
\* the key; a repeated call goes on with the attempt it finds, in any status.
RequestTopUp(c) ==
    /\ prepaid /\ att[c] = "none" /\ MayStart /\ Become(c, "pending")
    /\ UNCHANGED <<prepaid, tasks, stripe, emitted, receiver, left>>

\* create_checkout_session, under a key of the attempt, which answers with the
\* session it made until Stripe forgets it.  By then, a day later, that session
\* is no longer open, and start_top_up asks nothing of the attempt's status.
\* Which of the sessions still to come this one is makes no difference.
CreateSession(s) ==
    /\ prepaid /\ att[For[s]] # "none"
    /\ pay[s] = "none" /\ s = CHOOSE r \in Sessions : For[r] = For[s] /\ pay[r] = "none"
    /\ \A r \in Sessions : For[r] = For[s] => pay[r] # "open"
    /\ pay' = [pay EXCEPT ![s] = "open"]
    /\ UNCHANGED <<books, prepaid, tasks, saved, refund, aged, emitted, receiver, left>>

\* Stripe refuses the call, the first one or one repeated with other parameters
\* under the same key (IdempotencyError): _mark_failed.
RefuseSession(c) ==
    /\ prepaid /\ att[c] = "pending" /\ Become(c, "failed")
    /\ UNCHANGED <<prepaid, tasks, stripe, emitted, receiver, left>>

-----------------------------------------------------------------------------
(* Stripe and the world.                                                    *)

\* A deferred or declined payment goes through, or a session is paid.
Pay(p) ==
    /\ pay[p] \in {"open", "unpaid"}
    /\ pay' = [pay EXCEPT ![p] = "paid"] /\ emitted' = emitted \cup Emits(p, "paid")
    /\ UNCHANGED <<books, prepaid, tasks, saved, refund, aged, receiver, left>>

\* A session completes with a payment method that takes days.
CompleteUnpaid(s) ==
    /\ pay[s] = "open" /\ pay' = [pay EXCEPT ![s] = "completed"]
    /\ emitted' = emitted \cup Emits(s, "completed")
    /\ UNCHANGED <<books, prepaid, tasks, saved, refund, aged, receiver, left>>

\* The method pays.  The event that says so, async_payment_succeeded, has no
\* handler.
PayDelayed(s) ==
    /\ pay[s] = "completed" /\ pay' = [pay EXCEPT ![s] = "delayed"]
    /\ UNCHANGED <<books, prepaid, tasks, saved, refund, aged, emitted, receiver, left>>

\* A day passes over a session that nobody paid.
SessionExpires(s) ==
    /\ pay[s] = "open" /\ pay' = [pay EXCEPT ![s] = "expired"]
    /\ UNCHANGED <<books, prepaid, tasks, saved, refund, aged, emitted, receiver, left>>

Decline(a) ==
    /\ a \in Autos /\ pay[a] = "open"
    /\ pay' = [pay EXCEPT ![a] = "unpaid"] /\ emitted' = emitted \cup Emits(a, "unpaid")
    /\ UNCHANGED <<books, prepaid, tasks, saved, refund, aged, receiver, left>>

\* Four days pass over a PaymentIntent.  They have ninety-six passes of the hourly
\* reconcile, so they do not pass over one that a pass could credit.
WindowPasses(a) ==
    /\ a \notin aged /\ pay[a] # "none"
    /\ ~(pay[a] = "paid" /\ credits[a] = 0 /\ prepaid)
    /\ aged' = aged \cup {a}
    /\ UNCHANGED <<books, prepaid, tasks, pay, saved, refund, emitted, receiver, left>>

RefundCharge(p) ==
    /\ pay[p] \in {"paid", "delayed"} /\ refund[p] = "none"
    /\ refund' = [refund EXCEPT ![p] = IF charge[Of(p)] = p THEN "late" ELSE "early"]
    /\ emitted' = emitted \cup {<<"refunded", p>>}
    /\ UNCHANGED <<books, prepaid, tasks, pay, saved, aged, receiver, left>>

\* Usage lowers the balance, and a credit from elsewhere lifts it.  Only automatic
\* top-ups read it.
Drift ==
    /\ Autos # {} /\ low' = ~low
    /\ UNCHANGED <<att, charge, credits, clawed, prepaid, tasks, stripe, emitted, receiver, left>>

\* The tenant moves to a mode that has no wallet.
LoseSubject ==
    /\ prepaid /\ Fault /\ prepaid' = FALSE
    /\ UNCHANGED <<books, tasks, stripe, emitted, receiver>>

-----------------------------------------------------------------------------
(* The receiver.                                                            *)

Running(e) == claimed[e] + done[e] > 0

\* Mutant: a failed row is answered as processed.
ClaimableNew(e) == row[e] = "absent" \/ (row[e] = "processing" /\ old[e])

\* A row that a delivery may take: none yet, a retryable failure, or a
\* processing row past its time limit.
Claimable(e) == row[e] \in {"absent", "retryable"} \/ (row[e] = "processing" /\ old[e])

\* The claim of process_stripe_event: get_or_create, or compare-and-set on the
\* row as read.  Otherwise the delivery is answered 200 and the row is touched.
\* A second copy of an event, while it is handled or after its answer, is a
\* fault.
Deliver(e) ==
    /\ e \in emitted
    /\ IF e \in acked \/ Running(e) THEN Fault ELSE UNCHANGED left
    /\ old' = [old EXCEPT ![e] = FALSE]
    /\ IF Claimable(e)
       THEN /\ row' = [row EXCEPT ![e] = "processing"]
            /\ claimed' = [claimed EXCEPT ![e] = @ + 1] /\ UNCHANGED acked
       ELSE acked' = acked \cup {e} /\ UNCHANGED <<row, claimed>>
    /\ UNCHANGED <<books, prepaid, tasks, stripe, emitted, done>>

\* Mutant: an expired session is not recovered.
CreditablePending(c) == att[c] = "pending"

\* The statuses in which a paid session is credited.
Creditable(c) == att[c] \in {"pending", "expired"}

\* handle_checkout_completed.  A session that was not paid when it completed is
\* acknowledged; the rest is under the wallet's and the attempt's locks.  The
\* charge id is missing when its retrieval failed.
handle_checkout_completed(s) ==
    IF pay[s] # "paid" \/ credits[s] > 0 \/ ~Creditable(For[s]) THEN UNCHANGED <<books, left>>
    ELSE \/ Post(s, TRUE) /\ UNCHANGED left
         \/ Post(s, FALSE) /\ Fault

\* Mutant: a late failure overwrites a success.
payment_failed_late(a) ==
    IF att[a] \in {"failed", "superseded"} THEN UNCHANGED books ELSE Become(a, "failed")

handle_payment_intent_payment_failed(a) ==
    IF att[a] \in {"succeeded", "failed", "superseded"} THEN UNCHANGED books
                                                        ELSE Become(a, "failed")

\* handle_charge_refunded: a charge that no attempt holds is acknowledged.
handle_charge_refunded(p) ==
    IF charge[Of(p)] # p THEN UNCHANGED books
    ELSE clawed' = [clawed EXCEPT ![Of(p)] = TRUE] /\ UNCHANGED <<att, charge, credits, low>>

\* Whether the handler needs a wallet subject: it gets past its early returns.
NeedsSubject(e) ==
    CASE e[1] = "completed" -> e[2] \in Sessions => pay[e[2]] = "paid" /\ Creditable(For[e[2]])
      [] e[1] = "refunded" -> charge[Of(e[2])] = e[2]
      [] OTHER -> FALSE

\* The handler's transaction.
Handle(e) ==
    /\ claimed[e] > 0 /\ (NeedsSubject(e) => prepaid)
    /\ claimed' = [claimed EXCEPT ![e] = @ - 1] /\ done' = [done EXCEPT ![e] = @ + 1]
    /\ \/ e[1] = "completed" /\ e[2] \in Autos /\ apply_topup_credit(e[2]) /\ UNCHANGED left
       \/ e[1] = "completed" /\ e[2] \in Sessions /\ handle_checkout_completed(e[2])
       \/ e[1] = "declined" /\ handle_payment_intent_payment_failed(e[2]) /\ UNCHANGED left
       \/ e[1] = "refunded" /\ handle_charge_refunded(e[2]) /\ UNCHANGED left
    /\ UNCHANGED <<prepaid, tasks, stripe, emitted, acked, row, old>>

\* The row's save after the handler, whoever holds the row now.
Save(e) ==
    /\ done[e] > 0 /\ done' = [done EXCEPT ![e] = @ - 1]
    /\ row' = [row EXCEPT ![e] = "succeeded"] /\ old' = [old EXCEPT ![e] = FALSE]
    /\ acked' = acked \cup {e}
    /\ UNCHANGED <<books, prepaid, tasks, stripe, emitted, claimed, left>>

\* NoWalletSubjectError: a failure that is answered 200.
RefuseEvent(e) ==
    /\ claimed[e] > 0 /\ NeedsSubject(e) /\ ~prepaid
    /\ claimed' = [claimed EXCEPT ![e] = @ - 1]
    /\ row' = [row EXCEPT ![e] = "refused"] /\ old' = [old EXCEPT ![e] = FALSE]
    /\ acked' = acked \cup {e}
    /\ UNCHANGED <<books, prepaid, tasks, stripe, emitted, done, left>>

\* Any other exception: rolled back, recorded as retryable, answered 500.
Raise(e) ==
    /\ claimed[e] > 0 /\ Fault
    /\ claimed' = [claimed EXCEPT ![e] = @ - 1]
    /\ row' = [row EXCEPT ![e] = "retryable"] /\ old' = [old EXCEPT ![e] = FALSE]
    /\ UNCHANGED <<books, prepaid, tasks, stripe, emitted, acked, done>>

\* The process dies before, or after, the handler's commit.
ReceiverLost(e) ==
    /\ Fault
    /\ \/ claimed[e] > 0 /\ claimed' = [claimed EXCEPT ![e] = @ - 1] /\ UNCHANGED done
       \/ done[e] > 0 /\ done' = [done EXCEPT ![e] = @ - 1] /\ UNCHANGED claimed
    /\ UNCHANGED <<books, prepaid, tasks, stripe, emitted, acked, row, old>>

\* Half an hour passes without a touch, also under a slow handler (while the
\* second delivery that could tell is still within the bound).
Age(e) ==
    /\ row[e] = "processing" /\ ~old[e] /\ (Running(e) => left > 0)
    /\ old' = [old EXCEPT ![e] = TRUE]
    /\ UNCHANGED <<books, prepaid, tasks, stripe, emitted, acked, row, claimed, done, left>>

\* cleanup_webhook_events, months after the last delivery.
Cleanup(e) ==
    /\ row[e] \in {"succeeded", "retryable", "refused"} /\ e \in acked /\ ~Running(e)
    /\ row' = [row EXCEPT ![e] = "absent"]
    /\ UNCHANGED <<books, prepaid, tasks, stripe, emitted, acked, old, claimed, done, left>>

-----------------------------------------------------------------------------
Next ==
    \/ \E a \in Autos : \/ \E sent \in BOOLEAN : LowBalance(a, sent)
                        \/ \E w \in Workers : Gate(w, a)
                        \/ Reconcile(a) \/ Decline(a) \/ WindowPasses(a)
    \/ \E w \in Workers : \/ Charge(w) \/ ChargeRefused(w) \/ Settle(w)
                          \/ \E again \in BOOLEAN : TaskLost(w, again)
    \/ \E c \in Checkouts : RequestTopUp(c) \/ RefuseSession(c)
    \/ \E s \in Sessions : \/ CreateSession(s) \/ CompleteUnpaid(s)
                           \/ PayDelayed(s) \/ SessionExpires(s)
    \/ \E a \in Attempts : ExpireStale(a)
    \/ \E p \in Payments : Pay(p) \/ RefundCharge(p)
    \/ \E e \in Events : \/ Deliver(e) \/ Handle(e) \/ Save(e) \/ RefuseEvent(e)
                         \/ Raise(e) \/ ReceiverLost(e) \/ Age(e) \/ Cleanup(e)
    \/ Drift \/ LoseSubject

Spec == Init /\ [][Next]_vars

(***************************************************************************)
(* Stripe sends an event until it is answered, a receiver that began ends, *)
(* and the hourly reconcile comes round while the payment is in its window.*)
(* Nothing is owed to the charge task: the message may be lost.            *)
(***************************************************************************)
Fairness ==
    /\ \A e \in Events : /\ WF_vars(Deliver(e) /\ e \notin acked)
                         /\ WF_vars(Handle(e) \/ RefuseEvent(e)) /\ WF_vars(Save(e))
    /\ \A a \in Autos : WF_vars(Reconcile(a))

FairSpec == Spec /\ Fairness

-----------------------------------------------------------------------------
(* Properties.                                                              *)

\* The types of the state; an attempt that does not exist has no payment, and a
\* worker is at an attempt that has its message or had it.
TypeOK ==
    /\ att \in [Attempts -> Statuses \cup {"none"}]
    /\ charge \in [Attempts -> Payments \cup {NoPayment}]
    /\ credits \in [Payments -> Nat] /\ clawed \in [Attempts -> BOOLEAN]
    /\ low \in BOOLEAN /\ prepaid \in BOOLEAN /\ queued \subseteq Autos
    /\ job \in [Workers -> {Idle} \cup [step : {"gated"} \cup Answers, on : Autos]]
    /\ pay \in [Payments -> PaymentStates]
    /\ saved \in [Autos -> Answers \cup {"none"}]
    /\ refund \in [Payments -> {"none", "early", "late"}] /\ aged \subseteq Autos
    /\ emitted \subseteq Events /\ acked \subseteq Events
    /\ row \in [Events -> {"absent", "processing", "succeeded", "retryable", "refused"}]
    /\ old \in [Events -> BOOLEAN]
    /\ claimed \in [Events -> Nat] /\ done \in [Events -> Nat] /\ left \in Nat
    /\ \A p \in Payments : pay[p] # "none" => att[Of(p)] # "none"

\* A top-up is credited once, only for a payment that went through, and exactly
\* when its attempt says succeeded: whichever of the task, the webhook and the
\* reconcile comes first, however often each comes, whatever a late failure, a
\* sweep or a gate writes, and however many sessions of one attempt are paid
\* (apply_topup_credit, handle_checkout_completed).
CreditedOnce ==
    /\ \A p \in Payments : credits[p] > 0 => credits[p] = 1 /\ pay[p] = "paid"
    /\ \A p, q \in Payments : credits[p] > 0 /\ credits[q] > 0 /\ Of(p) = Of(q) => p = q
    /\ \A a \in Attempts : att[a] = "succeeded" <=> \E p \in Payments : Of(p) = a /\ credits[p] > 0

\* Money is taken back only for a refund of a payment that reached the wallet: the
\* charge id by which a refund finds its attempt is stored with the credit.
ClawedOnlyIfCredited ==
    \A a \in Attempts :
        clawed[a] => \E p \in Payments : /\ charge[a] = p /\ Of(p) = a
                                        /\ credits[p] = 1 /\ refund[p] # "none"

\* The receiver answered for good and no process works on the event, but its
\* row was left processing by one that died.
Abandoned(e) == e \in acked /\ row[e] = "processing" /\ ~Running(e)

\* A charged automatic top-up reaches the wallet, whatever became of the task, of
\* the attempt's status and of the webhook (the hourly reconcile), unless it was
\* paid after the reconcile's four days and the receiver died on its event.
AutoPaymentsCredited ==
    \A a \in Autos :
        pay[a] = "paid" ~> \/ credits[a] = 1 \/ ~prepaid
                           \/ a \in aged /\ Abandoned(<<"completed", a>>)

\* A session that is paid when it completes reaches the wallet, late or expired,
\* duplicated or retried, unless its attempt was failed, the receiver died on its
\* event, or another session of the attempt was credited before.
CheckoutsCredited ==
    \A s \in Sessions :
        pay[s] = "paid" ~> \/ credits[s] = 1 \/ ~prepaid \/ att[For[s]] = "failed"
                           \/ Abandoned(<<"completed", s>>)
                           \/ \E r \in Sessions \ {s} : For[r] = For[s] /\ credits[r] = 1

\* A refund of a top-up whose charge id is stored is taken from the wallet.
RefundsClawedBack ==
    \A p \in Payments :
        refund[p] = "late" ~> clawed[Of(p)] \/ ~prepaid \/ Abandoned(<<"refunded", p>>)
=============================================================================
