---------------------------- MODULE TopUpsProofs ----------------------------
(***************************************************************************)
(* For any number of attempts, sessions, workers, deliveries and faults: a *)
(* top-up is credited once and only for money that was paid, and money is  *)
(* taken back only from a top-up that was credited.                        *)
(*                                                                         *)
(* CreditedOnce is not inductive: that a credit has a payment behind it    *)
(* rests on what the task and the receiver were told before (Told), and    *)
(* a claw-back on the charge id being stored with the credit (Stored).     *)
(***************************************************************************)
EXTENDS TopUps, TLAPS

\* The charge id is written with the credit.
Stored ==
    \A a \in Attempts :
        charge[a] # NoPayment => Of(charge[a]) = a /\ credits[charge[a]] = 1

\* What the task and the receiver act on is what happened at Stripe, and every
\* message is about an attempt that exists.
Told ==
    /\ \A a \in Autos : /\ saved[a] = "none" => pay[a] = "none"
                        /\ saved[a] = "succeeded" => pay[a] = "paid"
    /\ \A w \in Workers : /\ job[w].step = "succeeded" => pay[job[w].on] = "paid"
                          /\ job[w] # Idle => att[job[w].on] # "none"
    /\ \A a \in queued : att[a] # "none"
    /\ \A a \in Autos : <<"completed", a>> \in emitted => pay[a] = "paid"
    /\ \A p \in Payments : <<"refunded", p>> \in emitted => refund[p] # "none"
    /\ \A e \in Events : claimed[e] > 0 => e \in emitted

IInv == TypeOK /\ CreditedOnce /\ ClawedOnlyIfCredited /\ Stored /\ Told

\* The books of the attempts, which few steps move.
Books ==
    /\ att \in [Attempts -> Statuses \cup {"none"}]
    /\ charge \in [Attempts -> Payments \cup {NoPayment}]
    /\ credits \in [Payments -> Nat] /\ clawed \in [Attempts -> BOOLEAN] /\ low \in BOOLEAN
    /\ CreditedOnce /\ ClawedOnlyIfCredited /\ Stored

\* No attempt that exists ceases to.
Lasting == \A a \in Attempts : att[a] # "none" => att'[a] # "none"

\* Every payment is for an attempt, and an automatic one's is its own.
LEMMA OfIsAttempt ==
    /\ \A p \in Payments : Of(p) \in Attempts
    /\ \A a \in Autos : Of(a) = a /\ a \in Payments /\ a \in Attempts
    /\ \A p \in Payments, a \in Autos : Of(p) = a => p = a
    /\ \A s \in Sessions : s \in Payments /\ s \notin Autos /\ Of(s) = For[s] /\ For[s] \in Attempts
  BY TopUpsAssumption DEF Payments, Attempts, Of

\* Steps that leave the books alone, whatever Stripe adds to its own.
LEMMA BooksAlone ==
    ASSUME IInv, UNCHANGED books,
           \A p \in Payments : /\ pay[p] = "paid" => pay'[p] = "paid"
                               /\ refund[p] # "none" => refund'[p] # "none"
    PROVE  Books' /\ Lasting
  BY DEF books, IInv, TypeOK, Books, Lasting, CreditedOnce, ClawedOnlyIfCredited, Stored

\* A credit of a paid payment whose attempt has none keeps the books (credit_top_up).
LEMMA PostKeeps ==
    ASSUME IInv, NEW p \in Payments, NEW known \in BOOLEAN, Post(p, known),
           pay[p] = "paid", att[Of(p)] # "succeeded", UNCHANGED <<pay, refund>>
    PROVE  Books' /\ Lasting
  <1> DEFINE a == Of(p)
  <1>0. a \in Attempts
    BY OfIsAttempt
  <1>1. \A q \in Payments : Of(q) = a => credits[q] = 0
    BY <1>0 DEF IInv, TypeOK, CreditedOnce
  <1>2. /\ att' = [att EXCEPT ![a] = "succeeded"] /\ clawed' = clawed
        /\ charge' = [charge EXCEPT ![a] = IF known THEN p ELSE charge[a]]
    BY <1>0 DEF IInv, TypeOK, Post
  <1>3. credits' = [credits EXCEPT ![p] = 1]
    <2>1. credits[p] = 0 /\ credits' = [credits EXCEPT ![p] = credits[p] + 1]
      BY <1>1 DEF IInv, TypeOK, Post
    <2> QED BY <2>1
  <1>4. charge[a] = NoPayment
    <2>1. charge[a] \in Payments \cup {NoPayment}
      BY <1>0 DEF IInv, TypeOK
    <2> QED BY <1>0, <1>1, <2>1 DEF IInv, Stored
  <1>5. /\ att' \in [Attempts -> Statuses \cup {"none"}] /\ credits' \in [Payments -> Nat]
        /\ charge' \in [Attempts -> Payments \cup {NoPayment}] /\ clawed' \in [Attempts -> BOOLEAN]
    BY <1>2, <1>3, <1>4 DEF IInv, TypeOK, Statuses
  <1>6. low' \in BOOLEAN
    BY DEF IInv, TypeOK, Post
  <1> HIDE DEF a
  <1>7. CreditedOnce'
    <2>1. \A q \in Payments : credits'[q] > 0 => credits'[q] = 1 /\ pay'[q] = "paid"
      BY <1>3 DEF IInv, TypeOK, CreditedOnce
    <2>2. ASSUME NEW q \in Payments, NEW r \in Payments, credits'[q] > 0, credits'[r] > 0, Of(q) = Of(r)
          PROVE  q = r
      <3>1. q # p => credits[q] > 0 /\ Of(q) # a
        BY <1>1, <1>3, <2>2 DEF IInv, TypeOK
      <3>2. r # p => credits[r] > 0 /\ Of(r) # a
        BY <1>1, <1>3, <2>2 DEF IInv, TypeOK
      <3> QED BY <2>2, <3>1, <3>2 DEF IInv, CreditedOnce, a
    <2>3. ASSUME NEW b \in Attempts
          PROVE  att'[b] = "succeeded" <=> \E q \in Payments : Of(q) = b /\ credits'[q] > 0
      <3>1. CASE b = a
        BY <1>0, <1>2, <1>3, <3>1 DEF IInv, TypeOK, a
      <3>2. CASE b # a
        <4>1. att'[b] = att[b]
          BY <1>2, <3>2 DEF IInv, TypeOK
        <4>2. \A q \in Payments : Of(q) = b => credits'[q] = credits[q]
          BY <1>3, <3>2 DEF IInv, TypeOK, a
        <4> QED BY <4>1, <4>2 DEF IInv, CreditedOnce
      <3> QED BY <3>1, <3>2
    <2> QED BY <2>1, <2>2, <2>3 DEF CreditedOnce
  <1>8. Stored'
    <2> SUFFICES ASSUME NEW b \in Attempts, charge'[b] # NoPayment
                 PROVE  Of(charge'[b]) = b /\ credits'[charge'[b]] = 1
      BY DEF Stored
    <2>1. CASE b = a
      BY <1>0, <1>2, <1>3, <1>4, <2>1 DEF IInv, TypeOK, a
    <2>2. CASE b # a
      <3>1. charge'[b] = charge[b] /\ charge[b] \in Payments
        BY <1>2, <2>2 DEF IInv, TypeOK
      <3>2. Of(charge[b]) = b /\ credits[charge[b]] = 1
        BY <3>1 DEF IInv, Stored
      <3>3. charge[b] # p
        BY <2>2, <3>2 DEF a
      <3> QED BY <1>3, <3>1, <3>2, <3>3 DEF IInv, TypeOK
    <2> QED BY <2>1, <2>2
  <1>9. ClawedOnlyIfCredited'
    <2> SUFFICES ASSUME NEW b \in Attempts, clawed'[b]
                 PROVE  \E q \in Payments : /\ charge'[b] = q /\ Of(q) = b
                                            /\ credits'[q] = 1 /\ refund'[q] # "none"
      BY DEF ClawedOnlyIfCredited
    <2>1. PICK q \in Payments : charge[b] = q /\ Of(q) = b /\ credits[q] = 1 /\ refund[q] # "none"
      BY <1>2 DEF IInv, ClawedOnlyIfCredited
    <2>2. b # a
      BY <1>1, <2>1
    <2>3. charge'[b] = q
      BY <1>2, <2>1, <2>2 DEF IInv, TypeOK
    <2>4. credits'[q] = 1
      BY <1>3, <2>1 DEF IInv, TypeOK
    <2> QED BY <2>1, <2>3, <2>4
  <1>10. Lasting
    BY <1>0, <1>2 DEF Lasting, IInv, TypeOK
  <1> QED BY <1>5, <1>6, <1>7, <1>8, <1>9, <1>10 DEF Books

\* apply_topup_credit keeps the books once the attempt is paid.
LEMMA ApplyKeeps ==
    ASSUME IInv, NEW a \in Autos, apply_topup_credit(a), pay[a] = "paid",
           UNCHANGED <<pay, refund>>
    PROVE  Books' /\ Lasting
  <1>1. CASE credits[a] > 0
    BY <1>1, BooksAlone DEF apply_topup_credit
  <1>2. CASE ~(credits[a] > 0)
    <2>1. Post(a, TRUE)
      BY <1>2 DEF apply_topup_credit
    <2>2. att[Of(a)] # "succeeded"
      BY <1>2, OfIsAttempt DEF IInv, CreditedOnce
    <2> QED BY <2>1, <2>2, PostKeeps, OfIsAttempt
  <1> QED BY <1>1, <1>2

\* A status that is not succeeded is written on an attempt that is not.
LEMMA BecomeKeeps ==
    ASSUME IInv, NEW a \in Attempts, NEW s \in Statuses \ {"succeeded"}, Become(a, s),
           att[a] # "succeeded", UNCHANGED <<pay, refund>>
    PROVE  Books' /\ Lasting
  BY DEF Become, IInv, TypeOK, Books, Lasting, CreditedOnce, ClawedOnlyIfCredited, Stored, Statuses

-----------------------------------------------------------------------------
(* The rest of the state: the tasks, Stripe, and the receiver.              *)

Jobs == {Idle} \cup [step : {"gated"} \cup Answers, on : Autos]

TasksFit ==
    /\ queued \subseteq Autos /\ job \in [Workers -> Jobs]
    /\ \A w \in Workers : /\ job[w].step = "succeeded" => pay[job[w].on] = "paid"
                          /\ job[w] # Idle => att[job[w].on] # "none"
    /\ \A a \in queued : att[a] # "none"

StripeFits ==
    /\ pay \in [Payments -> PaymentStates]
    /\ saved \in [Autos -> Answers \cup {"none"}]
    /\ refund \in [Payments -> {"none", "early", "late"}] /\ emitted \subseteq Events
    /\ aged \subseteq Autos
    /\ \A b \in Payments : pay[b] # "none" => att[Of(b)] # "none"
    /\ \A b \in Autos : /\ saved[b] = "none" => pay[b] = "none"
                        /\ saved[b] = "succeeded" => pay[b] = "paid"
    /\ \A b \in Autos : <<"completed", b>> \in emitted => pay[b] = "paid"
    /\ \A b \in Payments : <<"refunded", b>> \in emitted => refund[b] # "none"

ReceiverFits ==
    /\ acked \subseteq Events
    /\ row \in [Events -> {"absent", "processing", "succeeded", "retryable", "refused"}]
    /\ old \in [Events -> BOOLEAN]
    /\ claimed \in [Events -> Nat] /\ done \in [Events -> Nat]
    /\ \A e \in Events : claimed[e] > 0 => e \in emitted

LEMMA Parts ==
    IInv <=> /\ Books /\ TasksFit /\ StripeFits /\ ReceiverFits
             /\ prepaid \in BOOLEAN /\ left \in Nat
  BY DEF IInv, TypeOK, Told, Books, TasksFit, StripeFits, ReceiverFits, Jobs

LEMMA PartsNext ==
    ASSUME Books', TasksFit', StripeFits', ReceiverFits', prepaid' \in BOOLEAN, left' \in Nat
    PROVE  IInv'
  BY DEF IInv, TypeOK, Told, Books, TasksFit, StripeFits, ReceiverFits, Jobs

LEMMA StripeNext ==
    ASSUME pay' \in [Payments -> PaymentStates],
           saved' \in [Autos -> Answers \cup {"none"}],
           refund' \in [Payments -> {"none", "early", "late"}], emitted' \subseteq Events,
           aged' \subseteq Autos,
           \A b \in Payments : pay'[b] # "none" => att'[Of(b)] # "none",
           \A b \in Autos : /\ saved'[b] = "none" => pay'[b] = "none"
                            /\ saved'[b] = "succeeded" => pay'[b] = "paid",
           \A b \in Autos : <<"completed", b>> \in emitted' => pay'[b] = "paid",
           \A b \in Payments : <<"refunded", b>> \in emitted' => refund'[b] # "none"
    PROVE  StripeFits'
  BY DEF StripeFits

LEMMA TasksAlone ==
    ASSUME IInv, Lasting, UNCHANGED <<queued, job>>,
           \A p \in Payments : pay[p] = "paid" => pay'[p] = "paid"
    PROVE  TasksFit'
  <1>1. TasksFit
    BY Parts
  <1>2. \A w \in Workers : job[w] # Idle => job[w].on \in Autos
    BY <1>1 DEF TasksFit, Jobs
  <1>3. \A w \in Workers : job[w].step = "succeeded" => job[w] # Idle
    BY DEF Idle
  <1> QED BY <1>1, <1>2, <1>3 DEF TasksFit, Lasting, Attempts, Payments

LEMMA StripeAlone ==
    ASSUME IInv, Lasting, UNCHANGED <<pay, saved, refund, aged, emitted>>
    PROVE  StripeFits'
  BY Parts, OfIsAttempt DEF StripeFits, Lasting

LEMMA ReceiverAlone ==
    ASSUME IInv, UNCHANGED <<acked, row, old, claimed, done>>, emitted \subseteq emitted'
    PROVE  ReceiverFits'
  BY Parts DEF ReceiverFits

\* Fault lowers a bound that is a number.
LEMMA FaultIsNat ==
    ASSUME left \in Nat, Fault \/ UNCHANGED left PROVE left' \in Nat
  BY DEF Fault

-----------------------------------------------------------------------------
LEMMA InitInv == Init => IInv
  <1> SUFFICES ASSUME Init PROVE IInv
    OBVIOUS
  <1>1. Books
    <2>1. /\ att \in [Attempts -> Statuses \cup {"none"}] /\ credits \in [Payments -> Nat]
          /\ charge \in [Attempts -> Payments \cup {NoPayment}]
          /\ clawed \in [Attempts -> BOOLEAN] /\ low \in BOOLEAN
      BY DEF Init
    <2>2. \A a \in Attempts : att[a] = "none" /\ charge[a] = NoPayment /\ ~clawed[a]
      BY DEF Init
    <2>3. \A p \in Payments : credits[p] = 0
      BY DEF Init
    <2> QED BY <2>1, <2>2, <2>3 DEF Books, CreditedOnce, ClawedOnlyIfCredited, Stored
  <1>2. TasksFit
    BY DEF Init, TasksFit, Jobs, Idle
  <1>3. StripeFits
    BY DEF Init, StripeFits, Payments, PaymentStates
  <1>4. ReceiverFits
    BY DEF Init, ReceiverFits
  <1> QED BY <1>1, <1>2, <1>3, <1>4, Parts, TopUpsAssumption DEF Init

\* The charge task and its sweeps.
LEMMA TaskSteps ==
    ASSUME IInv,
           \/ \E a \in Autos : \/ \E sent \in BOOLEAN : LowBalance(a, sent)
                               \/ \E w \in Workers : Gate(w, a)
                               \/ Reconcile(a)
           \/ \E w \in Workers : ChargeRefused(w) \/ Settle(w) \/ \E again \in BOOLEAN : TaskLost(w, again)
    PROVE  IInv'
<1>0. /\ Books /\ TasksFit /\ StripeFits /\ ReceiverFits /\ left \in Nat /\ prepaid \in BOOLEAN
  BY Parts
<1>1. ASSUME NEW a \in Autos, NEW sent \in BOOLEAN, LowBalance(a, sent) PROVE IInv'
  <2>1. Books' /\ Lasting
    BY <1>1, BecomeKeeps DEF LowBalance, stripe, Statuses, Attempts
  <2>2. TasksFit'
    <3>1. att'[a] # "none"
      BY <1>0, <1>1 DEF LowBalance, Become, Books, Attempts
    <3> QED BY <1>0, <1>1, <2>1, <3>1 DEF LowBalance, TasksFit, Lasting, Jobs, Idle, Attempts, stripe
  <2>3. StripeFits' /\ ReceiverFits'
    BY <1>1, <2>1, StripeAlone, ReceiverAlone DEF LowBalance, stripe, receiver
  <2>4. left' \in Nat /\ prepaid' \in BOOLEAN
    BY <1>0, <1>1, FaultIsNat DEF LowBalance
  <2> QED BY <2>1, <2>2, <2>3, <2>4, PartsNext
<1>2. ASSUME NEW a \in Autos, NEW w \in Workers, Gate(w, a) PROVE IInv'
  <2>1. Books' /\ Lasting
    <3>1. CASE UNCHANGED books
      BY <1>2, <3>1, BooksAlone DEF Gate, stripe
    <3>2. CASE ~UNCHANGED books
      <4>1. PICK s \in {"superseded", "failed"} : att[a] = "pending" /\ Become(a, s)
        BY <1>2, <3>2 DEF Gate, BecomeIfPending
      <4> QED BY <1>2, <4>1, BecomeKeeps DEF Gate, stripe, Statuses, Attempts
    <3> QED BY <3>1, <3>2
  <2>2. TasksFit'
    <3>1. CASE job' = [job EXCEPT ![w] = [step |-> "gated", on |-> a]] /\ UNCHANGED queued
      BY <1>0, <1>2, <2>1, <3>1 DEF Gate, TasksFit, Lasting, Jobs, Idle, Attempts, stripe
    <3>2. CASE queued' = queued \ {a} /\ UNCHANGED job
      BY <1>0, <1>2, <2>1, <3>2 DEF Gate, TasksFit, Lasting, Jobs, Idle, Attempts, stripe
    <3> QED BY <1>2, <3>1, <3>2 DEF Gate
  <2>3. StripeFits' /\ ReceiverFits'
    BY <1>2, <2>1, StripeAlone, ReceiverAlone DEF Gate, stripe, receiver
  <2>4. left' \in Nat /\ prepaid' \in BOOLEAN
    BY <1>0, <1>2, FaultIsNat DEF Gate
  <2> QED BY <2>1, <2>2, <2>3, <2>4, PartsNext
<1>3. ASSUME NEW a \in Autos, Reconcile(a) PROVE IInv'
  <2>1. Books' /\ Lasting
    BY <1>3, ApplyKeeps DEF Reconcile, stripe, Attempts
  <2> QED BY <1>0, <1>3, <2>1, TasksAlone, StripeAlone, ReceiverAlone, PartsNext
             DEF Reconcile, tasks, stripe, receiver
<1>4. ASSUME NEW w \in Workers, ChargeRefused(w) PROVE IInv'
  <2>1. Books' /\ Lasting
    BY <1>4, BooksAlone DEF ChargeRefused, stripe
  <2>2. TasksFit'
    BY <1>0, <1>4, <2>1 DEF ChargeRefused, TasksFit, Lasting, Jobs, Idle, Attempts, stripe, Answers, books
  <2> QED BY <1>0, <1>4, <2>1, <2>2, StripeAlone, ReceiverAlone, PartsNext DEF ChargeRefused, stripe, receiver
<1>5. ASSUME NEW w \in Workers, Settle(w) PROVE IInv'
  <2>0. job[w].on \in Autos
    BY <1>0, <1>5 DEF Settle, TasksFit, Jobs, Idle, Answers
  <2>1. Books' /\ Lasting
    <3>1. CASE UNCHANGED books
      BY <1>5, <3>1, BooksAlone DEF Settle, stripe
    <3>2. CASE job[w].step = "succeeded" /\ apply_topup_credit(job[w].on)
      BY <1>0, <1>5, <2>0, <3>2, ApplyKeeps DEF Settle, TasksFit, stripe, Attempts
    <3>3. ASSUME NEW s \in {"requires_action", "failed"}, att[job[w].on] = "pending", Become(job[w].on, s)
          PROVE  Books' /\ Lasting
      BY <1>5, <2>0, <3>3, BecomeKeeps DEF Settle, stripe, Statuses, Attempts
    <3> QED BY <1>5, <3>1, <3>2, <3>3 DEF Settle, BecomeIfPending, Answers
  <2>2. TasksFit'
    BY <1>0, <1>5, <2>1 DEF Settle, TasksFit, Lasting, Jobs, Idle, Attempts, stripe
  <2> QED BY <1>0, <1>5, <2>1, <2>2, StripeAlone, ReceiverAlone, PartsNext DEF Settle, stripe, receiver
<1>6. ASSUME NEW w \in Workers, NEW again \in BOOLEAN, TaskLost(w, again) PROVE IInv'
  <2>1. Books' /\ Lasting
    BY <1>6, BooksAlone DEF TaskLost, stripe
  <2>2. TasksFit'
    BY <1>0, <1>6, <2>1 DEF TaskLost, TasksFit, Lasting, Jobs, Idle, Attempts, stripe
  <2>3. left' \in Nat
    BY <1>0, <1>6, FaultIsNat DEF TaskLost
  <2> QED BY <1>0, <1>6, <2>1, <2>2, <2>3, StripeAlone, ReceiverAlone, PartsNext DEF TaskLost, stripe, receiver
<1> QED BY <1>1, <1>2, <1>3, <1>4, <1>5, <1>6

\* The Checkout routes, the expiry and what happens in the world.
LEMMA WorldSteps ==
    ASSUME IInv,
           \/ \E a \in Autos : Decline(a) \/ WindowPasses(a)
           \/ \E w \in Workers : Charge(w)
           \/ \E c \in Checkouts : RequestTopUp(c) \/ RefuseSession(c)
           \/ \E s \in Sessions : \/ CreateSession(s) \/ CompleteUnpaid(s)
                                  \/ PayDelayed(s) \/ SessionExpires(s)
           \/ \E a \in Attempts : ExpireStale(a)
           \/ \E p \in Payments : Pay(p) \/ RefundCharge(p)
           \/ Drift \/ LoseSubject
    PROVE  IInv'
<1>0. /\ Books /\ TasksFit /\ StripeFits /\ ReceiverFits /\ left \in Nat /\ prepaid \in BOOLEAN
  BY Parts
<1>1. ASSUME NEW a \in Attempts, NEW s \in Statuses \ {"succeeded"}, Become(a, s), att[a] # "succeeded",
             UNCHANGED <<prepaid, tasks, stripe, emitted, receiver, left>>
      PROVE  IInv'
  <2>1. Books' /\ Lasting
    BY <1>1, BecomeKeeps DEF stripe
  <2> QED BY <1>0, <1>1, <2>1, TasksAlone, StripeAlone, ReceiverAlone, PartsNext
             DEF tasks, stripe, receiver
<1>2. ASSUME NEW c \in Checkouts, RequestTopUp(c) \/ RefuseSession(c) PROVE IInv'
  BY <1>1, <1>2 DEF RequestTopUp, RefuseSession, Statuses, Attempts
<1>3. ASSUME NEW a \in Attempts, ExpireStale(a) PROVE IInv'
  BY <1>1, <1>3 DEF ExpireStale, Statuses
<1>4. ASSUME NEW b \in Payments, NEW x \in PaymentStates \ {"none"},
             pay[b] # "paid", att[Of(b)] # "none", pay' = [pay EXCEPT ![b] = x],
             emitted' = emitted \/ emitted' = emitted \cup Emits(b, x),
             x = "unpaid" => b \in Autos, b \in Autos => saved[b] # "none" /\ x \in {"unpaid", "paid"},
             UNCHANGED <<books, prepaid, tasks, saved, refund, aged, receiver, left>>
      PROVE  IInv'
  <2>1. Books' /\ Lasting
    BY <1>0, <1>4, BooksAlone DEF StripeFits
  <2>2. TasksFit'
    BY <1>0, <1>4, <2>1, TasksAlone DEF tasks, StripeFits
  <2>3. StripeFits'
    <3>0. b \in Autos => x = "paid" \/ ~(<<"completed", b>> \in emitted')
      <4>1. ASSUME b \in Autos, x # "paid" PROVE <<"completed", b>> \notin emitted'
        <5>1. x = "unpaid" /\ Emits(b, x) = {<<"declined", b>>}
          BY <1>4, <4>1 DEF Emits
        <5>2. <<"completed", b>> \notin emitted
          BY <1>0, <1>4, <4>1 DEF StripeFits
        <5> QED BY <1>4, <5>1, <5>2
      <4> QED BY <4>1
    <3>1. emitted' \subseteq Events
      BY <1>0, <1>4 DEF Emits, Events, StripeFits, Payments
    <3>2. emitted' \subseteq emitted \cup {<<"completed", b>>, <<"declined", b>>}
      BY <1>4 DEF Emits
    <3>3. \A d \in Autos : <<"completed", d>> \in emitted' => pay'[d] = "paid"
      <4> SUFFICES ASSUME NEW d \in Autos, <<"completed", d>> \in emitted' PROVE pay'[d] = "paid"
        OBVIOUS
      <4>1. d \in Payments
        BY OfIsAttempt
      <4>2. CASE d = b
        BY <1>0, <1>4, <3>0, <4>2 DEF StripeFits
      <4>3. CASE d # b
        <5>1. <<"completed", d>> \in emitted
          BY <3>2, <4>3
        <5>2. pay[d] = "paid"
          BY <1>0, <5>1 DEF StripeFits
        <5> QED BY <1>0, <1>4, <4>1, <4>3, <5>2 DEF StripeFits
      <4> QED BY <4>2, <4>3
    <3>4. \A d \in Payments : <<"refunded", d>> \in emitted' => refund'[d] # "none"
      BY <1>0, <1>4, <3>2 DEF StripeFits
    <3>5. \A d \in Autos : /\ saved'[d] = "none" => pay'[d] = "none"
                           /\ saved'[d] = "succeeded" => pay'[d] = "paid"
      BY <1>0, <1>4, OfIsAttempt DEF StripeFits
    <3>6. pay' \in [Payments -> PaymentStates]
      BY <1>0, <1>4 DEF StripeFits
    <3>7. /\ saved' \in [Autos -> Answers \cup {"none"}]
          /\ refund' \in [Payments -> {"none", "early", "late"}] /\ aged' \subseteq Autos
      BY <1>0, <1>4 DEF StripeFits
    <3>8. \A d \in Payments : pay'[d] # "none" => att'[Of(d)] # "none"
      BY <1>0, <1>4 DEF StripeFits, books
    <3> QED BY <3>1, <3>3, <3>4, <3>5, <3>6, <3>7, <3>8, StripeNext
  <2>4. emitted \subseteq emitted'
    BY <1>4
  <2> QED BY <1>0, <1>4, <2>1, <2>2, <2>3, <2>4, ReceiverAlone, PartsNext DEF receiver
<1>5. ASSUME NEW p \in Payments, Pay(p) PROVE IInv'
  BY <1>0, <1>4, <1>5, OfIsAttempt DEF Pay, StripeFits, PaymentStates
<1>6. ASSUME NEW a \in Autos, Decline(a) PROVE IInv'
  BY <1>0, <1>4, <1>6, OfIsAttempt DEF Decline, StripeFits, PaymentStates
<1>7. ASSUME NEW s \in Sessions,
             CreateSession(s) \/ CompleteUnpaid(s) \/ PayDelayed(s) \/ SessionExpires(s)
      PROVE  IInv'
  <2>0. s \in Payments /\ s \notin Autos /\ Of(s) = For[s]
    BY OfIsAttempt
  <2>1. CASE CreateSession(s)
    BY <1>4, <2>0, <2>1 DEF CreateSession, PaymentStates
  <2>2. CASE CompleteUnpaid(s)
    BY <1>0, <1>4, <2>0, <2>2 DEF CompleteUnpaid, StripeFits, PaymentStates
  <2>3. CASE PayDelayed(s)
    BY <1>0, <1>4, <2>0, <2>3 DEF PayDelayed, StripeFits, PaymentStates
  <2>4. CASE SessionExpires(s)
    BY <1>0, <1>4, <2>0, <2>4 DEF SessionExpires, StripeFits, PaymentStates
  <2> QED BY <1>7, <2>1, <2>2, <2>3, <2>4
<1>12. ASSUME NEW a \in Autos, WindowPasses(a) PROVE IInv'
  <2>1. Books' /\ Lasting
    BY <1>12, BooksAlone DEF WindowPasses
  <2>2. TasksFit' /\ ReceiverFits'
    BY <1>12, <2>1, TasksAlone, ReceiverAlone DEF WindowPasses, tasks, receiver
  <2>3. StripeFits'
    BY <1>0, <1>12 DEF WindowPasses, StripeFits, books
  <2> QED BY <1>0, <1>12, <2>1, <2>2, <2>3, PartsNext DEF WindowPasses
<1>8. ASSUME NEW p \in Payments, RefundCharge(p) PROVE IInv'
  <2>1. Books' /\ Lasting
    BY <1>0, <1>8, BooksAlone DEF RefundCharge, StripeFits
  <2>2. TasksFit' /\ ReceiverFits'
    BY <1>8, <2>1, TasksAlone, ReceiverAlone DEF RefundCharge, tasks, receiver
  <2>3. StripeFits'
    BY <1>0, <1>8 DEF RefundCharge, StripeFits, Events, books
  <2> QED BY <1>0, <1>8, <2>1, <2>2, <2>3, PartsNext DEF RefundCharge
<1>9. ASSUME Drift PROVE IInv'
  <2>1. Books' /\ Lasting
    BY <1>0, <1>9 DEF Drift, Books, Lasting, CreditedOnce, ClawedOnlyIfCredited, Stored, stripe
  <2> QED BY <1>0, <1>9, <2>1, TasksAlone, StripeAlone, ReceiverAlone, PartsNext
             DEF Drift, tasks, stripe, receiver
<1>10. ASSUME LoseSubject PROVE IInv'
  <2>1. Books' /\ Lasting
    BY <1>10, BooksAlone DEF LoseSubject, stripe
  <2>2. left' \in Nat
    BY <1>0, <1>10, FaultIsNat DEF LoseSubject
  <2> QED BY <1>0, <1>10, <2>1, <2>2, TasksAlone, StripeAlone, ReceiverAlone, PartsNext
             DEF LoseSubject, tasks, stripe, receiver
<1>11. ASSUME NEW w \in Workers, Charge(w) PROVE IInv'
  <2> DEFINE a == job[w].on
  <2>0. a \in Autos /\ a \in Payments /\ Of(a) = a /\ att[a] # "none"
    BY <1>0, <1>11, OfIsAttempt DEF Charge, TasksFit, Jobs, Idle
  <2> HIDE DEF a
  <2>1. PICK answer \in IF saved[a] = "none" THEN Answers ELSE {saved[a]} :
           /\ job' = [job EXCEPT ![w].step = answer]
           /\ saved' = [saved EXCEPT ![a] = answer]
           /\ IF saved[a] = "none"
              THEN /\ pay' = [pay EXCEPT ![a] = Outcome(answer)]
                   /\ emitted' = emitted \cup Emits(a, Outcome(answer))
              ELSE UNCHANGED <<pay, emitted>>
    BY <1>11 DEF Charge, a
  <2>2. answer \in Answers /\ Outcome(answer) \in {"paid", "open", "unpaid"}
    BY <1>0, <2>0, <2>1 DEF StripeFits, Outcome, Answers
  <2>3. \A b \in Payments : pay[b] = "paid" => pay'[b] = "paid"
    BY <1>0, <2>0, <2>1 DEF StripeFits
  <2>4. Books' /\ Lasting
    BY <1>11, <2>3, BooksAlone DEF Charge
  <2>5. answer = "succeeded" => pay'[a] = "paid"
    BY <1>0, <2>0, <2>1, <2>2 DEF StripeFits, Outcome
  <2>6. TasksFit'
    <3>1. job' \in [Workers -> Jobs]
      BY <1>0, <1>11, <2>1, <2>2 DEF TasksFit, Jobs, Idle, Charge
    <3>2. job'[w].on = a /\ job'[w].step = answer /\ \A v \in Workers \ {w} : job'[v] = job[v]
      BY <1>0, <1>11, <2>1 DEF TasksFit, Jobs, Idle, Charge, a
    <3>3. \A v \in Workers \ {w} : job[v].step = "succeeded" => job[v].on \in Payments
      BY <1>0 DEF TasksFit, Jobs, Idle, Payments
    <3> QED BY <1>0, <1>11, <2>0, <2>3, <2>5, <3>1, <3>2, <3>3 DEF TasksFit, Charge, books
  <2>7. StripeFits'
    <3>1. CASE saved[a] = "none"
      <4>1. /\ pay' = [pay EXCEPT ![a] = Outcome(answer)]
            /\ emitted' = emitted \cup Emits(a, Outcome(answer)) /\ pay[a] = "none"
        BY <1>0, <2>0, <2>1, <3>1 DEF StripeFits
      <4>2. emitted' \subseteq Events
        BY <1>0, <2>0, <2>2, <4>1 DEF Emits, Events, StripeFits
      <4>0. Emits(a, Outcome(answer)) \subseteq {<<"completed", a>>, <<"declined", a>>}
        BY DEF Emits
      <4>3. \A b \in Autos : <<"completed", b>> \in emitted' => pay'[b] = "paid"
        <5> SUFFICES ASSUME NEW b \in Autos, <<"completed", b>> \in emitted' PROVE pay'[b] = "paid"
          OBVIOUS
        <5>1. b \in Payments
          BY OfIsAttempt
        <5>2. CASE b = a
          <6>1. <<"completed", a>> \notin emitted
            BY <1>0, <2>0, <4>1 DEF StripeFits
          <6>2. <<"completed", a>> \in Emits(a, Outcome(answer))
            BY <4>1, <5>2, <6>1
          <6>3. Outcome(answer) = "paid"
            BY <2>2, <6>2 DEF Emits
          <6> QED BY <1>0, <2>0, <4>1, <5>2, <6>3 DEF StripeFits
        <5>3. CASE b # a
          <6>1. <<"completed", b>> \in emitted
            BY <4>0, <4>1, <5>3
          <6> QED BY <1>0, <4>1, <5>1, <5>3, <6>1 DEF StripeFits
        <5> QED BY <5>2, <5>3
      <4>7. \A b \in Payments : <<"refunded", b>> \in emitted' => refund'[b] # "none"
        BY <1>0, <1>11, <4>0, <4>1 DEF StripeFits, Charge
      <4>4. \A b \in Autos : /\ saved'[b] = "none" => pay'[b] = "none"
                             /\ saved'[b] = "succeeded" => pay'[b] = "paid"
        BY <1>0, <2>0, <2>1, <2>2, <2>5, <4>1 DEF StripeFits, Answers, Payments
      <4>5. /\ pay' \in [Payments -> PaymentStates] /\ aged' \subseteq Autos
            /\ refund' \in [Payments -> {"none", "early", "late"}]
            /\ \A b \in Payments : pay'[b] # "none" => att'[Of(b)] # "none"
        BY <1>0, <1>11, <2>0, <2>2, <4>1 DEF StripeFits, Charge, books, PaymentStates
      <4>6. saved' \in [Autos -> Answers \cup {"none"}]
        BY <1>0, <2>1, <2>2 DEF StripeFits
      <4> QED BY <4>2, <4>3, <4>4, <4>5, <4>6, <4>7, StripeNext
    <3>2. CASE saved[a] # "none"
      <4>1. saved' = saved
        BY <1>0, <2>0, <2>1, <3>2 DEF StripeFits
      <4> QED BY <1>11, <2>1, <2>4, <3>2, <4>1, StripeAlone DEF Charge
    <3> QED BY <3>1, <3>2
  <2>8. emitted \subseteq emitted'
    BY <2>1
  <2> QED BY <1>0, <1>11, <2>4, <2>6, <2>7, <2>8, ReceiverAlone, PartsNext DEF Charge, receiver
<1> QED BY <1>2, <1>3, <1>5, <1>6, <1>7, <1>8, <1>9, <1>10, <1>11, <1>12

\* The receiver.
LEMMA ReceiverSteps ==
    ASSUME IInv, NEW e \in Events,
           \/ Deliver(e) \/ Handle(e) \/ Save(e) \/ RefuseEvent(e)
           \/ Raise(e) \/ ReceiverLost(e) \/ Age(e) \/ Cleanup(e)
    PROVE  IInv'
<1>0. /\ Books /\ TasksFit /\ StripeFits /\ ReceiverFits /\ left \in Nat /\ prepaid \in BOOLEAN
  BY Parts
<1>1. ASSUME Books', Lasting, ReceiverFits', UNCHANGED <<prepaid, tasks, stripe, emitted>>, left' \in Nat
      PROVE  IInv'
  BY <1>0, <1>1, TasksAlone, StripeAlone, PartsNext DEF tasks, stripe
<1>2. ASSUME UNCHANGED <<books, stripe>> PROVE Books' /\ Lasting
  BY <1>2, BooksAlone DEF stripe
<1>3. ASSUME Deliver(e) PROVE IInv'
  <2>1. ReceiverFits'
    BY <1>0, <1>3 DEF Deliver, ReceiverFits
  <2>2. left' \in Nat
    BY <1>0, <1>3, FaultIsNat DEF Deliver
  <2> QED BY <1>1, <1>2, <1>3, <2>1, <2>2 DEF Deliver
<1>4. ASSUME Save(e) \/ RefuseEvent(e) \/ Age(e) \/ Cleanup(e) PROVE IInv'
  <2>1. ReceiverFits'
    <3>1. CASE Save(e)
      BY <1>0, <3>1 DEF Save, ReceiverFits
    <3>2. CASE RefuseEvent(e)
      BY <1>0, <3>2 DEF RefuseEvent, ReceiverFits
    <3>3. CASE Age(e)
      BY <1>0, <3>3 DEF Age, ReceiverFits
    <3>4. CASE Cleanup(e)
      BY <1>0, <3>4 DEF Cleanup, ReceiverFits
    <3> QED BY <1>4, <3>1, <3>2, <3>3, <3>4
  <2> QED BY <1>0, <1>1, <1>2, <1>4, <2>1 DEF Save, RefuseEvent, Age, Cleanup
<1>5. ASSUME Raise(e) \/ ReceiverLost(e) PROVE IInv'
  <2>1. ReceiverFits'
    <3>1. CASE Raise(e)
      BY <1>0, <3>1 DEF Raise, ReceiverFits
    <3>2. CASE ReceiverLost(e)
      BY <1>0, <3>2 DEF ReceiverLost, ReceiverFits
    <3> QED BY <1>5, <3>1, <3>2
  <2>2. left' \in Nat
    BY <1>0, <1>5, FaultIsNat DEF Raise, ReceiverLost
  <2> QED BY <1>1, <1>2, <1>5, <2>1, <2>2 DEF Raise, ReceiverLost
<1>6. ASSUME Handle(e) PROVE IInv'
  <2>0. e \in emitted /\ UNCHANGED <<pay, refund>>
    BY <1>0, <1>6 DEF Handle, ReceiverFits, stripe
  <2>1. ReceiverFits'
    BY <1>0, <1>6 DEF Handle, ReceiverFits
  <2>2. left' \in Nat
    BY <1>0, <1>6, FaultIsNat DEF Handle, handle_checkout_completed
  <2>3. PICK k, a : e = <<k, a>> /\ a \in Payments /\ (k = "declined" => a \in Autos)
    BY DEF Events, Payments
  <2>4. e[1] = k /\ e[2] = a
    BY <2>3
  <2>5. k = "completed" /\ a \in Autos => pay[a] = "paid"
    BY <1>0, <2>0, <2>3 DEF StripeFits
  <2>6. k = "refunded" => refund[a] # "none"
    BY <1>0, <2>0, <2>3 DEF StripeFits
  <2>7. Books' /\ Lasting
    <3>1. CASE UNCHANGED books
      BY <1>2, <1>6, <3>1 DEF Handle
    <3>2. CASE k = "completed" /\ a \in Autos /\ apply_topup_credit(a)
      BY <2>0, <2>5, <3>2, ApplyKeeps
    <3>3. CASE k = "completed" /\ a \in Sessions /\ handle_checkout_completed(a)
      <4>1. ASSUME NEW known \in BOOLEAN, pay[a] = "paid", Creditable(For[a]), Post(a, known)
            PROVE  Books' /\ Lasting
        <5>1. att[Of(a)] # "succeeded"
          BY <3>3, <4>1, OfIsAttempt DEF Creditable
        <5> QED BY <2>0, <2>3, <4>1, <5>1, PostKeeps
      <4> QED BY <3>1, <3>3, <4>1 DEF handle_checkout_completed
    <3>4. CASE k = "declined" /\ handle_payment_intent_payment_failed(a)
      <4>1. a \in Attempts
        BY <2>3, <3>4, OfIsAttempt
      <4> QED BY <2>0, <3>1, <3>4, <4>1, BecomeKeeps DEF handle_payment_intent_payment_failed, Statuses
    <3>5. CASE k = "refunded" /\ handle_charge_refunded(a)
      <4>1. CASE charge[Of(a)] = a
        <5>0. Of(a) \in Attempts /\ a # NoPayment
          BY <2>3, OfIsAttempt, TopUpsAssumption DEF Payments
        <5>1. /\ clawed' = [clawed EXCEPT ![Of(a)] = TRUE] /\ credits[a] = 1
              /\ UNCHANGED <<att, charge, credits, low>>
          BY <1>0, <3>5, <4>1, <5>0 DEF handle_charge_refunded, Books, Stored
        <5>2. ClawedOnlyIfCredited'
          BY <1>0, <2>0, <2>3, <2>6, <3>5, <4>1, <5>0, <5>1 DEF Books, ClawedOnlyIfCredited
        <5> QED BY <1>0, <2>0, <5>1, <5>2 DEF Books, Lasting, CreditedOnce, Stored
      <4> QED BY <3>1, <3>5, <4>1 DEF handle_charge_refunded
    <3> QED BY <1>6, <2>4, <3>2, <3>3, <3>4, <3>5 DEF Handle
  <2> QED BY <1>1, <1>6, <2>1, <2>2, <2>7 DEF Handle
<1> QED BY <1>3, <1>4, <1>5, <1>6

LEMMA StepInv == IInv /\ [Next]_vars => IInv'
<1> SUFFICES ASSUME IInv, [Next]_vars PROVE IInv'
  OBVIOUS
<1>1. CASE UNCHANGED vars
  <2>1. Books' /\ Lasting
    BY <1>1, BooksAlone DEF vars, stripe
  <2> QED BY <1>1, <2>1, Parts, TasksAlone, StripeAlone, ReceiverAlone, PartsNext
             DEF vars, tasks, stripe, receiver
<1> QED BY <1>1, TaskSteps, WorldSteps, ReceiverSteps DEF Next

-----------------------------------------------------------------------------
\* The invariant holds of every behaviour of the top-ups.
THEOREM TopUpsInvariance == Spec => []IInv
  BY InitInv, StepInv, PTL DEF Spec

\* The top-ups keep their types, and no payment exists without its attempt
\* (create_pending_attempt and start_top_up write the row before Stripe is called).
THEOREM TopUpsTypeCorrect == Spec => []TypeOK
<1>1. IInv => TypeOK
  BY DEF IInv
<1> QED BY <1>1, TopUpsInvariance, PTL

\* A top-up is credited once, for a payment that went through, and exactly when
\* its attempt says succeeded, for any number of sessions of the attempt
\* (apply_topup_credit, handle_checkout_completed).
THEOREM CreditsOnce == Spec => []CreditedOnce
<1>1. IInv => CreditedOnce
  BY DEF IInv
<1> QED BY <1>1, TopUpsInvariance, PTL

\* Money is taken back only for a refund of a top-up that reached the wallet
\* (_attempt_for_charge, handle_charge_refunded).
THEOREM ClawsBackCredited == Spec => []ClawedOnlyIfCredited
<1>1. IInv => ClawedOnlyIfCredited
  BY DEF IInv
<1> QED BY <1>1, TopUpsInvariance, PTL
=============================================================================
