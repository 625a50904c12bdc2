---------------------------- MODULE WalletLedger ----------------------------
(***************************************************************************)
(* One billing owner's prepaid wallet: its balance, its transaction        *)
(* ledger, its credit-grant lots and the slices of debits the lots paid    *)
(* for.  apps/billing/wallets/operations.py runs every mutation through    *)
(* _execute in one database transaction that holds the wallet's row lock,  *)
(* so each operation is one atomic step here: lock, lazy expiry, replay    *)
(* probe, money rules, ledger row (and the lot minted with it), balance,   *)
(* settling of the lots, announcements.                                    *)
(*                                                                         *)
(* The keys of the system's own rows have a prefix for each family, here   *)
(* the first element of a tuple.  debit, credit, withdraw and refund_usage *)
(* share one family: the code stores the caller's key as it is, and a      *)
(* caller is taken not to spell one of the system's prefixes.  A ledger    *)
(* row is identified by its key and a lot by the key of the credit row it  *)
(* was minted with (create_grant writes both in one savepoint).  Money is  *)
(* in whole units, time in whole ticks.                                    *)
(*                                                                         *)
(* The stop signal that the drawdown tail drives is in StopSignal.         *)
(***************************************************************************)
EXTENDS Integers, Sequences, FiniteSets, Bags, TLC, FiniteSetsExt, Functions

CONSTANTS
    Events,         \* usage events that metering recorded and priced
    Cost,           \* Cost[e]: the billed cost of event e
    CallKeys,       \* idempotency keys of debit, credit, withdraw and refund
    GrantKeys,      \* idempotency keys of the grant endpoint
    Lifetimes,      \* lifetimes a caller of it may ask for, in ticks
    Attempts,       \* top-up attempts; each has one Stripe charge
    TopUp,          \* TopUp[a]: what attempt a pays in
    TopUpExpiry,    \* the profile's topup_grant_expiry_days, in ticks
    Refunds,        \* Refunds[a]: amounts of the refunds Stripe will make of a's charge
    Amounts,        \* amounts a caller may ask for
    MinBalance,     \* the wallet's floor, as a magnitude
    TopUpTrigger,   \* auto top-up trigger threshold
    MaxTime         \* bound of the clock

ASSUME WalletAssumption ==
    /\ Cost \in [Events -> Nat]
    /\ TopUp \in [Attempts -> Nat \ {0}] /\ TopUpExpiry \in Nat \ {0}
    /\ \A a \in Attempts : Refunds[a] \in Seq(Nat \ {0})
    /\ Amounts \subseteq Nat \ {0} /\ Lifetimes \subseteq Nat \ {0}
    /\ MinBalance \in Nat /\ TopUpTrigger \in Int /\ MaxTime \in Nat

VARIABLES
    now,        \* the clock the expiries are compared with
    wallet,     \* the database rows of the wallet, see TypeOK
    outbox,     \* bag of the announcements written with the movements
    stripe      \* stripe[a]: refunds of a's charge Stripe made, and the latest one told

vars == <<now, wallet, outbox, stripe>>

Never == MaxTime + 1            \* a NULL expires_at: later than any clock

SumOver(S, f) == SumFunctionOnSet(f, S)

\* Rows added to a table.
With(table, rows) ==
    [k \in DOMAIN table \cup DOMAIN rows |->
        IF k \in DOMAIN rows THEN rows[k] ELSE table[k]]

Least(a, b) == IF a < b THEN a ELSE b
AtLeastZero(a) == IF a < 0 THEN 0 ELSE a

\* An expiry past the bound of the clock is as good as none.
ExpiryAfter(d) == Least(now + d, Never)

-----------------------------------------------------------------------------
(* Lots.                                                                    *)

Active(W) == {g \in DOMAIN W.grants : W.grants[g].status = "active"}

RemainingOf(W, S) == [g \in S |-> W.grants[g].remaining]
Remaining(W, S) == SumOver(S, RemainingOf(W, S))

Promo(W) == {g \in Active(W) : W.grants[g].kind = "promo"}

\* What an expiry, a payment, a refund and a void change of a lot, and a refund
\* of a slice.
LotExpired(lot) ==
    [lot EXCEPT !.expired = @ + lot.remaining, !.remaining = 0, !.status = "expired"]

LotPays(lot, amount) ==
    [lot EXCEPT !.remaining = @ - amount,
                !.status = IF lot.remaining = amount THEN "depleted" ELSE @]

LotPaidBack(lot, amount) == [lot EXCEPT !.remaining = @ + amount, !.status = "active"]

LotVoided(lot, amount) ==
    [lot EXCEPT !.remaining = @ - amount, !.voided = @ + amount,
                !.status = IF lot.remaining = amount THEN "voided" ELSE @]

SliceRefunded(slice, amount) == [slice EXCEPT !.refunded = @ + amount]

\* _active_grants: expires_at ascending with NULLs last, promo before paid,
\* then creation.
Precedes(W, g, h) ==
    LET x == W.grants[g]
        y == W.grants[h]
        rank(k) == IF k = "promo" THEN 0 ELSE 1
    IN  \/ x.expires < y.expires
        \/ x.expires = y.expires /\ rank(x.kind) < rank(y.kind)
        \/ x.expires = y.expires /\ x.kind = y.kind /\ x.born < y.born

\* Filling an amount from lots in order, each up to its own cap: what every
\* loop "take = min(cap, left); left -= take" over ordered lots computes.
Waterfall(W, caps, amount) ==
    [g \in DOMAIN caps |->
        LET ahead == {h \in DOMAIN caps : Precedes(W, h, g)}
        IN  Least(caps[g], AtLeastZero(amount - SumOver(ahead, caps)))]

-----------------------------------------------------------------------------
(* The ledger.                                                              *)

Posted(W, key) == key \in DOMAIN W.txns

\* The winning branch of _execute: the row and the balance it leaves.
Post(W, key, type, amount, ref) ==
    [W EXCEPT !.balance = @ + amount,
              !.txns = With(@, [k \in {key} |-> [type |-> type, amount |-> amount, ref |-> ref]])]

\* expire_due: every active lot that is due is retired and its remainder
\* debited, clamped so that the balance stays at or above zero.  The row is
\* written even when the clamp leaves nothing to debit.
Due(W) == {g \in Active(W) : W.grants[g].expires <= now}

\* Mutant: the debit is what the lot was granted, not what remains of it.
expire_due_granted(W) ==
    LET due == Due(W)
    IN  [W EXCEPT
            !.balance = @ - SumOver(due, [g \in due |-> W.grants[g].granted]),
            !.txns = With(@, [k \in {<<"expiry", g>> : g \in due} |->
                        [type |-> "grant_expiry", amount |-> -W.grants[k[2]].granted,
                         ref |-> k[2]]]),
            !.grants = [g \in DOMAIN @ |-> IF g \in due THEN LotExpired(@[g]) ELSE @[g]]]

expire_due(W) ==
    LET due == Due(W)
        debit == Waterfall(W, RemainingOf(W, due), AtLeastZero(W.balance))
        rows == {g \in due : W.grants[g].remaining > 0}
    IN  [W EXCEPT
            !.balance = @ - SumOver(rows, debit),
            !.txns = With(@, [k \in {<<"expiry", g>> : g \in rows} |->
                        [type |-> "grant_expiry", amount |-> -debit[k[2]], ref |-> k[2]]]),
            !.grants = [g \in DOMAIN @ |-> IF g \in due THEN LotExpired(@[g]) ELSE @[g]]]

\* allocate: lots in S pay for row key in consumption order; the rest of the
\* amount is base money and has no row.
allocate(W, key, amount, S, type) ==
    LET take == Waterfall(W, RemainingOf(W, S), amount)
        paid == {g \in S : take[g] > 0}
    IN  [W EXCEPT
            !.grants = [g \in DOMAIN @ |-> IF g \in paid THEN LotPays(@[g], take[g]) ELSE @[g]],
            !.allocs = With(@, [p \in {<<g, key>> : g \in paid} |->
                [amount |-> take[p[1]], refunded |-> 0, type |-> type]])]

\* Mutant: the lot is minted whole, whatever the wallet owed.
create_grant_whole(W, key, kind, amount, expires, ref) ==
    [W EXCEPT
        !.grants = With(@, [k \in {key} |->
                           [kind |-> kind, granted |-> amount, remaining |-> amount,
                            expired |-> 0, voided |-> 0, expires |-> expires,
                            status |-> "active", ref |-> ref,
                            born |-> Cardinality(DOMAIN W.grants)]])]

\* create_grant: the part of the credit that pays off a negative balance is
\* taken from the lot at once as overage_recoup.  W already holds row key.
create_grant(W, key, kind, amount, expires, ref) ==
    LET old == W.balance - amount
        recoup == Least(amount, AtLeastZero(-old))
    IN  [W EXCEPT
            !.grants = With(@, [k \in {key} |->
                               [kind |-> kind, granted |-> amount,
                                remaining |-> amount - recoup,
                                expired |-> 0, voided |-> 0, expires |-> expires,
                                status |-> IF recoup = amount THEN "depleted" ELSE "active",
                                ref |-> ref, born |-> Cardinality(DOMAIN W.grants)]]),
            !.allocs = IF old < 0
                       THEN With(@, [p \in {<<key, key>>} |->
                                [amount |-> recoup, refunded |-> 0, type |-> "overage_recoup"]])
                       ELSE @]

\* GrantLedger.refund: the slices of the original deduction go back to the
\* lots that are still active or depleted, while the balance has headroom over
\* the active lots.  W already holds the credit.
GrantLedgerRefund(W, original) ==
    LET headroom == AtLeastZero(W.balance) - Remaining(W, Active(W))
        funding == {g \in DOMAIN W.grants :
                      /\ <<g, original>> \in DOMAIN W.allocs
                      /\ W.allocs[<<g, original>>].type = "usage"
                      /\ W.grants[g].status \in {"active", "depleted"}}
        cap == [g \in funding |->
                  Least(W.allocs[<<g, original>>].amount - W.allocs[<<g, original>>].refunded,
                        W.grants[g].granted - W.grants[g].remaining)]
        take == Waterfall(W, cap, headroom)
        paid == {g \in funding : take[g] > 0}
    IN  [W EXCEPT
            !.grants = [g \in DOMAIN @ |-> IF g \in paid THEN LotPaidBack(@[g], take[g]) ELSE @[g]],
            !.allocs = [p \in DOMAIN @ |->
                IF p[2] = original /\ p[1] \in paid
                THEN SliceRefunded(@[p], take[p[1]])
                ELSE @[p]]]

\* clawback: void the reversed top-up's own lot up to the amount, then take
\* from the active lots until their total fits under the balance again.
clawback(W, key, amount, source) ==
    LET void == IF source \in Active(W) THEN Least(W.grants[source].remaining, amount) ELSE 0
        V == IF void > 0
             THEN [W EXCEPT !.grants[source] = LotVoided(@, void)]
             ELSE W
        excess == Remaining(V, Active(V)) - AtLeastZero(V.balance)
    IN  allocate(V, key, excess, Active(V), "clawback")

-----------------------------------------------------------------------------
(* Announcements: what the winning branch writes to the outbox.             *)

Announce(B, S) == B (+) SetToBag(S)

\* expire_due: one credit-grant-expired per row, and wallet-balance-low for
\* each debit that leaves the balance under the top-up trigger.
ExpiryNotices(W) ==
    LET due == {g \in Due(W) : W.grants[g].remaining > 0}
        debit == Waterfall(W, RemainingOf(W, due), AtLeastZero(W.balance))
        after(g) == W.balance - SumOver({h \in due : ~Precedes(W, g, h)}, debit)
    IN  {<<"grant_expired", <<"expiry", g>>>> : g \in due}
        \cup {<<"balance_low", <<"expiry", g>>>> :
                g \in {h \in due : debit[h] > 0 /\ after(h) < TopUpTrigger}}

\* _drawdown_tail, apart from the stop transitions.
DrawdownNotices(key, old, new) ==
    {n \in {<<"overage", key>>, <<"balance_low", key>>} :
        \/ n[1] = "overage" /\ old >= 0 /\ new < 0
        \/ n[1] = "balance_low" /\ new < TopUpTrigger}

-----------------------------------------------------------------------------
(* Operations.  Expired is the wallet after the lazy expiry; an operation   *)
(* that is a replay or is refused commits it and moves nothing else.        *)

Expired == expire_due(wallet)

Commit(W, notices) ==
    /\ wallet' = W
    /\ outbox' = Announce(outbox, notices)
    /\ UNCHANGED <<now, stripe>>

\* A replayed key, or a money rule that says no.
NothingMoves == Commit(Expired, ExpiryNotices(wallet))

debit(k, amount, allow_negative) ==
    LET key == <<"call", k>>
        refused == Expired.balance - amount < -MinBalance /\ ~allow_negative
    IN  IF Posted(Expired, key) \/ refused
        THEN NothingMoves
        ELSE Commit(allocate(Post(Expired, key, "debit", -amount, k), key, amount,
                             Active(Expired), "usage"),
                    ExpiryNotices(wallet))

\* credit: base money, no lot, and no lazy expiry.
credit(k, amount) ==
    LET key == <<"call", k>>
    IN  IF Posted(wallet, key)
        THEN Commit(wallet, {})
        ELSE Commit(Post(wallet, key, "adjustment", amount, k), {})

\* Mutant: any balance is withdrawable, and every lot pays.
withdraw_promo(k, amount) ==
    LET key == <<"call", k>>
    IN  IF Posted(Expired, key) \/ Expired.balance < amount
        THEN NothingMoves
        ELSE Commit(allocate(Post(Expired, key, "withdrawal", -amount, k), key, amount,
                             Active(Expired), "withdrawal"),
                    ExpiryNotices(wallet) \cup {<<"withdrawal_requested", key>>})

withdraw(k, amount) ==
    LET key == <<"call", k>>
        refused == Expired.balance - Remaining(Expired, Promo(Expired)) < amount
    IN  IF Posted(Expired, key) \/ refused
        THEN NothingMoves
        ELSE Commit(allocate(Post(Expired, key, "withdrawal", -amount, k), key, amount,
                             Active(Expired) \ Promo(Expired), "withdrawal"),
                    ExpiryNotices(wallet) \cup {<<"withdrawal_requested", key>>})

\* refund_usage looks the amount up itself.  The deduction it refunds may not
\* have been made yet: then the whole refund is base money.
refund_usage(k, e) ==
    LET key == <<"call", k>>
    IN  IF Posted(Expired, key)
        THEN NothingMoves
        ELSE Commit(GrantLedgerRefund(Post(Expired, key, "refund", Cost[e], e),
                                      <<"usage_deduction", e>>),
                    ExpiryNotices(wallet) \cup {<<"refund_requested", key>>})

mint_grant(k, kind, amount, expires) ==
    LET key == <<"grant", k>>
    IN  IF Posted(wallet, key)
        THEN Commit(wallet, {})
        ELSE Commit(create_grant(Post(wallet, key, "grant", amount, k),
                                 key, kind, amount, expires, k), {})

\* Mutant: voided is assigned instead of accumulated.
void_grant_clobber(g) ==
    LET key == <<"grant_void", g>>
        lot == Expired.grants[g]
        clamped == Least(lot.remaining, AtLeastZero(Expired.balance))
    IN  /\ g \in DOMAIN wallet.grants
        /\ IF Posted(Expired, key) \/ lot.status # "active"
           THEN NothingMoves
           ELSE Commit([Post(Expired, key, "grant_void", -clamped, g) EXCEPT
                          !.grants[g] = [lot EXCEPT !.voided = lot.remaining,
                                                    !.remaining = 0,
                                                    !.status = "voided"]],
                       ExpiryNotices(wallet))

\* void_grant: a lot that the lazy expiry retired, or that is no longer active,
\* is left as it is.
void_grant(g) ==
    LET key == <<"grant_void", g>>
        lot == Expired.grants[g]
        clamped == Least(lot.remaining, AtLeastZero(Expired.balance))
    IN  /\ g \in DOMAIN wallet.grants
        /\ IF Posted(Expired, key) \/ lot.status # "active"
           THEN NothingMoves
           ELSE Commit([Post(Expired, key, "grant_void", -clamped, g) EXCEPT
                          !.grants[g] = LotVoided(lot, lot.remaining)],
                       ExpiryNotices(wallet))

\* Mutant: the announcements are written before the replay probe.
draw_down_usage_announces(e, repair) ==
    LET key == <<"usage_deduction", e>>
        new == Expired.balance - Cost[e]
        notices == ExpiryNotices(wallet) \cup
                     IF repair THEN {} ELSE DrawdownNotices(key, Expired.balance, new)
    IN  IF Posted(Expired, key)
        THEN Commit(Expired, notices)
        ELSE Commit(allocate(Post(Expired, key, "usage_deduction", -Cost[e], e),
                             key, Cost[e], Active(Expired), "usage"), notices)

\* draw_down_usage: the outbox handler and the repair beat take the same path;
\* repair writes no announcements of its own.
draw_down_usage(e, repair) ==
    LET key == <<"usage_deduction", e>>
        new == Expired.balance - Cost[e]
    IN  IF Posted(Expired, key)
        THEN NothingMoves
        ELSE Commit(allocate(Post(Expired, key, "usage_deduction", -Cost[e], e),
                             key, Cost[e], Active(Expired), "usage"),
                    ExpiryNotices(wallet) \cup
                      IF repair THEN {} ELSE DrawdownNotices(key, Expired.balance, new))

topup_grant_expires_at == ExpiryAfter(TopUpExpiry)

credit_top_up(a) ==
    LET key == <<"topup", a>>
    IN  IF Posted(wallet, key)
        THEN Commit(wallet, {})
        ELSE Commit(create_grant(Post(wallet, key, "top_up", TopUp[a], a),
                                 key, "paid", TopUp[a], topup_grant_expires_at, a), {})

\* The lot a charge reversal comes out of first: the one its top-up minted.
SourceLot(a) == <<"topup", a>>

\* A lost dispute is of the whole charge here, and a charge has one.
claw_back_dispute(a) ==
    LET key == <<"dispute", a>>
    IN  /\ Posted(wallet, <<"topup", a>>)       \* the attempt carries its charge id
        /\ IF Posted(Expired, key)
           THEN NothingMoves
           ELSE Commit(clawback(Post(Expired, key, "dispute_deduction", -TopUp[a], a),
                                key, TopUp[a], SourceLot(a)),
                       ExpiryNotices(wallet))

AmountsOf(W) == [k \in DOMAIN W.txns |-> W.txns[k].amount]

stripe_refund_applied(W, a) ==
    -SumOver({k \in DOMAIN W.txns : W.txns[k].type = "stripe_refund"
                                    /\ W.txns[k].ref = a}, AmountsOf(W))

\* Mutant: the whole cumulative amount is taken under every new key.
claw_back_stripe_refund_whole(W, a, key, cumulative, cap) ==
    IF Posted(W, key)
    THEN W
    ELSE clawback(Post(W, key, "stripe_refund", -Least(cap, cumulative), a),
                  key, Least(cap, cumulative), SourceLot(a))

\* claw_back_stripe_refund: the cumulative amount less what the ledger already
\* took for this charge, capped when one refund of an expanded list is applied.
claw_back_stripe_refund(W, a, key, cumulative, cap) ==
    LET delta == cumulative - stripe_refund_applied(W, a)
        increment == Least(cap, delta)
    IN  IF Posted(W, key) \/ delta < 0 \/ increment <= 0
        THEN W
        ELSE clawback(Post(W, key, "stripe_refund", -increment, a), key, increment, SourceLot(a))

CumulativeAt(a, n) == SumOver(1..n, Refunds[a])

\* One refund of the list that the event carries, capped at its own amount.
perRefund(a, level, i, W) ==
    claw_back_stripe_refund(W, a, <<"stripe_refund", a, "id", i>>, level, Refunds[a][i])

\* handle_charge_refunded on the event Stripe made after its n-th refund of the
\* charge, delivered late, repeatedly or out of order.  expanded is the refund
\* list the event carries, possibly empty or truncated.
handle_charge_refunded(a, n, expanded) ==
    LET level == CumulativeAt(a, n)
        listed == FoldSet(LAMBDA i, W : perRefund(a, level, i, W), Expired, expanded)
    IN  /\ Posted(wallet, <<"topup", a>>)
        /\ n \in 1..stripe[a].made
        /\ wallet' = claw_back_stripe_refund(listed, a, <<"stripe_refund", a, "level", level>>,
                                             level, level)
        /\ outbox' = Announce(outbox, ExpiryNotices(wallet))
        /\ stripe' = [stripe EXCEPT ![a].told = IF n > @ THEN n ELSE @]
        /\ UNCHANGED now

\* The hourly beat's unit of work.
expire_due_sweep == Due(wallet) # {} /\ NothingMoves

-----------------------------------------------------------------------------
(* The environment: time passes, and Stripe makes refunds.                  *)

Tick == now < MaxTime /\ now' = now + 1 /\ UNCHANGED <<wallet, outbox, stripe>>

StripeRefunds(a) ==
    /\ Posted(wallet, <<"topup", a>>) /\ stripe[a].made < Len(Refunds[a])
    /\ stripe' = [stripe EXCEPT ![a].made = @ + 1]
    /\ UNCHANGED <<now, wallet, outbox>>

Init ==
    /\ now = 0
    /\ wallet = [balance |-> 0, grants |-> <<>>, txns |-> <<>>, allocs |-> <<>>]
    /\ outbox = <<>>
    /\ stripe = [a \in Attempts |-> [made |-> 0, told |-> 0]]

Next ==
    \/ \E k \in CallKeys, m \in Amounts, force \in BOOLEAN : debit(k, m, force)
    \/ \E k \in CallKeys, m \in Amounts : credit(k, m)
    \/ \E k \in CallKeys, m \in Amounts : withdraw(k, m)
    \/ \E k \in CallKeys, e \in Events : refund_usage(k, e)
    \/ \E k \in GrantKeys, kind \in {"promo", "paid"}, m \in Amounts, d \in Lifetimes :
          mint_grant(k, kind, m, ExpiryAfter(d))
    \/ \E g \in DOMAIN wallet.grants : void_grant(g)
    \/ \E e \in Events, repair \in BOOLEAN : draw_down_usage(e, repair)
    \/ \E a \in Attempts : credit_top_up(a)
    \/ \E a \in Attempts : claw_back_dispute(a)
    \/ \E a \in Attempts : \E n \in 1..stripe[a].made : \E s \in SUBSET (1..n) :
          handle_charge_refunded(a, n, s)
    \/ expire_due_sweep
    \/ Tick
    \/ \E a \in Attempts : StripeRefunds(a)

Spec == Init /\ [][Next]_vars

-----------------------------------------------------------------------------
(* Properties.                                                              *)

Statuses == {"active", "depleted", "expired", "voided"}

\* The rows of CreditGrant, GrantAllocation and WalletTransaction keep their
\* column types and the check constraint 0 <= remaining <= granted; only an
\* active lot holds money, and an active lot always does.
TypeOK ==
    /\ now \in 0..MaxTime
    /\ wallet.balance \in Int
    /\ \A k \in DOMAIN wallet.txns : wallet.txns[k].amount \in Int
    /\ \A g \in DOMAIN wallet.grants :
         LET lot == wallet.grants[g]
         IN  /\ g \in DOMAIN wallet.txns
             /\ lot.remaining \in 0..lot.granted
             /\ lot.expired \in Nat /\ lot.voided \in Nat
             /\ lot.status \in Statuses
             /\ (lot.status = "active") <=> (lot.remaining > 0)
    /\ \A p \in DOMAIN wallet.allocs :
         /\ p[1] \in DOMAIN wallet.grants /\ p[2] \in DOMAIN wallet.txns
         /\ wallet.allocs[p].refunded \in 0..wallet.allocs[p].amount
    /\ \A a \in Attempts : stripe[a].told \in 0..stripe[a].made
    /\ IsABag(outbox)

\* G1 of grants.py, audited by reconcile_wallet_balances: the active lots
\* never hold more than the spendable balance, through any interleaving of
\* debits, refunds, clawbacks, expiries and credits to an overdrawn wallet.
LotsCovered == Remaining(wallet, Active(wallet)) <= AtLeastZero(wallet.balance)

\* What lot g paid for debits and was not put back, and what all lots paid for
\* row k.
SlicesOf(W, g) == {p \in DOMAIN W.allocs : p[1] = g}
SlicesFor(W, k) == {p \in DOMAIN W.allocs : p[2] = k}
Paid(W) == [p \in DOMAIN W.allocs |-> W.allocs[p].amount]
Spent(W) == [p \in DOMAIN W.allocs |-> W.allocs[p].amount - W.allocs[p].refunded]

Magnitude(a) == IF a < 0 THEN -a ELSE a

LedgerAddsUp(W) == W.balance = SumOver(DOMAIN W.txns, AmountsOf(W))

LotsAddUp(W) ==
    \A g \in DOMAIN W.grants :
        LET lot == W.grants[g]
        IN  lot.granted = lot.remaining + SumOver(SlicesOf(W, g), Spent(W))
                          + lot.expired + lot.voided

SlicesWithinRows(W) ==
    \A k \in DOMAIN W.txns : SumOver(SlicesFor(W, k), Paid(W)) <= Magnitude(W.txns[k].amount)

\* G2 of grants.py and the drift that reconcile_wallet_balances looks for: the
\* balance is the sum of the ledger; what a lot was granted is what remains,
\* what paid for debits and was not put back, what expired and what was voided;
\* and no ledger row is paid for by lots with more than its own amount.
BooksBalance ==
    /\ TypeOK
    /\ LedgerAddsUp(wallet) /\ LotsAddUp(wallet) /\ SlicesWithinRows(wallet)

\* charge.refunded events may come late, twice, out of order, with or without
\* the refund list: what the ledger took for a charge is always the highest
\* cumulative amount that an event told, never more and never less.
RefundsConverge ==
    \A a \in Attempts :
        stripe_refund_applied(wallet, a) = CumulativeAt(a, stripe[a].told)

\* A movement's announcements are written once, with the row that won the key:
\* a replay, a refusal or the repair beat never announces it again.
AnnouncedOnce ==
    \A n \in DOMAIN outbox : outbox[n] = 1 /\ n[2] \in DOMAIN wallet.txns

\* G3 of grants.py: the debits of the lots that expire in a step never take
\* the balance below zero, nor further below it.
ExpiryKeepsSolvent ==
    [][LET new == {k \in DOMAIN wallet'.txns \ DOMAIN wallet.txns : k[1] = "expiry"}
           debited == -SumOver(new, AmountsOf(wallet)')
       IN  debited > 0 => wallet.balance - debited >= 0]_vars

\* withdraw: a withdrawal leaves every promo lot that the step did not expire
\* whole, and the balance it leaves still covers them.
WithdrawalSparesPromo ==
    [][(\E k \in DOMAIN wallet'.txns \ DOMAIN wallet.txns :
            wallet'.txns[k].type = "withdrawal")
       => LET kept == Promo(wallet) \ Due(wallet)
          IN  /\ \A g \in kept : wallet'.grants[g] = wallet.grants[g]
              /\ wallet'.balance >= Remaining(wallet, kept)]_vars
-----------------------------------------------------------------------------
\* The pools of money that a wallet stands for.
PoolsOf(W) == [balance |-> W.balance,
               promo |-> Remaining(W, Promo(W)),
               paid |-> Remaining(W, Active(W) \ Promo(W))]

WP == INSTANCE WalletPools WITH pools <- PoolsOf(wallet)

\* Every wallet operation, with the lazy expiry in front of it, the lots in
\* their consumption order and the clawback cascade behind it, is one movement
\* of the money pools: what is proved of WalletPools holds of the wallet.
ImplementsPools == WP!Spec
=============================================================================
