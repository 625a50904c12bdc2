----------------------------- MODULE WalletPools -----------------------------
(***************************************************************************)
(* What the wallet promises about money, without lots, keys or time: a     *)
(* balance and how much of it is set aside in active promo lots and in     *)
(* active paid lots.  Everything else in the balance is base money, which  *)
(* the code derives and never stores.  WalletLedger is proved to implement *)
(* this module.                                                            *)
(*                                                                         *)
(* A movement is a relation between the pools before and after it, and the *)
(* amount that moved is the difference of their balances.  Each movement   *)
(* may be preceded, in the same transaction, by the lazy expiry, which is  *)
(* the same step as voiding: lots are retired and their remainder debited  *)
(* as far as the balance reaches.                                          *)
(***************************************************************************)
EXTENDS Integers

VARIABLE pools          \* [balance, promo, paid]

Pools == [balance : Int, promo : Nat, paid : Nat]

AtLeastZero(a) == IF a < 0 THEN 0 ELSE a
Least(a, b) == IF a < b THEN a ELSE b

Lots(P) == P.promo + P.paid

\* G1: the lots never hold more than the spendable balance.
Covered(P) == Lots(P) <= AtLeastZero(P.balance)

-----------------------------------------------------------------------------
\* expire_due and void_grant: x of promo and y of paid money is retired.
Retire(P, x, y) ==
    [balance |-> P.balance - Least(x + y, AtLeastZero(P.balance)),
     promo |-> P.promo - x, paid |-> P.paid - y]

\* debit and draw_down_usage: the lots pay first, in whichever order they have.
Spends(P, Q) ==
    /\ Q.balance <= P.balance /\ Q.promo <= P.promo /\ Q.paid <= P.paid
    /\ Lots(P) - Lots(Q) = Least(P.balance - Q.balance, Lots(P))

\* withdraw: promo money is not available, and does not pay.
Withdraws(P, Q) ==
    LET a == P.balance - Q.balance
    IN  /\ a >= 0 /\ a <= P.balance - P.promo
        /\ Q.promo = P.promo /\ Q.paid = P.paid - Least(a, P.paid)

\* credit: base money.
Credits(P, Q) == Q.balance >= P.balance /\ Q.promo = P.promo /\ Q.paid = P.paid

\* mint_grant and credit_top_up: a debt is paid off before the lot is filled.
Mints(P, Q) ==
    LET a == Q.balance - P.balance
        lot == a - Least(a, AtLeastZero(-P.balance))
    IN  /\ a >= 0
        /\ \/ Q.promo = P.promo + lot /\ Q.paid = P.paid
           \/ Q.promo = P.promo /\ Q.paid = P.paid + lot

\* refund_usage: up to the headroom goes back into lots.
ReFunds(P, Q) ==
    /\ Q.balance >= P.balance /\ Q.promo >= P.promo /\ Q.paid >= P.paid
    /\ Lots(Q) - Lots(P) <= Least(Q.balance - P.balance,
                                  AtLeastZero(AtLeastZero(Q.balance) - Lots(P)))

\* claw_back_dispute and claw_back_stripe_refund: v of the reversed top-up's
\* lot is voided, then the cascade takes from any lot until they are covered.
ClawsBack(P, Q) ==
    /\ Q.balance <= P.balance /\ Q.promo <= P.promo
    /\ \E v \in 0..Least(P.balance - Q.balance, P.paid) :
         /\ Q.paid <= P.paid - v
         /\ Lots(P) - v - Lots(Q) = AtLeastZero(Lots(P) - v - AtLeastZero(Q.balance))

Moves(P, Q) ==
    \/ Q = P
    \/ Spends(P, Q) \/ Withdraws(P, Q) \/ Credits(P, Q)
    \/ Mints(P, Q) \/ ReFunds(P, Q) \/ ClawsBack(P, Q)

Init == pools = [balance |-> 0, promo |-> 0, paid |-> 0]

\* One transaction: the lots that are due are retired, then money moves.
Transaction(P, Q) ==
    /\ Q \in Pools
    /\ \E x \in 0..P.promo, y \in 0..P.paid : Moves(Retire(P, x, y), Q)

Next == Transaction(pools, pools')

Spec == Init /\ [][Next]_pools

-----------------------------------------------------------------------------
\* G1 of grants.py: no sequence of operations leaves the lots holding more
\* than the spendable balance.
PoolsCovered == Covered(pools)

\* The inductive invariant of the proofs.
PoolsInv == pools \in Pools /\ PoolsCovered
=============================================================================
