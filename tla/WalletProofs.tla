---------------------------- MODULE WalletProofs ----------------------------
(***************************************************************************)
(* Proofs about the wallet: that its lots stay covered, its books balance, *)
(* its refunds converge, it announces each movement once, an expiry keeps  *)
(* it solvent, a withdrawal spares promo money, and every operation is one *)
(* movement of WalletPools, for any amounts and any number of lots, rows   *)
(* and operations.  Proofs about the live balance counter follow them.     *)
(*                                                                         *)
(* The argument goes from the operators up.  The lots are strictly ordered *)
(* and finitely many, so an amount has one fill from them, which pays      *)
(* exactly the amount or empties them.  A wallet is Good when its rows are *)
(* typed, its books balance and its lots are covered.  Each of expire_due, *)
(* consume, the voids, the refund and the clawback takes a Good wallet to  *)
(* a Good one, along a movement of the pools; so does an operation made of *)
(* them, and with it a step of the specification.                          *)
(***************************************************************************)
EXTENDS WalletLedger, LiveBalance, Sums

-----------------------------------------------------------------------------
(* The order of the lots, and filling an amount from them.                  *)

Kinds == {"promo", "paid"}

LotType == [kind : Kinds, granted : Nat, remaining : Nat, expired : Nat, voided : Nat,
            expires : Nat, status : Statuses, ref : GrantKeys \cup Attempts, born : Nat]

\* The rows of CreditGrant: only an active lot holds money and an active lot
\* always does, and the lots were created one after the other.
LotsTyped(W) ==
    /\ IsFiniteSet(DOMAIN W.grants)
    /\ W.grants \in [DOMAIN W.grants -> LotType]
    /\ \A g \in DOMAIN W.grants :
         /\ W.grants[g].remaining <= W.grants[g].granted
         /\ (W.grants[g].status = "active") <=> (W.grants[g].remaining > 0)
         /\ W.grants[g].born < Cardinality(DOMAIN W.grants)
    /\ \A g, h \in DOMAIN W.grants : W.grants[g].born = W.grants[h].born => g = h

\* The lots are ordered strictly and totally.
LEMMA PrecedesOrders ==
    ASSUME NEW W, LotsTyped(W)
    PROVE  /\ \A g \in DOMAIN W.grants : ~Precedes(W, g, g)
           /\ \A g, h \in DOMAIN W.grants : g # h => Precedes(W, g, h) \/ Precedes(W, h, g)
           /\ \A g, h \in DOMAIN W.grants : Precedes(W, g, h) => ~Precedes(W, h, g)
           /\ \A g, h, i \in DOMAIN W.grants :
                Precedes(W, g, h) /\ Precedes(W, h, i) => Precedes(W, g, i)
  <1>1. \A g \in DOMAIN W.grants :
          /\ W.grants[g].expires \in Nat /\ W.grants[g].born \in Nat
          /\ W.grants[g].kind \in Kinds
    BY DEF LotsTyped, LotType
  <1>2. \A g, h \in DOMAIN W.grants : W.grants[g].born = W.grants[h].born => g = h
    BY DEF LotsTyped
  <1> QED BY <1>1, <1>2 DEF Precedes, Kinds

\* Of finitely many lots one comes last.
LEMMA LastLot ==
    ASSUME NEW W, LotsTyped(W), NEW D \in SUBSET DOMAIN W.grants, D # {}
    PROVE  \E m \in D : \A g \in D : g # m => Precedes(W, g, m)
  <1> DEFINE X == {T \in SUBSET D : T # {} => \E m \in T : \A g \in T : g # m => Precedes(W, g, m)}
  <1>0. IsFiniteSet(D)
    BY FS_Subset DEF LotsTyped
  <1>1. ASSUME NEW T \in SUBSET D, \A U \in SUBSET T : U # T => U \in X PROVE T \in X
    <2>1. SUFFICES ASSUME NEW x \in T
                   PROVE  \E m \in T : \A g \in T : g # m => Precedes(W, g, m)
      OBVIOUS
    <2>2. CASE T \ {x} = {}
      BY <2>2
    <2>3. CASE T \ {x} # {}
      <3>1. T \ {x} \in X
        BY <1>1
      <3>2. PICK m \in T \ {x} : \A g \in T \ {x} : g # m => Precedes(W, g, m)
        BY <2>3, <3>1
      <3>3. CASE Precedes(W, x, m)
        BY <3>2, <3>3
      <3>4. CASE Precedes(W, m, x)
        BY <3>2, <3>4, PrecedesOrders
      <3> QED BY <3>3, <3>4, PrecedesOrders
    <2> QED BY <2>2, <2>3
  <1> HIDE DEF X
  <1>2. \A T \in SUBSET D : T \in X
    BY <1>0, <1>1, SubsetInduction
  <1> QED BY <1>2 DEF X

\* A loop that takes min(cap, left) from each lot in turn takes the amount, or
\* all there is when that is less.
LEMMA WaterfallFills ==
    ASSUME NEW W, LotsTyped(W), NEW caps, NEW amount \in Int,
           DOMAIN caps \subseteq DOMAIN W.grants, \A g \in DOMAIN caps : caps[g] \in Nat
    PROVE  LET take == Waterfall(W, caps, amount)
           IN  /\ DOMAIN take = DOMAIN caps
               /\ \A g \in DOMAIN caps : take[g] \in 0..caps[g]
               /\ SumOver(DOMAIN caps, take) =
                    Least(AtLeastZero(amount), SumOver(DOMAIN caps, caps))
  <1> DEFINE D == DOMAIN caps
             C(T) == SumFunctionOnSet(caps, T)
             Ahead(T, g) == {h \in T : Precedes(W, h, g)}
             fill(T) == [g \in T |-> Least(caps[g], AtLeastZero(amount - C(Ahead(T, g))))]
             F(T) == SumFunctionOnSet(fill(T), T)
             X == {T \in SUBSET D : F(T) = Least(AtLeastZero(amount), C(T))}
  <1>0. IsFiniteSet(D) /\ \A T \in SUBSET D : IsFiniteSet(T)
    BY FS_Subset DEF LotsTyped
  <1>1. \A T \in SUBSET D : C(T) \in Nat
    <2> SUFFICES ASSUME NEW T \in SUBSET D PROVE C(T) \in Nat
      OBVIOUS
    <2> QED BY <1>0, SumNat
  <1>2. ASSUME NEW T \in SUBSET D, NEW g \in T PROVE fill(T)[g] \in 0..caps[g]
    <2>1. C(Ahead(T, g)) \in Nat /\ caps[g] \in Nat
      BY <1>1
    <2> HIDE DEF C, Ahead
    <2> QED BY <2>1 DEF Least, AtLeastZero
  <1>3. ASSUME NEW T \in SUBSET D, \A U \in SUBSET T : U # T => U \in X PROVE T \in X
    <2>1. CASE T = {}
      <3>1. C(T) = 0 /\ F(T) = 0
        BY <2>1, SumEmpty
      <3> QED BY <3>1 DEF Least, AtLeastZero
    <2>2. CASE T # {}
      <3>1. PICK m \in T : \A g \in T : g # m => Precedes(W, g, m)
        BY <2>2, LastLot
      <3> DEFINE R == T \ {m}
      <3>2. Ahead(T, m) = R
        BY <3>1, PrecedesOrders
      <3>3. ASSUME NEW g \in R PROVE Ahead(T, g) = Ahead(R, g)
        BY <3>1, PrecedesOrders
      <3>4. \A g \in R : fill(T)[g] \in Int /\ fill(T)[g] = fill(R)[g]
        <4> SUFFICES ASSUME NEW g \in R
                     PROVE  fill(T)[g] \in Int /\ fill(T)[g] = fill(R)[g]
          OBVIOUS
        <4>1. fill(T)[g] \in 0..caps[g] /\ caps[g] \in Nat
          BY <1>2
        <4>2. C(Ahead(T, g)) = C(Ahead(R, g))
          BY <3>3
        <4>3. /\ fill(T)[g] = Least(caps[g], AtLeastZero(amount - C(Ahead(T, g))))
              /\ fill(R)[g] = Least(caps[g], AtLeastZero(amount - C(Ahead(R, g))))
          OBVIOUS
        <4> HIDE DEF fill, C, Ahead
        <4> QED BY <4>1, <4>2, <4>3
      <3>5. IsFiniteSet(T) /\ IsFiniteSet(R)
        BY <1>0
      <3>6. SumFunctionOnSet(fill(T), R) = F(R)
        BY <3>4, <3>5, SumSame
      <3>7. F(T) = fill(T)[m] + SumFunctionOnSet(fill(T), R)
        <4>1. \A g \in T : fill(T)[g] \in Int
          BY <1>2
        <4> QED BY <3>5, <4>1, SumTakes
      <3>8. fill(T)[m] = Least(caps[m], AtLeastZero(amount - C(R)))
        BY <3>2
      <3>9. C(T) = caps[m] + C(R)
        BY <3>5, SumTakes
      <3>10. C(R) \in Nat /\ caps[m] \in Nat
        BY <1>1
      <3>11. F(R) = Least(AtLeastZero(amount), C(R))
        BY <1>3
      <3> HIDE DEF F, C, R, fill
      <3>12. F(T) = Least(AtLeastZero(amount), C(T))
        BY <3>6, <3>7, <3>8, <3>9, <3>10, <3>11 DEF Least, AtLeastZero
      <3> QED BY <3>12
    <2> QED BY <2>1, <2>2
  <1>4. F(D) = Least(AtLeastZero(amount), C(D))
    <2> HIDE DEF X
    <2>1. \A T \in SUBSET D : T \in X
      BY <1>0, <1>3, SubsetInduction
    <2> QED BY <2>1 DEF X
  <1>5. Waterfall(W, caps, amount) = fill(D)
    BY DEF Waterfall, SumOver
  <1>6. DOMAIN fill(D) = D /\ \A g \in D : fill(D)[g] \in 0..caps[g]
    BY <1>2
  <1> HIDE DEF fill
  <1> QED BY <1>4, <1>5, <1>6 DEF SumOver

-----------------------------------------------------------------------------
(* The rows of a wallet.                                                    *)

Fields == {"balance", "grants", "txns", "allocs"}

RowsTyped(W) ==
    IsFiniteSet(DOMAIN W.txns) /\ \A k \in DOMAIN W.txns : W.txns[k].amount \in Int

SliceTypes == {"usage", "withdrawal", "clawback", "overage_recoup"}

SlicesTyped(W) ==
    /\ IsFiniteSet(DOMAIN W.allocs)
    /\ \A p \in DOMAIN W.allocs :
         p = <<p[1], p[2]>> /\ p[1] \in DOMAIN W.grants /\ p[2] \in DOMAIN W.txns
    /\ W.allocs \in [DOMAIN W.allocs -> [amount : Nat, refunded : Nat, type : SliceTypes]]
    /\ \A p \in DOMAIN W.allocs : W.allocs[p].refunded <= W.allocs[p].amount

\* A lot has the row it was minted with; the row of its expiry says that it
\* expired, the row of a deduction has the event's cost, and a top-up mints a
\* paid lot.
KeysKept(W) ==
    /\ DOMAIN W.grants \subseteq DOMAIN W.txns
    /\ \A g : <<"expiry", g>> \in DOMAIN W.txns =>
                g \in DOMAIN W.grants /\ W.grants[g].status = "expired"
    /\ \A e \in Events : <<"usage_deduction", e>> \in DOMAIN W.txns =>
                W.txns[<<"usage_deduction", e>>].amount = -Cost[e]
    /\ \A a \in Attempts : SourceLot(a) \in DOMAIN W.grants =>
                W.grants[SourceLot(a)].kind = "paid"

Typed(W) ==
    /\ DOMAIN W = Fields /\ W.balance \in Int
    /\ LotsTyped(W) /\ RowsTyped(W) /\ SlicesTyped(W) /\ KeysKept(W)

\* What every operation keeps of the rows.
Sound(W) == Typed(W) /\ LedgerAddsUp(W) /\ LotsAddUp(W) /\ SlicesWithinRows(W)

\* What adding rows to a table does.
LEMMA WithRows ==
    ASSUME NEW table, NEW rows
    PROVE  /\ DOMAIN With(table, rows) = DOMAIN table \cup DOMAIN rows
           /\ \A k \in DOMAIN rows : With(table, rows)[k] = rows[k]
           /\ \A k \in DOMAIN table \ DOMAIN rows : With(table, rows)[k] = table[k]
  BY DEF With

\* What Post changes.
LEMMA PostFields ==
    ASSUME NEW W, DOMAIN W = Fields, NEW key, NEW type, NEW amount, NEW ref
    PROVE  LET P == Post(W, key, type, amount, ref)
           IN  /\ DOMAIN P = Fields /\ P.balance = W.balance + amount
               /\ P.grants = W.grants /\ P.allocs = W.allocs
               /\ DOMAIN P.txns = DOMAIN W.txns \cup {key}
               /\ P.txns[key] = [type |-> type, amount |-> amount, ref |-> ref]
               /\ \A k \in DOMAIN W.txns : k # key => P.txns[k] = W.txns[k]
  <1> DEFINE r == [k \in {key} |-> [type |-> type, amount |-> amount, ref |-> ref]]
             t == With(W.txns, r)
             P == Post(W, key, type, amount, ref)
  <1>1. P = [W EXCEPT !.balance = W.balance + amount, !.txns = t]
    BY DEF Post
  <1> HIDE DEF t, P
  <1>2. /\ DOMAIN P = Fields /\ P.balance = W.balance + amount
        /\ P.grants = W.grants /\ P.allocs = W.allocs /\ P.txns = t
    BY <1>1 DEF Fields
  <1>3. DOMAIN r = {key} /\ r[key] = [type |-> type, amount |-> amount, ref |-> ref]
    OBVIOUS
  <1> HIDE DEF r
  <1>4. /\ DOMAIN t = DOMAIN W.txns \cup DOMAIN r
        /\ \A k \in DOMAIN r : t[k] = r[k]
        /\ \A k \in DOMAIN W.txns \ DOMAIN r : t[k] = W.txns[k]
    BY ONLY WithRows DEF t
  <1>5. /\ DOMAIN t = DOMAIN W.txns \cup {key}
        /\ t[key] = [type |-> type, amount |-> amount, ref |-> ref]
        /\ \A k \in DOMAIN W.txns : k # key => t[k] = W.txns[k]
    BY <1>3, <1>4
  <1> QED BY <1>2, <1>5 DEF P

\* A wallet and another that has the same lots and slices, and more rows.
LEMMA MoreRows ==
    ASSUME NEW W, Sound(W), NEW P, NEW new, IsFiniteSet(new),
           DOMAIN P = Fields,
           P.grants = W.grants, P.allocs = W.allocs,
           new \cap DOMAIN W.txns = {}, DOMAIN P.txns = DOMAIN W.txns \cup new,
           \A k \in DOMAIN W.txns : P.txns[k] = W.txns[k],
           \A k \in new : P.txns[k].amount \in Int,
           P.balance = W.balance + SumOver(new, AmountsOf(P)),
           \A g : <<"expiry", g>> \in new => g \in DOMAIN W.grants /\ W.grants[g].status = "expired",
           \A e \in Events : <<"usage_deduction", e>> \in new =>
                P.txns[<<"usage_deduction", e>>].amount = -Cost[e]
    PROVE  Sound(P) /\ \A k \in new : SlicesFor(P, k) = {}
  <1> DEFINE D == DOMAIN W.txns
  <1>1. IsFiniteSet(D) /\ IsFiniteSet(D \cup new)
    BY FS_Union DEF Sound, Typed, RowsTyped
  <1>2. \A k \in DOMAIN P.txns : P.txns[k].amount \in Int
    BY DEF Sound, Typed, RowsTyped
  <1>3. RowsTyped(P) /\ LotsTyped(P) /\ SlicesTyped(P) /\ KeysKept(P)
    <2>1. RowsTyped(P)
      BY <1>1, <1>2 DEF RowsTyped
    <2>2. LotsTyped(P)
      BY DEF Sound, Typed, LotsTyped
    <2>3. SlicesTyped(P)
      <3>1. SlicesTyped(W)
        BY DEF Sound, Typed
      <3> QED BY <3>1 DEF SlicesTyped
    <2>4. KeysKept(P)
      <3>1. KeysKept(W)
        BY DEF Sound, Typed
      <3> QED BY <3>1 DEF KeysKept
    <2> QED BY <2>1, <2>2, <2>3, <2>4
  <1>4. SumOver(DOMAIN P.txns, AmountsOf(P)) = SumOver(D, AmountsOf(P)) + SumOver(new, AmountsOf(P))
    <2>1. \A k \in D \cup new : AmountsOf(P)[k] \in Int
      BY <1>2 DEF AmountsOf
    <2> QED BY <1>1, <2>1, SumUnion DEF SumOver
  <1>5. SumOver(D, AmountsOf(P)) = SumOver(D, AmountsOf(W))
    <2>1. \A k \in D : AmountsOf(P)[k] \in Int /\ AmountsOf(P)[k] = AmountsOf(W)[k]
      BY <1>2 DEF AmountsOf
    <2> QED BY <1>1, <2>1, SumSame DEF SumOver
  <1>6. LedgerAddsUp(P)
    BY <1>4, <1>5 DEF LedgerAddsUp, Sound
  <1>7. P.balance \in Int
    <2>1. SumOver(new, AmountsOf(P)) \in Int
      <3>1. \A k \in new : AmountsOf(P)[k] \in Int
        BY <1>2 DEF AmountsOf
      <3> QED BY <3>1, SumTakes DEF SumOver
    <2> QED BY <2>1 DEF Sound, Typed
  <1>8. LotsAddUp(P)
    BY DEF Sound, LotsAddUp, SlicesOf, Spent
  <1>9. \A k \in new : SlicesFor(P, k) = {}
    <2>1. SlicesTyped(W)
      BY DEF Sound, Typed
    <2>2. \A p \in DOMAIN W.allocs : p[2] \in D
      BY <2>1 DEF SlicesTyped
    <2> QED BY <2>2 DEF SlicesFor
  <1>10. SlicesWithinRows(P)
    <2> SUFFICES ASSUME NEW k \in DOMAIN P.txns
                 PROVE  SumOver(SlicesFor(P, k), Paid(P)) <= Magnitude(P.txns[k].amount)
      BY DEF SlicesWithinRows
    <2>1. CASE k \in D
      <3>1. SlicesFor(P, k) = SlicesFor(W, k) /\ Paid(P) = Paid(W) /\ P.txns[k] = W.txns[k]
        BY <2>1 DEF SlicesFor, Paid
      <3> QED BY <2>1, <3>1 DEF Sound, SlicesWithinRows
    <2>2. CASE k \in new
      <3>1. SumOver(SlicesFor(P, k), Paid(P)) = 0
        BY <1>9, <2>2, SumEmpty DEF SumOver
      <3> QED BY <1>2, <3>1 DEF Magnitude
    <2> QED BY <2>1, <2>2
  <1> QED BY <1>3, <1>6, <1>7, <1>8, <1>9, <1>10 DEF Sound, Typed

\* The winning branch of _execute keeps the rows sound.
LEMMA PostSound ==
    ASSUME NEW W, Sound(W), NEW key, key \notin DOMAIN W.txns, NEW type, NEW amount \in Int, NEW ref,
           \A g : key # <<"expiry", g>>,
           \A e \in Events : key = <<"usage_deduction", e>> => amount = -Cost[e]
    PROVE  Sound(Post(W, key, type, amount, ref))
           /\ SlicesFor(Post(W, key, type, amount, ref), key) = {}
  <1> DEFINE P == Post(W, key, type, amount, ref)
  <1>1. DOMAIN W = Fields
    BY DEF Sound, Typed
  <1>2. /\ DOMAIN P = Fields /\ P.balance = W.balance + amount
        /\ P.grants = W.grants /\ P.allocs = W.allocs
        /\ DOMAIN P.txns = DOMAIN W.txns \cup {key}
        /\ P.txns[key] = [type |-> type, amount |-> amount, ref |-> ref]
        /\ \A k \in DOMAIN W.txns : k # key => P.txns[k] = W.txns[k]
    BY ONLY <1>1, PostFields
  <1> HIDE DEF P
  <1>6. P.txns[key].amount = amount /\ \A k \in DOMAIN W.txns : P.txns[k] = W.txns[k]
    BY <1>2
  <1>3. SumOver({key}, AmountsOf(P)) = amount
    <2>1. AmountsOf(P)[key] = amount
      BY <1>2 DEF AmountsOf
    <2>2. \A y \in {} \cup {key} : AmountsOf(P)[y] \in Int
      BY <2>1
    <2>3. {} \cup {key} = {key}
      OBVIOUS
    <2>4. SumFunctionOnSet(AmountsOf(P), {} \cup {key}) =
            SumFunctionOnSet(AmountsOf(P), {}) + AmountsOf(P)[key]
      BY <2>2, SumAdds, FS_EmptySet
    <2>5. SumFunctionOnSet(AmountsOf(P), {}) = 0
      BY SumEmpty
    <2> QED BY <2>1, <2>3, <2>4, <2>5 DEF SumOver
  <1>4. IsFiniteSet({key})
    BY FS_Singleton
  <1>5. Sound(P) /\ \A k \in {key} : SlicesFor(P, k) = {}
    BY <1>2, <1>3, <1>4, <1>6, MoreRows
  <1> QED BY <1>5 DEF P

-----------------------------------------------------------------------------
(* The pools.                                                               *)

OfKind(W, k) ==
    [g \in DOMAIN W.grants |-> IF W.grants[g].kind = k THEN W.grants[g].remaining ELSE 0]

\* What the lots of a kind hold.  A lot that is not active holds nothing.
Held(W, k) == SumOver(DOMAIN W.grants, OfKind(W, k))

LEMMA LotFacts ==
    ASSUME NEW W, LotsTyped(W), NEW g \in DOMAIN W.grants
    PROVE  /\ W.grants[g] \in LotType
           /\ W.grants[g].kind \in Kinds /\ W.grants[g].status \in Statuses
           /\ W.grants[g].granted \in Nat /\ W.grants[g].remaining \in Nat
           /\ W.grants[g].expired \in Nat /\ W.grants[g].voided \in Nat
           /\ W.grants[g].expires \in Nat /\ W.grants[g].born \in Nat
           /\ W.grants[g].remaining <= W.grants[g].granted
           /\ (W.grants[g].status = "active") <=> (W.grants[g].remaining > 0)
           /\ g \notin Active(W) => W.grants[g].remaining = 0
  <1>1. W.grants[g] \in LotType
    BY DEF LotsTyped
  <1>2. /\ W.grants[g].remaining <= W.grants[g].granted
        /\ (W.grants[g].status = "active") <=> (W.grants[g].remaining > 0)
    BY DEF LotsTyped
  <1> QED BY <1>1, <1>2 DEF LotType, Active

LEMMA PoolSums ==
    ASSUME NEW W, LotsTyped(W)
    PROVE  /\ Held(W, "promo") \in Nat /\ Held(W, "paid") \in Nat
           /\ Remaining(W, Promo(W)) = Held(W, "promo")
           /\ Remaining(W, Active(W) \ Promo(W)) = Held(W, "paid")
           /\ Remaining(W, Active(W)) = Held(W, "promo") + Held(W, "paid")
  <1> DEFINE D == DOMAIN W.grants
  <1>1. IsFiniteSet(D)
    BY DEF LotsTyped
  <1>2. ASSUME NEW S \in SUBSET D, NEW k, \A g \in S : W.grants[g].kind = k,
               \A g \in D \ S : W.grants[g].kind = k => g \notin Active(W)
        PROVE  Remaining(W, S) = Held(W, k)
    <2>1. \A g \in S : RemainingOf(W, S)[g] \in Int /\ OfKind(W, k)[g] = RemainingOf(W, S)[g]
      BY <1>2, LotFacts DEF RemainingOf, OfKind
    <2>2. \A g \in D \ S : OfKind(W, k)[g] = 0
      BY <1>2, LotFacts DEF OfKind
    <2> QED BY <1>1, <2>1, <2>2, SumOnPart DEF Remaining, Held, SumOver
  <1>3. ASSUME NEW k PROVE Held(W, k) \in Nat
    <2>1. \A g \in D : OfKind(W, k)[g] \in Nat
      BY LotFacts DEF OfKind
    <2> QED BY <1>1, <2>1, SumNat DEF Held, SumOver
  <1>4. /\ Promo(W) \subseteq D /\ Active(W) \subseteq D /\ Promo(W) \subseteq Active(W)
        /\ \A g \in Promo(W) : W.grants[g].kind = "promo"
        /\ \A g \in D \ Promo(W) : W.grants[g].kind = "promo" => g \notin Active(W)
    BY DEF Promo, Active
  <1>5. /\ \A g \in Active(W) \ Promo(W) : W.grants[g].kind = "paid"
        /\ \A g \in D \ (Active(W) \ Promo(W)) : W.grants[g].kind = "paid" => g \notin Active(W)
    BY LotFacts DEF Promo, Active, Kinds
  <1>6. Remaining(W, Promo(W)) = Held(W, "promo")
    BY <1>2, <1>4
  <1>7. Remaining(W, Active(W) \ Promo(W)) = Held(W, "paid")
    BY <1>2, <1>4, <1>5
  <1>8. Remaining(W, Active(W)) = Remaining(W, Promo(W)) + Remaining(W, Active(W) \ Promo(W))
    <2> DEFINE r == RemainingOf(W, Active(W))
    <2>1. \A g \in Active(W) : r[g] \in Int
      BY <1>4, LotFacts DEF RemainingOf
    <2>2. IsFiniteSet(Active(W)) /\ IsFiniteSet(Promo(W)) /\ IsFiniteSet(Active(W) \ Promo(W))
      BY <1>1, <1>4, FS_Subset
    <2>3. SumFunctionOnSet(r, Active(W)) =
            SumFunctionOnSet(r, Promo(W)) + SumFunctionOnSet(r, Active(W) \ Promo(W))
      BY <1>4, <2>1, <2>2, SumParts
    <2>4. SumFunctionOnSet(r, Promo(W)) = SumFunctionOnSet(RemainingOf(W, Promo(W)), Promo(W))
      <3>1. \A g \in Promo(W) : r[g] \in Int /\ r[g] = RemainingOf(W, Promo(W))[g]
        BY <1>4, <2>1 DEF RemainingOf
      <3> QED BY <2>2, <3>1, SumSame
    <2>5. SumFunctionOnSet(r, Active(W) \ Promo(W)) =
            SumFunctionOnSet(RemainingOf(W, Active(W) \ Promo(W)), Active(W) \ Promo(W))
      <3>1. \A g \in Active(W) \ Promo(W) : r[g] \in Int /\ r[g] = RemainingOf(W, Active(W) \ Promo(W))[g]
        BY <1>4, <2>1 DEF RemainingOf
      <3> QED BY <2>2, <3>1, SumSame
    <2> QED BY <2>3, <2>4, <2>5 DEF Remaining, SumOver
  <1> QED BY <1>3, <1>6, <1>7, <1>8

\* V is W with take[g] less in each lot g of S.
Loses(W, V, S, take) ==
    /\ LotsTyped(W) /\ LotsTyped(V) /\ DOMAIN V.grants = DOMAIN W.grants
    /\ S \in SUBSET DOMAIN W.grants
    /\ \A g \in DOMAIN W.grants : V.grants[g].kind = W.grants[g].kind
    /\ \A g \in S : take[g] \in Nat
                    /\ V.grants[g].remaining = W.grants[g].remaining - take[g]
    /\ \A g \in DOMAIN W.grants \ S : V.grants[g].remaining = W.grants[g].remaining

\* When lots lose money, so do the pools of their kinds.
LEMMA LotsLose ==
    ASSUME NEW W, NEW V, NEW S, NEW take, Loses(W, V, S, take)
    PROVE  \E x, y \in Nat :
              /\ Held(V, "promo") = Held(W, "promo") - x
              /\ Held(V, "paid") = Held(W, "paid") - y
              /\ x + y = SumOver(S, take)
              /\ (\A g \in S : W.grants[g].kind = "paid") => x = 0
              /\ (\A g \in S : W.grants[g].kind = "promo") => y = 0
  <1>0. /\ LotsTyped(W) /\ LotsTyped(V) /\ DOMAIN V.grants = DOMAIN W.grants
        /\ S \in SUBSET DOMAIN W.grants
        /\ \A g \in DOMAIN W.grants : V.grants[g].kind = W.grants[g].kind
        /\ \A g \in S : take[g] \in Nat
                        /\ V.grants[g].remaining = W.grants[g].remaining - take[g]
        /\ \A g \in DOMAIN W.grants \ S : V.grants[g].remaining = W.grants[g].remaining
    BY DEF Loses
  <1> USE <1>0
  <1> DEFINE D == DOMAIN W.grants
             Of(k) == {g \in S : W.grants[g].kind = k}
             Lost(k) == SumFunctionOnSet(take, Of(k))
             d(k) == [g \in D |-> IF g \in Of(k) THEN take[g] ELSE 0]
  <1>1. IsFiniteSet(D) /\ IsFiniteSet(S) /\ \A k : IsFiniteSet(Of(k))
    BY FS_Subset DEF LotsTyped
  <1>2. ASSUME NEW k PROVE Held(W, k) = Held(V, k) + Lost(k) /\ Lost(k) \in Nat
    <2>1. \A g \in D : /\ OfKind(V, k)[g] \in Int /\ d(k)[g] \in Int
                       /\ OfKind(W, k)[g] = OfKind(V, k)[g] + d(k)[g]
      BY LotFacts DEF OfKind
    <2>2. Held(W, k) = Held(V, k) + SumFunctionOnSet(d(k), D)
      <3>1. Held(W, k) = SumFunctionOnSet(OfKind(W, k), D)
            /\ Held(V, k) = SumFunctionOnSet(OfKind(V, k), D)
        BY DEF Held, SumOver
      <3> HIDE DEF d
      <3>2. SumFunctionOnSet(OfKind(W, k), D) =
              SumFunctionOnSet(OfKind(V, k), D) + SumFunctionOnSet(d(k), D)
        BY <1>1, <2>1, SumLinear
      <3> QED BY <3>1, <3>2
    <2>3. SumFunctionOnSet(d(k), D) = Lost(k)
      BY <1>1, SumOnPart
    <2>4. Lost(k) \in Nat
      BY <1>1, SumNat
    <2> QED BY <2>2, <2>3, <2>4
  <1>3. Lost("promo") + Lost("paid") = SumOver(S, take)
    <2>1. S \ Of("promo") = Of("paid")
      BY LotFacts DEF Kinds
    <2>2. SumFunctionOnSet(take, S) = Lost("promo") + SumFunctionOnSet(take, S \ Of("promo"))
      BY <1>1, SumParts
    <2> QED BY <2>1, <2>2 DEF SumOver
  <1>4. /\ (\A g \in S : W.grants[g].kind = "paid") => Lost("promo") = 0
        /\ (\A g \in S : W.grants[g].kind = "promo") => Lost("paid") = 0
    <2>1. (\A g \in S : W.grants[g].kind = "paid") => Of("promo") = {}
      OBVIOUS
    <2>2. (\A g \in S : W.grants[g].kind = "promo") => Of("paid") = {}
      OBVIOUS
    <2> QED BY <2>1, <2>2, SumEmpty
  <1>5. /\ Held(W, "promo") \in Nat /\ Held(W, "paid") \in Nat
        /\ Held(V, "promo") \in Nat /\ Held(V, "paid") \in Nat
    BY PoolSums
  <1>6. /\ Lost("promo") \in Nat /\ Lost("paid") \in Nat
        /\ Held(V, "promo") = Held(W, "promo") - Lost("promo")
        /\ Held(V, "paid") = Held(W, "paid") - Lost("paid")
    <2> HIDE DEF Lost
    <2> QED BY <1>2, <1>5
  <1> HIDE DEF Lost
  <1> QED BY <1>3, <1>4, <1>6

-----------------------------------------------------------------------------
(* Money moves between a lot and what it paid for.                          *)

\* Lots that keep what they were granted and when, in a wallet with the same
\* rows.
Reshaped(W, V) ==
    /\ DOMAIN V = Fields /\ V.balance = W.balance /\ V.txns = W.txns
    /\ DOMAIN V.grants = DOMAIN W.grants /\ V.grants \in [DOMAIN W.grants -> LotType]
    /\ \A g \in DOMAIN W.grants :
         LET x == W.grants[g]
             y == V.grants[g]
         IN  /\ y.kind = x.kind /\ y.granted = x.granted /\ y.born = x.born
             /\ y.remaining <= y.granted
             /\ (y.status = "active") <=> (y.remaining > 0)
             /\ x.status = "expired" => y.status = "expired"

LEMMA ReshapedTyped ==
    ASSUME NEW W, Sound(W), NEW V, Reshaped(W, V)
    PROVE  /\ DOMAIN V = Fields /\ V.balance \in Int /\ LotsTyped(V) /\ RowsTyped(V) /\ KeysKept(V)
           /\ LedgerAddsUp(V)
  <1>1. LotsTyped(W) /\ RowsTyped(W) /\ KeysKept(W) /\ LedgerAddsUp(W) /\ W.balance \in Int
    BY DEF Sound, Typed
  <1>2. LotsTyped(V)
    <2>1. IsFiniteSet(DOMAIN V.grants) /\ V.grants \in [DOMAIN V.grants -> LotType]
      BY <1>1 DEF LotsTyped, Reshaped
    <2>2. \A g \in DOMAIN V.grants :
            /\ V.grants[g].remaining <= V.grants[g].granted
            /\ (V.grants[g].status = "active") <=> (V.grants[g].remaining > 0)
            /\ V.grants[g].born < Cardinality(DOMAIN V.grants)
      BY <1>1 DEF LotsTyped, Reshaped
    <2>3. \A g, h \in DOMAIN V.grants : V.grants[g].born = V.grants[h].born => g = h
      BY <1>1 DEF LotsTyped, Reshaped
    <2> QED BY <2>1, <2>2, <2>3 DEF LotsTyped
  <1>3. KeysKept(V)
    BY <1>1 DEF KeysKept, Reshaped
  <1>4. RowsTyped(V) /\ LedgerAddsUp(V)
    BY <1>1 DEF RowsTyped, Reshaped, LedgerAddsUp, AmountsOf
  <1> QED BY <1>1, <1>2, <1>3, <1>4 DEF Reshaped

\* The slices of a lot and of a row are finitely many amounts.
LEMMA SliceFacts ==
    ASSUME NEW W, SlicesTyped(W)
    PROVE  /\ \A p \in DOMAIN W.allocs :
                /\ W.allocs[p].amount \in Nat /\ W.allocs[p].refunded \in Nat
                /\ W.allocs[p].type \in SliceTypes
                /\ W.allocs[p].refunded <= W.allocs[p].amount
                /\ Paid(W)[p] = W.allocs[p].amount
                /\ Spent(W)[p] = W.allocs[p].amount - W.allocs[p].refunded
                /\ Paid(W)[p] \in Nat /\ Spent(W)[p] \in Nat
           /\ \A g : IsFiniteSet(SlicesOf(W, g)) /\ SumOver(SlicesOf(W, g), Spent(W)) \in Nat
           /\ \A k : IsFiniteSet(SlicesFor(W, k)) /\ SumOver(SlicesFor(W, k), Paid(W)) \in Nat
  <1>1. \A p \in DOMAIN W.allocs :
            W.allocs[p] \in [amount : Nat, refunded : Nat, type : SliceTypes]
            /\ W.allocs[p].refunded <= W.allocs[p].amount
    BY DEF SlicesTyped
  <1>2. \A p \in DOMAIN W.allocs :
            /\ W.allocs[p].amount \in Nat /\ W.allocs[p].refunded \in Nat
            /\ W.allocs[p].type \in SliceTypes
            /\ W.allocs[p].refunded <= W.allocs[p].amount
            /\ Paid(W)[p] = W.allocs[p].amount
            /\ Spent(W)[p] = W.allocs[p].amount - W.allocs[p].refunded
            /\ Paid(W)[p] \in Nat /\ Spent(W)[p] \in Nat
    BY <1>1 DEF Paid, Spent
  <1>3. IsFiniteSet(DOMAIN W.allocs)
    BY DEF SlicesTyped
  <1>4. /\ \A g : IsFiniteSet(SlicesOf(W, g)) /\ SlicesOf(W, g) \subseteq DOMAIN W.allocs
        /\ \A k : IsFiniteSet(SlicesFor(W, k)) /\ SlicesFor(W, k) \subseteq DOMAIN W.allocs
    BY <1>3, FS_Subset DEF SlicesOf, SlicesFor
  <1>5. \A g : SumOver(SlicesOf(W, g), Spent(W)) \in Nat
    BY <1>2, <1>4, SumNat DEF SumOver
  <1>6. \A k : SumOver(SlicesFor(W, k), Paid(W)) \in Nat
    BY <1>2, <1>4, SumNat DEF SumOver
  <1> QED BY <1>2, <1>4, <1>5, <1>6

\* Money that a lot loses to expiry or a void, with no slice for it.
LEMMA RetiredSound ==
    ASSUME NEW W, Sound(W), NEW V, Reshaped(W, V), V.allocs = W.allocs,
           \A g \in DOMAIN W.grants :
             V.grants[g].remaining + V.grants[g].expired + V.grants[g].voided =
               W.grants[g].remaining + W.grants[g].expired + W.grants[g].voided
    PROVE  Sound(V)
  <1>1. /\ DOMAIN V = Fields /\ V.balance \in Int /\ LotsTyped(V) /\ RowsTyped(V) /\ KeysKept(V)
        /\ LedgerAddsUp(V)
    BY ReshapedTyped
  <1>2. SlicesTyped(V)
    BY DEF Sound, Typed, SlicesTyped, Reshaped
  <1>3. LotsAddUp(V)
    <2> SUFFICES ASSUME NEW g \in DOMAIN V.grants
                 PROVE  V.grants[g].granted = V.grants[g].remaining
                          + SumOver(SlicesOf(V, g), Spent(V))
                          + V.grants[g].expired + V.grants[g].voided
      BY DEF LotsAddUp
    <2> DEFINE s == SumOver(SlicesOf(W, g), Spent(W))
    <2>1. SlicesOf(V, g) = SlicesOf(W, g) /\ Spent(V) = Spent(W)
      BY DEF SlicesOf, Spent
    <2>2. g \in DOMAIN W.grants /\ LotsTyped(W)
      BY DEF Reshaped, Sound, Typed
    <2>3. W.grants[g].granted = W.grants[g].remaining + s
            + W.grants[g].expired + W.grants[g].voided
      BY <2>2 DEF Sound, LotsAddUp
    <2>4. s \in Int
      BY SliceFacts DEF Sound, Typed
    <2>5. V.grants[g].granted = W.grants[g].granted
      BY <2>2 DEF Reshaped
    <2> HIDE DEF s
    <2>6. V.grants[g].granted = V.grants[g].remaining + s
            + V.grants[g].expired + V.grants[g].voided
      BY <1>1, <2>2, <2>3, <2>4, <2>5, LotFacts
    <2> QED BY <2>1, <2>6 DEF s
  <1>4. SlicesWithinRows(V)
    BY DEF Sound, SlicesWithinRows, SlicesFor, Paid, Reshaped
  <1> QED BY <1>1, <1>2, <1>3, <1>4 DEF Sound, Typed

-----------------------------------------------------------------------------
(* What the four changes of a lot keep.                                     *)

LEMMA LotExpires ==
    ASSUME NEW lot \in LotType
    PROVE  LET new == LotExpired(lot)
           IN  /\ new \in LotType /\ new.kind = lot.kind /\ new.granted = lot.granted
               /\ new.born = lot.born /\ new.remaining = 0 /\ new.status = "expired"
               /\ new.expired = lot.expired + lot.remaining /\ new.voided = lot.voided
  <1>1. lot.remaining \in Nat /\ lot.expired + lot.remaining \in Nat
    BY DEF LotType
  <1> QED BY <1>1 DEF LotExpired, LotType, Statuses

LEMMA LotPaysOut ==
    ASSUME NEW lot \in LotType, NEW amount \in 0..lot.remaining
    PROVE  LET new == LotPays(lot, amount)
           IN  /\ new \in LotType /\ new.kind = lot.kind /\ new.granted = lot.granted
               /\ new.born = lot.born /\ new.remaining = lot.remaining - amount
               /\ new.status = (IF lot.remaining = amount THEN "depleted" ELSE lot.status)
               /\ new.expired = lot.expired /\ new.voided = lot.voided
  <1>1. lot.remaining \in Nat /\ lot.remaining - amount \in Nat
    BY DEF LotType
  <1> QED BY <1>1 DEF LotPays, LotType, Statuses

LEMMA LotTakesBack ==
    ASSUME NEW lot \in LotType, NEW amount \in Nat
    PROVE  LET new == LotPaidBack(lot, amount)
           IN  /\ new \in LotType /\ new.kind = lot.kind /\ new.granted = lot.granted
               /\ new.born = lot.born /\ new.remaining = lot.remaining + amount
               /\ new.status = "active"
               /\ new.expired = lot.expired /\ new.voided = lot.voided
  <1>1. lot.remaining \in Nat /\ lot.remaining + amount \in Nat
    BY DEF LotType
  <1> QED BY <1>1 DEF LotPaidBack, LotType, Statuses

LEMMA LotVoids ==
    ASSUME NEW lot \in LotType, NEW amount \in 0..lot.remaining
    PROVE  LET new == LotVoided(lot, amount)
           IN  /\ new \in LotType /\ new.kind = lot.kind /\ new.granted = lot.granted
               /\ new.born = lot.born /\ new.remaining = lot.remaining - amount
               /\ new.status = (IF lot.remaining = amount THEN "voided" ELSE lot.status)
               /\ new.expired = lot.expired /\ new.voided = lot.voided + amount
  <1>1. /\ lot.remaining \in Nat /\ lot.remaining - amount \in Nat
        /\ lot.voided \in Nat /\ lot.voided + amount \in Nat
    BY DEF LotType
  <1> QED BY <1>1 DEF LotVoided, LotType, Statuses

-----------------------------------------------------------------------------
(* The lazy expiry.                                                         *)

ExpiryKeys(W) == {<<"expiry", g>> : g \in Due(W)}
ExpiryDebit(W) == Waterfall(W, RemainingOf(W, Due(W)), AtLeastZero(W.balance))

LEMMA DueLots ==
    ASSUME NEW W, Sound(W)
    PROVE  /\ Due(W) \subseteq Active(W) /\ Due(W) \subseteq DOMAIN W.grants
           /\ IsFiniteSet(Due(W)) /\ {g \in Due(W) : W.grants[g].remaining > 0} = Due(W)
           /\ \A g \in Due(W) : <<"expiry", g>> \notin DOMAIN W.txns
           /\ \A g \in Due(W) : <<"expiry", g>> \in ExpiryKeys(W) /\ <<"expiry", g>>[2] = g
           /\ ExpiryKeys(W) \cap DOMAIN W.txns = {}
           /\ \A g \in Due(W) : ExpiryDebit(W)[g] \in 0..W.grants[g].remaining
           /\ \A g \in Due(W) : ExpiryDebit(W)[g] \in Int
           /\ SumOver(Due(W), ExpiryDebit(W)) =
                Least(AtLeastZero(AtLeastZero(W.balance)),
                      SumOver(Due(W), RemainingOf(W, Due(W))))
  <1> DEFINE caps == RemainingOf(W, Due(W))
  <1>1. LotsTyped(W) /\ KeysKept(W) /\ W.balance \in Int
    BY DEF Sound, Typed
  <1>2. Due(W) \subseteq Active(W) /\ Due(W) \subseteq DOMAIN W.grants
        /\ \A g \in Due(W) : W.grants[g].status = "active"
    BY DEF Due, Active
  <1>3. IsFiniteSet(Due(W))
    BY <1>1, <1>2, FS_Subset DEF LotsTyped
  <1>4. {g \in Due(W) : W.grants[g].remaining > 0} = Due(W)
    BY <1>1, <1>2, LotFacts
  <1>5. \A g \in Due(W) : <<"expiry", g>> \notin DOMAIN W.txns
    BY <1>1, <1>2 DEF KeysKept
  <1>6. \A g \in Due(W) : <<"expiry", g>> \in ExpiryKeys(W) /\ <<"expiry", g>>[2] = g
    BY DEF ExpiryKeys
  <1>7. ExpiryKeys(W) \cap DOMAIN W.txns = {}
    BY <1>5 DEF ExpiryKeys
  <1>8. DOMAIN caps = Due(W) /\ \A g \in Due(W) : caps[g] \in Nat /\ caps[g] = W.grants[g].remaining
    BY <1>1, <1>2, LotFacts DEF RemainingOf
  <1>9. AtLeastZero(W.balance) \in Int
    BY <1>1 DEF AtLeastZero
  <1> HIDE DEF caps
  <1>10. /\ \A g \in DOMAIN caps : ExpiryDebit(W)[g] \in 0..caps[g]
         /\ SumOver(DOMAIN caps, ExpiryDebit(W)) =
               Least(AtLeastZero(AtLeastZero(W.balance)), SumOver(DOMAIN caps, caps))
    <2>1. ExpiryDebit(W) = Waterfall(W, caps, AtLeastZero(W.balance))
      BY DEF ExpiryDebit, caps
    <2> QED BY <1>1, <1>2, <1>8, <1>9, <2>1, WaterfallFills
  <1>11. /\ \A g \in Due(W) : ExpiryDebit(W)[g] \in 0..W.grants[g].remaining
         /\ \A g \in Due(W) : ExpiryDebit(W)[g] \in Int
    BY <1>8, <1>10
  <1>12. SumOver(Due(W), ExpiryDebit(W)) =
           Least(AtLeastZero(AtLeastZero(W.balance)), SumOver(Due(W), RemainingOf(W, Due(W))))
    BY <1>8, <1>10 DEF caps
  <1> QED BY <1>2, <1>3, <1>4, <1>5, <1>6, <1>7, <1>11, <1>12

\* What expire_due changes.  A lot that is due is active, so it holds money
\* and its expiry has a row.
LEMMA ExpireFields ==
    ASSUME NEW W, Sound(W)
    PROVE  LET V == expire_due(W)
           IN  /\ DOMAIN V = Fields /\ V.allocs = W.allocs
               /\ V.balance = W.balance - SumOver(Due(W), ExpiryDebit(W))
               /\ V.grants = [g \in DOMAIN W.grants |->
                                IF g \in Due(W) THEN LotExpired(W.grants[g]) ELSE W.grants[g]]
               /\ DOMAIN V.txns = DOMAIN W.txns \cup ExpiryKeys(W)
               /\ \A k \in ExpiryKeys(W) :
                    V.txns[k] = [type |-> "grant_expiry", amount |-> -ExpiryDebit(W)[k[2]],
                                 ref |-> k[2]]
               /\ \A k \in DOMAIN W.txns : V.txns[k] = W.txns[k]
  <1> DEFINE V == expire_due(W)
             r == [k \in ExpiryKeys(W) |->
                     [type |-> "grant_expiry", amount |-> -ExpiryDebit(W)[k[2]], ref |-> k[2]]]
             t == With(W.txns, r)
             G == [g \in DOMAIN W.grants |->
                     IF g \in Due(W) THEN LotExpired(W.grants[g]) ELSE W.grants[g]]
             b == W.balance - SumOver(Due(W), ExpiryDebit(W))
  <1>1. DOMAIN W = Fields
    BY DEF Sound, Typed
  <1>2. {g \in Due(W) : W.grants[g].remaining > 0} = Due(W)
    BY DueLots
  <1>3. V = [W EXCEPT !.balance = b, !.txns = t, !.grants = G]
    BY <1>2 DEF expire_due, ExpiryKeys, ExpiryDebit
  <1>4. /\ DOMAIN r = ExpiryKeys(W)
        /\ \A k \in ExpiryKeys(W) :
             r[k] = [type |-> "grant_expiry", amount |-> -ExpiryDebit(W)[k[2]], ref |-> k[2]]
    OBVIOUS
  <1> HIDE DEF r
  <1>5. /\ DOMAIN t = DOMAIN W.txns \cup DOMAIN r
        /\ \A k \in DOMAIN r : t[k] = r[k]
        /\ \A k \in DOMAIN W.txns \ DOMAIN r : t[k] = W.txns[k]
    BY ONLY WithRows DEF t
  <1> HIDE DEF V, t, G, b
  <1>6. /\ DOMAIN V = Fields /\ V.allocs = W.allocs /\ V.balance = b
        /\ V.grants = G /\ V.txns = t
    BY <1>1, <1>3 DEF Fields
  <1>7. ExpiryKeys(W) \cap DOMAIN W.txns = {}
    BY DueLots
  <1>8. /\ DOMAIN t = DOMAIN W.txns \cup ExpiryKeys(W)
        /\ \A k \in ExpiryKeys(W) :
             t[k] = [type |-> "grant_expiry", amount |-> -ExpiryDebit(W)[k[2]], ref |-> k[2]]
        /\ \A k \in DOMAIN W.txns : t[k] = W.txns[k]
    BY <1>4, <1>5, <1>7
  <1> QED BY <1>6, <1>8 DEF V, b, G

\* The lazy expiry keeps the rows sound, and is the retirement of the pools
\* that are due: the debit is clamped to the spendable balance.
LEMMA ExpireSound ==
    ASSUME NEW W, Sound(W)
    PROVE  /\ Sound(expire_due(W))
           /\ DOMAIN expire_due(W).grants = DOMAIN W.grants
           /\ \A g \in DOMAIN W.grants \ Due(W) : expire_due(W).grants[g] = W.grants[g]
           /\ \A g \in Due(W) : expire_due(W).grants[g].status = "expired"
           /\ SumOver(ExpiryKeys(W), AmountsOf(expire_due(W))) = expire_due(W).balance - W.balance
           /\ \E x, y \in Nat :
                /\ Held(expire_due(W), "promo") = Held(W, "promo") - x
                /\ Held(expire_due(W), "paid") = Held(W, "paid") - y
                /\ expire_due(W).balance = W.balance - Least(x + y, AtLeastZero(W.balance))
  <1> DEFINE V == expire_due(W)
             due == Due(W)
             caps == RemainingOf(W, due)
             owed == ExpiryDebit(W)
             U == [balance |-> W.balance, grants |-> V.grants, txns |-> W.txns, allocs |-> W.allocs]
  <1>1. LotsTyped(W) /\ DOMAIN W = Fields /\ W.balance \in Int /\ due \subseteq DOMAIN W.grants
        /\ IsFiniteSet(due) /\ \A g \in due : owed[g] \in Int
    BY DueLots DEF Sound, Typed
  <1>2. /\ DOMAIN V = Fields /\ V.allocs = W.allocs
        /\ V.balance = W.balance - SumOver(due, owed)
        /\ V.grants = [g \in DOMAIN W.grants |->
                          IF g \in due THEN LotExpired(W.grants[g]) ELSE W.grants[g]]
    BY ONLY ExpireFields, Sound(W)
  <1>3. /\ DOMAIN V.txns = DOMAIN W.txns \cup ExpiryKeys(W)
        /\ \A k \in ExpiryKeys(W) :
             V.txns[k] = [type |-> "grant_expiry", amount |-> -owed[k[2]], ref |-> k[2]]
        /\ \A k \in DOMAIN W.txns : V.txns[k] = W.txns[k]
    BY ONLY ExpireFields, Sound(W)
  <1>4. /\ \A g \in due : <<"expiry", g>> \in ExpiryKeys(W) /\ <<"expiry", g>>[2] = g
        /\ ExpiryKeys(W) \cap DOMAIN W.txns = {}
        /\ SumOver(due, owed) = Least(AtLeastZero(AtLeastZero(W.balance)), SumOver(due, caps))
    BY DueLots
  <1>5. \A g \in due : caps[g] = W.grants[g].remaining /\ caps[g] \in Nat
    BY <1>1, LotFacts DEF RemainingOf
  <1>6. ExpiryKeys(W) = {<<"expiry", g>> : g \in due}
    BY DEF ExpiryKeys
  <1> HIDE DEF V, caps, owed, due
  <1>7. \A g \in due :
             /\ V.grants[g] \in LotType
             /\ V.grants[g].kind = W.grants[g].kind /\ V.grants[g].granted = W.grants[g].granted
             /\ V.grants[g].born = W.grants[g].born /\ V.grants[g].voided = W.grants[g].voided
             /\ V.grants[g].expired = W.grants[g].expired + W.grants[g].remaining
             /\ V.grants[g].remaining = 0 /\ V.grants[g].status = "expired"
    <2> SUFFICES ASSUME NEW g \in due
                 PROVE  /\ V.grants[g] \in LotType
                        /\ V.grants[g].kind = W.grants[g].kind
                        /\ V.grants[g].granted = W.grants[g].granted
                        /\ V.grants[g].born = W.grants[g].born
                        /\ V.grants[g].voided = W.grants[g].voided
                        /\ V.grants[g].expired = W.grants[g].expired + W.grants[g].remaining
                        /\ V.grants[g].remaining = 0 /\ V.grants[g].status = "expired"
      OBVIOUS
    <2>1. W.grants[g] \in LotType
      BY <1>1, LotFacts
    <2>2. V.grants[g] = LotExpired(W.grants[g])
      BY <1>1, <1>2
    <2> QED BY <2>1, <2>2, LotExpires
  <1>8. /\ DOMAIN V.grants = DOMAIN W.grants
        /\ \A g \in DOMAIN W.grants \ due : V.grants[g] = W.grants[g]
    BY <1>2
  <1>9. V.grants \in [DOMAIN W.grants -> LotType]
    <2>1. \A g \in DOMAIN W.grants : V.grants[g] \in LotType
      BY <1>1, <1>7, <1>8, LotFacts
    <2> QED BY <1>2, <2>1
  <1>10. /\ DOMAIN U = Fields /\ U.balance = W.balance /\ U.txns = W.txns
        /\ U.grants = V.grants /\ U.allocs = W.allocs
    BY DEF Fields
  <1> HIDE DEF U
  <1>11. Sound(U)
    <2>1. \A g \in DOMAIN W.grants :
            U.grants[g].remaining + U.grants[g].expired + U.grants[g].voided =
               W.grants[g].remaining + W.grants[g].expired + W.grants[g].voided
      <3> SUFFICES ASSUME NEW g \in DOMAIN W.grants
                   PROVE  V.grants[g].remaining + V.grants[g].expired + V.grants[g].voided =
                            W.grants[g].remaining + W.grants[g].expired + W.grants[g].voided
        BY <1>10
      <3>1. CASE g \in due
        BY <1>1, <1>7, <3>1, LotFacts
      <3>2. CASE g \notin due
        BY <1>8, <3>2
      <3> QED BY <3>1, <3>2
    <2>2. Reshaped(W, U)
      <3>1. ASSUME NEW g \in DOMAIN W.grants
            PROVE  LET x == W.grants[g]
                       y == V.grants[g]
                   IN  /\ y.kind = x.kind /\ y.granted = x.granted /\ y.born = x.born
                       /\ y.remaining <= y.granted
                       /\ (y.status = "active") <=> (y.remaining > 0)
                       /\ x.status = "expired" => y.status = "expired"
        <4>1. CASE g \in due
          BY <1>1, <1>7, <4>1, LotFacts
        <4>2. CASE g \notin due
          BY <1>1, <1>8, <4>2, LotFacts
        <4> QED BY <4>1, <4>2
      <3> QED BY <1>8, <1>9, <1>10, <3>1 DEF Reshaped
    <2> QED BY <1>10, <2>1, <2>2, RetiredSound
  <1>12. IsFiniteSet(ExpiryKeys(W)) /\ SumOver(ExpiryKeys(W), AmountsOf(V)) = -SumOver(due, owed)
    <2> DEFINE b == [g \in due |-> <<"expiry", g>>]
               f == [g \in due |-> -owed[g]]
    <2>1. \A g \in due : f[g] \in Int /\ owed[g] \in Int /\ f[g] = -owed[g]
      BY <1>1
    <2>2. \A g \in due : b[g] = <<"expiry", g>> /\ AmountsOf(V)[b[g]] = f[g]
      <3> SUFFICES ASSUME NEW g \in due PROVE AmountsOf(V)[<<"expiry", g>>] = -owed[g]
        OBVIOUS
      <3> DEFINE k == <<"expiry", g>>
      <3>1. k \in ExpiryKeys(W) /\ k[2] = g
        BY <1>4
      <3> HIDE DEF k
      <3>3. V.txns[k] = [type |-> "grant_expiry", amount |-> -owed[k[2]], ref |-> k[2]]
            /\ k \in DOMAIN V.txns
        BY <1>3, <3>1
      <3>4. V.txns[k].amount = -owed[k[2]]
        BY ONLY <3>3
      <3>2. V.txns[k].amount = -owed[g] /\ k \in DOMAIN V.txns
        BY ONLY <3>1, <3>3, <3>4
      <3> QED BY <3>2 DEF AmountsOf, k
    <2>3. \A g, h \in due : b[g] = b[h] => g = h
      BY <1>4
    <2>4. ExpiryKeys(W) = {b[g] : g \in due}
      BY <1>6
    <2> HIDE DEF b, f
    <2>5. IsFiniteSet({b[g] : g \in due})
          /\ SumFunctionOnSet(AmountsOf(V), {b[g] : g \in due}) = SumFunctionOnSet(f, due)
      BY <1>1, <2>1, <2>2, <2>3, SumRenamed
    <2>6. SumFunctionOnSet(f, due) = -SumFunctionOnSet(owed, due)
      BY <1>1, <2>1, SumNegated
    <2> QED BY <2>4, <2>5, <2>6 DEF SumOver
  <1>13. SumOver(due, owed) \in Int
    BY <1>1, SumTakes DEF SumOver
  <1>14. SumOver(ExpiryKeys(W), AmountsOf(V)) = V.balance - W.balance
    BY <1>1, <1>2, <1>12, <1>13
  <1>15. Sound(V)
    <2>1. ExpiryKeys(W) \cap DOMAIN U.txns = {}
      BY <1>4, <1>10
    <2>2. \A k \in ExpiryKeys(W) : V.txns[k].amount \in Int
      <3> SUFFICES ASSUME NEW g \in due, NEW k, k = <<"expiry", g>> PROVE V.txns[k].amount \in Int
        BY <1>6
      <3>1. k \in ExpiryKeys(W) /\ k[2] = g
        BY <1>4
      <3>3. V.txns[k] = [type |-> "grant_expiry", amount |-> -owed[k[2]], ref |-> k[2]]
        BY ONLY <1>3, <3>1
      <3>4. V.txns[k].amount = -owed[k[2]]
        BY ONLY <3>3
      <3>2. V.txns[k].amount = -owed[g]
        BY ONLY <3>1, <3>4
      <3> QED BY <1>1, <3>2
    <2>3. \A g : <<"expiry", g>> \in ExpiryKeys(W) =>
             g \in DOMAIN U.grants /\ U.grants[g].status = "expired"
      <3>1. \A g : <<"expiry", g>> \in ExpiryKeys(W) => g \in due
        BY <1>6
      <3> QED BY <1>1, <1>7, <1>8, <1>10, <3>1
    <2>4. \A e \in Events : <<"usage_deduction", e>> \notin ExpiryKeys(W)
      BY <1>6
    <2>5. V.balance = U.balance + SumOver(ExpiryKeys(W), AmountsOf(V))
      BY <1>1, <1>2, <1>10, <1>12, <1>13
    <2>6. /\ DOMAIN V = Fields /\ V.grants = U.grants /\ V.allocs = U.allocs
          /\ DOMAIN V.txns = DOMAIN U.txns \cup ExpiryKeys(W)
          /\ \A k \in DOMAIN U.txns : V.txns[k] = U.txns[k]
      BY <1>2, <1>3, <1>10
    <2> QED BY <1>11, <1>12, <2>1, <2>2, <2>3, <2>4, <2>5, <2>6, MoreRows
  <1>16. PICK x, y \in Nat :
            /\ Held(V, "promo") = Held(W, "promo") - x
            /\ Held(V, "paid") = Held(W, "paid") - y
            /\ x + y = SumOver(due, caps)
    <2>1. LotsTyped(V)
      BY <1>15 DEF Sound, Typed
    <2>2. /\ \A g \in DOMAIN W.grants : V.grants[g].kind = W.grants[g].kind
          /\ \A g \in due : caps[g] \in Nat
                            /\ V.grants[g].remaining = W.grants[g].remaining - caps[g]
          /\ \A g \in DOMAIN W.grants \ due : V.grants[g].remaining = W.grants[g].remaining
      BY <1>1, <1>5, <1>7, <1>8
    <2>3. Loses(W, V, due, caps)
      BY <1>1, <1>8, <2>1, <2>2 DEF Loses
    <2> QED BY <2>3, LotsLose
  <1>17. V.balance = W.balance - Least(x + y, AtLeastZero(W.balance))
    <2> DEFINE s == SumOver(due, caps)
               z == SumOver(due, owed)
    <2>1. z = Least(AtLeastZero(AtLeastZero(W.balance)), s) /\ V.balance = W.balance - z
          /\ x + y = s
      BY <1>2, <1>4, <1>16
    <2> HIDE DEF s, z
    <2> QED BY <1>1, <2>1 DEF Least, AtLeastZero
  <1> QED BY <1>7, <1>8, <1>14, <1>15, <1>16, <1>17 DEF V, due

-----------------------------------------------------------------------------
(* Lots pay for a row.                                                      *)

\* The lots of S pay for a row that no lot paid for yet, up to its amount.
MayPay(W, key, amount, S, type) ==
    /\ Sound(W) /\ key \in DOMAIN W.txns /\ SlicesFor(W, key) = {}
    /\ amount \in Int /\ AtLeastZero(amount) <= Magnitude(W.txns[key].amount)
    /\ S \in SUBSET DOMAIN W.grants /\ type \in SliceTypes

LEMMA AllocateSound ==
    ASSUME NEW W, NEW key, NEW amount, NEW S, NEW type, MayPay(W, key, amount, S, type)
    PROVE  LET V == allocate(W, key, amount, S, type)
           IN  /\ Sound(V) /\ V.balance = W.balance /\ V.txns = W.txns
               /\ DOMAIN V.grants = DOMAIN W.grants
               /\ \A g \in DOMAIN W.grants \ S : V.grants[g] = W.grants[g]
               /\ \E x, y \in Nat :
                    /\ Held(V, "promo") = Held(W, "promo") - x
                    /\ Held(V, "paid") = Held(W, "paid") - y
                    /\ x + y = Least(AtLeastZero(amount), Remaining(W, S))
                    /\ (\A g \in S : W.grants[g].kind = "paid") => x = 0
  <1>0. /\ Sound(W) /\ key \in DOMAIN W.txns /\ SlicesFor(W, key) = {}
        /\ amount \in Int /\ AtLeastZero(amount) <= Magnitude(W.txns[key].amount)
        /\ S \in SUBSET DOMAIN W.grants /\ type \in SliceTypes
    BY DEF MayPay
  <1> USE <1>0
  <1> DEFINE V == allocate(W, key, amount, S, type)
             caps == RemainingOf(W, S)
             take == Waterfall(W, caps, amount)
             paid == {g \in S : take[g] > 0}
             new == {<<g, key>> : g \in paid}
             r == [p \in new |-> [amount |-> take[p[1]], refunded |-> 0, type |-> type]]
             A == With(W.allocs, r)
             G == [g \in DOMAIN W.grants |->
                     IF g \in paid THEN LotPays(W.grants[g], take[g]) ELSE W.grants[g]]
  <1>1. DOMAIN W = Fields /\ W.balance \in Int /\ LotsTyped(W) /\ SlicesTyped(W)
    BY DEF Sound, Typed
  <1>2. IsFiniteSet(S) /\ IsFiniteSet(paid)
    BY <1>1, FS_Subset DEF LotsTyped
  <1>3. DOMAIN caps = S /\ \A g \in S : caps[g] \in Nat /\ caps[g] = W.grants[g].remaining
    BY <1>1, LotFacts DEF RemainingOf
  <1>4. /\ \A g \in S : take[g] \in 0..W.grants[g].remaining
        /\ SumOver(S, take) = Least(AtLeastZero(amount), SumOver(S, caps))
    <2> HIDE DEF caps
    <2>1. /\ \A g \in DOMAIN caps : take[g] \in 0..caps[g]
          /\ SumOver(DOMAIN caps, take) = Least(AtLeastZero(amount), SumOver(DOMAIN caps, caps))
      BY <1>1, <1>3, WaterfallFills
    <2> HIDE DEF take
    <2> QED BY <1>3, <2>1
  <1>5. Remaining(W, S) = SumOver(S, caps)
    BY DEF Remaining
  <1>6. V = [W EXCEPT !.grants = G, !.allocs = A]
    BY DEF allocate
  <1>7. DOMAIN r = new
        /\ \A g \in paid : /\ <<g, key>> \in new
                            /\ r[<<g, key>>] = [amount |-> take[g], refunded |-> 0, type |-> type]
    <2> HIDE DEF take
    <2> QED OBVIOUS
  <1> HIDE DEF r
  <1>8. /\ DOMAIN A = DOMAIN W.allocs \cup DOMAIN r
        /\ \A p \in DOMAIN r : A[p] = r[p]
        /\ \A p \in DOMAIN W.allocs \ DOMAIN r : A[p] = W.allocs[p]
    BY ONLY WithRows DEF A
  <1> HIDE DEF A, G, V, take, caps
  <1>9. /\ DOMAIN V = Fields /\ V.balance = W.balance /\ V.txns = W.txns
        /\ V.grants = G /\ V.allocs = A
    BY <1>1, <1>6 DEF Fields
  <1>10. \A g \in paid :
           /\ G[g] \in LotType
           /\ G[g].kind = W.grants[g].kind /\ G[g].granted = W.grants[g].granted
           /\ G[g].born = W.grants[g].born /\ G[g].remaining = W.grants[g].remaining - take[g]
           /\ G[g].status = (IF W.grants[g].remaining = take[g] THEN "depleted"
                             ELSE W.grants[g].status)
           /\ G[g].expired = W.grants[g].expired /\ G[g].voided = W.grants[g].voided
    <2> SUFFICES ASSUME NEW g \in paid
                 PROVE  /\ G[g] \in LotType
                        /\ G[g].kind = W.grants[g].kind /\ G[g].granted = W.grants[g].granted
                        /\ G[g].born = W.grants[g].born
                        /\ G[g].remaining = W.grants[g].remaining - take[g]
                        /\ G[g].status = (IF W.grants[g].remaining = take[g] THEN "depleted"
                                          ELSE W.grants[g].status)
                        /\ G[g].expired = W.grants[g].expired /\ G[g].voided = W.grants[g].voided
      OBVIOUS
    <2>1. W.grants[g] \in LotType /\ take[g] \in 0..W.grants[g].remaining
      BY <1>1, <1>4, LotFacts
    <2>2. G[g] = LotPays(W.grants[g], take[g])
      BY DEF G
    <2> QED BY <2>1, <2>2, LotPaysOut
  <1>11. /\ DOMAIN G = DOMAIN W.grants
         /\ \A g \in DOMAIN W.grants \ paid : G[g] = W.grants[g]
    BY DEF G
  <1>12. G \in [DOMAIN W.grants -> LotType]
    <2>1. \A g \in DOMAIN W.grants : G[g] \in LotType
      BY <1>1, <1>10, <1>11, LotFacts
    <2> QED BY <2>1 DEF G
  <1>13. Reshaped(W, V)
    <2>1. ASSUME NEW g \in DOMAIN W.grants
          PROVE  LET x == W.grants[g]
                     y == G[g]
                 IN  /\ y.kind = x.kind /\ y.granted = x.granted /\ y.born = x.born
                     /\ y.remaining <= y.granted
                     /\ (y.status = "active") <=> (y.remaining > 0)
                     /\ x.status = "expired" => y.status = "expired"
      <3>1. CASE g \in paid
        <4>1. take[g] > 0 /\ take[g] \in 0..W.grants[g].remaining
          BY <1>4, <3>1
        <4> QED BY <1>1, <1>10, <3>1, <4>1, LotFacts
      <3>2. CASE g \notin paid
        BY <1>1, <1>11, <3>2, LotFacts
      <3> QED BY <3>1, <3>2
    <2> QED BY <1>9, <1>11, <1>12, <2>1 DEF Reshaped
  <1>14. /\ DOMAIN V = Fields /\ V.balance \in Int /\ LotsTyped(V) /\ RowsTyped(V) /\ KeysKept(V)
         /\ LedgerAddsUp(V)
    BY <1>13, ReshapedTyped
  <1>15. new \cap DOMAIN W.allocs = {}
    BY DEF SlicesFor
  <1>16. SlicesTyped(V)
    <2>1. IsFiniteSet(new)
      <3> DEFINE b == [g \in paid |-> <<g, key>>]
      <3>1. new = {b[g] : g \in paid}
        OBVIOUS
      <3> HIDE DEF b, paid, new
      <3> QED BY <1>2, <3>1, ImageFinite
    <2>2. IsFiniteSet(DOMAIN A)
      <3>1. IsFiniteSet(DOMAIN W.allocs) /\ DOMAIN A = DOMAIN W.allocs \cup new
        BY <1>1, <1>7, <1>8 DEF SlicesTyped
      <3> HIDE DEF new
      <3> QED BY <2>1, <3>1, FS_Union
    <2>3. ASSUME NEW p \in DOMAIN A
          PROVE  /\ p = <<p[1], p[2]>> /\ p[1] \in DOMAIN W.grants /\ p[2] \in DOMAIN W.txns
                 /\ A[p] \in [amount : Nat, refunded : Nat, type : SliceTypes]
                 /\ A[p].refunded <= A[p].amount
      <3>1. CASE p \in DOMAIN W.allocs
        BY <1>1, <1>7, <1>8, <1>15, <3>1 DEF SlicesTyped
      <3>2. CASE p \in new
        <4>1. PICK g \in paid : p = <<g, key>>
          BY <3>2
        <4>2. A[p] = [amount |-> take[g], refunded |-> 0, type |-> type]
          BY <1>7, <1>8, <4>1
        <4>3. take[g] \in Nat
          BY <1>1, <1>4, LotFacts
        <4> QED BY <4>1, <4>2, <4>3
      <3> QED BY <1>7, <1>8, <3>1, <3>2
    <2>4. A \in [DOMAIN A -> [amount : Nat, refunded : Nat, type : SliceTypes]]
      BY <2>3 DEF A, With
    <2> QED BY <1>9, <1>11, <2>2, <2>3, <2>4 DEF SlicesTyped
  <1>17. /\ \A p \in DOMAIN W.allocs : /\ p \in DOMAIN A /\ Spent(V)[p] = Spent(W)[p]
                                        /\ Paid(V)[p] = Paid(W)[p]
         /\ \A g \in paid : /\ <<g, key>> \in DOMAIN A /\ Spent(V)[<<g, key>>] = take[g]
                             /\ Paid(V)[<<g, key>>] = take[g]
    <2>1. \A p \in DOMAIN W.allocs : p \in DOMAIN A /\ A[p] = W.allocs[p]
      BY <1>7, <1>8, <1>15
    <2>2. ASSUME NEW g \in paid
          PROVE  <<g, key>> \in DOMAIN A /\ A[<<g, key>>].amount = take[g]
                 /\ A[<<g, key>>].refunded = 0 /\ take[g] \in Int
      <3>1. A[<<g, key>>] = [amount |-> take[g], refunded |-> 0, type |-> type]
            /\ <<g, key>> \in DOMAIN A
        BY <1>7, <1>8
      <3>2. take[g] \in Int
        BY <1>4
      <3> HIDE DEF paid, new
      <3> QED BY <3>1, <3>2
    <2> QED BY <1>9, <2>1, <2>2 DEF Spent, Paid
  <1>18. LotsAddUp(V)
    <2> SUFFICES ASSUME NEW g \in DOMAIN W.grants
                 PROVE  V.grants[g].granted = V.grants[g].remaining
                          + SumOver(SlicesOf(V, g), Spent(V))
                          + V.grants[g].expired + V.grants[g].voided
      BY <1>9, <1>11 DEF LotsAddUp
    <2> DEFINE s == SumOver(SlicesOf(W, g), Spent(W))
               u == SumOver(SlicesOf(V, g), Spent(V))
    <2>1. IsFiniteSet(SlicesOf(W, g)) /\ s \in Nat /\ u \in Nat
      BY <1>1, <1>16, SliceFacts
    <2>2. \A p \in SlicesOf(W, g) : Spent(W)[p] \in Int /\ Spent(V)[p] = Spent(W)[p]
      BY <1>1, <1>17, SliceFacts DEF SlicesOf
    <2>3. SumFunctionOnSet(Spent(V), SlicesOf(W, g)) = s
      BY <2>1, <2>2, SumSame DEF SumOver
    <2>4. W.grants[g].granted = W.grants[g].remaining + s + W.grants[g].expired + W.grants[g].voided
      BY DEF Sound, LotsAddUp
    <2>5. CASE g \in paid
      <3>1. SlicesOf(V, g) = SlicesOf(W, g) \cup {<<g, key>>} /\ <<g, key>> \notin SlicesOf(W, g)
        <4>1. DOMAIN V.allocs = DOMAIN W.allocs \cup new
          BY <1>7, <1>8, <1>9
        <4>2. \A p \in new : p[1] = g => p = <<g, key>>
          OBVIOUS
        <4>3. <<g, key>> \in new /\ <<g, key>>[1] = g /\ <<g, key>> \notin DOMAIN W.allocs
          BY <1>15, <2>5
        <4> HIDE DEF new
        <4> QED BY <4>1, <4>2, <4>3 DEF SlicesOf
      <3>2. Spent(V)[<<g, key>>] = take[g] /\ take[g] \in Int
        BY <1>4, <1>17, <2>5
      <3>3. \A p \in SlicesOf(W, g) \cup {<<g, key>>} : Spent(V)[p] \in Int
        BY <2>2, <3>2
      <3>4. u = s + take[g]
        <4> DEFINE T == SlicesOf(W, g)
                   p == <<g, key>>
        <4>1. p \notin T /\ IsFiniteSet(T) /\ \A q \in T \cup {p} : Spent(V)[q] \in Int
          BY <2>1, <3>1, <3>3
        <4>2. SlicesOf(V, g) = T \cup {p} /\ Spent(V)[p] = take[g]
          BY <3>1, <3>2
        <4> HIDE DEF T, p
        <4>3. SumFunctionOnSet(Spent(V), T \cup {p}) = SumFunctionOnSet(Spent(V), T) + Spent(V)[p]
          BY <4>1, SumAdds
        <4> QED BY <2>3, <4>2, <4>3 DEF SumOver, T
      <3> HIDE DEF s, u
      <3>5. V.grants[g].granted = V.grants[g].remaining + u + V.grants[g].expired + V.grants[g].voided
        BY <1>1, <1>9, <1>10, <2>1, <2>4, <2>5, <3>2, <3>4, LotFacts
      <3> QED BY <3>5 DEF u
    <2>6. CASE g \notin paid
      <3>1. SlicesOf(V, g) = SlicesOf(W, g)
        <4>1. DOMAIN V.allocs = DOMAIN W.allocs \cup new
          BY <1>7, <1>8, <1>9
        <4>2. \A p \in new : p[1] # g
          BY <2>6
        <4> HIDE DEF new
        <4> QED BY <4>1, <4>2 DEF SlicesOf
      <3>2. u = s
        BY <2>3, <3>1 DEF SumOver
      <3> QED BY <1>9, <1>11, <2>4, <2>6, <3>2
    <2> QED BY <2>5, <2>6
  <1>19. SlicesWithinRows(V)
    <2> SUFFICES ASSUME NEW k \in DOMAIN W.txns
                 PROVE  SumOver(SlicesFor(V, k), Paid(V)) <= Magnitude(W.txns[k].amount)
      BY <1>9 DEF SlicesWithinRows
    <2>1. DOMAIN V.allocs = DOMAIN W.allocs \cup new
      BY <1>7, <1>8, <1>9
    <2>2. CASE k # key
      <3>1. \A p \in new : p[2] # k
        BY <2>2
      <3> HIDE DEF new
      <3>2. SlicesFor(V, k) = SlicesFor(W, k)
        BY <2>1, <3>1 DEF SlicesFor
      <3>3. \A p \in SlicesFor(W, k) : Paid(W)[p] \in Int /\ Paid(W)[p] = Paid(V)[p]
        BY <1>1, <1>17, SliceFacts DEF SlicesFor
      <3>4. IsFiniteSet(SlicesFor(W, k))
        BY <1>1, SliceFacts
      <3>5. SumFunctionOnSet(Paid(V), SlicesFor(W, k)) = SumFunctionOnSet(Paid(W), SlicesFor(W, k))
        BY <3>3, <3>4, SumSame
      <3> QED BY <3>2, <3>5 DEF Sound, SlicesWithinRows, SumOver
    <2>3. CASE k = key
      <3> DEFINE b == [g \in paid |-> <<g, key>>]
      <3>1. SlicesFor(V, key) = new
        <4>1. \A p \in new : p[2] = key
          OBVIOUS
        <4> HIDE DEF new
        <4> QED BY <2>1, <4>1 DEF SlicesFor
      <3>2. new = {b[g] : g \in paid} /\ \A g, h \in paid : b[g] = b[h] => g = h
        OBVIOUS
      <3>3. \A g \in paid : take[g] \in Int /\ Paid(V)[b[g]] = take[g]
        BY <1>4, <1>17
      <3> HIDE DEF b, new, paid
      <3>4. SumFunctionOnSet(Paid(V), {b[g] : g \in paid}) = SumFunctionOnSet(take, paid)
        BY <1>2, <3>2, <3>3, SumRenamed
      <3>5. SumFunctionOnSet(take, S) = SumFunctionOnSet(take, paid)
        <4>1. \A g \in S : take[g] \in Int
          BY <1>4
        <4>2. \A g \in S \ paid : take[g] = 0
          BY <1>4 DEF paid
        <4>3. paid \subseteq S
          BY DEF paid
        <4> QED BY <1>2, <4>1, <4>2, <4>3, SumOnPart
      <3>6. SumOver(SlicesFor(V, key), Paid(V)) = Least(AtLeastZero(amount), SumOver(S, caps))
        BY <1>4, <3>1, <3>2, <3>4, <3>5 DEF SumOver
      <3> DEFINE c == SumOver(S, caps)
                 m == Magnitude(W.txns[key].amount)
      <3>7. c \in Nat
        BY <1>2, <1>3, SumNat DEF SumOver
      <3>8. m \in Int
        BY DEF Sound, Typed, RowsTyped, Magnitude
      <3> HIDE DEF c, m
      <3>9. Least(AtLeastZero(amount), c) <= m
        <4>1. AtLeastZero(amount) <= m /\ AtLeastZero(amount) \in Int
          BY DEF m, AtLeastZero
        <4> QED BY <3>7, <3>8, <4>1 DEF Least
      <3> QED BY <2>3, <3>6, <3>9 DEF c, m
    <2> QED BY <2>2, <2>3
  <1>20. Sound(V)
    BY <1>14, <1>16, <1>18, <1>19 DEF Sound, Typed
  <1>21. PICK x, y \in Nat :
            /\ Held(V, "promo") = Held(W, "promo") - x
            /\ Held(V, "paid") = Held(W, "paid") - y
            /\ x + y = SumOver(S, take)
            /\ (\A g \in S : W.grants[g].kind = "paid") => x = 0
    <2>1. /\ \A g \in DOMAIN W.grants : V.grants[g].kind = W.grants[g].kind
          /\ \A g \in S : take[g] \in Nat
                            /\ V.grants[g].remaining = W.grants[g].remaining - take[g]
          /\ \A g \in DOMAIN W.grants \ S : V.grants[g].remaining = W.grants[g].remaining
      <3>1. \A g \in S : take[g] \in Nat
        BY <1>1, <1>4, LotFacts
      <3>2. \A g \in S \ paid : take[g] = 0 /\ W.grants[g].remaining \in Nat
        BY <1>1, <1>4, LotFacts
      <3> QED BY <1>9, <1>10, <1>11, <3>1, <3>2
    <2>2. DOMAIN V.grants = DOMAIN W.grants /\ LotsTyped(V)
      BY <1>9, <1>11, <1>14
    <2>3. Loses(W, V, S, take)
      BY <1>1, <2>1, <2>2 DEF Loses
    <2> HIDE DEF paid, new
    <2> QED BY <2>3, LotsLose
  <1>22. \A g \in DOMAIN W.grants \ S : V.grants[g] = W.grants[g]
    BY <1>9, <1>11
  <1> QED BY <1>4, <1>5, <1>9, <1>11, <1>20, <1>21, <1>22 DEF V

-----------------------------------------------------------------------------
(* Voids and clawbacks.                                                     *)

\* Part of an active lot, or all of it, is voided.
LEMMA VoidSound ==
    ASSUME NEW W, Sound(W), NEW g \in Active(W), NEW void \in Nat, void > 0,
           void <= W.grants[g].remaining,
           NEW V, V = [W EXCEPT !.grants[g] = LotVoided(W.grants[g], void)]
    PROVE  /\ Sound(V) /\ V.balance = W.balance /\ V.txns = W.txns /\ V.allocs = W.allocs
           /\ DOMAIN V.grants = DOMAIN W.grants
           /\ \A h \in DOMAIN W.grants : V.grants[h].kind = W.grants[h].kind
           /\ \E x, y \in Nat :
                /\ Held(V, "promo") = Held(W, "promo") - x
                /\ Held(V, "paid") = Held(W, "paid") - y
                /\ x + y = void /\ (W.grants[g].kind = "paid" => x = 0)
  <1> DEFINE lot == LotVoided(W.grants[g], void)
             G == [W.grants EXCEPT ![g] = lot]
             take == [h \in {g} |-> void]
  <1>1. DOMAIN W = Fields /\ LotsTyped(W) /\ g \in DOMAIN W.grants /\ W.grants[g].status = "active"
    BY DEF Sound, Typed, Active
  <1>2. W.grants[g] \in LotType /\ void \in 0..W.grants[g].remaining
    BY <1>1, LotFacts
  <1>3. /\ lot \in LotType /\ lot.kind = W.grants[g].kind /\ lot.granted = W.grants[g].granted
        /\ lot.born = W.grants[g].born /\ lot.remaining = W.grants[g].remaining - void
        /\ lot.status = (IF W.grants[g].remaining = void THEN "voided" ELSE W.grants[g].status)
        /\ lot.expired = W.grants[g].expired /\ lot.voided = W.grants[g].voided + void
    BY <1>2, LotVoids
  <1>4. V = [W EXCEPT !.grants = G]
    OBVIOUS
  <1>5. /\ DOMAIN G = DOMAIN W.grants /\ G[g] = lot /\ \A h \in DOMAIN W.grants \ {g} : G[h] = W.grants[h]
        /\ G \in [DOMAIN W.grants -> LotType]
    <2> HIDE DEF lot
    <2>1. W.grants \in [DOMAIN W.grants -> LotType]
      BY <1>1 DEF LotsTyped
    <2> QED BY <1>1, <1>3, <2>1
  <1> HIDE DEF G, lot
  <1>6. /\ DOMAIN V = Fields /\ V.balance = W.balance /\ V.txns = W.txns /\ V.allocs = W.allocs
        /\ V.grants = G
    BY <1>1, <1>4 DEF Fields
  <1>7. ASSUME NEW h \in DOMAIN W.grants
        PROVE  LET x == W.grants[h]
                   y == G[h]
               IN  /\ y.kind = x.kind /\ y.granted = x.granted /\ y.born = x.born
                   /\ y.remaining <= y.granted
                   /\ (y.status = "active") <=> (y.remaining > 0)
                   /\ x.status = "expired" => y.status = "expired"
                   /\ y.remaining + y.expired + y.voided = x.remaining + x.expired + x.voided
    <2>1. CASE h = g
      BY <1>1, <1>2, <1>3, <1>5, <2>1, LotFacts
    <2>2. CASE h # g
      BY <1>1, <1>5, <2>2, LotFacts
    <2> QED BY <2>1, <2>2
  <1>8. Sound(V)
    <2>1. Reshaped(W, V)
      BY <1>5, <1>6, <1>7 DEF Reshaped
    <2> QED BY <1>6, <1>7, <2>1, RetiredSound
  <1>9. PICK x, y \in Nat :
            /\ Held(V, "promo") = Held(W, "promo") - x
            /\ Held(V, "paid") = Held(W, "paid") - y
            /\ x + y = SumOver({g}, take)
            /\ (\A h \in {g} : W.grants[h].kind = "paid") => x = 0
    <2>1. LotsTyped(V)
      BY <1>8 DEF Sound, Typed
    <2>2. take[g] = void
      OBVIOUS
    <2> HIDE DEF take
    <2>3. Loses(W, V, {g}, take)
      BY <1>1, <1>3, <1>5, <1>6, <1>7, <2>1, <2>2 DEF Loses
    <2> QED BY <2>3, LotsLose
  <1>10. SumOver({g}, take) = void
    <2>1. take[g] = void
      OBVIOUS
    <2> HIDE DEF take
    <2> QED BY <2>1, SumOfOne DEF SumOver
  <1> QED BY <1>5, <1>6, <1>7, <1>8, <1>9, <1>10

\* A reversed charge: its own lot is voided, then the cascade takes from any
\* lot until they are covered by the balance again.
LEMMA ClawbackSound ==
    ASSUME NEW W, Sound(W), NEW key \in DOMAIN W.txns, SlicesFor(W, key) = {},
           NEW amount \in Nat, W.txns[key].amount = -amount,
           Held(W, "promo") + Held(W, "paid") <= AtLeastZero(W.balance + amount),
           NEW a \in Attempts
    PROVE  LET V == clawback(W, key, amount, SourceLot(a))
           IN  /\ Sound(V) /\ V.balance = W.balance /\ V.txns = W.txns
               /\ DOMAIN V.grants = DOMAIN W.grants
               /\ \E v, x, y \in Nat :
                    /\ v <= amount
                    /\ Held(V, "promo") = Held(W, "promo") - x
                    /\ Held(V, "paid") = Held(W, "paid") - v - y
                    /\ x + y = AtLeastZero(Held(W, "promo") + Held(W, "paid") - v
                                            - AtLeastZero(W.balance))
  <1> DEFINE source == SourceLot(a)
             void == IF source \in Active(W) THEN Least(W.grants[source].remaining, amount) ELSE 0
             U == IF void > 0 THEN [W EXCEPT !.grants[source] = LotVoided(W.grants[source], void)]
                  ELSE W
             excess == Remaining(U, Active(U)) - AtLeastZero(U.balance)
             V == allocate(U, key, excess, Active(U), "clawback")
  <1>1. clawback(W, key, amount, source) = V
    BY DEF clawback
  <1>2. LotsTyped(W) /\ W.balance \in Int
    BY DEF Sound, Typed
  <1>3. void \in Nat /\ void <= amount
        /\ (void > 0 => source \in Active(W) /\ void <= W.grants[source].remaining)
    <2>1. CASE source \in Active(W)
      <3>1. W.grants[source].remaining \in Nat
        BY <1>2, <2>1, LotFacts DEF Active
      <3> QED BY <2>1, <3>1 DEF Least
    <2>2. CASE source \notin Active(W)
      BY <2>2
    <2> QED BY <2>1, <2>2
  <1>4. /\ Sound(U) /\ U.balance = W.balance /\ U.txns = W.txns /\ U.allocs = W.allocs
        /\ DOMAIN U.grants = DOMAIN W.grants
        /\ Held(U, "promo") = Held(W, "promo") /\ Held(U, "paid") = Held(W, "paid") - void
    <2> HIDE DEF void, source
    <2>1. CASE void > 0
      <3>1. U = [W EXCEPT !.grants[source] = LotVoided(W.grants[source], void)]
        BY <2>1
      <3>2. W.grants[source].kind = "paid"
        BY <1>3, <2>1 DEF Sound, Typed, KeysKept, source, Active
      <3> HIDE DEF U
      <3>3. /\ Sound(U) /\ U.balance = W.balance /\ U.txns = W.txns /\ U.allocs = W.allocs
            /\ DOMAIN U.grants = DOMAIN W.grants
            /\ \E x, y \in Nat :
                /\ Held(U, "promo") = Held(W, "promo") - x
                /\ Held(U, "paid") = Held(W, "paid") - y
                /\ x + y = void /\ (W.grants[source].kind = "paid" => x = 0)
        BY <1>3, <2>1, <3>1, VoidSound
      <3>4. Held(W, "promo") \in Nat
        BY <1>2, PoolSums
      <3> QED BY <3>2, <3>3, <3>4
    <2>2. CASE ~(void > 0)
      <3>1. U = W /\ void = 0
        BY <1>3, <2>2
      <3>2. Held(W, "promo") \in Nat /\ Held(W, "paid") \in Nat
        BY <1>2, PoolSums
      <3> HIDE DEF U
      <3> QED BY <3>1, <3>2
    <2> QED BY <2>1, <2>2
  <1> HIDE DEF U, source, void
  <1>5. /\ Held(W, "promo") \in Nat /\ Held(W, "paid") \in Nat
        /\ Held(U, "promo") \in Nat /\ Held(U, "paid") \in Nat
        /\ Remaining(U, Active(U)) = Held(U, "promo") + Held(U, "paid")
    BY <1>2, <1>4, PoolSums DEF Sound, Typed
  <1>6. excess = Held(W, "promo") + Held(W, "paid") - void - AtLeastZero(W.balance)
        /\ excess \in Int
    BY <1>2, <1>3, <1>4, <1>5 DEF AtLeastZero
  <1>7. AtLeastZero(excess) <= Magnitude(U.txns[key].amount)
    <2> HIDE DEF excess
    <2> QED BY <1>2, <1>3, <1>4, <1>5, <1>6 DEF AtLeastZero, Magnitude
  <1>8. SlicesFor(U, key) = {} /\ key \in DOMAIN U.txns
    BY <1>4 DEF SlicesFor
  <1>9. Active(U) \in SUBSET DOMAIN U.grants /\ "clawback" \in SliceTypes
    BY DEF Active, SliceTypes
  <1> HIDE DEF excess
  <1>10. /\ Sound(V) /\ V.balance = U.balance /\ V.txns = U.txns
         /\ DOMAIN V.grants = DOMAIN U.grants
         /\ \E x, y \in Nat :
               /\ Held(V, "promo") = Held(U, "promo") - x
               /\ Held(V, "paid") = Held(U, "paid") - y
               /\ x + y = Least(AtLeastZero(excess), Remaining(U, Active(U)))
    <2>1. MayPay(U, key, excess, Active(U), "clawback")
      BY <1>4, <1>6, <1>7, <1>8, <1>9 DEF MayPay
    <2> QED BY ONLY <2>1, AllocateSound
  <1> HIDE DEF V
  <1>11. PICK x, y \in Nat :
               /\ Held(V, "promo") = Held(U, "promo") - x
               /\ Held(V, "paid") = Held(U, "paid") - y
               /\ x + y = Least(AtLeastZero(excess), Remaining(U, Active(U)))
    BY <1>10
  <1>12. x + y = AtLeastZero(Held(W, "promo") + Held(W, "paid") - void - AtLeastZero(W.balance))
    BY <1>2, <1>3, <1>4, <1>5, <1>6, <1>11 DEF Least, AtLeastZero
  <1>13. Held(V, "promo") = Held(W, "promo") - x /\ Held(V, "paid") = Held(W, "paid") - void - y
    BY <1>3, <1>4, <1>5, <1>11
  <1>14. \E v, z, w \in Nat :
           /\ v <= amount
           /\ Held(V, "promo") = Held(W, "promo") - z
           /\ Held(V, "paid") = Held(W, "paid") - v - w
           /\ z + w = AtLeastZero(Held(W, "promo") + Held(W, "paid") - v - AtLeastZero(W.balance))
    BY <1>3, <1>12, <1>13
  <1> QED BY <1>1, <1>4, <1>10, <1>14 DEF source

-----------------------------------------------------------------------------
(* A credit that mints a lot.                                               *)

MayMint(W, key, kind, amount, expires, ref) ==
    /\ Sound(W) /\ key \in DOMAIN W.txns /\ key \notin DOMAIN W.grants
    /\ SlicesFor(W, key) = {} /\ W.txns[key].amount = amount
    /\ amount \in Nat \ {0} /\ kind \in Kinds /\ expires \in Nat
    /\ ref \in GrantKeys \cup Attempts
    /\ \A a \in Attempts : key = SourceLot(a) => kind = "paid"
    /\ \A g : key # <<"expiry", g>>

\* A debt is paid off before the lot is filled.
LEMMA MintSound ==
    ASSUME NEW W, NEW key, NEW kind, NEW amount, NEW expires, NEW ref,
           MayMint(W, key, kind, amount, expires, ref)
    PROVE  LET V == create_grant(W, key, kind, amount, expires, ref)
               lot == amount - Least(amount, AtLeastZero(-(W.balance - amount)))
           IN  /\ Sound(V) /\ V.balance = W.balance /\ V.txns = W.txns
               /\ lot \in Nat
               /\ \A k \in Kinds :
                    Held(V, k) = Held(W, k) + (IF kind = k THEN lot ELSE 0)
  <1>0. /\ Sound(W) /\ key \in DOMAIN W.txns /\ key \notin DOMAIN W.grants
        /\ SlicesFor(W, key) = {} /\ W.txns[key].amount = amount
        /\ amount \in Nat \ {0} /\ kind \in Kinds /\ expires \in Nat
        /\ ref \in GrantKeys \cup Attempts
        /\ \A a \in Attempts : key = SourceLot(a) => kind = "paid"
        /\ \A g : key # <<"expiry", g>>
    BY DEF MayMint
  <1> DEFINE V == create_grant(W, key, kind, amount, expires, ref)
             old == W.balance - amount
             recoup == Least(amount, AtLeastZero(-old))
             D == DOMAIN W.grants
             lot == [kind |-> kind, granted |-> amount, remaining |-> amount - recoup,
                     expired |-> 0, voided |-> 0, expires |-> expires,
                     status |-> IF recoup = amount THEN "depleted" ELSE "active",
                     ref |-> ref, born |-> Cardinality(D)]
             r == [k \in {key} |-> lot]
             G == With(W.grants, r)
             q == <<key, key>>
             slice == [amount |-> recoup, refunded |-> 0, type |-> "overage_recoup"]
             t == [p \in {q} |-> slice]
             A == IF old < 0 THEN With(W.allocs, t) ELSE W.allocs
  <1>1. /\ DOMAIN W = Fields /\ W.balance \in Int /\ LotsTyped(W) /\ SlicesTyped(W)
        /\ RowsTyped(W) /\ KeysKept(W) /\ IsFiniteSet(D)
    BY <1>0 DEF Sound, Typed, LotsTyped
  <1>2. V = [W EXCEPT !.grants = G, !.allocs = A]
    BY DEF create_grant
  <1>3. recoup \in 0..amount /\ amount - recoup \in Nat /\ recoup \in Nat /\ (old >= 0 => recoup = 0)
        /\ old \in Int
    BY <1>0, <1>1 DEF Least, AtLeastZero
  <1>4. Cardinality(D) \in Nat /\ IsFiniteSet(D \cup {key})
        /\ Cardinality(D \cup {key}) = Cardinality(D) + 1
    BY <1>0, <1>1, FS_AddElement, FS_CardinalityType
  <1> HIDE DEF recoup, old
  <1>5. /\ lot \in LotType /\ lot.kind = kind /\ lot.granted = amount
        /\ lot.remaining = amount - recoup /\ lot.expired = 0 /\ lot.voided = 0
        /\ lot.status = (IF recoup = amount THEN "depleted" ELSE "active")
        /\ lot.born = Cardinality(D)
    BY <1>0, <1>3, <1>4 DEF LotType, Statuses
  <1>6. DOMAIN r = {key} /\ r[key] = lot /\ DOMAIN t = {q} /\ t[q] = slice
    OBVIOUS
  <1>7. slice \in [amount : Nat, refunded : Nat, type : SliceTypes]
        /\ slice.amount = recoup /\ slice.refunded = 0
    BY <1>3 DEF SliceTypes
  <1> HIDE DEF r, t, lot, slice
  <1>8. /\ DOMAIN G = D \cup DOMAIN r /\ \A g \in DOMAIN r : G[g] = r[g]
        /\ \A g \in D \ DOMAIN r : G[g] = W.grants[g]
    BY ONLY WithRows DEF G
  <1>9. /\ DOMAIN With(W.allocs, t) = DOMAIN W.allocs \cup DOMAIN t
        /\ \A p \in DOMAIN t : With(W.allocs, t)[p] = t[p]
        /\ \A p \in DOMAIN W.allocs \ DOMAIN t : With(W.allocs, t)[p] = W.allocs[p]
    BY ONLY WithRows
  <1>10. /\ DOMAIN G = D \cup {key} /\ G[key] = lot /\ \A g \in D : G[g] = W.grants[g]
    BY <1>0, <1>6, <1>8
  <1>11. q \notin DOMAIN W.allocs
    BY <1>0 DEF SlicesFor
  <1>12. /\ old < 0 => DOMAIN A = DOMAIN W.allocs \cup {q} /\ A[q] = slice
         /\ ~(old < 0) => DOMAIN A = DOMAIN W.allocs
         /\ \A p \in DOMAIN W.allocs : A[p] = W.allocs[p]
    BY <1>6, <1>9, <1>11
  <1>13. A \in [DOMAIN A -> [amount : Nat, refunded : Nat, type : SliceTypes]]
    <2> DEFINE T == [amount : Nat, refunded : Nat, type : SliceTypes]
    <2>1. W.allocs \in [DOMAIN W.allocs -> T]
      BY <1>1 DEF SlicesTyped
    <2>2. slice \in T
      BY <1>7
    <2> HIDE DEF T, q
    <2>3. CASE old < 0
      <3>1. \A p \in DOMAIN A : A[p] \in T
        BY <1>12, <2>1, <2>2, <2>3
      <3>2. A = [p \in DOMAIN A |-> A[p]]
        BY <2>3 DEF With
      <3> QED BY <3>1, <3>2 DEF T
    <2>4. CASE ~(old < 0)
      BY <2>1, <2>4 DEF T
    <2> QED BY <2>3, <2>4
  <1>14. G \in [DOMAIN G -> LotType]
    <2>1. \A g \in DOMAIN G : G[g] \in LotType
      BY <1>1, <1>5, <1>10, LotFacts
    <2> QED BY <2>1 DEF G, With
  <1> HIDE DEF V, G, A
  <1>15. /\ DOMAIN V = Fields /\ V.balance = W.balance /\ V.txns = W.txns
         /\ V.grants = G /\ V.allocs = A
    BY <1>1, <1>2 DEF Fields
  <1>16. LotsTyped(V)
    <2>1. IsFiniteSet(DOMAIN V.grants) /\ V.grants \in [DOMAIN V.grants -> LotType]
      BY <1>4, <1>10, <1>14, <1>15
    <2>2. \A g \in D : /\ W.grants[g].born \in Nat /\ W.grants[g].born < Cardinality(D)
                       /\ W.grants[g].remaining <= W.grants[g].granted
                       /\ (W.grants[g].status = "active") <=> (W.grants[g].remaining > 0)
      BY <1>1, LotFacts DEF LotsTyped
    <2>3. \A g \in DOMAIN V.grants :
            /\ V.grants[g].remaining <= V.grants[g].granted
            /\ (V.grants[g].status = "active") <=> (V.grants[g].remaining > 0)
            /\ V.grants[g].born < Cardinality(DOMAIN V.grants)
      <3> SUFFICES ASSUME NEW g \in D \cup {key}
                   PROVE  /\ G[g].remaining <= G[g].granted
                          /\ (G[g].status = "active") <=> (G[g].remaining > 0)
                          /\ G[g].born < Cardinality(D) + 1
        BY <1>4, <1>10, <1>15
      <3>1. CASE g \in D
        BY <1>4, <1>10, <2>2, <3>1
      <3>2. CASE g = key
        BY <1>0, <1>3, <1>4, <1>5, <1>10, <3>2
      <3> QED BY <3>1, <3>2
    <2>4. \A g, h \in DOMAIN V.grants : V.grants[g].born = V.grants[h].born => g = h
      <3>1. \A g, h \in D : W.grants[g].born = W.grants[h].born => g = h
        BY <1>1 DEF LotsTyped
      <3> QED BY <1>4, <1>5, <1>10, <1>15, <2>2, <3>1
    <2> QED BY <2>1, <2>3, <2>4 DEF LotsTyped
  <1>17. RowsTyped(V) /\ LedgerAddsUp(V)
    BY <1>0, <1>1, <1>15 DEF RowsTyped, LedgerAddsUp, AmountsOf, Sound
  <1>18. KeysKept(V)
    <2>1. DOMAIN V.grants \subseteq DOMAIN V.txns
      BY <1>0, <1>1, <1>10, <1>15 DEF KeysKept
    <2>2. \A g : <<"expiry", g>> \in DOMAIN V.txns => g \in DOMAIN V.grants /\ V.grants[g].status = "expired"
      BY <1>1, <1>10, <1>15 DEF KeysKept
    <2>3. \A e \in Events : <<"usage_deduction", e>> \in DOMAIN V.txns =>
                V.txns[<<"usage_deduction", e>>].amount = -Cost[e]
      BY <1>1, <1>15 DEF KeysKept
    <2>4. \A a \in Attempts : SourceLot(a) \in DOMAIN V.grants => V.grants[SourceLot(a)].kind = "paid"
      BY <1>0, <1>1, <1>5, <1>10, <1>15 DEF KeysKept
    <2> QED BY <2>1, <2>2, <2>3, <2>4 DEF KeysKept
  <1>19. SlicesTyped(V)
    <2>1. IsFiniteSet(DOMAIN A)
      <3>1. IsFiniteSet(DOMAIN W.allocs)
        BY <1>1 DEF SlicesTyped
      <3>2. IsFiniteSet(DOMAIN W.allocs \cup {q})
        BY <3>1, FS_AddElement
      <3> QED BY <1>12, <3>1, <3>2
    <2>2. ASSUME NEW p \in DOMAIN A
          PROVE  /\ p = <<p[1], p[2]>> /\ p[1] \in DOMAIN G /\ p[2] \in DOMAIN W.txns
                 /\ A[p].refunded <= A[p].amount
      <3>1. CASE p \in DOMAIN W.allocs
        BY <1>1, <1>10, <1>12, <3>1 DEF SlicesTyped
      <3>2. CASE p = q /\ old < 0
        <4>1. p = <<p[1], p[2]>> /\ p[1] \in DOMAIN G /\ p[2] \in DOMAIN W.txns
          BY <1>0, <1>10, <3>2
        <4>2. A[p].refunded <= A[p].amount
          BY <1>3, <1>7, <1>12, <3>2
        <4> QED BY <4>1, <4>2
      <3> QED BY <1>12, <3>1, <3>2
    <2> QED BY <1>13, <1>15, <2>1, <2>2 DEF SlicesTyped
  <1>20. /\ \A p \in DOMAIN W.allocs : Spent(V)[p] = Spent(W)[p] /\ Paid(V)[p] = Paid(W)[p]
         /\ old < 0 => Spent(V)[q] = recoup /\ Paid(V)[q] = recoup
    <2> HIDE DEF q
    <2>1. \A p \in DOMAIN W.allocs : p \in DOMAIN A /\ A[p] = W.allocs[p]
      BY <1>12
    <2>2. old < 0 => q \in DOMAIN A /\ A[q].amount = recoup /\ A[q].refunded = 0
      BY <1>7, <1>12
    <2> QED BY <1>3, <1>15, <2>1, <2>2 DEF Spent, Paid
  <1>21. SlicesOf(V, key) = (IF old < 0 THEN {q} ELSE {})
         /\ SlicesFor(V, key) = (IF old < 0 THEN {q} ELSE {})
    <2>1. \A p \in DOMAIN W.allocs : p[1] # key /\ p[2] # key
      BY <1>0, <1>1 DEF SlicesTyped, SlicesFor
    <2>2. q[1] = key /\ q[2] = key
      OBVIOUS
    <2> HIDE DEF q
    <2> QED BY <1>12, <1>15, <2>1, <2>2 DEF SlicesOf, SlicesFor
  <1>22. \A k : k # key => SlicesOf(V, k) = SlicesOf(W, k) /\ SlicesFor(V, k) = SlicesFor(W, k)
    <2>1. q[1] = key /\ q[2] = key
      OBVIOUS
    <2> HIDE DEF q
    <2> QED BY <1>12, <1>15, <2>1 DEF SlicesOf, SlicesFor
  <1> HIDE DEF q
  <1>23. SumOver(SlicesOf(V, key), Spent(V)) = recoup /\ SumOver(SlicesFor(V, key), Paid(V)) = recoup
    <2>1. CASE old < 0
      BY <1>3, <1>20, <1>21, <2>1, SumOfOne DEF SumOver
    <2>2. CASE ~(old < 0)
      BY <1>3, <1>21, <2>2, SumEmpty DEF SumOver
    <2> QED BY <2>1, <2>2
  <1>24. LotsAddUp(V)
    <2> SUFFICES ASSUME NEW g \in D \cup {key}
                 PROVE  G[g].granted = G[g].remaining
                          + SumOver(SlicesOf(V, g), Spent(V)) + G[g].expired + G[g].voided
      BY <1>10, <1>15 DEF LotsAddUp
    <2>1. CASE g \in D
      <3>1. IsFiniteSet(SlicesOf(W, g)) /\ SlicesOf(V, g) = SlicesOf(W, g)
        BY <1>0, <1>1, <1>22, <2>1, SliceFacts
      <3>2. \A p \in SlicesOf(W, g) : Spent(W)[p] \in Int /\ Spent(W)[p] = Spent(V)[p]
        BY <1>1, <1>20, SliceFacts DEF SlicesOf
      <3>3. SumOver(SlicesOf(V, g), Spent(V)) = SumOver(SlicesOf(W, g), Spent(W))
        BY <3>1, <3>2, SumSame DEF SumOver
      <3>4. LotsAddUp(W)
        BY <1>0 DEF Sound
      <3> QED BY <1>10, <2>1, <3>3, <3>4 DEF LotsAddUp
    <2>2. CASE g = key
      BY <1>0, <1>3, <1>5, <1>10, <1>23, <2>2
    <2> QED BY <2>1, <2>2
  <1>25. SlicesWithinRows(V)
    <2> SUFFICES ASSUME NEW k \in DOMAIN W.txns
                 PROVE  SumOver(SlicesFor(V, k), Paid(V)) <= Magnitude(W.txns[k].amount)
      BY <1>15 DEF SlicesWithinRows
    <2>1. CASE k # key
      <3>1. IsFiniteSet(SlicesFor(W, k)) /\ SlicesFor(V, k) = SlicesFor(W, k)
        BY <1>0, <1>1, <1>22, <2>1, SliceFacts
      <3>2. \A p \in SlicesFor(W, k) : Paid(W)[p] \in Int /\ Paid(W)[p] = Paid(V)[p]
        BY <1>1, <1>20, SliceFacts DEF SlicesFor
      <3>3. SumOver(SlicesFor(V, k), Paid(V)) = SumOver(SlicesFor(W, k), Paid(W))
        BY <3>1, <3>2, SumSame DEF SumOver
      <3> QED BY <1>0, <3>3 DEF Sound, SlicesWithinRows
    <2>2. CASE k = key
      <3>1. SumOver(SlicesFor(V, k), Paid(V)) = recoup
        BY <1>23, <2>2
      <3> QED BY <1>0, <1>3, <2>2, <3>1 DEF Magnitude
    <2> QED BY <2>1, <2>2
  <1>26. Sound(V)
    BY <1>1, <1>15, <1>16, <1>17, <1>18, <1>19, <1>24, <1>25 DEF Sound, Typed
  <1>27. ASSUME NEW k \in Kinds
         PROVE  Held(V, k) = Held(W, k) + (IF kind = k THEN amount - recoup ELSE 0)
    <2>1. \A g \in D : OfKind(W, k)[g] \in Int /\ OfKind(W, k)[g] = OfKind(V, k)[g]
      BY <1>1, <1>10, <1>15, LotFacts DEF OfKind
    <2>2. OfKind(V, k)[key] = (IF kind = k THEN amount - recoup ELSE 0)
      BY <1>5, <1>10, <1>15 DEF OfKind
    <2>3. SumFunctionOnSet(OfKind(W, k), D) = SumFunctionOnSet(OfKind(V, k), D)
      BY <1>1, <2>1, SumSame
    <2>4. \A g \in D \cup {key} : OfKind(V, k)[g] \in Int
      BY <1>3, <2>1, <2>2
    <2>5. SumFunctionOnSet(OfKind(V, k), D \cup {key}) =
            SumFunctionOnSet(OfKind(V, k), D) + OfKind(V, k)[key]
      BY <1>0, <1>1, <2>4, SumAdds
    <2> QED BY <1>10, <1>15, <2>2, <2>3, <2>5 DEF Held, SumOver
  <1> QED BY <1>3, <1>15, <1>26, <1>27 DEF V, recoup, old

-----------------------------------------------------------------------------
(* A refund puts the slices of a deduction back.                            *)

LEMMA RefundSound ==
    ASSUME NEW W, Sound(W), NEW e \in Events, Cost \in [Events -> Nat]
    PROVE  LET V == GrantLedgerRefund(W, <<"usage_deduction", e>>)
           IN  /\ Sound(V) /\ V.balance = W.balance /\ V.txns = W.txns
               /\ \E x, y \in Nat :
                    /\ Held(V, "promo") = Held(W, "promo") + x
                    /\ Held(V, "paid") = Held(W, "paid") + y
                    /\ x + y <= Cost[e]
                    /\ x + y <= AtLeastZero(AtLeastZero(W.balance) - Remaining(W, Active(W)))
  <1> DEFINE original == <<"usage_deduction", e>>
             V == GrantLedgerRefund(W, original)
             headroom == AtLeastZero(W.balance) - Remaining(W, Active(W))
             funding == {g \in DOMAIN W.grants :
                           /\ <<g, original>> \in DOMAIN W.allocs
                           /\ W.allocs[<<g, original>>].type = "usage"
                           /\ W.grants[g].status \in {"active", "depleted"}}
             cap == [g \in funding |->
                       Least(W.allocs[<<g, original>>].amount - W.allocs[<<g, original>>].refunded,
                             W.grants[g].granted - W.grants[g].remaining)]
             take == Waterfall(W, cap, headroom)
             paid == {g \in funding : take[g] > 0}
             G == [g \in DOMAIN W.grants |->
                     IF g \in paid THEN LotPaidBack(W.grants[g], take[g]) ELSE W.grants[g]]
             A == [p \in DOMAIN W.allocs |->
                     IF p[2] = original /\ p[1] \in paid
                     THEN SliceRefunded(W.allocs[p], take[p[1]]) ELSE W.allocs[p]]
  <1>1. DOMAIN W = Fields /\ W.balance \in Int /\ LotsTyped(W) /\ SlicesTyped(W) /\ KeysKept(W)
    BY DEF Sound, Typed
  <1>2. V = [W EXCEPT !.grants = G, !.allocs = A]
    BY DEF GrantLedgerRefund
  <1> HIDE DEF original
  <1>3. funding \subseteq DOMAIN W.grants /\ paid \subseteq funding
        /\ IsFiniteSet(funding) /\ IsFiniteSet(paid)
    BY <1>1, FS_Subset DEF LotsTyped
  <1>4. headroom \in Int
    <2>1. /\ Held(W, "promo") \in Nat /\ Held(W, "paid") \in Nat
          /\ Remaining(W, Active(W)) = Held(W, "promo") + Held(W, "paid")
      BY ONLY <1>1, PoolSums
    <2> QED BY <1>1, <2>1 DEF AtLeastZero
  <1> HIDE DEF headroom
  <1>5. DOMAIN cap = funding
        /\ \A g \in funding :
             /\ cap[g] \in Nat
             /\ cap[g] <= W.allocs[<<g, original>>].amount - W.allocs[<<g, original>>].refunded
             /\ cap[g] <= W.grants[g].granted - W.grants[g].remaining
    <2> SUFFICES ASSUME NEW g \in funding
                 PROVE  /\ cap[g] \in Nat
                        /\ cap[g] <= W.allocs[<<g, original>>].amount
                                       - W.allocs[<<g, original>>].refunded
                        /\ cap[g] <= W.grants[g].granted - W.grants[g].remaining
      OBVIOUS
    <2> DEFINE m == W.allocs[<<g, original>>].amount
               n == W.allocs[<<g, original>>].refunded
    <2>1. cap[g] = Least(m - n, W.grants[g].granted - W.grants[g].remaining)
      OBVIOUS
    <2>2. m \in Nat /\ n \in Nat /\ n <= m
      BY <1>1, SliceFacts
    <2>3. W.grants[g].granted \in Nat /\ W.grants[g].remaining \in Nat
          /\ W.grants[g].remaining <= W.grants[g].granted
      BY <1>1, <1>3, LotFacts
    <2> HIDE DEF cap, funding, m, n
    <2>4. cap[g] \in Nat /\ cap[g] <= m - n /\ cap[g] <= W.grants[g].granted - W.grants[g].remaining
      BY <2>1, <2>2, <2>3 DEF Least
    <2> QED BY <2>4 DEF m, n
  <1>6. /\ \A g \in funding : take[g] \in 0..cap[g] /\ take[g] \in Nat
        /\ SumOver(funding, take) = Least(AtLeastZero(headroom), SumOver(funding, cap))
    <2> HIDE DEF cap, funding
    <2>1. /\ \A g \in DOMAIN cap : take[g] \in 0..cap[g]
          /\ SumOver(DOMAIN cap, take) = Least(AtLeastZero(headroom), SumOver(DOMAIN cap, cap))
      BY <1>1, <1>3, <1>4, <1>5, WaterfallFills
    <2> HIDE DEF take
    <2> QED BY <1>5, <2>1
  <1>7. \A g \in funding : <<g, original>> \in DOMAIN W.allocs /\ W.grants[g].status # "expired"
    OBVIOUS
  <1>8. /\ DOMAIN G = DOMAIN W.grants
        /\ \A g \in paid : G[g] = LotPaidBack(W.grants[g], take[g])
        /\ \A g \in DOMAIN W.grants \ paid : G[g] = W.grants[g]
    <2> HIDE DEF paid, take
    <2> QED BY <1>3
  <1>9. \A g \in paid : take[g] > 0 /\ g \in funding /\ g \in DOMAIN W.grants
    BY <1>3
  <1>10. \A g \in funding \ paid : take[g] = 0
    <2> HIDE DEF funding, cap, take
    <2> QED BY <1>6
  <1>11. /\ DOMAIN A = DOMAIN W.allocs
         /\ \A p \in DOMAIN W.allocs :
              A[p] = IF p[2] = original /\ p[1] \in paid
                     THEN SliceRefunded(W.allocs[p], take[p[1]]) ELSE W.allocs[p]
    <2> HIDE DEF take, paid
    <2> QED OBVIOUS
  <1>12. G = [g \in DOMAIN G |-> G[g]] /\ A = [p \in DOMAIN A |-> A[p]]
    <2> HIDE DEF take, paid
    <2> QED OBVIOUS
  <1> HIDE DEF V, cap, take, paid, funding, G, A
  <1>13. /\ DOMAIN V = Fields /\ V.balance = W.balance /\ V.txns = W.txns
         /\ V.grants = G /\ V.allocs = A
    BY <1>1, <1>2 DEF Fields
  <1>14. \A g \in paid :
           /\ G[g] \in LotType
           /\ G[g].kind = W.grants[g].kind /\ G[g].granted = W.grants[g].granted
           /\ G[g].born = W.grants[g].born /\ G[g].remaining = W.grants[g].remaining + take[g]
           /\ G[g].status = "active"
           /\ G[g].expired = W.grants[g].expired /\ G[g].voided = W.grants[g].voided
    <2> SUFFICES ASSUME NEW g \in paid
                 PROVE  /\ G[g] \in LotType
                        /\ G[g].kind = W.grants[g].kind /\ G[g].granted = W.grants[g].granted
                        /\ G[g].born = W.grants[g].born
                        /\ G[g].remaining = W.grants[g].remaining + take[g]
                        /\ G[g].status = "active"
                        /\ G[g].expired = W.grants[g].expired /\ G[g].voided = W.grants[g].voided
      OBVIOUS
    <2>1. W.grants[g] \in LotType /\ take[g] \in Nat
      BY <1>1, <1>6, <1>9, LotFacts
    <2>2. G[g] = LotPaidBack(W.grants[g], take[g])
      BY <1>8
    <2> DEFINE lot == W.grants[g]
               n == take[g]
    <2>3. lot \in LotType /\ n \in Nat /\ G[g] = LotPaidBack(lot, n)
      BY <2>1, <2>2
    <2> HIDE DEF lot, n
    <2>4. LET new == LotPaidBack(lot, n)
          IN  /\ new \in LotType /\ new.kind = lot.kind /\ new.granted = lot.granted
              /\ new.born = lot.born /\ new.remaining = lot.remaining + n
              /\ new.status = "active"
              /\ new.expired = lot.expired /\ new.voided = lot.voided
      BY ONLY <2>3, LotTakesBack
    <2> QED BY ONLY <2>3, <2>4 DEF lot, n
  <1>15. G \in [DOMAIN W.grants -> LotType]
    <2>1. \A g \in DOMAIN W.grants : G[g] \in LotType
      BY <1>1, <1>8, <1>14, LotFacts
    <2> QED BY <1>8, <1>12, <2>1
  <1>16. Reshaped(W, V)
    <2>1. ASSUME NEW g \in DOMAIN W.grants
          PROVE  LET x == W.grants[g]
                     y == G[g]
                 IN  /\ y.kind = x.kind /\ y.granted = x.granted /\ y.born = x.born
                     /\ y.remaining <= y.granted
                     /\ (y.status = "active") <=> (y.remaining > 0)
                     /\ x.status = "expired" => y.status = "expired"
      <3>1. CASE g \in paid
        <4>2. take[g] > 0 /\ g \in funding /\ W.grants[g].status # "expired"
          BY <1>7, <1>9, <3>1
        <4>3. cap[g] \in Nat /\ cap[g] <= W.grants[g].granted - W.grants[g].remaining
          BY <1>5, <4>2
        <4>4. take[g] \in Nat /\ take[g] \in 0..cap[g]
          BY <1>6, <4>2
        <4>1. take[g] > 0 /\ take[g] \in Nat /\ cap[g] \in Nat /\ take[g] <= cap[g]
              /\ cap[g] <= W.grants[g].granted - W.grants[g].remaining
              /\ W.grants[g].status # "expired"
          BY <4>2, <4>3, <4>4
        <4> QED BY <1>1, <1>14, <3>1, <4>1, LotFacts
      <3>2. CASE g \notin paid
        BY <1>1, <1>8, <3>2, LotFacts
      <3> QED BY <3>1, <3>2
    <2> QED BY <1>8, <1>13, <1>15, <2>1 DEF Reshaped
  <1>17. /\ DOMAIN V = Fields /\ V.balance \in Int /\ LotsTyped(V) /\ RowsTyped(V) /\ KeysKept(V)
         /\ LedgerAddsUp(V)
    BY <1>16, ReshapedTyped
  <1>18. ASSUME NEW p \in DOMAIN W.allocs
         PROVE  LET d == IF p[2] = original /\ p[1] \in paid THEN take[p[1]] ELSE 0
                IN  /\ d \in Nat
                    /\ A[p] \in [amount : Nat, refunded : Nat, type : SliceTypes]
                    /\ A[p].refunded = W.allocs[p].refunded + d
                    /\ A[p].amount = W.allocs[p].amount /\ A[p].refunded <= A[p].amount
    <2>1. W.allocs[p] \in [amount : Nat, refunded : Nat, type : SliceTypes]
          /\ W.allocs[p].refunded <= W.allocs[p].amount
          /\ p = <<p[1], p[2]>>
      BY <1>1 DEF SlicesTyped
    <2>2. CASE p[2] = original /\ p[1] \in paid
      <3> DEFINE d == take[p[1]]
      <3>1. A[p] = SliceRefunded(W.allocs[p], d)
        BY <1>11, <2>2
      <3>2. W.allocs[p] = W.allocs[<<p[1], original>>]
        BY <2>1, <2>2
      <3>3. d \in Nat /\ cap[p[1]] \in Nat /\ d <= cap[p[1]]
            /\ cap[p[1]] <= W.allocs[p].amount - W.allocs[p].refunded
        BY <1>5, <1>6, <1>9, <2>2, <3>2
      <3> HIDE DEF d
      <3>4. W.allocs[p].refunded + d \in Nat /\ W.allocs[p].refunded + d <= W.allocs[p].amount
        BY <2>1, <3>3
      <3>5. /\ A[p] \in [amount : Nat, refunded : Nat, type : SliceTypes]
            /\ A[p].refunded = W.allocs[p].refunded + d
            /\ A[p].amount = W.allocs[p].amount
        BY <2>1, <3>1, <3>4 DEF SliceRefunded
      <3> QED BY <2>2, <3>3, <3>4, <3>5 DEF d
    <2>3. CASE ~(p[2] = original /\ p[1] \in paid)
      <3>1. A[p] = W.allocs[p]
        BY <1>11, <2>3
      <3> QED BY <2>1, <2>3, <3>1
    <2> QED BY <2>2, <2>3
  <1>19. SlicesTyped(V)
    <2>1. A \in [DOMAIN A -> [amount : Nat, refunded : Nat, type : SliceTypes]]
      BY <1>11, <1>12, <1>18
    <2>2. \A p \in DOMAIN A : A[p].refunded <= A[p].amount
      BY <1>11, <1>18
    <2> QED BY <1>1, <1>8, <1>11, <1>13, <2>1, <2>2 DEF SlicesTyped
  <1>20. /\ Paid(V) = Paid(W)
         /\ \A p \in DOMAIN W.allocs : ~(p[2] = original /\ p[1] \in paid) => Spent(V)[p] = Spent(W)[p]
         /\ \A g \in paid : Spent(V)[<<g, original>>] = Spent(W)[<<g, original>>] - take[g]
    <2>1. Paid(V) = Paid(W)
      BY <1>11, <1>13, <1>18 DEF Paid
    <2>2. ASSUME NEW p \in DOMAIN W.allocs, ~(p[2] = original /\ p[1] \in paid)
          PROVE  Spent(V)[p] = Spent(W)[p]
      BY <1>11, <1>13, <2>2 DEF Spent
    <2>3. ASSUME NEW g \in paid PROVE Spent(V)[<<g, original>>] = Spent(W)[<<g, original>>] - take[g]
      <3> DEFINE p == <<g, original>>
      <3>1. p \in DOMAIN W.allocs /\ p[1] = g /\ p[2] = original
        BY <1>7, <1>9
      <3> HIDE DEF p
      <3>2. A[p].refunded = W.allocs[p].refunded + take[g] /\ A[p].amount = W.allocs[p].amount
            /\ take[g] \in Nat
        BY <1>18, <3>1
      <3>3. W.allocs[p].refunded \in Nat /\ W.allocs[p].amount \in Nat
        BY <1>1, <3>1, SliceFacts
      <3>4. Spent(V)[p] = A[p].amount - A[p].refunded
            /\ Spent(W)[p] = W.allocs[p].amount - W.allocs[p].refunded
        BY <1>11, <1>13, <3>1 DEF Spent
      <3>5. Spent(V)[p] = Spent(W)[p] - take[g]
        BY <3>2, <3>3, <3>4
      <3> QED BY <3>5 DEF p
    <2> QED BY <2>1, <2>2, <2>3
  <1>21. \A k : SlicesOf(V, k) = SlicesOf(W, k) /\ SlicesFor(V, k) = SlicesFor(W, k)
    BY <1>11, <1>13 DEF SlicesOf, SlicesFor
  <1>22. LotsAddUp(V)
    <2> SUFFICES ASSUME NEW g \in DOMAIN W.grants
                 PROVE  G[g].granted = G[g].remaining
                          + SumOver(SlicesOf(V, g), Spent(V)) + G[g].expired + G[g].voided
      BY <1>8, <1>13 DEF LotsAddUp
    <2> DEFINE T == SlicesOf(W, g)
               s == SumOver(T, Spent(W))
               u == SumOver(T, Spent(V))
    <2>1. IsFiniteSet(T) /\ s \in Nat /\ T \subseteq DOMAIN W.allocs /\ SlicesOf(V, g) = T
          /\ \A p \in T : Spent(W)[p] \in Int /\ Spent(V)[p] \in Int
      <3>1. IsFiniteSet(T) /\ s \in Nat
        BY <1>1, SliceFacts
      <3>2. T \subseteq DOMAIN W.allocs /\ T \subseteq DOMAIN V.allocs /\ SlicesOf(V, g) = T
        BY <1>21 DEF SlicesOf
      <3>3. \A p \in T : Spent(W)[p] \in Int /\ Spent(V)[p] \in Int
        BY <1>1, <1>19, <3>2, SliceFacts
      <3> QED BY <3>1, <3>2, <3>3
    <2>2. W.grants[g].granted = W.grants[g].remaining + s + W.grants[g].expired + W.grants[g].voided
      BY DEF Sound, LotsAddUp
    <2>3. CASE g \in paid
      <3> DEFINE p == <<g, original>>
      <3>1. p \in T
        BY <1>7, <1>9, <2>3 DEF SlicesOf
      <3>2. Spent(V)[p] = Spent(W)[p] - take[g] /\ take[g] \in Nat
        BY <1>6, <1>9, <1>20, <2>3
      <3>3. \A w \in T \ {p} : Spent(W)[w] \in Int /\ Spent(W)[w] = Spent(V)[w]
        <4> SUFFICES ASSUME NEW w \in T \ {p} PROVE Spent(W)[w] = Spent(V)[w]
          BY <2>1
        <4>1. w \in DOMAIN W.allocs /\ w = <<w[1], w[2]>> /\ w[1] = g
          BY <1>1 DEF SlicesOf, SlicesTyped
        <4>2. w[2] # original
          BY <4>1
        <4> QED BY <1>20, <4>1, <4>2
      <3> HIDE DEF p, T
      <3>4. IsFiniteSet(T \ {p})
        BY <2>1, FS_Subset
      <3>5. SumFunctionOnSet(Spent(W), T \ {p}) = SumFunctionOnSet(Spent(V), T \ {p})
        BY <3>3, <3>4, SumSame
      <3>6. s = Spent(W)[p] + SumFunctionOnSet(Spent(W), T \ {p})
        BY <2>1, <3>1, SumTakes DEF SumOver
      <3>7. u = Spent(V)[p] + SumFunctionOnSet(Spent(V), T \ {p})
        BY <2>1, <3>1, SumTakes DEF SumOver
      <3>8. SumFunctionOnSet(Spent(V), T \ {p}) \in Int
        BY <2>1, <3>4, SumTakes
      <3> DEFINE z == SumFunctionOnSet(Spent(V), T \ {p})
      <3> HIDE DEF s, u, z
      <3>9. u = s - take[g] /\ Spent(W)[p] \in Int /\ s \in Int
        BY <2>1, <3>1, <3>2, <3>5, <3>6, <3>7, <3>8 DEF z
      <3>10. G[g].granted = G[g].remaining + u + G[g].expired + G[g].voided
        BY <1>1, <1>14, <2>2, <2>3, <3>2, <3>9, LotFacts
      <3> QED BY <2>1, <3>10 DEF u
    <2>4. CASE g \notin paid
      <3>1. \A w \in T : Spent(W)[w] \in Int /\ Spent(W)[w] = Spent(V)[w]
        <4> SUFFICES ASSUME NEW w \in T PROVE Spent(W)[w] = Spent(V)[w]
          BY <2>1
        <4>1. w \in DOMAIN W.allocs /\ w[1] = g
          BY DEF SlicesOf
        <4> QED BY <1>20, <2>4, <4>1
      <3> HIDE DEF T
      <3>2. s = u
        BY <2>1, <3>1, SumSame DEF SumOver
      <3> QED BY <1>8, <2>1, <2>2, <2>4, <3>2
    <2> QED BY <2>3, <2>4
  <1>23. SlicesWithinRows(V)
    BY <1>13, <1>20, <1>21 DEF Sound, SlicesWithinRows
  <1>24. Sound(V)
    BY <1>17, <1>19, <1>22, <1>23 DEF Sound, Typed
  <1>25. SumOver(funding, cap) <= Cost[e] /\ SumOver(funding, cap) \in Nat
    <2> DEFINE b == [g \in funding |-> <<g, original>>]
               f == [g \in funding |-> W.allocs[<<g, original>>].amount]
               B == {b[g] : g \in funding}
    <2>1. SumOver(funding, cap) \in Nat
      BY <1>3, <1>5, SumNat DEF SumOver
    <2>2. \A g \in funding : cap[g] \in Int /\ f[g] \in Int /\ cap[g] <= f[g]
      <3> SUFFICES ASSUME NEW g \in funding PROVE cap[g] \in Int /\ f[g] \in Int /\ cap[g] <= f[g]
        OBVIOUS
      <3> DEFINE p == <<g, original>>
      <3>1. W.allocs[p].amount \in Nat /\ W.allocs[p].refunded \in Nat
        BY <1>1, <1>7, SliceFacts
      <3> QED BY <1>5, <3>1
    <2>3. SumFunctionOnSet(cap, funding) <= SumFunctionOnSet(f, funding)
      <3> HIDE DEF f
      <3> QED BY <1>3, <2>2, SumMono
    <2>4. \A g \in funding : Paid(W)[b[g]] = f[g]
      BY <1>7 DEF Paid
    <2>5. \A g, h \in funding : b[g] = b[h] => g = h
      OBVIOUS
    <2>6. B \subseteq SlicesFor(W, original)
      BY <1>7 DEF SlicesFor
    <2>7. SumFunctionOnSet(Paid(W), B) = SumFunctionOnSet(f, funding)
      <3> HIDE DEF b, f
      <3> QED BY <1>3, <2>2, <2>4, <2>5, SumRenamed
    <2> HIDE DEF B, f, b
    <2>8. SumFunctionOnSet(Paid(W), B) <= SumFunctionOnSet(Paid(W), SlicesFor(W, original))
      <3> DEFINE F == SlicesFor(W, original)
      <3>0. F \subseteq DOMAIN W.allocs
        BY DEF SlicesFor
      <3>1. IsFiniteSet(F) /\ \A p \in F : Paid(W)[p] \in Nat
        <4> HIDE DEF F
        <4>1. \A p \in DOMAIN W.allocs : Paid(W)[p] \in Nat
          BY ONLY <1>1, SliceFacts
        <4>2. IsFiniteSet(F)
          BY ONLY <1>1, SliceFacts DEF F
        <4> QED BY ONLY <3>0, <4>1, <4>2
      <3> HIDE DEF F
      <3>2. SumFunctionOnSet(Paid(W), F) = SumFunctionOnSet(Paid(W), B) + SumFunctionOnSet(Paid(W), F \ B)
        BY <2>6, <3>1, SumParts DEF F
      <3>3. IsFiniteSet(B) /\ IsFiniteSet(F \ B) /\ B \subseteq F
        BY <2>6, <3>1, FS_Subset DEF F
      <3>4. SumFunctionOnSet(Paid(W), F \ B) \in Nat /\ SumFunctionOnSet(Paid(W), B) \in Nat
        BY <3>1, <3>3, SumNat
      <3> QED BY <3>2, <3>4 DEF F
    <2> DEFINE x == SumFunctionOnSet(Paid(W), B)
               y == SumFunctionOnSet(Paid(W), SlicesFor(W, original))
               z == SumFunctionOnSet(f, funding)
               w == SumFunctionOnSet(cap, funding)
    <2>9. y <= Cost[e] /\ y \in Nat
      <3>1. y \in Nat
        BY <1>1, SliceFacts DEF SumOver
      <3>2. CASE original \in DOMAIN W.txns
        <4>1. y <= Magnitude(W.txns[original].amount)
          BY <3>2 DEF Sound, SlicesWithinRows, SumOver
        <4>2. W.txns[original].amount = -Cost[e] /\ Cost[e] \in Nat
          BY <1>1, <3>2 DEF KeysKept, original
        <4> HIDE DEF y
        <4> QED BY <3>1, <4>1, <4>2 DEF Magnitude
      <3>3. CASE original \notin DOMAIN W.txns
        <4>1. SlicesFor(W, original) = {}
          BY <1>1, <3>3 DEF SlicesTyped, SlicesFor
        <4>2. y = 0
          BY <4>1, SumEmpty
        <4> QED BY <4>2
      <3> QED BY <3>1, <3>2, <3>3
    <2>10. x \in Int /\ z \in Int /\ w \in Int
      BY <1>3, <2>1, <2>2, <2>7, SumTakes DEF SumOver
    <2>11. w <= z /\ x = z /\ x <= y /\ w = SumOver(funding, cap)
      BY <2>3, <2>7, <2>8 DEF SumOver
    <2>12. Cost[e] \in Nat
      OBVIOUS
    <2> HIDE DEF x, y, z, w
    <2>13. w <= Cost[e]
      BY <2>9, <2>10, <2>11, <2>12
    <2> QED BY <2>1, <2>11, <2>13
  <1>26. SumOver(paid, take) = SumOver(funding, take)
    <2>1. \A g \in paid : take[g] \in Int
      BY <1>6, <1>9
    <2> QED BY <1>3, <1>10, <2>1, SumOnPart DEF SumOver
  <1>27. PICK x, y \in Nat :
            /\ Held(W, "promo") = Held(V, "promo") - x
            /\ Held(W, "paid") = Held(V, "paid") - y
            /\ x + y = SumOver(paid, take)
    <2>1. \A g \in paid : take[g] \in Nat
                          /\ W.grants[g].remaining = V.grants[g].remaining - take[g]
      BY <1>1, <1>6, <1>9, <1>13, <1>14, LotFacts
    <2>2. \A g \in DOMAIN V.grants : W.grants[g].kind = V.grants[g].kind
      BY <1>8, <1>13, <1>14
    <2>3. \A g \in DOMAIN V.grants \ paid : W.grants[g].remaining = V.grants[g].remaining
      BY <1>8, <1>13
    <2>4. Loses(V, W, paid, take)
      BY <1>1, <1>3, <1>8, <1>13, <1>17, <2>1, <2>2, <2>3 DEF Loses
    <2> QED BY <2>4, LotsLose
  <1>28. /\ Held(V, "promo") = Held(W, "promo") + x /\ Held(V, "paid") = Held(W, "paid") + y
         /\ x + y <= Cost[e] /\ x + y <= AtLeastZero(headroom)
    <2> DEFINE s == SumOver(funding, cap)
    <2>1. x + y = Least(AtLeastZero(headroom), s) /\ s \in Nat /\ s <= Cost[e] /\ Cost[e] \in Nat
      BY <1>6, <1>25, <1>26, <1>27
    <2>2. Held(V, "promo") \in Nat /\ Held(V, "paid") \in Nat
      BY <1>17, PoolSums
    <2> HIDE DEF s
    <2> QED BY <1>4, <1>27, <2>1, <2>2 DEF Least, AtLeastZero
  <1> QED BY <1>13, <1>24, <1>28 DEF V, original, headroom

-----------------------------------------------------------------------------
(* The pools of WalletPools: each kind of movement keeps the lots covered.  *)

\* An expiry or a void keeps the lots covered, and never makes the balance
\* negative (G3): the debit is clamped to the spendable balance.
LEMMA RetireKeepsCovered ==
    ASSUME NEW P \in WP!Pools, WP!Covered(P), NEW x \in 0..P.promo, NEW y \in 0..P.paid
    PROVE  /\ WP!Retire(P, x, y) \in WP!Pools
           /\ WP!Covered(WP!Retire(P, x, y))
           /\ P.balance >= 0 => WP!Retire(P, x, y).balance >= 0
  BY DEF WP!Pools, WP!Covered, WP!Retire, WP!Lots, WP!AtLeastZero, WP!Least

LEMMA SpendsKeepsCovered ==
    ASSUME NEW P \in WP!Pools, WP!Covered(P), NEW Q \in WP!Pools, WP!Spends(P, Q)
    PROVE  WP!Covered(Q)
  BY DEF WP!Pools, WP!Covered, WP!Spends, WP!Lots, WP!AtLeastZero, WP!Least

LEMMA WithdrawsKeepsCovered ==
    ASSUME NEW P \in WP!Pools, WP!Covered(P), NEW Q \in WP!Pools, WP!Withdraws(P, Q)
    PROVE  WP!Covered(Q)
  BY DEF WP!Pools, WP!Covered, WP!Withdraws, WP!Lots, WP!AtLeastZero, WP!Least

LEMMA MintsKeepsCovered ==
    ASSUME NEW P \in WP!Pools, WP!Covered(P), NEW Q \in WP!Pools, WP!Mints(P, Q)
    PROVE  WP!Covered(Q)
  BY DEF WP!Pools, WP!Covered, WP!Mints, WP!Lots, WP!AtLeastZero, WP!Least

LEMMA ReFundsKeepsCovered ==
    ASSUME NEW P \in WP!Pools, WP!Covered(P), NEW Q \in WP!Pools, WP!ReFunds(P, Q)
    PROVE  WP!Covered(Q)
  BY DEF WP!Pools, WP!Covered, WP!ReFunds, WP!Lots, WP!AtLeastZero, WP!Least

\* The cascade stops exactly where the lots are covered again.
LEMMA ClawsBackKeepsCovered ==
    ASSUME NEW P \in WP!Pools, WP!Covered(P), NEW Q \in WP!Pools, WP!ClawsBack(P, Q)
    PROVE  WP!Covered(Q)
  <1>1. PICK v \in 0..WP!Least(P.balance - Q.balance, P.paid) :
          /\ Q.paid <= P.paid - v
          /\ WP!Lots(P) - v - WP!Lots(Q) =
               WP!AtLeastZero(WP!Lots(P) - v - WP!AtLeastZero(Q.balance))
    BY DEF WP!ClawsBack
  <1>2. v \in Int
    BY <1>1 DEF WP!Least, WP!Pools
  <1> QED BY <1>1, <1>2 DEF WP!Pools, WP!Covered, WP!Lots, WP!AtLeastZero

LEMMA MovesKeepsCovered ==
    ASSUME NEW P \in WP!Pools, WP!Covered(P), NEW Q \in WP!Pools, WP!Moves(P, Q)
    PROVE  WP!Covered(Q)
  <1>1. CASE Q = P
    BY <1>1
  <1>2. CASE WP!Spends(P, Q)
    BY <1>2, SpendsKeepsCovered
  <1>3. CASE WP!Withdraws(P, Q)
    BY <1>3, WithdrawsKeepsCovered
  <1>4. CASE WP!Credits(P, Q)
    BY <1>4 DEF WP!Pools, WP!Covered, WP!Credits, WP!Lots, WP!AtLeastZero
  <1>5. CASE WP!Mints(P, Q)
    BY <1>5, MintsKeepsCovered
  <1>6. CASE WP!ReFunds(P, Q)
    BY <1>6, ReFundsKeepsCovered
  <1>7. CASE WP!ClawsBack(P, Q)
    BY <1>7, ClawsBackKeepsCovered
  <1> QED BY <1>1, <1>2, <1>3, <1>4, <1>5, <1>6, <1>7 DEF WP!Moves

\* The pools of WalletPools stay typed and covered.
THEOREM PoolsInvariant == WP!Spec => []WP!PoolsInv
  <1>1. WP!Init => WP!PoolsInv
    BY DEF WP!Init, WP!PoolsInv, WP!PoolsCovered, WP!Pools, WP!Covered, WP!Lots,
           WP!AtLeastZero
  <1>2. WP!PoolsInv /\ [WP!Next]_(PoolsOf(wallet)) => WP!PoolsInv'
    <2> SUFFICES ASSUME WP!PoolsInv, [WP!Next]_(PoolsOf(wallet)) PROVE WP!PoolsInv'
      OBVIOUS
    <2> DEFINE P == PoolsOf(wallet)
               Q == PoolsOf(wallet)'
    <2>0. P \in WP!Pools /\ WP!Covered(P)
      BY DEF WP!PoolsInv, WP!PoolsCovered
    <2>1. CASE Q = P
      BY <2>1, <2>0 DEF WP!PoolsInv, WP!PoolsCovered
    <2>2. CASE WP!Next
      <3>1. Q \in WP!Pools
        BY <2>2 DEF WP!Next, WP!Transaction
      <3>2. PICK x \in 0..P.promo, y \in 0..P.paid : WP!Moves(WP!Retire(P, x, y), Q)
        BY <2>2 DEF WP!Next, WP!Transaction
      <3> HIDE DEF P, Q
      <3>3. WP!Retire(P, x, y) \in WP!Pools /\ WP!Covered(WP!Retire(P, x, y))
        BY <2>0, RetireKeepsCovered
      <3>4. WP!Covered(Q)
        BY <3>1, <3>2, <3>3, MovesKeepsCovered
      <3> QED BY <3>1, <3>4 DEF WP!PoolsInv, WP!PoolsCovered, Q
    <2> QED BY <2>1, <2>2
  <1> QED BY <1>1, <1>2, PTL DEF WP!Spec

\* G1 of grants.py, of any wallet that moves money as WalletPools says: the
\* active lots never hold more than the spendable balance.
THEOREM PoolsStayCovered == WP!Spec => []WP!PoolsCovered
  BY PoolsInvariant, PTL DEF WP!PoolsInv

\* Two clawbacks in a row are one of both amounts.
LEMMA ClawsBackTwice ==
    ASSUME NEW P \in WP!Pools, WP!Covered(P), NEW Q \in WP!Pools, WP!ClawsBack(P, Q),
           NEW R \in WP!Pools, WP!ClawsBack(Q, R)
    PROVE  WP!ClawsBack(P, R)
  <1>1. PICK v \in 0..WP!Least(P.balance - Q.balance, P.paid) :
          /\ Q.paid <= P.paid - v
          /\ WP!Lots(P) - v - WP!Lots(Q) =
               WP!AtLeastZero(WP!Lots(P) - v - WP!AtLeastZero(Q.balance))
    BY DEF WP!ClawsBack
  <1>2. PICK u \in 0..WP!Least(Q.balance - R.balance, Q.paid) :
          /\ R.paid <= Q.paid - u
          /\ WP!Lots(Q) - u - WP!Lots(R) =
               WP!AtLeastZero(WP!Lots(Q) - u - WP!AtLeastZero(R.balance))
    BY DEF WP!ClawsBack
  <1>3. /\ P.balance \in Int /\ Q.balance \in Int /\ R.balance \in Int
        /\ P.paid \in Nat /\ Q.paid \in Nat /\ R.paid \in Nat
        /\ P.promo \in Nat /\ Q.promo \in Nat /\ R.promo \in Nat
    BY DEF WP!Pools
  <1>4. v \in Nat /\ u \in Nat /\ v <= P.balance - Q.balance /\ v <= P.paid
        /\ u <= Q.balance - R.balance /\ u <= Q.paid
    BY <1>1, <1>2, <1>3 DEF WP!Least
  <1>5. WP!Covered(Q)
    BY ClawsBackKeepsCovered
  <1>6. v + u \in 0..WP!Least(P.balance - R.balance, P.paid) /\ R.paid <= P.paid - (v + u)
    BY <1>1, <1>2, <1>3, <1>4 DEF WP!Least
  <1>7. WP!Lots(P) - (v + u) - WP!Lots(R) =
          WP!AtLeastZero(WP!Lots(P) - (v + u) - WP!AtLeastZero(R.balance))
    BY <1>1, <1>2, <1>3, <1>4, <1>5 DEF WP!Lots, WP!AtLeastZero, WP!Covered
  <1>8. R.balance <= P.balance /\ R.promo <= P.promo
    BY <1>3 DEF WP!ClawsBack
  <1> QED BY <1>6, <1>7, <1>8 DEF WP!ClawsBack

LEMMA ClawsBackBy ==
    ASSUME NEW P \in WP!Pools, NEW Q \in WP!Pools, NEW amount \in Nat,
           NEW v \in Nat, NEW x \in Nat, NEW y \in Nat, v <= amount,
           Q.balance = P.balance - amount, Q.promo = P.promo - x, Q.paid = P.paid - v - y,
           x + y = WP!AtLeastZero(WP!Lots(P) - v - WP!AtLeastZero(Q.balance))
    PROVE  WP!ClawsBack(P, Q)
  <1>1. v \in 0..WP!Least(P.balance - Q.balance, P.paid)
    BY DEF WP!Pools, WP!Least
  <1>2. WP!Lots(P) - v - WP!Lots(Q) = x + y
    BY DEF WP!Pools, WP!Lots
  <1>3. Q.balance <= P.balance /\ Q.promo <= P.promo /\ Q.paid <= P.paid - v
    BY DEF WP!Pools
  <1> QED BY <1>1, <1>2, <1>3 DEF WP!ClawsBack

\* Two retirements in a row are one of both amounts.
LEMMA RetireTwice ==
    ASSUME NEW P \in WP!Pools, NEW x \in 0..P.promo, NEW y \in 0..P.paid,
           NEW u \in Nat, NEW v \in Nat, x + u <= P.promo, y + v <= P.paid
    PROVE  WP!Retire(WP!Retire(P, x, y), u, v) = WP!Retire(P, x + u, y + v)
           /\ x + u \in 0..P.promo /\ y + v \in 0..P.paid
  BY DEF WP!Pools, WP!Retire, WP!AtLeastZero, WP!Least

-----------------------------------------------------------------------------
(* A wallet whose rows are sound and whose lots are covered.                *)

Good(W) == Sound(W) /\ WP!Covered(PoolsOf(W))

LEMMA PoolsFields ==
    ASSUME NEW W, Sound(W)
    PROVE  /\ PoolsOf(W) \in WP!Pools
           /\ PoolsOf(W) = [balance |-> W.balance, promo |-> Held(W, "promo"),
                            paid |-> Held(W, "paid")]
           /\ W.balance \in Int /\ Held(W, "promo") \in Nat /\ Held(W, "paid") \in Nat
  <1>1. LotsTyped(W) /\ W.balance \in Int
    BY DEF Sound, Typed
  <1>2. /\ Held(W, "promo") \in Nat /\ Held(W, "paid") \in Nat
        /\ Remaining(W, Promo(W)) = Held(W, "promo")
        /\ Remaining(W, Active(W) \ Promo(W)) = Held(W, "paid")
    BY <1>1, PoolSums
  <1>3. PoolsOf(W) = [balance |-> W.balance, promo |-> Held(W, "promo"),
                      paid |-> Held(W, "paid")]
    BY <1>2 DEF PoolsOf
  <1> QED BY <1>1, <1>2, <1>3 DEF WP!Pools

LEMMA CoveredMeans ==
    ASSUME NEW W, Sound(W)
    PROVE  WP!Covered(PoolsOf(W)) <=> Held(W, "promo") + Held(W, "paid") <= AtLeastZero(W.balance)
  BY PoolsFields DEF WP!Covered, WP!Lots, WP!AtLeastZero, AtLeastZero

-----------------------------------------------------------------------------
(* The movements.                                                           *)

\* A key that may be posted with an amount.
Fresh(W, key, amount) ==
    /\ key \notin DOMAIN W.txns /\ key[1] # "expiry" /\ amount \in Int
    /\ \A e \in Events : key = <<"usage_deduction", e>> => amount = -Cost[e]

\* V has the rows of W and those of K.
Grows(W, V, K) ==
    /\ DOMAIN V.txns = DOMAIN W.txns \cup K /\ K \cap DOMAIN W.txns = {}
    /\ \A k \in DOMAIN W.txns : V.txns[k] = W.txns[k]

\* One row is posted, and the lots are covered.
Made(W, V, key, type) == Good(V) /\ Grows(W, V, {key}) /\ V.txns[key].type = type

\* P is W with the row posted.
RowPosted(W, P, key, type, amount, ref) ==
    /\ Sound(P) /\ SlicesFor(P, key) = {} /\ key \in DOMAIN P.txns
    /\ P.txns[key].amount = amount /\ P.txns[key].type = type /\ P.txns[key].ref = ref
    /\ P.grants = W.grants /\ P.balance = W.balance + amount
    /\ Grows(W, P, {key}) /\ Active(P) = Active(W) /\ Promo(P) = Promo(W)
    /\ \A k : Held(P, k) = Held(W, k)
    /\ key \notin DOMAIN P.grants

LEMMA PostPools ==
    ASSUME NEW W, Sound(W), NEW key, NEW type, NEW amount, NEW ref, Fresh(W, key, amount)
    PROVE  RowPosted(W, Post(W, key, type, amount, ref), key, type, amount, ref)
  <1> DEFINE P == Post(W, key, type, amount, ref)
  <1>1. DOMAIN W = Fields /\ DOMAIN W.grants \subseteq DOMAIN W.txns
    BY DEF Sound, Typed, KeysKept
  <1>2. /\ P.balance = W.balance + amount /\ P.grants = W.grants
        /\ DOMAIN P.txns = DOMAIN W.txns \cup {key}
        /\ P.txns[key] = [type |-> type, amount |-> amount, ref |-> ref]
        /\ \A k \in DOMAIN W.txns : k # key => P.txns[k] = W.txns[k]
    BY ONLY <1>1, PostFields
  <1>3. /\ key \notin DOMAIN W.txns /\ amount \in Int
        /\ \A e \in Events : key = <<"usage_deduction", e>> => amount = -Cost[e]
        /\ \A g : key # <<"expiry", g>>
    BY DEF Fresh
  <1>4. Sound(P) /\ SlicesFor(P, key) = {}
    BY ONLY Sound(W), <1>3, PostSound
  <1> HIDE DEF P
  <1>5. P.txns[key].amount = amount /\ P.txns[key].type = type /\ P.txns[key].ref = ref
    BY ONLY <1>2
  <1>6. Grows(W, P, {key})
    BY <1>2, <1>3 DEF Grows
  <1>7. Active(P) = Active(W) /\ Promo(P) = Promo(W) /\ \A k : Held(P, k) = Held(W, k)
    BY <1>2 DEF Active, Promo, Held, OfKind
  <1>8. key \notin DOMAIN P.grants /\ key \in DOMAIN P.txns
    BY <1>1, <1>2, <1>3
  <1>9. RowPosted(W, P, key, type, amount, ref)
    BY <1>2, <1>4, <1>5, <1>6, <1>7, <1>8 DEF RowPosted
  <1> QED BY <1>9 DEF P

\* debit and draw_down_usage.
LEMMA SpendMade ==
    ASSUME NEW W, Good(W), NEW key, NEW type, NEW amount \in Nat, NEW ref,
           Fresh(W, key, -amount)
    PROVE  LET V == allocate(Post(W, key, type, -amount, ref), key, amount, Active(W), "usage")
           IN  Made(W, V, key, type) /\ WP!Moves(PoolsOf(W), PoolsOf(V))
  <1> DEFINE P == Post(W, key, type, -amount, ref)
             V == allocate(P, key, amount, Active(W), "usage")
  <1>0. RowPosted(W, P, key, type, -amount, ref)
    <2>1. Sound(W)
      BY DEF Good
    <2> QED BY ONLY <2>1, Fresh(W, key, -amount), PostPools
  <1> HIDE DEF P
  <1>1. /\ Sound(P) /\ SlicesFor(P, key) = {} /\ key \in DOMAIN P.txns
        /\ P.txns[key].amount = -amount /\ P.txns[key].type = type
        /\ P.balance = W.balance + (-amount)
        /\ Grows(W, P, {key}) /\ Active(P) = Active(W) /\ \A k : Held(P, k) = Held(W, k)
    BY <1>0 DEF RowPosted
  <1>2. MayPay(P, key, amount, Active(W), "usage")
    BY <1>1 DEF MayPay, AtLeastZero, Magnitude, Active, SliceTypes
  <1>3. /\ Sound(V) /\ V.balance = P.balance /\ V.txns = P.txns
        /\ \E x, y \in Nat :
             /\ Held(V, "promo") = Held(P, "promo") - x
             /\ Held(V, "paid") = Held(P, "paid") - y
             /\ x + y = Least(AtLeastZero(amount), Remaining(P, Active(W)))
    BY ONLY <1>2, AllocateSound
  <1> HIDE DEF V
  <1>4. PICK x, y \in Nat :
             /\ Held(V, "promo") = Held(P, "promo") - x
             /\ Held(V, "paid") = Held(P, "paid") - y
             /\ x + y = Least(AtLeastZero(amount), Remaining(P, Active(W)))
    BY <1>3
  <1>5. Remaining(P, Active(W)) = Held(W, "promo") + Held(W, "paid")
    BY <1>1, PoolSums DEF Sound, Typed
  <1>6. WP!Spends(PoolsOf(W), PoolsOf(V))
    <2>1. /\ PoolsOf(W) = [balance |-> W.balance, promo |-> Held(W, "promo"), paid |-> Held(W, "paid")]
          /\ W.balance \in Int /\ Held(W, "promo") \in Nat /\ Held(W, "paid") \in Nat
      BY PoolsFields DEF Good
    <2>2. PoolsOf(V) = [balance |-> V.balance, promo |-> Held(V, "promo"), paid |-> Held(V, "paid")]
      BY <1>3, PoolsFields
    <2>3. V.balance = W.balance - amount /\ Held(V, "promo") = Held(W, "promo") - x
          /\ Held(V, "paid") = Held(W, "paid") - y
          /\ x + y = Least(amount, Held(W, "promo") + Held(W, "paid"))
      BY <1>1, <1>3, <1>4, <1>5, <2>1 DEF AtLeastZero
    <2> QED BY <2>1, <2>2, <2>3 DEF WP!Spends, WP!Lots, WP!Least, Least
  <1>7. WP!Moves(PoolsOf(W), PoolsOf(V))
    BY <1>6 DEF WP!Moves
  <1>8. Good(V)
    BY <1>3, <1>7, PoolsFields, MovesKeepsCovered DEF Good
  <1>9. Made(W, V, key, type)
    BY <1>1, <1>3, <1>8 DEF Made, Grows
  <1> QED BY <1>7, <1>9 DEF V, P

\* withdraw: only paid lots pay, and promo money is not available.
LEMMA WithdrawMade ==
    ASSUME NEW W, Good(W), NEW key, NEW amount \in Nat, NEW ref, Fresh(W, key, -amount),
           ~(W.balance - Remaining(W, Promo(W)) < amount)
    PROVE  LET V == allocate(Post(W, key, "withdrawal", -amount, ref), key, amount,
                             Active(W) \ Promo(W), "withdrawal")
           IN  /\ Made(W, V, key, "withdrawal") /\ WP!Moves(PoolsOf(W), PoolsOf(V))
               /\ \A g \in Promo(W) : V.grants[g] = W.grants[g]
               /\ V.balance >= Remaining(W, Promo(W))
  <1> DEFINE P == Post(W, key, "withdrawal", -amount, ref)
             S == Active(W) \ Promo(W)
             V == allocate(P, key, amount, S, "withdrawal")
  <1>0. RowPosted(W, P, key, "withdrawal", -amount, ref)
    <2>1. Sound(W)
      BY DEF Good
    <2> QED BY ONLY <2>1, Fresh(W, key, -amount), PostPools
  <1> HIDE DEF P
  <1>1. /\ Sound(P) /\ SlicesFor(P, key) = {} /\ key \in DOMAIN P.txns
        /\ P.txns[key].amount = -amount /\ P.txns[key].type = "withdrawal"
        /\ P.balance = W.balance + (-amount) /\ P.grants = W.grants
        /\ Grows(W, P, {key}) /\ Active(P) = Active(W) /\ Promo(P) = Promo(W)
        /\ \A k : Held(P, k) = Held(W, k)
    BY <1>0 DEF RowPosted
  <1>2. MayPay(P, key, amount, S, "withdrawal")
    BY <1>1 DEF MayPay, AtLeastZero, Magnitude, Active, SliceTypes
  <1>3. \A g \in S : P.grants[g].kind = "paid"
    BY <1>1, LotFacts DEF Sound, Typed, Kinds, Active, Promo
  <1>4. /\ Sound(V) /\ V.balance = P.balance /\ V.txns = P.txns
        /\ \A g \in DOMAIN P.grants \ S : V.grants[g] = P.grants[g]
        /\ \E x, y \in Nat :
             /\ Held(V, "promo") = Held(P, "promo") - x
             /\ Held(V, "paid") = Held(P, "paid") - y
             /\ x + y = Least(AtLeastZero(amount), Remaining(P, S))
             /\ (\A g \in S : P.grants[g].kind = "paid") => x = 0
    <2> HIDE DEF S
    <2> QED BY ONLY <1>2, AllocateSound
  <1> HIDE DEF V
  <1>5. PICK y \in Nat :
             /\ Held(V, "promo") = Held(P, "promo") - 0
             /\ Held(V, "paid") = Held(P, "paid") - y
             /\ 0 + y = Least(AtLeastZero(amount), Remaining(P, S))
    BY <1>3, <1>4
  <1>6. Remaining(P, S) = Held(W, "paid") /\ Remaining(W, Promo(W)) = Held(W, "promo")
    BY <1>1, PoolSums DEF Sound, Typed, Good
  <1>7. WP!Withdraws(PoolsOf(W), PoolsOf(V)) /\ V.balance >= Remaining(W, Promo(W))
    <2>1. /\ PoolsOf(W) = [balance |-> W.balance, promo |-> Held(W, "promo"), paid |-> Held(W, "paid")]
          /\ W.balance \in Int /\ Held(W, "promo") \in Nat /\ Held(W, "paid") \in Nat
      BY PoolsFields DEF Good
    <2>2. PoolsOf(V) = [balance |-> V.balance, promo |-> Held(V, "promo"), paid |-> Held(V, "paid")]
      BY <1>4, PoolsFields
    <2>3. V.balance = W.balance - amount /\ Held(V, "promo") = Held(W, "promo")
          /\ Held(V, "paid") = Held(W, "paid") - y
          /\ y = Least(amount, Held(W, "paid")) /\ amount <= W.balance - Held(W, "promo")
      BY <1>1, <1>4, <1>5, <1>6, <2>1 DEF AtLeastZero
    <2> QED BY <1>6, <2>1, <2>2, <2>3 DEF WP!Withdraws, WP!Least, Least
  <1>8. WP!Moves(PoolsOf(W), PoolsOf(V))
    BY <1>7 DEF WP!Moves
  <1>9. Good(V)
    BY <1>4, <1>8, PoolsFields, MovesKeepsCovered DEF Good
  <1>10. Made(W, V, key, "withdrawal")
    BY <1>1, <1>4, <1>9 DEF Made, Grows
  <1>11. \A g \in Promo(W) : V.grants[g] = W.grants[g]
    BY <1>1, <1>4 DEF Promo, Active
  <1> QED BY <1>7, <1>8, <1>10, <1>11 DEF V, P

\* credit: base money.
LEMMA CreditMade ==
    ASSUME NEW W, Good(W), NEW key, NEW type, NEW amount \in Nat, NEW ref, Fresh(W, key, amount)
    PROVE  LET V == Post(W, key, type, amount, ref)
           IN  Made(W, V, key, type) /\ WP!Moves(PoolsOf(W), PoolsOf(V))
  <1> DEFINE V == Post(W, key, type, amount, ref)
  <1>0. RowPosted(W, V, key, type, amount, ref)
    <2>1. Sound(W)
      BY DEF Good
    <2> QED BY ONLY <2>1, Fresh(W, key, amount), PostPools
  <1> HIDE DEF V
  <1>1. /\ Sound(V) /\ V.txns[key].type = type /\ V.balance = W.balance + amount
        /\ Grows(W, V, {key}) /\ \A k : Held(V, k) = Held(W, k)
    BY <1>0 DEF RowPosted
  <1>2. WP!Credits(PoolsOf(W), PoolsOf(V))
    <2>1. /\ PoolsOf(W) = [balance |-> W.balance, promo |-> Held(W, "promo"), paid |-> Held(W, "paid")]
          /\ W.balance \in Int
      BY PoolsFields DEF Good
    <2>2. PoolsOf(V) = [balance |-> V.balance, promo |-> Held(V, "promo"), paid |-> Held(V, "paid")]
      BY <1>1, PoolsFields
    <2> QED BY <1>1, <2>1, <2>2 DEF WP!Credits
  <1>3. WP!Moves(PoolsOf(W), PoolsOf(V))
    BY <1>2 DEF WP!Moves
  <1>4. Good(V)
    BY <1>1, <1>3, PoolsFields, MovesKeepsCovered DEF Good
  <1> QED BY <1>1, <1>3, <1>4 DEF Made, V

\* mint_grant and credit_top_up.
LEMMA MintMade ==
    ASSUME NEW W, Good(W), NEW key, NEW type, NEW kind \in Kinds, NEW amount \in Nat \ {0},
           NEW expires \in Nat, NEW ref \in GrantKeys \cup Attempts, Fresh(W, key, amount),
           \A a \in Attempts : key = SourceLot(a) => kind = "paid"
    PROVE  LET V == create_grant(Post(W, key, type, amount, ref), key, kind, amount, expires, ref)
           IN  Made(W, V, key, type) /\ WP!Moves(PoolsOf(W), PoolsOf(V))
  <1> DEFINE P == Post(W, key, type, amount, ref)
             V == create_grant(P, key, kind, amount, expires, ref)
             lot == amount - Least(amount, AtLeastZero(-(P.balance - amount)))
  <1>0. RowPosted(W, P, key, type, amount, ref)
    <2>1. Sound(W)
      BY DEF Good
    <2> QED BY ONLY <2>1, Fresh(W, key, amount), PostPools
  <1> HIDE DEF P
  <1>1. /\ Sound(P) /\ SlicesFor(P, key) = {} /\ key \in DOMAIN P.txns
        /\ P.txns[key].amount = amount /\ P.txns[key].type = type
        /\ P.balance = W.balance + amount
        /\ Grows(W, P, {key}) /\ \A k : Held(P, k) = Held(W, k)
        /\ key \notin DOMAIN P.grants
    BY <1>0 DEF RowPosted
  <1>2. \A g : key # <<"expiry", g>>
    BY DEF Fresh
  <1>3. MayMint(P, key, kind, amount, expires, ref)
    BY <1>1, <1>2 DEF MayMint
  <1>4. /\ Sound(V) /\ V.balance = P.balance /\ V.txns = P.txns /\ lot \in Nat
        /\ \A k \in Kinds : Held(V, k) = Held(P, k) + (IF kind = k THEN lot ELSE 0)
    BY ONLY <1>3, MintSound
  <1> HIDE DEF V
  <1>5. WP!Mints(PoolsOf(W), PoolsOf(V))
    <2>1. /\ PoolsOf(W) = [balance |-> W.balance, promo |-> Held(W, "promo"), paid |-> Held(W, "paid")]
          /\ W.balance \in Int /\ Held(W, "promo") \in Nat /\ Held(W, "paid") \in Nat
      BY PoolsFields DEF Good
    <2>2. PoolsOf(V) = [balance |-> V.balance, promo |-> Held(V, "promo"), paid |-> Held(V, "paid")]
      BY <1>4, PoolsFields
    <2>3. lot = amount - Least(amount, AtLeastZero(-W.balance))
      BY <1>1, <2>1 DEF Least, AtLeastZero
    <2> HIDE DEF lot
    <2>4. /\ Held(V, "promo") = Held(W, "promo") + (IF kind = "promo" THEN lot ELSE 0)
          /\ Held(V, "paid") = Held(W, "paid") + (IF kind = "paid" THEN lot ELSE 0)
      BY <1>1, <1>4 DEF Kinds
    <2>5. V.balance - W.balance = amount
      BY <1>1, <1>4, <2>1
    <2>6. amount - WP!Least(amount, WP!AtLeastZero(-W.balance)) = lot
      BY <2>3 DEF WP!Least, WP!AtLeastZero, Least, AtLeastZero
    <2>7. \/ kind = "promo" /\ Held(V, "promo") = Held(W, "promo") + lot
             /\ Held(V, "paid") = Held(W, "paid")
          \/ kind = "paid" /\ Held(V, "promo") = Held(W, "promo")
             /\ Held(V, "paid") = Held(W, "paid") + lot
      BY <1>4, <2>1, <2>4 DEF Kinds
    <2> QED BY <2>1, <2>2, <2>5, <2>6, <2>7 DEF WP!Mints
  <1>6. WP!Moves(PoolsOf(W), PoolsOf(V))
    BY <1>5 DEF WP!Moves
  <1>7. Good(V)
    BY <1>4, <1>6, PoolsFields, MovesKeepsCovered DEF Good
  <1>8. Made(W, V, key, type)
    BY <1>1, <1>4, <1>7 DEF Made, Grows
  <1> QED BY <1>6, <1>8 DEF V, P
\* refund_usage: the slices go back under the headroom.
LEMMA RefundMade ==
    ASSUME NEW W, Good(W), NEW key, NEW e \in Events, NEW ref, Fresh(W, key, Cost[e])
    PROVE  LET V == GrantLedgerRefund(Post(W, key, "refund", Cost[e], ref), <<"usage_deduction", e>>)
           IN  Made(W, V, key, "refund") /\ WP!Moves(PoolsOf(W), PoolsOf(V))
  <1> DEFINE P == Post(W, key, "refund", Cost[e], ref)
             V == GrantLedgerRefund(P, <<"usage_deduction", e>>)
  <1>0. RowPosted(W, P, key, "refund", Cost[e], ref)
    <2>1. Sound(W)
      BY DEF Good
    <2> QED BY ONLY <2>1, Fresh(W, key, Cost[e]), PostPools
  <1>1. Cost[e] \in Nat /\ Cost \in [Events -> Nat]
    BY WalletAssumption
  <1> HIDE DEF P
  <1>2. /\ Sound(P) /\ P.txns[key].type = "refund" /\ P.balance = W.balance + Cost[e]
        /\ Grows(W, P, {key}) /\ \A k : Held(P, k) = Held(W, k)
    BY <1>0 DEF RowPosted
  <1>3. /\ Sound(V) /\ V.balance = P.balance /\ V.txns = P.txns
        /\ \E x, y \in Nat :
             /\ Held(V, "promo") = Held(P, "promo") + x
             /\ Held(V, "paid") = Held(P, "paid") + y
             /\ x + y <= Cost[e]
             /\ x + y <= AtLeastZero(AtLeastZero(P.balance) - Remaining(P, Active(P)))
    BY ONLY <1>1, <1>2, RefundSound, e \in Events
  <1> HIDE DEF V
  <1>4. PICK x, y \in Nat :
             /\ Held(V, "promo") = Held(P, "promo") + x
             /\ Held(V, "paid") = Held(P, "paid") + y
             /\ x + y <= Cost[e]
             /\ x + y <= AtLeastZero(AtLeastZero(P.balance) - Remaining(P, Active(P)))
    BY <1>3
  <1>5. Remaining(P, Active(P)) = Held(W, "promo") + Held(W, "paid")
    BY <1>2, PoolSums DEF Sound, Typed
  <1>6. WP!ReFunds(PoolsOf(W), PoolsOf(V))
    <2>1. /\ PoolsOf(W) = [balance |-> W.balance, promo |-> Held(W, "promo"), paid |-> Held(W, "paid")]
          /\ W.balance \in Int /\ Held(W, "promo") \in Nat /\ Held(W, "paid") \in Nat
      BY PoolsFields DEF Good
    <2>2. PoolsOf(V) = [balance |-> V.balance, promo |-> Held(V, "promo"), paid |-> Held(V, "paid")]
      BY <1>3, PoolsFields
    <2>3. V.balance = W.balance + Cost[e] /\ Held(V, "promo") = Held(W, "promo") + x
          /\ Held(V, "paid") = Held(W, "paid") + y
          /\ x + y <= Cost[e]
          /\ x + y <= AtLeastZero(AtLeastZero(V.balance) - (Held(W, "promo") + Held(W, "paid")))
      BY <1>2, <1>3, <1>4, <1>5
    <2> QED BY <1>1, <2>1, <2>2, <2>3 DEF WP!ReFunds, WP!Lots, WP!Least, WP!AtLeastZero, AtLeastZero
  <1>7. WP!Moves(PoolsOf(W), PoolsOf(V))
    BY <1>6 DEF WP!Moves
  <1>8. Good(V)
    BY <1>3, <1>7, PoolsFields, MovesKeepsCovered DEF Good
  <1>9. Made(W, V, key, "refund")
    BY <1>2, <1>3, <1>8 DEF Made, Grows
  <1> QED BY <1>7, <1>9 DEF V, P

\* claw_back_dispute and the steps of claw_back_stripe_refund.
LEMMA ClawMade ==
    ASSUME NEW W, Good(W), NEW key, NEW type, NEW amount \in Nat, NEW ref,
           Fresh(W, key, -amount), NEW a \in Attempts
    PROVE  LET V == clawback(Post(W, key, type, -amount, ref), key, amount, SourceLot(a))
           IN  /\ Made(W, V, key, type) /\ WP!ClawsBack(PoolsOf(W), PoolsOf(V))
               /\ V.txns[key].amount = -amount /\ V.txns[key].ref = ref
  <1> DEFINE P == Post(W, key, type, -amount, ref)
             V == clawback(P, key, amount, SourceLot(a))
  <1>0. RowPosted(W, P, key, type, -amount, ref)
    <2>1. Sound(W)
      BY DEF Good
    <2> QED BY ONLY <2>1, Fresh(W, key, -amount), PostPools
  <1> HIDE DEF P
  <1>1. /\ Sound(P) /\ SlicesFor(P, key) = {} /\ key \in DOMAIN P.txns
        /\ P.txns[key].amount = -amount /\ P.txns[key].type = type /\ P.txns[key].ref = ref
        /\ P.balance = W.balance + (-amount)
        /\ Grows(W, P, {key}) /\ \A k : Held(P, k) = Held(W, k)
    BY <1>0 DEF RowPosted
  <1>2. /\ PoolsOf(W) = [balance |-> W.balance, promo |-> Held(W, "promo"), paid |-> Held(W, "paid")]
        /\ W.balance \in Int /\ Held(W, "promo") \in Nat /\ Held(W, "paid") \in Nat
        /\ Held(W, "promo") + Held(W, "paid") <= AtLeastZero(W.balance)
    BY PoolsFields, CoveredMeans DEF Good
  <1>3. Held(P, "promo") + Held(P, "paid") <= AtLeastZero(P.balance + amount)
    <2>1. P.balance + amount = W.balance
      BY <1>1, <1>2
    <2> QED BY <1>1, <1>2, <2>1
  <1>4. /\ Sound(V) /\ V.balance = P.balance /\ V.txns = P.txns
        /\ \E v, x, y \in Nat :
             /\ v <= amount
             /\ Held(V, "promo") = Held(P, "promo") - x
             /\ Held(V, "paid") = Held(P, "paid") - v - y
             /\ x + y = AtLeastZero(Held(P, "promo") + Held(P, "paid") - v
                                     - AtLeastZero(P.balance))
    BY ONLY <1>1, <1>3, ClawbackSound, amount \in Nat, a \in Attempts
  <1> HIDE DEF V
  <1>5. PICK v, x, y \in Nat :
             /\ v <= amount
             /\ Held(V, "promo") = Held(P, "promo") - x
             /\ Held(V, "paid") = Held(P, "paid") - v - y
             /\ x + y = AtLeastZero(Held(P, "promo") + Held(P, "paid") - v
                                     - AtLeastZero(P.balance))
    BY <1>4
  <1>6. /\ PoolsOf(V) = [balance |-> V.balance, promo |-> Held(V, "promo"), paid |-> Held(V, "paid")]
        /\ Held(V, "promo") \in Nat /\ Held(V, "paid") \in Nat
    BY <1>4, PoolsFields
  <1>7. WP!ClawsBack(PoolsOf(W), PoolsOf(V))
    <2>1. V.balance = W.balance - amount /\ Held(V, "promo") = Held(W, "promo") - x
          /\ Held(V, "paid") = Held(W, "paid") - v - y
          /\ x + y = AtLeastZero(Held(W, "promo") + Held(W, "paid") - v - AtLeastZero(V.balance))
      BY <1>1, <1>2, <1>4, <1>5
    <2>2. PoolsOf(W) \in WP!Pools /\ PoolsOf(V) \in WP!Pools
      BY <1>4, PoolsFields DEF Good
    <2>3. \A n \in Int : AtLeastZero(n) = WP!AtLeastZero(n)
      BY DEF WP!AtLeastZero, AtLeastZero
    <2>4. /\ PoolsOf(V).balance = PoolsOf(W).balance - amount
          /\ PoolsOf(V).promo = PoolsOf(W).promo - x /\ PoolsOf(V).paid = PoolsOf(W).paid - v - y
          /\ x + y = WP!AtLeastZero(WP!Lots(PoolsOf(W)) - v - WP!AtLeastZero(PoolsOf(V).balance))
      BY <1>2, <1>6, <2>1 DEF WP!Lots, WP!AtLeastZero, AtLeastZero
    <2> QED BY ONLY <2>2, <2>4, <1>5, ClawsBackBy, amount \in Nat, v \in Nat, x \in Nat, y \in Nat
  <1>8. Good(V)
    BY <1>4, <1>7, PoolsFields, ClawsBackKeepsCovered DEF Good
  <1>9. Made(W, V, key, type)
    BY <1>1, <1>4, <1>8 DEF Made, Grows
  <1> QED BY <1>1, <1>4, <1>7, <1>9 DEF V, P

\* V's pools are W's with some money retired.
Retired(W, V) ==
    \E x \in 0..PoolsOf(W).promo, y \in 0..PoolsOf(W).paid :
        PoolsOf(V) = WP!Retire(PoolsOf(W), x, y)

LEMMA RetiredGood ==
    ASSUME NEW W, Good(W), NEW V, Sound(V), NEW x \in Nat, NEW y \in Nat,
           Held(V, "promo") = Held(W, "promo") - x, Held(V, "paid") = Held(W, "paid") - y,
           V.balance = W.balance - Least(x + y, AtLeastZero(W.balance))
    PROVE  Good(V) /\ Retired(W, V)
  <1>1. /\ PoolsOf(W) = [balance |-> W.balance, promo |-> Held(W, "promo"), paid |-> Held(W, "paid")]
        /\ W.balance \in Int /\ Held(W, "promo") \in Nat /\ Held(W, "paid") \in Nat
        /\ PoolsOf(W) \in WP!Pools
    BY PoolsFields DEF Good
  <1>2. /\ PoolsOf(V) = [balance |-> V.balance, promo |-> Held(V, "promo"), paid |-> Held(V, "paid")]
        /\ Held(V, "promo") \in Nat /\ Held(V, "paid") \in Nat
    BY PoolsFields
  <1>3. x \in 0..PoolsOf(W).promo /\ y \in 0..PoolsOf(W).paid
    BY <1>1, <1>2
  <1>4. PoolsOf(V) = WP!Retire(PoolsOf(W), x, y)
    BY <1>1, <1>2 DEF WP!Retire, WP!Least, WP!AtLeastZero, Least, AtLeastZero
  <1>5. WP!Covered(PoolsOf(V))
    BY <1>1, <1>3, <1>4, RetireKeepsCovered DEF Good
  <1> QED BY <1>3, <1>4, <1>5 DEF Good, Retired

LEMMA ExpireMade ==
    ASSUME NEW W, Good(W)
    PROVE  /\ Good(expire_due(W)) /\ Retired(W, expire_due(W))
           /\ Grows(W, expire_due(W), ExpiryKeys(W))
           /\ \A k \in ExpiryKeys(W) : expire_due(W).txns[k].type = "grant_expiry"
  <1> DEFINE V == expire_due(W)
  <1>0. Sound(W)
    BY DEF Good
  <1>1. /\ Sound(V)
        /\ \E x, y \in Nat :
             /\ Held(V, "promo") = Held(W, "promo") - x
             /\ Held(V, "paid") = Held(W, "paid") - y
             /\ V.balance = W.balance - Least(x + y, AtLeastZero(W.balance))
    BY ONLY <1>0, ExpireSound
  <1>2. /\ DOMAIN V.txns = DOMAIN W.txns \cup ExpiryKeys(W)
        /\ \A k \in ExpiryKeys(W) :
              V.txns[k] = [type |-> "grant_expiry", amount |-> -ExpiryDebit(W)[k[2]], ref |-> k[2]]
        /\ \A k \in DOMAIN W.txns : V.txns[k] = W.txns[k]
    BY ONLY <1>0, ExpireFields
  <1>3. ExpiryKeys(W) \cap DOMAIN W.txns = {}
    BY ONLY <1>0, DueLots
  <1> HIDE DEF V
  <1>4. Good(V) /\ Retired(W, V)
    BY <1>1, RetiredGood
  <1>5. Grows(W, V, ExpiryKeys(W))
    BY ONLY <1>2, <1>3 DEF Grows
  <1>6. ASSUME NEW k \in ExpiryKeys(W) PROVE V.txns[k].type = "grant_expiry"
    <2> DEFINE m == -ExpiryDebit(W)[k[2]]
               r == k[2]
    <2>1. V.txns[k] = [type |-> "grant_expiry", amount |-> m, ref |-> r]
      BY ONLY <1>2, k \in ExpiryKeys(W)
    <2> HIDE DEF m, r
    <2> QED BY ONLY <2>1
  <1> QED BY <1>4, <1>5, <1>6 DEF V

\* void_grant of an active lot.
LEMMA VoidMade ==
    ASSUME NEW W, Good(W), NEW g \in Active(W), NEW key, NEW amount, NEW ref,
           amount = Least(W.grants[g].remaining, AtLeastZero(W.balance)), Fresh(W, key, -amount)
    PROVE  LET V == [Post(W, key, "grant_void", -amount, ref) EXCEPT
                        !.grants[g] = LotVoided(W.grants[g], W.grants[g].remaining)]
           IN  Made(W, V, key, "grant_void") /\ Retired(W, V)
  <1> DEFINE P == Post(W, key, "grant_void", -amount, ref)
             V == [P EXCEPT !.grants[g] = LotVoided(W.grants[g], W.grants[g].remaining)]
             void == W.grants[g].remaining
  <1>0. RowPosted(W, P, key, "grant_void", -amount, ref)
    <2>1. Sound(W)
      BY DEF Good
    <2> QED BY ONLY <2>1, Fresh(W, key, -amount), PostPools
  <1> HIDE DEF P
  <1>1. /\ Sound(P) /\ P.txns[key].type = "grant_void"
        /\ P.balance = W.balance + (-amount) /\ P.grants = W.grants
        /\ Grows(W, P, {key}) /\ Active(P) = Active(W) /\ \A k : Held(P, k) = Held(W, k)
    BY <1>0 DEF RowPosted
  <1>2. void \in Nat /\ void > 0
    BY <1>1, LotFacts DEF Active, Good, Sound, Typed
  <1>3. V = [P EXCEPT !.grants[g] = LotVoided(P.grants[g], void)] /\ void <= P.grants[g].remaining
    BY <1>1, <1>2
  <1> HIDE DEF V, void
  <1>4. /\ Sound(V) /\ V.balance = P.balance /\ V.txns = P.txns
        /\ \E x, y \in Nat :
             /\ Held(V, "promo") = Held(P, "promo") - x
             /\ Held(V, "paid") = Held(P, "paid") - y
             /\ x + y = void
    BY <1>1, <1>2, <1>3, VoidSound
  <1>5. PICK x, y \in Nat :
             /\ Held(V, "promo") = Held(P, "promo") - x
             /\ Held(V, "paid") = Held(P, "paid") - y
             /\ x + y = void
    BY <1>4
  <1>6. W.balance \in Int
    BY PoolsFields DEF Good
  <1>7. V.balance = W.balance - Least(x + y, AtLeastZero(W.balance))
    BY <1>1, <1>2, <1>4, <1>5, <1>6 DEF Least, AtLeastZero, void
  <1>8. Good(V) /\ Retired(W, V)
    BY <1>1, <1>4, <1>5, <1>7, RetiredGood
  <1>9. Made(W, V, key, "grant_void")
    BY <1>1, <1>4, <1>8 DEF Made, Grows
  <1> QED BY <1>8, <1>9 DEF V, P
-----------------------------------------------------------------------------
(* What the ledger took for a charge.                                       *)

RefundRows(W, a) == {k \in DOMAIN W.txns : W.txns[k].type = "stripe_refund" /\ W.txns[k].ref = a}

LEMMA AppliedFacts ==
    ASSUME NEW W, Sound(W), NEW a
    PROVE  /\ stripe_refund_applied(W, a) = -SumOver(RefundRows(W, a), AmountsOf(W))
           /\ IsFiniteSet(RefundRows(W, a)) /\ stripe_refund_applied(W, a) \in Int
           /\ \A k \in DOMAIN W.txns : AmountsOf(W)[k] = W.txns[k].amount /\ AmountsOf(W)[k] \in Int
  <1>1. IsFiniteSet(DOMAIN W.txns) /\ \A k \in DOMAIN W.txns : W.txns[k].amount \in Int
    BY DEF Sound, Typed, RowsTyped
  <1>2. \A k \in DOMAIN W.txns : AmountsOf(W)[k] = W.txns[k].amount /\ AmountsOf(W)[k] \in Int
    BY <1>1 DEF AmountsOf
  <1>3. RefundRows(W, a) \subseteq DOMAIN W.txns /\ IsFiniteSet(RefundRows(W, a))
    BY <1>1, FS_Subset DEF RefundRows
  <1>4. stripe_refund_applied(W, a) = -SumOver(RefundRows(W, a), AmountsOf(W))
    BY DEF stripe_refund_applied, RefundRows
  <1>5. SumFunctionOnSet(AmountsOf(W), RefundRows(W, a)) \in Int
    BY <1>2, <1>3, SumTakes
  <1> QED BY <1>2, <1>3, <1>4, <1>5 DEF SumOver

\* Other rows do not count.
LEMMA AppliedSame ==
    ASSUME NEW W, Sound(W), NEW V, Sound(V), NEW K, Grows(W, V, K), NEW a,
           \A k \in K : V.txns[k].type = "stripe_refund" => V.txns[k].ref # a
    PROVE  stripe_refund_applied(V, a) = stripe_refund_applied(W, a)
  <1>1. RefundRows(V, a) = RefundRows(W, a)
    BY DEF RefundRows, Grows
  <1>2. \A k \in RefundRows(W, a) : AmountsOf(W)[k] \in Int /\ AmountsOf(W)[k] = AmountsOf(V)[k]
    <2>1. \A k \in DOMAIN W.txns : AmountsOf(W)[k] = W.txns[k].amount /\ AmountsOf(W)[k] \in Int
      BY ONLY Sound(W), AppliedFacts
    <2>2. \A k \in DOMAIN V.txns : AmountsOf(V)[k] = V.txns[k].amount
      BY ONLY Sound(V), AppliedFacts
    <2> QED BY <2>1, <2>2 DEF RefundRows, Grows
  <1>3. SumOver(RefundRows(W, a), AmountsOf(W)) = SumOver(RefundRows(V, a), AmountsOf(V))
    BY <1>1, <1>2, AppliedFacts, SumSame DEF SumOver
  <1> QED BY <1>3, AppliedFacts

LEMMA AppliedMore ==
    ASSUME NEW W, Sound(W), NEW V, Sound(V), NEW key, Grows(W, V, {key}), NEW a, NEW m \in Int,
           V.txns[key].type = "stripe_refund", V.txns[key].ref = a, V.txns[key].amount = -m
    PROVE  stripe_refund_applied(V, a) = stripe_refund_applied(W, a) + m
  <1>1. RefundRows(V, a) = RefundRows(W, a) \cup {key} /\ key \notin RefundRows(W, a)
    BY DEF RefundRows, Grows
  <1>2. \A k \in RefundRows(W, a) : AmountsOf(W)[k] \in Int /\ AmountsOf(W)[k] = AmountsOf(V)[k]
    <2>1. \A k \in DOMAIN W.txns : AmountsOf(W)[k] = W.txns[k].amount /\ AmountsOf(W)[k] \in Int
      BY ONLY Sound(W), AppliedFacts
    <2>2. \A k \in DOMAIN V.txns : AmountsOf(V)[k] = V.txns[k].amount
      BY ONLY Sound(V), AppliedFacts
    <2> QED BY <2>1, <2>2 DEF RefundRows, Grows
  <1>3. AmountsOf(V)[key] = -m
    BY AppliedFacts DEF Grows
  <1>4. SumOver(RefundRows(W, a), AmountsOf(W)) = SumOver(RefundRows(W, a), AmountsOf(V))
    BY <1>2, AppliedFacts, SumSame DEF SumOver
  <1>5. SumOver(RefundRows(V, a), AmountsOf(V)) = SumOver(RefundRows(W, a), AmountsOf(V)) + (-m)
    <2>1. \A k \in RefundRows(W, a) \cup {key} : AmountsOf(V)[k] \in Int
      BY ONLY <1>2, <1>3, m \in Int
    <2>2. IsFiniteSet(RefundRows(W, a))
      BY ONLY Sound(W), AppliedFacts
    <2>3. SumFunctionOnSet(AmountsOf(V), RefundRows(W, a) \cup {key}) =
            SumFunctionOnSet(AmountsOf(V), RefundRows(W, a)) + AmountsOf(V)[key]
      BY ONLY <1>1, <2>1, <2>2, SumAdds
    <2> QED BY ONLY <1>1, <1>3, <2>3 DEF SumOver
  <1>6. SumOver(RefundRows(W, a), AmountsOf(W)) \in Int
    BY <1>2, AppliedFacts, SumTakes DEF SumOver
  <1> QED BY <1>4, <1>5, <1>6, AppliedFacts

-----------------------------------------------------------------------------
(* Reversals of a charge by Stripe.                                         *)

\* The events' own key: one level of the cumulative amount.
LevelKey(a, level) == <<"stripe_refund", a, "level", level>>

\* From W to V refunds of a's charge were taken, up to the level.
Clawed(W, V, a, level) ==
    /\ Good(V) /\ WP!ClawsBack(PoolsOf(W), PoolsOf(V))
    /\ stripe_refund_applied(W, a) <= stripe_refund_applied(V, a)
    /\ stripe_refund_applied(W, a) <= level => stripe_refund_applied(V, a) <= level
    /\ stripe_refund_applied(W, a) >= level =>
         stripe_refund_applied(V, a) = stripe_refund_applied(W, a)
    /\ \A b : b # a => stripe_refund_applied(V, b) = stripe_refund_applied(W, b)
    /\ \A b, l : LevelKey(b, l) \in DOMAIN V.txns \ DOMAIN W.txns =>
                   b = a /\ l = level /\ stripe_refund_applied(V, a) >= level
    /\ \E K : Grows(W, V, K) /\ \A k \in K : k[1] = "stripe_refund" /\ V.txns[k].type = "stripe_refund"

LEMMA NotClawed ==
    ASSUME NEW W, Good(W), NEW a, NEW level \in Int PROVE Clawed(W, W, a, level)
  <1>1. WP!ClawsBack(PoolsOf(W), PoolsOf(W))
    <2> DEFINE P == PoolsOf(W)
    <2>1. P \in WP!Pools /\ WP!Covered(P)
      BY PoolsFields DEF Good
    <2> HIDE DEF P
    <2>2. 0 \in 0..WP!Least(P.balance - P.balance, P.paid) /\ P.paid <= P.paid - 0
          /\ WP!Lots(P) - 0 - WP!Lots(P) = WP!AtLeastZero(WP!Lots(P) - 0 - WP!AtLeastZero(P.balance))
          /\ P.balance <= P.balance /\ P.promo <= P.promo
      BY <2>1 DEF WP!Pools, WP!Covered, WP!Lots, WP!Least, WP!AtLeastZero
    <2> QED BY <2>2 DEF WP!ClawsBack, P
  <1>2. stripe_refund_applied(W, a) \in Int
    BY AppliedFacts DEF Good
  <1>3. Grows(W, W, {})
    BY DEF Grows
  <1> QED BY <1>1, <1>2, <1>3 DEF Clawed

LEMMA ClawedTwice ==
    ASSUME NEW W, Good(W), NEW V, NEW U, NEW a, NEW level \in Int,
           Clawed(W, V, a, level), Clawed(V, U, a, level)
    PROVE  Clawed(W, U, a, level)
  <1>1. Good(V) /\ Good(U) /\ PoolsOf(W) \in WP!Pools /\ PoolsOf(V) \in WP!Pools /\ PoolsOf(U) \in WP!Pools
    BY PoolsFields DEF Clawed, Good
  <1>2. WP!ClawsBack(PoolsOf(W), PoolsOf(U))
    <2>1. WP!Covered(PoolsOf(W)) /\ WP!ClawsBack(PoolsOf(W), PoolsOf(V)) /\ WP!ClawsBack(PoolsOf(V), PoolsOf(U))
      BY DEF Clawed, Good
    <2> QED BY ONLY <1>1, <2>1, ClawsBackTwice
  <1>3. stripe_refund_applied(W, a) \in Int /\ stripe_refund_applied(V, a) \in Int
        /\ stripe_refund_applied(U, a) \in Int
    BY <1>1, AppliedFacts DEF Good
  <1>4. /\ stripe_refund_applied(W, a) <= stripe_refund_applied(U, a)
        /\ stripe_refund_applied(W, a) <= level => stripe_refund_applied(U, a) <= level
        /\ stripe_refund_applied(W, a) >= level =>
             stripe_refund_applied(U, a) = stripe_refund_applied(W, a)
    BY <1>3 DEF Clawed
  <1>5. \A b : b # a => stripe_refund_applied(U, b) = stripe_refund_applied(W, b)
    BY DEF Clawed
  <1>6. PICK J : Grows(W, V, J) /\ \A k \in J : k[1] = "stripe_refund" /\ V.txns[k].type = "stripe_refund"
    BY DEF Clawed
  <1>7. PICK K : Grows(V, U, K) /\ \A k \in K : k[1] = "stripe_refund" /\ U.txns[k].type = "stripe_refund"
    BY DEF Clawed
  <1>8. Grows(W, U, J \cup K)
        /\ \A k \in J \cup K : k[1] = "stripe_refund" /\ U.txns[k].type = "stripe_refund"
    BY <1>6, <1>7 DEF Grows
  <1>9. ASSUME NEW b, NEW l, LevelKey(b, l) \in DOMAIN U.txns \ DOMAIN W.txns
        PROVE  b = a /\ l = level /\ stripe_refund_applied(U, a) >= level
    <2>1. CASE LevelKey(b, l) \in DOMAIN V.txns
      <3>1. b = a /\ l = level /\ stripe_refund_applied(V, a) >= level
        BY <1>9, <2>1 DEF Clawed
      <3>2. stripe_refund_applied(V, a) <= stripe_refund_applied(U, a)
        BY DEF Clawed
      <3> QED BY <1>3, <3>1, <3>2
    <2>2. CASE LevelKey(b, l) \notin DOMAIN V.txns
      BY <1>9, <2>2 DEF Clawed
    <2> QED BY <2>1, <2>2
  <1> QED BY <1>1, <1>2, <1>4, <1>5, <1>8, <1>9 DEF Clawed

\* claw_back_stripe_refund takes what is missing of the level, up to the cap,
\* once under its key.
LEMMA ClawOnce ==
    ASSUME NEW W, Good(W), NEW a \in Attempts, NEW key, key[1] = "stripe_refund",
           NEW level \in Int, NEW cap \in Nat,
           \A b, l : key = LevelKey(b, l) => b = a /\ l = level /\ cap >= level /\ 0 <= stripe_refund_applied(W, a)
    PROVE  LET V == claw_back_stripe_refund(W, a, key, level, cap)
               delta == level - stripe_refund_applied(W, a)
           IN  /\ Clawed(W, V, a, level)
               /\ key \notin DOMAIN W.txns /\ delta >= 0 /\ delta <= cap =>
                    stripe_refund_applied(V, a) = level
  <1> DEFINE V == claw_back_stripe_refund(W, a, key, level, cap)
             applied == stripe_refund_applied(W, a)
             m == Least(cap, level - applied)
             U == clawback(Post(W, key, "stripe_refund", -m, a), key, m, SourceLot(a))
  <1>1. applied \in Int /\ m \in Int
    BY AppliedFacts DEF Good, Least
  <1>2. V = IF key \in DOMAIN W.txns \/ level - applied < 0 \/ m <= 0 THEN W ELSE U
    BY DEF claw_back_stripe_refund, Posted
  <1> HIDE DEF V
  <1>3. CASE V = W
    <2>1. Clawed(W, V, a, level)
      BY <1>3, NotClawed
    <2>2. ASSUME key \notin DOMAIN W.txns, level - applied >= 0, level - applied <= cap
          PROVE  stripe_refund_applied(V, a) = level
      <3>1. V = U \/ m <= 0
        BY <1>1, <1>2, <2>2
      <3>2. CASE m <= 0
        BY <1>1, <1>3, <2>2, <3>2 DEF Least
      <3>3. CASE V = U /\ m > 0
        <4>1. m \in Nat /\ key \in DOMAIN U.txns
          <5>1. m \in Nat
            BY <1>1, <3>3
          <5>2. Fresh(W, key, -m)
            BY <1>1, <2>2 DEF Fresh
          <5>3. Made(W, U, key, "stripe_refund")
            BY ONLY <5>1, <5>2, Good(W), a \in Attempts, ClawMade
          <5> QED BY <5>1, <5>3 DEF Made, Grows
        <4> QED BY <1>3, <2>2, <3>3, <4>1
      <3> QED BY <1>1, <3>1, <3>2, <3>3
    <2> QED BY <2>1, <2>2 DEF V
  <1>4. CASE V # W
    <2>1. V = U /\ key \notin DOMAIN W.txns /\ level - applied >= 0 /\ m > 0 /\ m \in Nat
      BY <1>1, <1>2, <1>4
    <2>2. Fresh(W, key, -m)
      BY <1>1, <2>1 DEF Fresh
    <2>3. /\ Made(W, U, key, "stripe_refund") /\ WP!ClawsBack(PoolsOf(W), PoolsOf(U))
          /\ U.txns[key].amount = -m /\ U.txns[key].ref = a
      BY ONLY <2>1, <2>2, Good(W), a \in Attempts, ClawMade
    <2> HIDE DEF U
    <2>4. Good(V) /\ Grows(W, V, {key}) /\ V.txns[key].type = "stripe_refund" /\ V.txns[key].ref = a
          /\ V.txns[key].amount = -m
      BY <2>1, <2>3 DEF Made
    <2>5. stripe_refund_applied(V, a) = applied + m
      BY <1>1, <2>4, AppliedMore DEF Good
    <2>6. \A b : b # a => stripe_refund_applied(V, b) = stripe_refund_applied(W, b)
      BY <2>4, AppliedSame DEF Good
    <2>7. applied <= stripe_refund_applied(V, a) /\ stripe_refund_applied(V, a) <= level
          /\ (cap >= level - applied => stripe_refund_applied(V, a) = level)
      BY <1>1, <2>1, <2>5 DEF Least
    <2>8. ASSUME NEW b, NEW l, LevelKey(b, l) \in DOMAIN V.txns \ DOMAIN W.txns
          PROVE  b = a /\ l = level /\ stripe_refund_applied(V, a) >= level
      <3>1. LevelKey(b, l) = key
        BY <2>4, <2>8 DEF Grows
      <3>2. b = a /\ l = level /\ cap >= level /\ 0 <= applied
        BY <3>1
      <3> QED BY <1>1, <2>7, <3>2
    <2>9. ~(applied >= level)
      BY <1>1, <2>1 DEF Least
    <2>10. Clawed(W, V, a, level)
      BY <2>1, <2>3, <2>4, <2>6, <2>7, <2>8, <2>9 DEF Clawed
    <2> QED BY <2>7, <2>10 DEF V
  <1> QED BY <1>3, <1>4
-----------------------------------------------------------------------------
(* The refund list of an event, one refund after the other.                 *)

Listed(W, a, level, S) == FoldSet(LAMBDA i, V : perRefund(a, level, i, V), W, S)

\* h is the wallet after every part of the list.
Lists(W, a, level, S, h) ==
    h = [s \in SUBSET S |->
            IF s = {} THEN W
            ELSE LET x == CHOOSE x \in s : TRUE IN perRefund(a, level, x, h[s \ {x}])]

LEMMA ListedIs ==
    ASSUME NEW W, NEW a, NEW level, NEW S
    PROVE  Listed(W, a, level, S) = (CHOOSE h : Lists(W, a, level, S, h))[S]
  BY DEF Listed, FoldSet, MapThenFoldSet, Lists

LEMMA ListsUnique ==
    ASSUME NEW W, NEW a, NEW level, NEW S, IsFiniteSet(S),
           NEW g, NEW h, Lists(W, a, level, S, g), Lists(W, a, level, S, h)
    PROVE  g = h
  <1> DEFINE X == {T \in SUBSET S : g[T] = h[T]}
  <1>1. ASSUME NEW T \in SUBSET S, \A U \in SUBSET T : U # T => U \in X PROVE T \in X
    <2>1. CASE T = {}
      BY <2>1 DEF Lists
    <2>2. CASE T # {}
      <3> DEFINE x == CHOOSE x \in T : TRUE
      <3>1. x \in T
        BY <2>2
      <3>2. T \ {x} \in X
        BY <1>1, <3>1
      <3>3. g[T] = perRefund(a, level, x, g[T \ {x}]) /\ h[T] = perRefund(a, level, x, h[T \ {x}])
        BY <2>2 DEF Lists
      <3> QED BY <3>2, <3>3
    <2> QED BY <2>1, <2>2
  <1> HIDE DEF X
  <1>2. \A T \in SUBSET S : T \in X
    BY <1>1, SubsetInduction
  <1> QED BY <1>2 DEF Lists, X

\* h on the parts of T alone.
Cut(h, T) == [s \in SUBSET T |-> h[s]]

LEMMA ListsSubset ==
    ASSUME NEW W, NEW a, NEW level, NEW S, NEW h, Lists(W, a, level, S, h), NEW T \in SUBSET S
    PROVE  Lists(W, a, level, T, Cut(h, T))
  <1> DEFINE k == [s \in SUBSET T |-> h[s]]
             body(s, j) == IF s = {} THEN W
                           ELSE LET x == CHOOSE x \in s : TRUE IN perRefund(a, level, x, j[s \ {x}])
  <1>1. ASSUME NEW s \in SUBSET T PROVE h[s] = body(s, k)
    <2>1. h[s] = body(s, h)
      BY DEF Lists
    <2>2. \A x : s \ {x} \in SUBSET T
      OBVIOUS
    <2> QED BY <2>1, <2>2
  <1>2. Lists(W, a, level, T, k)
    BY <1>1 DEF Lists
  <1> QED BY <1>2 DEF Cut

LEMMA ListsExists ==
    ASSUME NEW W, NEW a, NEW level, NEW S, IsFiniteSet(S) PROVE \E h : Lists(W, a, level, S, h)
  <1> DEFINE X == {T \in SUBSET S : \E h : Lists(W, a, level, T, h)}
             After(T) == Listed(W, a, level, T)
  <1>1. ASSUME NEW T \in SUBSET S, \A U \in SUBSET T : U # T => U \in X PROVE T \in X
    <2> DEFINE val(s) == IF s = {} THEN W
                         ELSE LET x == CHOOSE x \in s : TRUE IN perRefund(a, level, x, After(s \ {x}))
               h == [s \in SUBSET T |-> val(s)]
    <2>1. ASSUME NEW U \in SUBSET T, U # T PROVE After(U) = val(U)
      <3> DEFINE g == CHOOSE j : Lists(W, a, level, U, j)
      <3>1. Lists(W, a, level, U, g)
        BY <1>1, <2>1
      <3>2. After(U) = g[U]
        BY ListedIs
      <3>3. CASE U = {}
        BY <3>1, <3>2, <3>3 DEF Lists
      <3>4. CASE U # {}
        <4> DEFINE x == CHOOSE x \in U : TRUE
                   V == U \ {x}
                   k == Cut(g, V)
        <4>1. x \in U /\ V \in SUBSET U
          BY <3>4
        <4>2. g[U] = perRefund(a, level, x, g[V])
          BY <3>1, <3>4 DEF Lists
        <4>3. Lists(W, a, level, V, k)
          <5> HIDE DEF g, V
          <5> QED BY ONLY <3>1, <4>1, ListsSubset
        <4>4. IsFiniteSet(V)
          BY <4>1, FS_Subset
        <4> DEFINE j == CHOOSE i : Lists(W, a, level, V, i)
        <4>5. Lists(W, a, level, V, j)
          BY <4>3
        <4>6. j = k
          BY <4>3, <4>4, <4>5, ListsUnique
        <4>7. After(V) = j[V]
          BY ListedIs
        <4>8. After(V) = g[V]
          BY <4>6, <4>7 DEF Cut
        <4> QED BY <3>2, <3>4, <4>2, <4>8
      <3> QED BY <3>3, <3>4
    <2> HIDE DEF After
    <2>2. ASSUME NEW s \in SUBSET T
          PROVE  h[s] = IF s = {} THEN W
                        ELSE LET x == CHOOSE x \in s : TRUE IN perRefund(a, level, x, h[s \ {x}])
      <3>1. CASE s = {}
        BY <3>1
      <3>2. CASE s # {}
        <4> DEFINE x == CHOOSE x \in s : TRUE
        <4>1. x \in s
          BY <3>2
        <4>2. s \ {x} \in SUBSET T /\ s \ {x} # T
          BY <4>1
        <4>3. h[s \ {x}] = After(s \ {x})
          BY <2>1, <4>2
        <4> QED BY <3>2, <4>3
      <3> QED BY <3>1, <3>2
    <2>3. Lists(W, a, level, T, h)
      BY <2>2 DEF Lists
    <2> QED BY <2>3
  <1> HIDE DEF X
  <1>2. \A T \in SUBSET S : T \in X
    BY <1>1, SubsetInduction
  <1> QED BY <1>2 DEF X

\* However long the list and whichever order it is walked in, the refunds take
\* no more than the level.
LEMMA ListClawed ==
    ASSUME NEW W, Good(W), NEW a \in Attempts, NEW level \in Int, NEW S, IsFiniteSet(S),
           \A i \in S : Refunds[a][i] \in Nat
    PROVE  Clawed(W, Listed(W, a, level, S), a, level)
  <1> DEFINE h == CHOOSE j : Lists(W, a, level, S, j)
             X == {T \in SUBSET S : Clawed(W, h[T], a, level)}
  <1>1. Lists(W, a, level, S, h)
    BY ListsExists
  <1>2. Listed(W, a, level, S) = h[S]
    BY ListedIs
  <1> HIDE DEF h
  <1>3. ASSUME NEW T \in SUBSET S, \A U \in SUBSET T : U # T => U \in X PROVE T \in X
    <2>1. CASE T = {}
      <3>1. h[T] = W
        BY <1>1, <2>1 DEF Lists
      <3> QED BY <3>1, NotClawed
    <2>2. CASE T # {}
      <3> DEFINE x == CHOOSE x \in T : TRUE
                 V == h[T \ {x}]
                 key == <<"stripe_refund", a, "id", x>>
      <3>1. x \in T
        BY <2>2
      <3>2. Clawed(W, V, a, level)
        BY <1>3, <3>1
      <3>3. h[T] = claw_back_stripe_refund(V, a, key, level, Refunds[a][x])
        BY <1>1, <2>2 DEF Lists, perRefund
      <3>4. Refunds[a][x] \in Nat /\ key[1] = "stripe_refund"
        BY <3>1
      <3>5. \A b, l : key # LevelKey(b, l)
        BY DEF LevelKey
      <3> HIDE DEF V, x, key
      <3>6. Good(V)
        BY <3>2 DEF Clawed
      <3>7. Clawed(V, h[T], a, level)
        BY <3>3, <3>4, <3>5, <3>6, ClawOnce
      <3>8. Clawed(W, h[T], a, level)
        BY <3>2, <3>7, ClawedTwice
      <3> QED BY <3>8
    <2> QED BY <2>1, <2>2
  <1> HIDE DEF X
  <1>4. \A T \in SUBSET S : T \in X
    BY <1>3, SubsetInduction
  <1> QED BY <1>2, <1>4 DEF X

\* handle_charge_refunded: afterwards the ledger has taken the level, or what
\* it had taken when that was more.
LEMMA EventClawed ==
    ASSUME NEW W, Good(W), NEW a \in Attempts, NEW level \in Nat, NEW S, IsFiniteSet(S),
           \A i \in S : Refunds[a][i] \in Nat,
           stripe_refund_applied(W, a) >= 0,
           LevelKey(a, level) \in DOMAIN W.txns => stripe_refund_applied(W, a) >= level
    PROVE  LET V == claw_back_stripe_refund(Listed(W, a, level, S), a, LevelKey(a, level), level, level)
           IN  /\ Clawed(W, V, a, level)
               /\ stripe_refund_applied(V, a) =
                    IF stripe_refund_applied(W, a) < level THEN level ELSE stripe_refund_applied(W, a)
  <1> DEFINE L == Listed(W, a, level, S)
             key == LevelKey(a, level)
             V == claw_back_stripe_refund(L, a, key, level, level)
  <1>1. Clawed(W, L, a, level)
    BY ListClawed
  <1> HIDE DEF L
  <1>2. Good(L) /\ stripe_refund_applied(W, a) <= stripe_refund_applied(L, a)
    BY <1>1 DEF Clawed
  <1>3. stripe_refund_applied(W, a) \in Int /\ stripe_refund_applied(L, a) \in Int
    BY <1>2, AppliedFacts DEF Good
  <1>4. key[1] = "stripe_refund" /\ level \in Int
        /\ \A b, l : key = LevelKey(b, l) =>
              b = a /\ l = level /\ level >= level /\ 0 <= stripe_refund_applied(L, a)
    BY <1>2, <1>3 DEF LevelKey
  <1> HIDE DEF key
  <1>5. /\ Clawed(L, V, a, level)
        /\ key \notin DOMAIN L.txns /\ level - stripe_refund_applied(L, a) >= 0
             /\ level - stripe_refund_applied(L, a) <= level => stripe_refund_applied(V, a) = level
    BY ONLY <1>2, <1>4, ClawOnce, a \in Attempts, level \in Nat
  <1> HIDE DEF V
  <1>6. Clawed(W, V, a, level)
    BY <1>1, <1>5, ClawedTwice
  <1>7. stripe_refund_applied(V, a) \in Int
    BY <1>6, AppliedFacts DEF Clawed, Good
  <1>8. CASE stripe_refund_applied(W, a) >= level
    <2>1. stripe_refund_applied(V, a) = stripe_refund_applied(W, a)
      BY <1>6, <1>8 DEF Clawed
    <2> QED BY <1>3, <1>6, <1>8, <2>1 DEF V, L, key
  <1>9. CASE stripe_refund_applied(W, a) < level
    <2>1. stripe_refund_applied(L, a) <= level
      BY <1>1, <1>3, <1>9 DEF Clawed
    <2>2. CASE key \in DOMAIN L.txns
      <3>1. key \notin DOMAIN W.txns
        BY <1>3, <1>9 DEF key
      <3>2. stripe_refund_applied(L, a) >= level
        BY <1>1, <2>2, <3>1 DEF Clawed, key
      <3>3. stripe_refund_applied(V, a) = stripe_refund_applied(L, a)
        BY <1>5, <3>2 DEF Clawed
      <3>4. stripe_refund_applied(V, a) = level
        BY <1>3, <2>1, <3>2, <3>3
      <3> QED BY <1>6, <1>9, <3>4 DEF V, L, key
    <2>3. CASE key \notin DOMAIN L.txns
      <3>1. stripe_refund_applied(V, a) = level
        BY <1>2, <1>3, <1>5, <2>1, <2>3
      <3> QED BY <1>6, <1>9, <3>1 DEF V, L, key
    <2> QED BY <2>2, <2>3
  <1> QED BY <1>3, <1>8, <1>9
-----------------------------------------------------------------------------
(* Whole operations: with the lazy expiry in front of it or without it.     *)

\* From W to V the due lots may have expired, and rows of the types T were
\* posted.
Moved(W, V, T) ==
    /\ Good(V) /\ WP!Transaction(PoolsOf(W), PoolsOf(V))
    /\ \E B \in {W, expire_due(W)} : \E K :
         /\ Grows(B, V, K)
         /\ \A k \in K : /\ k[1] # "expiry" /\ V.txns[k].type \in T
                         /\ k[1] = "stripe_refund" => V.txns[k].type = "stripe_refund"

LEMMA TransactionMade ==
    ASSUME NEW W, Good(W), NEW V, Good(V), NEW B, Good(B), B = W \/ Retired(W, B),
           WP!Moves(PoolsOf(B), PoolsOf(V))
    PROVE  WP!Transaction(PoolsOf(W), PoolsOf(V))
  <1>1. PoolsOf(V) \in WP!Pools /\ PoolsOf(W) \in WP!Pools
    BY PoolsFields DEF Good
  <1>2. CASE B = W
    <2> DEFINE P == PoolsOf(W)
    <2>1. P \in WP!Pools /\ WP!Moves(P, PoolsOf(V))
      BY <1>1, <1>2
    <2> HIDE DEF P
    <2>2. WP!Retire(P, 0, 0) = P /\ 0 \in 0..P.promo /\ 0 \in 0..P.paid
      BY <2>1 DEF WP!Pools, WP!Retire, WP!Least, WP!AtLeastZero
    <2>3. WP!Moves(WP!Retire(P, 0, 0), PoolsOf(V))
      BY <2>1, <2>2
    <2>4. WP!Transaction(P, PoolsOf(V))
      BY <1>1, <2>2, <2>3 DEF WP!Transaction
    <2> QED BY <2>4 DEF P
  <1>3. CASE Retired(W, B)
    BY <1>1, <1>3 DEF WP!Transaction, Retired
  <1> QED BY <1>2, <1>3

LEMMA MovedBy ==
    ASSUME NEW W, Good(W), NEW B \in {W, expire_due(W)}, NEW V, NEW key, NEW type,
           Made(B, V, key, type), WP!Moves(PoolsOf(B), PoolsOf(V)),
           key[1] # "expiry", key[1] # "stripe_refund"
    PROVE  Moved(W, V, {type})
  <1>1. Good(B) /\ (B = W \/ Retired(W, B)) /\ Good(V)
    BY ExpireMade DEF Made
  <1>2. WP!Transaction(PoolsOf(W), PoolsOf(V))
    BY <1>1, TransactionMade
  <1>3. Grows(B, V, {key}) /\ V.txns[key].type = type
    BY DEF Made
  <1> QED BY <1>1, <1>2, <1>3 DEF Moved

LEMMA NothingMoved ==
    ASSUME NEW W, Good(W), NEW T PROVE Moved(W, W, T) /\ Moved(W, expire_due(W), T)
  <1>1. \A B : Grows(B, B, {})
    BY DEF Grows
  <1>2. Good(expire_due(W)) /\ Retired(W, expire_due(W))
    BY ExpireMade
  <1>3. \A P : WP!Moves(P, P)
    BY DEF WP!Moves
  <1>4. WP!Transaction(PoolsOf(W), PoolsOf(W)) /\ WP!Transaction(PoolsOf(W), PoolsOf(expire_due(W)))
    BY <1>2, <1>3, TransactionMade
  <1> QED BY <1>1, <1>2, <1>4 DEF Moved

LEMMA VoidMoved ==
    ASSUME NEW W, Good(W), NEW V, NEW key, Made(expire_due(W), V, key, "grant_void"),
           Retired(expire_due(W), V), key[1] = "grant_void"
    PROVE  Moved(W, V, {"grant_void"})
  <1> DEFINE B == expire_due(W)
             P == PoolsOf(W)
             Q == PoolsOf(B)
  <1>1. Good(V) /\ Grows(B, V, {key}) /\ V.txns[key].type = "grant_void"
    BY DEF Made
  <1>2. Retired(W, B) /\ P \in WP!Pools /\ PoolsOf(V) \in WP!Pools
    BY <1>1, ExpireMade, PoolsFields DEF Good
  <1>3. PICK x \in 0..P.promo, y \in 0..P.paid : Q = WP!Retire(P, x, y)
    BY <1>2 DEF Retired
  <1>4. PICK u \in 0..Q.promo, v \in 0..Q.paid : PoolsOf(V) = WP!Retire(Q, u, v)
    BY DEF Retired
  <1> HIDE DEF P, Q
  <1>5. Q.promo = P.promo - x /\ Q.paid = P.paid - y /\ P.promo \in Nat /\ P.paid \in Nat
    BY <1>2, <1>3 DEF WP!Retire, WP!Pools
  <1>6. u \in Nat /\ v \in Nat /\ x + u <= P.promo /\ y + v <= P.paid
    BY <1>5
  <1>7. PoolsOf(V) = WP!Retire(P, x + u, y + v) /\ x + u \in 0..P.promo /\ y + v \in 0..P.paid
    BY <1>2, <1>3, <1>4, <1>6, RetireTwice
  <1>8. WP!Moves(WP!Retire(P, x + u, y + v), PoolsOf(V))
    BY <1>7 DEF WP!Moves
  <1>9. WP!Transaction(P, PoolsOf(V))
    BY <1>2, <1>7, <1>8 DEF WP!Transaction
  <1> QED BY <1>1, <1>9 DEF Moved, P

LEMMA ClawMoved ==
    ASSUME NEW W, Good(W), NEW V, NEW a, NEW level, Clawed(expire_due(W), V, a, level)
    PROVE  Moved(W, V, {"stripe_refund"})
  <1> DEFINE B == expire_due(W)
  <1>1. Good(B) /\ Retired(W, B) /\ Good(V)
    BY ExpireMade DEF Clawed
  <1>2. WP!Moves(PoolsOf(B), PoolsOf(V))
    BY DEF Clawed, WP!Moves
  <1>3. WP!Transaction(PoolsOf(W), PoolsOf(V))
    BY <1>1, <1>2, TransactionMade
  <1>4. PICK K : Grows(B, V, K) /\ \A k \in K : k[1] = "stripe_refund" /\ V.txns[k].type = "stripe_refund"
    BY DEF Clawed
  <1> QED BY <1>1, <1>3, <1>4 DEF Moved

\* What follows of the ledger: rows stay as they are;
LEMMA RowsKept ==
    ASSUME NEW W, Good(W), NEW V, NEW T, Moved(W, V, T)
    PROVE  DOMAIN W.txns \subseteq DOMAIN V.txns /\ \A k \in DOMAIN W.txns : V.txns[k] = W.txns[k]
  <1>1. PICK B \in {W, expire_due(W)} : \E K : Grows(B, V, K)
    BY DEF Moved
  <1>2. Grows(W, expire_due(W), ExpiryKeys(W))
    BY ExpireMade
  <1> QED BY <1>1, <1>2 DEF Grows

\* the new ones are of the types that the operation posts, or of expiries;
LEMMA RowsNew ==
    ASSUME NEW W, Good(W), NEW V, NEW T, Moved(W, V, T), NEW k \in DOMAIN V.txns \ DOMAIN W.txns
    PROVE  \/ k \in ExpiryKeys(W) /\ V.txns[k].type = "grant_expiry"
           \/ V.txns[k].type \in T /\ k[1] # "expiry"
              /\ (k[1] = "stripe_refund" => V.txns[k].type = "stripe_refund")
  <1>1. PICK B \in {W, expire_due(W)} : \E K :
            /\ Grows(B, V, K)
            /\ \A j \in K : /\ j[1] # "expiry" /\ V.txns[j].type \in T
                            /\ j[1] = "stripe_refund" => V.txns[j].type = "stripe_refund"
    BY DEF Moved
  <1>2. /\ Grows(W, expire_due(W), ExpiryKeys(W))
        /\ \A j \in ExpiryKeys(W) : expire_due(W).txns[j].type = "grant_expiry"
    BY ExpireMade
  <1> QED BY <1>1, <1>2 DEF Grows

\* without rows of refunds by Stripe, nothing is taken for a charge;
LEMMA NoRefundMoved ==
    ASSUME NEW W, Good(W), NEW V, NEW T, Moved(W, V, T), "stripe_refund" \notin T
    PROVE  /\ \A a : stripe_refund_applied(V, a) = stripe_refund_applied(W, a)
           /\ \A a, l : LevelKey(a, l) \in DOMAIN V.txns => LevelKey(a, l) \in DOMAIN W.txns
  <1> DEFINE K == DOMAIN V.txns \ DOMAIN W.txns
  <1>1. Grows(W, V, K)
    BY RowsKept DEF Grows
  <1>2. \A k \in K : V.txns[k].type # "stripe_refund" /\ k[1] # "stripe_refund"
    BY RowsNew DEF ExpiryKeys
  <1>3. Good(V)
    BY DEF Moved
  <1>4. \A a : stripe_refund_applied(V, a) = stripe_refund_applied(W, a)
    BY <1>1, <1>2, <1>3, AppliedSame DEF Good
  <1>5. \A a, l : LevelKey(a, l) \notin K
    BY <1>2 DEF LevelKey
  <1> QED BY <1>4, <1>5

\* and the debits of the lots that expired fit in a balance above zero.
LEMMA MovedSolvent ==
    ASSUME NEW W, Good(W), NEW V, NEW T, Moved(W, V, T)
    PROVE  LET new == {k \in DOMAIN V.txns \ DOMAIN W.txns : k[1] = "expiry"}
               debited == -SumOver(new, AmountsOf(V))
           IN  debited > 0 => W.balance - debited >= 0
  <1> DEFINE new == {k \in DOMAIN V.txns \ DOMAIN W.txns : k[1] = "expiry"}
             debited == -SumOver(new, AmountsOf(V))
             E == expire_due(W)
  <1>1. PICK B \in {W, E} : \E K : Grows(B, V, K) /\ \A k \in K : k[1] # "expiry"
    BY DEF Moved
  <1>2. Grows(W, E, ExpiryKeys(W)) /\ Good(E)
    BY ExpireMade
  <1>3. CASE B = W
    <2>1. new = {}
      BY <1>1, <1>3 DEF Grows
    <2>2. SumOver({}, AmountsOf(V)) = 0
      BY SumEmpty DEF SumOver
    <2>3. debited = 0
      <3> HIDE DEF new
      <3>1. debited = -SumOver({}, AmountsOf(V))
        BY <2>1
      <3> QED BY <2>2, <3>1
    <2> QED BY <2>3
  <1>4. CASE B = E
    <2>1. new = ExpiryKeys(W)
      BY <1>1, <1>2, <1>4 DEF Grows, ExpiryKeys
    <2>2. \A k \in ExpiryKeys(W) : k \in DOMAIN E.txns /\ k \in DOMAIN V.txns /\ V.txns[k] = E.txns[k]
      BY <1>1, <1>2, <1>4 DEF Grows
    <2>3. Sound(W) /\ Sound(E) /\ Sound(V)
      BY <1>2 DEF Good, Moved
    <2> HIDE DEF E
    <2>4. \A k \in ExpiryKeys(W) : AmountsOf(E)[k] \in Int /\ AmountsOf(E)[k] = AmountsOf(V)[k]
      <3>1. \A k \in DOMAIN E.txns : AmountsOf(E)[k] = E.txns[k].amount /\ AmountsOf(E)[k] \in Int
        BY ONLY <2>3, AppliedFacts
      <3>2. \A k \in DOMAIN V.txns : AmountsOf(V)[k] = V.txns[k].amount
        BY ONLY <2>3, AppliedFacts
      <3> QED BY ONLY <2>2, <3>1, <3>2
    <2>5. IsFiniteSet(ExpiryKeys(W))
      <3>1. IsFiniteSet(DOMAIN E.txns) /\ ExpiryKeys(W) \subseteq DOMAIN E.txns
        BY <2>2, <2>3 DEF Sound, Typed, RowsTyped
      <3> QED BY <3>1, FS_Subset
    <2>6. SumOver(new, AmountsOf(V)) = SumOver(ExpiryKeys(W), AmountsOf(E))
      BY <2>1, <2>4, <2>5, SumSame DEF SumOver
    <2>7. SumOver(ExpiryKeys(W), AmountsOf(E)) = E.balance - W.balance
      BY ONLY <2>3, ExpireSound DEF E
    <2>8. \E x, y \in Nat : E.balance = W.balance - Least(x + y, AtLeastZero(W.balance))
      BY ONLY <2>3, ExpireSound DEF E
    <2>9. PICK z \in Nat : E.balance = W.balance - Least(z, AtLeastZero(W.balance))
      <3>1. PICK x, y \in Nat : E.balance = W.balance - Least(x + y, AtLeastZero(W.balance))
        BY <2>8
      <3> QED BY <3>1
    <2>10. W.balance \in Int
      BY <2>3 DEF Sound, Typed
    <2>11. debited = W.balance - E.balance
      BY <2>6, <2>7, <2>9, <2>10 DEF Least, AtLeastZero
    <2> HIDE DEF debited
    <2>12. debited > 0 => W.balance - debited >= 0
      BY <2>9, <2>10, <2>11 DEF Least, AtLeastZero
    <2> QED BY <2>12 DEF debited
  <1> QED BY <1>1, <1>3, <1>4
-----------------------------------------------------------------------------
(* The actions.                                                             *)

\* A step in which only wallet operations of the types T moved anything, and
\* announced only what they posted.
Transacts(T) ==
    /\ Moved(wallet, wallet', T) /\ UNCHANGED <<now, stripe>>
    /\ \E N : /\ outbox' = Announce(outbox, N)
              /\ \A n \in N : n[2] \in DOMAIN wallet'.txns \ DOMAIN wallet.txns

LEMMA NoticesNew ==
    ASSUME NEW W, Good(W), NEW n \in ExpiryNotices(W)
    PROVE  n[2] \in ExpiryKeys(W) /\ n[2] \in DOMAIN expire_due(W).txns \ DOMAIN W.txns
  <1>1. n[2] \in ExpiryKeys(W)
    <2>1. \E g \in Due(W) : n = <<"grant_expired", <<"expiry", g>>>> \/ n = <<"balance_low", <<"expiry", g>>>>
      BY Zenon DEF ExpiryNotices
    <2>2. PICK g \in Due(W) : n[2] = <<"expiry", g>>
      BY <2>1
    <2> QED BY <2>2 DEF ExpiryKeys
  <1>2. Grows(W, expire_due(W), ExpiryKeys(W))
    BY ExpireMade
  <1> QED BY <1>1, <1>2 DEF Grows

LEMMA NothingTransacts ==
    ASSUME Good(wallet), NEW T, NothingMoves PROVE Transacts(T)
  <1>1. Moved(wallet, Expired, T)
    BY NothingMoved DEF Expired
  <1>2. \A n \in ExpiryNotices(wallet) : n[2] \in DOMAIN Expired.txns \ DOMAIN wallet.txns
    BY NoticesNew DEF Expired
  <1>3. wallet' = Expired /\ outbox' = Announce(outbox, ExpiryNotices(wallet)) /\ UNCHANGED <<now, stripe>>
    BY DEF NothingMoves, Commit
  <1> HIDE DEF Expired
  <1> QED BY <1>1, <1>2, <1>3 DEF Transacts

LEMMA SameTransacts ==
    ASSUME Good(wallet), NEW T, Commit(wallet, {}) PROVE Transacts(T)
  <1>1. Moved(wallet, wallet, T)
    BY NothingMoved
  <1> QED BY <1>1 DEF Transacts, Commit

\* A row posted after the lazy expiry.
LEMMA MadeTransacts ==
    ASSUME Good(wallet), NEW key, NEW type, NEW V, NEW N,
           Commit(V, ExpiryNotices(wallet) \cup N), \A n \in N : n[2] = key,
           Made(Expired, V, key, type), Moved(wallet, V, {type})
    PROVE  Transacts({type})
  <1>1. Grows(Expired, V, {key})
    BY DEF Made
  <1>2. Grows(wallet, Expired, ExpiryKeys(wallet))
    BY ExpireMade DEF Expired
  <1>3. \A n \in ExpiryNotices(wallet) : n[2] \in ExpiryKeys(wallet)
    BY NoticesNew
  <1>4. \A n \in ExpiryNotices(wallet) \cup N : n[2] \in DOMAIN V.txns \ DOMAIN wallet.txns
    BY <1>1, <1>2, <1>3 DEF Grows
  <1>5. /\ wallet' = V /\ outbox' = Announce(outbox, ExpiryNotices(wallet) \cup N)
        /\ UNCHANGED <<now, stripe>>
    BY DEF Commit
  <1> QED BY <1>4, <1>5 DEF Transacts

LEMMA MadeQuietly ==
    ASSUME Good(wallet), NEW key, NEW type, NEW V, Commit(V, ExpiryNotices(wallet)),
           Made(Expired, V, key, type), Moved(wallet, V, {type})
    PROVE  Transacts({type})
  <1> DEFINE N == {}
  <1>1. ExpiryNotices(wallet) \cup N = ExpiryNotices(wallet) /\ \A n \in N : n[2] = key
    OBVIOUS
  <1> HIDE DEF N
  <1>2. Commit(V, ExpiryNotices(wallet) \cup N)
    BY <1>1
  <1> QED BY <1>1, <1>2, MadeTransacts

LEMMA ExpiredGood == ASSUME Good(wallet) PROVE Good(Expired)
  BY ExpireMade DEF Expired

LEMMA DebitStep ==
    ASSUME Good(wallet), NEW k \in CallKeys, NEW m \in Amounts, NEW force \in BOOLEAN,
           debit(k, m, force)
    PROVE  Transacts({"debit"})
  <1> DEFINE key == <<"call", k>>
             V == allocate(Post(Expired, key, "debit", -m, k), key, m, Active(Expired), "usage")
  <1>1. \/ NothingMoves
        \/ key \notin DOMAIN Expired.txns /\ Commit(V, ExpiryNotices(wallet))
    BY DEF debit, Posted
  <1>2. CASE NothingMoves
    BY <1>2, NothingTransacts
  <1>3. CASE key \notin DOMAIN Expired.txns /\ Commit(V, ExpiryNotices(wallet))
    <2>1. m \in Nat /\ key[1] = "call" /\ \A e : key # <<"usage_deduction", e>>
      BY WalletAssumption
    <2>2. Fresh(Expired, key, -m)
      BY <1>3, <2>1 DEF Fresh
    <2> HIDE DEF key
    <2>3. Made(Expired, V, key, "debit") /\ WP!Moves(PoolsOf(Expired), PoolsOf(V))
      BY ONLY Good(wallet), ExpiredGood, <2>1, <2>2, SpendMade
    <2> HIDE DEF V
    <2>4. Moved(wallet, V, {"debit"})
      BY <2>1, <2>3, MovedBy DEF Expired
    <2> QED BY ONLY Good(wallet), <1>3, <2>3, <2>4, MadeQuietly
  <1> QED BY <1>1, <1>2, <1>3

LEMMA CreditStep ==
    ASSUME Good(wallet), NEW k \in CallKeys, NEW m \in Amounts, credit(k, m)
    PROVE  Transacts({"adjustment"})
  <1> DEFINE key == <<"call", k>>
             V == Post(wallet, key, "adjustment", m, k)
  <1>1. \/ Commit(wallet, {})
        \/ key \notin DOMAIN wallet.txns /\ Commit(V, {})
    BY DEF credit, Posted
  <1>2. CASE Commit(wallet, {})
    BY <1>2, SameTransacts
  <1>3. CASE key \notin DOMAIN wallet.txns /\ Commit(V, {})
    <2>1. m \in Nat /\ key[1] = "call" /\ \A e : key # <<"usage_deduction", e>>
      BY WalletAssumption
    <2>2. Fresh(wallet, key, m)
      BY <1>3, <2>1 DEF Fresh
    <2> HIDE DEF key
    <2>3. Made(wallet, V, key, "adjustment") /\ WP!Moves(PoolsOf(wallet), PoolsOf(V))
      BY ONLY Good(wallet), <2>1, <2>2, CreditMade
    <2> HIDE DEF V
    <2>4. Moved(wallet, V, {"adjustment"})
      BY <2>1, <2>3, MovedBy
    <2> QED BY <1>3, <2>4 DEF Transacts, Commit
  <1> QED BY <1>1, <1>2, <1>3

LEMMA RefundStep ==
    ASSUME Good(wallet), NEW k \in CallKeys, NEW e \in Events, refund_usage(k, e)
    PROVE  Transacts({"refund"})
  <1> DEFINE key == <<"call", k>>
             V == GrantLedgerRefund(Post(Expired, key, "refund", Cost[e], e), <<"usage_deduction", e>>)
             N == {<<"refund_requested", key>>}
  <1>1. \/ NothingMoves
        \/ key \notin DOMAIN Expired.txns /\ Commit(V, ExpiryNotices(wallet) \cup N)
    BY DEF refund_usage, Posted
  <1>2. CASE NothingMoves
    BY <1>2, NothingTransacts
  <1>3. CASE key \notin DOMAIN Expired.txns /\ Commit(V, ExpiryNotices(wallet) \cup N)
    <2>1. Cost[e] \in Int /\ key[1] = "call" /\ \A d : key # <<"usage_deduction", d>>
      BY WalletAssumption
    <2>2. Fresh(Expired, key, Cost[e])
      BY <1>3, <2>1 DEF Fresh
    <2>3. \A n \in N : n[2] = key
      OBVIOUS
    <2> HIDE DEF key
    <2>4. Made(Expired, V, key, "refund") /\ WP!Moves(PoolsOf(Expired), PoolsOf(V))
      BY ONLY Good(wallet), ExpiredGood, <2>2, RefundMade, e \in Events
    <2> HIDE DEF V, N
    <2>5. Moved(wallet, V, {"refund"})
      BY <2>1, <2>4, MovedBy DEF Expired
    <2> QED BY ONLY Good(wallet), <1>3, <2>3, <2>4, <2>5, MadeTransacts
  <1> QED BY <1>1, <1>2, <1>3

LEMMA DrawdownStep ==
    ASSUME Good(wallet), NEW e \in Events, NEW repair \in BOOLEAN, draw_down_usage(e, repair)
    PROVE  Transacts({"usage_deduction"})
  <1> DEFINE key == <<"usage_deduction", e>>
             m == Cost[e]
             V == allocate(Post(Expired, key, "usage_deduction", -m, e), key, m, Active(Expired), "usage")
             N == IF repair THEN {}
                  ELSE DrawdownNotices(key, Expired.balance, Expired.balance - m)
  <1>1. \/ NothingMoves
        \/ key \notin DOMAIN Expired.txns /\ Commit(V, ExpiryNotices(wallet) \cup N)
    BY DEF draw_down_usage, Posted
  <1>2. CASE NothingMoves
    BY <1>2, NothingTransacts
  <1>3. CASE key \notin DOMAIN Expired.txns /\ Commit(V, ExpiryNotices(wallet) \cup N)
    <2>1. m \in Nat /\ key[1] = "usage_deduction" /\ \A d : key = <<"usage_deduction", d>> => d = e
      BY WalletAssumption
    <2>2. Fresh(Expired, key, -m)
      BY <1>3, <2>1 DEF Fresh
    <2>3. \A n \in N : n[2] = key
      BY DEF DrawdownNotices
    <2> HIDE DEF key, m
    <2>4. Made(Expired, V, key, "usage_deduction") /\ WP!Moves(PoolsOf(Expired), PoolsOf(V))
      BY ONLY Good(wallet), ExpiredGood, <2>1, <2>2, SpendMade
    <2> HIDE DEF V, N
    <2>5. Moved(wallet, V, {"usage_deduction"})
      BY <2>1, <2>4, MovedBy DEF Expired
    <2> QED BY ONLY Good(wallet), <1>3, <2>3, <2>4, <2>5, MadeTransacts
  <1> QED BY <1>1, <1>2, <1>3

LEMMA MintStep ==
    ASSUME Good(wallet), now \in Nat, NEW k \in GrantKeys, NEW kind \in {"promo", "paid"},
           NEW m \in Amounts, NEW d \in Lifetimes, mint_grant(k, kind, m, ExpiryAfter(d))
    PROVE  Transacts({"grant"})
  <1> DEFINE key == <<"grant", k>>
             x == ExpiryAfter(d)
             V == create_grant(Post(wallet, key, "grant", m, k), key, kind, m, x, k)
  <1>1. \/ Commit(wallet, {})
        \/ key \notin DOMAIN wallet.txns /\ Commit(V, {})
    BY DEF mint_grant, Posted
  <1>2. CASE Commit(wallet, {})
    BY <1>2, SameTransacts
  <1>3. CASE key \notin DOMAIN wallet.txns /\ Commit(V, {})
    <2>1. /\ m \in Nat \ {0} /\ m \in Int /\ key[1] = "grant" /\ \A e : key # <<"usage_deduction", e>>
          /\ kind \in Kinds /\ k \in GrantKeys \cup Attempts
      BY WalletAssumption DEF Kinds
    <2>2. Fresh(wallet, key, m)
      BY <1>3, <2>1 DEF Fresh
    <2>3. x \in Nat
      BY WalletAssumption DEF ExpiryAfter, Least, Never
    <2>4. \A a \in Attempts : key = SourceLot(a) => kind = "paid"
      BY DEF SourceLot
    <2> HIDE DEF key, x
    <2>5. Made(wallet, V, key, "grant") /\ WP!Moves(PoolsOf(wallet), PoolsOf(V))
      BY ONLY Good(wallet), <2>1, <2>2, <2>3, <2>4, MintMade
    <2> HIDE DEF V
    <2>6. Moved(wallet, V, {"grant"})
      BY <2>1, <2>5, MovedBy
    <2> QED BY <1>3, <2>6 DEF Transacts, Commit
  <1> QED BY <1>1, <1>2, <1>3

LEMMA TopUpStep ==
    ASSUME Good(wallet), now \in Nat, NEW a \in Attempts, credit_top_up(a)
    PROVE  Transacts({"top_up"})
  <1> DEFINE key == <<"topup", a>>
             m == TopUp[a]
             x == topup_grant_expires_at
             V == create_grant(Post(wallet, key, "top_up", m, a), key, "paid", m, x, a)
  <1>1. \/ Commit(wallet, {})
        \/ key \notin DOMAIN wallet.txns /\ Commit(V, {})
    BY DEF credit_top_up, Posted
  <1>2. CASE Commit(wallet, {})
    BY <1>2, SameTransacts
  <1>3. CASE key \notin DOMAIN wallet.txns /\ Commit(V, {})
    <2>1. /\ m \in Nat \ {0} /\ m \in Int /\ key[1] = "topup" /\ \A e : key # <<"usage_deduction", e>>
          /\ "paid" \in Kinds /\ a \in GrantKeys \cup Attempts
      BY WalletAssumption DEF Kinds
    <2>2. Fresh(wallet, key, m)
      BY <1>3, <2>1 DEF Fresh
    <2>3. x \in Nat
      BY WalletAssumption DEF topup_grant_expires_at, ExpiryAfter, Least, Never
    <2> HIDE DEF key, x, m
    <2>4. Made(wallet, V, key, "top_up") /\ WP!Moves(PoolsOf(wallet), PoolsOf(V))
      BY ONLY Good(wallet), <2>1, <2>2, <2>3, MintMade
    <2> HIDE DEF V
    <2>5. Moved(wallet, V, {"top_up"})
      BY <2>1, <2>4, MovedBy
    <2> QED BY <1>3, <2>5 DEF Transacts, Commit
  <1> QED BY <1>1, <1>2, <1>3

LEMMA VoidStep ==
    ASSUME Good(wallet), NEW g, void_grant(g)
    PROVE  Transacts({"grant_void"})
  <1> DEFINE key == <<"grant_void", g>>
             lot == Expired.grants[g]
             m == Least(lot.remaining, AtLeastZero(Expired.balance))
             V == [Post(Expired, key, "grant_void", -m, g) EXCEPT
                      !.grants[g] = LotVoided(Expired.grants[g], Expired.grants[g].remaining)]
  <1>1. \/ NothingMoves
        \/ /\ key \notin DOMAIN Expired.txns /\ Commit(V, ExpiryNotices(wallet))
           /\ g \in DOMAIN wallet.grants /\ lot.status = "active"
    BY DEF void_grant, Posted
  <1>2. CASE NothingMoves
    BY <1>2, NothingTransacts
  <1>3. CASE /\ key \notin DOMAIN Expired.txns /\ Commit(V, ExpiryNotices(wallet))
             /\ g \in DOMAIN wallet.grants /\ lot.status = "active"
    <2>1. Good(Expired) /\ Sound(Expired) /\ LotsTyped(Expired) /\ Expired.balance \in Int
      BY ExpiredGood DEF Good, Sound, Typed
    <2>2. g \in Active(Expired)
      <3>1. DOMAIN expire_due(wallet).grants = DOMAIN wallet.grants
        BY ExpireSound DEF Good
      <3> QED BY <1>3, <3>1 DEF Active, Expired
    <2>3. m \in Int /\ key[1] = "grant_void" /\ \A e : key # <<"usage_deduction", e>>
      BY <2>1, <2>2, LotFacts DEF Active, Least, AtLeastZero
    <2>4. Fresh(Expired, key, -m)
      BY <1>3, <2>3 DEF Fresh
    <2>5. m = Least(Expired.grants[g].remaining, AtLeastZero(Expired.balance))
      OBVIOUS
    <2> HIDE DEF key, m
    <2>6. Made(Expired, V, key, "grant_void") /\ Retired(Expired, V)
      BY ONLY <2>1, <2>2, <2>4, <2>5, VoidMade
    <2> HIDE DEF V
    <2>7. Moved(wallet, V, {"grant_void"})
      BY <2>3, <2>6, VoidMoved DEF Expired
    <2> QED BY ONLY Good(wallet), <1>3, <2>6, <2>7, MadeQuietly
  <1> QED BY <1>1, <1>2, <1>3

LEMMA DisputeStep ==
    ASSUME Good(wallet), NEW a \in Attempts, claw_back_dispute(a)
    PROVE  Transacts({"dispute_deduction"})
  <1> DEFINE key == <<"dispute", a>>
             m == TopUp[a]
             V == clawback(Post(Expired, key, "dispute_deduction", -m, a), key, m, SourceLot(a))
  <1>1. \/ NothingMoves
        \/ key \notin DOMAIN Expired.txns /\ Commit(V, ExpiryNotices(wallet))
    BY DEF claw_back_dispute, Posted
  <1>2. CASE NothingMoves
    BY <1>2, NothingTransacts
  <1>3. CASE key \notin DOMAIN Expired.txns /\ Commit(V, ExpiryNotices(wallet))
    <2>1. m \in Nat /\ key[1] = "dispute" /\ \A e : key # <<"usage_deduction", e>>
      BY WalletAssumption
    <2>2. Fresh(Expired, key, -m)
      BY <1>3, <2>1 DEF Fresh
    <2> HIDE DEF key, m
    <2>3. Made(Expired, V, key, "dispute_deduction") /\ WP!ClawsBack(PoolsOf(Expired), PoolsOf(V))
      BY ONLY Good(wallet), ExpiredGood, <2>1, <2>2, ClawMade, a \in Attempts
    <2> HIDE DEF V
    <2>4. WP!Moves(PoolsOf(Expired), PoolsOf(V))
      BY <2>3 DEF WP!Moves
    <2>5. Moved(wallet, V, {"dispute_deduction"})
      BY <2>1, <2>3, <2>4, MovedBy DEF Expired
    <2> QED BY ONLY Good(wallet), <1>3, <2>3, <2>5, MadeQuietly
  <1> QED BY <1>1, <1>2, <1>3
\* What a withdrawal must leave alone.
Spared ==
    (\E k \in DOMAIN wallet'.txns \ DOMAIN wallet.txns : wallet'.txns[k].type = "withdrawal")
    => LET kept == Promo(wallet) \ Due(wallet)
       IN  /\ \A g \in kept : wallet'.grants[g] = wallet.grants[g]
           /\ wallet'.balance >= Remaining(wallet, kept)

LEMMA NoWithdrawal ==
    ASSUME Good(wallet), NEW T, "withdrawal" \notin T, Moved(wallet, wallet', T) PROVE Spared
  BY RowsNew DEF Spared

LEMMA PromoKept ==
    ASSUME NEW W, Sound(W)
    PROVE  LET kept == Promo(W) \ Due(W)
           IN  /\ Promo(expire_due(W)) = kept
               /\ \A g \in kept : expire_due(W).grants[g] = W.grants[g]
               /\ Remaining(expire_due(W), kept) = Remaining(W, kept)
  <1> DEFINE E == expire_due(W)
             kept == Promo(W) \ Due(W)
  <1>1. /\ DOMAIN E.grants = DOMAIN W.grants
        /\ \A g \in DOMAIN W.grants \ Due(W) : E.grants[g] = W.grants[g]
        /\ \A g \in Due(W) : E.grants[g].status = "expired"
    BY ONLY Sound(W), ExpireSound
  <1> HIDE DEF E
  <1>2. Promo(E) = kept
    BY <1>1 DEF Promo, Active
  <1>3. \A g \in kept : E.grants[g] = W.grants[g]
    BY <1>1 DEF Promo, Active
  <1> HIDE DEF kept
  <1>4. RemainingOf(E, kept) = RemainingOf(W, kept)
    BY <1>3 DEF RemainingOf
  <1>5. Remaining(E, kept) = Remaining(W, kept)
    BY <1>4 DEF Remaining
  <1> QED BY <1>2, <1>3, <1>5 DEF E, kept

LEMMA WithdrawStep ==
    ASSUME Good(wallet), NEW k \in CallKeys, NEW m \in Amounts, withdraw(k, m)
    PROVE  Transacts({"withdrawal"}) /\ Spared
  <1> DEFINE key == <<"call", k>>
             V == allocate(Post(Expired, key, "withdrawal", -m, k), key, m,
                           Active(Expired) \ Promo(Expired), "withdrawal")
             N == {<<"withdrawal_requested", key>>}
             Pays == /\ key \notin DOMAIN Expired.txns
                     /\ ~(Expired.balance - Remaining(Expired, Promo(Expired)) < m)
                     /\ Commit(V, ExpiryNotices(wallet) \cup N)
  <1>1. NothingMoves \/ Pays
    BY DEF withdraw, Posted
  <1>2. CASE NothingMoves
    <2>1. Transacts({"withdrawal"}) /\ Transacts({})
      BY <1>2, NothingTransacts
    <2>2. Spared
      BY <2>1, NoWithdrawal DEF Transacts
    <2> QED BY <2>1, <2>2
  <1>3. CASE Pays
    <2>1. m \in Nat /\ key[1] = "call" /\ \A e : key # <<"usage_deduction", e>>
      BY WalletAssumption
    <2>2. Fresh(Expired, key, -m)
      BY <1>3, <2>1 DEF Fresh
    <2>3. \A n \in N : n[2] = key
      OBVIOUS
    <2>4. ~(Expired.balance - Remaining(Expired, Promo(Expired)) < m)
          /\ Commit(V, ExpiryNotices(wallet) \cup N)
      BY <1>3
    <2> HIDE DEF key
    <2>5. /\ Made(Expired, V, key, "withdrawal") /\ WP!Moves(PoolsOf(Expired), PoolsOf(V))
          /\ \A g \in Promo(Expired) : V.grants[g] = Expired.grants[g]
          /\ V.balance >= Remaining(Expired, Promo(Expired))
      BY ONLY Good(wallet), ExpiredGood, <2>1, <2>2, <2>4, WithdrawMade
    <2> HIDE DEF V, N
    <2>6. Moved(wallet, V, {"withdrawal"})
      BY <2>1, <2>5, MovedBy DEF Expired
    <2>7. Transacts({"withdrawal"})
      BY ONLY Good(wallet), <2>3, <2>4, <2>5, <2>6, MadeTransacts
    <2>8. wallet' = V
      BY <2>4 DEF Commit
    <2>9. Spared
      <3> DEFINE kept == Promo(wallet) \ Due(wallet)
      <3>1. /\ Promo(Expired) = kept
            /\ \A g \in kept : Expired.grants[g] = wallet.grants[g]
            /\ Remaining(Expired, kept) = Remaining(wallet, kept)
        BY PromoKept DEF Expired, Good
      <3>2. \A g \in kept : wallet'.grants[g] = wallet.grants[g]
        BY <2>5, <2>8, <3>1
      <3>3. wallet'.balance >= Remaining(wallet, kept)
        BY <2>5, <2>8, <3>1
      <3> QED BY <3>2, <3>3 DEF Spared
    <2> QED BY <2>7, <2>9
  <1> QED BY <1>1, <1>2, <1>3

-----------------------------------------------------------------------------
(* The invariant.                                                           *)

StripeTyped ==
    /\ stripe \in [Attempts -> [made : Nat, told : Nat]]
    /\ \A a \in Attempts : stripe[a].told <= stripe[a].made /\ stripe[a].made <= Len(Refunds[a])

\* An event's own key is posted only when its level is taken.
LevelsTaken(W) ==
    \A a \in Attempts : \A l :
        LevelKey(a, l) \in DOMAIN W.txns => l \in Nat /\ stripe_refund_applied(W, a) >= l

WalletInv ==
    /\ now \in 0..MaxTime /\ Good(wallet) /\ StripeTyped
    /\ IsABag(outbox) /\ AnnouncedOnce
    /\ RefundsConverge /\ LevelsTaken(wallet)

LEMMA CumulativeGrows ==
    ASSUME NEW a \in Attempts, NEW n \in Nat, n <= Len(Refunds[a])
    PROVE  /\ CumulativeAt(a, n) \in Nat
           /\ \A m \in 0..n : CumulativeAt(a, m) <= CumulativeAt(a, n)
           /\ \A i \in 1..n : Refunds[a][i] \in Nat
  <1>1. Refunds[a] \in Seq(Nat \ {0})
    BY WalletAssumption
  <1>2. \A i \in 1..n : Refunds[a][i] \in Nat /\ Refunds[a][i] \in Int
    BY <1>1
  <1>3. IsFiniteSet(1..n)
    BY FS_Interval
  <1>4. CumulativeAt(a, n) \in Nat
    BY <1>2, <1>3, SumNat DEF CumulativeAt, SumOver
  <1>5. ASSUME NEW m \in 0..n PROVE CumulativeAt(a, m) <= CumulativeAt(a, n)
    <2> DEFINE f == Refunds[a]
               S == 1..n
               P == 1..m
    <2>1. P \in SUBSET S
      OBVIOUS
    <2>2. IsFiniteSet(S \ P) /\ IsFiniteSet(P)
      BY <1>3, <2>1, FS_Subset
    <2>3. \A i \in S : f[i] \in Nat /\ f[i] \in Int
      BY <1>2
    <2>4. CumulativeAt(a, m) = SumFunctionOnSet(f, P) /\ CumulativeAt(a, n) = SumFunctionOnSet(f, S)
      BY DEF CumulativeAt, SumOver
    <2> HIDE DEF f, S, P
    <2>5. SumFunctionOnSet(f, S) = SumFunctionOnSet(f, P) + SumFunctionOnSet(f, S \ P)
      BY <1>3, <2>1, <2>3, SumParts DEF S
    <2>6. SumFunctionOnSet(f, P) \in Nat /\ SumFunctionOnSet(f, S \ P) \in Nat
      BY <2>1, <2>2, <2>3, SumNat
    <2> QED BY <2>4, <2>5, <2>6
  <1> QED BY <1>2, <1>4, <1>5

\* What an announcement adds.
LEMMA AnnouncesOnce ==
    ASSUME IsABag(outbox), AnnouncedOnce, NEW V, DOMAIN wallet.txns \subseteq DOMAIN V.txns,
           NEW N, \A n \in N : n[2] \in DOMAIN V.txns \ DOMAIN wallet.txns,
           wallet' = V, outbox' = Announce(outbox, N)
    PROVE  IsABag(outbox') /\ AnnouncedOnce'
  <1> DEFINE B == Announce(outbox, N)
  <1>1. N \cap DOMAIN outbox = {}
    BY DEF AnnouncedOnce
  <1>2. DOMAIN B = DOMAIN outbox \cup N
    BY DEF Announce, SetToBag, (+)
  <1>3. \A n \in DOMAIN outbox : B[n] = outbox[n] + 0 /\ outbox[n] = 1
    BY <1>1 DEF Announce, SetToBag, (+), AnnouncedOnce
  <1>4. \A n \in N : B[n] = 0 + 1
    BY <1>1 DEF Announce, SetToBag, (+)
  <1>5. B = [n \in DOMAIN B |-> B[n]]
    BY DEF Announce, (+)
  <1> HIDE DEF B
  <1>6. \A n \in DOMAIN B : B[n] = 1
    BY <1>2, <1>3, <1>4
  <1>7. IsABag(B)
    BY <1>5, <1>6 DEF IsABag
  <1>8. \A n \in DOMAIN B : n[2] \in DOMAIN V.txns
    BY <1>2 DEF AnnouncedOnce
  <1>9. outbox' = B
    BY DEF B
  <1> QED BY <1>6, <1>7, <1>8, <1>9 DEF AnnouncedOnce

\* Operations other than a refund by Stripe keep the invariant.
LEMMA TransactsKeeps ==
    ASSUME WalletInv, NEW T, Transacts(T), "stripe_refund" \notin T
    PROVE  WalletInv'
  <1>1. Good(wallet) /\ Moved(wallet, wallet', T) /\ now' = now /\ stripe' = stripe
    BY DEF WalletInv, Transacts
  <1>2. PICK N : /\ outbox' = Announce(outbox, N)
                 /\ \A n \in N : n[2] \in DOMAIN wallet'.txns \ DOMAIN wallet.txns
    BY DEF Transacts
  <1>3. DOMAIN wallet.txns \subseteq DOMAIN wallet'.txns
    BY <1>1, RowsKept
  <1>4. IsABag(outbox') /\ AnnouncedOnce'
    BY <1>2, <1>3, AnnouncesOnce DEF WalletInv
  <1>5. /\ \A a : stripe_refund_applied(wallet', a) = stripe_refund_applied(wallet, a)
        /\ \A a, l : LevelKey(a, l) \in DOMAIN wallet'.txns => LevelKey(a, l) \in DOMAIN wallet.txns
    BY <1>1, NoRefundMoved
  <1>6. RefundsConverge'
    BY <1>1, <1>5 DEF WalletInv, RefundsConverge
  <1>7. LevelsTaken(wallet')
    BY <1>5 DEF WalletInv, LevelsTaken
  <1>8. Good(wallet') /\ now' \in 0..MaxTime /\ StripeTyped'
    BY <1>1 DEF Moved, WalletInv, StripeTyped
  <1> QED BY <1>4, <1>6, <1>7, <1>8 DEF WalletInv
\* An event of a charge: the ledger follows the highest cumulative amount told.
LEMMA EventStep ==
    ASSUME WalletInv, NEW a \in Attempts, NEW n \in 1..stripe[a].made, NEW s \in SUBSET (1..n),
           handle_charge_refunded(a, n, s)
    PROVE  Moved(wallet, wallet', {"stripe_refund"}) /\ WalletInv'
  <1> DEFINE level == CumulativeAt(a, n)
             V == claw_back_stripe_refund(Listed(Expired, a, level, s), a, LevelKey(a, level), level, level)
  <1>1. /\ wallet' = V /\ outbox' = Announce(outbox, ExpiryNotices(wallet)) /\ now' = now
        /\ stripe' = [stripe EXCEPT ![a].told = IF n > @ THEN n ELSE @]
    BY DEF handle_charge_refunded, Listed, LevelKey
  <1>2. /\ Good(wallet) /\ Good(Expired) /\ StripeTyped /\ LevelsTaken(wallet) /\ RefundsConverge
        /\ now \in 0..MaxTime /\ IsABag(outbox) /\ AnnouncedOnce
    BY ExpiredGood DEF WalletInv
  <1>3. /\ stripe[a].told \in Nat /\ stripe[a].made \in Nat /\ n \in Nat /\ n <= Len(Refunds[a])
        /\ stripe[a].told <= stripe[a].made /\ stripe[a].told <= Len(Refunds[a])
        /\ Len(Refunds[a]) \in Nat
    <2>1. Len(Refunds[a]) \in Nat
      BY WalletAssumption
    <2> QED BY <1>2, <2>1 DEF StripeTyped
  <1>4. level \in Nat /\ IsFiniteSet(s) /\ \A i \in s : Refunds[a][i] \in Nat
    <2>1. IsFiniteSet(1..n)
      BY <1>3, FS_Interval
    <2>2. IsFiniteSet(s)
      BY <2>1, FS_Subset
    <2>3. CumulativeAt(a, n) \in Nat /\ \A i \in 1..n : Refunds[a][i] \in Nat
      BY ONLY <1>3, CumulativeGrows, a \in Attempts
    <2> QED BY <2>2, <2>3
  <1>5. Moved(wallet, Expired, {})
    BY <1>2, NothingMoved DEF Expired
  <1>6. /\ \A b : stripe_refund_applied(Expired, b) = stripe_refund_applied(wallet, b)
        /\ \A b, l : LevelKey(b, l) \in DOMAIN Expired.txns => LevelKey(b, l) \in DOMAIN wallet.txns
    BY <1>2, <1>5, NoRefundMoved
  <1> DEFINE told == stripe[a].told
             taken == CumulativeAt(a, told)
  <1>7. stripe_refund_applied(Expired, a) = taken /\ taken \in Nat
    BY <1>2, <1>3, <1>6, CumulativeGrows DEF RefundsConverge
  <1>8. LevelKey(a, level) \in DOMAIN Expired.txns => stripe_refund_applied(Expired, a) >= level
    BY <1>2, <1>6 DEF LevelsTaken
  <1> HIDE DEF level, taken
  <1>9. stripe_refund_applied(Expired, a) >= 0
    BY <1>7
  <1>10. /\ Clawed(Expired, V, a, level)
         /\ stripe_refund_applied(V, a) =
              IF stripe_refund_applied(Expired, a) < level THEN level
              ELSE stripe_refund_applied(Expired, a)
    BY ONLY <1>2, <1>4, <1>8, <1>9, EventClawed, a \in Attempts
  <1> HIDE DEF V
  <1>11. Moved(wallet, V, {"stripe_refund"})
    BY <1>2, <1>10, ClawMoved DEF Expired
  <1>12. IsABag(outbox') /\ AnnouncedOnce'
    <2>1. DOMAIN wallet.txns \subseteq DOMAIN V.txns
      BY <1>2, <1>11, RowsKept
    <2>2. \A m \in ExpiryNotices(wallet) : m[2] \in DOMAIN Expired.txns \ DOMAIN wallet.txns
      BY <1>2, NoticesNew DEF Expired
    <2>3. DOMAIN Expired.txns \subseteq DOMAIN V.txns
      BY <1>10 DEF Clawed, Grows
    <2>4. \A m \in ExpiryNotices(wallet) : m[2] \in DOMAIN V.txns \ DOMAIN wallet.txns
      BY <2>2, <2>3
    <2> QED BY ONLY <1>1, <1>2, <2>1, <2>4, AnnouncesOnce
  <1>13. /\ stripe' \in [Attempts -> [made : Nat, told : Nat]]
         /\ stripe'[a].told = IF n > told THEN n ELSE told
         /\ stripe'[a].made = stripe[a].made
         /\ \A b \in Attempts \ {a} : stripe'[b] = stripe[b]
    BY <1>1, <1>2, <1>3 DEF StripeTyped
  <1>14. StripeTyped'
    <2>1. \A b \in Attempts \ {a} : stripe'[b].told <= stripe'[b].made /\ stripe'[b].made <= Len(Refunds[b])
      BY <1>2, <1>13 DEF StripeTyped
    <2>2. stripe'[a].told <= stripe'[a].made
      BY <1>3, <1>13
    <2>3. stripe'[a].made <= Len(Refunds[a])
      BY <1>2, <1>13 DEF StripeTyped
    <2> QED BY <1>13, <2>1, <2>2, <2>3 DEF StripeTyped
  <1>15. stripe_refund_applied(V, a) = CumulativeAt(a, stripe'[a].told)
    <2>1. CASE n > told
      <3>1. taken <= level
        BY <1>3, <2>1, CumulativeGrows DEF level, taken
      <3>2. stripe_refund_applied(V, a) = level
        BY <1>4, <1>7, <1>10, <3>1
      <3> QED BY <1>13, <2>1, <3>2 DEF level
    <2>2. CASE ~(n > told)
      <3>1. level <= taken
        BY <1>3, <2>2, CumulativeGrows DEF level, taken
      <3>2. stripe_refund_applied(V, a) = taken
        BY <1>4, <1>7, <1>10, <3>1
      <3> QED BY <1>13, <2>2, <3>2 DEF taken
    <2> QED BY <2>1, <2>2
  <1>16. RefundsConverge'
    <2>1. \A b \in Attempts \ {a} : stripe_refund_applied(V, b) = CumulativeAt(b, stripe'[b].told)
      BY <1>2, <1>6, <1>10, <1>13 DEF Clawed, RefundsConverge
    <2>2. \A b \in Attempts : stripe_refund_applied(wallet', b) = CumulativeAt(b, stripe'[b].told)
      BY <1>1, <1>15, <2>1
    <2> QED BY <2>2 DEF RefundsConverge, CumulativeAt
  <1>17. LevelsTaken(V)
    <2> SUFFICES ASSUME NEW b \in Attempts, NEW l, LevelKey(b, l) \in DOMAIN V.txns
                 PROVE  l \in Nat /\ stripe_refund_applied(V, b) >= l
      BY DEF LevelsTaken
    <2>1. CASE LevelKey(b, l) \in DOMAIN Expired.txns
      <3>1. l \in Nat /\ stripe_refund_applied(Expired, b) >= l
        BY <1>2, <1>6, <2>1 DEF LevelsTaken
      <3>2. CASE b = a
        <4>1. stripe_refund_applied(Expired, a) <= stripe_refund_applied(V, a)
          BY <1>10 DEF Clawed
        <4>2. stripe_refund_applied(V, a) \in Int
          BY <1>4, <1>7, <1>10
        <4> QED BY <1>7, <3>1, <3>2, <4>1, <4>2
      <3>3. CASE b # a
        BY <1>10, <3>1, <3>3 DEF Clawed
      <3> QED BY <3>2, <3>3
    <2>2. CASE LevelKey(b, l) \notin DOMAIN Expired.txns
      BY <1>4, <1>10, <2>2 DEF Clawed
    <2> QED BY <2>1, <2>2
  <1>18. Good(V)
    BY <1>10 DEF Clawed
  <1> QED BY <1>1, <1>2, <1>11, <1>12, <1>14, <1>16, <1>17, <1>18 DEF WalletInv
\* Time passes and Stripe makes refunds: the wallet does not move.
LEMMA EnvironmentStep ==
    ASSUME WalletInv, Tick \/ \E a \in Attempts : StripeRefunds(a)
    PROVE  WalletInv' /\ wallet' = wallet
  <1>1. CASE Tick
    <2>1. now' \in 0..MaxTime /\ wallet' = wallet /\ outbox' = outbox /\ stripe' = stripe
      BY <1>1, WalletAssumption DEF Tick, WalletInv
    <2> QED BY <2>1 DEF WalletInv, StripeTyped, AnnouncedOnce, RefundsConverge
  <1>2. ASSUME NEW a \in Attempts, StripeRefunds(a) PROVE WalletInv' /\ wallet' = wallet
    <2>1. /\ now' = now /\ wallet' = wallet /\ outbox' = outbox /\ stripe[a].made < Len(Refunds[a])
          /\ stripe' = [stripe EXCEPT ![a].made = @ + 1]
      BY <1>2 DEF StripeRefunds
    <2>2. StripeTyped /\ Len(Refunds[a]) \in Nat
      BY WalletAssumption DEF WalletInv
    <2>3. /\ stripe' \in [Attempts -> [made : Nat, told : Nat]]
          /\ \A b \in Attempts : stripe'[b].told = stripe[b].told
          /\ stripe'[a].made = stripe[a].made + 1
          /\ \A b \in Attempts \ {a} : stripe'[b].made = stripe[b].made
      BY <2>1, <2>2 DEF StripeTyped
    <2>4. stripe[a].told \in Nat /\ stripe[a].made \in Nat /\ stripe[a].told <= stripe[a].made
      BY <2>2 DEF StripeTyped
    <2>5. stripe'[a].told <= stripe'[a].made /\ stripe'[a].made <= Len(Refunds[a])
      BY <2>1, <2>2, <2>3, <2>4
    <2>6. \A b \in Attempts \ {a} : stripe'[b].told <= stripe'[b].made /\ stripe'[b].made <= Len(Refunds[b])
      BY <2>2, <2>3 DEF StripeTyped
    <2>7. StripeTyped'
      BY <2>3, <2>5, <2>6 DEF StripeTyped
    <2>8. RefundsConverge'
      BY <2>1, <2>3 DEF WalletInv, RefundsConverge
    <2> QED BY <2>1, <2>7, <2>8 DEF WalletInv, AnnouncedOnce
  <1> QED BY <1>1, <1>2

LEMMA WalletInit == Init => WalletInv /\ WP!Init
  <1> SUFFICES ASSUME Init PROVE WalletInv /\ WP!Init
    OBVIOUS
  <1> DEFINE W == wallet
  <1>1. /\ now = 0 /\ outbox = <<>> /\ DOMAIN W = Fields /\ W.balance = 0
        /\ W.grants = <<>> /\ W.txns = <<>> /\ W.allocs = <<>>
        /\ stripe = [a \in Attempts |-> [made |-> 0, told |-> 0]]
    BY DEF Init, Fields
  <1>2. DOMAIN W.grants = {} /\ DOMAIN W.txns = {} /\ DOMAIN W.allocs = {}
    BY <1>1
  <1> HIDE DEF W
  <1>3. IsFiniteSet({})
    BY FS_EmptySet
  <1>4. Cardinality({}) = 0
    BY FS_EmptySet
  <1>5. W.grants \in [DOMAIN W.grants -> LotType] /\ W.allocs \in [DOMAIN W.allocs -> [amount : Nat, refunded : Nat, type : SliceTypes]]
    BY <1>1
  <1>6. LotsTyped(W) /\ RowsTyped(W) /\ SlicesTyped(W) /\ KeysKept(W)
    BY <1>2, <1>3, <1>5 DEF LotsTyped, RowsTyped, SlicesTyped, KeysKept
  <1>7. \A f : SumOver({}, f) = 0
    BY SumEmpty DEF SumOver
  <1>8. LedgerAddsUp(W) /\ LotsAddUp(W) /\ SlicesWithinRows(W)
    BY <1>1, <1>2, <1>7 DEF LedgerAddsUp, LotsAddUp, SlicesWithinRows
  <1>9. Sound(W)
    BY <1>1, <1>6, <1>8 DEF Sound, Typed
  <1>10. Held(W, "promo") = 0 /\ Held(W, "paid") = 0
    BY <1>2, <1>7 DEF Held
  <1>11. PoolsOf(W) = [balance |-> 0, promo |-> 0, paid |-> 0]
    BY <1>1, <1>9, <1>10, PoolsFields
  <1>12. WP!Covered(PoolsOf(W))
    BY <1>11 DEF WP!Covered, WP!Lots, WP!AtLeastZero
  <1>13. StripeTyped
    BY <1>1, WalletAssumption DEF StripeTyped
  <1>14. IsABag(outbox) /\ AnnouncedOnce
    BY <1>1 DEF IsABag, AnnouncedOnce
  <1>15. ASSUME NEW a \in Attempts PROVE stripe_refund_applied(W, a) = CumulativeAt(a, stripe[a].told)
    <2>1. RefundRows(W, a) = {}
      BY <1>2 DEF RefundRows
    <2>2. stripe_refund_applied(W, a) = -SumOver({}, AmountsOf(W))
      BY <1>9, <2>1, AppliedFacts
    <2>3. stripe[a].told = 0 /\ 1..0 = {}
      BY <1>1
    <2>4. CumulativeAt(a, 0) = SumOver({}, Refunds[a])
      BY <2>3 DEF CumulativeAt
    <2> QED BY <1>7, <2>2, <2>3, <2>4
  <1>16. RefundsConverge
    BY <1>15 DEF RefundsConverge, W
  <1>17. LevelsTaken(W)
    BY <1>2 DEF LevelsTaken
  <1>18. now \in 0..MaxTime
    BY <1>1, WalletAssumption
  <1>19. WalletInv
    BY <1>9, <1>12, <1>13, <1>14, <1>16, <1>17, <1>18 DEF WalletInv, Good, W
  <1> QED BY <1>11, <1>19 DEF WP!Init, W

\* Every action is a movement of the pools, and keeps the invariant.
LEMMA WalletStep ==
    ASSUME WalletInv, Next
    PROVE  WalletInv' /\ Spared /\ \E T : Moved(wallet, wallet', T)
  <1>1. Good(wallet) /\ now \in Nat
    BY WalletAssumption DEF WalletInv
  <1>2. ASSUME NEW T, Transacts(T), "stripe_refund" \notin T, "withdrawal" \notin T
        PROVE  WalletInv' /\ Spared /\ \E S : Moved(wallet, wallet', S)
    <2>1. Moved(wallet, wallet', T)
      BY <1>2 DEF Transacts
    <2> QED BY <1>1, <1>2, <2>1, TransactsKeeps, NoWithdrawal
  <1>3. CASE \E k \in CallKeys, m \in Amounts, force \in BOOLEAN : debit(k, m, force)
    <2>1. Transacts({"debit"})
      BY <1>1, <1>3, DebitStep
    <2> QED BY <1>2, <2>1
  <1>4. CASE \E k \in CallKeys, m \in Amounts : credit(k, m)
    <2>1. Transacts({"adjustment"})
      BY <1>1, <1>4, CreditStep
    <2> QED BY <1>2, <2>1
  <1>5. CASE \E k \in CallKeys, m \in Amounts : withdraw(k, m)
    <2>1. Transacts({"withdrawal"}) /\ Spared
      BY <1>1, <1>5, WithdrawStep
    <2>2. WalletInv'
      BY <2>1, TransactsKeeps
    <2> QED BY <2>1, <2>2 DEF Transacts
  <1>6. CASE \E k \in CallKeys, e \in Events : refund_usage(k, e)
    <2>1. Transacts({"refund"})
      BY <1>1, <1>6, RefundStep
    <2> QED BY <1>2, <2>1
  <1>7. CASE \E k \in GrantKeys, kind \in {"promo", "paid"}, m \in Amounts, d \in Lifetimes :
                mint_grant(k, kind, m, ExpiryAfter(d))
    <2>1. Transacts({"grant"})
      BY <1>1, <1>7, MintStep
    <2> QED BY <1>2, <2>1
  <1>8. CASE \E g \in DOMAIN wallet.grants : void_grant(g)
    <2>1. Transacts({"grant_void"})
      BY <1>1, <1>8, VoidStep
    <2> QED BY <1>2, <2>1
  <1>9. CASE \E e \in Events, repair \in BOOLEAN : draw_down_usage(e, repair)
    <2>1. Transacts({"usage_deduction"})
      BY <1>1, <1>9, DrawdownStep
    <2> QED BY <1>2, <2>1
  <1>10. CASE \E a \in Attempts : credit_top_up(a)
    <2>1. Transacts({"top_up"})
      BY <1>1, <1>10, TopUpStep
    <2> QED BY <1>2, <2>1
  <1>11. CASE \E a \in Attempts : claw_back_dispute(a)
    <2>1. Transacts({"dispute_deduction"})
      BY <1>1, <1>11, DisputeStep
    <2> QED BY <1>2, <2>1
  <1>12. CASE \E a \in Attempts : \E n \in 1..stripe[a].made : \E s \in SUBSET (1..n) :
                  handle_charge_refunded(a, n, s)
    <2>1. WalletInv' /\ Moved(wallet, wallet', {"stripe_refund"})
      BY <1>12, EventStep
    <2>2. Spared
      BY <1>1, <2>1, NoWithdrawal
    <2> QED BY <2>1, <2>2
  <1>13. CASE expire_due_sweep
    <2>1. Transacts({})
      BY <1>1, <1>13, NothingTransacts DEF expire_due_sweep
    <2> QED BY <1>2, <2>1
  <1>14. CASE Tick \/ \E a \in Attempts : StripeRefunds(a)
    <2>1. WalletInv' /\ wallet' = wallet
      BY <1>14, EnvironmentStep
    <2>2. Moved(wallet, wallet', {})
      BY <1>1, <2>1, NothingMoved
    <2> QED BY <1>1, <2>1, <2>2, NoWithdrawal
  <1> QED BY <1>3, <1>4, <1>5, <1>6, <1>7, <1>8, <1>9, <1>10, <1>11, <1>12, <1>13, <1>14 DEF Next

LEMMA WalletUnchanged == ASSUME WalletInv, UNCHANGED vars PROVE WalletInv' /\ wallet' = wallet
  BY DEF vars, WalletInv, StripeTyped, AnnouncedOnce, RefundsConverge

-----------------------------------------------------------------------------
(* The theorems.                                                            *)

LEMMA InvariantHolds == Spec => []WalletInv
  <1>1. WalletInv /\ [Next]_vars => WalletInv'
    BY WalletStep, WalletUnchanged
  <1> QED BY <1>1, WalletInit, PTL DEF Spec

\* G1 of grants.py, which reconcile_wallet_balances audits: the active lots
\* never hold more than the spendable balance, for any number of lots, keys,
\* events and refunds.
THEOREM WalletCovered == Spec => []LotsCovered
  <1>1. WalletInv => LotsCovered
    <2> SUFFICES ASSUME WalletInv PROVE LotsCovered
      OBVIOUS
    <2>1. Sound(wallet) /\ WP!Covered(PoolsOf(wallet)) /\ LotsTyped(wallet)
      BY DEF WalletInv, Good, Sound, Typed
    <2> QED BY <2>1, CoveredMeans, PoolSums DEF LotsCovered
  <1> QED BY <1>1, InvariantHolds, PTL

\* G2 of grants.py and the drift that the reconciliation looks for: the balance
\* is the sum of the ledger, each lot accounts for all it was granted, and no
\* row is paid for by lots with more than its amount.
THEOREM WalletBalances == Spec => []BooksBalance
  <1>1. WalletInv => BooksBalance
    <2> SUFFICES ASSUME WalletInv PROVE BooksBalance
      OBVIOUS
    <2>1. Sound(wallet) /\ StripeTyped /\ IsABag(outbox) /\ now \in 0..MaxTime
      BY DEF WalletInv, Good
    <2>2. /\ LotsTyped(wallet) /\ RowsTyped(wallet) /\ SlicesTyped(wallet) /\ KeysKept(wallet)
          /\ wallet.balance \in Int
      BY <2>1 DEF Sound, Typed
    <2>3. ASSUME NEW g \in DOMAIN wallet.grants
          PROVE  LET lot == wallet.grants[g]
                 IN  /\ g \in DOMAIN wallet.txns
                     /\ lot.remaining \in 0..lot.granted
                     /\ lot.expired \in Nat /\ lot.voided \in Nat
                     /\ lot.status \in Statuses
                     /\ (lot.status = "active") <=> (lot.remaining > 0)
      BY <2>2, LotFacts DEF KeysKept
    <2>4. ASSUME NEW p \in DOMAIN wallet.allocs
          PROVE  /\ p[1] \in DOMAIN wallet.grants /\ p[2] \in DOMAIN wallet.txns
                 /\ wallet.allocs[p].refunded \in 0..wallet.allocs[p].amount
      BY <2>2, SliceFacts DEF SlicesTyped
    <2>5. ASSUME NEW a \in Attempts PROVE stripe[a].told \in 0..stripe[a].made
      BY <2>1 DEF StripeTyped
    <2>6. TypeOK
      BY <2>1, <2>2, <2>3, <2>4, <2>5 DEF TypeOK, RowsTyped
    <2> QED BY <2>1, <2>6 DEF BooksBalance, Sound
  <1> QED BY <1>1, InvariantHolds, PTL

\* charge.refunded events in any order, repeated, with or without the refund
\* list: the ledger has taken exactly the highest cumulative amount told.
THEOREM WalletConverges == Spec => []RefundsConverge
  BY InvariantHolds, PTL DEF WalletInv

\* No movement is announced twice, and none that was not made.
THEOREM WalletAnnouncesOnce == Spec => []AnnouncedOnce
  BY InvariantHolds, PTL DEF WalletInv

\* G3 of grants.py: what expires in a step never takes the balance below zero.
THEOREM WalletStaysSolvent == Spec => ExpiryKeepsSolvent
  <1> DEFINE A == LET new == {k \in DOMAIN wallet'.txns \ DOMAIN wallet.txns : k[1] = "expiry"}
                      debited == -SumOver(new, AmountsOf(wallet)')
                  IN  debited > 0 => wallet.balance - debited >= 0
  <1>1. WalletInv /\ [Next]_vars => [A]_vars
    <2> SUFFICES ASSUME WalletInv, Next PROVE A
      OBVIOUS
    <2>1. PICK T : Moved(wallet, wallet', T)
      BY WalletStep
    <2>2. Good(wallet)
      BY DEF WalletInv
    <2> QED BY <2>1, <2>2, MovedSolvent DEF AmountsOf
  <1> QED BY <1>1, InvariantHolds, PTL DEF Spec, ExpiryKeepsSolvent

\* A withdrawal leaves the promo lots whole and covered.
THEOREM WalletSparesPromo == Spec => WithdrawalSparesPromo
  <1>1. WalletInv /\ [Next]_vars => [Spared]_vars
    BY WalletStep
  <1> QED BY <1>1, InvariantHolds, PTL DEF Spec, WithdrawalSparesPromo, Spared

\* The wallet, with its lots, keys, expiries, refund events and cascades,
\* implements the money pools of WalletPools.
THEOREM WalletImplementsPools == Spec => ImplementsPools
  <1>1. Init => WP!Init
    BY WalletInit
  <1>2. WalletInv /\ [Next]_vars => [WP!Next]_(PoolsOf(wallet))
    <2> SUFFICES ASSUME WalletInv, [Next]_vars PROVE [WP!Next]_(PoolsOf(wallet))
      OBVIOUS
    <2>1. CASE Next
      <3>1. PICK T : Moved(wallet, wallet', T)
        BY <2>1, WalletStep
      <3>2. WP!Transaction(PoolsOf(wallet), PoolsOf(wallet'))
        BY <3>1 DEF Moved
      <3> QED BY <3>2 DEF WP!Next
    <2>2. CASE UNCHANGED vars
      BY <2>2 DEF vars
    <2> QED BY <2>1, <2>2
  <1> QED BY <1>1, <1>2, InvariantHolds, PTL DEF Spec, ImplementsPools, WP!Spec
-----------------------------------------------------------------------------
(***************************************************************************)
(* The live balance counter: its types, and that without a fault and       *)
(* before a repair it is the wallet less what is on its way, plus at most  *)
(* the debits it is not told of.                                           *)
(*                                                                         *)
(* LiveTracksWallet is not inductive: a flushed counter would be seeded    *)
(* anew, and a recording that missed its debit would be drawn down without *)
(* having been in flight.  Both take a fault (Faultless).                  *)
(***************************************************************************)

\* Without a fault the counter stands and no recording missed its debit.
Faultless ==
    faults = 0 =>
        /\ live # Absent
        /\ \A r \in Recordings : rec[r] \notin {"blind", "recordedBlind"}

LiveInv == LiveTypeOK /\ Faultless /\ LiveTracksWallet

\* How far the counter is above what the wallet will hold.
Excess == live - (balance - Undrawn - Unmirrored)

-----------------------------------------------------------------------------
(* The amounts on their way.                                                *)

\* f adds up over the subsets of D, one element at a time.
AddsUp(D, f) ==
    /\ IsFiniteSet(D) /\ Total({}, f) = 0
    /\ \A S \in SUBSET D : /\ Total(S, f) \in Nat
                           /\ \A x \in D \ S : Total(S \cup {x}, f) = Total(S, f) + f[x]

LEMMA SumsAddUp == AddsUp(Recordings, Billed) /\ AddsUp(Credits \cup Debits, Amount)
  <1>1. ASSUME NEW D, IsFiniteSet(D), NEW f \in [D -> Nat] PROVE AddsUp(D, f)
    <2>1. Total({}, f) = 0
      BY SumEmpty DEF Total
    <2>2. ASSUME NEW S \in SUBSET D
          PROVE  /\ Total(S, f) \in Nat
                 /\ \A x \in D \ S : Total(S \cup {x}, f) = Total(S, f) + f[x]
      <3>1. IsFiniteSet(S) /\ \A x \in D : f[x] \in Nat /\ f[x] \in Int
        BY <1>1, FS_Subset
      <3>2. SumFunctionOnSet(f, S) \in Nat
        BY <3>1, SumNat
      <3>3. \A x \in D \ S : SumFunctionOnSet(f, S \cup {x}) = SumFunctionOnSet(f, S) + f[x]
        BY <3>1, SumAdds
      <3> QED BY <3>2, <3>3 DEF Total
    <2> QED BY <1>1, <2>1, <2>2 DEF AddsUp
  <1>2. Billed \in [Recordings -> Nat] /\ Amount \in [Credits \cup Debits -> Nat]
    BY LiveAssumption
  <1> QED BY <1>1, <1>2, LiveAssumption

\* One element joins a sum.
LEMMA TotalAdds ==
    \A D, f : AddsUp(D, f) =>
        \A S \in SUBSET D : \A x \in D : x \notin S => Total(S \cup {x}, f) = Total(S, f) + f[x]
  BY DEF AddsUp

\* One element leaves it.
LEMMA TotalDrops ==
    \A D, f : AddsUp(D, f) =>
        \A S \in SUBSET D : \A x \in S : Total(S, f) = Total(S \ {x}, f) + f[x]
  <1> SUFFICES ASSUME NEW D, NEW f, AddsUp(D, f), NEW S \in SUBSET D, NEW x \in S
               PROVE  Total(S, f) = Total(S \ {x}, f) + f[x]
    OBVIOUS
  <1>1. (S \ {x}) \cup {x} = S
    OBVIOUS
  <1>2. Total((S \ {x}) \cup {x}, f) = Total(S \ {x}, f) + f[x]
    BY TotalAdds
  <1> QED BY <1>1, <1>2

\* The amounts on their way are natural numbers.
LEMMA OnTheirWay ==
    /\ Undrawn \in Nat /\ Unmirrored \in Nat /\ Unseen \in Nat
    /\ Undrawn' \in Nat /\ Unmirrored' \in Nat /\ Unseen' \in Nat
  <1>1. /\ InFlight \in SUBSET Recordings /\ InFlight' \in SUBSET Recordings
    BY DEF InFlight
  <1>2. \A S \in SUBSET Recordings : Total(S, Billed) \in Nat
    BY SumsAddUp DEF AddsUp
  <1>3. \A S \in SUBSET (Credits \cup Debits) : Total(S, Amount) \in Nat
    BY SumsAddUp DEF AddsUp
  <1> QED BY <1>1, <1>2, <1>3 DEF Undrawn, Unmirrored, Unseen

-----------------------------------------------------------------------------
(* The types.                                                               *)

LEMMA InitType == LiveInit => LiveTypeOK
  <1> SUFFICES ASSUME LiveInit PROVE LiveTypeOK
    OBVIOUS
  <1>1. rec \in [Recordings -> {"new"}] /\ moved \in [Credits \cup Debits -> {"new"}]
    BY DEF LiveInit
  <1>2. seed \in [Recordings -> Int]
    BY DEF LiveInit
  <1>3. /\ balance \in Int /\ live \in Int /\ first = NoCandidate /\ measured = Free
        /\ fresh = TRUE /\ repaired = FALSE /\ faults \in 0..MaxFaults
    BY LiveAssumption DEF LiveInit
  <1> QED BY <1>1, <1>2, <1>3 DEF LiveTypeOK

\* Every step keeps the types, and an open candidate past the de-minimis.
LEMMA StepType == LiveTypeOK /\ [LiveNext]_liveVars => LiveTypeOK'
  <1> SUFFICES ASSUME LiveTypeOK, [LiveNext]_liveVars PROVE LiveTypeOK'
    OBVIOUS
  <1> USE LiveAssumption DEF LiveTypeOK, walletVars, repairVars, Fault
  <1>1. ASSUME NEW r \in Recordings, ReadSeed(r) \/ DebitLive(r) \/ DebitBlind(r) PROVE LiveTypeOK'
    BY <1>1 DEF ReadSeed, DebitLive, DebitBlind, SeedAndDecr
  <1>2. ASSUME NEW r \in Recordings, CommitRecording(r) \/ RollBack(r) \/ DrawDown(r) PROVE LiveTypeOK'
    BY <1>2 DEF CommitRecording, RollBack, DrawDown
  <1>3. ASSUME NEW m \in Credits, PostCredit(m) \/ Mirror(m) \/ LoseMirror(m) PROVE LiveTypeOK'
    BY <1>3 DEF PostCredit, Mirror, LoseMirror, IncrIfPresent
  <1>4. ASSUME NEW m \in Debits, PostDebit(m) PROVE LiveTypeOK'
    BY <1>4 DEF PostDebit
  <1>5. CASE Flush \/ reconcile_prepaid
    BY <1>5 DEF Flush, reconcile_prepaid, ReconcileMin, Lesser
  <1>6. CASE RepairMeasures
    BY <1>6 DEF RepairMeasures, NoDeficit
  <1>7. CASE RepairObserves
    BY <1>7 DEF RepairObserves, Release, Qualifying, NoDeficit
  <1>8. CASE RepairLapses
    BY <1>8 DEF RepairLapses, Release
  <1>9. CASE RepairApplies
    BY <1>9 DEF RepairApplies, Release, Qualifying, Standing, NoDeficit, IncrIfPresent,
                RepairAmount, Lesser
  <1>10. CASE CandidateAges
    <2>1. fresh' \in BOOLEAN
      BY <1>10 DEF CandidateAges
    <2>2. /\ UNCHANGED <<balance, moved, live, rec, seed, first, measured, repaired>>
          /\ faults < MaxFaults /\ faults' = faults + 1
      BY <1>10 DEF CandidateAges
    <2> QED BY <2>1, <2>2
  <1>11. CASE UNCHANGED liveVars
    BY <1>11 DEF liveVars
  <1> QED BY <1>1, <1>2, <1>3, <1>4, <1>5, <1>6, <1>7, <1>8, <1>9, <1>10, <1>11 DEF LiveNext

\* The counter and its repair keep their types; a repair never adds less than
\* the de-minimis (_repair_owner, qualifying).
THEOREM LiveTypeCorrect == LiveSpec => []LiveTypeOK
  <1> QED BY InitType, StepType, PTL DEF LiveSpec

-----------------------------------------------------------------------------
(* The counter follows the wallet.                                          *)

LEMMA InitTracks == LiveInit => Faultless /\ LiveTracksWallet
  <1> SUFFICES ASSUME LiveInit PROVE Faultless /\ LiveTracksWallet
    OBVIOUS
  <1>1. /\ InFlight = {} /\ {m \in Credits : moved[m] = "posted"} = {}
        /\ {m \in Debits : moved[m] = "unmirrored"} = {}
    BY DEF LiveInit, InFlight
  <1>2. Undrawn = 0 /\ Unmirrored = 0 /\ Unseen = 0
    BY <1>1, SumsAddUp DEF AddsUp, Undrawn, Unmirrored, Unseen
  <1> QED BY <1>2, LiveAssumption DEF LiveInit, Faultless, LiveTracksWallet

\* The bound in terms of the excess.
LEMMA TracksByExcess ==
    /\ LiveTracksWallet <=> ((faults = 0 /\ ~repaired) => Excess \in 0..Unseen)
    /\ LiveTracksWallet' <=> ((faults' = 0 /\ ~repaired') => Excess' \in 0..Unseen')
  BY DEF LiveTracksWallet, Excess

\* Nothing but a fault flushes the counter or lets a debit be missed.
LEMMA StepFaultless == LiveTypeOK /\ Faultless /\ [LiveNext]_liveVars => Faultless'
  <1> SUFFICES ASSUME LiveTypeOK, Faultless, [LiveNext]_liveVars, faults' = 0 PROVE Faultless'
    BY DEF Faultless
  <1> USE LiveAssumption DEF LiveTypeOK, Faultless
  <1>1. ~Fault
    BY DEF Fault
  <1>2. ASSUME NEW r \in Recordings,
               ReadSeed(r) \/ DebitLive(r) \/ CommitRecording(r) \/ DrawDown(r)
        PROVE  Faultless'
    BY <1>2 DEF ReadSeed, DebitLive, CommitRecording, DrawDown, SeedAndDecr
  <1>3. ASSUME NEW m \in Credits, PostCredit(m) \/ Mirror(m) PROVE Faultless'
    BY <1>3 DEF PostCredit, Mirror, IncrIfPresent
  <1>4. ASSUME NEW m \in Debits, PostDebit(m) PROVE Faultless'
    BY <1>4 DEF PostDebit
  <1>5. CASE reconcile_prepaid
    BY <1>5 DEF reconcile_prepaid, ReconcileMin, Lesser
  <1>6. CASE RepairMeasures \/ RepairObserves \/ RepairLapses
    BY <1>6 DEF RepairMeasures, RepairObserves, RepairLapses, Release
  <1>7. CASE RepairApplies
    BY <1>7 DEF RepairApplies, Release, Qualifying, Standing, NoDeficit, IncrIfPresent,
                RepairAmount, Lesser
  <1>8. CASE UNCHANGED liveVars
    BY <1>8 DEF liveVars
  <1> QED BY <1>1, <1>2, <1>3, <1>4, <1>5, <1>6, <1>7, <1>8
          DEF LiveNext, DebitBlind, RollBack, LoseMirror, Flush, CandidateAges

\* A recording: the counter takes the cost as it goes in flight, the wallet as
\* it lands.
LEMMA RecordingTracks ==
    ASSUME LiveTypeOK, Faultless, Excess \in 0..Unseen, faults = 0, NEW r \in Recordings,
           ReadSeed(r) \/ DebitLive(r) \/ CommitRecording(r) \/ DrawDown(r)
    PROVE  Excess' \in 0..Unseen'
  <1> USE DEF LiveTypeOK, Faultless
  <1>1. UNCHANGED moved /\ Unmirrored' = Unmirrored /\ Unseen' = Unseen
    BY DEF ReadSeed, DebitLive, CommitRecording, DrawDown, walletVars, Unmirrored, Unseen
  <1>2. /\ live \in Int /\ balance \in Int /\ Billed[r] \in Nat
        /\ Undrawn \in Nat /\ Unmirrored \in Nat /\ Unseen \in Nat
    BY LiveAssumption, OnTheirWay
  <1>3. /\ InFlight \in SUBSET Recordings /\ AddsUp(Recordings, Billed)
    BY SumsAddUp DEF InFlight
  <1>4. CASE ReadSeed(r) \/ CommitRecording(r)
    <2>1. InFlight' = InFlight /\ UNCHANGED <<live, balance>>
      BY <1>4 DEF ReadSeed, CommitRecording, InFlight, walletVars
    <2> QED BY <1>1, <2>1 DEF Excess, Undrawn
  <1>5. CASE DebitLive(r)
    <2>1. r \notin InFlight /\ InFlight' = InFlight \cup {r}
      BY <1>5 DEF DebitLive, InFlight
    <2>2. live' = live - Billed[r] /\ balance' = balance
      BY <1>5 DEF DebitLive, SeedAndDecr, walletVars
    <2>3. Total(InFlight \cup {r}, Billed) = Total(InFlight, Billed) + Billed[r]
      BY <1>3, <2>1, TotalAdds
    <2>4. Undrawn' = Undrawn + Billed[r]
      BY <2>1, <2>3 DEF Undrawn
    <2> QED BY <1>1, <1>2, <2>2, <2>4 DEF Excess
  <1>6. CASE DrawDown(r)
    <2>1. r \in InFlight /\ InFlight' = InFlight \ {r}
      BY <1>6 DEF DrawDown, InFlight
    <2>2. live' = live /\ balance' = balance - Billed[r]
      BY <1>6 DEF DrawDown
    <2>3. Total(InFlight, Billed) = Total(InFlight \ {r}, Billed) + Billed[r]
      BY <1>3, <2>1, TotalDrops
    <2>4. Undrawn = Undrawn' + Billed[r]
      BY <2>1, <2>3 DEF Undrawn
    <2> QED BY <1>1, <1>2, <2>2, <2>4, OnTheirWay DEF Excess
  <1> QED BY <1>4, <1>5, <1>6

\* Other movements: a credit reaches the wallet and then the counter, a debit
\* the wallet alone.
LEMMA MovementTracks ==
    ASSUME LiveTypeOK, Faultless, Excess \in 0..Unseen, faults = 0, NEW m,
           \/ m \in Credits /\ (PostCredit(m) \/ Mirror(m))
           \/ m \in Debits /\ PostDebit(m)
    PROVE  Excess' \in 0..Unseen'
  <1> DEFINE Untold == {c \in Credits : moved[c] = "posted"}
             Taken == {d \in Debits : moved[d] = "unmirrored"}
  <1> USE DEF LiveTypeOK, Faultless
  <1>1. UNCHANGED rec /\ Undrawn' = Undrawn
    BY DEF PostCredit, Mirror, PostDebit, Undrawn, InFlight
  <1>2. /\ live \in Int /\ balance \in Int /\ Amount[m] \in Nat
        /\ Undrawn \in Nat /\ Unmirrored \in Nat /\ Unseen \in Nat
        /\ Unmirrored' \in Nat /\ Unseen' \in Nat
    BY LiveAssumption, OnTheirWay
  <1>3. /\ Untold \in SUBSET (Credits \cup Debits) /\ Taken \in SUBSET (Credits \cup Debits)
        /\ m \in Credits \cup Debits /\ AddsUp(Credits \cup Debits, Amount)
    BY SumsAddUp
  <1>4. CASE m \in Credits /\ PostCredit(m)
    <2>1. /\ m \notin Untold /\ Untold' = Untold \cup {m} /\ Taken' = Taken
          /\ live' = live /\ balance' = balance + Amount[m]
      BY <1>4 DEF PostCredit
    <2>2. Total(Untold \cup {m}, Amount) = Total(Untold, Amount) + Amount[m]
      BY <1>3, <2>1, TotalAdds
    <2>3. Unmirrored' = Unmirrored + Amount[m] /\ Unseen' = Unseen
      BY <2>1, <2>2 DEF Unmirrored, Unseen
    <2> QED BY <1>1, <1>2, <2>1, <2>3 DEF Excess
  <1>5. CASE m \in Credits /\ Mirror(m)
    <2>1. /\ m \in Untold /\ Untold' = Untold \ {m} /\ Taken' = Taken
          /\ live' = live + Amount[m] /\ balance' = balance
      BY <1>5 DEF Mirror, IncrIfPresent
    <2>2. Total(Untold, Amount) = Total(Untold \ {m}, Amount) + Amount[m]
      BY <1>3, <2>1, TotalDrops
    <2>3. Unmirrored = Unmirrored' + Amount[m] /\ Unseen' = Unseen
      BY <2>1, <2>2 DEF Unmirrored, Unseen
    <2> QED BY <1>1, <1>2, <2>1, <2>3 DEF Excess
  <1>6. CASE m \in Debits /\ PostDebit(m)
    <2>1. /\ m \notin Taken /\ Taken' = Taken \cup {m} /\ Untold' = Untold
          /\ live' = live /\ balance' = balance - Amount[m]
      BY <1>6 DEF PostDebit
    <2>2. Total(Taken \cup {m}, Amount) = Total(Taken, Amount) + Amount[m]
      BY <1>3, <2>1, TotalAdds
    <2>3. Unseen' = Unseen + Amount[m] /\ Unmirrored' = Unmirrored
      BY <2>1, <2>2 DEF Unmirrored, Unseen
    <2> QED BY <1>1, <1>2, <2>1, <2>3 DEF Excess
  <1> QED BY <1>4, <1>5, <1>6

\* The merge takes away no more than the unseen debits left above.
LEMMA MergeTracks ==
    ASSUME LiveTypeOK, Faultless, Excess \in 0..Unseen, faults = 0, reconcile_prepaid
    PROVE  Excess' \in 0..Unseen'
  <1>1. /\ Undrawn' = Undrawn /\ Unmirrored' = Unmirrored /\ Unseen' = Unseen
        /\ balance' = balance
    BY DEF reconcile_prepaid, walletVars, Undrawn, InFlight, Unmirrored, Unseen
  <1>2. live \in Int /\ live' = Lesser(live, balance)
    BY DEF LiveTypeOK, Faultless, reconcile_prepaid, ReconcileMin
  <1> QED BY <1>1, <1>2, OnTheirWay DEF LiveTypeOK, Excess, Lesser

\* Every step keeps the bound.
LEMMA StepTracks == LiveInv /\ [LiveNext]_liveVars => LiveTracksWallet'
  <1> SUFFICES ASSUME LiveInv, [LiveNext]_liveVars, faults' = 0, ~repaired' PROVE Excess' \in 0..Unseen'
    BY TracksByExcess
  <1> USE DEF LiveInv
  <1>1. faults = 0 /\ ~Fault /\ ~repaired
    <2>1. faults = 0 /\ ~Fault
      BY DEF LiveNext, liveVars, LiveTypeOK, Fault, ReadSeed, DebitLive, DebitBlind, CommitRecording, RollBack,
             DrawDown, PostCredit, Mirror, LoseMirror, PostDebit, Flush, reconcile_prepaid,
             RepairMeasures, RepairObserves, RepairLapses, RepairApplies, CandidateAges, Release
    <2>2. repaired => repaired'
      BY DEF LiveNext, liveVars, repairVars, ReadSeed, DebitLive, DebitBlind, CommitRecording, RollBack,
             DrawDown, PostCredit, Mirror, LoseMirror, PostDebit, Flush, reconcile_prepaid,
             RepairMeasures, RepairObserves, RepairLapses, RepairApplies, CandidateAges
    <2> QED BY <2>1, <2>2
  <1>2. Excess \in 0..Unseen
    BY <1>1, TracksByExcess
  <1>3. CASE \E r \in Recordings : ReadSeed(r) \/ DebitLive(r) \/ CommitRecording(r) \/ DrawDown(r)
    BY <1>1, <1>2, <1>3, RecordingTracks
  <1>4. CASE \/ \E m \in Credits : PostCredit(m) \/ Mirror(m)
             \/ \E m \in Debits : PostDebit(m)
    BY <1>1, <1>2, <1>4, MovementTracks
  <1>5. CASE reconcile_prepaid
    BY <1>1, <1>2, <1>5, MergeTracks
  <1>6. CASE RepairMeasures \/ RepairObserves \/ RepairLapses \/ UNCHANGED liveVars
    <2>1. UNCHANGED <<live, balance, rec, moved>>
      BY <1>6 DEF RepairMeasures, RepairObserves, RepairLapses, Release, walletVars, liveVars
    <2> QED BY <1>2, <2>1 DEF Excess, Undrawn, InFlight, Unmirrored, Unseen
  <1>7. ~RepairApplies
    BY DEF RepairApplies
  <1> QED BY <1>1, <1>3, <1>4, <1>5, <1>6, <1>7
          DEF LiveNext, DebitBlind, RollBack, LoseMirror, Flush, CandidateAges

\* Without a fault and before a repair no interleaving of recordings, drawdowns,
\* credits, debits and merges counts an amount twice or drops one
\* (LiveCounter.debit and credit, _reconcile_prepaid).
THEOREM CounterTracksWallet == LiveSpec => []LiveTracksWallet
  <1>1. LiveInit => LiveInv
    BY InitType, InitTracks DEF LiveInv
  <1>2. LiveInv /\ [LiveNext]_liveVars => LiveInv'
    BY StepType, StepFaultless, StepTracks DEF LiveInv
  <1>3. LiveInv => LiveTracksWallet
    BY DEF LiveInv
  <1> QED BY <1>1, <1>2, <1>3, PTL DEF LiveSpec
=============================================================================
