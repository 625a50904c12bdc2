-------------------------------- MODULE Sums --------------------------------
(***************************************************************************)
(* Sums of amounts over finite sets, which is what SumFunctionOnSet of     *)
(* Functions computes: that it is well defined, that the order of its      *)
(* elements does not matter, and how it changes with its set and with the  *)
(* amounts.                                                                *)
(*                                                                         *)
(* The induction is over the subsets of a finite set, and is stated with a *)
(* set of subsets in the place of a predicate: of the subsets that are not *)
(* in it, one would be minimal.                                            *)
(***************************************************************************)
EXTENDS Integers, FiniteSets, Functions, FiniteSetTheorems, TLAPS

\* What all subsets of a finite set have in common, when each has it whose
\* proper subsets have it.
LEMMA SubsetInduction ==
    ASSUME NEW S, IsFiniteSet(S), NEW X,
           \A T \in SUBSET S : (\A U \in SUBSET T : U # T => U \in X) => T \in X
    PROVE  \A T \in SUBSET S : T \in X
  <1> DEFINE Bad == {T \in SUBSET S : T \notin X}
  <1> SUFFICES ASSUME Bad # {} PROVE FALSE
    OBVIOUS
  <1>1. IsWellFoundedOn(StrictSubsetOrdering(S), FiniteSubsetsOf(S))
    BY FS_StrictSubsetOrderingWellFounded
  <1>2. FiniteSubsetsOf(S) = SUBSET S
    BY FS_FiniteSubsetsOfFinite
  <1>3. Bad \subseteq FiniteSubsetsOf(S)
    BY <1>2
  <1> HIDE DEF Bad
  <1>4. PICK T \in Bad : \A U \in Bad : <<U, T>> \notin StrictSubsetOrdering(S)
    BY <1>1, <1>3, WFMin
  <1>5. \A U \in SUBSET T : U # T => U \in X
    BY <1>4 DEF StrictSubsetOrdering, Bad
  <1> QED BY <1>4, <1>5 DEF Bad

-----------------------------------------------------------------------------
(* The sum is well defined.                                                 *)

\* h computes the sum of f over every subset of S.
Computes(f, S, h) ==
    h = [s \in SUBSET S |->
            IF s = {} THEN 0
            ELSE LET x == CHOOSE x \in s : TRUE IN f[x] + h[s \ {x}]]

LEMMA SumIsComputed ==
    ASSUME NEW f, NEW S PROVE SumFunctionOnSet(f, S) = (CHOOSE h : Computes(f, S, h))[S]
  BY DEF SumFunctionOnSet, FoldFunctionOnSet, MapThenFoldSet, Computes

LEMMA ComputesUnique ==
    ASSUME NEW f, NEW S, IsFiniteSet(S), NEW g, NEW h, Computes(f, S, g), Computes(f, S, h)
    PROVE  g = h
  <1> DEFINE X == {T \in SUBSET S : g[T] = h[T]}
  <1>1. ASSUME NEW T \in SUBSET S, \A U \in SUBSET T : U # T => U \in X PROVE T \in X
    <2>1. CASE T = {}
      BY <2>1 DEF Computes
    <2>2. CASE T # {}
      <3> DEFINE x == CHOOSE x \in T : TRUE
      <3>1. x \in T
        BY <2>2
      <3>2. T \ {x} \in X
        BY <1>1, <3>1
      <3>3. g[T] = f[x] + g[T \ {x}] /\ h[T] = f[x] + h[T \ {x}]
        BY <2>2 DEF Computes
      <3> QED BY <3>2, <3>3
    <2> QED BY <2>1, <2>2
  <1> HIDE DEF X
  <1>2. \A T \in SUBSET S : T \in X
    BY <1>1, SubsetInduction
  <1> QED BY <1>2 DEF Computes, X

LEMMA ComputesSubset ==
    ASSUME NEW f, NEW S, NEW h, Computes(f, S, h), NEW T \in SUBSET S
    PROVE  Computes(f, T, [s \in SUBSET T |-> h[s]])
  <1> DEFINE k == [s \in SUBSET T |-> h[s]]
             body(s, j) == IF s = {} THEN 0
                           ELSE LET x == CHOOSE x \in s : TRUE IN f[x] + j[s \ {x}]
  <1>1. ASSUME NEW s \in SUBSET T PROVE h[s] = body(s, k)
    <2>1. h[s] = body(s, h)
      BY DEF Computes
    <2>2. \A x : s \ {x} \in SUBSET T
      OBVIOUS
    <2> QED BY <2>1, <2>2
  <1> QED BY <1>1 DEF Computes

LEMMA ComputesExists ==
    ASSUME NEW f, NEW S, IsFiniteSet(S) PROVE \E h : Computes(f, S, h)
  <1> DEFINE X == {T \in SUBSET S : \E h : Computes(f, T, h)}
             Sum(T) == SumFunctionOnSet(f, T)
  <1>1. ASSUME NEW T \in SUBSET S, \A U \in SUBSET T : U # T => U \in X PROVE T \in X
    <2> DEFINE val(s) == IF s = {} THEN 0
                         ELSE LET x == CHOOSE x \in s : TRUE IN f[x] + Sum(s \ {x})
               h == [s \in SUBSET T |-> val(s)]
    <2>1. ASSUME NEW U \in SUBSET T, U # T PROVE Sum(U) = val(U)
      <3> DEFINE g == CHOOSE j : Computes(f, U, j)
      <3>1. Computes(f, U, g)
        BY <1>1, <2>1
      <3>2. Sum(U) = g[U]
        BY SumIsComputed
      <3>3. CASE U = {}
        BY <3>1, <3>2, <3>3 DEF Computes
      <3>4. CASE U # {}
        <4> DEFINE x == CHOOSE x \in U : TRUE
                   V == U \ {x}
                   k == [s \in SUBSET V |-> g[s]]
        <4>1. x \in U /\ V \in SUBSET U
          BY <3>4
        <4>2. g[U] = f[x] + g[V]
          BY <3>1, <3>4 DEF Computes
        <4>3. Computes(f, V, k)
          BY <3>1, <4>1, ComputesSubset
        <4>4. IsFiniteSet(V)
          BY <4>1, FS_Subset
        <4> DEFINE j == CHOOSE i : Computes(f, V, i)
        <4>5. Computes(f, V, j)
          BY <4>3
        <4>6. j = k
          BY <4>3, <4>4, <4>5, ComputesUnique
        <4>7. Sum(V) = j[V]
          BY SumIsComputed
        <4>8. Sum(V) = g[V]
          BY <4>6, <4>7
        <4> QED BY <3>2, <3>4, <4>2, <4>8
      <3> QED BY <3>3, <3>4
    <2> HIDE DEF Sum
    <2>2. ASSUME NEW s \in SUBSET T
          PROVE  h[s] = IF s = {} THEN 0
                        ELSE LET x == CHOOSE x \in s : TRUE IN f[x] + h[s \ {x}]
      <3>1. CASE s = {}
        BY <3>1
      <3>2. CASE s # {}
        <4> DEFINE x == CHOOSE x \in s : TRUE
        <4>1. x \in s
          BY <3>2
        <4>2. s \ {x} \in SUBSET T /\ s \ {x} # T
          BY <4>1
        <4>3. h[s \ {x}] = Sum(s \ {x})
          BY <2>1, <4>2
        <4> QED BY <3>2, <4>3
      <3> QED BY <3>1, <3>2
    <2>3. Computes(f, T, h)
      BY <2>2 DEF Computes
    <2> QED BY <2>3
  <1> HIDE DEF X
  <1>2. \A T \in SUBSET S : T \in X
    BY <1>1, SubsetInduction
  <1> QED BY <1>2 DEF X

\* The sum takes out the element that its CHOOSE names.
LEMMA SumStep ==
    ASSUME NEW f, NEW S, IsFiniteSet(S)
    PROVE  SumFunctionOnSet(f, S) =
             IF S = {} THEN 0
             ELSE LET x == CHOOSE x \in S : TRUE IN f[x] + SumFunctionOnSet(f, S \ {x})
  <1> DEFINE g == CHOOSE h : Computes(f, S, h)
  <1>1. Computes(f, S, g)
    BY ComputesExists
  <1>2. SumFunctionOnSet(f, S) = g[S]
    BY SumIsComputed
  <1>3. CASE S = {}
    BY <1>1, <1>2, <1>3 DEF Computes
  <1>4. CASE S # {}
    <2> DEFINE x == CHOOSE x \in S : TRUE
               T == S \ {x}
               j == CHOOSE h : Computes(f, T, h)
    <2>1. T \in SUBSET S /\ IsFiniteSet(T)
      BY FS_Subset
    <2>2. Computes(f, T, [s \in SUBSET T |-> g[s]])
      BY <1>1, <2>1, ComputesSubset
    <2>3. Computes(f, T, j)
      BY <2>2
    <2>4. j = [s \in SUBSET T |-> g[s]]
      BY <2>1, <2>2, <2>3, ComputesUnique
    <2>5. SumFunctionOnSet(f, T) = j[T]
      BY SumIsComputed
    <2>6. g[S] = f[x] + g[T]
      BY <1>1, <1>4 DEF Computes
    <2> QED BY <1>2, <1>4, <2>4, <2>5, <2>6
  <1> QED BY <1>3, <1>4

-----------------------------------------------------------------------------
(* One element at a time.                                                   *)

\* Nothing adds up to zero.
LEMMA SumEmpty == \A f : SumFunctionOnSet(f, {}) = 0
  BY SumStep, FS_EmptySet

\* A sum of integers is an integer, and any element of it can be taken out.
LEMMA SumTakes ==
    ASSUME NEW S, IsFiniteSet(S), NEW f, \A x \in S : f[x] \in Int
    PROVE  /\ SumFunctionOnSet(f, S) \in Int
           /\ \A x \in S : SumFunctionOnSet(f, S) = f[x] + SumFunctionOnSet(f, S \ {x})
  <1> DEFINE Sum(T) == SumFunctionOnSet(f, T)
             X == {T \in SUBSET S : /\ Sum(T) \in Int
                                    /\ \A x \in T : Sum(T) = f[x] + Sum(T \ {x})}
  <1>0. ASSUME NEW T \in SUBSET S PROVE IsFiniteSet(T)
    BY FS_Subset
  <1>1. ASSUME NEW T \in SUBSET S, \A U \in SUBSET T : U # T => U \in X PROVE T \in X
    <2>1. CASE T = {}
      BY <2>1, SumEmpty
    <2>2. CASE T # {}
      <3> DEFINE c == CHOOSE c \in T : TRUE
      <3>1. c \in T
        BY <2>2
      <3>2. Sum(T) = f[c] + Sum(T \ {c})
        BY <1>0, <2>2, SumStep
      <3> HIDE DEF Sum, c
      <3>3. T \ {c} \in X
        BY <1>1, <3>1
      <3>4. Sum(T) \in Int
        BY <3>1, <3>2, <3>3
      <3>5. ASSUME NEW x \in T, x # c PROVE Sum(T) = f[x] + Sum(T \ {x})
        <4> DEFINE R == (T \ {c}) \ {x}
        <4>1. R = (T \ {x}) \ {c}
          OBVIOUS
        <4>2. T \ {x} \in X
          BY <1>1, <3>5
        <4>3. Sum(T \ {c}) = f[x] + Sum(R)
          BY <3>3, <3>5
        <4>4. Sum(T \ {x}) = f[c] + Sum(R)
          BY <3>1, <3>5, <4>1, <4>2
        <4>5. R \in X
          BY <1>1, <3>1
        <4> QED BY <3>1, <3>2, <4>3, <4>4, <4>5
      <3> QED BY <3>2, <3>4, <3>5
    <2> QED BY <2>1, <2>2
  <1> HIDE DEF X
  <1>2. \A T \in SUBSET S : T \in X
    BY <1>1, SubsetInduction
  <1> QED BY <1>2 DEF X

\* An element joins a sum.
LEMMA SumAdds ==
    ASSUME NEW S, IsFiniteSet(S), NEW f, NEW x, x \notin S,
           \A y \in S \cup {x} : f[y] \in Int
    PROVE  SumFunctionOnSet(f, S \cup {x}) = SumFunctionOnSet(f, S) + f[x]
  <1> DEFINE T == S \cup {x}
             Sum(U) == SumFunctionOnSet(f, U)
  <1>1. IsFiniteSet(T) /\ T \ {x} = S
    BY FS_AddElement
  <1>2. Sum(T) = f[x] + Sum(T \ {x})
    BY <1>1, SumTakes
  <1>3. Sum(S) \in Int /\ f[x] \in Int
    BY SumTakes
  <1>4. Sum(T \ {x}) = Sum(S)
    BY <1>1
  <1> HIDE DEF Sum, T
  <1>5. Sum(T) = Sum(S) + f[x]
    BY <1>2, <1>3, <1>4
  <1> QED BY <1>5 DEF Sum, T

-----------------------------------------------------------------------------
(* Comparing sums.                                                          *)

\* A sum is the sum of two others, if every amount is.
LEMMA SumLinear ==
    ASSUME NEW S, IsFiniteSet(S), NEW f, NEW g, NEW h,
           \A x \in S : f[x] \in Int /\ g[x] \in Int /\ h[x] = f[x] + g[x]
    PROVE  SumFunctionOnSet(h, S) = SumFunctionOnSet(f, S) + SumFunctionOnSet(g, S)
  <1> DEFINE F(T) == SumFunctionOnSet(f, T)
             G(T) == SumFunctionOnSet(g, T)
             H(T) == SumFunctionOnSet(h, T)
             X == {T \in SUBSET S : H(T) = F(T) + G(T)}
  <1>1. ASSUME NEW T \in SUBSET S, \A U \in SUBSET T : U # T => U \in X PROVE T \in X
    <2>1. CASE T = {}
      BY <2>1, SumEmpty
    <2>2. ASSUME NEW x \in T PROVE T \in X
      <3>1. IsFiniteSet(T) /\ IsFiniteSet(T \ {x})
        BY FS_Subset
      <3>2. /\ F(T) = f[x] + F(T \ {x}) /\ F(T \ {x}) \in Int
            /\ G(T) = g[x] + G(T \ {x}) /\ G(T \ {x}) \in Int
        BY <3>1, SumTakes
      <3>3. H(T) = h[x] + H(T \ {x})
        <4>1. \A y \in T : h[y] \in Int
          OBVIOUS
        <4> QED BY <3>1, <4>1, SumTakes
      <3> HIDE DEF F, G, H
      <3>4. T \ {x} \in X
        BY <1>1
      <3> QED BY <3>2, <3>3, <3>4
    <2> QED BY <2>1, <2>2
  <1> HIDE DEF X
  <1>2. \A T \in SUBSET S : T \in X
    BY <1>1, SubsetInduction
  <1> QED BY <1>2 DEF X

\* Zeros add up to zero.
LEMMA SumZero ==
    ASSUME NEW S, IsFiniteSet(S), NEW f, \A x \in S : f[x] = 0
    PROVE  SumFunctionOnSet(f, S) = 0
  <1> DEFINE sum == SumFunctionOnSet(f, S)
  <1>1. sum = sum + sum
    BY SumLinear
  <1>2. sum \in Int
    BY SumTakes
  <1> HIDE DEF sum
  <1>3. sum = 0
    BY <1>1, <1>2
  <1> QED BY <1>3 DEF sum

\* Only the amounts of the set matter.
LEMMA SumSame ==
    ASSUME NEW S, IsFiniteSet(S), NEW f, NEW g,
           \A x \in S : f[x] \in Int /\ f[x] = g[x]
    PROVE  SumFunctionOnSet(f, S) = SumFunctionOnSet(g, S)
  <1> DEFINE z == [x \in S |-> 0]
  <1>1. SumFunctionOnSet(f, S) = SumFunctionOnSet(g, S) + SumFunctionOnSet(z, S)
    BY SumLinear
  <1>2. SumFunctionOnSet(z, S) = 0
    BY SumZero
  <1>3. SumFunctionOnSet(g, S) \in Int
    BY SumTakes
  <1> QED BY <1>1, <1>2, <1>3

\* A sum of natural numbers is one, and none of them is more than the sum.
LEMMA SumNat ==
    ASSUME NEW S, IsFiniteSet(S), NEW f, \A x \in S : f[x] \in Nat
    PROVE  SumFunctionOnSet(f, S) \in Nat /\ \A x \in S : f[x] <= SumFunctionOnSet(f, S)
  <1> DEFINE F(T) == SumFunctionOnSet(f, T)
             X == {T \in SUBSET S : F(T) \in Nat}
  <1>1. ASSUME NEW T \in SUBSET S, \A U \in SUBSET T : U # T => U \in X PROVE T \in X
    <2>1. CASE T = {}
      BY <2>1, SumEmpty
    <2>2. ASSUME NEW x \in T PROVE T \in X
      <3>1. IsFiniteSet(T)
        BY FS_Subset
      <3>2. F(T) = f[x] + F(T \ {x})
        BY <3>1, SumTakes
      <3> HIDE DEF F
      <3>3. T \ {x} \in X
        BY <1>1
      <3> QED BY <3>2, <3>3
    <2> QED BY <2>1, <2>2
  <1> HIDE DEF X
  <1>2. \A T \in SUBSET S : T \in X
    BY <1>1, SubsetInduction
  <1>3. ASSUME NEW x \in S PROVE f[x] <= F(S)
    <2>1. F(S) = f[x] + F(S \ {x})
      BY SumTakes
    <2>2. F(S \ {x}) \in Nat
      BY <1>2 DEF X
    <2> QED BY <2>1, <2>2
  <1> QED BY <1>2, <1>3 DEF X

\* A sum of lesser amounts is not more, and what it is less adds up too.
LEMMA SumMono ==
    ASSUME NEW S, IsFiniteSet(S), NEW f, NEW g,
           \A x \in S : f[x] \in Int /\ g[x] \in Int /\ f[x] <= g[x]
    PROVE  SumFunctionOnSet(f, S) <= SumFunctionOnSet(g, S)
  <1> DEFINE d == [x \in S |-> g[x] - f[x]]
  <1>1. SumFunctionOnSet(g, S) = SumFunctionOnSet(f, S) + SumFunctionOnSet(d, S)
    BY SumLinear
  <1>2. SumFunctionOnSet(d, S) \in Nat
    <2>1. \A x \in S : d[x] \in Nat
      OBVIOUS
    <2> QED BY <2>1, SumNat
  <1>3. SumFunctionOnSet(f, S) \in Int
    BY SumTakes
  <1> QED BY <1>1, <1>2, <1>3

\* The sum over two sets that have nothing in common.
LEMMA SumUnion ==
    ASSUME NEW S, NEW T, IsFiniteSet(S), IsFiniteSet(T), S \cap T = {},
           NEW f, \A x \in S \cup T : f[x] \in Int
    PROVE  SumFunctionOnSet(f, S \cup T) = SumFunctionOnSet(f, S) + SumFunctionOnSet(f, T)
  <1> DEFINE F(U) == SumFunctionOnSet(f, U)
             X == {U \in SUBSET T : F(S \cup U) = F(S) + F(U)}
  <1>0. F(S) \in Int
    BY SumTakes
  <1>1. ASSUME NEW U \in SUBSET T, \A V \in SUBSET U : V # U => V \in X PROVE U \in X
    <2>1. CASE U = {}
      <3>1. S \cup U = S
        BY <2>1
      <3> QED BY <1>0, <2>1, <3>1, SumEmpty
    <2>2. ASSUME NEW x \in U PROVE U \in X
      <3> DEFINE V == U \ {x}
      <3>1. IsFiniteSet(U) /\ IsFiniteSet(V) /\ IsFiniteSet(S \cup V)
        BY FS_Subset, FS_Union
      <3>2. F(U) = f[x] + F(V) /\ F(V) \in Int
        BY <3>1, SumTakes
      <3>3. S \cup U = (S \cup V) \cup {x} /\ x \notin S \cup V
        OBVIOUS
      <3>4. F((S \cup V) \cup {x}) = F(S \cup V) + f[x]
        BY <3>1, <3>3, SumAdds
      <3>5. F(S \cup V) = F(S) + F(V)
        BY <1>1
      <3>6. F(S \cup U) = F(S \cup V) + f[x]
        BY <3>3, <3>4
      <3> HIDE DEF F, V
      <3>7. F(S \cup U) = F(S) + F(U)
        BY <1>0, <3>2, <3>5, <3>6
      <3> QED BY <3>7
    <2> QED BY <2>1, <2>2
  <1> HIDE DEF X
  <1>2. \A U \in SUBSET T : U \in X
    BY <1>1, SubsetInduction
  <1> QED BY <1>2 DEF X

\* The sum over a subset and the sum over the rest.
LEMMA SumParts ==
    ASSUME NEW S, IsFiniteSet(S), NEW T \in SUBSET S, NEW f, \A x \in S : f[x] \in Int
    PROVE  SumFunctionOnSet(f, S) = SumFunctionOnSet(f, T) + SumFunctionOnSet(f, S \ T)
  <1>1. S = T \cup (S \ T) /\ IsFiniteSet(T) /\ IsFiniteSet(S \ T) /\ T \cap (S \ T) = {}
    BY FS_Subset
  <1> QED BY <1>1, SumUnion

\* The elements may go by other names.
LEMMA SumRenamed ==
    ASSUME NEW S, IsFiniteSet(S), NEW b, NEW f, NEW g,
           \A x \in S : f[x] \in Int /\ g[b[x]] = f[x],
           \A x, y \in S : b[x] = b[y] => x = y
    PROVE  /\ IsFiniteSet({b[x] : x \in S})
           /\ SumFunctionOnSet(g, {b[x] : x \in S}) = SumFunctionOnSet(f, S)
  <1> DEFINE B(U) == {b[x] : x \in U}
             F(U) == SumFunctionOnSet(f, U)
             G(U) == SumFunctionOnSet(g, U)
             X == {U \in SUBSET S : IsFiniteSet(B(U)) /\ G(B(U)) = F(U)}
  <1>1. ASSUME NEW U \in SUBSET S, \A V \in SUBSET U : V # U => V \in X PROVE U \in X
    <2>1. CASE U = {}
      <3>1. B(U) = {}
        BY <2>1
      <3> QED BY <2>1, <3>1, SumEmpty, FS_EmptySet
    <2>2. ASSUME NEW x \in U PROVE U \in X
      <3> DEFINE V == U \ {x}
      <3>1. V \in X
        BY <1>1
      <3>2. B(U) = B(V) \cup {b[x]} /\ b[x] \notin B(V)
        OBVIOUS
      <3>3. IsFiniteSet(B(V))
        BY <3>1
      <3>4. IsFiniteSet(B(V) \cup {b[x]})
        BY <3>3, FS_AddElement
      <3>5. \A y \in B(V) \cup {b[x]} : g[y] \in Int
        OBVIOUS
      <3>6. IsFiniteSet(U)
        BY FS_Subset
      <3>7. F(U) = f[x] + F(V) /\ F(V) \in Int
        <4>1. IsFiniteSet(V)
          BY <3>6, FS_Subset
        <4> QED BY <3>6, <4>1, SumTakes
      <3>8. G(B(V) \cup {b[x]}) = G(B(V)) + g[b[x]]
        <4> DEFINE W == B(V)
                   y == b[x]
        <4>1. y \notin W /\ IsFiniteSet(W) /\ \A z \in W \cup {y} : g[z] \in Int
          BY <3>2, <3>3, <3>5
        <4> HIDE DEF W, y
        <4>2. G(W \cup {y}) = G(W) + g[y]
          BY ONLY <4>1, SumAdds
        <4> QED BY <4>2 DEF W, y
      <3> HIDE DEF B
      <3>9. G(B(U)) = G(B(V)) + f[x] /\ f[x] \in Int
        BY <3>2, <3>8
      <3>10. G(B(V)) = F(V)
        BY <3>1
      <3> HIDE DEF F, G, V
      <3>11. G(B(U)) = F(U)
        BY <3>7, <3>9, <3>10
      <3> QED BY <3>2, <3>4, <3>11
    <2> QED BY <2>1, <2>2
  <1> HIDE DEF X
  <1>2. \A U \in SUBSET S : U \in X
    BY <1>1, SubsetInduction
  <1> QED BY <1>2 DEF X

\* Elements that count nothing may be left out.
LEMMA SumOnPart ==
    ASSUME NEW S, IsFiniteSet(S), NEW T \in SUBSET S, NEW f, NEW g,
           \A x \in T : f[x] \in Int /\ g[x] = f[x], \A x \in S \ T : g[x] = 0
    PROVE  SumFunctionOnSet(g, S) = SumFunctionOnSet(f, T)
  <1>1. \A x \in S : g[x] \in Int
    OBVIOUS
  <1>2. SumFunctionOnSet(g, S) = SumFunctionOnSet(g, T) + SumFunctionOnSet(g, S \ T)
    BY <1>1, SumParts
  <1>3. IsFiniteSet(T) /\ IsFiniteSet(S \ T)
    BY FS_Subset
  <1>4. SumFunctionOnSet(g, S \ T) = 0
    BY <1>3, SumZero
  <1>5. SumFunctionOnSet(g, T) = SumFunctionOnSet(f, T) /\ SumFunctionOnSet(f, T) \in Int
    BY <1>3, SumSame, SumTakes
  <1> QED BY <1>2, <1>4, <1>5

\* A sum over one element.
LEMMA SumOfOne ==
    ASSUME NEW x, NEW f, f[x] \in Int
    PROVE  SumFunctionOnSet(f, {x}) = f[x]
  <1>1. IsFiniteSet({x}) /\ {x} \ {x} = {}
    BY FS_Singleton
  <1>2. SumFunctionOnSet(f, {x}) = f[x] + SumFunctionOnSet(f, {x} \ {x})
    BY <1>1, SumTakes
  <1> QED BY <1>1, <1>2, SumEmpty

\* The sum of what is taken is the sum of what is given, with the other sign.
LEMMA SumNegated ==
    ASSUME NEW S, IsFiniteSet(S), NEW f, NEW g,
           \A x \in S : f[x] \in Int /\ g[x] = -f[x]
    PROVE  SumFunctionOnSet(g, S) = -SumFunctionOnSet(f, S)
  <1> DEFINE z == [x \in S |-> 0]
             F == SumFunctionOnSet(f, S)
             G == SumFunctionOnSet(g, S)
  <1>1. \A x \in S : f[x] \in Int /\ g[x] \in Int /\ z[x] = f[x] + g[x]
    OBVIOUS
  <1>2. SumFunctionOnSet(z, S) = 0
    BY SumZero
  <1>3. F \in Int /\ G \in Int
    BY <1>1, SumTakes
  <1> HIDE DEF z
  <1>4. SumFunctionOnSet(z, S) = F + G
    BY <1>1, SumLinear
  <1> HIDE DEF F, G
  <1>5. G = -F
    BY <1>2, <1>3, <1>4
  <1> QED BY <1>5 DEF F, G

\* The image of a finite set is finite.
LEMMA ImageFinite ==
    ASSUME NEW S, IsFiniteSet(S), NEW b PROVE IsFiniteSet({b[x] : x \in S})
  <1> DEFINE B(U) == {b[x] : x \in U}
             X == {U \in SUBSET S : IsFiniteSet(B(U))}
  <1>1. ASSUME NEW T \in SUBSET S, \A U \in SUBSET T : U # T => U \in X PROVE T \in X
    <2>1. CASE T = {}
      <3>1. B(T) = {}
        BY <2>1
      <3> QED BY <3>1, FS_EmptySet
    <2>2. CASE T # {}
      <3>1. PICK x \in T : TRUE
        BY <2>2
      <3>2. IsFiniteSet(B(T \ {x}))
        BY <1>1
      <3>3. B(T) = B(T \ {x}) \cup {b[x]}
        OBVIOUS
      <3> DEFINE C == B(T \ {x})
                 y == b[x]
      <3>4. IsFiniteSet(C) /\ B(T) = C \cup {y}
        BY <3>2, <3>3
      <3> HIDE DEF C, B, y
      <3>5. IsFiniteSet(C \cup {y})
        BY <3>4, FS_AddElement
      <3>6. IsFiniteSet(B(T))
        BY <3>4, <3>5
      <3> QED BY <3>6 DEF B
    <2> QED BY <2>1, <2>2
  <1> HIDE DEF X
  <1>2. \A T \in SUBSET S : T \in X
    BY <1>1, SubsetInduction
  <1> QED BY <1>2 DEF X
=============================================================================
