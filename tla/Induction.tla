------------------------------- MODULE Induction -------------------------------
(***************************************************************************)
(* Induction and recursion over naturals in a form the provers can apply:  *)
(* over sets and functions, never over predicates.  Whatever a recursive   *)
(* definition computes is proved through these.                            *)
(***************************************************************************)
EXTENDS Integers, FiniteSets, FiniteSetTheorems, WellFoundedInduction, TLAPS

\* A set of naturals has a least element.
LEMMA NatMin ==
  ASSUME NEW R \in SUBSET Nat, R # {}
  PROVE  \E m \in R : \A r \in R : m <= r
<1>1. \E m \in R : \A r \in R : ~(<<r, m>> \in OpToRel(<, Nat))
  BY NatLessThanWellFounded, WFMin
<1>2. PICK m \in R : \A r \in R : ~(<<r, m>> \in OpToRel(<, Nat))
  BY <1>1
<1>3. ASSUME NEW r \in R PROVE m <= r
  <2>1. ~(r < m)
    BY <1>2 DEF OpToRel
  <2> QED
    BY <2>1
<1> QED
  BY <1>3

\* Induction: a set with 0 and every successor of a member has all naturals.
LEMMA SetInduction ==
  ASSUME NEW S, 0 \in S, \A n \in Nat : n \in S => n + 1 \in S
  PROVE  Nat \subseteq S
<1> SUFFICES ASSUME NEW k \in Nat, k \notin S PROVE FALSE
  OBVIOUS
<1>1. PICK m \in Nat \ S : \A r \in Nat \ S : m <= r
  BY NatMin
<1>2. m # 0 /\ m - 1 \in Nat /\ m - 1 \in S
  BY <1>1
<1> QED
  BY <1>1, <1>2

\* Induction up to a bound.
LEMMA RangeInduction ==
  ASSUME NEW n \in Nat, NEW S, 0 \in S, \A i \in 0 .. n - 1 : i \in S => i + 1 \in S
  PROVE  0 .. n \subseteq S
<1> DEFINE T == {i \in Nat : i <= n => i \in S}
<1>1. 0 \in T
  OBVIOUS
<1>2. \A i \in Nat : i \in T => i + 1 \in T
  OBVIOUS
<1> HIDE DEF T
<1>3. Nat \subseteq T
  BY <1>1, <1>2, SetInduction
<1> QED
  BY <1>3 DEF T

\* A bounded set of naturals has a greatest element.
LEMMA NatMax ==
  ASSUME NEW n \in Nat, NEW R \in SUBSET (0 .. n), R # {}
  PROVE  \E m \in R : \A r \in R : r <= m
<1> DEFINE T == {k \in Nat : n - k \in R}
<1>1. T # {}
  <2>1. PICK r \in R : TRUE
    OBVIOUS
  <2>2. n - r \in T
    BY <2>1
  <2> QED
    BY <2>2
<1>2. PICK k \in T : \A t \in T : k <= t
  BY <1>1, NatMin
<1>3. ASSUME NEW r \in R PROVE r <= n - k
  <2>1. n - r \in T
    OBVIOUS
  <2> QED
    BY <1>2, <2>1
<1> QED
  BY <1>2, <1>3

\* u[i] is what the first i steps make of zero.
IsFold(u, n, zero, step) == u[0] = zero /\ \A i \in 1 .. n : u[i] = step[i][u[i - 1]]

\* A function defined by recursion over 0 .. n exists.
LEMMA FoldExists ==
  ASSUME NEW V, NEW n \in Nat, NEW zero \in V, NEW step \in [1 .. n -> [V -> V]]
  PROVE  \E u \in [0 .. n -> V] : IsFold(u, n, zero, step)
<1> DEFINE Good(m) == \E u \in [0 .. m -> V] :
                        u[0] = zero /\ \A i \in 1 .. m : u[i] = step[i][u[i - 1]]
           S == {m \in Nat : m <= n => Good(m)}
<1>1. 0 \in S
  <2>1. [i \in 0 .. 0 |-> zero] \in [0 .. 0 -> V]
    OBVIOUS
  <2>2. Good(0)
    <3> DEFINE u == [i \in 0 .. 0 |-> zero]
    <3>1. u[0] = zero /\ \A i \in 1 .. 0 : u[i] = step[i][u[i - 1]]
      OBVIOUS
    <3> QED
      BY <2>1, <3>1
  <2> QED
    BY <2>2
<1>2. ASSUME NEW m \in Nat, m \in S PROVE m + 1 \in S
  <2> SUFFICES ASSUME m + 1 <= n PROVE Good(m + 1)
    OBVIOUS
  <2>1. PICK u \in [0 .. m -> V] : u[0] = zero /\ \A i \in 1 .. m : u[i] = step[i][u[i - 1]]
    BY <1>2
  <2> DEFINE w == [i \in 0 .. m + 1 |-> IF i = m + 1 THEN step[m + 1][u[m]] ELSE u[i]]
  <2>2. u[m] \in V /\ m + 1 \in 1 .. n
    OBVIOUS
  <2>3. w \in [0 .. m + 1 -> V]
    BY <2>2
  <2>4. w[0] = zero
    BY <2>1
  <2>5. ASSUME NEW i \in 1 .. m + 1 PROVE w[i] = step[i][w[i - 1]]
    <3>1. CASE i = m + 1
      <4>1. i - 1 = m /\ i - 1 # m + 1 /\ i \in 0 .. m + 1 /\ i - 1 \in 0 .. m + 1
        BY <3>1
      <4> QED
        BY <3>1, <4>1
    <3>2. CASE i # m + 1
      <4>1. i \in 1 .. m /\ i - 1 # m + 1 /\ i \in 0 .. m + 1 /\ i - 1 \in 0 .. m + 1
        BY <3>2
      <4> QED
        BY <3>2, <4>1, <2>1
    <3> QED
      BY <3>1, <3>2
  <2> QED
    BY <2>3, <2>4, <2>5
<1> HIDE DEF S
<1>3. Nat \subseteq S
  BY <1>1, <1>2, SetInduction
<1> QED
  BY <1>3 DEF S, IsFold

\* R is a strict total order of X.
IsOrder(R, X) ==
  /\ \A i \in X : <<i, i>> \notin R
  /\ \A i, j, k \in X : <<i, j>> \in R /\ <<j, k>> \in R => <<i, k>> \in R
  /\ \A i, j \in X : i # j => <<i, j>> \in R \/ <<j, i>> \in R

Precede(R, X, i) == {j \in X : <<j, i>> \in R}

\* p lists X in its order; how many precede an element tells its place.
IsRanking(p, R, X, n) ==
  /\ p \in [1 .. n -> X]
  /\ \A i \in X : \E k \in 1 .. n : p[k] = i
  /\ \A k \in 1 .. n : Cardinality(Precede(R, X, p[k])) = k - 1
  /\ \A k, l \in 1 .. n : k < l => <<p[k], p[l]>> \in R

\* Sorting: a finite set with an order can be listed in that order.
LEMMA RankingExists ==
  ASSUME NEW X, IsFiniteSet(X), NEW R, IsOrder(R, X)
  PROVE  \E p : IsRanking(p, R, X, Cardinality(X))
<1> DEFINE n == Cardinality(X)
           Place(i) == Cardinality(Precede(R, X, i))
<1>1. n \in Nat
  BY FS_CardinalityType
<1>2. ASSUME NEW i \in X
      PROVE  /\ Precede(R, X, i) \in SUBSET (X \ {i}) /\ Precede(R, X, i) \in SUBSET X
             /\ IsFiniteSet(Precede(R, X, i)) /\ Place(i) \in 0 .. n - 1
  <2>1. Precede(R, X, i) \in SUBSET (X \ {i}) /\ Precede(R, X, i) \in SUBSET X
    BY DEF Precede, IsOrder
  <2>2. IsFiniteSet(X \ {i}) /\ Cardinality(X \ {i}) = n - 1
    BY FS_RemoveElement
  <2>3. IsFiniteSet(Precede(R, X, i)) /\ Place(i) <= n - 1
    BY <2>1, <2>2, FS_Subset
  <2>4. Place(i) \in Nat
    BY <2>3, FS_CardinalityType
  <2> QED
    BY <1>1, <2>1, <2>3, <2>4
<1>3. ASSUME NEW i \in X, NEW j \in X, <<i, j>> \in R
      PROVE  Place(i) < Place(j)
  <2> DEFINE A == Precede(R, X, i)
             B == Precede(R, X, j)
  <2>1. A \cup {i} \in SUBSET B /\ i \notin A
    BY <1>3 DEF Precede, IsOrder
  <2>2. IsFiniteSet(A) /\ IsFiniteSet(B) /\ Place(i) \in Nat /\ Place(j) \in Nat
    BY <1>2
  <2>3. Cardinality(A \cup {i}) = Cardinality(A) + 1
    BY <2>1, <2>2, FS_AddElement
  <2>4. Cardinality(A \cup {i}) <= Cardinality(B)
    BY <2>1, <2>2, FS_Subset
  <2> QED
    BY <2>2, <2>3, <2>4
<1>4. ASSUME NEW i \in X, NEW j \in X, Place(i) = Place(j)
      PROVE  i = j
  <2> SUFFICES ASSUME i # j PROVE FALSE
    OBVIOUS
  <2>1. <<i, j>> \in R \/ <<j, i>> \in R
    BY DEF IsOrder
  <2>2. Place(i) \in Nat /\ Place(j) \in Nat
    BY <1>2
  <2> QED
    BY <1>3, <1>4, <2>1, <2>2
<1> HIDE DEF Place
<1> DEFINE f == [i \in X |-> Place(i) + 1]
<1>5. f \in [X -> 1 .. n]
  BY <1>1, <1>2
<1>6. f \in Injection(X, 1 .. n)
  <2>1. ASSUME NEW i \in X, NEW j \in X, f[i] = f[j] PROVE i = j
    <3>1. Place(i) \in Nat /\ Place(j) \in Nat
      BY <1>1, <1>2
    <3> QED
      BY <1>4, <2>1, <3>1
  <2> HIDE DEF f
  <2> QED
    BY <1>5, <2>1 DEF Injection, IsInjective
<1>7. IsFiniteSet(1 .. n) /\ Cardinality(1 .. n) = n
  <2>1. 1 \in Int /\ n \in Int
    BY <1>1
  <2>2. IsFiniteSet(1 .. n) /\ Cardinality(1 .. n) = IF 1 > n THEN 0 ELSE n - 1 + 1
    BY <2>1, FS_Interval
  <2> QED
    BY <1>1, <2>2
<1>8. f \in Surjection(X, 1 .. n)
  <2> HIDE DEF f, n
  <2> QED
    BY <1>6, <1>7, FS_Injection DEF n
<1>9. \A k \in 1 .. n : \E i \in X : f[i] = k
  <2> HIDE DEF f, n
  <2> QED
    BY <1>8 DEF Surjection
<1> DEFINE p == [k \in 1 .. n |-> CHOOSE i \in X : f[i] = k]
<1>10. ASSUME NEW k \in 1 .. n PROVE p[k] \in X /\ f[p[k]] = k
  <2> HIDE DEF f
  <2> QED
    BY <1>9
<1>11. p \in [1 .. n -> X]
  BY <1>10
<1> HIDE DEF p
<1>12. ASSUME NEW k \in 1 .. n PROVE Place(p[k]) = k - 1
  <2>1. p[k] \in X /\ Place(p[k]) + 1 = k
    BY <1>10
  <2>2. Place(p[k]) \in Nat
    BY <1>1, <1>2, <2>1
  <2> QED
    BY <2>1, <2>2
<1>13. ASSUME NEW i \in X PROVE \E k \in 1 .. n : p[k] = i
  <2>1. f[i] \in 1 .. n
    BY <1>5
  <2>2. p[f[i]] \in X /\ Place(p[f[i]]) = f[i] - 1
    BY <1>10, <1>12, <2>1
  <2>3. Place(i) \in Nat /\ f[i] = Place(i) + 1
    BY <1>1, <1>2
  <2>4. Place(p[f[i]]) = Place(i)
    BY <2>2, <2>3
  <2> QED
    BY <1>4, <2>1, <2>2, <2>4
<1>14. ASSUME NEW k \in 1 .. n, NEW l \in 1 .. n, k < l PROVE <<p[k], p[l]>> \in R
  <2>1. p[k] \in X /\ p[l] \in X /\ Place(p[k]) = k - 1 /\ Place(p[l]) = l - 1
    BY <1>10, <1>12
  <2>2. p[k] # p[l] /\ ~(Place(p[l]) < Place(p[k]))
    BY <1>1, <1>14, <2>1
  <2>3. <<p[k], p[l]>> \in R \/ <<p[l], p[k]>> \in R
    BY <2>1, <2>2 DEF IsOrder
  <2> QED
    BY <1>3, <2>1, <2>2, <2>3
<1>15. IsRanking(p, R, X, n)
  BY <1>11, <1>12, <1>13, <1>14 DEF IsRanking, Place
<1> QED
  BY <1>15

\* What has k - 1 before it is the one at place k.
LEMMA RankingUnique ==
  ASSUME NEW X, NEW R, NEW n \in Nat, NEW p, IsRanking(p, R, X, n),
         NEW k \in 1 .. n, NEW i \in X, Cardinality(Precede(R, X, i)) = k - 1
  PROVE  i = p[k]
<1>1. PICK m \in 1 .. n : p[m] = i
  BY DEF IsRanking
<1>2. Cardinality(Precede(R, X, i)) = m - 1
  BY <1>1 DEF IsRanking
<1> QED
  BY <1>1, <1>2
===============================================================================
