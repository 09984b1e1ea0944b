------------------------- MODULE ChunkedDatasetProofs -------------------------
(***************************************************************************)
(* The structures of a written dataset do not overlap, every address       *)
(* stored in one of them is the place of the structure it names, and what  *)
(* was written comes back from the reader, every element in its place: for *)
(* every dataset, base address and parameter of the indexes.               *)
(***************************************************************************)
EXTENDS ChunkedDataset, Induction, SequenceTheorems

(* Row-major arithmetic: products of sequences, and the digits of a number *)
(* in a mixed radix, which are its coordinates.                            *)

\* u[i] is the product of the first i of s.
Accumulates(u, s) ==
  /\ u \in [0 .. Len(s) -> Nat]
  /\ u[0] = 1
  /\ \A i \in 1 .. Len(s) : u[i] = s[i] * u[i - 1]

\* Factors may change places.
LEMMA Swapped == \A a, b, c \in Nat : a * (b * c) = b * (a * c)
OBVIOUS

\* The function Product takes its value from.
LEMMA ProductExists ==
  ASSUME NEW s \in Seq(Nat)
  PROVE  \E u : Accumulates(u, s) /\ Product(s) = u[Len(s)]
<1> DEFINE n == Len(s)
           step == [i \in 1 .. n |-> [v \in Nat |-> s[i] * v]]
           Is(u) == u = [i \in 0 .. n |-> IF i = 0 THEN 1 ELSE s[i] * u[i - 1]]
           upTo == CHOOSE u : Is(u)
<1>1. n \in Nat /\ \A i \in 1 .. n : s[i] \in Nat
  OBVIOUS
<1>2. step \in [1 .. n -> [Nat -> Nat]]
  BY <1>1
<1>3. \E u \in [0 .. n -> Nat] : IsFold(u, n, 1, step)
  <2> HIDE DEF step, n
  <2> QED
    BY <1>1, <1>2, FoldExists
<1>4. PICK u \in [0 .. n -> Nat] : IsFold(u, n, 1, step)
  BY <1>3
<1>5. u[0] = 1 /\ \A i \in 1 .. n : u[i] = s[i] * u[i - 1]
  <2>1. u[0] = 1 /\ \A i \in 1 .. n : u[i] = step[i][u[i - 1]]
    BY <1>4 DEF IsFold
  <2>2. ASSUME NEW i \in 1 .. n PROVE u[i] = s[i] * u[i - 1]
    <3>1. u[i - 1] \in Nat
      <4> HIDE DEF n
      <4>1. i - 1 \in 0 .. n
        BY <1>1
      <4> QED
        BY <4>1
    <3>2. step[i] = [v \in Nat |-> s[i] * v]
      OBVIOUS
    <3> HIDE DEF step
    <3> QED
      BY <2>1, <3>1, <3>2
  <2> QED
    BY <2>1, <2>2
<1>6. Is(u)
  <2>1. \A i \in 0 .. n : u[i] = IF i = 0 THEN 1 ELSE s[i] * u[i - 1]
    BY <1>1, <1>5
  <2> QED
    BY <2>1
<1>7. Is(upTo)
  BY <1>6
<1>8. Product(s) = upTo[n]
  BY DEF Product
<1> HIDE DEF upTo
<1>9. upTo[0] = 1 /\ \A i \in 1 .. n : upTo[i] = s[i] * upTo[i - 1]
  BY <1>1, <1>7
<1>10. upTo \in [0 .. n -> Nat]
  <2> DEFINE S == {i \in 0 .. n : upTo[i] \in Nat}
  <2>1. 0 \in S
    BY <1>1, <1>9
  <2>2. \A i \in 0 .. n - 1 : i \in S => i + 1 \in S
    <3> SUFFICES ASSUME NEW i \in 0 .. n - 1, i \in S PROVE i + 1 \in S
      OBVIOUS
    <3>1. i + 1 \in 1 .. n /\ (i + 1) - 1 = i
      BY <1>1
    <3>2. upTo[i + 1] = s[i + 1] * upTo[i]
      BY <1>9, <3>1
    <3> QED
      BY <1>1, <3>1, <3>2
  <2> HIDE DEF S
  <2>3. 0 .. n \subseteq S
    BY <1>1, <2>1, <2>2, RangeInduction
  <2>4. \A i \in 0 .. n : upTo[i] \in Nat
    BY <2>3 DEF S
  <2>5. upTo = [i \in 0 .. n |-> upTo[i]]
    BY <1>7
  <2> QED
    BY <2>4, <2>5
<1> QED
  BY <1>8, <1>9, <1>10 DEF Accumulates

\* Whatever accumulates s ends at its product.
LEMMA ProductIs ==
  ASSUME NEW s \in Seq(Nat), NEW w, Accumulates(w, s)
  PROVE  Product(s) = w[Len(s)]
<1> DEFINE n == Len(s)
<1>1. PICK u : Accumulates(u, s) /\ Product(s) = u[n]
  BY ProductExists
<1> DEFINE S == {i \in 0 .. n : u[i] = w[i]}
<1>2. n \in Nat
  OBVIOUS
<1>3. 0 \in S
  BY <1>1, <1>2 DEF Accumulates
<1>4. \A i \in 0 .. n - 1 : i \in S => i + 1 \in S
  <2> SUFFICES ASSUME NEW i \in 0 .. n - 1, i \in S PROVE i + 1 \in S
    OBVIOUS
  <2>1. i + 1 \in 1 .. n /\ (i + 1) - 1 = i
    BY <1>2
  <2>2. u[i + 1] = s[i + 1] * u[i] /\ w[i + 1] = s[i + 1] * w[i]
    BY <1>1, <2>1 DEF Accumulates
  <2> QED
    BY <2>1, <2>2
<1> HIDE DEF S
<1>5. 0 .. n \subseteq S
  BY <1>2, <1>3, <1>4, RangeInduction
<1>6. n \in S
  BY <1>2, <1>5
<1> QED
  BY <1>1, <1>6 DEF S

LEMMA ProductType == ASSUME NEW s \in Seq(Nat) PROVE Product(s) \in Nat
<1>1. PICK u : Accumulates(u, s) /\ Product(s) = u[Len(s)]
  BY ProductExists
<1> QED
  BY <1>1 DEF Accumulates

LEMMA ProductOfNone == Product(<< >>) = 1
<1>1. << >> \in Seq(Nat) /\ Len(<< >>) = 0
  OBVIOUS
<1>2. PICK u : Accumulates(u, << >>) /\ Product(<< >>) = u[Len(<< >>)]
  BY <1>1, ProductExists
<1> QED
  BY <1>1, <1>2 DEF Accumulates

\* The first factor may be taken out.
LEMMA ProductCons ==
  ASSUME NEW s \in Seq(Nat), s # << >>
  PROVE  Product(s) = s[1] * Product(Tail(s))
<1> DEFINE n == Len(s)
           t == Tail(s)
<1>1. /\ n \in Nat \ {0} /\ t \in Seq(Nat) /\ Len(t) = n - 1
      /\ \A i \in 1 .. n : s[i] \in Nat
      /\ \A i \in 1 .. n - 1 : t[i] = s[i + 1]
  OBVIOUS
<1> HIDE DEF t
<1>2. PICK v : Accumulates(v, t) /\ Product(t) = v[n - 1]
  BY <1>1, ProductExists
<1>3. v \in [0 .. n - 1 -> Nat] /\ v[0] = 1
      /\ \A i \in 1 .. n - 1 : v[i] = t[i] * v[i - 1]
  BY <1>1, <1>2 DEF Accumulates
<1> DEFINE w == [i \in 0 .. n |-> IF i = 0 THEN 1 ELSE s[1] * v[i - 1]]
<1>4. s[1] \in Nat /\ \A i \in 1 .. n : i - 1 \in 0 .. n - 1 /\ v[i - 1] \in Nat
  <2>1. 1 \in 1 .. n
    BY <1>1
  <2>2. s[1] \in Nat
    BY <1>1, <2>1
  <2>3. \A i \in 1 .. n : i - 1 \in 0 .. n - 1
    BY <1>1
  <2> HIDE DEF n
  <2> QED
    BY <1>3, <2>2, <2>3
<1>5. w \in [0 .. n -> Nat]
  BY <1>4
<1>6. w[0] = 1
  BY <1>1
<1>7. ASSUME NEW i \in 1 .. n PROVE w[i] = s[i] * w[i - 1]
  <2>1. CASE i = 1
    <3>1. w[1] = s[1] * v[0]
      BY <1>1
    <3>2. w[i - 1] = 1
      BY <1>6, <2>1
    <3> QED
      BY <1>3, <1>4, <2>1, <3>1, <3>2
  <2>2. CASE i # 1
    <3>1. i - 1 \in 1 .. n - 1 /\ i - 1 \in 0 .. n /\ i - 1 # 0 /\ (i - 1) + 1 = i
          /\ (i - 1) - 1 \in 0 .. n - 1
      BY <1>1, <2>2
    <3>2. v[i - 1] = s[i] * v[(i - 1) - 1]
      BY <1>1, <1>3, <3>1
    <3>3. w[i] = s[1] * v[i - 1] /\ w[i - 1] = s[1] * v[(i - 1) - 1]
      BY <3>1
    <3>4. PICK a \in Nat, b \in Nat, c \in Nat : a = s[1] /\ b = s[i] /\ c = v[(i - 1) - 1]
      BY <1>1, <1>3, <1>4, <3>1
    <3>5. a * (b * c) = b * (a * c)
      BY Swapped
    <3> QED
      BY <3>2, <3>3, <3>4, <3>5
  <2> QED
    BY <2>1, <2>2
<1>8. Accumulates(w, s)
  BY <1>5, <1>6, <1>7 DEF Accumulates
<1>9. Product(s) = w[n]
  <2> HIDE DEF w
  <2> QED
    BY <1>8, ProductIs
<1>10. w[n] = s[1] * v[n - 1]
  BY <1>1
<1> QED
  BY <1>2, <1>9, <1>10 DEF t

\* The distance in row-major order between neighbours along dimension d: one
\* along the last, and the next one's as often as that is long.
LEMMA StrideIs ==
  ASSUME NEW s \in Seq(Nat)
  PROVE  /\ Stride(s, Len(s)) = 1
         /\ Stride(s, 0) = Product(s)
         /\ \A d \in 0 .. Len(s) : Stride(s, d) \in Nat
         /\ \A d \in 1 .. Len(s) : Stride(s, d - 1) = s[d] * Stride(s, d)
<1> DEFINE n == Len(s)
<1>1. n \in Nat
  OBVIOUS
<1>2. Stride(s, n) = 1
  <2>1. SubSeq(s, n + 1, n) = << >>
    OBVIOUS
  <2> QED
    BY <2>1, ProductOfNone DEF Stride
<1>3. Stride(s, 0) = Product(s)
  <2>1. SubSeq(s, 0 + 1, n) = s
    OBVIOUS
  <2> QED
    BY <2>1 DEF Stride
<1>4. ASSUME NEW d \in 0 .. n PROVE SubSeq(s, d + 1, n) \in Seq(Nat)
  OBVIOUS
<1>5. \A d \in 0 .. n : Stride(s, d) \in Nat
  BY <1>4, ProductType DEF Stride
<1>6. ASSUME NEW d \in 1 .. n PROVE Stride(s, d - 1) = s[d] * Stride(s, d)
  <2> DEFINE t == SubSeq(s, d, n)
  <2>1. t \in Seq(Nat) /\ t # << >> /\ t[1] = s[d] /\ Tail(t) = SubSeq(s, d + 1, n)
    <3>1. t \in Seq(Nat) /\ Len(t) = n - d + 1 /\ n - d + 1 \in Nat \ {0}
      BY <1>1
    <3>2. t[1] = s[d] /\ \A i \in 1 .. n - d + 1 : t[i] = s[d + i - 1]
      BY <1>1
    <3> DEFINE r == SubSeq(s, d + 1, n)
    <3>3. r \in Seq(Nat) /\ Len(r) = n - d /\ \A i \in 1 .. n - d : r[i] = s[d + i]
      <4>1. d + 1 \in 1 .. n + 1 /\ n - (d + 1) + 1 = n - d /\ n - d \in Nat
        BY <1>1
      <4>2. r = [i \in 1 .. n - (d + 1) + 1 |-> s[d + 1 + i - 1]]
        OBVIOUS
      <4>3. \A i \in 1 .. n - d : d + 1 + i - 1 = d + i /\ d + i \in 1 .. n /\ s[d + i] \in Nat
        BY <1>1
      <4>4. r = [i \in 1 .. n - d |-> s[d + 1 + i - 1]]
        BY <4>1, <4>2
      <4> HIDE DEF r, n
      <4>5. \A i \in 1 .. n - d : r[i] = s[d + i] /\ r[i] \in Nat
        BY <4>3, <4>4
      <4>6. r \in [1 .. n - d -> Nat]
        BY <4>4, <4>5
      <4>7. r \in Seq(Nat) /\ Len(r) = n - d
        BY <4>1, <4>6
      <4> QED
        BY <4>5, <4>7
    <3> HIDE DEF t, r
    <3>4. t # << >> /\ Tail(t) \in Seq(Nat) /\ Len(Tail(t)) = n - d
          /\ \A i \in 1 .. n - d : Tail(t)[i] = t[i + 1]
      BY <1>1, <3>1
    <3>5. \A i \in 1 .. n - d : Tail(t)[i] = r[i]
      <4> SUFFICES ASSUME NEW i \in 1 .. n - d PROVE Tail(t)[i] = r[i]
        OBVIOUS
      <4>1. i + 1 \in 1 .. n - d + 1 /\ d + (i + 1) - 1 = d + i
        BY <1>1
      <4> QED
        BY <3>2, <3>3, <3>4, <4>1
    <3>6. Tail(t) = r
      BY <3>3, <3>4, <3>5, SeqEqual
    <3> QED
      BY <3>1, <3>2, <3>4, <3>6 DEF r
  <2>2. (d - 1) + 1 = d
    BY <1>1
  <2>3. Stride(s, d - 1) = Product(t)
    BY <2>2 DEF Stride
  <2> HIDE DEF t
  <2>4. Product(t) = t[1] * Product(Tail(t))
    BY <2>1, ProductCons
  <2> QED
    BY <2>1, <2>3, <2>4 DEF Stride
<1> QED
  BY <1>2, <1>3, <1>5, <1>6

\* Multiplication is monotone, associative and distributive.
LEMMA Larger == \A a, b, c \in Nat : a <= b => a * c <= b * c
OBVIOUS

LEMMA Grouped == \A a, b, c \in Nat : (a * b) * c = a * (b * c) /\ a * b \in Nat
OBVIOUS

LEMMA Spread == \A a, b, c \in Nat : (a + b) * c = a * c + b * c /\ (a + 1) * c = a * c + c
OBVIOUS

\* Quotient and remainder.
LEMMA DivMod ==
  ASSUME NEW i \in Nat, NEW m \in Nat \ {0}
  PROVE  /\ i \div m \in Nat /\ i % m \in 0 .. m - 1
         /\ i = (i \div m) * m + (i % m)
         /\ (i \div m) * m <= i /\ i < ((i \div m) + 1) * m
<1>1. i \div m \in Nat /\ i % m \in 0 .. m - 1 /\ i = (i \div m) * m + (i % m)
  BY SMT
<1> DEFINE q == i \div m
<1>2. (q + 1) * m = q * m + m /\ q * m \in Nat
  BY <1>1, Spread
<1> HIDE DEF q
<1>3. i = q * m + (i % m) /\ q \in Nat
  BY <1>1 DEF q
<1>4. q * m <= i /\ i < (q + 1) * m
  BY <1>1, <1>2, <1>3
<1> QED
  BY <1>1, <1>4 DEF q

\* A quotient is known by its bounds.
LEMMA DivIs ==
  ASSUME NEW i \in Nat, NEW m \in Nat \ {0}, NEW q \in Nat, q * m <= i, i < (q + 1) * m
  PROVE  i \div m = q
<1>1. PICK p \in Nat : p = i \div m /\ p * m <= i /\ i < (p + 1) * m
  BY DivMod
<1>2. CASE p < q
  <2>1. (p + 1) * m <= q * m
    BY <1>2, Larger
  <2>2. (p + 1) * m \in Nat /\ q * m \in Nat
    BY Grouped
  <2> QED
    BY <1>1, <2>1, <2>2
<1>3. CASE q < p
  <2>1. (q + 1) * m <= p * m
    BY <1>3, Larger
  <2>2. (q + 1) * m \in Nat /\ p * m \in Nat
    BY Grouped
  <2> QED
    BY <1>1, <2>1, <2>2
<1> QED
  BY <1>1, <1>2, <1>3

\* A number written as a quotient and a remainder has these.
LEMMA ModIs ==
  ASSUME NEW m \in Nat \ {0}, NEW q \in Nat, NEW r \in Nat, r < m
  PROVE  (q * m + r) % m = r /\ (q * m + r) \div m = q
<1> DEFINE i == q * m + r
<1>1. q * m \in Nat /\ (q + 1) * m = q * m + m
  BY Spread, Grouped
<1>2. i \in Nat /\ q * m <= i /\ i < (q + 1) * m
  BY <1>1
<1>3. i = q * m + r
  OBVIOUS
<1> HIDE DEF i
<1>4. i \div m = q
  BY <1>2, DivIs
<1>5. i = q * m + (i % m) /\ i % m \in Nat
  <2>1. i % m \in 0 .. m - 1 /\ i = (i \div m) * m + (i % m)
    BY <1>2, DivMod
  <2> QED
    BY <1>4, <2>1
<1>6. i % m = r
  BY <1>1, <1>3, <1>5
<1> QED
  BY <1>4, <1>6 DEF i

\* Dividing twice is dividing by the product.
LEMMA DivDiv ==
  ASSUME NEW i \in Nat, NEW a \in Nat \ {0}, NEW b \in Nat \ {0}
  PROVE  i \div (b * a) = (i \div a) \div b
<1>1. PICK q \in Nat : q = i \div a /\ q * a <= i /\ i < (q + 1) * a
  BY DivMod
<1>2. PICK p \in Nat : p = q \div b /\ p * b <= q /\ q < (p + 1) * b
  BY DivMod
<1>3. p * b \in Nat /\ (p + 1) * b \in Nat /\ (p * b) * a = p * (b * a)
      /\ ((p + 1) * b) * a = (p + 1) * (b * a) /\ b * a \in Nat
  BY Grouped
<1>4. q + 1 <= (p + 1) * b
  BY <1>2, <1>3
<1>5. (p * b) * a <= q * a /\ (q + 1) * a <= ((p + 1) * b) * a
  BY <1>2, <1>3, <1>4, Larger
<1>6. p * (b * a) <= i /\ i < (p + 1) * (b * a)
  <2>1. q * a \in Nat /\ (q + 1) * a \in Nat /\ (p * b) * a \in Nat /\ ((p + 1) * b) * a \in Nat
    BY <1>3, Grouped
  <2> QED
    BY <1>1, <1>3, <1>5, <2>1
<1>7. b * a # 0
  OBVIOUS
<1>8. i \div (b * a) = p
  <2> DEFINE m == b * a
  <2>1. m \in Nat \ {0} /\ p * m <= i /\ i < (p + 1) * m
    BY <1>3, <1>6, <1>7
  <2> HIDE DEF m
  <2>2. i \div m = p
    BY <2>1, DivIs
  <2> QED
    BY <2>2 DEF m
<1> QED
  BY <1>1, <1>2, <1>8

\* A number whose digits in the mixed radix s are x.
LEMMA Digits ==
  ASSUME NEW s \in Seq(Nat), NEW n \in Nat, Len(s) = n, NEW x \in [1 .. n -> Nat],
         \A d \in 1 .. n : x[d] < s[d]
  PROVE  \E i \in 0 .. Product(s) - 1 :
           \A d \in 1 .. n : (i \div Stride(s, d)) % s[d] = x[d]
<1> DEFINE W(d) == Stride(s, d)
           step == [d \in 1 .. n |-> [v \in Nat |-> v * s[d] + x[d]]]
<1>1. n \in Nat /\ \A d \in 1 .. n : s[d] \in Nat /\ x[d] \in Nat /\ x[d] < s[d]
  OBVIOUS
<1>2. \A d \in 1 .. n, v \in Nat : v * s[d] + x[d] \in Nat
  BY <1>1, Grouped
<1>3. \E u \in [0 .. n -> Nat] : IsFold(u, n, 0, step)
  <2>1. step \in [1 .. n -> [Nat -> Nat]]
    BY <1>2
  <2> HIDE DEF step
  <2> QED
    BY <1>1, <2>1, FoldExists
<1>4. PICK q \in [0 .. n -> Nat] : IsFold(q, n, 0, step)
  BY <1>3
<1>5. q[0] = 0 /\ \A d \in 1 .. n : q[d] = q[d - 1] * s[d] + x[d]
  <2>1. q[0] = 0 /\ \A d \in 1 .. n : q[d] = step[d][q[d - 1]]
    BY <1>4 DEF IsFold
  <2>2. ASSUME NEW d \in 1 .. n PROVE q[d] = q[d - 1] * s[d] + x[d]
    <3>1. q[d - 1] \in Nat
      BY <1>1
    <3>2. step[d] = [v \in Nat |-> v * s[d] + x[d]]
      OBVIOUS
    <3> HIDE DEF step
    <3> QED
      BY <2>1, <3>1, <3>2
  <2> QED
    BY <2>1, <2>2
<1>6. W(n) = 1 /\ W(0) = Product(s) /\ (\A d \in 0 .. n : W(d) \in Nat)
      /\ \A d \in 1 .. n : W(d - 1) = s[d] * W(d)
  BY StrideIs
<1> HIDE DEF W, step
<1>7. PICK i \in Nat : i = q[n]
  BY <1>1
<1> DEFINE Between(d) == q[d] * W(d) <= i /\ i < (q[d] + 1) * W(d)
           S == {k \in 0 .. n : Between(n - k)}
<1>8. 0 \in S
  <2>1. n - 0 = n /\ q[n] * 1 = i /\ (q[n] + 1) * 1 = i + 1
    BY <1>1, <1>7
  <2> QED
    BY <1>1, <1>6, <2>1
<1>9. ASSUME NEW k \in 0 .. n - 1, k \in S PROVE k + 1 \in S
  <2>1. PICK d \in 1 .. n : d = n - k /\ d - 1 = n - (k + 1)
    BY <1>1
  <2>2. Between(d)
    BY <1>9, <2>1
  <2>3. PICK p \in Nat, a \in Nat, b \in Nat, c \in Nat, r \in Nat :
          p = q[d - 1] /\ a = q[d] /\ b = s[d] /\ c = W(d) /\ r = x[d]
    <3>1. d - 1 \in 0 .. n /\ d \in 0 .. n
      OBVIOUS
    <3>2. q[d - 1] \in Nat /\ q[d] \in Nat /\ W(d) \in Nat
      BY <1>6, <3>1
    <3> QED
      BY <1>1, <3>2
  <2>4. a = p * b + r /\ r < b /\ W(d - 1) = b * c
    BY <1>1, <1>5, <1>6, <2>3
  <2>5. a * c <= i /\ i < (a + 1) * c
    BY <2>2, <2>3
  <2>6. p * b \in Nat /\ (p * b) * c = p * (b * c) /\ (p + 1) * b = p * b + b
        /\ (p + 1) * b \in Nat /\ ((p + 1) * b) * c = (p + 1) * (b * c)
    BY Grouped, Spread
  <2>7. (p * b) * c <= a * c /\ (a + 1) * c <= ((p + 1) * b) * c
    <3>1. p * b <= a /\ a + 1 <= (p + 1) * b
      BY <2>4, <2>6
    <3> QED
      BY <2>6, <3>1, Larger
  <2>8. p * (b * c) <= i /\ i < (p + 1) * (b * c)
    <3>1. PICK t \in Nat, u \in Nat, v \in Nat, w \in Nat :
            t = a * c /\ u = (a + 1) * c /\ v = (p * b) * c /\ w = ((p + 1) * b) * c
      BY <2>6, Grouped
    <3>2. t <= i /\ i < u /\ v <= t /\ u <= w
      BY <2>5, <2>7, <3>1
    <3>3. v <= i /\ i < w
      BY <3>2
    <3> QED
      BY <2>6, <3>1, <3>3
  <2>9. Between(d - 1)
    BY <2>3, <2>4, <2>8
  <2> QED
    BY <1>1, <2>1, <2>9
<1> HIDE DEF S
<1>10. 0 .. n \subseteq S
  BY <1>1, <1>8, <1>9, RangeInduction
<1>11. ASSUME NEW d \in 0 .. n PROVE Between(d)
  <2>1. n - d \in S /\ n - (n - d) = d
    BY <1>1, <1>10
  <2> QED
    BY <2>1 DEF S
<1>12. i \in 0 .. Product(s) - 1
  <2>1. q[0] * W(0) <= i /\ i < (q[0] + 1) * W(0)
    BY <1>1, <1>11
  <2>2. (q[0] + 1) * W(0) = W(0) /\ W(0) \in Nat
    BY <1>1, <1>5, <1>6
  <2> QED
    BY <1>6, <2>1, <2>2
<1>13. ASSUME NEW d \in 1 .. n PROVE (i \div W(d)) % s[d] = x[d]
  <2>1. q[d] * W(d) <= i /\ i < (q[d] + 1) * W(d)
    BY <1>11
  <2>2. q[d] \in Nat /\ q[d - 1] \in Nat /\ W(d) \in Nat /\ s[d] \in Nat \ {0} /\ x[d] < s[d] /\ x[d] \in Nat
    <3>1. d - 1 \in 0 .. n /\ d \in 0 .. n
      OBVIOUS
    <3>2. q[d - 1] \in Nat /\ q[d] \in Nat /\ W(d) \in Nat
      BY <1>6, <3>1
    <3>3. s[d] \in Nat /\ x[d] \in Nat /\ x[d] < s[d]
      BY <1>1
    <3> QED
      BY <3>2, <3>3
  <2>3. W(d) # 0
    BY <2>1, <2>2
  <2>4. i \div W(d) = q[d]
    BY <2>1, <2>2, <2>3, DivIs
  <2>5. (q[d - 1] * s[d] + x[d]) % s[d] = x[d]
    BY <2>2, ModIs
  <2> QED
    BY <1>5, <2>4, <2>5
<1> QED
  BY <1>12, <1>13 DEF W

\* u[d] is the place of x, by its first d coordinates.
IsFlat(u, s, x) ==
  u[0] = 0 /\ \A d \in 1 .. Len(s) : u[d] = x[d] * Stride(s, d) + u[d - 1]

\* Every element has coordinates, and they lead back to it.
LEMMA Coordinates ==
  ASSUME NEW s \in Seq(Nat), NEW n \in Nat, Len(s) = n, NEW i \in 0 .. Product(s) - 1
  PROVE  \E x \in [1 .. n -> Nat] :
           /\ \A d \in 1 .. n : x[d] < s[d]
           /\ \A u : IsFlat(u, s, x) => u[n] = i
<1> DEFINE W(d) == Stride(s, d)
           x == [d \in 1 .. n |-> (i \div W(d)) % s[d]]
<1>1. W(n) = 1 /\ W(0) = Product(s) /\ (\A d \in 0 .. n : W(d) \in Nat)
      /\ \A d \in 1 .. n : W(d - 1) = s[d] * W(d)
  BY StrideIs
<1>2. i \in Nat /\ i < W(0) /\ \A d \in 1 .. n : s[d] \in Nat
  <2>1. Product(s) \in Nat
    BY ProductType
  <2> QED
    BY <1>1, <2>1
<1> HIDE DEF W
<1> DEFINE P == {d \in 0 .. n : W(d) # 0}
<1>3. 0 .. n \subseteq P
  <2>1. 0 \in P
    BY <1>1, <1>2
  <2>2. ASSUME NEW d \in 0 .. n - 1, d \in P PROVE d + 1 \in P
    <3>1. d + 1 \in 1 .. n /\ (d + 1) - 1 = d /\ d + 1 \in 0 .. n
      OBVIOUS
    <3>2. W(d) = s[d + 1] * W(d + 1) /\ s[d + 1] \in Nat /\ W(d + 1) \in Nat /\ W(d) # 0
      BY <1>1, <1>2, <2>2, <3>1
    <3>3. W(d + 1) # 0
      BY <3>2
    <3> QED
      BY <3>1, <3>3
  <2> HIDE DEF P
  <2> QED
    BY <2>1, <2>2, RangeInduction
<1>4. \A d \in 0 .. n : W(d) \in Nat \ {0}
  BY <1>1, <1>3
<1>5. \A d \in 1 .. n : s[d] \in Nat \ {0}
  <2> SUFFICES ASSUME NEW d \in 1 .. n PROVE s[d] # 0
    BY <1>2
  <2>1. d - 1 \in 0 .. n /\ d \in 0 .. n
    OBVIOUS
  <2>2. W(d - 1) = s[d] * W(d) /\ W(d - 1) # 0 /\ W(d) \in Nat
    BY <1>1, <1>4, <2>1
  <2> QED
    BY <2>2
<1>6. \A d \in 0 .. n : i \div W(d) \in Nat
  BY <1>2, <1>4, DivMod
<1>7. \A d \in 1 .. n : x[d] \in Nat /\ x[d] < s[d]
  <2> SUFFICES ASSUME NEW d \in 1 .. n PROVE x[d] \in 0 .. s[d] - 1
    BY <1>5
  <2>1. i \div W(d) \in Nat
    BY <1>6
  <2>2. (i \div W(d)) % s[d] \in 0 .. s[d] - 1
    BY <1>5, <2>1, DivMod
  <2> QED
    BY <2>2
<1>8. x \in [1 .. n -> Nat]
  BY <1>7
<1>9. ASSUME NEW d \in 1 .. n
      PROVE  (i \div W(d)) * W(d) = x[d] * W(d) + (i \div W(d - 1)) * W(d - 1)
  <2>1. d - 1 \in 0 .. n /\ d \in 0 .. n
    OBVIOUS
  <2>2. PICK a \in Nat \ {0}, b \in Nat \ {0}, q \in Nat, p \in Nat, r \in Nat :
          a = W(d) /\ b = s[d] /\ q = i \div W(d) /\ p = i \div W(d - 1) /\ r = x[d]
    BY <1>4, <1>5, <1>6, <1>7, <2>1
  <2>3. W(d - 1) = b * a
    BY <1>1, <2>2
  <2>4. i \div (b * a) = (i \div a) \div b
    BY <1>2, DivDiv
  <2>5. p = q \div b /\ r = q % b
    BY <2>2, <2>3, <2>4
  <2>6. q = p * b + r
    BY <2>5, DivMod
  <2>7. p * b \in Nat /\ (p * b) * a = p * (b * a) /\ (p * b + r) * a = (p * b) * a + r * a
    BY Grouped, Spread
  <2>8. q * a = r * a + p * (b * a)
    <3>1. r * a \in Nat /\ (p * b) * a \in Nat
      BY <2>7, Grouped
    <3> QED
      BY <2>6, <2>7, <3>1
  <2> QED
    BY <2>2, <2>3, <2>8
<1> HIDE DEF x
<1>10. ASSUME NEW u, IsFlat(u, s, x) PROVE u[n] = i
  <2>1. u[0] = 0 /\ \A d \in 1 .. n : u[d] = x[d] * W(d) + u[d - 1]
    BY <1>10 DEF IsFlat, W
  <2> DEFINE S == {d \in 0 .. n : u[d] = (i \div W(d)) * W(d)}
  <2>2. 0 \in S
    <3>1. 0 * W(0) <= i /\ i < (0 + 1) * W(0) /\ W(0) \in Nat \ {0}
      BY <1>2, <1>4
    <3>2. i \div W(0) = 0
      BY <1>2, <3>1, DivIs
    <3> QED
      BY <2>1, <3>1, <3>2
  <2>3. ASSUME NEW d \in 0 .. n - 1, d \in S PROVE d + 1 \in S
    <3>1. d + 1 \in 1 .. n /\ (d + 1) - 1 = d
      OBVIOUS
    <3>2. u[d + 1] = x[d + 1] * W(d + 1) + u[d] /\ u[d] = (i \div W(d)) * W(d)
      BY <2>1, <2>3, <3>1
    <3> QED
      BY <1>9, <3>1, <3>2
  <2> HIDE DEF S
  <2>4. 0 .. n \subseteq S
    BY <2>2, <2>3, RangeInduction
  <2>5. u[n] = (i \div W(n)) * W(n)
    BY <2>4 DEF S
  <2>6. i \div 1 = i /\ i * 1 = i
    BY <1>2
  <2> QED
    BY <1>1, <2>5, <2>6
<1> QED
  BY <1>7, <1>8, <1>10

\* The shape and the chunk of a dataset.
LEMMA DatasetType ==
  ASSUME ds \in Datasets
  PROVE  \E n \in Nat :
           /\ Len(ds.shape) = n /\ Len(ds.chunk) = n /\ DOMAIN ds.shape = 1 .. n
           /\ ds.shape \in Seq(Nat) /\ ds.chunk \in Seq(Nat)
           /\ \A d \in 1 .. n : ds.shape[d] \in Nat /\ ds.chunk[d] \in Nat \ {0}
<1>1. ds.shape \in Seq(Nat) /\ ds.chunk \in Seq(Nat \ {0}) /\ Len(ds.chunk) = Len(ds.shape)
  BY DatasetAssumption
<1>2. PICK n \in Nat : n = Len(ds.shape)
  BY <1>1
<1>3. DOMAIN ds.shape = 1 .. n /\ DOMAIN ds.chunk = 1 .. n
  BY <1>1, <1>2
<1>4. \A d \in 1 .. n : ds.shape[d] \in Nat /\ ds.chunk[d] \in Nat \ {0}
  BY <1>1, <1>2
<1>5. ds.chunk \in Seq(Nat)
  BY <1>1
<1> QED
  BY <1>1, <1>2, <1>3, <1>4, <1>5

LEMMA DivCeilType ==
  ASSUME NEW a \in Nat, NEW c \in Nat \ {0} PROVE DivCeil(a, c) \in Nat
<1>1. a + c - 1 \in Nat
  OBVIOUS
<1> DEFINE b == a + c - 1
<1>2. b \div c \in Nat
  <2> HIDE DEF b
  <2>1. b \in Nat
    BY <1>1 DEF b
  <2> QED
    BY <2>1, DivMod
<1> QED
  BY <1>2 DEF DivCeil

\* Coordinate x of a dimension of length a is in one of its chunks of c.
Splits(x, a, c) ==
  /\ x \div c \in Nat /\ x \div c < DivCeil(a, c)
  /\ x % c \in Nat /\ x % c < c
  /\ (x \div c) * c + (x % c) = x

\* Every coordinate inside the dataset is.
LEMMA InSomeChunk ==
  ASSUME NEW a \in Nat, NEW c \in Nat \ {0}, NEW x \in Nat, x < a
  PROVE  Splits(x, a, c)
<1>1. PICK g \in Nat, r \in 0 .. c - 1 : g = x \div c /\ r = x % c /\ x = g * c + r
  BY DivMod
<1>2. PICK b \in Nat : b = a + c - 1
  OBVIOUS
<1>3. PICK q \in Nat : q = b \div c /\ b < (q + 1) * c
  BY DivMod
<1>4. g * c \in Nat /\ (g + 1) * c = g * c + c /\ (q + 1) * c \in Nat
  BY Grouped, Spread
<1>5. (g + 1) * c <= b
  BY <1>1, <1>2, <1>4
<1>6. g < q
  <2> SUFFICES ASSUME q <= g PROVE FALSE
    OBVIOUS
  <2>1. (q + 1) * c <= (g + 1) * c
    BY Larger
  <2>2. (g + 1) * c \in Nat
    BY Grouped
  <2> QED
    BY <1>3, <1>4, <1>5, <2>1, <2>2
<1>7. DivCeil(a, c) = q
  BY <1>2, <1>3 DEF DivCeil
<1> QED
  BY <1>1, <1>6, <1>7 DEF Splits

\* The chunks per dimension.
LEMMA GridType ==
  ASSUME ds \in Datasets
  PROVE  GridOf(ds) \in Seq(Nat) /\ Len(GridOf(ds)) = Len(ds.shape)
         /\ \A d \in 1 .. Len(ds.shape) : GridOf(ds)[d] = DivCeil(ds.shape[d], ds.chunk[d])
<1>1. PICK n \in Nat :
           /\ Len(ds.shape) = n /\ Len(ds.chunk) = n /\ DOMAIN ds.shape = 1 .. n
           /\ ds.shape \in Seq(Nat) /\ ds.chunk \in Seq(Nat)
           /\ \A d \in 1 .. n : ds.shape[d] \in Nat /\ ds.chunk[d] \in Nat \ {0}
  BY DatasetType
<1>2. \A d \in 1 .. n : DivCeil(ds.shape[d], ds.chunk[d]) \in Nat
  BY <1>1, DivCeilType
<1>3. GridOf(ds) = [d \in 1 .. n |-> DivCeil(ds.shape[d], ds.chunk[d])]
  BY <1>1 DEF GridOf
<1>4. GridOf(ds) \in [1 .. n -> Nat]
  BY <1>2, <1>3
<1>5. GridOf(ds) \in Seq(Nat) /\ Len(GridOf(ds)) = n
  BY <1>4
<1> QED
  BY <1>1, <1>3, <1>5

\* FlatIndex adds up the strides.
LEMMA FlatIndexIs ==
  ASSUME ds \in Datasets, NEW x \in [1 .. Len(ds.shape) -> Nat]
  PROVE  \E u : IsFlat(u, ds.shape, x) /\ FlatIndex(x) = u[Len(ds.shape)]
<1>1. PICK n \in Nat : Len(ds.shape) = n /\ ds.shape \in Seq(Nat)
  BY DatasetType
<1> DEFINE w == [d \in 1 .. n |-> x[d] * Stride(ds.shape, d)]
           step == [d \in 1 .. n |-> [v \in Nat |-> w[d] + v]]
           Is(u) == u = [d \in 0 .. n |-> IF d = 0 THEN 0 ELSE x[d] * Stride(ds.shape, d) + u[d - 1]]
           upTo == CHOOSE u : Is(u)
<1>2. \A d \in 1 .. n : w[d] \in Nat /\ w[d] = x[d] * Stride(ds.shape, d)
  <2>1. \A d \in 1 .. n : Stride(ds.shape, d) \in Nat
    BY <1>1, StrideIs
  <2> QED
    BY <1>1, <2>1, Grouped
<1> HIDE DEF w
<1>3. \E u \in [0 .. n -> Nat] : IsFold(u, n, 0, step)
  <2>1. step \in [1 .. n -> [Nat -> Nat]]
    BY <1>2
  <2> HIDE DEF step
  <2> QED
    BY <1>1, <2>1, FoldExists
<1>4. PICK u \in [0 .. n -> Nat] : IsFold(u, n, 0, step)
  BY <1>3
<1>5. u[0] = 0 /\ \A d \in 1 .. n : u[d] = x[d] * Stride(ds.shape, d) + u[d - 1]
  <2>1. u[0] = 0 /\ \A d \in 1 .. n : u[d] = step[d][u[d - 1]]
    BY <1>4 DEF IsFold
  <2>2. ASSUME NEW d \in 1 .. n PROVE u[d] = x[d] * Stride(ds.shape, d) + u[d - 1]
    <3>1. u[d - 1] \in Nat
      OBVIOUS
    <3>2. step[d] = [v \in Nat |-> w[d] + v]
      OBVIOUS
    <3> HIDE DEF step
    <3> QED
      BY <1>2, <2>1, <3>1, <3>2
  <2> QED
    BY <2>1, <2>2
<1>6. Is(u)
  <2>1. \A d \in 0 .. n : u[d] = IF d = 0 THEN 0 ELSE x[d] * Stride(ds.shape, d) + u[d - 1]
    BY <1>5
  <2> QED
    BY <2>1
<1>7. Is(upTo)
  BY <1>6
<1>8. FlatIndex(x) = upTo[n]
  BY <1>1, Zenon DEF FlatIndex
<1> HIDE DEF upTo
<1>9. upTo[0] = 0 /\ \A d \in 1 .. n : upTo[d] = x[d] * Stride(ds.shape, d) + upTo[d - 1]
  <2>1. upTo[0] = 0
    BY <1>7
  <2>2. ASSUME NEW d \in 1 .. n PROVE upTo[d] = x[d] * Stride(ds.shape, d) + upTo[d - 1]
    <3>1. d \in 0 .. n /\ d # 0
      OBVIOUS
    <3> QED
      BY <1>7, <3>1, Zenon
  <2> QED
    BY <2>1, <2>2
<1> QED
  BY <1>1, <1>8, <1>9 DEF IsFlat

\* s is x, n times.
Repeats(s, n, x) == s \in Seq(Nat) /\ Len(s) = n /\ \A i \in 1 .. n : s[i] = x

LEMMA RepeatIs ==
  ASSUME NEW n \in Nat, NEW x \in Nat
  PROVE  Repeats(Repeat(n, x), n, x)
<1>1. Repeat(n, x) \in [1 .. n -> Nat]
  BY DEF Repeat
<1> QED
  BY <1>1 DEF Repeat, Repeats

\* Shl is the power of two.
LEMMA ShlIs ==
  /\ Shl(0) = 1
  /\ \A n \in Nat : Shl(n + 1) = 2 * Shl(n)
  /\ \A n \in Nat : Shl(n) \in Nat \ {0} /\ Shl(n) > n
<1>1. Shl(0) = 1
  <2>1. Repeat(0, 2) = << >>
    BY DEF Repeat
  <2> QED
    BY <2>1, ProductOfNone DEF Shl
<1>2. ASSUME NEW n \in Nat PROVE Shl(n + 1) = 2 * Shl(n)
  <2> DEFINE s == Repeat(n + 1, 2)
             t == Repeat(n, 2)
  <2>1. s \in Seq(Nat) /\ Len(s) = n + 1 /\ (\A i \in 1 .. n + 1 : s[i] = 2)
        /\ t \in Seq(Nat) /\ Len(t) = n /\ \A i \in 1 .. n : t[i] = 2
    <3>1. Repeats(s, n + 1, 2) /\ Repeats(t, n, 2)
      <4>1. n + 1 \in Nat /\ 2 \in Nat
        OBVIOUS
      <4> QED
        BY <4>1, RepeatIs
    <3> HIDE DEF s, t
    <3> QED
      BY <3>1 DEF Repeats
  <2>2. Product(s) = 2 * Product(t)
    <3> HIDE DEF s, t
    <3>1. s # << >> /\ s[1] = 2
      BY <2>1
    <3>2. Tail(s) \in Seq(Nat) /\ Len(Tail(s)) = n /\ \A i \in 1 .. n : Tail(s)[i] = s[i + 1]
      BY <2>1, <3>1
    <3>3. Tail(s) = t
      <4>1. \A i \in 1 .. n : Tail(s)[i] = t[i]
        <5> SUFFICES ASSUME NEW i \in 1 .. n PROVE Tail(s)[i] = t[i]
          OBVIOUS
        <5>1. i + 1 \in 1 .. n + 1
          OBVIOUS
        <5> QED
          BY <2>1, <3>2, <5>1
      <4> QED
        BY <2>1, <3>2, <4>1, SeqEqual
    <3> QED
      BY <2>1, <3>1, <3>3, ProductCons
  <2> QED
    BY <2>2 DEF Shl
<1>3. ASSUME NEW n \in Nat PROVE Shl(n) \in Nat
  <2>1. Repeat(n, 2) \in Seq(Nat)
    BY RepeatIs DEF Repeats
  <2> QED
    BY <2>1, ProductType DEF Shl
<1> DEFINE S == {n \in Nat : Shl(n) > n}
<1>4. Nat \subseteq S
  <2>1. 0 \in S
    BY <1>1
  <2>2. \A n \in Nat : n \in S => n + 1 \in S
    <3> SUFFICES ASSUME NEW n \in Nat, n \in S PROVE n + 1 \in S
      OBVIOUS
    <3>1. PICK a \in Nat : a = Shl(n)
      BY <1>3
    <3>2. Shl(n + 1) = 2 * a /\ a > n
      BY <1>2, <3>1
    <3> QED
      BY <3>2
  <2> HIDE DEF S
  <2> QED
    BY <2>1, <2>2, SetInduction
<1>5. ASSUME NEW n \in Nat PROVE Shl(n) \in Nat \ {0} /\ Shl(n) > n
  <2>1. Shl(n) \in Nat /\ Shl(n) > n
    BY <1>3, <1>4
  <2> QED
    BY <2>1
<1> QED
  BY <1>1, <1>2, <1>5

LEMMA Log2Type == ASSUME NEW n \in Nat \ {0} PROVE Log2(n) \in Nat
<1> DEFINE R == {k \in 0 .. n : Shl(k) <= n}
<1>1. 0 \in R
  BY ShlIs
<1>2. R \in SUBSET (0 .. n) /\ R # {}
  BY <1>1
<1>3. PICK m \in R : \A r \in R : r <= m
  <2> HIDE DEF R
  <2> QED
    BY <1>2, NatMax
<1>4. m \in 0 .. n /\ Shl(m) <= n /\ Shl(m) \in Nat /\ Shl(m) > m /\ Shl(m + 1) \in Nat
  BY <1>3, ShlIs
<1>5. n < Shl(m + 1)
  <2>1. m # n
    BY <1>4
  <2>2. m + 1 \in 0 .. n
    BY <1>4, <2>1
  <2>3. ~(m + 1 <= m)
    BY <1>4
  <2>4. m + 1 \notin R
    BY <1>3, <2>3
  <2>5. ~(Shl(m + 1) <= n)
    BY <2>2, <2>4
  <2> QED
    BY <1>4, <2>5
<1>6. \E k \in 0 .. n : Shl(k) <= n /\ n < Shl(k + 1)
  BY <1>4, <1>5
<1>7. Log2(n) \in 0 .. n
  BY <1>6, Zenon DEF Log2
<1> QED
  BY <1>7

\* A product of positive numbers is positive.
LEMMA ProductPositive == ASSUME NEW s \in Seq(Nat \ {0}) PROVE Product(s) \in Nat \ {0}
<1>1. s \in Seq(Nat)
  OBVIOUS
<1>2. PICK n \in Nat : n = Len(s)
  OBVIOUS
<1>3. PICK u : Accumulates(u, s) /\ Product(s) = u[n]
  BY <1>1, <1>2, ProductExists
<1>4. u \in [0 .. n -> Nat] /\ u[0] = 1 /\ \A i \in 1 .. n : u[i] = s[i] * u[i - 1] /\ s[i] \in Nat \ {0}
  BY <1>2, <1>3 DEF Accumulates
<1> DEFINE S == {i \in 0 .. n : u[i] # 0}
<1>5. 0 \in S
  BY <1>4
<1>6. ASSUME NEW i \in 0 .. n - 1, i \in S PROVE i + 1 \in S
  <2>1. i + 1 \in 1 .. n /\ (i + 1) - 1 = i /\ i + 1 \in 0 .. n
    OBVIOUS
  <2>2. PICK a \in Nat \ {0}, b \in Nat : a = s[i + 1] /\ b = u[i]
    <3>1. s[i + 1] \in Nat \ {0}
      BY <1>4, <2>1
    <3>2. u[i] \in Nat
      BY <1>4
    <3> QED
      BY <3>1, <3>2
  <2>3. u[i + 1] = a * b /\ b # 0
    BY <1>4, <1>6, <2>1, <2>2
  <2> QED
    BY <2>1, <2>2, <2>3
<1> HIDE DEF S
<1>7. 0 .. n \subseteq S
  BY <1>5, <1>6, RangeInduction
<1>8. u[n] \in Nat /\ u[n] # 0
  BY <1>4, <1>7 DEF S
<1> QED
  BY <1>3, <1>8

\* The sizes computed for a dataset are numbers.
LEMMA DatasetSizes ==
  ASSUME ds \in Datasets
  PROVE  /\ TotalChunks(ds) \in Nat
         /\ ChunkElements \in Nat \ {0}
         /\ RawSize(ds) \in Nat \ {0}
         /\ SizeWidth(ds) \in 1 .. 8
         /\ ElementSize(ds) \in Nat
<1>1. TotalChunks(ds) \in Nat
  BY GridType, ProductType DEF TotalChunks
<1>2. ds.chunk \in Seq(Nat \ {0}) /\ ds.elemSize \in Nat \ {0}
  BY DatasetAssumption
<1>3. Product(ds.chunk) \in Nat \ {0}
  BY <1>2, ProductPositive
<1>4. RawSize(ds) \in Nat \ {0}
  <2>1. PICK a \in Nat \ {0}, b \in Nat \ {0} : a = Product(ds.chunk) /\ b = ds.elemSize
    BY <1>2, <1>3
  <2>2. RawSize(ds) = a * b
    BY <2>1 DEF RawSize
  <2>3. a * b \in Nat /\ a * b # 0
    BY Grouped
  <2> QED
    BY <2>2, <2>3
<1> DEFINE largest == IF TotalChunks(ds) = 0 THEN 1 ELSE RawSize(ds)
<1>5. largest \in Nat \ {0}
  BY <1>4
<1>6. SizeWidth(ds) \in 1 .. 8
  <2> HIDE DEF largest
  <2>1. PICK k \in Nat : k = Log2(largest)
    BY <1>5, Log2Type
  <2>2. PICK l \in Nat : l = k + 8
    OBVIOUS
  <2>3. l \div 8 \in Nat /\ l < ((l \div 8) + 1) * 8
    BY DivMod
  <2>4. PICK w \in Nat : w = 1 + l \div 8
    BY <2>3
  <2>5. 1 + (k + 8) \div 8 = w /\ w >= 1
    BY <2>2, <2>3, <2>4
  <2>6. SizeWidth(ds) = IF w < 8 THEN w ELSE 8
    BY <2>1, <2>5 DEF SizeWidth, largest
  <2> QED
    BY <2>5, <2>6
<1>7. ElementSize(ds) \in Nat
  BY <1>6 DEF ElementSize
<1> QED
  BY <1>1, <1>3, <1>4, <1>6, <1>7 DEF ChunkElements

\* u[i] is the first i parts one behind the other.
Joins(u, n, part) ==
  /\ u \in [0 .. n -> Seq(Nat)]
  /\ u[0] = << >>
  /\ \A i \in 1 .. n : u[i] = u[i - 1] \o part[i]

LEMMA JoinsExist ==
  ASSUME NEW n \in Nat, NEW part \in [1 .. n -> Seq(Nat)]
  PROVE  \E u : Joins(u, n, part)
<1> DEFINE step == [i \in 1 .. n |-> [v \in Seq(Nat) |-> v \o part[i]]]
<1>1. step \in [1 .. n -> [Seq(Nat) -> Seq(Nat)]]
  OBVIOUS
<1>2. << >> \in Seq(Nat)
  OBVIOUS
<1>3. \E u \in [0 .. n -> Seq(Nat)] : IsFold(u, n, << >>, step)
  <2> HIDE DEF step
  <2> QED
    BY <1>1, <1>2, FoldExists
<1>4. PICK u \in [0 .. n -> Seq(Nat)] : IsFold(u, n, << >>, step)
  BY <1>3
<1>5. u[0] = << >> /\ \A i \in 1 .. n : u[i] = step[i][u[i - 1]]
  BY <1>4 DEF IsFold
<1>6. ASSUME NEW i \in 1 .. n PROVE u[i] = u[i - 1] \o part[i]
  <2>1. u[i - 1] \in Seq(Nat)
    OBVIOUS
  <2>2. step[i] = [v \in Seq(Nat) |-> v \o part[i]]
    OBVIOUS
  <2> HIDE DEF step
  <2> QED
    BY <1>5, <2>1, <2>2
<1> QED
  BY <1>4, <1>5, <1>6 DEF Joins

\* What satisfies the recursion is the join.
LEMMA JoinsIs ==
  ASSUME NEW n \in Nat, NEW part \in [1 .. n -> Seq(Nat)], NEW v,
         v = [i \in 0 .. n |-> IF i = 0 THEN << >> ELSE v[i - 1] \o part[i]]
  PROVE  Joins(v, n, part)
<1>1. v[0] = << >>
  OBVIOUS
<1>2. ASSUME NEW i \in 1 .. n PROVE v[i] = v[i - 1] \o part[i]
  <2>1. i \in 0 .. n /\ i # 0
    OBVIOUS
  <2> QED
    BY <2>1, Zenon
<1> DEFINE S == {i \in 0 .. n : v[i] \in Seq(Nat)}
<1>3. 0 \in S
  BY <1>1
<1>4. ASSUME NEW i \in 0 .. n - 1, i \in S PROVE i + 1 \in S
  <2>1. i + 1 \in 1 .. n /\ (i + 1) - 1 = i /\ i + 1 \in 0 .. n
    OBVIOUS
  <2>2. v[i + 1] = v[i] \o part[i + 1] /\ v[i] \in Seq(Nat) /\ part[i + 1] \in Seq(Nat)
    BY <1>2, <1>4, <2>1
  <2>3. PICK a \in Seq(Nat), b \in Seq(Nat) : v[i + 1] = a \o b
    BY <2>2
  <2>4. a \o b \in Seq(Nat)
    OBVIOUS
  <2>5. v[i + 1] \in Seq(Nat)
    BY <2>3, <2>4
  <2> QED
    BY <2>1, <2>5
<1> HIDE DEF S
<1>5. 0 .. n \subseteq S
  BY <1>3, <1>4, RangeInduction
<1>6. v \in [0 .. n -> Seq(Nat)]
  <2>1. \A i \in 0 .. n : v[i] \in Seq(Nat)
    BY <1>5 DEF S
  <2>2. v = [i \in 0 .. n |-> v[i]]
    <3>1. DOMAIN v = 0 .. n
      OBVIOUS
    <3> QED
      BY <3>1, Zenon
  <2> QED
    BY <2>1, <2>2
<1> QED
  BY <1>1, <1>2, <1>6 DEF Joins

\* s begins with t.
Continues(s, t) == Len(t) <= Len(s) /\ \A j \in 1 .. Len(t) : s[j] = t[j]

\* The first parts stay where they are.
LEMMA JoinsBegin ==
  ASSUME NEW n \in Nat, NEW part, NEW u, Joins(u, n, part),
         part \in [1 .. n -> Seq(Nat)], NEW m \in 0 .. n
  PROVE  Continues(u[n], u[m])
<1>1. u \in [0 .. n -> Seq(Nat)] /\ \A i \in 1 .. n : u[i] = u[i - 1] \o part[i]
  BY DEF Joins
<1>2. PICK l \in Nat : l = Len(u[m])
  BY <1>1
<1> DEFINE Same(i) == l <= Len(u[i]) /\ \A j \in 1 .. l : u[i][j] = u[m][j]
           S == {k \in 0 .. n - m : Same(m + k)}
<1>3. 0 \in S
  BY <1>1, <1>2
<1>4. ASSUME NEW k \in 0 .. (n - m) - 1, k \in S PROVE k + 1 \in S
  <2>1. PICK i \in 1 .. n : i = m + (k + 1) /\ i - 1 = m + k /\ i - 1 \in 0 .. n
    OBVIOUS
  <2>2. PICK a \in Seq(Nat), b \in Seq(Nat) : a = u[i - 1] /\ b = part[i] /\ u[i] = a \o b
    BY <1>1, <2>1
  <2>3. l <= Len(a) /\ \A j \in 1 .. l : a[j] = u[m][j]
    BY <1>4, <2>1, <2>2
  <2>4. Len(a \o b) >= Len(a) /\ \A j \in 1 .. Len(a) : (a \o b)[j] = a[j]
    OBVIOUS
  <2>5. l <= Len(a \o b) /\ \A j \in 1 .. l : (a \o b)[j] = u[m][j]
    BY <2>3, <2>4
  <2>6. Same(i)
    BY <2>2, <2>5
  <2>7. k + 1 \in 0 .. n - m
    OBVIOUS
  <2> QED
    BY <2>1, <2>6, <2>7
<1> HIDE DEF S
<1>5. 0 .. n - m \subseteq S
  <2>1. n - m \in Nat
    OBVIOUS
  <2> QED
    BY <1>3, <1>4, <2>1, RangeInduction
<1>6. n - m \in S /\ m + (n - m) = n
  BY <1>5
<1>7. Same(n)
  BY <1>6 DEF S
<1> QED
  BY <1>2, <1>7 DEF Continues

\* The data blocks of each level.
WriterPart == [i \in 1 .. SuperMin |-> Repeat(Shl((i - 1) \div 2), MinElmts * Shl(i \div 2))]
ReaderPart ==
  [i \in 1 .. SuperMin |-> Repeat(Shl(i - 1), MinElmts * Shl(IF i = 1 THEN 0 ELSE i - 2))]

\* The levels of data blocks are sequences of numbers.
LEMMA PartTypes ==
  WriterPart \in [1 .. SuperMin -> Seq(Nat)] /\ ReaderPart \in [1 .. SuperMin -> Seq(Nat)]
<1>1. SuperMin \in Nat /\ MinElmts \in Nat
  BY ParameterAssumption
<1>2. ASSUME NEW a \in Nat, NEW b \in Nat PROVE Repeat(Shl(a), MinElmts * Shl(b)) \in Seq(Nat)
  <2>1. Shl(a) \in Nat /\ Shl(b) \in Nat
    BY ShlIs
  <2>2. MinElmts * Shl(b) \in Nat
    BY <1>1, <2>1, Grouped
  <2> QED
    BY <2>1, <2>2, RepeatIs DEF Repeats
<1>3. ASSUME NEW i \in 1 .. SuperMin
      PROVE  (i - 1) \div 2 \in Nat /\ i \div 2 \in Nat /\ i - 1 \in Nat
             /\ (IF i = 1 THEN 0 ELSE i - 2) \in Nat
  BY <1>1
<1>4. WriterPart \in [1 .. SuperMin -> Seq(Nat)]
  BY <1>2, <1>3 DEF WriterPart
<1>5. ReaderPart \in [1 .. SuperMin -> Seq(Nat)]
  BY <1>2, <1>3 DEF ReaderPart
<1> QED
  BY <1>4, <1>5

\* The writer's and the reader's sizes are those levels one behind the other.
LEMMA WriterJoins == \E u : Joins(u, SuperMin, WriterPart) /\ WriterSizes = u[SuperMin]
<1> DEFINE part(i) == Repeat(Shl((i - 1) \div 2), MinElmts * Shl(i \div 2))
           Is(u) == u = [i \in 0 .. SuperMin |-> IF i = 0 THEN << >> ELSE u[i - 1] \o part(i)]
           upTo == CHOOSE u : Is(u)
<1>1. SuperMin \in Nat
  BY ParameterAssumption
<1>2. \A i \in 1 .. SuperMin : WriterPart[i] = part(i)
  BY DEF WriterPart
<1>3. WriterSizes = upTo[SuperMin]
  BY Zenon DEF WriterSizes
<1> HIDE DEF part
<1>4. ASSUME NEW u
      PROVE  Is(u) <=> u = [i \in 0 .. SuperMin |->
                              IF i = 0 THEN << >> ELSE u[i - 1] \o WriterPart[i]]
  <2>1. \A i \in 0 .. SuperMin :
          (IF i = 0 THEN << >> ELSE u[i - 1] \o part(i))
            = (IF i = 0 THEN << >> ELSE u[i - 1] \o WriterPart[i])
    <3> SUFFICES ASSUME NEW i \in 0 .. SuperMin, i # 0 PROVE WriterPart[i] = part(i)
      BY Zenon
    <3>1. i \in 1 .. SuperMin
      BY <1>1
    <3> QED
      BY <1>2, <3>1
  <2>2. [i \in 0 .. SuperMin |-> IF i = 0 THEN << >> ELSE u[i - 1] \o part(i)]
          = [i \in 0 .. SuperMin |-> IF i = 0 THEN << >> ELSE u[i - 1] \o WriterPart[i]]
    BY <2>1, Zenon
  <2> QED
    BY <2>2
<1>5. PICK u : Joins(u, SuperMin, WriterPart)
  BY <1>1, PartTypes, JoinsExist
<1>6. u = [i \in 0 .. SuperMin |-> IF i = 0 THEN << >> ELSE u[i - 1] \o WriterPart[i]]
  <2>1. \A i \in 0 .. SuperMin : u[i] = IF i = 0 THEN << >> ELSE u[i - 1] \o WriterPart[i]
    <3>1. u[0] = << >> /\ \A i \in 1 .. SuperMin : u[i] = u[i - 1] \o WriterPart[i]
      BY <1>5 DEF Joins
    <3>2. \A i \in 0 .. SuperMin : i # 0 => i \in 1 .. SuperMin
      BY <1>1
    <3> QED
      BY <3>1, <3>2, Zenon
  <2>2. u = [i \in 0 .. SuperMin |-> u[i]]
    BY <1>5 DEF Joins
  <2> QED
    BY <2>1, <2>2, Zenon
<1>7. Is(u)
  BY <1>4, <1>6, Zenon
<1>8. Is(upTo)
  BY <1>7, Zenon
<1> HIDE DEF upTo
<1>9. upTo = [i \in 0 .. SuperMin |-> IF i = 0 THEN << >> ELSE upTo[i - 1] \o WriterPart[i]]
  BY <1>4, <1>8, Zenon
<1>10. Joins(upTo, SuperMin, WriterPart)
  BY <1>1, <1>9, PartTypes, JoinsIs
<1> QED
  BY <1>3, <1>10

LEMMA ReaderJoins == \E u : Joins(u, SuperMin, ReaderPart) /\ ReaderSizes = u[SuperMin]
<1> DEFINE part(i) == Repeat(Shl(i - 1), MinElmts * Shl(IF i = 1 THEN 0 ELSE i - 2))
           Is(u) == u = [i \in 0 .. SuperMin |-> IF i = 0 THEN << >> ELSE u[i - 1] \o part(i)]
           upTo == CHOOSE u : Is(u)
<1>1. SuperMin \in Nat
  BY ParameterAssumption
<1>2. \A i \in 1 .. SuperMin : ReaderPart[i] = part(i)
  BY DEF ReaderPart
<1>3. ReaderSizes = upTo[SuperMin]
  BY Zenon DEF ReaderSizes
<1> HIDE DEF part
<1>4. ASSUME NEW u
      PROVE  Is(u) <=> u = [i \in 0 .. SuperMin |->
                              IF i = 0 THEN << >> ELSE u[i - 1] \o ReaderPart[i]]
  <2>1. \A i \in 0 .. SuperMin :
          (IF i = 0 THEN << >> ELSE u[i - 1] \o part(i))
            = (IF i = 0 THEN << >> ELSE u[i - 1] \o ReaderPart[i])
    <3> SUFFICES ASSUME NEW i \in 0 .. SuperMin, i # 0 PROVE ReaderPart[i] = part(i)
      BY Zenon
    <3>1. i \in 1 .. SuperMin
      BY <1>1
    <3> QED
      BY <1>2, <3>1
  <2>2. [i \in 0 .. SuperMin |-> IF i = 0 THEN << >> ELSE u[i - 1] \o part(i)]
          = [i \in 0 .. SuperMin |-> IF i = 0 THEN << >> ELSE u[i - 1] \o ReaderPart[i]]
    BY <2>1, Zenon
  <2> QED
    BY <2>2
<1>5. PICK u : Joins(u, SuperMin, ReaderPart)
  BY <1>1, PartTypes, JoinsExist
<1>6. u = [i \in 0 .. SuperMin |-> IF i = 0 THEN << >> ELSE u[i - 1] \o ReaderPart[i]]
  <2>1. \A i \in 0 .. SuperMin : u[i] = IF i = 0 THEN << >> ELSE u[i - 1] \o ReaderPart[i]
    <3>1. u[0] = << >> /\ \A i \in 1 .. SuperMin : u[i] = u[i - 1] \o ReaderPart[i]
      BY <1>5 DEF Joins
    <3>2. \A i \in 0 .. SuperMin : i # 0 => i \in 1 .. SuperMin
      BY <1>1
    <3> QED
      BY <3>1, <3>2, Zenon
  <2>2. u = [i \in 0 .. SuperMin |-> u[i]]
    BY <1>5 DEF Joins
  <2> QED
    BY <2>1, <2>2, Zenon
<1>7. Is(u)
  BY <1>4, <1>6, Zenon
<1>8. Is(upTo)
  BY <1>7, Zenon
<1> HIDE DEF upTo
<1>9. upTo = [i \in 0 .. SuperMin |-> IF i = 0 THEN << >> ELSE upTo[i - 1] \o ReaderPart[i]]
  BY <1>4, <1>8, Zenon
<1>10. Joins(upTo, SuperMin, ReaderPart)
  BY <1>1, <1>9, PartTypes, JoinsIs
<1> QED
  BY <1>3, <1>10

LEMMA PowersOfTwo == Shl(0) = 1 /\ Shl(1) = 2
<1>1. Shl(0 + 1) = 2 * Shl(0) /\ Shl(0) = 1
  BY ShlIs
<1> QED
  BY <1>1

\* s begins with x and y.
Begins(s, x, y) == s \in Seq(Nat) /\ Len(s) >= 2 /\ s[1] = x /\ s[2] = y

\* A first element and what comes after it.
LEMMA FirstTwo ==
  ASSUME NEW a \in Seq(Nat), NEW b \in Seq(Nat), NEW x \in Nat, NEW y \in Nat, NEW n \in Nat \ {0},
         Repeats(a, 1, x), Repeats(b, n, y)
  PROVE  Begins(a \o b, x, y)
<1>1. Len(a) = 1 /\ a[1] = x /\ Len(b) = n /\ b[1] = y
  BY DEF Repeats
<1> DEFINE c == a \o b
<1>2. /\ c \in Seq(Nat)
      /\ Len(c) = Len(a) + Len(b)
      /\ \A i \in 1 .. Len(a) + Len(b) : c[i] = IF i <= Len(a) THEN a[i] ELSE b[i - Len(a)]
  BY ConcatProperties
<1> HIDE DEF c
<1>3. Len(c) = 1 + n /\ \A i \in 1 .. 1 + n : c[i] = IF i <= 1 THEN a[i] ELSE b[i - 1]
  BY <1>1, <1>2
<1>4. 1 \in 1 .. 1 + n /\ 2 \in 1 .. 1 + n /\ ~(2 <= 1) /\ 2 - 1 = 1 /\ 1 <= 1
  OBVIOUS
<1>5. c[1] = a[1] /\ c[2] = b[1]
  BY <1>3, <1>4
<1>6. Begins(c, x, y)
  BY <1>1, <1>2, <1>3, <1>5 DEF Begins
<1> QED
  BY <1>6 DEF c

\* The writer's first two data blocks.
LEMMA WriterSizesAre ==
  /\ WriterSizes \in Seq(Nat)
  /\ SuperMin >= 2 => Len(WriterSizes) >= 2 /\ WriterSizes[1] = MinElmts /\ WriterSizes[2] = MinElmts * 2
<1>1. PICK u : Joins(u, SuperMin, WriterPart) /\ WriterSizes = u[SuperMin]
  BY WriterJoins
<1>2. SuperMin \in Nat /\ MinElmts \in Nat
  BY ParameterAssumption
<1>3. WriterSizes \in Seq(Nat)
  BY <1>1, <1>2 DEF Joins
<1>4. ASSUME SuperMin >= 2
      PROVE  Len(WriterSizes) >= 2 /\ WriterSizes[1] = MinElmts /\ WriterSizes[2] = MinElmts * 2
  <2>1. 1 \in 1 .. SuperMin /\ 2 \in 1 .. SuperMin /\ 2 \in 0 .. SuperMin
    BY <1>2, <1>4
  <2>2. WriterPart[1] = Repeat(1, MinElmts) /\ WriterPart[2] = Repeat(1, MinElmts * 2)
    <3>1. (1 - 1) \div 2 = 0 /\ 1 \div 2 = 0 /\ (2 - 1) \div 2 = 0 /\ 2 \div 2 = 1
      OBVIOUS
    <3>2. WriterPart[1] = Repeat(Shl((1 - 1) \div 2), MinElmts * Shl(1 \div 2))
          /\ WriterPart[2] = Repeat(Shl((2 - 1) \div 2), MinElmts * Shl(2 \div 2))
      BY <2>1 DEF WriterPart
    <3>3. MinElmts * 1 = MinElmts
      BY <1>2
    <3> QED
      BY <3>1, <3>2, <3>3, PowersOfTwo
  <2>3. PICK a \in Seq(Nat), b \in Seq(Nat) :
          a = WriterPart[1] /\ b = WriterPart[2] /\ Repeats(a, 1, MinElmts) /\ Repeats(b, 1, MinElmts * 2)
    <3>1. MinElmts * 2 \in Nat /\ 1 \in Nat
      BY <1>2
    <3>2. Repeats(Repeat(1, MinElmts), 1, MinElmts) /\ Repeats(Repeat(1, MinElmts * 2), 1, MinElmts * 2)
      BY <1>2, <3>1, RepeatIs
    <3> QED
      BY <2>2, <3>2 DEF Repeats
  <2>4. u[2] = a \o b
    <3>1. u[0] = << >> /\ u[1] = u[1 - 1] \o WriterPart[1] /\ u[2] = u[2 - 1] \o WriterPart[2]
      BY <1>1, <2>1 DEF Joins
    <3>2. << >> \o a = a /\ 1 - 1 = 0 /\ 2 - 1 = 1
      OBVIOUS
    <3>3. u[1] = a
      BY <2>3, <3>1, <3>2
    <3> QED
      BY <2>3, <3>1, <3>2, <3>3
  <2>5. Begins(u[2], MinElmts, MinElmts * 2)
    <3>1. MinElmts * 2 \in Nat
      BY <1>2
    <3> QED
      BY <1>2, <2>3, <2>4, <3>1, FirstTwo
  <2>6. Continues(u[SuperMin], u[2])
    BY <1>1, <1>2, <2>1, PartTypes, JoinsBegin
  <2>7. PICK l \in Nat : l = Len(u[2]) /\ l >= 2
    BY <2>5 DEF Begins
  <2>8. PICK m \in Nat : m = Len(u[SuperMin])
    BY <1>1, <1>3
  <2>9. l <= m /\ \A j \in 1 .. l : u[SuperMin][j] = u[2][j]
    BY <2>6, <2>7, <2>8 DEF Continues
  <2>10. 1 \in 1 .. l /\ 2 \in 1 .. l /\ m >= 2
    BY <2>7, <2>9
  <2>11. u[SuperMin][1] = u[2][1] /\ u[SuperMin][2] = u[2][2]
    BY <2>9, <2>10
  <2> QED
    BY <1>1, <2>5, <2>8, <2>10, <2>11 DEF Begins
<1> QED
  BY <1>3, <1>4

\* The reader's first two: the second is half as long.
LEMMA ReaderSizesAre ==
  /\ ReaderSizes \in Seq(Nat)
  /\ SuperMin >= 2 => Len(ReaderSizes) >= 2 /\ ReaderSizes[1] = MinElmts /\ ReaderSizes[2] = MinElmts
<1>1. PICK u : Joins(u, SuperMin, ReaderPart) /\ ReaderSizes = u[SuperMin]
  BY ReaderJoins
<1>2. SuperMin \in Nat /\ MinElmts \in Nat
  BY ParameterAssumption
<1>3. ReaderSizes \in Seq(Nat)
  BY <1>1, <1>2 DEF Joins
<1>4. ASSUME SuperMin >= 2
      PROVE  Len(ReaderSizes) >= 2 /\ ReaderSizes[1] = MinElmts /\ ReaderSizes[2] = MinElmts
  <2>1. 1 \in 1 .. SuperMin /\ 2 \in 1 .. SuperMin /\ 2 \in 0 .. SuperMin
    BY <1>2, <1>4
  <2>2. ReaderPart[1] = Repeat(1, MinElmts) /\ ReaderPart[2] = Repeat(2, MinElmts)
    <3>1. 1 - 1 = 0 /\ 2 - 1 = 1 /\ 2 - 2 = 0 /\ 2 # 1
      OBVIOUS
    <3>2. ReaderPart[1] = Repeat(Shl(1 - 1), MinElmts * Shl(IF 1 = 1 THEN 0 ELSE 1 - 2))
          /\ ReaderPart[2] = Repeat(Shl(2 - 1), MinElmts * Shl(IF 2 = 1 THEN 0 ELSE 2 - 2))
      BY <2>1 DEF ReaderPart
    <3>3. MinElmts * 1 = MinElmts
      BY <1>2
    <3> QED
      BY <3>1, <3>2, <3>3, PowersOfTwo
  <2>3. PICK a \in Seq(Nat), b \in Seq(Nat) :
          a = ReaderPart[1] /\ b = ReaderPart[2] /\ Repeats(a, 1, MinElmts) /\ Repeats(b, 2, MinElmts)
    <3>1. 1 \in Nat /\ 2 \in Nat
      OBVIOUS
    <3>2. Repeats(Repeat(1, MinElmts), 1, MinElmts) /\ Repeats(Repeat(2, MinElmts), 2, MinElmts)
      BY <1>2, <3>1, RepeatIs
    <3> QED
      BY <2>2, <3>2 DEF Repeats
  <2>4. u[2] = a \o b
    <3>1. u[0] = << >> /\ u[1] = u[1 - 1] \o ReaderPart[1] /\ u[2] = u[2 - 1] \o ReaderPart[2]
      BY <1>1, <2>1 DEF Joins
    <3>2. << >> \o a = a /\ 1 - 1 = 0 /\ 2 - 1 = 1
      OBVIOUS
    <3>3. u[1] = a
      BY <2>3, <3>1, <3>2
    <3> QED
      BY <2>3, <3>1, <3>2, <3>3
  <2>5. Begins(u[2], MinElmts, MinElmts)
    <3>1. 2 \in Nat \ {0}
      OBVIOUS
    <3> QED
      BY <1>2, <2>3, <2>4, <3>1, FirstTwo
  <2>6. Continues(u[SuperMin], u[2])
    BY <1>1, <1>2, <2>1, PartTypes, JoinsBegin
  <2>7. PICK l \in Nat : l = Len(u[2]) /\ l >= 2
    BY <2>5 DEF Begins
  <2>8. PICK m \in Nat : m = Len(u[SuperMin])
    BY <1>1, <1>3
  <2>9. l <= m /\ \A j \in 1 .. l : u[SuperMin][j] = u[2][j]
    BY <2>6, <2>7, <2>8 DEF Continues
  <2>10. 1 \in 1 .. l /\ 2 \in 1 .. l /\ m >= 2
    BY <2>7, <2>9
  <2>11. u[SuperMin][1] = u[2][1] /\ u[SuperMin][2] = u[2][2]
    BY <2>9, <2>10
  <2> QED
    BY <1>1, <2>5, <2>8, <2>10, <2>11 DEF Begins
<1> QED
  BY <1>3, <1>4

\* u[k] is the number of chunks before data block k + 1.
Counts(u) ==
  /\ u \in [0 .. Len(WriterSizes) -> Nat]
  /\ u[0] = InlineElmts
  /\ \A i \in 1 .. Len(WriterSizes) : u[i] = WriterSizes[i] + u[i - 1]

\* The function ChunksBefore takes its value from.
LEMMA ChunksBeforeIs ==
  \E u : Counts(u) /\ \A k \in 0 .. Len(WriterSizes) : ChunksBefore(k) = u[k]
<1>1. WriterSizes \in Seq(Nat) /\ InlineElmts \in Nat
  BY WriterSizesAre, ParameterAssumption
<1>2. PICK n \in Nat : n = Len(WriterSizes) /\ \A i \in 1 .. n : WriterSizes[i] \in Nat
  BY <1>1
<1> DEFINE step == [i \in 1 .. n |-> [v \in Nat |-> WriterSizes[i] + v]]
<1>3. \E u \in [0 .. n -> Nat] : IsFold(u, n, InlineElmts, step)
  <2>1. step \in [1 .. n -> [Nat -> Nat]]
    BY <1>2
  <2> HIDE DEF step
  <2> QED
    BY <1>1, <2>1, FoldExists
<1>4. PICK u \in [0 .. n -> Nat] : IsFold(u, n, InlineElmts, step)
  BY <1>3
<1>5. u[0] = InlineElmts /\ \A i \in 1 .. n : u[i] = WriterSizes[i] + u[i - 1]
  <2>1. u[0] = InlineElmts /\ \A i \in 1 .. n : u[i] = step[i][u[i - 1]]
    BY <1>4 DEF IsFold
  <2>2. ASSUME NEW i \in 1 .. n PROVE u[i] = WriterSizes[i] + u[i - 1]
    <3>1. u[i - 1] \in Nat
      OBVIOUS
    <3>2. step[i] = [v \in Nat |-> WriterSizes[i] + v]
      OBVIOUS
    <3> HIDE DEF step
    <3> QED
      BY <2>1, <3>1, <3>2
  <2> QED
    BY <2>1, <2>2
<1>6. Counts(u)
  BY <1>2, <1>5 DEF Counts
<1>7. ASSUME NEW k \in 0 .. n PROVE ChunksBefore(k) = u[k]
  <2> DEFINE Is(w) == w = [i \in 0 .. k |-> IF i = 0 THEN InlineElmts ELSE WriterSizes[i] + w[i - 1]]
             upTo == CHOOSE w : Is(w)
             w0 == [i \in 0 .. k |-> u[i]]
  <2>1. Is(w0)
    <3>1. ASSUME NEW i \in 0 .. k
          PROVE  w0[i] = IF i = 0 THEN InlineElmts ELSE WriterSizes[i] + w0[i - 1]
      <4>1. CASE i = 0
        BY <4>1, <1>5
      <4>2. CASE i # 0
        <5>1. i \in 1 .. n /\ i - 1 \in 0 .. k
          BY <4>2
        <5>2. w0[i] = u[i] /\ w0[i - 1] = u[i - 1]
          BY <5>1
        <5> HIDE DEF w0
        <5> QED
          BY <1>5, <4>2, <5>1, <5>2
      <4> QED
        BY <4>1, <4>2
    <3>2. w0 = [i \in 0 .. k |-> w0[i]]
      OBVIOUS
    <3> HIDE DEF w0
    <3> QED
      BY <3>1, <3>2, Zenon
  <2>2. Is(upTo)
    BY <2>1, Zenon
  <2>3. ChunksBefore(k) = upTo[k]
    BY Zenon DEF ChunksBefore
  <2> HIDE DEF upTo, w0
  <2>4. upTo[0] = InlineElmts
    BY <2>2
  <2>5. ASSUME NEW i \in 1 .. k PROVE upTo[i] = WriterSizes[i] + upTo[i - 1]
    <3>1. i \in 0 .. k /\ i # 0
      OBVIOUS
    <3> QED
      BY <2>2, <3>1, Zenon
  <2> DEFINE S == {i \in 0 .. k : upTo[i] = u[i]}
  <2>6. 0 \in S
    BY <1>5, <2>4
  <2>7. ASSUME NEW i \in 0 .. k - 1, i \in S PROVE i + 1 \in S
    <3>1. i + 1 \in 1 .. k /\ (i + 1) - 1 = i /\ i + 1 \in 1 .. n
      OBVIOUS
    <3> QED
      BY <1>5, <2>5, <2>7, <3>1
  <2> HIDE DEF S
  <2>8. 0 .. k \subseteq S
    <3>1. k \in Nat
      OBVIOUS
    <3> QED
      BY <2>6, <2>7, <3>1, RangeInduction
  <2> QED
    BY <2>3, <2>8 DEF S
<1> QED
  BY <1>2, <1>6, <1>7

\* As long as there are chunks, writer and reader agree where data blocks begin.
LEMMA ChunksBeforeAre ==
  /\ \A k \in 0 .. Len(WriterSizes) : ChunksBefore(k) \in Nat
  /\ SuperMin >= 2 =>
       /\ ChunksBefore(0) = InlineElmts
       /\ ChunksBefore(1) = InlineElmts + MinElmts
       /\ \A k \in 2 .. Len(WriterSizes) : ChunksBefore(k) >= InlineElmts + 2 * MinElmts
<1>1. PICK u : Counts(u) /\ \A k \in 0 .. Len(WriterSizes) : ChunksBefore(k) = u[k]
  BY ChunksBeforeIs
<1>2. WriterSizes \in Seq(Nat) /\ InlineElmts \in Nat /\ MinElmts \in Nat
  BY WriterSizesAre, ParameterAssumption
<1>3. PICK n \in Nat : n = Len(WriterSizes) /\ \A i \in 1 .. n : WriterSizes[i] \in Nat
  BY <1>2
<1>4. u \in [0 .. n -> Nat] /\ u[0] = InlineElmts /\ \A i \in 1 .. n : u[i] = WriterSizes[i] + u[i - 1]
  BY <1>1, <1>3 DEF Counts
<1>5. ASSUME SuperMin >= 2
      PROVE  /\ ChunksBefore(0) = InlineElmts
             /\ ChunksBefore(1) = InlineElmts + MinElmts
             /\ \A k \in 2 .. n : ChunksBefore(k) >= InlineElmts + 2 * MinElmts
  <2>1. n >= 2 /\ WriterSizes[1] = MinElmts /\ WriterSizes[2] = MinElmts * 2
    BY <1>3, <1>5, WriterSizesAre
  <2>2. 0 \in 0 .. n /\ 1 \in 1 .. n /\ 2 \in 1 .. n /\ 1 - 1 = 0 /\ 2 - 1 = 1
    BY <2>1
  <2>3. u[1] = MinElmts + InlineElmts /\ u[2] = MinElmts * 2 + u[1]
    BY <1>4, <2>1, <2>2
  <2> DEFINE S == {k \in 0 .. n - 2 : u[2 + k] >= InlineElmts + 2 * MinElmts}
  <2>4. 0 \in S
    BY <1>2, <2>1, <2>3
  <2>5. ASSUME NEW k \in 0 .. (n - 2) - 1, k \in S PROVE k + 1 \in S
    <3>1. PICK i \in 1 .. n : i = 2 + (k + 1) /\ i - 1 = 2 + k /\ i - 1 \in 0 .. n
      OBVIOUS
    <3>2. PICK a \in Nat, b \in Nat, c \in Nat : a = u[i] /\ b = u[i - 1] /\ c = WriterSizes[i]
      BY <1>3, <1>4, <3>1
    <3>3. a = c + b /\ b >= InlineElmts + 2 * MinElmts
      BY <1>4, <2>5, <3>1, <3>2
    <3>4. a >= InlineElmts + 2 * MinElmts /\ k + 1 \in 0 .. n - 2
      BY <1>2, <3>3
    <3> QED
      BY <3>1, <3>2, <3>4
  <2> HIDE DEF S
  <2>6. 0 .. n - 2 \subseteq S
    <3>1. n - 2 \in Nat
      BY <2>1
    <3> QED
      BY <2>4, <2>5, <3>1, RangeInduction
  <2>7. ASSUME NEW k \in 2 .. n PROVE u[k] >= InlineElmts + 2 * MinElmts
    <3>1. k - 2 \in S /\ 2 + (k - 2) = k
      BY <2>6
    <3> QED
      BY <3>1 DEF S
  <2>8. ChunksBefore(0) = u[0] /\ ChunksBefore(1) = u[1] /\ \A k \in 2 .. n : ChunksBefore(k) = u[k]
    BY <1>1, <1>3, <2>2
  <2>9. MinElmts + InlineElmts = InlineElmts + MinElmts
    BY <1>2
  <2> QED
    BY <1>4, <2>3, <2>7, <2>8, <2>9
<1>6. \A k \in 0 .. n : ChunksBefore(k) \in Nat
  BY <1>1, <1>3, <1>4
<1> QED
  BY <1>3, <1>5, <1>6

\* Where the reader's first two data blocks begin.
LEMMA FirstOfIs ==
  SuperMin >= 2 => FirstOf(1) = InlineElmts /\ FirstOf(2) = InlineElmts + MinElmts
<1> SUFFICES ASSUME SuperMin >= 2
             PROVE  FirstOf(1) = InlineElmts /\ FirstOf(2) = InlineElmts + MinElmts
  OBVIOUS
<1>1. ReaderSizes[1] = MinElmts /\ InlineElmts \in Nat /\ MinElmts \in Nat
  BY ReaderSizesAre, ParameterAssumption
<1> DEFINE Is(b, u) == u = [i \in 1 .. b |-> IF i = 1 THEN InlineElmts ELSE ReaderSizes[i - 1] + u[i - 1]]
           upTo(b) == CHOOSE u : Is(b, u)
<1>2. \A b : FirstOf(b) = upTo(b)[b]
  BY Zenon DEF FirstOf
<1>3. Is(1, [i \in 1 .. 1 |-> InlineElmts])
  OBVIOUS
<1>4. Is(2, [i \in 1 .. 2 |-> IF i = 1 THEN InlineElmts ELSE MinElmts + InlineElmts])
  <2> DEFINE w == [i \in 1 .. 2 |-> IF i = 1 THEN InlineElmts ELSE MinElmts + InlineElmts]
  <2>1. w[1] = InlineElmts /\ w[2] = MinElmts + InlineElmts /\ 2 - 1 = 1 /\ 2 # 1
    OBVIOUS
  <2>2. w = [i \in 1 .. 2 |-> w[i]] /\ \A i \in 1 .. 2 : i = 1 \/ i = 2
    OBVIOUS
  <2> HIDE DEF w
  <2>3. \A i \in 1 .. 2 : w[i] = IF i = 1 THEN InlineElmts ELSE ReaderSizes[i - 1] + w[i - 1]
    BY <1>1, <2>1, <2>2
  <2>4. Is(2, w)
    BY <2>2, <2>3, Zenon
  <2> QED
    BY <2>4 DEF w
<1>5. Is(1, upTo(1)) /\ Is(2, upTo(2))
  BY <1>3, <1>4, Zenon
<1> DEFINE a == upTo(1)
           b == upTo(2)
<1>6. Is(1, a) /\ Is(2, b)
  BY <1>5
<1> HIDE DEF a, b
<1>7. a[1] = InlineElmts
  BY <1>6
<1>8. b[1] = InlineElmts
  BY <1>6
<1>9. b[2] = ReaderSizes[2 - 1] + b[2 - 1]
  <2>1. 2 \in 1 .. 2 /\ 2 # 1
    OBVIOUS
  <2> QED
    BY <1>6, <2>1, Zenon
<1>10. b[2] = InlineElmts + MinElmts
  <2>1. 2 - 1 = 1
    OBVIOUS
  <2> QED
    BY <1>1, <1>8, <1>9, <2>1
<1> QED
  BY <1>2, <1>7, <1>10 DEF a, b
-------------------------------------------------------------------------------
(* The layout of the buffer.                                               *)

IsFunction(f) == f = [x \in DOMAIN f |-> f[x]]

At(bs, a, kind) == a \in DOMAIN bs /\ bs[a].kind = kind

\* The blocks bs fill a buffer of l bytes without overlapping.
Space(bs, l) ==
  /\ IsFunction(bs)
  /\ DOMAIN bs \subseteq Nat
  /\ \A a \in DOMAIN bs : /\ BlockLen(bs[a]) \in Nat \ {0}
                          /\ base <= a
                          /\ a + BlockLen(bs[a]) <= base + l
  /\ \A a, b \in DOMAIN bs : a < b => a + BlockLen(bs[a]) <= b

\* What block b refers to is where it should be among the blocks bs.
Resolves(bs, b) ==
  /\ b.kind = "FAHD" => At(bs, b.block, "FADB")
  /\ b.kind = "EAHD" => At(bs, b.block, "EAIB")
  /\ b.kind = "EAIB" => \A p \in Defined(b.pointers) : At(bs, p, "EADB")
  /\ \A e \in ElementsOf(b) : At(bs, e.address, "chunk")

\* Index blocks have all their pointer slots from the start.
IndexBlockShape(b) ==
  b.kind = "EAIB" =>
    \E e, p : /\ b = [kind |-> "EAIB", elements |-> e, pointers |-> p]
              /\ p \in [1 .. Pointers -> Nat \cup {Undefined}]

Types ==
  /\ ds \in Datasets
  /\ base \in Nat
  /\ len \in Nat
  /\ cursor \in Nat
  /\ dblk \in Nat
  /\ dblk <= Len(WriterSizes)
  /\ written \in Seq([address : Nat, size : Nat \ {0}])

Roots ==
  CASE layout.type = "none" -> TRUE
    [] layout.type = "single" -> IsAt(layout.address, "chunk")
    [] layout.type = "fixed" -> IsAt(layout.address, "FAHD")
    [] layout.type = "extensible" -> IsAt(layout.address, "EAHD")

\* The inductive invariant: while data blocks are added, the address predicted
\* for the next one is the end of the buffer.
IInv ==
  /\ Types
  /\ Space(blocks, len)
  /\ \A i \in 1 .. Len(written) : IsAt(written[i].address, "chunk")
  /\ \A a \in DOMAIN blocks : Resolves(blocks, blocks[a]) /\ IndexBlockShape(blocks[a])
  /\ Roots
  /\ phase = "chunks" => layout.type = "none"
  /\ phase = "data blocks" => /\ layout.type = "extensible"
                              /\ layout.address \in Nat
                              /\ cursor = base + len
                              /\ IsAt(IndexBlock, "EAIB")
-------------------------------------------------------------------------------
\* Rounding up to a cache line yields a natural number, and never less.
LEMMA AlignUp == ASSUME NEW n \in Nat PROVE Align(n) \in Nat /\ Align(n) >= n
<1> DEFINE q == (n + CacheLine - 1) \div CacheLine
<1>1. CacheLine \in Nat /\ CacheLine > 0
  BY ParameterAssumption
<1>2. q \in Nat
  BY <1>1, SMT
<1>3. n + CacheLine - 1 = (q * CacheLine) + ((n + CacheLine - 1) % CacheLine)
  BY <1>1, SMT
<1>4. (n + CacheLine - 1) % CacheLine \in 0 .. CacheLine - 1
  BY <1>1, SMT
<1>5. q * CacheLine \in Nat
  BY <1>1, <1>2, SMT
<1> QED
  BY <1>1, <1>3, <1>4, <1>5, SMT DEF Align, DivCeil

\* A block appended behind the others leaves the buffer without overlaps.
LEMMA AppendBlock ==
  ASSUME NEW bs, NEW l \in Nat, NEW at \in Nat, NEW b,
         base \in Nat, Space(bs, l), at >= base + l, BlockLen(b) \in Nat \ {0}
  PROVE  /\ at \notin DOMAIN bs
         /\ Space(With(bs, at, b), at - base + BlockLen(b))
<1>1. at \notin DOMAIN bs
  BY DEF Space
<1> DEFINE w == With(bs, at, b)
<1>2. DOMAIN w = DOMAIN bs \cup {at} /\ IsFunction(w)
  BY DEF With, IsFunction
<1>3. w[at] = b /\ \A a \in DOMAIN bs : w[a] = bs[a]
  BY <1>1 DEF With
<1> HIDE DEF w
<1>4. DOMAIN w \subseteq Nat
  BY <1>2 DEF Space
<1>5. ASSUME NEW a \in DOMAIN w
      PROVE  /\ BlockLen(w[a]) \in Nat \ {0}
             /\ base <= a
             /\ a + BlockLen(w[a]) <= base + (at - base + BlockLen(b))
  <2>1. CASE a = at
    BY <2>1, <1>3
  <2>2. CASE a \in DOMAIN bs
    BY <2>2, <1>3 DEF Space
  <2> QED
    BY <2>1, <2>2, <1>2
<1>6. ASSUME NEW a \in DOMAIN w, NEW c \in DOMAIN w, a < c
      PROVE  a + BlockLen(w[a]) <= c
  <2>1. CASE a = at
    <3>1. c \in DOMAIN bs
      BY <2>1, <1>2, <1>6
    <3> QED
      BY <3>1, <2>1, <1>6 DEF Space
  <2>2. CASE a \in DOMAIN bs /\ c = at
    BY <2>2, <1>3 DEF Space
  <2>3. CASE a \in DOMAIN bs /\ c \in DOMAIN bs
    BY <2>3, <1>3, <1>6 DEF Space
  <2> QED
    BY <2>1, <2>2, <2>3, <1>2
<1>7. Space(w, at - base + BlockLen(b))
  BY <1>2, <1>4, <1>5, <1>6 DEF Space
<1> QED
  BY <1>1, <1>7 DEF w

\* Replacing a block by one of the same length keeps the layout.
LEMMA ReplaceBlock ==
  ASSUME NEW bs, NEW l \in Nat, NEW at \in DOMAIN bs, NEW b,
         base \in Nat, Space(bs, l), BlockLen(b) = BlockLen(bs[at])
  PROVE  Space([bs EXCEPT ![at] = b], l)
<1> DEFINE w == [bs EXCEPT ![at] = b]
<1>1. DOMAIN w = DOMAIN bs /\ IsFunction(w)
  BY DEF Space, IsFunction
<1>2. \A a \in DOMAIN bs : BlockLen(w[a]) = BlockLen(bs[a])
  <2>1. \A a \in DOMAIN bs : w[a] = IF a = at THEN b ELSE bs[a]
    BY DEF Space, IsFunction
  <2> QED
    BY <2>1
<1> HIDE DEF w
<1> QED
  <2>1. Space(w, l)
    BY <1>1, <1>2 DEF Space
  <2> QED
    BY <2>1 DEF w

\* What resolves among some blocks resolves among more of them.
LEMMA ResolvesMore ==
  ASSUME NEW bs, NEW cs, NEW b, Resolves(bs, b),
         \A a, kind : At(bs, a, kind) => At(cs, a, kind)
  PROVE  Resolves(cs, b)
BY DEF Resolves

LEMMA AppendedAt ==
  ASSUME NEW bs, NEW at, NEW b, at \notin DOMAIN bs
  PROVE  /\ DOMAIN With(bs, at, b) = DOMAIN bs \cup {at}
         /\ With(bs, at, b)[at] = b
         /\ \A a \in DOMAIN bs : With(bs, at, b)[a] = bs[a]
         /\ \A a, kind : At(bs, a, kind) => At(With(bs, at, b), a, kind)
BY DEF With, At

\* Lengths depend on the dataset only, which never changes.
LEMMA LengthsStable ==
  ASSUME ds' = ds PROVE \A b : BlockLen(b)' = BlockLen(b)
BY DEF BlockLen

LEMMA SpaceStable ==
  ASSUME ds' = ds, base' = base, NEW bs, NEW l, Space(bs, l)
  PROVE  Space(bs, l)'
<1>1. \A b : BlockLen(b)' = BlockLen(b)
  BY LengthsStable
<1> QED
  BY <1>1 DEF Space, IsFunction

\* The index elements built from the chunks placed name those chunks.
LEMMA ElementsName ==
  ASSUME NEW from \in Nat, NEW n \in Nat, NEW bs, Types,
         \A i \in 1 .. Len(written) : At(bs, written[i].address, "chunk")
  PROVE  /\ Len(Elements(from, n)) = n
         /\ \A e \in Defined(Elements(from, n)) : At(bs, e.address, "chunk")
<1>1. Len(Elements(from, n)) = n /\ DOMAIN Elements(from, n) = 1 .. n
  BY DEF Elements
<1>2. ASSUME NEW i \in 1 .. n, Elements(from, n)[i] # Undefined
      PROVE  At(bs, Elements(from, n)[i].address, "chunk")
  <2>1. from + i <= Len(written) /\ from + i \in 1 .. Len(written)
    BY <1>2 DEF Elements, Types
  <2>2. Elements(from, n)[i].address = written[from + i].address
    BY <2>1 DEF Elements, Element
  <2> QED
    BY <2>1, <2>2
<1> QED
  BY <1>1, <1>2 DEF Defined
-------------------------------------------------------------------------------
LEMMA InitIInv == Init => IInv
<1> SUFFICES ASSUME Init PROVE IInv
  OBVIOUS
<1>1. Types
  <2>1. Len(WriterSizes) \in Nat
    BY WriterSizesAre
  <2> QED
    BY <2>1, BaseAssumption DEF Init, Types
<1>2. Space(blocks, len)
  BY DEF Init, Space, IsFunction
<1> QED
  BY <1>1, <1>2 DEF Init, IInv, Roots

\* Steps that leave the file alone.
LEMMA ReadingIInv ==
  ASSUME IInv, UNCHANGED <<ds, base, len, blocks, written, dblk, cursor, layout>>,
         phase' \notin {"chunks", "data blocks"} \/ phase' = phase
  PROVE  IInv'
<1>1. Space(blocks, len)'
  BY SpaceStable DEF IInv
<1>2. Types' /\ Roots'
  BY DEF IInv, Types, Roots, IsAt
<1>3. \A a \in DOMAIN blocks : Resolves(blocks, blocks[a])' /\ IndexBlockShape(blocks[a])'
  BY DEF IInv
<1> QED
  BY <1>1, <1>2, <1>3 DEF IInv, IsAt, IndexBlock
\* A chunk.
LEMMA PlaceChunkIInv == ASSUME IInv, PlaceChunk PROVE IInv'
<1> DEFINE k == Len(written)
           size == IF ds.filtered THEN ds.stored[k % 2] ELSE RawSize(ds)
           at == base + Align(len)
           block == [kind |-> "chunk", size |-> size, data |-> ChunkData(k)]
<1>1. Types /\ Space(blocks, len) /\ k \in Nat
  <2>1. Types /\ Space(blocks, len)
    BY DEF IInv
  <2>2. written \in Seq([address : Nat, size : Nat \ {0}])
    BY <2>1 DEF Types
  <2> QED
    BY <2>1, <2>2
<1>2. size \in Nat \ {0}
  <2>1. k % 2 \in {0, 1}
    BY <1>1
  <2>2. ds.stored \in [{0, 1} -> Nat \ {0}] /\ RawSize(ds) \in Nat \ {0}
    BY <1>1, DatasetAssumption, DatasetSizes DEF Types
  <2> QED
    BY <2>1, <2>2
<1>3. Align(len) \in Nat /\ Align(len) >= len /\ base \in Nat /\ len \in Nat
  BY <1>1, AlignUp DEF Types
<1>4. BlockLen(block) = size
  BY DEF BlockLen
<1>5. blocks' = With(blocks, at, block) /\ len' = Align(len) + size
      /\ written' = Append(written, [address |-> at, size |-> size])
  BY DEF PlaceChunk, ChunkAddress
<1>6. block.kind = "chunk"
  OBVIOUS
<1> HIDE DEF block, size, k
<1>7. at \in Nat /\ at >= base + len /\ at - base + BlockLen(block) = len'
  BY <1>2, <1>3, <1>4, <1>5
<1>8. at \notin DOMAIN blocks /\ Space(blocks', len')
  BY <1>1, <1>2, <1>3, <1>4, <1>5, <1>7, AppendBlock
<1> HIDE DEF at
<1>9. /\ DOMAIN blocks' = DOMAIN blocks \cup {at}
      /\ blocks'[at] = block
      /\ \A a \in DOMAIN blocks : blocks'[a] = blocks[a]
      /\ \A a, kind : At(blocks, a, kind) => At(blocks', a, kind)
  <2> DEFINE w == With(blocks, at, block)
  <2>1. /\ DOMAIN w = DOMAIN blocks \cup {at}
        /\ w[at] = block
        /\ \A a \in DOMAIN blocks : w[a] = blocks[a]
        /\ \A a, kind : At(blocks, a, kind) => At(w, a, kind)
    BY <1>8, AppendedAt
  <2> HIDE DEF w
  <2>2. blocks' = w
    BY <1>5 DEF w
  <2> QED
    BY <2>1, <2>2
<1>10. ds' = ds /\ base' = base /\ cursor' = cursor /\ dblk' = dblk
       /\ layout' = layout /\ phase = "chunks" /\ phase' = phase
  BY DEF PlaceChunk
<1>11. Types'
  <2>1. written' \in Seq([address : Nat, size : Nat \ {0}])
    BY <1>1, <1>2, <1>5, <1>7 DEF Types
  <2>2. len' \in Nat
    BY <1>2, <1>3, <1>5
  <2> QED
    BY <1>1, <1>10, <2>1, <2>2 DEF Types
<1>12. Space(blocks, len)'
  <2>1. \A b : BlockLen(b)' = BlockLen(b)
    BY <1>10, LengthsStable
  <2> QED
    BY <1>8, <1>10, <2>1 DEF Space
<1>13. (\A i \in 1 .. Len(written) : IsAt(written[i].address, "chunk"))'
  <2> SUFFICES ASSUME NEW i \in 1 .. Len(written')
               PROVE  At(blocks', written'[i].address, "chunk")
    BY DEF IsAt, At
  <2>1. CASE i = Len(written) + 1
    <3>1. written'[i].address = at
      BY <2>1, <1>1, <1>5 DEF Types
    <3> QED
      BY <3>1, <1>6, <1>9 DEF At
  <2>2. CASE i \in 1 .. Len(written)
    <3>1. written'[i] = written[i]
      BY <2>2, <1>1, <1>5 DEF Types
    <3>2. At(blocks, written[i].address, "chunk")
      BY <2>2 DEF IInv, IsAt, At
    <3> QED
      BY <3>1, <3>2, <1>9
  <2> QED
    BY <2>1, <2>2, <1>1, <1>5 DEF Types
<1>14. ASSUME NEW a \in DOMAIN blocks'
       PROVE  Resolves(blocks', blocks'[a]) /\ IndexBlockShape(blocks'[a])
  <2>1. CASE a = at
    BY <2>1, <1>6, <1>9 DEF Resolves, IndexBlockShape, ElementsOf
  <2>2. CASE a \in DOMAIN blocks
    <3>1. Resolves(blocks, blocks[a]) /\ IndexBlockShape(blocks[a])
      BY <2>2 DEF IInv
    <3> QED
      BY <2>2, <3>1, <1>9, ResolvesMore
  <2> QED
    BY <2>1, <2>2, <1>9
<1>15. layout' = layout /\ layout.type = "none"
  BY <1>10 DEF IInv
<1> QED
  BY <1>10, <1>11, <1>12, <1>13, <1>14, <1>15 DEF IInv, Roots

\* The blocks with b and then c put at address at.
WithTwo(bs, at, b, c) == With(With(bs, at, b), at + BlockLen(b), c)

\* Two blocks, one behind the other.
LEMMA AppendTwo ==
  ASSUME NEW bs, NEW l \in Nat, NEW at \in Nat, NEW b, NEW c,
         base \in Nat, Space(bs, l), at >= base + l,
         BlockLen(b) \in Nat \ {0}, BlockLen(c) \in Nat \ {0}
  PROVE  /\ DOMAIN WithTwo(bs, at, b, c) = DOMAIN bs \cup {at, at + BlockLen(b)}
         /\ WithTwo(bs, at, b, c)[at] = b
         /\ WithTwo(bs, at, b, c)[at + BlockLen(b)] = c
         /\ \A a \in DOMAIN bs : WithTwo(bs, at, b, c)[a] = bs[a]
         /\ \A a, kind : At(bs, a, kind) => At(WithTwo(bs, at, b, c), a, kind)
         /\ Space(WithTwo(bs, at, b, c), at - base + BlockLen(b) + BlockLen(c))
<1> DEFINE w == WithTwo(bs, at, b, c)
<1> DEFINE v == With(bs, at, b)
           at2 == at + BlockLen(b)
           l2 == at - base + BlockLen(b)
<1>1. at \notin DOMAIN bs /\ Space(v, l2)
  BY AppendBlock
<1>2. /\ DOMAIN v = DOMAIN bs \cup {at}
      /\ v[at] = b
      /\ \A a \in DOMAIN bs : v[a] = bs[a]
      /\ \A a, kind : At(bs, a, kind) => At(v, a, kind)
  BY <1>1, AppendedAt
<1>3. at2 \in Nat /\ l2 \in Nat /\ at2 >= base + l2
      /\ at2 - base + BlockLen(c) = at - base + BlockLen(b) + BlockLen(c)
  OBVIOUS
<1>4. w = With(v, at2, c)
  BY DEF WithTwo
<1> HIDE DEF v, l2, w
<1>5. at2 \notin DOMAIN v /\ Space(With(v, at2, c), at2 - base + BlockLen(c))
  BY <1>1, <1>3, AppendBlock
<1>6. /\ DOMAIN w = DOMAIN v \cup {at2}
      /\ w[at2] = c
      /\ \A a \in DOMAIN v : w[a] = v[a]
      /\ \A a, kind : At(v, a, kind) => At(w, a, kind)
  <2> DEFINE u == With(v, at2, c)
  <2>1. at2 \notin DOMAIN v
    BY <1>5
  <2> HIDE DEF at2
  <2>2. /\ DOMAIN u = DOMAIN v \cup {at2}
        /\ u[at2] = c
        /\ \A a \in DOMAIN v : u[a] = v[a]
        /\ \A a, kind : At(v, a, kind) => At(u, a, kind)
    BY <2>1, AppendedAt
  <2>3. w = u
    BY <1>4
  <2> HIDE DEF u
  <2> QED
    BY <2>2, <2>3
<1>7. Space(w, at - base + BlockLen(b) + BlockLen(c))
  BY <1>3, <1>4, <1>5
<1> HIDE DEF at2
<1>8. at2 = at + BlockLen(b)
  BY DEF at2
<1> QED
  BY <1>2, <1>6, <1>7, <1>8 DEF w

\* A longer buffer still holds its blocks.
LEMMA SpaceGrows ==
  ASSUME NEW bs, NEW l \in Nat, NEW m \in Nat, l <= m, base \in Nat, Space(bs, l)
  PROVE  Space(bs, m)
BY DEF Space

LEMMA PlaceSingleIInv == ASSUME IInv, PlaceSingle PROVE IInv'
<1>1. Types /\ Space(blocks, len)
  BY DEF IInv
<1>2. Align(len) \in Nat /\ Align(len) >= len /\ base \in Nat /\ len \in Nat
  BY <1>1, AlignUp DEF Types
<1>3. /\ UNCHANGED <<ds, base, blocks, written, dblk, cursor>>
      /\ len' = Align(len)
      /\ phase' = "written"
      /\ layout' = [type |-> "single", address |-> written[1].address, size |-> written[1].size]
      /\ Len(written) = 1
  BY DEF PlaceSingle, ChunksPlaced
<1>4. Types'
  BY <1>1, <1>2, <1>3 DEF Types
<1>5. Space(blocks, len)'
  <2>1. Space(blocks, Align(len))
    BY <1>1, <1>2, SpaceGrows
  <2>2. \A b : BlockLen(b)' = BlockLen(b)
    BY <1>3, LengthsStable
  <2> QED
    BY <2>1, <2>2, <1>3 DEF Space
<1>6. IsAt(written[1].address, "chunk")
  <2>1. \A i \in 1 .. Len(written) : IsAt(written[i].address, "chunk")
    BY DEF IInv
  <2> QED
    BY <1>3, <2>1
<1>7. Roots'
  BY <1>3, <1>6 DEF Roots, IsAt
<1>8. \A a \in DOMAIN blocks : Resolves(blocks, blocks[a])' /\ IndexBlockShape(blocks[a])'
  BY <1>3 DEF IInv
<1> QED
  BY <1>3, <1>4, <1>5, <1>7, <1>8 DEF IInv, IsAt

\* What placing the two blocks of an index keeps, whatever they are.
LEMMA PlaceTwo ==
  ASSUME IInv, NEW b, NEW c,
         BlockLen(b) \in Nat \ {0}, BlockLen(c) \in Nat \ {0},
         UNCHANGED <<ds, base, written, dblk>>, cursor' \in Nat,
         blocks' = With(With(blocks, base + Align(len), b), base + Align(len) + BlockLen(b), c),
         len' = Align(len) + BlockLen(b) + BlockLen(c)
  PROVE  /\ Types'
         /\ Space(blocks, len)'
         /\ (\A i \in 1 .. Len(written) : IsAt(written[i].address, "chunk"))'
         /\ DOMAIN blocks' = DOMAIN blocks \cup {base + Align(len), base + Align(len) + BlockLen(b)}
         /\ blocks'[base + Align(len)] = b
         /\ blocks'[base + Align(len) + BlockLen(b)] = c
         /\ \A a \in DOMAIN blocks : Resolves(blocks', blocks'[a]) /\ IndexBlockShape(blocks'[a])
<1> DEFINE at == base + Align(len)
<1>1. Types /\ Space(blocks, len)
  BY DEF IInv
<1>2. Align(len) \in Nat /\ Align(len) >= len /\ base \in Nat /\ len \in Nat
  BY <1>1, AlignUp DEF Types
<1>3. at \in Nat /\ at >= base + len /\ at - base + BlockLen(b) + BlockLen(c) = len'
  BY <1>2
<1> HIDE DEF at
<1>4. blocks' = With(With(blocks, at, b), at + BlockLen(b), c)
  BY DEF at
<1>5. /\ DOMAIN blocks' = DOMAIN blocks \cup {at, at + BlockLen(b)}
      /\ blocks'[at] = b
      /\ blocks'[at + BlockLen(b)] = c
      /\ \A a \in DOMAIN blocks : blocks'[a] = blocks[a]
      /\ \A a, kind : At(blocks, a, kind) => At(blocks', a, kind)
      /\ Space(blocks', len')
  <2> DEFINE w == WithTwo(blocks, at, b, c)
  <2>1. /\ DOMAIN w = DOMAIN blocks \cup {at, at + BlockLen(b)}
        /\ w[at] = b
        /\ w[at + BlockLen(b)] = c
        /\ \A a \in DOMAIN blocks : w[a] = blocks[a]
        /\ \A a, kind : At(blocks, a, kind) => At(w, a, kind)
        /\ Space(w, at - base + BlockLen(b) + BlockLen(c))
    BY <1>1, <1>2, <1>3, AppendTwo
  <2>2. blocks' = w
    BY <1>4 DEF WithTwo
  <2> HIDE DEF w
  <2> QED
    BY <2>1, <2>2, <1>3
<1>6. Types'
  <2>1. len' \in Nat
    BY <1>2
  <2> QED
    BY <1>1, <2>1 DEF Types
<1>7. Space(blocks, len)'
  <2>1. \A x : BlockLen(x)' = BlockLen(x)
    BY LengthsStable
  <2> QED
    BY <1>5, <2>1 DEF Space
<1>8. (\A i \in 1 .. Len(written) : IsAt(written[i].address, "chunk"))'
  <2>1. \A i \in 1 .. Len(written) : At(blocks, written[i].address, "chunk")
    BY DEF IInv, IsAt, At
  <2>2. \A i \in 1 .. Len(written) : At(blocks', written[i].address, "chunk")
    BY <2>1, <1>5
  <2> QED
    BY <2>2 DEF IsAt, At
<1>9. ASSUME NEW a \in DOMAIN blocks
      PROVE  Resolves(blocks', blocks'[a]) /\ IndexBlockShape(blocks'[a])
  <2>1. Resolves(blocks, blocks[a]) /\ IndexBlockShape(blocks[a])
    BY DEF IInv
  <2> QED
    BY <2>1, <1>5, ResolvesMore
<1> QED
  BY <1>5, <1>6, <1>7, <1>8, <1>9 DEF at

\* A fixed array.
LEMMA PlaceFixedIInv == ASSUME IInv, PlaceFixed PROVE IInv'
<1> DEFINE n == TotalChunks(ds)
           at == base + Align(len)
           header == [kind |-> "FAHD", bits |-> PageBits, count |-> n,
                      block |-> at + FixedHeaderSize]
           block == [kind |-> "FADB", elements |-> Elements(0, n)]
<1>1. Types /\ \A i \in 1 .. Len(written) : At(blocks, written[i].address, "chunk")
  BY DEF IInv, IsAt, At
<1>2. n \in Nat /\ ElementSize(ds) \in Nat
  BY <1>1, DatasetSizes DEF Types
<1>3. Len(Elements(0, n)) = n
  BY <1>1, <1>2, ElementsName
<1>4. BlockLen(header) = FixedHeaderSize /\ FixedHeaderSize = 28
  BY DEF BlockLen, FixedHeaderSize
<1>5. BlockLen(block) \in Nat \ {0}
  <2>1. BlockLen(block) = 14 + Len(Elements(0, n)) * ElementSize(ds) + 4
    BY DEF BlockLen
  <2>2. n * ElementSize(ds) \in Nat
    BY <1>2
  <2> HIDE DEF n, block
  <2> QED
    BY <2>1, <2>2, <1>3
<1>6. /\ UNCHANGED <<ds, base, written, dblk, cursor>>
      /\ blocks' = With(With(blocks, at, header), at + BlockLen(header), block)
      /\ len' = Align(len) + BlockLen(header) + BlockLen(block)
      /\ layout' = [type |-> "fixed", address |-> at]
      /\ phase' = "written"
  BY DEF PlaceFixed
<1>7. /\ header.kind = "FAHD" /\ header.block = at + BlockLen(header)
      /\ block.kind = "FADB" /\ block.elements = Elements(0, n)
  BY <1>4
<1> HIDE DEF header, block, n
<1>8. cursor' \in Nat /\ BlockLen(header) \in Nat \ {0}
  BY <1>1, <1>4, <1>6 DEF Types
<1>9. /\ Types'
      /\ Space(blocks, len)'
      /\ (\A i \in 1 .. Len(written) : IsAt(written[i].address, "chunk"))'
      /\ DOMAIN blocks' = DOMAIN blocks \cup {at, at + BlockLen(header)}
      /\ blocks'[at] = header
      /\ blocks'[at + BlockLen(header)] = block
      /\ \A a \in DOMAIN blocks : Resolves(blocks', blocks'[a]) /\ IndexBlockShape(blocks'[a])
  BY <1>5, <1>6, <1>8, PlaceTwo
<1> HIDE DEF at
<1>10. \A i \in 1 .. Len(written) : At(blocks', written[i].address, "chunk")
  BY <1>6, <1>9 DEF IsAt, At
<1>11. \A e \in Defined(Elements(0, n)) : At(blocks', e.address, "chunk")
  BY <1>1, <1>2, <1>10, ElementsName
<1>12. Resolves(blocks', header) /\ IndexBlockShape(header)
  BY <1>7, <1>9 DEF Resolves, At, ElementsOf, IndexBlockShape
<1>13. Resolves(blocks', block) /\ IndexBlockShape(block)
  BY <1>7, <1>11 DEF Resolves, ElementsOf, IndexBlockShape
<1>14. \A a \in DOMAIN blocks' : Resolves(blocks', blocks'[a]) /\ IndexBlockShape(blocks'[a])
  BY <1>9, <1>12, <1>13
<1>15. Roots'
  BY <1>6, <1>7, <1>9 DEF Roots, IsAt
<1> QED
  BY <1>6, <1>9, <1>14, <1>15 DEF IInv

\* An extensible array, up to its data blocks: the predicted size of the index
\* block is its size.
LEMMA PlaceExtensibleIInv == ASSUME IInv, PlaceExtensible PROVE IInv'
<1> DEFINE n == TotalChunks(ds)
           at == base + Align(len)
           es == Elements(0, InlineElmts)
           ps == [i \in 1 .. Pointers |-> Undefined]
           header == [kind |-> "EAHD", count |-> n, block |-> at + ExtensibleHeaderSize]
           block == [kind |-> "EAIB", elements |-> es, pointers |-> ps]
<1>1. Types /\ \A i \in 1 .. Len(written) : At(blocks, written[i].address, "chunk")
  BY DEF IInv, IsAt, At
<1>2. /\ ElementSize(ds) \in Nat /\ InlineElmts \in Nat
      /\ Len(WriterSizes) \in Nat /\ SuperPointers \in Nat /\ Pointers \in Nat
  BY <1>1, DatasetSizes, WriterSizesAre, PointersAssumption, ParameterAssumption DEF Types, Pointers
<1>3. Len(es) = InlineElmts
  BY <1>1, <1>2, ElementsName
<1>4. Len(ps) = Pointers /\ ps \in [1 .. Pointers -> Nat \cup {Undefined}] /\ Defined(ps) = {}
  BY <1>2 DEF Defined
<1>5. BlockLen(header) = ExtensibleHeaderSize /\ ExtensibleHeaderSize = 72
  BY DEF BlockLen, ExtensibleHeaderSize
<1>6. BlockLen(block) \in Nat \ {0} /\ BlockLen(block) = IndexBlockSize
  <2>1. BlockLen(block) = 14 + Len(es) * ElementSize(ds) + Len(ps) * 8 + 4
    BY DEF BlockLen
  <2>2. InlineElmts * ElementSize(ds) \in Nat
    BY <1>2
  <2> HIDE DEF block, es, ps
  <2>3. IndexBlockSize = 14 + InlineElmts * ElementSize(ds) + Pointers * 8 + 4
    BY <1>2, <2>2 DEF IndexBlockSize, Pointers
  <2> QED
    BY <1>2, <1>3, <1>4, <2>1, <2>2, <2>3
<1>7. /\ UNCHANGED <<ds, base, written, dblk>>
      /\ blocks' = With(With(blocks, at, header), at + BlockLen(header), block)
      /\ len' = Align(len) + BlockLen(header) + BlockLen(block)
      /\ cursor' = header.block + IndexBlockSize
      /\ layout' = [type |-> "extensible", address |-> at]
      /\ phase' = "data blocks"
  BY DEF PlaceExtensible
<1>8. /\ header.kind = "EAHD" /\ header.block = at + BlockLen(header)
      /\ block.kind = "EAIB" /\ block.elements = es /\ block.pointers = ps
      /\ block = [kind |-> "EAIB", elements |-> es, pointers |-> ps]
  BY <1>5
<1>9. Align(len) \in Nat /\ base \in Nat /\ len \in Nat
  BY <1>1, AlignUp DEF Types
<1> HIDE DEF header, block, n, ps, es
<1>10. cursor' \in Nat /\ BlockLen(header) \in Nat \ {0} /\ cursor' = base + len' /\ at \in Nat
  <2>1. at \in Nat /\ at = base + Align(len)
    BY <1>9
  <2>2. cursor' = at + BlockLen(header) + BlockLen(block)
    <3>1. cursor' = header.block + BlockLen(block)
      BY <1>6, <1>7
    <3> QED
      BY <3>1, <1>8
  <2>3. BlockLen(header) \in Nat \ {0}
    BY <1>5
  <2>4. len' = Align(len) + BlockLen(header) + BlockLen(block)
    BY <1>7
  <2> DEFINE x == BlockLen(header)
             y == BlockLen(block)
  <2>5. x \in Nat /\ y \in Nat /\ cursor' = at + x + y /\ len' = Align(len) + x + y
    BY <1>6, <2>2, <2>3, <2>4
  <2> HIDE DEF at, x, y
  <2>6. cursor' \in Nat /\ cursor' = base + len'
    BY <1>9, <2>1, <2>5
  <2> QED
    BY <2>1, <2>3, <2>6
<1>11. /\ Types'
       /\ Space(blocks, len)'
       /\ (\A i \in 1 .. Len(written) : IsAt(written[i].address, "chunk"))'
       /\ DOMAIN blocks' = DOMAIN blocks \cup {at, at + BlockLen(header)}
       /\ blocks'[at] = header
       /\ blocks'[at + BlockLen(header)] = block
       /\ \A a \in DOMAIN blocks : Resolves(blocks', blocks'[a]) /\ IndexBlockShape(blocks'[a])
  BY <1>6, <1>7, <1>10, PlaceTwo
<1> HIDE DEF at
<1>12. \A i \in 1 .. Len(written) : At(blocks', written[i].address, "chunk")
  BY <1>7, <1>11 DEF IsAt, At
<1>13. \A e \in Defined(es) : At(blocks', e.address, "chunk")
  BY <1>1, <1>2, <1>12, ElementsName DEF es
<1>14. Resolves(blocks', header) /\ IndexBlockShape(header)
  BY <1>8, <1>11 DEF Resolves, At, ElementsOf, IndexBlockShape
<1>15. Resolves(blocks', block) /\ IndexBlockShape(block)
  <2>1. Resolves(blocks', block)
    BY <1>4, <1>8, <1>13 DEF Resolves, ElementsOf
  <2>2. IndexBlockShape(block)
    BY <1>4, <1>8 DEF IndexBlockShape
  <2> QED
    BY <2>1, <2>2
<1>16. \A a \in DOMAIN blocks' : Resolves(blocks', blocks'[a]) /\ IndexBlockShape(blocks'[a])
  BY <1>11, <1>14, <1>15
<1>17. Roots'
  BY <1>7, <1>8, <1>11 DEF Roots, IsAt
<1>18. IsAt(IndexBlock, "EAIB")'
  BY <1>5, <1>7, <1>8, <1>11 DEF IsAt, IndexBlock
<1> QED
  BY <1>7, <1>10, <1>11, <1>16, <1>17, <1>18 DEF IInv

\* Block b with pointer number i filled in.
Filled(b, i, c) == [b EXCEPT !.pointers[i] = c]

\* The index block with a pointer filled in is as long as before, and all its
\* pointers but the new one are old.
LEMMA PointerFilledIn ==
  ASSUME NEW b, NEW i \in 1 .. Pointers, NEW c \in Nat, Pointers \in Nat,
         b.kind = "EAIB", IndexBlockShape(b)
  PROVE  /\ BlockLen(Filled(b, i, c)) = BlockLen(b)
         /\ Filled(b, i, c).kind = "EAIB"
         /\ IndexBlockShape(Filled(b, i, c))
         /\ ElementsOf(Filled(b, i, c)) = ElementsOf(b)
         /\ Defined(Filled(b, i, c).pointers) \subseteq Defined(b.pointers) \cup {c}
<1> DEFINE f == Filled(b, i, c)
<1>1. PICK e, p : /\ b = [kind |-> "EAIB", elements |-> e, pointers |-> p]
                  /\ p \in [1 .. Pointers -> Nat \cup {Undefined}]
  BY DEF IndexBlockShape
<1> DEFINE q == [p EXCEPT ![i] = c]
<1>2. f = [kind |-> "EAIB", elements |-> e, pointers |-> q]
  <2>1. b.pointers = p
    BY <1>1
  <2>2. PICK x : x = q
    OBVIOUS
  <2>3. f = [b EXCEPT !.pointers = x]
    BY <2>1, <2>2 DEF Filled
  <2>4. [[kind |-> "EAIB", elements |-> e, pointers |-> p] EXCEPT !.pointers = x]
        = [kind |-> "EAIB", elements |-> e, pointers |-> x]
    OBVIOUS
  <2> QED
    BY <1>1, <2>2, <2>3, <2>4
<1>3. q \in [1 .. Pointers -> Nat \cup {Undefined}]
  <2>1. PICK T : T = Nat \cup {Undefined} /\ c \in T
    OBVIOUS
  <2>2. p \in [1 .. Pointers -> T]
    BY <1>1, <2>1, Zenon
  <2>3. q \in [1 .. Pointers -> T]
    BY <2>1, <2>2
  <2> QED
    BY <2>1, <2>3, Zenon
<1>4. Len(p) = Pointers /\ Len(q) = Pointers
  BY <1>1, <1>3
<1>5. BlockLen(f) = BlockLen(b)
  <2>1. BlockLen(b) = 14 + Len(e) * ElementSize(ds) + Len(p) * 8 + 4
    BY <1>1 DEF BlockLen
  <2>2. BlockLen(f) = 14 + Len(e) * ElementSize(ds) + Len(q) * 8 + 4
    BY <1>2 DEF BlockLen
  <2> QED
    BY <1>4, <2>1, <2>2
<1>6. Defined(q) \subseteq Defined(p) \cup {c}
  BY <1>1 DEF Defined
<1>7. IndexBlockShape(f)
  BY <1>2, <1>3 DEF IndexBlockShape
<1>8. ElementsOf(f) = ElementsOf(b)
  BY <1>1, <1>2 DEF ElementsOf
<1> HIDE DEF f, q
<1>9. f.kind = "EAIB" /\ f.pointers = q /\ b.pointers = p
  BY <1>1, <1>2
<1> QED
  BY <1>5, <1>6, <1>7, <1>8, <1>9 DEF f

\* The data block placed next is one of the writer's, and has a pointer.
LEMMA NextDataBlock ==
  ASSUME Types, dblk < Len(WriterSizes)
  PROVE  /\ dblk \in Nat /\ Pointers \in Nat
         /\ dblk + 1 \in Nat
         /\ dblk + 1 <= Len(WriterSizes)
         /\ dblk + 1 \in 1 .. Pointers
         /\ WriterSizes[dblk + 1] \in Nat
         /\ ChunksBefore(dblk) \in Nat
<1> DEFINE m == Len(WriterSizes)
<1>1. m \in Nat /\ SuperPointers \in Nat /\ WriterSizes \in Seq(Nat)
      /\ \A k \in 0 .. m : ChunksBefore(k) \in Nat
  BY PointersAssumption, WriterSizesAre, ChunksBeforeAre
<1>2. dblk \in Nat /\ dblk < m
  BY DEF Types
<1>3. Pointers = m + SuperPointers
  BY DEF Pointers
<1>4. \A i \in 1 .. m : WriterSizes[i] \in Nat
  BY <1>1
<1> HIDE DEF m
<1>5. dblk + 1 \in 1 .. m /\ dblk \in 0 .. m
  BY <1>1, <1>2
<1>6. dblk + 1 \in Nat /\ dblk + 1 <= m /\ dblk + 1 \in 1 .. Pointers /\ Pointers \in Nat
  BY <1>1, <1>2, <1>3
<1>7. WriterSizes[dblk + 1] \in Nat
  BY <1>4, <1>5
<1>8. ChunksBefore(dblk) \in Nat
  BY <1>1, <1>5
<1> QED
  BY <1>2, <1>6, <1>7, <1>8 DEF m

\* A data block that has chunks to name.
LEMMA FillDataBlockIInv ==
  ASSUME IInv, PlaceDataBlock, ChunksBefore(dblk) < TotalChunks(ds) PROVE IInv'
<1> DEFINE n == WriterSizes[dblk + 1]
           es == Elements(ChunksBefore(dblk), n)
           block == [kind |-> "EADB", elements |-> es]
           i0 == IndexBlock
           ib == Filled(blocks[i0], dblk + 1, cursor)
           bs == [blocks EXCEPT ![i0] = ib]
           w == With(bs, cursor, block)
<1>1. /\ phase = "data blocks" /\ phase' = phase
      /\ dblk < Len(WriterSizes) /\ dblk' = dblk + 1
      /\ UNCHANGED <<ds, base, written, layout>>
      /\ blocks' = With([blocks EXCEPT ![IndexBlock].pointers[dblk + 1] = cursor], base + len, block)
      /\ len' = len + BlockLen(block)
      /\ cursor' = cursor + BlockLen(block)
  BY DEF PlaceDataBlock, DataBlocksLeft
<1>2. /\ Types /\ Space(blocks, len)
      /\ layout.type = "extensible" /\ cursor = base + len
      /\ i0 \in DOMAIN blocks /\ blocks[i0].kind = "EAIB"
  BY <1>1 DEF IInv, IsAt
<1>3. \A i \in 1 .. Len(written) : At(blocks, written[i].address, "chunk")
  BY DEF IInv, IsAt, At
<1>4. \A a \in DOMAIN blocks : Resolves(blocks, blocks[a]) /\ IndexBlockShape(blocks[a])
  BY DEF IInv
<1>5. /\ base \in Nat /\ len \in Nat /\ cursor \in Nat /\ dblk \in Nat
      /\ Pointers \in Nat /\ ElementSize(ds) \in Nat
      /\ n \in Nat /\ ChunksBefore(dblk) \in Nat
  <2>1. base \in Nat /\ len \in Nat /\ cursor \in Nat /\ dblk \in Nat /\ ds \in Datasets
    BY <1>2 DEF Types
  <2>2. ElementSize(ds) \in Nat
    BY <2>1, DatasetSizes
  <2> QED
    BY <1>1, <1>2, <2>1, <2>2, NextDataBlock
<1>6. dblk + 1 \in 1 .. Pointers
  BY <1>1, <1>2, NextDataBlock
<1>7. Len(es) = n /\ \A e \in Defined(es) : At(blocks, e.address, "chunk")
  <2> HIDE DEF n
  <2> QED
    BY <1>2, <1>3, <1>5, ElementsName
<1>8. BlockLen(block) \in Nat \ {0}
  <2>1. BlockLen(block) = 18 + Len(es) * ElementSize(ds) + 4
    BY DEF BlockLen
  <2>2. n * ElementSize(ds) \in Nat
    BY <1>5
  <2> HIDE DEF n, es, block
  <2> QED
    BY <2>1, <2>2, <1>7
<1>9. /\ BlockLen(ib) = BlockLen(blocks[i0])
      /\ ib.kind = "EAIB"
      /\ IndexBlockShape(ib)
      /\ ElementsOf(ib) = ElementsOf(blocks[i0])
      /\ Defined(ib.pointers) \subseteq Defined(blocks[i0].pointers) \cup {cursor}
  <2> DEFINE x == blocks[i0]
             j == dblk + 1
  <2>1. x.kind = "EAIB" /\ IndexBlockShape(x) /\ j \in 1 .. Pointers
        /\ cursor \in Nat /\ Pointers \in Nat
    BY <1>2, <1>4, <1>5, <1>6
  <2> HIDE DEF x, j
  <2>2. /\ BlockLen(Filled(x, j, cursor)) = BlockLen(x)
        /\ Filled(x, j, cursor).kind = "EAIB"
        /\ IndexBlockShape(Filled(x, j, cursor))
        /\ ElementsOf(Filled(x, j, cursor)) = ElementsOf(x)
        /\ Defined(Filled(x, j, cursor).pointers) \subseteq Defined(x.pointers) \cup {cursor}
    BY <2>1, PointerFilledIn
  <2> QED
    BY <2>2 DEF x, j
<1>10. block.kind = "EADB" /\ block.elements = es
  OBVIOUS
<1>11. blocks' = w
  BY <1>1, <1>2 DEF Filled
<1>12. IsFunction(blocks)
  BY <1>2 DEF Space
<1> HIDE DEF block, es, n, i0, ib
<1>13. Space(bs, len)
  BY <1>2, <1>5, <1>9, ReplaceBlock
<1>14. /\ DOMAIN bs = DOMAIN blocks
       /\ \A a \in DOMAIN blocks : bs[a] = IF a = i0 THEN ib ELSE blocks[a]
  BY <1>12 DEF IsFunction
<1> HIDE DEF bs
<1>15. cursor \notin DOMAIN bs /\ Space(w, cursor - base + BlockLen(block))
  BY <1>2, <1>5, <1>8, <1>13, AppendBlock
<1>16. /\ DOMAIN w = DOMAIN bs \cup {cursor}
       /\ w[cursor] = block
       /\ \A a \in DOMAIN bs : w[a] = bs[a]
  BY <1>15 DEF With
<1> HIDE DEF w
<1>17. \A a, kind : At(blocks, a, kind) => At(w, a, kind)
  BY <1>2, <1>9, <1>14, <1>16 DEF At
<1>18. len' \in Nat /\ cursor' \in Nat /\ cursor' = base + len'
       /\ cursor - base + BlockLen(block) = len'
  <2> DEFINE y == BlockLen(block)
  <2>1. y \in Nat /\ len' = len + y /\ cursor' = cursor + y
    BY <1>1, <1>8 DEF block, es, n
  <2> HIDE DEF y
  <2>2. len' \in Nat /\ cursor' \in Nat /\ cursor' = base + len' /\ cursor - base + y = len'
    BY <1>2, <1>5, <2>1
  <2> QED
    BY <2>2 DEF y
<1>19. Types'
  <2>1. dblk' \in Nat /\ dblk' <= Len(WriterSizes)
    BY <1>1, <1>2, NextDataBlock
  <2> QED
    BY <1>1, <1>2, <1>18, <2>1 DEF Types
<1>20. Space(blocks, len)'
  <2>1. Space(blocks', len')
    BY <1>11, <1>15, <1>18
  <2>2. \A b : BlockLen(b)' = BlockLen(b)
    BY <1>1, LengthsStable
  <2> QED
    BY <1>1, <2>1, <2>2 DEF Space
<1>21. Resolves(w, block) /\ IndexBlockShape(block)
  BY <1>7, <1>10, <1>17 DEF Resolves, ElementsOf, IndexBlockShape
<1>22. Resolves(w, ib) /\ IndexBlockShape(ib)
  <2>1. Resolves(blocks, blocks[i0])
    BY <1>2, <1>4
  <2>2. At(w, cursor, "EADB")
    BY <1>10, <1>16 DEF At
  <2>3. \A p \in Defined(ib.pointers) : At(w, p, "EADB")
    BY <1>2, <1>9, <1>17, <2>1, <2>2 DEF Resolves
  <2>4. \A e \in ElementsOf(ib) : At(w, e.address, "chunk")
    BY <1>9, <1>17, <2>1 DEF Resolves
  <2> QED
    BY <1>9, <2>3, <2>4 DEF Resolves
<1>23. ASSUME NEW a \in DOMAIN w PROVE Resolves(w, w[a]) /\ IndexBlockShape(w[a])
  <2>1. CASE a = cursor
    BY <2>1, <1>16, <1>21
  <2>2. CASE a \in DOMAIN bs /\ a = i0
    BY <2>2, <1>14, <1>16, <1>22
  <2>3. CASE a \in DOMAIN bs /\ a # i0
    <3>1. w[a] = blocks[a] /\ a \in DOMAIN blocks
      BY <2>3, <1>14, <1>16
    <3> QED
      BY <3>1, <1>4, <1>17, ResolvesMore
  <2> QED
    BY <2>1, <2>2, <2>3, <1>16
<1>24. (\A i \in 1 .. Len(written) : IsAt(written[i].address, "chunk"))'
  <2>1. \A i \in 1 .. Len(written) : At(w, written[i].address, "chunk")
    BY <1>3, <1>17
  <2> QED
    BY <1>1, <1>11, <2>1 DEF IsAt, At
<1>25. Roots' /\ layout'.type = "extensible"
  <2>1. IsAt(layout.address, "EAHD")
    BY <1>2 DEF IInv, Roots
  <2>2. At(w, layout.address, "EAHD")
    BY <1>17, <2>1 DEF IsAt, At
  <2> QED
    BY <1>1, <1>2, <1>11, <2>2 DEF Roots, IsAt, At
<1>26. IsAt(IndexBlock, "EAIB")'
  <2>1. At(w, i0, "EAIB")
    BY <1>2, <1>17 DEF At
  <2> QED
    BY <1>1, <1>11, <2>1 DEF IsAt, At, IndexBlock, i0
<1>27. layout'.address \in Nat
  BY <1>1 DEF IInv
<1> QED
  BY <1>1, <1>11, <1>18, <1>19, <1>20, <1>23, <1>24, <1>25, <1>26, <1>27 DEF IInv

LEMMA PlaceDataBlockIInv == ASSUME IInv, PlaceDataBlock PROVE IInv'
<1>1. CASE ChunksBefore(dblk) < TotalChunks(ds)
  BY <1>1, FillDataBlockIInv
<1>2. CASE ~(ChunksBefore(dblk) < TotalChunks(ds))
  <2>1. /\ phase = "data blocks" /\ phase' = phase
        /\ dblk < Len(WriterSizes) /\ dblk' = dblk + 1
        /\ UNCHANGED <<ds, base, written, layout>>
        /\ UNCHANGED <<blocks, len, cursor>>
    BY <1>2 DEF PlaceDataBlock, DataBlocksLeft
  <2>2. Types'
    <3>1. Types
      BY DEF IInv
    <3>2. dblk' \in Nat /\ dblk' <= Len(WriterSizes)
      BY <2>1, <3>1, NextDataBlock
    <3> QED
      BY <2>1, <3>1, <3>2 DEF Types
  <2>3. Space(blocks, len)'
    BY <2>1, SpaceStable DEF IInv
  <2>4. \A a \in DOMAIN blocks : Resolves(blocks, blocks[a])' /\ IndexBlockShape(blocks[a])'
    BY <2>1 DEF IInv
  <2> QED
    BY <2>1, <2>2, <2>3, <2>4 DEF IInv, Roots, IsAt, IndexBlock
<1> QED
  BY <1>1, <1>2

LEMMA NextIInv == IInv /\ [Next]_vars => IInv'
<1> SUFFICES ASSUME IInv, [Next]_vars PROVE IInv'
  OBVIOUS
<1>1. CASE PlaceChunk
  BY <1>1, PlaceChunkIInv
<1>2. CASE PlaceSingle
  BY <1>2, PlaceSingleIInv
<1>3. CASE PlaceFixed
  BY <1>3, PlaceFixedIInv
<1>4. CASE PlaceExtensible
  BY <1>4, PlaceExtensibleIInv
<1>5. CASE PlaceDataBlock
  BY <1>5, PlaceDataBlockIInv
<1>6. CASE FinishExtensible
  BY <1>6, ReadingIInv DEF FinishExtensible
<1>7. CASE ListSingle
  BY <1>7, ReadingIInv DEF ListSingle, Listed
<1>8. CASE ListFixed
  BY <1>8, ReadingIInv DEF ListFixed, Listed, Fail
<1>9. CASE ListExtensible
  BY <1>9, ReadingIInv DEF ListExtensible, Listed, Fail
<1>10. CASE CopyChunk
  BY <1>10, ReadingIInv DEF CopyChunk, Fail
<1>11. CASE Return
  BY <1>11, ReadingIInv DEF Return
<1>12. CASE UNCHANGED vars
  BY <1>12, ReadingIInv DEF vars
<1> QED
  BY <1>1, <1>2, <1>3, <1>4, <1>5, <1>6, <1>7, <1>8, <1>9, <1>10, <1>11, <1>12 DEF Next
-------------------------------------------------------------------------------
\* The inductive invariant holds throughout.
THEOREM InvariantHolds == Spec => []IInv
<1> QED
  BY InitIInv, NextIInv, PTL DEF Spec

\* Chunks and index structures never overlap and stay inside the buffer
\* (build_chunked_data_at_ext), whatever the sizes of the compressed chunks.
THEOREM ExtentsAreApart == Spec => []ExtentsApart
<1>1. IInv => ExtentsApart
  BY DEF IInv, Space, ExtentsApart
<1> QED
  BY <1>1, InvariantHolds, PTL

\* Every address computed ahead of the structure it names (build_fixed_array_at,
\* build_extensible_array_at) is where that structure is put.
THEOREM PointersAlwaysResolve == Spec => []PointersResolve
<1>1. IInv => PointersResolve
  BY DEF IInv, Roots, Resolves, At, IsAt, PointersResolve
<1> QED
  BY <1>1, InvariantHolds, PTL
-------------------------------------------------------------------------------
(* Reading back: what the file holds before, and the output during, the    *)
(* copying of the chunks.                                                  *)

\* Chunk number i, counted from 1, is among the blocks bs as it was placed.
IsStored(bs, i) ==
  /\ written[i].address \in DOMAIN bs
  /\ bs[written[i].address] =
       [kind |-> "chunk", size |-> written[i].size, data |-> ChunkData(i - 1)]

\* The length a chunk is stored with.
StoredSize(i) == IF ds.filtered THEN ds.stored[(i - 1) % 2] ELSE RawSize(ds)

\* The chunks placed so far are where they were placed, with their data.
ChunksInv ==
  /\ Len(written) <= TotalChunks(ds)
  /\ phase = "chunks" => dblk = 0
  /\ phase # "chunks" => Len(written) = TotalChunks(ds)
  /\ \A i \in 1 .. Len(written) : IsStored(blocks, i) /\ written[i].size = StoredSize(i)

\* What the layout message of each kind leads to.
SingleInv ==
  layout.type = "single" =>
    /\ ~ds.unlimited
    /\ TotalChunks(ds) = 1
    /\ layout.address = written[1].address
    /\ layout.size = written[1].size

FixedIndex(bs, h, n, elements) ==
  /\ h \in DOMAIN bs
  /\ bs[h].kind = "FAHD"
  /\ bs[h].bits = PageBits
  /\ bs[h].count = n
  /\ bs[h].block \in DOMAIN bs
  /\ bs[bs[h].block].kind = "FADB"
  /\ bs[bs[h].block].elements = elements

FixedInv ==
  layout.type = "fixed" =>
    /\ ~ds.unlimited
    /\ FixedIndex(blocks, layout.address, TotalChunks(ds), Elements(0, TotalChunks(ds)))

\* An extensible array: header, index block, pointers to data blocks.
ExtensibleIndex(bs, h, n, elements, pointers) ==
  /\ h \in DOMAIN bs
  /\ bs[h].kind = "EAHD"
  /\ bs[h].count = n
  /\ bs[h].block \in DOMAIN bs
  /\ bs[bs[h].block] = [kind |-> "EAIB", elements |-> elements, pointers |-> pointers]

\* Data block b has been placed and there is something in it.
InUse(b, placed) == b <= placed /\ ChunksBefore(b - 1) < TotalChunks(ds)

DataBlock(bs, a, elements) ==
  /\ a \in DOMAIN bs
  /\ bs[a] = [kind |-> "EADB", elements |-> elements]

\* The pointers to data blocks: each in use names the chunks the writer gave it.
PointersTo(bs, pointers, placed) ==
  \A b \in 1 .. Pointers :
    IF InUse(b, placed)
    THEN DataBlock(bs, pointers[b], Elements(ChunksBefore(b - 1), WriterSizes[b]))
    ELSE pointers[b] = Undefined

ExtensibleInv ==
  layout.type = "extensible" =>
    /\ ds.unlimited
    /\ blocks[layout.address].block = IndexBlock
    /\ phase # "data blocks" => dblk = Len(WriterSizes)
    /\ \E pointers \in [1 .. Pointers -> Nat \cup {Undefined}] :
         /\ ExtensibleIndex(blocks, layout.address, TotalChunks(ds),
                            Elements(0, InlineElmts), pointers)
         /\ PointersTo(blocks, pointers, dblk)

\* The ChunkInfo of chunk number i, counted from 1.
InfoOf(i) ==
  [address |-> written[i].address, size |-> written[i].size, offsets |-> OffsetsOf(i - 1)]

\* The ChunkInfos of c chunks after the first m, and of all after them.
Span(m, c) == [j \in 1 .. c |-> InfoOf(m + j)]
RestOf(m) == Span(m, TotalChunks(ds) - m)

\* Element i of the dataset is element e of chunk k.
Holds(k, e, i) ==
  Inside(Global(OffsetsOf(k), e)) /\ FlatIndex(Global(OffsetsOf(k), e)) = i

\* What the first m chunks hold is in the output.
Copies(o, m) ==
  /\ o = [i \in DOMAIN Original |-> o[i]]
  /\ \A i \in DOMAIN Original, k \in 0 .. m - 1, e \in 0 .. ChunkElements - 1 :
       Holds(k, e, i) => o[i] = Original[i]

\* While chunks are copied, the first m are in the output and the rest is listed.
CopyInv ==
  /\ phase = "copying" => \E m \in 0 .. TotalChunks(ds) : infos = RestOf(m) /\ Copies(out, m)
  /\ phase \in {"chunks", "data blocks", "written", "copying", "done"}
  /\ phase = "done" => out = Original

\* The inductive invariant of writing and reading back.
ReadInv == ChunksInv /\ SingleInv /\ FixedInv /\ ExtensibleInv /\ CopyInv

\* Every element of the dataset is in some chunk.
LEMMA SomewhereHeld ==
  ASSUME ds \in Datasets, NEW i \in DOMAIN Original
  PROVE  \E k \in 0 .. TotalChunks(ds) - 1, e \in 0 .. ChunkElements - 1 : Holds(k, e, i)
<1>1. PICK n \in Nat :
           /\ Len(ds.shape) = n /\ Len(ds.chunk) = n /\ DOMAIN ds.shape = 1 .. n
           /\ ds.shape \in Seq(Nat) /\ ds.chunk \in Seq(Nat)
           /\ \A d \in 1 .. n : ds.shape[d] \in Nat /\ ds.chunk[d] \in Nat \ {0}
  BY DatasetType
<1>2. i \in 0 .. Product(ds.shape) - 1
  BY DEF Original
<1>3. PICK x \in [1 .. n -> Nat] :
           /\ \A d \in 1 .. n : x[d] < ds.shape[d]
           /\ \A u : IsFlat(u, ds.shape, x) => u[n] = i
  BY <1>1, <1>2, Coordinates
<1> DEFINE g == [d \in 1 .. n |-> x[d] \div ds.chunk[d]]
           c == [d \in 1 .. n |-> x[d] % ds.chunk[d]]
<1>4. \A d \in 1 .. n :
        /\ g[d] \in Nat /\ g[d] < DivCeil(ds.shape[d], ds.chunk[d])
        /\ c[d] \in Nat /\ c[d] < ds.chunk[d]
        /\ g[d] * ds.chunk[d] + c[d] = x[d]
  <2> SUFFICES ASSUME NEW d \in 1 .. n
               PROVE  /\ g[d] \in Nat /\ g[d] < DivCeil(ds.shape[d], ds.chunk[d])
                      /\ c[d] \in Nat /\ c[d] < ds.chunk[d]
                      /\ g[d] * ds.chunk[d] + c[d] = x[d]
    OBVIOUS
  <2>1. g[d] = x[d] \div ds.chunk[d] /\ c[d] = x[d] % ds.chunk[d]
    OBVIOUS
  <2>2. ds.shape[d] \in Nat /\ ds.chunk[d] \in Nat \ {0} /\ x[d] \in Nat /\ x[d] < ds.shape[d]
    BY <1>1, <1>3
  <2> HIDE DEF g, c
  <2>3. PICK a \in Nat, b \in Nat \ {0}, y \in Nat :
          a = ds.shape[d] /\ b = ds.chunk[d] /\ y = x[d] /\ y < a
    BY <2>2
  <2>4. Splits(y, a, b)
    BY <2>3, InSomeChunk
  <2>5. g[d] = y \div b /\ c[d] = y % b
    BY <2>1, <2>3
  <2> QED
    BY <2>3, <2>4, <2>5 DEF Splits
<1>5. g \in [1 .. n -> Nat] /\ c \in [1 .. n -> Nat]
  BY <1>4
<1> HIDE DEF g, c
<1>6. GridOf(ds) \in Seq(Nat) /\ Len(GridOf(ds)) = n /\ \A d \in 1 .. n : g[d] < GridOf(ds)[d]
  BY <1>1, <1>4, GridType
<1>7. PICK k \in 0 .. Product(GridOf(ds)) - 1 :
        \A d \in 1 .. n : (k \div Stride(GridOf(ds), d)) % GridOf(ds)[d] = g[d]
  BY <1>5, <1>6, Digits
<1>8. PICK e \in 0 .. Product(ds.chunk) - 1 :
        \A d \in 1 .. n : (e \div Stride(ds.chunk, d)) % ds.chunk[d] = c[d]
  BY <1>1, <1>4, <1>5, Digits
<1>9. Global(OffsetsOf(k), e) = x
  <2>1. OffsetsOf(k) = [d \in 1 .. n |-> g[d] * ds.chunk[d]]
    BY <1>1, <1>7 DEF OffsetsOf, Dims, ChunksPerDim
  <2>2. Global(OffsetsOf(k), e) = [d \in 1 .. n |-> g[d] * ds.chunk[d] + c[d]]
    BY <1>1, <1>8, <2>1 DEF Global, Dims
  <2> QED
    BY <1>4, <2>2
<1>10. Inside(x)
  BY <1>1, <1>3 DEF Inside, Dims
<1>11. FlatIndex(x) = i
  BY <1>1, <1>3, FlatIndexIs
<1>12. Holds(k, e, i)
  BY <1>9, <1>10, <1>11 DEF Holds
<1> QED
  BY <1>7, <1>8, <1>12 DEF TotalChunks, ChunkElements

\* Sequences that are spans.
AllInfos == {InfoOf(i) : i \in Nat}

IsSpan(s, m, c) ==
  s \in Seq(AllInfos) /\ Len(s) = c /\ \A j \in 1 .. c : s[j] = InfoOf(m + j)

\* A span is determined by its length and elements, grows by one at its end, and
\* continues another.
LEMMA SpanType == ASSUME NEW m \in Nat, NEW c \in Nat PROVE IsSpan(Span(m, c), m, c)
<1>1. \A j \in 1 .. c : InfoOf(m + j) \in AllInfos
  BY DEF AllInfos
<1>2. Span(m, c) \in [1 .. c -> AllInfos] /\ \A j \in 1 .. c : Span(m, c)[j] = InfoOf(m + j)
  BY <1>1 DEF Span
<1> QED
  BY <1>2 DEF IsSpan

LEMMA SpanUnique ==
  ASSUME NEW m \in Nat, NEW c \in Nat, NEW s, IsSpan(s, m, c) PROVE s = Span(m, c)
<1> DEFINE t == Span(m, c)
<1>1. IsSpan(t, m, c)
  BY SpanType
<1> HIDE DEF t
<1>2. s = t
  BY <1>1, SeqEqual DEF IsSpan
<1> QED
  BY <1>2 DEF t

LEMMA SpanAppend ==
  ASSUME NEW m \in Nat, NEW c \in Nat
  PROVE  Append(Span(m, c), InfoOf(m + (c + 1))) = Span(m, c + 1)
<1> DEFINE s == Span(m, c)
           x == InfoOf(m + (c + 1))
           t == Append(s, x)
<1>1. IsSpan(s, m, c) /\ x \in AllInfos
  BY SpanType DEF AllInfos
<1>2. x = InfoOf(m + (c + 1))
  OBVIOUS
<1> HIDE DEF s, x
<1>3. t \in Seq(AllInfos) /\ Len(t) = c + 1
  BY <1>1 DEF IsSpan
<1>4. ASSUME NEW j \in 1 .. c + 1 PROVE t[j] = InfoOf(m + j)
  <2>1. CASE j = c + 1
    BY <1>1, <1>2, <2>1 DEF IsSpan
  <2>2. CASE j # c + 1
    <3>1. j \in 1 .. c
      BY <2>2
    <3>2. t[j] = s[j]
      BY <1>1, <3>1 DEF IsSpan
    <3> QED
      BY <1>1, <3>1, <3>2 DEF IsSpan
  <2> QED
    BY <2>1, <2>2
<1>5. IsSpan(t, m, c + 1)
  BY <1>3, <1>4 DEF IsSpan
<1> HIDE DEF t
<1>6. t = Span(m, c + 1)
  BY <1>5, SpanUnique
<1> QED
  BY <1>6 DEF t, s, x

LEMMA SpanConcat ==
  ASSUME NEW a \in Nat, NEW c \in Nat
  PROVE  Span(0, a) \o Span(a, c) = Span(0, a + c)
<1> DEFINE s == Span(0, a)
           t == Span(a, c)
           w == s \o t
<1>1. IsSpan(s, 0, a) /\ IsSpan(t, a, c)
  BY SpanType
<1> HIDE DEF s, t
<1>2. s \in Seq(AllInfos) /\ t \in Seq(AllInfos) /\ Len(s) = a /\ Len(t) = c
  BY <1>1 DEF IsSpan
<1>3. /\ w \in Seq(AllInfos)
      /\ Len(w) = Len(s) + Len(t)
      /\ \A i \in 1 .. Len(s) + Len(t) : w[i] = IF i <= Len(s) THEN s[i] ELSE t[i - Len(s)]
  BY <1>2, ConcatProperties
<1> HIDE DEF w
<1>4. ASSUME NEW j \in 1 .. a + c PROVE w[j] = InfoOf(0 + j)
  <2>1. w[j] = IF j <= a THEN s[j] ELSE t[j - a]
    BY <1>2, <1>3
  <2>2. CASE j <= a
    <3>1. j \in 1 .. a
      BY <2>2
    <3> QED
      BY <1>1, <2>1, <2>2, <3>1 DEF IsSpan
  <2>3. CASE ~(j <= a)
    <3>1. j - a \in 1 .. c /\ a + (j - a) = 0 + j
      BY <2>3
    <3> QED
      BY <1>1, <2>1, <2>3, <3>1 DEF IsSpan
  <2> QED
    BY <2>2, <2>3
<1>5. IsSpan(w, 0, a + c)
  BY <1>2, <1>3, <1>4 DEF IsSpan
<1>6. w = Span(0, a + c)
  BY <1>5, SpanUnique
<1> QED
  BY <1>6 DEF w, s, t

\* An element tells address and size of its chunk.
LEMMA ElementIs ==
  ASSUME ds \in Datasets, Readable(ds), ChunksInv,
         written \in Seq([address : Nat, size : Nat \ {0}]),
         NEW i \in 1 .. Len(written)
  PROVE  /\ Element(written[i]) # Undefined
         /\ Element(written[i]).address = written[i].address
         /\ Element(written[i]).size = written[i].size
<1>1. written[i].address \in Nat /\ written[i].size \in Nat /\ i \in Nat
  <2>1. written[i] \in [address : Nat, size : Nat \ {0}]
    BY ElementOfSeq
  <2> QED
    BY <2>1
<1>2. ds.filtered => written[i].size % Shl(8 * SizeWidth(ds)) = written[i].size
  <2> SUFFICES ASSUME ds.filtered PROVE written[i].size % Shl(8 * SizeWidth(ds)) = written[i].size
    OBVIOUS
  <2>1. written[i].size = ds.stored[(i - 1) % 2]
    BY DEF ChunksInv, StoredSize
  <2>2. (i - 1) % 2 \in {0, 1}
    BY <1>1
  <2>3. ds.stored[(i - 1) % 2] < Shl(8 * SizeWidth(ds))
    BY <2>2 DEF Readable
  <2>4. PICK w \in Nat : w = Shl(8 * SizeWidth(ds))
    <3>1. SizeWidth(ds) \in 1 .. 8
      BY DatasetSizes
    <3>2. 8 * SizeWidth(ds) \in Nat
      BY <3>1
    <3> QED
      BY <3>2, ShlIs
  <2>5. PICK x \in Nat : x = written[i].size /\ x < w
    BY <1>1, <2>1, <2>3, <2>4
  <2>6. x % w = x
    <3>1. w \in Nat \ {0} /\ x < w
      BY <2>5
    <3>2. PICK q \in Nat : q = 0
      OBVIOUS
    <3>3. (q * w + x) % w = x
      BY <3>1, ModIs
    <3>4. q * w + x = x
      BY <3>2
    <3> QED
      BY <3>3, <3>4
  <2> QED
    BY <2>4, <2>5, <2>6
<1>3. Element(written[i]) = [address |-> written[i].address, size |-> written[i].size]
  BY <1>2 DEF Element
<1>4. Element(written[i]) \in [address : Nat, size : Nat]
  BY <1>1, <1>3
<1> QED
  BY <1>3, <1>4, UndefinedAssumption

\* The defined ones of the first n elements from chunk m on are those of the
\* next c chunks, the last there are; they are listed in order.
LEMMA ListIs ==
  ASSUME ds \in Datasets, Readable(ds), ChunksInv,
         written \in Seq([address : Nat, size : Nat \ {0}]),
         NEW m \in Nat, NEW l \in Nat, NEW n \in Nat, n <= l, NEW c \in Nat, c <= n,
         \A i \in 1 .. n : i <= c <=> m + i <= Len(written)
  PROVE  ListElements(Elements(m, l), n, m) = Span(m, c)
<1> DEFINE e == Elements(m, l)
           Is(u) == u = [i \in 0 .. n |->
                           IF i = 0 THEN << >>
                           ELSE IF e[i] = Undefined THEN u[i - 1]
                           ELSE Append(u[i - 1], Info(e[i], m + i - 1))]
           upTo == CHOOSE u : Is(u)
<1>1. ListElements(e, n, m) = upTo[n]
  BY Zenon DEF ListElements
<1>2. \A i \in 1 .. n : e[i] = IF m + i <= Len(written) THEN Element(written[m + i]) ELSE Undefined
  BY DEF Elements
<1> HIDE DEF e
<1>3. ASSUME NEW i \in 1 .. n, i <= c
      PROVE  e[i] # Undefined /\ Info(e[i], m + i - 1) = InfoOf(m + i)
  <2>1. m + i <= Len(written) /\ m + i \in 1 .. Len(written)
    <3>1. PICK t \in Nat : t = Len(written)
      OBVIOUS
    <3>2. m + i <= t
      BY <1>3, <3>1
    <3>3. m + i \in 1 .. t
      BY <3>2
    <3> QED
      BY <3>1, <3>2, <3>3
  <2>2. e[i] = Element(written[m + i])
    BY <1>2, <2>1
  <2> QED
    BY <2>1, <2>2, ElementIs DEF Info, InfoOf
<1>4. ASSUME NEW i \in 1 .. n, ~(i <= c) PROVE e[i] = Undefined
  BY <1>2, <1>4
<1> DEFINE w == [i \in 0 .. n |-> Span(m, IF i <= c THEN i ELSE c)]
<1>5. w[0] = << >>
  <2>1. w[0] = Span(m, 0)
    OBVIOUS
  <2> QED
    BY <2>1 DEF Span
<1>6. ASSUME NEW i \in 1 .. n
      PROVE  w[i] = IF e[i] = Undefined THEN w[i - 1] ELSE Append(w[i - 1], Info(e[i], m + i - 1))
  <2>0. i - 1 \in 0 .. n /\ i \in 0 .. n
    OBVIOUS
  <2>1. CASE i <= c
    <3>1. w[i] = Span(m, i) /\ w[i - 1] = Span(m, i - 1)
      BY <2>0, <2>1
    <3>2. PICK k \in Nat : k = i - 1 /\ k + 1 = i
      OBVIOUS
    <3>3. Append(Span(m, k), InfoOf(m + (k + 1))) = Span(m, k + 1)
      BY SpanAppend
    <3> QED
      BY <1>3, <2>1, <3>1, <3>2, <3>3
  <2>2. CASE ~(i <= c)
    <3>1. w[i] = Span(m, c)
      BY <2>0, <2>2
    <3>2. w[i - 1] = Span(m, c)
      <4>1. CASE i - 1 <= c
        <5>1. i - 1 = c
          BY <2>2, <4>1
        <5> QED
          BY <2>0, <5>1
      <4>2. CASE ~(i - 1 <= c)
        BY <2>0, <4>2
      <4> QED
        BY <4>1, <4>2
    <3> QED
      BY <1>4, <2>2, <3>1, <3>2
  <2> QED
    BY <2>1, <2>2
<1>7. w = [i \in 0 .. n |-> w[i]]
  OBVIOUS
<1>8. w[n] = Span(m, c)
  <2>1. n \in 0 .. n
    OBVIOUS
  <2>2. (IF n <= c THEN n ELSE c) = c
    OBVIOUS
  <2> QED
    BY <2>1, <2>2
<1> HIDE DEF w
<1>9. Is(w)
  <2>1. \A i \in 0 .. n : i # 0 => i \in 1 .. n
    OBVIOUS
  <2> QED
    BY <1>5, <1>6, <1>7, <2>1, Zenon
<1>10. Is(upTo)
  BY <1>9, Zenon
<1> HIDE DEF upTo
<1>11. upTo[0] = << >>
  <2>1. 0 \in 0 .. n
    OBVIOUS
  <2> QED
    BY <1>10, <2>1, Zenon
<1>12. ASSUME NEW i \in 1 .. n
       PROVE  upTo[i] = IF e[i] = Undefined THEN upTo[i - 1]
                        ELSE Append(upTo[i - 1], Info(e[i], m + i - 1))
  <2>1. i \in 0 .. n /\ i # 0
    OBVIOUS
  <2> QED
    BY <1>10, <2>1, Zenon
<1> DEFINE S == {i \in 0 .. n : upTo[i] = w[i]}
<1>13. 0 \in S
  BY <1>5, <1>11
<1>14. ASSUME NEW i \in 0 .. n - 1, i \in S PROVE i + 1 \in S
  <2>1. i + 1 \in 1 .. n /\ (i + 1) - 1 = i /\ i + 1 \in 0 .. n
    OBVIOUS
  <2>2. upTo[i] = w[i]
    BY <1>14
  <2>3. upTo[i + 1] = w[i + 1]
    BY <1>6, <1>12, <2>1, <2>2
  <2> QED
    BY <2>1, <2>3
<1> HIDE DEF S
<1>15. 0 .. n \subseteq S
  BY <1>13, <1>14, RangeInduction
<1>16. upTo[n] = w[n]
  BY <1>15 DEF S
<1> QED
  BY <1>1, <1>8, <1>16 DEF e

\* The situation in which the reader lists the chunks.
Complete ==
  /\ ds \in Datasets /\ Readable(ds) /\ ChunksInv
  /\ written \in Seq([address : Nat, size : Nat \ {0}])
  /\ Len(written) = TotalChunks(ds)
  /\ DOMAIN blocks \subseteq Nat

\* The chunks that a data block of l elements from chunk m on names, if the
\* reader takes n of them.
LEMMA ListBlock ==
  ASSUME Complete,
         NEW m \in Nat, NEW l \in Nat, NEW n \in Nat, n <= l, NEW c \in Nat,
         (c = n /\ m + n <= TotalChunks(ds)) \/ (c <= n /\ m + c = TotalChunks(ds))
  PROVE  ListElements(Elements(m, l), n, m) = Span(m, c)
<1>1. PICK t \in Nat : t = TotalChunks(ds) /\ t = Len(written)
  BY DatasetSizes DEF Complete
<1>2. c <= n /\ \A i \in 1 .. n : i <= c <=> m + i <= Len(written)
  <2>1. (c = n /\ m + n <= t) \/ (c <= n /\ m + c = t)
    BY <1>1
  <2>2. \A i \in 1 .. n : i <= c <=> m + i <= t
    BY <2>1
  <2> QED
    BY <1>1, <2>1, <2>2
<1> QED
  BY <1>2, ListIs DEF Complete

\* What data block b of the reader adds to the list.
PartOf(pointers, b) ==
  IF pointers[b] = Undefined THEN << >>
  ELSE ListElements(blocks[pointers[b]].elements, ReaderSizes[b], FirstOf(b))

\* The first two data blocks are in use as far as there are chunks, no others.
LEMMA PartsAre ==
  ASSUME Complete, ds.unlimited, TotalChunks(ds) > InlineElmts,
         NEW pointers \in [1 .. Pointers -> Nat \cup {Undefined}],
         PointersTo(blocks, pointers, Len(WriterSizes)),
         NEW c \in Nat, NEW e \in Nat,
         IF TotalChunks(ds) <= InlineElmts + MinElmts
         THEN c = TotalChunks(ds) - InlineElmts /\ e = 0
         ELSE c = MinElmts /\ e = TotalChunks(ds) - (InlineElmts + MinElmts)
  PROVE  /\ PartOf(pointers, 1) = Span(InlineElmts, c)
         /\ PartOf(pointers, 2) = Span(InlineElmts + c, e)
         /\ \A b \in 3 .. Pointers : PartOf(pointers, b) = << >>
         /\ \A b \in 1 .. Pointers : pointers[b] # Undefined => IsAt(pointers[b], "EADB")
<1>1. PICK t \in Nat, i \in Nat, m \in Nat : t = TotalChunks(ds) /\ i = InlineElmts /\ m = MinElmts
  BY DatasetSizes, ParameterAssumption DEF Complete
<1>2. SuperMin >= 2 /\ t <= i + 2 * m /\ t > i
  BY <1>1 DEF Complete, Readable
<1>3. PICK l \in Nat : /\ l = Len(WriterSizes) /\ l >= 2
                       /\ WriterSizes[1] = m /\ WriterSizes[2] = m * 2
  BY <1>1, <1>2, WriterSizesAre
<1>4. ReaderSizes[1] = m /\ ReaderSizes[2] = m
  BY <1>1, <1>2, ReaderSizesAre
<1>5. /\ ChunksBefore(0) = i /\ ChunksBefore(1) = i + m
      /\ \A k \in 2 .. l : ChunksBefore(k) >= i + 2 * m /\ ChunksBefore(k) \in Nat
  <2>1. 2 .. l \subseteq 0 .. l
    OBVIOUS
  <2> QED
    BY <1>1, <1>2, <1>3, <2>1, ChunksBeforeAre
<1>6. FirstOf(1) = i /\ FirstOf(2) = i + m
  BY <1>1, <1>2, FirstOfIs
<1>7. PICK p \in Nat : p = Pointers /\ l <= p
  BY <1>3, PointersAssumption DEF Pointers
<1>8. \A b \in 1 .. p :
        IF InUse(b, l)
        THEN DataBlock(blocks, pointers[b], Elements(ChunksBefore(b - 1), WriterSizes[b]))
        ELSE pointers[b] = Undefined
  BY <1>3, <1>7 DEF PointersTo
<1>9. \A a, es : DataBlock(blocks, a, es) => IsAt(a, "EADB") /\ blocks[a].elements = es
  BY DEF DataBlock, IsAt
<1>10. \A a \in DOMAIN blocks : a # Undefined
  BY UndefinedAssumption DEF Complete
<1>11. InUse(1, l) /\ 1 \in 1 .. p
  <2>1. 1 - 1 = 0
    OBVIOUS
  <2> QED
    BY <1>1, <1>2, <1>3, <1>5, <1>7, <2>1 DEF InUse
<1>12. DataBlock(blocks, pointers[1], Elements(i, m))
  <2>1. 1 - 1 = 0
    OBVIOUS
  <2> QED
    BY <1>3, <1>5, <1>8, <1>11, <2>1
<1>13. PartOf(pointers, 1) = Span(i, c)
  <2>1. (c = m /\ i + m <= t) \/ (c <= m /\ i + c = t)
    BY <1>1, <1>2
  <2>2. ListElements(Elements(i, m), m, i) = Span(i, c)
    BY <1>1, <2>1, ListBlock
  <2>3. pointers[1] # Undefined
    BY <1>10, <1>12 DEF DataBlock
  <2> QED
    BY <1>4, <1>6, <1>9, <1>12, <2>2, <2>3 DEF PartOf
<1>14. PartOf(pointers, 2) = Span(i + c, e)
  <2>1. 2 - 1 = 1 /\ 2 \in 1 .. p /\ 2 <= l
    BY <1>3, <1>7
  <2>2. CASE t <= i + m
    <3>1. ~InUse(2, l)
      BY <1>1, <1>5, <2>1, <2>2 DEF InUse
    <3>2. pointers[2] = Undefined
      BY <1>8, <2>1, <3>1
    <3>3. e = 0
      BY <1>1, <2>2
    <3>4. Span(i + c, 0) = << >>
      BY DEF Span
    <3> QED
      BY <3>2, <3>3, <3>4 DEF PartOf
  <2>3. CASE ~(t <= i + m)
    <3>1. InUse(2, l)
      BY <1>1, <1>5, <2>1, <2>3 DEF InUse
    <3>2. DataBlock(blocks, pointers[2], Elements(i + m, m * 2))
      BY <1>3, <1>5, <1>8, <2>1, <3>1
    <3>3. i + m \in Nat /\ m * 2 \in Nat /\ m <= m * 2 /\ e <= m /\ (i + m) + e = t /\ i + c = i + m
      BY <1>1, <1>2, <2>3
    <3>4. ListElements(Elements(i + m, m * 2), m, i + m) = Span(i + m, e)
      BY <1>1, <3>3, ListBlock
    <3>5. pointers[2] # Undefined
      BY <1>10, <3>2 DEF DataBlock
    <3> QED
      BY <1>4, <1>6, <1>9, <3>2, <3>3, <3>4, <3>5 DEF PartOf
  <2> QED
    BY <2>2, <2>3
<1>15. ASSUME NEW b \in 3 .. p PROVE PartOf(pointers, b) = << >>
  <2>1. ~InUse(b, l)
    <3>1. CASE b <= l
      <4>1. PICK k \in 2 .. l : k = b - 1
        BY <3>1
      <4>2. PICK n \in Nat : n = ChunksBefore(k) /\ n >= i + 2 * m
        BY <1>5
      <4>3. ~(n < t)
        BY <1>2, <4>2
      <4> QED
        BY <1>1, <4>1, <4>2, <4>3 DEF InUse
    <3>2. CASE ~(b <= l)
      BY <3>2 DEF InUse
    <3> QED
      BY <3>1, <3>2
  <2>2. b \in 1 .. p
    OBVIOUS
  <2>3. pointers[b] = Undefined
    BY <1>8, <2>1, <2>2
  <2> QED
    BY <2>3 DEF PartOf
<1>16. ASSUME NEW b \in 1 .. p, pointers[b] # Undefined PROVE IsAt(pointers[b], "EADB")
  BY <1>8, <1>9, <1>16
<1> QED
  BY <1>1, <1>7, <1>13, <1>14, <1>15, <1>16

\* The list made of the elements in the index block and of all data blocks.
LEMMA ListDataBlocksIs ==
  ASSUME Complete, ds.unlimited, TotalChunks(ds) > InlineElmts, NEW block,
         block.elements = Elements(0, InlineElmts),
         block.pointers \in [1 .. Pointers -> Nat \cup {Undefined}],
         PointersTo(blocks, block.pointers, Len(WriterSizes))
  PROVE  /\ ListDataBlocks(block, TotalChunks(ds)) = Span(0, TotalChunks(ds))
         /\ \A b \in DOMAIN ReaderSizes :
              block.pointers[b] # Undefined => IsAt(block.pointers[b], "EADB")
<1>1. PICK t \in Nat, i \in Nat, m \in Nat : t = TotalChunks(ds) /\ i = InlineElmts /\ m = MinElmts
  BY DatasetSizes, ParameterAssumption DEF Complete
<1>2. SuperMin >= 2 /\ t <= i + 2 * m /\ t > i
  BY <1>1 DEF Complete, Readable
<1>3. PICK n \in Nat : n = Len(ReaderSizes) /\ n >= 2 /\ DOMAIN ReaderSizes = 1 .. n
  BY <1>2, ReaderSizesAre
<1>4. PICK p \in Nat : p = Pointers /\ n <= p
  BY <1>3, PointersAssumption, WriterSizesAre DEF Pointers
<1>5. PICK c \in Nat, e \in Nat :
        IF t <= i + m THEN c = t - i /\ e = 0 ELSE c = m /\ e = t - (i + m)
  <2>1. CASE t <= i + m
    <3>1. t - i \in Nat /\ 0 \in Nat
      BY <1>2
    <3> QED
      BY <2>1, <3>1
  <2>2. CASE ~(t <= i + m)
    <3>1. t - (i + m) \in Nat
      BY <2>2
    <3> QED
      BY <2>2, <3>1
  <2> QED
    BY <2>1, <2>2
<1>0. PICK ptr \in [1 .. Pointers -> Nat \cup {Undefined}] :
        ptr = block.pointers /\ PointersTo(blocks, ptr, Len(WriterSizes))
  OBVIOUS
<1> DEFINE part == [b \in 1 .. n |-> PartOf(ptr, b)]
<1>6. /\ PartOf(ptr, 1) = Span(i, c)
      /\ PartOf(ptr, 2) = Span(i + c, e)
      /\ \A b \in 3 .. p : PartOf(ptr, b) = << >>
      /\ \A b \in 1 .. p : ptr[b] # Undefined => IsAt(ptr[b], "EADB")
  <2>1. IF TotalChunks(ds) <= InlineElmts + MinElmts
        THEN c = TotalChunks(ds) - InlineElmts /\ e = 0
        ELSE c = MinElmts /\ e = TotalChunks(ds) - (InlineElmts + MinElmts)
    BY <1>1, <1>5
  <2> HIDE DEF part
  <2>2. /\ PartOf(ptr, 1) = Span(InlineElmts, c)
        /\ PartOf(ptr, 2) = Span(InlineElmts + c, e)
        /\ \A b \in 3 .. Pointers : PartOf(ptr, b) = << >>
        /\ \A b \in 1 .. Pointers : ptr[b] # Undefined => IsAt(ptr[b], "EADB")
    BY <1>0, <2>1, PartsAre
  <2> QED
    BY <1>1, <1>4, <2>2
<1>7. /\ part[1] = Span(i, c) /\ part[2] = Span(i + c, e)
      /\ \A b \in 3 .. n : part[b] = << >>
      /\ \A b \in 1 .. n : part[b] = PartOf(ptr, b)
  BY <1>3, <1>4, <1>6
<1> HIDE DEF part
<1>8. ListElements(block.elements, i, 0) = Span(0, i)
  <2>1. i <= i /\ 0 + i <= t /\ 0 \in Nat
    BY <1>2
  <2>2. ListElements(Elements(0, i), i, 0) = Span(0, i)
    BY <1>1, <2>1, ListBlock
  <2> QED
    BY <1>1, <2>2
<1> DEFINE w == [b \in 0 .. n |-> IF b = 0 THEN Span(0, i)
                                 ELSE IF b = 1 THEN Span(0, i + c) ELSE Span(0, t)]
<1>9. /\ w[0] = Span(0, i) /\ w[1] = Span(0, i + c) /\ w[n] = Span(0, t)
      /\ w = [b \in 0 .. n |-> w[b]]
      /\ \A b \in 2 .. n : w[b] = Span(0, t)
  BY <1>3
<1> HIDE DEF w
<1>10. ASSUME NEW b \in 1 .. n PROVE w[b] = w[b - 1] \o part[b]
  <2>1. CASE b = 1
    <3>1. b - 1 = 0
      BY <2>1
    <3>2. Span(0, i) \o Span(i, c) = Span(0, i + c)
      BY SpanConcat
    <3> QED
      BY <1>7, <1>9, <2>1, <3>1, <3>2
  <2>2. CASE b = 2
    <3>1. b - 1 = 1 /\ 2 \in 2 .. n
      BY <1>3, <2>2
    <3>2. i + c \in Nat /\ (i + c) + e = t
      BY <1>2, <1>5
    <3>3. Span(0, i + c) \o Span(i + c, e) = Span(0, (i + c) + e)
      BY <3>2, SpanConcat
    <3> QED
      BY <1>7, <1>9, <2>2, <3>1, <3>2, <3>3
  <2>3. CASE b # 1 /\ b # 2
    <3>1. b \in 3 .. n /\ b \in 2 .. n /\ b - 1 \in 2 .. n
      BY <2>3
    <3>2. Span(0, t) \in Seq(AllInfos)
      <4>1. 0 \in Nat
        OBVIOUS
      <4> QED
        BY <4>1, SpanType DEF IsSpan
    <3>3. Span(0, t) \o << >> = Span(0, t)
      BY <3>2
    <3> QED
      BY <1>7, <1>9, <3>1, <3>3
  <2> QED
    BY <2>1, <2>2, <2>3
<1> DEFINE Is(u) == u = [b \in 0 .. n |->
                           IF b = 0 THEN ListElements(block.elements, InlineElmts, 0)
                           ELSE u[b - 1] \o
                                (IF block.pointers[b] = Undefined THEN << >>
                                 ELSE ListElements(blocks[block.pointers[b]].elements,
                                                   ReaderSizes[b], FirstOf(b)))]
           upTo == CHOOSE u : Is(u)
<1>11. ListDataBlocks(block, TotalChunks(ds)) = upTo[n]
  BY <1>3, Zenon DEF ListDataBlocks
<1>12. Is(w)
  <2>1. \A b \in 0 .. n : b # 0 => b \in 1 .. n
    OBVIOUS
  <2>2. \A b \in 1 .. n :
          w[b] = w[b - 1] \o
                   (IF block.pointers[b] = Undefined THEN << >>
                    ELSE ListElements(blocks[block.pointers[b]].elements,
                                      ReaderSizes[b], FirstOf(b)))
    BY <1>0, <1>7, <1>10, Zenon DEF PartOf
  <2>3. w[0] = ListElements(block.elements, InlineElmts, 0)
    BY <1>1, <1>8, <1>9
  <2> QED
    BY <1>9, <2>1, <2>2, <2>3, Zenon
<1>13. Is(upTo)
  BY <1>12, Zenon
<1> HIDE DEF upTo
<1>14. upTo[0] = Span(0, i)
  <2>1. 0 \in 0 .. n
    OBVIOUS
  <2>2. upTo[0] = ListElements(block.elements, InlineElmts, 0)
    BY <1>13, <2>1, Zenon
  <2> QED
    BY <1>1, <1>8, <2>2
<1>15. ASSUME NEW b \in 1 .. n PROVE upTo[b] = upTo[b - 1] \o part[b]
  <2>1. b \in 0 .. n /\ b # 0
    OBVIOUS
  <2>2. upTo[b] = upTo[b - 1] \o
                   (IF block.pointers[b] = Undefined THEN << >>
                    ELSE ListElements(blocks[block.pointers[b]].elements,
                                      ReaderSizes[b], FirstOf(b)))
    BY <1>13, <2>1, Zenon
  <2> QED
    BY <1>0, <1>7, <2>2, Zenon DEF PartOf
<1> DEFINE S == {b \in 0 .. n : upTo[b] = w[b]}
<1>16. 0 \in S
  BY <1>9, <1>14
<1>17. ASSUME NEW b \in 0 .. n - 1, b \in S PROVE b + 1 \in S
  <2>1. b + 1 \in 1 .. n /\ (b + 1) - 1 = b /\ b + 1 \in 0 .. n
    OBVIOUS
  <2>2. upTo[b] = w[b]
    BY <1>17
  <2> QED
    BY <1>10, <1>15, <2>1, <2>2
<1> HIDE DEF S
<1>18. 0 .. n \subseteq S
  BY <1>16, <1>17, RangeInduction
<1>19. upTo[n] = w[n]
  BY <1>18 DEF S
<1>20. \A b \in DOMAIN ReaderSizes : ptr[b] # Undefined => IsAt(ptr[b], "EADB")
  BY <1>3, <1>4, <1>6
<1> QED
  BY <1>0, <1>1, <1>9, <1>11, <1>19, <1>20
-------------------------------------------------------------------------------
\* The geometry depends on the dataset only, which never changes.
LEMMA GeometryStable ==
  ASSUME ds' = ds
  PROVE  /\ \A i : ChunkData(i)' = ChunkData(i)
         /\ \A k, e, i : Holds(k, e, i)' <=> Holds(k, e, i)
         /\ Original' = Original
         /\ TotalChunks(ds)' = TotalChunks(ds)
         /\ RawSize(ds)' = RawSize(ds)
         /\ ChunkElements' = ChunkElements
<1>1. \A i : OffsetsOf(i)' = OffsetsOf(i) /\ SplitOffsets(i)' = SplitOffsets(i)
  BY DEF OffsetsOf, SplitOffsets, Dims, ChunksPerDim
<1>2. \A o, e : Global(o, e)' = Global(o, e)
  BY DEF Global, Dims
<1>3. \A x : (Inside(x)' <=> Inside(x)) /\ FlatIndex(x)' = FlatIndex(x)
  BY DEF Inside, FlatIndex, Dims
<1>4. Original' = Original /\ ChunkElements' = ChunkElements
  BY DEF Original, ChunkElements
<1>5. \A i : ChunkData(i)' = ChunkData(i)
  BY <1>1, <1>2, <1>3, <1>4 DEF ChunkData
<1>6. \A k, e, i : Holds(k, e, i)' <=> Holds(k, e, i)
  BY <1>1, <1>2, <1>3 DEF Holds
<1> QED
  BY <1>4, <1>5, <1>6

\* Elements and ChunkInfos depend on the dataset and the chunks placed.
LEMMA RecordsStable ==
  ASSUME ds' = ds, written' = written
  PROVE  /\ \A from, n : Elements(from, n)' = Elements(from, n)
         /\ \A m, c : Span(m, c)' = Span(m, c)
<1>1. \A i : OffsetsOf(i)' = OffsetsOf(i)
  BY DEF OffsetsOf, Dims, ChunksPerDim
<1>2. \A i : InfoOf(i)' = InfoOf(i)
  BY <1>1 DEF InfoOf
<1>3. \A c : Element(c)' = Element(c)
  BY DEF Element
<1> QED
  BY <1>2, <1>3 DEF Elements, Span
-------------------------------------------------------------------------------
\* Blocks lie before the end of the buffer.
LEMMA InBuffer ==
  ASSUME IInv
  PROVE  /\ base \in Nat /\ len \in Nat /\ IsFunction(blocks)
         /\ \A a \in DOMAIN blocks : a \in Nat /\ a < base + len
<1>1. Space(blocks, len) /\ base \in Nat /\ len \in Nat
  BY DEF IInv, Types
<1>2. ASSUME NEW a \in DOMAIN blocks PROVE a \in Nat /\ a < base + len
  <2>1. PICK n \in Nat \ {0} : n = BlockLen(blocks[a]) /\ a + n <= base + len /\ a \in Nat
    BY <1>1 DEF Space
  <2> QED
    BY <1>1, <2>1
<1> QED
  BY <1>1, <1>2 DEF Space

\* The chunks placed stay what they are.
LEMMA ChunksKept ==
  ASSUME ChunksInv, ds' = ds, written' = written,
         \A a \in DOMAIN blocks :
           blocks[a].kind = "chunk" => a \in DOMAIN blocks' /\ blocks'[a] = blocks[a],
         phase' = "chunks" => dblk' = 0,
         phase' # "chunks" => Len(written) = TotalChunks(ds)
  PROVE  ChunksInv'
<1>1. \A i : ChunkData(i)' = ChunkData(i)
  BY GeometryStable
<1>2. TotalChunks(ds)' = TotalChunks(ds) /\ RawSize(ds)' = RawSize(ds)
  BY GeometryStable
<1>3. ASSUME NEW i \in 1 .. Len(written)
      PROVE  IsStored(blocks, i)' /\ (written[i].size = StoredSize(i))'
  <2>1. IsStored(blocks, i) /\ written[i].size = StoredSize(i)
    BY DEF ChunksInv
  <2>2. blocks[written[i].address].kind = "chunk" /\ written[i].address \in DOMAIN blocks
    BY <2>1 DEF IsStored
  <2>3. IsStored(blocks, i)'
    BY <1>1, <2>1, <2>2 DEF IsStored
  <2>4. (written[i].size = StoredSize(i))'
    BY <1>2, <2>1 DEF StoredSize
  <2> QED
    BY <2>3, <2>4
<1> QED
  BY <1>2, <1>3 DEF ChunksInv

\* The index stays what it is.
LEMMA IndexKept ==
  ASSUME SingleInv, FixedInv, ExtensibleInv,
         UNCHANGED <<ds, blocks, written, layout, dblk>>,
         phase' # "data blocks" => phase # "data blocks" \/ dblk = Len(WriterSizes)
  PROVE  SingleInv' /\ FixedInv' /\ ExtensibleInv'
<1>1. TotalChunks(ds)' = TotalChunks(ds)
  BY GeometryStable
<1>2. \A from, n : Elements(from, n)' = Elements(from, n)
  BY RecordsStable
<1>3. SingleInv'
  BY <1>1 DEF SingleInv
<1>4. FixedInv'
  BY <1>1, <1>2 DEF FixedInv, FixedIndex
<1>5. ExtensibleInv'
  BY <1>1, <1>2 DEF ExtensibleInv, ExtensibleIndex, PointersTo, InUse, DataBlock, IndexBlock
<1> QED
  BY <1>3, <1>4, <1>5

\* The steps of the reader, and those that only change the phase.
LEMMA FileKept ==
  ASSUME ReadInv, UNCHANGED <<ds, blocks, written, layout, dblk>>,
         phase' = "chunks" => phase = "chunks",
         phase' # "chunks" => phase # "chunks",
         phase' # "data blocks" => phase # "data blocks" \/ dblk = Len(WriterSizes)
  PROVE  ChunksInv' /\ SingleInv' /\ FixedInv' /\ ExtensibleInv'
<1>1. ChunksInv /\ SingleInv /\ FixedInv /\ ExtensibleInv
  BY DEF ReadInv
<1>2. ChunksInv'
  <2>1. phase' = "chunks" => dblk' = 0
    BY <1>1 DEF ChunksInv
  <2>2. phase' # "chunks" => Len(written) = TotalChunks(ds)
    BY <1>1 DEF ChunksInv
  <2> QED
    BY <1>1, <2>1, <2>2, ChunksKept
<1>3. SingleInv' /\ FixedInv' /\ ExtensibleInv'
  BY <1>1, IndexKept
<1> QED
  BY <1>2, <1>3

LEMMA CopiesStable ==
  ASSUME ds' = ds, written' = written
  PROVE  /\ \A o, m : Copies(o, m)' <=> Copies(o, m)
         /\ \A m : RestOf(m)' = RestOf(m)
<1>1. /\ \A k, e, i : Holds(k, e, i)' <=> Holds(k, e, i)
      /\ Original' = Original
      /\ TotalChunks(ds)' = TotalChunks(ds)
      /\ ChunkElements' = ChunkElements
  BY GeometryStable
<1>2. \A m, c : Span(m, c)' = Span(m, c)
  BY RecordsStable
<1>3. \A o, m : Copies(o, m)' <=> Copies(o, m)
  BY <1>1 DEF Copies
<1>4. \A m : RestOf(m)' = RestOf(m)
  BY <1>1, <1>2 DEF RestOf
<1> QED
  BY <1>3, <1>4

LEMMA StutterReadInv == ASSUME ReadInv, UNCHANGED vars PROVE ReadInv'
<1>1. UNCHANGED <<ds, blocks, written, layout, dblk, phase, infos, out>>
  BY DEF vars
<1>2. ChunksInv' /\ SingleInv' /\ FixedInv' /\ ExtensibleInv'
  BY <1>1, FileKept
<1>3. CopyInv'
  <2>1. /\ \A o, m : Copies(o, m)' <=> Copies(o, m)
        /\ \A m : RestOf(m)' = RestOf(m)
    BY <1>1, CopiesStable
  <2>2. TotalChunks(ds)' = TotalChunks(ds) /\ Original' = Original
    BY <1>1, GeometryStable
  <2> QED
    BY <1>1, <2>1, <2>2 DEF ReadInv, CopyInv
<1> QED
  BY <1>2, <1>3 DEF ReadInv

LEMMA InitReadInv == Init => ReadInv
<1> SUFFICES ASSUME Init PROVE ReadInv
  OBVIOUS
<1>1. written = << >> /\ phase = "chunks" /\ layout.type = "none" /\ dblk = 0 /\ ds \in Datasets
  BY DEF Init
<1>2. ChunksInv
  <2>1. TotalChunks(ds) \in Nat
    BY <1>1, DatasetSizes
  <2> QED
    BY <1>1, <2>1 DEF ChunksInv
<1> QED
  BY <1>1, <1>2 DEF ReadInv, SingleInv, FixedInv, ExtensibleInv, CopyInv

\* A chunk is placed behind all blocks.
LEMMA PlaceChunkReadInv == ASSUME IInv, ReadInv, PlaceChunk PROVE ReadInv'
<1> DEFINE k == Len(written)
           size == IF ds.filtered THEN ds.stored[k % 2] ELSE RawSize(ds)
           at == base + Align(len)
           block == [kind |-> "chunk", size |-> size, data |-> ChunkData(k)]
<1>1. /\ phase = "chunks" /\ phase' = "chunks" /\ layout' = layout /\ ds' = ds /\ dblk' = dblk
      /\ Len(written) < TotalChunks(ds)
      /\ blocks' = With(blocks, at, block)
      /\ written' = Append(written, [address |-> at, size |-> size])
  BY DEF PlaceChunk, ChunkAddress
<1>2. layout.type = "none" /\ ChunksInv /\ ds \in Datasets
      /\ written \in Seq([address : Nat, size : Nat \ {0}])
  BY <1>1 DEF IInv, Types, ReadInv
<1>3. PICK n \in Nat : n = Len(written)
  BY <1>2
<1>4. TotalChunks(ds) \in Nat
  BY <1>2, DatasetSizes
<1>5. k = n /\ block = [kind |-> "chunk", size |-> size, data |-> ChunkData(n)]
      /\ size = IF ds.filtered THEN ds.stored[n % 2] ELSE RawSize(ds)
  BY <1>3
<1> HIDE DEF k, size, block
<1>6. at \notin DOMAIN blocks
  <2>1. Align(len) \in Nat /\ Align(len) >= len
    BY InBuffer, AlignUp
  <2> HIDE DEF at
  <2>2. at = base + Align(len)
    BY DEF at
  <2>3. at \in DOMAIN blocks => at < base + len
    BY InBuffer
  <2> QED
    BY <2>1, <2>2, <2>3, InBuffer
<1>7. /\ at \in DOMAIN blocks' /\ blocks'[at] = block
      /\ \A a \in DOMAIN blocks : a \in DOMAIN blocks' /\ blocks'[a] = blocks[a]
  <2> HIDE DEF at
  <2> DEFINE w == With(blocks, at, block)
  <2>1. /\ DOMAIN w = DOMAIN blocks \cup {at}
        /\ w[at] = block
        /\ \A a \in DOMAIN blocks : w[a] = blocks[a]
    BY <1>6 DEF With
  <2>2. blocks' = w
    BY <1>1
  <2> HIDE DEF w
  <2> QED
    BY <2>1, <2>2
<1> HIDE DEF at
<1>8. /\ Len(written') = n + 1
      /\ written'[n + 1] = [address |-> at, size |-> size]
      /\ \A i \in 1 .. n : written'[i] = written[i]
  BY <1>1, <1>2, <1>3
<1>9. \A i : ChunkData(i)' = ChunkData(i)
  BY <1>1, GeometryStable
<1>10. TotalChunks(ds)' = TotalChunks(ds) /\ RawSize(ds)' = RawSize(ds)
  BY <1>1, GeometryStable
<1>11. ASSUME NEW i \in 1 .. n + 1
       PROVE  IsStored(blocks, i)' /\ (written[i].size = StoredSize(i))'
  <2>1. CASE i = n + 1
    <3>1. i - 1 = n
      BY <2>1
    <3>2. written'[i].address = at /\ written'[i].size = size
      BY <1>8, <2>1
    <3>3. IsStored(blocks, i)'
      BY <1>5, <1>7, <1>9, <3>1, <3>2 DEF IsStored
    <3>4. (written[i].size = StoredSize(i))'
      BY <1>1, <1>5, <1>10, <3>1, <3>2 DEF StoredSize
    <3> QED
      BY <3>3, <3>4
  <2>2. CASE i # n + 1
    <3>1. i \in 1 .. n
      BY <2>2
    <3>2. IsStored(blocks, i) /\ written[i].size = StoredSize(i) /\ written'[i] = written[i]
      BY <1>2, <1>3, <1>8, <3>1 DEF ChunksInv
    <3>3. IsStored(blocks, i)'
      BY <1>7, <1>9, <3>2 DEF IsStored
    <3>4. (written[i].size = StoredSize(i))'
      BY <1>1, <1>10, <3>2 DEF StoredSize
    <3> QED
      BY <3>3, <3>4
  <2> QED
    BY <2>1, <2>2
<1>12. ChunksInv'
  <2>1. n + 1 <= TotalChunks(ds)
    BY <1>1, <1>3, <1>4
  <2> QED
    BY <1>1, <1>2, <1>8, <1>10, <1>11, <2>1 DEF ChunksInv
<1> QED
  BY <1>1, <1>2, <1>12 DEF ReadInv, SingleInv, FixedInv, ExtensibleInv, CopyInv

\* The single chunk needs no index.
LEMMA PlaceSingleReadInv == ASSUME ReadInv, PlaceSingle PROVE ReadInv'
<1>1. /\ phase = "chunks" /\ phase' = "written" /\ ~ds.unlimited /\ TotalChunks(ds) = 1
      /\ Len(written) = TotalChunks(ds)
      /\ layout' = [type |-> "single", address |-> written[1].address, size |-> written[1].size]
      /\ UNCHANGED <<ds, blocks, written, dblk>>
  BY DEF PlaceSingle, ChunksPlaced
<1>2. ChunksInv'
  BY <1>1, ChunksKept DEF ReadInv
<1>3. TotalChunks(ds)' = TotalChunks(ds)
  BY <1>1, GeometryStable
<1>4. SingleInv' /\ FixedInv' /\ ExtensibleInv'
  BY <1>1, <1>3 DEF SingleInv, FixedInv, ExtensibleInv
<1> QED
  BY <1>1, <1>2, <1>4 DEF ReadInv, CopyInv

\* Two blocks behind all others.
LEMMA TwoPlaced ==
  ASSUME NEW bs, NEW at \in Nat, NEW n \in Nat \ {0}, NEW b, NEW c,
         \A a \in DOMAIN bs : a \in Nat /\ a < at
  PROVE  LET w == With(With(bs, at, b), at + n, c)
         IN /\ at \in DOMAIN w /\ w[at] = b
            /\ at + n \in DOMAIN w /\ w[at + n] = c
            /\ \A a \in DOMAIN bs : a \in DOMAIN w /\ w[a] = bs[a]
<1> DEFINE v == With(bs, at, b)
           at2 == at + n
           w == With(v, at2, c)
<1>1. at2 # at /\ at \notin DOMAIN bs /\ at2 \notin DOMAIN bs
  BY SMT
<1> HIDE DEF at2
<1>2. /\ DOMAIN v = DOMAIN bs \cup {at}
      /\ v[at] = b
      /\ \A a \in DOMAIN bs : v[a] = bs[a]
  BY <1>1 DEF With
<1> HIDE DEF v
<1>3. at2 \notin DOMAIN v
  BY <1>1, <1>2
<1>4. /\ DOMAIN w = DOMAIN v \cup {at2}
      /\ w[at2] = c
      /\ \A a \in DOMAIN v : w[a] = v[a]
  BY <1>3 DEF With
<1> HIDE DEF w
<1>5. /\ at \in DOMAIN w /\ w[at] = b
      /\ at2 \in DOMAIN w /\ w[at2] = c
      /\ \A a \in DOMAIN bs : a \in DOMAIN w /\ w[a] = bs[a]
  BY <1>2, <1>4
<1> QED
  BY <1>5 DEF w, v, at2

\* Where an index is put.
LEMMA IndexAddress ==
  ASSUME IInv
  PROVE  base + Align(len) \in Nat /\ \A a \in DOMAIN blocks : a \in Nat /\ a < base + Align(len)
<1>1. base \in Nat /\ len \in Nat /\ \A a \in DOMAIN blocks : a \in Nat /\ a < base + len
  BY InBuffer
<1>2. PICK m \in Nat : m = Align(len) /\ m >= len
  BY <1>1, AlignUp
<1> QED
  BY <1>1, <1>2

\* A fixed array names all chunks.
LEMMA PlaceFixedReadInv == ASSUME IInv, ReadInv, PlaceFixed PROVE ReadInv'
<1> DEFINE at == base + Align(len)
           header == [kind |-> "FAHD", bits |-> PageBits, count |-> TotalChunks(ds),
                      block |-> at + FixedHeaderSize]
           block == [kind |-> "FADB", elements |-> Elements(0, TotalChunks(ds))]
<1>1. /\ phase = "chunks" /\ phase' = "written" /\ ~ds.unlimited
      /\ Len(written) = TotalChunks(ds)
      /\ blocks' = With(With(blocks, at, header), at + BlockLen(header), block)
      /\ layout' = [type |-> "fixed", address |-> at]
      /\ UNCHANGED <<ds, written, dblk>>
  BY DEF PlaceFixed, ChunksPlaced
<1>2. BlockLen(header) = 28 /\ header.block = at + 28
  BY DEF BlockLen, FixedHeaderSize
<1>3. /\ header.kind = "FAHD" /\ header.bits = PageBits /\ header.count = TotalChunks(ds)
      /\ block.kind = "FADB" /\ block.elements = Elements(0, TotalChunks(ds))
  OBVIOUS
<1>4. at \in Nat /\ \A a \in DOMAIN blocks : a \in Nat /\ a < at
  BY IndexAddress
<1>5. blocks' = With(With(blocks, at, header), at + 28, block)
  BY <1>1, <1>2
<1> HIDE DEF header, block, at
<1>6. /\ at \in DOMAIN blocks' /\ blocks'[at] = header
      /\ at + 28 \in DOMAIN blocks' /\ blocks'[at + 28] = block
      /\ \A a \in DOMAIN blocks : a \in DOMAIN blocks' /\ blocks'[a] = blocks[a]
  <2>1. 28 \in Nat \ {0}
    OBVIOUS
  <2>2. LET w == With(With(blocks, at, header), at + 28, block)
         IN /\ at \in DOMAIN w /\ w[at] = header
            /\ at + 28 \in DOMAIN w /\ w[at + 28] = block
            /\ \A a \in DOMAIN blocks : a \in DOMAIN w /\ w[a] = blocks[a]
    BY <1>4, <2>1, TwoPlaced
  <2> QED
    BY <1>5, <2>2
<1>7. ChunksInv'
  BY <1>1, <1>6, ChunksKept DEF ReadInv
<1>8. TotalChunks(ds)' = TotalChunks(ds)
  BY <1>1, GeometryStable
<1>9. Elements(0, TotalChunks(ds))' = Elements(0, TotalChunks(ds))
  <2>1. \A from, n : Elements(from, n)' = Elements(from, n)
    BY <1>1, RecordsStable
  <2> QED
    BY <1>8, <2>1
<1>10. FixedInv'
  BY <1>1, <1>2, <1>3, <1>6, <1>8, <1>9 DEF FixedInv, FixedIndex
<1>11. SingleInv' /\ ExtensibleInv'
  BY <1>1 DEF SingleInv, ExtensibleInv
<1> QED
  BY <1>1, <1>7, <1>10, <1>11 DEF ReadInv, CopyInv

\* An index block names the first chunks and has no data blocks yet.
LEMMA PlaceExtensibleReadInv == ASSUME IInv, ReadInv, PlaceExtensible PROVE ReadInv'
<1> DEFINE at == base + Align(len)
           ps == [i \in 1 .. Pointers |-> Undefined]
           es == Elements(0, InlineElmts)
           header == [kind |-> "EAHD", count |-> TotalChunks(ds),
                      block |-> at + ExtensibleHeaderSize]
           block == [kind |-> "EAIB", elements |-> es, pointers |-> ps]
<1>1. /\ phase = "chunks" /\ phase' = "data blocks" /\ ds.unlimited
      /\ Len(written) = TotalChunks(ds)
      /\ blocks' = With(With(blocks, at, header), at + BlockLen(header), block)
      /\ layout' = [type |-> "extensible", address |-> at]
      /\ UNCHANGED <<ds, written, dblk>>
  BY DEF PlaceExtensible, ChunksPlaced
<1>2. BlockLen(header) = 72 /\ header.block = at + 72 /\ IndexBlock' = at + 72
  BY <1>1 DEF BlockLen, ExtensibleHeaderSize, IndexBlock
<1>3. /\ header.kind = "EAHD" /\ header.count = TotalChunks(ds)
      /\ block = [kind |-> "EAIB", elements |-> Elements(0, InlineElmts), pointers |-> ps]
  OBVIOUS
<1>4. at \in Nat /\ \A a \in DOMAIN blocks : a \in Nat /\ a < at
  BY IndexAddress
<1>5. blocks' = With(With(blocks, at, header), at + 72, block)
  BY <1>1, <1>2
<1>6. ps \in [1 .. Pointers -> Nat \cup {Undefined}] /\ \A i \in 1 .. Pointers : ps[i] = Undefined
  OBVIOUS
<1> HIDE DEF header, block, at, ps, es
<1>7. /\ at \in DOMAIN blocks' /\ blocks'[at] = header
      /\ at + 72 \in DOMAIN blocks' /\ blocks'[at + 72] = block
      /\ \A a \in DOMAIN blocks : a \in DOMAIN blocks' /\ blocks'[a] = blocks[a]
  <2>1. 72 \in Nat \ {0}
    OBVIOUS
  <2>2. LET w == With(With(blocks, at, header), at + 72, block)
         IN /\ at \in DOMAIN w /\ w[at] = header
            /\ at + 72 \in DOMAIN w /\ w[at + 72] = block
            /\ \A a \in DOMAIN blocks : a \in DOMAIN w /\ w[a] = blocks[a]
    BY <1>4, <2>1, TwoPlaced
  <2> QED
    BY <1>5, <2>2
<1>8. ChunksInv'
  BY <1>1, <1>7, ChunksKept DEF ReadInv
<1>9. TotalChunks(ds)' = TotalChunks(ds)
  BY <1>1, GeometryStable
<1>10. Elements(0, InlineElmts)' = Elements(0, InlineElmts)
  BY <1>1, RecordsStable
<1>11. ExtensibleIndex(blocks', at, TotalChunks(ds), Elements(0, InlineElmts), ps)
  BY <1>2, <1>3, <1>7 DEF ExtensibleIndex
<1>12. PointersTo(blocks, ps, dblk)'
  <2>1. dblk' = 0
    BY <1>1 DEF ReadInv, ChunksInv
  <2>2. \A b \in 1 .. Pointers : ~(b <= 0)
    OBVIOUS
  <2>3. \A b \in 1 .. Pointers : ~InUse(b, dblk)'
    BY <2>1, <2>2 DEF InUse
  <2> QED
    BY <1>6, <2>3 DEF PointersTo
<1>13. blocks'[layout'.address].block = IndexBlock'
  BY <1>1, <1>2, <1>7
<1>14. (\E pointers \in [1 .. Pointers -> Nat \cup {Undefined}] :
         /\ ExtensibleIndex(blocks, layout.address, TotalChunks(ds),
                            Elements(0, InlineElmts), pointers)
         /\ PointersTo(blocks, pointers, dblk))'
  <2>1. ExtensibleIndex(blocks, layout.address, TotalChunks(ds), Elements(0, InlineElmts), ps)'
    BY <1>1, <1>9, <1>10, <1>11 DEF ExtensibleIndex
  <2> QED
    BY <1>6, <1>12, <2>1
<1>15. ExtensibleInv'
  BY <1>1, <1>13, <1>14 DEF ExtensibleInv
<1>16. SingleInv' /\ FixedInv'
  BY <1>1 DEF SingleInv, FixedInv
<1> QED
  BY <1>1, <1>8, <1>15, <1>16 DEF ReadInv, CopyInv
-------------------------------------------------------------------------------
\* A data block in the place its pointer in the index block tells.
LEMMA FillReadInv ==
  ASSUME IInv, ReadInv, PlaceDataBlock, ChunksBefore(dblk) < TotalChunks(ds) PROVE ReadInv'
<1> DEFINE es == Elements(ChunksBefore(dblk), WriterSizes[dblk + 1])
           block == [kind |-> "EADB", elements |-> es]
           i0 == IndexBlock
           j == dblk + 1
           bs == [blocks EXCEPT ![i0].pointers[j] = cursor]
           h == layout.address
<1>1. /\ phase = "data blocks" /\ phase' = "data blocks"
      /\ dblk < Len(WriterSizes) /\ dblk' = j
      /\ UNCHANGED <<ds, written, layout>>
      /\ blocks' = With(bs, base + len, block)
  BY DEF PlaceDataBlock, DataBlocksLeft
<1>2. /\ layout.type = "extensible" /\ cursor = base + len /\ cursor \in Nat /\ dblk \in Nat
      /\ j \in 1 .. Pointers /\ Types
  <2>1. Types /\ layout.type = "extensible" /\ cursor = base + len
    BY <1>1 DEF IInv
  <2> QED
    BY <1>1, <2>1, NextDataBlock DEF Types
<1>3. PICK ps \in [1 .. Pointers -> Nat \cup {Undefined}] :
        /\ ExtensibleIndex(blocks, h, TotalChunks(ds), Elements(0, InlineElmts), ps)
        /\ PointersTo(blocks, ps, dblk)
  BY <1>2 DEF ReadInv, ExtensibleInv
<1>4. blocks[h].block = i0 /\ ds.unlimited
  BY <1>2 DEF ReadInv, ExtensibleInv
<1>5. /\ h \in DOMAIN blocks /\ blocks[h].kind = "EAHD" /\ blocks[h].count = TotalChunks(ds)
      /\ i0 \in DOMAIN blocks
      /\ blocks[i0] = [kind |-> "EAIB", elements |-> Elements(0, InlineElmts), pointers |-> ps]
  BY <1>3, <1>4 DEF ExtensibleIndex
<1>6. PICK qs \in [1 .. Pointers -> Nat \cup {Undefined}] :
      /\ qs = [ps EXCEPT ![j] = cursor]
      /\ qs[j] = cursor
      /\ \A b \in 1 .. Pointers : b # j => qs[b] = ps[b]
  <2> DEFINE q == [ps EXCEPT ![j] = cursor]
  <2>1. q \in [1 .. Pointers -> Nat \cup {Undefined}]
    BY <1>2
  <2>2. q[j] = cursor /\ \A b \in 1 .. Pointers : b # j => q[b] = ps[b]
    BY <1>2
  <2>3. q = [ps EXCEPT ![j] = cursor]
    OBVIOUS
  <2> HIDE DEF q
  <2> QED
    BY <2>1, <2>2, <2>3
<1>7. IsFunction(blocks) /\ cursor \notin DOMAIN blocks
  <2>1. /\ base \in Nat /\ len \in Nat /\ IsFunction(blocks)
        /\ \A a \in DOMAIN blocks : a \in Nat /\ a < base + len
    BY InBuffer
  <2>2. ~(cursor < base + len)
    BY <1>2, <2>1
  <2> QED
    BY <2>1, <2>2
<1>8. /\ DOMAIN bs = DOMAIN blocks
      /\ bs[i0] = [kind |-> "EAIB", elements |-> Elements(0, InlineElmts), pointers |-> qs]
      /\ \A a \in DOMAIN blocks : a # i0 => bs[a] = blocks[a]
  <2>1. bs = [blocks EXCEPT ![i0] =
                [blocks[i0] EXCEPT !.pointers = [blocks[i0].pointers EXCEPT ![j] = cursor]]]
    OBVIOUS
  <2> DEFINE ib == [blocks[i0] EXCEPT !.pointers = [blocks[i0].pointers EXCEPT ![j] = cursor]]
  <2>2. ib = [kind |-> "EAIB", elements |-> Elements(0, InlineElmts), pointers |-> qs]
    BY <1>5, <1>6
  <2> HIDE DEF ib, i0
  <2>3. bs = [blocks EXCEPT ![i0] = ib]
    BY <2>1 DEF ib
  <2> HIDE DEF bs
  <2> QED
    BY <1>5, <1>7, <2>2, <2>3 DEF IsFunction
<1>9. blocks' = With(bs, cursor, block)
  BY <1>1, <1>2
<1>10. es = Elements(ChunksBefore(j - 1), WriterSizes[j])
  <2>1. j - 1 = dblk
    BY <1>2
  <2> QED
    BY <2>1
<1>11. dblk + 1 = j
  OBVIOUS
<1> HIDE DEF bs, es, i0, j, h
<1>12. /\ DOMAIN blocks' = DOMAIN blocks \cup {cursor}
       /\ blocks'[cursor] = block
       /\ blocks'[i0] = bs[i0]
       /\ \A a \in DOMAIN blocks : a # i0 => blocks'[a] = blocks[a]
  <2> HIDE DEF block
  <2>1. DOMAIN bs = DOMAIN blocks /\ \A a \in DOMAIN blocks : a # cursor
    BY <1>7, <1>8
  <2> QED
    BY <1>5, <1>8, <1>9, <2>1 DEF With
<1>13. ChunksInv'
  <2>1. \A a \in DOMAIN blocks :
          blocks[a].kind = "chunk" => a \in DOMAIN blocks' /\ blocks'[a] = blocks[a]
    <3>1. blocks[i0].kind = "EAIB"
      BY <1>5
    <3> QED
      BY <1>12, <3>1
  <2>2. ChunksInv /\ Len(written) = TotalChunks(ds)
    BY <1>1 DEF ReadInv, ChunksInv
  <2> QED
    BY <1>1, <2>1, <2>2, ChunksKept
<1>14. TotalChunks(ds)' = TotalChunks(ds)
  BY <1>1, GeometryStable
<1>15. \A from, n : Elements(from, n)' = Elements(from, n)
  BY <1>1, RecordsStable
<1>16. /\ h \in DOMAIN blocks' /\ blocks'[h] = blocks[h]
       /\ i0 \in DOMAIN blocks'
       /\ blocks'[i0] = [kind |-> "EAIB", elements |-> Elements(0, InlineElmts), pointers |-> qs]
  <2>1. blocks[i0].kind = "EAIB"
    BY <1>5
  <2>2. h # i0
    BY <1>5, <2>1
  <2> QED
    BY <1>5, <1>8, <1>12, <2>2
<1>17. ExtensibleIndex(blocks', h, TotalChunks(ds), Elements(0, InlineElmts), qs)
  BY <1>4, <1>5, <1>16 DEF ExtensibleIndex
<1>18. ASSUME NEW a, NEW elements, DataBlock(blocks, a, elements) PROVE DataBlock(blocks', a, elements)
  <2>1. a \in DOMAIN blocks /\ blocks[a] = [kind |-> "EADB", elements |-> elements]
    BY <1>18 DEF DataBlock
  <2>2. blocks[a].kind = "EADB" /\ blocks[i0].kind = "EAIB"
    BY <1>5, <2>1
  <2>3. a # i0
    BY <2>2
  <2> QED
    BY <1>12, <2>1, <2>3 DEF DataBlock
<1>19. PointersTo(blocks', qs, j)
  <2> SUFFICES ASSUME NEW b \in 1 .. Pointers
               PROVE  IF InUse(b, j)
                      THEN DataBlock(blocks', qs[b], Elements(ChunksBefore(b - 1), WriterSizes[b]))
                      ELSE qs[b] = Undefined
    BY DEF PointersTo
  <2>1. CASE b = j
    <3>1. DataBlock(blocks', cursor, es)
      BY <1>12 DEF DataBlock
    <3> QED
      <4>1. j - 1 = dblk
        BY <1>2, <1>11
      <4>2. InUse(j, j)
        BY <1>2, <4>1 DEF InUse
      <4> QED
        BY <1>6, <1>10, <2>1, <3>1, <4>2
  <2>2. CASE b # j
    <3>1. InUse(b, j) <=> InUse(b, dblk)
      <4>1. b <= j <=> b <= dblk
        BY <1>2, <1>11, <2>2
      <4> QED
        BY <4>1 DEF InUse
    <3>2. IF InUse(b, dblk)
          THEN DataBlock(blocks, ps[b], Elements(ChunksBefore(b - 1), WriterSizes[b]))
          ELSE ps[b] = Undefined
      BY <1>3 DEF PointersTo
    <3>3. qs[b] = ps[b]
      BY <1>6, <2>2
    <3> QED
      BY <1>18, <3>1, <3>2, <3>3
  <2> QED
    BY <2>1, <2>2
<1>20. ExtensibleInv'
  <2>1. blocks'[h].block = IndexBlock' /\ layout'.address = h
    BY <1>1, <1>4, <1>16 DEF IndexBlock, h, i0
  <2>2. ExtensibleIndex(blocks, layout.address, TotalChunks(ds), Elements(0, InlineElmts), qs)'
    BY <1>14, <1>15, <1>17, <2>1 DEF ExtensibleIndex
  <2>3. PointersTo(blocks, qs, dblk)'
    BY <1>1, <1>14, <1>15, <1>19 DEF PointersTo, InUse, DataBlock
  <2> QED
    BY <1>1, <1>4, <1>6, <2>1, <2>2, <2>3 DEF ExtensibleInv
<1>21. SingleInv' /\ FixedInv'
  BY <1>1, <1>2 DEF SingleInv, FixedInv
<1> QED
  BY <1>1, <1>13, <1>20, <1>21 DEF ReadInv, CopyInv

\* An entry of dblk_sizes, in use or not.
LEMMA PlaceDataBlockReadInv == ASSUME IInv, ReadInv, PlaceDataBlock PROVE ReadInv'
<1>1. CASE ChunksBefore(dblk) < TotalChunks(ds)
  BY <1>1, FillReadInv
<1>2. CASE ~(ChunksBefore(dblk) < TotalChunks(ds))
  <2>1. /\ phase = "data blocks" /\ phase' = "data blocks"
        /\ dblk < Len(WriterSizes) /\ dblk' = dblk + 1
        /\ UNCHANGED <<ds, blocks, written, layout>>
    BY <1>2 DEF PlaceDataBlock, DataBlocksLeft
  <2>2. dblk \in Nat /\ layout.type = "extensible"
    BY <2>1 DEF IInv, Types
  <2>3. ChunksInv'
    <3>1. ChunksInv /\ Len(written) = TotalChunks(ds)
      BY <2>1 DEF ReadInv, ChunksInv
    <3> QED
      BY <2>1, <3>1, ChunksKept
  <2>4. TotalChunks(ds)' = TotalChunks(ds)
    BY <2>1, GeometryStable
  <2>5. \A from, n : Elements(from, n)' = Elements(from, n)
    BY <2>1, RecordsStable
  <2>6. ASSUME NEW b \in 1 .. Pointers PROVE InUse(b, dblk + 1) <=> InUse(b, dblk)
    <3>1. CASE b = dblk + 1
      <4>1. b - 1 = dblk
        BY <2>2, <3>1
      <4> QED
        BY <1>2, <2>2, <3>1, <4>1 DEF InUse
    <3>2. CASE b # dblk + 1
      <4>1. b <= dblk + 1 <=> b <= dblk
        BY <2>2, <3>2
      <4> QED
        BY <4>1 DEF InUse
    <3> QED
      BY <3>1, <3>2
  <2>7. PICK ps \in [1 .. Pointers -> Nat \cup {Undefined}] :
          /\ ExtensibleIndex(blocks, layout.address, TotalChunks(ds), Elements(0, InlineElmts), ps)
          /\ PointersTo(blocks, ps, dblk)
    BY <2>2 DEF ReadInv, ExtensibleInv
  <2>8. PointersTo(blocks, ps, dblk + 1)
    BY <2>6, <2>7 DEF PointersTo
  <2>9. PointersTo(blocks, ps, dblk)'
    BY <2>1, <2>4, <2>5, <2>8 DEF PointersTo, InUse, DataBlock
  <2>10. ExtensibleIndex(blocks, layout.address, TotalChunks(ds), Elements(0, InlineElmts), ps)'
    BY <2>1, <2>4, <2>5, <2>7 DEF ExtensibleIndex
  <2>11. ds.unlimited /\ blocks[layout.address].block = IndexBlock
    BY <2>2 DEF ReadInv, ExtensibleInv
  <2>12. ExtensibleInv'
    BY <2>1, <2>9, <2>10, <2>11 DEF ExtensibleInv, IndexBlock
  <2>13. SingleInv' /\ FixedInv'
    BY <2>1, <2>2 DEF SingleInv, FixedInv
  <2> QED
    BY <2>1, <2>3, <2>12, <2>13 DEF ReadInv, CopyInv
<1> QED
  BY <1>1, <1>2

LEMMA FinishReadInv == ASSUME IInv, ReadInv, FinishExtensible PROVE ReadInv'
<1>1. /\ phase = "data blocks" /\ phase' = "written" /\ dblk = Len(WriterSizes)
      /\ UNCHANGED <<ds, blocks, written, layout, dblk>>
  BY DEF FinishExtensible
<1>2. ChunksInv' /\ SingleInv' /\ FixedInv' /\ ExtensibleInv'
  BY <1>1, FileKept
<1> QED
  BY <1>1, <1>2 DEF ReadInv, CopyInv
-------------------------------------------------------------------------------
\* Nothing has been copied yet: all chunks are listed.
LEMMA ListedReadInv ==
  ASSUME ReadInv, ds \in Datasets, phase = "written", Listed(RestOf(0)) PROVE ReadInv'
<1>1. /\ phase' = "copying" /\ infos' = RestOf(0) /\ out' = Blank
      /\ UNCHANGED <<ds, blocks, written, layout, dblk>>
  BY DEF Listed
<1>2. ChunksInv' /\ SingleInv' /\ FixedInv' /\ ExtensibleInv'
  BY <1>1, FileKept
<1>3. Copies(Blank, 0)
  <2>1. Blank = [i \in DOMAIN Original |-> Blank[i]]
    BY DEF Blank
  <2>2. 0 .. 0 - 1 = {}
    OBVIOUS
  <2> QED
    BY <2>1, <2>2 DEF Copies
<1>4. TotalChunks(ds)' = TotalChunks(ds) /\ 0 \in 0 .. TotalChunks(ds)
  <2>1. TotalChunks(ds) \in Nat
    BY DatasetSizes
  <2> QED
    BY <1>1, <2>1, GeometryStable
<1>5. /\ \A o, m : Copies(o, m)' <=> Copies(o, m)
      /\ \A m : RestOf(m)' = RestOf(m)
  BY <1>1, CopiesStable
<1>6. PICK z \in 0 .. TotalChunks(ds) : z = 0
  BY <1>4
<1>7. infos' = RestOf(z)' /\ Copies(out, z)'
  <2>1. Copies(out', z)
    BY <1>1, <1>3, <1>6
  <2>2. \A o : Copies(o, z)' <=> Copies(o, z)
    BY <1>5
  <2>3. PICK o : o = out'
    OBVIOUS
  <2>4. Copies(o, z)'
    BY <2>1, <2>2, <2>3
  <2>5. Copies(out, z)'
    BY <2>3, <2>4 DEF Copies
  <2> QED
    BY <1>1, <1>5, <1>6, <2>5
<1>8. CopyInv'
  BY <1>1, <1>4, <1>7 DEF CopyInv
<1> QED
  BY <1>2, <1>8 DEF ReadInv

\* Once all chunks are placed, a reader finds the file complete.
LEMMA IsComplete ==
  ASSUME IInv, ReadInv, phase # "chunks", \A s \in Datasets : Readable(s)
  PROVE  Complete /\ RestOf(0) = Span(0, TotalChunks(ds)) /\ TotalChunks(ds) \in Nat
<1>1. ds \in Datasets /\ written \in Seq([address : Nat, size : Nat \ {0}])
      /\ DOMAIN blocks \subseteq Nat
  BY DEF IInv, Types, Space
<1>2. ChunksInv /\ Len(written) = TotalChunks(ds)
  BY DEF ReadInv, ChunksInv
<1>3. TotalChunks(ds) \in Nat
  BY <1>1, DatasetSizes
<1>4. TotalChunks(ds) - 0 = TotalChunks(ds)
  BY <1>3
<1> QED
  BY <1>1, <1>2, <1>3, <1>4 DEF Complete, RestOf

\* The only chunk is at the origin.
LEMMA OneChunk ==
  ASSUME ds \in Datasets, TotalChunks(ds) = 1 PROVE OffsetsOf(0) = [d \in Dims |-> 0]
<1>1. PICK n \in Nat :
           /\ Len(ds.shape) = n /\ DOMAIN ds.shape = 1 .. n
           /\ \A d \in 1 .. n : ds.shape[d] \in Nat /\ ds.chunk[d] \in Nat \ {0}
  BY DatasetType
<1>2. PICK g \in Seq(Nat) : g = GridOf(ds) /\ Len(g) = n /\ Product(g) = 1
  BY <1>1, GridType DEF TotalChunks
<1>3. 0 .. Product(g) - 1 = {0} /\ 0 \in 0 .. Product(g) - 1
  BY <1>2
<1>4. PICK x \in [1 .. n -> Nat] : \A d \in 1 .. n : x[d] < g[d]
  BY <1>2, <1>3, Coordinates
<1>5. \A d \in 1 .. n : g[d] \in Nat /\ 0 < g[d]
  BY <1>2, <1>4
<1> DEFINE z == [d \in 1 .. n |-> 0]
<1>6. z \in [1 .. n -> Nat] /\ \A d \in 1 .. n : z[d] = 0 /\ z[d] < g[d]
  BY <1>5
<1> HIDE DEF z
<1>7. PICK k \in 0 .. Product(g) - 1 : \A d \in 1 .. n : (k \div Stride(g, d)) % g[d] = z[d]
  BY <1>2, <1>6, Digits, Zenon
<1>8. k = 0
  BY <1>3
<1>9. ASSUME NEW d \in 1 .. n
      PROVE  ((0 \div Stride(ChunksPerDim, d)) % ChunksPerDim[d]) * ds.chunk[d] = 0
  <2>1. (0 \div Stride(ChunksPerDim, d)) % ChunksPerDim[d] = 0
    BY <1>2, <1>6, <1>7, <1>8 DEF ChunksPerDim
  <2>2. PICK c \in Nat : c = ds.chunk[d]
    BY <1>1
  <2>3. 0 * c = 0
    OBVIOUS
  <2> QED
    BY <2>1, <2>2, <2>3
<1> QED
  BY <1>1, <1>9 DEF OffsetsOf, Dims

\* The three indexes lead to the list of all chunks.
LEMMA ListSingleReadInv ==
  ASSUME IInv, ReadInv, ListSingle, \A s \in Datasets : Readable(s) PROVE ReadInv'
<1>1. phase = "written" /\ layout.type = "single"
  BY DEF ListSingle
<1>2. Complete /\ RestOf(0) = Span(0, TotalChunks(ds))
  BY <1>1, IsComplete
<1>3. TotalChunks(ds) = 1 /\ layout.address = written[1].address /\ layout.size = written[1].size
  BY <1>1 DEF ReadInv, SingleInv
<1>4. 1 \in 1 .. Len(written) /\ 1 - 1 = 0
  BY <1>2, <1>3 DEF Complete
<1>5. written[1].size = IF ds.filtered THEN ds.stored[0] ELSE RawSize(ds)
  <2>1. 0 % 2 = 0
    OBVIOUS
  <2>2. written[1].size = StoredSize(1)
    BY <1>2, <1>4 DEF Complete, ChunksInv
  <2> QED
    BY <1>4, <2>1, <2>2 DEF StoredSize
<1> DEFINE info == [address |-> layout.address,
                    size |-> IF ds.filtered THEN layout.size ELSE RawSize(ds),
                    offsets |-> [d \in Dims |-> 0]]
<1>6. info = InfoOf(1)
  <2>1. OffsetsOf(1 - 1) = [d \in Dims |-> 0]
    BY <1>2, <1>3, <1>4, OneChunk DEF Complete
  <2>2. (IF ds.filtered THEN layout.size ELSE RawSize(ds)) = written[1].size
    BY <1>3, <1>5
  <2> QED
    BY <1>3, <2>1, <2>2 DEF InfoOf
<1>7. Listed(<<info>>)
  BY DEF ListSingle
<1> HIDE DEF info
<1>8. <<info>> = Span(0, 1)
  <2>1. Span(0, 0) = << >> /\ 0 \in Nat /\ 0 + (0 + 1) = 1 /\ 0 + 1 = 1
    BY DEF Span
  <2>2. Append(Span(0, 0), InfoOf(0 + (0 + 1))) = Span(0, 0 + 1)
    BY <2>1, SpanAppend
  <2>3. Append(<< >>, info) = <<info>>
    OBVIOUS
  <2> QED
    BY <1>6, <2>1, <2>2, <2>3
<1> QED
  BY <1>1, <1>2, <1>3, <1>7, <1>8, ListedReadInv DEF Complete

LEMMA ListFixedReadInv ==
  ASSUME IInv, ReadInv, ListFixed, \A s \in Datasets : Readable(s) PROVE ReadInv'
<1>1. phase = "written" /\ layout.type = "fixed"
  BY DEF ListFixed
<1>2. Complete /\ RestOf(0) = Span(0, TotalChunks(ds)) /\ TotalChunks(ds) \in Nat
  BY <1>1, IsComplete
<1>3. ~ds.unlimited
      /\ FixedIndex(blocks, layout.address, TotalChunks(ds), Elements(0, TotalChunks(ds)))
  BY <1>1 DEF ReadInv, FixedInv
<1> DEFINE h == blocks[layout.address]
<1>4. /\ IsAt(layout.address, "FAHD") /\ IsAt(h.block, "FADB")
      /\ h.bits = PageBits /\ h.count = TotalChunks(ds)
      /\ blocks[h.block].elements = Elements(0, TotalChunks(ds))
  BY <1>3 DEF FixedIndex, IsAt
<1>5. h.count <= Shl(h.bits)
  <2>1. TotalChunks(ds) <= Shl(PageBits)
    BY <1>2, <1>3 DEF Complete, Readable
  <2> QED
    BY <1>4, <2>1
<1>6. Listed(ListElements(blocks[h.block].elements, h.count, 0))
  BY <1>4, <1>5 DEF ListFixed
<1>7. ListElements(Elements(0, TotalChunks(ds)), TotalChunks(ds), 0) = Span(0, TotalChunks(ds))
  <2>1. PICK t \in Nat : t = TotalChunks(ds)
    BY <1>2
  <2>2. 0 \in Nat /\ t <= t /\ 0 + t <= t
    OBVIOUS
  <2> QED
    BY <1>2, <2>1, <2>2, ListBlock
<1> QED
  BY <1>1, <1>2, <1>4, <1>6, <1>7, ListedReadInv DEF Complete

LEMMA ListExtensibleReadInv ==
  ASSUME IInv, ReadInv, ListExtensible, \A s \in Datasets : Readable(s) PROVE ReadInv'
<1>1. phase = "written" /\ layout.type = "extensible"
  BY DEF ListExtensible
<1>2. Complete /\ RestOf(0) = Span(0, TotalChunks(ds)) /\ TotalChunks(ds) \in Nat
  BY <1>1, IsComplete
<1>3. PICK ps \in [1 .. Pointers -> Nat \cup {Undefined}] :
        /\ ExtensibleIndex(blocks, layout.address, TotalChunks(ds), Elements(0, InlineElmts), ps)
        /\ PointersTo(blocks, ps, dblk)
  BY <1>1 DEF ReadInv, ExtensibleInv
<1>4. ds.unlimited /\ dblk = Len(WriterSizes)
  BY <1>1 DEF ReadInv, ExtensibleInv
<1> DEFINE h == blocks[layout.address]
           block == blocks[h.block]
<1>5. /\ IsAt(layout.address, "EAHD") /\ IsAt(h.block, "EAIB")
      /\ h.count = TotalChunks(ds)
      /\ block.elements = Elements(0, InlineElmts) /\ block.pointers = ps
  BY <1>3 DEF ExtensibleIndex, IsAt
<1>6. IF h.count <= InlineElmts
      THEN Listed(ListElements(block.elements, h.count, 0))
      ELSE IF \A b \in DOMAIN ReaderSizes :
                block.pointers[b] # Undefined => IsAt(block.pointers[b], "EADB")
           THEN Listed(ListDataBlocks(block, h.count))
           ELSE Fail
  BY <1>5 DEF ListExtensible
<1>7. CASE TotalChunks(ds) <= InlineElmts
  <2>1. PICK t \in Nat, i \in Nat : t = TotalChunks(ds) /\ i = InlineElmts /\ t <= i
    BY <1>2, <1>7, ParameterAssumption
  <2>2. 0 \in Nat /\ 0 + t <= t
    OBVIOUS
  <2>3. ListElements(Elements(0, i), t, 0) = Span(0, t)
    BY <1>2, <2>1, <2>2, ListBlock
  <2>4. Listed(RestOf(0))
    BY <1>2, <1>5, <1>6, <1>7, <2>1, <2>3
  <2> QED
    BY <1>1, <1>2, <2>4, ListedReadInv DEF Complete
<1>8. CASE ~(TotalChunks(ds) <= InlineElmts)
  <2>1. TotalChunks(ds) > InlineElmts
    BY <1>2, <1>8, ParameterAssumption
  <2>2. /\ block.elements = Elements(0, InlineElmts)
        /\ block.pointers \in [1 .. Pointers -> Nat \cup {Undefined}]
        /\ PointersTo(blocks, block.pointers, Len(WriterSizes))
    BY <1>3, <1>4, <1>5
  <2>3. /\ ListDataBlocks(block, TotalChunks(ds)) = Span(0, TotalChunks(ds))
        /\ \A b \in DOMAIN ReaderSizes :
              block.pointers[b] # Undefined => IsAt(block.pointers[b], "EADB")
    <3> HIDE DEF block
    <3> QED
      BY <1>2, <1>4, <2>1, <2>2, ListDataBlocksIs
  <2>4. Listed(RestOf(0))
    BY <1>2, <1>5, <1>6, <1>8, <2>3
  <2> QED
    BY <1>1, <1>2, <2>4, ListedReadInv DEF Complete
<1> QED
  BY <1>7, <1>8
-------------------------------------------------------------------------------
\* What the chunk holds is in the output, and what was there before stays.
LEMMA CopyChunkReadInv ==
  ASSUME IInv, ReadInv, CopyChunk, \A s \in Datasets : Readable(s) PROVE ReadInv'
<1>1. phase = "copying" /\ infos # << >>
  BY DEF CopyChunk
<1>2. Complete /\ TotalChunks(ds) \in Nat
  BY <1>1, IsComplete
<1>3. PICK t \in Nat : t = TotalChunks(ds)
  BY <1>2
<1>4. PICK m \in 0 .. t : infos = RestOf(m) /\ Copies(out, m)
  BY <1>1, <1>3 DEF ReadInv, CopyInv
<1>5. PICK c \in Nat : c = t - m
  OBVIOUS
<1>6. infos = Span(m, c) /\ IsSpan(infos, m, c)
  <2>1. infos = Span(m, c)
    BY <1>3, <1>4, <1>5 DEF RestOf
  <2>2. IsSpan(Span(m, c), m, c)
    BY SpanType
  <2> QED
    BY <2>1, <2>2
<1>7. c # 0
  <2>1. infos \in Seq(AllInfos) /\ Len(infos) = c
    BY <1>6 DEF IsSpan
  <2> QED
    BY <1>1, <2>1
<1>8. m + 1 \in 0 .. t /\ m + 1 \in 1 .. Len(written) /\ (m + 1) - 1 = m
      /\ t - (m + 1) = c - 1 /\ c - 1 \in Nat
  BY <1>2, <1>3, <1>5, <1>7 DEF Complete
<1> DEFINE info == Head(infos)
<1>9. info = InfoOf(m + 1)
  <2>1. infos \in Seq(AllInfos) /\ Len(infos) = c /\ infos[1] = InfoOf(m + 1)
    BY <1>6, <1>7 DEF IsSpan
  <2> QED
    BY <1>1, <2>1
<1>10. Tail(infos) = RestOf(m + 1)
  <2>1. infos \in Seq(AllInfos) /\ Len(infos) = c /\ \A j \in 1 .. c : infos[j] = InfoOf(m + j)
    BY <1>6 DEF IsSpan
  <2> DEFINE tail == Tail(infos)
  <2>2. /\ tail \in Seq(AllInfos) /\ Len(tail) = c - 1
        /\ \A j \in 1 .. c - 1 : tail[j] = infos[j + 1]
    BY <1>1, <2>1
  <2> HIDE DEF tail
  <2>3. \A j \in 1 .. c - 1 : tail[j] = InfoOf((m + 1) + j)
    <3> SUFFICES ASSUME NEW j \in 1 .. c - 1 PROVE tail[j] = InfoOf((m + 1) + j)
      OBVIOUS
    <3>1. j + 1 \in 1 .. c /\ m + (j + 1) = (m + 1) + j
      OBVIOUS
    <3> QED
      BY <2>1, <2>2, <3>1
  <2>4. IsSpan(tail, m + 1, c - 1)
    BY <2>2, <2>3 DEF IsSpan
  <2>5. tail = Span(m + 1, c - 1)
    BY <1>8, <2>4, SpanUnique
  <2> QED
    BY <1>3, <1>8, <2>5 DEF RestOf, tail
<1> DEFINE w == written[m + 1]
<1>11. /\ info.address = w.address /\ info.size = w.size /\ info.offsets = OffsetsOf(m)
  BY <1>8, <1>9 DEF InfoOf
<1>12. /\ w.address \in DOMAIN blocks
       /\ blocks[w.address] = [kind |-> "chunk", size |-> w.size, data |-> ChunkData(m)]
  BY <1>2, <1>8 DEF Complete, ChunksInv, IsStored
<1> HIDE DEF w, info
<1>13. IsAt(info.address, "chunk") /\ blocks[info.address].size = info.size
       /\ blocks[info.address].data = ChunkData(m)
  BY <1>11, <1>12 DEF IsAt
<1>14. /\ out' = Copied(OffsetsOf(m), ChunkData(m)) /\ infos' = RestOf(m + 1)
       /\ UNCHANGED <<ds, blocks, written, dblk, layout, phase>>
  <2>1. /\ out' = Copied(info.offsets, blocks[info.address].data)
        /\ infos' = Tail(infos)
        /\ UNCHANGED <<ds, base, len, blocks, written, dblk, cursor, layout, phase>>
    BY <1>13 DEF CopyChunk, info
  <2> QED
    BY <1>10, <1>11, <1>13, <2>1
<1>15. Copies(Copied(OffsetsOf(m), ChunkData(m)), m + 1)
  <2> DEFINE o == Copied(OffsetsOf(m), ChunkData(m))
             at(i) == {e \in DOMAIN ChunkData(m) : /\ Inside(Global(OffsetsOf(m), e))
                                                   /\ FlatIndex(Global(OffsetsOf(m), e)) = i}
  <2>1. DOMAIN out = DOMAIN Original
    BY <1>4 DEF Copies
  <2>2. DOMAIN ChunkData(m) = 0 .. ChunkElements - 1
    BY DEF ChunkData
  <2>3. /\ o = [i \in DOMAIN Original |-> o[i]]
        /\ \A i \in DOMAIN Original :
             o[i] = IF at(i) = {} THEN out[i] ELSE ChunkData(m)[CHOOSE e \in at(i) : TRUE]
    <3>1. o = [i \in DOMAIN out |->
                 IF at(i) = {} THEN out[i] ELSE ChunkData(m)[CHOOSE e \in at(i) : TRUE]]
      BY Zenon DEF Copied
    <3> HIDE DEF o, at
    <3> QED
      BY <2>1, <3>1
  <2>4. \A e \in 0 .. ChunkElements - 1 : \A i : e \in at(i) <=> Holds(m, e, i)
    BY <2>2 DEF Holds
  <2>5. ASSUME NEW e \in 0 .. ChunkElements - 1, NEW i, Holds(m, e, i)
        PROVE  ChunkData(m)[e] = Original[i]
    <3>1. SplitOffsets(m) = OffsetsOf(m)
      BY DEF SplitOffsets, OffsetsOf
    <3>2. ChunkData(m)[e] = LET x == Global(SplitOffsets(m), e)
                            IN IF Inside(x) THEN Original[FlatIndex(x)] ELSE 0
      BY DEF ChunkData
    <3> QED
      BY <2>5, <3>1, <3>2 DEF Holds
  <2>6. ASSUME NEW i \in DOMAIN Original, NEW k \in 0 .. (m + 1) - 1,
               NEW e \in 0 .. ChunkElements - 1, Holds(k, e, i)
        PROVE  o[i] = Original[i]
    <3> HIDE DEF o
    <3>1. CASE at(i) = {}
      <4>1. k # m
        BY <2>4, <2>6, <3>1
      <4>2. k \in 0 .. m - 1
        BY <1>8, <4>1
      <4>3. out[i] = Original[i]
        BY <1>4, <2>6, <4>2 DEF Copies
      <4> QED
        BY <2>3, <3>1, <4>3
    <3>2. CASE at(i) # {}
      <4>1. PICK f : f = (CHOOSE e0 \in at(i) : TRUE) /\ f \in at(i)
        BY <3>2
      <4>2. f \in 0 .. ChunkElements - 1
        BY <2>2, <4>1
      <4>3. Holds(m, f, i)
        BY <2>4, <4>1, <4>2
      <4>4. ChunkData(m)[f] = Original[i]
        BY <2>5, <4>2, <4>3
      <4> HIDE DEF at
      <4> QED
        BY <2>3, <3>2, <4>1, <4>4
    <3> QED
      BY <3>1, <3>2
  <2> HIDE DEF o, at
  <2>7. Copies(o, m + 1)
    BY <2>3, <2>6 DEF Copies
  <2> QED
    BY <2>7 DEF o
<1>16. ChunksInv' /\ SingleInv' /\ FixedInv' /\ ExtensibleInv'
  BY <1>1, <1>14, FileKept
<1>17. /\ \A o, n : Copies(o, n)' <=> Copies(o, n)
       /\ \A n : RestOf(n)' = RestOf(n)
  BY <1>14, CopiesStable
<1>18. PICK n \in 0 .. t : n = m + 1
  BY <1>8
<1>19. infos' = RestOf(n)' /\ Copies(out, n)'
  <2>1. Copies(out', n)
    BY <1>14, <1>15, <1>18
  <2>2. PICK o : o = out'
    OBVIOUS
  <2>3. Copies(o, n)'
    BY <1>17, <2>1, <2>2
  <2>4. Copies(out, n)'
    BY <2>2, <2>3 DEF Copies
  <2> QED
    BY <1>14, <1>17, <1>18, <2>4
<1>20. TotalChunks(ds)' = t
  BY <1>3, <1>14, GeometryStable
<1>21. CopyInv'
  BY <1>1, <1>14, <1>19, <1>20 DEF CopyInv
<1> QED
  BY <1>16, <1>21 DEF ReadInv

\* When all chunks are copied every element is, for each is in some chunk.
LEMMA ReturnReadInv ==
  ASSUME IInv, ReadInv, Return, \A s \in Datasets : Readable(s) PROVE ReadInv'
<1>1. phase = "copying" /\ infos = << >> /\ phase' = "done" /\ out' = out
      /\ UNCHANGED <<ds, blocks, written, dblk, layout>>
  BY DEF Return
<1>2. Complete /\ TotalChunks(ds) \in Nat
  BY <1>1, IsComplete
<1>3. PICK t \in Nat : t = TotalChunks(ds)
  BY <1>2
<1>4. PICK m \in 0 .. t : infos = RestOf(m) /\ Copies(out, m)
  BY <1>1, <1>3 DEF ReadInv, CopyInv
<1>5. m = t
  <2>1. PICK c \in Nat : c = t - m
    OBVIOUS
  <2>2. IsSpan(Span(m, c), m, c) /\ infos = Span(m, c)
    BY <1>3, <1>4, <2>1, SpanType DEF RestOf
  <2>3. Len(infos) = c /\ Len(infos) = 0
    BY <1>1, <2>2 DEF IsSpan
  <2> QED
    BY <2>1, <2>3
<1>6. out = Original
  <2>1. ASSUME NEW i \in DOMAIN Original PROVE out[i] = Original[i]
    <3>1. PICK k \in 0 .. TotalChunks(ds) - 1, e \in 0 .. ChunkElements - 1 : Holds(k, e, i)
      BY <1>2, SomewhereHeld DEF Complete
    <3> QED
      BY <1>3, <1>4, <1>5, <3>1 DEF Copies
  <2>2. out = [i \in DOMAIN Original |-> out[i]]
    BY <1>4 DEF Copies
  <2>3. Original = [i \in DOMAIN Original |-> Original[i]]
    BY DEF Original
  <2> QED
    BY <2>1, <2>2, <2>3
<1>7. ChunksInv' /\ SingleInv' /\ FixedInv' /\ ExtensibleInv'
  BY <1>1, FileKept
<1>8. Original' = Original
  BY <1>1, GeometryStable
<1> QED
  BY <1>1, <1>6, <1>7, <1>8 DEF ReadInv, CopyInv

\* ReadInv is inductive relative to IInv.
LEMMA NextReadInv ==
  ASSUME \A s \in Datasets : Readable(s)
  PROVE  IInv /\ ReadInv /\ [Next]_vars => ReadInv'
<1> SUFFICES ASSUME IInv, ReadInv, [Next]_vars PROVE ReadInv'
  OBVIOUS
<1>1. CASE PlaceChunk
  BY <1>1, PlaceChunkReadInv
<1>2. CASE PlaceSingle
  BY <1>2, PlaceSingleReadInv
<1>3. CASE PlaceFixed
  BY <1>3, PlaceFixedReadInv
<1>4. CASE PlaceExtensible
  BY <1>4, PlaceExtensibleReadInv
<1>5. CASE PlaceDataBlock
  BY <1>5, PlaceDataBlockReadInv
<1>6. CASE FinishExtensible
  BY <1>6, FinishReadInv
<1>7. CASE ListSingle
  BY <1>7, ListSingleReadInv
<1>8. CASE ListFixed
  BY <1>8, ListFixedReadInv
<1>9. CASE ListExtensible
  BY <1>9, ListExtensibleReadInv
<1>10. CASE CopyChunk
  BY <1>10, CopyChunkReadInv
<1>11. CASE Return
  BY <1>11, ReturnReadInv
<1>12. CASE UNCHANGED vars
  BY <1>12, StutterReadInv
<1> QED
  BY <1>1, <1>2, <1>3, <1>4, <1>5, <1>6, <1>7, <1>8, <1>9, <1>10, <1>11, <1>12 DEF Next

\* Whatever was split into chunks, indexed and placed (build_chunked_data_at_ext)
\* comes back from read_chunked_data, every element in its place, for all
\* datasets that are known to read back.
THEOREM AlwaysReadsBack ==
  ASSUME \A s \in Datasets : Readable(s) PROVE Spec => []ReadsBack
<1>1. IInv /\ ReadInv /\ [Next]_vars => ReadInv'
  BY NextReadInv
<1>2. Spec => []IInv
  BY InvariantHolds
<1>3. ReadInv => ReadsBack
  BY DEF ReadInv, CopyInv, ReadsBack
<1> QED
  BY <1>1, <1>2, <1>3, InitReadInv, PTL DEF Spec
===============================================================================
