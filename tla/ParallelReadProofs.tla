-------------------------- MODULE ParallelReadProofs --------------------------
(***************************************************************************)
(* Filters undo each other, the checksum is exact and notices every change *)
(* of a byte, and lanes that work in any order put all chunks in order: for*)
(* every pipeline, number of chunks and lanes, and every hash.             *)
(***************************************************************************)
EXTENDS ParallelRead, Induction, SequenceTheorems

(* Division.                                                               *)

LEMMA DivMod ==
  ASSUME NEW a \in Nat, NEW m \in Nat, m >= 1
  PROVE  /\ a \div m \in Nat /\ a % m \in 0 .. m - 1
         /\ a = (a \div m) * m + (a % m)
OBVIOUS

LEMMA ModUnique ==
  ASSUME NEW m \in Nat, m >= 1, NEW q \in Int, NEW r \in 0 .. m - 1
  PROVE  (q * m + r) % m = r /\ (q * m + r) \div m = q
OBVIOUS

LEMMA ModIs ==
  ASSUME NEW m \in Nat, m >= 1, NEW q \in Int, NEW r \in 0 .. m - 1, NEW a \in Int, a = q * m + r
  PROVE  a % m = r /\ a \div m = q
BY ModUnique

LEMMA ModAdd ==
  ASSUME NEW a \in Nat, NEW b \in Nat, NEW m \in Nat, m >= 1
  PROVE  ((a % m) + b) % m = (a + b) % m
<1> DEFINE q == a \div m
           r == a % m
           p == (r + b) \div m
           s == (r + b) % m
<1>1. q \in Nat /\ r \in 0 .. m - 1 /\ a = q * m + r
  BY DivMod
<1>2. p \in Nat /\ s \in 0 .. m - 1 /\ r + b = p * m + s
  <2>1. r + b \in Nat
    BY <1>1
  <2> HIDE DEF r
  <2> QED
    BY <2>1, DivMod
<1> HIDE DEF q, r, p, s
<1>3. PICK t \in Int : a + b = t * m + s
  <2>1. q + p \in Int /\ a + b = (q + p) * m + s
    BY <1>1, <1>2
  <2> QED
    BY <2>1
<1>4. (t * m + s) % m = s
  BY <1>2, ModUnique
<1> QED
  BY <1>3, <1>4 DEF s, r

\* Two numbers of one remainder.
LEMMA ModDiffer ==
  ASSUME NEW a \in Nat, NEW b \in Nat, NEW m \in Nat, m >= 1, a % m = b % m
  PROVE  \E z \in Int : a = b + z * m
<1>1. /\ a \div m \in Nat /\ a % m \in 0 .. m - 1 /\ a = (a \div m) * m + (a % m)
      /\ b \div m \in Nat /\ b = (b \div m) * m + (b % m)
  BY DivMod
<1>2. (a \div m) - (b \div m) \in Int /\ a = b + ((a \div m) - (b \div m)) * m
  BY <1>1
<1> QED
  BY <1>2

-------------------------------------------------------------------------------
(* The checksum.                                                           *)

N == B * B

LEMMA Limits == N \in Nat /\ N >= 4 /\ M = N - 1 /\ M \in Nat /\ M >= 3 /\ B * B * B * B = N * N /\ N * N \in Nat /\ N * N >= 1
<1>1. N \in Nat /\ N >= 4
  BY ByteAssumption DEF N
<1>2. B * B * B * B = N * N
  BY ByteAssumption DEF N
<1>3. N * N \in Nat /\ N * N >= 1
  BY <1>1
<1> QED
  BY <1>1, <1>2, <1>3 DEF M, N

LEMMA WordType ==
  ASSUME NEW d \in Seq(Bytes)
  PROVE  /\ Words(d) \in Nat /\ Len(d) \in Nat
         /\ \A k \in 0 .. Words(d) - 1 : Word(d, k) \in 0 .. M
<1>1. Len(d) \in Nat /\ DOMAIN d = 1 .. Len(d) /\ \A i \in 1 .. Len(d) : d[i] \in 0 .. B - 1
  <2>1. Len(d) \in Nat /\ DOMAIN d = 1 .. Len(d) /\ \A i \in 1 .. Len(d) : d[i] \in Bytes
    OBVIOUS
  <2> QED
    BY <2>1 DEF Bytes
<1>2. Words(d) \in Nat /\ 2 * Words(d) <= Len(d) + 1
  BY <1>1 DEF Words
<1>3. ASSUME NEW k \in 0 .. Words(d) - 1 PROVE Word(d, k) \in 0 .. M
  <2>1. 2 * k + 1 \in 1 .. Len(d) /\ (2 * k + 2 <= Len(d) => 2 * k + 2 \in 1 .. Len(d))
    BY <1>1, <1>2
  <2> DEFINE x == d[2 * k + 1]
             y == IF 2 * k + 2 <= Len(d) THEN d[2 * k + 2] ELSE 0
  <2>2. x \in 0 .. B - 1 /\ y \in 0 .. B - 1
    BY <1>1, <2>1, ByteAssumption
  <2>3. Word(d, k) = B * x + y
    BY DEF Word
  <2> HIDE DEF x, y
  <2>4. B * x + y >= 0 /\ B * x <= B * (B - 1) /\ B * x + y \in Int
    BY <2>2, ByteAssumption
  <2>5. B * (B - 1) = B * B - B
    BY ByteAssumption
  <2> QED
    BY <2>2, <2>3, <2>4, <2>5, ByteAssumption DEF M
<1> QED
  BY <1>1, <1>2, <1>3

LEMMA ReducedType ==
  ASSUME NEW d, NEW k, NEW s \in Nat
  PROVE  Reduced(d, k, s) \in Nat
<1>1. s % (N * N) \in Nat
  BY Limits, DivMod
<1>2. (s % (N * N)) % M \in Nat
  BY <1>1, Limits, DivMod
<1> QED
  BY <1>1, <1>2, Limits DEF Reduced

\* The sums of fletcher32_compute after k words.
Sum1(d) ==
  LET sum1[k \in 0 .. Words(d)] ==
        IF k = 0 THEN 0 ELSE Reduced(d, k - 1, sum1[k - 1] + Word(d, k - 1))
  IN sum1

Added(d, k) == IF InBlock(d, k - 1) THEN Sum1(d)[k - 1] + Word(d, k - 1) ELSE Sum1(d)[k]

Sum2(d) ==
  LET sum2[k \in 0 .. Words(d)] ==
        IF k = 0 THEN 0 ELSE Reduced(d, k - 1, sum2[k - 1] + Added(d, k))
  IN sum2

LEMMA FletcherSums == \A d : Fletcher(d) = InFile(Sum1(d)[Words(d)], Sum2(d)[Words(d)])
BY DEF Fletcher, Sum1, Sum2, Added

LEMMA Sum1Lemma ==
  ASSUME NEW d \in Seq(Bytes)
  PROVE  /\ Sum1(d) \in [0 .. Words(d) -> Nat] /\ Sum1(d)[0] = 0
         /\ \A k \in 1 .. Words(d) : Sum1(d)[k] = Reduced(d, k - 1, Sum1(d)[k - 1] + Word(d, k - 1))
<1> DEFINE n == Words(d)
           Rec(u) == [k \in 0 .. n |-> IF k = 0 THEN 0 ELSE Reduced(d, k - 1, u[k - 1] + Word(d, k - 1))]
           upTo == CHOOSE u : u = Rec(u)
<1>1. Sum1(d) = upTo
  BY DEF Sum1
<1>2. n \in Nat /\ 0 \in Nat /\ \A k \in 1 .. n : \A v \in Nat : Reduced(d, k - 1, v + Word(d, k - 1)) \in Nat
  <2>1. ASSUME NEW k \in 1 .. n, NEW v \in Nat PROVE Reduced(d, k - 1, v + Word(d, k - 1)) \in Nat
    <3>1. v + Word(d, k - 1) \in Nat
      BY WordType, Limits
    <3> QED
      BY <3>1, ReducedType
  <2> QED
    BY <2>1, WordType
<1>3. \E u : u = Rec(u)
  <2> DEFINE step == [k \in 1 .. n |-> [v \in Nat |-> Reduced(d, k - 1, v + Word(d, k - 1))]]
  <2>1. step \in [1 .. n -> [Nat -> Nat]]
    BY <1>2
  <2> HIDE DEF step, n
  <2>2. PICK u \in [0 .. n -> Nat] : IsFold(u, n, 0, step)
    BY <2>1, <1>2, FoldExists
  <2>3. ASSUME NEW k \in 1 .. n PROVE u[k] = Reduced(d, k - 1, u[k - 1] + Word(d, k - 1))
    <3>1. u[k - 1] \in Nat /\ u[k] = step[k][u[k - 1]]
      BY <2>2, <1>2 DEF IsFold
    <3> QED
      BY <3>1 DEF step
  <2>4. u = Rec(u)
    BY <1>2, <2>2, <2>3 DEF IsFold
  <2> QED
    BY <2>4
<1>4. upTo = Rec(upTo)
  BY <1>3
<1> HIDE DEF upTo, n
<1>5. /\ DOMAIN upTo = 0 .. n /\ upTo[0] = 0
      /\ \A k \in 1 .. n : upTo[k] = Reduced(d, k - 1, upTo[k - 1] + Word(d, k - 1))
  <2>1. 0 \in 0 .. n /\ \A k \in 1 .. n : k \in 0 .. n /\ k # 0
    BY <1>2
  <2>2. /\ DOMAIN upTo = 0 .. n
        /\ \A k \in 0 .. n : upTo[k] = IF k = 0 THEN 0 ELSE Reduced(d, k - 1, upTo[k - 1] + Word(d, k - 1))
    <3>1. PICK u : u = upTo
      OBVIOUS
    <3>2. u = Rec(u)
      BY <1>4, <3>1, Zenon
    <3> HIDE DEF Rec
    <3>3. DOMAIN Rec(u) = 0 .. n /\ \A k \in 0 .. n : Rec(u)[k] = IF k = 0 THEN 0 ELSE Reduced(d, k - 1, u[k - 1] + Word(d, k - 1))
      BY Zenon DEF Rec
    <3> QED
      BY <3>1, <3>2, <3>3, Zenon
  <2> QED
    BY <2>1, <2>2, Zenon
<1> DEFINE S == {m \in 0 .. n : upTo[m] \in Nat}
<1>6. 0 \in S
  BY <1>2, <1>5
<1>7. \A m \in 0 .. n - 1 : m \in S => m + 1 \in S
  <2> SUFFICES ASSUME NEW m \in 0 .. n - 1, upTo[m] \in Nat PROVE upTo[m + 1] \in Nat
    BY <1>2
  <2>1. m + 1 \in 1 .. n /\ (m + 1) - 1 = m
    BY <1>2
  <2>2. upTo[m + 1] = Reduced(d, (m + 1) - 1, upTo[m] + Word(d, (m + 1) - 1))
    BY <1>5, <2>1
  <2>3. Reduced(d, (m + 1) - 1, upTo[m] + Word(d, (m + 1) - 1)) \in Nat
    <3>1. PICK k \in 1 .. n, x \in Nat : k = m + 1 /\ x = upTo[m]
      BY <2>1
    <3>2. Reduced(d, k - 1, x + Word(d, k - 1)) \in Nat
      BY <1>2
    <3> QED
      BY <3>1, <3>2, Zenon
  <2> QED
    BY <2>2, <2>3, Zenon
<1> HIDE DEF S
<1>8. 0 .. n \subseteq S
  BY <1>2, <1>6, <1>7, RangeInduction
<1>9. \A m \in 0 .. n : upTo[m] \in Nat
  BY <1>8 DEF S
<1>10. upTo = [m \in 0 .. n |-> upTo[m]]
  BY <1>4
<1>11. upTo \in [0 .. n -> Nat]
  BY <1>9, <1>10
<1> QED
  BY <1>1, <1>5, <1>11 DEF n

LEMMA Sum2Lemma ==
  ASSUME NEW d \in Seq(Bytes)
  PROVE  /\ Sum2(d) \in [0 .. Words(d) -> Nat] /\ Sum2(d)[0] = 0
         /\ \A k \in 1 .. Words(d) : Sum2(d)[k] = Reduced(d, k - 1, Sum2(d)[k - 1] + Added(d, k))
<1> DEFINE n == Words(d)
           Rec(u) == [k \in 0 .. n |-> IF k = 0 THEN 0 ELSE Reduced(d, k - 1, u[k - 1] + Added(d, k))]
           upTo == CHOOSE u : u = Rec(u)
<1>1. Sum2(d) = upTo
  BY DEF Sum2
<1>0. n \in Nat /\ 0 \in Nat
  BY WordType
<1>2. \A k \in 1 .. n : \A v \in Nat : Reduced(d, k - 1, v + Added(d, k)) \in Nat
  <2>1. ASSUME NEW k \in 1 .. n, NEW v \in Nat PROVE Reduced(d, k - 1, v + Added(d, k)) \in Nat
    <3>1. n \in Nat /\ k - 1 \in 0 .. n - 1 /\ k \in 0 .. n /\ k - 1 \in 0 .. n
      BY WordType
    <3>2. Sum1(d)[k - 1] \in Nat /\ Sum1(d)[k] \in Nat
      <4>1. Sum1(d) \in [0 .. Words(d) -> Nat]
        BY Sum1Lemma
      <4> QED
        BY <3>1, <4>1
    <3>4. Word(d, k - 1) \in Nat
      BY <3>1, WordType, Limits
    <3>3. Added(d, k) \in Nat
      BY <3>2, <3>4 DEF Added
    <3> QED
      BY <3>3, ReducedType
  <2> QED
    BY <2>1
<1>3. \E u : u = Rec(u)
  <2> DEFINE step == [k \in 1 .. n |-> [v \in Nat |-> Reduced(d, k - 1, v + Added(d, k))]]
  <2>1. step \in [1 .. n -> [Nat -> Nat]]
    BY <1>2
  <2> HIDE DEF step, n
  <2>2. PICK u \in [0 .. n -> Nat] : IsFold(u, n, 0, step)
    BY <2>1, <1>0, FoldExists
  <2>3. ASSUME NEW k \in 1 .. n PROVE u[k] = Reduced(d, k - 1, u[k - 1] + Added(d, k))
    <3>1. u[k - 1] \in Nat /\ u[k] = step[k][u[k - 1]]
      BY <2>2, <1>0 DEF IsFold
    <3> QED
      BY <3>1 DEF step
  <2>4. u = Rec(u)
    BY <1>0, <2>2, <2>3 DEF IsFold
  <2> QED
    BY <2>4
<1>4. upTo = Rec(upTo)
  BY <1>3
<1> HIDE DEF upTo, n
<1>5. /\ DOMAIN upTo = 0 .. n /\ upTo[0] = 0
      /\ \A k \in 1 .. n : upTo[k] = Reduced(d, k - 1, upTo[k - 1] + Added(d, k))
  <2>1. 0 \in 0 .. n /\ \A k \in 1 .. n : k \in 0 .. n /\ k # 0
    BY <1>0
  <2>2. /\ DOMAIN upTo = 0 .. n
        /\ \A k \in 0 .. n : upTo[k] = IF k = 0 THEN 0 ELSE Reduced(d, k - 1, upTo[k - 1] + Added(d, k))
    <3>1. PICK u : u = upTo
      OBVIOUS
    <3>2. u = Rec(u)
      BY <1>4, <3>1, Zenon
    <3> HIDE DEF Rec
    <3>3. DOMAIN Rec(u) = 0 .. n /\ \A k \in 0 .. n : Rec(u)[k] = IF k = 0 THEN 0 ELSE Reduced(d, k - 1, u[k - 1] + Added(d, k))
      BY Zenon DEF Rec
    <3> QED
      BY <3>1, <3>2, <3>3, Zenon
  <2> QED
    BY <2>1, <2>2, Zenon
<1> DEFINE S == {m \in 0 .. n : upTo[m] \in Nat}
<1>6. 0 \in S
  BY <1>0, <1>5
<1>7. \A m \in 0 .. n - 1 : m \in S => m + 1 \in S
  <2> SUFFICES ASSUME NEW m \in 0 .. n - 1, upTo[m] \in Nat PROVE upTo[m + 1] \in Nat
    BY <1>0
  <2>1. m + 1 \in 1 .. n /\ (m + 1) - 1 = m
    BY <1>0
  <2>2. upTo[m + 1] = Reduced(d, (m + 1) - 1, upTo[m] + Added(d, m + 1))
    BY <1>5, <2>1
  <2>3. Reduced(d, (m + 1) - 1, upTo[m] + Added(d, m + 1)) \in Nat
    <3>1. PICK k \in 1 .. n, x \in Nat : k = m + 1 /\ x = upTo[m]
      BY <2>1
    <3>2. Reduced(d, k - 1, x + Added(d, k)) \in Nat
      BY <1>2
    <3> QED
      BY <3>1, <3>2, Zenon
  <2> QED
    BY <2>2, <2>3, Zenon
<1> HIDE DEF S
<1>8. 0 .. n \subseteq S
  BY <1>0, <1>6, <1>7, RangeInduction
<1>9. \A m \in 0 .. n : upTo[m] \in Nat
  BY <1>8 DEF S
<1>10. upTo = [m \in 0 .. n |-> upTo[m]]
  BY <1>4
<1>11. upTo \in [0 .. n -> Nat]
  BY <1>9, <1>10
<1> QED
  BY <1>1, <1>5, <1>11 DEF n

\* The sums of the reference.
RefSum1(d) ==
  LET sum1[k \in 0 .. Words(d)] == IF k = 0 THEN 0 ELSE (sum1[k - 1] + Word(d, k - 1)) % M
  IN sum1

RefSum2(d) ==
  LET sum2[k \in 0 .. Words(d)] == IF k = 0 THEN 0 ELSE (sum2[k - 1] + RefSum1(d)[k]) % M
  IN sum2

LEMMA ReferenceSums == \A d : Reference(d) = InFile(RefSum1(d)[Words(d)], RefSum2(d)[Words(d)])
BY DEF Reference, RefSum1, RefSum2

\* A sum of numbers given by w, from z on and modulo m.
IsModSum(sum, n, w, z, m) == sum = [k \in 0 .. n |-> IF k = 0 THEN z ELSE (sum[k - 1] + w[k]) % m]

LEMMA ModRange ==
  ASSUME NEW m \in Nat, m >= 1, NEW v \in Nat
  PROVE  v % m \in 0 .. m - 1 /\ v % m \in Nat
<1>1. v % m \in 0 .. m - 1
  BY DivMod
<1> QED
  BY <1>1

LEMMA ModSumExists ==
  ASSUME NEW n \in Nat, NEW w \in [1 .. n -> Nat], NEW m \in Nat, m >= 1, NEW z \in 0 .. m - 1
  PROVE  \E u : IsModSum(u, n, w, z, m)
<1> DEFINE step == [k \in 1 .. n |-> [v \in Nat |-> (v + w[k]) % m]]
<1>1. step \in [1 .. n -> [Nat -> Nat]]
  <2>1. ASSUME NEW k \in 1 .. n, NEW v \in Nat PROVE (v + w[k]) % m \in Nat
    <3>1. v + w[k] \in Nat
      OBVIOUS
    <3> QED
      BY <3>1, ModRange
  <2> QED
    BY <2>1
<1> HIDE DEF step
<1>0. z \in Nat
  OBVIOUS
<1>2. PICK u \in [0 .. n -> Nat] : IsFold(u, n, z, step)
  BY <1>0, <1>1, FoldExists
<1>3. ASSUME NEW k \in 1 .. n PROVE u[k] = (u[k - 1] + w[k]) % m
  <2>1. u[k - 1] \in Nat /\ u[k] = step[k][u[k - 1]]
    BY <1>2 DEF IsFold
  <2> QED
    BY <2>1 DEF step
<1>4. IsModSum(u, n, w, z, m)
  BY <1>2, <1>3 DEF IsFold, IsModSum
<1> QED
  BY <1>4

AddsUp(sum, n, w, z, m) ==
  /\ sum \in [0 .. n -> 0 .. m - 1] /\ sum[0] = z
  /\ \A k \in 1 .. n : sum[k] = (sum[k - 1] + w[k]) % m

LEMMA ModSum ==
  ASSUME NEW n \in Nat, NEW w \in [1 .. n -> Nat], NEW m \in Nat, m >= 1, NEW z \in 0 .. m - 1,
         NEW sum, IsModSum(sum, n, w, z, m)
  PROVE  AddsUp(sum, n, w, z, m)
<1>1. /\ DOMAIN sum = 0 .. n /\ sum[0] = z
      /\ \A k \in 1 .. n : sum[k] = (sum[k - 1] + w[k]) % m
  BY DEF IsModSum
<1> DEFINE S == {k \in 0 .. n : sum[k] \in 0 .. m - 1}
<1>5. 0 \in S
  BY <1>1
<1>6. \A k \in 0 .. n - 1 : k \in S => k + 1 \in S
  <2> SUFFICES ASSUME NEW k \in 0 .. n - 1, sum[k] \in 0 .. m - 1 PROVE sum[k + 1] \in 0 .. m - 1
    OBVIOUS
  <2>1. k + 1 \in 1 .. n /\ (k + 1) - 1 = k /\ sum[k] \in Nat
    OBVIOUS
  <2>2. sum[k + 1] = (sum[k] + w[k + 1]) % m
    BY <1>1, <2>1
  <2>3. sum[k] + w[k + 1] \in Nat
    BY <2>1
  <2> QED
    BY <2>2, <2>3, ModRange
<1> HIDE DEF S
<1>7. 0 .. n \subseteq S
  BY <1>5, <1>6, RangeInduction
<1>8. \A k \in 0 .. n : sum[k] \in 0 .. m - 1
  BY <1>7 DEF S
<1>9. sum = [k \in 0 .. n |-> sum[k]]
  BY DEF IsModSum
<1>10. sum \in [0 .. n -> 0 .. m - 1]
  BY <1>8, <1>9
<1> QED
  BY <1>1, <1>10 DEF AddsUp

\* Two sums that are e apart, modulo m.
Apart(a, b, e, m) == \E c \in Int : a = b + e + c * m

LEMMA ApartStep ==
  ASSUME NEW a \in Nat, NEW b \in Nat, NEW w \in Nat, NEW v \in Nat, NEW m \in Nat, m >= 1,
         NEW e \in Int, Apart(a, b, e, m)
  PROVE  Apart((a + w) % m, (b + v) % m, e + (w - v), m)
<1>1. PICK c \in Int : a = b + e + c * m
  BY DEF Apart
<1>2. PICK p \in Nat, r \in Nat : r = (a + w) % m /\ a + w = p * m + r
  <2>1. PICK x \in Nat : x = a + w
    OBVIOUS
  <2>2. x \div m \in Nat /\ x % m \in Nat /\ x = (x \div m) * m + (x % m)
    BY DivMod, ModRange
  <2> QED
    BY <2>1, <2>2
<1>3. PICK q \in Nat, s \in Nat : s = (b + v) % m /\ b + v = q * m + s
  <2>1. PICK x \in Nat : x = b + v
    OBVIOUS
  <2>2. x \div m \in Nat /\ x % m \in Nat /\ x = (x \div m) * m + (x % m)
    BY DivMod, ModRange
  <2> QED
    BY <2>1, <2>2
<1>4. PICK cm \in Int, pm \in Int, qm \in Int : cm = c * m /\ pm = p * m /\ qm = q * m
  OBVIOUS
<1>5. r = s + (e + (w - v)) + (cm + qm - pm)
  BY <1>1, <1>2, <1>3, <1>4
<1>6. (c + q - p) * m = cm + qm - pm
  BY <1>4
<1>7. c + q - p \in Int
  OBVIOUS
<1>8. r = s + (e + (w - v)) + (c + q - p) * m
  BY <1>5, <1>6
<1> QED
  BY <1>2, <1>3, <1>7, <1>8 DEF Apart

LEMMA ApartDiffer ==
  ASSUME NEW a \in Nat, NEW m \in Nat, m >= 1, NEW e \in Int, e # 0, e < m, -e < m
  PROVE  ~Apart(a, a, e, m)
<1> SUFFICES ASSUME NEW c \in Int, a = a + e + c * m PROVE FALSE
  BY DEF Apart
<1>1. PICK cm \in Int : cm = c * m
  OBVIOUS
<1>2. cm = -e
  BY <1>1
<1>3. c >= 1 => cm >= m
  BY <1>1
<1>4. c <= -1 => cm <= -m
  BY <1>1
<1>5. c = 0 => cm = 0
  BY <1>1
<1>6. c >= 1 \/ c <= -1 \/ c = 0
  OBVIOUS
<1> QED
  BY <1>2, <1>3, <1>4, <1>5, <1>6

\* A change of one number by less than the modulus changes the sum.
Shift(k, x, e) == IF k < x THEN 0 ELSE e

\* Only number x differs, and by less than m.
Near(w, v, n, x, m) ==
  /\ w[x] # v[x] /\ w[x] - v[x] < m /\ v[x] - w[x] < m
  /\ \A k \in 1 .. n : k # x => w[k] = v[k]

LEMMA ModSumChange ==
  ASSUME NEW n \in Nat, NEW w \in [1 .. n -> Nat], NEW v \in [1 .. n -> Nat],
         NEW m \in Nat, m >= 1, NEW z \in 0 .. m - 1,
         NEW s, AddsUp(s, n, w, z, m), NEW r, AddsUp(r, n, v, z, m),
         NEW x \in 1 .. n, Near(w, v, n, x, m)
  PROVE  s[n] # r[n]
<1>0. /\ w[x] # v[x] /\ w[x] - v[x] < m /\ v[x] - w[x] < m
      /\ \A k \in 1 .. n : k # x => w[k] = v[k]
  BY DEF Near
<1>1. /\ s \in [0 .. n -> 0 .. m - 1] /\ s[0] = z
      /\ \A k \in 1 .. n : s[k] = (s[k - 1] + w[k]) % m
  BY DEF AddsUp
<1>2. /\ r \in [0 .. n -> 0 .. m - 1] /\ r[0] = z
      /\ \A k \in 1 .. n : r[k] = (r[k - 1] + v[k]) % m
  BY DEF AddsUp
<1>3. w[x] \in Nat /\ v[x] \in Nat
  OBVIOUS
<1>4. PICK e \in Int : e = w[x] - v[x]
  BY <1>3
<1> DEFINE S == {k \in 0 .. n : Apart(s[k], r[k], Shift(k, x, e), m)}
<1>5. 0 \in S
  <2>1. s[0] = r[0] + 0 + 0 * m /\ 0 \in Int /\ Shift(0, x, e) = 0
    BY <1>1, <1>2 DEF Shift
  <2>2. Apart(s[0], r[0], Shift(0, x, e), m)
    BY <2>1 DEF Apart
  <2> QED
    BY <2>2
<1>6. ASSUME NEW k \in 0 .. n - 1, k \in S PROVE k + 1 \in S
  <2>1. k + 1 \in 1 .. n /\ (k + 1) - 1 = k /\ k \in 0 .. n /\ k + 1 \in 0 .. n
    OBVIOUS
  <2>2. s[k] \in Nat /\ r[k] \in Nat /\ w[k + 1] \in Nat /\ v[k + 1] \in Nat
    <3>1. s[k] \in 0 .. m - 1 /\ r[k] \in 0 .. m - 1
      BY <1>1, <1>2, <2>1
    <3> QED
      BY <2>1, <3>1
  <2>3. s[k + 1] = (s[k] + w[k + 1]) % m /\ r[k + 1] = (r[k] + v[k + 1]) % m
    BY <1>1, <1>2, <2>1
  <2>4. Shift(k, x, e) \in Int /\ Shift(k, x, e) + (w[k + 1] - v[k + 1]) = Shift(k + 1, x, e)
    <3>1. CASE k + 1 = x
      <4>1. Shift(k, x, e) = 0 /\ Shift(k + 1, x, e) = e
        BY <3>1 DEF Shift
      <4>2. w[k + 1] = w[x] /\ v[k + 1] = v[x]
        BY <3>1
      <4>3. Shift(k, x, e) \in Int /\ 0 + (w[x] - v[x]) = e
        BY <1>3, <1>4, <4>1
      <4> QED
        BY <4>1, <4>2, <4>3
    <3>2. CASE k + 1 # x
      <4>1. w[k + 1] = v[k + 1] /\ Shift(k, x, e) = Shift(k + 1, x, e) /\ Shift(k, x, e) \in Int
        BY <1>0, <2>1, <3>2 DEF Shift
      <4> QED
        BY <2>2, <4>1
    <3> QED
      BY <3>1, <3>2
  <2>5. Apart(s[k], r[k], Shift(k, x, e), m)
    BY <1>6
  <2> HIDE DEF S
  <2>6. PICK f \in Int : f = Shift(k, x, e)
    BY <2>4
  <2>7. Apart((s[k] + w[k + 1]) % m, (r[k] + v[k + 1]) % m, f + (w[k + 1] - v[k + 1]), m)
    BY <2>2, <2>5, <2>6, ApartStep
  <2>8. Apart(s[k + 1], r[k + 1], Shift(k + 1, x, e), m)
    BY <2>3, <2>4, <2>6, <2>7
  <2> QED
    BY <2>1, <2>8 DEF S
<1> HIDE DEF S
<1>7. 0 .. n \subseteq S
  BY <1>5, <1>6, RangeInduction
<1>8. Apart(s[n], r[n], e, m)
  <2>1. n \in 0 .. n /\ Shift(n, x, e) = e
    BY DEF Shift
  <2> QED
    BY <1>7, <2>1 DEF S
<1>9. s[n] \in Nat /\ e # 0 /\ e < m /\ -e < m
  <2>1. s[n] \in 0 .. m - 1
    BY <1>1
  <2> QED
    BY <1>0, <1>3, <1>4, <2>1
<1> QED
  BY <1>8, <1>9, ApartDiffer

LEMMA ModType ==
  ASSUME NEW v \in Nat
  PROVE  v % M \in 0 .. M - 1 /\ v % M \in Nat
<1>1. M \in Nat /\ M >= 1
  BY Limits
<1> QED
  BY <1>1, ModRange

LEMMA ModStart == M \in Nat /\ M >= 1 /\ 0 \in 0 .. M - 1
BY Limits

LEMMA RefSum1Lemma ==
  ASSUME NEW d \in Seq(Bytes)
  PROVE  /\ RefSum1(d) \in [0 .. Words(d) -> 0 .. M - 1] /\ RefSum1(d)[0] = 0
         /\ \A k \in 1 .. Words(d) : RefSum1(d)[k] = (RefSum1(d)[k - 1] + Word(d, k - 1)) % M
<1> DEFINE n == Words(d)
           w == [k \in 1 .. n |-> Word(d, k - 1)]
           Rec(u) == [k \in 0 .. n |-> IF k = 0 THEN 0 ELSE (u[k - 1] + Word(d, k - 1)) % M]
           sum == CHOOSE u : u = Rec(u)
<1>1. RefSum1(d) = sum
  BY DEF RefSum1
<1>2. n \in Nat /\ w \in [1 .. n -> Nat]
  BY WordType, Limits
<1>3. \A u : IsModSum(u, n, w, 0, M) <=> u = Rec(u)
  BY <1>2 DEF IsModSum
<1>4. \E u : IsModSum(u, n, w, 0, M)
  <2> HIDE DEF w, n
  <2> QED
    BY <1>2, ModStart, ModSumExists
<1>5. IsModSum(sum, n, w, 0, M)
  <2>1. sum = Rec(sum)
    BY <1>3, <1>4
  <2> HIDE DEF sum
  <2> QED
    BY <1>3, <2>1
<1> HIDE DEF sum, n
<1>6. /\ sum \in [0 .. n -> 0 .. M - 1] /\ sum[0] = 0
      /\ \A k \in 1 .. n : sum[k] = (sum[k - 1] + w[k]) % M
  <2>1. AddsUp(sum, n, w, 0, M)
    <3> HIDE DEF w
    <3> QED
      BY <1>2, <1>5, ModStart, ModSum
  <2> HIDE DEF w
  <2> QED
    BY <2>1 DEF AddsUp
<1> QED
  BY <1>1, <1>6 DEF n

LEMMA RefSum2Lemma ==
  ASSUME NEW d \in Seq(Bytes)
  PROVE  /\ RefSum2(d) \in [0 .. Words(d) -> 0 .. M - 1] /\ RefSum2(d)[0] = 0
         /\ \A k \in 1 .. Words(d) : RefSum2(d)[k] = (RefSum2(d)[k - 1] + RefSum1(d)[k]) % M
<1> DEFINE n == Words(d)
           w == [k \in 1 .. n |-> RefSum1(d)[k]]
           Rec(u) == [k \in 0 .. n |-> IF k = 0 THEN 0 ELSE (u[k - 1] + RefSum1(d)[k]) % M]
           sum == CHOOSE u : u = Rec(u)
<1>1. RefSum2(d) = sum
  BY DEF RefSum2
<1>2. n \in Nat /\ w \in [1 .. n -> Nat]
  BY WordType, RefSum1Lemma, Limits
<1>3. \A u : IsModSum(u, n, w, 0, M) <=> u = Rec(u)
  <2>1. \A k \in 0 .. n : k # 0 => w[k] = RefSum1(d)[k]
    BY <1>2
  <2> HIDE DEF w, n
  <2>2. ASSUME NEW u
        PROVE  [k \in 0 .. n |-> IF k = 0 THEN 0 ELSE (u[k - 1] + w[k]) % M]
                 = [k \in 0 .. n |-> IF k = 0 THEN 0 ELSE (u[k - 1] + RefSum1(d)[k]) % M]
    BY <2>1
  <2> QED
    BY <2>2 DEF IsModSum
<1>4. \E u : IsModSum(u, n, w, 0, M)
  <2> HIDE DEF w, n
  <2> QED
    BY <1>2, ModStart, ModSumExists
<1>5. IsModSum(sum, n, w, 0, M)
  <2>1. sum = Rec(sum)
    BY <1>3, <1>4
  <2> HIDE DEF sum
  <2> QED
    BY <1>3, <2>1
<1> HIDE DEF sum, n
<1>6. /\ sum \in [0 .. n -> 0 .. M - 1] /\ sum[0] = 0
      /\ \A k \in 1 .. n : sum[k] = (sum[k - 1] + w[k]) % M
  <2>1. AddsUp(sum, n, w, 0, M)
    <3> HIDE DEF w
    <3> QED
      BY <1>2, <1>5, ModStart, ModSum
  <2> HIDE DEF w
  <2> QED
    BY <2>1 DEF AddsUp
<1> QED
  BY <1>1, <1>6 DEF n

\* t words into a block of b words the accumulators have not overflowed.
LEMMA BlockBound ==
  ASSUME NEW t \in Nat, t + 1 <= Block, NEW x \in Nat, NEW y \in Nat,
         x <= (M - 1) + (t + 1) * M,
         2 * y <= 2 * (M - 1) * (t + 2) + M * (t + 1) * (t + 2)
  PROVE  x < N * N /\ y < N * N
<1> DEFINE b == Block
<1>1. b \in Nat /\ b >= 1 /\ 2 + 2 * b + b * (b + 1) <= 2 * N
  <2>1. 2 * B * B = 2 * N
    BY ByteAssumption DEF N
  <2> QED
    BY <2>1, ByteAssumption, BlockAssumption DEF Block
<1> HIDE DEF b
<1>2. t + 1 <= b
  BY DEF b
<1>3. M \in Nat /\ M >= 3 /\ N = M + 1
  BY Limits
<1>4. (t + 2) \in Nat /\ (t + 2) <= b + 1 /\ (t + 1) * (t + 2) <= b * (b + 1)
  BY <1>1, <1>2
<1>5. 2 * (M - 1) * (t + 2) <= 2 * (M - 1) * (b + 1)
  BY <1>1, <1>3, <1>4
<1>6. M * (t + 1) * (t + 2) <= M * (b * (b + 1))
  <2>1. M * (t + 1) * (t + 2) = M * ((t + 1) * (t + 2))
    BY <1>3
  <2>2. (t + 1) * (t + 2) \in Nat /\ b * (b + 1) \in Nat
    BY <1>1
  <2> QED
    BY <1>3, <1>4, <2>1, <2>2
<1>7. 2 * (M - 1) * (b + 1) + M * (b * (b + 1)) = M * (2 + 2 * b + b * (b + 1)) - 2 * (b + 1)
  BY <1>1, <1>3
<1>8. M * (2 + 2 * b + b * (b + 1)) <= M * (2 * N)
  <2>1. 2 + 2 * b + b * (b + 1) \in Nat /\ 2 * N \in Nat
    BY <1>1, <1>3
  <2> QED
    BY <1>1, <1>3, <2>1
<1>9. M * (2 * N) < 2 * (N * N)
  BY <1>3
<1>10. 2 * y < 2 * (N * N)
  <2> DEFINE p == 2 * (M - 1) * (t + 2)
             q == M * (t + 1) * (t + 2)
             u == 2 * (M - 1) * (b + 1)
             v == M * (b * (b + 1))
             z == M * (2 + 2 * b + b * (b + 1))
             o == M * (2 * N)
             l == N * N
  <2>1. p \in Int /\ q \in Int /\ u \in Int /\ v \in Int /\ z \in Int /\ o \in Int /\ l \in Int
    BY <1>1, <1>3
  <2>2. 2 * y <= p + q /\ p <= u /\ q <= v /\ u + v = z - 2 * (b + 1) /\ z <= o /\ o < 2 * l
    BY <1>5, <1>6, <1>7, <1>8, <1>9
  <2> HIDE DEF p, q, u, v, z, o, l
  <2>3. 2 * y < 2 * l
    BY <1>1, <2>1, <2>2
  <2> QED
    BY <2>3 DEF l
<1>11. x < N * N
  <2>1. (t + 1) * M <= b * M
    BY <1>1, <1>2, <1>3
  <2>2. b + 1 <= N
    <3>1. b * (b + 1) >= 2 * b
      BY <1>1
    <3>2. b * (b + 1) \in Int
      BY <1>1
    <3> QED
      BY <1>1, <1>3, <3>1, <3>2
  <2>3. (b + 1) * M <= N * M
    BY <1>1, <1>3, <2>2
  <2>4. (b + 1) * M = b * M + M
    BY <1>1, <1>3
  <2>5. N * M < N * N
    BY <1>3
  <2>6. b * M \in Int /\ (t + 1) * M \in Int /\ N * M \in Int /\ N * N \in Int
    BY <1>1, <1>3
  <2> QED
    BY <1>3, <2>1, <2>3, <2>4, <2>5, <2>6
<1>12. N * N \in Nat
  BY <1>3
<1> QED
  BY <1>10, <1>11, <1>12

\* Whatever has not overflowed is only reduced modulo M.
LEMMA ReducedLemma ==
  ASSUME NEW d, NEW k, NEW x \in Nat, x < N * N
  PROVE  Reduced(d, k, x) = IF InBlock(d, k) /\ ~BlockEnd(k) THEN x ELSE x % M
<1>1. N * N \in Nat /\ N * N >= 1
  BY Limits
<1>2. PICK m : m = N * N
  OBVIOUS
<1>3. x % m = x
  BY <1>1, <1>2
<1> QED
  BY <1>2, <1>3, Limits DEF Reduced

LEMMA MType == M \in Nat /\ M >= 3 /\ M >= 1
BY Limits

LEMMA ModAtMost ==
  ASSUME NEW x \in Nat
  PROVE  x % M <= x
<1>1. PICK m \in Nat : m = M /\ m >= 1
  BY MType
<1>2. PICK q \in Nat, r \in 0 .. m - 1 : q = x \div m /\ r = x % m
  BY <1>1, DivMod
<1>3. x = q * m + r
  BY <1>1, <1>2, DivMod
<1>4. q * m \in Nat
  BY <1>1
<1> QED
  BY <1>1, <1>2, <1>3, <1>4

LEMMA ModTwice ==
  ASSUME NEW x \in Nat
  PROVE  (x % M) % M = x % M
<1>1. x % M \in 0 .. M - 1
  BY ModType
<1>2. PICK r \in 0 .. M - 1 : r = x % M
  BY <1>1
<1>3. r % M = r
  BY <1>2, MType
<1> QED
  BY <1>2, <1>3

\* How far word k is in its block.
InBlocks(d) == Block * (Len(d) \div (2 * Block))
Place(d, k) == IF k <= InBlocks(d) THEN k % Block ELSE 0

LEMMA PlaceLemma ==
  ASSUME NEW d \in Seq(Bytes)
  PROVE  /\ Block \in Nat /\ Block >= 1 /\ InBlocks(d) \in Nat /\ InBlocks(d) <= Words(d)
         /\ Place(d, 0) = 0 /\ Place(d, Words(d)) = 0
         /\ \A k \in Nat : Place(d, k) \in Nat /\ Place(d, k) + 1 <= Block
         /\ \A k \in Nat : InBlock(d, k) <=> k < InBlocks(d)
         /\ \A k \in Nat : InBlock(d, k) /\ ~BlockEnd(k) => Place(d, k + 1) = Place(d, k) + 1
         /\ \A k \in Nat : ~(InBlock(d, k) /\ ~BlockEnd(k)) => Place(d, k + 1) = 0
         /\ \A k \in Nat : ~InBlock(d, k) => Place(d, k) = 0
<1> DEFINE b == Block
           q == InBlocks(d)
           z == Len(d) \div (2 * b)
<1>1. b \in Nat /\ b >= 1 /\ Len(d) \in Nat
  BY ByteAssumption, WordType DEF Block
<1>2. z \in Nat /\ z * (2 * b) <= Len(d)
  <2>1. 2 * b \in Nat /\ 2 * b >= 1
    BY <1>1
  <2>2. PICK m \in Nat : m = 2 * b /\ m >= 1
    BY <2>1
  <2>3. PICK l \in Nat : l = Len(d)
    BY <1>1
  <2>4. m >= 1
    BY <2>2
  <2>5. l \div m \in Nat /\ (l % m) \in 0 .. m - 1 /\ l = (l \div m) * m + (l % m)
    BY <2>4, DivMod, Zenon
  <2>6. PICK u \in Nat, v \in 0 .. m - 1 : u = l \div m /\ l = u * m + v
    BY <2>5, Zenon
  <2>7. u * m <= l
    <3>1. PICK w \in Int : w = u * m
      OBVIOUS
    <3>2. l = w + v
      BY <2>6, <3>1, Zenon
    <3>3. w <= l
      BY <3>2
    <3> QED
      BY <3>1, <3>3, Zenon
  <2> QED
    BY <2>2, <2>3, <2>6, <2>7, Zenon
<1>3. q = b * z /\ q \in Nat
  BY <1>1, <1>2 DEF InBlocks
<1>4. q <= Words(d)
  <2>1. 2 * q <= Len(d)
    BY <1>1, <1>2, <1>3
  <2> QED
    BY <1>1, <1>3, <2>1 DEF Words
<1>5. \A k \in Nat : InBlock(d, k) <=> k < q
  BY DEF InBlock, InBlocks
<1> HIDE DEF b, z
<1>6. q % b = 0 /\ 0 % b = 0
  <2>1. q \in Int /\ q = z * b + 0 /\ 0 \in 0 .. b - 1 /\ z \in Int /\ 0 = 0 * b + 0
    BY <1>1, <1>2, <1>3
  <2> HIDE DEF q
  <2> QED
    BY <1>1, <2>1, ModIs
<1> HIDE DEF q
<1>7. \A k : Place(d, k) = IF k <= q THEN k % b ELSE 0
  BY DEF Place, q, b
<1>8. \A k \in Nat : k % b \in Nat /\ (k % b) + 1 <= b
  <2>1. ASSUME NEW k \in Nat PROVE k % b \in Nat /\ (k % b) + 1 <= b
    <3>1. k % b \in 0 .. b - 1
      BY <1>1, DivMod
    <3> QED
      BY <1>1, <3>1
  <2> QED
    BY <2>1
<1>9. ASSUME NEW k \in Nat PROVE Place(d, k) \in Nat /\ Place(d, k) + 1 <= b
  BY <1>1, <1>7, <1>8
<1>10. ASSUME NEW k \in Nat, k < q, ~BlockEnd(k) PROVE Place(d, k + 1) = Place(d, k) + 1
  <2>1. (k + 1) % b # 0
    BY <1>10 DEF BlockEnd, b
  <2>0. PICK x \in Int : x = k + 1
    OBVIOUS
  <2>2. k % b \in 0 .. b - 1 /\ k \div b \in Nat /\ k = (k \div b) * b + (k % b)
    BY <1>1, DivMod
  <2>3. PICK r \in 0 .. b - 1, p \in Nat : r = k % b /\ k = p * b + r
    BY <2>2
  <2>4. r # b - 1
    <3> SUFFICES ASSUME r = b - 1 PROVE FALSE
      OBVIOUS
    <3>1. PICK o \in Int : o = p + 1
      OBVIOUS
    <3>2. p * b \in Int /\ o * b = p * b + b
      BY <1>1, <3>1
    <3>4. k = p * b + r /\ b \in Nat /\ b >= 1
      BY <1>1, <2>3
    <3>5. PICK pb \in Int : pb = p * b
      BY <3>2
    <3>3. k + 1 = o * b + 0 /\ k + 1 \in Int /\ 0 \in 0 .. b - 1
      <4>1. o * b = pb + b /\ k = pb + r /\ r = b - 1
        BY <3>2, <3>4, <3>5
      <4> QED
        BY <3>4, <4>1
    <3>6. x = o * b + 0
      BY <2>0, <3>3
    <3>7. x % b = 0
      BY <1>1, <3>3, <3>6, ModIs
    <3> QED
      BY <2>0, <2>1, <3>7
  <2>5. r + 1 \in 0 .. b - 1 /\ k + 1 = p * b + (r + 1) /\ k + 1 \in Int /\ p \in Int
    BY <1>1, <2>3, <2>4
  <2>6. PICK t \in 0 .. b - 1 : t = r + 1
    BY <2>5
  <2>7. (k + 1) % b = r + 1
    <3>1. k + 1 = p * b + t
      BY <2>5, <2>6
    <3>2. x = p * b + t
      BY <2>0, <3>1
    <3>3. x % b = t
      BY <1>1, <2>5, <3>2, ModIs
    <3> QED
      BY <2>0, <2>6, <3>3
  <2>8. k <= q /\ k + 1 <= q
    BY <1>3, <1>10
  <2>9. Place(d, k) = k % b /\ Place(d, k + 1) = (k + 1) % b
    BY <1>7, <2>8
  <2> QED
    BY <2>3, <2>7, <2>9
<1>11. ASSUME NEW k \in Nat, k < q, BlockEnd(k) PROVE Place(d, k + 1) = 0
  BY <1>7, <1>11 DEF BlockEnd, b
<1>12. ASSUME NEW k \in Nat, ~(k < q) PROVE Place(d, k) = 0 /\ Place(d, k + 1) = 0
  BY <1>3, <1>6, <1>7, <1>12
<1>13. Place(d, Words(d)) = 0 /\ Place(d, 0) = 0
  <2>1. Words(d) \in Nat /\ ~(Words(d) < q) /\ 0 <= q
    BY <1>3, <1>4, WordType
  <2> QED
    BY <1>6, <1>7, <1>12, <2>1
<1> QED
  BY <1>1, <1>3, <1>4, <1>5, <1>9, <1>10, <1>11, <1>12, <1>13 DEF b, q

\* After k words: congruent sums, within what k words into a block can reach.
SumsAgree(d, k) ==
  LET t == Place(d, k)
  IN /\ Sum1(d)[k] % M = RefSum1(d)[k]
     /\ Sum1(d)[k] <= (M - 1) + t * M
     /\ Sum2(d)[k] % M = RefSum2(d)[k]
     /\ 2 * Sum2(d)[k] <= 2 * (M - 1) * (t + 1) + M * t * (t + 1)

\* One word more, in numbers: s1 and s2 are the accumulators, w is the word.
LEMMA WordStep ==
  ASSUME NEW t \in Nat, t + 1 <= Block, NEW s1 \in Nat, NEW s2 \in Nat, NEW w \in 0 .. M,
         s1 <= (M - 1) + t * M, 2 * s2 <= 2 * (M - 1) * (t + 1) + M * t * (t + 1)
  PROVE  /\ s1 + w < N * N /\ s2 + (s1 + w) < N * N
         /\ s1 + w <= (M - 1) + (t + 1) * M
         /\ 2 * (s2 + (s1 + w)) <= 2 * (M - 1) * (t + 2) + M * (t + 1) * (t + 2)
<1>1. M \in Nat /\ M >= 3
  BY MType
<1>2. s1 + w <= (M - 1) + (t + 1) * M
  <2>1. t * M \in Int /\ (t + 1) * M = t * M + M
    BY <1>1
  <2> QED
    BY <1>1, <2>1
<1>3. 2 * (s2 + (s1 + w)) <= 2 * (M - 1) * (t + 2) + M * (t + 1) * (t + 2)
  <2> DEFINE p == 2 * (M - 1) * (t + 1)
             q == M * t * (t + 1)
             u == (t + 1) * M
  <2>1. p \in Int /\ q \in Int /\ u \in Int
    BY <1>1
  <2>2. 2 * (M - 1) * (t + 2) = p + 2 * (M - 1)
    BY <1>1
  <2>3. M * (t + 1) * (t + 2) = q + 2 * u
    BY <1>1
  <2>4. 2 * s2 <= p + q /\ s1 + w <= (M - 1) + u
    BY <1>2
  <2> HIDE DEF p, q, u
  <2> QED
    BY <1>1, <2>1, <2>2, <2>3, <2>4
<1>4. s1 + w \in Nat /\ s2 + (s1 + w) \in Nat
  BY <1>1
<1>5. s1 + w < N * N /\ s2 + (s1 + w) < N * N
  <2>1. PICK x \in Nat, y \in Nat : x = s1 + w /\ y = s2 + (s1 + w)
    BY <1>4
  <2>2. x < N * N /\ y < N * N
    BY <1>2, <1>3, <2>1, BlockBound
  <2> QED
    BY <2>1, <2>2
<1> QED
  BY <1>2, <1>3, <1>5

\* The remainders, in numbers.
LEMMA WordRemainders ==
  ASSUME NEW s1 \in Nat, NEW s2 \in Nat, NEW w \in Nat
  PROVE  /\ (s1 + w) % M = ((s1 % M) + w) % M
         /\ (s2 + (s1 + w)) % M = ((s2 % M) + ((s1 + w) % M)) % M
         /\ (s2 + ((s1 + w) % M)) % M = ((s2 % M) + ((s1 + w) % M)) % M
<1>1. PICK x \in Nat : x = s1 + w
  OBVIOUS
<1>2. PICK y \in Nat : y = x % M
  BY ModType
<1>3. PICK r \in Nat : r = s2 % M
  BY ModType
<1>4. (s1 + w) % M = ((s1 % M) + w) % M
  BY MType, ModAdd
<1>5. (s2 + y) % M = (r + y) % M /\ (s2 + x) % M = (r + x) % M /\ (x + r) % M = (y + r) % M
  BY <1>2, <1>3, MType, ModAdd
<1>6. x + r = r + x /\ y + r = r + y
  OBVIOUS
<1> QED
  BY <1>1, <1>2, <1>3, <1>4, <1>5, <1>6

LEMMA SumsStep ==
  ASSUME NEW d \in Seq(Bytes), NEW k \in 0 .. Words(d) - 1, SumsAgree(d, k)
  PROVE  SumsAgree(d, k + 1)
<1> DEFINE t == Place(d, k)
           s1 == Sum1(d)[k]
           s2 == Sum2(d)[k]
           w == Word(d, k)
           x1 == Sum1(d)[k + 1]
           x2 == Sum2(d)[k + 1]
<1>1. Words(d) \in Nat /\ k + 1 \in 1 .. Words(d) /\ k \in 0 .. Words(d) /\ (k + 1) - 1 = k /\ k \in Nat /\ k + 1 \in Nat
  BY WordType
<1>2. s1 \in Nat /\ s2 \in Nat /\ w \in 0 .. M /\ w \in Nat /\ M \in Nat /\ M >= 3
  <2>1. s1 \in Nat
    BY <1>1, Sum1Lemma
  <2>2. s2 \in Nat
    BY <1>1, Sum2Lemma
  <2>3. w \in 0 .. M
    BY WordType
  <2> QED
    BY <2>1, <2>2, <2>3, MType
<1>3. t \in Nat /\ t + 1 <= Block /\ s1 <= (M - 1) + t * M /\ 2 * s2 <= 2 * (M - 1) * (t + 1) + M * t * (t + 1)
  BY <1>1, PlaceLemma DEF SumsAgree
<1>4. s1 % M = RefSum1(d)[k] /\ s2 % M = RefSum2(d)[k]
  BY DEF SumsAgree
<1>5. x1 = Reduced(d, k, s1 + w)
  BY <1>1, Sum1Lemma
<1>6. x2 = Reduced(d, k, s2 + (IF InBlock(d, k) THEN s1 + w ELSE x1))
  <2>1. x2 = Reduced(d, k, s2 + Added(d, k + 1))
    BY <1>1, Sum2Lemma
  <2> QED
    BY <1>1, <2>1 DEF Added
<1>7. RefSum1(d)[k + 1] = (RefSum1(d)[k] + w) % M
  BY <1>1, RefSum1Lemma
<1>8. RefSum2(d)[k + 1] = (RefSum2(d)[k] + RefSum1(d)[k + 1]) % M
  BY <1>1, RefSum2Lemma
<1>9. /\ InBlock(d, k) /\ ~BlockEnd(k) => Place(d, k + 1) = t + 1
      /\ ~(InBlock(d, k) /\ ~BlockEnd(k)) => Place(d, k + 1) = 0
      /\ ~InBlock(d, k) => t = 0
  BY <1>1, PlaceLemma
<1>10. PICK r1, r2 : r1 = RefSum1(d)[k + 1] /\ r2 = RefSum2(d)[k + 1]
  OBVIOUS
<1>11. PICK v : v = Place(d, k + 1)
  OBVIOUS
<1>12. SumsAgree(d, k + 1) <=>
         /\ x1 % M = r1 /\ x1 <= (M - 1) + v * M
         /\ x2 % M = r2 /\ 2 * x2 <= 2 * (M - 1) * (v + 1) + M * v * (v + 1)
  BY <1>10, <1>11 DEF SumsAgree
<1> HIDE DEF s1, s2, w, t, x1, x2
<1>13. /\ s1 + w < N * N /\ s2 + (s1 + w) < N * N
       /\ s1 + w <= (M - 1) + (t + 1) * M
       /\ 2 * (s2 + (s1 + w)) <= 2 * (M - 1) * (t + 2) + M * (t + 1) * (t + 2)
  BY <1>2, <1>3, WordStep
<1>14. r1 = (s1 + w) % M
  <2>1. (s1 + w) % M = ((s1 % M) + w) % M
    BY <1>2, WordRemainders
  <2> QED
    BY <1>4, <1>7, <1>10, <2>1
<1>15. /\ r2 = (s2 + (s1 + w)) % M
       /\ r2 = (s2 + ((s1 + w) % M)) % M
  <2>1. /\ (s2 + (s1 + w)) % M = ((s2 % M) + ((s1 + w) % M)) % M
        /\ (s2 + ((s1 + w) % M)) % M = ((s2 % M) + ((s1 + w) % M)) % M
    <3>1. s1 \in Nat /\ s2 \in Nat /\ w \in Nat
      BY <1>2
    <3> QED
      BY <3>1, WordRemainders, Zenon
  <2> QED
    BY <1>4, <1>8, <1>10, <1>14, <2>1
<1>16. s1 + w \in Nat /\ s2 + (s1 + w) \in Nat
  BY <1>2
<1>17. CASE InBlock(d, k) /\ ~BlockEnd(k)
  <2>1. x1 = s1 + w /\ x2 = s2 + (s1 + w)
    BY <1>5, <1>6, <1>13, <1>16, <1>17, ReducedLemma
  <2>2. v = t + 1
    BY <1>9, <1>11, <1>17
  <2>3. t + 1 + 1 = t + 2
    BY <1>3
  <2> QED
    BY <1>12, <1>13, <1>14, <1>15, <2>1, <2>2, <2>3
<1>18. CASE ~(InBlock(d, k) /\ ~BlockEnd(k))
  <2>1. v = 0
    BY <1>9, <1>11, <1>18
  <2>2. x1 = (s1 + w) % M
    BY <1>5, <1>13, <1>16, <1>18, ReducedLemma
  <2>3. x1 \in 0 .. M - 1 /\ x1 % M = r1
    BY <1>14, <1>16, <2>2, ModType, ModTwice
  <2>4. \E y \in Nat : y < N * N /\ x2 = y % M /\ r2 = y % M
    <3>1. CASE InBlock(d, k)
      <4>1. x2 = Reduced(d, k, s2 + (s1 + w))
        BY <1>6, <3>1
      <4>2. x2 = (s2 + (s1 + w)) % M
        BY <1>13, <1>16, <1>18, <4>1, ReducedLemma
      <4> QED
        BY <1>13, <1>15, <1>16, <4>2
    <3>2. CASE ~InBlock(d, k)
      <4>1. x2 = Reduced(d, k, s2 + x1)
        BY <1>6, <3>2
      <4>2. s2 + x1 \in Nat /\ s2 + x1 <= s2 + (s1 + w)
        <5>1. (s1 + w) % M <= s1 + w
          BY <1>16, ModAtMost
        <5> QED
          BY <1>2, <1>16, <2>2, <2>3, <5>1
      <4>3. s2 + x1 < N * N
        <5>1. N * N \in Nat
          BY Limits
        <5> QED
          BY <1>13, <1>16, <4>2, <5>1
      <4>4. x2 = (s2 + x1) % M
        BY <1>18, <4>1, <4>2, <4>3, ReducedLemma
      <4> QED
        BY <1>15, <2>2, <4>2, <4>3, <4>4
    <3> QED
      BY <3>1, <3>2
  <2>5. PICK y \in Nat : x2 = y % M /\ r2 = y % M
    BY <2>4
  <2>6. x2 \in 0 .. M - 1 /\ x2 % M = r2
    BY <2>5, ModType, ModTwice
  <2>7. x1 <= (M - 1) + v * M /\ 2 * x2 <= 2 * (M - 1) * (v + 1) + M * v * (v + 1)
    BY <1>2, <2>1, <2>3, <2>6
  <2> QED
    BY <1>12, <2>3, <2>6, <2>7
<1> QED
  BY <1>17, <1>18

\* fletcher32_compute is the checksum it is meant to be, for all bytes.
LEMMA ChecksumExact ==
  ASSUME NEW d \in Seq(Bytes)
  PROVE  Fletcher(d) = Reference(d)
<1> DEFINE n == Words(d)
           S == {k \in 0 .. n : SumsAgree(d, k)}
<1>1. n \in Nat
  BY WordType
<1>2. 0 \in S
  <2>1. Sum1(d)[0] = 0 /\ Sum2(d)[0] = 0 /\ RefSum1(d)[0] = 0 /\ RefSum2(d)[0] = 0 /\ Place(d, 0) = 0
    BY Sum1Lemma, Sum2Lemma, RefSum1Lemma, RefSum2Lemma, PlaceLemma
  <2>2. 0 % M = 0
    BY MType
  <2>3. SumsAgree(d, 0)
    BY <2>1, <2>2, MType DEF SumsAgree
  <2> QED
    BY <1>1, <2>3
<1>3. \A k \in 0 .. n - 1 : k \in S => k + 1 \in S
  <2> SUFFICES ASSUME NEW k \in 0 .. n - 1, SumsAgree(d, k) PROVE k + 1 \in 0 .. n /\ SumsAgree(d, k + 1)
    OBVIOUS
  <2> QED
    BY <1>1, SumsStep
<1> HIDE DEF S
<1>4. n \in S
  BY <1>1, <1>2, <1>3, RangeInduction
<1>5. SumsAgree(d, n) /\ Place(d, n) = 0
  BY <1>4, PlaceLemma DEF S
<1>6. Sum1(d)[n] \in Nat /\ Sum2(d)[n] \in Nat
  <2>1. n \in 0 .. n
    BY <1>1
  <2> QED
    BY <2>1, Sum1Lemma, Sum2Lemma
<1>7. PICK s1 \in Nat, s2 \in Nat : s1 = Sum1(d)[n] /\ s2 = Sum2(d)[n]
  BY <1>6
<1>8. s1 % M = RefSum1(d)[n] /\ s2 % M = RefSum2(d)[n] /\ s1 <= M - 1 /\ 2 * s2 <= 2 * (M - 1)
  BY <1>5, <1>7, MType DEF SumsAgree
<1>9. s1 % M = s1 /\ s2 % M = s2
  <2>1. s1 \in 0 .. M - 1 /\ s2 \in 0 .. M - 1
    BY <1>8, MType
  <2> QED
    BY <2>1, MType
<1>10. Sum1(d)[n] = RefSum1(d)[n] /\ Sum2(d)[n] = RefSum2(d)[n]
  BY <1>7, <1>8, <1>9
<1> QED
  BY <1>10, FletcherSums, ReferenceSums

-------------------------------------------------------------------------------
(* Filters and the ways back.                                              *)

LEMMA BytesType == 0 \in Bytes /\ 1 \in Bytes /\ B - 1 \in Bytes /\ \A x : x \in Bytes <=> x \in Nat /\ x < B
BY ByteAssumption DEF Bytes

LEMMA SeqBytes ==
  ASSUME NEW d \in Seq(Bytes)
  PROVE  /\ Len(d) \in Nat /\ DOMAIN d = 1 .. Len(d) /\ d \in [1 .. Len(d) -> Nat]
         /\ \A i \in 1 .. Len(d) : d[i] \in Bytes /\ d[i] \in Nat /\ d[i] < B
<1>1. Len(d) \in Nat /\ DOMAIN d = 1 .. Len(d) /\ \A i \in 1 .. Len(d) : d[i] \in Bytes
  OBVIOUS
<1>2. d = [i \in 1 .. Len(d) |-> d[i]]
  BY <1>1
<1>3. \A i \in 1 .. Len(d) : d[i] \in Nat /\ d[i] < B
  BY <1>1, BytesType
<1>4. d \in [1 .. Len(d) -> Nat]
  BY <1>2, <1>3
<1> QED
  BY <1>1, <1>3, <1>4

\* e is d with one byte changed.
Changed(d, e) ==
  /\ d \in Seq(Bytes) /\ e \in Seq(Bytes) /\ Len(e) = Len(d)
  /\ \E x \in 1 .. Len(d) : d[x] # e[x] /\ \A y \in 1 .. Len(d) : y # x => d[y] = e[y]

\* Turning a table of n columns and c rows, row after row.
Turned(n, c, x) == ((x - 1) % n) * c + ((x - 1) \div n) + 1

LEMMA TurnedTwice ==
  ASSUME NEW n \in Nat, n >= 1, NEW c \in Nat, c >= 1, NEW x \in 1 .. n * c
  PROVE  Turned(n, c, x) \in 1 .. n * c /\ Turned(c, n, Turned(n, c, x)) = x
<1>0. n * c \in Nat
  OBVIOUS
<1>1. PICK a \in Nat : a = x - 1 /\ a < n * c
  BY <1>0
<1>2. PICK q \in Nat, r \in 0 .. n - 1 : q = a \div n /\ r = a % n
  BY DivMod
<1>3. a = q * n + r
  BY <1>2, DivMod
<1>4. q < c
  <2> SUFFICES ASSUME q >= c PROVE FALSE
    OBVIOUS
  <2>1. q * n >= c * n /\ c * n = n * c /\ q * n \in Nat
    OBVIOUS
  <2> QED
    BY <1>0, <1>1, <1>3, <2>1
<1>5. PICK b \in Nat : b = r * c + q
  OBVIOUS
<1>6. q \in 0 .. c - 1 /\ r \in Int
  BY <1>4
<1>7. b % c = q /\ b \div c = r
  BY <1>5, <1>6, ModIs
<1>8. b < n * c
  <2>1. r + 1 <= n
    OBVIOUS
  <2>2. (r + 1) * c <= n * c
    BY <2>1
  <2>3. (r + 1) * c = r * c + c /\ r * c \in Nat
    OBVIOUS
  <2> QED
    BY <1>0, <1>4, <1>5, <2>2, <2>3
<1>9. Turned(n, c, x) = b + 1
  BY <1>1, <1>2, <1>5 DEF Turned
<1>10. Turned(c, n, b + 1) = q * n + r + 1
  <2>1. (b + 1) - 1 = b
    OBVIOUS
  <2> QED
    BY <1>7, <2>1 DEF Turned
<1> QED
  BY <1>0, <1>1, <1>3, <1>8, <1>9, <1>10

\* Both ways of shuffling, as turning.
LEMMA ShuffleShape ==
  ASSUME NEW d \in Seq(Bytes), NEW n \in Nat, ~(n <= 1), Len(d) % n = 0
  PROVE  \E c \in Nat :
           /\ Len(d) = n * c
           /\ Shuffle(d, n) = [x \in 1 .. Len(d) |-> d[Turned(c, n, x)]]
           /\ Unshuffle(d, n) = [x \in 1 .. Len(d) |-> d[Turned(n, c, x)]]
<1>1. Len(d) \in Nat /\ n >= 1
  OBVIOUS
<1>2. PICK l \in Nat : l = Len(d)
  BY <1>1
<1>3. PICK c \in Nat : c = l \div n
  BY <1>1, DivMod
<1>4. l = c * n + 0
  <2>1. l = (l \div n) * n + (l % n) /\ l % n = 0
    BY <1>1, <1>2, DivMod
  <2> QED
    BY <1>3, <2>1
<1>5. Len(d) = n * c
  BY <1>2, <1>4
<1>6. Len(d) \div n = c
  BY <1>2, <1>3
<1>7. Shuffle(d, n) = [x \in 1 .. Len(d) |-> d[Turned(c, n, x)]]
  BY <1>6 DEF Shuffle, Turned
<1>8. Unshuffle(d, n) = [x \in 1 .. Len(d) |-> d[Turned(n, c, x)]]
  BY <1>6 DEF Unshuffle, Turned
<1> QED
  BY <1>5, <1>7, <1>8

LEMMA TurnedType ==
  ASSUME NEW n \in Nat, ~(n <= 1), NEW c \in Nat, NEW l, l = n * c, NEW x \in 1 .. l
  PROVE  /\ Turned(n, c, x) \in 1 .. l /\ Turned(c, n, Turned(n, c, x)) = x
         /\ Turned(c, n, x) \in 1 .. l /\ Turned(n, c, Turned(c, n, x)) = x
<1>1. c >= 1
  <2>1. c = 0 => n * c = 0
    OBVIOUS
  <2> QED
    BY <2>1
<1>2. n * c = c * n /\ n >= 1
  OBVIOUS
<1>3. x \in 1 .. c * n /\ x \in 1 .. n * c
  BY <1>2
<1> QED
  BY <1>1, <1>2, <1>3, TurnedTwice

LEMMA Cancelled ==
  ASSUME NEW n \in Nat, ~(n <= 1), NEW c \in Nat, NEW f \in Nat, n * f = n * c
  PROVE  f = c
<1>1. n >= 1
  OBVIOUS
<1>2. f < c => n * f < n * c
  BY <1>1
<1>3. c < f => n * c < n * f
  BY <1>1
<1> QED
  BY <1>2, <1>3

LEMMA ShuffleType ==
  ASSUME NEW d \in Seq(Bytes), NEW n \in Nat
  PROVE  /\ Shuffle(d, n) = Error \/ Shuffle(d, n) \in Seq(Bytes)
         /\ Unshuffle(d, n) = Error \/ Unshuffle(d, n) \in Seq(Bytes)
<1>1. CASE n <= 1 \/ Len(d) % n # 0
  BY <1>1 DEF Shuffle, Unshuffle
<1>2. CASE ~(n <= 1) /\ Len(d) % n = 0
  <2>1. PICK c \in Nat :
           /\ Len(d) = n * c
           /\ Shuffle(d, n) = [x \in 1 .. Len(d) |-> d[Turned(c, n, x)]]
           /\ Unshuffle(d, n) = [x \in 1 .. Len(d) |-> d[Turned(n, c, x)]]
    BY <1>2, ShuffleShape
  <2>2. ASSUME NEW x \in 1 .. Len(d) PROVE d[Turned(c, n, x)] \in Bytes /\ d[Turned(n, c, x)] \in Bytes
    <3>0. Len(d) = n * c /\ ~(n <= 1)
      BY <1>2, <2>1
    <3>1. Turned(c, n, x) \in 1 .. Len(d) /\ Turned(n, c, x) \in 1 .. Len(d)
      BY <3>0, TurnedType
    <3> QED
      BY <3>1, SeqBytes
  <2>3. Len(d) \in Nat
    OBVIOUS
  <2>4. Shuffle(d, n) \in [1 .. Len(d) -> Bytes] /\ Unshuffle(d, n) \in [1 .. Len(d) -> Bytes]
    BY <2>1, <2>2
  <2> QED
    BY <2>3, <2>4
<1> QED
  BY <1>1, <1>2

LEMMA UnshuffleShuffle ==
  ASSUME NEW d \in Seq(Bytes), NEW n \in Nat, Shuffle(d, n) # Error
  PROVE  Unshuffle(Shuffle(d, n), n) = d
<1>1. CASE n <= 1
  BY <1>1 DEF Shuffle, Unshuffle
<1>2. CASE ~(n <= 1)
  <2>1. Len(d) % n = 0
    BY <1>2 DEF Shuffle
  <2>2. PICK c \in Nat :
           /\ Len(d) = n * c
           /\ Shuffle(d, n) = [x \in 1 .. Len(d) |-> d[Turned(c, n, x)]]
    BY <1>2, <2>1, ShuffleShape
  <2>3. PICK e \in Seq(Bytes) : e = Shuffle(d, n)
    BY ShuffleType
  <2>4. Len(e) = Len(d)
    <3>1. DOMAIN e = 1 .. Len(d) /\ Len(d) \in Nat
      BY <2>2, <2>3
    <3> QED
      BY <3>1
  <2>5. PICK f \in Nat :
           /\ Len(e) = n * f
           /\ Unshuffle(e, n) = [x \in 1 .. Len(e) |-> e[Turned(n, f, x)]]
    BY <1>2, <2>1, <2>4, ShuffleShape
  <2>6. f = c
    <3>0. Len(e) = n * f /\ Len(d) = n * c
      BY <2>2, <2>5
    <3>1. n * f = n * c
      BY <2>4, <3>0, Zenon
    <3> QED
      BY <1>2, <3>1, Cancelled
  <2>7. ASSUME NEW x \in 1 .. Len(d) PROVE e[Turned(n, f, x)] = d[x]
    <3>0. Len(d) = n * c
      BY <2>2
    <3>1. Turned(n, c, x) \in 1 .. Len(d) /\ Turned(c, n, Turned(n, c, x)) = x
      BY <1>2, <3>0, TurnedType
    <3>2. e[Turned(n, c, x)] = d[Turned(c, n, Turned(n, c, x))]
      BY <2>2, <2>3, <3>1
    <3> QED
      BY <2>6, <3>1, <3>2
  <2>8. d = [x \in 1 .. Len(d) |-> d[x]]
    OBVIOUS
  <2> QED
    BY <2>3, <2>4, <2>5, <2>7, <2>8
<1> QED
  BY <1>1, <1>2

\* Shuffling back spreads no change.
LEMMA UnshuffleChanged ==
  ASSUME NEW d, NEW e, NEW n \in Nat, Changed(d, e), Unshuffle(d, n) # Error
  PROVE  Changed(Unshuffle(d, n), Unshuffle(e, n))
<1>1. d \in Seq(Bytes) /\ e \in Seq(Bytes) /\ Len(e) = Len(d)
  BY DEF Changed
<1>2. CASE n <= 1
  BY <1>2 DEF Unshuffle
<1>3. CASE ~(n <= 1)
  <2>1. Len(d) % n = 0 /\ Len(e) % n = 0
    BY <1>1, <1>3 DEF Unshuffle
  <2>2. PICK c \in Nat :
           /\ Len(d) = n * c
           /\ Unshuffle(d, n) = [x \in 1 .. Len(d) |-> d[Turned(n, c, x)]]
    BY <1>1, <1>3, <2>1, ShuffleShape
  <2>3. PICK f \in Nat :
           /\ Len(e) = n * f
           /\ Unshuffle(e, n) = [x \in 1 .. Len(e) |-> e[Turned(n, f, x)]]
    BY <1>1, <1>3, <2>1, ShuffleShape
  <2>4. f = c
    <3>0. Len(e) = n * f /\ Len(d) = n * c
      BY <2>2, <2>3
    <3>1. n * f = n * c
      BY <1>1, <3>0, Zenon
    <3> QED
      BY <1>3, <3>1, Cancelled
  <2>5. PICK u, v : u = Unshuffle(d, n) /\ v = Unshuffle(e, n)
    OBVIOUS
  <2>6. u \in Seq(Bytes) /\ v \in Seq(Bytes) /\ Len(u) = Len(d) /\ Len(v) = Len(d)
    <3>1. Unshuffle(e, n) # Error
      <4>1. Unshuffle(e, n) \in [1 .. Len(e) -> Bytes]
        <5>1. ASSUME NEW x \in 1 .. Len(e) PROVE e[Turned(n, f, x)] \in Bytes
          <6>0. Len(e) = n * f
            BY <2>3
          <6>1. Turned(n, f, x) \in 1 .. Len(e)
            BY <1>3, <6>0, TurnedType
          <6> QED
            BY <1>1, <6>1, SeqBytes
        <5> QED
          BY <2>3, <5>1
      <4>2. Unshuffle(e, n) \in Seq(Bytes)
        BY <1>1, <4>1
      <4> QED
        BY <4>2, ErrorAssumption
    <3>2. u \in Seq(Bytes) /\ v \in Seq(Bytes)
      BY <1>1, <2>5, <3>1, ShuffleType
    <3>3. DOMAIN u = 1 .. Len(d)
      BY <2>2, <2>5
    <3>4. DOMAIN v = 1 .. Len(e)
      BY <2>3, <2>5
    <3>5. Len(d) \in Nat /\ Len(e) = Len(d)
      BY <1>1
    <3> QED
      BY <3>2, <3>3, <3>4, <3>5
  <2>7. \A x \in 1 .. Len(d) : u[x] = d[Turned(n, c, x)] /\ v[x] = e[Turned(n, c, x)]
    BY <1>1, <2>2, <2>3, <2>4, <2>5
  <2>8. PICK y \in 1 .. Len(d) : d[y] # e[y] /\ \A z \in 1 .. Len(d) : z # y => d[z] = e[z]
    BY DEF Changed
  <2>12. Len(d) = n * c
    BY <2>2
  <2>9. PICK x \in 1 .. Len(d) : Turned(n, c, x) = y
    <3>1. Turned(c, n, y) \in 1 .. Len(d) /\ Turned(n, c, Turned(c, n, y)) = y
      BY <1>3, <2>12, TurnedType
    <3> QED
      BY <3>1
  <2>10. u[x] # v[x]
    BY <2>7, <2>8, <2>9
  <2>11. ASSUME NEW z \in 1 .. Len(d), z # x PROVE u[z] = v[z]
    <3>1. Turned(n, c, z) \in 1 .. Len(d) /\ Turned(c, n, Turned(n, c, z)) = z
      BY <1>3, <2>12, TurnedType
    <3>2. Turned(c, n, y) = x
      BY <1>3, <2>12, <2>9, TurnedType
    <3>3. Turned(n, c, z) # y
      BY <2>11, <3>1, <3>2
    <3> QED
      BY <2>7, <2>8, <3>1, <3>3
  <2> QED
    BY <2>5, <2>6, <2>10, <2>11 DEF Changed
<1> QED
  BY <1>2, <1>3

\* Two sequences of bytes that agree are one.
LEMMA SameBytes ==
  ASSUME NEW d \in Seq(Bytes), NEW e \in Seq(Bytes), Len(e) = Len(d),
         \A i \in 1 .. Len(d) : d[i] = e[i]
  PROVE  d = e
<1>1. d = [i \in 1 .. Len(d) |-> d[i]] /\ e = [i \in 1 .. Len(d) |-> e[i]]
  OBVIOUS
<1> QED
  BY <1>1

\* The check value of zlib adds up the bytes.
LEMMA CheckLemma ==
  ASSUME NEW d \in Seq(Bytes)
  PROVE  \E sum : AddsUp(sum, Len(d), d, 1, B) /\ Check(d) = sum[Len(d)]
<1> DEFINE n == Len(d)
           Rec(u) == [k \in 0 .. n |-> IF k = 0 THEN 1 ELSE (u[k - 1] + d[k]) % B]
           sum == CHOOSE u : u = Rec(u)
<1>1. Check(d) = sum[n]
  BY DEF Check
<1>2. n \in Nat /\ d \in [1 .. n -> Nat]
  BY SeqBytes
<1>3. B \in Nat /\ B >= 1 /\ 1 \in 0 .. B - 1
  BY ByteAssumption
<1>4. \A u : IsModSum(u, n, d, 1, B) <=> u = Rec(u)
  BY DEF IsModSum
<1>5. \E u : IsModSum(u, n, d, 1, B)
  <2> HIDE DEF n
  <2> QED
    BY <1>2, <1>3, ModSumExists
<1>6. IsModSum(sum, n, d, 1, B)
  <2>1. sum = Rec(sum)
    BY <1>4, <1>5
  <2> HIDE DEF sum
  <2> QED
    BY <1>4, <2>1
<1> HIDE DEF sum
<1>7. AddsUp(sum, n, d, 1, B)
  <2> HIDE DEF n
  <2> QED
    BY <1>2, <1>3, <1>6, ModSum
<1> QED
  BY <1>1, <1>7

LEMMA CheckType ==
  ASSUME NEW d \in Seq(Bytes)
  PROVE  Check(d) \in Bytes
<1>1. PICK sum : AddsUp(sum, Len(d), d, 1, B) /\ Check(d) = sum[Len(d)]
  BY CheckLemma
<1>2. Len(d) \in 0 .. Len(d)
  OBVIOUS
<1> QED
  BY <1>1, <1>2 DEF AddsUp, Bytes

LEMMA DeflateShape ==
  ASSUME NEW d \in Seq(Bytes)
  PROVE  /\ Deflate(d) \in Seq(Bytes) /\ Len(Deflate(d)) = Len(d) + 2
         /\ Deflate(d)[1] = B - 1 /\ Deflate(d)[Len(d) + 2] = Check(d)
         /\ \A i \in 1 .. Len(d) : Deflate(d)[i + 1] = d[i]
<1>1. PICK c \in Bytes : c = Check(d)
  BY CheckType
<1>2. PICK b \in Bytes : b = B - 1
  BY BytesType
<1>3. Deflate(d) = <<b>> \o d \o <<c>>
  BY <1>1, <1>2 DEF Deflate
<1>4. <<b>> \in Seq(Bytes) /\ <<c>> \in Seq(Bytes) /\ Len(<<b>>) = 1 /\ Len(<<c>>) = 1
  OBVIOUS
<1>5. PICK e \in Seq(Bytes) : e = <<b>> \o d
  BY <1>4, ConcatProperties
<1>6. Len(e) = Len(d) + 1 /\ e[1] = b /\ \A i \in 1 .. Len(d) : e[i + 1] = d[i]
  BY <1>5
<1>7. PICK f \in Seq(Bytes) : f = e \o <<c>>
  BY <1>4, ConcatProperties
<1>8. Len(f) = Len(e) + 1 /\ f[Len(e) + 1] = c /\ \A i \in 1 .. Len(e) : f[i] = e[i]
  BY <1>7
<1>9. \A i \in 1 .. Len(d) : i + 1 \in 1 .. Len(e)
  BY <1>6
<1>10. 1 \in 1 .. Len(e)
  BY <1>6
<1>11. Deflate(d) = f /\ Len(f) = Len(d) + 2 /\ f[Len(d) + 2] = c
  BY <1>3, <1>5, <1>6, <1>7, <1>8
<1> QED
  BY <1>1, <1>2, <1>6, <1>8, <1>9, <1>10, <1>11

LEMMA InflateDeflate ==
  ASSUME NEW d \in Seq(Bytes)
  PROVE  Inflate(Deflate(d)) = d
<1>1. PICK f \in Seq(Bytes) : f = Deflate(d) /\ Len(f) = Len(d) + 2 /\ \A i \in 1 .. Len(d) : f[i + 1] = d[i]
  BY DeflateShape
<1>2. SubSeq(f, 2, Len(f) - 1) = d
  <2>1. SubSeq(f, 2, Len(f) - 1) = [i \in 1 .. Len(d) |-> f[2 + i - 1]]
    BY <1>1 DEF SubSeq
  <2>2. \A i \in 1 .. Len(d) : f[2 + i - 1] = d[i]
    BY <1>1
  <2>3. d = [i \in 1 .. Len(d) |-> d[i]]
    OBVIOUS
  <2> QED
    BY <2>1, <2>2, <2>3
<1>3. ~(Len(f) < 2)
  BY <1>1
<1> QED
  BY <1>1, <1>2, <1>3 DEF Inflate

LEMMA InflateShape ==
  ASSUME NEW d \in Seq(Bytes), Inflate(d) # Error
  PROVE  Inflate(d) \in Seq(Bytes) /\ Len(d) = Len(Inflate(d)) + 2 /\ Deflate(Inflate(d)) = d
<1> DEFINE p == SubSeq(d, 2, Len(d) - 1)
<1>1. Len(d) >= 2 /\ Deflate(p) = d /\ Inflate(d) = p
  BY DEF Inflate
<1>2. p \in Seq(Bytes)
  BY <1>1
<1> HIDE DEF p
<1>3. Len(d) = Len(p) + 2
  BY <1>1, <1>2, DeflateShape
<1> QED
  BY <1>1, <1>2, <1>3

\* zlib notices a changed byte.
LEMMA InflateNotices ==
  ASSUME NEW d, NEW e, Changed(d, e), Inflate(d) # Error
  PROVE  Inflate(e) = Error
<1> SUFFICES ASSUME Inflate(e) # Error PROVE FALSE
  OBVIOUS
<1>1. d \in Seq(Bytes) /\ e \in Seq(Bytes) /\ Len(e) = Len(d)
  BY DEF Changed
<1>2. PICK p \in Seq(Bytes) : p = Inflate(d) /\ Len(d) = Len(p) + 2 /\ Deflate(p) = d
  BY <1>1, InflateShape
<1>3. PICK q \in Seq(Bytes) : q = Inflate(e) /\ Len(e) = Len(q) + 2 /\ Deflate(q) = e
  BY <1>1, InflateShape
<1>4. PICK n \in Nat : n = Len(p) /\ n = Len(q)
  BY <1>1, <1>2, <1>3
<1>5. /\ d[1] = B - 1 /\ d[n + 2] = Check(p)
      /\ \A i \in 1 .. n : d[i + 1] = p[i]
  <2>1. /\ Deflate(p)[1] = B - 1 /\ Deflate(p)[Len(p) + 2] = Check(p)
        /\ \A i \in 1 .. Len(p) : Deflate(p)[i + 1] = p[i]
    BY DeflateShape
  <2> QED
    BY <1>2, <1>4, <2>1
<1>6. /\ e[1] = B - 1 /\ e[n + 2] = Check(q)
      /\ \A i \in 1 .. n : e[i + 1] = q[i]
  <2>1. /\ Deflate(q)[1] = B - 1 /\ Deflate(q)[Len(q) + 2] = Check(q)
        /\ \A i \in 1 .. Len(q) : Deflate(q)[i + 1] = q[i]
    BY DeflateShape
  <2> QED
    BY <1>3, <1>4, <2>1
<1>7. PICK x \in 1 .. n + 2 : d[x] # e[x] /\ \A y \in 1 .. n + 2 : y # x => d[y] = e[y]
  <2>1. Len(d) = n + 2
    BY <1>2, <1>4
  <2> QED
    BY <2>1 DEF Changed
<1>8. x # 1
  BY <1>5, <1>6, <1>7
<1>9. CASE x = n + 2
  <2>1. ASSUME NEW i \in 1 .. n PROVE p[i] = q[i]
    <3>1. i + 1 \in 1 .. n + 2 /\ i + 1 # x
      BY <1>9
    <3> QED
      BY <1>5, <1>6, <1>7, <3>1
  <2>2. p = q
    BY <1>4, <2>1, SameBytes
  <2> QED
    BY <1>5, <1>6, <1>7, <1>9, <2>2
<1>10. CASE x # n + 2
  <2>1. PICK z \in 1 .. n : x = z + 1
    <3>1. x - 1 \in 1 .. n /\ x = (x - 1) + 1
      BY <1>8, <1>10
    <3> QED
      BY <3>1
  <2>2. p[z] # q[z]
    BY <1>5, <1>6, <1>7, <2>1
  <2>3. ASSUME NEW i \in 1 .. n, i # z PROVE p[i] = q[i]
    <3>1. i + 1 \in 1 .. n + 2 /\ i + 1 # x
      BY <2>1, <2>3
    <3> QED
      BY <1>5, <1>6, <1>7, <3>1
  <2>4. PICK s : AddsUp(s, n, p, 1, B) /\ Check(p) = s[n]
    BY <1>4, CheckLemma
  <2>5. PICK r : AddsUp(r, n, q, 1, B) /\ Check(q) = r[n]
    BY <1>4, CheckLemma
  <2>6. p \in [1 .. n -> Nat] /\ q \in [1 .. n -> Nat]
    BY <1>4, SeqBytes
  <2>7. p[z] \in Nat /\ p[z] < B /\ q[z] \in Nat /\ q[z] < B
    BY <1>4, SeqBytes
  <2>8. p[z] - q[z] < B /\ q[z] - p[z] < B
    BY <2>7, ByteAssumption
  <2>9. B \in Nat /\ B >= 1 /\ 1 \in 0 .. B - 1
    BY ByteAssumption
  <2>13. AddsUp(s, n, p, 1, B) /\ AddsUp(r, n, q, 1, B)
    BY <2>4, <2>5
  <2>14. \A k \in 1 .. n : k # z => p[k] = q[k]
    BY <2>3
  <2>15. Near(p, q, n, z, B)
    BY <2>2, <2>8, <2>14 DEF Near
  <2>10. s[n] # r[n]
    BY <2>6, <2>9, <2>13, <2>15, ModSumChange
  <2>11. n + 2 \in 1 .. n + 2 /\ n + 2 # x
    BY <1>10
  <2>12. d[n + 2] = e[n + 2]
    BY <1>7, <2>11
  <2> QED
    BY <1>5, <1>6, <2>4, <2>5, <2>10, <2>12
<1> QED
  BY <1>9, <1>10

-------------------------------------------------------------------------------
(* The checksum of the file format, appended and compared.                 *)

\* The four bytes of the checksum tell its sums.
LEMMA InFileType ==
  ASSUME NEW a \in 0 .. M - 1, NEW b \in 0 .. M - 1
  PROVE  InFile(a, b) \in Seq(Bytes) /\ Len(InFile(a, b)) = 4
<1>1. ASSUME NEW c \in 0 .. M - 1 PROVE c % B \in Bytes /\ c \div B \in Bytes
  <2>0. B \in Nat /\ B >= 1 /\ c \in Nat
    BY Limits, ByteAssumption
  <2>1. PICK q \in Nat, r \in 0 .. B - 1 : q = c \div B /\ r = c % B
    BY <2>0, DivMod
  <2>2. c = q * B + r
    BY <2>0, <2>1, DivMod
  <2>3. q < B
    <3> SUFFICES ASSUME q >= B PROVE FALSE
      BY <2>0, <2>1
    <3>1. q * B >= B * B
      BY <2>0
    <3>2. q * B \in Nat /\ B * B \in Nat
      BY <2>0, <2>1
    <3>3. c >= B * B
      BY <2>1, <2>2, <3>1, <3>2
    <3>4. c <= M - 1 /\ M = B * B - 1
      BY Limits DEF N
    <3> QED
      BY <2>0, <3>2, <3>3, <3>4
  <2> QED
    BY <2>0, <2>1, <2>3 DEF Bytes
<1>2. PICK p \in Bytes, q \in Bytes : p = a % B /\ q = a \div B
  BY <1>1
<1>3. PICK r \in Bytes, s \in Bytes : r = b % B /\ s = b \div B
  BY <1>1
<1>4. InFile(a, b) = <<p, q, r, s>>
  BY <1>2, <1>3 DEF InFile
<1> QED
  BY <1>4

LEMMA InFileTells ==
  ASSUME NEW a \in 0 .. M - 1, NEW b \in 0 .. M - 1, NEW c, NEW d, InFile(a, c) = InFile(b, d)
  PROVE  a = b
<1>0. B \in Nat /\ B >= 1 /\ a \in Nat /\ b \in Nat
  BY Limits, ByteAssumption
<1>1. a % B = b % B /\ a \div B = b \div B
  BY DEF InFile
<1>2. a = (a \div B) * B + (a % B)
  BY <1>0, DivMod
<1>3. b = (b \div B) * B + (b % B)
  BY <1>0, DivMod
<1> QED
  BY <1>1, <1>2, <1>3

LEMMA FletcherShape ==
  ASSUME NEW d \in Seq(Bytes)
  PROVE  Fletcher(d) \in Seq(Bytes) /\ Len(Fletcher(d)) = 4
<1>1. Words(d) \in Nat /\ Words(d) \in 0 .. Words(d)
  BY WordType
<1>2. RefSum1(d)[Words(d)] \in 0 .. M - 1
  BY <1>1, RefSum1Lemma
<1>3. RefSum2(d)[Words(d)] \in 0 .. M - 1
  BY <1>1, RefSum2Lemma
<1>4. Fletcher(d) = InFile(RefSum1(d)[Words(d)], RefSum2(d)[Words(d)])
  BY ChecksumExact, ReferenceSums
<1> QED
  BY <1>2, <1>3, <1>4, InFileType

LEMMA AppendShape ==
  ASSUME NEW d \in Seq(Bytes)
  PROVE  /\ FletcherAppend(d) \in Seq(Bytes) /\ Len(FletcherAppend(d)) = Len(d) + 4
         /\ \A i \in 1 .. Len(d) : FletcherAppend(d)[i] = d[i]
         /\ \A i \in 1 .. 4 : FletcherAppend(d)[Len(d) + i] = Fletcher(d)[i]
<1>1. PICK f \in Seq(Bytes) : f = Fletcher(d) /\ Len(f) = 4
  BY FletcherShape
<1>2. PICK e \in Seq(Bytes) : e = d \o f
  BY ConcatProperties
<1>3. Len(e) = Len(d) + 4
  <2>1. Len(d \o f) = Len(d) + Len(f)
    BY ConcatProperties
  <2> QED
    BY <1>1, <1>2, <2>1
<1>4. \A i \in 1 .. Len(d) : e[i] = d[i]
  BY <1>2
<1>5. \A i \in 1 .. 4 : e[Len(d) + i] = f[i]
  <2>1. Len(d) \in Nat
    OBVIOUS
  <2>2. ASSUME NEW i \in 1 .. 4 PROVE e[Len(d) + i] = f[i]
    <3>1. Len(d) + i \in 1 .. Len(d) + Len(f) /\ ~(Len(d) + i <= Len(d)) /\ (Len(d) + i) - Len(d) = i
      BY <1>1, <2>1
    <3>2. (d \o f)[Len(d) + i] = IF Len(d) + i <= Len(d) THEN d[Len(d) + i] ELSE f[(Len(d) + i) - Len(d)]
      BY <3>1, ConcatProperties
    <3> QED
      BY <1>2, <3>1, <3>2
  <2> QED
    BY <2>2
<1>6. FletcherAppend(d) = e
  BY <1>1, <1>2 DEF FletcherAppend
<1> QED
  BY <1>1, <1>3, <1>4, <1>5, <1>6

LEMMA VerifyAppend ==
  ASSUME NEW d \in Seq(Bytes)
  PROVE  FletcherVerify(FletcherAppend(d)) = d
<1>1. PICK f \in Seq(Bytes) : f = FletcherAppend(d) /\ Len(f) = Len(d) + 4 /\ \A i \in 1 .. Len(d) : f[i] = d[i]
  BY AppendShape
<1>2. SubSeq(f, 1, Len(f) - 4) = d
  <2>1. SubSeq(f, 1, Len(f) - 4) = [i \in 1 .. Len(d) |-> f[1 + i - 1]]
    BY <1>1 DEF SubSeq
  <2>2. \A i \in 1 .. Len(d) : f[1 + i - 1] = d[i]
    BY <1>1
  <2>3. d = [i \in 1 .. Len(d) |-> d[i]]
    OBVIOUS
  <2> QED
    BY <2>1, <2>2, <2>3
<1>3. ~(Len(f) < 4)
  BY <1>1
<1> QED
  BY <1>1, <1>2, <1>3 DEF FletcherVerify, FletcherAppend

LEMMA VerifyShape ==
  ASSUME NEW d \in Seq(Bytes), FletcherVerify(d) # Error
  PROVE  /\ FletcherVerify(d) \in Seq(Bytes) /\ Len(d) = Len(FletcherVerify(d)) + 4
         /\ FletcherAppend(FletcherVerify(d)) = d
<1> DEFINE p == SubSeq(d, 1, Len(d) - 4)
<1>1. ~(Len(d) < 4) /\ FletcherAppend(p) = d /\ FletcherVerify(d) = p
  BY Zenon DEF FletcherVerify, FletcherAppend
<1>2. p \in Seq(Bytes)
  BY <1>1
<1> HIDE DEF p
<1>3. Len(d) = Len(p) + 4
  BY <1>1, <1>2, AppendShape
<1> QED
  BY <1>1, <1>2, <1>3

\* A changed byte changes the word it is in, by less than M, and no other.
LEMMA WordChanges ==
  ASSUME NEW d, NEW e, Changed(d, e)
  PROVE  /\ Words(d) \in Nat /\ Words(e) = Words(d)
         /\ \E x \in 1 .. Words(d) :
              Near([k \in 1 .. Words(d) |-> Word(d, k - 1)], [k \in 1 .. Words(d) |-> Word(e, k - 1)],
                   Words(d), x, M)
<1>1. d \in Seq(Bytes) /\ e \in Seq(Bytes) /\ Len(e) = Len(d)
  BY DEF Changed
<1>2. PICK l \in Nat : l = Len(d) /\ l = Len(e)
  BY <1>1
<1>3. PICK x \in 1 .. l : d[x] # e[x] /\ \A y \in 1 .. l : y # x => d[y] = e[y]
  BY <1>2 DEF Changed
<1>4. PICK n \in Nat : n = Words(d) /\ n = Words(e) /\ l <= 2 * n /\ 2 * n <= l + 1
  BY <1>2 DEF Words
<1>5. PICK k \in 1 .. n : x = 2 * (k - 1) + 1 \/ x = 2 * (k - 1) + 2
  <2>1. PICK k \in Nat : k = (x + 1) \div 2
    BY <1>3
  <2>2. (x = 2 * (k - 1) + 1 \/ x = 2 * (k - 1) + 2) /\ k \in 1 .. n
    BY <1>3, <1>4, <2>1
  <2> QED
    BY <2>2
<1> DEFINE Low(f, j) == IF 2 * j + 2 <= l THEN f[2 * j + 2] ELSE 0
<1>6. \A j \in Nat : Word(d, j) = B * d[2 * j + 1] + Low(d, j) /\ Word(e, j) = B * e[2 * j + 1] + Low(e, j)
  BY <1>2 DEF Word
<1>7. ASSUME NEW j \in 1 .. n, j # k PROVE Word(d, j - 1) = Word(e, j - 1)
  <2>1. 2 * (j - 1) + 1 # x /\ 2 * (j - 1) + 2 # x /\ 2 * (j - 1) + 1 \in 1 .. l /\ j - 1 \in Nat
    BY <1>4, <1>5, <1>7
  <2>2. d[2 * (j - 1) + 1] = e[2 * (j - 1) + 1]
    BY <1>3, <2>1
  <2>3. Low(d, j - 1) = Low(e, j - 1)
    <3>1. CASE 2 * (j - 1) + 2 <= l
      <4>1. 2 * (j - 1) + 2 \in 1 .. l
        BY <2>1, <3>1
      <4> QED
        BY <1>3, <2>1, <4>1
    <3>2. CASE ~(2 * (j - 1) + 2 <= l)
      BY <3>2
    <3> QED
      BY <3>1, <3>2
  <2> HIDE DEF Low
  <2> QED
    BY <1>6, <2>1, <2>2, <2>3
<1>8. PICK i \in Nat : i = k - 1 /\ 2 * i + 1 \in 1 .. l
  BY <1>3, <1>4, <1>5
<1>9. /\ d[2 * i + 1] \in 0 .. B - 1 /\ e[2 * i + 1] \in 0 .. B - 1
      /\ Low(d, i) \in 0 .. B - 1 /\ Low(e, i) \in 0 .. B - 1
  <2>1. d[2 * i + 1] \in 0 .. B - 1 /\ e[2 * i + 1] \in 0 .. B - 1
    <3>1. d[2 * i + 1] \in Bytes /\ e[2 * i + 1] \in Bytes
      BY <1>1, <1>2, <1>8, SeqBytes
    <3> QED
      BY <3>1 DEF Bytes
  <2>2. CASE 2 * i + 2 <= l
    <3>1. d[2 * i + 2] \in Bytes /\ e[2 * i + 2] \in Bytes
      <4>1. 2 * i + 2 \in 1 .. l
        BY <2>2
      <4> QED
        BY <1>1, <1>2, <4>1, SeqBytes
    <3> QED
      BY <2>1, <2>2, <3>1 DEF Bytes
  <2>3. CASE ~(2 * i + 2 <= l)
    BY <2>1, <2>3, ByteAssumption
  <2> QED
    BY <2>2, <2>3
<1>10. PICK a \in 0 .. B - 1, b \in 0 .. B - 1, p \in 0 .. B - 1, q \in 0 .. B - 1 :
         a = d[2 * i + 1] /\ b = e[2 * i + 1] /\ p = Low(d, i) /\ q = Low(e, i)
  BY <1>9
<1>11. (a # b /\ p = q) \/ (a = b /\ p # q)
  <2>1. CASE x = 2 * i + 1
    <3>1. a # b
      BY <1>3, <1>10, <2>1
    <3>2. 2 * i + 2 <= l => 2 * i + 2 \in 1 .. l /\ 2 * i + 2 # x
      BY <2>1
    <3>3. p = q
      BY <1>3, <1>10, <3>2
    <3> QED
      BY <3>1, <3>3
  <2>2. CASE x = 2 * i + 2
    <3>1. 2 * i + 1 # x /\ 2 * i + 2 <= l
      BY <1>3, <2>2
    <3>2. a = b
      BY <1>3, <1>8, <1>10, <3>1
    <3>3. p = d[x] /\ q = e[x]
      BY <1>10, <2>2, <3>1
    <3> QED
      BY <1>3, <3>2, <3>3
  <2> QED
    BY <1>5, <1>8, <2>1, <2>2
<1>12. Word(d, i) = B * a + p /\ Word(e, i) = B * b + q
  <2> HIDE DEF Low
  <2> QED
    BY <1>6, <1>10
<1> HIDE DEF Low
<1>13. /\ B * a + p # B * b + q /\ (B * a + p) - (B * b + q) < M /\ (B * b + q) - (B * a + p) < M
  <2>1. PICK bb \in Int : bb = B * B
    BY ByteAssumption
  <2>2. PICK ba \in Int, be \in Int : ba = B * a /\ be = B * b
    BY ByteAssumption
  <2>3. M = bb - 1 /\ B >= 2 /\ bb >= 2 * B /\ B \in Nat
    BY <2>1, ByteAssumption DEF M
  <2>4. B * (B - 1) = B * B - B
    BY ByteAssumption
  <2>5. ba >= 0 /\ ba <= bb - B /\ be >= 0 /\ be <= bb - B
    <3>1. B * a >= 0 /\ B * a <= B * (B - 1) /\ B * b >= 0 /\ B * b <= B * (B - 1)
      BY ByteAssumption
    <3> QED
      BY <2>1, <2>2, <2>4, <3>1
  <2>6. a # b => ba # be
    <3>1. a < b => B * a < B * b
      BY ByteAssumption
    <3>2. b < a => B * b < B * a
      BY ByteAssumption
    <3> QED
      BY <2>2, <3>1, <3>2
  <2>7. a = b => ba = be
    BY <2>2
  <2>8. ba + p # be + q /\ (ba + p) - (be + q) < M /\ (be + q) - (ba + p) < M
    BY <1>11, <2>3, <2>5, <2>6, <2>7
  <2> QED
    BY <2>2, <2>8
<1> DEFINE w == [j \in 1 .. n |-> Word(d, j - 1)]
           v == [j \in 1 .. n |-> Word(e, j - 1)]
<1>14. w[k] = B * a + p /\ v[k] = B * b + q
  BY <1>8, <1>12
<1>15. \A j \in 1 .. n : j # k => w[j] = v[j]
  BY <1>7
<1> HIDE DEF w, v
<1>16. Near(w, v, n, k, M)
  BY <1>13, <1>14, <1>15 DEF Near
<1> QED
  BY <1>4, <1>16 DEF w, v

\* A changed byte changes the checksum.
LEMMA FletcherDiffers ==
  ASSUME NEW d, NEW e, Changed(d, e)
  PROVE  Fletcher(d) # Fletcher(e)
<1>1. d \in Seq(Bytes) /\ e \in Seq(Bytes)
  BY DEF Changed
<1>2. PICK n \in Nat : n = Words(d) /\ n = Words(e)
  BY WordChanges
<1> DEFINE w == [k \in 1 .. n |-> Word(d, k - 1)]
           v == [k \in 1 .. n |-> Word(e, k - 1)]
<1>3. PICK x \in 1 .. n : Near(w, v, n, x, M)
  BY <1>2, WordChanges
<1>4. w \in [1 .. n -> Nat] /\ v \in [1 .. n -> Nat]
  <2>1. ASSUME NEW k \in 1 .. n PROVE Word(d, k - 1) \in Nat /\ Word(e, k - 1) \in Nat
    <3>1. k - 1 \in 0 .. n - 1
      OBVIOUS
    <3>2. Word(d, k - 1) \in 0 .. M /\ Word(e, k - 1) \in 0 .. M
      BY <1>1, <1>2, <3>1, WordType
    <3> QED
      BY <3>2
  <2> QED
    BY <2>1
<1>5. AddsUp(RefSum1(d), n, w, 0, M)
  BY <1>1, <1>2, RefSum1Lemma DEF AddsUp
<1>6. AddsUp(RefSum1(e), n, v, 0, M)
  BY <1>1, <1>2, RefSum1Lemma DEF AddsUp
<1> HIDE DEF w, v
<1>7. RefSum1(d)[n] # RefSum1(e)[n]
  BY <1>3, <1>4, <1>5, <1>6, ModStart, ModSumChange
<1>8. RefSum1(d)[n] \in 0 .. M - 1 /\ RefSum1(e)[n] \in 0 .. M - 1
  BY <1>5, <1>6 DEF AddsUp
<1>9. Fletcher(d) = InFile(RefSum1(d)[n], RefSum2(d)[n]) /\ Fletcher(e) = InFile(RefSum1(e)[n], RefSum2(e)[n])
  BY <1>1, <1>2, ChecksumExact, ReferenceSums
<1> QED
  BY <1>7, <1>8, <1>9, InFileTells

\* The checksum notices a changed byte.
LEMMA VerifyNotices ==
  ASSUME NEW d, NEW e, Changed(d, e), FletcherVerify(d) # Error
  PROVE  FletcherVerify(e) = Error
<1> SUFFICES ASSUME FletcherVerify(e) # Error PROVE FALSE
  OBVIOUS
<1>1. d \in Seq(Bytes) /\ e \in Seq(Bytes) /\ Len(e) = Len(d)
  BY DEF Changed
<1>2. PICK p \in Seq(Bytes) : p = FletcherVerify(d) /\ Len(d) = Len(p) + 4 /\ FletcherAppend(p) = d
  BY <1>1, VerifyShape
<1>3. PICK q \in Seq(Bytes) : q = FletcherVerify(e) /\ Len(e) = Len(q) + 4 /\ FletcherAppend(q) = e
  BY <1>1, VerifyShape
<1>4. PICK n \in Nat : n = Len(p) /\ n = Len(q)
  BY <1>1, <1>2, <1>3
<1>5. /\ \A i \in 1 .. n : d[i] = p[i]
      /\ \A i \in 1 .. 4 : d[n + i] = Fletcher(p)[i]
  <2>1. /\ \A i \in 1 .. Len(p) : FletcherAppend(p)[i] = p[i]
        /\ \A i \in 1 .. 4 : FletcherAppend(p)[Len(p) + i] = Fletcher(p)[i]
    BY AppendShape
  <2> QED
    BY <1>2, <1>4, <2>1
<1>6. /\ \A i \in 1 .. n : e[i] = q[i]
      /\ \A i \in 1 .. 4 : e[n + i] = Fletcher(q)[i]
  <2>1. /\ \A i \in 1 .. Len(q) : FletcherAppend(q)[i] = q[i]
        /\ \A i \in 1 .. 4 : FletcherAppend(q)[Len(q) + i] = Fletcher(q)[i]
    BY AppendShape
  <2> QED
    BY <1>3, <1>4, <2>1
<1>7. PICK x \in 1 .. n + 4 : d[x] # e[x] /\ \A y \in 1 .. n + 4 : y # x => d[y] = e[y]
  <2>1. Len(d) = n + 4
    BY <1>2, <1>4
  <2> QED
    BY <2>1 DEF Changed
<1>8. CASE x <= n
  <2>1. x \in 1 .. n /\ p[x] # q[x]
    BY <1>5, <1>6, <1>7, <1>8
  <2>2. ASSUME NEW i \in 1 .. n, i # x PROVE p[i] = q[i]
    BY <1>5, <1>6, <1>7, <2>2
  <2>3. Changed(p, q)
    BY <1>4, <2>1, <2>2 DEF Changed
  <2>4. ASSUME NEW i \in 1 .. 4 PROVE Fletcher(p)[i] = Fletcher(q)[i]
    <3>1. n + i \in 1 .. n + 4 /\ n + i # x
      BY <1>8
    <3> QED
      BY <1>5, <1>6, <1>7, <3>1
  <2>5. PICK f \in Seq(Bytes), g \in Seq(Bytes) : f = Fletcher(p) /\ g = Fletcher(q) /\ Len(f) = 4 /\ Len(g) = 4
    BY FletcherShape
  <2>6. f = g
    BY <2>4, <2>5, SameBytes
  <2> QED
    BY <2>3, <2>5, <2>6, FletcherDiffers
<1>9. CASE ~(x <= n)
  <2>1. ASSUME NEW i \in 1 .. n PROVE p[i] = q[i]
    <3>1. i \in 1 .. n + 4 /\ i # x
      BY <1>9
    <3> QED
      BY <1>5, <1>6, <1>7, <3>1
  <2>2. p = q
    BY <1>4, <2>1, SameBytes
  <2>3. PICK i \in 1 .. 4 : x = n + i
    <3>1. x - n \in 1 .. 4 /\ x = n + (x - n)
      BY <1>9
    <3> QED
      BY <3>1
  <2> QED
    BY <1>5, <1>6, <1>7, <2>2, <2>3
<1> QED
  BY <1>8, <1>9

-------------------------------------------------------------------------------
(* Pipelines.                                                              *)

Value == Seq(Bytes) \cup {Error}

LEMMA FilterTypes ==
  ASSUME NEW d \in Seq(Bytes), NEW n \in Nat, NEW f
  PROVE  Compressed(d, f, n) \in Value /\ Decompressed(d, f, n) \in Value
<1>1. Shuffle(d, n) \in Value /\ Unshuffle(d, n) \in Value
  BY ShuffleType DEF Value
<1>2. Deflate(d) \in Value
  BY DeflateShape DEF Value
<1>3. Inflate(d) \in Value
  BY InflateShape DEF Value
<1>4. FletcherAppend(d) \in Value
  BY AppendShape DEF Value
<1>5. FletcherVerify(d) \in Value
  BY VerifyShape DEF Value
<1>6. Error \in Value
  BY DEF Value
<1> HIDE DEF Value
<1>7. CASE f = "shuffle"
  BY <1>1, <1>7 DEF Compressed, Decompressed
<1>8. CASE f = "deflate"
  BY <1>2, <1>3, <1>8 DEF Compressed, Decompressed
<1>9. CASE f = "fletcher32"
  BY <1>4, <1>5, <1>9 DEF Compressed, Decompressed
<1>10. CASE f # "shuffle" /\ f # "deflate" /\ f # "fletcher32"
  BY <1>6, <1>10 DEF Compressed, Decompressed
<1> QED
  BY <1>7, <1>8, <1>9, <1>10

\* Each filter undoes itself.
LEMMA FilterInverse ==
  ASSUME NEW d \in Seq(Bytes), NEW n \in Nat, NEW f, Compressed(d, f, n) # Error
  PROVE  Decompressed(Compressed(d, f, n), f, n) = d
<1>1. CASE f = "shuffle"
  <2>1. Compressed(d, f, n) = Shuffle(d, n)
    BY <1>1 DEF Compressed
  <2>2. Unshuffle(Shuffle(d, n), n) = d
    BY <2>1, UnshuffleShuffle
  <2> QED
    BY <1>1, <2>1, <2>2 DEF Decompressed
<1>2. CASE f = "deflate"
  <2>1. Compressed(d, f, n) = Deflate(d)
    BY <1>2 DEF Compressed
  <2> QED
    BY <1>2, <2>1, InflateDeflate DEF Decompressed
<1>3. CASE f = "fletcher32"
  <2>1. Compressed(d, f, n) = FletcherAppend(d)
    BY <1>3 DEF Compressed
  <2> QED
    BY <1>3, <2>1, VerifyAppend DEF Decompressed
<1>4. CASE f # "shuffle" /\ f # "deflate" /\ f # "fletcher32"
  BY <1>4 DEF Compressed
<1> QED
  BY <1>1, <1>2, <1>3, <1>4

\* No filter hides a changed byte, and all but shuffling notice it.
LEMMA FilterNotices ==
  ASSUME NEW d, NEW e, NEW n \in Nat, NEW f, Changed(d, e), Decompressed(d, f, n) # Error
  PROVE  \/ Decompressed(e, f, n) = Error
         \/ f # "fletcher32" /\ Changed(Decompressed(d, f, n), Decompressed(e, f, n))
<1>1. CASE f = "shuffle"
  <2>1. Decompressed(d, f, n) = Unshuffle(d, n) /\ Decompressed(e, f, n) = Unshuffle(e, n)
    BY <1>1 DEF Decompressed
  <2>2. Changed(Unshuffle(d, n), Unshuffle(e, n))
    BY <2>1, UnshuffleChanged
  <2> QED
    BY <1>1, <2>1, <2>2
<1>2. CASE f = "deflate"
  <2>1. Decompressed(d, f, n) = Inflate(d) /\ Decompressed(e, f, n) = Inflate(e)
    BY <1>2 DEF Decompressed
  <2> QED
    BY <2>1, InflateNotices
<1>3. CASE f = "fletcher32"
  <2>1. Decompressed(d, f, n) = FletcherVerify(d) /\ Decompressed(e, f, n) = FletcherVerify(e)
    BY <1>3 DEF Decompressed
  <2> QED
    BY <2>1, VerifyNotices
<1>4. CASE f # "shuffle" /\ f # "deflate" /\ f # "fletcher32"
  BY <1>4 DEF Decompressed
<1> QED
  BY <1>1, <1>2, <1>3, <1>4

\* u[k] is what the first k filters make of d.
Upward(u, d, p, n) ==
  /\ u \in [0 .. Len(p) -> Value] /\ u[0] = d
  /\ \A k \in 1 .. Len(p) : u[k] = IF u[k - 1] = Error THEN Error ELSE Compressed(u[k - 1], p[k], n)

\* u[k] is what the filters from k on make of d, last first.
Downward(u, d, p, n) ==
  /\ u \in [1 .. Len(p) + 1 -> Value] /\ u[Len(p) + 1] = d
  /\ \A k \in 1 .. Len(p) : u[k] = IF u[k + 1] = Error THEN Error ELSE Decompressed(u[k + 1], p[k], n)

LEMMA CompressLemma ==
  ASSUME NEW d \in Seq(Bytes), NEW p, Len(p) \in Nat, NEW n \in Nat
  PROVE  \E u : Upward(u, d, p, n) /\ Compress(d, p, n) = u[Len(p)]
<1> DEFINE Rec(u) == [k \in 0 .. Len(p) |->
                        IF k = 0 THEN d
                        ELSE IF u[k - 1] = Error THEN Error ELSE Compressed(u[k - 1], p[k], n)]
           upTo == CHOOSE u : u = Rec(u)
<1>1. Compress(d, p, n) = upTo[Len(p)]
  BY DEF Compress
<1> DEFINE step == [k \in 1 .. Len(p) |-> [v \in Value |-> IF v = Error THEN Error ELSE Compressed(v, p[k], n)]]
<1>2. step \in [1 .. Len(p) -> [Value -> Value]]
  <2>1. ASSUME NEW k \in 1 .. Len(p), NEW v \in Value
        PROVE  (IF v = Error THEN Error ELSE Compressed(v, p[k], n)) \in Value
    <3>1. CASE v = Error
      BY <3>1
    <3>2. CASE v # Error
      <4>1. v \in Seq(Bytes)
        BY <3>2 DEF Value
      <4> QED
        BY <3>2, <4>1, FilterTypes
    <3> QED
      BY <3>1, <3>2
  <2> QED
    BY <2>1
<1>3. d \in Value
  BY DEF Value
<1>4. PICK u \in [0 .. Len(p) -> Value] : IsFold(u, Len(p), d, step)
  <2> HIDE DEF step
  <2> QED
    BY <1>2, <1>3, FoldExists
<1>5. u[0] = d /\ \A k \in 1 .. Len(p) : u[k] = IF u[k - 1] = Error THEN Error ELSE Compressed(u[k - 1], p[k], n)
  <2>1. u[0] = d /\ \A k \in 1 .. Len(p) : u[k] = step[k][u[k - 1]]
    BY <1>4 DEF IsFold
  <2>2. ASSUME NEW k \in 1 .. Len(p)
        PROVE  u[k] = IF u[k - 1] = Error THEN Error ELSE Compressed(u[k - 1], p[k], n)
    <3>1. k - 1 \in 0 .. Len(p)
      OBVIOUS
    <3>2. u[k - 1] \in Value
      BY <1>4, <3>1
    <3> QED
      BY <2>1, <3>2
  <2> QED
    BY <2>1, <2>2
<1> HIDE DEF step
<1>6. u = Rec(u)
  <2>1. \A k \in 0 .. Len(p) : u[k] = Rec(u)[k]
    BY <1>5
  <2>2. DOMAIN u = 0 .. Len(p) /\ DOMAIN Rec(u) = 0 .. Len(p)
    BY <1>4
  <2>3. u = [k \in 0 .. Len(p) |-> u[k]]
    BY <1>4
  <2> QED
    BY <2>1, <2>3
<1>7. upTo = Rec(upTo)
  BY <1>6
<1> HIDE DEF upTo
<1>8. upTo[0] = d
  BY <1>7
<1>9. \A k \in 1 .. Len(p) : upTo[k] = IF upTo[k - 1] = Error THEN Error ELSE Compressed(upTo[k - 1], p[k], n)
  BY <1>7
<1>10. DOMAIN upTo = 0 .. Len(p)
  BY <1>7
<1> HIDE DEF Rec
<1> DEFINE S == {k \in 0 .. Len(p) : upTo[k] \in Value}
<1>11. 0 \in S
  BY <1>3, <1>8
<1>12. ASSUME NEW k \in 0 .. Len(p) - 1, k \in S PROVE k + 1 \in S
  <2>1. k + 1 \in 1 .. Len(p) /\ (k + 1) - 1 = k /\ k + 1 \in 0 .. Len(p) /\ upTo[k] \in Value
    BY <1>12
  <2>2. upTo[k + 1] = IF upTo[k] = Error THEN Error ELSE Compressed(upTo[k], p[k + 1], n)
    BY <1>9, <2>1
  <2>3. upTo[k + 1] \in Value
    <3>1. CASE upTo[k] = Error
      BY <2>1, <2>2, <3>1
    <3>2. CASE upTo[k] # Error
      <4>1. upTo[k] \in Seq(Bytes)
        BY <2>1, <3>2 DEF Value
      <4> QED
        BY <2>2, <3>2, <4>1, FilterTypes
    <3> QED
      BY <3>1, <3>2
  <2> QED
    BY <2>1, <2>3
<1>13. 0 .. Len(p) \subseteq S
  <2> HIDE DEF S
  <2> QED
    BY <1>11, <1>12, RangeInduction
<1>14. \A k \in 0 .. Len(p) : upTo[k] \in Value
  BY <1>13
<1> HIDE DEF S
<1>15. upTo \in [0 .. Len(p) -> Value]
  <2>1. upTo = [k \in 0 .. Len(p) |-> upTo[k]]
    BY <1>7 DEF Rec
  <2> QED
    BY <1>14, <2>1
<1>16. Upward(upTo, d, p, n)
  BY <1>8, <1>9, <1>15 DEF Upward
<1> QED
  BY <1>1, <1>16

LEMMA DecompressLemma ==
  ASSUME NEW d \in Seq(Bytes), NEW p, Len(p) \in Nat, NEW n \in Nat
  PROVE  \E u : Downward(u, d, p, n) /\ Decompress(d, p, n) = u[1]
<1> DEFINE l == Len(p)
           Rec(u) == [k \in 1 .. l + 1 |->
                        IF k = l + 1 THEN d
                        ELSE IF u[k + 1] = Error THEN Error ELSE Decompressed(u[k + 1], p[k], n)]
           downTo == CHOOSE u : u = Rec(u)
<1>1. Decompress(d, p, n) = downTo[1]
  BY DEF Decompress
<1> DEFINE step == [k \in 1 .. l |->
                      [v \in Value |-> IF v = Error THEN Error ELSE Decompressed(v, p[l + 1 - k], n)]]
<1>2. step \in [1 .. l -> [Value -> Value]]
  <2>1. ASSUME NEW k \in 1 .. l, NEW v \in Value
        PROVE  (IF v = Error THEN Error ELSE Decompressed(v, p[l + 1 - k], n)) \in Value
    <3>1. CASE v = Error
      BY <3>1
    <3>2. CASE v # Error
      <4>1. v \in Seq(Bytes)
        BY <3>2 DEF Value
      <4> QED
        BY <3>2, <4>1, FilterTypes
    <3> QED
      BY <3>1, <3>2
  <2> QED
    BY <2>1
<1>3. d \in Value /\ l \in Nat
  BY DEF Value
<1>4. PICK u \in [0 .. l -> Value] : IsFold(u, l, d, step)
  <2> HIDE DEF step, l
  <2> QED
    BY <1>2, <1>3, FoldExists
<1> HIDE DEF l
<1>5. u[0] = d /\ \A k \in 1 .. l : u[k] = IF u[k - 1] = Error THEN Error ELSE Decompressed(u[k - 1], p[l + 1 - k], n)
  <2>1. u[0] = d /\ \A k \in 1 .. l : u[k] = step[k][u[k - 1]]
    BY <1>4 DEF IsFold
  <2>2. ASSUME NEW k \in 1 .. l
        PROVE  u[k] = IF u[k - 1] = Error THEN Error ELSE Decompressed(u[k - 1], p[l + 1 - k], n)
    <3>1. k - 1 \in 0 .. l
      BY <1>3
    <3>2. u[k - 1] \in Value
      BY <1>4, <3>1
    <3> QED
      BY <2>1, <3>2
  <2> QED
    BY <2>1, <2>2
<1> HIDE DEF step
<1> DEFINE w == [k \in 1 .. l + 1 |-> u[l + 1 - k]]
<1>6. w = Rec(w)
  <2>1. ASSUME NEW k \in 1 .. l + 1 PROVE w[k] = Rec(w)[k]
    <3>1. CASE k = l + 1
      <4>1. l + 1 - k = 0
        BY <1>3, <3>1
      <4> QED
        BY <1>5, <3>1, <4>1
    <3>2. CASE k # l + 1
      <4>1. PICK j \in 1 .. l : j = l + 1 - k /\ l + 1 - j = k /\ j - 1 = l + 1 - (k + 1) /\ k + 1 \in 1 .. l + 1
        <5>1. l + 1 - k \in 1 .. l /\ l + 1 - (l + 1 - k) = k /\ (l + 1 - k) - 1 = l + 1 - (k + 1) /\ k + 1 \in 1 .. l + 1
          BY <1>3, <3>2
        <5> QED
          BY <5>1
      <4>2. w[k] = u[j] /\ w[k + 1] = u[j - 1]
        BY <4>1
      <4>3. u[j] = IF u[j - 1] = Error THEN Error ELSE Decompressed(u[j - 1], p[k], n)
        BY <1>5, <4>1
      <4>4. Rec(w)[k] = IF w[k + 1] = Error THEN Error ELSE Decompressed(w[k + 1], p[k], n)
        BY <3>2
      <4> QED
        BY <4>2, <4>3, <4>4
    <3> QED
      BY <3>1, <3>2
  <2>2. w = [k \in 1 .. l + 1 |-> w[k]]
    OBVIOUS
  <2> HIDE DEF w
  <2> QED
    BY <2>1, <2>2
<1> HIDE DEF w
<1>7. downTo = Rec(downTo)
  BY <1>6
<1> HIDE DEF downTo
<1>8. downTo[l + 1] = d
  BY <1>3, <1>7
<1>9. \A k \in 1 .. l : downTo[k] = IF downTo[k + 1] = Error THEN Error ELSE Decompressed(downTo[k + 1], p[k], n)
  <2>1. ASSUME NEW k \in 1 .. l
        PROVE  downTo[k] = IF downTo[k + 1] = Error THEN Error ELSE Decompressed(downTo[k + 1], p[k], n)
    <3>1. k \in 1 .. l + 1 /\ k # l + 1
      BY <1>3
    <3> QED
      BY <1>7, <3>1
  <2> QED
    BY <2>1
<1>10. downTo = [k \in 1 .. l + 1 |-> downTo[k]]
  BY <1>7
<1> HIDE DEF Rec
<1> DEFINE S == {j \in 0 .. l : downTo[l + 1 - j] \in Value}
<1>11. 0 \in S
  <2>1. l + 1 - 0 = l + 1 /\ 0 \in 0 .. l
    BY <1>3
  <2> QED
    BY <1>3, <1>8, <2>1
<1>12. ASSUME NEW j \in 0 .. l - 1, j \in S PROVE j + 1 \in S
  <2>1. PICK k \in 1 .. l : k = l + 1 - (j + 1) /\ k + 1 = l + 1 - j /\ j + 1 \in 0 .. l
    <3>1. l + 1 - (j + 1) \in 1 .. l /\ (l + 1 - (j + 1)) + 1 = l + 1 - j /\ j + 1 \in 0 .. l
      BY <1>3
    <3> QED
      BY <3>1
  <2>2. downTo[k] = IF downTo[k + 1] = Error THEN Error ELSE Decompressed(downTo[k + 1], p[k], n)
    BY <1>9
  <2>3. downTo[k + 1] \in Value
    BY <1>12, <2>1
  <2>4. downTo[k] \in Value
    <3>1. CASE downTo[k + 1] = Error
      BY <2>2, <2>3, <3>1
    <3>2. CASE downTo[k + 1] # Error
      <4>1. downTo[k + 1] \in Seq(Bytes)
        BY <2>3, <3>2 DEF Value
      <4> QED
        BY <2>2, <3>2, <4>1, FilterTypes
    <3> QED
      BY <3>1, <3>2
  <2> QED
    BY <2>1, <2>4
<1>13. 0 .. l \subseteq S
  <2> HIDE DEF S
  <2> QED
    BY <1>3, <1>11, <1>12, RangeInduction
<1>14. ASSUME NEW k \in 1 .. l + 1 PROVE downTo[k] \in Value
  <2>1. l + 1 - k \in 0 .. l /\ l + 1 - (l + 1 - k) = k
    BY <1>3
  <2>2. downTo[l + 1 - (l + 1 - k)] \in Value
    BY <1>13, <2>1
  <2> QED
    BY <2>1, <2>2
<1> HIDE DEF S
<1>15. downTo \in [1 .. l + 1 -> Value]
  BY <1>10, <1>14
<1>16. Downward(downTo, d, p, n)
  BY <1>8, <1>9, <1>15 DEF Downward, l
<1> QED
  BY <1>1, <1>16

\* Decompressing what was compressed gives it back.
LEMMA PipelineInverse ==
  ASSUME NEW d \in Seq(Bytes), NEW p, Len(p) \in Nat, NEW n \in Nat, Compress(d, p, n) # Error
  PROVE  /\ Compress(d, p, n) \in Seq(Bytes)
         /\ Decompress(Compress(d, p, n), p, n) = d
<1>1. PICK l \in Nat : l = Len(p)
  OBVIOUS
<1>2. PICK u : Upward(u, d, p, n) /\ Compress(d, p, n) = u[l]
  BY <1>1, CompressLemma
<1>3. /\ u \in [0 .. l -> Value] /\ u[0] = d
      /\ \A k \in 1 .. l : u[k] = IF u[k - 1] = Error THEN Error ELSE Compressed(u[k - 1], p[k], n)
  BY <1>1, <1>2 DEF Upward
<1>4. PICK c \in Seq(Bytes) : c = Compress(d, p, n)
  <2>1. l \in 0 .. l
    OBVIOUS
  <2>2. u[l] \in Value
    BY <1>3, <2>1
  <2> QED
    BY <1>2, <2>2 DEF Value
<1>5. PICK v : Downward(v, c, p, n) /\ Decompress(c, p, n) = v[1]
  BY <1>1, DecompressLemma
<1>6. /\ v \in [1 .. l + 1 -> Value] /\ v[l + 1] = c
      /\ \A k \in 1 .. l : v[k] = IF v[k + 1] = Error THEN Error ELSE Decompressed(v[k + 1], p[k], n)
  BY <1>1, <1>5 DEF Downward
<1> DEFINE S == {j \in 0 .. l : u[l - j] # Error /\ v[l + 1 - j] = u[l - j]}
<1>7. 0 \in S
  <2>1. l - 0 = l /\ l + 1 - 0 = l + 1 /\ 0 \in 0 .. l
    OBVIOUS
  <2> QED
    BY <1>2, <1>4, <1>6, <2>1
<1>8. ASSUME NEW j \in 0 .. l - 1, j \in S PROVE j + 1 \in S
  <2>1. PICK k \in 1 .. l : k = l - j /\ k - 1 = l - (j + 1) /\ k + 1 = l + 1 - j /\ k = l + 1 - (j + 1) /\ j + 1 \in 0 .. l
    <3>1. l - j \in 1 .. l /\ (l - j) - 1 = l - (j + 1) /\ (l - j) + 1 = l + 1 - j /\ l - j = l + 1 - (j + 1) /\ j + 1 \in 0 .. l
      OBVIOUS
    <3> QED
      BY <3>1
  <2>2. u[k] # Error /\ v[k + 1] = u[k]
    BY <1>8, <2>1
  <2>3. u[k - 1] # Error /\ u[k] = Compressed(u[k - 1], p[k], n)
    BY <1>3, <2>2
  <2>4. v[k] = Decompressed(u[k], p[k], n)
    BY <1>6, <2>2
  <2>5. u[k - 1] \in Seq(Bytes)
    <3>1. k - 1 \in 0 .. l
      OBVIOUS
    <3>2. u[k - 1] \in Value
      BY <1>3, <3>1
    <3> QED
      BY <2>3, <3>2 DEF Value
  <2>6. v[k] = u[k - 1]
    BY <2>2, <2>3, <2>4, <2>5, FilterInverse
  <2> QED
    BY <2>1, <2>3, <2>6
<1>9. 0 .. l \subseteq S
  <2> HIDE DEF S
  <2> QED
    BY <1>7, <1>8, RangeInduction
<1>10. v[1] = d
  <2>1. l \in 0 .. l /\ l - l = 0 /\ l + 1 - l = 1
    OBVIOUS
  <2>2. v[l + 1 - l] = u[l - l]
    BY <1>9, <2>1
  <2> QED
    BY <1>3, <2>1, <2>2
<1> QED
  BY <1>4, <1>5, <1>10

\* A changed byte does not get through a pipeline with a checksum.
LEMMA PipelineNotices ==
  ASSUME NEW d, NEW e, Changed(d, e), NEW p, Len(p) \in Nat, NEW n \in Nat, Decompress(d, p, n) # Error,
         NEW x \in 1 .. Len(p), p[x] = "fletcher32"
  PROVE  Decompress(e, p, n) = Error
<1>1. PICK l \in Nat : l = Len(p)
  OBVIOUS
<1>0. d \in Seq(Bytes) /\ e \in Seq(Bytes)
  BY DEF Changed
<1>2. PICK u : Downward(u, d, p, n) /\ Decompress(d, p, n) = u[1]
  BY <1>0, DecompressLemma
<1>3. /\ u[l + 1] = d
      /\ \A k \in 1 .. l : u[k] = IF u[k + 1] = Error THEN Error ELSE Decompressed(u[k + 1], p[k], n)
  BY <1>1, <1>2 DEF Downward
<1>4. PICK v : Downward(v, e, p, n) /\ Decompress(e, p, n) = v[1]
  BY <1>0, DecompressLemma
<1>5. /\ v[l + 1] = e
      /\ \A k \in 1 .. l : v[k] = IF v[k + 1] = Error THEN Error ELSE Decompressed(v[k + 1], p[k], n)
  BY <1>1, <1>4 DEF Downward
<1> DEFINE S == {j \in 0 .. l : u[j + 1] # Error}
<1>6. 0 .. l \subseteq S
  <2>1. 0 \in S
    BY <1>2
  <2>2. ASSUME NEW j \in 0 .. l - 1, j \in S PROVE j + 1 \in S
    <3>1. j + 1 \in 1 .. l /\ j + 1 \in 0 .. l /\ u[j + 1] # Error
      BY <2>2
    <3>2. u[(j + 1) + 1] # Error
      BY <1>3, <3>1
    <3> QED
      BY <3>1, <3>2
  <2> HIDE DEF S
  <2> QED
    BY <2>1, <2>2, RangeInduction
<1>7. ASSUME NEW k \in 1 .. l + 1 PROVE u[k] # Error
  <2>1. k - 1 \in 0 .. l /\ (k - 1) + 1 = k
    OBVIOUS
  <2>2. u[(k - 1) + 1] # Error
    BY <1>6, <2>1
  <2> QED
    BY <2>1, <2>2
<1> HIDE DEF S
<1> DEFINE Held(k) == v[k] = Error \/ (Changed(u[k], v[k]) /\ \A y \in k .. l : p[y] # "fletcher32")
           T == {j \in 0 .. l : Held(l + 1 - j)}
<1>8. 0 \in T
  <2>1. l + 1 - 0 = l + 1 /\ 0 \in 0 .. l /\ l + 1 .. l = {}
    OBVIOUS
  <2>2. Held(l + 1)
    BY <1>3, <1>5, <2>1
  <2> HIDE DEF Held
  <2> QED
    BY <2>1, <2>2
<1>9. ASSUME NEW j \in 0 .. l - 1, j \in T PROVE j + 1 \in T
  <2>1. PICK k \in 1 .. l : k + 1 = l + 1 - j /\ k = l + 1 - (j + 1) /\ j + 1 \in 0 .. l
    <3>1. l - j \in 1 .. l /\ (l - j) + 1 = l + 1 - j /\ l - j = l + 1 - (j + 1) /\ j + 1 \in 0 .. l
      OBVIOUS
    <3> QED
      BY <3>1
  <2>2. v[k + 1] = Error \/ (Changed(u[k + 1], v[k + 1]) /\ \A y \in k + 1 .. l : p[y] # "fletcher32")
    BY <1>9, <2>1
  <2>3. CASE v[k + 1] = Error
    <3>1. v[k] = Error
      BY <1>5, <2>3
    <3> QED
      BY <2>1, <3>1
  <2>4. CASE v[k + 1] # Error
    <3>1. Changed(u[k + 1], v[k + 1]) /\ \A y \in k + 1 .. l : p[y] # "fletcher32"
      BY <2>2, <2>4
    <3>2. v[k] = Decompressed(v[k + 1], p[k], n)
      BY <1>5, <2>4
    <3>3. k \in 1 .. l + 1 /\ k + 1 \in 1 .. l + 1
      OBVIOUS
    <3>4. u[k] = Decompressed(u[k + 1], p[k], n) /\ u[k] # Error
      BY <1>3, <1>7, <3>3
    <3>5. v[k] = Error \/ (p[k] # "fletcher32" /\ Changed(u[k], v[k]))
      BY <3>1, <3>2, <3>4, FilterNotices
    <3>6. \A y \in k .. l : y = k \/ y \in k + 1 .. l
      OBVIOUS
    <3>7. Held(k)
      BY <3>1, <3>5, <3>6
    <3> HIDE DEF Held
    <3> QED
      BY <2>1, <3>7
  <2> QED
    BY <2>3, <2>4
<1>10. 0 .. l \subseteq T
  <2> HIDE DEF T
  <2> QED
    BY <1>8, <1>9, RangeInduction
<1>11. Held(1)
  <2>1. l \in 0 .. l /\ l + 1 - l = 1
    OBVIOUS
  <2>2. Held(l + 1 - l)
    <3> HIDE DEF Held
    <3> QED
      BY <1>10, <2>1
  <2> HIDE DEF Held
  <2> QED
    BY <2>1, <2>2
<1>12. x \in 1 .. l
  BY <1>1
<1> QED
  BY <1>4, <1>11, <1>12

\* What is kept of a pipeline is a pipeline: all of it if nothing is skipped, and
\* nothing if all of it is.
LEMMA KeptLemma ==
  ASSUME NEW T, NEW p \in Seq(T), NEW skipped
  PROVE  /\ Kept(p, skipped) \in Seq(T)
         /\ (skipped = {}) => Kept(p, skipped) = p
         /\ (\A x \in DOMAIN p : p[x] \in skipped) => Kept(p, skipped) = << >>
<1> DEFINE n == Len(p)
           Add(v, x) == IF p[x] \in skipped THEN v ELSE Append(v, p[x])
           Rec(u) == [x \in 0 .. n |-> IF x = 0 THEN << >> ELSE Add(u[x - 1], x)]
           upTo == CHOOSE u : u = Rec(u)
           step == [x \in 1 .. n |-> [v \in Seq(T) |-> Add(v, x)]]
<1>1. Kept(p, skipped) = upTo[n]
  BY DEF Kept
<1>2. n \in Nat /\ << >> \in Seq(T) /\ DOMAIN p = 1 .. n
  OBVIOUS
<1>3. step \in [1 .. n -> [Seq(T) -> Seq(T)]]
  <2>1. \A x \in 1 .. n : p[x] \in T
    OBVIOUS
  <2>2. ASSUME NEW x \in 1 .. n, NEW v \in Seq(T)
        PROVE  Add(v, x) \in Seq(T)
    <3>1. Append(v, p[x]) \in Seq(T)
      BY <2>1, AppendProperties
    <3> QED
      BY <3>1
  <2> HIDE DEF Add
  <2> QED
    BY <2>2
<1> HIDE DEF n, Add
<1>4. PICK u \in [0 .. n -> Seq(T)] : IsFold(u, n, << >>, step)
  <2> HIDE DEF step
  <2> QED
    BY <1>2, <1>3, FoldExists
<1>5. u[0] = << >> /\ \A x \in 1 .. n : u[x] = Add(u[x - 1], x)
  <2>1. u[0] = << >> /\ \A x \in 1 .. n : u[x] = step[x][u[x - 1]]
    BY <1>4 DEF IsFold
  <2>2. ASSUME NEW x \in 1 .. n PROVE u[x] = Add(u[x - 1], x)
    <3>1. x - 1 \in 0 .. n
      BY <1>2
    <3>2. u[x - 1] \in Seq(T)
      BY <1>4, <3>1
    <3> QED
      BY <2>1, <3>2
  <2> QED
    BY <2>1, <2>2
<1> HIDE DEF step
<1>6. u = Rec(u)
  <2>1. \A x \in 0 .. n : u[x] = Rec(u)[x]
    BY <1>2, <1>5
  <2>2. u = [x \in 0 .. n |-> u[x]]
    BY <1>4
  <2> QED
    BY <2>1, <2>2
<1>7. upTo = Rec(upTo)
  BY <1>6
<1> HIDE DEF upTo
<1>8. upTo[0] = << >>
  BY <1>2, <1>7
<1>9. \A x \in 1 .. n : upTo[x] = Add(upTo[x - 1], x)
  BY <1>2, <1>7
<1> HIDE DEF Rec
<1>10. ASSUME \A x \in DOMAIN p : p[x] \in skipped PROVE upTo[n] = << >>
  <2> DEFINE S == {x \in 0 .. n : upTo[x] = << >>}
  <2>1. 0 \in S
    BY <1>2, <1>8
  <2>2. ASSUME NEW x \in 0 .. n - 1, x \in S PROVE x + 1 \in S
    <3>1. x + 1 \in 1 .. n /\ x + 1 \in 0 .. n /\ (x + 1) - 1 = x /\ upTo[x] = << >>
      BY <1>2, <2>2
    <3>2. p[x + 1] \in skipped
      BY <1>2, <1>10, <3>1
    <3>3. upTo[x + 1] = upTo[x]
      BY <1>9, <3>1, <3>2 DEF Add
    <3> QED
      BY <3>1, <3>3
  <2>3. 0 .. n \subseteq S
    <3> HIDE DEF S
    <3> QED
      BY <1>2, <2>1, <2>2, RangeInduction
  <2>4. n \in 0 .. n
    BY <1>2
  <2> QED
    BY <2>3, <2>4
<1>11. ASSUME skipped = {} PROVE upTo[n] = p
  <2> DEFINE S == {x \in 0 .. n : upTo[x] \in Seq(T) /\ Len(upTo[x]) = x /\ \A y \in 1 .. x : upTo[x][y] = p[y]}
  <2>1. 0 \in S
    <3>1. PICK w : w = << >>
      OBVIOUS
    <3>2. w \in Seq(T) /\ Len(w) = 0 /\ 1 .. 0 = {}
      BY <3>1
    <3>3. upTo[0] = w /\ 0 \in 0 .. n /\ \A y \in 1 .. 0 : w[y] = p[y]
      BY <1>2, <1>8, <3>1, <3>2
    <3> QED
      BY <3>2, <3>3
  <2>2. ASSUME NEW x \in 0 .. n - 1, x \in S PROVE x + 1 \in S
    <3>1. x + 1 \in 1 .. n /\ x + 1 \in 0 .. n /\ (x + 1) - 1 = x
      BY <1>2
    <3>2. PICK w \in Seq(T) : w = upTo[x] /\ Len(w) = x /\ \A y \in 1 .. x : w[y] = p[y]
      BY <2>2
    <3>3. PICK c \in T : c = p[x + 1]
      <4>1. x + 1 \in 1 .. Len(p)
        BY <3>1 DEF n
      <4> QED
        BY <4>1
    <3>4. upTo[x + 1] = Append(w, c)
      BY <1>9, <1>11, <3>1, <3>2, <3>3 DEF Add
    <3>5. Append(w, c) \in Seq(T) /\ Len(Append(w, c)) = x + 1
      BY <3>2
    <3>6. ASSUME NEW y \in 1 .. x + 1 PROVE Append(w, c)[y] = p[y]
      BY <3>2, <3>3
    <3> QED
      BY <3>1, <3>4, <3>5, <3>6
  <2>3. 0 .. n \subseteq S
    <3> HIDE DEF S
    <3> QED
      BY <1>2, <2>1, <2>2, RangeInduction
  <2>4. n \in 0 .. n
    BY <1>2
  <2>5. PICK w \in Seq(T) : w = upTo[n] /\ Len(w) = n /\ \A y \in 1 .. n : w[y] = p[y]
    BY <2>3, <2>4
  <2>6. w = [y \in 1 .. Len(w) |-> w[y]] /\ p = [y \in 1 .. Len(p) |-> p[y]]
    OBVIOUS
  <2>7. w = [y \in 1 .. n |-> w[y]] /\ p = [y \in 1 .. n |-> p[y]]
    BY <2>5, <2>6 DEF n
  <2> QED
    BY <2>5, <2>7
<1>12. upTo[n] \in Seq(T)
  <2> DEFINE S == {x \in 0 .. n : upTo[x] \in Seq(T)}
  <2>1. 0 \in S
    <3>1. PICK w \in Seq(T) : w = << >>
      BY <1>2
    <3>2. upTo[0] = w /\ 0 \in 0 .. n
      BY <1>2, <1>8, <3>1
    <3> QED
      BY <3>2
  <2>2. ASSUME NEW x \in 0 .. n - 1, x \in S PROVE x + 1 \in S
    <3>1. x + 1 \in 1 .. n /\ x + 1 \in 0 .. n /\ (x + 1) - 1 = x
      BY <1>2
    <3>2. PICK w \in Seq(T) : w = upTo[x]
      BY <2>2
    <3>3. PICK c \in T : c = p[x + 1]
      <4>1. x + 1 \in 1 .. Len(p)
        BY <3>1 DEF n
      <4> QED
        BY <4>1
    <3>4. upTo[x + 1] = IF c \in skipped THEN w ELSE Append(w, c)
      BY <1>9, <3>1, <3>2, <3>3 DEF Add
    <3>5. Append(w, c) \in Seq(T)
      BY <3>2, AppendProperties
    <3>6. upTo[x + 1] \in Seq(T)
      BY <3>2, <3>4, <3>5
    <3> QED
      BY <3>1, <3>6
  <2>3. 0 .. n \subseteq S
    <3> HIDE DEF S
    <3> QED
      BY <1>2, <2>1, <2>2, RangeInduction
  <2>4. n \in 0 .. n
    BY <1>2
  <2> QED
    BY <2>3, <2>4
<1> QED
  BY <1>1, <1>10, <1>11, <1>12

-------------------------------------------------------------------------------
(* Lanes: how many chunks each gets, and which.                            *)

BeforeOf(n, l) == (n \div NumLanes) * l + (IF l < n % NumLanes THEN l ELSE n % NumLanes)
TargetOf(n, l) == IF l < n % NumLanes THEN n \div NumLanes + 1 ELSE n \div NumLanes

LEMMA PartitionOf ==
  /\ \A l : Before(l) = BeforeOf(Len(stored), l)
  /\ \A l : Target(l) = TargetOf(Len(stored), l)
BY DEF Before, Target, BeforeOf, TargetOf, Base, Extra

\* The lanes' shares follow each other and end with the last chunk.
LEMMA SharesFollow ==
  ASSUME NEW n \in Nat
  PROVE  /\ BeforeOf(n, 0) = 0 /\ BeforeOf(n, NumLanes) = n
         /\ \A l \in Lanes :
              /\ BeforeOf(n, l) \in Nat /\ TargetOf(n, l) \in Nat
              /\ BeforeOf(n, l) + TargetOf(n, l) = BeforeOf(n, l + 1)
              /\ BeforeOf(n, l + 1) <= n
<1>1. PICK m \in Nat : m = NumLanes /\ m >= 1
  BY LaneAssumption
<1>2. PICK b \in Nat, r \in 0 .. m - 1 : b = n \div m /\ r = n % m
  BY <1>1, DivMod
<1>3. n = b * m + r
  BY <1>1, <1>2, DivMod
<1>4. \A l : /\ BeforeOf(n, l) = b * l + (IF l < r THEN l ELSE r)
             /\ TargetOf(n, l) = IF l < r THEN b + 1 ELSE b
  BY <1>1, <1>2 DEF BeforeOf, TargetOf
<1>5. BeforeOf(n, 0) = 0
  <2>1. b * 0 = 0
    OBVIOUS
  <2> QED
    BY <1>2, <1>4, <2>1
<1>6. BeforeOf(n, m) = n
  <2>1. ~(m < r) /\ b * m \in Nat
    BY <1>1, <1>2
  <2> QED
    BY <1>3, <1>4, <2>1
<1>7. ASSUME NEW l \in 0 .. m - 1
      PROVE  /\ BeforeOf(n, l) \in Nat /\ TargetOf(n, l) \in Nat
             /\ BeforeOf(n, l) + TargetOf(n, l) = BeforeOf(n, l + 1)
             /\ BeforeOf(n, l + 1) <= n
  <2>1. PICK bl \in Nat : bl = b * l
    OBVIOUS
  <2>2. b * (l + 1) = bl + b
    BY <2>1
  <2>3. PICK bm \in Nat : bm = b * m
    BY <1>1
  <2>4. bl + b <= bm
    <3>1. l + 1 <= m /\ l + 1 \in Nat
      BY <1>1
    <3>2. b * (l + 1) <= b * m
      BY <3>1
    <3> QED
      BY <2>2, <2>3, <3>2
  <2>5. BeforeOf(n, l) = bl + (IF l < r THEN l ELSE r) /\ BeforeOf(n, l + 1) = bl + b + (IF l + 1 < r THEN l + 1 ELSE r)
    BY <1>4, <2>1, <2>2
  <2>6. TargetOf(n, l) = IF l < r THEN b + 1 ELSE b
    BY <1>4
  <2>7. n = bm + r
    BY <1>3, <2>3
  <2> QED
    BY <2>4, <2>5, <2>6, <2>7
<1> QED
  BY <1>1, <1>5, <1>6, <1>7 DEF Lanes

LEMMA PlaceInShare ==
  ASSUME NEW n \in Nat, NEW l \in Lanes, NEW i \in 1 .. TargetOf(n, l)
  PROVE  BeforeOf(n, l) + i \in 1 .. n
<1>1. /\ BeforeOf(n, l) \in Nat /\ TargetOf(n, l) \in Nat
      /\ BeforeOf(n, l) + TargetOf(n, l) = BeforeOf(n, l + 1)
      /\ BeforeOf(n, l + 1) <= n
  BY SharesFollow
<1> QED
  BY <1>1

\* Every place is in the share of a lane.
LEMMA SharesCover ==
  ASSUME NEW n \in Nat, NEW x \in 1 .. n
  PROVE  \E l \in Lanes : \E i \in 1 .. TargetOf(n, l) : x = BeforeOf(n, l) + i
<1>1. PICK m \in Nat : m = NumLanes - 1 /\ NumLanes = m + 1
  BY LaneAssumption
<1>2. Lanes = 0 .. m
  BY <1>1 DEF Lanes
<1> DEFINE R == {l \in 0 .. m : BeforeOf(n, l) < x}
<1>3. 0 \in R
  <2>1. BeforeOf(n, 0) = 0 /\ 0 \in 0 .. m
    BY SharesFollow
  <2> QED
    BY <2>1
<1>4. PICK l \in R : \A j \in R : j <= l
  BY <1>3, NatMax
<1>5. l \in Lanes /\ BeforeOf(n, l) < x
  BY <1>2
<1>6. /\ BeforeOf(n, l) \in Nat /\ TargetOf(n, l) \in Nat
      /\ BeforeOf(n, l) + TargetOf(n, l) = BeforeOf(n, l + 1)
  BY <1>5, SharesFollow
<1>7. x <= BeforeOf(n, l + 1)
  <2>1. CASE l = m
    BY <1>1, <2>1, SharesFollow
  <2>2. CASE l # m
    <3>1. l + 1 \in 0 .. m /\ ~(l + 1 <= l)
      BY <2>2
    <3>2. ~(BeforeOf(n, l + 1) < x)
      BY <1>4, <3>1
    <3>3. BeforeOf(n, l + 1) \in Nat
      BY <1>2, <3>1, SharesFollow
    <3> QED
      BY <3>2, <3>3
  <2> QED
    BY <2>1, <2>2
<1>8. PICK i \in 1 .. TargetOf(n, l) : x = BeforeOf(n, l) + i
  <2>1. x - BeforeOf(n, l) \in 1 .. TargetOf(n, l) /\ x = BeforeOf(n, l) + (x - BeforeOf(n, l))
    BY <1>5, <1>6, <1>7
  <2> QED
    BY <2>1
<1> QED
  BY <1>5, <1>8

\* o lists the chunks 1 .. n, each once.
Lists(o, n) ==
  /\ o \in [1 .. n -> 1 .. n]
  /\ \A k \in 1 .. n : \E x \in 1 .. n : o[x] = k

\* Whatever the hash, lane after lane every chunk is listed.
LEMMA FlattenedLists ==
  ASSUME NEW n \in Nat, NEW h \in [1 .. n -> Lanes]
  PROVE  Lists(Flattened(h), n)
<1> DEFINE X == 1 .. n
           R == {e \in X \X X : h[e[1]] < h[e[2]] \/ (h[e[1]] = h[e[2]] /\ e[1] < e[2])}
<1>1. IsFiniteSet(X) /\ Cardinality(X) = n
  BY FS_Interval
<1>2. \A k \in X : h[k] \in Int
  BY LaneAssumption DEF Lanes
<1>3. \A i, j \in X : <<i, j>> \in R <=> h[i] < h[j] \/ (h[i] = h[j] /\ i < j)
  OBVIOUS
<1>4. IsOrder(R, X)
  <2> HIDE DEF R
  <2>1. \A i \in X : <<i, i>> \notin R
    BY <1>2, <1>3
  <2>2. ASSUME NEW i \in X, NEW j \in X, NEW k \in X, <<i, j>> \in R, <<j, k>> \in R PROVE <<i, k>> \in R
    BY <1>2, <1>3, <2>2
  <2>3. ASSUME NEW i \in X, NEW j \in X, i # j PROVE <<i, j>> \in R \/ <<j, i>> \in R
    BY <1>2, <1>3, <2>3
  <2> QED
    BY <2>1, <2>2, <2>3 DEF IsOrder
<1>5. PICK p : IsRanking(p, R, X, n)
  <2> HIDE DEF X, R
  <2> QED
    BY <1>1, <1>4, RankingExists
<1>6. \A k \in X : Precede(R, X, k) = {j \in X : h[j] < h[k] \/ (h[j] = h[k] /\ j < k)}
  BY DEF Precede
<1>7. DOMAIN h = X
  OBVIOUS
<1>8. \A k \in X : Rank(h, k) = Cardinality(Precede(R, X, k))
  <2> HIDE DEF X, R
  <2> QED
    BY <1>6, <1>7 DEF Rank
<1> HIDE DEF R
<1>9. /\ p \in [1 .. n -> X]
      /\ \A i \in X : \E k \in 1 .. n : p[k] = i
      /\ \A k \in 1 .. n : Cardinality(Precede(R, X, p[k])) = k - 1
  BY <1>5 DEF IsRanking
<1>10. ASSUME NEW x \in X PROVE Flattened(h)[x] = p[x]
  <2>1. p[x] \in X /\ Rank(h, p[x]) = x - 1
    BY <1>8, <1>9
  <2>2. ASSUME NEW k \in X, Rank(h, k) = x - 1 PROVE k = p[x]
    <3>1. Cardinality(Precede(R, X, k)) = x - 1 /\ x \in 1 .. n
      BY <1>8, <2>2
    <3> HIDE DEF X
    <3> QED
      BY <1>5, <3>1, RankingUnique
  <2>3. (CHOOSE k \in X : Rank(h, k) = x - 1) = p[x]
    <3> HIDE DEF X
    <3> QED
      BY <2>1, <2>2
  <2> QED
    BY <1>7, <2>3 DEF Flattened
<1>11. DOMAIN Flattened(h) = X
  BY <1>7 DEF Flattened
<1>12. Flattened(h) = [x \in X |-> Flattened(h)[x]]
  BY <1>7 DEF Flattened
<1>13. Flattened(h) \in [1 .. n -> 1 .. n]
  <2> DEFINE f == Flattened(h)
  <2>1. \A x \in X : f[x] \in X
    BY <1>9, <1>10
  <2>2. f = [x \in X |-> f[x]]
    BY <1>12
  <2> HIDE DEF f
  <2>3. f \in [X -> X]
    BY <2>1, <2>2
  <2> QED
    BY <2>3 DEF f
<1>14. ASSUME NEW k \in 1 .. n PROVE \E x \in 1 .. n : Flattened(h)[x] = k
  <2>1. PICK x \in 1 .. n : p[x] = k
    BY <1>9
  <2> QED
    BY <1>10, <2>1
<1> QED
  BY <1>13, <1>14 DEF Lists

-------------------------------------------------------------------------------
(* Sorting the results by their numbers.                                   *)

\* Result k of n, with what c has for it.
Piece(c, k) == [index |-> k, data |-> c[k]]
Pieces(c, n) == {Piece(c, k) : k \in 1 .. n}

LEMMA CountPieces ==
  ASSUME NEW c, NEW m \in Nat
  PROVE  Cardinality(Pieces(c, m)) = m
<1> DEFINE f == [k \in 1 .. m |-> Piece(c, k)]
<1>1. IsFiniteSet(1 .. m) /\ Cardinality(1 .. m) = m
  BY FS_Interval
<1>2. \A k \in 1 .. m : f[k] = Piece(c, k) /\ Piece(c, k).index = k
  BY DEF Piece
<1>3. f \in [1 .. m -> Pieces(c, m)]
  BY DEF Pieces
<1>4. \A y \in Pieces(c, m) : \E k \in 1 .. m : f[k] = y
  BY DEF Pieces
<1>5. \A j, k \in 1 .. m : f[j] = f[k] => j = k
  BY <1>2
<1> HIDE DEF f
<1>6. f \in Surjection(1 .. m, Pieces(c, m))
  BY <1>3, <1>4 DEF Surjection
<1>7. f \in Injection(1 .. m, Pieces(c, m))
  BY <1>3, <1>5 DEF Injection, IsInjective
<1> QED
  BY <1>1, <1>6, <1>7, FS_Surjection

\* Sorted by number, the results are in the order of the chunks.
LEMMA SortedPieces ==
  ASSUME NEW n \in Nat, NEW c
  PROVE  ByIndex(Pieces(c, n)) = [k \in 1 .. n |-> c[k]]
<1> DEFINE rs == Pieces(c, n)
           Lower(r) == {q \in rs : q.index < r.index}
<1>1. Cardinality(rs) = n
  BY CountPieces
<1>2. ASSUME NEW r \in rs PROVE r.index \in 1 .. n /\ r = Piece(c, r.index) /\ Cardinality(Lower(r)) = r.index - 1
  <2>1. PICK k \in 1 .. n : r = Piece(c, k)
    BY DEF Pieces
  <2>2. r.index = k
    BY <2>1 DEF Piece
  <2>3. k - 1 \in Nat
    OBVIOUS
  <2>4. Lower(r) = Pieces(c, k - 1)
    <3>1. ASSUME NEW q \in Lower(r) PROVE q \in Pieces(c, k - 1)
      <4>1. PICK j \in 1 .. n : q = Piece(c, j)
        BY DEF Pieces
      <4>2. q.index = j /\ j < k
        BY <2>2, <4>1 DEF Piece
      <4>3. j \in 1 .. k - 1
        BY <4>2
      <4> QED
        BY <4>1, <4>3 DEF Pieces
    <3>2. ASSUME NEW q \in Pieces(c, k - 1) PROVE q \in Lower(r)
      <4>1. PICK j \in 1 .. k - 1 : q = Piece(c, j)
        BY DEF Pieces
      <4>2. q.index = j /\ j < k /\ j \in 1 .. n
        BY <4>1 DEF Piece
      <4>3. q \in rs
        BY <4>1, <4>2 DEF Pieces
      <4> HIDE DEF rs
      <4> QED
        BY <2>2, <4>2, <4>3
    <3> QED
      BY <3>1, <3>2
  <2> QED
    BY <2>1, <2>2, <2>3, <2>4, CountPieces
<1>3. ASSUME NEW k \in 1 .. n PROVE Piece(c, k) \in rs /\ Piece(c, k).index = k /\ Piece(c, k).data = c[k]
  BY DEF Pieces, Piece
<1> HIDE DEF rs
<1>4. ASSUME NEW k \in 1 .. n PROVE (CHOOSE r \in rs : Cardinality(Lower(r)) = k - 1) = Piece(c, k)
  <2>1. Piece(c, k) \in rs /\ Cardinality(Lower(Piece(c, k))) = k - 1
    BY <1>2, <1>3
  <2>2. ASSUME NEW r \in rs, Cardinality(Lower(r)) = k - 1 PROVE r = Piece(c, k)
    <3>1. r.index \in 1 .. n /\ r = Piece(c, r.index) /\ r.index - 1 = k - 1
      BY <1>2, <2>2
    <3>2. r.index = k
      BY <3>1
    <3> QED
      BY <3>1, <3>2
  <2> HIDE DEF Lower
  <2> QED
    BY <2>1, <2>2
<1>5. ByIndex(rs) = [k \in 1 .. n |-> (CHOOSE r \in rs : Cardinality(Lower(r)) = k - 1).data]
  BY <1>1 DEF ByIndex
<1> HIDE DEF Lower
<1>6. \A k \in 1 .. n : (CHOOSE r \in rs : Cardinality(Lower(r)) = k - 1).data = c[k]
  BY <1>3, <1>4
<1>7. ByIndex(rs) = [k \in 1 .. n |-> c[k]]
  BY <1>5, <1>6
<1> QED
  BY <1>7 DEF rs

-------------------------------------------------------------------------------
(* The file: what is written, and what damage can make of it.              *)

Original(k) == Compress(dataset.raw[k], Applied(k), dataset.elementSize)
Chunk == [bytes : Seq(Bytes), size : Nat, masked : BOOLEAN]

\* At most one chunk is not as it was written: it is too short, or one of its
\* bytes is another.
FileInv ==
  /\ dataset \in Datasets /\ Writable(dataset)
  /\ stored \in [1 .. Len(dataset.raw) -> Chunk]
  /\ \A k \in 1 .. Len(dataset.raw) :
       /\ Original(k) \in Seq(Bytes)
       /\ stored[k].size = Len(Original(k))
       /\ stored[k].masked = (dataset.skipped[k] # {})
       /\ \/ stored[k].bytes = Original(k)
          \/ /\ Len(stored[k].bytes) < stored[k].size \/ Changed(Original(k), stored[k].bytes)
             /\ \A j \in 1 .. Len(dataset.raw) : j # k => stored[j].bytes = Original(j)

\* The types of a dataset.
LEMMA DatasetType ==
  ASSUME NEW d \in Datasets
  PROVE  /\ Len(d.raw) \in Nat /\ DOMAIN d.raw = 1 .. Len(d.raw)
         /\ \A k \in 1 .. Len(d.raw) : d.raw[k] \in Seq(Bytes)
         /\ d.pipeline \in Seq(STRING) /\ Len(d.pipeline) \in Nat /\ d.elementSize \in Nat
<1>1. d.raw \in Seq(Seq(Bytes)) /\ d.pipeline \in Seq(STRING) /\ d.elementSize \in Nat
  BY DatasetAssumption
<1>2. PICK r \in Seq(Seq(Bytes)) : r = d.raw
  BY <1>1
<1>3. Len(r) \in Nat /\ DOMAIN r = 1 .. Len(r) /\ \A k \in 1 .. Len(r) : r[k] \in Seq(Bytes)
  <2> HIDE DEF Bytes
  <2>1. \A T : r \in Seq(T) => Len(r) \in Nat /\ DOMAIN r = 1 .. Len(r) /\ \A k \in 1 .. Len(r) : r[k] \in T
    OBVIOUS
  <2> QED
    BY <2>1
<1>4. Len(d.pipeline) \in Nat
  <2>1. \A T, q : q \in Seq(T) => Len(q) \in Nat
    OBVIOUS
  <2> QED
    BY <1>1, <2>1
<1> QED
  BY <1>1, <1>2, <1>3, <1>4

\* Whatever a mask names, what is stored are bytes.  A chunk without a mask
\* comes back from them, and if its mask names all filters they are the chunk.
LEMMA OriginalComesBack ==
  ASSUME dataset \in Datasets, Writable(dataset), NEW k \in 1 .. Len(dataset.raw)
  PROVE  /\ Original(k) \in Seq(Bytes)
         /\ dataset.raw[k] \in Seq(Bytes)
         /\ dataset.skipped[k] = {} =>
              Decompress(Original(k), dataset.pipeline, dataset.elementSize) = dataset.raw[k]
         /\ dataset.skipped[k] # {} /\ AllOrNone(k) => Original(k) = dataset.raw[k]
<1>1. PICK r : r = dataset.raw[k]
  OBVIOUS
<1>2. PICK p : p = dataset.pipeline
  OBVIOUS
<1>3. PICK n \in Nat : n = dataset.elementSize
  BY DatasetType
<1>4. r \in Seq(Bytes) /\ p \in Seq(STRING) /\ Len(p) \in Nat
  BY <1>1, <1>2, DatasetType
<1>5. PICK q : q = Kept(p, dataset.skipped[k])
  OBVIOUS
<1>6. Original(k) = Compress(r, q, n)
  BY <1>1, <1>2, <1>3, <1>5 DEF Original, Applied
<1>7. q \in Seq(STRING)
  BY <1>4, <1>5, KeptLemma
<1>8. Len(q) \in Nat
  BY <1>7
<1>9. Compress(r, q, n) # Error
  <2>1. k \in DOMAIN dataset.raw
    BY DatasetType
  <2> QED
    BY <1>1, <1>2, <1>3, <1>5, <2>1 DEF Writable
<1>10. Original(k) \in Seq(Bytes) /\ Decompress(Original(k), q, n) = r
  BY <1>4, <1>6, <1>8, <1>9, PipelineInverse
<1>11. ASSUME dataset.skipped[k] = {} PROVE Decompress(Original(k), p, n) = r
  <2>1. q = p
    BY <1>4, <1>5, <1>11, KeptLemma
  <2> QED
    BY <1>10, <2>1
<1>12. ASSUME dataset.skipped[k] # {}, AllOrNone(k) PROVE Original(k) = r
  <2>1. \A x \in DOMAIN p : p[x] \in dataset.skipped[k]
    BY <1>2, <1>12 DEF AllOrNone
  <2>2. q = << >>
    BY <1>4, <1>5, <2>1, KeptLemma
  <2>3. Len(q) = 0
    BY <2>2
  <2>4. PICK u : Upward(u, r, q, n) /\ Compress(r, q, n) = u[Len(q)]
    BY <1>4, <1>8, CompressLemma
  <2>5. Compress(r, q, n) = r
    BY <2>3, <2>4 DEF Upward
  <2> QED
    BY <1>6, <2>5
<1> QED
  BY <1>1, <1>2, <1>3, <1>4, <1>10, <1>11, <1>12

LEMMA OriginalStays ==
  dataset' = dataset => \A k : Original(k)' = Original(k)
<1> SUFFICES ASSUME dataset' = dataset, NEW k PROVE Original(k)' = Original(k)
  OBVIOUS
<1>1. Applied(k)' = Applied(k)
  BY DEF Applied
<1> QED
  BY <1>1 DEF Original

\* The parts of FileInv, one chunk at a time.
AsWritten(k) ==
  /\ stored[k].size = Len(Original(k))
  /\ stored[k].masked = (dataset.skipped[k] # {})
  /\ \/ stored[k].bytes = Original(k)
     \/ /\ Len(stored[k].bytes) < stored[k].size \/ Changed(Original(k), stored[k].bytes)
        /\ \A j \in 1 .. Len(dataset.raw) : j # k => stored[j].bytes = Original(j)

LEMMA FileParts ==
  FileInv <=>
    /\ dataset \in Datasets /\ Writable(dataset)
    /\ stored \in [1 .. Len(dataset.raw) -> Chunk]
    /\ \A k \in 1 .. Len(dataset.raw) : Original(k) \in Seq(Bytes) /\ AsWritten(k)
BY DEF FileInv, AsWritten

LEMMA FileInit == Init => FileInv
<1> SUFFICES ASSUME Init PROVE FileInv
  OBVIOUS
<1>1. dataset \in Datasets /\ Writable(dataset)
  BY DEF Init
<1>2. PICK n \in Nat : n = Len(dataset.raw)
  BY <1>1, DatasetType
<1>3. \A k \in 1 .. n : Original(k) \in Seq(Bytes)
  BY <1>1, <1>2, OriginalComesBack
<1>4. stored = [k \in 1 .. n |-> Stored(Original(k), dataset.skipped[k] # {})]
  BY <1>2 DEF Init, Original
<1>5. ASSUME NEW k \in 1 .. n
      PROVE  /\ stored[k].bytes = Original(k) /\ stored[k].size = Len(Original(k))
             /\ stored[k].masked = (dataset.skipped[k] # {})
             /\ stored[k] \in Chunk
  <2>1. stored[k] = [bytes |-> Original(k), size |-> Len(Original(k)), masked |-> (dataset.skipped[k] # {})]
    BY <1>4 DEF Stored
  <2>2. PICK o \in Seq(Bytes) : o = Original(k) /\ Len(o) \in Nat
    BY <1>3, SeqBytes
  <2>3. PICK m \in BOOLEAN : m = (dataset.skipped[k] # {})
    OBVIOUS
  <2>4. stored[k] = [bytes |-> o, size |-> Len(o), masked |-> m]
    BY <2>1, <2>2, <2>3
  <2>5. stored[k].bytes = o /\ stored[k].size = Len(o) /\ stored[k].masked = m /\ stored[k] \in Chunk
    BY <2>2, <2>4 DEF Chunk
  <2> QED
    BY <2>2, <2>3, <2>5
<1>6. stored \in [1 .. n -> Chunk]
  <2>1. stored = [k \in 1 .. n |-> stored[k]]
    BY <1>4
  <2> QED
    BY <1>5, <2>1
<1>7. \A k \in 1 .. n : AsWritten(k)
  BY <1>5 DEF AsWritten
<1> QED
  BY <1>1, <1>2, <1>3, <1>6, <1>7, FileParts

LEMMA FileLen ==
  ASSUME FileInv
  PROVE  /\ Len(dataset.raw) \in Nat /\ Len(stored) = Len(dataset.raw)
         /\ stored \in [1 .. Len(dataset.raw) -> Chunk]
         /\ DOMAIN stored = 1 .. Len(dataset.raw) /\ Chunks = 1 .. Len(dataset.raw)
<1>1. PICK n \in Nat : n = Len(dataset.raw)
  BY DatasetType DEF FileInv
<1>2. stored \in [1 .. n -> Chunk]
  BY <1>1 DEF FileInv
<1>3. Len(stored) = n
  <2> HIDE DEF Chunk
  <2> QED
    BY <1>2
<1> QED
  BY <1>1, <1>2, <1>3 DEF Chunks

\* Changing a byte, and leaving out the last, as damage does.
LEMMA FlippedChanges ==
  ASSUME NEW c \in Chunk, NEW x \in DOMAIN c.bytes
  PROVE  /\ Flipped(c, x) \in Chunk /\ Flipped(c, x).size = c.size /\ Flipped(c, x).masked = c.masked
         /\ Changed(c.bytes, Flipped(c, x).bytes)
<1>1. PICK d \in Seq(Bytes) : d = c.bytes
  BY DEF Chunk
<1>2. x \in 1 .. Len(d) /\ Len(d) \in Nat
  BY <1>1, SeqBytes
<1>3. PICK v \in Bytes : v = (d[x] + 1) % B /\ v # d[x]
  <2>1. PICK a \in Nat : a = d[x] /\ a < B
    BY <1>2, SeqBytes
  <2>2. (a + 1) % B \in Bytes /\ (a + 1) % B # a
    <3>1. CASE a + 1 = B
      <4>1. a + 1 = 1 * B + 0 /\ 0 \in 0 .. B - 1 /\ B \in Nat /\ B >= 1 /\ a + 1 \in Nat
        BY <3>1, ByteAssumption
      <4>2. (a + 1) % B = 0
        BY <4>1, ModIs
      <4> QED
        BY <2>1, <3>1, <4>2, ByteAssumption DEF Bytes
    <3>2. CASE a + 1 < B
      <4>1. PICK b \in Nat : b = a + 1
        BY <2>1
      <4>2. b = 0 * B + b /\ b \in 0 .. B - 1 /\ B \in Nat /\ B >= 1
        BY <3>2, <4>1, ByteAssumption
      <4>3. b % B = b
        BY <4>2, ModIs
      <4>4. b \in Bytes /\ b # a
        BY <2>1, <4>1, <4>2 DEF Bytes
      <4> QED
        BY <4>1, <4>3, <4>4, Zenon
    <3> QED
      BY <2>1, <3>1, <3>2, ByteAssumption
  <2> QED
    BY <2>1, <2>2
<1>4. PICK e : e = [d EXCEPT ![x] = v]
  OBVIOUS
<1>5. e \in Seq(Bytes) /\ Len(e) = Len(d) /\ e[x] = v /\ \A y \in 1 .. Len(d) : y # x => e[y] = d[y]
  <2>1. d \in [1 .. Len(d) -> Bytes]
    BY <1>2
  <2>2. e \in [1 .. Len(d) -> Bytes] /\ e[x] = v /\ \A y \in 1 .. Len(d) : y # x => e[y] = d[y]
    BY <1>2, <1>4, <2>1
  <2> QED
    BY <1>2, <2>2
<1>6. Changed(d, e)
  BY <1>2, <1>3, <1>5 DEF Changed
<1>7. Flipped(c, x) = [c EXCEPT !.bytes = e]
  BY <1>1, <1>3, <1>4 DEF Flipped, Chunk
<1> QED
  BY <1>1, <1>5, <1>6, <1>7 DEF Chunk

LEMMA CutShortens ==
  ASSUME NEW c \in Chunk, c.bytes # << >>, c.size = Len(c.bytes)
  PROVE  /\ Cut(c) \in Chunk /\ Cut(c).size = c.size /\ Cut(c).masked = c.masked
         /\ Len(Cut(c).bytes) < Cut(c).size
<1>1. PICK d \in Seq(Bytes) : d = c.bytes
  BY DEF Chunk
<1>2. Len(d) \in Nat /\ Len(d) >= 1
  <2>1. Len(d) # 0
    BY <1>1
  <2> QED
    BY <2>1
<1>3. PICK e \in Seq(Bytes) : e = SubSeq(d, 1, Len(d) - 1) /\ Len(e) = Len(d) - 1
  <2>1. SubSeq(d, 1, Len(d) - 1) \in Seq(Bytes)
    BY <1>2
  <2>2. Len(SubSeq(d, 1, Len(d) - 1)) = Len(d) - 1
    <3>0. Len(d) - 1 \in Int /\ Len(d) - 1 >= 0 /\ Len(d) - 1 <= Len(d)
      BY <1>2
    <3>1. PICK m \in Int : m = Len(d) - 1 /\ m >= 0 /\ m <= Len(d)
      BY <3>0
    <3>2. \A i \in 1 .. m : d[i] \in Bytes
      BY <3>1
    <3>3. Len(SubSeq(d, 1, m)) = IF 1 <= m THEN m - 1 + 1 ELSE 0
      BY <3>2, SubSeqProperties
    <3>4. Len(SubSeq(d, 1, m)) = m
      BY <3>1, <3>3
    <3> QED
      BY <3>1, <3>4
  <2> QED
    BY <2>1, <2>2
<1>4. Cut(c) = [c EXCEPT !.bytes = e]
  BY <1>1, <1>3 DEF Cut
<1>5. PICK f : f = [c EXCEPT !.bytes = e]
  OBVIOUS
<1>6. f \in Chunk /\ f.size = c.size /\ f.masked = c.masked /\ f.bytes = e
  BY <1>5 DEF Chunk
<1>7. Len(e) < Len(d)
  BY <1>2, <1>3
<1> HIDE DEF Chunk
<1> QED
  BY <1>1, <1>4, <1>5, <1>6, <1>7

LEMMA FileStep == FileInv /\ [Next]_vars => FileInv'
<1> SUFFICES ASSUME FileInv, [Next]_vars PROVE FileInv'
  OBVIOUS
<1>1. CASE UNCHANGED <<dataset, stored>>
  <2>1. \A k : Original(k)' = Original(k)
    BY <1>1, OriginalStays
  <2> HIDE DEF Original
  <2> QED
    BY <1>1, <2>1 DEF FileInv, Writable
<1>2. ASSUME NEW k \in Chunks, Damage(k) PROVE FileInv'
  <2>1. /\ pc = "file" /\ Intact /\ stored[k].bytes # << >> /\ dataset' = dataset
        /\ \/ stored' = [stored EXCEPT ![k] = Cut(@)]
           \/ \E x \in DOMAIN stored[k].bytes : stored' = [stored EXCEPT ![k] = Flipped(@, x)]
    BY <1>2 DEF Damage
  <2>2. PICK n \in Nat : n = Len(dataset.raw) /\ stored \in [1 .. n -> Chunk] /\ Chunks = 1 .. n
    BY FileLen
  <2>3. \A j \in 1 .. n : stored[j].bytes = Original(j)
    BY <2>1, <2>2 DEF Intact, Original
  <2>4. \A j \in 1 .. n : Original(j) \in Seq(Bytes) /\ stored[j].size = Len(Original(j)) /\ stored[j].masked = (dataset.skipped[j] # {})
    BY <2>2 DEF FileInv
  <2>5. PICK c \in Chunk : /\ stored' = [stored EXCEPT ![k] = c]
                           /\ c.size = stored[k].size /\ c.masked = stored[k].masked
                           /\ Len(c.bytes) < c.size \/ Changed(stored[k].bytes, c.bytes)
    <3>1. CASE stored' = [stored EXCEPT ![k] = Cut(@)]
      <4>1. stored[k] \in Chunk /\ stored[k].size = Len(stored[k].bytes)
        BY <2>2, <2>3, <2>4
      <4>2. /\ Cut(stored[k]) \in Chunk /\ Cut(stored[k]).size = stored[k].size /\ Cut(stored[k]).masked = stored[k].masked
            /\ Len(Cut(stored[k]).bytes) < Cut(stored[k]).size
        BY <2>1, <4>1, CutShortens
      <4> QED
        BY <3>1, <4>2
    <3>2. ASSUME NEW x \in DOMAIN stored[k].bytes, stored' = [stored EXCEPT ![k] = Flipped(@, x)]
          PROVE  \E c \in Chunk : /\ stored' = [stored EXCEPT ![k] = c]
                                  /\ c.size = stored[k].size /\ c.masked = stored[k].masked
                                  /\ Len(c.bytes) < c.size \/ Changed(stored[k].bytes, c.bytes)
      <4>1. stored[k] \in Chunk
        BY <2>2
      <4>2. /\ Flipped(stored[k], x) \in Chunk /\ Flipped(stored[k], x).size = stored[k].size
            /\ Flipped(stored[k], x).masked = stored[k].masked
            /\ Changed(stored[k].bytes, Flipped(stored[k], x).bytes)
        BY <4>1, FlippedChanges
      <4> QED
        BY <3>2, <4>2
    <3> QED
      BY <2>1, <3>1, <3>2
  <2>6. \A j : Original(j)' = Original(j)
    BY <2>1, OriginalStays
  <2> HIDE DEF Original, Chunk
  <2>7. stored'[k] = c /\ \A j \in 1 .. n : j # k => stored'[j] = stored[j]
    BY <2>2, <2>5
  <2>8. stored' \in [1 .. n -> Chunk]
    BY <2>2, <2>5
  <2>9. ASSUME NEW j \in 1 .. n
        PROVE  /\ stored'[j].size = Len(Original(j)) /\ stored'[j].masked = (dataset.skipped[j] # {})
               /\ \/ stored'[j].bytes = Original(j)
                  \/ /\ Len(stored'[j].bytes) < stored'[j].size \/ Changed(Original(j), stored'[j].bytes)
                     /\ \A i \in 1 .. n : i # j => stored'[i].bytes = Original(i)
    <3>1. CASE j = k
      BY <2>3, <2>4, <2>5, <2>7, <3>1
    <3>2. CASE j # k
      BY <2>3, <2>4, <2>7, <3>2
    <3> QED
      BY <3>1, <3>2
  <2>10. (dataset \in Datasets /\ Writable(dataset))'
    BY <2>1 DEF FileInv, Writable
  <2> QED
    BY <2>1, <2>2, <2>4, <2>6, <2>8, <2>9, <2>10 DEF FileInv
<1>3. UNCHANGED <<dataset, stored>> \/ \E k \in Chunks : Damage(k)
  BY DEF Next, Read, ReadAgain, Partition, Start, LaneStep, LaneDone, Decode, Collect, SequentialStep,
     SequentialEnd, Finished, vars
<1> QED
  BY <1>1, <1>2, <1>3

-------------------------------------------------------------------------------
(* Reading: what the lanes have, and what the answer is.                   *)

\* Of n chunks with contents c, listed by o, lane l has the first nx[l] of its share.
Got(c, n, o, nx) == [l \in Lanes |-> {Piece(c, o[BeforeOf(n, l) + i]) : i \in 1 .. nx[l]}]

Reading(c, n, o, nx, g) ==
  /\ Lists(o, n)
  /\ g = Got(c, n, o, nx)
  /\ \A l \in Lanes : \A i \in 1 .. nx[l] : BeforeOf(n, l) + i \in 1 .. n /\ c[o[BeforeOf(n, l) + i]] # Error

\* All places have been read.
Covered(n, nx) == \A x \in 1 .. n : \E l \in Lanes : \E i \in 1 .. nx[l] : x = BeforeOf(n, l) + i

IsError(c, n, e) == \E k \in 1 .. n : c[k] = Error /\ e = <<Error, k>>

Right(c, n, a) ==
  \/ (\A k \in 1 .. n : c[k] # Error) /\ a = [k \in 1 .. n |-> c[k]]
  \/ IsError(c, n, a)

LEMMA ReadingStarts ==
  ASSUME NEW c, NEW n \in Nat, NEW o, Lists(o, n)
  PROVE  Reading(c, n, o, [l \in Lanes |-> 0], [l \in Lanes |-> {}])
<1> DEFINE nx == [l \in Lanes |-> 0]
<1>1. \A l \in Lanes : 1 .. nx[l] = {}
  OBVIOUS
<1> HIDE DEF nx
<1>2. Got(c, n, o, nx) = [l \in Lanes |-> {}]
  BY <1>1 DEF Got
<1>3. Reading(c, n, o, nx, [l \in Lanes |-> {}])
  BY <1>1, <1>2 DEF Reading
<1> QED
  BY <1>3 DEF nx

LEMMA ReadingGoesOn ==
  ASSUME NEW c, NEW n \in Nat, NEW o, NEW nx \in [Lanes -> Nat], NEW g, Reading(c, n, o, nx, g),
         NEW l \in Lanes, NEW x \in 1 .. n, x = BeforeOf(n, l) + nx[l] + 1, c[o[x]] # Error
  PROVE  Reading(c, n, o, [nx EXCEPT ![l] = @ + 1], [g EXCEPT ![l] = @ \cup {Piece(c, o[x])}])
<1> DEFINE ny == [nx EXCEPT ![l] = @ + 1]
           f == [g EXCEPT ![l] = @ \cup {Piece(c, o[x])}]
<1>1. g = Got(c, n, o, nx) /\ Lists(o, n)
  BY DEF Reading
<1>2. PICK m \in Nat : m = nx[l]
  OBVIOUS
<1>3. ny[l] = m + 1 /\ \A j \in Lanes : j # l => ny[j] = nx[j]
  BY <1>2
<1>4. PICK b \in Nat : b = BeforeOf(n, l)
  BY SharesFollow
<1>5. 1 .. m + 1 = (1 .. m) \cup {m + 1}
  OBVIOUS
<1>6. x = b + (m + 1)
  BY <1>2, <1>4
<1> HIDE DEF ny
<1>7. ASSUME NEW j \in Lanes
      PROVE  f[j] = {Piece(c, o[BeforeOf(n, j) + i]) : i \in 1 .. ny[j]}
  <2>1. g[j] = {Piece(c, o[BeforeOf(n, j) + i]) : i \in 1 .. nx[j]} /\ l \in DOMAIN g /\ j \in DOMAIN g
    BY <1>1 DEF Got
  <2>2. CASE j # l
    <3>1. f[j] = g[j]
      BY <2>1, <2>2
    <3> QED
      BY <1>3, <2>1, <2>2, <3>1
  <2>3. CASE j = l
    <3>1. f[l] = g[l] \cup {Piece(c, o[x])}
      BY <2>1
    <3>2. g[l] = {Piece(c, o[b + i]) : i \in 1 .. m}
      BY <1>2, <1>4, <2>1, <2>3
    <3>3. {Piece(c, o[b + i]) : i \in 1 .. m + 1} = {Piece(c, o[b + i]) : i \in 1 .. m} \cup {Piece(c, o[b + (m + 1)])}
      BY <1>5
    <3> HIDE DEF f
    <3> QED
      BY <1>3, <1>4, <1>6, <2>3, <3>1, <3>2, <3>3
  <2> QED
    BY <2>2, <2>3
<1>8. f = [j \in Lanes |-> f[j]]
  <2>1. g = [j \in Lanes |-> g[j]]
    BY <1>1 DEF Got
  <2> QED
    BY <2>1
<1> HIDE DEF f
<1>9. f = Got(c, n, o, ny)
  BY <1>7, <1>8 DEF Got
<1>10. ASSUME NEW j \in Lanes, NEW i \in 1 .. ny[j]
       PROVE  BeforeOf(n, j) + i \in 1 .. n /\ c[o[BeforeOf(n, j) + i]] # Error
  <2>1. CASE j # l \/ i # m + 1
    <3>1. i \in 1 .. nx[j]
      BY <1>2, <1>3, <1>5, <2>1
    <3> QED
      BY <3>1 DEF Reading
  <2>2. CASE j = l /\ i = m + 1
    BY <1>4, <1>6, <2>2
  <2> QED
    BY <2>1, <2>2
<1>11. Reading(c, n, o, ny, f)
  BY <1>1, <1>9, <1>10 DEF Reading
<1> QED
  BY <1>11 DEF ny, f

\* When all places are read, the results sorted are the contents.
AllRead(c, n, g) ==
  /\ \A k \in 1 .. n : c[k] # Error
  /\ ByIndex(UNION {g[l] : l \in Lanes}) = [k \in 1 .. n |-> c[k]]

LEMMA ReadingEnds ==
  ASSUME NEW c, NEW n \in Nat, NEW o, NEW nx, NEW g, Reading(c, n, o, nx, g), Covered(n, nx)
  PROVE  AllRead(c, n, g)
<1>1. Lists(o, n) /\ g = Got(c, n, o, nx)
  BY DEF Reading
<1>2. ASSUME NEW k \in 1 .. n
      PROVE  \E l \in Lanes : \E i \in 1 .. nx[l] : k = o[BeforeOf(n, l) + i]
  <2>1. PICK x \in 1 .. n : o[x] = k
    BY <1>1 DEF Lists
  <2> QED
    BY <2>1 DEF Covered
<1>3. \A k \in 1 .. n : c[k] # Error
  BY <1>2 DEF Reading
<1>4. UNION {g[l] : l \in Lanes} = Pieces(c, n)
  <2>1. ASSUME NEW r \in Pieces(c, n) PROVE \E l \in Lanes : r \in g[l]
    <3>1. PICK k \in 1 .. n : r = Piece(c, k)
      BY DEF Pieces
    <3>2. PICK l \in Lanes : \E i \in 1 .. nx[l] : k = o[BeforeOf(n, l) + i]
      BY <1>2
    <3>3. g[l] = {Piece(c, o[BeforeOf(n, l) + i]) : i \in 1 .. nx[l]}
      BY <1>1 DEF Got
    <3> QED
      BY <3>1, <3>2, <3>3
  <2>2. ASSUME NEW l \in Lanes, NEW r \in g[l] PROVE r \in Pieces(c, n)
    <3>1. PICK i \in 1 .. nx[l] : r = Piece(c, o[BeforeOf(n, l) + i])
      BY <1>1 DEF Got
    <3>2. BeforeOf(n, l) + i \in 1 .. n
      BY DEF Reading
    <3>3. o[BeforeOf(n, l) + i] \in 1 .. n
      BY <1>1, <3>2 DEF Lists
    <3> QED
      BY <3>1, <3>3 DEF Pieces
  <2> QED
    BY <2>1, <2>2
<1>5. ByIndex(Pieces(c, n)) = [k \in 1 .. n |-> c[k]]
  BY <1>3, SortedPieces
<1> QED
  BY <1>3, <1>4, <1>5 DEF AllRead

\* All lanes done, or all read by the first.
LEMMA LanesCover ==
  ASSUME NEW n \in Nat, NEW nx, \A l \in Lanes : nx[l] = TargetOf(n, l)
  PROVE  Covered(n, nx)
<1>1. ASSUME NEW x \in 1 .. n PROVE \E l \in Lanes : \E i \in 1 .. nx[l] : x = BeforeOf(n, l) + i
  <2>1. PICK l \in Lanes : \E i \in 1 .. TargetOf(n, l) : x = BeforeOf(n, l) + i
    BY SharesCover
  <2> QED
    BY <2>1
<1> QED
  BY <1>1 DEF Covered

LEMMA FirstCovers ==
  ASSUME NEW n \in Nat, NEW nx, nx[0] = n
  PROVE  Covered(n, nx)
<1>1. 0 \in Lanes
  BY LaneAssumption DEF Lanes
<1>2. \A x \in 1 .. n : x = BeforeOf(n, 0) + x
  BY SharesFollow
<1> QED
  BY <1>1, <1>2 DEF Covered

LEMMA IdentityLists ==
  ASSUME NEW n \in Nat
  PROVE  Lists([k \in 1 .. n |-> k], n)
BY DEF Lists

-------------------------------------------------------------------------------
(* The inductive invariant.                                                *)

Contents == [k \in 1 .. Len(stored) |-> Content(dataset, stored[k])]

ReadInv ==
  /\ pc \in {"file", "sequential", "parallel", "answered"}
  /\ next \in [Lanes -> Nat]
  /\ state \in [Lanes -> {"waiting", "running", "done", "failed"}]
  /\ error = NoAnswer \/ IsError(Contents, Len(stored), error)
  /\ pc # "answered" => answer = NoAnswer
  /\ pc = "file" =>
       /\ next = [l \in Lanes |-> 0] /\ got = [l \in Lanes |-> {}]
       /\ state = [l \in Lanes |-> "waiting"] /\ error = NoAnswer
  /\ pc \in {"parallel", "sequential"} => Reading(Contents, Len(stored), order, next, got)
  /\ pc = "parallel" =>
       \A l \in Lanes : next[l] <= Target(l) /\ (state[l] = "done" => next[l] = Target(l))
  /\ pc = "sequential" => next[0] <= Len(stored)
  /\ pc = "answered" => Right(Contents, Len(stored), answer)

IInv == FileInv /\ ReadInv

LEMMA ReadInit == Init => ReadInv
<1> SUFFICES ASSUME Init PROVE ReadInv
  OBVIOUS
<1>1. /\ pc = "file" /\ next = [l \in Lanes |-> 0] /\ state = [l \in Lanes |-> "waiting"]
      /\ got = [l \in Lanes |-> {}] /\ error = NoAnswer /\ answer = NoAnswer
  BY DEF Init
<1> QED
  BY <1>1 DEF ReadInv

\* What stays when the file does.
LEMMA FileStays ==
  ASSUME UNCHANGED <<dataset, stored>>
  PROVE  /\ Contents' = Contents /\ Len(stored)' = Len(stored)
         /\ \A l : Target(l)' = Target(l)
BY DEF Contents, Content, Target, Base, Extra

LEMMA PartitionStep ==
  ASSUME IInv, Partition
  PROVE  ReadInv'
<1>1. /\ pc = "file" /\ UNCHANGED <<dataset, stored, next, state, got, error, answer>>
      /\ \/ pc' = "parallel" /\ \E h \in HashLanes(Len(stored)) : order' = Flattened(h)
         \/ pc' = "sequential" /\ order' = [k \in Chunks |-> k]
  BY DEF Partition
<1>2. /\ next = [l \in Lanes |-> 0] /\ state = [l \in Lanes |-> "waiting"] /\ got = [l \in Lanes |-> {}]
      /\ error = NoAnswer /\ answer = NoAnswer
  BY <1>1 DEF IInv, ReadInv
<1>3. PICK n \in Nat : n = Len(stored) /\ n = Len(dataset.raw) /\ Chunks = 1 .. n
  BY FileLen DEF IInv
<1>4. Lists(order', n)
  <2>1. ASSUME NEW h \in HashLanes(Len(stored)), order' = Flattened(h) PROVE Lists(order', n)
    <3>1. h \in [1 .. n -> Lanes]
      BY <1>3, HashAssumption DEF IInv, FileInv, Lanes
    <3> QED
      BY <2>1, <3>1, FlattenedLists
  <2>2. ASSUME order' = [k \in Chunks |-> k] PROVE Lists(order', n)
    BY <1>3, <2>2, IdentityLists
  <2> QED
    BY <1>1, <2>1, <2>2
<1>5. PICK c : c = Contents
  OBVIOUS
<1>6. Contents' = c /\ Len(stored)' = n /\ \A l : Target(l)' = TargetOf(n, l)
  BY <1>1, <1>3, <1>5, FileStays, PartitionOf
<1>7. Reading(c, n, order', next', got')
  BY <1>1, <1>2, <1>4, ReadingStarts
<1>8. \A l \in Lanes : TargetOf(n, l) \in Nat
  BY SharesFollow
<1>9. \A l \in Lanes : next'[l] <= TargetOf(n, l) /\ state'[l] # "done"
  BY <1>1, <1>2, <1>8
<1>10. next'[0] <= n
  <2>1. 0 \in Lanes
    BY LaneAssumption DEF Lanes
  <2> QED
    BY <1>1, <1>2, <2>1
<1>11. pc' \in {"parallel", "sequential"}
  BY <1>1
<1>12. next' \in [Lanes -> Nat] /\ state' \in [Lanes -> {"waiting", "running", "done", "failed"}]
  BY <1>1 DEF IInv, ReadInv
<1> QED
  BY <1>1, <1>2, <1>6, <1>7, <1>9, <1>10, <1>11, <1>12 DEF ReadInv

LEMMA StartStep ==
  ASSUME IInv, NEW l \in Lanes, Start(l)
  PROVE  ReadInv'
<1>1. /\ pc = "parallel" /\ state' = [state EXCEPT ![l] = "running"]
      /\ UNCHANGED <<dataset, stored, pc, order, next, got, error, answer>>
  BY DEF Start
<1>2. Contents' = Contents /\ Len(stored)' = Len(stored) /\ \A j : Target(j)' = Target(j)
  BY <1>1, FileStays
<1>3. state' \in [Lanes -> {"waiting", "running", "done", "failed"}]
  BY <1>1 DEF IInv, ReadInv
<1>4. \A j \in Lanes : state'[j] = "done" => state[j] = "done"
  BY <1>1 DEF IInv, ReadInv
<1> QED
  BY <1>1, <1>2, <1>3, <1>4 DEF IInv, ReadInv

LEMMA LaneDoneStep ==
  ASSUME IInv, NEW l \in Lanes, LaneDone(l)
  PROVE  ReadInv'
<1>1. /\ pc = "parallel" /\ state' = [state EXCEPT ![l] = "done"] /\ next[l] = Target(l)
      /\ UNCHANGED <<dataset, stored, pc, order, next, got, error, answer>>
  BY DEF LaneDone
<1>2. Contents' = Contents /\ Len(stored)' = Len(stored) /\ \A j : Target(j)' = Target(j)
  BY <1>1, FileStays
<1>3. state' \in [Lanes -> {"waiting", "running", "done", "failed"}]
  BY <1>1 DEF IInv, ReadInv
<1>4. \A j \in Lanes : state'[j] = "done" => state[j] = "done" \/ j = l
  BY <1>1 DEF IInv, ReadInv
<1> QED
  BY <1>1, <1>2, <1>3, <1>4 DEF IInv, ReadInv

\* Decompressing chunk k, the next of lane l: the lane reads on, or the error is kept.
LEMMA DecodeReads ==
  ASSUME IInv, pc \in {"parallel", "sequential"}, NEW l \in Lanes, NEW x \in 1 .. Len(stored),
         x = BeforeOf(Len(stored), l) + next[l] + 1, Decode(l, order[x])
  PROVE  /\ Reading(Contents, Len(stored), order, next', got')
         /\ error' = NoAnswer \/ IsError(Contents, Len(stored), error')
         /\ next' \in [Lanes -> Nat] /\ state' \in [Lanes -> {"waiting", "running", "done", "failed"}]
         /\ \/ UNCHANGED next /\ state' = [state EXCEPT ![l] = "failed"]
            \/ next' = [next EXCEPT ![l] = @ + 1] /\ UNCHANGED state
<1>1. PICK n \in Nat : n = Len(stored)
  BY FileLen DEF IInv
<1>2. PICK c : c = Contents
  OBVIOUS
<1>3. /\ next \in [Lanes -> Nat] /\ state \in [Lanes -> {"waiting", "running", "done", "failed"}]
      /\ Reading(c, n, order, next, got) /\ (error = NoAnswer \/ IsError(c, n, error))
  BY <1>1, <1>2 DEF IInv, ReadInv
<1>4. PICK k \in 1 .. n : k = order[x]
  BY <1>1, <1>3 DEF Reading, Lists
<1>5. c[k] = Content(dataset, stored[k])
  BY <1>1, <1>2 DEF Contents
<1>6. CASE c[k] = Error
  <2>1. /\ state' = [state EXCEPT ![l] = "failed"] /\ error' = (IF error = NoAnswer THEN <<Error, k>> ELSE error)
        /\ UNCHANGED <<next, got>>
    BY <1>4, <1>5, <1>6 DEF Decode
  <2>2. error' = NoAnswer \/ IsError(c, n, error')
    BY <1>3, <1>6, <2>1 DEF IsError
  <2>3. state' \in [Lanes -> {"waiting", "running", "done", "failed"}]
    BY <1>3, <2>1
  <2> QED
    BY <1>1, <1>2, <1>3, <2>1, <2>2, <2>3
<1>7. CASE c[k] # Error
  <2>1. /\ got' = [got EXCEPT ![l] = @ \cup {Piece(c, k)}] /\ next' = [next EXCEPT ![l] = @ + 1]
        /\ UNCHANGED <<state, error>>
    BY <1>4, <1>5, <1>7 DEF Decode, Piece
  <2>2. x \in 1 .. n /\ x = BeforeOf(n, l) + next[l] + 1 /\ c[order[x]] # Error
    BY <1>1, <1>4, <1>7
  <2>3. Reading(c, n, order, next', got')
    BY <1>3, <1>4, <2>1, <2>2, ReadingGoesOn
  <2>4. next' \in [Lanes -> Nat]
    BY <1>3, <2>1
  <2> QED
    BY <1>1, <1>2, <1>3, <2>1, <2>3, <2>4
<1> QED
  BY <1>6, <1>7

LEMMA LaneStepStep ==
  ASSUME IInv, NEW l \in Lanes, LaneStep(l)
  PROVE  ReadInv'
<1>1. pc = "parallel" /\ state[l] = "running" /\ next[l] < Target(l) /\ Decode(l, order[Before(l) + next[l] + 1])
  BY DEF LaneStep
<1>2. PICK n \in Nat : n = Len(stored)
  BY FileLen DEF IInv
<1>3. UNCHANGED <<dataset, stored, pc, order, answer>>
  BY <1>1 DEF Decode
<1>4. Contents' = Contents /\ Len(stored)' = Len(stored) /\ \A j : Target(j)' = Target(j)
  BY <1>3, FileStays
<1>5. next \in [Lanes -> Nat] /\ Target(l) = TargetOf(n, l) /\ Before(l) = BeforeOf(n, l)
  BY <1>2, PartitionOf DEF IInv, ReadInv
<1>6. PICK x \in 1 .. n : x = BeforeOf(n, l) + next[l] + 1
  <2>1. next[l] + 1 \in 1 .. TargetOf(n, l) /\ BeforeOf(n, l) \in Nat
    BY <1>1, <1>5, SharesFollow
  <2>2. BeforeOf(n, l) + (next[l] + 1) \in 1 .. n
    BY <2>1, PlaceInShare
  <2>3. BeforeOf(n, l) + (next[l] + 1) = BeforeOf(n, l) + next[l] + 1
    BY <1>5, <2>1
  <2> QED
    BY <2>2, <2>3
<1>7. /\ Reading(Contents, Len(stored), order, next', got')
      /\ error' = NoAnswer \/ IsError(Contents, Len(stored), error')
      /\ next' \in [Lanes -> Nat] /\ state' \in [Lanes -> {"waiting", "running", "done", "failed"}]
      /\ \/ UNCHANGED next /\ state' = [state EXCEPT ![l] = "failed"]
         \/ next' = [next EXCEPT ![l] = @ + 1] /\ UNCHANGED state
  BY <1>1, <1>2, <1>5, <1>6, DecodeReads
<1>8. \A j \in Lanes : Target(j) \in Nat
  BY <1>2, SharesFollow, PartitionOf
<1>9. ASSUME NEW j \in Lanes PROVE next'[j] <= Target(j) /\ (state'[j] = "done" => next'[j] = Target(j))
  <2>1. next[j] <= Target(j) /\ (state[j] = "done" => next[j] = Target(j))
    BY <1>1 DEF IInv, ReadInv
  <2>2. state \in [Lanes -> {"waiting", "running", "done", "failed"}]
    BY DEF IInv, ReadInv
  <2>3. CASE UNCHANGED next /\ state' = [state EXCEPT ![l] = "failed"]
    <3>1. next'[j] = next[j] /\ (state'[j] = "done" => state[j] = "done")
      BY <2>2, <2>3
    <3> QED
      BY <2>1, <3>1
  <2>4. CASE next' = [next EXCEPT ![l] = @ + 1] /\ UNCHANGED state
    <3>1. CASE j = l
      <4>1. next'[j] = next[j] + 1 /\ state'[j] = "running"
        BY <1>1, <1>5, <2>4, <3>1
      <4> QED
        BY <1>1, <1>5, <1>8, <3>1, <4>1
    <3>2. CASE j # l
      BY <1>5, <2>1, <2>4, <3>2
    <3> QED
      BY <3>1, <3>2
  <2> QED
    BY <1>7, <2>3, <2>4
<1>10. answer = NoAnswer
  BY <1>1 DEF IInv, ReadInv
<1> QED
  BY <1>1, <1>3, <1>4, <1>7, <1>9, <1>10 DEF ReadInv

LEMMA SequentialStepStep ==
  ASSUME IInv, SequentialStep
  PROVE  ReadInv'
<1>1. pc = "sequential" /\ next[0] < Len(stored) /\ Decode(0, order[next[0] + 1])
  BY DEF SequentialStep
<1>2. PICK n \in Nat : n = Len(stored)
  BY FileLen DEF IInv
<1>3. UNCHANGED <<dataset, stored, pc, order, answer>>
  BY <1>1 DEF Decode
<1>4. Contents' = Contents /\ Len(stored)' = Len(stored)
  BY <1>3, FileStays
<1>5. next \in [Lanes -> Nat] /\ 0 \in Lanes /\ BeforeOf(n, 0) = 0 /\ next[0] \in Nat
  <2>1. next \in [Lanes -> Nat]
    BY DEF IInv, ReadInv
  <2>2. 0 \in Lanes
    BY LaneAssumption DEF Lanes
  <2> QED
    BY <2>1, <2>2, SharesFollow
<1>6. PICK x \in 1 .. n : x = BeforeOf(n, 0) + next[0] + 1 /\ x = next[0] + 1
  <2>1. next[0] + 1 \in 1 .. n /\ 0 + next[0] + 1 = next[0] + 1
    BY <1>1, <1>2, <1>5
  <2> QED
    BY <1>5, <2>1
<1>7. /\ Reading(Contents, Len(stored), order, next', got')
      /\ error' = NoAnswer \/ IsError(Contents, Len(stored), error')
      /\ next' \in [Lanes -> Nat] /\ state' \in [Lanes -> {"waiting", "running", "done", "failed"}]
      /\ \/ UNCHANGED next /\ state' = [state EXCEPT ![0] = "failed"]
         \/ next' = [next EXCEPT ![0] = @ + 1] /\ UNCHANGED state
  BY <1>1, <1>2, <1>5, <1>6, DecodeReads
<1>8. next'[0] <= n
  <2>1. next'[0] = next[0] \/ next'[0] = next[0] + 1
    BY <1>5, <1>7
  <2> QED
    BY <1>1, <1>2, <1>5, <2>1
<1>9. answer = NoAnswer
  BY <1>1 DEF IInv, ReadInv
<1> QED
  BY <1>1, <1>2, <1>3, <1>4, <1>7, <1>8, <1>9 DEF ReadInv

\* The answer, when the last lane is done or one has failed.
LEMMA CollectAnswers ==
  ASSUME IInv, Collect
  PROVE  /\ pc = "parallel" /\ pc' = "answered" /\ UNCHANGED <<dataset, stored, order, next, state, got, error>>
         /\ Right(Contents, Len(stored), answer')
<1>1. /\ pc = "parallel" /\ pc' = "answered" /\ UNCHANGED <<dataset, stored, order, next, state, got, error>>
      /\ error = NoAnswer => \A l \in Lanes : state[l] = "done"
      /\ answer' = IF error = NoAnswer THEN ByIndex(All) ELSE error
  BY DEF Collect, Finished
<1>2. PICK n \in Nat : n = Len(stored)
  BY FileLen DEF IInv
<1>3. PICK c : c = Contents
  OBVIOUS
<1>4. CASE error # NoAnswer
  <2>1. IsError(c, n, answer')
    BY <1>1, <1>2, <1>3, <1>4 DEF IInv, ReadInv
  <2> QED
    BY <1>1, <1>2, <1>3, <2>1 DEF Right
<1>5. CASE error = NoAnswer
  <2>1. Reading(c, n, order, next, got) /\ \A l \in Lanes : next[l] = TargetOf(n, l)
    BY <1>1, <1>2, <1>3, <1>5, PartitionOf DEF IInv, ReadInv
  <2>2. Covered(n, next)
    BY <2>1, LanesCover
  <2>4. AllRead(c, n, got)
    BY <2>1, <2>2, ReadingEnds
  <2>3. (\A k \in 1 .. n : c[k] # Error) /\ answer' = [k \in 1 .. n |-> c[k]]
    BY <1>1, <1>5, <2>4 DEF All, AllRead
  <2> QED
    BY <1>1, <1>2, <1>3, <2>3 DEF Right
<1> QED
  BY <1>4, <1>5

LEMMA SequentialAnswers ==
  ASSUME IInv, SequentialEnd
  PROVE  /\ pc = "sequential" /\ pc' = "answered" /\ UNCHANGED <<dataset, stored, order, next, state, got, error>>
         /\ Right(Contents, Len(stored), answer')
<1>1. /\ pc = "sequential" /\ pc' = "answered" /\ UNCHANGED <<dataset, stored, order, next, state, got, error>>
      /\ error = NoAnswer => next[0] = Len(stored)
      /\ answer' = IF error = NoAnswer THEN ByIndex(All) ELSE error
  BY DEF SequentialEnd, Finished
<1>2. PICK n \in Nat : n = Len(stored)
  BY FileLen DEF IInv
<1>3. PICK c : c = Contents
  OBVIOUS
<1>4. CASE error # NoAnswer
  <2>1. IsError(c, n, answer')
    BY <1>1, <1>2, <1>3, <1>4 DEF IInv, ReadInv
  <2> QED
    BY <1>1, <1>2, <1>3, <2>1 DEF Right
<1>5. CASE error = NoAnswer
  <2>1. Reading(c, n, order, next, got) /\ next[0] = n
    BY <1>1, <1>2, <1>3, <1>5 DEF IInv, ReadInv
  <2>2. Covered(n, next)
    BY <2>1, FirstCovers
  <2>4. AllRead(c, n, got)
    BY <2>1, <2>2, ReadingEnds
  <2>3. (\A k \in 1 .. n : c[k] # Error) /\ answer' = [k \in 1 .. n |-> c[k]]
    BY <1>1, <1>5, <2>4 DEF All, AllRead
  <2> QED
    BY <1>1, <1>2, <1>3, <2>3 DEF Right
<1> QED
  BY <1>4, <1>5

LEMMA AnswerStep ==
  ASSUME IInv, Collect \/ SequentialEnd
  PROVE  ReadInv'
<1>1. /\ pc' = "answered" /\ UNCHANGED <<dataset, stored, order, next, state, got, error>>
      /\ Right(Contents, Len(stored), answer')
  BY CollectAnswers, SequentialAnswers
<1>2. Contents' = Contents /\ Len(stored)' = Len(stored)
  BY <1>1, FileStays
<1> QED
  BY <1>1, <1>2 DEF IInv, ReadInv

LEMMA ReadAgainStep ==
  ASSUME IInv, ReadAgain
  PROVE  ReadInv'
<1>1. /\ pc' = "file" /\ next' = [l \in Lanes |-> 0] /\ state' = [l \in Lanes |-> "waiting"]
      /\ got' = [l \in Lanes |-> {}] /\ error' = NoAnswer /\ answer' = NoAnswer
  BY DEF ReadAgain
<1> QED
  BY <1>1 DEF ReadInv

LEMMA DamageStep ==
  ASSUME IInv, NEW k \in Chunks, Damage(k)
  PROVE  ReadInv'
<1>1. pc = "file" /\ UNCHANGED <<dataset, pc, order, next, state, got, error, answer>>
  BY DEF Damage
<1>2. /\ next = [l \in Lanes |-> 0] /\ got = [l \in Lanes |-> {}]
      /\ state = [l \in Lanes |-> "waiting"] /\ error = NoAnswer /\ answer = NoAnswer
  BY <1>1 DEF IInv, ReadInv
<1> QED
  BY <1>1, <1>2 DEF ReadInv

LEMMA ReadStep == IInv /\ [Next]_vars => ReadInv'
<1> SUFFICES ASSUME IInv, [Next]_vars PROVE ReadInv'
  OBVIOUS
<1>1. CASE UNCHANGED vars
  <2>1. UNCHANGED <<dataset, stored, pc, order, next, state, got, error, answer>>
    BY <1>1 DEF vars
  <2>2. Contents' = Contents /\ Len(stored)' = Len(stored) /\ \A l : Target(l)' = Target(l)
    BY <2>1, FileStays
  <2> QED
    BY <2>1, <2>2 DEF IInv, ReadInv
<1>2. CASE Read
  BY <1>2, PartitionStep, StartStep, LaneStepStep, LaneDoneStep, SequentialStepStep, AnswerStep DEF Read
<1> QED
  BY <1>1, <1>2, ReadAgainStep, DamageStep DEF Next

\* The inductive invariant holds: at most one chunk is damaged, every lane has the
\* first chunks of its share and no other, and the answer is all or an error.
THEOREM AlwaysReading == Spec => []IInv
<1>1. Init => IInv
  BY FileInit, ReadInit DEF IInv
<1>2. IInv /\ [Next]_vars => IInv'
  BY FileStep, ReadStep DEF IInv
<1> QED
  BY <1>1, <1>2, PTL DEF Spec

-------------------------------------------------------------------------------

\* The contents of an undamaged chunk are no error, and what was written if the
\* mask names no filter or all.
LEMMA IntactContent ==
  ASSUME FileInv, NEW k \in 1 .. Len(dataset.raw), stored[k].bytes = Original(k)
  PROVE  /\ Content(dataset, stored[k]) # Error
         /\ AllOrNone(k) => Content(dataset, stored[k]) = dataset.raw[k]
<1>1. stored[k].size = Len(Original(k)) /\ stored[k].masked = (dataset.skipped[k] # {}) /\ Original(k) \in Seq(Bytes)
  BY DEF FileInv
<1>2. ~(Len(stored[k].bytes) < stored[k].size)
  <2>1. Len(Original(k)) \in Nat
    BY <1>1, SeqBytes
  <2> QED
    BY <1>1, <2>1
<1>3. /\ dataset.raw[k] \in Seq(Bytes)
      /\ dataset.skipped[k] = {} =>
           Decompress(Original(k), dataset.pipeline, dataset.elementSize) = dataset.raw[k]
      /\ dataset.skipped[k] # {} /\ AllOrNone(k) => Original(k) = dataset.raw[k]
  BY OriginalComesBack DEF FileInv
<1>4. Content(dataset, stored[k]) = IF dataset.skipped[k] # {} THEN Original(k)
                                    ELSE Decompress(Original(k), dataset.pipeline, dataset.elementSize)
  BY <1>1, <1>2 DEF Content
<1> QED
  BY <1>1, <1>3, <1>4, ErrorAssumption

\* What was written through a pipeline comes back through it, each chunk in its
\* place, whichever lane had it, if its mask names no filter or all of them;
\* whatever other masks name (decompress_all_chunks).
THEOREM RoundTrips == Spec => []RoundTrip
<1>1. IInv => RoundTrip
  <2> SUFFICES ASSUME IInv, pc = "answered", Intact
               PROVE  DOMAIN answer = Chunks /\ \A k \in Chunks : AllOrNone(k) => answer[k] = dataset.raw[k]
    BY DEF RoundTrip
  <2>1. PICK n \in Nat : n = Len(dataset.raw) /\ n = Len(stored) /\ Chunks = 1 .. n
    BY FileLen DEF IInv
  <2>2. ASSUME NEW k \in 1 .. n
        PROVE  Contents[k] # Error /\ (AllOrNone(k) => Contents[k] = dataset.raw[k])
    <3>1. stored[k].bytes = Original(k)
      BY <2>1 DEF Intact, Original
    <3>2. /\ Content(dataset, stored[k]) # Error
          /\ AllOrNone(k) => Content(dataset, stored[k]) = dataset.raw[k]
      BY <2>1, <3>1, IntactContent DEF IInv
    <3> QED
      BY <2>1, <3>2 DEF Contents
  <2>3. Right(Contents, n, answer)
    BY <2>1 DEF IInv, ReadInv
  <2>4. answer = [k \in 1 .. n |-> Contents[k]]
    BY <2>2, <2>3 DEF Right, IsError
  <2> HIDE DEF AllOrNone
  <2> QED
    BY <2>1, <2>2, <2>4
<1> QED
  BY <1>1, AlwaysReading, PTL

\* A changed byte of a chunk with a checksum and no mask, and any missing byte, is
\* an error and never data, in whichever lane it is met.
THEOREM DamageNoticed == Spec => []DamageIsNoticed
<1>1. IInv => DamageIsNoticed
  <2> SUFFICES ASSUME IInv, pc = "answered", NEW k \in Chunks, stored[k].bytes # Original(k),
                      Protected(k) \/ Len(stored[k].bytes) # stored[k].size
               PROVE  answer = <<Error, k>>
    BY DEF DamageIsNoticed, Original
  <2>1. PICK n \in Nat : n = Len(dataset.raw) /\ n = Len(stored) /\ Chunks = 1 .. n
    BY FileLen DEF IInv
  <2>2. /\ Original(k) \in Seq(Bytes) /\ stored[k].size = Len(Original(k))
        /\ stored[k].masked = (dataset.skipped[k] # {})
        /\ Len(stored[k].bytes) < stored[k].size \/ Changed(Original(k), stored[k].bytes)
        /\ \A j \in 1 .. n : j # k => stored[j].bytes = Original(j)
    BY <2>1 DEF IInv, FileInv
  <2>3. Content(dataset, stored[k]) = Error
    <3>1. CASE Len(stored[k].bytes) < stored[k].size
      BY <3>1 DEF Content
    <3>2. CASE ~(Len(stored[k].bytes) < stored[k].size)
      <4>1. Changed(Original(k), stored[k].bytes)
        BY <2>2, <3>2
      <4>2. Protected(k)
        BY <2>2, <4>1 DEF Changed
      <4>3. ~stored[k].masked /\ \E x \in DOMAIN dataset.pipeline : dataset.pipeline[x] = "fletcher32"
        BY <4>2 DEF Protected
      <4>4. dataset \in Datasets /\ Writable(dataset) /\ k \in 1 .. Len(dataset.raw)
        BY <2>1 DEF IInv, FileInv
      <4>5. PICK p : p = dataset.pipeline
        OBVIOUS
      <4>6. PICK m \in Nat : m = dataset.elementSize
        BY <4>4, DatasetType
      <4>7. p \in Seq(STRING) /\ Len(p) \in Nat
        BY <4>4, <4>5, DatasetType
      <4>8. PICK x \in 1 .. Len(p) : p[x] = "fletcher32"
        <5>1. \A T, q : q \in Seq(T) => DOMAIN q = 1 .. Len(q)
          OBVIOUS
        <5> QED
          BY <4>3, <4>5, <4>7, <5>1
      <4>9. Decompress(Original(k), p, m) # Error
        <5>1. dataset.skipped[k] = {}
          BY <2>2, <4>3
        <5>2. Decompress(Original(k), p, m) = dataset.raw[k] /\ dataset.raw[k] \in Seq(Bytes)
          BY <4>4, <4>5, <4>6, <5>1, OriginalComesBack
        <5> QED
          BY <5>2, ErrorAssumption
      <4>10. Decompress(stored[k].bytes, p, m) = Error
        BY <4>1, <4>7, <4>8, <4>9, PipelineNotices
      <4> QED
        BY <3>2, <4>3, <4>5, <4>6, <4>10 DEF Content
    <3> QED
      BY <3>1, <3>2
  <2>4. Contents[k] = Error /\ \A j \in 1 .. n : j # k => Contents[j] # Error
    <3>1. ASSUME NEW j \in 1 .. n, j # k PROVE Contents[j] # Error
      <4>1. Content(dataset, stored[j]) # Error
        BY <2>1, <2>2, <3>1, IntactContent DEF IInv
      <4> QED
        BY <2>1, <4>1 DEF Contents
    <3> QED
      BY <2>1, <2>3, <3>1 DEF Contents
  <2>5. Right(Contents, n, answer)
    BY <2>1 DEF IInv, ReadInv
  <2> QED
    BY <2>1, <2>4, <2>5 DEF Right, IsError
<1> QED
  BY <1>1, AlwaysReading, PTL

\* Putting off the remainders to the end of a block, in 32 bits, changes no sum:
\* of any stored bytes the checksum is the one the file format defines.
THEOREM ChecksumsAreExact == Spec => []ChecksumIsExact
<1>1. IInv => ChecksumIsExact
  <2> SUFFICES ASSUME IInv, NEW k \in Chunks PROVE Fletcher(stored[k].bytes) = Reference(stored[k].bytes)
    BY DEF ChecksumIsExact
  <2>1. stored[k] \in Chunk
    BY FileLen DEF IInv
  <2>2. stored[k].bytes \in Seq(Bytes)
    BY <2>1 DEF Chunk
  <2> QED
    BY <2>2, ChecksumExact
<1> QED
  BY <1>1, AlwaysReading, PTL

-------------------------------------------------------------------------------
(* The lanes implement decompressing all chunks in one step.               *)

LEMMA AnswersAbstractly ==
  ASSUME IInv, answer = NoAnswer, UNCHANGED <<dataset, stored>>, Right(Contents, Len(stored), answer')
  PROVE  Abstract!Answer
<1>1. PICK n \in Nat : n = Len(stored) /\ DOMAIN stored = 1 .. n
  BY FileLen DEF IInv
<1>2. Abstract!Failing = {k \in 1 .. n : Content(dataset, stored[k]) = Error}
  BY <1>1 DEF Abstract!Failing
<1>3. Contents = [k \in 1 .. n |-> Content(dataset, stored[k])]
  BY <1>1 DEF Contents
<1>4. CASE (\A k \in 1 .. n : Contents[k] # Error) /\ answer' = [k \in 1 .. n |-> Contents[k]]
  <2>1. Abstract!Failing = {}
    BY <1>2, <1>3, <1>4
  <2>2. answer' = [k \in DOMAIN stored |-> Content(dataset, stored[k])]
    BY <1>1, <1>3, <1>4
  <2> QED
    BY <2>1, <2>2 DEF Abstract!Answer
<1>5. CASE IsError(Contents, n, answer')
  <2>1. PICK k \in 1 .. n : Contents[k] = Error /\ answer' = <<Error, k>>
    BY <1>5 DEF IsError
  <2>2. k \in Abstract!Failing
    BY <1>2, <1>3, <2>1
  <2>3. Abstract!Failing # {} /\ answer' \in {<<Error, j>> : j \in Abstract!Failing}
    BY <2>1, <2>2
  <2> QED
    BY <2>3 DEF Abstract!Answer
<1> QED
  BY <1>1, <1>4, <1>5 DEF Right

\* Decompressing by lanes, in any order and at any speed, is decompressing all
\* chunks at once: the contents of all in the order of the chunks, or the error of
\* one that has one.
THEOREM LanesReadInOrder == Spec => ReadsInOrder
<1>1. Init => Abstract!Init
  BY DEF Init, Abstract!Init
<1>2. IInv /\ [Next]_vars => [Abstract!Answer \/ Abstract!Damage \/ Abstract!Forget]_(Abstract!specVars)
  <2> SUFFICES ASSUME IInv, [Next]_vars
               PROVE  [Abstract!Answer \/ Abstract!Damage \/ Abstract!Forget]_(Abstract!specVars)
    OBVIOUS
  <2>1. CASE UNCHANGED <<dataset, stored, answer>>
    BY <2>1 DEF Abstract!specVars
  <2>2. CASE Collect \/ SequentialEnd
    <3>1. /\ pc # "answered" /\ UNCHANGED <<dataset, stored>>
          /\ Right(Contents, Len(stored), answer')
      BY <2>2, CollectAnswers, SequentialAnswers
    <3>2. answer = NoAnswer
      BY <3>1 DEF IInv, ReadInv
    <3> QED
      BY <3>1, <3>2, AnswersAbstractly
  <2>3. CASE ReadAgain
    BY <2>3 DEF ReadAgain, Abstract!Forget
  <2>4. ASSUME NEW k \in Chunks, Damage(k) PROVE Abstract!Damage
    <3>1. pc = "file" /\ UNCHANGED <<dataset, answer>>
      BY <2>4 DEF Damage
    <3>2. answer = NoAnswer
      BY <3>1 DEF IInv, ReadInv
    <3> QED
      BY <3>1, <3>2 DEF Abstract!Damage
  <2>5. \/ UNCHANGED <<dataset, stored, answer>> \/ Collect \/ SequentialEnd \/ ReadAgain
        \/ \E k \in Chunks : Damage(k)
    BY DEF Next, Read, Partition, Start, LaneStep, LaneDone, Decode, SequentialStep, vars
  <2> QED
    BY <2>1, <2>2, <2>3, <2>4, <2>5
<1> QED
  BY <1>1, <1>2, AlwaysReading, PTL DEF Spec, ReadsInOrder, Abstract!Spec
===============================================================================
