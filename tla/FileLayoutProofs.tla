--------------------------- MODULE FileLayoutProofs ---------------------------
(***************************************************************************)
(* Proofs about FileLayout and MetadataIndex, for files of any shape, with *)
(* names and messages of any length.                                       *)
(***************************************************************************)
EXTENDS MetadataIndex, Induction, FiniteSetTheorems, SequenceTheorems, TLAPS

-------------------------------------------------------------------------------
(* Lengths.                                                                *)

LEMMA TotalType ==
  ASSUME NEW s \in Seq(Nat)
  PROVE  Total(s) \in Nat
<1> DEFINE n == Len(s)
           Rec(u) == [i \in 0 .. n |-> IF i = 0 THEN 0 ELSE s[i] + u[i - 1]]
           upTo == CHOOSE u : u = Rec(u)
<1>1. Total(s) = upTo[n]
  BY DEF Total
<1>2. n \in Nat /\ 0 \in Nat
  OBVIOUS
<1>3. \E u : u = Rec(u)
  <2> DEFINE step == [i \in 1 .. n |-> [v \in Nat |-> s[i] + v]]
  <2>1. step \in [1 .. n -> [Nat -> Nat]]
    OBVIOUS
  <2> HIDE DEF step, n
  <2>2. PICK u \in [0 .. n -> Nat] : IsFold(u, n, 0, step)
    BY <2>1, <1>2, FoldExists
  <2>3. ASSUME NEW i \in 1 .. n PROVE u[i] = s[i] + u[i - 1]
    <3>1. u[i - 1] \in Nat /\ u[i] = step[i][u[i - 1]]
      BY <2>2, <1>2 DEF IsFold
    <3> QED
      BY <3>1 DEF step, n
  <2>4. u = Rec(u)
    BY <1>2, <2>2, <2>3 DEF IsFold
  <2> QED
    BY <2>4
<1>4. upTo = Rec(upTo)
  BY <1>3
<1> HIDE DEF upTo
<1> DEFINE S == {m \in Nat : m <= n => upTo[m] \in Nat}
<1>5. 0 \in S
  BY <1>4
<1>6. \A m \in Nat : m \in S => m + 1 \in S
  BY <1>4
<1> HIDE DEF S
<1>7. Nat \subseteq S
  BY <1>5, <1>6, SetInduction
<1> QED
  BY <1>1, <1>2, <1>7 DEF S

LEMMA PowersPositive == \A k \in 0 .. 39 : 2^k \in Nat
<1> SUFFICES ASSUME NEW k \in 0 .. 39 PROVE 2^k \in Nat
  OBVIOUS
<1>1. k \in 0 .. 13 \/ k \in 14 .. 27 \/ k \in 28 .. 39
  OBVIOUS
<1>2. CASE k \in 0 .. 13
  <2>1. \/ k = 0 \/ k = 1 \/ k = 2 \/ k = 3 \/ k = 4 \/ k = 5 \/ k = 6
        \/ k = 7 \/ k = 8 \/ k = 9 \/ k = 10 \/ k = 11 \/ k = 12
        \/ k = 13
    BY <1>2
  <2>2. /\ 2^0 \in Nat /\ 2^1 \in Nat /\ 2^2 \in Nat /\ 2^3 \in Nat
        /\ 2^4 \in Nat /\ 2^5 \in Nat /\ 2^6 \in Nat /\ 2^7 \in Nat
        /\ 2^8 \in Nat /\ 2^9 \in Nat /\ 2^10 \in Nat /\ 2^11 \in Nat
        /\ 2^12 \in Nat /\ 2^13 \in Nat
    OBVIOUS
  <2> QED
    BY <2>1, <2>2, Zenon
<1>3. CASE k \in 14 .. 27
  <2>1. \/ k = 14 \/ k = 15 \/ k = 16 \/ k = 17 \/ k = 18 \/ k = 19
        \/ k = 20 \/ k = 21 \/ k = 22 \/ k = 23 \/ k = 24 \/ k = 25
        \/ k = 26 \/ k = 27
    BY <1>3
  <2>2. /\ 2^14 \in Nat /\ 2^15 \in Nat /\ 2^16 \in Nat /\ 2^17 \in Nat
        /\ 2^18 \in Nat /\ 2^19 \in Nat /\ 2^20 \in Nat /\ 2^21 \in Nat
        /\ 2^22 \in Nat /\ 2^23 \in Nat /\ 2^24 \in Nat /\ 2^25 \in Nat
        /\ 2^26 \in Nat /\ 2^27 \in Nat
    OBVIOUS
  <2> QED
    BY <2>1, <2>2, Zenon
<1>4. CASE k \in 28 .. 39
  <2>1. \/ k = 28 \/ k = 29 \/ k = 30 \/ k = 31 \/ k = 32 \/ k = 33
        \/ k = 34 \/ k = 35 \/ k = 36 \/ k = 37 \/ k = 38 \/ k = 39
    BY <1>4
  <2>2. /\ 2^28 \in Nat /\ 2^29 \in Nat /\ 2^30 \in Nat /\ 2^31 \in Nat
        /\ 2^32 \in Nat /\ 2^33 \in Nat /\ 2^34 \in Nat /\ 2^35 \in Nat
        /\ 2^36 \in Nat /\ 2^37 \in Nat /\ 2^38 \in Nat /\ 2^39 \in Nat
    OBVIOUS
  <2> QED
    BY <2>1, <2>2, Zenon
<1> QED
  BY <1>1, <1>2, <1>3, <1>4

\* Some power of two is large enough.
IsBounded(n, least) == \E k \in 0 .. 39 : 2^k >= n /\ 2^k >= least

\* Rounding up gives a power of two that is large enough.
LEMMA AtLeastLemma ==
  ASSUME NEW n \in Nat, NEW least \in Nat,
         IsBounded(n, least)
  PROVE  AtLeast(n, least) \in Nat /\ AtLeast(n, least) >= least /\ AtLeast(n, least) >= n
<1> DEFINE Enough(k) == 2^k >= n /\ 2^k >= least
           R == {k \in 0 .. 39 : Enough(k)}
<1>1. PICK m \in R : \A r \in R : m <= r
  <2>1. R \in SUBSET Nat /\ R # {}
    BY DEF IsBounded
  <2> HIDE DEF R
  <2> QED
    BY <2>1, NatMin
<1>2. \A j \in 0 .. m - 1 : 2^j < n \/ 2^j < least
  <2> SUFFICES ASSUME NEW j \in 0 .. m - 1 PROVE 2^j < n \/ 2^j < least
    OBVIOUS
  <2>1. m \in 0 .. 39 /\ j \in 0 .. 39 /\ j < m
    OBVIOUS
  <2>2. j \notin R
    BY <1>1, <2>1
  <2>3. 2^j \in Nat
    BY <2>1, PowersPositive
  <2> QED
    BY <2>1, <2>2, <2>3
<1> DEFINE Best(k) == 2^k >= n /\ 2^k >= least /\ \A j \in 0 .. k - 1 : 2^j < n \/ 2^j < least
           k == CHOOSE k \in 0 .. 39 : Best(k)
<1>3. k \in 0 .. 39 /\ Best(k)
  <2>1. m \in 0 .. 39 /\ Best(m)
    BY <1>1, <1>2
  <2> HIDE DEF Best
  <2> QED
    BY <2>1
<1>4. AtLeast(n, least) = 2^k
  BY DEF AtLeast
<1> QED
  BY <1>3, <1>4, PowersPositive
-------------------------------------------------------------------------------
(* The shape of a file.                                                    *)

LEMMA FileTypes ==
  ASSUME WellFormed(file)
  PROVE  /\ file \in Seq(FileObject) /\ Len(file) \in Nat /\ Len(file) >= 1
         /\ Objects = 1 .. Len(file)
         /\ \A o \in Objects :
              /\ file[o] \in FileObject
              /\ file[o].kind \in {"group", "dataset"}
              /\ file[o].name \in DOMAIN NameLen
              /\ file[o].own \in Seq(Nat) /\ file[o].attrs \in Seq(Nat)
              /\ file[o].bytes \in Nat \cup {Missing}
<1>1. file \in Seq(FileObject) /\ Len(file) >= 1
  BY DEF WellFormed
<1>2. Len(file) \in Nat /\ Objects = 1 .. Len(file)
  BY <1>1 DEF Objects
<1>3. \A o \in Objects : file[o] \in FileObject
  BY <1>1, <1>2
<1> QED
  BY <1>1, <1>2, <1>3 DEF FileObject

\* Groups come before datasets.
LEMMA Shape ==
  ASSUME WellFormed(file)
  PROVE  /\ Cardinality(Groups) \in 1 .. Len(file)
         /\ Groups = 1 .. Cardinality(Groups)
         /\ Datasets = Cardinality(Groups) + 1 .. Len(file)
         /\ Cardinality(Datasets) = Len(file) - Cardinality(Groups)
<1> DEFINE n == Len(file)
           S == {i \in 0 .. n : \A o \in 1 .. i : o \in Groups}
<1>1. n \in Nat /\ n >= 1 /\ Objects = 1 .. n /\ \A o \in Objects : file[o].kind \in {"group", "dataset"}
  BY FileTypes
<1>2. /\ 1 \in Groups
      /\ \A o \in 2 .. n : o \in Groups => o - 1 \in Groups
  BY <1>1 DEF WellFormed, Groups
<1>3. PICK g \in S : \A r \in S : r <= g
  <2>1. 0 \in S
    BY <1>1
  <2>2. n \in Nat /\ S \in SUBSET (0 .. n) /\ S # {}
    BY <1>1, <2>1
  <2> HIDE DEF S, n
  <2> QED
    BY <2>2, NatMax
<1>4. g \in 1 .. n /\ 1 .. g \subseteq Groups
  <2>1. 1 \in S
    BY <1>1, <1>2
  <2> QED
    BY <1>1, <1>3, <2>1
<1>5. ASSUME NEW o \in g + 1 .. n PROVE o \notin Groups
  \* The least group behind g would be g + 1, and then S would have g + 1.
  <2> SUFFICES ASSUME o \in Groups PROVE FALSE
    OBVIOUS
  <2> DEFINE B == {p \in g + 1 .. n : p \in Groups}
  <2>1. B \in SUBSET Nat /\ B # {}
    BY <1>4
  <2>2. PICK m \in B : \A r \in B : m <= r
    <3> HIDE DEF B
    <3> QED
      BY <2>1, NatMin
  <2>3. m - 1 \in Groups /\ m - 1 \notin B
    BY <1>2, <1>4, <2>2
  <2>4. m = g + 1
    BY <1>4, <2>2, <2>3
  <2>5. g + 1 \in S
    BY <1>1, <1>4, <2>2, <2>4
  <2> QED
    BY <1>3, <1>4, <2>5
<1>6. Groups = 1 .. g
  BY <1>1, <1>4, <1>5 DEF Groups
<1>7. Datasets = g + 1 .. n
  BY <1>1, <1>4, <1>6 DEF Datasets
<1>8. Cardinality(1 .. g) = g /\ Cardinality(g + 1 .. n) = n - g
  <2>1. 1 \in Int /\ g \in Int /\ g + 1 \in Int /\ n \in Int /\ g >= 1 /\ g <= n
    BY <1>1, <1>4
  <2>2. /\ Cardinality(1 .. g) = IF 1 > g THEN 0 ELSE g - 1 + 1
        /\ Cardinality(g + 1 .. n) = IF g + 1 > n THEN 0 ELSE n - (g + 1) + 1
    BY <2>1, FS_Interval
  <2> QED
    BY <2>1, <2>2
<1> QED
  BY <1>4, <1>6, <1>7, <1>8

LEMMA MembersLemma ==
  ASSUME WellFormed(file), NEW g, NEW kind
  PROVE  /\ Members(g, kind) \in Seq(Objects)
         /\ \A o \in Objects :
              (o # 1 /\ file[o].parent = g /\ file[o].kind = kind) <=>
              \E i \in DOMAIN Members(g, kind) : Members(g, kind)[i] = o
         /\ \A i, j \in DOMAIN Members(g, kind) : i < j => Members(g, kind)[i] # Members(g, kind)[j]
<1> DEFINE n == Len(file)
           Is(o) == o # 1 /\ file[o].parent = g /\ file[o].kind = kind
           Rec(u) == [o \in 0 .. n |->
                        IF o = 0 THEN << >>
                        ELSE IF o # 1 /\ file[o].parent = g /\ file[o].kind = kind THEN Append(u[o - 1], o)
                        ELSE u[o - 1]]
           upTo == CHOOSE u : u = Rec(u)
<1>1. Members(g, kind) = upTo[n]
  BY DEF Members
<1>2. n \in Nat /\ << >> \in Seq(Objects) /\ Objects = 1 .. n
  BY FileTypes
<1>3. \E u : u = Rec(u)
  <2> DEFINE step == [o \in 1 .. n |-> [v \in Seq(Objects) |-> IF Is(o) THEN Append(v, o) ELSE v]]
  <2>1. step \in [1 .. n -> [Seq(Objects) -> Seq(Objects)]]
    <3>1. ASSUME NEW o \in 1 .. n, NEW v \in Seq(Objects)
          PROVE  (IF Is(o) THEN Append(v, o) ELSE v) \in Seq(Objects)
      BY <1>2, AppendProperties
    <3> HIDE DEF Is
    <3> QED
      BY <3>1
  <2> HIDE DEF step, n, Is
  <2>2. PICK u \in [0 .. n -> Seq(Objects)] : IsFold(u, n, << >>, step)
    BY <2>1, <1>2, FoldExists
  <2>3. ASSUME NEW o \in 1 .. n PROVE u[o] = IF Is(o) THEN Append(u[o - 1], o) ELSE u[o - 1]
    <3>1. u[o - 1] \in Seq(Objects) /\ u[o] = step[o][u[o - 1]]
      BY <2>2, <1>2 DEF IsFold
    <3> QED
      BY <3>1 DEF step
  <2>4. ASSUME NEW o \in 0 .. n PROVE u[o] = Rec(u)[o]
    <3>1. CASE o = 0
      BY <2>2, <3>1 DEF IsFold
    <3>2. CASE o # 0
      <4>1. o \in 1 .. n
        BY <1>2, <3>2
      <4>2. u[o] = IF Is(o) THEN Append(u[o - 1], o) ELSE u[o - 1]
        BY <2>3, <4>1
      <4> QED
        BY <3>2, <4>2 DEF Is
    <3> QED
      BY <3>1, <3>2
  <2>5. u = Rec(u)
    BY <2>2, <2>4
  <2> QED
    BY <2>5
<1>4. upTo = Rec(upTo)
  BY <1>3
<1> HIDE DEF upTo
<1>5. upTo[0] = << >> /\ \A o \in 1 .. n : upTo[o] = IF Is(o) THEN Append(upTo[o - 1], o) ELSE upTo[o - 1]
  <2>1. \A o \in 0 .. n : upTo[o] = Rec(upTo)[o]
    BY <1>4
  <2>2. upTo[0] = << >>
    BY <1>2, <2>1
  <2>3. ASSUME NEW o \in 1 .. n PROVE upTo[o] = IF Is(o) THEN Append(upTo[o - 1], o) ELSE upTo[o - 1]
    BY <1>2, <2>1
  <2> QED
    BY <2>2, <2>3
<1> HIDE DEF n, Is
<1> DEFINE Holds(s, m) ==
             /\ s \in Seq(Objects)
             /\ \A o \in 1 .. m : Is(o) <=> \E i \in 1 .. Len(s) : s[i] = o
             /\ \A i \in 1 .. Len(s) : s[i] \in 1 .. m
             /\ \A i, j \in 1 .. Len(s) : i < j => s[i] # s[j]
           S == {m \in 0 .. n : Holds(upTo[m], m)}
<1>6. 0 \in S
  <2>1. Holds(<< >>, 0)
    BY <1>2
  <2> HIDE DEF Holds
  <2> QED
    BY <1>2, <1>5, <2>1
<1>7. ASSUME NEW m \in 0 .. n - 1, m \in S PROVE m + 1 \in S
  <2>1. m + 1 \in 1 .. n /\ (m + 1) - 1 = m /\ m + 1 \in Objects
    BY <1>2
  <2> DEFINE s == upTo[m]
  <2>2. Holds(s, m)
    BY <1>7
  <2> HIDE DEF s
  <2>3. CASE Is(m + 1)
    <3> DEFINE t == Append(s, m + 1)
    <3>1. t \in Seq(Objects) /\ Len(t) = Len(s) + 1 /\ t[Len(s) + 1] = m + 1 /\ \A i \in 1 .. Len(s) : t[i] = s[i]
      BY <2>1, <2>2
    <3> HIDE DEF t
    <3>2. Len(s) \in Nat
      BY <2>2
    <3>3. ASSUME NEW o \in 1 .. m + 1 PROVE Is(o) <=> \E i \in 1 .. Len(t) : t[i] = o
      <4>1. CASE o = m + 1
        <5>1. Len(s) + 1 \in 1 .. Len(t)
          BY <3>1, <3>2
        <5> QED
          BY <2>3, <3>1, <4>1, <5>1, Zenon
      <4>2. CASE o # m + 1
        <5>1. o \in 1 .. m
          BY <4>2
        <5>2. Is(o) <=> \E i \in 1 .. Len(s) : s[i] = o
          BY <2>2, <5>1
        <5>3. \A i \in 1 .. Len(t) : i = Len(s) + 1 \/ i \in 1 .. Len(s)
          BY <3>1, <3>2
        <5>4. \A i \in 1 .. Len(s) : i \in 1 .. Len(t)
          BY <3>1, <3>2
        <5> QED
          BY <3>1, <4>2, <5>2, <5>3, <5>4, Zenon
      <4> QED
        BY <4>1, <4>2
    <3>4. \A i \in 1 .. Len(t) : t[i] \in 1 .. m + 1
      BY <2>2, <3>1, <3>2
    <3>7. ASSUME NEW i \in 1 .. Len(t), NEW j \in 1 .. Len(t), i < j PROVE t[i] # t[j]
      <4>1. i \in 1 .. Len(s) /\ s[i] \in 1 .. m
        BY <2>2, <3>1, <3>2, <3>7
      <4>2. CASE j \in 1 .. Len(s)
        BY <2>2, <3>1, <3>7, <4>1, <4>2
      <4>3. CASE j = Len(s) + 1
        BY <3>1, <4>1, <4>3
      <4> QED
        BY <3>1, <3>2, <4>2, <4>3
    <3>5. Holds(t, m + 1)
      BY <3>1, <3>3, <3>4, <3>7
    <3>6. upTo[m + 1] = t
      BY <1>5, <2>1, <2>3 DEF s, t
    <3> QED
      BY <2>1, <3>5, <3>6
  <2>4. CASE ~Is(m + 1)
    <3>1. upTo[m + 1] = s
      BY <1>5, <2>1, <2>4 DEF s
    <3>2. Holds(s, m + 1)
      BY <2>2, <2>4
    <3> QED
      BY <2>1, <3>1, <3>2
  <2> QED
    BY <2>3, <2>4
<1> HIDE DEF S
<1>8. 0 .. n \subseteq S
  BY <1>2, <1>6, <1>7, RangeInduction
<1>9. Holds(upTo[n], n)
  BY <1>2, <1>8 DEF S
<1> DEFINE all == upTo[n]
<1>10. all \in Seq(Objects) /\ DOMAIN all = 1 .. Len(all)
  BY <1>9, LenProperties
<1> HIDE DEF all
<1>11. Members(g, kind) = all /\ Holds(all, n)
  BY <1>1, <1>9 DEF all
<1> QED
  BY <1>2, <1>10, <1>11 DEF Is

\* A group links to the objects whose parent it is.
LEMMA ChildrenLemma ==
  ASSUME WellFormed(file), NEW g \in Objects
  PROVE  /\ Children(g) \in Seq(Objects)
         /\ file[g].kind = "group" =>
              \A o \in Objects : (o # 1 /\ file[o].parent = g) <=>
                \E i \in DOMAIN Children(g) : Children(g)[i] = o
         /\ \A i, j \in DOMAIN Children(g) : i < j => Children(g)[i] # Children(g)[j]
<1>1. CASE file[g].kind = "dataset"
  BY <1>1, EmptySeq DEF Children
<1>2. CASE file[g].kind # "dataset"
  <2> DEFINE a == Members(g, "dataset")
             b == Members(g, "group")
  <2>1. Children(g) = a \o b
    BY <1>2 DEF Children
  <2>2. /\ a \in Seq(Objects) /\ b \in Seq(Objects)
        /\ \A o \in Objects : (o # 1 /\ file[o].parent = g /\ file[o].kind = "dataset") <=>
             \E i \in DOMAIN a : a[i] = o
        /\ \A o \in Objects : (o # 1 /\ file[o].parent = g /\ file[o].kind = "group") <=>
             \E i \in DOMAIN b : b[i] = o
        /\ \A i, j \in DOMAIN a : i < j => a[i] # a[j]
        /\ \A i, j \in DOMAIN b : i < j => b[i] # b[j]
    BY MembersLemma
  <2> HIDE DEF a, b
  <2>3. /\ a \o b \in Seq(Objects)
        /\ DOMAIN a = 1 .. Len(a) /\ DOMAIN b = 1 .. Len(b) /\ DOMAIN (a \o b) = 1 .. Len(a) + Len(b)
        /\ Len(a) \in Nat /\ Len(b) \in Nat
        /\ \A i \in 1 .. Len(a) + Len(b) : (a \o b)[i] = IF i <= Len(a) THEN a[i] ELSE b[i - Len(a)]
    BY <2>2, ConcatProperties, LenProperties
  <2>4. ASSUME NEW o \in Objects, o # 1 /\ file[o].parent = g
        PROVE  \E i \in DOMAIN (a \o b) : (a \o b)[i] = o
    <3>1. file[o].kind \in {"group", "dataset"}
      BY FileTypes
    <3>2. CASE file[o].kind = "dataset"
      <4>1. PICK i \in 1 .. Len(a) : a[i] = o
        BY <2>2, <2>3, <2>4, <3>2
      <4>2. i \in 1 .. Len(a) + Len(b) /\ (a \o b)[i] = o
        BY <2>3, <4>1
      <4> QED
        BY <2>3, <4>2
    <3>3. CASE file[o].kind = "group"
      <4>1. PICK i \in 1 .. Len(b) : b[i] = o
        BY <2>2, <2>3, <2>4, <3>3
      <4>2. Len(a) + i \in 1 .. Len(a) + Len(b) /\ ~(Len(a) + i <= Len(a)) /\ (Len(a) + i) - Len(a) = i
        BY <2>3
      <4>3. (a \o b)[Len(a) + i] = o
        BY <2>3, <4>1, <4>2
      <4> QED
        BY <2>3, <4>2, <4>3
    <3> QED
      BY <3>1, <3>2, <3>3
  <2>5. ASSUME NEW o \in Objects, NEW i \in 1 .. Len(a) + Len(b), (a \o b)[i] = o
        PROVE  o # 1 /\ file[o].parent = g
    <3>1. CASE i <= Len(a)
      BY <2>2, <2>3, <2>5, <3>1
    <3>2. CASE ~(i <= Len(a))
      <4>1. i - Len(a) \in 1 .. Len(b)
        BY <2>3, <3>2
      <4> QED
        BY <2>2, <2>3, <2>5, <3>2, <4>1
    <3> QED
      BY <3>1, <3>2
  <2>6. ASSUME NEW i \in 1 .. Len(a) + Len(b), NEW j \in 1 .. Len(a) + Len(b), i < j
        PROVE  (a \o b)[i] # (a \o b)[j]
    <3>1. CASE j <= Len(a)
      <4>1. i \in DOMAIN a /\ j \in DOMAIN a /\ (a \o b)[i] = a[i] /\ (a \o b)[j] = a[j]
        BY <2>3, <2>6, <3>1
      <4> QED
        BY <2>2, <2>6, <4>1
    <3>2. CASE ~(i <= Len(a))
      <4>1. /\ i - Len(a) \in DOMAIN b /\ j - Len(a) \in DOMAIN b /\ i - Len(a) < j - Len(a)
            /\ (a \o b)[i] = b[i - Len(a)] /\ (a \o b)[j] = b[j - Len(a)]
        BY <2>3, <2>6, <3>2
      <4> QED
        BY <2>2, <4>1
    <3>3. CASE i <= Len(a) /\ ~(j <= Len(a))
      <4>1. /\ i \in DOMAIN a /\ j - Len(a) \in DOMAIN b
            /\ (a \o b)[i] = a[i] /\ (a \o b)[j] = b[j - Len(a)]
        BY <2>3, <3>3
      <4>2. a[i] \in Objects /\ b[j - Len(a)] \in Objects
        BY <2>2, <2>3, <4>1
      <4>3. file[a[i]].kind = "dataset" /\ file[b[j - Len(a)]].kind = "group"
        BY <2>2, <4>1, <4>2
      <4> QED
        BY <4>1, <4>3
    <3> QED
      BY <2>3, <3>1, <3>2, <3>3
  <2> QED
    BY <2>1, <2>3, <2>4, <2>5, <2>6
<1> QED
  BY <1>1, <1>2

LEMMA LinkLenType ==
  ASSUME NEW n \in DOMAIN NameLen
  PROVE  LinkLen(n) \in Nat
<1>1. NameLen[n] \in Nat
  BY LengthAssumption
<1> QED
  BY <1>1 DEF LinkLen

LEMMA MessagesType ==
  ASSUME WellFormed(file), NEW o \in Objects, NEW dense \in BOOLEAN
  PROVE  Messages(o, dense) \in Seq(Nat)
<1> DEFINE c == Children(o)
           links == [i \in DOMAIN c |-> LinkLen(file[c[i]].name)]
           attrs == IF dense THEN <<AttributeInfoLen>> ELSE file[o].attrs
<1>1. file[o].own \in Seq(Nat) /\ file[o].attrs \in Seq(Nat)
  BY FileTypes
<1>2. c \in Seq(Objects) /\ DOMAIN c = 1 .. Len(c) /\ Len(c) \in Nat
  BY ChildrenLemma, LenProperties
<1> HIDE DEF c
<1>3. links \in Seq(Nat)
  <2>1. ASSUME NEW i \in DOMAIN c PROVE LinkLen(file[c[i]].name) \in Nat
    <3>1. c[i] \in Objects
      BY <1>2
    <3>2. file[c[i]].name \in DOMAIN NameLen
      BY <3>1, FileTypes
    <3> QED
      BY <3>2, LinkLenType
  <2>2. links \in [1 .. Len(c) -> Nat]
    BY <1>2, <2>1
  <2> QED
    BY <1>2, <2>2
<1>4. attrs \in Seq(Nat)
  BY <1>1 DEF AttributeInfoLen
<1>5. Messages(o, dense) = file[o].own \o links \o attrs
  BY DEF Messages, c
<1> HIDE DEF links, attrs
<1> QED
  BY <1>1, <1>3, <1>4, <1>5, ConcatProperties

LEMMA HeaderLenType ==
  ASSUME NEW m \in Seq(Nat)
  PROVE  HeaderLen(m) \in Nat /\ HeaderLen(m) > 0
<1> DEFINE s == [i \in DOMAIN m |-> 4 + m[i]]
<1>1. s \in [1 .. Len(m) -> Nat] /\ Len(m) \in Nat
  BY LenProperties
<1>2. Total(s) \in Nat
  <2>1. s \in Seq(Nat)
    BY <1>1
  <2> HIDE DEF s
  <2> QED
    BY <2>1, TotalType
<1>3. HeaderLen(m) = 6 + (IF Total(s) <= 255 THEN 1 ELSE IF Total(s) <= 65535 THEN 2 ELSE 4) + Total(s) + 4
  BY DEF HeaderLen
<1> HIDE DEF s
<1> QED
  BY <1>2, <1>3

LEMMA MeasuredType ==
  ASSUME WellFormed(file), NEW o \in Objects
  PROVE  Measured(o) \in Nat /\ Measured(o) > 0
<1>1. Dense(o) \in BOOLEAN
  BY DEF Dense
<1>2. Messages(o, Dense(o)) \in Seq(Nat)
  BY <1>1, MessagesType
<1> QED
  BY <1>2, HeaderLenType DEF Measured

LEMMA HeapTypes ==
  ASSUME WellFormed(file), NEW o \in Objects, Dense(o)
  PROVE  /\ HeapBlockLen(o) \in Nat /\ HeapBlockLen(o) > 0
         /\ LeafLen(o) \in Nat /\ LeafLen(o) > 0
         /\ HeapLen(o) \in Nat
         /\ HeapLen(o) = HeapHeaderLen + HeapBlockLen(o) + TreeHeaderLen + LeafLen(o)
<1> DEFINE attrs == file[o].attrs
           s == [i \in DOMAIN attrs |-> attrs[i] + 1]
<1>1. attrs \in Seq(Nat) /\ Objects = 1 .. Len(file)
  BY FileTypes
<1>2. FitsHeap(attrs)
  BY <1>1 DEF WellFormed, Dense
<1> HIDE DEF attrs
<1>3. Total(s) \in Nat
  <2>1. s \in [1 .. Len(attrs) -> Nat] /\ Len(attrs) \in Nat
    BY <1>1, LenProperties
  <2>2. s \in Seq(Nat)
    BY <2>1
  <2> HIDE DEF s
  <2> QED
    BY <2>2, TotalType
<1>4. HeapContent(attrs) \in Nat /\ LeafContent(attrs) \in Nat
  BY <1>1, <1>3, LenProperties DEF HeapContent, LeafContent, HeapBlockHeader
<1>5. PICK k \in 0 .. 39 : 2^k >= 512 /\ 2^k >= HeapContent(attrs) /\ 2^k >= LeafContent(attrs)
  BY <1>2 DEF FitsHeap
<1>6. IsBounded(HeapContent(attrs), 512) /\ IsBounded(LeafContent(attrs), 512)
  BY <1>5 DEF IsBounded
<1>7. AtLeast(HeapContent(attrs), 512) \in Nat /\ AtLeast(HeapContent(attrs), 512) >= 512
  BY <1>4, <1>6, AtLeastLemma
<1>8. AtLeast(LeafContent(attrs), 512) \in Nat /\ AtLeast(LeafContent(attrs), 512) >= 512
  BY <1>4, <1>6, AtLeastLemma
<1> QED
  BY <1>7, <1>8 DEF attrs, HeapBlockLen, LeafLen, HeapLen, HeapHeaderLen, TreeHeaderLen

-------------------------------------------------------------------------------
(* The inductive invariant.                                                *)

\* The place behind object o and its attribute heap.
EndOf(o) == addr[o] + Measured(o) + (IF Dense(o) THEN HeapLen(o) ELSE 0)

NumGroups == Cardinality(Groups)
NumDatasets == Len(file) - NumGroups

\* What each pass has done, and that it waits for the one before.
Progress ==
  /\ sizes \in Seq(Nat) /\ Len(sizes) <= Len(file)
  /\ Len(sizes) > 0 => Complete
  /\ addr \in Seq(Nat) /\ Len(addr) <= Len(file)
  /\ Len(addr) > 0 => Len(sizes) = Len(file)
  /\ heap \in Seq(Nat \cup {Undefined}) /\ Len(heap) = Len(addr)
  /\ data \in Seq(Nat) /\ Len(data) <= NumDatasets
  /\ Len(data) > 0 => Len(addr) = Len(file)
  /\ cursor \in Nat /\ len \in Nat
  /\ len > 0 => len >= SuperblockSize /\ Len(addr) = Len(file) /\ Len(data) = NumDatasets
  /\ emitted \in 0 .. Len(file) + NumDatasets
  /\ emitted > 0 => len > 0

AsMeasured == \A o \in 1 .. Len(sizes) : sizes[o] = Measured(o)

\* The addresses handed out leave no gap and overlap nowhere.
HeadersInARow ==
  /\ Len(addr) > 0 => addr[1] = SuperblockSize
  /\ \A o \in 1 .. Len(addr) - 1 : addr[o + 1] = EndOf(o)

HeapsBehind ==
  \A o \in 1 .. Len(addr) : heap[o] = IF Dense(o) THEN addr[o] + Measured(o) ELSE Undefined

DataInARow ==
  /\ Len(data) > 0 => data[1] = EndOf(Len(file))
  /\ \A j \in 1 .. Len(data) - 1 : data[j + 1] = data[j] + file[NumGroups + j].bytes

CursorBehind ==
  cursor = IF Len(data) > 0 THEN data[Len(data)] + file[NumGroups + Len(data)].bytes
           ELSE IF Len(addr) > 0 THEN EndOf(Len(addr))
           ELSE SuperblockSize

InARow == HeadersInARow /\ HeapsBehind /\ DataInARow /\ CursorBehind

\* The end of the buffer is the address of what is appended next.
NextAddress ==
  IF emitted < Len(file) THEN addr[emitted + 1]
  ELSE IF emitted < Len(file) + NumDatasets THEN data[emitted - Len(file) + 1]
  ELSE cursor

Holds(a, block) == a \in DOMAIN blocks /\ blocks[a] = block

\* The blocks of an attribute heap, each at the address the others have for it.
HeapThere(o) ==
  LET block == heap[o] + HeapHeaderLen
      tree == block + HeapBlockLen(o)
      attributes == DOMAIN file[o].attrs
  IN /\ Holds(heap[o], [kind |-> "FRHP", block |-> block])
     /\ Holds(block, [kind |-> "FHDB", header |-> heap[o],
                      objects |-> [i \in attributes |->
                         [offset |-> AttributeOffset(o, i), length |-> file[o].attrs[i] + 1]]])
     /\ Holds(tree, [kind |-> "BTHD", leaf |-> tree + TreeHeaderLen])
     /\ Holds(tree + TreeHeaderLen,
              [kind |-> "BTLF", records |-> [i \in attributes |-> ManagedId(o, i)]])

Appended ==
  /\ \A a \in DOMAIN blocks : a \in Nat /\ a < len
  /\ len > 0 => /\ len = NextAddress
                /\ Holds(0, [kind |-> "superblock", root |-> SuperblockSize, eof |-> cursor])
  /\ \A o \in 1 .. Len(file) : o <= emitted =>
       /\ Holds(addr[o], Header(o))
       /\ Dense(o) => HeapThere(o)
  /\ \A j \in 1 .. NumDatasets : Len(file) + j <= emitted /\ file[NumGroups + j].bytes # 0 =>
       Holds(data[j], [kind |-> "data", object |-> NumGroups + j])

LayoutInv == Progress /\ AsMeasured /\ InARow /\ Appended

IInv == WellFormed(file) /\ LayoutInv

LEMMA SameMembers ==
  ASSUME file' = file, NEW g, NEW kind
  PROVE  Members(g, kind)' = Members(g, kind)
BY DEF Members

\* What only depends on the file stays as it is while the file does.
LEMMA SameFile ==
  ASSUME file' = file
  PROVE  /\ WellFormed(file)' = WellFormed(file) /\ Complete' = Complete
         /\ Objects' = Objects /\ Groups' = Groups /\ Datasets' = Datasets
         /\ NumGroups' = NumGroups /\ NumDatasets' = NumDatasets
         /\ \A o : /\ Dense(o)' = Dense(o) /\ Measured(o)' = Measured(o)
                   /\ HeapLen(o)' = HeapLen(o) /\ HeapBlockLen(o)' = HeapBlockLen(o)
                   /\ Children(o)' = Children(o)
                   /\ \A dense : Messages(o, dense)' = Messages(o, dense)
                   /\ \A i : AttributeOffset(o, i)' = AttributeOffset(o, i) /\ ManagedId(o, i)' = ManagedId(o, i)
<1>1. WellFormed(file)' = WellFormed(file)
  OBVIOUS
<1>2. Objects' = Objects /\ Groups' = Groups /\ Datasets' = Datasets
  BY DEF Objects, Groups, Datasets
<1>3. NumGroups' = NumGroups /\ NumDatasets' = NumDatasets /\ Complete' = Complete
  BY <1>2 DEF NumGroups, NumDatasets, Complete
<1>4. ASSUME NEW o
      PROVE  /\ Dense(o)' = Dense(o) /\ Measured(o)' = Measured(o)
             /\ HeapLen(o)' = HeapLen(o) /\ HeapBlockLen(o)' = HeapBlockLen(o)
             /\ Children(o)' = Children(o)
             /\ \A dense : Messages(o, dense)' = Messages(o, dense)
             /\ \A i : AttributeOffset(o, i)' = AttributeOffset(o, i) /\ ManagedId(o, i)' = ManagedId(o, i)
  <2>1. Dense(o)' = Dense(o)
    BY DEF Dense
  <2>2. Children(o)' = Children(o)
    BY SameMembers DEF Children
  <2>3. \A dense : Messages(o, dense)' = Messages(o, dense)
    BY <2>2 DEF Messages
  <2>4. Measured(o)' = Measured(o)
    BY <2>1, <2>3 DEF Measured
  <2>5. HeapBlockLen(o)' = HeapBlockLen(o) /\ LeafLen(o)' = LeafLen(o)
    BY DEF HeapBlockLen, LeafLen
  <2>6. HeapLen(o)' = HeapLen(o)
    BY <2>5 DEF HeapLen
  <2>7. \A i : AttributeOffset(o, i)' = AttributeOffset(o, i) /\ ManagedId(o, i)' = ManagedId(o, i)
    BY DEF AttributeOffset, ManagedId
  <2> QED
    BY <2>1, <2>2, <2>3, <2>4, <2>5, <2>6, <2>7
<1> QED
  BY <1>1, <1>2, <1>3, <1>4

LEMMA SameEnd ==
  ASSUME UNCHANGED <<file, addr>>
  PROVE  \A o : EndOf(o)' = EndOf(o)
BY SameFile DEF EndOf

\* Before the buffer is begun, nothing is in it.
LEMMA NothingYet ==
  ASSUME IInv, ~Placed
  PROVE  len = 0 /\ emitted = 0 /\ DOMAIN blocks = {}
<1>1. len \in Nat /\ emitted \in Nat
  BY DEF IInv, LayoutInv, Progress
<1>2. Cardinality(Datasets) = NumDatasets
  BY Shape DEF IInv, NumDatasets, NumGroups
<1>3. len = 0
  BY <1>1, <1>2 DEF IInv, LayoutInv, Progress, Placed
<1>4. emitted = 0
  BY <1>1, <1>3 DEF IInv, LayoutInv, Progress
<1>5. \A a \in DOMAIN blocks : a \in Nat /\ a < len
  BY DEF IInv, LayoutInv, Appended
<1>6. \A a : a \notin DOMAIN blocks
  BY <1>3, <1>5
<1> QED
  BY <1>3, <1>4, <1>6, Zenon

LEMMA NumberTypes ==
  ASSUME WellFormed(file)
  PROVE  /\ Len(file) \in Nat /\ Len(file) >= 1
         /\ NumGroups \in 1 .. Len(file) /\ NumDatasets \in Nat /\ NumDatasets = Len(file) - NumGroups
         /\ Cardinality(Groups) = NumGroups /\ Cardinality(Datasets) = NumDatasets
         /\ Objects = 1 .. Len(file) /\ Datasets = NumGroups + 1 .. Len(file)
  BY FileTypes, Shape DEF NumGroups, NumDatasets

\* Appended says nothing of an empty buffer.
LEMMA EmptyBuffer ==
  ASSUME len' = 0, emitted' = 0, DOMAIN blocks' = {}, file' = file, WellFormed(file)
  PROVE  Appended'
<1>1. Len(file) \in Nat /\ NumDatasets \in Nat /\ NumDatasets' = NumDatasets
  BY NumberTypes, SameFile
<1> QED
  BY <1>1 DEF Appended

LEMMA MeasureStep ==
  ASSUME IInv, Measure
  PROVE  IInv'
<1>1. /\ Complete /\ Len(sizes) < Len(file) /\ sizes' = Append(sizes, Measured(Len(sizes) + 1))
      /\ UNCHANGED <<file, failed, cursor, addr, heap, data, len, blocks, emitted>>
  BY DEF Measure
<1>2. WellFormed(file)
  BY DEF IInv
<1>3. /\ Len(sizes) \in Nat /\ sizes \in Seq(Nat) /\ addr \in Seq(Nat) /\ data \in Seq(Nat)
      /\ Len(addr) \in Nat /\ Len(data) \in Nat
      /\ Len(file) \in Nat /\ Objects = 1 .. Len(file) /\ NumDatasets \in Nat
      /\ Cardinality(Datasets) = NumDatasets
  BY <1>2, NumberTypes DEF IInv, LayoutInv, Progress
<1>4. Len(addr) = 0 /\ ~Placed
  BY <1>1, <1>2, <1>3, NumberTypes DEF IInv, LayoutInv, Progress, Placed
<1>5. len = 0 /\ emitted = 0 /\ DOMAIN blocks = {}
  BY <1>4, NothingYet
<1>6. Len(sizes) + 1 \in Objects /\ Measured(Len(sizes) + 1) \in Nat
  BY <1>1, <1>2, <1>3, MeasuredType
<1>7. /\ sizes' \in Seq(Nat) /\ Len(sizes') = Len(sizes) + 1
      /\ \A o \in 1 .. Len(sizes) : sizes'[o] = sizes[o]
      /\ sizes'[Len(sizes) + 1] = Measured(Len(sizes) + 1)
  BY <1>1, <1>3, <1>6
<1>8. /\ Complete' = Complete /\ NumDatasets' = NumDatasets /\ NumGroups' = NumGroups
      /\ \A o : Measured(o)' = Measured(o) /\ Dense(o)' = Dense(o) /\ EndOf(o)' = EndOf(o)
  BY <1>1, SameFile, SameEnd
<1>9. Progress'
  BY <1>1, <1>3, <1>4, <1>5, <1>7, <1>8 DEF IInv, LayoutInv, Progress
<1>10. AsMeasured'
  <2>1. \A o \in 1 .. Len(sizes) : sizes[o] = Measured(o)
    BY DEF IInv, LayoutInv, AsMeasured
  <2>2. ASSUME NEW o \in 1 .. Len(sizes') PROVE sizes'[o] = Measured(o)
    <3>1. o \in 1 .. Len(sizes) \/ o = Len(sizes) + 1
      BY <1>3, <1>7
    <3> QED
      BY <1>7, <2>1, <3>1
  <2> QED
    BY <1>8, <2>2 DEF AsMeasured
<1>11. InARow'
  <2>1. InARow
    BY DEF IInv, LayoutInv
  <2> QED
    BY <1>1, <1>8, <2>1 DEF InARow, HeadersInARow, HeapsBehind, DataInARow, CursorBehind
<1>12. Appended'
  BY <1>1, <1>2, <1>5, EmptyBuffer
<1> QED
  BY <1>1, <1>2, <1>9, <1>10, <1>11, <1>12, SameFile DEF IInv, LayoutInv

LEMMA SameHeader ==
  ASSUME UNCHANGED <<file, addr, heap, data>>
  PROVE  \A o : Header(o)' = Header(o)
<1> SUFFICES ASSUME NEW o PROVE Header(o)' = Header(o)
  OBVIOUS
<1>1. /\ Dense(o)' = Dense(o) /\ Children(o)' = Children(o) /\ Datasets' = Datasets
      /\ HeapBlockLen(o)' = HeapBlockLen(o) /\ Groups' = Groups
      /\ \A dense : Messages(o, dense)' = Messages(o, dense)
  BY SameFile
<1>2. \A i : LinkTarget(o, i)' = LinkTarget(o, i)
  BY <1>1 DEF LinkTarget
<1>3. Messages(o, Dense(o))' = Messages(o, Dense(o))
  BY <1>1
<1> QED
  BY <1>1, <1>2, <1>3 DEF Header

\* An attribute heap stays there while more is appended.
LEMMA SameHeap ==
  ASSUME UNCHANGED <<file, heap>>, NEW o,
         \A a \in DOMAIN blocks : a \in DOMAIN blocks' /\ blocks'[a] = blocks[a]
  PROVE  HeapThere(o) => HeapThere(o)'
<1>1. /\ HeapBlockLen(o)' = HeapBlockLen(o)
      /\ \A i : AttributeOffset(o, i)' = AttributeOffset(o, i) /\ ManagedId(o, i)' = ManagedId(o, i)
  BY SameFile
<1>2. \A a, b : Holds(a, b) => Holds(a, b)'
  BY DEF Holds
<1> QED
  BY <1>1, <1>2 DEF HeapThere

LEMMA Unmoved ==
  ASSUME UNCHANGED <<file, sizes, cursor, addr, heap, data, len, blocks, emitted>>
  PROVE  IInv => IInv'
<1>1. Progress => Progress'
  BY SameFile DEF Progress
<1>2. AsMeasured /\ InARow => AsMeasured' /\ InARow'
  BY SameFile, SameEnd DEF AsMeasured, InARow, HeadersInARow, HeapsBehind, DataInARow, CursorBehind
<1>3. Appended => Appended'
  <2>1. NextAddress' = NextAddress
    BY SameFile DEF NextAddress
  <2>2. \A a, b : Holds(a, b)' = Holds(a, b)
    BY DEF Holds
  <2>3. \A o : HeapThere(o) => HeapThere(o)'
    BY SameHeap
  <2>4. NumGroups' = NumGroups /\ NumDatasets' = NumDatasets /\ \A o : Dense(o)' = Dense(o) /\ Header(o)' = Header(o)
    BY SameFile, SameHeader
  <2> QED
    BY <2>1, <2>2, <2>3, <2>4 DEF Appended
<1> QED
  BY <1>1, <1>2, <1>3, SameFile DEF IInv, LayoutInv

LEMMA RejectStep ==
  ASSUME IInv, Reject
  PROVE  IInv'
BY Unmoved DEF Reject

LEMMA PlaceHeaderStep ==
  ASSUME IInv, PlaceHeader
  PROVE  IInv'
<1> DEFINE n == Len(addr)
           o == n + 1
           place == IF Dense(o) THEN cursor + sizes[o] ELSE Undefined
<1>1. /\ Len(sizes) = Len(file) /\ n < Len(file)
      /\ addr' = Append(addr, cursor) /\ heap' = Append(heap, place) /\ cursor' = AfterObject(o)
      /\ UNCHANGED <<file, failed, sizes, data, len, blocks, emitted>>
  BY DEF PlaceHeader
<1>2. WellFormed(file) /\ Progress /\ AsMeasured /\ InARow
  BY DEF IInv, LayoutInv
<1>3. /\ sizes \in Seq(Nat) /\ addr \in Seq(Nat) /\ data \in Seq(Nat)
      /\ heap \in Seq(Nat \cup {Undefined}) /\ Len(heap) = n /\ cursor \in Nat
      /\ n \in Nat /\ Len(file) \in Nat /\ Objects = 1 .. Len(file) /\ NumDatasets \in Nat
      /\ Cardinality(Datasets) = NumDatasets
  BY <1>2, NumberTypes DEF Progress
<1>4. o \in Objects /\ sizes[o] = Measured(o) /\ Measured(o) \in Nat
  <2>1. o \in Objects /\ o \in 1 .. Len(sizes)
    BY <1>1, <1>3
  <2> QED
    BY <1>2, <2>1, MeasuredType DEF AsMeasured
<1>5. Len(data) = 0 /\ ~Placed
  <2>1. Len(data) \in Nat /\ ~(Len(data) > 0)
    BY <1>1, <1>2, <1>3 DEF Progress
  <2> QED
    BY <1>1, <2>1 DEF Placed
<1>6. len = 0 /\ emitted = 0 /\ DOMAIN blocks = {}
  BY <1>5, NothingYet
<1>7. (Dense(o) => HeapLen(o) \in Nat) /\ AfterObject(o) \in Nat /\ place \in Nat \cup {Undefined}
  <2>1. Dense(o) => HeapLen(o) \in Nat
    BY <1>2, <1>4, HeapTypes
  <2> QED
    BY <2>1, <1>3, <1>4 DEF AfterObject
<1> HIDE DEF place
<1>8. /\ addr' \in Seq(Nat) /\ Len(addr') = n + 1 /\ addr'[n + 1] = cursor
      /\ \A i \in 1 .. n : addr'[i] = addr[i]
      /\ heap' \in Seq(Nat \cup {Undefined}) /\ Len(heap') = n + 1 /\ heap'[n + 1] = place
      /\ \A i \in 1 .. n : heap'[i] = heap[i]
  BY <1>1, <1>3, <1>7
<1>9. /\ Complete' = Complete /\ NumDatasets' = NumDatasets /\ NumGroups' = NumGroups
      /\ \A i : Measured(i)' = Measured(i) /\ Dense(i)' = Dense(i) /\ HeapLen(i)' = HeapLen(i)
  BY <1>1, SameFile
<1>10. Progress'
  BY <1>1, <1>2, <1>3, <1>5, <1>6, <1>7, <1>8, <1>9 DEF Progress
<1>11. AsMeasured'
  BY <1>1, <1>2, <1>9 DEF AsMeasured
<1>12. \A i \in 1 .. n : EndOf(i)' = EndOf(i)
  BY <1>8, <1>9 DEF EndOf
<1>13. cursor = IF n > 0 THEN EndOf(n) ELSE SuperblockSize
  BY <1>2, <1>5 DEF InARow, CursorBehind
<1>14. HeadersInARow'
  <2>1. addr'[1] = SuperblockSize
    <3>1. n > 0 => addr[1] = SuperblockSize
      BY <1>2 DEF InARow, HeadersInARow
    <3>2. CASE n > 0
      BY <1>3, <1>8, <3>1, <3>2
    <3>3. CASE n = 0
      BY <1>8, <1>13, <3>3
    <3> QED
      BY <1>3, <3>2, <3>3
  <2>2. ASSUME NEW i \in 1 .. n PROVE addr'[i + 1] = EndOf(i)'
    <3>1. CASE i = n
      BY <1>3, <1>8, <1>12, <1>13, <3>1
    <3>2. CASE i # n
      <4>1. i \in 1 .. n - 1 /\ i + 1 \in 1 .. n
        BY <1>3, <3>2
      <4>2. addr[i + 1] = EndOf(i)
        BY <1>2, <4>1 DEF InARow, HeadersInARow
      <4> QED
        BY <1>8, <1>12, <4>1, <4>2
    <3> QED
      BY <3>1, <3>2
  <2>3. Len(addr') - 1 = n
    BY <1>3, <1>8
  <2> QED
    BY <2>1, <2>2, <2>3 DEF HeadersInARow
<1>15. HeapsBehind'
  <2>1. ASSUME NEW i \in 1 .. n + 1
        PROVE  heap'[i] = IF Dense(i) THEN addr'[i] + Measured(i) ELSE Undefined
    <3>1. CASE i = n + 1
      BY <1>4, <1>8, <3>1 DEF place
    <3>2. CASE i # n + 1
      <4>1. i \in 1 .. n
        BY <1>3, <3>2
      <4>2. heap[i] = IF Dense(i) THEN addr[i] + Measured(i) ELSE Undefined
        BY <1>2, <4>1 DEF InARow, HeapsBehind
      <4> QED
        BY <1>8, <4>1, <4>2
    <3> QED
      BY <3>1, <3>2
  <2> QED
    BY <1>8, <1>9, <2>1 DEF HeapsBehind
<1>16. CursorBehind'
  <2>1. PICK k : k = n + 1
    OBVIOUS
  <2>2. EndOf(k)' = cursor + Measured(k) + (IF Dense(k) THEN HeapLen(k) ELSE 0)
    BY <1>8, <1>9, <2>1 DEF EndOf
  <2>3. cursor' = EndOf(k)'
    BY <1>1, <1>4, <2>1, <2>2 DEF AfterObject
  <2>4. ~(Len(data') > 0) /\ Len(addr') = k /\ Len(addr') > 0
    BY <1>1, <1>3, <1>5, <1>8, <2>1
  <2>5. EndOf(Len(addr))' = EndOf(k)'
    BY <2>4 DEF EndOf
  <2> QED
    BY <2>3, <2>4, <2>5 DEF CursorBehind
<1>17. DataInARow'
  <2>1. ~(Len(data') > 0) /\ 1 .. Len(data') - 1 = {}
    BY <1>1, <1>5
  <2> QED
    BY <2>1 DEF DataInARow
<1>18. Appended'
  BY <1>1, <1>2, <1>6, EmptyBuffer
<1> QED
  BY <1>1, <1>2, <1>10, <1>11, <1>14, <1>15, <1>16, <1>17, <1>18, SameFile DEF IInv, LayoutInv, InARow

LEMMA PlaceDataStep ==
  ASSUME IInv, PlaceData
  PROVE  IInv'
<1> DEFINE n == Len(data)
           length == file[NumGroups + n + 1].bytes
<1>1. WellFormed(file) /\ Progress /\ AsMeasured /\ InARow
  BY DEF IInv, LayoutInv
<1>2. /\ sizes \in Seq(Nat) /\ addr \in Seq(Nat) /\ data \in Seq(Nat)
      /\ n \in Nat /\ Len(file) \in Nat /\ Len(file) >= 1 /\ Objects = 1 .. Len(file) /\ NumDatasets \in Nat
      /\ NumGroups \in 1 .. Len(file) /\ NumDatasets = Len(file) - NumGroups /\ cursor \in Nat
      /\ Cardinality(Datasets) = NumDatasets /\ Cardinality(Groups) = NumGroups
      /\ Datasets = NumGroups + 1 .. Len(file)
  BY <1>1, NumberTypes DEF Progress
<1>3. /\ Len(addr) = Len(file) /\ n < NumDatasets
      /\ data' = Append(data, cursor)
      /\ cursor' = cursor + length
      /\ UNCHANGED <<file, failed, sizes, addr, heap, len, blocks, emitted>>
  BY <1>2 DEF PlaceData
<1>4. ~Placed
  BY <1>2, <1>3 DEF Placed
<1>5. len = 0 /\ emitted = 0 /\ DOMAIN blocks = {}
  BY <1>4, NothingYet
<1>6. length \in Nat
  <2>4. Len(addr) > 0
    BY <1>2, <1>3
  <2>1. Len(sizes) > 0
    BY <1>1, <1>2, <2>4 DEF Progress
  <2>3. Complete
    BY <1>1, <2>1 DEF Progress
  <2>2. NumGroups + n + 1 \in Datasets /\ NumGroups + n + 1 \in Objects
    <3>1. PICK g, k, l : g = NumGroups /\ k = n /\ l = Len(file)
      OBVIOUS
    <3>2. g \in 1 .. l /\ l \in Nat /\ k \in Nat /\ k < l - g
      BY <1>2, <1>3, <3>1
    <3>3. g + k + 1 \in g + 1 .. l /\ g + k + 1 \in 1 .. l
      BY <3>2
    <3> QED
      BY <1>2, <3>1, <3>3, Zenon
  <2> QED
    BY <1>1, <2>2, <2>3, FileTypes DEF Complete
<1> HIDE DEF length
<1>7. /\ data' \in Seq(Nat) /\ Len(data') = n + 1 /\ data'[n + 1] = cursor
      /\ \A i \in 1 .. n : data'[i] = data[i]
      /\ cursor' \in Nat
  BY <1>2, <1>3, <1>6
<1>8. /\ Complete' = Complete /\ NumDatasets' = NumDatasets /\ NumGroups' = NumGroups
      /\ \A i : Measured(i)' = Measured(i) /\ Dense(i)' = Dense(i) /\ EndOf(i)' = EndOf(i)
  BY <1>3, SameFile, SameEnd
<1>9. Progress'
  <2>1. n + 1 <= NumDatasets
    BY <1>2, <1>3
  <2>2. Complete' = Complete /\ NumDatasets' = NumDatasets
    BY <1>8
  <2> QED
    BY <1>1, <1>3, <1>5, <1>7, <2>1, <2>2 DEF Progress
<1>10. AsMeasured'
  BY <1>1, <1>3, <1>8 DEF AsMeasured
<1>11. HeadersInARow' /\ HeapsBehind'
  BY <1>1, <1>3, <1>8 DEF InARow, HeadersInARow, HeapsBehind
<1>12. cursor = IF n > 0 THEN data[n] + file[NumGroups + n].bytes ELSE EndOf(Len(file))
  <2>1. Len(addr) > 0
    BY <1>2, <1>3
  <2> QED
    BY <1>1, <1>3, <2>1 DEF InARow, CursorBehind
<1>13. DataInARow'
  <2>1. data'[1] = EndOf(Len(file))
    <3>1. CASE n > 0
      <4>1. data[1] = EndOf(Len(file))
        BY <1>1, <3>1 DEF InARow, DataInARow
      <4> QED
        BY <1>2, <1>7, <3>1, <4>1
    <3>2. CASE n = 0
      BY <1>7, <1>12, <3>2
    <3> QED
      BY <1>2, <3>1, <3>2
  <2>2. ASSUME NEW j \in 1 .. n PROVE data'[j + 1] = data'[j] + file[NumGroups + j].bytes
    <3>1. CASE j = n
      BY <1>2, <1>7, <1>12, <3>1
    <3>2. CASE j # n
      <4>1. j \in 1 .. n - 1 /\ j + 1 \in 1 .. n
        BY <1>2, <3>2
      <4>2. data[j + 1] = data[j] + file[NumGroups + j].bytes
        BY <1>1, <4>1 DEF InARow, DataInARow
      <4> QED
        BY <1>7, <4>1, <4>2
    <3> QED
      BY <3>1, <3>2
  <2>3. Len(data') - 1 = n
    BY <1>2, <1>7
  <2> QED
    BY <1>3, <1>8, <2>1, <2>2, <2>3 DEF DataInARow
<1>14. CursorBehind'
  <2>1. Len(data') = n + 1 /\ n + 1 > 0 /\ NumGroups + (n + 1) = NumGroups + n + 1
    BY <1>2, <1>7
  <2> QED
    BY <1>3, <1>7, <1>8, <2>1 DEF CursorBehind, length
<1>15. Appended'
  BY <1>1, <1>3, <1>5, EmptyBuffer
<1> QED
  BY <1>1, <1>3, <1>9, <1>10, <1>11, <1>13, <1>14, <1>15, SameFile DEF IInv, LayoutInv, InARow

Below(bs, a) == \A x \in DOMAIN bs : x \in Nat /\ x < a

\* new is bs with the heap of object o, built for address a and put there.
HeapAdded(new, bs, a, o) ==
  LET block == a + HeapHeaderLen
      tree == block + HeapBlockLen(o)
      attributes == DOMAIN file[o].attrs
  IN /\ \A x \in DOMAIN bs : x \in DOMAIN new /\ new[x] = bs[x]
     /\ Below(new, a + HeapLen(o))
     /\ a \in DOMAIN new /\ new[a] = [kind |-> "FRHP", block |-> block]
     /\ block \in DOMAIN new
     /\ new[block] = [kind |-> "FHDB", header |-> a,
                      objects |-> [i \in attributes |->
                        [offset |-> AttributeOffset(o, i), length |-> file[o].attrs[i] + 1]]]
     /\ tree \in DOMAIN new /\ new[tree] = [kind |-> "BTHD", leaf |-> tree + TreeHeaderLen]
     /\ tree + TreeHeaderLen \in DOMAIN new
     /\ new[tree + TreeHeaderLen] = [kind |-> "BTLF", records |-> [i \in attributes |-> ManagedId(o, i)]]

\* A heap built for the place it is put at overwrites nothing and is all there.
LEMMA WithHeapLemma ==
  ASSUME WellFormed(file), NEW o \in Objects, Dense(o), NEW a \in Nat,
         NEW bs, Below(bs, a),
         NEW new, new = WithHeap(bs, a, o, a)
  PROVE  HeapAdded(new, bs, a, o)
<1> DEFINE block == a + HeapHeaderLen
           tree == block + HeapBlockLen(o)
           leaf == tree + TreeHeaderLen
           attributes == DOMAIN file[o].attrs
           frhp == [kind |-> "FRHP", block |-> block]
           fhdb == [kind |-> "FHDB", header |-> a,
                    objects |-> [i \in attributes |->
                      [offset |-> AttributeOffset(o, i), length |-> file[o].attrs[i] + 1]]]
           bthd == [kind |-> "BTHD", leaf |-> tree + TreeHeaderLen]
           btlf == [kind |-> "BTLF", records |-> [i \in attributes |-> ManagedId(o, i)]]
           w1 == With(bs, a, frhp)
           w2 == With(w1, block, fhdb)
           w3 == With(w2, tree, bthd)
           w4 == With(w3, leaf, btlf)
<1>1. /\ HeapBlockLen(o) \in Nat /\ HeapBlockLen(o) > 0 /\ LeafLen(o) \in Nat /\ LeafLen(o) > 0
      /\ HeapLen(o) = HeapHeaderLen + HeapBlockLen(o) + TreeHeaderLen + LeafLen(o)
      /\ HeapHeaderLen = 146 /\ TreeHeaderLen = 38
  BY HeapTypes DEF HeapHeaderLen, TreeHeaderLen
<1>2. /\ block \in Nat /\ tree \in Nat /\ leaf \in Nat
      /\ a < block /\ block < tree /\ tree < leaf /\ leaf < a + HeapLen(o)
  BY <1>1
<1>3. block + (a - a) = block /\ tree + (a - a) = tree /\ tree + (a - a) + TreeHeaderLen = leaf
  BY <1>1, <1>2
<1>4. new = w4
  <2>1. new = With(With(With(With(bs, a, frhp), block + (a - a), fhdb), tree + (a - a), bthd),
                   tree + (a - a) + TreeHeaderLen, btlf)
    BY DEF WithHeap
  <2> QED
    BY <1>3, <2>1
<1> HIDE DEF block, tree, leaf, frhp, fhdb, bthd, btlf
<1>5. /\ DOMAIN w1 = DOMAIN bs \cup {a} /\ w1[a] = frhp
      /\ \A x \in DOMAIN bs : x # a => w1[x] = bs[x]
  BY DEF With
<1> HIDE DEF w1
<1>6. /\ DOMAIN w2 = DOMAIN w1 \cup {block} /\ w2[block] = fhdb
      /\ \A x \in DOMAIN w1 : x # block => w2[x] = w1[x]
  BY DEF With
<1> HIDE DEF w2
<1>7. /\ DOMAIN w3 = DOMAIN w2 \cup {tree} /\ w3[tree] = bthd
      /\ \A x \in DOMAIN w2 : x # tree => w3[x] = w2[x]
  BY DEF With
<1> HIDE DEF w3
<1>8. /\ DOMAIN w4 = DOMAIN w3 \cup {leaf} /\ w4[leaf] = btlf
      /\ \A x \in DOMAIN w3 : x # leaf => w4[x] = w3[x]
  BY DEF With
<1> HIDE DEF w4
<1>9. DOMAIN w4 = DOMAIN bs \cup {a, block, tree, leaf}
  BY <1>5, <1>6, <1>7, <1>8
<1>10. w4[a] = frhp /\ w4[block] = fhdb /\ w4[tree] = bthd /\ w4[leaf] = btlf
  BY <1>2, <1>5, <1>6, <1>7, <1>8
<1>11. ASSUME NEW x \in DOMAIN bs PROVE x \in DOMAIN w4 /\ w4[x] = bs[x]
  <2>1. x \in Nat /\ x < a
    BY DEF Below
  <2>2. x # a /\ x # block /\ x # tree /\ x # leaf
    BY <1>2, <2>1
  <2> QED
    BY <1>5, <1>6, <1>7, <1>8, <2>2
<1>12. ASSUME NEW x \in DOMAIN w4 PROVE x \in Nat /\ x < a + HeapLen(o)
  <2>1. CASE x \in DOMAIN bs
    <3>1. x \in Nat /\ x < a
      BY <2>1 DEF Below
    <3> QED
      BY <1>1, <3>1
  <2>2. CASE x \in {a, block, tree, leaf}
    BY <1>1, <1>2, <2>2
  <2> QED
    BY <1>9, <2>1, <2>2
<1>13. a \in DOMAIN w4 /\ block \in DOMAIN w4 /\ tree \in DOMAIN w4 /\ leaf \in DOMAIN w4
  BY <1>9
<1> QED
  BY <1>4, <1>10, <1>11, <1>12, <1>13 DEF HeapAdded, Below, block, tree, leaf, frhp, fhdb, bthd, btlf

LEMMA EmitSuperblockStep ==
  ASSUME IInv, EmitSuperblock
  PROVE  IInv'
<1> DEFINE superblock == [kind |-> "superblock", root |-> SuperblockSize, eof |-> cursor]
<1>1. WellFormed(file) /\ Progress /\ AsMeasured /\ InARow /\ Appended
  BY DEF IInv, LayoutInv
<1>2. /\ Len(file) \in Nat /\ Len(file) >= 1 /\ NumDatasets \in Nat
      /\ Cardinality(Datasets) = NumDatasets
  BY <1>1, NumberTypes
<1>3. /\ len = 0 /\ Len(addr) = Len(file) /\ Len(data) = NumDatasets
      /\ blocks' = With(blocks, 0, superblock)
      /\ len' = SuperblockSize /\ SuperblockSize = 48
      /\ UNCHANGED <<file, failed, sizes, cursor, addr, heap, data, emitted>>
  BY <1>2 DEF EmitSuperblock, Placed, SuperblockSize
<1>4. emitted = 0
  BY <1>1, <1>2, <1>3 DEF Progress
<1>5. DOMAIN blocks = {}
  <2>1. \A a \in DOMAIN blocks : a \in Nat /\ a < len
    BY <1>1 DEF Appended
  <2>2. \A a : a \notin DOMAIN blocks
    BY <1>3, <2>1
  <2> QED
    BY <2>2, Zenon
<1>6. DOMAIN blocks' = {0} /\ blocks'[0] = superblock
  BY <1>3, <1>5 DEF With
<1>7. /\ Complete' = Complete /\ NumDatasets' = NumDatasets /\ NumGroups' = NumGroups
      /\ \A i : Measured(i)' = Measured(i) /\ Dense(i)' = Dense(i) /\ EndOf(i)' = EndOf(i)
  BY <1>3, SameFile, SameEnd
<1>8. Progress'
  BY <1>1, <1>3, <1>4, <1>7 DEF Progress
<1>9. AsMeasured' /\ InARow'
  BY <1>1, <1>3, <1>7 DEF AsMeasured, InARow, HeadersInARow, HeapsBehind, DataInARow, CursorBehind
<1>10. Appended'
  <2>1. NextAddress' = SuperblockSize
    <3>1. addr[1] = SuperblockSize
      BY <1>1, <1>2, <1>3 DEF InARow, HeadersInARow
    <3> QED
      BY <1>2, <1>3, <1>4, <3>1 DEF NextAddress
  <2>2. Holds(0, superblock)'
    BY <1>3, <1>6 DEF Holds
  <2>3. \A a \in DOMAIN blocks' : a \in Nat /\ a < len'
    BY <1>3, <1>6
  <2>4. \A i \in 1 .. Len(file) : ~(i <= emitted)
    BY <1>4
  <2>5. \A j \in 1 .. NumDatasets : ~(Len(file) + j <= emitted)
    BY <1>2, <1>4
  <2> QED
    BY <1>3, <1>7, <2>1, <2>2, <2>3, <2>4, <2>5 DEF Appended
<1> QED
  BY <1>1, <1>3, <1>8, <1>9, <1>10, SameFile DEF IInv, LayoutInv

\* What is in the buffer stays there when no address below its end is written.
LEMMA KeptBlocks ==
  ASSUME UNCHANGED <<file, addr, heap, data>>,
         \A x \in DOMAIN blocks : x \in DOMAIN blocks' /\ blocks'[x] = blocks[x]
  PROVE  /\ \A a, b : Holds(a, b) => Holds(a, b)'
         /\ \A o : Holds(addr[o], Header(o)) => Holds(addr[o], Header(o))'
         /\ \A o : HeapThere(o) => HeapThere(o)'
<1>1. \A a, b : Holds(a, b) => Holds(a, b)'
  BY DEF Holds
<1>2. ASSUME NEW o, Holds(addr[o], Header(o)) PROVE Holds(addr[o], Header(o))'
  <2>1. Header(o)' = Header(o)
    BY SameHeader
  <2> QED
    BY <1>2, <2>1 DEF Holds
<1>3. \A o : HeapThere(o) => HeapThere(o)'
  BY SameHeap
<1> QED
  BY <1>1, <1>2, <1>3

LEMMA EmitHeaderStep ==
  ASSUME IInv, EmitHeader
  PROVE  IInv'
<1>1. WellFormed(file) /\ Progress /\ AsMeasured /\ InARow /\ Appended
  BY DEF IInv, LayoutInv
<1>2. /\ Len(file) \in Nat /\ Len(file) >= 1 /\ NumDatasets \in Nat /\ Objects = 1 .. Len(file)
      /\ emitted \in Nat /\ len \in Nat
  BY <1>1, NumberTypes DEF Progress
<1>3. len >= 48 /\ len > 0 /\ emitted < Len(file)
  BY <1>2 DEF EmitHeader, SuperblockSize
<1>4. Len(addr) = Len(file) /\ Len(data) = NumDatasets
  BY <1>1, <1>3 DEF Progress
<1>5. PICK o : o = emitted + 1
  OBVIOUS
<1>6. PICK end : end = len + Measured(o)
  OBVIOUS
<1> DEFINE done == With(blocks, len, Header(o))
<1>7. /\ blocks' = IF Dense(o) THEN WithHeap(done, end, o, heap[o]) ELSE done
      /\ len' = IF Dense(o) THEN end + HeapLen(o) ELSE end
      /\ emitted' = o
      /\ UNCHANGED <<file, failed, sizes, cursor, addr, heap, data>>
  BY <1>5, <1>6 DEF EmitHeader, Measured
<1>8. o \in Objects /\ o \in 1 .. Len(addr) /\ Measured(o) \in Nat /\ Measured(o) > 0
  <2>1. o \in Objects /\ o \in 1 .. Len(addr)
    BY <1>2, <1>3, <1>4, <1>5
  <2> QED
    BY <1>1, <2>1, MeasuredType
<1>9. len = addr[o]
  <2>1. len = NextAddress
    BY <1>1, <1>3 DEF Appended
  <2> QED
    BY <1>3, <1>5, <2>1 DEF NextAddress
<1>10. Dense(o) => heap[o] = end
  BY <1>1, <1>6, <1>8, <1>9 DEF InARow, HeapsBehind
<1>11. \A x \in DOMAIN blocks : x \in Nat /\ x < len
  BY <1>1 DEF Appended
<1>12. /\ DOMAIN done = DOMAIN blocks \cup {len} /\ done[len] = Header(o)
       /\ \A x \in DOMAIN blocks : x # len => done[x] = blocks[x]
  BY DEF With
<1> HIDE DEF done
<1>13. end \in Nat /\ Below(done, end)
  BY <1>2, <1>6, <1>8, <1>11, <1>12 DEF Below
<1>14. /\ \A x \in DOMAIN done : x \in DOMAIN blocks' /\ blocks'[x] = done[x]
       /\ \A x \in DOMAIN blocks' : x \in Nat /\ x < len'
       /\ len' \in Nat /\ len' >= len
       /\ Dense(o) => HeapThere(o)'
  <2>1. CASE Dense(o)
    <3>1. blocks' = WithHeap(done, end, o, end) /\ len' = end + HeapLen(o) /\ HeapLen(o) \in Nat
      BY <1>1, <1>7, <1>8, <1>10, <2>1, HeapTypes
    <3>2. HeapAdded(blocks', done, end, o)
      BY <1>1, <1>8, <1>13, <2>1, <3>1, WithHeapLemma
    <3>3. HeapThere(o)'
      <4>1. /\ HeapBlockLen(o)' = HeapBlockLen(o)
            /\ \A i : AttributeOffset(o, i)' = AttributeOffset(o, i) /\ ManagedId(o, i)' = ManagedId(o, i)
        BY <1>7, SameFile
      <4>2. heap'[o] = end
        BY <1>7, <1>10, <2>1
      <4> QED
        BY <1>7, <3>2, <4>1, <4>2 DEF HeapThere, Holds, HeapAdded
    <3>4. len' \in Nat /\ len' >= len
      BY <1>2, <1>6, <1>8, <1>13, <3>1
    <3> QED
      BY <3>1, <3>2, <3>3, <3>4 DEF HeapAdded, Below
  <2>2. CASE ~Dense(o)
    BY <1>2, <1>6, <1>7, <1>8, <1>13, <2>2 DEF Below
  <2> QED
    BY <2>1, <2>2
<1>15. /\ \A x \in DOMAIN blocks : x \in DOMAIN blocks' /\ blocks'[x] = blocks[x]
       /\ len \in DOMAIN blocks' /\ blocks'[len] = Header(o)
  <2>1. ASSUME NEW x \in DOMAIN blocks PROVE x \in DOMAIN blocks' /\ blocks'[x] = blocks[x]
    <3>1. x # len /\ x \in DOMAIN done
      BY <1>2, <1>11, <1>12
    <3> QED
      BY <1>12, <1>14, <3>1
  <2> QED
    BY <2>1, <1>12, <1>14
<1>16. /\ Complete' = Complete /\ NumDatasets' = NumDatasets /\ NumGroups' = NumGroups
       /\ \A i : Measured(i)' = Measured(i) /\ Dense(i)' = Dense(i) /\ EndOf(i)' = EndOf(i)
  BY <1>7, SameFile, SameEnd
<1>17. Progress'
  <2>1. o \in 0 .. Len(file) + NumDatasets /\ len' > 0 /\ len' >= 48
    BY <1>2, <1>3, <1>8, <1>14
  <2> QED
    BY <1>1, <1>4, <1>7, <1>14, <1>16, <2>1 DEF Progress, SuperblockSize
<1>18. AsMeasured' /\ InARow'
  BY <1>1, <1>7, <1>16 DEF AsMeasured, InARow, HeadersInARow, HeapsBehind, DataInARow, CursorBehind
<1>19. len' = NextAddress'
  <2>1. len' = EndOf(o)
    <3>1. Dense(o) => HeapLen(o) \in Nat
      BY <1>1, <1>8, HeapTypes
    <3> QED
      BY <1>2, <1>6, <1>7, <1>8, <1>9, <3>1 DEF EndOf
  <2>2. CASE o < Len(file)
    <3>1. o \in 1 .. Len(addr) - 1
      BY <1>2, <1>4, <1>8, <2>2
    <3>2. addr[o + 1] = EndOf(o)
      BY <1>1, <3>1 DEF InARow, HeadersInARow
    <3> QED
      BY <1>7, <2>1, <2>2, <3>2 DEF NextAddress
  <2>3. CASE o = Len(file) /\ NumDatasets > 0
    <3>1. data[1] = EndOf(Len(file))
      BY <1>1, <1>4, <2>3 DEF InARow, DataInARow
    <3>2. ~(o < Len(file)) /\ o < Len(file) + NumDatasets /\ o - Len(file) + 1 = 1
      BY <1>2, <2>3
    <3> QED
      BY <1>7, <1>16, <2>1, <2>3, <3>1, <3>2 DEF NextAddress
  <2>4. CASE o = Len(file) /\ NumDatasets = 0
    <3>1. ~(Len(data) > 0) /\ Len(addr) > 0
      BY <1>2, <1>4, <2>4
    <3>2. cursor = EndOf(Len(file))
      BY <1>1, <1>4, <3>1 DEF InARow, CursorBehind
    <3>3. ~(o < Len(file)) /\ ~(o < Len(file) + NumDatasets)
      BY <1>2, <2>4
    <3> QED
      BY <1>7, <1>16, <2>1, <2>4, <3>2, <3>3 DEF NextAddress
  <2> QED
    BY <1>2, <1>8, <2>2, <2>3, <2>4
<1>20. Appended'
  <2> DEFINE superblock == [kind |-> "superblock", root |-> SuperblockSize, eof |-> cursor]
  <2>1. Holds(0, superblock)'
    <3>1. Holds(0, superblock)
      BY <1>1, <1>3 DEF Appended
    <3> QED
      BY <1>7, <1>15, <3>1 DEF Holds
  <2>2. ASSUME NEW i \in 1 .. Len(file), i <= o
        PROVE  Holds(addr[i], Header(i))' /\ (Dense(i) => HeapThere(i)')
    <3>1. CASE i = o
      <4>1. Header(o)' = Header(o)
        BY <1>7, SameHeader
      <4>2. Holds(addr[o], Header(o))'
        BY <1>7, <1>9, <1>15, <4>1 DEF Holds
      <4> QED
        BY <1>14, <3>1, <4>2
    <3>2. CASE i # o
      <4>1. i <= emitted
        BY <1>2, <1>5, <2>2, <3>2
      <4>2. Holds(addr[i], Header(i)) /\ (Dense(i) => HeapThere(i))
        BY <1>1, <4>1 DEF Appended
      <4> QED
        BY <1>7, <1>15, <4>2, KeptBlocks
    <3> QED
      BY <3>1, <3>2
  <2>3. \A j \in 1 .. NumDatasets : ~(Len(file) + j <= o)
    BY <1>2, <1>8
  <2> QED
    BY <1>7, <1>14, <1>16, <1>19, <2>1, <2>2, <2>3 DEF Appended
<1> QED
  BY <1>1, <1>7, <1>17, <1>18, <1>20, SameFile DEF IInv, LayoutInv

LEMMA EmitDataStep ==
  ASSUME IInv, EmitData
  PROVE  IInv'
<1>1. WellFormed(file) /\ Progress /\ AsMeasured /\ InARow /\ Appended
  BY DEF IInv, LayoutInv
<1>2. /\ Len(file) \in Nat /\ Len(file) >= 1 /\ NumDatasets \in Nat /\ NumGroups \in 1 .. Len(file)
      /\ NumDatasets = Len(file) - NumGroups
      /\ Objects = 1 .. Len(file) /\ Datasets = NumGroups + 1 .. Len(file)
      /\ Cardinality(Groups) = NumGroups /\ Cardinality(Datasets) = NumDatasets
      /\ emitted \in Nat /\ len \in Nat
  BY <1>1, NumberTypes DEF Progress
<1>3. PICK j : j = emitted - Len(file) + 1
  OBVIOUS
<1>4. PICK o : o = NumGroups + j
  OBVIOUS
<1>5. emitted >= Len(file) /\ emitted < Len(file) + NumDatasets
  BY <1>2 DEF EmitData
<1>6. j \in 1 .. NumDatasets /\ o \in Datasets /\ o \in Objects
  BY <1>2, <1>3, <1>4, <1>5
<1>7. /\ blocks' = IF file[o].bytes = 0 THEN blocks
                   ELSE With(blocks, len, [kind |-> "data", object |-> o])
      /\ len' = len + file[o].bytes
      /\ emitted' = emitted + 1
      /\ UNCHANGED <<file, failed, sizes, cursor, addr, heap, data>>
  <2>1. o = Cardinality(Groups) + emitted - Len(file) + 1
    BY <1>2, <1>3, <1>4
  <2> QED
    BY <2>1 DEF EmitData
<1>8. emitted > 0 /\ len > 0
  <2>1. emitted > 0
    BY <1>2, <1>5
  <2> QED
    BY <1>1, <2>1 DEF Progress
<1>9. len >= 48 /\ Len(addr) = Len(file) /\ Len(data) = NumDatasets
  BY <1>1, <1>8 DEF Progress, SuperblockSize
<1>10. file[o].bytes \in Nat
  <2>1. Len(addr) > 0
    BY <1>2, <1>9
  <2>2. Len(sizes) > 0
    BY <1>1, <1>2, <1>9, <2>1 DEF Progress
  <2>3. Complete
    BY <1>1, <2>2 DEF Progress
  <2> QED
    BY <1>1, <1>6, <2>3, FileTypes DEF Complete
<1>11. len = data[j]
  <2>1. len = NextAddress /\ ~(emitted < Len(file))
    BY <1>1, <1>2, <1>5, <1>8 DEF Appended
  <2> QED
    BY <1>3, <1>5, <2>1 DEF NextAddress
<1>12. \A x \in DOMAIN blocks : x \in Nat /\ x < len
  BY <1>1 DEF Appended
<1>13. /\ \A x \in DOMAIN blocks : x \in DOMAIN blocks' /\ blocks'[x] = blocks[x]
       /\ \A x \in DOMAIN blocks' : x \in Nat /\ x < len'
       /\ file[o].bytes # 0 => len \in DOMAIN blocks' /\ blocks'[len] = [kind |-> "data", object |-> o]
  <2>1. CASE file[o].bytes = 0
    BY <1>2, <1>7, <1>12, <2>1
  <2>2. CASE file[o].bytes # 0
    <3>1. /\ DOMAIN blocks' = DOMAIN blocks \cup {len} /\ blocks'[len] = [kind |-> "data", object |-> o]
          /\ \A x \in DOMAIN blocks : x # len => blocks'[x] = blocks[x]
      BY <1>7, <2>2 DEF With
    <3>2. len' > len /\ len' \in Nat
      BY <1>2, <1>7, <1>10, <2>2
    <3> QED
      BY <1>2, <1>12, <3>1, <3>2
  <2> QED
    BY <2>1, <2>2
<1>14. /\ Complete' = Complete /\ NumDatasets' = NumDatasets /\ NumGroups' = NumGroups
       /\ \A i : Measured(i)' = Measured(i) /\ Dense(i)' = Dense(i) /\ EndOf(i)' = EndOf(i)
  BY <1>7, SameFile, SameEnd
<1>15. Progress'
  <2>1. /\ emitted + 1 \in 0 .. Len(file) + NumDatasets /\ len' \in Nat /\ len' > 0 /\ len' >= 48
    <3>1. PICK e, l, nd, x, y : e = emitted /\ l = Len(file) /\ nd = NumDatasets /\ x = len /\ y = file[o].bytes
      OBVIOUS
    <3>2. e + 1 \in 0 .. l + nd
      BY <1>2, <1>5, <3>1
    <3>3. len' = x + y /\ x \in Nat /\ x >= 48 /\ y \in Nat
      BY <1>2, <1>7, <1>9, <1>10, <3>1
    <3>4. x + y \in Nat /\ x + y > 0 /\ x + y >= 48
      BY <3>3
    <3> QED
      BY <3>1, <3>2, <3>3, <3>4, Zenon
  <2>2. /\ sizes' = sizes /\ addr' = addr /\ heap' = heap /\ data' = data /\ cursor' = cursor
        /\ Len(file') = Len(file) /\ emitted' = emitted + 1
    BY <1>7
  <2>3. /\ sizes \in Seq(Nat) /\ Len(sizes) <= Len(file) /\ (Len(sizes) > 0 => Complete)
        /\ addr \in Seq(Nat) /\ (Len(addr) > 0 => Len(sizes) = Len(file))
        /\ heap \in Seq(Nat \cup {Undefined}) /\ Len(heap) = Len(addr) /\ data \in Seq(Nat)
        /\ cursor \in Nat
    BY <1>1 DEF Progress
  <2>4. /\ (sizes \in Seq(Nat))' /\ (Len(sizes) <= Len(file))' /\ (Len(sizes) > 0 => Complete)'
        /\ (addr \in Seq(Nat))' /\ (Len(addr) > 0 => Len(sizes) = Len(file))'
        /\ (heap \in Seq(Nat \cup {Undefined}))' /\ (Len(heap) = Len(addr))' /\ (data \in Seq(Nat))'
        /\ (cursor \in Nat)'
    BY <1>14, <2>2, <2>3, Zenon
  <2>5. (Len(addr) = Len(file))' /\ (Len(data) = NumDatasets)'
    BY <1>9, <1>14, <2>2, Zenon
  <2>6. (Len(addr) <= Len(file))' /\ (Len(data) <= NumDatasets)'
    BY <1>2, <1>9, <1>14, <2>2
  <2>7. (emitted \in 0 .. Len(file) + NumDatasets)'
    BY <1>14, <2>1, <2>2, Zenon
  <2>8. (len \in Nat)' /\ (len > 0)' /\ (len >= SuperblockSize)'
    BY <2>1, Zenon DEF SuperblockSize
  <2> QED
    BY <2>4, <2>5, <2>6, <2>7, <2>8, Zenon DEF Progress
<1>16. AsMeasured' /\ InARow'
  BY <1>1, <1>7, <1>14 DEF AsMeasured, InARow, HeadersInARow, HeapsBehind, DataInARow, CursorBehind
<1>17. len' = NextAddress'
  <2>1. len' = data[j] + file[NumGroups + j].bytes
    BY <1>4, <1>7, <1>11
  <2>2. CASE j < NumDatasets
    <3>1. j \in 1 .. Len(data) - 1
      BY <1>2, <1>6, <1>9, <2>2
    <3>2. data[j + 1] = data[j] + file[NumGroups + j].bytes
      BY <1>1, <3>1 DEF InARow, DataInARow
    <3>3. /\ ~(emitted' < Len(file)) /\ emitted' < Len(file) + NumDatasets
          /\ emitted' - Len(file) + 1 = j + 1
      BY <1>2, <1>3, <1>5, <1>7, <2>2
    <3> QED
      BY <1>7, <1>14, <2>1, <3>2, <3>3 DEF NextAddress
  <2>3. CASE j = NumDatasets
    <3>1. Len(data) > 0 /\ Len(data) = j
      BY <1>6, <1>9, <2>3
    <3>2. cursor = data[j] + file[NumGroups + j].bytes
      BY <1>1, <3>1 DEF InARow, CursorBehind
    <3>3. ~(emitted + 1 < Len(file)) /\ ~(emitted + 1 < Len(file) + NumDatasets)
      BY <1>2, <1>3, <1>5, <2>3
    <3> QED
      BY <1>7, <1>14, <2>1, <3>2, <3>3 DEF NextAddress
  <2> QED
    BY <1>2, <1>6, <2>2, <2>3
<1>18. Appended'
  <2> DEFINE superblock == [kind |-> "superblock", root |-> SuperblockSize, eof |-> cursor]
  <2>1. Holds(0, superblock)'
    <3>1. Holds(0, superblock)
      BY <1>1, <1>8 DEF Appended
    <3> QED
      BY <1>7, <1>13, <3>1 DEF Holds
  <2>2. ASSUME NEW i \in 1 .. Len(file)
        PROVE  Holds(addr[i], Header(i))' /\ (Dense(i) => HeapThere(i)')
    <3>1. i <= emitted
      BY <1>2, <1>5
    <3>2. Holds(addr[i], Header(i)) /\ (Dense(i) => HeapThere(i))
      BY <1>1, <3>1 DEF Appended
    <3> QED
      BY <1>7, <1>13, <3>2, KeptBlocks
  <2>3. ASSUME NEW k \in 1 .. NumDatasets, Len(file) + k <= emitted + 1, file[NumGroups + k].bytes # 0
        PROVE  Holds(data[k], [kind |-> "data", object |-> NumGroups + k])'
    <3>1. CASE k = j
      <4>1. data'[k] = len /\ NumGroups' + k = o /\ file[o].bytes # 0
        BY <1>4, <1>7, <1>11, <1>14, <2>3, <3>1
      <4> QED
        BY <1>13, <4>1 DEF Holds
    <3>2. CASE k # j
      <4>1. Len(file) + k <= emitted
        BY <1>2, <1>3, <2>3, <3>2
      <4>2. Holds(data[k], [kind |-> "data", object |-> NumGroups + k])
        BY <1>1, <2>3, <4>1 DEF Appended
      <4> QED
        BY <1>7, <1>13, <1>14, <4>2 DEF Holds
    <3> QED
      BY <3>1, <3>2
  <2> QED
    BY <1>7, <1>13, <1>14, <1>17, <2>1, <2>2, <2>3 DEF Appended
<1> QED
  BY <1>1, <1>7, <1>15, <1>16, <1>18, SameFile DEF IInv, LayoutInv

LEMMA NextStep ==
  ASSUME IInv, [Next]_vars
  PROVE  IInv'
<1>1. CASE UNCHANGED vars
  BY <1>1, Unmoved DEF vars
<1> QED
  BY <1>1, RejectStep, MeasureStep, PlaceHeaderStep, PlaceDataStep,
     EmitSuperblockStep, EmitHeaderStep, EmitDataStep DEF Next

\* Nothing has been done about the file.
Untouched ==
  /\ sizes = << >> /\ cursor = SuperblockSize
  /\ addr = << >> /\ heap = << >> /\ data = << >>
  /\ len = 0 /\ blocks = << >> /\ emitted = 0

LEMMA UntouchedInv ==
  ASSUME WellFormed(file), Untouched
  PROVE  IInv
<1>1. Len(file) \in Nat /\ Len(file) >= 1 /\ NumDatasets \in Nat
  BY NumberTypes
<1>2. Progress
  BY <1>1 DEF Progress, Untouched, SuperblockSize
<1>3. AsMeasured /\ InARow
  BY DEF Untouched, AsMeasured, InARow, HeadersInARow, HeapsBehind, DataInARow, CursorBehind
<1>4. Appended
  BY <1>1 DEF Untouched, Appended
<1> QED
  BY <1>2, <1>3, <1>4 DEF IInv, LayoutInv

LEMMA InitInv == Init => IInv
BY FileAssumption, UntouchedInv DEF Init, Called, Untouched

LEMMA AddressesFollow == IInv => AddressesHold
<1> SUFFICES ASSUME IInv, Written PROVE AddressesHold
  BY DEF AddressesHold
<1>1. WellFormed(file) /\ Progress /\ InARow /\ Appended
  BY DEF IInv, LayoutInv
<1>2. /\ Len(file) \in Nat /\ NumDatasets \in Nat /\ NumGroups \in 1 .. Len(file)
      /\ NumDatasets = Len(file) - NumGroups
      /\ Objects = 1 .. Len(file) /\ Datasets = NumGroups + 1 .. Len(file)
      /\ Cardinality(Groups) = NumGroups /\ Cardinality(Datasets) = NumDatasets
  BY <1>1, NumberTypes
<1>3. len > 0 /\ emitted = Len(file) + NumDatasets /\ Len(addr) = Len(file)
  BY <1>1, <1>2 DEF Written, Progress
<1>4. ASSUME NEW o \in Objects
      PROVE  Holds(addr[o], Header(o)) /\ (Dense(o) => HeapThere(o))
  <2>1. o \in 1 .. Len(file) /\ o <= emitted
    BY <1>2, <1>3
  <2> QED
    BY <1>1, <2>1 DEF Appended
<1>5. ASSUME NEW o \in Objects PROVE IsAt(addr[o], "header") /\ blocks[addr[o]].object = o
  <2>1. Holds(addr[o], Header(o))
    BY <1>4
  <2> QED
    BY <2>1 DEF Holds, IsAt, Header
<1>6. ASSUME NEW o \in Objects, heap[o] # Undefined
      PROVE  /\ IsAt(heap[o], "FRHP")
             /\ IsAt(blocks[heap[o]].block, "FHDB")
             /\ blocks[blocks[heap[o]].block].header = heap[o]
             /\ IsAt(blocks[addr[o]].tree, "BTHD")
             /\ IsAt(blocks[blocks[addr[o]].tree].leaf, "BTLF")
  <2>1. Dense(o)
    BY <1>1, <1>2, <1>3, <1>6 DEF InARow, HeapsBehind
  <2> DEFINE block == heap[o] + HeapHeaderLen
             tree == block + HeapBlockLen(o)
  <2>2. /\ heap[o] \in DOMAIN blocks /\ blocks[heap[o]].kind = "FRHP" /\ blocks[heap[o]].block = block
        /\ block \in DOMAIN blocks /\ blocks[block].kind = "FHDB" /\ blocks[block].header = heap[o]
        /\ tree \in DOMAIN blocks /\ blocks[tree].kind = "BTHD" /\ blocks[tree].leaf = tree + TreeHeaderLen
        /\ tree + TreeHeaderLen \in DOMAIN blocks /\ blocks[tree + TreeHeaderLen].kind = "BTLF"
    <3>1. HeapThere(o)
      BY <1>4, <2>1
    <3> QED
      BY <3>1 DEF HeapThere, Holds
  <2>3. blocks[addr[o]].tree = tree
    <3>1. Holds(addr[o], Header(o))
      BY <1>4
    <3> QED
      BY <2>1, <3>1 DEF Holds, Header
  <2> QED
    BY <2>2, <2>3 DEF IsAt
<1>7. ASSUME NEW o \in Datasets, file[o].bytes > 0
      PROVE  IsAt(data[o - Cardinality(Groups)], "data") /\ blocks[data[o - Cardinality(Groups)]].object = o
  <2>1. PICK j : j = o - NumGroups
    OBVIOUS
  <2>2. j \in 1 .. NumDatasets /\ NumGroups + j = o /\ Len(file) + j <= emitted
    BY <1>2, <1>3, <2>1
  <2>3. file[o].bytes # 0
    BY <1>7
  <2>4. Holds(data[j], [kind |-> "data", object |-> o])
    BY <1>1, <2>2, <2>3 DEF Appended
  <2> QED
    BY <1>2, <2>1, <2>4 DEF Holds, IsAt
<1> QED
  BY <1>5, <1>6, <1>7 DEF AddressesHold

\* Whatever the file, every address finish hands out in pass 2 is, once the buffer is
\* complete, the place of what was built for it: headers, attribute heaps and their
\* parts, and data (file_writer.rs, FileWriter::finish).
THEOREM LayoutIsRight == Spec => []AddressesHold
<1>1. Init => IInv
  BY InitInv
<1>2. IInv /\ [Next]_vars => IInv'
  BY NextStep
<1>3. IInv => AddressesHold
  BY AddressesFollow
<1> QED
  BY <1>1, <1>2, <1>3, PTL DEF Spec

-------------------------------------------------------------------------------
(* Reading the file again.                                                 *)

\* Nothing in file f is too long for the two bytes its length is read from.
ObjectFits(object) ==
  /\ \A i \in DOMAIN object.own : object.own[i] < 2^16
  /\ \A i \in DOMAIN object.attrs :
       object.attrs[i] + (IF Len(object.attrs) > DenseThreshold THEN 1 ELSE 0) < 2^16

Fits(f) ==
  \A o \in DOMAIN f : ObjectFits(f[o]) /\ (o # 1 => LinkLen(f[o].name) < 2^16)

LEMMA ConcatBound ==
  ASSUME NEW a \in Seq(Nat), NEW b \in Seq(Nat),
         \A i \in DOMAIN a : a[i] < 2^16, \A i \in DOMAIN b : b[i] < 2^16
  PROVE  \A i \in DOMAIN (a \o b) : (a \o b)[i] < 2^16
<1>1. /\ DOMAIN a = 1 .. Len(a) /\ DOMAIN b = 1 .. Len(b) /\ Len(a) \in Nat /\ Len(b) \in Nat
      /\ DOMAIN (a \o b) = 1 .. Len(a) + Len(b)
      /\ \A i \in 1 .. Len(a) + Len(b) : (a \o b)[i] = IF i <= Len(a) THEN a[i] ELSE b[i - Len(a)]
  BY ConcatProperties, LenProperties
<1>2. ASSUME NEW i \in 1 .. Len(a) + Len(b) PROVE (a \o b)[i] < 2^16
  <2>1. CASE i <= Len(a)
    <3>1. i \in DOMAIN a
      BY <1>1, <2>1
    <3> QED
      BY <1>1, <2>1, <3>1
  <2>2. CASE ~(i <= Len(a))
    <3>1. i - Len(a) \in DOMAIN b
      BY <1>1, <2>2
    <3> QED
      BY <1>1, <2>2, <3>1
  <2> QED
    BY <2>1, <2>2
<1> QED
  BY <1>1, <1>2

LEMMA ShortMessages ==
  ASSUME WellFormed(file), Fits(file), NEW o \in Objects
  PROVE  \A i \in DOMAIN Messages(o, Dense(o)) : Messages(o, Dense(o))[i] < 2^16
<1> DEFINE c == Children(o)
           links == [i \in DOMAIN c |-> LinkLen(file[c[i]].name)]
           own == file[o].own
           attrs == IF Dense(o) THEN <<AttributeInfoLen>> ELSE file[o].attrs
<1>1. own \in Seq(Nat) /\ file[o].attrs \in Seq(Nat)
  BY FileTypes
<1>2. c \in Seq(Objects) /\ DOMAIN c = 1 .. Len(c) /\ Len(c) \in Nat /\ \A i \in DOMAIN c : c[i] # 1
  <2>1. /\ c \in Seq(Objects) /\ DOMAIN c = 1 .. Len(c) /\ Len(c) \in Nat
        /\ file[o].kind = "group" =>
             \A k \in Objects : (k # 1 /\ file[k].parent = o) <=> \E i \in DOMAIN c : c[i] = k
    BY ChildrenLemma, LenProperties
  <2>2. CASE file[o].kind = "group"
    BY <2>1, <2>2
  <2>3. CASE file[o].kind = "dataset"
    BY <2>1, <2>3 DEF Children
  <2> QED
    BY <2>1, <2>2, <2>3, FileTypes
<1>3. ObjectFits(file[o]) /\ \A k \in Objects : k # 1 => LinkLen(file[k].name) < 2^16
  BY DEF Fits, Objects
<1> HIDE DEF c
<1>4. links \in Seq(Nat) /\ \A i \in DOMAIN links : links[i] < 2^16
  <2>1. ASSUME NEW i \in DOMAIN c
        PROVE  LinkLen(file[c[i]].name) \in Nat /\ LinkLen(file[c[i]].name) < 2^16
    <3>1. c[i] \in Objects
      BY <1>2
    <3>2. file[c[i]].name \in DOMAIN NameLen
      BY <3>1, FileTypes
    <3>3. LinkLen(file[c[i]].name) < 2^16
      BY <1>2, <1>3, <3>1
    <3> QED
      BY <3>2, <3>3, LinkLenType
  <2>2. links \in [1 .. Len(c) -> Nat]
    BY <1>2, <2>1
  <2> QED
    BY <1>2, <2>1, <2>2
<1>5. attrs \in Seq(Nat) /\ \A i \in DOMAIN attrs : attrs[i] < 2^16
  <2>1. CASE Dense(o)
    BY <2>1 DEF AttributeInfoLen
  <2>2. CASE ~Dense(o)
    <3>1. \A i \in DOMAIN file[o].attrs : file[o].attrs[i] + 0 < 2^16
      BY <1>3, <2>2 DEF ObjectFits, Dense
    <3>2. \A i \in DOMAIN file[o].attrs : file[o].attrs[i] \in Nat
      BY <1>1
    <3> QED
      BY <1>1, <2>2, <3>1, <3>2
  <2> QED
    BY <2>1, <2>2
<1>6. \A i \in DOMAIN own : own[i] < 2^16
  BY <1>3 DEF ObjectFits
<1>7. Messages(o, Dense(o)) = (own \o links) \o attrs
  BY DEF Messages, c
<1> HIDE DEF links, own, attrs
<1>8. own \o links \in Seq(Nat) /\ \A i \in DOMAIN (own \o links) : (own \o links)[i] < 2^16
  BY <1>1, <1>4, <1>6, ConcatBound, ConcatProperties
<1> DEFINE head == own \o links
<1>9. head \in Seq(Nat) /\ \A i \in DOMAIN head : head[i] < 2^16
  BY <1>8
<1> HIDE DEF head
<1>10. \A i \in DOMAIN (head \o attrs) : (head \o attrs)[i] < 2^16
  BY <1>5, <1>9, ConcatBound
<1> QED
  BY <1>7, <1>10 DEF head

\* What pass 2 says of object o is true.
There(o) ==
  /\ Holds(addr[o], Header(o))
  /\ Dense(o) => HeapThere(o)
  /\ heap[o] = IF Dense(o) THEN addr[o] + Measured(o) ELSE Undefined
  /\ addr[o] \in Nat
  /\ o \in Datasets /\ file[o].bytes > 0 =>
       Holds(data[o - Cardinality(Groups)], [kind |-> "data", object |-> o])

LEMMA AllThere ==
  ASSUME IInv, Written
  PROVE  /\ WellFormed(file) /\ \A o \in Objects : There(o)
         /\ addr[1] = SuperblockSize /\ blocks[0].root = SuperblockSize
<1>1. WellFormed(file) /\ Progress /\ InARow /\ Appended
  BY DEF IInv, LayoutInv
<1>2. /\ Len(file) \in Nat /\ Len(file) >= 1 /\ NumDatasets \in Nat /\ NumGroups \in 1 .. Len(file)
      /\ NumDatasets = Len(file) - NumGroups
      /\ Objects = 1 .. Len(file) /\ Datasets = NumGroups + 1 .. Len(file)
      /\ Cardinality(Groups) = NumGroups /\ Cardinality(Datasets) = NumDatasets
  BY <1>1, NumberTypes
<1>3. len > 0 /\ emitted = Len(file) + NumDatasets /\ Len(addr) = Len(file)
  BY <1>1, <1>2 DEF Written, Progress
<1>4. ASSUME NEW o \in Objects
      PROVE  There(o)
  <2>1. o \in 1 .. Len(file) /\ o <= emitted /\ o \in 1 .. Len(addr)
    BY <1>2, <1>3
  <2>2. Holds(addr[o], Header(o)) /\ (Dense(o) => HeapThere(o))
    BY <1>1, <2>1 DEF Appended
  <2>3. heap[o] = IF Dense(o) THEN addr[o] + Measured(o) ELSE Undefined
    BY <1>1, <2>1 DEF InARow, HeapsBehind
  <2>4. addr[o] \in Nat
    BY <1>1, <2>1 DEF Progress
  <2>5. ASSUME o \in Datasets, file[o].bytes > 0
        PROVE  Holds(data[o - Cardinality(Groups)], [kind |-> "data", object |-> o])
    <3>1. PICK j : j = o - NumGroups
      OBVIOUS
    <3>2. j \in 1 .. NumDatasets /\ NumGroups + j = o /\ Len(file) + j <= emitted
      BY <1>2, <1>3, <2>5, <3>1
    <3>3. file[o].bytes # 0
      BY <2>5
    <3>4. Holds(data[j], [kind |-> "data", object |-> o])
      BY <1>1, <3>2, <3>3 DEF Appended
    <3> QED
      BY <1>2, <3>1, <3>4
  <2> QED
    BY <2>2, <2>3, <2>4, <2>5 DEF There
<1>5. addr[1] = SuperblockSize
  BY <1>1, <1>2, <1>3 DEF InARow, HeadersInARow
<1>6. blocks[0].root = SuperblockSize
  BY <1>1, <1>3 DEF Appended, Holds
<1> QED
  BY <1>1, <1>4, <1>5, <1>6

\* At the address of its header an object reads back.
LEMMA ReadsThere ==
  ASSUME WellFormed(file), Fits(file), NEW o \in Objects, There(o)
  PROVE  Reads(o, addr[o])
<1>1. addr[o] \in DOMAIN blocks /\ blocks[addr[o]] = Header(o)
  BY DEF There, Holds
<1> DEFINE h == blocks[addr[o]]
<1>2. /\ h.kind = "header" /\ h.object = o /\ h.messages = Messages(o, Dense(o))
      /\ h.inline = IF Dense(o) THEN << >> ELSE file[o].attrs
      /\ h.heap = heap[o]
      /\ h.tree = IF Dense(o) THEN heap[o] + HeapHeaderLen + HeapBlockLen(o) ELSE Undefined
      /\ h.data = IF o \in Datasets THEN data[o - Cardinality(Groups)] ELSE Undefined
  BY <1>1 DEF Header
<1>3. Parses(addr[o])
  BY <1>1, <1>2, ShortMessages DEF Parses, IsAt
<1>4. AttributesAt(addr[o]) = DOMAIN file[o].attrs
  <2>1. CASE ~Dense(o)
    <3>1. h.heap = Undefined /\ h.inline = file[o].attrs
      BY <1>2, <2>1 DEF There
    <3> QED
      BY <3>1 DEF AttributesAt
  <2>2. CASE Dense(o)
    <3> DEFINE attributes == DOMAIN file[o].attrs
               block == heap[o] + HeapHeaderLen
               tree == block + HeapBlockLen(o)
               objects == [i \in attributes |->
                             [offset |-> AttributeOffset(o, i), length |-> file[o].attrs[i] + 1]]
               records == [i \in attributes |-> ManagedId(o, i)]
    <3>1. h.heap # Undefined
      <4>1. addr[o] \in Nat /\ Measured(o) \in Nat /\ heap[o] = addr[o] + Measured(o)
        BY <2>2, MeasuredType DEF There
      <4> QED
        BY <1>2, <4>1, MarkAssumption
    <3>2. HeapThere(o)
      BY <2>2 DEF There
    <3>3. blocks[h.heap].block = block /\ blocks[block].objects = objects
      BY <1>2, <3>2 DEF HeapThere, Holds
    <3>4. h.tree = tree /\ blocks[tree].leaf = tree + TreeHeaderLen /\ blocks[tree + TreeHeaderLen].records = records
      BY <1>2, <2>2, <3>2 DEF HeapThere, Holds
    <3>5. ASSUME NEW i \in attributes PROVE records[i] = objects[i]
      <4>1. file[o].attrs[i] \in Nat
        BY FileTypes
      <4>2. ObjectFits(file[o])
        BY DEF Fits, Objects
      <4>3. file[o].attrs[i] + 1 < 2^16
        BY <2>2, <4>2 DEF ObjectFits, Dense
      <4>4. (file[o].attrs[i] + 1) % 2^16 = file[o].attrs[i] + 1
        BY <4>1, <4>3
      <4> QED
        BY <4>4 DEF ManagedId
    <3>6. AttributesAt(addr[o]) = {i \in DOMAIN objects : \E r \in DOMAIN records : records[r] = objects[i]}
      BY <3>1, <3>3, <3>4 DEF AttributesAt
    <3> QED
      BY <3>5, <3>6
  <2> QED
    BY <2>1, <2>2
<1>5. ASSUME o \in Datasets, file[o].bytes > 0
      PROVE  IsAt(h.data, "data") /\ blocks[h.data].object = o
  BY <1>2, <1>5 DEF There, Holds, IsAt
<1> QED
  BY <1>2, <1>3, <1>4, <1>5 DEF Reads

\* In a group the name of a link leads to the first object that has it.
LEMMA FindLemma ==
  ASSUME WellFormed(file), Fits(file), NEW o \in Objects, o # 1, ~Hidden(o),
         There(file[o].parent)
  PROVE  Find(addr[file[o].parent], file[o].name) = addr[o]
<1> DEFINE g == file[o].parent
           a == addr[g]
           c == Children(g)
           name == file[o].name
           links == [i \in DOMAIN c |-> [name |-> file[c[i]].name, target |-> LinkTarget(g, i)]]
           named == {i \in DOMAIN c : file[c[i]].name = name}
<1>1. g \in Objects /\ file[g].kind = "group"
  <2>1. o \in 2 .. Len(file) /\ Objects = 1 .. Len(file) /\ Len(file) \in Nat
    BY FileTypes
  <2>2. g \in 1 .. o - 1 /\ file[g].kind = "group"
    BY <2>1 DEF WellFormed
  <2> QED
    BY <2>1, <2>2
<1>2. /\ c \in Seq(Objects) /\ DOMAIN c = 1 .. Len(c) /\ Len(c) \in Nat
      /\ \E i \in DOMAIN c : c[i] = o
  BY <1>1, ChildrenLemma, LenProperties
<1>3. blocks[a].links = links /\ Parses(a)
  <2>1. a \in DOMAIN blocks /\ blocks[a] = Header(g)
    BY DEF There, Holds
  <2>2. blocks[a].links = links /\ blocks[a].kind = "header" /\ blocks[a].messages = Messages(g, Dense(g))
    BY <2>1 DEF Header
  <2> QED
    BY <1>1, <2>1, <2>2, ShortMessages DEF Parses, IsAt
<1>4. PICK k \in DOMAIN c : c[k] = o
  BY <1>2
<1>5. PICK m \in named : \A j \in named : m <= j
  <2>1. named \in SUBSET Nat /\ named # {}
    BY <1>2, <1>4
  <2> HIDE DEF named
  <2> QED
    BY <2>1, NatMin
<1>6. c[m] = o
  <2>1. k \in named /\ m <= k /\ m \in DOMAIN c /\ file[c[m]].name = name
    BY <1>4, <1>5
  <2>2. ~(m < k)
    BY <1>4, <2>1 DEF Hidden
  <2>3. m = k
    BY <1>2, <2>1, <2>2
  <2> QED
    BY <1>4, <2>3
<1>7. named = {i \in DOMAIN blocks[a].links : blocks[a].links[i].name = name}
  <2>1. PICK l : l = links
    OBVIOUS
  <2>2. DOMAIN l = DOMAIN c /\ \A i \in DOMAIN c : l[i].name = file[c[i]].name
    BY <2>1
  <2>3. named = {i \in DOMAIN l : l[i].name = name}
    BY <2>2
  <2> QED
    BY <1>3, <2>1, <2>3, Zenon
<1>8. Find(a, name) = blocks[a].links[CHOOSE i \in named : \A j \in named : i <= j].target
  BY <1>3, <1>5, <1>7 DEF Find
<1>9. (CHOOSE i \in named : \A j \in named : i <= j) = m
  <2>1. named \in SUBSET Nat
    BY <1>2
  <2> HIDE DEF named
  <2> DEFINE f == CHOOSE i \in named : \A j \in named : i <= j
  <2>2. f \in named /\ \A j \in named : f <= j
    BY <1>5
  <2> HIDE DEF f
  <2>3. f = m
    BY <1>5, <2>1, <2>2
  <2> QED
    BY <2>3 DEF f
<1>10. m \in DOMAIN c
  BY <1>5
<1> HIDE DEF named, c
<1>11. blocks[a].links[m].target = addr[o]
  BY <1>3, <1>6, <1>10 DEF LinkTarget, c
<1> QED
  BY <1>8, <1>9, <1>11

LEMMA ResolveLemma ==
  ASSUME WellFormed(file), Fits(file), \A x \in Objects : There(x),
         addr[1] = SuperblockSize, blocks[0].root = SuperblockSize,
         NEW o \in Objects, o # 1, ~Hidden(o), ~(file[o].parent # 1 /\ Hidden(file[o].parent))
  PROVE  Resolve(Path(o)) = addr[o]
<1> DEFINE p == file[o].parent
<1>1. /\ o \in 2 .. Len(file) /\ Objects = 1 .. Len(file) /\ Len(file) \in Nat
      /\ p \in 1 .. o - 1 /\ file[p].kind = "group"
  <2>1. o \in 2 .. Len(file) /\ Objects = 1 .. Len(file) /\ Len(file) \in Nat
    BY FileTypes
  <2> QED
    BY <2>1 DEF WellFormed
<1>2. p \in Objects /\ There(p) /\ There(o)
  BY <1>1
<1>3. Find(addr[p], file[o].name) = addr[o]
  BY <1>2, FindLemma
<1>4. CASE p = 1
  <2>1. Path(o) = <<file[o].name>> /\ Len(Path(o)) = 1 /\ Path(o)[1] = file[o].name
    BY <1>4 DEF Path
  <2>2. Find(blocks[0].root, Path(o)[1]) = addr[o]
    BY <1>3, <1>4, <2>1
  <2> QED
    BY <2>1, <2>2 DEF Resolve
<1>5. CASE p # 1
  <2>1. file[p].parent = 1 /\ p \in 2 .. Len(file)
    <3>1. p \in 2 .. Len(file)
      BY <1>1, <1>5
    <3> QED
      BY <1>1, <3>1 DEF WellFormed
  <2>2. ~Hidden(p) /\ There(file[p].parent)
    BY <1>1, <1>5, <2>1
  <2>3. Find(addr[1], file[p].name) = addr[p]
    BY <1>2, <1>5, <2>1, <2>2, FindLemma
  <2>4. Path(o) = <<file[p].name, file[o].name>>
    BY <1>1, <1>5 DEF Path
  <2>5. Len(Path(o)) = 2 /\ Path(o)[1] = file[p].name /\ Path(o)[2] = file[o].name
    BY <2>4
  <2>6. addr[p] # Undefined
    BY <1>2, MarkAssumption DEF There
  <2>7. Find(blocks[0].root, Path(o)[1]) = addr[p] /\ Find(addr[p], Path(o)[2]) = addr[o]
    BY <1>3, <2>3, <2>5
  <2> QED
    BY <2>5, <2>6, <2>7 DEF Resolve
<1> QED
  BY <1>4, <1>5

LEMMA ReadsBackFollows == IInv /\ Fits(file) => ReadsBack
<1> SUFFICES ASSUME IInv, Fits(file), Written PROVE ReadsBack
  BY DEF ReadsBack
<1>1. /\ WellFormed(file) /\ \A o \in Objects : There(o)
      /\ addr[1] = SuperblockSize /\ blocks[0].root = SuperblockSize
  BY AllThere
<1>2. ASSUME NEW o \in Objects, o = 1 PROVE Reads(1, blocks[0].root)
  BY <1>1, <1>2, ReadsThere
<1>3. ASSUME NEW o \in Objects, o # 1, ~Hidden(o), ~(file[o].parent # 1 /\ Hidden(file[o].parent))
      PROVE  Reads(o, Resolve(Path(o)))
  <2>1. Resolve(Path(o)) = addr[o]
    BY <1>1, <1>3, ResolveLemma
  <2>2. Reads(o, addr[o])
    BY <1>1, ReadsThere
  <2> QED
    BY <2>1, <2>2
<1> QED
  BY <1>2, <1>3 DEF ReadsBack

-------------------------------------------------------------------------------
(* Datasets created together.                                              *)

NameOrder(s) == {q \in (DOMAIN s) \X (DOMAIN s) : Before(s, q[1], q[2])}

\* A list is sorted by a permutation of it.
LEMMA SortLemma ==
  ASSUME NEW s \in Seq(FileObject)
  PROVE  \E p : /\ IsRanking(p, NameOrder(s), 1 .. Len(s), Len(s))
                /\ ByName(s) = [k \in 1 .. Len(s) |-> s[p[k]]]
<1> DEFINE n == Len(s)
           R == NameOrder(s)
<1>1. n \in Nat /\ DOMAIN s = 1 .. n /\ \A i \in 1 .. n : s[i] \in FileObject
  OBVIOUS
<1>2. \A i \in 1 .. n : NameRank[s[i].name] \in Nat
  BY <1>1, RankAssumption DEF FileObject
<1>3. \A i, j \in 1 .. n : <<i, j>> \in R <=> Before(s, i, j)
  BY <1>1 DEF NameOrder
<1>4. IsOrder(R, 1 .. n)
  <2>1. \A i \in 1 .. n : ~Before(s, i, i)
    BY <1>2 DEF Before
  <2>2. \A i, j, k \in 1 .. n : Before(s, i, j) /\ Before(s, j, k) => Before(s, i, k)
    BY <1>2 DEF Before
  <2>3. \A i, j \in 1 .. n : i # j => Before(s, i, j) \/ Before(s, j, i)
    BY <1>2 DEF Before
  <2> QED
    BY <1>3, <2>1, <2>2, <2>3 DEF IsOrder
<1>5. IsFiniteSet(1 .. n) /\ Cardinality(1 .. n) = n
  <2>1. 1 \in Int /\ n \in Int
    BY <1>1
  <2>2. IsFiniteSet(1 .. n) /\ Cardinality(1 .. n) = IF 1 > n THEN 0 ELSE n - 1 + 1
    BY <2>1, FS_Interval
  <2> QED
    BY <1>1, <2>2
<1>6. PICK p : IsRanking(p, R, 1 .. n, n)
  <2> HIDE DEF n, R
  <2>1. \E p : IsRanking(p, R, 1 .. n, Cardinality(1 .. n))
    BY <1>4, <1>5, RankingExists
  <2> QED
    BY <1>5, <2>1
<1>7. ASSUME NEW k \in 1 .. n
      PROVE  (CHOOSE i \in DOMAIN s : Cardinality({j \in DOMAIN s : Before(s, j, i)}) = k - 1) = p[k]
  <2> DEFINE Preceding(i) == {j \in DOMAIN s : Before(s, j, i)}
             i == CHOOSE i \in DOMAIN s : Cardinality(Preceding(i)) = k - 1
  <2>1. \A m \in 1 .. n : Preceding(m) = Precede(R, 1 .. n, m)
    BY <1>1, <1>3 DEF Precede
  <2>2. p[k] \in 1 .. n /\ Cardinality(Precede(R, 1 .. n, p[k])) = k - 1
    BY <1>6 DEF IsRanking
  <2>3. p[k] \in DOMAIN s /\ Cardinality(Preceding(p[k])) = k - 1
    BY <1>1, <2>1, <2>2
  <2>4. i \in DOMAIN s /\ Cardinality(Preceding(i)) = k - 1
    <3> HIDE DEF Preceding
    <3> QED
      BY <2>3
  <2> HIDE DEF i
  <2>5. i \in 1 .. n /\ Cardinality(Precede(R, 1 .. n, i)) = k - 1
    BY <1>1, <2>1, <2>4
  <2>6. i = p[k]
    <3> HIDE DEF n, R
    <3>1. PICK m \in 1 .. n : p[m] = i
      BY <1>6, <2>5 DEF IsRanking
    <3>2. Cardinality(Precede(R, 1 .. n, i)) = m - 1
      BY <1>6, <3>1 DEF IsRanking
    <3> QED
      BY <1>1, <2>5, <3>1, <3>2
  <2> QED
    BY <2>6 DEF i
<1>8. ByName(s) = [k \in 1 .. n |-> s[p[k]]]
  <2> DEFINE g(k) == CHOOSE i \in DOMAIN s : Cardinality({j \in DOMAIN s : Before(s, j, i)}) = k - 1
  <2>1. ByName(s) = [k \in DOMAIN s |-> s[g(k)]]
    BY DEF ByName
  <2>2. \A k \in 1 .. n : g(k) = p[k]
    BY <1>7
  <2> HIDE DEF g, n
  <2> QED
    BY <1>1, <2>1, <2>2
<1> QED
  BY <1>6, <1>8

LEMMA PlannedLemma ==
  \A q : q \in Planned <=> \E c \in Creators : \E i \in DOMAIN plan[c] : q = <<c, i>>
BY DEF Planned

\* Every block was handed over once.
Handed ==
  /\ handed \in Seq(Creators)
  /\ \A i, j \in DOMAIN handed : i # j => handed[i] # handed[j]
  /\ \A i \in DOMAIN handed : added[handed[i]] = plan[handed[i]]

\* e tells which planned dataset each of s is; each is there once.
Enumerates(e, s, planned) ==
  /\ e \in [1 .. Len(s) -> planned]
  /\ \A k, l \in 1 .. Len(s) : k # l => e[k] # e[l]
  /\ \A q \in planned : \E k \in 1 .. Len(s) : e[k] = q
  /\ \A k \in 1 .. Len(s) : s[k] = Dataset(e[k])

LEMMA FlattenedLemma ==
  ASSUME plan \in Plans, Handed, \A c \in Creators : IsHanded(c)
  PROVE  Flattened \in Seq(FileObject) /\ \E e : Enumerates(e, Flattened, Planned)
<1> DEFINE n == Len(handed)
           V == Seq(FileObject)
           Rec(u) == [i \in 0 .. n |-> IF i = 0 THEN << >> ELSE u[i - 1] \o added[handed[i]]]
           upTo == CHOOSE u : u = Rec(u)
<1>1. Flattened = upTo[n]
  BY DEF Flattened
<1>2. n \in Nat /\ << >> \in V /\ DOMAIN handed = 1 .. n
  BY DEF Handed
<1>3. ASSUME NEW i \in 1 .. n
      PROVE  handed[i] \in Creators /\ added[handed[i]] = plan[handed[i]] /\ added[handed[i]] \in V
  <2>1. handed[i] \in Creators /\ added[handed[i]] = plan[handed[i]]
    BY <1>2 DEF Handed
  <2>2. plan \in Seq(Seq(FileObject))
    BY PlanAssumption
  <2> QED
    BY <2>1, <2>2 DEF Creators
<1>4. \E u : u = Rec(u)
  <2> DEFINE step == [i \in 1 .. n |-> [v \in V |-> v \o added[handed[i]]]]
  <2>1. step \in [1 .. n -> [V -> V]]
    <3>1. ASSUME NEW i \in 1 .. n, NEW v \in V PROVE v \o added[handed[i]] \in V
      <4>1. added[handed[i]] \in V
        BY <1>3
      <4> QED
        BY <4>1, ConcatProperties
    <3> HIDE DEF V
    <3> QED
      BY <3>1
  <2> HIDE DEF step, n, V
  <2>2. PICK u \in [0 .. n -> V] : IsFold(u, n, << >>, step)
    BY <2>1, <1>2, FoldExists
  <2>3. ASSUME NEW i \in 1 .. n PROVE u[i] = u[i - 1] \o added[handed[i]]
    <3>1. u[i - 1] \in V /\ u[i] = step[i][u[i - 1]]
      BY <2>2, <1>2 DEF IsFold
    <3> QED
      BY <3>1 DEF step
  <2>4. ASSUME NEW i \in 0 .. n PROVE u[i] = Rec(u)[i]
    <3>1. CASE i = 0
      BY <2>2, <3>1 DEF IsFold
    <3>2. CASE i # 0
      <4>1. i \in 1 .. n
        BY <1>2, <3>2
      <4>2. u[i] = u[i - 1] \o added[handed[i]]
        BY <2>3, <4>1
      <4> QED
        BY <3>2, <4>2
    <3> QED
      BY <3>1, <3>2
  <2>5. u = Rec(u)
    BY <2>2, <2>4
  <2> QED
    BY <2>5
<1>5. upTo = Rec(upTo)
  BY <1>4
<1> HIDE DEF upTo
<1>6. upTo[0] = << >> /\ \A i \in 1 .. n : upTo[i] = upTo[i - 1] \o added[handed[i]]
  <2>1. \A i \in 0 .. n : upTo[i] = Rec(upTo)[i]
    BY <1>5
  <2>2. upTo[0] = << >>
    BY <1>2, <2>1
  <2>3. ASSUME NEW i \in 1 .. n PROVE upTo[i] = upTo[i - 1] \o added[handed[i]]
    <3> HIDE DEF n
    <3>1. i \in 0 .. n /\ i # 0
      BY <1>2
    <3>2. upTo[i] = Rec(upTo)[i]
      BY <2>1, <3>1
    <3>3. Rec(upTo)[i] = upTo[i - 1] \o added[handed[i]]
      BY <3>1
    <3> QED
      BY <3>2, <3>3
  <2> QED
    BY <2>2, <2>3
<1> HIDE DEF n
<1> DEFINE Some(m) == {q \in Planned : \E j \in 1 .. m : handed[j] = q[1]}
           Holds1(s, m) == s \in V /\ \E e : Enumerates(e, s, Some(m))
           S == {m \in 0 .. n : Holds1(upTo[m], m)}
<1>7. 0 \in S
  <2>1. Enumerates(<< >>, << >>, Some(0))
    <3>1. Some(0) = {} /\ Len(<< >>) = 0
      OBVIOUS
    <3> QED
      BY <3>1 DEF Enumerates
  <2>2. Holds1(<< >>, 0)
    <3> HIDE DEF Some
    <3> QED
      BY <1>2, <2>1
  <2> HIDE DEF Holds1
  <2> QED
    BY <1>2, <1>6, <2>2
<1>8. ASSUME NEW m \in 0 .. n - 1, m \in S PROVE m + 1 \in S
  <2>1. m + 1 \in 1 .. n /\ (m + 1) - 1 = m /\ m + 1 \in 0 .. n
    BY <1>2
  <2> DEFINE c == handed[m + 1]
             s == upTo[m]
             b == plan[c]
             t == s \o b
  <2>2. c \in Creators /\ added[c] = b /\ b \in V
    BY <1>3, <2>1
  <2>3. s \in V /\ \E e : Enumerates(e, s, Some(m))
    BY <1>8
  <2>4. PICK e : Enumerates(e, s, Some(m))
    BY <2>3
  <2>5. \A j \in 1 .. m : handed[j] # c
    BY <1>2, <2>1 DEF Handed
  <2> HIDE DEF s, b
  <2>6. /\ t \in V /\ Len(s) \in Nat /\ Len(b) \in Nat /\ Len(t) = Len(s) + Len(b)
        /\ DOMAIN b = 1 .. Len(b)
        /\ \A k \in 1 .. Len(s) + Len(b) : t[k] = IF k <= Len(s) THEN s[k] ELSE b[k - Len(s)]
    BY <2>2, <2>3, ConcatProperties, LenProperties
  <2> HIDE DEF t
  <2> DEFINE f == [k \in 1 .. Len(t) |-> IF k <= Len(s) THEN e[k] ELSE <<c, k - Len(s)>>]
  <2>7. /\ \A k \in 1 .. Len(s) : e[k] \in Planned /\ e[k][1] # c /\ \E j \in 1 .. m : handed[j] = e[k][1]
        /\ \A k, l \in 1 .. Len(s) : k # l => e[k] # e[l]
        /\ \A k \in 1 .. Len(s) : s[k] = Dataset(e[k])
        /\ \A q \in Some(m) : \E k \in 1 .. Len(s) : e[k] = q
    BY <2>4, <2>5 DEF Enumerates
  <2>8. \A i \in DOMAIN b : <<c, i>> \in Planned /\ <<c, i>>[1] = c /\ b[i] = Dataset(<<c, i>>)
    BY <2>2, PlannedLemma DEF Dataset, b
  <2>9. f \in [1 .. Len(t) -> Some(m + 1)]
    <3>1. ASSUME NEW k \in 1 .. Len(t)
          PROVE  (IF k <= Len(s) THEN e[k] ELSE <<c, k - Len(s)>>) \in Some(m + 1)
      <4>1. CASE k <= Len(s)
        BY <2>6, <2>7, <4>1
      <4>2. CASE ~(k <= Len(s))
        <5>1. k - Len(s) \in DOMAIN b
          BY <2>6, <4>2
        <5>2. <<c, k - Len(s)>> \in Planned /\ <<c, k - Len(s)>>[1] = c /\ m + 1 \in 1 .. m + 1
          BY <2>8, <5>1
        <5> QED
          BY <4>2, <5>2
      <4> QED
        BY <4>1, <4>2
    <3> HIDE DEF Some
    <3> QED
      BY <3>1
  <2>10. ASSUME NEW k \in 1 .. Len(t), NEW l \in 1 .. Len(t), k < l PROVE f[k] # f[l]
    <3>1. CASE l <= Len(s)
      BY <2>6, <2>7, <2>10, <3>1
    <3>2. CASE ~(k <= Len(s))
      BY <2>6, <2>10, <3>2
    <3>3. CASE k <= Len(s) /\ ~(l <= Len(s))
      <4>1. f[k] = e[k] /\ e[k][1] # c /\ f[l] = <<c, l - Len(s)>>
        BY <2>6, <2>7, <3>3
      <4> QED
        BY <4>1
    <3> QED
      BY <2>6, <3>1, <3>2, <3>3
  <2>11. ASSUME NEW q \in Some(m + 1) PROVE \E k \in 1 .. Len(t) : f[k] = q
    <3>1. PICK j \in 1 .. m + 1 : handed[j] = q[1]
      OBVIOUS
    <3>2. CASE j <= m
      <4>1. q \in Some(m)
        BY <3>1, <3>2
      <4>2. PICK k \in 1 .. Len(s) : e[k] = q
        BY <2>7, <4>1
      <4>3. k \in 1 .. Len(t) /\ k <= Len(s)
        BY <2>6
      <4> QED
        BY <4>2, <4>3
    <3>3. CASE j = m + 1
      <4>5. PICK d \in Creators : \E i \in DOMAIN plan[d] : q = <<d, i>>
        BY PlannedLemma
      <4>1. PICK i \in DOMAIN plan[d] : q = <<d, i>>
        BY <4>5
      <4>2. d = c /\ i \in 1 .. Len(b)
        BY <2>6, <3>1, <3>3, <4>1 DEF b
      <4>3. Len(s) + i \in 1 .. Len(t) /\ ~(Len(s) + i <= Len(s)) /\ Len(s) + i - Len(s) = i
        BY <2>6, <4>2
      <4>6. PICK k \in 1 .. Len(t) : k = Len(s) + i
        BY <4>3
      <4>4. f[k] = <<c, k - Len(s)>>
        BY <4>3, <4>6
      <4> HIDE DEF f
      <4>7. k - Len(s) = i
        BY <2>6, <4>2, <4>6
      <4>8. f[k] = q
        BY <4>1, <4>2, <4>4, <4>7
      <4> QED
        BY <4>8
    <3> QED
      BY <3>2, <3>3
  <2>12. ASSUME NEW k \in 1 .. Len(t) PROVE t[k] = Dataset(f[k])
    <3>1. CASE k <= Len(s)
      BY <2>6, <2>7, <3>1
    <3>2. CASE ~(k <= Len(s))
      <4>1. k - Len(s) \in DOMAIN b
        BY <2>6, <3>2
      <4> QED
        BY <2>6, <2>8, <3>2, <4>1
    <3> QED
      BY <3>1, <3>2
  <2> HIDE DEF f, Some
  <2>13. \A k, l \in 1 .. Len(t) : k # l => f[k] # f[l]
    <3> SUFFICES ASSUME NEW k \in 1 .. Len(t), NEW l \in 1 .. Len(t), k # l PROVE f[k] # f[l]
      OBVIOUS
    <3>1. k < l \/ l < k
      OBVIOUS
    <3> QED
      BY <2>10, <3>1
  <2>14. Enumerates(f, t, Some(m + 1))
    BY <2>9, <2>11, <2>12, <2>13 DEF Enumerates
  <2>15. upTo[m + 1] = t
    BY <1>6, <2>1, <2>2 DEF t, s
  <2>16. Holds1(t, m + 1)
    BY <2>6, <2>14
  <2> HIDE DEF Holds1
  <2> QED
    BY <2>1, <2>15, <2>16
<1> HIDE DEF S
<1>9. 0 .. n \subseteq S
  BY <1>2, <1>7, <1>8, RangeInduction
<1>10. Holds1(upTo[n], n)
  <2> HIDE DEF Holds1
  <2> QED
    BY <1>2, <1>9 DEF S
<1>11. Some(n) = Planned
  <2>1. ASSUME NEW q \in Planned PROVE \E j \in 1 .. n : handed[j] = q[1]
    <3>1. PICK d \in Creators : \E i \in DOMAIN plan[d] : q = <<d, i>>
      BY PlannedLemma
    <3>2. IsHanded(d)
      OBVIOUS
    <3> QED
      BY <1>2, <3>1, <3>2 DEF IsHanded
  <2> QED
    BY <2>1
<1> HIDE DEF Some
<1> QED
  BY <1>1, <1>10, <1>11

\* What a file made of a plan is like.
FromPlan ==
  /\ Len(file) = 1 + Cardinality(Planned)
  /\ file[1] = EmptyRoot
  /\ \A o \in 2 .. Len(file) : \E q \in Planned : file[o] = Dataset(q)
  /\ \A q \in Planned : \E o \in 2 .. Len(file) : file[o] = Dataset(q)
  /\ \A o, r \in 2 .. Len(file) : o < r => NameRank[file[o].name] < NameRank[file[r].name]

NamesClash == \E p, q \in Planned : p # q /\ Dataset(p).name = Dataset(q).name

CreateInv ==
  /\ plan = << >> \/ plan \in Plans
  /\ added \in [Creators -> Seq(FileObject)] /\ Handed
  /\ file = << >> => Untouched /\ plan \in Plans
  /\ file # << >> => IInv
  /\ file # << >> => \/ plan = << >> /\ file \in Files
                     \/ plan \in Plans /\ FromPlan
  /\ failed /\ plan # << >> => NamesClash

LEMMA PlannedObjects ==
  ASSUME plan \in Plans, NEW q \in Planned
  PROVE  /\ Dataset(q) \in FileObject /\ Dataset(q).kind = "dataset" /\ Dataset(q).parent = 1
         /\ Dataset(q).bytes \in Nat
         /\ Len(Dataset(q).attrs) > DenseThreshold => FitsHeap(Dataset(q).attrs)
<1>1. PICK c \in Creators : \E i \in DOMAIN plan[c] : q = <<c, i>>
  BY PlannedLemma
<1>2. PICK i \in DOMAIN plan[c] : q = <<c, i>>
  BY <1>1
<1>3. Dataset(q) = plan[c][i]
  BY <1>2 DEF Dataset
<1>4. plan \in Seq(Seq(FileObject)) /\ c \in DOMAIN plan
  BY PlanAssumption DEF Creators
<1>5. plan[c][i] \in FileObject
  BY <1>2, <1>4
<1> QED
  BY <1>2, <1>3, <1>4, <1>5, PlanAssumption

\* Merging: the sorted list is the plan, and its neighbours are equal if any two
\* planned names are.
LEMMA MergedFile ==
  ASSUME plan \in Plans, Handed, \A c \in Creators : IsHanded(c), ~HasDuplicates,
         file' = <<EmptyRoot>> \o ByName(Flattened), plan' = plan
  PROVE  WellFormed(file)' /\ FromPlan'
<1> DEFINE s == Flattened
           n == Len(s)
           t == ByName(s)
<1>1. s \in Seq(FileObject) /\ \E e : Enumerates(e, s, Planned)
  BY FlattenedLemma
<1>2. n \in Nat /\ DOMAIN s = 1 .. n /\ \A i \in 1 .. n : s[i] \in FileObject
  BY <1>1
<1>3. PICK e : Enumerates(e, s, Planned)
  BY <1>1
<1>4. PICK p : IsRanking(p, NameOrder(s), 1 .. n, n) /\ t = [k \in 1 .. n |-> s[p[k]]]
  BY <1>1, SortLemma
<1> DEFINE Rank(i) == NameRank[t[i].name]
<1>5. \A o \in 2 .. Len(t) : t[o].name # t[o - 1].name
  BY DEF HasDuplicates
<1> HIDE DEF s, n, t
<1>6. ASSUME NEW k \in 1 .. n
      PROVE  /\ p[k] \in 1 .. n /\ t[k] = s[p[k]] /\ t[k] \in FileObject /\ t[k].name \in DOMAIN NameLen
             /\ Rank(k) \in Nat /\ e[p[k]] \in Planned /\ t[k] = Dataset(e[p[k]])
  <2>1. p[k] \in 1 .. n /\ t[k] = s[p[k]]
    BY <1>4 DEF IsRanking
  <2>2. t[k] \in FileObject
    BY <1>2, <2>1
  <2>3. t[k].name \in DOMAIN NameLen
    BY <2>2 DEF FileObject
  <2>4. e[p[k]] \in Planned /\ s[p[k]] = Dataset(e[p[k]])
    BY <1>3, <2>1 DEF Enumerates, n
  <2> QED
    BY <2>1, <2>2, <2>3, <2>4, RankAssumption
<1>7. t \in Seq(FileObject) /\ Len(t) = n
  <2>1. t \in [1 .. n -> FileObject]
    BY <1>4, <1>6
  <2> QED
    BY <1>2, <2>1
<1>8. ASSUME NEW k \in 1 .. n, NEW l \in 1 .. n, k < l PROVE Rank(k) <= Rank(l)
  <2>1. <<p[k], p[l]>> \in NameOrder(s)
    BY <1>4, <1>8 DEF IsRanking
  <2>2. Before(s, p[k], p[l])
    BY <2>1 DEF NameOrder
  <2>3. Rank(k) = NameRank[s[p[k]].name] /\ Rank(l) = NameRank[s[p[l]].name] /\ Rank(k) \in Nat /\ Rank(l) \in Nat
    BY <1>6
  <2> QED
    BY <2>2, <2>3 DEF Before
<1>9. ASSUME NEW k \in 1 .. n, NEW l \in 1 .. n, k < l PROVE Rank(k) < Rank(l)
  <2>1. k + 1 \in 1 .. n /\ k + 1 \in 2 .. Len(t) /\ (k + 1) - 1 = k
    BY <1>2, <1>7, <1>9
  <2>2. t[k + 1].name # t[k].name
    BY <1>5, <2>1
  <2>3. Rank(k + 1) # Rank(k) /\ Rank(k) \in Nat /\ Rank(k + 1) \in Nat /\ Rank(l) \in Nat
    BY <1>6, <2>1, <2>2, RankAssumption
  <2>4. Rank(k) <= Rank(k + 1)
    BY <1>2, <1>8, <2>1
  <2>5. k + 1 = l \/ k + 1 < l
    BY <1>9
  <2>6. Rank(k + 1) <= Rank(l)
    BY <1>8, <2>1, <2>3, <2>5
  <2> QED
    BY <2>3, <2>4, <2>6
<1> DEFINE w == <<EmptyRoot>> \o t
<1>10. EmptyRoot \in FileObject
  <2>1. <<18>> \in Seq(Nat) /\ << >> \in Seq(Nat)
    OBVIOUS
  <2> QED
    BY <2>1, RankAssumption DEF EmptyRoot, FileObject
<1>11. /\ w \in Seq(FileObject) /\ Len(w) = 1 + n /\ w[1] = EmptyRoot
       /\ \A o \in 2 .. 1 + n : w[o] = t[o - 1]
  <2>1. <<EmptyRoot>> \in Seq(FileObject) /\ Len(<<EmptyRoot>>) = 1 /\ <<EmptyRoot>>[1] = EmptyRoot
    BY <1>10
  <2> HIDE DEF EmptyRoot
  <2> DEFINE r == <<EmptyRoot>>
  <2>2. r \in Seq(FileObject) /\ Len(r) = 1 /\ r[1] = EmptyRoot
    BY <2>1
  <2> HIDE DEF r
  <2>6. /\ r \o t \in Seq(FileObject) /\ Len(r \o t) = Len(r) + Len(t)
        /\ \A o \in 1 .. Len(r) + Len(t) : (r \o t)[o] = IF o <= Len(r) THEN r[o] ELSE t[o - Len(r)]
    BY <1>7, <2>2, ConcatProperties
  <2>3. /\ r \o t \in Seq(FileObject) /\ Len(r \o t) = 1 + n
        /\ \A o \in 1 .. 1 + n : (r \o t)[o] = IF o <= 1 THEN r[o] ELSE t[o - 1]
    BY <1>7, <2>2, <2>6
  <2>4. (r \o t)[1] = EmptyRoot
    BY <1>2, <2>2, <2>3
  <2>5. ASSUME NEW o \in 2 .. 1 + n PROVE (r \o t)[o] = t[o - 1]
    BY <1>2, <2>3
  <2> QED
    BY <2>3, <2>4, <2>5 DEF r
<1>12. file' = w
  BY DEF t, s
<1> HIDE DEF w
<1>13. ASSUME NEW o \in 2 .. 1 + n
       PROVE  /\ o - 1 \in 1 .. n /\ w[o] = t[o - 1]
              /\ \E q \in Planned : w[o] = Dataset(q)
              /\ w[o].kind = "dataset" /\ w[o].parent = 1
              /\ Len(w[o].attrs) > DenseThreshold => FitsHeap(w[o].attrs)
  <2>1. o - 1 \in 1 .. n /\ w[o] = t[o - 1]
    BY <1>2, <1>11
  <2>2. PICK q \in Planned : w[o] = Dataset(q)
    BY <1>6, <2>1
  <2> QED
    BY <2>1, <2>2, PlannedObjects
<1>14. WellFormed(w)
  <2>1. w[1].kind = "group" /\ w[1].attrs = << >>
    BY <1>11 DEF EmptyRoot
  <2>2. ASSUME NEW o \in 1 .. Len(w), Len(w[o].attrs) > DenseThreshold PROVE FitsHeap(w[o].attrs)
    <3>1. CASE o = 1
      BY <2>1, <2>2, <3>1, LengthAssumption
    <3>2. CASE o # 1
      <4>1. o \in 2 .. 1 + n
        BY <1>2, <1>11, <3>2
      <4> QED
        BY <1>13, <2>2, <4>1
    <3> QED
      BY <3>1, <3>2
  <2>3. ASSUME NEW o \in 2 .. Len(w)
        PROVE  /\ w[o].parent \in 1 .. o - 1
               /\ w[w[o].parent].kind = "group"
               /\ w[o].kind # "group"
    BY <1>2, <1>11, <1>13, <2>1
  <2>4. Len(w) >= 1 /\ w \in Seq(FileObject)
    BY <1>2, <1>11
  <2>5. \A o \in 1 .. Len(w) : Len(w[o].attrs) > DenseThreshold => FitsHeap(w[o].attrs)
    BY <2>2
  <2>6. \A o \in 2 .. Len(w) :
          /\ w[o].parent \in 1 .. o - 1
          /\ w[w[o].parent].kind = "group"
          /\ w[o].kind = "group" => w[o].parent = 1 /\ w[o - 1].kind = "group"
    BY <2>3
  <2> QED
    BY <2>1, <2>4, <2>5, <2>6 DEF WellFormed
<1>15. Cardinality(Planned) = n
  <2>1. /\ e \in [1 .. n -> Planned]
        /\ \A k, l \in 1 .. n : k # l => e[k] # e[l]
        /\ \A q \in Planned : \E k \in 1 .. n : e[k] = q
    BY <1>3 DEF Enumerates, n
  <2> HIDE DEF Planned
  <2>2. e \in Bijection(1 .. n, Planned)
    BY <2>1 DEF Bijection, Injection, Surjection, IsInjective
  <2>3. ExistsBijection(1 .. n, Planned)
    BY <2>2 DEF ExistsBijection
  <2> QED
    BY <1>2, <2>3, FS_CountingElements
<1>16. ASSUME NEW q \in Planned PROVE \E o \in 2 .. Len(w) : w[o] = Dataset(q)
  <2>1. PICK m \in 1 .. n : e[m] = q
    BY <1>3 DEF Enumerates, n
  <2>2. PICK k \in 1 .. n : p[k] = m
    BY <1>4 DEF IsRanking
  <2>3. t[k] = Dataset(q)
    BY <1>6, <2>1, <2>2
  <2>4. k + 1 \in 2 .. Len(w) /\ (k + 1) - 1 = k
    BY <1>2, <1>11
  <2>5. w[k + 1] = Dataset(q)
    BY <1>11, <2>3, <2>4
  <2> QED
    BY <2>4, <2>5
<1>17. ASSUME NEW o \in 2 .. Len(w), NEW r \in 2 .. Len(w), o < r
       PROVE  NameRank[w[o].name] < NameRank[w[r].name]
  <2>1. o - 1 \in 1 .. n /\ r - 1 \in 1 .. n /\ o - 1 < r - 1
    BY <1>2, <1>11, <1>17
  <2> QED
    BY <1>9, <1>11, <2>1
<1>18. Planned' = Planned /\ \A q : Dataset(q)' = Dataset(q)
  BY DEF Planned, Dataset, Creators
<1> QED
  BY <1>11, <1>12, <1>13, <1>14, <1>15, <1>16, <1>17, <1>18 DEF FromPlan

LEMMA ClashFound ==
  ASSUME plan \in Plans, Handed, \A c \in Creators : IsHanded(c), HasDuplicates
  PROVE  NamesClash
<1> DEFINE s == Flattened
           n == Len(s)
           t == ByName(s)
<1>1. s \in Seq(FileObject) /\ \E e : Enumerates(e, s, Planned)
  BY FlattenedLemma
<1>2. n \in Nat
  BY <1>1
<1>3. PICK e : Enumerates(e, s, Planned)
  BY <1>1
<1>4. PICK p : IsRanking(p, NameOrder(s), 1 .. n, n) /\ t = [k \in 1 .. n |-> s[p[k]]]
  BY <1>1, SortLemma
<1>5. PICK k \in 2 .. Len(t) : t[k].name = t[k - 1].name
  BY DEF HasDuplicates
<1> HIDE DEF s, n, t
<1>6. Len(t) = n
  <2>1. t \in [1 .. n -> {s[p[i]] : i \in 1 .. n}]
    BY <1>4
  <2> QED
    BY <1>2, <2>1
<1>7. k \in 1 .. n /\ k - 1 \in 1 .. n /\ k - 1 < k
  BY <1>2, <1>5, <1>6
<1>8. p[k] \in 1 .. n /\ p[k - 1] \in 1 .. n /\ p[k - 1] # p[k]
  <2>1. <<p[k - 1], p[k]>> \in NameOrder(s) /\ p[k] \in 1 .. n /\ p[k - 1] \in 1 .. n
    BY <1>4, <1>7 DEF IsRanking
  <2>2. Before(s, p[k - 1], p[k])
    BY <2>1 DEF NameOrder
  <2>3. s[p[k]] \in FileObject
    BY <1>1, <2>1 DEF n
  <2>4. NameRank[s[p[k]].name] \in Nat
    BY <2>3, RankAssumption DEF FileObject
  <2>5. ~Before(s, p[k], p[k])
    BY <2>1, <2>4 DEF Before
  <2> QED
    BY <2>1, <2>2, <2>5
<1>9. /\ e[p[k]] \in Planned /\ e[p[k - 1]] \in Planned /\ e[p[k]] # e[p[k - 1]]
      /\ s[p[k]] = Dataset(e[p[k]]) /\ s[p[k - 1]] = Dataset(e[p[k - 1]])
  BY <1>3, <1>8 DEF Enumerates, n
<1>10. t[k] = s[p[k]] /\ t[k - 1] = s[p[k - 1]]
  BY <1>4, <1>7
<1> QED
  BY <1>5, <1>9, <1>10 DEF NamesClash

LEMMA CreateInitInv == CreateInit => CreateInv
<1> SUFFICES ASSUME CreateInit PROVE CreateInv
  OBVIOUS
<1>1. Untouched /\ ~failed /\ added = [c \in Creators |-> << >>] /\ handed = << >>
  BY DEF CreateInit, Called, Untouched
<1>2. added \in [Creators -> Seq(FileObject)] /\ Handed
  <2>1. << >> \in Seq(FileObject) /\ << >> \in Seq(Creators)
    OBVIOUS
  <2> QED
    BY <1>1, <2>1 DEF Handed
<1>3. CASE file \in Files /\ plan = << >>
  <2>1. WellFormed(file)
    BY <1>3, FileAssumption
  <2>2. file # << >>
    BY <2>1 DEF WellFormed
  <2> QED
    BY <1>1, <1>2, <1>3, <2>1, <2>2, UntouchedInv DEF CreateInv
<1>4. CASE file = << >> /\ plan \in Plans
  BY <1>1, <1>2, <1>4 DEF CreateInv
<1> QED
  BY <1>3, <1>4 DEF CreateInit

\* What is planned does not change.
LEMMA SamePlan ==
  ASSUME plan' = plan
  PROVE  Creators' = Creators /\ Planned' = Planned /\ NamesClash' = NamesClash /\ \A q : Dataset(q)' = Dataset(q)
BY DEF Creators, Planned, NamesClash, Dataset

LEMMA AddDatasetStep ==
  ASSUME CreateInv, NEW c \in Creators, AddDataset(c)
  PROVE  CreateInv'
<1>1. /\ file = << >> /\ ~failed /\ ~IsHanded(c) /\ Len(added[c]) < Len(plan[c])
      /\ added' = [added EXCEPT ![c] = Append(@, plan[c][Len(@) + 1])]
      /\ UNCHANGED <<vars, plan, handed>>
  BY DEF AddDataset, NoFileYet
<1>2. plan \in Plans /\ added \in [Creators -> Seq(FileObject)] /\ Handed /\ Untouched
  BY <1>1 DEF CreateInv
<1>3. Append(added[c], plan[c][Len(added[c]) + 1]) \in Seq(FileObject)
  <2>1. plan \in Seq(Seq(FileObject))
    BY <1>2, PlanAssumption
  <2>2. plan[c] \in Seq(FileObject) /\ added[c] \in Seq(FileObject)
    BY <1>2, <2>1 DEF Creators
  <2>3. Len(added[c]) + 1 \in 1 .. Len(plan[c])
    BY <1>1, <2>2
  <2>4. plan[c][Len(added[c]) + 1] \in FileObject
    BY <2>2, <2>3
  <2> QED
    BY <2>2, <2>4, AppendProperties
<1>4. added' \in [Creators -> Seq(FileObject)]
  BY <1>1, <1>2, <1>3
<1>5. Handed'
  <2>1. ASSUME NEW i \in DOMAIN handed PROVE added'[handed[i]] = plan[handed[i]]
    <3>1. handed[i] \in Creators /\ handed[i] # c /\ added[handed[i]] = plan[handed[i]]
      BY <1>1, <1>2 DEF Handed, IsHanded
    <3> QED
      BY <1>1, <1>2, <3>1
  <2> QED
    BY <1>1, <1>2, <2>1, SamePlan DEF Handed
<1>6. Untouched'
  BY <1>1, <1>2 DEF Untouched, vars
<1> QED
  BY <1>1, <1>2, <1>4, <1>5, <1>6, SamePlan DEF CreateInv, vars

LEMMA FinishBlockStep ==
  ASSUME CreateInv, NEW c \in Creators, FinishBlock(c)
  PROVE  CreateInv'
<1>1. /\ file = << >> /\ ~failed /\ ~IsHanded(c) /\ added[c] = plan[c]
      /\ handed' = Append(handed, c)
      /\ UNCHANGED <<vars, plan, added>>
  BY DEF FinishBlock, NoFileYet
<1>2. plan \in Plans /\ added \in [Creators -> Seq(FileObject)] /\ Handed /\ Untouched
  BY <1>1 DEF CreateInv
<1> DEFINE n == Len(handed)
<1>3. /\ handed \in Seq(Creators) /\ n \in Nat /\ DOMAIN handed = 1 .. n
      /\ \A i \in 1 .. n : handed[i] # c
  BY <1>1, <1>2 DEF Handed, IsHanded
<1>4. /\ handed' \in Seq(Creators) /\ DOMAIN handed' = 1 .. n + 1 /\ handed'[n + 1] = c
      /\ \A i \in 1 .. n : handed'[i] = handed[i]
  BY <1>1, <1>3
<1>5. Handed'
  <2>1. ASSUME NEW i \in 1 .. n + 1, NEW j \in 1 .. n + 1, i # j PROVE handed'[i] # handed'[j]
    <3>1. CASE i = n + 1
      BY <1>3, <1>4, <2>1, <3>1
    <3>2. CASE j = n + 1
      BY <1>3, <1>4, <2>1, <3>2
    <3>3. CASE i # n + 1 /\ j # n + 1
      <4>1. i \in DOMAIN handed /\ j \in DOMAIN handed
        BY <1>3, <3>3
      <4> QED
        BY <1>2, <1>3, <1>4, <2>1, <4>1 DEF Handed
    <3> QED
      BY <3>1, <3>2, <3>3
  <2>2. ASSUME NEW i \in 1 .. n + 1 PROVE added[handed'[i]] = plan[handed'[i]]
    <3>1. CASE i = n + 1
      BY <1>1, <1>4, <3>1
    <3>2. CASE i # n + 1
      <4>1. i \in DOMAIN handed
        BY <1>3, <3>2
      <4> QED
        BY <1>2, <1>3, <1>4, <4>1 DEF Handed
    <3> QED
      BY <3>1, <3>2
  <2> QED
    BY <1>1, <1>4, <2>1, <2>2, SamePlan DEF Handed
<1>6. Untouched'
  BY <1>1, <1>2 DEF Untouched, vars
<1> QED
  BY <1>1, <1>2, <1>5, <1>6, SamePlan DEF CreateInv, vars

LEMMA MergeStep ==
  ASSUME CreateInv, MergeBlocks
  PROVE  CreateInv'
<1>1. /\ file = << >> /\ ~failed /\ \A c \in Creators : IsHanded(c)
      /\ UNCHANGED <<sizes, cursor, addr, heap, data, len, blocks, emitted, plan, added, handed>>
  BY DEF MergeBlocks, NoFileYet, createVars
<1>2. plan \in Plans /\ added \in [Creators -> Seq(FileObject)] /\ Handed /\ Untouched
  BY <1>1 DEF CreateInv
<1>3. added' \in [Creators -> Seq(FileObject)]' /\ Handed' /\ Untouched'
  BY <1>1, <1>2, SamePlan DEF Handed, Untouched
<1>4. CASE HasDuplicates
  <2>1. file' = << >>
    BY <1>1, <1>4 DEF MergeBlocks
  <2>2. NamesClash'
    BY <1>1, <1>2, <1>4, ClashFound, SamePlan
  <2> QED
    BY <1>1, <1>2, <1>3, <2>1, <2>2 DEF CreateInv
<1>5. CASE ~HasDuplicates
  <2>1. file' = <<EmptyRoot>> \o ByName(Flattened) /\ failed' = failed
    BY <1>5 DEF MergeBlocks
  <2>2. WellFormed(file)' /\ FromPlan'
    BY <1>1, <1>2, <1>5, <2>1, MergedFile
  <2>3. file' # << >>
    BY <2>2 DEF WellFormed
  <2>4. IInv'
    BY <1>3, <2>2, UntouchedInv, PTL
  <2>5. ~failed' /\ plan' \in Plans
    BY <1>1, <1>2, <2>1
  <2> QED
    BY <1>3, <2>2, <2>3, <2>4, <2>5, Zenon DEF CreateInv
<1> QED
  BY <1>4, <1>5

\* Planned datasets have data, so that finish does not reject them.
LEMMA PlannedComplete ==
  ASSUME WellFormed(file), plan \in Plans, FromPlan
  PROVE  Complete
<1>1. Objects = 1 .. Len(file) /\ Len(file) \in Nat
  BY FileTypes
<1>2. ASSUME NEW o \in Datasets PROVE file[o].bytes # Missing
  <2>1. o \in Objects /\ file[o].kind # "group"
    BY DEF Datasets, Groups
  <2>2. o # 1
    BY <2>1 DEF FromPlan, EmptyRoot
  <2>3. o \in 2 .. Len(file)
    BY <1>1, <2>1, <2>2
  <2>4. PICK q \in Planned : file[o] = Dataset(q)
    BY <2>3 DEF FromPlan
  <2> QED
    BY <2>4, PlannedObjects, MarkAssumption
<1> QED
  BY <1>2 DEF Complete

LEMMA WriteStep ==
  ASSUME CreateInv, Write
  PROVE  CreateInv'
<1>1. file # << >> /\ Next /\ plan' = plan /\ added' = added /\ handed' = handed
  BY DEF Write, createVars
<1>2. file' = file /\ (failed' = failed \/ ~Complete)
  BY <1>1 DEF Next, Reject, Measure, PlaceHeader, PlaceData, EmitSuperblock, EmitHeader, EmitData
<1>3. IInv /\ WellFormed(file)
  BY <1>1 DEF CreateInv, IInv
<1>4. IInv'
  BY <1>1, <1>3, NextStep
<1>5. /\ plan = << >> \/ plan \in Plans
      /\ added \in [Creators -> Seq(FileObject)] /\ Handed
      /\ \/ plan = << >> /\ file \in Files
         \/ plan \in Plans /\ FromPlan
      /\ failed /\ plan # << >> => NamesClash
  BY <1>1 DEF CreateInv
<1>6. failed' /\ plan # << >> => NamesClash
  BY <1>2, <1>3, <1>5, PlannedComplete
<1>7. FromPlan' = FromPlan /\ Handed' = Handed
  <2>1. FromPlan' = FromPlan
    BY <1>1, <1>2, SamePlan DEF FromPlan
  <2>2. Handed' = Handed
    BY <1>1, SamePlan DEF Handed
  <2> QED
    BY <2>1, <2>2
<1>8. file' # << >> /\ (plan' = << >> \/ plan' \in Plans) /\ (failed' /\ plan' # << >> => NamesClash')
  BY <1>1, <1>2, <1>5, <1>6, SamePlan, Zenon
<1>9. (added \in [Creators -> Seq(FileObject)])' /\ Handed'
  BY <1>1, <1>5, <1>7, SamePlan, Zenon
<1>10. (plan = << >> /\ file \in Files)' \/ (plan \in Plans /\ FromPlan)'
  BY <1>1, <1>2, <1>5, <1>7, Zenon
<1> QED
  BY <1>4, <1>8, <1>9, <1>10, Zenon DEF CreateInv

LEMMA CreateStep ==
  ASSUME CreateInv, [Create \/ Write]_allVars
  PROVE  CreateInv'
<1>1. CASE UNCHANGED allVars
  <2>1. vars' = vars /\ file' = file /\ failed' = failed /\ plan' = plan /\ added' = added /\ handed' = handed
    BY <1>1 DEF allVars, createVars, vars
  <2>2. IInv => IInv'
    BY <2>1, Unmoved DEF vars
  <2>3. FromPlan' = FromPlan /\ Handed' = Handed
    BY <2>1, SamePlan DEF FromPlan, Handed
  <2>4. Untouched' = Untouched
    BY <2>1 DEF Untouched, vars
  <2>5. Creators' = Creators /\ NamesClash' = NamesClash
    BY <2>1, SamePlan, Zenon
  <2> QED
    BY <2>1, <2>2, <2>3, <2>4, <2>5, Zenon DEF CreateInv
<1>2. CASE Create
  BY <1>2, MergeStep, AddDatasetStep, FinishBlockStep DEF Create
<1>3. CASE Write
  BY <1>3, WriteStep
<1> QED
  BY <1>1, <1>2, <1>3

\* Nothing in the files to write is too long for the two bytes of a length.
MessagesFit ==
  /\ \A f \in Files : Fits(f)
  /\ \A p \in Plans : \A c \in DOMAIN p : \A i \in DOMAIN p[c] :
       ObjectFits(p[c][i]) /\ LinkLen(p[c][i].name) < 2^16

LEMMA PlannedFits ==
  ASSUME MessagesFit, CreateInv, file # << >>
  PROVE  Fits(file)
<1>1. CASE plan = << >> /\ file \in Files
  BY <1>1 DEF MessagesFit
<1>2. CASE plan \in Plans /\ FromPlan
  <2>1. ASSUME NEW o \in DOMAIN file
        PROVE  ObjectFits(file[o]) /\ (o # 1 => LinkLen(file[o].name) < 2^16)
    <3>1. WellFormed(file)
      BY DEF CreateInv, IInv
    <3>2. DOMAIN file = 1 .. Len(file) /\ Len(file) \in Nat
      BY <3>1, FileTypes
    <3>3. CASE o = 1
      <4>1. file[o] = EmptyRoot
        BY <1>2, <3>3 DEF FromPlan
      <4> QED
        BY <3>3, <4>1 DEF ObjectFits, EmptyRoot
    <3>4. CASE o # 1
      <4>1. o \in 2 .. Len(file)
        BY <3>2, <3>4
      <4>2. PICK q \in Planned : file[o] = Dataset(q)
        BY <1>2, <4>1 DEF FromPlan
      <4>3. PICK c \in Creators : \E i \in DOMAIN plan[c] : q = <<c, i>>
        BY PlannedLemma
      <4>4. PICK i \in DOMAIN plan[c] : q = <<c, i>>
        BY <4>3
      <4>5. Dataset(q) = plan[c][i] /\ c \in DOMAIN plan
        BY <4>4 DEF Dataset, Creators
      <4> QED
        BY <1>2, <4>2, <4>4, <4>5 DEF MessagesFit
    <3> QED
      BY <3>3, <3>4
  <2> QED
    BY <2>1 DEF Fits
<1> QED
  BY <1>1, <1>2 DEF CreateInv

\* In a file made of a plan no dataset hides another, and each is a dataset of
\* the root.
LEMMA PlannedPath ==
  ASSUME WellFormed(file), plan \in Plans, FromPlan, NEW o \in 2 .. Len(file)
  PROVE  /\ o \in Datasets /\ file[o].parent = 1 /\ ~Hidden(o)
         /\ Path(o) = <<file[o].name>>
<1>1. Objects = 1 .. Len(file) /\ Len(file) \in Nat /\ 1 \in Objects
  BY FileTypes DEF WellFormed
<1>2. ASSUME NEW r \in 2 .. Len(file)
      PROVE  file[r].kind = "dataset" /\ file[r].parent = 1 /\ file[r].name \in DOMAIN NameLen
  <2>1. PICK q \in Planned : file[r] = Dataset(q)
    BY DEF FromPlan
  <2> QED
    BY <2>1, PlannedObjects DEF FileObject
<1>3. o \in Datasets
  BY <1>1, <1>2 DEF Datasets, Groups
<1>4. ~Hidden(o)
  <2> DEFINE c == Children(1)
  <2>1. /\ c \in Seq(Objects)
        /\ file[1].kind = "group" => \A x \in Objects : (x # 1 /\ file[x].parent = 1) <=>
             \E i \in DOMAIN c : c[i] = x
        /\ \A i, j \in DOMAIN c : i < j => c[i] # c[j]
    BY <1>1, ChildrenLemma
  <2>2. file[1].kind = "group"
    BY DEF WellFormed
  <2>3. ASSUME NEW i \in DOMAIN c, NEW j \in DOMAIN c, i < j, c[j] = o, file[c[i]].name = file[o].name
        PROVE  FALSE
    <3>1. c[i] # o
      BY <2>1, <2>3
    <3>2. c[i] \in Objects
      BY <2>1
    <3>3. c[i] # 1
      BY <2>1, <2>2, <3>2
    <3>4. c[i] \in 2 .. Len(file)
      BY <1>1, <3>2, <3>3
    <3>5. o \in Nat /\ c[i] \in Nat /\ (o < c[i] \/ c[i] < o)
      BY <3>1, <3>4
    <3>6. NameRank[file[o].name] \in Nat
      BY <1>2, RankAssumption
    <3>7. NameRank[file[o].name] < NameRank[file[o].name]
      BY <2>3, <3>4, <3>5 DEF FromPlan
    <3> QED
      BY <3>6, <3>7
  <2>4. file[o].parent = 1
    BY <1>2
  <2> HIDE DEF c
  <2>5. Hidden(o) => \E i, j \in DOMAIN c : i < j /\ c[j] = o /\ file[c[i]].name = file[o].name
    BY <2>4 DEF Hidden, c
  <2> QED
    BY <2>3, <2>5
<1>5. Path(o) = <<file[o].name>>
  BY <1>2 DEF Path
<1> QED
  BY <1>2, <1>3, <1>4, <1>5

LEMMA CreatedTogetherFollows == MessagesFit /\ CreateInv => CreatedTogether
<1> SUFFICES ASSUME MessagesFit, CreateInv, plan # << >> PROVE CreatedTogether
  BY DEF CreatedTogether
<1>1. failed => \E p, q \in Planned : p # q /\ Dataset(p).name = Dataset(q).name
  BY DEF CreateInv, NamesClash
<1>2. ASSUME file # << >>
      PROVE  /\ Len(file) = 1 + Cardinality(Planned)
             /\ \A o \in 2 .. Len(file) - 1 : NameRank[file[o].name] < NameRank[file[o + 1].name]
             /\ Written => \A p \in Planned :
                  \E o \in Datasets : file[o] = Dataset(p) /\ Reads(o, Resolve(<<Dataset(p).name>>))
  <2>1. IInv /\ WellFormed(file) /\ plan \in Plans /\ FromPlan /\ Fits(file)
    BY <1>2, PlannedFits DEF CreateInv, IInv
  <2>2. Objects = 1 .. Len(file) /\ Len(file) \in Nat
    BY <2>1, FileTypes
  <2>3. ASSUME NEW o \in 2 .. Len(file) - 1
        PROVE  NameRank[file[o].name] < NameRank[file[o + 1].name]
    <3>1. o \in 2 .. Len(file) /\ o + 1 \in 2 .. Len(file) /\ o < o + 1
      BY <2>2
    <3> QED
      BY <2>1, <3>1 DEF FromPlan
  <2>4. ASSUME Written, NEW p \in Planned
        PROVE  \E o \in Datasets : file[o] = Dataset(p) /\ Reads(o, Resolve(<<Dataset(p).name>>))
    <3>1. PICK o \in 2 .. Len(file) : file[o] = Dataset(p)
      BY <2>1 DEF FromPlan
    <3>2. /\ o \in Datasets /\ file[o].parent = 1 /\ ~Hidden(o)
          /\ Path(o) = <<Dataset(p).name>>
      BY <2>1, <3>1, PlannedPath
    <3>3. /\ \A x \in Objects : There(x)
          /\ addr[1] = SuperblockSize /\ blocks[0].root = SuperblockSize
      BY <2>1, <2>4, AllThere
    <3>4. o \in Objects /\ o # 1
      BY <2>2
    <3>5. Resolve(Path(o)) = addr[o]
      BY <2>1, <3>2, <3>3, <3>4, ResolveLemma
    <3>6. Reads(o, addr[o])
      BY <2>1, <3>3, <3>4, ReadsThere
    <3> QED
      BY <3>1, <3>2, <3>5, <3>6
  <2> QED
    BY <2>1, <2>3, <2>4 DEF FromPlan
<1> QED
  BY <1>1, <1>2 DEF CreatedTogether

LEMMA NotWritten ==
  ASSUME CreateInv, file = << >>
  PROVE  ~Written
BY DEF CreateInv, Untouched, Written

LEMMA AlwaysCreateInv == CreateSpec => []CreateInv
<1>1. CreateInit => CreateInv
  BY CreateInitInv
<1>2. CreateInv /\ [Create \/ Write]_allVars => CreateInv'
  BY CreateStep
<1> QED
  BY <1>1, <1>2, PTL DEF CreateSpec

\* Whether datasets were added to a FileWriter or created together by several
\* threads and merged, pass 2 of finish hands out the addresses at which
\* headers, attribute heaps and data are appended (file_writer.rs).
THEOREM CreatedAddressesHold == CreateSpec => []AddressesHold
<1>1. CreateInv => AddressesHold
  <2> SUFFICES ASSUME CreateInv PROVE AddressesHold
    OBVIOUS
  <2>1. CASE file = << >>
    BY <2>1, NotWritten DEF AddressesHold
  <2>2. CASE file # << >>
    BY <2>2, AddressesFollow DEF CreateInv
  <2> QED
    BY <2>1, <2>2
<1> QED
  BY <1>1, AlwaysCreateInv, PTL

\* As long as no message is longer than its two bytes of length can say, every
\* object of a written file is found under its path, with all its attributes
\* and its own data, unless an object of the same name hides it.
THEOREM WrittenReadsBack ==
  ASSUME MessagesFit
  PROVE  CreateSpec => []ReadsBack
<1>1. CreateInv => ReadsBack
  <2> SUFFICES ASSUME CreateInv PROVE ReadsBack
    OBVIOUS
  <2>1. CASE file = << >>
    BY <2>1, NotWritten DEF ReadsBack
  <2>2. CASE file # << >>
    BY <2>2, ReadsBackFollows, PlannedFits DEF CreateInv
  <2> QED
    BY <2>1, <2>2
<1> QED
  BY <1>1, AlwaysCreateInv, PTL

\* Under the same condition, datasets created by several threads are each in the
\* file once, found by name with their attributes and data, in the order of
\* their names, whatever order the blocks were filled and handed over in; and
\* merging them fails only if two have the same name (finalize_parallel,
\* merge_blocks).
THEOREM AlwaysCreatedTogether ==
  ASSUME MessagesFit
  PROVE  CreateSpec => []CreatedTogether
<1>1. CreateInv => CreatedTogether
  BY CreatedTogetherFollows
<1> QED
  BY <1>1, AlwaysCreateInv, PTL
===============================================================================
