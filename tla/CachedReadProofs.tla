--------------------------- MODULE CachedReadProofs ---------------------------
(***************************************************************************)
(* Proofs about ChunkCache for all coordinates, data, sizes and limits;     *)
(* about CachedRead for all threads, chunk indexes, cache limits and        *)
(* numbers of clear()s, when the cache serves one dataset; and about        *)
(* SweepRead for all files, datasets, cache limits, windows and ranks.      *)
(***************************************************************************)
EXTENDS CachedRead, SweepRead, Induction, FiniteSetTheorems, WellFoundedInduction, TLAPS

\* The inductive invariant: the stated invariants need one another.  An insert
\* can respect the byte budget only if current_bytes is exact, current_bytes
\* stays exact under eviction only if no two slots share a coordinate, and the
\* next insert's tick is fresh only if no slot is newer than tick.
IInv ==
  /\ TypeOK
  /\ IsFiniteSet(slots)
  /\ ByteAccounting
  /\ WithinLimits
  /\ OneSlotPerCoord
  /\ AccessOrder
  /\ OnlyZeroSlotsPoison

UniqueCoords(S) == \A s, t \in S : s.coord = t.coord => s = t

LEMMA BytesFinite ==
  ASSUME NEW S \in SUBSET Slot, IsFiniteSet(S)
  PROVE  IsFiniteSet(BytesOf(S)) /\ ByteCount(S) \in Nat
<1> DEFINE Bytes(s) == {s.coord} \X (1 .. Size[s.data])
           f == [s \in S |-> Bytes(s)]
           Family == {Bytes(s) : s \in S}
<1>1. IsFiniteSet(Family)
  <2>1. f \in Surjection(S, Family)
    BY DEF Surjection
  <2> QED
    BY <2>1, FS_Surjection
<1>2. ASSUME NEW T \in Family PROVE IsFiniteSet(T)
  <2>1. PICK s \in S : T = Bytes(s)
    OBVIOUS
  <2>2. Size[s.data] \in Int
    BY SizeAssumption DEF Slot
  <2>3. IsFiniteSet({s.coord})
    BY FS_Singleton
  <2>4. IsFiniteSet(1 .. Size[s.data])
    BY <2>2, FS_Interval
  <2> QED
    BY <2>1, <2>3, <2>4, FS_Product
<1>3. IsFiniteSet(UNION Family)
  BY <1>1, <1>2, FS_UNION
<1> QED
  BY <1>3, FS_CardinalityType DEF BytesOf, ByteCount

LEMMA AddFresh ==
  ASSUME NEW S, IsFiniteSet(S), NEW x, x \notin S
  PROVE  Cardinality(S \cup {x}) = Cardinality(S) + 1
BY FS_AddElement

LEMMA BytesOfOne ==
  ASSUME NEW s \in Slot
  PROVE  ByteCount({s}) = Size[s.data]
<1>1. BytesOf({s}) = {s.coord} \X (1 .. Size[s.data])
  BY DEF BytesOf
<1>2. Size[s.data] \in Nat
  BY SizeAssumption DEF Slot
<1>3. IsFiniteSet({s.coord}) /\ Cardinality({s.coord}) = 1
  BY FS_Singleton
<1>4. /\ IsFiniteSet(1 .. Size[s.data])
      /\ Cardinality(1 .. Size[s.data]) = Size[s.data]
  <2>1. PICK n \in Nat : n = Size[s.data]
    BY <1>2
  <2>2. 1 \in Int /\ n \in Int /\ (IF 1 > n THEN 0 ELSE n - 1 + 1) = n
    OBVIOUS
  <2>3. IsFiniteSet(1 .. n) /\ Cardinality(1 .. n) = IF 1 > n THEN 0 ELSE n - 1 + 1
    BY <2>2, FS_Interval, Zenon
  <2> QED
    BY <2>1, <2>2, <2>3
<1>5. Cardinality({s.coord} \X (1 .. Size[s.data]))
        = Cardinality({s.coord}) * Cardinality(1 .. Size[s.data])
  BY <1>3, <1>4, FS_Product
<1>6. Cardinality({s.coord} \X (1 .. Size[s.data])) = Size[s.data]
  BY <1>2, <1>3, <1>4, <1>5
<1> QED
  BY <1>1, <1>6 DEF ByteCount

\* Slots with different coordinates share no byte.
LEMMA BytesDisjoint ==
  ASSUME NEW S \in SUBSET Slot, IsFiniteSet(S),
         NEW T \in SUBSET Slot, IsFiniteSet(T),
         \A s \in S, t \in T : s.coord # t.coord
  PROVE  ByteCount(S \cup T) = ByteCount(S) + ByteCount(T)
<1>1. BytesOf(S \cup T) = BytesOf(S) \cup BytesOf(T)
  BY DEF BytesOf
<1>2. BytesOf(S) \cap BytesOf(T) = {}
  BY DEF BytesOf
<1>3. IsFiniteSet(BytesOf(S)) /\ IsFiniteSet(BytesOf(T))
      /\ ByteCount(S) \in Nat /\ ByteCount(T) \in Nat
  BY BytesFinite
<1>4. Cardinality(BytesOf(S) \cup BytesOf(T))
        = Cardinality(BytesOf(S)) + Cardinality(BytesOf(T)) - Cardinality({})
  BY <1>2, <1>3, FS_Union
<1>5. Cardinality({}) = 0
  BY FS_EmptySet
<1>6. ByteCount(S \cup T) = ByteCount(S) + ByteCount(T) - 0
  BY <1>1, <1>4, <1>5 DEF ByteCount
<1> QED
  BY <1>3, <1>6

LEMMA BytesLeft ==
  ASSUME NEW S \in SUBSET Slot, IsFiniteSet(S), UniqueCoords(S),
         NEW V \in SUBSET S
  PROVE  /\ ByteCount(S \ V) = ByteCount(S) - ByteCount(V)
         /\ ByteCount(S \ V) \in Nat
         /\ IsFiniteSet(S \ V)
<1>1. IsFiniteSet(V) /\ IsFiniteSet(S \ V)
  BY FS_Subset
<1>2. \A s \in S \ V, t \in V : s.coord # t.coord
  BY DEF UniqueCoords
<1>3. ByteCount((S \ V) \cup V) = ByteCount(S \ V) + ByteCount(V)
  BY <1>1, <1>2, BytesDisjoint
<1>4. (S \ V) \cup V = S
  OBVIOUS
<1>5. ByteCount(S) = ByteCount(S \ V) + ByteCount(V)
  BY <1>3, <1>4, Zenon
<1>6. ByteCount(S \ V) \in Nat /\ ByteCount(V) \in Nat /\ ByteCount(S) \in Nat
  BY <1>1, BytesFinite
<1> QED
  BY <1>1, <1>5, <1>6

LEMMA NoBytes == ByteCount({}) = 0 /\ Cardinality({}) = 0 /\ IsFiniteSet({})
<1>1. BytesOf({}) = {}
  BY DEF BytesOf
<1> QED
  BY <1>1, FS_EmptySet DEF ByteCount
-------------------------------------------------------------------------------
\* Refreshing a slot's age moves no data and keeps the slots apart.
LEMMA TouchLemma ==
  ASSUME IInv, NEW c, NextTick, slots' = Touched(c)
  PROVE  /\ slots' \in SUBSET Slot
         /\ IsFiniteSet(slots')
         /\ Cardinality(slots') <= Cardinality(slots)
         /\ ByteCount(slots') = ByteCount(slots)
         /\ OneSlotPerCoord'
         /\ AccessOrder'
<1> DEFINE touch(s) == IF s.coord = c THEN [s EXCEPT !.last = tick + 1] ELSE s
           f == [s \in slots |-> touch(s)]
<1>1. slots' = {touch(s) : s \in slots} /\ tick' = tick + 1 /\ tick \in Nat
  BY DEF Touched, NextTick, IInv, TypeOK
<1>2. \A s \in slots : /\ touch(s) \in Slot
                       /\ touch(s).coord = s.coord
                       /\ touch(s).data = s.data
                       /\ touch(s).last = IF s.coord = c THEN tick + 1 ELSE s.last
  <2> SUFFICES ASSUME NEW s \in slots
               PROVE  /\ touch(s) \in Slot
                      /\ touch(s).coord = s.coord
                      /\ touch(s).data = s.data
                      /\ touch(s).last = IF s.coord = c THEN tick + 1 ELSE s.last
    OBVIOUS
  <2>1. s \in Slot
    BY DEF IInv, TypeOK
  <2>2. CASE s.coord = c
    BY <1>1, <2>1, <2>2 DEF Slot
  <2>3. CASE s.coord # c
    BY <2>1, <2>3
  <2> QED
    BY <2>2, <2>3
<1> HIDE DEF touch
<1>3. slots' \in SUBSET Slot
  BY <1>1, <1>2
<1>4. f \in Surjection(slots, slots')
  BY <1>1 DEF Surjection
<1>5. IsFiniteSet(slots') /\ Cardinality(slots') <= Cardinality(slots)
  BY <1>4, FS_Surjection DEF IInv
<1>6. BytesOf(slots') = BytesOf(slots)
  <2>1. \A t \in slots' : \E s \in slots : t.coord = s.coord /\ t.data = s.data
    BY <1>1, <1>2
  <2>2. \A s \in slots : \E t \in slots' : t.coord = s.coord /\ t.data = s.data
    BY <1>1, <1>2
  <2> QED
    BY <2>1, <2>2 DEF BytesOf
<1>7. OneSlotPerCoord'
  BY <1>1, <1>2 DEF IInv, OneSlotPerCoord
<1>8. AccessOrder'
  BY <1>1, <1>2 DEF IInv, TypeOK, AccessOrder, OneSlotPerCoord, Slot
<1> QED
  BY <1>3, <1>5, <1>6, <1>7, <1>8 DEF ByteCount

\* So an operation that only refreshes ages keeps the invariant.
LEMMA TouchKeeps ==
  ASSUME IInv, NEW c, NextTick, slots' = Touched(c), TypeOK',
         UNCHANGED <<currentBytes, maxBytes, maxSlots, poisoned>>
  PROVE  IInv'
<1>1. /\ IsFiniteSet(slots')
      /\ Cardinality(slots') <= Cardinality(slots)
      /\ ByteCount(slots') = ByteCount(slots)
      /\ OneSlotPerCoord'
      /\ AccessOrder'
  BY TouchLemma
<1>2. Cardinality(slots) \in Nat /\ Cardinality(slots') \in Nat
  BY <1>1, FS_CardinalityType DEF IInv
<1>3. ByteCount(slots)' = ByteCount(slots')
  BY DEF ByteCount, BytesOf
<1>4. ByteAccounting' /\ WithinLimits'
  BY <1>1, <1>2, <1>3 DEF IInv, TypeOK, ByteAccounting, WithinLimits
<1> QED
  BY <1>1, <1>4 DEF IInv, OnlyZeroSlotsPoison

\* When the eviction loop stops there is room for the new chunk.
LEMMA RoomLemma ==
  ASSUME IInv, NEW V \in SUBSET slots, NEW len \in Nat, len <= maxBytes,
         ~StillFull(V, len)
  PROVE  /\ IsFiniteSet(slots \ V)
         /\ Cardinality(slots \ V) < maxSlots
         /\ currentBytes - ByteCount(V) = ByteCount(slots \ V)
         /\ ByteCount(slots \ V) \in Nat
         /\ ByteCount(slots \ V) + len <= maxBytes
<1>1. /\ slots \in SUBSET Slot /\ IsFiniteSet(slots) /\ UniqueCoords(slots)
      /\ currentBytes = ByteCount(slots) /\ maxBytes \in Nat /\ maxSlots \in Nat
  BY DEF IInv, TypeOK, OneSlotPerCoord, UniqueCoords, ByteAccounting
<1>2. /\ ByteCount(slots \ V) = ByteCount(slots) - ByteCount(V)
      /\ ByteCount(slots \ V) \in Nat
      /\ IsFiniteSet(slots \ V)
  BY <1>1, BytesLeft
<1>3. Cardinality(slots \ V) \in Nat
  BY <1>2, FS_CardinalityType
<1>4. Cardinality(slots \ V) < maxSlots
  BY <1>1, <1>3 DEF StillFull
<1>5. ByteCount(slots \ V) + len <= maxBytes
  <2>1. CASE slots \ V = {}
    BY <1>1, <2>1, NoBytes
  <2>2. CASE slots \ V # {}
    BY <1>1, <1>2, <2>2 DEF StillFull
  <2> QED
    BY <2>1, <2>2
<1> QED
  BY <1>1, <1>2, <1>4, <1>5

LEMMA InsertLemma ==
  ASSUME IInv, NEW c \in Coord, NEW d \in Data, PutAbsent(c, d)
  PROVE  /\ slots' \in SUBSET Slot
         /\ IsFiniteSet(slots')
         /\ Cardinality(slots') <= maxSlots
         /\ currentBytes' = ByteCount(slots')
         /\ currentBytes' \in Nat
         /\ currentBytes' <= maxBytes
         /\ OneSlotPerCoord'
         /\ AccessOrder'
<1> DEFINE new == [coord |-> c, data |-> d, last |-> tick + 1]
           len == Size[d]
<1>1. /\ slots \in SUBSET Slot /\ tick \in Nat /\ tick' = tick + 1
      /\ maxSlots \in Nat /\ maxBytes \in Nat
  BY DEF IInv, TypeOK, PutAbsent, NextTick
<1>2. new \in Slot /\ new.coord = c /\ new.data = d /\ len \in Nat /\ len <= maxBytes
  BY <1>1, SizeAssumption DEF Slot, PutAbsent
<1>3. PICK V \in SUBSET slots :
        /\ ~StillFull(V, len)
        /\ slots' = (slots \ V) \cup {new}
        /\ currentBytes' = currentBytes - ByteCount(V) + len
  BY DEF PutAbsent, Evicts, BytesAfter
<1>4. /\ IsFiniteSet(slots \ V)
      /\ Cardinality(slots \ V) < maxSlots
      /\ currentBytes - ByteCount(V) = ByteCount(slots \ V)
      /\ ByteCount(slots \ V) \in Nat
      /\ ByteCount(slots \ V) + len <= maxBytes
  BY <1>2, <1>3, RoomLemma
<1>5. \A s \in slots \ V : s.coord # c
  BY DEF PutAbsent, Cached
<1>6. slots' \in SUBSET Slot
  BY <1>1, <1>2, <1>3
<1>7. /\ IsFiniteSet(slots')
      /\ Cardinality(slots') <= maxSlots
  <2>1. Cardinality(slots \ V) \in Nat
    BY <1>4, FS_CardinalityType
  <2>2. /\ IsFiniteSet((slots \ V) \cup {new})
        /\ \/ Cardinality((slots \ V) \cup {new}) = Cardinality(slots \ V)
           \/ Cardinality((slots \ V) \cup {new}) = Cardinality(slots \ V) + 1
    BY <1>4, FS_AddElement
  <2> QED
    BY <1>1, <1>3, <1>4, <2>1, <2>2
<1>8. ByteCount(slots') = ByteCount(slots \ V) + len
  <2>1. IsFiniteSet({new}) /\ {new} \in SUBSET Slot /\ (slots \ V) \in SUBSET Slot
    BY <1>1, <1>2, FS_Singleton
  <2>2. \A s \in slots \ V, t \in {new} : s.coord # t.coord
    BY <1>2, <1>5
  <2>3. ByteCount((slots \ V) \cup {new}) = ByteCount(slots \ V) + ByteCount({new})
    BY <1>4, <2>1, <2>2, BytesDisjoint
  <2>4. ByteCount({new}) = len
    BY <1>2, BytesOfOne
  <2> QED
    BY <1>3, <2>3, <2>4
<1>9. OneSlotPerCoord'
  BY <1>2, <1>3, <1>5 DEF IInv, OneSlotPerCoord
<1>10. AccessOrder'
  BY <1>1, <1>2, <1>3 DEF IInv, AccessOrder, Slot
<1> QED
  BY <1>2, <1>3, <1>4, <1>6, <1>7, <1>8, <1>9, <1>10
-------------------------------------------------------------------------------
LEMMA InitLemma == CacheInit => IInv
<1> SUFFICES ASSUME CacheInit PROVE IInv
  OBVIOUS
<1>1. maxBytes \in Nat /\ maxSlots \in Nat
  BY LimitAssumption DEF CacheInit
<1>2. TypeOK
  BY <1>1 DEF CacheInit, TypeOK, AccessStats
<1>3. slots = {} /\ currentBytes = 0 /\ poisoned = FALSE
  BY DEF CacheInit
<1>4. ByteAccounting /\ WithinLimits /\ IsFiniteSet(slots)
  BY <1>1, <1>3, NoBytes DEF ByteAccounting, WithinLimits
<1> QED
  BY <1>2, <1>3, <1>4
  DEF IInv, OneSlotPerCoord, AccessOrder, OnlyZeroSlotsPoison

\* The last entry of a listed coordinate is one for that coordinate.
LEMMA LastEntryLemma ==
  ASSUME NEW l \in Listing, NEW c \in ListedCoords(l)
  PROVE  LastEntry(l, c) \in ChunkInfo /\ CoordOf(LastEntry(l, c), l.rank) = c
<1> DEFINE Matches(i) == CoordOf(l.chunks[i], l.rank) = c
           IsLast(i) == /\ Matches(i)
                      /\ \A j \in DOMAIN l.chunks : Matches(j) => j <= i
           n == Len(l.chunks)
           M == {i \in 1 .. n : Matches(i)}
<1>1. /\ l.chunks \in Seq(ChunkInfo) /\ n \in Nat /\ DOMAIN l.chunks = 1 .. n
  BY ListingAssumption
<1>2. M # {}
  BY <1>1 DEF ListedCoords
<1>3. \E i \in M : \A j \in M : j <= i
  <2> DEFINE R == {m \in Nat : \E i \in M : m = n - i}
  <2>1. PICK k \in M : TRUE
    BY <1>2
  <2>2. R \in SUBSET Nat /\ n - k \in R
    BY <1>1, <2>1
  <2>3. PICK m \in R : \A r \in R : m <= r
    BY <2>2, NatMin
  <2>4. PICK i \in M : m = n - i
    BY <2>3
  <2>5. ASSUME NEW j \in M PROVE j <= i
    <3>1. n - j \in R
      BY <1>1
    <3>2. n - i <= n - j
      BY <2>3, <2>4, <3>1
    <3> QED
      BY <1>1, <3>2
  <2> QED
    BY <2>5
<1>4. \E i \in DOMAIN l.chunks : IsLast(i)
  BY <1>1, <1>3
<1> DEFINE i0 == CHOOSE i \in DOMAIN l.chunks : IsLast(i)
<1>5. i0 \in DOMAIN l.chunks
  <2> HIDE DEF IsLast
  <2> QED
    BY <1>4
<1>6. l.chunks[i0] \in ChunkInfo
  <2> HIDE DEF i0
  <2> QED
    BY <1>1, <1>5
<1>7. CoordOf(l.chunks[i0], l.rank) = c
  <2>1. IsLast(i0)
    <3> HIDE DEF IsLast
    <3> QED
      BY <1>4
  <2> QED
    BY <2>1
<1> QED
  BY <1>6, <1>7 DEF LastEntry

LEMMA IndexOfType ==
  ASSUME NEW l \in Listing
  PROVE  IndexOf(l) \in Indexes(Coord)
<1>1. ListedCoords(l) \in SUBSET Coord
  BY ListingAssumption
<1>2. \A c \in ListedCoords(l) : LastEntry(l, c) \in ChunkInfo
  BY LastEntryLemma
<1> QED
  BY <1>1, <1>2 DEF IndexOf, Indexes

LEMMA PanicLemma ==
  ASSUME IInv, NEW c \in Coord, NEW d \in Data, PutPanics(c, d)
  PROVE  IInv'
<1>1. slots \ slots = {} /\ maxSlots \in Nat /\ maxSlots' = maxSlots
  BY DEF IInv, TypeOK, PutPanics
<1>2. maxSlots = 0
  BY <1>1, NoBytes DEF PutPanics, StillFull
<1>3. slots' = {} /\ currentBytes' = 0
  <2>1. currentBytes \in Nat /\ currentBytes = ByteCount(slots)
    BY DEF IInv, TypeOK, ByteAccounting
  <2> QED
    BY <2>1 DEF PutPanics
<1>4. TypeOK'
  BY <1>3 DEF PutPanics, NextTick, IInv, TypeOK
<1>5. ByteAccounting' /\ WithinLimits' /\ IsFiniteSet(slots')
  BY <1>1, <1>3, NoBytes DEF PutPanics, IInv, TypeOK, ByteAccounting, WithinLimits
<1> QED
  BY <1>1, <1>2, <1>3, <1>4, <1>5
  DEF IInv, OneSlotPerCoord, AccessOrder, OnlyZeroSlotsPoison

LEMMA StepLemma == IInv /\ [CacheNext]_cacheVars => IInv'
<1> SUFFICES ASSUME IInv, [CacheNext]_cacheVars PROVE IInv'
  OBVIOUS
<1> USE DEF cacheVars
<1>1. ASSUME NEW l \in Listing, PopulateIndex(l) PROVE IInv'
  <2>1. index' \in Indexes(Coord) \cup {None}
    BY <1>1, IndexOfType DEF PopulateIndex, IInv, TypeOK
  <2> QED
    BY <1>1, <2>1 DEF PopulateIndex, IInv, TypeOK, ByteAccounting, WithinLimits,
       OneSlotPerCoord, AccessOrder, OnlyZeroSlotsPoison, ByteCount, BytesOf
<1>2. ASSUME NEW c \in Coord, GetDecompressed(c) PROVE IInv'
  <2>1. stats' \in AccessStats
    BY <1>2 DEF GetDecompressed, CountAccess, IInv, TypeOK, AccessStats
  <2>2. NextTick /\ slots' = Touched(c)
    BY <1>2 DEF GetDecompressed
  <2>3. TypeOK'
    BY <1>2, <2>1, <2>2, TouchLemma DEF GetDecompressed, NextTick, IInv, TypeOK
  <2> QED
    BY <1>2, <2>2, <2>3, TouchKeeps DEF GetDecompressed
<1>3. ASSUME NEW c \in Coord, GetDecompressedAligned(c) PROVE IInv'
  <2>1. NextTick /\ slots' = Touched(c)
    BY <1>3 DEF GetDecompressedAligned
  <2>2. TypeOK'
    BY <1>3, <2>1, TouchLemma DEF GetDecompressedAligned, NextTick, IInv, TypeOK
  <2> QED
    BY <1>3, <2>1, <2>2, TouchKeeps DEF GetDecompressedAligned
<1>4. ASSUME NEW c \in Coord, NEW d \in Data, PutDecompressed(c, d) PROVE IInv'
  <2>1. CASE PutTooLarge(c, d)
    BY <2>1 DEF PutTooLarge, IInv, TypeOK, ByteAccounting, WithinLimits,
       OneSlotPerCoord, AccessOrder, OnlyZeroSlotsPoison, ByteCount, BytesOf
  <2>2. CASE PutPresent(c, d)
    <3>1. NextTick /\ slots' = Touched(c)
      BY <2>2 DEF PutPresent
    <3>2. TypeOK'
      BY <2>2, <3>1, TouchLemma DEF PutPresent, NextTick, IInv, TypeOK
    <3> QED
      BY <2>2, <3>1, <3>2, TouchKeeps DEF PutPresent
  <2>3. CASE PutAbsent(c, d)
    <3>1. /\ slots' \in SUBSET Slot
          /\ IsFiniteSet(slots')
          /\ Cardinality(slots') <= maxSlots
          /\ currentBytes' = ByteCount(slots')
          /\ currentBytes' \in Nat
          /\ currentBytes' <= maxBytes
          /\ OneSlotPerCoord' /\ AccessOrder'
      BY <2>3, InsertLemma
    <3>2. ByteCount(slots)' = ByteCount(slots')
      BY DEF ByteCount, BytesOf
    <3>3. TypeOK'
      BY <2>3, <3>1 DEF PutAbsent, NextTick, IInv, TypeOK
    <3>4. ByteAccounting' /\ WithinLimits'
      BY <2>3, <3>1, <3>2 DEF PutAbsent, ByteAccounting, WithinLimits
    <3> QED
      BY <2>3, <3>1, <3>3, <3>4 DEF PutAbsent, IInv, OnlyZeroSlotsPoison
  <2>4. CASE PutPanics(c, d)
    BY <2>4, PanicLemma
  <2> QED
    BY <1>4, <2>1, <2>2, <2>3, <2>4 DEF PutDecompressed
<1>5. CASE Clear
  <2>1. slots' = {} /\ currentBytes' = 0
    BY <1>5 DEF Clear
  <2> QED
    BY <1>5, <2>1, NoBytes DEF Clear, IInv, TypeOK, AccessStats, ByteAccounting,
       WithinLimits, OneSlotPerCoord, AccessOrder, OnlyZeroSlotsPoison
<1>6. ASSUME NEW coords \in SUBSET Coord, PrefetchHint(coords) PROVE IInv'
  <2>1. stats' \in AccessStats
    <3>1. Cardinality(coords \cap DOMAIN index) \in Nat
      BY CoordAssumption, FS_Subset, FS_Intersection, FS_CardinalityType
    <3> QED
      BY <1>6, <3>1 DEF PrefetchHint, IInv, TypeOK, AccessStats
  <2> QED
    BY <1>6, <2>1 DEF PrefetchHint, IInv, TypeOK, ByteAccounting, WithinLimits,
       OneSlotPerCoord, AccessOrder, OnlyZeroSlotsPoison, ByteCount, BytesOf
<1>7. ASSUME NEW label \in Directions, SetSweepDirection(label) PROVE IInv'
  <2>1. stats' \in AccessStats
    BY <1>7 DEF SetSweepDirection, IInv, TypeOK, AccessStats
  <2> QED
    BY <1>7, <2>1 DEF SetSweepDirection, IInv, TypeOK, ByteAccounting, WithinLimits,
       OneSlotPerCoord, AccessOrder, OnlyZeroSlotsPoison, ByteCount, BytesOf
<1>8. CASE UNCHANGED cacheVars
  BY <1>8 DEF IInv, TypeOK, ByteAccounting, WithinLimits, OneSlotPerCoord,
     AccessOrder, OnlyZeroSlotsPoison, ByteCount, BytesOf
<1> QED
  BY <1>1, <1>2, <1>3, <1>4, <1>5, <1>6, <1>7, <1>8 DEF CacheNext
-------------------------------------------------------------------------------
\* The invariants above hold in every state of every behaviour.
THEOREM CacheInvariant == CacheSpec => []IInv
BY InitLemma, StepLemma, PTL DEF CacheSpec

\* current_bytes is exact and both limits hold, for every budget, slot count
\* and chunk size.
THEOREM CacheWithinLimits == CacheSpec => [](ByteAccounting /\ WithinLimits)
<1>1. IInv => ByteAccounting /\ WithinLimits
  BY DEF IInv
<1> QED
  BY <1>1, CacheInvariant, PTL

\* No coordinate is cached twice, and ages order the slots strictly.
THEOREM CacheSlotsApart == CacheSpec => [](OneSlotPerCoord /\ AccessOrder)
<1>1. IInv => OneSlotPerCoord /\ AccessOrder
  BY DEF IInv
<1> QED
  BY <1>1, CacheInvariant, PTL

\* Only a cache without slots can poison its Mutex.
THEOREM CachePoison == CacheSpec => []OnlyZeroSlotsPoison
<1>1. IInv => OnlyZeroSlotsPoison
  BY DEF IInv
<1> QED
  BY <1>1, CacheInvariant, PTL

\* What one insert drops is the set its eviction loop chose.
LEMMA DroppedLemma ==
  ASSUME IInv, NEW c \in Coord, NEW d \in Data, ~Cached(c),
         NEW V \in SUBSET slots,
         slots' = (slots \ V) \cup {[coord |-> c, data |-> d, last |-> tick + 1]}
  PROVE  Dropped = V /\ Kept = slots \ V
BY DEF Dropped, Kept, Cached, IInv, OneSlotPerCoord

\* The least recently used slots go first, and never one too many.
LEMMA EvictionLemma ==
  ASSUME IInv, NEW c \in Coord, NEW d \in Data, PutAbsent(c, d),
         NEW s \in Dropped
  PROVE  /\ \A k \in Kept : s.last < k.last
         /\ (\A t \in Dropped : t.last <= s.last)
              => \/ Cardinality(slots') >= maxSlots
                 \/ ByteCount(slots' \cup {s}) > maxBytes
<1> DEFINE new == [coord |-> c, data |-> d, last |-> tick + 1]
           len == Size[d]
<1>1. PICK V \in SUBSET slots :
        /\ Evicts(V, len)
        /\ slots' = (slots \ V) \cup {new}
  BY DEF PutAbsent
<1>2. Dropped = V /\ Kept = slots \ V
  BY <1>1, DroppedLemma DEF PutAbsent
<1>3. \A k \in Kept : s.last < k.last
  BY <1>1, <1>2 DEF Evicts, OldestFirst
<1>4. ASSUME \A t \in Dropped : t.last <= s.last
      PROVE  \/ Cardinality(slots') >= maxSlots
             \/ ByteCount(slots' \cup {s}) > maxBytes
  <2> DEFINE W == V \ {s}
             rest == slots \ V
  <2>1. /\ slots \in SUBSET Slot /\ tick \in Nat /\ IsFiniteSet(slots)
        /\ maxSlots \in Nat /\ maxBytes \in Nat /\ UniqueCoords(slots)
        /\ currentBytes = ByteCount(slots)
    BY DEF IInv, TypeOK, OneSlotPerCoord, UniqueCoords, ByteAccounting
  <2>2. new \in Slot /\ new.coord = c /\ new.data = d /\ len \in Nat
    BY <2>1, SizeAssumption DEF Slot
  <2>3. s \in V /\ s \in Slot /\ s.coord # c
    BY <1>2, <2>1 DEF Cached, PutAbsent
  <2>4. OldestFirst(W)
    <3> SUFFICES ASSUME NEW v \in W, NEW t \in slots \ W PROVE v.last < t.last
      BY DEF OldestFirst
    <3>1. v \in V /\ v # s /\ v.last <= s.last /\ v.last # s.last
      BY <1>2, <1>4 DEF IInv, AccessOrder
    <3>2. CASE t = s
      BY <2>1, <3>1, <3>2 DEF Slot
    <3>3. CASE t # s
      BY <1>1, <3>1, <3>3 DEF Evicts, OldestFirst
    <3> QED
      BY <3>2, <3>3
  <2>5. StillFull(W, len)
    BY <1>1, <2>3, <2>4 DEF Evicts
  <2>6. /\ slots \ W = rest \cup {s} /\ s \notin rest /\ new \notin rest
    BY <2>2, <2>3 DEF PutAbsent, Cached
  <2>7. /\ ByteCount(rest) = ByteCount(slots) - ByteCount(V)
        /\ ByteCount(slots \ W) = ByteCount(slots) - ByteCount(W)
        /\ ByteCount(rest) \in Nat /\ IsFiniteSet(rest)
        /\ ByteCount(slots \ W) \in Nat /\ IsFiniteSet(slots \ W)
    BY <2>1, BytesLeft
  <2>8. CASE Cardinality(slots \ W) >= maxSlots
    <3>1. Cardinality(rest \cup {new}) = Cardinality(rest) + 1
      BY <2>6, <2>7, AddFresh
    <3>2. Cardinality(rest \cup {s}) = Cardinality(rest) + 1
      BY <2>6, <2>7, AddFresh
    <3>3. slots' = rest \cup {new} /\ slots \ W = rest \cup {s}
      BY <1>1, <2>6
    <3> QED
      BY <2>8, <3>1, <3>2, <3>3
  <2>9. CASE currentBytes - ByteCount(W) + len > maxBytes
    <3>1. slots' \cup {s} = (slots \ W) \cup {new}
      BY <1>1, <2>6
    <3>2. \A t \in slots \ W, u \in {new} : t.coord # u.coord
      BY <2>2 DEF PutAbsent, Cached
    <3>3. IsFiniteSet({new}) /\ {new} \in SUBSET Slot /\ (slots \ W) \in SUBSET Slot
      BY <2>1, <2>2, FS_Singleton
    <3>4. ByteCount((slots \ W) \cup {new}) = ByteCount(slots \ W) + ByteCount({new})
      BY <2>7, <3>2, <3>3, BytesDisjoint
    <3>5. ByteCount({new}) = len
      BY <2>2, BytesOfOne
    <3>6. ByteCount(slots' \cup {s}) = ByteCount(slots \ W) + len
      BY <3>1, <3>4, <3>5
    <3>7. currentBytes - ByteCount(W) = ByteCount(slots \ W)
      BY <2>1, <2>7
    <3>8. ByteCount(slots \ W) + len > maxBytes
      BY <2>9, <3>7
    <3> QED
      BY <3>6, <3>8
  <2> QED
    BY <2>5, <2>8, <2>9 DEF StillFull
<1> QED
  BY <1>3, <1>4

\* An operation other than an insert or a clear drops nothing.
LEMMA TouchDropsNothing ==
  ASSUME NEW c, slots' = Touched(c)
  PROVE  Dropped = {}
<1> SUFFICES ASSUME NEW s \in slots PROVE \E t \in slots' : t.coord = s.coord
  BY DEF Dropped
<1> DEFINE t == IF s.coord = c THEN [s EXCEPT !.last = tick + 1] ELSE s
<1>1. t \in slots'
  BY DEF Touched
<1>2. t.coord = s.coord
  OBVIOUS
<1> QED
  BY <1>1, <1>2

LEMMA EvictionStep ==
  ASSUME IInv, [CacheNext]_cacheVars, tick' > tick, NEW s \in Dropped
  PROVE  /\ \A k \in Kept : s.last < k.last
         /\ (\A t \in Dropped : t.last <= s.last)
              => \/ Cardinality(slots') >= maxSlots
                 \/ ByteCount(slots' \cup {s}) > maxBytes
<1>1. tick \in Nat
  BY DEF IInv, TypeOK
<1>2. \/ \E c \in Coord : slots' = Touched(c)
      \/ \E c \in Coord, d \in Data : PutAbsent(c, d) \/ PutPanics(c, d)
      \/ slots' = slots
  <2>1. CASE \E l \in Listing : PopulateIndex(l)
    BY <2>1 DEF PopulateIndex
  <2>2. CASE \E c \in Coord : GetDecompressed(c) \/ GetDecompressedAligned(c)
    BY <2>2 DEF GetDecompressed, GetDecompressedAligned
  <2>3. CASE \E c \in Coord, d \in Data : PutDecompressed(c, d)
    BY <2>3 DEF PutDecompressed, PutTooLarge, PutPresent, cacheVars
  <2>4. CASE Clear
    BY <1>1, <2>4 DEF Clear
  <2>5. CASE \E coords \in SUBSET Coord : PrefetchHint(coords)
    BY <2>5 DEF PrefetchHint
  <2>6. CASE \E label \in Directions : SetSweepDirection(label)
    BY <2>6 DEF SetSweepDirection
  <2>7. CASE UNCHANGED cacheVars
    BY <2>7 DEF cacheVars
  <2> QED
    BY <2>1, <2>2, <2>3, <2>4, <2>5, <2>6, <2>7 DEF CacheNext
<1>3. ASSUME NEW c \in Coord, slots' = Touched(c) PROVE FALSE
  BY <1>3, TouchDropsNothing
<1>4. ASSUME NEW c \in Coord, NEW d \in Data, PutPanics(c, d) PROVE FALSE
  <2>1. maxSlots = 0
    <3>1. slots \ slots = {}
      OBVIOUS
    <3>2. Cardinality(slots \ slots) >= maxSlots
      BY <1>4, <3>1 DEF PutPanics, StillFull
    <3>3. maxSlots \in Nat
      BY DEF IInv, TypeOK
    <3> QED
      BY <3>1, <3>2, <3>3, FS_EmptySet
  <2>2. slots = {}
    BY <2>1, FS_EmptySet, FS_CardinalityType DEF IInv, WithinLimits
  <2> QED
    BY <2>2 DEF Dropped
<1>5. ASSUME slots' = slots PROVE FALSE
  BY <1>5 DEF Dropped
<1> QED
  BY <1>2, <1>3, <1>4, <1>5, EvictionLemma

\* Evictions follow the least-recently-used order and stop as soon as the new
\* chunk fits.
THEOREM CacheEvictsLeastRecent == CacheSpec => EvictsLeastRecent
<1>1. IInv /\ [CacheNext]_cacheVars
        => (tick' > tick =>
              \A s \in Dropped :
                /\ \A k \in Kept : s.last < k.last
                /\ (\A t \in Dropped : t.last <= s.last)
                     => \/ Cardinality(slots') >= maxSlots
                        \/ ByteCount(slots' \cup {s}) > maxBytes)
  BY EvictionStep
<1> QED
  BY <1>1, CacheInvariant, PTL DEF CacheSpec, EvictsLeastRecent

-----------------------------------------------------------------------------
(* Reads through the cache. *)

Own(t) == Scan[dataset[t]]

\* The entries of an index built from l: the last one of each coordinate.
Entries(l) == {LastEntry(l, c) : c \in ListedCoords(l)}

\* The entries t has not copied: those of its snapshot and the one it decodes.
Waiting(t) == todo[t] \cup (IF pc[t] = "decode" THEN {missed[t]} ELSE {})

\* The chunk at c is in t's buffer, and none that cannot be decompressed.
Done(t, c) ==
  /\ ChunkOf(dataset[t], c) # Damaged
  /\ c \in Grid[dataset[t]] => out[t][c] = ChunkOf(dataset[t], c)

\* t's buffer holds the chunks of its dataset but for those still waiting.
Filling(t) ==
  /\ Waiting(t) \subseteq Entries(Own(t))
  /\ out[t] = [c \in Grid[dataset[t]] |-> out[t][c]]
  /\ \A c \in Grid[dataset[t]] \ ListedCoords(Own(t)) : out[t][c] = Zeros
  /\ \A c \in ListedCoords(Own(t)) :
       LastEntry(Own(t), c) \notin Waiting(t) => Done(t, c)

\* t listed the index after a clear(), and found none.
FoundNone(t) ==
  /\ clears > 0
  /\ pc[t] = "copy"
  /\ todo[t] = {}
  /\ out[t] = Blank[dataset[t]]

Types ==
  /\ pc \in [Threads -> {"idle", "check", "scan", "list", "copy", "decode", "panicked"}]
  /\ dataset \in [Threads -> Datasets]
  /\ DOMAIN todo = Threads
  /\ DOMAIN missed = Threads
  /\ DOMAIN out = Threads
  /\ DOMAIN answer = Threads
  /\ clears \in Nat
  /\ slots \subseteq Slot
  /\ tick \in Nat

SameDataset == \A t, u \in Threads : dataset[t] = dataset[u]

SlotIsTrue(t, s) ==
  /\ s.coord \in ListedCoords(Own(t))
  /\ s.data = ChunkOf(dataset[t], s.coord)
  /\ s.data # Damaged

SlotsAreTrue == \A t \in Threads : \A s \in slots : SlotIsTrue(t, s)

IndexIsTrue ==
  \A t \in Threads : index # None => Own(t) # Damaged /\ index = IndexOf(Own(t))

ListIsTrue(t) ==
  pc[t] \in {"list", "copy", "decode"} =>
    Own(t) # Damaged /\ (index = None => clears > 0)

BufferIsTrue(t) ==
  /\ pc[t] \in {"copy", "decode"} => Filling(t) \/ FoundNone(t)
  /\ pc[t] = "decode" => missed[t] \notin todo[t]

AnswerIsTrue(t) ==
  \/ answer[t] = NoAnswer
  \/ answer[t] = Answer[dataset[t]]
  \/ clears > 0 /\ answer[t] = Blank[dataset[t]]

ThreadIsTrue(t) == ListIsTrue(t) /\ BufferIsTrue(t) /\ AnswerIsTrue(t)

\* The inductive invariant: an answer is the buffer a read filled, which is
\* right because the slots and the index it was filled from are.
ReadInv ==
  /\ Types
  /\ SameDataset
  /\ SlotsAreTrue
  /\ IndexIsTrue
  /\ \A t \in Threads : ThreadIsTrue(t)
-------------------------------------------------------------------------------
\* An entry of an index is found at its coordinate, and at no other.
LEMMA EntryLemma ==
  ASSUME NEW l \in Listing, NEW info \in Entries(l)
  PROVE  /\ info \in ChunkInfo
         /\ CoordOf(info, l.rank) \in ListedCoords(l)
         /\ LastEntry(l, CoordOf(info, l.rank)) = info
<1>1. PICK c \in ListedCoords(l) : info = LastEntry(l, c)
  BY DEF Entries
<1>2. info \in ChunkInfo /\ CoordOf(info, l.rank) = c
  BY <1>1, LastEntryLemma
<1> QED
  BY <1>1, <1>2

LEMMA IndexIsSome ==
  ASSUME NEW l \in Listing
  PROVE  IndexOf(l) # None
<1>1. ListedCoords(l) \in SUBSET Coord
  BY ListingAssumption
<1>2. IndexOf(l) \in [ListedCoords(l) -> ChunkInfo]
  BY LastEntryLemma DEF IndexOf
<1> QED
  BY <1>1, <1>2, NoneAssumption

\* What a reader lists of an index built from l.
LEMMA SnapshotLemma ==
  ASSUME NEW l \in Listing, index = IndexOf(l)
  PROVE  Snapshot = Entries(l)
<1>1. index # None
  BY IndexIsSome
<1>2. DOMAIN index = ListedCoords(l) /\ \A c \in ListedCoords(l) : index[c] = LastEntry(l, c)
  BY DEF IndexOf
<1> QED
  BY <1>1, <1>2 DEF Snapshot, Entries

\* A lookup makes slots younger, and changes nothing else about them.
LEMMA TouchedLemma ==
  ASSUME slots \subseteq Slot, tick \in Nat, NEW c
  PROVE  /\ Touched(c) \subseteq Slot
         /\ \A s \in Touched(c) : \E r \in slots : s.coord = r.coord /\ s.data = r.data
<1> SUFFICES ASSUME NEW s \in Touched(c)
             PROVE  s \in Slot /\ \E r \in slots : s.coord = r.coord /\ s.data = r.data
  OBVIOUS
<1>1. PICK r \in slots : s = IF r.coord = c THEN [r EXCEPT !.last = tick + 1] ELSE r
  BY DEF Touched
<1>2. r \in Slot
  OBVIOUS
<1>3. s \in Slot /\ s.coord = r.coord /\ s.data = r.data
  BY <1>1, <1>2 DEF Slot
<1> QED
  BY <1>3

\* Every call on the cache leaves chunks that were there, besides the one put.
LEMMA GetLemma ==
  ASSUME slots \subseteq Slot, tick \in Nat, NEW c, GetDecompressed(c)
  PROVE  /\ slots' \subseteq Slot /\ tick' \in Nat /\ index' = index
         /\ \A s \in slots' : \E r \in slots : s.coord = r.coord /\ s.data = r.data
BY TouchedLemma DEF GetDecompressed, NextTick

LEMMA PutLemma ==
  ASSUME slots \subseteq Slot, tick \in Nat, NEW c \in Coord, NEW d \in Data,
         PutDecompressed(c, d)
  PROVE  /\ slots' \subseteq Slot /\ tick' \in Nat /\ index' = index
         /\ \A s \in slots' : \/ s.coord = c /\ s.data = d
                              \/ \E r \in slots : s.coord = r.coord /\ s.data = r.data
<1>1. CASE PutTooLarge(c, d)
  BY <1>1 DEF PutTooLarge, cacheVars
<1>2. CASE PutPresent(c, d)
  BY <1>2, TouchedLemma DEF PutPresent, NextTick
<1>3. CASE PutAbsent(c, d)
  <2>1. PICK V \in SUBSET slots :
          slots' = (slots \ V) \cup {[coord |-> c, data |-> d, last |-> tick + 1]}
    BY <1>3 DEF PutAbsent
  <2>2. tick' = tick + 1 /\ index' = index
    BY <1>3 DEF PutAbsent, NextTick
  <2>3. [coord |-> c, data |-> d, last |-> tick + 1] \in Slot
    BY DEF Slot
  <2> QED
    BY <2>1, <2>2, <2>3
<1>4. CASE PutPanics(c, d)
  BY <1>4 DEF PutPanics, NextTick
<1> QED
  BY <1>1, <1>2, <1>3, <1>4 DEF PutDecompressed
-------------------------------------------------------------------------------
\* What a step does not do to a thread it is not of.
Undisturbed(u) ==
  /\ pc'[u] = pc[u] /\ todo'[u] = todo[u] /\ missed'[u] = missed[u]
  /\ out'[u] = out[u] /\ answer'[u] = answer[u]

\* The parts of the invariant that are about the cache.
CacheIsTrue == SameDataset /\ SlotsAreTrue /\ IndexIsTrue

LEMMA FrameLemma ==
  ASSUME ReadInv, NEW u \in Threads, ThreadIsTrue(u), Undisturbed(u),
         dataset' = dataset, clears' \in Nat, clears' >= clears,
         index' = None => index = None \/ clears' > 0
  PROVE  ThreadIsTrue(u)'
<1> USE DEF Undisturbed
<1>1. Own(u)' = Own(u) /\ Waiting(u)' = Waiting(u) /\ clears \in Nat
  BY DEF Own, Waiting, ReadInv, Types
<1>2. ListIsTrue(u)'
  BY <1>1 DEF ThreadIsTrue, ListIsTrue
<1>3. Filling(u) => Filling(u)'
  BY <1>1 DEF Filling, Done
<1>4. FoundNone(u) => FoundNone(u)'
  BY <1>1 DEF FoundNone
<1>5. BufferIsTrue(u)'
  BY <1>3, <1>4 DEF ThreadIsTrue, BufferIsTrue
<1>6. AnswerIsTrue(u)'
  BY <1>1 DEF ThreadIsTrue, AnswerIsTrue
<1> QED
  BY <1>2, <1>5, <1>6 DEF ThreadIsTrue

LEMMA DatasetStays ==
  ASSUME OneDataset, ReadInv, [Next]_vars
  PROVE  dataset' = dataset
<1>1. ASSUME NEW t \in Threads, NEW d \in Datasets, Begin(t, d)
      PROVE  dataset' = dataset
  BY <1>1 DEF Begin, ReadInv, Types
<1>2. ASSUME NEW t \in Threads, Read(t)
      PROVE  dataset' = dataset
  BY <1>2 DEF Read, HasIndex, ScanFails, Populate, ListChunks, Hit, Miss,
              DecodeFails, Insert, Return, PanicsOnLock, Finish
<1>3. ClearCache \/ UseCache => dataset' = dataset
  BY DEF ClearCache, UseCache, readerVars
<1>4. UNCHANGED vars => dataset' = dataset
  BY DEF vars, readerVars
<1> QED
  BY <1>1, <1>2, <1>3, <1>4 DEF Next
-------------------------------------------------------------------------------
\* A thread's dataset is in the listing, if it is readable at all.
LEMMA OwnListing ==
  ASSUME ReadInv, NEW t \in Threads, Own(t) # Damaged
  PROVE  Own(t) \in Listing
BY ScanAssumption DEF Own, ReadInv, Types

\* What is known of an entry a reader is about to copy.
LEMMA EntryOfThread ==
  ASSUME ReadInv, NEW t \in Threads, Own(t) # Damaged, NEW info \in Entries(Own(t))
  PROVE  LET c == ReadCoord(t, info)
         IN  /\ info \in ChunkInfo
             /\ c \in Coord
             /\ c \in ListedCoords(Own(t))
             /\ LastEntry(Own(t), c) = info
             /\ ChunkOf(dataset[t], c) = Decode[info.address]
<1>1. Own(t) \in Listing
  BY OwnListing
<1> DEFINE c == CoordOf(info, Own(t).rank)
<1>2. info \in ChunkInfo /\ c \in ListedCoords(Own(t)) /\ LastEntry(Own(t), c) = info
  BY <1>1, EntryLemma
<1>3. c \in Coord
  BY <1>1, <1>2, ListingAssumption
<1>4. ReadCoord(t, info) = c
  BY DEF ReadCoord, RankOf, Own
<1>5. ChunkOf(dataset[t], c) = Decode[info.address]
  BY <1>2 DEF ChunkOf, Own
<1> QED
  BY <1>2, <1>3, <1>4, <1>5, Zenon

\* Slots that were there, for the same chunks, are as true as they were.
LEMMA OldSlots ==
  ASSUME ReadInv, dataset' = dataset, NEW t \in Threads, NEW s, NEW r \in slots,
         s.coord = r.coord, s.data = r.data
  PROVE  SlotIsTrue(t, s)'
BY DEF ReadInv, SlotsAreTrue, SlotIsTrue, Own

\* Copying the chunk of an entry at its coordinate takes it off what waits.
LEMMA CopyLemma ==
  ASSUME ReadInv, NEW t \in Threads, Own(t) # Damaged, Filling(t),
         NEW info \in Entries(Own(t)),
         dataset' = dataset,
         Waiting(t)' = Waiting(t) \ {info},
         Decode[info.address] # Damaged,
         out' = Copied(t, ReadCoord(t, info), Decode[info.address])
  PROVE  Filling(t)'
<1> DEFINE c0 == ReadCoord(t, info)
           data == Decode[info.address]
<1>1. /\ c0 \in ListedCoords(Own(t))
      /\ LastEntry(Own(t), c0) = info
      /\ ChunkOf(dataset[t], c0) = data
  BY EntryOfThread
<1>2. Own(t)' = Own(t)
  BY DEF Own
<1>3. out[t] = [c \in Grid[dataset[t]] |-> out[t][c]] /\ DOMAIN out[t] = Grid[dataset[t]]
  BY DEF Filling
<1>4. out'[t] = [c \in Grid[dataset[t]] |-> IF c = c0 THEN data ELSE out[t][c]]
  BY <1>3 DEF Copied, ReadInv, Types
<1> HIDE DEF c0, data
<1>5. Waiting(t)' \subseteq Entries(Own(t)')
  BY <1>2 DEF Filling
<1>6. out'[t] = [c \in Grid[dataset'[t]] |-> out'[t][c]]
  BY <1>4
<1>7. ASSUME NEW c \in Grid[dataset'[t]] \ ListedCoords(Own(t)') PROVE out'[t][c] = Zeros
  BY <1>1, <1>2, <1>4 DEF Filling
<1>8. ASSUME NEW c \in ListedCoords(Own(t)'), LastEntry(Own(t)', c) \notin Waiting(t)'
      PROVE  Done(t, c)'
  <2>1. CASE c = c0
    BY <2>1, <1>1, <1>4 DEF Done, data
  <2>2. CASE c # c0
    <3>1. LastEntry(Own(t), c) # info
      <4>1. Own(t) \in Listing
        BY OwnListing
      <4>2. CoordOf(LastEntry(Own(t), c), Own(t).rank) = c
        BY <4>1, <1>2, <1>8, LastEntryLemma
      <4>3. CoordOf(info, Own(t).rank) = c0
        BY DEF c0, ReadCoord, RankOf, Own
      <4> QED
        BY <2>2, <4>2, <4>3
    <3>2. Done(t, c)
      BY <1>2, <1>8, <3>1 DEF Filling
    <3> QED
      BY <2>2, <3>2, <1>4 DEF Done
  <2> QED
    BY <2>1, <2>2
<1> QED
  BY <1>5, <1>6, <1>7, <1>8 DEF Filling
-------------------------------------------------------------------------------
\* A buffer with nothing waiting is the answer.
LEMMA FullBuffer ==
  ASSUME ReadInv, NEW t \in Threads, Own(t) # Damaged, Filling(t), Waiting(t) = {}
  PROVE  out[t] = Answer[dataset[t]]
<1> DEFINE d == dataset[t]
<1>1. d \in Datasets
  BY DEF ReadInv, Types
<1>2. \A c \in ListedCoords(Own(t)) : Done(t, c)
  BY DEF Filling
<1>3. Readable(d)
  BY <1>2 DEF Readable, Done, Own
<1>4. Answer[d] = [c \in Grid[d] |-> ChunkOf(d, c)]
  BY <1>1, <1>3 DEF Answer
<1>5. \A c \in Grid[d] : out[t][c] = ChunkOf(d, c)
  BY <1>2 DEF Filling, Done, ChunkOf, Own
<1> QED
  BY <1>4, <1>5 DEF Filling

\* A reader in the middle of copying or decoding has its buffer in order.
LEMMA InsideRead ==
  ASSUME ReadInv, NEW t \in Threads,
         pc[t] = "decode" \/ (pc[t] = "copy" /\ todo[t] # {})
  PROVE  /\ Own(t) # Damaged
         /\ Filling(t)
         /\ todo[t] \subseteq Entries(Own(t))
         /\ pc[t] = "copy" => Waiting(t) = todo[t]
         /\ pc[t] = "decode" => /\ missed[t] \in Entries(Own(t))
                                /\ missed[t] \notin todo[t]
                                /\ Waiting(t) = todo[t] \cup {missed[t]}
<1>1. ThreadIsTrue(t)
  BY DEF ReadInv
<1>2. Own(t) # Damaged
  BY <1>1 DEF ThreadIsTrue, ListIsTrue
<1>3. ~FoundNone(t)
  BY DEF FoundNone
<1>4. Filling(t)
  BY <1>1, <1>3 DEF ThreadIsTrue, BufferIsTrue
<1>5. /\ pc[t] = "copy" => Waiting(t) = todo[t]
      /\ pc[t] = "decode" => Waiting(t) = todo[t] \cup {missed[t]}
  BY DEF Waiting
<1>6. Waiting(t) \subseteq Entries(Own(t))
  BY <1>4 DEF Filling
<1>7. pc[t] = "decode" => missed[t] \notin todo[t]
  BY <1>1 DEF ThreadIsTrue, BufferIsTrue
<1> QED
  BY <1>2, <1>4, <1>5, <1>6, <1>7

\* What a step of thread t leaves of the invariant, once t's own part is shown.
LEMMA StepOf ==
  ASSUME ReadInv, NEW t \in Threads,
         dataset' = dataset, clears' = clears,
         \A u \in Threads \ {t} : Undisturbed(u),
         index' = None => index = None,
         Types', SlotsAreTrue', IndexIsTrue', ThreadIsTrue(t)'
  PROVE  ReadInv'
<1>1. clears \in Nat
  BY DEF ReadInv, Types
<1>2. ASSUME NEW u \in Threads \ {t} PROVE ThreadIsTrue(u)'
  BY <1>1, FrameLemma DEF ReadInv
<1>3. SameDataset'
  BY DEF SameDataset, ReadInv
<1> QED
  BY <1>2, <1>3 DEF ReadInv

\* Slots, index and types of a step that leaves the cache alone.
LEMMA CacheAlone ==
  ASSUME ReadInv, dataset' = dataset, UNCHANGED cacheVars
  PROVE  /\ SlotsAreTrue' /\ IndexIsTrue'
         /\ slots' \subseteq Slot /\ tick' \in Nat /\ index' = index
<1>1. index' = index /\ slots' = slots /\ tick' = tick
  BY DEF cacheVars
<1> QED
  BY <1>1, OldSlots DEF ReadInv, Types, SlotsAreTrue, IndexIsTrue, Own

LEMMA FinishStep ==
  ASSUME ReadInv, NEW t \in Threads, NEW from, NEW result,
         dataset' = dataset, Finish(t, from, result),
         \/ result = Answer[dataset[t]]
         \/ clears > 0 /\ result = Blank[dataset[t]]
  PROVE  ReadInv'
<1> USE DEF Finish, Goto
<1>1. SlotsAreTrue' /\ IndexIsTrue' /\ slots' \subseteq Slot /\ tick' \in Nat /\ index' = index
  BY CacheAlone
<1>2. Types'
  BY <1>1 DEF ReadInv, Types
<1>3. pc'[t] = "idle" /\ answer'[t] = result /\ clears' = clears
  BY DEF ReadInv, Types
<1>4. ThreadIsTrue(t)'
  BY <1>3 DEF ThreadIsTrue, ListIsTrue, BufferIsTrue, AnswerIsTrue
<1>5. \A u \in Threads \ {t} : Undisturbed(u)
  BY DEF Undisturbed, ReadInv, Types
<1> QED
  BY <1>1, <1>2, <1>3, <1>4, <1>5, StepOf

LEMMA BeginStep ==
  ASSUME ReadInv, NEW t \in Threads, NEW d \in Datasets,
         dataset' = dataset, Begin(t, d)
  PROVE  ReadInv'
<1> USE DEF Begin, Goto
<1>1. SlotsAreTrue' /\ IndexIsTrue' /\ slots' \subseteq Slot /\ tick' \in Nat /\ index' = index
  BY CacheAlone
<1>2. Types'
  BY <1>1 DEF ReadInv, Types
<1>3. pc'[t] = "check" /\ answer'[t] = NoAnswer /\ clears' = clears
  BY DEF ReadInv, Types
<1>4. ThreadIsTrue(t)'
  BY <1>3 DEF ThreadIsTrue, ListIsTrue, BufferIsTrue, AnswerIsTrue
<1>5. \A u \in Threads \ {t} : Undisturbed(u)
  BY DEF Undisturbed, ReadInv, Types
<1> QED
  BY <1>1, <1>2, <1>3, <1>4, <1>5, StepOf

LEMMA HasIndexStep ==
  ASSUME ReadInv, NEW t \in Threads, dataset' = dataset,
         HasIndex(t)
  PROVE  ReadInv'
<1> USE DEF HasIndex, Goto
<1>1. SlotsAreTrue' /\ IndexIsTrue' /\ slots' \subseteq Slot /\ tick' \in Nat /\ index' = index
  BY CacheAlone
<1>2. Types'
  BY <1>1 DEF ReadInv, Types
<1>3. /\ pc'[t] = IF index = None THEN "scan" ELSE "list"
      /\ answer' = answer /\ clears' = clears
  BY DEF ReadInv, Types
<1>4. ListIsTrue(t)'
  BY <1>1, <1>3 DEF ListIsTrue, IndexIsTrue
<1>5. BufferIsTrue(t)'
  BY <1>3 DEF BufferIsTrue
<1>6. AnswerIsTrue(t)'
  BY <1>3 DEF AnswerIsTrue, ReadInv, ThreadIsTrue
<1>7. \A u \in Threads \ {t} : Undisturbed(u)
  BY DEF Undisturbed, ReadInv, Types
<1> QED
  BY <1>1, <1>2, <1>3, <1>4, <1>5, <1>6, <1>7, StepOf DEF ThreadIsTrue

LEMMA PopulateStep ==
  ASSUME ReadInv, NEW t \in Threads, dataset' = dataset, Populate(t)
  PROVE  ReadInv'
<1> USE DEF Populate, PopulateIndex, Goto
<1>1. Own(t) # Damaged /\ Own(t) \in Listing
  BY OwnListing DEF Own
<1>2. /\ index' = IF index = None THEN IndexOf(Own(t)) ELSE index
      /\ slots' = slots /\ tick' = tick /\ clears' = clears /\ answer' = answer
  BY DEF Own
<1>3. index' # None
  BY <1>1, <1>2, IndexIsSome
<1>4. SlotsAreTrue'
  BY <1>2, OldSlots DEF SlotsAreTrue
<1>5. IndexIsTrue'
  <2> SUFFICES ASSUME NEW u \in Threads
               PROVE  Own(u) # Damaged /\ index' = IndexOf(Own(u))
    BY DEF IndexIsTrue, Own
  <2>1. Own(u) = Own(t)
    BY DEF ReadInv, SameDataset, Own
  <2> QED
    BY <2>1, <1>1, <1>2 DEF ReadInv, IndexIsTrue
<1>6. Types'
  BY <1>2 DEF ReadInv, Types
<1>7. pc'[t] = "list"
  BY DEF ReadInv, Types
<1>8. ThreadIsTrue(t)'
  <2>1. ListIsTrue(t)'
    BY <1>1, <1>3 DEF ListIsTrue, Own
  <2>2. BufferIsTrue(t)'
    BY <1>7 DEF BufferIsTrue
  <2>3. AnswerIsTrue(t)'
    BY <1>2 DEF AnswerIsTrue, ReadInv, ThreadIsTrue
  <2> QED
    BY <2>1, <2>2, <2>3 DEF ThreadIsTrue
<1>9. \A u \in Threads \ {t} : Undisturbed(u)
  BY DEF Undisturbed, ReadInv, Types
<1> QED
  BY <1>2, <1>3, <1>4, <1>5, <1>6, <1>8, <1>9, StepOf

LEMMA ListStep ==
  ASSUME ReadInv, NEW t \in Threads, dataset' = dataset, ListChunks(t)
  PROVE  ReadInv'
<1> USE DEF ListChunks, Goto
<1>1. SlotsAreTrue' /\ IndexIsTrue' /\ slots' \subseteq Slot /\ tick' \in Nat /\ index' = index
  BY CacheAlone
<1>2. Types'
  BY <1>1 DEF ReadInv, Types
<1>3. /\ pc[t] = "list" /\ pc'[t] = "copy" /\ todo'[t] = Snapshot
      /\ out'[t] = [c \in Grid[dataset[t]] |-> Zeros]
      /\ answer' = answer /\ clears' = clears
  BY DEF ReadInv, Types
<1>4. Own(t) # Damaged /\ (index = None => clears > 0)
  BY <1>3 DEF ReadInv, ThreadIsTrue, ListIsTrue
<1>5. ListIsTrue(t)'
  BY <1>1, <1>3, <1>4 DEF ListIsTrue, Own
<1>6. index = None => FoundNone(t)'
  <2> SUFFICES ASSUME index = None PROVE FoundNone(t)'
    OBVIOUS
  <2>1. todo'[t] = {}
    BY <1>3 DEF Snapshot
  <2>2. Blank[dataset[t]] = [c \in Grid[dataset[t]] |-> Zeros]
    BY DEF Blank, ReadInv, Types
  <2> QED
    BY <1>3, <1>4, <2>1, <2>2 DEF FoundNone
<1>7. index # None => Filling(t)'
  <2> SUFFICES ASSUME index # None PROVE Filling(t)'
    OBVIOUS
  <2>1. index = IndexOf(Own(t)) /\ Own(t) \in Listing
    BY <1>4, OwnListing DEF ReadInv, IndexIsTrue
  <2>2. Waiting(t)' = Entries(Own(t)) /\ Own(t)' = Own(t)
    BY <1>3, <2>1, SnapshotLemma DEF Waiting, Own
  <2>3. \A c \in ListedCoords(Own(t)) : LastEntry(Own(t), c) \in Waiting(t)'
    BY <2>2 DEF Entries
  <2> QED
    BY <1>3, <2>2, <2>3 DEF Filling
<1>8. BufferIsTrue(t)'
  BY <1>3, <1>6, <1>7 DEF BufferIsTrue
<1>9. AnswerIsTrue(t)'
  BY <1>3 DEF AnswerIsTrue, ReadInv, ThreadIsTrue
<1>10. \A u \in Threads \ {t} : Undisturbed(u)
  BY DEF Undisturbed, ReadInv, Types
<1> QED
  BY <1>1, <1>2, <1>3, <1>5, <1>8, <1>9, <1>10, StepOf DEF ThreadIsTrue

\* A lookup, whatever comes of it, leaves the cache as true as it was.
LEMMA GetKeeps ==
  ASSUME ReadInv, dataset' = dataset, NEW c, GetDecompressed(c)
  PROVE  /\ SlotsAreTrue' /\ IndexIsTrue'
         /\ slots' \subseteq Slot /\ tick' \in Nat /\ index' = index
<1>1. /\ slots' \subseteq Slot /\ tick' \in Nat /\ index' = index
      /\ \A s \in slots' : \E r \in slots : s.coord = r.coord /\ s.data = r.data
  BY GetLemma DEF ReadInv, Types
<1>2. SlotsAreTrue'
  BY <1>1, OldSlots DEF SlotsAreTrue
<1>3. IndexIsTrue'
  BY <1>1 DEF ReadInv, IndexIsTrue, Own
<1> QED
  BY <1>1, <1>2, <1>3

\* What a lookup finds is the chunk that decompressing would yield.
LEMMA FoundLemma ==
  ASSUME ReadInv, NEW t \in Threads, NEW c, Cached(c)
  PROVE  DataAt(c) = ChunkOf(dataset[t], c) /\ DataAt(c) # Damaged
<1>1. \E s \in slots : s.coord = c
  BY DEF Cached
<1>2. PICK s \in slots : s.coord = c /\ DataAt(c) = s.data
  BY <1>1 DEF DataAt
<1> QED
  BY <1>2 DEF ReadInv, SlotsAreTrue, SlotIsTrue

LEMMA HitStep ==
  ASSUME ReadInv, NEW t \in Threads, dataset' = dataset,
         NEW info \in todo[t], Hit(t, info)
  PROVE  ReadInv'
<1> USE DEF Hit, Goto
<1>1. SlotsAreTrue' /\ IndexIsTrue' /\ slots' \subseteq Slot /\ tick' \in Nat /\ index' = index
  BY GetKeeps
<1>2. /\ pc[t] = "copy" /\ pc'[t] = "copy" /\ todo'[t] = todo[t] \ {info}
      /\ answer' = answer /\ clears' = clears
  BY DEF ReadInv, Types
<1>3. Own(t) # Damaged /\ Filling(t) /\ info \in Entries(Own(t)) /\ Waiting(t) = todo[t]
  BY <1>2, InsideRead
<1>4. DataAt(ReadCoord(t, info)) = Decode[info.address] /\ Decode[info.address] # Damaged
  BY <1>3, FoundLemma, EntryOfThread
<1>5. Filling(t)'
  <2>1. Waiting(t)' = Waiting(t) \ {info}
    BY <1>2, <1>3 DEF Waiting
  <2>2. out' = Copied(t, ReadCoord(t, info), Decode[info.address])
    BY <1>4
  <2> QED
    BY <1>3, <1>4, <2>1, <2>2, CopyLemma
<1>6. Types'
  BY <1>1 DEF ReadInv, Types, Copied
<1>7. ThreadIsTrue(t)'
  <2>1. ListIsTrue(t)'
    BY <1>1, <1>2, <1>3 DEF ListIsTrue, Own, ReadInv, ThreadIsTrue
  <2>2. BufferIsTrue(t)'
    BY <1>2, <1>5 DEF BufferIsTrue
  <2>3. AnswerIsTrue(t)'
    BY <1>2 DEF AnswerIsTrue, ReadInv, ThreadIsTrue
  <2> QED
    BY <2>1, <2>2, <2>3 DEF ThreadIsTrue
<1>8. \A u \in Threads \ {t} : Undisturbed(u)
  BY DEF Undisturbed, ReadInv, Types, Copied
<1> QED
  BY <1>1, <1>2, <1>6, <1>7, <1>8, StepOf

LEMMA MissStep ==
  ASSUME ReadInv, NEW t \in Threads, dataset' = dataset,
         NEW info \in todo[t], Miss(t, info)
  PROVE  ReadInv'
<1> USE DEF Miss, Goto
<1>1. SlotsAreTrue' /\ IndexIsTrue' /\ slots' \subseteq Slot /\ tick' \in Nat /\ index' = index
  BY GetKeeps
<1>2. /\ pc[t] = "copy" /\ pc'[t] = "decode" /\ todo'[t] = todo[t] \ {info}
      /\ missed'[t] = info /\ out' = out /\ answer' = answer /\ clears' = clears
  BY DEF ReadInv, Types
<1>3. Own(t) # Damaged /\ Filling(t) /\ Waiting(t) = todo[t]
  BY <1>2, InsideRead
<1>4. Waiting(t)' = Waiting(t) /\ Own(t)' = Own(t)
  BY <1>2, <1>3 DEF Waiting, Own
<1>5. Filling(t)'
  BY <1>2, <1>3, <1>4 DEF Filling, Done
<1>6. Types'
  BY <1>1 DEF ReadInv, Types
<1>7. ThreadIsTrue(t)'
  <2>1. ListIsTrue(t)'
    BY <1>1, <1>2, <1>3 DEF ListIsTrue, Own, ReadInv, ThreadIsTrue
  <2>2. BufferIsTrue(t)'
    BY <1>2, <1>5 DEF BufferIsTrue
  <2>3. AnswerIsTrue(t)'
    BY <1>2 DEF AnswerIsTrue, ReadInv, ThreadIsTrue
  <2> QED
    BY <2>1, <2>2, <2>3 DEF ThreadIsTrue
<1>8. \A u \in Threads \ {t} : Undisturbed(u)
  BY DEF Undisturbed, ReadInv, Types
<1> QED
  BY <1>1, <1>2, <1>6, <1>7, <1>8, StepOf

LEMMA InsertStep ==
  ASSUME ReadInv, NEW t \in Threads, dataset' = dataset, Insert(t)
  PROVE  ReadInv'
<1> USE DEF Insert, Goto
<1> DEFINE info == missed[t]
           c == ReadCoord(t, info)
           data == Decode[info.address]
<1>1. pc[t] = "decode" /\ data # Damaged /\ PutDecompressed(c, data)
  BY DEF Decoded
<1>2. /\ Own(t) # Damaged /\ Filling(t) /\ info \in Entries(Own(t))
      /\ info \notin todo[t] /\ Waiting(t) = todo[t] \cup {info}
  BY <1>1, InsideRead
<1>3. /\ info \in ChunkInfo /\ c \in Coord /\ c \in ListedCoords(Own(t))
      /\ ChunkOf(dataset[t], c) = data
  BY <1>2, EntryOfThread
<1>4. data \in Data
  BY <1>1, <1>3, DecodeAssumption
<1>5. /\ slots' \subseteq Slot /\ tick' \in Nat /\ index' = index
      /\ \A s \in slots' : \/ s.coord = c /\ s.data = data
                           \/ \E r \in slots : s.coord = r.coord /\ s.data = r.data
  BY <1>1, <1>3, <1>4, PutLemma DEF ReadInv, Types
<1>6. SlotsAreTrue'
  <2> SUFFICES ASSUME NEW u \in Threads, NEW s \in slots' PROVE SlotIsTrue(u, s)'
    BY DEF SlotsAreTrue
  <2>1. CASE s.coord = c /\ s.data = data
    <3>1. dataset[u] = dataset[t]
      BY DEF ReadInv, SameDataset
    <3> HIDE DEF c, data
    <3> QED
      BY <2>1, <3>1, <1>1, <1>3 DEF SlotIsTrue, Own
  <2>2. CASE \E r \in slots : s.coord = r.coord /\ s.data = r.data
    BY <2>2, OldSlots
  <2> QED
    BY <1>5, <2>1, <2>2
<1>7. IndexIsTrue'
  BY <1>5 DEF ReadInv, IndexIsTrue, Own
<1>8. Types'
  BY <1>5 DEF ReadInv, Types, Copied
<1>9. answer' = answer /\ clears' = clears /\ todo' = todo
  OBVIOUS
<1>10. ThreadIsTrue(t)'
  <2>1. AnswerIsTrue(t)'
    BY <1>9 DEF AnswerIsTrue, ReadInv, ThreadIsTrue
  <2>2. CASE poisoned'
    <3>1. pc'[t] = "panicked"
      BY <2>2 DEF ReadInv, Types
    <3> QED
      BY <2>1, <3>1 DEF ThreadIsTrue, ListIsTrue, BufferIsTrue
  <2>3. CASE ~poisoned'
    <3>1. pc'[t] = "copy" /\ out' = Copied(t, c, data)
      BY <2>3 DEF ReadInv, Types, Decoded
    <3>2. Waiting(t)' = Waiting(t) \ {info}
      BY <3>1, <1>2, <1>9 DEF Waiting
    <3>3. Filling(t)'
      BY <1>1, <1>2, <3>1, <3>2, CopyLemma
    <3>4. ListIsTrue(t)'
      BY <1>1, <1>2, <1>5, <1>9 DEF ListIsTrue, Own, ReadInv, ThreadIsTrue
    <3> QED
      BY <2>1, <3>1, <3>3, <3>4 DEF ThreadIsTrue, BufferIsTrue
  <2> QED
    BY <2>2, <2>3
<1>11. \A u \in Threads \ {t} : Undisturbed(u)
  BY DEF Undisturbed, ReadInv, Types, Copied
<1> QED
  BY <1>5, <1>6, <1>7, <1>8, <1>9, <1>10, <1>11, StepOf

\* However a read ends, it ends with the answer, or blank after a clear().
LEMMA ReplyLemma ==
  ASSUME ReadInv, NEW t \in Threads, ScanFails(t) \/ DecodeFails(t) \/ Return(t)
  PROVE  \E from \in {"scan", "decode", "copy"}, result \in {Answer[dataset[t]], Blank[dataset[t]]} :
           /\ Finish(t, from, result)
           /\ result # Answer[dataset[t]] => clears > 0
<1>1. CASE Return(t)
  <2>1. pc[t] = "copy" /\ todo[t] = {} /\ Finish(t, "copy", out[t])
    BY <1>1 DEF Return, Finish, Goto
  <2>2. Own(t) # Damaged /\ (Filling(t) \/ FoundNone(t)) /\ Waiting(t) = {}
    BY <2>1 DEF ReadInv, ThreadIsTrue, ListIsTrue, BufferIsTrue, Waiting
  <2>3. \/ out[t] = Answer[dataset[t]]
        \/ clears > 0 /\ out[t] = Blank[dataset[t]]
    BY <2>2, FullBuffer DEF FoundNone
  <2> QED
    BY <2>1, <2>3
<1>2. CASE ScanFails(t)
  <2>1. ~Readable(dataset[t])
    BY <1>2 DEF ScanFails, Readable
  <2>2. Answer[dataset[t]] = Damaged
    BY <2>1 DEF Answer, ReadInv, Types
  <2> QED
    BY <1>2, <2>2 DEF ScanFails
<1>3. CASE DecodeFails(t)
  <2>1. pc[t] = "decode" /\ Decode[missed[t].address] = Damaged
    BY <1>3 DEF DecodeFails, Decoded
  <2>2. Own(t) # Damaged /\ missed[t] \in Entries(Own(t))
    BY <2>1, InsideRead
  <2>3. ~Readable(dataset[t])
    BY <2>1, <2>2, EntryOfThread DEF Readable, Own
  <2>4. Answer[dataset[t]] = Damaged
    BY <2>3 DEF Answer, ReadInv, Types
  <2> QED
    BY <1>3, <2>4 DEF DecodeFails
<1> QED
  BY <1>1, <1>2, <1>3

LEMMA PanicStep ==
  ASSUME ReadInv, NEW t \in Threads, dataset' = dataset, PanicsOnLock(t)
  PROVE  ReadInv'
<1> USE DEF PanicsOnLock
<1>1. SlotsAreTrue' /\ IndexIsTrue' /\ slots' \subseteq Slot /\ tick' \in Nat /\ index' = index
  BY CacheAlone
<1>2. Types'
  BY <1>1 DEF ReadInv, Types
<1>3. pc'[t] = "panicked" /\ answer' = answer /\ clears' = clears
  BY DEF ReadInv, Types
<1>4. ThreadIsTrue(t)'
  BY <1>3 DEF ReadInv, ThreadIsTrue, ListIsTrue, BufferIsTrue, AnswerIsTrue
<1>5. \A u \in Threads \ {t} : Undisturbed(u)
  BY DEF Undisturbed, ReadInv, Types
<1> QED
  BY <1>1, <1>2, <1>3, <1>4, <1>5, StepOf

LEMMA ClearStep ==
  ASSUME ReadInv, dataset' = dataset, ClearCache
  PROVE  ReadInv'
<1> USE DEF ClearCache, Clear, readerVars
<1>1. index' = None /\ slots' = {} /\ tick' = 0 /\ clears' = clears + 1 /\ clears \in Nat
  BY DEF ReadInv, Types
<1>2. Types'
  BY <1>1 DEF ReadInv, Types
<1>3. SameDataset' /\ SlotsAreTrue' /\ IndexIsTrue'
  BY <1>1 DEF ReadInv, SameDataset, SlotsAreTrue, IndexIsTrue
<1>4. ASSUME NEW u \in Threads PROVE ThreadIsTrue(u)'
  <2>1. Undisturbed(u) /\ ThreadIsTrue(u)
    BY DEF Undisturbed, ReadInv
  <2>2. clears' \in Nat /\ clears' >= clears /\ clears' > 0
    BY <1>1
  <2> QED
    BY <2>1, <2>2, FrameLemma
<1> QED
  BY <1>2, <1>3, <1>4 DEF ReadInv

LEMMA UseStep ==
  ASSUME ReadInv, dataset' = dataset, UseCache
  PROVE  ReadInv'
<1>1. UNCHANGED readerVars /\ clears' = clears /\ clears \in Nat
  BY DEF UseCache, ReadInv, Types
<1>2. /\ slots' \subseteq Slot /\ tick' \in Nat /\ index' = index
      /\ \A s \in slots' : \E r \in slots : s.coord = r.coord /\ s.data = r.data
  <2>1. CASE slots' = slots /\ tick' = tick /\ index' = index
    BY <2>1 DEF ReadInv, Types
  <2>2. ASSUME NEW c \in Coord, GetDecompressedAligned(c)
        PROVE  slots' = Touched(c) /\ tick' = tick + 1 /\ index' = index
    BY <2>2 DEF GetDecompressedAligned, NextTick
  <2>3. ASSUME NEW c \in Coord, slots' = Touched(c), tick' = tick + 1, index' = index
        PROVE  <1>2
    BY <2>3, TouchedLemma DEF ReadInv, Types
  <2> QED
    BY <2>1, <2>2, <2>3 DEF UseCache, PrefetchHint, SetSweepDirection
<1>3. SlotsAreTrue'
  BY <1>2, OldSlots DEF SlotsAreTrue
<1>4. Types' /\ SameDataset' /\ IndexIsTrue'
  BY <1>1, <1>2 DEF ReadInv, Types, SameDataset, IndexIsTrue, Own, readerVars
<1>5. ASSUME NEW u \in Threads PROVE ThreadIsTrue(u)'
  <2>1. Undisturbed(u) /\ ThreadIsTrue(u)
    BY <1>1 DEF Undisturbed, ReadInv, readerVars
  <2> QED
    BY <1>1, <1>2, <2>1, FrameLemma
<1> QED
  BY <1>3, <1>4, <1>5 DEF ReadInv

LEMMA ReadInit == Init => ReadInv
<1> SUFFICES ASSUME Init PROVE ReadInv
  OBVIOUS
<1>1. index = None /\ slots = {} /\ tick = 0 /\ clears = 0
  BY DEF Init, CacheInit
<1>2. Types
  BY <1>1 DEF Init, Types
<1>3. SameDataset /\ SlotsAreTrue /\ IndexIsTrue
  BY <1>1 DEF Init, SameDataset, SlotsAreTrue, IndexIsTrue
<1>4. ASSUME NEW t \in Threads PROVE ThreadIsTrue(t)
  BY DEF Init, ThreadIsTrue, ListIsTrue, BufferIsTrue, AnswerIsTrue
<1> QED
  BY <1>2, <1>3, <1>4 DEF ReadInv

LEMMA ReadStep ==
  ASSUME OneDataset
  PROVE  ReadInv /\ [Next]_vars => ReadInv'
<1> SUFFICES ASSUME ReadInv, [Next]_vars PROVE ReadInv'
  OBVIOUS
<1>1. dataset' = dataset
  BY DatasetStays
<1>2. ASSUME NEW t \in Threads, Read(t) PROVE ReadInv'
  <2>1. CASE HasIndex(t)
    BY <1>1, <2>1, HasIndexStep
  <2>2. CASE Populate(t)
    BY <1>1, <2>2, PopulateStep
  <2>3. CASE ListChunks(t)
    BY <1>1, <2>3, ListStep
  <2>4. ASSUME NEW info \in todo[t], Hit(t, info) \/ Miss(t, info) PROVE ReadInv'
    BY <1>1, <2>4, HitStep, MissStep
  <2>5. CASE Insert(t)
    BY <1>1, <2>5, InsertStep
  <2>6. CASE ScanFails(t) \/ DecodeFails(t) \/ Return(t)
    <3>1. PICK from \in {"scan", "decode", "copy"},
               result \in {Answer[dataset[t]], Blank[dataset[t]]} :
            Finish(t, from, result) /\ (result # Answer[dataset[t]] => clears > 0)
      BY <2>6, ReplyLemma
    <3> QED
      BY <1>1, <3>1, FinishStep
  <2>7. CASE PanicsOnLock(t)
    BY <1>1, <2>7, PanicStep
  <2> QED
    BY <1>2, <2>1, <2>2, <2>3, <2>4, <2>5, <2>6, <2>7 DEF Read
<1>3. ASSUME NEW t \in Threads, NEW d \in Datasets, Begin(t, d) PROVE ReadInv'
  BY <1>1, <1>3, BeginStep
<1>4. CASE ClearCache
  BY <1>1, <1>4, ClearStep
<1>6. CASE UseCache
  BY <1>1, <1>6, UseStep
<1>5. CASE UNCHANGED vars
  <2>1. UNCHANGED cacheVars /\ UNCHANGED readerVars /\ clears' = clears
    BY <1>5 DEF vars
  <2>2. SlotsAreTrue' /\ IndexIsTrue' /\ slots' \subseteq Slot /\ tick' \in Nat /\ index' = index
    BY <1>1, <2>1, CacheAlone
  <2>3. Types' /\ SameDataset'
    BY <2>1, <2>2 DEF ReadInv, Types, SameDataset, readerVars
  <2>4. ASSUME NEW u \in Threads PROVE ThreadIsTrue(u)'
    <3>1. Undisturbed(u) /\ ThreadIsTrue(u) /\ clears \in Nat
      BY <2>1 DEF Undisturbed, readerVars, ReadInv, Types
    <3> QED
      BY <1>1, <2>1, <2>2, <3>1, FrameLemma
  <2> QED
    BY <2>2, <2>3, <2>4 DEF ReadInv
<1> QED
  BY <1>2, <1>3, <1>4, <1>5, <1>6 DEF Next

\* The inductive invariant of concurrent cached reads.
THEOREM ReadInvariant ==
  ASSUME OneDataset
  PROVE  Spec => []ReadInv
BY ReadInit, ReadStep, PTL DEF Spec

\* What is cached is the dataset's own chunk, and a reader past populate_index has its
\* dataset's own index before it until a clear(), for any number of threads.
THEOREM CacheCoherent ==
  ASSUME OneDataset
  PROVE  Spec => []CacheIsCoherent
<1>1. ReadInv => CacheIsCoherent
  <2> SUFFICES ASSUME ReadInv, NEW t \in Threads
               PROVE  /\ \A s \in slots : /\ s.coord \in ListedCoords(Scan[dataset[t]])
                                          /\ s.data = ChunkOf(dataset[t], s.coord)
                      /\ clears = 0 /\ pc[t] \in {"list", "copy", "decode"} =>
                           Scan[dataset[t]] # Damaged /\ index = IndexOf(Scan[dataset[t]])
    BY DEF CacheIsCoherent
  <2>1. \A s \in slots : SlotIsTrue(t, s)
    BY DEF ReadInv, SlotsAreTrue
  <2>2. ASSUME clears = 0, pc[t] \in {"list", "copy", "decode"}
        PROVE  Own(t) # Damaged /\ index = IndexOf(Own(t))
    BY <2>2 DEF ReadInv, ThreadIsTrue, ListIsTrue, IndexIsTrue
  <2> QED
    BY <2>1, <2>2 DEF SlotIsTrue, Own
<1> QED
  BY <1>1, ReadInvariant, PTL

\* Without a clear() a read returns its dataset's bytes, or the error they cause,
\* for any number of threads, and whatever the cache evicts between their steps.
THEOREM AnswersRight ==
  ASSUME OneDataset
  PROVE  Spec => []AnswersAreRight
<1>1. ReadInv => AnswersAreRight
  BY DEF ReadInv, ThreadIsTrue, AnswerIsTrue, AnswersAreRight
<1> QED
  BY <1>1, ReadInvariant, PTL
-------------------------------------------------------------------------------
LEMMA AbstractInit == Init => Abstract!Init
BY DEF Init, Abstract!Init

LEMMA AbstractStep ==
  ASSUME OneDataset
  PROVE  ReadInv /\ [Next]_vars => [Abstract!Next]_Abstract!readVars
<1> SUFFICES ASSUME ReadInv, [Next]_vars
             PROVE  Abstract!Next \/ UNCHANGED Abstract!readVars
  BY DEF Abstract!readVars
<1> DEFINE busy == {t \in Threads : pc[t] # "idle"}
<1>1. dataset' = dataset
  BY DatasetStays
<1>2. clears \in Nat /\ pc \in [Threads -> {"idle", "check", "scan", "list", "copy", "decode", "panicked"}]
  BY DEF ReadInv, Types
<1>3. ASSUME NEW t \in Threads, NEW d \in Datasets, Begin(t, d)
      PROVE  Abstract!Ask(t, d)
  <2>1. pc[t] = "idle" /\ pc' = [pc EXCEPT ![t] = "check"] /\ clears' = clears
    BY <1>3 DEF Begin, Goto
  <2>2. busy' = busy \cup {t}
    BY <1>2, <2>1
  <2> QED
    BY <1>2, <1>3, <2>1, <2>2 DEF Abstract!Ask, Begin
<1>4. ASSUME NEW t \in Threads, ScanFails(t) \/ DecodeFails(t) \/ Return(t)
      PROVE  Abstract!Reply(t)
  <2>1. PICK from \in {"scan", "decode", "copy"},
             result \in {Answer[dataset[t]], Blank[dataset[t]]} :
          Finish(t, from, result) /\ (result # Answer[dataset[t]] => clears > 0)
    BY <1>4, ReplyLemma
  <2>2. pc[t] = from /\ pc' = [pc EXCEPT ![t] = "idle"] /\ clears' = clears
        /\ answer' = [answer EXCEPT ![t] = result]
    BY <2>1 DEF Finish, Goto
  <2>3. busy' = busy \ {t} /\ t \in busy
    BY <1>2, <2>2
  <2>4. result \in {Answer[dataset[t]]} \cup (IF clears > 0 THEN {Blank[dataset[t]]} ELSE {})
    BY <2>1
  <2> QED
    BY <1>1, <2>2, <2>3, <2>4 DEF Abstract!Reply
<1>5. ASSUME ClearCache PROVE Abstract!Clear
  <2>1. clears' > 0 /\ pc' = pc /\ answer' = answer
    BY <1>2, <1>5 DEF ClearCache, readerVars
  <2> QED
    BY <1>1, <2>1 DEF Abstract!Clear
<1>6. ASSUME NEW t \in Threads,
             HasIndex(t) \/ Populate(t) \/ ListChunks(t) \/ Insert(t) \/ PanicsOnLock(t)
               \/ \E info \in todo[t] : Hit(t, info) \/ Miss(t, info)
      PROVE  UNCHANGED Abstract!readVars
  <2>1. \E to \in {"scan", "list", "copy", "decode", "panicked"} :
          pc[t] # "idle" /\ pc' = [pc EXCEPT ![t] = to]
    BY <1>2, <1>6 DEF HasIndex, Populate, ListChunks, Insert, PanicsOnLock, Hit, Miss, Goto
  <2>2. busy' = busy
    BY <1>2, <2>1
  <2>3. answer' = answer /\ clears' = clears
    BY <1>6 DEF HasIndex, Populate, ListChunks, Insert, PanicsOnLock, Hit, Miss
  <2> QED
    BY <1>1, <2>2, <2>3 DEF Abstract!readVars
<1>9. ASSUME UseCache PROVE UNCHANGED Abstract!readVars
  BY <1>9 DEF UseCache, readerVars, Abstract!readVars
<1>7. ASSUME UNCHANGED vars PROVE UNCHANGED Abstract!readVars
  BY <1>7 DEF vars, readerVars, Abstract!readVars
<1> HIDE DEF busy
<1>8. ASSUME NEW t \in Threads, Read(t)
      PROVE  Abstract!Reply(t) \/ UNCHANGED Abstract!readVars
  BY <1>4, <1>6, <1>8 DEF Read
<1> QED
  BY <1>3, <1>5, <1>7, <1>8, <1>9 DEF Next, Abstract!Next

\* Concurrent cached reads implement reads whose answer depends on the dataset alone.
THEOREM ReadsIndependent ==
  ASSUME OneDataset
  PROVE  Spec => ReadsAreIndependent
BY AbstractInit, AbstractStep, ReadInvariant, PTL
DEF Spec, ReadsAreIndependent, Abstract!Spec
\* A reader calls the cache only as CacheNext allows: with coordinates and data
\* of the cache, and listings of a scan.
LEMMA CacheStepOf ==
  ASSUME ReadInv, NEW t \in Threads, Read(t)
  PROVE  [CacheNext]_cacheVars
<1>1. CASE HasIndex(t) \/ ScanFails(t) \/ ListChunks(t) \/ DecodeFails(t) \/ Return(t) \/ PanicsOnLock(t)
  BY <1>1 DEF HasIndex, ScanFails, ListChunks, DecodeFails, Return, PanicsOnLock, Finish
<1>2. CASE Populate(t)
  <2>1. Own(t) \in Listing /\ PopulateIndex(Own(t))
    BY <1>2, OwnListing DEF Populate, Own
  <2> QED
    BY <2>1 DEF CacheNext
<1>3. ASSUME NEW info \in todo[t], Hit(t, info) \/ Miss(t, info)
      PROVE  [CacheNext]_cacheVars
  <2>1. pc[t] = "copy" /\ GetDecompressed(ReadCoord(t, info))
    BY <1>3 DEF Hit, Miss, Goto
  <2>2. Own(t) # Damaged /\ info \in Entries(Own(t))
    BY <2>1, InsideRead
  <2>3. ReadCoord(t, info) \in Coord
    BY <2>2, EntryOfThread
  <2> QED
    BY <2>1, <2>3 DEF CacheNext
<1>4. CASE Insert(t)
  <2>1. pc[t] = "decode" /\ Decoded(t) # Damaged /\ PutDecompressed(ReadCoord(t, missed[t]), Decoded(t))
    BY <1>4 DEF Insert
  <2>2. Own(t) # Damaged /\ missed[t] \in Entries(Own(t))
    BY <2>1, InsideRead
  <2>3. missed[t] \in ChunkInfo /\ ReadCoord(t, missed[t]) \in Coord
    BY <2>2, EntryOfThread
  <2>4. Decoded(t) \in Data
    BY <2>1, <2>3, DecodeAssumption DEF Decoded
  <2> QED
    BY <2>1, <2>3, <2>4 DEF CacheNext
<1> QED
  BY <1>1, <1>2, <1>3, <1>4 DEF Read

LEMMA CacheStepOfAny == ReadInv /\ [Next]_vars => [CacheNext]_cacheVars
<1> SUFFICES ASSUME ReadInv, [Next]_vars PROVE [CacheNext]_cacheVars
  OBVIOUS
<1>1. ASSUME NEW t \in Threads, NEW d \in Datasets, Begin(t, d) PROVE [CacheNext]_cacheVars
  BY <1>1 DEF Begin
<1>2. CASE ClearCache
  BY <1>2 DEF ClearCache, CacheNext
<1>3. CASE UseCache
  BY <1>3 DEF UseCache, CacheNext
<1>4. CASE UNCHANGED vars
  BY <1>4 DEF vars
<1> QED
  BY <1>1, <1>2, <1>3, <1>4, CacheStepOf DEF Next

\* Cached reads, whatever others call between their steps, leave a cache as ChunkCache
\* has it: all that is proved of every sequence of calls holds while they run.
THEOREM ReadersUseCache ==
  ASSUME OneDataset
  PROVE  Spec => CacheSpec
<1>1. Init => CacheInit
  BY DEF Init
<1> QED
  BY <1>1, CacheStepOfAny, ReadInvariant, PTL DEF Spec, CacheSpec

\* The cache keeps its limits, its order and one slot per chunk under concurrent reads.
THEOREM ReadersKeepLimits ==
  ASSUME OneDataset
  PROVE  Spec => [](WithinLimits /\ OneSlotPerCoord /\ OnlyZeroSlotsPoison) /\ EvictsLeastRecent
BY ReadersUseCache, CacheWithinLimits, CacheSlotsApart, CachePoison, CacheEvictsLeastRecent, PTL
-------------------------------------------------------------------------------
\* The chunks of dataset n, their places and what is in them.
Chunks(n) == CollectChunks(FileOf[n], DatasetOf[n]).chunks
ChunkAt(n, k) == CoordOf(Chunks(n)[k], Rank(DatasetOf[n]))
DataOf(n, k) == ChunkData(FileOf[n], DatasetOf[n], Chunks(n)[k], Unreadable)
Here(n, k, i) == Covering(DatasetOf[n], ChunkAt(n, k), DataOf(n, k), i)
ValueOf(n, k, i) == DataOf(n, k)[CHOOSE e \in Here(n, k, i) : TRUE]
Cells(n) == DOMAIN ZeroFilled(DatasetOf[n])

Listable(n) == WellFormed(DatasetOf[n]) /\ CollectChunks(FileOf[n], DatasetOf[n]).ok

\* The buffer of a read that has copied the chunks numbered K.
Holds(n, buffer, K) ==
  /\ buffer = [i \in Cells(n) |-> buffer[i]]
  /\ \A i \in Cells(n) :
       /\ (\A k \in K : Here(n, k, i) = {}) => buffer[i] = 0
       /\ \A k \in K : Here(n, k, i) # {} => buffer[i] = ValueOf(n, k, i)

\* What the files promise, in these terms.
LEMMA ChunksApart ==
  ASSUME NEW n \in Names, Listable(n), NEW k \in DOMAIN Chunks(n), NEW l \in DOMAIN Chunks(n), k # l
  PROVE  /\ ChunkAt(n, k) # ChunkAt(n, l)
         /\ DataOf(n, k) # Unreadable /\ DataOf(n, l) # Unreadable =>
              \A i \in Cells(n) : Here(n, k, i) = {} \/ Here(n, l, i) = {}
<1>1. Apart(DatasetOf[n], FileOf[n])
  BY ContentsAssumption
<1> QED
  BY <1>1, Zenon DEF Apart, Listable, Chunks, ChunkAt, DataOf, Here, Cells

LEMMA ChunkTypes ==
  ASSUME NEW n \in Names, Listable(n)
  PROVE  /\ ListingOf(n) \in Listing /\ Rank(DatasetOf[n]) \in Nat
         /\ ListingOf(n).chunks = Chunks(n) /\ ListingOf(n).rank = Rank(DatasetOf[n])
         /\ Chunks(n) \in Seq(ChunkInfo) /\ Len(Chunks(n)) \in Nat /\ DOMAIN Chunks(n) = 1 .. Len(Chunks(n))
         /\ \A k \in DOMAIN Chunks(n) :
              /\ DataOf(n, k) \in Data \cup {Unreadable}
              /\ Chunks(n)[k].offsets \in Seq(Nat) /\ Len(Chunks(n)[k].offsets) >= Rank(DatasetOf[n])
<1>1. CollectChunks(FileOf[n], DatasetOf[n]).ok
  BY DEF Listable
<1>2. /\ ListingOf(n) \in Listing /\ Rank(DatasetOf[n]) \in Nat
      /\ \A k \in DOMAIN Chunks(n) :
           /\ DataOf(n, k) \in Data \cup {Unreadable}
           /\ Chunks(n)[k].offsets \in Seq(Nat) /\ Len(Chunks(n)[k].offsets) >= Rank(DatasetOf[n])
  BY <1>1, SweepAssumption, Zenon DEF Chunks, DataOf
<1>3. ListingOf(n).chunks = Chunks(n) /\ ListingOf(n).rank = Rank(DatasetOf[n])
  BY DEF ListingOf, Chunks
<1>4. Chunks(n) \in Seq(ChunkInfo)
  BY <1>2, <1>3, ListingAssumption, Zenon
<1>5. Len(Chunks(n)) \in Nat /\ DOMAIN Chunks(n) = 1 .. Len(Chunks(n))
  BY <1>4
<1> QED
  BY <1>2, <1>3, <1>4, <1>5, Zenon

\* The index of a listing leads from the place of each chunk to that chunk.
LEMMA IndexOfChunks ==
  ASSUME NEW n \in Names, Listable(n)
  PROVE  /\ ListedCoords(ListingOf(n)) = {ChunkAt(n, k) : k \in DOMAIN Chunks(n)}
         /\ \A k \in DOMAIN Chunks(n) : /\ ChunkAt(n, k) \in Coord
                                        /\ LastEntry(ListingOf(n), ChunkAt(n, k)) = Chunks(n)[k]
         /\ DOMAIN IndexOf(ListingOf(n)) = ListedCoords(ListingOf(n))
         /\ {IndexOf(ListingOf(n))[c] : c \in DOMAIN IndexOf(ListingOf(n))} = {Chunks(n)[k] : k \in DOMAIN Chunks(n)}
         /\ IndexOf(ListingOf(n)) # None
<1>1. PICK l \in Listing : l = ListingOf(n)
  BY ChunkTypes, Zenon
<1>2. l.chunks = Chunks(n) /\ l.rank = Rank(DatasetOf[n])
  BY <1>1, ChunkTypes, Zenon
<1>3. ListedCoords(l) = {ChunkAt(n, k) : k \in DOMAIN Chunks(n)}
  BY <1>2 DEF ListedCoords, ChunkAt
<1>4. ListedCoords(l) \subseteq Coord
  BY ListingAssumption
<1>5. ASSUME NEW k \in DOMAIN Chunks(n) PROVE LastEntry(l, ChunkAt(n, k)) = Chunks(n)[k]
  <2>1. \A j \in DOMAIN Chunks(n) : CoordOf(Chunks(n)[j], l.rank) = ChunkAt(n, k) <=> j = k
    <3>1. \A j \in DOMAIN Chunks(n) : j # k => ChunkAt(n, j) # ChunkAt(n, k)
      BY ChunksApart, Zenon
    <3> QED
      BY <3>1, <1>2, Zenon DEF ChunkAt
  <2>2. k \in Int
    BY ChunkTypes
  <2>3. k <= k
    BY <2>2
  <2>4. (CHOOSE i \in DOMAIN Chunks(n) :
           /\ CoordOf(Chunks(n)[i], l.rank) = ChunkAt(n, k)
           /\ \A j \in DOMAIN Chunks(n) : CoordOf(Chunks(n)[j], l.rank) = ChunkAt(n, k) => j <= i) = k
    BY <2>1, <2>3, Zenon
  <2> QED
    BY <1>2, <2>4, Zenon DEF LastEntry
<1>6. DOMAIN IndexOf(l) = ListedCoords(l) /\ \A c \in ListedCoords(l) : IndexOf(l)[c] = LastEntry(l, c)
  BY Zenon DEF IndexOf
<1>7. {IndexOf(l)[c] : c \in DOMAIN IndexOf(l)} = {Chunks(n)[k] : k \in DOMAIN Chunks(n)}
  BY <1>3, <1>5, <1>6
<1>8. IndexOf(l) # None
  BY IndexIsSome
<1> QED
  BY <1>1, <1>3, <1>4, <1>5, <1>6, <1>7, <1>8

\* One more chunk copied.
LEMMA HoldsMore ==
  ASSUME NEW n \in Names, Listable(n), NEW K \in SUBSET DOMAIN Chunks(n), NEW buffer, Holds(n, buffer, K),
         NEW k0 \in DOMAIN Chunks(n), k0 \notin K, DataOf(n, k0) # Unreadable,
         \A k \in K : DataOf(n, k) # Unreadable
  PROVE  Holds(n, CopiedInto(buffer, DatasetOf[n], ChunkAt(n, k0), DataOf(n, k0)), K \cup {k0})
<1>1. PICK after : after = CopiedInto(buffer, DatasetOf[n], ChunkAt(n, k0), DataOf(n, k0))
  OBVIOUS
<1>2. DOMAIN buffer = Cells(n)
  BY DEF Holds
<1>3. after = [i \in Cells(n) |-> IF Here(n, k0, i) = {} THEN buffer[i] ELSE ValueOf(n, k0, i)]
  BY <1>1, <1>2, Zenon DEF CopiedInto, Here, ValueOf
<1>4. after = [i \in Cells(n) |-> after[i]]
  BY <1>3
<1>5. ASSUME NEW i \in Cells(n)
      PROVE  /\ (\A k \in K \cup {k0} : Here(n, k, i) = {}) => after[i] = 0
             /\ \A k \in K \cup {k0} : Here(n, k, i) # {} => after[i] = ValueOf(n, k, i)
  <2>1. after[i] = IF Here(n, k0, i) = {} THEN buffer[i] ELSE ValueOf(n, k0, i)
    BY <1>3
  <2>2. /\ (\A k \in K : Here(n, k, i) = {}) => buffer[i] = 0
        /\ \A k \in K : Here(n, k, i) # {} => buffer[i] = ValueOf(n, k, i)
    BY Zenon DEF Holds
  <2>3. \A k \in K : Here(n, k, i) # {} => Here(n, k0, i) = {}
    BY ChunksApart
  <2> QED
    BY <2>1, <2>2, <2>3
<1>6. Holds(n, after, K \cup {k0})
  BY <1>4, <1>5, Zenon DEF Holds
<1> QED
  BY <1>1, <1>6, Zenon

\* With every chunk copied the buffer is what the file holds.
LEMMA HoldsAll ==
  ASSUME NEW n \in Names, Listable(n), NEW buffer, Holds(n, buffer, DOMAIN Chunks(n)),
         \A k \in DOMAIN Chunks(n) : DataOf(n, k) # Unreadable
  PROVE  buffer = Contents[n]
<1> DEFINE covers(i) == {k \in DOMAIN Chunks(n) : Here(n, k, i) # {}}
<1>1. Contents[n] = [i \in Cells(n) |-> IF covers(i) = {} THEN 0
                                        ELSE LET k == CHOOSE x \in covers(i) : TRUE IN ValueOf(n, k, i)]
  <2>1. Contents[n] = InPlace(DatasetOf[n], FileOf[n])
    BY ContentsAssumption, Zenon
  <2>2. InPlace(DatasetOf[n], FileOf[n])
        = [i \in Cells(n) |-> IF covers(i) = {} THEN 0
                              ELSE LET k == CHOOSE x \in covers(i) : TRUE IN ValueOf(n, k, i)]
    BY Zenon DEF InPlace, Listable, Chunks, ChunkAt, DataOf, Here, ValueOf, Cells
  <2> QED
    BY <2>1, <2>2, Zenon
<1>2. ASSUME NEW i \in Cells(n)
      PROVE  buffer[i] = IF covers(i) = {} THEN 0 ELSE LET k == CHOOSE x \in covers(i) : TRUE IN ValueOf(n, k, i)
  <2>1. CASE covers(i) = {}
    BY <2>1, Zenon DEF Holds
  <2>2. CASE covers(i) # {}
    <3>1. PICK k \in covers(i) : k = CHOOSE x \in covers(i) : TRUE
      BY <2>2, Zenon
    <3>2. buffer[i] = ValueOf(n, k, i)
      BY <3>1, Zenon DEF Holds
    <3> QED
      BY <2>2, <3>1, <3>2, Zenon
  <2> QED
    BY <2>1, <2>2
<1> HIDE DEF covers
<1>3. buffer = [i \in Cells(n) |-> buffer[i]]
  BY DEF Holds
<1>4. [i \in Cells(n) |-> buffer[i]]
      = [i \in Cells(n) |-> IF covers(i) = {} THEN 0 ELSE LET k == CHOOSE x \in covers(i) : TRUE IN ValueOf(n, k, i)]
  BY <1>2, Zenon
<1> QED
  BY <1>1, <1>3, <1>4, Zenon

-------------------------------------------------------------------------------
\* The chunks copied in their order, which is that of read_chunked_data.
LEMMA InOrder ==
  ASSUME NEW n \in Names, Listable(n), \A k \in DOMAIN Chunks(n) : DataOf(n, k) # Unreadable
  PROVE  CopiedInOrder(DatasetOf[n], Chunks(n), [k \in DOMAIN Chunks(n) |-> DataOf(n, k)]) = Contents[n]
<1> DEFINE m == Len(Chunks(n))
           U == {0} \cup UNION {{DataOf(n, k)[e] : e \in DOMAIN DataOf(n, k)} : k \in DOMAIN Chunks(n)}
           V == [Cells(n) -> U]
           With(buffer, k) == CopiedInto(buffer, DatasetOf[n], ChunkAt(n, k), DataOf(n, k))
           Rec(u) == [k \in 0 .. m |-> IF k = 0 THEN ZeroFilled(DatasetOf[n]) ELSE With(u[k - 1], k)]
           upTo == CHOOSE u : u = Rec(u)
<1>1. m \in Nat /\ DOMAIN Chunks(n) = 1 .. m
  BY ChunkTypes
<1>2. CopiedInOrder(DatasetOf[n], Chunks(n), [k \in DOMAIN Chunks(n) |-> DataOf(n, k)]) = upTo[m]
  <2>1. PICK data : data = [k \in DOMAIN Chunks(n) |-> DataOf(n, k)]
    OBVIOUS
  <2>2. \A u : [k \in 0 .. m |-> IF k = 0 THEN ZeroFilled(DatasetOf[n])
                                ELSE CopiedInto(u[k - 1], DatasetOf[n], CoordOf(Chunks(n)[k], Rank(DatasetOf[n])), data[k])]
               = Rec(u)
    <3> SUFFICES ASSUME NEW u, NEW k \in 0 .. m, k # 0 PROVE k \in DOMAIN Chunks(n)
      BY <2>1, Zenon DEF ChunkAt
    <3> QED
      BY <1>1
  <2>3. CopiedInOrder(DatasetOf[n], Chunks(n), data) = upTo[m]
    BY <2>2, Zenon DEF CopiedInOrder
  <2> QED
    BY <2>1, <2>3, Zenon
<1>3. ZeroFilled(DatasetOf[n]) \in V /\ \A i \in Cells(n) : ZeroFilled(DatasetOf[n])[i] = 0
  BY DEF ZeroFilled, Cells
<1>4. ASSUME NEW k \in 1 .. m, NEW buffer \in V PROVE With(buffer, k) \in V
  <2>1. With(buffer, k) = [i \in Cells(n) |-> IF Here(n, k, i) = {} THEN buffer[i] ELSE ValueOf(n, k, i)]
    BY Zenon DEF CopiedInto, Here, ValueOf
  <2>2. ASSUME NEW i \in Cells(n), Here(n, k, i) # {} PROVE ValueOf(n, k, i) \in U
    <3>1. PICK e \in Here(n, k, i) : e = CHOOSE x \in Here(n, k, i) : TRUE
      BY <2>2, Zenon
    <3>2. e \in DOMAIN DataOf(n, k)
      BY <3>1 DEF Here, Covering
    <3>3. k \in DOMAIN Chunks(n) /\ ValueOf(n, k, i) = DataOf(n, k)[e]
      BY <1>1, <3>1, Zenon DEF ValueOf
    <3>4. DataOf(n, k)[e] \in {DataOf(n, k)[x] : x \in DOMAIN DataOf(n, k)}
      BY <3>2, Zenon
    <3>5. {DataOf(n, k)[x] : x \in DOMAIN DataOf(n, k)}
            \in {{DataOf(n, l)[x] : x \in DOMAIN DataOf(n, l)} : l \in DOMAIN Chunks(n)}
      BY <3>3, Zenon
    <3>6. DataOf(n, k)[e] \in UNION {{DataOf(n, l)[x] : x \in DOMAIN DataOf(n, l)} : l \in DOMAIN Chunks(n)}
      BY <3>4, <3>5, Zenon
    <3> QED
      BY <3>3, <3>6, Zenon
  <2>3. \A i \in Cells(n) : buffer[i] \in U
    OBVIOUS
  <2> HIDE DEF U, With
  <2> QED
    BY <2>1, <2>2, <2>3
<1> HIDE DEF U, V, With
<1>5. \E u : u = Rec(u)
  <2> DEFINE step == [k \in 1 .. m |-> [buffer \in V |-> With(buffer, k)]]
  <2>1. step \in [1 .. m -> [V -> V]]
    BY <1>4
  <2> HIDE DEF step
  <2>2. PICK u \in [0 .. m -> V] : IsFold(u, m, ZeroFilled(DatasetOf[n]), step)
    BY <2>1, <1>1, <1>3, FoldExists
  <2>3. ASSUME NEW k \in 1 .. m PROVE u[k] = With(u[k - 1], k)
    <3>1. k - 1 \in 0 .. m
      BY <1>1
    <3>2. u[k - 1] \in V /\ u[k] = step[k][u[k - 1]]
      BY <2>2, <3>1 DEF IsFold
    <3> QED
      BY <3>2 DEF step
  <2>4. \A k \in 0 .. m : k # 0 => k \in 1 .. m
    BY <1>1
  <2>5. u[0] = ZeroFilled(DatasetOf[n]) /\ u = [k \in 0 .. m |-> u[k]]
    BY <2>2 DEF IsFold
  <2>6. \A k \in 0 .. m : u[k] = IF k = 0 THEN ZeroFilled(DatasetOf[n]) ELSE With(u[k - 1], k)
    BY <2>3, <2>4, <2>5, Zenon
  <2>7. u = Rec(u)
    BY <2>5, <2>6, Zenon
  <2> QED
    BY <2>7
<1>6. upTo = Rec(upTo)
  BY <1>5, Zenon
<1> HIDE DEF upTo
<1>7. \A k \in 0 .. m : upTo[k] = IF k = 0 THEN ZeroFilled(DatasetOf[n]) ELSE With(upTo[k - 1], k)
  <2>1. PICK u : u = upTo
    OBVIOUS
  <2>2. u = Rec(u)
    BY <1>6, <2>1, Zenon
  <2>3. \A k \in 0 .. m : Rec(u)[k] = IF k = 0 THEN ZeroFilled(DatasetOf[n]) ELSE With(u[k - 1], k)
    BY Zenon
  <2> HIDE DEF Rec
  <2> QED
    BY <2>1, <2>2, <2>3, Zenon
<1> DEFINE S == {k \in 0 .. m : Holds(n, upTo[k], 1 .. k)}
<1>8. 0 \in S
  <2>1. upTo[0] = ZeroFilled(DatasetOf[n]) /\ 0 \in 0 .. m
    BY <1>1, <1>7
  <2>2. \A k \in 1 .. 0 : FALSE
    OBVIOUS
  <2>3. ZeroFilled(DatasetOf[n]) = [i \in Cells(n) |-> ZeroFilled(DatasetOf[n])[i]]
    BY DEF ZeroFilled, Cells
  <2>4. Holds(n, ZeroFilled(DatasetOf[n]), 1 .. 0)
    BY <1>3, <2>2, <2>3, Zenon DEF Holds
  <2> QED
    BY <2>1, <2>4
<1>9. \A k \in 0 .. m - 1 : k \in S => k + 1 \in S
  <2> SUFFICES ASSUME NEW k \in 0 .. m - 1, Holds(n, upTo[k], 1 .. k)
               PROVE  k + 1 \in 0 .. m /\ Holds(n, upTo[k + 1], 1 .. k + 1)
    BY <1>1
  <2>1. /\ k + 1 \in 0 .. m /\ k + 1 # 0 /\ (k + 1) - 1 = k /\ k + 1 \in 1 .. m
        /\ 1 .. k \subseteq 1 .. m /\ k + 1 \notin 1 .. k /\ (1 .. k) \cup {k + 1} = 1 .. k + 1
    BY <1>1
  <2>2. upTo[k + 1] = CopiedInto(upTo[k], DatasetOf[n], ChunkAt(n, k + 1), DataOf(n, k + 1))
    BY <1>7, <2>1 DEF With
  <2>3. Holds(n, upTo[k + 1], (1 .. k) \cup {k + 1})
    <3>1. PICK K, j, b : K = 1 .. k /\ j = k + 1 /\ b = upTo[k]
      OBVIOUS
    <3>2. Holds(n, b, K) /\ K \in SUBSET DOMAIN Chunks(n) /\ j \in DOMAIN Chunks(n) /\ j \notin K
      BY <1>1, <2>1, <3>1, Zenon
    <3>3. Holds(n, CopiedInto(b, DatasetOf[n], ChunkAt(n, j), DataOf(n, j)), K \cup {j})
      BY <3>2, HoldsMore
    <3> QED
      BY <2>2, <3>1, <3>3, Zenon
  <2> QED
    BY <2>1, <2>3
<1> HIDE DEF S
<1>10. m \in S
  <2> HIDE DEF m, Rec
  <2>1. m \in Nat
    BY <1>1, Zenon
  <2>2. 0 .. m \subseteq S
    BY <2>1, <1>8, <1>9, RangeInduction, Zenon
  <2> QED
    BY <2>1, <2>2
<1>11. Holds(n, upTo[m], DOMAIN Chunks(n))
  BY <1>1, <1>10 DEF S
<1>12. upTo[m] = Contents[n]
  BY <1>11, HoldsAll
<1> QED
  BY <1>2, <1>12, Zenon

\* An uncached read answers with what the file holds.
LEMMA WholeRead ==
  ASSUME NEW n \in Names
  PROVE  ReadWhole(DatasetOf[n], FileOf[n]) = Contents[n]
<1>1. Contents[n] = InPlace(DatasetOf[n], FileOf[n])
  BY ContentsAssumption, Zenon
<1>2. CASE ~Listable(n)
  BY <1>1, <1>2, Zenon DEF Listable, InPlace, ReadWhole
<1>3. CASE Listable(n) /\ \E k \in DOMAIN Chunks(n) : DataOf(n, k) = Unreadable
  <2>1. InPlace(DatasetOf[n], FileOf[n]) = Unreadable
    BY <1>3, Zenon DEF Listable, InPlace, Chunks, DataOf
  <2>2. PICK data : data = [k \in DOMAIN Chunks(n) |-> DataOf(n, k)]
    OBVIOUS
  <2>3. \E k \in DOMAIN data : data[k] = Unreadable
    BY <1>3, <2>2
  <2>4. ReadWhole(DatasetOf[n], FileOf[n]) = Unreadable
    BY <1>3, <2>2, <2>3, Zenon DEF Listable, ReadWhole, Chunks, DataOf
  <2> QED
    BY <1>1, <2>1, <2>4, Zenon
<1>4. CASE Listable(n) /\ \A k \in DOMAIN Chunks(n) : DataOf(n, k) # Unreadable
  <2>1. PICK data : data = [k \in DOMAIN Chunks(n) |-> DataOf(n, k)]
    OBVIOUS
  <2>2. ~\E k \in DOMAIN data : data[k] = Unreadable
    BY <1>4, <2>1
  <2>3. ReadWhole(DatasetOf[n], FileOf[n]) = CopiedInOrder(DatasetOf[n], Chunks(n), data)
    BY <1>4, <2>1, <2>2, Zenon DEF Listable, ReadWhole, Chunks, DataOf
  <2> QED
    BY <1>4, <2>1, <2>3, InOrder
<1> QED
  BY <1>2, <1>3, <1>4

-------------------------------------------------------------------------------
AllChunks(n) == {Chunks(n)[k] : k \in DOMAIN Chunks(n)}

\* The chunks that have been copied when those in R are left.
CopiedBut(n, R) == {k \in DOMAIN Chunks(n) : Chunks(n)[k] \notin R}

\* A buffer into which all chunks but those in R were copied, without an error.
FilledBut(n, R, buffer) ==
  /\ Listable(n)
  /\ R \subseteq AllChunks(n)
  /\ \A k \in CopiedBut(n, R) : DataOf(n, k) # Unreadable
  /\ Holds(n, buffer, CopiedBut(n, R))

LEMMA NothingCopied ==
  ASSUME NEW n \in Names, Listable(n)
  PROVE  FilledBut(n, AllChunks(n), ZeroFilled(DatasetOf[n]))
<1>1. CopiedBut(n, AllChunks(n)) = {}
  BY DEF CopiedBut, AllChunks
<1>2. /\ ZeroFilled(DatasetOf[n]) = [i \in Cells(n) |-> ZeroFilled(DatasetOf[n])[i]]
      /\ \A i \in Cells(n) : ZeroFilled(DatasetOf[n])[i] = 0
  BY DEF ZeroFilled, Cells
<1>3. Holds(n, ZeroFilled(DatasetOf[n]), {})
  BY <1>2, Zenon DEF Holds
<1> QED
  BY <1>1, <1>3 DEF FilledBut

LEMMA OneCopied ==
  ASSUME NEW n \in Names, NEW R, NEW buffer, FilledBut(n, R, buffer),
         NEW k \in DOMAIN Chunks(n), Chunks(n)[k] \in R, DataOf(n, k) # Unreadable
  PROVE  FilledBut(n, R \ {Chunks(n)[k]}, CopiedInto(buffer, DatasetOf[n], ChunkAt(n, k), DataOf(n, k)))
<1> DEFINE S == R \ {Chunks(n)[k]}
           K == CopiedBut(n, R)
<1>1. \A j \in DOMAIN Chunks(n) : Chunks(n)[j] = Chunks(n)[k] => j = k
  BY ChunksApart, Zenon DEF FilledBut, ChunkAt
<1>2. CopiedBut(n, S) = K \cup {k}
  BY <1>1 DEF CopiedBut
<1>3. K \in SUBSET DOMAIN Chunks(n) /\ k \notin K
  BY DEF CopiedBut
<1>4. Listable(n) /\ Holds(n, buffer, K) /\ \A j \in K : DataOf(n, j) # Unreadable
  BY Zenon DEF FilledBut
<1>5. Holds(n, CopiedInto(buffer, DatasetOf[n], ChunkAt(n, k), DataOf(n, k)), K \cup {k})
  BY <1>3, <1>4, HoldsMore
<1>6. S \subseteq AllChunks(n)
  BY DEF FilledBut
<1>7. \A j \in CopiedBut(n, S) : DataOf(n, j) # Unreadable
  BY <1>2, <1>4
<1> QED
  BY <1>2, <1>4, <1>5, <1>6, <1>7, Zenon DEF FilledBut

LEMMA AllCopied ==
  ASSUME NEW n \in Names, NEW buffer, FilledBut(n, {}, buffer)
  PROVE  buffer = Contents[n]
<1>1. CopiedBut(n, {}) = DOMAIN Chunks(n)
  BY DEF CopiedBut
<1>2. /\ Listable(n) /\ Holds(n, buffer, DOMAIN Chunks(n))
      /\ \A k \in DOMAIN Chunks(n) : DataOf(n, k) # Unreadable
  BY <1>1, Zenon DEF FilledBut
<1> QED
  BY <1>2, HoldsAll

\* What makes a read fail makes the contents an error.
LEMMA ErrorsEarned ==
  ASSUME NEW n \in Names
  PROVE  /\ ~Listable(n) => Contents[n] = Unreadable
         /\ \A k \in DOMAIN Chunks(n) : DataOf(n, k) = Unreadable => Contents[n] = Unreadable
<1>1. Contents[n] = InPlace(DatasetOf[n], FileOf[n])
  BY ContentsAssumption, Zenon
<1>2. ~Listable(n) => Contents[n] = Unreadable
  BY <1>1, Zenon DEF Listable, InPlace
<1>3. ASSUME Listable(n), NEW k \in DOMAIN Chunks(n), DataOf(n, k) = Unreadable
      PROVE  Contents[n] = Unreadable
  BY <1>1, <1>3, Zenon DEF Listable, InPlace, Chunks, DataOf
<1> QED
  BY <1>2, <1>3
-------------------------------------------------------------------------------
AtChunk == {"hint", "label", "get", "decode"}

SweepTypes ==
  /\ phase \in {"idle", "open", "list", "next", "panicked"} \cup AtChunk
  /\ name \in Names
  /\ slots \subseteq Slot
  /\ tick \in Nat

\* The cache, emptied for every other dataset, holds that of this one.
IndexIsRight == index # None => Listable(name) /\ index = IndexOf(ListingOf(name))

SlotsAreRight ==
  \A s \in slots :
    /\ Listable(name)
    /\ \E k \in DOMAIN Chunks(name) :
         s.coord = ChunkAt(name, k) /\ s.data = DataOf(name, k) /\ DataOf(name, k) # Unreadable

BufferIsRight ==
  /\ phase \in {"list", "next"} \cup AtChunk => index # None
  /\ phase = "next" => FilledBut(name, left, output)
  /\ phase \in AtChunk => current \notin left /\ FilledBut(name, left \cup {current}, output)

\* The inductive invariant of sweep reads: a reply is right because the buffer
\* was, and that because the index and the slots are those of the dataset.
SweepInv == SweepTypes /\ IndexIsRight /\ SlotsAreRight /\ BufferIsRight /\ SweepReadsBack

\* A cache with the same index and no new chunk is as right as before.
LEMMA CacheStaysRight ==
  ASSUME IndexIsRight, SlotsAreRight, name' = name, index' = index,
         \A s \in slots' : \E r \in slots : s.coord = r.coord /\ s.data = r.data
  PROVE  IndexIsRight' /\ SlotsAreRight'
<1>1. IndexIsRight'
  BY Zenon DEF IndexIsRight
<1>2. SlotsAreRight'
  <2> SUFFICES ASSUME NEW s \in slots'
               PROVE  /\ Listable(name)
                      /\ \E k \in DOMAIN Chunks(name) :
                           s.coord = ChunkAt(name, k) /\ s.data = DataOf(name, k) /\ DataOf(name, k) # Unreadable
    BY Zenon DEF SlotsAreRight
  <2>1. PICK r \in slots : s.coord = r.coord /\ s.data = r.data
    OBVIOUS
  <2>2. PICK k \in DOMAIN Chunks(name) :
          r.coord = ChunkAt(name, k) /\ r.data = DataOf(name, k) /\ DataOf(name, k) # Unreadable
    BY Zenon DEF SlotsAreRight
  <2>3. Listable(name)
    BY Zenon DEF SlotsAreRight
  <2> QED
    BY <2>1, <2>2, <2>3, Zenon
<1> QED
  BY <1>1, <1>2

\* The chunk being read is one of the dataset's.
LEMMA CurrentChunk ==
  ASSUME SweepInv, phase \in AtChunk
  PROVE  /\ name \in Names /\ Listable(name) /\ FilledBut(name, left \cup {current}, output)
         /\ \E k \in DOMAIN Chunks(name) : /\ current = Chunks(name)[k]
                                           /\ CoordOfChunk = ChunkAt(name, k)
                                           /\ Decompressed = DataOf(name, k)
<1>1. name \in Names /\ FilledBut(name, left \cup {current}, output)
  BY DEF SweepInv, SweepTypes, BufferIsRight
<1>2. Listable(name) /\ current \in AllChunks(name)
  BY <1>1 DEF FilledBut
<1>3. PICK k \in DOMAIN Chunks(name) : current = Chunks(name)[k]
  BY <1>2 DEF AllChunks
<1>4. CoordOfChunk = ChunkAt(name, k) /\ Decompressed = DataOf(name, k)
  BY <1>3, Zenon DEF CoordOfChunk, Decompressed, ChunkAt, DataOf, ds, file
<1> QED
  BY <1>1, <1>2, <1>3, <1>4

\* What a lookup finds is what decompressing yields.
LEMMA SlotIsRight ==
  ASSUME SweepInv, NEW k \in DOMAIN Chunks(name), Cached(ChunkAt(name, k))
  PROVE  DataAt(ChunkAt(name, k)) = DataOf(name, k) /\ DataOf(name, k) # Unreadable
<1>1. PICK s \in slots : s.coord = ChunkAt(name, k) /\ DataAt(ChunkAt(name, k)) = s.data
  BY Zenon DEF Cached, DataAt
<1>2. PICK j \in DOMAIN Chunks(name) :
        s.coord = ChunkAt(name, j) /\ s.data = DataOf(name, j) /\ DataOf(name, j) # Unreadable
  BY Zenon DEF SweepInv, SlotsAreRight
<1>3. name \in Names /\ Listable(name)
  BY Zenon DEF SweepInv, SweepTypes, SlotsAreRight
<1>4. j = k
  BY <1>1, <1>2, <1>3, ChunksApart
<1> QED
  BY <1>1, <1>2, <1>4

-------------------------------------------------------------------------------
LEMMA SweepStart == SweepInit => SweepInv
<1> SUFFICES ASSUME SweepInit PROVE SweepInv
  OBVIOUS
<1>1. index = None /\ slots = {} /\ tick = 0 /\ phase = "idle" /\ name \in Names /\ reply = Unread
  BY DEF SweepInit, CacheInit
<1> QED
  BY <1>1 DEF SweepInv, SweepTypes, IndexIsRight, SlotsAreRight, BufferIsRight, AtChunk, SweepReadsBack

\* A read begins with the cache of its dataset, or an empty one.
LEMMA CacheForNext ==
  ASSUME SweepInv, NEW n \in Names, name' = n,
         IF n = name THEN UNCHANGED <<cacheVars, detector>> ELSE Clear /\ detector' = NewDetector
  PROVE  /\ name' \in Names /\ slots' \subseteq Slot /\ tick' \in Nat
         /\ IndexIsRight' /\ SlotsAreRight'
<1>1. CASE n = name
  <2>1. index' = index /\ slots' = slots /\ tick' = tick
    BY <1>1 DEF cacheVars
  <2>2. \A s \in slots' : \E r \in slots : s.coord = r.coord /\ s.data = r.data
    BY <2>1
  <2> QED
    BY <1>1, <2>1, <2>2, CacheStaysRight DEF SweepInv, SweepTypes
<1>2. CASE n # name
  <2>1. index' = None /\ slots' = {} /\ tick' = 0
    BY <1>2 DEF Clear
  <2> QED
    BY <2>1 DEF IndexIsRight, SlotsAreRight
<1> QED
  BY <1>1, <1>2

LEMMA BeginSweepStep ==
  ASSUME SweepInv, NEW n \in Names, BeginSweep(n)
  PROVE  SweepInv'
<1>1. phase' = "open" /\ reply' = Unread
  BY DEF BeginSweep, Proceed
<1>2. name' \in Names /\ slots' \subseteq Slot /\ tick' \in Nat /\ IndexIsRight' /\ SlotsAreRight'
  BY CacheForNext DEF BeginSweep
<1> QED
  BY <1>1, <1>2 DEF SweepInv, SweepTypes, BufferIsRight, AtChunk, SweepReadsBack

LEMMA ReadUncachedStep ==
  ASSUME SweepInv, NEW n \in Names, ReadUncached(n)
  PROVE  SweepInv'
<1>1. phase' = "idle" /\ name' = n /\ reply' = Contents[n]
  BY WholeRead DEF ReadUncached
<1>2. name' \in Names /\ slots' \subseteq Slot /\ tick' \in Nat /\ IndexIsRight' /\ SlotsAreRight'
  BY CacheForNext DEF ReadUncached
<1> QED
  BY <1>1, <1>2 DEF SweepInv, SweepTypes, BufferIsRight, AtChunk, SweepReadsBack

\* A read ends with a right answer, whatever it leaves in the cache.
LEMMA ReturnStep ==
  ASSUME SweepInv, NEW from, NEW given, ReturnWith(from, given), UNCHANGED cacheVars, given = Contents[name]
  PROVE  SweepInv'
<1>1. /\ phase' = "idle" /\ name' = name /\ reply' = Contents[name]
      /\ index' = index /\ slots' = slots /\ tick' = tick
  BY DEF ReturnWith, Proceed, cacheVars
<1>2. \A s \in slots' : \E r \in slots : s.coord = r.coord /\ s.data = r.data
  BY <1>1
<1>3. IndexIsRight' /\ SlotsAreRight'
  BY <1>1, <1>2, CacheStaysRight DEF SweepInv
<1> QED
  BY <1>1, <1>3 DEF SweepInv, SweepTypes, BufferIsRight, AtChunk, SweepReadsBack

LEMMA OpenFailsStep ==
  ASSUME SweepInv, OpenFails
  PROVE  SweepInv'
<1>1. ReturnWith("open", Unreadable) /\ UNCHANGED cacheVars
  BY DEF OpenFails
<1>2. ~Listable(name)
  BY Zenon DEF OpenFails, Listable, ds, file
<1>3. Contents[name] = Unreadable
  BY <1>2, ErrorsEarned DEF SweepInv, SweepTypes
<1> QED
  BY <1>1, <1>3, ReturnStep

LEMMA OpenStep ==
  ASSUME SweepInv, Open
  PROVE  SweepInv'
<1>1. phase' = "list" /\ name' = name /\ reply' = reply /\ slots' = slots /\ tick' = tick
  BY DEF Open, Proceed, sweepVars, cacheVars, PopulateIndex
<1>2. IndexIsRight' /\ index' # None
  <2>1. CASE index # None
    <3>1. index' = index
      BY <2>1 DEF Open, cacheVars
    <3>2. Listable(name) /\ index = IndexOf(ListingOf(name))
      BY <2>1 DEF SweepInv, IndexIsRight
    <3> QED
      BY <1>1, <2>1, <3>1, <3>2, Zenon DEF IndexIsRight
  <2>2. CASE index = None
    <3>1. Listable(name)
      BY <2>2, Zenon DEF Open, Listable, ds, file
    <3>2. index' = IndexOf(ListingOf(name))
      BY <2>2, Zenon DEF Open, PopulateIndex, ListingOf, ds, file
    <3>3. IndexOf(ListingOf(name)) # None
      BY <3>1, IndexOfChunks DEF SweepInv, SweepTypes
    <3> QED
      BY <1>1, <3>1, <3>2, <3>3, Zenon DEF IndexIsRight
  <2> QED
    BY <2>1, <2>2
<1>3. SlotsAreRight'
  BY <1>1, Zenon DEF SweepInv, SlotsAreRight
<1> QED
  BY <1>1, <1>2, <1>3 DEF SweepInv, SweepTypes, BufferIsRight, AtChunk, SweepReadsBack

LEMMA TakeChunksStep ==
  ASSUME SweepInv, TakeChunks
  PROVE  SweepInv'
<1>1. /\ phase = "list" /\ phase' = "next" /\ name' = name /\ reply' = reply
      /\ index' = index /\ slots' = slots /\ tick' = tick
  BY DEF TakeChunks, Proceed, cacheVars
<1>2. name \in Names /\ index # None /\ Listable(name) /\ index = IndexOf(ListingOf(name))
  BY <1>1 DEF SweepInv, SweepTypes, BufferIsRight, IndexIsRight
<1>3. left' = AllChunks(name)
  <2>1. left' = {index[c] : c \in DOMAIN index}
    BY DEF TakeChunks
  <2>2. {IndexOf(ListingOf(name))[c] : c \in DOMAIN IndexOf(ListingOf(name))}
          = {Chunks(name)[k] : k \in DOMAIN Chunks(name)}
    BY <1>2, IndexOfChunks
  <2> QED
    BY <1>2, <2>1, <2>2, Zenon DEF AllChunks
<1>4. output' = ZeroFilled(DatasetOf[name])
  BY DEF TakeChunks, ds
<1>5. FilledBut(name, AllChunks(name), ZeroFilled(DatasetOf[name]))
  BY <1>2, NothingCopied
<1>6. FilledBut(name', left', output')
  BY <1>1, <1>3, <1>4, <1>5, Zenon
<1>7. IndexIsRight' /\ SlotsAreRight'
  <2>1. \A s \in slots' : \E r \in slots : s.coord = r.coord /\ s.data = r.data
    BY <1>1
  <2> QED
    BY <1>1, <2>1, CacheStaysRight DEF SweepInv
<1> QED
  BY <1>1, <1>2, <1>6, <1>7 DEF SweepInv, SweepTypes, BufferIsRight, AtChunk, SweepReadsBack

LEMMA VisitStep ==
  ASSUME SweepInv, NEW info \in left, Visit(info)
  PROVE  SweepInv'
<1>1. /\ phase = "next" /\ phase' \in {"hint", "get"} /\ name' = name /\ reply' = reply /\ output' = output
      /\ index' = index /\ slots' = slots /\ tick' = tick
      /\ current' = info /\ left' = left \ {info}
  BY DEF Visit, cacheVars
<1>2. index # None /\ FilledBut(name, left, output)
  BY <1>1 DEF SweepInv, BufferIsRight
<1>3. left' \cup {current'} = left /\ current' \notin left'
  BY <1>1
<1>4. FilledBut(name', left' \cup {current'}, output')
  BY <1>1, <1>2, <1>3, Zenon
<1>5. IndexIsRight' /\ SlotsAreRight'
  <2>1. \A s \in slots' : \E r \in slots : s.coord = r.coord /\ s.data = r.data
    BY <1>1
  <2> QED
    BY <1>1, <2>1, CacheStaysRight DEF SweepInv
<1>6. phase' \in AtChunk /\ phase' # "next"
  BY <1>1 DEF AtChunk
<1>7. BufferIsRight'
  BY <1>1, <1>2, <1>3, <1>4, <1>6, Zenon DEF BufferIsRight
<1> QED
  BY <1>1, <1>5, <1>6, <1>7 DEF SweepInv, SweepTypes, SweepReadsBack

\* A step that stays at its chunk and only looks things up.
LEMMA StayStep ==
  ASSUME SweepInv, phase \in AtChunk, phase' \in AtChunk, name' = name, reply' = reply, output' = output,
         current' = current, left' = left, index' = index, slots' \subseteq Slot, tick' \in Nat,
         \A s \in slots' : \E r \in slots : s.coord = r.coord /\ s.data = r.data
  PROVE  SweepInv'
<1>1. IndexIsRight' /\ SlotsAreRight'
  BY CacheStaysRight DEF SweepInv
<1>2. index # None /\ current \notin left /\ FilledBut(name, left \cup {current}, output)
  BY DEF SweepInv, BufferIsRight
<1>3. FilledBut(name', left' \cup {current'}, output')
  BY <1>2, Zenon
<1>4. phase' # "next"
  BY DEF AtChunk
<1>5. BufferIsRight'
  BY <1>2, <1>3, <1>4, Zenon DEF BufferIsRight
<1> QED
  BY <1>1, <1>5 DEF SweepInv, SweepTypes, SweepReadsBack

LEMMA HintStep ==
  ASSUME SweepInv, Hint \/ SetDirection
  PROVE  SweepInv'
<1>1. /\ phase \in AtChunk /\ phase' \in AtChunk /\ name' = name /\ reply' = reply /\ output' = output
      /\ current' = current /\ left' = left
  BY DEF Hint, SetDirection, Proceed, AtChunk, sweepVars
<1>2. index' = index /\ slots' = slots /\ tick' = tick
  BY DEF Hint, SetDirection, PrefetchHint, SetSweepDirection
<1>3. \A s \in slots' : \E r \in slots : s.coord = r.coord /\ s.data = r.data
  BY <1>2
<1> QED
  BY <1>1, <1>2, <1>3, StayStep DEF SweepInv, SweepTypes

LEMMA MissCachedStep ==
  ASSUME SweepInv, MissCached
  PROVE  SweepInv'
<1>1. /\ phase \in AtChunk /\ phase' \in AtChunk /\ name' = name /\ reply' = reply /\ output' = output
      /\ current' = current /\ left' = left /\ GetDecompressed(CoordOfChunk)
  BY DEF MissCached, Proceed, AtChunk, sweepVars
<1>2. /\ slots' \subseteq Slot /\ tick' \in Nat /\ index' = index
      /\ \A s \in slots' : \E r \in slots : s.coord = r.coord /\ s.data = r.data
  BY <1>1, GetLemma DEF SweepInv, SweepTypes
<1> QED
  BY <1>1, <1>2, StayStep

\* The chunk at hand copied from data that is right.
LEMMA CopyStep ==
  ASSUME SweepInv, phase \in AtChunk, phase' = "next", name' = name, reply' = reply, left' = left,
         index' = index, slots' \subseteq Slot, tick' \in Nat, IndexIsRight', SlotsAreRight',
         NEW k \in DOMAIN Chunks(name), current = Chunks(name)[k], DataOf(name, k) # Unreadable,
         output' = CopiedInto(output, DatasetOf[name], ChunkAt(name, k), DataOf(name, k))
  PROVE  SweepInv'
<1>1. /\ index # None /\ name \in Names /\ current \notin left
      /\ FilledBut(name, left \cup {current}, output)
  BY DEF SweepInv, SweepTypes, BufferIsRight
<1>2. (left \cup {current}) \ {Chunks(name)[k]} = left
  BY <1>1
<1>3. FilledBut(name, (left \cup {current}) \ {Chunks(name)[k]},
                CopiedInto(output, DatasetOf[name], ChunkAt(name, k), DataOf(name, k)))
  <2>1. Chunks(name)[k] \in left \cup {current}
    OBVIOUS
  <2> QED
    BY <1>1, <2>1, OneCopied
<1>4. FilledBut(name', left', output')
  BY <1>2, <1>3, Zenon
<1>5. BufferIsRight'
  BY <1>1, <1>4 DEF BufferIsRight, AtChunk
<1> QED
  BY <1>1, <1>5 DEF SweepInv, SweepTypes, SweepReadsBack

LEMMA CopyCachedStep ==
  ASSUME SweepInv, CopyCached
  PROVE  SweepInv'
<1>1. /\ phase \in AtChunk /\ phase' = "next" /\ name' = name /\ reply' = reply /\ left' = left
      /\ GetDecompressed(CoordOfChunk) /\ Cached(CoordOfChunk)
      /\ output' = CopiedInto(output, DatasetOf[name], CoordOfChunk, DataAt(CoordOfChunk))
  BY DEF CopyCached, Proceed, AtChunk, ds
<1>2. /\ slots' \subseteq Slot /\ tick' \in Nat /\ index' = index
      /\ \A s \in slots' : \E r \in slots : s.coord = r.coord /\ s.data = r.data
  BY <1>1, GetLemma DEF SweepInv, SweepTypes
<1>3. IndexIsRight' /\ SlotsAreRight'
  BY <1>1, <1>2, CacheStaysRight DEF SweepInv
<1>4. PICK k \in DOMAIN Chunks(name) : current = Chunks(name)[k] /\ CoordOfChunk = ChunkAt(name, k)
  BY <1>1, CurrentChunk
<1>5. DataAt(CoordOfChunk) = DataOf(name, k) /\ DataOf(name, k) # Unreadable
  BY <1>1, <1>4, SlotIsRight
<1>6. output' = CopiedInto(output, DatasetOf[name], ChunkAt(name, k), DataOf(name, k))
  BY <1>1, <1>4, <1>5, Zenon
<1> QED
  BY <1>1, <1>2, <1>3, <1>4, <1>5, <1>6, CopyStep

LEMMA DecompressFailsStep ==
  ASSUME SweepInv, DecompressFails
  PROVE  SweepInv'
<1>1. /\ phase \in AtChunk /\ Decompressed = Unreadable
      /\ ReturnWith("decode", Unreadable) /\ UNCHANGED cacheVars
  BY DEF DecompressFails, AtChunk
<1>2. name \in Names /\ \E k \in DOMAIN Chunks(name) : Decompressed = DataOf(name, k)
  BY <1>1, CurrentChunk
<1>3. Contents[name] = Unreadable
  BY <1>1, <1>2, ErrorsEarned
<1> QED
  BY <1>1, <1>3, ReturnStep

LEMMA PutChunkStep ==
  ASSUME SweepInv, PutChunk
  PROVE  SweepInv'
<1>1. /\ phase \in AtChunk /\ name' = name /\ reply' = reply /\ left' = left
      /\ PutDecompressed(CoordOfChunk, Decompressed) /\ Decompressed # Unreadable
      /\ \/ phase' = "panicked"
         \/ phase' = "next" /\ output' = CopiedInto(output, DatasetOf[name], CoordOfChunk, Decompressed)
  BY DEF PutChunk, AtChunk, ds
<1>2. PICK k \in DOMAIN Chunks(name) : /\ current = Chunks(name)[k]
                                       /\ CoordOfChunk = ChunkAt(name, k)
                                       /\ Decompressed = DataOf(name, k)
  BY <1>1, CurrentChunk
<1>3. name \in Names /\ Listable(name)
  BY <1>1, CurrentChunk
<1>4. DataOf(name, k) # Unreadable /\ DataOf(name, k) \in Data /\ ChunkAt(name, k) \in Coord
  BY <1>1, <1>2, <1>3, ChunkTypes, IndexOfChunks
<1>5. /\ slots' \subseteq Slot /\ tick' \in Nat /\ index' = index
      /\ \A s \in slots' : \/ s.coord = ChunkAt(name, k) /\ s.data = DataOf(name, k)
                           \/ \E r \in slots : s.coord = r.coord /\ s.data = r.data
  <2>1. PutDecompressed(ChunkAt(name, k), DataOf(name, k))
    BY <1>1, <1>2, Zenon
  <2>2. slots \subseteq Slot /\ tick \in Nat
    BY DEF SweepInv, SweepTypes
  <2>3. PICK c \in Coord, d \in Data : c = ChunkAt(name, k) /\ d = DataOf(name, k)
    BY <1>4
  <2>4. PutDecompressed(c, d)
    BY <2>1, <2>3, Zenon
  <2> QED
    BY <2>2, <2>3, <2>4, PutLemma
<1>6. IndexIsRight'
  BY <1>1, <1>5, Zenon DEF SweepInv, IndexIsRight
<1>7. SlotsAreRight'
  <2> SUFFICES ASSUME NEW s \in slots'
               PROVE  \E j \in DOMAIN Chunks(name) :
                        s.coord = ChunkAt(name, j) /\ s.data = DataOf(name, j) /\ DataOf(name, j) # Unreadable
    BY <1>1, <1>3, Zenon DEF SlotsAreRight
  <2>1. CASE s.coord = ChunkAt(name, k) /\ s.data = DataOf(name, k)
    BY <1>4, <2>1
  <2>2. CASE \E r \in slots : s.coord = r.coord /\ s.data = r.data
    BY <2>2, Zenon DEF SweepInv, SlotsAreRight
  <2> QED
    BY <1>5, <2>1, <2>2
<1>8. CASE phase' = "panicked"
  BY <1>1, <1>3, <1>5, <1>6, <1>7, <1>8 DEF SweepInv, SweepTypes, BufferIsRight, AtChunk, SweepReadsBack
<1>9. CASE phase' = "next" /\ output' = CopiedInto(output, DatasetOf[name], CoordOfChunk, Decompressed)
  <2>1. output' = CopiedInto(output, DatasetOf[name], ChunkAt(name, k), DataOf(name, k))
    BY <1>2, <1>9, Zenon
  <2> QED
    BY <1>1, <1>2, <1>4, <1>5, <1>6, <1>7, <1>9, <2>1, CopyStep
<1> QED
  BY <1>1, <1>8, <1>9

LEMMA CompleteStep ==
  ASSUME SweepInv, Complete
  PROVE  SweepInv'
<1>1. left = {} /\ phase = "next" /\ ReturnWith("next", output) /\ UNCHANGED cacheVars
  BY DEF Complete, ReturnWith, Proceed
<1>2. name \in Names /\ FilledBut(name, {}, output)
  BY <1>1 DEF SweepInv, SweepTypes, BufferIsRight
<1>3. output = Contents[name]
  BY <1>2, AllCopied
<1> QED
  BY <1>1, <1>3, ReturnStep

LEMMA SweepStep == SweepInv /\ [SweepNext]_allVars => SweepInv'
<1> SUFFICES ASSUME SweepInv, [SweepNext]_allVars PROVE SweepInv'
  OBVIOUS
<1>1. CASE UNCHANGED allVars
  <2>1. /\ phase' = phase /\ name' = name /\ reply' = reply /\ output' = output /\ current' = current
        /\ left' = left /\ index' = index /\ slots' = slots /\ tick' = tick
    BY <1>1 DEF allVars, sweepVars, cacheVars
  <2> QED
    BY <2>1, Zenon DEF SweepInv, SweepTypes, IndexIsRight, SlotsAreRight, BufferIsRight, SweepReadsBack
<1> QED
  BY <1>1, BeginSweepStep, ReadUncachedStep, OpenFailsStep, OpenStep, TakeChunksStep, VisitStep, HintStep,
     CopyCachedStep, MissCachedStep, DecompressFailsStep, PutChunkStep, CompleteStep, Zenon
  DEF SweepNext

\* Whatever index a dataset has, and in whatever order its chunks are visited,
\* cached, evicted and predicted, read_chunked_data_sweep answers with the
\* elements in their places, or with the error the file earns.
THEOREM SweepReadsRight == SweepSpec => []SweepReadsBack
<1>1. SweepInv => SweepReadsBack
  BY DEF SweepInv
<1> QED
  BY <1>1, SweepStart, SweepStep, PTL DEF SweepSpec

-------------------------------------------------------------------------------
\* What SweepContext::record and SweepDetector::record_access make of a history.
ContextOf(h, n) ==
  IF Unknown(h, n) \/ ~Dominates(h, n, FastestDim(h, n))
  THEN [history |-> h, direction |-> "random", predicted |-> <<>>]
  ELSE [history |-> h, direction |-> Label(FastestDim(h, n), n),
        predicted |-> Ahead(h, FastestDim(h, n), AverageStep(h, FastestDim(h, n)))]

DetectorOf(h, n) ==
  [history |-> h, direction |-> DetectSweep(h, n),
   predicted |-> IF DetectSweep(h, n) = <<"Random">> THEN <<>> ELSE PredictNext(h, DetectSweep(h, n))]

LEMMA RecordMakes ==
  ASSUME NEW s, NEW c, NEW n
  PROVE  /\ Record(s, c, n) = ContextOf(Window(s.history, c), n)
         /\ RecordAccess(s, c, n) = DetectorOf(Window(s.history, c), n)
         /\ ContextOf(Window(s.history, c), n).history = Window(s.history, c)
         /\ DetectorOf(Window(s.history, c), n).history = Window(s.history, c)
<1>1. Record(s, c, n) = ContextOf(Window(s.history, c), n)
  BY Zenon DEF Record, ContextOf
<1>2. RecordAccess(s, c, n) = DetectorOf(Window(s.history, c), n)
  BY Zenon DEF RecordAccess, DetectorOf
<1>3. ASSUME NEW h PROVE ContextOf(h, n).history = h /\ DetectorOf(h, n).history = h
  BY DEF ContextOf, DetectorOf
<1> QED
  BY <1>1, <1>2, <1>3

\* A history of coordinates, the last of them of rank n.
IsHistory(h, n) == h \in Seq(Seq(Nat)) /\ Len(h) > 0 /\ Len(h[Len(h)]) = n

LEMMA WindowLemma ==
  ASSUME NEW h \in Seq(Seq(Nat)), NEW c \in Seq(Nat)
  PROVE  /\ IsHistory(Window(h, c), Len(c))
         /\ \A i \in DOMAIN Window(h, c) : Window(h, c)[i] = c \/ \E j \in DOMAIN h : Window(h, c)[i] = h[j]
<1>1. PICK g : g = IF Len(h) >= WindowSize THEN Tail(h) ELSE h
  OBVIOUS
<1>2. g \in Seq(Seq(Nat)) /\ \A i \in DOMAIN g : \E j \in DOMAIN h : g[i] = h[j]
  <2>1. CASE Len(h) >= WindowSize
    <3>1. WindowSize \in Nat /\ WindowSize > 0
      BY WindowAssumption
    <3>2. Len(h) \in Nat /\ Len(h) > 0 /\ g = Tail(h) /\ h # <<>>
      BY <1>1, <2>1, <3>1
    <3>3. g \in Seq(Seq(Nat)) /\ Len(g) = Len(h) - 1
      BY <3>2
    <3>4. ASSUME NEW i \in DOMAIN g PROVE i + 1 \in DOMAIN h /\ g[i] = h[i + 1]
      BY <3>2, <3>3
    <3> QED
      BY <3>3, <3>4
  <2>2. CASE ~(Len(h) >= WindowSize)
    <3>1. g = h
      BY <1>1, <2>2, Zenon
    <3> QED
      BY <3>1
  <2> QED
    BY <2>1, <2>2
<1>3. Window(h, c) = Append(g, c)
  <2>1. Window(h, c) = g \o <<c>>
    BY <1>1, Zenon DEF Window
  <2>2. g \o <<c>> = Append(g, c)
    BY <1>2
  <2> QED
    BY <2>1, <2>2
<1>4. /\ Append(g, c) \in Seq(Seq(Nat)) /\ Len(Append(g, c)) = Len(g) + 1 /\ Len(g) \in Nat
      /\ Append(g, c)[Len(g) + 1] = c
      /\ \A i \in 1 .. Len(g) : Append(g, c)[i] = g[i]
      /\ DOMAIN Append(g, c) = 1 .. Len(g) + 1 /\ DOMAIN g = 1 .. Len(g)
  BY <1>2
<1>5. IsHistory(Append(g, c), Len(c))
  BY <1>4 DEF IsHistory
<1>6. \A i \in DOMAIN Append(g, c) : i = Len(g) + 1 \/ i \in DOMAIN g
  BY <1>4
<1>7. \A i \in DOMAIN Append(g, c) : Append(g, c)[i] = c \/ \E j \in DOMAIN h : Append(g, c)[i] = h[j]
  BY <1>2, <1>4, <1>6, Zenon
<1> QED
  BY <1>3, <1>5, <1>7, Zenon

LEMMA ChangesType ==
  ASSUME NEW h, NEW d, Len(h) \in Nat, Len(h) > 0
  PROVE  /\ Changes(h, d) \in 0 .. Len(h) - 1
         /\ (\A i \in Steps(h) : h[i][d] # h[i + 1][d]) => Changes(h, d) = Len(h) - 1
         /\ (\A i \in Steps(h) : h[i][d] = h[i + 1][d]) => Changes(h, d) = 0
<1> DEFINE S == {i \in Steps(h) : h[i][d] # h[i + 1][d]}
<1>1. Len(h) - 1 \in Nat /\ Steps(h) = 1 .. Len(h) - 1
  BY DEF Steps
<1>2. IsFiniteSet(Steps(h)) /\ Cardinality(Steps(h)) = Len(h) - 1
  <2>1. PICK m \in Nat : m = Len(h) - 1
    BY <1>1
  <2>2. 1 \in Int /\ m \in Int /\ (IF 1 > m THEN 0 ELSE m - 1 + 1) = m
    OBVIOUS
  <2>3. IsFiniteSet(1 .. m) /\ Cardinality(1 .. m) = IF 1 > m THEN 0 ELSE m - 1 + 1
    BY <2>2, FS_Interval, Zenon
  <2> QED
    BY <1>1, <2>1, <2>2, <2>3, Zenon
<1>3. S \subseteq Steps(h) /\ IsFiniteSet(S) /\ Cardinality(S) <= Cardinality(Steps(h))
  <2>1. S \subseteq Steps(h)
    OBVIOUS
  <2> QED
    BY <1>2, <2>1, FS_Subset
<1>4. Cardinality(S) \in Nat
  BY <1>3, FS_CardinalityType
<1>5. (\A i \in Steps(h) : h[i][d] # h[i + 1][d]) => S = Steps(h)
  OBVIOUS
<1>6. (\A i \in Steps(h) : h[i][d] = h[i + 1][d]) => Cardinality(S) = 0
  <2>1. (\A i \in Steps(h) : h[i][d] = h[i + 1][d]) => S = {}
    OBVIOUS
  <2> QED
    BY <2>1, FS_EmptySet, Zenon
<1>7. Changes(h, d) = Cardinality(S)
  BY Zenon DEF Changes
<1> HIDE DEF S
<1> QED
  BY <1>1, <1>2, <1>3, <1>4, <1>5, <1>6, <1>7

\* max_by_key, and the same search written with a loop, find one dimension.
LEMMA FastestLemma ==
  ASSUME NEW h, NEW n \in Nat, n > 0, Len(h) \in Nat, Len(h) > 0
  PROVE  /\ FastestDim(h, n) \in 1 .. n
         /\ \A e \in 1 .. n : Changes(h, e) <= Changes(h, FastestDim(h, n))
         /\ \A d \in 1 .. n : (\A e \in (1 .. n) \ {d} : Changes(h, e) < Changes(h, d)) => FastestDim(h, n) = d
         /\ FastestDim(h, n) = CHOOSE x \in 1 .. n :
              /\ \A e \in 1 .. x : Changes(h, e) <= Changes(h, x)
              /\ \A e \in x + 1 .. n : Changes(h, e) < Changes(h, x)
<1> DEFINE C(d) == Changes(h, d)
           First(d) == \A e \in 1 .. n : C(e) < C(d) \/ (C(e) = C(d) /\ e <= d)
           Second(x) == /\ \A e \in 1 .. x : C(e) <= C(x)
                        /\ \A e \in x + 1 .. n : C(e) < C(x)
           counts == {C(d) : d \in 1 .. n}
<1>1. \A d : C(d) \in 0 .. Len(h) - 1
  BY ChangesType
<1>2. \A d \in 1 .. n : First(d) <=> Second(d)
  <2> HIDE DEF C
  <2> QED
    BY <1>1
<1>3. \E d \in 1 .. n : First(d)
  <2>1. counts \in SUBSET (0 .. Len(h) - 1) /\ counts # {} /\ Len(h) - 1 \in Nat
    <3>1. 1 \in 1 .. n
      OBVIOUS
    <3>2. C(1) \in counts
      BY <3>1, Zenon
    <3> HIDE DEF C
    <3> QED
      BY <1>1, <3>2
  <2>2. PICK m \in counts : \A c \in counts : c <= m
    BY <2>1, NatMax
  <2> DEFINE D == {d \in 1 .. n : C(d) = m}
  <2>3. D \in SUBSET (0 .. n) /\ D # {}
    BY <2>2
  <2>4. PICK d \in D : \A e \in D : e <= d
    <3> HIDE DEF D
    <3> QED
      BY <2>3, NatMax
  <2>5. ASSUME NEW e \in 1 .. n PROVE C(e) < C(d) \/ (C(e) = C(d) /\ e <= d)
    <3>1. C(e) \in counts /\ C(d) = m /\ C(e) <= m
      BY <2>2
    <3>2. C(e) = m => e <= d
      BY <2>4
    <3> HIDE DEF C, counts, D
    <3> QED
      BY <1>1, <3>1, <3>2
  <2> QED
    BY <2>5
<1>4. FastestDim(h, n) = CHOOSE d \in 1 .. n : First(d)
  BY Zenon DEF FastestDim
<1> HIDE DEF First, Second
<1>5. FastestDim(h, n) \in 1 .. n /\ First(FastestDim(h, n))
  BY <1>3, <1>4, Zenon
<1>6. FastestDim(h, n) = CHOOSE x \in 1 .. n : Second(x)
  BY <1>2, <1>4, Zenon
<1>7. \A e \in 1 .. n : C(e) <= C(FastestDim(h, n))
  <2> HIDE DEF C
  <2> QED
    BY <1>1, <1>5 DEF First
<1>8. ASSUME NEW d \in 1 .. n, \A e \in (1 .. n) \ {d} : C(e) < C(d) PROVE FastestDim(h, n) = d
  <2>1. PICK x \in 1 .. n : x = FastestDim(h, n)
    BY <1>5
  <2>2. C(d) <= C(x)
    BY <1>7, <2>1
  <2>3. x # d => C(x) < C(d)
    BY <1>8
  <2> HIDE DEF C
  <2> QED
    BY <1>1, <2>1, <2>2, <2>3
<1> QED
  BY <1>5, <1>6, <1>7, <1>8, Zenon DEF Second

-------------------------------------------------------------------------------
Words ==
  [Random |-> "random", RowMajor |-> "row_major", ColumnMajor |-> "column_major", SliceMajor |-> "slice_major"]

\* Both make the same of the same history of coordinates of one rank.
LEMMA SameVerdict ==
  ASSUME NEW n \in Nat, NEW h, IsHistory(h, n), \A i \in DOMAIN h : Len(h[i]) = n
  PROVE  /\ ContextOf(h, n).predicted = DetectorOf(h, n).predicted
         /\ ContextOf(h, n).direction = Words[DetectorOf(h, n).direction[1]]
<1>1. Len(h) \in Nat /\ Len(h) > 0 /\ DOMAIN h = 1 .. Len(h)
  BY DEF IsHistory
<1>2. PICK verdict : verdict = DetectSweep(h, n)
  OBVIOUS
<1>3. /\ DetectorOf(h, n).direction = verdict
      /\ DetectorOf(h, n).predicted = IF verdict = <<"Random">> THEN <<>> ELSE PredictNext(h, verdict)
  BY <1>2 DEF DetectorOf
<1>4. CASE verdict = <<"Random">> /\ (Unknown(h, n) \/ ~Dominates(h, n, FastestDim(h, n)))
  <2>1. ContextOf(h, n).predicted = <<>> /\ ContextOf(h, n).direction = "random"
    BY <1>4 DEF ContextOf
  <2>2. Words[verdict[1]] = "random"
    BY <1>4 DEF Words
  <2> QED
    BY <1>3, <1>4, <2>1, <2>2
<1>5. CASE ~Unknown(h, n) /\ Dominates(h, n, FastestDim(h, n))
  <2>1. n > 0
    BY <1>5 DEF Unknown
  <2>2. PICK d \in 1 .. n : d = FastestDim(h, n)
    BY <1>1, <2>1, FastestLemma
  <2>3. /\ ContextOf(h, n).predicted = Ahead(h, d, AverageStep(h, d))
        /\ ContextOf(h, n).direction = Label(d, n)
    BY <1>5, <2>2 DEF ContextOf
  <2>4. verdict = IF d = n THEN <<"RowMajor">> ELSE IF d = 1 THEN <<"ColumnMajor">> ELSE <<"SliceMajor", d>>
    <3>1. d = CHOOSE x \in 1 .. n :
                /\ \A e \in 1 .. x : Changes(h, e) <= Changes(h, x)
                /\ \A e \in x + 1 .. n : Changes(h, e) < Changes(h, x)
      BY <1>1, <2>1, <2>2, FastestLemma, Zenon
    <3>2. ~(Len(h) < 3 \/ n = 0 \/ \E i \in DOMAIN h : Len(h[i]) < n)
      BY <1>5, Zenon DEF Unknown
    <3> DEFINE others == {Changes(h, e) : e \in (1 .. n) \ {d}}
               d0 == CHOOSE x \in 1 .. n :
                       /\ \A e \in 1 .. x : Changes(h, e) <= Changes(h, x)
                       /\ \A e \in x + 1 .. n : Changes(h, e) < Changes(h, x)
    <3>3. ~(Changes(h, d) < Len(h) \div 2 \/ \E o \in others : Changes(h, d) < o * 2)
      <4>1. Changes(h, d) >= Len(h) \div 2 /\ \A e \in (1 .. n) \ {d} : Changes(h, d) >= 2 * Changes(h, e)
        BY <1>5, <2>2, Zenon DEF Dominates
      <4>2. Len(h) \div 2 \in Int /\ \A e : Changes(h, e) \in Int
        BY <1>1, ChangesType
      <4>3. \A o \in others : Changes(h, d) >= o * 2
        <5> SUFFICES ASSUME NEW e \in (1 .. n) \ {d} PROVE Changes(h, d) >= Changes(h, e) * 2
          OBVIOUS
        <5> QED
          BY <4>1, <4>2
      <4>4. \A o \in others : o * 2 \in Int
        BY <4>2
      <4>5. ~(Changes(h, d) < Len(h) \div 2)
        BY <4>1, <4>2
      <4>6. \A o \in others : ~(Changes(h, d) < o * 2)
        BY <4>2, <4>3, <4>4
      <4> QED
        BY <4>5, <4>6, Zenon
    <3>4. DetectSweep(h, n)
            = IF Len(h) < 3 \/ n = 0 \/ (\E i \in DOMAIN h : Len(h[i]) < n) THEN <<"Random">>
              ELSE IF Changes(h, d0) < Len(h) \div 2 \/ (\E o \in {Changes(h, e) : e \in (1 .. n) \ {d0}} : Changes(h, d0) < o * 2)
              THEN <<"Random">>
              ELSE IF d0 = n THEN <<"RowMajor">>
              ELSE IF d0 = 1 THEN <<"ColumnMajor">>
              ELSE <<"SliceMajor", d0>>
      BY Zenon DEF DetectSweep
    <3>5. d0 = d
      BY <3>1, Zenon
    <3> HIDE DEF d0
    <3> QED
      BY <1>2, <3>2, <3>3, <3>4, <3>5, Zenon
  <2>5. verdict # <<"Random">> /\ Label(d, n) = Words[verdict[1]]
    BY <2>4 DEF Label, Words
  <2>6. PredictNext(h, verdict) = Ahead(h, d, AverageStep(h, d))
    <3>1. Len(h[1]) = n
      BY <1>1
    <3>2. (CASE verdict[1] = "RowMajor" -> n
             [] verdict[1] = "ColumnMajor" -> 1
             [] OTHER -> IF verdict[2] < n THEN verdict[2] ELSE n) = d
      BY <2>4
    <3> QED
      BY <3>1, <3>2, Zenon DEF PredictNext
  <2> QED
    BY <1>3, <2>3, <2>5, <2>6, Zenon
<1>6. CASE verdict # <<"Random">> /\ (Unknown(h, n) \/ ~Dominates(h, n, FastestDim(h, n)))
  <2>1. ~Unknown(h, n)
    BY <1>2, <1>6, Zenon DEF Unknown, DetectSweep
  <2>2. n > 0
    BY <2>1 DEF Unknown
  <2>3. PICK d \in 1 .. n : d = FastestDim(h, n)
    BY <1>1, <2>2, FastestLemma
  <2>4. d = CHOOSE x \in 1 .. n :
              /\ \A e \in 1 .. x : Changes(h, e) <= Changes(h, x)
              /\ \A e \in x + 1 .. n : Changes(h, e) < Changes(h, x)
    BY <1>1, <2>2, <2>3, FastestLemma, Zenon
  <2>5. ~(Changes(h, d) < Len(h) \div 2) /\ \A e \in (1 .. n) \ {d} : ~(Changes(h, d) < Changes(h, e) * 2)
    BY <1>2, <1>6, <2>4, Zenon DEF DetectSweep
  <2>6. Len(h) \div 2 \in Int /\ \A e : Changes(h, e) \in Int
    BY <1>1, ChangesType
  <2>7. Dominates(h, n, d)
    BY <2>5, <2>6 DEF Dominates
  <2> QED
    BY <1>6, <2>1, <2>3, <2>7
<1>7. CASE verdict = <<"Random">> /\ ~(Unknown(h, n) \/ ~Dominates(h, n, FastestDim(h, n)))
  BY <1>5, <1>7
<1> QED
  BY <1>4, <1>5, <1>6, Zenon

-------------------------------------------------------------------------------
\* What the first numbers of an interval are known by.
LEMMA PrefixSet ==
  ASSUME NEW m \in Nat, NEW S \in SUBSET (1 .. m), \A i \in S : \A j \in 1 .. i : j \in S
  PROVE  Cardinality(S) \in 0 .. m /\ S = 1 .. Cardinality(S)
<1>1. CASE S = {}
  <2>1. Cardinality(S) = 0
    BY <1>1, FS_EmptySet
  <2> QED
    BY <1>1, <2>1
<1>2. CASE S # {}
  <2>1. S \in SUBSET (0 .. m)
    OBVIOUS
  <2>2. PICK k \in S : \A r \in S : r <= k
    BY <1>2, <2>1, NatMax
  <2>3. k \in 1 .. m /\ S = 1 .. k
    <3>1. \A r \in S : r \in 1 .. k
      BY <2>2
    <3>2. \A j \in 1 .. k : j \in S
      BY <2>2
    <3> QED
      BY <2>2, <3>1, <3>2
  <2>4. 1 \in Int /\ k \in Int /\ (IF 1 > k THEN 0 ELSE k - 1 + 1) = k
    BY <2>3
  <2>5. Cardinality(1 .. k) = IF 1 > k THEN 0 ELSE k - 1 + 1
    BY <2>4, FS_Interval, Zenon
  <2> QED
    BY <2>3, <2>4, <2>5
<1> QED
  BY <1>1, <1>2

LEMMA Products ==
  ASSUME NEW a \in Int \ {0}, NEW i \in Nat, NEW j \in Nat
  PROVE  /\ a * i \in Int /\ (a * i = a * j => i = j) /\ (i # 0 => a * i # 0)
         /\ \A b \in Nat : b + a * i >= 0 /\ j <= i => b + a * j >= 0
<1>1. a * i \in Int /\ a * j \in Int
  OBVIOUS
<1>2. CASE a > 0
  <2>1. (i < j => a * i < a * j) /\ (j < i => a * j < a * i) /\ (i # 0 => a * i > 0) /\ a * j >= 0
    BY <1>2
  <2> QED
    BY <1>1, <2>1
<1>3. CASE a < 0
  <2>1. (i < j => a * j < a * i) /\ (j < i => a * i < a * j) /\ (i # 0 => a * i < 0)
    BY <1>3
  <2> QED
    BY <1>1, <2>1
<1> QED
  BY <1>2, <1>3

LEMMA QuotientLemma ==
  ASSUME NEW b \in Nat \ {0}
  PROVE  /\ \A a \in Int : Quotient(a, b) \in Int
         /\ \A a \in Int : Quotient(b * a, b) = a
<1>1. ASSUME NEW a \in Nat PROVE a \div b \in Nat
  OBVIOUS
<1>2. ASSUME NEW a \in Nat PROVE b * a \in Nat /\ (b * a) \div b = a
  <2>1. PICK m \in Nat : m = b * a
    OBVIOUS
  <2>2. PICK q \in Nat, r \in Nat : q = m \div b /\ r < b /\ m = b * q + r
    OBVIOUS
  <2>3. CASE q < a
    <3>1. b * a >= b * (q + 1) /\ b * (q + 1) = b * q + b /\ b * q \in Nat
      BY <2>3
    <3> QED
      BY <2>1, <2>2, <3>1
  <2>4. CASE q > a
    <3>1. b * q >= b * (a + 1) /\ b * (a + 1) = b * a + b /\ b * q \in Nat
      BY <2>4
    <3> QED
      BY <2>1, <2>2, <3>1
  <2> QED
    BY <2>1, <2>2, <2>3, <2>4
<1>3. ASSUME NEW a \in Int PROVE Quotient(a, b) \in Int
  <2>1. CASE a < 0
    <3>1. -a \in Nat
      BY <2>1
    <3>2. (-a) \div b \in Nat
      BY <3>1, <1>1
    <3> QED
      BY <2>1, <3>2 DEF Quotient
  <2>2. CASE ~(a < 0)
    BY <1>1, <2>2 DEF Quotient
  <2> QED
    BY <2>1, <2>2
<1>4. ASSUME NEW a \in Int PROVE Quotient(b * a, b) = a
  <2>1. CASE a < 0
    <3>1. -a \in Nat /\ b * a \in Int /\ -(b * a) = b * (-a) /\ b * a < 0
      BY <2>1
    <3>2. (b * (-a)) \div b = -a
      BY <3>1, <1>2
    <3>3. Quotient(b * a, b) = -(-a)
      BY <3>1, <3>2 DEF Quotient
    <3> QED
      BY <2>1, <3>3
  <2>2. CASE ~(a < 0)
    <3>1. a \in Nat
      BY <2>2
    <3>2. b * a \in Nat /\ (b * a) \div b = a
      BY <3>1, <1>2
    <3> QED
      BY <3>2 DEF Quotient
  <2> QED
    BY <2>1, <2>2
<1> QED
  BY <1>3, <1>4

\* The steps add up to the distance between the first and the last coordinate.
LEMMA MovedLemma ==
  ASSUME NEW h, NEW d, Len(h) \in Nat, Len(h) > 0, \A i \in 1 .. Len(h) : h[i][d] \in Int
  PROVE  /\ Moved(h, d) = h[Len(h)][d] - h[1][d]
         /\ \A step \in Int : (\A i \in Steps(h) : h[i + 1][d] = h[i][d] + step) =>
              Moved(h, d) = (Len(h) - 1) * step
<1> DEFINE x(k) == h[k][d]
<1>1. PICK m \in Nat : m = Len(h) - 1
  OBVIOUS
<1>2. x(1) \in Int /\ \A k \in 0 .. m : x(k + 1) \in Int /\ (k # 0 => x(k) \in Int)
  BY <1>1
<1> DEFINE Rec(u) == [k \in 0 .. m |-> IF k = 0 THEN 0 ELSE u[k - 1] + (x(k + 1) - x(k))]
           sum == CHOOSE u : u = Rec(u)
<1>3. Moved(h, d) = sum[m]
  BY <1>1, Zenon DEF Moved
<1>4. \E u : u = Rec(u)
  <2> DEFINE u == [k \in 0 .. m |-> x(k + 1) - x(1)]
  <2> HIDE DEF x
  <2>1. ASSUME NEW k \in 0 .. m PROVE u[k] = IF k = 0 THEN 0 ELSE u[k - 1] + (x(k + 1) - x(k))
    <3>1. CASE k = 0
      <4>1. x(0 + 1) \in Int /\ 0 \in 0 .. m
        BY <1>2
      <4> QED
        BY <3>1, <4>1
    <3>2. CASE k # 0
      <4>1. k - 1 \in 0 .. m /\ (k - 1) + 1 = k /\ 0 \in 0 .. m
        BY <3>2
      <4>2. u[k - 1] = x(k) - x(1) /\ u[k] = x(k + 1) - x(1)
        BY <4>1
      <4>3. x(k) \in Int /\ x(k + 1) \in Int /\ x(1) \in Int
        BY <1>2, <3>2
      <4> HIDE DEF u
      <4> QED
        BY <3>2, <4>2, <4>3
    <3> QED
      BY <3>1, <3>2
  <2>2. u = [k \in 0 .. m |-> u[k]]
    OBVIOUS
  <2>3. u = Rec(u)
    <3> HIDE DEF u
    <3> QED
      BY <2>1, <2>2, Zenon
  <2> QED
    BY <2>3
<1>5. sum = Rec(sum)
  BY <1>4, Zenon
<1> HIDE DEF sum, x
<1>6. \A k \in 0 .. m : sum[k] = IF k = 0 THEN 0 ELSE sum[k - 1] + (x(k + 1) - x(k))
  <2>1. PICK u : u = sum
    OBVIOUS
  <2>2. u = Rec(u)
    BY <1>5, <2>1, Zenon
  <2>3. \A k \in 0 .. m : Rec(u)[k] = IF k = 0 THEN 0 ELSE u[k - 1] + (x(k + 1) - x(k))
    BY Zenon
  <2> HIDE DEF Rec
  <2> QED
    BY <2>1, <2>2, <2>3, Zenon
<1> HIDE DEF Rec
<1> DEFINE S == {k \in 0 .. m : sum[k] = x(k + 1) - x(1)}
<1>7. 0 \in S
  <2>1. x(0 + 1) \in Int /\ 0 \in 0 .. m /\ sum[0] = 0
    BY <1>2, <1>6
  <2> QED
    BY <2>1
<1>8. \A k \in 0 .. m - 1 : k \in S => k + 1 \in S
  <2> SUFFICES ASSUME NEW k \in 0 .. m - 1, sum[k] = x(k + 1) - x(1) PROVE k + 1 \in S
    OBVIOUS
  <2>1. k + 1 \in 0 .. m /\ k + 1 # 0 /\ (k + 1) - 1 = k /\ 0 \in 0 .. m /\ k \in 0 .. m
    OBVIOUS
  <2>2. sum[k + 1] = sum[k] + (x((k + 1) + 1) - x(k + 1))
    BY <1>6, <2>1
  <2>3. x((k + 1) + 1) \in Int /\ x(k + 1) \in Int /\ x(0 + 1) \in Int
    BY <1>2, <2>1
  <2>4. sum[k + 1] = x((k + 1) + 1) - x(1)
    BY <2>2, <2>3
  <2> QED
    BY <2>1, <2>4
<1>9. 0 .. m \subseteq S
  <2> HIDE DEF S
  <2> QED
    BY <1>7, <1>8, RangeInduction
<1>10. sum[m] = x(m + 1) - x(1)
  <2>1. m \in S
    BY <1>9
  <2> QED
    BY <2>1
<1>11. Moved(h, d) = h[Len(h)][d] - h[1][d]
  <2>1. m + 1 = Len(h)
    BY <1>1
  <2> QED
    BY <1>3, <1>10, <2>1 DEF x
<1>12. ASSUME NEW step \in Int, \A i \in Steps(h) : h[i + 1][d] = h[i][d] + step
       PROVE  Moved(h, d) = (Len(h) - 1) * step
  <2> DEFINE T == {k \in 0 .. m : x(k + 1) = x(1) + k * step}
  <2>1. 0 \in T
    <3>1. x(0 + 1) \in Int /\ 0 \in 0 .. m
      BY <1>2
    <3> QED
      BY <3>1
  <2>2. \A k \in 0 .. m - 1 : k \in T => k + 1 \in T
    <3> SUFFICES ASSUME NEW k \in 0 .. m - 1, x(k + 1) = x(1) + k * step PROVE k + 1 \in T
      OBVIOUS
    <3>1. k + 1 \in 0 .. m /\ k + 1 \in Steps(h) /\ 0 \in 0 .. m
      BY <1>1 DEF Steps
    <3>2. x((k + 1) + 1) = x(k + 1) + step
      BY <1>12, <3>1 DEF x
    <3>3. k * step \in Int /\ (k + 1) * step = k * step + step
      <4> SUFFICES ASSUME NEW a \in Int PROVE a * step \in Int /\ (a + 1) * step = a * step + step
        OBVIOUS
      <4> QED
        OBVIOUS
    <3>5. PICK p \in Int, q \in Int : p = k * step /\ q = (k + 1) * step /\ q = p + step
      BY <3>3
    <3>6. x((k + 1) + 1) = (x(1) + p) + step
      BY <3>2, <3>5
    <3>7. x(1) \in Int
      BY <1>2
    <3>8. (x(1) + p) + step = x(1) + q
      BY <3>5, <3>7
    <3>4. x((k + 1) + 1) = x(1) + (k + 1) * step
      BY <3>5, <3>6, <3>8, Zenon
    <3> QED
      BY <3>1, <3>4
  <2>3. 0 .. m \subseteq T
    <3> HIDE DEF T
    <3> QED
      BY <2>1, <2>2, RangeInduction
  <2>4. x(m + 1) = x(1) + m * step
    <3>1. m \in T
      BY <2>3
    <3> QED
      BY <3>1
  <2>5. x(0 + 1) \in Int /\ m * step \in Int
    BY <1>2
  <2>6. sum[m] = m * step
    BY <1>10, <2>4, <2>5
  <2> QED
    BY <1>1, <1>3, <2>6
<1> QED
  BY <1>11, <1>12

-------------------------------------------------------------------------------
\* The coordinates ahead, up to the first that is negative; and coordinates that
\* lie apart on one line.
LiesAhead(n, last, p, d, step) ==
  /\ Len(p) \in 0 .. PrefetchCount /\ DOMAIN p = 1 .. Len(p)
  /\ last[d] \in Nat /\ DOMAIN last = 1 .. n
  /\ \A i \in 1 .. Len(p) : p[i] = [last EXCEPT ![d] = last[d] + step * i]
  /\ Len(p) # 0 => step # 0
  /\ step # 0 => Len(p) = PrefetchCount \/ last[d] + step * (Len(p) + 1) < 0

LieApart(last, p) ==
  \A i \in DOMAIN p :
    /\ Cardinality({e \in DOMAIN last : p[i][e] # last[e]}) = 1
    /\ \A j \in DOMAIN p : p[i] = p[j] => i = j

LEMMA AheadLemma ==
  ASSUME NEW n \in Nat, NEW h, IsHistory(h, n), NEW d \in 1 .. n, NEW step \in Int,
         NEW last, last = h[Len(h)], NEW p, p = Ahead(h, d, step)
  PROVE  LiesAhead(n, last, p, d, step)
<1> DEFINE ahead == {i \in 1 .. PrefetchCount : step # 0 /\ last[d] + step * i >= 0}
           c == Cardinality(ahead)
<1>1. last \in Seq(Nat) /\ DOMAIN last = 1 .. n /\ last[d] \in Nat
  <2>1. last \in Seq(Nat) /\ Len(last) = n
    BY DEF IsHistory
  <2> QED
    BY <2>1
<1>2. PrefetchCount \in Nat
  BY WindowAssumption
<1>3. c \in 0 .. PrefetchCount /\ ahead = 1 .. c
  <2>1. \A i \in ahead : \A j \in 1 .. i : j \in ahead
    <3> SUFFICES ASSUME NEW i \in ahead, NEW j \in 1 .. i PROVE last[d] + step * j >= 0 /\ j \in 1 .. PrefetchCount
      OBVIOUS
    <3>1. step \in Int \ {0} /\ i \in Nat /\ j \in Nat /\ j <= i /\ last[d] + step * i >= 0
      OBVIOUS
    <3>2. last[d] + step * j >= 0
      BY <1>1, <3>1, Products
    <3> QED
      BY <1>2, <3>2
  <2>2. ahead \in SUBSET (1 .. PrefetchCount)
    OBVIOUS
  <2> HIDE DEF ahead
  <2> QED
    BY <1>2, <2>1, <2>2, PrefixSet
<1>4. p = [i \in 1 .. c |-> [last EXCEPT ![d] = last[d] + step * i]]
  BY Zenon DEF Ahead
<1> HIDE DEF c, ahead
<1>5. c # 0 => step # 0
  <2>1. c # 0 => 1 \in ahead
    BY <1>3
  <2> QED
    BY <2>1, Zenon DEF ahead
<1>6. step # 0 => c = PrefetchCount \/ last[d] + step * (c + 1) < 0
  <2> SUFFICES ASSUME step # 0, c # PrefetchCount PROVE last[d] + step * (c + 1) < 0
    OBVIOUS
  <2>1. c + 1 \in 1 .. PrefetchCount /\ c + 1 \notin ahead
    BY <1>2, <1>3
  <2>2. ~(last[d] + step * (c + 1) >= 0)
    BY <2>1, Zenon DEF ahead
  <2>3. last[d] + step * (c + 1) \in Int
    BY <1>1, <2>1
  <2> QED
    BY <2>2, <2>3
<1>7. DOMAIN p = 1 .. c /\ Len(p) = c /\ \A i \in 1 .. c : p[i] = [last EXCEPT ![d] = last[d] + step * i]
  BY <1>3, <1>4
<1> QED
  BY <1>1, <1>3, <1>5, <1>6, <1>7, Zenon DEF LiesAhead

\* What PredictsTheSweep says of a history and what is predicted of it.
Predicts(h, p) ==
  LET last == h[Len(h)]
  IN /\ Len(h) >= 3 /\ (\A i \in DOMAIN h : Len(h[i]) = Len(h[1])) =>
          \A d \in DOMAIN last :
            LET step == h[2][d] - h[1][d] IN
            step # 0 /\ IsSweep(h, d, step) =>
              /\ \A i \in DOMAIN p : p[i] = [last EXCEPT ![d] = @ + i * step]
              /\ Len(p) = PrefetchCount \/ last[d] + (Len(p) + 1) * step < 0
     /\ \A i \in DOMAIN p :
          /\ Cardinality({d \in DOMAIN last : p[i][d] # last[d]}) = 1
          /\ \A j \in DOMAIN p : p[i] = p[j] => i = j

LEMMA PredictionsApart ==
  ASSUME NEW n \in Nat, NEW h, IsHistory(h, n), NEW d \in 1 .. n, NEW step \in Int,
         NEW last, last = h[Len(h)], NEW p, p = Ahead(h, d, step)
  PROVE  LieApart(last, p)
<1>2. /\ Len(p) \in Nat /\ DOMAIN p = 1 .. Len(p) /\ last[d] \in Nat /\ DOMAIN last = 1 .. n
      /\ \A i \in 1 .. Len(p) : p[i] = [last EXCEPT ![d] = last[d] + step * i]
      /\ Len(p) # 0 => step # 0
  <2>1. LiesAhead(n, last, p, d, step)
    BY AheadLemma
  <2>2. PrefetchCount \in Nat
    BY WindowAssumption
  <2>3. Len(p) \in 0 .. PrefetchCount
    BY <2>1, Zenon DEF LiesAhead
  <2>4. Len(p) \in Nat
    BY <2>2, <2>3
  <2> QED
    BY <2>1, <2>4, Zenon DEF LiesAhead
<1>3. ASSUME NEW i \in DOMAIN p PROVE Cardinality({e \in DOMAIN last : p[i][e] # last[e]}) = 1
  <2>1. i \in Nat /\ i # 0 /\ i \in 1 .. Len(p) /\ Len(p) # 0
    BY <1>2
  <2>2. step * i \in Int /\ step * i # 0
    BY <1>2, <2>1, Products
  <2>3. p[i] = [last EXCEPT ![d] = last[d] + step * i]
    BY <1>2, <2>1
  <2>4. {e \in DOMAIN last : p[i][e] # last[e]} = {d}
    <3>1. PICK s \in Int : s = step * i /\ s # 0
      BY <2>2
    <3>2. d \in DOMAIN last /\ p[i] = [last EXCEPT ![d] = last[d] + s]
      BY <1>2, <2>3, <3>1, Zenon
    <3>3. last[d] + s # last[d]
      BY <1>2, <3>1
    <3>4. p[i][d] # last[d] /\ \A e \in DOMAIN last : e # d => p[i][e] = last[e]
      BY <3>2, <3>3, Zenon
    <3> QED
      BY <3>2, <3>4
  <2> QED
    BY <2>4, FS_Singleton
<1>4. ASSUME NEW i \in DOMAIN p, NEW j \in DOMAIN p, p[i] = p[j] PROVE i = j
  <2>1. i \in Nat /\ j \in Nat /\ i \in 1 .. Len(p) /\ j \in 1 .. Len(p) /\ Len(p) # 0
    BY <1>2
  <2>2. p[i][d] = last[d] + step * i /\ p[j][d] = last[d] + step * j
    BY <1>2, <2>1
  <2>3. step * i \in Int /\ step * j \in Int
    BY <1>2, <2>1, Products
  <2>4. step * i = step * j
    <3>1. PICK s \in Int, t \in Int, x \in Nat : s = step * i /\ t = step * j /\ x = last[d]
      BY <1>2, <2>3
    <3>2. x + s = x + t
      BY <1>4, <2>2, <3>1, Zenon
    <3> QED
      BY <3>1, <3>2
  <2> QED
    BY <1>2, <2>1, <2>4, Products
<1> QED
  BY <1>3, <1>4, Zenon DEF LieApart

\* A window that is one sweep is recognised, with the step of the sweep.
LEMMA SweepRecognised ==
  ASSUME NEW n \in Nat, NEW h, IsHistory(h, n), Len(h) >= 3, \A i \in DOMAIN h : Len(h[i]) = Len(h[1]),
         NEW d \in 1 .. n, NEW step \in Int, step # 0, IsSweep(h, d, step)
  PROVE  ContextOf(h, n).predicted = Ahead(h, d, step)
<1>1. Len(h) \in Nat /\ DOMAIN h = 1 .. Len(h) /\ Len(h) > 0
  BY DEF IsHistory
<1>2. \A i \in 1 .. Len(h) : h[i] \in Seq(Nat) /\ Len(h[i]) = n
  <2> SUFFICES ASSUME NEW i \in 1 .. Len(h) PROVE h[i] \in Seq(Nat) /\ Len(h[i]) = n
    OBVIOUS
  <2>1. Len(h) \in DOMAIN h /\ 1 \in DOMAIN h /\ Len(h[Len(h)]) = n
    BY <1>1 DEF IsHistory
  <2>2. Len(h[1]) = n
    BY <2>1
  <2>3. h \in Seq(Seq(Nat))
    BY DEF IsHistory
  <2>4. h[i] \in Seq(Nat)
    BY <2>3
  <2>5. Len(h[i]) = n
    BY <1>1, <2>2
  <2> QED
    BY <2>4, <2>5
<1>3. \A i \in 1 .. Len(h) : DOMAIN h[i] = 1 .. n /\ \A e \in 1 .. n : h[i][e] \in Nat
  <2> SUFFICES ASSUME NEW i \in 1 .. Len(h), NEW g, g = h[i]
               PROVE  DOMAIN g = 1 .. n /\ \A e \in 1 .. n : g[e] \in Nat
    BY Zenon
  <2>1. g \in Seq(Nat) /\ Len(g) = n
    BY <1>2
  <2> QED
    BY <2>1
<1>4. ASSUME NEW i \in Steps(h)
      PROVE  /\ i \in 1 .. Len(h) /\ i + 1 \in 1 .. Len(h)
             /\ h[i + 1][d] = h[i][d] + step
             /\ \A e \in (1 .. n) \ {d} : h[i + 1][e] = h[i][e]
  <2>1. i \in 1 .. Len(h) /\ i + 1 \in 1 .. Len(h) /\ h[i + 1] = [h[i] EXCEPT ![d] = @ + step]
    BY <1>1 DEF Steps, IsSweep
  <2>2. DOMAIN h[i] = 1 .. n
    BY <1>3, <2>1
  <2> QED
    BY <2>1, <2>2
<1>5. Changes(h, d) = Len(h) - 1
  <2>1. \A i \in Steps(h) : h[i][d] # h[i + 1][d]
    <3> SUFFICES ASSUME NEW i \in Steps(h) PROVE h[i][d] # h[i + 1][d]
      OBVIOUS
    <3>1. h[i][d] \in Nat /\ h[i + 1][d] = h[i][d] + step
      BY <1>3, <1>4
    <3> QED
      BY <3>1
  <2> QED
    BY <1>1, <2>1, ChangesType
<1>6. \A e \in (1 .. n) \ {d} : Changes(h, e) = 0
  <2> SUFFICES ASSUME NEW e \in (1 .. n) \ {d} PROVE Changes(h, e) = 0
    OBVIOUS
  <2>1. \A i \in Steps(h) : h[i][e] = h[i + 1][e]
    BY <1>4
  <2> QED
    BY <1>1, <2>1, ChangesType
<1>7. FastestDim(h, n) = d
  <2>1. \A e \in (1 .. n) \ {d} : Changes(h, e) < Changes(h, d)
    BY <1>1, <1>5, <1>6
  <2>2. n > 0
    OBVIOUS
  <2> QED
    BY <1>1, <2>1, <2>2, FastestLemma
<1>8. Dominates(h, n, d)
  <2>1. PICK m \in Nat : m = Len(h)
    BY <1>1
  <2>2. m - 1 >= m \div 2
    BY <2>1
  <2>3. \A e \in (1 .. n) \ {d} : Changes(h, d) >= 2 * Changes(h, e)
    BY <1>1, <1>5, <1>6
  <2> QED
    BY <1>5, <2>1, <2>2, <2>3 DEF Dominates
<1>9. ~Unknown(h, n)
  BY <1>1, <1>2 DEF Unknown
<1>10. AverageStep(h, d) = step
  <2>1. Moved(h, d) = (Len(h) - 1) * step
    <3>1. \A i \in 1 .. Len(h) : h[i][d] \in Int
      BY <1>3
    <3>2. \A i \in Steps(h) : h[i + 1][d] = h[i][d] + step
      BY <1>4
    <3> QED
      BY <1>1, <3>1, <3>2, MovedLemma
  <2>2. Len(h) - 1 \in Nat \ {0}
    BY <1>1
  <2>3. Quotient((Len(h) - 1) * step, Len(h) - 1) = step
    BY <2>2, QuotientLemma
  <2> QED
    BY <1>5, <2>1, <2>2, <2>3 DEF AverageStep
<1> QED
  BY <1>7, <1>8, <1>9, <1>10 DEF ContextOf

LEMMA ContextPredicts ==
  ASSUME NEW n \in Nat, NEW h, IsHistory(h, n)
  PROVE  Predicts(h, ContextOf(h, n).predicted)
<1>1. PICK p, last : p = ContextOf(h, n).predicted /\ last = h[Len(h)]
  OBVIOUS
<1>2. Len(h) \in Nat /\ Len(h) > 0 /\ DOMAIN h = 1 .. Len(h) /\ last \in Seq(Nat) /\ DOMAIN last = 1 .. n
  <2>1. Len(h) \in Nat /\ Len(h) > 0 /\ DOMAIN h = 1 .. Len(h) /\ last \in Seq(Nat) /\ Len(last) = n
    BY <1>1 DEF IsHistory
  <2> QED
    BY <2>1
<1>3. ASSUME Len(h) >= 3, \A i \in DOMAIN h : Len(h[i]) = Len(h[1]), NEW d \in DOMAIN last,
             h[2][d] - h[1][d] # 0, IsSweep(h, d, h[2][d] - h[1][d])
      PROVE  /\ \A i \in DOMAIN p : p[i] = [last EXCEPT ![d] = @ + i * (h[2][d] - h[1][d])]
             /\ Len(p) = PrefetchCount \/ last[d] + (Len(p) + 1) * (h[2][d] - h[1][d]) < 0
  <2>1. d \in 1 .. n
    BY <1>2
  <2>2. h[2][d] \in Nat /\ h[1][d] \in Nat
    <3>1. 1 \in DOMAIN h /\ 2 \in DOMAIN h /\ Len(h) \in DOMAIN h
      BY <1>2, <1>3
    <3>2. Len(h[1]) = n /\ Len(h[2]) = n
      BY <1>3, <3>1 DEF IsHistory
    <3>3. h[1] \in Seq(Nat) /\ h[2] \in Seq(Nat)
      BY <3>1 DEF IsHistory
    <3>4. \A g \in Seq(Nat) : Len(g) = n => g[d] \in Nat
      BY <2>1
    <3> QED
      BY <3>2, <3>3, <3>4, Zenon
  <2>3. PICK step \in Int : step = h[2][d] - h[1][d]
    BY <2>2
  <2>4. p = Ahead(h, d, step)
    BY <1>1, <1>3, <2>1, <2>3, SweepRecognised
  <2>5. /\ Len(p) \in Nat /\ DOMAIN p = 1 .. Len(p) /\ last[d] \in Nat
        /\ \A i \in 1 .. Len(p) : p[i] = [last EXCEPT ![d] = last[d] + step * i]
        /\ Len(p) = PrefetchCount \/ last[d] + step * (Len(p) + 1) < 0
    <3>1. step # 0
      BY <1>3, <2>3, Zenon
    <3>2. /\ Len(p) \in 0 .. PrefetchCount /\ DOMAIN p = 1 .. Len(p) /\ last[d] \in Nat
          /\ \A i \in 1 .. Len(p) : p[i] = [last EXCEPT ![d] = last[d] + step * i]
          /\ step # 0 => Len(p) = PrefetchCount \/ last[d] + step * (Len(p) + 1) < 0
      <4>1. last = h[Len(h)]
        BY <1>1
      <4>2. LiesAhead(n, last, p, d, step)
        BY <4>1, <2>1, <2>4, AheadLemma
      <4> QED
        BY <4>2, Zenon DEF LiesAhead
    <3>3. Len(p) \in Nat
      BY <3>2, WindowAssumption
    <3> QED
      BY <3>1, <3>2, <3>3, Zenon
  <2>6. \A i \in Nat : step * i = i * step
    OBVIOUS
  <2>7. \A i \in DOMAIN p : p[i] = [last EXCEPT ![d] = @ + i * step]
    <3> SUFFICES ASSUME NEW i \in DOMAIN p PROVE p[i] = [last EXCEPT ![d] = last[d] + i * step]
      BY Zenon
    <3>1. i \in Nat /\ p[i] = [last EXCEPT ![d] = last[d] + step * i]
      BY <2>5
    <3>2. step * i = i * step
      BY <2>6, <3>1
    <3> QED
      BY <3>1, <3>2, Zenon
  <2>8. step * (Len(p) + 1) = (Len(p) + 1) * step
    BY <2>5, <2>6
  <2> QED
    BY <2>3, <2>5, <2>7, <2>8, Zenon
<1>4. \A i \in DOMAIN p : /\ Cardinality({d \in DOMAIN last : p[i][d] # last[d]}) = 1
                          /\ \A j \in DOMAIN p : p[i] = p[j] => i = j
  <2>1. CASE Unknown(h, n) \/ ~Dominates(h, n, FastestDim(h, n))
    <3>1. p = <<>>
      BY <1>1, <2>1 DEF ContextOf
    <3> QED
      BY <3>1
  <2>2. CASE ~Unknown(h, n) /\ Dominates(h, n, FastestDim(h, n))
    <3>1. n > 0
      BY <2>2 DEF Unknown
    <3>2. PICK d \in 1 .. n : d = FastestDim(h, n)
      BY <1>2, <3>1, FastestLemma
    <3>3. p = Ahead(h, d, AverageStep(h, d))
      BY <1>1, <2>2, <3>2 DEF ContextOf
    <3>4. AverageStep(h, d) \in Int
      <4>1. \A i \in 1 .. Len(h) : h[i][d] \in Int
        <5> SUFFICES ASSUME NEW i \in 1 .. Len(h) PROVE h[i][d] \in Int
          OBVIOUS
        <5>1. h[i] \in Seq(Nat)
          BY <1>2 DEF IsHistory
        <5>2. ~(Len(h[i]) < n)
          BY <1>2, <2>2, Zenon DEF Unknown
        <5> QED
          BY <5>1, <5>2
      <4>2. Moved(h, d) \in Int
        <5>1. Moved(h, d) = h[Len(h)][d] - h[1][d]
          BY <1>2, <4>1, MovedLemma
        <5>2. h[Len(h)][d] \in Int /\ h[1][d] \in Int
          BY <1>2, <4>1
        <5> QED
          BY <5>1, <5>2
      <4>3. Changes(h, d) \in Nat
        BY <1>2, ChangesType
      <4>4. CASE Changes(h, d) = 0
        BY <4>4 DEF AverageStep
      <4>5. CASE Changes(h, d) # 0
        <5>1. PICK b \in Nat \ {0} : b = Changes(h, d)
          BY <4>3, <4>5
        <5>2. Quotient(Moved(h, d), b) \in Int
          BY <4>2, QuotientLemma
        <5> QED
          BY <4>5, <5>1, <5>2, Zenon DEF AverageStep
      <4> QED
        BY <4>4, <4>5
    <3>5. PICK step \in Int : step = AverageStep(h, d)
      BY <3>4
    <3>6. p = Ahead(h, d, step)
      BY <3>3, <3>5, Zenon
    <3> QED
      <4>1. last = h[Len(h)]
        BY <1>1
      <4>2. LieApart(last, p)
        BY <4>1, <3>6, PredictionsApart
      <4> QED
        BY <4>2, Zenon DEF LieApart
  <2> QED
    BY <2>1, <2>2
<1>5. Predicts(h, p)
  <2> DEFINE first == h[Len(h)]
  <2>1. last = first
    BY <1>1
  <2>2. ASSUME Len(h) >= 3, \A i \in DOMAIN h : Len(h[i]) = Len(h[1]), NEW d \in DOMAIN first,
               h[2][d] - h[1][d] # 0, IsSweep(h, d, h[2][d] - h[1][d])
        PROVE  /\ \A i \in DOMAIN p : p[i] = [first EXCEPT ![d] = @ + i * (h[2][d] - h[1][d])]
               /\ Len(p) = PrefetchCount \/ first[d] + (Len(p) + 1) * (h[2][d] - h[1][d]) < 0
    BY <1>3, <2>1, <2>2, Zenon
  <2>3. \A i \in DOMAIN p : /\ Cardinality({d \in DOMAIN first : p[i][d] # first[d]}) = 1
                            /\ \A j \in DOMAIN p : p[i] = p[j] => i = j
    BY <1>4, <2>1, Zenon
  <2> QED
    BY <2>2, <2>3, Zenon DEF Predicts
<1> QED
  BY <1>1, <1>5, Zenon

-------------------------------------------------------------------------------
\* The context and the detector are what their histories make them, the
\* detector's of coordinates of the dataset it was made for.
ContextIsTrue ==
  \/ sweep = NewContext
  \/ \E n \in Nat : IsHistory(sweep.history, n) /\ sweep = ContextOf(sweep.history, n)

OfRank(detected, n) ==
  /\ IsHistory(detected.history, n) /\ detected = DetectorOf(detected.history, n)
  /\ \A i \in DOMAIN detected.history : Len(detected.history[i]) = n

DetectorIsTrue == detector = NewDetector \/ OfRank(detector, Rank(DatasetOf[name]))

WatchInv == SweepInv /\ ContextIsTrue /\ DetectorIsTrue

LEMMA WatchStart == SweepInit => WatchInv
  BY SweepStart DEF SweepInit, WatchInv, ContextIsTrue, DetectorIsTrue

\* A chunk that is visited has a coordinate of the dataset's rank.
LEMMA VisitedChunk ==
  ASSUME SweepInv, NEW info \in left, phase = "next"
  PROVE  /\ Rank(DatasetOf[name]) \in Nat
         /\ CoordOf(info, Rank(DatasetOf[name])) \in Seq(Nat)
         /\ Len(CoordOf(info, Rank(DatasetOf[name]))) = Rank(DatasetOf[name])
<1>1. name \in Names /\ FilledBut(name, left, output)
  BY DEF SweepInv, SweepTypes, BufferIsRight
<1>2. Listable(name) /\ info \in AllChunks(name)
  BY <1>1 DEF FilledBut
<1>3. PICK k \in DOMAIN Chunks(name) : info = Chunks(name)[k]
  BY <1>2 DEF AllChunks
<1>4. PICK n \in Nat : n = Rank(DatasetOf[name])
  BY <1>1, <1>2, ChunkTypes
<1>5. info.offsets \in Seq(Nat) /\ Len(info.offsets) >= n
  BY <1>1, <1>2, <1>3, <1>4, ChunkTypes, Zenon
<1>6. SubSeq(info.offsets, 1, n) \in Seq(Nat) /\ Len(SubSeq(info.offsets, 1, n)) = n
  BY <1>4, <1>5
<1> QED
  BY <1>4, <1>6, Zenon DEF CoordOf

LEMMA ContextRecords ==
  ASSUME ContextIsTrue, NEW c \in Seq(Nat), NEW n \in Nat, Len(c) = n, sweep' = Record(sweep, c, n)
  PROVE  ContextIsTrue'
<1>1. sweep.history \in Seq(Seq(Nat))
  <2>1. CASE sweep = NewContext
    BY <2>1 DEF NewContext
  <2>2. CASE \E m \in Nat : IsHistory(sweep.history, m) /\ sweep = ContextOf(sweep.history, m)
    BY <2>2, Zenon DEF IsHistory
  <2> QED
    BY <2>1, <2>2, Zenon DEF ContextIsTrue
<1>2. IsHistory(Window(sweep.history, c), n)
  BY <1>1, WindowLemma
<1>3. sweep' = ContextOf(Window(sweep.history, c), n) /\ sweep'.history = Window(sweep.history, c)
  <2>1. PICK s, t : s = sweep /\ t = sweep'
    OBVIOUS
  <2>2. t = Record(s, c, n)
    BY <2>1
  <2>3. t = ContextOf(Window(s.history, c), n) /\ t.history = Window(s.history, c)
    BY <2>2, RecordMakes
  <2> QED
    BY <2>1, <2>3
<1>4. IsHistory(sweep'.history, n) /\ sweep' = ContextOf(sweep'.history, n)
  BY <1>2, <1>3, Zenon
<1> QED
  BY <1>4, Zenon DEF ContextIsTrue

LEMMA DetectorRecords ==
  ASSUME NEW n \in Nat, detector = NewDetector \/ OfRank(detector, n), NEW c \in Seq(Nat), Len(c) = n
  PROVE  OfRank(RecordAccess(detector, c, n), n)
<1> DEFINE h == detector.history
           w == Window(h, c)
           r == RecordAccess(detector, c, n)
<1>1. h \in Seq(Seq(Nat)) /\ \A i \in DOMAIN h : Len(h[i]) = n
  <2>1. CASE detector = NewDetector
    BY <2>1 DEF NewDetector
  <2>2. CASE OfRank(detector, n)
    BY <2>2 DEF OfRank, IsHistory
  <2> QED
    BY <2>1, <2>2
<1>2. IsHistory(w, n) /\ \A i \in DOMAIN w : w[i] = c \/ \E j \in DOMAIN h : w[i] = h[j]
  BY <1>1, WindowLemma
<1>3. ASSUME NEW i \in DOMAIN w PROVE Len(w[i]) = n
  <2>1. w[i] = c \/ \E j \in DOMAIN h : w[i] = h[j]
    BY <1>2
  <2>2. CASE w[i] = c
    BY <2>2
  <2>3. CASE \E j \in DOMAIN h : w[i] = h[j]
    <3>1. PICK j \in DOMAIN h : w[i] = h[j]
      BY <2>3
    <3>2. Len(h[j]) = n
      BY <1>1
    <3> QED
      BY <3>1, <3>2
  <2> QED
    BY <2>1, <2>2, <2>3
<1>4. r = DetectorOf(w, n) /\ r.history = w
  BY RecordMakes, Zenon
<1> QED
  BY <1>2, <1>3, <1>4, Zenon DEF OfRank

LEMMA VisitWatched ==
  ASSUME WatchInv, NEW info \in left, Visit(info)
  PROVE  ContextIsTrue' /\ DetectorIsTrue'
<1>1. PICK n \in Nat : n = Rank(DatasetOf[name])
  BY VisitedChunk DEF WatchInv, Visit
<1>2. PICK c \in Seq(Nat) : c = CoordOf(info, n) /\ Len(c) = n
  BY <1>1, VisitedChunk DEF WatchInv, Visit
<1>3. sweep' = Record(sweep, c, n) /\ detector' = RecordAccess(detector, c, n) /\ name' = name
  BY <1>1, <1>2, Zenon DEF Visit, ds
<1>4. ContextIsTrue'
  BY <1>2, <1>3, ContextRecords DEF WatchInv
<1>5. detector = NewDetector \/ OfRank(detector, n)
  BY <1>1, Zenon DEF WatchInv, DetectorIsTrue
<1>6. OfRank(detector', n)
  BY <1>2, <1>3, <1>5, DetectorRecords
<1>7. DetectorIsTrue'
  BY <1>1, <1>3, <1>6, Zenon DEF DetectorIsTrue
<1> QED
  BY <1>4, <1>7

LEMMA WatchStep == WatchInv /\ [SweepNext]_allVars => WatchInv'
<1> SUFFICES ASSUME WatchInv, [SweepNext]_allVars PROVE ContextIsTrue' /\ DetectorIsTrue'
  BY SweepStep DEF WatchInv
<1>1. ASSUME sweep' = sweep \/ sweep' = NewContext PROVE ContextIsTrue'
  BY <1>1, Zenon DEF WatchInv, ContextIsTrue
<1>2. ASSUME UNCHANGED <<name, detector>> \/ detector' = NewDetector PROVE DetectorIsTrue'
  BY <1>2, Zenon DEF WatchInv, DetectorIsTrue
<1>3. CASE UNCHANGED allVars
  <2>1. sweep' = sweep /\ name' = name /\ detector' = detector
    BY <1>3 DEF allVars, sweepVars
  <2> QED
    BY <2>1, <1>1, <1>2
<1>4. CASE \E n \in Names : BeginSweep(n) \/ ReadUncached(n)
  <2>1. PICK n \in Names : BeginSweep(n) \/ ReadUncached(n)
    BY <1>4
  <2>2. sweep' = sweep \/ sweep' = NewContext
    BY <2>1 DEF BeginSweep, ReadUncached
  <2>3. name' = n /\ (n = name => UNCHANGED detector) /\ (n # name => detector' = NewDetector)
    BY <2>1 DEF BeginSweep, ReadUncached
  <2>4. UNCHANGED <<name, detector>> \/ detector' = NewDetector
    BY <2>3
  <2> QED
    BY <2>2, <2>4, <1>1, <1>2
<1>5. CASE \E info \in left : Visit(info)
  BY <1>5, VisitWatched
<1>6. CASE OpenFails \/ DecompressFails \/ Complete
  <2>1. UNCHANGED <<name, sweep, detector>>
    BY <1>6, Zenon DEF OpenFails, DecompressFails, Complete, ReturnWith
  <2> QED
    BY <2>1, <1>1, <1>2
<1>7. CASE Open \/ TakeChunks \/ Hint \/ SetDirection \/ CopyCached \/ MissCached \/ PutChunk
  <2>1. sweep' = sweep /\ name' = name /\ detector' = detector
    BY <1>7 DEF Open, TakeChunks, Hint, SetDirection, CopyCached, MissCached, PutChunk, sweepVars
  <2> QED
    BY <2>1, <1>1, <1>2
<1> QED
  BY <1>3, <1>4, <1>5, <1>6, <1>7, Zenon DEF SweepNext

LEMMA SweepWatched == SweepSpec => []WatchInv
  BY WatchStart, WatchStep, PTL DEF SweepSpec

\* SweepContext and SweepDetector, fed with the same accesses, predict the same
\* chunks and call the sweep by the same name, however the reads before them
\* went, for every window size and every rank.
THEOREM SweepDetectorsAgree == SweepSpec => []DetectorsAgree
<1>1. WatchInv => DetectorsAgree
  <2> SUFFICES ASSUME WatchInv, detector.history = sweep.history
               PROVE  /\ detector.predicted = sweep.predicted
                      /\ sweep.direction = Words[detector.direction[1]]
    BY Zenon DEF DetectorsAgree, Words
  <2>1. CASE sweep = NewContext
    <3>1. Len(detector.history) = 0
      BY <2>1 DEF NewContext
    <3>2. ~OfRank(detector, Rank(DatasetOf[name]))
      BY <3>1 DEF OfRank, IsHistory
    <3>3. detector = NewDetector
      BY <3>2 DEF WatchInv, DetectorIsTrue
    <3> QED
      BY <2>1, <3>3 DEF NewContext, NewDetector, Words
  <2>2. CASE \E n \in Nat : IsHistory(sweep.history, n) /\ sweep = ContextOf(sweep.history, n)
    <3>1. PICK n \in Nat : IsHistory(sweep.history, n) /\ sweep = ContextOf(sweep.history, n)
      BY <2>2
    <3>2. PICK h : h = sweep.history /\ h = detector.history
      OBVIOUS
    <3>3. IsHistory(h, n) /\ sweep = ContextOf(h, n) /\ Len(h) # 0
      BY <3>1, <3>2 DEF IsHistory
    <3>4. detector # NewDetector
      BY <3>2, <3>3 DEF NewDetector
    <3>5. OfRank(detector, Rank(DatasetOf[name]))
      BY <3>4 DEF WatchInv, DetectorIsTrue
    <3>6. Rank(DatasetOf[name]) = n
      BY <3>2, <3>3, <3>5 DEF OfRank, IsHistory
    <3>7. detector = DetectorOf(h, n) /\ \A i \in DOMAIN h : Len(h[i]) = n
      BY <3>2, <3>5, <3>6, Zenon DEF OfRank
    <3> QED
      BY <3>3, <3>7, SameVerdict
  <2> QED
    BY <2>1, <2>2 DEF WatchInv, ContextIsTrue
<1> QED
  BY <1>1, SweepWatched, PTL

\* After a window of equal steps along one dimension the context predicts the
\* chunks that continue the sweep, and what it predicts are always distinct
\* places on one line through the last access, for every history, window and
\* rank.
THEOREM SweepsPredicted == SweepSpec => []PredictsTheSweep
<1>1. WatchInv => PredictsTheSweep
  <2> SUFFICES ASSUME WatchInv PROVE Predicts(sweep.history, sweep.predicted)
    BY Zenon DEF PredictsTheSweep, Predicts
  <2>1. CASE sweep = NewContext
    <3>1. Len(sweep.history) = 0 /\ DOMAIN sweep.predicted = {}
      BY <2>1 DEF NewContext
    <3> QED
      BY <3>1 DEF Predicts
  <2>2. CASE \E n \in Nat : IsHistory(sweep.history, n) /\ sweep = ContextOf(sweep.history, n)
    <3>1. PICK n \in Nat : IsHistory(sweep.history, n) /\ sweep = ContextOf(sweep.history, n)
      BY <2>2
    <3>2. PICK h : h = sweep.history
      OBVIOUS
    <3>3. Predicts(h, ContextOf(h, n).predicted)
      BY <3>1, <3>2, ContextPredicts
    <3> QED
      BY <3>1, <3>2, <3>3, Zenon
  <2> QED
    BY <2>1, <2>2 DEF WatchInv, ContextIsTrue
<1> QED
  BY <1>1, SweepWatched, PTL
===============================================================================
