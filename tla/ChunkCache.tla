------------------------------ MODULE ChunkCache ------------------------------
(***************************************************************************)
(* The chunk cache of rustyhdf5-format (chunk_cache.rs): a chunk index     *)
(* built once, and an LRU cache of decompressed chunks under a byte budget *)
(* and a slot count.  Every operation of the code runs under one Mutex, so *)
(* every operation is one action here; prefetch_hint, which locks twice,   *)
(* either acts at its second lock or does nothing.                         *)
(***************************************************************************)
EXTENDS Integers, Sequences, FiniteSets

CONSTANTS
  Coord,         \* chunk coordinates: sequences of naturals
  ChunkInfo,     \* index entries, records with a field offsets
  Listing,       \* what a scan of a chunk index may return: [chunks, rank]
  Data,          \* decompressed chunks
  Size,          \* Size[d]: the length of d in bytes
  ByteBudgets,   \* values a cache may be created with: max_bytes
  SlotCounts,    \* ... and max_slots
  Directions,    \* sweep direction labels
  CounterLimit,  \* bound on the u64 counters (tick, statistics)
  None           \* Option::None

VARIABLES
  index,         \* Option<HashMap<ChunkCoord, ChunkInfo>>
  slots,         \* the cached chunks; their order in the Vec is immaterial
  currentBytes,
  maxBytes,
  maxSlots,
  tick,
  lastCoord,
  stats,
  poisoned       \* the Mutex: a thread panicked while it held it

cacheVars == <<index, slots, currentBytes, maxBytes, maxSlots, tick,
               lastCoord, stats, poisoned>>

Slot == [coord : Coord, data : Data, last : Nat]

AccessStats == [sequential : Nat, random : Nat, direction : Directions \cup {None}]

\* populate_index keys a chunk by its first rank offsets.
CoordOf(info, rank) == SubSeq(info.offsets, 1, rank)

ListedCoords(l) == {CoordOf(l.chunks[i], l.rank) : i \in DOMAIN l.chunks}

Indexes(C) == UNION {[S -> ChunkInfo] : S \in SUBSET C}

ASSUME CoordAssumption == IsFiniteSet(Coord)
ASSUME SizeAssumption == Size \in [Data -> Nat]
ASSUME LimitAssumption == /\ ByteBudgets \subseteq Nat
                          /\ SlotCounts \subseteq Nat
                          /\ CounterLimit \in Nat
ASSUME ListingAssumption ==
  \A l \in Listing : /\ l.chunks \in Seq(ChunkInfo)
                     /\ ListedCoords(l) \subseteq Coord
ASSUME NoneAssumption ==
  None \notin Coord /\ \A S \in SUBSET Coord : None \notin [S -> ChunkInfo]

\* The bytes held by a set of slots, one element per byte: their number is the
\* sum of the slots' sizes when no two slots share a coordinate.
BytesOf(S) == UNION {{s.coord} \X (1 .. Size[s.data]) : s \in S}
ByteCount(S) == Cardinality(BytesOf(S))

\* Fault: the search for an existing slot is left out.
NeverCached(c) == FALSE

Cached(c) == \E s \in slots : s.coord = c
DataAt(c) == (CHOOSE s \in slots : s.coord = c).data
-------------------------------------------------------------------------------
CacheInit ==
  /\ index = None
  /\ slots = {}
  /\ currentBytes = 0
  /\ maxBytes \in ByteBudgets
  /\ maxSlots \in SlotCounts
  /\ tick = 0
  /\ lastCoord = None
  /\ stats = [sequential |-> 0, random |-> 0, direction |-> None]
  /\ poisoned = FALSE

\* lock().unwrap(): a poisoned Mutex makes every operation panic.
Locks == ~poisoned

NextTick ==
  /\ tick < CounterLimit
  /\ tick' = tick + 1

Touched(c) ==
  {IF s.coord = c THEN [s EXCEPT !.last = tick + 1] ELSE s : s \in slots}

\* A chunk listed twice keeps its last entry, as HashMap::insert does.
LastEntry(l, c) ==
  l.chunks[CHOOSE i \in DOMAIN l.chunks :
             /\ CoordOf(l.chunks[i], l.rank) = c
             /\ \A j \in DOMAIN l.chunks :
                  CoordOf(l.chunks[j], l.rank) = c => j <= i]

IndexOf(l) == [c \in ListedCoords(l) |-> LastEntry(l, c)]

PopulateIndex(l) ==
  /\ Locks
  /\ index' = IF index = None THEN IndexOf(l) ELSE index
  /\ UNCHANGED <<slots, currentBytes, maxBytes, maxSlots, tick, lastCoord,
                 stats, poisoned>>

\* Two coordinates follow each other when at most one dimension differs.
Follows(c) ==
  Cardinality({d \in DOMAIN lastCoord \cap DOMAIN c : lastCoord[d] # c[d]}) <= 1

CountAccess(c) ==
  IF lastCoord = None THEN stats
  ELSE IF Follows(c) THEN [stats EXCEPT !.sequential = @ + 1]
  ELSE [stats EXCEPT !.random = @ + 1]

GetDecompressed(c) ==
  /\ Locks
  /\ NextTick
  /\ stats' = CountAccess(c)
  /\ lastCoord' = c
  /\ slots' = Touched(c)
  /\ UNCHANGED <<index, currentBytes, maxBytes, maxSlots, poisoned>>

GetDecompressedAligned(c) ==
  /\ Locks
  /\ NextTick
  /\ slots' = Touched(c)
  /\ UNCHANGED <<index, currentBytes, maxBytes, maxSlots, lastCoord, stats,
                 poisoned>>

\* Fault: room for one slot too many.
StillFullLate(V, len) ==
  \/ Cardinality(slots \ V) > maxSlots
  \/ /\ currentBytes - ByteCount(V) + len > maxBytes
     /\ slots \ V # {}

\* Fault: the budget is compared with the bytes cached before the loop.
StillFullStale(V, len) ==
  \/ Cardinality(slots \ V) >= maxSlots
  \/ currentBytes + len > maxBytes

\* The condition of the eviction loop once the slots in V are gone.
StillFull(V, len) ==
  \/ Cardinality(slots \ V) >= maxSlots
  \/ /\ currentBytes - ByteCount(V) + len > maxBytes
     /\ slots \ V # {}

\* Fault: the most recently used slots go first.
NewestFirst(V) == \A v \in V, s \in slots \ V : v.last > s.last

OldestFirst(V) == \A v \in V, s \in slots \ V : v.last < s.last

\* The slots the loop evicts: the shortest run of least recently used slots
\* after which its condition is false.
Evicts(V, len) ==
  /\ V \subseteq slots
  /\ OldestFirst(V)
  /\ ~StillFull(V, len)
  /\ \A W \in SUBSET V : W # V /\ OldestFirst(W) => StillFull(W, len)

BytesAfter(V, len) == currentBytes - ByteCount(V) + len

PutTooLarge(c, d) ==
  /\ Locks
  /\ Size[d] > maxBytes
  /\ UNCHANGED cacheVars

PutPresent(c, d) ==
  /\ Locks
  /\ Size[d] <= maxBytes
  /\ Cached(c)
  /\ NextTick
  /\ slots' = Touched(c)
  /\ UNCHANGED <<index, currentBytes, maxBytes, maxSlots, lastCoord, stats,
                 poisoned>>

PutAbsent(c, d) ==
  /\ Locks
  /\ Size[d] <= maxBytes
  /\ ~Cached(c)
  /\ NextTick
  /\ \E V \in SUBSET slots :
       /\ Evicts(V, Size[d])
       /\ slots' = (slots \ V) \cup {[coord |-> c, data |-> d, last |-> tick + 1]}
       /\ currentBytes' = BytesAfter(V, Size[d])
  /\ UNCHANGED <<index, maxBytes, maxSlots, lastCoord, stats, poisoned>>

\* Without a single slot the loop looks for a victim in an empty Vec, and
\* unwrap() panics with the Mutex held.
PutPanics(c, d) ==
  /\ Locks
  /\ Size[d] <= maxBytes
  /\ ~Cached(c)
  /\ NextTick
  /\ StillFull(slots, Size[d])
  /\ slots' = {}
  /\ currentBytes' = currentBytes - ByteCount(slots)
  /\ poisoned' = TRUE
  /\ UNCHANGED <<index, maxBytes, maxSlots, lastCoord, stats>>

PutDecompressed(c, d) ==
  \/ PutTooLarge(c, d)
  \/ PutPresent(c, d)
  \/ PutAbsent(c, d)
  \/ PutPanics(c, d)

Clear ==
  /\ Locks
  /\ index' = None
  /\ slots' = {}
  /\ currentBytes' = 0
  /\ tick' = 0
  /\ lastCoord' = None
  /\ stats' = [sequential |-> 0, random |-> 0, direction |-> None]
  /\ UNCHANGED <<maxBytes, maxSlots, poisoned>>

PrefetchHint(coords) ==
  /\ Locks
  /\ index # None
  /\ LET known == coords \cap DOMAIN index IN
       /\ stats.sequential + Cardinality(known) <= CounterLimit
       /\ stats' = [stats EXCEPT !.sequential = @ + Cardinality(known)]
  /\ UNCHANGED <<index, slots, currentBytes, maxBytes, maxSlots, tick,
                 lastCoord, poisoned>>

SetSweepDirection(label) ==
  /\ Locks
  /\ stats' = [stats EXCEPT !.direction = label]
  /\ UNCHANGED <<index, slots, currentBytes, maxBytes, maxSlots, tick,
                 lastCoord, poisoned>>

CacheNext ==
  \/ \E l \in Listing : PopulateIndex(l)
  \/ \E c \in Coord :
       \/ GetDecompressed(c)
       \/ GetDecompressedAligned(c)
       \/ \E d \in Data : PutDecompressed(c, d)
  \/ Clear
  \/ \E coords \in SUBSET Coord : PrefetchHint(coords)
  \/ \E label \in Directions : SetSweepDirection(label)

CacheSpec == CacheInit /\ [][CacheNext]_cacheVars
-------------------------------------------------------------------------------
\* The values of the variables.
TypeOK ==
  /\ index \in Indexes(Coord) \cup {None}
  /\ slots \subseteq Slot
  /\ currentBytes \in Nat
  /\ maxBytes \in Nat
  /\ maxSlots \in Nat
  /\ tick \in Nat
  /\ lastCoord \in Coord \cup {None}
  /\ stats \in AccessStats
  /\ poisoned \in BOOLEAN

\* current_bytes, which the code adds to and subtracts from and never
\* recomputes, is the number of bytes the slots hold: no eviction, re-insertion
\* or clear makes it drift (a drift would underflow the usize or stop eviction).
ByteAccounting == currentBytes = ByteCount(slots)

\* The two limits given to with_capacity hold after every operation.
WithinLimits == Cardinality(slots) <= maxSlots /\ ByteCount(slots) <= maxBytes

\* A coordinate has at most one slot: get returns the first slot that matches,
\* so a second one would be dead weight, and its data could differ.
OneSlotPerCoord == \A s, t \in slots : s.coord = t.coord => s = t

\* last_access orders the slots strictly, so min_by_key has a single victim,
\* and the next tick is newer than every slot even after clear() restarted it.
AccessOrder ==
  /\ \A s \in slots : s.last \in 1 .. tick
  /\ \A s, t \in slots : s.last = t.last => s = t

\* The Mutex is poisoned only by a cache created with no slot at all.
OnlyZeroSlotsPoison == poisoned => maxSlots = 0

Dropped == {s \in slots : \A t \in slots' : t.coord # s.coord}
Kept == {s \in slots : \E t \in slots' : t.coord = s.coord}

\* Whatever an insert drops is older than everything it keeps, and it drops no
\* slot it need not: with the newest dropped slot kept, the cache would be over
\* one of its limits.  (Only clear, which restarts the tick, drops freely.)
EvictsLeastRecent ==
  [][tick' > tick =>
       \A s \in Dropped :
         /\ \A k \in Kept : s.last < k.last
         /\ (\A t \in Dropped : t.last <= s.last)
              => \/ Cardinality(slots') >= maxSlots
                 \/ ByteCount(slots' \cup {s}) > maxBytes]_cacheVars

===============================================================================
