---------------------------- MODULE ParallelRead ----------------------------
(***************************************************************************)
(* Chunks are written through a filter pipeline, and decompressed by       *)
(* several lanes at once (decompress_all_chunks, lane_partition.rs,        *)
(* parallel_read.rs).  Which chunks a lane gets is decided by a hash; the  *)
(* lanes run on the threads of rayon, in any order and at any speed, until *)
(* all are done or one has failed.                                         *)
(***************************************************************************)
EXTENDS Filters, FiniteSets

CONSTANTS
  Datasets,      \* records: raw (the chunks), pipeline, elementSize, and
                 \* skipped[k], the filters the mask of chunk k names
  NumLanes,      \* threads the machine can run in parallel
  Threshold,     \* PARALLEL_THRESHOLD
  HashLanes(_),  \* HashLanes(n): ways the hash may spread n chunks over the lanes
  Damages,       \* bound: what can happen to a byte of the file
  NoAnswer

VARIABLES
  dataset,
  stored,        \* stored[k]: chunk k in the file
  pc,            \* "file", "sequential", "parallel", "answered"
  order,         \* the chunks, lane after lane
  next,          \* next[l]: how many chunks lane l has decompressed
  state,         \* state[l]: "waiting", "running", "done" or "failed"
  got,           \* got[l]: the decompressed chunks of lane l, with their numbers
  error,         \* the error rayon has kept, or NoAnswer
  answer

vars == <<dataset, stored, pc, order, next, state, got, error, answer>>

ASSUME LaneAssumption == NumLanes \in Nat /\ NumLanes >= 1 /\ Threshold \in Nat
ASSUME DatasetAssumption ==
  \A d \in Datasets :
    /\ d.raw \in Seq(Seq(Bytes))
    /\ d.pipeline \in Seq(STRING)
    /\ d.elementSize \in Nat
ASSUME HashAssumption ==
  \A d \in Datasets :
    HashLanes(Len(d.raw)) \subseteq [1 .. Len(d.raw) -> 0 .. NumLanes - 1]

Lanes == 0 .. NumLanes - 1
Chunks == 1 .. Len(stored)

\* A pipeline without the filters that are skipped.
Kept(p, skipped) ==
  LET upTo[x \in 0 .. Len(p)] ==
        IF x = 0 THEN << >>
        ELSE IF p[x] \in skipped THEN upTo[x - 1]
        ELSE Append(upTo[x - 1], p[x])
  IN upTo[Len(p)]

\* The filters chunk k was stored through: those its filter mask does not name.
\* This library skips none; other writers skip those that cannot be applied.
Applied(k) == Kept(dataset.pipeline, dataset.skipped[k])

\* Fault: the mask is not looked at.
ContentUnmasked(d, c) ==
  IF Len(c.bytes) < c.size THEN Error ELSE Decompress(c.bytes, d.pipeline, d.elementSize)

\* The loop body of all ways to decompress: the bytes are there, and go through
\* the pipeline unless the mask of the chunk is set, whatever it names.
Content(d, c) ==
  IF Len(c.bytes) < c.size THEN Error
  ELSE IF c.masked THEN c.bytes
  ELSE Decompress(c.bytes, d.pipeline, d.elementSize)
-------------------------------------------------------------------------------
Writable(d) ==
  \A k \in DOMAIN d.raw : Compress(d.raw[k], Kept(d.pipeline, d.skipped[k]), d.elementSize) # Error

Stored(bytes, masked) == [bytes |-> bytes, size |-> Len(bytes), masked |-> masked]

Init ==
  /\ dataset \in {d \in Datasets : Writable(d)}
  /\ stored = [k \in 1 .. Len(dataset.raw) |->
                 Stored(Compress(dataset.raw[k], Applied(k), dataset.elementSize),
                        dataset.skipped[k] # {})]
  /\ pc = "file"
  /\ order = << >>
  /\ next = [l \in Lanes |-> 0]
  /\ state = [l \in Lanes |-> "waiting"]
  /\ got = [l \in Lanes |-> {}]
  /\ error = NoAnswer
  /\ answer = NoAnswer

Intact == \A k \in Chunks : stored[k].bytes = Compress(dataset.raw[k], Applied(k), dataset.elementSize)

\* The file ends early, or a byte of it is not what it was.
Cut(c) == [c EXCEPT !.bytes = SubSeq(@, 1, Len(@) - 1)]
Flipped(c, x) == [c EXCEPT !.bytes[x] = (@ + 1) % B]

Damage(k) ==
  /\ pc = "file"
  /\ Intact
  /\ stored[k].bytes # << >>
  /\ stored' \in {[stored EXCEPT ![k] = Cut(@)] : cut \in Damages \cap {"cut"}}
       \cup {[stored EXCEPT ![k] = Flipped(@, x)] : x \in DOMAIN stored[k].bytes, f \in Damages \cap {"flip"}}
  /\ UNCHANGED <<dataset, pc, order, next, state, got, error, answer>>
-------------------------------------------------------------------------------
Base == Len(stored) \div NumLanes
Extra == Len(stored) % NumLanes

\* WorkStealing: how many chunks lane l gets, and how many go before.
Target(l) == IF l < Extra THEN Base + 1 ELSE Base
Before(l) == Base * l + (IF l < Extra THEN l ELSE Extra)

\* Chunks lane after lane, as the hash has it, and by number in a lane.
Rank(h, k) == Cardinality({j \in DOMAIN h : h[j] < h[k] \/ (h[j] = h[k] /\ j < k)})

Flattened(h) == [x \in DOMAIN h |-> CHOOSE k \in DOMAIN h : Rank(h, k) = x - 1]

IsParallel == dataset.pipeline # << >> /\ Len(stored) > Threshold

Partition ==
  /\ pc = "file"
  /\ IF IsParallel
     THEN /\ pc' = "parallel"
          /\ \E h \in HashLanes(Len(stored)) : order' = Flattened(h)
     ELSE /\ pc' = "sequential"
          /\ order' = [k \in Chunks |-> k]
  /\ UNCHANGED <<dataset, stored, next, state, got, error, answer>>

\* rayon starts no item once one has failed.
Start(l) ==
  /\ pc = "parallel"
  /\ state[l] = "waiting"
  /\ error = NoAnswer
  /\ state' = [state EXCEPT ![l] = "running"]
  /\ UNCHANGED <<dataset, stored, pc, order, next, got, error, answer>>

\* Lane l decompresses its next chunk, which is k.
Decode(l, k) ==
  /\ LET content == Content(dataset, stored[k])
     IN IF content = Error
        THEN /\ state' = [state EXCEPT ![l] = "failed"]
             /\ error' = IF error = NoAnswer THEN <<Error, k>> ELSE error
             /\ UNCHANGED <<next, got>>
        ELSE /\ got' = [got EXCEPT ![l] = @ \cup {[index |-> k, data |-> content]}]
             /\ next' = [next EXCEPT ![l] = @ + 1]
             /\ UNCHANGED <<state, error>>
  /\ UNCHANGED <<dataset, stored, pc, order, answer>>

LaneStep(l) ==
  /\ pc = "parallel"
  /\ state[l] = "running"
  /\ next[l] < Target(l)
  /\ Decode(l, order[Before(l) + next[l] + 1])

LaneDone(l) ==
  /\ pc = "parallel"
  /\ state[l] = "running"
  /\ next[l] = Target(l)
  /\ state' = [state EXCEPT ![l] = "done"]
  /\ UNCHANGED <<dataset, stored, pc, order, next, got, error, answer>>

\* Fault: the results stay in the order of the lanes.
ByLane(rs) == [x \in 1 .. Cardinality(rs) |-> (CHOOSE r \in rs : r.index = order[x]).data]

\* sort_by_key(index)
ByIndex(rs) ==
  [x \in 1 .. Cardinality(rs) |->
     (CHOOSE r \in rs : Cardinality({q \in rs : q.index < r.index}) = x - 1).data]

All == UNION {got[l] : l \in Lanes}

Finished(result) ==
  /\ answer' = result
  /\ pc' = "answered"
  /\ UNCHANGED <<dataset, stored, order, next, state, got, error>>

\* An error wins over what the other lanes have.
Collect ==
  /\ pc = "parallel"
  /\ \A l \in Lanes : state[l] \in (IF error = NoAnswer THEN {"done"} ELSE {"waiting", "done", "failed"})
  /\ Finished(IF error = NoAnswer THEN ByIndex(All) ELSE error)

\* The fallback: one after the other, up to the first error.
SequentialStep ==
  /\ pc = "sequential"
  /\ error = NoAnswer
  /\ next[0] < Len(stored)
  /\ Decode(0, order[next[0] + 1])

SequentialEnd ==
  /\ pc = "sequential"
  /\ error # NoAnswer \/ next[0] = Len(stored)
  /\ Finished(IF error = NoAnswer THEN ByIndex(All) ELSE error)

Read ==
  \/ Partition
  \/ \E l \in Lanes : Start(l) \/ LaneStep(l) \/ LaneDone(l)
  \/ Collect
  \/ SequentialStep
  \/ SequentialEnd

\* The same chunks can be read again.
ReadAgain ==
  /\ pc = "answered"
  /\ pc' = "file"
  /\ order' = << >>
  /\ next' = [l \in Lanes |-> 0]
  /\ state' = [l \in Lanes |-> "waiting"]
  /\ got' = [l \in Lanes |-> {}]
  /\ error' = NoAnswer
  /\ answer' = NoAnswer
  /\ UNCHANGED <<dataset, stored>>

Next == Read \/ ReadAgain \/ \E k \in Chunks : Damage(k)

Spec == Init /\ [][Next]_vars
-------------------------------------------------------------------------------

AllOrNone(k) ==
  dataset.skipped[k] = {} \/ \A x \in DOMAIN dataset.pipeline : dataset.pipeline[x] \in dataset.skipped[k]

\* What was written through a pipeline comes back through it: each chunk in its
\* place, whichever lane had it, if its mask names no filter or all of them.
\* Nothing is said of what a chunk with another mask comes back as, but that it
\* is in the way of no other one (MasksAreHeeded).
RoundTrip ==
  pc = "answered" /\ Intact =>
    /\ DOMAIN answer = Chunks
    /\ \A k \in Chunks : AllOrNone(k) => answer[k] = dataset.raw[k]

\* "Bitmask of filters that were NOT applied (0 = all applied)", says
\* chunk_cache.rs of ChunkInfo.filter_mask: the others were, and are undone.
MasksAreHeeded == pc = "answered" /\ Intact => answer = dataset.raw

Protected(k) ==
  ~stored[k].masked /\ \E x \in DOMAIN dataset.pipeline : dataset.pipeline[x] = "fletcher32"

\* A changed byte of a chunk with a checksum and no mask, and any missing byte,
\* is an error and never data.
DamageIsNoticed ==
  pc = "answered" =>
    \A k \in Chunks :
      \/ stored[k].bytes = Compress(dataset.raw[k], Applied(k), dataset.elementSize)
      \/ ~Protected(k) /\ Len(stored[k].bytes) = stored[k].size
      \/ answer = <<Error, k>>

\* Putting off the remainders to the end of a block, in 32 bits, changes no sum.
ChecksumIsExact ==
  \A k \in Chunks : Fletcher(stored[k].bytes) = Reference(stored[k].bytes)

\* Lanes implement decompressing all chunks in one step.
Abstract == INSTANCE ChunkReadSpec
ReadsInOrder == Abstract!Spec
===============================================================================
