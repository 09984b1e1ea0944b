------------------------------ MODULE SweepRead ------------------------------
(***************************************************************************)
(* Reading chunked datasets with a cache and a sweep context               *)
(* (read_chunked_data_sweep).  One reader takes the chunks of its index in *)
(* the order of a HashMap, which is any order; what it detects and hints   *)
(* is for the cache's statistics, and must not change an answer.           *)
(* A SweepDetector of rustyhdf5-io watches the same accesses.              *)
(***************************************************************************)
EXTENDS ChunkCache, Sweep, ChunkIndexes

CONSTANTS
  Names,       \* of the datasets
  DatasetOf,   \* DatasetOf[n]: its dimensions, layout and pipeline
  FileOf,      \* FileOf[n]: the file it is in
  Contents,    \* Contents[n]: its elements in row-major order, or Unreadable
  Unreadable,  \* Err(_)
  Unread,
  Undefined,   \* the undefined address
  MaxBegun     \* bound: reads begun

VARIABLES
  phase,
  name,        \* what is being read
  sweep,       \* the SweepContext, which outlives a read
  detector,    \* the SweepDetector
  left,        \* the chunks left
  current,     \* the chunk being read
  output,
  reply,
  begun

sweepVars == <<name, sweep, detector, left, output, reply, begun>>
allVars == <<cacheVars, phase, current, sweepVars>>

\* What listing the chunks of a dataset yields for the cache.
ListingOf(n) ==
  [chunks |-> CollectChunks(FileOf[n], DatasetOf[n]).chunks, rank |-> Rank(DatasetOf[n])]

ASSUME SweepAssumption ==
  \A n \in Names :
    LET listed == CollectChunks(FileOf[n], DatasetOf[n]) IN
    /\ Rank(DatasetOf[n]) \in Nat
    /\ listed.ok =>
         /\ ListingOf(n) \in Listing
         /\ \A i \in DOMAIN listed.chunks :
              /\ listed.chunks[i].offsets \in Seq(Nat)
              /\ Len(listed.chunks[i].offsets) >= Rank(DatasetOf[n])
              /\ ChunkData(FileOf[n], DatasetOf[n], listed.chunks[i], Unreadable)
                   \in Data \cup {Unreadable}

ds == DatasetOf[name]
file == FileOf[name]
CoordOfChunk == CoordOf(current, Rank(ds))
-------------------------------------------------------------------------------
SweepInit ==
  /\ CacheInit
  /\ phase = "idle"
  /\ name \in Names
  /\ sweep = NewContext
  /\ detector = NewDetector
  /\ left = {}
  /\ current = None
  /\ output = Unread
  /\ reply = Unread
  /\ begun = 0

Proceed(from, to) == phase = from /\ phase' = to

\* The cache is that of the dataset: another dataset gets an empty one, and a
\* new detector.  The context may stay.
BeginSweep(n) ==
  /\ begun < MaxBegun
  /\ Proceed("idle", "open")
  /\ name' = n
  /\ IF n = name THEN UNCHANGED <<cacheVars, detector>> ELSE Clear /\ detector' = NewDetector
  /\ sweep' \in {sweep, NewContext}
  /\ reply' = Unread
  /\ begun' = begun + 1
  /\ UNCHANGED <<left, current, output>>

\* Undefined addresses and ranks that differ are errors before the index is read.
WellFormed(d) == d.layout.address # Undefined /\ Len(d.dims) = Rank(d)

ReturnWith(from, answer) ==
  /\ Proceed(from, "idle")
  /\ reply' = answer
  /\ left' = {}
  /\ current' = None
  /\ output' = Unread
  /\ UNCHANGED <<name, sweep, detector, begun>>

ZeroFilled(d) == [i \in 0 .. Product(d.dims) - 1 |-> 0]

\* The chunks copied one after the other.
CopiedInOrder(d, chunks, data) ==
  LET upTo[k \in 0 .. Len(chunks)] ==
        IF k = 0 THEN ZeroFilled(d)
        ELSE CopiedInto(upTo[k - 1], d, CoordOf(chunks[k], Rank(d)), data[k])
  IN upTo[Len(chunks)]

\* read_chunked_data: no cache; every chunk is decompressed before one is copied.
ReadWhole(d, f) ==
  LET listed == CollectChunks(f, d) IN
  IF ~WellFormed(d) \/ ~listed.ok THEN Unreadable
  ELSE LET data == [i \in DOMAIN listed.chunks |-> ChunkData(f, d, listed.chunks[i], Unreadable)] IN
       IF \E i \in DOMAIN data : data[i] = Unreadable THEN Unreadable
       ELSE CopiedInOrder(d, listed.chunks, data)

ReadUncached(n) ==
  /\ begun < MaxBegun
  /\ phase = "idle"
  /\ name' = n
  /\ IF n = name THEN UNCHANGED <<cacheVars, detector>> ELSE Clear /\ detector' = NewDetector
  /\ reply' = ReadWhole(DatasetOf[n], FileOf[n])
  /\ begun' = begun + 1
  /\ UNCHANGED <<phase, sweep, left, current, output>>

OpenFails ==
  /\ ~WellFormed(ds) \/ (index = None /\ ~CollectChunks(file, ds).ok)
  /\ ReturnWith("open", Unreadable)
  /\ UNCHANGED cacheVars

Open ==
  /\ WellFormed(ds)
  /\ Proceed("open", "list")
  /\ IF index # None THEN UNCHANGED cacheVars
     ELSE /\ CollectChunks(file, ds).ok
          /\ PopulateIndex([chunks |-> CollectChunks(file, ds).chunks, rank |-> Rank(ds)])
  /\ UNCHANGED <<current, sweepVars>>

TakeChunks ==
  /\ Proceed("list", "next")
  /\ left' = {index[c] : c \in DOMAIN index}
  /\ output' = ZeroFilled(ds)
  /\ UNCHANGED <<cacheVars, name, sweep, detector, current, reply, begun>>

\* sweep.record
Visit(info) ==
  /\ phase = "next"
  /\ LET c == CoordOf(info, Rank(ds)) IN
       /\ sweep' = Record(sweep, c, Rank(ds))
       /\ detector' = RecordAccess(detector, c, Rank(ds))
  /\ phase' = IF sweep'.predicted # <<>> THEN "hint" ELSE "get"
  /\ current' = info
  /\ left' = left \ {info}
  /\ UNCHANGED <<cacheVars, name, output, reply, begun>>

Hint ==
  /\ Proceed("hint", "label")
  /\ PrefetchHint({sweep.predicted[i] : i \in DOMAIN sweep.predicted})
  /\ UNCHANGED <<current, sweepVars>>

SetDirection ==
  /\ Proceed("label", "get")
  /\ SetSweepDirection(sweep.direction)
  /\ UNCHANGED <<current, sweepVars>>

CopyCached ==
  /\ Proceed("get", "next")
  /\ Cached(CoordOfChunk)
  /\ GetDecompressed(CoordOfChunk)
  /\ output' = CopiedInto(output, ds, CoordOfChunk, DataAt(CoordOfChunk))
  /\ current' = None
  /\ UNCHANGED <<name, sweep, detector, left, reply, begun>>

MissCached ==
  /\ Proceed("get", "decode")
  /\ ~Cached(CoordOfChunk)
  /\ GetDecompressed(CoordOfChunk)
  /\ UNCHANGED <<current, sweepVars>>

Decompressed == ChunkData(file, ds, current, Unreadable)

DecompressFails ==
  /\ phase = "decode"
  /\ Decompressed = Unreadable
  /\ ReturnWith("decode", Unreadable)
  /\ UNCHANGED cacheVars

PutChunk ==
  /\ phase = "decode"
  /\ Decompressed # Unreadable
  /\ PutDecompressed(CoordOfChunk, Decompressed)
  /\ IF poisoned' THEN phase' = "panicked" /\ UNCHANGED output
     ELSE phase' = "next" /\ output' = CopiedInto(output, ds, CoordOfChunk, Decompressed)
  /\ current' = None
  /\ UNCHANGED <<name, sweep, detector, left, reply, begun>>

Complete ==
  /\ left = {}
  /\ ReturnWith("next", output)
  /\ UNCHANGED cacheVars

SweepNext ==
  \/ \E n \in Names : BeginSweep(n) \/ ReadUncached(n)
  \/ OpenFails
  \/ Open
  \/ TakeChunks
  \/ \E info \in left : Visit(info)
  \/ Hint
  \/ SetDirection
  \/ CopyCached
  \/ MissCached
  \/ DecompressFails
  \/ PutChunk
  \/ Complete

SweepSpec == SweepInit /\ [][SweepNext]_allVars
-------------------------------------------------------------------------------
\* What a file holds of a dataset, position by position: the element of the
\* chunk that covers it, or zero where none does; an error when a chunk cannot
\* be listed or decompressed.
InPlace(d, f) ==
  LET listed == CollectChunks(f, d)
      chunks == listed.chunks
      data(k) == ChunkData(f, d, chunks[k], Unreadable)
      here(k, i) == Covering(d, CoordOf(chunks[k], Rank(d)), data(k), i)
      covers(i) == {k \in DOMAIN chunks : here(k, i) # {}}
  IN IF ~WellFormed(d) \/ ~listed.ok THEN Unreadable
     ELSE IF \E k \in DOMAIN chunks : data(k) = Unreadable THEN Unreadable
     ELSE [i \in DOMAIN ZeroFilled(d) |->
             IF covers(i) = {} THEN 0
             ELSE LET k == CHOOSE x \in covers(i) : TRUE IN data(k)[CHOOSE e \in here(k, i) : TRUE]]

\* No chunk of a dataset is listed twice, and no two cover the same position.
Apart(d, f) ==
  LET listed == CollectChunks(f, d)
      chunks == listed.chunks
      at(k) == CoordOf(chunks[k], Rank(d))
      here(k, i) == Covering(d, at(k), ChunkData(f, d, chunks[k], Unreadable), i)
  IN WellFormed(d) /\ listed.ok =>
       \A k, l \in DOMAIN chunks : k # l =>
         /\ at(k) # at(l)
         /\ ChunkData(f, d, chunks[k], Unreadable) # Unreadable
            /\ ChunkData(f, d, chunks[l], Unreadable) # Unreadable =>
              \A i \in DOMAIN ZeroFilled(d) : here(k, i) = {} \/ here(l, i) = {}

ASSUME ContentsAssumption ==
  \A n \in Names : /\ Contents[n] = InPlace(DatasetOf[n], FileOf[n])
                   /\ Apart(DatasetOf[n], FileOf[n])

\* Whatever index a dataset has, and in whatever order its chunks are visited,
\* cached, evicted and predicted, a read answers with its elements in their
\* places, or with the error its file earns: never with some of them.
SweepReadsBack == reply # Unread => reply = Contents[name]

\* What SweepContext predicts is what SweepDetector predicts of the same
\* accesses, as its comment says, and both call the sweep by the same name.
DetectorsAgree ==
  detector.history = sweep.history =>
    /\ detector.predicted = sweep.predicted
    /\ sweep.direction =
         [Random |-> "random", RowMajor |-> "row_major", ColumnMajor |-> "column_major",
          SliceMajor |-> "slice_major"][detector.direction[1]]

\* A history of equal steps along one dimension: a sweep.
IsSweep(h, d, step) ==
  \A i \in 1 .. Len(h) - 1 : h[i + 1] = [h[i] EXCEPT ![d] = @ + step]

\* When all the accesses of the window are one sweep, in either direction, the
\* predictions are its next chunks, none of them visited yet; and predictions are
\* always distinct places ahead of the last access, in one dimension.
PredictsTheSweep ==
  LET h == sweep.history
      p == sweep.predicted
      last == h[Len(h)]
  IN /\ Len(h) >= 3 /\ (\A i \in DOMAIN h : Len(h[i]) = Len(h[1])) =>
          \A d \in DOMAIN last :
            LET step == h[2][d] - h[1][d] IN
            step # 0 /\ IsSweep(h, d, step) =>
              /\ \A i \in DOMAIN p : p[i] = [last EXCEPT ![d] = @ + i * step]
              /\ Len(p) = PrefetchCount \/ last[d] + (Len(p) + 1) * step < 0
     /\ \A i \in DOMAIN p :
          /\ Cardinality({d \in DOMAIN last : p[i][d] # last[d]}) = 1
          /\ \A j \in DOMAIN p : p[i] = p[j] => i = j
===============================================================================
