------------------------------ MODULE CachedRead ------------------------------
(***************************************************************************)
(* Threads reading chunked datasets through one ChunkCache                 *)
(* (read_chunked_data_cached, called by Dataset::read_raw with the cache   *)
(* of its File).  A read makes several calls on the cache, and releases    *)
(* its Mutex between them: each call is an action, so that other threads'  *)
(* calls, and clear(), fall between any two.                               *)
(***************************************************************************)
EXTENDS ChunkCache

CONSTANTS
  Threads,
  Datasets,
  OneDataset,  \* TRUE: the cache serves one dataset, as its documentation says;
               \* FALSE: a File's cache, which serves every dataset of the file
  Grid,        \* Grid[d]: the coordinates of the chunks that make up d
  Scan,        \* Scan[d]: what scanning d's chunk index returns, or Damaged
  Decode,      \* Decode[a]: the decompressed chunk at address a, or Damaged
  Zeros,       \* a chunk of the zero-filled output buffer
  Damaged,     \* Err(_)
  NoAnswer,    \* no read has returned yet
  MaxCalls     \* bound: reads begun, and calls on the cache by others

VARIABLES
  pc,          \* pc[t]: where t's read is; "idle" when it has returned
  dataset,     \* dataset[t]: what t reads
  todo,        \* todo[t]: the chunks left of t's snapshot of the index
  missed,      \* missed[t]: the chunk t is decompressing
  out,         \* out[t]: t's output buffer, chunk by chunk
  answer,      \* answer[t]: what t's last read returned
  reads,       \* the reads begun so far
  clears,      \* the calls of clear() so far
  uses         \* the other calls by others than readers so far

readerVars == <<pc, dataset, todo, missed, out, answer, reads>>
vars == <<cacheVars, readerVars, clears, uses>>

ASSUME ScanAssumption == \A d \in Datasets : Scan[d] \in Listing \cup {Damaged}
ASSUME DecodeAssumption ==
  \A i \in ChunkInfo : Decode[i.address] \in Data \cup {Damaged}
ASSUME BoundAssumption == OneDataset \in BOOLEAN /\ MaxCalls \in Nat

RankOf(d) == Scan[d].rank

\* The bytes of a dataset: its chunks, or zeros where the index lists none.
ChunkOf(d, c) ==
  IF c \in ListedCoords(Scan[d]) THEN Decode[LastEntry(Scan[d], c).address] ELSE Zeros

Readable(d) ==
  /\ Scan[d] # Damaged
  /\ \A c \in ListedCoords(Scan[d]) : ChunkOf(d, c) # Damaged

Answer ==
  [d \in Datasets |->
     IF Readable(d) THEN [c \in Grid[d] |-> ChunkOf(d, c)] ELSE Damaged]
-------------------------------------------------------------------------------
Init ==
  /\ CacheInit
  /\ pc = [t \in Threads |-> "idle"]
  /\ \E d \in Datasets : dataset = [t \in Threads |-> d]
  /\ todo = [t \in Threads |-> {}]
  /\ missed = [t \in Threads |-> None]
  /\ out = [t \in Threads |-> NoAnswer]
  /\ answer = [t \in Threads |-> NoAnswer]
  /\ reads = 0
  /\ clears = 0
  /\ uses = 0

\* Bounded: a read begins, or somebody else calls the cache.
OneMoreCall == reads + clears + uses < MaxCalls

Goto(t, from, to) == pc[t] = from /\ pc' = [pc EXCEPT ![t] = to]

Begin(t, d) ==
  /\ OneMoreCall
  /\ OneDataset => d = dataset[t]
  /\ Goto(t, "idle", "check")
  /\ dataset' = [dataset EXCEPT ![t] = d]
  /\ answer' = [answer EXCEPT ![t] = NoAnswer]
  /\ reads' = reads + 1
  /\ UNCHANGED <<cacheVars, todo, missed, out, clears, uses>>

\* Fault: a reader waits for another one to build the index.
HasIndexAwaited(t) ==
  /\ Locks
  /\ index # None
  /\ Goto(t, "check", "list")
  /\ UNCHANGED <<cacheVars, dataset, todo, missed, out, answer, reads, clears, uses>>

\* cache.has_index()
HasIndex(t) ==
  /\ Locks
  /\ Goto(t, "check", IF index = None THEN "scan" ELSE "list")
  /\ UNCHANGED <<cacheVars, dataset, todo, missed, out, answer, reads, clears, uses>>

Finish(t, from, result) ==
  /\ Goto(t, from, "idle")
  /\ answer' = [answer EXCEPT ![t] = result]
  /\ todo' = [todo EXCEPT ![t] = {}]
  /\ missed' = [missed EXCEPT ![t] = None]
  /\ out' = [out EXCEPT ![t] = NoAnswer]
  /\ UNCHANGED <<cacheVars, dataset, reads, clears, uses>>

\* Scanning the index takes no lock: two threads may both do it.
ScanFails(t) == Scan[dataset[t]] = Damaged /\ Finish(t, "scan", Damaged)

Populate(t) ==
  /\ Scan[dataset[t]] # Damaged
  /\ PopulateIndex(Scan[dataset[t]])
  /\ Goto(t, "scan", "list")
  /\ UNCHANGED <<dataset, todo, missed, out, answer, reads, clears, uses>>

Snapshot == IF index = None THEN {} ELSE {index[c] : c \in DOMAIN index}

\* all_indexed_chunks().unwrap_or_default(), into a zero-filled output.
ListChunks(t) ==
  /\ Locks
  /\ Goto(t, "list", "copy")
  /\ todo' = [todo EXCEPT ![t] = Snapshot]
  /\ out' = [out EXCEPT ![t] = [c \in Grid[dataset[t]] |-> Zeros]]
  /\ UNCHANGED <<cacheVars, dataset, missed, answer, reads, clears, uses>>

ReadCoord(t, info) == CoordOf(info, RankOf(dataset[t]))

\* copy_chunk_to_output leaves out what lies outside the dataset.
Copied(t, c, data) ==
  [out EXCEPT ![t] = [x \in DOMAIN @ |-> IF x = c THEN data ELSE @[x]]]

Hit(t, info) ==
  /\ Goto(t, "copy", "copy")
  /\ Cached(ReadCoord(t, info))
  /\ GetDecompressed(ReadCoord(t, info))
  /\ out' = Copied(t, ReadCoord(t, info), DataAt(ReadCoord(t, info)))
  /\ todo' = [todo EXCEPT ![t] = @ \ {info}]
  /\ UNCHANGED <<dataset, missed, answer, reads, clears, uses>>

Miss(t, info) ==
  /\ Goto(t, "copy", "decode")
  /\ ~Cached(ReadCoord(t, info))
  /\ GetDecompressed(ReadCoord(t, info))
  /\ missed' = [missed EXCEPT ![t] = info]
  /\ todo' = [todo EXCEPT ![t] = @ \ {info}]
  /\ UNCHANGED <<dataset, out, answer, reads, clears, uses>>

\* Fault: readers share one buffer for the chunk being decompressed.
DecodedTogether(t) ==
  Decode[missed[CHOOSE u \in Threads : missed[u] # None].address]

Decoded(t) == Decode[missed[t].address]

\* Fault: a chunk that does not decompress is passed over.
DecodeSkips(t) ==
  /\ pc[t] = "decode"
  /\ Decoded(t) = Damaged
  /\ Goto(t, "decode", "copy")
  /\ missed' = [missed EXCEPT ![t] = None]
  /\ UNCHANGED <<cacheVars, dataset, todo, out, answer, reads, clears, uses>>

DecodeFails(t) ==
  /\ pc[t] = "decode"
  /\ Decoded(t) = Damaged
  /\ Finish(t, "decode", Damaged)

\* Decompressing is local; put_decompressed runs under the lock, and may panic.
Insert(t) ==
  /\ pc[t] = "decode"
  /\ Decoded(t) # Damaged
  /\ LET c == ReadCoord(t, missed[t])
         data == Decoded(t)
     IN /\ PutDecompressed(c, data)
        /\ IF poisoned'
           THEN Goto(t, "decode", "panicked") /\ UNCHANGED out
           ELSE Goto(t, "decode", "copy") /\ out' = Copied(t, c, data)
  /\ missed' = [missed EXCEPT ![t] = None]
  /\ UNCHANGED <<dataset, todo, answer, reads, clears, uses>>

Return(t) == todo[t] = {} /\ Finish(t, "copy", out[t])

\* Locking a poisoned Mutex: unwrap() panics in the caller.
PanicsOnLock(t) ==
  /\ poisoned
  /\ \/ pc[t] \in {"check", "list", "decode"}
     \/ pc[t] = "scan" /\ Scan[dataset[t]] # Damaged
     \/ pc[t] = "copy" /\ todo[t] # {}
  /\ pc' = [pc EXCEPT ![t] = "panicked"]
  /\ UNCHANGED <<cacheVars, dataset, todo, missed, out, answer, reads, clears, uses>>

\* Any holder of the cache may clear it at any time.
ClearCache ==
  /\ OneMoreCall
  /\ Clear
  /\ clears' = clears + 1
  /\ UNCHANGED <<readerVars, uses>>

\* Or hint at chunks, label a sweep, take a chunk into an aligned buffer: what a
\* cached read does not do, but a sweep read or a caller of its own may.
UseCache ==
  /\ OneMoreCall
  /\ \/ \E coords \in SUBSET Coord : PrefetchHint(coords)
     \/ \E label \in Directions : SetSweepDirection(label)
     \/ \E c \in Coord : GetDecompressedAligned(c)
  /\ uses' = uses + 1
  /\ UNCHANGED <<readerVars, clears>>

Read(t) ==
  \/ HasIndex(t)
  \/ ScanFails(t)
  \/ Populate(t)
  \/ ListChunks(t)
  \/ \E info \in todo[t] : Hit(t, info) \/ Miss(t, info)
  \/ DecodeFails(t)
  \/ Insert(t)
  \/ Return(t)
  \/ PanicsOnLock(t)

Next ==
  \/ \E t \in Threads : Read(t) \/ \E d \in Datasets : Begin(t, d)
  \/ ClearCache
  \/ UseCache

Spec == Init /\ [][Next]_vars

\* A thread inside a read keeps running; no one is obliged to begin one.
FairSpec == Spec /\ \A t \in Threads : WF_vars(Read(t))
-------------------------------------------------------------------------------
\* A read returns the bytes of its dataset, or the error they cause, whichever
\* other reads ran between its steps and whatever they cached or evicted.
AnswersAreRight ==
  \A t \in Threads : clears = 0 /\ answer[t] # NoAnswer => answer[t] = Answer[dataset[t]]

\* Whatever is cached is what decompressing that chunk of the dataset yields, also
\* when two threads missed it at once and both inserted it; and a reader past
\* populate_index has its dataset's own index before it, until a clear().
CacheIsCoherent ==
  \A t \in Threads :
    /\ \A s \in slots : /\ s.coord \in ListedCoords(Scan[dataset[t]])
                        /\ s.data = ChunkOf(dataset[t], s.coord)
    /\ clears = 0 /\ pc[t] \in {"list", "copy", "decode"} =>
         Scan[dataset[t]] # Damaged /\ index = IndexOf(Scan[dataset[t]])

\* Every read that begins ends; it ends in a panic only if the cache was
\* created without slots.
ReadsEnd ==
  \A t \in Threads :
    pc[t] # "idle" ~> pc[t] = "idle" \/ (pc[t] = "panicked" /\ maxSlots = 0)

Blank == [d \in Datasets |-> [c \in Grid[d] |-> Zeros]]

\* Concurrent cached reads implement reads whose answer depends on the dataset
\* alone; a clear() in the middle of a read costs at most the whole answer: what
\* was listed before it is never mixed with the zeros after it.
Abstract ==
  INSTANCE ReadSpec WITH
    asked <- dataset, busy <- {t \in Threads : pc[t] # "idle"}, answer <- answer,
    cleared <- clears > 0
ReadsAreIndependent == Abstract!Spec
===============================================================================
