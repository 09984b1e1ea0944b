# rustyhdf5, specified and verified

TLA+ specifications of rustyhdf5, a reader and writer of HDF5 files in Rust,
with the TLC runs that model-check them and the TLAPS proofs about them. Source
paths are relative to the repository's `crates/`; where only a file name is
given it is in `rustyhdf5-format/src/`.

Contents: 1 the system, 2 modules, 3 runs, 4 proofs, 5 findings, 6 seen in the
code without a run, 7 plan, 8 not modelled.

## 1. The system

rustyhdf5 is a library. A file is bytes in memory (read, or mapped); reading a
dataset means parsing the superblock, walking groups to an object header,
parsing its messages, listing the chunks an index names, decompressing each and
copying it into the output. Writing builds all the bytes of a file in one call
and hands them to `std::fs::write`, which truncates what was there. Nothing is
edited in place but by `MmapReadWrite`; there is no journal, so a crash leaves a
beginning of the new file, and the question is whether readers notice.

What is hard is in the cache and the parallel path (shared, mutable, locked), in
the indexes, layouts and messages that a writer and a reader have to agree on
without sharing code, in the loops and recursions over structures read from a
file, which may be damaged, and in what the Python sessions share between
handles that outlive them.

| component | code | state it keeps | operations | correct when |
|---|---|---|---|---|
| chunk cache | `chunk_cache.rs` | under one Mutex: chunk index, LRU slots, byte count, tick, access statistics | populate_index, get/put_decompressed, clear, prefetch_hint, set_sweep_direction | within its limits, every byte accounted for, never another chunk's data |
| cached reads | `chunked_read.rs`, `rustyhdf5/src/reader.rs` | per read a list of chunks and an output buffer; per file the cache | read_chunked_data_cached | the answer depends on the dataset alone, whatever else runs |
| sweep reads and detectors | `chunked_read.rs`, `rustyhdf5-io/src/{prefetch,sweep}.rs` | a window of coordinates, a direction, predictions | read_chunked_data_sweep, detect_sweep, predict_next | hints never change an answer; both detectors agree |
| chunked datasets | `chunked_write.rs`, `fixed_array.rs`, `extensible_array.rs`, `chunked_read.rs` | the buffer being built, index blocks, list of chunks | build_chunked_data_at_ext, read_*_chunks, read_chunked_data | nothing overlaps, every address resolves, every element returns to its place |
| indexes of other writers | `btree_v1.rs`, `chunked_read.rs` | none | collect_chunk_info, implicit index, single chunks | every element, zeros where no chunk is, or an error |
| filters | `filters.rs`, `filter_pipeline.rs` | none | compress_chunk, decompress_chunk | decompressing inverts compressing; damage is noticed |
| parallel decompression | `lane_partition.rs`, `parallel_read.rs` | lanes of chunk numbers, results per lane | partition, decompress_chunks_lane_partitioned | every chunk once, in order, or an error that one of them has |
| types and messages | `superblock.rs`, `datatype.rs`, `dataspace.rs`, `data_layout.rs`, `filter_pipeline.rs`, `attribute.rs` | none | parse, serialize | what was written is read, what is cut short is refused |
| values | `data_read.rs`, `type_builders.rs`, `global_heap.rs`, `vl_data.rs`, `rustyhdf5/src/{reader,types,writer}.rs` | a builder's type, shape, data, attributes | with_..._data, with_shape, set_attr; read_*, attrs | the values given are the values read |
| file writer | `file_writer.rs`, `object_header_writer.rs`, `rustyhdf5/src/writer.rs` | objects to write, sizes (pass 1), addresses (pass 2), buffer | finish | everything lies where its address says and is found by path |
| metadata index | `metadata_index.rs`, `rustyhdf5/src/writer.rs` | a block of datasets per creator | add_dataset, merge_blocks, finalize_parallel | one file whatever the order of the creators; no name twice |
| object headers | `object_header.rs` | blocks begun or waiting, messages so far | parse | every message of the object once; ends on every input |
| groups and paths | `group_v1.rs`, `group_v2.rs`, `btree_v1.rs`, `btree_v2.rs`, `symbol_table.rs`, `local_heap.rs`, `link_message.rs`, `rustyhdf5/src/{reader,lazy}.rs` | a cursor; LazyFile: parsed headers by address | dataset, group, datasets, groups | the object the path names, or an error it has earned |
| fractal heap | `fractal_heap.rs` | a cursor over blocks | read_managed_object | finds what the doubling table holds |
| attributes, shared messages | `attribute.rs`, `shared_message.rs` | none | extract_attributes_full, resolve_* | each attribute once, none left out silently |
| files and I/O | `rustyhdf5-io/src`, `rustyhdf5/src/{reader,writer,mmap_file}.rs` | file on disk, mapping, ring of chunks read ahead | write, open, map, read_all, PrefetchReader | a reader sees bytes of the file, or notices |
| Python sessions | `rustyhdf5-py/src` | what was created and assigned, shared with handles | create_*, attrs, close; [], keys, attrs | a closed file replays its session's calls |
| vector index | `rustyhdf5-ann/src/hnsw.rs` | layers of neighbour lists, entry point | build, search, save, load | layered, bounded degree; a wide search misses nothing it can reach |
| SIMD, GPU, netCDF-4, derive, provenance, HSDS | the other crates | see section 8 | | |

How they interact. `Dataset::read_raw` takes the file's `ChunkCache` by shared
reference; every call on it locks its Mutex and releases it, so reads of several
threads, `clear()` and hints fall between the calls of one read.
`read_chunked_data` hands chunks to a Rayon pool, one task per lane; the lanes
share nothing but the file bytes. `LazyFile` keeps parsed headers behind a lock.
A Python group handle holds an `Arc` of its group's state, which the session
holds too. Everything else communicates through file bytes: what a writer lays
out, a reader, with its own arithmetic, has to find.

Behaviours that are hard, by where they come from: interleavings of readers on
one cache, of lanes, and of a reader with a process that rewrites its file; state
used after its lock was released (the test for an index, the snapshot of it);
limits (bytes, slots, lanes, neighbour lists, nesting, field widths); two
computations that have to agree (sizes predicted and built, writer and reader,
the two detectors); one step of several failing (a damaged chunk, index node or
header block, a disk that is full, a process that dies). `PROJECT.json` lists
each under `hazards`, at its line, with the properties that would catch it.

## 2. Modules

An action is one step of the code that others can come between, or one
iteration of a loop: one locked call on a cache, one chunk of a lane, one
message of a header, one block placed in a buffer, one block written to disk.
Definitions called "Fault:" are mutated forms of a definition, used to see that
a property can fail.

**ChunkCache** is the cache. Each operation locks the Mutex once and is one
action. The `Vec` of slots is a set: only the ages order it, and the proofs show
that they do (`AccessOrder`). The eviction loop is stated by its result, the
shortest run of oldest slots after which its condition is false (`Evicts`). A
panic inside the loop poisons the Mutex (`PutPanics`).

**CachedRead** extends it with threads that run `read_chunked_data_cached`:
`HasIndex`, `ScanFails`/`Populate`, `ListChunks`, `Hit`/`Miss`, `DecodeFails`,
`Insert`, `Return`, and `PanicsOnLock` for a poisoned Mutex; others may call
`ClearCache` and `UseCache` between them. Chunks, datasets
and errors are values; the copy into the output is by whole chunks. Geometry is
ChunkedDataset's. **ReadSpec** is what a read promises: an answer that depends
on the dataset alone, or, once somebody has called `clear()`, possibly a blank
one. CachedRead implements it (`ReadsAreIndependent`, checked and proved).

**SweepRead** extends ChunkCache, **Sweep** and **ChunkIndexes**. Sweep is the
detection of sweeps, written twice in the code. ChunkIndexes lists the chunks of
trees, implicit indexes and single chunks. SweepRead is
`read_chunked_data_sweep` call by call: chunks in any order, since they come out
of a HashMap; detect, hint, look up, decompress, put, copy element by element.
`InPlace` is what it should answer, said position by position and without an
order of the chunks. Its names differ from CachedRead's, since one module has the
proofs of both.

**ChunkedDataset** follows one dataset through `build_chunked_data_at_ext`
(`PlaceChunk`, `PlaceSingle`, `PlaceFixed`, `PlaceExtensible`, `PlaceDataBlock`,
`FinishExtensible`) and `read_chunked_data` (`List*`, `CopyChunk`, `Return`).
Addresses and block lengths are the code's numbers; a block is a record, an
element of the data its number. The reader's coordinates, block sizes and
element offsets are computed by its own formulas (`OffsetsOf`, `ReaderSizes`,
`FlatIndex`), never taken from the writer's.

**Filters** has shuffle, fletcher32 and the pipeline in both directions as
functions of sequences of bytes; a byte has `B` values, and the checksum's
moduli and accumulators are those of `B`. zlib is external, a stream that
checks itself. **ParallelRead** extends it with the lanes of
`decompress_chunks_lane_partitioned` and the sequential fallback; rayon is
modelled by what it promises: items start in any order, none starts once one
has failed, one of the errors is kept. **ChunkReadSpec** is decompressing all
chunks in one step, which ParallelRead implements (`ReadsInOrder`).

**Codec**, **Datatypes**, **Messages**, **Values** and **TypedData** go from a
builder's calls to bytes and back. Codec has the fields of structures,
Datatypes and Messages each message with its parser, this library's serializer,
and the form other writers give it; Values is the conversion of bytes to what
`read_f64`, `read_string` and their like return, and of attributes to
`AttrValue`. TypedData is one dataset: builder calls in any order, or a foreign
file; `Write`; perhaps a cut through one message or the file; and one read.

**FileLayout** is `FileWriter::finish`: `Measure` (pass 1), `PlaceHeader` and
`PlaceData` (pass 2), then `EmitSuperblock`, `EmitHeader`, `EmitData`, with every
length computed as in the code. The reader is a set of operators over the
finished file (`Resolve`, `AttributesAt`, `Reads`). The data of a dataset is a
run of bytes here; the inside of a chunked one is ChunkedDataset, its messages
are in TypedData. **MetadataIndex** puts creators before it: `AddDataset` and
`FinishBlock` of each, interleaved in any way, `MergeBlocks`, and then FileLayout
writes the merged list.

**ObjectHeader** is `ObjectHeader::parse`, message by message: version 1 recurses
into a continuation block, version 2 puts it on a stack; both are one sequence
of frames. **FractalHeap** is the doubling table as pure operators.
**GroupLookup** extends ObjectHeader and instantiates FractalHeap: requests to a
LazyFile and its group handles, walks and listings over the three kinds of
groups, and the header cache. **Attributes** extends it with `attrs()`: the
attributes of the header, those that live in another header, which is parsed
anew, and those an attribute info message leaves in a heap; and with the table
of shared messages. A file is a constant record of structures by address, with
its truth beside it (the blocks of each header, members of each group, what is a dataset, which structures
make up an object, which headers the reader refuses, attributes, what the table
shares); the structure at `lost` is damaged. Names, links and records are values.

**Storage** is one file on disk, written block by block, by a process that may
die or find the disk full. **Sessions** puts Python's `File` before it: sessions
for writing one after the other, each with its calls and group handles, `Close`,
which takes the state, builds and writes; and a reader in another process that
maps the file or loads it. What was called is kept in `journal`, and a reader's
answers are compared with a replay of it. **FileIo** is `rustyhdf5-io` on the same
storage: a writer with a reader that loads meanwhile, `MmapReadWrite`, and
`PrefetchReader` with its ring.

**Hnsw** builds and searches the vector index; `Greedy`, `Expand` and `Visit` are
used by both. A neighbour list is a set: its order only decides between equal
distances, and here either may win. **HnswFile** is saving and loading it.

`*Proofs` hold the proofs of a module: **CachedReadProofs** (with ChunkCache and SweepRead),
**ChunkedDatasetProofs**, **HnswProofs**, **FileLayoutProofs** (with MetadataIndex),
**ParallelReadProofs** (with Filters), **StorageProofs** (FileIo and Sessions, both
on Storage) and **GroupLookupProofs** (GroupLookup on ObjectHeader, under Attributes);
**Induction** has lemmas they share. `MC*` give the constants values for TLC.
Types are stated in the inductive invariants of the proofs.

## 3. Runs

| run | question | result |
|---|---|---|
| `cached_read` | two threads on one cache too small for its dataset, damaged chunks and indexes, a `clear()`, hints: do limits, slots and LRU order survive, is every answer right, does every read end? | holds |
| `shared_cache` | one file with two chunked datasets, as `reader.rs` shares the cache | violated, finding |
| `sweep_read` | chunks in any order, hints, evictions, files of other writers, some damaged: are the elements right, do the detectors agree? | holds |
| `chunked_dataset` | up to three dimensions, filtered or not, three indexes: does everything lie apart, resolve, and read back? | holds |
| `long_extensible` | a resizable dataset of 37 chunks | violated, finding |
| `parallel_read` | three lanes, every pipeline, chunks that skip filters, a byte lost or changed | holds |
| `partial_mask` | a chunk that skipped one of two filters | violated, finding |
| `typed_data` | every class of types, builder calls in every order, files of other writers, messages cut short: is what was given read, and a cut noticed? | holds |
| `file_layout` | groups, datasets and attributes on both sides of the dense threshold, from one writer or from three creators at once | holds |
| `group_lookup` | every request for objects, attributes and shared messages on a file with every kind of group and header, whole or with one structure damaged | holds |
| `sessions` | two sessions and a reader of their file, a crash or a full disk at any block; loading, mapping and reading ahead | holds |
| `hnsw` | building, searching, saving and loading small indexes, with ties, duplicates and overflowing lists | holds |

Bounds, and why they are enough.

- `cached_read`: two threads and three calls in all (`MaxCalls`), each a read, a
  `clear()`, or a hint or aligned look-up of another user of the cache: enough for a
  read to find the index built, half-built by the other, a chunk just evicted or just
  inserted by the other, or the cache cleared between any two of its steps. Chunks of
  one, two and four bytes under a budget of three (one fits alone, two do not fit
  together, one never fits), with no slot or two. Four datasets: whole, with a
  damaged chunk, with a damaged index, and with a missing chunk. `CounterLimit` only
  cuts behaviours short.
- `sweep_read`: no to three dimensions, two reads, so that the second meets a
  history and a cache; a budget of five bytes holds two chunks of a line and one
  of a plane. Files with a tree of two levels, a hole, a lost leaf, a chunk cut
  short, an implicit index with partial chunks at both edges, single chunks masked
  or not. A window of four fits the longest sweep and is overrun by two reads.
- `chunked_dataset`: every line of 0 to 5 elements with chunks of 1 to 3, planes
  and solids with chunks sticking out in some dimensions, the empty shape;
  extensible arrays of 4, 20, 21 and 36 chunks, at the edges of the index
  block's elements and of the first data block; compressed chunks of 1 and of 300
  bytes, the latter wider than the raw size's field; an aligned and an unaligned base.
- `parallel_read`: three lanes on up to five chunks with a threshold of four, so
  that shares are uneven and both paths run; the hash spreads as
  `fxhash_combine` does for three seeds, and to the extremes. `B` = 4 with
  `BlockWords` = 4 stands for 256 with 360: the longest block whose sums still
  fit the accumulator is 4 words for `B` = 4, as it is 360 for 256, so that an
  off-by-one shows, with the largest bytes, in the chunk `Large`. The second chunk
  of some datasets skips all filters, of others one of two; `RoundTrip` leaves the
  contents of the latter open and `partial_mask` shows what they are.
- `typed_data`: three calls of the builder (two before a cut): enough for data,
  shape and a second value for either, in every order, and for two attributes
  of one name. Every class of types, each version of the messages and of the
  superblock, fields of two, four and eight bytes, numbers on both sides of a
  byte, of two bytes and of a sign. Cuts fall at the beginning, inside and just
  before the end of the messages of these sizes.
- `file_layout`: 0, 8, 9 and 30 attributes around the threshold of 8; names
  of 1, 200 and 300 bytes for both widths of the name's length; empty, missing
  and present data; objects of one name; headers over 255 and over 65535 bytes.
  Three creators with up to two datasets each, empty blocks among them, names in
  and out of order, and one name twice: in one block, in neighbouring blocks, and
  with other names between.
- `group_lookup`: the code's limits of 33 nested blocks and 256 continuations are
  3 and 3, and headers exist at each limit and in circles. One structure at most
  is damaged: any in turn, one of those that are read in the same way
  (`MCDamages`). Two requests, so that the second meets what the first left in
  the cache. Trees have depth up to two and no circles. Attributes are in the
  header's blocks, in two other headers, one of which continues and refers on,
  and in a heap behind a tree of depth one; references also lead to headers
  without an attribute and into the table.
- `sessions`: two sessions of three calls together on a root and one group, whose
  name a dataset has too; an array of each shape that is treated apart, one of
  which `finish` panics on; a write broken off after every block. The programs of
  FileIo run alone (`IoIdle`): images of two and three blocks, mapped sizes around
  them, chunk sizes 1 and 2 over a file of five, so that the last chunk is short.
- `hnsw`: all ways to put up to four vectors on three places of a line; three
  directions and zero at cosine distance; indexes of six and eight vectors with
  `m` = 2, whose lists overflow on the last layer and above. Levels are those
  `assign_level` gives for `m` = 2. `EfConstruction` = 3. Every finished index is
  saved and loaded, whole and with its last row cut anywhere.

What `sessions` takes for granted. One process writes a path at a time: the
library takes no lock, and `close()` holds the interpreter while it writes. A
crash is of the process and not of the machine: `flush` calls no `fsync`, and
what a power loss leaves is the file system's. A mapping made before a file was
rewritten is not looked at, as the documentation of `MmapReader` demands.

Deadlock is checked in `hnsw` and `parallel_read`, whose programs can always go
on. Elsewhere the program may stop: the file is written, the bounds are
reached, or the only thread has panicked.

Fairness. `ReadsEnd` assumes `WF(Read(t))` for each thread: a thread inside a
read runs Rust code that waits for nothing but the Mutex, and every holder
releases it. Nobody is obliged to begin a read or to clear. `Terminates` (hnsw)
and `AnswersCome` (group_lookup) assume `WF` of the steps of a call: it is one call of
sequential code; nobody is obliged to make another. ParallelRead has no liveness
property: that rayon finishes is rayon's.

## 4. Proofs

All proofs are for every value of the constants, from the named assumptions of
the module that declares them, which TLC also evaluates.

**CachedReadProofs**, the cache: `WithinLimits`, `OneSlotPerCoord`, `OnlyZeroSlotsPoison` and
the action property `EvictsLeastRecent` follow from one inductive invariant:
types, `ByteAccounting`, the limits, one slot per coordinate, and ages that are
distinct and at most `tick`. Whatever threads and other callers do is a behaviour of
the cache (`ReadersUseCache`), so that all four hold for CachedRead too
(`ReadersKeepLimits`). `ByteAccounting` is needed because the loop
compares `current_bytes` and not the sum of the slots; distinct ages because
only they give the loop one victim at a time. ByteCount is the number of bytes
held (a set of pairs), so that finite-set theorems apply.

**CachedReadProofs**, the readers: for any number of threads, chunks and `clear()`s, any
limits of the cache and any index, if the cache serves one dataset (`OneDataset`; the
finding `shared_cache` is what happens when it does not). `CacheIsCoherent`,
`AnswersAreRight`, and the refinement `ReadsAreIndependent` follow from one
inductive invariant, `ReadInv`. It says of the cache that every slot holds what
decompressing its chunk yields and that an index, if there is one, is the
dataset's; and of each reader in the middle of a read that its buffer holds
every chunk but those it still has to copy (`Filling`), or that it listed
nothing after a `clear()` and has a blank buffer (`FoundNone`). The two never
mix, because a reader lists the index once. An entry and its coordinate name
each other (`EntryLemma`), though the index may have listed a coordinate twice;
this is what lets a buffer be filled entry by entry.

**CachedReadProofs**, sweep reads: `SweepReadsBack` for all files and datasets,
every cache, window and order of the chunks. `SweepInv` says of the cache that its
index is the dataset's and that each slot holds what decompressing its chunk
yields, whatever was evicted or hinted, and of the buffer that every position
holds the element of the chunk that covers it, if that chunk was copied, and
zero otherwise (`FilledBut`). Reading without a cache copies the same chunks in the
order of the index (`CopiedInOrder`), and ends with the same buffer.
`ContentsAssumption` says what the contents of a dataset are (`InPlace`) and that no two
of its chunks cover one position (`Apart`), which every writer of HDF5 keeps to;
TLC compares it with contents written out by hand. `DetectorsAgree` and
`PredictsTheSweep`: `WatchInv` adds that a context and a detector are what their
histories make them, of coordinates whose last has the rank of the dataset. The
two definitions of the fastest dimension and of a verdict are then shown equal
for any history of one rank (`FastestLemma`, `SameVerdict`); that a window of equal steps
is recognised needs that the sum of its steps is the way from its first coordinate
to its last (`MovedLemma`), so that dividing by their number is exact
(`SweepRecognised`), and that the predictions end at the first negative one
(`AheadLemma`).

**ChunkedDatasetProofs**: `ExtentsApart` and `PointersResolve`, for every shape,
chunk size, alignment and sizes of compressed chunks. The inductive invariant
says that the blocks fill the buffer without overlap and in order, that every
pointer is to a block of the right kind that is there, or that will be put at
exactly that address, and that while data blocks are placed `cursor` is the end
of the buffer. That last part is the `debug_assert` of `chunked_write.rs`; without
it the pointers of the index block, written before the data blocks, could not
be shown to resolve.
`AlwaysReadsBack` is the way there and back, for any number of dimensions. `ReadInv`
says that every chunk is in the file as it was split off (`ChunksInv`), that the
index names all of them in order (`SingleInv`, `FixedInv`, `ExtensibleInv`, true for
the data blocks placed so far), and that while the reader copies, the first chunks
are in the output and the rest is listed (`CopyInv`). The end needs that every
element is in some chunk (`SomewhereHeld`): coordinates are digits of a number in a
mixed radix (`Digits`, `Coordinates`), which splitting into a chunk's number and a
place in it only regroups (`InSomeChunk`). `Readable` is the hypothesis: a fixed array has at
most one page, an extensible array no chunk beyond the reader's second data block,
and a compressed length fits its field. The first two are what sections 5 and 6 say
does not work, so that nothing is left out that could be shown; `ChunksBeforeAre` and
`FirstOfIs` are why the two formulas for data blocks agree up to there. TLC
checks that every dataset of the run is `Readable`.

**HnswProofs** (with HnswFile): `Layered`, `Degrees` and `EntryOnTop` for all vectors, distances,
levels and widths. The inductive invariant (`Types`, `Top`, `Walk`, `Links`) says
that whatever a walk looks at is an inserted node of its layer. This needs that
the entry point is on the top layer, that links stay inside a layer and that a
search of a layer begins at a node that was found on the one above, in the middle
of an insertion included. The limit of a list needs pruning to count what it keeps.
`ExactWhenWide` needs `WideInv`: a search whose `ef` is the size of the index drops
nothing it sees, so its results are all it has visited, and what was expanded has
every neighbour visited. When nothing is left to do the results are closed under
links; `Reachable` is the last of a chain of sets that grows at most as often as
there are nodes (`ReachableIs`), hence closed too, and the two are equal.
`SavedReadsBack` (of HnswFile) is about every finished index and every end of its last
row. `Ends` are the sums of the lengths of a row's lists; the flattened row is cut at
them (`RowIs`, `PartIs`), and the reader, whose recursion runs from the first node
to the last, is followed from the last to the first (`ListRead`, `CutRow`).

**FileLayoutProofs**: for every well-formed file that `FileWriter` can hold, and
every plan of creators. `LayoutIsRight` and `CreatedAddressesHold` say that pass 2
puts headers, attribute heaps and data where pass 1 said (`AddressesHold`). The
invariant `IInv` relates the passes step by step: `Progress` (which objects are
measured, placed, emitted), `AsMeasured` (what was measured is the length of what
pass 2 builds, although the header is built again with other addresses),
`InARow` (blocks follow each other and `cursor` is behind them), `Appended`
(the buffer holds what was emitted, each at its address). `CreateInv` puts before
it the creators, whose blocks are handed over in any order, and a file that is
either one given to the writer or the plan's, sorted by name.
`WrittenReadsBack` and `AlwaysCreatedTogether` have one hypothesis, `MessagesFit`:
no message is longer than its length of two bytes can say. The code does not
check this (section 6), and beyond it the statement is false. That the offsets
of a heap fit its identifiers' 40 bits (`FitsHeap`) is an assumption on the files.

**ParallelReadProofs**: for every dataset, pipeline, element size, number of lanes
and spread of the hash. `FileInv` says that at most one stored chunk is not what was
written, and that this one is too short or differs in one byte; `ReadInv` that
the lanes' shares list each chunk once, that every lane has exactly the first
chunks of its share, and that an answer is all contents in order or the error
of a chunk that fails. `RoundTrips` then needs that every filter undoes
itself; `ChecksumsAreExact` that the accumulators, reduced only once a block, never
exceed their word (`BlockAssumption`, which says that for `B` and `BlockWords`;
360 is the largest value it allows for 256); `DamageNoticed` that a changed
byte changes one word by less than the modulus and hence the first sum, that
shuffle moves a change without making it two, and that zlib and fletcher32
notice a change and a missing byte. `LanesReadInOrder` is the refinement: sorting
the lanes' pieces by chunk gives the sequence the abstract step gives.
Masks may name any filters: `AllOrNone` is the condition of `RoundTrip` on the chunk
it speaks of and not on the others, since reading a chunk with another mask is no error
either (`IntactContent`).

**StorageProofs**: the three programs of `rustyhdf5-io`, for all images, ranges and
sizes. `IoInv` has one part for each, since they run one at a time. `WriterInv`: what
is on disk followed by what is pending is what was given; what a reader has
begins what is on disk unless the file was begun anew since; if nothing was
written meanwhile, the reader's length is the file's. `MappingInv`: the mapped file
is the replay of its log of calls. `RingInv`: every slot of the ring is a piece of
the file at its offset. `IoAssumption` gives the ring at least one slot: with
none `insert` indexes an empty vector.

For the sessions of Python, `SessionsReplayed` and `CutIsNoticed` hold for any number
of sessions and calls. `SessionInv` is inductive through `Matches(state, calls)`: the
datasets, and the groups, are the calls that created them before `close()`, in
order (`Lists`, an enumeration of the calls' places that rises), and attributes
have distinct names and the value assigned last. Each call extends both sides
(`DatasetCall`, `GroupCall`, `InnerCall`, `AttrCall`) and one after `close()` changes
neither (`LateCall`). The file is a beginning of the image of a state that
matches its writer's calls (`OnFile`), which may not be the state the session has
now, since group handles go on changing that; and so is what a handle has read.
The other half, `AnswersAsTold`, is about one image: `ImageAt` puts every header
and block at the address its links use, however many groups and datasets there
are; following a path in a beginning of it ends at the object the calls say, at
nothing because they say so, or behind the end (`Resolves`, `RootIsTold`,
`MemberIsTold`), and the first link of a name is the first call of it because
`Lists` rises (`FirstListed`). That an array has as many elements as its shape says
(`SessionAssumption`) is NumPy's.

**GroupLookupProofs**: `CacheIsTrue`, for every file, every damage, any limits of the
parser and any number of requests, those for attributes included. What is to be
shown is that a cached header is every message of every block of its object, each
once, and neither damaged nor one that should have been refused. Which blocks make up
a header is not computed: the file says it (`File.blocks`), and `HeadersAssumption`
says what that means: the blocks contain the first one, and no smaller set does that is
closed under continuation; a header that is not refused names no block
twice and has no message twice; one that is refused has a message that must be
understood, or continuations beyond the limit, nested or in number. A parser knows
nothing of this set. `Story` therefore follows it with three sets no variable holds:
the blocks it knows, those it has begun, the messages it has dealt with. Whatever
is known but not dealt with still comes, in a frame (`Pending`); whatever was dealt
with has left its mark (`Told`); whatever was kept was dealt with (`Sourced`), and
nothing twice (`Once`). When the last frame ends (`HeaderDone`), the blocks begun
are closed under continuation, hence all. That a header deeper than the limits never
gets there is `Pursued`: on every chain of continuations some frame is still
before the next one of them, and as deep, so that the chain ends before
the parser does. `LookupInv` carries this through the actions of GroupLookup and
Attributes: a header read for a handle is one of an object, since links lead to
objects or to nothing (`LinksAssumption`), and only such headers are cached.

**Induction** has the lemmas the others rest on. The library's induction theorems take
an operator, which the provers installed cannot be given. Here induction is over
a set of numbers (`RangeInduction`: a set that holds 0 and, with every number below
n, the next, holds all up to n), and a recursive function is shown to exist
from its step as a function (`FoldExists`). Both are first-order, so that what is
computed over sequences can be proved if it is written as a function
(`f[i \in 0 .. n] == ...`) and not as a RECURSIVE operator.

Only model-checked, and why:

- Liveness (`ReadsEnd`, `Terminates`, `AnswersCome`) and `ENABLED`: out of TLAPS's reach.
- TypedData, which rests on RECURSIVE operators (nested types), in whose modules the
  SMT backend does not work.
- `AnswersAreTrue`, `ErrorsAreEarned` and `ContentsAreTrue` of GroupLookup and
  Attributes: not proved. They compare an answer with the truth of the file (its
  members, its parts), and the constants relate the two only through the instance
  TLC is given: for every file one has to assume that each index lists the members of
  its group and that its levels decrease, and prove that a walk of the index meets
  them in order, which `SymbolNodes`, `Records` and `LocateBlock` do by recursion
  over data (section 7). What is proved of both modules needs no such assumption.

## 5. Findings

- `shared_cache`: one cache serves every dataset of a file but is keyed by chunk
  coordinate only; the second dataset is answered from the first one's chunks.
- `partial_mask`: every reader of chunks takes a filter mask that names one filter of
  several for one that names all (`parallel_read.rs:80`; `chunked_read.rs:65`, `:596` and
  `:903`), where the comment on the mask says that the others were applied
  (`chunk_cache.rs:28`); the chunk is returned as stored, without an error.
- `long_extensible`: writer and reader of extensible arrays disagree on the sizes
  of data blocks from the second on; chunk 37 of a resizable dataset reads as zeros.

## 6. Seen in the code without a run

Chunks, indexes and heaps.

- Sizes and dimensions of chunks are cast to 32 bits (`chunked_write.rs:936`, `fixed_array.rs:154` and
  `:185`, `extensible_array.rs:138` and `:165`). The models keep them as they are, which
  is the same for chunks below 4 GiB.
- A fractal heap's rows are taken for indirect ones by the header's starting row
  and not by their block size (`fractal_heap.rs:352`); a heap with a second row of
  direct blocks cannot be read.
- A fixed array of more than 1024 chunks is written unpaged and refused by the
  reader (`fixed_array.rs:115`).
- Chunks are aligned relative to their buffer, whose own address is not
  (`chunked_write.rs:917`).
- The implicit index counts chunks by the current dimensions, where HDF5 does by
  the maximal ones.
- Child pointers of a version 2 B-tree of depth three or more are read with
  estimated widths (`btree_v2.rs:247`); B-trees of version 1 are followed without a
  limit or a check for circles (`btree_v1.rs:122`).
- `clear()` in the middle of a cached read makes the whole answer zeros; ReadSpec
  states it as allowed, since nothing promises more.
- `all_indexed_chunks` has a HashMap's order, so that the sweeps of a sweep read
  are seldom detected; a direction set once is not reset when the sweep is lost;
  predictions may lie beyond the dataset; the comments on `SweepDirection`
  contradict the code. A window of 0 panics, and so does `preload` with a count of 0.
- `EqualSize` lanes may exceed the ceiling of the mean; nothing states a bound.

Messages, types and values.

- Message lengths are cast to 16 bits (`object_header_writer.rs:67`): behind an
  attribute of 64 KiB a header does not parse. A dense attribute of that size is read
  short (`file_writer.rs:307`). With 65536 attributes a header counts them modulo 2^16.
- A filter pipeline that does not parse is taken for none (`reader.rs:459`), so that
  chunks are returned as they are stored. `typed_data` cuts this message too;
  `TruncationNoticed` names it as the one whose loss is not noticed, and says that a
  cut one never passes for other filters. A base address is parsed and ignored.
- `read_as_i32` and its like take unsigned numbers as signed and the reverse, accept
  floats and return their bits; `as i32` truncates. `read_as_slice` checks neither
  type nor byte order. Bit offset and precision are ignored; VAX order is read as
  little-endian; half floats are refused. Integers of more than eight bytes
  underflow a shift, and a member beyond the end of its compound panics.
- An index of a global heap is cut to 16 bits, and the size of a variable-length
  element is always taken to be 16. Data without a count is all that remains of a file.
- Attributes that cannot be decoded are left out of the map of values silently.
  An empty string comes back as an empty array, an array of one as a scalar, U64
  arrays as I64. Values given with `u8_based().value()` are stored in four bytes.
  Time, bit fields, opaque and reference types serialize to nothing.
- Compounds of version 2 are laid out differently from HDF5's. `finish` does not
  compare the length of the data with the shape.
- `attribute.rs` says that shared datatypes of attributes are resolved; the flags of
  versions 2 and 3 are ignored. Attributes in the table of shared messages always
  fail, as no reader passes a table. The fallbacks of shared messages return a
  message of another type.

Files, sessions, indexes.

- In Python a dataset whose header cannot be read is given as a group
  (`file.rs:121`); arrays without dimensions come back with one, lists of integers
  become floats; `in` takes an error on the way for a missing name (`file.rs:224`);
  a second `create_group` of a name hides the second's contents, a
  dataset of the root hides a group of its name; a chunk dimension of 0 panics in
  `finish`; calls through group handles after `close()` succeed and are lost.
- `read_all` of the asynchronous reader may combine an old length with a new file.
  A mapping of a file that is rewritten may show zeros or end the process.
- A node of the vector index can lose its last incoming link to later insertions; a
  search for all nodes then finds fewer. `ExactWhenWide` is therefore about what
  can be reached. A NaN distance counts as equal to any other when lists are
  pruned (`hnsw.rs:662`); entry point and neighbour numbers of a loaded index are not
  checked (`hnsw.rs:435`, `:487`); a layer's
  row that ends between two lists is filled up silently.
- `MetadataIndex::from_collective` looks for equal names among neighbours too, but
  without sorting; equal names apart pass. Nothing in the library calls it.

## 7. Plan

Done: every component of section 1 but those of section 8, and the proofs of
section 4. What would come next, in this order:

1. The other half of a parsed header: an error is one of a block of that header, or the
   one it is refused with. Then `ErrorsAreEarned` and `AnswersAreTrue`, for which a
   walk has to be followed through the index of each group.
2. Two writing processes on one path, should the library promise anything about it.

## 8. Not modelled

- Checksums of structures (lookup3, CRC): functions of bytes; a damaged structure
  fails its check in GroupLookup. Provenance: a SHA-256 stored as an attribute and
  compared on request.
- SIMD and GPU kernels: numeric code in floating point, without state the
  library depends on.
- netCDF-4 and the derive macros: names for what the reader returns, and code
  generation.
- HSDS: one HTTP request per call, nothing kept. Tokio wrappers of the reader
  run the same sequential code on another thread.
- Fuzz targets, benchmarks, scripts: harnesses around the library.
- Of modelled parts: huge and tiny heap objects (errors of the reader), filtered
  heap blocks, super blocks and pages of extensible arrays (the library does not
  write them), soft and external links (listed as no entry), the bits of floating
  point numbers, which error a parser returns.
