----------------------------- MODULE ChunkIndexes -----------------------------
(***************************************************************************)
(* The chunk indexes that only other writers put into files: version 3's   *)
(* B-trees, single chunks with a mask, and the implicit index; and the     *)
(* choice among them (rustyhdf5-format/src/chunked_read.rs).  A file maps  *)
(* an address to what is stored there: a node of a B-tree or a chunk.  A   *)
(* dataset is a record of its dimensions, layout and pipeline.             *)
(***************************************************************************)
EXTENDS Integers, Sequences, SequencesExt

Failed == [ok |-> FALSE]
Found(chunks) == [ok |-> TRUE, chunks |-> chunks]

DivCeil(a, b) == (a + b - 1) \div b
Product(s) == FoldLeft(LAMBDA a, b : a * b, 1, s)
Stride(dims, d) == Product(SubSeq(dims, d + 1, Len(dims)))

\* Position i of an array in row-major order, and back.
RowMajor(i, dims) == [d \in DOMAIN dims |-> (i \div Stride(dims, d)) % dims[d]]
FlatIndex(x, dims) == FoldLeft(+, 0, [d \in DOMAIN dims |-> x[d] * Stride(dims, d)])

\* ChunkInfo
Entry(offsets, address, size, mask) ==
  [offsets |-> offsets, address |-> address, chunkSize |-> size, filterMask |-> mask]

Rank(ds) == Len(ds.layout.chunk) - 1
ChunkDims(ds) == SubSeq(ds.layout.chunk, 1, Rank(ds))
ChunkBytes(ds) == Product(ChunkDims(ds)) * ds.elemSize
-------------------------------------------------------------------------------
\* A node of a chunk B-tree that is all there.
IsChunkNode(file, a) ==
  /\ a \in DOMAIN file
  /\ file[a].kind = "TREE"
  /\ file[a].type = 1

LeafChunks(entries) ==
  [i \in DOMAIN entries |->
     LET e == entries[i] IN Entry(e.key.offsets, e.child, e.key.size, e.key.mask)]

\* collect_chunk_info, which calls itself for the children of a node.
CollectTree(file, a) ==
  LET Of(tree, x) == IF IsChunkNode(file, x) THEN tree[x] ELSE Failed
      tree[x \in {y \in DOMAIN file : IsChunkNode(file, y)}] ==
        LET entries == file[x].entries
            below == [i \in DOMAIN entries |-> Of(tree, entries[i].child)]
        IN IF file[x].level = 0 THEN Found(LeafChunks(entries))
           ELSE IF \A i \in DOMAIN below : below[i].ok
           THEN Found(FlattenSeq([i \in DOMAIN below |-> below[i].chunks]))
           ELSE Failed
  IN Of(tree, a)

\* The one chunk is as long as the layout says when it went through filters.
SingleChunk(ds) ==
  LET l == ds.layout
      at == [d \in 1 .. Rank(ds) |-> 0]
  IN IF l.filteredSize = 0
     THEN <<Entry(at, l.address, ChunkBytes(ds), 0)>>
     ELSE <<Entry(at, l.address, l.filteredSize, l.filterMask)>>

\* No index: chunks lie in row-major order behind the address.
ImplicitChunks(ds) ==
  LET counts == [d \in 1 .. Rank(ds) |-> DivCeil(ds.dims[d], ds.layout.chunk[d])]
  IN [i \in 1 .. Product(counts) |->
        Entry([d \in 1 .. Rank(ds) |-> RowMajor(i - 1, counts)[d] * ds.layout.chunk[d]],
              ds.layout.address + (i - 1) * ChunkBytes(ds), ChunkBytes(ds), 0)]

\* collect_chunk_info_all_types; the arrays of chunks are in ChunkedDataset.
CollectChunks(file, ds) ==
  CASE ds.layout.version = 3 -> CollectTree(file, ds.layout.address)
    [] ds.layout.version = 4 /\ ds.layout.index = 1 -> Found(SingleChunk(ds))
    [] ds.layout.version = 4 /\ ds.layout.index = 2 -> Found(ImplicitChunks(ds))
    [] OTHER -> Failed
-------------------------------------------------------------------------------
\* The elements of a chunk, or err when it is not all in the file or does not
\* go back through the pipeline; a filter mask stops the whole pipeline.
ChunkData(file, ds, info, err) ==
  IF \/ info.address \notin DOMAIN file
     \/ file[info.address].kind # "chunk"
     \/ info.chunkSize > file[info.address].bytes
  THEN err
  ELSE LET c == file[info.address] IN
       IF ds.filtered /\ info.filterMask = 0
       THEN IF c.packed THEN c.elements ELSE err
       ELSE IF c.packed THEN Reverse(c.elements) ELSE c.elements

\* Where in the dataset element e of the chunk at the offsets belongs.
PlaceOf(ds, offsets, e) ==
  [d \in DOMAIN ds.dims |-> offsets[d] + RowMajor(e - 1, ChunkDims(ds))[d]]

\* The elements of a chunk that belong at position i; those outside the dataset
\* belong nowhere.
Covering(ds, offsets, data, i) ==
  {e \in DOMAIN data :
     LET at == PlaceOf(ds, offsets, e)
     IN (\A d \in DOMAIN ds.dims : at[d] < ds.dims[d]) /\ FlatIndex(at, ds.dims) = i}

\* Fault: only the first dimension is clipped.
CopiedUnclipped(out, ds, offsets, data) ==
  LET ends == {e \in DOMAIN data : Len(ds.dims) > 0 => PlaceOf(ds, offsets, e)[1] < ds.dims[1]}
      to(e) == FlatIndex(PlaceOf(ds, offsets, e), ds.dims)
  IN [i \in DOMAIN out |->
        IF \E e \in ends : to(e) = i THEN data[CHOOSE e \in ends : to(e) = i] ELSE out[i]]

\* copy_chunk_to_output
CopiedInto(out, ds, offsets, data) ==
  [i \in DOMAIN out |->
     LET here == Covering(ds, offsets, data, i)
     IN IF here = {} THEN out[i] ELSE data[CHOOSE e \in here : TRUE]]
===============================================================================
