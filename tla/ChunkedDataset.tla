---------------------------- MODULE ChunkedDataset ----------------------------
(***************************************************************************)
(* One chunked dataset, from the writer to the reader of this library.     *)
(* build_chunked_data_at_ext (chunked_write.rs) splits the data into       *)
(* chunks, places them in a buffer and puts a chunk index behind them;     *)
(* read_chunked_data (chunked_read.rs) lists the chunks through that index *)
(* and copies each to its place.  The two share no code: each computes     *)
(* coordinates, block sizes and addresses on its own.  An action is one    *)
(* iteration of a loop, or the straight-line code between two loops.       *)
(***************************************************************************)
EXTENDS Integers, Sequences, FiniteSets

CONSTANTS
  Datasets,     \* the datasets to write, see DatasetAssumption
  Bases,        \* addresses the file writer may give the buffer
  CacheLine,    \* CACHE_LINE_SIZE
  PageBits,     \* max_nelmts_bits of a fixed array: 10
  InlineElmts,  \* idx_blk_elmts of an extensible array: 4
  MinElmts,     \* min_dblk_nelmts: 16
  SuperMin,     \* super_blk_min_nelmts: 4
  IndexBits,    \* max_nelmts_bits of an extensible array: 32
  Undefined     \* the undefined address

VARIABLES
  ds,           \* the dataset
  base,         \* base_address: where the buffer will be in the file
  len,          \* data_buf.len()
  blocks,       \* blocks[a]: the chunk or index structure at address a
  written,      \* the chunks placed: Vec<WrittenChunk>
  dblk,         \* the data blocks placed: entries of dblk_sizes consumed
  cursor,       \* dblk_cursor: the address the next data block will have
  layout,       \* the data layout message
  phase,
  infos,        \* the ChunkInfos still to copy
  out           \* the output buffer, element by element

vars == <<ds, base, len, blocks, written, dblk, cursor, layout, phase, infos, out>>

\* stored: the lengths of the compressed chunks with even and with odd number.
ASSUME DatasetAssumption ==
  \A d \in Datasets :
    /\ d.shape \in Seq(Nat)
    /\ d.chunk \in Seq(Nat \ {0})
    /\ Len(d.chunk) = Len(d.shape)
    /\ d.elemSize \in Nat \ {0}
    /\ d.filtered \in BOOLEAN
    /\ d.unlimited \in BOOLEAN
    /\ d.stored \in [{0, 1} -> Nat \ {0}]
ASSUME BaseAssumption == Bases \subseteq Nat
ASSUME ParameterAssumption ==
  /\ CacheLine \in Nat \ {0}
  /\ {PageBits, InlineElmts, SuperMin, IndexBits} \subseteq Nat
  /\ MinElmts \in Nat \ {0}
ASSUME UndefinedAssumption ==
  /\ Undefined \notin Nat
  /\ Undefined \notin [address : Nat, size : Nat]
-------------------------------------------------------------------------------
(* Geometry: row-major arithmetic, the same for writer and reader.         *)

DivCeil(a, b) == (a + b - 1) \div b

Product(s) ==
  LET upTo[i \in 0 .. Len(s)] == IF i = 0 THEN 1 ELSE s[i] * upTo[i - 1]
  IN upTo[Len(s)]

Stride(s, d) == Product(SubSeq(s, d + 1, Len(s)))

Dims == DOMAIN ds.shape
GridOf(s) == [d \in DOMAIN s.shape |-> DivCeil(s.shape[d], s.chunk[d])]
ChunksPerDim == GridOf(ds)
TotalChunks(s) == Product(GridOf(s))
ChunkElements == Product(ds.chunk)
RawSize(s) == Product(s.chunk) * s.elemSize

\* Fault: the last dimension varies slowest.
OffsetsOfColumnMajor(i) ==
  [d \in Dims |->
     ((i \div Product(SubSeq(ChunksPerDim, 1, d - 1))) % ChunksPerDim[d]) * ds.chunk[d]]

\* The reader's coordinates of chunk number i (index_to_chunk_offsets).
OffsetsOf(i) ==
  [d \in Dims |-> ((i \div Stride(ChunksPerDim, d)) % ChunksPerDim[d]) * ds.chunk[d]]

\* The writer's (split_into_chunks): its own copy of the same loop.
SplitOffsets(i) ==
  [d \in Dims |-> ((i \div Stride(ChunksPerDim, d)) % ChunksPerDim[d]) * ds.chunk[d]]

\* Element e of the chunk at offsets, in coordinates of the dataset.
Global(offsets, e) ==
  [d \in Dims |-> offsets[d] + ((e \div Stride(ds.chunk, d)) % ds.chunk[d])]

Inside(x) == \A d \in Dims : x[d] < ds.shape[d]

FlatIndex(x) ==
  LET upTo[d \in 0 .. Len(ds.shape)] ==
        IF d = 0 THEN 0 ELSE x[d] * Stride(ds.shape, d) + upTo[d - 1]
  IN upTo[Len(ds.shape)]

\* Element i of the dataset is i + 1; 0 pads a chunk that sticks out of it.
Original == [i \in 0 .. Product(ds.shape) - 1 |-> i + 1]
Blank == [i \in DOMAIN Original |-> 0]

ChunkData(i) ==
  [e \in 0 .. ChunkElements - 1 |->
     LET x == Global(SplitOffsets(i), e)
     IN IF Inside(x) THEN Original[FlatIndex(x)] ELSE 0]

\* copy_chunk_to_output.
Copied(offsets, data) ==
  [i \in DOMAIN out |->
     LET at == {e \in DOMAIN data : /\ Inside(Global(offsets, e))
                                    /\ FlatIndex(Global(offsets, e)) = i}
     IN IF at = {} THEN out[i] ELSE data[CHOOSE e \in at : TRUE]]
-------------------------------------------------------------------------------
(* Sizes and contents of the structures, for 8-byte addresses and lengths. *)

\* Fault: rounds down.
AlignDown(n) == (n \div CacheLine) * CacheLine

\* align_to_cache_line
Align(n) == DivCeil(n, CacheLine) * CacheLine

Repeat(n, x) == [i \in 1 .. n |-> x]

\* 1 << n
Shl(n) == Product(Repeat(n, 2))

Log2(n) == CHOOSE k \in 0 .. n : Shl(k) <= n /\ n < Shl(k + 1)

\* Bytes of a compressed size in an index element.
SizeWidth(s) ==
  LET largest == IF TotalChunks(s) = 0 THEN 1 ELSE RawSize(s)
      width == 1 + (Log2(largest) + 8) \div 8
  IN IF width < 8 THEN width ELSE 8

ElementSize(s) == IF s.filtered THEN 8 + SizeWidth(s) + 4 ELSE 8

\* An index element: what is left of the chunk's size in SizeWidth bytes.
Element(c) ==
  [address |-> c.address,
   size |-> IF ds.filtered THEN c.size % Shl(8 * SizeWidth(ds)) ELSE c.size]

\* Chunks from .. from + n - 1 as elements, undefined past the last one.
Elements(from, n) ==
  [i \in 1 .. n |->
     IF from + i <= Len(written) THEN Element(written[from + i]) ELSE Undefined]

FixedHeaderSize == 28
ExtensibleHeaderSize == 72

\* dblk_sizes as the writer computes them: super block i, counted from 0, has
\* 2^(i / 2) data blocks of MinElmts * 2^ceil(i / 2) elements.
WriterSizes ==
  LET upTo[i \in 0 .. SuperMin] ==
        IF i = 0 THEN << >>
        ELSE upTo[i - 1] \o Repeat(Shl((i - 1) \div 2), MinElmts * Shl(i \div 2))
  IN upTo[SuperMin]

\* The chunks before data block number k + 1: chunk_idx.
ChunksBefore(k) ==
  LET upTo[i \in 0 .. k] == IF i = 0 THEN InlineElmts ELSE WriterSizes[i] + upTo[i - 1]
  IN upTo[k]

\* The reader's data blocks: level i has 2^i data blocks, of a size
\* that doubles after every level but the first.
ReaderSizes ==
  LET upTo[i \in 0 .. SuperMin] ==
        IF i = 0 THEN << >>
        ELSE upTo[i - 1] \o Repeat(Shl(i - 1), MinElmts * Shl(IF i = 1 THEN 0 ELSE i - 2))
  IN upTo[SuperMin]

SuperPointers == IndexBits - Log2(MinElmts) + 1 - SuperMin
Pointers == Len(WriterSizes) + SuperPointers

\* Fault: the checksum at the end of the index block is forgotten.
IndexBlockSizeShort ==
  14 + InlineElmts * ElementSize(ds) + Pointers * 8

\* aeib_size, computed before the index block is built.
IndexBlockSize ==
  14 + InlineElmts * ElementSize(ds) + Len(WriterSizes) * 8 + SuperPointers * 8 + 4

\* The bytes a structure takes up, from what is put into it.
BlockLen(b) ==
  CASE b.kind = "chunk" -> b.size
    [] b.kind = "FAHD" -> FixedHeaderSize
    [] b.kind = "FADB" -> 14 + Len(b.elements) * ElementSize(ds) + 4
    [] b.kind = "EAHD" -> ExtensibleHeaderSize
    [] b.kind = "EAIB" -> 14 + Len(b.elements) * ElementSize(ds) + Len(b.pointers) * 8 + 4
    [] b.kind = "EADB" -> 18 + Len(b.elements) * ElementSize(ds) + 4

\* The index block has a pointer for every data block the reader looks for.
ASSUME PointersAssumption ==
  /\ SuperPointers \in Nat
  /\ Len(ReaderSizes) <= Pointers

\* The blocks with b added at address a.
With(bs, a, b) == [x \in DOMAIN bs \cup {a} |-> IF x = a THEN b ELSE bs[x]]
-------------------------------------------------------------------------------
Init ==
  /\ ds \in Datasets
  /\ base \in Bases
  /\ len = 0
  /\ blocks = << >>
  /\ written = << >>
  /\ dblk = 0
  /\ cursor = 0
  /\ layout = [type |-> "none"]
  /\ phase = "chunks"
  /\ infos = << >>
  /\ out = << >>

ChunkAddress == base + Align(len)

\* One chunk: compressed, padded up to a cache line of the buffer, appended.
PlaceChunk ==
  /\ phase = "chunks"
  /\ Len(written) < TotalChunks(ds)
  /\ LET k == Len(written)
         size == IF ds.filtered THEN ds.stored[k % 2] ELSE RawSize(ds)
     IN /\ blocks' = With(blocks, base + Align(len),
                          [kind |-> "chunk", size |-> size, data |-> ChunkData(k)])
        /\ written' = Append(written, [address |-> ChunkAddress, size |-> size])
        /\ len' = Align(len) + size
  /\ UNCHANGED <<ds, base, dblk, cursor, layout, phase, infos, out>>

ChunksPlaced == phase = "chunks" /\ Len(written) = TotalChunks(ds)

PlaceSingle ==
  /\ ChunksPlaced
  /\ ~ds.unlimited
  /\ TotalChunks(ds) = 1
  /\ len' = Align(len)
  /\ layout' = [type |-> "single", address |-> written[1].address,
                size |-> written[1].size]
  /\ phase' = "written"
  /\ UNCHANGED <<ds, base, blocks, written, dblk, cursor, infos, out>>

\* build_fixed_array_at: a header and one data block.
PlaceFixed ==
  /\ ChunksPlaced
  /\ ~ds.unlimited
  /\ TotalChunks(ds) # 1
  /\ LET at == base + Align(len)
         header == [kind |-> "FAHD", bits |-> PageBits, count |-> TotalChunks(ds),
                    block |-> at + FixedHeaderSize]
         block == [kind |-> "FADB", elements |-> Elements(0, TotalChunks(ds))]
     IN /\ blocks' = With(With(blocks, at, header), at + BlockLen(header), block)
        /\ len' = Align(len) + BlockLen(header) + BlockLen(block)
        /\ layout' = [type |-> "fixed", address |-> at]
  /\ phase' = "written"
  /\ UNCHANGED <<ds, base, written, dblk, cursor, infos, out>>

\* build_extensible_array_at up to its data blocks; the pointers to them are
\* filled in as they are built.
PlaceExtensible ==
  /\ ChunksPlaced
  /\ ds.unlimited
  /\ LET at == base + Align(len)
         header == [kind |-> "EAHD", count |-> TotalChunks(ds),
                    block |-> at + ExtensibleHeaderSize]
         block == [kind |-> "EAIB", elements |-> Elements(0, InlineElmts),
                   pointers |-> [i \in 1 .. Pointers |-> Undefined]]
     IN /\ blocks' = With(With(blocks, at, header), at + BlockLen(header), block)
        /\ len' = Align(len) + BlockLen(header) + BlockLen(block)
        /\ cursor' = header.block + IndexBlockSize
        /\ layout' = [type |-> "extensible", address |-> at]
  /\ phase' = "data blocks"
  /\ UNCHANGED <<ds, base, written, dblk, infos, out>>

IndexBlock == layout.address + ExtensibleHeaderSize

DataBlocksLeft == dblk < Len(WriterSizes)

\* One entry of dblk_sizes: a data block, or an undefined address when no chunk
\* is left for it.
PlaceDataBlock ==
  /\ phase = "data blocks"
  /\ DataBlocksLeft
  /\ dblk' = dblk + 1
  /\ IF ChunksBefore(dblk) < TotalChunks(ds)
     THEN LET block == [kind |-> "EADB",
                        elements |-> Elements(ChunksBefore(dblk), WriterSizes[dblk + 1])]
          IN /\ blocks' = With([blocks EXCEPT ![IndexBlock].pointers[dblk + 1] = cursor],
                               base + len, block)
             /\ len' = len + BlockLen(block)
             /\ cursor' = cursor + BlockLen(block)
     ELSE UNCHANGED <<blocks, len, cursor>>
  /\ UNCHANGED <<ds, base, written, layout, phase, infos, out>>

FinishExtensible ==
  /\ phase = "data blocks"
  /\ dblk = Len(WriterSizes)
  /\ phase' = "written"
  /\ UNCHANGED <<ds, base, len, blocks, written, dblk, cursor, layout, infos, out>>
-------------------------------------------------------------------------------
(* The reader.                                                             *)

IsAt(a, kind) == a \in DOMAIN blocks /\ blocks[a].kind = kind

Info(element, i) ==
  [address |-> element.address, size |-> element.size, offsets |-> OffsetsOf(i)]

\* The ChunkInfos of the defined elements among the first n, numbered from first.
ListElements(elements, n, first) ==
  LET upTo[i \in 0 .. n] ==
        IF i = 0 THEN << >>
        ELSE IF elements[i] = Undefined THEN upTo[i - 1]
        ELSE Append(upTo[i - 1], Info(elements[i], first + i - 1))
  IN upTo[n]

Listed(list) ==
  /\ phase' = "copying"
  /\ infos' = list
  /\ out' = Blank
  /\ UNCHANGED <<ds, base, len, blocks, written, dblk, cursor, layout>>

Fail ==
  /\ phase' = "failed"
  /\ UNCHANGED <<ds, base, len, blocks, written, dblk, cursor, layout, infos, out>>

\* collect_single_chunk_info
ListSingle ==
  /\ phase = "written"
  /\ layout.type = "single"
  /\ Listed(<<[address |-> layout.address,
               size |-> IF ds.filtered THEN layout.size ELSE RawSize(ds),
               offsets |-> [d \in Dims |-> 0]]>>)

\* FixedArrayHeader::parse and read_fixed_array_chunks
ListFixed ==
  /\ phase = "written"
  /\ layout.type = "fixed"
  /\ IF /\ IsAt(layout.address, "FAHD")
        /\ IsAt(blocks[layout.address].block, "FADB")
        /\ blocks[layout.address].count <= Shl(blocks[layout.address].bits)
     THEN LET header == blocks[layout.address]
          IN Listed(ListElements(blocks[header.block].elements, header.count, 0))
     ELSE Fail

\* Where the reader's data block number b begins, in chunks.
FirstOf(b) ==
  LET upTo[i \in 1 .. b] == IF i = 1 THEN InlineElmts ELSE ReaderSizes[i - 1] + upTo[i - 1]
  IN upTo[b]

\* The ChunkInfos of the first b data blocks the index block points to.
ListDataBlocks(block, total) ==
  LET upTo[b \in 0 .. Len(ReaderSizes)] ==
        IF b = 0 THEN ListElements(block.elements, InlineElmts, 0)
        ELSE upTo[b - 1] \o
             (IF block.pointers[b] = Undefined THEN << >>
              ELSE ListElements(blocks[block.pointers[b]].elements, ReaderSizes[b], FirstOf(b)))
  IN upTo[Len(ReaderSizes)]

\* ExtensibleArrayHeader::parse and read_extensible_array_chunks.  This writer
\* leaves the pointers to super blocks undefined, which the reader skips.
ListExtensible ==
  /\ phase = "written"
  /\ layout.type = "extensible"
  /\ IF IsAt(layout.address, "EAHD") /\ IsAt(blocks[layout.address].block, "EAIB")
     THEN LET header == blocks[layout.address]
              block == blocks[header.block]
          IN IF header.count <= InlineElmts
             THEN Listed(ListElements(block.elements, header.count, 0))
             ELSE IF \A b \in DOMAIN ReaderSizes :
                       block.pointers[b] # Undefined => IsAt(block.pointers[b], "EADB")
                  THEN Listed(ListDataBlocks(block, header.count))
                  ELSE Fail
     ELSE Fail

\* One chunk: its bytes in the file, decompressed, copied to the output.
CopyChunk ==
  /\ phase = "copying"
  /\ infos # << >>
  /\ LET info == Head(infos)
     IN IF IsAt(info.address, "chunk") /\ blocks[info.address].size = info.size
        THEN /\ out' = Copied(info.offsets, blocks[info.address].data)
             /\ infos' = Tail(infos)
             /\ UNCHANGED <<ds, base, len, blocks, written, dblk, cursor, layout, phase>>
        ELSE Fail

Return ==
  /\ phase = "copying"
  /\ infos = << >>
  /\ phase' = "done"
  /\ UNCHANGED <<ds, base, len, blocks, written, dblk, cursor, layout, infos, out>>

Next ==
  \/ PlaceChunk
  \/ PlaceSingle
  \/ PlaceFixed
  \/ PlaceExtensible
  \/ PlaceDataBlock
  \/ FinishExtensible
  \/ ListSingle
  \/ ListFixed
  \/ ListExtensible
  \/ CopyChunk
  \/ Return

Spec == Init /\ [][Next]_vars
-------------------------------------------------------------------------------
\* Chunks and index structures lie in the buffer and do not overlap: a chunk's
\* bytes are never those of another chunk or of the index.
ExtentsApart ==
  /\ \A a \in DOMAIN blocks : base <= a /\ a + BlockLen(blocks[a]) <= base + len
  /\ \A a, b \in DOMAIN blocks : a < b => a + BlockLen(blocks[a]) <= b

Defined(elements) == {elements[i] : i \in DOMAIN elements} \ {Undefined}

ElementsOf(b) == IF b.kind \in {"FADB", "EAIB", "EADB"} THEN Defined(b.elements) ELSE {}

\* Addresses are computed from sizes predicted before the structures are built;
\* each is the place where the structure it names was put.
PointersResolve ==
  /\ CASE layout.type = "none" -> TRUE
       [] layout.type = "single" -> IsAt(layout.address, "chunk")
       [] layout.type = "fixed" -> IsAt(layout.address, "FAHD")
       [] layout.type = "extensible" -> IsAt(layout.address, "EAHD")
  /\ \A a \in DOMAIN blocks :
       /\ blocks[a].kind = "FAHD" => IsAt(blocks[a].block, "FADB")
       /\ blocks[a].kind = "EAHD" => IsAt(blocks[a].block, "EAIB")
       /\ blocks[a].kind = "EAIB" =>
            \A p \in Defined(blocks[a].pointers) : IsAt(p, "EADB")
       /\ \A e \in ElementsOf(blocks[a]) : IsAt(e.address, "chunk")

\* Reading gives back what was written, every element in its place.
ReadsBack == phase # "failed" /\ (phase = "done" => out = Original)

\* What is known to read back.  A longer fixed array is refused (section 6 of
\* the README), in a longer extensible one writer and reader differ, and a size
\* that does not fit its field is stored modulo its width.
Readable(s) ==
  /\ ~s.unlimited => TotalChunks(s) <= Shl(PageBits)
  /\ s.unlimited => SuperMin >= 2 /\ TotalChunks(s) <= InlineElmts + 2 * MinElmts
  /\ s.filtered => \A p \in {0, 1} : s.stored[p] < Shl(8 * SizeWidth(s))
===============================================================================
