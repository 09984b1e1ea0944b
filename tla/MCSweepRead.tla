----------------------------- MODULE MCSweepRead -----------------------------
(* SweepRead on datasets of no to three dimensions, in files as other writers *)
(* leave them: trees of one and two levels, implicit indexes, single chunks,  *)
(* and some that are damaged.                                                 *)
EXTENDS SweepRead

Layout(version, idx, chunk, address) ==
  [version |-> version, index |-> idx, chunk |-> chunk, address |-> address,
   filteredSize |-> 0, filterMask |-> 0]
Dataset(dims, layout, filtered) == [dims |-> dims, layout |-> layout, elemSize |-> 1, filtered |-> filtered]
Chunk(elements, packed) == [kind |-> "chunk", packed |-> packed, elements |-> elements, bytes |-> Len(elements)]
Leaf(entries) == [kind |-> "TREE", type |-> 1, level |-> 0, entries |-> entries]
Key(at, child, size, mask) == [key |-> [offsets |-> at \o <<0>>, size |-> size, mask |-> mask], child |-> child]
Node(children) ==
  [kind |-> "TREE", type |-> 1, level |-> 1,
   entries |-> [i \in DOMAIN children |-> Key(<<0>>, children[i], 0, 0)]]
Pad == 77
Counted(n) == [i \in 0 .. n - 1 |-> i + 1]

\* Seven elements in four chunks, filtered but for the third, in a tree.
LineFile ==
  [a \in {1, 2, 3, 10, 20, 30, 40} |->
     CASE a = 1 -> Node(<<2, 3>>)
       [] a = 2 -> Leaf(<<Key(<<0>>, 10, 2, 0), Key(<<2>>, 20, 2, 0)>>)
       [] a = 3 -> Leaf(<<Key(<<4>>, 30, 2, 1), Key(<<6>>, 40, 2, 0)>>)
       [] a = 10 -> Chunk(<<1, 2>>, TRUE)
       [] a = 20 -> Chunk(<<3, 4>>, TRUE)
       [] a = 30 -> Chunk(<<5, 6>>, FALSE)
       [] OTHER -> Chunk(<<7, Pad>>, TRUE)]
Line == Dataset(<<7>>, Layout(3, 0, <<2, 1>>, 1), TRUE)
\* The second chunk was never written.
HoleFile == [LineFile EXCEPT ![2] = Leaf(<<Key(<<0>>, 10, 2, 0)>>)]
LostLeaf == [LineFile EXCEPT ![3] = [@ EXCEPT !.type = 0]]
CutChunk == [LineFile EXCEPT ![40] = [@ EXCEPT !.bytes = 1]]

\* Elements 1 .. in chunks of the given shape, one behind the other.
Implicit(dims, chunk, base) == Dataset(dims, Layout(4, 2, chunk \o <<1>>, base), FALSE)
ImplicitFile(d) ==
  LET counts == [i \in DOMAIN d.dims |-> DivCeil(d.dims[i], ChunkDims(d)[i])]
      size == Product(ChunkDims(d))
      value(k, e) ==
        LET x == [i \in DOMAIN d.dims |->
                    RowMajor(k, counts)[i] * ChunkDims(d)[i] + RowMajor(e - 1, ChunkDims(d))[i]]
        IN IF \A i \in DOMAIN x : x[i] < d.dims[i] THEN FlatIndex(x, d.dims) + 1 ELSE Pad
  IN [a \in {d.layout.address + k * size : k \in 0 .. Product(counts) - 1} |->
        Chunk([e \in 1 .. size |-> value((a - d.layout.address) \div size, e)], FALSE)]
Plane == Implicit(<<3, 3>>, <<2, 2>>, 5)
Column == Implicit(<<3, 2>>, <<1, 2>>, 0)
Slice == Implicit(<<1, 3, 1>>, <<1, 1, 1>>, 8)
Scalar == Implicit(<<>>, <<>>, 4)
Empty == Implicit(<<0>>, <<2>>, 4)

Single(size, mask) ==
  [Dataset(<<2, 2>>, Layout(4, 1, <<2, 2, 1>>, 6), TRUE)
     EXCEPT !.layout = [@ EXCEPT !.filteredSize = size, !.filterMask = mask]]
SingleFile(packed) == [a \in {6} |-> [Chunk(<<1, 2, 3, 4>>, packed) EXCEPT !.bytes = 3]]
RawFile == [a \in {6} |-> Chunk(<<1, 2, 3, 4>>, FALSE)]

MCDatasetOf ==
  [line |-> Line, hole |-> Line, plane |-> Plane, column |-> Column, slice |-> Slice,
   scalar |-> Scalar, empty |-> Empty, single |-> Single(3, 0), masked |-> Single(4, 1),
   lost |-> Line, cut |-> Line,
   unknown |-> [Line EXCEPT !.layout = [@ EXCEPT !.version = 4, !.index = 5]],
   mismatch |-> [Line EXCEPT !.dims = <<7, 1>>],
   nowhere |-> [Line EXCEPT !.layout = [@ EXCEPT !.address = Undefined]]]
MCNames == DOMAIN MCDatasetOf
MCFileOf ==
  [n \in MCNames |->
     CASE n = "hole" -> HoleFile
       [] n = "lost" -> LostLeaf
       [] n = "cut" -> CutChunk
       [] n = "single" -> SingleFile(TRUE)
       [] n = "masked" -> RawFile
       [] n \in {"plane", "column", "slice", "scalar", "empty"} -> ImplicitFile(MCDatasetOf[n])
       [] OTHER -> LineFile]
MCContents ==
  [n \in MCNames |->
     CASE n \in {"lost", "cut", "unknown", "mismatch", "nowhere"} -> Unreadable
       [] n = "hole" -> [i \in 0 .. 6 |-> IF i \in {2, 3} THEN 0 ELSE i + 1]
       [] OTHER -> Counted(Product(MCDatasetOf[n].dims))]

MCListing ==
  {[chunks |-> CollectChunks(MCFileOf[n], MCDatasetOf[n]).chunks, rank |-> Rank(MCDatasetOf[n])] :
     n \in {m \in MCNames : CollectChunks(MCFileOf[m], MCDatasetOf[m]).ok}}
MCChunkInfo == UNION {{l.chunks[i] : i \in DOMAIN l.chunks} : l \in MCListing}
MCCoord == UNION {ListedCoords(l) : l \in MCListing}
MCData ==
  UNION {{MCFileOf[n][a].elements : a \in {b \in DOMAIN MCFileOf[n] : MCFileOf[n][b].kind = "chunk"}} : n \in MCNames}
MCSize == [d \in MCData |-> Len(d)]
==============================================================================
