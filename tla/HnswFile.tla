------------------------------ MODULE HnswFile ------------------------------
(***************************************************************************)
(* Saving an HnswIndex to an HDF5 file and loading it (to_hdf5_bytes and   *)
(* load_from_hdf5 of rustyhdf5-ann/src/hnsw.rs): a dataset of all vectors, *)
(* one per layer with the counts and members of all neighbour lists in one *)
(* row, and the levels with the rest as their attributes.                  *)
(*                                                                         *)
(* A file is the contents of its datasets.  A row cut short, as in a file  *)
(* of another program, is told from a whole one only inside a list.        *)
(***************************************************************************)
EXTENDS Hnsw, SequencesExt

Size == Cardinality(Nodes)
InOrder(f(_)) == [n \in 1 .. Size |-> f(n - 1)]

\* Fault: a node without neighbours is not stored.
FlattenedOfLinked(lists) ==
  FlattenSeq([n \in DOMAIN lists |-> IF lists[n] = << >> THEN << >> ELSE <<Len(lists[n])>> \o lists[n]])

\* A row: for every node the number of its neighbours, and those.
Flattened(lists) == FlattenSeq([n \in DOMAIN lists |-> <<Len(lists[n])>> \o lists[n]])

\* to_hdf5_bytes
Saved == [vectors    |-> InOrder(LAMBDA n : vectors[n]),
          layers     |-> [l \in 1 .. Cardinality(DOMAIN graph) |->
                            Flattened(InOrder(LAMBDA n : SetToSeq(graph[l - 1][n])))],
          levels     |-> InOrder(Level),
          entryPoint |-> entry_point,
          count      |-> Size]

Truncated == [is |-> "truncated graph data"]
Cut == <<-1>>

\* The lists of a row from position p on; Cut for one that is cut short.
Lists(row) ==
  LET from[p \in 1 .. Len(row) + 1] ==
        IF p > Len(row) THEN << >>
        ELSE LET next == p + 1 + row[p]
             IN  IF next > Len(row) + 1 THEN <<Cut>>
                 ELSE <<SubSeq(row, p + 1, next - 1)>> \o from[next]
  IN  from[1]

\* Nodes behind the end of the row have no neighbours.
Padded(lists, n) == lists \o [x \in 1 .. n - Len(lists) |-> << >>]

\* load_from_hdf5
Loaded(file) ==
  LET rows == [l \in DOMAIN file.layers |-> Lists(file.layers[l])]
  IN  IF \/ Len(file.vectors) < file.count
         \/ \E l \in DOMAIN rows : Cut \in Range(rows[l])
      THEN Truncated
      ELSE [is |-> "index",
            vectors     |-> [n \in 0 .. file.count - 1 |-> file.vectors[n + 1]],
            graph       |-> [l \in 0 .. Len(rows) - 1 |->
                               LET lists == Padded(rows[l + 1], file.count)
                               IN  [n \in 0 .. Len(lists) - 1 |-> Range(lists[n + 1])]],
            entry_point |-> file.entryPoint,
            levels      |-> [n \in 0 .. Len(file.levels) - 1 |-> file.levels[n + 1]]]

\* A file whose last row is cut to its first p numbers.
CutTo(file, p) == [file EXCEPT !.layers[Len(file.layers)] = SubSeq(@, 1, p)]

\* An index comes back from its file with every link, whatever nodes are on a layer
\* and however many neighbours they have.  A row cut short is refused, or costs the
\* links of whole nodes at its end; no node is ever given links of another.
SavedReadsBack ==
  pc = "ready" =>
    LET whole == Loaded(Saved)
        top   == Len(Saved.layers) - 1
    IN  /\ whole = [is |-> "index", vectors |-> vectors, graph |-> graph, entry_point |-> entry_point,
                    levels |-> [n \in Nodes |-> Level(n)]]
        /\ \A p \in 0 .. Len(Saved.layers[top + 1]) :
             \A cut \in {Loaded(CutTo(Saved, p))} \ {Truncated} :
               \E n \in 0 .. Size : cut.graph[top] = [m \in Nodes |-> IF m < n THEN graph[top][m] ELSE {}]
=============================================================================
