----------------------------- MODULE FractalHeap -----------------------------
(***************************************************************************)
(* How fractal_heap.rs finds an object of a fractal heap: offsets of the    *)
(* heap are laid out over a doubling table of blocks, whose first rows name *)
(* direct blocks and whose later rows name indirect blocks, tables of the   *)
(* same kind.  The heap's header is a record                                *)
(*   [rows, root, width, start, startRow]                                   *)
(* of rows in the root table (none when the root is a direct block), root   *)
(* address, table width, starting block size and the first row that the     *)
(* reader takes to name indirect blocks.  A table is the sequence of its    *)
(* entries, row by row; an entry nothing was put behind is Undefined.       *)
(***************************************************************************)
EXTENDS Naturals, Sequences

CONSTANT Undefined

\* block_size_for_row: the first two rows are of the starting size, then it doubles.
BlockSize(heap, row) == IF row <= 1 THEN heap.start ELSE heap.start * 2^(row - 1)

\* indirect_block_heap_size: what a table of so many rows spans.
HeapSize(heap, rows) ==
  LET size[n \in Nat] == IF n = 0 THEN 0 ELSE size[n-1] + heap.width * BlockSize(heap, n - 1)
  IN  size[rows]

\* The rows of the table behind an entry of an indirect row.
ChildRows(heap, row) == row - heap.startRow + 1

IsDirect(heap, row) == row < heap.startRow

\* The heap space one entry of a row stands for.
Span(heap, row) == IF IsDirect(heap, row) THEN BlockSize(heap, row)
                                          ELSE HeapSize(heap, ChildRows(heap, row))

\* Where the entry of a row and column begins, in a table that begins at base.
EntryStart(heap, base, row, col) ==
  LET before[n \in Nat] == IF n = 0 THEN base ELSE before[n-1] + heap.width * Span(heap, n - 1)
  IN  before[row] + col * Span(heap, row)

EntryOf(heap, table, row, col) == table[row * heap.width + col + 1]

\* The entries of a table that lead to an offset: there is at most one.
Leading(heap, table, rows, base, offset) ==
  {e \in (0 .. rows - 1) \X (0 .. heap.width - 1) :
     /\ EntryOf(heap, table, e[1], e[2]) # Undefined
     /\ LET start == EntryStart(heap, base, e[1], e[2])
        IN  start <= offset /\ offset < start + Span(heap, e[1])}

\* The depth at which the recursion of read_from_indirect_block gives up.
MaxDescent == 64

\* The direct block that holds an offset, and the place in it, or NoBlock if a
\* table is not where an entry says or no entry leads there.  tables[a] is the
\* indirect block at a, or NoTable.
NoBlock == [block |-> Undefined, place |-> 0]
NoTable == << >>

LocateBlock(heap, offset, tables) ==
  LET descend[d \in 0 .. MaxDescent, a \in Nat, rows \in Nat, base \in Nat] ==
        LET table == tables[a]
            ways  == IF d = 0 \/ table = NoTable THEN {} ELSE Leading(heap, table, rows, base, offset)
        IN  IF ways = {} THEN NoBlock
            ELSE LET e     == CHOOSE e \in ways : TRUE
                     child == EntryOf(heap, table, e[1], e[2])
                     start == EntryStart(heap, base, e[1], e[2])
                 IN  IF IsDirect(heap, e[1]) THEN [block |-> child, place |-> offset - start]
                     ELSE descend[d - 1, child, ChildRows(heap, e[1]), start]
  IN  IF heap.rows = 0 THEN [block |-> heap.root, place |-> offset]
      ELSE descend[MaxDescent, heap.root, heap.rows, 0]
=============================================================================
