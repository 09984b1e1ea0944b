--------------------------- MODULE MCChunkedDataset ---------------------------
EXTENDS ChunkedDataset, TLC

Plain(shape, chunk, unlimited) ==
  [shape |-> shape, chunk |-> chunk, elemSize |-> 2, filtered |-> FALSE,
   unlimited |-> unlimited, stored |-> (0 :> 1) @@ (1 :> 1)]

Filtered(d, even, odd) ==
  [d EXCEPT !.filtered = TRUE, !.stored = (0 :> even) @@ (1 :> odd)]

Lines == {Plain(<<n>>, <<c>>, u) : n \in 0 .. 5, c \in 1 .. 3, u \in BOOLEAN}

Planes ==
  {Plain(<<m, n>>, <<c, d>>, u) :
     m \in {1, 3}, n \in {2, 4}, c \in 1 .. 2, d \in {1, 3}, u \in BOOLEAN}

Solids == {Plain(<<2, 3, 2>>, <<2, 2, 1>>, FALSE), Plain(<< >>, << >>, FALSE)}

\* The longest extensible array that reads back.
Long == {Plain(<<n>>, <<1>>, TRUE) : n \in {4, 20, 21, 36}}

\* Compressed chunks shorter than the raw chunk, and so much longer that their
\* sizes need more bytes than the raw size.
Compressed == {Filtered(d, 1, 300) : d \in Lines \cup Long}

MCDatasets == Lines \cup Planes \cup Solids \cup Long \cup Compressed

\* The hypothesis under which ChunkedDatasetProofs proves ReadsBack.
ASSUME DatasetsReadable == \A d \in MCDatasets : Readable(d)

LongExtensible == {Plain(<<37>>, <<1>>, TRUE)}
===============================================================================
