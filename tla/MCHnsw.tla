------------------------------- MODULE MCHnsw -------------------------------
(* Small instances of Hnsw: points of a line at Euclidean distance, and      *)
(* directions at cosine distance.                                            *)
EXTENDS HnswFile

\* assign_level for m = 2; n + 1 is the number of the first element.
LevelOf2(n) == <<0, 0, 0, 3, 1, 1, 0, 1>>[n + 1]

Line == 0 .. 12
L2(a, b) == IF a >= b THEN a - b ELSE b - a

\* The zero vector and four directions, and the tenths of their cosine distance,
\* by which the zero vector is at distance one even from itself.
Zero == 20
Directions == {Zero, 21, 22, 23, 25}
Cosine(a, b) ==
  LET eighths == L2(a, b)
  IN IF Zero \in {a, b} THEN 10 ELSE <<0, 3, 10, 17, 20>>[eighths + 1]

\* An index has vectors of one kind; a query of the other is as far as can be.
MCPoints == Line \cup Directions
MCDistance(a, b) ==
  IF a \in Line /\ b \in Line THEN L2(a, b)
  ELSE IF a \in Directions /\ b \in Directions THEN Cosine(a, b) ELSE 20

Input(s) == [n \in 0 .. Len(s) - 1 |-> s[n + 1]]
\* All ways to place up to four vectors, ties and duplicates included; three
\* directions; six and eight vectors, whose neighbour lists get too long on the
\* last layer and on the first.
MCInputs ==
  UNION {[0 .. k - 1 -> 0 .. 2] : k \in 1 .. 4}
  \cup [0 .. 2 -> Directions]
  \cup {Input(s) : s \in {<<12, 0, 1, 3, 6, 8>>, <<0, 1, 3, 6, 10, 5, 2, 12>>,
                          <<0, 6, 3, 6, 10, 6, 2, 12>>, <<6, 2, 12, 0, 6, 3, 6, 10>>}}
MCRequests == [query : {0, 7, 21}, k : {1, 3}, ef : {0, 2, 8}]
===============================================================================
