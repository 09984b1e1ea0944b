----------------------------- MODULE MCFileLayout -----------------------------
(* FileLayout on files of up to two groups and four datasets, and on those  *)
(* that up to three creators make together.                                *)
EXTENDS MetadataIndex

MCNameLen == [root |-> 0, a |-> 1, b |-> 1, c |-> 200, d |-> 300]

Many(n, l) == [i \in 1 .. n |-> l]
Group(n, attrs) ==
  [kind |-> "group", name |-> n, parent |-> 1, own |-> <<18>>, attrs |-> attrs, bytes |-> 0]
Data(n, p, attrs, bytes) ==
  [kind |-> "dataset", name |-> n, parent |-> p, own |-> <<20, 12, 2, 18>>, attrs |-> attrs,
   bytes |-> bytes]
Root(attrs) == Group("root", attrs)

\* Numbers of attributes around the threshold of dense storage.
Some == {<< >>, Many(8, 40), Many(9, 40), Many(30, 40)}

MCFiles ==
  {<<Root(x)>> : x \in Some}
  \cup {<<Root(x), Data("a", 1, y, n)>> : x, y \in Some, n \in {0, 8, Missing}}
  \cup {<<Root(<< >>), Group("a", x), Group("c", y), Data("b", 1, << >>, 24),
          Data("c", 1, x, 0), Data("a", 2, y, 4000), Data("d", 3, << >>, 16)>> : x, y \in Some}
  \* Two datasets and a group of one name.
  \cup {<<Root(<< >>), Group("a", x), Data("a", 1, << >>, 8), Data("a", 1, x, 8), Data("b", 2, x, 8)>>
          : x \in Some}
  \* Messages that add up to more than 65535 bytes, none of them that long.
  \cup {<<Root(Many(8, 9000)), Data("a", 1, Many(9, 9000), 8)>>}

\* In the order of strings: a, b, c, d, root.
MCNameRank == [a |-> 1, b |-> 2, c |-> 3, d |-> 4, root |-> 5]

Few(n, attrs) == Data(n, 1, attrs, 8)
\* Names apart, in and out of order; empty blocks; the same name in two blocks,
\* next to each other and not, and twice in one block.
MCPlans ==
  {<<<<Few("b", << >>), Few("d", x)>>, <<Few("c", x)>>, <<Few("a", << >>)>>>> : x \in Some}
  \cup {<<<<Few(m, << >>), Few(n, << >>)>>, <<Few(k, << >>)>>, << >>>> : m, n, k \in {"a", "b", "c"}}
===============================================================================
