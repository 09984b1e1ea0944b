--------------------------- MODULE MCGroupLookup ---------------------------
(* A file for TLC with groups of every kind of storage, datasets whose        *)
(* headers continue, headers to be refused, and attributes of every kind.     *)
EXTENDS Attributes

Header(msgs) == [kind |-> "header", msgs |-> msgs]
Ohdr(msgs) == [kind |-> "OHDR", msgs |-> msgs]
Block1(msgs) == [kind |-> "block", msgs |-> msgs]
Ochk(msgs) == [kind |-> "OCHK", msgs |-> msgs]
Msg(t) == [type |-> t]
Numbered(t, n) == [type |-> t, number |-> n]
Cont(a) == [type |-> "Continuation", to |-> a]
Nil == Msg("Nil")
LinkMsg(n, a) == [type |-> "Link", name |-> n, to |-> a]
LinkInfo(h, t) == [type |-> "LinkInfo", heap |-> h, tree |-> t]
Unknown(must) == [type |-> "Unknown", mustUnderstand |-> must]
AttributeInfo(h, t) == [type |-> "AttributeInfo", heap |-> h, tree |-> t]
Refers(k, a) == [type |-> "Attribute", ref |-> [kind |-> k, to |-> a]]
Id(offset) == [type |-> 0, offset |-> offset, fits |-> TRUE]
Data == Msg("DataLayout")

Groups ==
  (* the root, version 2, compact, in two chunks *)
  (1 :> Ohdr(<<LinkInfo(None, None), LinkMsg("a", 10), Cont(2), LinkMsg("s", None)>>)) @@
  (2 :> Ochk(<<LinkMsg("b", 20), LinkMsg("c", 30)>>)) @@
  (* /a, version 1, with a symbol table of two levels *)
  (10 :> Header(<<Nil, Cont(11), Unknown(FALSE)>>)) @@
  (11 :> Block1(<<[type |-> "SymbolTable", tree |-> 12, heap |-> 13], Refers(3, 47)>>)) @@
  (12 :> [kind |-> "TREE", level |-> 1, children |-> <<14, 15>>]) @@
  (13 :> [kind |-> "HEAP", names |-> (8 :> "a") @@ (16 :> "b") @@ (24 :> "c")]) @@
  (14 :> [kind |-> "TREE", level |-> 0, children |-> <<16, 17>>]) @@
  (15 :> [kind |-> "TREE", level |-> 0, children |-> <<18>>]) @@
  (16 :> [kind |-> "SNOD", entries |-> <<[name |-> 8, to |-> 40]>>]) @@
  (17 :> [kind |-> "SNOD", entries |-> <<[name |-> 16, to |-> 41]>>]) @@
  (18 :> [kind |-> "SNOD", entries |-> <<[name |-> 24, to |-> 20]>>]) @@
  (* /b, dense, a tree of depth two and a heap of one row *)
  (20 :> Ohdr(<<LinkInfo(21, 22), Numbered("Attribute", 1), AttributeInfo(61, 62)>>)) @@
  (21 :> [kind |-> "FRHP", rows |-> 1, root |-> 23, width |-> 3, start |-> 8, startRow |-> 1]) @@
  (22 :> [kind |-> "BTHD", depth |-> 2, root |-> 26, inRoot |-> 1, total |-> 7]) @@
  (23 :> [kind |-> "FHIB", entries |-> <<24, None, 25>>]) @@
  (24 :> [kind |-> "FHDB", objects |-> (3 :> LinkMsg("a", 40)) @@ (5 :> LinkMsg("s", None)) @@ (7 :> LinkMsg("b", 30))]) @@
  (25 :> [kind |-> "FHDB", objects |-> (3 :> LinkMsg("c", 41)) @@ (4 :> LinkMsg("t", None)) @@ (5 :> LinkMsg("u", None)) @@ (6 :> LinkMsg("v", None))]) @@
  (26 :> [kind |-> "BTIN", records |-> <<Id(5)>>, children |-> <<[to |-> 27, records |-> 1], [to |-> 28, records |-> 1]>>]) @@
  (27 :> [kind |-> "BTIN", records |-> <<Id(3)>>, children |-> <<[to |-> 35, records |-> 1], [to |-> 36, records |-> 1]>>]) @@
  (28 :> [kind |-> "BTIN", records |-> <<Id(7)>>, children |-> <<[to |-> 37, records |-> 1], [to |-> 38, records |-> 1]>>]) @@
  (35 :> [kind |-> "BTLF", records |-> <<Id(21)>>]) @@
  (36 :> [kind |-> "BTLF", records |-> <<Id(20)>>]) @@
  (37 :> [kind |-> "BTLF", records |-> <<Id(19)>>]) @@
  (38 :> [kind |-> "BTLF", records |-> <<Id(22)>>]) @@
  (* /c, dense, a single leaf and a single block *)
  (30 :> Ohdr(<<LinkInfo(31, 32), Numbered("GroupInfo", 1), AttributeInfo(61, None)>>)) @@
  (31 :> [kind |-> "FRHP", rows |-> 0, root |-> 33, width |-> 3, start |-> 8, startRow |-> 1]) @@
  (32 :> [kind |-> "BTHD", depth |-> 0, root |-> 34, inRoot |-> 3, total |-> 3]) @@
  (33 :> [kind |-> "FHDB", objects |-> (3 :> LinkMsg("a", 42)) @@ (5 :> LinkMsg("b", 43)) @@ (6 :> LinkMsg("c", 44))]) @@
  (34 :> [kind |-> "BTLF", records |-> <<Id(3), Id(6), Id(5)>>])

Datasets ==
  (* nested as deep as version 1 allows, and branching; two attributes are *)
  (* in other headers *)
  (40 :> Header(<<Numbered("Attribute", 1), Cont(50), Cont(52), Data>>)) @@
  (50 :> Block1(<<Cont(51), Numbered("Attribute", 2)>>)) @@
  (51 :> Block1(<<Refers(3, 46)>>)) @@
  (52 :> Block1(<<Refers(1, 48), Msg("Cut"), Numbered("Attribute", 5)>>)) @@
  (* as many continuations as version 2 allows; an attribute is in the table *)
  (41 :> Ohdr(<<Nil, Cont(53), Numbered("Attribute", 1), Cont(54), Refers(2, None)>>)) @@
  (53 :> Ochk(<<Data>>)) @@
  (54 :> Ochk(<<Numbered("Attribute", 3), Cont(55)>>)) @@
  (55 :> Ochk(<<Cont(None), Numbered("Attribute", 4), Msg("Cut")>>)) @@
  (* circles, and a message that must be understood *)
  (42 :> Ohdr(<<Cont(56), Data>>)) @@
  (56 :> Ochk(<<Cont(56), Numbered("Attribute", 1)>>)) @@
  (43 :> Header(<<Data, Cont(57)>>)) @@
  (57 :> Block1(<<Numbered("Attribute", 1), Cont(57)>>)) @@
  (44 :> Ohdr(<<Data, Unknown(TRUE)>>)) @@
  (* the headers that share *)
  (46 :> Ohdr(<<Refers(3, 48), Numbered("Other", 1), Cont(49)>>)) @@
  (49 :> Ochk(<<Numbered("Attribute", 3)>>)) @@
  (48 :> Header(<<Numbered("Attribute", 4)>>)) @@
  (47 :> Ohdr(<<Data>>))

Attached ==
  (* the attributes of /b in a heap, indexed by a tree of depth one *)
  (61 :> [kind |-> "FRHP", rows |-> 1, root |-> 63, width |-> 2, start |-> 8, startRow |-> 1]) @@
  (62 :> [kind |-> "BTHD", depth |-> 1, root |-> 66, inRoot |-> 1, total |-> 3]) @@
  (63 :> [kind |-> "FHIB", entries |-> <<64, 65>>]) @@
  (64 :> [kind |-> "FHDB", objects |-> (3 :> Numbered("Attribute", 2)) @@ (5 :> Numbered("Attribute", 3))]) @@
  (65 :> [kind |-> "FHDB", objects |-> (3 :> Numbered("Attribute", 4))]) @@
  (66 :> [kind |-> "BTIN", records |-> <<Id(11)>>, children |-> <<[to |-> 67, records |-> 1], [to |-> 68, records |-> 1]>>]) @@
  (67 :> [kind |-> "BTLF", records |-> <<Id(5)>>]) @@
  (68 :> [kind |-> "BTLF", records |-> <<Id(3)>>]) @@
  (* the table of shared messages: one index with a list, one with a tree *)
  (70 :> [kind |-> "SMTB",
          indexes |-> <<[types |-> {"Datatype"}, heap |-> 61, list |-> 71, tree |-> None, messages |-> 2],
                        [types |-> {"Datatype", "Fill"}, heap |-> 61, list |-> None, tree |-> 62, messages |-> 3],
                        [types |-> {"Filter"}, heap |-> None, list |-> None, tree |-> 62, messages |-> 3]>>]) @@
  (71 :> [kind |-> "SMLI", entries |-> <<Id(3), Id(5), Id(11)>>])

HeapParts == {61, 63, 64, 65}
SharedMessage(t, i, n, parts) == [type |-> t, id |-> Id(i), number |-> n, parts |-> parts]

Tree == [at       |-> Groups @@ Datasets @@ Attached,
         members  |-> (1 :> [a |-> 10, b |-> 20, c |-> 30]) @@ (10 :> [a |-> 40, b |-> 41, c |-> 20])
                        @@ (20 :> [a |-> 40, b |-> 30, c |-> 41]) @@ (30 :> [a |-> 42, b |-> 43, c |-> 44]),
         datasets |-> 40 .. 44,
         blocks   |-> (1 :> {1, 2}) @@ (10 :> {10, 11}) @@ (20 :> {20}) @@ (30 :> {30}) @@ (40 :> {40, 50, 51, 52})
                        @@ (41 :> {41, 53, 54, 55}) @@ (42 :> {42, 56}) @@ (43 :> {43, 57}) @@ (44 :> {44}),
         parts    |-> (1 :> {1, 2}) @@ (10 :> 10 .. 18) @@ (20 :> 20 .. 28 \cup 35 .. 38) @@ (30 :> 30 .. 34)
                        @@ (40 :> {40, 50, 51, 52}) @@ (41 :> {41, 53, 54, 55}) @@ (42 :> {42, 56})
                        @@ (43 :> {43, 57}) @@ (44 :> {44}),
         refused  |-> (42 :> "too deep") @@ (43 :> "too deep") @@ (44 :> "unsupported"),
         attributes |-> (1 :> {}) @@ (10 :> {}) @@ (20 :> 1 .. 4) @@ (30 :> {}) @@ (40 :> 1 .. 4) @@ (41 :> 1 .. 4)
                          @@ (42 :> {1}) @@ (43 :> {1}) @@ (44 :> {}),
         attributeParts |-> (1 :> {}) @@ (10 :> {47}) @@ (20 :> HeapParts \cup {62, 66, 67, 68}) @@ (30 :> {61})
                              @@ (40 :> {46, 48, 49}) @@ [a \in 41 .. 44 |-> {}],
         unresolved |-> (10 :> "damaged") @@ (30 :> "damaged") @@ (41 :> "unsupported"),
         table   |-> 70,
         indexes |-> 2,
         shared  |-> {SharedMessage("Datatype", 5, 3, {70} \cup HeapParts), SharedMessage("Fill", 11, 4, {70} \cup HeapParts),
                      SharedMessage("Filter", 5, None, {70}), SharedMessage("Link", 5, None, {70})},
         listed  |-> <<[ids |-> {Id(3), Id(5)}, parts |-> {70, 71}],
                       [ids |-> {Id(3), Id(5), Id(11)}, parts |-> {70, 62, 66, 67, 68}]>>]

(* Of the parts of one structure that are read in the same way, one may be damaged. *)
MCDamages == DOMAIN Tree.at \ {15, 17, 25, 27, 36, 37, 38, 44, 49, 50, 51, 53, 54, 57, 65, 68}

MCPaths == {<< >>, <<"a">>, <<"b">>, <<"s">>, <<"b", "b">>, <<"a", "c", "c">>, <<"a", "a", "a">>}
=============================================================================
