---------------------------- MODULE MetadataIndex ----------------------------
(***************************************************************************)
(* Datasets created by several threads for one file (metadata_index.rs,    *)
(* finalize_parallel of file_writer.rs).  Each creator fills a block of    *)
(* its own, without a lock; the blocks are merged into one list, sorted by *)
(* name, and written by FileWriter as its own datasets would be, which is  *)
(* FileLayout.  create_datasets_parallel hands the blocks over in the      *)
(* order of its specs; here they may come in any order, as they may from   *)
(* threads with an IndependentDatasetBuilder each.                         *)
(***************************************************************************)
EXTENDS FileLayout

CONSTANTS
  Plans,     \* Plans[c]: the datasets creator c is going to add
  NameRank   \* NameRank[n]: the place of name n in the order of strings

VARIABLES
  plan,      \* one of Plans, or << >> when FileWriter is used directly
  added,     \* added[c]: MetadataBlock::datasets of creator c
  handed     \* the creators whose blocks were handed over, in that order

createVars == <<plan, added, handed>>
allVars == <<vars, createVars>>

ASSUME PlanAssumption ==
  \A p \in Plans :
    /\ p \in Seq(Seq(FileObject))
    /\ \A c \in DOMAIN p : \A i \in DOMAIN p[c] :
         /\ p[c][i].kind = "dataset" /\ p[c][i].parent = 1
         /\ p[c][i].bytes \in Nat   \* raw_data is no Option
         /\ Len(p[c][i].attrs) > DenseThreshold => FitsHeap(p[c][i].attrs)
\* Strings have a total order, in which no two names are equal.
ASSUME RankAssumption ==
  /\ NameRank \in [DOMAIN NameLen -> Nat]
  /\ \A m, n \in DOMAIN NameLen : NameRank[m] = NameRank[n] => m = n
  /\ "root" \in DOMAIN NameLen

EmptyRoot == [kind |-> "group", name |-> "root", parent |-> 1, own |-> <<18>>, attrs |-> << >>, bytes |-> 0]

Creators == DOMAIN plan
NoFileYet == file = << >> /\ ~failed

CreateInit ==
  /\ Called
  /\ \/ file \in Files /\ plan = << >>
     \/ file = << >> /\ plan \in Plans
  /\ added = [c \in Creators |-> << >>]
  /\ handed = << >>

IsHanded(c) == \E i \in DOMAIN handed : handed[i] = c

AddDataset(c) ==
  /\ NoFileYet
  /\ ~IsHanded(c)
  /\ Len(added[c]) < Len(plan[c])
  /\ added' = [added EXCEPT ![c] = Append(@, plan[c][Len(@) + 1])]
  /\ UNCHANGED <<vars, plan, handed>>

FinishBlock(c) ==
  /\ NoFileYet
  /\ ~IsHanded(c)
  /\ added[c] = plan[c]
  /\ handed' = Append(handed, c)
  /\ UNCHANGED <<vars, plan, added>>

\* The datasets block by block, as the blocks were handed over.
Flattened ==
  LET upTo[i \in 0 .. Len(handed)] == IF i = 0 THEN << >> ELSE upTo[i - 1] \o added[handed[i]]
  IN upTo[Len(handed)]

\* sort_by is stable: equal names stay in their order.
Before(s, i, j) ==
  \/ NameRank[s[i].name] < NameRank[s[j].name]
  \/ NameRank[s[i].name] = NameRank[s[j].name] /\ i < j

ByName(s) ==
  [k \in DOMAIN s |-> s[CHOOSE i \in DOMAIN s : Cardinality({j \in DOMAIN s : Before(s, j, i)}) = k - 1]]

\* Fault: neighbours are compared before they are sorted.
HasDuplicatesUnsorted == LET s == Flattened IN \E k \in 2 .. Len(s) : s[k].name = s[k - 1].name

\* check_duplicates compares neighbours only.
HasDuplicates == LET s == ByName(Flattened) IN \E k \in 2 .. Len(s) : s[k].name = s[k - 1].name

\* merge_blocks, and the FileWriter that finalize_from_index makes of the index.
MergeBlocks ==
  /\ NoFileYet
  /\ \A c \in Creators : IsHanded(c)
  /\ IF HasDuplicates
     THEN failed' = TRUE /\ UNCHANGED file
     ELSE file' = <<EmptyRoot>> \o ByName(Flattened) /\ UNCHANGED failed
  /\ UNCHANGED <<sizes, cursor, addr, heap, data, len, blocks, emitted, createVars>>

Create == MergeBlocks \/ \E c \in Creators : AddDataset(c) \/ FinishBlock(c)

Write == file # << >> /\ Next /\ UNCHANGED createVars

CreateSpec == CreateInit /\ [][Create \/ Write]_allVars
-------------------------------------------------------------------------------
Planned == UNION {{<<c, i>> : i \in DOMAIN plan[c]} : c \in Creators}
Dataset(p) == plan[p[1]][p[2]]

\* Whichever creator was first, and in whatever order the blocks came in, the file
\* has every planned dataset once, found under its own name with its attributes
\* and its data, in the order of the names; and there is no file if and only if
\* two creators used the same name, or one used it twice.
CreatedTogether ==
  plan # << >> =>
    /\ failed => \E p, q \in Planned : p # q /\ Dataset(p).name = Dataset(q).name
    /\ file # << >> =>
         /\ Len(file) = 1 + Cardinality(Planned)
         /\ \A o \in 2 .. Len(file) - 1 : NameRank[file[o].name] < NameRank[file[o + 1].name]
         /\ Written => \A p \in Planned :
              \E o \in Datasets : file[o] = Dataset(p) /\ Reads(o, Resolve(<<Dataset(p).name>>))
===============================================================================
