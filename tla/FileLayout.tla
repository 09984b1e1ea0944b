------------------------------ MODULE FileLayout ------------------------------
(***************************************************************************)
(* FileWriter::finish (file_writer.rs).  Pass 1 measures every object      *)
(* header, built with dummy addresses; pass 2 hands out addresses in file  *)
(* order; then everything is built again with those addresses and          *)
(* appended to the buffer.  The file is right if what is appended ends up  *)
(* where pass 2 said it would.  Blocks of bytes are records; their lengths *)
(* are the code's.  The reader (resolve_path_any, extract_attributes_full) *)
(* is a set of operators over the finished file.                           *)
(***************************************************************************)
EXTENDS Integers, Sequences, FiniteSets

CONSTANTS
  Files,            \* the files to write, see FileAssumption
  NameLen,          \* NameLen[n]: the length of a name in bytes
  DenseThreshold,   \* DENSE_ATTR_THRESHOLD
  Undefined,        \* the undefined address
  Missing           \* Option::None: a dataset without data

VARIABLES
  file,       \* objects in file order: the root group, groups, datasets
  failed,     \* finish returned an error
  sizes,      \* pass 1: header sizes, object by object
  cursor,     \* pass 2: cursor2
  addr,       \* addr[o]: address of the header of object o
  heap,       \* heap[o]: address of its attribute heap, or Undefined
  data,       \* addresses of the datasets' data, in order
  len,        \* buf.len()
  blocks,     \* blocks[a]: what was appended at address a
  emitted     \* headers and data appended to buf so far

vars == <<file, failed, sizes, cursor, addr, heap, data, len, blocks, emitted>>

ASSUME LengthAssumption == NameLen \in [DOMAIN NameLen -> Nat] /\ DenseThreshold \in Nat
ASSUME MarkAssumption == Undefined \notin Nat /\ Missing \notin Nat
-------------------------------------------------------------------------------
Total(s) ==
  LET upTo[i \in 0 .. Len(s)] == IF i = 0 THEN 0 ELSE s[i] + upTo[i - 1]
  IN upTo[Len(s)]

\* Contents of a direct block and of a leaf: in a heap, attributes are in the
\* newer format, one byte longer.
HeapBlockHeader == 22
HeapContent(attrs) == HeapBlockHeader + Total([i \in DOMAIN attrs |-> attrs[i] + 1])
LeafContent(attrs) == 10 + 17 * Len(attrs)

\* max_heap_size: an offset in a heap, and so the size of its block, has 40 bits.
FitsHeap(attrs) ==
  \E k \in 0 .. 39 : 2^k >= 512 /\ 2^k >= HeapContent(attrs) /\ 2^k >= LeafContent(attrs)

\* What finish is given: the root group, then groups of the root, then datasets.
\* own: lengths of an object's messages other than links and attributes;
\* attrs: lengths of its attribute messages; bytes: length of its data.
FileObject ==
  [kind : {"group", "dataset"}, name : DOMAIN NameLen, parent : Nat,
   own : Seq(Nat), attrs : Seq(Nat), bytes : Nat \cup {Missing}]

WellFormed(f) ==
  /\ f \in Seq(FileObject)
  /\ Len(f) >= 1
  /\ f[1].kind = "group"
  /\ \A o \in 1 .. Len(f) : Len(f[o].attrs) > DenseThreshold => FitsHeap(f[o].attrs)
  /\ \A o \in 2 .. Len(f) :
       /\ f[o].parent \in 1 .. o - 1
       /\ f[f[o].parent].kind = "group"
       /\ f[o].kind = "group" => f[o].parent = 1 /\ f[o - 1].kind = "group"

ASSUME FileAssumption == \A f \in Files : WellFormed(f)
-------------------------------------------------------------------------------
(* What the code builds for an object, and how long it is.                 *)

AtLeast(n, least) ==
  2^(CHOOSE k \in 0 .. 39 : 2^k >= n /\ 2^k >= least /\ \A j \in 0 .. k - 1 : 2^j < n \/ 2^j < least)

Objects == DOMAIN file
Groups == {o \in Objects : file[o].kind = "group"}
Datasets == Objects \ Groups
Dense(o) == Len(file[o].attrs) > DenseThreshold

\* Objects of one kind in group g, in their order.
Members(g, kind) ==
  LET upTo[o \in 0 .. Len(file)] ==
        IF o = 0 THEN << >>
        ELSE IF o # 1 /\ file[o].parent = g /\ file[o].kind = kind THEN Append(upTo[o - 1], o)
        ELSE upTo[o - 1]
  IN upTo[Len(file)]

\* The links of a group: its datasets, then its groups.
Children(g) ==
  IF file[g].kind = "dataset" THEN << >> ELSE Members(g, "dataset") \o Members(g, "group")

\* LinkMessage::serialize, for a hard link with an ASCII name.
LinkLen(n) ==
  2 + (IF NameLen[n] <= 255 THEN 1 ELSE IF NameLen[n] <= 65535 THEN 2 ELSE 4) + NameLen[n] + 8

AttributeInfoLen == 18

\* Lengths of all messages of object o.
Messages(o, dense) ==
  LET links == [i \in DOMAIN Children(o) |-> LinkLen(file[Children(o)[i]].name)]
  IN file[o].own \o links \o (IF dense THEN <<AttributeInfoLen>> ELSE file[o].attrs)

\* ObjectHeaderWriter::serialize: the field of the total has 1, 2 or 4 bytes.
HeaderLen(messages) ==
  LET total == Total([i \in DOMAIN messages |-> 4 + messages[i]])
  IN 6 + (IF total <= 255 THEN 1 ELSE IF total <= 65535 THEN 2 ELSE 4) + total + 4

\* Fault: pass 1 measures headers as if all attributes were inline.
MeasuredInline(o) == HeaderLen(Messages(o, FALSE))

Measured(o) == HeaderLen(Messages(o, Dense(o)))

\* build_dense_attrs: heap header, direct block, tree header and leaf, in a row.
HeapHeaderLen == 146
TreeHeaderLen == 38
HeapBlockLen(o) == AtLeast(HeapContent(file[o].attrs), 512)
LeafLen(o) == AtLeast(LeafContent(file[o].attrs), 512)
HeapLen(o) == HeapHeaderLen + HeapBlockLen(o) + TreeHeaderLen + LeafLen(o)

\* Offset of attribute i in the direct block.
AttributeOffset(o, i) ==
  HeapBlockHeader + Total([j \in 1 .. i - 1 |-> file[o].attrs[j] + 1])

\* encode_managed_id: 16 bits are left for the length.
ManagedId(o, i) ==
  [offset |-> AttributeOffset(o, i), length |-> (file[o].attrs[i] + 1) % 2^16]

With(bs, a, b) == [x \in DOMAIN bs \cup {a} |-> IF x = a THEN b ELSE bs[x]]

\* The blocks of the heap of object o, put at address a, all addresses in it
\* computed from the base address it was built for.
WithHeap(bs, a, o, base) ==
  LET block == base + HeapHeaderLen
      tree == block + HeapBlockLen(o)
      shift == a - base
      attributes == DOMAIN file[o].attrs
  IN With(With(With(With(bs,
       a, [kind |-> "FRHP", block |-> block]),
       block + shift, [kind |-> "FHDB", header |-> base,
          objects |-> [i \in attributes |->
                         [offset |-> AttributeOffset(o, i), length |-> file[o].attrs[i] + 1]]]),
       tree + shift, [kind |-> "BTHD", leaf |-> tree + TreeHeaderLen]),
       tree + shift + TreeHeaderLen, [kind |-> "BTLF", records |-> [i \in attributes |-> ManagedId(o, i)]])
-------------------------------------------------------------------------------
SuperblockSize == 48

\* finish has just been called.
Called ==
  /\ failed = FALSE
  /\ sizes = << >>
  /\ cursor = SuperblockSize
  /\ addr = << >>
  /\ heap = << >>
  /\ data = << >>
  /\ len = 0
  /\ blocks = << >>
  /\ emitted = 0

Init == file \in Files /\ Called

Complete == \A o \in Datasets : file[o].bytes # Missing

\* A dataset without data: nothing is written at all.
Reject ==
  /\ ~Complete
  /\ failed' = TRUE
  /\ UNCHANGED <<file, sizes, cursor, addr, heap, data, len, blocks, emitted>>

\* Pass 1.
Measure ==
  /\ Complete
  /\ Len(sizes) < Len(file)
  /\ sizes' = Append(sizes, Measured(Len(sizes) + 1))
  /\ UNCHANGED <<file, failed, cursor, addr, heap, data, len, blocks, emitted>>

AfterObject(o) == cursor + sizes[o] + (IF Dense(o) THEN HeapLen(o) ELSE 0)

\* Pass 2, headers and attribute heaps.
PlaceHeader ==
  /\ Len(sizes) = Len(file)
  /\ Len(addr) < Len(file)
  /\ LET o == Len(addr) + 1
     IN /\ addr' = Append(addr, cursor)
        /\ heap' = Append(heap, IF Dense(o) THEN cursor + sizes[o] ELSE Undefined)
        /\ cursor' = AfterObject(o)
  /\ UNCHANGED <<file, failed, sizes, data, len, blocks, emitted>>

\* Pass 2, data.
PlaceData ==
  /\ Len(addr) = Len(file)
  /\ Len(data) < Cardinality(Datasets)
  /\ data' = Append(data, cursor)
  /\ cursor' = cursor + file[Cardinality(Groups) + Len(data) + 1].bytes
  /\ UNCHANGED <<file, failed, sizes, addr, heap, len, blocks, emitted>>

Placed == Len(addr) = Len(file) /\ Len(data) = Cardinality(Datasets)

EmitSuperblock ==
  /\ Placed
  /\ len = 0
  /\ blocks' = With(blocks, 0, [kind |-> "superblock", root |-> SuperblockSize, eof |-> cursor])
  /\ len' = SuperblockSize
  /\ UNCHANGED <<file, failed, sizes, cursor, addr, heap, data, emitted>>

\* Fault: datasets are numbered within their group.
TargetInGroup(g, i) ==
  IF file[Children(g)[i]].kind = "dataset"
  THEN addr[Cardinality(Groups) + i]
  ELSE addr[Children(g)[i]]

LinkTarget(g, i) == addr[Children(g)[i]]

Header(o) ==
  [kind |-> "header", object |-> o,
   messages |-> Messages(o, Dense(o)),
   links |-> [i \in DOMAIN Children(o) |->
                [name |-> file[Children(o)[i]].name, target |-> LinkTarget(o, i)]],
   inline |-> IF Dense(o) THEN << >> ELSE file[o].attrs,
   heap |-> heap[o],
   tree |-> IF Dense(o) THEN heap[o] + HeapHeaderLen + HeapBlockLen(o) ELSE Undefined,
   data |-> IF o \in Datasets THEN data[o - Cardinality(Groups)] ELSE Undefined]

EmitHeader ==
  /\ len >= SuperblockSize
  /\ emitted < Len(file)
  /\ LET o == emitted + 1
         end == len + HeaderLen(Messages(o, Dense(o)))
         done == With(blocks, len, Header(o))
     IN /\ blocks' = IF Dense(o) THEN WithHeap(done, end, o, heap[o]) ELSE done
        /\ len' = IF Dense(o) THEN end + HeapLen(o) ELSE end
  /\ emitted' = emitted + 1
  /\ UNCHANGED <<file, failed, sizes, cursor, addr, heap, data>>

EmitData ==
  /\ emitted >= Len(file)
  /\ emitted < Len(file) + Cardinality(Datasets)
  /\ LET o == Cardinality(Groups) + emitted - Len(file) + 1
     IN /\ blocks' = IF file[o].bytes = 0 THEN blocks
                     ELSE With(blocks, len, [kind |-> "data", object |-> o])
        /\ len' = len + file[o].bytes
  /\ emitted' = emitted + 1
  /\ UNCHANGED <<file, failed, sizes, cursor, addr, heap, data>>

Next ==
  \/ Reject
  \/ Measure
  \/ PlaceHeader
  \/ PlaceData
  \/ EmitSuperblock
  \/ EmitHeader
  \/ EmitData

Spec == Init /\ [][Next]_vars

Written == len > 0 /\ emitted = Len(file) + Cardinality(Datasets)
-------------------------------------------------------------------------------
(* The reader.                                                             *)

IsAt(a, kind) == a \in DOMAIN blocks /\ blocks[a].kind = kind

\* ObjectHeader::parse: a message's length is read from two bytes, so that the
\* parser loses its way behind a longer one.
Parses(a) ==
  IsAt(a, "header") /\ \A i \in DOMAIN blocks[a].messages : blocks[a].messages[i] < 2^16

\* The first link of that name.
Find(a, name) ==
  LET named == {i \in DOMAIN blocks[a].links : blocks[a].links[i].name = name}
  IN IF ~Parses(a) \/ named = {} THEN Undefined
     ELSE blocks[a].links[CHOOSE i \in named : \A j \in named : i <= j].target

\* resolve_path_any, for paths of one or two components.
Resolve(path) ==
  LET first == Find(blocks[0].root, path[1])
  IN IF Len(path) = 1 \/ first = Undefined THEN first ELSE Find(first, path[2])

Path(o) ==
  IF o = 1 THEN << >>
  ELSE IF file[o].parent = 1 THEN <<file[o].name>>
  ELSE <<file[file[o].parent].name, file[o].name>>

\* extract_attributes_full: the attributes found, by number.
AttributesAt(a) ==
  LET h == blocks[a]
      b == blocks[blocks[h.heap].block]
      records == blocks[blocks[h.tree].leaf].records
  IN IF h.heap = Undefined THEN DOMAIN h.inline
     ELSE {i \in DOMAIN b.objects : \E r \in DOMAIN records : records[r] = b.objects[i]}

Reads(o, a) ==
  /\ Parses(a)
  /\ blocks[a].object = o
  /\ AttributesAt(a) = DOMAIN file[o].attrs
  /\ o \in Datasets /\ file[o].bytes > 0 =>
       IsAt(blocks[a].data, "data") /\ blocks[blocks[a].data].object = o

\* Another object of the same name comes first in the group.
Hidden(o) ==
  LET siblings == Children(file[o].parent)
  IN \E i, j \in DOMAIN siblings :
       i < j /\ siblings[j] = o /\ file[siblings[i]].name = file[o].name
-------------------------------------------------------------------------------
\* An address is handed out long before anything is there; once the file is
\* written, each is the place of what it names.
AddressesHold ==
  Written =>
    /\ \A o \in Objects : IsAt(addr[o], "header") /\ blocks[addr[o]].object = o
    /\ \A o \in Objects : heap[o] # Undefined =>
         /\ IsAt(heap[o], "FRHP")
         /\ IsAt(blocks[heap[o]].block, "FHDB")
         /\ blocks[blocks[heap[o]].block].header = heap[o]
         /\ IsAt(blocks[addr[o]].tree, "BTHD")
         /\ IsAt(blocks[blocks[addr[o]].tree].leaf, "BTLF")
    /\ \A o \in Datasets : file[o].bytes > 0 =>
         LET d == data[o - Cardinality(Groups)]
         IN IsAt(d, "data") /\ blocks[d].object = o

\* Every object is found under its path with all its attributes and its own data,
\* unless an object of the same name hides it.
ReadsBack ==
  Written =>
    \A o \in Objects :
      IF o = 1 THEN Reads(1, blocks[0].root)
      ELSE ~Hidden(o) /\ ~(file[o].parent # 1 /\ Hidden(file[o].parent)) =>
             Reads(o, Resolve(Path(o)))
===============================================================================
