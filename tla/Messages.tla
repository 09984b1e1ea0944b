------------------------------ MODULE Messages ------------------------------
(***************************************************************************)
(* The messages that describe a dataset, and the superblock that says how  *)
(* wide their fields are: dataspace, data layout, filter pipeline,         *)
(* and attribute.  For each the parser, the serializer of this library,    *)
(* and, named Foreign..., what other writers put into files.  os and ls    *)
(* are the widths of offsets and lengths.                                  *)
(***************************************************************************)
EXTENDS Datatypes

Widths == {2, 4, 8}

\* read_length of dataspace.rs and global_heap.rs: n fields of width w.
Lengths(b, pos, n, w) ==
  IF n > 0 /\ w \notin Widths THEN Failed ELSE Fields(b, pos, [i \in 1 .. n |-> w])

\* An address, AllOnes if it is undefined, behind skip bytes.
AddressAt(b, pos, skip, os) ==
  IF ~HasLen(b, pos, skip + os) THEN Failed
  ELSE IF IsUndefined(b, pos + skip, os) THEN Parsed(AllOnes, pos + skip + os)
  ELSE ReadOffset(b, pos + skip, os)

OptionalFields(there, b, pos, ws) == IF there THEN Fields(b, pos, ws) ELSE Parsed(<< >>, pos)
-------------------------------------------------------------------------------
(* Dataspaces.  max is empty when the message has no maximal extents.      *)

Space(kind, dims, max) == [kind |-> kind, dims |-> dims, max |-> max]
SpaceKinds == <<"scalar", "simple", "null">>

Product(ns) == FoldLeft(LAMBDA a, n : a * n, 1, ns)

NumElements(s) ==
  CASE s.kind = "null" -> 0
    [] s.kind = "scalar" -> 1
    [] s.kind = "simple" -> IF s.dims = << >> THEN 0 ELSE Product(s.dims)

SpaceHead(b) ==
  CASE b[1] = 1 /\ HasLen(b, 0, 8) -> Parsed(IF b[2] = 0 THEN "scalar" ELSE "simple", 8)
    [] b[1] = 2 -> Bind(OneOf(SpaceKinds, b[4]), LAMBDA k : Parsed(k.v, 4))
    [] OTHER -> Failed

ParseSpace(b, ls) ==
  IF ~HasLen(b, 0, 4) THEN Failed
  ELSE Bind(SpaceHead(b), LAMBDA h :
       Bind(Lengths(b, h.n, b[2], ls), LAMBDA d :
       Bind(Lengths(b, d.n, IF Bit(b[3], 0) THEN b[2] ELSE 0, ls), LAMBDA m :
         Parsed(Space(h.v, d.v, m.v), m.n))))

SpaceFlags(s) == IF s.max = << >> THEN 0 ELSE 1
SpaceDims(s, ls) == Each(s.dims \o s.max, LAMBDA n : LE(ls, n))

SpaceBytes(s, ls) ==
  <<2, Len(s.dims), SpaceFlags(s), Code(SpaceKinds, s.kind)>> \o SpaceDims(s, ls)

\* Version 1 has no null dataspace.
ForeignSpace(s, version, ls) ==
  IF version = 1 THEN <<1, Len(s.dims), SpaceFlags(s), 0, 0, 0, 0, 0>> \o SpaceDims(s, ls)
  ELSE SpaceBytes(s, ls)
-------------------------------------------------------------------------------
(* Data layouts.  index is 0 for the B-tree of version 3, and a chunked    *)
(* layout has a filtered size and mask only for a filtered single chunk.   *)

Compact(data) == [class |-> "compact", data |-> data]
Contiguous(address, size) == [class |-> "contiguous", address |-> address, size |-> size]
Chunks(dims, address, index, filtered) ==
  [class |-> "chunked", dims |-> dims, address |-> address, index |-> index, filtered |-> filtered]
Virtual == [class |-> "virtual"]

ParseCompact(b) ==
  Bind(Fields(b, 2, <<2>>), LAMBDA n :
    IF HasLen(b, 4, n.v[1]) THEN Parsed(Compact(Cut(b, 4, n.v[1])), 4 + n.v[1]) ELSE Failed)

ParseContiguous(b, os, ls) ==
  IF ~HasLen(b, 2, os + ls) THEN Failed
  ELSE Bind(AddressAt(b, 2, 0, os), LAMBDA a :
       Bind(ReadOffset(b, a.n, ls), LAMBDA n : Parsed(Contiguous(a.v, n.v), n.n)))

\* parse_chunk_dims: extents of eight bytes are cut to four.
ChunkDims(b, pos, n, w) ==
  IF n > 0 /\ w \notin OffsetWidths THEN Failed ELSE Fields(b, pos, [i \in 1 .. n |-> w])

\* Fault: one of the extensible array's parameters is forgotten.
IndexSkipShort(index) ==
  CASE index = 3 -> 1 [] index = 4 -> 4 [] index = 5 -> 6 [] OTHER -> 0

\* What stands between the kind of index and its address.
IndexSkip(index) ==
  CASE index = 3 -> 1 [] index = 4 -> 5 [] index = 5 -> 6 [] OTHER -> 0

ParseChunkedV3(b, os) ==
  Bind(Fields(b, 2, <<1>>), LAMBDA rank :
  Bind(AddressAt(b, 3, 0, os), LAMBDA a :
  Bind(ChunkDims(b, a.n, rank.v[1], 4), LAMBDA d : Parsed(Chunks(d.v, a.v, 0, << >>), d.n))))

ParseChunkedV4(b, os, ls) ==
  Bind(Fields(b, 2, <<1, 1, 1>>), LAMBDA h :
  Bind(ChunkDims(b, 5, h.v[2], h.v[3]), LAMBDA d :
  Bind(Fields(b, d.n, <<1>>), LAMBDA i :
  LET filtered == i.v[1] = 1 /\ Bit(h.v[1], 1)
  IN Bind(IF filtered /\ ls \notin OffsetWidths THEN Failed
          ELSE OptionalFields(filtered, b, i.n, <<ls, 4>>), LAMBDA f :
     Bind(AddressAt(b, f.n, IndexSkip(i.v[1]), os), LAMBDA a :
       Parsed(Chunks(d.v, a.v, i.v[1], f.v), a.n))))))

ParseLayout(b, os, ls) ==
  IF ~HasLen(b, 0, 2) \/ b[1] \notin {3, 4} THEN Failed
  ELSE CASE b[2] = 0 -> ParseCompact(b)
         [] b[2] = 1 -> ParseContiguous(b, os, ls)
         [] b[2] = 2 -> IF b[1] = 3 THEN ParseChunkedV3(b, os) ELSE ParseChunkedV4(b, os, ls)
         [] b[2] = 3 /\ b[1] = 4 -> Parsed(Virtual, Len(b))
         [] OTHER -> Failed

\* The layout message of a dataset without chunks.
ContiguousBytes(address, size) == <<4, 1>> \o LE(8, address) \o LE(8, size)

IndexParameters(index) ==
  CASE index = 3 -> <<10>> [] index = 4 -> <<32, 4, 4, 16, 10>> [] index = 5 -> <<0, 8, 0, 0, 100, 40>>
    [] OTHER -> << >>

ForeignLayout(l, version, os, ls) ==
  <<version>> \o
  CASE l.class = "compact" -> <<0>> \o LE(2, Len(l.data)) \o l.data
    [] l.class = "contiguous" -> <<1>> \o LE(os, l.address) \o LE(ls, l.size)
    [] l.class = "virtual" -> <<3>> \o LE(os, 0)
    [] l.class = "chunked" /\ version = 3 ->
         <<2, Len(l.dims)>> \o LE(os, l.address) \o Each(l.dims, LAMBDA n : LE(4, n))
    [] l.class = "chunked" /\ version = 4 ->
         <<2, IF l.filtered = << >> THEN 0 ELSE 2, Len(l.dims), 1>> \o l.dims \o <<l.index>>
           \o (IF l.filtered = << >> THEN IndexParameters(l.index)
               ELSE LE(ls, l.filtered[1]) \o LE(4, l.filtered[2]))
           \o LE(os, l.address)
-------------------------------------------------------------------------------
(* Filter pipelines: filters are records with an id, a name, flags and     *)
(* client data.  In version 1 names and client data are padded.            *)

PipelinePads(version) == version = 1

ClientData(b, pos, n) == Fields(b, pos, [i \in 1 .. n |-> 4])

\* Identifier, length of the name, flags, number of client data values.
FilterHead(b, pos, version) ==
  IF version = 1 THEN Fields(b, pos, <<2, 2, 2, 2>>)
  ELSE Bind(Fields(b, pos, <<2>>), LAMBDA id :
       Bind(OptionalFields(id.v[1] >= 256, b, id.n, <<2>>), LAMBDA n :
       Bind(Fields(b, n.n, <<2, 2>>), LAMBDA f :
         Parsed(<<id.v[1], IF n.v = << >> THEN 0 ELSE n.v[1]>> \o f.v, f.n))))

RECURSIVE ParseFilters(_, _, _, _)
ParseFilters(b, pos, count, version) ==
  IF count = 0 THEN Parsed(<< >>, pos)
  ELSE Bind(FilterHead(b, pos, version), LAMBDA h :
    LET named == h.v[2]
        pads == PipelinePads(version)
        data == h.n + IF pads THEN Pad8(named) ELSE named
    IN IF ~HasLen(b, h.n, named) THEN Failed
       ELSE Bind(ClientData(b, data, h.v[4]), LAMBDA c :
            Bind(ParseFilters(b, c.n + IF pads /\ h.v[4] % 2 = 1 THEN 4 ELSE 0, count - 1, version),
              LAMBDA rest :
              Parsed(<<[id |-> h.v[1], name |-> UpToZero(Cut(b, h.n, named)), flags |-> h.v[3],
                        data |-> c.v]>> \o rest.v, rest.n))))

ParsePipeline(b) ==
  IF ~HasLen(b, 0, 2) \/ b[1] \notin {1, 2} \/ (b[1] = 1 /\ ~HasLen(b, 0, 8)) THEN Failed
  ELSE ParseFilters(b, IF b[1] = 1 THEN 8 ELSE 2, b[2], b[1])

FilterBytesV1(f) ==
  LET name == IF f.name = << >> THEN << >> ELSE f.name \o <<0>>
  IN LE(2, f.id) \o LE(2, Len(name)) \o LE(2, f.flags) \o LE(2, Len(f.data)) \o Padded(name)
       \o Each(f.data, LAMBDA v : LE(4, v)) \o Zeros(4 * (Len(f.data) % 2))

FilterBytesV2(f) ==
  LET name == IF f.id >= 256 THEN f.name \o <<0>> ELSE << >>
  IN LE(2, f.id) \o (IF f.id >= 256 THEN LE(2, Len(name)) ELSE << >>) \o LE(2, f.flags)
       \o LE(2, Len(f.data)) \o name \o Each(f.data, LAMBDA v : LE(4, v))

PipelineBytes(fs, version) ==
  IF version = 1 THEN <<1, Len(fs)>> \o Zeros(6) \o Each(fs, FilterBytesV1)
  ELSE <<2, Len(fs)>> \o Each(fs, FilterBytesV2)
-------------------------------------------------------------------------------
(* Attributes.                                                             *)

Attribute(name, type, space, raw) == [name |-> name, type |-> type, space |-> space, raw |-> raw]

\* compute_raw_data: as many bytes as the value has, fewer if the message is
\* short, and all that is left if the value has none.
RawData(b, pos, count, size) ==
  LET expected == count * size
      rest == From(b, pos)
  IN IF expected = 0 THEN rest ELSE SubSeq(rest, 1, IF expected < Len(rest) THEN expected ELSE Len(rest))

AttributeHead(b) ==
  CASE b[1] \in {1, 2} -> Bind(Fields(b, 2, <<2, 2, 2>>), LAMBDA f : Parsed(f.v, 8))
    [] b[1] = 3 /\ HasLen(b, 0, 9) -> Bind(Fields(b, 2, <<2, 2, 2>>), LAMBDA f : Parsed(f.v, 9))
    [] OTHER -> Failed

\* Where a part ends: padded in version 1.
PartEnd(version, n) == IF version = 1 THEN Pad8(n) ELSE n

Part(b, pos, n, Parser(_)) == IF HasLen(b, pos, n) THEN Parser(Cut(b, pos, n)) ELSE Failed

ParseAttribute(b, ls) ==
  IF ~HasLen(b, 0, 2) THEN Failed
  ELSE Bind(AttributeHead(b), LAMBDA h :
    LET type == h.n + PartEnd(b[1], h.v[1])
        space == type + PartEnd(b[1], h.v[2])
        raw == space + PartEnd(b[1], h.v[3])
    IN Bind(Part(b, h.n, h.v[1], LAMBDA x : Parsed(UpToZero(x), 0)), LAMBDA n :
       Bind(Part(b, type, h.v[2], ParseType), LAMBDA t :
       Bind(Part(b, space, h.v[3], LAMBDA x : ParseSpace(x, ls)), LAMBDA s :
         Parsed(Attribute(n.v, t.v, s.v, RawData(b, raw, NumElements(s.v), TypeSize(t.v))), Len(b))))))

\* serialize_version: 2 or 3.
AttributeBytes(a, version, ls) ==
  LET name == a.name \o <<0>>
      type == Serialize(a.type)
      space == SpaceBytes(a.space, ls)
  IN <<version, 0>> \o LE(2, Len(name)) \o LE(2, Len(type)) \o LE(2, Len(space))
       \o (IF version >= 3 THEN <<0>> ELSE << >>) \o name \o type \o space \o a.raw

\* In version 1 the parts are padded, and so is the message in its header.
ForeignAttribute(a, version, ls) ==
  LET name == a.name \o <<0>>
      type == Foreign(a.type, IF version = 3 THEN 3 ELSE 1)
      space == ForeignSpace(a.space, IF version = 3 THEN 2 ELSE 1, ls)
      Lay(x) == IF version = 1 THEN Padded(x) ELSE x
  IN Lay(<<version, 0>> \o LE(2, Len(name)) \o LE(2, Len(type)) \o LE(2, Len(space))
           \o (IF version = 3 THEN <<1>> ELSE << >>) \o Lay(name) \o Lay(type) \o Lay(space) \o a.raw)
-------------------------------------------------------------------------------
(* The superblock and where it is found.                                   *)

CONSTANT FirstBlock  \* 512: the first place of a signature behind offset 0

Signature == <<137, 72, 68, 70, 13, 10, 26, 10>>

RECURSIVE SignatureAfter(_, _)
SignatureAfter(b, pos) ==
  IF ~HasLen(b, pos, 8) THEN Failed
  ELSE IF Cut(b, pos, 8) = Signature THEN Parsed(pos, pos) ELSE SignatureAfter(b, 2 * pos)

FindSignature(b) ==
  IF HasLen(b, 0, 8) /\ Cut(b, 0, 8) = Signature THEN Parsed(0, 0) ELSE SignatureAfter(b, FirstBlock)

Superblock(version, os, ls, base, eof, root) ==
  [version |-> version, os |-> os, ls |-> ls, base |-> base, eof |-> eof, root |-> root]

ValidSizes(os, ls) == os \in Widths /\ ls \in Widths

\* Versions 0 and 1: four addresses and the symbol table entry of the root.
ParseOldSuperblock(d) ==
  LET first == IF d[9] = 1 THEN 28 ELSE 24
      os == d[14]
      ls == d[15]
  IN IF ~HasLen(d, 0, first) \/ ~ValidSizes(os, ls) \/ ~HasLen(d, 0, first + 6 * os + 24) THEN Failed
     ELSE Bind(Fields(d, first, [i \in 1 .. 6 |-> os]), LAMBDA a :
            Parsed(Superblock(d[9], os, ls, a.v[1], a.v[3], a.v[6]), a.n))

ParseNewSuperblock(d) ==
  LET os == d[10]
      ls == d[11]
      end == 12 + 4 * os
  IN IF ~HasLen(d, 0, 12) \/ ~ValidSizes(os, ls) \/ ~HasLen(d, 0, end + 4) THEN Failed
     ELSE IF Cut(d, end, 4) # Lookup3(Cut(d, 0, end)) THEN Failed
     ELSE Bind(Fields(d, 12, [i \in 1 .. 4 |-> os]), LAMBDA a :
            Parsed(Superblock(d[9], os, ls, a.v[1], a.v[3], a.v[4]), a.n))

ParseSuperblock(b, at) ==
  LET d == From(b, at)
  IN IF ~HasLen(d, 0, 9) \/ Cut(d, 0, 8) # Signature THEN Failed
     ELSE CASE d[9] \in {0, 1} -> ParseOldSuperblock(d)
            [] d[9] \in {2, 3} -> ParseNewSuperblock(d)
            [] OTHER -> Failed

SuperblockBytes(s) ==
  LET body == Signature \o <<s.version, s.os, s.ls, 0>> \o LE(s.os, s.base) \o LE(s.os, AllOnes)
                \o LE(s.os, s.eof) \o LE(s.os, s.root)
  IN body \o Lookup3(body)

ForeignSuperblock(s) ==
  IF s.version >= 2 THEN SuperblockBytes(s)
  ELSE Signature \o <<s.version, 0, 0, 0, 0, s.os, s.ls, 0, 4, 0, 16, 0>>
         \o (IF s.version = 1 THEN <<32, 0, 0, 0>> ELSE << >>) \o Zeros(4)
         \o LE(s.os, s.base) \o LE(s.os, AllOnes) \o LE(s.os, s.eof) \o LE(s.os, AllOnes)
         \o LE(s.os, 0) \o LE(s.os, s.root) \o Zeros(24)
==============================================================================
