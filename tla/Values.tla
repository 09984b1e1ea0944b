------------------------------- MODULE Values -------------------------------
(***************************************************************************)
(* From the bytes of a dataset or an attribute to values (data_read.rs,    *)
(* global_heap.rs, vl_data.rs, rustyhdf5/types.rs), and from values to     *)
(* bytes (type_builders.rs).                                               *)
(***************************************************************************)
EXTENDS Messages

\* A number read: from an integer n, or from the bits of a float, narrowed or not.
FromInt(n) == [from |-> "int", n |-> n, bits |-> << >>]
FromFloat(bits) == [from |-> "float", n |-> 0, bits |-> bits]
Narrowed(bits) == [from |-> "narrowed", n |-> 0, bits |-> bits]

Answer(v) == [ok |-> TRUE, v |-> v]
-------------------------------------------------------------------------------
(* Raw bytes.                                                              *)

\* Fault: a file that ends early is filled up with zeros.
RawBytesFilled(file, layout, space, type) ==
  LET expected == NumElements(space) * TypeSize(type)
  IN CASE layout.class = "compact" -> IF Len(layout.data) = expected THEN Answer(layout.data) ELSE Failed
       [] layout.class = "contiguous" ->
            IF layout.address # AllOnes /\ layout.size = expected
            THEN Answer(Cut(file \o Zeros(layout.address + layout.size), layout.address, layout.size)) ELSE Failed
       [] OTHER -> Failed

\* read_raw_data_full, read_raw_data_zerocopy_contiguous: chunks have their own modules.
RawBytes(file, layout, space, type) ==
  LET expected == NumElements(space) * TypeSize(type)
  IN CASE layout.class = "compact" -> IF Len(layout.data) = expected THEN Answer(layout.data) ELSE Failed
       [] layout.class = "contiguous" ->
            IF layout.address # AllOnes /\ layout.size = expected /\ HasLen(file, layout.address, layout.size)
            THEN Answer(Cut(file, layout.address, layout.size)) ELSE Failed
       [] OTHER -> Failed

\* Elements of size bytes, if the bytes are a number of them.
Elements(raw, size) ==
  IF size = 0 \/ Len(raw) % size # 0 THEN Failed
  ELSE Answer([i \in 1 .. Len(raw) \div size |-> Cut(raw, (i - 1) * size, size)])

\* Strings, compounds, enumerations and references of no size are no elements.
ElementsOrNone(raw, size) == IF size = 0 THEN Answer(<< >>) ELSE Elements(raw, size)

ReadEach(elements, F(_)) == IF elements.ok THEN Answer([i \in DOMAIN elements.v |-> F(elements.v[i])]) ELSE Failed
-------------------------------------------------------------------------------
(* Numbers.                                                                *)

ByteOrder(t) == IF t.class \in {"fixed", "float"} THEN t.order ELSE "little"

\* reorder_bytes: VAX order is taken for little-endian.
Reordered(bs, order) == IF order = "big" THEN Reverse(bs) ELSE bs
UnsignedInt(bs, order) == Unsigned(Reordered(bs, order))
SignedInt(bs, order) == Signed(Reordered(bs, order))

\* as i32: the low four bytes.
Low4(bs, order) ==
  LET le == Reordered(bs, order)
  IN IF Len(le) > 4 THEN Signed(SubSeq(le, 1, 4)) ELSE Signed(le)

Numeric(t) == t.class \in {"fixed", "float"}

Number(bs, t, F(_)) ==
  CASE t.class = "float" -> F(Reordered(bs, t.order))
    [] t.class = "fixed" /\ t.signed -> FromInt(SignedInt(bs, t.order))
    [] t.class = "fixed" /\ ~t.signed -> FromInt(UnsignedInt(bs, t.order))

\* Half precision and the like are refused, unless there is nothing to read.
ReadFloats(raw, t, F(_)) ==
  IF Numeric(t) /\ (t.class = "float" => t.size \in {4, 8} \/ raw = << >>)
  THEN ReadEach(Elements(raw, t.size), LAMBDA bs : Number(bs, t, F)) ELSE Failed

ReadF64(raw, t) == ReadFloats(raw, t, FromFloat)
ReadF32(raw, t) == ReadFloats(raw, t, LAMBDA bs : IF Len(bs) = 8 THEN Narrowed(bs) ELSE FromFloat(bs))

\* Integers are read from floats too: their bits.
ReadInts(raw, t, F(_, _)) ==
  IF Numeric(t) THEN ReadEach(Elements(raw, t.size), LAMBDA bs : FromInt(F(bs, t.order))) ELSE Failed

ReadI64(raw, t) == ReadInts(raw, t, SignedInt)
ReadU64(raw, t) == ReadInts(raw, t, UnsignedInt)
ReadI32(raw, t) == ReadInts(raw, t, Low4)
-------------------------------------------------------------------------------
(* Strings, compounds, enumerations, references and arrays.                *)

\* Without the longest tail of that byte.
WithoutTail(bs, x) == SubSeq(bs, 1, SelectLastInSeq(bs, LAMBDA y : y # x))

Text(bs, padding) ==
  CASE padding = "terminated" -> UpToZero(bs)
    [] padding = "nulls" -> WithoutTail(bs, 0)
    [] padding = "spaces" -> WithoutTail(bs, 32)

ReadStrings(raw, t) ==
  IF t.class # "string" THEN Failed
  ELSE ReadEach(ElementsOrNone(raw, t.size), LAMBDA bs : Text(bs, t.padding))

\* Every field with its bytes of all elements.
ReadFields(raw, t) ==
  IF t.class # "compound" THEN Failed
  ELSE Bind(ElementsOrNone(raw, t.size), LAMBDA e : Answer(
    IF t.size = 0 THEN << >>
    ELSE [i \in DOMAIN t.members |->
           LET m == t.members[i]
           IN [name |-> m.name, type |-> m.type,
               raw |-> Each(e.v, LAMBDA bs : Cut(bs, m.offset, TypeSize(m.type)))]]))

ReadField(raw, t, name) ==
  Bind(ReadFields(raw, t), LAMBDA fs :
    IF \E i \in DOMAIN fs.v : fs.v[i].name = name
    THEN Answer(fs.v[SelectInSeq(fs.v, LAMBDA f : f.name = name)]) ELSE Failed)

\* The name of a value: of the last member that has it, for the map keeps that one.
EnumName(t, bs) ==
  LET i == SelectLastInSeq(t.members, LAMBDA m : m.value = bs)
  IN IF i = 0 THEN [known |-> FALSE, name |-> bs] ELSE [known |-> TRUE, name |-> t.members[i].name]

ReadEnum(raw, t) ==
  IF t.class # "enum" THEN Failed ELSE ReadEach(ElementsOrNone(raw, t.size), LAMBDA bs : EnumName(t, bs))

\* read_ref_address: as many bytes as the file's offsets have; all ones is null.
RefAddress(bs, os) == AddressAt(bs, 0, 0, IF os < Len(bs) THEN os ELSE Len(bs)).v

ReadReferences(raw, t, os) ==
  CASE t.class = "reference" /\ t.target = "object" ->
         ReadEach(ElementsOrNone(raw, t.size), LAMBDA bs : RefAddress(bs, os))
    [] OTHER -> Failed

ReadRegions(raw, t) ==
  CASE t.class = "reference" /\ t.target = "region" -> ReadEach(ElementsOrNone(raw, t.size), LAMBDA bs : bs)
    [] OTHER -> Failed

\* The elements of all arrays in one sequence, to be read as the base type.
ReadArray(raw, t) ==
  IF t.class = "array" THEN Answer([raw |-> raw, base |-> t.base, dims |-> t.dims]) ELSE Failed

\* read_raw_data_zerocopy, read_as_slice: elements of size bytes in a file that lies
\* in memory at base modulo 8; no slice (here an error) but of a contiguous layout.
Slice(file, layout, space, type, size, base) ==
  IF layout.class # "contiguous" \/ (base + layout.address) % size # 0 THEN Failed
  ELSE Bind(RawBytes(file, layout, space, type), LAMBDA raw : Elements(raw.v, size))
-------------------------------------------------------------------------------
(* Variable-length data: lengths and places in collections of the global   *)
(* heap.                                                                   *)

HeapSignature == <<71, 67, 79, 76>>

\* Objects of a collection from pos on: until index 0 or the end.
RECURSIVE HeapObjects(_, _, _, _)
HeapObjects(file, pos, end, ls) ==
  IF pos + 2 > end THEN Answer(<< >>)
  ELSE Bind(Fields(file, pos, <<2>>), LAMBDA i :
       IF i.v[1] = 0 THEN Answer(<< >>)
       ELSE Bind(Fields(file, pos, <<2, 2, 4>>), LAMBDA h :
            Bind(Lengths(file, h.n, 1, ls), LAMBDA size :
            IF ~HasLen(file, size.n, size.v[1]) THEN Failed
            ELSE Bind(HeapObjects(file, size.n + Pad8(size.v[1]), end, ls), LAMBDA rest :
                   Answer(<<[index |-> i.v[1], data |-> Cut(file, size.n, size.v[1])]>> \o rest.v)))))

ParseCollection(file, at, ls) ==
  IF ~HasLen(file, at, 8 + ls) \/ Cut(file, at, 5) # HeapSignature \o <<1>> THEN Failed
  ELSE Bind(Lengths(file, at + 8, 1, ls), LAMBDA size : HeapObjects(file, size.n, at + size.v[1], ls))

\* parse_vl_references: length, address of a collection, index in it.
References(raw, count, os) ==
  IF count = 0 THEN Answer(<< >>)
  ELSE IF os \notin OffsetWidths \/ ~HasLen(raw, 0, count * (os + 8)) THEN Failed
  ELSE ReadEach(Elements(SubSeq(raw, 1, count * (os + 8)), os + 8), LAMBDA bs :
         <<Field(bs, 0, 4), AddressAt(bs, 4, 0, os).v, Field(bs, 4 + os, 4)>>)

NoObject(ref) == ref[1] = 0 /\ ref[2] \in {0, AllOnes}

\* The bytes a reference names, no more than its length says; the index is cut
\* to sixteen bits.
Dereferenced(file, ref, ls) ==
  IF NoObject(ref) THEN Answer(<< >>)
  ELSE Bind(ParseCollection(file, ref[2], ls), LAMBDA objects :
    LET i == SelectInSeq(objects.v, LAMBDA o : o.index = ref[3] % 65536)
        data == objects.v[i].data
    IN IF i = 0 THEN Failed
       ELSE Answer(SubSeq(data, 1, IF ref[1] < Len(data) THEN ref[1] ELSE Len(data))))

ReadVlen(file, raw, count, os, ls) ==
  Bind(References(raw, count, os), LAMBDA refs :
  Bind(Answer([i \in DOMAIN refs.v |-> Dereferenced(file, refs.v[i], ls)]), LAMBDA found :
    IF \A i \in DOMAIN found.v : found.v[i].ok
    THEN Answer([i \in DOMAIN found.v |-> found.v[i].v]) ELSE Failed))

\* What other writers put into the heap: objects with their indexes, and free space.
ForeignCollection(objects, ls) ==
  LET body == Each(objects, LAMBDA o :
                LE(2, o.index) \o LE(2, 1) \o Zeros(4) \o LE(ls, Len(o.data)) \o Padded(o.data))
  IN HeapSignature \o <<1, 0, 0, 0>> \o LE(ls, 8 + ls + Len(body) + 16) \o body \o Zeros(16)
-------------------------------------------------------------------------------
(* Attribute values.                                                       *)

\* build_attr_message: an f64 is its bits, and the arrays are one-dimensional.
AttrType(value) ==
  CASE value.kind = "f64" -> IEEE(8, "little")
    [] value.kind = "i64" -> FixedPoint(8, TRUE, "little")
    [] value.kind = "u64" -> FixedPoint(8, FALSE, "little")
    [] value.kind = "string" -> Str(FoldLeft(LAMBDA a, s : IF Len(s) > a THEN Len(s) ELSE a, 0, value.items), "nulls", "utf8")

ItemBytes(value, item) ==
  CASE value.kind = "f64" -> item
    [] value.kind \in {"i64", "u64"} -> LE(8, item)
    [] value.kind = "string" -> item \o Zeros(AttrType(value).size - Len(item))

BuildAttr(name, value) ==
  Attribute(name, AttrType(value),
            IF value.array THEN Space("simple", <<Len(value.items)>>, << >>) ELSE Space("scalar", << >>, << >>),
            Each(value.items, LAMBDA item : ItemBytes(value, item)))

AttrValue(kind, items) == [kind |-> kind, array |-> Len(items) # 1, items |-> items]

\* decode_attr_value.
DecodeAttr(a, file, os, ls) ==
  CASE a.type.class = "float" ->
         Bind(ReadF64(a.raw, a.type), LAMBDA r : Answer(AttrValue("f64", [i \in DOMAIN r.v |-> r.v[i].bits])))
    [] a.type.class = "fixed" /\ a.type.signed ->
         Bind(ReadI64(a.raw, a.type), LAMBDA r : Answer(AttrValue("i64", [i \in DOMAIN r.v |-> r.v[i].n])))
    [] a.type.class = "fixed" /\ ~a.type.signed ->
         Bind(ReadU64(a.raw, a.type), LAMBDA r :
           Answer(AttrValue(IF Len(r.v) = 1 THEN "u64" ELSE "i64", [i \in DOMAIN r.v |-> r.v[i].n])))
    [] a.type.class = "string" ->
         Bind(ReadStrings(a.raw, a.type), LAMBDA r : Answer(AttrValue("string", r.v)))
    [] a.type.class = "vlen" /\ a.type.isString ->
         Bind(ReadVlen(file, a.raw, NumElements(a.space), os, ls), LAMBDA r : Answer(AttrValue("string", r.v)))
    [] OTHER -> Failed

\* Fault: the first of a name stays.
AttrsToMapFirst(attrs, file, os, ls) ==
  LET decoded == [i \in DOMAIN attrs |-> DecodeAttr(attrs[i], file, os, ls)]
      kept == {i \in DOMAIN attrs : decoded[i].ok}
  IN {[name |-> attrs[i].name, value |-> decoded[i].v] :
        i \in {i \in kept : \A j \in kept : j < i => attrs[j].name # attrs[i].name}}

\* attrs_to_map: values that do not decode are left out, and the last of a name stays.
AttrsToMap(attrs, file, os, ls) ==
  LET decoded == [i \in DOMAIN attrs |-> DecodeAttr(attrs[i], file, os, ls)]
      kept == {i \in DOMAIN attrs : decoded[i].ok}
  IN {[name |-> attrs[i].name, value |-> decoded[i].v] :
        i \in {i \in kept : \A j \in kept : j > i => attrs[j].name # attrs[i].name}}

-------------------------------------------------------------------------------
(* Types by builder and by name.                                           *)

\* CompoundTypeBuilder: fields one behind the other, without padding.
BuildCompound(fields) ==
  LET sizes == [i \in DOMAIN fields |-> TypeSize(fields[i].type)]
  IN [class |-> "compound", size |-> Total(sizes),
      members |-> [i \in DOMAIN fields |->
        [name |-> fields[i].name, offset |-> Total(SubSeq(sizes, 1, i - 1)), type |-> fields[i].type]]]

\* EnumTypeBuilder: value() stores four bytes, u8_value() one.
BuildEnum(base, members) == [class |-> "enum", size |-> base.size, base |-> base, members |-> members]
I32Member(name, v) == [name |-> name, value |-> LE(4, v)]
U8Member(name, v) == [name |-> name, value |-> <<v>>]

ArrayOf(base, dims) == [class |-> "array", base |-> base, dims |-> dims]

\* classify_datatype: the name of a type, with the names and types of its parts.
RECURSIVE Classify(_)
Classify(t) ==
  CASE t.class = "float" /\ t.size \in {4, 8} -> <<"float", t.size>>
    [] t.class = "fixed" /\ t.size \in {1, 2, 4, 8} -> <<IF t.signed THEN "int" ELSE "uint", t.size>>
    [] t.class = "string" -> <<"string">>
    [] t.class = "vlen" /\ t.isString -> <<"vlen_string">>
    [] t.class = "compound" ->
         <<"compound", [i \in DOMAIN t.members |-> <<t.members[i].name, Classify(t.members[i].type)>>]>>
    [] t.class = "enum" -> <<"enum", [i \in DOMAIN t.members |-> t.members[i].name]>>
    [] t.class = "array" -> <<"array", Classify(t.base), t.dims>>
    [] OTHER -> <<"other">>
==============================================================================
