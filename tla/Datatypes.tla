------------------------------ MODULE Datatypes ------------------------------
(***************************************************************************)
(* Datatype messages (datatype.rs): a tree of types as bytes.  Serialize   *)
(* is what this library writes, ParseType what it reads.  Foreign is what  *)
(* other writers put in a file: all classes, in versions 1 to 3.           *)
(***************************************************************************)
EXTENDS Codec

Classes == <<"fixed", "float", "time", "string", "bits", "opaque", "compound", "reference", "enum",
             "vlen", "array", "complex">>
ClassId(c) == (CHOOSE i \in DOMAIN Classes : Classes[i] = c) - 1

FixedPoint(size, signed, order) ==
  [class |-> "fixed", size |-> size, order |-> order, signed |-> signed, offset |-> 0,
   precision |-> size * 8]

\* f32_le and the like: location and size of exponent and mantissa, and the bias.
IEEE(size, order) ==
  [class |-> "float", size |-> size, order |-> order, offset |-> 0, precision |-> size * 8,
   layout |-> IF size = 4 THEN <<23, 8, 0, 23>> ELSE <<52, 11, 0, 52>>,
   bias |-> IF size = 4 THEN 127 ELSE 1023]

Paddings == <<"terminated", "nulls", "spaces">>
Charsets == <<"ascii", "utf8">>
Code(s, x) == (CHOOSE i \in DOMAIN s : s[i] = x) - 1

Str(size, padding, charset) ==
  [class |-> "string", size |-> size, padding |-> padding, charset |-> charset]

RECURSIVE TypeSize(_)
TypeSize(t) ==
  CASE t.class = "vlen" -> 16
    [] t.class = "array" -> FoldLeft(LAMBDA a, d : a * d, TypeSize(t.base), t.dims)
    [] OTHER -> t.size

\* Bytes needed for an offset within a compound of that size.
OffsetWidth(size) == IF size <= 255 THEN 1 ELSE IF size <= 65535 THEN 2 ELSE 4
-------------------------------------------------------------------------------
(* Writing.                                                                *)

TypeHeader(class, version, bf0, bf1, size) ==
  <<ClassId(class) + 16 * version, bf0, bf1, 0>> \o LE(4, size)

OrderBit(t) == IF t.order = "big" THEN 1 ELSE 0

FixedBytes(t, version) ==
  TypeHeader("fixed", version, OrderBit(t) + (IF t.signed THEN 8 ELSE 0), 0, t.size)
    \o LE(2, t.offset) \o LE(2, t.precision)

FloatBytes(t, version) ==
  TypeHeader("float", version, 32 + OrderBit(t) + (IF t.order = "vax" THEN 64 ELSE 0), 63, t.size)
    \o LE(2, t.offset) \o LE(2, t.precision) \o t.layout \o LE(4, t.bias)

StringBytes(t, version) ==
  TypeHeader("string", version, Code(Paddings, t.padding) + 16 * Code(Charsets, t.charset), 0, t.size)

VlenHeader(t, version) ==
  IF t.isString
  THEN TypeHeader("vlen", version, 1 + 16 * Code(Paddings, t.padding), Code(Charsets, t.charset), 16)
  ELSE TypeHeader("vlen", version, 0, 0, 16)

\* Header of a type with a number of members in its bit field.
CountedHeader(t, version) ==
  TypeHeader(t.class, version, Len(t.members) % 256, (Len(t.members) \div 256) % 256, t.size)

Each(s, F(_)) == FlattenSeq([i \in DOMAIN s |-> F(s[i])])

\* Time, bit fields, opaque data and references are not written: no bytes.
RECURSIVE Serialize(_)
Serialize(t) ==
  CASE t.class = "fixed" -> FixedBytes(t, 1)
    [] t.class = "float" -> FloatBytes(t, 1)
    [] t.class = "string" -> StringBytes(t, 1)
    [] t.class = "vlen" -> VlenHeader(t, 1) \o Serialize(t.base)
    [] t.class = "compound" ->
         CountedHeader(t, 3) \o Each(t.members, LAMBDA m :
           m.name \o <<0>> \o LE(OffsetWidth(t.size), m.offset) \o Serialize(m.type))
    [] t.class = "enum" ->
         CountedHeader(t, 3) \o Serialize(t.base) \o Each(t.members, LAMBDA m : m.name \o <<0>>)
           \o Each(t.members, LAMBDA m : m.value)
    [] t.class = "array" ->
         TypeHeader("array", 3, 0, 0, TypeSize(t)) \o <<Len(t.dims)>>
           \o Each(t.dims, LAMBDA d : LE(4, d)) \o Serialize(t.base)
    [] OTHER -> << >>

\* What other writers write, in version 1, 2 or 3 of the message.
RECURSIVE Foreign(_, _)
Foreign(t, version) ==
  CASE t.class = "fixed" -> FixedBytes(t, version)
    [] t.class = "float" -> FloatBytes(t, version)
    [] t.class = "string" -> StringBytes(t, version)
    [] t.class = "time" -> TypeHeader("time", version, 0, 0, t.size) \o LE(2, t.precision)
    [] t.class = "bits" ->
         TypeHeader("bits", version, OrderBit(t), 0, t.size) \o LE(2, t.offset) \o LE(2, t.precision)
    [] t.class = "opaque" -> TypeHeader("opaque", version, Len(t.tag), 0, t.size) \o Padded(t.tag)
    [] t.class = "reference" ->
         TypeHeader("reference", version, IF t.target = "object" THEN 0 ELSE 1, 0, t.size)
    [] t.class = "vlen" -> VlenHeader(t, version) \o Foreign(t.base, version)
    [] t.class = "compound" ->
         CountedHeader(t, version) \o Each(t.members, LAMBDA m :
           IF version = 3 THEN m.name \o <<0>> \o LE(OffsetWidth(t.size), m.offset) \o Foreign(m.type, 3)
           ELSE Padded(m.name \o <<0>>) \o LE(4, m.offset) \o Zeros(24) \o Foreign(m.type, version))
    [] t.class = "enum" ->
         CountedHeader(t, version) \o Foreign(t.base, version)
           \o Each(t.members, LAMBDA m : IF version = 3 THEN m.name \o <<0>> ELSE Padded(m.name \o <<0>>))
           \o Each(t.members, LAMBDA m : m.value)
    [] t.class = "array" ->
         TypeHeader("array", version, 0, 0, TypeSize(t))
           \o (IF version = 3 THEN <<Len(t.dims)>> ELSE <<Len(t.dims), 0, 0, 0>>)
           \o Each(t.dims, LAMBDA d : LE(4, d))
           \o (IF version = 3 THEN << >> ELSE Zeros(4 * Len(t.dims)))
           \o Foreign(t.base, version)
-------------------------------------------------------------------------------
(* Reading.                                                                *)

\* read_null_terminated_string: the name and the offset behind its zero.
NameAt(b, pos) ==
  LET name == UpToZero(From(b, pos))
  IN IF pos + Len(name) >= Len(b) THEN Failed ELSE Parsed(name, pos + Len(name) + 1)

OrderOf(bf0) == IF Bit(bf0, 0) THEN "big" ELSE "little"
FloatOrder(bf0) == IF Bit(bf0, 6) THEN "vax" ELSE OrderOf(bf0)

OneOf(s, code) == IF code < Len(s) THEN Parsed(s[code + 1], 0) ELSE Failed

ParseFixed(b, h) ==
  Bind(Fields(b, 8, <<2, 2>>), LAMBDA f :
    Parsed([class |-> "fixed", size |-> h.size, order |-> OrderOf(h.bf0), signed |-> Bit(h.bf0, 3),
            offset |-> f.v[1], precision |-> f.v[2]], f.n))

ParseFloat(b, h) ==
  Bind(Fields(b, 8, <<2, 2, 1, 1, 1, 1, 4>>), LAMBDA f :
    Parsed([class |-> "float", size |-> h.size, order |-> FloatOrder(h.bf0), offset |-> f.v[1],
            precision |-> f.v[2], layout |-> SubSeq(f.v, 3, 6), bias |-> f.v[7]], f.n))

ParseTime(b, h) ==
  Bind(Fields(b, 8, <<2>>), LAMBDA f :
    Parsed([class |-> "time", size |-> h.size, precision |-> f.v[1]], f.n))

ParseString(b, h) ==
  Bind(OneOf(Paddings, Low(h.bf0)), LAMBDA p :
    Bind(OneOf(Charsets, High(h.bf0)), LAMBDA c : Parsed(Str(h.size, p.v, c.v), 8)))

ParseBits(b, h) ==
  Bind(Fields(b, 8, <<2, 2>>), LAMBDA f :
    Parsed([class |-> "bits", size |-> h.size, order |-> OrderOf(h.bf0), offset |-> f.v[1],
            precision |-> f.v[2]], f.n))

ParseOpaque(b, h) ==
  IF ~HasLen(b, 8, h.bf0) THEN Failed
  ELSE Parsed([class |-> "opaque", size |-> h.size, tag |-> Cut(b, 8, h.bf0)], 8 + Pad8(h.bf0))

ParseReference(b, h) ==
  Bind(OneOf(<<"object", "region">>, Low(h.bf0)), LAMBDA r :
    Parsed([class |-> "reference", size |-> h.size, target |-> r.v], 8))

\* Names of n enumeration members.
RECURSIVE NamesAt(_, _, _, _)
NamesAt(b, pos, n, pad) ==
  IF n = 0 THEN Parsed(<< >>, pos)
  ELSE Bind(NameAt(b, pos), LAMBDA m :
         Bind(NamesAt(b, IF pad THEN pos + Pad8(m.n - pos) ELSE m.n, n - 1, pad), LAMBDA rest :
           Parsed(<<m.v>> \o rest.v, rest.n)))

\* How a member is laid out: is its name padded, how wide is its offset, and
\* how much is skipped between that and its type.
MemberShape(h) ==
  CASE h.version \in {3, 4} \/ h.class = "complex" -> [pad |-> FALSE, width |-> OffsetWidth(h.size), skip |-> 0]
    [] h.version = 1 -> [pad |-> TRUE, width |-> 4, skip |-> 24]
    [] h.version = 2 -> [pad |-> FALSE, width |-> 4, skip |-> 24]

CompoundVersions == 1 .. 4
ArrayVersions == {2, 3}

TypeHead(b) ==
  [class |-> IF Low(b[1]) < Len(Classes) THEN Classes[Low(b[1]) + 1] ELSE "unknown",
   version |-> High(b[1]), bf0 |-> b[2], bf1 |-> b[3], size |-> Field(b, 4, 4)]

RECURSIVE ParseType(_), ParseMembers(_, _, _, _)

ParseMembers(b, pos, n, shape) ==
  IF n = 0 THEN Parsed(<< >>, pos)
  ELSE Bind(NameAt(b, pos), LAMBDA name :
       Bind(Fields(b, IF shape.pad THEN pos + Pad8(name.n - pos) ELSE name.n, <<shape.width, shape.skip>>),
         LAMBDA at :
       Bind(ParseType(From(b, at.n)), LAMBDA type :
       Bind(ParseMembers(b, at.n + type.n, n - 1, shape), LAMBDA rest :
         Parsed(<<[name |-> name.v, offset |-> at.v[1], type |-> type.v]>> \o rest.v, rest.n)))))

ParseCompound(b, h) ==
  IF h.class = "compound" /\ h.version \notin CompoundVersions THEN Failed
  ELSE Bind(ParseMembers(b, 8, h.bf0 + 256 * h.bf1, MemberShape(h)), LAMBDA ms :
         Parsed([class |-> "compound", size |-> h.size, members |-> ms.v], ms.n))

ParseEnum(b, h) ==
  LET n == h.bf0 + 256 * h.bf1
  IN Bind(ParseType(From(b, 8)), LAMBDA base :
     Bind(NamesAt(b, 8 + base.n, n, h.version < 3), LAMBDA names :
       LET w == TypeSize(base.v)
       IN IF ~HasLen(b, names.n, n * w) THEN Failed
          ELSE Parsed([class |-> "enum", size |-> h.size, base |-> base.v,
                       members |-> [i \in 1 .. n |->
                         [name |-> names.v[i], value |-> Cut(b, names.n + (i - 1) * w, w)]]],
                      names.n + n * w)))

ParseVlen(b, h) ==
  LET isString == Low(h.bf0) = 1
      padding == IF isString THEN OneOf(Paddings, High(h.bf0)) ELSE Parsed("none", 0)
      charset == IF isString THEN OneOf(Charsets, Low(h.bf1)) ELSE Parsed("none", 0)
  IN Bind(padding, LAMBDA p : Bind(charset, LAMBDA c : Bind(ParseType(From(b, 8)), LAMBDA base :
       Parsed([class |-> "vlen", isString |-> isString, padding |-> p.v, charset |-> c.v, base |-> base.v],
              8 + base.n))))

ParseArray(b, h) ==
  IF h.version \notin ArrayVersions \/ ~HasLen(b, 8, 4) THEN Failed
  ELSE LET rank == b[9]
           first == IF h.version = 2 THEN 12 ELSE 9
           permutations == IF h.version = 2 THEN 4 * rank ELSE 0
       IN Bind(Fields(b, first, [i \in 1 .. rank |-> 4] \o <<permutations>>), LAMBDA f :
            Bind(ParseType(From(b, f.n)), LAMBDA base :
              Parsed([class |-> "array", base |-> base.v, dims |-> SubSeq(f.v, 1, rank)], f.n + base.n)))

ParseType(b) ==
  IF ~HasLen(b, 0, 8) THEN Failed
  ELSE LET h == TypeHead(b)
       IN CASE h.class = "fixed" -> ParseFixed(b, h)
            [] h.class = "float" -> ParseFloat(b, h)
            [] h.class = "time" -> ParseTime(b, h)
            [] h.class = "string" -> ParseString(b, h)
            [] h.class = "bits" -> ParseBits(b, h)
            [] h.class = "opaque" -> ParseOpaque(b, h)
            [] h.class \in {"compound", "complex"} -> ParseCompound(b, h)
            [] h.class = "reference" -> ParseReference(b, h)
            [] h.class = "enum" -> ParseEnum(b, h)
            [] h.class = "vlen" -> ParseVlen(b, h)
            [] h.class = "array" -> ParseArray(b, h)
            [] OTHER -> Failed
==============================================================================
