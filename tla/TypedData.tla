------------------------------ MODULE TypedData ------------------------------
(***************************************************************************)
(* One dataset with its attributes, from the values a program gives the    *)
(* builder, or another writer puts into a file, to the values that         *)
(* Dataset's methods return.  The messages are as object headers deliver   *)
(* them (ObjectHeader), and the place of the data is as FileLayout has it. *)
(* A message or the file may be cut short before it is read.               *)
(***************************************************************************)
EXTENDS Values

CONSTANTS
  DataCalls,      \* calls of with_..._data: [type, items, count]
  Shapes,         \* arguments of with_shape
  AttrCalls,      \* calls of set_attr: [name, value]
  MaxCalls,       \* bound on the calls of one builder
  ForeignFiles,   \* files of other writers
  Cuts,           \* lengths that messages and the file are cut to
  MaxCutCalls     \* bound on the calls of a builder whose file is cut

VARIABLES
  origin,   \* the calls made so far, or the foreign file: what there is to read
  builder,  \* DatasetBuilder: type, shape and data, << >> while not set, and attributes
  file,     \* the file's bytes and the messages of the dataset's header
  damaged,  \* has something been cut?
  handle,   \* the parsed superblock
  got       \* the last operation on the dataset and its answer

vars == <<origin, builder, file, damaged, handle, got>>

None == [none |-> TRUE]
Own(calls) == [own |-> TRUE, calls |-> calls]
Theirs(f) == [own |-> FALSE, file |-> f]
NotRead == [op |-> "none", answer |-> Failed]
-------------------------------------------------------------------------------
(* Values as the program means them: integers, the bits of floats, texts,  *)
(* sequences for compounds and arrays, numbers of enumeration members,     *)
(* addresses; Encode is how they lie in memory or in a file.               *)

RECURSIVE Encode(_, _)
Encode(t, item) ==
  CASE t.class = "fixed" -> Reordered(LE(t.size, item), t.order)
    [] t.class = "float" -> Reordered(item, t.order)
    [] t.class = "string" -> item \o [i \in 1 .. t.size - Len(item) |-> IF t.padding = "spaces" THEN 32 ELSE 0]
    [] t.class = "enum" -> t.members[item].value
    [] t.class = "reference" -> IF t.target = "object" THEN LE(t.size, item) ELSE item
    [] t.class = "vlen" -> LE(4, item.length) \o LE(item.os, item.address) \o LE(4, item.index)
    [] t.class \in {"bits", "opaque", "time"} -> item
    [] t.class = "array" -> Each(item, LAMBDA x : Encode(t.base, x))
    [] t.class = "compound" -> FlattenSeq([i \in DOMAIN t.members |-> Encode(t.members[i].type, item[i])])

EncodeAll(t, items) == Each(items, LAMBDA x : Encode(t, x))

\* What each operation should answer about items of type t.
Numbers(op, t, items) ==
  [i \in DOMAIN items |->
    IF t.class = "fixed" THEN FromInt(items[i])
    ELSE IF op = "f32" /\ t.size = 8 THEN Narrowed(items[i]) ELSE FromFloat(items[i])]

Meaning(op, t, items) ==
  CASE op \in {"f64", "f32", "i64", "i32", "u64", "slice"} -> Numbers(op, t, items)
    [] op = "strings" -> items
    [] op = "fields" -> [j \in DOMAIN t.members |->
         [name |-> t.members[j].name,
          v |-> Numbers("f64", t.members[j].type, [i \in DOMAIN items |-> items[i][j]])]]
    [] op = "enum" -> [i \in DOMAIN items |-> [known |-> TRUE, name |-> t.members[items[i]].name]]
    [] op = "array" -> [dims |-> t.dims, v |-> Numbers("f64", t.base, FlattenSeq(items))]
    [] op = "references" -> items
    [] op = "regions" -> items
    [] op = "vlen" -> [i \in DOMAIN items |-> items[i].text]
    [] op = "dtype" -> Classify(t)

\* The operations that are for values of type t.
OperationsFor(t) ==
  {"dtype"} \cup
  CASE t.class = "fixed" -> {"f64", "f32", "i64", "i32", "u64", "slice"}
    [] t.class = "float" -> {"slice"} \cup IF t.size \in {4, 8} THEN {"f64", "f32"} ELSE {}
    [] t.class = "string" -> {"strings"}
    [] t.class = "compound" -> {"fields"}
    [] t.class = "enum" -> {"enum"}
    [] t.class = "array" -> {"array"}
    [] t.class = "reference" -> {IF t.target = "object" THEN "references" ELSE "regions"}
    [] t.class = "vlen" -> {"vlen"}
    [] OTHER -> {}

Operations == {"f64", "f32", "i64", "i32", "u64", "slice", "strings", "fields", "enum", "array",
               "references", "regions", "vlen", "dtype", "shape", "layout", "filters", "attrs"}
-------------------------------------------------------------------------------
(* The builder.                                                            *)

Init ==
  /\ origin = Own(<< >>)
  /\ builder = [type |-> << >>, shape |-> << >>, data |-> << >>, attrs |-> << >>]
  /\ file = None
  /\ damaged = FALSE
  /\ handle = Failed
  /\ got = NotRead

Building == file = None /\ origin.own /\ Len(origin.calls) < MaxCalls
Called(call) == origin' = Own(Append(origin.calls, call))

\* Fault: the data always set the shape.
ShapeOfData(shape, count) == <<<<count>>>>

\* with_f64_data and the like: a shape set before stays.
ShapeAfterData(shape, count) == IF shape = << >> THEN <<<<count>>>> ELSE shape
WithData(d) ==
  /\ Building
  /\ Called([data |-> d])
  /\ builder' = [builder EXCEPT !.type = <<d.type>>, !.data = <<EncodeAll(d.type, d.items)>>,
                                !.shape = ShapeAfterData(@, d.count)]
  /\ UNCHANGED <<file, damaged, handle, got>>

WithShape(shape) ==
  /\ Building
  /\ Called([shape |-> shape])
  /\ builder' = [builder EXCEPT !.shape = <<shape>>]
  /\ UNCHANGED <<file, damaged, handle, got>>

SetAttr(a) ==
  /\ Building
  /\ Called([attr |-> a])
  /\ builder' = [builder EXCEPT !.attrs = Append(@, a)]
  /\ UNCHANGED <<file, damaged, handle, got>>

\* Behind the superblock come the headers, of which the messages are given,
\* and then the data.
HeaderGap == 16
DataAt == 48 + HeaderGap

ShapeSpace(shape) == Space(IF shape = << >> THEN "scalar" ELSE "simple", shape, << >>)

\* FileWriter.finish for a dataset without chunks: that nothing compares the
\* length of the data with the shape is what the code does.
Finish ==
  /\ file = None /\ origin.own
  /\ builder.type # << >> /\ builder.shape # << >> /\ builder.data # << >>
  /\ LET data == builder.data[1]
         end == DataAt + Len(data)
     IN file' = [bytes |-> SuperblockBytes(Superblock(3, 8, 8, 0, end, 48)) \o Zeros(HeaderGap) \o data,
                 type |-> Serialize(builder.type[1]),
                 space |-> SpaceBytes(ShapeSpace(builder.shape[1]), 8),
                 layout |-> ContiguousBytes(DataAt, Len(data)),
                 pipeline |-> << >>,
                 attrs |-> [i \in DOMAIN builder.attrs |->
                   AttributeBytes(BuildAttr(builder.attrs[i].name, builder.attrs[i].value), 2, 8)]]
  /\ UNCHANGED <<origin, builder, damaged, handle, got>>

\* A file of another writer: superblock, heap collection, data, with a block of
\* the user's before them or not; addresses are relative to the superblock.
BeforeData(f) ==
  ForeignSuperblock(Superblock(f.superblock, f.os, f.ls, f.base, 0, 0)) \o ForeignCollection(f.objects, f.ls)

ForeignMessages(f) ==
  LET data == EncodeAll(f.type, f.items)
      layout == IF f.chunked # << >> THEN f.chunked[1]
                ELSE IF f.compact THEN Compact(data) ELSE Contiguous(Len(BeforeData(f)), Len(data))
  IN [bytes |-> Zeros(f.base) \o BeforeData(f) \o data,
      type |-> Foreign(f.type, f.version),
      space |-> ForeignSpace(f.space, IF f.version = 1 THEN 1 ELSE 2, f.ls),
      layout |-> ForeignLayout(layout, IF f.version = 1 THEN 3 ELSE 4, f.os, f.ls),
      pipeline |-> IF f.filters = << >> THEN << >> ELSE PipelineBytes(f.filters, IF f.version = 1 THEN 1 ELSE 2),
      attrs |-> [i \in DOMAIN f.attrs |->
        LET a == f.attrs[i]
        IN ForeignAttribute(Attribute(a.name, a.type, a.space, EncodeAll(a.type, a.items)), f.version, f.ls)]]

TakeForeign(f) ==
  /\ file = None /\ origin = Own(<< >>)
  /\ origin' = Theirs(f)
  /\ file' = ForeignMessages(f)
  /\ UNCHANGED <<builder, damaged, handle, got>>

Shorter(s, n) == SubSeq(s, 1, IF n < Len(s) THEN n ELSE Len(s))

Cutting(field, n) ==
  /\ file # None /\ ~damaged /\ ~handle.ok
  /\ origin.own => Len(origin.calls) <= MaxCutCalls
  /\ IF field = "attrs"
     THEN file.attrs # << >> /\ file' = [file EXCEPT !.attrs[1] = Shorter(@, n)]
     ELSE n < Len(file[field]) /\ file' = [file EXCEPT ![field] = Shorter(@, n)]
  /\ damaged' = TRUE
  /\ UNCHANGED <<origin, builder, handle, got>>

\* File::open, from_bytes.
Open ==
  /\ file # None /\ ~handle.ok
  /\ handle' = Bind(FindSignature(file.bytes), LAMBDA at : ParseSuperblock(file.bytes, at.v))
  /\ handle'.ok
  /\ UNCHANGED <<origin, builder, file, damaged, got>>
-------------------------------------------------------------------------------
(* Reading.                                                                *)

ReadNumbers(field) == ReadF64(field.raw, field.type)

Convert(op, t, s, layout, raw, os, ls, base) ==
  CASE op = "f64" -> ReadF64(raw, t)
    [] op = "f32" -> ReadF32(raw, t)
    [] op = "i64" -> ReadI64(raw, t)
    [] op = "i32" -> ReadI32(raw, t)
    [] op = "u64" -> ReadU64(raw, t)
    [] op = "strings" -> ReadStrings(raw, t)
    [] op = "fields" -> Bind(ReadFields(raw, t), LAMBDA fs :
         IF \A j \in DOMAIN fs.v : ReadNumbers(fs.v[j]).ok
         THEN Answer([j \in DOMAIN fs.v |-> [name |-> fs.v[j].name, v |-> ReadNumbers(fs.v[j]).v]]) ELSE Failed)
    [] op = "enum" -> ReadEnum(raw, t)
    [] op = "array" -> Bind(ReadArray(raw, t), LAMBDA a :
         Bind(ReadF64(a.v.raw, a.v.base), LAMBDA r : Answer([dims |-> a.v.dims, v |-> r.v])))
    [] op = "references" -> ReadReferences(raw, t, os)
    [] op = "regions" -> ReadRegions(raw, t)
    [] op = "vlen" -> IF t.class = "vlen" THEN ReadVlen(file.bytes, raw, NumElements(s), os, ls) ELSE Failed
    [] op = "slice" ->
         IF ~Numeric(t) THEN Failed
         ELSE Bind(Slice(file.bytes, layout, s, t, t.size, base), LAMBDA e :
                Answer([i \in DOMAIN e.v |-> IF t.class = "float" THEN FromFloat(e.v[i])
                                             ELSE FromInt(IF t.signed THEN Signed(e.v[i]) ELSE Unsigned(e.v[i]))]))

ReadAttrs(os, ls) ==
  LET parsed == [i \in DOMAIN file.attrs |-> ParseAttribute(file.attrs[i], ls)]
  IN IF \A i \in DOMAIN parsed : parsed[i].ok
     THEN Answer(AttrsToMap([i \in DOMAIN parsed |-> parsed[i].v], file.bytes, os, ls)) ELSE Failed

\* filter_pipeline: a message that does not parse is taken for none.
ReadFilters ==
  LET parsed == ParsePipeline(file.pipeline)
  IN IF parsed.ok THEN parsed.v ELSE << >>

\* Dataset's methods: each parses the messages it needs again.
ReadDataset(op, os, ls, base) ==
  CASE op = "attrs" -> ReadAttrs(os, ls)
    [] op = "shape" -> Bind(ParseSpace(file.space, ls), LAMBDA s : Answer(s.v.dims))
    [] op = "dtype" -> Bind(ParseType(file.type), LAMBDA t : Answer(Classify(t.v)))
    [] op = "layout" -> Bind(ParseLayout(file.layout, os, ls), LAMBDA l : Answer(l.v))
    [] op = "filters" -> Answer(ReadFilters)
    [] OTHER ->
         Bind(ParseType(file.type), LAMBDA t :
         Bind(ParseSpace(file.space, ls), LAMBDA s :
         Bind(ParseLayout(file.layout, os, ls), LAMBDA l :
         Bind(RawBytes(file.bytes, l.v, s.v, t.v), LAMBDA raw :
           Convert(op, t.v, s.v, l.v, raw.v, os, ls, base)))))

\* The data of chunked datasets are left to the modules about chunks.
Modelled(op) ==
  (~origin.own /\ origin.file.chunked # << >>) => op \in {"dtype", "shape", "layout", "filters", "attrs"}

\* base is where the file's buffer lies in memory, modulo 8.
Read(op, base) ==
  /\ handle.ok /\ got = NotRead /\ Modelled(op)
  /\ got' = [op |-> op, answer |-> ReadDataset(op, handle.v.os, handle.v.ls, base)]
  /\ UNCHANGED <<origin, builder, file, damaged, handle>>

Next ==
  \/ \E d \in DataCalls : WithData(d)
  \/ \E shape \in Shapes : WithShape(shape)
  \/ \E a \in AttrCalls : SetAttr(a)
  \/ Finish
  \/ \E f \in ForeignFiles : TakeForeign(f)
  \/ \E field \in {"bytes", "type", "space", "layout", "pipeline", "attrs"}, n \in Cuts : Cutting(field, n)
  \/ Open
  \/ \E op \in Operations, base \in {0, 4} : (base = 0 \/ op = "slice") /\ Read(op, base)

Spec == Init /\ [][Next]_vars
-------------------------------------------------------------------------------
(* What there is to read, from the calls or the foreign file alone.        *)

LastCall(calls, Has(_)) == calls[SelectLastInSeq(calls, Has)]
IsData(call) == "data" \in DOMAIN call
IsShape(call) == "shape" \in DOMAIN call
IsAttr(call) == "attr" \in DOMAIN call

\* The last shape asked for, or the number of elements of the first data.
ShapeAsked(calls) ==
  IF \E i \in DOMAIN calls : IsShape(calls[i]) THEN LastCall(calls, IsShape).shape
  ELSE <<calls[SelectInSeq(calls, IsData)].data.count>>

Given ==
  IF origin.own
  THEN LET d == LastCall(origin.calls, IsData).data
       IN [type |-> d.type, items |-> d.items, dims |-> ShapeAsked(origin.calls)]
  ELSE [type |-> origin.file.type, items |-> origin.file.items, dims |-> origin.file.space.dims]

LayoutGiven ==
  LET data == EncodeAll(Given.type, Given.items)
      f == origin.file
  IN CASE origin.own -> Contiguous(DataAt, Len(data))
       [] ~origin.own /\ f.chunked # << >> -> f.chunked[1]
       [] ~origin.own /\ f.chunked = << >> /\ f.compact -> Compact(data)
       [] OTHER -> Contiguous(Len(BeforeData(f)), Len(data))

\* Does the shape have as many elements as there are?
Fits(g) ==
  LET n == IF origin.own THEN Product(g.dims) ELSE NumElements(origin.file.space)
  IN n * TypeSize(g.type) = Len(EncodeAll(g.type, g.items))

\* Integers that the operation's type has: the readers of signed integers take
\* all data for signed, those of unsigned integers for unsigned.
Holds(op, t, x) ==
  CASE op \in {"i64", "i32"} /\ ~t.signed -> x < 128 * 256^(t.size - 1)
    [] op = "u64" -> x >= 0
    [] OTHER -> TRUE
InRange(op, g) ==
  /\ g.type.class = "fixed" => \A i \in DOMAIN g.items : Holds(op, g.type, g.items[i])
  /\ op = "slice" => g.type.order = "little"

\* The values of attributes: the last of each name, where an array of one is
\* its element, and no string is left of empty ones.
Canonical(value) ==
  AttrValue(value.kind, IF value.kind = "string" /\ \A i \in DOMAIN value.items : value.items[i] = << >>
                        THEN << >> ELSE value.items)
KindOf(t) ==
  CASE t.class = "float" -> "f64" [] t.class \in {"string", "vlen"} -> "string" [] t.class = "fixed" -> "i64"
    [] OTHER -> "none"
AttrsGiven ==
  IF origin.own
  THEN LET sets == SelectSeq(origin.calls, IsAttr)
       IN {[name |-> sets[i].attr.name, value |-> Canonical(sets[i].attr.value)] :
             i \in {i \in DOMAIN sets : \A j \in DOMAIN sets : j > i => sets[j].attr.name # sets[i].attr.name}}
  ELSE {[name |-> a.name, value |-> AttrValue(KindOf(a.type), IF a.type.class = "vlen" THEN Meaning("vlen", a.type, a.items) ELSE a.items)] :
          a \in {a \in Range(origin.file.attrs) : KindOf(a.type) # "none"}}

\* A dataset is read as it is: every operation for its type answers the values
\* given, in the shape given, and any other operation is refused.
Right(op, answer, g) ==
  CASE op = "shape" -> answer = Answer(g.dims)
    [] op = "layout" -> answer = Answer(LayoutGiven)
    [] op = "filters" -> answer = Answer(IF origin.own THEN << >> ELSE origin.file.filters)
    [] op = "attrs" -> TRUE
    [] op \in OperationsFor(g.type) /\ (op = "dtype" \/ Fits(g)) ->
         IF op = "slice" THEN answer.ok /\ InRange(op, g) => answer.v = Meaning(op, g.type, g.items)
         ELSE InRange(op, g) => answer = Answer(Meaning(op, g.type, g.items))
    [] g.type.class = "float" /\ op \in {"i64", "i32", "u64"} -> answer.ok => Fits(g)
    [] OTHER -> ~answer.ok

Undamaged(own) == got # NotRead /\ ~damaged /\ origin.own = own

\* What DatasetBuilder was given is what Dataset reads, whatever the order and
\* repetition of the builder's calls; data that do not fill the shape are
\* refused by every read (they are written without complaint).
ReadsWhatWasGiven == Undamaged(TRUE) => Right(got.op, got.answer, Given)

\* Files of other writers read as what is in them: all classes of types, the
\* versions of every message and of the superblock, both byte orders, and
\* every width of offsets and lengths.  Addresses behind a user's block are
\* not: base_address is parsed and never used.
ForeignReads ==
  Undamaged(FALSE) /\ origin.file.base = 0 => Right(got.op, got.answer, Given)

\* Attributes are what was set last under each name, or in a foreign file
\* those that have a value of AttrValue's kinds.
AttributesReadBack ==
  (Undamaged(TRUE) \/ Undamaged(FALSE)) /\ got.op = "attrs" => got.answer = Answer(AttrsGiven)

\* What is cut short is never taken for something else, with two exceptions: a
\* read of a dataset fails or answers as if nothing were cut.  An attribute
\* whose value is cut may lose its last elements, or all of it.  A cut filter
\* pipeline is no error, since filter_pipeline drops it: it is taken for no
\* pipeline at all, never for some of its filters or for others.
PrefixOf(found) ==
  \E whole \in AttrsGiven :
    found.name = whole.name /\ IsPrefix(found.value.items, whole.value.items)
PipelineCut == ~origin.own /\ file.pipeline # ForeignMessages(origin.file).pipeline
TruncationNoticed ==
  (got # NotRead /\ damaged /\ got.answer.ok /\ (~origin.own => origin.file.base = 0)) =>
    CASE got.op = "attrs" -> \A found \in got.answer.v : PrefixOf(found)
      [] got.op = "filters" /\ PipelineCut -> got.answer.v \in {<< >>, origin.file.filters}
      [] OTHER -> Right(got.op, got.answer, Given)
==============================================================================
