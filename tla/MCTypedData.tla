----------------------------- MODULE MCTypedData -----------------------------
(* Types of every class, in small sizes, for TypedData. *)
EXTENDS TypedData

One == <<0, 0, 0, 0, 0, 0, 240, 63>>
Half == <<0, 0, 0, 63>>
A == <<97>>
AB == <<97, 98>>

I32 == FixedPoint(4, TRUE, "little")
U8 == FixedPoint(1, FALSE, "little")
F64 == IEEE(8, "little")
F32 == IEEE(4, "little")

Data(type, items, count) == [type |-> type, items |-> items, count |-> count]
Pair == BuildCompound(<<[name |-> A, type |-> F64], [name |-> AB, type |-> U8]>>)
Colour == BuildEnum(I32, <<I32Member(A, 1), I32Member(AB, 258)>>)

MCDataCalls ==
  {Data(F64, <<One, One>>, 2), Data(F32, <<Half, Half, Half>>, 3), Data(I32, <<-2, 70000>>, 2), Data(U8, <<200, 3>>, 2),
   Data(Pair, <<<<One, 7>>, <<One, 8>>>>, 2), Data(Colour, <<2, 1>>, 2),
   Data(ArrayOf(I32, <<1, 2>>), <<<<1, -1>>>>, 1)}
MCShapes == {<<1, 2>>, << >>}

Value(kind, array, items) == [kind |-> kind, array |-> array, items |-> items]
MCAttrCalls ==
  {[name |-> A, value |-> Value("f64", FALSE, <<One>>)],
   [name |-> A, value |-> Value("string", TRUE, <<A, << >>, AB>>)],
   [name |-> AB, value |-> Value("i64", TRUE, <<5, -5>>)],
   [name |-> AB, value |-> Value("string", FALSE, <<AB>>)]}

\* Types of other writers.
I16B == FixedPoint(2, TRUE, "big")
U24 == FixedPoint(3, FALSE, "little")
F64B == IEEE(8, "big")
Half16 == [IEEE(4, "little") EXCEPT !.size = 2, !.precision = 16, !.layout = <<10, 5, 0, 10>>, !.bias = 15]
Bits == [class |-> "bits", size |-> 1, order |-> "little", offset |-> 0, precision |-> 8]
Time == [class |-> "time", size |-> 4, precision |-> 32]
Opaque == [class |-> "opaque", size |-> 2, tag |-> AB]
Ref(target, size) == [class |-> "reference", size |-> size, target |-> target]
Vlen == [class |-> "vlen", isString |-> TRUE, padding |-> "terminated", charset |-> "utf8", base |-> U8]
Sequence == [class |-> "vlen", isString |-> FALSE, padding |-> "none", charset |-> "none", base |-> I32]

\* A compound with room between its members.
Wide ==
  [class |-> "compound", size |-> 12,
   members |-> <<[name |-> A, offset |-> 0, type |-> I16B], [name |-> AB, offset |-> 2, type |-> U24],
                 [name |-> <<99>>, offset |-> 5, type |-> FixedPoint(7, TRUE, "little")]>>]
Grades == [class |-> "enum", size |-> 2, base |-> I16B,
           members |-> <<[name |-> A, value |-> <<0, 1>>], [name |-> AB, value |-> <<1, 0>>]>>]

Simple(n) == Space("simple", <<n>>, <<AllOnes>>)
Scalar == Space("scalar", << >>, << >>)

Object(i, text) == [index |-> i, data |-> text]
Objects == <<Object(1, AB), Object(2, <<98, 97, 98>>)>>

\* Variable-length strings in the collection behind a superblock of that size.
VlenItem(os, at, i, text) == [length |-> Len(text), os |-> os, address |-> at, index |-> i, text |-> text]
NoItem(os) == [length |-> 0, os |-> os, address |-> 0, index |-> 0, text |-> << >>]

Theirs0 == [version |-> 1, superblock |-> 0, os |-> 8, ls |-> 8, base |-> 0, compact |-> FALSE,
            type |-> I32, space |-> Simple(2), items |-> <<1, 2>>, objects |-> << >>, attrs |-> << >>,
            chunked |-> << >>, filters |-> << >>]
\* Versions of the messages and of the superblock, and widths.
Old(type, items) == [Theirs0 EXCEPT !.type = type, !.items = items, !.space = Simple(Len(items))]
Small(type, items) == [Old(type, items) EXCEPT !.superblock = 1, !.os = 4, !.ls = 2]
New(type, items) == [Old(type, items) EXCEPT !.version = 3, !.superblock = 2, !.os = 4, !.ls = 4]
Inline(type, items) == [New(type, items) EXCEPT !.compact = TRUE, !.os = 2]
Attr(name, type, space, items) == [name |-> name, type |-> type, space |-> space, items |-> items]

\* Chunked layouts of every index, and pipelines.
Chunked(f, layout, filters) == [f EXCEPT !.chunked = <<layout>>, !.filters = filters]
Deflate == [id |-> 1, name |-> << >>, flags |-> 0, data |-> <<6>>]
Shuffle == [id |-> 2, name |-> << >>, flags |-> 1, data |-> << >>]
Foreign300 == [id |-> 300, name |-> AB, flags |-> 1, data |-> <<4, 70000>>]
Theirs4 == New(I32, <<1, 2>>)

MCForeignFiles ==
  {Chunked(Theirs0, Chunks(<<4, 4>>, 300, 0, << >>), <<Shuffle, Foreign300, Deflate>>),
   Chunked(Theirs0, Chunks(<<7, 4>>, AllOnes, 0, << >>), << >>),
   Chunked(Theirs4, Chunks(<<9, 4>>, 300, 1, <<77, 2>>), <<Foreign300, Deflate>>),
   Chunked(Theirs4, Chunks(<<9>>, 300, 1, << >>), << >>),
   Chunked(Theirs4, Chunks(<<9>>, 1, 2, << >>), << >>), Chunked(Theirs4, Chunks(<<9>>, 300, 3, << >>), <<Deflate>>),
   Chunked(Theirs4, Chunks(<<9>>, 300, 4, << >>), << >>), Chunked(Theirs4, Chunks(<<9>>, AllOnes, 5, << >>), << >>),
   Chunked(Theirs4, Virtual, << >>),
   Old(I16B, <<-3, 300>>), Old(Half16, <<<<0, 60>>>>), Old(Wide, <<<<-2, 70000, -1>>, <<1, 2, 3>>>>),
   Old(Grades, <<2, 1>>), Old(Ref("object", 8), <<48, AllOnes>>), Old(Time, <<<<1, 0, 0, 0>>>>),
   Small(Str(3, "spaces", "ascii"), <<AB, A>>), Small(Opaque, <<<<1, 2>>>>), Small(Ref("object", 8), <<AllOnes>>),
   New(F64B, <<One>>), New(Wide, <<<<5, 6, -7>>>>), New(Grades, <<1>>), New(Bits, <<<<255>>>>),
   New(Str(3, "nulls", "utf8"), <<AB>>), New(ArrayOf(I16B, <<2>>), <<<<4, -4>>>>),
   Inline(U24, <<9, 65536>>), Inline(Str(2, "terminated", "ascii"), <<AB, A>>),
   Inline(Ref("region", 3), <<<<1, 2, 3>>>>), [Inline(I32, << >>) EXCEPT !.space = Space("null", << >>, << >>)],
   [Inline(I32, <<-6>>) EXCEPT !.space = Scalar],
   [Old(I32, <<1, 2>>) EXCEPT !.base = 16, !.superblock = 2],
   [New(Vlen, <<VlenItem(8, 48, 2, <<98, 97, 98>>), NoItem(8)>>) EXCEPT !.os = 8, !.ls = 8, !.objects = Objects],
   [Old(I32, <<1, 2>>) EXCEPT !.attrs =
      <<Attr(A, I16B, Simple(2), <<7, -7>>), Attr(AB, Bits, Scalar, <<<<1>>>>)>>],
   [New(I32, <<1, 2>>) EXCEPT !.objects = Objects, !.attrs =
      <<Attr(A, Vlen, Simple(2), <<VlenItem(4, 32, 1, AB), VlenItem(4, 32, 2, <<98, 97, 98>>)>>),
        Attr(AB, F64B, Space("null", << >>, << >>), << >>)>>],
   [New(Sequence, << >>) EXCEPT !.space = Space("null", << >>, << >>), !.version = 2]}

MCCuts == {0, 3, 7, 8, 9, 11, 15, 17, 25, 41}
==============================================================================
