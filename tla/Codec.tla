-------------------------------- MODULE Codec --------------------------------
(***************************************************************************)
(* Little-endian fields of HDF5's structures (utils.rs).  A structure is a *)
(* sequence of bytes, a place in it an offset from 0.  A parser returns a  *)
(* value with the offset behind it, or an error; which error is left out.  *)
(* Numbers are small: a field that holds more than Huge is Huge, and one   *)
(* of four or eight bytes that are all ones, which stands for an undefined *)
(* address or an unlimited extent, is AllOnes.                             *)
(***************************************************************************)
EXTENDS Integers, Sequences, SequencesExt

Huge == 256^3
AllOnes == -1

Failed == [ok |-> FALSE]
Parsed(v, n) == [ok |-> TRUE, v |-> v, n |-> n]

\* What the ? operator does.
Bind(r, F(_)) == IF r.ok THEN F(r) ELSE Failed

Total(s) == FoldLeft(+, 0, s)
Zeros(n) == [i \in 1 .. n |-> 0]
Pad8(n) == ((n + 7) \div 8) * 8
Padded(bs) == bs \o Zeros(Pad8(Len(bs)) - Len(bs))

HasLen(b, pos, n) == pos + n <= Len(b)
Cut(b, pos, n) == SubSeq(b, pos + 1, pos + n)
From(b, pos) == SubSeq(b, pos + 1, Len(b))

Complement(bs) == [i \in DOMAIN bs |-> 255 - bs[i]]

\* to_le_bytes, after a cast to w bytes.
RECURSIVE LE(_, _)
LE(w, v) ==
  IF v < 0 THEN Complement(LE(w, -v - 1))
  ELSE [i \in 1 .. w |-> IF i <= 3 THEN (v \div 256^(i - 1)) % 256 ELSE IF i = 4 THEN v \div Huge ELSE 0]

Positive(bs) ==
  IF \E i \in 4 .. Len(bs) : bs[i] # 0 THEN Huge
  ELSE Total([i \in DOMAIN bs |-> IF i <= 3 THEN bs[i] * 256^(i - 1) ELSE 0])

Unsigned(bs) ==
  IF Len(bs) >= 4 /\ \A i \in DOMAIN bs : bs[i] = 255 THEN AllOnes ELSE Positive(bs)

Signed(bs) == IF bs[Len(bs)] >= 128 THEN -Positive(Complement(bs)) - 1 ELSE Positive(bs)

Field(b, pos, w) == Unsigned(Cut(b, pos, w))

\* Consecutive fields of the widths ws.
Fields(b, pos, ws) ==
  IF ~HasLen(b, pos, Total(ws)) THEN Failed
  ELSE Parsed([i \in DOMAIN ws |-> Field(b, pos + Total(SubSeq(ws, 1, i - 1)), ws[i])], pos + Total(ws))

\* read_offset, read_length.
OffsetWidths == {1, 2, 4, 8}
ReadOffset(b, pos, w) ==
  IF HasLen(b, pos, w) /\ w \in OffsetWidths THEN Parsed(Field(b, pos, w), pos + w) ELSE Failed

IsUndefined(b, pos, w) == HasLen(b, pos, w) /\ \A i \in 1 .. w : b[pos + i] = 255

\* Bytes up to the first zero, or all of them.
UpToZero(bs) ==
  SubSeq(bs, 1, SelectInSeq(bs \o <<0>>, LAMBDA x : x = 0) - 1)

Bit(byte, k) == (byte \div 2^k) % 2 = 1
Low(byte) == byte % 16
High(byte) == byte \div 16

\* A checksum, of which the model only takes that a change of one byte changes it.
Lookup3(bs) == LE(4, Total([i \in DOMAIN bs |-> (bs[i] + 1) * (i + 7)]))
==============================================================================
