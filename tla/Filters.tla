------------------------------- MODULE Filters -------------------------------
(***************************************************************************)
(* The filters a chunk goes through on its way to the file and back        *)
(* (rustyhdf5-format/src/filters.rs).  Bytes are numbers below B, so that  *)
(* the checksum has words below B^2, sums modulo B^2 - 1 and accumulators  *)
(* of B^4 values: 256 in the code.  zlib is external: a stream that checks *)
(* itself.                                                                 *)
(***************************************************************************)
EXTENDS Integers, Sequences

CONSTANTS
  B,             \* the values of a byte
  BlockWords,    \* BLOCK_WORDS
  Error          \* Err(_)

ASSUME ByteAssumption == B \in Nat /\ B >= 2 /\ BlockWords \in Nat /\ BlockWords >= 1
\* 360 words are the most after which the second sum has not overflowed.
ASSUME BlockAssumption == 2 + 2 * BlockWords + BlockWords * (BlockWords + 1) <= 2 * B * B

Bytes == 0 .. B - 1

ASSUME ErrorAssumption == Error \notin Seq(Bytes)

M == B * B - 1
Words(d) == (Len(d) + 1) \div 2

\* Word k, counted from 0; a last odd byte is the high byte of a word.
Word(d, k) == B * d[2 * k + 1] + (IF 2 * k + 2 <= Len(d) THEN d[2 * k + 2] ELSE 0)
-------------------------------------------------------------------------------
\* Fault: one word more.
BlockOneLonger == BlockWords + 1

Block == BlockWords

\* Whole blocks of words are summed without taking remainders in between.
InBlock(d, k) == k < Block * (Len(d) \div (2 * Block))
BlockEnd(k) == (k + 1) % Block = 0

\* The remainder is taken after a block, and after every word that is in none;
\* until then an accumulator has a limited width.
Reduced(d, k, sum) ==
  IF InBlock(d, k) /\ ~BlockEnd(k) THEN sum % (B * B * B * B) ELSE (sum % (B * B * B * B)) % M

InFile(s1, s2) == <<s1 % B, s1 \div B, s2 % B, s2 \div B>>

\* fletcher32_compute, in the order of its bytes in the file.
Fletcher(d) ==
  LET sum1[k \in 0 .. Words(d)] ==
        IF k = 0 THEN 0 ELSE Reduced(d, k - 1, sum1[k - 1] + Word(d, k - 1))
      added(k) == IF InBlock(d, k - 1) THEN sum1[k - 1] + Word(d, k - 1) ELSE sum1[k]
      sum2[k \in 0 .. Words(d)] ==
        IF k = 0 THEN 0 ELSE Reduced(d, k - 1, sum2[k - 1] + added(k))
  IN InFile(sum1[Words(d)], sum2[Words(d)])

\* The checksum as it is defined: all sums modulo M.
Reference(d) ==
  LET sum1[k \in 0 .. Words(d)] == IF k = 0 THEN 0 ELSE (sum1[k - 1] + Word(d, k - 1)) % M
      sum2[k \in 0 .. Words(d)] == IF k = 0 THEN 0 ELSE (sum2[k - 1] + sum1[k]) % M
  IN InFile(sum1[Words(d)], sum2[Words(d)])

FletcherAppend(d) == d \o Fletcher(d)

\* Fault: the checksum is cut off and not compared.
FletcherStripped(d) == IF Len(d) < 4 THEN Error ELSE SubSeq(d, 1, Len(d) - 4)

FletcherVerify(d) ==
  IF Len(d) < 4 THEN Error
  ELSE LET payload == SubSeq(d, 1, Len(d) - 4)
       IN IF payload \o Fletcher(payload) = d THEN payload ELSE Error
-------------------------------------------------------------------------------
\* Elements are n bytes wide; byte j of all elements goes before byte j + 1.
Shuffle(d, n) ==
  IF n <= 1 THEN d
  ELSE IF Len(d) % n # 0 THEN Error
  ELSE LET count == Len(d) \div n
       IN [x \in 1 .. Len(d) |-> d[((x - 1) % count) * n + ((x - 1) \div count) + 1]]

Unshuffle(d, n) ==
  IF n <= 1 THEN d
  ELSE IF Len(d) % n # 0 THEN Error
  ELSE LET count == Len(d) \div n
       IN [x \in 1 .. Len(d) |-> d[((x - 1) % n) * count + ((x - 1) \div n) + 1]]

\* zlib (flate2): a stream with a header and a check value.
Check(d) ==
  LET sum[k \in 0 .. Len(d)] == IF k = 0 THEN 1 ELSE (sum[k - 1] + d[k]) % B
  IN sum[Len(d)]
Deflate(d) == <<B - 1>> \o d \o <<Check(d)>>
Inflate(d) ==
  IF Len(d) < 2 THEN Error
  ELSE LET payload == SubSeq(d, 2, Len(d) - 1)
       IN IF Deflate(payload) = d THEN payload ELSE Error
-------------------------------------------------------------------------------
FilterIds == {"shuffle", "deflate", "fletcher32"}

Compressed(d, filter, elementSize) ==
  CASE filter = "shuffle" -> Shuffle(d, elementSize)
    [] filter = "deflate" -> Deflate(d)
    [] filter = "fletcher32" -> FletcherAppend(d)
    [] OTHER -> Error

Decompressed(d, filter, elementSize) ==
  CASE filter = "shuffle" -> Unshuffle(d, elementSize)
    [] filter = "deflate" -> Inflate(d)
    [] filter = "fletcher32" -> FletcherVerify(d)
    [] OTHER -> Error

\* compress_chunk: forward; the first error is the result.
Compress(d, pipeline, elementSize) ==
  LET upTo[k \in 0 .. Len(pipeline)] ==
        IF k = 0 THEN d
        ELSE LET c == upTo[k - 1]
             IN IF c = Error THEN Error ELSE Compressed(c, pipeline[k], elementSize)
  IN upTo[Len(pipeline)]

\* Fault: decompressing goes forward too.
DecompressForward(d, pipeline, elementSize) ==
  LET upTo[k \in 0 .. Len(pipeline)] ==
        IF k = 0 THEN d
        ELSE LET c == upTo[k - 1]
             IN IF c = Error THEN Error ELSE Decompressed(c, pipeline[k], elementSize)
  IN upTo[Len(pipeline)]

\* decompress_chunk: in reverse.
Decompress(d, pipeline, elementSize) ==
  LET downTo[k \in 1 .. Len(pipeline) + 1] ==
        IF k = Len(pipeline) + 1 THEN d
        ELSE LET c == downTo[k + 1]
             IN IF c = Error THEN Error ELSE Decompressed(c, pipeline[k], elementSize)
  IN downTo[1]
===============================================================================
