----------------------------- MODULE StorageProofs -----------------------------
(***************************************************************************)
(* Proofs about the programs that share one file on disk: the readers and  *)
(* writers of rustyhdf5-io, and the sessions of the Python bindings.       *)
(***************************************************************************)
EXTENDS Sessions, FileIo, Induction, SequenceTheorems

ioAll == <<storageVars, ioVars>>

-----------------------------------------------------------------------------
(* FileWriter and a reader that loads                                      *)

\* One sequence begins another.
Begins(s, t) == Len(s) <= Len(t) /\ \A i \in 1 .. Len(s) : s[i] = t[i]

Results == {None, "ok", "error"}

WriterType == [data : Seq(Nat), result : Results, begun : SUBSET Seq(Nat), calls : Nat]

SlurpType == [way : Ways, len : Nat, got : Seq(Nat), phase : {"again", "read", "done", "error"},
              torn : BOOLEAN, grown : BOOLEAN, result : Results]

\* What is on disk and what is pending make up what the writer was given.
OnDisk ==
  /\ disk # None => /\ disk \in Seq(Nat)
                    /\ writer.data \in writer.begun /\ Begins(disk, writer.data)
  /\ pending # None => /\ pending \in Seq(Nat) /\ disk # None
                       /\ writer.data = disk \o pending
                       /\ writer.result = None
  /\ writer.result = "ok" => pending = None /\ disk = writer.data

\* What a reader has was written at that place; it begins what is on disk unless
\* the file was begun anew; and when nothing was written since it began and the
\* last flush had returned Ok, the file is whole and has the length it was told.
Placed(got, begun) ==
  \A i \in 1 .. Len(got) : \E image \in begun : i \in DOMAIN image /\ got[i] = image[i]

Undisturbed(s) == ~s.torn /\ ~s.grown /\ s.result = "ok"

Slurping ==
  /\ slurp \in SlurpType /\ disk # None
  /\ Placed(slurp.got, writer.begun)
  /\ ~slurp.torn => Begins(slurp.got, disk)
  /\ Undisturbed(slurp) => /\ disk = writer.data
                           /\ slurp.way # "end" => slurp.len = Len(disk)
                           /\ slurp.phase = "done" => Len(slurp.got) = Len(disk)

WriterInv ==
  /\ writer # None \/ slurp # None => writer \in WriterType /\ OnDisk
  /\ slurp # None => Slurping

-----------------------------------------------------------------------------
LEMMA FlushKeeps ==
  ASSUME WriterInv, writer # None, NEW data \in Seq(Nat), Flush(data)
  PROVE  WriterInv'
<1> USE IoAssumption
<1>1. /\ disk' = <<>> /\ pending' = data
      /\ writer'.data = data /\ writer'.result = None
      /\ writer'.begun = writer.begun \cup {data} /\ writer' \in WriterType
  BY DEF Flush, CreateTruncate, WriterInv, WriterType, Results
<1>2. <<>> # None /\ <<>> \in Seq(Nat) /\ Begins(<<>>, data)
  <2>1. <<>> \in Seq(Nat) /\ Len(<<>>) = 0 /\ Len(data) \in Nat
    BY LenProperties
  <2>2. Begins(<<>>, data)
    BY <2>1 DEF Begins
  <2> QED
    BY <2>1, <2>2
<1>3. OnDisk'
  <2>1. <<>> \o data = data
    BY ConcatEmptySeq
  <2>2. data \in writer'.begun
    BY <1>1
  <2>3. writer'.data = disk' \o pending'
    BY <1>1, <2>1
  <2> QED
    BY <1>1, <1>2, <2>2, <2>3 DEF OnDisk
<1>4. ASSUME slurp' # None PROVE Slurping'
  <2>1. slurp # None /\ slurp' = [slurp EXCEPT !.torn = TRUE]
    BY <1>4 DEF Flush
  <2>2. slurp \in SlurpType /\ Placed(slurp.got, writer.begun)
    BY <2>1 DEF WriterInv, Slurping
  <2>3. slurp' \in SlurpType /\ slurp'.torn = TRUE /\ slurp'.got = slurp.got
    BY <2>1, <2>2 DEF SlurpType
  <2>4. Placed(slurp.got, writer'.begun)
    BY <2>2, <1>1 DEF Placed
  <2> QED
    BY <1>1, <1>2, <2>3, <2>4 DEF Slurping, Undisturbed
<1> QED
  BY <1>1, <1>3, <1>4 DEF WriterInv

\* Moving the first element of what follows to the end of what precedes.
LEMMA FirstMoves ==
  ASSUME NEW T, NEW d \in Seq(T), NEW p \in Seq(T), p # <<>>
  PROVE  d \o p = Append(d, Head(p)) \o Tail(p)
<1>1. PICK h \in T, t \in Seq(T) : h = Head(p) /\ t = Tail(p)
  BY HeadTailProperties
<1>2. Len(t) = Len(p) - 1 /\ \A i \in 1 .. Len(t) : t[i] = p[i + 1]
  BY <1>1, HeadTailProperties
<1>3. p[1] = h
  BY <1>1
<1>4. Len(d) \in Nat /\ Len(p) \in Nat /\ Len(t) \in Nat
  BY LenProperties
<1>5. PICK e \in Seq(T) : /\ e = Append(d, h) /\ Len(e) = Len(d) + 1
                         /\ \A i \in 1 .. Len(d) : e[i] = d[i]
                         /\ e[Len(d) + 1] = h
  BY AppendProperties
<1>6. /\ d \o p \in Seq(T) /\ Len(d \o p) = Len(d) + Len(p)
      /\ \A i \in 1 .. Len(d) + Len(p) : (d \o p)[i] = IF i <= Len(d) THEN d[i] ELSE p[i - Len(d)]
  BY ConcatProperties
<1>7. /\ e \o t \in Seq(T) /\ Len(e \o t) = Len(e) + Len(t)
      /\ \A i \in 1 .. Len(e) + Len(t) : (e \o t)[i] = IF i <= Len(e) THEN e[i] ELSE t[i - Len(e)]
  BY ConcatProperties
<1>8. PICK x \in Seq(T) : x = d \o p
  BY <1>6
<1>9. PICK y \in Seq(T) : y = e \o t
  BY <1>7
<1>10. Len(x) = Len(y) /\ Len(x) = Len(d) + Len(p)
  <2>1. Len(x) = Len(d) + Len(p)
    BY <1>6, <1>8
  <2>2. Len(y) = Len(e) + Len(t)
    BY <1>7, <1>9
  <2>3. Len(e) = Len(d) + 1 /\ Len(t) = Len(p) - 1
    BY <1>2, <1>5
  <2> QED
    BY <2>1, <2>2, <2>3, <1>4
<1>11. ASSUME NEW i \in 1 .. Len(x) PROVE x[i] = y[i]
  <2>1. x[i] = IF i <= Len(d) THEN d[i] ELSE p[i - Len(d)]
    BY <1>6, <1>8, <1>10
  <2>2. y[i] = IF i <= Len(d) + 1 THEN e[i] ELSE t[i - (Len(d) + 1)]
    BY <1>2, <1>4, <1>5, <1>7, <1>9, <1>10
  <2>3. i \in Int /\ 1 <= i /\ i <= Len(d) + Len(p)
    BY <1>10, <1>4
  <2>4. CASE i <= Len(d)
    BY <2>1, <2>2, <2>3, <2>4, <1>4, <1>5
  <2>5. CASE i = Len(d) + 1
    <3>1. i - Len(d) = 1 /\ ~(i <= Len(d))
      BY <2>5, <1>4
    <3> QED
      BY <2>1, <2>2, <2>5, <3>1, <1>3, <1>4, <1>5
  <2>6. CASE i > Len(d) + 1
    <3> DEFINE j == i - (Len(d) + 1)
    <3>1. j \in 1 .. Len(t) /\ j + 1 = i - Len(d)
      BY <2>3, <2>6, <1>2, <1>4
    <3>2. y[i] = t[j]
      BY <2>2, <2>3, <2>6, <1>4
    <3>3. x[i] = p[j + 1]
      BY <2>1, <2>3, <2>6, <1>4, <3>1
    <3> QED
      BY <3>1, <3>2, <3>3, <1>2
  <2> QED
    BY <2>3, <2>4, <2>5, <2>6, <1>4
<1>12. x = y
  BY <1>10, <1>11, SeqEqual
<1> QED
  BY <1>1, <1>5, <1>8, <1>9, <1>12

LEMMA FlushBlockKeeps ==
  ASSUME WriterInv, FlushBlock
  PROVE  WriterInv'
<1> USE IoAssumption
<1>1. /\ writer # None /\ pending # None /\ pending # <<>>
      /\ disk' = Append(disk, Head(pending)) /\ pending' = Tail(pending)
      /\ UNCHANGED writer
  BY DEF FlushBlock, AppendBlock
<1>2. /\ writer \in WriterType /\ disk \in Seq(Nat) /\ pending \in Seq(Nat)
      /\ writer.data \in writer.begun /\ Begins(disk, writer.data)
      /\ writer.data = disk \o pending /\ writer.result = None
  BY <1>1 DEF WriterInv, OnDisk
<1>3. /\ Head(pending) \in Nat /\ Tail(pending) \in Seq(Nat)
      /\ pending = <<Head(pending)>> \o Tail(pending) /\ Len(pending) > 0
  BY <1>1, <1>2, HeadTailProperties, EmptySeq, LenProperties
<1>4. /\ disk' \in Seq(Nat) /\ Len(disk') = Len(disk) + 1
      /\ \A i \in 1 .. Len(disk) : disk'[i] = disk[i]
      /\ disk'[Len(disk) + 1] = Head(pending)
  BY <1>1, <1>2, <1>3, AppendProperties
<1>5. Len(disk) \in Nat /\ Len(pending) \in Nat /\ Len(Tail(pending)) \in Nat
  BY <1>2, <1>3, LenProperties
<1>6. writer.data = disk' \o Tail(pending)
  BY <1>1, <1>2, FirstMoves
<1>7. Begins(disk', writer.data)
  BY <1>3, <1>4, <1>5, <1>6, ConcatProperties DEF Begins
<1>8. OnDisk'
  BY <1>1, <1>2, <1>3, <1>4, <1>6, <1>7 DEF OnDisk
<1>9. ASSUME slurp' # None PROVE Slurping'
  <2>1. slurp # None /\ slurp' = [slurp EXCEPT !.grown = TRUE]
    BY <1>9 DEF FlushBlock
  <2>2. /\ slurp \in SlurpType /\ Placed(slurp.got, writer.begun)
        /\ ~slurp.torn => Begins(slurp.got, disk)
    BY <2>1 DEF WriterInv, Slurping
  <2>3. /\ slurp' \in SlurpType /\ slurp'.torn = slurp.torn /\ slurp'.got = slurp.got
        /\ slurp'.grown = TRUE /\ Len(slurp.got) \in Nat
    BY <2>1, <2>2, LenProperties DEF SlurpType
  <2>4. ASSUME ~slurp.torn PROVE Begins(slurp.got, disk')
    <3>1. Len(slurp.got) <= Len(disk) /\ \A i \in 1 .. Len(slurp.got) : slurp.got[i] = disk[i]
      BY <2>2, <2>4 DEF Begins
    <3>2. Len(slurp.got) <= Len(disk') /\ \A i \in 1 .. Len(slurp.got) : i \in 1 .. Len(disk)
      BY <3>1, <2>3, <1>4, <1>5
    <3>3. \A i \in 1 .. Len(slurp.got) : slurp.got[i] = disk'[i]
      BY <3>1, <3>2, <1>4
    <3> QED
      BY <3>2, <3>3 DEF Begins
  <2> QED
    BY <1>1, <1>4, <2>2, <2>3, <2>4 DEF Slurping, Undisturbed
<1> QED
  BY <1>1, <1>2, <1>8, <1>9 DEF WriterInv

LEMMA FlushReturnsKeeps ==
  ASSUME WriterInv, FlushReturns
  PROVE  WriterInv'
<1> USE IoAssumption
<1>1. /\ writer # None /\ pending # None /\ pending' = None
      /\ UNCHANGED <<disk, slurp>>
  <2>1. <<>> \in Seq(Nat)
    OBVIOUS
  <2> QED
    BY <2>1 DEF FlushReturns, WriteReturns, WriteFails
<1>2. /\ writer \in WriterType /\ disk \in Seq(Nat) /\ pending \in Seq(Nat)
      /\ writer.data \in writer.begun /\ Begins(disk, writer.data)
      /\ writer.data = disk \o pending /\ writer.result = None
  BY <1>1 DEF WriterInv, OnDisk
<1>3. /\ writer' \in WriterType /\ writer'.data = writer.data /\ writer'.begun = writer.begun
      /\ writer'.result = "ok" => pending = <<>>
  <2>1. CASE writer' = [writer EXCEPT !.result = "ok"] /\ pending = <<>>
    BY <2>1, <1>2 DEF WriterType, Results
  <2>2. CASE writer' = [writer EXCEPT !.result = "error"]
    BY <2>2, <1>2 DEF WriterType, Results
  <2> QED
    BY <2>1, <2>2 DEF FlushReturns, WriteReturns
<1>4. pending = <<>> => disk = writer.data
  BY <1>2, ConcatEmptySeq
<1>5. OnDisk'
  BY <1>1, <1>2, <1>3, <1>4 DEF OnDisk
<1>6. ASSUME slurp # None PROVE Slurping'
  BY <1>1, <1>3, <1>6 DEF WriterInv, Slurping, Undisturbed
<1> QED
  BY <1>1, <1>3, <1>5, <1>6 DEF WriterInv

LEMMA StartSlurpKeeps ==
  ASSUME WriterInv, NEW way \in Ways, StartSlurp(way)
  PROVE  WriterInv'
<1> USE IoAssumption
<1>1. /\ writer # None /\ disk # None /\ UNCHANGED <<disk, pending, writer>>
      /\ slurp' = [way |-> way, len |-> Len(disk), got |-> <<>>,
                   phase |-> IF way = "async" THEN "again" ELSE "read",
                   torn |-> FALSE, grown |-> ~Quiet, result |-> writer.result]
  BY DEF StartSlurp, storageVars
<1>2. writer \in WriterType /\ OnDisk /\ disk \in Seq(Nat)
  BY <1>1 DEF WriterInv, OnDisk
<1>3. <<>> \in Seq(Nat) /\ Len(<<>>) = 0 /\ Len(disk) \in Nat
  BY <1>2, LenProperties
<1>4. slurp' \in SlurpType
  BY <1>1, <1>2, <1>3 DEF SlurpType, WriterType
<1>5. /\ slurp'.got = <<>> /\ slurp'.result = writer.result /\ slurp'.len = Len(disk)
      /\ slurp'.phase # "done"
  BY <1>1
<1>6. Placed(<<>>, writer.begun) /\ Begins(<<>>, disk)
  BY <1>3 DEF Placed, Begins
<1>7. Slurping'
  BY <1>1, <1>2, <1>4, <1>5, <1>6 DEF Slurping, Undisturbed, OnDisk
<1>8. OnDisk'
  BY <1>1, <1>2 DEF OnDisk
<1> QED
  BY <1>1, <1>2, <1>7, <1>8 DEF WriterInv

LEMMA AskAgainKeeps ==
  ASSUME WriterInv, AskAgain
  PROVE  WriterInv'
<1> USE IoAssumption
<1>1. /\ slurp # None /\ UNCHANGED <<disk, pending, writer>>
      /\ slurp' = [slurp EXCEPT !.len = Min({@, Len(disk)}), !.phase = "read"]
  BY DEF AskAgain, storageVars
<1>2. writer \in WriterType /\ OnDisk /\ Slurping /\ slurp \in SlurpType /\ disk \in Seq(Nat)
  BY <1>1 DEF WriterInv, OnDisk, Slurping
<1>3. slurp.len \in Nat /\ Len(disk) \in Nat
  BY <1>2, LenProperties DEF SlurpType
<1>4. Min({slurp.len, Len(disk)}) \in {slurp.len, Len(disk)}
  <2>1. \E x \in {slurp.len, Len(disk)} : \A y \in {slurp.len, Len(disk)} : x <= y
    BY <1>3
  <2> QED
    BY <2>1 DEF Min
<1>5. /\ slurp' \in SlurpType
      /\ slurp'.got = slurp.got /\ slurp'.torn = slurp.torn /\ slurp'.grown = slurp.grown
      /\ slurp'.result = slurp.result /\ slurp'.way = slurp.way /\ slurp'.phase = "read"
      /\ slurp'.len \in {slurp.len, Len(disk)}
  BY <1>1, <1>2, <1>3, <1>4 DEF SlurpType
<1>6. Slurping'
  BY <1>1, <1>2, <1>5 DEF Slurping, Undisturbed
<1>7. OnDisk'
  BY <1>1, <1>2 DEF OnDisk
<1> QED
  BY <1>1, <1>2, <1>6, <1>7 DEF WriterInv

LEMMA SlurpBlockKeeps ==
  ASSUME WriterInv, SlurpBlock
  PROVE  WriterInv'
<1> USE IoAssumption
<1>1. /\ slurp # None /\ UNCHANGED <<disk, pending, writer>>
      /\ slurp' = IF Wants(slurp) /\ Len(slurp.got) < Len(disk)
                  THEN [slurp EXCEPT !.got = Append(@, disk[Len(@) + 1])]
                  ELSE AtTheEnd(slurp)
      /\ slurp.phase = "read"
  BY DEF SlurpBlock, storageVars
<1>2. /\ writer \in WriterType /\ OnDisk /\ Slurping /\ slurp \in SlurpType /\ disk \in Seq(Nat)
      /\ Placed(slurp.got, writer.begun) /\ writer.data \in writer.begun
      /\ writer.data \in Seq(Nat) /\ Begins(disk, writer.data)
      /\ ~slurp.torn => Begins(slurp.got, disk)
  BY <1>1 DEF WriterInv, OnDisk, Slurping, WriterType
<1>3. /\ slurp.len \in Nat /\ Len(disk) \in Nat /\ slurp.got \in Seq(Nat)
      /\ Len(slurp.got) \in Nat /\ Len(writer.data) \in Nat
  BY <1>2, LenProperties DEF SlurpType
<1>4. CASE Wants(slurp) /\ Len(slurp.got) < Len(disk)
  <2> DEFINE n == Len(slurp.got) + 1
  <2>0. \A i \in 1 .. n : i = n \/ i \in 1 .. Len(slurp.got)
    <3>1. \A m \in Nat : \A i \in 1 .. m + 1 : i = m + 1 \/ i \in 1 .. m
      OBVIOUS
    <3> QED
      BY <3>1, <1>3
  <2>1. n \in 1 .. Len(disk) /\ n \in 1 .. Len(writer.data) /\ disk[n] = writer.data[n]
    <3>1. n \in 1 .. Len(disk)
      BY <1>3, <1>4
    <3>2. Len(disk) <= Len(writer.data) /\ \A i \in 1 .. Len(disk) : disk[i] = writer.data[i]
      BY <1>2 DEF Begins
    <3> QED
      BY <3>1, <3>2, <1>3
  <2>2. disk[n] \in Nat
    BY <1>2, <2>1, ElementOfSeq
  <2>3. /\ slurp'.got = Append(slurp.got, disk[n]) /\ slurp'.torn = slurp.torn
        /\ slurp'.grown = slurp.grown /\ slurp'.result = slurp.result
        /\ slurp'.way = slurp.way /\ slurp'.phase = "read" /\ slurp'.len = slurp.len
    BY <1>1, <1>2, <1>4 DEF SlurpType
  <2>4. /\ Append(slurp.got, disk[n]) \in Seq(Nat) /\ Len(slurp'.got) = n
        /\ \A i \in 1 .. Len(slurp.got) : slurp'.got[i] = slurp.got[i]
        /\ slurp'.got[n] = disk[n]
    BY <1>3, <2>2, <2>3, AppendProperties
  <2>5. slurp' \in SlurpType
    BY <1>1, <1>2, <1>4, <2>4 DEF SlurpType
  <2>6. Placed(slurp'.got, writer.begun)
    <3> SUFFICES ASSUME NEW i \in 1 .. n
                 PROVE \E image \in writer.begun : i \in DOMAIN image /\ slurp'.got[i] = image[i]
      BY <2>4 DEF Placed
    <3>1. CASE i = n
      <4>1. DOMAIN writer.data = 1 .. Len(writer.data)
        BY <1>2, LenProperties
      <4> QED
        BY <3>1, <4>1, <2>1, <2>4, <1>2
    <3>2. CASE i # n
      <4>1. i \in 1 .. Len(slurp.got)
        BY <3>2, <2>0
      <4> QED
        BY <4>1, <2>4, <1>2 DEF Placed
    <3> QED
      BY <3>1, <3>2
  <2>7. ASSUME ~slurp.torn PROVE Begins(slurp'.got, disk)
    <3>1. ASSUME NEW i \in 1 .. n PROVE slurp'.got[i] = disk[i]
      <4>1. i = n \/ i \in 1 .. Len(slurp.got)
        BY <2>0
      <4> QED
        BY <4>1, <1>2, <2>4, <2>7 DEF Begins
    <3> QED
      BY <2>1, <2>4, <3>1 DEF Begins
  <2>8. Slurping'
    BY <1>1, <1>2, <2>3, <2>5, <2>6, <2>7 DEF Slurping, Undisturbed
  <2>9. OnDisk'
    BY <1>1, <1>2 DEF OnDisk
  <2> QED
    BY <1>1, <1>2, <2>8, <2>9 DEF WriterInv
<1>5. CASE ~(Wants(slurp) /\ Len(slurp.got) < Len(disk))
  <2>1. slurp' = AtTheEnd(slurp)
    BY <1>1, <1>5
  <2>2. /\ slurp' \in SlurpType /\ slurp'.got = slurp.got /\ slurp'.torn = slurp.torn
        /\ slurp'.grown = slurp.grown /\ slurp'.result = slurp.result
        /\ slurp'.way = slurp.way /\ slurp'.len = slurp.len
        /\ slurp'.phase = "done" => slurp.way = "end" \/ Len(slurp.got) = slurp.len
    BY <1>2, <2>1 DEF AtTheEnd, SlurpType
  <2>3. ASSUME Undisturbed(slurp), slurp'.phase = "done" PROVE Len(slurp.got) = Len(disk)
    <3>1. CASE slurp.way = "end"
      <4>1. Len(slurp.got) >= Len(disk)
        BY <1>3, <1>5, <3>1 DEF Wants
      <4>2. Len(slurp.got) <= Len(disk)
        BY <1>2, <2>3 DEF Undisturbed, Begins
      <4> QED
        BY <4>1, <4>2, <1>3
    <3>2. CASE slurp.way # "end"
      BY <3>2, <2>2, <2>3, <1>2 DEF Slurping
    <3> QED
      BY <3>1, <3>2
  <2>4. Slurping'
    BY <1>1, <1>2, <2>2, <2>3 DEF Slurping, Undisturbed
  <2>5. OnDisk'
    BY <1>1, <1>2 DEF OnDisk
  <2> QED
    BY <1>1, <1>2, <2>4, <2>5 DEF WriterInv
<1> QED
  BY <1>4, <1>5

-----------------------------------------------------------------------------
(* MmapReadWrite                                                           *)

\* What a call of write_at or write_all_bytes reaches of a file of n bytes.
Covers(w, i, n) == LET until == w.at + Len(w.data)
                   IN  /\ IF w.all THEN until = n ELSE until <= n
                       /\ w.at < i /\ i <= until
Hits(log, i, n) == {k \in DOMAIN log : Covers(log[k], i, n)}
Shown(log, initial, i, n) ==
  IF Hits(log, i, n) = {} THEN initial[i]
  ELSE log[Max(Hits(log, i, n))].data[i - log[Max(Hits(log, i, n))].at]

Call == [at : Nat, data : Seq(Nat), all : BOOLEAN]
MappingType == [open : BOOLEAN, initial : Seq(Nat), log : Seq(Call)]

Replayed == /\ disk \in Seq(Nat)
            /\ Len(disk) = Len(mapping.initial)
            /\ \A i \in 1 .. Len(disk) : disk[i] = Shown(mapping.log, mapping.initial, i, Len(disk))

\* One program runs: FileWriter and its reader are not there when a file is mapped.
MappingInv ==
  mapping # None => /\ writer = None /\ slurp = None /\ pending = None
                    /\ mapping \in MappingType
                    /\ disk # None => disk \in Seq(Nat)
                    /\ mapping.open => Replayed

\* A call that is appended is what is shown wherever it reaches, and nothing elsewhere.
LEMMA ShownAfter ==
  ASSUME NEW log \in Seq(Call), NEW w \in Call, NEW initial, NEW i, NEW n
  PROVE  Shown(Append(log, w), initial, i, n) =
           IF Covers(w, i, n) THEN w.data[i - w.at] ELSE Shown(log, initial, i, n)
<1>1. PICK next \in Seq(Call) :
        /\ next = Append(log, w) /\ Len(next) = Len(log) + 1
        /\ \A k \in 1 .. Len(log) : next[k] = log[k]
        /\ next[Len(log) + 1] = w
  BY AppendProperties
<1>2. Len(log) \in Nat /\ DOMAIN log = 1 .. Len(log) /\ DOMAIN next = 1 .. Len(log) + 1
  BY <1>1, LenProperties
<1> DEFINE m == Len(log) + 1
<1>3. Hits(log, i, n) \subseteq 1 .. Len(log)
  BY <1>2 DEF Hits
<1>4. \A k \in 1 .. m : k = m \/ k \in 1 .. Len(log)
  BY <1>2
<1>5. m \in 1 .. m /\ m \notin 1 .. Len(log) /\ 1 .. Len(log) \subseteq 1 .. m
  BY <1>2
<1>6. CASE Covers(w, i, n)
  <2>1. m \in Hits(next, i, n)
    BY <1>1, <1>2, <1>5, <1>6 DEF Hits
  <2>2. \A k \in Hits(next, i, n) : k \in Nat /\ k <= m
    BY <1>2 DEF Hits
  <2>3. Max(Hits(next, i, n)) = m
    <3>1. \E x \in Hits(next, i, n) : \A y \in Hits(next, i, n) : x >= y
      BY <2>1, <2>2, <1>2
    <3>2. PICK x \in Hits(next, i, n) : x = Max(Hits(next, i, n)) /\ \A y \in Hits(next, i, n) : x >= y
      BY <3>1 DEF Max
    <3>3. x >= m /\ x <= m /\ x \in Nat
      BY <3>2, <2>1, <2>2
    <3> QED
      BY <3>2, <3>3, <1>2
  <2> QED
    BY <1>1, <1>6, <2>1, <2>3 DEF Shown
<1>7. CASE ~Covers(w, i, n)
  <2>1. Hits(next, i, n) = Hits(log, i, n)
    <3>1. ASSUME NEW k \in Hits(next, i, n) PROVE k \in Hits(log, i, n)
      <4>1. k # m
        BY <1>1, <1>7 DEF Hits
      <4>2. k \in 1 .. Len(log)
        BY <4>1, <1>2, <1>4 DEF Hits
      <4> QED
        BY <4>2, <1>1, <1>2 DEF Hits
    <3>2. ASSUME NEW k \in Hits(log, i, n) PROVE k \in Hits(next, i, n)
      BY <1>1, <1>2, <1>5 DEF Hits
    <3> QED
      BY <3>1, <3>2
  <2>2. CASE Hits(log, i, n) = {}
    BY <1>1, <1>7, <2>1, <2>2 DEF Shown
  <2>3. CASE Hits(log, i, n) # {}
    <3>1. Max(Hits(log, i, n)) \in Hits(log, i, n)
      <4>1. Hits(log, i, n) \subseteq 0 .. Len(log)
        BY <1>3, <1>2
      <4>2. PICK x \in Hits(log, i, n) : \A y \in Hits(log, i, n) : y <= x
        BY <4>1, <2>3, <1>2, NatMax
      <4>3. \A y \in Hits(log, i, n) : x >= y
        BY <4>1, <4>2
      <4> QED
        BY <4>3 DEF Max
    <3>2. next[Max(Hits(log, i, n))] = log[Max(Hits(log, i, n))]
      BY <3>1, <1>1, <1>3
    <3> QED
      BY <1>1, <1>7, <2>1, <3>2 DEF Shown
  <2> QED
    BY <2>2, <2>3
<1> QED
  BY <1>6, <1>7

\* Without a call the file shows what it was opened with.
LEMMA ShownAtFirst ==
  ASSUME NEW initial, NEW i, NEW n
  PROVE  Shown(<<>>, initial, i, n) = initial[i]
<1>1. Hits(<<>>, i, n) = {}
  BY DEF Hits
<1> QED
  BY <1>1 DEF Shown

LEMMA CreateMappedKeeps ==
  ASSUME MappingInv, NEW n \in MappedSizes, CreateMapped(n)
  PROVE  MappingInv'
<1> USE IoAssumption
<1>1. /\ mapping # None /\ disk' = Zeros(n) /\ UNCHANGED <<pending, writer, slurp>>
      /\ mapping' = [open |-> TRUE, initial |-> Zeros(n), log |-> <<>>]
  BY DEF CreateMapped
<1>2. Zeros(n) \in Seq(Nat) /\ <<>> \in Seq(Call)
  BY DEF Zeros
<1>3. mapping' \in MappingType
  BY <1>1, <1>2 DEF MappingType
<1>4. Replayed'
  BY <1>1, <1>2, ShownAtFirst DEF Replayed
<1> QED
  BY <1>1, <1>2, <1>3, <1>4 DEF MappingInv

LEMMA OpenMappedKeeps ==
  ASSUME MappingInv, OpenMapped
  PROVE  MappingInv'
<1> USE IoAssumption
<1>1. /\ mapping # None /\ disk # None /\ UNCHANGED <<disk, pending, writer, slurp>>
      /\ mapping' = [open |-> TRUE, initial |-> disk, log |-> <<>>]
  BY DEF OpenMapped, storageVars
<1>2. disk \in Seq(Nat) /\ <<>> \in Seq(Call)
  BY <1>1 DEF MappingInv
<1>3. mapping' \in MappingType
  BY <1>1, <1>2 DEF MappingType
<1>4. Replayed'
  BY <1>1, <1>2, ShownAtFirst DEF Replayed
<1> QED
  BY <1>1, <1>2, <1>3, <1>4 DEF MappingInv

LEMMA DropMappedKeeps ==
  ASSUME MappingInv, DropMapped
  PROVE  MappingInv'
<1>1. /\ mapping # None /\ UNCHANGED <<disk, pending, writer, slurp>>
      /\ mapping' = [mapping EXCEPT !.open = FALSE]
  BY DEF DropMapped, storageVars
<1>2. mapping' \in MappingType /\ ~mapping'.open
  BY <1>1 DEF MappingInv, MappingType
<1> QED
  BY <1>1, <1>2 DEF MappingInv

\* Data that is put into a file changes the places it has, and no others.
LEMMA Overwritten ==
  ASSUME NEW bytes \in Seq(Nat), NEW offset \in Nat, NEW data \in Seq(Nat)
  PROVE  /\ Overwrite(bytes, offset, data) \in Seq(Nat)
         /\ Len(Overwrite(bytes, offset, data)) = Len(bytes)
         /\ \A i \in 1 .. Len(bytes) : Overwrite(bytes, offset, data)[i] =
              IF offset < i /\ i <= offset + Len(data) THEN data[i - offset] ELSE bytes[i]
<1>1. /\ Len(bytes) \in Nat /\ DOMAIN bytes = 1 .. Len(bytes)
      /\ Len(data) \in Nat /\ DOMAIN data = 1 .. Len(data)
  BY LenProperties
<1>2. ASSUME NEW i \in 1 .. Len(bytes)
      PROVE  i - offset \in DOMAIN data <=> offset < i /\ i <= offset + Len(data)
  BY <1>1
<1>3. \A i \in 1 .. Len(bytes) : bytes[i] \in Nat
  BY ElementOfSeq
<1>4. \A k \in DOMAIN data : data[k] \in Nat
  BY <1>1, ElementOfSeq
<1>5. Overwrite(bytes, offset, data) \in [1 .. Len(bytes) -> Nat]
  BY <1>1, <1>3, <1>4 DEF Overwrite
<1>6. Overwrite(bytes, offset, data) \in Seq(Nat) /\ Len(Overwrite(bytes, offset, data)) = Len(bytes)
  <2>1. \A n \in Nat : \A f \in [1 .. n -> Nat] : f \in Seq(Nat) /\ Len(f) = n
    OBVIOUS
  <2> QED
    BY <2>1, <1>1, <1>5
<1> QED
  BY <1>1, <1>2, <1>6 DEF Overwrite

LEMMA WriteAtKeeps ==
  ASSUME MappingInv, NEW offset \in Nat, NEW data \in Seq(Nat), WriteAt(offset, data)
  PROVE  MappingInv'
<1> USE IoAssumption
<1> DEFINE w == [at |-> offset, data |-> data, all |-> FALSE]
<1>1. /\ mapping # None /\ mapping.open /\ UNCHANGED <<pending, writer, slurp>>
      /\ disk' = IF Fits(offset, data) THEN Overwrite(disk, offset, data) ELSE disk
      /\ mapping' = [mapping EXCEPT !.log = Append(@, w)]
  BY DEF WriteAt
<1>2. mapping \in MappingType /\ Replayed /\ mapping.log \in Seq(Call) /\ disk \in Seq(Nat)
  BY <1>1 DEF MappingInv, MappingType, Replayed
<1>3. w \in Call /\ w.at = offset /\ w.data = data /\ w.all = FALSE
  BY DEF Call
<1> HIDE DEF w
<1>4. /\ mapping' \in MappingType /\ mapping'.log = Append(mapping.log, w)
      /\ mapping'.initial = mapping.initial
  BY <1>1, <1>2, <1>3, AppendProperties DEF MappingType
<1>5. Len(disk) \in Nat /\ Len(data) \in Nat
  BY <1>2, LenProperties
<1>6. disk' \in Seq(Nat) /\ Len(disk') = Len(disk)
  BY <1>1, <1>2, Overwritten
<1>7. ASSUME NEW i \in 1 .. Len(disk)
      PROVE  disk'[i] = IF Covers(w, i, Len(disk)) THEN w.data[i - w.at] ELSE disk[i]
  <2>1. CASE Fits(offset, data)
    <3>1. Covers(w, i, Len(disk)) <=> offset < i /\ i <= offset + Len(data)
      BY <2>1, <1>3 DEF Covers, Fits
    <3>2. Overwrite(disk, offset, data)[i] =
            IF offset < i /\ i <= offset + Len(data) THEN data[i - offset] ELSE disk[i]
      BY <1>2, Overwritten
    <3> QED
      BY <2>1, <3>1, <3>2, <1>1, <1>3
  <2>2. CASE ~Fits(offset, data)
    <3>1. ~Covers(w, i, Len(disk))
      BY <2>2, <1>3 DEF Covers, Fits
    <3> QED
      BY <2>2, <3>1, <1>1
  <2> QED
    BY <2>1, <2>2
<1>8. ASSUME NEW i \in 1 .. Len(disk)
      PROVE  disk'[i] = Shown(mapping'.log, mapping'.initial, i, Len(disk'))
  <2>1. Shown(Append(mapping.log, w), mapping.initial, i, Len(disk)) =
          IF Covers(w, i, Len(disk)) THEN w.data[i - w.at]
          ELSE Shown(mapping.log, mapping.initial, i, Len(disk))
    BY <1>2, <1>3, ShownAfter
  <2>2. disk[i] = Shown(mapping.log, mapping.initial, i, Len(disk))
    BY <1>2 DEF Replayed
  <2>3. disk'[i] = Shown(Append(mapping.log, w), mapping.initial, i, Len(disk))
    BY <1>7, <2>1, <2>2
  <2> QED
    BY <2>3, <1>4, <1>6
<1>9. Replayed'
  BY <1>2, <1>4, <1>6, <1>8 DEF Replayed
<1> QED
  BY <1>1, <1>2, <1>4, <1>6, <1>9 DEF MappingInv

LEMMA WriteAllMappedKeeps ==
  ASSUME MappingInv, NEW data \in Seq(Nat), WriteAllMapped(data)
  PROVE  MappingInv'
<1> USE IoAssumption
<1> DEFINE w == [at |-> 0, data |-> data, all |-> TRUE]
<1>1. /\ mapping # None /\ mapping.open /\ UNCHANGED <<pending, writer, slurp>>
      /\ disk' = IF Len(data) = Len(disk) THEN data ELSE disk
      /\ mapping' = [mapping EXCEPT !.log = Append(@, w)]
  BY DEF WriteAllMapped
<1>2. mapping \in MappingType /\ Replayed /\ mapping.log \in Seq(Call) /\ disk \in Seq(Nat)
  BY <1>1 DEF MappingInv, MappingType, Replayed
<1>3. w \in Call /\ w.at = 0 /\ w.data = data /\ w.all = TRUE
  BY DEF Call
<1> HIDE DEF w
<1>4. /\ mapping' \in MappingType /\ mapping'.log = Append(mapping.log, w)
      /\ mapping'.initial = mapping.initial
  BY <1>1, <1>2, <1>3, AppendProperties DEF MappingType
<1>5. Len(disk) \in Nat /\ Len(data) \in Nat
  BY <1>2, LenProperties
<1>6. disk' \in Seq(Nat) /\ Len(disk') = Len(disk)
  BY <1>1, <1>2
<1>7. ASSUME NEW i \in 1 .. Len(disk)
      PROVE  disk'[i] = IF Covers(w, i, Len(disk)) THEN w.data[i - w.at] ELSE disk[i]
  <2>1. Covers(w, i, Len(disk)) <=> Len(data) = Len(disk)
    BY <1>3, <1>5 DEF Covers
  <2>2. i - w.at = i
    BY <1>3
  <2> QED
    BY <2>1, <2>2, <1>1, <1>3
<1>8. ASSUME NEW i \in 1 .. Len(disk)
      PROVE  disk'[i] = Shown(mapping'.log, mapping'.initial, i, Len(disk'))
  <2>1. Shown(Append(mapping.log, w), mapping.initial, i, Len(disk)) =
          IF Covers(w, i, Len(disk)) THEN w.data[i - w.at]
          ELSE Shown(mapping.log, mapping.initial, i, Len(disk))
    BY <1>2, <1>3, ShownAfter
  <2>2. disk[i] = Shown(mapping.log, mapping.initial, i, Len(disk))
    BY <1>2 DEF Replayed
  <2>3. disk'[i] = Shown(Append(mapping.log, w), mapping.initial, i, Len(disk))
    BY <1>7, <2>1, <2>2
  <2> QED
    BY <2>3, <1>4, <1>6
<1>9. Replayed'
  BY <1>2, <1>4, <1>6, <1>8 DEF Replayed
<1> QED
  BY <1>1, <1>2, <1>4, <1>6, <1>9 DEF MappingInv

-----------------------------------------------------------------------------
(* PrefetchReader                                                          *)

\* An entry of the ring is a piece of the file, read where it says.
IsPiece(e) == /\ Len(e.data) > 0 /\ e.offset + Len(e.data) <= Len(Fixed)
              /\ \A i \in 1 .. Len(e.data) : e.data[i] = Fixed[e.offset + i]
Piece == {e \in [offset : Nat, data : Seq(Nat)] : IsPiece(e)}

\* A reader with a ring of n entries over chunks of c bytes.
Readers(n, c) == [entries : [1 .. n -> Piece \cup {None}], next : 1 .. n, chunk : {c}, last : Nat \cup {None}]

RingInv ==
  ring # None => /\ \E n \in Nat \ {0}, c \in Nat : ring.reader \in Readers(n, c)
                 /\ DOMAIN ring = {"reader", "at", "answer"} /\ ring.at \in Nat
                 /\ RingServesFile

\* A slice of the file that is not empty is a piece of it.
LEMMA SliceIsPiece ==
  ASSUME NEW offset \in Nat, NEW size \in Nat, Within(offset, size) # 0
  PROVE  /\ Within(offset, size) \in Nat \ {0} /\ Within(offset, size) <= size
         /\ offset + Within(offset, size) <= Len(Fixed)
         /\ Slice(offset, Within(offset, size)) \in Seq(Nat)
         /\ Len(Slice(offset, Within(offset, size))) = Within(offset, size)
         /\ [offset |-> offset, data |-> Slice(offset, Within(offset, size))] \in Piece
<1> USE IoAssumption
<1>1. Len(Fixed) \in Nat /\ \A i \in 1 .. Len(Fixed) : Fixed[i] \in Nat
  BY LenProperties, ElementOfSeq
<1>2. PICK n \in Nat : n = Within(offset, size)
  <2>1. Within(offset, size) \in Nat
    BY <1>1 DEF Within, Least
  <2> QED
    BY <2>1
<1>3. n > 0 /\ n <= size /\ offset + n <= Len(Fixed)
  BY <1>1, <1>2 DEF Within, Least
<1>4. /\ offset + 1 \in Int /\ offset + n \in Int /\ offset + 1 <= offset + n
      /\ (offset + n) - (offset + 1) + 1 = n
      /\ \A i \in offset + 1 .. offset + n : i \in 1 .. Len(Fixed)
  BY <1>1, <1>3
<1>5. \A i \in offset + 1 .. offset + n : Fixed[i] \in Nat
  BY <1>1, <1>4
<1>6. PICK d : d = SubSeq(Fixed, offset + 1, offset + n)
  OBVIOUS
<1>7. d \in Seq(Nat) /\ Len(d) = n /\ \A i \in 1 .. n : d[i] = Fixed[offset + 1 + i - 1]
  BY <1>4, <1>5, <1>6, SubSeqProperties
<1>8. \A i \in 1 .. n : d[i] = Fixed[offset + i]
  BY <1>7
<1>9. d = Slice(offset, n)
  BY <1>6 DEF Slice
<1>10. [offset |-> offset, data |-> d] \in Piece
  BY <1>3, <1>7, <1>8 DEF Piece, IsPiece
<1> QED
  BY <1>2, <1>3, <1>7, <1>9, <1>10

\* Putting a piece into the ring, and emptying it.
LEMMA InsertKeeps ==
  ASSUME NEW n \in Nat \ {0}, NEW c \in Nat, NEW r \in Readers(n, c),
         NEW offset \in Nat, NEW data \in Seq(Nat), [offset |-> offset, data |-> data] \in Piece
  PROVE  RingInsert(r, offset, data) \in Readers(n, c)
<1>1. /\ r.entries \in [1 .. n -> Piece \cup {None}] /\ r.next \in 1 .. n
      /\ r.chunk = c /\ r.last \in Nat \cup {None}
  BY DEF Readers
<1>2. Len(r.entries) = n
  <2>1. \A S, f : f \in [1 .. n -> S] => Len(f) = n
    OBVIOUS
  <2> QED
    BY <1>1, <2>1
<1>3. (r.next % n) + 1 \in 1 .. n
  <2>1. PICK k \in Nat : k = r.next
    BY <1>1
  <2>2. k % n \in 0 .. n - 1
    OBVIOUS
  <2> QED
    BY <2>1, <2>2
<1> QED
  BY <1>1, <1>2, <1>3 DEF RingInsert, Readers

LEMMA ClearKeeps ==
  ASSUME NEW n \in Nat \ {0}, NEW c \in Nat, NEW r \in Readers(n, c)
  PROVE  RingClear(r) \in Readers(n, c)
<1>1. /\ r.entries \in [1 .. n -> Piece \cup {None}]
      /\ r.chunk = c /\ r.last \in Nat \cup {None}
  BY DEF Readers
<1>2. [i \in DOMAIN r.entries |-> None] \in [1 .. n -> Piece \cup {None}]
  BY <1>1
<1>3. 1 \in 1 .. n
  OBVIOUS
<1> QED
  BY <1>1, <1>2, <1>3 DEF RingClear, Readers

LEMMA LoadedKeeps ==
  ASSUME NEW n \in Nat \ {0}, NEW c \in Nat, NEW r \in Readers(n, c), NEW g \in [offset : Nat, size : Nat]
  PROVE  Loaded(r, g) \in Readers(n, c)
<1>1. CASE Within(g.offset, g.size) = 0
  BY <1>1 DEF Loaded
<1>2. CASE Within(g.offset, g.size) # 0
  <2>1. g.offset \in Nat /\ g.size \in Nat
    OBVIOUS
  <2> DEFINE d == Slice(g.offset, Within(g.offset, g.size))
  <2>2. d \in Seq(Nat) /\ [offset |-> g.offset, data |-> d] \in Piece
    BY <1>2, <2>1, SliceIsPiece
  <2> QED
    BY <1>2, <2>1, <2>2, InsertKeeps DEF Loaded
<1> QED
  BY <1>1, <1>2

LEMMA LoadKeeps ==
  ASSUME NEW n \in Nat \ {0}, NEW c \in Nat, NEW r \in Readers(n, c),
         NEW m \in Nat, NEW ranges \in [1 .. m -> [offset : Nat, size : Nat]]
  PROVE  Load(r, ranges) \in Readers(n, c)
<1>1. Len(ranges) = m
  OBVIOUS
<1> DEFINE V == Readers(n, c)
           step == [i \in 1 .. m |-> [v \in V |-> Loaded(v, ranges[i])]]
           Rec(f) == [i \in 0 .. m |-> IF i = 0 THEN r ELSE Loaded(f[i - 1], ranges[i])]
           upTo == CHOOSE f : f = Rec(f)
<1>2. step \in [1 .. m -> [V -> V]]
  BY LoadedKeeps
<1>3. \A i \in 1 .. m : \A v \in V : step[i][v] = Loaded(v, ranges[i])
  OBVIOUS
<1>4. Load(r, ranges) = upTo[m]
  BY <1>1, Zenon DEF Load
<1> HIDE DEF V, step
<1>5. r \in V
  BY DEF V
<1>6. PICK u \in [0 .. m -> V] : IsFold(u, m, r, step)
  BY <1>2, <1>5, FoldExists
<1>7. \A i \in 1 .. m : i - 1 \in 0 .. m /\ i # 0
  OBVIOUS
<1>8. u = Rec(u)
  <2>1. ASSUME NEW i \in 0 .. m PROVE u[i] = Rec(u)[i]
    <3>1. CASE i = 0
      BY <3>1, <1>6 DEF IsFold
    <3>2. CASE i # 0
      <4>1. i \in 1 .. m /\ u[i - 1] \in V
        BY <3>2, <1>6, <1>7
      <4> QED
        BY <3>2, <4>1, <1>3, <1>6 DEF IsFold
    <3> QED
      BY <3>1, <3>2
  <2> QED
    BY <2>1, <1>6
<1>9. upTo = Rec(upTo)
  BY <1>8
<1> HIDE DEF upTo
<1>10. upTo[0] = r /\ \A i \in 1 .. m : upTo[i] = Loaded(upTo[i - 1], ranges[i])
  BY <1>9, <1>7
<1> DEFINE S == {i \in 0 .. m : upTo[i] \in V}
<1>11. 0 \in S
  BY <1>5, <1>10
<1>12. ASSUME NEW i \in 0 .. m - 1, i \in S PROVE i + 1 \in S
  <2>1. i + 1 \in 1 .. m /\ (i + 1) - 1 = i
    OBVIOUS
  <2>2. ranges[i + 1] \in [offset : Nat, size : Nat]
    BY <2>1
  <2>3. Loaded(upTo[i], ranges[i + 1]) \in V
    BY <2>2, <1>12, LoadedKeeps DEF V
  <2> QED
    BY <2>1, <2>3, <1>10
<1> HIDE DEF S
<1>13. 0 .. m \subseteq S
  BY <1>11, <1>12, RangeInduction
<1> QED
  BY <1>4, <1>13 DEF S, V

\* A hit in the ring is what the file holds there.
LEMMA GetServes ==
  ASSUME NEW n \in Nat \ {0}, NEW c \in Nat, NEW r \in Readers(n, c),
         NEW offset \in Nat, NEW len \in Nat, RingGet(r, offset, len) # None
  PROVE  RingGet(r, offset, len) = SubSeq(Fixed, offset + 1, offset + len)
<1> DEFINE hits == {i \in DOMAIN r.entries : /\ r.entries[i] # None
                                            /\ r.entries[i].offset = offset
                                            /\ Len(r.entries[i].data) >= len}
<1>1. r.entries \in [1 .. n -> Piece \cup {None}]
  BY DEF Readers
<1>2. RingGet(r, offset, len) = IF hits = {} THEN None ELSE SubSeq(r.entries[Min(hits)].data, 1, len)
  BY DEF RingGet
<1>3. hits # {} /\ hits \in SUBSET Nat
  <2>1. DOMAIN r.entries = 1 .. n
    BY <1>1
  <2>2. hits \subseteq 1 .. n
    BY <2>1
  <2>3. hits # {}
    BY <1>2, Zenon
  <2> HIDE DEF hits
  <2> QED
    BY <2>2, <2>3
<1>4. Min(hits) \in hits
  <2> HIDE DEF hits
  <2>1. \E m \in hits : \A h \in hits : m <= h
    BY <1>3, NatMin
  <2> QED
    BY <2>1 DEF Min
<1>5. PICK e \in Piece : /\ e = r.entries[Min(hits)] /\ e.offset = offset
                        /\ Len(e.data) >= len
  BY <1>1, <1>4
<1> HIDE DEF hits
<1>6. PICK d \in Seq(Nat), k \in Nat :
        /\ d = e.data /\ k = Len(d) /\ len <= k /\ offset + k <= Len(Fixed)
        /\ \A i \in 1 .. k : d[i] = Fixed[offset + i]
  <2>1. PICK d \in Seq(Nat) : d = e.data
    BY DEF Piece
  <2>2. Len(d) \in Nat /\ Len(d) >= len
    BY <1>5, <2>1, LenProperties
  <2>3. offset + Len(d) <= Len(Fixed) /\ \A i \in 1 .. Len(d) : d[i] = Fixed[offset + i]
    BY <1>5, <2>1 DEF Piece, IsPiece
  <2> QED
    BY <2>1, <2>2, <2>3
<1>7. PICK x : x = SubSeq(d, 1, len)
  OBVIOUS
<1>8. PICK y : y = SubSeq(Fixed, offset + 1, offset + len)
  OBVIOUS
<1>9. x \in Seq(Nat) /\ Len(x) = len /\ \A i \in 1 .. len : x[i] = d[i]
  <2>1. \A i \in 1 .. len : d[i] \in Nat
    <3>1. \A i \in 1 .. len : i \in 1 .. Len(d)
      BY <1>6
    <3> QED
      BY <3>1, ElementOfSeq
  <2>2. /\ x \in Seq(Nat) /\ Len(x) = IF 1 <= len THEN len - 1 + 1 ELSE 0
        /\ \A i \in 1 .. len - 1 + 1 : x[i] = d[1 + i - 1]
    BY <1>7, <2>1, SubSeqProperties
  <2> QED
    BY <2>2
<1>10. y \in Seq(Nat) /\ Len(y) = len /\ \A i \in 1 .. len : y[i] = Fixed[offset + i]
  <2>1. \A i \in offset + 1 .. offset + len : i \in 1 .. Len(Fixed)
    <3>1. Len(Fixed) \in Nat
      BY IoAssumption, LenProperties
    <3> QED
      BY <1>6, <3>1
  <2>2. \A i \in offset + 1 .. offset + len : Fixed[i] \in Nat
    BY <2>1, IoAssumption, ElementOfSeq
  <2>3. /\ y \in Seq(Nat)
        /\ Len(y) = IF offset + 1 <= offset + len THEN (offset + len) - (offset + 1) + 1 ELSE 0
        /\ \A i \in 1 .. (offset + len) - (offset + 1) + 1 : y[i] = Fixed[(offset + 1) + i - 1]
    BY <1>8, <2>2, SubSeqProperties
  <2>4. (offset + len) - (offset + 1) + 1 = len
    OBVIOUS
  <2> QED
    BY <2>3, <2>4
<1>11. \A i \in 1 .. len : x[i] = y[i]
  <2>1. \A i \in 1 .. len : i \in 1 .. k
    BY <1>6
  <2> QED
    BY <2>1, <1>6, <1>9, <1>10
<1>12. x = y
  BY <1>9, <1>10, <1>11, SeqEqual
<1> QED
  BY <1>2, <1>3, <1>5, <1>6, <1>7, <1>8, <1>12

LEMMA PrefetchKeeps ==
  ASSUME NEW n \in Nat \ {0}, NEW c \in Nat, NEW r \in Readers(n, c), NEW offset \in Nat
  PROVE  PrefetchAhead(r, offset) \in Readers(n, c)
<1>1. DOMAIN r.entries = 1 .. n /\ r.chunk = c
  BY DEF Readers
<1> DEFINE ranges == [i \in 1 .. n |-> [offset |-> offset + i * c, size |-> c]]
<1>2. ranges \in [1 .. n -> [offset : Nat, size : Nat]]
  <2>1. \A i \in 1 .. n : offset + i * c \in Nat
    OBVIOUS
  <2> QED
    BY <2>1
<1>3. PrefetchAhead(r, offset) = Load(RingClear(r), ranges)
  BY <1>1 DEF PrefetchAhead
<1> HIDE DEF ranges
<1> QED
  BY <1>2, <1>3, ClearKeeps, LoadKeeps

LEMMA ReadChunkKeeps ==
  ASSUME RingInv, NEW offset \in Nat, ReadChunk(offset)
  PROVE  RingInv'
<1> USE IoAssumption
<1>1. PICK n \in Nat \ {0}, c \in Nat : ring.reader \in Readers(n, c)
  BY DEF RingInv, ReadChunk
<1> DEFINE r == ring.reader
           len == Within(offset, c)
           cached == RingGet(r, offset, len)
           sequential == IF r.last = None THEN FALSE ELSE offset = r.last + c
           next == [(IF sequential THEN PrefetchAhead(r, offset) ELSE r) EXCEPT !.last = offset]
<1>2. r.chunk = c /\ DOMAIN ring = {"reader", "at", "answer"}
  BY <1>1 DEF Readers, RingInv, ReadChunk
<1>3. ring' = IF len = 0 THEN [ring EXCEPT !.at = offset, !.answer = None]
              ELSE IF cached # None
              THEN [at |-> offset, answer |-> cached, reader |-> [r EXCEPT !.last = offset]]
              ELSE [at |-> offset, answer |-> Slice(offset, len), reader |-> next]
  BY <1>2 DEF ReadChunk
<1>4. [r EXCEPT !.last = offset] \in Readers(n, c)
  BY <1>1 DEF Readers
<1>5. next \in Readers(n, c)
  <2>1. PICK s \in Readers(n, c) : s = IF sequential THEN PrefetchAhead(r, offset) ELSE r
    BY <1>1, PrefetchKeeps
  <2>2. [s EXCEPT !.last = offset] \in Readers(n, c)
    BY DEF Readers
  <2> QED
    BY <2>1, <2>2
<1>6. ASSUME len # 0
      PROVE  offset + len = Least(offset + c, Len(Fixed)) /\ len \in Nat
  <2>1. Len(Fixed) \in Nat
    BY LenProperties
  <2> QED
    BY <1>6, <2>1 DEF Within, Least
<1> HIDE DEF next, cached, len
<1>7. CASE len = 0
  <2>1. /\ ring'.reader = r /\ ring'.at = offset /\ ring'.answer = None
        /\ DOMAIN ring' = {"reader", "at", "answer"}
    BY <1>2, <1>3, <1>7
  <2> QED
    BY <2>1, <1>1 DEF RingInv, RingServesFile
<1>8. CASE len # 0
  <2>1. /\ ring'.reader \in Readers(n, c) /\ ring'.at = offset
        /\ DOMAIN ring' = {"reader", "at", "answer"}
        /\ ring'.answer = IF cached # None THEN cached ELSE Slice(offset, len)
    BY <1>3, <1>4, <1>5, <1>8
  <2>2. ring'.answer = SubSeq(Fixed, offset + 1, offset + len)
    <3>1. cached # None => cached = SubSeq(Fixed, offset + 1, offset + len)
      BY <1>1, <1>6, <1>8, GetServes DEF cached
    <3> QED
      BY <2>1, <3>1 DEF Slice
  <2>3. ring'.reader.chunk = c
    BY <2>1 DEF Readers
  <2> QED
    BY <2>1, <2>2, <2>3, <1>6, <1>8 DEF RingInv, RingServesFile
<1> QED
  BY <1>7, <1>8

LEMMA PreloadRangesKeeps ==
  ASSUME RingInv, NEW m \in Nat, NEW ranges \in [1 .. m -> Ranges], PreloadRanges(ranges)
  PROVE  RingInv'
<1>1. PICK n \in Nat \ {0}, c \in Nat : ring.reader \in Readers(n, c)
  BY DEF RingInv, PreloadRanges
<1>2. DOMAIN ring = {"reader", "at", "answer"} /\ ring' = [ring EXCEPT !.reader = Load(ring.reader, ranges)]
  BY DEF RingInv, PreloadRanges
<1>3. ranges \in [1 .. m -> [offset : Nat, size : Nat]]
  <2>1. Ranges \subseteq [offset : Nat, size : Nat]
    BY DEF Ranges
  <2> QED
    BY <2>1
<1>4. Load(ring.reader, ranges) \in Readers(n, c)
  BY <1>1, <1>3, LoadKeeps
<1>5. /\ ring'.reader \in Readers(n, c) /\ ring'.at = ring.at /\ ring'.answer = ring.answer
      /\ DOMAIN ring' = {"reader", "at", "answer"}
  BY <1>2, <1>4
<1>6. ring'.reader.chunk = ring.reader.chunk
  BY <1>1, <1>5 DEF Readers
<1> QED
  BY <1>5, <1>6 DEF RingInv, RingServesFile, PreloadRanges

-----------------------------------------------------------------------------
(* All programs of rustyhdf5-io                                            *)

IoInv == WriterInv /\ MappingInv /\ RingInv

\* FileWriter and its reader run: no file is mapped, and no ring is touched.
LEMMA WriterKeeps ==
  ASSUME IoInv, WriterInv', UNCHANGED <<mapping, ring>>, writer # None \/ slurp # None
  PROVE  IoInv'
<1>1. mapping = None
  BY DEF IoInv, MappingInv
<1>2. MappingInv'
  BY <1>1 DEF MappingInv
<1>3. RingInv'
  BY DEF IoInv, RingInv, RingServesFile
<1> QED
  BY <1>2, <1>3 DEF IoInv

\* A file is mapped: there is neither FileWriter nor a reader of its file.
LEMMA MappingKeeps ==
  ASSUME IoInv, mapping # None, MappingInv', UNCHANGED <<pending, writer, slurp, ring>>
  PROVE  IoInv'
<1>1. writer = None /\ slurp = None
  BY DEF IoInv, MappingInv
<1>2. WriterInv'
  BY <1>1 DEF WriterInv
<1>3. RingInv'
  BY DEF IoInv, RingInv, RingServesFile
<1> QED
  BY <1>2, <1>3 DEF IoInv

LEMMA RingKeeps ==
  ASSUME IoInv, RingInv', UNCHANGED <<storageVars, writer, slurp, mapping>>
  PROVE  IoInv'
<1>1. WriterInv'
  BY DEF IoInv, WriterInv, OnDisk, Slurping, storageVars
<1>2. MappingInv'
  BY DEF IoInv, MappingInv, Replayed, storageVars
<1> QED
  BY <1>1, <1>2 DEF IoInv

LEMMA IoInitHolds == IoInit => IoInv
<1> SUFFICES ASSUME IoInit PROVE IoInv
  OBVIOUS
<1> USE IoAssumption
<1>1. disk = None /\ pending = None
  BY DEF IoInit, StorageInit
<1>2. CASE /\ writer = [data |-> <<>>, result |-> None, begun |-> {}, calls |-> 0]
           /\ slurp = None /\ mapping = None /\ ring = None
  <2>1. writer \in WriterType /\ writer.result = None
    BY <1>2 DEF WriterType, Results
  <2> QED
    BY <1>1, <1>2, <2>1 DEF IoInv, WriterInv, OnDisk, MappingInv, RingInv
<1>3. CASE /\ mapping = [open |-> FALSE, initial |-> <<>>, log |-> <<>>]
           /\ writer = None /\ slurp = None /\ ring = None
  <2>1. mapping \in MappingType /\ ~mapping.open
    BY <1>3 DEF MappingType
  <2> QED
    BY <1>1, <1>3, <2>1 DEF IoInv, WriterInv, MappingInv, RingInv
<1>4. CASE /\ \E c \in ChunkSizes, n \in PrefetchCounts :
                ring = [reader |-> NewReader(c, n), at |-> 0, answer |-> None]
           /\ writer = None /\ slurp = None /\ mapping = None
  <2>1. PICK c \in Nat, n \in Nat \ {0} :
          ring = [reader |-> NewReader(c, n), at |-> 0, answer |-> None]
    BY <1>4
  <2>2. NewReader(c, n) \in Readers(n, c)
    BY DEF NewReader, Readers
  <2>3. /\ ring.reader \in Readers(n, c) /\ DOMAIN ring = {"reader", "at", "answer"}
        /\ ring.at = 0 /\ ring.answer = None
    BY <2>1, <2>2
  <2> QED
    BY <1>4, <2>3 DEF IoInv, WriterInv, MappingInv, RingInv, RingServesFile
<1> QED
  BY <1>2, <1>3, <1>4 DEF IoInit

LEMMA IoStepKeeps == IoInv /\ [IoNext]_ioAll => IoInv'
<1> SUFFICES ASSUME IoInv, [IoNext]_ioAll PROVE IoInv'
  OBVIOUS
<1> USE IoAssumption
<1>1. WriterInv /\ MappingInv /\ RingInv
  BY DEF IoInv
<1>2. ASSUME NEW image \in Images, WriteAllBytes(image) PROVE IoInv'
  <2>1. writer # None /\ Flush(image) /\ image \in Seq(Nat) /\ UNCHANGED <<mapping, ring>>
    BY <1>2 DEF WriteAllBytes
  <2> QED
    BY <1>1, <2>1, FlushKeeps, WriterKeeps
<1>3. ASSUME FlushToDisk PROVE IoInv'
  <2>1. writer # None /\ Flush(writer.data) /\ UNCHANGED <<mapping, ring>>
    BY <1>3 DEF FlushToDisk
  <2>2. writer.data \in Seq(Nat)
    BY <1>1, <2>1 DEF WriterInv, WriterType
  <2> QED
    BY <1>1, <2>1, <2>2, FlushKeeps, WriterKeeps
<1>4. ASSUME FlushBlock PROVE IoInv'
  BY <1>1, <1>4, FlushBlockKeeps, WriterKeeps DEF FlushBlock
<1>5. ASSUME FlushReturns PROVE IoInv'
  BY <1>1, <1>5, FlushReturnsKeeps, WriterKeeps DEF FlushReturns
<1>6. ASSUME NEW way \in Ways, StartSlurp(way) PROVE IoInv'
  BY <1>1, <1>6, StartSlurpKeeps, WriterKeeps DEF StartSlurp
<1>7. ASSUME AskAgain PROVE IoInv'
  BY <1>1, <1>7, AskAgainKeeps, WriterKeeps DEF AskAgain
<1>8. ASSUME SlurpBlock PROVE IoInv'
  BY <1>1, <1>8, SlurpBlockKeeps, WriterKeeps DEF SlurpBlock
<1>9. ASSUME DropSlurp PROVE IoInv'
  <2>1. slurp # None /\ slurp' = None /\ UNCHANGED <<disk, pending, writer, mapping, ring>>
    BY <1>9 DEF DropSlurp, storageVars
  <2>2. WriterInv'
    BY <1>1, <2>1 DEF WriterInv, OnDisk
  <2> QED
    BY <2>1, <2>2, WriterKeeps
<1>10. ASSUME NEW n \in MappedSizes, CreateMapped(n) PROVE IoInv'
  BY <1>1, <1>10, CreateMappedKeeps, MappingKeeps DEF CreateMapped
<1>11. ASSUME OpenMapped PROVE IoInv'
  BY <1>1, <1>11, OpenMappedKeeps, MappingKeeps DEF OpenMapped, storageVars
<1>12. ASSUME DropMapped PROVE IoInv'
  BY <1>1, <1>12, DropMappedKeeps, MappingKeeps DEF DropMapped, storageVars
<1>13. ASSUME NEW offset \in 0 .. 3, NEW data \in Patches, WriteAt(offset, data) PROVE IoInv'
  <2>1. offset \in Nat
    OBVIOUS
  <2>2. data \in Seq(Nat)
    <3>1. \A x \in Nat : << x >> \in Seq(Nat)
      OBVIOUS
    <3>2. \A x, y \in Nat : << x, y >> \in Seq(Nat)
      OBVIOUS
    <3> QED
      BY <3>1, <3>2 DEF Patches
  <2> QED
    BY <1>1, <1>13, <2>1, <2>2, WriteAtKeeps, MappingKeeps DEF WriteAt
<1>14. ASSUME NEW image \in Images, WriteAllMapped(image) PROVE IoInv'
  BY <1>1, <1>14, WriteAllMappedKeeps, MappingKeeps DEF WriteAllMapped
<1>15. ASSUME NEW offset \in 0 .. (Len(Fixed) + 1), ReadChunk(offset) PROVE IoInv'
  <2>1. offset \in Nat
    OBVIOUS
  <2> QED
    BY <1>1, <1>15, <2>1, ReadChunkKeeps, RingKeeps DEF ReadChunk
<1>16. ASSUME NEW n \in 1 .. MaxPreload, NEW ranges \in [1 .. n -> Ranges], PreloadRanges(ranges)
       PROVE  IoInv'
  <2>1. n \in Nat
    OBVIOUS
  <2> QED
    BY <1>1, <1>16, <2>1, PreloadRangesKeeps, RingKeeps DEF PreloadRanges
<1>17. CASE UNCHANGED ioAll
  <2>1. RingInv'
    BY <1>1, <1>17 DEF ioAll, ioVars, RingInv, RingServesFile
  <2> QED
    BY <1>17, <2>1, RingKeeps DEF ioAll, ioVars
<1> QED
  BY <1>2, <1>3, <1>4, <1>5, <1>6, <1>7, <1>8, <1>9, <1>10, <1>11, <1>12, <1>13, <1>14,
     <1>15, <1>16, <1>17 DEF IoNext

\* Everything the invariant says holds in every state of the programs of rustyhdf5-io.
THEOREM IoHolds == IoSpec => []IoInv
<1>1. IoInit => IoInv
  BY IoInitHolds
<1>2. IoInv /\ [IoNext]_ioAll => IoInv'
  BY IoStepKeeps
<1> QED
  BY <1>1, <1>2, PTL DEF IoSpec, ioAll

LEMMA BeginsIsPrefix ==
  ASSUME NEW s \in Seq(Nat), NEW t \in Seq(Nat), Begins(s, t)
  PROVE  IsPrefix(s, t)
  BY DEF Begins, IsPrefix

LEMMA BeginsTransitive ==
  ASSUME NEW s \in Seq(Nat), NEW t \in Seq(Nat), NEW u \in Seq(Nat), Begins(s, t), Begins(t, u)
  PROVE  Begins(s, u)
<1>1. Len(s) \in Nat /\ Len(t) \in Nat /\ Len(u) \in Nat
  BY LenProperties
<1>2. Len(s) <= Len(t) /\ Len(t) <= Len(u)
  BY DEF Begins
<1>3. ASSUME NEW i \in 1 .. Len(s) PROVE s[i] = u[i]
  <2>1. i \in 1 .. Len(t)
    BY <1>1, <1>2
  <2> QED
    BY <2>1 DEF Begins
<1> QED
  BY <1>1, <1>2, <1>3 DEF Begins

\* What a reader that finished holds was written at that place, whoever wrote
\* meanwhile; it begins what is being written unless the file was begun anew; and it
\* is all of it if nothing was written meanwhile (FileReader, read_all, AsyncFileReader).
THEOREM ReadersSeeWhatWasWritten == IoSpec => []SnapshotsAreWritten
<1>1. IoInv => SnapshotsAreWritten
  <2> SUFFICES ASSUME IoInv, slurp # None, slurp.phase = "done"
               PROVE  /\ \A i \in DOMAIN slurp.got :
                           \E image \in writer.begun : i \in DOMAIN image /\ slurp.got[i] = image[i]
                      /\ ~slurp.torn => IsPrefix(slurp.got, writer.data)
                      /\ (~slurp.torn /\ ~slurp.grown /\ slurp.result = "ok") => slurp.got = writer.data
    BY DEF SnapshotsAreWritten
  <2>1. writer \in WriterType /\ OnDisk /\ Slurping
    BY DEF IoInv, WriterInv
  <2>2. /\ slurp.got \in Seq(Nat) /\ disk \in Seq(Nat) /\ writer.data \in Seq(Nat)
        /\ Begins(disk, writer.data) /\ Placed(slurp.got, writer.begun)
    BY <2>1 DEF Slurping, OnDisk, SlurpType, WriterType
  <2>3. /\ Len(slurp.got) \in Nat /\ Len(disk) \in Nat /\ Len(writer.data) \in Nat
        /\ DOMAIN slurp.got = 1 .. Len(slurp.got)
    BY <2>2, LenProperties
  <2>4. ASSUME ~slurp.torn PROVE IsPrefix(slurp.got, writer.data)
    <3>1. Begins(slurp.got, disk)
      BY <2>1, <2>4 DEF Slurping
    <3>2. Begins(slurp.got, writer.data)
      BY <2>2, <3>1, BeginsTransitive
    <3> QED
      BY <2>2, <3>2, BeginsIsPrefix
  <2>5. ASSUME ~slurp.torn, ~slurp.grown, slurp.result = "ok" PROVE slurp.got = writer.data
    <3>1. disk = writer.data /\ Len(slurp.got) = Len(disk) /\ Begins(slurp.got, disk)
      BY <2>1, <2>5 DEF Slurping, Undisturbed
    <3> QED
      BY <2>2, <3>1, SeqEqual DEF Begins
  <2> QED
    BY <2>2, <2>3, <2>4, <2>5 DEF Placed
<1> QED
  BY <1>1, IoHolds, PTL

\* A mapped file holds at every place what the last write that reached it put there;
\* a write that does not fit changes nothing (MmapReadWrite).
THEOREM MappingReplaysItsCalls == IoSpec => []MappedIsReplayed
<1>1. IoInv => MappedIsReplayed
  <2> SUFFICES ASSUME IoInv, mapping # None, mapping.open PROVE MappedIsReplayed
    BY DEF MappedIsReplayed
  <2>1. Replayed
    BY DEF IoInv, MappingInv
  <2>2. DOMAIN disk = 1 .. Len(disk)
    BY <2>1, LenProperties DEF Replayed
  <2> QED
    BY <2>1, <2>2 DEF Replayed, MappedIsReplayed, Shown, Hits, Covers
<1> QED
  BY <1>1, IoHolds, PTL

\* PrefetchReader answers with what the file holds, whatever was read ahead or
\* preloaded, however long the pieces in its ring are and whichever it dropped.
THEOREM RingIsTheFile == IoSpec => []RingServesFile
<1>1. IoInv => RingServesFile
  BY DEF IoInv, RingInv, RingServesFile
<1> QED
  BY <1>1, IoHolds, PTL

-----------------------------------------------------------------------------
(* Sessions: what a journal and the state of a session have in common      *)

Spec == [name : Names, data : Arrays]
Value == [kind : AttrKinds, of : Seq(Nat)]
Attr == [name : Names, value : Value]
Group == [name : Names, datasets : Seq(Spec), attrs : Seq(Attr)]
Modes == {"new", "open", "writing", "closed", "gone"}
State == [mode : Modes, datasets : Seq(Spec), attrs : Seq(Attr), groups : Seq(Group)]
Entry == [where : Nat, what : {"dataset", "group", "attr"}, name : Names,
          value : Arrays \cup AttrInputs \cup {None}, id : Nat, late : BOOLEAN]

\* f lists the members of X in rising order.
Lists(f, m, X) == /\ f \in [1 .. m -> Nat]
                  /\ \A j, k \in 1 .. m : j < k => f[j] < f[k]
                  /\ \A k \in 1 .. m : f[k] \in X
                  /\ \A x \in X : \E k \in 1 .. m : f[k] = x

\* The datasets of the root, or of a group, are those created there, in order.
DatasetsTold(ds, calls, where) ==
  \E f \in [1 .. Len(ds) -> Nat] :
    /\ Lists(f, Len(ds), InTime(calls, where, "dataset"))
    /\ \A k \in 1 .. Len(ds) : ds[k].name = calls[f[k]].name /\ ds[k].data = calls[f[k]].value

GroupsTold(gs, calls) ==
  \E f \in [1 .. Len(gs) -> Nat] :
    /\ Lists(f, Len(gs), InTime(calls, 0, "group"))
    /\ \A k \in 1 .. Len(gs) : gs[k].name = calls[f[k]].name /\ calls[f[k]].id = k

\* The attributes have distinct names and the value assigned last.
AttrsTold(attrs, calls, where) ==
  /\ \A i, j \in 1 .. Len(attrs) : attrs[i].name = attrs[j].name => i = j
  /\ \A i \in 1 .. Len(attrs) :
       /\ Naming(calls, where, "attr", attrs[i].name) # {}
       /\ attrs[i].value = ToldValue(calls[Max(Naming(calls, where, "attr", attrs[i].name))].value)
  /\ \A n \in Names : Naming(calls, where, "attr", n) # {} => \E i \in 1 .. Len(attrs) : attrs[i].name = n

Matches(s, calls) ==
  /\ s \in State /\ calls \in Seq(Entry)
  /\ DatasetsTold(s.datasets, calls, 0) /\ AttrsTold(s.attrs, calls, 0)
  /\ GroupsTold(s.groups, calls)
  /\ \A g \in 1 .. Len(s.groups) : /\ DatasetsTold(s.groups[g].datasets, calls, g)
                                   /\ AttrsTold(s.groups[g].attrs, calls, g)
  /\ \A i \in 1 .. Len(calls) : /\ ~calls[i].late => calls[i].where \in 0 .. Len(s.groups)
                                /\ calls[i].what = "group" => calls[i].where = 0

-----------------------------------------------------------------------------
Named(list, m, n) == {i \in 1 .. m : list[i].name = n}
Of(f, H) == {f[k] : k \in H}

\* The first member of a list is the first of the set it lists, also of those with a
\* property P.
LEMMA FirstListed ==
  ASSUME NEW m \in Nat, NEW f, NEW X, Lists(f, m, X), NEW H \in SUBSET (1 .. m),
         NEW Y, Y = Of(f, H), H # {}
  PROVE  Min(H) \in H /\ Min(Y) = f[Min(H)] /\ Y # {}
<1>0. Y = {f[k] : k \in H}
  BY DEF Of
<1>1. \E x \in H : \A y \in H : x <= y
  <2>1. H \in SUBSET Nat
    OBVIOUS
  <2> QED
    BY <2>1, NatMin
<1>2. PICK h \in H : h = Min(H) /\ \A y \in H : h <= y
  BY <1>1 DEF Min
<1>3. f[h] \in Y /\ \A y \in Y : f[h] <= y
  <2>1. ASSUME NEW k \in H PROVE f[h] <= f[k]
    <3>1. h \in 1 .. m /\ k \in 1 .. m /\ f[h] \in Nat /\ f[k] \in Nat
      BY DEF Lists
    <3>2. h = k \/ h < k
      BY <1>2, <3>1
    <3> QED
      BY <3>1, <3>2 DEF Lists
  <2> QED
    BY <2>1, <1>0, <1>2, Zenon
<1>4. Y \subseteq Nat
  BY <1>0 DEF Lists
<1>5. PICK z \in Y : z = Min(Y) /\ \A y \in Y : z <= y
  BY <1>3 DEF Min
<1>6. z = f[h]
  BY <1>3, <1>4, <1>5
<1> QED
  BY <1>2, <1>5, <1>6

Chosen(calls, X, n) == {i \in X : calls[i].name = n}
SameName(list, m, calls, f) == \A k \in 1 .. m : list[k].name = calls[f[k]].name

LEMMA SameNames ==
  ASSUME NEW m \in Nat, NEW f, NEW X, Lists(f, m, X), NEW list,
         NEW calls, SameName(list, m, calls, f), NEW n
  PROVE  Chosen(calls, X, n) = Of(f, Named(list, m, n))
  BY DEF Lists, Named, Of, Chosen, SameName

\* The first of a name in a list of the state, and the first call of that name.
LEMMA FirstOfName ==
  ASSUME NEW m \in Nat, NEW f, NEW X \in SUBSET (Nat \ {0}), Lists(f, m, X), NEW list,
         DOMAIN list = 1 .. m, NEW calls, SameName(list, m, calls, f), NEW n
  PROVE  /\ FirstNamed(list, n) \in 0 .. m
         /\ FirstNamed(list, n) = 0 => Chosen(calls, X, n) = {}
         /\ FirstNamed(list, n) # 0 =>
              /\ list[FirstNamed(list, n)].name = n
              /\ Chosen(calls, X, n) # {} /\ Min(Chosen(calls, X, n)) # 0
              /\ Min(Chosen(calls, X, n)) = f[FirstNamed(list, n)]
<1> DEFINE H == Named(list, m, n)
           Y == Chosen(calls, X, n)
<1>1. Y = Of(f, H)
  BY SameNames
<1>2. FirstNamed(list, n) = IF H = {} THEN 0 ELSE Min(H)
  BY DEF FirstNamed, Named
<1>3. H \in SUBSET (1 .. m) /\ \A h \in H : list[h].name = n
  BY DEF Named
<1> HIDE DEF H, Y
<1>4. CASE H = {}
  <2>1. Y = {}
    BY <1>1, <1>4 DEF Of
  <2>2. FirstNamed(list, n) = 0
    BY <1>2, <1>4
  <2> QED
    BY <2>1, <2>2 DEF Y
<1>5. CASE H # {}
  <2>1. Min(H) \in H /\ Min(Y) = f[Min(H)] /\ Y # {}
    <3>1. H \in SUBSET (1 .. m)
      BY <1>3
    <3> QED
      BY <3>1, <1>1, <1>5, FirstListed, Zenon
  <2>2. PICK h \in 1 .. m : h = Min(H) /\ h # 0
    <3>1. Min(H) \in 1 .. m
      BY <2>1, <1>3
    <3>2. \A h \in 1 .. m : h # 0
      OBVIOUS
    <3> QED
      BY <3>1, <3>2
  <2>3. Min(Y) = f[h] /\ f[h] \in X /\ f[h] # 0
    BY <2>1, <2>2 DEF Lists
  <2>4. FirstNamed(list, n) = h /\ list[h].name = n
    BY <2>1, <2>2, <1>2, <1>3, <1>5
  <2> QED
    BY <2>1, <2>2, <2>3, <2>4 DEF Y
<1> QED
  BY <1>4, <1>5 DEF Y

LEMMA InTimePositive ==
  ASSUME NEW calls \in Seq(Entry), NEW where, NEW what
  PROVE  InTime(calls, where, what) \in SUBSET (Nat \ {0})
<1>1. DOMAIN calls = 1 .. Len(calls) /\ Len(calls) \in Nat
  BY LenProperties
<1>2. \A i \in 1 .. Len(calls) : i \in Nat \ {0}
  BY <1>1
<1> QED
  BY <1>1, <1>2 DEF InTime

\* The first dataset of a name is that of the first call of the name.
LEMMA FirstDataset ==
  ASSUME NEW ds \in Seq(Spec), NEW calls \in Seq(Entry), NEW where,
         DatasetsTold(ds, calls, where), NEW n
  PROVE  /\ FirstNamed(ds, n) \in 0 .. Len(ds)
         /\ FirstNamed(ds, n) = 0 => FirstCall(calls, where, "dataset", n) = 0
         /\ FirstNamed(ds, n) # 0 =>
              /\ ds[FirstNamed(ds, n)].name = n
              /\ FirstCall(calls, where, "dataset", n) # 0
              /\ calls[FirstCall(calls, where, "dataset", n)].value = ds[FirstNamed(ds, n)].data
<1>1. Len(ds) \in Nat /\ DOMAIN ds = 1 .. Len(ds)
  BY LenProperties
<1>2. PICK f \in [1 .. Len(ds) -> Nat] :
        /\ Lists(f, Len(ds), InTime(calls, where, "dataset"))
        /\ \A k \in 1 .. Len(ds) : ds[k].name = calls[f[k]].name /\ ds[k].data = calls[f[k]].value
  BY DEF DatasetsTold
<1> DEFINE X == InTime(calls, where, "dataset")
<1>3. SameName(ds, Len(ds), calls, f) /\ X \in SUBSET (Nat \ {0})
  BY <1>2, InTimePositive DEF SameName
<1>4. FirstCall(calls, where, "dataset", n) = IF Chosen(calls, X, n) = {} THEN 0 ELSE Min(Chosen(calls, X, n))
  BY DEF FirstCall, Naming, Chosen
<1> HIDE DEF X
<1>5. Lists(f, Len(ds), X)
  BY <1>2 DEF X
<1>6. PICK k : k = FirstNamed(ds, n)
  OBVIOUS
<1>7. /\ k \in 0 .. Len(ds)
      /\ k = 0 => Chosen(calls, X, n) = {}
      /\ k # 0 => /\ ds[k].name = n
                  /\ Chosen(calls, X, n) # {} /\ Min(Chosen(calls, X, n)) # 0
                  /\ Min(Chosen(calls, X, n)) = f[k]
  BY <1>1, <1>3, <1>5, <1>6, FirstOfName
<1>8. ASSUME k # 0 PROVE ds[k].data = calls[f[k]].value
  BY <1>2, <1>7, <1>8, <1>1
<1> QED
  BY <1>4, <1>6, <1>7, <1>8

LEMMA FirstGroup ==
  ASSUME NEW gs \in Seq(Group), NEW calls \in Seq(Entry), GroupsTold(gs, calls), NEW n
  PROVE  /\ FirstNamed(gs, n) \in 0 .. Len(gs)
         /\ FirstNamed(gs, n) = 0 => FirstCall(calls, 0, "group", n) = 0
         /\ FirstNamed(gs, n) # 0 =>
              /\ gs[FirstNamed(gs, n)].name = n
              /\ FirstCall(calls, 0, "group", n) # 0
              /\ calls[FirstCall(calls, 0, "group", n)].id = FirstNamed(gs, n)
<1>1. Len(gs) \in Nat /\ DOMAIN gs = 1 .. Len(gs)
  BY LenProperties
<1>2. PICK f \in [1 .. Len(gs) -> Nat] :
        /\ Lists(f, Len(gs), InTime(calls, 0, "group"))
        /\ \A k \in 1 .. Len(gs) : gs[k].name = calls[f[k]].name /\ calls[f[k]].id = k
  BY DEF GroupsTold
<1> DEFINE X == InTime(calls, 0, "group")
<1>3. SameName(gs, Len(gs), calls, f) /\ X \in SUBSET (Nat \ {0})
  BY <1>2, InTimePositive DEF SameName
<1>4. FirstCall(calls, 0, "group", n) = IF Chosen(calls, X, n) = {} THEN 0 ELSE Min(Chosen(calls, X, n))
  BY DEF FirstCall, Naming, Chosen
<1> HIDE DEF X
<1>5. Lists(f, Len(gs), X)
  BY <1>2 DEF X
<1>6. PICK k : k = FirstNamed(gs, n)
  OBVIOUS
<1>7. /\ k \in 0 .. Len(gs)
      /\ k = 0 => Chosen(calls, X, n) = {}
      /\ k # 0 => /\ gs[k].name = n
                  /\ Chosen(calls, X, n) # {} /\ Min(Chosen(calls, X, n)) # 0
                  /\ Min(Chosen(calls, X, n)) = f[k]
  BY <1>1, <1>3, <1>5, <1>6, FirstOfName
<1>8. ASSUME k # 0 PROVE calls[f[k]].id = k
  BY <1>2, <1>7, <1>8, <1>1
<1> QED
  BY <1>4, <1>6, <1>7, <1>8

\* As many entries have a name as calls gave it.
LEMMA ListedCounts ==
  ASSUME NEW m \in Nat, NEW f, NEW X, Lists(f, m, X), NEW list,
         NEW calls, SameName(list, m, calls, f), NEW n
  PROVE  /\ IsFiniteSet(Named(list, m, n))
         /\ Cardinality(Chosen(calls, X, n)) = Cardinality(Named(list, m, n))
         /\ Cardinality(Named(list, m, n)) \in Nat
<1>1. Chosen(calls, X, n) = Of(f, Named(list, m, n))
  BY SameNames
<1>2. IsFiniteSet(Named(list, m, n))
  <2>1. IsFiniteSet(1 .. m)
    BY FS_Interval
  <2> QED
    BY <2>1, FS_Subset DEF Named
<1> DEFINE H == Named(list, m, n)
           g == [k \in H |-> f[k]]
<1>3. H \subseteq 1 .. m
  BY DEF Named
<1>4. g \in Bijection(H, Of(f, H))
  <2>1. \A j, k \in H : j # k => f[j] # f[k]
    <3> SUFFICES ASSUME NEW j \in H, NEW k \in H, j # k PROVE f[j] # f[k]
      OBVIOUS
    <3>1. j \in 1 .. m /\ k \in 1 .. m /\ f[j] \in Nat /\ f[k] \in Nat
      BY <1>3 DEF Lists
    <3>2. j < k \/ k < j
      BY <3>1
    <3> QED
      BY <3>1, <3>2 DEF Lists
  <2> QED
    BY <2>1 DEF Of, Bijection, Injection, Surjection, IsInjective
<1>5. Cardinality(Of(f, H)) = Cardinality(H)
  <2>1. ExistsBijection(H, Of(f, H))
    BY <1>4 DEF ExistsBijection
  <2> QED
    BY <1>2, <2>1, FS_Bijection
<1> QED
  BY <1>1, <1>2, <1>5, FS_CardinalityType

-----------------------------------------------------------------------------
(* The datasets of all groups in one row *)

WellTyped(s) == 
  /\ s.datasets \in Seq(Spec) /\ Len(s.datasets) \in Nat /\ DOMAIN s.datasets = 1 .. Len(s.datasets)
  /\ s.groups \in Seq(Group) /\ Len(s.groups) \in Nat /\ DOMAIN s.groups = 1 .. Len(s.groups)
  /\ \A g \in 1 .. Len(s.groups) :
        /\ s.groups[g] \in Group
        /\ s.groups[g].datasets \in Seq(Spec) /\ Len(s.groups[g].datasets) \in Nat
        /\ DOMAIN s.groups[g].datasets = 1 .. Len(s.groups[g].datasets)

LEMMA StateTypes ==
  ASSUME NEW s \in State
  PROVE  WellTyped(s)
<1>1. s.datasets \in Seq(Spec) /\ s.groups \in Seq(Group)
  BY DEF State
<1>2. PICK ds \in Seq(Spec) : ds = s.datasets
  BY <1>1
<1>3. PICK gs \in Seq(Group) : gs = s.groups
  BY <1>1
<1>4. Len(ds) \in Nat /\ DOMAIN ds = 1 .. Len(ds) /\ Len(gs) \in Nat /\ DOMAIN gs = 1 .. Len(gs)
  BY LenProperties
<1>5. ASSUME NEW g \in 1 .. Len(gs)
      PROVE  /\ gs[g] \in Group
             /\ gs[g].datasets \in Seq(Spec) /\ Len(gs[g].datasets) \in Nat
             /\ DOMAIN gs[g].datasets = 1 .. Len(gs[g].datasets)
  <2>1. gs[g] \in Group
    BY ElementOfSeq
  <2>2. gs[g].datasets \in Seq(Spec)
    BY <2>1 DEF Group
  <2>3. PICK x \in Seq(Spec) : x = gs[g].datasets
    BY <2>2
  <2>4. Len(x) \in Nat /\ DOMAIN x = 1 .. Len(x)
    BY LenProperties
  <2> QED
    BY <2>1, <2>3, <2>4
<1> QED
  BY <1>2, <1>3, <1>4, <1>5 DEF WellTyped

\* Rows[i] are the datasets of the root and of the first i groups.
IsRows(U, s) ==
  /\ U \in [0 .. Len(s.groups) -> Seq(Spec)]
  /\ U[0] = s.datasets
  /\ \A i \in 1 .. Len(s.groups) : U[i] = U[i - 1] \o s.groups[i].datasets

LEMMA RowsExist ==
  ASSUME NEW s \in State
  PROVE  \E U : IsRows(U, s) /\ FlatSpecs(s) = U[Len(s.groups)]
<1>0. PICK m \in Nat : m = Len(s.groups)
  BY StateTypes DEF WellTyped
<1> DEFINE V == Seq(Spec)
           step == [i \in 1 .. m |-> [v \in V |-> v \o s.groups[i].datasets]]
           Rec(f) == [i \in 0 .. m |-> IF i = 0 THEN s.datasets ELSE f[i - 1] \o s.groups[i].datasets]
           upTo == CHOOSE f : f = Rec(f)
<1>1. \A i \in 1 .. m : \A v \in V : v \o s.groups[i].datasets \in V
  <2> SUFFICES ASSUME NEW i \in 1 .. m, NEW v \in V PROVE v \o s.groups[i].datasets \in V
    OBVIOUS
  <2>1. PICK x \in Seq(Spec) : x = s.groups[i].datasets
    BY <1>0, StateTypes DEF WellTyped
  <2> QED
    BY <2>1, ConcatProperties
<1>2. step \in [1 .. m -> [V -> V]]
  <2> HIDE DEF V
  <2> QED
    BY <1>1
<1>3. \A i \in 1 .. m : \A v \in V : step[i][v] = v \o s.groups[i].datasets
  OBVIOUS
<1>4. FlatSpecs(s) = upTo[m]
  BY <1>0, Zenon DEF FlatSpecs
<1>5. s.datasets \in V
  BY StateTypes DEF WellTyped
<1> HIDE DEF V, step
<1>6. PICK u \in [0 .. m -> V] : IsFold(u, m, s.datasets, step)
  BY <1>2, <1>5, FoldExists
<1>7. \A i \in 1 .. m : i - 1 \in 0 .. m /\ i # 0
  OBVIOUS
<1>8. u = Rec(u)
  <2>1. ASSUME NEW i \in 0 .. m PROVE u[i] = Rec(u)[i]
    <3>1. CASE i = 0
      BY <3>1, <1>6 DEF IsFold
    <3>2. CASE i # 0
      <4>1. i \in 1 .. m /\ u[i - 1] \in V
        BY <3>2, <1>6, <1>7
      <4> QED
        BY <3>2, <4>1, <1>3, <1>6 DEF IsFold
    <3> QED
      BY <3>1, <3>2
  <2>2. DOMAIN u = 0 .. m /\ u = [i \in 0 .. m |-> u[i]]
    BY <1>6
  <2>3. Rec(u) = [i \in 0 .. m |-> Rec(u)[i]]
    OBVIOUS
  <2> HIDE DEF Rec
  <2> QED
    BY <2>1, <2>2, <2>3
<1>9. upTo = Rec(upTo)
  BY <1>8
<1> HIDE DEF upTo
<1>10. upTo[0] = s.datasets /\ \A i \in 1 .. m : upTo[i] = upTo[i - 1] \o s.groups[i].datasets
  <2>1. \A i \in 0 .. m : upTo[i] = IF i = 0 THEN s.datasets ELSE upTo[i - 1] \o s.groups[i].datasets
    BY <1>9, Zenon
  <2>2. 0 \in 0 .. m /\ \A i \in 1 .. m : i \in 0 .. m /\ i # 0
    OBVIOUS
  <2> QED
    BY <2>1, <2>2, Zenon
<1> DEFINE S == {i \in 0 .. m : upTo[i] \in V}
<1>11. 0 \in S
  BY <1>5, <1>10
<1>12. ASSUME NEW i \in 0 .. m - 1, i \in S PROVE i + 1 \in S
  <2>1. i + 1 \in 1 .. m /\ (i + 1) - 1 = i
    OBVIOUS
  <2>2. upTo[i] \in V
    BY <1>12
  <2>3. upTo[i] \o s.groups[i + 1].datasets \in V
    BY <2>1, <2>2, <1>1
  <2>4. upTo[i + 1] = upTo[i] \o s.groups[i + 1].datasets
    BY <2>1, <1>10
  <2>5. i + 1 \in 0 .. m
    OBVIOUS
  <2> QED
    BY <2>3, <2>4, <2>5
<1> HIDE DEF S
<1>13. 0 .. m \subseteq S
  BY <1>11, <1>12, RangeInduction
<1>14. upTo \in [0 .. m -> V]
  <2>1. \A i \in 0 .. m : upTo[i] \in V
    BY <1>13 DEF S
  <2> DEFINE R == Rec(upTo)
  <2>2. R = [i \in 0 .. m |-> R[i]]
    OBVIOUS
  <2> HIDE DEF R
  <2>3. upTo = R
    BY <1>9 DEF R
  <2> QED
    BY <2>1, <2>2, <2>3
<1> QED
  BY <1>0, <1>4, <1>10, <1>14 DEF IsRows, V

\* Appending a sequence keeps what was there.
LEMMA BeginsConcat ==
  ASSUME NEW T, NEW p \in Seq(T), NEW q \in Seq(T), NEW r \in Seq(T), Begins(p, q)
  PROVE  Begins(p, q \o r)
<1>1. Len(p) \in Nat /\ Len(q) \in Nat /\ Len(r) \in Nat
  BY LenProperties
<1>2. /\ q \o r \in Seq(T) /\ Len(q \o r) = Len(q) + Len(r)
      /\ \A i \in 1 .. Len(q) + Len(r) : (q \o r)[i] = IF i <= Len(q) THEN q[i] ELSE r[i - Len(q)]
  BY ConcatProperties
<1>3. PICK x \in Seq(T) : x = q \o r
  BY <1>2
<1>4. Len(p) <= Len(x) /\ Len(p) <= Len(q)
  BY <1>1, <1>2, <1>3 DEF Begins
<1>5. ASSUME NEW i \in 1 .. Len(p) PROVE p[i] = x[i]
  BY <1>1, <1>2, <1>3, <1>4 DEF Begins
<1> QED
  BY <1>3, <1>4, <1>5 DEF Begins

LEMMA BeginsFurther ==
  ASSUME NEW p, NEW q, NEW r, Len(p) \in Nat, Len(q) \in Nat, Len(r) \in Nat, Begins(p, q), Begins(q, r)
  PROVE  Begins(p, r)
  BY DEF Begins

LEMMA RowsKeep ==
  ASSUME NEW s \in State, NEW U, IsRows(U, s), NEW k \in 0 .. Len(s.groups)
  PROVE  \A i \in 0 .. Len(s.groups) : k <= i => Begins(U[k], U[i])
<1>0. PICK m \in Nat : m = Len(s.groups)
  BY StateTypes DEF WellTyped
<1>1. /\ U \in [0 .. m -> Seq(Spec)]
      /\ \A i \in 1 .. m : U[i] = U[i - 1] \o s.groups[i].datasets
  BY <1>0 DEF IsRows
<1>2. \A i \in 1 .. m : s.groups[i].datasets \in Seq(Spec)
  BY <1>0, StateTypes DEF WellTyped
<1> DEFINE S == {i \in 0 .. m : k <= i => Begins(U[k], U[i])}
<1>3. \A i \in 0 .. m : Begins(U[i], U[i])
  <2>1. \A i \in 0 .. m : Len(U[i]) \in Nat
    BY <1>1, LenProperties
  <2> QED
    BY <2>1 DEF Begins
<1>4. k \in 0 .. m
  BY <1>0
<1>5. 0 \in S
  BY <1>3, <1>4
<1>6. ASSUME NEW i \in 0 .. m - 1, i \in S PROVE i + 1 \in S
  <2>1. i + 1 \in 1 .. m /\ i + 1 \in 0 .. m /\ (i + 1) - 1 = i
    OBVIOUS
  <2>2. U[i + 1] = U[i] \o s.groups[i + 1].datasets
    BY <1>1, <2>1
  <2>3. CASE k <= i
    <3>1. U[i] \in Seq(Spec) /\ U[k] \in Seq(Spec) /\ s.groups[i + 1].datasets \in Seq(Spec)
      BY <1>1, <1>2, <1>4, <2>1
    <3>2. Begins(U[k], U[i])
      BY <1>6, <2>3
    <3>3. Begins(U[k], U[i] \o s.groups[i + 1].datasets)
      BY <3>1, <3>2, BeginsConcat
    <3> QED
      BY <2>1, <2>2, <3>3
  <2>4. CASE k = i + 1
    BY <2>1, <2>4, <1>3
  <2>5. CASE k > i + 1
    BY <2>1, <2>5, <1>4
  <2> QED
    BY <2>3, <2>4, <2>5, <1>4
<1> HIDE DEF S
<1>7. 0 .. m \subseteq S
  BY <1>5, <1>6, RangeInduction
<1> QED
  BY <1>0, <1>7 DEF S

LEMMA BeforeIsLength ==
  ASSUME NEW s \in State, NEW U, IsRows(U, s), NEW g \in 1 .. Len(s.groups)
  PROVE  Before(s, g) = Len(U[g - 1])
<1>0. PICK m \in Nat : m = Len(s.groups)
  BY StateTypes DEF WellTyped
<1>1. /\ U \in [0 .. m -> Seq(Spec)] /\ U[0] = s.datasets
      /\ \A i \in 1 .. m : U[i] = U[i - 1] \o s.groups[i].datasets
  BY <1>0 DEF IsRows
<1>2. \A i \in 1 .. m : s.groups[i].datasets \in Seq(Spec)
  BY <1>0, StateTypes DEF WellTyped
<1>3. \A i \in 1 .. m : Len(U[i]) = Len(U[i - 1]) + Len(s.groups[i].datasets)
  <2> SUFFICES ASSUME NEW i \in 1 .. m PROVE Len(U[i]) = Len(U[i - 1]) + Len(s.groups[i].datasets)
    OBVIOUS
  <2>1. i - 1 \in 0 .. m
    OBVIOUS
  <2>2. U[i - 1] \in Seq(Spec)
    BY <1>1, <2>1
  <2>3. s.groups[i].datasets \in Seq(Spec)
    BY <1>2
  <2>4. Len(U[i - 1] \o s.groups[i].datasets) = Len(U[i - 1]) + Len(s.groups[i].datasets)
    BY <2>2, <2>3, ConcatProperties
  <2> QED
    BY <1>1, <2>4
<1>4. PICK n \in Nat : n = g - 1 /\ n <= m
  BY <1>0
<1> DEFINE Rec(f) == [h \in 0 .. n |-> IF h = 0 THEN Len(s.datasets) ELSE f[h - 1] + Len(s.groups[h].datasets)]
           upTo == CHOOSE f : f = Rec(f)
           u == [h \in 0 .. n |-> Len(U[h])]
<1>5. Before(s, g) = upTo[n]
  BY <1>4, Zenon DEF Before
<1>6. u = Rec(u)
  <2>1. ASSUME NEW h \in 0 .. n PROVE u[h] = Rec(u)[h]
    <3>1. CASE h = 0
      BY <3>1, <1>1
    <3>2. CASE h # 0
      <4>1. h \in 1 .. m /\ h - 1 \in 0 .. n
        BY <3>2, <1>4
      <4> QED
        BY <3>2, <4>1, <1>3
    <3> QED
      BY <3>1, <3>2
  <2> QED
    BY <2>1
<1>7. upTo = Rec(upTo)
  BY <1>6
<1> HIDE DEF upTo
<1>8. upTo[0] = Len(s.datasets)
  BY <1>7
<1>9. ASSUME NEW h \in 1 .. n PROVE upTo[h] = upTo[h - 1] + Len(s.groups[h].datasets)
  <2>1. h \in 0 .. n /\ h # 0
    OBVIOUS
  <2> QED
    BY <1>7, <2>1
<1> DEFINE S == {h \in 0 .. n : upTo[h] = Len(U[h])}
<1>10. 0 \in S
  BY <1>8, <1>1
<1>11. ASSUME NEW h \in 0 .. n - 1, h \in S PROVE h + 1 \in S
  <2>1. h + 1 \in 1 .. n /\ h + 1 \in 0 .. n /\ (h + 1) - 1 = h /\ h + 1 \in 1 .. m
    BY <1>4
  <2>2. upTo[h + 1] = upTo[h] + Len(s.groups[h + 1].datasets)
    BY <1>9, <2>1
  <2>3. Len(U[h + 1]) = Len(U[h]) + Len(s.groups[h + 1].datasets)
    BY <1>3, <2>1
  <2> QED
    BY <2>1, <2>2, <2>3, <1>11
<1> HIDE DEF S
<1>12. 0 .. n \subseteq S
  BY <1>10, <1>11, RangeInduction
<1>13. n \in S
  BY <1>12
<1> QED
  BY <1>5, <1>4, <1>13 DEF S

\* Where the datasets of the root and of a group are among all.
LEMMA FlatAt ==
  ASSUME NEW s \in State
  PROVE  /\ FlatSpecs(s) \in Seq(Spec) /\ Begins(s.datasets, FlatSpecs(s))
         /\ \A g \in 1 .. Len(s.groups) :
              /\ Before(s, g) \in Nat
              /\ \A j \in 1 .. Len(s.groups[g].datasets) :
                   /\ Before(s, g) + j \in 1 .. Len(FlatSpecs(s))
                   /\ FlatSpecs(s)[Before(s, g) + j] = s.groups[g].datasets[j]
<1>1. PICK U : IsRows(U, s) /\ FlatSpecs(s) = U[Len(s.groups)]
  BY RowsExist
<1>2. PICK m \in Nat : m = Len(s.groups)
  BY StateTypes DEF WellTyped
<1>3. U \in [0 .. m -> Seq(Spec)] /\ U[0] = s.datasets
  BY <1>1, <1>2 DEF IsRows
<1>4. 0 \in 0 .. m /\ m \in 0 .. m
  OBVIOUS
<1>5. U[m] \in Seq(Spec) /\ Begins(U[0], U[m])
  BY <1>1, <1>2, <1>3, <1>4, RowsKeep
<1>6. ASSUME NEW g \in 1 .. m
      PROVE  /\ Before(s, g) \in Nat
             /\ \A j \in 1 .. Len(s.groups[g].datasets) :
                  /\ Before(s, g) + j \in 1 .. Len(U[m])
                  /\ U[m][Before(s, g) + j] = s.groups[g].datasets[j]
  <2>1. g \in 0 .. m /\ g - 1 \in 0 .. m
    OBVIOUS
  <2>2. PICK p \in Seq(Spec) : p = U[g - 1]
    BY <1>3, <2>1
  <2>3. PICK q \in Seq(Spec) : q = s.groups[g].datasets
    BY <1>2, StateTypes DEF WellTyped
  <2>4. PICK x \in Seq(Spec) : x = U[g]
    BY <1>3, <2>1
  <2>5. x = p \o q
    BY <2>2, <2>3, <2>4, <1>1, <1>2 DEF IsRows
  <2>6. Len(p) \in Nat /\ Len(q) \in Nat
    BY LenProperties
  <2>7. Len(x) = Len(p) + Len(q) /\ \A i \in 1 .. Len(p) + Len(q) : x[i] = IF i <= Len(p) THEN p[i] ELSE q[i - Len(p)]
    BY <2>5, ConcatProperties
  <2>8. PICK y \in Seq(Spec) : y = U[m]
    BY <1>5
  <2>9. Begins(x, y) /\ Len(y) \in Nat
    <3>1. Begins(U[g], U[m])
      BY <2>1, <1>1, <1>2, <1>4, RowsKeep
    <3> QED
      BY <3>1, <2>4, <2>8, LenProperties
  <2>10. Before(s, g) = Len(p)
    BY <1>1, <1>2, <2>2, BeforeIsLength
  <2>11. ASSUME NEW j \in 1 .. Len(q) PROVE Len(p) + j \in 1 .. Len(y) /\ y[Len(p) + j] = q[j]
    <3>1. Len(p) + j \in 1 .. Len(p) + Len(q) /\ ~(Len(p) + j <= Len(p)) /\ Len(p) + j - Len(p) = j
      BY <2>6
    <3>2. x[Len(p) + j] = q[j]
      BY <2>7, <3>1
    <3>3. Len(p) + j \in 1 .. Len(x) /\ Len(p) + j \in 1 .. Len(y)
      BY <3>1, <2>7, <2>6, <2>9 DEF Begins
    <3> QED
      BY <3>2, <3>3, <2>9 DEF Begins
  <2> QED
    BY <2>3, <2>6, <2>8, <2>10, <2>11
<1> QED
  BY <1>1, <1>2, <1>3, <1>5, <1>6

-----------------------------------------------------------------------------
(* The blocks of an image                                                  *)

LEMMA PairSeq ==
  ASSUME NEW T, NEW a \in T, NEW b \in T
  PROVE  <<a, b>> \in Seq(T) /\ Len(<<a, b>>) = 2 /\ <<a, b>>[1] = a /\ <<a, b>>[2] = b
OBVIOUS

LEMMA FamilySeq ==
  ASSUME NEW T, NEW n \in Nat, NEW f \in [1 .. n -> T]
  PROVE  f \in Seq(T) /\ Len(f) = n
OBVIOUS

\* The second of two sequences, put behind the first.
LEMMA BehindFirst ==
  ASSUME NEW T, NEW p \in Seq(T), NEW q \in Seq(T)
  PROVE  /\ p \o q \in Seq(T) /\ Len(p \o q) = Len(p) + Len(q)
         /\ \A i \in 1 .. Len(p) : (p \o q)[i] = p[i]
         /\ \A i \in 1 .. Len(q) : (p \o q)[Len(p) + i] = q[i]
<1>1. Len(p) \in Nat /\ Len(q) \in Nat
  BY LenProperties
<1>2. /\ p \o q \in Seq(T) /\ Len(p \o q) = Len(p) + Len(q)
      /\ \A i \in 1 .. Len(p) + Len(q) : (p \o q)[i] = IF i <= Len(p) THEN p[i] ELSE q[i - Len(p)]
  BY ConcatProperties
<1>3. PICK x : x = p \o q
  OBVIOUS
<1>4. \A i \in 1 .. Len(p) : x[i] = p[i]
  BY <1>1, <1>2, <1>3
<1>5. ASSUME NEW i \in 1 .. Len(q) PROVE x[Len(p) + i] = q[i]
  <2>1. Len(p) + i \in 1 .. Len(p) + Len(q) /\ ~(Len(p) + i <= Len(p)) /\ Len(p) + i - Len(p) = i
    BY <1>1
  <2> QED
    BY <2>1, <1>2, <1>3
<1> QED
  BY <1>2, <1>3, <1>4, <1>5

\* x consists of four parts.
Consists(x, T, p, q, r, t) ==
  /\ x \in Seq(T) /\ Len(x) = Len(p) + Len(q) + Len(r) + Len(t)
  /\ \A i \in 1 .. Len(p) : x[i] = p[i]
  /\ \A i \in 1 .. Len(q) : x[Len(p) + i] = q[i]
  /\ \A i \in 1 .. Len(r) : x[Len(p) + Len(q) + i] = r[i]
  /\ \A i \in 1 .. Len(t) : x[Len(p) + Len(q) + Len(r) + i] = t[i]

LEMMA FourParts ==
  ASSUME NEW T, NEW p \in Seq(T), NEW q \in Seq(T), NEW r \in Seq(T), NEW t \in Seq(T)
  PROVE  Consists(p \o q \o r \o t, T, p, q, r, t)
<1>0. PICK x : x = p \o q \o r \o t
  OBVIOUS
<1>1. Len(p) \in Nat /\ Len(q) \in Nat /\ Len(r) \in Nat /\ Len(t) \in Nat
  BY LenProperties
<1>2. PICK u \in Seq(T) : u = p \o q
  BY BehindFirst
<1>3. PICK v \in Seq(T) : v = u \o r
  BY BehindFirst
<1>4. x = v \o t
  BY <1>0, <1>2, <1>3
<1>5. /\ Len(u) = Len(p) + Len(q)
      /\ \A i \in 1 .. Len(p) : u[i] = p[i]
      /\ \A i \in 1 .. Len(q) : u[Len(p) + i] = q[i]
  BY <1>2, BehindFirst
<1>6. /\ Len(v) = Len(u) + Len(r)
      /\ \A i \in 1 .. Len(u) : v[i] = u[i]
      /\ \A i \in 1 .. Len(r) : v[Len(u) + i] = r[i]
  BY <1>3, BehindFirst
<1>7. /\ x \in Seq(T) /\ Len(x) = Len(v) + Len(t)
      /\ \A i \in 1 .. Len(v) : x[i] = v[i]
      /\ \A i \in 1 .. Len(t) : x[Len(v) + i] = t[i]
  BY <1>4, BehindFirst
<1>8. Len(v) = Len(p) + Len(q) + Len(r)
  BY <1>1, <1>5, <1>6
<1>9. \A i \in 1 .. Len(p) : x[i] = p[i]
  <2> SUFFICES ASSUME NEW i \in 1 .. Len(p) PROVE x[i] = p[i]
    OBVIOUS
  <2>1. i \in 1 .. Len(u) /\ i \in 1 .. Len(v)
    BY <1>1, <1>5, <1>8
  <2> QED
    BY <2>1, <1>5, <1>6, <1>7
<1>10. \A i \in 1 .. Len(q) : x[Len(p) + i] = q[i]
  <2> SUFFICES ASSUME NEW i \in 1 .. Len(q) PROVE x[Len(p) + i] = q[i]
    OBVIOUS
  <2>1. Len(p) + i \in 1 .. Len(u) /\ Len(p) + i \in 1 .. Len(v)
    BY <1>1, <1>5, <1>8
  <2> QED
    BY <2>1, <1>5, <1>6, <1>7
<1>11. \A i \in 1 .. Len(r) : x[Len(p) + Len(q) + i] = r[i]
  <2> SUFFICES ASSUME NEW i \in 1 .. Len(r) PROVE x[Len(p) + Len(q) + i] = r[i]
    OBVIOUS
  <2>1. Len(p) + Len(q) + i \in 1 .. Len(v) /\ Len(p) + Len(q) + i = Len(u) + i
    BY <1>1, <1>5, <1>8
  <2> QED
    BY <2>1, <1>5, <1>6, <1>7
<1>12. \A i \in 1 .. Len(t) : x[Len(p) + Len(q) + Len(r) + i] = t[i]
  BY <1>7, <1>8
<1>13. Len(x) = Len(p) + Len(q) + Len(r) + Len(t)
  BY <1>7, <1>8
<1>14. Consists(x, T, p, q, r, t)
  BY <1>7, <1>9, <1>10, <1>11, <1>12, <1>13 DEF Consists
<1> QED
  BY <1>0, <1>14

NumSpecs(s) == Len(FlatSpecs(s))

Blocks(s) ==
  {"superblock", RootHeader(s)} \cup {GroupHeader(s, g) : g \in 1 .. Len(s.groups)}
    \cup {DatasetHeader(s, i) : i \in 1 .. NumSpecs(s)}
    \cup {Applied(FlatSpecs(s)[i]).elems : i \in 1 .. NumSpecs(s)}

\* Every address of an image is that of the block meant.
LEMMA ImageAt ==
  ASSUME NEW s \in State
  PROVE  /\ NumSpecs(s) \in Nat /\ Len(s.groups) \in Nat
         /\ Image(s) \in Seq(Blocks(s)) /\ Len(Image(s)) = 2 + Len(s.groups) + NumSpecs(s) + NumSpecs(s)
         /\ Image(s)[RootAt] = RootHeader(s)
         /\ \A g \in 1 .. Len(s.groups) : Image(s)[GroupAt(g)] = GroupHeader(s, g)
         /\ \A i \in 1 .. NumSpecs(s) : /\ Image(s)[HeaderAt(s, i)] = DatasetHeader(s, i)
                                        /\ Image(s)[DataAt(s, i)] = Applied(FlatSpecs(s)[i]).elems
<1>1. PICK ng \in Nat : ng = Len(s.groups) /\ DOMAIN s.groups = 1 .. ng
  BY StateTypes DEF WellTyped
<1>2. PICK flat \in Seq(Spec) : flat = FlatSpecs(s)
  BY FlatAt
<1>3. PICK nd \in Nat : nd = Len(flat) /\ DOMAIN flat = 1 .. nd
  BY LenProperties
<1> DEFINE T == Blocks(s)
           p == <<"superblock", RootHeader(s)>>
           q == [g \in 1 .. ng |-> GroupHeader(s, g)]
           r == [i \in 1 .. nd |-> DatasetHeader(s, i)]
           t == [i \in 1 .. nd |-> Applied(FlatSpecs(s)[i]).elems]
           x == Image(s)
<1>4. NumSpecs(s) = nd
  BY <1>2, <1>3 DEF NumSpecs
<1>5. "superblock" \in T /\ RootHeader(s) \in T
  BY DEF Blocks
<1>6. q \in [1 .. ng -> T]
  <2>1. \A g \in 1 .. ng : GroupHeader(s, g) \in T
    BY <1>1 DEF Blocks
  <2> HIDE DEF T
  <2> QED
    BY <2>1
<1>7. r \in [1 .. nd -> T]
  <2>1. \A i \in 1 .. nd : DatasetHeader(s, i) \in T
    BY <1>4 DEF Blocks
  <2> HIDE DEF T
  <2> QED
    BY <2>1
<1>8. t \in [1 .. nd -> T]
  <2>1. \A i \in 1 .. nd : Applied(FlatSpecs(s)[i]).elems \in T
    BY <1>4 DEF Blocks
  <2> HIDE DEF T
  <2> QED
    BY <2>1
<1>9. x = p \o q \o r \o t
  <2>1. DOMAIN FlatSpecs(s) = 1 .. nd /\ DOMAIN s.groups = 1 .. ng
    BY <1>1, <1>2, <1>3
  <2> QED
    BY <2>1, Zenon DEF Image
<1>10. \A g \in 1 .. ng : q[g] = GroupHeader(s, g)
  OBVIOUS
<1>11. \A i \in 1 .. nd : r[i] = DatasetHeader(s, i) /\ t[i] = Applied(FlatSpecs(s)[i]).elems
  OBVIOUS
<1> HIDE DEF T, q, r, t, x
<1>12. p \in Seq(T) /\ Len(p) = 2 /\ p[1] = "superblock" /\ p[2] = RootHeader(s)
  BY <1>5, PairSeq
<1> HIDE DEF p
<1>13. q \in Seq(T) /\ r \in Seq(T) /\ t \in Seq(T) /\ Len(q) = ng /\ Len(r) = nd /\ Len(t) = nd
  BY <1>6, <1>7, <1>8, FamilySeq
<1>14. /\ x \in Seq(T) /\ Len(x) = Len(p) + Len(q) + Len(r) + Len(t)
       /\ \A i \in 1 .. Len(p) : x[i] = p[i]
       /\ \A i \in 1 .. Len(q) : x[Len(p) + i] = q[i]
       /\ \A i \in 1 .. Len(r) : x[Len(p) + Len(q) + i] = r[i]
       /\ \A i \in 1 .. Len(t) : x[Len(p) + Len(q) + Len(r) + i] = t[i]
  <2>1. p \in Seq(T)
    BY <1>12
  <2>2. q \in Seq(T)
    BY <1>13
  <2>3. r \in Seq(T)
    BY <1>13
  <2>4. t \in Seq(T)
    BY <1>13
  <2>5. Consists(p \o q \o r \o t, T, p, q, r, t)
    BY <2>1, <2>2, <2>3, <2>4, FourParts
  <2>6. Consists(x, T, p, q, r, t)
    BY <2>5, <1>9
  <2> QED
    BY <2>6 DEF Consists
<1>15. x[RootAt] = RootHeader(s)
  <2>1. 2 \in 1 .. Len(p)
    BY <1>12
  <2> QED
    BY <2>1, <1>12, <1>14 DEF RootAt
<1>16. \A g \in 1 .. ng : x[GroupAt(g)] = GroupHeader(s, g)
  BY <1>10, <1>12, <1>13, <1>14 DEF GroupAt, RootAt
<1>17. \A i \in 1 .. nd : HeaderAt(s, i) = 2 + ng + i /\ DataAt(s, i) = 2 + ng + nd + i
  BY <1>1, <1>2, <1>3 DEF HeaderAt, DataAt, RootAt
<1>18. \A i \in 1 .. nd : x[HeaderAt(s, i)] = DatasetHeader(s, i) /\ x[DataAt(s, i)] = Applied(FlatSpecs(s)[i]).elems
  BY <1>11, <1>12, <1>13, <1>14, <1>17
<1> QED
  BY <1>1, <1>4, <1>12, <1>13, <1>14, <1>15, <1>16, <1>18 DEF x, T

-----------------------------------------------------------------------------
(* Looking a name up                                                       *)

LEMMA FirstNamedType ==
  ASSUME NEW m \in Nat, NEW list, DOMAIN list = 1 .. m, NEW n
  PROVE  /\ FirstNamed(list, n) \in 0 .. m
         /\ FirstNamed(list, n) = 0 => \A i \in 1 .. m : list[i].name # n
         /\ FirstNamed(list, n) # 0 => /\ list[FirstNamed(list, n)].name = n
                                       /\ \A i \in 1 .. m : i < FirstNamed(list, n) => list[i].name # n
<1> DEFINE H == {i \in DOMAIN list : list[i].name = n}
<1>1. FirstNamed(list, n) = IF H = {} THEN 0 ELSE Min(H)
  BY DEF FirstNamed
<1>2. H \in SUBSET Nat /\ \A i \in 1 .. m : i \in H <=> list[i].name = n
  OBVIOUS
<1>3. \A i \in H : i \in 1 .. m /\ i # 0
  OBVIOUS
<1> HIDE DEF H
<1>4. CASE H = {}
  BY <1>1, <1>2, <1>4
<1>5. CASE H # {}
  <2>1. \E x \in H : \A y \in H : x <= y
    BY <1>2, <1>5, NatMin
  <2>2. PICK h \in H : h = Min(H) /\ \A y \in H : h <= y
    BY <2>1 DEF Min
  <2>3. h \in 1 .. m /\ h # 0 /\ FirstNamed(list, n) = h
    BY <1>1, <1>3, <1>5, <2>2
  <2>4. list[h].name = n
    BY <1>2, <2>3
  <2>5. ASSUME NEW i \in 1 .. m, i < h PROVE list[i].name # n
    BY <1>2, <2>2, <2>3, <2>5
  <2> QED
    BY <2>3, <2>4, <2>5
<1> QED
  BY <1>4, <1>5

IsFirst(list, m, n, k) == list[k].name = n /\ \A i \in 1 .. m : i < k => list[i].name # n

LEMMA FirstNamedIs ==
  ASSUME NEW m \in Nat, NEW list, DOMAIN list = 1 .. m, NEW n, NEW k \in 1 .. m,
         IsFirst(list, m, n, k)
  PROVE  FirstNamed(list, n) = k
<1>1. PICK h : h = FirstNamed(list, n)
  OBVIOUS
<1>2. /\ h \in 0 .. m
      /\ h = 0 => \A i \in 1 .. m : list[i].name # n
      /\ h # 0 => /\ list[h].name = n
                  /\ \A i \in 1 .. m : i < h => list[i].name # n
  BY <1>1, FirstNamedType
<1>3. h # 0 /\ h \in 1 .. m
  BY <1>2 DEF IsFirst
<1>4. ~(h < k) /\ ~(k < h)
  BY <1>2, <1>3 DEF IsFirst
<1> QED
  BY <1>1, <1>3, <1>4

LEMMA FirstNamedNone ==
  ASSUME NEW m \in Nat, NEW list, DOMAIN list = 1 .. m, NEW n, \A i \in 1 .. m : list[i].name # n
  PROVE  FirstNamed(list, n) = 0
  BY DEF FirstNamed

\* In two lists, one after the other, the first one's entries come first.
LEMMA FirstOfTwo ==
  ASSUME NEW T, NEW p \in Seq(T), NEW q \in Seq(T), NEW n
  PROVE  FirstNamed(p \o q, n) = IF FirstNamed(p, n) # 0 THEN FirstNamed(p, n)
                                 ELSE IF FirstNamed(q, n) # 0 THEN Len(p) + FirstNamed(q, n) ELSE 0
<1>1. PICK x \in Seq(T) : x = p \o q
  BY BehindFirst
<1>2. PICK a \in Nat, b \in Nat : a = Len(p) /\ b = Len(q) /\ DOMAIN p = 1 .. a /\ DOMAIN q = 1 .. b
  BY LenProperties
<1>3. /\ Len(x) = a + b /\ DOMAIN x = 1 .. a + b
      /\ \A i \in 1 .. a : x[i] = p[i]
      /\ \A i \in 1 .. b : x[a + i] = q[i]
  BY <1>1, <1>2, BehindFirst, LenProperties
<1>4. \A i \in 1 .. a + b : i > a => i - a \in 1 .. b /\ x[i] = q[i - a]
  <2> SUFFICES ASSUME NEW i \in 1 .. a + b, i > a PROVE i - a \in 1 .. b /\ x[i] = q[i - a]
    OBVIOUS
  <2>1. PICK j \in 1 .. b : i = a + j
    <3>1. i - a \in 1 .. b /\ i = a + (i - a)
      OBVIOUS
    <3> QED
      BY <3>1
  <2>2. x[a + j] = q[j] /\ i - a = j
    BY <1>3, <2>1
  <2> QED
    BY <2>1, <2>2
<1>5. a + b \in Nat
  OBVIOUS
<1>6. PICK k : k = FirstNamed(p, n)
  OBVIOUS
<1>7. PICK l : l = FirstNamed(q, n)
  OBVIOUS
<1>8. /\ k \in 0 .. a
      /\ k = 0 => \A i \in 1 .. a : p[i].name # n
      /\ k # 0 => /\ p[k].name = n
                  /\ \A i \in 1 .. a : i < k => p[i].name # n
  BY <1>2, <1>6, FirstNamedType
<1>9. /\ l \in 0 .. b
      /\ l = 0 => \A i \in 1 .. b : q[i].name # n
      /\ l # 0 => /\ q[l].name = n
                  /\ \A i \in 1 .. b : i < l => q[i].name # n
  BY <1>2, <1>7, FirstNamedType
<1>10. CASE k # 0
  <2>1. k \in 1 .. a + b /\ k \in 1 .. a /\ x[k].name = n
    BY <1>3, <1>8, <1>10
  <2>2. \A i \in 1 .. a + b : i < k => x[i].name # n
    BY <1>3, <1>8, <1>10, <2>1
  <2>3. IsFirst(x, a + b, n, k)
    BY <2>1, <2>2 DEF IsFirst
  <2>4. FirstNamed(x, n) = k
    BY <2>1, <2>3, <1>3, <1>5, FirstNamedIs
  <2> QED
    BY <2>4, <1>1, <1>6, <1>10
<1>11. CASE k = 0 /\ l # 0
  <2>1. a + l \in 1 .. a + b /\ l \in 1 .. b /\ x[a + l].name = n
    BY <1>3, <1>9, <1>11
  <2>2. \A i \in 1 .. a + b : i < a + l => x[i].name # n
    <3> SUFFICES ASSUME NEW i \in 1 .. a + b, i < a + l PROVE x[i].name # n
      OBVIOUS
    <3>1. CASE i <= a
      BY <3>1, <1>3, <1>8, <1>11
    <3>2. CASE i > a
      <4>1. i - a \in 1 .. b /\ i - a < l /\ x[i] = q[i - a]
        BY <3>2, <1>4, <2>1
      <4> QED
        BY <4>1, <1>9, <1>11
    <3> QED
      BY <3>1, <3>2
  <2>3. IsFirst(x, a + b, n, a + l)
    BY <2>1, <2>2 DEF IsFirst
  <2>4. FirstNamed(x, n) = a + l
    BY <2>1, <2>3, <1>3, <1>5, FirstNamedIs
  <2> QED
    BY <2>4, <1>1, <1>2, <1>6, <1>7, <1>11
<1>12. CASE k = 0 /\ l = 0
  <2>1. \A i \in 1 .. a + b : x[i].name # n
    <3> SUFFICES ASSUME NEW i \in 1 .. a + b PROVE x[i].name # n
      OBVIOUS
    <3>1. CASE i <= a
      BY <3>1, <1>3, <1>8, <1>12
    <3>2. CASE i > a
      BY <3>2, <1>4, <1>9, <1>12
    <3> QED
      BY <3>1, <3>2
  <2>2. FirstNamed(x, n) = 0
    BY <2>1, <1>3, <1>5, FirstNamedNone
  <2> QED
    BY <2>2, <1>1, <1>6, <1>7, <1>12
<1> QED
  BY <1>10, <1>11, <1>12

\* The path's keys one after the other.
LEMMA Resolves ==
  ASSUME NEW bytes, NEW path, NEW n \in {0, 1, 2}, Len(path) = n
  PROVE  ResolvePath(bytes, path) =
           IF n = 0 THEN RootAt
           ELSE IF n = 1 THEN Follow(bytes, RootAt, path[1])
           ELSE Follow(bytes, Follow(bytes, RootAt, path[1]), path[2])
<1> DEFINE Rec(f) == [i \in 0 .. n |-> IF i = 0 THEN RootAt ELSE Follow(bytes, f[i - 1], path[i])]
           upTo == CHOOSE f : f = Rec(f)
           first == Follow(bytes, RootAt, path[1])
           u == [i \in 0 .. n |-> IF i = 0 THEN RootAt
                                  ELSE IF i = 1 THEN first
                                  ELSE Follow(bytes, first, path[2])]
<1>1. ResolvePath(bytes, path) = upTo[n]
  BY Zenon DEF ResolvePath
<1>2. u = Rec(u)
  <2>1. ASSUME NEW i \in 0 .. n PROVE u[i] = Rec(u)[i]
    <3>1. i = 0 \/ i = 1 \/ i = 2
      OBVIOUS
    <3>2. CASE i = 0
      BY <3>2
    <3>3. CASE i = 1
      <4>1. 0 \in 0 .. n /\ i - 1 = 0
        BY <3>3
      <4> QED
        BY <3>3, <4>1
    <3>4. CASE i = 2
      <4>1. 1 \in 0 .. n /\ i - 1 = 1
        BY <3>4
      <4> QED
        BY <3>4, <4>1
    <3> QED
      BY <3>1, <3>2, <3>3, <3>4
  <2> QED
    BY <2>1
<1>3. upTo = Rec(upTo)
  BY <1>2
<1> HIDE DEF upTo
<1>4. upTo[0] = RootAt
  BY <1>3
<1>5. n >= 1 => upTo[1] = first
  <2> SUFFICES ASSUME n >= 1 PROVE upTo[1] = first
    OBVIOUS
  <2>1. 1 \in 0 .. n /\ 1 - 1 = 0 /\ 1 # 0
    OBVIOUS
  <2> QED
    BY <2>1, <1>3, <1>4
<1>6. n = 2 => upTo[2] = Follow(bytes, first, path[2])
  <2> SUFFICES ASSUME n = 2 PROVE upTo[2] = Follow(bytes, first, path[2])
    OBVIOUS
  <2>1. 2 \in 0 .. n /\ 2 - 1 = 1 /\ 2 # 0
    OBVIOUS
  <2> QED
    BY <2>1, <1>3, <1>5
<1> QED
  BY <1>1, <1>4, <1>5, <1>6

-----------------------------------------------------------------------------
(* Following a path through an image, or through its beginning             *)

PartOf(bytes, s) == bytes \in Seq(Blocks(s)) /\ Begins(bytes, Image(s))

\* What is there of an image is as in the image.
LEMMA PartAt ==
  ASSUME NEW s \in State, NEW bytes, PartOf(bytes, s), NEW at
  PROVE  /\ Len(bytes) \in Nat /\ DOMAIN bytes = 1 .. Len(bytes)
         /\ HeaderIn(bytes, at) = IF at \in 1 .. Len(bytes) THEN Image(s)[at] ELSE Failure
         /\ DataOf(bytes, at, 0) = IF at \in 1 .. Len(bytes) THEN Image(s)[at] ELSE None
         /\ HeaderIn(bytes, None) = Failure
<1>1. PICK n \in Nat : n = Len(bytes) /\ DOMAIN bytes = 1 .. n
  BY LenProperties DEF PartOf
<1>2. \A i \in 1 .. n : bytes[i] = Image(s)[i]
  BY <1>1 DEF PartOf, Begins
<1>3. None \notin 1 .. n
  BY SessionAssumption
<1> QED
  BY <1>1, <1>2, <1>3 DEF HeaderIn, DataOf

Link == [name : Names, at : Nat]

\* The links of the root: its datasets and then its groups.
LEMMA RootLinks ==
  ASSUME NEW s \in State, NEW n, NEW d, d = FirstNamed(s.datasets, n), NEW g, g = FirstNamed(s.groups, n),
         NEW links, links = RootHeader(s).links, NEW l, l = FirstNamed(links, n)
  PROVE  /\ d # 0 => l # 0 /\ links[l].at = HeaderAt(s, d)
         /\ d = 0 /\ g # 0 => l # 0 /\ links[l].at = GroupAt(g)
         /\ d = 0 /\ g = 0 => l = 0
<1>1. PICK nd \in Nat : nd = Len(s.datasets) /\ DOMAIN s.datasets = 1 .. nd
  BY StateTypes DEF WellTyped
<1>2. PICK ng \in Nat : ng = Len(s.groups) /\ DOMAIN s.groups = 1 .. ng
  BY StateTypes DEF WellTyped
<1> DEFINE p == DatasetLinks(s, s.datasets, 0)
           q == GroupLinks(s)
           T == {p[i] : i \in 1 .. nd} \cup {q[i] : i \in 1 .. ng}
<1>3. links = p \o q
  BY DEF RootHeader
<1>4. /\ DOMAIN p = 1 .. nd /\ p = [i \in 1 .. nd |-> p[i]]
      /\ \A i \in 1 .. nd : p[i].name = s.datasets[i].name /\ p[i].at = HeaderAt(s, 0 + i)
  BY <1>1 DEF DatasetLinks
<1>5. /\ DOMAIN q = 1 .. ng /\ q = [i \in 1 .. ng |-> q[i]]
      /\ \A i \in 1 .. ng : q[i].name = s.groups[i].name /\ q[i].at = GroupAt(i)
  BY <1>2 DEF GroupLinks
<1>6. FirstNamed(p, n) = d
  <2>1. {i \in DOMAIN p : p[i].name = n} = {i \in DOMAIN s.datasets : s.datasets[i].name = n}
    BY <1>1, <1>4
  <2> QED
    BY <2>1 DEF FirstNamed
<1>7. FirstNamed(q, n) = g
  <2>1. {i \in DOMAIN q : q[i].name = n} = {i \in DOMAIN s.groups : s.groups[i].name = n}
    BY <1>2, <1>5
  <2> QED
    BY <2>1 DEF FirstNamed
<1>8. d \in 0 .. nd /\ g \in 0 .. ng
  BY <1>1, <1>2, FirstNamedType
<1> HIDE DEF p, q
<1>9. p \in [1 .. nd -> T] /\ q \in [1 .. ng -> T]
  BY <1>4, <1>5
<1> HIDE DEF T
<1>10. p \in Seq(T) /\ q \in Seq(T) /\ Len(p) = nd /\ Len(q) = ng
  BY <1>9, FamilySeq
<1>11. l = IF d # 0 THEN d ELSE IF g # 0 THEN nd + g ELSE 0
  BY <1>3, <1>6, <1>7, <1>10, FirstOfTwo
<1>12. /\ \A i \in 1 .. nd : links[i] = p[i]
       /\ \A i \in 1 .. ng : links[nd + i] = q[i]
  BY <1>3, <1>10, BehindFirst
<1>13. CASE d # 0
  <2>1. d \in 1 .. nd /\ l = d /\ 0 + d = d
    BY <1>8, <1>11, <1>13
  <2> QED
    BY <2>1, <1>4, <1>12, <1>13
<1>14. CASE d = 0 /\ g # 0
  <2>1. g \in 1 .. ng /\ l = nd + g /\ nd + g # 0
    BY <1>8, <1>11, <1>14
  <2> QED
    BY <2>1, <1>5, <1>12, <1>14
<1>15. CASE d = 0 /\ g = 0
  BY <1>11, <1>15
<1> QED
  BY <1>13, <1>14, <1>15

\* The links of a group.
Linked(links, s, g, n) ==
  LET l == FirstNamed(links, n)
      d == FirstNamed(s.groups[g].datasets, n)
  IN l = d /\ (d # 0 => links[l].at = HeaderAt(s, Before(s, g) + d))

LEMMA MemberLinks ==
  ASSUME NEW s \in State, NEW n, NEW g \in 1 .. Len(s.groups)
  PROVE  Linked(GroupHeader(s, g).links, s, g, n)
<1>0. PICK links, l, d : /\ links = GroupHeader(s, g).links /\ l = FirstNamed(links, n)
                         /\ d = FirstNamed(s.groups[g].datasets, n)
  OBVIOUS
<1>1. PICK nd \in Nat : nd = Len(s.groups[g].datasets) /\ DOMAIN s.groups[g].datasets = 1 .. nd
  BY StateTypes DEF WellTyped
<1>2. links = DatasetLinks(s, s.groups[g].datasets, Before(s, g))
  BY <1>0 DEF GroupHeader
<1>3. /\ DOMAIN links = 1 .. nd
      /\ \A i \in 1 .. nd : /\ links[i].name = s.groups[g].datasets[i].name
                            /\ links[i].at = HeaderAt(s, Before(s, g) + i)
  BY <1>1, <1>2 DEF DatasetLinks
<1>4. l = d
  <2>1. {i \in DOMAIN links : links[i].name = n} = {i \in DOMAIN s.groups[g].datasets : s.groups[g].datasets[i].name = n}
    BY <1>1, <1>3
  <2> QED
    BY <2>1, <1>0 DEF FirstNamed
<1>5. d \in 0 .. nd
  BY <1>0, <1>1, FirstNamedType
<1>6. d # 0 => links[l].at = HeaderAt(s, Before(s, g) + d)
  BY <1>3, <1>4, <1>5
<1> QED
  BY <1>0, <1>4, <1>6 DEF Linked

Kinds(s) ==
  /\ RootHeader(s).kind = "group"
  /\ \A g : GroupHeader(s, g).kind = "group"
  /\ \A i : DatasetHeader(s, i).kind = "dataset"
  /\ Failure.kind = "error"

LEMMA KindsLemma ==
  ASSUME NEW s
  PROVE  Kinds(s)
BY DEF Kinds, RootHeader, GroupHeader, DatasetHeader, Failure

\* Where the first key of a path leads.
First(bytes, s, n) ==
  IF RootAt \notin 1 .. Len(bytes) THEN None
  ELSE IF FirstNamed(s.datasets, n) # 0 THEN HeaderAt(s, FirstNamed(s.datasets, n))
  ELSE IF FirstNamed(s.groups, n) # 0 THEN GroupAt(FirstNamed(s.groups, n))
  ELSE None

LEMMA FollowsFirst ==
  ASSUME NEW s \in State, NEW bytes, PartOf(bytes, s), NEW n
  PROVE  Follow(bytes, RootAt, n) = First(bytes, s, n)
<1> DEFINE header == HeaderIn(bytes, RootAt)
           first == IF header.kind = "group" THEN FirstNamed(header.links, n) ELSE 0
<1>1. Follow(bytes, RootAt, n) = IF RootAt = None \/ first = 0 THEN None ELSE header.links[first].at
  BY DEF Follow
<1>2. RootAt # None
  BY SessionAssumption DEF RootAt
<1>3. header = IF RootAt \in 1 .. Len(bytes) THEN RootHeader(s) ELSE Failure
  BY PartAt, ImageAt
<1>4. CASE RootAt \notin 1 .. Len(bytes)
  <2>1. header.kind = "error"
    BY <1>3, <1>4, KindsLemma DEF Kinds
  <2>2. first = 0
    BY <2>1
  <2> QED
    BY <1>1, <1>4, <2>2 DEF First
<1>5. CASE RootAt \in 1 .. Len(bytes)
  <2>1. header.kind = "group" /\ header.links = RootHeader(s).links
    BY <1>3, <1>5, KindsLemma DEF Kinds
  <2>2. PICK l : l = FirstNamed(RootHeader(s).links, n)
    OBVIOUS
  <2>3. first = l /\ header.links[first].at = RootHeader(s).links[l].at
    BY <2>1, <2>2
  <2>4. PICK d : d = FirstNamed(s.datasets, n)
    OBVIOUS
  <2>5. PICK g : g = FirstNamed(s.groups, n)
    OBVIOUS
  <2>6. /\ d # 0 => l # 0 /\ RootHeader(s).links[l].at = HeaderAt(s, d)
        /\ d = 0 /\ g # 0 => l # 0 /\ RootHeader(s).links[l].at = GroupAt(g)
        /\ d = 0 /\ g = 0 => l = 0
    BY <2>2, <2>4, <2>5, RootLinks
  <2> HIDE DEF first, header
  <2> QED
    BY <1>1, <1>2, <1>5, <2>3, <2>4, <2>5, <2>6 DEF First
<1> QED
  BY <1>4, <1>5

\* Where the second key leads: only from a group whose header is there.
Second(bytes, s, n, m) ==
  LET g == FirstNamed(s.groups, n)
      d == FirstNamed(s.groups[g].datasets, m)
  IN IF FirstNamed(s.datasets, n) = 0 /\ g # 0 /\ GroupAt(g) \in 1 .. Len(bytes) /\ d # 0
     THEN HeaderAt(s, Before(s, g) + d) ELSE None

\* The numbers of an image.
LEMMA Places ==
  ASSUME NEW s \in State
  PROVE  /\ Len(s.groups) \in Nat /\ NumSpecs(s) \in Nat
         /\ RootAt = 2 /\ \A g : GroupAt(g) = 2 + g
         /\ \A i : HeaderAt(s, i) = 2 + Len(s.groups) + i
         /\ \A i : DataAt(s, i) = 2 + Len(s.groups) + NumSpecs(s) + i
  BY ImageAt DEF RootAt, GroupAt, HeaderAt, DataAt, NumSpecs

LEMMA FollowsSecond ==
  ASSUME NEW s \in State, NEW bytes, PartOf(bytes, s), NEW n, NEW m
  PROVE  Follow(bytes, First(bytes, s, n), m) = Second(bytes, s, n, m)
<1>1. PICK at : at = First(bytes, s, n)
  OBVIOUS
<1> DEFINE header == HeaderIn(bytes, at)
           first == IF header.kind = "group" THEN FirstNamed(header.links, m) ELSE 0
<1>2. Follow(bytes, at, m) = IF at = None \/ first = 0 THEN None ELSE header.links[first].at
  BY DEF Follow
<1>3. PICK d : d = FirstNamed(s.datasets, n)
  OBVIOUS
<1>4. PICK g : g = FirstNamed(s.groups, n)
  OBVIOUS
<1>5. PICK e : e = FirstNamed(s.groups[g].datasets, m)
  OBVIOUS
<1>6. Second(bytes, s, n, m) = IF d = 0 /\ g # 0 /\ GroupAt(g) \in 1 .. Len(bytes) /\ e # 0
                               THEN HeaderAt(s, Before(s, g) + e) ELSE None
  BY <1>3, <1>4, <1>5 DEF Second
<1>7. at = IF RootAt \notin 1 .. Len(bytes) THEN None
           ELSE IF d # 0 THEN HeaderAt(s, d) ELSE IF g # 0 THEN GroupAt(g) ELSE None
  BY <1>1, <1>3, <1>4 DEF First
<1>8. g \in 0 .. Len(s.groups) /\ d \in 0 .. Len(s.datasets)
  BY <1>3, <1>4, FirstNamedType, StateTypes DEF WellTyped
<1>9. header = IF at \in 1 .. Len(bytes) THEN Image(s)[at] ELSE Failure
  BY PartAt
<1>10. header.kind # "group" => first = 0
  OBVIOUS
<1>11. ASSUME NEW x, x = Failure PROVE x.kind = "error"
  BY <1>11 DEF Failure
<1>12. CASE at = None
  <2>1. d # 0 => RootAt \notin 1 .. Len(bytes)
    <3>1. d # 0 => HeaderAt(s, d) \in Nat
      BY <1>8, Places, StateTypes DEF WellTyped
    <3>2. None \notin Nat
      BY SessionAssumption
    <3> QED
      BY <1>7, <1>12, <3>1, <3>2
  <2>2. g # 0 /\ d = 0 => RootAt \notin 1 .. Len(bytes)
    <3>1. g # 0 => GroupAt(g) \in Nat
      BY <1>8, Places
    <3>2. None \notin Nat
      BY SessionAssumption
    <3> QED
      BY <1>7, <1>12, <3>1, <3>2
  <2>3. g # 0 /\ GroupAt(g) \in 1 .. Len(bytes) => RootAt \in 1 .. Len(bytes)
    <3>1. Len(bytes) \in Nat
      BY PartAt
    <3> QED
      BY <3>1, <1>8, Places
  <2> QED
    BY <1>1, <1>2, <1>6, <1>12, <2>2, <2>3
<1>13. CASE at # None /\ d # 0
  <2>1. at = HeaderAt(s, d) /\ d \in 1 .. NumSpecs(s)
    <3>1. d \in 1 .. Len(s.datasets) /\ Len(s.datasets) \in Nat
      BY <1>8, <1>13, StateTypes DEF WellTyped
    <3>2. Len(s.datasets) <= NumSpecs(s)
      BY FlatAt DEF Begins, NumSpecs
    <3>3. NumSpecs(s) \in Nat
      BY Places
    <3> QED
      BY <3>1, <3>2, <3>3, <1>7, <1>13
  <2>2. Image(s)[at] = DatasetHeader(s, d)
    BY <2>1, ImageAt
  <2>3. header.kind # "group"
    <3>1. DatasetHeader(s, d).kind = "dataset" /\ Failure.kind = "error"
      BY KindsLemma DEF Kinds
    <3> QED
      BY <1>9, <2>2, <3>1
  <2> QED
    BY <1>1, <1>2, <1>6, <1>10, <1>13, <2>3
<1>14. CASE at # None /\ d = 0
  <2>1. g # 0 /\ at = GroupAt(g) /\ g \in 1 .. Len(s.groups)
    BY <1>7, <1>8, <1>14
  <2>2. Image(s)[at] = GroupHeader(s, g)
    BY <2>1, ImageAt
  <2>3. CASE at \in 1 .. Len(bytes)
    <3>1. header = GroupHeader(s, g) /\ header.kind = "group"
      BY <1>9, <2>2, <2>3, KindsLemma DEF Kinds
    <3>2. PICK links : links = GroupHeader(s, g).links
      OBVIOUS
    <3>3. PICK l : l = FirstNamed(links, m)
      OBVIOUS
    <3>4. first = l /\ header.links[first].at = links[l].at
      BY <3>1, <3>2, <3>3
    <3>5. l = e /\ (e # 0 => links[l].at = HeaderAt(s, Before(s, g) + e))
      <4>1. g \in 1 .. Len(s.groups)
        BY <2>1
      <4> QED
        BY <4>1, <1>5, <3>2, <3>3, MemberLinks DEF Linked
    <3> HIDE DEF first, header
    <3> QED
      BY <1>1, <1>2, <1>6, <1>14, <2>1, <2>3, <3>4, <3>5
  <2>4. CASE at \notin 1 .. Len(bytes)
    <3>1. header.kind # "group"
      BY <1>9, <2>4, KindsLemma DEF Kinds
    <3> QED
      BY <1>1, <1>2, <1>6, <1>10, <1>14, <2>1, <2>4, <3>1
  <2> QED
    BY <2>3, <2>4
<1> QED
  BY <1>12, <1>13, <1>14

-----------------------------------------------------------------------------
(* What is answered for a dataset, and for a group                         *)

\* An answer is x, or an error where not all is there.
Gives(answer, x, whole) == answer \in {x, Failure} /\ (whole => answer = x)

ArrayOf(spec) == [kind |-> "array", dtype |-> Applied(spec).dtype, shape |-> Applied(spec).shape,
                  elems |-> Applied(spec).elems]

LEMMA SizeOfLine ==
  ASSUME NEW n \in Nat
  PROVE  Size(<<n>>) = n
<1> DEFINE shape == <<n>>
           Rec(f) == [i \in 0 .. 1 |-> IF i = 0 THEN 1 ELSE f[i - 1] * shape[i]]
           upTo == CHOOSE f : f = Rec(f)
           u == [i \in 0 .. 1 |-> IF i = 0 THEN 1 ELSE n]
<1>1. Len(shape) = 1 /\ shape[1] = n
  OBVIOUS
<1>2. Size(shape) = upTo[1]
  BY <1>1, Zenon DEF Size
<1>3. u = Rec(u)
  <2>1. ASSUME NEW i \in 0 .. 1 PROVE u[i] = Rec(u)[i]
    <3>1. i = 0 \/ i = 1
      OBVIOUS
    <3>2. 1 * n = n
      OBVIOUS
    <3>3. u[0] = 1 /\ 1 - 1 = 0
      OBVIOUS
    <3> QED
      BY <3>1, <3>2, <3>3, <1>1
  <2> QED
    BY <2>1
<1>4. upTo = Rec(upTo)
  BY <1>3
<1> HIDE DEF upTo, shape
<1>5. upTo[0] = 1
  BY <1>4
<1>6. upTo[1] = upTo[0] * shape[1]
  <2>1. 1 \in 0 .. 1 /\ 1 # 0 /\ 1 - 1 = 0
    OBVIOUS
  <2> QED
    BY <2>1, <1>4
<1>7. upTo[1] = n
  BY <1>1, <1>5, <1>6
<1> QED
  BY <1>2, <1>7 DEF shape

LEMMA ArrayTold ==
  ASSUME NEW spec \in Spec, NEW call, call.value = spec.data
  PROVE  /\ ArrayOf(spec) = ToldArray(call)
         /\ Size(Applied(spec).shape) = Len(Applied(spec).elems)
         /\ Applied(spec).elems \in Seq(Nat) /\ Applied(spec).elems # None
<1>1. PICK a \in Arrays : a = spec.data
  BY DEF Spec
<1>2. /\ a.elems \in Seq(Nat) /\ a.shape \in Seq(Nat)
      /\ Size(IF a.shape = <<>> THEN <<1>> ELSE a.shape) = Len(a.elems)
  BY SessionAssumption
<1>3. a.shape = <<>> => Len(a.elems) = 1
  BY <1>2, SizeOfLine
<1>4. Applied(spec).dtype = a.dtype /\ Applied(spec).elems = a.elems
  BY <1>1 DEF Applied
<1>5. Applied(spec).shape = IF a.shape = <<>> THEN <<1>> ELSE a.shape
  BY <1>1, <1>3 DEF Applied
<1>6. ToldArray(call) = [kind |-> "array", dtype |-> a.dtype, elems |-> a.elems,
                         shape |-> IF a.shape = <<>> THEN <<1>> ELSE a.shape]
  BY <1>1 DEF ToldArray
<1>7. ArrayOf(spec) = [kind |-> "array", dtype |-> a.dtype, shape |-> IF a.shape = <<>> THEN <<1>> ELSE a.shape,
                       elems |-> a.elems]
  BY <1>4, <1>5 DEF ArrayOf
<1>8. None \notin Seq(Nat)
  BY SessionAssumption
<1> QED
  BY <1>2, <1>4, <1>5, <1>6, <1>7, <1>8

\* A path that leads to the header of dataset i.
LEMMA DatasetAnswers ==
  ASSUME NEW s \in State, NEW bytes, PartOf(bytes, s), NEW path, NEW i \in 1 .. NumSpecs(s),
         ResolvePath(bytes, path) = HeaderAt(s, i),
         NEW call, call.value = FlatSpecs(s)[i].data
  PROVE  /\ Gives(GetItem(bytes, path), ToldArray(call), bytes = Image(s))
         /\ Gives(AsyncRead(bytes, path), ToldArray(call), bytes = Image(s))
         /\ HasKey(bytes, path)
<1>1. PICK at : at = HeaderAt(s, i)
  OBVIOUS
<1>2. PICK da : da = DataAt(s, i)
  OBVIOUS
<1>3. PICK spec \in Spec : spec = FlatSpecs(s)[i]
  <2>1. FlatSpecs(s) \in Seq(Spec)
    BY FlatAt
  <2> QED
    BY <2>1, ElementOfSeq DEF NumSpecs
<1>4. PICK x : x = ToldArray(call)
  OBVIOUS
<1>5. /\ x = ArrayOf(spec) /\ Size(Applied(spec).shape) = Len(Applied(spec).elems)
      /\ Applied(spec).elems # None
  BY <1>3, <1>4, ArrayTold
<1>6. /\ Len(bytes) \in Nat /\ DOMAIN bytes = 1 .. Len(bytes)
      /\ Resolved(bytes, path) = IF at \in 1 .. Len(bytes) THEN DatasetHeader(s, i) ELSE Failure
  BY <1>1, PartAt, ImageAt DEF Resolved
<1>7. \A n : DataOf(bytes, da, n) = IF da \in 1 .. Len(bytes) THEN Applied(spec).elems ELSE None
  <2>1. Image(s)[da] = Applied(spec).elems
    BY <1>2, <1>3, ImageAt
  <2>2. da \in 1 .. Len(bytes) => bytes[da] = Image(s)[da]
    BY <1>6 DEF PartOf, Begins
  <2> QED
    BY <2>1, <2>2, <1>6 DEF DataOf
<1>8. /\ at \in Nat /\ ResolvePath(bytes, path) = at /\ at # None
  BY <1>1, Places, SessionAssumption
<1>9. bytes = Image(s) => at \in 1 .. Len(bytes) /\ da \in 1 .. Len(bytes)
  <2>1. PICK ng \in Nat, nd \in Nat : ng = Len(s.groups) /\ nd = NumSpecs(s)
    BY ImageAt
  <2>2. at = 2 + ng + i /\ da = 2 + ng + nd + i
    BY <2>1, <1>1, <1>2, Places
  <2>3. Len(Image(s)) = 2 + ng + nd + nd /\ i \in 1 .. nd
    BY <2>1, ImageAt
  <2>4. at \in 1 .. 2 + ng + nd + nd /\ da \in 1 .. 2 + ng + nd + nd
    BY <2>2, <2>3
  <2> QED
    BY <2>3, <2>4
<1>10. HasKey(bytes, path)
  BY <1>8 DEF HasKey
<1>11. CASE at \notin 1 .. Len(bytes)
  <2>1. Resolved(bytes, path).kind = "error"
    BY <1>6, <1>11 DEF Failure
  <2>2. Keys(bytes, path) = Failure
    BY <2>1 DEF Keys
  <2>3. GetItem(bytes, path) = Failure
    BY <2>1, <2>2 DEF GetItem
  <2>4. AsyncRead(bytes, path) = Failure
    BY <2>1 DEF AsyncRead
  <2> QED
    BY <1>4, <1>9, <1>10, <1>11, <2>3, <2>4 DEF Gives
<1>12. CASE at \in 1 .. Len(bytes)
  <2>1. PICK h : h = DatasetHeader(s, i)
    OBVIOUS
  <2>2. /\ h.kind = "dataset" /\ h.at = da /\ h.shape = Applied(spec).shape /\ h.dtype = Applied(spec).dtype
    BY <2>1, <1>2, <1>3 DEF DatasetHeader
  <2>3. Resolved(bytes, path) = h
    BY <1>6, <1>12, <2>1
  <2>4. CASE da \notin 1 .. Len(bytes)
    <3>1. \A n : DataOf(bytes, h.at, n) = None
      BY <1>7, <2>2, <2>4
    <3>2. ReadArray(bytes, path, h) = Failure
      BY <2>3, <3>1 DEF ReadArray
    <3>3. GetItem(bytes, path) = Failure
      BY <2>2, <2>3, <3>2, <1>8 DEF GetItem
    <3>4. AsyncRead(bytes, path) = Failure
      BY <2>3, <3>1 DEF AsyncRead
    <3> QED
      BY <1>4, <1>9, <1>10, <2>4, <3>3, <3>4 DEF Gives
  <2>5. CASE da \in 1 .. Len(bytes)
    <3>1. \A n : DataOf(bytes, h.at, n) = Applied(spec).elems
      BY <1>7, <2>2, <2>5
    <3>2. ReadArray(bytes, path, h) = x
      BY <2>2, <2>3, <3>1, <1>5 DEF ReadArray, ArrayOf
    <3>3. GetItem(bytes, path) = x
      BY <2>2, <2>3, <3>2, <1>8 DEF GetItem
    <3>4. AsyncRead(bytes, path) = x
      BY <2>2, <2>3, <3>1, <1>5 DEF AsyncRead, ArrayOf
    <3> QED
      BY <1>4, <1>10, <3>3, <3>4 DEF Gives
  <2> QED
    BY <2>4, <2>5
<1> QED
  BY <1>11, <1>12

\* A path that leads nowhere.
LEMMA NothingAnswers ==
  ASSUME NEW s \in State, NEW bytes, PartOf(bytes, s), NEW path, ResolvePath(bytes, path) = None
  PROVE  GetItem(bytes, path) = Failure /\ AsyncRead(bytes, path) = Failure /\ ~HasKey(bytes, path)
<1>1. Resolved(bytes, path) = Failure
  BY PartAt DEF Resolved
<1>2. Resolved(bytes, path).kind = "error"
  BY <1>1 DEF Failure
<1> QED
  BY <1>2 DEF GetItem, AsyncRead, HasKey

Bearing(list, n) == {i \in DOMAIN list : list[i].name = n}

\* As many entries of two lists as of the first and of the second.
LEMMA HitsOfTwo ==
  ASSUME NEW T, NEW p \in Seq(T), NEW q \in Seq(T), NEW n
  PROVE  Cardinality(Bearing(p \o q, n)) = Cardinality(Bearing(p, n)) + Cardinality(Bearing(q, n))
<1>1. PICK x \in Seq(T) : x = p \o q
  BY BehindFirst
<1>2. PICK a \in Nat, b \in Nat : a = Len(p) /\ b = Len(q) /\ DOMAIN p = 1 .. a /\ DOMAIN q = 1 .. b
  BY LenProperties
<1>3. /\ Len(x) = a + b /\ DOMAIN x = 1 .. a + b
      /\ \A i \in 1 .. a : x[i] = p[i]
      /\ \A i \in 1 .. b : x[a + i] = q[i]
  BY <1>1, <1>2, BehindFirst, LenProperties
<1> DEFINE H == Bearing(p, n)
           K == Bearing(q, n)
           M == {a + i : i \in K}
           g == [i \in K |-> a + i]
<1>4. H \subseteq 1 .. a /\ K \subseteq 1 .. b
  BY <1>2 DEF Bearing
<1>5. Bearing(x, n) = H \cup M
  <2>1. ASSUME NEW i \in 1 .. a + b, x[i].name = n PROVE i \in H \cup M
    <3>1. CASE i <= a
      BY <2>1, <3>1, <1>2, <1>3 DEF Bearing
    <3>2. CASE i > a
      <4>1. PICK j \in 1 .. b : i = a + j
        <5>1. i - a \in 1 .. b /\ i = a + (i - a)
          BY <3>2
        <5> QED
          BY <5>1
      <4>2. q[j].name = n
        BY <2>1, <4>1, <1>3
      <4> QED
        BY <4>1, <4>2, <1>2 DEF Bearing
    <3> QED
      BY <3>1, <3>2
  <2>2. ASSUME NEW i \in H PROVE i \in Bearing(x, n)
    BY <1>2, <1>3 DEF Bearing
  <2>3. ASSUME NEW i \in K PROVE a + i \in Bearing(x, n)
    <3>1. i \in 1 .. b /\ q[i].name = n /\ a + i \in 1 .. a + b
      BY <1>2 DEF Bearing
    <3> QED
      BY <3>1, <1>3 DEF Bearing
  <2> QED
    BY <2>1, <2>2, <2>3, <1>3 DEF Bearing
<1>6. IsFiniteSet(H) /\ IsFiniteSet(K)
  <2>1. IsFiniteSet(1 .. a) /\ IsFiniteSet(1 .. b)
    BY FS_Interval
  <2> QED
    BY <2>1, <1>4, FS_Subset
<1> HIDE DEF H, K
<1>7. g \in Bijection(K, M)
  <2>1. \A i, j \in K : a + i = a + j => i = j
    <3>1. \A i \in K : i \in Nat
      BY <1>4
    <3> QED
      BY <3>1
  <2> QED
    BY <2>1 DEF Bijection, Injection, Surjection, IsInjective
<1>8. IsFiniteSet(M) /\ Cardinality(M) = Cardinality(K)
  <2>1. ExistsBijection(K, M)
    BY <1>7 DEF ExistsBijection
  <2> QED
    BY <2>1, <1>6, FS_Bijection
<1>9. H \cap M = {}
  <2>1. ASSUME NEW i \in K, a + i \in H PROVE FALSE
    BY <2>1, <1>4
  <2> QED
    BY <2>1
<1> HIDE DEF M
<1>10. Cardinality(H \cup M) = Cardinality(H) + Cardinality(M) - Cardinality(H \cap M)
  BY <1>6, <1>8, FS_Union
<1>11. Cardinality(H) \in Nat /\ Cardinality(M) \in Nat /\ Cardinality(H \cap M) = 0
  BY <1>6, <1>8, <1>9, FS_CardinalityType, FS_EmptySet
<1> QED
  BY <1>1, <1>5, <1>8, <1>10, <1>11 DEF H, K

LEMMA DatasetCounts ==
  ASSUME NEW ds, NEW m \in Nat, m = Len(ds), DOMAIN ds = 1 .. m, NEW calls, NEW where,
         DatasetsTold(ds, calls, where), NEW n
  PROVE  /\ Cardinality(Naming(calls, where, "dataset", n)) = Cardinality(Bearing(ds, n))
         /\ Cardinality(Bearing(ds, n)) \in Nat
<1>1. PICK f \in [1 .. Len(ds) -> Nat] :
        /\ Lists(f, Len(ds), InTime(calls, where, "dataset"))
        /\ \A k \in 1 .. Len(ds) : ds[k].name = calls[f[k]].name /\ ds[k].data = calls[f[k]].value
  BY DEF DatasetsTold
<1>2. SameName(ds, m, calls, f)
  BY <1>1 DEF SameName
<1>3. Named(ds, m, n) = Bearing(ds, n)
  BY DEF Named, Bearing
<1>4. Naming(calls, where, "dataset", n) = Chosen(calls, InTime(calls, where, "dataset"), n)
  BY DEF Naming, Chosen
<1> QED
  BY <1>1, <1>2, <1>3, <1>4, ListedCounts

LEMMA GroupCounts ==
  ASSUME NEW gs, NEW m \in Nat, m = Len(gs), DOMAIN gs = 1 .. m, NEW calls, GroupsTold(gs, calls), NEW n
  PROVE  /\ Cardinality(Naming(calls, 0, "group", n)) = Cardinality(Bearing(gs, n))
         /\ Cardinality(Bearing(gs, n)) \in Nat
<1>1. PICK f \in [1 .. Len(gs) -> Nat] :
        /\ Lists(f, Len(gs), InTime(calls, 0, "group"))
        /\ \A k \in 1 .. Len(gs) : gs[k].name = calls[f[k]].name /\ calls[f[k]].id = k
  BY DEF GroupsTold
<1>2. SameName(gs, m, calls, f)
  BY <1>1 DEF SameName
<1>3. Named(gs, m, n) = Bearing(gs, n)
  BY DEF Named, Bearing
<1>4. Naming(calls, 0, "group", n) = Chosen(calls, InTime(calls, 0, "group"), n)
  BY DEF Naming, Chosen
<1> QED
  BY <1>1, <1>2, <1>3, <1>4, ListedCounts

\* Groups are made in the root only.
LEMMA NoGroupsInside ==
  ASSUME NEW s, NEW calls, Matches(s, calls), NEW g, g # 0, NEW n
  PROVE  Naming(calls, g, "group", n) = {} /\ Cardinality(Naming(calls, g, "group", n)) = 0
<1>1. DOMAIN calls = 1 .. Len(calls)
  BY LenProperties DEF Matches
<1>2. Naming(calls, g, "group", n) = {}
  BY <1>1 DEF Matches, Naming, InTime
<1> QED
  BY <1>2, FS_EmptySet

RootCounts(links, s, n) == Cardinality(Bearing(links, n)) = Cardinality(Bearing(s.datasets, n)) + Cardinality(Bearing(s.groups, n))
AtBlocks(links, s) ==
  \A i \in DOMAIN links : \/ \E k \in 1 .. NumSpecs(s) : links[i].at = HeaderAt(s, k)
                          \/ \E g \in 1 .. Len(s.groups) : links[i].at = GroupAt(g)

LEMMA RootLinksCount ==
  ASSUME NEW s \in State, NEW links, links = RootHeader(s).links
  PROVE  AtBlocks(links, s) /\ \A n : RootCounts(links, s, n)
<1>1. PICK nd \in Nat : nd = Len(s.datasets) /\ DOMAIN s.datasets = 1 .. nd
  BY StateTypes DEF WellTyped
<1>2. PICK ng \in Nat : ng = Len(s.groups) /\ DOMAIN s.groups = 1 .. ng
  BY StateTypes DEF WellTyped
<1> DEFINE p == DatasetLinks(s, s.datasets, 0)
           q == GroupLinks(s)
           T == {p[i] : i \in 1 .. nd} \cup {q[i] : i \in 1 .. ng}
<1>3. links = p \o q
  BY DEF RootHeader
<1>4. /\ DOMAIN p = 1 .. nd /\ p = [i \in 1 .. nd |-> p[i]]
      /\ \A i \in 1 .. nd : p[i].name = s.datasets[i].name /\ p[i].at = HeaderAt(s, 0 + i)
  BY <1>1 DEF DatasetLinks
<1>5. /\ DOMAIN q = 1 .. ng /\ q = [i \in 1 .. ng |-> q[i]]
      /\ \A i \in 1 .. ng : q[i].name = s.groups[i].name /\ q[i].at = GroupAt(i)
  BY <1>2 DEF GroupLinks
<1>6. \A n : Bearing(p, n) = Bearing(s.datasets, n)
  BY <1>1, <1>4 DEF Bearing
<1>7. \A n : Bearing(q, n) = Bearing(s.groups, n)
  BY <1>2, <1>5 DEF Bearing
<1> HIDE DEF p, q
<1>9. p \in [1 .. nd -> T] /\ q \in [1 .. ng -> T]
  BY <1>4, <1>5
<1> HIDE DEF T
<1>10. p \in Seq(T) /\ q \in Seq(T) /\ Len(p) = nd /\ Len(q) = ng
  BY <1>9, FamilySeq
<1>11. \A n : RootCounts(links, s, n)
  <2> SUFFICES ASSUME NEW n PROVE RootCounts(links, s, n)
    OBVIOUS
  <2>1. Cardinality(Bearing(p \o q, n)) = Cardinality(Bearing(p, n)) + Cardinality(Bearing(q, n))
    BY <1>10, HitsOfTwo
  <2> QED
    BY <2>1, <1>3, <1>6, <1>7 DEF RootCounts
<1>12. /\ \A i \in 1 .. nd : links[i] = p[i]
       /\ \A i \in 1 .. ng : links[nd + i] = q[i]
       /\ DOMAIN links = 1 .. nd + ng
  <2>1. links \in Seq(T) /\ Len(links) = nd + ng
    BY <1>3, <1>10, BehindFirst
  <2> QED
    BY <2>1, <1>3, <1>10, BehindFirst, LenProperties
<1>13. nd <= NumSpecs(s) /\ NumSpecs(s) \in Nat
  BY <1>1, FlatAt, Places DEF Begins, NumSpecs
<1>14. ASSUME NEW i \in 1 .. nd + ng
       PROVE  \/ \E k \in 1 .. NumSpecs(s) : links[i].at = HeaderAt(s, k)
              \/ \E g \in 1 .. Len(s.groups) : links[i].at = GroupAt(g)
  <2>1. CASE i <= nd
    <3>1. i \in 1 .. nd /\ 0 + i = i /\ i \in 1 .. NumSpecs(s)
      BY <2>1, <1>13
    <3> QED
      BY <3>1, <1>4, <1>12
  <2>2. CASE i > nd
    <3>1. PICK g \in 1 .. ng : i = nd + g
      <4>1. i - nd \in 1 .. ng /\ i = nd + (i - nd)
        BY <2>2
      <4> QED
        BY <4>1
    <3> QED
      BY <3>1, <1>2, <1>5, <1>12
  <2> QED
    BY <2>1, <2>2
<1> QED
  BY <1>11, <1>12, <1>14 DEF AtBlocks

LEMMA MemberLinksCount ==
  ASSUME NEW s \in State, NEW g \in 1 .. Len(s.groups), NEW links, links = GroupHeader(s, g).links
  PROVE  AtBlocks(links, s) /\ \A n : Bearing(links, n) = Bearing(s.groups[g].datasets, n)
<1>1. PICK nd \in Nat : nd = Len(s.groups[g].datasets) /\ DOMAIN s.groups[g].datasets = 1 .. nd
  BY StateTypes DEF WellTyped
<1>2. links = DatasetLinks(s, s.groups[g].datasets, Before(s, g))
  BY DEF GroupHeader
<1>3. /\ DOMAIN links = 1 .. nd
      /\ \A i \in 1 .. nd : /\ links[i].name = s.groups[g].datasets[i].name
                            /\ links[i].at = HeaderAt(s, Before(s, g) + i)
  <2>1. PICK list, b : list = s.groups[g].datasets /\ b = Before(s, g)
    OBVIOUS
  <2>2. DOMAIN list = 1 .. nd /\ links = [i \in DOMAIN list |-> [name |-> list[i].name, at |-> HeaderAt(s, b + i)]]
    BY <1>1, <1>2, <2>1, Zenon DEF DatasetLinks
  <2>3. DOMAIN links = 1 .. nd /\ \A i \in 1 .. nd : links[i].name = list[i].name /\ links[i].at = HeaderAt(s, b + i)
    BY <2>2
  <2> QED
    BY <2>1, <2>3, Zenon
<1>4. \A i \in 1 .. nd : Before(s, g) + i \in 1 .. NumSpecs(s)
  BY <1>1, FlatAt DEF NumSpecs
<1>5. \A i \in DOMAIN links : \E k \in 1 .. NumSpecs(s) : links[i].at = HeaderAt(s, k)
  BY <1>3, <1>4, Zenon
<1>6. AtBlocks(links, s)
  BY <1>5, Zenon DEF AtBlocks
<1>7. PICK list : list = s.groups[g].datasets
  OBVIOUS
<1>8. ASSUME NEW n PROVE Bearing(links, n) = Bearing(list, n)
  <2>1. DOMAIN links = DOMAIN list /\ \A i \in DOMAIN list : links[i].name = list[i].name
    BY <1>1, <1>3, <1>7
  <2> QED
    BY <2>1 DEF Bearing
<1> QED
  BY <1>6, <1>7, <1>8, Zenon

\* In a whole image every link leads to a header.
LEMMA LinksLead ==
  ASSUME NEW s \in State, NEW links, AtBlocks(links, s), NEW i \in DOMAIN links
  PROVE  HeaderIn(Image(s), links[i].at) # Failure
<1>1. PICK at : at = links[i].at
  OBVIOUS
<1>2. DOMAIN Image(s) = 1 .. 2 + Len(s.groups) + NumSpecs(s) + NumSpecs(s)
  BY ImageAt, LenProperties
<1>3. CASE \E k \in 1 .. NumSpecs(s) : at = HeaderAt(s, k)
  <2>1. PICK k \in 1 .. NumSpecs(s) : at = HeaderAt(s, k)
    BY <1>3
  <2>2. at \in DOMAIN Image(s)
    BY <1>2, <2>1, Places
  <2>3. Image(s)[at].kind = "dataset"
    BY <2>1, ImageAt, KindsLemma DEF Kinds
  <2> QED
    BY <1>1, <2>2, <2>3 DEF HeaderIn, Failure
<1>4. CASE \E g \in 1 .. Len(s.groups) : at = GroupAt(g)
  <2>1. PICK g \in 1 .. Len(s.groups) : at = GroupAt(g)
    BY <1>4
  <2>2. at \in DOMAIN Image(s)
    BY <1>2, <2>1, Places
  <2>3. Image(s)[at].kind = "group"
    BY <2>1, ImageAt, KindsLemma DEF Kinds
  <2> QED
    BY <1>1, <2>2, <2>3 DEF HeaderIn, Failure
<1> QED
  BY <1>1, <1>3, <1>4 DEF AtBlocks

\* A path that leads to the header of the root or of a group, whose links are counted.
LEMMA KeysAnswer ==
  ASSUME NEW s \in State, NEW bytes, PartOf(bytes, s), NEW path, NEW h, h.kind = "group", AtBlocks(h.links, s),
         Resolved(bytes, path) = h \/ Resolved(bytes, path) = Failure,
         bytes = Image(s) => Resolved(bytes, path) = h,
         ResolvePath(bytes, path) # None, NEW told,
         told = [kind |-> "keys", times |-> [n \in Names |-> Cardinality(Bearing(h.links, n))]]
  PROVE  /\ Gives(GetItem(bytes, path), told, bytes = Image(s))
         /\ AsyncRead(bytes, path) = Failure /\ HasKey(bytes, path)
<1>1. Failure.kind = "error"
  BY DEF Failure
<1>2. Resolved(bytes, path).kind # "dataset" /\ HasKey(bytes, path) /\ AsyncRead(bytes, path) = Failure
  BY <1>1 DEF AsyncRead, HasKey
<1>3. GetItem(bytes, path) = Keys(bytes, path)
  BY <1>2 DEF GetItem
<1>4. CASE Resolved(bytes, path) = Failure
  <2>1. Keys(bytes, path) = Failure
    BY <1>1, <1>4 DEF Keys
  <2>2. bytes # Image(s)
    BY <1>1, <1>4
  <2> QED
    BY <1>2, <1>3, <2>1, <2>2 DEF Gives
<1>5. CASE Resolved(bytes, path) = h
  <2> DEFINE missing == \E l \in Range(h.links) : HeaderIn(bytes, l.at) = Failure
  <2>1. Keys(bytes, path) = IF missing THEN Failure ELSE told
    BY <1>5 DEF Keys, Bearing
  <2>2. bytes = Image(s) => ~missing
    BY LinksLead DEF Range
  <2> QED
    BY <1>2, <1>3, <2>1, <2>2 DEF Gives
<1> QED
  BY <1>4, <1>5

-----------------------------------------------------------------------------
(* A path through the image of a session is answered with its calls        *)

DatasetIndex(s, n) == FirstNamed(s.datasets, n)
GroupIndex(s, n) == FirstNamed(s.groups, n)

LEMMA MatchesTypes ==
  ASSUME NEW s, NEW calls, Matches(s, calls)
  PROVE  /\ s \in State /\ calls \in Seq(Entry) /\ WellTyped(s)
         /\ DatasetsTold(s.datasets, calls, 0) /\ AttrsTold(s.attrs, calls, 0) /\ GroupsTold(s.groups, calls)
         /\ \A g \in 1 .. Len(s.groups) : /\ DatasetsTold(s.groups[g].datasets, calls, g)
                                          /\ AttrsTold(s.groups[g].attrs, calls, g)
  BY StateTypes DEF Matches

\* The first dataset and the first group of a name in the root, and in a group.
RootTold(s, calls, n) ==
  LET d == DatasetIndex(s, n)
      g == GroupIndex(s, n)
      ds == FirstCall(calls, 0, "dataset", n)
      grp == FirstCall(calls, 0, "group", n)
  IN /\ d \in 0 .. Len(s.datasets) /\ g \in 0 .. Len(s.groups)
     /\ (d = 0) = (ds = 0) /\ (g = 0) = (grp = 0)
     /\ d # 0 => calls[ds].value = s.datasets[d].data
     /\ g # 0 => calls[grp].id = g

LEMMA RootIsTold ==
  ASSUME NEW s, NEW calls, Matches(s, calls), NEW n
  PROVE  RootTold(s, calls, n)
<1>1. s.datasets \in Seq(Spec) /\ s.groups \in Seq(Group) /\ calls \in Seq(Entry)
  BY MatchesTypes DEF WellTyped
<1>2. DatasetsTold(s.datasets, calls, 0) /\ GroupsTold(s.groups, calls)
  BY MatchesTypes
<1>3. PICK ds \in Seq(Spec) : ds = s.datasets
  BY <1>1
<1>4. PICK gs \in Seq(Group) : gs = s.groups
  BY <1>1
<1>5. /\ FirstNamed(ds, n) \in 0 .. Len(ds)
      /\ FirstNamed(ds, n) = 0 => FirstCall(calls, 0, "dataset", n) = 0
      /\ FirstNamed(ds, n) # 0 =>
           /\ FirstCall(calls, 0, "dataset", n) # 0
           /\ calls[FirstCall(calls, 0, "dataset", n)].value = ds[FirstNamed(ds, n)].data
  BY <1>1, <1>2, <1>3, FirstDataset
<1>6. /\ FirstNamed(gs, n) \in 0 .. Len(gs)
      /\ FirstNamed(gs, n) = 0 => FirstCall(calls, 0, "group", n) = 0
      /\ FirstNamed(gs, n) # 0 =>
           /\ FirstCall(calls, 0, "group", n) # 0
           /\ calls[FirstCall(calls, 0, "group", n)].id = FirstNamed(gs, n)
  BY <1>1, <1>2, <1>4, FirstGroup
<1> QED
  BY <1>3, <1>4, <1>5, <1>6 DEF RootTold, DatasetIndex, GroupIndex

MemberTold(s, calls, g, n) ==
  LET e == FirstNamed(s.groups[g].datasets, n)
      inner == FirstCall(calls, g, "dataset", n)
  IN /\ e \in 0 .. Len(s.groups[g].datasets) /\ (e = 0) = (inner = 0)
     /\ e # 0 => calls[inner].value = s.groups[g].datasets[e].data

LEMMA MemberIsTold ==
  ASSUME NEW s, NEW calls, Matches(s, calls), NEW g \in 1 .. Len(s.groups), NEW n
  PROVE  MemberTold(s, calls, g, n)
<1>1. PICK ds \in Seq(Spec) : ds = s.groups[g].datasets
  BY MatchesTypes DEF WellTyped
<1>2. DatasetsTold(ds, calls, g) /\ calls \in Seq(Entry)
  BY <1>1, MatchesTypes
<1>3. /\ FirstNamed(ds, n) \in 0 .. Len(ds)
      /\ FirstNamed(ds, n) = 0 => FirstCall(calls, g, "dataset", n) = 0
      /\ FirstNamed(ds, n) # 0 =>
           /\ FirstCall(calls, g, "dataset", n) # 0
           /\ calls[FirstCall(calls, g, "dataset", n)].value = ds[FirstNamed(ds, n)].data
  BY <1>2, FirstDataset
<1> QED
  BY <1>1, <1>3 DEF MemberTold

\* What is answered for a path, without its attributes.
AsTold(bytes, calls, path, whole) ==
  /\ Gives(GetItem(bytes, path), Told(calls, path), whole)
  /\ Told(calls, path).kind = "array" => Gives(AsyncRead(bytes, path), Told(calls, path), whole)
  /\ Told(calls, path).kind # "array" => AsyncRead(bytes, path) = Failure
  /\ whole => HasKey(bytes, path) = (Told(calls, path) # Failure)

KeysOf(links) == [kind |-> "keys", times |-> [n \in Names |-> Cardinality(Bearing(links, n))]]

LEMMA ToldKinds ==
  ASSUME NEW calls, NEW where, NEW call
  PROVE  /\ ToldKeys(calls, where).kind = "keys" /\ ToldArray(call).kind = "array" /\ Failure.kind = "error"
         /\ ToldKeys(calls, where) # Failure /\ ToldArray(call) # Failure
BY DEF ToldKeys, ToldArray, Failure

LEMMA RootKeysTold ==
  ASSUME NEW s, NEW calls, Matches(s, calls)
  PROVE  KeysOf(RootHeader(s).links) = ToldKeys(calls, 0)
<1>1. WellTyped(s) /\ s \in State
  BY MatchesTypes
<1>2. ASSUME NEW n \in Names
      PROVE  Cardinality(Bearing(RootHeader(s).links, n)) =
               Cardinality(Naming(calls, 0, "dataset", n)) + Cardinality(Naming(calls, 0, "group", n))
  <2>1. Cardinality(Naming(calls, 0, "dataset", n)) = Cardinality(Bearing(s.datasets, n))
    BY <1>1, MatchesTypes, DatasetCounts DEF WellTyped
  <2>2. Cardinality(Naming(calls, 0, "group", n)) = Cardinality(Bearing(s.groups, n))
    BY <1>1, MatchesTypes, GroupCounts DEF WellTyped
  <2>3. RootCounts(RootHeader(s).links, s, n)
    BY <1>1, RootLinksCount
  <2> QED
    BY <2>1, <2>2, <2>3 DEF RootCounts
<1> QED
  BY <1>2 DEF KeysOf, ToldKeys

LEMMA MemberKeysTold ==
  ASSUME NEW s, NEW calls, Matches(s, calls), NEW g \in 1 .. Len(s.groups)
  PROVE  KeysOf(GroupHeader(s, g).links) = ToldKeys(calls, g)
<1>1. WellTyped(s) /\ s \in State
  BY MatchesTypes
<1>2. ASSUME NEW n \in Names
      PROVE  Cardinality(Bearing(GroupHeader(s, g).links, n)) =
               Cardinality(Naming(calls, g, "dataset", n)) + Cardinality(Naming(calls, g, "group", n))
  <2>1. /\ Cardinality(Naming(calls, g, "dataset", n)) = Cardinality(Bearing(s.groups[g].datasets, n))
        /\ Cardinality(Bearing(s.groups[g].datasets, n)) \in Nat
    BY <1>1, MatchesTypes, DatasetCounts DEF WellTyped
  <2>2. g # 0
    BY <1>1 DEF WellTyped
  <2>3. Cardinality(Naming(calls, g, "group", n)) = 0
    BY <2>2, NoGroupsInside
  <2>4. Bearing(GroupHeader(s, g).links, n) = Bearing(s.groups[g].datasets, n)
    BY <1>1, MemberLinksCount
  <2> QED
    BY <2>1, <2>3, <2>4
<1> QED
  BY <1>2 DEF KeysOf, ToldKeys

\* The root itself.
LEMMA RootAnswers ==
  ASSUME NEW s, NEW calls, Matches(s, calls), NEW bytes, PartOf(bytes, s)
  PROVE  AsTold(bytes, calls, <<>>, bytes = Image(s))
<1>1. s \in State
  BY MatchesTypes
<1>2. ResolvePath(bytes, <<>>) = RootAt /\ RootAt # None
  <2>1. Len(<<>>) = 0 /\ 0 \in {0, 1, 2}
    OBVIOUS
  <2>2. ResolvePath(bytes, <<>>) = RootAt
    BY <2>1, Resolves
  <2> QED
    BY <2>2, SessionAssumption DEF RootAt
<1>3. Told(calls, <<>>) = ToldKeys(calls, 0)
  BY DEF Told
<1>4. PICK h : h = RootHeader(s)
  OBVIOUS
<1>5. h.kind = "group" /\ AtBlocks(h.links, s)
  BY <1>1, <1>4, KindsLemma, RootLinksCount DEF Kinds
<1>6. Resolved(bytes, <<>>) = IF RootAt \in 1 .. Len(bytes) THEN h ELSE Failure
  BY <1>1, <1>2, <1>4, PartAt, ImageAt DEF Resolved
<1>7. bytes = Image(s) => Resolved(bytes, <<>>) = h
  <2>1. bytes = Image(s) => RootAt \in 1 .. Len(bytes)
    BY <1>1, ImageAt, Places
  <2> QED
    BY <2>1, <1>6
<1>8. PICK told : told = KeysOf(h.links)
  OBVIOUS
<1>9. told = [kind |-> "keys", times |-> [n \in Names |-> Cardinality(Bearing(h.links, n))]]
  BY <1>8 DEF KeysOf
<1>10. PICK path : path = <<>>
  OBVIOUS
<1>11. /\ Gives(GetItem(bytes, path), told, bytes = Image(s))
       /\ AsyncRead(bytes, path) = Failure /\ HasKey(bytes, path)
  BY <1>1, <1>2, <1>5, <1>6, <1>7, <1>9, <1>10, KeysAnswer
<1>12. told = Told(calls, path) /\ told.kind = "keys" /\ told # Failure
  BY <1>3, <1>4, <1>8, <1>10, RootKeysTold, ToldKinds
<1>13. AsTold(bytes, calls, path, bytes = Image(s))
  BY <1>11, <1>12 DEF AsTold
<1> QED
  BY <1>10, <1>13

\* One key.
LEMMA KeyAnswers ==
  ASSUME NEW s, NEW calls, Matches(s, calls), NEW bytes, PartOf(bytes, s), NEW n
  PROVE  AsTold(bytes, calls, <<n>>, bytes = Image(s))
<1>1. s \in State /\ WellTyped(s)
  BY MatchesTypes
<1>2. PICK path : path = <<n>>
  OBVIOUS
<1>3. Len(path) = 1 /\ path[1] = n /\ path # <<>>
  BY <1>2
<1>4. ResolvePath(bytes, path) = First(bytes, s, n)
  <2>1. ResolvePath(bytes, path) = Follow(bytes, RootAt, path[1])
    BY <1>3, Resolves
  <2> QED
    BY <2>1, <1>1, <1>3, FollowsFirst
<1>5. PICK d : d = DatasetIndex(s, n)
  OBVIOUS
<1>6. PICK g : g = GroupIndex(s, n)
  OBVIOUS
<1>7. PICK ds : ds = FirstCall(calls, 0, "dataset", n)
  OBVIOUS
<1>8. PICK grp : grp = FirstCall(calls, 0, "group", n)
  OBVIOUS
<1>9. /\ d \in 0 .. Len(s.datasets) /\ g \in 0 .. Len(s.groups)
      /\ (d = 0) = (ds = 0) /\ (g = 0) = (grp = 0)
      /\ d # 0 => calls[ds].value = s.datasets[d].data
      /\ g # 0 => calls[grp].id = g
  BY <1>5, <1>6, <1>7, <1>8, RootIsTold DEF RootTold
<1>10. First(bytes, s, n) = IF RootAt \notin 1 .. Len(bytes) THEN None
                            ELSE IF d # 0 THEN HeaderAt(s, d) ELSE IF g # 0 THEN GroupAt(g) ELSE None
  BY <1>5, <1>6 DEF First, DatasetIndex, GroupIndex
<1>11. /\ d # 0 => Told(calls, path) = ToldArray(calls[ds])
       /\ d = 0 /\ g # 0 => Told(calls, path) = ToldKeys(calls, g)
       /\ d = 0 /\ g = 0 => Told(calls, path) = Failure
  BY <1>3, <1>7, <1>8, <1>9 DEF Told
<1>12. CASE RootAt \notin 1 .. Len(bytes)
  <2>1. GetItem(bytes, path) = Failure /\ AsyncRead(bytes, path) = Failure
    BY <1>1, <1>4, <1>10, <1>12, NothingAnswers
  <2>2. bytes # Image(s)
    BY <1>1, <1>12, ImageAt, Places
  <2> QED
    BY <2>1, <2>2, <1>2 DEF AsTold, Gives
<1>13. CASE RootAt \in 1 .. Len(bytes) /\ d # 0
  <2>1. ResolvePath(bytes, path) = HeaderAt(s, d)
    BY <1>4, <1>10, <1>13
  <2>2. d \in 1 .. NumSpecs(s) /\ d \in 1 .. Len(s.datasets) /\ FlatSpecs(s)[d] = s.datasets[d]
    <3>1. Len(s.datasets) \in Nat /\ NumSpecs(s) \in Nat
      BY <1>1, Places DEF WellTyped
    <3>2. d \in 1 .. Len(s.datasets)
      BY <1>9, <1>13, <3>1
    <3> QED
      BY <1>1, <3>1, <3>2, FlatAt DEF Begins, NumSpecs
  <2>3. PICK call : call = calls[ds]
    OBVIOUS
  <2>4. call.value = FlatSpecs(s)[d].data
    BY <1>9, <1>13, <2>2, <2>3
  <2>5. /\ Gives(GetItem(bytes, path), ToldArray(call), bytes = Image(s))
        /\ Gives(AsyncRead(bytes, path), ToldArray(call), bytes = Image(s))
        /\ HasKey(bytes, path)
    BY <1>1, <2>1, <2>2, <2>4, DatasetAnswers
  <2>6. Told(calls, path) = ToldArray(call) /\ ToldArray(call).kind = "array" /\ ToldArray(call) # Failure
    BY <1>11, <1>13, <2>3, ToldKinds
  <2> QED
    BY <2>5, <2>6, <1>2 DEF AsTold
<1>14. CASE RootAt \in 1 .. Len(bytes) /\ d = 0 /\ g # 0
  <2>1. ResolvePath(bytes, path) = GroupAt(g)
    BY <1>4, <1>10, <1>14
  <2>2. g \in 1 .. Len(s.groups)
    BY <1>1, <1>9, <1>14 DEF WellTyped
  <2>3. PICK h : h = GroupHeader(s, g)
    OBVIOUS
  <2>4. h.kind = "group" /\ AtBlocks(h.links, s)
    BY <1>1, <2>2, <2>3, KindsLemma, MemberLinksCount DEF Kinds
  <2>5. Resolved(bytes, path) = IF GroupAt(g) \in 1 .. Len(bytes) THEN h ELSE Failure
    BY <1>1, <2>1, <2>2, <2>3, PartAt, ImageAt DEF Resolved
  <2>6. bytes = Image(s) => Resolved(bytes, path) = h
    <3>1. bytes = Image(s) => GroupAt(g) \in 1 .. Len(bytes)
      BY <1>1, <2>2, ImageAt, Places
    <3> QED
      BY <3>1, <2>5
  <2>7. ResolvePath(bytes, path) # None
    BY <1>1, <2>1, <2>2, Places, SessionAssumption
  <2>8. PICK told : told = KeysOf(h.links)
    OBVIOUS
  <2>9. told = [kind |-> "keys", times |-> [x \in Names |-> Cardinality(Bearing(h.links, x))]]
    BY <2>8 DEF KeysOf
  <2>10. /\ Gives(GetItem(bytes, path), told, bytes = Image(s))
         /\ AsyncRead(bytes, path) = Failure /\ HasKey(bytes, path)
    BY <1>1, <2>4, <2>5, <2>6, <2>7, <2>9, KeysAnswer
  <2>11. told = Told(calls, path) /\ told.kind = "keys" /\ told # Failure
    BY <1>11, <1>14, <2>2, <2>3, <2>8, MemberKeysTold, ToldKinds
  <2> QED
    BY <2>10, <2>11, <1>2 DEF AsTold
<1>15. CASE RootAt \in 1 .. Len(bytes) /\ d = 0 /\ g = 0
  <2>1. GetItem(bytes, path) = Failure /\ AsyncRead(bytes, path) = Failure /\ ~HasKey(bytes, path)
    BY <1>1, <1>4, <1>10, <1>15, NothingAnswers
  <2>2. Told(calls, path) = Failure
    BY <1>11, <1>15
  <2> QED
    BY <2>1, <2>2, <1>2, ToldKinds DEF AsTold, Gives, HasKey
<1> QED
  BY <1>12, <1>13, <1>14, <1>15

\* Two keys.
LEMMA MemberAnswers ==
  ASSUME NEW s, NEW calls, Matches(s, calls), NEW bytes, PartOf(bytes, s), NEW n, NEW m
  PROVE  AsTold(bytes, calls, <<n, m>>, bytes = Image(s))
<1>1. s \in State /\ WellTyped(s)
  BY MatchesTypes
<1>2. PICK path : path = <<n, m>>
  OBVIOUS
<1>3. Len(path) = 2 /\ path[1] = n /\ path[2] = m /\ path # <<>>
  BY <1>2
<1>4. ResolvePath(bytes, path) = Second(bytes, s, n, m)
  <2>1. ResolvePath(bytes, path) = Follow(bytes, Follow(bytes, RootAt, path[1]), path[2])
    BY <1>3, Resolves
  <2> QED
    BY <2>1, <1>1, <1>3, FollowsFirst, FollowsSecond
<1>5. PICK d : d = DatasetIndex(s, n)
  OBVIOUS
<1>6. PICK g : g = GroupIndex(s, n)
  OBVIOUS
<1>7. PICK ds : ds = FirstCall(calls, 0, "dataset", n)
  OBVIOUS
<1>8. PICK grp : grp = FirstCall(calls, 0, "group", n)
  OBVIOUS
<1>9. PICK e : e = FirstNamed(s.groups[g].datasets, m)
  OBVIOUS
<1>10. PICK inner : inner = FirstCall(calls, g, "dataset", m)
  OBVIOUS
<1>11. /\ g \in 0 .. Len(s.groups) /\ (d = 0) = (ds = 0) /\ (g = 0) = (grp = 0)
       /\ g # 0 => calls[grp].id = g
  BY <1>5, <1>6, <1>7, <1>8, RootIsTold DEF RootTold
<1>12. ASSUME g # 0
       PROVE  /\ g \in 1 .. Len(s.groups) /\ e \in 0 .. Len(s.groups[g].datasets) /\ (e = 0) = (inner = 0)
              /\ e # 0 => calls[inner].value = s.groups[g].datasets[e].data
  <2>1. g \in 1 .. Len(s.groups)
    BY <1>1, <1>11, <1>12 DEF WellTyped
  <2>2. MemberTold(s, calls, g, m)
    BY <2>1, MemberIsTold
  <2> QED
    BY <2>1, <2>2, <1>9, <1>10 DEF MemberTold
<1>13. Second(bytes, s, n, m) = IF d = 0 /\ g # 0 /\ GroupAt(g) \in 1 .. Len(bytes) /\ e # 0
                                THEN HeaderAt(s, Before(s, g) + e) ELSE None
  BY <1>5, <1>6, <1>9 DEF Second, DatasetIndex, GroupIndex
<1>14. /\ d = 0 /\ g # 0 /\ e # 0 => Told(calls, path) = ToldArray(calls[inner])
       /\ d # 0 \/ g = 0 \/ e = 0 => Told(calls, path) = Failure
  BY <1>3, <1>7, <1>8, <1>10, <1>11, <1>12 DEF Told
<1>15. CASE d = 0 /\ g # 0 /\ e # 0 /\ GroupAt(g) \in 1 .. Len(bytes)
  <2>1. ResolvePath(bytes, path) = HeaderAt(s, Before(s, g) + e)
    BY <1>4, <1>13, <1>15
  <2>2. e \in 1 .. Len(s.groups[g].datasets) /\ g \in 1 .. Len(s.groups)
    BY <1>1, <1>12, <1>15 DEF WellTyped
  <2>3. PICK i \in 1 .. NumSpecs(s) : i = Before(s, g) + e /\ FlatSpecs(s)[i] = s.groups[g].datasets[e]
    BY <1>1, <2>2, FlatAt DEF NumSpecs
  <2>4. PICK call : call = calls[inner]
    OBVIOUS
  <2>5. call.value = FlatSpecs(s)[i].data
    BY <1>12, <1>15, <2>3, <2>4
  <2>6. /\ Gives(GetItem(bytes, path), ToldArray(call), bytes = Image(s))
        /\ Gives(AsyncRead(bytes, path), ToldArray(call), bytes = Image(s))
        /\ HasKey(bytes, path)
    BY <1>1, <2>1, <2>3, <2>5, DatasetAnswers
  <2>7. Told(calls, path) = ToldArray(call) /\ ToldArray(call).kind = "array" /\ ToldArray(call) # Failure
    BY <1>14, <1>15, <2>4, ToldKinds
  <2> QED
    BY <2>6, <2>7, <1>2 DEF AsTold
<1>16. CASE ~(d = 0 /\ g # 0 /\ e # 0 /\ GroupAt(g) \in 1 .. Len(bytes))
  <2>1. ResolvePath(bytes, path) = None
    BY <1>4, <1>13, <1>16
  <2>2. GetItem(bytes, path) = Failure /\ AsyncRead(bytes, path) = Failure /\ ~HasKey(bytes, path)
    BY <1>1, <2>1, NothingAnswers
  <2>3. CASE d # 0 \/ g = 0 \/ e = 0
    <3>1. Told(calls, path) = Failure
      BY <1>14, <2>3
    <3> QED
      BY <2>2, <3>1, <1>2, ToldKinds DEF AsTold, Gives, HasKey
  <2>4. CASE d = 0 /\ g # 0 /\ e # 0
    <3>1. bytes # Image(s)
      BY <1>1, <1>12, <1>16, <2>4, ImageAt, Places
    <3> QED
      BY <2>2, <3>1, <1>2 DEF AsTold, Gives
  <2> QED
    BY <2>3, <2>4
<1> QED
  BY <1>15, <1>16

-----------------------------------------------------------------------------
(* Attributes *)

\* An attribute store looked up, and the last value its name was given.
LEMMA AttributeTold ==
  ASSUME NEW attrs, NEW m \in Nat, m = Len(attrs), DOMAIN attrs = 1 .. m, NEW calls, NEW where,
         AttrsTold(attrs, calls, where), NEW n \in Names
  PROVE  /\ (Bearing(attrs, n) = {}) = (Naming(calls, where, "attr", n) = {})
         /\ Bearing(attrs, n) # {} =>
              attrs[Max(Bearing(attrs, n))].value = ToldValue(calls[Max(Naming(calls, where, "attr", n))].value)
<1>1. ASSUME NEW i \in 1 .. m, attrs[i].name = n
      PROVE  /\ Bearing(attrs, n) = {i} /\ Naming(calls, where, "attr", n) # {}
             /\ attrs[i].value = ToldValue(calls[Max(Naming(calls, where, "attr", n))].value)
  BY <1>1 DEF AttrsTold, Bearing
<1>2. Naming(calls, where, "attr", n) # {} => \E i \in 1 .. m : attrs[i].name = n
  BY DEF AttrsTold
<1>3. Bearing(attrs, n) # {} => \E i \in 1 .. m : attrs[i].name = n
  BY DEF Bearing
<1>4. \A i \in 1 .. m : Max({i}) = i
  BY DEF Max
<1>5. CASE \E i \in 1 .. m : attrs[i].name = n
  <2>1. PICK i \in 1 .. m : attrs[i].name = n
    BY <1>5
  <2>2. Bearing(attrs, n) = {i} /\ Max(Bearing(attrs, n)) = i
    BY <1>1, <1>4, <2>1
  <2> QED
    BY <1>1, <2>1, <2>2
<1>6. CASE ~\E i \in 1 .. m : attrs[i].name = n
  BY <1>2, <1>3, <1>6
<1> QED
  BY <1>5, <1>6

AttributeAsTold(bytes, calls, path, n, whole) ==
  Gives(Attribute(bytes, path, n), ToldAttribute(calls, path, n), whole)

LastGiven(calls, where, n) ==
  IF Naming(calls, where, "attr", n) = {} THEN Failure
  ELSE ToldValue(calls[Max(Naming(calls, where, "attr", n))].value)

\* A header whose attributes are those a place was given.
LEMMA HeaderAttribute ==
  ASSUME NEW bytes, NEW path, NEW h, Resolved(bytes, path) = h, h.kind = "group",
         NEW m \in Nat, m = Len(h.attrs), DOMAIN h.attrs = 1 .. m,
         NEW calls, NEW where, AttrsTold(h.attrs, calls, where), NEW n \in Names
  PROVE  Attribute(bytes, path, n) = LastGiven(calls, where, n)
<1>1. Attribute(bytes, path, n) = IF Bearing(h.attrs, n) = {} THEN Failure
                                  ELSE h.attrs[Max(Bearing(h.attrs, n))].value
  BY DEF Attribute, Bearing
<1>2. PICK attrs : attrs = h.attrs
  OBVIOUS
<1>3. /\ (Bearing(attrs, n) = {}) = (Naming(calls, where, "attr", n) = {})
      /\ Bearing(attrs, n) # {} =>
           attrs[Max(Bearing(attrs, n))].value = ToldValue(calls[Max(Naming(calls, where, "attr", n))].value)
  BY <1>2, AttributeTold
<1> QED
  BY <1>1, <1>2, <1>3 DEF LastGiven

LEMMA NoAttribute ==
  ASSUME NEW bytes, NEW path, Resolved(bytes, path).kind # "group", NEW n
  PROVE  Attribute(bytes, path, n) = Failure
BY DEF Attribute

LEMMA AttrTypes ==
  ASSUME NEW s \in State
  PROVE  /\ Len(s.attrs) \in Nat /\ DOMAIN s.attrs = 1 .. Len(s.attrs)
         /\ \A g \in 1 .. Len(s.groups) : /\ Len(s.groups[g].attrs) \in Nat
                                          /\ DOMAIN s.groups[g].attrs = 1 .. Len(s.groups[g].attrs)
<1>1. \A x \in Seq(Attr) : Len(x) \in Nat /\ DOMAIN x = 1 .. Len(x)
  BY LenProperties
<1>2. s.attrs \in Seq(Attr)
  BY DEF State
<1>3. \A g \in 1 .. Len(s.groups) : s.groups[g].attrs \in Seq(Attr)
  BY StateTypes DEF WellTyped, Group
<1> QED
  BY <1>1, <1>2, <1>3

LEMMA RootAttributes ==
  ASSUME NEW s, NEW calls, Matches(s, calls), NEW bytes, PartOf(bytes, s), NEW n \in Names
  PROVE  AttributeAsTold(bytes, calls, <<>>, n, bytes = Image(s))
<1>1. s \in State
  BY MatchesTypes
<1>2. PICK path : path = <<>>
  OBVIOUS
<1>3. ResolvePath(bytes, path) = RootAt
  <2>1. Len(path) = 0 /\ 0 \in {0, 1, 2}
    BY <1>2
  <2> QED
    BY <2>1, Resolves
<1>4. PICK h : h = RootHeader(s)
  OBVIOUS
<1>5. Resolved(bytes, path) = IF RootAt \in 1 .. Len(bytes) THEN h ELSE Failure
  BY <1>1, <1>3, <1>4, PartAt, ImageAt DEF Resolved
<1>6. h.kind = "group" /\ h.attrs = s.attrs /\ Failure.kind = "error"
  BY <1>4 DEF RootHeader, Failure
<1>7. ToldAttribute(calls, path, n) = LastGiven(calls, 0, n)
  BY <1>2 DEF ToldAttribute, LastGiven
<1>8. CASE RootAt \in 1 .. Len(bytes)
  <2>1. Resolved(bytes, path) = h /\ AttrsTold(h.attrs, calls, 0)
    BY <1>5, <1>6, <1>8, MatchesTypes
  <2>2. PICK m \in Nat : m = Len(h.attrs) /\ DOMAIN h.attrs = 1 .. m
    BY <1>1, <1>6, AttrTypes
  <2>3. Attribute(bytes, path, n) = LastGiven(calls, 0, n)
    BY <2>1, <2>2, <1>6, HeaderAttribute
  <2> QED
    BY <2>3, <1>2, <1>7 DEF AttributeAsTold, Gives
<1>9. CASE RootAt \notin 1 .. Len(bytes)
  <2>1. Attribute(bytes, path, n) = Failure
    BY <1>5, <1>6, <1>9, NoAttribute
  <2>2. bytes # Image(s)
    BY <1>1, <1>9, ImageAt, Places
  <2> QED
    BY <2>1, <2>2, <1>2 DEF AttributeAsTold, Gives
<1> QED
  BY <1>8, <1>9

LEMMA KeyAttributes ==
  ASSUME NEW s, NEW calls, Matches(s, calls), NEW bytes, PartOf(bytes, s), NEW k, NEW n \in Names
  PROVE  AttributeAsTold(bytes, calls, <<k>>, n, bytes = Image(s))
<1>1. s \in State /\ WellTyped(s)
  BY MatchesTypes
<1>2. PICK path : path = <<k>>
  OBVIOUS
<1>3. Len(path) = 1 /\ path[1] = k /\ path # <<>>
  BY <1>2
<1>4. ResolvePath(bytes, path) = First(bytes, s, k)
  <2>1. ResolvePath(bytes, path) = Follow(bytes, RootAt, path[1])
    BY <1>3, Resolves
  <2> QED
    BY <2>1, <1>1, <1>3, FollowsFirst
<1>5. PICK d : d = DatasetIndex(s, k)
  OBVIOUS
<1>6. PICK g : g = GroupIndex(s, k)
  OBVIOUS
<1>7. PICK ds : ds = FirstCall(calls, 0, "dataset", k)
  OBVIOUS
<1>8. PICK grp : grp = FirstCall(calls, 0, "group", k)
  OBVIOUS
<1>9. /\ d \in 0 .. Len(s.datasets) /\ g \in 0 .. Len(s.groups)
      /\ (d = 0) = (ds = 0) /\ (g = 0) = (grp = 0)
      /\ g # 0 => calls[grp].id = g
  BY <1>5, <1>6, <1>7, <1>8, RootIsTold DEF RootTold
<1>10. First(bytes, s, k) = IF RootAt \notin 1 .. Len(bytes) THEN None
                            ELSE IF d # 0 THEN HeaderAt(s, d) ELSE IF g # 0 THEN GroupAt(g) ELSE None
  BY <1>5, <1>6 DEF First, DatasetIndex, GroupIndex
<1>11. ToldAttribute(calls, path, n) =
         IF g = 0 \/ d # 0 THEN Failure ELSE LastGiven(calls, g, n)
  BY <1>3, <1>7, <1>8, <1>9 DEF ToldAttribute, LastGiven
<1>12. Resolved(bytes, path) = HeaderIn(bytes, First(bytes, s, k)) /\ Failure.kind = "error"
  BY <1>4 DEF Resolved, Failure
<1>13. ASSUME RootAt \notin 1 .. Len(bytes) \/ d # 0 \/ g = 0
       PROVE  Resolved(bytes, path).kind # "group"
  <2>1. CASE First(bytes, s, k) = None
    BY <2>1, <1>1, <1>12, PartAt
  <2>2. CASE First(bytes, s, k) # None
    <3>1. First(bytes, s, k) = HeaderAt(s, d) /\ d # 0
      BY <1>10, <1>13, <2>2
    <3>2. d \in 1 .. NumSpecs(s)
      <4>1. Len(s.datasets) \in Nat /\ NumSpecs(s) \in Nat /\ Len(s.datasets) <= NumSpecs(s)
        BY <1>1, Places, FlatAt DEF WellTyped, Begins, NumSpecs
      <4> QED
        BY <1>9, <3>1, <4>1
    <3>3. Image(s)[HeaderAt(s, d)] = DatasetHeader(s, d) /\ DatasetHeader(s, d).kind = "dataset"
      BY <1>1, <3>2, ImageAt, KindsLemma DEF Kinds
    <3> QED
      BY <1>1, <1>12, <3>1, <3>3, PartAt
  <2> QED
    BY <2>1, <2>2
<1>14. CASE RootAt \notin 1 .. Len(bytes) \/ d # 0 \/ g = 0
  <2>1. Attribute(bytes, path, n) = Failure
    BY <1>13, <1>14, NoAttribute
  <2>2. RootAt \notin 1 .. Len(bytes) => bytes # Image(s)
    BY <1>1, ImageAt, Places
  <2> QED
    BY <1>2, <1>11, <1>14, <2>1, <2>2 DEF AttributeAsTold, Gives
<1>15. CASE RootAt \in 1 .. Len(bytes) /\ d = 0 /\ g # 0
  <2>1. g \in 1 .. Len(s.groups) /\ First(bytes, s, k) = GroupAt(g)
    BY <1>1, <1>9, <1>10, <1>15 DEF WellTyped
  <2>2. PICK h : h = GroupHeader(s, g)
    OBVIOUS
  <2>3. h.kind = "group" /\ h.attrs = s.groups[g].attrs
    BY <2>2 DEF GroupHeader
  <2>4. Resolved(bytes, path) = IF GroupAt(g) \in 1 .. Len(bytes) THEN h ELSE Failure
    BY <1>1, <1>12, <2>1, <2>2, PartAt, ImageAt
  <2>5. CASE GroupAt(g) \in 1 .. Len(bytes)
    <3>1. Resolved(bytes, path) = h /\ AttrsTold(h.attrs, calls, g)
      BY <2>1, <2>3, <2>4, <2>5, MatchesTypes
    <3>2. PICK m \in Nat : m = Len(h.attrs) /\ DOMAIN h.attrs = 1 .. m
      BY <1>1, <2>1, <2>3, AttrTypes
    <3>3. Attribute(bytes, path, n) = LastGiven(calls, g, n)
      BY <3>1, <3>2, <2>3, HeaderAttribute
    <3> QED
      BY <3>3, <1>2, <1>11, <1>15 DEF AttributeAsTold, Gives
  <2>6. CASE GroupAt(g) \notin 1 .. Len(bytes)
    <3>1. Attribute(bytes, path, n) = Failure
      BY <2>4, <2>6, <1>12, NoAttribute
    <3>2. bytes # Image(s)
      BY <1>1, <2>1, <2>6, ImageAt, Places
    <3> QED
      BY <3>1, <3>2, <1>2 DEF AttributeAsTold, Gives
  <2> QED
    BY <2>5, <2>6
<1> QED
  BY <1>14, <1>15

LEMMA TwoInOne ==
  ASSUME NEW T, NEW n \in T, NEW m \in T
  PROVE  <<n>> \o <<m>> = <<n, m>>
<1>0. /\ <<n>> \in Seq(T) /\ Len(<<n>>) = 1 /\ <<n>>[1] = n
      /\ <<m>> \in Seq(T) /\ Len(<<m>>) = 1 /\ <<m>>[1] = m
  OBVIOUS
<1>1. PICK p \in Seq(T) : p = <<n>> /\ Len(p) = 1 /\ p[1] = n
  BY <1>0
<1>2. PICK q \in Seq(T) : q = <<m>> /\ Len(q) = 1 /\ q[1] = m
  BY <1>0
<1>3. /\ p \o q \in Seq(T) /\ Len(p \o q) = Len(p) + Len(q)
      /\ \A i \in 1 .. Len(p) : (p \o q)[i] = p[i]
      /\ \A i \in 1 .. Len(q) : (p \o q)[Len(p) + i] = q[i]
  BY BehindFirst
<1>4. PICK x \in Seq(T) : x = p \o q
  BY <1>3
<1>5. Len(x) = 2 /\ x[1] = n /\ x[2] = m
  BY <1>1, <1>2, <1>3, <1>4
<1>6. x = <<n, m>>
  BY <1>5
<1> QED
  BY <1>1, <1>2, <1>4, <1>6

\* Any answer from an image, or from its beginning.
LEMMA AnswersAsTold ==
  ASSUME NEW s, NEW calls, Matches(s, calls), NEW bytes, PartOf(bytes, s), NEW whole, whole => bytes = Image(s)
  PROVE  /\ \A p \in Paths : /\ Gives(Answer(bytes, p), Told(calls, p), whole)
                             /\ AsyncRead(bytes, p) \in {Told(calls, p), Failure}
                             /\ whole /\ Told(calls, p).kind = "array" => AsyncRead(bytes, p) = Told(calls, p)
                             /\ whole => HasKey(bytes, p) = (Told(calls, p) # Failure)
         /\ \A p \in Paths, n \in GroupNames : Len(p) < 2 => Gives(Attribute(bytes, p, n), ToldAttribute(calls, p, n), whole)
<1>1. ASSUME NEW p \in Paths
      PROVE  AsTold(bytes, calls, p, bytes = Image(s)) /\ Answer(bytes, p) = GetItem(bytes, p)
  <2>1. CASE p = <<>>
    <3>1. Len(p) < 2
      BY <2>1
    <3> QED
      BY <2>1, <3>1, RootAnswers DEF Answer
  <2>2. CASE \E n \in Names : p = <<n>>
    <3>1. Len(p) < 2
      BY <2>2
    <3> QED
      BY <2>2, <3>1, KeyAnswers DEF Answer
  <2>3. CASE \E n, m \in Names : p = <<n, m>>
    <3>1. PICK n \in Names, m \in Names : p = <<n, m>>
      BY <2>3
    <3>2. ~(Len(p) < 2)
      BY <3>1
    <3>3. Front(p) \o <<Last(p)>> = p
      <4>1. p \in Seq(Names) /\ Len(p) = 2 /\ p[1] = n /\ p[2] = m
        BY <3>1
      <4>2. Last(p) = m
        BY <4>1 DEF Last
      <4>3. Front(p) = SubSeq(p, 1, 1)
        BY <4>1 DEF Front
      <4>4. PICK f \in Seq(Names) : f = Front(p) /\ Len(f) = 1 /\ f[1] = n
        <5>1. 1 \in 1 .. Len(p) + 1 /\ 1 \in 0 .. Len(p) /\ 1 \in 1 .. 1
          BY <4>1
        <5>2. SubSeq(p, 1, 1) \in Seq(Names) /\ Len(SubSeq(p, 1, 1)) = 1
          BY <4>1, <5>1, SubSeqProperties
        <5>3. SubSeq(p, 1, 1)[1] = p[1]
          BY <4>1, <5>1, SubSeqProperties
        <5> QED
          BY <4>1, <4>3, <5>2, <5>3
      <4>5. f = <<n>>
        BY <4>4
      <4>6. <<n>> \o <<m>> = <<n, m>>
        BY TwoInOne
      <4> QED
        BY <3>1, <4>2, <4>4, <4>5, <4>6
    <3> QED
      BY <3>1, <3>2, <3>3, MemberAnswers DEF Answer, GroupItem
  <2> QED
    BY <2>1, <2>2, <2>3 DEF Paths
<1>2. ASSUME NEW p \in Paths, NEW n \in GroupNames, Len(p) < 2
      PROVE  AttributeAsTold(bytes, calls, p, n, bytes = Image(s))
  <2>1. n \in Names
    BY SessionAssumption
  <2>2. CASE p = <<>>
    BY <2>1, <2>2, RootAttributes
  <2>3. CASE \E k \in Names : p = <<k>>
    BY <2>1, <2>3, KeyAttributes
  <2>4. CASE \E k, m \in Names : p = <<k, m>>
    <3>1. Len(p) = 2
      BY <2>4
    <3> QED
      BY <3>1, <1>2
  <2> QED
    BY <2>2, <2>3, <2>4 DEF Paths
<1>3. ASSUME NEW p \in Paths
      PROVE  /\ Gives(Answer(bytes, p), Told(calls, p), whole)
             /\ AsyncRead(bytes, p) \in {Told(calls, p), Failure}
             /\ whole /\ Told(calls, p).kind = "array" => AsyncRead(bytes, p) = Told(calls, p)
             /\ whole => HasKey(bytes, p) = (Told(calls, p) # Failure)
  BY <1>1 DEF AsTold, Gives
<1>4. ASSUME NEW p \in Paths, NEW n \in GroupNames, Len(p) < 2
      PROVE  Gives(Attribute(bytes, p, n), ToldAttribute(calls, p, n), whole)
  BY <1>2, <1>4 DEF AttributeAsTold, Gives
<1> QED
  BY <1>3, <1>4
-----------------------------------------------------------------------------
(* One more call                                                           *)

\* What was called before is still there.
Follows(calls2, calls) == \A i \in 1 .. Len(calls) : calls2[i] = calls[i]

Added(c, where, what) == c.where = where /\ c.what = what /\ ~c.late

\* calls2 is calls and c behind them, at z.
Grown(calls2, calls, c, z) ==
  /\ calls \in Seq(Entry) /\ Len(calls) \in Nat /\ DOMAIN calls = 1 .. Len(calls)
  /\ calls2 \in Seq(Entry) /\ Len(calls2) = z /\ DOMAIN calls2 = 1 .. z
  /\ calls2[z] = c /\ Follows(calls2, calls)
  /\ z \in Nat /\ z = Len(calls) + 1

Below(X, z) == \A x \in X : x \in Nat /\ x < z

LEMMA OneMore ==
  ASSUME NEW calls \in Seq(Entry), NEW c \in Entry
  PROVE  Grown(Append(calls, c), calls, c, Len(calls) + 1)
<1>1. Len(calls) \in Nat /\ DOMAIN calls = 1 .. Len(calls)
  BY LenProperties
<1>2. PICK calls2 : calls2 = Append(calls, c)
  OBVIOUS
<1>3. calls2 \in Seq(Entry) /\ Len(calls2) = Len(calls) + 1 /\ calls2[Len(calls) + 1] = c
      /\ \A i \in 1 .. Len(calls) : calls2[i] = calls[i]
  BY <1>2, AppendProperties
<1>4. DOMAIN calls2 = 1 .. Len(calls) + 1
  BY <1>3, LenProperties
<1> QED
  BY <1>1, <1>2, <1>3, <1>4 DEF Grown, Follows

LEMMA TimeGrows ==
  ASSUME NEW calls2, NEW calls, NEW c, NEW z, Grown(calls2, calls, c, z), NEW where, NEW what
  PROVE  /\ Added(c, where, what) => InTime(calls2, where, what) = InTime(calls, where, what) \cup {z}
         /\ ~Added(c, where, what) => InTime(calls2, where, what) = InTime(calls, where, what)
         /\ Below(InTime(calls, where, what), z)
         /\ InTime(calls, where, what) \in SUBSET (1 .. Len(calls))
<1>1. PICK n \in Nat : n = Len(calls) /\ DOMAIN calls = 1 .. n /\ z = n + 1 /\ DOMAIN calls2 = 1 .. z
  BY DEF Grown
<1>2. calls2[z] = c /\ \A i \in 1 .. n : calls2[i] = calls[i]
  BY <1>1 DEF Grown, Follows
<1>3. \A i \in 1 .. z : i = z \/ i \in 1 .. n
  BY <1>1
<1>4. \A i \in 1 .. n : i \in 1 .. z /\ i # z /\ i < z /\ i \in Nat
  BY <1>1
<1>5. z \in 1 .. z
  BY <1>1
<1>6. ASSUME Added(c, where, what) PROVE InTime(calls2, where, what) = InTime(calls, where, what) \cup {z}
  BY <1>1, <1>2, <1>3, <1>4, <1>5, <1>6 DEF InTime, Added
<1>7. ASSUME ~Added(c, where, what) PROVE InTime(calls2, where, what) = InTime(calls, where, what)
  BY <1>1, <1>2, <1>3, <1>4, <1>5, <1>7 DEF InTime, Added
<1>8. InTime(calls, where, what) \in SUBSET (1 .. n)
  BY <1>1 DEF InTime
<1> QED
  BY <1>1, <1>4, <1>6, <1>7, <1>8 DEF Below

Extended(f, m, z) == [i \in 1 .. m + 1 |-> IF i = m + 1 THEN z ELSE f[i]]

LEMMA ExtendedAt ==
  ASSUME NEW m \in Nat, NEW f, NEW z
  PROVE  /\ Extended(f, m, z)[m + 1] = z
         /\ \A i \in 1 .. m : Extended(f, m, z)[i] = f[i]
<1>1. \A i \in 1 .. m : i \in 1 .. m + 1 /\ i # m + 1
  OBVIOUS
<1>2. m + 1 \in 1 .. m + 1
  OBVIOUS
<1> QED
  BY <1>1, <1>2 DEF Extended

LEMMA ListsAppend ==
  ASSUME NEW m \in Nat, NEW f, NEW X, Lists(f, m, X), NEW z \in Nat, Below(X, z)
  PROVE  Lists(Extended(f, m, z), m + 1, X \cup {z})
<1>1. /\ f \in [1 .. m -> Nat] /\ \A j, k \in 1 .. m : j < k => f[j] < f[k]
      /\ \A k \in 1 .. m : f[k] \in X
      /\ \A x \in X : \E k \in 1 .. m : f[k] = x
  BY DEF Lists
<1>2. \A i \in 1 .. m + 1 : i = m + 1 \/ i \in 1 .. m
  OBVIOUS
<1>3. \A i \in 1 .. m : i \in 1 .. m + 1 /\ i # m + 1
  OBVIOUS
<1>4. m + 1 \in 1 .. m + 1
  OBVIOUS
<1>5. PICK g : g = Extended(f, m, z)
  OBVIOUS
<1>6. g[m + 1] = z /\ \A i \in 1 .. m : g[i] = f[i]
  BY <1>5, ExtendedAt
<1>7. g \in [1 .. m + 1 -> Nat]
  <2>1. \A i \in 1 .. m + 1 : (IF i = m + 1 THEN z ELSE f[i]) \in Nat
    BY <1>1, <1>2
  <2> QED
    BY <2>1, <1>5 DEF Extended
<1>8. ASSUME NEW j \in 1 .. m + 1, NEW k \in 1 .. m + 1, j < k PROVE g[j] < g[k]
  <2>1. j \in 1 .. m
    BY <1>8
  <2>2. CASE k = m + 1
    BY <2>1, <2>2, <1>1, <1>6 DEF Below
  <2>3. CASE k \in 1 .. m
    BY <2>1, <2>3, <1>1, <1>6, <1>8
  <2> QED
    BY <2>2, <2>3, <1>2
<1>9. \A k \in 1 .. m + 1 : g[k] \in X \cup {z}
  BY <1>1, <1>2, <1>6
<1>10. \A x \in X \cup {z} : \E k \in 1 .. m + 1 : g[k] = x
  BY <1>1, <1>3, <1>4, <1>6
<1>11. Lists(g, m + 1, X \cup {z})
  BY <1>7, <1>8, <1>9, <1>10 DEF Lists
<1> QED
  BY <1>5, <1>11

\* A call that is of another kind or for another place.
LEMMA DatasetsStay ==
  ASSUME NEW calls2, NEW calls, NEW c, NEW z, Grown(calls2, calls, c, z), NEW ds, NEW where,
         DatasetsTold(ds, calls, where), ~Added(c, where, "dataset")
  PROVE  DatasetsTold(ds, calls2, where)
<1>1. PICK X : X = InTime(calls, where, "dataset")
  OBVIOUS
<1>2. X = InTime(calls2, where, "dataset") /\ X \in SUBSET (1 .. Len(calls))
  BY <1>1, TimeGrows
<1>3. PICK f \in [1 .. Len(ds) -> Nat] :
        /\ Lists(f, Len(ds), X)
        /\ \A k \in 1 .. Len(ds) : ds[k].name = calls[f[k]].name /\ ds[k].data = calls[f[k]].value
  BY <1>1 DEF DatasetsTold
<1>4. \A k \in 1 .. Len(ds) : calls2[f[k]] = calls[f[k]]
  BY <1>2, <1>3 DEF Lists, Follows, Grown
<1>5. \A k \in 1 .. Len(ds) : ds[k].name = calls2[f[k]].name /\ ds[k].data = calls2[f[k]].value
  BY <1>3, <1>4
<1> QED
  BY <1>2, <1>3, <1>5 DEF DatasetsTold

LEMMA GroupsStay ==
  ASSUME NEW calls2, NEW calls, NEW c, NEW z, Grown(calls2, calls, c, z), NEW gs, GroupsTold(gs, calls),
         ~Added(c, 0, "group")
  PROVE  GroupsTold(gs, calls2)
<1>1. PICK X : X = InTime(calls, 0, "group")
  OBVIOUS
<1>2. X = InTime(calls2, 0, "group") /\ X \in SUBSET (1 .. Len(calls))
  BY <1>1, TimeGrows
<1>3. PICK f \in [1 .. Len(gs) -> Nat] :
        /\ Lists(f, Len(gs), X)
        /\ \A k \in 1 .. Len(gs) : gs[k].name = calls[f[k]].name /\ calls[f[k]].id = k
  BY <1>1 DEF GroupsTold
<1>4. \A k \in 1 .. Len(gs) : calls2[f[k]] = calls[f[k]]
  BY <1>2, <1>3 DEF Lists, Follows, Grown
<1>5. \A k \in 1 .. Len(gs) : gs[k].name = calls2[f[k]].name /\ calls2[f[k]].id = k
  BY <1>3, <1>4
<1> QED
  BY <1>2, <1>3, <1>5 DEF GroupsTold

\* Of the calls of a name one is the last.
LEMMA LastNaming ==
  ASSUME NEW calls2, NEW calls, NEW c, NEW z, Grown(calls2, calls, c, z), NEW where, NEW what, NEW n,
         Naming(calls, where, what, n) # {}
  PROVE  Max(Naming(calls, where, what, n)) \in 1 .. Len(calls)
<1>1. PICK m \in Nat : m = Len(calls)
  BY DEF Grown
<1>2. InTime(calls, where, what) \in SUBSET (1 .. m)
  BY <1>1, TimeGrows
<1>3. PICK X : X = Naming(calls, where, what, n)
  OBVIOUS
<1>4. X \in SUBSET (0 .. m) /\ X \in SUBSET (1 .. m)
  BY <1>2, <1>3 DEF Naming
<1>5. \E x \in X : \A r \in X : r <= x
  BY <1>1, <1>3, <1>4, NatMax
<1>6. Max(X) \in X
  BY <1>5 DEF Max
<1> QED
  BY <1>1, <1>3, <1>4, <1>6

\* The calls of a name after one more: those before, unless the call is one of them.
LEMMA NamingGrows ==
  ASSUME NEW calls2, NEW calls, NEW c, NEW z, Grown(calls2, calls, c, z), NEW where, NEW what, NEW n
  PROVE  /\ Added(c, where, what) /\ c.name = n =>
              Naming(calls2, where, what, n) = Naming(calls, where, what, n) \cup {z}
         /\ ~(Added(c, where, what) /\ c.name = n) =>
              Naming(calls2, where, what, n) = Naming(calls, where, what, n)
<1>1. PICK X, Y : X = InTime(calls, where, what) /\ Y = InTime(calls2, where, what)
  OBVIOUS
<1>2. /\ Added(c, where, what) => Y = X \cup {z}
      /\ ~Added(c, where, what) => Y = X
      /\ X \in SUBSET (1 .. Len(calls))
  BY <1>1, TimeGrows
<1>3. calls2[z] = c /\ \A i \in X : calls2[i] = calls[i]
  BY <1>2 DEF Grown, Follows
<1>4. Naming(calls, where, what, n) = {i \in X : calls[i].name = n}
  BY <1>1 DEF Naming
<1>5. Naming(calls2, where, what, n) = {i \in Y : calls2[i].name = n}
  BY <1>1 DEF Naming
<1> QED
  BY <1>2, <1>3, <1>4, <1>5

LastValue(calls, where, n) == ToldValue(calls[Max(Naming(calls, where, "attr", n))].value)

LEMMA ValueStays ==
  ASSUME NEW calls2, NEW calls, NEW c, NEW z, Grown(calls2, calls, c, z), NEW where, NEW n,
         ~(Added(c, where, "attr") /\ c.name = n)
  PROVE  /\ Naming(calls2, where, "attr", n) = Naming(calls, where, "attr", n)
         /\ Naming(calls, where, "attr", n) # {} => LastValue(calls2, where, n) = LastValue(calls, where, n)
<1>1. Naming(calls2, where, "attr", n) = Naming(calls, where, "attr", n)
  BY NamingGrows
<1>2. ASSUME Naming(calls, where, "attr", n) # {}
      PROVE  LastValue(calls2, where, n) = LastValue(calls, where, n)
  <2>1. PICK k : k = Max(Naming(calls, where, "attr", n))
    OBVIOUS
  <2>2. k \in 1 .. Len(calls)
    BY <2>1, <1>2, LastNaming
  <2>3. calls2[k] = calls[k]
    BY <2>2 DEF Grown, Follows
  <2> QED
    BY <2>1, <2>3, <1>1 DEF LastValue
<1> QED
  BY <1>1, <1>2

LEMMA AttrsStay ==
  ASSUME NEW calls2, NEW calls, NEW c, NEW z, Grown(calls2, calls, c, z), NEW attrs, NEW where,
         AttrsTold(attrs, calls, where), ~Added(c, where, "attr")
  PROVE  AttrsTold(attrs, calls2, where)
<1>1. \A i \in 1 .. Len(attrs) : /\ Naming(calls, where, "attr", attrs[i].name) # {}
                                 /\ attrs[i].value = LastValue(calls, where, attrs[i].name)
  BY DEF AttrsTold, LastValue
<1>2. ASSUME NEW n
      PROVE  /\ Naming(calls2, where, "attr", n) = Naming(calls, where, "attr", n)
             /\ Naming(calls, where, "attr", n) # {} => LastValue(calls2, where, n) = LastValue(calls, where, n)
  BY ValueStays
<1>3. \A i \in 1 .. Len(attrs) : /\ Naming(calls2, where, "attr", attrs[i].name) # {}
                                 /\ attrs[i].value = LastValue(calls2, where, attrs[i].name)
  BY <1>1, <1>2
<1>4. \A n \in Names : Naming(calls2, where, "attr", n) # {} => \E i \in 1 .. Len(attrs) : attrs[i].name = n
  BY <1>2 DEF AttrsTold
<1>5. \A i, j \in 1 .. Len(attrs) : attrs[i].name = attrs[j].name => i = j
  BY DEF AttrsTold
<1> QED
  BY <1>3, <1>4, <1>5 DEF AttrsTold, LastValue

\* A dataset created and the call.
LEMMA DatasetAdded ==
  ASSUME NEW calls2, NEW calls, NEW c, NEW z, Grown(calls2, calls, c, z), NEW ds \in Seq(Spec), NEW where,
         DatasetsTold(ds, calls, where), Added(c, where, "dataset"),
         NEW spec \in Spec, spec.name = c.name, spec.data = c.value
  PROVE  Append(ds, spec) \in Seq(Spec) /\ DatasetsTold(Append(ds, spec), calls2, where)
<1>1. PICK X : X = InTime(calls, where, "dataset")
  OBVIOUS
<1>2. /\ InTime(calls2, where, "dataset") = X \cup {z} /\ X \in SUBSET (1 .. Len(calls))
      /\ Below(X, z)
  BY <1>1, TimeGrows
<1>3. PICK m \in Nat : m = Len(ds)
  BY LenProperties
<1>4. PICK f \in [1 .. m -> Nat] :
        /\ Lists(f, m, X)
        /\ \A k \in 1 .. m : ds[k].name = calls[f[k]].name /\ ds[k].data = calls[f[k]].value
  BY <1>1, <1>3 DEF DatasetsTold
<1>5. /\ Append(ds, spec) \in Seq(Spec) /\ Len(Append(ds, spec)) = Len(ds) + 1
      /\ Append(ds, spec)[Len(ds) + 1] = spec
      /\ \A k \in 1 .. Len(ds) : Append(ds, spec)[k] = ds[k]
  BY AppendProperties
<1>6. PICK es \in Seq(Spec) : es = Append(ds, spec)
  BY <1>5
<1>7. Len(es) = m + 1 /\ es[m + 1] = spec /\ \A k \in 1 .. m : es[k] = ds[k]
  BY <1>3, <1>5, <1>6
<1>8. PICK g : g = Extended(f, m, z)
  OBVIOUS
<1>9. z \in Nat /\ calls2[z] = c
  BY DEF Grown
<1>10. Lists(g, m + 1, X \cup {z})
  BY <1>2, <1>4, <1>8, <1>9, ListsAppend
<1>11. g[m + 1] = z /\ \A k \in 1 .. m : g[k] = f[k]
  BY <1>8, ExtendedAt
<1>12. \A k \in 1 .. m : calls2[f[k]] = calls[f[k]]
  BY <1>2, <1>4 DEF Lists, Follows, Grown
<1>13. ASSUME NEW k \in 1 .. m + 1 PROVE es[k].name = calls2[g[k]].name /\ es[k].data = calls2[g[k]].value
  <2>1. CASE k = m + 1
    BY <2>1, <1>7, <1>9, <1>11
  <2>2. CASE k \in 1 .. m
    <3>1. es[k] = ds[k] /\ calls2[g[k]] = calls[f[k]]
      BY <2>2, <1>7, <1>11, <1>12, Zenon
    <3> QED
      BY <2>2, <3>1, <1>4, Zenon
  <2> QED
    BY <2>1, <2>2
<1>14. g \in [1 .. m + 1 -> Nat]
  BY <1>10 DEF Lists
<1>15. DatasetsTold(es, calls2, where)
  <2>1. Len(es) = m + 1
    BY <1>7
  <2>2. Lists(g, m + 1, InTime(calls2, where, "dataset"))
    BY <1>2, <1>10
  <2>3. /\ g \in [1 .. Len(es) -> Nat] /\ Lists(g, Len(es), InTime(calls2, where, "dataset"))
        /\ \A k \in 1 .. Len(es) : es[k].name = calls2[g[k]].name /\ es[k].data = calls2[g[k]].value
    BY <2>1, <2>2, <1>13, <1>14, Zenon
  <2> QED
    BY <2>3, Zenon DEF DatasetsTold
<1> QED
  BY <1>6, <1>15

LEMMA GroupAdded ==
  ASSUME NEW calls2, NEW calls, NEW c, NEW z, Grown(calls2, calls, c, z), NEW gs \in Seq(Group),
         GroupsTold(gs, calls), Added(c, 0, "group"),
         NEW group \in Group, group.name = c.name, c.id = Len(gs) + 1
  PROVE  Append(gs, group) \in Seq(Group) /\ GroupsTold(Append(gs, group), calls2)
<1>1. PICK X : X = InTime(calls, 0, "group")
  OBVIOUS
<1>2. /\ InTime(calls2, 0, "group") = X \cup {z} /\ X \in SUBSET (1 .. Len(calls))
      /\ Below(X, z)
  BY <1>1, TimeGrows
<1>3. PICK m \in Nat : m = Len(gs)
  BY LenProperties
<1>4. PICK f \in [1 .. m -> Nat] :
        /\ Lists(f, m, X)
        /\ \A k \in 1 .. m : gs[k].name = calls[f[k]].name /\ calls[f[k]].id = k
  BY <1>1, <1>3 DEF GroupsTold
<1>5. /\ Append(gs, group) \in Seq(Group) /\ Len(Append(gs, group)) = Len(gs) + 1
      /\ Append(gs, group)[Len(gs) + 1] = group
      /\ \A k \in 1 .. Len(gs) : Append(gs, group)[k] = gs[k]
  BY AppendProperties
<1>6. PICK es \in Seq(Group) : es = Append(gs, group)
  BY <1>5
<1>7. Len(es) = m + 1 /\ es[m + 1] = group /\ \A k \in 1 .. m : es[k] = gs[k]
  BY <1>3, <1>5, <1>6
<1>8. PICK g : g = Extended(f, m, z)
  OBVIOUS
<1>9. z \in Nat /\ calls2[z] = c
  BY DEF Grown
<1>10. Lists(g, m + 1, X \cup {z})
  BY <1>2, <1>4, <1>8, <1>9, ListsAppend
<1>11. g[m + 1] = z /\ \A k \in 1 .. m : g[k] = f[k]
  BY <1>8, ExtendedAt
<1>12. \A k \in 1 .. m : calls2[f[k]] = calls[f[k]]
  BY <1>2, <1>4 DEF Lists, Follows, Grown
<1>13. ASSUME NEW k \in 1 .. m + 1 PROVE es[k].name = calls2[g[k]].name /\ calls2[g[k]].id = k
  <2>1. CASE k = m + 1
    BY <2>1, <1>3, <1>7, <1>9, <1>11
  <2>2. CASE k \in 1 .. m
    <3>1. es[k] = gs[k] /\ calls2[g[k]] = calls[f[k]]
      BY <2>2, <1>7, <1>11, <1>12, Zenon
    <3> QED
      BY <2>2, <3>1, <1>4, Zenon
  <2> QED
    BY <2>1, <2>2
<1>14. g \in [1 .. m + 1 -> Nat]
  BY <1>10 DEF Lists
<1>15. GroupsTold(es, calls2)
  <2>1. Len(es) = m + 1
    BY <1>7
  <2>2. Lists(g, m + 1, InTime(calls2, 0, "group"))
    BY <1>2, <1>10
  <2>3. /\ g \in [1 .. Len(es) -> Nat] /\ Lists(g, Len(es), InTime(calls2, 0, "group"))
        /\ \A k \in 1 .. Len(es) : es[k].name = calls2[g[k]].name /\ calls2[g[k]].id = k
    BY <2>1, <2>2, <1>13, <1>14, Zenon
  <2> QED
    BY <2>3, Zenon DEF GroupsTold
<1> QED
  BY <1>6, <1>15

\* The call is now the last of its name.
LEMMA LastIsNew ==
  ASSUME NEW calls2, NEW calls, NEW c, NEW z, Grown(calls2, calls, c, z), NEW where, Added(c, where, "attr")
  PROVE  /\ Naming(calls2, where, "attr", c.name) # {}
         /\ LastValue(calls2, where, c.name) = ToldValue(c.value)
<1>1. PICK X : X = Naming(calls, where, "attr", c.name)
  OBVIOUS
<1>2. PICK n : n = c.name
  OBVIOUS
<1>3. Naming(calls2, where, "attr", n) = X \cup {z}
  BY <1>1, <1>2, NamingGrows
<1>4. Below(InTime(calls, where, "attr"), z)
  BY TimeGrows
<1>5. \A x \in X : x \in Nat /\ x < z
  BY <1>1, <1>4 DEF Naming, Below
<1>6. z \in Nat /\ calls2[z] = c
  BY DEF Grown
<1>7. PICK Y : Y = X \cup {z}
  OBVIOUS
<1>8. z \in Y /\ \A y \in Y : y \in Nat /\ y <= z
  BY <1>5, <1>6, <1>7
<1>9. Max(Y) \in Y /\ \A y \in Y : y <= Max(Y)
  <2>1. \E x \in Y : \A y \in Y : x >= y
    BY <1>8
  <2> QED
    BY <2>1, <1>8 DEF Max
<1>10. Max(Y) = z
  <2>1. PICK x \in Y : x = Max(Y)
    BY <1>9
  <2>2. x \in Nat /\ x <= z /\ z <= x
    BY <1>8, <1>9, <2>1
  <2> QED
    BY <2>1, <2>2, <1>6
<1>11. LastValue(calls2, where, n) = ToldValue(c.value)
  BY <1>3, <1>6, <1>7, <1>10 DEF LastValue
<1> QED
  BY <1>2, <1>3, <1>11

LEMMA ValuesAreTold ==
  ASSUME NEW v \in AttrInputs
  PROVE  PyToAttr(v) = ToldValue(v) /\ ToldValue(v) \in Value
<1>1. v \in [kind : AttrKinds, of : Seq(Nat)]
  BY SessionAssumption
<1>2. PICK k \in AttrKinds, o \in Seq(Nat) : v = [kind |-> k, of |-> o]
  BY <1>1
<1>3. v.kind = k /\ v.of = o
  BY <1>2
<1>4. ASSUME NEW h PROVE [v EXCEPT !.kind = h] = [kind |-> h, of |-> o]
  BY <1>2
<1>8. ASSUME NEW h \in AttrKinds PROVE [kind |-> h, of |-> o] \in Value
  BY <1>8 DEF Value
<1>5. CASE k = "bool"
  <2>1. PyToAttr(v) = [kind |-> "int", of |-> o]
    BY <1>3, <1>4, <1>5 DEF PyToAttr
  <2>2. ToldValue(v) = [kind |-> "int", of |-> o]
    BY <1>3, <1>5 DEF ToldValue
  <2>3. "int" \in AttrKinds
    BY DEF AttrKinds
  <2>4. [kind |-> "int", of |-> o] \in Value
    BY <2>3, <1>8
  <2> QED
    BY <2>1, <2>2, <2>4
<1>6. CASE k = "ints"
  <2>1. PyToAttr(v) = [kind |-> "floats", of |-> o]
    BY <1>3, <1>4, <1>6 DEF PyToAttr
  <2>2. ToldValue(v) = [kind |-> "floats", of |-> o]
    BY <1>3, <1>6 DEF ToldValue
  <2>3. "floats" \in AttrKinds
    BY DEF AttrKinds
  <2>4. [kind |-> "floats", of |-> o] \in Value
    BY <2>3, <1>8
  <2> QED
    BY <2>1, <2>2, <2>4
<1>7. CASE k # "bool" /\ k # "ints"
  <2>1. PyToAttr(v) = v
    BY <1>3, <1>7 DEF PyToAttr
  <2>2. ToldValue(v) = [kind |-> k, of |-> o]
    BY <1>3, <1>7 DEF ToldValue
  <2> QED
    BY <2>1, <2>2, <1>2 DEF Value
<1> QED
  BY <1>5, <1>6, <1>7

\* An attribute set and the call.
LEMMA AttrsAdded ==
  ASSUME NEW calls2, NEW calls, NEW c, NEW z, Grown(calls2, calls, c, z), NEW attrs \in Seq(Attr), NEW where,
         AttrsTold(attrs, calls, where), Added(c, where, "attr"), c.name \in Names, c.value \in AttrInputs
  PROVE  /\ SetItem(attrs, c.name, PyToAttr(c.value)) \in Seq(Attr)
         /\ AttrsTold(SetItem(attrs, c.name, PyToAttr(c.value)), calls2, where)
<1>1. PICK name, value : name = c.name /\ value = ToldValue(c.value)
  OBVIOUS
<1>2. name \in Names /\ value \in Value /\ PyToAttr(c.value) = value
  BY <1>1, ValuesAreTold
<1>3. PICK as : as = SetItem(attrs, name, value)
  OBVIOUS
<1>4. PICK m \in Nat : m = Len(attrs) /\ DOMAIN attrs = 1 .. m
  BY LenProperties
<1>5. \A i \in 1 .. m : attrs[i] \in Attr
  BY <1>4, ElementOfSeq
<1>6. /\ \A i, j \in 1 .. m : attrs[i].name = attrs[j].name => i = j
      /\ \A i \in 1 .. m : /\ Naming(calls, where, "attr", attrs[i].name) # {}
                           /\ attrs[i].value = LastValue(calls, where, attrs[i].name)
      /\ \A n \in Names : Naming(calls, where, "attr", n) # {} => \E i \in 1 .. m : attrs[i].name = n
  BY <1>4 DEF AttrsTold, LastValue
<1>7. /\ Naming(calls2, where, "attr", name) # {}
      /\ LastValue(calls2, where, name) = value
  BY <1>1, LastIsNew
<1>8. ASSUME NEW n, n # name
      PROVE  /\ Naming(calls2, where, "attr", n) = Naming(calls, where, "attr", n)
             /\ Naming(calls, where, "attr", n) # {} => LastValue(calls2, where, n) = LastValue(calls, where, n)
  BY <1>1, <1>8, ValueStays
<1>9. CASE \E i \in 1 .. m : attrs[i].name = name
  <2>1. PICK k \in 1 .. m : k = (CHOOSE i \in 1 .. m : attrs[i].name = name) /\ attrs[k].name = name
    BY <1>9
  <2>2. as = [attrs EXCEPT ![k].value = value]
    BY <1>3, <1>4, <1>9, <2>1 DEF SetItem
  <2>3. attrs \in [1 .. m -> Attr]
    BY <1>4
  <2>4. /\ DOMAIN as = 1 .. m
        /\ \A i \in 1 .. m : i # k => as[i] = attrs[i]
        /\ as[k] = [attrs[k] EXCEPT !.value = value]
    BY <2>2, <2>3
  <2>5. as[k] \in Attr /\ as[k].name = name /\ as[k].value = value
    BY <2>4, <2>1, <1>5, <1>2 DEF Attr
  <2>6. as \in [1 .. m -> Attr]
    <3>1. \A i \in 1 .. m : as[i] \in Attr
      BY <2>4, <2>5, <1>5
    <3>2. as = [i \in 1 .. m |-> as[i]]
      BY <2>2, <2>3
    <3> QED
      BY <3>1, <3>2
  <2>7. as \in Seq(Attr)
    BY <2>6, SeqDef
  <2>8. Len(as) = m
    BY <2>6
  <2>9. \A i \in 1 .. m : as[i].name = attrs[i].name
    BY <2>1, <2>4, <2>5
  <2>10. ASSUME NEW i \in 1 .. m
         PROVE  /\ Naming(calls2, where, "attr", as[i].name) # {}
                /\ as[i].value = LastValue(calls2, where, as[i].name)
    <3>1. CASE i = k
      BY <3>1, <2>5, <1>7
    <3>2. CASE i # k
      <4>1. as[i] = attrs[i] /\ attrs[i].name # name
        BY <3>2, <2>1, <2>4, <1>6
      <4> QED
        BY <4>1, <1>6, <1>8
    <3> QED
      BY <3>1, <3>2
  <2>11. ASSUME NEW n \in Names, Naming(calls2, where, "attr", n) # {} PROVE \E i \in 1 .. m : as[i].name = n
    BY <2>11, <2>1, <2>9, <1>6, <1>8
  <2>12. \A i, j \in 1 .. m : as[i].name = as[j].name => i = j
    BY <2>9, <1>6
  <2>13. AttrsTold(as, calls2, where)
    BY <2>8, <2>10, <2>11, <2>12 DEF AttrsTold, LastValue
  <2> QED
    BY <2>7, <2>13, <1>1, <1>2, <1>3
<1>10. CASE ~ \E i \in 1 .. m : attrs[i].name = name
  <2>1. PICK a \in Attr : a = [name |-> name, value |-> value]
    BY <1>2 DEF Attr
  <2>2. a.name = name /\ a.value = value
    BY <2>1
  <2>3. as = Append(attrs, a)
    BY <1>3, <1>4, <1>10, <2>1 DEF SetItem
  <2>4. /\ Append(attrs, a) \in Seq(Attr) /\ Len(Append(attrs, a)) = Len(attrs) + 1
        /\ Append(attrs, a)[Len(attrs) + 1] = a
        /\ \A k \in 1 .. Len(attrs) : Append(attrs, a)[k] = attrs[k]
    BY AppendProperties
  <2>5. as \in Seq(Attr) /\ Len(as) = m + 1 /\ as[m + 1] = a /\ \A i \in 1 .. m : as[i] = attrs[i]
    BY <2>3, <2>4, <1>4
  <2>6. \A i \in 1 .. m + 1 : i = m + 1 \/ i \in 1 .. m
    OBVIOUS
  <2>7. \A i \in 1 .. m : i \in 1 .. m + 1 /\ i # m + 1
    OBVIOUS
  <2>8. m + 1 \in 1 .. m + 1
    OBVIOUS
  <2>9. ASSUME NEW i \in 1 .. m + 1
        PROVE  /\ Naming(calls2, where, "attr", as[i].name) # {}
               /\ as[i].value = LastValue(calls2, where, as[i].name)
    <3>1. CASE i = m + 1
      BY <3>1, <2>2, <2>5, <1>7
    <3>2. CASE i \in 1 .. m
      <4>1. as[i] = attrs[i] /\ attrs[i].name # name
        BY <3>2, <2>5, <1>10
      <4> QED
        BY <4>1, <3>2, <1>6, <1>8
    <3> QED
      BY <3>1, <3>2, <2>6
  <2>10. ASSUME NEW n \in Names, Naming(calls2, where, "attr", n) # {} PROVE \E i \in 1 .. m + 1 : as[i].name = n
    <3>1. CASE n = name
      BY <3>1, <2>2, <2>5, <2>8
    <3>2. CASE n # name
      <4>1. PICK i \in 1 .. m : attrs[i].name = n
        BY <3>2, <2>10, <1>6, <1>8
      <4> QED
        BY <4>1, <2>5, <2>7
    <3> QED
      BY <3>1, <3>2
  <2>11. ASSUME NEW i \in 1 .. m + 1, NEW j \in 1 .. m + 1, as[i].name = as[j].name PROVE i = j
    <3>1. \A x \in 1 .. m : as[x] = attrs[x] /\ as[x].name # name
      BY <2>5, <1>10, Zenon
    <3>2. as[m + 1].name = name
      BY <2>2, <2>5, Zenon
    <3>3. CASE i = m + 1
      BY <2>6, <2>11, <3>1, <3>2, <3>3, Zenon
    <3>4. CASE j = m + 1
      BY <2>6, <2>11, <3>1, <3>2, <3>4, Zenon
    <3>5. CASE i \in 1 .. m /\ j \in 1 .. m
      BY <2>11, <3>1, <3>5, <1>6, Zenon
    <3> QED
      BY <2>6, <3>3, <3>4, <3>5, Zenon
  <2>12. AttrsTold(as, calls2, where)
    <3>1. Len(as) = m + 1
      BY <2>5, Zenon
    <3>2. \A i, j \in 1 .. Len(as) : as[i].name = as[j].name => i = j
      BY <3>1, <2>11, Zenon
    <3>3. \A i \in 1 .. Len(as) :
            /\ Naming(calls2, where, "attr", as[i].name) # {}
            /\ as[i].value = ToldValue(calls2[Max(Naming(calls2, where, "attr", as[i].name))].value)
      BY <3>1, <2>9, Zenon DEF LastValue
    <3>4. \A n \in Names : Naming(calls2, where, "attr", n) # {} => \E i \in 1 .. Len(as) : as[i].name = n
      BY <3>1, <2>10, Zenon
    <3> QED
      BY <3>2, <3>3, <3>4, Zenon DEF AttrsTold
  <2> QED
    BY <2>5, <2>12, <1>1, <1>2, <1>3
<1> QED
  BY <1>9, <1>10

\* No call in time is for a group that is not there, and groups are made in the root.
CallsPlaced(calls, n) ==
  \A i \in 1 .. Len(calls) : /\ ~calls[i].late => calls[i].where \in 0 .. n
                             /\ calls[i].what = "group" => calls[i].where = 0

LEMMA PlacedGrows ==
  ASSUME NEW calls2, NEW calls, NEW c, NEW z, Grown(calls2, calls, c, z), NEW n \in Nat, NEW n2 \in Nat, n <= n2,
         CallsPlaced(calls, n), ~c.late => c.where \in 0 .. n2, c.what = "group" => c.where = 0
  PROVE  CallsPlaced(calls2, n2)
<1>1. PICK m \in Nat : m = Len(calls) /\ z = m + 1 /\ Len(calls2) = z /\ calls2[z] = c
  BY DEF Grown
<1>2. \A i \in 1 .. m : calls2[i] = calls[i]
  BY <1>1 DEF Grown, Follows
<1>3. \A x \in 0 .. n : x \in 0 .. n2
  OBVIOUS
<1>4. \A i \in 1 .. z : i = z \/ i \in 1 .. m
  BY <1>1
<1>5. ASSUME NEW i \in 1 .. z
      PROVE  /\ ~calls2[i].late => calls2[i].where \in 0 .. n2
             /\ calls2[i].what = "group" => calls2[i].where = 0
  <2>1. CASE i = z
    BY <2>1, <1>1
  <2>2. CASE i \in 1 .. m
    BY <2>2, <1>1, <1>2, <1>3 DEF CallsPlaced
  <2> QED
    BY <2>1, <2>2, <1>4
<1> QED
  BY <1>1, <1>5 DEF CallsPlaced

\* What a place of the state has, and Matches said of parts.
Holds(ds, attrs, calls, g) == DatasetsTold(ds, calls, g) /\ AttrsTold(attrs, calls, g)

HasParts(s, ds, attrs, gs) == s \in State /\ s.datasets = ds /\ s.attrs = attrs /\ s.groups = gs

LEMMA MatchesParts ==
  ASSUME NEW s, NEW ds, NEW attrs, NEW gs, HasParts(s, ds, attrs, gs), NEW calls \in Seq(Entry)
  PROVE  Matches(s, calls) <=>
           /\ Holds(ds, attrs, calls, 0) /\ GroupsTold(gs, calls) /\ CallsPlaced(calls, Len(gs))
           /\ \A g \in 1 .. Len(gs) : Holds(gs[g].datasets, gs[g].attrs, calls, g)
BY DEF HasParts, Matches, Holds, CallsPlaced

LEMMA PartsExist ==
  ASSUME NEW s, NEW calls, Matches(s, calls)
  PROVE  /\ calls \in Seq(Entry) /\ HasParts(s, s.datasets, s.attrs, s.groups)
         /\ s.datasets \in Seq(Spec) /\ s.attrs \in Seq(Attr) /\ s.groups \in Seq(Group)
BY DEF Matches, HasParts, State

\* What a place holds is not changed by a call for another place, or made too late.
LEMMA HoldsStill ==
  ASSUME NEW calls2, NEW calls, NEW c, NEW z, Grown(calls2, calls, c, z), NEW ds, NEW attrs, NEW g,
         Holds(ds, attrs, calls, g), ~Added(c, g, "dataset"), ~Added(c, g, "attr")
  PROVE  Holds(ds, attrs, calls2, g)
<1>1. DatasetsTold(ds, calls2, g)
  BY DatasetsStay DEF Holds
<1>2. AttrsTold(attrs, calls2, g)
  BY AttrsStay DEF Holds
<1> QED
  BY <1>1, <1>2 DEF Holds

\* A call made after close() does not change what was written.
LEMMA LateCall ==
  ASSUME NEW s, NEW calls, Matches(s, calls), NEW c \in Entry, c.late, c.what = "group" => c.where = 0
  PROVE  Matches(s, Append(calls, c))
<1>1. PICK calls2, z : calls2 = Append(calls, c) /\ z = Len(calls) + 1
  OBVIOUS
<1>2. calls \in Seq(Entry)
  BY PartsExist
<1>3. Grown(calls2, calls, c, z)
  BY <1>1, <1>2, OneMore
<1>4. PICK ds \in Seq(Spec), attrs \in Seq(Attr), gs \in Seq(Group) : HasParts(s, ds, attrs, gs)
  BY PartsExist
<1>5. /\ Holds(ds, attrs, calls, 0) /\ GroupsTold(gs, calls) /\ CallsPlaced(calls, Len(gs))
      /\ \A g \in 1 .. Len(gs) : Holds(gs[g].datasets, gs[g].attrs, calls, g)
  BY <1>2, <1>4, MatchesParts
<1>6. \A where, what : ~Added(c, where, what)
  BY DEF Added
<1>7. \A g \in 1 .. Len(gs) : Holds(gs[g].datasets, gs[g].attrs, calls2, g)
  BY <1>3, <1>5, <1>6, HoldsStill
<1>8. Holds(ds, attrs, calls2, 0)
  BY <1>3, <1>5, <1>6, HoldsStill
<1>9. GroupsTold(gs, calls2)
  BY <1>3, <1>5, <1>6, GroupsStay
<1>10. Len(gs) \in Nat
  BY LenProperties
<1>11. CallsPlaced(calls2, Len(gs))
  BY <1>3, <1>5, <1>10, PlacedGrows
<1>12. calls2 \in Seq(Entry)
  BY <1>3 DEF Grown
<1> QED
  BY <1>1, <1>4, <1>7, <1>8, <1>9, <1>11, <1>12, MatchesParts

\* PyFile.create_dataset.
LEMMA DatasetCall ==
  ASSUME NEW s, NEW calls, Matches(s, calls), NEW c \in Entry, Added(c, 0, "dataset"),
         NEW spec \in Spec, spec.name = c.name, spec.data = c.value
  PROVE  Matches([s EXCEPT !.datasets = Append(@, spec)], Append(calls, c))
<1>1. PICK calls2, z : calls2 = Append(calls, c) /\ z = Len(calls) + 1
  OBVIOUS
<1>2. calls \in Seq(Entry)
  BY PartsExist
<1>3. Grown(calls2, calls, c, z)
  BY <1>1, <1>2, OneMore
<1>4. PICK ds \in Seq(Spec), attrs \in Seq(Attr), gs \in Seq(Group) : HasParts(s, ds, attrs, gs)
  BY PartsExist
<1>5. /\ Holds(ds, attrs, calls, 0) /\ GroupsTold(gs, calls) /\ CallsPlaced(calls, Len(gs))
      /\ \A g \in 1 .. Len(gs) : Holds(gs[g].datasets, gs[g].attrs, calls, g)
  BY <1>2, <1>4, MatchesParts
<1>6. ~Added(c, 0, "group") /\ ~Added(c, 0, "attr") /\ c.what # "group" /\ c.where = 0
  BY DEF Added
<1>7. \A g \in 1 .. Len(gs) : Holds(gs[g].datasets, gs[g].attrs, calls2, g)
  <2>1. Len(gs) \in Nat
    BY LenProperties
  <2>2. \A g \in 1 .. Len(gs) : ~Added(c, g, "dataset") /\ ~Added(c, g, "attr")
    BY <2>1, <1>6 DEF Added
  <2> QED
    BY <2>2, <1>3, <1>5, HoldsStill
<1>8. Append(ds, spec) \in Seq(Spec) /\ DatasetsTold(Append(ds, spec), calls2, 0)
  BY <1>3, <1>5, DatasetAdded DEF Holds
<1>9. AttrsTold(attrs, calls2, 0)
  BY <1>3, <1>5, <1>6, AttrsStay DEF Holds
<1>10. GroupsTold(gs, calls2)
  BY <1>3, <1>5, <1>6, GroupsStay
<1>11. Len(gs) \in Nat
  BY LenProperties
<1>12. CallsPlaced(calls2, Len(gs))
  <2>1. c.where \in 0 .. Len(gs)
    BY <1>6, <1>11
  <2> QED
    BY <2>1, <1>3, <1>5, <1>6, <1>11, PlacedGrows
<1>13. calls2 \in Seq(Entry)
  BY <1>3 DEF Grown
<1>14. PICK s2 : s2 = [s EXCEPT !.datasets = Append(@, spec)]
  OBVIOUS
<1>15. HasParts(s2, Append(ds, spec), attrs, gs)
  BY <1>4, <1>8, <1>14 DEF HasParts, State
<1>16. Holds(Append(ds, spec), attrs, calls2, 0)
  BY <1>8, <1>9 DEF Holds
<1>17. Matches(s2, calls2)
  BY <1>7, <1>10, <1>12, <1>13, <1>15, <1>16, MatchesParts
<1> QED
  BY <1>1, <1>14, <1>17

\* Nothing was called for a place that is not there.
LEMMA NothingThere ==
  ASSUME NEW calls \in Seq(Entry), NEW n \in Nat, NEW n2, n2 = n + 1, CallsPlaced(calls, n)
  PROVE  Holds(<<>>, <<>>, calls, n2)
<1>1. PICK m \in Nat : m = Len(calls) /\ DOMAIN calls = 1 .. m
  BY LenProperties
<1>2. n2 \notin 0 .. n
  OBVIOUS
<1>3. \A what : InTime(calls, n2, what) = {}
  BY <1>1, <1>2 DEF InTime, CallsPlaced
<1>4. \A what, name : Naming(calls, n2, what, name) = {}
  BY <1>3 DEF Naming
<1>5. PICK e : e = <<>>
  OBVIOUS
<1>6. Len(e) = 0 /\ \A k \in 1 .. Len(e) : FALSE
  BY <1>5
<1>7. AttrsTold(e, calls, n2)
  BY <1>4, <1>6 DEF AttrsTold
<1>8. PICK f : f \in [1 .. Len(e) -> Nat]
  <2>1. [k \in 1 .. Len(e) |-> 0] \in [1 .. Len(e) -> Nat]
    OBVIOUS
  <2> QED
    BY <2>1
<1>9. Lists(f, Len(e), InTime(calls, n2, "dataset"))
  BY <1>3, <1>6, <1>8 DEF Lists
<1>10. DatasetsTold(e, calls, n2)
  BY <1>6, <1>8, <1>9 DEF DatasetsTold
<1> QED
  BY <1>5, <1>7, <1>10 DEF Holds

\* PyFile.create_group.
LEMMA GroupCall ==
  ASSUME NEW s, NEW calls, Matches(s, calls), NEW c \in Entry, Added(c, 0, "group"), c.id = Len(s.groups) + 1
  PROVE  Matches([s EXCEPT !.groups = Append(@, NewGroup(c.name))], Append(calls, c))
<1>1. PICK calls2, z : calls2 = Append(calls, c) /\ z = Len(calls) + 1
  OBVIOUS
<1>2. calls \in Seq(Entry)
  BY PartsExist
<1>3. Grown(calls2, calls, c, z)
  BY <1>1, <1>2, OneMore
<1>4. PICK ds \in Seq(Spec), attrs \in Seq(Attr), gs \in Seq(Group) : HasParts(s, ds, attrs, gs)
  BY PartsExist
<1>5. /\ Holds(ds, attrs, calls, 0) /\ GroupsTold(gs, calls) /\ CallsPlaced(calls, Len(gs))
      /\ \A g \in 1 .. Len(gs) : Holds(gs[g].datasets, gs[g].attrs, calls, g)
  BY <1>2, <1>4, MatchesParts
<1>6. \A g : ~Added(c, g, "dataset") /\ ~Added(c, g, "attr")
  BY DEF Added
<1>7. PICK n \in Nat : n = Len(gs)
  BY LenProperties
<1>8. c.name \in Names /\ c.where = 0
  BY DEF Entry, Added
<1>9. PICK group \in Group : group = NewGroup(c.name)
  <2>1. \A T : <<>> \in Seq(T)
    OBVIOUS
  <2> QED
    BY <2>1, <1>8 DEF NewGroup, Group
<1>10. group.name = c.name /\ group.datasets = <<>> /\ group.attrs = <<>>
  BY <1>9 DEF NewGroup
<1>11. PICK gs2 : gs2 = Append(gs, group)
  OBVIOUS
<1>12. /\ Append(gs, group) \in Seq(Group) /\ Len(Append(gs, group)) = Len(gs) + 1
       /\ Append(gs, group)[Len(gs) + 1] = group
       /\ \A k \in 1 .. Len(gs) : Append(gs, group)[k] = gs[k]
  BY AppendProperties
<1>13. gs2 \in Seq(Group) /\ Len(gs2) = n + 1 /\ gs2[n + 1] = group /\ \A k \in 1 .. n : gs2[k] = gs[k]
  BY <1>7, <1>11, <1>12
<1>14. GroupsTold(gs2, calls2)
  <2>1. c.id = Len(gs) + 1
    BY <1>4 DEF HasParts
  <2> QED
    BY <2>1, <1>3, <1>5, <1>10, <1>11, GroupAdded
<1>15. CallsPlaced(calls2, n + 1)
  <2>1. c.where \in 0 .. n + 1 /\ n + 1 \in Nat /\ n <= n + 1
    BY <1>8
  <2> QED
    BY <2>1, <1>3, <1>5, <1>7, <1>8, PlacedGrows
<1>16. Holds(ds, attrs, calls2, 0)
  BY <1>3, <1>5, <1>6, HoldsStill
<1>17. ASSUME NEW g \in 1 .. n + 1 PROVE Holds(gs2[g].datasets, gs2[g].attrs, calls2, g)
  <2>1. CASE g \in 1 .. n
    <3>1. gs2[g] = gs[g] /\ Holds(gs[g].datasets, gs[g].attrs, calls, g)
      BY <2>1, <1>5, <1>7, <1>13
    <3> QED
      BY <3>1, <1>3, <1>6, HoldsStill
  <2>2. CASE g = n + 1
    <3>1. Holds(<<>>, <<>>, calls, g)
      BY <2>2, <1>2, <1>5, <1>7, NothingThere
    <3>2. Holds(<<>>, <<>>, calls2, g)
      BY <3>1, <1>3, <1>6, HoldsStill
    <3> QED
      BY <3>2, <2>2, <1>10, <1>13
  <2> QED
    BY <2>1, <2>2
<1>18. calls2 \in Seq(Entry)
  BY <1>3 DEF Grown
<1>19. PICK s2 : s2 = [s EXCEPT !.groups = Append(@, NewGroup(c.name))]
  OBVIOUS
<1>20. HasParts(s2, ds, attrs, gs2)
  BY <1>4, <1>9, <1>11, <1>13, <1>19 DEF HasParts, State
<1>21. Matches(s2, calls2)
  BY <1>13, <1>14, <1>15, <1>16, <1>17, <1>18, <1>20, MatchesParts
<1> QED
  BY <1>1, <1>19, <1>21

\* One group of several changed, but not its name.
ReplacedGroup(gs, g, group) == [gs EXCEPT ![g] = group]

LEMMA GroupChanged ==
  ASSUME NEW gs \in Seq(Group), NEW g \in 1 .. Len(gs), NEW group \in Group, group.name = gs[g].name
  PROVE  /\ ReplacedGroup(gs, g, group) \in Seq(Group) /\ Len(ReplacedGroup(gs, g, group)) = Len(gs)
         /\ ReplacedGroup(gs, g, group)[g] = group
         /\ \A k \in 1 .. Len(gs) : k # g => ReplacedGroup(gs, g, group)[k] = gs[k]
         /\ \A calls : GroupsTold(gs, calls) => GroupsTold(ReplacedGroup(gs, g, group), calls)
<1>1. PICK n \in Nat : n = Len(gs) /\ DOMAIN gs = 1 .. n
  BY LenProperties
<1>2. gs \in [1 .. n -> Group]
  BY <1>1
<1>3. PICK gs2 : gs2 = ReplacedGroup(gs, g, group)
  OBVIOUS
<1>4. gs2 \in [1 .. n -> Group] /\ gs2[g] = group /\ \A k \in 1 .. n : k # g => gs2[k] = gs[k]
  BY <1>1, <1>2, <1>3 DEF ReplacedGroup
<1>5. gs2 \in Seq(Group) /\ Len(gs2) = n
  BY <1>4, FamilySeq
<1>6. \A k \in 1 .. n : gs2[k].name = gs[k].name
  BY <1>4
<1>7. ASSUME NEW calls, GroupsTold(gs, calls) PROVE GroupsTold(gs2, calls)
  <2>1. \E f \in [1 .. n -> Nat] :
          /\ Lists(f, n, InTime(calls, 0, "group"))
          /\ \A k \in 1 .. n : gs[k].name = calls[f[k]].name /\ calls[f[k]].id = k
    BY <1>1, <1>7, Zenon DEF GroupsTold
  <2>2. PICK f \in [1 .. n -> Nat] :
          /\ Lists(f, n, InTime(calls, 0, "group"))
          /\ \A k \in 1 .. n : gs[k].name = calls[f[k]].name /\ calls[f[k]].id = k
    BY <2>1, Zenon
  <2>3. \A k \in 1 .. n : gs2[k].name = calls[f[k]].name /\ calls[f[k]].id = k
    BY <1>6, <2>2, Zenon
  <2>4. \E f_ \in [1 .. n -> Nat] :
          /\ Lists(f_, n, InTime(calls, 0, "group"))
          /\ \A k \in 1 .. n : gs2[k].name = calls[f_[k]].name /\ calls[f_[k]].id = k
    BY <2>2, <2>3, Zenon
  <2> QED
    BY <1>5, <2>4, Zenon DEF GroupsTold
<1>8. /\ gs2 \in Seq(Group) /\ Len(gs2) = Len(gs) /\ gs2[g] = group
      /\ \A k \in 1 .. Len(gs) : k # g => gs2[k] = gs[k]
  BY <1>1, <1>4, <1>5
<1>9. \A calls : GroupsTold(gs, calls) => GroupsTold(gs2, calls)
  BY <1>7, Zenon
<1> QED
  BY <1>3, <1>8, <1>9, Zenon

Changes(group, group2, calls, c, g) ==
  \A calls2, z : Grown(calls2, calls, c, z) /\ Holds(group.datasets, group.attrs, calls, g)
                   => Holds(group2.datasets, group2.attrs, calls2, g)

\* A call through the handle of a group, on what the group has now.
LEMMA InnerCall ==
  ASSUME NEW s, NEW calls, Matches(s, calls), NEW c \in Entry, NEW g \in 1 .. Len(s.groups),
         ~c.late, c.where = g, c.what # "group",
         NEW group \in Group, group.name = s.groups[g].name,
         Changes(s.groups[g], group, calls, c, g)
  PROVE  Matches([s EXCEPT !.groups = ReplacedGroup(s.groups, g, group)], Append(calls, c))
<1>1. PICK calls2, z : calls2 = Append(calls, c) /\ z = Len(calls) + 1
  OBVIOUS
<1>2. calls \in Seq(Entry)
  BY PartsExist
<1>3. Grown(calls2, calls, c, z)
  BY <1>1, <1>2, OneMore
<1>4. PICK ds \in Seq(Spec), attrs \in Seq(Attr), gs \in Seq(Group) : HasParts(s, ds, attrs, gs)
  BY PartsExist
<1>5. /\ Holds(ds, attrs, calls, 0) /\ GroupsTold(gs, calls) /\ CallsPlaced(calls, Len(gs))
      /\ \A k \in 1 .. Len(gs) : Holds(gs[k].datasets, gs[k].attrs, calls, k)
  BY <1>2, <1>4, MatchesParts
<1>6. gs = s.groups /\ g \in 1 .. Len(gs) /\ group.name = gs[g].name
  BY <1>4 DEF HasParts
<1>7. PICK gs2 : gs2 = ReplacedGroup(gs, g, group)
  OBVIOUS
<1>8. /\ gs2 \in Seq(Group) /\ Len(gs2) = Len(gs) /\ gs2[g] = group
      /\ \A k \in 1 .. Len(gs) : k # g => gs2[k] = gs[k]
      /\ GroupsTold(gs2, calls)
  BY <1>5, <1>6, <1>7, GroupChanged
<1>9. PICK n \in Nat : n = Len(gs)
  BY LenProperties
<1>10. g # 0 /\ g \in 0 .. n
  BY <1>6, <1>9
<1>11. \A k, what : k # g => ~Added(c, k, what)
  BY DEF Added
<1>12. ASSUME NEW k \in 1 .. n PROVE Holds(gs2[k].datasets, gs2[k].attrs, calls2, k)
  <2>1. CASE k = g
    BY <2>1, <1>3, <1>5, <1>6, <1>8, <1>9 DEF Changes
  <2>2. CASE k # g
    <3>1. gs2[k] = gs[k] /\ Holds(gs[k].datasets, gs[k].attrs, calls, k)
      BY <2>2, <1>5, <1>8, <1>9
    <3> QED
      BY <3>1, <2>2, <1>3, <1>11, HoldsStill
  <2> QED
    BY <2>1, <2>2
<1>13. Holds(ds, attrs, calls2, 0)
  BY <1>3, <1>5, <1>10, <1>11, HoldsStill
<1>14. GroupsTold(gs2, calls2)
  BY <1>3, <1>8, <1>10, <1>11, GroupsStay
<1>15. CallsPlaced(calls2, n)
  BY <1>3, <1>5, <1>9, <1>10, PlacedGrows
<1>16. calls2 \in Seq(Entry)
  BY <1>3 DEF Grown
<1>17. PICK s2 : s2 = [s EXCEPT !.groups = ReplacedGroup(s.groups, g, group)]
  OBVIOUS
<1>18. HasParts(s2, ds, attrs, gs2)
  BY <1>4, <1>6, <1>7, <1>8, <1>17 DEF HasParts, State
<1>19. Matches(s2, calls2)
  BY <1>8, <1>9, <1>12, <1>13, <1>14, <1>15, <1>16, <1>18, MatchesParts
<1> QED
  BY <1>1, <1>17, <1>19

\* PyGroup.create_dataset.
LEMMA InnerDatasetCall ==
  ASSUME NEW s, NEW calls, Matches(s, calls), NEW c \in Entry, NEW g \in 1 .. Len(s.groups),
         Added(c, g, "dataset"), NEW spec \in Spec, spec.name = c.name, spec.data = c.value
  PROVE  Matches([s EXCEPT !.groups[g].datasets = Append(@, spec)], Append(calls, c))
<1>1. s.groups \in Seq(Group) /\ calls \in Seq(Entry)
  BY PartsExist
<1>2. PICK gs \in Seq(Group) : gs = s.groups
  BY <1>1
<1>3. gs[g] \in Group
  BY <1>2, ElementOfSeq
<1>4. gs[g].datasets \in Seq(Spec)
  BY <1>3 DEF Group
<1>5. PICK ds \in Seq(Spec) : ds = gs[g].datasets
  BY <1>4
<1>6. Append(ds, spec) \in Seq(Spec)
  BY AppendProperties
<1>7. PICK group : group = [gs[g] EXCEPT !.datasets = Append(ds, spec)]
  OBVIOUS
<1>8. group \in Group /\ group.name = gs[g].name /\ group.attrs = gs[g].attrs /\ group.datasets = Append(ds, spec)
  BY <1>3, <1>6, <1>7 DEF Group
<1>9. ASSUME NEW calls2, NEW z, Grown(calls2, calls, c, z), Holds(gs[g].datasets, gs[g].attrs, calls, g)
      PROVE  Holds(group.datasets, group.attrs, calls2, g)
  <2>1. ~Added(c, g, "attr")
    BY DEF Added
  <2>2. DatasetsTold(ds, calls, g) /\ AttrsTold(gs[g].attrs, calls, g)
    BY <1>5, <1>9 DEF Holds
  <2>3. DatasetsTold(Append(ds, spec), calls2, g)
    BY <2>2, <1>9, DatasetAdded
  <2>4. AttrsTold(gs[g].attrs, calls2, g)
    BY <2>1, <2>2, <1>9, AttrsStay
  <2> QED
    BY <2>3, <2>4, <1>8 DEF Holds
<1>10. Changes(gs[g], group, calls, c, g)
  BY <1>9 DEF Changes
<1>11. ~c.late /\ c.where = g /\ c.what # "group"
  BY DEF Added
<1>12. Matches([s EXCEPT !.groups = ReplacedGroup(s.groups, g, group)], Append(calls, c))
  BY <1>2, <1>8, <1>10, <1>11, InnerCall
<1>13. [s EXCEPT !.groups[g].datasets = Append(@, spec)] = [s EXCEPT !.groups = ReplacedGroup(s.groups, g, group)]
  BY <1>2, <1>5, <1>7 DEF ReplacedGroup
<1> QED
  BY <1>12, <1>13

\* PyAttrs.__setitem__ of a group.
LEMMA InnerAttrCall ==
  ASSUME NEW s, NEW calls, Matches(s, calls), NEW c \in Entry, NEW g \in 1 .. Len(s.groups),
         Added(c, g, "attr"), c.value \in AttrInputs
  PROVE  Matches([s EXCEPT !.groups[g].attrs = SetItem(@, c.name, PyToAttr(c.value))], Append(calls, c))
<1>1. s.groups \in Seq(Group) /\ calls \in Seq(Entry)
  BY PartsExist
<1>2. PICK gs \in Seq(Group) : gs = s.groups
  BY <1>1
<1>3. gs[g] \in Group
  BY <1>2, ElementOfSeq
<1>4. gs[g].attrs \in Seq(Attr)
  BY <1>3 DEF Group
<1>5. PICK attrs \in Seq(Attr) : attrs = gs[g].attrs
  BY <1>4
<1>6. PICK as : as = SetItem(attrs, c.name, PyToAttr(c.value))
  OBVIOUS
<1>7. c.name \in Names
  BY DEF Entry
<1>8. PICK group : group = [gs[g] EXCEPT !.attrs = as]
  OBVIOUS
<1>9. group.name = gs[g].name /\ group.attrs = as /\ group.datasets = gs[g].datasets
  BY <1>3, <1>8 DEF Group
<1>10. ASSUME NEW calls2, NEW z, Grown(calls2, calls, c, z), Holds(gs[g].datasets, gs[g].attrs, calls, g)
       PROVE  as \in Seq(Attr) /\ Holds(group.datasets, group.attrs, calls2, g)
  <2>1. ~Added(c, g, "dataset")
    BY DEF Added
  <2>2. DatasetsTold(gs[g].datasets, calls, g) /\ AttrsTold(attrs, calls, g)
    BY <1>5, <1>10 DEF Holds
  <2>3. as \in Seq(Attr) /\ AttrsTold(as, calls2, g)
    BY <2>2, <1>6, <1>7, <1>10, AttrsAdded
  <2>4. DatasetsTold(gs[g].datasets, calls2, g)
    BY <2>1, <2>2, <1>10, DatasetsStay
  <2> QED
    BY <2>3, <2>4, <1>9 DEF Holds
<1>11. Changes(gs[g], group, calls, c, g)
  BY <1>10 DEF Changes
<1>12. as \in Seq(Attr)
  <2>1. Holds(gs[g].datasets, gs[g].attrs, calls, g)
    BY <1>2 DEF Matches, Holds
  <2>2. Grown(Append(calls, c), calls, c, Len(calls) + 1)
    BY <1>1, OneMore
  <2> QED
    BY <2>1, <2>2, <1>10
<1>13. group \in Group
  BY <1>3, <1>8, <1>12 DEF Group
<1>14. ~c.late /\ c.where = g /\ c.what # "group"
  BY DEF Added
<1>15. Matches([s EXCEPT !.groups = ReplacedGroup(s.groups, g, group)], Append(calls, c))
  BY <1>2, <1>9, <1>11, <1>13, <1>14, InnerCall
<1>16. [s EXCEPT !.groups[g].attrs = SetItem(@, c.name, PyToAttr(c.value))]
         = [s EXCEPT !.groups = ReplacedGroup(s.groups, g, group)]
  BY <1>2, <1>5, <1>6, <1>8 DEF ReplacedGroup
<1> QED
  BY <1>15, <1>16

\* PyAttrs.__setitem__ of the file.
LEMMA AttrCall ==
  ASSUME NEW s, NEW calls, Matches(s, calls), NEW c \in Entry, Added(c, 0, "attr"), c.value \in AttrInputs
  PROVE  Matches([s EXCEPT !.attrs = SetItem(@, c.name, PyToAttr(c.value))], Append(calls, c))
<1>1. PICK calls2, z : calls2 = Append(calls, c) /\ z = Len(calls) + 1
  OBVIOUS
<1>2. calls \in Seq(Entry)
  BY PartsExist
<1>3. Grown(calls2, calls, c, z)
  BY <1>1, <1>2, OneMore
<1>4. PICK ds \in Seq(Spec), attrs \in Seq(Attr), gs \in Seq(Group) : HasParts(s, ds, attrs, gs)
  BY PartsExist
<1>5. /\ Holds(ds, attrs, calls, 0) /\ GroupsTold(gs, calls) /\ CallsPlaced(calls, Len(gs))
      /\ \A g \in 1 .. Len(gs) : Holds(gs[g].datasets, gs[g].attrs, calls, g)
  BY <1>2, <1>4, MatchesParts
<1>6. /\ ~Added(c, 0, "group") /\ ~Added(c, 0, "dataset") /\ c.what # "group" /\ c.where = 0
      /\ c.name \in Names
  BY DEF Added, Entry
<1>7. Len(gs) \in Nat
  BY LenProperties
<1>8. \A g \in 1 .. Len(gs) : Holds(gs[g].datasets, gs[g].attrs, calls2, g)
  <2>1. \A g \in 1 .. Len(gs) : ~Added(c, g, "dataset") /\ ~Added(c, g, "attr")
    BY <1>6, <1>7 DEF Added
  <2> QED
    BY <2>1, <1>3, <1>5, HoldsStill
<1>9. PICK as : as = SetItem(attrs, c.name, PyToAttr(c.value))
  OBVIOUS
<1>10. as \in Seq(Attr) /\ AttrsTold(as, calls2, 0)
  BY <1>3, <1>5, <1>6, <1>9, AttrsAdded DEF Holds
<1>11. DatasetsTold(ds, calls2, 0)
  BY <1>3, <1>5, <1>6, DatasetsStay DEF Holds
<1>12. GroupsTold(gs, calls2)
  BY <1>3, <1>5, <1>6, GroupsStay
<1>13. CallsPlaced(calls2, Len(gs))
  <2>1. c.where \in 0 .. Len(gs)
    BY <1>6, <1>7
  <2> QED
    BY <2>1, <1>3, <1>5, <1>6, <1>7, PlacedGrows
<1>14. calls2 \in Seq(Entry)
  BY <1>3 DEF Grown
<1>15. PICK s2 : s2 = [s EXCEPT !.attrs = SetItem(@, c.name, PyToAttr(c.value))]
  OBVIOUS
<1>16. HasParts(s2, ds, as, gs)
  BY <1>4, <1>9, <1>10, <1>15 DEF HasParts, State
<1>17. Holds(ds, as, calls2, 0)
  BY <1>10, <1>11 DEF Holds
<1>18. Matches(s2, calls2)
  BY <1>8, <1>12, <1>13, <1>14, <1>16, <1>17, MatchesParts
<1> QED
  BY <1>1, <1>15, <1>18
-----------------------------------------------------------------------------
(* Sessions: the invariant                                                 *)

Closing == {"writing", "closed", "gone"}

\* The file is, or begins, or will be when the writing is done, the image of a state
\* that matches the calls.
OnFile(s, calls, d, p, whole) ==
  /\ Matches(s, calls) /\ PartOf(d, s)
  /\ p # None => p \in Seq(Blocks(s)) /\ d \o p = Image(s) /\ ~whole
  /\ whole => d = Image(s)

\* What was read into memory.
LoadedFrom(s, calls, data, whole) == Matches(s, calls) /\ PartOf(data, s) /\ (whole => data = Image(s))

SessionsInv ==
  /\ session \in [Writers -> State] /\ journal \in [Writers -> Seq(Entry)]
  /\ \A w \in Writers : session[w].mode = "open" => Matches(session[w], journal[w])
  /\ \A w \in Writers : session[w].mode = "new" => session[w] = Fresh /\ journal[w] = <<>>

FileInv ==
  /\ \E o, b : current = [of |-> o, whole |-> b] /\ b \in BOOLEAN
  /\ current.of = None => disk = None /\ pending = None /\ ~current.whole
  /\ current.of # None =>
       /\ current.of \in Writers /\ session[current.of].mode \in Closing
       /\ \E s \in State : OnFile(s, journal[current.of], disk, pending, current.whole)

ReaderInv ==
  reader # None =>
    /\ \E mp, st, ln, dt, o, b : reader = [mapped |-> mp, stale |-> st, len |-> ln, data |-> dt, of |-> o, whole |-> b]
    /\ reader.mapped \in BOOLEAN /\ reader.whole \in BOOLEAN
    /\ reader.of \in Writers /\ session[reader.of].mode \in Closing
    /\ ~reader.mapped => \E s \in State : LoadedFrom(s, journal[reader.of], reader.data, reader.whole)
    /\ reader.mapped /\ ~reader.stale =>
         /\ current.of = reader.of /\ reader.len \in Nat /\ reader.len <= Len(disk)
         /\ reader.whole => current.whole /\ reader.len = Len(disk)

SessionInv == SessionsInv /\ FileInv /\ ReaderInv

LEMMA FreshMatches ==
  Fresh \in State /\ Matches([Fresh EXCEPT !.mode = "open"], <<>>)
<1>1. PICK s : s = [Fresh EXCEPT !.mode = "open"]
  OBVIOUS
<1>2. \A T : <<>> \in Seq(T)
  OBVIOUS
<1>3. HasParts(s, <<>>, <<>>, <<>>) /\ Fresh \in State
  BY <1>1, <1>2 DEF HasParts, Fresh, State, Modes
<1>4. PICK e : e = <<>>
  OBVIOUS
<1>5. Len(e) = 0 /\ DOMAIN e = {} /\ e \in Seq(Entry) /\ e \in Seq(Group)
  BY <1>4
<1>6. \A g, what : InTime(e, g, what) = {}
  BY <1>5 DEF InTime
<1>7. \A g, what, n : Naming(e, g, what, n) = {}
  BY <1>6 DEF Naming
<1>8. \A g : AttrsTold(e, e, g)
  BY <1>5, <1>7 DEF AttrsTold
<1>9. PICK f : f \in [1 .. Len(e) -> Nat]
  <2>1. [k \in 1 .. Len(e) |-> 0] \in [1 .. Len(e) -> Nat]
    OBVIOUS
  <2> QED
    BY <2>1
<1>10. \A g, what : Lists(f, Len(e), InTime(e, g, what))
  BY <1>5, <1>6, <1>9 DEF Lists
<1>18. \A k \in 1 .. Len(e) : FALSE
  BY <1>5
<1>11. ASSUME NEW g PROVE DatasetsTold(e, e, g)
  <2>1. Lists(f, Len(e), InTime(e, g, "dataset"))
    BY <1>10
  <2> QED
    BY <2>1, <1>9, <1>18 DEF DatasetsTold
<1>12. GroupsTold(e, e)
  <2>1. Lists(f, Len(e), InTime(e, 0, "group"))
    BY <1>10
  <2> QED
    BY <2>1, <1>9, <1>18 DEF GroupsTold
<1>13. CallsPlaced(e, Len(e))
  BY <1>5 DEF CallsPlaced
<1>14. \A g \in 1 .. Len(e) : Holds(e[g].datasets, e[g].attrs, e, g)
  BY <1>5
<1>15. Holds(e, e, e, 0)
  BY <1>8, <1>11 DEF Holds
<1>16. HasParts(s, e, e, e)
  BY <1>3, <1>4
<1>17. Matches(s, e)
  BY <1>5, <1>12, <1>13, <1>14, <1>15, <1>16, MatchesParts
<1> QED
  BY <1>1, <1>3, <1>4, <1>17

LEMMA SessionInit == Init => SessionInv
<1> SUFFICES ASSUME Init PROVE SessionInv
  OBVIOUS
<1>1. Fresh \in State /\ Fresh.mode = "new"
  BY FreshMatches DEF Fresh
<1>2. <<>> \in Seq(Entry)
  OBVIOUS
<1>3. SessionsInv
  BY <1>1, <1>2 DEF Init, SessionsInv
<1>4. FileInv
  BY DEF Init, FileInv, StorageInit
<1>5. ReaderInv
  BY DEF Init, ReaderInv
<1> QED
  BY <1>3, <1>4, <1>5 DEF SessionInv

\* The image cut short is part of it.
LEMMA BeginningIsPart ==
  ASSUME NEW s \in State, NEW d, PartOf(d, s), NEW n \in Nat, n <= Len(d)
  PROVE  PartOf(SubSeq(d, 1, n), s) /\ (n = Len(d) => SubSeq(d, 1, n) = d)
<1>1. PICK T : T = Blocks(s)
  OBVIOUS
<1>2. d \in Seq(T) /\ Begins(d, Image(s))
  BY <1>1 DEF PartOf
<1>3. Len(d) \in Nat /\ \A i \in 1 .. Len(d) : d[i] \in T
  BY <1>2, LenProperties, ElementOfSeq
<1>4. \A i \in 1 .. n : i \in 1 .. Len(d)
  BY <1>3
<1>5. PICK t : t = SubSeq(d, 1, n)
  OBVIOUS
<1>6. t = [i \in 1 .. n |-> d[i]]
  BY <1>3, <1>5
<1>7. t \in [1 .. n -> T] /\ \A i \in 1 .. n : t[i] = d[i]
  BY <1>3, <1>4, <1>6
<1>8. t \in Seq(T) /\ Len(t) = n
  BY <1>7, FamilySeq
<1>9. Begins(t, Image(s))
  <2>1. Len(d) <= Len(Image(s)) /\ \A i \in 1 .. Len(d) : d[i] = Image(s)[i]
    BY <1>2 DEF Begins
  <2>2. Len(Image(s)) \in Nat
    BY ImageAt, LenProperties
  <2>3. n <= Len(Image(s))
    BY <2>1, <2>2, <1>3
  <2> QED
    BY <2>1, <2>3, <1>4, <1>7, <1>8 DEF Begins
<1>10. ASSUME n = Len(d) PROVE t = d
  BY <1>2, <1>3, <1>7, <1>8, <1>10, SeqEqual
<1> QED
  BY <1>1, <1>5, <1>8, <1>9, <1>10 DEF PartOf

LEMMA SetItemTyped ==
  ASSUME NEW attrs \in Seq(Attr), NEW name \in Names, NEW value \in Value
  PROVE  SetItem(attrs, name, value) \in Seq(Attr)
<1>1. PICK m \in Nat : m = Len(attrs) /\ DOMAIN attrs = 1 .. m
  BY LenProperties
<1>2. attrs \in [1 .. m -> Attr]
  BY <1>1
<1>3. CASE \E i \in 1 .. m : attrs[i].name = name
  <2>1. PICK k \in 1 .. m : k = (CHOOSE i \in 1 .. m : attrs[i].name = name)
    BY <1>3
  <2>2. PICK as : as = SetItem(attrs, name, value)
    OBVIOUS
  <2>3. as = [attrs EXCEPT ![k].value = value]
    BY <1>1, <1>3, <2>1, <2>2 DEF SetItem
  <2>4. [attrs[k] EXCEPT !.value = value] \in Attr
    BY <1>2, <2>1 DEF Attr
  <2>5. \A i \in 1 .. m : as[i] = IF i = k THEN [attrs[k] EXCEPT !.value = value] ELSE attrs[i]
    BY <1>2, <2>1, <2>3
  <2>6. \A i \in 1 .. m : as[i] \in Attr
    BY <1>2, <2>4, <2>5
  <2>7. as = [i \in 1 .. m |-> as[i]]
    BY <1>2, <2>3
  <2>8. as \in [1 .. m -> Attr]
    BY <2>6, <2>7
  <2> QED
    BY <2>2, <2>8, FamilySeq
<1>4. CASE ~ \E i \in 1 .. m : attrs[i].name = name
  <2>1. [name |-> name, value |-> value] \in Attr
    BY DEF Attr
  <2>2. Append(attrs, [name |-> name, value |-> value]) \in Seq(Attr)
    BY <2>1, AppendProperties
  <2> QED
    BY <1>1, <1>4, <2>2 DEF SetItem
<1> QED
  BY <1>3, <1>4

\* Changing a group leaves a state.
LEMMA GroupTyped ==
  ASSUME NEW s \in State, NEW g \in 1 .. Len(s.groups), NEW group \in Group
  PROVE  /\ [s EXCEPT !.groups = ReplacedGroup(s.groups, g, group)] \in State
         /\ [s EXCEPT !.groups = ReplacedGroup(s.groups, g, group)].mode = s.mode
<1>1. s.groups \in Seq(Group)
  BY DEF State
<1>2. PICK gs \in Seq(Group) : gs = s.groups
  BY <1>1
<1>3. PICK n \in Nat : n = Len(gs)
  BY LenProperties
<1>4. ReplacedGroup(gs, g, group) \in [1 .. n -> Group]
  BY <1>2, <1>3 DEF ReplacedGroup
<1>5. ReplacedGroup(gs, g, group) \in Seq(Group)
  BY <1>4, FamilySeq
<1> QED
  BY <1>2, <1>5 DEF State

LEMMA InnerDatasetTyped ==
  ASSUME NEW s \in State, NEW g \in 1 .. Len(s.groups), NEW spec \in Spec
  PROVE  /\ [s EXCEPT !.groups[g].datasets = Append(@, spec)] \in State
         /\ [s EXCEPT !.groups[g].datasets = Append(@, spec)].mode = s.mode
<1>1. s.groups \in Seq(Group)
  BY DEF State
<1>2. PICK gs \in Seq(Group) : gs = s.groups
  BY <1>1
<1>3. gs[g] \in Group
  BY <1>2, ElementOfSeq
<1>4. gs[g].datasets \in Seq(Spec)
  BY <1>3 DEF Group
<1>5. PICK ds \in Seq(Spec) : ds = gs[g].datasets
  BY <1>4
<1>6. Append(ds, spec) \in Seq(Spec)
  BY AppendProperties
<1>7. PICK group : group = [gs[g] EXCEPT !.datasets = Append(ds, spec)]
  OBVIOUS
<1>8. group \in Group
  BY <1>3, <1>6, <1>7 DEF Group
<1>9. [s EXCEPT !.groups[g].datasets = Append(@, spec)] = [s EXCEPT !.groups = ReplacedGroup(s.groups, g, group)]
  BY <1>2, <1>5, <1>7 DEF ReplacedGroup
<1> QED
  BY <1>8, <1>9, GroupTyped

LEMMA InnerAttrTyped ==
  ASSUME NEW s \in State, NEW g \in 1 .. Len(s.groups), NEW n \in Names, NEW v \in Value
  PROVE  /\ [s EXCEPT !.groups[g].attrs = SetItem(@, n, v)] \in State
         /\ [s EXCEPT !.groups[g].attrs = SetItem(@, n, v)].mode = s.mode
<1>1. s.groups \in Seq(Group)
  BY DEF State
<1>2. PICK gs \in Seq(Group) : gs = s.groups
  BY <1>1
<1>3. gs[g] \in Group
  BY <1>2, ElementOfSeq
<1>4. gs[g].attrs \in Seq(Attr)
  BY <1>3 DEF Group
<1>5. PICK attrs \in Seq(Attr) : attrs = gs[g].attrs
  BY <1>4
<1>6. SetItem(attrs, n, v) \in Seq(Attr)
  BY SetItemTyped
<1>7. PICK group : group = [gs[g] EXCEPT !.attrs = SetItem(attrs, n, v)]
  OBVIOUS
<1>8. group \in Group
  BY <1>3, <1>6, <1>7 DEF Group
<1>9. [s EXCEPT !.groups[g].attrs = SetItem(@, n, v)] = [s EXCEPT !.groups = ReplacedGroup(s.groups, g, group)]
  BY <1>2, <1>5, <1>7 DEF ReplacedGroup
<1> QED
  BY <1>8, <1>9, GroupTyped

\* A call that was answered with Ok.
LEMMA CallStep ==
  ASSUME SessionInv, NEW w \in Writers, NEW s2 \in State, NEW c \in Entry,
         session' = [session EXCEPT ![w] = s2], journal' = [journal EXCEPT ![w] = Append(@, c)],
         session[w].mode \in {"open", "closed"}, s2.mode = session[w].mode,
         c.late <=> session[w].mode # "open", c.what = "group" => c.where = 0,
         session[w].mode = "open" => Matches(s2, Append(journal[w], c)),
         UNCHANGED <<storageVars, reader, current>>
  PROVE  SessionInv'
<1>1. /\ session \in [Writers -> State] /\ journal \in [Writers -> Seq(Entry)]
      /\ \A v \in Writers : session[v].mode = "open" => Matches(session[v], journal[v])
      /\ \A v \in Writers : session[v].mode = "new" => session[v] = Fresh /\ journal[v] = <<>>
  BY DEF SessionInv, SessionsInv
<1>2. session'[w] = s2 /\ \A v \in Writers : v # w => session'[v] = session[v]
  BY <1>1
<1>3. journal'[w] = Append(journal[w], c) /\ \A v \in Writers : v # w => journal'[v] = journal[v]
  BY <1>1
<1>4. Append(journal[w], c) \in Seq(Entry)
  BY <1>1, AppendProperties
<1>5. session' \in [Writers -> State] /\ journal' \in [Writers -> Seq(Entry)]
  BY <1>1, <1>4
<1>6. \A v \in Writers : session'[v].mode = session[v].mode
  BY <1>2
<1>7. SessionsInv'
  BY <1>1, <1>2, <1>3, <1>5 DEF SessionsInv
<1>8. disk' = disk /\ pending' = pending /\ reader' = reader /\ current' = current
  BY DEF storageVars
<1>9. ASSUME NEW v \in Writers, session[v].mode \in Closing, NEW s, Matches(s, journal[v])
      PROVE  Matches(s, journal'[v])
  <2>1. CASE v = w
    <3>1. c.late
      BY <2>1, <1>9 DEF Closing
    <3> QED
      BY <2>1, <3>1, <1>3, <1>9, LateCall
  <2>2. CASE v # w
    BY <2>2, <1>3, <1>9
  <2> QED
    BY <2>1, <2>2
<1>10. FileInv'
  <2>1. FileInv
    BY DEF SessionInv
  <2>2. ASSUME current.of # None
        PROVE  \E s \in State : OnFile(s, journal'[current.of], disk, pending, current.whole)
    <3>1. PICK s \in State : OnFile(s, journal[current.of], disk, pending, current.whole)
      BY <2>1, <2>2 DEF FileInv
    <3>2. current.of \in Writers /\ session[current.of].mode \in Closing
      BY <2>1, <2>2 DEF FileInv
    <3>3. Matches(s, journal'[current.of])
      BY <3>1, <3>2, <1>9 DEF OnFile
    <3> QED
      BY <3>1, <3>3 DEF OnFile
  <2> QED
    BY <2>1, <2>2, <1>6, <1>8 DEF FileInv
<1>11. ReaderInv'
  <2>1. ReaderInv
    BY DEF SessionInv
  <2>2. ASSUME reader # None, ~reader.mapped
        PROVE  \E s \in State : LoadedFrom(s, journal'[reader.of], reader.data, reader.whole)
    <3>1. PICK s \in State : LoadedFrom(s, journal[reader.of], reader.data, reader.whole)
      BY <2>1, <2>2 DEF ReaderInv
    <3>2. reader.of \in Writers /\ session[reader.of].mode \in Closing
      BY <2>1, <2>2 DEF ReaderInv
    <3>3. Matches(s, journal'[reader.of])
      BY <3>1, <3>2, <1>9 DEF LoadedFrom
    <3> QED
      BY <3>1, <3>3 DEF LoadedFrom
  <2> QED
    BY <2>1, <2>2, <1>6, <1>8 DEF ReaderInv
<1> QED
  BY <1>7, <1>10, <1>11 DEF SessionInv

Said(where, what, name, value, id, late) ==
  [where |-> where, what |-> what, name |-> name, value |-> value, id |-> id, late |-> late]

LEMMA SaidFields ==
  ASSUME NEW where \in Nat, NEW what \in {"dataset", "group", "attr"}, NEW name \in Names,
         NEW value \in Arrays \cup AttrInputs \cup {None}, NEW id \in Nat, NEW late \in BOOLEAN
  PROVE  /\ Said(where, what, name, value, id, late) \in Entry
         /\ Said(where, what, name, value, id, late).where = where
         /\ Said(where, what, name, value, id, late).what = what
         /\ Said(where, what, name, value, id, late).name = name
         /\ Said(where, what, name, value, id, late).value = value
         /\ Said(where, what, name, value, id, late).id = id
         /\ Said(where, what, name, value, id, late).late = late
BY DEF Said, Entry

LEMMA OpenWriteStep ==
  ASSUME SessionInv, NEW w \in Writers, OpenWrite(w)
  PROVE  SessionInv'
<1>1. /\ session \in [Writers -> State] /\ journal \in [Writers -> Seq(Entry)]
      /\ \A v \in Writers : session[v].mode = "open" => Matches(session[v], journal[v])
      /\ \A v \in Writers : session[v].mode = "new" => session[v] = Fresh /\ journal[v] = <<>>
  BY DEF SessionInv, SessionsInv
<1>2. PICK s2 : s2 = [Fresh EXCEPT !.mode = "open"]
  OBVIOUS
<1>3. session' = [session EXCEPT ![w] = s2]
  BY <1>1, <1>2 DEF OpenWrite
<1>4. Matches(s2, <<>>) /\ s2.mode = "open"
  BY <1>2, FreshMatches DEF Fresh
<1>5. s2 \in State
  BY <1>4 DEF Matches
<1>6. session'[w] = s2 /\ \A v \in Writers : v # w => session'[v] = session[v]
  BY <1>1, <1>3
<1>7. session' \in [Writers -> State]
  BY <1>1, <1>3, <1>5
<1>8. disk' = disk /\ pending' = pending /\ reader' = reader /\ current' = current /\ journal' = journal
  BY DEF OpenWrite, storageVars
<1>9. journal[w] = <<>> /\ session[w].mode = "new"
  BY <1>1 DEF OpenWrite
<1>10. SessionsInv'
  BY <1>1, <1>4, <1>6, <1>7, <1>8, <1>9 DEF SessionsInv
<1>11. \A v \in Writers : session[v].mode \in Closing => session'[v].mode \in Closing
  BY <1>6, <1>9 DEF Closing
<1>12. FileInv'
  BY <1>8, <1>11 DEF SessionInv, FileInv
<1>13. ReaderInv'
  BY <1>8, <1>11 DEF SessionInv, ReaderInv
<1> QED
  BY <1>10, <1>12, <1>13 DEF SessionInv

LEMMA CreateDatasetStep ==
  ASSUME SessionInv, NEW w \in Writers, NEW n \in Names, NEW data \in Arrays, CreateDataset(w, n, data)
  PROVE  SessionInv'
<1>14. PICK late \in BOOLEAN : late = (session[w].mode # "open")
  OBVIOUS
<1>15. ~late
  BY <1>14 DEF CreateDataset
<1>1. PICK c : c = Said(0, "dataset", n, data, 0, late)
  OBVIOUS
<1>2. /\ c \in Entry /\ c.where = 0 /\ c.what = "dataset" /\ c.name = n /\ c.value = data /\ c.late = late
  BY <1>1, SaidFields
<1>3. PICK spec : spec = [name |-> n, data |-> data]
  OBVIOUS
<1>4. spec \in Spec /\ spec.name = c.name /\ spec.data = c.value
  BY <1>2, <1>3 DEF Spec
<1>5. session \in [Writers -> State] /\ session[w].mode = "open" /\ Matches(session[w], journal[w])
      /\ journal \in [Writers -> Seq(Entry)]
  BY DEF SessionInv, SessionsInv, CreateDataset
<1>6. PICK s2 : s2 = [session[w] EXCEPT !.datasets = Append(@, spec)]
  OBVIOUS
<1>7. session' = [session EXCEPT ![w] = s2]
  BY <1>3, <1>5, <1>6 DEF CreateDataset
<1>8. journal' = [journal EXCEPT ![w] = Append(@, c)]
  BY <1>1, <1>14 DEF CreateDataset, Log, Said
<1>9. Added(c, 0, "dataset")
  BY <1>2, <1>15 DEF Added
<1>10. Matches(s2, Append(journal[w], c))
  BY <1>2, <1>4, <1>5, <1>6, <1>9, DatasetCall
<1>11. s2 \in State /\ s2.mode = session[w].mode
  BY <1>5, <1>6, <1>10 DEF Matches, State
<1>12. UNCHANGED <<storageVars, reader, current>>
  BY DEF CreateDataset
<1>13. c.late <=> session[w].mode # "open"
  BY <1>2, <1>14
<1> QED
  BY <1>2, <1>5, <1>7, <1>8, <1>10, <1>11, <1>12, <1>13, CallStep

LEMMA CreateGroupStep ==
  ASSUME SessionInv, NEW w \in Writers, NEW n \in GroupNames, CreateGroup(w, n)
  PROVE  SessionInv'
<1>1. session \in [Writers -> State] /\ session[w].mode = "open" /\ Matches(session[w], journal[w])
      /\ journal \in [Writers -> Seq(Entry)]
  BY DEF SessionInv, SessionsInv, CreateGroup
<1>2. PICK id \in Nat : id = Len(session[w].groups) + 1
  BY <1>1, PartsExist, LenProperties
<1>14. PICK late \in BOOLEAN : late = (session[w].mode # "open")
  OBVIOUS
<1>15. ~late
  BY <1>14 DEF CreateGroup
<1>3. PICK c : c = Said(0, "group", n, None, id, late)
  OBVIOUS
<1>4. n \in Names
  BY SessionAssumption
<1>5. /\ c \in Entry /\ c.where = 0 /\ c.what = "group" /\ c.name = n /\ c.id = id /\ c.late = late
  BY <1>3, <1>4, SaidFields
<1>6. PICK s2 : s2 = [session[w] EXCEPT !.groups = Append(@, NewGroup(n))]
  OBVIOUS
<1>7. session' = [session EXCEPT ![w] = s2]
  BY <1>1, <1>6 DEF CreateGroup
<1>8. journal' = [journal EXCEPT ![w] = Append(@, c)]
  BY <1>2, <1>3, <1>14 DEF CreateGroup, Log, Said
<1>9. Added(c, 0, "group")
  BY <1>5, <1>15 DEF Added
<1>10. Matches(s2, Append(journal[w], c))
  BY <1>1, <1>2, <1>5, <1>6, <1>9, GroupCall
<1>11. s2 \in State /\ s2.mode = session[w].mode
  BY <1>1, <1>6, <1>10 DEF Matches, State
<1>12. UNCHANGED <<storageVars, reader, current>>
  BY DEF CreateGroup
<1>13. c.late <=> session[w].mode # "open"
  BY <1>5, <1>14
<1> QED
  BY <1>1, <1>5, <1>7, <1>8, <1>10, <1>11, <1>12, <1>13, CallStep

LEMMA CreateInGroupStep ==
  ASSUME SessionInv, NEW w \in Writers, NEW g \in DOMAIN session[w].groups, NEW n \in GroupNames,
         NEW data \in Arrays, CreateInGroup(w, g, n, data)
  PROVE  SessionInv'
<1>1. session \in [Writers -> State] /\ journal \in [Writers -> Seq(Entry)]
      /\ session[w].mode \in {"open", "closed"}
      /\ (session[w].mode = "open" => Matches(session[w], journal[w]))
  BY DEF SessionInv, SessionsInv, CreateInGroup
<1>2. session[w] \in State
  BY <1>1
<1>3. g \in 1 .. Len(session[w].groups) /\ g \in Nat /\ g # 0
  <2>1. PICK gs \in Seq(Group) : gs = session[w].groups
    BY <1>2 DEF State
  <2>2. DOMAIN gs = 1 .. Len(gs) /\ Len(gs) \in Nat
    BY LenProperties
  <2> QED
    BY <2>1, <2>2
<1>4. PICK late \in BOOLEAN : late = (session[w].mode # "open")
  OBVIOUS
<1>5. PICK c : c = Said(g, "dataset", n, data, 0, late)
  OBVIOUS
<1>6. n \in Names
  BY SessionAssumption
<1>7. /\ c \in Entry /\ c.where = g /\ c.what = "dataset" /\ c.name = n /\ c.value = data /\ c.late = late
  BY <1>3, <1>5, <1>6, SaidFields
<1>8. PICK spec : spec = [name |-> n, data |-> data]
  OBVIOUS
<1>9. spec \in Spec /\ spec.name = c.name /\ spec.data = c.value
  BY <1>6, <1>7, <1>8 DEF Spec
<1>10. PICK s2 : s2 = [session[w] EXCEPT !.groups[g].datasets = Append(@, spec)]
  OBVIOUS
<1>11. session' = [session EXCEPT ![w] = s2]
  BY <1>1, <1>8, <1>10 DEF CreateInGroup
<1>12. journal' = [journal EXCEPT ![w] = Append(@, c)]
  BY <1>4, <1>5 DEF CreateInGroup, Log, Said
<1>13. ASSUME session[w].mode = "open" PROVE Matches(s2, Append(journal[w], c))
  <2>1. Added(c, g, "dataset")
    BY <1>4, <1>7, <1>13 DEF Added
  <2> QED
    BY <2>1, <1>1, <1>3, <1>7, <1>9, <1>10, <1>13, InnerDatasetCall
<1>14. s2 \in State /\ s2.mode = session[w].mode
  BY <1>2, <1>3, <1>9, <1>10, InnerDatasetTyped
<1>15. UNCHANGED <<storageVars, reader, current>>
  BY DEF CreateInGroup
<1>16. c.late <=> session[w].mode # "open"
  BY <1>4, <1>7
<1> QED
  BY <1>1, <1>7, <1>11, <1>12, <1>13, <1>14, <1>15, <1>16, CallStep

LEMMA SetAttrStep ==
  ASSUME SessionInv, NEW w \in Writers, NEW g \in 0 .. Len(session[w].groups), NEW n \in GroupNames,
         NEW value \in AttrInputs, SetAttr(w, g, n, value)
  PROVE  SessionInv'
<1>1. session \in [Writers -> State] /\ journal \in [Writers -> Seq(Entry)]
      /\ session[w].mode \in {"open", "closed"}
      /\ (session[w].mode = "open" => Matches(session[w], journal[w]))
  BY DEF SessionInv, SessionsInv, SetAttr
<1>2. session[w] \in State
  BY <1>1
<1>3. g \in Nat /\ (g # 0 => g \in 1 .. Len(session[w].groups))
  OBVIOUS
<1>4. PICK late \in BOOLEAN : late = (session[w].mode # "open")
  OBVIOUS
<1>5. PICK c : c = Said(g, "attr", n, value, 0, late)
  OBVIOUS
<1>6. n \in Names
  BY SessionAssumption
<1>7. /\ c \in Entry /\ c.where = g /\ c.what = "attr" /\ c.name = n /\ c.value = value /\ c.late = late
  BY <1>3, <1>5, <1>6, SaidFields
<1>8. PyToAttr(value) \in Value
  BY ValuesAreTold
<1>9. UNCHANGED <<storageVars, reader, current>>
  BY DEF SetAttr
<1>10. c.late <=> session[w].mode # "open"
  BY <1>4, <1>7
<1>11. journal' = [journal EXCEPT ![w] = Append(@, c)]
  BY <1>4, <1>5 DEF SetAttr, Log, Said
<1>12. session[w].mode = "open" => Added(c, g, "attr")
  BY <1>4, <1>7 DEF Added
<1>13. CASE g = 0
  <2>1. PICK s2 : s2 = [session[w] EXCEPT !.attrs = SetItem(@, n, PyToAttr(value))]
    OBVIOUS
  <2>2. session' = [session EXCEPT ![w] = s2]
    BY <1>1, <1>13, <2>1 DEF SetAttr
  <2>3. session[w].mode = "open" => Matches(s2, Append(journal[w], c))
    BY <1>1, <1>7, <1>12, <1>13, <2>1, AttrCall
  <2>4. session[w].attrs \in Seq(Attr)
    BY <1>2 DEF State
  <2>5. SetItem(session[w].attrs, n, PyToAttr(value)) \in Seq(Attr)
    BY <2>4, <1>6, <1>8, SetItemTyped
  <2>6. s2 \in State /\ s2.mode = session[w].mode
    BY <1>2, <2>1, <2>5 DEF State
  <2> QED
    BY <1>1, <1>7, <1>9, <1>10, <1>11, <2>2, <2>3, <2>6, CallStep
<1>14. CASE g # 0
  <2>1. PICK s2 : s2 = [session[w] EXCEPT !.groups[g].attrs = SetItem(@, n, PyToAttr(value))]
    OBVIOUS
  <2>2. session' = [session EXCEPT ![w] = s2]
    BY <1>1, <1>14, <2>1 DEF SetAttr
  <2>3. session[w].mode = "open" => Matches(s2, Append(journal[w], c))
    BY <1>1, <1>3, <1>7, <1>12, <1>14, <2>1, InnerAttrCall
  <2>4. s2 \in State /\ s2.mode = session[w].mode
    BY <1>2, <1>3, <1>6, <1>8, <1>14, <2>1, InnerAttrTyped
  <2> QED
    BY <1>1, <1>7, <1>9, <1>10, <1>11, <2>2, <2>3, <2>4, CallStep
<1> QED
  BY <1>13, <1>14

\* Before the first block is written.
LEMMA NothingWritten ==
  ASSUME NEW s, NEW calls, Matches(s, calls)
  PROVE  OnFile(s, calls, <<>>, Image(s), FALSE)
<1>1. s \in State
  BY DEF Matches
<1>2. PICK T : T = Blocks(s)
  OBVIOUS
<1>3. PICK img \in Seq(T) : img = Image(s)
  BY <1>1, <1>2, ImageAt
<1>4. PICK e : e = <<>>
  OBVIOUS
<1>5. e \in Seq(T) /\ Len(e) = 0 /\ e \o img = img
  BY <1>4
<1>6. Len(img) \in Nat
  BY LenProperties
<1>7. Begins(e, img)
  BY <1>5, <1>6 DEF Begins
<1> QED
  BY <1>2, <1>3, <1>4, <1>5, <1>7 DEF OnFile, PartOf

\* Sessions whose mode changes, and nothing else of them.
LEMMA ModeStep ==
  ASSUME SessionInv, NEW w \in Writers, session[w].mode # "new", NEW m \in Closing,
         session' = [session EXCEPT ![w].mode = m], journal' = journal
  PROVE  SessionsInv' /\ \A v \in Writers : session[v].mode \in Closing => session'[v].mode \in Closing
<1>1. /\ session \in [Writers -> State] /\ journal \in [Writers -> Seq(Entry)]
      /\ \A v \in Writers : session[v].mode = "open" => Matches(session[v], journal[v])
      /\ \A v \in Writers : session[v].mode = "new" => session[v] = Fresh /\ journal[v] = <<>>
  BY DEF SessionInv, SessionsInv
<1>2. PICK s2 : s2 = [session[w] EXCEPT !.mode = m]
  OBVIOUS
<1>3. m \in Modes /\ m # "open" /\ m # "new"
  BY DEF Closing, Modes
<1>4. s2 \in State /\ s2.mode = m
  BY <1>1, <1>2, <1>3 DEF State
<1>5. session' = [session EXCEPT ![w] = s2]
  BY <1>1, <1>2
<1>6. session' \in [Writers -> State] /\ session'[w] = s2 /\ \A v \in Writers : v # w => session'[v] = session[v]
  BY <1>1, <1>4, <1>5
<1>7. SessionsInv'
  BY <1>1, <1>3, <1>4, <1>6 DEF SessionsInv
<1>8. \A v \in Writers : session[v].mode \in Closing => session'[v].mode \in Closing
  BY <1>4, <1>6
<1> QED
  BY <1>7, <1>8

LEMMA OutdatedStep ==
  ASSUME ReaderInv, Outdated, journal' = journal,
         \A v \in Writers : session[v].mode \in Closing => session'[v].mode \in Closing
  PROVE  ReaderInv'
<1>1. CASE reader = None
  <2>1. reader' = None
    BY <1>1 DEF Outdated
  <2> QED
    BY <2>1 DEF ReaderInv
<1>2. CASE reader # None
  <2>1. PICK mp, st, ln, dt, o, b :
          reader = [mapped |-> mp, stale |-> st, len |-> ln, data |-> dt, of |-> o, whole |-> b]
    BY <1>2 DEF ReaderInv
  <2>2. mp \in BOOLEAN /\ b \in BOOLEAN /\ o \in Writers /\ session[o].mode \in Closing
    BY <1>2, <2>1 DEF ReaderInv
  <2>3. ~mp => \E s \in State : LoadedFrom(s, journal[o], dt, b)
    BY <1>2, <2>1 DEF ReaderInv
  <2>4. CASE mp
    <3>1. reader' = [mapped |-> mp, stale |-> TRUE, len |-> ln, data |-> dt, of |-> o, whole |-> b]
      BY <1>2, <2>1, <2>4 DEF Outdated
    <3>2. reader'.mapped = mp /\ reader'.stale = TRUE /\ reader'.of = o /\ reader'.whole = b
      BY <3>1
    <3> QED
      BY <2>2, <2>4, <3>1, <3>2 DEF ReaderInv
  <2>5. CASE ~mp
    <3>1. reader' = reader
      BY <1>2, <2>1, <2>5 DEF Outdated
    <3>2. reader.mapped = mp /\ reader.of = o /\ reader.whole = b /\ reader.data = dt
      BY <2>1
    <3> QED
      BY <2>1, <2>2, <2>3, <2>5, <3>1, <3>2 DEF ReaderInv
  <2> QED
    BY <2>2, <2>4, <2>5
<1> QED
  BY <1>1, <1>2

LEMMA CloseStep ==
  ASSUME SessionInv, NEW w \in Writers, Close(w)
  PROVE  SessionInv'
<1>1. session[w].mode = "open" /\ Matches(session[w], journal[w])
  BY DEF SessionInv, SessionsInv, Close
<1>2. journal' = journal
  BY DEF Close
<1>3. FileInv /\ ReaderInv
  BY DEF SessionInv
<1>4. CASE FinishFails(session[w])
  <2>1. session' = [session EXCEPT ![w].mode = "closed"]
    BY <1>4 DEF Close
  <2>2. disk' = disk /\ pending' = pending /\ reader' = reader /\ current' = current
    BY <1>4 DEF Close, storageVars
  <2>3. SessionsInv' /\ \A v \in Writers : session[v].mode \in Closing => session'[v].mode \in Closing
    <3>1. "closed" \in Closing /\ session[w].mode # "new"
      BY <1>1 DEF Closing
    <3> QED
      BY <3>1, <2>1, <1>2, ModeStep
  <2>4. FileInv'
    BY <1>2, <1>3, <2>2, <2>3 DEF FileInv
  <2>5. ReaderInv'
    BY <1>2, <1>3, <2>2, <2>3 DEF ReaderInv
  <2> QED
    BY <2>3, <2>4, <2>5 DEF SessionInv
<1>5. CASE ~FinishFails(session[w])
  <2>1. session' = [session EXCEPT ![w].mode = "writing"]
    BY <1>5 DEF Close
  <2>2. disk' = <<>> /\ pending' = Image(session[w]) /\ current' = [of |-> w, whole |-> FALSE] /\ Outdated
    BY <1>5 DEF Close, CreateTruncate
  <2>3. SessionsInv' /\ \A v \in Writers : session[v].mode \in Closing => session'[v].mode \in Closing
    <3>1. "writing" \in Closing /\ session[w].mode # "new"
      BY <1>1 DEF Closing
    <3> QED
      BY <3>1, <2>1, <1>2, ModeStep
  <2>4. session'[w].mode \in Closing
    <3>1. session \in [Writers -> State]
      BY DEF SessionInv, SessionsInv
    <3>2. session[w] \in State
      BY <3>1
    <3>3. session'[w].mode = "writing"
      BY <2>1, <3>1, <3>2 DEF State
    <3> QED
      BY <3>3 DEF Closing
  <2>5. FileInv'
    <3>1. OnFile(session[w], journal[w], <<>>, Image(session[w]), FALSE) /\ session[w] \in State
      BY <1>1, NothingWritten DEF Matches
    <3>2. current'.of = w /\ current'.whole = FALSE /\ w # None
      BY <2>2, SessionAssumption
    <3>3. \E s \in State : OnFile(s, journal'[current'.of], disk', pending', current'.whole)
      BY <3>1, <3>2, <2>2, <1>2
    <3> QED
      BY <2>2, <2>4, <3>2, <3>3 DEF FileInv
  <2>6. ReaderInv'
    BY <1>2, <1>3, <2>2, <2>3, OutdatedStep
  <2> QED
    BY <2>3, <2>5, <2>6 DEF SessionInv
<1> QED
  BY <1>4, <1>5

LEMMA EmptyIsNotNone == <<>> # None
<1>1. <<>> \in Seq(Nat)
  OBVIOUS
<1> QED
  BY <1>1, SessionAssumption

\* One block more is a longer part.
LEMMA LongerPart ==
  ASSUME NEW s, NEW calls, NEW d, NEW p, OnFile(s, calls, d, p, FALSE), p # None, p # <<>>
  PROVE  OnFile(s, calls, Append(d, Head(p)), Tail(p), FALSE) /\ Len(Append(d, Head(p))) = Len(d) + 1 /\ Len(d) \in Nat
<1>1. PICK T : T = Blocks(s)
  OBVIOUS
<1>2. s \in State
  BY DEF OnFile, Matches
<1>3. d \in Seq(T) /\ p \in Seq(T) /\ d \o p = Image(s)
  BY <1>1 DEF OnFile, PartOf
<1>4. PICK h \in T, t \in Seq(T) : h = Head(p) /\ t = Tail(p)
  BY <1>3, HeadTailProperties
<1>5. Append(d, h) \in Seq(T) /\ Len(Append(d, h)) = Len(d) + 1
  BY <1>3, AppendProperties
<1>6. d \o p = Append(d, h) \o t
  BY <1>3, <1>4, FirstMoves
<1>7. PICK x \in Seq(T) : x = Append(d, h)
  BY <1>5
<1>8. Begins(x, x \o t)
  <2>1. Len(x) \in Nat /\ Len(t) \in Nat
    BY LenProperties
  <2>2. Begins(x, x)
    BY <2>1 DEF Begins
  <2> QED
    BY <2>2, BeginsConcat
<1>9. x \o t = Image(s)
  BY <1>3, <1>6, <1>7
<1>10. Len(d) \in Nat
  BY <1>3, LenProperties
<1> QED
  BY <1>1, <1>4, <1>5, <1>7, <1>8, <1>9, <1>10 DEF OnFile, PartOf

LEMMA WriteBlockStep ==
  ASSUME SessionInv, WriteBlock
  PROVE  SessionInv'
<1>1. SessionsInv /\ FileInv /\ ReaderInv
  BY DEF SessionInv
<1>2. /\ session' = session /\ journal' = journal /\ reader' = reader /\ current' = current
      /\ pending # None /\ pending # <<>>
      /\ disk' = Append(disk, Head(pending)) /\ pending' = Tail(pending)
  BY DEF WriteBlock, AppendBlock, sessionVars
<1>3. /\ current.of \in Writers /\ session[current.of].mode \in Closing /\ current.of # None
  BY <1>1, <1>2 DEF FileInv
<1>4. PICK s \in State : OnFile(s, journal[current.of], disk, pending, current.whole)
  BY <1>1, <1>3 DEF FileInv
<1>5. current.whole = FALSE
  <2>1. current.whole \in BOOLEAN
    BY <1>1 DEF FileInv
  <2>2. ~current.whole
    BY <1>2, <1>4 DEF OnFile
  <2> QED
    BY <2>1, <2>2
<1>6. /\ OnFile(s, journal[current.of], disk', pending', FALSE) /\ Len(disk') = Len(disk) + 1 /\ Len(disk) \in Nat
  BY <1>2, <1>4, <1>5, LongerPart
<1>7. SessionsInv'
  BY <1>1, <1>2 DEF SessionsInv
<1>8. FileInv'
  <2>1. \E t \in State : OnFile(t, journal'[current'.of], disk', pending', current'.whole)
    BY <1>2, <1>5, <1>6
  <2> QED
    BY <2>1, <1>1, <1>2, <1>3 DEF FileInv
<1>9. ReaderInv'
  <2>1. ASSUME reader # None, reader.mapped, ~reader.stale
        PROVE  /\ current.of = reader.of /\ reader.len \in Nat /\ reader.len <= Len(disk')
               /\ ~reader.whole
    <3>1. /\ current.of = reader.of /\ reader.len \in Nat /\ reader.len <= Len(disk)
          /\ reader.whole => current.whole
      BY <1>1, <2>1 DEF ReaderInv
    <3> QED
      BY <3>1, <1>5, <1>6
  <2> QED
    BY <2>1, <1>1, <1>2 DEF ReaderInv
<1> QED
  BY <1>7, <1>8, <1>9 DEF SessionInv

LEMMA ClosedStep ==
  ASSUME SessionInv, NEW w \in Writers, Closed(w)
  PROVE  SessionInv'
<1>1. SessionsInv /\ FileInv /\ ReaderInv
  BY DEF SessionInv
<1>2. /\ session[w].mode = "writing" /\ session' = [session EXCEPT ![w].mode = "closed"]
      /\ journal' = journal /\ reader' = reader /\ disk' = disk /\ pending' = None
      /\ pending # None
      /\ \/ pending = <<>> /\ current' = [current EXCEPT !.whole = TRUE]
         \/ current' = current
  BY EmptyIsNotNone DEF Closed, WriteReturns, WriteFails
<1>3. SessionsInv' /\ \A v \in Writers : session[v].mode \in Closing => session'[v].mode \in Closing
  <2>1. "closed" \in Closing /\ session[w].mode # "new"
    BY <1>2 DEF Closing
  <2> QED
    BY <2>1, <1>2, ModeStep
<1>4. /\ current.of \in Writers /\ session[current.of].mode \in Closing /\ current.of # None
  BY <1>1, <1>2 DEF FileInv
<1>5. PICK s \in State : OnFile(s, journal[current.of], disk, pending, current.whole)
  BY <1>1, <1>4 DEF FileInv
<1>6. PICK o, b : current = [of |-> o, whole |-> b] /\ b \in BOOLEAN
  BY <1>1 DEF FileInv
<1>7. current.of = o /\ current.whole = b /\ ~b
  BY <1>2, <1>5, <1>6 DEF OnFile
<1>8. PICK b2 \in BOOLEAN : current' = [of |-> o, whole |-> b2] /\ (b2 => pending = <<>>)
  <2>1. CASE pending = <<>> /\ current' = [current EXCEPT !.whole = TRUE]
    BY <2>1, <1>6
  <2>2. CASE current' = current
    BY <2>2, <1>6, <1>7
  <2> QED
    BY <2>1, <2>2, <1>2
<1>9. OnFile(s, journal[o], disk, None, b2)
  <2>1. Matches(s, journal[o]) /\ PartOf(disk, s) /\ disk \o pending = Image(s)
    BY <1>2, <1>5, <1>7 DEF OnFile
  <2>2. ASSUME b2 PROVE disk = Image(s)
    <3>1. PICK T : T = Blocks(s)
      OBVIOUS
    <3>2. disk \in Seq(T) /\ disk \o <<>> = Image(s)
      BY <2>1, <2>2, <3>1, <1>8 DEF PartOf
    <3> QED
      BY <3>2
  <2> QED
    BY <2>1, <2>2 DEF OnFile
<1>10. FileInv'
  <2>1. current'.of = o /\ current'.whole = b2
    BY <1>8
  <2>2. session'[o].mode \in Closing /\ o \in Writers
    BY <1>3, <1>4, <1>7
  <2>3. \E t \in State : OnFile(t, journal'[current'.of], disk', pending', current'.whole)
    BY <2>1, <1>2, <1>9
  <2> QED
    BY <2>1, <2>2, <2>3, <1>4, <1>7, <1>8 DEF FileInv
<1>11. ReaderInv'
  <2>1. ASSUME reader # None, reader.mapped, ~reader.stale
        PROVE  /\ current'.of = reader.of /\ reader.len \in Nat /\ reader.len <= Len(disk)
               /\ ~reader.whole
    <3>1. /\ current.of = reader.of /\ reader.len \in Nat /\ reader.len <= Len(disk)
          /\ reader.whole => current.whole
      BY <1>1, <2>1 DEF ReaderInv
    <3> QED
      BY <3>1, <1>7, <1>8
  <2> QED
    BY <2>1, <1>1, <1>2, <1>3 DEF ReaderInv
<1> QED
  BY <1>3, <1>10, <1>11 DEF SessionInv

LEMMA CrashStep ==
  ASSUME SessionInv, Crash
  PROVE  SessionInv'
<1>1. SessionsInv /\ FileInv /\ ReaderInv
  BY DEF SessionInv
<1>2. /\ disk' = disk /\ pending' = None /\ reader' = reader /\ journal' = journal /\ current' = current
  BY DEF Crash, ProcessDies
<1>3. PICK s2 : s2 = [Fresh EXCEPT !.mode = "gone"]
  OBVIOUS
<1>4. s2 \in State /\ s2.mode = "gone"
  <2>1. Fresh \in State
    BY FreshMatches
  <2> QED
    BY <2>1, <1>3 DEF State, Modes
<1>5. session' = [w \in Writers |-> IF session[w].mode = "new" THEN Fresh ELSE s2]
  BY <1>3 DEF Crash
<1>6. \A w \in Writers : session'[w] = IF session[w].mode = "new" THEN Fresh ELSE s2
  BY <1>5
<1>7. Fresh \in State /\ Fresh.mode = "new"
  BY FreshMatches DEF Fresh
<1>8. session' \in [Writers -> State]
  BY <1>4, <1>5, <1>7
<1>9. SessionsInv'
  BY <1>1, <1>2, <1>4, <1>6, <1>7, <1>8 DEF SessionsInv
<1>10. \A v \in Writers : session[v].mode \in Closing => session'[v].mode \in Closing
  BY <1>4, <1>6 DEF Closing
<1>11. FileInv'
  <2>1. ASSUME current.of # None
        PROVE  \E s \in State : OnFile(s, journal[current.of], disk, None, current.whole)
    <3>1. PICK s \in State : OnFile(s, journal[current.of], disk, pending, current.whole)
      BY <1>1, <2>1 DEF FileInv
    <3> QED
      BY <3>1 DEF OnFile
  <2> QED
    BY <2>1, <1>1, <1>2, <1>10 DEF FileInv
<1>12. ReaderInv'
  BY <1>1, <1>2, <1>10 DEF ReaderInv
<1> QED
  BY <1>9, <1>11, <1>12 DEF SessionInv

LEMMA OpenReadStep ==
  ASSUME SessionInv, NEW mapped \in BOOLEAN, OpenRead(mapped)
  PROVE  SessionInv'
<1>1. SessionsInv /\ FileInv /\ ReaderInv
  BY DEF SessionInv
<1>2. /\ disk' = disk /\ pending' = pending /\ session' = session /\ journal' = journal /\ current' = current
      /\ disk # None
  BY DEF OpenRead, storageVars
<1>3. PICK dt : dt = IF mapped THEN <<>> ELSE disk
  OBVIOUS
<1>4. reader' = [mapped |-> mapped, stale |-> FALSE, len |-> Len(disk), data |-> dt,
                 of |-> current.of, whole |-> current.whole]
  BY <1>3 DEF OpenRead
<1>5. /\ reader'.mapped = mapped /\ reader'.stale = FALSE /\ reader'.len = Len(disk) /\ reader'.data = dt
      /\ reader'.of = current.of /\ reader'.whole = current.whole
  BY <1>4
<1>6. /\ current.of # None /\ current.of \in Writers /\ session[current.of].mode \in Closing
      /\ current.whole \in BOOLEAN
  BY <1>1, <1>2 DEF FileInv
<1>7. PICK s \in State : OnFile(s, journal[current.of], disk, pending, current.whole)
  BY <1>1, <1>6 DEF FileInv
<1>8. SessionsInv' /\ FileInv'
  BY <1>1, <1>2 DEF SessionsInv, FileInv
<1>9. Len(disk) \in Nat
  BY <1>7, LenProperties DEF OnFile, PartOf
<1>10. ASSUME ~mapped PROVE LoadedFrom(s, journal[current.of], dt, current.whole)
  BY <1>3, <1>7, <1>10 DEF OnFile, LoadedFrom
<1>11. ReaderInv'
  <2>1. \E mp, st, ln, dd, o, b :
          reader' = [mapped |-> mp, stale |-> st, len |-> ln, data |-> dd, of |-> o, whole |-> b]
    BY <1>4
  <2>2. reader'.of \in Writers /\ session'[reader'.of].mode \in Closing
    BY <1>2, <1>5, <1>6
  <2>3. ASSUME ~reader'.mapped
        PROVE  \E t \in State : LoadedFrom(t, journal'[reader'.of], reader'.data, reader'.whole)
    BY <2>3, <1>2, <1>5, <1>10
  <2>4. /\ current'.of = reader'.of /\ reader'.len \in Nat /\ reader'.len <= Len(disk')
        /\ reader'.whole => current'.whole /\ reader'.len = Len(disk')
    BY <1>2, <1>5, <1>9
  <2>5. reader'.mapped \in BOOLEAN /\ reader'.whole \in BOOLEAN
    BY <1>5, <1>6
  <2> QED
    BY <2>1, <2>2, <2>3, <2>4, <2>5 DEF ReaderInv
<1> QED
  BY <1>8, <1>11 DEF SessionInv

LEMMA CloseReadStep ==
  ASSUME SessionInv, CloseRead
  PROVE  SessionInv'
<1>1. disk' = disk /\ pending' = pending /\ session' = session /\ journal' = journal /\ current' = current
      /\ reader' = None
  BY DEF CloseRead, storageVars
<1> QED
  BY <1>1 DEF SessionInv, SessionsInv, FileInv, ReaderInv

sessionAll == <<storageVars, sessionVars>>

LEMMA SessionStep == SessionInv /\ [SessionNext]_sessionAll => SessionInv'
<1> SUFFICES ASSUME SessionInv, [SessionNext]_sessionAll PROVE SessionInv'
  OBVIOUS
<1>1. ASSUME NEW w \in Writers, OpenWrite(w) PROVE SessionInv'
  BY <1>1, OpenWriteStep
<1>2. ASSUME NEW w \in Writers, Close(w) PROVE SessionInv'
  BY <1>2, CloseStep
<1>3. ASSUME NEW w \in Writers, Closed(w) PROVE SessionInv'
  BY <1>3, ClosedStep
<1>4. ASSUME NEW w \in Writers, NEW n \in Names, NEW d \in Arrays, CreateDataset(w, n, d) PROVE SessionInv'
  BY <1>4, CreateDatasetStep
<1>5. ASSUME NEW w \in Writers, NEW n \in GroupNames, CreateGroup(w, n) PROVE SessionInv'
  BY <1>5, CreateGroupStep
<1>6. ASSUME NEW w \in Writers, NEW g \in DOMAIN session[w].groups, NEW n \in GroupNames, NEW d \in Arrays,
             CreateInGroup(w, g, n, d)
      PROVE  SessionInv'
  BY <1>6, CreateInGroupStep
<1>7. ASSUME NEW w \in Writers, NEW g \in 0 .. Len(session[w].groups), NEW n \in GroupNames,
             NEW v \in AttrInputs, SetAttr(w, g, n, v)
      PROVE  SessionInv'
  BY <1>7, SetAttrStep
<1>8. ASSUME WriteBlock PROVE SessionInv'
  BY <1>8, WriteBlockStep
<1>9. ASSUME Crash PROVE SessionInv'
  BY <1>9, CrashStep
<1>10. ASSUME NEW mapped \in BOOLEAN, OpenRead(mapped) PROVE SessionInv'
  BY <1>10, OpenReadStep
<1>11. ASSUME CloseRead PROVE SessionInv'
  BY <1>11, CloseReadStep
<1>12. ASSUME UNCHANGED sessionAll PROVE SessionInv'
  <2>1. disk' = disk /\ pending' = pending /\ session' = session /\ journal' = journal /\ current' = current
        /\ reader' = reader
    BY <1>12 DEF sessionAll, storageVars, sessionVars
  <2> QED
    BY <2>1 DEF SessionInv, SessionsInv, FileInv, ReaderInv
<1> QED
  BY <1>1, <1>2, <1>3, <1>4, <1>5, <1>6, <1>7, <1>8, <1>9, <1>10, <1>11, <1>12 DEF SessionNext

\* What a handle reads is part of an image that matches the calls, and the image itself
\* where the writing had ended.
LEMMA HandleReads ==
  ASSUME SessionInv, reader # None, ~reader.stale
  PROVE  \E s \in State : LoadedFrom(s, journal[reader.of], BytesOf(reader), reader.whole)
<1>1. FileInv /\ ReaderInv
  BY DEF SessionInv
<1>2. CASE ~reader.mapped
  BY <1>1, <1>2 DEF ReaderInv, BytesOf
<1>3. CASE reader.mapped
  <2>1. /\ current.of = reader.of /\ reader.len \in Nat /\ reader.len <= Len(disk)
        /\ reader.whole => current.whole /\ reader.len = Len(disk)
        /\ reader.of \in Writers
    BY <1>1, <1>3 DEF ReaderInv
  <2>2. current.of # None
    BY <2>1, SessionAssumption
  <2>3. PICK s \in State : OnFile(s, journal[current.of], disk, pending, current.whole)
    BY <2>2, <1>1 DEF FileInv
  <2>4. /\ PartOf(SubSeq(disk, 1, reader.len), s)
        /\ reader.len = Len(disk) => SubSeq(disk, 1, reader.len) = disk
    BY <2>1, <2>3, BeginningIsPart DEF OnFile
  <2>5. LoadedFrom(s, journal[reader.of], SubSeq(disk, 1, reader.len), reader.whole)
    BY <2>1, <2>3, <2>4 DEF OnFile, LoadedFrom
  <2> QED
    BY <2>5, <1>3 DEF BytesOf
<1> QED
  BY <1>2, <1>3

LEMMA WholeAnswers ==
  ASSUME SessionInv
  PROVE  ReopenedIsReplayed
<1>1. ASSUME current.whole PROVE Opens(disk)
  <2>1. current.of # None
    BY <1>1 DEF SessionInv, FileInv
  <2>2. PICK s \in State : OnFile(s, journal[current.of], disk, pending, current.whole)
    BY <2>1 DEF SessionInv, FileInv
  <2>3. disk = Image(s)
    BY <2>2, <1>1 DEF OnFile
  <2>4. Len(disk) # 0
    BY <2>3, ImageAt
  <2> QED
    BY <2>4 DEF Opens
<1>2. ASSUME reader # None, ~reader.stale, reader.whole
      PROVE  \E bytes \in {BytesOf(reader)}, calls \in {journal[reader.of]} :
               /\ \A p \in Paths :
                    /\ Answer(bytes, p) = Told(calls, p)
                    /\ HasKey(bytes, p) = (Told(calls, p) # Failure)
                    /\ Told(calls, p).kind = "array" => AsyncRead(bytes, p) = Told(calls, p)
               /\ \A p \in Paths, n \in GroupNames : Len(p) < 2 => Attribute(bytes, p, n) = ToldAttribute(calls, p, n)
  <2>1. PICK bytes, calls, whole : bytes = BytesOf(reader) /\ calls = journal[reader.of] /\ whole = reader.whole
    OBVIOUS
  <2>2. PICK s \in State : LoadedFrom(s, calls, bytes, whole)
    BY <2>1, <1>2, HandleReads
  <2>3. Matches(s, calls) /\ PartOf(bytes, s) /\ (whole => bytes = Image(s)) /\ whole
    BY <2>1, <2>2, <1>2 DEF LoadedFrom
  <2>4. /\ \A p \in Paths : /\ Gives(Answer(bytes, p), Told(calls, p), whole)
                            /\ AsyncRead(bytes, p) \in {Told(calls, p), Failure}
                            /\ whole /\ Told(calls, p).kind = "array" => AsyncRead(bytes, p) = Told(calls, p)
                            /\ whole => HasKey(bytes, p) = (Told(calls, p) # Failure)
        /\ \A p \in Paths, n \in GroupNames : Len(p) < 2 => Gives(Attribute(bytes, p, n), ToldAttribute(calls, p, n), whole)
    BY <2>3, AnswersAsTold
  <2>5. /\ \A p \in Paths :
             /\ Answer(bytes, p) = Told(calls, p)
             /\ HasKey(bytes, p) = (Told(calls, p) # Failure)
             /\ Told(calls, p).kind = "array" => AsyncRead(bytes, p) = Told(calls, p)
        /\ \A p \in Paths, n \in GroupNames : Len(p) < 2 => Attribute(bytes, p, n) = ToldAttribute(calls, p, n)
    BY <2>3, <2>4 DEF Gives
  <2> QED
    BY <2>1, <2>5
<1> QED
  BY <1>1, <1>2 DEF ReopenedIsReplayed

LEMMA PartAnswers ==
  ASSUME SessionInv
  PROVE  PartialIsNoticed
<1>1. ASSUME reader # None, ~reader.stale
      PROVE  \E bytes \in {BytesOf(reader)}, calls \in {journal[reader.of]} :
               /\ \A p \in Paths :
                    /\ Answer(bytes, p) \in {Told(calls, p), Failure}
                    /\ AsyncRead(bytes, p) \in {Told(calls, p), Failure}
               /\ \A p \in Paths, n \in GroupNames : Len(p) < 2 =>
                     Attribute(bytes, p, n) \in {ToldAttribute(calls, p, n), Failure}
  <2>1. PICK bytes, calls, whole : bytes = BytesOf(reader) /\ calls = journal[reader.of] /\ whole = reader.whole
    OBVIOUS
  <2>2. PICK s \in State : LoadedFrom(s, calls, bytes, whole)
    BY <2>1, <1>1, HandleReads
  <2>3. Matches(s, calls) /\ PartOf(bytes, s) /\ (whole => bytes = Image(s))
    BY <2>2 DEF LoadedFrom
  <2>4. /\ \A p \in Paths : /\ Gives(Answer(bytes, p), Told(calls, p), whole)
                            /\ AsyncRead(bytes, p) \in {Told(calls, p), Failure}
                            /\ whole /\ Told(calls, p).kind = "array" => AsyncRead(bytes, p) = Told(calls, p)
                            /\ whole => HasKey(bytes, p) = (Told(calls, p) # Failure)
        /\ \A p \in Paths, n \in GroupNames : Len(p) < 2 => Gives(Attribute(bytes, p, n), ToldAttribute(calls, p, n), whole)
    BY <2>3, AnswersAsTold
  <2>5. /\ \A p \in Paths :
             /\ Answer(bytes, p) \in {Told(calls, p), Failure}
             /\ AsyncRead(bytes, p) \in {Told(calls, p), Failure}
        /\ \A p \in Paths, n \in GroupNames : Len(p) < 2 =>
              Attribute(bytes, p, n) \in {ToldAttribute(calls, p, n), Failure}
    BY <2>4 DEF Gives
  <2> QED
    BY <2>1, <2>5
<1> QED
  BY <1>1 DEF PartialIsNoticed

\* The inductive invariant of SessionSpec: the state of an open session matches the calls
\* answered with Ok, the file is a beginning of the image of a state that matches those of
\* the session that wrote it, and what a handle has read is part of such an image.
THEOREM SessionsMatch == SessionSpec => []SessionInv
<1>1. SessionInv /\ [SessionNext]_<<storageVars, sessionVars>> => SessionInv'
  BY SessionStep DEF sessionAll
<1> QED
  BY <1>1, SessionInit, PTL DEF SessionSpec

\* A file written to its end opens, and answers every path, key and attribute with what the
\* calls of the session that wrote it come to: for any number of sessions and calls, any
\* names, arrays and values, and whatever handles are opened and closed in between.
THEOREM SessionsReplayed == SessionSpec => []ReopenedIsReplayed
<1>1. SessionInv => ReopenedIsReplayed
  BY WholeAnswers
<1> QED
  BY <1>1, SessionsMatch, PTL

\* A file whose writing is under way or was cut answers with what was to be written or with
\* an error, wherever the writing stopped.
THEOREM CutIsNoticed == SessionSpec => []PartialIsNoticed
<1>1. SessionInv => PartialIsNoticed
  BY PartAnswers
<1> QED
  BY <1>1, SessionsMatch, PTL
=============================================================================
