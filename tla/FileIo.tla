------------------------------- MODULE FileIo -------------------------------
(***************************************************************************)
(* The readers and writers of rustyhdf5-io.  Three programs:               *)
(*  - FileWriter rewrites a file while another process reads it into       *)
(*    memory by one of the ways there are, block by block (lib.rs,          *)
(*    async_read.rs);                                                       *)
(*  - MmapReadWrite changes a file in place (mmap.rs);                      *)
(*  - PrefetchReader reads chunks of a file that stays, through its ring    *)
(*    of chunks read ahead or preloaded (prefetch.rs).                      *)
(***************************************************************************)
EXTENDS Storage, SequencesExt, FiniteSetsExt

CONSTANTS Images,      \* what is given to FileWriter
          Fixed,       \* the file PrefetchReader is over
          ChunkSizes, PrefetchCounts,
          MappedSizes, \* sizes MmapReadWrite::create is given
          MaxWrites,   \* bound: calls of FileWriter and of MmapReadWrite
          MaxPreload   \* bound: ranges of one preload_ranges call

VARIABLES writer,      \* FileWriter: its bytes, the last result, all it ever began
          slurp,       \* the reader under way or done, or None
          mapping,     \* MmapReadWrite: opened with which bytes, calls made
          ring         \* PrefetchReader and its last answer, or None

ioVars == <<writer, slurp, mapping, ring>>

(* A byte is a number.  RingBuffer::insert panics on a ring of no entries. *)
ASSUME IoAssumption ==
    /\ None \notin Seq(Nat) /\ None # "ok"
    /\ Images \subseteq Seq(Nat) /\ Fixed \in Seq(Nat)
    /\ ChunkSizes \subseteq Nat /\ PrefetchCounts \subseteq Nat \ {0}
    /\ MappedSizes \subseteq Nat

-----------------------------------------------------------------------------
(* FileWriter and the readers that load a file                             *)

(* File::create of flush_to_disk, for write_all_bytes or to try again.     *)
Flush(data) ==
    /\ CreateTruncate(data)
    /\ writer' = [data |-> data, result |-> None, begun |-> writer.begun \cup {data},
                   calls |-> writer.calls + 1]
    /\ slurp' = IF slurp = None THEN None ELSE [slurp EXCEPT !.torn = TRUE]

WriteAllBytes(image) ==
    /\ writer # None /\ writer.calls < MaxWrites
    /\ Flush(image)
    /\ UNCHANGED <<mapping, ring>>

FlushToDisk ==
    /\ writer # None /\ 0 < writer.calls /\ writer.calls < MaxWrites
    /\ Flush(writer.data)
    /\ UNCHANGED <<mapping, ring>>

FlushBlock ==
    /\ writer # None
    /\ AppendBlock
    /\ slurp' = IF slurp = None THEN None ELSE [slurp EXCEPT !.grown = TRUE]
    /\ UNCHANGED <<writer, mapping, ring>>

FlushReturns ==
    /\ writer # None
    /\ \/ WriteReturns /\ writer' = [writer EXCEPT !.result = "ok"]
       \/ WriteFails /\ writer' = [writer EXCEPT !.result = "error"]
    /\ UNCHANGED <<slurp, mapping, ring>>

(* How a reader loads: "exact" asks for the length and then for just as    *)
(* many bytes (FileReader); "end" reads until there is no more (fs::read,  *)
(* AsyncFileReader::open); "async" is read_all, which asks for the length, *)
(* opens the file again, asks again and takes the smaller of the two.      *)
Ways == {"exact", "end", "async"}

StartSlurp(way) ==
    /\ writer # None /\ slurp = None /\ disk # None
    /\ slurp' = [way |-> way, len |-> Len(disk), got |-> <<>>,
                 phase |-> IF way = "async" THEN "again" ELSE "read",
                 torn |-> FALSE, grown |-> ~Quiet, result |-> writer.result]
    /\ UNCHANGED <<storageVars, writer, mapping, ring>>

(* AsyncFileReader::read_at at offset 0: an empty file is an empty answer. *)
AskAgain ==
    /\ slurp # None /\ slurp.phase = "again"
    /\ slurp' = [slurp EXCEPT !.len = Min({@, Len(disk)}), !.phase = "read"]
    /\ UNCHANGED <<storageVars, writer, mapping, ring>>

(* One call of read() and no look at how much it returned: the rest of the *)
(* buffer keeps its zeros.                                                 *)
AtTheEndZeros(s) ==
    [s EXCEPT !.phase = "done",
              !.got = @ \o [i \in 1..(IF s.way = "end" \/ Len(@) > s.len
                                       THEN 0 ELSE s.len - Len(@)) |-> 0]]

(* What a read call that finds nothing more means: read_exact fails unless *)
(* it has all it wants.                                                    *)
AtTheEnd(s) ==
    IF s.way = "end" \/ Len(s.got) = s.len
    THEN [s EXCEPT !.phase = "done"] ELSE [s EXCEPT !.phase = "error"]

Wants(s) == s.way = "end" \/ Len(s.got) < s.len

SlurpBlock ==
    /\ slurp # None /\ slurp.phase = "read"
    /\ slurp' = IF Wants(slurp) /\ Len(slurp.got) < Len(disk)
                THEN [slurp EXCEPT !.got = Append(@, disk[Len(@) + 1])]
                ELSE AtTheEnd(slurp)
    /\ UNCHANGED <<storageVars, writer, mapping, ring>>

DropSlurp ==
    /\ slurp # None /\ slurp.phase \in {"done", "error"}
    /\ slurp' = None
    /\ UNCHANGED <<storageVars, writer, mapping, ring>>

-----------------------------------------------------------------------------
(* MmapReadWrite                                                           *)

Zeros(n) == [i \in 1..n |-> 0]

(* create: truncated, and set to its size, which fills it with zeros.      *)
CreateMapped(n) ==
    /\ mapping # None /\ ~mapping.open
    /\ disk' = Zeros(n)
    /\ mapping' = [open |-> TRUE, initial |-> Zeros(n), log |-> <<>>]
    /\ UNCHANGED <<pending, writer, slurp, ring>>

OpenMapped ==
    /\ mapping # None /\ ~mapping.open /\ disk # None
    /\ mapping' = [open |-> TRUE, initial |-> disk, log |-> <<>>]
    /\ UNCHANGED <<storageVars, writer, slurp, ring>>

DropMapped ==
    /\ mapping # None /\ mapping.open
    /\ mapping' = [mapping EXCEPT !.open = FALSE]
    /\ UNCHANGED <<storageVars, writer, slurp, ring>>

(* The last byte left out.                                                 *)
FitsWithoutEnd(offset, data) == offset + Len(data) < Len(disk)

(* end > len is refused.                                                   *)
Fits(offset, data) == offset + Len(data) <= Len(disk)

Overwrite(bytes, offset, data) ==
    [i \in DOMAIN bytes |->
        IF i - offset \in DOMAIN data THEN data[i - offset] ELSE bytes[i]]

(* write_at, a refused one too.                                            *)
WriteAt(offset, data) ==
    /\ mapping # None /\ mapping.open /\ Len(mapping.log) < MaxWrites
    /\ disk' = IF Fits(offset, data) THEN Overwrite(disk, offset, data) ELSE disk
    /\ mapping' = [mapping EXCEPT !.log =
                     Append(@, [at |-> offset, data |-> data, all |-> FALSE])]
    /\ UNCHANGED <<pending, writer, slurp, ring>>

(* write_all_bytes: data of another length is refused.                     *)
WriteAllMapped(data) ==
    /\ mapping # None /\ mapping.open /\ Len(mapping.log) < MaxWrites
    /\ LET fits == Len(data) = Len(disk)
       IN /\ disk' = IF fits THEN data ELSE disk
          /\ mapping' = [mapping EXCEPT !.log =
                           Append(@, [at |-> 0, data |-> data, all |-> TRUE])]
    /\ UNCHANGED <<pending, writer, slurp, ring>>

-----------------------------------------------------------------------------
(* RingBuffer and PrefetchReader; offsets count from 0                     *)

NewReader(chunk, count) ==
    [entries |-> [i \in 1..count |-> None], next |-> 1,
     chunk |-> chunk, last |-> None]

Least(a, b) == IF a < b THEN a ELSE b

(* How much of a range the file has.                                       *)
Within(offset, size) == Least(size, IF Len(Fixed) > offset THEN Len(Fixed) - offset ELSE 0)

Slice(offset, len) == SubSeq(Fixed, offset + 1, offset + len)

(* The first entry at the offset, however long it is.                      *)
RingGetAny(r, offset, len) ==
    LET hits == {i \in DOMAIN r.entries :
                   /\ r.entries[i] # None
                   /\ r.entries[i].offset = offset}
    IN IF hits = {} THEN None ELSE r.entries[Min(hits)].data

(* RingBuffer::get: the first entry at the offset that is long enough.     *)
RingGet(r, offset, len) ==
    LET hits == {i \in DOMAIN r.entries :
                   /\ r.entries[i] # None
                   /\ r.entries[i].offset = offset
                   /\ Len(r.entries[i].data) >= len}
    IN IF hits = {} THEN None ELSE SubSeq(r.entries[Min(hits)].data, 1, len)

RingInsert(r, offset, data) ==
    [r EXCEPT !.entries[r.next] = [offset |-> offset, data |-> data],
              !.next = (@ % Len(r.entries)) + 1]

RingClear(r) ==
    [r EXCEPT !.entries = [i \in DOMAIN @ |-> None], !.next = 1]

(* A range that lies behind the end is left out.                           *)
Loaded(r, g) ==
    LET n == Within(g.offset, g.size)
    IN IF n = 0 THEN r ELSE RingInsert(r, g.offset, Slice(g.offset, n))

Load(r, ranges) ==
    LET upTo[n \in 0..Len(ranges)] ==
            IF n = 0 THEN r ELSE Loaded(upTo[n - 1], ranges[n])
    IN upTo[Len(ranges)]

(* prefetch_ahead; once a range lies behind the end, so do all later ones. *)
PrefetchAhead(r, offset) ==
    Load(RingClear(r),
         [i \in DOMAIN r.entries |-> [offset |-> offset + i * r.chunk, size |-> r.chunk]])

(* read_chunk: nothing at or behind the end of the file.                   *)
ReadChunk(offset) ==
    /\ ring # None
    /\ LET r == ring.reader
           len == Within(offset, r.chunk)
           cached == RingGet(r, offset, len)
           sequential == IF r.last = None THEN FALSE ELSE offset = r.last + r.chunk
       IN ring' =
            IF len = 0 THEN [ring EXCEPT !.at = offset, !.answer = None]
            ELSE IF cached # None
            THEN [at |-> offset, answer |-> cached, reader |-> [r EXCEPT !.last = offset]]
            ELSE [at |-> offset, answer |-> Slice(offset, len),
                  reader |-> [(IF sequential THEN PrefetchAhead(r, offset) ELSE r)
                                EXCEPT !.last = offset]]
    /\ UNCHANGED <<storageVars, writer, slurp, mapping>>

PreloadRanges(ranges) ==
    /\ ring # None
    /\ ring' = [ring EXCEPT !.reader = Load(@, ranges)]
    /\ UNCHANGED <<storageVars, writer, slurp, mapping>>

-----------------------------------------------------------------------------
IoIdle == writer = None /\ slurp = None /\ mapping = None /\ ring = None

IoInit ==
    /\ StorageInit
    /\ \/ /\ writer = [data |-> <<>>, result |-> None, begun |-> {}, calls |-> 0]
          /\ slurp = None /\ mapping = None /\ ring = None
       \/ /\ mapping = [open |-> FALSE, initial |-> <<>>, log |-> <<>>]
          /\ writer = None /\ slurp = None /\ ring = None
       \/ /\ \E c \in ChunkSizes, n \in PrefetchCounts :
               ring = [reader |-> NewReader(c, n), at |-> 0, answer |-> None]
          /\ writer = None /\ slurp = None /\ mapping = None

Patches == {<<7>>, <<8, 9>>}
Ranges == [offset : 0..Len(Fixed), size : 0..Len(Fixed)]

IoNext ==
    \/ \E image \in Images : WriteAllBytes(image)
    \/ FlushToDisk \/ FlushBlock \/ FlushReturns
    \/ \E way \in Ways : StartSlurp(way)
    \/ AskAgain \/ SlurpBlock \/ DropSlurp
    \/ \E n \in MappedSizes : CreateMapped(n)
    \/ OpenMapped \/ DropMapped
    \/ \E offset \in 0..3, data \in Patches : WriteAt(offset, data)
    \/ \E image \in Images : WriteAllMapped(image)
    \/ \E offset \in 0..(Len(Fixed) + 1) : ReadChunk(offset)
    \/ \E n \in 1..MaxPreload : \E ranges \in [1..n -> Ranges] : PreloadRanges(ranges)

IoSpec == IoInit /\ [][IoNext]_<<storageVars, ioVars>>

-----------------------------------------------------------------------------
(* A reader that finished holds, in every place, what was written there at *)
(* some time; a beginning of what was being written, unless the file was   *)
(* begun anew meanwhile; and all of it when nothing was written meanwhile  *)
(* and the last flush returned Ok.                                         *)
SnapshotsAreWritten ==
    (slurp # None /\ slurp.phase = "done") =>
        /\ \A i \in DOMAIN slurp.got :
             \E image \in writer.begun : i \in DOMAIN image /\ slurp.got[i] = image[i]
        /\ ~slurp.torn => IsPrefix(slurp.got, writer.data)
        /\ (~slurp.torn /\ ~slurp.grown /\ slurp.result = "ok") =>
             slurp.got = writer.data

(* A mapped file holds, at every place, what the last write that reached   *)
(* it put there, and refused writes are those that would not fit.          *)
MappedIsReplayed ==
    (mapping # None /\ mapping.open) =>
        /\ Len(disk) = Len(mapping.initial)
        /\ \A i \in DOMAIN disk :
             LET until(w) == w.at + Len(w.data)
                 hits == {k \in DOMAIN mapping.log :
                            LET w == mapping.log[k]
                            IN /\ IF w.all THEN until(w) = Len(disk)
                                  ELSE until(w) <= Len(disk)
                               /\ w.at < i /\ i <= until(w)}
             IN disk[i] = IF hits = {} THEN mapping.initial[i]
                          ELSE mapping.log[Max(hits)].data[i - mapping.log[Max(hits)].at]

(* A PrefetchReader answers with what the file holds at the offset, or     *)
(* nothing behind the end, whatever was read ahead or preloaded.           *)
RingServesFile ==
    ring # None /\ ring.answer # None =>
        ring.answer = SubSeq(Fixed, ring.at + 1, Least(ring.at + ring.reader.chunk, Len(Fixed)))
=============================================================================
