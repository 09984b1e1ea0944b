---------------------------- MODULE ObjectHeader ----------------------------
(***************************************************************************)
(* ObjectHeader::parse of object_header.rs: the messages of an object are   *)
(* spread over blocks, and a continuation message in one block names        *)
(* another.  Version 1 reads the other block at once, by recursion, and     *)
(* then goes on behind the message; version 2 puts it on a stack and first  *)
(* ends its own block.  Both are one sequence of frames here, whose last is *)
(* the block being read.                                                    *)
(*                                                                          *)
(* A file is what lies at its addresses: File.at[a] is a structure with a   *)
(* kind (its signature) and its contents.  The structure at `lost`, if any, *)
(* is cut off, or fails its signature or checksum.                          *)
(***************************************************************************)
EXTENDS Naturals, Sequences, FiniteSets, SequencesExt

CONSTANTS File,              \* the file to read
          Damages,           \* bound: the structures one of which may be damaged
          None,              \* the address of nothing
          MaxV1Depth,        \* 33: nested blocks of a version 1 header, the first included
          MaxContinuations   \* 256: blocks a version 2 header may continue in

ASSUME LimitsAssumption == MaxV1Depth \in Nat \ {0} /\ MaxContinuations \in Nat
ASSUME DamagesAssumption == Damages \subseteq DOMAIN File.at /\ None \notin DOMAIN File.at

VARIABLES lost,       \* the address of what is damaged, or None
          version,    \* of the header being read
          frames,     \* its blocks begun or waiting: address, next message (0: not opened)
          followed,   \* version 2: continuations opened so far
          messages,   \* what was kept of it so far
          parse       \* "idle", "parsing", "parsed", or the error it ended with

headerVars == <<version, frames, followed, messages, parse>>

Address == DOMAIN File.at
Errors == {"damaged", "too deep", "unsupported"}

\* ensure_len, the signature and, where there is one, the checksum of a structure.
Readable(a, kind) == a \in Address /\ a # lost /\ File.at[a].kind = kind

\* By version: no signature, OHDR; no signature, OCHK.
HeaderKind == <<"header", "OHDR">>
BlockKind == <<"block", "OCHK">>

HeaderInit == /\ lost \in Damages \cup {None}
              /\ version = 1 /\ frames = << >> /\ followed = 0 /\ messages = << >> /\ parse = "idle"

Fails(error) == /\ parse' = error
                /\ UNCHANGED <<version, frames, followed, messages>>

Frame(a, n) == [block |-> a, next |-> n]

\* ObjectHeader::parse up to the first message.
OpenHeader(a) ==
  \/ \E v \in 1..2 : /\ Readable(a, HeaderKind[v])
                     /\ version' = v
                     /\ frames' = <<Frame(a, 1)>> /\ followed' = 0 /\ messages' = << >>
                     /\ parse' = "parsing"
  \/ /\ \A v \in 1..2 : ~Readable(a, HeaderKind[v])
     /\ Fails("damaged")

Top == Last(frames)
Block == File.at[Top.block].msgs
\* Behind the last message, or at one whose size reaches beyond the block.
AtEnd == Top.next <= Len(Block) => Block[Top.next].type = "Cut"
Message == Block[Top.next]
Reading == parse = "parsing" /\ Top.next # 0
Advanced == [frames EXCEPT ![Len(frames)].next = @ + 1]

\* Fault: the position is not advanced over a message that is skipped.
SkipInPlace == /\ Reading /\ ~AtEnd
               /\ Message.type = "Nil"
               /\ UNCHANGED headerVars

Skip == /\ Reading /\ ~AtEnd
        /\ Message.type = "Nil"
        /\ frames' = Advanced
        /\ UNCHANGED <<version, followed, messages, parse>>

Refuse == /\ Reading /\ ~AtEnd
          /\ Message.type = "Unknown" /\ Message.mustUnderstand
          /\ Fails("unsupported")

IsKept(m) == /\ m.type \notin {"Nil", "Continuation"}
             /\ ~(m.type = "Unknown" /\ m.mustUnderstand)

Keep == /\ Reading /\ ~AtEnd
        /\ IsKept(Message)
        /\ messages' = Append(messages, Message)
        /\ frames' = Advanced
        /\ UNCHANGED <<version, followed, parse>>

\* A continuation message too short to name a block is passed over.  Version 1
\* keeps the message itself and reads the block at once ...
ContinueV1 == /\ Reading /\ ~AtEnd
              /\ version = 1 /\ Message.type = "Continuation"
              /\ \/ /\ \/ Message.to = None /\ frames' = Advanced
                       \/ /\ Message.to # None /\ Len(frames) < MaxV1Depth
                          /\ Readable(Message.to, BlockKind[1])
                          /\ frames' = Append(Advanced, Frame(Message.to, 1))
                    /\ messages' = Append(messages, Message)
                    /\ UNCHANGED <<version, followed, parse>>
                 \/ Message.to # None /\ Len(frames) >= MaxV1Depth /\ Fails("too deep")
                 \/ /\ Message.to # None /\ Len(frames) < MaxV1Depth
                    /\ ~Readable(Message.to, BlockKind[1])
                    /\ Fails("damaged")

\* ... and version 2 puts the block on the stack, to be read next.
ContinueV2 == /\ Reading /\ ~AtEnd
              /\ version = 2 /\ Message.type = "Continuation"
              /\ frames' = IF Message.to = None THEN Advanced
                           ELSE InsertAt(Advanced, Len(frames), Frame(Message.to, 0))
              /\ UNCHANGED <<version, followed, messages, parse>>

\* Fault: the last continuation allowed is refused.
OpenContinuationEarly == /\ parse = "parsing" /\ Top.next = 0
                         /\ \/ followed + 1 >= MaxContinuations /\ Fails("too deep")
                            \/ /\ followed + 1 < MaxContinuations /\ ~Readable(Top.block, BlockKind[2])
                               /\ Fails("damaged")
                            \/ /\ followed + 1 < MaxContinuations /\ Readable(Top.block, BlockKind[2])
                               /\ followed' = followed + 1 /\ frames' = Advanced
                               /\ UNCHANGED <<version, messages, parse>>

\* parse_v2_continuation up to its first message.
OpenContinuation ==
  /\ parse = "parsing" /\ Top.next = 0
  /\ \/ /\ followed = MaxContinuations
        /\ Fails("too deep")
     \/ /\ followed < MaxContinuations /\ ~Readable(Top.block, BlockKind[2])
        /\ Fails("damaged")
     \/ /\ followed < MaxContinuations /\ Readable(Top.block, BlockKind[2])
        /\ followed' = followed + 1
        /\ frames' = Advanced
        /\ UNCHANGED <<version, messages, parse>>

EndBlock == /\ Reading /\ AtEnd
            /\ frames' = Front(frames)
            /\ parse' = IF Len(frames) = 1 THEN "parsed" ELSE parse
            /\ UNCHANGED <<version, followed, messages>>

ParseStep == Skip \/ Refuse \/ Keep \/ ContinueV1 \/ ContinueV2 \/ OpenContinuation \/ EndBlock

-----------------------------------------------------------------------------
\* What a block says: its messages up to its end.
Msgs(b) == File.at[b].msgs
Used(b) == {i \in DOMAIN Msgs(b) : \A j \in 1 .. i : Msgs(b)[j].type # "Cut"}

\* The messages a block contributes, and the blocks it continues in.
Contents(b) == {Msgs(b)[i] : i \in {j \in Used(b) : IsKept(Msgs(b)[j])}}
IsNamed(m, c) == m.type = "Continuation" /\ m.to = c /\ c # None
Onward(b) == {Msgs(b)[i].to : i \in {j \in Used(b) : IsNamed(Msgs(b)[j], Msgs(b)[j].to)}}

\* A header read is every message of every block of the object, each once.
\* File.blocks[a] are the blocks that make up the header at a.
Whole == [a \in DOMAIN File.blocks |-> UNION {Contents(b) : b \in File.blocks[a]}]
IsWhole(a, ms) == LET own == {i \in DOMAIN ms : ms[i].type # "Continuation"}
                  IN  /\ {ms[i] : i \in own} = Whole[a]
                      /\ \A i, j \in own : ms[i] = ms[j] => i = j

-----------------------------------------------------------------------------
\* No message of a header is there twice, and no block is continued in twice.
Repeats(m, n) == \/ IsKept(m) /\ m = n
                 \/ IsNamed(m, m.to) /\ IsNamed(n, m.to)
IsSimple(a) == /\ \A b \in File.blocks[a] : a \notin Onward(b)
               /\ \A b, c \in File.blocks[a] : \A i \in Used(b), j \in Used(c) :
                    Repeats(Msgs(b)[i], Msgs(c)[j]) => b = c /\ i = j

\* What makes a header one that is refused: a message that must be understood, or
\* more continuations, one in another, or of one header of version 2, than the limit.
MustUnderstand(a) == \E b \in File.blocks[a] : \E i \in Used(b) :
                       Msgs(b)[i].type = "Unknown" /\ Msgs(b)[i].mustUnderstand
Limit(a) == IF File.at[a].kind = HeaderKind[1] THEN MaxV1Depth - 1 ELSE MaxContinuations
IsTooDeep(a) ==
  \/ \E chain \in [0 .. Limit(a) + 1 -> File.blocks[a]] :
       chain[0] = a /\ \A d \in 0 .. Limit(a) : chain[d + 1] \in Onward(chain[d])
  \/ File.at[a].kind = HeaderKind[2] /\ Cardinality(File.blocks[a]) > MaxContinuations + 1

\* What is said of the headers of a file agrees with the structures in it: their
\* blocks are those reached from the first one, each once, unless the header is refused.
ASSUME HeadersAssumption ==
  \A a \in DOMAIN File.blocks :
    /\ a \in File.blocks[a] /\ File.blocks[a] \subseteq Address /\ IsFiniteSet(File.blocks[a])
    /\ \A b \in File.blocks[a] : Msgs(b) \in Seq(Range(Msgs(b))) /\ Onward(b) \subseteq File.blocks[a]
    /\ \A D \in SUBSET File.blocks[a] : a \in D /\ (\A b \in D : Onward(b) \subseteq D) => D = File.blocks[a]
    /\ IF a \notin DOMAIN File.refused THEN IsSimple(a)
       ELSE \/ File.refused[a] = "unsupported" /\ MustUnderstand(a)
            \/ File.refused[a] = "too deep" /\ IsTooDeep(a)
=============================================================================
