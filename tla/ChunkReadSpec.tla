---------------------------- MODULE ChunkReadSpec ----------------------------
(***************************************************************************)
(* What decompressing the chunks of a dataset promises, in parallel or not *)
(* (decompress_all_chunks): the contents of all chunks in the order of the *)
(* chunks, or the error of one that has one.                               *)
(***************************************************************************)
EXTENDS Sequences

CONSTANTS
  Content(_, _), \* what a stored chunk of a dataset decompresses to, or Error
  Error,
  NoAnswer

VARIABLES
  dataset,
  stored,        \* the chunks as they are in the file
  answer

specVars == <<dataset, stored, answer>>

Failing == {k \in DOMAIN stored : Content(dataset, stored[k]) = Error}

Init == answer = NoAnswer

Answer ==
  /\ answer = NoAnswer
  /\ IF Failing = {} THEN answer' = [k \in DOMAIN stored |-> Content(dataset, stored[k])]
     ELSE answer' \in {<<Error, k>> : k \in Failing}
  /\ UNCHANGED <<dataset, stored>>

\* The file is damaged before it is read.
Damage == answer = NoAnswer /\ UNCHANGED <<dataset, answer>>

Forget == answer' = NoAnswer /\ UNCHANGED <<dataset, stored>>

Spec == Init /\ [][Answer \/ Damage \/ Forget]_specVars
===============================================================================
