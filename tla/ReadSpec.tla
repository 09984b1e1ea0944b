------------------------------- MODULE ReadSpec -------------------------------
(***************************************************************************)
(* What reading a dataset promises its caller (Dataset::read_raw and the   *)
(* read functions of chunked_read.rs): the answer to a read depends on the *)
(* dataset alone, whoever else reads, and whatever is cached.  Once the    *)
(* cache was cleared, a read may also come back blank, but never mixed.    *)
(***************************************************************************)
CONSTANTS
  Threads,    \* callers
  Datasets,
  Answer,     \* Answer[d]: the bytes of d, or the error its file bytes cause
  Blank,      \* Blank[d]: as many zeros
  NoAnswer    \* before the first read returns

VARIABLES
  asked,      \* asked[t]: the dataset of t's last read
  busy,       \* the threads with a read in progress
  answer,     \* answer[t]: what t's last read returned
  cleared     \* the cache was cleared

readVars == <<asked, busy, answer, cleared>>

Init ==
  /\ asked \in [Threads -> Datasets]
  /\ busy = {}
  /\ answer = [t \in Threads |-> NoAnswer]
  /\ cleared = FALSE

Ask(t, d) ==
  /\ t \notin busy
  /\ busy' = busy \cup {t}
  /\ asked' = [asked EXCEPT ![t] = d]
  /\ answer' = [answer EXCEPT ![t] = NoAnswer]
  /\ UNCHANGED cleared

Reply(t) ==
  /\ t \in busy
  /\ busy' = busy \ {t}
  /\ \E reply \in {Answer[asked[t]]} \cup (IF cleared THEN {Blank[asked[t]]} ELSE {}) :
       answer' = [answer EXCEPT ![t] = reply]
  /\ UNCHANGED <<asked, cleared>>

Clear == cleared' = TRUE /\ UNCHANGED <<asked, busy, answer>>

Next ==
  \/ \E t \in Threads : Reply(t) \/ \E d \in Datasets : Ask(t, d)
  \/ Clear

Spec == Init /\ [][Next]_readVars
===============================================================================
