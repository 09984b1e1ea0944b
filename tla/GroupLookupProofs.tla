-------------------------- MODULE GroupLookupProofs --------------------------
(***************************************************************************)
(* The cache of headers is right in every file: what a handle's header is   *)
(* read as is kept under its own address, and is every message of every     *)
(* block of that object, each once, however the header is continued.        *)
(*                                                                          *)
(* File.blocks says which blocks make up a header.  A parser has no such    *)
(* set, only frames; so the proof follows which blocks it knows, which it   *)
(* has begun and which messages it has dealt with (a "story").  When no     *)
(* frame is left, the blocks begun are closed under continuation and hold   *)
(* the first one: they are all.                                             *)
(***************************************************************************)
EXTENDS Attributes, Induction, SequenceTheorems

Blocks(a) == File.blocks[a]
FrameSet(a) == [block : Blocks(a), next : Nat]
MessagesOf(a) == UNION {Range(Msgs(b)) : b \in Blocks(a)}

(* What has happened to a header so far, as far as the frames fr do not tell: *)
(* known are the blocks begun or named, opened those begun, passed the places *)
(* of the messages dealt with.                                              *)

\* Every message dealt with has left its mark.
Told(a, K, P, ms) ==
  \A b \in Blocks(a) : \A i \in Used(b) : <<b, i>> \in P =>
     /\ ~(Msgs(b)[i].type = "Unknown" /\ Msgs(b)[i].mustUnderstand)
     /\ IsNamed(Msgs(b)[i], Msgs(b)[i].to) => Msgs(b)[i].to \in K
     /\ IsKept(Msgs(b)[i]) => \E j \in DOMAIN ms : ms[j] = Msgs(b)[i]

\* Every message not dealt with is still to come in a frame.
Pending(K, O, P, fr) ==
  /\ \A b \in K : \A i \in Used(b) :
       <<b, i>> \in P \/ \E k \in DOMAIN fr : fr[k].block = b /\ fr[k].next <= i
  /\ \A b \in K \ O : \E k \in DOMAIN fr : fr[k].block = b /\ fr[k].next = 0

\* What was kept is what was dealt with.
Sourced(a, P, ms) ==
  \A j \in DOMAIN ms : \/ ms[j].type = "Continuation"
                       \/ \E b \in Blocks(a) : \E i \in Used(b) :
                            <<b, i>> \in P /\ ms[j] = Msgs(b)[i] /\ IsKept(Msgs(b)[i])

\* In a header without repetitions nothing is dealt with twice.
Once(a, K, P, fr, ms) ==
  IsSimple(a) =>
    /\ \A k, l \in DOMAIN fr : fr[k].block = fr[l].block => k = l
    /\ \A k \in DOMAIN fr : \A i \in Nat : fr[k].next <= i => <<fr[k].block, i>> \notin P
    /\ \A c \in K \ {a} : \E b \in Blocks(a) : \E i \in Used(b) : <<b, i>> \in P /\ IsNamed(Msgs(b)[i], c)
    /\ \A j, l \in DOMAIN ms : ms[j].type # "Continuation" /\ ms[j] = ms[l] => j = l

Story(gone, a, K, O, P, fr, v, fo, ms) ==
  /\ K \in SUBSET Blocks(a) /\ O \in SUBSET K /\ P \in SUBSET (K \X Nat) /\ a \in K
  /\ \A k \in DOMAIN fr : fr[k].block \in K /\ (fr[k].next # 0 => fr[k].block \in O)
  /\ gone \notin O
  /\ Told(a, K, P, ms) /\ Pending(K, O, P, fr) /\ Sourced(a, P, ms) /\ Once(a, K, P, fr, ms)
  /\ v = 2 => Cardinality(O) <= fo + 1

\* On a chain of continuations, a frame has the next one of them still before it.
Depth(v, fo, k) == IF v = 1 THEN k - 1 ELSE fo
Pursued(a, chain, fr, v, fo) ==
  \E k \in DOMAIN fr : \E d \in 0 .. Limit(a) + 1 :
    /\ fr[k].block = chain[d]
    /\ \/ fr[k].next = 0 /\ v = 2 /\ fo + 1 >= d
       \/ /\ fr[k].next # 0 /\ d <= Limit(a) /\ Depth(v, fo, k) >= d
          /\ \E i \in Used(chain[d]) : fr[k].next <= i /\ IsNamed(Msgs(chain[d])[i], chain[d + 1])
IsChain(a, chain) == /\ chain \in [0 .. Limit(a) + 1 -> Blocks(a)] /\ chain[0] = a
                     /\ \A d \in 0 .. Limit(a) : chain[d + 1] \in Onward(chain[d])

-----------------------------------------------------------------------------
\* What is known of the header of an object.
LEMMA HeaderFacts ==
  ASSUME NEW a \in DOMAIN File.blocks
  PROVE  /\ a \in Blocks(a) /\ Blocks(a) \subseteq Address /\ IsFiniteSet(Blocks(a))
         /\ \A b \in Blocks(a) : Msgs(b) \in Seq(Range(Msgs(b))) /\ Onward(b) \subseteq Blocks(a)
         /\ \A b \in Blocks(a) : Used(b) \subseteq 1 .. Len(Msgs(b))
         /\ \A D \in SUBSET Blocks(a) : a \in D /\ (\A b \in D : Onward(b) \subseteq D) => D = Blocks(a)
         /\ a \notin DOMAIN File.refused => IsSimple(a)
         /\ a \in DOMAIN File.refused => MustUnderstand(a) \/ IsTooDeep(a)
<1>1. \A b \in Blocks(a) : Msgs(b) \in Seq(Range(Msgs(b))) => Used(b) \subseteq 1 .. Len(Msgs(b))
  <2> SUFFICES ASSUME NEW b \in Blocks(a), Msgs(b) \in Seq(Range(Msgs(b))) PROVE Used(b) \subseteq 1 .. Len(Msgs(b))
    OBVIOUS
  <2>1. DOMAIN Msgs(b) = 1 .. Len(Msgs(b))
    OBVIOUS
  <2> QED
    BY <2>1, Zenon DEF Used
<1>2. /\ a \in Blocks(a) /\ Blocks(a) \subseteq Address /\ IsFiniteSet(Blocks(a))
      /\ \A b \in Blocks(a) : Msgs(b) \in Seq(Range(Msgs(b))) /\ Onward(b) \subseteq Blocks(a)
      /\ \A D \in SUBSET Blocks(a) : a \in D /\ (\A b \in D : Onward(b) \subseteq D) => D = Blocks(a)
      /\ IF a \notin DOMAIN File.refused THEN IsSimple(a)
         ELSE \/ File.refused[a] = "unsupported" /\ MustUnderstand(a)
              \/ File.refused[a] = "too deep" /\ IsTooDeep(a)
  BY HeadersAssumption, Zenon DEF Blocks
<1> QED
  BY <1>1, <1>2, Zenon

\* A message named in a block is one the block goes on in.
LEMMA OnwardMember ==
  ASSUME NEW b, NEW i \in Used(b), NEW c, IsNamed(Msgs(b)[i], c)
  PROVE  c \in Onward(b) /\ c = Msgs(b)[i].to
<1>1. c = Msgs(b)[i].to
  BY Zenon DEF IsNamed
<1> QED
  BY <1>1, Zenon DEF Onward

\* Two messages of a header without repetitions are at one place, if one repeats the other.
LEMMA SimpleFact ==
  ASSUME NEW a, IsSimple(a), NEW b \in Blocks(a), NEW c \in Blocks(a), NEW i \in Used(b), NEW j \in Used(c),
         Repeats(Msgs(b)[i], Msgs(c)[j])
  PROVE  b = c /\ i = j
BY Zenon DEF IsSimple, Blocks

\* The last of N frames is at message m, the n-th of block t.
IsAt(a, fr, N, t, n, m) ==
  /\ N \in Nat \ {0} /\ DOMAIN fr = 1 .. N /\ \A k \in 1 .. N : fr[k] \in FrameSet(a)
  /\ t = fr[N].block /\ n = fr[N].next /\ n \in Used(t)
  /\ m = Msgs(t)[n] /\ ~(m.type = "Unknown" /\ m.mustUnderstand)

\* The frame goes on, at q, and if the message names a block c there is a frame for
\* it, at w, to be opened (x = 0) or open (x = 1).
GoesOn(gone, fr, v, N, t, n, m, new, q, w, W, c, x) ==
  /\ q \in Nat /\ w \in Nat /\ q >= N /\ w >= N /\ q # w /\ W \in SUBSET {w}
  /\ DOMAIN new = (1 .. N - 1) \cup {q} \cup W
  /\ \A k \in 1 .. N - 1 : new[k] = fr[k]
  /\ new[q] = Frame(t, n + 1)
  /\ x \in 0 .. 1 /\ (W # {} => new[w] = Frame(c, x))
  /\ W # {} => IsNamed(m, c)
  /\ IsNamed(m, m.to) => W # {}
  /\ W # {} /\ x = 1 => c # gone
  /\ v = 2 => x = 0
  /\ v = 1 => q = N /\ w = N + 1 /\ x = 1 /\ (W # {} => N < MaxV1Depth)

\* The message may be kept, and is if it must be.
IsKeeping(ms, M, m, kept, V) ==
  /\ M \in Nat /\ DOMAIN ms = 1 .. M
  /\ V \in SUBSET {M + 1} /\ DOMAIN kept = (1 .. M) \cup V
  /\ \A j \in 1 .. M : kept[j] = ms[j]
  /\ V # {} => kept[M + 1] = m
  /\ V # {} => IsKept(m) \/ m.type = "Continuation"
  /\ IsKept(m) => V # {}

\* Dealing with the message the last frame is at: it may be kept, and it may name
\* a block, for which a frame is put before or behind the advanced one.
LEMMA TakeMessage ==
  ASSUME NEW gone, NEW a \in DOMAIN File.blocks, NEW K, NEW O, NEW P, NEW fr, NEW v, NEW fo, NEW ms,
         Story(gone, a, K, O, P, fr, v, fo, ms),
         NEW N, NEW t, NEW n, NEW m, IsAt(a, fr, N, t, n, m),
         NEW new, NEW q, NEW w, NEW W, NEW c, NEW x, GoesOn(gone, fr, v, N, t, n, m, new, q, w, W, c, x),
         NEW M, NEW kept, NEW V, IsKeeping(ms, M, m, kept, V)
  PROVE  \E K2, O2, P2 : Story(gone, a, K2, O2, P2, new, v, fo, kept)
<1>0. SUFFICES
      ASSUME N \in Nat \ {0}, DOMAIN fr = 1 .. N, \A k \in 1 .. N : fr[k] \in FrameSet(a),
             t = fr[N].block, n = fr[N].next, n \in Used(t),
             m = Msgs(t)[n], ~(m.type = "Unknown" /\ m.mustUnderstand),
             q \in Nat, w \in Nat, q >= N, w >= N, q # w, W \in SUBSET {w},
             DOMAIN new = (1 .. N - 1) \cup {q} \cup W,
             \A k \in 1 .. N - 1 : new[k] = fr[k],
             new[q] = Frame(t, n + 1), x \in 0 .. 1, W # {} => new[w] = Frame(c, x),
             W # {} => IsNamed(m, c), IsNamed(m, m.to) => W # {},
             W # {} /\ x = 1 => c # gone, v = 2 => x = 0,
             M \in Nat, DOMAIN ms = 1 .. M, V \in SUBSET {M + 1}, DOMAIN kept = (1 .. M) \cup V,
             \A j \in 1 .. M : kept[j] = ms[j], V # {} => kept[M + 1] = m,
             V # {} => IsKept(m) \/ m.type = "Continuation", IsKept(m) => V # {}
      PROVE  \E K2, O2, P2 : Story(gone, a, K2, O2, P2, new, v, fo, kept)
  BY Zenon DEF IsAt, GoesOn, IsKeeping
\* The frames as they were, the message, the frames as they will be, what is kept.
<1>f. /\ N \in Nat \ {0} /\ DOMAIN fr = 1 .. N /\ \A k \in 1 .. N : fr[k] \in FrameSet(a)
      /\ t = fr[N].block /\ n = fr[N].next /\ n \in Used(t)
  BY <1>0, Zenon
<1>m. m = Msgs(t)[n] /\ ~(m.type = "Unknown" /\ m.mustUnderstand)
  BY <1>0, Zenon
<1>w. /\ q \in Nat /\ w \in Nat /\ q >= N /\ w >= N /\ q # w /\ W \in SUBSET {w}
      /\ DOMAIN new = (1 .. N - 1) \cup {q} \cup W
      /\ \A k \in 1 .. N - 1 : new[k] = fr[k]
      /\ new[q] = Frame(t, n + 1) /\ x \in 0 .. 1 /\ (W # {} => new[w] = Frame(c, x))
  BY <1>0, Zenon
<1>c. /\ (W # {} => IsNamed(m, c)) /\ (IsNamed(m, m.to) => W # {})
      /\ (W # {} /\ x = 1 => c # gone) /\ (v = 2 => x = 0)
  BY <1>0, Zenon
<1>k. /\ M \in Nat /\ DOMAIN ms = 1 .. M /\ V \in SUBSET {M + 1} /\ DOMAIN kept = (1 .. M) \cup V
      /\ (\A j \in 1 .. M : kept[j] = ms[j]) /\ (V # {} => kept[M + 1] = m)
      /\ (V # {} => IsKept(m) \/ m.type = "Continuation") /\ (IsKept(m) => V # {})
  BY <1>0, Zenon
<1> DEFINE C == IF W = {} THEN {} ELSE {c}
           K2 == K \cup C
           O2 == IF x = 1 THEN O \cup C ELSE O
           P2 == P \cup {<<t, n>>}
<1>1. /\ K \in SUBSET Blocks(a) /\ O \in SUBSET K /\ P \in SUBSET (K \X Nat) /\ a \in K
      /\ \A k \in DOMAIN fr : fr[k].block \in K /\ (fr[k].next # 0 => fr[k].block \in O)
      /\ gone \notin O
      /\ Told(a, K, P, ms) /\ Pending(K, O, P, fr) /\ Sourced(a, P, ms) /\ Once(a, K, P, fr, ms)
      /\ v = 2 => Cardinality(O) <= fo + 1
  BY Zenon DEF Story
<1>2. /\ N \in DOMAIN fr /\ t \in K /\ t \in Blocks(a) /\ n \in Nat /\ n >= 1 /\ fr[N] \in FrameSet(a) /\ t \in O
  <2>1. N \in DOMAIN fr
    BY <1>f
  <2>2. fr[N] \in FrameSet(a)
    BY <1>f
  <2>3. n \in Nat /\ t \in Blocks(a)
    BY <2>2, <1>f DEF FrameSet
  <2>4. Used(t) \subseteq 1 .. Len(Msgs(t))
    BY <2>3, HeaderFacts
  <2>5. n \in 1 .. Len(Msgs(t))
    BY <1>f, <2>4, Zenon
  <2>6. t \in K /\ (fr[N].next # 0 => t \in O)
    BY <1>1, <1>f, <2>1, Zenon
  <2>7. n >= 1 /\ fr[N].next # 0
    BY <1>f, <2>3, <2>5
  <2> QED
    BY <2>1, <2>2, <2>3, <2>6, <2>7, Zenon
<1>3. C \subseteq Blocks(a) /\ \A e \in C : e = c /\ c = m.to /\ IsNamed(m, c) /\ W = {w} /\ c \in Onward(t)
  <2> SUFFICES ASSUME W # {} PROVE c \in Blocks(a) /\ c = m.to /\ IsNamed(m, c) /\ W = {w} /\ c \in Onward(t)
    OBVIOUS
  <2>1. IsNamed(Msgs(t)[n], c) /\ IsNamed(m, c) /\ m = Msgs(t)[n]
    BY <1>m, <1>c, Zenon
  <2>2. c = Msgs(t)[n].to /\ c \in Onward(t)
    <3>1. n \in Used(t)
      BY <1>f
    <3> QED
      BY <2>1, <3>1, OnwardMember, Zenon
  <2>3. Onward(t) \subseteq Blocks(a)
    BY <1>2, HeaderFacts
  <2>4. W = {w}
    BY <1>w
  <2> QED
    BY <2>1, <2>2, <2>3, <2>4
<1>4. new[q].block = t /\ new[q].next = n + 1 /\ (W # {} => new[w].block = c /\ new[w].next = x)
  BY <1>w DEF Frame
<1>5. \A k \in DOMAIN new : \/ k \in 1 .. N - 1 /\ k \in DOMAIN fr /\ new[k] = fr[k]
                            \/ k = q
                            \/ k = w /\ W = {w} /\ C = {c}
  <2> SUFFICES ASSUME NEW k \in DOMAIN new, k # q
               PROVE  \/ k \in 1 .. N - 1 /\ k \in DOMAIN fr /\ new[k] = fr[k]
                      \/ k = w /\ W = {w} /\ C = {c}
    OBVIOUS
  <2>1. CASE k \in 1 .. N - 1
    <3>1. k \in 1 .. N
      BY <2>1, <1>f
    <3> QED
      BY <2>1, <3>1, <1>f, <1>w, Zenon
  <2>2. CASE k \in W
    <3>1. k = w /\ W = {w}
      BY <2>2, <1>w
    <3> QED
      BY <3>1
  <2> QED
    BY <2>1, <2>2, <1>w, Zenon
<1>6. /\ \A k \in 1 .. N - 1 : k \in DOMAIN new
      /\ q \in DOMAIN new
      /\ W # {} => w \in DOMAIN new
  BY <1>w
<1> HIDE DEF C
<1>7. K2 \in SUBSET Blocks(a) /\ O2 \in SUBSET K2 /\ P2 \in SUBSET (K2 \X Nat) /\ a \in K2 /\ gone \notin O2
  <2>1. O \subseteq K /\ K \subseteq Blocks(a) /\ P \subseteq K \X Nat /\ a \in K /\ gone \notin O /\ t \in K /\ n \in Nat
    BY <1>1, <1>2, Zenon
  <2>2. C \subseteq Blocks(a)
    BY <1>3, Zenon
  <2>3. x = 1 => gone \notin C
    BY <1>3, <1>c, Zenon
  <2> QED
    BY <2>1, <2>2, <2>3
<1>8. ASSUME NEW k \in DOMAIN new PROVE new[k].block \in K2 /\ (new[k].next # 0 => new[k].block \in O2)
  BY <1>1, <1>2, <1>4, <1>5, <1>f, <1>w, <1>3
<1>9. Told(a, K2, P2, kept)
  <2> SUFFICES ASSUME NEW b \in Blocks(a), NEW i \in Used(b), <<b, i>> \in P2
               PROVE  /\ ~(Msgs(b)[i].type = "Unknown" /\ Msgs(b)[i].mustUnderstand)
                      /\ IsNamed(Msgs(b)[i], Msgs(b)[i].to) => Msgs(b)[i].to \in K2
                      /\ IsKept(Msgs(b)[i]) => \E j \in DOMAIN kept : kept[j] = Msgs(b)[i]
    BY Zenon DEF Told
  <2>1. CASE <<b, i>> \in P
    <3>1. /\ ~(Msgs(b)[i].type = "Unknown" /\ Msgs(b)[i].mustUnderstand)
          /\ IsNamed(Msgs(b)[i], Msgs(b)[i].to) => Msgs(b)[i].to \in K
          /\ IsKept(Msgs(b)[i]) => \E j \in DOMAIN ms : ms[j] = Msgs(b)[i]
      BY <1>1, <2>1, Zenon DEF Told
    <3>2. \A j \in DOMAIN ms : j \in DOMAIN kept /\ kept[j] = ms[j]
      BY <1>k
    <3> QED
      BY <3>1, <3>2, Zenon
  <2>2. CASE <<b, i>> = <<t, n>>
    <3>1. b = t /\ i = n
      BY <2>2
    <3>2. Msgs(b)[i] = m
      BY <3>1, <1>m
    <3>3. IsNamed(m, m.to) => m.to \in K2
      <4> SUFFICES ASSUME IsNamed(m, m.to) PROVE m.to \in C
        OBVIOUS
      <4>1. W # {}
        BY <1>c, Zenon
      <4>2. c \in C
        BY <4>1 DEF C
      <4> QED
        BY <4>2, <1>3
    <3>4. IsKept(m) => \E j \in DOMAIN kept : kept[j] = m
      BY <1>k
    <3> QED
      BY <1>m, <3>2, <3>3, <3>4, Zenon
  <2> QED
    BY <2>1, <2>2
<1>10. Pending(K2, O2, P2, new)
  <2>1. ASSUME NEW b \in K2, NEW i \in Used(b)
        PROVE  <<b, i>> \in P2 \/ \E k \in DOMAIN new : new[k].block = b /\ new[k].next <= i
    <3>0. b \in Blocks(a) /\ i \in Nat /\ i >= 1
      <4>1. b \in Blocks(a)
        BY <1>7
      <4>2. Used(b) \subseteq 1 .. Len(Msgs(b))
        BY <4>1, HeaderFacts
      <4> QED
        BY <4>1, <4>2
    <3>1. CASE b \in C
      <4>1. W = {w} /\ b = c /\ w \in DOMAIN new
        BY <3>1, <1>3, <1>6
      <4>2. new[w].block = b /\ new[w].next <= i
        BY <3>0, <4>1, <1>4, <1>w
      <4> QED
        BY <4>1, <4>2
    <3>2. CASE b \in K
      <4>1. CASE <<b, i>> \in P
        BY <4>1
      <4>2. ASSUME NEW k \in DOMAIN fr, fr[k].block = b, fr[k].next <= i
            PROVE  <<b, i>> \in P2 \/ \E l \in DOMAIN new : new[l].block = b /\ new[l].next <= i
        <5>1. CASE k < N
          <6>1. k \in DOMAIN new /\ new[k] = fr[k]
            BY <5>1, <1>6, <1>w, <1>f, <4>2
          <6> QED
            BY <4>2, <6>1
        <5>2. CASE k = N
          <6>1. b = t /\ n <= i
            BY <4>2, <5>2, <1>f
          <6>2. CASE i = n
            BY <6>1, <6>2
          <6>3. CASE i # n
            <7>1. new[q].block = b /\ new[q].next <= i /\ q \in DOMAIN new
              BY <6>1, <6>3, <1>2, <1>4, <1>6, <3>0
            <7> QED
              BY <7>1
          <6> QED
            BY <6>2, <6>3
        <5> QED
          BY <5>1, <5>2, <4>2, <1>f
      <4>3. <<b, i>> \in P \/ \E k \in DOMAIN fr : fr[k].block = b /\ fr[k].next <= i
        BY <1>1, <3>2, Zenon DEF Pending
      <4> QED
        BY <4>1, <4>2, <4>3, Zenon
    <3> QED
      BY <3>1, <3>2
  <2>2. ASSUME NEW b \in K2 \ O2 PROVE \E k \in DOMAIN new : new[k].block = b /\ new[k].next = 0
    <3>1. CASE b \in C
      <4>1. W = {w} /\ b = c /\ x = 0
        BY <2>2, <3>1, <1>3, <1>w
      <4> QED
        BY <4>1, <1>4, <1>6
    <3>2. CASE b \in K
      <4>1. b \notin O
        BY <2>2
      <4>2. PICK k \in DOMAIN fr : fr[k].block = b /\ fr[k].next = 0
        BY <1>1, <3>2, <4>1, Zenon DEF Pending
      <4>3. k # N
        BY <4>2, <1>2, <1>f
      <4>4. k \in DOMAIN new /\ new[k] = fr[k]
        BY <4>2, <4>3, <1>6, <1>f, <1>w
      <4> QED
        BY <4>2, <4>4
    <3> QED
      BY <3>1, <3>2
  <2> QED
    BY <2>1, <2>2, Zenon DEF Pending
<1>11. Sourced(a, P2, kept)
  <2> SUFFICES ASSUME NEW j \in DOMAIN kept, kept[j].type # "Continuation"
               PROVE  \E b \in Blocks(a) : \E i \in Used(b) :
                        <<b, i>> \in P2 /\ kept[j] = Msgs(b)[i] /\ IsKept(Msgs(b)[i])
    BY Zenon DEF Sourced
  <2>1. CASE j \in DOMAIN ms
    <3>1. kept[j] = ms[j]
      BY <2>1, <1>k, Zenon
    <3>0. ms[j].type # "Continuation"
      BY <3>1
    <3>2. \E b \in Blocks(a) : \E i \in Used(b) :
            <<b, i>> \in P /\ ms[j] = Msgs(b)[i] /\ IsKept(Msgs(b)[i])
      BY <1>1, <2>1, <3>0, Zenon DEF Sourced
    <3>3. P \subseteq P2
      OBVIOUS
    <3> QED
      BY <3>1, <3>2, <3>3, Zenon
  <2>2. CASE j \notin DOMAIN ms
    <3>1. V # {} /\ kept[j] = m
      BY <2>2, <1>k
    <3>2. IsKept(Msgs(t)[n]) /\ kept[j] = Msgs(t)[n] /\ n \in Used(t)
      BY <3>1, <1>k, <1>m, <1>f
    <3>3. <<t, n>> \in P2
      OBVIOUS
    <3> QED
      BY <1>2, <3>1, <3>2, <3>3, Zenon
  <2> QED
    BY <2>1, <2>2
<1>12. Once(a, K2, P2, new, kept)
  <2> SUFFICES ASSUME IsSimple(a)
               PROVE  /\ \A k, l \in DOMAIN new : new[k].block = new[l].block => k = l
                      /\ \A k \in DOMAIN new : \A i \in Nat : new[k].next <= i => <<new[k].block, i>> \notin P2
                      /\ \A d \in K2 \ {a} : \E b \in Blocks(a) : \E i \in Used(b) : <<b, i>> \in P2 /\ IsNamed(Msgs(b)[i], d)
                      /\ \A j, l \in DOMAIN kept : kept[j].type # "Continuation" /\ kept[j] = kept[l] => j = l
    BY Zenon DEF Once
  <2>1. /\ \A k, l \in DOMAIN fr : fr[k].block = fr[l].block => k = l
        /\ \A k \in DOMAIN fr : \A i \in Nat : fr[k].next <= i => <<fr[k].block, i>> \notin P
        /\ \A d \in K \ {a} : \E b \in Blocks(a) : \E i \in Used(b) : <<b, i>> \in P /\ IsNamed(Msgs(b)[i], d)
        /\ \A j, l \in DOMAIN ms : ms[j].type # "Continuation" /\ ms[j] = ms[l] => j = l
    BY <1>1, Zenon DEF Once
  <2>2. <<t, n>> \notin P
    <3>1. n \in Nat /\ fr[N].next <= n
      BY <1>2, <1>f
    <3>2. <<fr[N].block, n>> \notin P
      BY <2>1, <1>2, <3>1, Zenon
    <3> QED
      BY <3>2, <1>f
  <2>3. \A b \in Blocks(a) : a \notin Onward(b)
    BY Zenon DEF IsSimple, Blocks
  \* The block named is a new one.
  <2>4. \A d \in C : d \notin K
    <3> SUFFICES ASSUME c \in C, c \in K PROVE FALSE
      BY <1>3
    <3>1. c # a
      BY <1>2, <1>3, <2>3
    <3>2. PICK b \in Blocks(a) : \E i \in Used(b) : <<b, i>> \in P /\ IsNamed(Msgs(b)[i], c)
      BY <2>1, <3>1
    <3>3. PICK i \in Used(b) : <<b, i>> \in P /\ IsNamed(Msgs(b)[i], c)
      BY <3>2
    <3>4. IsNamed(m, c) /\ c = m.to
      BY <1>3
    <3>5. c = Msgs(b)[i].to
      BY <3>3, Zenon DEF IsNamed
    <3>6. Repeats(Msgs(t)[n], Msgs(b)[i])
      BY <1>m, <3>3, <3>4, <3>5, Zenon DEF Repeats
    <3>7. t = b /\ n = i
      <4>1. t \in Blocks(a) /\ n \in Used(t)
        BY <1>2, <1>f
      <4> QED
        BY <4>1, <3>6, SimpleFact
    <3> QED
      BY <2>2, <3>3, <3>7
  <2>5. ASSUME NEW k \in DOMAIN new, NEW l \in DOMAIN new, new[k].block = new[l].block PROVE k = l
    <3>1. \A j \in DOMAIN new : \/ j \in 1 .. N - 1 /\ j \in DOMAIN fr /\ new[j].block = fr[j].block /\ new[j].block \in K
                                \/ j = q /\ new[j].block = fr[N].block /\ new[j].block \in K
                                \/ j = w /\ new[j].block \notin K
      BY <1>1, <1>2, <1>4, <1>5, <1>3, <1>f, <2>4
    <3> QED
      BY <2>1, <2>5, <3>1, <1>2
  <2>6. ASSUME NEW k \in DOMAIN new, NEW i \in Nat, new[k].next <= i PROVE <<new[k].block, i>> \notin P2
    <3>1. CASE k \in 1 .. N - 1 /\ k \in DOMAIN fr /\ new[k] = fr[k]
      <4>1. <<fr[k].block, i>> \notin P
        BY <2>1, <2>6, <3>1
      <4>2. fr[k].block # t
        <5>1. k # N
          BY <3>1
        <5>2. N \in DOMAIN fr /\ fr[N].block = t
          BY <1>2, <1>f
        <5> QED
          BY <2>1, <3>1, <5>1, <5>2, Zenon
      <4> QED
        BY <3>1, <4>1, <4>2
    <3>2. CASE k = q
      <4>1. n + 1 <= i /\ new[k].block = t
        BY <1>4, <2>6, <3>2
      <4>2. n <= i /\ i # n
        BY <4>1, <1>2
      <4>3. <<fr[N].block, i>> \notin P
        BY <2>1, <4>2, <1>2, <1>f
      <4> QED
        BY <4>1, <4>2, <4>3, <1>f
    <3>3. CASE k = w /\ C = {c}
      <4>1. new[k].block = c /\ c \notin K
        BY <1>4, <2>4, <3>3, <1>3
      <4> QED
        BY <1>1, <1>2, <4>1
    <3> QED
      BY <1>5, <3>1, <3>2, <3>3
  <2>7. ASSUME NEW d \in K2 \ {a}
        PROVE  \E b \in Blocks(a) : \E i \in Used(b) : <<b, i>> \in P2 /\ IsNamed(Msgs(b)[i], d)
    <3>1. CASE d \in K
      <4>1. \E b \in Blocks(a) : \E i \in Used(b) : <<b, i>> \in P /\ IsNamed(Msgs(b)[i], d)
        BY <2>1, <3>1
      <4>2. P \subseteq P2
        OBVIOUS
      <4> QED
        BY <4>1, <4>2, Zenon
    <3>2. CASE d \in C
      <4>1. IsNamed(Msgs(t)[n], d)
        BY <1>3, <1>m, <3>2
      <4>2. <<t, n>> \in P2
        OBVIOUS
      <4> QED
        BY <1>f, <1>2, <4>1, <4>2, Zenon
    <3> QED
      BY <3>1, <3>2
  \* The message kept is a new one.
  <2>8. IsKept(m) => \A j \in DOMAIN ms : ms[j] # m
    <3> SUFFICES ASSUME IsKept(m), NEW j \in DOMAIN ms, ms[j] = m PROVE FALSE
      OBVIOUS
    <3>1. ms[j].type # "Continuation"
      BY DEF IsKept
    <3>2. PICK b \in Blocks(a) : \E i \in Used(b) :
            <<b, i>> \in P /\ ms[j] = Msgs(b)[i] /\ IsKept(Msgs(b)[i])
      BY <1>1, <3>1, Zenon DEF Sourced
    <3>3. PICK i \in Used(b) : <<b, i>> \in P /\ ms[j] = Msgs(b)[i]
      BY <3>2
    <3>4. Repeats(Msgs(t)[n], Msgs(b)[i])
      BY <1>m, <3>3, Zenon DEF Repeats
    <3>5. t = b /\ n = i
      <4>1. t \in Blocks(a) /\ n \in Used(t)
        BY <1>2, <1>f
      <4> QED
        BY <4>1, <3>4, SimpleFact
    <3> QED
      BY <2>2, <3>3, <3>5
  <2>9. ASSUME NEW j \in DOMAIN kept, NEW l \in DOMAIN kept, kept[j].type # "Continuation", kept[j] = kept[l]
        PROVE  j = l
    <3>1. \A i \in DOMAIN kept : \/ i \in DOMAIN ms /\ kept[i] = ms[i]
                                 \/ i = M + 1 /\ kept[i] = m /\ (IsKept(m) \/ m.type = "Continuation")
      <4> SUFFICES ASSUME NEW i \in DOMAIN kept, i \notin DOMAIN ms
                   PROVE  i = M + 1 /\ kept[i] = m /\ (IsKept(m) \/ m.type = "Continuation")
        BY <1>k
      <4>1. V # {} /\ i = M + 1
        BY <1>k
      <4> QED
        BY <4>1, <1>k, Zenon
    <3>2. CASE j \in DOMAIN ms /\ kept[j] = ms[j] /\ l \in DOMAIN ms /\ kept[l] = ms[l]
      <4>1. ms[j].type # "Continuation" /\ ms[j] = ms[l]
        BY <2>9, <3>2, Zenon
      <4> QED
        BY <2>1, <3>2, <4>1, Zenon
    <3>3. CASE j \in DOMAIN ms /\ kept[j] = ms[j] /\ l = M + 1 /\ kept[l] = m /\ (IsKept(m) \/ m.type = "Continuation")
      BY <2>8, <2>9, <3>3, Zenon
    <3>4. CASE j = M + 1 /\ kept[j] = m /\ (IsKept(m) \/ m.type = "Continuation") /\ l \in DOMAIN ms /\ kept[l] = ms[l]
      BY <2>8, <2>9, <3>4, Zenon
    <3>5. CASE j = M + 1 /\ l = M + 1
      BY <3>5, Zenon
    <3> QED
      BY <3>1, <3>2, <3>3, <3>4, <3>5, Zenon
  <2> QED
    BY <2>5, <2>6, <2>7, <2>9, Zenon
<1>13. v = 2 => Cardinality(O2) <= fo + 1
  <2> SUFFICES ASSUME v = 2 PROVE O2 = O
    BY <1>1, Zenon
  <2> QED
    BY <1>c
<1> QED
  <2> HIDE DEF K2, O2, P2
  <2>1. Story(gone, a, K2, O2, P2, new, v, fo, kept)
    BY <1>7, <1>8, <1>9, <1>10, <1>11, <1>12, <1>13, Zenon DEF Story
  <2> QED
    BY <2>1, Zenon

\* A header just begun.
LEMMA BeginHeader ==
  ASSUME NEW gone, NEW a \in DOMAIN File.blocks, a # gone, NEW v, NEW new, DOMAIN new = {1}, new[1] = Frame(a, 1),
         NEW ms, DOMAIN ms = {}
  PROVE  \E K, O, P : Story(gone, a, K, O, P, new, v, 0, ms)
<1> DEFINE S == {a}
           P == {}
<1>1. a \in Blocks(a) /\ Used(a) \subseteq 1 .. Len(Msgs(a)) /\ Msgs(a) \in Seq(Range(Msgs(a)))
  BY HeaderFacts
<1>2. new[1].block = a /\ new[1].next = 1
  BY DEF Frame
<1>3. Told(a, S, P, ms) /\ Sourced(a, P, ms)
  BY DEF Told, Sourced
<1>4. Pending(S, S, P, new)
  <2>1. ASSUME NEW b \in S, NEW i \in Used(b)
        PROVE  new[1].block = b /\ new[1].next <= i
    BY <1>1, <1>2
  <2> QED
    BY <2>1 DEF Pending
<1>5. Once(a, S, P, new, ms)
  BY DEF Once
<1>6. Cardinality(S) <= 0 + 1
  <2>1. Cardinality({a}) = 1
    BY FS_Singleton, Zenon
  <2> QED
    BY <2>1
<1>7. S \in SUBSET Blocks(a) /\ S \in SUBSET S /\ P \in SUBSET (S \X Nat) /\ a \in S /\ gone \notin S
      /\ \A k \in DOMAIN new : new[k].block \in S /\ (new[k].next # 0 => new[k].block \in S)
  BY <1>1, <1>2
<1> HIDE DEF S, P
<1>8. Story(gone, a, S, S, P, new, v, 0, ms)
  BY <1>3, <1>4, <1>5, <1>6, <1>7, Zenon DEF Story
<1> QED
  BY <1>8, Zenon

\* A block that waited is opened.
LEMMA OpenFrame ==
  ASSUME NEW gone, NEW a \in DOMAIN File.blocks, NEW K, NEW O, NEW P, NEW fr, NEW v, NEW fo \in Nat, NEW ms,
         Story(gone, a, K, O, P, fr, v, fo, ms),
         NEW N \in Nat \ {0}, DOMAIN fr = 1 .. N, \A k \in 1 .. N : fr[k] \in FrameSet(a),
         NEW t, t = fr[N].block, fr[N].next = 0, t # gone,
         NEW new, DOMAIN new = 1 .. N, \A k \in 1 .. N - 1 : new[k] = fr[k], new[N] = Frame(t, 1)
  PROVE  \E K2, O2, P2 : Story(gone, a, K2, O2, P2, new, v, fo + 1, ms)
<1> DEFINE O2 == O \cup {t}
<1>1. /\ K \in SUBSET Blocks(a) /\ O \in SUBSET K /\ P \in SUBSET (K \X Nat) /\ a \in K
      /\ \A k \in DOMAIN fr : fr[k].block \in K /\ (fr[k].next # 0 => fr[k].block \in O)
      /\ gone \notin O
      /\ Told(a, K, P, ms) /\ Pending(K, O, P, fr) /\ Sourced(a, P, ms) /\ Once(a, K, P, fr, ms)
      /\ v = 2 => Cardinality(O) <= fo + 1
  BY Zenon DEF Story
<1>2. N \in DOMAIN fr /\ t \in K /\ DOMAIN new = DOMAIN fr
  BY <1>1
<1>3. new[N].block = t /\ new[N].next = 1
  BY DEF Frame
<1>4. \A k \in DOMAIN new : /\ new[k].block = fr[k].block
                            /\ k # N => new[k] = fr[k]
                            /\ k # N => k \in 1 .. N - 1
  BY <1>3
<1>5. O2 \in SUBSET K /\ gone \notin O2
      /\ \A k \in DOMAIN new : new[k].block \in K /\ (new[k].next # 0 => new[k].block \in O2)
  BY <1>1, <1>2, <1>3, <1>4
<1>6. Pending(K, O2, P, new)
  <2>1. ASSUME NEW b \in K, NEW i \in Used(b), <<b, i>> \notin P
        PROVE  \E k \in DOMAIN new : new[k].block = b /\ new[k].next <= i
    <3>1. PICK k \in DOMAIN fr : fr[k].block = b /\ fr[k].next <= i
      BY <1>1, <2>1, Zenon DEF Pending
    <3>2. b \in Blocks(a)
      BY <1>1
    <3>3. i \in Nat /\ i >= 1
      <4>1. Used(b) \subseteq 1 .. Len(Msgs(b))
        BY <3>2, HeaderFacts
      <4> QED
        BY <4>1
    <3>4. new[k].block = b /\ new[k].next <= i
      BY <1>2, <1>3, <1>4, <3>1, <3>3
    <3> QED
      BY <1>2, <3>4
  <2>2. ASSUME NEW b \in K \ O2 PROVE \E k \in DOMAIN new : new[k].block = b /\ new[k].next = 0
    <3>1. b \in K \ O /\ b # t
      OBVIOUS
    <3>2. PICK k \in DOMAIN fr : fr[k].block = b /\ fr[k].next = 0
      BY <1>1, <3>1, Zenon DEF Pending
    <3> QED
      BY <1>2, <1>4, <3>1, <3>2
  <2> HIDE DEF O2
  <2> QED
    BY <2>1, <2>2, Zenon DEF Pending
<1>7. Once(a, K, P, new, ms)
  <2> SUFFICES ASSUME IsSimple(a)
               PROVE  /\ \A k, l \in DOMAIN new : new[k].block = new[l].block => k = l
                      /\ \A k \in DOMAIN new : \A i \in Nat : new[k].next <= i => <<new[k].block, i>> \notin P
                      /\ \A d \in K \ {a} : \E b \in Blocks(a) : \E i \in Used(b) : <<b, i>> \in P /\ IsNamed(Msgs(b)[i], d)
                      /\ \A j, l \in DOMAIN ms : ms[j].type # "Continuation" /\ ms[j] = ms[l] => j = l
    BY Zenon DEF Once
  <2>1. /\ \A k, l \in DOMAIN fr : fr[k].block = fr[l].block => k = l
        /\ \A k \in DOMAIN fr : \A i \in Nat : fr[k].next <= i => <<fr[k].block, i>> \notin P
        /\ \A d \in K \ {a} : \E b \in Blocks(a) : \E i \in Used(b) : <<b, i>> \in P /\ IsNamed(Msgs(b)[i], d)
        /\ \A j, l \in DOMAIN ms : ms[j].type # "Continuation" /\ ms[j] = ms[l] => j = l
    BY <1>1, Zenon DEF Once
  <2>2. \A k, l \in DOMAIN new : new[k].block = new[l].block => k = l
    BY <1>2, <1>4, <2>1
  <2>3. ASSUME NEW k \in DOMAIN new, NEW i \in Nat, new[k].next <= i PROVE <<new[k].block, i>> \notin P
    <3>1. fr[k].next <= i
      BY <1>3, <1>4, <2>3
    <3> QED
      BY <1>2, <1>4, <2>1, <3>1
  <2> QED
    BY <2>1, <2>2, <2>3, Zenon
<1>8. v = 2 => Cardinality(O2) <= fo + 1 + 1
  <2> SUFFICES ASSUME v = 2 PROVE Cardinality(O2) <= fo + 1 + 1
    OBVIOUS
  <2>1. IsFiniteSet(O)
    BY <1>1, HeaderFacts, FS_Subset
  <2>2. IsFiniteSet(O2) /\ (Cardinality(O2) = Cardinality(O) \/ Cardinality(O2) = Cardinality(O) + 1)
    BY <2>1, FS_AddElement
  <2>3. Cardinality(O) \in Nat /\ Cardinality(O) <= fo + 1
    BY <1>1, <2>1, FS_CardinalityType
  <2> HIDE DEF O2
  <2> QED
    BY <2>2, <2>3
<1> HIDE DEF O2
<1>9. Story(gone, a, K, O2, P, new, v, fo + 1, ms)
  BY <1>1, <1>5, <1>6, <1>7, <1>8, Zenon DEF Story
<1> QED
  BY <1>9, Zenon

\* The last frame is done.
LEMMA EndFrame ==
  ASSUME NEW gone, NEW a \in DOMAIN File.blocks, NEW K, NEW O, NEW P, NEW fr, NEW v, NEW fo, NEW ms,
         Story(gone, a, K, O, P, fr, v, fo, ms),
         NEW N \in Nat \ {0}, DOMAIN fr = 1 .. N, \A k \in 1 .. N : fr[k] \in FrameSet(a),
         fr[N].next # 0, \A i \in Used(fr[N].block) : i < fr[N].next,
         NEW new, DOMAIN new = 1 .. N - 1, \A k \in 1 .. N - 1 : new[k] = fr[k]
  PROVE  Story(gone, a, K, O, P, new, v, fo, ms)
<1>1. /\ K \in SUBSET Blocks(a) /\ O \in SUBSET K /\ P \in SUBSET (K \X Nat) /\ a \in K
      /\ \A k \in DOMAIN fr : fr[k].block \in K /\ (fr[k].next # 0 => fr[k].block \in O)
      /\ gone \notin O
      /\ Told(a, K, P, ms) /\ Pending(K, O, P, fr) /\ Sourced(a, P, ms) /\ Once(a, K, P, fr, ms)
      /\ v = 2 => Cardinality(O) <= fo + 1
  BY Zenon DEF Story
<1>2. \A k \in DOMAIN new : k \in DOMAIN fr /\ new[k] = fr[k]
  OBVIOUS
<1>3. \A k \in DOMAIN fr : k # N => k \in DOMAIN new /\ new[k] = fr[k]
  OBVIOUS
<1>4. Pending(K, O, P, new)
  <2>1. ASSUME NEW b \in K, NEW i \in Used(b), <<b, i>> \notin P
        PROVE  \E k \in DOMAIN new : new[k].block = b /\ new[k].next <= i
    <3>1. PICK k \in DOMAIN fr : fr[k].block = b /\ fr[k].next <= i
      BY <1>1, <2>1, Zenon DEF Pending
    <3>2. i \in Nat
      <4>1. b \in Blocks(a)
        BY <1>1
      <4>2. Used(b) \subseteq 1 .. Len(Msgs(b))
        BY <4>1, HeaderFacts
      <4> QED
        BY <4>2
    <3>3. fr[N].next \in Nat
      BY DEF FrameSet
    <3>4. k # N
      BY <3>1, <3>2, <3>3
    <3> QED
      BY <1>3, <3>1, <3>4, Zenon
  <2>2. ASSUME NEW b \in K \ O PROVE \E k \in DOMAIN new : new[k].block = b /\ new[k].next = 0
    <3>1. PICK k \in DOMAIN fr : fr[k].block = b /\ fr[k].next = 0
      BY <1>1, Zenon DEF Pending
    <3> QED
      BY <1>3, <3>1, Zenon
  <2> QED
    BY <2>1, <2>2, Zenon DEF Pending
<1>5. Once(a, K, P, new, ms)
  <2> SUFFICES ASSUME IsSimple(a)
               PROVE  /\ \A k, l \in DOMAIN new : new[k].block = new[l].block => k = l
                      /\ \A k \in DOMAIN new : \A i \in Nat : new[k].next <= i => <<new[k].block, i>> \notin P
                      /\ \A d \in K \ {a} : \E b \in Blocks(a) : \E i \in Used(b) : <<b, i>> \in P /\ IsNamed(Msgs(b)[i], d)
                      /\ \A j, l \in DOMAIN ms : ms[j].type # "Continuation" /\ ms[j] = ms[l] => j = l
    BY Zenon DEF Once
  <2>1. /\ \A k, l \in DOMAIN fr : fr[k].block = fr[l].block => k = l
        /\ \A k \in DOMAIN fr : \A i \in Nat : fr[k].next <= i => <<fr[k].block, i>> \notin P
        /\ \A d \in K \ {a} : \E b \in Blocks(a) : \E i \in Used(b) : <<b, i>> \in P /\ IsNamed(Msgs(b)[i], d)
        /\ \A j, l \in DOMAIN ms : ms[j].type # "Continuation" /\ ms[j] = ms[l] => j = l
    BY <1>1, Zenon DEF Once
  <2>2. \A k, l \in DOMAIN new : new[k].block = new[l].block => k = l
    BY <1>2, <2>1
  <2>3. \A k \in DOMAIN new : \A i \in Nat : new[k].next <= i => <<new[k].block, i>> \notin P
    BY <1>2, <2>1
  <2> QED
    BY <2>1, <2>2, <2>3, Zenon
<1>6. \A k \in DOMAIN new : new[k].block \in K /\ (new[k].next # 0 => new[k].block \in O)
  BY <1>1, <1>2
<1> QED
  BY <1>1, <1>4, <1>5, <1>6, Zenon DEF Story

\* When no frame is left, the header has been read as a whole, and is none of
\* those to be refused.
LEMMA HeaderDone ==
  ASSUME NEW gone, NEW a \in DOMAIN File.blocks, NEW K, NEW O, NEW P, NEW fr, NEW v \in 1 .. 2, NEW fo \in Nat, NEW ms,
         Story(gone, a, K, O, P, fr, v, fo, ms), DOMAIN fr = {},
         File.at[a].kind = HeaderKind[v], fo <= MaxContinuations,
         \A chain : IsChain(a, chain) => Pursued(a, chain, fr, v, fo)
  PROVE  a \notin DOMAIN File.refused /\ gone \notin Blocks(a) /\ IsWhole(a, ms)
<1>1. /\ K \in SUBSET Blocks(a) /\ O \in SUBSET K /\ P \in SUBSET (K \X Nat) /\ a \in K
      /\ gone \notin O
      /\ Told(a, K, P, ms) /\ Pending(K, O, P, fr) /\ Sourced(a, P, ms) /\ Once(a, K, P, fr, ms)
      /\ v = 2 => Cardinality(O) <= fo + 1
  BY Zenon DEF Story
<1>2. \A b \in K : \A i \in Used(b) : <<b, i>> \in P
  BY <1>1 DEF Pending
<1>3. K \ O = {}
  BY <1>1 DEF Pending
<1>4. K = Blocks(a)
  <2>1. ASSUME NEW b \in K PROVE Onward(b) \subseteq K
    <3> SUFFICES ASSUME NEW c \in Onward(b) PROVE c \in K
      OBVIOUS
    <3>1. PICK i \in Used(b) : IsNamed(Msgs(b)[i], Msgs(b)[i].to) /\ c = Msgs(b)[i].to
      BY Zenon DEF Onward
    <3>2. <<b, i>> \in P /\ b \in Blocks(a)
      BY <1>1, <1>2
    <3> QED
      BY <1>1, <3>1, <3>2, Zenon DEF Told
  <2> QED
    BY <1>1, <2>1, HeaderFacts
<1>5. O = Blocks(a)
  BY <1>1, <1>3, <1>4
<1>6. ~MustUnderstand(a)
  <2> SUFFICES ASSUME NEW b \in Blocks(a), NEW i \in Used(b),
                      Msgs(b)[i].type = "Unknown", Msgs(b)[i].mustUnderstand
               PROVE  FALSE
    BY Zenon DEF MustUnderstand, Blocks
  <2> QED
    BY <1>1, <1>2, <1>4, Zenon DEF Told
<1>7. ~IsTooDeep(a)
  <2>1. \A chain : ~IsChain(a, chain)
    BY DEF Pursued
  <2>2. ASSUME NEW chain \in [0 .. Limit(a) + 1 -> File.blocks[a]],
               chain[0] = a, \A d \in 0 .. Limit(a) : chain[d + 1] \in Onward(chain[d])
        PROVE  FALSE
    BY <2>1, <2>2, Zenon DEF IsChain, Blocks
  <2>3. ASSUME File.at[a].kind = HeaderKind[2], Cardinality(Blocks(a)) > MaxContinuations + 1 PROVE FALSE
    <3>1. v = 2
      BY <2>3 DEF HeaderKind
    <3>2. Cardinality(Blocks(a)) <= fo + 1
      BY <1>1, <1>5, <3>1
    <3>3. Cardinality(Blocks(a)) \in Nat
      BY HeaderFacts, FS_CardinalityType
    <3> QED
      BY <2>3, <3>2, <3>3, LimitsAssumption
  <2> QED
    BY <2>2, <2>3, Zenon DEF IsTooDeep, Blocks
<1>8. a \notin DOMAIN File.refused /\ IsSimple(a)
  BY <1>6, <1>7, HeaderFacts
<1>9. IsWhole(a, ms)
  <2> DEFINE own == {i \in DOMAIN ms : ms[i].type # "Continuation"}
  <2>1. \A i, j \in own : ms[i] = ms[j] => i = j
    BY <1>1, <1>8, Zenon DEF Once
  <2>2. ASSUME NEW i \in own PROVE ms[i] \in Whole[a]
    <3>1. PICK b \in Blocks(a) : \E j \in Used(b) : ms[i] = Msgs(b)[j] /\ IsKept(Msgs(b)[j])
      BY <1>1, <2>2, Zenon DEF Sourced
    <3>2. ms[i] \in Contents(b)
      BY <3>1, Zenon DEF Contents
    <3> QED
      BY <3>2 DEF Whole, Blocks
  <2>3. ASSUME NEW m \in Whole[a] PROVE \E i \in own : ms[i] = m
    <3>1. PICK b \in Blocks(a) : m \in Contents(b)
      BY DEF Whole, Blocks
    <3>2. PICK i \in Used(b) : IsKept(Msgs(b)[i]) /\ m = Msgs(b)[i]
      BY <3>1, Zenon DEF Contents
    <3>3. PICK j \in DOMAIN ms : ms[j] = m
      BY <1>1, <1>2, <1>4, <3>2, Zenon DEF Told
    <3>4. ms[j].type # "Continuation"
      BY <3>2, <3>3 DEF IsKept
    <3> QED
      BY <3>3, <3>4
  <2>4. {ms[i] : i \in own} = Whole[a]
    <3> HIDE DEF own
    <3> QED
      BY <2>2, <2>3
  <2> QED
    BY <2>1, <2>4, Zenon DEF IsWhole
<1> QED
  BY <1>1, <1>5, <1>8, <1>9

-----------------------------------------------------------------------------
(* Depth: how far a chain of continuations has been followed. *)

\* How long a chain of continuations is.
LEMMA LimitFact ==
  ASSUME NEW a, NEW v \in 1 .. 2, File.at[a].kind = HeaderKind[v]
  PROVE  /\ Limit(a) \in Nat
         /\ v = 1 => Limit(a) = MaxV1Depth - 1
         /\ v = 2 => Limit(a) = MaxContinuations
<1>1. HeaderKind[1] # HeaderKind[2]
  BY DEF HeaderKind
<1>2. MaxV1Depth \in Nat \ {0} /\ MaxContinuations \in Nat
  BY LimitsAssumption
<1> QED
  BY <1>1, <1>2 DEF Limit

\* The place in a block of a chain that names the next block.
LEMMA ChainLink ==
  ASSUME NEW a \in DOMAIN File.blocks, NEW chain, IsChain(a, chain), NEW d \in 0 .. Limit(a), Limit(a) \in Nat
  PROVE  \E i \in Used(chain[d]) : 1 <= i /\ i \in Nat /\ IsNamed(Msgs(chain[d])[i], chain[d + 1])
<1>1. chain[d] \in Blocks(a) /\ chain[d + 1] \in Onward(chain[d])
  BY DEF IsChain
<1>2. PICK i \in Used(chain[d]) : IsNamed(Msgs(chain[d])[i], Msgs(chain[d])[i].to) /\ chain[d + 1] = Msgs(chain[d])[i].to
  BY <1>1, Zenon DEF Onward
<1>3. Used(chain[d]) \subseteq 1 .. Len(Msgs(chain[d]))
  BY <1>1, HeaderFacts
<1>4. 1 <= i /\ i \in Nat
  BY <1>2, <1>3
<1> QED
  BY <1>2, <1>4

\* A header just begun is at the beginning of every chain.
LEMMA PursueBegin ==
  ASSUME NEW a \in DOMAIN File.blocks, NEW chain, IsChain(a, chain),
         NEW v \in 1 .. 2, File.at[a].kind = HeaderKind[v],
         NEW new, DOMAIN new = {1}, new[1] = Frame(a, 1)
  PROVE  Pursued(a, chain, new, v, 0)
<1>1. Limit(a) \in Nat
  BY LimitFact
<1>2. chain[0] = a /\ 0 \in 0 .. Limit(a)
  BY <1>1 DEF IsChain
<1>3. PICK i \in Used(chain[0]) : 1 <= i /\ IsNamed(Msgs(chain[0])[i], chain[0 + 1])
  BY <1>1, <1>2, ChainLink
<1>4. new[1].block = a /\ new[1].next = 1
  BY DEF Frame
<1>5. /\ new[1].block = chain[0] /\ new[1].next # 0 /\ 0 <= Limit(a) /\ Depth(v, 0, 1) >= 0
      /\ \E j \in Used(chain[0]) : new[1].next <= j /\ IsNamed(Msgs(chain[0])[j], chain[0 + 1])
  BY <1>1, <1>2, <1>3, <1>4 DEF Depth
<1>6. 0 \in 0 .. Limit(a) + 1 /\ 1 \in DOMAIN new
  BY <1>1
<1> QED
  BY <1>5, <1>6, Zenon DEF Pursued

\* When the next block of a chain is named, its frame has the chain before it.
LEMMA PursueTake ==
  ASSUME NEW gone, NEW a \in DOMAIN File.blocks, NEW chain, IsChain(a, chain),
         NEW v \in 1 .. 2, File.at[a].kind = HeaderKind[v], NEW fo \in Nat, NEW fr,
         Pursued(a, chain, fr, v, fo),
         NEW N, NEW t, NEW n, NEW m, IsAt(a, fr, N, t, n, m),
         NEW new, NEW q, NEW w, NEW W, NEW c, NEW x, GoesOn(gone, fr, v, N, t, n, m, new, q, w, W, c, x)
  PROVE  Pursued(a, chain, new, v, fo)
<1> SUFFICES
      ASSUME N \in Nat \ {0}, DOMAIN fr = 1 .. N, \A k \in 1 .. N : fr[k] \in FrameSet(a),
             t = fr[N].block, n = fr[N].next, n \in Used(t), m = Msgs(t)[n],
             q \in Nat, w \in Nat, W \in SUBSET {w},
             DOMAIN new = (1 .. N - 1) \cup {q} \cup W,
             \A k \in 1 .. N - 1 : new[k] = fr[k],
             new[q] = Frame(t, n + 1), x \in 0 .. 1, W # {} => new[w] = Frame(c, x),
             W # {} => IsNamed(m, c), IsNamed(m, m.to) => W # {},
             v = 2 => x = 0,
             v = 1 => q = N /\ w = N + 1 /\ x = 1 /\ (W # {} => N < MaxV1Depth)
      PROVE  Pursued(a, chain, new, v, fo)
  BY Zenon DEF IsAt, GoesOn
<1>1. /\ Limit(a) \in Nat
      /\ v = 1 => Limit(a) = MaxV1Depth - 1
      /\ v = 2 => Limit(a) = MaxContinuations
  BY LimitFact
<1>2. PICK k \in DOMAIN fr : \E d \in 0 .. Limit(a) + 1 :
        /\ fr[k].block = chain[d]
        /\ \/ fr[k].next = 0 /\ v = 2 /\ fo + 1 >= d
           \/ /\ fr[k].next # 0 /\ d <= Limit(a) /\ Depth(v, fo, k) >= d
              /\ \E i \in Used(chain[d]) : fr[k].next <= i /\ IsNamed(Msgs(chain[d])[i], chain[d + 1])
  BY Zenon DEF Pursued
<1>3. PICK d \in 0 .. Limit(a) + 1 :
        /\ fr[k].block = chain[d]
        /\ \/ fr[k].next = 0 /\ v = 2 /\ fo + 1 >= d
           \/ /\ fr[k].next # 0 /\ d <= Limit(a) /\ Depth(v, fo, k) >= d
              /\ \E i \in Used(chain[d]) : fr[k].next <= i /\ IsNamed(Msgs(chain[d])[i], chain[d + 1])
  BY <1>2
<1>4. n \in Nat /\ n >= 1 /\ t \in Blocks(a)
  <2>1. fr[N] \in FrameSet(a)
    OBVIOUS
  <2>2. t \in Blocks(a) /\ n \in Nat
    BY <2>1 DEF FrameSet
  <2>3. Used(t) \subseteq 1 .. Len(Msgs(t))
    BY <2>2, HeaderFacts
  <2> QED
    BY <2>2, <2>3
<1>5. new[q].block = t /\ new[q].next = n + 1 /\ (W # {} => new[w].block = c /\ new[w].next = x)
  BY DEF Frame
<1>6. CASE k # N
  <2>1. k \in DOMAIN new /\ new[k] = fr[k]
    BY <1>6
  <2> QED
    BY <1>3, <2>1, Zenon DEF Pursued
<1>7. CASE k = N
  <2>1. /\ d <= Limit(a) /\ Depth(v, fo, N) >= d /\ t = chain[d]
        /\ \E i \in Used(chain[d]) : n <= i /\ IsNamed(Msgs(chain[d])[i], chain[d + 1])
    BY <1>3, <1>4, <1>7
  <2>2. PICK i \in Used(chain[d]) : n <= i /\ IsNamed(Msgs(chain[d])[i], chain[d + 1])
    BY <2>1
  <2>3. i \in Nat
    <3>1. Used(t) \subseteq 1 .. Len(Msgs(t))
      BY <1>4, HeaderFacts
    <3> QED
      BY <2>1, <3>1
  <2>4. CASE i # n
    <3>1. new[q].block = chain[d] /\ new[q].next # 0 /\ new[q].next <= i
      BY <1>4, <1>5, <2>1, <2>2, <2>3, <2>4
    <3>2. Depth(v, fo, q) >= d
      BY <2>1 DEF Depth
    <3>3. q \in DOMAIN new
      OBVIOUS
    <3> QED
      BY <2>1, <2>2, <3>1, <3>2, <3>3, Zenon DEF Pursued
  <2>5. CASE i = n
    <3>1. IsNamed(m, chain[d + 1])
      BY <2>1, <2>2, <2>5
    <3>2. m.to = chain[d + 1]
      BY <3>1, Zenon DEF IsNamed
    <3>3. W # {}
      BY <3>1, <3>2
    <3>4. c = chain[d + 1]
      BY <3>2, <3>3, Zenon DEF IsNamed
    <3>5. w \in DOMAIN new /\ new[w].block = chain[d + 1] /\ d + 1 \in 0 .. Limit(a) + 1
      <4>1. w \in DOMAIN new
        BY <3>3
      <4>2. d + 1 \in 0 .. Limit(a) + 1
        BY <1>1, <2>1
      <4> QED
        BY <1>5, <3>3, <3>4, <4>1, <4>2
    <3>6. CASE v = 2
      <4>1. new[w].next = 0 /\ fo + 1 >= d + 1
        BY <1>5, <2>1, <3>3, <3>6 DEF Depth
      <4> QED
        BY <3>5, <3>6, <4>1, Zenon DEF Pursued
    <3>7. CASE v = 1
      <4>1. new[w].next = 1 /\ N - 1 >= d /\ N < MaxV1Depth /\ w = N + 1 /\ Limit(a) = MaxV1Depth - 1
        BY <1>1, <1>5, <2>1, <3>3, <3>7 DEF Depth
      <4>2. d + 1 \in 0 .. Limit(a) /\ Depth(v, fo, w) >= d + 1 /\ d + 1 <= Limit(a)
        BY <1>1, <3>7, <4>1, LimitsAssumption DEF Depth
      <4>3. PICK j \in Used(chain[d + 1]) : 1 <= j /\ IsNamed(Msgs(chain[d + 1])[j], chain[d + 1 + 1])
        BY <1>1, <4>2, ChainLink
      <4>4. new[w].next # 0 /\ new[w].next <= j
        BY <4>1, <4>3
      <4> QED
        BY <3>5, <4>2, <4>3, <4>4, Zenon DEF Pursued
    <3> QED
      BY <3>6, <3>7
  <2> QED
    BY <2>4, <2>5
<1> QED
  BY <1>6, <1>7

\* A block that waited is opened.
LEMMA PursueOpen ==
  ASSUME NEW a \in DOMAIN File.blocks, NEW chain, IsChain(a, chain),
         File.at[a].kind = HeaderKind[2], NEW fo \in Nat, fo < MaxContinuations, NEW fr,
         Pursued(a, chain, fr, 2, fo),
         NEW N \in Nat \ {0}, DOMAIN fr = 1 .. N,
         NEW t, t = fr[N].block, fr[N].next = 0,
         NEW new, DOMAIN new = 1 .. N, \A k \in 1 .. N - 1 : new[k] = fr[k], new[N] = Frame(t, 1)
  PROVE  Pursued(a, chain, new, 2, fo + 1)
<1>1. Limit(a) \in Nat /\ Limit(a) = MaxContinuations
  <2>1. 2 \in 1 .. 2
    OBVIOUS
  <2> QED
    BY <2>1, LimitFact
<1>2. PICK k \in DOMAIN fr : \E d \in 0 .. Limit(a) + 1 :
        /\ fr[k].block = chain[d]
        /\ \/ fr[k].next = 0 /\ 2 = 2 /\ fo + 1 >= d
           \/ /\ fr[k].next # 0 /\ d <= Limit(a) /\ Depth(2, fo, k) >= d
              /\ \E i \in Used(chain[d]) : fr[k].next <= i /\ IsNamed(Msgs(chain[d])[i], chain[d + 1])
  BY Zenon DEF Pursued
<1>3. PICK d \in 0 .. Limit(a) + 1 :
        /\ fr[k].block = chain[d]
        /\ \/ fr[k].next = 0 /\ fo + 1 >= d
           \/ /\ fr[k].next # 0 /\ d <= Limit(a) /\ Depth(2, fo, k) >= d
              /\ \E i \in Used(chain[d]) : fr[k].next <= i /\ IsNamed(Msgs(chain[d])[i], chain[d + 1])
  BY <1>2
<1>4. new[N].block = t /\ new[N].next = 1
  BY DEF Frame
<1>5. CASE k # N
  <2>1. k \in DOMAIN new /\ new[k] = fr[k]
    BY <1>5
  <2>2. /\ new[k].block = chain[d]
        /\ \/ new[k].next = 0 /\ 2 = 2 /\ fo + 1 + 1 >= d
           \/ /\ new[k].next # 0 /\ d <= Limit(a) /\ Depth(2, fo + 1, k) >= d
              /\ \E i \in Used(chain[d]) : new[k].next <= i /\ IsNamed(Msgs(chain[d])[i], chain[d + 1])
    <3>1. CASE fr[k].next = 0 /\ fo + 1 >= d
      BY <1>3, <2>1, <3>1
    <3>2. CASE /\ fr[k].next # 0 /\ d <= Limit(a) /\ Depth(2, fo, k) >= d
               /\ \E i \in Used(chain[d]) : fr[k].next <= i /\ IsNamed(Msgs(chain[d])[i], chain[d + 1])
      <4>1. Depth(2, fo + 1, k) >= d
        BY <3>2 DEF Depth
      <4> QED
        BY <1>3, <2>1, <3>2, <4>1, Zenon
    <3> QED
      BY <1>3, <3>1, <3>2, Zenon
  <2> QED
    BY <2>1, <2>2, Zenon DEF Pursued
<1>6. CASE k = N
  <2>1. fo + 1 >= d /\ t = chain[d]
    BY <1>3, <1>6
  <2>2. d \in 0 .. Limit(a) /\ d <= Limit(a) /\ Depth(2, fo + 1, N) >= d
    BY <1>1, <2>1, LimitsAssumption DEF Depth
  <2>3. PICK i \in Used(chain[d]) : 1 <= i /\ IsNamed(Msgs(chain[d])[i], chain[d + 1])
    BY <1>1, <2>2, ChainLink
  <2>4. N \in DOMAIN new /\ new[N].block = chain[d] /\ new[N].next # 0 /\ new[N].next <= i
    BY <1>4, <2>1, <2>3
  <2> QED
    BY <2>2, <2>3, <2>4, Zenon DEF Pursued
<1> QED
  BY <1>5, <1>6

\* A frame that is done had no chain before it.
LEMMA PursueEnd ==
  ASSUME NEW a \in DOMAIN File.blocks, NEW chain, NEW v, NEW fo, NEW fr,
         Pursued(a, chain, fr, v, fo),
         NEW N \in Nat \ {0}, DOMAIN fr = 1 .. N, \A k \in 1 .. N : fr[k] \in FrameSet(a),
         fr[N].next # 0, \A i \in Used(fr[N].block) : i \in Nat /\ i < fr[N].next,
         NEW new, DOMAIN new = 1 .. N - 1, \A k \in 1 .. N - 1 : new[k] = fr[k]
  PROVE  Pursued(a, chain, new, v, fo)
<1>1. PICK k \in DOMAIN fr : \E d \in 0 .. Limit(a) + 1 :
        /\ fr[k].block = chain[d]
        /\ \/ fr[k].next = 0 /\ v = 2 /\ fo + 1 >= d
           \/ /\ fr[k].next # 0 /\ d <= Limit(a) /\ Depth(v, fo, k) >= d
              /\ \E i \in Used(chain[d]) : fr[k].next <= i /\ IsNamed(Msgs(chain[d])[i], chain[d + 1])
  BY Zenon DEF Pursued
<1>2. k # N
  <2> SUFFICES ASSUME k = N PROVE FALSE
    OBVIOUS
  <2>1. PICK d : fr[N].block = chain[d] /\ \E i \in Used(chain[d]) : fr[N].next <= i
    BY <1>1, Zenon
  <2>2. PICK i \in Used(fr[N].block) : fr[N].next <= i
    BY <2>1
  <2>3. fr[N].next \in Nat
    BY DEF FrameSet
  <2> QED
    BY <2>2, <2>3
<1>3. k \in DOMAIN new /\ new[k] = fr[k]
  BY <1>2
<1> QED
  BY <1>1, <1>3, Zenon DEF Pursued

-----------------------------------------------------------------------------
(* The invariant of a parser. *)

\* The reader has come across no end of a block it is still in.
Within(fr) == \A k \in DOMAIN fr : \A i \in 1 .. fr[k].next - 1 : i \in Used(fr[k].block)

\* A header being read, as far as it has come.
Progress(gone, a, fr, v, fo, ms) ==
  /\ fr \in Seq(FrameSet(a)) /\ ms \in Seq(MessagesOf(a))
  /\ v \in 1 .. 2 /\ File.at[a].kind = HeaderKind[v]
  /\ fo \in Nat /\ fo <= MaxContinuations
  /\ v = 1 => Len(fr) <= MaxV1Depth /\ \A k \in DOMAIN fr : fr[k].next # 0
  /\ Within(fr)
  /\ \E K, O, P : Story(gone, a, K, O, P, fr, v, fo, ms)
  /\ \A chain : IsChain(a, chain) => Pursued(a, chain, fr, v, fo)

\* A header that has been read.
Sound(gone, a, ms) == /\ a \notin DOMAIN File.refused /\ gone \notin Blocks(a)
                /\ IsWhole(a, ms) /\ ms \in Seq(MessagesOf(a))

HeaderInv(a) == /\ parse = "parsing" => Progress(lost, a, frames, version, followed, messages) /\ frames # << >>
                /\ parse = "parsed" => Sound(lost, a, messages)

\* The block a reader is in, and the message it is at.
LEMMA Reader ==
  ASSUME NEW gone, NEW a \in DOMAIN File.blocks, Progress(gone, a, frames, version, followed, messages), frames # << >>
  PROVE  LET N == Len(frames)
             t == frames[N].block
             n == frames[N].next
         IN  /\ N \in Nat \ {0} /\ DOMAIN frames = 1 .. N
             /\ \A k \in 1 .. N : frames[k] \in FrameSet(a)
             /\ Top = frames[N] /\ Block = Msgs(t) /\ Message = Msgs(t)[n]
             /\ t \in Blocks(a) /\ n \in Nat
             /\ DOMAIN Msgs(t) = 1 .. Len(Msgs(t)) /\ Len(Msgs(t)) \in Nat
             /\ DOMAIN messages = 1 .. Len(messages) /\ Len(messages) \in Nat
<1> DEFINE N == Len(frames)
           t == frames[N].block
           n == frames[N].next
<1>1. frames \in Seq(FrameSet(a)) /\ messages \in Seq(MessagesOf(a))
  BY DEF Progress
<1>2. N \in Nat \ {0} /\ DOMAIN frames = 1 .. N /\ \A k \in 1 .. N : frames[k] \in FrameSet(a)
  BY <1>1
<1>3. frames[N] \in FrameSet(a)
  BY <1>2
<1>4. t \in Blocks(a) /\ n \in Nat
  BY <1>3 DEF FrameSet
<1>5. Top = frames[N] /\ Block = Msgs(t) /\ Message = Msgs(t)[n]
  BY DEF Top, Last, Block, Message, Msgs
<1>6. DOMAIN Msgs(t) = 1 .. Len(Msgs(t)) /\ Len(Msgs(t)) \in Nat
  <2>1. Msgs(t) \in Seq(Range(Msgs(t)))
    BY <1>4, HeaderFacts
  <2> QED
    BY <2>1
<1>7. DOMAIN messages = 1 .. Len(messages) /\ Len(messages) \in Nat
  BY <1>1
<1> QED
  BY <1>2, <1>4, <1>5, <1>6, <1>7, Zenon

\* The message a reader is at belongs to the block if it is no end of it.
LEMMA AtMessage ==
  ASSUME NEW gone, NEW a \in DOMAIN File.blocks, Progress(gone, a, frames, version, followed, messages), frames # << >>,
         NEW N, N = Len(frames), NEW t, t = frames[N].block, NEW n, n = frames[N].next
  PROVE  /\ n # 0 /\ ~AtEnd => n \in Used(t) /\ Message \in MessagesOf(a)
         /\ n # 0 /\ AtEnd => \A i \in Used(t) : i \in Nat /\ i < n
<1>1. /\ N \in Nat \ {0} /\ DOMAIN frames = 1 .. N /\ frames[N] \in FrameSet(a)
      /\ Top = frames[N] /\ Block = Msgs(t) /\ Message = Msgs(t)[n]
      /\ t \in Blocks(a) /\ n \in Nat
      /\ DOMAIN Msgs(t) = 1 .. Len(Msgs(t)) /\ Len(Msgs(t)) \in Nat
  BY Reader
<1>2. ASSUME n # 0, ~AtEnd PROVE n \in Used(t) /\ Message \in MessagesOf(a)
  <2>1. n <= Len(Msgs(t)) /\ Msgs(t)[n].type # "Cut"
    BY <1>1, <1>2 DEF AtEnd
  <2>2. n \in DOMAIN Msgs(t)
    BY <1>1, <1>2, <2>1
  <2>3. ASSUME NEW j \in 1 .. n PROVE Msgs(t)[j].type # "Cut"
    <3>1. CASE j = n
      BY <2>1, <3>1
    <3>2. CASE j # n
      <4>1. j \in 1 .. n - 1 /\ N \in DOMAIN frames
        BY <1>1, <3>2
      <4>2. j \in Used(t)
        BY <4>1 DEF Progress, Within
      <4>3. j \in 1 .. j
        OBVIOUS
      <4> QED
        BY <4>2, <4>3, Zenon DEF Used
    <3> QED
      BY <3>1, <3>2
  <2>4. n \in Used(t)
    BY <2>2, <2>3, Zenon DEF Used
  <2>5. Message \in Range(Msgs(t))
    BY <1>1, <2>2, Zenon DEF Range
  <2>6. Message \in MessagesOf(a)
    BY <1>1, <2>5, Zenon DEF MessagesOf
  <2> QED
    BY <2>4, <2>6
<1>3. ASSUME n # 0, AtEnd, NEW i \in Used(t) PROVE i \in Nat /\ i < n
  <2>1. i \in DOMAIN Msgs(t) /\ \A j \in 1 .. i : Msgs(t)[j].type # "Cut"
    BY Zenon DEF Used
  <2>2. i \in 1 .. Len(Msgs(t))
    BY <1>1, <2>1
  <2>3. n <= Len(Msgs(t)) => Msgs(t)[n].type = "Cut"
    BY <1>1, <1>3 DEF AtEnd
  <2> SUFFICES ASSUME ~(i < n) PROVE FALSE
    BY <2>2
  <2>4. n <= i /\ n <= Len(Msgs(t))
    BY <1>1, <2>2
  <2> QED
    BY <1>1, <1>3, <2>1, <2>3, <2>4, <2>2
<1> QED
  BY <1>2, <1>3

\* Sequences by their domains.
LEMMA SeqDomain ==
  ASSUME NEW S, NEW s \in Seq(S)
  PROVE  Len(s) \in Nat /\ DOMAIN s = 1 .. Len(s) /\ (s # << >> <=> Len(s) # 0) /\ (\A k \in 1 .. Len(s) : s[k] \in S)
OBVIOUS

\* A message put behind the others, or not.
LEMMA KeepOne ==
  ASSUME NEW S, NEW ms \in Seq(S), NEW m \in S
  PROVE  /\ Append(ms, m) \in Seq(S)
         /\ IsKept(m) \/ m.type = "Continuation" => IsKeeping(ms, Len(ms), m, Append(ms, m), {Len(ms) + 1})
         /\ ~IsKept(m) => IsKeeping(ms, Len(ms), m, ms, {})
<1>1. Len(ms) \in Nat /\ DOMAIN ms = 1 .. Len(ms)
  OBVIOUS
<1>2. /\ Append(ms, m) \in Seq(S) /\ DOMAIN Append(ms, m) = 1 .. Len(ms) + 1
      /\ \A j \in 1 .. Len(ms) : Append(ms, m)[j] = ms[j]
      /\ Append(ms, m)[Len(ms) + 1] = m
  OBVIOUS
<1>3. 1 .. Len(ms) + 1 = (1 .. Len(ms)) \cup {Len(ms) + 1} /\ 1 .. Len(ms) = (1 .. Len(ms)) \cup {}
  BY <1>1
<1>4. {Len(ms) + 1} # {} /\ {Len(ms) + 1} \in SUBSET {Len(ms) + 1} /\ {} \in SUBSET {Len(ms) + 1}
  OBVIOUS
<1> QED
  BY <1>1, <1>2, <1>3, <1>4, Zenon DEF IsKeeping

\* Dealing with a message goes on with a header.
LEMMA Taken ==
  ASSUME NEW gone, NEW a \in DOMAIN File.blocks, NEW fr, NEW v, NEW fo, NEW ms, Progress(gone, a, fr, v, fo, ms),
         NEW N, NEW t, NEW n, NEW m, IsAt(a, fr, N, t, n, m),
         NEW new \in Seq(FrameSet(a)), NEW q, NEW w, NEW W, NEW c, NEW x,
         GoesOn(gone, fr, v, N, t, n, m, new, q, w, W, c, x),
         NEW kept \in Seq(MessagesOf(a)), NEW M, NEW V, IsKeeping(ms, M, m, kept, V)
  PROVE  Progress(gone, a, new, v, fo, kept) /\ new # << >>
<1>1. /\ fr \in Seq(FrameSet(a)) /\ ms \in Seq(MessagesOf(a))
      /\ v \in 1 .. 2 /\ File.at[a].kind = HeaderKind[v]
      /\ fo \in Nat /\ fo <= MaxContinuations
      /\ v = 1 => Len(fr) <= MaxV1Depth /\ \A k \in DOMAIN fr : fr[k].next # 0
      /\ Within(fr)
      /\ \A chain : IsChain(a, chain) => Pursued(a, chain, fr, v, fo)
  BY Zenon DEF Progress
<1>2. PICK K, O, P : Story(gone, a, K, O, P, fr, v, fo, ms)
  BY Zenon DEF Progress
<1>3. \E K2, O2, P2 : Story(gone, a, K2, O2, P2, new, v, fo, kept)
  BY <1>2, TakeMessage
<1>4. ASSUME NEW chain, IsChain(a, chain) PROVE Pursued(a, chain, new, v, fo)
  BY <1>1, <1>4, PursueTake, Zenon
<1>5. /\ N \in Nat \ {0} /\ DOMAIN fr = 1 .. N /\ fr[N] \in FrameSet(a)
      /\ t = fr[N].block /\ n = fr[N].next /\ n \in Used(t)
  <2>1. /\ N \in Nat \ {0} /\ DOMAIN fr = 1 .. N /\ \A k \in 1 .. N : fr[k] \in FrameSet(a)
        /\ t = fr[N].block /\ n = fr[N].next /\ n \in Used(t)
    BY Zenon DEF IsAt
  <2>2. N \in 1 .. N
    BY <2>1
  <2> QED
    BY <2>1, <2>2, Zenon
<1>6. n \in Nat
  BY <1>5 DEF FrameSet
<1>7. /\ q \in Nat /\ w \in Nat /\ W \in SUBSET {w}
      /\ DOMAIN new = (1 .. N - 1) \cup {q} \cup W
      /\ \A k \in 1 .. N - 1 : new[k] = fr[k]
      /\ new[q] = Frame(t, n + 1) /\ x \in 0 .. 1 /\ (W # {} => new[w] = Frame(c, x))
      /\ v = 1 => q = N /\ w = N + 1 /\ x = 1 /\ (W # {} => N < MaxV1Depth)
  BY Zenon DEF GoesOn
<1>8. new[q].block = t /\ new[q].next = n + 1 /\ (W # {} => new[w].next = x)
  BY <1>7 DEF Frame
<1>9. ASSUME NEW k \in DOMAIN new
      PROVE  (k \in 1 .. N - 1 /\ k \in DOMAIN fr /\ new[k] = fr[k]) \/ k = q \/ (k = w /\ W # {})
  <2>1. k \in (1 .. N - 1) \/ k = q \/ k \in W
    BY <1>7, Zenon
  <2>2. k \in W => k = w /\ W # {}
    BY <1>7
  <2>3. k \in 1 .. N - 1 => k \in DOMAIN fr /\ new[k] = fr[k]
    BY <1>5, <1>7
  <2> QED
    BY <2>1, <2>2, <2>3, Zenon
<1>10. Within(new)
  <2> SUFFICES ASSUME NEW k \in DOMAIN new, NEW i \in 1 .. new[k].next - 1 PROVE i \in Used(new[k].block)
    BY Zenon DEF Within
  <2>1. CASE k \in 1 .. N - 1 /\ k \in DOMAIN fr /\ new[k] = fr[k]
    BY <1>1, <2>1, Zenon DEF Within
  <2>2. CASE k = q
    <3>1. i \in 1 .. n /\ new[k].block = t
      BY <1>6, <1>8, <2>2
    <3>2. CASE i = n
      BY <1>5, <3>1, <3>2
    <3>3. CASE i # n
      <4>1. i \in 1 .. fr[N].next - 1 /\ N \in DOMAIN fr
        BY <1>5, <1>6, <3>1, <3>3
      <4>2. i \in Used(fr[N].block)
        BY <1>1, <4>1, Zenon DEF Within
      <4> QED
        BY <1>5, <3>1, <4>2
    <3> QED
      BY <3>2, <3>3
  <2>3. CASE k = w /\ W # {}
    <3>1. new[k].next = x /\ x \in 0 .. 1
      BY <1>7, <1>8, <2>3
    <3> QED
      BY <3>1
  <2> QED
    BY <1>9, <2>1, <2>2, <2>3
<1>11. Len(new) \in Nat /\ DOMAIN new = 1 .. Len(new) /\ (new # << >> <=> Len(new) # 0)
  BY SeqDomain, Zenon
<1>12. new # << >>
  <2>1. q \in DOMAIN new
    BY <1>7
  <2> QED
    BY <1>11, <2>1
<1>13. ASSUME v = 1 PROVE Len(new) <= MaxV1Depth /\ \A k \in DOMAIN new : new[k].next # 0
  <2>1. q = N /\ w = N + 1 /\ x = 1 /\ (W # {} => N < MaxV1Depth)
    BY <1>7, <1>13
  <2>2. ASSUME NEW k \in DOMAIN new PROVE new[k].next # 0
    <3>1. CASE k \in 1 .. N - 1 /\ k \in DOMAIN fr /\ new[k] = fr[k]
      BY <1>1, <1>13, <3>1
    <3>2. CASE k = q
      BY <1>6, <1>8, <3>2
    <3>3. CASE k = w /\ W # {}
      BY <1>8, <2>1, <3>3
    <3> QED
      BY <1>9, <3>1, <3>2, <3>3
  <2>3. N <= MaxV1Depth
    <3>1. Len(fr) = N
      <4>1. Len(fr) \in Nat /\ DOMAIN fr = 1 .. Len(fr)
        BY <1>1, SeqDomain, Zenon
      <4> QED
        BY <1>5, <4>1
    <3> QED
      BY <1>1, <1>13, <3>1
  <2>4. Len(new) \in DOMAIN new
    BY <1>11, <1>12
  <2>5. Len(new) <= N \/ (W # {} /\ Len(new) = N + 1)
    BY <1>5, <1>9, <2>1, <2>4
  <2>6. Len(new) <= MaxV1Depth
    <3>1. N \in Nat /\ MaxV1Depth \in Nat
      BY <1>5, LimitsAssumption
    <3>2. CASE Len(new) <= N
      BY <1>11, <2>3, <3>1, <3>2
    <3>3. CASE W # {} /\ Len(new) = N + 1
      BY <2>1, <3>1, <3>3
    <3> QED
      BY <2>5, <3>2, <3>3
  <2> QED
    BY <2>2, <2>6
<1> QED
  BY <1>1, <1>3, <1>4, <1>10, <1>12, <1>13, Zenon DEF Progress

\* A reader that deals with a message: where it is.
LEMMA ReaderIsAt ==
  ASSUME NEW a \in DOMAIN File.blocks, Progress(lost, a, frames, version, followed, messages), frames # << >>,
         Reading, ~AtEnd, ~(Message.type = "Unknown" /\ Message.mustUnderstand)
  PROVE  /\ IsAt(a, frames, Len(frames), Top.block, Top.next, Message)
         /\ Message \in MessagesOf(a) /\ Top.block \in Blocks(a) /\ Top.next \in Nat
<1> DEFINE N == Len(frames)
           t == frames[N].block
           n == frames[N].next
<1>1. /\ N \in Nat \ {0} /\ DOMAIN frames = 1 .. N
      /\ \A k \in 1 .. N : frames[k] \in FrameSet(a)
      /\ Top = frames[N] /\ Message = Msgs(t)[n]
      /\ t \in Blocks(a) /\ n \in Nat
  BY Reader
<1>2. Top.next # 0
  BY DEF Reading
<1>3. n \in Used(t) /\ Message \in MessagesOf(a)
  BY <1>1, <1>2, AtMessage
<1>4. IsAt(a, frames, N, t, n, Message)
  BY <1>1, <1>3, Zenon DEF IsAt
<1> QED
  BY <1>1, <1>3, <1>4

\* The frames with the last one advanced.
LEMMA AdvancedFact ==
  ASSUME NEW a, frames \in Seq(FrameSet(a)), frames # << >>
  PROVE  LET N == Len(frames)
         IN  /\ N \in Nat \ {0} /\ Advanced \in Seq(FrameSet(a)) /\ Len(Advanced) = N
             /\ \A k \in 1 .. N - 1 : Advanced[k] = frames[k]
             /\ Advanced[N] = Frame(Top.block, Top.next + 1)
             /\ Top = frames[N]
<1> DEFINE N == Len(frames)
<1>1. N \in Nat \ {0} /\ DOMAIN frames = 1 .. N /\ frames \in [1 .. N -> FrameSet(a)]
  OBVIOUS
<1>2. frames[N] \in FrameSet(a) /\ Top = frames[N]
  BY <1>1 DEF Top, Last
<1>3. frames[N] = [block |-> Top.block, next |-> Top.next] /\ Top.next \in Nat /\ Top.block \in Blocks(a)
  BY <1>2 DEF FrameSet
<1> DEFINE e == Frame(Top.block, Top.next + 1)
<1>4. e \in FrameSet(a)
  BY <1>3 DEF Frame, FrameSet
<1>5. [frames[N] EXCEPT !.next = @ + 1] = e
  BY <1>3 DEF Frame
<1>6. Advanced = [frames EXCEPT ![N] = e]
  <2>1. Advanced = [frames EXCEPT ![N] = [frames[N] EXCEPT !.next = @ + 1]]
    BY DEF Advanced
  <2> QED
    BY <1>5, <2>1, Zenon
<1> HIDE DEF e
<1>7. Len(frames) \in 1 .. Len(frames)
  BY <1>1
<1>8. /\ Advanced \in Seq(FrameSet(a))
      /\ Len(Advanced) = Len(frames)
      /\ \A j \in 1 .. Len(frames) : Advanced[j] = IF j = Len(frames) THEN e ELSE frames[j]
  BY <1>4, <1>6, <1>7, ExceptSeq
<1>9. Advanced[N] = e /\ \A k \in 1 .. N - 1 : Advanced[k] = frames[k]
  <2>1. Advanced[Len(frames)] = e
    BY <1>7, <1>8, Zenon
  <2>2. ASSUME NEW k \in 1 .. N - 1 PROVE Advanced[k] = frames[k]
    <3>1. k \in 1 .. N /\ k # N
      <4>1. N \in Nat
        BY <1>1
      <4> HIDE DEF N
      <4> QED
        BY <4>1
    <3> QED
      BY <1>8, <3>1, Zenon
  <2> QED
    BY <2>1, <2>2
<1> QED
  BY <1>1, <1>2, <1>8, <1>9 DEF e

\* Opening the header of an object.
LEMMA BeginStep ==
  ASSUME NEW a \in DOMAIN File.blocks, OpenHeader(a), parse = "idle", lost' = lost
  PROVE  HeaderInv(a)'
<1>1. CASE \A v \in 1 .. 2 : ~Readable(a, HeaderKind[v])
  <2>1. parse' \notin {"parsing", "parsed"}
    BY <1>1 DEF OpenHeader, Fails
  <2> QED
    BY <2>1 DEF HeaderInv
<1>2. ASSUME NEW v \in 1 .. 2, Readable(a, HeaderKind[v]), version' = v,
             frames' = <<Frame(a, 1)>>, followed' = 0, messages' = << >>, parse' = "parsing"
      PROVE  HeaderInv(a)'
  <2>1. a # lost /\ File.at[a].kind = HeaderKind[v]
    BY <1>2 DEF Readable
  <2> DEFINE new == <<Frame(a, 1)>>
  <2>2. DOMAIN new = {1} /\ new[1] = Frame(a, 1) /\ Len(new) = 1 /\ new # << >>
    OBVIOUS
  <2>3. a \in Blocks(a)
    BY HeaderFacts
  <2>4. Frame(a, 1) \in FrameSet(a) /\ Frame(a, 1).next = 1
    BY <2>3 DEF Frame, FrameSet
  <2>5. new \in Seq(FrameSet(a))
    BY <2>4
  <2> HIDE DEF new
  <2>6. \E K, O, P : Story(lost, a, K, O, P, new, v, 0, << >>)
    <3>1. DOMAIN << >> = {}
      OBVIOUS
    <3> QED
      BY <2>1, <2>2, <3>1, BeginHeader
  <2>7. \A chain : IsChain(a, chain) => Pursued(a, chain, new, v, 0)
    BY <2>1, <2>2, PursueBegin
  <2>8. Within(new)
    BY <2>2, <2>4 DEF Within
  <2>9. Len(new) <= MaxV1Depth /\ \A k \in DOMAIN new : new[k].next # 0
    BY <2>2, <2>4, LimitsAssumption
  <2>10. << >> \in Seq(MessagesOf(a)) /\ 0 \in Nat /\ 0 <= MaxContinuations
    BY LimitsAssumption
  <2>11. Progress(lost, a, new, v, 0, << >>)
    BY <2>1, <2>5, <2>6, <2>7, <2>8, <2>9, <2>10, Zenon DEF Progress
  <2> QED
    BY <1>2, <2>2, <2>11 DEF HeaderInv, new
<1> QED
  BY <1>1, <1>2 DEF OpenHeader

-----------------------------------------------------------------------------
(* One lemma for each kind of step of a parser. *)

\* A message that names no block.
LEMMA PlainStep ==
  ASSUME NEW a \in DOMAIN File.blocks, Progress(lost, a, frames, version, followed, messages), frames # << >>,
         Reading, ~AtEnd, ~(Message.type = "Unknown" /\ Message.mustUnderstand),
         ~IsNamed(Message, Message.to),
         NEW kept \in Seq(MessagesOf(a)), NEW M, NEW V, IsKeeping(messages, M, Message, kept, V)
  PROVE  Progress(lost, a, Advanced, version, followed, kept) /\ Advanced # << >>
<1> DEFINE N == Len(frames)
           x == IF version = 1 THEN 1 ELSE 0
<1>1. /\ IsAt(a, frames, N, Top.block, Top.next, Message)
      /\ Message \in MessagesOf(a) /\ Top.block \in Blocks(a) /\ Top.next \in Nat
  BY ReaderIsAt
<1>2. frames \in Seq(FrameSet(a))
  BY Zenon DEF Progress
<1>3. /\ N \in Nat \ {0} /\ Advanced \in Seq(FrameSet(a)) /\ Len(Advanced) = N
      /\ \A k \in 1 .. N - 1 : Advanced[k] = frames[k]
      /\ Advanced[N] = Frame(Top.block, Top.next + 1)
  BY <1>2, AdvancedFact, Zenon
<1>4. DOMAIN Advanced = 1 .. N
  BY <1>3, SeqDomain
<1> HIDE DEF N
<1>5. 1 .. N = (1 .. N - 1) \cup {N} \cup {}
  BY <1>3
<1>6. /\ N \in Nat /\ N + 1 \in Nat /\ N >= N /\ N + 1 >= N /\ N # N + 1 /\ {} \in SUBSET {N + 1}
      /\ x \in 0 .. 1 /\ (version = 2 => x = 0) /\ (version = 1 => x = 1)
  BY <1>3
<1>7. ~({} # {})
  OBVIOUS
<1> HIDE DEF x
<1>8. GoesOn(lost, frames, version, N, Top.block, Top.next, Message, Advanced, N, N + 1, {}, None, x)
  BY <1>3, <1>4, <1>5, <1>6, <1>7, Zenon DEF GoesOn
<1> QED
  BY <1>1, <1>3, <1>8, Taken, Zenon

\* The block a message names is one of the header.
LEMMA NamedBlock ==
  ASSUME NEW a \in DOMAIN File.blocks, NEW N, NEW t \in Blocks(a), NEW n, NEW m, IsAt(a, frames, N, t, n, m),
         IsNamed(m, m.to), NEW x \in Nat
  PROVE  Frame(m.to, x) \in FrameSet(a)
<1>1. n \in Used(t) /\ m = Msgs(t)[n]
  BY Zenon DEF IsAt
<1>2. m.to \in Onward(t)
  BY <1>1, OnwardMember
<1>3. m.to \in Blocks(a)
  BY <1>2, HeaderFacts
<1> QED
  BY <1>3 DEF Frame, FrameSet

\* new is s with e behind its N elements.
IsBehind(S, s, e, N, new) == /\ new \in Seq(S) /\ DOMAIN new = 1 .. N + 1
                             /\ \A k \in 1 .. N : new[k] = s[k]
                             /\ new[N + 1] = e

\* What Append puts behind a sequence.
LEMMA AppendLast ==
  ASSUME NEW S, NEW s \in Seq(S), NEW e \in S
  PROVE  IsBehind(S, s, e, Len(s), Append(s, e))
<1>1. /\ Append(s, e) \in Seq(S) /\ DOMAIN Append(s, e) = 1 .. Len(s) + 1
      /\ \A k \in 1 .. Len(s) : Append(s, e)[k] = s[k]
      /\ Append(s, e)[Len(s) + 1] = e
  OBVIOUS
<1> QED
  BY <1>1, Zenon DEF IsBehind

\* Version 1 goes on in the block named.
LEMMA PushStep ==
  ASSUME NEW a \in DOMAIN File.blocks, Progress(lost, a, frames, version, followed, messages), frames # << >>,
         Reading, ~AtEnd, ~(Message.type = "Unknown" /\ Message.mustUnderstand),
         IsNamed(Message, Message.to), version = 1, Message.to # lost, Len(frames) < MaxV1Depth,
         NEW kept \in Seq(MessagesOf(a)), NEW M, NEW V, IsKeeping(messages, M, Message, kept, V),
         NEW new, new = Append(Advanced, Frame(Message.to, 1))
  PROVE  Progress(lost, a, new, version, followed, kept) /\ new # << >>
<1> DEFINE N == Len(frames)
           c == Message.to
<1>1. /\ IsAt(a, frames, N, Top.block, Top.next, Message)
      /\ Message \in MessagesOf(a) /\ Top.block \in Blocks(a) /\ Top.next \in Nat
  BY ReaderIsAt
<1>2. frames \in Seq(FrameSet(a))
  BY Zenon DEF Progress
<1>3. /\ N \in Nat \ {0} /\ Advanced \in Seq(FrameSet(a)) /\ Len(Advanced) = N
      /\ \A k \in 1 .. N - 1 : Advanced[k] = frames[k]
      /\ Advanced[N] = Frame(Top.block, Top.next + 1)
  BY <1>2, AdvancedFact, Zenon
<1>4. Frame(c, 1) \in FrameSet(a)
  <2>1. 1 \in Nat
    OBVIOUS
  <2> QED
    BY <1>1, <2>1, NamedBlock
<1>5. /\ new \in Seq(FrameSet(a)) /\ DOMAIN new = 1 .. N + 1
      /\ \A k \in 1 .. N : new[k] = Advanced[k]
      /\ new[N + 1] = Frame(c, 1)
  <2> DEFINE S == FrameSet(a)
             s == Advanced
             e == Frame(c, 1)
  <2>1. s \in Seq(S) /\ e \in S /\ new = Append(s, e) /\ Len(s) = N /\ N \in Nat
    BY <1>3, <1>4
  <2> HIDE DEF S, s, e, N
  <2>2. IsBehind(S, s, e, Len(s), Append(s, e))
    BY <2>1, AppendLast, Zenon
  <2>3. IsBehind(S, s, e, N, new)
    BY <2>1, <2>2, Zenon
  <2> QED
    BY <2>3, Zenon DEF IsBehind, S, s, e
<1> HIDE DEF N, c
<1>6. 1 .. N + 1 = (1 .. N - 1) \cup {N} \cup {N + 1}
  BY <1>3
<1>7. /\ N \in Nat /\ N + 1 \in Nat /\ N >= N /\ N + 1 >= N /\ N # N + 1 /\ {N + 1} \in SUBSET {N + 1}
      /\ 1 \in 0 .. 1 /\ 1 # 2 /\ N < MaxV1Depth /\ {N + 1} # {}
  BY <1>3 DEF N
<1>8. /\ new[N] = Frame(Top.block, Top.next + 1)
      /\ \A k \in 1 .. N - 1 : new[k] = frames[k]
  <2>1. N \in 1 .. N /\ \A k \in 1 .. N - 1 : k \in 1 .. N
    BY <1>3
  <2> QED
    BY <1>3, <1>5, <2>1, Zenon
<1>9. IsNamed(Message, c) /\ c # lost
  BY DEF c
<1>10. GoesOn(lost, frames, version, N, Top.block, Top.next, Message, new, N, N + 1, {N + 1}, c, 1)
  BY <1>5, <1>6, <1>7, <1>8, <1>9, Zenon DEF GoesOn
<1> QED
  BY <1>1, <1>5, <1>10, Taken, Zenon

\* new is s with e before the last of its N elements.
IsBefore(S, s, e, N, new) == /\ new \in Seq(S) /\ DOMAIN new = 1 .. N + 1
                             /\ \A k \in 1 .. N - 1 : new[k] = s[k]
                             /\ new[N] = e /\ new[N + 1] = s[N]

\* What InsertAt puts before the last of a sequence.
LEMMA InsertLast ==
  ASSUME NEW S, NEW s \in Seq(S), NEW e \in S, s # << >>
  PROVE  IsBefore(S, s, e, Len(s), InsertAt(s, Len(s), e))
<1> DEFINE N == Len(s)
           u == SubSeq(s, 1, N - 1)
           w == SubSeq(s, N, N)
           v == u \o <<e>>
           new == InsertAt(s, N, e)
<1>1. new = v \o w
  BY DEF InsertAt
<1>2. u \in Seq(S) /\ Len(u) = N - 1 /\ \A k \in 1 .. N - 1 : u[k] = s[k]
  <2>1. N \in Nat /\ N # 0
    OBVIOUS
  <2>2. /\ u \in Seq(S) /\ Len(u) = IF 1 <= N - 1 THEN N - 1 - 1 + 1 ELSE 0
        /\ \A k \in 1 .. N - 1 - 1 + 1 : u[k] = s[1 + k - 1]
    <3>1. 1 \in 1 .. N + 1 /\ N - 1 \in 0 .. N
      BY <2>1
    <3>2. \A i \in 1 .. N - 1 : s[i] \in S
      BY <2>1
    <3> QED
      BY <2>1, <3>1, <3>2, SubSeqProperties
  <2> HIDE DEF N, u
  <2> QED
    BY <2>1, <2>2
<1>3. w \in Seq(S) /\ Len(w) = 1 /\ w[1] = s[N]
  OBVIOUS
<1>n. N \in Nat \ {0}
  OBVIOUS
<1> HIDE DEF u, w, N, new
<1>4. v \in Seq(S) /\ Len(v) = N /\ (\A k \in 1 .. N - 1 : v[k] = s[k]) /\ v[N] = e
  <2>1. /\ Append(u, e) \in Seq(S) /\ Len(Append(u, e)) = Len(u) + 1
        /\ (\A k \in 1 .. Len(u) : Append(u, e)[k] = u[k]) /\ Append(u, e)[Len(u) + 1] = e
    BY <1>2, AppendProperties
  <2>2. v = Append(u, e)
    BY <1>2
  <2> HIDE DEF v
  <2>3. Len(u) + 1 = N
    BY <1>2, <1>n
  <2> QED
    BY <1>2, <2>1, <2>2, <2>3
<1> HIDE DEF v
<1>5. new \in Seq(S) /\ Len(new) = N + 1 /\ (\A k \in 1 .. N : new[k] = v[k]) /\ new[N + 1] = w[1]
  <2>1. /\ v \o w \in Seq(S)
        /\ Len(v \o w) = Len(v) + Len(w)
        /\ \A i \in 1 .. Len(v) + Len(w) : (v \o w)[i] = IF i <= Len(v) THEN v[i] ELSE w[i - Len(v)]
    BY <1>3, <1>4, ConcatProperties
  <2>2. /\ new \in Seq(S) /\ Len(new) = N + 1
        /\ \A i \in 1 .. N + 1 : new[i] = IF i <= N THEN v[i] ELSE w[i - N]
    BY <1>1, <1>3, <1>4, <2>1, Zenon
  <2> QED
    BY <1>n, <2>2
<1>6. DOMAIN new = 1 .. N + 1
  BY <1>5
<1>7. IsBefore(S, s, e, N, new)
  BY <1>n, <1>3, <1>4, <1>5, <1>6 DEF IsBefore
<1> QED
  BY <1>7 DEF N, new

\* Version 2 puts the block named before its own.
LEMMA InsertStep ==
  ASSUME NEW a \in DOMAIN File.blocks, Progress(lost, a, frames, version, followed, messages), frames # << >>,
         Reading, ~AtEnd, ~(Message.type = "Unknown" /\ Message.mustUnderstand),
         IsNamed(Message, Message.to), version = 2,
         NEW kept \in Seq(MessagesOf(a)), NEW M, NEW V, IsKeeping(messages, M, Message, kept, V),
         NEW new, new = InsertAt(Advanced, Len(frames), Frame(Message.to, 0))
  PROVE  Progress(lost, a, new, version, followed, kept) /\ new # << >>
<1> DEFINE N == Len(frames)
           c == Message.to
<1>1. /\ IsAt(a, frames, N, Top.block, Top.next, Message)
      /\ Message \in MessagesOf(a) /\ Top.block \in Blocks(a) /\ Top.next \in Nat
  BY ReaderIsAt
<1>2. frames \in Seq(FrameSet(a))
  BY Zenon DEF Progress
<1>3. /\ N \in Nat \ {0} /\ Advanced \in Seq(FrameSet(a)) /\ Len(Advanced) = N
      /\ \A k \in 1 .. N - 1 : Advanced[k] = frames[k]
      /\ Advanced[N] = Frame(Top.block, Top.next + 1)
  BY <1>2, AdvancedFact, Zenon
<1>4. Frame(c, 0) \in FrameSet(a)
  <2>1. 0 \in Nat
    OBVIOUS
  <2> QED
    BY <1>1, <2>1, NamedBlock
<1>5. /\ new \in Seq(FrameSet(a)) /\ DOMAIN new = 1 .. N + 1
      /\ \A k \in 1 .. N - 1 : new[k] = Advanced[k]
      /\ new[N] = Frame(c, 0) /\ new[N + 1] = Advanced[N]
  <2> DEFINE S == FrameSet(a)
             s == Advanced
             e == Frame(c, 0)
  <2>1. s \in Seq(S) /\ e \in S /\ new = InsertAt(s, N, e) /\ Len(s) = N /\ s # << >>
    BY <1>3, <1>4
  <2> HIDE DEF S, s, e, N
  <2>2. IsBefore(S, s, e, Len(s), InsertAt(s, Len(s), e))
    BY <2>1, InsertLast, Zenon
  <2>3. IsBefore(S, s, e, N, new)
    BY <2>1, <2>2, Zenon
  <2> QED
    BY <2>3, Zenon DEF IsBefore, S, s, e
<1> HIDE DEF N, c
<1>6. 1 .. N + 1 = (1 .. N - 1) \cup {N + 1} \cup {N}
  BY <1>3
<1>7. /\ N \in Nat /\ N + 1 \in Nat /\ N >= N /\ N + 1 >= N /\ N # N + 1 /\ {N} \in SUBSET {N}
      /\ 0 \in 0 .. 1 /\ 1 # 2 /\ 0 # 1 /\ {N} # {}
  BY <1>3 DEF N
<1>8. IsNamed(Message, c)
  BY DEF c
<1>9. GoesOn(lost, frames, version, N, Top.block, Top.next, Message, new, N + 1, N, {N}, c, 0)
  <2>1. \A k \in 1 .. N - 1 : new[k] = frames[k]
    BY <1>3, <1>5
  <2>2. new[N + 1] = Frame(Top.block, Top.next + 1)
    BY <1>3, <1>5
  <2>3. N + 1 # N
    BY <1>7
  <2> QED
    BY <1>5, <1>6, <1>7, <1>8, <2>1, <2>2, <2>3, Zenon DEF GoesOn
<1> QED
  BY <1>1, <1>5, <1>9, Taken

\* The frames without their last.
LEMMA FrontFact ==
  ASSUME NEW S, NEW s \in Seq(S), s # << >>
  PROVE  LET N == Len(s)
         IN  /\ N \in Nat \ {0} /\ DOMAIN s = 1 .. N /\ (\A k \in 1 .. N : s[k] \in S)
             /\ Front(s) \in Seq(S) /\ Len(Front(s)) = N - 1 /\ DOMAIN Front(s) = 1 .. N - 1
             /\ \A k \in 1 .. N - 1 : Front(s)[k] = s[k]
<1> DEFINE N == Len(s)
           u == SubSeq(s, 1, N - 1)
<1>1. N \in Nat /\ N # 0 /\ DOMAIN s = 1 .. N /\ \A k \in 1 .. N : s[k] \in S
  OBVIOUS
<1>2. /\ u \in Seq(S) /\ Len(u) = IF 1 <= N - 1 THEN N - 1 - 1 + 1 ELSE 0
      /\ \A k \in 1 .. N - 1 - 1 + 1 : u[k] = s[1 + k - 1]
  <2>1. 1 \in Int /\ N - 1 \in Int /\ \A i \in 1 .. N - 1 : s[i] \in S
    BY <1>1
  <2> QED
    BY <2>1, SubSeqProperties
<1>3. Front(s) = u
  BY DEF Front
<1> HIDE DEF N, u
<1>4. Len(u) = N - 1 /\ u \in Seq(S) /\ \A k \in 1 .. N - 1 : u[k] = s[k]
  BY <1>1, <1>2
<1>5. DOMAIN u = 1 .. N - 1
  BY <1>1, <1>4
<1> QED
  BY <1>1, <1>3, <1>4, <1>5 DEF N

\* Where a reader is goes on, as long as it is reading.
LEMMA HeaderMoves ==
  ASSUME NEW a, parse' = parse, parse = "parsing",
         Progress(lost', a, frames', version', followed', messages') /\ frames' # << >>
  PROVE  HeaderInv(a)'
BY Zenon DEF HeaderInv

\* A header that is refused is none.
LEMMA HeaderFails ==
  ASSUME NEW a, NEW error \in Errors, Fails(error)
  PROVE  HeaderInv(a)'
<1>1. parse' \notin {"parsing", "parsed"}
  BY DEF Fails, Errors
<1> QED
  BY <1>1 DEF HeaderInv

\* Stepping over a message.
LEMMA SkipStep ==
  ASSUME NEW a \in DOMAIN File.blocks, HeaderInv(a), Skip, lost' = lost
  PROVE  HeaderInv(a)'
<1>1. /\ parse = "parsing" /\ Reading /\ ~AtEnd /\ Message.type = "Nil" /\ frames' = Advanced
      /\ version' = version /\ followed' = followed /\ messages' = messages /\ parse' = parse
  BY DEF Skip, Reading
<1>2. Progress(lost, a, frames, version, followed, messages) /\ frames # << >>
  BY <1>1, Zenon DEF HeaderInv
<1>3. ~(Message.type = "Unknown" /\ Message.mustUnderstand) /\ ~IsNamed(Message, Message.to) /\ ~IsKept(Message)
  BY <1>1 DEF IsNamed, IsKept
<1>4. Message \in MessagesOf(a)
  BY <1>1, <1>2, <1>3, ReaderIsAt
<1>5. messages \in Seq(MessagesOf(a))
  BY <1>2, Zenon DEF Progress
<1>6. IsKeeping(messages, Len(messages), Message, messages, {})
  BY <1>3, <1>4, <1>5, KeepOne, Zenon
<1>7. Progress(lost, a, Advanced, version, followed, messages) /\ Advanced # << >>
  BY <1>1, <1>2, <1>3, <1>5, <1>6, PlainStep
<1>8. Progress(lost', a, frames', version', followed', messages') /\ frames' # << >>
  BY <1>1, <1>7, Zenon
<1> QED
  BY <1>1, <1>8, HeaderMoves, Zenon

\* Keeping a message.
LEMMA KeepStep ==
  ASSUME NEW a \in DOMAIN File.blocks, HeaderInv(a), Keep, lost' = lost
  PROVE  HeaderInv(a)'
<1>1. /\ parse = "parsing" /\ Reading /\ ~AtEnd /\ IsKept(Message) /\ frames' = Advanced
      /\ version' = version /\ followed' = followed /\ messages' = Append(messages, Message) /\ parse' = parse
  BY DEF Keep, Reading
<1>2. Progress(lost, a, frames, version, followed, messages) /\ frames # << >>
  BY <1>1, Zenon DEF HeaderInv
<1>3. ~(Message.type = "Unknown" /\ Message.mustUnderstand) /\ ~IsNamed(Message, Message.to)
  BY <1>1 DEF IsNamed, IsKept
<1>4. Message \in MessagesOf(a)
  BY <1>1, <1>2, <1>3, ReaderIsAt
<1>5. messages \in Seq(MessagesOf(a))
  BY <1>2, Zenon DEF Progress
<1>6. /\ Append(messages, Message) \in Seq(MessagesOf(a))
      /\ IsKeeping(messages, Len(messages), Message, Append(messages, Message), {Len(messages) + 1})
  BY <1>1, <1>4, <1>5, KeepOne, Zenon
<1>7. Progress(lost, a, Advanced, version, followed, Append(messages, Message)) /\ Advanced # << >>
  BY <1>1, <1>2, <1>3, <1>6, PlainStep
<1>8. Progress(lost', a, frames', version', followed', messages') /\ frames' # << >>
  BY <1>1, <1>7, Zenon
<1> QED
  BY <1>1, <1>8, HeaderMoves, Zenon

\* A continuation of version 1.
LEMMA ContinueV1Step ==
  ASSUME NEW a \in DOMAIN File.blocks, HeaderInv(a), ContinueV1, lost' = lost
  PROVE  HeaderInv(a)'
<1>1. parse = "parsing" /\ Reading /\ ~AtEnd /\ Message.type = "Continuation" /\ version = 1
  BY DEF ContinueV1, Reading
<1>2. Progress(lost, a, frames, version, followed, messages) /\ frames # << >>
  BY <1>1, Zenon DEF HeaderInv
<1>3. ~(Message.type = "Unknown" /\ Message.mustUnderstand)
  BY <1>1
<1>4. Message \in MessagesOf(a)
  BY <1>1, <1>2, <1>3, ReaderIsAt
<1>5. messages \in Seq(MessagesOf(a))
  BY <1>2, Zenon DEF Progress
<1> DEFINE kept == Append(messages, Message)
<1>6. /\ kept \in Seq(MessagesOf(a))
      /\ IsKeeping(messages, Len(messages), Message, kept, {Len(messages) + 1})
  BY <1>1, <1>4, <1>5, KeepOne, Zenon
<1>7. CASE /\ Message.to = None /\ frames' = Advanced /\ messages' = kept
           /\ UNCHANGED <<version, followed, parse>>
  <2>1. ~IsNamed(Message, Message.to)
    BY <1>7 DEF IsNamed
  <2> HIDE DEF kept
  <2>2. Progress(lost, a, Advanced, version, followed, kept) /\ Advanced # << >>
    BY <1>1, <1>2, <1>3, <1>6, <2>1, PlainStep
  <2>3. version' = version /\ followed' = followed /\ parse' = parse
    BY <1>7
  <2>4. Progress(lost', a, frames', version', followed', messages') /\ frames' # << >>
    BY <1>7, <2>2, <2>3, Zenon
  <2> QED
    BY <1>1, <2>3, <2>4, HeaderMoves, Zenon
<1>8. CASE /\ Message.to # None /\ Len(frames) < MaxV1Depth /\ Readable(Message.to, BlockKind[1])
           /\ frames' = Append(Advanced, Frame(Message.to, 1)) /\ messages' = kept
           /\ UNCHANGED <<version, followed, parse>>
  <2>1. IsNamed(Message, Message.to) /\ Message.to # lost
    BY <1>1, <1>8 DEF IsNamed, Readable
  <2>2. frames' = Append(Advanced, Frame(Message.to, 1)) /\ Len(frames) < MaxV1Depth /\ messages' = kept
    BY <1>8
  <2>3. version' = version /\ followed' = followed /\ parse' = parse
    BY <1>8
  <2> HIDE DEF kept
  <2>4. Progress(lost, a, Append(Advanced, Frame(Message.to, 1)), version, followed, kept)
        /\ Append(Advanced, Frame(Message.to, 1)) # << >>
    BY <1>1, <1>2, <1>3, <1>6, <2>1, <2>2, PushStep
  <2>5. Progress(lost', a, frames', version', followed', messages') /\ frames' # << >>
    BY <2>2, <2>3, <2>4, Zenon
  <2> QED
    BY <1>1, <2>3, <2>5, HeaderMoves, Zenon
<1>9. CASE Fails("too deep") \/ Fails("damaged")
  BY <1>9, HeaderFails DEF Errors
<1> QED
  BY <1>7, <1>8, <1>9 DEF ContinueV1

\* A continuation of version 2.
LEMMA ContinueV2Step ==
  ASSUME NEW a \in DOMAIN File.blocks, HeaderInv(a), ContinueV2, lost' = lost
  PROVE  HeaderInv(a)'
<1>1. /\ parse = "parsing" /\ Reading /\ ~AtEnd /\ Message.type = "Continuation" /\ version = 2
      /\ version' = version /\ followed' = followed /\ messages' = messages /\ parse' = parse
  BY DEF ContinueV2, Reading
<1>2. Progress(lost, a, frames, version, followed, messages) /\ frames # << >>
  BY <1>1, Zenon DEF HeaderInv
<1>3. ~(Message.type = "Unknown" /\ Message.mustUnderstand) /\ ~IsKept(Message)
  BY <1>1 DEF IsKept
<1>4. Message \in MessagesOf(a)
  BY <1>1, <1>2, <1>3, ReaderIsAt
<1>5. messages \in Seq(MessagesOf(a))
  BY <1>2, Zenon DEF Progress
<1>6. IsKeeping(messages, Len(messages), Message, messages, {})
  BY <1>3, <1>4, <1>5, KeepOne, Zenon
<1>7. Progress(lost, a, frames', version, followed, messages) /\ frames' # << >>
  <2>1. CASE Message.to = None /\ frames' = Advanced
    <3>1. ~IsNamed(Message, Message.to)
      BY <2>1 DEF IsNamed
    <3>2. Progress(lost, a, Advanced, version, followed, messages) /\ Advanced # << >>
      BY <1>1, <1>2, <1>3, <1>5, <1>6, <3>1, PlainStep
    <3> QED
      BY <2>1, <3>2, Zenon
  <2>2. CASE Message.to # None /\ frames' = InsertAt(Advanced, Len(frames), Frame(Message.to, 0))
    <3>1. IsNamed(Message, Message.to)
      BY <1>1, <2>2 DEF IsNamed
    <3> DEFINE new == InsertAt(Advanced, Len(frames), Frame(Message.to, 0))
    <3>2. new = InsertAt(Advanced, Len(frames), Frame(Message.to, 0)) /\ frames' = new
      BY <2>2, Zenon
    <3> HIDE DEF new
    <3>3. Progress(lost, a, new, version, followed, messages) /\ new # << >>
      BY <1>1, <1>2, <1>3, <1>5, <1>6, <3>1, <3>2, InsertStep
    <3> QED
      BY <3>2, <3>3, Zenon
  <2> QED
    BY <2>1, <2>2, Zenon DEF ContinueV2
<1>8. Progress(lost', a, frames', version', followed', messages') /\ frames' # << >>
  BY <1>1, <1>7, Zenon
<1> QED
  BY <1>1, <1>8, HeaderMoves, Zenon

\* Opening a continuation.
LEMMA OpenStep ==
  ASSUME NEW a \in DOMAIN File.blocks, HeaderInv(a), OpenContinuation, lost' = lost
  PROVE  HeaderInv(a)'
<1>1. parse = "parsing" /\ Top.next = 0
  BY DEF OpenContinuation
<1>2. Progress(lost, a, frames, version, followed, messages) /\ frames # << >>
  BY <1>1, Zenon DEF HeaderInv
<1>3. CASE Fails("too deep") \/ Fails("damaged")
  BY <1>3, HeaderFails DEF Errors
<1>4. ASSUME followed < MaxContinuations, Readable(Top.block, BlockKind[2]),
             followed' = followed + 1, frames' = Advanced, UNCHANGED <<version, messages, parse>>
      PROVE  HeaderInv(a)'
  <2> DEFINE N == Len(frames)
             t == Top.block
             new == Advanced
             v == version
             fo == followed
             fr == frames
             ms == messages
             gone == lost
  <2>1. /\ fr \in Seq(FrameSet(a)) /\ ms \in Seq(MessagesOf(a)) /\ v \in 1 .. 2 /\ File.at[a].kind = HeaderKind[v]
        /\ fo \in Nat /\ fo <= MaxContinuations
        /\ v = 1 => Len(fr) <= MaxV1Depth /\ \A k \in DOMAIN fr : fr[k].next # 0
        /\ Within(fr)
        /\ \E K, O, P : Story(gone, a, K, O, P, fr, v, fo, ms)
        /\ \A chain : IsChain(a, chain) => Pursued(a, chain, fr, v, fo)
    BY <1>2, Zenon DEF Progress
  <2>2. /\ N \in Nat \ {0} /\ new \in Seq(FrameSet(a)) /\ Len(new) = N
        /\ \A k \in 1 .. N - 1 : new[k] = fr[k]
        /\ new[N] = Frame(t, Top.next + 1) /\ Top = fr[N]
    BY <1>2, <2>1, AdvancedFact, Zenon
  <2>3. /\ DOMAIN fr = 1 .. N /\ (\A k \in 1 .. N : fr[k] \in FrameSet(a)) /\ DOMAIN new = 1 .. N
        /\ N \in DOMAIN fr /\ N \in DOMAIN new
    <3>1. DOMAIN fr = 1 .. N /\ (\A k \in 1 .. N : fr[k] \in FrameSet(a))
      BY <2>1, SeqDomain, Zenon
    <3>2. DOMAIN new = 1 .. N
      BY <2>2, SeqDomain, Zenon
    <3>3. N \in 1 .. N
      <4> HIDE DEF N
      <4> QED
        BY <2>2
    <3> QED
      BY <3>1, <3>2, <3>3, Zenon
  <2>4. t = fr[N].block /\ fr[N].next = 0 /\ t # gone
    BY <1>1, <1>4, <2>2 DEF Readable
  <2>5. new[N] = Frame(t, 1) /\ new[N].next = 1
    BY <1>1, <2>2 DEF Frame
  <2>6. v = 2
    BY <2>1, <2>3, <2>4
  <2>7. new # << >>
    BY <2>2, <2>3
  <2>8. followed < MaxContinuations
    BY <1>4
  <2> HIDE DEF N, t, new, v, fo, fr, ms, gone
  <2>9. \E K, O, P : Story(gone, a, K, O, P, new, v, fo + 1, ms)
    <3>1. PICK K, O, P : Story(gone, a, K, O, P, fr, v, fo, ms)
      BY <2>1, Zenon
    <3>2. fo \in Nat
      BY <2>1, Zenon
    <3> QED
      BY <2>2, <2>3, <2>4, <2>5, <3>1, <3>2, OpenFrame
  <2>10. ASSUME NEW chain, IsChain(a, chain) PROVE Pursued(a, chain, new, v, fo + 1)
    <3>1. Pursued(a, chain, fr, 2, fo) /\ File.at[a].kind = HeaderKind[2] /\ fo \in Nat
      BY <2>1, <2>6, <2>10, Zenon
    <3>2. fo < MaxContinuations
      BY <2>8 DEF fo
    <3>3. Pursued(a, chain, new, 2, fo + 1)
      BY <2>2, <2>3, <2>4, <2>5, <2>10, <3>1, <3>2, PursueOpen
    <3> QED
      BY <2>6, <3>3, Zenon
  <2>11. Within(new)
    <3> SUFFICES ASSUME NEW k \in DOMAIN new, NEW i \in 1 .. new[k].next - 1 PROVE i \in Used(new[k].block)
      BY Zenon DEF Within
    <3>1. CASE k = N
      BY <2>5, <3>1
    <3>2. CASE k # N
      <4>1. k \in 1 .. N - 1 /\ k \in DOMAIN fr
        BY <2>2, <2>3, <3>2
      <4>2. new[k] = fr[k]
        BY <2>2, <4>1
      <4> QED
        BY <2>1, <4>1, <4>2, Zenon DEF Within
    <3> QED
      BY <3>1, <3>2
  <2>12. v # 1 /\ fo + 1 \in Nat /\ fo + 1 <= MaxContinuations
    BY <2>1, <2>6, <2>8, LimitsAssumption DEF fo
  <2>13. Progress(gone, a, new, v, fo + 1, ms)
    BY <2>1, <2>2, <2>9, <2>10, <2>11, <2>12, Zenon DEF Progress
  <2>14. parse' = parse /\ version' = version /\ followed' = followed + 1 /\ messages' = messages /\ frames' = Advanced
    BY <1>4
  <2>15. Progress(lost', a, frames', version', followed', messages') /\ frames' # << >>
    BY <2>7, <2>13, <2>14, Zenon DEF new, v, fo, ms, gone
  <2> QED
    BY <1>1, <2>14, <2>15, HeaderMoves, Zenon
<1> QED
  BY <1>3, <1>4 DEF OpenContinuation

\* Coming to the end of a block.
LEMMA EndStep ==
  ASSUME NEW a \in DOMAIN File.blocks, HeaderInv(a), EndBlock, lost' = lost
  PROVE  HeaderInv(a)'
<1>1. /\ parse = "parsing" /\ Top.next # 0 /\ AtEnd /\ frames' = Front(frames)
      /\ parse' = IF Len(frames) = 1 THEN "parsed" ELSE parse
      /\ version' = version /\ followed' = followed /\ messages' = messages
  BY DEF EndBlock, Reading
<1>2. Progress(lost, a, frames, version, followed, messages) /\ frames # << >>
  BY <1>1, Zenon DEF HeaderInv
<1> DEFINE N == Len(frames)
           new == Front(frames)
           v == version
           fo == followed
           fr == frames
           ms == messages
           gone == lost
<1>3. /\ fr \in Seq(FrameSet(a)) /\ ms \in Seq(MessagesOf(a)) /\ v \in 1 .. 2 /\ File.at[a].kind = HeaderKind[v]
      /\ fo \in Nat /\ fo <= MaxContinuations
      /\ v = 1 => Len(fr) <= MaxV1Depth /\ \A k \in DOMAIN fr : fr[k].next # 0
      /\ Within(fr)
      /\ \E K, O, P : Story(gone, a, K, O, P, fr, v, fo, ms)
      /\ \A chain : IsChain(a, chain) => Pursued(a, chain, fr, v, fo)
  BY <1>2, Zenon DEF Progress
<1>4. /\ N \in Nat \ {0} /\ DOMAIN fr = 1 .. N /\ (\A k \in 1 .. N : fr[k] \in FrameSet(a))
      /\ new \in Seq(FrameSet(a)) /\ Len(new) = N - 1 /\ DOMAIN new = 1 .. N - 1
      /\ \A k \in 1 .. N - 1 : new[k] = fr[k]
  BY <1>2, <1>3, FrontFact, Zenon
<1>5. fr[N].next # 0 /\ \A i \in Used(fr[N].block) : i \in Nat /\ i < fr[N].next
  <2>1. Top = fr[N]
    BY <1>2, Reader
  <2> QED
    BY <1>1, <1>2, <2>1, AtMessage
<1> HIDE DEF N, new, v, fo, fr, ms, gone
<1>6. \E K, O, P : Story(gone, a, K, O, P, new, v, fo, ms)
  <2>1. PICK K, O, P : Story(gone, a, K, O, P, fr, v, fo, ms)
    BY <1>3, Zenon
  <2>2. \A i \in Used(fr[N].block) : i < fr[N].next
    BY <1>5, Zenon
  <2>3. Story(gone, a, K, O, P, new, v, fo, ms)
    BY <1>4, <1>5, <2>1, <2>2, EndFrame
  <2> QED
    BY <2>3, Zenon
<1>7. ASSUME NEW chain, IsChain(a, chain) PROVE Pursued(a, chain, new, v, fo)
  <2>1. Pursued(a, chain, fr, v, fo)
    BY <1>3, <1>7, Zenon
  <2> QED
    BY <1>4, <1>5, <2>1, PursueEnd
<1>8. \A k \in DOMAIN new : k \in DOMAIN fr /\ new[k] = fr[k]
  BY <1>4
<1>9. Within(new)
  BY <1>3, <1>8, Zenon DEF Within
<1>10. v = 1 => Len(new) <= MaxV1Depth /\ \A k \in DOMAIN new : new[k].next # 0
  <2> SUFFICES ASSUME v = 1 PROVE Len(new) <= MaxV1Depth /\ \A k \in DOMAIN new : new[k].next # 0
    OBVIOUS
  <2>1. N <= MaxV1Depth
    BY <1>3 DEF N, fr
  <2>2. N - 1 <= MaxV1Depth
    BY <1>4, <2>1, LimitsAssumption
  <2>3. \A k \in DOMAIN fr : fr[k].next # 0
    BY <1>3
  <2> QED
    BY <1>4, <1>8, <2>2, <2>3
<1>11. Progress(gone, a, new, v, fo, ms)
  BY <1>3, <1>4, <1>6, <1>7, <1>9, <1>10, Zenon DEF Progress
<1>12. CASE N # 1
  <2>1. new # << >> /\ parse' = parse
    <3>1. Len(new) # 0
      BY <1>4, <1>12
    <3>2. Len(<< >>) = 0
      OBVIOUS
    <3> QED
      BY <1>1, <1>12, <3>1, <3>2, Zenon DEF N
  <2>2. Progress(lost', a, frames', version', followed', messages') /\ frames' # << >>
    BY <1>1, <1>11, <2>1, Zenon DEF new, v, fo, ms, gone
  <2> QED
    BY <1>1, <2>1, <2>2, HeaderMoves, Zenon
<1>13. CASE N = 1
  <2>1. DOMAIN new = {}
    BY <1>4, <1>13
  <2>2. PICK K, O, P : Story(gone, a, K, O, P, new, v, fo, ms)
    BY <1>6, Zenon
  <2>3. a \notin DOMAIN File.refused /\ gone \notin Blocks(a) /\ IsWhole(a, ms)
    BY <1>3, <1>7, <2>1, <2>2, HeaderDone
  <2>4. Sound(gone, a, ms)
    BY <1>3, <2>3, Zenon DEF Sound
  <2>5. parse' = "parsed"
    BY <1>1, <1>13 DEF N
  <2>6. Sound(lost', a, messages')
    BY <1>1, <2>4, Zenon DEF gone, ms
  <2>7. parse' # "parsing"
    BY <2>5
  <2> QED
    BY <2>5, <2>6, <2>7, Zenon DEF HeaderInv
<1> QED
  BY <1>12, <1>13

\* Every step of a parser.
LEMMA HeaderStep ==
  ASSUME NEW a \in DOMAIN File.blocks, HeaderInv(a), ParseStep, lost' = lost
  PROVE  HeaderInv(a)'
<1>1. CASE Refuse
  <2>1. Fails("unsupported") /\ "unsupported" \in Errors
    BY <1>1 DEF Refuse, Errors
  <2> QED
    BY <2>1, HeaderFails, Zenon
<1> QED
  BY <1>1, SkipStep, KeepStep, ContinueV1Step, ContinueV2Step, OpenStep, EndStep DEF ParseStep

-----------------------------------------------------------------------------
(* The invariant of lookups. *)

CacheSound(gone, c) == \A x \in DOMAIN c : x \in DOMAIN File.blocks /\ Sound(gone, x, c[x])

\* Entries of a group lead to objects, or to nothing.
IsEntries(s) == \E E : s \in Seq(E) /\ \A e \in E : e.to \in Objects

\* The header being read for an object is read as HeaderInv says.
HereInv == /\ here \in Objects
           /\ here \in DOMAIN File.blocks => HeaderInv(here)
           /\ here \notin DOMAIN File.blocks => parse \notin {"parsing", "parsed"}

LookupInv == /\ CacheSound(lost, cache)
             /\ handles \subseteq Objects
             /\ answer.is = "dataset" => answer.at \in Objects
             /\ purpose \in {"open", "walk", "children", "target", "item", "attrs"} => HereInv
             /\ purpose \in {"index", "entries", "item"} => IsEntries(items)
             /\ purpose = "item" => items # << >>

\* Nothing is at the address of nothing.
LEMMA NoneIsNowhere == None \notin DOMAIN File.blocks /\ None \notin Address /\ Root \in Objects
<1>1. None \notin Address
  BY DamagesAssumption DEF Address
<1>2. \A a \in DOMAIN File.blocks : a \in Address
  BY HeaderFacts
<1> QED
  BY <1>1, <1>2, LinksAssumption

\* A cache with one more header.
LEMMA RememberedSound ==
  ASSUME CacheSound(lost, cache), HereInv, parse = "parsed"
  PROVE  CacheSound(lost, Remembered)
<1>1. here \in DOMAIN File.blocks /\ Sound(lost, here, messages)
  BY Zenon DEF HereInv, HeaderInv
<1>2. ASSUME Remembered = CacheWith(here) PROVE CacheSound(lost, Remembered)
  <2> DEFINE new == CacheWith(here)
  <2>2. DOMAIN new = {here} \cup DOMAIN cache /\ new[here] = messages
        /\ \A x \in DOMAIN cache : x # here => new[x] = cache[x]
    BY DEF CacheWith
  <2> HIDE DEF new
  <2>3. CacheSound(lost, new)
    <3> SUFFICES ASSUME NEW x \in DOMAIN new PROVE x \in DOMAIN File.blocks /\ Sound(lost, x, new[x])
      BY Zenon DEF CacheSound
    <3>1. CASE x = here
      BY <1>1, <2>2, <3>1, Zenon
    <3>2. CASE x # here
      <4>1. x \in DOMAIN cache /\ new[x] = cache[x]
        BY <2>2, <3>2
      <4> QED
        BY <4>1, Zenon DEF CacheSound
    <3> QED
      BY <3>1, <3>2
  <2> QED
    BY <1>2, <2>3, Zenon DEF new
<1>3. Remembered = cache \/ Remembered = CacheWith(here)
  BY Zenon DEF Remembered
<1> QED
  BY <1>2, <1>3, Zenon

\* The first element that passes a test is one of the sequence.
LEMMA NamedIsOne ==
  ASSUME NEW S, NEW s \in Seq(S), NEW name, Named(s, name) # 0
  PROVE  Named(s, name) \in 1 .. Len(s) /\ s[Named(s, name)] \in S
<1> DEFINE I == {i \in 1 .. Len(s) : s[i].name = name}
<1>1. Named(s, name) = IF I # {} THEN CHOOSE x \in I : \A y \in I : x <= y ELSE 0
  BY DEF Named, SelectInSeq, Min
<1>2. I \in SUBSET Nat /\ I \subseteq 1 .. Len(s)
  OBVIOUS
<1> HIDE DEF I
<1>3. I # {}
  BY <1>1
<1>4. \E m \in I : \A r \in I : m <= r
  BY <1>2, <1>3, NatMin
<1>5. Named(s, name) \in I
  BY <1>1, <1>3, <1>4
<1>6. \A k \in 1 .. Len(s) : s[k] \in S
  OBVIOUS
<1> QED
  BY <1>2, <1>5, <1>6, Zenon

\* The links among messages, in order.
LEMMA HardLinksFact ==
  ASSUME NEW S, NEW ms \in Seq(S)
  PROVE  HardLinks(ms) \in Seq({m \in S : IsEntry(m)})
<1> DEFINE E == {m \in S : IsEntry(m)}
           n == Len(ms)
           step == [i \in 1 .. n |-> [l \in Seq(E) |-> IF IsEntry(ms[i]) THEN Append(l, ms[i]) ELSE l]]
           Is(u) == u = [i \in 0 .. n |-> IF i = 0 THEN << >>
                                          ELSE IF IsEntry(ms[i]) THEN Append(u[i-1], ms[i]) ELSE u[i-1]]
           among == CHOOSE u : Is(u)
<1>1. n \in Nat /\ \A i \in 1 .. n : ms[i] \in S
  OBVIOUS
<1>2. HardLinks(ms) = among[n]
  BY DEF HardLinks
<1>3. step \in [1 .. n -> [Seq(E) -> Seq(E)]]
  <2>1. ASSUME NEW i \in 1 .. n, NEW l \in Seq(E) PROVE (IF IsEntry(ms[i]) THEN Append(l, ms[i]) ELSE l) \in Seq(E)
    <3>1. CASE IsEntry(ms[i])
      <4>1. ms[i] \in E
        BY <1>1, <3>1
      <4> HIDE DEF E
      <4> QED
        BY <3>1, <4>1
    <3>2. CASE ~IsEntry(ms[i])
      BY <3>2
    <3> QED
      BY <3>1, <3>2
  <2> QED
    BY <2>1
<1>4. << >> \in Seq(E)
  OBVIOUS
<1> HIDE DEF n, E
<1>5. PICK u \in [0 .. n -> Seq(E)] : IsFold(u, n, << >>, step)
  <2> HIDE DEF step
  <2> QED
    BY <1>1, <1>3, <1>4, FoldExists
<1>6. Is(u)
  <2>1. ASSUME NEW i \in 0 .. n
        PROVE  u[i] = IF i = 0 THEN << >> ELSE IF IsEntry(ms[i]) THEN Append(u[i-1], ms[i]) ELSE u[i-1]
    <3>1. CASE i = 0
      BY <1>5, <3>1 DEF IsFold
    <3>2. CASE i # 0
      <4>1. i \in 1 .. n /\ i - 1 \in 0 .. n
        BY <1>1, <3>2
      <4>2. u[i] = step[i][u[i-1]]
        BY <1>5, <4>1 DEF IsFold
      <4>3. u[i-1] \in Seq(E)
        BY <4>1
      <4> QED
        BY <3>2, <4>1, <4>2, <4>3
    <3> QED
      BY <3>1, <3>2
  <2>2. u = [i \in 0 .. n |-> u[i]]
    OBVIOUS
  <2> HIDE DEF step
  <2>3. [i \in 0 .. n |-> u[i]] = [i \in 0 .. n |-> IF i = 0 THEN << >>
                                     ELSE IF IsEntry(ms[i]) THEN Append(u[i-1], ms[i]) ELSE u[i-1]]
    BY <2>1, Zenon
  <2> QED
    BY <2>2, <2>3, Zenon
<1>7. Is(among)
  BY <1>6, Zenon
<1> HIDE DEF among
<1>8. /\ among[0] = << >>
      /\ \A i \in 1 .. n : among[i] = IF IsEntry(ms[i]) THEN Append(among[i-1], ms[i]) ELSE among[i-1]
  <2>1. \A i \in 0 .. n : among[i] = IF i = 0 THEN << >>
                                     ELSE IF IsEntry(ms[i]) THEN Append(among[i-1], ms[i]) ELSE among[i-1]
    BY <1>7, Zenon
  <2>2. 0 \in 0 .. n /\ \A i \in 1 .. n : i \in 0 .. n /\ i # 0
    BY <1>1
  <2> QED
    BY <2>1, <2>2, Zenon
<1> DEFINE S0 == {m \in 0 .. n : among[m] \in Seq(E)}
<1>9. ASSUME NEW m \in 0 .. n - 1, among[m] \in Seq(E) PROVE among[m + 1] \in Seq(E)
  <2>1. m + 1 \in 1 .. n /\ (m + 1) - 1 = m
    BY <1>1
  <2>2. among[m + 1] = IF IsEntry(ms[m + 1]) THEN Append(among[m], ms[m + 1]) ELSE among[m]
    <3>1. among[m + 1] = IF IsEntry(ms[m + 1]) THEN Append(among[(m + 1) - 1], ms[m + 1]) ELSE among[(m + 1) - 1]
      BY <1>8, <2>1, Zenon
    <3> QED
      BY <2>1, <3>1, Zenon
  <2>3. CASE IsEntry(ms[m + 1])
    <3>1. ms[m + 1] \in E
      BY <1>1, <2>1, <2>3, Zenon DEF E
    <3> QED
      BY <1>9, <2>2, <2>3, <3>1
  <2>4. CASE ~IsEntry(ms[m + 1])
    BY <1>9, <2>2, <2>4
  <2> QED
    BY <2>3, <2>4
<1>10. 0 .. n \subseteq S0
  <2>1. 0 \in S0
    <3>1. 0 \in 0 .. n
      BY <1>1
    <3>2. among[0] \in Seq(E)
      BY <1>4, <1>8, Zenon
    <3> QED
      BY <3>1, <3>2, Zenon
  <2>2. S0 \in SUBSET (0 .. n) /\ \A m \in 0 .. n - 1 : m \in S0 => m + 1 \in S0
    BY <1>1, <1>9
  <2> HIDE DEF S0
  <2> QED
    BY <1>1, <2>1, <2>2, RangeInduction
<1>11. among[n] \in Seq(E)
  BY <1>1, <1>10
<1> QED
  BY <1>2, <1>11, Zenon DEF E

\* What a reader looks at next, when it is an object.
LEMMA LookAtFact ==
  ASSUME CacheSound(lost, cache), NEW a \in Objects, NEW for, LookAt(a, for), lost' = lost
  PROVE  HereInv' /\ purpose' = for
<1>1. here' = a /\ purpose' = for
  BY DEF LookAt
<1>2. CASE a \in DOMAIN cache /\ parse' = "parsed" /\ messages' = cache[a]
  <2>1. a \in DOMAIN File.blocks /\ Sound(lost, a, cache[a])
    BY <1>2, Zenon DEF CacheSound
  <2>2. Sound(lost', a, messages') /\ parse' # "parsing"
    BY <1>2, <2>1
  <2>3. HeaderInv(a)'
    BY <1>2, <2>2, Zenon DEF HeaderInv
  <2> QED
    BY <1>1, <2>1, <2>3, Zenon DEF HereInv
<1>3. CASE parse' = "idle"
  <2>1. parse' \notin {"parsing", "parsed"}
    BY <1>3
  <2>2. parse' # "parsing" /\ parse' # "parsed"
    BY <1>3
  <2>3. HeaderInv(a)'
    BY <2>2, Zenon DEF HeaderInv
  <2> QED
    BY <1>1, <2>1, <2>3, Zenon DEF HereInv
<1>4. \/ a \in DOMAIN cache /\ parse' = "parsed" /\ messages' = cache[a]
      \/ parse' = "idle"
  BY DEF LookAt
<1> QED
  BY <1>1, <1>2, <1>3, <1>4, Zenon

-----------------------------------------------------------------------------
(* One lemma for each action of a lookup. *)

\* The entries of one leaf behind those of others.
LEMMA EntriesJoined ==
  ASSUME NEW s, NEW t, IsEntries(s), IsEntries(t)
  PROVE  IsEntries(s \o t)
<1>1. PICK E : s \in Seq(E) /\ \A e \in E : e.to \in Objects
  BY Zenon DEF IsEntries
<1>2. PICK F : t \in Seq(F) /\ \A e \in F : e.to \in Objects
  BY Zenon DEF IsEntries
<1> DEFINE B == E \cup F
<1>3. \A e \in B : e.to \in Objects
  BY <1>1, <1>2
<1>4. s \in Seq(B) /\ t \in Seq(B)
  BY <1>1, <1>2
<1> HIDE DEF B
<1>5. s \o t \in Seq(B)
  BY <1>4
<1> QED
  BY <1>3, <1>5, Zenon DEF IsEntries

\* The rest of a group's entries, and where the first one leads.
LEMMA EntriesRest ==
  ASSUME NEW s, IsEntries(s), s # << >>
  PROVE  IsEntries(Tail(s)) /\ Head(s).to \in Objects
<1>1. PICK E : s \in Seq(E) /\ \A e \in E : e.to \in Objects
  BY Zenon DEF IsEntries
<1>2. Tail(s) \in Seq(E) /\ Head(s) \in E
  BY <1>1
<1> QED
  BY <1>1, <1>2, Zenon DEF IsEntries

\* No entries.
LEMMA EntriesNone == IsEntries(<< >>)
<1> DEFINE E == {}
<1>1. << >> \in Seq(E) /\ \A e \in E : e.to \in Objects
  OBVIOUS
<1> HIDE DEF E
<1> QED
  BY <1>1, Zenon DEF IsEntries

\* A step after which nothing of an object is at hand but what is cached.
LEMMA Quiet ==
  ASSUME LookupInv, lost' = lost, cache' \in {cache, Remembered}, cache' = cache \/ (HereInv /\ parse = "parsed"),
         handles' \subseteq Objects, answer'.is = "dataset" => answer'.at \in Objects,
         purpose' \notin {"open", "walk", "children", "target", "item", "attrs", "index", "entries"}
  PROVE  LookupInv'
<1>1. CacheSound(lost', cache')
  <2>1. CacheSound(lost, cache)
    BY Zenon DEF LookupInv
  <2>2. CASE cache' = cache
    BY <2>1, <2>2, Zenon
  <2>3. CASE cache' # cache
    <3>1. HereInv /\ parse = "parsed" /\ cache' = Remembered
      BY <2>3
    <3>2. CacheSound(lost, Remembered)
      BY <2>1, <3>1, RememberedSound, Zenon
    <3> QED
      BY <3>1, <3>2, Zenon
  <2> QED
    BY <2>2, <2>3
<1>2. /\ purpose' \notin {"open", "walk", "children", "target", "item", "attrs"}
      /\ purpose' \notin {"index", "entries", "item"} /\ purpose' # "item"
  OBVIOUS
<1> QED
  BY <1>1, <1>2, Zenon DEF LookupInv

\* A step after which a header is to be looked at.
LEMMA Looking ==
  ASSUME LookupInv, lost' = lost, cache' = cache, handles' = handles, answer' = answer \/ answer' = [is |-> "none"],
         NEW a \in Objects, NEW for \in {"walk", "children", "target", "item", "attrs"}, LookAt(a, for),
         for = "item" => items' = items /\ IsEntries(items) /\ items # << >>
  PROVE  LookupInv'
<1>1. CacheSound(lost, cache) /\ handles \subseteq Objects /\ (answer.is = "dataset" => answer.at \in Objects)
  BY Zenon DEF LookupInv
<1>2. HereInv' /\ purpose' = for
  BY <1>1, LookAtFact
<1>3. purpose' \notin {"index", "entries"}
  BY <1>2
<1>4. answer'.is = "dataset" => answer'.at \in Objects
  BY <1>1
<1>5. CacheSound(lost', cache') /\ handles' \subseteq Objects
  BY <1>1, Zenon
<1>6. purpose' \in {"index", "entries", "item"} => purpose' = "item"
  BY <1>3
<1>7. purpose' = "item" => IsEntries(items') /\ items' # << >>
  BY <1>2, Zenon
<1> QED
  BY <1>2, <1>4, <1>5, <1>6, <1>7, Zenon DEF LookupInv

\* A step after which entries are at hand.
LEMMA Listed ==
  ASSUME LookupInv, lost' = lost, cache' \in {cache, Remembered}, cache' = cache \/ (HereInv /\ parse = "parsed"),
         handles' = handles, answer' = answer, purpose' \in {"index", "entries"}, IsEntries(items')
  PROVE  LookupInv'
<1>1. CacheSound(lost', cache')
  <2>1. CacheSound(lost, cache)
    BY Zenon DEF LookupInv
  <2>2. CASE cache' = cache
    BY <2>1, <2>2, Zenon
  <2>3. CASE cache' # cache
    <3>1. HereInv /\ parse = "parsed" /\ cache' = Remembered
      BY <2>3
    <3>2. CacheSound(lost, Remembered)
      BY <2>1, <3>1, RememberedSound, Zenon
    <3> QED
      BY <3>1, <3>2, Zenon
  <2> QED
    BY <2>2, <2>3
<1>2. purpose' \notin {"open", "walk", "children", "target", "item", "attrs"} /\ purpose' # "item"
  OBVIOUS
<1>3. handles' \subseteq Objects /\ (answer'.is = "dataset" => answer'.at \in Objects)
  BY Zenon DEF LookupInv
<1> QED
  BY <1>1, <1>2, <1>3, Zenon DEF LookupInv

\* A question.
LEMMA AskInv == LookupInv /\ Ask => LookupInv'
<1> SUFFICES ASSUME LookupInv, Ask PROVE LookupInv'
  OBVIOUS
<1>1. handles \subseteq Objects /\ Root \in Objects
  BY NoneIsNowhere DEF LookupInv
<1>2. lost' = lost /\ cache' = cache
  BY DEF Ask
<1>3. ASSUME NEW r \in Requests, r.op \in {"member", "subgroup", "datasets", "groups"}, LookAt(r.from, "children"),
             answer' = [is |-> "none"], handles' = handles
      PROVE  LookupInv'
  <2>1. r.from \in Objects
    <3>1. r.from \in {Root} \cup handles
      BY DEF Requests
    <3> QED
      BY <1>1, <3>1
  <2>2. "children" \in {"walk", "children", "target", "item", "attrs"} /\ "children" # "item"
    OBVIOUS
  <2> QED
    BY <1>2, <1>3, <2>1, <2>2, Looking, Zenon
<1>4. ASSUME NEW for \in {"walk", "target"}, LookAt(Root, for), answer' = [is |-> "none"], handles' = handles
      PROVE  LookupInv'
  <2>1. for \in {"walk", "children", "target", "item", "attrs"} /\ for # "item"
    OBVIOUS
  <2> QED
    BY <1>1, <1>2, <1>4, <2>1, Looking, Zenon
<1>5. ASSUME HandOut(Root) PROVE LookupInv'
  <2>1. handles' = handles \cup {Root} /\ answer'.is = "group" /\ purpose' = "none"
    BY <1>5 DEF HandOut, Answer
  <2> QED
    BY <1>1, <1>2, <2>1, Quiet
<1> QED
  BY <1>3, <1>4, <1>5 DEF Ask

\* A step of the parser.
LEMMA ParseInv == LookupInv /\ Parse => LookupInv'
<1> SUFFICES ASSUME LookupInv, Parse PROVE LookupInv'
  OBVIOUS
<1>1. /\ lost' = lost /\ cache' = cache /\ handles' = handles /\ answer' = answer /\ here' = here
      /\ purpose' = purpose /\ items' = items
  BY DEF Parse, walkVars
<1>2. ASSUME HereInv PROVE HereInv'
  <2>1. CASE here \in DOMAIN File.blocks
    <3>1. PICK a \in DOMAIN File.blocks : a = here
      BY <2>1
    <3>2. HeaderInv(a)
      BY <1>2, <3>1, Zenon DEF HereInv
    <3>3. (parse = "idle" /\ OpenHeader(a)) \/ ParseStep
      BY <3>1, Zenon DEF Parse
    <3>4. HeaderInv(a)'
      <4>1. CASE parse = "idle" /\ OpenHeader(a)
        BY <1>1, <4>1, BeginStep
      <4>2. CASE ParseStep
        BY <1>1, <3>2, <4>2, HeaderStep
      <4> QED
        BY <3>3, <4>1, <4>2
    <3>5. here \in Objects
      BY <1>2, Zenon DEF HereInv
    <3> QED
      BY <1>1, <3>1, <3>4, <3>5, Zenon DEF HereInv, HeaderInv
  <2>2. CASE here \notin DOMAIN File.blocks
    <3>1. here = None /\ here \notin Address /\ parse \notin {"parsing", "parsed"} /\ here \in Objects
      BY <1>2, <2>2, NoneIsNowhere DEF HereInv, Objects
    <3>2. ~ParseStep
      BY <3>1 DEF ParseStep, Skip, Refuse, Keep, ContinueV1, ContinueV2, OpenContinuation, EndBlock, Reading
    <3>3. OpenHeader(here)
      BY <3>2 DEF Parse
    <3>4. \A v \in 1 .. 2 : ~Readable(here, HeaderKind[v])
      BY <3>1 DEF Readable
    <3>5. parse' = "damaged"
      BY <3>3, <3>4 DEF OpenHeader, Fails
    <3>6. parse' \notin {"parsing", "parsed"}
      BY <3>5
    <3> QED
      BY <1>1, <2>2, <3>1, <3>6, Zenon DEF HereInv
  <2> QED
    BY <2>1, <2>2
<1> QED
  BY <1>1, <1>2, Zenon DEF LookupInv

\* An error of the parser.
LEMMA ParseFailsInv == LookupInv /\ ParseFails => LookupInv'
<1> SUFFICES ASSUME LookupInv, ParseFails PROVE LookupInv'
  OBVIOUS
<1>1. answer'.is # "dataset" /\ purpose' = "none" /\ lost' = lost /\ cache' = cache /\ handles' = handles
  BY DEF ParseFails, Answer, Errors, walkVars
<1>2. handles' \subseteq Objects
  BY <1>1, Zenon DEF LookupInv
<1> QED
  BY <1>1, <1>2, Quiet

\* A header that has been read for an object.
LEMMA HereParsed ==
  ASSUME LookupInv, Parsed, purpose \in {"open", "walk", "children", "target", "item", "attrs"}
  PROVE  /\ HereInv /\ parse = "parsed" /\ here \in DOMAIN File.blocks /\ Sound(lost, here, messages)
         /\ handles \subseteq Objects
<1>1. HereInv /\ handles \subseteq Objects
  BY Zenon DEF LookupInv
<1>2. parse = "parsed"
  BY DEF Parsed
<1> QED
  BY <1>1, <1>2 DEF HereInv, HeaderInv

\* The file is opened.
LEMMA OpenedInv == LookupInv /\ Opened => LookupInv'
<1> SUFFICES ASSUME LookupInv, Opened PROVE LookupInv'
  OBVIOUS
<1>1. /\ answer'.is # "dataset" /\ purpose' = "none" /\ lost' = lost /\ cache' = Remembered /\ handles' = {Root}
      /\ Parsed /\ purpose = "open"
  BY DEF Opened, Answer
<1>2. HereInv /\ parse = "parsed" /\ Root \in Objects
  BY <1>1, HereParsed, NoneIsNowhere
<1> QED
  BY <1>1, <1>2, Quiet

\* A dataset, or another object, at the end of a path.
LEMMA TargetInv == LookupInv /\ Target => LookupInv'
<1> SUFFICES ASSUME LookupInv, Target PROVE LookupInv'
  OBVIOUS
<1>1. /\ purpose' = "none" /\ lost' = lost /\ cache' = Remembered /\ handles' = handles
      /\ Parsed /\ purpose = "target"
  BY DEF Target, Answer, walkVars
<1>2. HereInv /\ parse = "parsed" /\ handles \subseteq Objects
  BY <1>1, HereParsed
<1>3. here \in Objects
  BY <1>2 DEF HereInv
<1>4. answer'.is = "dataset" => answer'.at \in Objects
  BY <1>3 DEF Target, Answer
<1> QED
  BY <1>1, <1>2, <1>4, Quiet

\* Listing a group begins.
LEMMA ListInv == LookupInv /\ (ListV1 \/ ListDense \/ ListCompact) => LookupInv'
<1> SUFFICES ASSUME LookupInv, ListV1 \/ ListDense \/ ListCompact PROVE LookupInv'
  OBVIOUS
<1>1. /\ lost' = lost /\ cache' = Remembered /\ handles' = handles
      /\ Parsed /\ purpose \in {"walk", "children"}
  BY DEF ListV1, ListDense, ListCompact, AtGroup
<1>2. /\ HereInv /\ parse = "parsed" /\ handles \subseteq Objects
      /\ here \in DOMAIN File.blocks /\ Sound(lost, here, messages)
  <2>1. purpose \in {"open", "walk", "children", "target", "item", "attrs"}
    BY <1>1
  <2> QED
    BY <1>1, <2>1, HereParsed
<1>3. CASE purpose' = "index" /\ answer' = answer /\ items' = << >>
  <2>1. IsEntries(items') /\ purpose' \in {"index", "entries"}
    BY <1>3, EntriesNone
  <2> QED
    BY <1>1, <1>2, <1>3, <2>1, Listed
<1>4. CASE Answer([is |-> "damaged"])
  <2>1. answer'.is # "dataset" /\ purpose' = "none"
    BY <1>4 DEF Answer
  <2> QED
    BY <1>1, <1>2, <2>1, Quiet
<1>5. CASE purpose' = "index" /\ answer' = answer /\ items' = HardLinks(messages)
  <2> DEFINE S == MessagesOf(here)
             E == {m \in S : IsEntry(m)}
  <2>1. messages \in Seq(S)
    BY <1>2, Zenon DEF Sound
  <2>2. HardLinks(messages) \in Seq(E)
    <3> HIDE DEF S
    <3> QED
      BY <2>1, HardLinksFact
  <2>3. ASSUME NEW e \in E PROVE e.to \in Objects
    <3>1. e \in S /\ e.type = "Link"
      BY DEF IsEntry
    <3>2. PICK b \in File.blocks[here] : e \in Range(Msgs(b))
      BY <3>1, Zenon DEF MessagesOf, Blocks
    <3>3. PICK i \in DOMAIN Msgs(b) : e = Msgs(b)[i]
      BY <3>2 DEF Range
    <3> QED
      BY <1>2, <3>1, <3>3, LinksAssumption, Zenon
  <2> HIDE DEF E
  <2>4. IsEntries(items') /\ purpose' \in {"index", "entries"}
    BY <1>5, <2>2, <2>3 DEF IsEntries
  <2> QED
    BY <1>1, <1>2, <1>5, <2>4, Listed
<1>6. ListV1 => (purpose' = "index" /\ answer' = answer /\ items' = << >>) \/ Answer([is |-> "damaged"])
  BY DEF ListV1
<1>7. ListDense => (purpose' = "index" /\ answer' = answer /\ items' = << >>) \/ Answer([is |-> "damaged"])
  BY DEF ListDense
<1>8. ListCompact => purpose' = "index" /\ answer' = answer /\ items' = HardLinks(messages)
  BY DEF ListCompact
<1> QED
  BY <1>3, <1>4, <1>5, <1>6, <1>7, <1>8

\* A leaf of an index.
LEMMA LeafInv ==
  ASSUME LookupInv, lost' = lost, cache' = cache, handles' = handles, purpose = "index",
         \/ Answer([is |-> "damaged"])
         \/ \E new : IsEntries(new) /\ items' = items \o new /\ purpose' = purpose /\ answer' = answer
  PROVE  LookupInv'
<1>0. handles \subseteq Objects /\ IsEntries(items)
  BY DEF LookupInv
<1>1. CASE Answer([is |-> "damaged"])
  <2>1. answer'.is # "dataset" /\ purpose' = "none"
    BY <1>1 DEF Answer
  <2> QED
    BY <1>0, <2>1, Quiet
<1>2. ASSUME NEW new, IsEntries(new), items' = items \o new, purpose' = purpose, answer' = answer
      PROVE  LookupInv'
  <2>1. IsEntries(items \o new)
    BY <1>0, <1>2, EntriesJoined, Zenon
  <2>2. IsEntries(items') /\ purpose' \in {"index", "entries"}
    BY <1>2, <2>1
  <2> QED
    BY <1>2, <2>2, Listed
<1> QED
  BY <1>1, <1>2

\* The entries of a symbol table node.
LEMMA ReadNodeInv == LookupInv /\ ReadNode => LookupInv'
<1> SUFFICES ASSUME LookupInv, ReadNode PROVE LookupInv'
  OBVIOUS
<1> DEFINE names == File.at[FirstOf("SymbolTable").heap].names
           symbols == IF Readable(Leaf, "SNOD") THEN File.at[Leaf].entries ELSE << >>
           new == [i \in DOMAIN symbols |-> [name |-> names[symbols[i].name], to |-> symbols[i].to]]
           E == {new[i] : i \in DOMAIN symbols}
<1>1. lost' = lost /\ cache' = cache /\ handles' = handles /\ purpose = "index"
  BY DEF ReadNode
<1>2. \/ Answer([is |-> "damaged"])
      \/ items' = items \o new /\ purpose' = purpose /\ answer' = answer
  BY DEF ReadNode, LeafRead, LeafFails
<1>3. symbols \in Seq(Range(symbols)) /\ \A i \in DOMAIN symbols : symbols[i].to \in Objects
  <2>1. CASE Readable(Leaf, "SNOD")
    <3>1. Leaf \in Address /\ File.at[Leaf].kind = "SNOD" /\ symbols = File.at[Leaf].entries
      BY <2>1 DEF Readable
    <3> HIDE DEF symbols
    <3> QED
      BY <3>1, LinksAssumption
  <2>2. CASE ~Readable(Leaf, "SNOD")
    <3>1. symbols = << >>
      BY <2>2
    <3> HIDE DEF symbols
    <3>2. symbols \in Seq(Range(symbols)) /\ DOMAIN symbols = {}
      BY <3>1
    <3> QED
      BY <3>2
  <2> QED
    BY <2>1, <2>2
<1> HIDE DEF symbols, names
<1>4. Len(symbols) \in Nat /\ DOMAIN symbols = 1 .. Len(symbols)
  BY <1>3
<1>5. ASSUME NEW i \in DOMAIN symbols PROVE new[i].to \in Objects
  BY <1>3
<1>6. IsEntries(new)
  <2>1. DOMAIN new = 1 .. Len(symbols) /\ new = [i \in 1 .. Len(symbols) |-> new[i]]
        /\ \A i \in 1 .. Len(symbols) : new[i] \in E
    BY <1>4
  <2>2. \A e \in E : e.to \in Objects
    BY <1>5
  <2> HIDE DEF new, E
  <2>3. new \in Seq(E)
    BY <1>4, <2>1
  <2> QED
    BY <2>2, <2>3, Zenon DEF IsEntries
<1> HIDE DEF new
<1> QED
  BY <1>1, <1>2, <1>6, LeafInv

\* The link of a record.
LEMMA ReadRecordInv == LookupInv /\ ReadRecord => LookupInv'
<1> SUFFICES ASSUME LookupInv, ReadRecord PROVE LookupInv'
  OBVIOUS
<1>1. lost' = lost /\ cache' = cache /\ handles' = handles /\ purpose = "index"
  BY DEF ReadRecord
<1>2. PICK place : 
        LET objects == File.at[place.block].objects
        IN  \/ /\ Readable(place.block, "FHDB") /\ place.place \in DOMAIN objects
               /\ objects[place.place].type = "Link"
               /\ LeafRead(HardLinks(<<objects[place.place]>>))
            \/ LeafFails
  BY Zenon DEF ReadRecord
<1> DEFINE m == File.at[place.block].objects[place.place]
           S == {m}
           E == {e \in S : IsEntry(e)}
<1>3. CASE LeafFails
  BY <1>1, <1>3, LeafInv DEF LeafFails
<1>4. CASE /\ Readable(place.block, "FHDB") /\ place.place \in DOMAIN File.at[place.block].objects
           /\ m.type = "Link" /\ LeafRead(HardLinks(<<m>>))
  <2>1. m.to \in Objects
    BY <1>4, LinksAssumption DEF Readable
  <2>2. \A e \in E : e.to \in Objects
    BY <2>1
  <2>3. purpose' = purpose /\ answer' = answer /\ items' = items \o HardLinks(<<m>>)
    BY <1>4 DEF LeafRead
  <2> HIDE DEF m
  <2>4. <<m>> \in Seq(S)
    OBVIOUS
  <2>5. HardLinks(<<m>>) \in Seq(E)
    <3> HIDE DEF S
    <3> QED
      BY <2>4, HardLinksFact
  <2> HIDE DEF E
  <2>6. IsEntries(HardLinks(<<m>>))
    BY <2>2, <2>5, Zenon DEF IsEntries
  <2> QED
    BY <1>1, <2>3, <2>6, LeafInv
<1> QED
  BY <1>2, <1>3, <1>4

\* The index has been read.
LEMMA AllReadInv == LookupInv /\ AllRead => LookupInv'
<1> SUFFICES ASSUME LookupInv, AllRead PROVE LookupInv'
  OBVIOUS
<1>1. /\ lost' = lost /\ cache' = cache /\ handles' = handles /\ answer' = answer /\ items' = items
      /\ purpose = "index" /\ purpose' \in {"index", "entries"}
  BY DEF AllRead, walkVars
<1>2. IsEntries(items')
  BY <1>1 DEF LookupInv
<1> QED
  BY <1>1, <1>2, Listed

\* An answer that is no object.
LEMMA AnswerInv ==
  ASSUME LookupInv, lost' = lost, cache' = cache, handles' = handles, answer'.is # "dataset", purpose' = "none"
  PROVE  LookupInv'
<1>1. handles' \subseteq Objects
  BY Zenon DEF LookupInv
<1> QED
  BY <1>1, Quiet

\* The entry a path goes on with.
LEMMA FoundInv == LookupInv /\ Found => LookupInv'
<1> SUFFICES ASSUME LookupInv, Found PROVE LookupInv'
  OBVIOUS
<1> DEFINE to == items[Wanted].to
<1>1. lost' = lost /\ cache' = cache /\ purpose = "entries" /\ Wanted # 0
  BY DEF Found
<1>2. to \in Objects
  <2>1. IsEntries(items)
    BY <1>1 DEF LookupInv
  <2>2. PICK E : items \in Seq(E) /\ \A e \in E : e.to \in Objects
    BY <2>1, Zenon DEF IsEntries
  <2>3. items[Wanted] \in E
    <3>1. Named(items, Head(rest)) # 0
      BY <1>1, Zenon DEF Wanted
    <3> QED
      BY <2>2, <3>1, NamedIsOne, Zenon DEF Wanted
  <2> QED
    BY <2>2, <2>3
<1>3. \/ \E for \in {"walk", "target"} : LookAt(to, for) /\ answer' = answer /\ handles' = handles
      \/ HandOut(to)
  BY DEF Found
<1> HIDE DEF to
<1>4. ASSUME NEW for \in {"walk", "target"}, LookAt(to, for), answer' = answer, handles' = handles
      PROVE  LookupInv'
  <2>1. for \in {"walk", "children", "target", "item", "attrs"} /\ for # "item"
    OBVIOUS
  <2> QED
    BY <1>1, <1>2, <1>4, <2>1, Looking, Zenon
<1>5. CASE HandOut(to)
  <2>1. handles' = handles \cup {to} /\ answer'.is = "group" /\ purpose' = "none"
    BY <1>5 DEF HandOut, Answer
  <2>2. handles' \subseteq Objects
    BY <1>2, <2>1 DEF LookupInv
  <2> QED
    BY <1>1, <2>1, <2>2, Quiet
<1> QED
  BY <1>3, <1>4, <1>5

\* The entries of a listing, one by one.
LEMMA NextItemInv == LookupInv /\ NextItem => LookupInv'
<1> SUFFICES ASSUME LookupInv, NextItem PROVE LookupInv'
  OBVIOUS
<1>1. /\ lost' = lost /\ cache' = cache /\ handles' = handles /\ answer' = answer /\ items' = items
      /\ purpose = "entries" /\ items # << >> /\ LookAt(Head(items).to, "item")
  BY DEF NextItem, AtItem, walkVars
<1>2. IsEntries(items)
  BY <1>1 DEF LookupInv
<1>3. Head(items).to \in Objects
  BY <1>1, <1>2, EntriesRest, Zenon
<1>4. "item" \in {"walk", "children", "target", "item", "attrs"}
  OBVIOUS
<1> QED
  BY <1>1, <1>2, <1>3, <1>4, Looking, Zenon

\* An entry whose header has been looked at.
LEMMA ItemInv == LookupInv /\ Item => LookupInv'
<1> SUFFICES ASSUME LookupInv, Item PROVE LookupInv'
  OBVIOUS
<1>1. /\ lost' = lost /\ cache' = Remembered /\ handles' = handles /\ answer' = answer /\ items' = Tail(items)
      /\ purpose = "item" /\ purpose' \in {"index", "entries"} /\ Parsed
  BY DEF Item
<1>2. IsEntries(items) /\ items # << >>
  BY <1>1 DEF LookupInv
<1>3. IsEntries(items')
  BY <1>1, <1>2, EntriesRest, Zenon
<1>4. HereInv /\ parse = "parsed"
  BY <1>1, HereParsed
<1> QED
  BY <1>1, <1>3, <1>4, Listed

\* Steps of a lookup.
LEMMA StepInv == LookupInv /\ Step => LookupInv'
<1>1. LookupInv /\ (NotFound \/ Listing) => LookupInv'
  <2> SUFFICES ASSUME LookupInv, NotFound \/ Listing PROVE LookupInv'
    OBVIOUS
  <2>1. lost' = lost /\ cache' = cache /\ handles' = handles /\ answer'.is # "dataset" /\ purpose' = "none"
    BY DEF NotFound, Listing, Answer, walkVars, AtItem
  <2> QED
    BY <2>1, AnswerInv, Zenon
<1> QED
  BY <1>1, ParseInv, ParseFailsInv, OpenedInv, ListInv, ReadNodeInv, ReadRecordInv, AllReadInv, FoundInv, TargetInv,
     NextItemInv, ItemInv DEF Step

\* A question about attributes.
LEMMA AskAttributesInv == LookupInv /\ AskAttributes => LookupInv'
<1> SUFFICES ASSUME LookupInv, AskAttributes PROVE LookupInv'
  OBVIOUS
<1>1. lost' = lost /\ cache' = cache /\ handles' = handles /\ answer' = [is |-> "none"]
  BY DEF AskAttributes
<1>2. PICK r \in Holders : LookAt(r.from, "attrs")
  BY Zenon DEF AskAttributes
<1>3. r.from \in Objects
  BY DEF Holders, LookupInv
<1>4. "attrs" \in {"walk", "children", "target", "item", "attrs"} /\ "attrs" # "item"
  OBVIOUS
<1> QED
  BY <1>1, <1>2, <1>3, <1>4, Looking, Zenon

\* Steps that gather attributes.
LEMMA AttributeInv == LookupInv /\ AttributeStep => LookupInv'
<1> SUFFICES ASSUME LookupInv, AttributeStep PROVE LookupInv'
  OBVIOUS
<1>0. handles \subseteq Objects /\ (answer.is = "dataset" => answer.at \in Objects)
  BY Zenon DEF LookupInv
<1>1. CASE Attrs
  <2>1. /\ lost' = lost /\ cache' = Remembered /\ handles' = handles /\ answer' = answer
        /\ purpose = "attrs" /\ purpose' = "attributes" /\ Parsed
    BY <1>1 DEF Attrs
  <2>2. HereInv /\ parse = "parsed"
    BY <2>1, HereParsed
  <2> QED
    BY <1>0, <2>1, <2>2, Quiet
<1>2. CASE OwnAttribute \/ FollowReference \/ SharedAttribute \/ ListAttributes \/ HeapAttribute \/ AttributesRead
  <2>1. lost' = lost /\ cache' = cache /\ handles' = handles
    BY <1>2 DEF OwnAttribute, FollowReference, SharedAttribute, ListAttributes, HeapAttribute, AttributesRead, walkVars
  <2>2. answer' = answer \/ answer'.is # "dataset"
    <3>1. \A e : Answer(e) => answer' = e
      BY DEF Answer
    <3>2. OwnAttribute => answer' = answer
      BY DEF OwnAttribute
    <3>3. FollowReference => answer' = answer \/ answer' = [is |-> "unsupported"]
      BY <3>1, Zenon DEF FollowReference
    <3>4. SharedAttribute => answer' = answer \/ answer' = [is |-> "damaged"]
      BY <3>1, Zenon DEF SharedAttribute
    <3>5. ListAttributes => answer' = answer \/ answer' = [is |-> "damaged"]
      BY <3>1, Zenon DEF ListAttributes
    <3>6. HeapAttribute => answer' = answer \/ answer' = [is |-> "damaged"]
      BY <3>1 DEF HeapAttribute
    <3>7. AttributesRead => answer' = [is |-> "attributes", numbers |-> listing]
      BY <3>1 DEF AttributesRead
    <3> QED
      BY <1>2, <3>2, <3>3, <3>4, <3>5, <3>6, <3>7
  <2>3. purpose' \in {"attributes", "shared", "attribute heap", "none"}
    BY <1>2 DEF OwnAttribute, FollowReference, SharedAttribute, ListAttributes, HeapAttribute, AttributesRead, Answer,
                LookAt, AtAttribute
  <2> QED
    BY <1>0, <2>1, <2>2, <2>3, Quiet
<1> QED
  BY <1>1, <1>2 DEF AttributeStep

\* A question about shared messages.
LEMMA AskTableInv == LookupInv /\ AskTable => LookupInv'
<1> SUFFICES ASSUME LookupInv, AskTable PROVE LookupInv'
  OBVIOUS
<1>1. lost' = lost /\ cache' = cache /\ handles' = handles /\ purpose' = purpose /\ purpose = "none"
  BY DEF AskTable
<1>2. ASSUME NEW s PROVE InTable(s.type, s.id).is # "dataset"
  BY DEF InTable
<1>3. ASSUME NEW i PROVE Entries(i).is # "dataset"
  BY DEF Entries
<1>4. answer'.is # "dataset"
  <2>1. (\E s : answer' = InTable(s.type, s.id)) \/ (\E i : answer' = Entries(i))
    BY Zenon DEF AskTable
  <2> QED
    BY <1>2, <1>3, <2>1, Zenon
<1> QED
  BY <1>1, <1>4, AnswerInv

\* The invariant holds when a file is opened ...
LEMMA LookupInit == AttributesInit => LookupInv
<1> SUFFICES ASSUME AttributesInit PROVE LookupInv
  OBVIOUS
<1>1. /\ parse = "idle" /\ purpose = "open" /\ here = Root /\ cache = << >> /\ handles = {} /\ answer.is = "none"
  BY DEF AttributesInit, Init, HeaderInit
<1>2. DOMAIN cache = {}
  BY <1>1
<1>3. CacheSound(lost, cache)
  BY <1>2, Zenon DEF CacheSound
<1>4. HereInv
  <2>1. HeaderInv(here)
    BY <1>1 DEF HeaderInv
  <2> QED
    BY <1>1, <2>1, NoneIsNowhere DEF HereInv
<1> QED
  BY <1>1, <1>3, <1>4 DEF LookupInv

\* ... and every step of a reader keeps it.
LEMMA LookupStep == LookupInv /\ [AttributesNext]_attrVars => LookupInv'
<1>1. LookupInv /\ UNCHANGED attrVars => LookupInv'
  BY DEF attrVars, vars, LookupInv, HereInv, HeaderInv
<1> QED
  BY <1>1, AskInv, StepInv, AskAttributesInv, AskTableInv, AttributeInv DEF AttributesNext

\* The inductive invariant of lookups: what is cached is whole, the header being read
\* for an object is as far as Progress says, handles and entries lead to objects.
THEOREM LookupInvariant == AttributesSpec => []LookupInv
BY LookupInit, LookupStep, PTL DEF AttributesSpec

\* get_or_parse_header gives each object its own header for the life of the file, whole
\* and undamaged: whichever file, damage, limits of the parser and number of requests.
THEOREM HeadersAreTheirOwn == AttributesSpec => []CacheIsTrue
<1>1. LookupInv => CacheIsTrue
  BY Zenon DEF LookupInv, CacheSound, Sound, CacheIsTrue, Blocks
<1> QED
  BY <1>1, LookupInvariant, PTL
=============================================================================
