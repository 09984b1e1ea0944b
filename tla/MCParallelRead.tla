--------------------------- MODULE MCParallelRead ---------------------------
(* Small instances of ParallelRead: bytes of four values, three lanes.       *)
EXTENDS ParallelRead

Pipelines ==
  {<< >>, <<"deflate">>, <<"shuffle", "deflate">>, <<"fletcher32">>,
   <<"shuffle", "deflate", "fletcher32">>, <<"shuffle", "szip">>}

\* Chunk k of four bytes, all chunks different.
Raw(k) == <<k % 4, 3, k \div 4, (k * k) % 4>>

Dataset(count, pipeline, size, skipped) ==
  [raw |-> [k \in 1 .. count |-> Raw(k)], pipeline |-> pipeline, elementSize |-> size,
   skipped |-> [k \in 1 .. count |-> IF k = 2 THEN skipped ELSE {}]]

\* Seven bytes are no whole number of elements, and thirteen more than a block of
\* words; their sums are the largest a block can get.
Odd == [raw |-> <<<<3, 2, 3, 3, 1, 0, 2>>>>, pipeline |-> <<"fletcher32">>, elementSize |-> 2,
        skipped |-> <<{}>>]
Large ==
  [raw |-> <<<<3, 2, 0, 0, 0, 0, 0, 0, 3, 3, 3, 3, 3, 3, 3, 3, 3, 3, 3, 3>>>>, pipeline |-> <<"fletcher32">>,
   elementSize |-> 1, skipped |-> <<{}>>]

MCDatasets ==
  {Dataset(n, p, 2, {}) : n \in {2, 4, 5}, p \in Pipelines}
  \cup {Dataset(5, <<"shuffle", "deflate">>, 2, {"shuffle", "deflate"})}
  \cup {Dataset(n, <<"shuffle", "deflate">>, 2, {"deflate"}) : n \in {2, 5}}
  \cup {Odd, [Odd EXCEPT !.pipeline = <<"shuffle">>], Large}

\* What fxhash_combine makes of three seeds for three lanes, and the extremes.
MCHashLanes(n) ==
  {SubSeq(h, 1, n) : h \in {<<0, 0, 2, 2, 2>>, <<0, 1, 1, 1, 1>>, <<1, 1, 2, 2, 2>>,
                           <<2, 2, 1, 0, 0>>}}

===============================================================================
