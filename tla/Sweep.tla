-------------------------------- MODULE Sweep --------------------------------
(***************************************************************************)
(* Detection of sweeps over chunks, twice in the code: SweepContext of     *)
(* rustyhdf5-format/src/chunked_read.rs, and SweepDetector of              *)
(* rustyhdf5-io (prefetch.rs, sweep.rs), which the first says it matches.  *)
(* Coordinates are sequences of naturals, oldest first.                    *)
(***************************************************************************)
EXTENDS Integers, Sequences, FiniteSets, SequencesExt

CONSTANTS
  WindowSize,     \* window_size
  PrefetchCount   \* prefetch_count

ASSUME WindowAssumption == WindowSize \in Nat \ {0} /\ PrefetchCount \in Nat

\* history.remove(0), history.push(coord)
Window(history, c) ==
  (IF Len(history) >= WindowSize THEN Tail(history) ELSE history) \o <<c>>

Steps(h) == 1 .. Len(h) - 1
Changes(h, d) == Cardinality({i \in Steps(h) : h[i][d] # h[i + 1][d]})

\* Integer division of Rust rounds towards zero.
Quotient(a, b) == IF a < 0 THEN -((-a) \div b) ELSE a \div b

\* The sum of the steps.
Moved(h, d) ==
  LET sum[k \in 0 .. Len(h) - 1] == IF k = 0 THEN 0 ELSE sum[k - 1] + (h[k + 1][d] - h[k][d])
  IN sum[Len(h) - 1]

\* The mean of the steps that are none of them zero.
AverageStep(h, d) ==
  IF Changes(h, d) = 0 THEN 0 ELSE Quotient(Moved(h, d), Changes(h, d))

\* Fault: counting starts at the last coordinate itself.
AheadFromLast(h, d, step) ==
  LET last == h[Len(h)]
      ahead == {i \in 0 .. PrefetchCount - 1 : step # 0 /\ last[d] + step * i >= 0}
  IN [i \in 1 .. Cardinality(ahead) |-> [last EXCEPT ![d] = last[d] + step * (i - 1)]]

\* The coordinates that follow the last one, up to the first negative one.
Ahead(h, d, step) ==
  LET last == h[Len(h)]
      ahead == {i \in 1 .. PrefetchCount : step # 0 /\ last[d] + step * i >= 0}
  IN [i \in 1 .. Cardinality(ahead) |-> [last EXCEPT ![d] = last[d] + step * i]]
-------------------------------------------------------------------------------
NewContext == [history |-> <<>>, direction |-> "random", predicted |-> <<>>]

\* Too few coordinates, or coordinates of a dataset of lower rank.
Unknown(h, ndims) ==
  \/ Len(h) < 3
  \/ ndims = 0
  \/ \E i \in DOMAIN h : Len(h[i]) < ndims

\* The dimension that changes most often; max_by_key takes the last of equals.
FastestDim(h, ndims) ==
  CHOOSE d \in 1 .. ndims :
    \A e \in 1 .. ndims : Changes(h, e) < Changes(h, d) \/ (Changes(h, e) = Changes(h, d) /\ e <= d)

\* Fault: it is enough to change more often than the others.
DominatesBarely(h, ndims, d) ==
  /\ Changes(h, d) >= Len(h) \div 2
  /\ \A e \in (1 .. ndims) \ {d} : Changes(h, d) > Changes(h, e)

\* At least half of the steps change it, and no other changes more than half as often.
Dominates(h, ndims, d) ==
  /\ Changes(h, d) >= Len(h) \div 2
  /\ \A e \in (1 .. ndims) \ {d} : Changes(h, d) >= 2 * Changes(h, e)

Label(d, ndims) ==
  IF d = ndims THEN "row_major" ELSE IF d = 1 THEN "column_major" ELSE "slice_major"

\* SweepContext::record
Record(sweep, c, ndims) ==
  LET h == Window(sweep.history, c) IN
  IF Unknown(h, ndims) \/ ~Dominates(h, ndims, FastestDim(h, ndims))
  THEN [history |-> h, direction |-> "random", predicted |-> <<>>]
  ELSE LET d == FastestDim(h, ndims)
       IN [history |-> h, direction |-> Label(d, ndims), predicted |-> Ahead(h, d, AverageStep(h, d))]
-------------------------------------------------------------------------------
\* SweepDetector::new, and reset.
NewDetector == [history |-> <<>>, direction |-> <<"Random">>, predicted |-> <<>>]

\* detect_sweep
DetectSweep(h, ndims) ==
  IF Len(h) < 3 \/ ndims = 0 \/ (\E i \in DOMAIN h : Len(h[i]) < ndims) THEN <<"Random">>
  ELSE LET d == CHOOSE x \in 1 .. ndims :
                  /\ \A e \in 1 .. x : Changes(h, e) <= Changes(h, x)
                  /\ \A e \in x + 1 .. ndims : Changes(h, e) < Changes(h, x)
           others == {Changes(h, e) : e \in (1 .. ndims) \ {d}}
       IN IF Changes(h, d) < Len(h) \div 2 \/ (\E o \in others : Changes(h, d) < o * 2)
          THEN <<"Random">>
          ELSE IF d = ndims THEN <<"RowMajor">>
          ELSE IF d = 1 THEN <<"ColumnMajor">>
          ELSE <<"SliceMajor", d>>

\* predict_next, which counts the dimensions of the oldest coordinate.
PredictNext(h, direction) ==
  LET ndims == Len(h[1])
      d == CASE direction[1] = "RowMajor" -> ndims
             [] direction[1] = "ColumnMajor" -> 1
             [] OTHER -> IF direction[2] < ndims THEN direction[2] ELSE ndims
  IN Ahead(h, d, AverageStep(h, d))

\* SweepDetector::record_access
RecordAccess(detector, c, ndims) ==
  LET h == Window(detector.history, c)
      direction == DetectSweep(h, ndims)
  IN [history |-> h, direction |-> direction,
      predicted |-> IF direction = <<"Random">> THEN <<>> ELSE PredictNext(h, direction)]
===============================================================================
