------------------------------- MODULE MCRings -------------------------------
(***************************************************************************)
(* The two ring buffers of the agent side by side: an aggregation queue,   *)
(* and a moving average with every sequence of at most MaxAdds additions.  *)
(* They share no state.                                                    *)
(***************************************************************************)
EXTENDS AggregationQueue, SMA, SequencesExt, FiniteSetsExt

CONSTANTS
  p1, p2,
  Vals,     \* values added, of both signs
  MaxAdds   \* bound on the additions

TwoPackets == {p1, p2}
MixedVals == {-3, 1, 254}

VARIABLES sma, added

Add ==
  /\ Len(added) < MaxAdds
  /\ \E v \in Vals : sma' = add(sma, v) /\ added' = Append(added, v)
  /\ UNCHANGED vars

RingsInit == Init /\ sma = New /\ added = <<>>

RingsNext == Add \/ (Next /\ UNCHANGED <<sma, added>>)

RingsSpec == RingsInit /\ [][RingsNext]_<<vars, sma, added>>

\* The last Period values added, or all of them when there are fewer.
Recent == SubSeq(added, Max({1, Len(added) - Period + 1}), Len(added))

\* avg() is the integer part of the mean of the last Period values added, 0
\* before the first one: the ring never averages a slot that was not written,
\* nor keeps a value that was pushed out (SMA::add, SMA::avg).
AverageOfRecent ==
  avg(sma) = IF added = <<>> THEN 0
             ELSE Truncated(FoldLeft(LAMBDA t, v : t + v, 0, Recent),
                            Len(Recent))
=============================================================================
