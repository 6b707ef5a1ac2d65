------------------------------ MODULE Intervals ------------------------------
(***************************************************************************)
(* The interval arithmetic under the availability of a station             *)
(* (production.py:44-97): merging spans of minutes, subtracting spans from *)
(* others and adding up their lengths.  Each loop of the code is a Loop    *)
(* whose body is a definition of its own, so that the proofs can speak of  *)
(* one round.                                                              *)
(***************************************************************************)
EXTENDS Loops, SequencesExt

Span(a, b) == [start |-> a, end |-> b]

\* sorted(intervals, key=lambda x: x[0]), by insertion: a span comes after all
\* that start no later.
Place(sorted, x) ==
  LET later == {i \in DOMAIN sorted : x.start < sorted[i].start}
  IN  InsertAt(sorted, Min(later \cup {Len(sorted) + 1}), x)
Sorted(list) == Loop(Place, <<>>, list)

\* _merge_intervals: one round of its loop.
Merge(merged, x) ==
  IF x.end <= x.start THEN merged
  ELSE IF merged = <<>> \/ x.start > Last(merged).end THEN Append(merged, x)
  ELSE IF x.end > Last(merged).end
       THEN [merged EXCEPT ![Len(merged)].end = x.end]
  ELSE merged
MergeIntervals_Unsorted(list) == Loop(Merge, <<>>, list)
MergeIntervals(list) == Loop(Merge, <<>>, Sorted(list))

\* _subtract_intervals: one blocker against span x.  `broken` is the loop's
\* break.
Block_KeepCursor(x, state, b) ==
  IF state.broken \/ b.end <= state.cursor THEN state
  ELSE IF b.start >= x.end THEN [state EXCEPT !.broken = TRUE]
  ELSE [state EXCEPT !.result = IF b.start > state.cursor
          THEN Append(@, Span(state.cursor, Min({b.start, x.end}))) ELSE @]
Block(x, state, b) ==
  IF state.broken \/ b.end <= state.cursor THEN state
  ELSE IF b.start >= x.end THEN [state EXCEPT !.broken = TRUE]
  ELSE LET next == Max({state.cursor, b.end}) IN
       [cursor |-> next,
        broken |-> next >= x.end,
        result |-> IF b.start > state.cursor
                     THEN Append(state.result, Span(state.cursor, Min({b.start, x.end})))
                     ELSE state.result]

\* What is left of one span: the pieces before each blocker, and the rest.
Cut(x, blockers) ==
  Loop(LAMBDA state, b : Block(x, state, b),
       [cursor |-> x.start, broken |-> FALSE, result |-> <<>>], blockers)
Remainder(x, blockers) ==
  LET cut == Cut(x, blockers) IN
  IF cut.cursor < x.end THEN Append(cut.result, Span(cut.cursor, x.end))
  ELSE cut.result

\* What is left of a list, by merged blockers.
Rest(list, merged) == Loop(LAMBDA result, x : result \o Remainder(x, merged), <<>>, list)
SubtractIntervals(list, blockers) == Rest(list, MergeIntervals(blockers))

\* _merged_interval_minutes: the current span is added when the next one
\* starts after its end.
Count(state, x) ==
  IF x.start <= state.current.end
    THEN [state EXCEPT !.current.end = Max({@, x.end})]
    ELSE [total |-> state.total + state.current.end - state.current.start,
          current |-> x]
Counted(first, list) == Loop(Count, [total |-> 0, current |-> first], list)
MergedIntervalMinutes(list) ==
  IF list = <<>> THEN 0
  ELSE LET sorted == Sorted(list)
           end == Counted(Head(sorted), Tail(sorted))
       IN  Max({0, end.total + end.current.end - end.current.start})

\* The reference: the minutes that lie in a list of spans.
Minutes(list) == UNION {list[i].start..(list[i].end - 1) : i \in DOMAIN list}
=============================================================================
