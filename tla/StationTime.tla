----------------------------- MODULE StationTime -----------------------------
(***************************************************************************)
(* What the reports compute from the registered stops: the stop, planned   *)
(* stop and unavailability minutes of a station in a shift                 *)
(* (_stop_minutes_for_calendar_row, which the planned time, performance    *)
(* and OEE reports use).  The table is the one that StopRegister fills.    *)
(***************************************************************************)
EXTENDS StopRegister, Intervals

CONSTANTS
  IsPlannedStop, CountsAsUnavailability    \* columns of production_stop_types

ASSUME StopTypeConstants ==
  /\ IsPlannedStop \in [StopTypes -> BOOLEAN]
  /\ CountsAsUnavailability \in [StopTypes -> BOOLEAN]

ASSUME NoneIsNoId == None \notin Stations \cup Items

\* One round of the loop over the stops: a chosen row is clipped to from .. to
\* and kept unless that leaves nothing of it.
Clip(chosen, from, to, spans, r) ==
  LET x == Span(Max({r.start_at, from}), Min({r.end_at, to})) IN
  IF r \in chosen /\ x.start < x.end THEN Append(spans, x) ELSE spans
Clipped(chosen, from, to) ==
  Loop(LAMBDA spans, r : Clip(chosen, from, to, spans, r), <<>>, stops)

IsUnplanned(r) == CountsAsUnavailability[r.type] /\ ~IsPlannedStop[r.type]

\* The window of a calendar row: the planned time from the start of the shift.
WindowEnd(sh, planned) == Min({ShiftEnd(sh), ShiftStart(sh) + planned})

\* The rows the report fetches for a station.
Fetched(sh, st, end) == {r \in ToSet(stops) :
  /\ r.shift = sh
  /\ r.machine = None \/ StationOf[r.machine] = st
  /\ r.start_at < end /\ r.end_at > ShiftStart(sh)}

StopMinutes(sh, st, planned) ==
  LET end == WindowEnd(sh, planned)
      rows == Fetched(sh, st, end)
      clipped(chosen) == Clipped(chosen, ShiftStart(sh), end)
      plannedUnion == MergeIntervals(clipped({r \in rows : IsPlannedStop[r.type]}))
  IN  IF planned <= 0 \/ end <= ShiftStart(sh)
      THEN [stop |-> 0, planned_stop |-> 0, unavailability |-> 0]
      ELSE [stop |-> MergedIntervalMinutes(clipped(rows)),
            planned_stop |-> MergedIntervalMinutes(plannedUnion),
            unavailability |-> MergedIntervalMinutes(
              SubtractIntervals(clipped({r \in rows : IsUnplanned(r)}), plannedUnion))]

\* The denominator and the numerator of the availability.
NetPlanned(sh, st, planned) ==
  Max({0, planned - StopMinutes(sh, st, planned).planned_stop})
Available(sh, st, planned) ==
  LET s == StopMinutes(sh, st, planned) IN
  Max({0, planned - s.planned_stop - s.unavailability})

\* production_control: the stops that name an item, not clipped, and the planned
\* ones not taken off the unplanned.
ControlMinutes(sh, item) ==
  LET rows == {r \in ToSet(stops) : r.item = item /\ r.shift = sh}
      spans(chosen) == Clipped(chosen, 0, ShiftEnd(sh))
  IN  [stop |-> MergedIntervalMinutes(spans(rows)),
       unavailability |-> MergedIntervalMinutes(spans({r \in rows : IsUnplanned(r)}))]

-----------------------------------------------------------------------------
(* Properties *)

\* What work_calendar accepts for a working day: up to the shift's length.
PlannedTimes(sh) == 1..(ShiftEnd(sh) - ShiftStart(sh))

\* A step of the clock inside the window, and the stops in force during it.
InForce(sh, st, m) == {i \in DOMAIN stops :
  /\ stops[i].shift = sh /\ Covers(stops[i], m)
  /\ stops[i].machine = None \/ StationOf[stops[i].machine] = st}
Window(sh, planned) == ShiftStart(sh)..(ShiftStart(sh) + planned - 1)

\* _merge_intervals returns the same minutes in the fewest spans: in order and
\* with a gap between each and the next, whatever the order of the rows
\* (production.py:44-56).
MergeIsUnion == \A sh \in Shifts :
  LET spans == Clipped(ToSet(stops), ShiftStart(sh), ShiftEnd(sh))
      merged == MergeIntervals(spans)
  IN  /\ Minutes(merged) = Minutes(spans)
      /\ \A i \in 1..Len(merged) : merged[i].start < merged[i].end
      /\ \A i \in 1..(Len(merged) - 1) : merged[i].end < merged[i + 1].start

Classified(sh, st, planned) ==
  LET s == StopMinutes(sh, st, planned)
      window == Window(sh, planned)
      isPlanned(m) == \E i \in InForce(sh, st, m) : IsPlannedStop[stops[i].type]
      isUnplanned(m) == \E i \in InForce(sh, st, m) :
        CountsAsUnavailability[stops[i].type] /\ ~IsPlannedStop[stops[i].type]
  IN  /\ s.stop = Cardinality({m \in window : InForce(sh, st, m) # {}})
      /\ s.planned_stop = Cardinality({m \in window : isPlanned(m)})
      /\ s.unavailability =
           Cardinality({m \in window : isUnplanned(m) /\ ~isPlanned(m)})
      /\ Available(sh, st, planned) = NetPlanned(sh, st, planned) - s.unavailability
      /\ \A item \in Items :
           /\ StationOf[item] = st /\ \A i \in DOMAIN stops : stops[i].item = item /\ stops[i].shift = sh
           /\ planned = ShiftEnd(sh) - ShiftStart(sh)
           => ControlMinutes(sh, item) =
                [stop |-> s.stop,
                 unavailability |-> s.unavailability
                   + Cardinality({m \in window : isUnplanned(m) /\ isPlanned(m)})]

\* Every minute of the window is counted at most once, as a planned stop if
\* any planned stop covers it, else as unavailability if an unplanned one
\* does, however the stops overlap (production.py:105-183 and the definitions
\* of AI_CONTEXT/PRODUCTION_OEE_DEFINITIONS.md, section 1), so what
\* is available is a share of the net planned time.  Where all stops
\* name one item, production_control (1979-2016) finds the same stop minutes for
\* it as planned_time_report for the whole shift, and as unavailability those
\* that a planned stop covers too: the reports differ by the overlap alone.
MinutesClassified ==
  \A sh \in Shifts, st \in Stations : \A planned \in PlannedTimes(sh) : Classified(sh, st, planned)

\* Claimed by the comment at production.py:138: a stop without a machine
\* concerns the whole of its station.  So a stop that names an item of a
\* station does not reduce the time of another station.
StopStaysAtStation == \A sh \in Shifts, st \in Stations :
  (\A i \in DOMAIN stops : /\ stops[i].item # None
                           /\ StationOf[stops[i].item] \notin {None, st})
    => \A planned \in PlannedTimes(sh) : Available(sh, st, planned) = planned
=============================================================================
