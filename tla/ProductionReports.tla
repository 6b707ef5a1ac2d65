-------------------------- MODULE ProductionReports --------------------------
(***************************************************************************)
(* The work calendar and the reports that read it (production.py):         *)
(* work_calendar, planned_time_report, performance_quality_report,         *)
(* oee_report and production_control.  Two of them go from the calendar to *)
(* the events of a station, one from a calendar row to products, and the   *)
(* last from plan items to their events.                                   *)
(*                                                                         *)
(* An event names an item of an approved plan, on the item's work day: see *)
(* ProductionPlan.  The minutes a station lost are those of StationTime.   *)
(* Waste of an item is 0, because no such record can be made (again        *)
(* ProductionPlan).  Rows that differ in employee, machine or number of    *)
(* pieces are added up as they come in; percentages are rounded down.      *)
(***************************************************************************)
EXTENDS Server, Naturals, Sequences, FiniteSetsExt, Functions

CONSTANTS
  WorkDays, Shifts, Stations, Products,
  Items, ItemRow,   \* plan items: product, station or None, work_day, target_qty
  Cycle,            \* seconds per piece of a product at a station, None if unknown
  PlannedTimes,     \* minutes a form may give to a working day
  Lost,             \* planned stop and unavailability for a planned time: their sum is
                    \* at most that time, StationTime's MinutesClassified
  MaxQuantity,      \* bound on the pieces of an item in a shift
  MaxCalendar       \* bound on the rows of the calendar

ASSUME ReportConstants ==
  /\ IsFiniteSet(Items) /\ IsFiniteSet(WorkDays) /\ IsFiniteSet(Shifts)
  /\ MaxQuantity \in Nat /\ MaxCalendar \in Nat
  /\ None \notin Stations \cup Shifts \cup Products
  /\ ItemRow \in [Items -> [product : Products, station : Stations \cup {None},
                            work_day : WorkDays, target : Nat]]
  /\ Cycle \in [Products \X Stations -> (Nat \ {0}) \cup {None}]
  /\ PlannedTimes \subseteq Nat \ {0}
  /\ DOMAIN Lost = PlannedTimes \cup {0}
  /\ \A m \in DOMAIN Lost : Lost[m].planned_stop + Lost[m].unavailability <= m

VARIABLES
  approved,     \* the items whose plan is approved
  produced,     \* production_entries: item, production_date, shift -> pieces
  calendar,     \* production_work_calendar, by id
  calendarPc,   \* where a handler of work_calendar is
  calendarLoc   \* its form and the id of the row it has found

reportVars == <<approved, produced, calendar, calendarPc, calendarLoc>>

CalendarForm == {c \in [day : WorkDays, shift : Shifts, station : Stations,
                        is_working : BOOLEAN, planned : PlannedTimes \cup {0}] :
                   c.is_working <=> c.planned > 0}
NoForm == [form |-> None, id |-> 0]
Events == Items \X WorkDays \X Shifts

ReportsTypeOK ==
  /\ approved \subseteq Items
  /\ produced \in [Events -> 0..MaxQuantity]
  /\ calendar \in Seq(CalendarForm) /\ Len(calendar) <= MaxCalendar
  /\ calendarPc \in [Threads -> {"idle", "calendar_update", "calendar_insert"}]
  /\ calendarLoc \in [Threads -> [form : CalendarForm \cup {None}, id : 0..MaxCalendar]]

ReportsInit ==
  /\ approved = {}
  /\ produced = [e \in Events |-> 0]
  /\ calendar = <<>>
  /\ calendarPc = [t \in Threads |-> "idle"]
  /\ calendarLoc = [t \in Threads |-> NoForm]

-----------------------------------------------------------------------------
(* What ProductionPlan lets happen to items and events.                    *)

Unused(i) == \A d \in WorkDays, sh \in Shifts : produced[<<i, d, sh>>] = 0
ItemsChange ==
  /\ \E i \in Items :
       \/ approved' = approved \cup {i}
       \/ Unused(i) /\ approved' = approved \ {i}
  /\ UNCHANGED <<produced, calendar, calendarPc, calendarLoc>>

RecordProduction(i, d, sh) ==
  /\ i \in approved /\ ItemRow[i].work_day = d
  /\ produced[<<i, d, sh>>] < MaxQuantity
  /\ produced' = [produced EXCEPT ![<<i, d, sh>>] = @ + 1]
  /\ UNCHANGED <<approved, calendar, calendarPc, calendarLoc>>

-----------------------------------------------------------------------------
(* work_calendar, POST.                                                    *)

SameKey(a, b) == a.day = b.day /\ a.shift = b.shift /\ a.station = b.station
RowsOf(form) == {id \in DOMAIN calendar : SameKey(calendar[id], form)}

CalendarSelect(t, form) ==
  /\ calendarPc[t] = "idle"
  /\ calendarPc' = [calendarPc EXCEPT ![t] = IF RowsOf(form) = {} THEN "calendar_insert"
                                                   ELSE "calendar_update"]
  /\ calendarLoc' = [calendarLoc EXCEPT ![t] =
       [form |-> form, id |-> IF RowsOf(form) = {} THEN 0 ELSE Min(RowsOf(form))]]
  /\ UNCHANGED <<approved, produced, calendar>>

CalendarFinish(t) ==
  /\ calendarPc' = [calendarPc EXCEPT ![t] = "idle"]
  /\ calendarLoc' = [calendarLoc EXCEPT ![t] = NoForm]

CalendarUpdate(t) ==
  /\ calendarPc[t] = "calendar_update"
  /\ calendar' = [calendar EXCEPT ![calendarLoc[t].id] = calendarLoc[t].form]
  /\ CalendarFinish(t)
  /\ UNCHANGED <<approved, produced>>

CalendarInsert_NoKey(t) ==
  /\ calendarPc[t] = "calendar_insert" /\ Len(calendar) < MaxCalendar
  /\ calendar' = Append(calendar, calendarLoc[t].form)
  /\ CalendarFinish(t)
  /\ UNCHANGED <<approved, produced>>
\* UQ_prod_calendar_date_shift_station refuses a row another handler inserted.
CalendarInsert(t) ==
  /\ calendarPc[t] = "calendar_insert" /\ Len(calendar) < MaxCalendar
  /\ calendar' = IF RowsOf(calendarLoc[t].form) = {} THEN Append(calendar, calendarLoc[t].form)
                 ELSE calendar
  /\ CalendarFinish(t)
  /\ UNCHANGED <<approved, produced>>

\* The process ends and starts again.
CalendarRestart ==
  /\ calendarPc' = [t \in Threads |-> "idle"]
  /\ calendarLoc' = [t \in Threads |-> NoForm]
  /\ UNCHANGED <<approved, produced, calendar>>

ReportsNext ==
  \/ ItemsChange \/ CalendarRestart
  \/ \E i \in Items, d \in WorkDays, sh \in Shifts : RecordProduction(i, d, sh)
  \/ \E t \in Threads :
       \/ \E form \in CalendarForm : CalendarSelect(t, form)
       \/ CalendarUpdate(t) \/ CalendarInsert(t)

ReportsSpec == ReportsInit /\ [][ReportsNext]_reportVars

-----------------------------------------------------------------------------
(* _calculate_quality, _calculate_performance and _calculate_oee.  No value *)
(* is negative here, so the lower bounds of the code do nothing.            *)

Bad(quantity) == quantity = None \/ quantity <= 0
Quality(production, waste, rework) ==
  IF production <= 0 THEN None
  ELSE LET good == IF waste + rework < production THEN production - waste - rework ELSE 0
       IN  (good * 100) \div production
Performance(production, cycle, available) ==
  IF Bad(production) \/ Bad(cycle) \/ Bad(available) THEN None
  ELSE Min({(production * cycle * 100) \div (available * 60), 100})
Oee(availability, performance, quality) ==
  IF None \in {availability, performance, quality} THEN None
  ELSE Min({(availability * performance * quality) \div 10000, 100})

-----------------------------------------------------------------------------
(* The reports.  A filter f names days, and a shift, station and product or *)
(* None for all of them.                                                    *)

Passes(wanted, value) == wanted = None \/ wanted = value

CalendarRows(f) == {id \in DOMAIN calendar :
  /\ calendar[id].day \in f.days
  /\ Passes(f.shift, calendar[id].shift) /\ Passes(f.station, calendar[id].station)}

StationTime(c) ==
  LET planned == IF c.is_working THEN c.planned ELSE 0
      net == planned - Lost[planned].planned_stop
      available == net - Lost[planned].unavailability
  IN  [planned |-> planned, net |-> net, available |-> available,
       availability |-> IF net > 0 THEN (available * 100) \div net ELSE None]

Pieces(events) == SumFunctionOnSet(produced, events)

\* planned_time_report: what a station made in a shift of a day.
StationEvents(c) == {e \in Events :
  e[1] \in approved /\ e[2] = c.day /\ e[3] = c.shift /\ ItemRow[e[1]].station = c.station}
PlannedTimeReport(f) == [id \in CalendarRows(f) |->
  [time |-> StationTime(calendar[id]), actual |-> Pieces(StationEvents(calendar[id]))]]

\* performance_quality_report: the products planned for a calendar row.
ItemsAt(c) == {i \in approved : ItemRow[i].work_day = c.day /\ ItemRow[i].station = c.station}
Groups(c) == {ItemRow[i].product : i \in ItemsAt(c)}
ItemsOfGroup(c, p) == {i \in ItemsAt(c) : ItemRow[i].product = p}

\* The filter is applied after the products have been counted.
MultipleProducts_Filtered(c, f) ==
  Cardinality({p \in Groups(c) : Passes(f.product, p)}) > 1
MultipleProducts(c, f) == Cardinality(Groups(c)) > 1

ProductRow(id, p, f) ==
  LET c == calendar[id]
      time == StationTime(c)
      actual == Pieces(ItemsOfGroup(c, p) \X {c.day} \X {c.shift})
      quality == Quality(actual, 0, 0)
      performance == IF MultipleProducts(c, f) THEN None
                     ELSE Performance(actual, Cycle[p, c.station], time.available)
  IN  [row |-> id, product |-> p, actual |-> actual,
       target |-> MapThenSumSet(LAMBDA i : ItemRow[i].target, ItemsOfGroup(c, p)),
       quality |-> quality, performance |-> performance,
       oee |-> Oee(time.availability, performance, quality)]
PerformanceReport(f) == UNION {
  {ProductRow(id, p, f) : p \in {p \in Groups(calendar[id]) : Passes(f.product, p)}} :
  id \in CalendarRows(f)}

\* Its totals of time are taken over station_time, a dictionary by day, shift
\* and station in which a later row replaces an earlier one.
LastOfKey(f) == {id \in CalendarRows(f) :
  \A other \in CalendarRows(f) : SameKey(calendar[id], calendar[other]) => other <= id}

\* oee_report: its query of the products names the table p, which it does not
\* join, so it fails as soon as there is a row.
OeeReport(f) == IF CalendarRows(f) = {} THEN {} ELSE None

\* production_control: the items of approved plans, with the events that pass.
ControlReport(f) ==
  [i \in {i \in approved : /\ ItemRow[i].work_day \in f.days
                           /\ Passes(f.product, ItemRow[i].product)
                           /\ Passes(f.station, ItemRow[i].station)} |->
    [target |-> ItemRow[i].target,
     actual |-> Pieces({e \in {i} \X f.days \X Shifts : Passes(f.shift, e[3])})]]

\* The production among the totals of planned_time_report and production_control.
TotalOf(report) == SumFunction([x \in DOMAIN report |-> report[x].actual])

-----------------------------------------------------------------------------
(* Properties.                                                             *)

Filters == [days : SUBSET WorkDays \ {{}}, shift : Shifts \cup {None},
            station : Stations \cup {None}, product : {None}]

\* The events without a calendar row, which only the control report shows.
OutsideCalendar(f) == {e \in Events :
  /\ e[2] \in f.days /\ Passes(f.shift, e[3]) /\ Passes(f.station, ItemRow[e[1]].station)
  /\ \A id \in DOMAIN calendar :
       ~ SameKey(calendar[id], [day |-> e[2], shift |-> e[3], station |-> ItemRow[e[1]].station])}

(* Three reports count the same pieces along different joins, and two of    *)
(* them the same minutes: a station's production is the sum over its        *)
(* products, no piece is counted twice or lost (the comment at              *)
(* production.py:2456-2459), a station's time is counted once whatever the  *)
(* number of its products (2309), and the control report has what the       *)
(* others have and the events outside the calendar.                         *)
Agree(f) ==
  LET planned == PlannedTimeReport(f)
      performance == PerformanceReport(f)
  IN  /\ TotalOf(planned) = SumFunction([r \in performance |-> r.actual])
      /\ \A minutes \in {"net", "available"} :
           SumFunction([id \in DOMAIN planned |-> planned[id].time[minutes]]) =
           SumFunction([id \in LastOfKey(f) |-> StationTime(calendar[id])[minutes]])
      /\ TotalOf(ControlReport(f)) = TotalOf(planned) + Pieces(OutsideCalendar(f))
ReportsAgree == \A f \in Filters : Agree(f)

(* Choosing a product selects rows of the report and changes none, and the  *)
(* time of a station is charged to one product or to none: shared time must *)
(* not go to each of several products (production.py:2517-2520).            *)
OnlySelects(f) ==
  LET all == PerformanceReport(f) IN
  /\ \A p \in Products :
       PerformanceReport([f EXCEPT !.product = p]) = {r \in all : r.product = p}
  /\ \A r, s \in all : r.row = s.row /\ r.product # s.product => r.performance = None
FilterOnlySelects == \A f \in Filters : OnlySelects(f)
=============================================================================
