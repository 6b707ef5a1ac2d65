---------------------------- MODULE StopRegister ----------------------------
(***************************************************************************)
(* Registration of production stops (production_stops in production.py)    *)
(* during one production date.  A form names a shift, a type and a time    *)
(* span, and may name a machine and a plan item.  The handler looks for a  *)
(* stop that overlaps it in one statement and inserts it in another, with  *)
(* nothing locked in between.  Stops are never changed or deleted.         *)
(*                                                                         *)
(* Shifts, machines, items of approved plans and their stations are        *)
(* constants: nothing in the program changes them.  That an item's plan is *)
(* approved for this date is the subject of ProductionPlan.                *)
(***************************************************************************)
EXTENDS Integers, Sequences, FiniteSets

CONSTANTS
  Threads,                          \* threads of the server
  Machines, Items, Stations,
  StationOf,                        \* station of a machine or item; an item may have none
  Shifts,
  StartTime, EndTime, CrossesMidnight,   \* columns of production_shifts
  DayLength,                        \* clock steps in a day
  StopTypes,
  Forms,                            \* the forms that users fill in
  None,                             \* SQL NULL
  MaxStops                          \* bound on the length of the table

Clock == 0..(2 * DayLength)

Stop == [shift : Shifts, machine : Machines \cup {None}, item : Items \cup {None},
         type : StopTypes, start_at : Clock, end_at : Clock]

ASSUME RegisterConstants ==
  /\ IsFiniteSet(Threads)
  /\ DayLength \in Nat /\ MaxStops \in Nat
  /\ StationOf \in [Machines \cup Items -> Stations \cup {None}]
  /\ StartTime \in [Shifts -> 0..DayLength]
  /\ EndTime \in [Shifts -> 0..DayLength]
  /\ CrossesMidnight \in [Shifts -> BOOLEAN]
  /\ Forms \subseteq Stop

VARIABLES
  stops,        \* production_stops in the order of insertion
  pc, loc       \* where each thread's handler is, and the form it works on

vars == <<stops, pc, loc>>

NoForm == [none |-> None]
TypeOK ==
  /\ stops \in Seq(Stop)
  /\ pc \in [Threads -> {"idle", "insert"}]
  /\ loc \in [Threads -> Forms \cup {NoForm}]

-----------------------------------------------------------------------------

\* A shift belongs to the date on which it starts and may end on the next.
ShiftStart(s) == StartTime[s]
ShiftEnd(s) ==
  IF \/ CrossesMidnight[s] /\ EndTime[s] <= StartTime[s]
     \/ EndTime[s] < StartTime[s]
  THEN EndTime[s] + DayLength
  ELSE EndTime[s]

Valid(f) ==
  /\ f.start_at < f.end_at
  /\ ShiftStart(f.shift) <= f.start_at
  /\ f.end_at <= ShiftEnd(f.shift)

\* Stops are compared per machine and, without a machine, per item or none.
Scope(f) == <<f.shift, f.machine, IF f.machine = None THEN f.item ELSE None>>

Overlaps_Inside(r, f) == r.start_at <= f.start_at /\ r.end_at >= f.end_at
Overlaps(r, f) == r.start_at < f.end_at /\ r.end_at > f.start_at

MachineFits(f) ==
  f.machine # None /\ f.item # None /\ StationOf[f.item] # None
    => StationOf[f.machine] = StationOf[f.item]

Init ==
  /\ stops = <<>>
  /\ pc = [t \in Threads |-> "idle"]
  /\ loc = [t \in Threads |-> NoForm]

Finish(t) ==
  /\ pc' = [pc EXCEPT ![t] = "idle"]
  /\ loc' = [loc EXCEPT ![t] = NoForm]

\* The form is validated and no stop of its scope overlaps it.  A form that
\* fails either check is refused and changes nothing.
OverlapSelect(t) ==
  /\ pc[t] = "idle"
  /\ \E f \in Forms :
       /\ Valid(f)
       /\ \A i \in DOMAIN stops :
            Scope(stops[i]) = Scope(f) => ~Overlaps(stops[i], f)
       /\ pc' = [pc EXCEPT ![t] = "insert"]
       /\ loc' = [loc EXCEPT ![t] = f]
  /\ UNCHANGED stops

Insert_AnyMachine(t) ==
  /\ pc[t] = "insert" /\ Len(stops) < MaxStops
  /\ stops' = Append(stops, loc[t])
  /\ Finish(t)
Insert_RawMachine(t) ==
  /\ pc[t] = "insert" /\ Len(stops) < MaxStops
  /\ stops' = Append(stops, IF loc[t].machine = None THEN [loc[t] EXCEPT !.machine = ""]
                                                    ELSE loc[t])
  /\ Finish(t)

\* The machine must stand at the item's station; then the row is inserted.
Insert(t) ==
  /\ pc[t] = "insert" /\ Len(stops) < MaxStops
  /\ stops' = IF MachineFits(loc[t]) THEN Append(stops, loc[t]) ELSE stops
  /\ Finish(t)

\* The server process ends and starts again.
Restart ==
  /\ pc' = [t \in Threads |-> "idle"]
  /\ loc' = [t \in Threads |-> NoForm]
  /\ UNCHANGED stops

Next == Restart \/ \E t \in Threads : OverlapSelect(t) \/ Insert(t)

Spec == Init /\ [][Next]_vars

-----------------------------------------------------------------------------
(* Properties *)

Scopes == {Scope(f) : f \in Forms}
Covers(f, m) == f.start_at <= m /\ m < f.end_at

\* The rows of a scope that count the clock step from m, and the threads that
\* have passed the overlap check with such a form.
Rows(sc, m) == {i \in DOMAIN stops : Scope(stops[i]) = sc /\ Covers(stops[i], m)}
Pending(sc, m) == {t \in Threads :
  pc[t] = "insert" /\ Scope(loc[t]) = sc /\ Covers(loc[t], m)}

\* Every stop lies in its shift and names a machine at the station of its
\* item (production.py:857-866, 914-922).
StopsFit == \A i \in DOMAIN stops : Valid(stops[i]) /\ MachineFits(stops[i])

\* What the overlap check of production.py:888-904 is worth when handlers run
\* at once: a step of the clock is covered by no more stops of one scope than
\* the server has threads, however long it runs.  With one thread the stops
\* of a scope are disjoint.
OverlapBounded == \A sc \in Scopes, m \in Clock :
  Cardinality(Rows(sc, m)) <= Cardinality(Threads)

\* The strengthening: once a row covers m, the handlers that may still add
\* another are among the threads that have not added theirs.
OverlapBudget == \A sc \in Scopes, m \in Clock :
  Rows(sc, m) # {} =>
    Cardinality(Rows(sc, m)) + Cardinality(Pending(sc, m)) <= Cardinality(Threads)

FormsValid == \A t \in Threads :
  pc[t] = "insert" => loc[t] \in Forms /\ Valid(loc[t])
RowsFromForms == \A i \in DOMAIN stops : stops[i] \in Forms

IInv == TypeOK /\ FormsValid /\ RowsFromForms /\ StopsFit /\ OverlapBudget

\* Claimed by the comment at production.py:888: overlapping stops are kept out
\* so that no minute is counted twice.
NoMinuteTwice == \A i, j \in DOMAIN stops :
  i # j /\ Scope(stops[i]) = Scope(stops[j]) => ~Overlaps(stops[i], stops[j])
=============================================================================
