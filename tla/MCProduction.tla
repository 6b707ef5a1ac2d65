---------------------------- MODULE MCProduction ----------------------------
(* Instance of Production for TLC.  The plan's handlers interleave in one    *)
(* part of the behaviours; the calendar's handlers and the growth of what    *)
(* the reports read are the other, where the items are of two products at    *)
(* one station, one of them twice, and of none.                              *)
EXTENDS Production, MCProductionPlan

CONSTANTS am, pm, station, nut, cup

VARIABLE part

ItemAt(p, s, target) == [product |-> p, station |-> s, work_day |-> 1, target |-> target]
FourRows == <<ItemAt(nut, station, 2), ItemAt(nut, station, 1),
              ItemAt(cup, station, 1), ItemAt(nut, None, 1)>>
FourItems == DOMAIN FourRows
KnownCycle == (<<nut, station>> :> 30) @@ (<<cup, station>> :> None)
MinutesLost == 0 :> [planned_stop |-> 0, unavailability |-> 0]
               @@ 3 :> [planned_stop |-> 1, unavailability |-> 1]

Symmetry3 == Symmetry2 \cup Permutations({am, pm})

MCInit == ProductionInit /\ part \in {"plans", "reports"}
MCNext ==
  /\ UNCHANGED part
  /\ \/ part = "plans" /\ Next /\ UNCHANGED reportVars
     \/ part = "reports" /\ ReportsNext /\ UNCHANGED vars
MCSpec == MCInit /\ [][MCNext]_<<productionVars, part>>
=============================================================================
