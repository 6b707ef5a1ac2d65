------------------------------- MODULE MCTimes -------------------------------
(* Instances of StationTime and JalaliCalendar for TLC: the arithmetic of     *)
(* minutes and of days.  A behaviour registers stops or walks through a       *)
(* century and two cycles of leap years.                                      *)
EXTENDS MCStationTime, JalaliCalendar

VARIABLE part

MCInit == Init /\ FirstDay /\ part \in {"stops", "days"}
MCNext ==
  /\ UNCHANGED part
  /\ \/ part = "stops" /\ Next /\ UNCHANGED today
     \/ part = "days" /\ Walk /\ UNCHANGED vars
     \/ part = "days" /\ ~ENABLED Walk /\ UNCHANGED <<vars, today>>
MCSpec == MCInit /\ [][MCNext]_<<vars, today, part>>
=============================================================================
