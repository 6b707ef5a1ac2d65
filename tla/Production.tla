----------------------------- MODULE Production -----------------------------
(***************************************************************************)
(* The plans with what is recorded against them, and the work calendar     *)
(* with the reports, side by side: the reports have an image of their own  *)
(* of the approved items and their production.                             *)
(***************************************************************************)
EXTENDS ProductionPlan, ProductionReports

ProductionInit == Init /\ ReportsInit
ProductionNext ==
  \/ Next /\ UNCHANGED reportVars
  \/ ReportsNext /\ UNCHANGED vars
productionVars == <<vars, reportVars>>
ProductionSpec == ProductionInit /\ [][ProductionNext]_productionVars

\* The type invariant of both (the tables that production.py:605-743,
\* 1192-1395 and 2590-2630 write).
TypesOK == TypeOK /\ ReportsTypeOK
=============================================================================
