-------------------------- MODULE MCProductionPlan --------------------------
(* Instance of ProductionPlan for TLC: two threads, two plans that share    *)
(* the item ids, two days.                                                  *)
EXTENDS ProductionPlan, TLC

CONSTANTS t1, t2, t3, ann, ben, sat, sun

TwoThreads == {t1, t2}
ThreeThreads == {t1, t2, t3}
TwoAdmins == {ann, ben}
TwoDays == {sat, sun}
OneDay == {sat}

Symmetry2 == Permutations(TwoThreads) \cup Permutations(TwoAdmins) \cup Permutations(TwoDays)
=============================================================================
