--------------------------- MODULE MCRequestReview ---------------------------
(* Instance of RequestReview for TLC: one admin and one reviewer (both may  *)
(* review), two devices, two forms.                                         *)
EXTENDS RequestReview, TLC

CONSTANTS t1, t2, t3, admin, reviewer, f1, f2, d1, d2

TwoThreads == {t1, t2}
ThreeThreads == {t1, t2, t3}
MCAdmins == {admin}
MCReviewers == {reviewer}
MCRequesters == {}
TwoForms == {f1, f2}
TwoDevices == {d1, d2}
OneForm == {f1}
OneDevice == {d1}

Symmetry2 == Permutations(TwoThreads) \cup Permutations(TwoForms) \cup Permutations(TwoDevices)
Symmetry3 == Permutations(ThreeThreads)
=============================================================================
