--------------------------- MODULE MCStopRegister ---------------------------
(* Instance of StopRegister for TLC: a day shift and a night shift that      *)
(* crosses midnight, a machine at each of two stations, an item at one.      *)
EXTENDS StopRegister, TLC

CONSTANTS t1, t2, m1, m2, i1, sA, sB, day, night, fault

TwoThreads == {t1, t2}
Stands == (m1 :> sA) @@ (m2 :> sB) @@ (i1 :> sA)
Starts == (day :> 0) @@ (night :> 3)
Ends == (day :> 3) @@ (night :> 1)
Crosses == (day :> FALSE) @@ (night :> TRUE)

\* The machine's stops of both shifts, in and out of their hours, and single
\* stops of the other machine, of the item and of neither.
OfMachine == [shift : {day, night}, machine : {m1}, item : {None}, type : {fault},
              start_at : 0..4, end_at : 1..5]
Others == [shift : {day}, machine : {m2, None}, item : {i1, None}, type : {fault},
           start_at : {0}, end_at : {2}]
MixedForms == OfMachine \cup Others
MachineForms == {f \in OfMachine : f.shift = day}

Symmetry == Permutations(TwoThreads)
=============================================================================
