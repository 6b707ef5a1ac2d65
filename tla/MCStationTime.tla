---------------------------- MODULE MCStationTime ----------------------------
(* Instance of StationTime for TLC: one shift of four steps, a machine and   *)
(* an item at station A, an item at station B, and stop types for the flags. *)
EXTENDS StationTime, TLC

CONSTANTS t1, m1, iA, iB, sA, sB, shift, pause, fault, note

Stands == (m1 :> sA) @@ (iA :> sA) @@ (iB :> sB)
Starts == (shift :> 3)
Ends == (shift :> 2)
Crosses == (shift :> TRUE)
\* A planned stop may carry the unavailability flag too.
Planned == (pause :> TRUE) @@ (fault :> FALSE) @@ (note :> FALSE)
Counts == (pause :> TRUE) @@ (fault :> TRUE) @@ (note :> FALSE)

InShift == [shift : {shift}, machine : {m1, None}, item : {iA, iB, None},
            type : {pause, fault, note}, start_at : 3..5, end_at : 4..6]
\* Stops of the machine and of an item that overlap each other freely, and of
\* neither.
TwoScopes == {f \in InShift : \/ f.machine = m1 /\ f.item = None
                              \/ f.machine = None /\ f.item = iA}
OtherItem == {f \in InShift : f.machine = None /\ f.item = iB}
=============================================================================
