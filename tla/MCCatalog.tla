------------------------------ MODULE MCCatalog ------------------------------
(* Instance of Catalog for TLC.  The tables have nothing in common, so a      *)
(* behaviour is one of `part` and the state space the sum of the three.       *)
(*                                                                            *)
(* Three device codes, one of them imported, and a plan of one device.  The   *)
(* first device is renamed by both pages; the others are only registered and  *)
(* deleted.                                                                   *)
EXTENDS Catalog, TLC

CONSTANTS t1, t2, d1, d2, d3, lathe, press, bolt, oil, k1

VARIABLE part

Left == (d1 :> lathe) @@ (d2 :> None) @@ (d3 :> None)
FormsOfDevices == [cod : {d1}, name : {lathe, press}]
                  \cup [cod : {d2, d3}, name : {press}]
FormsOfPassports == [cod : {d1}, name : {lathe, press, Blank}]
Numbers == 1..3

(* Four criteria of 30 points: three are half key equipment, four key.  The   *)
(* machine is key equipment in the template, and its substitutes are typed    *)
(* there or not; deleted before the table is filled and registered again it   *)
(* gets a row without a class.  Rows do not depend on each other, so one is   *)
(* enough.  The forms change one criterion.                                   *)
Four == {"machine_count", "product_count", "downtime_hours", "customer_impact"}
AllHigh == [machine_count |-> "one", product_count |-> "yes",
            downtime_hours |-> "high", customer_impact |-> "high"]
InTemplate == (k1 :> AllHigh)
Given == {[criteria |-> [downtime_hours |-> "high"], subs |-> TRUE],
          [criteria |-> [downtime_hours |-> "low"], subs |-> FALSE]}

MCInit ==
  /\ CatalogInit
  /\ part \in {"devices", "codes", "keys"}
  /\ part # "keys" => typed = {}

MCNext ==
  /\ UNCHANGED part
  /\ \/ part = "devices" /\ Next /\ UNCHANGED codeVars /\ UNCHANGED keyVars
     \/ part = "codes" /\ CodesNext /\ UNCHANGED vars /\ UNCHANGED keyVars
     \/ part = "keys" /\ KeyNext /\ UNCHANGED vars /\ UNCHANGED codeVars

MCSpec ==
  /\ MCInit /\ [][MCNext]_<<catalogVars, part>>
  /\ \A t \in Threads : SF_vars(Continue(t))
=============================================================================
