------------------------------ MODULE MCAccess ------------------------------
(* Instance of UserAccounts, Sessions and LoginLimit for TLC: two browsers,   *)
(* two accounts by plan; one browser with two requests under way in two       *)
(* companies; and two sign-ins at once from one address.                      *)
(*                                                                            *)
(* The modules share no variable and none reads what another changes, so a    *)
(* behaviour of all together violates a property of one only if that one does *)
(* so alone.  A behaviour here is therefore one of `part`, and the state      *)
(* space the sum of the three and not their product.                          *)
EXTENDS Access, TLC

CONSTANTS c1, c2, t1, t2, b1, b2, tab, sara, omid, mina, admin, reviewer

AccountForms == {[name |-> mina, role |-> "viewer"], [name |-> omid, role |-> "admin"]}
Symmetry == Permutations({t1, t2}) \cup Permutations({b1, b2}) \cup Permutations({c1, c2})

VARIABLE part

MCInit ==
  /\ AccessInit
  /\ part \in {"accounts", "visits", "limit"}
  /\ part # "accounts" => unique

MCNext ==
  /\ UNCHANGED part
  /\ \/ part = "accounts" /\ Next /\ UNCHANGED <<sessionVars, limitVars>>
     \/ part = "visits" /\ SessionsNext /\ UNCHANGED <<vars, limitVars>>
     \/ part = "limit" /\ LimitNext /\ UNCHANGED <<vars, sessionVars>>

MCSpec == MCInit /\ [][MCNext]_<<vars, sessionVars, limitVars, part>>
=============================================================================
