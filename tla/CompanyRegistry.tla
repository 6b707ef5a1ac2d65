-------------------------- MODULE CompanyRegistry --------------------------
(***************************************************************************)
(* What the management pages promise about companies: each has a database  *)
(* of its own (templates/master_companies.html: "every company has a       *)
(* separate database"), which holds the company's first administrator from *)
(* the moment the company appears in the list.  The first company is the   *)
(* one whose database was there before there were several.                 *)
(* CompanyProvisioning implements this specification.                      *)
(***************************************************************************)
CONSTANTS Names, Databases, Admins, FirstName, FirstDb, FirstUsers, None

VARIABLE registry   \* name -> database and its users, or Unregistered

Unregistered == [db |-> None, users |-> {}]

Init == registry = [n \in Names |-> Unregistered]

IsRegistered(n) == registry[n] # Unregistered

RegisterFirst ==
  /\ \A n \in Names : ~IsRegistered(n)
  /\ registry' = [registry EXCEPT ![FirstName] = [db |-> FirstDb, users |-> FirstUsers]]

Register(n, d, a) ==
  /\ IsRegistered(FirstName) /\ ~IsRegistered(n)
  /\ \A o \in Names : registry[o].db # d
  /\ registry' = [registry EXCEPT ![n] = [db |-> d, users |-> {a}]]

Next ==
  \/ RegisterFirst
  \/ \E n \in Names, d \in Databases, a \in Admins : Register(n, d, a)

Spec == Init /\ [][Next]_registry
=============================================================================
