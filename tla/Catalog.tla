------------------------------- MODULE Catalog -------------------------------
(***************************************************************************)
(* The tables of a company that only their own pages write, side by side:  *)
(* devices and passports, goods and contractors, key equipment.            *)
(***************************************************************************)
EXTENDS DeviceCatalog, CodeRegister, KeyEquipment

CatalogInit == Init /\ CodesInit /\ KeyInit
CatalogNext ==
  \/ Next /\ UNCHANGED codeVars /\ UNCHANGED keyVars
  \/ CodesNext /\ UNCHANGED vars /\ UNCHANGED keyVars
  \/ KeyNext /\ UNCHANGED vars /\ UNCHANGED codeVars
catalogVars == <<vars, codeVars, keyVars>>
CatalogSpec == CatalogInit /\ [][CatalogNext]_catalogVars

\* The type invariant of the three (the tables that app.py:645-939 and
\* 1135-1486 write).
TypesOK == TypeOK /\ CodesTypeOK /\ KeyTypeOK
=============================================================================
