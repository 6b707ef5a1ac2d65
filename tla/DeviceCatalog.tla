---------------------------- MODULE DeviceCatalog ----------------------------
(***************************************************************************)
(* Devices and their passports (devices, device_delete, machine_passports  *)
(* and _ensure_machine_passport in app.py).  A device is a row of table    *)
(* dastgahjadid, its passport a row of machine_passport that repeats the   *)
(* device's name.  The page of the devices writes the device first and the *)
(* passport second, the page of the passports the other way round, each in *)
(* one transaction: a transaction keeps its changes in `loc` until its     *)
(* commit, and HoldsDevice and HoldsPassport say which rows it has locked. *)
(*                                                                         *)
(* The last statement of both transactions, the row of                     *)
(* machine_product_usage, is part of the commit: nobody waits with that    *)
(* row locked.  Technical data and products are left out.                  *)
(***************************************************************************)
EXTENDS Server, Integers, FiniteSets

CONSTANTS
  Cods, Names,      \* device codes and names
  DeviceForms,      \* forms of the device page: code and name
  PassportForms,    \* forms of the passport page: code and name, or Blank
  Imported,         \* names of the devices import_legacy_data.py has left, or None
  Limit,            \* max_devices of the company's plan, which stays
  Blank

ASSUME CatalogConstants ==
  /\ IsFiniteSet(Threads) /\ IsFiniteSet(Cods)
  /\ Limit \in Nat
  /\ Blank \notin Names /\ None \notin Names /\ Blank # None
  /\ DeviceForms \subseteq [cod : Cods, name : Names]
  /\ PassportForms \subseteq [cod : Cods, name : Names \cup {Blank}]
  /\ Imported \in [Cods -> Names \cup {None}]

VARIABLES
  devices,      \* dastgahjadid: code -> name, None if there is no row
  passports,    \* machine_passport: code -> device_name, None if there is no row
  pc, loc       \* where each thread's handler is, and its local variables

tables == <<devices, passports>>
vars == <<devices, passports, pc, loc>>

NoForm == [none |-> None]
Missing == [Cods -> Names \cup {None}]
Locals == DeviceForms \cup PassportForms \cup [rows : Missing] \cup {NoForm}

DeviceSteps == {"dev_count", "dev_device", "dev_passport", "dev_usage"}
PassportSteps == {"pas_device", "pas_usage"}

TypeOK ==
  /\ devices \in [Cods -> Names \cup {None}]
  /\ passports \in [Cods -> Names \cup {Blank, None}]
  /\ pc \in [Threads -> {"idle", "ensure", "page"} \cup DeviceSteps \cup PassportSteps]
  /\ loc \in [Threads -> Locals]
  /\ \A t \in Threads : /\ pc[t] = "ensure" => loc[t] \in [rows : Missing]
                        /\ pc[t] \in DeviceSteps => loc[t] \in DeviceForms
                        /\ pc[t] \in PassportSteps => loc[t] \in PassportForms

-----------------------------------------------------------------------------

IsDevice(c) == devices[c] # None
Registered == {c \in Cods : IsDevice(c)}

\* Rows a transaction has changed and not yet committed.  An UPDATE of a
\* device that does not exist locks nothing.
HoldsDevice_WhileCounting(t, c) ==
  \/ pc[t] \in {"dev_count", "dev_passport", "dev_usage"} /\ loc[t].cod = c
  \/ pc[t] = "pas_usage" /\ loc[t].cod = c /\ loc[t].name # Blank /\ IsDevice(c)
HoldsDevice(t, c) ==
  \/ pc[t] \in {"dev_passport", "dev_usage"} /\ loc[t].cod = c
  \/ pc[t] = "pas_usage" /\ loc[t].cod = c /\ loc[t].name # Blank /\ IsDevice(c)
HoldsPassport(t, c) ==
  pc[t] \in {"dev_usage", "pas_device", "pas_usage"} /\ loc[t].cod = c

DeviceFree(c) == \A s \in Threads : ~HoldsDevice(s, c)
PassportFree(c) == \A s \in Threads : ~HoldsPassport(s, c)

Begin(t, label, locals) ==
  /\ pc' = [pc EXCEPT ![t] = label]
  /\ loc' = [loc EXCEPT ![t] = locals]
Goto(t, label) == pc' = [pc EXCEPT ![t] = label] /\ UNCHANGED loc
Finish(t) == Begin(t, "idle", NoForm)

Init ==
  /\ devices = Imported
  /\ passports = [c \in Cods |-> None]
  /\ pc = [t \in Threads |-> "idle"]
  /\ loc = [t \in Threads |-> NoForm]

-----------------------------------------------------------------------------
(* _ensure_machine_passport: the devices are read, then each that has no   *)
(* passport gets one with the name read; one transaction of insertions.    *)
(* Rows of machine_passport are never deleted, so the devices that lack    *)
(* one now are the only ones that may get one.                             *)

EnsureSelect(t) ==
  /\ pc[t] = "idle" /\ \A c \in Cods : DeviceFree(c)
  /\ Begin(t, "ensure",
       [rows |-> [c \in Cods |-> IF passports[c] = None THEN devices[c] ELSE None]])
  /\ UNCHANGED tables

EnsureInsert_Upsert(t) ==
  /\ pc[t] = "ensure"
  /\ \A c \in Cods : loc[t].rows[c] # None => PassportFree(c)
  /\ passports' = [c \in Cods |-> IF loc[t].rows[c] # None
                                    THEN loc[t].rows[c] ELSE passports[c]]
  /\ Begin(t, "page", NoForm)
  /\ UNCHANGED devices
EnsureInsert(t) ==
  /\ pc[t] = "ensure"
  /\ \A c \in Cods : loc[t].rows[c] # None => PassportFree(c)
  /\ passports' = [c \in Cods |-> IF passports[c] = None
                                    THEN loc[t].rows[c] ELSE passports[c]]
  /\ Begin(t, "page", NoForm)
  /\ UNCHANGED devices

\* A page that only reads, or an export, or a form that is refused.
EndPage(t) == pc[t] = "page" /\ Finish(t) /\ UNCHANGED tables

-----------------------------------------------------------------------------
(* devices, POST: a code that is new must fit the plan's limit. *)

DeviceSelect(t) ==
  /\ pc[t] = "page"
  /\ \E f \in DeviceForms :
       /\ DeviceFree(f.cod)
       /\ Begin(t, IF IsDevice(f.cod) THEN "dev_device" ELSE "dev_count", f)
  /\ UNCHANGED tables

\* company_limit counts on a connection of its own.
DeviceCount_OneMore(t) ==
  /\ pc[t] = "dev_count" /\ \A c \in Cods : DeviceFree(c)
  /\ IF Cardinality(Registered) > Limit THEN Finish(t) ELSE Goto(t, "dev_device")
  /\ UNCHANGED tables
DeviceCount(t) ==
  /\ pc[t] = "dev_count" /\ \A c \in Cods : DeviceFree(c)
  /\ IF Cardinality(Registered) >= Limit THEN Finish(t) ELSE Goto(t, "dev_device")
  /\ UNCHANGED tables

DeviceMerge(t) ==
  /\ pc[t] = "dev_device" /\ DeviceFree(loc[t].cod)
  /\ Goto(t, "dev_passport")
  /\ UNCHANGED tables

DevicePassport(t) ==
  /\ pc[t] = "dev_passport" /\ PassportFree(loc[t].cod)
  /\ Goto(t, "dev_usage")
  /\ UNCHANGED tables

DeviceCommit(t) ==
  /\ pc[t] = "dev_usage"
  /\ devices' = [devices EXCEPT ![loc[t].cod] = loc[t].name]
  /\ passports' = [passports EXCEPT ![loc[t].cod] = loc[t].name]
  /\ Finish(t)

-----------------------------------------------------------------------------
(* machine_passports, POST: the form belongs to a passport that exists.  A *)
(* blank name is written to the passport and not to the device.            *)

PassportUpdate(t) ==
  /\ pc[t] = "page"
  /\ \E f \in PassportForms :
       /\ passports[f.cod] # None /\ PassportFree(f.cod)
       /\ Begin(t, IF f.name = Blank THEN "pas_usage" ELSE "pas_device", f)
  /\ UNCHANGED tables

PassportDevice(t) ==
  /\ pc[t] = "pas_device" /\ DeviceFree(loc[t].cod)
  /\ Goto(t, "pas_usage")
  /\ UNCHANGED tables

PassportCommit_BlankToo(t) ==
  LET c == loc[t].cod IN
  /\ pc[t] = "pas_usage"
  /\ passports' = [passports EXCEPT ![c] = loc[t].name]
  /\ devices' = IF IsDevice(c) THEN [devices EXCEPT ![c] = loc[t].name] ELSE devices
  /\ Finish(t)
PassportCommit(t) ==
  LET c == loc[t].cod IN
  /\ pc[t] = "pas_usage"
  /\ passports' = [passports EXCEPT ![c] = loc[t].name]
  /\ devices' = IF IsDevice(c) /\ loc[t].name # Blank
                  THEN [devices EXCEPT ![c] = loc[t].name] ELSE devices
  /\ Finish(t)

-----------------------------------------------------------------------------

\* device_delete: the passport and the products stay.
DeviceDelete(t) ==
  /\ pc[t] = "idle"
  /\ \E c \in Cods : /\ DeviceFree(c)
                     /\ devices' = [devices EXCEPT ![c] = None]
  /\ UNCHANGED <<passports, pc, loc>>

\* The two pages wait for each other's row of one device: SQL Server rolls
\* one of the transactions back, and its handler ends in an error page.
Waits(t, s) ==
  /\ <<pc[t], pc[s]>> \in {<<"dev_passport", "pas_device">>, <<"pas_device", "dev_passport">>}
  /\ loc[t].cod = loc[s].cod
Victim(t) == (\E s \in Threads : Waits(t, s)) /\ Finish(t) /\ UNCHANGED tables

\* The server process ends and starts again.
Restart ==
  /\ pc' = [t \in Threads |-> "idle"]
  /\ loc' = [t \in Threads |-> NoForm]
  /\ UNCHANGED tables

Arrive(t) == EnsureSelect(t) \/ DeviceDelete(t)
Continue(t) ==
  \/ EnsureInsert(t) \/ EndPage(t)
  \/ DeviceSelect(t) \/ DeviceCount(t) \/ DeviceMerge(t)
  \/ DevicePassport(t) \/ DeviceCommit(t)
  \/ PassportUpdate(t) \/ PassportDevice(t) \/ PassportCommit(t)
  \/ Victim(t)

Next == Restart \/ \E t \in Threads : Arrive(t) \/ Continue(t)

Spec == Init /\ [][Next]_vars

\* As for the requests: locks are granted in the order they are asked for, the
\* deadlock monitor finds every cycle, and the users owe nothing.
FairSpec == Spec /\ \A t \in Threads : SF_vars(Continue(t))

-----------------------------------------------------------------------------
(* Properties *)

\* The name of a device and the name in its passport agree, unless the
\* passport's name has been blanked: neither page, nor the completion of
\* passports with names it has read before, separates them (app.py:1137-1144,
\* 1166-1169, 1268-1322).
NamesAgree == \A c \in Cods :
  IsDevice(c) /\ passports[c] \notin {None, Blank} => passports[c] = devices[c]

\* Only a device that came with the import, and that nobody has changed since,
\* has no passport: a device entered here appears among the passports at once
\* (app.py:1137).
PassportsComplete == \A c \in Cods :
  IsDevice(c) /\ passports[c] = None => devices[c] = Imported[c]

\* The number of devices is checked before the insertion and on another
\* connection (app.py:1252-1259), and not at all for a code that existed a
\* moment ago.  However the handlers interleave, the company never has more
\* devices than were imported, or than its plan allows and one more for every
\* other thread.
ImportedCods == {c \in Cods : Imported[c] # None}
Allowance == LET most == Limit + Cardinality(Threads) - 1
             IN IF Cardinality(ImportedCods) > most THEN Cardinality(ImportedCods) ELSE most
DevicesBounded == Cardinality(Registered) <= Allowance

\* The strengthening: a code whose handler has passed the check counts.
Counted == {t \in Threads : pc[t] \in {"dev_device", "dev_passport", "dev_usage"}}
Reach == Registered \cup {loc[t].cod : t \in Counted}
ReachBounded == Cardinality(Reach) <= Allowance

\* What the completion of passports has read is out of date only where the
\* passport has been written meanwhile or the device deleted.
RowsCurrent == \A t \in Threads : pc[t] = "ensure" => \A c \in Cods :
  loc[t].rows[c] # None /\ passports[c] = None /\ IsDevice(c)
    => loc[t].rows[c] = devices[c]

PassportExists == \A t \in Threads :
  pc[t] \in PassportSteps => passports[loc[t].cod] # None

IInv == /\ TypeOK /\ NamesAgree /\ PassportsComplete /\ ReachBounded
        /\ RowsCurrent /\ PassportExists

\* Every page that has begun ends, although the two pages lock the rows of a
\* device in opposite orders and the count waits on a connection of its own.
HandlersFinish == \A t \in Threads : pc[t] # "idle" ~> pc[t] = "idle"
=============================================================================
