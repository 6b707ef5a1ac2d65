---------------------------- MODULE CatalogProofs ----------------------------
(***************************************************************************)
(* Proofs about the three parts of Catalog and their composition, for any  *)
(* number of threads, any finite set of device codes and of numbers, any   *)
(* forms, template and criteria, and any limit.                            *)
(***************************************************************************)
EXTENDS Catalog, TLAPS, FiniteSetTheorems, LoopLemmas

-----------------------------------------------------------------------------
(* Devices and passports *)

\* What a form holds, whichever page it comes from.
LEMMA FormFields ==
  /\ \A f \in DeviceForms : f.cod \in Cods /\ f.name \in Names
  /\ \A f \in PassportForms : f.cod \in Cods /\ f.name \in Names \cup {Blank}
BY CatalogConstants

\* The invariant holds with no devices.
LEMMA InitInvariant == Init => IInv
<1> SUFFICES ASSUME Init PROVE IInv  OBVIOUS
<1> USE CatalogConstants DEF Init
<1>1. TypeOK  BY DEF TypeOK, Locals, DeviceSteps, PassportSteps
<1>2. NamesAgree /\ PassportsComplete  BY DEF NamesAgree, PassportsComplete
<1>3. RowsCurrent /\ PassportExists  BY DEF RowsCurrent, PassportExists, PassportSteps
<1>4. ReachBounded
  <2>1. Reach = ImportedCods  BY DEF Reach, Registered, IsDevice, Counted, ImportedCods
  <2>2. IsFiniteSet(ImportedCods)  BY FS_Subset DEF ImportedCods
  <2>3. Cardinality(ImportedCods) \in Nat /\ Cardinality(Threads) \in Nat
    BY <2>2, FS_CardinalityType
  <2> QED  BY <2>1, <2>3 DEF ReachBounded, Allowance
<1> QED  BY <1>1, <1>2, <1>3, <1>4 DEF IInv

-----------------------------------------------------------------------------
(* Types *)

\* Every step keeps the types.
LEMMA TypeStep == TypeOK /\ [Next]_vars => TypeOK'
<1> SUFFICES ASSUME TypeOK, [Next]_vars PROVE TypeOK'  OBVIOUS
<1> USE CatalogConstants
<1> USE DEF TypeOK, Locals, DeviceSteps, PassportSteps, Begin, Goto, Finish, tables
<1>1. CASE Restart  BY <1>1 DEF Restart
<1>2. ASSUME NEW t \in Threads, EnsureSelect(t) PROVE TypeOK'
  <2> DEFINE missing == [c \in Cods |-> IF passports[c] = None THEN devices[c] ELSE None]
  <2>1. missing \in Missing  BY DEF Missing
  <2>2. [rows |-> missing] \in [rows : Missing]  BY <2>1
  <2>3. pc' = [pc EXCEPT ![t] = "ensure"] /\ loc' = [loc EXCEPT ![t] = [rows |-> missing]]
        /\ UNCHANGED <<devices, passports>>
    BY <1>2 DEF EnsureSelect
  <2> HIDE DEF missing
  <2> QED  BY <2>2, <2>3
<1>3. ASSUME NEW t \in Threads, EnsureInsert(t) PROVE TypeOK'
  <2>1. loc[t].rows \in Missing  BY <1>3 DEF EnsureInsert
  <2>2. passports' \in [Cods -> Names \cup {Blank, None}]
    BY <1>3, <2>1 DEF EnsureInsert, Missing
  <2> QED  BY <1>3, <2>2 DEF EnsureInsert
<1>4. ASSUME NEW t \in Threads, EndPage(t) PROVE TypeOK'  BY <1>4 DEF EndPage
<1>5. ASSUME NEW t \in Threads, DeviceSelect(t) PROVE TypeOK'  BY <1>5 DEF DeviceSelect
<1>6. ASSUME NEW t \in Threads, DeviceCount(t) PROVE TypeOK'  BY <1>6 DEF DeviceCount
<1>7. ASSUME NEW t \in Threads, DeviceMerge(t) PROVE TypeOK'  BY <1>7 DEF DeviceMerge
<1>8. ASSUME NEW t \in Threads, DevicePassport(t) PROVE TypeOK'  BY <1>8 DEF DevicePassport
<1>9. ASSUME NEW t \in Threads, DeviceCommit(t) PROVE TypeOK'
  <2>1. loc[t].cod \in Cods /\ loc[t].name \in Names  BY <1>9, FormFields DEF DeviceCommit
  <2> QED  BY <1>9, <2>1 DEF DeviceCommit
<1>10. ASSUME NEW t \in Threads, PassportUpdate(t) PROVE TypeOK'
  BY <1>10 DEF PassportUpdate
<1>11. ASSUME NEW t \in Threads, PassportDevice(t) PROVE TypeOK'
  BY <1>11 DEF PassportDevice
<1>12. ASSUME NEW t \in Threads, PassportCommit(t) PROVE TypeOK'
  <2>1. loc[t].cod \in Cods /\ loc[t].name \in Names \cup {Blank}
    BY <1>12, FormFields DEF PassportCommit
  <2> QED  BY <1>12, <2>1 DEF PassportCommit
<1>13. ASSUME NEW t \in Threads, Victim(t) PROVE TypeOK'  BY <1>13 DEF Victim
<1>14. ASSUME NEW t \in Threads, DeviceDelete(t) PROVE TypeOK'  BY <1>14 DEF DeviceDelete
<1>15. CASE UNCHANGED vars  BY <1>15 DEF vars
<1> QED
  BY <1>1, <1>2, <1>3, <1>4, <1>5, <1>6, <1>7, <1>8, <1>9, <1>10, <1>11, <1>12, <1>13,
     <1>14, <1>15 DEF Next, Arrive, Continue

-----------------------------------------------------------------------------
(* The tables.  Four steps write them. *)

Writes(t) == EnsureInsert(t) \/ DeviceCommit(t) \/ PassportCommit(t) \/ DeviceDelete(t)

\* Only three statements write devices or passports.
LEMMA OthersRead ==
  ASSUME [Next]_vars, \A t \in Threads : ~Writes(t)
  PROVE  UNCHANGED <<devices, passports>>
BY DEF Next, Arrive, Continue, Writes, vars, tables, Restart, EnsureSelect, EndPage,
       DeviceSelect, DeviceCount, DeviceMerge, DevicePassport, PassportUpdate,
       PassportDevice, Victim

\* A step keeps the two names of a device equal, and its passport in place.
LEMMA NamesStep == IInv /\ [Next]_vars => NamesAgree' /\ PassportsComplete'
<1> SUFFICES ASSUME IInv, [Next]_vars PROVE NamesAgree' /\ PassportsComplete'  OBVIOUS
<1> USE CatalogConstants DEF NamesAgree, PassportsComplete, IsDevice, Begin, Finish
<1>1. TypeOK /\ NamesAgree /\ PassportsComplete  BY DEF IInv
<1>2. CASE \A t \in Threads : ~Writes(t)  BY <1>1, <1>2, OthersRead
<1>3. ASSUME NEW t \in Threads, EnsureInsert(t) PROVE NamesAgree' /\ PassportsComplete'
  <2>1. \A c \in Cods : loc[t].rows[c] # None /\ passports[c] = None /\ devices[c] # None
          => loc[t].rows[c] = devices[c]
    BY <1>3 DEF EnsureInsert, IInv, RowsCurrent
  <2> QED  BY <1>1, <1>3, <2>1 DEF EnsureInsert
<1>4. ASSUME NEW t \in Threads, DeviceCommit(t) PROVE NamesAgree' /\ PassportsComplete'
  <2>1. loc[t].cod \in Cods /\ loc[t].name \in Names
    BY <1>1, <1>4, FormFields DEF DeviceCommit, TypeOK, DeviceSteps
  <2> QED  BY <1>1, <1>4, <2>1 DEF DeviceCommit, TypeOK
<1>5. ASSUME NEW t \in Threads, PassportCommit(t) PROVE NamesAgree' /\ PassportsComplete'
  <2>1. loc[t].cod \in Cods /\ loc[t].name \in Names \cup {Blank}
    BY <1>1, <1>5, FormFields DEF PassportCommit, TypeOK, PassportSteps
  <2> QED  BY <1>1, <1>5, <2>1 DEF PassportCommit, TypeOK
<1>6. ASSUME NEW t \in Threads, DeviceDelete(t) PROVE NamesAgree' /\ PassportsComplete'
  BY <1>1, <1>6 DEF DeviceDelete, TypeOK
<1> QED  BY <1>2, <1>3, <1>4, <1>5, <1>6 DEF Writes

\* A passport is never removed, and a device only changes or appears together
\* with its passport.
LEMMA PassportsStay ==
  ASSUME IInv, [Next]_vars, NEW c \in Cods
  PROVE  /\ passports[c] # None => passports'[c] # None
         /\ passports'[c] = None => devices'[c] \in {devices[c], None}
<1> USE CatalogConstants DEF Begin, Finish
<1>1. TypeOK  BY DEF IInv
<1>2. CASE \A t \in Threads : ~Writes(t)  BY <1>2, OthersRead
<1>3. ASSUME NEW t \in Threads, EnsureInsert(t)
      PROVE  /\ passports[c] # None => passports'[c] # None
             /\ passports'[c] = None => devices'[c] \in {devices[c], None}
  BY <1>3 DEF EnsureInsert
<1>4. ASSUME NEW t \in Threads, DeviceCommit(t)
      PROVE  /\ passports[c] # None => passports'[c] # None
             /\ passports'[c] = None => devices'[c] \in {devices[c], None}
  <2>1. loc[t].cod \in Cods /\ loc[t].name \in Names
    BY <1>1, <1>4, FormFields DEF DeviceCommit, TypeOK, DeviceSteps
  <2> QED  BY <1>1, <1>4, <2>1 DEF DeviceCommit, TypeOK
<1>5. ASSUME NEW t \in Threads, PassportCommit(t)
      PROVE  /\ passports[c] # None => passports'[c] # None
             /\ passports'[c] = None => devices'[c] \in {devices[c], None}
  <2>1. loc[t].cod \in Cods /\ loc[t].name \in Names \cup {Blank}
    BY <1>1, <1>5, FormFields DEF PassportCommit, TypeOK, PassportSteps
  <2> QED  BY <1>1, <1>5, <2>1 DEF PassportCommit, TypeOK
<1>6. ASSUME NEW t \in Threads, DeviceDelete(t)
      PROVE  /\ passports[c] # None => passports'[c] # None
             /\ passports'[c] = None => devices'[c] \in {devices[c], None}
  BY <1>1, <1>6 DEF DeviceDelete, TypeOK
<1> QED  BY <1>2, <1>3, <1>4, <1>5, <1>6 DEF Writes

-----------------------------------------------------------------------------
(* The handlers' locals *)

\* A handler that is completing passports, or saving one, has just begun to, or
\* its locals are what they were.
LEMMA LocalsKept ==
  ASSUME TypeOK, [Next]_vars, NEW t \in Threads
  PROVE  /\ pc'[t] = "ensure" =>
              \/ pc[t] = "ensure" /\ loc'[t] = loc[t]
              \/ EnsureSelect(t)
         /\ pc'[t] \in PassportSteps =>
              \/ pc[t] \in PassportSteps /\ loc'[t] = loc[t]
              \/ PassportUpdate(t)
<1> USE DEF TypeOK, Begin, Goto, Finish, PassportSteps
<1>1. CASE Restart  BY <1>1 DEF Restart
<1>2. CASE UNCHANGED vars  BY <1>2 DEF vars
<1>3. ASSUME NEW s \in Threads, Arrive(s) \/ Continue(s)
      PROVE  /\ pc'[t] = "ensure" =>
                  \/ pc[t] = "ensure" /\ loc'[t] = loc[t]
                  \/ EnsureSelect(t)
             /\ pc'[t] \in PassportSteps =>
                  \/ pc[t] \in PassportSteps /\ loc'[t] = loc[t]
                  \/ PassportUpdate(t)
  <2>1. CASE s = t
    <3>1. CASE EnsureSelect(t) \/ PassportUpdate(t)
      BY <3>1 DEF EnsureSelect, PassportUpdate
    <3>2. CASE EnsureInsert(t) \/ EndPage(t) \/ DeviceSelect(t) \/ DeviceCount(t)
      BY <3>2 DEF EnsureInsert, EndPage, DeviceSelect, DeviceCount
    <3>3. CASE DeviceMerge(t) \/ DevicePassport(t) \/ DeviceCommit(t) \/ PassportCommit(t)
      BY <3>3 DEF DeviceMerge, DevicePassport, DeviceCommit, PassportCommit
    <3>4. CASE PassportDevice(t) \/ Victim(t) \/ DeviceDelete(t)
      BY <3>4 DEF PassportDevice, Victim, DeviceDelete
    <3> QED  BY <1>3, <2>1, <3>1, <3>2, <3>3, <3>4 DEF Arrive, Continue
  <2>2. CASE s # t
    <3>1. pc'[t] = pc[t] /\ loc'[t] = loc[t]
      BY <1>3, <2>2 DEF Arrive, Continue, EnsureSelect, EnsureInsert, EndPage, DeviceSelect,
         DeviceCount, DeviceMerge, DevicePassport, DeviceCommit, PassportUpdate,
         PassportDevice, PassportCommit, Victim, DeviceDelete
    <3> QED  BY <3>1
  <2> QED  BY <2>1, <2>2
<1> QED  BY <1>1, <1>2, <1>3 DEF Next

\* A step keeps the rows that the handlers have read up to date as far as they
\* rely on them.
LEMMA RowsStep == IInv /\ [Next]_vars => RowsCurrent' /\ PassportExists'
<1> SUFFICES ASSUME IInv, [Next]_vars, NEW t \in Threads
             PROVE  /\ pc'[t] = "ensure" => \A c \in Cods :
                         loc'[t].rows[c] # None /\ passports'[c] = None /\ devices'[c] # None
                           => loc'[t].rows[c] = devices'[c]
                    /\ pc'[t] \in PassportSteps => passports'[loc'[t].cod] # None
  BY DEF RowsCurrent, PassportExists, IsDevice
<1>1. TypeOK /\ RowsCurrent /\ PassportExists  BY DEF IInv
<1>2. ASSUME pc'[t] = "ensure", NEW c \in Cods, loc'[t].rows[c] # None,
             passports'[c] = None, devices'[c] # None
      PROVE  loc'[t].rows[c] = devices'[c]
  <2>1. passports[c] = None /\ devices'[c] = devices[c]  BY <1>2, PassportsStay
  <2>2. CASE pc[t] = "ensure" /\ loc'[t] = loc[t]
    BY <1>1, <1>2, <2>1, <2>2 DEF RowsCurrent, IsDevice
  <2>3. CASE EnsureSelect(t)
    BY <1>1, <1>2, <2>1, <2>3 DEF EnsureSelect, Begin, TypeOK
  <2> QED  BY <1>1, <1>2, <2>2, <2>3, LocalsKept
<1>3. ASSUME pc'[t] \in PassportSteps PROVE passports'[loc'[t].cod] # None
  <2>1. loc'[t].cod \in Cods /\ passports[loc'[t].cod] # None
    <3>1. CASE pc[t] \in PassportSteps /\ loc'[t] = loc[t]
      BY <1>1, <3>1, FormFields DEF TypeOK, PassportExists
    <3>2. CASE PassportUpdate(t)
      BY <1>1, <3>2, FormFields DEF PassportUpdate, Begin, TypeOK
    <3> QED  BY <1>1, <1>3, <3>1, <3>2, LocalsKept
  <2> QED  BY <2>1, PassportsStay
<1> QED  BY <1>2, <1>3

-----------------------------------------------------------------------------
(* The limit *)

\* The codes that are registered or may be by handlers that have passed the
\* check are finitely many.
LEMMA ReachFinite ==
  ASSUME TypeOK
  PROVE  /\ Reach \subseteq Cods
         /\ IsFiniteSet(Reach) /\ IsFiniteSet(Registered)
<1>1. Registered \subseteq Cods  BY DEF Registered
<1>2. \A t \in Counted : loc[t].cod \in Cods
  BY FormFields DEF TypeOK, Counted, DeviceSteps
<1>3. Reach \subseteq Cods  BY <1>1, <1>2 DEF Reach
<1> QED  BY <1>1, <1>3, FS_Subset, CatalogConstants

\* Every step but the check itself leaves fewer codes within reach, or as many.
LEMMA ReachShrinks ==
  ASSUME IInv, [Next]_vars, \A t \in Threads : ~DeviceCount(t)
  PROVE  Reach' \subseteq Reach
<1> USE DEF Reach, Registered, IsDevice, Counted, Begin, Goto, Finish, tables, DeviceSteps
<1>1. TypeOK  BY DEF IInv
<1>2. CASE Restart  BY <1>2 DEF Restart
<1>3. CASE UNCHANGED vars  BY <1>3 DEF vars
<1>4. ASSUME NEW t \in Threads,
             EnsureSelect(t) \/ EnsureInsert(t) \/ EndPage(t) \/ DevicePassport(t)
               \/ DeviceMerge(t) \/ PassportDevice(t) \/ Victim(t) \/ PassportUpdate(t)
      PROVE  Reach' \subseteq Reach
  <2>1. devices' = devices
    BY <1>4 DEF EnsureSelect, EnsureInsert, EndPage, DevicePassport, DeviceMerge,
       PassportDevice, Victim, PassportUpdate
  <2>2. \A s \in Threads : s \in Counted' => s \in Counted /\ loc'[s] = loc[s]
    BY <1>1, <1>4 DEF EnsureSelect, EnsureInsert, EndPage, DevicePassport, DeviceMerge,
       PassportDevice, Victim, PassportUpdate, TypeOK
  <2> QED  BY <2>1, <2>2
<1>5. ASSUME NEW t \in Threads, DeviceSelect(t) PROVE Reach' \subseteq Reach
  <2>1. PICK f \in DeviceForms :
          pc' = [pc EXCEPT ![t] = IF IsDevice(f.cod) THEN "dev_device" ELSE "dev_count"]
          /\ loc' = [loc EXCEPT ![t] = f]
    BY <1>5 DEF DeviceSelect
  <2>2. \A s \in Counted' : (s \in Counted /\ loc'[s] = loc[s])
                            \/ (loc'[s] = f /\ f.cod \in Registered)
    BY <1>1, <2>1, FormFields DEF TypeOK
  <2> QED  BY <1>5, <2>2 DEF DeviceSelect
<1>6. ASSUME NEW t \in Threads, DeviceCommit(t) PROVE Reach' \subseteq Reach
  <2>1. t \in Counted /\ loc[t].cod \in Reach  BY <1>6 DEF DeviceCommit
  <2>2. Registered' \subseteq Registered \cup {loc[t].cod}
    BY <1>1, <1>6 DEF DeviceCommit, TypeOK
  <2>3. \A s \in Counted' : s \in Counted /\ loc'[s] = loc[s]
    BY <1>1, <1>6 DEF DeviceCommit, TypeOK
  <2> QED  BY <2>1, <2>2, <2>3
<1>7. ASSUME NEW t \in Threads, PassportCommit(t) PROVE Reach' \subseteq Reach
  <2>1. Registered' \subseteq Registered  BY <1>1, <1>7 DEF PassportCommit, TypeOK
  <2>2. \A s \in Counted' : s \in Counted /\ loc'[s] = loc[s]
    BY <1>1, <1>7 DEF PassportCommit, TypeOK
  <2> QED  BY <2>1, <2>2
<1>8. ASSUME NEW t \in Threads, DeviceDelete(t) PROVE Reach' \subseteq Reach
  BY <1>1, <1>8 DEF DeviceDelete, TypeOK
<1> QED  BY <1>2, <1>3, <1>4, <1>5, <1>6, <1>7, <1>8 DEF Next, Arrive, Continue

\* The check passes below the limit, when no more than one code per thread can
\* be on its way.
LEMMA CountStep ==
  ASSUME IInv, NEW t \in Threads, DeviceCount(t)
  PROVE  ReachBounded'
<1> USE CatalogConstants DEF Begin, Goto, Finish
<1>1. TypeOK /\ ReachBounded  BY DEF IInv
<1>2. devices' = devices  BY DEF DeviceCount, tables
<1>3. CASE Cardinality(Registered) >= Limit
  <2>1. pc' = [pc EXCEPT ![t] = "idle"] /\ loc' = [loc EXCEPT ![t] = NoForm]
    BY <1>3 DEF DeviceCount
  <2>2. \A s \in Threads : s \in Counted' => s \in Counted /\ loc'[s] = loc[s]
    BY <1>1, <2>1 DEF TypeOK, Counted
  <2>3. Reach' \subseteq Reach  BY <1>2, <2>2 DEF Reach, Registered, IsDevice, Counted
  <2>4. IsFiniteSet(Reach)  BY <1>1, ReachFinite
  <2>5. /\ Cardinality(Reach') <= Cardinality(Reach)
        /\ Cardinality(Reach') \in Nat /\ Cardinality(Reach) \in Nat
    BY <2>3, <2>4, FS_Subset, FS_CardinalityType
  <2>6. Cardinality(ImportedCods) \in Nat /\ Cardinality(Threads) \in Nat
    BY FS_Subset, FS_CardinalityType DEF ImportedCods
  <2>7. Allowance \in Int  BY <2>6 DEF Allowance
  <2>8. Cardinality(Reach') <= Allowance  BY <1>1, <2>5, <2>7 DEF ReachBounded
  <2>9. Allowance' = Allowance  BY DEF Allowance, ImportedCods
  <2> QED  BY <2>8, <2>9 DEF ReachBounded
<1>4. CASE ~(Cardinality(Registered) >= Limit)
  <2> DEFINE coming == {loc'[s].cod : s \in Counted'}
             of == [s \in Counted' |-> loc'[s].cod]
  <2>1. IsFiniteSet(Registered)  BY <1>1, ReachFinite
  <2>2. Cardinality(Registered) <= Limit - 1 /\ Cardinality(Registered) \in Nat
    BY <1>4, <2>1, FS_CardinalityType
  <2>3. IsFiniteSet(Counted') /\ Cardinality(Counted') <= Cardinality(Threads)
        /\ Cardinality(Counted') \in Nat /\ Cardinality(Threads) \in Nat
    <3>1. Counted' \subseteq Threads  BY DEF Counted
    <3> QED  BY <3>1, FS_Subset, FS_CardinalityType
  <2>4. of \in Surjection(Counted', coming)  BY DEF Surjection
  <2>5. IsFiniteSet(coming) /\ Cardinality(coming) <= Cardinality(Counted')
        /\ Cardinality(coming) \in Nat
    BY <2>3, <2>4, FS_Surjection, FS_CardinalityType
  <2>6. Reach' = Registered \cup coming  BY <1>2 DEF Reach, Registered, IsDevice
  <2> HIDE DEF coming, of
  <2>7. Cardinality(Registered \cup coming) <= Cardinality(Registered) + Cardinality(coming)
    <3>1. IsFiniteSet(Registered \cap coming)  BY <2>1, FS_Subset
    <3>2. Cardinality(Registered \cap coming) \in Nat  BY <3>1, FS_CardinalityType
    <3>3. Cardinality(Registered \cup coming) = Cardinality(Registered) + Cardinality(coming)
            - Cardinality(Registered \cap coming)
      BY <2>1, <2>5, FS_Union
    <3> QED  BY <2>2, <2>5, <3>2, <3>3
  <2>8. IsFiniteSet(Registered \cup coming)  BY <2>1, <2>5, FS_Union
  <2>9. Cardinality(Registered \cup coming) \in Nat  BY <2>8, FS_CardinalityType
  <2>10. Cardinality(Registered \cup coming) <= Limit - 1 + Cardinality(Threads)
    BY <2>2, <2>3, <2>5, <2>7, <2>9
  <2>11. Cardinality(ImportedCods) \in Nat  BY FS_Subset, FS_CardinalityType DEF ImportedCods
  <2>12. Cardinality(Registered \cup coming) <= Allowance
    BY <2>3, <2>9, <2>10, <2>11 DEF Allowance
  <2> QED  BY <2>6, <2>12 DEF ReachBounded, Allowance, ImportedCods
<1> QED  BY <1>3, <1>4

\* A device is only inserted by a handler that has counted the others.
LEMMA ReachStep == IInv /\ [Next]_vars => ReachBounded'
<1> SUFFICES ASSUME IInv, [Next]_vars PROVE ReachBounded'  OBVIOUS
<1>1. CASE \E t \in Threads : DeviceCount(t)  BY <1>1, CountStep
<1>2. CASE \A t \in Threads : ~DeviceCount(t)
  <2>1. Reach' \subseteq Reach  BY <1>2, ReachShrinks
  <2>2. IsFiniteSet(Reach)  BY ReachFinite DEF IInv
  <2>3. /\ Cardinality(Reach') <= Cardinality(Reach)
        /\ Cardinality(Reach') \in Nat /\ Cardinality(Reach) \in Nat
    BY <2>1, <2>2, FS_Subset, FS_CardinalityType
  <2>4. Cardinality(ImportedCods) \in Nat /\ Cardinality(Threads) \in Nat
    BY FS_Subset, FS_CardinalityType, CatalogConstants DEF ImportedCods
  <2>5. Allowance \in Int  BY <2>4, CatalogConstants DEF Allowance
  <2>6. Cardinality(Reach') <= Allowance  BY <2>3, <2>5 DEF IInv, ReachBounded
  <2> QED  BY <2>6 DEF ReachBounded, Allowance, ImportedCods
<1> QED  BY <1>1, <1>2

-----------------------------------------------------------------------------

\* Every step keeps the invariant.
LEMMA InvStep == IInv /\ [Next]_vars => IInv'
<1> SUFFICES ASSUME IInv, [Next]_vars PROVE IInv'  OBVIOUS
<1>1. TypeOK'  BY TypeStep DEF IInv
<1> QED  BY <1>1, NamesStep, RowsStep, ReachStep DEF IInv

\* The inductive invariant holds in every reachable state.
LEMMA Invariance == Spec => []IInv
BY InitInvariant, InvStep, PTL DEF Spec

\* The tables and the locals of every handler keep their types.
THEOREM TypeCorrect == Spec => []TypeOK
<1>1. IInv => TypeOK  BY DEF IInv
<1> QED  BY Invariance, <1>1, PTL

\* The two pages and the completion of passports never separate the name of a
\* device from the name in its passport, unless it is blanked.
THEOREM NamesStayTogether == Spec => []NamesAgree
<1>1. IInv => NamesAgree  BY DEF IInv
<1> QED  BY Invariance, <1>1, PTL

\* A device that was entered or changed here has a passport.
THEOREM DevicesHavePassports == Spec => []PassportsComplete
<1>1. IInv => PassportsComplete  BY DEF IInv
<1> QED  BY Invariance, <1>1, PTL

\* Handlers that run at once exceed the plan by at most one device for every
\* thread but one.
THEOREM LimitHolds == Spec => []DevicesBounded
<1>1. IInv => DevicesBounded
  <2> SUFFICES ASSUME IInv PROVE DevicesBounded  OBVIOUS
  <2>1. TypeOK /\ ReachBounded  BY DEF IInv
  <2>2. Registered \subseteq Reach /\ IsFiniteSet(Reach)  BY <2>1, ReachFinite DEF Reach
  <2>3. /\ Cardinality(Registered) <= Cardinality(Reach)
        /\ Cardinality(Registered) \in Nat /\ Cardinality(Reach) \in Nat
    BY <2>2, FS_Subset, FS_CardinalityType
  <2>4. Cardinality(ImportedCods) \in Nat /\ Cardinality(Threads) \in Nat
    BY FS_Subset, FS_CardinalityType, CatalogConstants DEF ImportedCods
  <2>5. Allowance \in Int  BY <2>4, CatalogConstants DEF Allowance
  <2> QED  BY <2>1, <2>3, <2>5 DEF ReachBounded, DevicesBounded
<1> QED  BY Invariance, <1>1, PTL

-----------------------------------------------------------------------------
(* Key equipment.  The scores are not looked into: that every score has    *)
(* one of the three classes is enough.                                     *)

\* The table is empty until it is filled from the template, and no handler is
\* past that before; so the first filling meets no row.
FilledFirst ==
  /\ ~seeded => \A d \in Devices : rows[d] = None
  /\ \A t \in Threads : keyPc[t] \in {"ensure", "page", "save"} => seeded

\* No row is ever deleted: the one a save has read is still there.
SaveHasRow ==
  \A t \in Threads : keyPc[t] = "save" =>
    /\ keyLoc[t] \in [device : Devices, form : KeyForms, row : Row]
    /\ rows[keyLoc[t].device] \in Row

KeyInv == KeyTypeOK /\ FilledFirst /\ SaveHasRow /\ SubstitutesOnlyForKey

-----------------------------------------------------------------------------
(* Lemmas on rows *)

\* The three classes of app.py:60-79.
LEMMA ClassOfType == ASSUME NEW c PROVE ClassOf(c) \in {"key", "half_key", "normal"}
BY DEF ClassOf, KeyClassification

\* A row that was just inserted has neither class nor substitutes.
LEMMA NewRowType == NewRow \in Row /\ NewRow.class = Empty /\ NewRow.subs = Empty
<1>1. [f \in Fields |-> Empty] \in Criteria  BY DEF Criteria
<1> QED  BY <1>1 DEF NewRow, Row

\* The row of a device, or the one to insert.
LEMMA ExistingType ==
  ASSUME NEW d \in Devices, rows \in [Devices -> Row \cup {None}]
  PROVE  Existing(d) \in Row
BY NewRowType DEF Existing

\* ensure_key_equipment_rows keeps a class and drops the substitutes of
\* whatever is not key.
LEMMA FixedType ==
  ASSUME NEW row \in Row, NEW d
  PROVE  /\ Fixed(row, d) \in Row
         /\ Fixed(row, d).class = row.class
         /\ Fixed(row, d).subs # Empty => row.class = "key"
<1> DEFINE s == IF d \in Resembling THEN "found" ELSE Empty
<1>1. row.criteria \in Criteria /\ row.manual \in BOOLEAN
      /\ row.class \in {Empty, "key", "half_key", "normal"} /\ s \in {Empty, "found", "typed"}
  BY DEF Row
<1>2. CASE row.class # "key"
  <2>1. Fixed(row, d) = [row EXCEPT !.subs = Empty]  BY <1>2 DEF Fixed
  <2> QED  BY <1>1, <2>1 DEF Row
<1>3. CASE row.class = "key" /\ row.manual
  <2>1. Fixed(row, d) = row  BY <1>3 DEF Fixed
  <2> QED  BY <1>3, <2>1
<1>4. CASE row.class = "key" /\ ~row.manual
  <2>1. Fixed(row, d) = [row EXCEPT !.subs = s]  BY <1>4 DEF Fixed
  <2> HIDE DEF s
  <2> QED  BY <1>1, <1>4, <2>1 DEF Row
<1> QED  BY <1>1, <1>2, <1>3, <1>4

\* A row first filled from the template has substitutes only if its class is
\* key.
LEMMA SeededType ==
  ASSUME NEW d \in Devices, rows \in [Devices -> Row \cup {None}], typed \subseteq KeyTyped
  PROVE  /\ Seeded(d) \in Row
         /\ rows[d] = None /\ Seeded(d).subs # Empty => Seeded(d).class = "key"
<1> DEFINE crit == [f \in Fields |-> IF f \in {g \in Fields : Template[d][g] # Empty}
                                       THEN Template[d][f] ELSE Existing(d).criteria[f]]
           one == [Existing(d) EXCEPT !.criteria = crit, !.class = ClassOf(Template[d])]
           two == [one EXCEPT !.subs = "typed", !.manual = TRUE]
<1>1. Existing(d) \in Row  BY ExistingType
<1>2. rows[d] = None => Existing(d).subs = Empty  BY NewRowType DEF Existing
<1>3. CASE d \notin DOMAIN Template
  <2>1. Seeded(d) = Existing(d)  BY <1>3 DEF Seeded
  <2> QED  BY <1>1, <1>2, <2>1
<1>4. CASE d \in DOMAIN Template
  <2>1. Template[d] \in Criteria  BY <1>4, KeyConstants
  <2>2. Existing(d).criteria \in Criteria  BY <1>1 DEF Row
  <2>3. crit \in Criteria  BY <2>1, <2>2 DEF Criteria
  <2>4. ClassOf(Template[d]) \in {"key", "half_key", "normal"}  BY ClassOfType
  <2> HIDE DEF crit
  <2>5. one \in Row /\ one.subs = Existing(d).subs  BY <1>1, <2>3, <2>4 DEF Row
  <2>6. two \in Row /\ two.class = ClassOf(Template[d])  BY <1>1, <2>3, <2>4 DEF Row
  <2>7. CASE d \in typed
    <3>1. Seeded(d) = two  BY <1>4, <2>7 DEF Seeded, crit
    <3>2. ClassOf(Template[d]) = "key"  BY <2>7 DEF KeyTyped
    <3> HIDE DEF two, one
    <3> QED  BY <2>6, <3>1, <3>2
  <2>8. CASE d \notin typed
    <3>1. Seeded(d) = one  BY <1>4, <2>8 DEF Seeded, crit
    <3> HIDE DEF two, one
    <3> QED  BY <1>2, <2>5, <3>1
  <2> QED  BY <2>7, <2>8
<1> QED  BY <1>3, <1>4

\* A saved row has substitutes only if its class is key.
LEMMA SavedType ==
  ASSUME NEW row \in Row, NEW found \in Row, NEW form \in KeyForms
  PROVE  /\ Saved(row, found, form) \in Row
         /\ Saved(row, found, form).subs # Empty => Saved(row, found, form).class = "key"
<1> DEFINE class == ClassAtSave(found, form)
           crit == Overlay(row.criteria, form.criteria)
           subs == IF class # "key" THEN Empty ELSE IF form.subs THEN "typed" ELSE row.subs
           manual == found.manual /\ class = "key"
<1>1. row.criteria \in Criteria /\ row.subs \in {Empty, "found", "typed"}  BY DEF Row
<1>2. /\ DOMAIN form.criteria \subseteq Fields
      /\ \A f \in DOMAIN form.criteria :
           form.criteria[f] \in DOMAIN KEY_WEIGHTS[f] \cup {Empty}
  BY KeyConstants
<1>3. crit \in Criteria
  <2> HIDE DEF KEY_WEIGHTS
  <2> QED  BY <1>1, <1>2 DEF Overlay, Criteria
<1>4. manual \in BOOLEAN  BY DEF Row
<1>5. class \in {"key", "half_key", "normal"}  BY ClassOfType DEF ClassAtSave
<1>6. subs \in {Empty, "found", "typed"} /\ (subs # Empty => class = "key")  BY <1>1
<1>7. Saved(row, found, form) =
        [row EXCEPT !.criteria = crit, !.class = class, !.subs = subs, !.manual = manual]
  BY DEF Saved
<1> HIDE DEF class, crit, subs, manual
<1> QED  BY <1>3, <1>4, <1>5, <1>6, <1>7 DEF Row

-----------------------------------------------------------------------------
(* The invariant *)

\* The invariant holds with an empty table.
LEMMA KeyInitially == KeyInit => KeyInv
<1> SUFFICES ASSUME KeyInit PROVE KeyInv  OBVIOUS
<1>1. KeyTypeOK  BY KeyConstants DEF KeyInit, KeyTypeOK
<1> QED  BY <1>1 DEF KeyInit, KeyInv, FilledFirst, SaveHasRow, SubstitutesOnlyForKey

\* Filling the table from the template keeps the invariant.
LEMMA SeedStep ==
  ASSUME KeyInv, typed' = typed, NEW t \in Threads, SeedFromTemplate(t) PROVE KeyInv'
<1> USE DEF KeyInv
<1>1. rows' = [d \in Devices |-> IF d \in machines THEN Seeded(d) ELSE rows[d]]
      /\ seeded' = TRUE /\ reseeded' = (reseeded \/ seeded)
      /\ keyPc[t] = "seed" /\ keyPc' = [keyPc EXCEPT ![t] = "ensure"]
      /\ UNCHANGED <<machines, fixed, keyLoc>>
  BY DEF SeedFromTemplate, GoOn
<1>2. \A d \in Devices : Seeded(d) \in Row /\
        (rows[d] = None /\ Seeded(d).subs # Empty => Seeded(d).class = "key")
  BY SeededType DEF KeyTypeOK
<1>3. rows' \in [Devices -> Row \cup {None}]  BY <1>1, <1>2 DEF KeyTypeOK
<1>4. reseeded' \in BOOLEAN  BY <1>1
<1>5. KeyTypeOK'  BY <1>1, <1>3, <1>4 DEF KeyTypeOK
<1>6. FilledFirst'  BY <1>1 DEF FilledFirst
<1>7. SaveHasRow'
  <2> SUFFICES ASSUME NEW u \in Threads, keyPc'[u] = "save"
               PROVE  keyLoc[u] \in [device : Devices, form : KeyForms, row : Row]
                      /\ rows'[keyLoc[u].device] \in Row
    BY <1>1 DEF SaveHasRow
  <2>1. keyPc[u] = "save"  BY <1>1 DEF KeyTypeOK
  <2>2. keyLoc[u] \in [device : Devices, form : KeyForms, row : Row] /\ rows[keyLoc[u].device] \in Row
    BY <2>1 DEF SaveHasRow
  <2>3. keyLoc[u].device \in Devices  BY <2>2
  <2> QED  BY <1>1, <1>2, <2>2, <2>3
<1>8. SubstitutesOnlyForKey'
  <2> SUFFICES ASSUME ~reseeded', NEW d \in Devices, rows'[d] # None, rows'[d].subs # Empty
               PROVE  rows'[d].class = "key"
    BY DEF SubstitutesOnlyForKey
  <2>1. rows[d] = None  BY <1>1 DEF FilledFirst
  <2> QED  BY <1>1, <1>2, <2>1
<1> QED  BY <1>5, <1>6, <1>7, <1>8

\* Ensuring the rows keeps the invariant.
LEMMA EnsureStep ==
  ASSUME KeyInv, typed' = typed, NEW t \in Threads, EnsureKeyRows(t) PROVE KeyInv'
<1> USE DEF KeyInv
<1> DEFINE new(d) == IF d \notin machines THEN rows[d]
                     ELSE IF fixed THEN Existing(d) ELSE Fixed(Existing(d), d)
<1>1. rows' = [d \in Devices |-> new(d)] /\ fixed' = TRUE
      /\ keyPc[t] = "ensure" /\ keyPc' = [keyPc EXCEPT ![t] = "page"]
      /\ UNCHANGED <<machines, seeded, reseeded, keyLoc>>
  BY DEF EnsureKeyRows, GoOn
<1>2. ASSUME NEW d \in Devices
      PROVE  /\ new(d) \in Row \cup {None}
             /\ rows[d] \in Row => new(d) \in Row
             /\ ~reseeded /\ new(d) # None /\ new(d).subs # Empty => new(d).class = "key"
  <2>1. Existing(d) \in Row  BY ExistingType DEF KeyTypeOK
  <2>2. ~reseeded /\ Existing(d).subs # Empty => Existing(d).class = "key"
    BY NewRowType DEF Existing, SubstitutesOnlyForKey
  <2>3. /\ Fixed(Existing(d), d) \in Row
        /\ Fixed(Existing(d), d).class = Existing(d).class
        /\ Fixed(Existing(d), d).subs # Empty => Existing(d).class = "key"
    BY <2>1, FixedType
  <2>4. rows[d] \in Row \cup {None}  BY DEF KeyTypeOK
  <2>5. CASE d \notin machines  BY <2>4, <2>5 DEF SubstitutesOnlyForKey
  <2>6. CASE d \in machines /\ fixed  BY <2>1, <2>2, <2>6
  <2>7. CASE d \in machines /\ ~fixed  BY <2>3, <2>7
  <2> QED  BY <2>5, <2>6, <2>7
<1> HIDE DEF new
<1>3. rows' \in [Devices -> Row \cup {None}]  BY <1>1, <1>2
<1>4. seeded  BY <1>1 DEF FilledFirst
<1>5. KeyTypeOK'  BY <1>1, <1>3 DEF KeyTypeOK
<1>6. FilledFirst'  BY <1>1, <1>4 DEF FilledFirst
<1>7. SaveHasRow'
  <2> SUFFICES ASSUME NEW u \in Threads, keyPc'[u] = "save"
               PROVE  keyLoc[u] \in [device : Devices, form : KeyForms, row : Row]
                      /\ rows'[keyLoc[u].device] \in Row
    BY <1>1 DEF SaveHasRow
  <2>1. keyPc[u] = "save"  BY <1>1 DEF KeyTypeOK
  <2>2. keyLoc[u] \in [device : Devices, form : KeyForms, row : Row] /\ rows[keyLoc[u].device] \in Row
    BY <2>1 DEF SaveHasRow
  <2>3. keyLoc[u].device \in Devices  BY <2>2
  <2> QED  BY <1>1, <1>2, <2>2, <2>3
<1>8. SubstitutesOnlyForKey'  BY <1>1, <1>2 DEF SubstitutesOnlyForKey
<1> QED  BY <1>5, <1>6, <1>7, <1>8

\* A save keeps the invariant.
LEMMA WriteStep ==
  ASSUME KeyInv, typed' = typed, NEW t \in Threads, SaveWrite(t) PROVE KeyInv'
<1> USE DEF KeyInv
<1> DEFINE d == keyLoc[t].device
           new == Saved(rows[d], keyLoc[t].row, keyLoc[t].form)
<1>1. /\ keyPc[t] = "save" /\ keyPc' = [keyPc EXCEPT ![t] = "idle"]
      /\ keyLoc' = [keyLoc EXCEPT ![t] = NoLocals]
      /\ rows' = [rows EXCEPT ![d] = new]
      /\ UNCHANGED <<machines, seeded, fixed, reseeded>>
  BY DEF SaveWrite, Respond
<1>2. d \in Devices /\ keyLoc[t].form \in KeyForms /\ keyLoc[t].row \in Row /\ rows[d] \in Row
  <2>1. keyLoc[t] \in [device : Devices, form : KeyForms, row : Row] /\ rows[keyLoc[t].device] \in Row
    BY <1>1 DEF SaveHasRow
  <2> QED  BY <2>1
<1>3. new \in Row /\ (new.subs # Empty => new.class = "key")
  <2> HIDE DEF d
  <2> QED  BY <1>2, SavedType
<1> HIDE DEF new, d
<1>4. rows' \in [Devices -> Row \cup {None}]  BY <1>1, <1>2, <1>3 DEF KeyTypeOK
<1>5. KeyTypeOK'  BY <1>1, <1>4 DEF KeyTypeOK
<1>6. seeded  BY <1>1 DEF FilledFirst
<1>7. FilledFirst'  BY <1>1, <1>6 DEF FilledFirst, KeyTypeOK
<1>8. SaveHasRow'
  <2> SUFFICES ASSUME NEW u \in Threads, keyPc'[u] = "save"
               PROVE  keyLoc'[u] \in [device : Devices, form : KeyForms, row : Row]
                      /\ rows'[keyLoc'[u].device] \in Row
    BY DEF SaveHasRow
  <2>1. u # t /\ keyPc[u] = "save" /\ keyLoc'[u] = keyLoc[u]  BY <1>1 DEF KeyTypeOK
  <2>2. keyLoc[u] \in [device : Devices, form : KeyForms, row : Row] /\ rows[keyLoc[u].device] \in Row
    BY <2>1 DEF SaveHasRow
  <2>3. keyLoc[u].device \in Devices  BY <2>2
  <2>4. rows'[keyLoc[u].device] = new \/ rows'[keyLoc[u].device] = rows[keyLoc[u].device]
    BY <1>1, <2>3 DEF KeyTypeOK
  <2> QED  BY <1>3, <2>1, <2>2, <2>4
<1>9. SubstitutesOnlyForKey'
  <2> SUFFICES ASSUME ~reseeded, NEW e \in Devices, rows'[e] # None, rows'[e].subs # Empty
               PROVE  rows'[e].class = "key"
    BY <1>1 DEF SubstitutesOnlyForKey
  <2>1. rows'[e] = new \/ rows'[e] = rows[e]  BY <1>1 DEF KeyTypeOK
  <2> QED  BY <1>3, <2>1 DEF SubstitutesOnlyForKey
<1> QED  BY <1>5, <1>7, <1>8, <1>9

\* Every step keeps the invariant.
LEMMA KeyStep == KeyInv /\ [KeyNext]_keyVars => KeyInv'
<1> SUFFICES ASSUME KeyInv, [KeyNext]_keyVars PROVE KeyInv'  OBVIOUS
<1>0. typed' = typed  BY DEF KeyNext, keyVars
<1> USE <1>0 DEF KeyInv
<1>1. CASE DevicesChange
  BY <1>1 DEF DevicesChange, KeyTypeOK, FilledFirst, SaveHasRow, SubstitutesOnlyForKey
<1>2. ASSUME NEW t \in Threads, Open(t) PROVE KeyInv'
  BY <1>2 DEF Open, GoOn, KeyTypeOK, FilledFirst, SaveHasRow, SubstitutesOnlyForKey
<1>3. ASSUME NEW t \in Threads, SeedFromTemplate(t) PROVE KeyInv'  BY <1>3, SeedStep
<1>4. ASSUME NEW t \in Threads, EnsureKeyRows(t) PROVE KeyInv'  BY <1>4, EnsureStep
<1>5. ASSUME NEW t \in Threads, NEW d \in Devices, NEW form \in KeyForms, SaveRead(t, d, form)
      PROVE  KeyInv'
  <2>1. rows[d] \in Row  BY <1>5 DEF SaveRead, KeyTypeOK
  <2>2. [device |-> d, form |-> form, row |-> rows[d]]
          \in [device : Devices, form : KeyForms, row : Row]  BY <2>1
  <2>3. KeyTypeOK'  BY <1>5, <2>2 DEF SaveRead, KeyTypeOK
  <2>4. FilledFirst'  BY <1>5 DEF SaveRead, KeyTypeOK, FilledFirst
  <2>5. SaveHasRow'  BY <1>5, <2>1, <2>2 DEF SaveRead, KeyTypeOK, SaveHasRow
  <2>6. SubstitutesOnlyForKey'  BY <1>5 DEF SaveRead, SubstitutesOnlyForKey
  <2> QED  BY <2>3, <2>4, <2>5, <2>6
<1>6. ASSUME NEW t \in Threads, SaveWrite(t) PROVE KeyInv'  BY <1>6, WriteStep
<1>7. ASSUME NEW t \in Threads, Leave(t) PROVE KeyInv'
  BY <1>7 DEF Leave, Respond, KeyTypeOK, FilledFirst, SaveHasRow, SubstitutesOnlyForKey
<1>8. CASE UNCHANGED keyVars
  BY <1>8 DEF keyVars, KeyTypeOK, FilledFirst, SaveHasRow, SubstitutesOnlyForKey
<1> QED  BY <1>1, <1>2, <1>3, <1>4, <1>5, <1>6, <1>7, <1>8 DEF KeyNext

(* Rows and handlers have their types, whatever the handlers' order: no row  *)
(* gets a class or criteria outside the ones of app.py:629-667.              *)
THEOREM KeyTypesCorrect == KeySpec => []KeyTypeOK
<1>1. KeyInv => KeyTypeOK  BY DEF KeyInv
<1> QED  BY KeyInitially, KeyStep, <1>1, PTL DEF KeySpec

(* Only key equipment has substitutes (app.py:909), for any number of        *)
(* handlers and machines and whatever the criteria weigh, as long as no late *)
(* handler fills the table again: app.py:914-931 writes the class and clears *)
(* the substitutes in one transaction.                                      *)
THEOREM OnlyKeyHasSubstitutes == KeySpec => []SubstitutesOnlyForKey
<1>1. KeyInv => SubstitutesOnlyForKey  BY DEF KeyInv
<1> QED  BY KeyInitially, KeyStep, <1>1, PTL DEF KeySpec

(* A save that no other save has overtaken writes the class of the criteria  *)
(* it has read: nothing of the form reaches the comprehension of app.py:922. *)
LEMMA ClassIsOfReadRow ==
  ASSUME NEW found \in Row, NEW form
  PROVE  ClassAtSave(found, form) = ClassOf(found.criteria)
<1> DEFINE crit == found.criteria
<1>1. crit \in Criteria  BY DEF Row
<1>2. crit = [f \in DOMAIN crit |-> crit[f]]  BY <1>1 DEF Criteria
<1>3. \A f \in DOMAIN crit : f \notin DOMAIN Pending(form)  BY DEF Pending
<1>4. Overlay(crit, Pending(form)) = crit
  <2> HIDE DEF crit
  <2> QED  BY <1>2, <1>3 DEF Overlay
<1> QED  BY <1>4 DEF ClassAtSave

\* A save that leaves the criteria as they were writes the class that belongs
\* to them, whoever filled or saved the row before (app.py:914-931): the class
\* is computed from the criteria the handler has read, and those are the ones
\* the row ends up with.
THEOREM SavingAgainIsFresh == KeySpec => QuietSaveIsFresh
<1> DEFINE fresh ==
      \A t \in Threads :
        LET d == keyLoc[t].device IN
        /\ keyPc[t] = "save" /\ keyPc'[t] = "idle"
        /\ rows' # rows
        /\ rows'[d].criteria = keyLoc[t].row.criteria
        => rows'[d].class = ClassOf(rows'[d].criteria)
<1>1. ASSUME KeyInv, [KeyNext]_keyVars PROVE fresh
  <2> SUFFICES ASSUME NEW t \in Threads, keyPc[t] = "save", keyPc'[t] = "idle", rows' # rows,
                      rows'[keyLoc[t].device].criteria = keyLoc[t].row.criteria
               PROVE  rows'[keyLoc[t].device].class
                        = ClassOf(rows'[keyLoc[t].device].criteria)
    OBVIOUS
  <2>1. KeyTypeOK /\ SaveHasRow  BY <1>1 DEF KeyInv
  <2>2. SaveWrite(t)
    <3>1. ~UNCHANGED keyVars  BY DEF keyVars
    <3>2. ~DevicesChange  BY DEF DevicesChange
    <3>3. ASSUME NEW s \in Threads PROVE ~Open(s) /\ ~Leave(s)  BY DEF Open, Leave
    <3>4. ASSUME NEW s \in Threads, SeedFromTemplate(s) \/ EnsureKeyRows(s) PROVE FALSE
      BY <2>1, <3>4 DEF SeedFromTemplate, EnsureKeyRows, GoOn, KeyTypeOK
    <3>5. ASSUME NEW s \in Threads, NEW d \in Devices, NEW form \in KeyForms
          PROVE ~SaveRead(s, d, form)
      BY DEF SaveRead
    <3>6. ASSUME NEW s \in Threads, SaveWrite(s) PROVE s = t
      BY <2>1, <3>6 DEF SaveWrite, Respond, KeyTypeOK
    <3> QED  BY <1>1, <3>1, <3>2, <3>3, <3>4, <3>5, <3>6 DEF KeyNext
  <2>3. /\ keyLoc[t].device \in Devices /\ keyLoc[t].row \in Row
        /\ rows[keyLoc[t].device] \in Row
    BY <2>1 DEF SaveHasRow
  <2> DEFINE d == keyLoc[t].device
             found == keyLoc[t].row
             new == Saved(rows[d], found, keyLoc[t].form)
  <2>4. new.class = ClassAtSave(found, keyLoc[t].form)
    <3> HIDE DEF found, d
    <3> QED  BY <2>3 DEF Saved, Row, d
  <2>5. ClassAtSave(found, keyLoc[t].form) = ClassOf(found.criteria)
    BY <2>3, ClassIsOfReadRow
  <2>6. rows' = [rows EXCEPT ![d] = new]  BY <2>2 DEF SaveWrite
  <2>7. rows'[d] = new
    <3> HIDE DEF new
    <3> QED  BY <2>1, <2>3, <2>6 DEF KeyTypeOK
  <2> HIDE DEF new
  <2> QED  BY <2>4, <2>5, <2>7
<1>2. KeyInv /\ [KeyNext]_keyVars => [fresh]_keyVars  BY <1>1
<1> QED  BY <1>2, KeyInitially, KeyStep, PTL DEF KeySpec, QuietSaveIsFresh

-----------------------------------------------------------------------------
(* Goods and contractors *)

\* A non-empty finite set of numbers has a greatest element.
LEMMA GreatestElement ==
  ASSUME NEW S \in SUBSET Nat, IsFiniteSet(S), S # {}
  PROVE  Max(S) \in S /\ \A y \in S : y <= Max(S)
<1> DEFINE above(x) == {y \in S : y > x}
           A == {above(x) : x \in S}
<1>1. A # {} /\ A \subseteq FiniteSubsetsOf(S)
  <2>1. \A x \in S : above(x) \in FiniteSubsetsOf(S)
    BY FS_Subset DEF FiniteSubsetsOf
  <2> QED  BY <2>1
<1>2. PICK m \in A : \A B \in A : ~(<<B, m>> \in StrictSubsetOrdering(S))
  <2> HIDE DEF A
  <2> QED  BY <1>1, FS_StrictSubsetOrderingWellFounded, WFMin
<1>3. PICK x \in S : m = above(x)
  <2> HIDE DEF above
  <2> QED  BY <1>2
<1>4. ASSUME NEW y \in S, y > x PROVE FALSE
  <2>1. above(y) \subseteq above(x) /\ y \in above(x) /\ y \notin above(y)
    <3>1. \A z \in S : z \in Nat  OBVIOUS
    <3>2. x \in Nat /\ y \in Nat /\ x < y /\ ~(y > y)  BY <1>4, <3>1
    <3>3. \A z \in S : z > y => z > x  BY <3>1, <3>2
    <3> QED  BY <1>4, <3>2, <3>3
  <2>2. above(y) \in A  OBVIOUS
  <2>3. above(x) \in SUBSET S /\ above(y) \in SUBSET S  OBVIOUS
  <2> HIDE DEF above
  <2>4. <<above(y), above(x)>> \in StrictSubsetOrdering(S)
    BY <2>1, <2>3 DEF StrictSubsetOrdering
  <2> HIDE DEF A
  <2> QED  BY <1>2, <1>3, <2>2, <2>4
<1>5. \A y \in S : x >= y  BY <1>4
<1>6. Max(S) \in S /\ \A y \in S : Max(S) >= y  BY <1>5 DEF Max
<1> QED  BY <1>6

\* The number a new row gets is not the number of any row.
LEMMA NextCodeIsFree ==
  ASSUME NEW table, NEW start \in Nat
  PROVE  NextCode(table, start) \notin InUse(table)
<1> DEFINE S == InUse(table)
<1>1. S \in SUBSET Nat /\ IsFiniteSet(S)  BY CodeConstants, FS_Subset DEF InUse
<1>2. CASE S = {}  BY <1>2
<1>3. CASE S # {}
  <2>1. Max(S) \in S /\ \A y \in S : y <= Max(S)  BY <1>1, <1>3, GreatestElement
  <2>2. Max(S) \in Nat /\ Max(S) + 1 \notin S  BY <1>1, <2>1
  <2>3. NextCode(table, start) = Max(S) + 1  BY <1>3 DEF NextCode
  <2> HIDE DEF S
  <2> QED  BY <2>2, <2>3 DEF S
<1> QED  BY <1>2, <1>3

\* A new row of goods has a number that was free when it was taken.
NumberWasFree ==
  \A t \in Threads : codePc[t] = "goods_merge" /\ codeLoc[t].new => codeLoc[t].code \notin seen[t]

CodesInv == CodesTypeOK /\ NumberWasFree

\* The invariant holds with nothing registered.
LEMMA CodesInitially == CodesInit => CodesInv
BY CodeConstants DEF CodesInit, CodesInv, CodesTypeOK, NoCodeForm, NumberWasFree

\* Every step keeps the invariant.
LEMMA CodesStep == CodesInv /\ [CodesNext]_codeVars => CodesInv'
<1> SUFFICES ASSUME CodesInv, [CodesNext]_codeVars PROVE CodesInv'  OBVIOUS
<1> USE DEF CodesInv, CodesTypeOK, NumberWasFree, CodeGoto, CodeFinish, NoCodeForm
<1>1. CASE CodesRestart  BY <1>1 DEF CodesRestart
<1>2. ASSUME NEW c \in Codes, GoodsDelete(c) PROVE CodesInv'  BY <1>2 DEF GoodsDelete
<1>3. ASSUME NEW t \in Threads, GoodsMax(t) PROVE CodesInv'
  <2> DEFINE c == NextCode(goods, FirstGoods)
  <2>1. c \notin InUse(goods) /\ c \in Codes
    BY <1>3, NextCodeIsFree, CodeConstants DEF GoodsMax, TakeNumber
  <2>2. InUse(goods) \in SUBSET Codes  BY DEF InUse
  <2>3. /\ codePc' = [codePc EXCEPT ![t] = "goods_merge"]
        /\ codeLoc' = [codeLoc EXCEPT ![t] = [codeLoc[t] EXCEPT !.code = c]]
        /\ seen' = [seen EXCEPT ![t] = InUse(goods)]
        /\ UNCHANGED <<goods, contractors>>
    BY <1>3 DEF GoodsMax, TakeNumber
  <2> HIDE DEF c
  <2> QED  BY <2>1, <2>2, <2>3
<1>4. ASSUME NEW t \in Threads, ContractorMax(t) PROVE CodesInv'
  <2> DEFINE c == NextCode(contractors, 0)
  <2>1. c \in Codes  BY <1>4 DEF ContractorMax, TakeNumber
  <2>2. InUse(contractors) \in SUBSET Codes  BY DEF InUse
  <2>3. /\ codePc' = [codePc EXCEPT ![t] = "contractor_insert"]
        /\ codeLoc' = [codeLoc EXCEPT ![t] = [codeLoc[t] EXCEPT !.code = c]]
        /\ seen' = [seen EXCEPT ![t] = InUse(contractors)]
        /\ UNCHANGED <<goods, contractors>>
    BY <1>4 DEF ContractorMax, TakeNumber
  <2> HIDE DEF c
  <2> QED  BY <2>1, <2>2, <2>3
<1>5. ASSUME NEW t \in Threads, GoodsMerge(t) PROVE CodesInv'  BY <1>5 DEF GoodsMerge
<1>6. ASSUME NEW t \in Threads, GoodsRefused(t) PROVE CodesInv'  BY <1>6 DEF GoodsRefused
<1>7. ASSUME NEW t \in Threads, ContractorInsert(t) PROVE CodesInv'
  BY <1>7 DEF ContractorInsert
<1>8. ASSUME NEW t \in Threads, NEW name \in Titles, ContractorPost(t, name) PROVE CodesInv'
  BY <1>8 DEF ContractorPost
<1>9. ASSUME NEW t \in Threads, NEW name \in Titles, NEW original \in Codes \cup {None},
             GoodsPost(t, name, original)
      PROVE  CodesInv'
  BY <1>9 DEF GoodsPost
<1>10. CASE UNCHANGED codeVars  BY <1>10 DEF codeVars
<1> QED
  BY <1>1, <1>2, <1>3, <1>4, <1>5, <1>6, <1>7, <1>8, <1>9, <1>10 DEF CodesNext

\* Goods, contractors and the handlers' forms always have their types.
THEOREM CodeTypesCorrect == CodesSpec => []CodesTypeOK
<1>1. CodesInv => CodesTypeOK  BY DEF CodesInv
<1> QED  BY CodesInitially, CodesStep, <1>1, PTL DEF CodesSpec

\* A new row never takes the number of a row its handler has seen, and a
\* contractor is never overwritten at all (app.py:1399-1459): MAX + 1 is above
\* every number in use, and the insertion of a contractor is refused when the
\* number has been taken since.
THEOREM RegisteredCodesStay == CodesSpec => CodesKept
<1> DEFINE contractorsKept == \A c \in InUse(contractors) : contractors'[c] = contractors[c]
           goodsKept == \A t \in Threads :
             codePc[t] = "goods_merge" /\ codePc'[t] = "idle" /\ codeLoc[t].new =>
               \A c \in seen[t] : goods'[c] = goods[c]
<1>1. ASSUME CodesInv, [CodesNext]_codeVars PROVE contractorsKept
  <2>1. CASE \E t \in Threads : ContractorInsert(t)
    BY <1>1, <2>1 DEF ContractorInsert, CodesInv, CodesTypeOK, InUse
  <2>2. CASE \A t \in Threads : ~ContractorInsert(t)
    <3>1. contractors' = contractors
      BY <1>1, <2>2 DEF CodesNext, codeVars, CodesRestart, GoodsDelete, GoodsMax, GoodsMerge,
         GoodsRefused, ContractorMax, ContractorPost, GoodsPost, TakeNumber
    <3> QED  BY <3>1
  <2> QED  BY <2>1, <2>2
<1>2. ASSUME CodesInv, [CodesNext]_codeVars PROVE goodsKept
  <2> SUFFICES ASSUME NEW t \in Threads, codePc[t] = "goods_merge", codePc'[t] = "idle",
                      codeLoc[t].new, NEW c \in seen[t]
               PROVE  goods'[c] = goods[c]
    OBVIOUS
  <2>1. CodesTypeOK /\ NumberWasFree /\ c \in Codes  BY <1>2 DEF CodesInv, CodesTypeOK
  <2>2. codeLoc[t].code # c  BY <2>1 DEF NumberWasFree
  <2>3. CASE GoodsMerge(t)  BY <2>1, <2>2, <2>3 DEF GoodsMerge, CodesTypeOK
  <2>4. CASE GoodsRefused(t)  BY <2>4 DEF GoodsRefused
  <2>5. CASE CodesRestart  BY <2>5 DEF CodesRestart
  <2>6. CASE ~GoodsMerge(t) /\ ~GoodsRefused(t) /\ ~CodesRestart
    <3> USE <2>1 DEF CodesTypeOK, CodeGoto, CodeFinish
    <3>1. ~UNCHANGED codeVars  BY DEF codeVars
    <3>2. ASSUME NEW d \in Codes PROVE ~GoodsDelete(d)  BY DEF GoodsDelete
    <3>3. ASSUME NEW s \in Threads
          PROVE  ~GoodsMax(s) /\ ~ContractorMax(s)
      BY DEF GoodsMax, ContractorMax, TakeNumber
    <3>4. ASSUME NEW s \in Threads, GoodsMerge(s) \/ GoodsRefused(s) \/ ContractorInsert(s)
          PROVE  FALSE
      <4>1. s # t  BY <2>6, <3>4 DEF ContractorInsert
      <4> QED  BY <3>4, <4>1 DEF GoodsMerge, GoodsRefused, ContractorInsert
    <3>5. ASSUME NEW s \in Threads, NEW name \in Titles,
                 ContractorPost(s, name) \/ \E o \in Codes \cup {None} : GoodsPost(s, name, o)
          PROVE  FALSE
      <4>1. codePc[s] = "idle" /\ \E label : codePc' = [codePc EXCEPT ![s] = label]
        BY <3>5 DEF ContractorPost, GoodsPost
      <4> QED  BY <4>1
    <3> QED  BY <1>2, <2>6, <3>1, <3>2, <3>3, <3>4, <3>5 DEF CodesNext
  <2> QED  BY <2>3, <2>4, <2>5, <2>6
<1>3. CodesInv /\ [CodesNext]_codeVars => [contractorsKept /\ goodsKept]_codeVars
  <2> HIDE DEF contractorsKept, goodsKept
  <2> QED  BY <1>1, <1>2
<1> QED  BY <1>3, CodesInitially, CodesStep, PTL DEF CodesSpec, CodesKept

-----------------------------------------------------------------------------
(* Side by side *)

\* The three registers, interleaved in one server, keep their types.
THEOREM CatalogTypesCorrect == CatalogSpec => []TypesOK
<1> DEFINE Inv == IInv /\ CodesInv /\ KeyInv
<1>1. CatalogInit => Inv  BY InitInvariant, CodesInitially, KeyInitially DEF CatalogInit
<1>2. Inv /\ [CatalogNext]_catalogVars => Inv'
  <2>1. [CatalogNext]_catalogVars => [Next]_vars /\ [CodesNext]_codeVars /\ [KeyNext]_keyVars
    BY DEF CatalogNext, catalogVars
  <2> QED  BY <2>1, InvStep, CodesStep, KeyStep
<1>3. Inv => TypesOK  BY DEF TypesOK, IInv, CodesInv, KeyInv
<1> QED  BY <1>1, <1>2, <1>3, PTL DEF CatalogSpec


=============================================================================
