---------------------------- MODULE AccessProofs ----------------------------
(***************************************************************************)
(* Proofs about UserAccounts for any browsers, any finite set of threads,  *)
(* any names and forms, and any limit, whether or not the name is UNIQUE;  *)
(* about Sessions for any browsers, threads, companies and accounts, with  *)
(* or without SECRET_KEY; and about LoginLimit for any threads and limit.  *)
(***************************************************************************)
EXTENDS Access, TLAPS, FiniteSetTheorems

-----------------------------------------------------------------------------
(* The accounts *)

\* The invariant holds with the first administrator alone.
LEMMA InitInvariant == Init => IInv
<1> SUFFICES ASSUME Init PROVE IInv  OBVIOUS
<1> USE AccountConstants DEF Init
<1>0. 1 \in Ids  BY DEF Ids
<1>1. TypeOK
  <2>1. [name |-> First, role |-> "admin", active |-> TRUE] \in Row  BY DEF Row, Roles
  <2>2. users \in [Ids -> Row \cup {None}]  BY <2>1
  <2>3. 1 \in 0..MaxId  BY <1>0 DEF Ids
  <2> QED  BY <2>2, <2>3 DEF TypeOK
<1>2. Accounts = {1} /\ users[1] = [name |-> First, role |-> "admin", active |-> TRUE]
  <2>1. [name |-> First, role |-> "admin", active |-> TRUE] \in Row  BY DEF Row, Roles
  <2> QED  BY <1>0, <2>1 DEF Accounts
<1>3. Cardinality({1}) = 1 /\ Cardinality({}) = 0
  BY FS_Singleton, FS_EmptySet
<1>4. Cardinality(Threads) \in Nat /\ Cardinality(Threads) >= 1
  BY FS_EmptySet, FS_CardinalityType
<1>5. AccountBudget
  <2>1. Counted = {}  BY DEF Counted
  <2> QED  BY <1>2, <1>3, <1>4, <2>1 DEF AccountBudget
<1>6. HolderBudget
  <2> SUFFICES ASSUME NEW n \in Names
               PROVE  Cardinality(Holders(n)) + Cardinality(Wanting(n)) <= Cardinality(Threads)
    BY DEF HolderBudget
  <2>1. Wanting(n) = {}  BY DEF Wanting
  <2>2. Holders(n) = {1} \/ Holders(n) = {}  BY <1>2 DEF Holders
  <2>3. Cardinality(Holders(n)) \in {0, 1} /\ Cardinality(Wanting(n)) = 0
    BY <1>3, <2>1, <2>2
  <2> QED  BY <1>4, <2>3
<1>7. UniqueHolder  BY <1>2 DEF UniqueHolder
<1>8. IdsInOrder /\ SessionIsItsAccount
  BY <1>2 DEF IdsInOrder, SessionIsItsAccount, HasSession
<1>9. AdminRemains
  <2>1. users[1].role = "admin" /\ users[1].active = TRUE  BY <1>2
  <2>2. 1 \in ActiveAdmins  BY <1>2, <2>1 DEF ActiveAdmins
  <2> QED  BY <2>2 DEF AdminRemains
<1> QED  BY <1>1, <1>5, <1>6, <1>7, <1>8, <1>9 DEF IInv

-----------------------------------------------------------------------------
(* Types *)

\* Every step keeps the types.
LEMMA TypeStep == TypeOK /\ [Next]_vars => TypeOK'
<1> SUFFICES ASSUME TypeOK, [Next]_vars PROVE TypeOK'  OBVIOUS
<1> USE AccountConstants DEF TypeOK, Goto, Finish, Refuse
<1>1. ASSUME NEW b \in Browsers, NEW i \in Ids, NEW row \in Row \cup {None}, Change(b, i, row)
      PROVE  TypeOK'
  BY <1>1 DEF Change
<1>2. ASSUME NEW b \in Browsers, NEW i \in Ids, OpenSession(b, i) PROVE TypeOK'
  <2>1. users[i] \in Row  BY <1>2 DEF OpenSession, Accounts
  <2>2. [user |-> i, name |-> users[i].name, role |-> users[i].role] \in Session
    BY <2>1 DEF Row, Session
  <2> QED  BY <1>2, <2>2 DEF OpenSession
<1>3. ASSUME NEW b \in Browsers, CloseSession(b) PROVE TypeOK'  BY <1>3 DEF CloseSession
<1>4. ASSUME NEW b \in Browsers, NEW i \in Ids, ToggleActive(b, i) PROVE TypeOK'
  <2>1. users[i] \in Row  BY <1>4 DEF ToggleActive, Accounts
  <2>2. [users[i] EXCEPT !.active = ~users[i].active] \in Row  BY <2>1 DEF Row
  <2> QED  BY <1>1, <1>4, <2>2 DEF ToggleActive
<1>5. ASSUME NEW b \in Browsers, NEW i \in Ids, NEW r \in Roles, SetRole(b, i, r) PROVE TypeOK'
  <2>1. users[i] \in Row  BY <1>5 DEF SetRole, Accounts
  <2>2. [users[i] EXCEPT !.role = r] \in Row  BY <2>1 DEF Row
  <2> QED  BY <1>1, <1>5, <2>2 DEF SetRole
<1>6. ASSUME NEW b \in Browsers, NEW i \in Ids, DeleteUser(b, i) PROVE TypeOK'
  BY <1>1, <1>6 DEF DeleteUser
<1>7. ASSUME NEW t \in Threads, NEW b \in Browsers, NEW f \in Forms, Post(t, b, f) PROVE TypeOK'
  BY <1>7 DEF Post
<1>8. ASSUME NEW t \in Threads, SelectName(t) PROVE TypeOK'  BY <1>8 DEF SelectName
<1>9. ASSUME NEW t \in Threads, CountUsers(t) PROVE TypeOK'  BY <1>9 DEF CountUsers
<1>10. ASSUME NEW t \in Threads, InsertUser(t) PROVE TypeOK'
  <2>1. NewRow(t) \in Row  BY <1>10 DEF InsertUser, NewRow, Row
  <2>2. lastId' \in Ids  BY <1>10 DEF InsertUser, Ids
  <2>3. lastId' \in 0..MaxId  BY <2>2 DEF Ids
  <2> QED  BY <1>10, <2>1, <2>2, <2>3 DEF InsertUser
<1>11. ASSUME NEW t \in Threads, InsertRefused(t) PROVE TypeOK'  BY <1>11 DEF InsertRefused
<1>12. CASE ListPage \/ NewProcess \/ UNCHANGED vars  BY <1>12 DEF ListPage, NewProcess, vars
<1> QED
  BY <1>2, <1>3, <1>4, <1>5, <1>6, <1>7, <1>8, <1>9, <1>10, <1>11, <1>12 DEF Next, Create

-----------------------------------------------------------------------------
(* What each step does to the accounts                                     *)

\* One row is changed, and by whom it is noted.
Changes == \E b \in Browsers, i \in Accounts :
             \/ ToggleActive(b, i) \/ DeleteUser(b, i)
             \/ \E r \in Roles : SetRole(b, i, r)
Inserts == \E t \in Threads : InsertUser(t)

\* Only three kinds of statement write accounts.
LEMMA OthersKeep ==
  ASSUME [Next]_vars, ~Changes, ~Inserts
  PROVE  UNCHANGED <<users, lastId, unique, acted>>
<1>1. CASE \E b \in Browsers, i \in Ids : OpenSession(b, i)  BY <1>1 DEF OpenSession
<1>2. CASE \E b \in Browsers : CloseSession(b)  BY <1>2 DEF CloseSession
<1>3. CASE \E t \in Threads : SelectName(t) \/ CountUsers(t) \/ InsertRefused(t)
  BY <1>3 DEF SelectName, CountUsers, InsertRefused, Goto, Refuse
<1>4. CASE \E t \in Threads, b \in Browsers, f \in Forms : Post(t, b, f)  BY <1>4 DEF Post
<1>5. CASE ListPage \/ NewProcess \/ UNCHANGED vars  BY <1>5 DEF ListPage, NewProcess, vars
<1> QED
  BY <1>1, <1>2, <1>3, <1>4, <1>5
     DEF Next, Create, Changes, Inserts, ToggleActive, DeleteUser, SetRole

\* A change leaves the other rows, and does not rename the row it keeps.
LEMMA ChangeKeeps ==
  ASSUME TypeOK, Changes
  PROVE  /\ Accounts' \subseteq Accounts
         /\ \A i \in Accounts' : users'[i].name = users[i].name
         /\ UNCHANGED <<lastId, unique, session, pc, form>>
<1> PICK b \in Browsers, i \in Accounts :
      \/ ToggleActive(b, i) \/ DeleteUser(b, i) \/ \E r \in Roles : SetRole(b, i, r)
  BY DEF Changes
<1>1. i \in Ids /\ users[i] \in Row  BY DEF Accounts, TypeOK
<1>2. PICK row \in Row \cup {None} :
        Change(b, i, row) /\ (row # None => row.name = users[i].name)
  <2>1. CASE ToggleActive(b, i)
    <3>1. [users[i] EXCEPT !.active = ~users[i].active] \in Row  BY <1>1 DEF Row
    <3>2. [users[i] EXCEPT !.active = ~users[i].active].name = users[i].name  BY <1>1 DEF Row
    <3> QED  BY <2>1, <3>1, <3>2 DEF ToggleActive
  <2>2. CASE DeleteUser(b, i)  BY <2>2 DEF DeleteUser
  <2>3. ASSUME NEW r \in Roles, SetRole(b, i, r)
        PROVE  \E row \in Row \cup {None} :
                 Change(b, i, row) /\ (row # None => row.name = users[i].name)
    <3>1. [users[i] EXCEPT !.role = r] \in Row  BY <1>1 DEF Row
    <3>2. [users[i] EXCEPT !.role = r].name = users[i].name  BY <1>1 DEF Row
    <3> QED  BY <2>3, <3>1, <3>2 DEF SetRole
  <2> QED  BY <2>1, <2>2, <2>3
<1> QED  BY <1>1, <1>2 DEF Change, Accounts, TypeOK

\* An insertion takes the next id, which nothing has yet.
LEMMA InsertAdds ==
  ASSUME TypeOK, IdsInOrder, NEW t \in Threads, InsertUser(t)
  PROVE  /\ lastId' = lastId + 1 /\ lastId' \in Ids /\ lastId' \notin Accounts
         /\ Accounts' = Accounts \cup {lastId'}
         /\ users'[lastId'] = NewRow(t)
         /\ \A i \in Accounts : users'[i] = users[i]
         /\ pc' = [pc EXCEPT ![t] = "idle"] /\ form' = [form EXCEPT ![t] = None]
         /\ UNCHANGED <<unique, session, acted>>
<1>1. lastId' = lastId + 1 /\ lastId' \in Ids /\ lastId \in Nat
  BY AccountConstants DEF InsertUser, TypeOK, Ids
<1>2. lastId' \notin Accounts  BY <1>1 DEF IdsInOrder
<1>3. NewRow(t) \in Row
  BY AccountConstants DEF InsertUser, NewRow, TypeOK, Row
<1>4. NewRow(t) # None  BY <1>3, AccountConstants
<1>5. users' = [users EXCEPT ![lastId'] = NewRow(t)]  BY DEF InsertUser
<1>6. \A i \in Ids : users'[i] = IF i = lastId' THEN NewRow(t) ELSE users[i]
  BY <1>1, <1>5 DEF TypeOK
<1> QED  BY <1>1, <1>2, <1>4, <1>6 DEF Accounts, InsertUser, Finish

-----------------------------------------------------------------------------
(* The sessions and the administrators                                     *)

LEMMA IdsStep == IInv /\ [Next]_vars => IdsInOrder' /\ SessionIsItsAccount'
<1> SUFFICES ASSUME IInv, [Next]_vars PROVE IdsInOrder' /\ SessionIsItsAccount'  OBVIOUS
<1>1. TypeOK /\ IdsInOrder /\ SessionIsItsAccount  BY DEF IInv
<1> USE DEF IdsInOrder, SessionIsItsAccount, HasSession
<1>2. CASE Changes  BY <1>1, <1>2, ChangeKeeps
<1>3. ASSUME NEW t \in Threads, InsertUser(t) PROVE IdsInOrder' /\ SessionIsItsAccount'
  <2>1. lastId \in Nat  BY <1>1, AccountConstants DEF TypeOK
  <2>2. \A i \in Accounts : i \in Nat  BY AccountConstants DEF Accounts, Ids
  <2>3. \A b \in Browsers : session[b] # None => session[b].user \in Nat
    BY <1>1, AccountConstants DEF TypeOK, Session, Ids
  <2> QED  BY <1>1, <1>3, <2>1, <2>2, <2>3, InsertAdds
<1>4. ASSUME NEW b \in Browsers, NEW i \in Ids, OpenSession(b, i)
      PROVE  IdsInOrder' /\ SessionIsItsAccount'
  <2>1. i \in Accounts /\ session' = [session EXCEPT ![b] =
          [user |-> i, name |-> users[i].name, role |-> users[i].role]]
        /\ UNCHANGED <<users, lastId>>
    BY <1>4 DEF OpenSession
  <2>2. Accounts' = Accounts  BY <2>1 DEF Accounts
  <2> QED  BY <1>1, <2>1, <2>2 DEF TypeOK
<1>5. ASSUME NEW b \in Browsers, CloseSession(b) PROVE IdsInOrder' /\ SessionIsItsAccount'
  BY <1>1, <1>5 DEF CloseSession, TypeOK, Accounts
<1>6. CASE UNCHANGED <<users, lastId, session>>  BY <1>1, <1>6 DEF Accounts
<1>7. CASE /\ ~Changes /\ ~Inserts
           /\ \A b \in Browsers : ~CloseSession(b) /\ \A i \in Ids : ~OpenSession(b, i)
  <2>1. UNCHANGED <<users, lastId>>  BY <1>7, OthersKeep
  <2>2. UNCHANGED session
    BY <1>7 DEF Next, Create, Changes, Inserts, ToggleActive, DeleteUser, SetRole, ListPage, NewProcess, vars,
       Post, SelectName, CountUsers, InsertRefused, Goto, Refuse
  <2> QED  BY <1>6, <2>1, <2>2
<1> QED  BY <1>2, <1>3, <1>4, <1>5, <1>7 DEF Inserts

\* Whoever acts as an active administrator is one afterwards.
LEMMA AdminStep == IInv /\ [Next]_vars => AdminRemains'
<1> SUFFICES ASSUME IInv, [Next]_vars PROVE AdminRemains'  OBVIOUS
<1>1. TypeOK /\ IdsInOrder /\ AdminRemains  BY DEF IInv
<1>2. ASSUME NEW b \in Browsers, NEW i \in Accounts,
             \/ ToggleActive(b, i) \/ DeleteUser(b, i) \/ \E r \in Roles : SetRole(b, i, r)
      PROVE  AdminRemains'
  <2>1. CASE session[b].user \notin ActiveAdmins
    BY <1>2, <2>1 DEF AdminRemains, ToggleActive, DeleteUser, SetRole, Change
  <2>2. CASE session[b].user \in ActiveAdmins
    <3> DEFINE a == session[b].user
    <3>1. a \in Ids /\ users[a] \in Row /\ users[a].role = "admin" /\ users[a].active
      BY <1>1, <2>2 DEF ActiveAdmins, Accounts, TypeOK
    <3>2. users'[a] # None /\ users'[a].role = "admin" /\ users'[a].active
      <4>1. CASE a # i
        BY <1>1, <1>2, <3>1, <4>1, AccountConstants
           DEF ToggleActive, DeleteUser, SetRole, Change, TypeOK
      <4>2. CASE a = i
        <5>1. users' = [users EXCEPT ![i] = [users[i] EXCEPT !.role = "admin"]]
          BY <1>2, <4>2 DEF ToggleActive, DeleteUser, SetRole, Change, Own
        <5>2. users'[a] = [users[a] EXCEPT !.role = "admin"]
          BY <1>1, <3>1, <4>2, <5>1 DEF TypeOK
        <5>3. users'[a] \in Row  BY <3>1, <5>2 DEF Row, Roles
        <5> QED  BY <3>1, <5>2, <5>3, AccountConstants DEF Row
      <4> QED  BY <4>1, <4>2
    <3>3. a \in ActiveAdmins'  BY <3>1, <3>2 DEF ActiveAdmins, Accounts
    <3> QED  BY <3>3 DEF AdminRemains
  <2> QED  BY <2>1, <2>2
<1>3. ASSUME NEW t \in Threads, InsertUser(t) PROVE AdminRemains'
  BY <1>1, <1>3, InsertAdds DEF AdminRemains, ActiveAdmins
<1>4. CASE ~Changes /\ ~Inserts
  BY <1>1, <1>4, OthersKeep DEF AdminRemains, ActiveAdmins, Accounts
<1> QED  BY <1>2, <1>3, <1>4 DEF Changes, Inserts

-----------------------------------------------------------------------------
(* Counting                                                                *)

LEMMA Counts ==
  /\ \A S \in SUBSET Ids : IsFiniteSet(S) /\ Cardinality(S) \in Nat
  /\ \A S \in SUBSET Threads : /\ IsFiniteSet(S) /\ Cardinality(S) \in Nat
                              /\ Cardinality(S) <= Cardinality(Threads)
  /\ Cardinality(Threads) \in Nat /\ Cardinality(Threads) >= 1
<1>1. IsFiniteSet(Ids)  BY FS_Interval, AccountConstants DEF Ids
<1>2. \A S \in SUBSET Ids : IsFiniteSet(S)  BY <1>1, FS_Subset
<1>3. \A S \in SUBSET Threads : IsFiniteSet(S) /\ Cardinality(S) <= Cardinality(Threads)
  BY FS_Subset, AccountConstants
<1>4. Cardinality(Threads) \in Nat /\ Cardinality(Threads) # 0
  BY FS_CardinalityType, FS_EmptySet, AccountConstants
<1> QED  BY <1>2, <1>3, <1>4, FS_CardinalityType

\* Fewer accounts and fewer handlers that have passed a check.
LEMMA Shrink ==
  ASSUME AccountBudget, HolderBudget,
         Accounts' \subseteq Accounts, \A i \in Accounts' : users'[i].name = users[i].name,
         Counted' \subseteq Counted, \A n \in Names : Wanting(n)' \subseteq Wanting(n)
  PROVE  AccountBudget' /\ HolderBudget'
<1>1. Accounts \in SUBSET Ids /\ Counted \in SUBSET Threads
  BY DEF Accounts, Counted
<1>2. Cardinality(Accounts') <= Cardinality(Accounts)  BY <1>1, Counts, FS_Subset
<1>3. Cardinality(Counted') <= Cardinality(Counted)  BY <1>1, Counts, FS_Subset
<1>4. Accounts' \in SUBSET Ids /\ Counted' \in SUBSET Threads  BY <1>1
<1>5. AccountBudget'
  BY <1>1, <1>2, <1>3, <1>4, Counts, AccountConstants DEF AccountBudget
<1>6. ASSUME NEW n \in Names
      PROVE  Cardinality(Holders(n)') + Cardinality(Wanting(n)') <= Cardinality(Threads)
  <2>1. Holders(n)' \subseteq Holders(n) /\ Holders(n) \in SUBSET Ids
    BY <1>1 DEF Holders
  <2>2. Wanting(n)' \subseteq Wanting(n) /\ Wanting(n) \in SUBSET Threads
    BY <1>6 DEF Wanting
  <2>3. Cardinality(Holders(n)') <= Cardinality(Holders(n))  BY <2>1, Counts, FS_Subset
  <2>4. Cardinality(Wanting(n)') <= Cardinality(Wanting(n))  BY <2>2, Counts, FS_Subset
  <2>5. Holders(n)' \in SUBSET Ids /\ Wanting(n)' \in SUBSET Threads  BY <2>1, <2>2
  <2>6. Cardinality(Holders(n)) + Cardinality(Wanting(n)) <= Cardinality(Threads)
    BY DEF HolderBudget
  <2> QED  BY <2>1, <2>2, <2>3, <2>4, <2>5, <2>6, Counts
<1> QED  BY <1>5, <1>6 DEF HolderBudget

LEMMA InsertBudget ==
  ASSUME IInv, NEW t \in Threads, InsertUser(t)
  PROVE  AccountBudget' /\ HolderBudget' /\ UniqueHolder'
<1>1. TypeOK /\ IdsInOrder /\ AccountBudget /\ HolderBudget /\ UniqueHolder  BY DEF IInv
<1> DEFINE i == lastId'
<1>2. /\ i \in Ids /\ i \notin Accounts /\ Accounts' = Accounts \cup {i}
      /\ users'[i] = NewRow(t) /\ \A j \in Accounts : users'[j] = users[j]
      /\ pc' = [pc EXCEPT ![t] = "idle"] /\ form' = [form EXCEPT ![t] = None]
      /\ unique' = unique
  BY <1>1, InsertAdds
<1>3. pc[t] = "insert"  BY DEF InsertUser
<1>4. users'[i].name = form[t].name  BY <1>2 DEF NewRow
<1>5. AccountBudget'
  <2>1. Counted' = Counted \ {t} /\ t \in Counted  BY <1>1, <1>2, <1>3 DEF Counted, TypeOK
  <2>2. Counted \in SUBSET Threads /\ Accounts \in SUBSET Ids  BY DEF Counted, Accounts
  <2>3. Cardinality(Counted') = Cardinality(Counted) - 1
    BY <2>1, <2>2, Counts, FS_RemoveElement
  <2>4. Cardinality(Accounts') = Cardinality(Accounts) + 1
    BY <1>2, <2>2, Counts, FS_AddElement
  <2> QED  BY <1>1, <2>2, <2>3, <2>4, Counts, AccountConstants DEF AccountBudget
<1>6. ASSUME NEW n \in Names
      PROVE  Cardinality(Holders(n)') + Cardinality(Wanting(n)') <= Cardinality(Threads)
  <2>1. Holders(n) \in SUBSET Ids /\ Wanting(n) \in SUBSET Threads
    BY DEF Holders, Accounts, Wanting
  <2>2. Cardinality(Holders(n)) + Cardinality(Wanting(n)) <= Cardinality(Threads)
    BY <1>1 DEF HolderBudget
  <2>3. CASE form[t].name = n
    <3>1. Holders(n)' = Holders(n) \cup {i} /\ i \notin Holders(n)
      BY <1>2, <1>4, <2>3 DEF Holders
    <3>2. Wanting(n)' = Wanting(n) \ {t} /\ t \in Wanting(n)
      BY <1>1, <1>2, <1>3, <2>3 DEF Wanting, TypeOK
    <3>3. Cardinality(Holders(n)') = Cardinality(Holders(n)) + 1
      BY <2>1, <3>1, Counts, FS_AddElement
    <3>4. Cardinality(Wanting(n)') = Cardinality(Wanting(n)) - 1
      BY <2>1, <3>2, Counts, FS_RemoveElement
    <3> QED  BY <2>1, <2>2, <3>3, <3>4, Counts
  <2>4. CASE form[t].name # n
    <3>1. Holders(n)' = Holders(n)  BY <1>2, <1>4, <2>4 DEF Holders
    <3>2. Wanting(n)' = Wanting(n)
      BY <1>1, <1>2, <1>3, <2>4 DEF Wanting, TypeOK
    <3> QED  BY <2>2, <3>1, <3>2
  <2> QED  BY <2>3, <2>4
<1>7. UniqueHolder'
  <2>1. unique => \A j \in Accounts : users[j].name # form[t].name
    BY DEF InsertUser, Holders
  <2> QED  BY <1>1, <1>2, <1>4, <2>1 DEF UniqueHolder
<1> QED  BY <1>5, <1>6, <1>7 DEF HolderBudget

LEMMA BudgetStep == IInv /\ [Next]_vars => AccountBudget' /\ HolderBudget' /\ UniqueHolder'
<1> SUFFICES ASSUME IInv, [Next]_vars
             PROVE  AccountBudget' /\ HolderBudget' /\ UniqueHolder'
  OBVIOUS
<1>1. TypeOK /\ AccountBudget /\ HolderBudget /\ UniqueHolder  BY DEF IInv
<1>2. CASE Changes
  <2>1. /\ Accounts' \subseteq Accounts /\ \A i \in Accounts' : users'[i].name = users[i].name
        /\ UNCHANGED <<unique, pc, form>>
    BY <1>1, <1>2, ChangeKeeps
  <2>2. UniqueHolder'  BY <1>1, <2>1 DEF UniqueHolder
  <2>3. Counted' = Counted /\ \A n \in Names : Wanting(n)' = Wanting(n)
    BY <2>1 DEF Counted, Wanting
  <2> QED  BY <1>1, <2>1, <2>2, <2>3, Shrink
<1>3. CASE Inserts  BY <1>3, InsertBudget DEF Inserts
<1>4. CASE ~Changes /\ ~Inserts
  <2>1. UNCHANGED <<users, unique>> /\ Accounts' = Accounts
    BY <1>4, OthersKeep DEF Accounts
  <2>2. UniqueHolder'  BY <1>1, <2>1 DEF UniqueHolder
  <2>3. \A n \in Names : Holders(n)' = Holders(n)  BY <2>1 DEF Holders
  <2>4. CASE Counted' \subseteq Counted /\ \A n \in Names : Wanting(n)' \subseteq Wanting(n)
    BY <1>1, <2>1, <2>2, <2>4, Shrink
  <2>5. ASSUME NEW t \in Threads, SelectName(t), Goto(t, "count")
        PROVE  AccountBudget' /\ HolderBudget'
    <3>1. Holders(form[t].name) = {} /\ pc[t] = "select"
      BY <2>5, <1>1 DEF SelectName, Goto, Refuse, Finish, TypeOK
    <3>2. Counted' = Counted  BY <1>1, <2>5, <3>1 DEF Goto, Counted, TypeOK
    <3>3. AccountBudget'  BY <1>1, <2>1, <3>2 DEF AccountBudget
    <3>4. ASSUME NEW n \in Names
          PROVE  Cardinality(Holders(n)') + Cardinality(Wanting(n)') <= Cardinality(Threads)
      <4>1. CASE n = form[t].name
        <5>1. Cardinality(Holders(n)') = 0  BY <2>3, <3>1, <4>1, FS_EmptySet
        <5>2. Wanting(n)' \in SUBSET Threads  BY DEF Wanting
        <5> QED  BY <5>1, <5>2, Counts
      <4>2. CASE n # form[t].name
        <5>1. Wanting(n)' = Wanting(n)
          BY <1>1, <2>5, <4>2, <3>1 DEF Wanting, Goto, TypeOK
        <5> QED  BY <1>1, <2>3, <5>1 DEF HolderBudget
      <4> QED  BY <4>1, <4>2
    <3> QED  BY <3>3, <3>4 DEF HolderBudget
  <2>6. ASSUME NEW t \in Threads, CountUsers(t), Goto(t, "insert")
        PROVE  AccountBudget' /\ HolderBudget'
    <3>1. Cardinality(Accounts) < Limit /\ pc[t] = "count"
      BY <2>6, <1>1 DEF CountUsers, Goto, Refuse, Finish, TypeOK
    <3>2. Counted' \in SUBSET Threads /\ Accounts' \in SUBSET Ids  BY DEF Counted, Accounts
    <3>3. AccountBudget'
      BY <2>1, <3>1, <3>2, Counts, AccountConstants DEF AccountBudget
    <3>4. \A n \in Names : Wanting(n)' = Wanting(n)
      BY <1>1, <2>6, <3>1 DEF Wanting, Goto, TypeOK
    <3>5. HolderBudget'  BY <1>1, <2>3, <3>4 DEF HolderBudget
    <3> QED  BY <3>3, <3>5
  <2>7. ASSUME NEW t \in Threads, Refuse(t)
        PROVE  Counted' \subseteq Counted /\ \A n \in Names : Wanting(n)' \subseteq Wanting(n)
    BY <1>1, <2>7 DEF Refuse, Finish, Counted, Wanting, TypeOK
  <2>8. ASSUME NEW t \in Threads, NEW b \in Browsers, NEW f \in Forms, Post(t, b, f)
        PROVE  Counted' \subseteq Counted /\ \A n \in Names : Wanting(n)' \subseteq Wanting(n)
    BY <1>1, <2>8 DEF Post, Counted, Wanting, TypeOK
  <2>9. CASE NewProcess
    BY <2>4, <2>9 DEF NewProcess, Counted, Wanting
  <2>10. CASE UNCHANGED <<pc, form>>
    BY <2>4, <2>10 DEF Counted, Wanting
  <2>11. CASE \E t \in Threads : SelectName(t) \/ CountUsers(t) \/ InsertRefused(t)
    BY <2>2, <2>4, <2>5, <2>6, <2>7, <2>11 DEF SelectName, CountUsers, InsertRefused
  <2>12. CASE \E t \in Threads, b \in Browsers, f \in Forms : Post(t, b, f)
    BY <2>4, <2>8, <2>12
  <2>13. CASE (\E b \in Browsers : CloseSession(b)) \/ (\E b \in Browsers, i \in Ids : OpenSession(b, i))
    BY <2>10, <2>13 DEF CloseSession, OpenSession
  <2>14. CASE ListPage \/ UNCHANGED vars
    BY <2>10, <2>14 DEF ListPage, vars
  <2> QED
    BY <1>4, <2>2, <2>9, <2>11, <2>12, <2>13, <2>14
       DEF Next, Create, Changes, Inserts, ToggleActive, DeleteUser, SetRole
<1> QED  BY <1>2, <1>3, <1>4

-----------------------------------------------------------------------------

\* Every step keeps the invariant.
LEMMA InvStep == IInv /\ [Next]_vars => IInv'
  BY TypeStep, BudgetStep, IdsStep, AdminStep DEF IInv

\* So it holds in every reachable state.
LEMMA Invariance == Spec => []IInv
<1>1. Init => IInv  BY InitInvariant
<1>2. IInv /\ [Next]_vars => IInv'  BY InvStep
<1> QED  BY <1>1, <1>2, PTL DEF Spec

\* Every variable keeps its type.
THEOREM TypeCorrect == Spec => []TypeOK
<1>1. IInv => TypeOK  BY DEF IInv
<1> QED  BY <1>1, Invariance, PTL

(* A company loses its last active administrator only to somebody whose      *)
(* session is older than the loss of his own rank.                          *)
THEOREM AnAdministratorRemains == Spec => []AdminRemains
<1>1. IInv => AdminRemains  BY DEF IInv
<1> QED  BY <1>1, Invariance, PTL

(* The session of a deleted account never becomes somebody else's.          *)
THEOREM SessionsStayTheirs == Spec => []SessionIsItsAccount
<1>1. IInv => SessionIsItsAccount  BY DEF IInv
<1> QED  BY <1>1, Invariance, PTL

(* With any number of handlers under way the plan of the company is exceeded *)
(* by fewer accounts than there are handlers.                               *)
THEOREM QuotaHolds == Spec => []UsersBounded
<1>1. IInv => UsersBounded
  <2> SUFFICES ASSUME IInv PROVE UsersBounded  OBVIOUS
  <2>1. Accounts \in SUBSET Ids /\ Counted \in SUBSET Threads  BY DEF Accounts, Counted
  <2> QED  BY <2>1, Counts, AccountConstants DEF IInv, AccountBudget, UsersBounded
<1> QED  BY <1>1, Invariance, PTL

(* One account for a name where the column is UNIQUE, one for each handler   *)
(* where it is not.                                                        *)
THEOREM HoldersAreBounded == Spec => []HoldersBounded
<1>1. IInv => HoldersBounded
  <2> SUFFICES ASSUME IInv, NEW n \in Names
               PROVE  Cardinality(Holders(n)) <= IF unique THEN 1 ELSE Cardinality(Threads)
    BY DEF HoldersBounded
  <2>1. Holders(n) \in SUBSET Ids /\ Wanting(n) \in SUBSET Threads
    BY DEF Holders, Accounts, Wanting
  <2>2. CASE ~unique
    BY <2>1, <2>2, Counts DEF IInv, HolderBudget
  <2>3. CASE unique
    <3>1. \A i, j \in Holders(n) : i = j  BY <2>3 DEF IInv, UniqueHolder, Holders
    <3>2. CASE Holders(n) = {}  BY <2>3, <3>2, FS_EmptySet
    <3>3. CASE Holders(n) # {}
      <4>1. PICK i \in Holders(n) : TRUE  BY <3>3
      <4>2. Holders(n) = {i}  BY <3>1, <4>1
      <4>3. Cardinality({i}) = 1  BY FS_Singleton
      <4> QED  BY <2>3, <4>2, <4>3
    <3> QED  BY <3>2, <3>3
  <2> QED  BY <2>2, <2>3
<1> QED  BY <1>1, Invariance, PTL

-----------------------------------------------------------------------------
(* The sessions.  What a page does to a session does not depend on where   *)
(* else the session is kept, so the invariant speaks of one session at a   *)
(* time (Sound) and holds of every cookie and every copy.                  *)

\* A session in which the user belongs to the company and a visit is marked,
\* and a visitor is one of the company's administrators.
Sound(s) ==
  /\ s \in SessionType
  /\ s.user # None => /\ s.company = s.origin.company
                      /\ s.view <=> s.origin.by = "visit"
  /\ s.view /\ s.user # None => s.user \in Admins

AllSound ==
  /\ cookie \in [Clients -> SessionType]
  /\ request \in [Threads -> [browser : Clients, session : SessionType] \cup {Idle}]
  /\ \A b \in Clients : Sound(cookie[b])
  /\ \A t \in Threads : Sound(Copy(t))

\* Only a completion has an author, and he gave a password.
ReviewSound ==
  /\ review \in [Companies -> [owner : Users \cup {None}, done : BOOLEAN, by : Origins]]
  /\ \A c \in Companies : ~review[c].done => review[c].by = NoOrigin
  /\ CompletedByPassword

CompaniesFit == /\ allowed \in [Companies -> BOOLEAN]
                /\ behind \in [Companies -> SUBSET Registers]

SessionsInv == AllSound /\ ReviewSound /\ CompaniesFit

-----------------------------------------------------------------------------
(* Lemmas on one session *)

LEMMA EmptySound == Sound(Empty) /\ NoOrigin \in Origins
BY DEF Sound, Empty, SessionType, Origins, NoOrigin

LEMMA KeptSound ==
  ASSUME NEW s, Sound(s), NEW m \in BOOLEAN
  PROVE  /\ Sound([s EXCEPT !.master = m])
         /\ [s EXCEPT !.master = m].view = s.view
BY DEF Sound, SessionType

LEMMA WithoutUserSound ==
  ASSUME NEW s, Sound(s), NEW v \in BOOLEAN
  PROVE  /\ Sound([WithoutUser(s) EXCEPT !.company = None])
         /\ Sound([WithoutUser(s) EXCEPT !.company = None, !.view = v])
BY EmptySound DEF Sound, SessionType, WithoutUser

LEMMA WithUserSound ==
  ASSUME NEW s, Sound(s), NEW u \in Users, NEW how \in {"password", "visit"},
         s.company \in Companies, s.view <=> how = "visit", how = "visit" => u \in Admins
  PROVE  Sound(WithUser(s, u, how))
<1> DEFINE o == [company |-> s.company, by |-> how]
           new == [s EXCEPT !.user = u, !.origin = o]
<1>1. o \in Origins /\ o.company = s.company /\ o.by = how  BY DEF Origins
<1>2. s \in SessionType  BY DEF Sound
<1> HIDE DEF o
<1>3. /\ new \in SessionType /\ new.user = u /\ new.origin = o
      /\ new.company = s.company /\ new.view = s.view
  BY <1>1, <1>2 DEF SessionType
<1>4. WithUser(s, u, how) = new  BY DEF WithUser, o
<1> HIDE DEF new
<1>5. Sound(new)  BY <1>1, <1>3 DEF Sound
<1> QED  BY <1>4, <1>5

LEMMA ChosenSound ==
  ASSUME NEW c \in Companies
  PROVE  Sound([Empty EXCEPT !.company = c])
BY EmptySound DEF Sound, Empty, SessionType

LEMMA VisitSound ==
  ASSUME NEW s, Sound(s), NEW c \in Companies, NEW a \in Admins
  PROVE  Sound(WithUser([s EXCEPT !.company = c, !.view = TRUE], a, "visit"))
<1> DEFINE o == [company |-> c, by |-> "visit"]
           at == [s EXCEPT !.company = c, !.view = TRUE]
           new == [at EXCEPT !.user = a, !.origin = o]
<1>1. s \in SessionType  BY DEF Sound
<1>2. at.company = c /\ at \in SessionType /\ at.view = TRUE  BY <1>1 DEF SessionType
<1>3. o \in Origins /\ o.company = c /\ o.by = "visit"  BY DEF Origins
<1>4. WithUser(at, a, "visit") = new  BY <1>2 DEF WithUser
<1> HIDE DEF at, o
<1>5. /\ new \in SessionType /\ new.user = a /\ new.origin = o
      /\ new.company = c /\ new.view = TRUE
  BY <1>2, <1>3 DEF SessionType, Users
<1> HIDE DEF new
<1>6. Sound(new)  BY <1>3, <1>5 DEF Sound
<1> QED  BY <1>4, <1>6 DEF at

-----------------------------------------------------------------------------
(* The invariant *)

\* The invariant of the sessions holds before anybody has visited.
LEMMA SessionsInitially == SessionsInit => SessionsInv
<1> SUFFICES ASSUME SessionsInit PROVE SessionsInv  OBVIOUS
<1>1. Empty \in SessionType  BY EmptySound DEF Sound
<1>2. \A t \in Threads : Copy(t) = Empty  BY DEF SessionsInit, Copy, Idle
<1>3. AllSound  BY <1>1, <1>2, EmptySound DEF AllSound, SessionsInit
<1>4. Pending.done = FALSE /\ Pending.by = NoOrigin
      /\ Pending \in [owner : Users \cup {None}, done : BOOLEAN, by : Origins]
  BY EmptySound DEF Pending
<1>5. ReviewSound  BY <1>4 DEF ReviewSound, CompletedByPassword, SessionsInit
<1>6. CompaniesFit  BY DEF CompaniesFit, SessionsInit
<1> QED  BY <1>3, <1>5, <1>6 DEF SessionsInv

\* Every handler ends in an answer; that the answer is sound is enough.
LEMMA AnswerSound ==
  ASSUME AllSound, NEW t \in Threads, Working(t), NEW s, Sound(s), Answer(t, s)
  PROVE  AllSound'
<1>1. Idle.session = Empty  BY DEF Idle
<1>2. request[t].browser \in Clients
  <2>1. request[t] # Idle  BY DEF Working, Idle
  <2> QED  BY <2>1 DEF AllSound
<1>3. /\ cookie' = [cookie EXCEPT ![request[t].browser] = s]
      /\ request' = [request EXCEPT ![t] = Idle]
  BY DEF Answer
<1>4. s \in SessionType  BY DEF Sound
<1>5. cookie' \in [Clients -> SessionType]  BY <1>2, <1>3, <1>4 DEF AllSound
<1>6. request' \in [Threads -> [browser : Clients, session : SessionType] \cup {Idle}]
  BY <1>3 DEF AllSound
<1>7. \A b \in Clients : Sound(cookie'[b])
  BY <1>2, <1>3 DEF AllSound
<1>8. \A u \in Threads : Sound(request'[u].session)
  <2> TAKE u \in Threads
  <2>1. request'[u] = Idle \/ request'[u] = request[u]  BY <1>3 DEF AllSound
  <2>2. Sound(request[u].session)  BY DEF AllSound, Copy
  <2> QED  BY <1>1, <2>1, <2>2, EmptySound
<1> QED  BY <1>5, <1>6, <1>7, <1>8 DEF AllSound, Copy

\* Every page keeps every cookie and every copy sound.
LEMMA SessionStep == AllSound /\ [SessionsNext]_sessionVars => AllSound'
<1> SUFFICES ASSUME AllSound, [SessionsNext]_sessionVars PROVE AllSound'  OBVIOUS
<1>1. \A t \in Threads : Sound(Copy(t)) /\ Copy(t) \in SessionType  BY DEF AllSound, Sound
<1>2. ASSUME NEW t \in Threads, Working(t)
      PROVE  Sound(cookie[request[t].browser])
  <2>1. request[t] # Idle  BY <1>2 DEF Working, Idle
  <2> QED  BY <2>1 DEF AllSound
<1>3. ASSUME UNCHANGED <<cookie, request>> PROVE AllSound'
  BY <1>3 DEF AllSound, Copy
<1>4. ASSUME NEW t \in Threads, NEW b \in Clients, Arrive(t, b) PROVE AllSound'
  <2>1. [browser |-> b, session |-> cookie[b]] \in [browser : Clients, session : SessionType]
        /\ Sound(cookie[b])
    BY DEF AllSound
  <2>2. cookie' = cookie /\ request' = [request EXCEPT ![t] = [browser |-> b, session |-> cookie[b]]]
    BY <1>4 DEF Arrive
  <2>3. \A u \in Threads : Sound(request'[u].session)
    <3> TAKE u \in Threads
    <3>1. request'[u].session = cookie[b] \/ request'[u] = request[u]  BY <2>2 DEF AllSound
    <3>2. Sound(request[u].session)  BY DEF AllSound, Copy
    <3> QED  BY <2>1, <3>1, <3>2
  <2>4. request' \in [Threads -> [browser : Clients, session : SessionType] \cup {Idle}]
    BY <2>1, <2>2 DEF AllSound
  <2>5. /\ cookie' \in [Clients -> SessionType]
        /\ \A x \in Clients : Sound(cookie'[x])
    BY <2>2 DEF AllSound
  <2> QED  BY <2>3, <2>4, <2>5 DEF AllSound, Copy
<1>5. CASE Restart
  <2>1. cookie' = cookie \/ cookie' = [b \in Clients |-> Empty]  BY <1>5 DEF Restart
  <2>2. request' = [t \in Threads |-> Idle]  BY <1>5 DEF Restart
  <2>3. \A t \in Threads : request'[t].session = Empty  BY <2>2 DEF Idle
  <2>4. Empty \in SessionType  BY EmptySound DEF Sound
  <2> QED  BY <2>1, <2>2, <2>3, <2>4, EmptySound DEF AllSound, Copy
<1>6. ASSUME NEW t \in Threads, Page(t) PROVE AllSound'
  BY <1>1, <1>2, <1>6, AnswerSound DEF Page, Reply
<1>7. ASSUME NEW t \in Threads, Evicted(t) PROVE AllSound'
  BY <1>1, <1>7, AnswerSound, WithoutUserSound DEF Evicted
<1>8. ASSUME NEW t \in Threads, ChangeDevice(t) \/ \E r \in Registers : OpenRegister(t, r)
      PROVE  AllSound'
  BY <1>1, <1>2, <1>8, AnswerSound DEF ChangeDevice, OpenRegister, Reply, SignedIn, Enters
<1>9. ASSUME NEW t \in Threads, Logout(t) PROVE AllSound'
  BY <1>9, AnswerSound, EmptySound DEF Logout, Enters
<1>10. ASSUME NEW t \in Threads, MasterLogin(t) \/ MasterLogout(t) PROVE AllSound'
  BY <1>1, <1>10, AnswerSound, KeptSound DEF MasterLogin, MasterLogout, FormAccepted
<1>11. ASSUME NEW t \in Threads, MasterReturn(t) PROVE AllSound'
  BY <1>1, <1>11, AnswerSound, WithoutUserSound DEF MasterReturn
<1>12. ASSUME NEW t \in Threads, RequestCompleteGet(t) \/ RequestCompletePost(t) PROVE AllSound'
  BY <1>1, <1>2, <1>12, AnswerSound
     DEF RequestCompleteGet, RequestCompletePost, Reply, SignedIn, Enters
<1>13. ASSUME NEW t \in Threads, NEW u \in Users, Login(t, u) PROVE AllSound'
  <2>1. Working(t) /\ ~Copy(t).view /\ Copy(t).company # None
        /\ Answer(t, WithUser(Copy(t), u, "password"))
    BY <1>13 DEF Login, FormAccepted
  <2>2. Copy(t).company \in Companies  BY <1>1, <2>1 DEF SessionType
  <2>3. Sound(WithUser(Copy(t), u, "password"))  BY <1>1, <2>1, <2>2, WithUserSound
  <2> QED  BY <2>1, <2>3, AnswerSound
<1>14. ASSUME NEW t \in Threads, NEW c \in Companies, SelectCompany(t, c) PROVE AllSound'
  BY <1>14, AnswerSound, ChosenSound DEF SelectCompany, FormAccepted
<1>15. ASSUME NEW t \in Threads, NEW c \in Companies, MasterEnterCompany(t, c) PROVE AllSound'
  BY <1>1, <1>15, AnswerSound, VisitSound DEF MasterEnterCompany
<1>16. ASSUME NEW t \in Threads, NEW c \in Companies, MasterCompanyUpdate(t, c) PROVE AllSound'
  BY <1>1, <1>16, AnswerSound DEF MasterCompanyUpdate, FormAccepted
<1>17. CASE (\E c \in Companies : Expire(c)) \/ UNCHANGED sessionVars
  BY <1>3, <1>17 DEF Expire, sessionVars
<1> QED
  BY <1>4, <1>5, <1>6, <1>7, <1>8, <1>9, <1>10, <1>11, <1>12, <1>13, <1>14, <1>15, <1>16,
     <1>17 DEF SessionsNext

-----------------------------------------------------------------------------
(* The request under review *)

\* The pages that write for the company, seen from `review` and `behind`; no
\* other step changes either.
LEMMA ReviewSteps ==
  ASSUME [SessionsNext]_sessionVars
  PROVE  /\ \/ review' = review
            \/ \E t \in Threads : RequestCompleteGet(t) \/ RequestCompletePost(t)
         /\ \/ behind' = behind
            \/ \E t \in Threads : ChangeDevice(t) \/ \E r \in Registers : OpenRegister(t, r)
<1> USE DEF Restart, Expire, Arrive, Page, Evicted, Logout, MasterLogin, MasterLogout,
            MasterReturn, Login, SelectCompany, MasterEnterCompany, MasterCompanyUpdate
<1>1. review' = review \/ \E t \in Threads : RequestCompleteGet(t) \/ RequestCompletePost(t)
  BY DEF SessionsNext, sessionVars, OpenRegister, ChangeDevice
<1>2. \/ behind' = behind
      \/ \E t \in Threads : ChangeDevice(t) \/ \E r \in Registers : OpenRegister(t, r)
  BY DEF SessionsNext, sessionVars, RequestCompleteGet, RequestCompletePost
<1> QED  BY <1>1, <1>2

LEMMA ReviewStep ==
  AllSound /\ ReviewSound /\ [SessionsNext]_sessionVars => ReviewSound'
<1> SUFFICES ASSUME AllSound, ReviewSound, [SessionsNext]_sessionVars PROVE ReviewSound'  OBVIOUS
<1>1. CASE review' = review  BY <1>1 DEF ReviewSound, CompletedByPassword
<1>2. ASSUME NEW t \in Threads, RequestCompleteGet(t) PROVE ReviewSound'
  <2> DEFINE c == Copy(t).company
  <2>1. Copy(t) \in SessionType /\ Copy(t).user # None /\ c # None
    BY <1>2 DEF AllSound, Sound, RequestCompleteGet, SignedIn, Enters, CompanyAllowed
  <2>2. c \in Companies /\ Copy(t).user \in Users  BY <2>1 DEF SessionType
  <2>3. review' = [review EXCEPT ![c].owner = Copy(t).user]  BY <1>2 DEF RequestCompleteGet
  <2> HIDE DEF c
  <2>4. review' \in [Companies -> [owner : Users \cup {None}, done : BOOLEAN, by : Origins]]
    BY <2>2, <2>3 DEF ReviewSound
  <2>5. \A d \in Companies : review'[d].done = review[d].done /\ review'[d].by = review[d].by
    BY <2>2, <2>3 DEF ReviewSound
  <2> QED  BY <2>4, <2>5 DEF ReviewSound, CompletedByPassword
<1>3. ASSUME NEW t \in Threads, RequestCompletePost(t) PROVE ReviewSound'
  <2> DEFINE c == Copy(t).company
             o == Copy(t).origin
  <2>1. /\ Copy(t) \in SessionType /\ Copy(t).user # None /\ c # None /\ ~Copy(t).view
        /\ o.company = c /\ o.by # "visit"
    BY <1>3 DEF AllSound, Sound, RequestCompletePost, SignedIn, Enters, CompanyAllowed,
                FormAccepted
  <2>2. c \in Companies /\ o \in Origins  BY <2>1 DEF SessionType
  <2>3. o = [company |-> c, by |-> "password"]
    <3>1. o # NoOrigin  BY <2>1 DEF NoOrigin
    <3>2. o \in [company : Companies, by : {"password", "visit"}]  BY <2>2, <3>1 DEF Origins
    <3>3. o.by = "password"  BY <2>1, <3>2
    <3> QED  BY <2>1, <3>2, <3>3
  <2>4. review' = [review EXCEPT ![c] = [owner |-> None, done |-> TRUE, by |-> o]]
    BY <1>3 DEF RequestCompletePost
  <2> HIDE DEF c, o
  <2>5. [owner |-> None, done |-> TRUE, by |-> o]
          \in [owner : Users \cup {None}, done : BOOLEAN, by : Origins]
    BY <2>2
  <2>6. review' \in [Companies -> [owner : Users \cup {None}, done : BOOLEAN, by : Origins]]
    BY <2>2, <2>4, <2>5 DEF ReviewSound
  <2>7. \A d \in Companies :
          \/ review'[d] = review[d]
          \/ d = c /\ review'[d] = [owner |-> None, done |-> TRUE, by |-> o]
    BY <2>2, <2>4 DEF ReviewSound
  <2>8. \A d \in Companies : ~review'[d].done => review'[d].by = NoOrigin
    BY <2>7 DEF ReviewSound
  <2>9. \A d \in Companies :
          review'[d].done => review'[d].by = [company |-> d, by |-> "password"]
    BY <2>3, <2>7 DEF ReviewSound, CompletedByPassword
  <2> QED  BY <2>6, <2>8, <2>9 DEF ReviewSound, CompletedByPassword
<1> QED  BY <1>1, <1>2, <1>3, ReviewSteps

LEMMA CompaniesStep ==
  AllSound /\ CompaniesFit /\ [SessionsNext]_sessionVars => CompaniesFit'
<1> SUFFICES ASSUME AllSound, CompaniesFit, [SessionsNext]_sessionVars PROVE CompaniesFit'  OBVIOUS
<1>1. allowed' \in [Companies -> BOOLEAN]
  <2>1. \/ allowed' = allowed
        \/ \E c \in Companies, a \in BOOLEAN : allowed' = [allowed EXCEPT ![c] = a]
    BY DEF SessionsNext, sessionVars, Restart, Expire, Arrive, Page, Evicted, Logout,
           MasterLogin, MasterLogout, MasterReturn, Login, SelectCompany, MasterEnterCompany,
           MasterCompanyUpdate, RequestCompleteGet, RequestCompletePost, OpenRegister, ChangeDevice
  <2> QED  BY <2>1 DEF CompaniesFit
<1>2. behind' \in [Companies -> SUBSET Registers]
  <2>1. "key_equipment" \in Registers  BY DEF Registers
  <2>2. ASSUME NEW t \in Threads, ChangeDevice(t) PROVE behind' \in [Companies -> SUBSET Registers]
    <3>1. PICK now \in SUBSET (behind[Copy(t).company] \cup {"key_equipment"}) :
            behind' = [behind EXCEPT ![Copy(t).company] = now]
      BY <2>2 DEF ChangeDevice
    <3>2. Copy(t).company \in Companies => now \subseteq Registers  BY <2>1, <3>1 DEF CompaniesFit
    <3> QED  BY <3>1, <3>2 DEF CompaniesFit
  <2>3. ASSUME NEW t \in Threads, NEW r \in Registers, OpenRegister(t, r)
        PROVE  behind' \in [Companies -> SUBSET Registers]
    BY <2>3 DEF OpenRegister, CompaniesFit
  <2> QED  BY <2>2, <2>3, ReviewSteps DEF CompaniesFit
<1> QED  BY <1>1, <1>2 DEF CompaniesFit

\* So they are sound in every reachable state.
LEMMA SessionsInvariance == SessionsSpec => []SessionsInv
<1>1. SessionsInv /\ [SessionsNext]_sessionVars => SessionsInv'  BY SessionStep, ReviewStep, CompaniesStep DEF SessionsInv
<1> QED  BY <1>1, SessionsInitially, PTL DEF SessionsSpec

(* Sessions, claims and registers have their types: a cookie holds a company *)
(* and a user that exist, or none, whatever pages of app.py:318-460 answer   *)
(* in whatever order.                                                        *)
THEOREM SessionTypesCorrect == SessionsSpec => []SessionsTypeOK
<1>1. SessionsInv => SessionsTypeOK  BY DEF SessionsInv, AllSound, ReviewSound, CompaniesFit, SessionsTypeOK
<1> QED  BY SessionsInvariance, <1>1, PTL

(* However the requests of however many tabs overlap, the user of a session  *)
(* was found in the database the session is connected to (app.py:326-327).   *)
THEOREM UsersStayInTheirCompany == SessionsSpec => []UserOfCompany
<1>1. SessionsInv => UserOfCompany  BY DEF SessionsInv, AllSound, Sound, UserOfCompany, Sessions
<1> QED  BY SessionsInvariance, <1>1, PTL

(* A session is marked as a visit exactly if its user gave no password       *)
(* (app.py:372-404, 457-464).                                                *)
THEOREM VisitsAreMarked == SessionsSpec => []VisitsMarked
<1>1. SessionsInv => VisitsMarked  BY DEF SessionsInv, AllSound, Sound, VisitsMarked, Sessions
<1> QED  BY SessionsInvariance, <1>1, PTL

(* No visitor completes a request, even one he has claimed: the check of     *)
(* app.py:259 looks at the same copy of the session as the handler.          *)
THEOREM PasswordsBehindCompletions == SessionsSpec => []CompletedByPassword
<1>1. SessionsInv => CompletedByPassword  BY DEF SessionsInv, ReviewSound
<1> QED  BY SessionsInvariance, <1>1, PTL

-----------------------------------------------------------------------------
(* What a step may not do *)

\* A step by which t ends is an answer of t or a restart; if it writes the
\* review, it is t that does.
LEMMA WriterEnds ==
  ASSUME AllSound, NEW t \in Threads, Working(t), ~Working(t)', NEW u \in Threads,
         NEW s, Answer(u, s)
  PROVE  u = t
<1>1. request' = [request EXCEPT ![u] = Idle]  BY DEF Answer
<1> QED  BY <1>1 DEF AllSound, Working

VisitKeeps(t, c) ==
  \/ review'[c] = review[c] /\ behind'[c] = behind[c]
  \/ /\ c = Copy(t).company /\ behind'[c] \subseteq behind[c]
     /\ \/ review'[c] = review[c]
        \/ /\ review[c] = Pending
           /\ \E a \in Admins : review'[c] = [Pending EXCEPT !.owner = a]

(* What a visit writes by opening pages (app.py:259) is the claim of a       *)
(* request nobody had claimed (1750) and rows that registers lack (808,      *)
(* 1141), in the company visited and nowhere else: no user loses a claim, a  *)
(* review or an entry to it.                                                 *)
THEOREM VisitsOnlyComplete == SessionsSpec => VisitOnlyCompletes
<1>1. ASSUME SessionsInv, [SessionsNext]_sessionVars, NEW t \in Threads, Working(t),
             ~Working(t)', Copy(t).view, NEW c \in Companies
      PROVE  VisitKeeps(t, c)
  <2> USE <1>1
  <2>1. AllSound /\ ReviewSound /\ CompaniesFit  BY DEF SessionsInv
  <2>2. CASE review' = review /\ behind' = behind  BY <2>2 DEF VisitKeeps
  <2>3. ASSUME NEW u \in Threads, RequestCompleteGet(u) PROVE VisitKeeps(t, c)
    <3> DEFINE d == Copy(t).company
               a == Copy(t).user
    <3>1. u = t  BY <2>1, <2>3, WriterEnds DEF RequestCompleteGet, Reply
    <3>2. Copy(t) \in SessionType /\ a \in Admins /\ d # None
      BY <2>1, <2>3, <3>1 DEF AllSound, Sound, RequestCompleteGet, SignedIn, Enters, CompanyAllowed
    <3>3. d \in Companies  BY <3>2 DEF SessionType
    <3>4. /\ review[d].owner = None /\ ~review[d].done
          /\ review' = [review EXCEPT ![d].owner = a]
          /\ behind' = behind
      BY <2>3, <3>1 DEF RequestCompleteGet
    <3> HIDE DEF d, a
    <3>5. review[d] = Pending
      <4>1. review[d] \in [owner : Users \cup {None}, done : BOOLEAN, by : Origins]
            /\ review[d].by = NoOrigin
        BY <2>1, <3>3, <3>4 DEF ReviewSound
      <4> QED  BY <3>4, <4>1 DEF Pending
    <3>6. review'[d] = [Pending EXCEPT !.owner = a]
      BY <2>1, <3>3, <3>4, <3>5 DEF ReviewSound
    <3>7. c # d => review'[c] = review[c]
      BY <2>1, <3>4 DEF ReviewSound
    <3> QED  BY <3>2, <3>4, <3>5, <3>6, <3>7 DEF VisitKeeps, d
  <2>4. ASSUME NEW u \in Threads, NEW r \in Registers, OpenRegister(u, r)
        PROVE  VisitKeeps(t, c)
    <3>1. u = t  BY <2>1, <2>4, WriterEnds DEF OpenRegister, Reply
    <3>2. /\ review' = review
          /\ behind' = [behind EXCEPT ![Copy(t).company] = @ \ {r}]
      BY <2>4, <3>1 DEF OpenRegister
    <3>3. /\ c # Copy(t).company => behind'[c] = behind[c]
          /\ c = Copy(t).company => behind'[c] = behind[c] \ {r}
      BY <2>1, <3>2 DEF CompaniesFit
    <3> QED  BY <3>2, <3>3 DEF VisitKeeps
  <2>5. ASSUME NEW u \in Threads, RequestCompletePost(u) \/ ChangeDevice(u) PROVE FALSE
    <3>1. u = t  BY <2>1, <2>5, WriterEnds DEF RequestCompletePost, ChangeDevice
    <3> QED  BY <2>5, <3>1 DEF RequestCompletePost, ChangeDevice, FormAccepted
  <2> QED  BY <2>2, <2>3, <2>4, <2>5, ReviewSteps
<1>2. SessionsInv /\ [SessionsNext]_sessionVars =>
        [\A t \in Threads : Working(t) /\ ~Working(t)' /\ Copy(t).view =>
           \A c \in Companies : VisitKeeps(t, c)]_sessionVars
  BY <1>1
<1> QED  BY SessionsInvariance, <1>2, PTL DEF SessionsSpec, VisitOnlyCompletes, VisitKeeps

-----------------------------------------------------------------------------
(* The visitor who signed out *)

Lost(s) == s.view /\ ~s.master

LEMMA LostKept ==
  ASSUME NEW s, Sound(s), Lost(s)
  PROVE  /\ Lost([WithoutUser(s) EXCEPT !.company = None])
         /\ Lost([s EXCEPT !.master = FALSE])
BY DEF Lost, WithoutUser, Sound, SessionType

LEMMA AnswerStranded ==
  ASSUME AllSound, NEW b \in Clients, Stranded(b), NEW t \in Threads, NEW s,
         request[t].browser = b => Lost(s), Answer(t, s)
  PROVE  Stranded(b)'
<1>1. /\ cookie' = [cookie EXCEPT ![request[t].browser] = s]
      /\ request' = [request EXCEPT ![t] = Idle]
  BY DEF Answer
<1>2. Lost(cookie[b]) /\ \A u \in Threads : request[u].browser = b => Lost(Copy(u))
  BY DEF Stranded, Lost
<1>3. Lost(cookie'[b])  BY <1>1, <1>2 DEF AllSound
<1>4. Idle.browser # b  BY SessionConstants DEF Idle
<1>5. \A u \in Threads : request'[u].browser = b => Lost(request'[u].session)
  <2> TAKE u \in Threads
  <2>1. request'[u] = Idle \/ request'[u] = request[u]  BY <1>1 DEF AllSound
  <2> QED  BY <1>2, <1>4, <2>1 DEF Copy
<1> QED  BY <1>3, <1>5 DEF Stranded, Lost, Copy

(* A main administrator who signs out while visiting is stranded             *)
(* (app.py:357-360 leaves the mark): with SECRET_KEY set, no request of this *)
(* browser, in any order, and no restart gives it an unmarked session again. *)
THEOREM VisitorsStayStranded == SessionsSpec => StrandedVisitor
<1>1. ASSUME AllSound, [SessionsNext]_sessionVars, SecretKey, NEW b \in Clients, Stranded(b)
      PROVE  Stranded(b)'
  <2>1. /\ Lost(cookie[b])
        /\ \A t \in Threads : /\ request[t].browser = b => Lost(Copy(t))
                               /\ Sound(Copy(t))
    BY <1>1 DEF Stranded, Lost, AllSound
  <2>2. ASSUME UNCHANGED <<cookie, request>> PROVE Stranded(b)'
    BY <1>1, <2>2 DEF Stranded, Copy
  <2>3. ASSUME NEW t \in Threads, NEW x \in Clients, Arrive(t, x) PROVE Stranded(b)'
    <3>1. cookie' = cookie /\ request' = [request EXCEPT ![t] = [browser |-> x, session |-> cookie[x]]]
      BY <2>3 DEF Arrive
    <3>2. \A u \in Threads : \/ request'[u] = request[u]
                             \/ request'[u] = [browser |-> x, session |-> cookie[x]]
      BY <1>1, <3>1 DEF AllSound
    <3>3. \A u \in Threads : request'[u].browser = b => Lost(request'[u].session)
      BY <2>1, <3>2 DEF Copy
    <3> QED  BY <2>1, <3>1, <3>3 DEF Stranded, Lost, Copy
  <2>4. CASE Restart
    <3>1. cookie' = cookie /\ \A u \in Threads : request'[u] = Idle
      BY <1>1, <2>4 DEF Restart
    <3>2. Idle.browser # b  BY SessionConstants DEF Idle
    <3> QED  BY <2>1, <3>1, <3>2 DEF Stranded, Lost, Copy
  <2>5. ASSUME NEW t \in Threads, Page(t) PROVE Stranded(b)'
    BY <1>1, <2>1, <2>5, AnswerStranded DEF Page, Reply
  <2>6. ASSUME NEW t \in Threads, Evicted(t) PROVE Stranded(b)'
    BY <1>1, <2>1, <2>6, AnswerStranded, LostKept DEF Evicted
  <2>7. ASSUME NEW t \in Threads, MasterLogout(t) PROVE Stranded(b)'
    BY <1>1, <2>1, <2>7, AnswerStranded, LostKept DEF MasterLogout
  <2>8. ASSUME NEW t \in Threads, RequestCompleteGet(t) \/ \E r \in Registers : OpenRegister(t, r)
        PROVE Stranded(b)'
    BY <1>1, <2>1, <2>8, AnswerStranded DEF RequestCompleteGet, OpenRegister, Reply
  <2>9. ASSUME NEW t \in Threads, MasterLogin(t) \/ ChangeDevice(t) \/ RequestCompletePost(t)
        PROVE Stranded(b)'
    BY <1>1, <2>1, <2>9, AnswerStranded
       DEF ChangeDevice, MasterLogin, RequestCompletePost, FormAccepted, Lost
  <2>10. ASSUME NEW t \in Threads, Logout(t) \/ MasterReturn(t) PROVE Stranded(b)'
    BY <1>1, <2>1, <2>10, AnswerStranded DEF Logout, MasterReturn, Lost
  <2>11. ASSUME NEW t \in Threads, NEW u \in Users, Login(t, u) PROVE Stranded(b)'
    BY <1>1, <2>1, <2>11, AnswerStranded DEF Login, FormAccepted, Lost
  <2>12. ASSUME NEW t \in Threads, NEW c \in Companies,
                SelectCompany(t, c) \/ MasterEnterCompany(t, c) \/ MasterCompanyUpdate(t, c)
         PROVE Stranded(b)'
    BY <1>1, <2>1, <2>12, AnswerStranded
       DEF SelectCompany, MasterEnterCompany, MasterCompanyUpdate, FormAccepted, Lost
  <2>13. CASE (\E c \in Companies : Expire(c)) \/ UNCHANGED sessionVars
    BY <2>2, <2>13 DEF Expire, sessionVars
  <2> QED
    BY <1>1, <2>3, <2>4, <2>5, <2>6, <2>7, <2>8, <2>9, <2>10, <2>11, <2>12, <2>13 DEF SessionsNext
<1>2. SessionsInv /\ [SessionsNext]_sessionVars =>
        [SecretKey => \A b \in Clients : Stranded(b) => Stranded(b)']_sessionVars
  BY <1>1 DEF SessionsInv
<1> QED  BY SessionsInvariance, <1>2, PTL DEF SessionsSpec, StrandedVisitor

-----------------------------------------------------------------------------
(* The limit on failed sign-ins *)

\* Numbers of failures stay numbers of failures.
LEMMA LimitTypeStep == LimitTypeOK /\ [LimitNext]_limitVars => LimitTypeOK'
<1> SUFFICES ASSUME LimitTypeOK, [LimitNext]_limitVars PROVE LimitTypeOK'  OBVIOUS
<1> USE LimitConstants DEF LimitTypeOK, Replace
<1>1. ASSUME NEW t \in Threads, CopyList(t) PROVE LimitTypeOK'
  <2>1. Recent(listed) \subseteq 1..failures  BY DEF Recent
  <2> QED  BY <1>1, <2>1 DEF CopyList
<1>2. ASSUME NEW t \in Threads, StoreList(t) PROVE LimitTypeOK'
  BY <1>2 DEF StoreList
<1>3. ASSUME NEW t \in Threads, PasswordRight(t) PROVE LimitTypeOK'
  BY <1>3 DEF PasswordRight
<1>4. ASSUME NEW t \in Threads, NotCounted(t) PROVE LimitTypeOK'
  BY <1>4 DEF NotCounted
<1>5. ASSUME NEW t \in Threads, PasswordWrong(t) PROVE LimitTypeOK'
  BY <1>5 DEF PasswordWrong
<1>6. ASSUME NEW t \in Threads, AppendFailure(t) PROVE LimitTypeOK'
  <2>1. failures' \in 0..MaxFailures /\ old \in 0..failures' /\ old' = old
    BY <1>6 DEF AppendFailure
  <2>2. 1..failures \subseteq 1..failures' /\ failures' \in 1..failures'
    BY <1>6 DEF AppendFailure
  <2>3. listed' \subseteq 1..failures'  BY <1>6, <2>2 DEF AppendFailure
  <2>4. copied' \in [Threads -> SUBSET (1..failures')]  BY <1>6, <2>2 DEF AppendFailure
  <2>5. signIn' \in [Threads -> {"none", "copied", "hashing", "failed"}]
        /\ appending' \subseteq {u \in Threads : signIn'[u] = "failed"}
    BY <1>6 DEF AppendFailure
  <2> QED  BY <2>1, <2>3, <2>4, <2>5
<1>7. CASE WindowPasses  BY <1>7 DEF WindowPasses
<1>8. CASE LimitRestart  BY <1>8 DEF LimitRestart
<1>9. CASE UNCHANGED limitVars  BY <1>9 DEF limitVars
<1> QED  BY <1>1, <1>2, <1>3, <1>4, <1>5, <1>6, <1>7, <1>8, <1>9 DEF LimitNext

(* The lists of failures hold failures that happened, and only a sign-in     *)
(* whose password was wrong will append one (app.py:281-298, 427-444).       *)
THEOREM LimitTypesCorrect == LimitSpec => []LimitTypeOK
<1>1. LimitInit => LimitTypeOK  BY LimitConstants DEF LimitInit, LimitTypeOK
<1> QED  BY <1>1, LimitTypeStep, PTL DEF LimitSpec

\* The lists are finite, and of two lists the larger has as many failures.
LEMMA RecentGrows ==
  ASSUME NEW A, NEW B, A \subseteq B, NEW n \in Nat, B \subseteq 1..n
  PROVE  /\ Cardinality(A) \in Nat /\ Cardinality(B) \in Nat
         /\ Cardinality(A) <= Cardinality(B)
<1>1. IsFiniteSet(1..n)  BY FS_Interval
<1>2. IsFiniteSet(B)  BY <1>1, FS_Subset
<1>3. IsFiniteSet(A) /\ Cardinality(A) <= Cardinality(B)  BY <1>2, FS_Subset
<1> QED  BY <1>2, <1>3, FS_CardinalityType

(* An address that is locked, with no sign-in from before under way, is      *)
(* unlocked by time or by a restart alone: putting a copy of the list back   *)
(* (app.py:289), losing a failure or adding one leaves it locked.            *)
THEOREM LockoutKeeps == LimitSpec => LockoutHolds
<1>1. ASSUME LimitTypeOK, LimitTypeOK', [LimitNext]_limitVars, Locked
      PROVE  Locked' \/ WindowPasses \/ LimitRestart
  <2> SUFFICES ASSUME ~WindowPasses, ~LimitRestart PROVE Locked'  OBVIOUS
  <2> USE <1>1 DEF LimitTypeOK
  <2>1. /\ Cardinality(Recent(listed)) >= MaxAttempts
        /\ \A t \in Threads :
             /\ signIn[t] # "hashing"
             /\ signIn[t] = "copied" => Cardinality(Recent(copied[t])) >= MaxAttempts
    BY DEF Locked
  <2>2. ASSUME NEW t \in Threads, CopyList(t) PROVE Locked'
    <3>1. Recent(Recent(listed)) = Recent(listed)  BY DEF Recent
    <3>2. /\ listed' = listed /\ old' = old
          /\ copied' = [copied EXCEPT ![t] = Recent(listed)]
          /\ signIn' = [signIn EXCEPT ![t] = "copied"]
      BY <2>2 DEF CopyList
    <3>3. Recent(listed)' = Recent(listed)  BY <3>2 DEF Recent
    <3>4. ASSUME NEW u \in Threads
          PROVE  /\ signIn'[u] # "hashing"
                 /\ signIn'[u] = "copied" => Cardinality(Recent(copied[u])') >= MaxAttempts
      <4>1. CASE u = t
        <5>1. Recent(copied[t])' = Recent(listed)  BY <3>1, <3>2 DEF Recent
        <5> QED  BY <2>1, <3>2, <4>1, <5>1
      <4>2. CASE u # t
        <5>1. signIn'[u] = signIn[u] /\ Recent(copied[u])' = Recent(copied[u])
          BY <3>2, <4>2 DEF Recent
        <5> QED  BY <2>1, <5>1
      <4> QED  BY <4>1, <4>2
    <3> QED  BY <2>1, <3>3, <3>4 DEF Locked
  <2>3. ASSUME NEW t \in Threads, StoreList(t) PROVE Locked'
    <3>1. /\ listed' = copied[t] /\ old' = old
          /\ copied' = [copied EXCEPT ![t] = {}]
          /\ signIn[t] = "copied"
      BY <2>3 DEF StoreList, Replace
    <3>2. Cardinality(copied[t]) >= MaxAttempts
      <4>1. Recent(copied[t]) \subseteq copied[t] /\ copied[t] \subseteq 1..failures
            /\ failures \in Nat
        BY DEF Recent
      <4>2. /\ Cardinality(Recent(copied[t])) <= Cardinality(copied[t])
            /\ Cardinality(Recent(copied[t])) \in Nat /\ Cardinality(copied[t]) \in Nat
        BY <4>1, RecentGrows
      <4>3. Cardinality(Recent(copied[t])) >= MaxAttempts  BY <2>1, <3>1
      <4> QED  BY <4>2, <4>3, LimitConstants
    <3>3. signIn' = [signIn EXCEPT ![t] = "none"]  BY <2>3, <3>2 DEF StoreList
    <3>4. Recent(listed)' = Recent(copied[t])  BY <3>1 DEF Recent
    <3>5. ASSUME NEW u \in Threads
          PROVE  /\ signIn'[u] # "hashing"
                 /\ signIn'[u] = "copied" => Cardinality(Recent(copied[u])') >= MaxAttempts
      <4>1. CASE u = t  BY <3>3, <4>1
      <4>2. CASE u # t
        <5>1. signIn'[u] = signIn[u] /\ Recent(copied[u])' = Recent(copied[u])
          BY <3>1, <3>3, <4>2 DEF Recent
        <5> QED  BY <2>1, <5>1
      <4> QED  BY <4>1, <4>2
    <3> QED  BY <2>1, <3>1, <3>4, <3>5 DEF Locked
  <2>4. ASSUME NEW t \in Threads, AppendFailure(t) PROVE Locked'
    <3>1. /\ listed \subseteq listed' /\ old' = old /\ copied' = copied
          /\ signIn' = [signIn EXCEPT ![t] = "none"]
      BY <2>4 DEF AppendFailure
    <3>2. Cardinality(Recent(listed)') >= MaxAttempts
      <4>1. Recent(listed) \subseteq Recent(listed)'  BY <3>1 DEF Recent
      <4>2. failures' \in Nat /\ Recent(listed)' \subseteq 1..failures'
        <5>1. failures' \in 0..MaxFailures /\ listed' \subseteq 1..failures'  OBVIOUS
        <5>2. failures' \in Nat  BY <5>1, LimitConstants
        <5>3. Recent(listed)' \subseteq 1..failures'  BY <5>1 DEF Recent
        <5> QED  BY <5>2, <5>3
      <4>3. /\ Cardinality(Recent(listed)) <= Cardinality(Recent(listed)')
            /\ Cardinality(Recent(listed)) \in Nat /\ Cardinality(Recent(listed)') \in Nat
        BY <4>1, <4>2, RecentGrows
      <4> QED  BY <2>1, <4>3, LimitConstants
    <3>3. \A u \in Threads : /\ signIn'[u] \in {signIn[u], "none"}
                             /\ Recent(copied[u])' = Recent(copied[u])
      BY <3>1 DEF Recent
    <3> QED  BY <2>1, <3>2, <3>3 DEF Locked
  <2>5. ASSUME NEW t \in Threads, PasswordRight(t) \/ NotCounted(t) \/ PasswordWrong(t)
        PROVE FALSE
    BY <2>1, <2>5 DEF PasswordRight, NotCounted, PasswordWrong
  <2>6. CASE UNCHANGED limitVars
    BY <2>1, <2>6 DEF Locked, Recent, limitVars
  <2> QED  BY <2>2, <2>3, <2>4, <2>5, <2>6 DEF LimitNext
<1>2. LimitTypeOK /\ LimitTypeOK' /\ [LimitNext]_limitVars =>
        [Locked => Locked' \/ WindowPasses \/ LimitRestart]_limitVars
  BY <1>1
<1> QED  BY LimitTypesCorrect, <1>2, PTL DEF LimitSpec, LockoutHolds

\* With one thread, whoever compares a password or records a failure does so
\* with the list that was counted.
OneAtATime ==
  /\ LimitTypeOK
  /\ Cardinality(listed) <= MaxAttempts
  /\ \A t \in Threads :
       /\ signIn[t] = "copied" => copied[t] \subseteq listed
       /\ signIn[t] \in {"hashing", "failed"} => Cardinality(listed) < MaxAttempts

(* LOGIN_MAX_ATTEMPTS (app.py:282) is kept where sign-ins do not overlap: it *)
(* takes a second thread between the check (427) and the record (439) to     *)
(* exceed it.                                                                *)
THEOREM OneThreadKeepsTheLimit ==
  ASSUME NEW only, Threads = {only}
  PROVE  LimitSpec => []LimitKept
<1>1. LimitInit => OneAtATime
  <2>1. LimitInit => LimitTypeOK  BY LimitConstants DEF LimitInit, LimitTypeOK
  <2>2. Cardinality({}) = 0  BY FS_EmptySet
  <2> QED  BY <2>1, <2>2, LimitConstants DEF LimitInit, OneAtATime
<1>2. OneAtATime /\ [LimitNext]_limitVars => OneAtATime'
  <2> SUFFICES ASSUME OneAtATime, [LimitNext]_limitVars PROVE OneAtATime'  OBVIOUS
  <2>1. LimitTypeOK /\ LimitTypeOK'  BY LimitTypeStep DEF OneAtATime
  <2>2. /\ Cardinality(listed) <= MaxAttempts
        /\ signIn[only] = "copied" => copied[only] \subseteq listed
        /\ signIn[only] \in {"hashing", "failed"} => Cardinality(listed) < MaxAttempts
    BY DEF OneAtATime
  <2>3. /\ failures \in Nat /\ listed \subseteq 1..failures /\ MaxAttempts \in Nat
        /\ IsFiniteSet(listed) /\ Cardinality(listed) \in Nat
    <3>1. failures \in Nat /\ listed \subseteq 1..failures  BY <2>1, LimitConstants DEF LimitTypeOK
    <3>2. IsFiniteSet(1..failures)  BY <3>1, FS_Interval
    <3> QED  BY <3>1, <3>2, FS_Subset, FS_CardinalityType, LimitConstants
  <2>4. Cardinality({}) = 0  BY FS_EmptySet
  <2> SUFFICES /\ Cardinality(listed') <= MaxAttempts
               /\ signIn'[only] = "copied" => copied'[only] \subseteq listed'
               /\ signIn'[only] \in {"hashing", "failed"} => Cardinality(listed') < MaxAttempts
    BY <2>1 DEF OneAtATime
  <2>5. CASE CopyList(only)
    BY <2>1, <2>2, <2>5 DEF CopyList, LimitTypeOK, Recent
  <2>6. CASE StoreList(only)
    <3>1. /\ listed' = copied[only] /\ copied[only] \subseteq listed
          /\ signIn'[only] = IF Cardinality(copied[only]) >= MaxAttempts THEN "none" ELSE "hashing"
      BY <2>1, <2>2, <2>6 DEF StoreList, Replace, LimitTypeOK
    <3>2. Cardinality(copied[only]) \in Nat /\ Cardinality(copied[only]) <= Cardinality(listed)
      BY <2>3, <3>1, RecentGrows
    <3> QED  BY <2>2, <2>3, <3>1, <3>2
  <2>7. CASE PasswordRight(only)
    BY <2>1, <2>3, <2>4, <2>7 DEF PasswordRight, Replace, LimitTypeOK
  <2>8. CASE NotCounted(only) \/ PasswordWrong(only)
    BY <2>1, <2>2, <2>8 DEF NotCounted, PasswordWrong, LimitTypeOK
  <2>9. CASE AppendFailure(only)
    <3>1. /\ signIn'[only] = "none" /\ signIn[only] = "failed"
          /\ listed' \in {listed, listed \cup {failures'}}
      BY <2>1, <2>9 DEF AppendFailure, LimitTypeOK
    <3>2. Cardinality(listed \cup {failures'}) \in {Cardinality(listed), Cardinality(listed) + 1}
      BY <2>3, FS_AddElement
    <3>3. Cardinality(listed') \in {Cardinality(listed), Cardinality(listed) + 1}
      BY <3>1, <3>2
    <3>4. Cardinality(listed) < MaxAttempts  BY <2>2, <3>1
    <3> QED  BY <2>3, <3>1, <3>3, <3>4
  <2>10. CASE LimitRestart
    BY <2>1, <2>3, <2>4, <2>10 DEF LimitRestart, Replace, LimitTypeOK
  <2>11. CASE WindowPasses \/ UNCHANGED limitVars
    BY <2>2, <2>11 DEF WindowPasses, limitVars
  <2> QED  BY <2>5, <2>6, <2>7, <2>8, <2>9, <2>10, <2>11 DEF LimitNext
<1>3. OneAtATime => LimitKept
  <2> SUFFICES ASSUME OneAtATime PROVE LimitKept  OBVIOUS
  <2>1. failures \in Nat /\ listed \subseteq 1..failures /\ MaxAttempts \in Nat
    BY LimitConstants DEF OneAtATime, LimitTypeOK
  <2>2. /\ Cardinality(Recent(listed)) <= Cardinality(listed)
        /\ Cardinality(Recent(listed)) \in Nat /\ Cardinality(listed) \in Nat
    <3>1. Recent(listed) \subseteq listed  BY DEF Recent
    <3> QED  BY <2>1, <3>1, RecentGrows
  <2> QED  BY <2>1, <2>2 DEF OneAtATime, LimitKept
<1> QED  BY <1>1, <1>2, <1>3, PTL DEF LimitSpec

-----------------------------------------------------------------------------
(* All three *)

(* The accounts, the handlers that create them, the cookies, the copies and  *)
(* the lists of failures under way have their types when all parts run       *)
(* (app.py:281-298, 317-480, 493-586).                                       *)
THEOREM AccessTypesCorrect == AccessSpec => []TypesOK
<1>1. AccessInit => Init /\ SessionsInit /\ LimitInit  BY DEF AccessInit
<1>2. [AccessNext]_<<vars, sessionVars, limitVars>> =>
        [Next]_vars /\ [SessionsNext]_sessionVars /\ [LimitNext]_limitVars
  BY DEF AccessNext
<1>3. AccessSpec => Spec /\ SessionsSpec /\ LimitSpec
  BY <1>1, <1>2, PTL DEF AccessSpec, Spec, SessionsSpec, LimitSpec
<1>4. TypeOK /\ SessionsTypeOK /\ LimitTypeOK => TypesOK  BY DEF TypesOK
<1> QED  BY <1>3, <1>4, TypeCorrect, SessionTypesCorrect, LimitTypesCorrect, PTL
=============================================================================
