--------------------- MODULE CompanyProvisioningProofs ---------------------
(* Proofs about CompanyProvisioning, for any number of workers, companies    *)
(* and databases, and for any way of naming databases after companies.      *)
EXTENDS CompanyProvisioning, TLAPS

\* A row of companies is there exactly if it names a database.
LEMMA RowFacts ==
  ASSUME TypeOK, NEW n \in Names
  PROVE  /\ Registered(n) <=> companies[n] \in Company
         /\ Registered(n) <=> companies[n].db \in Databases
         /\ ~Registered(n) <=> companies[n].db = None
BY ProvisioningConstants DEF TypeOK, Registered, Company, NoCompany

LEMMA CreationFacts ==
  ASSUME TypeOK, NEW w \in Workers, pc[w] \in Creating
  PROVE  /\ loc[w] \in Creation
         /\ loc[w].name \in Names /\ loc[w].admin \in Admins /\ loc[w].plan \in Plans
         /\ loc[w].try \in Tries
         /\ Tried(w) \in Databases /\ Base(w) \in Databases
         /\ loc[w].try = 1 => Tried(w) = Base(w)
<1>1. loc[w] \in Creation  BY DEF TypeOK
<1>2. loc[w].name \in Names /\ loc[w].admin \in Admins /\ loc[w].plan \in Plans
      /\ loc[w].try \in Tries
  BY <1>1 DEF Creation
<1>3. 1 \in Tries  BY ProvisioningConstants DEF Tries
<1> QED  BY <1>1, <1>2, <1>3, ProvisioningConstants DEF Tried, Base

LEMMA InitInvariant == Init => IInv
<1> SUFFICES ASSUME Init PROVE IInv  OBVIOUS
<1>1. \A n \in Names : ~Registered(n) /\ companies[n].db = None
  BY DEF Init, Registered, NoCompany
<1>2. \A d \in Databases : ~Taken(d)  BY <1>1, ProvisioningConstants DEF Taken
<1>3. databases[FirstDb] = [exists |-> TRUE, users |-> FirstUsers]
  BY ProvisioningConstants DEF Init
<1>4. TypeOK
  <2>1. companies \in [Names -> Company \cup {NoCompany}]  BY DEF Init
  <2>2. databases \in [Databases -> Database \cup {NoDatabase}]
    BY ProvisioningConstants DEF Init, Database
  <2> QED  BY <2>1, <2>2 DEF Init, TypeOK, Creating
<1>5. FirstCompanyFirst  BY <1>1, <1>3 DEF Init, FirstCompanyFirst
<1>6. HeldByOne  BY DEF Init, HeldByOne, Holds
<1>7. DatabasesDistinct  BY <1>1 DEF DatabasesDistinct
<1>8. SuffixIsForced /\ UpdatesARow  BY DEF Init, SuffixIsForced, UpdatesARow, Creating
<1>9. OwnDatabase  BY <1>1, <1>3 DEF OwnDatabase
<1> QED  BY <1>4, <1>5, <1>6, <1>7, <1>8, <1>9 DEF IInv

-----------------------------------------------------------------------------
\* Steps that write no table: only the worker's own control state and locals
\* change, and the worker holds a database after the step only if it held the
\* same one before.
LEMMA TablesKept ==
  ASSUME IInv, UNCHANGED <<companies, databases, founder>>, TypeOK',
         NEW w \in Workers,
         \A v \in Workers : v # w => pc'[v] = pc[v] /\ loc'[v] = loc[v],
         pc'[w] \notin {"create_admin", "register"},
         pc'[w] \notin {"idle", "first"} => Registered(FirstName),
         pc'[w] = "check_db" => loc'[w].try = 1,
         pc'[w] \in Creating /\ loc'[w].try # 1 => Taken(Candidate[loc'[w].name][1]),
         pc'[w] = "update" => Registered(loc'[w].name)
  PROVE  IInv'
<1>1. \A n \in Names : Registered(n)' <=> Registered(n)  BY DEF Registered
<1>2. \A d : Taken(d)' <=> Taken(d)  BY DEF Taken
<1>3. \A v \in Workers : v # w =>
        /\ Holds(v)' <=> Holds(v)
        /\ Tried(v)' = Tried(v) /\ Base(v)' = Base(v)
  BY DEF Holds, Tried, Base
<1>4. ~Holds(w)'  BY DEF Holds
<1>5. FirstCompanyFirst'
  BY <1>1, ProvisioningConstants DEF IInv, FirstCompanyFirst, Registered
<1>6. HeldByOne'
  BY <1>2, <1>3, <1>4 DEF IInv, HeldByOne
<1>7. DatabasesDistinct'  BY <1>1 DEF IInv, DatabasesDistinct
<1>8. SuffixIsForced'
  <2> SUFFICES ASSUME NEW v \in Workers
               PROVE  /\ pc'[v] = "check_db" => loc'[v].try = 1
                      /\ pc'[v] \in Creating /\ loc'[v].try # 1 => Taken(Base(v))'
    BY DEF SuffixIsForced
  <2>1. CASE v = w  BY <2>1, <1>2 DEF Base
  <2>2. CASE v # w  BY <2>2, <1>2, <1>3 DEF IInv, SuffixIsForced
  <2> QED  BY <2>1, <2>2
<1>9. UpdatesARow'  BY <1>1 DEF IInv, UpdatesARow, Registered
<1>10. OwnDatabase'  BY <1>1 DEF IInv, OwnDatabase
<1> QED  BY <1>5, <1>6, <1>7, <1>8, <1>9, <1>10 DEF IInv

\* Every statement keeps the types.
LEMMA TypeStep == ASSUME TypeOK, UpdatesARow, [Next]_vars PROVE TypeOK'
<1>1. CASE UNCHANGED vars  BY <1>1 DEF vars, TypeOK, Creation, Change
<1> SUFFICES ASSUME NEW w \in Workers,
               \/ CountCompanies(w) \/ InsertFirst(w)
               \/ CheckName(w) \/ CheckDatabase(w) \/ NextCandidate(w)
               \/ CreateDatabase(w) \/ CreateAdmin(w) \/ Register(w)
               \/ SelectCompany(w) \/ UpdateCompany(w) \/ Abort(w)
             PROVE  TypeOK'
  BY <1>1 DEF Next
<1> USE DEF Goto, Finish, Creating
<1>2. CASE CountCompanies(w)  BY <1>2 DEF CountCompanies, TypeOK
<1>3. CASE InsertFirst(w)
  <2>1. [db |-> FirstDb, plan |-> FirstPlan, is_active |-> TRUE, expires_at |-> None] \in Company
    BY ProvisioningConstants DEF Company
  <2> QED  BY <1>3, <2>1, ProvisioningConstants DEF InsertFirst, TypeOK
<1>4. CASE CheckName(w)  BY <1>4 DEF CheckName, TypeOK
<1>5. CASE CheckDatabase(w)  BY <1>5 DEF CheckDatabase, TypeOK
<1>6. CASE NextCandidate(w)
  <2> DEFINE next == [name |-> loc[w].name, admin |-> loc[w].admin,
                      plan |-> loc[w].plan, try |-> loc[w].try + 1]
  <2>1. CASE Taken(Tried(w)) /\ loc[w].try < MaxTries /\ pc' = pc
    <3>1. next \in Creation
      BY <1>6, <2>1, CreationFacts, ProvisioningConstants DEF NextCandidate, Creation, Tries
    <3>2. loc' = [loc EXCEPT ![w] = next]
      BY <1>6, <2>1 DEF NextCandidate
    <3> QED  BY <1>6, <2>1, <3>1, <3>2 DEF NextCandidate, TypeOK
  <2>2. CASE ~Taken(Tried(w)) /\ loc' = loc  BY <1>6, <2>2 DEF NextCandidate, TypeOK
  <2> QED  BY <1>6, <2>1, <2>2 DEF NextCandidate
<1>7. CASE CreateDatabase(w)
  <2>1. pc[w] \in Creating  BY <1>7 DEF CreateDatabase
  <2>2. [name |-> loc[w].name, admin |-> loc[w].admin] \in Founder
    BY <2>1, CreationFacts DEF Founder
  <2>3. founder' \in [Databases -> Founder \cup {NoFounder}]
    BY <1>7, <2>2 DEF CreateDatabase, TypeOK
  <2>4. databases' \in [Databases -> Database \cup {NoDatabase}]
    BY <1>7 DEF CreateDatabase, TypeOK, Database
  <2> QED  BY <1>7, <2>3, <2>4 DEF CreateDatabase, TypeOK
<1>8. CASE CreateAdmin(w)
  <2>1. pc[w] \in Creating  BY <1>8 DEF CreateAdmin
  <2> DEFINE us == databases[Tried(w)].users \cup {loc[w].admin}
  <2>2. databases[Tried(w)].users \subseteq Admins
    <3>1. databases[Tried(w)] \in Database \cup {NoDatabase}
      BY <2>1, CreationFacts DEF TypeOK
    <3>2. \A d \in Database : d.users \subseteq Admins  BY DEF Database
    <3>3. NoDatabase.users = {}  BY DEF NoDatabase
    <3> QED  BY <3>1, <3>2, <3>3
  <2>3. [exists |-> TRUE, users |-> us] \in Database
    BY <2>1, <2>2, CreationFacts DEF Database
  <2>4. databases' \in [Databases -> Database \cup {NoDatabase}]
    BY <1>8, <2>3 DEF CreateAdmin, TypeOK
  <2> QED  BY <1>8, <2>4 DEF CreateAdmin, TypeOK
<1>9. CASE Register(w)
  <2>1. pc[w] \in Creating  BY <1>9 DEF Register
  <2>2. [db |-> Tried(w), plan |-> loc[w].plan, is_active |-> TRUE, expires_at |-> None] \in Company
    BY <2>1, CreationFacts DEF Company
  <2> QED  BY <1>9, <2>2 DEF Register, TypeOK
<1>10. CASE SelectCompany(w)
  <2>1. PICK f \in Change :
          /\ Registered(f.name)
          /\ loc' = [loc EXCEPT ![w] =
               [name |-> f.name, plan |-> f.plan, is_active |-> f.is_active,
                expires_at |-> IF f.expires_at = None THEN companies[f.name].expires_at
                                                      ELSE f.expires_at]]
    BY <1>10 DEF SelectCompany
  <2>2. f.name \in Names /\ f.plan \in Plans /\ f.is_active \in BOOLEAN
        /\ f.expires_at \in Dates \cup {None}
    BY DEF Change
  <2>3. companies[f.name].expires_at \in Dates \cup {None}
    BY <2>1, <2>2, RowFacts DEF Company
  <2>4. loc'[w] \in Change
    BY <2>1, <2>2, <2>3 DEF Change, TypeOK
  <2> QED  BY <1>10, <2>1, <2>4 DEF SelectCompany, TypeOK
<1>11. CASE UpdateCompany(w)
  <2> DEFINE n == loc[w].name
  <2>1. loc[w] \in Change /\ n \in Names  BY <1>11 DEF UpdateCompany, TypeOK, Change
  <2>2. companies[n] \in Company
    BY <1>11, <2>1, RowFacts DEF UpdateCompany, UpdatesARow
  <2>3. [db |-> companies[n].db, plan |-> loc[w].plan, is_active |-> loc[w].is_active,
         expires_at |-> loc[w].expires_at] \in Company
    BY <2>1, <2>2 DEF Company, Change
  <2> QED  BY <1>11, <2>1, <2>3 DEF UpdateCompany, TypeOK
<1>12. CASE Abort(w)  BY <1>12 DEF Abort, TypeOK
<1> QED  BY <1>2, <1>3, <1>4, <1>5, <1>6, <1>7, <1>8, <1>9, <1>10, <1>11, <1>12

-----------------------------------------------------------------------------
\* One lemma for every statement that writes a table.
LEMMA InsertFirstStep ==
  ASSUME IInv, TypeOK', NEW w \in Workers, InsertFirst(w), ~Registered(FirstName)
  PROVE  IInv' /\ Registry!RegisterFirst
<1> USE DEF Goto
<1> DEFINE db(n) == companies[n].db
<1>1. \A n \in Names : ~Registered(n) /\ db(n) = None
  BY RowFacts DEF IInv, FirstCompanyFirst
<1>2. /\ companies'[FirstName].db = FirstDb
      /\ \A n \in Names : n # FirstName => companies'[n] = companies[n]
      /\ pc' = [pc EXCEPT ![w] = "page"]
      /\ UNCHANGED <<databases, loc, founder>>
  <2>1. ~Taken(FirstDb)  BY <1>1, ProvisioningConstants DEF Taken
  <2>2. companies' = [companies EXCEPT ![FirstName] =
          [db |-> FirstDb, plan |-> FirstPlan, is_active |-> TRUE, expires_at |-> None]]
    BY <2>1 DEF InsertFirst
  <2> QED  BY <2>1, <2>2, ProvisioningConstants DEF InsertFirst, IInv, TypeOK
<1>3. Registered(FirstName)' /\ \A n \in Names : Registered(n)' => n = FirstName
  BY <1>2, <1>1, ProvisioningConstants DEF Registered, NoCompany
<1>4. \A d \in Databases : Taken(d)' => d = FirstDb
  BY <1>2, <1>1, ProvisioningConstants DEF Taken
<1>5. \A v \in Workers : Holds(v)' => Holds(v) /\ Tried(v)' = Tried(v)
  BY <1>2 DEF Holds, Tried, TypeOK, IInv
<1>6. FirstCompanyFirst'  BY <1>2, <1>3 DEF IInv, FirstCompanyFirst
<1>7. HeldByOne'
  <2>1. \A v \in Workers : Holds(v) => Tried(v) \in Databases
    BY CreationFacts DEF IInv, Holds, Creating
  <2>2. \A v \in Workers : Holds(v)' => ~Taken(Tried(v))'
    BY <1>2, <1>4, <1>5, <2>1 DEF IInv, HeldByOne, Taken
  <2>3. \A v \in Workers : Holds(v)' => pc'[v] = pc[v]
    BY <1>2 DEF Holds, IInv, TypeOK
  <2> QED  BY <1>2, <1>5, <2>2, <2>3 DEF IInv, HeldByOne
<1>8. DatabasesDistinct'
  BY <1>2, <1>1, <1>3, ProvisioningConstants DEF IInv, DatabasesDistinct, FirstCompanyFirst
<1>9. SuffixIsForced'
  <2>1. \A v \in Workers : pc[v] \notin Creating \/ loc[v].try = 1
    BY <1>1, CreationFacts, ProvisioningConstants DEF IInv, SuffixIsForced, Taken
  <2> QED  BY <1>2, <2>1 DEF IInv, SuffixIsForced, Creating, TypeOK
<1>10. UpdatesARow'
  BY <1>2, <1>1 DEF IInv, UpdatesARow, TypeOK, Change
<1>11. OwnDatabase'  BY <1>2, <1>3 DEF IInv, OwnDatabase
<1>12. Registry!RegisterFirst
  <2>1. \A n \in Names : View[n] = Registry!Unregistered
    BY <1>1 DEF View, Registry!Unregistered
  <2>2. View' = [n \in Names |-> IF n = FirstName THEN [db |-> FirstDb, users |-> FirstUsers]
                                 ELSE View[n]]
    <3>1. View'[FirstName] = [db |-> FirstDb, users |-> FirstUsers]
      BY <1>2, <1>3, <1>11, ProvisioningConstants DEF View, OwnDatabase
    <3>2. \A n \in Names : n # FirstName => View'[n] = View[n]
      BY <1>2, <1>1, <1>3 DEF View
    <3> QED  BY <3>1, <3>2 DEF View
  <2> QED  BY <2>1, <2>2 DEF Registry!RegisterFirst, Registry!IsRegistered, View
<1> QED  BY <1>6, <1>7, <1>8, <1>9, <1>10, <1>11, <1>12 DEF IInv

\* A created database was nobody's: not a company's, not another handler's.
LEMMA CreateDatabaseStep ==
  ASSUME IInv, TypeOK', NEW w \in Workers, CreateDatabase(w)
  PROVE  IInv' /\ UNCHANGED View
<1> USE DEF Goto
<1> DEFINE d == Tried(w)
<1>1. d \in Databases /\ loc[w].name \in Names
  BY CreationFacts DEF IInv, CreateDatabase, Creating
<1>2. /\ ~databases[d].exists
      /\ databases'[d] = [exists |-> TRUE, users |-> {}]
      /\ founder'[d] = [name |-> loc[w].name, admin |-> loc[w].admin]
      /\ \A e \in Databases : e # d => databases'[e] = databases[e] /\ founder'[e] = founder[e]
      /\ pc[w] = "create_db" /\ pc'[w] = "create_admin"
      /\ \A v \in Workers : v # w => pc'[v] = pc[v]
      /\ UNCHANGED <<companies, loc>>
  BY <1>1 DEF CreateDatabase, IInv, TypeOK
<1> HIDE DEF d
<1>3. /\ \A n \in Names : Registered(n)' <=> Registered(n)
      /\ \A e : Taken(e)' <=> Taken(e)
      /\ \A v \in Workers : Tried(v)' = Tried(v) /\ Base(v)' = Base(v)
  BY <1>2 DEF Registered, Taken, Tried, Base
<1>4. \A n \in Names : Registered(n) => companies[n].db \in Databases /\ companies[n].db # d
  BY <1>2, RowFacts DEF IInv, DatabasesDistinct
<1>5. d # FirstDb /\ ~Taken(d)
  BY <1>1, <1>2, <1>4, RowFacts, ProvisioningConstants DEF IInv, FirstCompanyFirst, Taken
<1>6. \A v \in Workers : Holds(v) => Tried(v) \in Databases /\ Tried(v) # d
  BY <1>2, CreationFacts DEF IInv, HeldByOne, Holds, Creating
<1>7. \A v \in Workers : v # w => (Holds(v)' <=> Holds(v))  BY <1>2 DEF Holds
<1>8. FirstCompanyFirst'
  BY <1>2, <1>3, <1>5, ProvisioningConstants DEF IInv, FirstCompanyFirst
<1>9. HeldByOne'
  <2>1. Tried(w) = d  BY DEF d
  <2>2. ASSUME NEW v \in Workers, Holds(v)'
        PROVE  /\ Tried(v)' # FirstDb /\ ~Taken(Tried(v))' /\ databases'[Tried(v)'].exists
               /\ founder'[Tried(v)'] = [name |-> loc'[v].name, admin |-> loc'[v].admin]
               /\ databases'[Tried(v)'].users =
                    IF pc'[v] = "register" THEN {loc'[v].admin} ELSE {}
    <3>1. CASE v = w  BY <3>1, <2>1, <1>2, <1>3, <1>5
    <3>2. CASE v # w
      BY <3>2, <2>2, <1>2, <1>3, <1>6, <1>7 DEF IInv, HeldByOne, Taken
    <3> QED  BY <3>1, <3>2
  <2>3. \A u, v \in Workers : u # v /\ Holds(u)' /\ Holds(v)' => Tried(u)' # Tried(v)'
    BY <2>1, <1>3, <1>6, <1>7 DEF IInv, HeldByOne
  <2> QED  BY <2>2, <2>3 DEF HeldByOne
<1>10. DatabasesDistinct'  BY <1>2, <1>3, <1>4 DEF IInv, DatabasesDistinct
<1>11. SuffixIsForced'
  <2> SUFFICES ASSUME NEW v \in Workers
               PROVE  /\ pc'[v] = "check_db" => loc'[v].try = 1
                      /\ pc'[v] \in Creating /\ loc'[v].try # 1 => Taken(Base(v))'
    BY DEF SuffixIsForced
  <2>1. /\ pc'[v] \in Creating => pc[v] \in Creating
        /\ pc'[v] = "check_db" => pc[v] = "check_db"
    BY <1>2 DEF Creating
  <2>2. Taken(Base(v))' <=> Taken(Base(v))  BY <1>2, <1>3 DEF Taken
  <2> QED  BY <2>1, <2>2, <1>2 DEF IInv, SuffixIsForced
<1>12. UpdatesARow'  BY <1>2 DEF IInv, UpdatesARow, Registered
<1>13. OwnDatabase'
  BY <1>2, <1>3, <1>4, <1>5, ProvisioningConstants DEF IInv, OwnDatabase
<1>14. UNCHANGED View
  BY <1>2, <1>3, <1>4 DEF View
<1> QED  BY <1>8, <1>9, <1>10, <1>11, <1>12, <1>13, <1>14 DEF IInv

LEMMA CreateAdminStep ==
  ASSUME IInv, TypeOK', NEW w \in Workers, CreateAdmin(w)
  PROVE  IInv' /\ UNCHANGED View
<1> USE DEF Goto
<1> DEFINE d == Tried(w)
<1>1. d \in Databases /\ Holds(w)
  BY CreationFacts DEF IInv, CreateAdmin, Creating, Holds
<1>2. /\ databases[d].users = {} /\ d # FirstDb /\ ~Taken(d)
      /\ founder[d] = [name |-> loc[w].name, admin |-> loc[w].admin]
  BY <1>1 DEF IInv, HeldByOne, CreateAdmin
<1>3. /\ databases'[d] = [exists |-> TRUE, users |-> {loc[w].admin}]
      /\ \A e \in Databases : e # d => databases'[e] = databases[e]
      /\ pc[w] = "create_admin" /\ pc'[w] = "register"
      /\ \A v \in Workers : v # w => pc'[v] = pc[v]
      /\ UNCHANGED <<companies, loc, founder>>
  BY <1>1, <1>2 DEF CreateAdmin, IInv, TypeOK
<1> HIDE DEF d
<1>4. /\ \A n \in Names : Registered(n)' <=> Registered(n)
      /\ \A e : Taken(e)' <=> Taken(e)
      /\ \A v \in Workers : /\ Tried(v)' = Tried(v) /\ Base(v)' = Base(v)
                            /\ Holds(v)' <=> Holds(v)
  BY <1>3 DEF Registered, Taken, Tried, Base, Holds
<1>5. \A n \in Names : Registered(n) => companies[n].db \in Databases /\ companies[n].db # d
  BY <1>2, RowFacts DEF IInv, Taken
<1>6. \A v \in Workers : Holds(v) => Tried(v) \in Databases
  BY CreationFacts DEF IInv, Holds, Creating
<1>7. Tried(w) = d  BY DEF d
<1>8. \A v \in Workers : v # w /\ Holds(v) => Tried(v) # d
  BY <1>1, <1>7 DEF IInv, HeldByOne
<1>9. FirstCompanyFirst'
  BY <1>2, <1>3, <1>4, ProvisioningConstants DEF IInv, FirstCompanyFirst
<1>10. HeldByOne'
  <2>1. ASSUME NEW v \in Workers, Holds(v)'
        PROVE  /\ Tried(v)' # FirstDb /\ ~Taken(Tried(v))' /\ databases'[Tried(v)'].exists
               /\ founder'[Tried(v)'] = [name |-> loc'[v].name, admin |-> loc'[v].admin]
               /\ databases'[Tried(v)'].users =
                    IF pc'[v] = "register" THEN {loc'[v].admin} ELSE {}
    <3>1. CASE v = w  BY <3>1, <1>2, <1>3, <1>4, <1>7 DEF Taken
    <3>2. CASE v # w  BY <3>2, <2>1, <1>3, <1>4, <1>6, <1>8 DEF IInv, HeldByOne, Taken
    <3> QED  BY <3>1, <3>2
  <2>2. \A u, v \in Workers : u # v /\ Holds(u)' /\ Holds(v)' => Tried(u)' # Tried(v)'
    BY <1>4 DEF IInv, HeldByOne
  <2> QED  BY <2>1, <2>2 DEF HeldByOne
<1>11. DatabasesDistinct'  BY <1>3, <1>4, <1>5 DEF IInv, DatabasesDistinct
<1>12. SuffixIsForced'
  <2> SUFFICES ASSUME NEW v \in Workers
               PROVE  /\ pc'[v] = "check_db" => loc'[v].try = 1
                      /\ pc'[v] \in Creating /\ loc'[v].try # 1 => Taken(Base(v))'
    BY DEF SuffixIsForced
  <2>1. /\ pc'[v] \in Creating => pc[v] \in Creating
        /\ pc'[v] = "check_db" => pc[v] = "check_db"
    BY <1>3 DEF Creating
  <2>2. Taken(Base(v))' <=> Taken(Base(v))  BY <1>3, <1>4 DEF Taken
  <2> QED  BY <2>1, <2>2, <1>3 DEF IInv, SuffixIsForced
<1>13. UpdatesARow'  BY <1>3 DEF IInv, UpdatesARow, Registered
<1>14. OwnDatabase'
  BY <1>2, <1>3, <1>4, <1>5, ProvisioningConstants DEF IInv, OwnDatabase
<1>15. UNCHANGED View  BY <1>3, <1>4, <1>5 DEF View
<1> QED  BY <1>9, <1>10, <1>11, <1>12, <1>13, <1>14, <1>15 DEF IInv

\* The database of the new company leaves its handler's hands.
LEMMA RegisterStep ==
  ASSUME IInv, TypeOK', NEW w \in Workers, Register(w)
  PROVE  IInv' /\ \E n \in Names, d \in Databases, a \in Admins : Registry!Register(n, d, a)
<1> USE DEF Goto, Finish
<1> DEFINE d == Tried(w)
           m == loc[w].name
           a == loc[w].admin
<1>1. d \in Databases /\ m \in Names /\ a \in Admins /\ Holds(w) /\ pc[w] = "register"
  BY CreationFacts DEF IInv, Register, Creating, Holds
<1>2. /\ databases[d].exists /\ databases[d].users = {a} /\ d # FirstDb /\ ~Taken(d)
      /\ founder[d] = [name |-> m, admin |-> a]
  BY <1>1 DEF IInv, HeldByOne
<1>3. ~Registered(m) /\ Registered(FirstName) /\ m # FirstName
  BY <1>1 DEF IInv, FirstCompanyFirst, Register
<1>4. /\ companies'[m].db = d /\ companies'[m] \in Company
      /\ \A n \in Names : n # m => companies'[n] = companies[n]
      /\ pc'[w] = "idle"
      /\ \A v \in Workers : v # w => pc'[v] = pc[v] /\ loc'[v] = loc[v]
      /\ UNCHANGED <<databases, founder>>
  <2>1. [db |-> d, plan |-> loc[w].plan, is_active |-> TRUE, expires_at |-> None] \in Company
    BY <1>1, CreationFacts DEF Company, IInv, Creating
  <2> QED  BY <1>1, <2>1 DEF Register, IInv, TypeOK
<1> HIDE DEF d, m, a
<1>5. \A n \in Names : Registered(n)' <=> (Registered(n) \/ n = m)
  BY <1>4, RowFacts, ProvisioningConstants DEF Registered, IInv, TypeOK, Company, NoCompany
<1>6. \A e \in Databases : Taken(e)' <=> (Taken(e) \/ e = d)
  <2>1. companies[m].db \notin Databases  BY <1>1, <1>3, RowFacts DEF IInv
  <2> QED  BY <2>1, <1>1, <1>4 DEF Taken
<1>7. \A n \in Names : Registered(n) => companies[n].db \in Databases /\ companies[n].db # d
  BY <1>2, RowFacts DEF IInv, Taken
<1>8. \A v \in Workers : v # w => /\ Holds(v)' <=> Holds(v)
                                 /\ Tried(v)' = Tried(v) /\ Base(v)' = Base(v)
  BY <1>4 DEF Holds, Tried, Base
<1>9. ~Holds(w)'  BY <1>4 DEF Holds
<1>10. \A v \in Workers : v # w /\ Holds(v) => Tried(v) \in Databases /\ Tried(v) # d
  BY <1>1, CreationFacts DEF IInv, HeldByOne, Holds, Creating, d
<1>11. FirstCompanyFirst'
  BY <1>3, <1>4, <1>5, ProvisioningConstants DEF IInv, FirstCompanyFirst
<1>12. HeldByOne'
  <2>1. ASSUME NEW v \in Workers, Holds(v)'
        PROVE  /\ Tried(v)' # FirstDb /\ ~Taken(Tried(v))' /\ databases'[Tried(v)'].exists
               /\ founder'[Tried(v)'] = [name |-> loc'[v].name, admin |-> loc'[v].admin]
               /\ databases'[Tried(v)'].users =
                    IF pc'[v] = "register" THEN {loc'[v].admin} ELSE {}
    <3>1. v # w /\ Holds(v)  BY <2>1, <1>8, <1>9
    <3>2. ~Taken(Tried(v)) /\ Tried(v) # d /\ Tried(v) \in Databases /\ Tried(v)' = Tried(v)
      BY <3>1, <1>8, <1>10 DEF IInv, HeldByOne
    <3>3. ~Taken(Tried(v))'
      <4>1. \A n \in Names : companies'[n].db # Tried(v)  BY <3>2, <1>4 DEF Taken
      <4> QED  BY <3>2, <4>1 DEF Taken
    <3> QED  BY <3>1, <3>3, <1>4, <1>8 DEF IInv, HeldByOne
  <2>2. \A u, v \in Workers : u # v /\ Holds(u)' /\ Holds(v)' => Tried(u)' # Tried(v)'
    BY <1>8, <1>9 DEF IInv, HeldByOne
  <2> QED  BY <2>1, <2>2 DEF HeldByOne
<1>13. DatabasesDistinct'
  <2>1. \A n \in Names : Registered(n)' => databases'[companies'[n].db].exists
    BY <1>2, <1>4, <1>5 DEF IInv, DatabasesDistinct
  <2>2. ASSUME NEW n1 \in Names, NEW n2 \in Names, n1 # n2, Registered(n1)'
        PROVE  companies'[n1].db # companies'[n2].db
    <3>1. CASE n1 = m
      <4>1. companies'[n2] = companies[n2] /\ companies'[n1].db = d  BY <3>1, <2>2, <1>4
      <4> QED  BY <4>1, <1>2 DEF Taken
    <3>2. CASE n2 = m  BY <3>2, <2>2, <1>4, <1>5, <1>7
    <3>3. CASE n1 # m /\ n2 # m  BY <3>3, <2>2, <1>4, <1>5 DEF IInv, DatabasesDistinct
    <3> QED  BY <3>1, <3>2, <3>3
  <2> QED  BY <2>1, <2>2 DEF DatabasesDistinct
<1>14. SuffixIsForced'
  <2> SUFFICES ASSUME NEW v \in Workers
               PROVE  /\ pc'[v] = "check_db" => loc'[v].try = 1
                      /\ pc'[v] \in Creating /\ loc'[v].try # 1 => Taken(Base(v))'
    BY DEF SuffixIsForced
  <2>1. CASE v = w  BY <2>1, <1>4 DEF Creating
  <2>2. CASE v # w
    <3>1. pc[v] \in Creating => Base(v) \in Databases  BY CreationFacts DEF IInv
    <3> QED  BY <2>2, <3>1, <1>4, <1>6, <1>8 DEF IInv, SuffixIsForced, Taken
  <2> QED  BY <2>1, <2>2
<1>15. UpdatesARow'
  <2> SUFFICES ASSUME NEW v \in Workers, pc'[v] = "update" PROVE Registered(loc[v].name)'
    BY DEF UpdatesARow
  <2>1. v # w /\ pc[v] = "update" /\ loc'[v] = loc[v]  BY <1>4
  <2>2. loc[v].name \in Names  BY <2>1 DEF IInv, TypeOK, Change
  <2> QED  BY <2>1, <2>2, <1>5 DEF IInv, UpdatesARow, Registered
<1>16. OwnDatabase'
  BY <1>2, <1>3, <1>4, <1>5 DEF IInv, OwnDatabase
<1>17. Registry!Register(m, d, a)
  <2>1. \A n \in Names : n # m => View'[n] = View[n]
    BY <1>4, <1>5 DEF View
  <2>2. View'[m] = [db |-> d, users |-> {a}]  BY <1>1, <1>2, <1>4, <1>5 DEF View
  <2>3. View' = [View EXCEPT ![m] = [db |-> d, users |-> {a}]]
    BY <2>1, <2>2, <1>1 DEF View
  <2>4. View[m] = Registry!Unregistered
    BY <1>1, <1>3, RowFacts DEF View, Registry!Unregistered, IInv
  <2>5. View[FirstName] # Registry!Unregistered
    <3>1. View[FirstName].db \in Databases
      BY <1>3, RowFacts, ProvisioningConstants DEF View, IInv
    <3> QED  BY <3>1, ProvisioningConstants DEF Registry!Unregistered
  <2>6. \A o \in Names : View[o].db # d  BY <1>2 DEF View, Taken
  <2> QED  BY <2>3, <2>4, <2>5, <2>6 DEF Registry!Register, Registry!IsRegistered
<1> QED  BY <1>1, <1>11, <1>12, <1>13, <1>14, <1>15, <1>16, <1>17 DEF IInv

\* A change of plan, state or expiry date leaves name and database alone.
LEMMA UpdateStep ==
  ASSUME IInv, TypeOK', NEW w \in Workers, UpdateCompany(w)
  PROVE  IInv' /\ UNCHANGED View
<1> USE DEF Goto, Finish
<1>1. PICK m \in Names : m = loc[w].name /\ Registered(m)
  BY DEF UpdateCompany, IInv, TypeOK, Change, UpdatesARow
<1>2. /\ companies'[m].db = companies[m].db
      /\ \A n \in Names : n # m => companies'[n] = companies[n]
      /\ pc'[w] = "idle"
      /\ \A v \in Workers : v # w => pc'[v] = pc[v] /\ loc'[v] = loc[v]
      /\ UNCHANGED <<databases, founder>>
  BY <1>1 DEF UpdateCompany, IInv, TypeOK
<1>3. \A n \in Names : companies'[n].db = companies[n].db  BY <1>2
<1>4. \A n \in Names : Registered(n)' <=> Registered(n)
  <2>1. Registered(m)'
    <3>1. companies'[m].db # None  BY <1>1, <1>3, RowFacts, ProvisioningConstants DEF IInv
    <3> QED  BY <3>1 DEF Registered, NoCompany
  <2> QED  BY <2>1, <1>1, <1>2 DEF Registered
<1>5. \A e : Taken(e)' <=> Taken(e)  BY <1>3 DEF Taken
<1>6. \A v \in Workers : v # w => /\ Holds(v)' <=> Holds(v)
                                 /\ Tried(v)' = Tried(v) /\ Base(v)' = Base(v)
  BY <1>2 DEF Holds, Tried, Base
<1>7. ~Holds(w)'  BY <1>2 DEF Holds
<1>8. FirstCompanyFirst'
  BY <1>2, <1>4, ProvisioningConstants DEF IInv, FirstCompanyFirst
<1>9. HeldByOne'
  BY <1>2, <1>5, <1>6, <1>7 DEF IInv, HeldByOne
<1>10. DatabasesDistinct'  BY <1>2, <1>3, <1>4 DEF IInv, DatabasesDistinct
<1>11. SuffixIsForced'
  <2> SUFFICES ASSUME NEW v \in Workers
               PROVE  /\ pc'[v] = "check_db" => loc'[v].try = 1
                      /\ pc'[v] \in Creating /\ loc'[v].try # 1 => Taken(Base(v))'
    BY DEF SuffixIsForced
  <2>1. CASE v = w  BY <2>1, <1>2 DEF Creating
  <2>2. CASE v # w  BY <2>2, <1>2, <1>3, <1>6 DEF IInv, SuffixIsForced, Taken
  <2> QED  BY <2>1, <2>2
<1>12. UpdatesARow'
  <2> SUFFICES ASSUME NEW v \in Workers, pc'[v] = "update" PROVE Registered(loc[v].name)'
    BY DEF UpdatesARow
  <2>1. v # w /\ pc[v] = "update" /\ loc'[v] = loc[v]  BY <1>2
  <2>2. loc[v].name \in Names  BY <2>1 DEF IInv, TypeOK, Change
  <2> QED  BY <2>1, <2>2, <1>4 DEF IInv, UpdatesARow, Registered
<1>13. OwnDatabase'  BY <1>2, <1>3, <1>4 DEF IInv, OwnDatabase
<1>14. UNCHANGED View  BY <1>2, <1>3, <1>4 DEF View
<1> QED  BY <1>8, <1>9, <1>10, <1>11, <1>12, <1>13, <1>14 DEF IInv

-----------------------------------------------------------------------------
\* Every step keeps the invariant and is a step of the registry or a stutter.
LEMMA Step ==
  ASSUME IInv, [Next]_vars PROVE IInv' /\ [Registry!Next]_View
<1>1. TypeOK'  BY TypeStep DEF IInv
<1>2. CASE UNCHANGED vars
  <2>1. IInv'
    BY <1>2 DEF vars, IInv, TypeOK, Creation, Change, FirstCompanyFirst, HeldByOne, Holds, Tried,
                Taken, Registered, DatabasesDistinct, SuffixIsForced, Base, UpdatesARow, OwnDatabase
  <2> QED  BY <2>1, <1>2 DEF vars, View, Registered
<1> SUFFICES ASSUME NEW w \in Workers,
               \/ CountCompanies(w) \/ InsertFirst(w)
               \/ CheckName(w) \/ CheckDatabase(w) \/ NextCandidate(w)
               \/ CreateDatabase(w) \/ CreateAdmin(w) \/ Register(w)
               \/ SelectCompany(w) \/ UpdateCompany(w) \/ Abort(w)
             PROVE  IInv' /\ [Registry!Next]_View
  BY <1>2 DEF Next
<1> USE DEF Goto, Finish
<1>3. UNCHANGED <<companies, databases>> => UNCHANGED View  BY DEF View, Registered
<1>4. CASE CountCompanies(w)
  <2>1. (\E n \in Names : Registered(n)) => Registered(FirstName)
    BY DEF IInv, FirstCompanyFirst
  <2> QED  BY <1>1, <1>3, <1>4, <2>1, TablesKept DEF CountCompanies, Creating, IInv, TypeOK
<1>5. CASE InsertFirst(w) /\ ~Registered(FirstName)
  BY <1>1, <1>5, InsertFirstStep DEF Registry!Next
<1>6. CASE InsertFirst(w) /\ Registered(FirstName)
  BY <1>1, <1>3, <1>6, TablesKept DEF InsertFirst, Creating, IInv, TypeOK
<1>7. CASE CheckName(w)
  <2>1. pc[w] = "page" /\ Registered(FirstName)
    BY <1>7 DEF CheckName, IInv, FirstCompanyFirst
  <2> QED  BY <1>1, <1>3, <1>7, <2>1, TablesKept DEF CheckName, Creating, IInv, TypeOK
<1>8. CASE CheckDatabase(w)
  <2>1. Registered(FirstName) /\ loc[w].try = 1
    BY <1>8 DEF CheckDatabase, IInv, FirstCompanyFirst, SuffixIsForced
  <2> QED  BY <1>1, <1>3, <1>8, <2>1, TablesKept DEF CheckDatabase, Creating, IInv, TypeOK
<1>9. CASE NextCandidate(w)
  <2>1. Registered(FirstName) /\ pc[w] \in Creating /\ (loc[w].try # 1 => Taken(Base(w)))
    BY <1>9 DEF NextCandidate, IInv, FirstCompanyFirst, SuffixIsForced, Creating
  <2>2. loc[w].try = 1 => Tried(w) = Base(w)  BY <2>1, CreationFacts DEF IInv
  <2>3. CASE ~Taken(Tried(w)) /\ Goto(w, "create_db") /\ UNCHANGED loc
    BY <1>1, <1>3, <1>9, <2>1, <2>3, TablesKept DEF NextCandidate, IInv, TypeOK, Base
  <2>4. CASE Taken(Tried(w)) /\ UNCHANGED pc /\
             loc' = [loc EXCEPT ![w] =
               [name |-> @.name, admin |-> @.admin, plan |-> @.plan, try |-> @.try + 1]]
    <3>1. Taken(Base(w)) /\ pc[w] = "candidate" /\ loc'[w].name = loc[w].name
          /\ \A v \in Workers : v # w => loc'[v] = loc[v]
      BY <1>9, <2>1, <2>2, <2>4 DEF NextCandidate, IInv, TypeOK
    <3>2. Taken(Candidate[loc'[w].name][1])  BY <3>1 DEF Base
    <3> QED  BY <1>1, <1>3, <1>9, <2>1, <2>4, <3>1, <3>2, TablesKept DEF NextCandidate
  <2> QED  BY <1>9, <2>3, <2>4 DEF NextCandidate
<1>10. CASE CreateDatabase(w)  BY <1>1, <1>10, CreateDatabaseStep
<1>11. CASE CreateAdmin(w)  BY <1>1, <1>11, CreateAdminStep
<1>12. CASE Register(w)  BY <1>1, <1>12, RegisterStep DEF Registry!Next
<1>13. CASE SelectCompany(w)
  <2>1. pc[w] = "page" /\ Registered(FirstName)
    BY <1>13 DEF SelectCompany, IInv, FirstCompanyFirst
  <2>2. Registered(loc'[w].name)
    BY <1>13 DEF SelectCompany, IInv, TypeOK, Registered
  <2>3. pc'[w] = "update" /\ \A v \in Workers : v # w => pc'[v] = pc[v] /\ loc'[v] = loc[v]
    BY <1>13 DEF SelectCompany, IInv, TypeOK
  <2> QED
    BY <1>1, <1>3, <1>13, <2>1, <2>2, <2>3, TablesKept DEF SelectCompany, Creating
<1>14. CASE UpdateCompany(w)  BY <1>1, <1>14, UpdateStep
<1>15. CASE Abort(w)
  BY <1>1, <1>3, <1>15, TablesKept DEF Abort, Creating, IInv, TypeOK
<1> QED  BY <1>4, <1>5, <1>6, <1>7, <1>8, <1>9, <1>10, <1>11, <1>12, <1>13, <1>14, <1>15

LEMMA Invariance == Spec => []IInv
<1>1. IInv /\ [Next]_vars => IInv'  BY Step
<1> QED  BY InitInvariant, <1>1, PTL DEF Spec

\* Type correctness of the tables and of every handler's locals
\* (tenant.py:29-95, 173-251).
THEOREM TypeCorrect == Spec => []TypeOK
<1>1. IInv => TypeOK  BY DEF IInv
<1> QED  BY Invariance, <1>1, PTL

\* A registered company's database was created for it and holds its own
\* administrator only, whatever other handlers and failed creations did
\* (tenant.py:190-224).
THEOREM DatabaseOwnership == Spec => []OwnDatabase
<1>1. IInv => OwnDatabase  BY DEF IInv
<1> QED  BY Invariance, <1>1, PTL

\* The statements of tenant.py implement the registry, in which a company
\* appears in one step with a database of its own.
THEOREM Refinement == Spec => RegistrySpec
<1>1. Init => Registry!Init
  <2> SUFFICES ASSUME Init PROVE Registry!Init  OBVIOUS
  <2>1. \A n \in Names : companies[n] = NoCompany  BY DEF Init
  <2>2. \A n \in Names : View[n] = Registry!Unregistered
    BY <2>1 DEF Registry!Unregistered, View, Registered, NoCompany
  <2> QED  BY <2>2 DEF Registry!Init, View
<1>2. IInv /\ [Next]_vars => [Registry!Next]_View  BY Step
<1> QED  BY Invariance, <1>1, <1>2, PTL DEF Spec, RegistrySpec, Registry!Spec

\* What a failed creation leaves stays, and keeps the name from ever being
\* registered (tenant.py:190-200).
THEOREM FailedCreationsStay == Spec => StrandedForEver
<1>1. ASSUME IInv, [Next]_vars, NEW n \in Names, Stranded(n) PROVE Stranded(n)'
  <2> DEFINE d == Candidate[n][1]
  <2> USE DEF Goto, Finish
  <2>1. /\ ~Registered(n) /\ d # FirstDb /\ databases[d].exists /\ ~Taken(d)
        /\ \A w \in Workers : Holds(w) => Tried(w) # d
        /\ d \in Databases /\ n # FirstName
    <3>1. 1 \in Tries  BY ProvisioningConstants DEF Tries
    <3> QED  BY <1>1, <3>1, ProvisioningConstants DEF Stranded
  <2>2. IInv'  BY <1>1, Step
  <2>3. CASE UNCHANGED vars
    BY <2>1, <2>3 DEF vars, Stranded, Registered, Taken, Holds, Tried
  <2> SUFFICES ASSUME NEW w \in Workers,
                 \/ CountCompanies(w) \/ InsertFirst(w)
                 \/ CheckName(w) \/ CheckDatabase(w) \/ NextCandidate(w)
                 \/ CreateDatabase(w) \/ CreateAdmin(w) \/ Register(w)
                 \/ SelectCompany(w) \/ UpdateCompany(w) \/ Abort(w)
               PROVE  Stranded(n)'
    BY <1>1, <2>3 DEF Next
  <2>4. \A v \in Workers : v # w => pc'[v] = pc[v] /\ loc'[v] = loc[v]
    BY <1>1 DEF CountCompanies, InsertFirst, CheckName, CheckDatabase, NextCandidate,
       CreateDatabase, CreateAdmin, Register, SelectCompany, UpdateCompany, Abort, IInv, TypeOK
  <2>5. \A v \in Workers : v # w /\ Holds(v)' => Tried(v)' # d
    BY <2>1, <2>4 DEF Holds, Tried
  \* Whoever registers n has tried a name after the plain one, so the plain
  \* one is taken: a contradiction.
  <2>6. ~Registered(n)'
    <3>1. CASE InsertFirst(w)
      BY <2>1, <3>1, <1>1 DEF InsertFirst, IInv, TypeOK, Registered
    <3>2. CASE Register(w)
      <4>1. pc[w] \in Creating /\ Holds(w)  BY <3>2 DEF Register, Creating, Holds
      <4>2. loc[w].name # n
        <5>1. SUFFICES ASSUME loc[w].name = n PROVE FALSE  OBVIOUS
        <5>2. Base(w) = d  BY <5>1 DEF Base
        <5>3. Tried(w) # d  BY <4>1, <2>1
        <5>4. loc[w].try # 1  BY <5>2, <5>3, <4>1, <1>1, CreationFacts DEF IInv
        <5>5. Taken(Base(w))  BY <5>4, <4>1, <1>1 DEF IInv, SuffixIsForced
        <5> QED  BY <5>2, <5>5, <2>1
      <4> QED  BY <4>2, <3>2, <2>1, <1>1 DEF Register, IInv, TypeOK, Registered
    <3>3. CASE UpdateCompany(w)
      <4>1. loc[w].name \in Names /\ loc[w].name # n
        BY <3>3, <2>1, <1>1 DEF UpdateCompany, IInv, TypeOK, UpdatesARow, Change
      <4> QED  BY <4>1, <3>3, <2>1, <1>1 DEF UpdateCompany, IInv, TypeOK, Registered
    <3> QED
      BY <2>1, <3>1, <3>2, <3>3 DEF CountCompanies, CheckName, CheckDatabase, NextCandidate,
         CreateDatabase, CreateAdmin, SelectCompany, Abort, Registered
  <2>7. ~Taken(d)'
    <3>1. CASE InsertFirst(w)
      BY <2>1, <3>1, <1>1, ProvisioningConstants DEF InsertFirst, IInv, TypeOK, Taken
    <3>2. CASE Register(w)
      <4>1. Tried(w) # d  BY <3>2, <2>1 DEF Register, Holds
      <4> QED  BY <4>1, <3>2, <2>1, <1>1 DEF Register, IInv, TypeOK, Taken
    <3>3. CASE UpdateCompany(w)
      BY <3>3, <2>1, <1>1 DEF UpdateCompany, IInv, TypeOK, Taken
    <3> QED
      BY <2>1, <3>1, <3>2, <3>3 DEF CountCompanies, CheckName, CheckDatabase, NextCandidate,
         CreateDatabase, CreateAdmin, SelectCompany, Abort, Taken
  <2>8. databases'[d].exists
    <3>1. CASE CreateDatabase(w)  BY <2>1, <3>1, <1>1 DEF CreateDatabase, IInv, TypeOK
    <3>2. CASE CreateAdmin(w)  BY <2>1, <3>2, <1>1 DEF CreateAdmin, IInv, TypeOK
    <3> QED
      BY <2>1, <3>1, <3>2 DEF CountCompanies, InsertFirst, CheckName, CheckDatabase, NextCandidate,
         Register, SelectCompany, UpdateCompany, Abort
  <2>9. Holds(w)' => Tried(w)' # d
    <3>1. CASE CreateDatabase(w)
      <4>1. Tried(w)' = Tried(w)  BY <3>1 DEF CreateDatabase, Tried
      <4> QED  BY <4>1, <3>1, <2>1 DEF CreateDatabase
    <3>2. CASE CreateAdmin(w)
      <4>1. Holds(w) /\ Tried(w)' = Tried(w)  BY <3>2 DEF CreateAdmin, Tried, Holds
      <4> QED  BY <4>1, <2>1
    <3> QED
      BY <1>1, <2>1, <3>1, <3>2 DEF CountCompanies, InsertFirst, CheckName, CheckDatabase,
         NextCandidate, Register, SelectCompany, UpdateCompany, Abort, Holds, IInv, TypeOK
  <2> QED  BY <2>1, <2>5, <2>6, <2>7, <2>8, <2>9 DEF Stranded
<1>2. IInv /\ [Next]_vars => [\A n \in Names : Stranded(n) => Stranded(n)']_vars
  BY <1>1
<1> QED  BY Invariance, <1>2, PTL DEF Spec, StrandedForEver
=============================================================================
