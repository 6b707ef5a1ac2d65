------------------------ MODULE CompanyProvisioning ------------------------
(***************************************************************************)
(* Companies and their databases (tenant.py).  The table companies of the  *)
(* database repair_master lists the companies; each has a database of its  *)
(* own.  A company is created by four commits in two databases and the     *)
(* server itself, so a failure in between leaves a part of it behind.      *)
(*                                                                         *)
(* A worker is a thread of the server that runs a page of the main         *)
(* administrator.  A step is one SQL statement, or one transaction of a    *)
(* single statement that writes; nothing is locked between two steps.      *)
(* Rows of companies are never deleted and their names never change, so a  *)
(* name stands for the row's id.                                           *)
(***************************************************************************)
EXTENDS Naturals, FiniteSets

CONSTANTS
  Workers,
  Names, Admins, Plans, Dates,   \* what the forms can hold
  Databases,
  FirstName, FirstDb, FirstPlan, FirstUsers,   \* the company whose database was there first
  Candidate,    \* Candidate[n][k]: the k-th database name tried for company n
  MaxTries,     \* bound on k
  None

Tries == 1..MaxTries

ASSUME ProvisioningConstants ==
  /\ MaxTries \in Nat \ {0}
  /\ FirstName \in Names /\ FirstDb \in Databases /\ FirstUsers \subseteq Admins
  /\ FirstPlan \in Plans
  /\ Candidate \in [Names -> [Tries -> Databases]]
  /\ Candidate[FirstName][1] = FirstDb
  /\ None \notin Databases \cup Dates

VARIABLES
  companies,    \* table companies of repair_master: name -> row
  databases,    \* the databases of the server: name -> usernames in its table users
  pc, loc,      \* where each worker's handler is, and its local variables
  founder       \* history: the form whose handler created the database

vars == <<companies, databases, pc, loc, founder>>

NoCompany == [db |-> None, plan |-> None, is_active |-> FALSE, expires_at |-> None]
Company == [db : Databases, plan : Plans, is_active : BOOLEAN,
            expires_at : Dates \cup {None}]
NoDatabase == [exists |-> FALSE, users |-> {}]
Database == [exists : {TRUE}, users : SUBSET Admins]

Creation == [name : Names, admin : Admins, plan : Plans, try : Tries]
Change == [name : Names, plan : Plans, is_active : BOOLEAN,
           expires_at : Dates \cup {None}]
NoForm == [name |-> None]
NoFounder == [name |-> None, admin |-> None]
Founder == [name : Names, admin : Admins]

Creating == {"check_db", "candidate", "create_db", "create_admin", "register"}

TypeOK ==
  /\ companies \in [Names -> Company \cup {NoCompany}]
  /\ databases \in [Databases -> Database \cup {NoDatabase}]
  /\ pc \in [Workers -> {"idle", "first", "page", "update"} \cup Creating]
  /\ loc \in [Workers -> Creation \cup Change \cup {NoForm}]
  /\ \A w \in Workers : /\ pc[w] \in Creating => loc[w] \in Creation
                        /\ pc[w] = "update" => loc[w] \in Change
  /\ founder \in [Databases -> Founder \cup {NoFounder}]

-----------------------------------------------------------------------------

Registered(n) == companies[n] # NoCompany
Taken(d) == \E n \in Names : companies[n].db = d

Goto(w, l) == pc' = [pc EXCEPT ![w] = l]
Finish(w) == Goto(w, "idle") /\ loc' = [loc EXCEPT ![w] = NoForm]

\* The database name of the worker's form that its handler is working on.
Base(w) == Candidate[loc[w].name][1]
Tried(w) == Candidate[loc[w].name][loc[w].try]

Init ==
  /\ companies = [n \in Names |-> NoCompany]
  /\ databases = [d \in Databases |->
       IF d = FirstDb THEN [exists |-> TRUE, users |-> FirstUsers] ELSE NoDatabase]
  /\ pc = [w \in Workers |-> "idle"]
  /\ loc = [w \in Workers |-> NoForm]
  /\ founder = [d \in Databases |-> NoFounder]

\* ensure_master_database: an empty table gets the first company.
CountCompanies(w) ==
  /\ pc[w] = "idle"
  /\ Goto(w, IF \A n \in Names : ~Registered(n) THEN "first" ELSE "page")
  /\ UNCHANGED <<companies, databases, loc, founder>>

\* A second insertion is refused by the UNIQUE columns and ends the handler.
InsertFirst(w) ==
  /\ pc[w] = "first"
  /\ \/ /\ ~Registered(FirstName) /\ ~Taken(FirstDb)
        /\ companies' = [companies EXCEPT ![FirstName] =
             [db |-> FirstDb, plan |-> FirstPlan, is_active |-> TRUE, expires_at |-> None]]
        /\ Goto(w, "page")
     \/ /\ Registered(FirstName) \/ Taken(FirstDb)
        /\ Goto(w, "idle")
        /\ UNCHANGED companies
  /\ UNCHANGED <<databases, loc, founder>>

\* create_company, the form and the SELECT for its name.  A name that is
\* registered is refused, which changes nothing: Abort.
CheckName(w) ==
  /\ pc[w] = "page"
  /\ \E f \in Creation :
       /\ f.try = 1 /\ ~Registered(f.name)
       /\ loc' = [loc EXCEPT ![w] = f]
  /\ Goto(w, "check_db")
  /\ UNCHANGED <<companies, databases, founder>>

CheckDatabase(w) ==
  /\ pc[w] = "check_db" /\ ~Taken(Base(w))
  /\ Goto(w, "candidate")
  /\ UNCHANGED <<companies, databases, loc, founder>>

\* The loop over name, name_2, name_3, ...: one SELECT a turn.
NextCandidate(w) ==
  /\ pc[w] = "candidate"
  /\ \/ ~Taken(Tried(w)) /\ Goto(w, "create_db") /\ UNCHANGED loc
     \/ /\ Taken(Tried(w)) /\ loc[w].try < MaxTries
        /\ loc' = [loc EXCEPT ![w] =
             [name |-> @.name, admin |-> @.admin, plan |-> @.plan, try |-> @.try + 1]]
        /\ UNCHANGED pc
  /\ UNCHANGED <<companies, databases, founder>>

CreateDatabase_IfMissing(w) ==
  /\ pc[w] = "create_db"
  /\ databases' = [databases EXCEPT ![Tried(w)] = [@ EXCEPT !.exists = TRUE]]
  /\ founder' = [founder EXCEPT ![Tried(w)] =
       IF @ # NoFounder \/ databases[Tried(w)].exists THEN @
       ELSE [name |-> loc[w].name, admin |-> loc[w].admin]]
  /\ Goto(w, "create_admin")
  /\ UNCHANGED <<companies, loc>>

\* CREATE DATABASE outside any transaction: it fails if the database exists.
CreateDatabase(w) ==
  /\ pc[w] = "create_db" /\ ~databases[Tried(w)].exists
  /\ databases' = [databases EXCEPT ![Tried(w)] = [exists |-> TRUE, users |-> {}]]
  /\ founder' = [founder EXCEPT ![Tried(w)] = [name |-> loc[w].name, admin |-> loc[w].admin]]
  /\ Goto(w, "create_admin")
  /\ UNCHANGED <<companies, loc>>

\* The administrator is committed in the company's database.
CreateAdmin(w) ==
  /\ pc[w] = "create_admin" /\ loc[w].admin \notin databases[Tried(w)].users
  /\ databases' = [databases EXCEPT ![Tried(w)] =
       [exists |-> TRUE, users |-> @.users \cup {loc[w].admin}]]
  /\ Goto(w, "register")
  /\ UNCHANGED <<companies, loc, founder>>

Register_NameOnly(w) ==
  /\ pc[w] = "register" /\ ~Registered(loc[w].name)
  /\ companies' = [companies EXCEPT ![loc[w].name] =
       [db |-> Base(w), plan |-> loc[w].plan, is_active |-> TRUE, expires_at |-> None]]
  /\ Finish(w)
  /\ UNCHANGED <<databases, founder>>

\* The row of the company, under the UNIQUE columns name and db_name.
Register(w) ==
  /\ pc[w] = "register" /\ ~Registered(loc[w].name) /\ ~Taken(Tried(w))
  /\ companies' = [companies EXCEPT ![loc[w].name] =
       [db |-> Tried(w), plan |-> loc[w].plan, is_active |-> TRUE, expires_at |-> None]]
  /\ Finish(w)
  /\ UNCHANGED <<databases, founder>>

SelectCompany_NoRow(w) ==
  /\ pc[w] = "page"
  /\ \E f \in Change : loc' = [loc EXCEPT ![w] = f]
  /\ Goto(w, "update")
  /\ UNCHANGED <<companies, databases, founder>>

\* update_company reads the row, and keeps the expiry date if the form has none.
SelectCompany(w) ==
  /\ pc[w] = "page"
  /\ \E f \in Change :
       /\ Registered(f.name)
       /\ loc' = [loc EXCEPT ![w] =
            [name |-> f.name, plan |-> f.plan, is_active |-> f.is_active,
             expires_at |-> IF f.expires_at = None THEN companies[f.name].expires_at
                                                   ELSE f.expires_at]]
  /\ Goto(w, "update")
  /\ UNCHANGED <<companies, databases, founder>>

UpdateCompany(w) ==
  /\ pc[w] = "update"
  /\ companies' = [companies EXCEPT ![loc[w].name] =
       [db |-> @.db, plan |-> loc[w].plan, is_active |-> loc[w].is_active,
        expires_at |-> loc[w].expires_at]]
  /\ Finish(w)
  /\ UNCHANGED <<databases, founder>>

\* The page ends: a refusal, an exception, which rolls the open transaction
\* back, a page that only reads, or the end of the process.
Abort(w) ==
  /\ pc[w] # "idle"
  /\ Finish(w)
  /\ UNCHANGED <<companies, databases, founder>>

Next == \E w \in Workers :
  \/ CountCompanies(w) \/ InsertFirst(w)
  \/ CheckName(w) \/ CheckDatabase(w) \/ NextCandidate(w)
  \/ CreateDatabase(w) \/ CreateAdmin(w) \/ Register(w)
  \/ SelectCompany(w) \/ UpdateCompany(w)
  \/ Abort(w)

Spec == Init /\ [][Next]_vars

-----------------------------------------------------------------------------
(* Properties *)

\* The database of a registered company was created for that company, by the
\* handler that registered it, and holds the administrator of its form and
\* nobody else: no handler ever takes over a database that another one, or a
\* failed creation, left behind (tenant.py:190-224).  The database that was
\* there first belongs to the first company and keeps its users.
OwnDatabase ==
  /\ databases[FirstDb].users = FirstUsers
  /\ \A n \in Names : Registered(n) =>
       LET d == companies[n].db
       IN IF n = FirstName THEN d = FirstDb
          ELSE /\ founder[d].name = n
               /\ databases[d].users = {founder[d].admin}

\* The handler has created its database and not yet registered it.
Holds(w) == pc[w] \in {"create_admin", "register"}

\* A name whose plain database exists, belongs to no company and to no
\* handler: what a creation that failed after CREATE DATABASE leaves.
Stranded(n) ==
  /\ ~Registered(n) /\ Candidate[n][1] # FirstDb
  /\ databases[Candidate[n][1]].exists /\ ~Taken(Candidate[n][1])
  /\ \A w \in Workers : Holds(w) => Tried(w) # Candidate[n][1]

\* A failed creation cannot be repeated: every later attempt for that name
\* picks the same candidate (tenant.py:190-195) and fails at CREATE DATABASE
\* (tenant.py:200), because nothing removes the database and only rows of
\* companies make the loop go on.
StrandedForEver == [][\A n \in Names : Stranded(n) => Stranded(n)']_vars

\* What the list of companies shows of a company and of its database.
View == [n \in Names |->
  [db |-> companies[n].db,
   users |-> IF Registered(n) THEN databases[companies[n].db].users ELSE {}]]

Registry == INSTANCE CompanyRegistry WITH registry <- View

\* The statements of all handlers together implement the atomic registry.
RegistrySpec == Registry!Spec

-----------------------------------------------------------------------------
(* The inductive invariant *)

FirstCompanyFirst ==
  /\ \A n \in Names : Registered(n) => Registered(FirstName)
  /\ \A w \in Workers : pc[w] \notin {"idle", "first"} => Registered(FirstName)
  /\ databases[FirstDb].exists

\* A created database is its handler's alone until it is registered.
HeldByOne ==
  /\ \A w \in Workers : Holds(w) =>
       /\ Tried(w) # FirstDb /\ ~Taken(Tried(w)) /\ databases[Tried(w)].exists
       /\ founder[Tried(w)] = [name |-> loc[w].name, admin |-> loc[w].admin]
       /\ databases[Tried(w)].users = IF pc[w] = "register" THEN {loc[w].admin} ELSE {}
  /\ \A v, w \in Workers : v # w /\ Holds(v) /\ Holds(w) => Tried(v) # Tried(w)

DatabasesDistinct ==
  /\ \A n \in Names : Registered(n) => databases[companies[n].db].exists
  /\ \A m, n \in Names : m # n /\ Registered(m) => companies[m].db # companies[n].db

\* Only a registered company makes the loop leave the plain name.
SuffixIsForced == \A w \in Workers :
  /\ pc[w] = "check_db" => loc[w].try = 1
  /\ pc[w] \in Creating /\ loc[w].try # 1 => Taken(Base(w))

UpdatesARow == \A w \in Workers : pc[w] = "update" => Registered(loc[w].name)

IInv == /\ TypeOK /\ FirstCompanyFirst /\ HeldByOne /\ DatabasesDistinct
        /\ SuffixIsForced /\ UpdatesARow /\ OwnDatabase
=============================================================================
