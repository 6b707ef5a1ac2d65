---------------------------- MODULE UserAccounts ----------------------------
(***************************************************************************)
(* Accounts of one company (admin_users and the pages below it in app.py,  *)
(* company_limit in tenant.py) and the rights of the sessions opened with  *)
(* them (auth.py).  A session keeps the id, the name and the role that the *)
(* account had at sign-in.  Creating an account takes three statements;    *)
(* the other forms are one UPDATE or DELETE each.                          *)
(*                                                                         *)
(* Passwords are left out: a reset changes only what sign-in compares.     *)
(* Roles other than the administrator's have no rights here.               *)
(***************************************************************************)
EXTENDS Server, Integers, FiniteSets

CONSTANTS
  Browsers,
  Names,         \* usernames
  Forms,         \* the forms of new accounts: name and role
  First,         \* the administrator create_company has entered
  Limit,         \* max_users of the company's plan, which stays
  MaxId          \* bound on the IDENTITY column of users

Roles == {"admin", "viewer"}
Ids == 1..MaxId
Row == [name : Names, role : Roles, active : BOOLEAN]
Session == [user : Ids, name : Names, role : Roles]

ASSUME AccountConstants ==
  /\ IsFiniteSet(Threads) /\ Threads # {}
  /\ First \in Names
  /\ None \notin Row \cup Session \cup Forms
  /\ Forms \subseteq [name : Names, role : Roles]
  /\ Limit \in Nat \ {0} /\ MaxId \in Nat \ {0}

VARIABLES
  users,      \* users: id -> name, role and is_active, None if there is no row
  lastId,     \* IDENTITY of users
  unique,     \* users.username is UNIQUE (database.py), or the table was made
              \* by repair_sqlserver.sql, where it is not
  session,    \* user_id, username and role in the session of each browser
  pc, form,   \* statement of admin_users a thread is at, and its form
  acted       \* history: somebody changed an account without being an active
              \* administrator any more

vars == <<users, lastId, unique, session, pc, form, acted>>

TypeOK ==
  /\ users \in [Ids -> Row \cup {None}]
  /\ lastId \in 0..MaxId
  /\ session \in [Browsers -> Session \cup {None}]
  /\ pc \in [Threads -> {"idle", "select", "count", "insert"}]
  /\ form \in [Threads -> Forms \cup {None}]
  /\ \A t \in Threads : pc[t] # "idle" => form[t] \in Forms
  /\ unique \in BOOLEAN
  /\ acted \in BOOLEAN

Init ==
  /\ users = [i \in Ids |->
       IF i = 1 THEN [name |-> First, role |-> "admin", active |-> TRUE] ELSE None]
  /\ lastId = 1
  /\ session = [b \in Browsers |-> None]
  /\ pc = [t \in Threads |-> "idle"]
  /\ form = [t \in Threads |-> None]
  /\ unique \in BOOLEAN
  /\ acted = FALSE

-----------------------------------------------------------------------------

Accounts == {i \in Ids : users[i] # None}
Holders(n) == {i \in Accounts : users[i].name = n}
ActiveAdmins == {i \in Accounts : users[i].role = "admin" /\ users[i].active}

HasSession(b) == session[b] # None
IsAdmin(b) == HasSession(b) /\ session[b].role = "admin"
Own(b, i) == i = session[b].user

\* One account is changed from b, whose session may be older than the tables.
Change(b, i, row) ==
  /\ users' = [users EXCEPT ![i] = row]
  /\ acted' = (acted \/ session[b].user \notin ActiveAdmins)
  /\ UNCHANGED <<unique, lastId, session, pc, form>>

OpenSession_NameAsId(b, i) ==
  /\ i \in Accounts /\ users[i].active
  /\ session' = [session EXCEPT ![b] =
       [user |-> users[i].name, name |-> users[i].name, role |-> users[i].role]]
  /\ UNCHANGED <<unique, users, lastId, pc, form, acted>>
OpenSession(b, i) ==
  /\ i \in Accounts /\ users[i].active
  /\ session' = [session EXCEPT ![b] =
       [user |-> i, name |-> users[i].name, role |-> users[i].role]]
  /\ UNCHANGED <<unique, users, lastId, pc, form, acted>>

CloseSession(b) ==
  /\ HasSession(b)
  /\ session' = [session EXCEPT ![b] = None]
  /\ UNCHANGED <<unique, users, lastId, pc, form, acted>>

-----------------------------------------------------------------------------
(* admin_users.                                                            *)

Goto(t, label) ==
  /\ pc' = [pc EXCEPT ![t] = label]
  /\ UNCHANGED <<unique, users, lastId, session, form, acted>>
Finish(t) ==
  /\ pc' = [pc EXCEPT ![t] = "idle"]
  /\ form' = [form EXCEPT ![t] = None]
Refuse(t) == Finish(t) /\ UNCHANGED <<unique, users, lastId, session, acted>>

Post(t, b, f) ==
  /\ pc[t] = "idle" /\ IsAdmin(b)
  /\ pc' = [pc EXCEPT ![t] = "select"]
  /\ form' = [form EXCEPT ![t] = f]
  /\ UNCHANGED <<unique, users, lastId, session, acted>>

SelectName_Skipped(t) ==
  /\ pc[t] = "select"
  /\ Goto(t, "count")
SelectName(t) ==
  /\ pc[t] = "select"
  /\ IF Holders(form[t].name) = {} THEN Goto(t, "count") ELSE Refuse(t)

CountUsers_OneMore(t) ==
  /\ pc[t] = "count"
  /\ IF Cardinality(Accounts) <= Limit THEN Goto(t, "insert") ELSE Refuse(t)
CountUsers(t) ==
  /\ pc[t] = "count"
  /\ IF Cardinality(Accounts) < Limit THEN Goto(t, "insert") ELSE Refuse(t)

NewRow(t) == [name |-> form[t].name, role |-> form[t].role, active |-> TRUE]

InsertUser_Reuse(t) ==
  /\ pc[t] = "insert" /\ Cardinality(Accounts) < MaxId
  /\ unique => Holders(form[t].name) = {}
  /\ LET i == CHOOSE j \in Ids : users[j] = None
     IN users' = [users EXCEPT ![i] = NewRow(t)]
  /\ Finish(t)
  /\ UNCHANGED <<unique, lastId, session, acted>>
InsertUser(t) ==
  /\ pc[t] = "insert" /\ lastId < MaxId
  /\ unique => Holders(form[t].name) = {}
  /\ lastId' = lastId + 1
  /\ users' = [users EXCEPT ![lastId'] = NewRow(t)]
  /\ Finish(t)
  /\ UNCHANGED <<unique, session, acted>>

\* The UNIQUE column refuses the row.
InsertRefused(t) ==
  /\ pc[t] = "insert"
  /\ unique /\ Holders(form[t].name) # {}
  /\ Refuse(t)

\* The process ends and starts again; sessions are in the browsers.
NewProcess ==
  /\ pc' = [t \in Threads |-> "idle"]
  /\ form' = [t \in Threads |-> None]
  /\ UNCHANGED <<unique, users, lastId, session, acted>>

\* The lists, and every form that is refused.
ListPage == UNCHANGED <<unique, users, lastId, session, pc, form, acted>>

-----------------------------------------------------------------------------
(* The pages that change one account.                                      *)

ToggleActive_Anyone(b, i) ==
  /\ IsAdmin(b)
  /\ i \in Accounts
  /\ Change(b, i, [users[i] EXCEPT !.active = ~users[i].active])
ToggleActive(b, i) ==
  /\ IsAdmin(b) /\ ~Own(b, i)
  /\ i \in Accounts
  /\ Change(b, i, [users[i] EXCEPT !.active = ~users[i].active])

SetRole(b, i, r) ==
  /\ IsAdmin(b) /\ (Own(b, i) => r = "admin")
  /\ i \in Accounts
  /\ Change(b, i, [users[i] EXCEPT !.role = r])

DeleteUser(b, i) ==
  /\ IsAdmin(b) /\ ~Own(b, i)
  /\ i \in Accounts
  /\ Change(b, i, None)

Create(t) == SelectName(t) \/ CountUsers(t) \/ InsertUser(t) \/ InsertRefused(t)

Next ==
  \/ ListPage \/ NewProcess
  \/ \E t \in Threads :
       \/ Create(t)
       \/ \E b \in Browsers, f \in Forms : Post(t, b, f)
  \/ \E b \in Browsers :
       \/ CloseSession(b)
       \/ \E i \in Ids :
            \/ OpenSession(b, i) \/ ToggleActive(b, i) \/ DeleteUser(b, i)
            \/ \E r \in Roles : SetRole(b, i, r)

Spec == Init /\ [][Next]_vars

-----------------------------------------------------------------------------
(* Properties.                                                             *)

(* The pages keep an administrator from deactivating, demoting or deleting  *)
(* himself, so that the company always has an active administrator.  It is  *)
(* left without one only through a session that acts after its own account  *)
(* lost that rank: roles_required looks at the session.                     *)
AdminRemains == ActiveAdmins # {} \/ acted

(* company_limit counts on another connection than the one that inserts:    *)
(* handlers that pass it together exceed the plan, by at most one account   *)
(* for each thread but one.                                                *)
UsersBounded ==
  Cardinality(Accounts) <= Limit + Cardinality(Threads) - 1

(* The name is looked for in one statement and inserted in another.  Where  *)
(* the column is UNIQUE a name has one account; where the table was made by *)
(* repair_sqlserver.sql it has at most one for each thread.                 *)
HoldersBounded ==
  \A n \in Names :
    Cardinality(Holders(n)) <= IF unique THEN 1 ELSE Cardinality(Threads)

(* The id in a session never comes to mean somebody else: while the account *)
(* exists it has the name it had at sign-in, which is also what the owner   *)
(* of a review (data.review_locked_by) relies on.                          *)
SessionIsItsAccount ==
  \A b \in Browsers :
    HasSession(b) /\ session[b].user \in Accounts
      => users[session[b].user].name = session[b].name

(* The strengthening.  Handlers that have passed a check count with the     *)
(* rows, and ids are given in order.                                       *)
Counted == {t \in Threads : pc[t] = "insert"}
AccountBudget ==
  Cardinality(Accounts) + Cardinality(Counted) <= Limit + Cardinality(Threads) - 1

Wanting(n) == {t \in Threads : pc[t] \in {"count", "insert"} /\ form[t].name = n}
HolderBudget ==
  \A n \in Names :
    Cardinality(Holders(n)) + Cardinality(Wanting(n)) <= Cardinality(Threads)
UniqueHolder ==
  unique => \A i, j \in Accounts : users[i].name = users[j].name => i = j

IdsInOrder ==
  /\ \A i \in Accounts : i <= lastId
  /\ \A b \in Browsers : HasSession(b) => session[b].user <= lastId

IInv == /\ TypeOK /\ AccountBudget /\ HolderBudget /\ UniqueHolder
        /\ IdsInOrder /\ SessionIsItsAccount /\ AdminRemains
=============================================================================
