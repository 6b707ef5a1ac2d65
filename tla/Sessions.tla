------------------------------ MODULE Sessions ------------------------------
(***************************************************************************)
(* Sessions of app.py and auth.py: choosing a company, signing in and out, *)
(* the main administrator's visits to a company, and the two before_request *)
(* checks.                                                                 *)
(*                                                                         *)
(* Flask keeps a session in a cookie.  A request works on the copy that    *)
(* came with it and its response puts that copy, changed or not, back as a *)
(* whole.  With two requests of a browser under way, the answer that comes *)
(* last decides.  Here `request` holds the copy of each thread, and an     *)
(* action is the whole handler together with its answer.                   *)
(*                                                                         *)
(* Accounts do not change here (see UserAccounts), how many sign-ins may   *)
(* fail is in LoginLimit, and the rows of the two access logs, which       *)
(* nothing reads back, are left out.  For what a visit may do there is one *)
(* request for repair in each company, and of the registers that a page    *)
(* completes when it is opened, whether there is something to complete.    *)
(***************************************************************************)
EXTENDS Server

CONSTANTS
  Clients,             \* browsers
  Companies,
  Admins, Reviewers,   \* ids of accounts, the same numbers in every database
  SecretKey            \* SECRET_KEY is set, so cookies survive a restart

Users == Admins \cup Reviewers

ASSUME SessionConstants ==
  /\ None \notin Companies /\ None \notin Users /\ None \notin Clients
  /\ Admins \cap Reviewers = {}
  /\ SecretKey \in BOOLEAN

VARIABLES
  allowed,     \* company_allowed: active and not expired
  cookie,      \* the session each browser keeps
  request,     \* the browser and the copy of its session a thread works on
  review,      \* data: the claim of the company's request and its completion
  behind       \* the registers that lack a row, or the name, of some device

sessionVars == <<allowed, cookie, request, review, behind>>

(* company and user are company_id and user_id, master says whether         *)
(* master_user_id is there, view is master_impersonation.  `origin` is not  *)
(* in the cookie: in which company the user was found, and how.             *)
NoOrigin == [company |-> None, by |-> None]
Origins == [company : Companies, by : {"password", "visit"}] \cup {NoOrigin}
SessionType == [company : Companies \cup {None}, user : Users \cup {None},
                master : BOOLEAN, view : BOOLEAN, origin : Origins]
Empty == [company |-> None, user |-> None, master |-> FALSE, view |-> FALSE,
          origin |-> NoOrigin]
Idle == [browser |-> None, session |-> Empty]
Pending == [owner |-> None, done |-> FALSE, by |-> NoOrigin]
Registers == {"machine_passport", "key_equipment"}

SessionsTypeOK ==
  /\ allowed \in [Companies -> BOOLEAN]
  /\ cookie \in [Clients -> SessionType]
  /\ request \in [Threads -> [browser : Clients, session : SessionType] \cup {Idle}]
  /\ review \in [Companies -> [owner : Users \cup {None}, done : BOOLEAN, by : Origins]]
  /\ behind \in [Companies -> SUBSET Registers]

SessionsInit ==
  /\ allowed = [c \in Companies |-> TRUE]
  /\ cookie = [b \in Clients |-> Empty]
  /\ request = [t \in Threads |-> Idle]
  /\ review = [c \in Companies |-> Pending]
  /\ behind = [c \in Companies |-> Registers]

-----------------------------------------------------------------------------

Working(t) == request[t].browser # None
Copy(t) == request[t].session

Arrive(t, b) ==
  /\ ~Working(t)
  /\ request' = [request EXCEPT ![t] = [browser |-> b, session |-> cookie[b]]]
  /\ UNCHANGED <<allowed, cookie, review, behind>>

\* The response of t leaves session s in the browser.
Answer(t, s) ==
  /\ cookie' = [cookie EXCEPT ![request[t].browser] = s]
  /\ request' = [request EXCEPT ![t] = Idle]

\* check_csrf: no form is accepted while the main administrator visits.
FormAccepted_Always(t) == Working(t)
FormAccepted(t) == Working(t) /\ ~Copy(t).view

WithoutUser(s) == [s EXCEPT !.user = None, !.origin = NoOrigin]
WithUser(s, u, how) ==
  [s EXCEPT !.user = u, !.origin = [company |-> s.company, by |-> how]]

\* require_setup_and_login and login_required let a page of the company run.
CompanyAllowed(c) == c # None /\ allowed[c]
Enters(t) == Working(t) /\ CompanyAllowed(Copy(t).company)
SignedIn(t) == Enters(t) /\ Copy(t).user # None

(* The handler has not touched the session.  With a message for the user    *)
(* the answer carries it nevertheless, without one it sets no cookie.       *)
Reply(t) ==
  \/ Answer(t, Copy(t))
  \/ Answer(t, cookie[request[t].browser])

\* Any page that only reads, and any refusal.
Page(t) ==
  /\ Working(t)
  /\ Reply(t)
  /\ UNCHANGED <<allowed, review, behind>>

\* require_setup_and_login: the company was closed since it was chosen.
Evicted(t) ==
  /\ Working(t)
  /\ Copy(t).company # None /\ ~CompanyAllowed(Copy(t).company)
  /\ Answer(t, [WithoutUser(Copy(t)) EXCEPT !.company = None])
  /\ UNCHANGED <<allowed, review, behind>>

SelectCompany_Keep(t, c) ==
  /\ FormAccepted(t) /\ CompanyAllowed(c)
  /\ Answer(t, [Copy(t) EXCEPT !.company = c])
  /\ UNCHANGED <<allowed, review, behind>>
SelectCompany(t, c) ==
  /\ FormAccepted(t) /\ CompanyAllowed(c)
  /\ Answer(t, [Empty EXCEPT !.company = c])
  /\ UNCHANGED <<allowed, review, behind>>

(* login is exempt from the check of the company: whoever chose it before   *)
(* it was closed may still sign in, and is sent away by the next page.  A   *)
(* sign-in that is refused is a Page.                                      *)
Login(t, u) ==
  /\ FormAccepted(t) /\ Copy(t).company # None
  /\ Answer(t, WithUser(Copy(t), u, "password"))
  /\ UNCHANGED <<allowed, review, behind>>

Logout(t) ==
  /\ Enters(t) /\ ~Copy(t).view
  /\ Answer(t, Empty)
  /\ UNCHANGED <<allowed, review, behind>>

-----------------------------------------------------------------------------
(* The main administrator.                                                 *)

MasterLogin(t) ==
  /\ FormAccepted(t)
  /\ Answer(t, [Copy(t) EXCEPT !.master = TRUE])
  /\ UNCHANGED <<allowed, review, behind>>

MasterLogout_Visit(t) ==
  /\ Working(t)
  /\ Answer(t, [Copy(t) EXCEPT !.master = FALSE, !.view = FALSE])
  /\ UNCHANGED <<allowed, review, behind>>
MasterLogout(t) ==
  /\ Working(t)
  /\ Answer(t, [Copy(t) EXCEPT !.master = FALSE])
  /\ UNCHANGED <<allowed, review, behind>>

\* The visitor becomes the company's first active administrator.
MasterEnterCompany(t, c) ==
  /\ Working(t) /\ Copy(t).master /\ CompanyAllowed(c)
  /\ \E a \in Admins :
       Answer(t, WithUser([Copy(t) EXCEPT !.company = c, !.view = TRUE], a, "visit"))
  /\ UNCHANGED <<allowed, review, behind>>

MasterReturn_Anyone(t) ==
  /\ Working(t)
  /\ Answer(t, [WithoutUser(Copy(t)) EXCEPT !.company = None, !.view = FALSE])
  /\ UNCHANGED <<allowed, review, behind>>
MasterReturn(t) ==
  /\ Working(t) /\ Copy(t).master
  /\ Answer(t, [WithoutUser(Copy(t)) EXCEPT !.company = None, !.view = FALSE])
  /\ UNCHANGED <<allowed, review, behind>>

MasterCompanyUpdate(t, c) ==
  /\ FormAccepted(t) /\ Copy(t).master
  /\ allowed' \in {[allowed EXCEPT ![c] = a] : a \in BOOLEAN}
  /\ Answer(t, Copy(t))
  /\ UNCHANGED <<review, behind>>

(* The process ends and starts again.  Without SECRET_KEY the new process   *)
(* cannot read the cookies of the old.                                     *)
Restart ==
  /\ request' = [t \in Threads |-> Idle]
  /\ cookie' = IF SecretKey THEN cookie ELSE [b \in Clients |-> Empty]
  /\ UNCHANGED <<allowed, review, behind>>

Expire(c) ==
  /\ allowed[c]
  /\ allowed' = [allowed EXCEPT ![c] = FALSE]
  /\ UNCHANGED <<cookie, request, review, behind>>

-----------------------------------------------------------------------------
(* Pages of the company that write although they are no forms, and the     *)
(* forms that concern the same rows.                                       *)

RequestCompleteGet_Any(t) ==
  /\ SignedIn(t)
  /\ review' = [review EXCEPT ![Copy(t).company].owner = Copy(t).user]
  /\ Reply(t)
  /\ UNCHANGED <<allowed, behind>>
RequestCompleteGet(t) ==
  /\ SignedIn(t)
  /\ LET c == Copy(t).company IN
       /\ review[c].owner = None /\ ~review[c].done
       /\ review' = [review EXCEPT ![c].owner = Copy(t).user]
  /\ Reply(t)
  /\ UNCHANGED <<allowed, behind>>

RequestCompletePost(t) ==
  /\ SignedIn(t) /\ FormAccepted(t)
  /\ LET c == Copy(t).company IN
       /\ review[c].owner = Copy(t).user /\ ~review[c].done
       /\ review' = [review EXCEPT ![c] =
                       [owner |-> None, done |-> TRUE, by |-> Copy(t).origin]]
  /\ Answer(t, Copy(t))
  /\ UNCHANGED <<allowed, behind>>

(* Devices and passports are pages of the administrators, key equipment of  *)
(* everybody here.  Before anything else a page gives each device the row   *)
(* it lacks in its register (EnsureInsert of DeviceCatalog, EnsureKeyRows   *)
(* of KeyEquipment); so do the exports.                                     *)
OpenRegister(t, r) ==
  /\ SignedIn(t) /\ (r = "machine_passport" => Copy(t).user \in Admins)
  /\ behind' = [behind EXCEPT ![Copy(t).company] = @ \ {r}]
  /\ Reply(t)
  /\ UNCHANGED <<allowed, review>>

\* A form of devices, device_delete or machine_passports.  A new device gets its
\* passport at once; a new code or name leaves key equipment behind, and what a
\* register lacked it may lack no longer.
ChangeDevice(t) ==
  /\ SignedIn(t) /\ FormAccepted(t) /\ Copy(t).user \in Admins
  /\ LET c == Copy(t).company IN
       \E now \in SUBSET (behind[c] \cup {"key_equipment"}) :
         behind' = [behind EXCEPT ![c] = now]
  /\ Answer(t, Copy(t))
  /\ UNCHANGED <<allowed, review>>

SessionsNext ==
  \/ Restart
  \/ \E c \in Companies : Expire(c)
  \/ \E t \in Threads :
       \/ \E b \in Clients : Arrive(t, b)
       \/ Page(t) \/ Evicted(t) \/ Logout(t)
       \/ MasterLogin(t) \/ MasterLogout(t) \/ MasterReturn(t)
       \/ RequestCompleteGet(t) \/ RequestCompletePost(t) \/ ChangeDevice(t)
       \/ \E r \in Registers : OpenRegister(t, r)
       \/ \E u \in Users : Login(t, u)
       \/ \E c \in Companies :
            SelectCompany(t, c) \/ MasterEnterCompany(t, c) \/ MasterCompanyUpdate(t, c)

SessionsSpec == SessionsInit /\ [][SessionsNext]_sessionVars

-----------------------------------------------------------------------------
(* Properties.                                                             *)

Sessions == {cookie[b] : b \in Clients} \cup {Copy(t) : t \in Threads}

(* The user of a session was found in the database the session is connected *)
(* to.  Ids are numbers counted per database, so a company chosen or        *)
(* visited without forgetting the user would turn him into whoever has his  *)
(* number there (select_company, login, master_enter_company).              *)
UserOfCompany ==
  \A s \in Sessions : s.user # None => s.company = s.origin.company

(* Who is signed in without having given a password is a visitor and marked *)
(* as one, so no form of his is accepted; and nobody else is kept from his  *)
(* forms (master_logout leaves the mark, master_return takes both).         *)
VisitsMarked ==
  \A s \in Sessions : s.user # None => (s.view <=> s.origin.by = "visit")

(* A request for repair is completed by a reviewer who signed in to that    *)
(* company with a password, however the claim came about and whatever the   *)
(* browser's other tabs did meanwhile.                                      *)
CompletedByPassword ==
  \A c \in Companies :
    review[c].done => review[c].by = [company |-> c, by |-> "password"]

(* The main administrator signs out while visiting (app.py:358): the mark   *)
(* stays without the sign-in that master_return asks for, and every form,   *)
(* the ones for choosing a company and for signing in included, is refused. *)
(* Nothing the browser can send changes that, and with SECRET_KEY set no    *)
(* restart does.                                                           *)
Stranded(b) ==
  LET Lost(s) == s.view /\ ~s.master
  IN Lost(cookie[b]) /\ \A t \in Threads : request[t].browser = b => Lost(Copy(t))
StrandedVisitor ==
  [][SecretKey => \A b \in Clients : Stranded(b) => Stranded(b)']_sessionVars

(* A visiting main administrator is told that he cannot change the data of  *)
(* the company (app.py:260), but some pages write when they are opened.     *)
(* What they write is all he can do: in the company he is in he claims a    *)
(* request nobody has claimed, in the name of its administrator, and has    *)
(* registers brought up to date; he takes no request from anybody, ends no  *)
(* review and puts no register behind its devices.                         *)
VisitOnlyCompletes ==
  [][\A t \in Threads : Working(t) /\ ~Working(t)' /\ Copy(t).view =>
       \A c \in Companies :
         \/ review'[c] = review[c] /\ behind'[c] = behind[c]
         \/ /\ c = Copy(t).company /\ behind'[c] \subseteq behind[c]
            /\ \/ review'[c] = review[c]
               \/ /\ review[c] = Pending
                  /\ \E a \in Admins : review'[c] = [Pending EXCEPT !.owner = a]]_sessionVars
=============================================================================
