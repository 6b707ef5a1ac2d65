------------------------------- MODULE Access -------------------------------
(***************************************************************************)
(* The accounts of a company, the sessions of its users and the limit on   *)
(* failed sign-ins side by side.  The modules share no variable and none   *)
(* reads what another changes: UserAccounts has the rights that come with  *)
(* a session, Sessions has which session a browser holds and lets any      *)
(* sign-in be accepted or refused, LoginLimit counts those that fail.      *)
(***************************************************************************)
EXTENDS UserAccounts, Sessions, LoginLimit

AccessInit == Init /\ SessionsInit /\ LimitInit
AccessNext ==
  \/ Next /\ UNCHANGED <<sessionVars, limitVars>>
  \/ SessionsNext /\ UNCHANGED <<vars, limitVars>>
  \/ LimitNext /\ UNCHANGED <<vars, sessionVars>>
AccessSpec == AccessInit /\ [][AccessNext]_<<vars, sessionVars, limitVars>>

\* The type invariant of the three (the tables of app.py:493-586, the cookies
\* of app.py:317-480, the list of app.py:281).
TypesOK == TypeOK /\ SessionsTypeOK /\ LimitTypeOK
=============================================================================
