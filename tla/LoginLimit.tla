----------------------------- MODULE LoginLimit -----------------------------
(***************************************************************************)
(* The limit on failed sign-ins of login in app.py.  _login_attempts is a  *)
(* dictionary in memory that the threads share without a lock.  A sign-in  *)
(* copies the list of its address without the old failures, puts the copy  *)
(* in the place of the list and counts it; then it reads the account and   *)
(* hashes the password, which takes long; and only then it records a       *)
(* failure, in the list the dictionary holds by that time, or drops the    *)
(* list.  Between any two of these steps other sign-ins run.               *)
(*                                                                         *)
(* One address: lists of different addresses do not touch each other.  A   *)
(* failure is its number, in the order of their times.  Reading a list and *)
(* leaving out the old failures is one step.                               *)
(***************************************************************************)
EXTENDS Server, Naturals, FiniteSets

CONSTANTS
  MaxAttempts,     \* LOGIN_MAX_ATTEMPTS
  MaxFailures      \* a bound on the failures of a behaviour

ASSUME LimitConstants ==
  /\ MaxAttempts \in Nat \ {0}
  /\ MaxFailures \in Nat

VARIABLES
  listed,      \* the list of the address in _login_attempts
  failures,    \* how many sign-ins have failed
  old,         \* how many of these are older than LOGIN_WINDOW_SECONDS
  signIn,      \* where the sign-in of each thread is
  copied,      \* the copy of the list it has made
  appending    \* the threads that will append to the list that is listed

limitVars == <<listed, failures, old, signIn, copied, appending>>

LimitTypeOK ==
  /\ failures \in 0..MaxFailures /\ old \in 0..failures
  /\ listed \subseteq 1..failures
  /\ signIn \in [Threads -> {"none", "copied", "hashing", "failed"}]
  /\ copied \in [Threads -> SUBSET (1..failures)]
  /\ appending \subseteq {t \in Threads : signIn[t] = "failed"}

LimitInit ==
  /\ listed = {} /\ failures = 0 /\ old = 0 /\ appending = {}
  /\ signIn = [t \in Threads |-> "none"]
  /\ copied = [t \in Threads |-> {}]

-----------------------------------------------------------------------------

Recent(list) == {f \in list : f > old}

\* Another list, or none, takes the place of the one that is listed.
Replace(list) == listed' = list /\ appending' = {}

CopyList(t) ==
  /\ signIn[t] = "none"
  /\ signIn' = [signIn EXCEPT ![t] = "copied"]
  /\ copied' = [copied EXCEPT ![t] = Recent(listed)]
  /\ UNCHANGED <<listed, failures, old, appending>>

StoreList_OneMore(t) ==
  /\ signIn[t] = "copied"
  /\ Replace(copied[t])
  /\ copied' = [copied EXCEPT ![t] = {}]
  /\ signIn' = [signIn EXCEPT ![t] =
                  IF Cardinality(copied[t]) > MaxAttempts THEN "none" ELSE "hashing"]
  /\ UNCHANGED <<failures, old>>
StoreList(t) ==
  /\ signIn[t] = "copied"
  /\ Replace(copied[t])
  /\ copied' = [copied EXCEPT ![t] = {}]
  /\ signIn' = [signIn EXCEPT ![t] =
                  IF Cardinality(copied[t]) >= MaxAttempts THEN "none" ELSE "hashing"]
  /\ UNCHANGED <<failures, old>>

\* The right password of an active account.
PasswordRight(t) ==
  /\ signIn[t] = "hashing"
  /\ Replace({})
  /\ signIn' = [signIn EXCEPT ![t] = "none"]
  /\ UNCHANGED <<failures, old, copied>>

\* The account is inactive, or a statement fails: neither counts.
NotCounted(t) ==
  /\ signIn[t] = "hashing"
  /\ signIn' = [signIn EXCEPT ![t] = "none"]
  /\ UNCHANGED <<listed, failures, old, copied, appending>>

(* _record_login_attempt finds the list, or makes one, and then appends to  *)
(* it.  If the list was replaced in between the failure is lost.            *)
PasswordWrong(t) ==
  /\ signIn[t] = "hashing"
  /\ signIn' = [signIn EXCEPT ![t] = "failed"]
  /\ appending' = appending \cup {t}
  /\ UNCHANGED <<listed, failures, old, copied>>

AppendFailure(t) ==
  /\ signIn[t] = "failed" /\ failures < MaxFailures
  /\ failures' = failures + 1
  /\ listed' = IF t \in appending THEN listed \cup {failures'} ELSE listed
  /\ appending' = appending \ {t}
  /\ signIn' = [signIn EXCEPT ![t] = "none"]
  /\ UNCHANGED <<old, copied>>

WindowPasses ==
  /\ old < failures
  /\ old' = old + 1
  /\ UNCHANGED <<listed, failures, signIn, copied, appending>>

\* The process ends and starts again with an empty dictionary.
LimitRestart ==
  /\ Replace({})
  /\ signIn' = [t \in Threads |-> "none"]
  /\ copied' = [t \in Threads |-> {}]
  /\ UNCHANGED <<failures, old>>

LimitNext ==
  \/ WindowPasses \/ LimitRestart
  \/ \E t \in Threads :
       \/ CopyList(t) \/ StoreList(t)
       \/ PasswordRight(t) \/ NotCounted(t) \/ PasswordWrong(t) \/ AppendFailure(t)

LimitSpec == LimitInit /\ [][LimitNext]_limitVars

-----------------------------------------------------------------------------
(* Properties *)

(* What the limit promises cannot be read off the number of failures.       *)
(* Sign-ins that were counted together fail together, so there are more     *)
(* than LOGIN_MAX_ATTEMPTS; and one that has copied the list early puts it  *)
(* back without the failures since (app.py:287-289).  But once the address  *)
(* is locked, and no sign-in from before that is still under way, no        *)
(* password is compared until a failure gets old or the process restarts:   *)
(* neither the copies that are put back nor the failures that are lost or   *)
(* added unlock it.                                                        *)
Locked ==
  /\ Cardinality(Recent(listed)) >= MaxAttempts
  /\ \A t \in Threads :
       /\ signIn[t] # "hashing"
       /\ signIn[t] = "copied" => Cardinality(Recent(copied[t])) >= MaxAttempts
LockoutHolds == [][Locked => Locked' \/ WindowPasses \/ LimitRestart]_limitVars

(* One thread alone never records more failures than the limit allows.      *)
LimitKept == Cardinality(Recent(listed)) <= MaxAttempts
=============================================================================
