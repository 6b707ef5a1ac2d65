--------------------------- MODULE RequestReview ---------------------------
(***************************************************************************)
(* Repair requests: registration, review lock, completion, correction and  *)
(* deletion (app.py, request_new .. request_complete).                     *)
(*                                                                         *)
(* A thread of the WSGI server runs one handler at a time on a connection  *)
(* of its own.  Every step below is one SQL statement, or one transaction  *)
(* of a single statement, under SQL Server's locking READ COMMITTED: a     *)
(* statement never sees a row another transaction has changed and not      *)
(* committed, it waits for it.  A multi-statement transaction keeps its    *)
(* changes in `loc` until its commit; `rowLock` and the program counters   *)
(* say which rows it has locked meanwhile.                                 *)
(***************************************************************************)
EXTENDS Naturals, FiniteSets

CONSTANTS
  Threads,      \* threads of the server (run_production.py)
  Admins, Reviewers, Requesters,   \* users by role (auth.py)
  Forms,        \* contents of a completion form: report, contractors, goods
  Devices,      \* device codes a request can name
  None,         \* SQL NULL, or no thread
  MaxId         \* bound on the IDENTITY values handed out by table data

Users == Admins \cup Reviewers \cup Requesters
CanReviewRequest == Admins \cup Reviewers
CanCreateRequest == Admins \cup Requesters

ASSUME ConstantsAssumption ==
  /\ MaxId \in Nat
  /\ None \notin Threads \cup Users \cup Forms \cup Devices

VARIABLES
  data,         \* table data: internal id -> row
  mojry,        \* table mojry: contractor rows of the requests
  mvademasrafi, \* table mvademasrafi: goods rows of the requests
  audit_log,    \* ids of the requests an audit row says were corrected
  nextId,       \* next IDENTITY value of table data
  rowLock,      \* thread whose open transaction has an X lock on the data row
  pages,        \* completion pages open in browsers: <<user, id>>
  pc, loc       \* where each thread's handler is, and its local variables

tables == <<data, mojry, mvademasrafi, audit_log, nextId>>
vars == <<data, mojry, mvademasrafi, audit_log, nextId, rowLock, pages, pc, loc>>

Ids == 1..MaxId

Absent == [status |-> "absent", number |-> 0, owner |-> None,
           device |-> None, report |-> None]

Row == [status : {"absent", "pending", "in_progress", "completed"},
        number : Nat, owner : Users \cup {None},
        device : Devices \cup {None}, report : Forms \cup {None}]

\* One row of mojry or of mvademasrafi; the column shomare_darkhast of both
\* tables holds the internal id of the request.
ChildRow == [req : Ids, form : Forms, device : Devices]

Labels == {"idle", "new_insert", "get_select", "post_update",
           "post_del_mojry", "post_del_mvad", "post_ins_mojry", "post_ins_mvad",
           "edit_update", "del_mojry", "del_mvad", "del_data"}

\* The locals of a handler that serves user u: request, form, device, number,
\* and the child rows its open transaction has deleted.
Job(u, r, f, d, n) == [user |-> u, req |-> r, form |-> f, device |-> d,
                       number |-> n, delMojry |-> {}, delMvad |-> {}]
NoLocals == Job(None, 0, None, None, 0)

Locals == [user : Users \cup {None}, req : Ids \cup {0}, number : Nat,
           device : Devices \cup {None}, form : Forms \cup {None},
           delMojry : SUBSET ChildRow, delMvad : SUBSET ChildRow]

TypeOK ==
  /\ data \in [Ids -> Row]
  /\ mojry \subseteq ChildRow
  /\ mvademasrafi \subseteq ChildRow
  /\ audit_log \subseteq Ids
  /\ nextId \in 1..(MaxId + 1)
  /\ rowLock \in [Ids -> Threads \cup {None}]
  /\ pages \subseteq (Users \X Ids)
  /\ pc \in [Threads -> Labels]
  /\ loc \in [Threads -> Locals]

-----------------------------------------------------------------------------
(* Rows and locks *)

Exists(r) == data[r].status # "absent"
Free(r) == rowLock[r] = None
Unlock_ConnectionKept(r) == UNCHANGED rowLock
Unlock(r) == rowLock' = [rowLock EXCEPT ![r] = None]
RowsOf(table, r) == {x \in table : x.req = r}
Numbers == {data[r].number : r \in {q \in Ids : Exists(q)}}
Inserting == {t \in Threads : pc[t] = "new_insert"}

\* Child rows of r that another transaction has deleted or inserted and not
\* committed: DELETE ... WHERE shomare_darkhast = r waits for them.
MojryBusy(t, r) == \E s \in Threads \ {t} :
  \/ RowsOf(loc[s].delMojry, r) # {}
  \/ pc[s] = "post_ins_mvad" /\ loc[s].req = r
MvadBusy(t, r) == \E s \in Threads \ {t} : RowsOf(loc[s].delMvad, r) # {}

\* The WHERE clause of the completion, the check of the page, the unique index.
OwnedBy_InReview(r, u) == data[r].status = "in_progress"
OwnedBy(r, u) == data[r].status = "in_progress" /\ data[r].owner = u
Taken_NoIndex(n) == FALSE
Taken(n) == n \in Numbers

Idle(t) == pc[t] = "idle"
Begin(t, label, locals) ==
  /\ pc' = [pc EXCEPT ![t] = label]
  /\ loc' = [loc EXCEPT ![t] = locals]
Goto(t, label) == pc' = [pc EXCEPT ![t] = label] /\ UNCHANGED loc
\* The handler returns, its transaction committed or rolled back.
Finish(t) == Begin(t, "idle", NoLocals)

Init ==
  /\ data = [r \in Ids |-> Absent]
  /\ mojry = {} /\ mvademasrafi = {} /\ audit_log = {}
  /\ nextId = 1
  /\ rowLock = [r \in Ids |-> None]
  /\ pages = {}
  /\ pc = [t \in Threads |-> "idle"]
  /\ loc = [t \in Threads |-> NoLocals]

-----------------------------------------------------------------------------
(* request_new, POST.  "BEGIN IMMEDIATE" is translated to nothing, so the  *)
(* SELECT MAX and the INSERT are two unrelated statements; only the unique *)
(* index refuses a number that is taken by then (the handler re-raises).   *)

NewSelectMax(t) ==
  /\ Idle(t) /\ nextId + Cardinality(Inserting) <= MaxId
  /\ \E u \in CanCreateRequest, d \in Devices, max \in Numbers \cup {0} :
       /\ \A n \in Numbers : n <= max
       /\ Begin(t, "new_insert", Job(u, 0, None, d, max + 1))
  /\ UNCHANGED <<tables, rowLock, pages>>

NewInsert(t) ==
  /\ pc[t] = "new_insert" /\ nextId <= MaxId
  /\ nextId' = nextId + 1
  /\ IF Taken(loc[t].number)
       THEN UNCHANGED data
       ELSE data' = [data EXCEPT ![nextId] =
              [status |-> "pending", number |-> loc[t].number, owner |-> None,
               device |-> loc[t].device, report |-> None]]
  /\ Finish(t)
  /\ UNCHANGED <<mojry, mvademasrafi, audit_log, rowLock, pages>>

-----------------------------------------------------------------------------
(* request_complete, GET: lock the request for the reviewer, then show it. *)

GetClaim_WorkerAsOwner(t) ==
  /\ Idle(t)
  /\ \E u \in CanReviewRequest, r \in Ids :
       /\ Free(r) /\ data[r].status = "pending"
       /\ data' = [data EXCEPT ![r].status = "in_progress", ![r].owner = t]
       /\ Begin(t, "get_select", Job(u, r, None, None, 0))
  /\ UNCHANGED <<mojry, mvademasrafi, audit_log, nextId, rowLock, pages>>
GetClaim(t) ==
  /\ Idle(t)
  /\ \E u \in CanReviewRequest, r \in Ids :
       /\ Free(r)
       /\ data' = IF data[r].status = "pending"
                    THEN [data EXCEPT ![r].status = "in_progress", ![r].owner = u]
                    ELSE data
       /\ Begin(t, "get_select", Job(u, r, None, None, 0))
  /\ UNCHANGED <<mojry, mvademasrafi, audit_log, nextId, rowLock, pages>>

GetSelect(t) ==
  LET r == loc[t].req  u == loc[t].user IN
  /\ pc[t] = "get_select" /\ Free(r)
  /\ pages' = IF OwnedBy(r, u)
                THEN pages \cup {<<u, r>>} ELSE pages
  /\ Finish(t)
  /\ UNCHANGED <<tables, rowLock>>

-----------------------------------------------------------------------------
(* request_complete, POST: any reviewer's browser may post any form.       *)

PostSelect(t) ==
  /\ Idle(t)
  /\ \E u \in CanReviewRequest, r \in Ids, f \in Forms :
       /\ Free(r) /\ Exists(r)
       /\ Begin(t, "post_update", Job(u, r, f, data[r].device, 0))
  /\ UNCHANGED <<tables, rowLock, pages>>

PostUpdate(t) ==
  LET r == loc[t].req IN
  /\ pc[t] = "post_update" /\ Free(r)
  /\ \/ /\ OwnedBy(r, loc[t].user)
        /\ rowLock' = [rowLock EXCEPT ![r] = t]
        /\ Goto(t, "post_del_mojry")
     \/ /\ ~OwnedBy(r, loc[t].user)
        /\ Finish(t)
        /\ UNCHANGED rowLock
  /\ UNCHANGED <<tables, pages>>

PostDeleteMojry(t) ==
  LET r == loc[t].req IN
  /\ pc[t] = "post_del_mojry" /\ ~MojryBusy(t, r)
  /\ Begin(t, "post_del_mvad", [loc[t] EXCEPT !.delMojry = RowsOf(mojry, r)])
  /\ UNCHANGED <<tables, rowLock, pages>>

PostDeleteMvad(t) ==
  LET r == loc[t].req IN
  /\ pc[t] = "post_del_mvad" /\ ~MvadBusy(t, r)
  /\ Begin(t, "post_ins_mojry", [loc[t] EXCEPT !.delMvad = RowsOf(mvademasrafi, r)])
  /\ UNCHANGED <<tables, rowLock, pages>>

PostInsertMojry(t) ==
  /\ pc[t] = "post_ins_mojry"
  /\ Goto(t, "post_ins_mvad")
  /\ UNCHANGED <<tables, rowLock, pages>>

\* The rows a completion writes: device_code comes from the SELECT before the
\* transaction, not from the row the UPDATE has just locked.
NewRow_ByNumber(t) == [req |-> data[loc[t].req].number, form |-> loc[t].form,
                       device |-> loc[t].device]
NewRow(t) == [req |-> loc[t].req, form |-> loc[t].form, device |-> loc[t].device]

\* The last INSERT and the commit: everything the transaction did is visible.
PostInsertMvadCommit(t) ==
  LET r == loc[t].req IN
  /\ pc[t] = "post_ins_mvad"
  /\ data' = [data EXCEPT ![r].status = "completed", ![r].owner = None,
                          ![r].report = loc[t].form]
  /\ mojry' = (mojry \ loc[t].delMojry) \cup {NewRow(t)}
  /\ mvademasrafi' = (mvademasrafi \ loc[t].delMvad) \cup {NewRow(t)}
  /\ Unlock(r)
  /\ Finish(t)
  /\ UNCHANGED <<audit_log, nextId, pages>>

-----------------------------------------------------------------------------
(* request_edit, POST.  The UPDATE and the audit INSERT are one            *)
(* transaction that waits for nothing but the data row: one step.          *)

EditSelect(t) ==
  /\ Idle(t)
  /\ \E u \in Admins, r \in Ids, d \in Devices :
       /\ Free(r) /\ Exists(r)
       /\ Begin(t, "edit_update", Job(u, r, None, d, 0))
  /\ UNCHANGED <<tables, rowLock, pages>>

EditUpdate(t) ==
  LET r == loc[t].req IN
  /\ pc[t] = "edit_update" /\ Free(r)
  /\ data' = IF Exists(r) THEN [data EXCEPT ![r].device = loc[t].device] ELSE data
  /\ audit_log' = audit_log \cup {r}
  /\ Finish(t)
  /\ UNCHANGED <<mojry, mvademasrafi, nextId, rowLock, pages>>

-----------------------------------------------------------------------------
(* request_delete: the child rows first, the request last.                 *)

DeleteSelect(t) ==
  /\ Idle(t)
  /\ \E u \in Admins, r \in Ids :
       /\ Free(r) /\ Exists(r)
       /\ Begin(t, "del_mojry", Job(u, r, None, None, 0))
  /\ UNCHANGED <<tables, rowLock, pages>>

DeleteMojry(t) ==
  LET r == loc[t].req IN
  /\ pc[t] = "del_mojry" /\ ~MojryBusy(t, r)
  /\ Begin(t, "del_mvad", [loc[t] EXCEPT !.delMojry = RowsOf(mojry, r)])
  /\ UNCHANGED <<tables, rowLock, pages>>

DeleteMvad(t) ==
  LET r == loc[t].req IN
  /\ pc[t] = "del_mvad" /\ ~MvadBusy(t, r)
  /\ Begin(t, "del_data", [loc[t] EXCEPT !.delMvad = RowsOf(mvademasrafi, r)])
  /\ UNCHANGED <<tables, rowLock, pages>>

DeleteDataCommit(t) ==
  LET r == loc[t].req IN
  /\ pc[t] = "del_data" /\ Free(r)
  /\ data' = [data EXCEPT ![r] = Absent]
  /\ mojry' = mojry \ loc[t].delMojry
  /\ mvademasrafi' = mvademasrafi \ loc[t].delMvad
  /\ Finish(t)
  /\ UNCHANGED <<audit_log, nextId, rowLock, pages>>

-----------------------------------------------------------------------------
(* The server process ends and starts again: handlers are gone, SQL Server *)
(* rolls their transactions back, browsers keep the pages they show.       *)

Restart ==
  /\ pc' = [t \in Threads |-> "idle"]
  /\ loc' = [t \in Threads |-> NoLocals]
  /\ rowLock' = [r \in Ids |-> None]
  /\ UNCHANGED <<tables, pages>>

\* A request arrives at an idle thread (and runs its first statement).
Arrive(t) == \/ NewSelectMax(t) \/ GetClaim(t) \/ PostSelect(t)
             \/ EditSelect(t) \/ DeleteSelect(t)

\* A running handler takes its next statement.
Continue(t) ==
  \/ NewInsert(t) \/ GetSelect(t)
  \/ PostUpdate(t) \/ PostDeleteMojry(t) \/ PostDeleteMvad(t)
  \/ PostInsertMojry(t) \/ PostInsertMvadCommit(t)
  \/ EditUpdate(t) \/ DeleteMojry(t) \/ DeleteMvad(t) \/ DeleteDataCommit(t)

Next == (\E t \in Threads : Arrive(t) \/ Continue(t)) \/ Restart

Spec == Init /\ [][Next]_vars

\* SQL Server grants a lock in the order it was asked for, so a statement
\* that could run again and again does run: strong fairness per thread.  The
\* users owe nothing: no fairness on Arrive.
FairSpec == Spec /\ \A t \in Threads : SF_vars(Continue(t))

-----------------------------------------------------------------------------
(* Properties *)

InCompletion(t) == pc[t] \in {"post_del_mojry", "post_del_mvad",
                              "post_ins_mojry", "post_ins_mvad"}

\* A transaction that completes a request works on a row that is still in
\* review by its own user, and nobody else's transaction has that row: the
\* guard of the UPDATE (app.py:1789-1791) stays true until the commit.
CompletionOwnsItsRow == \A t \in Threads : InCompletion(t) =>
  LET r == loc[t].req IN
  /\ rowLock[r] = t
  /\ data[r].status = "in_progress" /\ data[r].owner = loc[t].user

\* A completion page that a browser shows was given to the only person who can
\* still finish the request: as long as the request is in review its owner is
\* that person, and it never returns to the pending list (app.py:1736-1741).
PagesBelongToOwner == \A p \in pages :
  LET r == p[2] IN
  /\ data[r].status # "pending"
  /\ data[r].status = "in_progress" => data[r].owner = p[1]

\* The contractor and goods rows of a completed request are those of the one
\* form its report comes from, once each and for one device; a request that is
\* not completed has none, whatever was posted meanwhile, twice or by others.
WorkMatchesReport == \A r \in Ids : Exists(r) =>
  /\ RowsOf(mojry, r) = RowsOf(mvademasrafi, r)
  /\ IF data[r].status = "completed"
       THEN \E d \in Devices : RowsOf(mojry, r) =
              {[req |-> r, form |-> data[r].report, device |-> d]}
       ELSE RowsOf(mojry, r) = {}

\* What the invariants above rest on.  A handler's locals are filled in before
\* they are used, a deletion only collects rows of its own request, ids are
\* handed out in order, and no two requests carry one number.
LocalFits(t) ==
  /\ pc[t] \notin {"idle", "new_insert"} => loc[t].req \in Ids
  /\ pc[t] = "get_select" => loc[t].user \in CanReviewRequest
  /\ pc[t] \in {"new_insert", "edit_update", "post_update"} \/ InCompletion(t)
       => loc[t].device \in Devices
  /\ pc[t] = "post_update" \/ InCompletion(t)
       => loc[t].form \in Forms /\ loc[t].req < nextId
  /\ \A x \in loc[t].delMojry \cup loc[t].delMvad : x.req = loc[t].req
LocalsFit == \A t \in Threads : LocalFits(t)

IdsInOrder ==
  /\ \A r \in Ids : Exists(r) => r < nextId /\ data[r].device \in Devices
  /\ \A x \in mojry \cup mvademasrafi : x.req < nextId
  /\ \A p \in pages : p[2] < nextId

NumbersUnique ==
  /\ \A q, r \in Ids : Exists(q) /\ Exists(r) /\ q # r
       => data[q].number # data[r].number
  /\ \A r \in Ids : Exists(r) => data[r].number \in 1..(nextId - 1)
  /\ \A t \in Threads : pc[t] = "new_insert" => loc[t].number \in 1..nextId

IInv == /\ TypeOK /\ LocalsFit /\ IdsInOrder /\ NumbersUnique
        /\ CompletionOwnsItsRow /\ PagesBelongToOwner /\ WorkMatchesReport

\* The request pages implement the board: every statement of every handler is
\* a step of RequestBoard or invisible to it.  The board sees the child rows of
\* the requests that exist, and a request is issued when its id is.
CommittedWork == [r \in Ids |-> IF Exists(r)
  THEN <<RowsOf(mojry, r), RowsOf(mvademasrafi, r)>> ELSE <<{}, {}>>]
IssuedIds == 1..(nextId - 1)
Board == INSTANCE RequestBoard WITH
  request <- data, work <- CommittedWork, issued <- IssuedIds,
  Numbers <- Ids,   \* MAX + 1 never gets ahead of the ids handed out
  Reviewers <- CanReviewRequest
BoardSpec == Board!Spec

\* Every handler that has begun ends: no statement waits for ever for a row
\* another handler keeps locked, and no two wait for each other.
HandlersFinish == \A t \in Threads : pc[t] # "idle" ~> pc[t] = "idle"

\* Claimed by the docstring of request_delete (app.py:1694): a request is
\* deleted completely, with its contractors and goods.  No row outlives it.
DeletionIsComplete == \A x \in mojry \cup mvademasrafi : Exists(x.req)
=============================================================================
