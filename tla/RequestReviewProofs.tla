------------------------ MODULE RequestReviewProofs ------------------------
(***************************************************************************)
(* Proofs about RequestReview for every set of threads, users, forms and   *)
(* devices and every MaxId.  The inductive invariant IInv is established   *)
(* in layers: types and locals first, then the row locks, the numbers, the *)
(* pages and the child rows, each layer using the ones before it.          *)
(***************************************************************************)
EXTENDS RequestReview, TLAPS

-----------------------------------------------------------------------------
(* Types *)

USE DEF OwnedBy, Taken, Unlock

LEMMA BeginType ==
  ASSUME pc \in [Threads -> Labels], loc \in [Threads -> Locals],
         NEW t \in Threads, NEW label \in Labels, NEW locals \in Locals,
         Begin(t, label, locals)
  PROVE  pc' \in [Threads -> Labels] /\ loc' \in [Threads -> Locals]
  BY DEF Begin

LEMMA JobType ==
  ASSUME NEW u \in Users \cup {None}, NEW r \in Ids \cup {0},
         NEW f \in Forms \cup {None}, NEW d \in Devices \cup {None}, NEW n \in Nat
  PROVE  Job(u, r, f, d, n) \in Locals
  BY DEF Job, Locals

LEMMA NoLocalsType == NoLocals \in Locals
  BY JobType DEF NoLocals

LEMMA DeletedType ==
  ASSUME NEW l \in Locals, NEW S \in SUBSET ChildRow, NEW r
  PROVE  /\ [l EXCEPT !.delMojry = RowsOf(S, r)] \in Locals
         /\ [l EXCEPT !.delMvad = RowsOf(S, r)] \in Locals
<1>1. RowsOf(S, r) \in SUBSET ChildRow
  BY DEF RowsOf
<1> QED BY <1>1 DEF Locals

LEMMA RolesAreUsers == CanReviewRequest \subseteq Users /\ CanCreateRequest \subseteq Users /\ Admins \subseteq Users
  BY DEF CanReviewRequest, CanCreateRequest, Users

\* Inductive by itself: the row lock of a completion is what keeps its row in
\* place, and with it the device and the id the completion writes.
TypeInv == TypeOK /\ LocalsFit /\ IdsInOrder /\ CompletionOwnsItsRow

LEMMA TypeStep == TypeInv /\ [Next]_vars => TypeOK'
<1> SUFFICES ASSUME TypeInv, [Next]_vars PROVE TypeOK'
  OBVIOUS
<1> USE DEF TypeInv, Labels, tables
<1>1. ASSUME NEW t \in Threads, NewSelectMax(t) PROVE TypeOK'
  <2>1. \A n \in Numbers \cup {0} : n + 1 \in Nat
    BY DEF TypeOK, Row, Numbers
  <2>2. pc' \in [Threads -> Labels] /\ loc' \in [Threads -> Locals]
    BY <1>1, <2>1, BeginType, JobType, RolesAreUsers DEF TypeOK, NewSelectMax
  <2> QED BY <1>1, <2>2 DEF TypeOK, NewSelectMax
<1>2. ASSUME NEW t \in Threads, NewInsert(t) PROVE TypeOK'
  <2>1. loc[t].number \in Nat /\ loc[t].device \in Devices /\ nextId \in Ids /\ nextId' \in 1..(MaxId + 1)
    BY <1>2, ConstantsAssumption DEF TypeOK, NewInsert, LocalsFit, LocalFits, Locals, Ids
  <2>2. data' \in [Ids -> Row]
    <3> DEFINE row == [status |-> "pending", number |-> loc[t].number, owner |-> None,
                       device |-> loc[t].device, report |-> None]
    <3>1. row \in Row
      BY <2>1 DEF Row
    <3>2. data' = data \/ data' = [data EXCEPT ![nextId] = row]
      BY <1>2 DEF NewInsert
    <3> HIDE DEF row
    <3> QED BY <2>1, <3>1, <3>2 DEF TypeOK
  <2>3. pc' \in [Threads -> Labels] /\ loc' \in [Threads -> Locals]
    BY <1>2, BeginType, NoLocalsType DEF TypeOK, NewInsert, Finish
  <2> QED BY <1>2, <2>1, <2>2, <2>3 DEF TypeOK, NewInsert
<1>3. ASSUME NEW t \in Threads, GetClaim(t) PROVE TypeOK'
  <2>1. PICK u \in CanReviewRequest, r \in Ids :
          /\ data' = IF data[r].status = "pending"
                       THEN [data EXCEPT ![r].status = "in_progress", ![r].owner = u]
                       ELSE data
          /\ Begin(t, "get_select", Job(u, r, None, None, 0))
    BY <1>3 DEF GetClaim
  <2>2. ASSUME data[r].status = "pending" PROVE data' \in [Ids -> Row]
    <3>1. data' = [data EXCEPT ![r].status = "in_progress", ![r].owner = u]
      BY <2>1, <2>2
    <3>2. data[r] \in Row /\ u \in Users
      BY RolesAreUsers DEF TypeOK
    <3> DEFINE row == [data[r] EXCEPT !.status = "in_progress", !.owner = u]
    <3>3. row \in Row
      BY <3>2 DEF Row
    <3>4. data' = [data EXCEPT ![r] = row]
      BY <3>1
    <3> HIDE DEF row
    <3> QED BY <3>3, <3>4 DEF TypeOK
  <2>3. data' \in [Ids -> Row]
    BY <2>1, <2>2 DEF TypeOK
  <2>4. pc' \in [Threads -> Labels] /\ loc' \in [Threads -> Locals]
    BY <2>1, BeginType, JobType, RolesAreUsers DEF TypeOK
  <2> QED BY <1>3, <2>3, <2>4 DEF TypeOK, GetClaim
<1>4. ASSUME NEW t \in Threads, GetSelect(t) PROVE TypeOK'
  <2>1. loc[t].req \in Ids /\ loc[t].user \in Users
    BY <1>4, RolesAreUsers DEF GetSelect, LocalsFit, LocalFits
  <2>2. pages' \subseteq Users \X Ids
    BY <1>4, <2>1 DEF TypeOK, GetSelect
  <2>3. pc' \in [Threads -> Labels] /\ loc' \in [Threads -> Locals]
    BY <1>4, BeginType, NoLocalsType DEF TypeOK, GetSelect, Finish
  <2> QED BY <1>4, <2>2, <2>3 DEF TypeOK, GetSelect
<1>5. ASSUME NEW t \in Threads, PostSelect(t) PROVE TypeOK'
  <2>1. \A r \in Ids : data[r].device \in Devices \cup {None}
    BY DEF TypeOK, Row
  <2>2. pc' \in [Threads -> Labels] /\ loc' \in [Threads -> Locals]
    BY <1>5, <2>1, BeginType, JobType, RolesAreUsers DEF TypeOK, PostSelect
  <2> QED BY <1>5, <2>2 DEF TypeOK, PostSelect
<1>6. ASSUME NEW t \in Threads, PostUpdate(t) PROVE TypeOK'
  <2>1. CASE Finish(t) /\ UNCHANGED rowLock
    <3>1. pc' \in [Threads -> Labels] /\ loc' \in [Threads -> Locals]
      BY <2>1, BeginType, NoLocalsType DEF TypeOK, Finish
    <3> QED BY <1>6, <2>1, <3>1 DEF TypeOK, PostUpdate
  <2>2. CASE Goto(t, "post_del_mojry") /\ rowLock' = [rowLock EXCEPT ![loc[t].req] = t]
    BY <1>6, <2>2 DEF TypeOK, PostUpdate, Goto
  <2> QED BY <1>6, <2>1, <2>2 DEF PostUpdate
<1>7. ASSUME NEW t \in Threads, PostDeleteMojry(t) \/ DeleteMojry(t) PROVE TypeOK'
  <2>1. [loc[t] EXCEPT !.delMojry = RowsOf(mojry, loc[t].req)] \in Locals
    BY DeletedType DEF TypeOK
  <2>2. pc' \in [Threads -> Labels] /\ loc' \in [Threads -> Locals]
    BY <1>7, <2>1, BeginType DEF TypeOK, PostDeleteMojry, DeleteMojry
  <2> QED BY <1>7, <2>2 DEF TypeOK, PostDeleteMojry, DeleteMojry
<1>8. ASSUME NEW t \in Threads, PostDeleteMvad(t) \/ DeleteMvad(t) PROVE TypeOK'
  <2>1. [loc[t] EXCEPT !.delMvad = RowsOf(mvademasrafi, loc[t].req)] \in Locals
    BY DeletedType DEF TypeOK
  <2>2. pc' \in [Threads -> Labels] /\ loc' \in [Threads -> Locals]
    BY <1>8, <2>1, BeginType DEF TypeOK, PostDeleteMvad, DeleteMvad
  <2> QED BY <1>8, <2>2 DEF TypeOK, PostDeleteMvad, DeleteMvad
<1>9. ASSUME NEW t \in Threads, PostInsertMojry(t) PROVE TypeOK'
  BY <1>9 DEF TypeOK, PostInsertMojry, Goto
<1>10. ASSUME NEW t \in Threads, PostInsertMvadCommit(t) PROVE TypeOK'
  <2>1. data' \in [Ids -> Row]
    BY <1>10 DEF TypeOK, Row, PostInsertMvadCommit, LocalsFit, LocalFits, InCompletion
  <2>2. NewRow(t) \in ChildRow
    BY <1>10 DEF NewRow, ChildRow, LocalsFit, LocalFits, InCompletion, PostInsertMvadCommit
  <2>3. /\ mojry' \subseteq ChildRow /\ mvademasrafi' \subseteq ChildRow
        /\ rowLock' \in [Ids -> Threads \cup {None}]
    BY <1>10, <2>2 DEF TypeOK, PostInsertMvadCommit
  <2>4. pc' \in [Threads -> Labels] /\ loc' \in [Threads -> Locals]
    BY <1>10, BeginType, NoLocalsType DEF TypeOK, PostInsertMvadCommit, Finish
  <2> QED BY <1>10, <2>1, <2>3, <2>4 DEF TypeOK, PostInsertMvadCommit
<1>11. ASSUME NEW t \in Threads, EditSelect(t) PROVE TypeOK'
  <2>1. pc' \in [Threads -> Labels] /\ loc' \in [Threads -> Locals]
    BY <1>11, BeginType, JobType, RolesAreUsers DEF TypeOK, EditSelect
  <2> QED BY <1>11, <2>1 DEF TypeOK, EditSelect
<1>12. ASSUME NEW t \in Threads, EditUpdate(t) PROVE TypeOK'
  <2>1. data' \in [Ids -> Row] /\ audit_log' \subseteq Ids
    BY <1>12 DEF TypeOK, Row, EditUpdate, LocalsFit, LocalFits
  <2>2. pc' \in [Threads -> Labels] /\ loc' \in [Threads -> Locals]
    BY <1>12, BeginType, NoLocalsType DEF TypeOK, EditUpdate, Finish
  <2> QED BY <1>12, <2>1, <2>2 DEF TypeOK, EditUpdate
<1>13. ASSUME NEW t \in Threads, DeleteSelect(t) PROVE TypeOK'
  <2>1. pc' \in [Threads -> Labels] /\ loc' \in [Threads -> Locals]
    BY <1>13, BeginType, JobType, RolesAreUsers DEF TypeOK, DeleteSelect
  <2> QED BY <1>13, <2>1 DEF TypeOK, DeleteSelect
<1>14. ASSUME NEW t \in Threads, DeleteDataCommit(t) PROVE TypeOK'
  <2>1. data' \in [Ids -> Row]
    BY <1>14 DEF TypeOK, Row, Absent, DeleteDataCommit
  <2>2. pc' \in [Threads -> Labels] /\ loc' \in [Threads -> Locals]
    BY <1>14, BeginType, NoLocalsType DEF TypeOK, DeleteDataCommit, Finish
  <2> QED BY <1>14, <2>1, <2>2 DEF TypeOK, DeleteDataCommit
<1>15. CASE Restart
  BY <1>15, NoLocalsType DEF TypeOK, Restart
<1>16. CASE UNCHANGED vars
  BY <1>16 DEF TypeOK, vars
<1> QED
  BY <1>1, <1>2, <1>3, <1>4, <1>5, <1>6, <1>7, <1>8, <1>9, <1>10, <1>11, <1>12,
     <1>13, <1>14, <1>15, <1>16 DEF Next, Arrive, Continue

\* A step of t moves t's control and locals only.
LEMMA BeginEffect ==
  ASSUME TypeOK, NEW t \in Threads, NEW label, NEW locals, Begin(t, label, locals)
  PROVE  /\ pc'[t] = label /\ loc'[t] = locals
         /\ \A s \in Threads \ {t} : pc'[s] = pc[s] /\ loc'[s] = loc[s]
  BY DEF TypeOK, Begin

LEMMA GotoEffect ==
  ASSUME TypeOK, NEW t \in Threads, NEW label, Goto(t, label)
  PROVE  /\ pc'[t] = label /\ loc' = loc
         /\ \A s \in Threads \ {t} : pc'[s] = pc[s]
  BY DEF TypeOK, Goto

LEMMA OthersFit ==
  ASSUME TypeOK, LocalsFit, NEW t \in Threads, nextId' = nextId \/ nextId' = nextId + 1,
         \A s \in Threads \ {t} : pc'[s] = pc[s] /\ loc'[s] = loc[s], LocalFits(t)'
  PROVE  LocalsFit'
<1> SUFFICES ASSUME NEW s \in Threads \ {t} PROVE LocalFits(s)'
  BY DEF LocalsFit
<1>1. loc[s].req < nextId => loc'[s].req < nextId'
  BY DEF TypeOK, Locals, Ids
<1> QED BY <1>1 DEF LocalsFit, LocalFits, InCompletion

LEMMA LocalsStep == TypeInv /\ [Next]_vars => LocalsFit'
<1> SUFFICES ASSUME TypeInv, [Next]_vars PROVE LocalsFit'
  OBVIOUS
<1> USE DEF TypeInv, tables
<1>1. ASSUME NEW t \in Threads, Finish(t), nextId' = nextId \/ nextId' = nextId + 1
      PROVE  LocalsFit'
  <2>1. LocalFits(t)'
    BY <1>1, BeginEffect DEF Finish, NoLocals, Job, LocalFits, InCompletion
  <2> QED BY <1>1, <2>1, BeginEffect, OthersFit DEF Finish
<1>2. ASSUME NEW t \in Threads, NewSelectMax(t) PROVE LocalsFit'
  <2>1. LocalFits(t)'
    BY <1>2, BeginEffect DEF NewSelectMax, Job, LocalFits, InCompletion
  <2> QED BY <1>2, <2>1, BeginEffect, OthersFit DEF NewSelectMax
<1>3. ASSUME NEW t \in Threads, GetClaim(t) PROVE LocalsFit'
  <2>1. LocalFits(t)'
    BY <1>3, BeginEffect DEF GetClaim, Job, LocalFits, InCompletion
  <2> QED BY <1>3, <2>1, BeginEffect, OthersFit DEF GetClaim
<1>4. ASSUME NEW t \in Threads, PostSelect(t) PROVE LocalsFit'
  <2>1. LocalFits(t)'
    <3>1. PICK u \in CanReviewRequest, r \in Ids, f \in Forms :
            Exists(r) /\ Begin(t, "post_update", Job(u, r, f, data[r].device, 0))
      BY <1>4 DEF PostSelect
    <3>2. r < nextId /\ data[r].device \in Devices /\ nextId' = nextId
      BY <1>4, <3>1 DEF PostSelect, IdsInOrder
    <3> QED BY <3>1, <3>2, BeginEffect DEF Job, LocalFits, InCompletion
  <2> QED BY <1>4, <2>1, BeginEffect, OthersFit DEF PostSelect
<1>5. ASSUME NEW t \in Threads, EditSelect(t) \/ DeleteSelect(t) PROVE LocalsFit'
  <2>1. LocalFits(t)'
    <3>1. PICK u \in Admins, r \in Ids, d \in Devices \cup {None} :
            \/ d \in Devices /\ Begin(t, "edit_update", Job(u, r, None, d, 0))
            \/ Begin(t, "del_mojry", Job(u, r, None, None, 0))
      BY <1>5 DEF EditSelect, DeleteSelect
    <3> QED BY <3>1, BeginEffect DEF Job, LocalFits, InCompletion
  <2> QED BY <1>5, <2>1, BeginEffect, OthersFit DEF EditSelect, DeleteSelect
<1>6. ASSUME NEW t \in Threads, PostUpdate(t) PROVE LocalsFit'
  <2>1. CASE Goto(t, "post_del_mojry")
    <3>1. LocalFits(t)'
      BY <1>6, <2>1, GotoEffect DEF PostUpdate, LocalsFit, LocalFits, InCompletion
    <3> QED BY <1>6, <2>1, <3>1, GotoEffect, OthersFit DEF PostUpdate
  <2> QED BY <1>1, <1>6, <2>1 DEF PostUpdate
<1>7. ASSUME NEW t \in Threads, PostInsertMojry(t) PROVE LocalsFit'
  <2>1. LocalFits(t)'
    BY <1>7, GotoEffect DEF PostInsertMojry, LocalsFit, LocalFits, InCompletion
  <2> QED BY <1>7, <2>1, GotoEffect, OthersFit DEF PostInsertMojry
<1>8. ASSUME NEW t \in Threads, PostDeleteMojry(t) \/ DeleteMojry(t) PROVE LocalsFit'
  <2>1. /\ loc'[t] = [loc[t] EXCEPT !.delMojry = RowsOf(mojry, loc[t].req)]
        /\ pc'[t] \in {"post_del_mvad", "del_mvad"}
        /\ pc'[t] = "post_del_mvad" => pc[t] = "post_del_mojry"
        /\ pc'[t] = "del_mvad" => pc[t] = "del_mojry"
    BY <1>8, BeginEffect DEF PostDeleteMojry, DeleteMojry
  <2>2. LocalFits(t)'
    <3>1. loc[t] \in Locals
      BY DEF TypeOK
    <3>2. /\ loc'[t].req = loc[t].req /\ loc'[t].device = loc[t].device
          /\ loc'[t].form = loc[t].form /\ loc'[t].user = loc[t].user
          /\ loc'[t].delMojry = RowsOf(mojry, loc[t].req)
          /\ loc'[t].delMvad = loc[t].delMvad
      BY <2>1, <3>1 DEF Locals
    <3> QED BY <1>8, <2>1, <3>2 DEF LocalsFit, LocalFits, InCompletion, RowsOf, PostDeleteMojry, DeleteMojry
  <2> QED BY <1>8, <2>2, BeginEffect, OthersFit DEF PostDeleteMojry, DeleteMojry
<1>9. ASSUME NEW t \in Threads, PostDeleteMvad(t) \/ DeleteMvad(t) PROVE LocalsFit'
  <2>1. /\ loc'[t] = [loc[t] EXCEPT !.delMvad = RowsOf(mvademasrafi, loc[t].req)]
        /\ pc'[t] \in {"post_ins_mojry", "del_data"}
        /\ pc'[t] = "post_ins_mojry" => pc[t] = "post_del_mvad"
        /\ pc'[t] = "del_data" => pc[t] = "del_mvad"
    BY <1>9, BeginEffect DEF PostDeleteMvad, DeleteMvad
  <2>2. LocalFits(t)'
    <3>1. loc[t] \in Locals
      BY DEF TypeOK
    <3>2. /\ loc'[t].req = loc[t].req /\ loc'[t].device = loc[t].device
          /\ loc'[t].form = loc[t].form /\ loc'[t].user = loc[t].user
          /\ loc'[t].delMvad = RowsOf(mvademasrafi, loc[t].req)
          /\ loc'[t].delMojry = loc[t].delMojry
      BY <2>1, <3>1 DEF Locals
    <3> QED BY <1>9, <2>1, <3>2 DEF LocalsFit, LocalFits, InCompletion, RowsOf, PostDeleteMvad, DeleteMvad
  <2> QED BY <1>9, <2>2, BeginEffect, OthersFit DEF PostDeleteMvad, DeleteMvad
<1>10. ASSUME NEW t \in Threads, NewInsert(t) \/ GetSelect(t) \/ PostInsertMvadCommit(t)
              \/ EditUpdate(t) \/ DeleteDataCommit(t)
       PROVE  LocalsFit'
  BY <1>1, <1>10 DEF NewInsert, GetSelect, PostInsertMvadCommit, EditUpdate, DeleteDataCommit
<1>11. CASE Restart
  BY <1>11 DEF Restart, LocalsFit, LocalFits, InCompletion, NoLocals, Job
<1>12. CASE UNCHANGED vars
  BY <1>12 DEF vars, LocalsFit, LocalFits, InCompletion
<1> QED
  BY <1>2, <1>3, <1>4, <1>5, <1>6, <1>7, <1>8, <1>9, <1>10, <1>11, <1>12
  DEF Next, Arrive, Continue

LEMMA IdsStep == TypeInv /\ [Next]_vars => IdsInOrder'
<1> SUFFICES ASSUME TypeInv, [Next]_vars PROVE IdsInOrder'
  OBVIOUS
<1> USE DEF TypeInv, tables
<1>1. CASE UNCHANGED <<tables, pages>>
  BY <1>1 DEF IdsInOrder, Exists
<1>2. ASSUME NEW t \in Threads, NewInsert(t) PROVE IdsInOrder'
  <2>1. loc[t].device \in Devices /\ nextId \in Ids
    BY <1>2, ConstantsAssumption DEF TypeOK, NewInsert, LocalsFit, LocalFits, Ids
  <2>2. nextId' = nextId + 1 /\ UNCHANGED <<mojry, mvademasrafi, pages>>
    BY <1>2 DEF NewInsert
  <2>3. \A r \in Ids : data'[r] = data[r] \/ (r = nextId /\ data'[r].device = loc[t].device)
    BY <1>2, <2>1 DEF NewInsert, TypeOK
  <2>4. \A r \in Ids : Exists(r)' => r < nextId' /\ data'[r].device \in Devices
    BY <2>1, <2>2, <2>3 DEF IdsInOrder, Exists, Ids
  <2>5. /\ \A x \in mojry \cup mvademasrafi : x.req < nextId + 1
        /\ \A p \in pages : p[2] < nextId + 1
    <3>1. \A x \in mojry \cup mvademasrafi : x.req \in Ids
      BY DEF TypeOK, ChildRow
    <3>2. \A p \in pages : p[2] \in Ids
      BY DEF TypeOK
    <3> QED BY <2>1, <3>1, <3>2 DEF IdsInOrder, Ids
  <2> QED BY <2>2, <2>4, <2>5 DEF IdsInOrder
<1>3. ASSUME NEW t \in Threads, GetClaim(t) PROVE IdsInOrder'
  <2>1. \A r \in Ids : /\ data'[r].device = data[r].device
                       /\ Exists(r)' => Exists(r)
    BY <1>3 DEF GetClaim, TypeOK, Row, Exists
  <2> QED BY <1>3, <2>1 DEF GetClaim, IdsInOrder
<1>4. ASSUME NEW t \in Threads, GetSelect(t) PROVE IdsInOrder'
  <2>1. /\ loc[t].req \in Ids
        /\ data[loc[t].req].status = "in_progress" => loc[t].req < nextId
    BY <1>4 DEF GetSelect, LocalsFit, LocalFits, IdsInOrder, Exists
  <2> QED BY <1>4, <2>1 DEF GetSelect, IdsInOrder, Exists
<1>5. ASSUME NEW t \in Threads, PostInsertMvadCommit(t) PROVE IdsInOrder'
  <2>1. loc[t].req < nextId /\ loc[t].req \in Ids /\ loc[t].device \in Devices
    BY <1>5 DEF PostInsertMvadCommit, LocalsFit, LocalFits, InCompletion
  <2>2. NewRow(t).req < nextId
    BY <2>1 DEF NewRow
  <2>3. \A x \in mojry' \cup mvademasrafi' : x.req < nextId'
    BY <1>5, <2>2 DEF PostInsertMvadCommit, IdsInOrder
  <2>4. \A r \in Ids : /\ data'[r].device = data[r].device
                       /\ Exists(r)' => Exists(r) \/ r = loc[t].req
    BY <1>5 DEF PostInsertMvadCommit, Exists, TypeOK, Row
  <2>5. Exists(loc[t].req)
    BY <1>5 DEF PostInsertMvadCommit, CompletionOwnsItsRow, InCompletion, Exists
  <2> QED BY <1>5, <2>3, <2>4, <2>5 DEF PostInsertMvadCommit, IdsInOrder
<1>6. ASSUME NEW t \in Threads, EditUpdate(t) PROVE IdsInOrder'
  <2>1. loc[t].device \in Devices
    BY <1>6 DEF EditUpdate, LocalsFit, LocalFits
  <2> QED BY <1>6, <2>1 DEF EditUpdate, IdsInOrder, Exists, TypeOK, Row
<1>7. ASSUME NEW t \in Threads, DeleteDataCommit(t) PROVE IdsInOrder'
  <2>1. \A r \in Ids : Exists(r)' => Exists(r) /\ data'[r] = data[r]
    BY <1>7 DEF DeleteDataCommit, Exists, Absent, TypeOK
  <2> QED BY <1>7, <2>1 DEF DeleteDataCommit, IdsInOrder
<1> QED
  BY <1>1, <1>2, <1>3, <1>4, <1>5, <1>6, <1>7
  DEF Next, Arrive, Continue, vars, NewSelectMax, PostSelect, PostUpdate, PostDeleteMojry,
      PostDeleteMvad, PostInsertMojry, EditSelect, DeleteSelect, DeleteMojry, DeleteMvad, Restart

LEMMA LockStep == TypeInv /\ [Next]_vars => CompletionOwnsItsRow'
<1> SUFFICES ASSUME TypeInv, [Next]_vars PROVE CompletionOwnsItsRow'
  OBVIOUS
<1> USE DEF TypeInv, tables
<1> DEFINE Owns(s) == /\ rowLock[loc[s].req] = s
                      /\ data[loc[s].req].status = "in_progress"
                      /\ data[loc[s].req].owner = loc[s].user
<1>0. \A s \in Threads : InCompletion(s) => Owns(s) /\ loc[s].req \in Ids
  BY DEF CompletionOwnsItsRow, LocalsFit, LocalFits, InCompletion
<1>1. SUFFICES \A s \in Threads : InCompletion(s)' => Owns(s)'
  BY DEF CompletionOwnsItsRow
\* A step that leaves the data rows and their locks alone.
<1>2. ASSUME UNCHANGED <<data, rowLock>>,
             \A s \in Threads : InCompletion(s)' =>
               /\ InCompletion(s) /\ loc'[s].req = loc[s].req /\ loc'[s].user = loc[s].user
      PROVE  \A s \in Threads : InCompletion(s)' => Owns(s)'
  BY <1>0, <1>2
\* A step of a handler that may change rows nobody else has locked.
<1>3. ASSUME NEW t \in Threads, Finish(t), NEW r \in Ids, Free(r) \/ rowLock[r] = t,
             \A q \in Ids \ {r} : data'[q] = data[q] /\ rowLock'[q] = rowLock[q]
      PROVE  \A s \in Threads : InCompletion(s)' => Owns(s)'
  <2>1. ~InCompletion(t)'
    BY <1>3, BeginEffect DEF Finish, InCompletion
  <2>2. ASSUME NEW s \in Threads \ {t}, InCompletion(s)' PROVE Owns(s)'
    <3>1. loc'[s] = loc[s] /\ InCompletion(s)
      BY <1>3, <2>2, BeginEffect DEF Finish, InCompletion
    <3>2. loc[s].req # r
      BY <1>0, <1>3, <3>1, ConstantsAssumption DEF Free
    <3> QED BY <1>0, <1>3, <3>1, <3>2
  <2> QED BY <2>1, <2>2
<1>4. ASSUME NEW t \in Threads, NEW label, NEW locals, Begin(t, label, locals),
             label \notin {"post_del_mojry", "post_del_mvad", "post_ins_mojry", "post_ins_mvad"},
             UNCHANGED <<data, rowLock>>
      PROVE  \A s \in Threads : InCompletion(s)' => Owns(s)'
  BY <1>2, <1>4, BeginEffect DEF InCompletion
<1>5. ASSUME NEW t \in Threads, NewSelectMax(t) \/ PostSelect(t) \/ EditSelect(t)
              \/ DeleteSelect(t) \/ DeleteMojry(t) \/ DeleteMvad(t) \/ GetSelect(t)
      PROVE  \A s \in Threads : InCompletion(s)' => Owns(s)'
  BY <1>4, <1>5 DEF NewSelectMax, PostSelect, EditSelect, DeleteSelect, DeleteMojry,
                    DeleteMvad, GetSelect, Finish
<1>6. ASSUME NEW t \in Threads, NewInsert(t)
      PROVE  \A s \in Threads : InCompletion(s)' => Owns(s)'
  <2>1. \A s \in Threads : InCompletion(s)' => InCompletion(s) /\ loc'[s] = loc[s]
    BY <1>6, BeginEffect DEF NewInsert, Finish, InCompletion
  <2>2. \A s \in Threads : InCompletion(s) => loc[s].req # nextId
    BY DEF LocalsFit, LocalFits, TypeOK
  <2>3. UNCHANGED rowLock /\ \A q \in Ids \ {nextId} : data'[q] = data[q]
    BY <1>6 DEF NewInsert, TypeOK
  <2> QED BY <1>0, <2>1, <2>2, <2>3
<1>7. ASSUME NEW t \in Threads, GetClaim(t)
      PROVE  \A s \in Threads : InCompletion(s)' => Owns(s)'
  <2>1. \A s \in Threads : InCompletion(s)' => InCompletion(s) /\ loc'[s] = loc[s]
    BY <1>7, BeginEffect DEF GetClaim, InCompletion
  <2>2. UNCHANGED rowLock
        /\ \A q \in Ids : data[q].status = "in_progress" => data'[q] = data[q]
    BY <1>7 DEF GetClaim, TypeOK
  <2> QED BY <1>0, <2>1, <2>2
<1>8. ASSUME NEW t \in Threads, PostUpdate(t)
      PROVE  \A s \in Threads : InCompletion(s)' => Owns(s)'
  <2>1. CASE Finish(t) /\ UNCHANGED rowLock
    BY <1>4, <1>8, <2>1 DEF PostUpdate, Finish
  <2>2. CASE /\ Goto(t, "post_del_mojry") /\ rowLock' = [rowLock EXCEPT ![loc[t].req] = t]
             /\ data[loc[t].req].status = "in_progress" /\ data[loc[t].req].owner = loc[t].user
    <3>1. loc[t].req \in Ids /\ Free(loc[t].req) /\ UNCHANGED <<data, loc>>
      BY <1>8, <2>2 DEF PostUpdate, LocalsFit, LocalFits, Goto
    <3>2. ASSUME NEW s \in Threads \ {t}, InCompletion(s)' PROVE Owns(s)'
      <4>1. InCompletion(s)
        BY <2>2, <3>2, GotoEffect DEF InCompletion
      <4>2. loc[s].req # loc[t].req
        BY <1>0, <3>1, <4>1, ConstantsAssumption DEF Free
      <4> QED BY <1>0, <2>2, <3>1, <4>1, <4>2 DEF TypeOK
    <3>3. Owns(t)'
      BY <2>2, <3>1 DEF TypeOK
    <3> QED BY <3>2, <3>3
  <2> QED BY <1>8, <2>1, <2>2 DEF PostUpdate
<1>9. ASSUME NEW t \in Threads,
             PostDeleteMojry(t) \/ PostDeleteMvad(t) \/ PostInsertMojry(t)
      PROVE  \A s \in Threads : InCompletion(s)' => Owns(s)'
  <2>1. InCompletion(t) /\ UNCHANGED <<data, rowLock>>
    BY <1>9 DEF PostDeleteMojry, PostDeleteMvad, PostInsertMojry, InCompletion
  <2>2. loc'[t].req = loc[t].req /\ loc'[t].user = loc[t].user
    <3>1. loc[t] \in Locals
      BY DEF TypeOK
    <3> QED BY <1>9, <3>1, BeginEffect DEF PostDeleteMojry, PostDeleteMvad, PostInsertMojry,
                                           Goto, Locals
  <2>3. \A s \in Threads \ {t} : pc'[s] = pc[s] /\ loc'[s] = loc[s]
    BY <1>9, BeginEffect, GotoEffect DEF PostDeleteMojry, PostDeleteMvad, PostInsertMojry
  <2> QED BY <1>2, <2>1, <2>2, <2>3 DEF InCompletion
<1>10. ASSUME NEW t \in Threads, PostInsertMvadCommit(t)
       PROVE  \A s \in Threads : InCompletion(s)' => Owns(s)'
  <2>1. rowLock[loc[t].req] = t /\ loc[t].req \in Ids
    BY <1>0, <1>10 DEF PostInsertMvadCommit, InCompletion
  <2> QED BY <1>3, <1>10, <2>1 DEF PostInsertMvadCommit, TypeOK
<1>11. ASSUME NEW t \in Threads, EditUpdate(t) \/ DeleteDataCommit(t)
       PROVE  \A s \in Threads : InCompletion(s)' => Owns(s)'
  <2>1. loc[t].req \in Ids
    BY <1>11 DEF EditUpdate, DeleteDataCommit, LocalsFit, LocalFits
  <2> QED BY <1>3, <1>11, <2>1 DEF EditUpdate, DeleteDataCommit, TypeOK
<1>12. CASE Restart
  BY <1>12 DEF Restart, InCompletion
<1>13. CASE UNCHANGED vars
  BY <1>2, <1>13 DEF vars, InCompletion
<1> QED
  BY <1>5, <1>6, <1>7, <1>8, <1>9, <1>10, <1>11, <1>12, <1>13 DEF Next, Arrive, Continue

LEMMA TypeInit == Init => TypeInv
  BY NoLocalsType, ConstantsAssumption
  DEF Init, TypeInv, TypeOK, Row, Absent, Labels, LocalsFit, LocalFits, InCompletion,
      NoLocals, Job, IdsInOrder, Exists, Ids, CompletionOwnsItsRow

\* Type correctness, for every value of the constants: every row, lock, page and
\* local variable the handlers of app.py leave behind has its type.
THEOREM TypeCorrect == Spec => []TypeOK
<1>1. TypeInv /\ [Next]_vars => TypeInv'
  BY TypeStep, LocalsStep, IdsStep, LockStep DEF TypeInv
<1>2. TypeInv => TypeOK  BY DEF TypeInv
<1> QED  BY <1>1, <1>2, TypeInit, PTL DEF Spec

-----------------------------------------------------------------------------
(* Numbers, pages, child rows *)

\* Every step but a registration, seen from the data rows.
LEMMA RowsPersist ==
  ASSUME TypeInv, [Next]_vars, \A t \in Threads : ~NewInsert(t)
  PROVE  /\ nextId' = nextId
         /\ \A r \in Ids : Exists(r)' => Exists(r) /\ data'[r].number = data[r].number
<1> USE DEF TypeInv, tables, Exists
<1>1. CASE UNCHANGED <<data, nextId>>
  BY <1>1
<1>2. ASSUME NEW t \in Threads, GetClaim(t) \/ EditUpdate(t) \/ DeleteDataCommit(t)
              \/ PostInsertMvadCommit(t)
      PROVE  nextId' = nextId
             /\ \A r \in Ids : Exists(r)' => Exists(r) /\ data'[r].number = data[r].number
  <2>1. CASE GetClaim(t)
    BY <2>1 DEF GetClaim, TypeOK, Row
  <2>2. CASE EditUpdate(t)
    BY <2>2 DEF EditUpdate, TypeOK, Row
  <2>3. CASE DeleteDataCommit(t)
    BY <2>3 DEF DeleteDataCommit, TypeOK, Absent
  <2>4. CASE PostInsertMvadCommit(t)
    <3>1. data[loc[t].req].status = "in_progress"
      BY <2>4 DEF PostInsertMvadCommit, CompletionOwnsItsRow, InCompletion
    <3> QED BY <2>4, <3>1 DEF PostInsertMvadCommit, TypeOK, Row
  <2> QED BY <1>2, <2>1, <2>2, <2>3, <2>4
<1> QED
  BY <1>1, <1>2
  DEF Next, Arrive, Continue, vars, NewSelectMax, PostSelect, PostUpdate, PostDeleteMojry, GetSelect,
      PostDeleteMvad, PostInsertMojry, EditSelect, DeleteSelect, DeleteMojry, DeleteMvad, Restart

LEMMA NumbersStep == TypeInv /\ NumbersUnique /\ [Next]_vars => NumbersUnique'
<1> SUFFICES ASSUME TypeInv, NumbersUnique, [Next]_vars PROVE NumbersUnique'
  OBVIOUS
<1> USE DEF TypeInv
<1>1. ASSUME NEW t \in Threads, NewInsert(t) PROVE NumbersUnique'
  <2>1. /\ nextId \in Ids /\ nextId' = nextId + 1
        /\ loc[t].number \in 1..nextId
    BY <1>1, ConstantsAssumption DEF NewInsert, TypeOK, NumbersUnique, Ids
  <2>2. \A s \in Threads : pc'[s] = "new_insert" => pc[s] = "new_insert" /\ loc'[s] = loc[s]
    BY <1>1, BeginEffect DEF NewInsert, Finish
  <2>3. \A s \in Threads : pc'[s] = "new_insert" => loc'[s].number \in 1..nextId'
    BY <2>1, <2>2 DEF NumbersUnique, Ids
  <2>4. CASE UNCHANGED data
    BY <2>1, <2>3, <2>4 DEF NumbersUnique, Exists, Ids
  <2>5. CASE /\ loc[t].number \notin Numbers
             /\ data' = [data EXCEPT ![nextId] =
                  [status |-> "pending", number |-> loc[t].number, owner |-> None,
                   device |-> loc[t].device, report |-> None]]
    <3>1. /\ data'[nextId].number = loc[t].number
          /\ \A r \in Ids \ {nextId} : data'[r] = data[r]
      BY <2>1, <2>5 DEF TypeOK
    <3>2. \A r \in Ids : Exists(r) => data[r].number # loc[t].number
      BY <2>5 DEF Numbers
    <3>3. \A r \in Ids \ {nextId} : Exists(r)' <=> Exists(r)
      BY <3>1 DEF Exists
    <3>4. \A q, r \in Ids : Exists(q)' /\ Exists(r)' /\ q # r => data'[q].number # data'[r].number
      BY <3>1, <3>2, <3>3 DEF NumbersUnique
    <3>5. \A r \in Ids : Exists(r)' => data'[r].number \in 1..(nextId' - 1)
      BY <2>1, <3>1, <3>3 DEF NumbersUnique, Ids
    <3> QED BY <2>3, <3>4, <3>5 DEF NumbersUnique
  <2> QED BY <1>1, <2>4, <2>5 DEF NewInsert
<1>2. ASSUME \A t \in Threads : ~NewInsert(t) PROVE NumbersUnique'
  <2>1. /\ nextId' = nextId
        /\ \A r \in Ids : Exists(r)' => Exists(r) /\ data'[r].number = data[r].number
    BY <1>2, RowsPersist
  <2>2. \A s \in Threads : pc'[s] = "new_insert" => loc'[s].number \in 1..nextId
    <3>1. ASSUME NEW t \in Threads, NewSelectMax(t),
                 NEW s \in Threads, pc'[s] = "new_insert"
          PROVE  loc'[s].number \in 1..nextId
      <4>1. PICK u \in CanCreateRequest, d \in Devices, max \in Numbers \cup {0} :
              Begin(t, "new_insert", Job(u, 0, None, d, max + 1))
        BY <3>1 DEF NewSelectMax
      <4>2. max + 1 \in 1..nextId
        BY DEF Numbers, NumbersUnique, TypeOK
      <4> QED BY <3>1, <4>1, <4>2, BeginEffect DEF Job, NumbersUnique
    <3>2. ASSUME NEW t \in Threads, Arrive(t) \/ Continue(t), ~NewSelectMax(t),
                 NEW s \in Threads, pc'[s] = "new_insert"
          PROVE  pc[s] = "new_insert" /\ loc'[s] = loc[s]
      BY <1>2, <3>2, BeginEffect, GotoEffect
      DEF Arrive, Continue, GetClaim, GetSelect, PostSelect, PostUpdate, PostDeleteMojry,
          PostDeleteMvad, PostInsertMojry, PostInsertMvadCommit, EditSelect, EditUpdate,
          DeleteSelect, DeleteMojry, DeleteMvad, DeleteDataCommit, Finish
    <3>3. CASE Restart
      BY <3>3 DEF Restart
    <3>4. CASE UNCHANGED vars
      BY <3>4 DEF vars, NumbersUnique
    <3> QED BY <3>1, <3>2, <3>3, <3>4 DEF Next, NumbersUnique
  <2> QED BY <2>1, <2>2 DEF NumbersUnique
<1> QED BY <1>1, <1>2

LEMMA PagesStep == TypeInv /\ PagesBelongToOwner /\ [Next]_vars => PagesBelongToOwner'
<1> SUFFICES ASSUME TypeInv, PagesBelongToOwner, [Next]_vars PROVE PagesBelongToOwner'
  OBVIOUS
<1> USE DEF TypeInv, tables
<1>0. \A p \in pages : p[2] \in Ids /\ p[2] < nextId
  BY DEF TypeOK, IdsInOrder
<1>1. CASE UNCHANGED <<data, pages>>
  BY <1>1 DEF PagesBelongToOwner
<1>2. ASSUME NEW t \in Threads, NewInsert(t) PROVE PagesBelongToOwner'
  <2>1. \A p \in pages : data'[p[2]] = data[p[2]]
    BY <1>0, <1>2 DEF NewInsert, TypeOK
  <2> QED BY <1>2, <2>1 DEF NewInsert, PagesBelongToOwner
<1>3. ASSUME NEW t \in Threads, GetClaim(t) PROVE PagesBelongToOwner'
  <2>1. \A p \in pages : data'[p[2]] = data[p[2]]
    BY <1>0, <1>3 DEF GetClaim, TypeOK, PagesBelongToOwner
  <2> QED BY <1>3, <2>1 DEF GetClaim, PagesBelongToOwner
<1>4. ASSUME NEW t \in Threads, GetSelect(t) PROVE PagesBelongToOwner'
  BY <1>4 DEF GetSelect, PagesBelongToOwner
<1>5. ASSUME NEW t \in Threads, PostInsertMvadCommit(t) PROVE PagesBelongToOwner'
  <2>1. \A r \in Ids : data'[r] = data[r] \/ data'[r].status = "completed"
    BY <1>5 DEF PostInsertMvadCommit, TypeOK, Row
  <2> QED BY <1>0, <1>5, <2>1 DEF PostInsertMvadCommit, PagesBelongToOwner
<1>6. ASSUME NEW t \in Threads, EditUpdate(t) PROVE PagesBelongToOwner'
  <2>1. \A r \in Ids : data'[r].status = data[r].status /\ data'[r].owner = data[r].owner
    BY <1>6 DEF EditUpdate, TypeOK, Row
  <2> QED BY <1>0, <1>6, <2>1 DEF EditUpdate, PagesBelongToOwner
<1>7. ASSUME NEW t \in Threads, DeleteDataCommit(t) PROVE PagesBelongToOwner'
  <2>1. \A r \in Ids : data'[r] = data[r] \/ data'[r].status = "absent"
    BY <1>7 DEF DeleteDataCommit, TypeOK, Absent
  <2> QED BY <1>0, <1>7, <2>1 DEF DeleteDataCommit, PagesBelongToOwner
<1> QED
  BY <1>1, <1>2, <1>3, <1>4, <1>5, <1>6, <1>7
  DEF Next, Arrive, Continue, vars, NewSelectMax, PostSelect, PostUpdate, PostDeleteMojry,
      PostDeleteMvad, PostInsertMojry, EditSelect, DeleteSelect, DeleteMojry, DeleteMvad, Restart

\* The child rows a completion finds are none, so those it leaves are its own.
LEMMA CompletionRows ==
  ASSUME TypeInv, WorkMatchesReport, NEW t \in Threads, PostInsertMvadCommit(t)
  PROVE  /\ Exists(loc[t].req) /\ loc[t].req \in Ids
         /\ RowsOf(mojry', loc[t].req) = {NewRow(t)}
         /\ RowsOf(mvademasrafi', loc[t].req) = {NewRow(t)}
         /\ \A q \in Ids \ {loc[t].req} :
              /\ RowsOf(mojry', q) = RowsOf(mojry, q)
              /\ RowsOf(mvademasrafi', q) = RowsOf(mvademasrafi, q)
<1> DEFINE r == loc[t].req
<1>1. InCompletion(t)
  BY DEF PostInsertMvadCommit, InCompletion
<1>2. r \in Ids /\ Exists(r) /\ data[r].status = "in_progress"
  BY <1>1 DEF TypeInv, LocalsFit, LocalFits, CompletionOwnsItsRow, InCompletion, Exists
<1>3. RowsOf(mojry, r) = {} /\ RowsOf(mvademasrafi, r) = {}
  BY <1>2 DEF WorkMatchesReport
<1>4. NewRow(t).req = r
  BY DEF NewRow
<1>5. \A x \in loc[t].delMojry \cup loc[t].delMvad : x.req = r
  BY DEF TypeInv, LocalsFit, LocalFits
<1>6. /\ mojry' = (mojry \ loc[t].delMojry) \cup {NewRow(t)}
      /\ mvademasrafi' = (mvademasrafi \ loc[t].delMvad) \cup {NewRow(t)}
  BY DEF PostInsertMvadCommit
<1>7. /\ RowsOf(mojry', r) = {NewRow(t)} /\ RowsOf(mvademasrafi', r) = {NewRow(t)}
  BY <1>3, <1>4, <1>6 DEF RowsOf
<1>8. ASSUME NEW q \in Ids \ {r}
      PROVE  RowsOf(mojry', q) = RowsOf(mojry, q) /\ RowsOf(mvademasrafi', q) = RowsOf(mvademasrafi, q)
  BY <1>4, <1>5, <1>6 DEF RowsOf
<1> QED BY <1>2, <1>7, <1>8

LEMMA DeletionRows ==
  ASSUME TypeInv, NEW t \in Threads, DeleteDataCommit(t)
  PROVE  /\ loc[t].req \in Ids /\ data' = [data EXCEPT ![loc[t].req] = Absent]
         /\ \A q \in Ids \ {loc[t].req} :
              /\ RowsOf(mojry', q) = RowsOf(mojry, q)
              /\ RowsOf(mvademasrafi', q) = RowsOf(mvademasrafi, q)
<1>1. loc[t].req \in Ids /\ \A x \in loc[t].delMojry \cup loc[t].delMvad : x.req = loc[t].req
  BY DEF TypeInv, LocalsFit, LocalFits, DeleteDataCommit
<1>2. /\ mojry' = mojry \ loc[t].delMojry
      /\ mvademasrafi' = mvademasrafi \ loc[t].delMvad
      /\ data' = [data EXCEPT ![loc[t].req] = Absent]
  BY DEF DeleteDataCommit
<1>3. ASSUME NEW q \in Ids \ {loc[t].req}
      PROVE  RowsOf(mojry', q) = RowsOf(mojry, q) /\ RowsOf(mvademasrafi', q) = RowsOf(mvademasrafi, q)
  BY <1>1, <1>2 DEF RowsOf
<1> QED BY <1>1, <1>2, <1>3

\* No child row waits for the id a registration is about to use.
LEMMA FreshRows ==
  ASSUME TypeInv
  PROVE  RowsOf(mojry, nextId) = {} /\ RowsOf(mvademasrafi, nextId) = {}
<1>1. \A x \in mojry \cup mvademasrafi : x.req # nextId
  BY DEF TypeInv, IdsInOrder, TypeOK
<1> QED BY <1>1 DEF RowsOf

LEMMA WorkStep == TypeInv /\ WorkMatchesReport /\ [Next]_vars => WorkMatchesReport'
<1> SUFFICES ASSUME TypeInv, WorkMatchesReport, [Next]_vars PROVE WorkMatchesReport'
  OBVIOUS
<1> USE DEF TypeInv, tables
<1>1. CASE UNCHANGED <<data, mojry, mvademasrafi>>
  BY <1>1 DEF WorkMatchesReport, Exists, RowsOf
<1>2. ASSUME NEW t \in Threads, NewInsert(t) PROVE WorkMatchesReport'
  <2>1. UNCHANGED <<mojry, mvademasrafi>>
    BY <1>2 DEF NewInsert
  <2>2. \A r \in Ids : data'[r] = data[r] \/ (r = nextId /\ data'[r].status = "pending")
    BY <1>2 DEF NewInsert, TypeOK
  <2> QED BY <2>1, <2>2, FreshRows DEF WorkMatchesReport, Exists, RowsOf
<1>3. ASSUME NEW t \in Threads, GetClaim(t) \/ EditUpdate(t) PROVE WorkMatchesReport'
  <2>1. UNCHANGED <<mojry, mvademasrafi>>
    BY <1>3 DEF GetClaim, EditUpdate
  <2>2. \A r \in Ids : /\ Exists(r)' => Exists(r)
                       /\ data'[r].status = "completed" <=> data[r].status = "completed"
                       /\ data'[r].report = data[r].report
    <3>1. CASE GetClaim(t)
      BY <3>1 DEF GetClaim, TypeOK, Row, Exists
    <3>2. CASE EditUpdate(t)
      BY <3>2 DEF EditUpdate, TypeOK, Row, Exists
    <3> QED BY <1>3, <3>1, <3>2
  <2> QED BY <2>1, <2>2 DEF WorkMatchesReport, RowsOf
<1>4. ASSUME NEW t \in Threads, PostInsertMvadCommit(t) PROVE WorkMatchesReport'
  <2> DEFINE r == loc[t].req
  <2>1. /\ data'[r].status = "completed" /\ data'[r].report = loc[t].form
        /\ \A q \in Ids \ {r} : data'[q] = data[q]
    BY <1>4, CompletionRows DEF PostInsertMvadCommit, TypeOK, Row
  <2>2. loc[t].device \in Devices
    BY <1>4 DEF LocalsFit, LocalFits, InCompletion, PostInsertMvadCommit
  <2>3. RowsOf(mojry', r) = {[req |-> r, form |-> data'[r].report, device |-> loc[t].device]}
    BY <1>4, <2>1, CompletionRows DEF NewRow
  <2>4. \A q \in Ids : RowsOf(mojry, q)' = RowsOf(mojry', q)
                        /\ RowsOf(mvademasrafi, q)' = RowsOf(mvademasrafi', q)
    BY DEF RowsOf
  <2> QED BY <1>4, <2>1, <2>2, <2>3, <2>4, CompletionRows DEF WorkMatchesReport, Exists
<1>5. ASSUME NEW t \in Threads, DeleteDataCommit(t) PROVE WorkMatchesReport'
  <2> DEFINE r == loc[t].req
  <2>1. data'[r].status = "absent" /\ \A q \in Ids \ {r} : data'[q] = data[q]
    BY <1>5, DeletionRows DEF TypeOK, Absent
  <2>2. \A q \in Ids : RowsOf(mojry, q)' = RowsOf(mojry', q)
                        /\ RowsOf(mvademasrafi, q)' = RowsOf(mvademasrafi', q)
    BY DEF RowsOf
  <2> QED BY <1>5, <2>1, <2>2, DeletionRows DEF WorkMatchesReport, Exists
<1> QED
  BY <1>1, <1>2, <1>3, <1>4, <1>5
  DEF Next, Arrive, Continue, vars, NewSelectMax, PostSelect, PostUpdate, PostDeleteMojry, GetSelect,
      PostDeleteMvad, PostInsertMojry, EditSelect, DeleteSelect, DeleteMojry, DeleteMvad, Restart

LEMMA InvInit == Init => IInv
<1> SUFFICES ASSUME Init PROVE IInv
  OBVIOUS
<1>1. TypeInv
  BY TypeInit
<1>2. NumbersUnique /\ PagesBelongToOwner /\ WorkMatchesReport
  BY DEF Init, Absent, NumbersUnique, PagesBelongToOwner, WorkMatchesReport, Exists, Ids
<1> QED BY <1>1, <1>2 DEF TypeInv, IInv

LEMMA InvStep == IInv /\ [Next]_vars => IInv'
  BY TypeStep, LocalsStep, IdsStep, LockStep, NumbersStep, PagesStep, WorkStep DEF IInv, TypeInv

\* The inductive invariant: what follows are its consequences.
THEOREM Invariance == Spec => []IInv
  BY InvInit, InvStep, PTL DEF Spec

\* No transaction of another handler ever takes a request away from the reviewer
\* whose completion has begun, whatever is edited, deleted or posted meanwhile.
THEOREM CompletionOwnership == Spec => []CompletionOwnsItsRow
<1>1. IInv => CompletionOwnsItsRow
  BY DEF IInv
<1> QED BY <1>1, Invariance, PTL

\* A completion page in a browser belongs to the one person who can finish.
THEOREM PageOwnership == Spec => []PagesBelongToOwner
<1>1. IInv => PagesBelongToOwner
  BY DEF IInv
<1> QED BY <1>1, Invariance, PTL

\* Reports and their contractor and goods rows come from one and the same form.
THEOREM WorkIntegrity == Spec => []WorkMatchesReport
<1>1. IInv => WorkMatchesReport
  BY DEF IInv
<1> QED BY <1>1, Invariance, PTL

-----------------------------------------------------------------------------
(* Refinement *)

LEMMA BoardInit == Init => Board!Init
<1> SUFFICES ASSUME Init PROVE Board!Init
  OBVIOUS
<1>1. CommittedWork = [r \in Ids |-> <<{}, {}>>]
  BY DEF Init, CommittedWork, Exists, Absent, RowsOf
<1>2. IssuedIds = {}
  BY DEF Init, IssuedIds
<1> QED BY <1>1, <1>2 DEF Init, Board!Init, Board!Absent, Absent, Board!NoWork

LEMMA BoardStep == IInv /\ [Next]_vars => [Board!Next]_(Board!boardVars)
<1> SUFFICES ASSUME IInv, [Next]_vars PROVE [Board!Next]_(Board!boardVars)
  OBVIOUS
<1> USE DEF TypeInv, IInv, tables
<1>1. ASSUME UNCHANGED <<data, mojry, mvademasrafi, nextId>> PROVE UNCHANGED Board!boardVars
  BY <1>1 DEF Board!boardVars, CommittedWork, IssuedIds, Exists, RowsOf
<1>2. ASSUME NEW t \in Threads, NewInsert(t) PROVE Board!Next
  <2>1. /\ nextId \in Ids /\ nextId \notin IssuedIds
        /\ IssuedIds' = IssuedIds \cup {nextId}
    BY <1>2, ConstantsAssumption DEF NewInsert, TypeOK, IssuedIds, Ids
  <2>2. ~Exists(nextId)
    BY <2>1 DEF IdsInOrder, TypeOK
  <2>3. CASE UNCHANGED data
    <3>1. UNCHANGED CommittedWork
      BY <1>2, <2>3 DEF NewInsert, CommittedWork, Exists, RowsOf
    <3> QED BY <2>1, <2>3, <3>1 DEF Board!Next, Board!Refuse
  <2>4. CASE /\ loc[t].number \notin Numbers
             /\ data' = [data EXCEPT ![nextId] =
                  [status |-> "pending", number |-> loc[t].number, owner |-> None,
                   device |-> loc[t].device, report |-> None]]
    <3>1. loc[t].number \in Ids /\ loc[t].device \in Devices
      <4>1. loc[t].number \in 1..nextId /\ loc[t].device \in Devices
        BY <1>2 DEF NewInsert, NumbersUnique, LocalsFit, LocalFits
      <4> QED BY <2>1, <4>1, ConstantsAssumption DEF Ids
    <3>2. \A r \in Ids \ {nextId} : Exists(r)' <=> Exists(r)
      BY <2>1, <2>4 DEF Exists, TypeOK
    <3>3. UNCHANGED CommittedWork
      BY <1>2, <2>2, <3>2, FreshRows DEF NewInsert, CommittedWork, RowsOf
    <3>4. \A r \in Ids : data[r].status # "absent" => data[r].number # loc[t].number
      BY <2>4 DEF Numbers, Exists
    <3> QED BY <2>1, <2>4, <3>1, <3>3, <3>4 DEF Board!Next, Board!Register
  <2> QED BY <1>2, <2>3, <2>4 DEF NewInsert
<1>3. ASSUME NEW t \in Threads, GetClaim(t) PROVE Board!Next \/ UNCHANGED Board!boardVars
  <2>1. PICK u \in CanReviewRequest, r \in Ids :
          data' = IF data[r].status = "pending"
                    THEN [data EXCEPT ![r].status = "in_progress", ![r].owner = u]
                    ELSE data
    BY <1>3 DEF GetClaim
  <2>2. CASE UNCHANGED data
    BY <1>1, <1>3, <2>2 DEF GetClaim
  <2>3. CASE /\ data[r].status = "pending"
             /\ data' = [data EXCEPT ![r].status = "in_progress", ![r].owner = u]
    <3>1. \A q \in Ids : Exists(q)' <=> Exists(q)
      BY <2>3 DEF Exists, TypeOK, Row
    <3>2. UNCHANGED <<CommittedWork, IssuedIds>>
      BY <1>3, <3>1 DEF GetClaim, CommittedWork, IssuedIds, RowsOf
    <3> QED BY <2>3, <3>2 DEF Board!Next, Board!Claim
  <2> QED BY <2>1, <2>2, <2>3
<1>4. ASSUME NEW t \in Threads, PostInsertMvadCommit(t) PROVE Board!Next
  <2>0. PICK r \in Ids : r = loc[t].req
    BY <1>4 DEF PostInsertMvadCommit, LocalsFit, LocalFits
  <2> DEFINE row == [req |-> r, form |-> loc[t].form, device |-> loc[t].device]
  <2>1. /\ data[r].status = "in_progress"
        /\ loc[t].form \in Forms /\ loc[t].device \in Devices
    BY <1>4, <2>0 DEF PostInsertMvadCommit, LocalsFit, LocalFits, CompletionOwnsItsRow, InCompletion
  <2>2. /\ data' = [data EXCEPT ![r].status = "completed", ![r].owner = None,
                                ![r].report = loc[t].form]
        /\ UNCHANGED IssuedIds
    BY <1>4, <2>0 DEF PostInsertMvadCommit, IssuedIds
  <2>3. Exists(r)' /\ \A q \in Ids \ {r} : Exists(q)' <=> Exists(q)
    <3>1. data'[r].status = "completed" /\ \A q \in Ids \ {r} : data'[q] = data[q]
      BY <2>1, <2>2 DEF TypeOK, Row
    <3> QED BY <3>1 DEF Exists
  <2>4. \A q \in Ids : RowsOf(mojry, q)' = RowsOf(mojry', q)
                        /\ RowsOf(mvademasrafi, q)' = RowsOf(mvademasrafi', q)
    BY DEF RowsOf
  <2>5. CommittedWork' = [CommittedWork EXCEPT ![r] = <<{row}, {row}>>]
    <3>1. CommittedWork'[r] = <<{row}, {row}>>
      BY <1>4, <2>0, <2>3, <2>4, CompletionRows DEF CommittedWork, NewRow
    <3>2. \A q \in Ids \ {r} : CommittedWork'[q] = CommittedWork[q]
      BY <1>4, <2>0, <2>3, <2>4, CompletionRows DEF CommittedWork
    <3> QED BY <3>1, <3>2 DEF CommittedWork
  <2> QED BY <2>1, <2>2, <2>5 DEF Board!Next, Board!Complete
<1>5. ASSUME NEW t \in Threads, EditUpdate(t) PROVE Board!Next \/ UNCHANGED Board!boardVars
  <2> DEFINE r == loc[t].req
  <2>1. r \in Ids /\ loc[t].device \in Devices
    BY <1>5 DEF EditUpdate, LocalsFit, LocalFits
  <2>2. CASE ~Exists(r)
    BY <1>1, <1>5, <2>2 DEF EditUpdate
  <2>3. CASE Exists(r)
    <3>1. data' = [data EXCEPT ![r].device = loc[t].device]
      BY <1>5, <2>3 DEF EditUpdate
    <3>2. \A q \in Ids : Exists(q)' <=> Exists(q)
      BY <3>1 DEF Exists, TypeOK, Row
    <3>3. UNCHANGED <<CommittedWork, IssuedIds>>
      BY <1>5, <3>2 DEF EditUpdate, CommittedWork, IssuedIds, RowsOf
    <3> QED BY <2>1, <2>3, <3>1, <3>3 DEF Board!Next, Board!Correct, Exists
  <2> QED BY <2>2, <2>3
<1>6. ASSUME NEW t \in Threads, DeleteDataCommit(t) PROVE Board!Next
  <2>0. PICK r \in Ids : r = loc[t].req
    BY <1>6, DeletionRows
  <2>1. /\ data' = [data EXCEPT ![r] = Absent] /\ UNCHANGED IssuedIds
    BY <1>6, <2>0, DeletionRows DEF DeleteDataCommit, IssuedIds
  <2>2. ~Exists(r)' /\ \A q \in Ids \ {r} : Exists(q)' <=> Exists(q)
    <3>1. data'[r].status = "absent" /\ \A q \in Ids \ {r} : data'[q] = data[q]
      BY <2>1 DEF TypeOK, Absent
    <3> QED BY <3>1 DEF Exists
  <2>3. \A q \in Ids : RowsOf(mojry, q)' = RowsOf(mojry', q)
                        /\ RowsOf(mvademasrafi, q)' = RowsOf(mvademasrafi', q)
    BY DEF RowsOf
  <2>4. CommittedWork' = [CommittedWork EXCEPT ![r] = <<{}, {}>>]
    <3>1. CommittedWork'[r] = <<{}, {}>>
      BY <2>1, <2>2 DEF CommittedWork
    <3>2. \A q \in Ids \ {r} : CommittedWork'[q] = CommittedWork[q]
      BY <1>6, <2>0, <2>2, <2>3, DeletionRows DEF CommittedWork
    <3> QED BY <3>1, <3>2 DEF CommittedWork
  <2> QED BY <2>1, <2>4 DEF Board!Next, Board!Remove, Board!Absent, Board!NoWork, Absent
<1> QED
  BY <1>1, <1>2, <1>3, <1>4, <1>5, <1>6
  DEF Next, Arrive, Continue, vars, NewSelectMax, PostSelect, PostUpdate, PostDeleteMojry, GetSelect,
      PostDeleteMvad, PostInsertMojry, EditSelect, DeleteSelect, DeleteMojry, DeleteMvad, Restart

\* The handlers of app.py, interleaved statement by statement and cut short by
\* restarts, implement the request board.
THEOREM Refinement == Spec => BoardSpec
  BY BoardInit, BoardStep, Invariance, PTL DEF Spec, BoardSpec, Board!Spec
=============================================================================
