--------------------------- MODULE ProductionProofs ---------------------------
(***************************************************************************)
(* Proofs about the two parts of Production, for any numbers of threads,   *)
(* admins, plans and items, any calendar and any production.               *)
(*                                                                         *)
(* Of the plans: the inductive invariant IInv, and from it that records    *)
(* stay attached to approved items, that the first approval is final and   *)
(* that an approved plan closes out.  Of the reports: the invariant        *)
(* ReportsInv, and from it that they agree in every reachable state.       *)
(***************************************************************************)
EXTENDS Production, TLAPS, FiniteSetTheorems, LoopLemmas

-----------------------------------------------------------------------------
(* The plans *)

\* A step of one thread leaves the control state of the others alone.
LEMMA BeginEffect ==
  ASSUME NEW t \in Threads, NEW label, NEW locals,
         pc \in [Threads -> Labels], loc \in [Threads -> Locals], Begin(t, label, locals)
  PROVE  /\ pc'[t] = label /\ loc'[t] = locals
         /\ \A s \in Threads \ {t} : pc'[s] = pc[s] /\ loc'[s] = loc[s]
  BY DEF Begin

\* A handler's step keeps the types of the control state.
LEMMA BeginType ==
  ASSUME NEW t \in Threads, NEW label \in Labels, NEW locals \in Locals,
         pc \in [Threads -> Labels], loc \in [Threads -> Locals], Begin(t, label, locals)
  PROVE  pc' \in [Threads -> Labels] /\ loc' \in [Threads -> Locals]
  BY DEF Begin

\* A handler's locals have their type.
LEMMA JobType ==
  ASSUME NEW p \in PlanIds \cup {0}, NEW i \in ItemIds \cup {0}, NEW d \in Days \cup {None},
         NEW u \in Admins \cup {None}, NEW k \in Kinds
  PROVE  Job(p, i, d, u, k) \in Locals
  BY DEF Job, Locals

\* So have those of an idle thread.
LEMMA NoLocalsType == NoLocals \in Locals
  BY JobType DEF NoLocals, Kinds

\* The fields of a handler's locals, without the record constructor.
LEMMA JobFields ==
  ASSUME NEW p, NEW i, NEW d, NEW u, NEW k
  PROVE  /\ Job(p, i, d, u, k).plan = p /\ Job(p, i, d, u, k).item = i
         /\ Job(p, i, d, u, k).day = d /\ Job(p, i, d, u, k).user = u
         /\ Job(p, i, d, u, k).kind = k
  BY DEF Job

\* The two rows the handlers write are rows of their tables.
LEMMA RowTypes ==
  /\ \A u \in Admins \cup {None} : [status |-> "approved", approved_by |-> u] \in Plan
  /\ [status |-> "draft", approved_by |-> None] \in Plan
  /\ NoItem \in Item
  /\ \A p \in PlanIds, d \in Days : [plan_id |-> p, work_day |-> d] \in Item
  BY DEF Plan, Item

-----------------------------------------------------------------------------

\* The invariant holds with empty tables.
LEMMA InvInit == Init => IInv
  BY PlanConstants, NoLocalsType DEF Init, IInv, TypeOK, LocalFits, PlansInOrder, ItemsInOrder,
     RecordsBelong, Plan, NoPlan, Item, NoItem, PlanIds, ItemIds, Labels, Listed, Approved

\* Every step keeps the types.
LEMMA TypeStep == IInv /\ [Next]_vars => TypeOK'
<1> SUFFICES ASSUME IInv, [Next]_vars PROVE TypeOK'
  OBVIOUS
<1> USE DEF IInv, Labels
<1>c. nextPlan \in Nat /\ nextItem \in Nat /\ MaxPlan \in Nat /\ MaxItem \in Nat
  BY PlanConstants DEF TypeOK
<1>1. CASE UNCHANGED vars
  BY <1>1 DEF vars, TypeOK
<1>2. CASE CreatePlan
  <2>1. nextPlan \in PlanIds /\ nextPlan' \in 1..(MaxPlan + 1)
    BY <1>2, <1>c DEF CreatePlan, TypeOK, PlanIds
  <2>2. plans' \in [PlanIds -> Plan]
    BY <1>2, RowTypes DEF CreatePlan, TypeOK
  <2> QED BY <1>2, <2>1, <2>2 DEF CreatePlan, TypeOK
<1>3. CASE Restart
  BY <1>3, NoLocalsType DEF Restart, TypeOK
<1>4. ASSUME NEW t \in Threads, ItemSelect(t) PROVE TypeOK'
  <2>1. PICK p \in PlanIds, d \in Days : Begin(t, "item_insert", Job(p, 0, d, None, "entry"))
    BY <1>4 DEF ItemSelect
  <2>2. pc' \in [Threads -> Labels] /\ loc' \in [Threads -> Locals]
    BY <2>1, BeginType, JobType DEF TypeOK, Kinds
  <2> QED BY <1>4, <2>2 DEF ItemSelect, TypeOK
<1>5. ASSUME NEW t \in Threads, ItemInsert(t) PROVE TypeOK'
  <2>1. nextItem \in ItemIds /\ nextItem' \in 1..(MaxItem + 1)
    BY <1>5, <1>c DEF ItemInsert, TypeOK, ItemIds
  <2>2. loc[t].plan \in PlanIds /\ loc[t].day \in Days
    BY <1>5 DEF ItemInsert, LocalFits
  <2>3. items' \in [ItemIds -> Item]
    BY <1>5, <2>2, RowTypes DEF ItemInsert, TypeOK
  <2>4. pc' \in [Threads -> Labels] /\ loc' \in [Threads -> Locals]
    BY <1>5, BeginType, NoLocalsType DEF TypeOK, ItemInsert, Finish
  <2> QED BY <1>5, <2>1, <2>3, <2>4 DEF ItemInsert, TypeOK
<1>6. ASSUME NEW t \in Threads, ApproveSelect(t) PROVE TypeOK'
  <2>1. PICK p \in PlanIds, u \in Admins : Begin(t, "approve_count", Job(p, 0, None, u, "entry"))
    BY <1>6 DEF ApproveSelect
  <2>2. pc' \in [Threads -> Labels] /\ loc' \in [Threads -> Locals]
    BY <2>1, BeginType, JobType DEF TypeOK, Kinds
  <2> QED BY <1>6, <2>2 DEF ApproveSelect, TypeOK
<1>7. ASSUME NEW t \in Threads, ApproveCount(t) PROVE TypeOK'
  <2>1. loc[t] \in Locals
    BY DEF TypeOK
  <2>2. pc' \in [Threads -> Labels] /\ loc' \in [Threads -> Locals]
    BY <1>7, <2>1, BeginType, NoLocalsType DEF TypeOK, ApproveCount, Finish
  <2> QED BY <1>7, <2>2 DEF ApproveCount, TypeOK
<1>8. ASSUME NEW t \in Threads, ApproveUpdate(t) PROVE TypeOK'
  <2>1. loc[t].user \in Admins \cup {None}
    BY DEF TypeOK, Locals
  <2>2. plans' \in [PlanIds -> Plan]
    BY <1>8, <2>1, RowTypes DEF ApproveUpdate, TypeOK
  <2>3. pc' \in [Threads -> Labels] /\ loc' \in [Threads -> Locals]
    BY <1>8, BeginType, NoLocalsType DEF TypeOK, ApproveUpdate, Finish
  <2> QED BY <1>8, <2>2, <2>3 DEF ApproveUpdate, TypeOK
<1>9. ASSUME NEW t \in Threads, DeleteSelect(t) PROVE TypeOK'
  <2>1. PICK p \in PlanIds, i \in ItemIds : Begin(t, "item_delete", Job(p, i, None, None, "entry"))
    BY <1>9 DEF DeleteSelect
  <2>2. pc' \in [Threads -> Labels] /\ loc' \in [Threads -> Locals]
    BY <2>1, BeginType, JobType DEF TypeOK, Kinds
  <2> QED BY <1>9, <2>2 DEF DeleteSelect, TypeOK
<1>10. ASSUME NEW t \in Threads, DeleteItem(t) PROVE TypeOK'
  <2>1. items' \in [ItemIds -> Item]
    BY <1>10, RowTypes DEF DeleteItem, TypeOK
  <2>2. pc' \in [Threads -> Labels] /\ loc' \in [Threads -> Locals]
    BY <1>10, BeginType, NoLocalsType DEF TypeOK, DeleteItem, Finish
  <2> QED BY <1>10, <2>1, <2>2 DEF DeleteItem, TypeOK
<1>11. ASSUME NEW t \in Threads, RecordSelect(t) PROVE TypeOK'
  <2>1. PICK kind \in Kinds, i \in ItemIds, d \in Days :
          Begin(t, "record_insert", Job(0, i, d, None, kind))
    BY <1>11 DEF RecordSelect
  <2>2. pc' \in [Threads -> Labels] /\ loc' \in [Threads -> Locals]
    BY <2>1, BeginType, JobType DEF TypeOK
  <2> QED BY <1>11, <2>2 DEF RecordSelect, TypeOK
<1>12. ASSUME NEW t \in Threads, RecordInsert(t) PROVE TypeOK'
  <2>1. loc[t].kind \in Kinds /\ loc[t].item \in ItemIds /\ loc[t].day \in Days
    BY <1>12 DEF RecordInsert, TypeOK, Locals, LocalFits
  <2>2. records' \subseteq Record
    BY <1>12, <2>1 DEF RecordInsert, TypeOK, Record
  <2>3. pc' \in [Threads -> Labels] /\ loc' \in [Threads -> Locals]
    BY <1>12, BeginType, NoLocalsType DEF TypeOK, RecordInsert, Finish
  <2> QED BY <1>12, <2>2, <2>3 DEF RecordInsert, TypeOK
<1>13. ASSUME NEW t \in Threads, RecordRefused(t) PROVE TypeOK'
  <2>1. pc' \in [Threads -> Labels] /\ loc' \in [Threads -> Locals]
    BY <1>13, BeginType, NoLocalsType DEF TypeOK, RecordRefused, Finish
  <2> QED BY <1>13, <2>1 DEF RecordRefused, TypeOK
<1> QED BY <1>1, <1>2, <1>3, <1>4, <1>5, <1>6, <1>7, <1>8, <1>9, <1>10, <1>11, <1>12, <1>13
        DEF Next

-----------------------------------------------------------------------------
(* The tables only move forward *)

\* A plan that exists stays, an approved one stays as it is, an item that was
\* inserted stays as it is or goes away for good.
PlansKept == \A p \in PlanIds :
  /\ plans[p].status # "absent" => plans'[p].status # "absent"
  /\ plans[p].status = "approved" => plans'[p] = plans[p]
ItemsKept == \A i \in ItemIds :
  i < nextItem => items'[i] = items[i] \/ items'[i] = NoItem
CountersGrow == nextItem' \in Nat /\ nextItem <= nextItem' /\ nextPlan <= nextPlan'

\* The counters only grow, an approved plan never changes, and an item that has
\* been inserted stays as it is or is deleted.
LEMMA TablesProgress == IInv /\ [Next]_vars => CountersGrow /\ PlansKept /\ ItemsKept
<1> SUFFICES ASSUME IInv, [Next]_vars PROVE CountersGrow /\ PlansKept /\ ItemsKept
  OBVIOUS
<1>c. nextPlan \in Nat /\ nextItem \in Nat /\ MaxPlan \in Nat /\ MaxItem \in Nat
  BY PlanConstants DEF IInv, TypeOK
<1>1. CASE CreatePlan
  <2>1. plans[nextPlan].status = "absent" /\ nextPlan \in PlanIds
    BY <1>1, <1>c DEF CreatePlan, IInv, TypeOK, PlansInOrder, PlanIds, Plan
  <2>2. PlansKept
    BY <1>1, <2>1 DEF CreatePlan, IInv, TypeOK, PlansKept
  <2> QED BY <1>1, <1>c, <2>2 DEF CreatePlan, ItemsKept, CountersGrow
<1>2. ASSUME NEW t \in Threads, ItemInsert(t) PROVE CountersGrow /\ PlansKept /\ ItemsKept
  <2>1. ItemsKept
    BY <1>2, <1>c DEF ItemInsert, IInv, TypeOK, ItemIds, ItemsKept
  <2> QED BY <1>2, <1>c, <2>1 DEF ItemInsert, PlansKept, CountersGrow
<1>3. ASSUME NEW t \in Threads, ApproveUpdate(t) PROVE CountersGrow /\ PlansKept /\ ItemsKept
  <2>1. PlansKept
    BY <1>3 DEF ApproveUpdate, IInv, TypeOK, PlansKept, Draft
  <2> QED BY <1>3, <1>c, <2>1 DEF ApproveUpdate, ItemsKept, CountersGrow
<1>4. ASSUME NEW t \in Threads, DeleteItem(t) PROVE CountersGrow /\ PlansKept /\ ItemsKept
  <2>1. ItemsKept
    BY <1>4 DEF DeleteItem, IInv, TypeOK, ItemsKept
  <2> QED BY <1>4, <1>c, <2>1 DEF DeleteItem, PlansKept, CountersGrow
<1>5. CASE UNCHANGED <<plans, items, nextItem, nextPlan>>
  BY <1>5, <1>c DEF CountersGrow, PlansKept, ItemsKept
<1>6. CASE CreatePlan \/ (\E t \in Threads : ItemInsert(t) \/ ApproveUpdate(t) \/ DeleteItem(t))
  BY <1>1, <1>2, <1>3, <1>4, <1>6, <1>c
<1>7. CASE UNCHANGED vars \/ Restart
           \/ (\E t \in Threads : ItemSelect(t) \/ ApproveSelect(t) \/ ApproveCount(t)
                 \/ DeleteSelect(t) \/ RecordSelect(t) \/ RecordInsert(t) \/ RecordRefused(t))
  BY <1>5, <1>7 DEF vars, Restart, ItemSelect, ApproveSelect, ApproveCount, DeleteSelect,
     RecordSelect, RecordInsert, RecordRefused
<1> QED BY <1>6, <1>7 DEF Next

\* What a handler knows stays true while others run.
LEMMA OthersFit ==
  ASSUME IInv, [Next]_vars, NEW s \in Threads, pc'[s] = pc[s], loc'[s] = loc[s]
  PROVE  LocalFits(s)'
<1>1. LocalFits(s)
  BY DEF IInv
<1>2. CountersGrow /\ PlansKept /\ ItemsKept /\ nextItem \in Nat
  BY TablesProgress, PlanConstants DEF IInv, TypeOK
<1>3. ASSUME NEW i \in ItemIds, i < nextItem, Listed(i)'
      PROVE  Listed(i) /\ items'[i] = items[i] /\ items[i].plan_id \in PlanIds
  BY <1>2, <1>3 DEF ItemsKept, Listed, NoItem, IInv, TypeOK, Item
<1>4. pc[s] = "record_insert" =>
        /\ loc[s].item \in ItemIds /\ loc[s].item < nextItem' /\ loc[s].day \in Days
        /\ Listed(loc[s].item)' =>
             /\ Approved(items[loc[s].item].plan_id)'
             /\ items'[loc[s].item].work_day = loc[s].day
  <2> SUFFICES ASSUME pc[s] = "record_insert"
               PROVE /\ loc[s].item \in ItemIds /\ loc[s].item < nextItem' /\ loc[s].day \in Days
                     /\ Listed(loc[s].item)' =>
                          /\ Approved(items[loc[s].item].plan_id)'
                          /\ items'[loc[s].item].work_day = loc[s].day
    OBVIOUS
  <2>1. loc[s].item \in ItemIds /\ loc[s].item < nextItem /\ loc[s].day \in Days
    BY <1>1 DEF LocalFits
  <2>2. PICK i \in ItemIds : i = loc[s].item
    BY <2>1
  <2>3. i < nextItem'
    BY <1>2, <2>1, <2>2 DEF ItemIds, CountersGrow
  <2>4. ASSUME Listed(i)'
        PROVE  Approved(items[i].plan_id)' /\ items'[i].work_day = loc[s].day
    <3>1. Listed(i) /\ items'[i] = items[i] /\ items[i].plan_id \in PlanIds
      BY <1>3, <2>1, <2>2, <2>4
    <3>2. Approved(items[i].plan_id) /\ items[i].work_day = loc[s].day
      BY <1>1, <2>2, <3>1 DEF LocalFits
    <3>3. PICK p \in PlanIds : p = items[i].plan_id
      BY <3>1
    <3>4. plans'[p].status = "approved" /\ items'[i].plan_id = p
      BY <1>2, <3>1, <3>2, <3>3 DEF Approved, PlansKept
    <3> QED BY <3>1, <3>2, <3>4 DEF Approved
  <2> QED BY <2>1, <2>2, <2>3, <2>4 DEF Listed, Approved
<1>5. pc[s] \in {"item_insert", "approve_count", "approve_update", "item_delete"}
        => loc[s].plan \in PlanIds /\ plans'[loc[s].plan].status # "absent"
  BY <1>1, <1>2 DEF LocalFits, PlansKept
<1> QED BY <1>1, <1>4, <1>5 DEF LocalFits, Listed, Approved

-----------------------------------------------------------------------------

\* An idle thread has no locals to fit.
LEMMA IdleFits ==
  ASSUME NEW t, pc'[t] = "idle" PROVE LocalFits(t)'
  BY DEF LocalFits

\* The handler that takes a step leaves locals that fit its next statement.
LEMMA LocalsStep == IInv /\ [Next]_vars => \A t \in Threads : LocalFits(t)'
<1> SUFFICES ASSUME IInv, [Next]_vars, NEW s \in Threads PROVE LocalFits(s)'
  OBVIOUS
<1> USE DEF IInv
<1>t. pc \in [Threads -> Labels] /\ loc \in [Threads -> Locals]
  BY DEF TypeOK
<1>1. CASE UNCHANGED <<pc, loc>>
  BY <1>1, OthersFit
<1>2. CASE Restart
  BY <1>2, IdleFits DEF Restart
<1>3. ASSUME NEW t \in Threads, Finish(t) PROVE LocalFits(s)'
  BY <1>3, <1>t, BeginEffect, IdleFits, OthersFit DEF Finish
<1>4. ASSUME NEW t \in Threads, ItemSelect(t) PROVE LocalFits(s)'
  <2>1. PICK p \in PlanIds, d \in Days :
          Draft(p) /\ Begin(t, "item_insert", Job(p, 0, d, None, "entry"))
    BY <1>4 DEF ItemSelect
  <2>2. CASE s = t
    BY <1>4, <1>t, <2>1, <2>2, BeginEffect, JobFields DEF ItemSelect, LocalFits, Draft
  <2> QED BY <1>t, <2>1, <2>2, BeginEffect, OthersFit
<1>5. ASSUME NEW t \in Threads, ApproveSelect(t) PROVE LocalFits(s)'
  <2>1. PICK p \in PlanIds, u \in Admins :
          Draft(p) /\ Begin(t, "approve_count", Job(p, 0, None, u, "entry"))
    BY <1>5 DEF ApproveSelect
  <2>2. CASE s = t
    BY <1>5, <1>t, <2>1, <2>2, BeginEffect, JobFields DEF ApproveSelect, LocalFits, Draft
  <2> QED BY <1>t, <2>1, <2>2, BeginEffect, OthersFit
<1>6. ASSUME NEW t \in Threads, ApproveCount(t) PROVE LocalFits(s)'
  <2>1. CASE Finish(t)
    BY <1>3, <2>1
  <2>2. CASE Begin(t, "approve_update", loc[t])
    <3>1. CASE s = t
      BY <1>6, <1>t, <2>2, <3>1, BeginEffect DEF ApproveCount, LocalFits
    <3> QED BY <1>t, <2>2, <3>1, BeginEffect, OthersFit
  <2> QED BY <1>6, <2>1, <2>2 DEF ApproveCount
<1>7. ASSUME NEW t \in Threads, DeleteSelect(t) PROVE LocalFits(s)'
  <2>1. PICK p \in PlanIds, i \in ItemIds :
          Draft(p) /\ Begin(t, "item_delete", Job(p, i, None, None, "entry"))
    BY <1>7 DEF DeleteSelect
  <2>2. CASE s = t
    BY <1>7, <1>t, <2>1, <2>2, BeginEffect, JobFields DEF DeleteSelect, LocalFits, Draft
  <2> QED BY <1>t, <2>1, <2>2, BeginEffect, OthersFit
<1>8. ASSUME NEW t \in Threads, RecordSelect(t) PROVE LocalFits(s)'
  <2>1. PICK kind \in Kinds, i \in ItemIds, d \in Days :
          Admits(kind, i, d) /\ Begin(t, "record_insert", Job(0, i, d, None, kind))
    BY <1>8 DEF RecordSelect
  <2>2. Listed(i) /\ Approved(items[i].plan_id) /\ items[i].work_day = d /\ i < nextItem
    BY <2>1 DEF Admits, DateAccepted, ItemsInOrder
  <2>3. CASE s = t
    BY <1>8, <1>t, <2>1, <2>2, <2>3, BeginEffect, JobFields
       DEF RecordSelect, LocalFits, Listed, Approved
  <2> QED BY <1>t, <2>1, <2>3, BeginEffect, OthersFit
<1>9. CASE \E t \in Threads : ItemInsert(t) \/ ApproveUpdate(t) \/ DeleteItem(t)
                               \/ RecordInsert(t) \/ RecordRefused(t)
  BY <1>3, <1>9 DEF ItemInsert, ApproveUpdate, DeleteItem, RecordInsert, RecordRefused
<1> QED BY <1>1, <1>2, <1>4, <1>5, <1>6, <1>7, <1>8, <1>9 DEF Next, CreatePlan, vars

-----------------------------------------------------------------------------

\* Ids are handed out in order.
LEMMA OrderStep == IInv /\ [Next]_vars => PlansInOrder' /\ ItemsInOrder'
<1> SUFFICES ASSUME IInv, [Next]_vars PROVE PlansInOrder' /\ ItemsInOrder'
  OBVIOUS
<1> USE DEF IInv
<1>c. nextPlan \in Nat /\ nextItem \in Nat /\ MaxPlan \in Nat /\ MaxItem \in Nat
  BY PlanConstants DEF TypeOK
<1>1. CASE UNCHANGED <<plans, items, nextPlan, nextItem>>
  BY <1>1 DEF PlansInOrder, ItemsInOrder, Listed
<1>2. CASE CreatePlan
  <2>1. PlansInOrder'
    BY <1>2, <1>c DEF CreatePlan, PlansInOrder, TypeOK, PlanIds
  <2>2. \A i \in ItemIds : Listed(i) => items[i].plan_id \in PlanIds
    BY DEF Listed, TypeOK, Item, NoItem
  <2>3. ItemsInOrder'
    BY <1>2, <1>c, <2>2 DEF CreatePlan, ItemsInOrder, Listed, PlanIds
  <2> QED BY <2>1, <2>3
<1>3. ASSUME NEW t \in Threads, ItemInsert(t) PROVE PlansInOrder' /\ ItemsInOrder'
  <2>1. loc[t].plan \in PlanIds /\ loc[t].plan < nextPlan
    BY <1>3 DEF ItemInsert, LocalFits, PlansInOrder
  <2>2. ItemsInOrder'
    BY <1>3, <1>c, <2>1 DEF ItemInsert, ItemsInOrder, Listed, TypeOK, ItemIds
  <2> QED BY <1>3, <2>2 DEF ItemInsert, PlansInOrder
<1>4. ASSUME NEW t \in Threads, ApproveUpdate(t) PROVE PlansInOrder' /\ ItemsInOrder'
  BY <1>4 DEF ApproveUpdate, PlansInOrder, ItemsInOrder, Listed, TypeOK, Draft
<1>5. ASSUME NEW t \in Threads, DeleteItem(t) PROVE PlansInOrder' /\ ItemsInOrder'
  BY <1>5 DEF DeleteItem, PlansInOrder, ItemsInOrder, Listed, TypeOK, NoItem
<1>6. CASE UNCHANGED vars \/ Restart
           \/ (\E t \in Threads : ItemSelect(t) \/ ApproveSelect(t) \/ ApproveCount(t)
                 \/ DeleteSelect(t) \/ RecordSelect(t) \/ RecordInsert(t) \/ RecordRefused(t))
  BY <1>1, <1>6 DEF vars, Restart, ItemSelect, ApproveSelect, ApproveCount, DeleteSelect,
     RecordSelect, RecordInsert, RecordRefused
<1> QED BY <1>2, <1>3, <1>4, <1>5, <1>6 DEF Next

\* A record keeps its item: a referenced item is not deleted, an approved plan
\* stays approved, and a new record fits the item it finds.
LEMMA RecordsStep == IInv /\ [Next]_vars => RecordsBelong'
<1> SUFFICES ASSUME IInv, [Next]_vars PROVE RecordsBelong'
  OBVIOUS
<1>1. CountersGrow /\ PlansKept /\ ItemsKept
  BY TablesProgress
<1>2. \A i \in ItemIds : Listed(i) => items[i].plan_id \in PlanIds /\ i < nextItem
  BY DEF IInv, ItemsInOrder, Listed, TypeOK, Item, NoItem
<1>3. \A i \in ItemIds : Listed(i) /\ Referenced(i) => items'[i] = items[i]
  <2> SUFFICES ASSUME NEW i \in ItemIds, Listed(i), Referenced(i) PROVE items'[i] = items[i]
    OBVIOUS
  <2>1. ASSUME NEW t \in Threads, DeleteItem(t) PROVE items'[i] = items[i]
    BY <2>1 DEF DeleteItem, IInv, TypeOK
  <2>2. ASSUME NEW t \in Threads, ItemInsert(t) PROVE items'[i] = items[i]
    BY <1>2, <2>2, PlanConstants DEF ItemInsert, IInv, TypeOK, ItemIds
  <2>3. CASE UNCHANGED items
    BY <2>3
  <2> QED BY <2>1, <2>2, <2>3 DEF Next, vars, CreatePlan, Restart, ItemSelect, ApproveSelect,
     ApproveCount, ApproveUpdate, DeleteSelect, RecordSelect, RecordInsert, RecordRefused
<1>4. ASSUME NEW x \in records
      PROVE  x.item \in ItemIds /\ Listed(x.item)' /\ Approved(items[x.item].plan_id)'
             /\ items'[x.item].work_day = x.day
  <2>1. PICK i \in ItemIds : i = x.item
    BY DEF IInv, TypeOK, Record
  <2>2. Listed(i) /\ Approved(items[i].plan_id) /\ items[i].work_day = x.day
    BY <2>1 DEF IInv, RecordsBelong
  <2>3. items'[i] = items[i]
    BY <1>3, <2>1, <2>2 DEF Referenced
  <2>4. PICK p \in PlanIds : p = items[i].plan_id
    BY <1>2, <2>2
  <2>5. plans'[p].status = "approved"
    BY <1>1, <2>2, <2>4 DEF PlansKept, Approved
  <2> QED BY <2>1, <2>2, <2>3, <2>4, <2>5 DEF Listed, Approved
<1>5. ASSUME NEW t \in Threads, RecordInsert(t) PROVE RecordsBelong'
  <2>1. CASE ~Listed(loc[t].item)
    BY <1>4, <1>5, <2>1 DEF RecordInsert, RecordsBelong
  <2>2. CASE Listed(loc[t].item)
    <3>1. PICK i \in ItemIds, d \in Days, k \in Kinds :
            i = loc[t].item /\ d = loc[t].day /\ k = loc[t].kind
      BY <1>5 DEF RecordInsert, IInv, LocalFits, TypeOK, Locals
    <3>2. Listed(i) /\ Approved(items[i].plan_id) /\ items[i].work_day = d
      BY <1>5, <2>2, <3>1 DEF RecordInsert, IInv, LocalFits
    <3>3. records' = records \cup {[kind |-> k, item |-> i, day |-> d]} /\ UNCHANGED <<plans, items>>
      BY <1>5, <2>2, <3>1 DEF RecordInsert
    <3> SUFFICES ASSUME NEW y \in records'
                 PROVE  Listed(y.item)' /\ Approved(items[y.item].plan_id)'
                        /\ items'[y.item].work_day = y.day
      BY DEF RecordsBelong
    <3>4. CASE y \in records
      BY <1>4, <3>4
    <3>5. CASE y = [kind |-> k, item |-> i, day |-> d]
      <4>1. y.item = i /\ y.day = d
        BY <3>5
      <4> QED BY <3>2, <3>3, <4>1 DEF Listed, Approved
    <3> QED BY <3>3, <3>4, <3>5
  <2> QED BY <2>1, <2>2
<1>6. CASE UNCHANGED records
  BY <1>4, <1>6 DEF RecordsBelong
<1> QED BY <1>5, <1>6 DEF Next, vars, CreatePlan, Restart, ItemSelect, ItemInsert, ApproveSelect,
     ApproveCount, ApproveUpdate, DeleteSelect, DeleteItem, RecordSelect, RecordRefused

-----------------------------------------------------------------------------

\* Every step keeps the invariant.
LEMMA InvStep == IInv /\ [Next]_vars => IInv'
  BY TypeStep, LocalsStep, OrderStep, RecordsStep DEF IInv

\* For any number of threads, admins, plans, items and days the invariant of
\* the production plans (production.py:602-773, 1189-1398) holds in every
\* reachable state.
THEOREM Invariance == Spec => []IInv
  BY InvInit, InvStep, PTL DEF Spec

\* The tables and the handlers' locals always have their types.
THEOREM TypeCorrect == Spec => []TypeOK
<1>1. IInv => TypeOK
  BY DEF IInv
<1> QED BY <1>1, Invariance, PTL

\* A record always names an existing item of an approved plan, on its work day.
THEOREM RecordIntegrity == Spec => []RecordsBelong
<1>1. IInv => RecordsBelong
  BY DEF IInv
<1> QED BY <1>1, Invariance, PTL

\* The first approval of a plan is the only one.
THEOREM FinalApproval == Spec => ApprovalIsFinal
<1>1. IInv /\ [Next]_vars => [\A p \in PlanIds : Approved(p) => plans'[p] = plans[p]]_vars
  BY TablesProgress DEF PlansKept, Approved
<1> QED BY <1>1, Invariance, PTL DEF Spec, ApprovalIsFinal

-----------------------------------------------------------------------------
(* Closing out *)

\* Only an editor of the plan changes its items, and it leaves the editors.
LEMMA EditorsShrink ==
  ASSUME IInv, [Next]_vars, NEW p \in PlanIds, Approved(p)
  PROVE  /\ Editors(p)' \subseteq Editors(p)
         /\ ItemsOf(p)' # ItemsOf(p) => Editors(p)' # Editors(p)
<1>t. pc \in [Threads -> Labels] /\ loc \in [Threads -> Locals]
  BY DEF IInv, TypeOK
<1>1. ASSUME UNCHANGED <<pc, loc, items>>
      PROVE  Editors(p)' = Editors(p) /\ ItemsOf(p)' = ItemsOf(p)
  BY <1>1 DEF Editors, ItemsOf
<1>2. ASSUME NEW t \in Threads, NEW label, NEW q, NEW i, NEW d, NEW u, NEW k, UNCHANGED items,
             Begin(t, label, Job(q, i, d, u, k)),
             q # p \/ label \notin {"item_insert", "item_delete"}
      PROVE  Editors(p)' \subseteq Editors(p) /\ ItemsOf(p)' = ItemsOf(p)
  BY <1>2, <1>t, BeginEffect, JobFields DEF Editors, ItemsOf
<1>3. ASSUME NEW t \in Threads, UNCHANGED items, Finish(t)
      PROVE  Editors(p)' \subseteq Editors(p) /\ ItemsOf(p)' = ItemsOf(p)
  BY <1>2, <1>3 DEF Finish, NoLocals
<1>4. ASSUME NEW t \in Threads, ItemInsert(t) \/ DeleteItem(t)
      PROVE  /\ Editors(p)' \subseteq Editors(p)
             /\ ItemsOf(p)' # ItemsOf(p) => Editors(p)' # Editors(p)
  <2>1. pc'[t] = "idle" /\ \A s \in Threads \ {t} : pc'[s] = pc[s] /\ loc'[s] = loc[s]
    BY <1>4, <1>t, BeginEffect DEF ItemInsert, DeleteItem, Finish
  <2>2. Editors(p)' \subseteq Editors(p) \ {t}
    BY <2>1 DEF Editors
  <2>3. CASE loc[t].plan = p
    <3>1. t \in Editors(p)
      BY <1>4, <2>3 DEF ItemInsert, DeleteItem, Editors
    <3> QED BY <2>2, <3>1
  <2>4. CASE loc[t].plan # p
    <3>1. nextItem \in ItemIds => items[nextItem].plan_id = 0
      BY PlanConstants DEF IInv, TypeOK, ItemsInOrder, Listed
    <3>2. p # 0
      BY DEF PlanIds
    <3>3. CASE ItemInsert(t)
      <4>1. \A i \in ItemIds : items'[i].plan_id = p <=> items[i].plan_id = p
        BY <2>4, <3>1, <3>2, <3>3 DEF ItemInsert, IInv, TypeOK
      <4> QED BY <2>2, <4>1 DEF ItemsOf
    <3>4. CASE DeleteItem(t)
      <4>1. \A i \in ItemIds : items'[i].plan_id = p <=> items[i].plan_id = p
        BY <2>4, <3>2, <3>4 DEF DeleteItem, IInv, TypeOK, NoItem
      <4> QED BY <2>2, <4>1 DEF ItemsOf
    <3> QED BY <1>4, <3>3, <3>4
  <2> QED BY <2>3, <2>4
<1>5. ASSUME NEW t \in Threads, ItemSelect(t) \/ DeleteSelect(t)
      PROVE  Editors(p)' \subseteq Editors(p) /\ ItemsOf(p)' = ItemsOf(p)
  <2>1. \A q \in PlanIds : Draft(q) => q # p
    BY DEF Draft, Approved
  <2> QED BY <1>2, <1>5, <2>1 DEF ItemSelect, DeleteSelect
<1>6. ASSUME NEW t \in Threads, ApproveSelect(t) \/ RecordSelect(t)
      PROVE  Editors(p)' \subseteq Editors(p) /\ ItemsOf(p)' = ItemsOf(p)
  BY <1>2, <1>6 DEF ApproveSelect, RecordSelect
<1>7. ASSUME NEW t \in Threads, Begin(t, "approve_update", loc[t]), UNCHANGED items
      PROVE  Editors(p)' \subseteq Editors(p) /\ ItemsOf(p)' = ItemsOf(p)
  BY <1>7, <1>t, BeginEffect DEF Editors, ItemsOf
<1>8. ASSUME NEW t \in Threads, ApproveCount(t) \/ ApproveUpdate(t) \/ RecordInsert(t) \/ RecordRefused(t)
      PROVE  Editors(p)' \subseteq Editors(p) /\ ItemsOf(p)' = ItemsOf(p)
  BY <1>3, <1>7, <1>8 DEF ApproveCount, ApproveUpdate, RecordInsert, RecordRefused
<1>9. ASSUME Restart PROVE Editors(p)' \subseteq Editors(p) /\ ItemsOf(p)' = ItemsOf(p)
  BY <1>9 DEF Restart, Editors, ItemsOf
<1>10. ASSUME CreatePlan \/ UNCHANGED vars
       PROVE  Editors(p)' = Editors(p) /\ ItemsOf(p)' = ItemsOf(p)
  BY <1>1, <1>10 DEF CreatePlan, vars
<1> QED BY <1>4, <1>5, <1>6, <1>8, <1>9, <1>10 DEF Next

\* After its approval a plan is changed only by the handlers that had already
\* read it as a draft, and by each of them once.
THEOREM ClosingOut == Spec => ApprovedPlanClosesOut
<1>1. IInv /\ [Next]_vars => [\A p \in PlanIds : Approved(p) =>
        /\ Editors(p)' \subseteq Editors(p)
        /\ ItemsOf(p)' # ItemsOf(p) => Editors(p)' # Editors(p)]_vars
  BY EditorsShrink
<1> QED BY <1>1, Invariance, PTL DEF Spec, ApprovedPlanClosesOut

-----------------------------------------------------------------------------
(* The work calendar *)

\* The rows of the calendar are of different days, shifts or stations.
KeysDiffer == \A a, b \in DOMAIN calendar : SameKey(calendar[a], calendar[b]) => a = b

\* Rows are never removed and keep their key, so the one a handler has found is
\* still the row of its form.
FormFits == \A t \in Threads :
  /\ calendarPc[t] # "idle" => calendarLoc[t].form \in CalendarForm
  /\ calendarPc[t] = "calendar_update" =>
       /\ calendarLoc[t].id \in DOMAIN calendar
       /\ SameKey(calendar[calendarLoc[t].id], calendarLoc[t].form)

\* Only an approved item has pieces, and on its work day.
ProducedFits == \A e \in Events :
  produced[e] # 0 => e[1] \in approved /\ ItemRow[e[1]].work_day = e[2]

ReportsInv == ReportsTypeOK /\ KeysDiffer /\ FormFits /\ ProducedFits

\* The invariant holds with an empty calendar.
LEMMA ReportsInitially == ReportsInit => ReportsInv
<1> SUFFICES ASSUME ReportsInit PROVE ReportsInv  OBVIOUS
<1> USE ReportConstants DEF ReportsInit
<1>1. calendar \in Seq(CalendarForm) /\ Len(calendar) = 0 /\ DOMAIN calendar = {}  OBVIOUS
<1>2. NoForm \in [form : CalendarForm \cup {None}, id : 0..MaxCalendar]  BY DEF NoForm
<1>3. ReportsTypeOK  BY <1>1, <1>2 DEF ReportsTypeOK
<1> QED  BY <1>1, <1>3 DEF ReportsInv, KeysDiffer, FormFits, ProducedFits

\* work_calendar has looked for the row of its form: the number it found is a
\* row of the form's key.
LEMMA SelectStep ==
  ASSUME ReportsInv, NEW t \in Threads, NEW form \in CalendarForm, CalendarSelect(t, form)
  PROVE  ReportsInv'
<1> USE ReportConstants DEF ReportsInv
<1> DEFINE found == IF RowsOf(form) = {} THEN 0 ELSE Min(RowsOf(form))
           label == IF RowsOf(form) = {} THEN "calendar_insert" ELSE "calendar_update"
           locals == [form |-> form, id |-> found]
<1>1. /\ calendarPc' = [calendarPc EXCEPT ![t] = label]
      /\ calendarLoc' = [calendarLoc EXCEPT ![t] = locals]
      /\ UNCHANGED <<approved, produced, calendar>>
  BY DEF CalendarSelect
<1>2. DOMAIN calendar = 1..Len(calendar) /\ Len(calendar) \in 0..MaxCalendar
  BY DEF ReportsTypeOK
<1>3. label = "calendar_update" =>
        found \in DOMAIN calendar /\ SameKey(calendar[found], form)
  <2> SUFFICES ASSUME RowsOf(form) # {}
               PROVE  found \in DOMAIN calendar /\ SameKey(calendar[found], form)
    OBVIOUS
  <2>1. RowsOf(form) \in SUBSET Nat  BY <1>2 DEF RowsOf
  <2>2. \E x \in RowsOf(form) : \A y \in RowsOf(form) : x <= y  BY <2>1, LeastElement
  <2>3. Min(RowsOf(form)) \in RowsOf(form)  BY <2>2 DEF Min
  <2> QED  BY <2>3 DEF RowsOf
<1>4. found \in 0..MaxCalendar
  <2>1. CASE RowsOf(form) = {}  BY <2>1
  <2>2. CASE RowsOf(form) # {}
    <3>1. found \in DOMAIN calendar  BY <1>3, <2>2
    <3> HIDE DEF found
    <3> QED  BY <1>2, <3>1
  <2> QED  BY <2>1, <2>2
<1>5. label \in {"calendar_insert", "calendar_update"}  OBVIOUS
<1> HIDE DEF found, label
<1>6. locals \in [form : CalendarForm \cup {None}, id : 0..MaxCalendar]
      /\ locals.form = form /\ locals.id = found
  BY <1>4
<1> HIDE DEF locals
<1>7. ReportsTypeOK'  BY <1>1, <1>5, <1>6 DEF ReportsTypeOK
<1>8. FormFits'
  <2> SUFFICES ASSUME NEW u \in Threads
               PROVE  /\ calendarPc'[u] # "idle" => calendarLoc'[u].form \in CalendarForm
                      /\ calendarPc'[u] = "calendar_update" =>
                           /\ calendarLoc'[u].id \in DOMAIN calendar
                           /\ SameKey(calendar[calendarLoc'[u].id], calendarLoc'[u].form)
    BY <1>1 DEF FormFits
  <2>1. CASE u = t
    <3>1. calendarPc'[u] = label /\ calendarLoc'[u] = locals
      BY <1>1, <2>1 DEF ReportsTypeOK
    <3> QED  BY <1>3, <1>6, <3>1
  <2>2. CASE u # t
    <3>1. calendarPc'[u] = calendarPc[u] /\ calendarLoc'[u] = calendarLoc[u]
      BY <1>1, <2>2 DEF ReportsTypeOK
    <3> QED  BY <3>1 DEF FormFits
  <2> QED  BY <2>1, <2>2
<1> QED  BY <1>1, <1>7, <1>8 DEF KeysDiffer, ProducedFits

\* A handler that ends leaves the others as they are.
LEMMA OthersFitCalendar ==
  ASSUME ReportsInv, NEW t \in Threads, CalendarFinish(t), DOMAIN calendar \subseteq DOMAIN calendar',
         \A id \in DOMAIN calendar : \A c : SameKey(calendar[id], c) => SameKey(calendar'[id], c)
  PROVE  FormFits'
<1> SUFFICES ASSUME NEW u \in Threads
             PROVE  /\ calendarPc'[u] # "idle" => calendarLoc'[u].form \in CalendarForm
                    /\ calendarPc'[u] = "calendar_update" =>
                         /\ calendarLoc'[u].id \in DOMAIN calendar'
                         /\ SameKey(calendar'[calendarLoc'[u].id], calendarLoc'[u].form)
  BY DEF FormFits
<1>1. CASE u = t  BY <1>1 DEF CalendarFinish, ReportsInv, ReportsTypeOK
<1>2. CASE u # t
  <2>1. calendarPc'[u] = calendarPc[u] /\ calendarLoc'[u] = calendarLoc[u]
    BY <1>2 DEF CalendarFinish, ReportsInv, ReportsTypeOK
  <2>2. calendarPc[u] = "calendar_update" => calendarLoc[u].id \in DOMAIN calendar
          /\ SameKey(calendar[calendarLoc[u].id], calendarLoc[u].form)
    BY DEF ReportsInv, FormFits
  <2> QED  BY <2>1, <2>2 DEF ReportsInv, FormFits
<1> QED  BY <1>1, <1>2

\* A handler that answers forgets its form.
LEMMA FinishTypes ==
  ASSUME ReportsTypeOK, NEW t \in Threads, CalendarFinish(t)
  PROVE  /\ calendarPc' \in [Threads -> {"idle", "calendar_update", "calendar_insert"}]
         /\ calendarLoc' \in [Threads -> [form : CalendarForm \cup {None}, id : 0..MaxCalendar]]
<1>1. NoForm \in [form : CalendarForm \cup {None}, id : 0..MaxCalendar]
  BY ReportConstants DEF NoForm
<1> QED  BY <1>1 DEF ReportsTypeOK, CalendarFinish

\* An update keeps the key of the row it writes.
LEMMA UpdateStep ==
  ASSUME ReportsInv, NEW t \in Threads, CalendarUpdate(t)
  PROVE  ReportsInv'
<1> USE DEF ReportsInv
<1> DEFINE row == calendarLoc[t].id
           form == calendarLoc[t].form
<1>1. /\ calendarPc[t] = "calendar_update"
      /\ calendar' = [calendar EXCEPT ![row] = form]
      /\ CalendarFinish(t)
      /\ UNCHANGED <<approved, produced>>
  BY DEF CalendarUpdate
<1>2. row \in DOMAIN calendar /\ form \in CalendarForm /\ SameKey(calendar[row], form)
  BY <1>1 DEF FormFits
<1> HIDE DEF row, form
<1>3. calendar \in Seq(CalendarForm) /\ DOMAIN calendar = 1..Len(calendar)
  BY DEF ReportsTypeOK
<1>4. /\ calendar' \in Seq(CalendarForm) /\ Len(calendar') = Len(calendar)
      /\ DOMAIN calendar' = DOMAIN calendar
      /\ \A id \in DOMAIN calendar : calendar'[id] = IF id = row THEN form ELSE calendar[id]
  BY <1>1, <1>2, <1>3
<1>5. ReportsTypeOK'  BY <1>1, <1>4, FinishTypes DEF ReportsTypeOK
<1>6. \A id \in DOMAIN calendar : \A c : SameKey(calendar[id], c) <=> SameKey(calendar'[id], c)
  BY <1>2, <1>4 DEF SameKey
<1>7. KeysDiffer'
  <2> SUFFICES ASSUME NEW a \in DOMAIN calendar, NEW b \in DOMAIN calendar,
                      SameKey(calendar'[a], calendar'[b])
               PROVE  a = b
    BY <1>4 DEF KeysDiffer
  <2>1. SameKey(calendar[a], calendar'[b])  BY <1>6
  <2>2. SameKey(calendar[b], calendar[a])  BY <1>6, <2>1 DEF SameKey
  <2> QED  BY <2>2 DEF KeysDiffer
<1>8. FormFits'  BY <1>1, <1>4, <1>6, OthersFitCalendar
<1> QED  BY <1>1, <1>5, <1>7, <1>8 DEF ProducedFits

\* The key of an inserted row is new: the table has a UNIQUE constraint.
LEMMA InsertStep ==
  ASSUME ReportsInv, NEW t \in Threads, CalendarInsert(t)
  PROVE  ReportsInv'
<1> USE ReportConstants DEF ReportsInv
<1> DEFINE form == calendarLoc[t].form
<1>1. /\ calendarPc[t] = "calendar_insert" /\ Len(calendar) < MaxCalendar
      /\ calendar' = IF RowsOf(form) = {} THEN Append(calendar, form) ELSE calendar
      /\ CalendarFinish(t)
      /\ UNCHANGED <<approved, produced>>
  BY DEF CalendarInsert
<1>2. form \in CalendarForm  BY <1>1 DEF FormFits
<1> HIDE DEF form
<1>3. calendar \in Seq(CalendarForm) /\ DOMAIN calendar = 1..Len(calendar)
      /\ Len(calendar) \in Nat /\ Len(calendar) <= MaxCalendar
  BY DEF ReportsTypeOK
<1>4. CASE RowsOf(form) # {}
  <2>1. calendar' = calendar  BY <1>1, <1>4
  <2>2. ReportsTypeOK'  BY <1>1, <2>1, FinishTypes DEF ReportsTypeOK
  <2>3. FormFits'  BY <1>1, <2>1, OthersFitCalendar
  <2> QED  BY <1>1, <2>1, <2>2, <2>3 DEF KeysDiffer, ProducedFits
<1>5. CASE RowsOf(form) = {}
  <2> DEFINE last == Len(calendar) + 1
  <2>1. calendar' = Append(calendar, form)  BY <1>1, <1>5
  <2>2. /\ calendar' \in Seq(CalendarForm) /\ Len(calendar') = last
        /\ DOMAIN calendar' = 1..last
        /\ calendar'[last] = form
        /\ \A id \in DOMAIN calendar : calendar'[id] = calendar[id]
    BY <1>2, <1>3, <2>1
  <2>3. DOMAIN calendar' = DOMAIN calendar \cup {last} /\ last \notin DOMAIN calendar
        /\ last <= MaxCalendar
    BY <1>1, <1>3, <2>2
  <2> HIDE DEF last
  <2>4. ReportsTypeOK'  BY <1>1, <2>2, <2>3, FinishTypes DEF ReportsTypeOK
  <2>5. FormFits'  BY <1>1, <2>2, <2>3, OthersFitCalendar
  <2>6. \A id \in DOMAIN calendar : ~SameKey(calendar[id], form)  BY <1>5 DEF RowsOf
  <2>7. KeysDiffer'
    <3> SUFFICES ASSUME NEW a \in DOMAIN calendar', NEW b \in DOMAIN calendar',
                        SameKey(calendar'[a], calendar'[b])
                 PROVE  a = b
      BY DEF KeysDiffer
    <3>1. CASE a \in DOMAIN calendar /\ b \in DOMAIN calendar
      BY <2>2, <3>1 DEF KeysDiffer
    <3>2. CASE a \in DOMAIN calendar /\ b = last  BY <2>2, <2>6, <3>2
    <3>3. CASE a = last /\ b \in DOMAIN calendar  BY <2>2, <2>6, <3>3 DEF SameKey
    <3> QED  BY <2>3, <3>1, <3>2, <3>3
  <2> QED  BY <1>1, <2>4, <2>5, <2>7 DEF ProducedFits
<1> QED  BY <1>4, <1>5

\* Every step of the calendar, of an approval and of the production register
\* keeps the invariant.
LEMMA ReportsStep == ReportsInv /\ [ReportsNext]_reportVars => ReportsInv'
<1> SUFFICES ASSUME ReportsInv, [ReportsNext]_reportVars PROVE ReportsInv'  OBVIOUS
<1> USE DEF ReportsInv
<1>1. CASE ItemsChange
  <2>1. PICK i \in Items : \/ approved' = approved \cup {i}
                           \/ Unused(i) /\ approved' = approved \ {i}
    BY <1>1 DEF ItemsChange
  <2>2. UNCHANGED <<produced, calendar, calendarPc, calendarLoc>>  BY <1>1 DEF ItemsChange
  <2>3. ReportsTypeOK'  BY <2>1, <2>2 DEF ReportsTypeOK
  <2>4. ProducedFits'
    <3> SUFFICES ASSUME NEW e \in Events, produced[e] # 0
                 PROVE  e[1] \in approved' /\ ItemRow[e[1]].work_day = e[2]
      BY <2>2 DEF ProducedFits
    <3>1. e[1] \in approved /\ ItemRow[e[1]].work_day = e[2]  BY DEF ProducedFits
    <3>2. Unused(i) => e[1] # i  BY DEF Unused, Events
    <3> QED  BY <2>1, <3>1, <3>2
  <2> QED  BY <2>2, <2>3, <2>4 DEF KeysDiffer, FormFits
<1>2. CASE CalendarRestart
  <2>1. ReportsTypeOK'
    BY <1>2, ReportConstants DEF CalendarRestart, ReportsTypeOK, NoForm
  <2> QED  BY <1>2, <2>1 DEF CalendarRestart, KeysDiffer, FormFits, ProducedFits
<1>3. ASSUME NEW i \in Items, NEW d \in WorkDays, NEW sh \in Shifts, RecordProduction(i, d, sh)
      PROVE  ReportsInv'
  <2> DEFINE e == <<i, d, sh>>
  <2>1. e \in Events /\ e[1] = i /\ e[2] = d  BY DEF Events
  <2> HIDE DEF e
  <2>2. /\ produced' = [produced EXCEPT ![e] = produced[e] + 1]
        /\ i \in approved /\ ItemRow[i].work_day = d /\ produced[e] < MaxQuantity
        /\ UNCHANGED <<approved, calendar, calendarPc, calendarLoc>>
    BY <1>3 DEF RecordProduction, e
  <2>3. produced[e] \in Nat /\ produced[e] + 1 \in 0..MaxQuantity
    BY <2>1, <2>2, ReportConstants DEF ReportsTypeOK
  <2>4. ReportsTypeOK'  BY <2>2, <2>3 DEF ReportsTypeOK
  <2>5. ProducedFits'  BY <2>1, <2>2 DEF ProducedFits, ReportsTypeOK
  <2> QED  BY <2>2, <2>4, <2>5 DEF KeysDiffer, FormFits
<1>4. ASSUME NEW t \in Threads, NEW form \in CalendarForm, CalendarSelect(t, form)
      PROVE  ReportsInv'
  BY <1>4, SelectStep
<1>5. ASSUME NEW t \in Threads, CalendarUpdate(t) PROVE ReportsInv'  BY <1>5, UpdateStep
<1>6. ASSUME NEW t \in Threads, CalendarInsert(t) PROVE ReportsInv'  BY <1>6, InsertStep
<1>7. CASE UNCHANGED reportVars
  BY <1>7 DEF reportVars, ReportsTypeOK, KeysDiffer, FormFits, ProducedFits
<1> QED  BY <1>1, <1>2, <1>3, <1>4, <1>5, <1>6, <1>7 DEF ReportsNext

\* The calendar, the approved items, the pieces and the forms of the handlers
\* always have their types.
THEOREM ReportTypesCorrect == ReportsSpec => []ReportsTypeOK
<1>1. ReportsInv => ReportsTypeOK  BY DEF ReportsInv
<1> QED  BY ReportsInitially, ReportsStep, <1>1, PTL DEF ReportsSpec

-----------------------------------------------------------------------------
(* The reports.  Every total is the production of a set of events, and the *)
(* sets differ by events without pieces.                                   *)

\* There are finitely many events to add up.
LEMMA EventsFinite ==
  /\ IsFiniteSet(Events)
  /\ \A S \in SUBSET Events : IsFiniteSet(S)
<1>1. IsFiniteSet(Items \X (WorkDays \X Shifts))
  BY ReportConstants, FS_Product
<1> DEFINE pairs == Items \X (WorkDays \X Shifts)
           triple == [q \in pairs |-> <<q[1], q[2][1], q[2][2]>>]
<1>2. triple \in Surjection(pairs, Events)
  <2>1. triple \in [pairs -> Events]  BY DEF Events
  <2>2. ASSUME NEW e \in Events PROVE \E q \in pairs : triple[q] = e
    <3>1. e[1] \in Items /\ e[2] \in WorkDays /\ e[3] \in Shifts /\ e = <<e[1], e[2], e[3]>>
      BY DEF Events
    <3> DEFINE q == <<e[1], <<e[2], e[3]>>>>
    <3>2. q \in pairs /\ q[1] = e[1] /\ q[2][1] = e[2] /\ q[2][2] = e[3]  BY <3>1
    <3> HIDE DEF q
    <3>3. triple[q] = e  BY <3>1, <3>2
    <3> QED  BY <3>2, <3>3
  <2> QED  BY <2>1, <2>2 DEF Surjection
<1>3. IsFiniteSet(Events)
  <2> HIDE DEF pairs, triple
  <2> QED  BY <1>1, <1>2, FS_Surjection DEF pairs
<1> QED  BY <1>3, FS_Subset

\* What is added up are numbers.
LEMMA ProducedNumbers ==
  ASSUME ReportsInv PROVE \A e \in Events : produced[e] \in Int /\ produced[e] \in Nat
BY ReportConstants DEF ReportsInv, ReportsTypeOK

\* A calendar row and its key.
LEMMA RowFields ==
  ASSUME ReportsInv, NEW id \in DOMAIN calendar
  PROVE  /\ calendar[id] \in CalendarForm
         /\ calendar[id].day \in WorkDays /\ calendar[id].shift \in Shifts
         /\ calendar[id].station \in Stations
<1>1. calendar \in Seq(CalendarForm)  BY DEF ReportsInv, ReportsTypeOK
<1>2. calendar[id] \in CalendarForm  BY <1>1
<1> QED  BY <1>2 DEF CalendarForm

\* A report has finitely many rows.
LEMMA RowsFinite ==
  ASSUME ReportsInv, NEW f
  PROVE  CalendarRows(f) \subseteq DOMAIN calendar /\ IsFiniteSet(CalendarRows(f))
<1>1. DOMAIN calendar = 1..Len(calendar) /\ Len(calendar) \in Nat
  BY DEF ReportsInv, ReportsTypeOK
<1>2. IsFiniteSet(1..Len(calendar))  BY <1>1, FS_Interval
<1>3. CalendarRows(f) \subseteq DOMAIN calendar  BY DEF CalendarRows
<1> QED  BY <1>1, <1>2, <1>3, FS_Subset

\* The total of a report whose rows count disjoint sets of events.
LEMMA TotalOfParts ==
  ASSUME ReportsInv, NEW K, IsFiniteSet(K), NEW part \in [K -> SUBSET Events],
         \A j, k \in K : j # k => part[j] \cap part[k] = {},
         NEW total, DOMAIN total = K, \A k \in K : total[k] = Pieces(part[k])
  PROVE  SumFunction(total) = Pieces(UNION {part[k] : k \in K})
<1>1. SumFunctionOnSet(total, K) = SumFunctionOnSet(produced, UNION {part[k] : k \in K})
  BY EventsFinite, ProducedNumbers, SumOfParts DEF Pieces
<1> QED  BY <1>1 DEF SumFunction, Pieces

\* Events without pieces do not count.
LEMMA SamePieces ==
  ASSUME ReportsInv, NEW A \in SUBSET Events, NEW B \in SUBSET Events, A \subseteq B,
         \A e \in B : produced[e] # 0 => e \in A
  PROVE  Pieces(A) = Pieces(B)
<1>1. IsFiniteSet(B)  BY EventsFinite
<1>2. \A e \in B : produced[e] \in Int  BY ProducedNumbers
<1>3. \A e \in B \ A : produced[e] = 0  OBVIOUS
<1> QED  BY <1>1, <1>2, <1>3, SumOfSupport DEF Pieces

\* What the stations of the calendar rows that pass have made.
InCalendar(f) == UNION {StationEvents(calendar[id]) : id \in CalendarRows(f)}

\* No event belongs to two rows of the calendar.
LEMMA StationEventsDisjoint ==
  ASSUME ReportsInv, NEW j \in DOMAIN calendar, NEW k \in DOMAIN calendar, j # k
  PROVE  StationEvents(calendar[j]) \cap StationEvents(calendar[k]) = {}
BY DEF ReportsInv, KeysDiffer, SameKey, StationEvents

\* planned_time_report adds up the pieces of the calendar's rows.
LEMMA PlannedTotal ==
  ASSUME ReportsInv, NEW f
  PROVE  TotalOf(PlannedTimeReport(f)) = Pieces(InCalendar(f))
<1> DEFINE K == CalendarRows(f)
           part == [id \in K |-> StationEvents(calendar[id])]
           total == [id \in DOMAIN PlannedTimeReport(f) |-> PlannedTimeReport(f)[id].actual]
<1>1. IsFiniteSet(K) /\ K \subseteq DOMAIN calendar  BY RowsFinite
<1>2. part \in [K -> SUBSET Events]  BY DEF StationEvents
<1>3. \A j, k \in K : j # k => part[j] \cap part[k] = {}
  BY <1>1, StationEventsDisjoint
<1>4. DOMAIN total = K /\ \A k \in K : total[k] = Pieces(part[k])
  BY DEF PlannedTimeReport
<1>5. UNION {part[k] : k \in K} = InCalendar(f)  BY DEF InCalendar
<1>6. TotalOf(PlannedTimeReport(f)) = SumFunction(total)  BY DEF TotalOf
<1> HIDE DEF K, part, total
<1>7. SumFunction(total) = Pieces(UNION {part[k] : k \in K})
  BY <1>1, <1>2, <1>3, <1>4, TotalOfParts
<1> QED  BY <1>5, <1>6, <1>7

-----------------------------------------------------------------------------
(* The report of products *)

\* The events that a row of the report counts.
RowEvents(r) ==
  ItemsOfGroup(calendar[r.row], r.product) \X {calendar[r.row].day} \X {calendar[r.row].shift}

\* A row of the performance report is the one of its calendar row and product.
LEMMA PerformanceRow ==
  ASSUME NEW f, NEW r \in PerformanceReport(f)
  PROVE  /\ r.row \in CalendarRows(f) /\ r.product \in Groups(calendar[r.row])
         /\ Passes(f.product, r.product)
         /\ r = ProductRow(r.row, r.product, f)
         /\ r.actual = Pieces(RowEvents(r))
<1>1. PICK id \in CalendarRows(f) :
        r \in {ProductRow(id, p, f) : p \in {p \in Groups(calendar[id]) : Passes(f.product, p)}}
  BY DEF PerformanceReport
<1>2. PICK p \in Groups(calendar[id]) : Passes(f.product, p) /\ r = ProductRow(id, p, f)
  BY <1>1
<1>3. ProductRow(id, p, f).row = id /\ ProductRow(id, p, f).product = p
      /\ ProductRow(id, p, f).actual
           = Pieces(ItemsOfGroup(calendar[id], p) \X {calendar[id].day} \X {calendar[id].shift})
  BY DEF ProductRow
<1> QED  BY <1>2, <1>3 DEF RowEvents

\* Every calendar row and product has its row in the performance report.
LEMMA RowOfProduct ==
  ASSUME NEW f, NEW id \in CalendarRows(f), NEW p \in Groups(calendar[id]), Passes(f.product, p)
  PROVE  /\ ProductRow(id, p, f) \in PerformanceReport(f)
         /\ ProductRow(id, p, f).row = id /\ ProductRow(id, p, f).product = p
<1>1. ProductRow(id, p, f).row = id /\ ProductRow(id, p, f).product = p  BY DEF ProductRow
<1>2. ProductRow(id, p, f)
        \in {ProductRow(id, q, f) : q \in {q \in Groups(calendar[id]) : Passes(f.product, q)}}
  OBVIOUS
<1>3. ProductRow(id, p, f) \in PerformanceReport(f)  BY <1>2 DEF PerformanceReport
<1> QED  BY <1>1, <1>3

\* A calendar row has finitely many products.
LEMMA GroupsFinite ==
  ASSUME ReportsInv, NEW id \in DOMAIN calendar
  PROVE  Groups(calendar[id]) \subseteq {ItemRow[i].product : i \in Items}
         /\ IsFiniteSet(Groups(calendar[id])) /\ Groups(calendar[id]) \subseteq Products
<1> DEFINE product == [i \in Items |-> ItemRow[i].product]
           all == {ItemRow[i].product : i \in Items}
<1>1. approved \subseteq Items  BY DEF ReportsInv, ReportsTypeOK
<1>2. Groups(calendar[id]) \subseteq all  BY <1>1 DEF Groups, ItemsAt
<1>3. product \in Surjection(Items, all)  BY DEF Surjection
<1>4. all \subseteq Products  BY ReportConstants
<1> HIDE DEF product
<1>5. IsFiniteSet(all)  BY <1>3, ReportConstants, FS_Surjection
<1> QED  BY <1>2, <1>4, <1>5, FS_Subset

\* The performance report has finitely many rows.
LEMMA PerformanceFinite ==
  ASSUME ReportsInv, NEW f PROVE IsFiniteSet(PerformanceReport(f))
<1> DEFINE all == {ItemRow[i].product : i \in Items}
           pairs == CalendarRows(f) \X all
           row == [q \in pairs |-> ProductRow(q[1], q[2], f)]
           image == {row[q] : q \in pairs}
<1>1. IsFiniteSet(all)
  <2> DEFINE product == [i \in Items |-> ItemRow[i].product]
  <2>1. product \in Surjection(Items, all)  BY DEF Surjection
  <2> HIDE DEF product, all
  <2> QED  BY <2>1, ReportConstants, FS_Surjection
<1>2. IsFiniteSet(pairs)
  <2> HIDE DEF all
  <2> QED  BY <1>1, RowsFinite, FS_Product
<1>3. row \in Surjection(pairs, image)
  <2> HIDE DEF pairs
  <2> QED  BY DEF Surjection
<1>4. IsFiniteSet(image)
  <2> HIDE DEF pairs, row, image
  <2> QED  BY <1>2, <1>3, FS_Surjection
<1>5. ASSUME NEW r \in PerformanceReport(f) PROVE r \in image
  <2>1. r.row \in CalendarRows(f) /\ r.product \in Groups(calendar[r.row])
        /\ r = ProductRow(r.row, r.product, f)
    BY PerformanceRow
  <2>2. r.product \in all  BY <2>1, RowsFinite, GroupsFinite
  <2> DEFINE q == <<r.row, r.product>>
  <2>3. q \in pairs /\ q[1] = r.row /\ q[2] = r.product
    <3> HIDE DEF all
    <3> QED  BY <2>1, <2>2
  <2> HIDE DEF q, pairs
  <2>4. row[q] = r  BY <2>1, <2>3
  <2> QED  BY <2>3, <2>4
<1> HIDE DEF image
<1> QED  BY <1>4, <1>5, FS_Subset

\* The performance report counts no event in two rows.
LEMMA PerformanceTotal ==
  ASSUME ReportsInv, NEW f
  PROVE  SumFunction([r \in PerformanceReport(f) |-> r.actual])
           = Pieces(UNION {RowEvents(r) : r \in PerformanceReport(f)})
<1> DEFINE K == PerformanceReport(f)
           part == [r \in K |-> RowEvents(r)]
           total == [r \in K |-> r.actual]
<1>1. IsFiniteSet(K)  BY PerformanceFinite
<1>2. ASSUME NEW r \in K PROVE RowEvents(r) \in SUBSET Events
  <2>1. r.row \in DOMAIN calendar  BY PerformanceRow, RowsFinite
  <2>2. calendar[r.row].day \in WorkDays /\ calendar[r.row].shift \in Shifts
    BY <2>1, RowFields
  <2>3. ItemsOfGroup(calendar[r.row], r.product) \subseteq Items
    BY DEF ItemsOfGroup, ItemsAt, ReportsInv, ReportsTypeOK
  <2> QED  BY <2>2, <2>3 DEF RowEvents, Events
<1>3. ASSUME NEW j \in K, NEW k \in K, j # k PROVE RowEvents(j) \cap RowEvents(k) = {}
  <2>1. j.row \in DOMAIN calendar /\ k.row \in DOMAIN calendar  BY PerformanceRow, RowsFinite
  <2>2. j.row # k.row \/ j.product # k.product  BY <1>3, PerformanceRow
  <2>3. CASE j.row # k.row
    <3>1. ~SameKey(calendar[j.row], calendar[k.row])  BY <2>1, <2>3 DEF ReportsInv, KeysDiffer
    <3> QED  BY <3>1 DEF RowEvents, ItemsOfGroup, ItemsAt, SameKey
  <2>4. CASE j.product # k.product  BY <2>4 DEF RowEvents, ItemsOfGroup
  <2> QED  BY <2>2, <2>3, <2>4
<1>4. part \in [K -> SUBSET Events] /\ \A j, k \in K : j # k => part[j] \cap part[k] = {}
  BY <1>2, <1>3
<1>5. DOMAIN total = K /\ \A k \in K : total[k] = Pieces(part[k])
  BY PerformanceRow
<1>6. UNION {part[k] : k \in K} = UNION {RowEvents(r) : r \in K}  OBVIOUS
<1>7. SumFunction(total) = Pieces(UNION {part[k] : k \in K})
  <2> HIDE DEF K, part, total
  <2> QED  BY <1>1, <1>4, <1>5, TotalOfParts
<1> QED  BY <1>6, <1>7

\* The products of a calendar row share out its pieces.
LEMMA ProductsMakeUpStations ==
  ASSUME ReportsInv, NEW f \in Filters
  PROVE  Pieces(UNION {RowEvents(r) : r \in PerformanceReport(f)}) = Pieces(InCalendar(f))
<1> DEFINE rows_ == UNION {RowEvents(r) : r \in PerformanceReport(f)}
<1>1. InCalendar(f) \in SUBSET Events  BY DEF InCalendar, StationEvents
<1>2. ASSUME NEW r \in PerformanceReport(f), NEW e \in RowEvents(r) PROVE e \in InCalendar(f)
  <2>1. r.row \in CalendarRows(f) /\ r.row \in DOMAIN calendar  BY PerformanceRow, RowsFinite
  <2>2. calendar[r.row].day \in WorkDays /\ calendar[r.row].shift \in Shifts
    BY <2>1, RowFields
  <2>3. e[1] \in ItemsAt(calendar[r.row]) /\ e[2] = calendar[r.row].day
        /\ e[3] = calendar[r.row].shift /\ e = <<e[1], e[2], e[3]>>
    BY DEF RowEvents, ItemsOfGroup
  <2>4. e \in StationEvents(calendar[r.row])
    BY <2>2, <2>3 DEF StationEvents, ItemsAt, Events, ReportsInv, ReportsTypeOK
  <2> QED  BY <2>1, <2>4 DEF InCalendar
<1>3. ASSUME NEW e \in InCalendar(f), produced[e] # 0 PROVE e \in rows_
  <2>1. PICK id \in CalendarRows(f) : e \in StationEvents(calendar[id])  BY DEF InCalendar
  <2>2. e \in Events /\ e[1] \in approved /\ e[2] = calendar[id].day
        /\ e[3] = calendar[id].shift /\ ItemRow[e[1]].station = calendar[id].station
    BY <2>1 DEF StationEvents
  <2>3. ItemRow[e[1]].work_day = e[2]  BY <1>3, <2>2 DEF ReportsInv, ProducedFits
  <2> DEFINE p == ItemRow[e[1]].product
             r == ProductRow(id, p, f)
  <2>4. e[1] \in ItemsAt(calendar[id])  BY <2>2, <2>3 DEF ItemsAt
  <2>5. p \in Groups(calendar[id]) /\ e[1] \in ItemsOfGroup(calendar[id], p)
    BY <2>4 DEF Groups, ItemsOfGroup
  <2>6. Passes(f.product, p)  BY DEF Filters, Passes
  <2> HIDE DEF p
  <2>7. r \in PerformanceReport(f) /\ r.row = id /\ r.product = p  BY <2>5, <2>6, RowOfProduct
  <2> HIDE DEF r
  <2>8. e = <<e[1], e[2], e[3]>>  BY <2>2 DEF Events
  <2>9. e \in RowEvents(r)  BY <2>2, <2>5, <2>7, <2>8 DEF RowEvents
  <2> QED  BY <2>7, <2>9
<1>4. rows_ \subseteq InCalendar(f)  BY <1>2
<1> HIDE DEF rows_
<1>5. Pieces(rows_) = Pieces(InCalendar(f))  BY <1>1, <1>3, <1>4, SamePieces
<1> QED  BY <1>5 DEF rows_

-----------------------------------------------------------------------------
(* The control report *)

\* The events that the control report counts for item i.
ItemEvents(i, f) == {e \in {i} \X f.days \X Shifts : Passes(f.shift, e[3])}
ControlItems(f) == {i \in approved : /\ ItemRow[i].work_day \in f.days
                                     /\ Passes(f.product, ItemRow[i].product)
                                     /\ Passes(f.station, ItemRow[i].station)}

\* production_control adds up the pieces of its items.
LEMMA ControlTotal ==
  ASSUME ReportsInv, NEW f \in Filters
  PROVE  TotalOf(ControlReport(f)) = Pieces(UNION {ItemEvents(i, f) : i \in ControlItems(f)})
<1> DEFINE K == ControlItems(f)
           part == [i \in K |-> ItemEvents(i, f)]
           total == [i \in DOMAIN ControlReport(f) |-> ControlReport(f)[i].actual]
<1>1. K \subseteq Items /\ IsFiniteSet(K)
  <2>1. K \subseteq Items  BY DEF ControlItems, ReportsInv, ReportsTypeOK
  <2> QED  BY <2>1, ReportConstants, FS_Subset
<1>2. f.days \subseteq WorkDays  BY DEF Filters
<1>3. \A i \in K : ItemEvents(i, f) \in SUBSET Events
  BY <1>1, <1>2 DEF ItemEvents, Events
<1>4. \A j, k \in K : j # k => ItemEvents(j, f) \cap ItemEvents(k, f) = {}  BY DEF ItemEvents
<1>5. part \in [K -> SUBSET Events] /\ \A j, k \in K : j # k => part[j] \cap part[k] = {}
  BY <1>3, <1>4
<1>6. DOMAIN total = K /\ \A k \in K : total[k] = Pieces(part[k])
  BY DEF ControlReport, ControlItems, ItemEvents
<1>7. UNION {part[k] : k \in K} = UNION {ItemEvents(i, f) : i \in K}  OBVIOUS
<1>8. SumFunction(total) = Pieces(UNION {part[k] : k \in K})
  <2> HIDE DEF K, part, total
  <2> QED  BY <1>1, <1>5, <1>6, TotalOfParts
<1>9. TotalOf(ControlReport(f)) = SumFunction(total)  BY DEF TotalOf
<1> HIDE DEF total, part, K
<1> QED  BY <1>7, <1>8, <1>9 DEF K

\* The items' pieces are those of a row of the calendar and those of none.
LEMMA ControlIsTheRest ==
  ASSUME ReportsInv, NEW f \in Filters
  PROVE  Pieces(UNION {ItemEvents(i, f) : i \in ControlItems(f)})
           = Pieces(InCalendar(f)) + Pieces(OutsideCalendar(f))
<1> DEFINE control == UNION {ItemEvents(i, f) : i \in ControlItems(f)}
           A == InCalendar(f)
           B == OutsideCalendar(f)
<1>1. A \in SUBSET Events /\ B \in SUBSET Events
  BY DEF InCalendar, StationEvents, OutsideCalendar
<1>2. A \cap B = {}
  <2> SUFFICES ASSUME NEW e \in A, e \in B PROVE FALSE  OBVIOUS
  <2>1. PICK id \in CalendarRows(f) : e \in StationEvents(calendar[id])  BY DEF InCalendar
  <2> QED  BY <2>1, RowsFinite DEF StationEvents, OutsideCalendar, SameKey
<1>3. ASSUME NEW e \in control PROVE e \in A \cup B
  <2>1. PICK i \in ControlItems(f) : e \in ItemEvents(i, f)  OBVIOUS
  <2>2. e[1] = i /\ e[2] \in f.days /\ e[3] \in Shifts /\ Passes(f.shift, e[3])
        /\ e = <<e[1], e[2], e[3]>>
    BY <2>1 DEF ItemEvents
  <2>3. i \in approved /\ i \in Items /\ Passes(f.station, ItemRow[i].station)
    BY DEF ControlItems, ReportsInv, ReportsTypeOK
  <2>4. f.days \subseteq WorkDays  BY DEF Filters
  <2>5. e \in Events  BY <2>2, <2>3, <2>4 DEF Events
  <2> DEFINE key == [day |-> e[2], shift |-> e[3], station |-> ItemRow[e[1]].station]
  <2>6. CASE \A id \in DOMAIN calendar : ~SameKey(calendar[id], key)
    BY <2>2, <2>3, <2>5, <2>6 DEF OutsideCalendar
  <2>7. CASE \E id \in DOMAIN calendar : SameKey(calendar[id], key)
    <3>1. PICK id \in DOMAIN calendar : SameKey(calendar[id], key)  BY <2>7
    <3>2. /\ calendar[id].day = e[2] /\ calendar[id].shift = e[3]
          /\ calendar[id].station = ItemRow[i].station
      BY <2>2, <3>1 DEF SameKey
    <3>3. id \in CalendarRows(f)  BY <2>2, <2>3, <3>2 DEF CalendarRows
    <3>4. e \in StationEvents(calendar[id])  BY <2>2, <2>3, <2>5, <3>2 DEF StationEvents
    <3> QED  BY <3>3, <3>4 DEF InCalendar
  <2> QED  BY <2>6, <2>7
<1>4. ASSUME NEW e \in A \cup B, produced[e] # 0 PROVE e \in control
  <2>1. e \in Events  BY <1>1
  <2>2. e[1] \in approved /\ ItemRow[e[1]].work_day = e[2]
    BY <1>4, <2>1 DEF ReportsInv, ProducedFits
  <2>3. e[2] \in f.days /\ Passes(f.shift, e[3]) /\ Passes(f.station, ItemRow[e[1]].station)
    <3>1. CASE e \in A
      <4>1. PICK id \in CalendarRows(f) : e \in StationEvents(calendar[id])
        BY <3>1 DEF InCalendar
      <4> QED  BY <4>1 DEF StationEvents, CalendarRows
    <3>2. CASE e \in B  BY <3>2 DEF OutsideCalendar
    <3> QED  BY <3>1, <3>2
  <2>4. Passes(f.product, ItemRow[e[1]].product)  BY DEF Filters, Passes
  <2>5. e[1] \in ControlItems(f)  BY <2>2, <2>3, <2>4 DEF ControlItems
  <2>6. e = <<e[1], e[2], e[3]>> /\ e[3] \in Shifts  BY <2>1 DEF Events
  <2>7. e \in ItemEvents(e[1], f)  BY <2>3, <2>6 DEF ItemEvents
  <2> QED  BY <2>5, <2>7
<1>5. control \subseteq A \cup B  BY <1>3
<1> HIDE DEF A, B, control
<1>6. Pieces(control) = Pieces(A \cup B)
  <2>1. control \in SUBSET Events /\ A \cup B \in SUBSET Events  BY <1>1, <1>5
  <2> DEFINE both == A \cup B
  <2>2. both \in SUBSET Events /\ control \subseteq both
        /\ \A e \in both : produced[e] # 0 => e \in control
    BY <1>4, <1>5, <2>1
  <2> HIDE DEF both
  <2>3. Pieces(control) = Pieces(both)  BY <2>1, <2>2, SamePieces
  <2> QED  BY <2>3 DEF both
<1>7. Pieces(A \cup B) = Pieces(A) + Pieces(B)
  <2>1. IsFiniteSet(A) /\ IsFiniteSet(B)  BY <1>1, EventsFinite
  <2>2. \A e \in A \cup B : produced[e] \in Int  BY <1>1, ProducedNumbers
  <2> QED  BY <1>2, <2>1, <2>2, SumDisjoint DEF Pieces
<1> QED  BY <1>6, <1>7 DEF A, B, control

-----------------------------------------------------------------------------
(* The time of the stations *)

\* A row of the calendar is the only one of its key, so it is the last one.
LEMMA LastIsOnly ==
  ASSUME ReportsInv, NEW f
  PROVE  LastOfKey(f) = CalendarRows(f)
<1>1. DOMAIN calendar = 1..Len(calendar) /\ Len(calendar) \in Nat
  BY DEF ReportsInv, ReportsTypeOK
<1>2. \A id, other \in CalendarRows(f) :
        SameKey(calendar[id], calendar[other]) => other <= id
  BY <1>1, RowsFinite DEF ReportsInv, KeysDiffer
<1> QED  BY <1>2 DEF LastOfKey

\* The report counts the minutes of a key once.
LEMMA TimeCountedOnce ==
  ASSUME ReportsInv, NEW f, NEW minutes
  PROVE  SumFunction([id \in DOMAIN PlannedTimeReport(f) |->
                        PlannedTimeReport(f)[id].time[minutes]])
           = SumFunction([id \in LastOfKey(f) |-> StationTime(calendar[id])[minutes]])
<1>1. DOMAIN PlannedTimeReport(f) = LastOfKey(f)  BY LastIsOnly DEF PlannedTimeReport
<1>2. \A id \in LastOfKey(f) : PlannedTimeReport(f)[id].time = StationTime(calendar[id])
  BY LastIsOnly DEF PlannedTimeReport
<1>3. [id \in DOMAIN PlannedTimeReport(f) |-> PlannedTimeReport(f)[id].time[minutes]]
        = [id \in LastOfKey(f) |-> StationTime(calendar[id])[minutes]]
  BY <1>1, <1>2
<1> QED  BY <1>3

\* Whatever the calendar, the production and the filter, the three reports
\* account for the same pieces and count every station's minutes once
\* (production.py:1811-2357, 2674-2814): the pieces of the calendar's rows are
\* shared out among their products, production_control has those and the ones
\* of days and stations without a row, and no key has two rows.
THEOREM ReportsCountAlike == ReportsSpec => []ReportsAgree
<1>1. ASSUME ReportsInv, NEW f \in Filters PROVE Agree(f)
  <2>1. TotalOf(PlannedTimeReport(f)) = Pieces(InCalendar(f))  BY <1>1, PlannedTotal
  <2>2. SumFunction([r \in PerformanceReport(f) |-> r.actual]) = Pieces(InCalendar(f))
    BY <1>1, PerformanceTotal, ProductsMakeUpStations
  <2>3. TotalOf(ControlReport(f)) = Pieces(InCalendar(f)) + Pieces(OutsideCalendar(f))
    BY <1>1, ControlTotal, ControlIsTheRest
  <2>4. \A minutes \in {"net", "available"} :
          SumFunction([id \in DOMAIN PlannedTimeReport(f) |->
                         PlannedTimeReport(f)[id].time[minutes]])
            = SumFunction([id \in LastOfKey(f) |-> StationTime(calendar[id])[minutes]])
    BY <1>1, TimeCountedOnce
  <2> QED  BY <2>1, <2>2, <2>3, <2>4 DEF Agree
<1>2. ReportsInv => ReportsAgree  BY <1>1 DEF ReportsAgree
<1> QED  BY ReportsInitially, ReportsStep, <1>2, PTL DEF ReportsSpec

-----------------------------------------------------------------------------
(* The filter of products *)

\* A set with two different elements has more than one.
LEMMA TwoAreMany ==
  ASSUME NEW S, IsFiniteSet(S), NEW a \in S, NEW b \in S, a # b
  PROVE  Cardinality(S) > 1
<1>1. IsFiniteSet({a}) /\ Cardinality({a}) = 1  BY FS_Singleton
<1>2. Cardinality({a} \cup {b}) = 2  BY <1>1, FS_AddElement
<1>3. {a} \cup {b} \subseteq S  OBVIOUS
<1>4. Cardinality({a} \cup {b}) <= Cardinality(S)  BY <1>3, FS_Subset
<1>5. Cardinality(S) \in Nat  BY FS_CardinalityType
<1> QED  BY <1>2, <1>4, <1>5

\* Choosing a product selects rows of the performance report and changes none,
\* and a station's time is charged to its product only where it is the only one
\* (production.py:2122-2357).
THEOREM FilteringSelects == ReportsSpec => []FilterOnlySelects
<1>1. ASSUME ReportsInv, NEW f \in Filters PROVE OnlySelects(f)
  <2> DEFINE all == PerformanceReport(f)
             g(p) == [f EXCEPT !.product = p]
  <2>1. ASSUME NEW p \in Products
        PROVE  PerformanceReport(g(p)) = {r \in all : r.product = p}
    <3>1. /\ g(p).days = f.days /\ g(p).shift = f.shift
          /\ g(p).station = f.station /\ g(p).product = p
      BY DEF Filters
    <3> HIDE DEF g
    <3>2. CalendarRows(g(p)) = CalendarRows(f)  BY <3>1 DEF CalendarRows
    <3>3. \A id, q : ProductRow(id, q, g(p)) = ProductRow(id, q, f)
      BY DEF ProductRow, MultipleProducts
    <3>4. \A q : Passes(f.product, q)  BY DEF Filters, Passes
    <3>5. \A q : Passes(g(p).product, q) <=> q = p  BY <3>1, ReportConstants DEF Passes
    <3>6. ASSUME NEW r \in PerformanceReport(g(p)) PROVE r \in all /\ r.product = p
      <4>1. /\ r.row \in CalendarRows(f) /\ r.product \in Groups(calendar[r.row])
            /\ r.product = p /\ r = ProductRow(r.row, r.product, f)
        BY <3>2, <3>3, <3>5, PerformanceRow
      <4> QED  BY <3>4, <4>1, RowOfProduct
    <3>7. ASSUME NEW r \in all, r.product = p PROVE r \in PerformanceReport(g(p))
      <4>1. /\ r.row \in CalendarRows(g(p)) /\ p \in Groups(calendar[r.row])
            /\ r = ProductRow(r.row, p, g(p))
        BY <3>2, <3>3, <3>7, PerformanceRow
      <4>2. Passes(g(p).product, p)  BY <3>5
      <4> HIDE DEF all
      <4> QED  BY <4>1, <4>2, RowOfProduct
    <3> QED  BY <3>6, <3>7
  <2>2. ASSUME NEW r \in all, NEW s \in all, r.row = s.row, r.product # s.product
        PROVE  r.performance = None
    <3>1. /\ r.product \in Groups(calendar[r.row]) /\ s.product \in Groups(calendar[r.row])
          /\ r.row \in DOMAIN calendar /\ r = ProductRow(r.row, r.product, f)
      BY <1>1, <2>2, PerformanceRow, RowsFinite
    <3>2. IsFiniteSet(Groups(calendar[r.row]))  BY <1>1, <3>1, GroupsFinite
    <3>3. MultipleProducts(calendar[r.row], f)
      BY <2>2, <3>1, <3>2, TwoAreMany DEF MultipleProducts
    <3>4. ProductRow(r.row, r.product, f).performance = None  BY <3>3 DEF ProductRow
    <3> QED  BY <3>1, <3>4
  <2> HIDE DEF all, g
  <2> QED  BY <2>1, <2>2 DEF OnlySelects, all, g
<1>2. ReportsInv => FilterOnlySelects  BY <1>1 DEF FilterOnlySelects
<1> QED  BY ReportsInitially, ReportsStep, <1>2, PTL DEF ReportsSpec

-----------------------------------------------------------------------------
(* Side by side *)

\* Plans and reports, interleaved in one server, keep their types.
THEOREM ProductionTypesCorrect == ProductionSpec => []TypesOK
<1> DEFINE Inv == IInv /\ ReportsInv
<1>1. ProductionInit => Inv  BY InvInit, ReportsInitially DEF ProductionInit
<1>2. Inv /\ [ProductionNext]_productionVars => Inv'
  <2>1. [ProductionNext]_productionVars => [Next]_vars /\ [ReportsNext]_reportVars
    BY DEF ProductionNext, productionVars
  <2> QED  BY <2>1, InvStep, ReportsStep
<1>3. Inv => TypesOK  BY DEF TypesOK, IInv, ReportsInv
<1> QED  BY <1>1, <1>2, <1>3, PTL DEF ProductionSpec
=============================================================================
