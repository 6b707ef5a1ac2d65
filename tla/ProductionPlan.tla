--------------------------- MODULE ProductionPlan ---------------------------
(***************************************************************************)
(* Production plans: a plan is drafted, filled with items, approved, and   *)
(* from then on production and stops are recorded against its items        *)
(* (production.py, plans .. delete_plan_item).                             *)
(*                                                                         *)
(* Every handler reads in statements of their own, decides, and ends in    *)
(* one writing statement that it commits.  Nothing is locked in between,   *)
(* so a decision may be out of date when it is carried out.  The foreign   *)
(* keys of the tables are checked by the writing statement itself.         *)
(* Products, stations, shifts, employees and machines are never changed or *)
(* deactivated once inserted: a check against them may refuse a form, no   *)
(* more (RecordRefused, and the items nobody can add).                     *)
(***************************************************************************)
EXTENDS Server, Naturals, FiniteSets

CONSTANTS
  Admins,       \* users; every production page wants the role admin
  Days,         \* dates an item or a record can carry
  MaxPlan,      \* bound on the IDENTITY values of production_plans
  MaxItem       \* bound on the IDENTITY values of production_plan_items

ASSUME PlanConstants ==
  /\ MaxPlan \in Nat /\ MaxItem \in Nat
  /\ None \notin Admins \cup Days

VARIABLES
  plans,        \* production_plans: id -> status and approved_by
  items,        \* production_plan_items: id -> plan_id and work_day
  records,      \* production_entries and production_stops that name an item
  nextPlan,     \* next IDENTITY value of production_plans
  nextItem,     \* next IDENTITY value of production_plan_items
  pc, loc       \* where each thread's handler is, and its local variables

vars == <<plans, items, records, nextPlan, nextItem, pc, loc>>

PlanIds == 1..MaxPlan
ItemIds == 1..MaxItem
Kinds == {"entry", "stop", "waste"}

Plan == [status : {"absent", "draft", "approved"}, approved_by : Admins \cup {None}]
NoPlan == [status |-> "absent", approved_by |-> None]

NoItem == [plan_id |-> 0, work_day |-> None]
Item == [plan_id : PlanIds, work_day : Days] \cup {NoItem}

Record == [kind : Kinds, item : ItemIds, day : Days]

Labels == {"idle", "item_insert", "approve_count", "approve_update",
           "item_delete", "record_insert"}

\* The locals of a handler: its plan, its item, its date, its user or kind.
Job(p, i, d, u, k) == [plan |-> p, item |-> i, day |-> d, user |-> u, kind |-> k]
NoLocals == Job(0, 0, None, None, "entry")
Locals == [plan : PlanIds \cup {0}, item : ItemIds \cup {0}, day : Days \cup {None},
           user : Admins \cup {None}, kind : Kinds]

TypeOK ==
  /\ plans \in [PlanIds -> Plan]
  /\ items \in [ItemIds -> Item]
  /\ records \subseteq Record
  /\ nextPlan \in 1..(MaxPlan + 1)
  /\ nextItem \in 1..(MaxItem + 1)
  /\ pc \in [Threads -> Labels]
  /\ loc \in [Threads -> Locals]

-----------------------------------------------------------------------------

Draft(p) == plans[p].status = "draft"
Approved(p) == plans[p].status = "approved"
Listed(i) == items[i].plan_id # 0
ItemsOf(p) == {i \in ItemIds : items[i].plan_id = p}

\* The foreign keys of production_entries and production_stops.
Referenced(i) == \E x \in records : x.item = i

\* May a record of this kind, for item i and date d, be made?  The waste
\* handler reads item["work_day"], a column its SELECT does not return: the
\* KeyError is caught and the form refused, whatever the date.
DateAccepted(kind, i, d) == kind # "waste" /\ items[i].work_day = d
Admits_AnyStatus(kind, i, d) == Listed(i) /\ DateAccepted(kind, i, d)
Admits(kind, i, d) ==
  /\ Listed(i) /\ Approved(items[i].plan_id)
  /\ DateAccepted(kind, i, d)

Idle(t) == pc[t] = "idle"
Begin(t, label, locals) ==
  /\ pc' = [pc EXCEPT ![t] = label]
  /\ loc' = [loc EXCEPT ![t] = locals]
Finish(t) == Begin(t, "idle", NoLocals)

Init ==
  /\ plans = [p \in PlanIds |-> NoPlan]
  /\ items = [i \in ItemIds |-> NoItem]
  /\ records = {}
  /\ nextPlan = 1 /\ nextItem = 1
  /\ pc = [t \in Threads |-> "idle"]
  /\ loc = [t \in Threads |-> NoLocals]

-----------------------------------------------------------------------------
(* plans, POST: one INSERT. *)

CreatePlan ==
  /\ nextPlan <= MaxPlan
  /\ plans' = [plans EXCEPT ![nextPlan] = [status |-> "draft", approved_by |-> None]]
  /\ nextPlan' = nextPlan + 1
  /\ UNCHANGED <<items, records, nextItem, pc, loc>>

-----------------------------------------------------------------------------
(* plan_detail, POST: the status is read once, the item inserted later. *)

ItemSelect_AnyStatus(t) ==
  /\ Idle(t)
  /\ \E p \in PlanIds, d \in Days :
       plans[p].status # "absent" /\ Begin(t, "item_insert", Job(p, 0, d, None, "entry"))
  /\ UNCHANGED <<plans, items, records, nextPlan, nextItem>>
ItemSelect(t) ==
  /\ Idle(t)
  /\ \E p \in PlanIds, d \in Days :
       Draft(p) /\ Begin(t, "item_insert", Job(p, 0, d, None, "entry"))
  /\ UNCHANGED <<plans, items, records, nextPlan, nextItem>>

ItemInsert_NoDate(t) ==
  /\ pc[t] = "item_insert" /\ nextItem <= MaxItem
  /\ items' = [items EXCEPT ![nextItem] =
                 [plan_id |-> loc[t].plan, work_day |-> None]]
  /\ nextItem' = nextItem + 1
  /\ Finish(t)
  /\ UNCHANGED <<plans, records, nextPlan>>
ItemInsert(t) ==
  /\ pc[t] = "item_insert" /\ nextItem <= MaxItem
  /\ items' = [items EXCEPT ![nextItem] =
                 [plan_id |-> loc[t].plan, work_day |-> loc[t].day]]
  /\ nextItem' = nextItem + 1
  /\ Finish(t)
  /\ UNCHANGED <<plans, records, nextPlan>>

-----------------------------------------------------------------------------
(* approve_plan: status, number of items, then the UPDATE that wants the   *)
(* status to be draft still and the row count to be one.                   *)

ApproveSelect(t) ==
  /\ Idle(t)
  /\ \E p \in PlanIds, u \in Admins :
       Draft(p) /\ Begin(t, "approve_count", Job(p, 0, None, u, "entry"))
  /\ UNCHANGED <<plans, items, records, nextPlan, nextItem>>

ApproveCount(t) ==
  /\ pc[t] = "approve_count"
  /\ IF ItemsOf(loc[t].plan) = {}
       THEN Finish(t)
       ELSE Begin(t, "approve_update", loc[t])
  /\ UNCHANGED <<plans, items, records, nextPlan, nextItem>>

ApproveUpdate_ById(t) ==
  /\ pc[t] = "approve_update"
  /\ plans' = [plans EXCEPT ![loc[t].plan] =
                 [status |-> "approved", approved_by |-> loc[t].user]]
  /\ Finish(t)
  /\ UNCHANGED <<items, records, nextPlan, nextItem>>
ApproveUpdate(t) ==
  LET p == loc[t].plan IN
  /\ pc[t] = "approve_update"
  /\ plans' = IF Draft(p)
       THEN [plans EXCEPT ![p] = [status |-> "approved", approved_by |-> loc[t].user]]
       ELSE plans
  /\ Finish(t)
  /\ UNCHANGED <<items, records, nextPlan, nextItem>>

-----------------------------------------------------------------------------
(* delete_plan_item: any item id may be posted with any plan's address.    *)

DeleteSelect(t) ==
  /\ Idle(t)
  /\ \E p \in PlanIds, i \in ItemIds :
       Draft(p) /\ Begin(t, "item_delete", Job(p, i, None, None, "entry"))
  /\ UNCHANGED <<plans, items, records, nextPlan, nextItem>>

DeleteItem(t) ==
  LET i == loc[t].item IN
  /\ pc[t] = "item_delete"
  /\ items' = IF items[i].plan_id = loc[t].plan /\ ~Referenced(i)
                THEN [items EXCEPT ![i] = NoItem] ELSE items
  /\ Finish(t)
  /\ UNCHANGED <<plans, records, nextPlan, nextItem>>

-----------------------------------------------------------------------------
(* production_entries, production_stops and production_waste_entries, POST, *)
(* as far as they concern the plan: the item is read and checked, then the  *)
(* shift, the employee and the machine, then the row is inserted.           *)

RecordSelect(t) ==
  /\ Idle(t)
  /\ \E kind \in Kinds, i \in ItemIds, d \in Days :
       Admits(kind, i, d) /\ Begin(t, "record_insert", Job(0, i, d, None, kind))
  /\ UNCHANGED <<plans, items, records, nextPlan, nextItem>>

\* The INSERT fails if the item has been deleted meanwhile (foreign key).
RecordInsert(t) ==
  LET x == [kind |-> loc[t].kind, item |-> loc[t].item, day |-> loc[t].day] IN
  /\ pc[t] = "record_insert"
  /\ records' = IF Listed(loc[t].item) THEN records \cup {x} ELSE records
  /\ Finish(t)
  /\ UNCHANGED <<plans, items, nextPlan, nextItem>>

\* A later check of the same handler refuses the form.
RecordRefused(t) ==
  /\ pc[t] = "record_insert"
  /\ Finish(t)
  /\ UNCHANGED <<plans, items, records, nextPlan, nextItem>>

\* The server process ends and starts again; no transaction is open between
\* two statements of these handlers.
Restart ==
  /\ pc' = [t \in Threads |-> "idle"]
  /\ loc' = [t \in Threads |-> NoLocals]
  /\ UNCHANGED <<plans, items, records, nextPlan, nextItem>>

Next ==
  \/ CreatePlan \/ Restart
  \/ \E t \in Threads :
       \/ ItemSelect(t) \/ ItemInsert(t)
       \/ ApproveSelect(t) \/ ApproveCount(t) \/ ApproveUpdate(t)
       \/ DeleteSelect(t) \/ DeleteItem(t)
       \/ RecordSelect(t) \/ RecordInsert(t) \/ RecordRefused(t)

Spec == Init /\ [][Next]_vars

-----------------------------------------------------------------------------
(* Properties *)

\* What is recorded stays attached to what was approved: the item of a record
\* exists, its plan is approved, and the record carries the item's work day
\* (production.py:1216-1233, 868-885 and the foreign keys).
RecordsBelong == \A x \in records :
  /\ Listed(x.item)
  /\ Approved(items[x.item].plan_id)
  /\ items[x.item].work_day = x.day

\* Two admins may approve at once: the first approval stands, with its name,
\* and no plan returns to draft (production.py:1350-1359).
ApprovalIsFinal == [][\A p \in PlanIds : Approved(p) => plans'[p] = plans[p]]_vars

\* The handlers that read `draft` and may still change the items of plan p.
Editors(p) == {t \in Threads : pc[t] \in {"item_insert", "item_delete"}
                               /\ loc[t].plan = p}

\* After the approval nobody joins the handlers that may still change the
\* plan, and every change uses one of them up: an approved plan changes at
\* most once per thread that was at work on it (production.py:669, 1379).
ApprovedPlanClosesOut == [][\A p \in PlanIds : Approved(p) =>
  /\ Editors(p)' \subseteq Editors(p)
  /\ ItemsOf(p)' # ItemsOf(p) => Editors(p)' # Editors(p)]_vars

\* What the properties above rest on: locals are filled in, a record under way
\* names an item of an approved plan or one that is gone.
LocalFits(t) ==
  /\ pc[t] \in {"item_insert", "approve_count", "approve_update", "item_delete"}
       => loc[t].plan \in PlanIds /\ plans[loc[t].plan].status # "absent"
  /\ pc[t] = "item_insert" => loc[t].day \in Days
  /\ pc[t] = "item_delete" => loc[t].item \in ItemIds
  /\ pc[t] = "record_insert" =>
       /\ loc[t].item \in ItemIds /\ loc[t].item < nextItem /\ loc[t].day \in Days
       /\ Listed(loc[t].item) =>
            /\ Approved(items[loc[t].item].plan_id)
            /\ items[loc[t].item].work_day = loc[t].day
PlansInOrder == \A p \in PlanIds : plans[p].status # "absent" => p < nextPlan
ItemsInOrder == \A i \in ItemIds : Listed(i) =>
  i < nextItem /\ items[i].plan_id < nextPlan

IInv == /\ TypeOK /\ (\A t \in Threads : LocalFits(t)) /\ PlansInOrder /\ ItemsInOrder
        /\ RecordsBelong

\* Claimed by AI_CONTEXT/CURRENT_TASK.md:293-294: the waste handler too can
\* apply the rule that the date of an event is its item's work day.  So
\* production, waste and stops alike may name an item of an approved plan when
\* their date is its work day.
DateRuleIsUniform == \A kind \in Kinds, i \in ItemIds, d \in Days :
  Listed(i) /\ Approved(items[i].plan_id) /\ items[i].work_day = d
    => Admits(kind, i, d)
=============================================================================
