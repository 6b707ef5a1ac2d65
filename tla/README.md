# Repair: a TLA+ model of the maintenance and production system

Repair is a Flask application over SQL Server: a computerised maintenance
system (repair requests, devices, goods, inspections, key equipment, KPI
reports) with a production module (plans, stops, output, OEE) and several
companies, one database each.  This directory models the parts of it that are
concurrent, transactional or arithmetical, checks the models with TLC and
proves their main properties with TLAPS.

Contents: [inventory](#inventory) ·
[how handlers and SQL Server are modelled](#how-handlers-and-sql-server-are-modelled) ·
[modules](#modules) · [runs](#runs) · [fairness](#fairness) ·
[where code and claims part](#where-code-and-claims-part) ·
[what is proved](#what-is-proved) ·
[what is only model-checked, and what is not modelled](#what-is-only-model-checked-and-what-is-not-modelled) ·
[plan](#plan)

## Inventory

Line numbers are those of `app.py` and `production.py` unless another file is
named.  "Modelled" names the module; a dash says the part is not modelled.

| Component | State | Operations | Talks to | What is hard | What makes it correct | Module |
|---|---|---|---|---|---|---|
| Repair requests (app 1490-1868) | tables `data`, `mojry`, `mvademasrafi`, `audit_log`; pages open in browsers | register, open for review, complete, correct, delete | SQL Server; devices, goods, contractors by code | statements of several handlers interleave; review lock; transactions in two tables; restart | one reviewer per request; a report and its child rows agree; numbers are unique; handlers end | `RequestReview`, `RequestBoard` |
| Production plans (production 600-770, 1187-1395) | `production_plans`, `production_plan_items`, and the rows of `production_entries`, `production_stops`, `production_waste_entries` that name an item | create, add item, delete item, approve, record output, waste or a stop | foreign keys; master data | every handler checks in one statement and acts in another | records stay with an approved item on its day; approval is final; an approved plan closes | `ProductionPlan` |
| Production stops (production 780-1000) | `production_stops` | register | plan items, machines, shifts | overlap check and insertion are two statements; shifts over midnight | stops lie in their shift; overlaps are bounded | `StopRegister` |
| Station availability and stop reports (production 44-183, 236-260, 1979-2016, 2731-2800) | none of its own; reads stops and the calendar | merge, subtract, clip and count spans | stops, calendar | spans that touch, nest, arrive in any order; midnight; two kinds of stop at once; two reports of the same stops | every minute counted once, in one class; the reports differ only by what they mean to | `Intervals`, `StationTime` |
| Companies and their databases (tenant.py) | `companies` of `repair_master`; the databases of the server | first company, create, change | SQL Server's `CREATE DATABASE`; the tables of the new database | four commits in two databases; two creations at once; a failure in between | a listed company owns its database and its administrator | `CompanyProvisioning`, `CompanyRegistry` |
| Sign-in, sessions and roles (app 225-465, auth.py) | the session cookie; failed sign-ins in memory | choose company, sign in, sign out, visit a company as main administrator, the two `before_request` checks | companies, accounts, the review of a request | two tabs each put back the session they started from; a visit that is said to write nothing, and pages that write when they are opened; ids repeat in every database; failures counted before and recorded after a slow hash, by several threads | the user of a session belongs to its company; who visits is marked, and only completes what is missing; an address that is locked stays locked for its time | `Sessions`, `LoginLimit` |
| User accounts and plan quotas (app 437-640, tenant 253-265) | `users` of each company; sessions opened with them | add, toggle, change role, delete | sessions, plan of the company | name and count are read before the insertion; a session keeps the rights of its account at sign-in | quota nearly kept; an administrator remains; an id never means somebody else | `UserAccounts` |
| Devices and machine passports (app 1024-1395, tenant 253-265) | `dastgahjadid`, `machine_passport`, `machine_product_usage` | add or change, delete, complete passports | plan of the company; requests, key equipment, production | two pages lock the rows of a device in opposite orders; the limit is counted on another connection; names read before they are written | passport and device agree; a device has a passport; the limit is nearly kept; handlers end | `DeviceCatalog` |
| Goods and contractors (app 1398-1488) | `kalajadid`, `mojryjadid` | add, change, delete | requests, stock reports | codes from `SELECT MAX`, without the lock the code asks for | one code, one item; a row registered stays | `CodeRegister` |
| Key equipment (app 629-1019) | `key_equipment`, `key_equipment_meta` | fill from a template, add rows for new machines, save criteria and substitutes | devices | the table is filled by whoever looks first; the class is computed from criteria read before | only key equipment has substitutes; the class follows the criteria | `KeyEquipment` |
| Inspections (app 1870-2180) | inspection tables | register three kinds, list, export | devices | one INSERT each | – | – |
| Maintenance recommendation (app 2489-2581) | none | interval between failures, recommended day | requests | zero, one or repeated dates | day not before the baseline | – |
| Request lists, reports, KPI and costs | `monthly_repair_cost` | filter, page, export, save monthly costs | requests | – | sums per device | – |
| Production master data | products, stations, machines, employees, shifts, types | one insertion each | the other production pages | UNIQUE codes | – | – (constants) |
| Work calendar (production 2590-2730) | `production_work_calendar` | look up, then update or insert | reports | two first entries of a day | one row per day, shift, station, without which the reports disagree | `ProductionReports` |
| Attendance and breaks (production 1397-1520) | attendance, breaks | one insertion each | – | – | – | – |
| Production control and OEE reports (production 186-225, 1809-2587) | none | quality, performance, OEE and totals | entries, calendar, plans, stops | several joins of the same events; zero and missing denominators; time shared by products | no piece and no minute lost or counted twice; reports agree | `ProductionReports` |
| SQL translation and schema (database.py) | connections | rewrite SQLite's dialect, rows by name | every handler | a construct that silently becomes nothing | the effect is in the modules that use it | – |
| Calendar and text utilities (jalali.py, text_utils.py) | none | convert dates, normalise text | every page | leap days of two calendars, cycles of 33 and 400 years | conversions are inverse and consecutive | `JalaliCalendar` (dates) |
| Import, exports, templates | none | – | – | – | – | – |

How the parts interact.  A browser sends a request, a thread of waitress runs
the handler to its end on a connection it opens for the request and closes
after it, and all that handlers share is the data in SQL Server, the session
cookie of one browser, and a dictionary of failed sign-ins in memory.  There are
no callbacks, queues or background jobs.  The hazards (`PROJECT.json`) are
therefore of four kinds: another handler's statement between two of one's own;
a transaction that ends half way; a page or a session that is older than the
tables; and arithmetic on dates and minutes at a boundary.

## How handlers and SQL Server are modelled

**Threads.** `run_production.py` starts waitress with eight threads.  A thread
runs one handler at a time: `pc[t]` is the statement it will run next, `loc[t]`
its local variables, "idle" no handler.  Which user posts what is chosen by
`\E`: a browser may post any form at any time, whatever page it shows.

**Steps.** A step is one SQL statement, or one transaction that consists of a
single statement, or (named in a comment) several statements of which only one
can wait or be seen by others.  A handler's early returns are the other branch
of a step, or, when they change nothing, simply its end.

**Isolation.** SQL Server runs at its default, READ COMMITTED with locks: a
statement never reads what another transaction has changed and not committed,
it waits.  In `RequestReview` and `DeviceCatalog`, whose transactions have several
statements, a transaction keeps its changes in `loc` until its commit step.  In
the first, `rowLock` says which row of `data` it has locked, and the deleted and
inserted child rows of other transactions are what `MojryBusy` and `MvadBusy`
wait for; in the second, `HoldsDevice` and `HoldsPassport` say which rows of the
two tables it has changed.
SQL Server may lock more than these rows while it scans a table without an
index.  That only delays steps, so every behaviour of the program is one of the
model's, which is what the safety properties need; the deadlock and liveness
run is about the row locks and says nothing of scans.

**Translation.** `database.py` turns `BEGIN IMMEDIATE` into nothing, so a
handler written for SQLite's exclusive transaction has none; an `INSERT OR
REPLACE` or `ON CONFLICT` becomes a MERGE.  The models have the statements after
the translation.

**Restarts.** `Restart` (`NewProcess` in `UserAccounts`, `CodesRestart`,
`CalendarRestart`, `LimitRestart`; in `CompanyProvisioning`, `Abort` of each worker) ends
the process between any two steps: handlers are gone, open transactions are
rolled back, committed rows and the pages in browsers stay.

**Names.** Definitions keep the names of tables, columns and functions.  A
definition `X_Suffix` that stands before `X` is a faulty version of `X` with the
mistake its suffix names; no module uses one.  They are there to show that a
property notices the mistake.

## Modules

### RequestReview and RequestBoard

`RequestReview` has the five pages that change a request.  Each action is named
for its handler and statement: `NewSelectMax`, `NewInsert` (`request_new`);
`GetClaim`, `GetSelect` (`request_complete`, GET); `PostSelect`, `PostUpdate`,
`PostDeleteMojry`, `PostDeleteMvad`, `PostInsertMojry`, `PostInsertMvadCommit`
(POST); `EditSelect`, `EditUpdate` (`request_edit`); `DeleteSelect`,
`DeleteMojry`, `DeleteMvad`, `DeleteDataCommit` (`request_delete`).  A request
is its status, number, owner (`in_progress_by`), device and report; the content
of a completion form is one value of `Forms`, and the contractor and goods rows
written from it are one row per table, tagged with request, form and device.
`pages` holds the completion pages that browsers show.

`RequestBoard` says what the pages promise without threads, statements and
locks: a request is registered under a free number, claimed by one person,
completed with its report and child rows in one step, corrected, or removed.
`RequestReview` implements it under the mapping at its end (`BoardSpec`): the
committed tables, the child rows of existing requests, the issued ids.

### ProductionPlan

Plans, items and the rows recorded against items.  `CreatePlan`; `ItemSelect`,
`ItemInsert` (`plan_detail`); `ApproveSelect`, `ApproveCount`, `ApproveUpdate`
(`approve_plan`); `DeleteSelect`, `DeleteItem` (`delete_plan_item`);
`RecordSelect`, `RecordInsert`, `RecordRefused` (`production_entries`, and the
stop and waste handlers as far as they concern the item).  Quantities are left
out.  A foreign key is a guard of the writing statement.

### StopRegister

Stops of one production date.  A form has a shift, a type, a span, and may have
a machine and an item.  `OverlapSelect` is the validation and the SELECT for an
overlap, `Insert` the check of the machine's station and the INSERT.  Clock steps
0 to 2·`DayLength` are two days, so shifts over midnight are as in the code.

### Intervals and StationTime

`Intervals` has `_merge_intervals`, `_subtract_intervals` and
`_merged_interval_minutes`.  Each `for` of the code is a `Loop` (module `Loops`) over
the same list, with the loop's cursor and break in its state, and a definition
for its body (`Merge`, `Block`, `Count`, `Place` of the sort).  `StationTime` extends `StopRegister` with
`_stop_minutes_for_calendar_row` and the availability of `planned_time_report`,
computed from the table the register fills; `ControlMinutes` is what
`production_control` computes from the same stops, without clipping and without
taking the planned stops off.  The reference is sets of minutes.

### JalaliCalendar

`GregorianToJalali` and `JalaliToGregorian` are the two integer conversions of
`jalali.py` (loops over months as sums of prefixes), each the number of a day
(`GregorianDayNo`, `JalaliDayNo`) and the other calendar's date of it (`JalaliOf`,
`GregorianOf`); `JalaliDaysInMonth` is the length of a month from two of them.
`NextDay` walks through the days of Python's `datetime`.

### ProductionReports

The handler of the work calendar (`CalendarSelect`, `CalendarUpdate`,
`CalendarInsert` with the unique key behind it), and as operators the four
reports that join it with plans and events: `PlannedTimeReport` (by station),
`PerformanceReport` (by station and product), `OeeReport` and `ControlReport`
(by plan item).  What `ProductionPlan` guarantees of the events is built into
`ItemsChange` and `RecordProduction`: a record names an item of an approved plan
on its work day, and such an item stays.  `Lost` stands for `StationTime`'s
minutes: the sum is at most the planned time, which is `MinutesClassified`.

### Sessions

A request works on the copy of the session that came with it, and its answer
puts that copy back.  `request` holds the copies, so two requests of one browser
overwrite each other's session in any order.  A handler that has not touched its
session answers with the cookie only if it leaves a message for the user
(`Reply` allows both).  An action is the whole handler together with its answer:
`SelectCompany`, `Login`, `Logout`, `MasterLogin`, `MasterLogout`,
`MasterEnterCompany`, `MasterReturn`, `MasterCompanyUpdate`, and `Evicted` and
`FormAccepted` for the two `before_request` checks; a refusal of any kind is a
`Page`.  `origin` says in which company, and how, the user of a session was found;
the code keeps no such thing.

Of the company's pages there are those that matter for a visit, because they write
when they are opened: the review of a request (`RequestCompleteGet`), which claims
it, and the pages and exports of devices, passports and key equipment
(`OpenRegister`), which give each device the row it lacks.  `behind` says which of
the two registers lack something; `ChangeDevice` is a form that makes devices and
registers differ.  What the rows contain is in `DeviceCatalog` and `KeyEquipment`.

### LoginLimit

The failed sign-ins of one address in `_login_attempts`, a list in memory that the
threads share without a lock; the lists of other addresses are independent of it.
A sign-in is `CopyList` and `StoreList` (`_too_many_login_attempts`: copy without
the old failures, put the copy in the list's place, count it), then the account is
read and the password hashed, and it ends with `PasswordRight` (which drops the
list), `NotCounted`, or `PasswordWrong` and `AppendFailure`
(`_record_login_attempt`: find the list, append to it).  `WindowPasses` lets the
oldest failure get old.  The list itself may be replaced between the two halves of
a record; `appending` are the threads that still hold the one that is listed.

### UserAccounts

`Post`, `SelectName`, `CountUsers`, `InsertUser` and `InsertRefused` are the
statements of `admin_users`; `ToggleActive`, `SetRole` and `DeleteUser` are one
statement each; `OpenSession` (`login`) copies id, name and role into the session, which is what
every later check looks at.  The column `username` is UNIQUE in the tables
`database.py` creates and not in those of `repair_sqlserver.sql`; `unique` covers
both.

### CodeRegister

`GoodsPost`, `GoodsMax`, `GoodsMerge` (`goods`), `GoodsDelete`, and
`ContractorPost`, `ContractorMax`, `ContractorInsert` (`contractors`).  `seen` is
a history variable: the codes that were in use when a handler read the maximum.

### KeyEquipment

`Open`, `SeedFromTemplate` and `EnsureKeyRows` are what every page of key
equipment does first; `SaveRead` and `SaveWrite` are a save of one row, the
first its SELECT and the second the UPDATE with its derived fields.
`KeyScore` and `KeyClassification` are the code's weights and thresholds.

### Server, Access, Catalog and Production

`Server` declares what all handlers share, the threads and NULL.  `Access` is
`UserAccounts`, `Sessions` and `LoginLimit` in one server, `Catalog` is `DeviceCatalog`,
`CodeRegister` and `KeyEquipment`, `Production` is `ProductionPlan` and
`ProductionReports`: the initial states of all, and a step of one.  The names of
the second and third part carry a prefix (`SessionsSpec`, `LimitInit`, `CodesNext`, `keyVars`).

### One run, several components

`MCAccess`, `MCCatalog`, `MCProduction` and `MCTimes` put modules together that
share no variable and do not read each other's.  A behaviour of two of them
together can violate a property of one only if that one does so alone, so a behaviour
here chooses one `part` at the start and the others stand still: the state space
is the sum of theirs, not the product.  Where components do meet, the meeting is
inside a module: `Sessions` has the review of a request and the registers that pages
complete, `DeviceCatalog` the
passports and the plan's limit, `StationTime` the stop register,
`ProductionReports` the plan items, events and calendar.

### CompanyProvisioning and CompanyRegistry

`ensure_master_database` (`CountCompanies`, `InsertFirst`), `create_company`
(`CheckName`, `CheckDatabase`, `NextCandidate`, `CreateDatabase`, `CreateAdmin`,
`Register`) and `update_company` (`SelectCompany`, `UpdateCompany`).
`Candidate[n][k]` is the k-th database name tried for company name n
(`_safe_db_name` and the suffixes `_2`, `_3`); any function with
`Candidate[FirstName][1] = FirstDb` is allowed, because the name of the first
company is written in Persian letters and reduces to "repair".  `Abort` is an
exception, a refusal or the end of the process between any two statements.
`founder` is a history variable.

`CompanyRegistry` is the list an administrator relies on: a company appears
with a database of its own and its administrator in it, in one step.

### DeviceCatalog

The names in `dastgahjadid` and `machine_passport`.  `EnsureSelect` and
`EnsureInsert` are `_ensure_machine_passport`, which both pages call first.
`DeviceSelect`, `DeviceCount` (`company_limit`), `DeviceMerge`,
`DevicePassport` and `DeviceCommit` are a POST of `devices`;
`PassportUpdate`, `PassportDevice` and `PassportCommit` one of
`machine_passports`; `DeviceDelete` is `device_delete`.  `EndPage` is a page
that only reads, an export, or a form that is refused.  The two transactions
take the rows of one device in opposite orders; `Victim` is SQL Server's answer
when they meet.  Technical data and product flags are left out: they are
overwritten as a whole, and by whoever comes last.

## Runs

Each run, in `PROJECT.json`, is one question.  Threads, browsers and users are
model values; sets of threads (and of users, where they have equal rights) are
symmetric in the safety runs, and the two companies of the sessions, never where
liveness is checked.

| Run | Question | Instance | Distinct states |
|---|---|---|---|
| `requests_safety` | Do the review lock, a report and its child rows stay consistent under every interleaving and restart, and do the pages implement `RequestBoard`? | 2 threads, 2 requests, an administrator and a reviewer, 2 forms, 2 devices | 1,489,865 |
| `requests_liveness` | Does every handler end? | 3 threads, 1 request, 1 form, 1 device | 36,800 |
| `requests_orphans` | Does a deletion remove all child rows? (No.) | 2 threads, 2 requests | violation |
| `plans_safety` | Do records stay with approved items, is an approval final, does an approved plan settle? Do the reports agree with each other whatever is planned, produced and entered in the calendar? | 2 threads, 2 administrators, 2 plans, 2 items, 2 days; 2 threads on the calendar, 4 items of 2 products at a station or none, 2 shifts | 160,939 |
| `plans_waste` | May waste name an item, as output and stops may? (No.) | 2 threads, 1 plan, 2 items, 1 day | violation |
| `stops_safety` | Do stops fit their shift and station, and how far can they overlap? | 2 threads, 3 stops, day and night shift, 2 machines, 1 item, 8 clock steps | 102,957 |
| `stops_overlap` | Can stops of a machine overlap? (Yes.) | 2 threads, 2 stops | violation |
| `station_minutes` | Do the reports count minutes as sets? Are the two calendars converted without a gap? | 1 thread, 3 stops, 3 stop types, a machine and an item, every planned time; every day from 2001 to 2101 | 130,635 |
| `station_leak` | Does a stop concern its own station only? (No.) | 1 thread, 2 stops, 2 stations | violation |
| `companies_safety` | Does a listed company own its database, whatever fails, and do the statements implement `CompanyRegistry`? | 2 workers, 4 names, 2 administrators, 2 database names per company name | 166,881 |
| `catalog_safety` | Do device and passport agree, is the limit nearly kept, does every page end? What does a code taken twice destroy? Does key equipment keep its substitutes apart? | 2 threads, 3 codes, 1 of them imported, limit 1; 2 threads, 3 codes, 2 names; 2 threads, 1 machine, 4 criteria, 2 forms, substitutes typed or not | 157,753 |
| `access_safety` | Does an administrator remain, is the quota nearly kept, does an id stay its account's? Whose are the rights in a session, and what can a visit change? Does an address that is locked stay locked? | 2 browsers, 2 threads, 3 names, 4 ids, limit 2; 1 browser with 2 requests at once, 2 companies; 2 sign-ins at once, 2 failures allowed of 5 | 1,409,047 |

**Why the bounds are enough.**  Handlers touch one request, plan item, machine
or device each, and meet another handler at that row.  Two threads therefore
show every pair of handlers on one row, a second row shows that nothing leaks
between rows, and the theorems below extend the safety properties to any number
of each.  What more threads could add is a longer waiting cycle:
`requests_liveness` has three for that reason, with everything else at one, so
that all three meet at one request.  `stops_safety` has room for one stop more
than the bound of two overlapping stops needs, so the third is really refused.
In `station_minutes` the order of registration is the order of the list, and
three spans within a shift of three steps show touching, nested, chained, equal
and unsorted ones, and a span cut in two by a planned stop.
The walk of `station_minutes` begins with a leap cycle under way and ends after 2100,
a century without leap year: both kinds of February, three ends of a 33-year
cycle, and every month.
In `companies_safety` two names share a database name and two reduce to that of
the first company; `MaxTries` = 2 is enough because the loop goes on only while a
registered company has the name, and at most one other may.  In `catalog_safety`
a limit of one and two threads give an allowance of two, so a third device, which
the forms offer, would violate it.  Rows of key equipment do not depend on each
other, so one machine is enough; four criteria of 30 points reach all classes.
In the reports of `plans_safety` one item has no station, two are of one
product and one of another at one station: the joins differ exactly there, and a
quantity of 0 or 1 for each item and shift tells lost pieces from repeated ones.
In `access_safety` ids are one more than the quota and the threads allow at once,
so accounts are also made after deletions; one browser is enough for the sessions
because they meet only in the list of companies and the request under review,
and two requests of it are the whole hazard.  Two sign-ins at once and a limit of two
are the least that exceed it; five failures fill the list, let it get old and fill it
again.

**Bounds.**  `MaxId`, `MaxPlan`, `MaxItem` and `MaxStops` cap IDENTITY columns
and the length of the stop table, each in the guard of the insertion;
`MaxTries` caps the suffixes tried; `Codes` (1 to 3) is the range of numbers,
`MaxQuantity` and `MaxCalendar` cap pieces and calendar rows; `LOGIN_MAX_ATTEMPTS`
is 2, and `MaxFailures` caps the failures of a behaviour, in the guard of
`AppendFailure`; `DayLength` is the number of clock steps of
a day.  The theorems hold for every value of all of them.

## Fairness

Liveness is checked under strong fairness of `Continue(t)`, the next statement
of the handler that thread t is running, for every thread.  A thread is never
descheduled for ever, so a statement that can run does run.  A statement that
waits for a row may become possible and impossible again as others take the row;
SQL Server queues the waiting statements and grants a lock in the order it was
asked for, which is what strong fairness says, no more.  Deadlocks are found by
SQL Server's monitor, which rolls one transaction back; in `DeviceCatalog` this
is `Victim`, a part of `Continue` because the monitor always runs.
`RequestReview` has no such step: its two row orders (`app.py:1701`, `1811`)
look like a cycle and are none: only a completed request has child rows for a
deletion to lock, and a completion holds a request that is in progress and
has none (`WorkMatchesReport`).  The run would show a deadlock as handlers that
never end.

`Arrive`, the restart and the users get no fairness.  Nobody is obliged to post
a form or to return to a page, so a claimed request may stay claimed for ever:
the code has no timeout (`app.py:1751`), and no property says otherwise.

The COUNT of `DeviceCount` and the list of `EnsureSelect` wait in the model until
no device row is locked.  SQL Server passes the rows one by one and waits at
each in turn, which is easier to get through; with two threads one transaction
at most is in the way, so the run does not assume more than the lock queue.

## Where code and claims part

Each of these runs checks what a comment or a document of the repository says,
and TLC answers with a behaviour that contradicts it.

- `requests_orphans`, `DeletionIsComplete`.  The comment at `app.py:1694`
  and the transaction below it say that a request disappears with its contractor and goods
  rows.  A completion that commits between the deletion of the child rows
  (`app.py:1702`) and the deletion of the request leaves rows of a request that
  is gone.
- `plans_waste`, `DateRuleIsUniform`.  `CURRENT_TASK.md:293-294` says waste too
  may be dated by the work day of its item.  `production.py:1086` reads a column
  the SELECT does not have, and every such record is refused.
- `stops_overlap`, `NoMinuteTwice`.  `production.py:888` says overlapping stops
  are kept out so that no minute counts twice.  Two handlers look before either
  inserts.  What does hold is `OverlapBounded`, and with one thread
  `NoMinuteTwice` itself (`OneThreadNeverOverlaps`).
- `station_leak`, `StopStaysAtStation`.  `production.py:138` says a stop without a
  machine concerns the whole station.  The condition at 150 lets it
  concern every station.

Met on the way and without a run of their own; each is what the model does, and
where a property is named it says how far the damage goes.

- `database.py:134-137` turns `BEGIN IMMEDIATE` into nothing.  Two handlers may
  compute one request number (`app.py:1516-1519`; the unique index refuses the
  second) and one code of goods, where the MERGE then replaces the first item,
  contrary to the comment at `app.py:1439-1440` (`CodesKept`).
- `app.py:910` looks for the names of criteria in a list of pairs, so a save
  of key equipment writes the class of the criteria before it, although the
  comment at 923 says that stale values can never survive a save
  (`QuietSaveIsFresh`: the next save puts it right).
- The template of key equipment may be read in again by a slow handler and change
  the class of rows that were saved meanwhile (`SubstitutesOnlyForKey` excepts it).
- `production.py:2444-2449`: the query of `oee_report` uses `p.code` without
  joining the products, so the report fails whenever the calendar has a row in its
  period (`OeeReport`).
- `app.py:357-360`: a main administrator who signs out while visiting a company
  keeps the mark of the visit, and this browser can send no form any more
  (`StrandedVisitor`).
- `app.py:260`: a visitor is told that he cannot change the company's data, but
  only forms are refused.  Opening the review of a request claims it for the
  company's administrator (1750); opening devices, passports or an export of
  them inserts passports (1141), and opening key equipment or its export fills in and
  corrects its rows (808-828), although the comment at 830 says that opening the page
  must change no data.  `VisitOnlyCompletes` says that this is all: no claim
  of somebody else's, no completion, nothing taken out of a register.
- `app.py:427-439`: failed sign-ins are counted before the password is hashed and
  recorded after it.  Sign-ins that overlap are counted together and exceed
  `LOGIN_MAX_ATTEMPTS`, and a copy of the list made early is put back without the
  failures since.  What holds is that a locked address with no earlier sign-in
  under way stays locked until a failure is old (`LockoutHolds`), and with one thread
  the limit itself (`OneThreadKeepsTheLimit`).
- `auth.py:97`: rights are those at sign-in; two administrators may remove each
  other (`AdminRemains`).
- `app.py:1168`: a blank name saved on the page of passports separates device and
  passport, although the comment at 1167 says they must agree (`NamesAgree`
  leaves blank names out).
- `production.py:1342`: the items of a plan are counted in one statement and the
  plan approved in the next, so a plan may be approved without items
  (`ApprovedPlanClosesOut` says what then still holds).
- `production.py:1474`: the check of a break reads attributes the row object does
  not have, so no break is registered.

## What is proved

All proofs are of a specification without fairness (`Spec`, `SessionsSpec`, `LimitSpec`,
`ReportsSpec`, `CodesSpec`, `KeySpec`, `DaysSpec`, or the composed `AccessSpec`, `CatalogSpec`,
`ProductionSpec`), for any values of the constants that satisfy the assumptions of
the modules, and are checked from nothing by `tlapm` with Z3, Zenon and LS4.  The
assumptions fix the types of constants (bounds are naturals, forms have existing
fields), that `None` (and `Blank`) is not a name or an id, and where a
cardinality or a sum occurs that the threads, items, days and shifts are finitely
many.  Two have content.  `ProvisioningConstants`: the first company's name
reduces to the first database's, which is how `tenant.py` writes both.
`ReportConstants`: what the stops take from a planned time is at most that time,
which is `MinutesClassified`, proved of `StationTime`.

| Module | Theorems |
|---|---|
| `RequestReviewProofs` | `TypeCorrect`, `CompletionOwnership`, `PageOwnership`, `WorkIntegrity`; `Refinement`: the pages implement `RequestBoard` |
| `ProductionProofs` | of the plans: `TypeCorrect`, `RecordIntegrity`, the action properties `FinalApproval` and `ClosingOut`; of the calendar and the reports: `ReportTypesCorrect`, `ReportsCountAlike`, `FilteringSelects`; of both: `ProductionTypesCorrect` |
| `StationTimeProofs` | of the register: `TypeCorrect`, `StopsAlwaysFit`, `OverlapIsBounded`, `OneThreadNeverOverlaps`; of the reports' minutes: `MergingIsUnion`, `MinutesAreClassified` |
| `CompanyProvisioningProofs` | `TypeCorrect`, `DatabaseOwnership`, `FailedCreationsStay`; `Refinement`: tenant.py implements `CompanyRegistry` |
| `CatalogProofs` | of the devices: `TypeCorrect`, `NamesStayTogether`, `DevicesHavePassports`, `LimitHolds`; of goods and contractors: `CodeTypesCorrect` and the action property `RegisteredCodesStay`; of key equipment: `KeyTypesCorrect`, `OnlyKeyHasSubstitutes` and the action property `SavingAgainIsFresh`; of the three: `CatalogTypesCorrect` |
| `AccessProofs` | of the accounts: `TypeCorrect`, `AnAdministratorRemains`, `SessionsStayTheirs`, `QuotaHolds`, `HoldersAreBounded`; of the sessions: `SessionTypesCorrect`, `UsersStayInTheirCompany`, `VisitsAreMarked`, `PasswordsBehindCompletions`, the action properties `VisitsOnlyComplete` and `VisitorsStayStranded`; of the sign-ins: `LimitTypesCorrect`, `OneThreadKeepsTheLimit` and the action property `LockoutKeeps`; of the three: `AccessTypesCorrect` |
| `CalendarProofs` | `ConversionsInverse`, `MonthsHaveTheirDays`, `DaysFollowEachOther` |
| `LoopLemmas` | lemmas: induction over a loop and over a finite set |

The argument has the same shape in each: an inductive invariant `IInv`, stated at
the end of the component's module (`SessionsInv`, `KeyInv`, `CodesInv` and
`ReportsInv` in that of their proofs), `Init => IInv`, one lemma per conjunct for
`IInv /\ [Next]_vars => IInv'` with one step per action, and the theorem from
`IInv`.  What makes the invariants inductive:

- **Requests.**  A report and its rows agree only if nobody else writes while a
  completion is between its UPDATE and its commit.  `CompletionOwnsItsRow` says
  that it holds the lock of a row that is in progress under its user's name;
  `LocalsFit` and `IdsInOrder` keep ids and locals of other handlers
  apart, and `NumbersUnique` gives the board its free number.
- **Plans.**  A record is inserted after its item was read; `LocalFits` says the
  item read is still of an approved plan, and on the day read, or gone, in which
  case the foreign key refuses the insertion.
- **Stops.**  A bound on the rows that cover a minute is not inductive: the
  handlers that have passed the check may all insert.  `OverlapBudget` counts
  them with the rows.  It holds because a handler passes the check only while no
  row covers the minute.
- **Companies.**  A created database must remain its handler's until the row is
  inserted (`HeldByOne`), two rows never share one (`DatabasesDistinct`), and a
  handler tries a suffix only because a registered company has the plain name
  (`SuffixIsForced`), which is what makes a stranded name stranded for ever.
- **Devices.**  The number of devices alone is not inductive: `ReachBounded`
  counts also the codes of the handlers that have passed the check.  That set grows only
  in `DeviceCount`, which is run below the limit, and then has at most one
  code for each thread besides the devices counted.  `RowsCurrent` says that the
  names a completion of passports has read are those of the devices wherever
  it will still insert them; a change of a device in between always comes with a
  passport (`PassportsStay`).
- **Accounts.**  As with devices, the quota is not inductive: `AccountBudget`
  counts the handlers that have passed the count with the accounts.  Names
  have the same budget each (`HolderBudget`), and where the column is unique at
  most one holder (`UniqueHolder`).  That an id stays its account's rests on
  `IdsInOrder`: IDENTITY gives no number twice, so a session's number is either
  its account's or nobody's.  An administrator remains because the pages refuse
  an action on one's own account, and the history variable `acted` names the only
  other way.
- **Sessions.**  What a page does to a session does not depend on where else it is
  kept, so the invariant is one predicate, `Sound`, of every cookie and every
  copy: one lemma per change of a session, and `AnswerSound` for putting a copy
  back.  A visitor is one of the administrators, which `VisitsOnlyComplete` needs.
- **Failed sign-ins.**  `Locked` is kept by each step from the types alone, because it
  speaks of the copies too: every copy that may be put back is as long as the limit.
  With one thread the copy is the list, and whoever hashes or records was counted
  below the limit (`OneAtATime`).
- **Key equipment.**  `FilledFirst` says that the first filling meets an empty
  table, so every row of it has the class of its template; `SaveHasRow` says that the
  row a save has read is still there to be written.  The classes are not computed:
  that a score has one of three is all the proof needs, so it holds for any weights.

  A save writes the class of the criteria it has read (`ClassIsOfReadRow`), whatever
  the form says; where the row ends up with those criteria the class is theirs,
  and no other property of the tables is needed for `SavingAgainIsFresh`.
- **Goods and contractors.**  `NumberWasFree`: the number a new good takes is none
  of those its handler saw.  It follows from `NextCodeIsFree`, the maximum of a
  finite set being above its elements (`GreatestElement`).
- **Reports.**  `ReportsInv` adds three facts to the types.  `KeysDiffer`: two
  rows of the calendar are of different days, shifts or stations, so the events of
  two rows are disjoint.  `FormFits`: a row that a handler has found is still the
  row of its form, so an update keeps the keys different.  `ProducedFits`: only an
  approved item has pieces, and on its work day.  From them, without another step
  of the program: the totals of a report are the pieces of a union of disjoint sets
  of events (`PlannedTotal`, `PerformanceTotal`, `ControlTotal`); the products of a
  row share its events out (`ProductsMakeUpStations`); and the control report
  has the events of the calendar and those outside it (`ControlIsTheRest`).
- **Station time.**  The invariant is that of the stops; the work is in the
  functions.  A list of spans covers a set of minutes.  Each lemma on a loop says
  what set its result covers: `ClippedCorrect`, `SortedCorrect`, `MergeCorrect`
  (and the result has gaps), `RemainderCorrect` and `SubtractCorrect`;
  `MinutesCounted` says that the sum is the cardinality of the set.  The classes are then
  sets of minutes of a window, and `MinutesAreClassified` is about their unions and
  differences.
- **Calendar.**  The invariant only says that the walk is on dates.  A day has a
  number in either calendar, the days of the years before (`YearStart`,
  `JalaliStart`), of the months before and its own; two dates never have the same
  number (`GregorianDistinct`, `JalaliDistinct`).  The steps of a conversion, by
  cycles of 33 or 400 years, of four and single years, find the date whose number
  it was given (`JalaliOfDay`, `GregorianOfDay`).  Hence the conversions are
  inverse, and the next day has the next number and so the next date.  The
  arithmetic is that of unbounded integers; `datetime` stops at the year 9999.

**Induction.**  The library's induction theorems have an operator parameter, which
these provers cannot instantiate.  `LoopLemmas` derives what is needed from its
facts on well-founded relations instead, which speak of sets: a non-empty set of
naturals has a least element, so a set with 0 and every successor contains the
range (`RangeInduction`); a loop has a function that lists its states
(`LoopWitness`), and the recursive function of `Loop` is that one
(`LoopUnique`).  To prove something of a loop is then to show that the set of
rounds after which it holds has 0 and is closed.  Sums over finite sets go
the same way with the strict subsets of a set (`SubsetInduction`): the order in
which the community module's fold takes the elements does not matter
(`SumRemove`), so disjoint sets add up (`SumDisjoint`, `SumOfParts`).

## What is only model-checked, and what is not modelled

**Only model-checked.**  `HandlersFinish` of both modules: liveness under
fairness is out of the prover's reach.  The violations are runs by nature.
Every other property of a passing run is the statement of a theorem.  The converse
does not hold: that a device has a passport (`DevicesHavePassports`) is one
transaction's result, and `OneThreadKeepsTheLimit` and `OneThreadNeverOverlaps`
are about one thread; they are proved and not checked by a run.

**Constants that the program can change.**  `Limit` is the plan of a company.
`update_company` may lower it below what there is already; `QuotaHolds` and
`LimitHolds` say nothing of that, and the code does not either: it refuses only the
next creation.

**Not modelled.**  What the inventory marks with a dash: inspections,
maintenance recommendation, request lists and KPI, production master data,
attendance, the text of the SQL translation, the import script and the templates.
They read, or insert one row that nothing changes later, so there is no order
of steps to explore; the reasons are in `PROJECT.json`.  Also left out inside
modelled parts: passwords and their hashes, the setup of the first main
administrator (`master_setup`, once, before anything else), the two access logs,
which nothing reads back, the tables and columns that a page adds to an old
database when it is opened, exports, uploads, formatting, and `_auto_fill_key_rows`,
which has no caller.  The import of passports from a workbook returns immediately,
since the workbook is not part of the repository (`app.py:1046`).

## Plan

Done, in this order: `RequestReview` with `RequestBoard`, `ProductionPlan`,
`StopRegister`, `Intervals` and `StationTime`, `CompanyProvisioning` with
`CompanyRegistry`, `DeviceCatalog`, `Sessions`, `UserAccounts`, `LoginLimit`, `CodeRegister`,
`KeyEquipment`, `ProductionReports` and `JalaliCalendar`, the compositions
`Access`, `Catalog` and `Production`, and the proofs of all of them.

What would come next, most important first:

1. A refinement of `ProductionPlan` and `ProductionReports` in one module, where
   the reports read the plan's own tables, instead of the guarantee proved of them.
2. Liveness of the pages of `UserAccounts` and `CodeRegister`; both are single
   statements without locks held between them, so only fairness would be said.
3. The maintenance recommendation: mean interval, baseline and recommended day
   over bounded histories, on top of `JalaliCalendar`.
