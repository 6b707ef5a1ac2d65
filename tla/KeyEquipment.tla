---------------------------- MODULE KeyEquipment ----------------------------
(***************************************************************************)
(* Key equipment (app.py): a row for each machine with the criteria the    *)
(* users choose, the class derived from them, and the machines that can    *)
(* take its place.  Every page first fills the table, once from a template *)
(* workbook and then with a row for each new machine (_ensure_key_rows).   *)
(*                                                                         *)
(* The score is written together with the class it determines and is left  *)
(* out.  The form of all rows is, in one transaction, what the form of one *)
(* row is for each: rows do not depend on each other.  Whether a device is *)
(* a machine and which machines resemble it follows from their names and   *)
(* is a constant.  _auto_fill_key_rows has no caller.                      *)
(***************************************************************************)
EXTENDS Server, Naturals, FiniteSetsExt

CONSTANTS
  Devices,
  Fields,          \* the criteria that vary, of the ones in KEY_WEIGHTS
  Template,        \* the criteria of the machines in the template workbook
  Resembling,      \* machines with others that _key_substitutes finds
  KeyForms         \* criteria a form gives, and whether it gives substitutes

KEY_WEIGHTS == [
  machine_count   |-> [one |-> 30, two |-> 9, more |-> 0],
  bottleneck      |-> [yes |-> 10, no |-> 0],
  product_count   |-> [yes |-> 30, no |-> 0],
  mtbf            |-> [short |-> 5, long |-> 3],
  external_parts  |-> [no |-> 20, half |-> 6, one |-> 0],
  downtime_hours  |-> [high |-> 30, medium |-> 15, low |-> 0],
  machine_age     |-> [old |-> 0, young |-> 5],
  spare_parts     |-> [yes |-> 0, no |-> 5],
  repeated_stops  |-> [high |-> 30, medium |-> 15, low |-> 0],
  customer_impact |-> [high |-> 30, medium |-> 15, low |-> 0],
  quality_impact  |-> [high |-> 5, medium |-> 3, low |-> 0]]

Empty == ""
Criteria == {c \in [Fields -> (UNION {DOMAIN KEY_WEIGHTS[f] : f \in Fields}) \cup {Empty}] :
               \A f \in Fields : c[f] \in DOMAIN KEY_WEIGHTS[f] \cup {Empty}}

\* _key_score and _key_classification; a criterion without a value counts 0.
KeyScore(criteria) ==
  MapThenSumSet(LAMBDA f : IF f \in DOMAIN criteria /\ criteria[f] # Empty
                             THEN KEY_WEIGHTS[f][criteria[f]] ELSE 0, Fields)
KeyClassification(score) ==
  IF score > 100 THEN "key" ELSE IF score < 80 THEN "normal" ELSE "half_key"
ClassOf(criteria) == KeyClassification(KeyScore(criteria))

ASSUME KeyConstants ==
  /\ Fields \subseteq DOMAIN KEY_WEIGHTS
  /\ DOMAIN Template \subseteq Devices /\ \A d \in DOMAIN Template : Template[d] \in Criteria
  /\ Resembling \subseteq Devices
  /\ \A form \in KeyForms :
       /\ form.subs \in BOOLEAN
       /\ DOMAIN form.criteria \subseteq Fields
       /\ \A f \in DOMAIN form.criteria :
            form.criteria[f] \in DOMAIN KEY_WEIGHTS[f] \cup {Empty}

VARIABLES
  typed,      \* machines with substitutes in the last sheet of the workbook
  machines,   \* the devices that are machines
  rows,       \* key_equipment: device -> row, None if there is none
  seeded,     \* seed_version in key_equipment_meta
  fixed,      \* substitute_fix_v2 in key_equipment_meta
  keyPc,      \* where a handler is
  keyLoc,     \* its device, its form, the row it has read
  reseeded    \* history: a handler filled the table after another had

keyVars == <<typed, machines, rows, seeded, fixed, keyPc, keyLoc, reseeded>>

\* manual says whether manual_fields names the substitutes.
Row == [criteria : Criteria, class : {Empty, "key", "half_key", "normal"},
        subs : {Empty, "found", "typed"}, manual : BOOLEAN]
NewRow == [criteria |-> [f \in Fields |-> Empty], class |-> Empty, subs |-> Empty,
           manual |-> FALSE]
NoLocals == [device |-> None, form |-> None, row |-> None]

\* In the workbook of the repository the three machines whose substitutes are
\* listed score over 100.
KeyTyped == {d \in DOMAIN Template : ClassOf(Template[d]) = "key"}

KeyTypeOK ==
  /\ typed \subseteq KeyTyped
  /\ machines \subseteq Devices
  /\ rows \in [Devices -> Row \cup {None}]
  /\ seeded \in BOOLEAN /\ fixed \in BOOLEAN /\ reseeded \in BOOLEAN
  /\ keyPc \in [Threads -> {"idle", "seed", "ensure", "page", "save"}]
  /\ keyLoc \in [Threads -> {NoLocals} \cup [device : Devices, form : KeyForms, row : Row]]

KeyInit ==
  /\ typed \in SUBSET KeyTyped
  /\ machines = DOMAIN Template
  /\ rows = [d \in Devices |-> None]
  /\ seeded = FALSE /\ fixed = FALSE /\ reseeded = FALSE
  /\ keyPc = [t \in Threads |-> "idle"]
  /\ keyLoc = [t \in Threads |-> NoLocals]

-----------------------------------------------------------------------------

GoOn(t, label) == keyPc' = [keyPc EXCEPT ![t] = label] /\ keyLoc' = keyLoc
Respond(t) ==
  /\ keyPc' = [keyPc EXCEPT ![t] = "idle"]
  /\ keyLoc' = [keyLoc EXCEPT ![t] = NoLocals]

\* A device is registered or deleted; its row stays.
DevicesChange ==
  /\ \E d \in Devices : machines' \in {machines \cup {d}, machines \ {d}}
  /\ UNCHANGED <<rows, seeded, fixed, keyPc, keyLoc, reseeded>>

(* Every page looks for seed_version.  The workbook is read after that and  *)
(* before the first row is written, so a second handler may fill the table  *)
(* again when the first has long done so.                                   *)
Open(t) ==
  /\ keyPc[t] = "idle"
  /\ GoOn(t, IF seeded THEN "ensure" ELSE "seed")
  /\ UNCHANGED <<machines, rows, seeded, fixed, reseeded>>

Existing(d) == IF rows[d] = None THEN NewRow ELSE rows[d]
Seeded(d) ==
  LET given == {f \in Fields : Template[d][f] # Empty}
      fromTemplate == [Existing(d) EXCEPT
                         !.criteria = [f \in Fields |-> IF f \in given THEN Template[d][f] ELSE @[f]],
                         !.class = ClassOf(Template[d])]
  IN  IF d \notin DOMAIN Template THEN Existing(d)
      ELSE IF d \in typed
        THEN [fromTemplate EXCEPT !.subs = "typed", !.manual = TRUE]
      ELSE fromTemplate
SeedFromTemplate(t) ==
  /\ keyPc[t] = "seed"
  /\ rows' = [d \in Devices |-> IF d \in machines THEN Seeded(d) ELSE rows[d]]
  /\ seeded' = TRUE
  /\ reseeded' = (reseeded \/ seeded)
  /\ GoOn(t, "ensure")
  /\ UNCHANGED <<machines, fixed>>

\* One step: before it looks at `fixed`, the transaction has written the row of
\* every machine, so another handler waits for it to commit.
\* Rows for new machines and, once, the substitutes: for key equipment the
\* ones that are found unless some were typed, for the rest none.
Fixed(row, d) ==
  IF row.class # "key" THEN [row EXCEPT !.subs = Empty]
  ELSE IF row.manual THEN row
  ELSE [row EXCEPT !.subs = IF d \in Resembling THEN "found" ELSE Empty]
EnsureKeyRows(t) ==
  /\ keyPc[t] = "ensure"
  /\ rows' = [d \in Devices |->
       IF d \notin machines THEN rows[d]
       ELSE IF fixed THEN Existing(d) ELSE Fixed(Existing(d), d)]
  /\ fixed' = TRUE
  /\ GoOn(t, "page")
  /\ UNCHANGED <<machines, seeded, reseeded>>

-----------------------------------------------------------------------------
(* key_equipment, POST.                                                    *)

SaveRead(t, d, form) ==
  /\ keyPc[t] = "page" /\ rows[d] # None
  /\ keyPc' = [keyPc EXCEPT ![t] = "save"]
  /\ keyLoc' = [keyLoc EXCEPT ![t] = [device |-> d, form |-> form, row |-> rows[d]]]
  /\ UNCHANGED <<machines, rows, seeded, fixed, reseeded>>

(* `pending` should hold the criteria of the form.  Its comprehension looks *)
(* for their names in KEY_FIELDS, a list of pairs, and finds none, so the   *)
(* class is that of the criteria that have just been read.                  *)
Pending(form) == [f \in {} |-> Empty]
Overlay(old, new) == [f \in DOMAIN old |-> IF f \in DOMAIN new THEN new[f] ELSE old[f]]

ClassAtSave_FormOnly(found, form) == ClassOf(form.criteria)
ClassAtSave(found, form) == ClassOf(Overlay(found.criteria, Pending(form)))

Saved_KeepSubs(row, found, form) ==
  LET class == ClassAtSave(found, form)
  IN  [row EXCEPT !.criteria = Overlay(@, form.criteria), !.class = class,
                  !.subs = IF form.subs THEN "typed" ELSE @,
                  !.manual = found.manual /\ class = "key"]
Saved(row, found, form) ==
  LET class == ClassAtSave(found, form)
  IN  [row EXCEPT !.criteria = Overlay(@, form.criteria), !.class = class,
                  !.subs = IF class # "key" THEN Empty
                           ELSE IF form.subs THEN "typed" ELSE @,
                  !.manual = found.manual /\ class = "key"]
SaveWrite(t) ==
  /\ keyPc[t] = "save"
  /\ rows' = [rows EXCEPT ![keyLoc[t].device] = Saved(@, keyLoc[t].row, keyLoc[t].form)]
  /\ Respond(t)
  /\ UNCHANGED <<machines, seeded, fixed, reseeded>>

\* The page is shown, or a statement fails (a row another handler inserted
\* meanwhile): what was not committed is undone.
Leave(t) ==
  /\ keyPc[t] # "idle"
  /\ Respond(t)
  /\ UNCHANGED <<machines, rows, seeded, fixed, reseeded>>

\* The workbook is a file that no page writes.
KeyNext == UNCHANGED typed /\
  \/ DevicesChange
  \/ \E t \in Threads :
       \/ Open(t) \/ SeedFromTemplate(t) \/ EnsureKeyRows(t)
       \/ \E d \in Devices, form \in KeyForms : SaveRead(t, d, form)
       \/ SaveWrite(t) \/ Leave(t)

KeySpec == KeyInit /\ [][KeyNext]_keyVars

-----------------------------------------------------------------------------
(* Properties.                                                             *)

(* Only key equipment has substitutes (app.py:909), although the class  *)
(* a save decides by may be out of date and other saves fall between its    *)
(* statements.  Excepted is a table filled again from the template, which   *)
(* gives a row a new class and leaves the substitutes it had.               *)
SubstitutesOnlyForKey ==
  ~reseeded =>
    \A d \in Devices : rows[d] # None /\ rows[d].subs # Empty => rows[d].class = "key"

(* The class lags behind the criteria by a save: the comment at app.py:923  *)
(* says that stale values can never survive one, but what is derived comes  *)
(* from the criteria before it.  Saving once more, with no other save in    *)
(* between, puts it right.                                                 *)
QuietSaveIsFresh ==
  [][\A t \in Threads :
       LET d == keyLoc[t].device IN
       /\ keyPc[t] = "save" /\ keyPc'[t] = "idle"
       /\ rows' # rows
       /\ rows'[d].criteria = keyLoc[t].row.criteria
       => rows'[d].class = ClassOf(rows'[d].criteria)]_keyVars
=============================================================================
