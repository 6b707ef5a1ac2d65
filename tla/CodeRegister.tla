---------------------------- MODULE CodeRegister ----------------------------
(***************************************************************************)
(* The registers of goods (kalajadid) and of contractors (mojryjadid):     *)
(* goods, goods_delete and contractors of app.py.  A new row gets the      *)
(* number after the largest, read in a statement of its own; BEGIN         *)
(* IMMEDIATE, which should lock the table, is translated to nothing        *)
(* (database.py).  Goods are written with an upsert, contractors with an   *)
(* INSERT, and in both tables the code is the primary key.                 *)
(*                                                                         *)
(* Codes of goods are text; only the ones that are numbers count for the   *)
(* maximum, and only those are here.  Units are left out.                  *)
(***************************************************************************)
EXTENDS Server, Naturals, FiniteSetsExt

CONSTANTS
  Titles,       \* names of goods and contractors
  Codes,        \* numbers a row may get here: a bound
  FirstGoods    \* 100: the number before that of the first goods

ASSUME CodeConstants ==
  /\ IsFiniteSet(Codes) /\ Codes \subseteq Nat \ {0} /\ FirstGoods \in Nat
  /\ None \notin Titles \cup Codes

VARIABLES
  goods, contractors,    \* code -> name, None if there is no row
  codePc,
  codeLoc,               \* name and code, and whether a row is registered or edited
  seen                   \* history: the codes in use when the maximum was read

codeVars == <<goods, contractors, codePc, codeLoc, seen>>

NoCodeForm == [name |-> None, code |-> None, new |-> FALSE]
CodesTypeOK ==
  /\ goods \in [Codes -> Titles \cup {None}]
  /\ contractors \in [Codes -> Titles \cup {None}]
  /\ codePc \in [Threads -> {"idle", "goods_max", "goods_merge",
                         "contractor_max", "contractor_insert"}]
  /\ codeLoc \in [Threads -> [name : Titles \cup {None}, code : Codes \cup {None},
                         new : BOOLEAN]]
  /\ seen \in [Threads -> SUBSET Codes]

CodesInit ==
  /\ goods = [c \in Codes |-> None] /\ contractors = [c \in Codes |-> None]
  /\ codePc = [t \in Threads |-> "idle"]
  /\ codeLoc = [t \in Threads |-> NoCodeForm]
  /\ seen = [t \in Threads |-> {}]

InUse(table) == {c \in Codes : table[c] # None}

\* (max_cod or start) + 1
NextCode(table, start) ==
  (IF InUse(table) = {} THEN start ELSE Max(InUse(table))) + 1

CodeGoto(t, label, form) ==
  /\ codePc' = [codePc EXCEPT ![t] = label]
  /\ codeLoc' = [codeLoc EXCEPT ![t] = form]
CodeFinish(t) ==
  /\ CodeGoto(t, "idle", NoCodeForm)
  /\ seen' = [seen EXCEPT ![t] = {}]

\* The statement that reads the maximum, and the label after it.
TakeNumber(t, table, start, label) ==
  LET c == NextCode(table, start) IN
  /\ c \in Codes
  /\ CodeGoto(t, label, [codeLoc[t] EXCEPT !.code = c])
  /\ seen' = [seen EXCEPT ![t] = InUse(table)]
  /\ UNCHANGED <<goods, contractors>>

-----------------------------------------------------------------------------
(* goods: original_cod is None for a new row.                              *)

GoodsPost(t, name, original) ==
  /\ codePc[t] = "idle"
  /\ CodeGoto(t, IF original = None THEN "goods_max" ELSE "goods_merge",
          [name |-> name, code |-> original, new |-> original = None])
  /\ UNCHANGED <<goods, contractors, seen>>

GoodsMax_Count(t) ==
  /\ codePc[t] = "goods_max"
  /\ LET c == FirstGoods + Cardinality(InUse(goods)) + 1 IN
       /\ c \in Codes
       /\ CodeGoto(t, "goods_merge", [codeLoc[t] EXCEPT !.code = c])
       /\ seen' = [seen EXCEPT ![t] = InUse(goods)]
  /\ UNCHANGED <<goods, contractors>>
GoodsMax(t) ==
  /\ codePc[t] = "goods_max"
  /\ TakeNumber(t, goods, FirstGoods, "goods_merge")

GoodsMerge(t) ==
  /\ codePc[t] = "goods_merge"
  /\ goods' = [goods EXCEPT ![codeLoc[t].code] = codeLoc[t].name]
  /\ CodeFinish(t)
  /\ UNCHANGED contractors

\* The MERGE of another handler inserts the row between the search and the
\* insertion of this one.
GoodsRefused(t) ==
  /\ codePc[t] = "goods_merge" /\ goods[codeLoc[t].code] # None
  /\ CodeFinish(t)
  /\ UNCHANGED <<goods, contractors>>

GoodsDelete(c) ==
  /\ goods' = [goods EXCEPT ![c] = None]
  /\ UNCHANGED <<contractors, codePc, codeLoc, seen>>

-----------------------------------------------------------------------------
(* contractors.                                                            *)

ContractorPost(t, name) ==
  /\ codePc[t] = "idle"
  /\ \A c \in Codes : contractors[c] # name
  /\ CodeGoto(t, "contractor_max", [name |-> name, code |-> None, new |-> TRUE])
  /\ UNCHANGED <<goods, contractors, seen>>

ContractorMax(t) ==
  /\ codePc[t] = "contractor_max"
  /\ TakeNumber(t, contractors, 0, "contractor_insert")

\* The primary key refuses a number that is taken by now.
ContractorInsert(t) ==
  /\ codePc[t] = "contractor_insert"
  /\ LET c == codeLoc[t].code IN
       contractors' = IF contractors[c] = None
                        THEN [contractors EXCEPT ![c] = codeLoc[t].name]
                        ELSE contractors
  /\ CodeFinish(t)
  /\ UNCHANGED goods

\* The process ends and starts again.
CodesRestart ==
  /\ codePc' = [t \in Threads |-> "idle"]
  /\ codeLoc' = [t \in Threads |-> NoCodeForm]
  /\ seen' = [t \in Threads |-> {}]
  /\ UNCHANGED <<goods, contractors>>

CodesNext ==
  \/ CodesRestart
  \/ \E c \in Codes : GoodsDelete(c)
  \/ \E t \in Threads :
       \/ GoodsMax(t) \/ GoodsMerge(t) \/ GoodsRefused(t)
       \/ ContractorMax(t) \/ ContractorInsert(t)
       \/ \E name \in Titles :
            \/ ContractorPost(t, name)
            \/ \E original \in Codes \cup {None} : GoodsPost(t, name, original)

CodesSpec == CodesInit /\ [][CodesNext]_codeVars

-----------------------------------------------------------------------------
(* Properties.                                                             *)

(* Two handlers are given one number when both read the maximum before      *)
(* either has written.  A contractor once registered keeps his code and     *)
(* name all the same: the second is refused.  Of goods the second replaces  *)
(* the first, contrary to the comment at app.py:1439-1440, but only one     *)
(* that came between its own two statements: the rows that were there when  *)
(* the maximum was read are not touched.                                    *)
CodesKept ==
  [][/\ \A c \in InUse(contractors) : contractors'[c] = contractors[c]
     /\ \A t \in Threads :
          codePc[t] = "goods_merge" /\ codePc'[t] = "idle" /\ codeLoc[t].new =>
            \A c \in seen[t] : goods'[c] = goods[c]]_codeVars
=============================================================================
