-------------------------- MODULE StationTimeProofs --------------------------
(***************************************************************************)
(* Proofs about StopRegister and StationTime for any number of threads,    *)
(* any shifts, stations, items, stop types and forms, and a table of stops *)
(* of any length.  The first part proves what the check before an          *)
(* insertion achieves.  The second part shows what the loops of Intervals  *)
(* compute, for lists of any length: a list of spans covers a set of       *)
(* minutes; sorting and merging keep that set, subtracting takes the       *)
(* blockers' minutes out of it, and the count is its cardinality.  The     *)
(* third part takes the reports' loops over the table apart with it.       *)
(***************************************************************************)
EXTENDS StationTime, LoopLemmas, FiniteSetTheorems, SequenceTheorems

\* Two forms that cover the same step overlap.
LEMMA CoveringOverlaps ==
  ASSUME NEW r \in Stop, NEW f \in Stop, NEW m \in Clock, Covers(r, m), Covers(f, m)
  PROVE  Overlaps(r, f)
<1> USE RegisterConstants
<1>1. /\ r.start_at \in Int /\ r.end_at \in Int
      /\ f.start_at \in Int /\ f.end_at \in Int /\ m \in Int
  BY DEF Stop, Clock
<1> QED  BY <1>1 DEF Covers, Overlaps

\* The index sets and thread sets that the budget counts are finite.
LEMMA CountsFinite ==
  ASSUME TypeOK, NEW sc, NEW m
  PROVE  /\ IsFiniteSet(Rows(sc, m)) /\ Cardinality(Rows(sc, m)) \in Nat
         /\ IsFiniteSet(Pending(sc, m)) /\ Cardinality(Pending(sc, m)) \in Nat
         /\ Cardinality(Pending(sc, m)) <= Cardinality(Threads)
         /\ Cardinality(Threads) \in Nat
<1>1. Len(stops) \in Nat /\ DOMAIN stops = 1..Len(stops)  BY DEF TypeOK
<1>2. IsFiniteSet(DOMAIN stops)  BY <1>1, FS_Interval
<1>3. Rows(sc, m) \subseteq DOMAIN stops  BY DEF Rows
<1>4. Pending(sc, m) \subseteq Threads  BY DEF Pending
<1>5. IsFiniteSet(Rows(sc, m))  BY <1>2, <1>3, FS_Subset
<1>6. IsFiniteSet(Pending(sc, m)) /\ Cardinality(Pending(sc, m)) <= Cardinality(Threads)
  BY <1>4, FS_Subset, RegisterConstants
<1> QED  BY <1>5, <1>6, FS_CardinalityType, RegisterConstants

\* An empty table and idle handlers satisfy the invariant.
LEMMA InitOK == Init => IInv
<1> SUFFICES ASSUME Init PROVE IInv  OBVIOUS
<1>1. TypeOK  BY DEF Init, TypeOK
<1>2. FormsValid  BY DEF Init, FormsValid
<1>3. RowsFromForms /\ StopsFit  BY DEF Init, RowsFromForms, StopsFit
<1>4. OverlapBudget  BY DEF Init, OverlapBudget, Rows
<1> QED  BY <1>1, <1>2, <1>3, <1>4 DEF IInv

-----------------------------------------------------------------------------
(* OverlapSelect *)

\* A handler that has checked its form joins the pending ones, of whom there
\* are fewer than threads.
LEMMA SelectStep ==
  ASSUME IInv, NEW t \in Threads, OverlapSelect(t)
  PROVE  IInv'
<1> USE RegisterConstants
<1>1. PICK f \in Forms :
        /\ Valid(f)
        /\ \A i \in DOMAIN stops : Scope(stops[i]) = Scope(f) => ~Overlaps(stops[i], f)
        /\ pc' = [pc EXCEPT ![t] = "insert"]
        /\ loc' = [loc EXCEPT ![t] = f]
  BY DEF OverlapSelect
<1>2. stops' = stops /\ pc[t] = "idle"  BY DEF OverlapSelect
<1>3. TypeOK'  BY <1>1, <1>2 DEF IInv, TypeOK
<1>4. FormsValid'
  BY <1>1 DEF IInv, FormsValid, TypeOK, Valid, ShiftStart, ShiftEnd
<1>5. RowsFromForms' /\ StopsFit'
  BY <1>2 DEF IInv, RowsFromForms, StopsFit, Valid, ShiftStart, ShiftEnd, MachineFits
<1>6. OverlapBudget'
  <2> SUFFICES ASSUME NEW sc \in Scopes, NEW m \in Clock, Rows(sc, m) # {}
               PROVE  Cardinality(Rows(sc, m)) + Cardinality(Pending(sc, m)')
                        <= Cardinality(Threads)
    <3>1. \A sc, m : Rows(sc, m)' = Rows(sc, m)
      BY <1>2 DEF Rows, Scope, Covers
    <3> QED  BY <3>1 DEF OverlapBudget, Scopes
  \* The new form does not cover m, or the check would have found the row.
  <2>1. ~(Scope(f) = sc /\ Covers(f, m))
    <3>1. PICK i \in DOMAIN stops : Scope(stops[i]) = sc /\ Covers(stops[i], m)
      BY DEF Rows
    <3>2. stops[i] \in Stop /\ f \in Stop  BY DEF IInv, TypeOK
    <3> QED  BY <1>1, <3>1, <3>2, CoveringOverlaps
  <2>2. Pending(sc, m)' = Pending(sc, m)
    BY <1>1, <1>2, <2>1 DEF Pending, IInv, TypeOK, Scope, Covers
  <2> QED  BY <2>2 DEF IInv, OverlapBudget
<1> QED  BY <1>3, <1>4, <1>5, <1>6 DEF IInv

-----------------------------------------------------------------------------
(* Insert *)

\* A handler inserts a form that was valid when it was checked.
LEMMA InsertTypes ==
  ASSUME IInv, NEW t \in Threads, Insert(t)
  PROVE  TypeOK' /\ FormsValid' /\ RowsFromForms' /\ StopsFit'
<1> USE RegisterConstants
<1> DEFINE f == loc[t]
<1>1. f \in Forms /\ f \in Stop /\ Valid(f)
  BY DEF Insert, IInv, FormsValid
<1>2. /\ stops' = IF MachineFits(f) THEN Append(stops, f) ELSE stops
      /\ pc' = [pc EXCEPT ![t] = "idle"]
      /\ loc' = [loc EXCEPT ![t] = NoForm]
  BY DEF Insert, Finish
<1>3. TypeOK'
  BY <1>1, <1>2 DEF IInv, TypeOK
<1>4. FormsValid'
  BY <1>2 DEF IInv, FormsValid, TypeOK, Valid, ShiftStart, ShiftEnd
<1>5. \A i \in DOMAIN stops' :
        \/ i \in DOMAIN stops /\ stops'[i] = stops[i]
        \/ MachineFits(f) /\ stops'[i] = f
  BY <1>1, <1>2 DEF IInv, TypeOK
<1>6. RowsFromForms'
  BY <1>1, <1>5 DEF IInv, RowsFromForms
<1>7. StopsFit'
  BY <1>1, <1>5 DEF IInv, StopsFit, Valid, ShiftStart, ShiftEnd, MachineFits
<1> QED  BY <1>3, <1>4, <1>6, <1>7

\* A row that is added takes its thread from the pending ones.
LEMMA InsertBudget ==
  ASSUME IInv, NEW t \in Threads, Insert(t)
  PROVE  OverlapBudget'
<1> USE RegisterConstants
<1> DEFINE f == loc[t]  n == Len(stops) + 1
<1>1. f \in Forms /\ f \in Stop /\ pc[t] = "insert"
  BY DEF Insert, IInv, FormsValid
<1>2. /\ stops' = IF MachineFits(f) THEN Append(stops, f) ELSE stops
      /\ pc' = [pc EXCEPT ![t] = "idle"]
      /\ loc' = [loc EXCEPT ![t] = NoForm]
  BY DEF Insert, Finish
<1>3. stops \in Seq(Stop) /\ pc \in [Threads -> {"idle", "insert"}]
      /\ loc \in [Threads -> Forms \cup {NoForm}]
  BY DEF IInv, TypeOK
<1> HIDE DEF f
<1> SUFFICES ASSUME NEW sc \in Scopes, NEW m \in Clock, Rows(sc, m)' # {}
             PROVE  Cardinality(Rows(sc, m)') + Cardinality(Pending(sc, m)')
                      <= Cardinality(Threads)
  BY DEF OverlapBudget, Scopes, Scope
<1> DEFINE hit == Scope(f) = sc /\ Covers(f, m)
<1>4. Pending(sc, m)' = Pending(sc, m) \ {t}
  BY <1>2, <1>3 DEF Pending, Scope, Covers
<1>5. hit => t \in Pending(sc, m)
  BY <1>1 DEF Pending, f
<1>6. Rows(sc, m)' = IF MachineFits(f) /\ hit THEN Rows(sc, m) \cup {n} ELSE Rows(sc, m)
  <2>1. CASE MachineFits(f)
    <3>1. /\ DOMAIN stops' = DOMAIN stops \cup {n} /\ n \notin DOMAIN stops
          /\ stops'[n] = f
          /\ \A i \in DOMAIN stops : stops'[i] = stops[i]
      BY <1>1, <1>2, <1>3, <2>1
    <3> QED  BY <3>1, <2>1 DEF Rows, Scope, Covers
  <2>2. CASE ~MachineFits(f)
    BY <1>2, <2>2 DEF Rows, Scope, Covers
  <2> QED  BY <2>1, <2>2
<1>7. n \notin Rows(sc, m)  BY <1>3 DEF Rows
<1>8. TypeOK  BY DEF IInv
<1> HIDE DEF hit, n
<1>9. Cardinality(Pending(sc, m) \ {t}) =
        IF t \in Pending(sc, m) THEN Cardinality(Pending(sc, m)) - 1
                                ELSE Cardinality(Pending(sc, m))
  BY <1>8, CountsFinite, FS_RemoveElement
<1>10. Cardinality(Rows(sc, m) \cup {n}) = Cardinality(Rows(sc, m)) + 1
  BY <1>7, <1>8, CountsFinite, FS_AddElement
<1>11. Rows(sc, m) = {} => Cardinality(Rows(sc, m)) = 0  BY FS_EmptySet
<1>12. Rows(sc, m) # {} =>
        Cardinality(Rows(sc, m)) + Cardinality(Pending(sc, m)) <= Cardinality(Threads)
  BY DEF IInv, OverlapBudget
<1>13. CASE MachineFits(f) /\ hit
  BY <1>4, <1>5, <1>6, <1>8, <1>9, <1>10, <1>11, <1>12, <1>13, CountsFinite
<1>14. CASE ~(MachineFits(f) /\ hit)
  BY <1>4, <1>6, <1>8, <1>9, <1>12, <1>14, CountsFinite
<1> QED  BY <1>13, <1>14

-----------------------------------------------------------------------------

\* A restart forgets the pending handlers and keeps the rows.
LEMMA RestartStep ==
  ASSUME IInv, Restart
  PROVE  IInv'
<1> USE RegisterConstants
<1>1. TypeOK'  BY DEF Restart, IInv, TypeOK
<1>2. FormsValid'  BY DEF Restart, FormsValid
<1>3. RowsFromForms' /\ StopsFit'
  BY DEF Restart, IInv, RowsFromForms, StopsFit, Valid, ShiftStart, ShiftEnd, MachineFits
<1>4. OverlapBudget'
  <2> SUFFICES ASSUME NEW sc \in Scopes, NEW m \in Clock, Rows(sc, m)' # {}
               PROVE  Cardinality(Rows(sc, m)') + Cardinality(Pending(sc, m)')
                        <= Cardinality(Threads)
    BY DEF OverlapBudget, Scopes, Scope
  <2>1. Rows(sc, m)' = Rows(sc, m)  BY DEF Restart, Rows, Scope, Covers
  <2>2. Pending(sc, m)' = {}  BY DEF Restart, Pending
  <2>3. Cardinality(Rows(sc, m)) + Cardinality(Pending(sc, m)) <= Cardinality(Threads)
    BY <2>1 DEF IInv, OverlapBudget
  <2>4. TypeOK  BY DEF IInv
  <2> QED  BY <2>1, <2>2, <2>3, <2>4, CountsFinite, FS_EmptySet
<1> QED  BY <1>1, <1>2, <1>3, <1>4 DEF IInv

\* Every step keeps the invariant.
LEMMA StepOK == IInv /\ [Next]_vars => IInv'
<1> SUFFICES ASSUME IInv, [Next]_vars PROVE IInv'  OBVIOUS
<1>1. CASE Restart  BY <1>1, RestartStep
<1>2. ASSUME NEW t \in Threads, OverlapSelect(t) PROVE IInv'  BY <1>2, SelectStep
<1>3. ASSUME NEW t \in Threads, Insert(t) PROVE IInv'
  BY <1>3, InsertTypes, InsertBudget DEF IInv
<1>4. CASE UNCHANGED vars
  BY <1>4 DEF vars, IInv, TypeOK, FormsValid, RowsFromForms, StopsFit, OverlapBudget,
              Rows, Pending, Valid, ShiftStart, ShiftEnd, MachineFits, Scope, Covers, Scopes
<1> QED  BY <1>1, <1>2, <1>3, <1>4 DEF Next

\* The inductive invariant holds in every reachable state.
THEOREM Invariance == Spec => []IInv
BY InitOK, StepOK, PTL DEF Spec

\* Type correctness: the rows of production_stops and the form each handler of
\* production.py:807-904 holds between its check and its insertion.
THEOREM TypeCorrect == Spec => []TypeOK
<1>1. IInv => TypeOK  BY DEF IInv
<1> QED  BY Invariance, <1>1, PTL

\* Every registered stop lies within its shift and names a machine at its
\* item's station.
THEOREM StopsAlwaysFit == Spec => []StopsFit
<1>1. IInv => StopsFit  BY DEF IInv
<1> QED  BY Invariance, <1>1, PTL

\* However the handlers interleave, no step of the clock is covered by more
\* stops of one scope than the server has threads.
THEOREM OverlapIsBounded == Spec => []OverlapBounded
<1>1. IInv => OverlapBounded
  <2> SUFFICES ASSUME IInv, NEW sc \in Scopes, NEW m \in Clock
               PROVE  Cardinality(Rows(sc, m)) <= Cardinality(Threads)
    BY DEF OverlapBounded
  <2>1. TypeOK  BY DEF IInv
  <2>2. CASE Rows(sc, m) = {}  BY <2>1, <2>2, CountsFinite, FS_EmptySet
  <2>3. CASE Rows(sc, m) # {}
    BY <2>1, <2>3, CountsFinite DEF IInv, OverlapBudget
  <2> QED  BY <2>2, <2>3
<1> QED  BY Invariance, <1>1, PTL

\* A server with one thread registers no two overlapping stops of one scope:
\* the check is right, only its distance from the insertion is not.
THEOREM OneThreadNeverOverlaps ==
  ASSUME Cardinality(Threads) = 1
  PROVE  Spec => []NoMinuteTwice
<1> USE RegisterConstants
<1>1. IInv => NoMinuteTwice
  <2> SUFFICES ASSUME IInv, NEW i \in DOMAIN stops, NEW j \in DOMAIN stops, i # j,
                      Scope(stops[i]) = Scope(stops[j]), Overlaps(stops[i], stops[j])
               PROVE  FALSE
    BY DEF NoMinuteTwice
  <2> DEFINE a == stops[i]  b == stops[j]
             m == IF a.start_at <= b.start_at THEN b.start_at ELSE a.start_at
             sc == Scope(a)
  <2>1. a \in Stop /\ b \in Stop /\ a \in Forms /\ Valid(a) /\ Valid(b)
    BY DEF IInv, TypeOK, RowsFromForms, StopsFit
  <2>2. m \in Clock /\ Covers(a, m) /\ Covers(b, m)
    <3>1. /\ a.start_at \in Int /\ a.end_at \in Int /\ b.start_at \in Int /\ b.end_at \in Int
          /\ a.start_at \in Clock /\ b.start_at \in Clock
      BY <2>1 DEF Stop, Clock
    <3>2. a.start_at < a.end_at /\ b.start_at < b.end_at  BY <2>1 DEF Valid
    <3> QED  BY <3>1, <3>2 DEF Overlaps, Covers
  <2> HIDE DEF m
  <2>3. {i, j} \subseteq Rows(sc, m) /\ sc \in Scopes
    BY <2>1, <2>2 DEF Rows, Scopes
  <2>4. TypeOK  BY DEF IInv
  <2>5. Cardinality({i, j}) = 2 /\ IsFiniteSet({i, j})
    <3>1. IsFiniteSet({i}) /\ Cardinality({i}) = 1  BY FS_Singleton
    <3>2. {i, j} = {i} \cup {j} /\ j \notin {i}  OBVIOUS
    <3>3. IsFiniteSet({i} \cup {j}) /\ Cardinality({i} \cup {j}) = 1 + 1
      <4>1. /\ IsFiniteSet({i} \cup {j})
            /\ Cardinality({i} \cup {j}) =
                 IF j \in {i} THEN Cardinality({i}) ELSE Cardinality({i}) + 1
        BY <3>1, FS_AddElement
      <4> QED  BY <3>1, <3>2, <4>1
    <3> QED  BY <3>2, <3>3
  <2>6. 2 <= Cardinality(Rows(sc, m))
    BY <2>3, <2>4, <2>5, CountsFinite, FS_Subset
  <2>7. Cardinality(Rows(sc, m)) + Cardinality(Pending(sc, m)) <= 1
    BY <2>2, <2>3 DEF IInv, OverlapBudget
  <2> QED  BY <2>4, <2>6, <2>7, CountsFinite
<1> QED  BY Invariance, <1>1, PTL

-----------------------------------------------------------------------------
(* What the loops of Intervals compute *)

\* Spans of minutes, and the minutes that one and a list of them cover.
Spans == [start : Int, end : Int]
CoversIt(x, m) == x.start <= m /\ m < x.end
Covered(list, m) == \E i \in DOMAIN list : CoversIt(list[i], m)
\* Lists in the order of their starts, without empty spans, with gaps.
Ordered(list) == \A i, j \in DOMAIN list : i < j => list[i].start <= list[j].start
NonEmpty(list) == \A i \in DOMAIN list : list[i].start < list[i].end
Apart(list) == \A i, j \in DOMAIN list : i < j => list[i].end < list[j].start
SortedLists == {s \in Seq(Spans) : Ordered(s)}
MergedLists == {s \in Seq(Spans) : NonEmpty(s) /\ Apart(s)}
\* The states of the loops of the subtraction and of the count.
Cuts == [cursor : Int, broken : BOOLEAN, result : Seq(Spans)]
Counts == [total : Int, current : Spans]

\* max(a, b).
LEMMA MaxOfTwo ==
  ASSUME NEW a \in Int, NEW b \in Int
  PROVE  Max({a, b}) = IF a >= b THEN a ELSE b
<1> DEFINE m == IF a >= b THEN a ELSE b
<1>1. m \in {a, b} /\ \A y \in {a, b} : m >= y  OBVIOUS
<1>2. ASSUME NEW x \in {a, b}, \A y \in {a, b} : x >= y PROVE x = m  BY <1>2
<1> HIDE DEF m
<1>3. Max({a, b}) = m  BY <1>1, <1>2 DEF Max
<1> QED  BY <1>3 DEF m

\* min(a, b).
LEMMA MinOfTwo ==
  ASSUME NEW a \in Int, NEW b \in Int
  PROVE  Min({a, b}) = IF a <= b THEN a ELSE b
<1> DEFINE m == IF a <= b THEN a ELSE b
<1>1. m \in {a, b} /\ \A y \in {a, b} : m <= y  OBVIOUS
<1>2. ASSUME NEW x \in {a, b}, \A y \in {a, b} : x <= y PROVE x = m  BY <1>2
<1> HIDE DEF m
<1>3. Min({a, b}) = m  BY <1>1, <1>2 DEF Min
<1> QED  BY <1>3 DEF m

\* A non-empty set of numbers has its minimum among its elements.
LEMMA MinOfSet ==
  ASSUME NEW T \in SUBSET Nat, T # {}
  PROVE  Min(T) \in T /\ \A y \in T : Min(T) <= y
<1>1. \E x \in T : \A y \in T : x <= y  BY LeastElement
<1> QED  BY <1>1 DEF Min

\* The two ends of a span.
LEMMA SpanFields ==
  ASSUME NEW x \in Spans
  PROVE  x.start \in Int /\ x.end \in Int
BY DEF Spans

\* The spans of a list.
LEMMA ListFields ==
  ASSUME NEW list \in Seq(Spans)
  PROVE  /\ Len(list) \in Nat /\ DOMAIN list = 1..Len(list)
         /\ \A i \in DOMAIN list :
              list[i] \in Spans /\ list[i].start \in Int /\ list[i].end \in Int
<1>1. \A i \in DOMAIN list : list[i] \in Spans  OBVIOUS
<1> QED  BY <1>1, SpanFields

\* Minutes as a predicate of the minute.
LEMMA CoveredIsMinutes ==
  ASSUME NEW list \in Seq(Spans)
  PROVE  /\ Minutes(list) \subseteq Int
         /\ \A m \in Int : m \in Minutes(list) <=> Covered(list, m)
<1>1. \A i \in DOMAIN list : list[i].start \in Int /\ list[i].end \in Int
  BY ListFields
<1>2. \A i \in DOMAIN list : \A m : m \in list[i].start..(list[i].end - 1)
         <=> m \in Int /\ list[i].start <= m /\ m < list[i].end
  BY <1>1
<1> QED  BY <1>2 DEF Minutes, Covered, CoversIt

-----------------------------------------------------------------------------
(* sorted *)

\* The elements of a list after an insertion.
LEMMA InsertAtValue ==
  ASSUME NEW S, NEW s \in Seq(S), NEW x \in S, NEW k \in 1..(Len(s) + 1)
  PROVE  InsertAt(s, k, x) =
           [i \in 1..(Len(s) + 1) |-> IF i < k THEN s[i] ELSE IF i = k THEN x ELSE s[i - 1]]
<1> DEFINE a == SubSeq(s, 1, k - 1)
           b == SubSeq(s, k, Len(s))
           t == [i \in 1..(Len(s) + 1) |-> IF i < k THEN s[i] ELSE IF i = k THEN x ELSE s[i - 1]]
<1>1. a \in Seq(S) /\ Len(a) = k - 1 /\ \A i \in 1..(k - 1) : a[i] = s[i]
  OBVIOUS
<1>2. b \in Seq(S) /\ Len(b) = Len(s) + 1 - k /\ \A i \in 1..Len(b) : b[i] = s[i + k - 1]
  OBVIOUS
<1>3. <<x>> \in Seq(S) /\ Len(<<x>>) = 1 /\ <<x>>[1] = x  OBVIOUS
<1> HIDE DEF a, b
<1> DEFINE c == a \o <<x>>
<1>4. c \in Seq(S) /\ Len(c) = k /\ \A i \in 1..k : c[i] = IF i < k THEN s[i] ELSE x
  BY <1>1, <1>3
<1> HIDE DEF c
<1> DEFINE d == c \o b
<1> HIDE DEF t
<1>5. /\ d \in Seq(S) /\ Len(d) = Len(s) + 1
      /\ \A i \in 1..Len(d) : d[i] = IF i <= k THEN c[i] ELSE b[i - k]
  <2>1. Len(c) + Len(b) = Len(s) + 1  BY <1>2, <1>4
  <2>2. /\ d \in Seq(S) /\ Len(d) = Len(c) + Len(b)
        /\ \A i \in 1..(Len(c) + Len(b)) : d[i] = IF i <= Len(c) THEN c[i] ELSE b[i - Len(c)]
    BY <1>2, <1>4, ConcatProperties
  <2> HIDE DEF d
  <2> QED  BY <2>1, <2>2, <1>4
<1> HIDE DEF d
<1>6. ASSUME NEW i \in 1..(Len(s) + 1) PROVE d[i] = t[i]
  <2>1. CASE i <= k  BY <2>1, <1>4, <1>5 DEF t
  <2>2. CASE i > k
    <3>1. d[i] = b[i - k]  BY <2>2, <1>5
    <3>2. i - k \in 1..Len(b)  BY <2>2, <1>2
    <3>3. i - k + k - 1 = i - 1  BY <2>2
    <3> QED  BY <2>2, <3>1, <3>2, <3>3, <1>2 DEF t
  <2> QED  BY <2>1, <2>2
<1>7. d = t  BY <1>5, <1>6 DEF t
<1> QED  BY <1>7 DEF InsertAt, d, c, a, b, t

\* Inserting into a sorted list keeps it sorted, adds the span and loses none.
LEMMA PlaceOrdered ==
  ASSUME NEW s \in Seq(Spans), NEW x \in Spans, Ordered(s)
  PROVE  /\ Place(s, x) \in Seq(Spans)
         /\ Ordered(Place(s, x))
         /\ \A y : (\E i \in DOMAIN Place(s, x) : Place(s, x)[i] = y)
                     <=> y = x \/ \E i \in DOMAIN s : s[i] = y
<1> DEFINE later == {i \in DOMAIN s : x.start < s[i].start}
           k == Min(later \cup {Len(s) + 1})
           t == Place(s, x)
<1>0. \A i \in DOMAIN s : s[i] \in Spans /\ s[i].start \in Int  BY ListFields
<1>00. x.start \in Int  BY SpanFields
<1>1. k \in later \cup {Len(s) + 1} /\ \A i \in later \cup {Len(s) + 1} : k <= i
  <2>1. later \cup {Len(s) + 1} \in SUBSET Nat  OBVIOUS
  <2> QED  BY <2>1, MinOfSet
<1>2. k \in 1..(Len(s) + 1)  BY <1>1
<1>3. \A i \in DOMAIN s : i < k => s[i].start <= x.start
  <2> SUFFICES ASSUME NEW i \in DOMAIN s, i < k, x.start < s[i].start PROVE FALSE
    BY <1>0, <1>00
  <2>1. i \in later  OBVIOUS
  <2> HIDE DEF k
  <2> QED  BY <2>1, <1>1, <1>2
<1>4. \A i \in DOMAIN s : i >= k => x.start < s[i].start
  <2> SUFFICES ASSUME NEW i \in DOMAIN s, i >= k PROVE x.start < s[i].start  OBVIOUS
  <2>1. k \in later  BY <1>1, <1>2
  <2>2. s[k].start <= s[i].start  BY <2>1, <1>0 DEF Ordered
  <2> QED  BY <2>1, <2>2, <1>0, <1>00
<1>5. t = InsertAt(s, k, x)  BY DEF Place
<1> HIDE DEF k, later, t
<1>6. t = [i \in 1..(Len(s) + 1) |-> IF i < k THEN s[i] ELSE IF i = k THEN x ELSE s[i - 1]]
  BY <1>2, <1>5, InsertAtValue
<1>7. t \in Seq(Spans)  BY <1>0, <1>2, <1>6
<1>8. Ordered(t)
  <2> SUFFICES ASSUME NEW i \in 1..(Len(s) + 1), NEW j \in 1..(Len(s) + 1), i < j
               PROVE  t[i].start <= t[j].start
    BY <1>6 DEF Ordered
  <2>1. CASE j < k
    <3>1. t[i] = s[i] /\ t[j] = s[j] /\ i \in DOMAIN s /\ j \in DOMAIN s  BY <1>2, <1>6, <2>1
    <3> QED  BY <3>1 DEF Ordered
  <2>2. CASE j = k
    <3>1. t[i] = s[i] /\ t[j] = x /\ i \in DOMAIN s  BY <1>2, <1>6, <2>2
    <3> QED  BY <3>1, <2>2, <1>3
  <2>3. CASE j > k
    <3>1. t[j] = s[j - 1] /\ j - 1 \in DOMAIN s /\ j - 1 >= k  BY <1>2, <1>6, <2>3
    <3>2. CASE i < k
      <4>1. t[i] = s[i] /\ i \in DOMAIN s /\ i < j - 1 BY <1>2, <1>6, <2>3, <3>2
      <4> QED  BY <3>1, <4>1 DEF Ordered
    <3>3. CASE i = k
      <4>1. t[i] = x  BY <1>6, <3>3
      <4>2. x.start < s[j - 1].start  BY <1>4, <3>1
      <4> QED  BY <3>1, <4>1, <4>2, <1>0, <1>00
    <3>4. CASE i > k
      <4>1. t[i] = s[i - 1] /\ i - 1 \in DOMAIN s /\ i - 1 < j - 1  BY <1>2, <1>6, <3>4
      <4> QED  BY <3>1, <4>1 DEF Ordered
    <3> QED  BY <3>2, <3>3, <3>4, <1>2
  <2> QED  BY <2>1, <2>2, <2>3, <1>2
<1>9. ASSUME NEW y
      PROVE  (\E i \in DOMAIN t : t[i] = y) <=> y = x \/ \E i \in DOMAIN s : s[i] = y
  <2>1. ASSUME NEW i \in DOMAIN s PROVE \E j \in DOMAIN t : t[j] = s[i]
    <3>1. CASE i < k  BY <1>2, <1>6, <3>1
    <3>2. CASE i >= k
      <4>1. i + 1 \in DOMAIN t /\ t[i + 1] = s[i]  BY <1>2, <1>6, <3>2
      <4> QED  BY <4>1
    <3> QED  BY <3>1, <3>2, <1>2
  <2>2. k \in DOMAIN t /\ t[k] = x  BY <1>2, <1>6
  <2>3. ASSUME NEW j \in DOMAIN t PROVE t[j] = x \/ \E i \in DOMAIN s : s[i] = t[j]
    <3>1. CASE j < k
      <4>1. j \in DOMAIN s /\ t[j] = s[j]  BY <1>2, <1>6, <3>1
      <4> QED  BY <4>1
    <3>2. CASE j > k
      <4>1. j - 1 \in DOMAIN s /\ t[j] = s[j - 1]  BY <1>2, <1>6, <3>2
      <4> QED  BY <4>1
    <3> QED  BY <2>2, <3>1, <3>2, <1>2, <1>6
  <2> QED  BY <2>1, <2>2, <2>3
<1> QED  BY <1>7, <1>8, <1>9 DEF t

\* The states of the sort.
LEMMA SortedLoop ==
  ASSUME NEW list \in Seq(Spans)
  PROVE  \E f \in [0..Len(list) -> SortedLists] :
           /\ f[0] = <<>> /\ f[Len(list)] = Sorted(list)
           /\ \A i \in 1..Len(list) : f[i] = Place(f[i - 1], list[i])
<1> DEFINE n == Len(list)
           step == [p \in SortedLists \X (1..n) |-> Place(p[1], list[p[2]])]
           g == CHOOSE g : g = [i \in 0..n |-> IF i = 0 THEN <<>> ELSE Place(g[i - 1], list[i])]
<1>1. n \in Nat /\ \A i \in 1..n : list[i] \in Spans  BY ListFields
<1>2. <<>> \in SortedLists  BY DEF SortedLists, Ordered
<1>3. step \in [SortedLists \X (1..n) -> SortedLists]
  <2>1. ASSUME NEW p \in SortedLists \X (1..n) PROVE Place(p[1], list[p[2]]) \in SortedLists
    <3>1. p[1] \in SortedLists /\ list[p[2]] \in Spans  BY <1>1
    <3> QED  BY <3>1, PlaceOrdered DEF SortedLists
  <2> QED  BY <2>1
<1> HIDE DEF n, step, g
<1>4. PICK f \in [0..n -> SortedLists] :
        f[0] = <<>> /\ \A i \in 1..n : f[i] = step[<<f[i - 1], i>>]
  <2>1. \E f \in [0..n -> SortedLists] : Runs(f, <<>>, step, n)
    BY <1>1, <1>2, <1>3, LoopWitness
  <2> QED  BY <2>1 DEF Runs
<1>5. ASSUME NEW i \in 1..n PROVE f[i] = Place(f[i - 1], list[i])
  <2>1. i \in 0..n /\ i - 1 \in 0..n  BY <1>1
  <2>2. <<f[i - 1], i>> \in SortedLists \X (1..n)  BY <2>1
  <2> QED  BY <1>4, <2>1, <2>2 DEF step
<1>6. f = [i \in 0..n |-> IF i = 0 THEN <<>> ELSE Place(f[i - 1], list[i])]
  <2>1. \A i \in 0..n : i # 0 => i \in 1..n  BY <1>1
  <2> QED  BY <1>4, <1>5, <2>1
<1>7. g = [i \in 0..n |-> IF i = 0 THEN <<>> ELSE Place(g[i - 1], list[i])]  BY <1>6 DEF g
<1>8. g[0] = <<>> /\ \A i \in 1..n : g[i] = Place(g[i - 1], list[i])
  <2>1. 0 \in 0..n /\ \A i \in 1..n : i \in 0..n /\ i # 0  BY <1>1
  <2> QED  BY <1>7, <2>1
<1>9. \A i \in 0..n : f[i] = g[i]
  <2>1. \A i \in 1..n : f[i - 1] = g[i - 1] => f[i] = g[i]  BY <1>5, <1>8
  <2>2. f[0] = g[0]  BY <1>4, <1>8
  <2> QED  BY <1>1, <2>1, <2>2, LoopUnique
<1>10. Sorted(list) = g[n]  BY DEF Sorted, Loop, n, g
<1> QED  BY <1>1, <1>4, <1>5, <1>9, <1>10 DEF n


\* Sorting orders a list and keeps its spans.
LEMMA SortedCorrect ==
  ASSUME NEW list \in Seq(Spans)
  PROVE  /\ Sorted(list) \in Seq(Spans) /\ Ordered(Sorted(list))
         /\ \A y : (\E i \in DOMAIN Sorted(list) : Sorted(list)[i] = y)
                     <=> \E i \in DOMAIN list : list[i] = y
<1> DEFINE n == Len(list)
<1>1. n \in Nat /\ DOMAIN list = 1..n /\ \A i \in 1..n : list[i] \in Spans  BY ListFields
<1>2. PICK f \in [0..n -> SortedLists] :
        /\ f[0] = <<>> /\ f[n] = Sorted(list)
        /\ \A i \in 1..n : f[i] = Place(f[i - 1], list[i])
  BY SortedLoop
<1> HIDE DEF n
<1> DEFINE Has(i) == \A y : (\E j \in DOMAIN f[i] : f[i][j] = y) <=> \E j \in 1..i : list[j] = y
           T == {i \in 0..n : Has(i)}
<1>3. 0 \in T
  <2>1. DOMAIN f[0] = {}  BY <1>2
  <2> QED  BY <1>1, <2>1
<1>4. ASSUME NEW i \in 0..n, i \in T, i + 1 \in 0..n PROVE i + 1 \in T
  <2>1. i + 1 \in 1..n /\ (i + 1) - 1 = i  BY <1>1, <1>4
  <2>2. f[i + 1] = Place(f[i], list[i + 1]) /\ f[i] \in Seq(Spans) /\ Ordered(f[i])
    BY <1>2, <2>1 DEF SortedLists
  <2>3. \A y : (\E j \in DOMAIN f[i + 1] : f[i + 1][j] = y)
                 <=> y = list[i + 1] \/ \E j \in DOMAIN f[i] : f[i][j] = y
    <3> DEFINE s == f[i]  x == list[i + 1]
    <3>1. s \in Seq(Spans) /\ Ordered(s) /\ x \in Spans  BY <1>1, <2>1, <2>2
    <3> HIDE DEF s, x
    <3>2. \A y : (\E j \in DOMAIN Place(s, x) : Place(s, x)[j] = y)
                   <=> y = x \/ \E j \in DOMAIN s : s[j] = y
      BY <3>1, PlaceOrdered
    <3> QED  BY <2>2, <3>2 DEF s, x
  <2>4. 1..(i + 1) = (1..i) \cup {i + 1}  BY <1>1
  <2>5. Has(i)  BY <1>4
  <2>6. Has(i + 1)  BY <2>3, <2>4, <2>5
  <2> HIDE DEF Has
  <2> QED  BY <1>4, <2>6
<1> HIDE DEF T
<1>5. n \in T  BY <1>1, <1>3, <1>4, RangeInduction
<1>6. Has(n) /\ f[n] \in SortedLists  BY <1>1, <1>2, <1>5 DEF T
<1> QED  BY <1>1, <1>2, <1>6 DEF SortedLists
-----------------------------------------------------------------------------
(* _merge_intervals *)

\* What a merged list is.
LEMMA MergedFields ==
  ASSUME NEW s \in MergedLists
  PROVE  /\ s \in Seq(Spans) /\ Len(s) \in Nat /\ DOMAIN s = 1..Len(s)
         /\ s # <<>> => Len(s) \in 1..Len(s)
         /\ \A i \in 1..Len(s) : /\ s[i] \in Spans /\ s[i].start \in Int /\ s[i].end \in Int
                               /\ s[i].start < s[i].end
         /\ \A i, j \in 1..Len(s) : i < j => s[i].end < s[j].start
BY ListFields DEF MergedLists, NonEmpty, Apart

\* The cases of one round.
LEMMA MergeValue ==
  ASSUME NEW s \in MergedLists, NEW x \in Spans
  PROVE  LET n == Len(s) IN
         \/ x.end <= x.start /\ Merge(s, x) = s
         \/ /\ x.start < x.end /\ (s = <<>> \/ s[n].end < x.start)
            /\ Merge(s, x) = Append(s, x)
         \/ /\ s # <<>> /\ x.start < x.end /\ x.start <= s[n].end /\ x.end <= s[n].end
            /\ Merge(s, x) = s
         \/ /\ s # <<>> /\ x.start < x.end /\ x.start <= s[n].end /\ s[n].end < x.end
            /\ \E z \in Spans : /\ z.start = s[n].start /\ z.end = x.end
                              /\ Merge(s, x) = [s EXCEPT ![n] = z]
<1> DEFINE n == Len(s)  end == s[n].end
<1>1. x.start \in Int /\ x.end \in Int  BY SpanFields
<1>2. s # <<>> => s[n] \in Spans /\ s[n].start \in Int /\ end \in Int  BY MergedFields
<1>3. Last(s).end = end /\ Len(s) = n  BY DEF Last
<1>4. CASE x.end <= x.start  BY <1>4 DEF Merge
<1>5. CASE ~(x.end <= x.start) /\ (s = <<>> \/ x.start > end)
  <2>1. Merge(s, x) = Append(s, x)  BY <1>3, <1>5 DEF Merge
  <2>2. x.start < x.end /\ (s = <<>> \/ end < x.start)  BY <1>1, <1>2, <1>5
  <2> QED  BY <2>1, <2>2
<1>6. CASE ~(x.end <= x.start) /\ ~(s = <<>> \/ x.start > end) /\ ~(x.end > end)
  <2>1. Merge(s, x) = s
    <3> HIDE DEF end
    <3> QED  BY <1>3, <1>6 DEF Merge
  <2>2. s # <<>> /\ x.start < x.end /\ x.start <= end /\ x.end <= end  BY <1>1, <1>2, <1>6
  <2> QED  BY <2>1, <2>2
<1>7. CASE ~(x.end <= x.start) /\ ~(s = <<>> \/ x.start > end) /\ x.end > end
  <2> DEFINE z == [s[n] EXCEPT !.end = x.end]
  <2>1. Merge(s, x) = [s EXCEPT ![n] = z]
    <3> HIDE DEF end
    <3>1. Merge(s, x) = [s EXCEPT ![Len(s)].end = x.end]  BY <1>3, <1>7 DEF Merge
    <3> QED  BY <3>1
  <2>2. s # <<>> /\ x.start < x.end /\ x.start <= end /\ end < x.end  BY <1>1, <1>2, <1>7
  <2>3. z \in Spans /\ z.start = s[n].start /\ z.end = x.end
    BY <1>1, <1>2, <2>2 DEF Spans
  <2> HIDE DEF z
  <2> QED  BY <2>1, <2>2, <2>3
<1> QED  BY <1>4, <1>5, <1>6, <1>7

\* A round of the merge keeps the list merged.
LEMMA MergeCloses ==
  ASSUME NEW s \in MergedLists, NEW x \in Spans
  PROVE  Merge(s, x) \in MergedLists
<1> DEFINE n == Len(s)
<1>1. /\ s \in Seq(Spans) /\ n \in Nat /\ DOMAIN s = 1..n
      /\ s # <<>> => n \in 1..n
      /\ \A i \in 1..n : /\ s[i] \in Spans /\ s[i].start \in Int /\ s[i].end \in Int
                        /\ s[i].start < s[i].end
      /\ \A i, j \in 1..n : i < j => s[i].end < s[j].start
  BY MergedFields
<1>2. x.start \in Int /\ x.end \in Int  BY SpanFields
<1>3. ASSUME x.start < x.end, s = <<>> \/ s[n].end < x.start, Merge(s, x) = Append(s, x)
      PROVE  Merge(s, x) \in MergedLists
  <2> DEFINE u == Append(s, x)
  <2>1. /\ u \in Seq(Spans) /\ Len(u) = n + 1 /\ DOMAIN u = 1..(n + 1)
        /\ \A i \in 1..n : u[i] = s[i]
        /\ u[n + 1] = x
    BY <1>1
  <2> HIDE DEF u
  <2>2. ASSUME NEW i \in 1..n PROVE s[i].end < x.start
    <3>1. s[n].end < x.start /\ n \in 1..n  BY <1>1, <1>3
    <3>2. CASE i = n  BY <3>1, <3>2
    <3>3. CASE i < n
      <4>1. s[i].end < s[n].start /\ s[n].start < s[n].end  BY <1>1, <3>1, <3>3
      <4>2. s[i].end \in Int /\ s[n].start \in Int /\ s[n].end \in Int  BY <1>1, <3>1
      <4> QED  BY <4>1, <4>2, <3>1, <1>2
    <3>4. n \in Nat  BY <1>1
    <3> HIDE DEF n
    <3> QED  BY <3>2, <3>3, <3>4
  <2>3. NonEmpty(u)
    <3>1. \A i \in 1..(n + 1) : i \in 1..n \/ i = n + 1  BY <1>1
    <3> QED  BY <1>1, <1>3, <2>1, <3>1 DEF NonEmpty
  <2>4. Apart(u)
    <3> SUFFICES ASSUME NEW i \in 1..(n + 1), NEW j \in 1..(n + 1), i < j
                 PROVE  u[i].end < u[j].start
      BY <2>1 DEF Apart
    <3>1. i \in 1..n /\ (j \in 1..n \/ j = n + 1)  BY <1>1
    <3> QED  BY <1>1, <2>1, <2>2, <3>1
  <2> QED  BY <1>3, <2>1, <2>3, <2>4 DEF MergedLists, u
<1>4. ASSUME s # <<>>, s[n].end < x.end, NEW z \in Spans, z.start = s[n].start, z.end = x.end,
             Merge(s, x) = [s EXCEPT ![n] = z]
      PROVE  Merge(s, x) \in MergedLists
  <2> DEFINE u == [s EXCEPT ![n] = z]
  <2>1. u \in Seq(Spans) /\ Len(u) = n /\ DOMAIN u = 1..n
        /\ \A i \in 1..n : u[i] = IF i = n THEN z ELSE s[i]
    BY <1>1, <1>4, ExceptSeq
  <2> HIDE DEF u
  <2>2. NonEmpty(u)
    <3>1. s[n].start < s[n].end /\ s[n].start \in Int /\ s[n].end \in Int  BY <1>1, <1>4
    <3>2. z.start < z.end  BY <1>2, <1>4, <3>1
    <3> QED  BY <1>1, <2>1, <3>2 DEF NonEmpty
  <2>3. Apart(u)
    <3> SUFFICES ASSUME NEW i \in 1..n, NEW j \in 1..n, i < j PROVE u[i].end < u[j].start
      BY <2>1 DEF Apart
    <3>1. i # n
      <4>1. n \in Nat  BY <1>1
      <4> HIDE DEF n
      <4> QED  BY <4>1
    <3>2. u[i] = s[i] /\ u[j].start = s[j].start  BY <1>4, <2>1, <3>1
    <3> QED  BY <1>1, <3>2
  <2> QED  BY <1>4, <2>1, <2>2, <2>3 DEF MergedLists, u
<1> HIDE DEF n
<1> QED  BY <1>3, <1>4, MergeValue DEF n

\* One round on a span that starts no earlier than the last one.
LEMMA MergeAdds ==
  ASSUME NEW s \in MergedLists, NEW x \in Spans, s # <<>> => s[Len(s)].start <= x.start
  PROVE  /\ \A m \in Int : Covered(Merge(s, x), m) <=> Covered(s, m) \/ CoversIt(x, m)
         /\ Merge(s, x) # <<>> =>
              \/ Merge(s, x)[Len(Merge(s, x))].start = x.start
              \/ s # <<>> /\ Merge(s, x)[Len(Merge(s, x))].start = s[Len(s)].start
<1> DEFINE n == Len(s)
           Adds(u) == /\ \A m \in Int : Covered(u, m) <=> Covered(s, m) \/ CoversIt(x, m)
                      /\ u # <<>> => \/ u[Len(u)].start = x.start
                                     \/ s # <<>> /\ u[Len(u)].start = s[n].start
<1>1. /\ s \in Seq(Spans) /\ n \in Nat /\ DOMAIN s = 1..n
      /\ s # <<>> => n \in 1..n
      /\ \A i \in 1..n : /\ s[i] \in Spans /\ s[i].start \in Int /\ s[i].end \in Int
                        /\ s[i].start < s[i].end
  BY MergedFields
<1>2. x.start \in Int /\ x.end \in Int  BY SpanFields
<1>3. ASSUME x.end <= x.start PROVE Adds(s)
  <2>1. \A m \in Int : ~CoversIt(x, m)  BY <1>2, <1>3 DEF CoversIt
  <2> QED  BY <2>1
<1>4. Adds(Append(s, x))
  <2> DEFINE u == Append(s, x)
  <2>1. /\ u \in Seq(Spans) /\ Len(u) = n + 1 /\ DOMAIN u = 1..(n + 1)
        /\ \A i \in 1..n : u[i] = s[i]
        /\ u[n + 1] = x
    BY <1>1
  <2> HIDE DEF u
  <2>2. 1..(n + 1) = (1..n) \cup {n + 1}  BY <1>1
  <2>3. \A m \in Int : Covered(u, m) <=> Covered(s, m) \/ CoversIt(x, m)
    BY <1>1, <2>1, <2>2 DEF Covered
  <2>4. Adds(u)  BY <2>1, <2>3
  <2> HIDE DEF Adds
  <2> QED  BY <2>4 DEF u
<1>5. ASSUME s # <<>>, x.start <= s[n].end, x.end <= s[n].end PROVE Adds(s)
  <2>1. s[n].start <= x.start /\ s[n].start \in Int /\ s[n].end \in Int /\ n \in DOMAIN s
    BY <1>1, <1>5
  <2>2. \A m \in Int : CoversIt(x, m) => CoversIt(s[n], m)
    BY <1>2, <1>5, <2>1 DEF CoversIt
  <2>3. \A m \in Int : CoversIt(x, m) => Covered(s, m)  BY <2>1, <2>2 DEF Covered
  <2> QED  BY <1>5, <2>3
<1>6. ASSUME s # <<>>, x.start <= s[n].end, s[n].end < x.end,
             NEW z \in Spans, z.start = s[n].start, z.end = x.end
      PROVE  Adds([s EXCEPT ![n] = z])
  <2> DEFINE u == [s EXCEPT ![n] = z]
  <2>1. u \in Seq(Spans) /\ Len(u) = n /\ DOMAIN u = 1..n
        /\ \A i \in 1..n : u[i] = IF i = n THEN z ELSE s[i]
    BY <1>1, <1>6, ExceptSeq
  <2> HIDE DEF u
  <2>2. s[n].start <= x.start /\ s[n].start \in Int /\ s[n].end \in Int /\ n \in 1..n
    BY <1>1, <1>6
  <2>3. \A m \in Int : CoversIt(z, m) <=> CoversIt(s[n], m) \/ CoversIt(x, m)
    BY <1>2, <1>6, <2>2 DEF CoversIt
  <2>4. \A m \in Int : Covered(u, m) <=> Covered(s, m) \/ CoversIt(x, m)
    <3> SUFFICES ASSUME NEW m \in Int
                 PROVE  Covered(u, m) <=> Covered(s, m) \/ CoversIt(x, m)
      OBVIOUS
    <3> DEFINE Other(v) == \E i \in 1..n : i # n /\ CoversIt(v[i], m)
    <3>1. Covered(u, m) <=> CoversIt(z, m) \/ Other(u)  BY <2>1, <2>2 DEF Covered
    <3>2. Covered(s, m) <=> CoversIt(s[n], m) \/ Other(s)  BY <1>1, <2>2 DEF Covered
    <3>3. Other(s) <=> Other(u)  BY <2>1
    <3> QED  BY <2>3, <3>1, <3>2, <3>3
  <2>5. Adds(u)  BY <1>6, <2>1, <2>2, <2>4
  <2> HIDE DEF Adds
  <2> QED  BY <2>5 DEF u
<1> HIDE DEF Adds, n
<1>7. \/ x.end <= x.start /\ Merge(s, x) = s
      \/ Merge(s, x) = Append(s, x)
      \/ s # <<>> /\ x.start <= s[n].end /\ x.end <= s[n].end /\ Merge(s, x) = s
      \/ /\ s # <<>> /\ x.start <= s[n].end /\ s[n].end < x.end
         /\ \E z \in Spans : /\ z.start = s[n].start /\ z.end = x.end
                           /\ Merge(s, x) = [s EXCEPT ![n] = z]
  BY MergeValue DEF n
<1>8. Adds(Merge(s, x))  BY <1>3, <1>4, <1>5, <1>6, <1>7
<1> QED  BY <1>8 DEF Adds, n

\* The states of the merge.
LEMMA MergeLoop ==
  ASSUME NEW list \in Seq(Spans)
  PROVE  \E f \in [0..Len(list) -> MergedLists] :
           /\ f[0] = <<>> /\ f[Len(list)] = Loop(Merge, <<>>, list)
           /\ \A i \in 1..Len(list) : f[i] = Merge(f[i - 1], list[i])
<1> DEFINE n == Len(list)
           step == [p \in MergedLists \X (1..n) |-> Merge(p[1], list[p[2]])]
           g == CHOOSE g : g = [i \in 0..n |-> IF i = 0 THEN <<>> ELSE Merge(g[i - 1], list[i])]
<1>1. n \in Nat /\ \A i \in 1..n : list[i] \in Spans  BY ListFields
<1>2. <<>> \in MergedLists  BY DEF MergedLists, NonEmpty, Apart
<1>3. step \in [MergedLists \X (1..n) -> MergedLists]
  <2>1. ASSUME NEW p \in MergedLists \X (1..n) PROVE Merge(p[1], list[p[2]]) \in MergedLists
    <3>1. p[1] \in MergedLists /\ list[p[2]] \in Spans  BY <1>1
    <3> QED  BY <3>1, MergeCloses
  <2> QED  BY <2>1
<1> HIDE DEF n, step, g
<1>4. PICK f \in [0..n -> MergedLists] :
        f[0] = <<>> /\ \A i \in 1..n : f[i] = step[<<f[i - 1], i>>]
  <2>1. \E f \in [0..n -> MergedLists] : Runs(f, <<>>, step, n)
    BY <1>1, <1>2, <1>3, LoopWitness
  <2> QED  BY <2>1 DEF Runs
<1>5. ASSUME NEW i \in 1..n PROVE f[i] = Merge(f[i - 1], list[i])
  <2>1. i \in 0..n /\ i - 1 \in 0..n  BY <1>1
  <2>2. <<f[i - 1], i>> \in MergedLists \X (1..n)  BY <2>1
  <2> QED  BY <1>4, <2>1, <2>2 DEF step
<1>6. f = [i \in 0..n |-> IF i = 0 THEN <<>> ELSE Merge(f[i - 1], list[i])]
  <2>1. \A i \in 0..n : i # 0 => i \in 1..n  BY <1>1
  <2> QED  BY <1>4, <1>5, <2>1
<1>7. g = [i \in 0..n |-> IF i = 0 THEN <<>> ELSE Merge(g[i - 1], list[i])]  BY <1>6 DEF g
<1>8. g[0] = <<>> /\ \A i \in 1..n : g[i] = Merge(g[i - 1], list[i])
  <2>1. 0 \in 0..n /\ \A i \in 1..n : i \in 0..n /\ i # 0  BY <1>1
  <2> QED  BY <1>7, <2>1
<1>9. \A i \in 0..n : f[i] = g[i]
  <2>1. \A i \in 1..n : f[i - 1] = g[i - 1] => f[i] = g[i]  BY <1>5, <1>8
  <2>2. f[0] = g[0]  BY <1>4, <1>8
  <2> QED  BY <1>1, <2>1, <2>2, LoopUnique
<1>10. Loop(Merge, <<>>, list) = g[n]  BY DEF Loop, n, g
<1>11. f[n] = Loop(Merge, <<>>, list)  BY <1>1, <1>9, <1>10
<1> QED  BY <1>4, <1>5, <1>11 DEF n

\* Merging returns the same minutes, in spans apart from each other.
LEMMA MergeCorrect ==
  ASSUME NEW list \in Seq(Spans)
  PROVE  /\ MergeIntervals(list) \in MergedLists
         /\ \A m \in Int : Covered(MergeIntervals(list), m) <=> Covered(list, m)
<1> DEFINE s == Sorted(list)  n == Len(s)
<1>1. /\ s \in Seq(Spans) /\ Ordered(s) /\ MergeIntervals(list) = Loop(Merge, <<>>, s)
      /\ \A m : Covered(s, m) <=> Covered(list, m)
  <2>1. \A y : (\E i \in DOMAIN s : s[i] = y) <=> \E i \in DOMAIN list : list[i] = y
    BY SortedCorrect
  <2>2. \A m : Covered(s, m) <=> Covered(list, m)
    <3> HIDE DEF s
    <3> QED  BY <2>1 DEF Covered
  <2> QED  BY <2>2, SortedCorrect DEF MergeIntervals
<1> HIDE DEF s
<1>2. /\ n \in Nat /\ DOMAIN s = 1..n
      /\ \A i \in 1..n : s[i] \in Spans /\ s[i].start \in Int
  BY <1>1, ListFields
<1>3. PICK f \in [0..n -> MergedLists] :
        /\ f[0] = <<>> /\ f[n] = Loop(Merge, <<>>, s)
        /\ \A i \in 1..n : f[i] = Merge(f[i - 1], s[i])
  BY <1>1, MergeLoop
<1> HIDE DEF n
<1> DEFINE Seen(i) == /\ \A m \in Int : Covered(f[i], m) <=> \E j \in 1..i : CoversIt(s[j], m)
                      /\ f[i] # <<>> => \E j \in 1..i : f[i][Len(f[i])].start = s[j].start
           T == {i \in 0..n : Seen(i)}
<1>4. 0 \in T
  <2>1. Seen(0)
    <3>1. DOMAIN f[0] = {}  BY <1>3
    <3> QED  BY <1>3, <3>1 DEF Covered
  <2> HIDE DEF Seen
  <2> QED  BY <1>2, <2>1
<1>5. ASSUME NEW i \in 0..n, i \in T, i + 1 \in 0..n PROVE i + 1 \in T
  <2> DEFINE k == i + 1  old == f[i]  x == s[k]  new == f[k]
  <2>1. k \in 1..n /\ k - 1 = i /\ 1..k = (1..i) \cup {k}  BY <1>2, <1>5
  <2>2. Seen(i)  BY <1>5
  <2>3. new = Merge(old, x) /\ old \in MergedLists /\ x \in Spans  BY <1>2, <1>3, <2>1
  <2>4. old # <<>> => old[Len(old)].start <= x.start
    <3>1. \A j \in 1..i : j \in DOMAIN s /\ k \in DOMAIN s /\ j < k  BY <1>2, <2>1
    <3>2. \A j \in 1..i : s[j].start <= x.start  BY <1>1, <3>1 DEF Ordered
    <3> QED  BY <2>2, <3>2
  <2>5. /\ \A m \in Int : Covered(new, m) <=> Covered(old, m) \/ CoversIt(x, m)
        /\ new # <<>> => \/ new[Len(new)].start = x.start
                         \/ old # <<>> /\ new[Len(new)].start = old[Len(old)].start
    <3> HIDE DEF old, x, new
    <3> QED  BY <2>3, <2>4, MergeAdds
  <2>6. \A m \in Int : Covered(new, m) <=> \E j \in 1..k : CoversIt(s[j], m)
    <3> HIDE DEF k, old, new
    <3> QED  BY <2>1, <2>2, <2>5 DEF old
  <2>7. new # <<>> => \E j \in 1..k : new[Len(new)].start = s[j].start
    BY <2>1, <2>2, <2>5
  <2>8. Seen(k)  BY <2>6, <2>7
  <2> HIDE DEF Seen
  <2> QED  BY <1>5, <2>8
<1> HIDE DEF T
<1>6. n \in T
  <2>1. \A i \in 0..n : i \in T  BY <1>2, <1>4, <1>5, RangeInduction
  <2> QED  BY <1>2, <2>1
<1>7. Seen(n) /\ f[n] \in MergedLists  BY <1>2, <1>3, <1>6 DEF T
<1>8. \A m : Covered(s, m) <=> \E j \in 1..n : CoversIt(s[j], m)  BY <1>2 DEF Covered
<1> QED  BY <1>1, <1>3, <1>7, <1>8

-----------------------------------------------------------------------------
(* _merged_interval_minutes *)

\* A round of the count: a span that starts no later than the current one ends
\* extends it, any other one closes it.
LEMMA CountValue ==
  ASSUME NEW st \in Counts, NEW x \in Spans
  PROVE  /\ Count(st, x) \in Counts
         /\ x.start <= st.current.end =>
              /\ Count(st, x).total = st.total
              /\ Count(st, x).current.start = st.current.start
              /\ Count(st, x).current.end =
                   IF st.current.end >= x.end THEN st.current.end ELSE x.end
         /\ ~(x.start <= st.current.end) =>
              /\ Count(st, x).total = st.total + (st.current.end - st.current.start)
              /\ Count(st, x).current = x
<1>1. /\ x.start \in Int /\ x.end \in Int /\ st.total \in Int /\ st.current \in Spans
      /\ st.current.start \in Int /\ st.current.end \in Int
  BY SpanFields DEF Counts
<1>2. CASE x.start <= st.current.end
  <2> DEFINE e == Max({st.current.end, x.end})
             c == [st.current EXCEPT !.end = e]
  <2>1. e = IF st.current.end >= x.end THEN st.current.end ELSE x.end  BY <1>1, MaxOfTwo
  <2> HIDE DEF e
  <2>2. e \in Int  BY <1>1, <2>1
  <2>3. c \in Spans /\ c.start = st.current.start /\ c.end = e  BY <1>1, <2>2 DEF Spans
  <2>4. Count(st, x) = [st EXCEPT !.current = c]  BY <1>2 DEF Count, e
  <2> HIDE DEF c
  <2>5. /\ Count(st, x) \in Counts /\ Count(st, x).total = st.total
        /\ Count(st, x).current = c
    BY <1>1, <2>3, <2>4 DEF Counts
  <2> QED  BY <1>2, <2>1, <2>3, <2>5
<1>3. CASE ~(x.start <= st.current.end)
  BY <1>1, <1>3 DEF Count, Counts
<1> QED  BY <1>2, <1>3

\* The states of the count.
LEMMA CountLoop ==
  ASSUME NEW list \in Seq(Spans), NEW first \in Spans
  PROVE  \E f \in [0..Len(list) -> Counts] :
           /\ f[0] = [total |-> 0, current |-> first] /\ f[Len(list)] = Counted(first, list)
           /\ \A i \in 1..Len(list) : f[i] = Count(f[i - 1], list[i])
<1> DEFINE n == Len(list)
           step == [p \in Counts \X (1..n) |-> Count(p[1], list[p[2]])]
           g == CHOOSE g : g = [i \in 0..n |-> IF i = 0 THEN [total |-> 0, current |-> first] ELSE Count(g[i - 1], list[i])]
<1>1. n \in Nat /\ \A i \in 1..n : list[i] \in Spans  BY ListFields
<1>2. [total |-> 0, current |-> first] \in Counts  BY DEF Counts
<1>3. step \in [Counts \X (1..n) -> Counts]
  <2>1. ASSUME NEW p \in Counts \X (1..n) PROVE Count(p[1], list[p[2]]) \in Counts
    <3>1. p[1] \in Counts /\ list[p[2]] \in Spans  BY <1>1
    <3> QED  BY <3>1, CountValue
  <2> QED  BY <2>1
<1> HIDE DEF n, step, g
<1>4. PICK f \in [0..n -> Counts] :
        f[0] = [total |-> 0, current |-> first] /\ \A i \in 1..n : f[i] = step[<<f[i - 1], i>>]
  <2>1. \E f \in [0..n -> Counts] : Runs(f, [total |-> 0, current |-> first], step, n)
    BY <1>1, <1>2, <1>3, LoopWitness
  <2> QED  BY <2>1 DEF Runs
<1>5. ASSUME NEW i \in 1..n PROVE f[i] = Count(f[i - 1], list[i])
  <2>1. i \in 0..n /\ i - 1 \in 0..n  BY <1>1
  <2>2. <<f[i - 1], i>> \in Counts \X (1..n)  BY <2>1
  <2> QED  BY <1>4, <2>1, <2>2 DEF step
<1>6. f = [i \in 0..n |-> IF i = 0 THEN [total |-> 0, current |-> first] ELSE Count(f[i - 1], list[i])]
  <2>1. \A i \in 0..n : i # 0 => i \in 1..n  BY <1>1
  <2> QED  BY <1>4, <1>5, <2>1
<1>7. g = [i \in 0..n |-> IF i = 0 THEN [total |-> 0, current |-> first] ELSE Count(g[i - 1], list[i])]  BY <1>6 DEF g
<1>8. g[0] = [total |-> 0, current |-> first] /\ \A i \in 1..n : g[i] = Count(g[i - 1], list[i])
  <2>1. 0 \in 0..n /\ \A i \in 1..n : i \in 0..n /\ i # 0  BY <1>1
  <2> QED  BY <1>7, <2>1
<1>9. \A i \in 0..n : f[i] = g[i]
  <2>1. \A i \in 1..n : f[i - 1] = g[i - 1] => f[i] = g[i]  BY <1>5, <1>8
  <2>2. f[0] = g[0]  BY <1>4, <1>8
  <2> QED  BY <1>1, <2>1, <2>2, LoopUnique
<1>10. Counted(first, list) = g[n]  BY DEF Counted, Loop, n, g
<1>11. f[n] = Counted(first, list)  BY <1>1, <1>9, <1>10
<1> QED  BY <1>4, <1>5, <1>11 DEF n


\* A span beside a finite set of minutes.
LEMMA CountBeside ==
  ASSUME NEW A, IsFiniteSet(A), NEW a \in Int, NEW b \in Int, a < b, A \cap a..(b - 1) = {}
  PROVE  /\ IsFiniteSet(A \cup a..(b - 1))
         /\ Cardinality(A \cup a..(b - 1)) = Cardinality(A) + (b - a)
<1> DEFINE B == a..(b - 1)
<1>1. IsFiniteSet(B) /\ Cardinality(B) = b - a
  <2>1. b - 1 \in Int /\ ~(a > b - 1) /\ (b - 1) - a + 1 = b - a  OBVIOUS
  <2> QED  BY <2>1, FS_Interval
<1>2. A \cap B = {}  OBVIOUS
<1> HIDE DEF B
<1>3. /\ IsFiniteSet(A \cup B)
      /\ Cardinality(A \cup B) = Cardinality(A) + Cardinality(B) - Cardinality(A \cap B)
  BY <1>1, FS_Union
<1>4. Cardinality(A \cap B) = 0 /\ Cardinality(A) \in Nat
  BY <1>2, FS_EmptySet, FS_CardinalityType
<1>5. Cardinality(A \cup B) = Cardinality(A) + (b - a)  BY <1>1, <1>3, <1>4
<1> QED  BY <1>3, <1>5 DEF B

\* Counting the merged spans counts the minutes.
LEMMA MinutesCounted ==
  ASSUME NEW list \in Seq(Spans), NonEmpty(list)
  PROVE  IsFiniteSet(Minutes(list)) /\ MergedIntervalMinutes(list) = Cardinality(Minutes(list))
<1>1. CASE list = <<>>
  <2>1. Minutes(list) = {}  BY <1>1 DEF Minutes
  <2> QED  BY <1>1, <2>1, FS_EmptySet DEF MergedIntervalMinutes
<1>2. CASE list # <<>>
  <2> DEFINE s == Sorted(list)  rest == Tail(s)  n == Len(rest)
             first == [total |-> 0, current |-> Head(s)]
  <2>1. s \in Seq(Spans) /\ Ordered(s) /\ \A m : Covered(s, m) <=> Covered(list, m)
    <3>1. \A y : (\E i \in DOMAIN s : s[i] = y) <=> \E i \in DOMAIN list : list[i] = y
      BY SortedCorrect
    <3>2. \A m : Covered(s, m) <=> Covered(list, m)
      <4> HIDE DEF s
      <4> QED  BY <3>1 DEF Covered
    <3> QED  BY <3>2, SortedCorrect
  <2>2. NonEmpty(s) /\ s # <<>>
    <3>1. \A y : (\E i \in DOMAIN s : s[i] = y) <=> \E i \in DOMAIN list : list[i] = y
      BY SortedCorrect
    <3> HIDE DEF s
    <3>2. 1 \in DOMAIN list  BY <1>2
    <3>3. DOMAIN s # {}  BY <3>1, <3>2
    <3>4. \A i \in DOMAIN s : s[i].start < s[i].end  BY <3>1 DEF NonEmpty
    <3> QED  BY <3>3, <3>4 DEF NonEmpty
  <2> DEFINE result == Counted(Head(s), rest)
  <2>3. MergedIntervalMinutes(list) =
          Max({0, result.total + result.current.end - result.current.start})
    BY <1>2 DEF MergedIntervalMinutes, Counted
  <2> HIDE DEF s
  <2>4. /\ rest \in Seq(Spans) /\ n \in Nat /\ Len(s) = n + 1 /\ DOMAIN s = 1..(n + 1)
        /\ \A i \in 1..n : rest[i] = s[i + 1]
        /\ Head(s) = s[1] /\ s[1] \in Spans
    BY <2>1, <2>2, HeadTailProperties
  <2>5. \A i \in 1..(n + 1) : /\ s[i] \in Spans /\ s[i].start \in Int /\ s[i].end \in Int
                              /\ s[i].start < s[i].end
    BY <2>1, <2>2, <2>4, ListFields DEF NonEmpty
  <2>6. \A i, j \in 1..(n + 1) : i < j => s[i].start <= s[j].start
    BY <2>1, <2>4 DEF Ordered
  <2> HIDE DEF rest, n
  <2>7. PICK f \in [0..n -> Counts] :
          /\ f[0] = first /\ f[n] = result
          /\ \A i \in 1..n : f[i] = Count(f[i - 1], rest[i])
    <3>0. rest \in Seq(Spans)  BY <2>4
    <3> DEFINE h == Head(s)
    <3>1. h \in Spans  BY <2>4
    <3> HIDE DEF h
    <3>2. \E f \in [0..Len(rest) -> Counts] :
            /\ f[0] = [total |-> 0, current |-> h]
            /\ f[Len(rest)] = Counted(h, rest)
            /\ \A i \in 1..Len(rest) : f[i] = Count(f[i - 1], rest[i])
      BY <3>0, <3>1, CountLoop
    <3> QED  BY <3>2 DEF n, h
  <2> HIDE DEF result
  <2> DEFINE seen(i, m) == \E j \in 1..(i + 1) : CoversIt(s[j], m)
             before(i, a) == {m \in Int : m < a /\ seen(i, m)}
             Good(i) == LET a == f[i].current.start  b == f[i].current.end IN
               /\ a < b
               /\ \E j \in 1..(i + 1) : a = s[j].start
               /\ \A m \in Int : a <= m => (seen(i, m) <=> m < b)
               /\ IsFiniteSet(before(i, a)) /\ Cardinality(before(i, a)) = f[i].total
             T == {i \in 0..n : Good(i)}
  <2>8. \A i \in 0..n : /\ f[i].total \in Int /\ f[i].current \in Spans
                        /\ f[i].current.start \in Int /\ f[i].current.end \in Int
    BY <2>7, SpanFields DEF Counts
  <2>9. 0 \in T
    <3>1. f[0].current = s[1] /\ f[0].total = 0  BY <2>4, <2>7
    <3>2. 1 \in 1..(n + 1) /\ 1..(0 + 1) = {1}  BY <2>4
    <3>3. \A m : seen(0, m) <=> CoversIt(s[1], m)  BY <3>2
    <3>4. before(0, s[1].start) = {}  BY <2>5, <3>2, <3>3 DEF CoversIt
    <3>5. \A m \in Int : s[1].start <= m => (seen(0, m) <=> m < s[1].end)
      BY <3>3 DEF CoversIt
    <3> HIDE DEF seen, before
    <3>6. Good(0)  BY <2>5, <3>1, <3>2, <3>4, <3>5, FS_EmptySet
    <3> HIDE DEF Good
    <3> QED  BY <2>4, <3>6
  <2>10. ASSUME NEW i \in 0..n, i \in T, i + 1 \in 0..n PROVE i + 1 \in T
    <3> DEFINE k == i + 1  x == s[k + 1]  a == f[i].current.start  b == f[i].current.end
    <3>1. k \in 1..n /\ k - 1 = i /\ k + 1 \in 1..(n + 1) /\ 1..(k + 1) = (1..(i + 1)) \cup {k + 1}
      BY <2>4, <2>10
    <3>2. f[k] = Count(f[i], x) /\ x \in Spans /\ f[i] \in Counts /\ x.start \in Int /\ x.end \in Int
          /\ x.start < x.end
      BY <2>4, <2>5, <2>7, <2>10, <3>1
    <3>3. a \in Int /\ b \in Int /\ f[i].total \in Int  BY <2>8
    <3>4. Good(i)  BY <2>10
    <3>5. a <= x.start
      <4>1. PICK j \in 1..(i + 1) : a = s[j].start  BY <3>4
      <4>2. j \in 1..(n + 1) /\ k + 1 \in 1..(n + 1) /\ j < k + 1  BY <2>4, <2>10
      <4>3. s[j].start <= s[k + 1].start  BY <2>6, <4>2
      <4> QED  BY <4>1, <4>3
    <3>6. \A m : seen(k, m) <=> seen(i, m) \/ CoversIt(x, m)  BY <3>1
    <3>7. CASE x.start <= b
      <4>1. /\ f[k].total = f[i].total /\ f[k].current.start = a
            /\ f[k].current.end = IF b >= x.end THEN b ELSE x.end
        BY <3>2, <3>7, CountValue
      <4>2. before(k, a) = before(i, a)  BY <3>2, <3>3, <3>5, <3>6 DEF CoversIt
      <4>3. \A m \in Int : a <= m => (seen(k, m) <=> m < f[k].current.end)
        <5> HIDE DEF k, x, a, b, seen
        <5>1. \A m \in Int : a <= m => (seen(i, m) <=> m < b)  BY <3>4 DEF a, b
        <5> QED  BY <3>2, <3>3, <3>5, <3>6, <3>7, <4>1, <5>1 DEF CoversIt
      <4>4. \E j \in 1..(k + 1) : a = s[j].start  BY <3>1, <3>4
      <4>5. a < f[k].current.end  BY <3>2, <3>3, <3>4, <4>1
      <4>6. IsFiniteSet(before(i, a)) /\ Cardinality(before(i, a)) = f[i].total  BY <3>4
      <4> HIDE DEF seen, before, a
      <4>7. Good(k)  BY <4>1, <4>2, <4>3, <4>4, <4>5, <4>6
      <4> HIDE DEF Good
      <4> QED  BY <2>10, <4>7
    <3>8. CASE ~(x.start <= b)
      <4>1. f[k].total = f[i].total + (b - a) /\ f[k].current = x
        BY <3>2, <3>8, CountValue
      <4>2. before(k, x.start) = before(i, a) \cup a..(b - 1)
        <5>1. ASSUME NEW m \in Int
              PROVE  m \in before(k, x.start) <=> m \in before(i, a) \/ m \in a..(b - 1)
          <6>1. m < x.start => ~CoversIt(x, m)  BY <3>2 DEF CoversIt
          <6>2. a <= m => (seen(i, m) <=> m < b)  BY <3>4
          <6> HIDE DEF a, b, x, k, seen
          <6> QED  BY <3>2, <3>3, <3>5, <3>6, <3>8, <6>1, <6>2
        <5>2. before(k, x.start) \subseteq Int /\ before(i, a) \subseteq Int /\ a..(b - 1) \subseteq Int
          BY <3>3
        <5> QED  BY <5>1, <5>2
      <4>3. before(i, a) \cap a..(b - 1) = {}  BY <3>3
      <4>4. IsFiniteSet(before(i, a)) /\ Cardinality(before(i, a)) = f[i].total /\ a < b
        BY <3>4
      <4>6. /\ IsFiniteSet(before(k, x.start))
            /\ Cardinality(before(k, x.start)) = f[k].total
        <5> HIDE DEF before, a, b, k
        <5> QED  BY <3>3, <4>1, <4>2, <4>3, <4>4, CountBeside
      <4>7. \A m \in Int : x.start <= m => (seen(k, m) <=> m < x.end)
        <5>1. \A m \in Int : x.start <= m => (CoversIt(x, m) <=> m < x.end) BY DEF CoversIt
        <5>2. \A m \in Int : a <= m => (seen(i, m) <=> m < b)  BY <3>4
        <5> HIDE DEF a, b, x, k, seen
        <5> QED  BY <3>2, <3>3, <3>5, <3>6, <3>8, <5>1, <5>2
      <4>8. \E j \in 1..(k + 1) : x.start = s[j].start  BY <3>1
      <4> HIDE DEF seen, before, x
      <4>9. Good(k)  BY <3>2, <4>1, <4>6, <4>7, <4>8
      <4> HIDE DEF Good
      <4> QED  BY <2>10, <4>9
    <3> QED  BY <3>7, <3>8
  <2> HIDE DEF T
  <2>11. n \in T
    <3>1. \A i \in 0..n : i \in T  BY <2>4, <2>9, <2>10, RangeInduction
    <3> QED  BY <2>4, <3>1
  <2> DEFINE a == result.current.start  b == result.current.end
  <2>12. Good(n) /\ f[n] = result  BY <2>7, <2>11 DEF T
  <2>13. a \in Int /\ b \in Int /\ result.total \in Int
    <3>1. n \in 0..n  BY <2>4
    <3> QED  BY <2>8, <2>12, <3>1
  <2>14. Minutes(list) = before(n, a) \cup a..(b - 1)
    <3>1. \A m : seen(n, m) <=> Covered(s, m)  BY <2>4 DEF Covered
    <3>2. \A m \in Int : m \in Minutes(list) <=> seen(n, m)
      BY <2>1, <3>1, CoveredIsMinutes
    <3>3. Minutes(list) \subseteq Int  BY CoveredIsMinutes
    <3>4. \A m \in Int : a <= m => (seen(n, m) <=> m < b)  BY <2>12
    <3> HIDE DEF seen, a, b
    <3>5. \A m \in Int : m \in before(n, a) \cup a..(b - 1) <=> seen(n, m)
      BY <2>13, <3>4
    <3>6. before(n, a) \cup a..(b - 1) \subseteq Int  BY <2>13
    <3> QED  BY <3>2, <3>3, <3>5, <3>6
  <2>15. before(n, a) \cap a..(b - 1) = {}  BY <2>13
  <2>16. IsFiniteSet(before(n, a)) /\ Cardinality(before(n, a)) = result.total /\ a < b
    BY <2>12
  <2>18. IsFiniteSet(Minutes(list)) /\ Cardinality(Minutes(list)) = result.total + (b - a)
    <3> HIDE DEF before, a, b
    <3>1. /\ IsFiniteSet(before(n, a) \cup a..(b - 1))
          /\ Cardinality(before(n, a) \cup a..(b - 1)) = Cardinality(before(n, a)) + (b - a)
      BY <2>13, <2>15, <2>16, CountBeside
    <3> QED  BY <2>14, <2>16, <3>1
  <2>19. Max({0, result.total + b - a}) = result.total + (b - a)
    <3> DEFINE c == result.total + b - a
    <3>1. c \in Int /\ c = result.total + (b - a)  BY <2>13
    <3>2. c \in Nat  BY <2>18, <3>1, FS_CardinalityType
    <3> HIDE DEF c
    <3>3. Max({0, c}) = c  BY <3>2, MaxOfTwo
    <3> QED  BY <3>1, <3>3 DEF c
  <2> QED  BY <2>3, <2>18, <2>19
<1> QED  BY <1>1, <1>2

-----------------------------------------------------------------------------
(* _subtract_intervals *)

\* What a list covers after an append.
LEMMA AppendCovers ==
  ASSUME NEW s \in Seq(Spans), NEW x \in Spans
  PROVE  /\ Append(s, x) \in Seq(Spans)
         /\ \A m : Covered(Append(s, x), m) <=> Covered(s, m) \/ CoversIt(x, m)
         /\ NonEmpty(s) /\ x.start < x.end => NonEmpty(Append(s, x))
<1> DEFINE u == Append(s, x)  n == Len(s)
<1>1. /\ u \in Seq(Spans) /\ DOMAIN u = 1..(n + 1) /\ n \in Nat /\ DOMAIN s = 1..n
      /\ \A i \in 1..n : u[i] = s[i]
      /\ u[n + 1] = x
  OBVIOUS
<1> HIDE DEF u, n
<1>2. 1..(n + 1) = (1..n) \cup {n + 1}  BY <1>1
<1>3. \A m : Covered(u, m) <=> Covered(s, m) \/ CoversIt(x, m)  BY <1>1, <1>2 DEF Covered
<1>4. NonEmpty(s) /\ x.start < x.end => NonEmpty(u)  BY <1>1, <1>2 DEF NonEmpty
<1> QED  BY <1>1, <1>3, <1>4 DEF u

\* What two lists cover together.
LEMMA ConcatCovers ==
  ASSUME NEW s \in Seq(Spans), NEW t \in Seq(Spans)
  PROVE  /\ s \o t \in Seq(Spans)
         /\ \A m : Covered(s \o t, m) <=> Covered(s, m) \/ Covered(t, m)
         /\ NonEmpty(s) /\ NonEmpty(t) => NonEmpty(s \o t)
<1> DEFINE u == s \o t  n == Len(s)  k == Len(t)
<1>1. /\ u \in Seq(Spans) /\ Len(u) = n + k
      /\ \A i \in 1..(n + k) : u[i] = IF i <= n THEN s[i] ELSE t[i - n]
  BY ConcatProperties
<1>2. n \in Nat /\ k \in Nat /\ DOMAIN s = 1..n /\ DOMAIN t = 1..k /\ DOMAIN u = 1..(n + k)
  BY <1>1
<1> HIDE DEF u, n, k
<1>3. \A i \in 1..n : i \in DOMAIN u /\ u[i] = s[i]  BY <1>1, <1>2
<1>4. \A i \in 1..k : i + n \in DOMAIN u /\ u[i + n] = t[i]
  <2> SUFFICES ASSUME NEW i \in 1..k PROVE i + n \in DOMAIN u /\ u[i + n] = t[i]  OBVIOUS
  <2>1. i + n \in 1..(n + k) /\ ~(i + n <= n) /\ (i + n) - n = i  BY <1>2
  <2> QED  BY <1>1, <1>2, <2>1
<1>5. \A i \in DOMAIN u : \/ i \in 1..n /\ u[i] = s[i]
                          \/ i - n \in 1..k /\ u[i] = t[i - n]
  BY <1>1, <1>2
<1>6. \A m : Covered(u, m) <=> Covered(s, m) \/ Covered(t, m)
  BY <1>2, <1>3, <1>4, <1>5 DEF Covered
<1>7. NonEmpty(s) /\ NonEmpty(t) => NonEmpty(u)
  BY <1>2, <1>5 DEF NonEmpty
<1> QED  BY <1>1, <1>6, <1>7 DEF u

\* The cases of one blocker.
LEMMA BlockValue ==
  ASSUME NEW x \in Spans, NEW st \in Cuts, NEW b \in Spans
  PROVE  \/ (st.broken \/ b.end <= st.cursor) /\ Block(x, st, b) = st
         \/ /\ ~st.broken /\ st.cursor < b.end /\ x.end <= b.start
            /\ Block(x, st, b) \in Cuts
            /\ Block(x, st, b).broken /\ Block(x, st, b).cursor = st.cursor
            /\ Block(x, st, b).result = st.result
         \/ /\ ~st.broken /\ st.cursor < b.end /\ b.start < x.end
            /\ Block(x, st, b) \in Cuts
            /\ Block(x, st, b).broken = (b.end >= x.end)
            /\ Block(x, st, b).cursor = b.end
            /\ Block(x, st, b).result =
                 IF b.start > st.cursor THEN Append(st.result, Span(st.cursor, b.start))
                 ELSE st.result
<1>1. /\ x.start \in Int /\ x.end \in Int /\ b.start \in Int /\ b.end \in Int
      /\ st.cursor \in Int /\ st.broken \in BOOLEAN /\ st.result \in Seq(Spans)
  BY SpanFields DEF Cuts
<1>2. CASE st.broken \/ b.end <= st.cursor  BY <1>2 DEF Block
<1>3. CASE ~(st.broken \/ b.end <= st.cursor) /\ b.start >= x.end
  <2>1. Block(x, st, b) = [st EXCEPT !.broken = TRUE]  BY <1>3 DEF Block
  <2>2. ~st.broken /\ st.cursor < b.end /\ x.end <= b.start  BY <1>1, <1>3
  <2>3. /\ [st EXCEPT !.broken = TRUE] \in Cuts
        /\ [st EXCEPT !.broken = TRUE].broken = TRUE
        /\ [st EXCEPT !.broken = TRUE].cursor = st.cursor
        /\ [st EXCEPT !.broken = TRUE].result = st.result
    BY DEF Cuts
  <2> QED  BY <2>1, <2>2, <2>3
<1>4. CASE ~(st.broken \/ b.end <= st.cursor) /\ ~(b.start >= x.end)
  <2>1. ~st.broken /\ st.cursor < b.end /\ b.start < x.end  BY <1>1, <1>4
  <2>2. Max({st.cursor, b.end}) = b.end  BY <1>1, <2>1, MaxOfTwo
  <2>3. Min({b.start, x.end}) = b.start  BY <1>1, <2>1, MinOfTwo
  <2> DEFINE next == IF b.start > st.cursor THEN Append(st.result, Span(st.cursor, b.start))
                     ELSE st.result
  <2>4. Block(x, st, b) = [cursor |-> b.end, broken |-> b.end >= x.end, result |-> next]
    BY <1>4, <2>2, <2>3 DEF Block
  <2>5. next \in Seq(Spans)
    <3>1. Span(st.cursor, b.start) \in Spans  BY <1>1 DEF Span, Spans
    <3> QED  BY <1>1, <3>1
  <2>6. (b.end >= x.end) \in BOOLEAN  BY <1>1
  <2> HIDE DEF next
  <2>7. Block(x, st, b) \in Cuts  BY <1>1, <2>4, <2>5, <2>6 DEF Cuts
  <2> QED  BY <2>1, <2>4, <2>7 DEF next
<1> QED  BY <1>2, <1>3, <1>4

\* A round of the subtraction keeps the type of its state.
LEMMA BlockCloses ==
  ASSUME NEW x \in Spans, NEW st \in Cuts, NEW b \in Spans
  PROVE  Block(x, st, b) \in Cuts
BY BlockValue

\* The states of the inner loop of the subtraction.
LEMMA CutLoop ==
  ASSUME NEW x \in Spans, NEW blockers \in Seq(Spans)
  PROVE  \E f \in [0..Len(blockers) -> Cuts] :
           /\ f[0] = [cursor |-> x.start, broken |-> FALSE, result |-> <<>>] /\ f[Len(blockers)] = Cut(x, blockers)
           /\ \A i \in 1..Len(blockers) : f[i] = Block(x, f[i - 1], blockers[i])
<1> DEFINE n == Len(blockers)
           step == [p \in Cuts \X (1..n) |-> Block(x, p[1], blockers[p[2]])]
           g == CHOOSE g : g = [i \in 0..n |-> IF i = 0 THEN [cursor |-> x.start, broken |-> FALSE, result |-> <<>>] ELSE Block(x, g[i - 1], blockers[i])]
<1>1. n \in Nat /\ \A i \in 1..n : blockers[i] \in Spans  BY ListFields
<1>2. [cursor |-> x.start, broken |-> FALSE, result |-> <<>>] \in Cuts  BY SpanFields DEF Cuts
<1>3. step \in [Cuts \X (1..n) -> Cuts]
  <2>1. ASSUME NEW p \in Cuts \X (1..n) PROVE Block(x, p[1], blockers[p[2]]) \in Cuts
    <3>1. p[1] \in Cuts /\ blockers[p[2]] \in Spans  BY <1>1
    <3> QED  BY <3>1, BlockCloses
  <2> QED  BY <2>1
<1> HIDE DEF n, step, g
<1>4. PICK f \in [0..n -> Cuts] :
        f[0] = [cursor |-> x.start, broken |-> FALSE, result |-> <<>>] /\ \A i \in 1..n : f[i] = step[<<f[i - 1], i>>]
  <2>1. \E f \in [0..n -> Cuts] : Runs(f, [cursor |-> x.start, broken |-> FALSE, result |-> <<>>], step, n)
    BY <1>1, <1>2, <1>3, LoopWitness
  <2> QED  BY <2>1 DEF Runs
<1>5. ASSUME NEW i \in 1..n PROVE f[i] = Block(x, f[i - 1], blockers[i])
  <2>1. i \in 0..n /\ i - 1 \in 0..n  BY <1>1
  <2>2. <<f[i - 1], i>> \in Cuts \X (1..n)  BY <2>1
  <2> QED  BY <1>4, <2>1, <2>2 DEF step
<1>6. f = [i \in 0..n |-> IF i = 0 THEN [cursor |-> x.start, broken |-> FALSE, result |-> <<>>] ELSE Block(x, f[i - 1], blockers[i])]
  <2>1. \A i \in 0..n : i # 0 => i \in 1..n  BY <1>1
  <2> QED  BY <1>4, <1>5, <2>1
<1>7. g = [i \in 0..n |-> IF i = 0 THEN [cursor |-> x.start, broken |-> FALSE, result |-> <<>>] ELSE Block(x, g[i - 1], blockers[i])]  BY <1>6 DEF g
<1>8. g[0] = [cursor |-> x.start, broken |-> FALSE, result |-> <<>>] /\ \A i \in 1..n : g[i] = Block(x, g[i - 1], blockers[i])
  <2>1. 0 \in 0..n /\ \A i \in 1..n : i \in 0..n /\ i # 0  BY <1>1
  <2> QED  BY <1>7, <2>1
<1>9. \A i \in 0..n : f[i] = g[i]
  <2>1. \A i \in 1..n : f[i - 1] = g[i - 1] => f[i] = g[i]  BY <1>5, <1>8
  <2>2. f[0] = g[0]  BY <1>4, <1>8
  <2> QED  BY <1>1, <2>1, <2>2, LoopUnique
<1>10. Cut(x, blockers) = g[n]  BY DEF Cut, Loop, n, g
<1>11. f[n] = Cut(x, blockers)  BY <1>1, <1>9, <1>10
<1> QED  BY <1>4, <1>5, <1>11 DEF n

\* What a blocker adds to the minutes that are taken, and the rounds before.
LEMMA RemainderCorrect ==
  ASSUME NEW x \in Spans, NEW B \in MergedLists
  PROVE  /\ Remainder(x, B) \in Seq(Spans) /\ NonEmpty(Remainder(x, B))
         /\ \A m \in Int : Covered(Remainder(x, B), m) <=> CoversIt(x, m) /\ ~Covered(B, m)
<1> DEFINE n == Len(B)
<1>1. x.start \in Int /\ x.end \in Int  BY SpanFields
<1>2. /\ B \in Seq(Spans) /\ n \in Nat /\ DOMAIN B = 1..n
      /\ \A i \in 1..n : /\ B[i] \in Spans /\ B[i].start \in Int /\ B[i].end \in Int
                         /\ B[i].start < B[i].end
      /\ \A i, j \in 1..n : i < j => B[i].end < B[j].start
  BY MergedFields
<1>3. PICK f \in [0..n -> Cuts] :
        /\ f[0] = [cursor |-> x.start, broken |-> FALSE, result |-> <<>>]
        /\ f[n] = Cut(x, B)
        /\ \A i \in 1..n : f[i] = Block(x, f[i - 1], B[i])
  BY <1>2, CutLoop
<1> HIDE DEF n
<1> DEFINE taken(i, m) == \E j \in 1..n : (f[i].broken \/ j <= i) /\ CoversIt(B[j], m)
           Kept(i, m) == CoversIt(x, m) /\ m < f[i].cursor /\ ~taken(i, m)
           Stands(i) == /\ x.start <= f[i].cursor
                        /\ f[i].cursor = x.start \/ \E j \in 1..n : j <= i /\ f[i].cursor = B[j].end
           Good(i) == /\ Stands(i)
                      /\ NonEmpty(f[i].result)
                      /\ \A m \in Int : Covered(f[i].result, m) <=> Kept(i, m)
                      /\ \A m \in Int : CoversIt(x, m) /\ f[i].cursor <= m => ~taken(i, m)
           T == {i \in 0..n : Good(i)}
<1>4. \A i \in 0..n : /\ f[i].cursor \in Int /\ f[i].broken \in BOOLEAN
                      /\ f[i].result \in Seq(Spans)
  BY <1>3 DEF Cuts
<1>5. 0 \in T
  <2>1. /\ f[0].cursor = x.start /\ f[0].broken = FALSE /\ f[0].result = <<>>
    BY <1>3
  <2>2. \A j \in 1..n : ~(j <= 0)  BY <1>2
  <2>3. \A m : ~taken(0, m)  BY <2>1, <2>2
  <2>4. \A m \in Int : ~Kept(0, m)  BY <1>1, <2>1 DEF CoversIt
  <2>5. NonEmpty(f[0].result) /\ \A m : ~Covered(f[0].result, m)
    <3>1. DOMAIN <<>> = {}  OBVIOUS
    <3> QED  BY <2>1, <3>1 DEF NonEmpty, Covered
  <2>6. Stands(0)  BY <1>1, <2>1
  <2> HIDE DEF taken, Kept, Stands
  <2>7. Good(0)  BY <2>3, <2>4, <2>5, <2>6
  <2> HIDE DEF Good
  <2> QED  BY <1>2, <2>7
<1>6. ASSUME NEW i \in 0..n, i \in T, i + 1 \in 0..n PROVE i + 1 \in T
  <2> DEFINE k == i + 1  st == f[i]  b == B[k]
  <2>1. k \in 1..n /\ k - 1 = i /\ \A j \in 1..n : j <= k <=> j <= i \/ j = k
    BY <1>2, <1>6
  <2>2. f[k] = Block(x, st, b) /\ st \in Cuts /\ b \in Spans
    BY <1>2, <1>3, <2>1
  <2>3. /\ b.start \in Int /\ b.end \in Int /\ b.start < b.end
        /\ st.cursor \in Int /\ st.broken \in BOOLEAN /\ st.result \in Seq(Spans)
    BY <1>2, <1>4, <2>1
  <2>4. Good(i)  BY <1>6
  <2>5. st.cursor = x.start \/ st.cursor < b.start
    <3>1. \A j \in 1..n : j <= i => B[j].end < b.start  BY <1>2, <2>1
    <3> QED  BY <2>4, <3>1
  <2>6. \A m \in Int : CoversIt(x, m) /\ m < st.cursor => ~CoversIt(b, m)
    <3> HIDE DEF b, st
    <3> QED  BY <1>1, <2>3, <2>5 DEF CoversIt
  \* Blockers after b start after it ends.
  <2>7. \A j \in 1..n : j = k \/ j <= i \/ b.end < B[j].start
    <3> SUFFICES ASSUME NEW j \in 1..n, j # k, ~(j <= i) PROVE b.end < B[j].start  OBVIOUS
    <3>1. k < j  BY <1>2, <2>1
    <3> QED  BY <1>2, <2>1, <3>1
  <2>8. ASSUME st.broken \/ b.end <= st.cursor, f[k] = st PROVE Good(k)
    <3>1. \A m \in Int : CoversIt(x, m) => (taken(k, m) <=> taken(i, m))
      <4>1. CASE st.broken  BY <2>8, <4>1
      <4>2. CASE ~st.broken /\ b.end <= st.cursor
        <5>1. \A m : taken(k, m) <=> taken(i, m) \/ CoversIt(b, m)  BY <2>1, <2>8, <4>2
        <5>2. \A m \in Int : CoversIt(x, m) => ~CoversIt(b, m)
          <6>1. \A m \in Int : ~(m < st.cursor) => ~CoversIt(b, m)
            <7> HIDE DEF b, st
            <7> QED  BY <2>3, <4>2 DEF CoversIt
          <6> QED  BY <2>6, <6>1
        <5> QED  BY <5>1, <5>2
      <4> QED  BY <2>8, <4>1, <4>2
    <3>2. Stands(k)  BY <2>1, <2>4, <2>8
    <3>3. f[k].cursor = f[i].cursor /\ f[k].result = f[i].result  BY <2>8
    <3> HIDE DEF taken, Stands, k, st, b
    <3> QED  BY <2>4, <3>1, <3>2, <3>3
  <2>9. ASSUME ~st.broken, st.cursor < b.end, x.end <= b.start,
               f[k].broken, f[k].cursor = st.cursor, f[k].result = st.result
        PROVE  Good(k)
    <3>1. \A m \in Int : CoversIt(x, m) => (taken(k, m) <=> taken(i, m))
      <4> SUFFICES ASSUME NEW m \in Int, CoversIt(x, m) PROVE taken(k, m) <=> taken(i, m)
        OBVIOUS
      <4>1. m < b.start  BY <1>1, <2>3, <2>9 DEF CoversIt
      <4>2. \A j \in 1..n : j <= i \/ ~CoversIt(B[j], m)
        <5> SUFFICES ASSUME NEW j \in 1..n, ~(j <= i), CoversIt(B[j], m) PROVE FALSE
          OBVIOUS
        <5>1. b.start <= B[j].start /\ B[j].start \in Int  BY <1>2, <2>1, <2>3, <2>7
        <5> QED  BY <2>3, <4>1, <5>1 DEF CoversIt
      <4> QED  BY <2>9, <4>2
    <3>2. Stands(k)  BY <2>1, <2>4, <2>9
    <3> HIDE DEF taken, Stands
    <3> QED  BY <2>4, <2>9, <3>1, <3>2
  <2>10. ASSUME ~st.broken, st.cursor < b.end, b.start < x.end,
                f[k].broken = (b.end >= x.end), f[k].cursor = b.end,
                f[k].result = IF b.start > st.cursor
                                THEN Append(st.result, Span(st.cursor, b.start)) ELSE st.result
         PROVE  Good(k)
    <3>1. \A m \in Int : CoversIt(x, m) => (taken(k, m) <=> taken(i, m) \/ CoversIt(b, m))
      <4> SUFFICES ASSUME NEW m \in Int, CoversIt(x, m)
                   PROVE  taken(k, m) <=> taken(i, m) \/ CoversIt(b, m)
        OBVIOUS
      <4>1. m < x.end  BY DEF CoversIt
      <4>2. b.end >= x.end => \A j \in 1..n : j = k \/ j <= i \/ ~CoversIt(B[j], m)
        <5> SUFFICES ASSUME b.end >= x.end, NEW j \in 1..n, j # k, ~(j <= i), CoversIt(B[j], m)
                     PROVE  FALSE
          OBVIOUS
        <5>1. b.end < B[j].start /\ B[j].start \in Int  BY <1>2, <2>7
        <5> QED  BY <1>1, <2>3, <4>1, <5>1 DEF CoversIt
      <4> QED  BY <2>1, <2>10, <4>2
    <3>2. Stands(k)
      <4>1. x.start <= b.end
        <5>1. x.start <= st.cursor  BY <2>4
        <5> HIDE DEF st, b
        <5> QED  BY <1>1, <2>3, <2>10, <5>1
      <4> QED  BY <2>1, <2>10, <4>1
    <3>3. /\ NonEmpty(st.result) /\ x.start <= st.cursor
          /\ \A m \in Int : Covered(st.result, m)
                              <=> CoversIt(x, m) /\ m < st.cursor /\ ~taken(i, m)
          /\ \A m \in Int : CoversIt(x, m) /\ st.cursor <= m => ~taken(i, m)
      BY <2>4
    <3>4. \A m \in Int : CoversIt(x, m) /\ b.end <= m => ~taken(k, m)
      <4> HIDE DEF taken, b, st, k
      <4> QED  BY <1>1, <2>3, <2>10, <3>1, <3>3 DEF CoversIt
    <3>5. CASE b.start > st.cursor
      <4> DEFINE piece == Span(st.cursor, b.start)
      <4>1. piece \in Spans /\ piece.start = st.cursor /\ piece.end = b.start
        BY <2>3 DEF Span, Spans
      <4> HIDE DEF piece
      <4>2. /\ NonEmpty(f[k].result)
            /\ \A m : Covered(f[k].result, m) <=> Covered(st.result, m) \/ CoversIt(piece, m)
        <5>1. f[k].result = Append(st.result, piece)  BY <2>10, <3>5 DEF piece
        <5>2. piece.start < piece.end  BY <2>3, <3>5, <4>1
        <5> QED  BY <2>3, <3>3, <4>1, <5>1, <5>2, AppendCovers
      <4>3. \A m \in Int : Covered(f[k].result, m) <=> Kept(k, m)
        <5> SUFFICES ASSUME NEW m \in Int PROVE Covered(f[k].result, m) <=> Kept(k, m)
          OBVIOUS
        <5>1. Kept(k, m) <=> CoversIt(x, m) /\ m < b.end /\ ~taken(i, m) /\ ~CoversIt(b, m)
          BY <2>10, <3>1
        <5> HIDE DEF taken, Kept, b, st, k
        <5>2. Covered(f[k].result, m) <=> \/ CoversIt(x, m) /\ m < st.cursor /\ ~taken(i, m)
                                          \/ st.cursor <= m /\ m < b.start
          BY <3>3, <4>1, <4>2 DEF CoversIt
        <5>3. CASE m < st.cursor
          BY <1>1, <2>3, <2>6, <2>10, <5>1, <5>2, <5>3
        <5>4. CASE ~(m < st.cursor)
          BY <1>1, <2>3, <2>10, <3>3, <5>1, <5>2, <5>4 DEF CoversIt
        <5> QED  BY <5>3, <5>4
      <4> HIDE DEF taken, Kept, Stands
      <4> QED  BY <2>10, <3>2, <3>4, <4>2, <4>3
    <3>6. CASE ~(b.start > st.cursor)
      <4>1. st.cursor = x.start /\ b.start <= x.start /\ f[k].result = st.result
        <5>1. f[k].result = st.result  BY <2>10, <3>6
        <5> HIDE DEF b, st
        <5> QED  BY <1>1, <2>3, <2>5, <3>6, <5>1
      <4>2. \A m \in Int : Covered(f[k].result, m) <=> Kept(k, m)
        <5> SUFFICES ASSUME NEW m \in Int PROVE Covered(f[k].result, m) <=> Kept(k, m)
          OBVIOUS
        <5>1. Kept(k, m) => CoversIt(x, m) /\ m < b.end /\ ~CoversIt(b, m)
          BY <2>10, <3>1
        <5> HIDE DEF taken, Kept, b, st, k
        <5>2. ~Kept(k, m)  BY <1>1, <2>3, <4>1, <5>1 DEF CoversIt
        <5>3. ~Covered(f[k].result, m)  BY <1>1, <2>3, <3>3, <4>1 DEF CoversIt
        <5> QED  BY <5>2, <5>3
      <4> HIDE DEF taken, Kept, Stands
      <4> QED  BY <2>10, <3>2, <3>3, <3>4, <4>1, <4>2
    <3> QED  BY <3>5, <3>6
  <2>11. Good(k)
    <3> HIDE DEF Good, st, b, k
    <3> QED  BY <2>2, <2>8, <2>9, <2>10, BlockValue
  <2> HIDE DEF Good
  <2> QED  BY <1>6, <2>11
<1> HIDE DEF T
<1>7. n \in T
  <2>1. \A i \in 0..n : i \in T  BY <1>2, <1>5, <1>6, RangeInduction
  <2> QED  BY <1>2, <2>1
<1> DEFINE cut == Cut(x, B)
<1>8. /\ cut.cursor \in Int /\ cut.result \in Seq(Spans) /\ NonEmpty(cut.result)
      /\ x.start <= cut.cursor
      /\ \A m \in Int : Covered(cut.result, m)
                          <=> CoversIt(x, m) /\ m < cut.cursor /\ ~Covered(B, m)
      /\ \A m \in Int : CoversIt(x, m) /\ cut.cursor <= m => ~Covered(B, m)
  <2>1. \A m : taken(n, m) <=> Covered(B, m)
    <3>1. \A j \in 1..n : j <= n  BY <1>2
    <3> QED  BY <1>2, <3>1 DEF Covered
  <2>2. Good(n) /\ f[n] = cut /\ n \in 0..n  BY <1>2, <1>3, <1>7 DEF T
  <2>3. cut.cursor \in Int /\ cut.result \in Seq(Spans)  BY <1>4, <2>2
  <2> HIDE DEF taken, cut
  <2> QED  BY <2>1, <2>2, <2>3
<1> HIDE DEF cut
<1>9. CASE cut.cursor < x.end
  <2> DEFINE rest == Span(cut.cursor, x.end)
  <2>1. rest \in Spans /\ rest.start = cut.cursor /\ rest.end = x.end
    BY <1>1, <1>8 DEF Span, Spans
  <2> HIDE DEF rest
  <2>2. Remainder(x, B) = Append(cut.result, rest)  BY <1>9 DEF Remainder, rest, cut
  <2>3. /\ Remainder(x, B) \in Seq(Spans) /\ NonEmpty(Remainder(x, B))
        /\ \A m : Covered(Remainder(x, B), m) <=> Covered(cut.result, m) \/ CoversIt(rest, m)
    BY <1>8, <1>9, <2>1, <2>2, AppendCovers
  <2>4. ASSUME NEW m \in Int
        PROVE  Covered(Remainder(x, B), m) <=> CoversIt(x, m) /\ ~Covered(B, m)
    <3>1. CASE m < cut.cursor
      BY <1>1, <1>8, <2>1, <2>3, <3>1 DEF CoversIt
    <3>2. CASE ~(m < cut.cursor)
      BY <1>1, <1>8, <2>1, <2>3, <3>2 DEF CoversIt
    <3> QED  BY <3>1, <3>2
  <2> QED  BY <2>3, <2>4
<1>10. CASE ~(cut.cursor < x.end)
  <2>1. Remainder(x, B) = cut.result  BY <1>10 DEF Remainder, cut
  <2>2. \A m \in Int : CoversIt(x, m) => m < cut.cursor
    BY <1>1, <1>8, <1>10 DEF CoversIt
  <2> QED  BY <1>8, <2>1, <2>2
<1> QED  BY <1>9, <1>10

\* A round of the outer loop of the subtraction keeps the type of its state.
LEMMA RestCloses ==
  ASSUME NEW B \in MergedLists, NEW result \in Seq(Spans), NEW x \in Spans
  PROVE  result \o Remainder(x, B) \in Seq(Spans)
BY RemainderCorrect, ConcatCovers

\* The states of the outer loop of the subtraction.
LEMMA RestLoop ==
  ASSUME NEW list \in Seq(Spans), NEW B \in MergedLists
  PROVE  \E f \in [0..Len(list) -> Seq(Spans)] :
           /\ f[0] = <<>> /\ f[Len(list)] = Rest(list, B)
           /\ \A i \in 1..Len(list) : f[i] = f[i - 1] \o Remainder(list[i], B)
<1> DEFINE n == Len(list)
           step == [p \in Seq(Spans) \X (1..n) |-> p[1] \o Remainder(list[p[2]], B)]
           g == CHOOSE g : g = [i \in 0..n |-> IF i = 0 THEN <<>> ELSE g[i - 1] \o Remainder(list[i], B)]
<1>1. n \in Nat /\ \A i \in 1..n : list[i] \in Spans  BY ListFields
<1>2. <<>> \in Seq(Spans)  OBVIOUS
<1>3. step \in [Seq(Spans) \X (1..n) -> Seq(Spans)]
  <2>1. ASSUME NEW p \in Seq(Spans) \X (1..n) PROVE p[1] \o Remainder(list[p[2]], B) \in Seq(Spans)
    <3>1. p[1] \in Seq(Spans) /\ list[p[2]] \in Spans  BY <1>1
    <3> QED  BY <3>1, RestCloses
  <2> QED  BY <2>1
<1> HIDE DEF n, step, g
<1>4. PICK f \in [0..n -> Seq(Spans)] :
        f[0] = <<>> /\ \A i \in 1..n : f[i] = step[<<f[i - 1], i>>]
  <2>1. \E f \in [0..n -> Seq(Spans)] : Runs(f, <<>>, step, n)
    BY <1>1, <1>2, <1>3, LoopWitness
  <2> QED  BY <2>1 DEF Runs
<1>5. ASSUME NEW i \in 1..n PROVE f[i] = f[i - 1] \o Remainder(list[i], B)
  <2>1. i \in 0..n /\ i - 1 \in 0..n  BY <1>1
  <2>2. <<f[i - 1], i>> \in Seq(Spans) \X (1..n)  BY <2>1
  <2> QED  BY <1>4, <2>1, <2>2 DEF step
<1>6. f = [i \in 0..n |-> IF i = 0 THEN <<>> ELSE f[i - 1] \o Remainder(list[i], B)]
  <2>1. \A i \in 0..n : i # 0 => i \in 1..n  BY <1>1
  <2> QED  BY <1>4, <1>5, <2>1
<1>7. g = [i \in 0..n |-> IF i = 0 THEN <<>> ELSE g[i - 1] \o Remainder(list[i], B)]  BY <1>6 DEF g
<1>8. g[0] = <<>> /\ \A i \in 1..n : g[i] = g[i - 1] \o Remainder(list[i], B)
  <2>1. 0 \in 0..n /\ \A i \in 1..n : i \in 0..n /\ i # 0  BY <1>1
  <2> QED  BY <1>7, <2>1
<1>9. \A i \in 0..n : f[i] = g[i]
  <2>1. \A i \in 1..n : f[i - 1] = g[i - 1] => f[i] = g[i]  BY <1>5, <1>8
  <2>2. f[0] = g[0]  BY <1>4, <1>8
  <2> QED  BY <1>1, <2>1, <2>2, LoopUnique
<1>10. Rest(list, B) = g[n]  BY DEF Rest, Loop, n, g
<1>11. f[n] = Rest(list, B)  BY <1>1, <1>9, <1>10
<1> QED  BY <1>4, <1>5, <1>11 DEF n


\* Subtracting leaves the minutes of the list that no blocker covers.
LEMMA SubtractCorrect ==
  ASSUME NEW list \in Seq(Spans), NEW blockers \in Seq(Spans)
  PROVE  LET rest == SubtractIntervals(list, blockers) IN
         /\ rest \in Seq(Spans) /\ NonEmpty(rest)
         /\ \A m \in Int : Covered(rest, m) <=> Covered(list, m) /\ ~Covered(blockers, m)
<1> DEFINE B == MergeIntervals(blockers)  n == Len(list)
           rest == SubtractIntervals(list, blockers)
<1>1. B \in MergedLists /\ \A m \in Int : Covered(B, m) <=> Covered(blockers, m)
  BY MergeCorrect
<1>2. rest = Rest(list, B)
  BY DEF SubtractIntervals
<1> HIDE DEF B, rest
<1>3. n \in Nat /\ DOMAIN list = 1..n /\ \A i \in 1..n : list[i] \in Spans  BY ListFields
<1>4. PICK f \in [0..n -> Seq(Spans)] :
        /\ f[0] = <<>> /\ f[n] = rest
        /\ \A i \in 1..n : f[i] = f[i - 1] \o Remainder(list[i], B)
  <2>1. PICK f \in [0..n -> Seq(Spans)] :
          /\ f[0] = <<>>
          /\ f[n] = Rest(list, B)
          /\ \A i \in 1..n : f[i] = f[i - 1] \o Remainder(list[i], B)
    BY <1>1, RestLoop
  <2> QED  BY <1>2, <2>1
<1> HIDE DEF n
<1> DEFINE seen(i, m) == \E j \in 1..n : j <= i /\ CoversIt(list[j], m)
           Good(i) == /\ NonEmpty(f[i])
                      /\ \A m \in Int : Covered(f[i], m) <=> seen(i, m) /\ ~Covered(B, m)
           T == {i \in 0..n : Good(i)}
<1>5. 0 \in T
  <2>1. NonEmpty(f[0]) /\ \A m : ~Covered(f[0], m)
    <3>1. DOMAIN <<>> = {}  OBVIOUS
    <3> QED  BY <1>4, <3>1 DEF NonEmpty, Covered
  <2>2. \A m : ~seen(0, m)  BY <1>3
  <2>3. Good(0)  BY <2>1, <2>2
  <2> HIDE DEF Good
  <2> QED  BY <1>3, <2>3
<1>6. ASSUME NEW i \in 0..n, i \in T, i + 1 \in 0..n PROVE i + 1 \in T
  <2> DEFINE k == i + 1  x == list[k]
  <2>1. k \in 1..n /\ k - 1 = i /\ \A j \in 1..n : j <= k <=> j <= i \/ j = k
    BY <1>3, <1>6
  <2>2. Good(i)  BY <1>6
  <2>3. f[k] = f[i] \o Remainder(x, B) /\ f[i] \in Seq(Spans) /\ x \in Spans
    BY <1>3, <1>4, <2>1
  <2>4. /\ NonEmpty(f[k])
        /\ \A m \in Int : Covered(f[k], m)
             <=> Covered(f[i], m) \/ (CoversIt(x, m) /\ ~Covered(B, m))
    <3> DEFINE r == Remainder(x, B)
    <3>1. /\ r \in Seq(Spans) /\ NonEmpty(r)
          /\ \A m \in Int : Covered(r, m) <=> CoversIt(x, m) /\ ~Covered(B, m)
      BY <1>1, <2>3, RemainderCorrect
    <3>2. f[k] = f[i] \o r  BY <2>3
    <3>3. NonEmpty(f[i])  BY <2>2
    <3> HIDE DEF r, k
    <3> QED  BY <2>3, <3>1, <3>2, <3>3, ConcatCovers
  <2>5. \A m : seen(k, m) <=> seen(i, m) \/ CoversIt(x, m)  BY <2>1
  <2> HIDE DEF seen
  <2>6. Good(k)  BY <2>2, <2>4, <2>5
  <2> HIDE DEF Good
  <2> QED  BY <1>6, <2>6
<1> HIDE DEF T
<1>7. n \in T
  <2>1. \A i \in 0..n : i \in T  BY <1>3, <1>5, <1>6, RangeInduction
  <2> QED  BY <1>3, <2>1
<1>8. Good(n) /\ rest \in Seq(Spans)  BY <1>3, <1>4, <1>7 DEF T
<1>9. \A m : seen(n, m) <=> Covered(list, m)
  <2>1. \A j \in 1..n : j <= n  BY <1>3
  <2> QED  BY <1>3, <2>1 DEF Covered
<1> HIDE DEF seen
<1> QED  BY <1>1, <1>4, <1>8, <1>9 DEF rest

-----------------------------------------------------------------------------
(* The rows of a report, clipped to its window *)

\* The times of a stop.
LEMMA StopFields ==
  ASSUME NEW r \in Stop
  PROVE  r.start_at \in Int /\ r.end_at \in Int /\ r.start_at >= 0
BY RegisterConstants DEF Stop, Clock

\* The times of a shift.
LEMMA ShiftTimes ==
  ASSUME NEW sh \in Shifts
  PROVE  ShiftStart(sh) \in Int /\ ShiftEnd(sh) \in Int /\ ShiftStart(sh) >= 0
BY RegisterConstants DEF ShiftStart, ShiftEnd

\* The clipped span of a row.
LEMMA ClipValue ==
  ASSUME NEW chosen, NEW from \in Int, NEW to \in Int, NEW spans, NEW r \in Stop
  PROVE  \E x \in Spans :
           /\ \A m \in Int : CoversIt(x, m) <=> Covers(r, m) /\ from <= m /\ m < to
           /\ Clip(chosen, from, to, spans, r) =
                IF r \in chosen /\ x.start < x.end THEN Append(spans, x) ELSE spans
<1> DEFINE a == Max({r.start_at, from})  b == Min({r.end_at, to})  x == Span(a, b)
<1>1. r.start_at \in Int /\ r.end_at \in Int  BY StopFields
<1>2. /\ a = IF r.start_at >= from THEN r.start_at ELSE from
      /\ b = IF r.end_at <= to THEN r.end_at ELSE to
  BY <1>1, MaxOfTwo, MinOfTwo
<1>3. Clip(chosen, from, to, spans, r) =
        IF r \in chosen /\ x.start < x.end THEN Append(spans, x) ELSE spans
  BY DEF Clip
<1> HIDE DEF a, b
<1>4. x.start = a /\ x.end = b  BY DEF Span
<1>5. x \in Spans
  <2>1. a \in Int /\ b \in Int  BY <1>1, <1>2
  <2> QED  BY <2>1 DEF Span, Spans
<1> HIDE DEF x
<1>6. \A m \in Int : CoversIt(x, m) <=> Covers(r, m) /\ from <= m /\ m < to
  BY <1>1, <1>2, <1>4 DEF CoversIt, Covers
<1> QED  BY <1>3, <1>5, <1>6

\* A round of the loop over the rows keeps a list of spans.
LEMMA ClipCloses ==
  ASSUME NEW chosen, NEW from \in Int, NEW to \in Int, NEW spans \in Seq(Spans), NEW r \in Stop
  PROVE  Clip(chosen, from, to, spans, r) \in Seq(Spans)
<1>1. PICK x \in Spans :
        Clip(chosen, from, to, spans, r) =
          IF r \in chosen /\ x.start < x.end THEN Append(spans, x) ELSE spans
  BY ClipValue
<1> QED  BY <1>1

\* The states of the loop over the rows.
LEMMA ClipLoop ==
  ASSUME stops \in Seq(Stop), NEW chosen, NEW from \in Int, NEW to \in Int
  PROVE  \E f \in [0..Len(stops) -> Seq(Spans)] :
           /\ f[0] = <<>> /\ f[Len(stops)] = Clipped(chosen, from, to)
           /\ \A i \in 1..Len(stops) : f[i] = Clip(chosen, from, to, f[i - 1], stops[i])
<1> DEFINE n == Len(stops)
           step == [p \in Seq(Spans) \X (1..n) |-> Clip(chosen, from, to, p[1], stops[p[2]])]
           g == CHOOSE g : g = [i \in 0..n |-> IF i = 0 THEN <<>> ELSE Clip(chosen, from, to, g[i - 1], stops[i])]
<1>1. n \in Nat /\ \A i \in 1..n : stops[i] \in Stop  OBVIOUS
<1>2. <<>> \in Seq(Spans)  OBVIOUS
<1>3. step \in [Seq(Spans) \X (1..n) -> Seq(Spans)]
  <2>1. ASSUME NEW p \in Seq(Spans) \X (1..n) PROVE Clip(chosen, from, to, p[1], stops[p[2]]) \in Seq(Spans)
    <3>1. p[1] \in Seq(Spans) /\ stops[p[2]] \in Stop  BY <1>1
    <3> QED  BY <3>1, ClipCloses
  <2> QED  BY <2>1
<1> HIDE DEF n, step, g
<1>4. PICK f \in [0..n -> Seq(Spans)] :
        f[0] = <<>> /\ \A i \in 1..n : f[i] = step[<<f[i - 1], i>>]
  <2>1. \E f \in [0..n -> Seq(Spans)] : Runs(f, <<>>, step, n)
    BY <1>1, <1>2, <1>3, LoopWitness
  <2> QED  BY <2>1 DEF Runs
<1>5. ASSUME NEW i \in 1..n PROVE f[i] = Clip(chosen, from, to, f[i - 1], stops[i])
  <2>1. i \in 0..n /\ i - 1 \in 0..n  BY <1>1
  <2>2. <<f[i - 1], i>> \in Seq(Spans) \X (1..n)  BY <2>1
  <2> QED  BY <1>4, <2>1, <2>2 DEF step
<1>6. f = [i \in 0..n |-> IF i = 0 THEN <<>> ELSE Clip(chosen, from, to, f[i - 1], stops[i])]
  <2>1. \A i \in 0..n : i # 0 => i \in 1..n  BY <1>1
  <2> QED  BY <1>4, <1>5, <2>1
<1>7. g = [i \in 0..n |-> IF i = 0 THEN <<>> ELSE Clip(chosen, from, to, g[i - 1], stops[i])]  BY <1>6 DEF g
<1>8. g[0] = <<>> /\ \A i \in 1..n : g[i] = Clip(chosen, from, to, g[i - 1], stops[i])
  <2>1. 0 \in 0..n /\ \A i \in 1..n : i \in 0..n /\ i # 0  BY <1>1
  <2> QED  BY <1>7, <2>1
<1>9. \A i \in 0..n : f[i] = g[i]
  <2>1. \A i \in 1..n : f[i - 1] = g[i - 1] => f[i] = g[i]  BY <1>5, <1>8
  <2>2. f[0] = g[0]  BY <1>4, <1>8
  <2> QED  BY <1>1, <2>1, <2>2, LoopUnique
<1>10. Clipped(chosen, from, to) = g[n]  BY DEF Clipped, Loop, n, g
<1>11. f[n] = Clipped(chosen, from, to)  BY <1>1, <1>9, <1>10
<1> QED  BY <1>4, <1>5, <1>11 DEF n


\* The clipped rows cover the minutes of the window that a chosen row covers,
\* and none of them is empty.
LEMMA ClippedCorrect ==
  ASSUME stops \in Seq(Stop), NEW chosen, NEW from \in Int, NEW to \in Int
  PROVE  LET spans == Clipped(chosen, from, to) IN
         /\ spans \in Seq(Spans) /\ NonEmpty(spans)
         /\ \A m \in Int : Covered(spans, m) <=>
              \E i \in DOMAIN stops :
                stops[i] \in chosen /\ Covers(stops[i], m) /\ from <= m /\ m < to
<1> DEFINE n == Len(stops)  spans == Clipped(chosen, from, to)
<1>1. n \in Nat /\ DOMAIN stops = 1..n /\ \A i \in 1..n : stops[i] \in Stop  OBVIOUS
<1>2. PICK f \in [0..n -> Seq(Spans)] :
        /\ f[0] = <<>> /\ f[n] = spans
        /\ \A i \in 1..n : f[i] = Clip(chosen, from, to, f[i - 1], stops[i])
  BY ClipLoop
<1> HIDE DEF n, spans
<1> DEFINE Hit(j, m) == stops[j] \in chosen /\ Covers(stops[j], m) /\ from <= m /\ m < to
           seen(i, m) == \E j \in 1..n : j <= i /\ Hit(j, m)
           Good(i) == /\ NonEmpty(f[i])
                      /\ \A m \in Int : Covered(f[i], m) <=> seen(i, m)
           T == {i \in 0..n : Good(i)}
<1>3. 0 \in T
  <2>1. NonEmpty(f[0]) /\ \A m : ~Covered(f[0], m)
    <3>1. DOMAIN <<>> = {}  OBVIOUS
    <3> QED  BY <1>2, <3>1 DEF NonEmpty, Covered
  <2>2. \A m : ~seen(0, m)  BY <1>1
  <2>3. Good(0)  BY <2>1, <2>2
  <2> HIDE DEF Good
  <2> QED  BY <1>1, <2>3
<1>4. ASSUME NEW i \in 0..n, i \in T, i + 1 \in 0..n PROVE i + 1 \in T
  <2> DEFINE k == i + 1
  <2>1. k \in 1..n /\ k - 1 = i /\ \A j \in 1..n : j <= k <=> j <= i \/ j = k
    BY <1>1, <1>4
  <2>2. NonEmpty(f[i]) /\ \A m \in Int : Covered(f[i], m) <=> seen(i, m)  BY <1>4
  <2>3. f[k] = Clip(chosen, from, to, f[i], stops[k]) /\ f[i] \in Seq(Spans) /\ stops[k] \in Stop
    BY <1>1, <1>2, <2>1
  <2>4. PICK x \in Spans :
          /\ \A m \in Int : CoversIt(x, m) <=> Covers(stops[k], m) /\ from <= m /\ m < to
          /\ f[k] = IF stops[k] \in chosen /\ x.start < x.end THEN Append(f[i], x) ELSE f[i]
    <3> DEFINE r == stops[k]  s == f[i]
    <3>1. f[k] = Clip(chosen, from, to, s, r) /\ r \in Stop  BY <2>3
    <3> HIDE DEF r, s
    <3>2. \E x \in Spans :
            /\ \A m \in Int : CoversIt(x, m) <=> Covers(r, m) /\ from <= m /\ m < to
            /\ Clip(chosen, from, to, s, r) =
                 IF r \in chosen /\ x.start < x.end THEN Append(s, x) ELSE s
      BY <3>1, ClipValue
    <3> QED  BY <3>1, <3>2 DEF r, s
  <2>5. \A m : seen(k, m) <=> seen(i, m) \/ Hit(k, m)
    <3> HIDE DEF Hit, k
    <3> QED  BY <2>1
  <2>6. CASE stops[k] \in chosen /\ x.start < x.end
    <3>1. f[k] = Append(f[i], x)  BY <2>4, <2>6
    <3>2. NonEmpty(f[k]) /\ \A m : Covered(f[k], m) <=> Covered(f[i], m) \/ CoversIt(x, m)
      <4> HIDE DEF k
      <4> QED  BY <2>2, <2>3, <2>6, <3>1, AppendCovers
    <3>3. \A m \in Int : CoversIt(x, m) <=> Hit(k, m)  BY <2>4, <2>6
    <3> HIDE DEF seen, Hit
    <3>4. Good(k)  BY <2>2, <2>5, <3>2, <3>3
    <3> HIDE DEF Good
    <3> QED  BY <1>4, <3>4
  <2>7. CASE ~(stops[k] \in chosen /\ x.start < x.end)
    <3>1. f[k] = f[i]  BY <2>4, <2>7
    <3>2. \A m \in Int : ~Hit(k, m)
      <4>1. x.start \in Int /\ x.end \in Int  BY SpanFields
      <4>2. \A m \in Int : CoversIt(x, m) => x.start < x.end  BY <4>1 DEF CoversIt
      <4> QED  BY <2>4, <2>7, <4>2
    <3> HIDE DEF seen, Hit
    <3>3. Good(k)  BY <2>2, <2>5, <3>1, <3>2
    <3> HIDE DEF Good
    <3> QED  BY <1>4, <3>3
  <2> QED  BY <2>6, <2>7
<1> HIDE DEF T
<1>5. n \in T
  <2>1. \A i \in 0..n : i \in T  BY <1>1, <1>3, <1>4, RangeInduction
  <2> QED  BY <1>1, <2>1
<1>6. Good(n) /\ spans \in Seq(Spans)  BY <1>1, <1>2, <1>5 DEF T
<1>7. \A m : seen(n, m) <=> \E i \in DOMAIN stops : Hit(i, m)
  <2>1. \A j \in 1..n : j <= n  BY <1>1
  <2> HIDE DEF Hit
  <2> QED  BY <1>1, <2>1
<1> HIDE DEF seen
<1> QED  BY <1>2, <1>6, <1>7 DEF spans

-----------------------------------------------------------------------------
(* MergeIsUnion *)

\* In every reachable state the rows of a shift, in the order of the table,
\* merge into disjoint spans with the same minutes (production.py:44-56).  The
\* sort keeps the spans and orders their starts; with the starts in order, a
\* round of the merge either extends the last span, or starts one behind it.
THEOREM MergingIsUnion == Spec => []MergeIsUnion
<1>1. TypeOK => MergeIsUnion
  <2> SUFFICES ASSUME TypeOK, NEW sh \in Shifts
               PROVE  LET spans == Clipped(ToSet(stops), ShiftStart(sh), ShiftEnd(sh))
                          merged == MergeIntervals(spans)
                      IN  /\ Minutes(merged) = Minutes(spans)
                          /\ \A i \in 1..Len(merged) : merged[i].start < merged[i].end
                          /\ \A i \in 1..(Len(merged) - 1) : merged[i].end < merged[i + 1].start
    BY DEF MergeIsUnion
  <2> DEFINE spans == Clipped(ToSet(stops), ShiftStart(sh), ShiftEnd(sh))
             merged == MergeIntervals(spans)
  <2>1. ShiftStart(sh) \in Int /\ ShiftEnd(sh) \in Int /\ stops \in Seq(Stop)
    BY ShiftTimes DEF TypeOK
  <2>2. spans \in Seq(Spans)  BY <2>1, ClippedCorrect
  <2> HIDE DEF spans
  <2>3. /\ merged \in MergedLists
        /\ \A m \in Int : Covered(merged, m) <=> Covered(spans, m)
    BY <2>2, MergeCorrect
  <2> HIDE DEF merged
  <2>4. /\ merged \in Seq(Spans) /\ Len(merged) \in Nat
        /\ \A i \in 1..Len(merged) : merged[i].start < merged[i].end
        /\ \A i, j \in 1..Len(merged) : i < j => merged[i].end < merged[j].start
    BY <2>3, MergedFields
  <2>5. Minutes(merged) = Minutes(spans)
    <3>1. /\ Minutes(merged) \subseteq Int
          /\ \A m \in Int : m \in Minutes(merged) <=> Covered(merged, m)
      BY <2>4, CoveredIsMinutes
    <3>2. /\ Minutes(spans) \subseteq Int
          /\ \A m \in Int : m \in Minutes(spans) <=> Covered(spans, m)
      BY <2>2, CoveredIsMinutes
    <3> QED  BY <2>3, <3>1, <3>2
  <2>6. ASSUME NEW i \in 1..(Len(merged) - 1) PROVE merged[i].end < merged[i + 1].start
    <3>1. i \in 1..Len(merged) /\ i + 1 \in 1..Len(merged) /\ i < i + 1  BY <2>4
    <3> QED  BY <2>4, <3>1
  <2> QED  BY <2>4, <2>5, <2>6 DEF merged, spans
<1> QED  BY <1>1, TypeCorrect, PTL

-----------------------------------------------------------------------------
(* MinutesClassified *)

\* The minutes of the window during which a stop is in force, a planned one,
\* and one that counts as unavailability.
Down(sh, st, planned) == {m \in Window(sh, planned) : InForce(sh, st, m) # {}}
DownPlanned(sh, st, planned) == {m \in Window(sh, planned) :
  \E i \in InForce(sh, st, m) : IsPlannedStop[stops[i].type]}
DownUnplanned(sh, st, planned) == {m \in Window(sh, planned) :
  \E i \in InForce(sh, st, m) : IsUnplanned(stops[i])}

\* The window of a calendar row is as long as its planned time.
LEMMA WindowFacts ==
  ASSUME NEW sh \in Shifts, NEW planned \in PlannedTimes(sh)
  PROVE  /\ planned \in Nat /\ planned > 0
         /\ WindowEnd(sh, planned) = ShiftStart(sh) + planned
         /\ \A m : m \in Window(sh, planned) <=>
              m \in Int /\ ShiftStart(sh) <= m /\ m < ShiftStart(sh) + planned
         /\ IsFiniteSet(Window(sh, planned))
         /\ Cardinality(Window(sh, planned)) = planned
<1> DEFINE a == ShiftStart(sh)  b == ShiftEnd(sh)
<1>1. a \in Int /\ b \in Int  BY ShiftTimes
<1>2. planned \in 1..(b - a)  BY DEF PlannedTimes
<1> HIDE DEF a, b
<1>3. planned \in Nat /\ planned > 0 /\ a + planned <= b /\ a + planned \in Int
  BY <1>1, <1>2
<1>4. WindowEnd(sh, planned) = a + planned
  <2>1. WindowEnd(sh, planned) = Min({b, a + planned})  BY DEF WindowEnd, a, b
  <2>2. Min({b, a + planned}) = IF b <= a + planned THEN b ELSE a + planned
    BY <1>1, <1>3, MinOfTwo
  <2> QED  BY <1>1, <1>3, <2>1, <2>2
<1>5. Window(sh, planned) = a..(a + planned - 1)  BY DEF Window, a
<1>6. \A m : m \in Window(sh, planned) <=> m \in Int /\ a <= m /\ m < a + planned
  BY <1>1, <1>3, <1>5
<1>7. IsFiniteSet(Window(sh, planned)) /\ Cardinality(Window(sh, planned)) = planned
  <2> DEFINE c == a + planned - 1
  <2>1. c \in Int /\ ~(a > c) /\ c - a + 1 = planned  BY <1>1, <1>3
  <2> HIDE DEF c
  <2>2. IsFiniteSet(a..c) /\ Cardinality(a..c) = IF a > c THEN 0 ELSE c - a + 1
    BY <1>1, <2>1, FS_Interval
  <2> QED  BY <1>5, <2>1, <2>2 DEF c
<1> QED  BY <1>3, <1>4, <1>6, <1>7 DEF a

\* A list that covers the minutes of a set counts them.
LEMMA CountsTheSet ==
  ASSUME NEW list \in Seq(Spans), NonEmpty(list), NEW S \in SUBSET Int,
         \A m \in Int : Covered(list, m) <=> m \in S
  PROVE  IsFiniteSet(S) /\ MergedIntervalMinutes(list) = Cardinality(S)
<1>1. /\ Minutes(list) \subseteq Int
      /\ \A m \in Int : m \in Minutes(list) <=> Covered(list, m)
  BY CoveredIsMinutes
<1>2. Minutes(list) = S  BY <1>1
<1> QED  BY <1>2, MinutesCounted

\* The fetched rows of a kind, clipped to the window.
LEMMA ClippedWindow ==
  ASSUME TypeOK, NEW sh \in Shifts, NEW st \in Stations, NEW planned \in PlannedTimes(sh),
         NEW chosen \in SUBSET Fetched(sh, st, WindowEnd(sh, planned))
  PROVE  LET spans == Clipped(chosen, ShiftStart(sh), WindowEnd(sh, planned)) IN
         /\ spans \in Seq(Spans) /\ NonEmpty(spans)
         /\ \A m \in Int : Covered(spans, m) <=>
              /\ m \in Window(sh, planned)
              /\ \E i \in InForce(sh, st, m) : stops[i] \in chosen
<1> DEFINE a == ShiftStart(sh)  e == WindowEnd(sh, planned)  spans == Clipped(chosen, a, e)
<1>1. a \in Int /\ e \in Int /\ stops \in Seq(Stop)
      /\ \A m : m \in Window(sh, planned) <=> m \in Int /\ a <= m /\ m < e
  BY ShiftTimes, WindowFacts DEF TypeOK
<1>2. \A i \in DOMAIN stops : stops[i] \in chosen =>
        stops[i].shift = sh /\ (stops[i].machine = None \/ StationOf[stops[i].machine] = st)
  BY DEF Fetched
<1> HIDE DEF a, e
<1>3. /\ spans \in Seq(Spans) /\ NonEmpty(spans)
      /\ \A m \in Int : Covered(spans, m) <=>
           \E i \in DOMAIN stops : stops[i] \in chosen /\ Covers(stops[i], m) /\ a <= m /\ m < e
  BY <1>1, ClippedCorrect
<1> HIDE DEF spans
<1>4. \A m : \A i \in DOMAIN stops :
        stops[i] \in chosen => (i \in InForce(sh, st, m) <=> Covers(stops[i], m))
  BY <1>2 DEF InForce
<1>5. \A m : InForce(sh, st, m) \subseteq DOMAIN stops  BY DEF InForce
<1>6. \A m \in Int : Covered(spans, m) <=>
        m \in Window(sh, planned) /\ \E i \in InForce(sh, st, m) : stops[i] \in chosen
  BY <1>1, <1>3, <1>4, <1>5
<1> QED  BY <1>3, <1>6 DEF spans, a, e

\* A stop in force during the window is among the fetched rows.
LEMMA InForceFetched ==
  ASSUME TypeOK, NEW sh \in Shifts, NEW st \in Stations, NEW planned \in PlannedTimes(sh),
         NEW m \in Window(sh, planned), NEW i \in InForce(sh, st, m)
  PROVE  stops[i] \in Fetched(sh, st, WindowEnd(sh, planned)) /\ stops[i] \in Stop
<1> DEFINE a == ShiftStart(sh)  e == WindowEnd(sh, planned)  r == stops[i]
<1>1. a \in Int /\ e \in Int /\ m \in Int /\ a <= m /\ m < e
  BY ShiftTimes, WindowFacts
<1>2. i \in DOMAIN stops /\ r \in Stop /\ r \in ToSet(stops)
  BY DEF InForce, TypeOK, ToSet
<1>3. r.start_at <= m /\ m < r.end_at /\ r.start_at \in Int /\ r.end_at \in Int
  BY <1>2, StopFields DEF InForce, Covers
<1>4. r.shift = sh /\ (r.machine = None \/ StationOf[r.machine] = st)  BY DEF InForce
<1>5. r.start_at < e /\ r.end_at > a  BY <1>1, <1>3
<1> QED  BY <1>2, <1>4, <1>5 DEF Fetched

\* The three sums of _stop_minutes_for_calendar_row are the numbers of minutes
\* in force in the window.
LEMMA StopMinutesAreCounts ==
  ASSUME TypeOK, NEW sh \in Shifts, NEW st \in Stations, NEW planned \in PlannedTimes(sh)
  PROVE  /\ StopMinutes(sh, st, planned) =
              [stop |-> Cardinality(Down(sh, st, planned)),
               planned_stop |-> Cardinality(DownPlanned(sh, st, planned)),
               unavailability |->
                 Cardinality(DownUnplanned(sh, st, planned) \ DownPlanned(sh, st, planned))]
<1> DEFINE a == ShiftStart(sh)  e == WindowEnd(sh, planned)  rows == Fetched(sh, st, e)
           plannedRows == {r \in rows : IsPlannedStop[r.type]}
           unplannedRows == {r \in rows : IsUnplanned(r)}
           all == Clipped(rows, a, e)
           pl == Clipped(plannedRows, a, e)
           un == Clipped(unplannedRows, a, e)
           D == Down(sh, st, planned)  P == DownPlanned(sh, st, planned)
           U == DownUnplanned(sh, st, planned)
<1>1. planned > 0 /\ ~(planned <= 0) /\ ~(e <= a)
  <2>1. a \in Int /\ planned \in Nat /\ planned > 0 /\ e = a + planned
    BY ShiftTimes, WindowFacts
  <2> HIDE DEF a, e
  <2> QED  BY <2>1
<1>2. StopMinutes(sh, st, planned) =
        [stop |-> MergedIntervalMinutes(all),
         planned_stop |-> MergedIntervalMinutes(MergeIntervals(pl)),
         unavailability |-> MergedIntervalMinutes(SubtractIntervals(un, MergeIntervals(pl)))]
  BY <1>1 DEF StopMinutes
<1>3. \A m : m \in Window(sh, planned) => m \in Int  BY WindowFacts
<1>4. D \in SUBSET Int /\ P \in SUBSET Int /\ U \in SUBSET Int
  BY <1>3 DEF Down, DownPlanned, DownUnplanned
<1>5. \A m \in Window(sh, planned) : \A i \in InForce(sh, st, m) : stops[i] \in rows
  BY InForceFetched
<1>6. all \in Seq(Spans) /\ NonEmpty(all) /\ \A m \in Int : Covered(all, m) <=> m \in D
  <2>1. /\ all \in Seq(Spans) /\ NonEmpty(all)
        /\ \A m \in Int : Covered(all, m) <=>
             m \in Window(sh, planned) /\ \E i \in InForce(sh, st, m) : stops[i] \in rows
    BY ClippedWindow
  <2> HIDE DEF all, rows
  <2> QED  BY <1>5, <2>1 DEF Down
<1>7. pl \in Seq(Spans) /\ NonEmpty(pl) /\ \A m \in Int : Covered(pl, m) <=> m \in P
  <2>1. plannedRows \in SUBSET rows  OBVIOUS
  <2>2. \A m \in Window(sh, planned) : \A i \in InForce(sh, st, m) :
          stops[i] \in plannedRows <=> IsPlannedStop[stops[i].type]
    BY <1>5
  <2> HIDE DEF plannedRows
  <2>3. /\ pl \in Seq(Spans) /\ NonEmpty(pl)
        /\ \A m \in Int : Covered(pl, m) <=>
             m \in Window(sh, planned) /\ \E i \in InForce(sh, st, m) : stops[i] \in plannedRows
    BY <2>1, ClippedWindow
  <2> HIDE DEF pl, rows
  <2> QED  BY <2>2, <2>3 DEF DownPlanned
<1>8. un \in Seq(Spans) /\ NonEmpty(un) /\ \A m \in Int : Covered(un, m) <=> m \in U
  <2>1. unplannedRows \in SUBSET rows  OBVIOUS
  <2>2. \A m \in Window(sh, planned) : \A i \in InForce(sh, st, m) :
          stops[i] \in unplannedRows <=> IsUnplanned(stops[i])
    BY <1>5
  <2> HIDE DEF unplannedRows
  <2>3. /\ un \in Seq(Spans) /\ NonEmpty(un)
        /\ \A m \in Int : Covered(un, m) <=>
             m \in Window(sh, planned) /\ \E i \in InForce(sh, st, m) : stops[i] \in unplannedRows
    BY <2>1, ClippedWindow
  <2> HIDE DEF un, rows
  <2> QED  BY <2>2, <2>3 DEF DownUnplanned
<1> HIDE DEF all, pl, un, D, P, U
<1>9. MergedIntervalMinutes(all) = Cardinality(D)  BY <1>4, <1>6, CountsTheSet
<1> DEFINE plUnion == MergeIntervals(pl)  rest == SubtractIntervals(un, plUnion)
<1>10. /\ plUnion \in Seq(Spans) /\ NonEmpty(plUnion)
       /\ \A m \in Int : Covered(plUnion, m) <=> m \in P
  <2>1. plUnion \in MergedLists /\ \A m \in Int : Covered(plUnion, m) <=> Covered(pl, m)
    BY <1>7, MergeCorrect
  <2> QED  BY <1>7, <2>1 DEF MergedLists
<1> HIDE DEF plUnion
<1>11. MergedIntervalMinutes(plUnion) = Cardinality(P)  BY <1>4, <1>10, CountsTheSet
<1>12. /\ rest \in Seq(Spans) /\ NonEmpty(rest)
       /\ \A m \in Int : Covered(rest, m) <=> m \in U \ P
  <2>1. /\ rest \in Seq(Spans) /\ NonEmpty(rest)
        /\ \A m \in Int : Covered(rest, m) <=> Covered(un, m) /\ ~Covered(plUnion, m)
    BY <1>8, <1>10, SubtractCorrect
  <2> QED  BY <1>8, <1>10, <2>1
<1> HIDE DEF rest
<1>13. MergedIntervalMinutes(rest) = Cardinality(U \ P)
  <2>1. U \ P \in SUBSET Int  BY <1>4
  <2> QED  BY <1>12, <2>1, CountsTheSet
<1> QED  BY <1>2, <1>9, <1>11, <1>13 DEF plUnion, rest, D, P, U

\* The planned and the remaining unplanned minutes lie in the window and do
\* not meet.
LEMMA CountsFitWindow ==
  ASSUME TypeOK, NEW sh \in Shifts, NEW st \in Stations, NEW planned \in PlannedTimes(sh)
  PROVE  LET P == DownPlanned(sh, st, planned)
             U == DownUnplanned(sh, st, planned) IN
         /\ IsFiniteSet(P) /\ IsFiniteSet(U)
         /\ Cardinality(P) \in Nat /\ Cardinality(U \ P) \in Nat /\ Cardinality(U \cap P) \in Nat
         /\ Cardinality(P) + Cardinality(U \ P) <= planned
         /\ Cardinality(U) = Cardinality(U \ P) + Cardinality(U \cap P)
<1> DEFINE P == DownPlanned(sh, st, planned)  U == DownUnplanned(sh, st, planned)
           W == Window(sh, planned)
<1>1. IsFiniteSet(W) /\ Cardinality(W) = planned /\ planned \in Nat  BY WindowFacts
<1>2. P \subseteq W /\ U \subseteq W  BY DEF DownPlanned, DownUnplanned
<1> HIDE DEF P, U, W
<1>3. IsFiniteSet(P) /\ IsFiniteSet(U) /\ IsFiniteSet(U \ P) /\ IsFiniteSet(U \cap P)
  <2>1. U \ P \subseteq W /\ U \cap P \subseteq W  BY <1>2
  <2> QED  BY <1>1, <1>2, <2>1, FS_Subset
<1>4. /\ Cardinality(P) \in Nat /\ Cardinality(U \ P) \in Nat /\ Cardinality(U \cap P) \in Nat
  BY <1>3, FS_CardinalityType
<1>5. Cardinality(P) + Cardinality(U \ P) <= planned
  <2>1. P \cap (U \ P) = {} /\ P \cup (U \ P) \subseteq W  BY <1>2
  <2>2. Cardinality(P \cup (U \ P)) = Cardinality(P) + Cardinality(U \ P)
    <3>1. Cardinality(P \cup (U \ P)) =
            Cardinality(P) + Cardinality(U \ P) - Cardinality(P \cap (U \ P))
      BY <1>3, FS_Union
    <3>2. Cardinality(P \cap (U \ P)) = 0  BY <2>1, FS_EmptySet
    <3> QED  BY <1>4, <3>1, <3>2
  <2>3. Cardinality(P \cup (U \ P)) <= planned  BY <1>1, <2>1, FS_Subset
  <2> QED  BY <2>2, <2>3
<1>6. Cardinality(U) = Cardinality(U \ P) + Cardinality(U \cap P)
  <2>1. Cardinality(U \ P) = Cardinality(U) - Cardinality(U \cap P)
    BY <1>3, FS_Difference
  <2>2. Cardinality(U) \in Nat  BY <1>3, FS_CardinalityType
  <2> QED  BY <1>4, <2>1, <2>2
<1> QED  BY <1>3, <1>4, <1>5, <1>6 DEF P, U

\* What the report of the control page counts where all stops name one item.
LEMMA ControlMinutesAreCounts ==
  ASSUME TypeOK, StopsFit, NEW sh \in Shifts, NEW st \in Stations, NEW item \in Items,
         StationOf[item] = st,
         \A i \in DOMAIN stops : stops[i].item = item /\ stops[i].shift = sh,
         NEW planned \in PlannedTimes(sh), planned = ShiftEnd(sh) - ShiftStart(sh)
  PROVE  ControlMinutes(sh, item) =
           [stop |-> Cardinality(Down(sh, st, planned)),
            unavailability |-> Cardinality(DownUnplanned(sh, st, planned))]
<1> DEFINE a == ShiftStart(sh)  b == ShiftEnd(sh)
           rows == {r \in ToSet(stops) : r.item = item /\ r.shift = sh}
           unplannedRows == {r \in rows : IsUnplanned(r)}
           all == Clipped(rows, 0, b)
           un == Clipped(unplannedRows, 0, b)
           D == Down(sh, st, planned)  U == DownUnplanned(sh, st, planned)
<1>1. ControlMinutes(sh, item) =
        [stop |-> MergedIntervalMinutes(all), unavailability |-> MergedIntervalMinutes(un)]
  BY DEF ControlMinutes
<1>2. /\ a \in Int /\ b \in Int /\ a >= 0 /\ stops \in Seq(Stop) /\ 0 \in Int
      /\ \A m : m \in Window(sh, planned) <=> m \in Int /\ a <= m /\ m < b
  <2>1. /\ a \in Int /\ b \in Int /\ a >= 0 /\ stops \in Seq(Stop)
        /\ \A m : m \in Window(sh, planned) <=> m \in Int /\ a <= m /\ m < a + planned
    BY ShiftTimes, WindowFacts DEF TypeOK
  <2>2. a + planned = b  BY <2>1
  <2> HIDE DEF a, b
  <2> QED  BY <2>1, <2>2
<1>3. \A i \in DOMAIN stops :
        /\ stops[i] \in rows
        /\ stops[i] \in unplannedRows <=> IsUnplanned(stops[i])
        /\ stops[i].machine = None \/ StationOf[stops[i].machine] = st
  <2> SUFFICES ASSUME NEW i \in DOMAIN stops
               PROVE  /\ stops[i] \in rows
                      /\ stops[i] \in unplannedRows <=> IsUnplanned(stops[i])
                      /\ stops[i].machine = None \/ StationOf[stops[i].machine] = st
    OBVIOUS
  <2>1. stops[i] \in rows  BY DEF ToSet
  <2>2. stops[i].item # None /\ StationOf[stops[i].item] = st /\ st # None
    BY NoneIsNoId
  <2>3. MachineFits(stops[i])  BY DEF StopsFit
  <2> QED  BY <2>1, <2>2, <2>3 DEF MachineFits
\* A stop in force is in the window, and the other way round.
<1>4. \A m \in Int : \A i \in DOMAIN stops :
        Covers(stops[i], m) /\ 0 <= m /\ m < b
          <=> m \in Window(sh, planned) /\ i \in InForce(sh, st, m)
  <2> SUFFICES ASSUME NEW m \in Int, NEW i \in DOMAIN stops
               PROVE  Covers(stops[i], m) /\ 0 <= m /\ m < b
                        <=> m \in Window(sh, planned) /\ i \in InForce(sh, st, m)
    OBVIOUS
  <2>1. i \in InForce(sh, st, m) <=> Covers(stops[i], m)  BY <1>3 DEF InForce
  <2>2. Covers(stops[i], m) => a <= m
    <3>1. stops[i] \in Stop  BY <1>2
    <3>2. stops[i].start_at \in Int /\ a <= stops[i].start_at
      BY <3>1, StopFields DEF StopsFit, Valid
    <3> HIDE DEF a
    <3> QED  BY <1>2, <3>2 DEF Covers
  <2> HIDE DEF a, b
  <2> QED  BY <1>2, <2>1, <2>2
<1>5. D \in SUBSET Int /\ U \in SUBSET Int  BY <1>2 DEF Down, DownUnplanned
<1>6. \A m : InForce(sh, st, m) \subseteq DOMAIN stops  BY DEF InForce
<1> HIDE DEF b, rows, unplannedRows
<1>7. all \in Seq(Spans) /\ NonEmpty(all) /\ \A m \in Int : Covered(all, m) <=> m \in D
  <2>1. /\ all \in Seq(Spans) /\ NonEmpty(all)
        /\ \A m \in Int : Covered(all, m) <=>
             \E i \in DOMAIN stops : stops[i] \in rows /\ Covers(stops[i], m) /\ 0 <= m /\ m < b
    BY <1>2, ClippedCorrect
  <2> HIDE DEF all
  <2>2. \A m \in Int : Covered(all, m) <=>
          \E i \in DOMAIN stops : m \in Window(sh, planned) /\ i \in InForce(sh, st, m)
    BY <1>3, <1>4, <2>1
  <2> QED  BY <1>6, <2>1, <2>2 DEF Down
<1>8. un \in Seq(Spans) /\ NonEmpty(un) /\ \A m \in Int : Covered(un, m) <=> m \in U
  <2>1. /\ un \in Seq(Spans) /\ NonEmpty(un)
        /\ \A m \in Int : Covered(un, m) <=>
             \E i \in DOMAIN stops :
               stops[i] \in unplannedRows /\ Covers(stops[i], m) /\ 0 <= m /\ m < b
    BY <1>2, ClippedCorrect
  <2> HIDE DEF un
  <2>2. \A m \in Int : Covered(un, m) <=>
          \E i \in DOMAIN stops : /\ m \in Window(sh, planned) /\ i \in InForce(sh, st, m)
                                  /\ IsUnplanned(stops[i])
    BY <1>3, <1>4, <2>1
  <2> QED  BY <1>6, <2>1, <2>2 DEF DownUnplanned
<1> HIDE DEF all, un, D, U
<1>9. MergedIntervalMinutes(all) = Cardinality(D) /\ MergedIntervalMinutes(un) = Cardinality(U)
  BY <1>5, <1>7, <1>8, CountsTheSet
<1> QED  BY <1>1, <1>9 DEF D, U

\* The reports count every minute of the window once and in one class, for a
\* table of any length, and production_control differs from planned_time_report
\* by the overlap alone (production.py:105-183, 1979-2016).  Each list of spans
\* on the way covers a known set of minutes, MinutesCounted turns the sums into
\* cardinalities, and what the subtraction leaves is disjoint from what is
\* planned.
THEOREM MinutesAreClassified == Spec => []MinutesClassified
<1>1. TypeOK /\ StopsFit => MinutesClassified
  <2> SUFFICES ASSUME TypeOK, StopsFit, NEW sh \in Shifts, NEW st \in Stations,
                      NEW planned \in PlannedTimes(sh)
               PROVE  Classified(sh, st, planned)
    BY DEF MinutesClassified
  <2> DEFINE s == StopMinutes(sh, st, planned)
             window == Window(sh, planned)
             D == Down(sh, st, planned)
             P == DownPlanned(sh, st, planned)
             U == DownUnplanned(sh, st, planned)
             isPlanned(m) == \E i \in InForce(sh, st, m) : IsPlannedStop[stops[i].type]
             isUnplanned(m) == \E i \in InForce(sh, st, m) :
               CountsAsUnavailability[stops[i].type] /\ ~IsPlannedStop[stops[i].type]
  <2>1. /\ {m \in window : InForce(sh, st, m) # {}} = D
        /\ {m \in window : isPlanned(m)} = P
        /\ {m \in window : isUnplanned(m) /\ ~isPlanned(m)} = U \ P
        /\ {m \in window : isUnplanned(m) /\ isPlanned(m)} = U \cap P
    BY DEF Down, DownPlanned, DownUnplanned, IsUnplanned
  <2>2. s = [stop |-> Cardinality(D), planned_stop |-> Cardinality(P),
             unavailability |-> Cardinality(U \ P)]
    BY StopMinutesAreCounts
  <2>3. /\ Cardinality(P) \in Nat /\ Cardinality(U \ P) \in Nat /\ Cardinality(U \cap P) \in Nat
        /\ Cardinality(P) + Cardinality(U \ P) <= planned
        /\ Cardinality(U) = Cardinality(U \ P) + Cardinality(U \cap P)
        /\ planned \in Nat
    BY CountsFitWindow, WindowFacts
  <2>4. Available(sh, st, planned) = Max({0, planned - s.planned_stop - s.unavailability})
    BY DEF Available
  <2>5. NetPlanned(sh, st, planned) = Max({0, planned - s.planned_stop})
    BY DEF NetPlanned
  <2>6. \A item \in Items :
          /\ StationOf[item] = st
          /\ \A i \in DOMAIN stops : stops[i].item = item /\ stops[i].shift = sh
          /\ planned = ShiftEnd(sh) - ShiftStart(sh)
          => ControlMinutes(sh, item) =
               [stop |-> Cardinality(D), unavailability |-> Cardinality(U)]
    BY ControlMinutesAreCounts
  <2> HIDE DEF s, D, P, U, window, isPlanned, isUnplanned
  <2>7. Available(sh, st, planned) = NetPlanned(sh, st, planned) - s.unavailability
    <3> DEFINE p == Cardinality(P)  u == Cardinality(U \ P)
    <3>1. s.planned_stop = p /\ s.unavailability = u  BY <2>2
    <3>2. p \in Nat /\ u \in Nat /\ p + u <= planned /\ planned \in Nat  BY <2>3
    <3> HIDE DEF p, u
    <3>3. Max({0, planned - p}) = planned - p
      <4>1. Max({0, planned - p}) = IF 0 >= planned - p THEN 0 ELSE planned - p
        BY <3>2, MaxOfTwo
      <4> QED  BY <3>2, <4>1
    <3>4. Max({0, planned - p - u}) = planned - p - u
      <4>1. Max({0, planned - p - u}) = IF 0 >= planned - p - u THEN 0 ELSE planned - p - u
        BY <3>2, MaxOfTwo
      <4> QED  BY <3>2, <4>1
    <3> QED  BY <2>4, <2>5, <3>1, <3>2, <3>3, <3>4
  <2>8. s.stop = Cardinality(D) /\ s.planned_stop = Cardinality(P)
        /\ s.unavailability = Cardinality(U \ P)
    BY <2>2
  <2>9. \A item \in Items :
          /\ StationOf[item] = st
          /\ \A i \in DOMAIN stops : stops[i].item = item /\ stops[i].shift = sh
          /\ planned = ShiftEnd(sh) - ShiftStart(sh)
          => ControlMinutes(sh, item) =
               [stop |-> s.stop, unavailability |-> s.unavailability + Cardinality(U \cap P)]
    BY <2>3, <2>6, <2>8
  <2> QED  BY <2>1, <2>7, <2>8, <2>9 DEF Classified, s, window, isPlanned, isUnplanned
<1>2. Spec => [](TypeOK /\ StopsFit)  BY TypeCorrect, StopsAlwaysFit, PTL
<1> QED  BY <1>1, <1>2, PTL
=============================================================================
