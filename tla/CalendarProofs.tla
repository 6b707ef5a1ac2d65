--------------------------- MODULE CalendarProofs ---------------------------
(***************************************************************************)
(* Proof that the two conversions of JalaliCalendar are inverse to each    *)
(* other and take consecutive days to consecutive dates, in every year.    *)
(* Each calendar numbers its days: the number of the first day of a year,  *)
(* the days of the months before, the day.  Two dates never have the same  *)
(* number, and the date that a conversion works out of a number by cycles, *)
(* years and months has that number; so a conversion, which is the date in *)
(* one calendar of the number of a date in the other, can be undone.       *)
(***************************************************************************)
EXTENDS JalaliCalendar, LoopLemmas

-----------------------------------------------------------------------------
(* Months *)

\* A list of the lengths of twelve months.
Lengths == [1..12 -> Nat]

\* The sum of the first n lengths.
LEMMA SumOfNone == ASSUME NEW lengths PROVE SumOfFirst(0, lengths) = 0
<1>1. 1..0 = {}  OBVIOUS
<1> QED  BY <1>1, SumEmpty DEF SumOfFirst

\* Each month adds its length.
LEMMA SumOfNext ==
  ASSUME NEW lengths \in Lengths, NEW n \in 1..12
  PROVE  SumOfFirst(n, lengths) = SumOfFirst(n - 1, lengths) + lengths[n]
<1> DEFINE R == 1..n  Q == 1..(n - 1)
<1>1. n \in Int /\ n - 1 \in Int  OBVIOUS
<1>2. IsFiniteSet(R) /\ IsFiniteSet(Q)  BY <1>1, FS_Interval
<1>3. (\A i \in R : lengths[i] \in Int) /\ \A i \in Q : lengths[i] \in Int  BY DEF Lengths
<1>4. n \in R /\ R \ {n} = Q  OBVIOUS
<1> HIDE DEF R, Q
<1>5. SumFunctionOnSet(lengths, R) = lengths[n] + SumFunctionOnSet(lengths, R \ {n})
  BY <1>2, <1>3, <1>4, SumRemove
<1>6. SumFunctionOnSet(lengths, Q) \in Int  BY <1>2, <1>3, SumInt
<1>7. SumFunctionOnSet(lengths, R) = lengths[n] + SumFunctionOnSet(lengths, Q)
  BY <1>4, <1>5, Zenon
<1>8. SumFunctionOnSet(lengths, R) = SumFunctionOnSet(lengths, Q) + lengths[n]
  BY <1>3, <1>4, <1>6, <1>7
<1> QED  BY <1>8 DEF SumOfFirst, R, Q

\* All of them, for a year whose months have the given lengths.
LEMMA SumTable ==
  ASSUME NEW lengths \in Lengths
  PROVE  LET S(k) == SumOfFirst(k, lengths) IN
         /\ S(0) = 0
         /\ \A k \in 1..12 : S(k) = S(k - 1) + lengths[k]
         /\ \A k \in 0..12 : S(k) \in Nat
<1> DEFINE S(k) == SumOfFirst(k, lengths)
           T == {k \in 0..12 : S(k) \in Nat}
<1>1. S(0) = 0  BY SumOfNone
<1>2. \A k \in 1..12 : S(k) = S(k - 1) + lengths[k]  BY SumOfNext
<1>3. \A k \in 1..12 : lengths[k] \in Nat  BY DEF Lengths
<1> HIDE DEF S
<1>4. 0 \in T  BY <1>1
<1>5. \A k \in 0..12 : k \in T /\ k + 1 \in 0..12 => k + 1 \in T
  <2> SUFFICES ASSUME NEW k \in 0..12, k \in T, k + 1 \in 0..12 PROVE k + 1 \in T  OBVIOUS
  <2>1. k + 1 \in 1..12 /\ (k + 1) - 1 = k  OBVIOUS
  <2> QED  BY <1>2, <1>3, <2>1
<1>6. \A k \in 0..12 : k \in T
  <2> HIDE DEF T
  <2> QED  BY <1>4, <1>5, RangeInduction
<1> QED  BY <1>1, <1>2, <1>6 DEF S

Leaping(leap) == IF leap THEN [g_days_in_month EXCEPT ![2] = 29] ELSE g_days_in_month

\* The lengths of the Jalali months.
LEMMA JalaliLengths ==
  /\ j_days_in_month \in Lengths
  /\ \A k \in 1..6 : j_days_in_month[k] = 31
  /\ \A k \in 7..11 : j_days_in_month[k] = 30
  /\ j_days_in_month[12] = 29
BY DEF Lengths, j_days_in_month

\* The lengths of the Gregorian months of a year with or without a leap day.
LEMMA GregorianLengths ==
  ASSUME NEW leap \in BOOLEAN
  PROVE  LET L == Leaping(leap) IN
         /\ L \in Lengths
         /\ L[1] = 31 /\ L[2] = (IF leap THEN 29 ELSE 28) /\ L[3] = 31 /\ L[4] = 30
         /\ L[5] = 31 /\ L[6] = 30 /\ L[7] = 31 /\ L[8] = 31 /\ L[9] = 30 /\ L[10] = 31
         /\ L[11] = 30 /\ L[12] = 31
<1>1. g_days_in_month \in Lengths  BY DEF Lengths, g_days_in_month
<1>2. [g_days_in_month EXCEPT ![2] = 29] \in Lengths  BY <1>1 DEF Lengths
<1> QED  BY <1>1, <1>2 DEF Leaping, Lengths, g_days_in_month

\* The month in which a day of the year falls.
LEMMA MonthFound ==
  ASSUME NEW lengths \in Lengths, NEW n \in Nat
  PROVE  LET md == MonthAndDay(n, lengths) IN
         /\ md.m \in 1..12
         /\ SumOfFirst(md.m - 1, lengths) <= n
         /\ md.m = 12 \/ n < SumOfFirst(md.m, lengths)
         /\ md.d = n - SumOfFirst(md.m - 1, lengths) + 1
<1> DEFINE S(k) == SumOfFirst(k, lengths)
           good(k) == S(k - 1) <= n /\ (k = 12 \/ n < S(k))
           T == {k \in 1..12 : k = 12 \/ n < S(k)}
           m == CHOOSE k \in 1..12 : good(k)
<1>1. S(0) = 0 /\ \A k \in 0..12 : S(k) \in Nat  BY SumTable
<1>2. MonthAndDay(n, lengths) = [m |-> m, d |-> n - S(m - 1) + 1]  BY DEF MonthAndDay
<1> HIDE DEF S
<1>3. T \in SUBSET Nat /\ 12 \in T  OBVIOUS
<1>4. PICK k \in T : \A l \in T : k <= l
  <2> HIDE DEF T
  <2> QED  BY <1>3, LeastElement
<1>5. good(k) /\ k \in 1..12
  <2>1. k = 1 \/ k - 1 \in (1..12) \ T  BY <1>4
  <2>2. k - 1 \in 0..12  BY <1>4
  <2> QED  BY <1>1, <1>4, <2>1, <2>2
<1>6. m \in 1..12 /\ good(m)
  <2> HIDE DEF good
  <2> QED  BY <1>5
<1> HIDE DEF m
<1> QED  BY <1>2, <1>6 DEF S

-----------------------------------------------------------------------------
(* Gregorian days *)

YearStart(z) == 365 * z + (z + 3) \div 4 - (z + 99) \div 100 + (z + 399) \div 400

\* The number of a year's first day is an integer.
LEMMA YearStartType == ASSUME NEW z \in Int PROVE YearStart(z) \in Int
BY DEF YearStart

\* A year is as long as the leap rule says.
LEMMA LeapYears ==
  ASSUME NEW z \in Int
  PROVE  YearStart(z + 1) = YearStart(z) + (IF IsLeap(z + 1600) THEN 366 ELSE 365)
BY DEF YearStart, IsLeap

\* Later years begin after the end of earlier ones.
LEMMA YearsInOrder ==
  ASSUME NEW z \in Int, NEW w \in Int, z < w
  PROVE  YearStart(z + 1) <= YearStart(w)
BY DEF YearStart

\* The number of a year from the centuries and cycles before it.
LEMMA YearStartOf ==
  ASSUME NEW q \in Int, NEW c \in 0..3, NEW f \in 0..24, NEW s \in 0..3
  PROVE  YearStart(400 * q + 100 * c + 4 * f + s)
           = 146097 * q + 36524 * c + 1461 * f + 365 * s
             + (IF s >= 1 THEN 1 ELSE 0) - (IF f + s >= 1 THEN 1 ELSE 0)
             + (IF c + f + s >= 1 THEN 1 ELSE 0)
BY DEF YearStart

\* The days of a Gregorian year before a month.
BeforeMonth(m, leap) == SumOfFirst(m - 1, Leaping(leap))

\* The days of a Gregorian year up to the end of each month.
LEMMA MonthTable ==
  ASSUME NEW leap \in BOOLEAN
  PROVE  LET S(k) == SumOfFirst(k, Leaping(leap))
             e == IF leap THEN 1 ELSE 0
         IN  /\ S(0) = 0 /\ S(1) = 31 /\ S(2) = 59 + e /\ S(3) = 90 + e /\ S(4) = 120 + e
             /\ S(5) = 151 + e /\ S(6) = 181 + e /\ S(7) = 212 + e /\ S(8) = 243 + e
             /\ S(9) = 273 + e /\ S(10) = 304 + e /\ S(11) = 334 + e /\ S(12) = 365 + e
<1> DEFINE L == Leaping(leap)
           S(k) == SumOfFirst(k, L)
<1>1. /\ L \in Lengths
      /\ L[1] = 31 /\ L[2] = (IF leap THEN 29 ELSE 28) /\ L[3] = 31 /\ L[4] = 30
      /\ L[5] = 31 /\ L[6] = 30 /\ L[7] = 31 /\ L[8] = 31 /\ L[9] = 30 /\ L[10] = 31
      /\ L[11] = 30 /\ L[12] = 31
  BY GregorianLengths
<1> HIDE DEF L
<1>2. S(0) = 0 /\ \A k \in 1..12 : S(k) = S(k - 1) + L[k]  BY <1>1, SumTable
<1> HIDE DEF S
<1>3. /\ S(1) = S(0) + L[1] /\ S(2) = S(1) + L[2] /\ S(3) = S(2) + L[3] /\ S(4) = S(3) + L[4]
      /\ S(5) = S(4) + L[5] /\ S(6) = S(5) + L[6] /\ S(7) = S(6) + L[7] /\ S(8) = S(7) + L[8]
      /\ S(9) = S(8) + L[9] /\ S(10) = S(9) + L[10] /\ S(11) = S(10) + L[11]
      /\ S(12) = S(11) + L[12]
  BY <1>2
<1> QED  BY <1>1, <1>2, <1>3 DEF S, L

\* The days of a Jalali year up to the end of each month, without a leap day.
LEMMA JalaliTable ==
  LET S(k) == SumOfFirst(k, j_days_in_month)
  IN  /\ S(0) = 0 /\ S(1) = 31 /\ S(2) = 62 /\ S(3) = 93 /\ S(4) = 124 /\ S(5) = 155
      /\ S(6) = 186 /\ S(7) = 216 /\ S(8) = 246 /\ S(9) = 276 /\ S(10) = 306 /\ S(11) = 336
      /\ S(12) = 365
<1> DEFINE L == j_days_in_month
           S(k) == SumOfFirst(k, L)
<1>1. /\ L \in Lengths /\ \A k \in 1..6 : L[k] = 31
      /\ \A k \in 7..11 : L[k] = 30
      /\ L[12] = 29
  BY JalaliLengths
<1> HIDE DEF L
<1>2. S(0) = 0 /\ \A k \in 1..12 : S(k) = S(k - 1) + L[k]  BY <1>1, SumTable
<1> HIDE DEF S
<1>3. /\ S(1) = S(0) + L[1] /\ S(2) = S(1) + L[2] /\ S(3) = S(2) + L[3] /\ S(4) = S(3) + L[4]
      /\ S(5) = S(4) + L[5] /\ S(6) = S(5) + L[6] /\ S(7) = S(6) + L[7] /\ S(8) = S(7) + L[8]
      /\ S(9) = S(8) + L[9] /\ S(10) = S(9) + L[10] /\ S(11) = S(10) + L[11]
      /\ S(12) = S(11) + L[12]
  BY <1>2
<1> QED  BY <1>1, <1>2, <1>3 DEF S, L

\* gregorian_to_jalali adds the leap day afterwards.
LEMMA LeapDay ==
  ASSUME NEW leap \in BOOLEAN, NEW m \in 1..12
  PROVE  /\ BeforeMonth(m, leap) =
              SumOfFirst(m - 1, g_days_in_month) + (IF m > 2 /\ leap THEN 1 ELSE 0)
         /\ BeforeMonth(m, leap) \in Nat
         /\ SumOfFirst(m - 1, g_days_in_month) \in Nat
<1> DEFINE S(k) == SumOfFirst(k, Leaping(leap))
           R(k) == SumOfFirst(k, g_days_in_month)
           e == IF leap THEN 1 ELSE 0
<1>1. /\ S(0) = 0 /\ S(1) = 31 /\ S(2) = 59 + e /\ S(3) = 90 + e /\ S(4) = 120 + e
      /\ S(5) = 151 + e /\ S(6) = 181 + e /\ S(7) = 212 + e /\ S(8) = 243 + e
      /\ S(9) = 273 + e /\ S(10) = 304 + e /\ S(11) = 334 + e
  BY MonthTable
<1>2. /\ R(0) = 0 /\ R(1) = 31 /\ R(2) = 59 /\ R(3) = 90 /\ R(4) = 120
      /\ R(5) = 151 /\ R(6) = 181 /\ R(7) = 212 /\ R(8) = 243
      /\ R(9) = 273 /\ R(10) = 304 /\ R(11) = 334
  <2> DEFINE no == 1 = 2  Q(k) == SumOfFirst(k, Leaping(no))  d == IF no THEN 1 ELSE 0
  <2>1. no \in BOOLEAN /\ Leaping(no) = g_days_in_month /\ d = 0  BY DEF Leaping
  <2> HIDE DEF R, no
  <2>2. /\ Q(0) = 0 /\ Q(1) = 31 /\ Q(2) = 59 + d /\ Q(3) = 90 + d /\ Q(4) = 120 + d
        /\ Q(5) = 151 + d /\ Q(6) = 181 + d /\ Q(7) = 212 + d /\ Q(8) = 243 + d
        /\ Q(9) = 273 + d /\ Q(10) = 304 + d /\ Q(11) = 334 + d
    BY <2>1, MonthTable
  <2>3. \A k : R(k) = Q(k)  BY <2>1 DEF R
  <2> HIDE DEF Q, d
  <2> QED  BY <2>1, <2>2, <2>3
<1>3. m - 1 = 0 \/ m - 1 = 1 \/ m - 1 = 2 \/ m - 1 = 3 \/ m - 1 = 4 \/ m - 1 = 5 \/ m - 1 = 6
      \/ m - 1 = 7 \/ m - 1 = 8 \/ m - 1 = 9 \/ m - 1 = 10 \/ m - 1 = 11
  OBVIOUS
<1> HIDE DEF S, R
<1>4. /\ S(m - 1) = R(m - 1) + (IF m > 2 /\ leap THEN 1 ELSE 0)
      /\ S(m - 1) \in Nat /\ R(m - 1) \in Nat
  BY <1>1, <1>2, <1>3
<1> QED  BY <1>4 DEF S, R, BeforeMonth

GregorianDates == {g \in [y : Int, m : 1..12, d : Nat] : 1 <= g.d /\ g.d <= MonthLength(g)}
GregorianDay(g) == YearStart(g.y - 1600) + BeforeMonth(g.m, IsLeap(g.y)) + (g.d - 1)

\* Months follow each other without a gap, and a year ends with December.
LEMMA MonthEnds ==
  ASSUME NEW y \in Int, NEW m \in 1..12, NEW d
  PROVE  LET g == Date(y, m, d) IN
         /\ BeforeMonth(1, IsLeap(y)) = 0
         /\ BeforeMonth(m, IsLeap(y)) \in Nat
         /\ MonthLength(g) \in Nat /\ 28 <= MonthLength(g)
         /\ SumOfFirst(m, Leaping(IsLeap(y))) = BeforeMonth(m, IsLeap(y)) + MonthLength(g)
         /\ m < 12 => BeforeMonth(m + 1, IsLeap(y)) = BeforeMonth(m, IsLeap(y)) + MonthLength(g)
         /\ m = 12 => BeforeMonth(m, IsLeap(y)) + MonthLength(g) = IF IsLeap(y) THEN 366 ELSE 365
         /\ \A k \in 1..12 : m < k =>
              BeforeMonth(m, IsLeap(y)) + MonthLength(g) <= BeforeMonth(k, IsLeap(y))
<1> DEFINE leap == IsLeap(y)
           e == IF leap THEN 1 ELSE 0
           S(k) == SumOfFirst(k, Leaping(leap))
           len == MonthLength(Date(y, m, d))
<1>0. leap \in BOOLEAN  BY DEF IsLeap
<1>1. len = IF m = 2 /\ leap THEN 29 ELSE g_days_in_month[m]
  BY DEF MonthLength, Date
<1> HIDE DEF leap, len
<1>2. /\ S(0) = 0 /\ S(1) = 31 /\ S(2) = 59 + e /\ S(3) = 90 + e /\ S(4) = 120 + e
      /\ S(5) = 151 + e /\ S(6) = 181 + e /\ S(7) = 212 + e /\ S(8) = 243 + e
      /\ S(9) = 273 + e /\ S(10) = 304 + e /\ S(11) = 334 + e /\ S(12) = 365 + e
  BY <1>0, MonthTable
<1>3. /\ g_days_in_month[1] = 31 /\ g_days_in_month[2] = 28 /\ g_days_in_month[3] = 31
      /\ g_days_in_month[4] = 30 /\ g_days_in_month[5] = 31 /\ g_days_in_month[6] = 30
      /\ g_days_in_month[7] = 31 /\ g_days_in_month[8] = 31 /\ g_days_in_month[9] = 30
      /\ g_days_in_month[10] = 31 /\ g_days_in_month[11] = 30 /\ g_days_in_month[12] = 31
  BY DEF g_days_in_month
<1>4. m = 1 \/ m = 2 \/ m = 3 \/ m = 4 \/ m = 5 \/ m = 6 \/ m = 7 \/ m = 8 \/ m = 9 \/ m = 10
      \/ m = 11 \/ m = 12
  OBVIOUS
<1> HIDE DEF S
<1>5. /\ len \in Nat /\ 28 <= len
      /\ S(m) = S(m - 1) + len
      /\ S(m - 1) \in Nat
      /\ m = 12 => S(m) = 365 + e
  BY <1>0, <1>1, <1>2, <1>3, <1>4
<1>6. \A k \in 1..12 : m < k => S(m) <= S(k - 1)
  <2> SUFFICES ASSUME NEW k \in 1..12, m < k PROVE S(m) <= S(k - 1)  OBVIOUS
  <2>1. k - 1 = 1 \/ k - 1 = 2 \/ k - 1 = 3 \/ k - 1 = 4 \/ k - 1 = 5 \/ k - 1 = 6
        \/ k - 1 = 7 \/ k - 1 = 8 \/ k - 1 = 9 \/ k - 1 = 10 \/ k - 1 = 11
    OBVIOUS
  <2> QED  BY <1>0, <1>2, <1>4, <2>1
<1>7. \A k \in 1..12 : BeforeMonth(k, leap) = S(k - 1)  BY DEF BeforeMonth, S
<1>8. m < 12 => m + 1 \in 1..12 /\ (m + 1) - 1 = m  OBVIOUS
<1>9. 1 \in 1..12 /\ 1 - 1 = 0  OBVIOUS
<1>10. /\ BeforeMonth(1, leap) = 0
       /\ BeforeMonth(m, leap) \in Nat
       /\ S(m) = BeforeMonth(m, leap) + len
       /\ m < 12 => BeforeMonth(m + 1, leap) = BeforeMonth(m, leap) + len
       /\ m = 12 => BeforeMonth(m, leap) + len = IF leap THEN 366 ELSE 365
       /\ \A k \in 1..12 : m < k => BeforeMonth(m, leap) + len <= BeforeMonth(k, leap)
  BY <1>2, <1>5, <1>6, <1>7, <1>8, <1>9
<1> QED  BY <1>5, <1>10 DEF leap, len, S

\* The fields of a Gregorian date.
LEMMA DateFields ==
  ASSUME NEW g \in GregorianDates
  PROVE  /\ g.y \in Int /\ g.m \in 1..12 /\ g.d \in Nat /\ 1 <= g.d
         /\ g = Date(g.y, g.m, g.d)
         /\ g.d <= MonthLength(Date(g.y, g.m, g.d))
         /\ IsLeap(g.y) \in BOOLEAN
<1>1. g = Date(g.y, g.m, g.d)  BY DEF GregorianDates, Date
<1>2. g.d <= MonthLength(g)  BY DEF GregorianDates
<1> QED  BY <1>1, <1>2 DEF GregorianDates, IsLeap

\* The days of a year are numbered within it.
LEMMA DayInYear ==
  ASSUME NEW g \in GregorianDates
  PROVE  /\ GregorianDay(g) \in Int
         /\ YearStart(g.y - 1600) <= GregorianDay(g)
         /\ GregorianDay(g) < YearStart(g.y - 1600 + 1)
<1> DEFINE z == g.y - 1600
           leap == IsLeap(g.y)
           before == BeforeMonth(g.m, leap)
           len == MonthLength(Date(g.y, g.m, g.d))
           year == IF leap THEN 366 ELSE 365
<1>1. /\ g.y \in Int /\ g.m \in 1..12 /\ g.d \in Nat /\ 1 <= g.d /\ g.d <= len /\ leap \in BOOLEAN
  BY DateFields
<1>2. before \in Nat /\ len \in Nat /\ before + len <= year
  <2>1. /\ before \in Nat /\ len \in Nat
        /\ g.m = 12 => before + len = year
    BY <1>1, MonthEnds
  <2>2. g.m < 12 => before + len <= BeforeMonth(12, leap) /\ BeforeMonth(12, leap) <= year
    <3>1. \A k \in 1..12 : g.m < k => before + len <= BeforeMonth(k, leap)
      BY <1>1, MonthEnds
    <3>2. BeforeMonth(12, leap) = 334 + (IF leap THEN 1 ELSE 0)
      <4>1. 12 - 1 = 11  OBVIOUS
      <4> QED  BY <1>1, <4>1, MonthTable DEF BeforeMonth
    <3> HIDE DEF before, len, leap
    <3> QED  BY <1>1, <3>1, <3>2
  <2>3. BeforeMonth(12, leap) \in Nat  BY <1>1, LeapDay
  <2> HIDE DEF before, len, leap
  <2> QED  BY <1>1, <2>1, <2>2, <2>3
<1>3. z \in Int /\ z + 1600 = g.y  BY <1>1
<1>4. YearStart(z) \in Int /\ YearStart(z + 1) = YearStart(z) + year
  BY <1>3, YearStartType, LeapYears
<1>5. GregorianDay(g) = YearStart(z) + before + (g.d - 1)  BY DEF GregorianDay
<1> HIDE DEF before, len, leap, z
<1> QED  BY <1>1, <1>2, <1>4, <1>5 DEF z

\* No two dates have the same number.
LEMMA GregorianDistinct ==
  ASSUME NEW g \in GregorianDates, NEW h \in GregorianDates, GregorianDay(g) = GregorianDay(h)
  PROVE  g = h
<1>1. g.y \in Int /\ h.y \in Int  BY DateFields
<1>2. ASSUME NEW a \in GregorianDates, NEW b \in GregorianDates, a.y < b.y
      PROVE  GregorianDay(a) < GregorianDay(b)
  <2>1. a.y \in Int /\ b.y \in Int  BY DateFields
  <2> DEFINE z == a.y - 1600  w == b.y - 1600
  <2>2. z \in Int /\ w \in Int /\ z < w  BY <1>2, <2>1
  <2>3. /\ GregorianDay(a) \in Int /\ GregorianDay(b) \in Int
        /\ YearStart(w) <= GregorianDay(b) /\ GregorianDay(a) < YearStart(z + 1)
    BY DayInYear
  <2> HIDE DEF z, w
  <2>4. YearStart(z + 1) <= YearStart(w)  BY <2>2, YearsInOrder
  <2>5. YearStart(z + 1) \in Int /\ YearStart(w) \in Int  BY <2>2, YearStartType
  <2> QED  BY <2>3, <2>4, <2>5
<1>3. g.y = h.y
  <2>1. ~(g.y < h.y) /\ ~(h.y < g.y)
    <3>1. GregorianDay(g) \in Int /\ GregorianDay(h) \in Int  BY DayInYear
    <3>2. g.y < h.y => GregorianDay(g) < GregorianDay(h)  BY <1>2
    <3>3. h.y < g.y => GregorianDay(h) < GregorianDay(g)  BY <1>2
    <3> QED  BY <3>1, <3>2, <3>3
  <2> QED  BY <1>1, <2>1
<1>4. PICK y \in Int : y = g.y /\ y = h.y  BY <1>1, <1>3
<1> DEFINE before(m) == BeforeMonth(m, IsLeap(y))
<1>5. \A a \in GregorianDates :
        a.y = y => /\ a.m \in 1..12 /\ a.d \in Nat /\ 1 <= a.d
                   /\ before(a.m) \in Nat
                   /\ a.d <= MonthLength(Date(y, a.m, a.d))
                   /\ MonthLength(Date(y, a.m, a.d)) \in Nat
                   /\ \A k \in 1..12 : a.m < k =>
                        before(a.m) + MonthLength(Date(y, a.m, a.d)) <= before(k)
  <2> SUFFICES ASSUME NEW a \in GregorianDates, a.y = y
               PROVE  /\ a.m \in 1..12 /\ a.d \in Nat /\ 1 <= a.d
                      /\ before(a.m) \in Nat
                      /\ a.d <= MonthLength(Date(y, a.m, a.d))
                      /\ MonthLength(Date(y, a.m, a.d)) \in Nat
                      /\ \A k \in 1..12 : a.m < k =>
                           before(a.m) + MonthLength(Date(y, a.m, a.d)) <= before(k)
    BY Zenon
  <2>1. a.m \in 1..12 /\ a.d \in Nat /\ 1 <= a.d /\ a.d <= MonthLength(Date(y, a.m, a.d))
    BY DateFields
  <2> QED  BY <1>4, <2>1, MonthEnds
<1> DEFINE start == YearStart(y - 1600)  p == before(g.m)  q == before(h.m)
<1>6. GregorianDay(g) = start + p + (g.d - 1) /\ GregorianDay(h) = start + q + (h.d - 1)
  BY <1>4 DEF GregorianDay
<1>7. start \in Int  BY <1>4, YearStartType
<1> HIDE DEF before
<1>8. g.m = h.m /\ g.d = h.d
  <2>0. g.y = y /\ h.y = y  BY <1>4
  <2>1. /\ g.m \in 1..12 /\ g.d \in Nat /\ 1 <= g.d /\ p \in Nat
        /\ h.m \in 1..12 /\ h.d \in Nat /\ 1 <= h.d /\ q \in Nat
    BY <1>5, <2>0
  <2>3. g.m < h.m => p + g.d <= q  BY <1>5, <2>0, <2>1
  <2>4. h.m < g.m => q + h.d <= p  BY <1>5, <2>0, <2>1
  <2> HIDE DEF start, p, q
  <2>5. p + g.d = q + h.d
    <3>1. start + p + (g.d - 1) = start + q + (h.d - 1)  BY <1>6, Zenon
    <3> QED  BY <1>7, <2>1, <3>1
  <2>6. g.m = h.m  BY <2>1, <2>3, <2>4, <2>5
  <2>7. p = q  BY <2>6 DEF p, q
  <2> QED  BY <2>1, <2>5, <2>6, <2>7
<1>9. g = Date(g.y, g.m, g.d) /\ h = Date(h.y, h.m, h.d)  BY DateFields
<1> QED  BY <1>3, <1>8, <1>9

-----------------------------------------------------------------------------
(* From the number of a day to its Gregorian date *)

\* The cycles of 1461 days before a number, the years of its own cycle and the days
\* of its year.
Fours(k) == k \div 1461
YearsIn(k) == IF k % 1461 >= 366 THEN ((k % 1461) - 1) \div 365 ELSE 0
DaysIn(k) == IF k % 1461 >= 366 THEN ((k % 1461) - 1) % 365 ELSE k % 1461

\* A number is made up of its cycles, its years with their leap day, and its days.
LEMMA FourYears ==
  ASSUME NEW k \in Nat
  PROVE  /\ Fours(k) \in Nat /\ YearsIn(k) \in 0..3 /\ DaysIn(k) \in 0..365
         /\ k = 1461 * Fours(k) + 365 * YearsIn(k) + DaysIn(k) + (IF YearsIn(k) >= 1 THEN 1 ELSE 0)
         /\ YearsIn(k) >= 1 => DaysIn(k) < 365
<1> DEFINE f == k \div 1461  four == k % 1461
<1>1. f \in Nat /\ four \in Nat /\ four <= 1460 /\ k = 1461 * f + four  OBVIOUS
<1>2. Fours(k) = f  BY DEF Fours
<1> DEFINE s == YearsIn(k)  rest == DaysIn(k)
<1>3. /\ s \in 0..3 /\ rest \in 0..365
      /\ four = 365 * s + rest + (IF s >= 1 THEN 1 ELSE 0)
      /\ s >= 1 => rest < 365
  <2>1. CASE four >= 366
    <3> DEFINE a == (four - 1) \div 365  r == (four - 1) % 365
    <3>1. s = a /\ rest = r  BY <2>1 DEF YearsIn, DaysIn
    <3> HIDE DEF four, s, rest
    <3>2. 365 <= four - 1 /\ four - 1 <= 1459  BY <1>1, <2>1
    <3>3. a \in 1..3 /\ r \in 0..364 /\ four - 1 = 365 * a + r  BY <1>1, <3>2
    <3> HIDE DEF a, r
    <3> QED  BY <1>1, <3>1, <3>3
  <2>2. CASE ~(four >= 366)
    <3>1. s = 0 /\ rest = four  BY <2>2 DEF YearsIn, DaysIn
    <3> HIDE DEF s, rest, four
    <3> QED  BY <1>1, <2>2, <3>1
  <2> QED  BY <2>1, <2>2
<1> HIDE DEF f, four, s, rest
<1>4. k = 1461 * f + 365 * s + rest + (IF s >= 1 THEN 1 ELSE 0)  BY <1>1, <1>3
<1> QED  BY <1>1, <1>2, <1>3, <1>4 DEF s, rest

\* A number in a cycle of four centuries: the centuries before it, and its number
\* in its own as if that began with a leap year.
Centuries(m) == IF m >= 36525 THEN (m - 1) \div 36524 ELSE 0
InCentury(m) == IF m >= 36525 THEN (m - 1) % 36524 ELSE m
AsLeaping(m) == IF m >= 36525 /\ InCentury(m) >= 365 THEN InCentury(m) + 1 ELSE InCentury(m)

\* A number is made up of its centuries and its number in its own, which is one
\* less than it would be after a leap year.
LEMMA CenturyFound ==
  ASSUME NEW m \in Nat, m <= 146096
  PROVE  LET c == Centuries(m)
             k == AsLeaping(m)
         IN  /\ c \in 0..3 /\ k \in Nat /\ k <= 36524
             /\ c = 0 => m = k
             /\ c >= 1 => \/ k >= 366 /\ m = 36524 * c + k
                          \/ k < 365 /\ m = 36524 * c + k + 1
<1>1. CASE m >= 36525
  <2> DEFINE c == (m - 1) \div 36524  i == (m - 1) % 36524
  <2>1. c \in 1..3 /\ i \in Nat /\ i <= 36523 /\ m = 36524 * c + i + 1  BY <1>1
  <2>2. Centuries(m) = c /\ InCentury(m) = i  BY <1>1 DEF Centuries, InCentury
  <2> HIDE DEF c, i
  <2> QED  BY <1>1, <2>1, <2>2 DEF AsLeaping
<1>2. CASE ~(m >= 36525)
  <2> QED  BY <1>2 DEF AsLeaping, Centuries, InCentury
<1> QED  BY <1>1, <1>2

\* The year a day number falls in, and what is left of the number in that year.
GregorianYear(n) ==
  LET m == n % 146097
      k == AsLeaping(m)
  IN  400 * (n \div 146097) + 100 * Centuries(m) + 4 * Fours(k) + YearsIn(k)
DayOfGregorianYear(n) == DaysIn(AsLeaping(n % 146097))

\* The steps of jalali_to_gregorian find the year of every day number.
LEMMA GregorianYearFound ==
  ASSUME NEW n \in Int
  PROVE  LET z == GregorianYear(n)
             rest == DayOfGregorianYear(n)
         IN  /\ z \in Int /\ rest \in Nat
             /\ n = YearStart(z) + rest
             /\ rest < (IF IsLeap(z + 1600) THEN 366 ELSE 365)
<1> DEFINE q == n \div 146097  m == n % 146097
           c == Centuries(m)  k == AsLeaping(m)
           f == Fours(k)  s == YearsIn(k)  rest == DaysIn(k)
           z == 400 * q + 100 * c + 4 * f + s
<1>1. q \in Int /\ m \in Nat /\ m <= 146096 /\ n = 146097 * q + m  OBVIOUS
<1>2. z = GregorianYear(n) /\ rest = DayOfGregorianYear(n)
  BY DEF GregorianYear, DayOfGregorianYear
<1> HIDE DEF q, m
<1>3. /\ c \in 0..3 /\ k \in Nat /\ k <= 36524
      /\ c = 0 => m = k
      /\ c >= 1 => \/ k >= 366 /\ m = 36524 * c + k
                   \/ k < 365 /\ m = 36524 * c + k + 1
  BY <1>1, CenturyFound
<1> HIDE DEF c, k
<1>4. /\ f \in Nat /\ s \in 0..3 /\ rest \in 0..365
      /\ k = 1461 * f + 365 * s + rest + (IF s >= 1 THEN 1 ELSE 0)
      /\ s >= 1 => rest < 365
  BY <1>3, FourYears
<1> HIDE DEF f, s, rest
<1>5. f \in 0..24  BY <1>3, <1>4
<1>6. YearStart(z)
        = 146097 * q + 36524 * c + 1461 * f + 365 * s
          + (IF s >= 1 THEN 1 ELSE 0) - (IF f + s >= 1 THEN 1 ELSE 0)
          + (IF c + f + s >= 1 THEN 1 ELSE 0)
  BY <1>1, <1>3, <1>4, <1>5, YearStartOf
<1>7. z \in Int  BY <1>1, <1>3, <1>4
<1>8. rest < 365 \/ IsLeap(z + 1600)
  <2>1. s = 0 /\ f = 0 /\ c >= 1 => rest < 365  BY <1>3, <1>4
  <2>2. s = 0 /\ (f >= 1 \/ c = 0) => IsLeap(z + 1600)
    BY <1>1, <1>3, <1>5 DEF IsLeap
  <2> QED  BY <1>3, <1>5, <1>4, <2>1, <2>2
<1> HIDE DEF z
<1>9. n = YearStart(z) + rest
  <2>1. c = 0 => YearStart(z) = 146097 * q + 1461 * f + 365 * s + (IF s >= 1 THEN 1 ELSE 0)
    BY <1>1, <1>4, <1>5, <1>6
  <2>2. c >= 1 /\ k >= 366
          => YearStart(z) = 146097 * q + 36524 * c + 1461 * f + 365 * s + (IF s >= 1 THEN 1 ELSE 0)
    <3>1. k >= 366 => f + s >= 1  BY <1>4, <1>5
    <3> QED  BY <1>1, <1>3, <1>4, <1>5, <1>6, <3>1
  <2>3. c >= 1 /\ k < 365 => YearStart(z) = 146097 * q + 36524 * c + 1 /\ k = rest
    <3>1. k < 365 => f = 0 /\ s = 0  BY <1>4, <1>5
    <3> QED  BY <1>1, <1>3, <1>4, <1>5, <1>6, <3>1
  <2> QED  BY <1>1, <1>3, <1>4, <1>5, <2>1, <2>2, <2>3
<1>10. rest \in Nat /\ rest < (IF IsLeap(z + 1600) THEN 366 ELSE 365)  BY <1>4, <1>8
<1> QED  BY <1>2, <1>7, <1>9, <1>10

\* The date of a day of a year.
LEMMA DateInYear ==
  ASSUME NEW y \in Int, NEW rest \in Nat, rest < (IF IsLeap(y) THEN 366 ELSE 365)
  PROVE  LET md == MonthAndDay(rest, Leaping(IsLeap(y)))
         IN  /\ Date(y, md.m, md.d) \in GregorianDates
             /\ GregorianDay(Date(y, md.m, md.d)) = YearStart(y - 1600) + rest
<1> DEFINE leap == IsLeap(y)
           lengths == Leaping(leap)
           md == MonthAndDay(rest, lengths)
           mo == md.m
           da == md.d
           g == Date(y, mo, da)
           before == BeforeMonth(mo, leap)
           upto == SumOfFirst(mo, lengths)
           start == YearStart(y - 1600)
           len == MonthLength(g)
<1>1. leap \in BOOLEAN  BY DEF IsLeap
<1>2. lengths \in Lengths  BY <1>1, GregorianLengths
<1>3. /\ mo \in 1..12
      /\ before <= rest
      /\ mo = 12 \/ rest < upto
      /\ da = rest - before + 1
  <2> HIDE DEF lengths
  <2> QED  BY <1>2, MonthFound DEF lengths, BeforeMonth
<1>4. /\ before \in Nat /\ len \in Nat /\ upto = before + len
      /\ mo = 12 => before + len = IF leap THEN 366 ELSE 365
  <2> HIDE DEF mo, da
  <2> QED  BY <1>3, MonthEnds
<1>5. start \in Int  BY YearStartType
<1>6. /\ g.y = y /\ g.m = mo /\ g.d = da /\ g \in [y : Int, m : {mo}, d : {da}]
  <2> HIDE DEF mo, da
  <2> QED  BY DEF Date
<1>7. GregorianDay(g) = start + before + (da - 1)
  <2> HIDE DEF mo, da
  <2> QED  BY <1>6 DEF GregorianDay
<1>8. rest < (IF leap THEN 366 ELSE 365)  OBVIOUS
<1> HIDE DEF leap, lengths, md, mo, da, before, upto, start, len, g
<1>9. da \in Nat /\ 1 <= da /\ da <= len  BY <1>1, <1>3, <1>4, <1>8
<1>10. g \in GregorianDates  BY <1>3, <1>6, <1>9 DEF GregorianDates, len
<1>11. GregorianDay(g) = start + rest  BY <1>3, <1>4, <1>5, <1>7, <1>9
<1> QED  BY <1>10, <1>11 DEF g, mo, da, md, lengths, leap, start

\* They find the date of every day number.
LEMMA GregorianOfDay ==
  ASSUME NEW n \in Int
  PROVE  GregorianOf(n) \in GregorianDates /\ GregorianDay(GregorianOf(n)) = n
<1> DEFINE z == GregorianYear(n)
           y == z + 1600
           rest == DayOfGregorianYear(n)
           md == MonthAndDay(rest, Leaping(IsLeap(y)))
<1>1. GregorianOf(n) = Date(y, md.m, md.d)
  <2> DEFINE m == n % 146097
             c == Centuries(m)
             k == AsLeaping(m)
             f == Fours(k)
             s == YearsIn(k)
             q == n \div 146097
             gy == 1600 + 400 * q + 100 * c + 4 * f + s
  <2>1. GregorianOf(n) = LET x == MonthAndDay(DaysIn(k), Leaping(IsLeap(gy)))
                         IN  Date(gy, x.m, x.d)
    BY DEF GregorianOf, Leaping, Centuries, InCentury, AsLeaping, Fours, YearsIn, DaysIn
  <2>2. gy = y
    <3>1. q \in Int /\ m \in Nat /\ m <= 146096  OBVIOUS
    <3>2. z = 400 * q + 100 * c + 4 * f + s  BY DEF GregorianYear
    <3> HIDE DEF q, m
    <3>3. c \in Int /\ k \in Nat  BY <3>1, CenturyFound
    <3> HIDE DEF c, k
    <3>4. f \in Int /\ s \in Int  BY <3>3, FourYears
    <3> HIDE DEF f, s, z
    <3> QED  BY <3>1, <3>2, <3>3, <3>4
  <2>3. DaysIn(k) = rest  BY DEF DayOfGregorianYear
  <2> HIDE DEF k, gy, y, rest
  <2> QED  BY <2>1, <2>2, <2>3
<1>2. /\ z \in Int /\ rest \in Nat
      /\ n = YearStart(z) + rest
      /\ rest < (IF IsLeap(y) THEN 366 ELSE 365)
  BY GregorianYearFound
<1>3. y \in Int /\ z = y - 1600  BY <1>2
<1> HIDE DEF y, z, rest
<1>4. /\ Date(y, md.m, md.d) \in GregorianDates
      /\ GregorianDay(Date(y, md.m, md.d)) = YearStart(y - 1600) + rest
  BY <1>2, <1>3, DateInYear
<1> HIDE DEF md
<1> QED  BY <1>1, <1>2, <1>3, <1>4

-----------------------------------------------------------------------------
(* The next Gregorian day *)

NextDate(g) ==
  IF g.d < MonthLength(g) THEN Date(g.y, g.m, g.d + 1)
  ELSE IF g.m < 12 THEN Date(g.y, g.m + 1, 1)
  ELSE Date(g.y + 1, 1, 1)

\* The day number of a date given by its fields.
LEMMA GregorianDayOf ==
  ASSUME NEW y, NEW m, NEW d
  PROVE  GregorianDay(Date(y, m, d)) = YearStart(y - 1600) + BeforeMonth(m, IsLeap(y)) + (d - 1)
BY DEF GregorianDay, Date

\* Fields that make a Gregorian date.
LEMMA GregorianDate ==
  ASSUME NEW y \in Int, NEW m \in 1..12, NEW d \in Nat, 1 <= d, d <= MonthLength(Date(y, m, 1))
  PROVE  Date(y, m, d) \in GregorianDates
<1>1. MonthLength(Date(y, m, d)) = MonthLength(Date(y, m, 1))  BY DEF MonthLength, Date
<1>2. d <= MonthLength(Date(y, m, d))  BY <1>1
<1>3. Date(y, m, d).d = d /\ Date(y, m, d) \in [y : Int, m : 1..12, d : Nat]  BY DEF Date
<1> QED  BY <1>2, <1>3 DEF GregorianDates

\* The next date is a date and has the next day number.
LEMMA NextDateFollows ==
  ASSUME NEW g \in GregorianDates
  PROVE  NextDate(g) \in GregorianDates /\ GregorianDay(NextDate(g)) = GregorianDay(g) + 1
<1> DEFINE y == g.y  mo == g.m  da == g.d  len == MonthLength(g)
           start == YearStart(y - 1600)  before == BeforeMonth(mo, IsLeap(y))
           year == IF IsLeap(y) THEN 366 ELSE 365
<1>1. /\ y \in Int /\ mo \in 1..12 /\ da \in Nat /\ 1 <= da
      /\ g = Date(y, mo, da) /\ da <= MonthLength(Date(y, mo, da)) /\ IsLeap(y) \in BOOLEAN
  BY DateFields
<1>2. len = MonthLength(Date(y, mo, 1)) /\ da <= len
  <2>1. MonthLength(Date(y, mo, da)) = MonthLength(Date(y, mo, 1))  BY DEF MonthLength, Date
  <2> QED  BY <1>1, <2>1
<1> HIDE DEF y, mo, da, len
<1>3. /\ before \in Nat /\ len \in Nat /\ 28 <= len
      /\ mo < 12 => BeforeMonth(mo + 1, IsLeap(y)) = before + len
      /\ mo = 12 => before + len = year
  BY <1>1, <1>2, MonthEnds
<1>4. start \in Int  BY <1>1, YearStartType
<1>5. GregorianDay(g) = start + before + (da - 1)  BY <1>1, GregorianDayOf
<1>6. CASE da < len
  <2>1. NextDate(g) = Date(y, mo, da + 1)  BY <1>6 DEF NextDate, y, mo, da, len
  <2>2. Date(y, mo, da + 1) \in GregorianDates  BY <1>1, <1>2, <1>3, <1>6, GregorianDate
  <2>3. GregorianDay(Date(y, mo, da + 1)) = start + before + ((da + 1) - 1)
    BY GregorianDayOf
  <2> HIDE DEF start, before
  <2> QED  BY <1>1, <1>3, <1>4, <1>5, <2>1, <2>2, <2>3
<1>7. CASE ~(da < len) /\ mo < 12
  <2>1. NextDate(g) = Date(y, mo + 1, 1)  BY <1>7 DEF NextDate, y, mo, da, len
  <2>2. 28 <= MonthLength(Date(y, mo + 1, 1)) /\ MonthLength(Date(y, mo + 1, 1)) \in Nat
        /\ mo + 1 \in 1..12
    BY <1>1, <1>7, MonthEnds
  <2>3. Date(y, mo + 1, 1) \in GregorianDates  BY <1>1, <2>2, GregorianDate
  <2>4. GregorianDay(Date(y, mo + 1, 1)) = start + BeforeMonth(mo + 1, IsLeap(y)) + (1 - 1)
    BY GregorianDayOf
  <2> HIDE DEF start, before
  <2> QED  BY <1>1, <1>2, <1>3, <1>4, <1>5, <1>7, <2>1, <2>3, <2>4
<1>8. CASE ~(da < len) /\ ~(mo < 12)
  <2>1. NextDate(g) = Date(y + 1, 1, 1)  BY <1>8 DEF NextDate, y, mo, da, len
  <2>2. 28 <= MonthLength(Date(y + 1, 1, 1)) /\ MonthLength(Date(y + 1, 1, 1)) \in Nat
        /\ BeforeMonth(1, IsLeap(y + 1)) = 0
    BY <1>1, MonthEnds
  <2>3. Date(y + 1, 1, 1) \in GregorianDates  BY <1>1, <2>2, GregorianDate
  <2>4. GregorianDay(Date(y + 1, 1, 1))
          = YearStart(y + 1 - 1600) + BeforeMonth(1, IsLeap(y + 1)) + (1 - 1)
    BY <1>1, GregorianDayOf
  <2>5. YearStart(y + 1 - 1600) = start + year
    <3>1. y - 1600 \in Int /\ (y - 1600) + 1600 = y /\ (y - 1600) + 1 = y + 1 - 1600  BY <1>1
    <3>2. YearStart((y - 1600) + 1) = YearStart(y - 1600) + (IF IsLeap((y - 1600) + 1600) THEN 366 ELSE 365)
      BY <3>1, LeapYears
    <3> QED  BY <3>1, <3>2
  <2> DEFINE after == YearStart(y + 1 - 1600)
  <2>6. year \in Nat  OBVIOUS
  <2> HIDE DEF start, before, after, year
  <2> QED  BY <1>1, <1>2, <1>3, <1>4, <1>5, <1>8, <2>1, <2>2, <2>3, <2>4, <2>5, <2>6 DEF after
<1> QED  BY <1>6, <1>7, <1>8

-----------------------------------------------------------------------------
(* The program's numbers of Gregorian days *)

\* The number gregorian_to_jalali counts is that of the date.
LEMMA DayNoOfDate ==
  ASSUME NEW g \in GregorianDates
  PROVE  GregorianDayNo(g) = GregorianDay(g)
<1> DEFINE z == g.y - 1600  leap == IsLeap(g.y)  mo == g.m  da == g.d
           R == SumOfFirst(mo - 1, g_days_in_month)
           x == IF mo > 2 /\ leap THEN 1 ELSE 0
<1>1. g.y \in Int /\ mo \in 1..12 /\ da \in Nat /\ leap \in BOOLEAN  BY DateFields
<1>2. BeforeMonth(mo, leap) = R + x /\ R \in Nat  BY <1>1, LeapDay
<1>3. z \in Int /\ YearStart(z) \in Int  BY <1>1, YearStartType
<1>4. GregorianDayNo(g) = YearStart(z) + R + x + (da - 1)
  BY DEF GregorianDayNo, YearStart
<1>5. GregorianDay(g) = YearStart(z) + BeforeMonth(mo, leap) + (da - 1)
  BY DEF GregorianDay
<1>6. x \in Nat  OBVIOUS
<1> HIDE DEF z, leap, mo, da, R, x
<1> QED  BY <1>1, <1>2, <1>3, <1>4, <1>5, <1>6

\* Python's ordinal numbers are ahead of it by a constant.
LEMMA OrdinalOfDate ==
  ASSUME NEW g \in GregorianDates
  PROVE  Ordinal(g) = GregorianDay(g) + 584023
<1> DEFINE y == g.y  before == BeforeMonth(g.m, IsLeap(g.y))  da == g.d
           start == YearStart(y - 1600)
           years == 365 * (y - 1) + (y - 1) \div 4 - (y - 1) \div 100 + (y - 1) \div 400
<1>1. y \in Int /\ g.m \in 1..12 /\ da \in Nat /\ IsLeap(y) \in BOOLEAN  BY DateFields
<1>2. before \in Nat  BY <1>1, LeapDay
<1>3. Ordinal(g) = years + before + da  BY DEF Ordinal, BeforeMonth, Leaping
<1>4. GregorianDay(g) = start + before + (da - 1)  BY DEF GregorianDay
<1>5. start \in Int  BY <1>1, YearStartType
<1>6. years = start + 584022
  <2> HIDE DEF y
  <2> QED  BY <1>1 DEF YearStart
<1> HIDE DEF y, before, da, start, years
<1> QED  BY <1>1, <1>2, <1>3, <1>4, <1>5, <1>6

-----------------------------------------------------------------------------
(* Jalali days *)

JalaliStart(w) == 365 * w + (w \div 33) * 8 + ((w % 33) + 3) \div 4
JalaliLeap(w) == (w % 33) % 4 = 0 /\ w % 33 # 32

\* The number of a Jalali year's first day is an integer.
LEMMA JalaliStartType == ASSUME NEW w \in Int PROVE JalaliStart(w) \in Int
BY DEF JalaliStart

\* A year by the cycle of 33 years it is in.
LEMMA JalaliStartOf ==
  ASSUME NEW q \in Int, NEW r \in 0..32
  PROVE  /\ JalaliStart(33 * q + r) = 12053 * q + 365 * r + (r + 3) \div 4
         /\ JalaliLeap(33 * q + r) <=> r % 4 = 0 /\ r # 32
<1>1. (33 * q + r) \div 33 = q /\ (33 * q + r) % 33 = r  OBVIOUS
<1> QED  BY <1>1 DEF JalaliStart, JalaliLeap

\* A Jalali year is as long as its place in the cycle of 33 years says.
LEMMA JalaliLeapYears ==
  ASSUME NEW w \in Int
  PROVE  JalaliStart(w + 1) = JalaliStart(w) + (IF JalaliLeap(w) THEN 366 ELSE 365)
<1> DEFINE q == w \div 33  r == w % 33
<1>1. q \in Int /\ r \in 0..32 /\ w = 33 * q + r  OBVIOUS
<1> HIDE DEF q, r
<1>2. /\ JalaliStart(w) = 12053 * q + 365 * r + (r + 3) \div 4
      /\ JalaliLeap(w) <=> r % 4 = 0 /\ r # 32
  BY <1>1, JalaliStartOf
<1>3. CASE r = 32
  <2>1. w + 1 = 33 * (q + 1) + 0 /\ q + 1 \in Int /\ 0 \in 0..32  BY <1>1, <1>3
  <2>2. JalaliStart(w + 1) = 12053 * (q + 1) + 365 * 0 + (0 + 3) \div 4
    BY <2>1, JalaliStartOf
  <2> QED  BY <1>1, <1>2, <1>3, <2>2
<1>4. CASE r # 32
  <2>1. w + 1 = 33 * q + (r + 1) /\ r + 1 \in 0..32  BY <1>1, <1>4
  <2>2. JalaliStart(w + 1) = 12053 * q + 365 * (r + 1) + ((r + 1) + 3) \div 4
    BY <1>1, <2>1, JalaliStartOf
  <2> QED  BY <1>1, <1>2, <1>4, <2>2
<1> QED  BY <1>3, <1>4

\* Later Jalali years begin after the end of earlier ones.
LEMMA JalaliYearsInOrder ==
  ASSUME NEW v \in Int, NEW w \in Int, v < w
  PROVE  JalaliStart(v + 1) <= JalaliStart(w)
<1> DEFINE p == (v + 1) \div 33  a == (v + 1) % 33  q == w \div 33  r == w % 33
<1>1. /\ p \in Int /\ a \in 0..32 /\ v + 1 = 33 * p + a
      /\ q \in Int /\ r \in 0..32 /\ w = 33 * q + r
  OBVIOUS
<1> HIDE DEF p, a, q, r
<1> DEFINE b == (a + 3) \div 4  s == (r + 3) \div 4
<1>2. JalaliStart(v + 1) = 12053 * p + 365 * a + b  BY <1>1, JalaliStartOf
<1>3. JalaliStart(w) = 12053 * q + 365 * r + s  BY <1>1, JalaliStartOf
<1>4. b \in 0..8 /\ s \in 0..8 /\ (a <= r => b <= s)  BY <1>1
<1> HIDE DEF b, s
<1>5. 33 * p + a <= 33 * q + r  BY <1>1
<1>6. p < q \/ (p = q /\ a <= r)  BY <1>1, <1>5
<1>7. p < q => p + 1 <= q  BY <1>1
<1> QED  BY <1>1, <1>2, <1>3, <1>4, <1>6, <1>7

\* The days of a month, Esfand being longer in a leap year.
JalaliMonth(y, m) == IF m = 12 /\ JalaliLeap(y - 979) THEN 30 ELSE j_days_in_month[m]
JalaliBefore(m) == SumOfFirst(m - 1, j_days_in_month)
JalaliDates == {j \in [y : Int, m : 1..12, d : Nat] : 1 <= j.d /\ j.d <= JalaliMonth(j.y, j.m)}

\* Jalali months follow each other without a gap, and a year ends with Esfand.
LEMMA JalaliMonthEnds ==
  ASSUME NEW y \in Int, NEW m \in 1..12
  PROVE  /\ JalaliBefore(1) = 0
         /\ JalaliBefore(m) \in Nat
         /\ JalaliMonth(y, m) \in 29..31
         /\ m < 12 => /\ JalaliBefore(m + 1) = JalaliBefore(m) + JalaliMonth(y, m)
                      /\ SumOfFirst(m, j_days_in_month) = JalaliBefore(m) + JalaliMonth(y, m)
         /\ m = 12 => JalaliBefore(m) + JalaliMonth(y, m) = IF JalaliLeap(y - 979) THEN 366 ELSE 365
         /\ \A k \in 1..12 : m < k => JalaliBefore(m) + JalaliMonth(y, m) <= JalaliBefore(k)
<1> DEFINE leap == JalaliLeap(y - 979)
           S(k) == SumOfFirst(k, j_days_in_month)
           len == JalaliMonth(y, m)
<1>0. leap \in BOOLEAN  BY DEF JalaliLeap
<1>1. len = IF m = 12 /\ leap THEN 30 ELSE j_days_in_month[m]  BY DEF JalaliMonth
<1> HIDE DEF leap, len
<1>2. /\ S(0) = 0 /\ S(1) = 31 /\ S(2) = 62 /\ S(3) = 93 /\ S(4) = 124 /\ S(5) = 155
      /\ S(6) = 186 /\ S(7) = 216 /\ S(8) = 246 /\ S(9) = 276 /\ S(10) = 306 /\ S(11) = 336
  BY JalaliTable
<1>3. /\ \A k \in 1..6 : j_days_in_month[k] = 31
      /\ \A k \in 7..11 : j_days_in_month[k] = 30
      /\ j_days_in_month[12] = 29
  BY JalaliLengths
<1>4. m = 1 \/ m = 2 \/ m = 3 \/ m = 4 \/ m = 5 \/ m = 6 \/ m = 7 \/ m = 8 \/ m = 9 \/ m = 10
      \/ m = 11 \/ m = 12
  OBVIOUS
<1> HIDE DEF S
<1>5. /\ len \in 29..31 /\ S(m - 1) \in Nat
      /\ m < 12 => S(m) = S(m - 1) + len
      /\ m = 12 => S(m - 1) + len = IF leap THEN 366 ELSE 365
  BY <1>0, <1>1, <1>2, <1>3, <1>4
<1>6. \A k \in 1..12 : m < k => S(m - 1) + len <= S(k - 1)
  <2> SUFFICES ASSUME NEW k \in 1..12, m < k PROVE S(m - 1) + len <= S(k - 1)  OBVIOUS
  <2>1. k - 1 = 1 \/ k - 1 = 2 \/ k - 1 = 3 \/ k - 1 = 4 \/ k - 1 = 5 \/ k - 1 = 6
        \/ k - 1 = 7 \/ k - 1 = 8 \/ k - 1 = 9 \/ k - 1 = 10 \/ k - 1 = 11
    OBVIOUS
  <2>2. S(m) = S(m - 1) + len  BY <1>5
  <2>3. S(m) <= S(k - 1)  BY <1>2, <1>4, <2>1
  <2> QED  BY <2>2, <2>3
<1>7. \A k \in 1..12 : JalaliBefore(k) = S(k - 1)  BY DEF JalaliBefore, S
<1>8. m < 12 => m + 1 \in 1..12 /\ (m + 1) - 1 = m  OBVIOUS
<1>9. 1 \in 1..12 /\ 1 - 1 = 0  OBVIOUS
<1>10. /\ JalaliBefore(1) = 0
       /\ JalaliBefore(m) \in Nat
       /\ m < 12 => /\ JalaliBefore(m + 1) = JalaliBefore(m) + len
                    /\ S(m) = JalaliBefore(m) + len
       /\ m = 12 => JalaliBefore(m) + len = IF leap THEN 366 ELSE 365
       /\ \A k \in 1..12 : m < k => JalaliBefore(m) + len <= JalaliBefore(k)
  BY <1>2, <1>5, <1>6, <1>7, <1>8, <1>9
<1> QED  BY <1>5, <1>10 DEF leap, len, S

\* The number of a Jalali date, from the day gregorian_to_jalali counts from.
JalaliDay(j) == JalaliStart(j.y - 979) + JalaliBefore(j.m) + (j.d - 1)

\* The fields of a Jalali date.
LEMMA JalaliFields ==
  ASSUME NEW j \in JalaliDates
  PROVE  /\ j.y \in Int /\ j.m \in 1..12 /\ j.d \in Nat /\ 1 <= j.d
         /\ j.d <= JalaliMonth(j.y, j.m)
         /\ j = Date(j.y, j.m, j.d)
BY DEF JalaliDates, Date

\* The number jalali_to_gregorian counts is that of the date.
LEMMA JalaliDayNoOfDate ==
  ASSUME NEW j \in JalaliDates
  PROVE  JalaliDayNo(j) = JalaliDay(j) + 79
<1> DEFINE w == j.y - 979  before == JalaliBefore(j.m)  da == j.d
<1>1. w \in Int /\ da \in Nat /\ j.y \in Int /\ j.m \in 1..12  BY JalaliFields
<1>2. before \in Nat /\ JalaliStart(w) \in Int
  <2>1. before \in Nat  BY <1>1, JalaliMonthEnds
  <2>2. JalaliStart(w) \in Int  BY <1>1, JalaliStartType
  <2> QED  BY <2>1, <2>2
<1>3. JalaliDayNo(j) = JalaliStart(w) + before + (da - 1) + 79
  BY DEF JalaliDayNo, JalaliStart, JalaliBefore
<1>4. JalaliDay(j) = JalaliStart(w) + before + (da - 1)  BY DEF JalaliDay
<1> HIDE DEF w, before, da
<1> QED  BY <1>1, <1>2, <1>3, <1>4

\* The day number of a Jalali date given by its fields.
LEMMA JalaliDayOf ==
  ASSUME NEW y, NEW m, NEW d
  PROVE  JalaliDay(Date(y, m, d)) = JalaliStart(y - 979) + JalaliBefore(m) + (d - 1)
BY DEF JalaliDay, Date

\* Fields that make a Jalali date.
LEMMA JalaliDate ==
  ASSUME NEW y \in Int, NEW m \in 1..12, NEW d \in Nat, 1 <= d, d <= JalaliMonth(y, m)
  PROVE  Date(y, m, d) \in JalaliDates
BY DEF Date, JalaliDates

\* The days of a Jalali year are numbered within it.
LEMMA JalaliDayInYear ==
  ASSUME NEW j \in JalaliDates
  PROVE  /\ JalaliDay(j) \in Int
         /\ JalaliStart(j.y - 979) <= JalaliDay(j)
         /\ JalaliDay(j) < JalaliStart(j.y - 979 + 1)
<1> DEFINE w == j.y - 979  before == JalaliBefore(j.m)  len == JalaliMonth(j.y, j.m)  da == j.d
           year == IF JalaliLeap(j.y - 979) THEN 366 ELSE 365
<1>1. w \in Int /\ j.y \in Int /\ j.m \in 1..12 /\ da \in Nat /\ 1 <= da /\ da <= len
  BY JalaliFields
<1>2. /\ before \in Nat /\ len \in 29..31
      /\ j.m = 12 => before + len = year
      /\ \A k \in 1..12 : j.m < k => before + len <= JalaliBefore(k)
  BY <1>1, JalaliMonthEnds
<1>3. 12 \in 1..12 /\ JalaliBefore(12) = 336
  <2>1. 12 - 1 = 11 /\ 12 \in 1..12  OBVIOUS
  <2> QED  BY <2>1, JalaliTable DEF JalaliBefore
<1>4. JalaliStart(w) \in Int /\ JalaliStart(w + 1) = JalaliStart(w) + year
  BY <1>1, JalaliStartType, JalaliLeapYears
<1>5. JalaliDay(j) = JalaliStart(w) + before + (da - 1)  BY DEF JalaliDay
<1>6. year \in 365..366  OBVIOUS
<1>7. before + len <= year
  <2>1. j.m < 12 \/ j.m = 12  BY <1>1
  <2>2. CASE j.m = 12
    <3>1. before + len = year  BY <1>2, <2>2
    <3> HIDE DEF before, len, year
    <3> QED  BY <1>6, <3>1
  <2>3. CASE j.m < 12
    <3>1. before + len <= JalaliBefore(12)  BY <1>2, <1>3, <2>3
    <3> HIDE DEF before, len, year
    <3> QED  BY <1>2, <1>3, <1>6, <3>1
  <2> QED  BY <2>1, <2>2, <2>3
<1> HIDE DEF before, len, da, year
<1> QED  BY <1>1, <1>2, <1>4, <1>5, <1>6, <1>7

\* No two Jalali dates have the same number.
LEMMA JalaliDistinct ==
  ASSUME NEW g \in JalaliDates, NEW h \in JalaliDates, JalaliDay(g) = JalaliDay(h)
  PROVE  g = h
<1>1. g.y \in Int /\ h.y \in Int  BY JalaliFields
<1>2. ASSUME NEW a \in JalaliDates, NEW b \in JalaliDates, a.y < b.y
      PROVE  JalaliDay(a) < JalaliDay(b)
  <2>1. a.y \in Int /\ b.y \in Int  BY JalaliFields
  <2> DEFINE z == a.y - 979  w == b.y - 979
  <2>2. z \in Int /\ w \in Int /\ z < w  BY <1>2, <2>1
  <2>3. /\ JalaliDay(a) \in Int /\ JalaliDay(b) \in Int
        /\ JalaliStart(w) <= JalaliDay(b) /\ JalaliDay(a) < JalaliStart(z + 1)
    BY JalaliDayInYear
  <2> HIDE DEF z, w
  <2>4. JalaliStart(z + 1) <= JalaliStart(w)  BY <2>2, JalaliYearsInOrder
  <2>5. JalaliStart(z + 1) \in Int /\ JalaliStart(w) \in Int  BY <2>2, JalaliStartType
  <2> QED  BY <2>3, <2>4, <2>5
<1>3. g.y = h.y
  <2>1. JalaliDay(g) \in Int /\ JalaliDay(h) \in Int  BY JalaliDayInYear
  <2>2. g.y < h.y => JalaliDay(g) < JalaliDay(h)  BY <1>2
  <2>3. h.y < g.y => JalaliDay(h) < JalaliDay(g)  BY <1>2
  <2> QED  BY <1>1, <2>1, <2>2, <2>3
<1>4. PICK y \in Int : y = g.y /\ y = h.y  BY <1>1, <1>3
<1>5. \A a \in JalaliDates :
        a.y = y => /\ a.m \in 1..12 /\ a.d \in Nat /\ 1 <= a.d
                   /\ JalaliBefore(a.m) \in Nat
                   /\ \A k \in 1..12 : a.m < k => JalaliBefore(a.m) + a.d <= JalaliBefore(k)
  <2> SUFFICES ASSUME NEW a \in JalaliDates, a.y = y
               PROVE  /\ a.m \in 1..12 /\ a.d \in Nat /\ 1 <= a.d
                      /\ JalaliBefore(a.m) \in Nat
                      /\ \A k \in 1..12 : a.m < k => JalaliBefore(a.m) + a.d <= JalaliBefore(k)
    BY Zenon
  <2> DEFINE len == JalaliMonth(y, a.m)  before == JalaliBefore(a.m)
  <2>1. a.m \in 1..12 /\ a.d \in Nat /\ 1 <= a.d /\ a.d <= len  BY JalaliFields
  <2>2. /\ before \in Nat /\ len \in 29..31
        /\ \A k \in 1..12 : a.m < k => before + len <= JalaliBefore(k)
        /\ \A k \in 1..12 : JalaliBefore(k) \in Nat
    BY <1>4, <2>1, JalaliMonthEnds
  <2> HIDE DEF len, before
  <2>3. \A k \in 1..12 : a.m < k => before + a.d <= JalaliBefore(k)  BY <2>1, <2>2
  <2> QED  BY <2>1, <2>2, <2>3 DEF before
<1> DEFINE start == JalaliStart(y - 979)  p == JalaliBefore(g.m)  q == JalaliBefore(h.m)
<1>6. JalaliDay(g) = start + p + (g.d - 1) /\ JalaliDay(h) = start + q + (h.d - 1)
  BY <1>4 DEF JalaliDay
<1>7. start \in Int  BY <1>4, JalaliStartType
<1>8. g.m = h.m /\ g.d = h.d
  <2>0. g.y = y /\ h.y = y  BY <1>4
  <2>1. /\ g.m \in 1..12 /\ g.d \in Nat /\ 1 <= g.d /\ p \in Nat
        /\ h.m \in 1..12 /\ h.d \in Nat /\ 1 <= h.d /\ q \in Nat
    BY <1>5, <2>0
  <2>2. g.m < h.m => p + g.d <= q  BY <1>5, <2>0, <2>1
  <2>3. h.m < g.m => q + h.d <= p  BY <1>5, <2>0, <2>1
  <2> HIDE DEF start, p, q
  <2>4. p + g.d = q + h.d
    <3>1. start + p + (g.d - 1) = start + q + (h.d - 1)  BY <1>6, Zenon
    <3> QED  BY <1>7, <2>1, <3>1
  <2>5. g.m = h.m  BY <2>1, <2>2, <2>3, <2>4
  <2>6. p = q  BY <2>5 DEF p, q
  <2> QED  BY <2>1, <2>4, <2>5, <2>6
<1>9. g = Date(g.y, g.m, g.d) /\ h = Date(h.y, h.m, h.d)  BY JalaliFields
<1> QED  BY <1>3, <1>8, <1>9

\* The year a day number falls in, found by cycles of 33 years, of four years and
\* years, and what is left of the number in that year.
JalaliYear(e) ==
  LET m == e % 12053
  IN  33 * (e \div 12053) + 4 * Fours(m) + YearsIn(m)
DayOfJalaliYear(e) == DaysIn(e % 12053)

\* The steps of gregorian_to_jalali find the year of every day number.
LEMMA JalaliYearFound ==
  ASSUME NEW e \in Int
  PROVE  LET w == JalaliYear(e)
             rest == DayOfJalaliYear(e)
         IN  /\ w \in Int /\ rest \in Nat
             /\ e = JalaliStart(w) + rest
             /\ rest < (IF JalaliLeap(w) THEN 366 ELSE 365)
<1>1. PICK q \in Int, m \in Nat :
        q = e \div 12053 /\ m = e % 12053 /\ m <= 12052 /\ e = 12053 * q + m
  <2> DEFINE q == e \div 12053  m == e % 12053
  <2>1. q \in Int /\ m \in Nat /\ m <= 12052 /\ e = 12053 * q + m  OBVIOUS
  <2> QED  BY <2>1
<1> DEFINE f == Fours(m)  s == YearsIn(m)  rest == DaysIn(m)
           r == 4 * f + s
           w == 33 * q + 4 * f + s
<1>2. w = JalaliYear(e) /\ rest = DayOfJalaliYear(e)  BY <1>1 DEF JalaliYear, DayOfJalaliYear
<1>3. /\ f \in Nat /\ s \in 0..3 /\ rest \in 0..365
      /\ m = 1461 * f + 365 * s + rest + (IF s >= 1 THEN 1 ELSE 0)
      /\ s >= 1 => rest < 365
  BY FourYears
<1> HIDE DEF f, s, rest
<1>4. f \in 0..8 /\ (f = 8 => s = 0 /\ rest <= 364)  BY <1>1, <1>3
<1>5. r \in 0..32 /\ w = 33 * q + r /\ (r = 32 => f = 8)  BY <1>1, <1>3, <1>4
<1>6. (r + 3) \div 4 = f + (IF s >= 1 THEN 1 ELSE 0) /\ (r % 4 = 0 <=> s = 0)  BY <1>3, <1>4
<1> DEFINE b == (r + 3) \div 4
<1>7. /\ JalaliStart(w) = 12053 * q + 365 * r + b
      /\ JalaliLeap(w) <=> r % 4 = 0 /\ r # 32
  BY <1>1, <1>5, JalaliStartOf
<1>8. JalaliStart(w) + rest = e
  <2>1. 365 * r = 1460 * f + 365 * s  BY <1>3
  <2> DEFINE R == 365 * r
  <2>2. b = f + (IF s >= 1 THEN 1 ELSE 0) /\ JalaliStart(w) = 12053 * q + R + b /\ R = 1460 * f + 365 * s
    BY <1>6, <1>7, <2>1
  <2> HIDE DEF b, r, R, w
  <2> QED  BY <1>1, <1>3, <2>2
<1>9. rest < 365 \/ JalaliLeap(w)
  <2> HIDE DEF r, w
  <2> QED  BY <1>3, <1>4, <1>5, <1>6, <1>7
<1>10. w \in Int  BY <1>1, <1>3
<1> HIDE DEF w
<1>11. rest \in Nat /\ rest < (IF JalaliLeap(w) THEN 366 ELSE 365)  BY <1>3, <1>9
<1> QED  BY <1>2, <1>8, <1>10, <1>11

\* They find the date of every day number.
LEMMA JalaliOfDay ==
  ASSUME NEW n \in Int
  PROVE  JalaliOf(n) \in JalaliDates /\ JalaliDay(JalaliOf(n)) = n - 79
<1> DEFINE e == n - 79
           w == JalaliYear(e)
           y == w + 979
           rest == DayOfJalaliYear(e)
           md == MonthAndDay(rest, j_days_in_month)
           mo == md.m
           da == md.d
           before == JalaliBefore(mo)
           upto == SumOfFirst(mo, j_days_in_month)
           len == JalaliMonth(y, mo)
           start == JalaliStart(w)
           year == IF JalaliLeap(w) THEN 366 ELSE 365
<1>1. e \in Int  OBVIOUS
<1>2. JalaliOf(n) = Date(y, mo, da)
  <2> DEFINE m == e % 12053
             q == e \div 12053
             four == m % 1461
             jy == 979 + 33 * q + 4 * Fours(m)
             yy == IF four >= 366 THEN jy + (four - 1) \div 365 ELSE jy
             x == MonthAndDay(DaysIn(m), j_days_in_month)
  <2>1. JalaliOf(n) = Date(yy, x.m, x.d)  BY DEF JalaliOf, DaysIn, Fours
  <2>2. q \in Int /\ m \in Nat  BY <1>1
  <2>3. w = 33 * q + 4 * Fours(m) + YearsIn(m)  BY DEF JalaliYear
  <2>4. x = md  BY DEF DayOfJalaliYear
  <2>5. yy = jy + YearsIn(m)  BY <2>2 DEF YearsIn, Fours
  <2> HIDE DEF q, m
  <2>6. Fours(m) \in Int /\ YearsIn(m) \in Int  BY <2>2, FourYears
  <2>7. yy = y
    <3> HIDE DEF w, yy
    <3> QED  BY <2>2, <2>3, <2>5, <2>6
  <2> HIDE DEF yy, y, x, md
  <2> QED  BY <2>1, <2>4, <2>7
<1>3. w \in Int /\ rest \in Nat /\ e = start + rest /\ rest < year
  BY <1>1, JalaliYearFound
<1>4. y \in Int /\ w = y - 979  BY <1>3
<1> HIDE DEF e, w, y, rest
<1>5. /\ mo \in 1..12
      /\ before <= rest
      /\ mo = 12 \/ rest < upto
      /\ da = rest - before + 1
  BY <1>3, MonthFound, JalaliLengths DEF JalaliBefore
<1> HIDE DEF mo, da
<1>6. /\ before \in Nat /\ len \in 29..31
      /\ mo < 12 => upto = before + len
      /\ mo = 12 => before + len = year
  BY <1>4, <1>5, JalaliMonthEnds
<1>7. start \in Int /\ year \in 365..366  BY <1>3, JalaliStartType
<1> HIDE DEF before, upto, len, year
<1>8. da \in Nat /\ 1 <= da /\ da <= len  BY <1>3, <1>5, <1>6, <1>7
<1>9. Date(y, mo, da) \in JalaliDates  BY <1>4, <1>5, <1>8, JalaliDate DEF len
<1>10. JalaliDay(Date(y, mo, da)) = start + before + (da - 1)
  BY <1>4, JalaliDayOf DEF before
<1>11. JalaliDay(Date(y, mo, da)) = e
  <2> HIDE DEF start
  <2> QED  BY <1>3, <1>5, <1>6, <1>7, <1>8, <1>10
<1> QED  BY <1>2, <1>9, <1>11 DEF e

-----------------------------------------------------------------------------
(* The next Jalali day *)

NextJalali(j) ==
  IF j.d < JalaliMonth(j.y, j.m) THEN Date(j.y, j.m, j.d + 1)
  ELSE IF j.m < 12 THEN Date(j.y, j.m + 1, 1)
  ELSE Date(j.y + 1, 1, 1)

\* The first days of two months that follow each other.
LEMMA MonthFollows ==
  ASSUME NEW y \in Int, NEW m \in 1..12
  PROVE  LET next == IF m = 12 THEN Date(y + 1, 1, 1) ELSE Date(y, m + 1, 1)
         IN  /\ Date(y, m, 1) \in JalaliDates /\ next \in JalaliDates
             /\ JalaliDay(next) = JalaliDay(Date(y, m, 1)) + JalaliMonth(y, m)
<1> DEFINE start == JalaliStart(y - 979)  before == JalaliBefore(m)  len == JalaliMonth(y, m)
           year == IF JalaliLeap(y - 979) THEN 366 ELSE 365
<1>1. /\ before \in Nat /\ len \in 29..31
      /\ m < 12 => JalaliBefore(m + 1) = before + len
      /\ m = 12 => before + len = year
  BY JalaliMonthEnds
<1>2. start \in Int  BY JalaliStartType
<1>3. Date(y, m, 1) \in JalaliDates  BY <1>1, JalaliDate
<1>4. JalaliDay(Date(y, m, 1)) = start + before + (1 - 1)  BY JalaliDayOf
<1>5. CASE m = 12
  <2>1. JalaliBefore(1) = 0 /\ JalaliMonth(y + 1, 1) \in 29..31  BY JalaliMonthEnds
  <2>2. Date(y + 1, 1, 1) \in JalaliDates  BY <2>1, JalaliDate
  <2>3. JalaliDay(Date(y + 1, 1, 1)) = JalaliStart(y + 1 - 979) + JalaliBefore(1) + (1 - 1)
    BY JalaliDayOf
  <2>4. JalaliStart(y + 1 - 979) = start + year
    <3>1. y - 979 \in Int /\ (y - 979) + 1 = y + 1 - 979  OBVIOUS
    <3>2. JalaliStart((y - 979) + 1) = start + year  BY <3>1, JalaliLeapYears
    <3> QED  BY <3>1, <3>2
  <2>5. year \in Int  OBVIOUS
  <2> DEFINE after == JalaliStart(y + 1 - 979)
  <2> HIDE DEF start, before, len, year, after
  <2>6. JalaliDay(Date(y + 1, 1, 1)) = JalaliDay(Date(y, m, 1)) + len
    BY <1>1, <1>2, <1>4, <1>5, <2>1, <2>3, <2>4, <2>5 DEF after
  <2> QED  BY <1>3, <1>5, <2>2, <2>6 DEF len
<1>6. CASE m # 12
  <2>1. m < 12 /\ m + 1 \in 1..12  BY <1>6
  <2>2. JalaliMonth(y, m + 1) \in 29..31  BY <2>1, JalaliMonthEnds
  <2>3. Date(y, m + 1, 1) \in JalaliDates  BY <2>1, <2>2, JalaliDate
  <2>4. JalaliDay(Date(y, m + 1, 1)) = start + JalaliBefore(m + 1) + (1 - 1)
    BY JalaliDayOf
  <2> HIDE DEF start, before, len
  <2>5. JalaliDay(Date(y, m + 1, 1)) = JalaliDay(Date(y, m, 1)) + len
    BY <1>1, <1>2, <1>4, <2>1, <2>4
  <2> QED  BY <1>3, <1>6, <2>3, <2>5 DEF len
<1> QED  BY <1>5, <1>6

\* The next Jalali date is a date and has the next day number.
LEMMA NextJalaliFollows ==
  ASSUME NEW j \in JalaliDates
  PROVE  NextJalali(j) \in JalaliDates /\ JalaliDay(NextJalali(j)) = JalaliDay(j) + 1
<1> DEFINE y == j.y  m == j.m  d == j.d  len == JalaliMonth(y, m)
           start == JalaliStart(y - 979)  before == JalaliBefore(m)
           first == Date(y, m, 1)
           next == IF m = 12 THEN Date(y + 1, 1, 1) ELSE Date(y, m + 1, 1)
<1>1. /\ y \in Int /\ m \in 1..12 /\ d \in Nat /\ 1 <= d /\ d <= len /\ j = Date(y, m, d)
  BY JalaliFields
<1>2. NextJalali(j) = IF d < len THEN Date(y, m, d + 1) ELSE next  BY <1>1 DEF NextJalali
<1> HIDE DEF y, m, d
<1>3. /\ next \in JalaliDates /\ JalaliDay(next) = JalaliDay(first) + len
  BY <1>1, MonthFollows
<1>4. before \in Nat /\ len \in 29..31  BY <1>1, JalaliMonthEnds
<1>5. start \in Int  BY <1>1, JalaliStartType
<1>6. /\ JalaliDay(j) = start + before + (d - 1)
      /\ JalaliDay(first) = start + before + (1 - 1)
      /\ JalaliDay(Date(y, m, d + 1)) = start + before + ((d + 1) - 1)
  BY <1>1, JalaliDayOf
<1>7. CASE d < len
  <2>1. Date(y, m, d + 1) \in JalaliDates  BY <1>1, <1>4, <1>7, JalaliDate
  <2> HIDE DEF start, before, len
  <2>2. JalaliDay(Date(y, m, d + 1)) = JalaliDay(j) + 1  BY <1>1, <1>4, <1>5, <1>6
  <2> QED  BY <1>2, <1>7, <2>1, <2>2
<1>8. CASE ~(d < len)
  <2> HIDE DEF start, before, len, next, first
  <2>1. d = len  BY <1>1, <1>4, <1>8
  <2>2. JalaliDay(next) = JalaliDay(j) + 1  BY <1>1, <1>3, <1>4, <1>5, <1>6, <2>1
  <2> QED  BY <1>2, <1>3, <1>8, <2>2
<1> QED  BY <1>7, <1>8

-----------------------------------------------------------------------------
(* The two conversions *)

\* gregorian_to_jalali gives a Jalali date of the same day.
LEMMA ToJalali ==
  ASSUME NEW g \in GregorianDates
  PROVE  GregorianToJalali(g) \in JalaliDates /\ JalaliDay(GregorianToJalali(g)) = GregorianDay(g) - 79
<1>1. GregorianDayNo(g) = GregorianDay(g) /\ GregorianDay(g) \in Int
  BY DayNoOfDate, DayInYear
<1> QED  BY <1>1, JalaliOfDay DEF GregorianToJalali

\* jalali_to_gregorian gives a Gregorian date of the same day.
LEMMA ToGregorian ==
  ASSUME NEW j \in JalaliDates
  PROVE  /\ JalaliToGregorian(j) \in GregorianDates
         /\ GregorianDay(JalaliToGregorian(j)) = JalaliDay(j) + 79
<1>1. JalaliDayNo(j) = JalaliDay(j) + 79 /\ JalaliDayNo(j) \in Int
  BY JalaliDayNoOfDate, JalaliDayInYear
<1> QED  BY <1>1, GregorianOfDay DEF JalaliToGregorian

(* Either conversion undoes the other, for every date of every year: a     *)
(* date of a request that is stored in one calendar and shown in the other *)
(* (jalali.py:14-118) stays the same day.                                  *)
THEOREM ConversionsInverse ==
  /\ \A g \in GregorianDates : JalaliToGregorian(GregorianToJalali(g)) = g
  /\ \A j \in JalaliDates : GregorianToJalali(JalaliToGregorian(j)) = j
<1>1. ASSUME NEW g \in GregorianDates PROVE JalaliToGregorian(GregorianToJalali(g)) = g
  <2> DEFINE j == GregorianToJalali(g)  h == JalaliToGregorian(j)
  <2>1. j \in JalaliDates /\ JalaliDay(j) = GregorianDay(g) - 79  BY ToJalali
  <2> HIDE DEF j
  <2>2. h \in GregorianDates /\ GregorianDay(h) = JalaliDay(j) + 79  BY <2>1, ToGregorian
  <2>3. GregorianDay(g) \in Int  BY DayInYear
  <2> HIDE DEF h
  <2>4. GregorianDay(h) = GregorianDay(g)  BY <2>1, <2>2, <2>3
  <2>5. h = g  BY <2>2, <2>4, GregorianDistinct
  <2> QED  BY <2>5 DEF h, j
<1>2. ASSUME NEW j \in JalaliDates PROVE GregorianToJalali(JalaliToGregorian(j)) = j
  <2> DEFINE g == JalaliToGregorian(j)  h == GregorianToJalali(g)
  <2>1. g \in GregorianDates /\ GregorianDay(g) = JalaliDay(j) + 79  BY ToGregorian
  <2> HIDE DEF g
  <2>2. h \in JalaliDates /\ JalaliDay(h) = GregorianDay(g) - 79  BY <2>1, ToJalali
  <2>3. JalaliDay(j) \in Int  BY JalaliDayInYear
  <2> HIDE DEF h
  <2>4. JalaliDay(h) = JalaliDay(j)  BY <2>1, <2>2, <2>3
  <2>5. h = j  BY <2>2, <2>4, JalaliDistinct
  <2> QED  BY <2>5 DEF h, g
<1> QED  BY <1>1, <1>2

(* jalali_days_in_month, which counts the days between two converted       *)
(* dates (jalali.py:149-159), is the length of the month: Esfand of a leap *)
(* year, and the last one of a cycle of 33 years, included.                *)
THEOREM MonthsHaveTheirDays ==
  \A y \in Int, m \in 1..12 : JalaliDaysInMonth(y, m) = JalaliMonth(y, m)
<1> SUFFICES ASSUME NEW y \in Int, NEW m \in 1..12
             PROVE  JalaliDaysInMonth(y, m) = JalaliMonth(y, m)
  OBVIOUS
<1> DEFINE first == Date(y, m, 1)
           next == IF m = 12 THEN Date(y + 1, 1, 1) ELSE Date(y, m + 1, 1)
           len == JalaliMonth(y, m)
           G == JalaliToGregorian(first)
           H == JalaliToGregorian(next)
<1>1. /\ first \in JalaliDates /\ next \in JalaliDates
      /\ JalaliDay(next) = JalaliDay(first) + len
  BY MonthFollows
<1>2. JalaliDaysInMonth(y, m) = Ordinal(H) - Ordinal(G)  BY DEF JalaliDaysInMonth
<1>3. len \in Int  BY JalaliMonthEnds
<1> HIDE DEF first, next, len
<1>4. /\ G \in GregorianDates /\ GregorianDay(G) = JalaliDay(first) + 79
      /\ H \in GregorianDates /\ GregorianDay(H) = JalaliDay(next) + 79
      /\ JalaliDay(first) \in Int
  BY <1>1, ToGregorian, JalaliDayInYear
<1> HIDE DEF G, H
<1>5. Ordinal(G) = GregorianDay(G) + 584023 /\ Ordinal(H) = GregorianDay(H) + 584023
  BY <1>4, OrdinalOfDate
<1>6. Ordinal(H) - Ordinal(G) = len  BY <1>1, <1>3, <1>4, <1>5
<1> QED  BY <1>2, <1>6 DEF len

\* The next day is converted to the next Jalali date.
LEMMA NextDayConverted ==
  ASSUME NEW g \in GregorianDates
  PROVE  GregorianToJalali(NextDate(g)) = NextJalali(GregorianToJalali(g))
<1> DEFINE j == GregorianToJalali(g)  h == NextDate(g)  k == GregorianToJalali(h)  l == NextJalali(j)
<1>1. j \in JalaliDates /\ JalaliDay(j) = GregorianDay(g) - 79  BY ToJalali
<1>2. h \in GregorianDates /\ GregorianDay(h) = GregorianDay(g) + 1  BY NextDateFollows
<1>3. GregorianDay(g) \in Int  BY DayInYear
<1> HIDE DEF j, h
<1>4. k \in JalaliDates /\ JalaliDay(k) = GregorianDay(h) - 79  BY <1>2, ToJalali
<1>5. l \in JalaliDates /\ JalaliDay(l) = JalaliDay(j) + 1  BY <1>1, NextJalaliFollows
<1> HIDE DEF k, l
<1>6. JalaliDay(k) = JalaliDay(l)  BY <1>1, <1>2, <1>3, <1>4, <1>5
<1>7. k = l  BY <1>4, <1>5, <1>6, JalaliDistinct
<1> QED  BY <1>7 DEF k, l, h, j

-----------------------------------------------------------------------------
(* The walk through the days *)

\* A step of the walk goes to the next date.
LEMMA WalkStep ==
  ASSUME today \in GregorianDates, Walk
  PROVE  today' = NextDate(today)
<1> DEFINE y == today.y  m == today.m  d == today.d
<1>1. today = Date(y, m, d)  BY DateFields
<1>2. [today EXCEPT !.d = @ + 1] = Date(y, m, d + 1)
  <2>1. \A a, b, c : [Date(a, b, c) EXCEPT !.d = @ + 1] = Date(a, b, c + 1)  BY DEF Date
  <2> HIDE DEF y, m, d
  <2>2. [Date(y, m, d) EXCEPT !.d = @ + 1] = Date(y, m, d + 1)  BY <2>1
  <2> QED  BY <1>1, <2>2
<1> QED  BY <1>2 DEF Walk, NextDay, NextDate

\* The walk stays on dates.
LEMMA WalkOnDates == DaysSpec => [](today \in GregorianDates)
<1>1. FirstDay => today \in GregorianDates
  <2> SUFFICES ASSUME FirstDay PROVE today \in GregorianDates  OBVIOUS
  <2>1. 1 \in 1..12 /\ 1 \in Nat /\ FirstYear \in Int  BY WalkYears
  <2>2. 28 <= MonthLength(Date(FirstYear, 1, 1)) /\ MonthLength(Date(FirstYear, 1, 1)) \in Nat
    BY <2>1, MonthEnds
  <2> QED  BY <2>1, <2>2, GregorianDate DEF FirstDay
<1>2. today \in GregorianDates /\ [Walk]_today => (today \in GregorianDates)'
  <2> SUFFICES ASSUME today \in GregorianDates, [Walk]_today PROVE today' \in GregorianDates
    OBVIOUS
  <2>1. CASE Walk
    <3>1. today' = NextDate(today)  BY <2>1, WalkStep
    <3> QED  BY <3>1, NextDateFollows
  <2>2. CASE UNCHANGED today
    <3> QED  BY <2>2
  <2> QED  BY <2>1, <2>2
<1> QED  BY <1>1, <1>2, PTL DEF DaysSpec

(* In every year, the conversions are inverse to each other and consecutive *)
(* days have consecutive Jalali dates, months as long as                    *)
(* jalali_days_in_month says (jalali.py:14-51, 66-118, 149-159).            *)
THEOREM DaysFollowEachOther == DaysSpec => DaysFollow
<1>1. today \in GregorianDates /\ [Walk]_today =>
        (today' # today =>
           LET j == GregorianToJalali(today)
               next == GregorianToJalali(today')
           IN  /\ JalaliToGregorian(j) = today
               /\ \/ next = [j EXCEPT !.d = @ + 1]
                  \/ /\ j.d = JalaliDaysInMonth(j.y, j.m)
                     /\ next = IF j.m < 12 THEN Date(j.y, j.m + 1, 1) ELSE Date(j.y + 1, 1, 1))
  <2> SUFFICES ASSUME today \in GregorianDates, Walk
               PROVE  LET j == GregorianToJalali(today)
                          next == GregorianToJalali(today')
                      IN  /\ JalaliToGregorian(j) = today
                          /\ \/ next = [j EXCEPT !.d = @ + 1]
                             \/ /\ j.d = JalaliDaysInMonth(j.y, j.m)
                                /\ next = IF j.m < 12 THEN Date(j.y, j.m + 1, 1)
                                          ELSE Date(j.y + 1, 1, 1)
    OBVIOUS
  <2> DEFINE j == GregorianToJalali(today)  next == GregorianToJalali(today')
  <2>1. today' = NextDate(today)  BY WalkStep
  <2>2. next = NextJalali(j)  BY <2>1, NextDayConverted
  <2>3. j \in JalaliDates  BY ToJalali
  <2>4. JalaliToGregorian(j) = today  BY ConversionsInverse
  <2> HIDE DEF j, next
  <2>5. /\ j.y \in Int /\ j.m \in 1..12 /\ j.d \in Nat /\ j.d <= JalaliMonth(j.y, j.m)
        /\ j = Date(j.y, j.m, j.d)
    BY <2>3, JalaliFields
  <2>6. JalaliDaysInMonth(j.y, j.m) = JalaliMonth(j.y, j.m) /\ JalaliMonth(j.y, j.m) \in 29..31
    BY <2>5, MonthsHaveTheirDays, JalaliMonthEnds
  <2>7. CASE j.d < JalaliMonth(j.y, j.m)
    <3>1. next = Date(j.y, j.m, j.d + 1)  BY <2>2, <2>7 DEF NextJalali
    <3>2. [j EXCEPT !.d = @ + 1] = Date(j.y, j.m, j.d + 1)
      <4>1. \A y, m, d, e : [Date(y, m, d) EXCEPT !.d = e] = Date(y, m, e)  BY DEF Date
      <4> QED  BY <2>5, <4>1
    <3> QED  BY <2>4, <3>1, <3>2 DEF j, next
  <2>8. CASE ~(j.d < JalaliMonth(j.y, j.m))
    <3>1. j.d = JalaliDaysInMonth(j.y, j.m)  BY <2>5, <2>6, <2>8
    <3>2. next = IF j.m < 12 THEN Date(j.y, j.m + 1, 1) ELSE Date(j.y + 1, 1, 1)
      BY <2>2, <2>8 DEF NextJalali
    <3> QED  BY <2>4, <3>1, <3>2 DEF j, next
  <2> QED  BY <2>7, <2>8
<1> QED  BY <1>1, WalkOnDates, PTL DEF DaysSpec, DaysFollow
=============================================================================
