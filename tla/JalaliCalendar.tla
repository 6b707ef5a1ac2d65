--------------------------- MODULE JalaliCalendar ---------------------------
(***************************************************************************)
(* The conversion between the Gregorian and the Jalali calendar           *)
(* (jalali.py), by which the program reads, adds to and prints every date  *)
(* of a request: two integer algorithms written independently of each      *)
(* other.  Dates are [y, m, d]; the Gregorian ones are those of Python's   *)
(* datetime.                                                               *)
(***************************************************************************)
EXTENDS Integers, Sequences, Functions

CONSTANTS FirstYear, LastYear    \* Gregorian years the walk below goes through

ASSUME WalkYears == FirstYear \in Int /\ LastYear \in Int

Date(y, m, d) == [y |-> y, m |-> m, d |-> d]

g_days_in_month == <<31, 28, 31, 30, 31, 30, 31, 31, 30, 31, 30, 31>>
j_days_in_month == <<31, 31, 31, 31, 31, 31, 30, 30, 30, 30, 30, 29>>

SumOfFirst(n, lengths) == SumFunctionOnSet(lengths, 1..n)

\* The month and the day in it of the day numbered n from 0; what is beyond the
\* last month but one is in the last.
MonthAndDay(n, lengths) ==
  LET m == CHOOSE k \in 1..12 : /\ SumOfFirst(k - 1, lengths) <= n
                                /\ k = 12 \/ n < SumOfFirst(k, lengths)
  IN  [m |-> m, d |-> n - SumOfFirst(m - 1, lengths) + 1]

IsLeap(gy) == (gy % 4 = 0 /\ gy % 100 # 0) \/ gy % 400 = 0

\* The day number of a date, counted by both conversions from 1600-01-01.
GregorianDayNo(g) ==
  LET gy == g.y - 1600
  IN  365 * gy + (gy + 3) \div 4 - (gy + 99) \div 100 + (gy + 399) \div 400
      + SumOfFirst(g.m - 1, g_days_in_month)
      + (IF g.m > 2 /\ IsLeap(g.y) THEN 1 ELSE 0) + (g.d - 1)

JalaliDayNo(j) ==
  LET jy == j.y - 979
  IN  365 * jy + (jy \div 33) * 8 + ((jy % 33) + 3) \div 4
      + SumOfFirst(j.m - 1, j_days_in_month) + (j.d - 1) + 79

\* The date of a day number.
JalaliOf(g_day_no) ==
  LET j_day_no == (g_day_no - 79) % 12053
      four == j_day_no % 1461
      jy == 979 + 33 * ((g_day_no - 79) \div 12053) + 4 * (j_day_no \div 1461)
      rest == IF four >= 366 THEN (four - 1) % 365 ELSE four
      md == MonthAndDay(rest, j_days_in_month)
  IN  Date(IF four >= 366 THEN jy + (four - 1) \div 365 ELSE jy, md.m, md.d)

GregorianOf_NoCentury(g_day_no) ==
  LET n == g_day_no % 146097
      four == n % 1461
      gy == 1600 + 400 * (g_day_no \div 146097) + 4 * (n \div 1461)
            + (IF four >= 366 THEN (four - 1) \div 365 ELSE 0)
      md == MonthAndDay(IF four >= 366 THEN (four - 1) % 365 ELSE four,
                        IF IsLeap(gy) THEN [g_days_in_month EXCEPT ![2] = 29] ELSE g_days_in_month)
  IN  Date(gy, md.m, md.d)
GregorianOf(g_day_no) ==
  LET n400 == g_day_no % 146097
      late == n400 >= 36525                       \* not in the first century
      n100 == IF late THEN (n400 - 1) % 36524 ELSE n400
      n == IF late /\ n100 >= 365 THEN n100 + 1 ELSE n100
      four == n % 1461
      gy == 1600 + 400 * (g_day_no \div 146097)
            + (IF late THEN 100 * ((n400 - 1) \div 36524) ELSE 0)
            + 4 * (n \div 1461) + (IF four >= 366 THEN (four - 1) \div 365 ELSE 0)
      md == MonthAndDay(IF four >= 366 THEN (four - 1) % 365 ELSE four,
                        IF IsLeap(gy) THEN [g_days_in_month EXCEPT ![2] = 29] ELSE g_days_in_month)
  IN  Date(gy, md.m, md.d)

GregorianToJalali(g) == JalaliOf(GregorianDayNo(g))
JalaliToGregorian(j) == GregorianOf(JalaliDayNo(j))

\* date.toordinal of Python, up to a constant.
Ordinal(g) ==
  365 * (g.y - 1) + (g.y - 1) \div 4 - (g.y - 1) \div 100 + (g.y - 1) \div 400
  + SumOfFirst(g.m - 1, IF IsLeap(g.y) THEN [g_days_in_month EXCEPT ![2] = 29] ELSE g_days_in_month)
  + g.d

JalaliDaysInMonth(jy, jm) ==
  LET next == IF jm = 12 THEN Date(jy + 1, 1, 1) ELSE Date(jy, jm + 1, 1)
  IN  Ordinal(JalaliToGregorian(next)) - Ordinal(JalaliToGregorian(Date(jy, jm, 1)))

-----------------------------------------------------------------------------
(* A walk through the days.                                                *)

VARIABLE today

MonthLength(g) == IF g.m = 2 /\ IsLeap(g.y) THEN 29 ELSE g_days_in_month[g.m]

NextDay ==
  today' = IF today.d < MonthLength(today) THEN [today EXCEPT !.d = @ + 1]
           ELSE IF today.m < 12 THEN Date(today.y, today.m + 1, 1)
           ELSE Date(today.y + 1, 1, 1)

FirstDay == today = Date(FirstYear, 1, 1)
Walk == today.y <= LastYear /\ NextDay
DaysSpec == FirstDay /\ [][Walk]_today

-----------------------------------------------------------------------------
(* Properties.                                                             *)

(* The two algorithms are inverse to each other on every day, consecutive   *)
(* days get consecutive dates, and a month has as many days as              *)
(* jalali_days_in_month says before the next one begins (jalali.py:14-51,   *)
(* 66-118, 149-159): leap days of both calendars, the end of a 33-year      *)
(* cycle and the century that is no leap year included.                     *)
DaysFollow ==
  [][today' # today =>
       LET j == GregorianToJalali(today)
           next == GregorianToJalali(today')
       IN  /\ JalaliToGregorian(j) = today
           /\ \/ next = [j EXCEPT !.d = @ + 1]
              \/ /\ j.d = JalaliDaysInMonth(j.y, j.m)
                 /\ next = IF j.m < 12 THEN Date(j.y, j.m + 1, 1) ELSE Date(j.y + 1, 1, 1)
    ]_today
=============================================================================
