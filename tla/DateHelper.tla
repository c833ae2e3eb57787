------------------------------ MODULE DateHelper ------------------------------
(***************************************************************************)
(* The date arithmetic of StarLib/TimeHelper (DateHelper.h, DateHelper.cpp)*)
(* on whole days: OffsetDate, GetDate, CalcDaysFromTo, CalcWeekdaysFromTo  *)
(* and the functions they use.                                             *)
(*                                                                         *)
(* COleDateTime is external.  A valid date is the number of its day, day 1 *)
(* being the first of January of the year 1 of the Gregorian calendar; its *)
(* m_dt counts from Epoch.  Making a date of a SYSTEMTIME that names no    *)
(* day gives an invalid one.  GetCurrentTime is read once by every         *)
(* GetDate, and midnight may pass between two of them.                     *)
(***************************************************************************)
EXTENDS Integers, FiniteSets

CONSTANTS
  Years,        \* bound: the years whose days are tried; the clock is never before 1970
  FirstDOWs,    \* the first days of the week that are tried
  Span,         \* bound: a date is offset by at most this many units
  MaxMidnights  \* bound: midnights in a behaviour

ASSUME ConstantsAssumption ==
  /\ Years \subseteq 1000 .. 9000 /\ FirstDOWs \subseteq 0 .. 6
  /\ Span \in 0 .. 400 /\ MaxMidnights \in Nat

VARIABLES
  today,      \* the day of GetCurrentTime
  nFirstDOW,  \* LOCALE_IFIRSTDAYOFWEEK: 0 is Monday
  date,       \* the COleDateTime that the caller works on
  op,         \* the function that gave it this value, and from which day
  call,       \* CalcDaysFromTo: its arguments, what it has read so far, its result
  midnights

vars == <<today, nFirstDOW, date, op, call, midnights>>

Invalid == 0

-----------------------------------------------------------------------------
(* External: the calendar of COleDateTime. *)

DaysBefore(y) == 365 * (y - 1) + (y - 1) \div 4 - (y - 1) \div 100 + (y - 1) \div 400

\* The 30th of December 1899, on which m_dt is 0.
Epoch == DaysBefore(1900) - 1

\* The first day of 1970, with which the clock of the C library begins.
ClockStart == DaysBefore(1970) + 1

Leap(y) == DaysBefore(y + 1) - DaysBefore(y) = 366

\* Days before the first of month m in a year, m = 13 for all of them.
MonthStart(m, leap) ==
  LET d == <<0, 31, 59, 90, 120, 151, 181, 212, 243, 273, 304, 334, 365>>[m]
  IN  IF leap /\ m > 2 THEN d + 1 ELSE d

MonthLength(m, y) == MonthStart(m + 1, Leap(y)) - MonthStart(m, Leap(y))

\* COleDateTime(st)
FromSystemTime(y, m, d) ==
  IF y \in 100 .. 9999 /\ m \in 1 .. 12 /\ d >= 1 /\ d <= MonthLength(m, y)
  THEN DaysBefore(y) + MonthStart(m, Leap(y)) + d
  ELSE Invalid

\* 400 years have 146097 days; the quotient is at most one year off.
GetYear(n) ==
  LET y0 == (400 * n) \div 146097
  IN  CHOOSE y \in y0 .. y0 + 2 : DaysBefore(y) < n /\ n <= DaysBefore(y + 1)

GetMonth(n) ==
  LET y    == GetYear(n)
      leap == Leap(y)
      k    == n - DaysBefore(y)
  IN  CHOOSE m \in 1 .. 12 : MonthStart(m, leap) < k /\ k <= MonthStart(m + 1, leap)

GetDay(n) ==
  LET y == GetYear(n)
  IN  n - DaysBefore(y) - MonthStart(GetMonth(n), Leap(y))

\* 1 is Sunday, 7 is Saturday.
GetDayOfWeek(n) == (n % 7) + 1

-----------------------------------------------------------------------------
(* Days of the week and of the month. *)

FirstDayOfWeek == <<2, 3, 4, 5, 6, 7, 1>>[nFirstDOW + 1]
LastDayOfWeek  == <<7, 1, 2, 3, 4, 5, 6>>[FirstDayOfWeek]
NextDayOfWeek(nDOW) == <<2, 3, 4, 5, 6, 7, 1>>[nDOW]

\* Mutant: every fourth year.
IsLeapYearJulian(nYear) == nYear % 4 = 0

IsLeapYear(nYear) == nYear % 4 = 0 /\ (nYear % 100 # 0 \/ nYear % 400 = 0)

GetDaysInMonth(nMonth, nYear) ==
  IF nMonth < 1 \/ nMonth > 12 THEN 0
  ELSE IF nMonth = 2 THEN (IF IsLeapYear(nYear) THEN 29 ELSE 28)
  ELSE IF nMonth \in {4, 6, 9, 11} THEN 30 ELSE 31

-----------------------------------------------------------------------------
(* OffsetDate. *)

\* Division and remainder of C round towards zero; a WORD has 16 bits.
Quot(a, b) == IF a >= 0 THEN a \div b ELSE -((-a) \div b)
Rem(a, b)  == a - b * Quot(a, b)
WORD(a)    == a % 65536

\* Mutant: a month of 12 counts as an overflow.
CarryEarly(y, m) ==
  IF m >= 12 THEN [year |-> WORD(y + 1), month |-> WORD(m - 12)]
  ELSE IF m < 1 THEN [year |-> WORD(y - 1), month |-> WORD(m + 12)]
  ELSE [year |-> y, month |-> m]

\* Lines 426-435.
Carry(y, m) ==
  IF m > 12 THEN [year |-> WORD(y + 1), month |-> WORD(m - 12)]
  ELSE IF m < 1 THEN [year |-> WORD(y - 1), month |-> WORD(m + 12)]
  ELSE [year |-> y, month |-> m]

OffsetMonths(n, nAmount) ==
  LET st  == Carry(WORD(GetYear(n) + Quot(nAmount, 12)), WORD(GetMonth(n) + Rem(nAmount, 12)))
      len == GetDaysInMonth(st.month, st.year)
  IN  FromSystemTime(st.year, st.month, IF GetDay(n) < len THEN GetDay(n) ELSE len)

\* Mutant: years of 365 days.
OffsetYearsOf365(n, nAmount) == n + 365 * nAmount

OffsetYears(n, nAmount) == FromSystemTime(WORD(GetYear(n) + nAmount), GetMonth(n), GetDay(n))

\* A date whose m_dt is not above 0 is left alone (line 404).
OffsetDate(n, nAmount, nUnits) ==
  IF n <= Epoch THEN n
  ELSE CASE nUnits = "DHU_DAYS"   -> n + nAmount
         [] nUnits = "DHU_WEEKS"  -> n + nAmount * 7
         [] nUnits = "DHU_MONTHS" -> OffsetMonths(n, nAmount)
         [] nUnits = "DHU_YEARS"  -> OffsetYears(n, nAmount)

Units == {"DHU_DAYS", "DHU_WEEKS", "DHU_MONTHS", "DHU_YEARS"}

-----------------------------------------------------------------------------
(* GetDate, with the day now on which it reads the time. *)

\* The enumeration DH_DATE, in its order.
DH_DATE == <<"DHD_TODAY", "DHD_TOMORROW", "DHD_ENDTHISWEEK", "DHD_ENDNEXTWEEK",
             "DHD_ENDTHISMONTH", "DHD_ENDNEXTMONTH", "DHD_ENDTHISYEAR", "DHD_ENDNEXTYEAR">>

\* The day of the week after n turns of the loop of lines 175-179.
Turned(now) ==
  LET nDOW[n \in 0 .. 6] == IF n = 0 THEN GetDayOfWeek(now) ELSE NextDayOfWeek(nDOW[n - 1])
  IN  nDOW

EndOfWeek(now) ==
  now + CHOOSE n \in 0 .. 6 : /\ Turned(now)[n] = LastDayOfWeek
                              /\ \A k \in 0 .. n - 1 : Turned(now)[k] # LastDayOfWeek

\* Mutant: steps that may jump over a month.
EndOfMonthLeaps(now) ==
  LET n == CHOOSE k \in 1 .. 2 : /\ GetMonth(now + 40 * k) # GetMonth(now)
                                 /\ \A j \in 0 .. k - 1 : GetMonth(now + 40 * j) = GetMonth(now)
  IN  now + 40 * n - GetDay(now + 40 * n)

\* Mutant: goes back by the day of the month it started on.
EndOfMonthFromStart(now) ==
  LET n == CHOOSE k \in 1 .. 2 : /\ GetMonth(now + 20 * k) # GetMonth(now)
                                 /\ \A j \in 0 .. k - 1 : GetMonth(now + 20 * j) = GetMonth(now)
  IN  now + 20 * n - GetDay(now)

\* Lines 191-194 and 203-206: steps of twenty days until the month changes.
EndOfMonth(now) ==
  LET n == CHOOSE k \in 1 .. 2 : /\ GetMonth(now + 20 * k) # GetMonth(now)
                                 /\ \A j \in 0 .. k - 1 : GetMonth(now + 20 * j) = GetMonth(now)
  IN  now + 20 * n - GetDay(now + 20 * n)

GetDate(nDate, now) ==
  CASE nDate = "DHD_TODAY"        -> now
    [] nDate = "DHD_TOMORROW"     -> now + 1
    [] nDate = "DHD_ENDTHISWEEK"  -> EndOfWeek(now)
    [] nDate = "DHD_ENDNEXTWEEK"  -> EndOfWeek(now) + 7
    [] nDate = "DHD_ENDTHISMONTH" -> EndOfMonth(now)
    [] nDate = "DHD_ENDNEXTMONTH" -> EndOfMonth(EndOfMonth(now) + 1)
    [] nDate = "DHD_ENDTHISYEAR"  -> FromSystemTime(GetYear(now), 12, 31)
    [] nDate = "DHD_ENDNEXTYEAR"  -> FromSystemTime(GetYear(now) + 1, 12, 31)

-----------------------------------------------------------------------------
(* Counting days. *)

CalcDays(dateFrom, dateTo, bInclusive) == dateTo - dateFrom + (IF bInclusive THEN 1 ELSE 0)

\* Mutant: Saturday counts as a weekday.
WeekdayOrSaturday(nDOW) == nDOW # 1

\* Line 247.
Weekday(nDOW) == nDOW # 1 /\ nDOW # 7

\* The loop of lines 243-251 over the days from dateFrom on.
CalcWeekdaysFromTo(dateFrom, dateTo, bInclusive) ==
  LET nDiff == dateTo - dateFrom + (IF bInclusive THEN 1 ELSE 0)
      nWeekdays[n \in 0 .. nDiff] ==
        IF n = 0 THEN 0
        ELSE nWeekdays[n - 1] + (IF Weekday(GetDayOfWeek(dateFrom + n - 1)) THEN 1 ELSE 0)
  IN  IF nDiff > 0 THEN nWeekdays[nDiff] ELSE 0

-----------------------------------------------------------------------------
NoOp   == [name |-> "none", n |-> 0, from |-> 0]
NoCall == [nFrom |-> 0, nTo |-> 0, from |-> 0, to |-> 0, late |-> FALSE]

Init ==
  /\ \E y \in Years, k \in 1 .. 366 :
       k <= MonthStart(13, Leap(y)) /\ date = DaysBefore(y) + k
  /\ today = IF date < ClockStart THEN ClockStart ELSE date
  /\ nFirstDOW \in FirstDOWs
  /\ op = NoOp /\ call = NoCall
  /\ midnights = 0

\* Outside a call of CalcDaysFromTo it only gives another day to start on.
Midnight ==
  /\ midnights < MaxMidnights /\ call # NoCall
  /\ today' = today + 1 /\ midnights' = midnights + 1
  /\ call' = [call EXCEPT !.late = @ \/ (call.to # 0 /\ call.from = 0)]
  /\ UNCHANGED <<nFirstDOW, date, op>>

\* One call of OffsetDate.
Offset(nUnits, nAmount) ==
  /\ op = NoOp /\ call = NoCall
  /\ date' = OffsetDate(date, nAmount, nUnits)
  /\ op' = [name |-> nUnits, n |-> nAmount, from |-> date]
  /\ UNCHANGED <<today, nFirstDOW, call, midnights>>

Get(nDate) ==
  /\ op = NoOp /\ call = NoCall
  /\ date' = GetDate(nDate, today)
  /\ op' = [name |-> nDate, n |-> 0, from |-> today]
  /\ UNCHANGED <<today, nFirstDOW, call, midnights>>

\* Mutant: the early returns of lines 38-42 are missing.
CalcDaysFromToAny(nFrom, nTo) ==
  /\ op = NoOp /\ call = NoCall
  /\ call' = [NoCall EXCEPT !.nFrom = nFrom, !.nTo = nTo]
  /\ UNCHANGED <<today, nFirstDOW, date, op, midnights>>

\* CalcDaysFromTo(nFrom, nTo, FALSE), line 45: the compiler chooses which of the two
\* GetDate it evaluates first.
CalcDaysFromTo(nFrom, nTo) ==
  /\ op = NoOp /\ call = NoCall
  /\ nFrom < nTo
  /\ call' = [NoCall EXCEPT !.nFrom = nFrom, !.nTo = nTo]
  /\ UNCHANGED <<today, nFirstDOW, date, op, midnights>>

ReadFrom ==
  /\ call.nFrom # 0 /\ call.from = 0
  /\ call' = [call EXCEPT !.from = GetDate(DH_DATE[call.nFrom], today)]
  /\ UNCHANGED <<today, nFirstDOW, date, op, midnights>>

ReadTo ==
  /\ call.nFrom # 0 /\ call.to = 0
  /\ call' = [call EXCEPT !.to = GetDate(DH_DATE[call.nTo], today)]
  /\ UNCHANGED <<today, nFirstDOW, date, op, midnights>>

Next ==
  \/ Midnight \/ ReadFrom \/ ReadTo
  \/ \E nUnits \in Units, nAmount \in -Span .. Span : Offset(nUnits, nAmount)
  \/ \E i \in 1 .. 8 : Get(DH_DATE[i])
  \/ \E i, j \in 1 .. 8 : CalcDaysFromTo(i, j)

Spec == Init /\ [][Next]_vars

-----------------------------------------------------------------------------
TypeOK ==
  /\ today \in Nat /\ nFirstDOW \in 0 .. 6 /\ date \in Nat
  /\ op.from \in Nat /\ op.n \in -Span .. Span
  /\ call \in [nFrom : 0 .. 8, nTo : 0 .. 8, from : Nat, to : Nat, late : BOOLEAN]
  /\ call = NoCall \/ call.nFrom < call.nTo
  /\ midnights \in 0 .. MaxMidnights

\* The day that is nAmount months from n: the same day of that month, or the last day of a
\* shorter one.
MonthsFrom(n, nAmount) ==
  LET months == 12 * GetYear(n) + GetMonth(n) - 1 + nAmount
      y      == months \div 12
      m      == (months % 12) + 1
  IN  FromSystemTime(y, m, IF GetDay(n) < MonthLength(m, y) THEN GetDay(n) ELSE MonthLength(m, y))

\* OffsetDate by months finds the right month and clips the day, for the dates that line 404
\* admits, as long as the sum of line 423 is not below zero.
MonthOffsetRight ==
  op.name = "DHU_MONTHS" /\ op.from > Epoch /\ GetMonth(op.from) + Rem(op.n, 12) >= 0
    => date = MonthsFrom(op.from, op.n)

\* "handle overflow" (line 425): also a month before January belongs to the year before.
OverflowHandled ==
  op.name = "DHU_MONTHS" /\ op.from > Epoch => date = MonthsFrom(op.from, op.n)

\* OffsetDate by years, for the dates that line 404 admits: the same day of another year, or
\* no date at all for the 29th of February, which this case does not clip.
YearOffsetRight ==
  op.name = "DHU_YEARS" /\ op.from > Epoch =>
    IF GetMonth(op.from) = 2 /\ GetDay(op.from) = 29 /\ MonthLength(2, GetYear(op.from) + op.n) = 28
    THEN date = Invalid
    ELSE /\ GetYear(date) = GetYear(op.from) + op.n
         /\ GetMonth(date) = GetMonth(op.from) /\ GetDay(date) = GetDay(op.from)

\* The first day from n on after which P holds.
EndBefore(n, P(_)) == CHOOSE d \in n .. n + 366 : P(d + 1) /\ \A k \in n .. d - 1 : ~P(k + 1)

\* GetDate finds the last day of the week, month or year, whatever day the week begins
\* on and however the steps of its loops fall.
EndsRight ==
  LET NewWeek(d)  == GetDayOfWeek(d) = ((nFirstDOW + 1) % 7) + 1
      NewMonth(d) == GetDay(d) = 1
      NewYear(d)  == GetDay(d) = 1 /\ GetMonth(d) = 1
      n == op.from
  IN  /\ op.name = "DHD_ENDTHISWEEK"  => date = EndBefore(n, NewWeek)
      /\ op.name = "DHD_ENDNEXTWEEK"  => date = EndBefore(EndBefore(n, NewWeek) + 1, NewWeek)
      /\ op.name = "DHD_ENDTHISMONTH" => date = EndBefore(n, NewMonth)
      /\ op.name = "DHD_ENDNEXTMONTH" => date = EndBefore(EndBefore(n, NewMonth) + 1, NewMonth)
      /\ op.name = "DHD_ENDTHISYEAR"  => date = EndBefore(n, NewYear)
      /\ op.name = "DHD_ENDNEXTYEAR"  => date = EndBefore(EndBefore(n, NewYear) + 1, NewYear)

\* CalcWeekdaysFromTo counts the days from Monday to Friday between the two dates.
WeekdaysRight ==
  op.name \in {"DHU_DAYS", "DHU_WEEKS"} =>
    \A bInclusive \in BOOLEAN :
      CalcWeekdaysFromTo(op.from, date, bInclusive) =
        Cardinality({d \in op.from .. (IF bInclusive THEN date ELSE date - 1) : GetDayOfWeek(d) \in 2 .. 6})

\* The pairs of DH_DATE that come in the order of the enumeration on every day.  The
\* others do not: the week may end before tomorrow or after the month.
Ordered == {p \in (1 .. 8) \X (1 .. 8) : p[1] < p[2]} \
             ({2} \X {3, 5, 7} \cup {3} \X {5, 7} \cup {4} \X {5, 6, 7} \cup {6} \X {7})

\* CalcDaysFromTo does not count backwards, even when midnight passes between its two
\* calls of GetDate, unless the compiler evaluates the later date first.
DaysNotNegative ==
  /\ <<call.nFrom, call.nTo>> \in Ordered /\ call.from # 0 /\ call.to # 0 /\ ~call.late
  => CalcDays(call.from, call.to, FALSE) >= 0
=============================================================================
