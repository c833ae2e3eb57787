-------------------------- MODULE DateHelper_proofs --------------------------
(***************************************************************************)
(* Proofs about DateHelper, for all years from 1000 to 9000, amounts of up *)
(* to 400 and any number of midnights: that the code's leap years and      *)
(* months are the calendar's, that a date can be read back from the number *)
(* of its day, that the loops of GetDate end on the last day of the week   *)
(* and the month and that of CalcWeekdaysFromTo counts what it should, by  *)
(* induction; then the invariants of the callers.                          *)
(***************************************************************************)
EXTENDS DateHelper, TLAPS, FiniteSetTheorems

\* IsLeapYear (line 500) is the leap year of the calendar: the year that has a day more.
LEMMA LeapYearRight ==
  ASSUME NEW y \in Nat \ {0}
  PROVE  IsLeapYear(y) <=> Leap(y)
BY SMT DEF IsLeapYear, Leap, DaysBefore

\* GetDaysInMonth (lines 469 to 493) gives the length of every month in every year.
LEMMA DaysInMonthRight ==
  ASSUME NEW y \in Nat \ {0}, NEW m \in 1 .. 12
  PROVE  GetDaysInMonth(m, y) = MonthLength(m, y)
<1>1. \/ m = 1 \/ m = 2 \/ m = 3 \/ m = 4 \/ m = 5 \/ m = 6 \/ m = 7 \/ m = 8
      \/ m = 9 \/ m = 10 \/ m = 11 \/ m = 12
  OBVIOUS
<1> QED BY <1>1, LeapYearRight DEF GetDaysInMonth, MonthLength, MonthStart

\* A WORD keeps a number of 16 bits.
LEMMA WordKeeps ==
  ASSUME NEW x \in Int, 0 <= x, x < 65536
  PROVE  WORD(x) = x
BY DEF WORD

\* A WORD makes a large number of one below zero.
LEMMA WordWraps ==
  ASSUME NEW x \in Int, -65536 <= x, x < 0
  PROVE  WORD(x) = x + 65536
BY DEF WORD

\* Division and remainder of C (lines 422 and 423) make up the amount, and are small.
LEMMA Division ==
  ASSUME NEW a \in Int, -400 <= a, a <= 400
  PROVE  /\ Quot(a, 12) \in Int /\ -34 <= Quot(a, 12) /\ Quot(a, 12) <= 34
         /\ Rem(a, 12) \in Int /\ -11 <= Rem(a, 12) /\ Rem(a, 12) <= 11
         /\ a = 12 * Quot(a, 12) + Rem(a, 12)
BY DEF Rem, Quot

\* Year and month are found again in the number of months since the year 0.
LEMMA Months ==
  ASSUME NEW y \in Int, NEW m \in 1 .. 12
  PROVE  (12 * y + m - 1) \div 12 = y /\ ((12 * y + m - 1) % 12) + 1 = m
OBVIOUS

\* The overflow of lines 425 to 435, for a sum that is not below zero: it names the same
\* month with a month from 1 to 12.
LEMMA CarrySum ==
  ASSUME NEW y \in Int, NEW s \in Int, 100 <= y, y <= 20000, 0 <= s, s <= 23
  PROVE  \E Y \in Int, M \in 1 .. 12 :
           12 * Y + M = 12 * y + s /\ Carry(WORD(y), WORD(s)) = [year |-> Y, month |-> M]
<1>1. WORD(y) = y /\ WORD(s) = s
  BY WordKeeps
<1>2. CASE s > 12
  <2>1. WORD(y + 1) = y + 1 /\ WORD(s - 12) = s - 12
    BY <1>2, WordKeeps
  <2>2. Carry(WORD(y), WORD(s)) = [year |-> y + 1, month |-> s - 12]
    BY <1>1, <1>2, <2>1 DEF Carry
  <2>3. 12 * (y + 1) + (s - 12) = 12 * y + s /\ s - 12 \in 1 .. 12
    BY <1>2
  <2> QED BY <2>2, <2>3
<1>3. CASE s = 0
  <2>1. WORD(y - 1) = y - 1 /\ WORD(s + 12) = s + 12
    BY <1>3, WordKeeps
  <2>2. Carry(WORD(y), WORD(s)) = [year |-> y - 1, month |-> s + 12]
    BY <1>1, <1>3, <2>1 DEF Carry
  <2>3. 12 * (y - 1) + (s + 12) = 12 * y + s /\ s + 12 \in 1 .. 12
    BY <1>3
  <2> QED BY <2>2, <2>3
<1>4. CASE 1 <= s /\ s <= 12
  <2>1. Carry(WORD(y), WORD(s)) = [year |-> y, month |-> s]
    BY <1>1, <1>4 DEF Carry
  <2>2. s \in 1 .. 12
    BY <1>4
  <2> QED BY <2>1, <2>2
<1> QED BY <1>2, <1>3, <1>4

\* Lines 422 to 435 move by the amount, unless month and remainder fall below zero.
LEMMA CarryRight ==
  ASSUME NEW y \in Int, 1000 <= y, y <= 9000, NEW m \in 1 .. 12,
         NEW a \in Int, -400 <= a, a <= 400, m + Rem(a, 12) >= 0
  PROVE  Carry(WORD(y + Quot(a, 12)), WORD(m + Rem(a, 12))) =
           [year |-> (12 * y + m - 1 + a) \div 12, month |-> ((12 * y + m - 1 + a) % 12) + 1]
<1>1. /\ Quot(a, 12) \in Int /\ -34 <= Quot(a, 12) /\ Quot(a, 12) <= 34
      /\ Rem(a, 12) \in Int /\ -11 <= Rem(a, 12) /\ Rem(a, 12) <= 11
      /\ a = 12 * Quot(a, 12) + Rem(a, 12)
  BY Division
<1>2. PICK u \in Int : u = y + Quot(a, 12)
  BY <1>1
<1>3. PICK v \in Int : v = m + Rem(a, 12)
  BY <1>1
<1>4. PICK Y \in Int, M \in 1 .. 12 :
        12 * Y + M = 12 * u + v /\ Carry(WORD(u), WORD(v)) = [year |-> Y, month |-> M]
  <2>1. 100 <= u /\ u <= 20000 /\ 0 <= v /\ v <= 23
    BY <1>1, <1>2, <1>3
  <2> QED BY <2>1, CarrySum
<1>5. 12 * y + m - 1 + a = 12 * Y + M - 1
  BY <1>1, <1>2, <1>3, <1>4
<1>6. (12 * y + m - 1 + a) \div 12 = Y /\ ((12 * y + m - 1 + a) % 12) + 1 = M
  BY <1>5, Months
<1> QED BY <1>2, <1>3, <1>4, <1>6

\* Below zero the sum wraps, and no month results.
LEMMA CarryWraps ==
  ASSUME NEW y \in Int, NEW s \in Int, -10 <= s, s < 0
  PROVE  Carry(y, WORD(s)).month \notin 1 .. 12
<1>1. WORD(s) = s + 65536
  BY WordWraps
<1>2. WORD(s + 65536 - 12) = s + 65536 - 12
  BY WordKeeps
<1>3. Carry(y, s + 65536) = [year |-> WORD(y + 1), month |-> s + 65536 - 12]
  BY <1>2 DEF Carry
<1> QED BY <1>1, <1>3

\* The calendar's years follow each other.
LEMMA DaysBeforeMono ==
  ASSUME NEW a \in Int, NEW b \in Int, a <= b
  PROVE  DaysBefore(a) \in Int /\ DaysBefore(a) <= DaysBefore(b)
BY SMT DEF DaysBefore

\* A day between the ends of two years is in the year between them.
LEMMA YearOf ==
  ASSUME NEW y \in Int, 1 <= y, NEW n \in Int, DaysBefore(y) < n, n <= DaysBefore(y + 1)
  PROVE  GetYear(n) = y
<1> DEFINE y0 == (400 * n) \div 146097
<1>1. y0 \in Int /\ y \in y0 .. y0 + 2
  BY SMT DEF DaysBefore
<1>2. ASSUME NEW z \in y0 .. y0 + 2, DaysBefore(z) < n, n <= DaysBefore(z + 1)
      PROVE  z = y
  <2>1. z \in Int
    BY <1>1
  <2>2. CASE z < y
    <3>1. z + 1 \in Int /\ z + 1 <= y
      BY <2>1, <2>2
    <3>2. DaysBefore(z + 1) <= DaysBefore(y) /\ DaysBefore(z + 1) \in Int /\ DaysBefore(y) \in Int
      BY <3>1, DaysBeforeMono
    <3> QED BY <3>2, <1>2
  <2>3. CASE z > y
    <3>1. DaysBefore(y + 1) <= DaysBefore(z) /\ DaysBefore(y + 1) \in Int /\ DaysBefore(z) \in Int
      BY <2>1, <2>3, DaysBeforeMono
    <3> QED BY <3>1, <1>2
  <2> QED BY <2>1, <2>2, <2>3
<1> HIDE DEF y0
<1> QED BY <1>1, <1>2 DEF GetYear, y0

\* The days of a month follow those of the one before it.
LEMMA MonthStartMono ==
  ASSUME NEW leap \in BOOLEAN, NEW a \in 1 .. 13, NEW b \in 1 .. 13, a <= b
  PROVE  /\ MonthStart(a, leap) \in Int /\ MonthStart(b, leap) \in Int
         /\ MonthStart(a, leap) <= MonthStart(b, leap)
BY DEF MonthStart

\* The days of a year are those of its twelve months.
LEMMA YearLength ==
  ASSUME NEW y \in Int, 1 <= y
  PROVE  /\ DaysBefore(y) \in Int /\ DaysBefore(y) >= 0
         /\ DaysBefore(y + 1) = DaysBefore(y) + MonthStart(13, Leap(y))
<1>1. DaysBefore(y) \in Int /\ DaysBefore(y + 1) \in Int /\ DaysBefore(y) >= 0
  BY DEF DaysBefore
<1>2. DaysBefore(y + 1) - DaysBefore(y) = 365 \/ DaysBefore(y + 1) - DaysBefore(y) = 366
  BY DEF DaysBefore
<1>4. CASE Leap(y)
  <2>2. MonthStart(13, Leap(y)) = 366
    BY <1>4 DEF MonthStart
  <2> QED BY <1>1, <1>4, <2>2 DEF Leap
<1>5. CASE ~Leap(y)
  <2>2. DaysBefore(y + 1) - DaysBefore(y) = 365
    BY <1>2, <1>5 DEF Leap
  <2>3. MonthStart(13, Leap(y)) = 365
    BY <1>5 DEF MonthStart
  <2> QED BY <1>1, <2>2, <2>3
<1> QED BY <1>4, <1>5

\* Year, month and day are found again in the number of the day.
LEMMA RoundTrip ==
  ASSUME NEW y \in Int, 1 <= y, NEW m \in 1 .. 12, NEW d \in 1 .. MonthLength(m, y),
         NEW n \in Int, n = DaysBefore(y) + MonthStart(m, Leap(y)) + d
  PROVE  GetYear(n) = y /\ GetMonth(n) = m /\ GetDay(n) = d
<1> DEFINE leap == Leap(y)
           k    == n - DaysBefore(y)
<1>1. leap \in BOOLEAN
  BY DEF Leap
<1>2. DaysBefore(y) \in Int /\ DaysBefore(y + 1) = DaysBefore(y) + MonthStart(13, leap)
  BY YearLength
<1>3. /\ MonthStart(1, leap) = 0 /\ MonthStart(13, leap) \in Int
      /\ MonthStart(m, leap) \in Int /\ MonthStart(m + 1, leap) \in Int
      /\ MonthStart(1, leap) <= MonthStart(m, leap)
      /\ MonthStart(m + 1, leap) <= MonthStart(13, leap)
  BY <1>1, MonthStartMono, m + 1 \in 1 .. 13 DEF MonthStart
<1>4. MonthStart(m, leap) < k /\ k <= MonthStart(m + 1, leap) /\ k \in Int
  BY <1>2, <1>3 DEF MonthLength
<1>5. GetYear(n) = y
  <2>1. DaysBefore(y) < n /\ n <= DaysBefore(y + 1)
    BY <1>2, <1>3, <1>4
  <2> QED BY <2>1, YearOf
<1> HIDE DEF k, leap
<1>6. ASSUME NEW z \in 1 .. 12, MonthStart(z, leap) < k, k <= MonthStart(z + 1, leap)
      PROVE  z = m
  <2>1. CASE z < m
    <3>1. MonthStart(z + 1, leap) <= MonthStart(m, leap) /\ MonthStart(z + 1, leap) \in Int
      BY <1>1, <2>1, MonthStartMono, z + 1 \in 1 .. 13
    <3> QED BY <1>3, <1>4, <1>6, <3>1
  <2>2. CASE z > m
    <3>1. MonthStart(m + 1, leap) <= MonthStart(z, leap) /\ MonthStart(z, leap) \in Int
      BY <1>1, <2>2, MonthStartMono, m + 1 \in 1 .. 13
    <3> QED BY <1>3, <1>4, <1>6, <3>1
  <2> QED BY <2>1, <2>2
<1>7. GetMonth(n) = CHOOSE z \in 1 .. 12 : MonthStart(z, leap) < k /\ k <= MonthStart(z + 1, leap)
  BY <1>5 DEF GetMonth, leap, k
<1>8. GetMonth(n) = m
  BY <1>4, <1>6, <1>7
<1>9. GetDay(n) = d
  BY <1>2, <1>3, <1>5, <1>8 DEF GetDay, leap
<1> QED BY <1>5, <1>8, <1>9

\* Every day of a year is in a month.
LEMMA MonthOfDay ==
  ASSUME NEW leap \in BOOLEAN, NEW k \in Int, 1 <= k, k <= MonthStart(13, leap)
  PROVE  \E m \in 1 .. 12 : MonthStart(m, leap) < k /\ k <= MonthStart(m + 1, leap)
<1> DEFINE P(m) == MonthStart(m, leap) < k /\ k <= MonthStart(m + 1, leap)
<1>1. P(1) \/ P(2) \/ P(3) \/ P(4) \/ P(5) \/ P(6) \/ P(7) \/ P(8) \/ P(9) \/ P(10) \/ P(11) \/ P(12)
  BY DEF MonthStart
<1> HIDE DEF P
<1>2. \E m \in 1 .. 12 : P(m)
  BY <1>1
<1> QED BY <1>2 DEF P

-----------------------------------------------------------------------------
\* Induction, in terms of sets.

\* A set of natural numbers that is not empty has a least element: the interval that ends
\* with it is the least of the intervals from 0.
LEMMA NatMin ==
  ASSUME NEW T \in SUBSET Nat, T # {}
  PROVE  \E m \in T : \A k \in T : m <= k
<1> DEFINE R     == StrictSubsetOrdering(Nat)
           Fin   == FiniteSubsetsOf(Nat)
           Below == {0 .. n : n \in T}
<1>1. IsWellFoundedOn(R, Fin)
  BY FS_StrictSubsetOrderingWellFounded
<1>2. Below \subseteq Fin /\ Below # {}
  <2>1. \A n \in T : IsFiniteSet(0 .. n) /\ 0 .. n \in SUBSET Nat
    BY FS_Interval
  <2> QED BY <2>1 DEF FiniteSubsetsOf
<1>3. PICK s \in Below : \A t \in Below : ~(<<t, s>> \in R)
  <2> HIDE DEF R, Fin, Below
  <2> QED BY <1>1, <1>2, WFMin
<1>4. PICK m \in T : s = 0 .. m
  OBVIOUS
<1>5. ASSUME NEW k \in T, k < m PROVE FALSE
  <2>1. 0 .. k \in SUBSET Nat /\ 0 .. m \in SUBSET Nat
    OBVIOUS
  <2>2. 0 .. k \subseteq 0 .. m /\ m \in 0 .. m /\ m \notin 0 .. k
    BY <1>5
  <2>3. <<0 .. k, 0 .. m>> \in R
    BY <2>1, <2>2 DEF StrictSubsetOrdering
  <2> QED BY <1>3, <1>4, <2>3
<1> QED BY <1>5

\* A set of numbers that holds 0 and the successor of each of its numbers up to N holds all
\* numbers up to N.
LEMMA UpTo ==
  ASSUME NEW N \in Nat, NEW S, 0 \in S, \A n \in 0 .. N - 1 : n \in S => n + 1 \in S
  PROVE  0 .. N \subseteq S
<1> SUFFICES ASSUME NEW j \in 0 .. N, j \notin S PROVE FALSE
  OBVIOUS
<1> DEFINE T == {n \in 0 .. N : n \notin S}
<1>1. T \in SUBSET Nat /\ T # {}
  OBVIOUS
<1> HIDE DEF T
<1>2. PICK m \in T : \A k \in T : m <= k
  BY <1>1, NatMin
<1>3. m \in 0 .. N /\ m \notin S /\ m # 0
  BY <1>2 DEF T
<1>4. m - 1 \in 0 .. N /\ m - 1 \in 0 .. N - 1 /\ ~(m <= m - 1) /\ m - 1 + 1 = m
  BY <1>3
<1>5. m - 1 \in S
  BY <1>2, <1>4 DEF T
<1>6. m - 1 + 1 \in S
  BY <1>4, <1>5
<1> QED BY <1>3, <1>4, <1>6

-----------------------------------------------------------------------------
\* The calendar, for every day from the first on.

\* Every day is in a year.
LEMMA YearExists ==
  ASSUME NEW n \in Int, n >= 1
  PROVE  \E y \in Int : 1 <= y /\ DaysBefore(y) < n /\ n <= DaysBefore(y + 1)
<1>1. PICK q \in Int : q = (400 * n) \div 146097 /\ q >= 0
  OBVIOUS
<1>2. DaysBefore(q) < n /\ n <= DaysBefore(q + 3)
  BY <1>1, SMT DEF DaysBefore
<1>3. /\ DaysBefore(q) \in Int /\ DaysBefore(q + 1) \in Int
      /\ DaysBefore(q + 2) \in Int /\ DaysBefore(q + 3) \in Int
  BY DaysBeforeMono
<1>4. DaysBefore(0 + 1) = 0
  BY DEF DaysBefore
<1>5. CASE n <= DaysBefore(q + 1)
  <2>1. q # 0
    BY <1>4, <1>5
  <2> QED BY <1>1, <1>2, <1>5, <2>1
<1>6. CASE DaysBefore(q + 1) < n /\ n <= DaysBefore(q + 2)
  BY <1>1, <1>6, q + 1 + 1 = q + 2
<1>7. CASE DaysBefore(q + 2) < n
  BY <1>1, <1>2, <1>7, q + 2 + 1 = q + 3
<1> QED BY <1>3, <1>5, <1>6, <1>7

\* What COleDateTime says of a day: a year, a month and a day of that month, which name it.
Named(n, y, m, d) ==
  /\ y \in Int /\ 1 <= y /\ m \in 1 .. 12 /\ d \in 1 .. MonthLength(m, y) /\ n \in Int
  /\ n = DaysBefore(y) + MonthStart(m, Leap(y)) + d

\* Every day has such a name.
LEMMA NameExists ==
  ASSUME NEW n \in Int, n >= 1
  PROVE  \E y, m, d : Named(n, y, m, d)
<1>1. PICK y \in Int : 1 <= y /\ DaysBefore(y) < n /\ n <= DaysBefore(y + 1)
  BY YearExists
<1>2. Leap(y) \in BOOLEAN
  BY DEF Leap
<1>3. /\ DaysBefore(y) \in Int /\ MonthStart(13, Leap(y)) \in Int
      /\ DaysBefore(y + 1) = DaysBefore(y) + MonthStart(13, Leap(y))
  BY <1>1, <1>2, YearLength, MonthStartMono
<1>4. PICK k \in Int : k = n - DaysBefore(y) /\ 1 <= k /\ k <= MonthStart(13, Leap(y))
  BY <1>1, <1>3
<1>5. PICK m \in 1 .. 12 : MonthStart(m, Leap(y)) < k /\ k <= MonthStart(m + 1, Leap(y))
  BY <1>2, <1>4, MonthOfDay
<1>6. MonthStart(m, Leap(y)) \in Int /\ MonthStart(m + 1, Leap(y)) \in Int
  BY <1>2, MonthStartMono, m + 1 \in 1 .. 13
<1>7. PICK d \in Int : d = k - MonthStart(m, Leap(y))
  BY <1>6
<1>8. d \in 1 .. MonthLength(m, y)
  BY <1>5, <1>6, <1>7 DEF MonthLength
<1>9. n = DaysBefore(y) + MonthStart(m, Leap(y)) + d
  BY <1>3, <1>4, <1>6, <1>7
<1> QED BY <1>1, <1>8, <1>9 DEF Named

\* GetYear, GetMonth and GetDay find it.
LEMMA NameFound ==
  ASSUME NEW n, NEW y, NEW m, NEW d, Named(n, y, m, d)
  PROVE  GetYear(n) = y /\ GetMonth(n) = m /\ GetDay(n) = d
BY RoundTrip DEF Named

\* So every day is named by its year, month and day.
LEMMA NameOf ==
  ASSUME NEW n \in Int, n >= 1
  PROVE  Named(n, GetYear(n), GetMonth(n), GetDay(n))
BY NameExists, NameFound

\* The lengths of the months, and their place in the year.
MonthFits(m, y) ==
  /\ MonthLength(m, y) \in Int /\ 28 <= MonthLength(m, y) /\ MonthLength(m, y) <= 31
  /\ MonthStart(m, Leap(y)) \in Int /\ 0 <= MonthStart(m, Leap(y))
  /\ MonthStart(m + 1, Leap(y)) = MonthStart(m, Leap(y)) + MonthLength(m, y)
  /\ MonthStart(m + 1, Leap(y)) <= MonthStart(13, Leap(y))
  /\ MonthStart(13, Leap(y)) \in 365 .. 366

\* They hold for every month of every year.
LEMMA MonthBounds ==
  ASSUME NEW y \in Int, 1 <= y, NEW m \in 1 .. 12
  PROVE  MonthFits(m, y)
<1>1. Leap(y) \in BOOLEAN
  BY DEF Leap
<1>2. \/ m = 1 \/ m = 2 \/ m = 3 \/ m = 4 \/ m = 5 \/ m = 6 \/ m = 7 \/ m = 8
      \/ m = 9 \/ m = 10 \/ m = 11 \/ m = 12
  OBVIOUS
<1> QED BY <1>1, <1>2 DEF MonthFits, MonthLength, MonthStart

\* A day's month ends on the day MonthEnd, its year on the day YearEnd.
MonthEnd(n) == n - GetDay(n) + MonthLength(GetMonth(n), GetYear(n))
YearEnd(n)  == DaysBefore(GetYear(n) + 1)

\* The days that are left of a month.
LEMMA MonthEndBounds ==
  ASSUME NEW n \in Int, n >= 1
  PROVE  /\ MonthEnd(n) \in Int /\ n <= MonthEnd(n) /\ MonthEnd(n) <= n + 30
         /\ GetDay(n) \in Int /\ GetDay(n) >= 1
<1> DEFINE y == GetYear(n)
           m == GetMonth(n)
           d == GetDay(n)
<1>1. Named(n, y, m, d)
  BY NameOf
<1> HIDE DEF y, m, d
<1>2. MonthLength(m, y) \in Int /\ 28 <= MonthLength(m, y) /\ MonthLength(m, y) <= 31
  BY <1>1, MonthBounds DEF MonthFits, Named
<1>3. d \in Int /\ 1 <= d /\ d <= MonthLength(m, y)
  BY <1>1, <1>2 DEF Named
<1>4. MonthEnd(n) = n - d + MonthLength(m, y)
  BY DEF MonthEnd, y, m, d
<1> QED BY <1>2, <1>3, <1>4 DEF d

\* The days up to the end of the month share year and month.
LEMMA SameMonth ==
  ASSUME NEW n \in Int, n >= 1, NEW k \in Int, n <= k, k <= MonthEnd(n)
  PROVE  /\ GetYear(k) = GetYear(n) /\ GetMonth(k) = GetMonth(n)
         /\ GetDay(k) = GetDay(n) + k - n /\ MonthEnd(k) = MonthEnd(n)
<1> DEFINE y == GetYear(n)
           m == GetMonth(n)
           d == GetDay(n)
<1>1. Named(n, y, m, d) /\ MonthEnd(n) = n - d + MonthLength(m, y)
  BY NameOf DEF MonthEnd
<1> HIDE DEF y, m, d
<1>2. /\ MonthLength(m, y) \in Int /\ MonthStart(m, Leap(y)) \in Int
      /\ DaysBefore(y) \in Int
  BY <1>1, MonthBounds, YearLength DEF MonthFits, Named
<1>3. d \in Int /\ 1 <= d
  BY <1>1, <1>2 DEF Named
<1>4. d + k - n \in 1 .. MonthLength(m, y)
  BY <1>1, <1>2, <1>3
<1>5. k = DaysBefore(y) + MonthStart(m, Leap(y)) + (d + k - n)
  BY <1>1, <1>2, <1>3 DEF Named
<1>6. Named(k, y, m, d + k - n)
  BY <1>1, <1>4, <1>5 DEF Named
<1>7. GetYear(k) = y /\ GetMonth(k) = m /\ GetDay(k) = d + k - n
  BY <1>6, NameFound
<1>8. MonthEnd(k) = k - (d + k - n) + MonthLength(m, y)
  BY <1>7 DEF MonthEnd
<1> QED BY <1>1, <1>2, <1>3, <1>7, <1>8 DEF y, m, d

\* The first 28 days after the end of a month are those of the month after it.
LEMMA NextMonth ==
  ASSUME NEW n \in Int, n >= 1, NEW e \in 1 .. 28
  PROVE  /\ GetMonth(MonthEnd(n) + e) = (GetMonth(n) % 12) + 1
         /\ GetDay(MonthEnd(n) + e) = e
         /\ GetYear(MonthEnd(n) + e) = IF GetMonth(n) = 12 THEN GetYear(n) + 1 ELSE GetYear(n)
<1> DEFINE y == GetYear(n)
           m == GetMonth(n)
           d == GetDay(n)
<1>1. Named(n, y, m, d) /\ MonthEnd(n) = n - d + MonthLength(m, y)
  BY NameOf DEF MonthEnd
<1> HIDE DEF y, m, d
<1>2. /\ MonthLength(m, y) \in Int /\ MonthStart(m, Leap(y)) \in Int
      /\ DaysBefore(y) \in Int
      /\ MonthStart(m + 1, Leap(y)) = MonthStart(m, Leap(y)) + MonthLength(m, y)
  BY <1>1, MonthBounds, YearLength DEF MonthFits, Named
<1>3. d \in Int /\ m \in 1 .. 12 /\ y \in Int /\ 1 <= y
  BY <1>1, <1>2 DEF Named
<1>4. MonthEnd(n) = DaysBefore(y) + MonthStart(m + 1, Leap(y)) /\ MonthEnd(n) \in Int
  BY <1>1, <1>2, <1>3 DEF Named
<1>5. CASE m = 12
  <2>1. MonthEnd(n) = DaysBefore(y + 1)
    BY <1>3, <1>4, <1>5, YearLength
  <2>2. MonthStart(1, Leap(y + 1)) = 0
    BY DEF MonthStart
  <2>3. e \in 1 .. MonthLength(1, y + 1)
    BY <1>3, MonthBounds DEF MonthFits
  <2>4. MonthEnd(n) + e = DaysBefore(y + 1) + MonthStart(1, Leap(y + 1)) + e
    BY <1>4, <2>1, <2>2
  <2>5. Named(MonthEnd(n) + e, y + 1, 1, e)
    BY <1>3, <1>4, <2>3, <2>4 DEF Named
  <2>6. GetYear(MonthEnd(n) + e) = y + 1 /\ GetMonth(MonthEnd(n) + e) = 1 /\ GetDay(MonthEnd(n) + e) = e
    BY <2>5, NameFound
  <2>7. (m % 12) + 1 = 1
    BY <1>5
  <2> QED BY <1>5, <2>6, <2>7 DEF y, m
<1>6. CASE m # 12
  <2>1. m + 1 \in 1 .. 12 /\ (m % 12) + 1 = m + 1
    BY <1>3, <1>6
  <2>2. PICK k \in 1 .. 12 : k = m + 1
    BY <2>1
  <2>3. MonthLength(k, y) \in Int /\ 28 <= MonthLength(k, y)
    BY <1>3, MonthBounds DEF MonthFits
  <2>4. e \in 1 .. MonthLength(m + 1, y)
    BY <2>2, <2>3
  <2>5. Named(MonthEnd(n) + e, y, m + 1, e)
    BY <1>3, <1>4, <2>1, <2>4 DEF Named
  <2>6. GetYear(MonthEnd(n) + e) = y /\ GetMonth(MonthEnd(n) + e) = m + 1 /\ GetDay(MonthEnd(n) + e) = e
    BY <2>5, NameFound
  <2> QED BY <1>6, <2>1, <2>6 DEF y, m
<1> QED BY <1>5, <1>6

\* The loops of lines 191 and 203 do not jump over a month and end on its last day.
LEMMA EndOfMonthRight ==
  ASSUME NEW n \in Int, n >= 1
  PROVE  EndOfMonth(n) = MonthEnd(n)
<1> DEFINE Left(k) == /\ GetMonth(n + 20 * k) # GetMonth(n)
                      /\ \A j \in 0 .. k - 1 : GetMonth(n + 20 * j) = GetMonth(n)
           turns   == CHOOSE k \in 1 .. 2 : Left(k)
<1>1. MonthEnd(n) \in Int /\ n <= MonthEnd(n) /\ MonthEnd(n) <= n + 30
  BY MonthEndBounds
<1>2. GetMonth(n) # (GetMonth(n) % 12) + 1
  BY NameOf DEF Named
<1>3. EndOfMonth(n) = n + 20 * turns - GetDay(n + 20 * turns)
  BY DEF EndOfMonth
<1> HIDE DEF turns
<1>4. GetMonth(n + 20 * 0) = GetMonth(n)
  OBVIOUS
<1>5. CASE n + 20 <= MonthEnd(n)
  <2>1. PICK e \in 1 .. 28 : n + 20 * 2 = MonthEnd(n) + e
    BY <1>1, <1>5, n + 20 * 2 - MonthEnd(n) \in 1 .. 28
  <2>2. GetMonth(n + 20 * 1) = GetMonth(n)
    BY <1>5, SameMonth
  <2>3. GetMonth(n + 20 * 2) # GetMonth(n) /\ GetDay(n + 20 * 2) = e
    BY <1>2, <2>1, NextMonth
  <2>4. Left(2) /\ ~Left(1)
    BY <1>4, <2>2, <2>3
  <2> HIDE DEF Left
  <2>5. turns = 2
    BY <2>4 DEF turns
  <2> QED BY <1>1, <1>3, <2>1, <2>3, <2>5
<1>6. CASE MonthEnd(n) < n + 20
  <2>1. PICK e \in 1 .. 28 : n + 20 * 1 = MonthEnd(n) + e
    BY <1>1, <1>6, n + 20 * 1 - MonthEnd(n) \in 1 .. 28
  <2>2. GetMonth(n + 20 * 1) # GetMonth(n) /\ GetDay(n + 20 * 1) = e
    BY <1>2, <2>1, NextMonth
  <2>3. Left(1) /\ ~Left(2)
    BY <1>4, <2>2, 1 \in 0 .. 2 - 1
  <2> HIDE DEF Left
  <2>4. turns = 1
    BY <2>3 DEF turns
  <2> QED BY <1>1, <1>3, <2>1, <2>2, <2>4
<1> QED BY <1>1, <1>5, <1>6

\* NextDayOfWeek (lines 299 to 314) follows the days.
LEMMA NextDay ==
  ASSUME NEW k \in Int
  PROVE  NextDayOfWeek((k % 7) + 1) = ((k + 1) % 7) + 1
<1>1. k % 7 = 0 \/ k % 7 = 1 \/ k % 7 = 2 \/ k % 7 = 3 \/ k % 7 = 4 \/ k % 7 = 5 \/ k % 7 = 6
  OBVIOUS
<1>2. (k + 1) % 7 = IF k % 7 = 6 THEN 0 ELSE (k % 7) + 1
  OBVIOUS
<1> QED BY <1>1, <1>2 DEF NextDayOfWeek

\* Each turn of the loop of lines 175 to 179 holds the day of the week of the date it has come to.
LEMMA Turns ==
  ASSUME NEW now \in Int
  PROVE  \A k \in 0 .. 6 : Turned(now)[k] = ((now + k) % 7) + 1
<1> DEFINE Eq(g) == g = [n \in 0 .. 6 |-> IF n = 0 THEN GetDayOfWeek(now) ELSE NextDayOfWeek(g[n - 1])]
           c == [n \in 0 .. 6 |-> ((now + n) % 7) + 1]
<1>1. Turned(now) = CHOOSE g : Eq(g)
  BY DEF Turned
<1>2. Eq(c)
  <2>1. GetDayOfWeek(now) = c[0]
    BY DEF GetDayOfWeek
  <2>2. ASSUME NEW n \in 0 .. 6, n # 0 PROVE NextDayOfWeek(c[n - 1]) = c[n]
    <3>1. n - 1 \in 0 .. 6 /\ now + (n - 1) \in Int /\ now + (n - 1) + 1 = now + n
      BY <2>2
    <3>2. c[n - 1] = ((now + (n - 1)) % 7) + 1
      BY <3>1
    <3> QED BY <3>1, <3>2, NextDay
  <2> QED BY <2>1, <2>2
<1>3. ASSUME NEW g, Eq(g) PROVE \A k \in 0 .. 6 : g[k] = ((now + k) % 7) + 1
  <2>1. g[0] = (now % 7) + 1 
    BY <1>3 DEF GetDayOfWeek
  <2>2. \A n \in 0 .. 6 : n # 0 => g[n] = NextDayOfWeek(g[n - 1])
    BY <1>3
  <2> DEFINE S == {n \in 0 .. 6 : g[n] = ((now + n) % 7) + 1}
  <2>3. 0 \in S
    BY <2>1
  <2>4. ASSUME NEW n \in 0 .. 6 - 1, n \in S PROVE n + 1 \in S
    <3>1. g[n + 1] = NextDayOfWeek(g[n])
      BY <2>2
    <3>2. g[n] = ((now + n) % 7) + 1 /\ now + n \in Int
      BY <2>4
    <3> QED BY <3>1, <3>2, NextDay
  <2> HIDE DEF S
  <2>5. 0 .. 6 \subseteq S
    BY <2>3, <2>4, UpTo
  <2> QED BY <2>5 DEF S
<1> HIDE DEF Eq, c
<1>4. Eq(Turned(now))
  BY <1>1, <1>2
<1> QED BY <1>3, <1>4

\* A week ends on the day before the first day of the week that the locale names.
WeekEnd(w, n) == n + ((w - n) % 7)

\* It is the first such day.
LEMMA WeekEndBounds ==
  ASSUME NEW n \in Int, NEW w \in 0 .. 6
  PROVE  WeekEnd(w, n) \in Int /\ n <= WeekEnd(w, n) /\ WeekEnd(w, n) <= n + 6 /\ WeekEnd(w, n) % 7 = w
BY DEF WeekEnd

\* The loop of lines 175 to 179 ends on it.
LEMMA EndOfWeekRight ==
  ASSUME NEW n \in Int, nFirstDOW \in 0 .. 6
  PROVE  EndOfWeek(n) = WeekEnd(nFirstDOW, n)
<1>1. LastDayOfWeek = nFirstDOW + 1
  <2>1. \/ nFirstDOW = 0 \/ nFirstDOW = 1 \/ nFirstDOW = 2
        \/ nFirstDOW = 3 \/ nFirstDOW = 4 \/ nFirstDOW = 5 \/ nFirstDOW = 6
    OBVIOUS
  <2> QED BY <2>1 DEF LastDayOfWeek, FirstDayOfWeek
<1> DEFINE Ends(k) == /\ Turned(n)[k] = LastDayOfWeek
                      /\ \A j \in 0 .. k - 1 : Turned(n)[j] # LastDayOfWeek
<1>2. \A k \in 0 .. 6 : Turned(n)[k] = LastDayOfWeek <=> (n + k) % 7 = nFirstDOW
  BY <1>1, Turns
<1>3. PICK w \in 0 .. 6 : w = (nFirstDOW - n) % 7
  OBVIOUS
<1>4. \A k \in 0 .. 6 : (n + k) % 7 = nFirstDOW <=> k = w
  BY <1>3
<1>5. \A k \in 0 .. 6 : Turned(n)[k] = LastDayOfWeek <=> k = w
  BY <1>2, <1>4
<1>6. \A k \in 0 .. 6 : Ends(k) <=> k = w
  BY <1>5
<1>7. EndOfWeek(n) = n + CHOOSE k \in 0 .. 6 : Ends(k)
  BY DEF EndOfWeek
<1> HIDE DEF Ends
<1>8. (CHOOSE k \in 0 .. 6 : Ends(k)) = w
  BY <1>6
<1> QED BY <1>3, <1>7, <1>8 DEF WeekEnd

\* The year ends on its thirty-first of December, if the automation library accepts it.
LEMMA DecemberEnds ==
  ASSUME NEW n \in Int, n >= 1
  PROVE  /\ GetYear(n) \in Int /\ GetYear(n) >= 1
         /\ DaysBefore(GetYear(n)) \in Int /\ DaysBefore(GetYear(n)) < n
         /\ YearEnd(n) \in Int /\ n <= YearEnd(n) /\ YearEnd(n) <= n + 365
<1> DEFINE y == GetYear(n)
           m == GetMonth(n)
           d == GetDay(n)
<1>1. Named(n, y, m, d)
  BY NameOf
<1> HIDE DEF y, m, d
<1>2. y \in Int /\ 1 <= y /\ m \in 1 .. 12 /\ d \in 1 .. MonthLength(m, y)
      /\ n = DaysBefore(y) + MonthStart(m, Leap(y)) + d
  BY <1>1 DEF Named
<1>3. MonthFits(m, y)
  BY <1>2, MonthBounds
<1>4. DaysBefore(y) \in Int /\ DaysBefore(y + 1) = DaysBefore(y) + MonthStart(13, Leap(y))
  BY <1>2, YearLength
<1>5. d \in Int /\ 1 <= d /\ d <= MonthLength(m, y)
  BY <1>2, <1>3 DEF MonthFits
<1>6. YearEnd(n) = DaysBefore(y + 1)
  BY DEF YearEnd, y
<1>7. y \in Int /\ y >= 1 /\ DaysBefore(y) \in Int /\ DaysBefore(y) < n
  BY <1>2, <1>3, <1>4, <1>5 DEF MonthFits
<1>8. YearEnd(n) \in Int /\ n <= YearEnd(n) /\ YearEnd(n) <= n + 365
  BY <1>2, <1>3, <1>4, <1>5, <1>6 DEF MonthFits
<1> QED BY <1>7, <1>8 DEF y

\* The years that the automation library accepts.
AcceptedYear(y) == y \in 100 .. 9999

\* The last day of a year is its thirty-first of December.
LEMMA LastOfDecember ==
  ASSUME NEW y \in Int, 1 <= y
  PROVE  FromSystemTime(y, 12, 31) = IF AcceptedYear(y) THEN DaysBefore(y + 1) ELSE Invalid
<1>1. MonthLength(12, y) = 31 /\ MonthStart(12, Leap(y)) + 31 = MonthStart(13, Leap(y))
  BY DEF MonthLength, MonthStart
<1>2. DaysBefore(y + 1) = DaysBefore(y) + MonthStart(13, Leap(y))
  BY YearLength
<1>3. DaysBefore(y) \in Int /\ MonthStart(12, Leap(y)) \in Int
  BY YearLength DEF MonthStart
<1>4. DaysBefore(y) + MonthStart(12, Leap(y)) + 31 = DaysBefore(y) + MonthStart(13, Leap(y))
  BY <1>1, <1>3
<1> QED BY <1>1, <1>2, <1>4 DEF FromSystemTime, AcceptedYear

\* A day is before the end of another's year if and only if its year is not a later one.
LEMMA YearOrder ==
  ASSUME NEW a \in Int, NEW b \in Int, 1 <= a, a <= b
  PROVE  /\ GetYear(a) <= GetYear(b)
         /\ b <= YearEnd(a) => GetYear(b) = GetYear(a)
<1>1. /\ GetYear(a) \in Int /\ GetYear(a) >= 1 /\ DaysBefore(GetYear(a)) < a
      /\ DaysBefore(GetYear(a)) \in Int /\ DaysBefore(GetYear(a) + 1) \in Int
      /\ a <= DaysBefore(GetYear(a) + 1)
  BY DecemberEnds DEF YearEnd
<1>2. /\ GetYear(b) \in Int /\ GetYear(b) >= 1 /\ DaysBefore(GetYear(b)) < b
      /\ DaysBefore(GetYear(b)) \in Int /\ DaysBefore(GetYear(b) + 1) \in Int
      /\ b <= DaysBefore(GetYear(b) + 1)
  BY DecemberEnds DEF YearEnd
<1>3. GetYear(a) <= GetYear(b)
  <2>1. SUFFICES ASSUME GetYear(b) + 1 <= GetYear(a) PROVE FALSE
    BY <1>1, <1>2
  <2>2. DaysBefore(GetYear(b) + 1) <= DaysBefore(GetYear(a))
    BY <1>1, <1>2, <2>1, DaysBeforeMono
  <2> QED BY <1>1, <1>2, <2>2
<1>4. ASSUME b <= YearEnd(a) PROVE GetYear(b) = GetYear(a)
  <2>1. SUFFICES ASSUME GetYear(a) + 1 <= GetYear(b) PROVE FALSE
    BY <1>1, <1>2, <1>3
  <2>2. DaysBefore(GetYear(a) + 1) <= DaysBefore(GetYear(b))
    BY <1>1, <1>2, <2>1, DaysBeforeMono
  <2> QED BY <1>1, <1>2, <1>4, <2>2 DEF YearEnd
<1> QED BY <1>3, <1>4

\* The day after the end of a year is the first of January of the next.
LEMMA NewYearsDay ==
  ASSUME NEW n \in Int, n >= 1
  PROVE  /\ GetYear(YearEnd(n) + 1) = GetYear(n) + 1
         /\ GetMonth(YearEnd(n) + 1) = 1 /\ GetDay(YearEnd(n) + 1) = 1
<1>1. PICK y \in Int : y = GetYear(n) /\ y >= 1
  BY DecemberEnds
<1>2. PICK z \in Int : z = y + 1 /\ z >= 1
  BY <1>1
<1>3. YearEnd(n) \in Int /\ YearEnd(n) = DaysBefore(z)
  BY <1>1, <1>2, DecemberEnds DEF YearEnd
<1>4. MonthStart(1, Leap(z)) = 0 /\ 1 \in 1 .. MonthLength(1, z)
  BY DEF MonthStart, MonthLength
<1>5. YearEnd(n) + 1 \in Int /\ YearEnd(n) + 1 = DaysBefore(z) + MonthStart(1, Leap(z)) + 1
  BY <1>3, <1>4
<1>6. Named(YearEnd(n) + 1, z, 1, 1)
  BY <1>2, <1>4, <1>5 DEF Named
<1> QED BY <1>1, <1>2, <1>6, NameFound

\* Until then no day of a year is a first of January.
LEMMA NoNewYear ==
  ASSUME NEW n \in Int, n >= 1, NEW k \in Int, n < k, k <= YearEnd(n)
  PROVE  ~(GetDay(k) = 1 /\ GetMonth(k) = 1)
<1>1. SUFFICES ASSUME GetDay(k) = 1, GetMonth(k) = 1 PROVE FALSE
  OBVIOUS
<1>2. GetYear(k) = GetYear(n)
  BY YearOrder
<1>3. Named(k, GetYear(n), 1, 1)
  BY <1>1, <1>2, NameOf
<1>4. MonthStart(1, Leap(GetYear(n))) = 0
  BY DEF MonthStart
<1>5. DaysBefore(GetYear(n)) \in Int /\ DaysBefore(GetYear(n)) < n
  BY DecemberEnds
<1> QED BY <1>3, <1>4, <1>5 DEF Named

-----------------------------------------------------------------------------
\* GetDate.

\* What EndBefore says for the three kinds of end that EndsRight names.
FirstWeekEnd(n) ==
  CHOOSE d \in n .. n + 366 :
    /\ GetDayOfWeek(d + 1) = ((nFirstDOW + 1) % 7) + 1
    /\ \A k \in n .. d - 1 : ~(GetDayOfWeek(k + 1) = ((nFirstDOW + 1) % 7) + 1)
FirstMonthEnd(n) ==
  CHOOSE d \in n .. n + 366 : GetDay(d + 1) = 1 /\ \A k \in n .. d - 1 : ~(GetDay(k + 1) = 1)
FirstYearEnd(n) ==
  CHOOSE d \in n .. n + 366 :
    /\ GetDay(d + 1) = 1 /\ GetMonth(d + 1) = 1
    /\ \A k \in n .. d - 1 : ~(GetDay(k + 1) = 1 /\ GetMonth(k + 1) = 1)

\* EndsRight in terms of them.
LEMMA EndsNamed ==
  EndsRight <=>
    /\ op.name = "DHD_ENDTHISWEEK"  => date = FirstWeekEnd(op.from)
    /\ op.name = "DHD_ENDNEXTWEEK"  => date = FirstWeekEnd(FirstWeekEnd(op.from) + 1)
    /\ op.name = "DHD_ENDTHISMONTH" => date = FirstMonthEnd(op.from)
    /\ op.name = "DHD_ENDNEXTMONTH" => date = FirstMonthEnd(FirstMonthEnd(op.from) + 1)
    /\ op.name = "DHD_ENDTHISYEAR"  => date = FirstYearEnd(op.from)
    /\ op.name = "DHD_ENDNEXTYEAR"  => date = FirstYearEnd(FirstYearEnd(op.from) + 1)
BY DEF EndsRight, EndBefore, FirstWeekEnd, FirstMonthEnd, FirstYearEnd

\* The first day before the first day of a week.
LEMMA WeekEndFirst ==
  ASSUME NEW n \in Int, nFirstDOW \in 0 .. 6
  PROVE  FirstWeekEnd(n) = WeekEnd(nFirstDOW, n)
<1> DEFINE End(d)   == GetDayOfWeek(d + 1) = ((nFirstDOW + 1) % 7) + 1
           First(d) == End(d) /\ \A k \in n .. d - 1 : ~End(k)
<1>1. PICK w \in 0 .. 6 : w = (nFirstDOW - n) % 7
  OBVIOUS
<1>2. WeekEnd(nFirstDOW, n) = n + w
  BY <1>1 DEF WeekEnd
<1>3. \A k \in Int : End(k) <=> k % 7 = nFirstDOW
  BY DEF GetDayOfWeek
<1>4. n + w \in n .. n + 366 /\ End(n + w)
  BY <1>1, <1>3
<1>5. \A k \in n .. (n + w) - 1 : ~End(k)
  BY <1>1, <1>3
<1>6. ASSUME NEW d \in n .. n + 366, First(d) PROVE d = n + w
  BY <1>1, <1>4, <1>5, <1>6, ~(d < n + w), ~(n + w < d)
<1>7. First(n + w) /\ n + w \in n .. n + 366
  BY <1>1, <1>4, <1>5
<1>8. FirstWeekEnd(n) = CHOOSE d \in n .. n + 366 : First(d)
  BY Zenon DEF FirstWeekEnd
<1> HIDE DEF First
<1> QED BY <1>2, <1>4, <1>6, <1>7, <1>8

\* The first day before the first day of a month.
LEMMA MonthEndFirst ==
  ASSUME NEW n \in Int, n >= 1
  PROVE  FirstMonthEnd(n) = MonthEnd(n)
<1> DEFINE End(d)   == GetDay(d + 1) = 1
           First(d) == End(d) /\ \A k \in n .. d - 1 : ~End(k)
<1>1. MonthEnd(n) \in Int /\ n <= MonthEnd(n) /\ MonthEnd(n) <= n + 30
  BY MonthEndBounds
<1>2. GetDay(MonthEnd(n) + 1) = 1
  BY NextMonth
<1>3. \A k \in n .. MonthEnd(n) - 1 : GetDay(k + 1) # 1
  <2> SUFFICES ASSUME NEW k \in n .. MonthEnd(n) - 1 PROVE GetDay(k + 1) # 1
    OBVIOUS
  <2>1. PICK j \in Int : j = k + 1 /\ n < j /\ j <= MonthEnd(n)
    BY <1>1
  <2>2. GetDay(j) = GetDay(n) + j - n /\ GetDay(n) \in Int /\ GetDay(n) >= 1
    BY <2>1, SameMonth, MonthEndBounds
  <2> QED BY <2>1, <2>2
<1>4. PICK e \in Int : e = MonthEnd(n)
  BY <1>1
<1>5. e \in n .. n + 366 /\ End(e) /\ \A k \in n .. e - 1 : ~End(k)
  BY <1>1, <1>2, <1>3, <1>4
<1>6. ASSUME NEW d \in n .. n + 366, First(d) PROVE d = e
  BY <1>4, <1>5, <1>6, ~(d < e), ~(e < d)
<1>7. First(e) /\ e \in n .. n + 366
  BY <1>4, <1>5
<1>8. FirstMonthEnd(n) = CHOOSE d \in n .. n + 366 : First(d)
  BY Zenon DEF FirstMonthEnd
<1> HIDE DEF First
<1> QED BY <1>2, <1>4, <1>6, <1>7, <1>8

\* The first day before a first of January.
LEMMA YearEndFirst ==
  ASSUME NEW n \in Int, n >= 1
  PROVE  FirstYearEnd(n) = YearEnd(n)
<1> DEFINE End(d)   == GetDay(d + 1) = 1 /\ GetMonth(d + 1) = 1
           First(d) == End(d) /\ \A k \in n .. d - 1 : ~End(k)
<1>1. YearEnd(n) \in Int /\ n <= YearEnd(n) /\ YearEnd(n) <= n + 365
  BY DecemberEnds
<1>2. GetDay(YearEnd(n) + 1) = 1 /\ GetMonth(YearEnd(n) + 1) = 1
  BY NewYearsDay
<1>3. \A k \in n .. YearEnd(n) - 1 : ~(GetDay(k + 1) = 1 /\ GetMonth(k + 1) = 1)
  BY <1>1, NoNewYear
<1>4. PICK e \in Int : e = YearEnd(n)
  BY <1>1
<1>5. e \in n .. n + 366 /\ End(e) /\ \A k \in n .. e - 1 : ~End(k)
  BY <1>1, <1>2, <1>3, <1>4
<1>6. ASSUME NEW d \in n .. n + 366, First(d) PROVE d = e
  BY <1>4, <1>5, <1>6, ~(d < e), ~(e < d)
<1>7. First(e) /\ e \in n .. n + 366
  BY <1>4, <1>5
<1>8. FirstYearEnd(n) = CHOOSE d \in n .. n + 366 : First(d)
  BY Zenon DEF FirstYearEnd
<1> HIDE DEF First
<1> QED BY <1>2, <1>4, <1>6, <1>7, <1>8

\* Making a date gives the number of a day, or none.
LEMMA DateType ==
  ASSUME NEW y \in Int, NEW m \in Int, NEW d \in Int
  PROVE  FromSystemTime(y, m, d) \in Nat
<1>1. CASE y \in 100 .. 9999 /\ m \in 1 .. 12 /\ d >= 1 /\ d <= MonthLength(m, y)
  <2>1. DaysBefore(y) \in Int /\ DaysBefore(y) >= 0
    BY <1>1, 1 <= y, YearLength
  <2>2. MonthStart(m, Leap(y)) \in Int /\ MonthStart(m, Leap(y)) >= 0
    <3>1. y \in Int /\ 1 <= y /\ m \in 1 .. 12
      BY <1>1
    <3> QED BY <3>1, MonthBounds DEF MonthFits
  <2>3. FromSystemTime(y, m, d) = DaysBefore(y) + MonthStart(m, Leap(y)) + d
    BY <1>1 DEF FromSystemTime
  <2> QED BY <1>1, <2>1, <2>2, <2>3
<1>2. CASE ~(y \in 100 .. 9999 /\ m \in 1 .. 12 /\ d >= 1 /\ d <= MonthLength(m, y))
  BY <1>2 DEF FromSystemTime, Invalid
<1> QED BY <1>1, <1>2

\* What GetDate (lines 149 to 227) gives on each day, from the calendar.
Dates(w, n) == <<n, n + 1, WeekEnd(w, n), WeekEnd(w, n) + 7, MonthEnd(n), MonthEnd(MonthEnd(n) + 1),
              YearEnd(n), YearEnd(YearEnd(n) + 1)>>

\* The year that a date of DH_DATE must name to be a date at all.
Accepted(i, n) == (i = 7 => AcceptedYear(GetYear(n))) /\ (i = 8 => AcceptedYear(GetYear(n) + 1))

ReadOn(w, i, n) == IF Accepted(i, n) THEN Dates(w, n)[i] ELSE Invalid

\* GetDate gives these dates, for any day and any first day of the week.
LEMMA GetDateRight ==
  ASSUME NEW n \in Int, n >= 1, nFirstDOW \in 0 .. 6, NEW i \in 1 .. 8
  PROVE  GetDate(DH_DATE[i], n) = ReadOn(nFirstDOW, i, n)
<1>1. EndOfWeek(n) = WeekEnd(nFirstDOW, n)
  BY EndOfWeekRight
<1>2. EndOfMonth(n) = MonthEnd(n) /\ MonthEnd(n) \in Int /\ n <= MonthEnd(n)
  BY EndOfMonthRight, MonthEndBounds
<1>3. EndOfMonth(MonthEnd(n) + 1) = MonthEnd(MonthEnd(n) + 1)
  BY <1>2, EndOfMonthRight
<1>4. PICK y \in Int : y = GetYear(n) /\ 1 <= y
  BY DecemberEnds
<1>5. GetDate(DH_DATE[7], n) = IF AcceptedYear(GetYear(n)) THEN YearEnd(n) ELSE Invalid
  <2>1. FromSystemTime(y, 12, 31) = IF AcceptedYear(y) THEN DaysBefore(y + 1) ELSE Invalid
    <3>1. y \in Int /\ 1 <= y
      BY <1>4
    <3> QED BY ONLY <3>1, LastOfDecember
  <2>2. GetDate(DH_DATE[7], n) = FromSystemTime(y, 12, 31)
    BY <1>4 DEF GetDate, DH_DATE
  <2> QED BY <1>4, <2>1, <2>2 DEF YearEnd
<1>6. GetDate(DH_DATE[8], n) = IF AcceptedYear(GetYear(n) + 1) THEN YearEnd(YearEnd(n) + 1) ELSE Invalid
  <2>1. PICK z \in Int : z = y + 1 /\ 1 <= z
    BY <1>4
  <2>2. FromSystemTime(z, 12, 31) = IF AcceptedYear(z) THEN DaysBefore(z + 1) ELSE Invalid
    <3>1. z \in Int /\ 1 <= z
      BY <2>1
    <3> QED BY ONLY <3>1, LastOfDecember
  <2>3. GetYear(YearEnd(n) + 1) = z
    BY <1>4, <2>1, NewYearsDay
  <2>4. GetDate(DH_DATE[8], n) = FromSystemTime(z, 12, 31)
    BY <1>4, <2>1 DEF GetDate, DH_DATE
  <2> QED BY <1>4, <2>1, <2>2, <2>3, <2>4 DEF YearEnd
<1>7. CASE i \in {1, 2, 3, 4}
  BY <1>1, <1>7 DEF GetDate, DH_DATE, Dates, Accepted, ReadOn
<1>8. CASE i \in {5, 6}
  BY <1>2, <1>3, <1>8 DEF GetDate, DH_DATE, Dates, Accepted, ReadOn
<1>9. CASE i = 7
  BY <1>5, <1>9 DEF Dates, Accepted, ReadOn
<1>10. CASE i = 8
  BY <1>6, <1>10 DEF Dates, Accepted, ReadOn
<1> QED BY <1>7, <1>8, <1>9, <1>10

Bounds(w, n) ==
  /\ WeekEnd(w, n) \in Int /\ n <= WeekEnd(w, n) /\ WeekEnd(w, n) <= n + 6
  /\ MonthEnd(n) \in Int /\ n <= MonthEnd(n) /\ MonthEnd(n) <= n + 30
  /\ MonthEnd(MonthEnd(n) + 1) \in Int /\ MonthEnd(n) + 28 <= MonthEnd(MonthEnd(n) + 1)
  /\ YearEnd(n) \in Int /\ n <= YearEnd(n)
  /\ YearEnd(YearEnd(n) + 1) \in Int /\ YearEnd(n) + 365 <= YearEnd(YearEnd(n) + 1)

\* All of them are days, and none is before the day it is read on.
LEMMA DatesBounds ==
  ASSUME NEW n \in Int, n >= 1, NEW w \in 0 .. 6
  PROVE  Bounds(w, n)
<1>1. MonthEnd(n) \in Int /\ n <= MonthEnd(n) /\ MonthEnd(n) <= n + 30
  BY MonthEndBounds
<1>2. PICK e \in Int : e = MonthEnd(n) + 1 /\ e >= 1
  BY <1>1
<1>3. GetDay(e) = 1
  BY <1>2, NextMonth
<1>4. Named(e, GetYear(e), GetMonth(e), 1)
  BY <1>2, <1>3, NameOf
<1>5. PICK len \in Int : len = MonthLength(GetMonth(e), GetYear(e)) /\ 28 <= len
  BY <1>4, MonthBounds DEF MonthFits, Named
<1>6. MonthEnd(e) = e - 1 + len
  BY <1>3, <1>5 DEF MonthEnd
<1>7. YearEnd(n) \in Int /\ n <= YearEnd(n)
  BY DecemberEnds
<1>8. PICK z \in Int : z = GetYear(n) + 1 /\ z >= 1
  BY DecemberEnds
<1>9. GetYear(YearEnd(n) + 1) = z
  BY <1>8, NewYearsDay
<1>10. YearEnd(n) = DaysBefore(z) /\ YearEnd(YearEnd(n) + 1) = DaysBefore(z + 1)
  BY <1>8, <1>9 DEF YearEnd
<1>11. /\ DaysBefore(z + 1) = DaysBefore(z) + MonthStart(13, Leap(z))
       /\ MonthStart(13, Leap(z)) \in 365 .. 366
  BY <1>8, YearLength, MonthBounds, 1 \in 1 .. 12 DEF MonthFits
<1>12. YearEnd(YearEnd(n) + 1) \in Int /\ YearEnd(n) + 365 <= YearEnd(YearEnd(n) + 1)
  BY <1>7, <1>10, <1>11
<1>13. MonthEnd(e) \in Int /\ MonthEnd(n) + 28 <= MonthEnd(e)
  BY <1>1, <1>2, <1>5, <1>6
<1> QED BY <1>1, <1>2, <1>7, <1>12, <1>13, WeekEndBounds DEF Bounds

\* What it gives is a date or none.
LEMMA ReadType ==
  ASSUME NEW n \in Int, n >= 1, NEW w \in 0 .. 6, NEW i \in 1 .. 8
  PROVE  ReadOn(w, i, n) \in Nat
<1>0. 0 \in Nat
  OBVIOUS
<1>1. Dates(w, n)[i] \in Nat
  <2>1. i = 1 \/ i = 2 \/ i = 3 \/ i = 4 \/ i = 5 \/ i = 6 \/ i = 7 \/ i = 8
    OBVIOUS
  <2>2. Bounds(w, n)
    BY DatesBounds
  <2>3. CASE i \in {1, 2, 3, 4, 5}
    BY <2>2, <2>3 DEF Dates, Bounds
  <2>4. CASE i \in {6, 7, 8}
    BY <2>2, <2>4 DEF Dates, Bounds
  <2> QED BY <2>1, <2>3, <2>4
<1> QED BY <1>0, <1>1, Zenon DEF ReadOn, Invalid

\* A month ends within its year, and the one after it within the next.
LEMMA MonthInYear ==
  ASSUME NEW n \in Int, n >= 1
  PROVE  MonthEnd(n) <= YearEnd(n)
<1> DEFINE y == GetYear(n)
           m == GetMonth(n)
           d == GetDay(n)
<1>1. Named(n, y, m, d) /\ MonthEnd(n) = n - d + MonthLength(m, y) /\ YearEnd(n) = DaysBefore(y + 1)
  BY NameOf DEF MonthEnd, YearEnd
<1> HIDE DEF y, m, d
<1>2. y \in Int /\ 1 <= y /\ m \in 1 .. 12 /\ d \in 1 .. MonthLength(m, y)
      /\ n = DaysBefore(y) + MonthStart(m, Leap(y)) + d
  BY <1>1 DEF Named
<1>3. MonthFits(m, y)
  BY <1>2, MonthBounds
<1>4. DaysBefore(y) \in Int /\ DaysBefore(y + 1) = DaysBefore(y) + MonthStart(13, Leap(y))
  BY <1>2, YearLength
<1>5. d \in Int
  BY <1>2, <1>3 DEF MonthFits
<1> QED BY <1>1, <1>2, <1>3, <1>4, <1>5 DEF MonthFits

\* Ends never go back from one day to a later one.
LEMMA EndsMono ==
  ASSUME NEW a \in Int, NEW b \in Int, 1 <= a, a <= b, NEW w \in 0 .. 6
  PROVE  /\ WeekEnd(w, a) <= WeekEnd(w, b) /\ MonthEnd(a) <= MonthEnd(b) /\ YearEnd(a) <= YearEnd(b)
<1>1. WeekEnd(w, a) <= WeekEnd(w, b)
  BY DEF WeekEnd
<1>2. MonthEnd(a) <= MonthEnd(b)
  <2>1. MonthEnd(a) \in Int /\ MonthEnd(b) \in Int /\ b <= MonthEnd(b)
    BY MonthEndBounds
  <2>2. CASE b <= MonthEnd(a)
    BY <2>1, <2>2, SameMonth
  <2> QED BY <2>1, <2>2
<1>3. YearEnd(a) <= YearEnd(b)
  <2>1. YearEnd(a) \in Int /\ YearEnd(b) \in Int /\ b <= YearEnd(b)
    BY DecemberEnds
  <2>2. CASE b <= YearEnd(a)
    <3>1. YearEnd(b) = YearEnd(a)
      BY <2>2, YearOrder DEF YearEnd
    <3> QED BY <2>1, <3>1
  <2> QED BY <2>1, <2>2
<1> QED BY <1>1, <1>2, <1>3

\* So GetDate for a later entry of the enumeration, on the same or a later day, is no earlier.
LEMMA DatesOrdered ==
  ASSUME NEW a \in Int, NEW b \in Int, 1 <= a, a <= b, NEW w \in 0 .. 6,
         NEW i \in 1 .. 8, NEW j \in 1 .. 8, <<i, j>> \in Ordered
  PROVE  Dates(w, a)[i] \in Int /\ Dates(w, b)[j] \in Int /\ Dates(w, a)[i] <= Dates(w, b)[j]
<1>1. Bounds(w, a)
  BY DatesBounds, 1 <= a
<1>2. Bounds(w, b)
  BY DatesBounds, 1 <= b
<1>3. WeekEnd(w, a) <= WeekEnd(w, b) /\ MonthEnd(a) <= MonthEnd(b) /\ YearEnd(a) <= YearEnd(b)
  BY EndsMono
<1>4. MonthEnd(b) <= YearEnd(b)
  BY MonthInYear
<1>5. MonthEnd(MonthEnd(a) + 1) <= MonthEnd(MonthEnd(b) + 1)
  <2>1. PICK c \in Int, d \in Int : c = MonthEnd(a) + 1 /\ d = MonthEnd(b) + 1 /\ 1 <= c /\ c <= d
    BY <1>1, <1>2, <1>3 DEF Bounds
  <2> QED BY <2>1, EndsMono
<1>6. YearEnd(YearEnd(a) + 1) <= YearEnd(YearEnd(b) + 1)
  <2>1. PICK c \in Int, d \in Int : c = YearEnd(a) + 1 /\ d = YearEnd(b) + 1 /\ 1 <= c /\ c <= d
    BY <1>1, <1>2, <1>3 DEF Bounds
  <2> QED BY <2>1, EndsMono
<1>7. MonthEnd(MonthEnd(b) + 1) <= YearEnd(YearEnd(b) + 1)
  <2>1. PICK c \in Int, d \in Int : c = MonthEnd(b) + 1 /\ d = YearEnd(b) + 1 /\ 1 <= c /\ c <= d
    BY <1>2, <1>4 DEF Bounds
  <2>2. /\ MonthEnd(c) <= YearEnd(c) /\ YearEnd(c) <= YearEnd(d)
        /\ MonthEnd(c) \in Int /\ YearEnd(c) \in Int /\ YearEnd(d) \in Int
    BY <2>1, MonthInYear, EndsMono, MonthEndBounds, DecemberEnds
  <2> QED BY <2>1, <2>2
<1>8. <<i, j>> \in {<<1, 2>>, <<1, 3>>, <<1, 4>>, <<1, 5>>, <<1, 6>>, <<1, 7>>, <<1, 8>>,
                    <<2, 4>>, <<2, 6>>, <<2, 8>>, <<3, 4>>, <<3, 6>>, <<3, 8>>, <<4, 8>>,
                    <<5, 6>>, <<5, 7>>, <<5, 8>>, <<6, 8>>, <<7, 8>>}
  BY DEF Ordered
<1>9. CASE i = 1
  BY <1>1, <1>2, <1>8, <1>9 DEF Dates, Bounds
<1>10. CASE i = 2
  BY <1>1, <1>2, <1>8, <1>10 DEF Dates, Bounds
<1>11. CASE i = 3
  BY <1>1, <1>2, <1>3, <1>8, <1>11 DEF Dates, Bounds
<1>12. CASE i = 4 \/ i = 6 \/ i = 7
  BY <1>1, <1>2, <1>3, <1>4, <1>5, <1>6, <1>7, <1>8, <1>12 DEF Dates, Bounds
<1>13. CASE i = 5
  BY <1>1, <1>2, <1>3, <1>4, <1>8, <1>13 DEF Dates, Bounds
<1> QED BY <1>8, <1>9, <1>10, <1>11, <1>12, <1>13

-----------------------------------------------------------------------------
\* CalcWeekdaysFromTo.

\* The weekdays among the n days from f on.
Workdays(f, n) == {d \in f .. f + n - 1 : GetDayOfWeek(d) \in 2 .. 6}

\* One day more is one weekday more if line 247 says so.
LEMMA OneMore ==
  ASSUME NEW f \in Int, NEW n \in Nat \ {0}
  PROVE  /\ IsFiniteSet(Workdays(f, n)) /\ Cardinality(Workdays(f, n)) \in Nat
         /\ Cardinality(Workdays(f, n)) =
              Cardinality(Workdays(f, n - 1)) + (IF Weekday(GetDayOfWeek(f + n - 1)) THEN 1 ELSE 0)
<1>1. PICK k \in Nat : n = k + 1
  BY n - 1 \in Nat
<1>2. IsFiniteSet(f .. f + k - 1) /\ Workdays(f, k) \in SUBSET (f .. f + k - 1)
  BY FS_Interval DEF Workdays
<1>3. IsFiniteSet(Workdays(f, k))
  BY <1>2, FS_Subset
<1>4. Cardinality(Workdays(f, k)) \in Nat
  BY <1>3, FS_CardinalityType
<1>5. PICK z \in Int : z = f + k
  OBVIOUS
<1>6. z \notin Workdays(f, k)
  BY <1>5 DEF Workdays
<1>7. GetDayOfWeek(z) \in 1 .. 7
  BY DEF GetDayOfWeek
<1>8. Weekday(GetDayOfWeek(z)) <=> GetDayOfWeek(z) \in 2 .. 6
  BY <1>7 DEF Weekday
<1>9. f .. f + n - 1 = (f .. f + k - 1) \cup {z}
  BY <1>1, <1>5
<1>10. Workdays(f, n) = IF GetDayOfWeek(z) \in 2 .. 6 THEN Workdays(f, k) \cup {z} ELSE Workdays(f, k)
  BY <1>9 DEF Workdays
<1>11. n - 1 = k /\ f + n - 1 = z
  BY <1>1, <1>5
<1>12. CASE GetDayOfWeek(z) \in 2 .. 6
  <2>1. Workdays(f, n) = Workdays(f, k) \cup {z}
    BY <1>10, <1>12
  <2>2. IsFiniteSet(Workdays(f, n)) /\ Cardinality(Workdays(f, n)) = Cardinality(Workdays(f, k)) + 1
    BY <1>3, <1>6, <2>1, FS_AddElement
  <2> QED BY <1>4, <1>8, <1>11, <1>12, <2>2
<1>13. CASE GetDayOfWeek(z) \notin 2 .. 6
  <2>1. Workdays(f, n) = Workdays(f, k)
    BY <1>10, <1>13
  <2> QED BY <1>3, <1>4, <1>8, <1>11, <1>13, <2>1
<1> QED BY <1>12, <1>13

\* The loop of lines 243 to 251 counts the weekdays, by induction over its turns.
LEMMA LoopCounts ==
  ASSUME NEW f \in Int, NEW t \in Int, NEW b \in BOOLEAN,
         NEW N \in Nat, N = t - f + (IF b THEN 1 ELSE 0), N > 0
  PROVE  CalcWeekdaysFromTo(f, t, b) = Cardinality(Workdays(f, N))
<1> DEFINE Eq(g) == g = [n \in 0 .. N |->
                           IF n = 0 THEN 0
                           ELSE g[n - 1] + (IF Weekday(GetDayOfWeek(f + n - 1)) THEN 1 ELSE 0)]
           c == [n \in 0 .. N |-> Cardinality(Workdays(f, n))]
           g0 == CHOOSE g : Eq(g)
<1>1. CalcWeekdaysFromTo(f, t, b) = g0[N]
  BY DEF CalcWeekdaysFromTo
<1>2. Cardinality(Workdays(f, 0)) = 0
  <2>1. Workdays(f, 0) = {}
    BY DEF Workdays
  <2> QED BY <2>1, FS_EmptySet
<1>3. Eq(c)
  <2>1. ASSUME NEW n \in 0 .. N
        PROVE  c[n] = IF n = 0 THEN 0
                      ELSE c[n - 1] + (IF Weekday(GetDayOfWeek(f + n - 1)) THEN 1 ELSE 0)
    <3>1. CASE n = 0
      BY <1>2, <3>1
    <3>2. CASE n # 0
      <4>1. n \in Nat \ {0} /\ n - 1 \in 0 .. N
        BY <3>2
      <4>2. Cardinality(Workdays(f, n)) =
              Cardinality(Workdays(f, n - 1)) + (IF Weekday(GetDayOfWeek(f + n - 1)) THEN 1 ELSE 0)
        BY <4>1, OneMore
      <4> QED BY <3>2, <4>1, <4>2
    <3> QED BY <3>1, <3>2
  <2> QED BY <2>1
<1>4. ASSUME NEW g, Eq(g) PROVE g[N] = Cardinality(Workdays(f, N))
  <2> DEFINE S == {n \in 0 .. N : g[n] = Cardinality(Workdays(f, n))}
  <2>1. 0 \in S
    BY <1>2, <1>4
  <2>2. ASSUME NEW n \in 0 .. N - 1, n \in S PROVE n + 1 \in S
    <3>1. PICK k \in Nat \ {0} : k = n + 1 /\ k \in 0 .. N /\ k - 1 = n
      BY <2>2
    <3>2. g[k] = g[n] + (IF Weekday(GetDayOfWeek(f + k - 1)) THEN 1 ELSE 0)
      BY <1>4, <3>1
    <3>3. Cardinality(Workdays(f, k)) =
            Cardinality(Workdays(f, n)) + (IF Weekday(GetDayOfWeek(f + k - 1)) THEN 1 ELSE 0)
      BY <3>1, OneMore
    <3>4. g[k] = Cardinality(Workdays(f, k))
      BY <2>2, <3>2, <3>3
    <3> QED BY <3>1, <3>4
  <2> HIDE DEF S
  <2>3. 0 .. N \subseteq S
    BY <2>1, <2>2, UpTo
  <2> QED BY <2>3 DEF S
<1> HIDE DEF Eq, c
<1>5. Eq(g0)
  BY <1>3
<1> HIDE DEF g0
<1> QED BY <1>1, <1>4, <1>5

\* CalcWeekdaysFromTo (lines 229 to 255), for any two dates.
LEMMA Weekdays ==
  ASSUME NEW f \in Int, NEW t \in Int, NEW b \in BOOLEAN
  PROVE  CalcWeekdaysFromTo(f, t, b) =
           Cardinality({d \in f .. (IF b THEN t ELSE t - 1) : GetDayOfWeek(d) \in 2 .. 6})
<1>1. PICK N \in Int : N = t - f + (IF b THEN 1 ELSE 0)
  OBVIOUS
<1>2. (IF b THEN t ELSE t - 1) = f + N - 1
  BY <1>1
<1>3. CASE N > 0
  BY <1>1, <1>2, <1>3, LoopCounts DEF Workdays
<1>4. CASE ~(N > 0)
  <2>1. CalcWeekdaysFromTo(f, t, b) = 0
    BY <1>1, <1>4 DEF CalcWeekdaysFromTo
  <2>2. {d \in f .. (IF b THEN t ELSE t - 1) : GetDayOfWeek(d) \in 2 .. 6} = {}
    BY <1>2, <1>4
  <2> QED BY <2>1, <2>2, FS_EmptySet
<1> QED BY <1>3, <1>4

-----------------------------------------------------------------------------
\* OffsetDate.

\* A day of the years that ConstantsAssumption allows, and what COleDateTime says of it.
GoodDay(n) ==
  /\ n \in Int /\ n > 0
  /\ GetYear(n) \in Int /\ 1000 <= GetYear(n) /\ GetYear(n) <= 9000
  /\ GetMonth(n) \in 1 .. 12
  /\ GetDay(n) \in Int /\ 1 <= GetDay(n) /\ GetDay(n) <= MonthLength(GetMonth(n), GetYear(n))

\* COleDateTime gives every day of these years a year, a month and a day of that month.
LEMMA GoodDays ==
  ASSUME NEW y \in Int, 1000 <= y, y <= 9000, NEW k \in Int, 1 <= k, k <= MonthStart(13, Leap(y))
  PROVE  GoodDay(DaysBefore(y) + k)
<1> DEFINE n == DaysBefore(y) + k
<1>1. Leap(y) \in BOOLEAN
  BY DEF Leap
<1>2. PICK m \in 1 .. 12 : MonthStart(m, Leap(y)) < k /\ k <= MonthStart(m + 1, Leap(y))
  BY <1>1, MonthOfDay
<1>3. MonthStart(m, Leap(y)) \in Int /\ MonthStart(m + 1, Leap(y)) \in Int
  BY <1>1, MonthStartMono, m + 1 \in 1 .. 13
<1>4. DaysBefore(y) \in Int /\ DaysBefore(y) >= 0
  BY YearLength
<1>5. PICK d \in Int : d = k - MonthStart(m, Leap(y))
  BY <1>3
<1>6. d \in 1 .. MonthLength(m, y) /\ MonthLength(m, y) \in Int
  BY <1>2, <1>3, <1>5 DEF MonthLength
<1>7. n \in Int /\ n > 0 /\ n = DaysBefore(y) + MonthStart(m, Leap(y)) + d
  BY <1>3, <1>4, <1>5
<1> HIDE DEF n
<1>8. GetYear(n) = y /\ GetMonth(n) = m /\ GetDay(n) = d
  BY <1>6, <1>7, RoundTrip
<1>9. GoodDay(n)
  BY <1>6, <1>7, <1>8 DEF GoodDay
<1> QED BY <1>9 DEF n

\* OffsetDate by months (lines 416 to 443), for one day and one amount.
LEMMA MonthsMove ==
  ASSUME NEW n, GoodDay(n), NEW a \in Int, -400 <= a, a <= 400
  PROVE  OffsetMonths(n, a) =
           IF GetMonth(n) + Rem(a, 12) < 0 THEN Invalid ELSE MonthsFrom(n, a)
<1> DEFINE months == 12 * GetYear(n) + GetMonth(n) - 1 + a
           y      == months \div 12
           m      == (months % 12) + 1
           st     == Carry(WORD(GetYear(n) + Quot(a, 12)), WORD(GetMonth(n) + Rem(a, 12)))
<1>r. Rem(a, 12) \in Int /\ -11 <= Rem(a, 12) /\ Quot(a, 12) \in Int
  BY Division
<1>n. /\ GetYear(n) \in Int /\ 1000 <= GetYear(n) /\ GetYear(n) <= 9000
      /\ GetMonth(n) \in Int /\ 1 <= GetMonth(n) /\ GetMonth(n) <= 12
  BY DEF GoodDay
<1>1. CASE GetMonth(n) + Rem(a, 12) < 0
  <2>1. PICK s \in Int : s = GetMonth(n) + Rem(a, 12) /\ -10 <= s /\ s < 0
    BY <1>1, <1>r, <1>n
  <2>2. PICK w \in Int : w = WORD(GetYear(n) + Quot(a, 12))
    BY <1>r, <1>n DEF WORD
  <2>3. st.month \notin 1 .. 12
    BY <2>1, <2>2, CarryWraps
  <2> HIDE DEF st
  <2>4. \A v : FromSystemTime(st.year, st.month, v) = Invalid
    BY <2>3 DEF FromSystemTime
  <2> QED BY <1>1, <2>4 DEF OffsetMonths, st
<1>2. CASE GetMonth(n) + Rem(a, 12) >= 0
  <2>1. st = [year |-> y, month |-> m]
    BY <1>2, CarryRight DEF GoodDay
  <2>2. y \in Nat \ {0} /\ m \in 1 .. 12
    <3>1. PICK k \in Int : k = months /\ k >= 12
      BY <1>n
    <3>2. k \div 12 \in Nat \ {0} /\ (k % 12) + 1 \in 1 .. 12
      BY <3>1
    <3> QED BY <3>1, <3>2
  <2>3. GetDaysInMonth(m, y) = MonthLength(m, y)
    BY <2>2, DaysInMonthRight
  <2>4. ~(GetMonth(n) + Rem(a, 12) < 0)
    BY <1>2, <1>r, <1>n
  <2> HIDE DEF st, y, m
  <2>5. OffsetMonths(n, a) =
          FromSystemTime(y, m, IF GetDay(n) < MonthLength(m, y) THEN GetDay(n) ELSE MonthLength(m, y))
    BY <2>1, <2>3 DEF OffsetMonths, st
  <2> QED BY <2>4, <2>5 DEF y, m, MonthsFrom
<1> QED BY <1>1, <1>2, <1>r, <1>n

\* A date that the automation library accepts becomes the number of its day.
LEMMA OfValidDate ==
  ASSUME NEW y \in Int, 600 <= y, y <= 9400, NEW m \in 1 .. 12,
         NEW d \in Int, 1 <= d, d <= MonthLength(m, y)
  PROVE  FromSystemTime(y, m, d) = DaysBefore(y) + MonthStart(m, Leap(y)) + d
<1>1. 100 <= y /\ y <= 9999
  OBVIOUS
<1>2. y \in 100 .. 9999
  BY <1>1
<1>3. d >= 1
  OBVIOUS
<1>4. y \in 100 .. 9999 /\ m \in 1 .. 12 /\ d >= 1 /\ d <= MonthLength(m, y)
  BY <1>2, <1>3
<1> QED BY ONLY <1>4 DEF FromSystemTime

\* OffsetDate by years (lines 445 to 456), for one day and one amount.
LEMMA YearsMove ==
  ASSUME NEW n, GoodDay(n), NEW a \in Int, -400 <= a, a <= 400
  PROVE  LET date1 == OffsetYears(n, a)
         IN  IF GetMonth(n) = 2 /\ GetDay(n) = 29 /\ MonthLength(2, GetYear(n) + a) = 28
             THEN date1 = Invalid
             ELSE /\ GetYear(date1) = GetYear(n) + a
                  /\ GetMonth(date1) = GetMonth(n) /\ GetDay(date1) = GetDay(n)
<1>1. PICK y \in Int : y = GetYear(n) + a /\ 600 <= y /\ y <= 9400
  BY DEF GoodDay
<1>2. PICK m \in 1 .. 12 : m = GetMonth(n)
  BY DEF GoodDay
<1>3. PICK d \in Int : d = GetDay(n) /\ 1 <= d /\ d <= MonthLength(m, GetYear(n))
  BY <1>2 DEF GoodDay
<1>4. OffsetYears(n, a) = FromSystemTime(y, m, d)
  BY <1>1, <1>2, <1>3, WordKeeps DEF OffsetYears
<1>5. CASE m = 2 /\ d = 29 /\ MonthLength(2, y) = 28
  <2>1. FromSystemTime(y, m, d) = Invalid
    BY <1>5 DEF FromSystemTime
  <2> QED BY <1>1, <1>2, <1>3, <1>4, <1>5, <2>1
<1>6. CASE ~(m = 2 /\ d = 29 /\ MonthLength(2, y) = 28)
  <2>1. d <= MonthLength(m, y) /\ MonthLength(m, y) \in Int
    BY <1>3, <1>6 DEF MonthLength, MonthStart
  <2>2. FromSystemTime(y, m, d) = DaysBefore(y) + MonthStart(m, Leap(y)) + d
    BY <1>1, <1>3, <2>1, OfValidDate
  <2>3. DaysBefore(y) + MonthStart(m, Leap(y)) + d \in Int
    <3>1. DaysBefore(y) \in Int
      BY <1>1, YearLength
    <3>2. MonthStart(m, Leap(y)) \in Int
      BY DEF MonthStart
    <3> QED BY <3>1, <3>2
  <2>4. PICK k \in Int : k = DaysBefore(y) + MonthStart(m, Leap(y)) + d
    BY <2>3
  <2>5. GetYear(k) = y /\ GetMonth(k) = m /\ GetDay(k) = d
    BY <1>1, <1>3, <2>1, <2>4, RoundTrip
  <2> QED BY <1>1, <1>2, <1>3, <1>4, <1>6, <2>2, <2>4, <2>5
<1> QED BY <1>5, <1>6

-----------------------------------------------------------------------------
\* What the theorems about OffsetDate rest on: the caller offsets a day of the years that are
\* tried, and one after Epoch is moved.
Moved ==
  /\ op = NoOp => GoodDay(date)
  /\ op.name \in {"DHU_MONTHS", "DHU_YEARS"} =>
       GoodDay(op.from) /\ op.n \in Int /\ -400 <= op.n /\ op.n <= 400
  /\ op.name = "DHU_MONTHS" /\ op.from > Epoch => date = OffsetMonths(op.from, op.n)
  /\ op.name = "DHU_YEARS" /\ op.from > Epoch => date = OffsetYears(op.from, op.n)

\* The days that the code compares dates with.
LEMMA EpochDay == Epoch \in Nat /\ ClockStart \in Nat
BY DEF Epoch, ClockStart, DaysBefore

\* The day a caller begins with is one of the years that are tried.
LEMMA MovedInit == Init => Moved
<1> SUFFICES ASSUME Init PROVE Moved
  OBVIOUS
<1>1. PICK y \in Years, k \in 1 .. 366 : k <= MonthStart(13, Leap(y)) /\ date = DaysBefore(y) + k
  BY DEF Init
<1>2. y \in Int /\ 1000 <= y /\ y <= 9000 /\ k \in Int /\ 1 <= k
  BY ConstantsAssumption
<1>3. GoodDay(date)
  BY <1>1, <1>2, GoodDays DEF Init
<1>4. op = NoOp /\ op.name = "none"
  BY DEF Init, NoOp
<1> QED BY <1>3, <1>4 DEF Moved

\* Every step keeps what the offset began with; only Offset and Get change it.
LEMMA MovedNext == Moved /\ [Next]_vars => Moved'
<1> SUFFICES ASSUME Moved, [Next]_vars PROVE Moved'
  OBVIOUS
<1>1. ASSUME UNCHANGED <<date, op>> PROVE Moved'
  BY <1>1 DEF Moved
<1>2. ASSUME NEW nUnits \in Units, NEW nAmount \in -Span .. Span, Offset(nUnits, nAmount)
      PROVE  Moved'
  <2>1. GoodDay(date) /\ date \in Int /\ Epoch \in Int
    BY <1>2, EpochDay DEF Offset, Moved, GoodDay
  <2>2. nAmount \in Int /\ -400 <= nAmount /\ nAmount <= 400
    BY ConstantsAssumption
  <2>3. op' = [name |-> nUnits, n |-> nAmount, from |-> date]
    BY <1>2 DEF Offset
  <2>4. op' # NoOp
    BY <2>3 DEF Units, NoOp
  <2>5. nUnits = "DHU_MONTHS" /\ date > Epoch => date' = OffsetMonths(date, nAmount)
    BY <1>2, <2>1 DEF Offset, OffsetDate
  <2>6. nUnits = "DHU_YEARS" /\ date > Epoch => date' = OffsetYears(date, nAmount)
    BY <1>2, <2>1 DEF Offset, OffsetDate
  <2>7. GoodDay(op'.from) /\ op'.n = nAmount /\ op'.name = nUnits /\ op'.from = date
    BY <2>1, <2>3
  <2> QED BY <2>2, <2>4, <2>5, <2>6, <2>7 DEF Moved
<1>3. ASSUME NEW i \in 1 .. 8, Get(DH_DATE[i])
      PROVE  Moved'
  <2>1. DH_DATE[i] \notin {"none", "DHU_MONTHS", "DHU_YEARS"}
    BY DEF DH_DATE
  <2>2. op'.name = DH_DATE[i]
    BY <1>3 DEF Get
  <2>3. op' # NoOp
    BY <2>1, <2>2 DEF NoOp
  <2> QED BY <2>1, <2>2, <2>3 DEF Moved
<1>4. CASE Midnight
  BY <1>1, <1>4 DEF Midnight
<1>5. CASE ReadFrom \/ ReadTo
  BY <1>1, <1>5 DEF ReadFrom, ReadTo
<1>6. CASE \E i, j \in 1 .. 8 : CalcDaysFromTo(i, j)
  BY <1>1, <1>6 DEF CalcDaysFromTo
<1>7. CASE UNCHANGED vars
  BY <1>1, <1>7 DEF vars
<1> QED BY <1>2, <1>3, <1>4, <1>5, <1>6, <1>7 DEF Next

\* For every day after the 30th of December 1899, up to the year 9000, and every amount of up to
\* 400: OffsetDate by months (lines 416 to 443) gives the day the calendar says, unless the WORD
\* of line 423 wraps.
THEOREM MonthsRight == Spec => []MonthOffsetRight
<1>1. Moved => MonthOffsetRight
  <2> SUFFICES ASSUME Moved, op.name = "DHU_MONTHS", op.from > Epoch,
                      GetMonth(op.from) + Rem(op.n, 12) >= 0
               PROVE  date = MonthsFrom(op.from, op.n)
    BY DEF MonthOffsetRight
  <2>1. GoodDay(op.from) /\ op.n \in Int /\ -400 <= op.n /\ op.n <= 400
    BY DEF Moved
  <2>2. GetMonth(op.from) \in Int /\ Rem(op.n, 12) \in Int
    <3>1. PICK a \in Int : a = op.n /\ -400 <= a /\ a <= 400
      BY <2>1
    <3>2. Rem(a, 12) \in Int
      BY <3>1, Division
    <3>3. GetMonth(op.from) \in Int
      BY <2>1 DEF GoodDay
    <3> QED BY <3>1, <3>2, <3>3
  <2>3. ~(GetMonth(op.from) + Rem(op.n, 12) < 0)
    BY <2>2
  <2>4. OffsetMonths(op.from, op.n) = MonthsFrom(op.from, op.n)
    BY <2>1, <2>3, MonthsMove
  <2> QED BY <2>4 DEF Moved
<1> QED BY <1>1, MovedInit, MovedNext, PTL DEF Spec

\* For the same days and amounts: OffsetDate by years (lines 445 to 456) keeps month and day,
\* and gives no date only for the 29th of February of a leap year moved to a common one.
THEOREM YearsRight == Spec => []YearOffsetRight
<1>1. Moved => YearOffsetRight
  BY YearsMove DEF Moved, YearOffsetRight
<1> QED BY <1>1, MovedInit, MovedNext, PTL DEF Spec

-----------------------------------------------------------------------------
\* What the theorems about GetDate and the counting rest on: every date is one that the code
\* has read or offset on some day, and the day a call of GetDate or OffsetDate begins with is
\* one of the years that are tried.
Dated ==
  /\ TypeOK /\ today >= 1
  /\ op = NoOp => GoodDay(date)
  /\ call = NoCall => GoodDay(today)
  /\ \A i \in 1 .. 8 :
       op.name = DH_DATE[i] => GoodDay(op.from) /\ date = ReadOn(nFirstDOW, i, op.from)

\* CalcDaysFromTo: the first date was read today or on an earlier day; a date read as the
\* second one before the first is today's, unless midnight has passed since.
Read ==
  /\ call.from # 0 /\ call.to = 0 =>
       \E a \in 1 .. today : call.from = ReadOn(nFirstDOW, call.nFrom, a)
  /\ call.to # 0 /\ call.from = 0 /\ ~call.late => call.to = ReadOn(nFirstDOW, call.nTo, today)
  /\ DaysNotNegative


\* COleDateTime has room for 400 weeks before a day of these years.
LEMMA FarEnough ==
  ASSUME NEW n, GoodDay(n)
  PROVE  n \in Int /\ n > 300000
<1>1. n \in Int /\ n >= 1 /\ GetYear(n) \in Int /\ 1000 <= GetYear(n)
  BY DEF GoodDay
<1>2. DaysBefore(GetYear(n)) \in Int /\ DaysBefore(GetYear(n)) < n
  BY <1>1, DecemberEnds
<1>3. DaysBefore(1000) <= DaysBefore(GetYear(n))
  BY <1>1, DaysBeforeMono
<1>4. DaysBefore(1000) > 300000 /\ DaysBefore(1000) \in Int
  BY DEF DaysBefore
<1> QED BY <1>1, <1>2, <1>3, <1>4

\* OffsetDate (lines 402 to 459) gives a date or none, never a day below the calendar.
LEMMA OffsetType ==
  ASSUME NEW n, GoodDay(n), NEW a \in Int, -400 <= a, a <= 400, NEW u \in Units
  PROVE  OffsetDate(n, a, u) \in Nat
<1>0. CASE n <= Epoch
  BY <1>0, FarEnough DEF OffsetDate
<1>1. n \in Int /\ n > 300000
  BY FarEnough
<1>2. /\ GetYear(n) \in Int /\ GetMonth(n) \in Int /\ GetDay(n) \in Int
      /\ GetYear(n) >= 1000 /\ GetMonth(n) \in 1 .. 12
  BY DEF GoodDay
<1>3. CASE ~(n <= Epoch) /\ u = "DHU_DAYS"
  BY <1>1, <1>3 DEF OffsetDate
<1>4. CASE ~(n <= Epoch) /\ u = "DHU_WEEKS"
  BY <1>1, <1>4 DEF OffsetDate
<1>5. CASE ~(n <= Epoch) /\ u = "DHU_MONTHS"
  <2> DEFINE months == 12 * GetYear(n) + GetMonth(n) - 1 + a
             y      == months \div 12
             m      == (months % 12) + 1
             d      == IF GetDay(n) < MonthLength(m, y) THEN GetDay(n) ELSE MonthLength(m, y)
  <2>1. OffsetDate(n, a, u) = OffsetMonths(n, a)
    BY <1>1, <1>5 DEF OffsetDate
  <2>2. OffsetMonths(n, a) = IF GetMonth(n) + Rem(a, 12) < 0 THEN Invalid ELSE FromSystemTime(y, m, d)
    BY MonthsMove DEF MonthsFrom
  <2>3. PICK k \in Int : k = months /\ k >= 12
    BY <1>2
  <2>4. y \in Int /\ 1 <= y /\ m \in 1 .. 12
    BY <2>3
  <2> HIDE DEF y, m
  <2>5. MonthLength(m, y) \in Int
    BY <2>4, MonthBounds DEF MonthFits
  <2>6. d \in Int
    BY <1>2, <2>5
  <2> HIDE DEF d
  <2>7. FromSystemTime(y, m, d) \in Nat
    BY <2>4, <2>6, m \in Int, DateType
  <2>8. Invalid \in Nat
    BY DEF Invalid
  <2> QED BY <2>1, <2>2, <2>7, <2>8
<1>6. CASE ~(n <= Epoch) /\ u = "DHU_YEARS"
  <2>1. OffsetDate(n, a, u) = OffsetYears(n, a)
    BY <1>1, <1>6 DEF OffsetDate
  <2>2. WORD(GetYear(n) + a) \in Int
    BY <1>2 DEF WORD
  <2> QED BY <1>2, <2>1, <2>2, DateType DEF OffsetYears
<1> QED BY <1>0, <1>3, <1>4, <1>5, <1>6 DEF Units

\* GetDate yields a date or none.
LEMMA GetDateType ==
  ASSUME NEW n \in Int, n >= 1, nFirstDOW \in 0 .. 6, NEW i \in 1 .. 8
  PROVE  GetDate(DH_DATE[i], n) \in Nat
BY GetDateRight, ReadType

\* The state a caller begins with.
LEMMA DatedInit == Init => Dated /\ Read
<1> SUFFICES ASSUME Init PROVE Dated /\ Read
  OBVIOUS
<1>1. PICK y \in Years, k \in 1 .. 366 : k <= MonthStart(13, Leap(y)) /\ date = DaysBefore(y) + k
  BY DEF Init
<1>2. y \in Int /\ 1000 <= y /\ y <= 9000 /\ k \in Int /\ 1 <= k
  BY ConstantsAssumption
<1>a. GoodDay(date)
  BY <1>1, <1>2, GoodDays
<1>b. GoodDay(ClockStart)
  <2>1. MonthStart(13, Leap(1970)) \in Int /\ 1 <= MonthStart(13, Leap(1970))
    BY DEF MonthStart
  <2> QED BY <2>1, GoodDays DEF ClockStart
<1>3. GoodDay(today)
  BY <1>a, <1>b DEF Init
<1>4. date \in Nat /\ today \in Nat /\ today >= 1
  BY <1>a, <1>3 DEF GoodDay
<1>5. op = [name |-> "none", n |-> 0, from |-> 0] /\ op.name = "none" /\ op.from = 0 /\ op.n = 0
  BY DEF Init, NoOp
<1>6. call = [nFrom |-> 0, nTo |-> 0, from |-> 0, to |-> 0, late |-> FALSE] /\ call = NoCall
  BY DEF Init, NoCall
<1>7. nFirstDOW \in 0 .. 6 /\ 0 \in -Span .. Span /\ midnights \in 0 .. MaxMidnights
  BY ConstantsAssumption DEF Init
<1>8. TypeOK
  BY <1>3, <1>4, <1>5, <1>6, <1>7 DEF TypeOK
<1>9. \A i \in 1 .. 8 : op.name # DH_DATE[i]
  BY <1>5 DEF DH_DATE
<1>10. Dated
  BY <1>a, <1>3, <1>4, <1>8, <1>9 DEF Dated
<1>11. call.from = 0 /\ call.to = 0
  BY <1>6
<1>12. DaysNotNegative
  BY <1>11 DEF DaysNotNegative
<1> QED BY <1>10, <1>11, <1>12 DEF Read

\* A step of the caller begins from a state in which nothing has been asked for.
LEMMA DatedNext == Dated /\ [Next]_vars => Dated'
<1> SUFFICES ASSUME Dated, [Next]_vars PROVE Dated'
  OBVIOUS
<1>t. /\ today \in Nat /\ today >= 1 /\ nFirstDOW \in 0 .. 6 /\ date \in Nat
      /\ op.from \in Nat /\ op.n \in -Span .. Span
      /\ call \in [nFrom : 0 .. 8, nTo : 0 .. 8, from : Nat, to : Nat, late : BOOLEAN]
      /\ call = NoCall \/ call.nFrom < call.nTo
      /\ midnights \in 0 .. MaxMidnights
  BY DEF Dated, TypeOK
<1>r. /\ call.nFrom \in 0 .. 8 /\ call.nTo \in 0 .. 8 /\ call.from \in Nat /\ call.to \in Nat
      /\ call.late \in BOOLEAN
  BY <1>t
<1>c. call # NoCall => call.nTo # 0
  BY <1>t, <1>r
<1>s. Span \in Nat /\ Span <= 400 /\ MaxMidnights \in Nat
  BY ConstantsAssumption
<1>k. ASSUME UNCHANGED <<nFirstDOW, date, op>>, today' \in Nat, today' >= 1,
             call' \in [nFrom : 0 .. 8, nTo : 0 .. 8, from : Nat, to : Nat, late : BOOLEAN],
             call' # NoCall, call'.nFrom < call'.nTo, midnights' \in 0 .. MaxMidnights
      PROVE  Dated'
  <2>1. TypeOK'
    BY <1>t, <1>k DEF TypeOK
  <2>2. (call = NoCall)' = FALSE
    BY <1>k DEF NoCall
  <2> QED BY <1>k, <2>1, <2>2 DEF Dated
<1>1. CASE Midnight
  <2>1. call # NoCall /\ midnights < MaxMidnights
    BY <1>1 DEF Midnight
  <2>2. PICK b \in BOOLEAN : call' = [call EXCEPT !.late = b]
    <3>1. (call.late \/ (call.to # 0 /\ call.from = 0)) \in BOOLEAN
      OBVIOUS
    <3> QED BY <1>1, <3>1 DEF Midnight
  <2>3. /\ call' \in [nFrom : 0 .. 8, nTo : 0 .. 8, from : Nat, to : Nat, late : BOOLEAN]
        /\ call'.nFrom = call.nFrom /\ call'.nTo = call.nTo
    BY <1>t, <2>2
  <2>4. call' # NoCall
    BY <1>c, <2>1, <2>3 DEF NoCall
  <2>5. call'.nFrom < call'.nTo
    BY <1>t, <2>1, <2>3
  <2>6. /\ today' \in Nat /\ today' >= 1 /\ midnights' \in 0 .. MaxMidnights
        /\ UNCHANGED <<nFirstDOW, date, op>>
    BY <1>1, <1>t, <1>s, <2>1 DEF Midnight
  <2> QED BY <1>k, <2>3, <2>4, <2>5, <2>6
<1>2. ASSUME NEW nUnits \in Units, NEW nAmount \in -Span .. Span, Offset(nUnits, nAmount)
      PROVE  Dated'
  <2>1. GoodDay(date) /\ GoodDay(today) /\ call = NoCall
    BY <1>2 DEF Offset, Dated
  <2>2. nAmount \in Int /\ -400 <= nAmount /\ nAmount <= 400
    BY <1>s
  <2>3. date' \in Nat
    BY <1>2, <2>1, <2>2, OffsetType DEF Offset
  <2>4. /\ op' = [name |-> nUnits, n |-> nAmount, from |-> date]
        /\ UNCHANGED <<today, nFirstDOW, call, midnights>>
    BY <1>2 DEF Offset
  <2>5. op'.name = nUnits /\ op'.from = date /\ op'.n = nAmount /\ op' # NoOp
    BY <2>4 DEF Units, NoOp
  <2>6. \A i \in 1 .. 8 : op'.name # DH_DATE[i]
    BY <2>5 DEF DH_DATE, Units
  <2>7. TypeOK'
    BY <1>t, <2>1, <2>3, <2>4, <2>5 DEF TypeOK
  <2>8. (op # NoOp)'
    BY <2>5 DEF NoOp
  <2>9. GoodDay(today)' /\ (today >= 1)'
    BY <1>t, <2>1, <2>4
  <2> QED BY <2>6, <2>7, <2>8, <2>9 DEF Dated
<1>3. ASSUME NEW j \in 1 .. 8, Get(DH_DATE[j])
      PROVE  Dated'
  <2>1. GoodDay(today) /\ call = NoCall
    BY <1>3 DEF Get, Dated
  <2>2. date' = ReadOn(nFirstDOW, j, today) /\ date' \in Nat
    BY <1>3, <1>t, GetDateRight, GetDateType DEF Get
  <2>4. /\ op' = [name |-> DH_DATE[j], n |-> 0, from |-> today]
        /\ UNCHANGED <<today, nFirstDOW, call, midnights>>
    BY <1>3 DEF Get
  <2>5. op'.name = DH_DATE[j] /\ op'.from = today /\ op'.n = 0
    BY <2>4
  <2>6. DH_DATE[j] # "none"
    BY DEF DH_DATE
  <2>7. (op # NoOp)'
    BY <2>5, <2>6 DEF NoOp
  <2>8. \A i \in 1 .. 8 : DH_DATE[i] = DH_DATE[j] => i = j
    BY DEF DH_DATE
  <2>9. TypeOK'
    BY <1>t, <1>s, <2>2, <2>4, <2>5 DEF TypeOK
  <2>10. GoodDay(today)' /\ (today >= 1)'
    BY <1>t, <2>1, <2>4
  <2>11. ASSUME NEW i \in 1 .. 8, op'.name = DH_DATE[i]
         PROVE  GoodDay(op'.from) /\ date' = ReadOn(nFirstDOW', i, op'.from)
    <3>1. i = j
      BY <2>5, <2>8, <2>11
    <3> QED BY <2>1, <2>2, <2>4, <2>5, <3>1
  <2> QED BY <2>7, <2>9, <2>10, <2>11 DEF Dated
<1>4. ASSUME NEW i \in 1 .. 8, NEW j \in 1 .. 8, CalcDaysFromTo(i, j)
      PROVE  Dated'
  <2>1. call' = [nFrom |-> i, nTo |-> j, from |-> 0, to |-> 0, late |-> FALSE] /\ i < j
    BY <1>4 DEF CalcDaysFromTo, NoCall
  <2>2. call' # NoCall /\ call'.nFrom < call'.nTo
        /\ call' \in [nFrom : 0 .. 8, nTo : 0 .. 8, from : Nat, to : Nat, late : BOOLEAN]
    BY <2>1 DEF NoCall
  <2> QED BY <1>4, <1>k, <1>t, <2>2 DEF CalcDaysFromTo
<1>5. ASSUME NEW f \in {call.nFrom, call.nTo}, NEW x, x = GetDate(DH_DATE[f], today), call.nFrom # 0,
             call' = [call EXCEPT !.from = x] \/ call' = [call EXCEPT !.to = x],
             UNCHANGED <<today, nFirstDOW, date, op, midnights>>
      PROVE  Dated'
  <2>1. call # NoCall /\ call.nFrom < call.nTo
    BY <1>5, <1>t DEF NoCall
  <2>2. f \in 1 .. 8
    BY <1>5, <1>r, <2>1
  <2>3. x \in Nat
    BY <1>5, <1>t, <2>2, GetDateType
  <2>4. /\ call' \in [nFrom : 0 .. 8, nTo : 0 .. 8, from : Nat, to : Nat, late : BOOLEAN]
        /\ call'.nFrom = call.nFrom /\ call'.nTo = call.nTo
    BY <1>5, <1>t, <2>3
  <2>5. call' # NoCall
    BY <1>5, <2>4 DEF NoCall
  <2> QED BY <1>5, <1>k, <1>t, <2>1, <2>4, <2>5
<1>6. CASE ReadFrom
  BY <1>5, <1>6 DEF ReadFrom
<1>7. CASE ReadTo
  BY <1>5, <1>7 DEF ReadTo
<1>8. CASE UNCHANGED vars
  BY <1>8 DEF vars, Dated, TypeOK
<1> QED BY <1>1, <1>2, <1>3, <1>4, <1>6, <1>7, <1>8 DEF Next

\* Two dates in the order of the enumeration, the first read no later than the second, are
\* in that order, whatever the days.
LEMMA InOrder ==
  ASSUME NEW w \in 0 .. 6, NEW a \in Int, NEW b \in Int, 1 <= a, a <= b,
         NEW i \in 1 .. 8, NEW j \in 1 .. 8, <<i, j>> \in Ordered,
         ReadOn(w, i, a) # 0, ReadOn(w, j, b) # 0
  PROVE  CalcDays(ReadOn(w, i, a), ReadOn(w, j, b), FALSE) >= 0
<1>1. ReadOn(w, i, a) = Dates(w, a)[i] /\ ReadOn(w, j, b) = Dates(w, b)[j]
  BY DEF ReadOn, Invalid
<1>2. Dates(w, a)[i] \in Int /\ Dates(w, b)[j] \in Int /\ Dates(w, a)[i] <= Dates(w, b)[j]
  BY DatesOrdered
<1>3. PICK p \in Int, q \in Int : p = ReadOn(w, i, a) /\ q = ReadOn(w, j, b) /\ p <= q
  BY <1>1, <1>2
<1>4. CalcDays(p, q, FALSE) >= 0
  BY <1>3 DEF CalcDays
<1> QED BY <1>3, <1>4

\* Midnight can only put the second date further from the first, or mark the call as late.
LEMMA ReadNext == Dated /\ Read /\ [Next]_vars => Read'
<1> SUFFICES ASSUME Dated, Read, [Next]_vars PROVE Read'
  OBVIOUS
<1>t. /\ today \in Int /\ today >= 1 /\ nFirstDOW \in 0 .. 6
      /\ call \in [nFrom : 0 .. 8, nTo : 0 .. 8, from : Nat, to : Nat, late : BOOLEAN]
      /\ call = NoCall \/ call.nFrom < call.nTo
  BY DEF Dated, TypeOK
<1>r. /\ call.nFrom \in 0 .. 8 /\ call.nTo \in 0 .. 8 /\ call.from \in Nat /\ call.to \in Nat
      /\ call.late \in BOOLEAN
  BY <1>t
<1>n. call.nFrom # 0 => call.nFrom \in 1 .. 8 /\ call.nTo \in 1 .. 8
  BY <1>t, <1>r DEF NoCall
<1>1. ASSUME UNCHANGED <<today, nFirstDOW, call>> PROVE Read'
  BY <1>1 DEF Read, DaysNotNegative
<1>2. CASE Midnight
  <2>1. PICK b \in BOOLEAN : call' = [call EXCEPT !.late = b]
                             /\ b = (call.late \/ (call.to # 0 /\ call.from = 0))
    <3>1. (call.late \/ (call.to # 0 /\ call.from = 0)) \in BOOLEAN
      BY Zenon, <1>r
    <3> QED BY <1>2, <3>1 DEF Midnight
  <2>2. /\ call'.from = call.from /\ call'.to = call.to /\ call'.late = b
        /\ call'.nFrom = call.nFrom /\ call'.nTo = call.nTo
    BY <1>t, <2>1
  <2>3. today' = today + 1 /\ nFirstDOW' = nFirstDOW
    BY <1>2 DEF Midnight
  <2>4. ASSUME call.from # 0, call.to = 0
        PROVE  \E a \in 1 .. today' : call.from = ReadOn(nFirstDOW, call.nFrom, a)
    <3>1. PICK a \in 1 .. today : call.from = ReadOn(nFirstDOW, call.nFrom, a)
      BY <2>4 DEF Read
    <3>2. a \in 1 .. today'
      BY <1>t, <2>3
    <3> QED BY <3>1, <3>2
  <2>5. ~(call'.to # 0 /\ call'.from = 0 /\ ~call'.late)
    BY <2>1, <2>2
  <2>6. ~call'.late => ~call.late
    BY <2>1, <2>2
  <2>7. DaysNotNegative'
    BY <2>2, <2>6 DEF Read, DaysNotNegative
  <2> QED BY <2>2, <2>3, <2>4, <2>5, <2>7 DEF Read
<1>3. CASE ReadFrom
  <2> DEFINE x == GetDate(DH_DATE[call.nFrom], today)
  <2>1. /\ call.nFrom \in 1 .. 8 /\ call.nTo \in 1 .. 8 /\ call.from = 0
        /\ call' = [call EXCEPT !.from = x] /\ UNCHANGED <<today, nFirstDOW>>
    BY <1>3, <1>n DEF ReadFrom
  <2>2. x = ReadOn(nFirstDOW, call.nFrom, today)
    BY <1>t, <2>1, GetDateRight
  <2> HIDE DEF x
  <2>3. /\ call'.from = x /\ call'.to = call.to /\ call'.late = call.late
        /\ call'.nFrom = call.nFrom /\ call'.nTo = call.nTo
    BY <1>t, <2>1
  <2>4. \E a \in 1 .. today : x = ReadOn(nFirstDOW, call.nFrom, a)
    BY <1>t, <2>2
  <2>5. ASSUME call.to # 0, x = 0, ~call.late PROVE call.to = ReadOn(nFirstDOW, call.nTo, today)
    BY <2>1, <2>5 DEF Read
  <2>6. ASSUME <<call.nFrom, call.nTo>> \in Ordered, x # 0, call.to # 0, ~call.late
        PROVE  CalcDays(x, call.to, FALSE) >= 0
    <3>1. call.to = ReadOn(nFirstDOW, call.nTo, today)
      BY <2>1, <2>6 DEF Read
    <3>2. /\ ReadOn(nFirstDOW, call.nFrom, today) # 0
          /\ ReadOn(nFirstDOW, call.nTo, today) # 0 /\ today <= today
      BY <1>t, <2>2, <2>6, <3>1
    <3>3. CalcDays(ReadOn(nFirstDOW, call.nFrom, today), ReadOn(nFirstDOW, call.nTo, today), FALSE) >= 0
      BY <1>t, <2>1, <2>6, <3>2, InOrder
    <3> QED BY <2>2, <3>1, <3>3
  <2>7. DaysNotNegative'
    BY <2>3, <2>6 DEF DaysNotNegative
  <2> QED BY <2>1, <2>3, <2>4, <2>5, <2>7 DEF Read
<1>4. CASE ReadTo
  <2> DEFINE x == GetDate(DH_DATE[call.nTo], today)
  <2>1. /\ call.nFrom \in 1 .. 8 /\ call.nTo \in 1 .. 8 /\ call.to = 0
        /\ call' = [call EXCEPT !.to = x] /\ UNCHANGED <<today, nFirstDOW>>
    BY <1>4, <1>n DEF ReadTo
  <2>2. x = ReadOn(nFirstDOW, call.nTo, today)
    BY <1>t, <2>1, GetDateRight
  <2> HIDE DEF x
  <2>3. /\ call'.from = call.from /\ call'.to = x /\ call'.late = call.late
        /\ call'.nFrom = call.nFrom /\ call'.nTo = call.nTo
    BY <1>t, <2>1
  <2>4. ASSUME call.from # 0 PROVE \E a \in 1 .. today : call.from = ReadOn(nFirstDOW, call.nFrom, a)
    BY <2>1, <2>4 DEF Read
  <2>5. ASSUME <<call.nFrom, call.nTo>> \in Ordered, call.from # 0, x # 0
        PROVE  CalcDays(call.from, x, FALSE) >= 0
    <3>1. PICK a \in 1 .. today : call.from = ReadOn(nFirstDOW, call.nFrom, a)
      BY <2>4, <2>5
    <3>2. a \in Int /\ 1 <= a /\ a <= today
      BY <1>t
    <3> QED BY <1>t, <2>1, <2>2, <2>5, <3>1, <3>2, InOrder
  <2>6. DaysNotNegative'
    BY <2>3, <2>5 DEF DaysNotNegative
  <2> QED BY <2>1, <2>2, <2>3, <2>4, <2>6 DEF Read
<1>5. ASSUME NEW i \in 1 .. 8, NEW j \in 1 .. 8, CalcDaysFromTo(i, j)
      PROVE  Read'
  <2>1. call'.from = 0 /\ call'.to = 0
    BY <1>5 DEF CalcDaysFromTo, NoCall
  <2> QED BY <2>1 DEF Read, DaysNotNegative
<1>6. ASSUME NEW nUnits \in Units, NEW nAmount \in -Span .. Span, Offset(nUnits, nAmount)
      PROVE  Read'
  BY <1>1, <1>6 DEF Offset
<1>7. ASSUME NEW i \in 1 .. 8, Get(DH_DATE[i])
      PROVE  Read'
  BY <1>1, <1>7 DEF Get
<1>8. CASE UNCHANGED vars
  BY <1>1, <1>8 DEF vars
<1> QED BY <1>2, <1>3, <1>4, <1>5, <1>6, <1>7, <1>8 DEF Next

\* The ends of this and the next of these years are dates.
LEMMA GoodAccepted ==
  ASSUME NEW n, GoodDay(n), NEW i \in 1 .. 8
  PROVE  Accepted(i, n)
<1>1. PICK y \in Int : y = GetYear(n) /\ 1000 <= y /\ y <= 9000
  BY DEF GoodDay
<1>2. 1000 <= y /\ y <= 9000
  BY <1>1
<1>3. AcceptedYear(y) /\ AcceptedYear(y + 1)
  BY ONLY <1>2, y \in Int DEF AcceptedYear
<1> QED BY <1>1, <1>3 DEF Accepted

\* For every day of the years from 1000 to 9000, every offset and any number of midnights: every
\* function gives a date or none, and never a day below the calendar.
THEOREM TypeCorrect == Spec => []TypeOK
<1>1. Dated => TypeOK
  BY DEF Dated
<1> QED BY <1>1, DatedInit, DatedNext, PTL DEF Spec

\* GetDate (lines 149 to 227) finds the last day of this and the next week, month and year, on
\* every day from 1970 to the year 9000 and for every first day of the week.
THEOREM EndsFound == Spec => []EndsRight
<1>1. Dated => EndsRight
  <2> SUFFICES ASSUME Dated PROVE EndsRight
    OBVIOUS
  <2>1. nFirstDOW \in 0 .. 6
    BY DEF Dated, TypeOK
  <2> DEFINE w == nFirstDOW
             n == op.from
  <2>2. ASSUME NEW i \in 3 .. 8, op.name = DH_DATE[i]
        PROVE  n \in Int /\ n >= 1 /\ date = Dates(w, n)[i]
    <3>1. i \in 1 .. 8 /\ GoodDay(n) /\ date = ReadOn(w, i, n)
      BY <2>2 DEF Dated
    <3>2. Accepted(i, n)
      BY <3>1, GoodAccepted
    <3> QED BY <3>1, <3>2 DEF ReadOn, GoodDay
  <2>3. ASSUME n \in Int, n >= 1
        PROVE  /\ FirstWeekEnd(n) = WeekEnd(w, n)
               /\ FirstWeekEnd(FirstWeekEnd(n) + 1) = WeekEnd(w, n) + 7
               /\ FirstMonthEnd(n) = MonthEnd(n)
               /\ FirstMonthEnd(FirstMonthEnd(n) + 1) = MonthEnd(MonthEnd(n) + 1)
               /\ FirstYearEnd(n) = YearEnd(n)
               /\ FirstYearEnd(FirstYearEnd(n) + 1) = YearEnd(YearEnd(n) + 1)
    <3>1. Bounds(w, n)
      BY <2>1, <2>3, DatesBounds
    <3>2. PICK a \in Int, b \in Int, c \in Int :
            /\ a = WeekEnd(w, n) + 1 /\ b = MonthEnd(n) + 1 /\ c = YearEnd(n) + 1
            /\ b >= 1 /\ c >= 1
      BY <2>3, <3>1 DEF Bounds
    <3>3. FirstWeekEnd(n) = WeekEnd(w, n) /\ FirstWeekEnd(a) = WeekEnd(w, a)
      BY <2>1, <2>3, WeekEndFirst
    <3>4. WeekEnd(w, a) = WeekEnd(w, n) + 7
      BY <2>1, <2>3, <3>2 DEF WeekEnd
    <3>5. FirstMonthEnd(n) = MonthEnd(n) /\ FirstMonthEnd(b) = MonthEnd(b)
      BY <2>3, <3>2, MonthEndFirst
    <3>6. FirstYearEnd(n) = YearEnd(n) /\ FirstYearEnd(c) = YearEnd(c)
      BY <2>3, <3>2, YearEndFirst
    <3> QED BY <3>2, <3>3, <3>4, <3>5, <3>6
  <2> HIDE DEF w, n
  <2>4. /\ op.name = "DHD_ENDTHISWEEK"  => date = FirstWeekEnd(n)
        /\ op.name = "DHD_ENDNEXTWEEK"  => date = FirstWeekEnd(FirstWeekEnd(n) + 1)
    BY <2>2, <2>3, 3 \in 3 .. 8, 4 \in 3 .. 8 DEF Dates, DH_DATE
  <2>5. /\ op.name = "DHD_ENDTHISMONTH" => date = FirstMonthEnd(n)
        /\ op.name = "DHD_ENDNEXTMONTH" => date = FirstMonthEnd(FirstMonthEnd(n) + 1)
    BY <2>2, <2>3, 5 \in 3 .. 8, 6 \in 3 .. 8 DEF Dates, DH_DATE
  <2>6. /\ op.name = "DHD_ENDTHISYEAR"  => date = FirstYearEnd(n)
        /\ op.name = "DHD_ENDNEXTYEAR"  => date = FirstYearEnd(FirstYearEnd(n) + 1)
    BY <2>2, <2>3, 7 \in 3 .. 8, 8 \in 3 .. 8 DEF Dates, DH_DATE
  <2> QED BY <2>4, <2>5, <2>6, EndsNamed DEF n
<1> QED BY <1>1, DatedInit, DatedNext, PTL DEF Spec

\* CalcWeekdaysFromTo (lines 229 to 255) counts the days from Monday to Friday between two dates,
\* in either order and with or without the last one.
THEOREM WeekdaysCounted == Spec => []WeekdaysRight
<1>1. Dated => WeekdaysRight
  <2> SUFFICES ASSUME Dated, NEW b \in BOOLEAN
               PROVE  CalcWeekdaysFromTo(op.from, date, b) =
                        Cardinality({d \in op.from .. (IF b THEN date ELSE date - 1) :
                                       GetDayOfWeek(d) \in 2 .. 6})
    BY DEF WeekdaysRight
  <2>1. op.from \in Int /\ date \in Int
    BY DEF Dated, TypeOK
  <2> QED BY <2>1, Weekdays
<1> QED BY <1>1, DatedInit, DatedNext, PTL DEF Spec

\* CalcDaysFromTo (lines 34 to 46) never counts backwards between dates that come in the order of
\* the enumeration, however many midnights pass between its two calls of GetDate, unless the
\* later date was read first.
THEOREM NeverBackwards == Spec => []DaysNotNegative
<1>1. Read => DaysNotNegative
  BY DEF Read
<1>2. Dated /\ Read /\ [Next]_vars => Dated' /\ Read'
  BY DatedNext, ReadNext
<1> QED BY <1>1, <1>2, DatedInit, PTL DEF Spec
=============================================================================
