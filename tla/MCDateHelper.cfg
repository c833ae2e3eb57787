SPECIFICATION Spec
CONSTANTS
  Years = {1899, 2000, 2100}
  FirstDOWs = {0, 5, 6}
  Span = 14
  MaxMidnights = 1
INVARIANTS TypeOK MonthOffsetRight YearOffsetRight EndsRight WeekdaysRight DaysNotNegative
CHECK_DEADLOCK FALSE
