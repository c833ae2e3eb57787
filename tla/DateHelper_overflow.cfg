SPECIFICATION Spec
CONSTANTS
  Years = {2000, 2100}
  FirstDOWs = {0, 5, 6}
  Span = 14
  MaxMidnights = 1
INVARIANT OverflowHandled
CHECK_DEADLOCK FALSE
