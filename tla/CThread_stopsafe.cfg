SPECIFICATION Spec
CONSTANTS
  c1 = c1
  c2 = c2
  t1 = t1
  t2 = t2
  INVALID = INVALID
  NULL = NULL
  Clients = {c1, c2}
  Owner = c1
  Threads = {t1, t2}
  SelfDelete = TRUE
  MaxSuspend = 1
  Calls = {"start", "stop"}
  Serial = TRUE
INVARIANT StopIsSafe
CHECK_DEADLOCK FALSE
