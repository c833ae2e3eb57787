SPECIFICATION FairSpec
CONSTANTS
  c1 = c1
  c2 = c2
  t1 = t1
  t2 = t2
  INVALID = INVALID
  NULL = NULL
  Clients = {c1, c2}
  Owner = c1
  Threads = {t1, t2}
  SelfDelete = FALSE
  MaxSuspend = 1
  Calls = {"start", "stop", "resume_all", "delete", "set_autodelete", "set_terminate", "wait"}
  Serial = TRUE
CHECK_DEADLOCK FALSE
INVARIANTS NoLostHandle StopOwnsObject
PROPERTIES StopLeavesIdle StopReturns StopEndsThread StopReleasesWaiters
