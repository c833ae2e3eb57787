SPECIFICATION Spec
CONSTANTS
  c1 = c1
  c2 = c2
  t1 = t1
  t2 = t2
  INVALID = INVALID
  NULL = NULL
  Clients = {c1, c2}
  Owner = c1
  Threads = {t1, t2}
  SelfDelete = FALSE
  MaxSuspend = 2
  Calls = {"start", "stop", "suspend", "resume", "delete", "set_autodelete"}
  Serial = FALSE
CHECK_DEADLOCK FALSE
INVARIANTS TypeOK HandleOwnership
PROPERTIES LeaseSpec
