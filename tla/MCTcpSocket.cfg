SPECIFICATION Spec
CONSTANTS
  Threads = {t1, t2}
  Objects = {o1, o2}
  Handles = {h1, h2}
  INVALID = INVALID
  Nobody = Nobody
  Nothing = Nothing
  MaxSockets = 2
  MaxCalls = 4
  MaxData = 1
  Builds = {TRUE, FALSE}
INVARIANTS TypeOK CloseVerified NoSocketLost ReceiveWontBlock SameSocket LockBalanced
CHECK_DEADLOCK FALSE
SYMMETRY Symm
