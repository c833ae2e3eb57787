SPECIFICATION Spec
CONSTANTS
  Chunks = 2
  MaxRetries = 1
INVARIANT AbortDeletes
CHECK_DEADLOCK FALSE
