SPECIFICATION FairSpec
CONSTANTS
  Chunks = 3
  MaxRetries = 2
INVARIANTS TypeOK NoDestroyDeadlock DestroyedClean OkMeansComplete NoPartialFile
PROPERTY AbortCloses
CHECK_DEADLOCK FALSE
