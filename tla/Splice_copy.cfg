CONSTANTS
  IdleLimit = 2
  Window = 1
  MaxChunks = 2
SPECIFICATION FairSpec
INVARIANTS NothingLost CountsDelivered
PROPERTIES CopyEnds EndsAreLearned
CHECK_DEADLOCK FALSE
