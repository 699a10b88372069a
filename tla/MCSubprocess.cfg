SPECIFICATION FairSpec
CONSTANTS
  MaxProcs = 2
  MaxSockets = 2
  MaxFd = 5
  PipeSize = 1
  NoFd = 0
CHECK_DEADLOCK FALSE
INVARIANT PipesAccounted
INVARIANT OnlyOwnUsed
PROPERTY ReadReturns
