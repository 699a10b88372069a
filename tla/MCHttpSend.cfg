CONSTANTS
  Block = 3
  HeadSize = 2
  Sizes = {0, 1, 6, 7}
  Room = 2
  NoneSize = 4
  NoLength = NoLength
SPECIFICATION FairSpec
INVARIANTS
  InOrder
  CountCovers
  LengthTold
PROPERTIES
  SendReturns
CHECK_DEADLOCK FALSE
