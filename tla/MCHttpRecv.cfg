SPECIFICATION FairSpec
CONSTANTS
  BufferSize = 6
  HeadSizes = {4, 7}
  BodySizes = {0, 1, 2, 7}
  MaxMessages = 2
  Pipeline = TRUE
  TinySegments = TRUE
  Builds = {TRUE, FALSE}
  DiskMayFail = TRUE
CHECK_DEADLOCK FALSE
INVARIANT Framed
INVARIANT BuffersSuffice
PROPERTY BodyInMemory
PROPERTY ContinueComes
PROPERTY MessageAnswered
