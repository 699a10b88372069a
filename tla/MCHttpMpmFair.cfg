SPECIFICATION FairSpec
CONSTANTS
  Frontends = {f1, f2}
  MaxReqs = 1
  MaxRequests = 1
  AutoReset = TRUE
  SpawnMayFail = FALSE
  Null = Null
  Junk = Junk
  Error500 = Error500
CHECK_DEADLOCK FALSE
PROPERTY CloseReturns
PROPERTY AnswerArrives
