SPECIFICATION Spec
CONSTANTS
  Frontends = {f1, f2}
  MaxReqs = 2
  MaxRequests = 2
  AutoReset = FALSE
  SpawnMayFail = TRUE
  Null = Null
  Junk = Junk
  Error500 = Error500
SYMMETRY FrontendSymmetry
CHECK_DEADLOCK FALSE
INVARIANT NoCrossDelivery
INVARIANT RequestHeld
INVARIANT OneWakeup
INVARIANT QuietAtDelete
INVARIANT NoCrashWhileServing
PROPERTY ServiceSpec
