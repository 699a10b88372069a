SPECIFICATION Spec
CONSTANTS
  Files = {main, helper}
  Script = main
  MaxRequests = 2
  MaxDepth = 2
  MaxTraces = 4
INVARIANT FileRestored
