SPECIFICATION Spec
CONSTANTS
  Files = {main, helper}
  Script = main
  MaxRequests = 3
  MaxDepth = 2
  MaxTraces = 4
INVARIANT TracesNeverShort
INVARIANT Nested
INVARIANT StackBounded
INVARIANT OneCall
