CONSTANTS
  Frontends = {f1, f2}
  MaxReqs = 2
  Null = Null
  Blocks <- MCBlocks
  Slots = 45
  NULL = NULL
  Descriptors = {d1, d2}
  Candidates <- MCCandidates
  Forms <- MCValuedForms
SPECIFICATION MCSpec
SYMMETRY Symmetry
INVARIANTS
  FreesKnown
CHECK_DEADLOCK FALSE
