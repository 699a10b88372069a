CONSTANTS
  Frontends = {f1, f2}
  MaxReqs = 2
  Null = Null
  Blocks <- MCBlocks
  Slots = 45
  NULL = NULL
  Descriptors = {d1, d2}
  Candidates <- Lowest
  Forms <- MCForms
SPECIFICATION MCSpec
SYMMETRY Symmetry
INVARIANTS
  TableExact
  NoLeak
  Accounted
CHECK_DEADLOCK FALSE
