SPECIFICATION PathSpec
CONSTANTS
  Programs <- AllPrograms
  Visited <- AllVisited
  Bounds = {1, 2}
  MaxPath = 16
INVARIANTS
  GraphsWellFormed
  PredicatesAreTransparent
  TargetsAreExact
CHECK_DEADLOCK FALSE
