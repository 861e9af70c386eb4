SPECIFICATION Spec
CONSTANTS
  Queries <- AllQueries
  MaxPath = 25
  Unwind = 18
INVARIANTS
  InsertionIsExact
CHECK_DEADLOCK FALSE
