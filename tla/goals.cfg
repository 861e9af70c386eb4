SPECIFICATION Spec
CONSTANTS
  Queries <- AllQueries
  MaxWord = 3
INVARIANTS
  CoverLanguage
  EncodingExact
  SkipsAreSafe
  SimulationAgrees
CHECK_DEADLOCK FALSE
