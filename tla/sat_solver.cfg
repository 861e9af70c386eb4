SPECIFICATION Spec
CONSTANTS
  Clients <- AllClients
  RestartFirst = 1
INVARIANTS
  AnswersAreRight
  SearchIsSound
PROPERTIES
  SolveReturns
CHECK_DEADLOCK FALSE
