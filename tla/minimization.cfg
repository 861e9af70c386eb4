SPECIFICATION Spec
CONSTANT Suites <- AllSuites
INVARIANTS
  SumIsExact
PROPERTIES
  ImplementsMinimumCover
CHECK_DEADLOCK FALSE
