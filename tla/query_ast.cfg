SPECIFICATION Spec
CONSTANTS
  FilterFunctions = {0, 1}
  Predicates = {1}
  Bounds = {1}
  FilterOperators = {"Filter_Union"}
  Coverages = {"Edgecov"}
  Anchors = {TRUE, FALSE}
  MaxReductions = 5
  MaxStack = 4
  MaxNodes = 14
  MaxLeft = 1
INVARIANTS
  FactoriesConsistent
  NoDangling
  NothingLeftBehind
  NormalIsNormal
  PrintedIsReadBack
CHECK_DEADLOCK FALSE
