SPECIFICATION Spec
CONSTANTS
  Programs <- MCPrograms
  Symbols <- MCSymbols
  Main = "main"
  MaxDepth = 3
  MaxCases = 2
  Options = {{}, {"called-functions", "assign-globals"}}
  None = None
INVARIANT
  TestCasesAreReal
CHECK_DEADLOCK FALSE
