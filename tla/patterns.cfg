SPECIFICATION PatternSpec
CONSTANTS
  Automata <- AllAutomata
  Patterns <- Depth2
  MaxWord = 4
INVARIANTS
  PatternLanguage
  LanguagePreserved
PROPERTIES
  Simplified
CHECK_DEADLOCK FALSE
