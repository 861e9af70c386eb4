SPECIFICATION Spec
CONSTANTS
  Characters <- MCCharacters
  Space = Space
  NewLine = NewLine
  CarriageReturn = CarriageReturn
  MaxLine = 5
  DefaultMax = 3
  SavedMax = 6
  Columns = 5
  PromptLength = 2
  Terminals = {"tty", "dumb", "pipe"}
  PlainLines <- MCPlainLines
  OldHistories <- MCOldHistories
  MaxKeys = 6
  MaxSessions = 1
INVARIANTS
  ScreenShowsLine
  HistorySurvives
PROPERTIES
  EditingKeepsHistory
CHECK_DEADLOCK FALSE
