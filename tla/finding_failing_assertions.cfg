SPECIFICATION SessionSpec
CONSTANTS
  Files <- MCFiles
  Functions <- MCFunctions
  Defs <- MCDefs
  Uses <- MCUses
  Reaches <- MCReaches
  BadFunctions <- MCBadFunctions
  Entry = "main"
  Defines = {"D", "G"}
  GlobalDefines <- NoDefines
  Arguments = {{}}
  Users = {"programmer"}
  Types <- MCTypes
  Edits <- NoEdits
  ArgvUsers = {}
  MaxArgc = 3
  ArgSpace = 4
  ShortValues = 8
  MaxInt = 5
  MainBodies <- MCMainBodies
  QueryFiles = {}
  Queries <- MCQueries
  Capitals <- MCCapitals
  NotMacroNames = {"123"}
  Commands <- MCCommands
  Lines <- MCLines
  IntBits = 4
  LongBits = 6
  MaxMacros = 3
  MaxEdits = 0
  MaxTime = 0
  None = None
INVARIANT NoFailingAssertions
CHECK_DEADLOCK FALSE
