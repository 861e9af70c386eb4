SPECIFICATION SessionSpec
CONSTANTS
  Files <- MCFiles
  Functions <- MCFunctions
  Defs <- MCDefs
  Uses <- MCUses
  Reaches <- MCReaches
  BadFunctions <- MCBadFunctions
  Entry = "main"
  Defines = {"D", "G"}
  GlobalDefines <- MCGlobalDefines
  Arguments = {{}, {"a.c"}}
  Users <- MCUsers
  Types <- MCTypes
  Edits <- MCEdits
  ArgvUsers = {"tester"}
  MaxArgc = 3
  ArgSpace = 4
  ShortValues = 8
  MaxInt = 5
  MainBodies <- MCMainBodies
  QueryFiles = {"script"}
  Queries <- MCQueries
  Capitals <- MCCapitals
  NotMacroNames = {"123"}
  Commands <- MCCommands
  Lines <- MCLines
  IntBits = 4
  LongBits = 6
  MaxMacros = 3
  MaxEdits = 2
  MaxTime = 1
  None = None
INVARIANTS
  ProgramUpToDate
  FilesAreAsParsed
  LinesAreReadAsWritten
  MacrosAreApplied
  TemporaryFilesAtEnd
  ArgvIsModelled
PROPERTIES
  NewFailuresAreReported
CHECK_DEADLOCK FALSE
