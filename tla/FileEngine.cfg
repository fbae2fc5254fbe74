SPECIFICATION Spec
CHECK_DEADLOCK FALSE
CONSTANTS
  f = f
  g = g
  Absent = Absent
  Garbage = "#"
  Backups = TRUE
  EditLimit = 1
  MaxCalls = 2
  MaxTime = 2
  MaxMeddled = 1
  Paths <- MCPaths
  Lines <- MCLines
  Initial <- MCInitial
  Foreign <- MCForeign
  Calls <- MCCalls
INVARIANTS
  TypeOK
  NoTornFile
  LastVersionKept
  MoveKeepsFile
  ReportAgrees
  NoStrayTemp
PROPERTIES
  StoreSpec
