SPECIFICATION PthSpec
CONSTANTS
  Base = 4
  Decimal <- ToString
  Objects <- MCObjects
  NoFile = NoFile
  NoResult = NoResult
INVARIANTS
  LoadedIsSaved
  WholeFilesLoad
\* a load ends
CHECK_DEADLOCK FALSE
