SPECIFICATION Spec
CONSTANTS
  None = None
  Request <- MCRequest
  Configs <- MCConfigs
  Commits = 4
  Blob <- MCBlob
  Memory <- MCMemory
  Output <- MCOutput
  Errors <- MCErrors
  Cap = 2
  PipeCap = 1
  MaxEdits = 1
INVARIANTS NothingMissed ContentAtRef 
PROPERTY DraftEnds
CHECK_DEADLOCK FALSE
