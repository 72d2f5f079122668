SPECIFICATION HSpec
CONSTANTS
  MaxMsgs = 2
  MaxKeys = 2
  MaxRuns = 2
  MayFail = TRUE
CHECK_DEADLOCK FALSE
INVARIANTS
  HistoryTypeOK
  FileAtRest
PROPERTIES
  CiphertextIsSafe
  SavesLand
