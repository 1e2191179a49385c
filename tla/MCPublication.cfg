SPECIFICATION FairSpec
CONSTANTS
  File <- TwoFiles
  Bytes <- Contents
  LF <- ToLF
  Normalised <- Docs
  Sensitive <- Secrets
  Original = "v0"
  StatusMayFail = TRUE
  MaxEdits = 3
  MaxFaults = 3
  MaxRuns = 3
INVARIANTS Provenance NothingSensitive NeverTorn RollbackComplete OneFailureIsUndone
PROPERTIES RunEnds
CHECK_DEADLOCK FALSE
