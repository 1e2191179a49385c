CONSTANTS
  Cores <- MCCores
  Lanes = 2
  Regs = 5
  Byte <- MCByte
  Zero = 0
  RegBytes = 2
  Stride = 2
  U32 = 16
  Num <- MCNum
  PartSize = 4
  PathSize = 8
  ImgSize = 8
  Models <- MCModels
  Files <- MCFiles
  Instrs <- MCInstrs
  Disciplined = TRUE
  MaxSteps = 3
SPECIFICATION LSpec
INVARIANT RecordedIsMade
PROPERTY ImplementsSharedLds
PROPERTY LegacyParity
CHECK_DEADLOCK FALSE
