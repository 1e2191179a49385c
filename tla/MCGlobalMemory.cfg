CONSTANTS
  Size = 6
  DwordBytes = 2
  Zero = 0
  Ones = 1
  Byte <- MCByte
  Negative <- MCNegative
  Images <- MCImages
  Synth <- MCSynth
  Pattern <- MCPattern
  Loads <- MCLoads
  ScalarLoads <- MCScalarLoads
  Stores <- MCStores
  CasWords <- MCCasWords
SPECIFICATION Spec
PROPERTY ImplementsByteMemory
