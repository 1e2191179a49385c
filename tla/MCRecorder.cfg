CONSTANTS
  Size = 6
  DwordBytes = 2
  Zero = 0
  Ones = 1
  Byte <- MCByte
  Negative <- MCNegative
  Images <- MCImages
  Synth <- MCSynth
  Pattern <- MCPattern
  Loads <- MCLoads
  ScalarLoads <- MCScalarLoads
  Stores <- MCStores
  CasWords <- MCCasWords
  s1 = s1
  s2 = s2
  Waves <- MCWaves
  Sites <- MCSites
  Regions <- MCRegions
  RecCap = 1
  MaxAccesses = 3
  Requests <- MCRequests
  DefaultRequest <- MCDefault
  AggCap = 1
  MaxContexts = 2
SPECIFICATION RSpec
CHECK_DEADLOCK FALSE
INVARIANT AllCountsExact
INVARIANT KeptAsPromised
INVARIANT VerdictExact
PROPERTY PassMeansConfined
