CONSTANTS
  ES = 3
  FS = 6
  ED = 2
  FD = 1
  FB = 14
  IntBits = 4
  EW = 4
  FW = 4
  NW = 7
  Samples <- MCSamples
SPECIFICATION Spec
INVARIANT HalvesFaithful
INVARIANT FmacRoundsOnce
INVARIANT OrderAgrees
INVARIANT ScalesBack
