CONSTANTS
  Variant = "hw"
  NWaves = 3
  StepCap = 2
  RoundCap = 85
  Programs <- AllPrograms
SPECIFICATION Spec
INVARIANT SiteHistory
INVARIANT VerdictSound
INVARIANT RoundCapNotNeeded
PROPERTY BarrierContract
