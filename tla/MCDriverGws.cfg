CONSTANTS
  Variant = "hw"
  NWaves = 2
  StepCap = 3
  RoundCap = 40
  Programs <- GwsPrograms
SPECIFICATION Spec
INVARIANT SuccessHasNoFault
