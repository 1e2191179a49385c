CONSTANTS
  W = 8
  NRegs = 2
  TextBase = 0
  NLanes = 2
  NVgprs = 6
  Samples <- MCSamples
  VMasks <- MCVMasks
  VKernel <- MCKernel
  MaxSteps = 1
  VLaws <- MCLaws
  Twins <- MCTwins
  Repaired <- MCRepaired
SPECIFICATION VSpec
INVARIANT VLawsHold
INVARIANT TwinsAgree
INVARIANT OnlyRepairsDiffer
CHECK_DEADLOCK FALSE
