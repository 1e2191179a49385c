CONSTANTS
  Lanes <- MCLanes
  SReg <- MCSReg
  VReg <- MCVReg
  Num = 4
  Inputs <- MCInputs
  Kernels <- MCKernels
  Period = 3
SPECIFICATION CFairSpec
INVARIANT AllTheWay
PROPERTY KernelEnds
