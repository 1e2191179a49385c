CONSTANTS
  W = 4
  NRegs = 2
  TextBase = 64
  Instrs <- MCInstrs
  Kernel <- MCKernel
  SiteInstrs <- MCSites
  Fillers = {"s_nop", "s_delay_alu"}
  Laws <- MCLaws
SPECIFICATION Spec
INVARIANT ReadingsAgree
INVARIANT SuiteTells
INVARIANT LawsHold
INVARIANT SiteIsComputed
CHECK_DEADLOCK FALSE
