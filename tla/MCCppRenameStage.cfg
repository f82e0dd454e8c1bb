SPECIFICATION Spec
VIEW MCView
CONSTANTS
  ROB_DEPTH = 2
  BUFFERED = 2
  CkptTag = {0, 1}
  N_ARCH_REGS = 2
  N_PHYS_REGS = 6
  Decoded <- MCDecoded
INVARIANTS TypeOK WaitingReserved NoDoubleUse MappingOfProgram
PROPERTIES SharedAtHandover RenameLosesLast
CHECK_DEADLOCK FALSE
