SPECIFICATION Spec
CONSTANTS
  ROB_DEPTH = 4
  RS_DEPTH = 2
  N_ARCH_REGS = 3
  N_PHYS_REGS = 10
  WORDS = 8
  PROG_LEN = 4
  None = None
  Programs <- MCPrograms
INVARIANT TypeOK
PROPERTIES ImplementsIsa Finishes
