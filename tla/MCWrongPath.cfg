SPECIFICATION Spec
CONSTANTS
  ROB_DEPTH = 4
  RS_DEPTH = 2
  N_ARCH_REGS = 2
  N_PHYS_REGS = 4
  WORDS = 2
  PROG_LEN = 4
  None = None
  Programs <- MCPrograms
INVARIANT SquashedNeverStored
