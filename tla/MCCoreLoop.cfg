SPECIFICATION Spec
CONSTANTS
  ROB_DEPTH = 4
  RS_DEPTH = 2
  N_ARCH_REGS = 2
  N_PHYS_REGS = 12
  WORDS = 2
  PROG_LEN = 3
  None = None
  Programs <- MCPrograms
INVARIANTS RegistersDisjoint FlushKillsOnlyYounger NothingForgotten
PROPERTIES ImplementsRobTags LostInRecoveriesOnly
