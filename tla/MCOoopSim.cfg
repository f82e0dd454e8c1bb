SPECIFICATION Spec
CONSTANTS
  BYTE_BITS = 4
  N_ARCH_REGS = 32
  N_PHYS_REGS = 128
  ROB_DEPTH = 4
  RS_DEPTH = 8
  ICACHE_WORDS = 3
  DMEM_WORDS = 4
  MAX_CYCLES = 24
  Programs <- MCPrograms
  Operands <- MCOperands
INVARIANTS TypeOK OneInFlight RegistersAccounted KeepsPace SameWord SameDecision
PROPERTIES NothingDropped RecoveryUndoesNothing ImplementsIsa
CHECK_DEADLOCK FALSE
