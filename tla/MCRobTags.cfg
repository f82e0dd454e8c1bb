SPECIFICATION Spec
VIEW MCView
CONSTANTS
  ROB_DEPTH = 4
  N_PHYS_REGS = 1
  N_ARCH_REGS = 1
  NoPkt = NoPkt
  RenameInput <- MCRenameInput
INVARIANTS
  TypeOK
  TagsUnique
  Window
  SnapshotsCoverBranches
PROPERTY ImplementsQueue
