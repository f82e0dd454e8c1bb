SPECIFICATION CompareSpec
CONSTANTS
  Cycles = {2, 3}
  Commits = {0, 1}
  Words = {0, 5}
INVARIANTS RegistersCompared
CHECK_DEADLOCK FALSE
