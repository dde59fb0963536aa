SPECIFICATION Spec
CONSTANTS
  FlushHwMask <- MCFlushHwMask
  Halves = {"L", "R"}
  MaxCommits = 4
  Overlap = TRUE
  IrqLag = TRUE
INVARIANTS TypeOK NoLostEvent
PROPERTY PFSpec
CHECK_DEADLOCK FALSE
