SPECIFICATION Spec
CONSTANTS
  FlushHwMask <- MCFlushHwMask
  Halves = {"L", "R"}
  MaxCommits = 3
  Overlap = FALSE
  IrqLag = FALSE
INVARIANT FbKept
CHECK_DEADLOCK FALSE
