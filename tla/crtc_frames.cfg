SPECIFICATION Spec
CONSTANTS
  FlushHwMask <- MCFlushHwMask
  Halves = {"L"}
  MaxCommits = 5
  Overlap = FALSE
  IrqLag = FALSE
INVARIANTS FramesKept
PROPERTIES FlipShown Shown
CHECK_DEADLOCK FALSE
