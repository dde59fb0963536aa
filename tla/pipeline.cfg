SPECIFICATION Spec
CONSTANTS
  Boards <- MCBoards
  Modes <- MCModes
  Switches = {}
  Faults = {"alloc", "aspace", "dsi", "clk"}
INVARIANTS MixersOwned MixersPaired RoutesSound PictureTrue BringUpSound
CHECK_DEADLOCK FALSE
