SPECIFICATION Spec
CONSTANTS
  Objects = {1, 2}
  Pinnable = {1}
  Slots = {1}
  NoSlot = 0
  Devices <- MCDevices
  MaxUses = 1
INVARIANTS PinsBalanced MemorySound WillNeedKept
PROPERTIES AdviceTaken
