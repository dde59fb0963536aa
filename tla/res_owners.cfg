SPECIFICATION Spec
CONSTANTS
  NumPipes = 3
  PipeCaps <- MCCaps
  PipeId <- MCPipeId
  NClients <- MCNClients
  BlkCnt = 6
  ReservedState = {0, 1, 2}
  Reserved <- OneReserved
  NumPlanes = 2
  CursorPlanes = {}
  Configs <- NoSeamConfigs
  Overlap = FALSE
  Suspends = FALSE
INVARIANTS OwnersAgree SmpServes
PROPERTIES NoImmediateReuse
