SPECIFICATION Spec
CONSTANTS
  NumPipes = 2
  PipeCaps <- TwinCaps
  PipeId <- TwinPipeId
  NClients <- TwinNClients
  BlkCnt = 3
  ReservedState = {}
  Reserved <- MCReserved
  NumPlanes = 2
  CursorPlanes = {}
  Configs <- SeamConfigs
  Overlap = TRUE
  Suspends = TRUE
INVARIANTS TypeOK PoolConsistent NothingLeaks RegsMatchPool
