SPECIFICATION FairSpec
CONSTANTS
  Conns = {p1, p2}
  Cols <- MCPair
  Spawn = 0
  View = 1
  Budget = 1
  MaxChunks = 1
  JobCap = 2
  DrainMax = 3
  AllocFails = TRUE
  Label <- MCMoved
  Burst = 1
  MaxEdits = 0
PROPERTIES ViewFills
CHECK_DEADLOCK FALSE
