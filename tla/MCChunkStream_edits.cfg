SPECIFICATION Spec
CONSTANTS
  Conns = {p1, p2}
  Cols <- MCCols
  Spawn = 0
  View = 1
  Budget = 2
  MaxChunks = 2
  JobCap = 3
  DrainMax = 100
  AllocFails = FALSE
  Label <- MCLabel
  Burst = 1
  MaxEdits = 1
SYMMETRY Symmetry
PROPERTIES EditsStay
CHECK_DEADLOCK FALSE
