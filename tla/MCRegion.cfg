SPECIFICATION Spec
CONSTANTS
  Chunks = {a, b}
  short = short
  middle = middle
  long = long
  Payloads <- MCPayloads
  Need <- MCNeed
  BYTE = 3
  MaxSectors = 6
  DiskFails = TRUE
  AllocFails = TRUE
  BeyondStray = FALSE
SYMMETRY Symmetry
INVARIANTS RunsDisjoint Durable ReadsBack
PROPERTIES ImplementsStore
CHECK_DEADLOCK FALSE
