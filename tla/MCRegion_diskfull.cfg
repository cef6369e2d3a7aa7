SPECIFICATION Spec
CONSTANTS
  Chunks = {a, b}
  short = short
  middle = middle
  long = long
  Payloads <- MCPayloads
  Need <- MCNeed
  BYTE = 3
  MaxSectors = 6
  DiskFails = TRUE
  AllocFails = FALSE
  BeyondStray = TRUE
SYMMETRY Symmetry
INVARIANTS Durable
CHECK_DEADLOCK FALSE
