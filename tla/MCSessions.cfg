SPECIFICATION Spec
CONSTANTS
  Conns = {c1, c2}
  Names = {n1}
  Compress = TRUE
  KeepAlive = 1
  TimeOut = 1
  SockCap = 1
  TxCap = 2
SYMMETRY Symmetry
INVARIANTS SameFormat NoOrphans NoDeafSockets UniqueNames OneKeepAlive NothingLeft
CHECK_DEADLOCK FALSE
