SPECIFICATION FairSpec
CONSTANTS
  Conns = {c1}
  Names = {n1}
  Compress = TRUE
  KeepAlive = 1
  TimeOut = 2
  SockCap = 1
  TxCap = 2
PROPERTIES KickedAreClosed SilentDropped StopReturns
CHECK_DEADLOCK FALSE
