SPECIFICATION FairSpec
CONSTANTS
  TotSer = 1
  BufLen = 1
  MaxOut = 1
  FdLimit = 3
PROPERTIES
  Reconnects
CHECK_DEADLOCK FALSE
