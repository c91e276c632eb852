SPECIFICATION FairSpec
CONSTANTS
  TotSer = 2
  BufLen = 2
  MaxOut = 5
  FdLimit = 3
INVARIANTS
  TypeOK CleanRestart
PROPERTIES
  OutputWhole LossNoticed FindsServer
CHECK_DEADLOCK FALSE
