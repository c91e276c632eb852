SPECIFICATION FairSpec
CONSTANTS
  c1 = c1 c2 = c2 NULL = NULL
  clilist = clilist
  Nil <- NULL
  Client <- TwoClients
  Cap = 1
  MaxCmd = 3
  MaxOut = 2
INVARIANTS
  TypeOK OnList
PROPERTIES
  RecordFirst CommandReturns OutcomeWritten
CHECK_DEADLOCK FALSE
