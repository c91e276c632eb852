SPECIFICATION Spec
CONSTANTS
  c1 = c1 c2 = c2
  k1 = k1 k2 = k2
  n1 = n1 n2 = n2
  m1 = m1
  NULL = NULL
  Conn <- TwoConn
  ClassObj <- Objs
  Name <- TwoNames
  Mac <- OneMac
  ParaNum = 2
  Nil <- NULL
SYMMETRY Interchangeable
INVARIANTS
  TypeOK RefCount Registered ClassIndex WalkSafe EventsLive FreedClassUnshared
  NoCircularWait NoDataRace NoLeak
PROPERTY
  IsDirectory
