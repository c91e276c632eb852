SPECIFICATION Spec
CONSTANTS
  c1 = c1 c2 = c2 c3 = c3
  NULL = NULL
  Conn <- Clients
  FdLimit = 4
  Nil <- NULL
SYMMETRY Interchangeable
INVARIANTS
  TypeOK NoLogLeak
