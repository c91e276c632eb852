SPECIFICATION FairSpec
CONSTANTS
  d1 = d1 d2 = d2
  p1 = p1 p2 = p2 p3 = p3 p4 = p4
  NULL = NULL
  Device <- TwoDevices
  Addr <- OwnAddr
  ETH_ALEN = 2
  Mac <- TwoMacs
  Proc <- ThreeProcs
  MaxAsk = 1 MaxFault = 2
  Nil <- NULL
INVARIANTS
  TypeOK AskedDevice OneLockHolder
PROPERTIES
  Answered SessionOver
