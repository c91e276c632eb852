SPECIFICATION Spec
CONSTANTS
  d1 = d1 d2 = d2
  p1 = p1 p2 = p2 p3 = p3 p4 = p4
  NULL = NULL
  Device <- TwoDevices
  Addr <- OwnAddr
  ETH_ALEN = 2
  Mac <- TwoMacs
  Proc <- FourProcs
  MaxAsk = 2 MaxFault = 0
  Nil <- NULL
INVARIANTS
  OneReader
