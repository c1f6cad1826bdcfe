SPECIFICATION LiveSpec
CONSTANTS
  Conns = {c1, c2}
  HostApps = {app}
  NoConn = noConn
  MaxCopies = 2
  MaxFaults = 2
INVARIANTS
  NewestStays
  OnlyControllerText
  PairAgrees
  AckedWasHandedOver
PROPERTY ViewerTextArrives
