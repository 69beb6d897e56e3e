CONSTANTS
  c1 = c1
  c2 = c2
  c3 = c3
  Clients <- ThreeClients
  MaxPeers = 2
  MaxSends = 1
  MaxResets = 1
  MaxCrashes = 1
SPECIFICATION FairSpec
CHECK_DEADLOCK FALSE
INVARIANTS
  TableAgrees
  IdsReachTheirClient
PROPERTIES
  CallsNameTheirSender
  LeavingNoticed
