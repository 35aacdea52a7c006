CONSTANTS
  Sockets <- MCSockets
  MaxBackoff = 2
  MaxData = 2
  MaxFaults = 1
SPECIFICATION FairSpec
CHECK_DEADLOCK FALSE
INVARIANTS
  TypeOK
  OneConnection
  SubscribeFirst
PROPERTIES
  DashboardFresh
