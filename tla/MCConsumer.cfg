CONSTANTS
  m1 = m1
  m2 = m2
  p1 = p1
  p2 = p2
  None = None
  Members <- MCMembers
  Partitions <- MCPartitions
  Poison <- MCPoison
  FaultKinds <- AllFaults
  LogLen = 2
  MaxRetries = 2
  MaxFaults = 2
SPECIFICATION FairSpec
INVARIANT TypeOK
INVARIANT CommittedIsSettled
INVARIANT QuietRunExactlyOnce
PROPERTY ImplementsOrderedDelivery
PROPERTY DrainsWhileAlive
CHECK_DEADLOCK FALSE
