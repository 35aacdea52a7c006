CONSTANTS
  m1 = m1
  m2 = m2
  p1 = p1
  p2 = p2
  None = None
  Members <- OneMember
  Partitions <- MCPartitions
  Poison <- MCPoison
  FaultKinds <- DeadLetterFaults
  LogLen = 2
  MaxRetries = 3
  MaxFaults = 1
SPECIFICATION FairSpec
CHECK_DEADLOCK FALSE
PROPERTY PoisonNeverBlocks
