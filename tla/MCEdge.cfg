CONSTANTS
  Slot = {s1, s2}
  MaxAttempts = 2
  RateMax = 1
  Window = 2
  Lifetime = 2
  Second = 2
  Ids = {1, 2, 3}
  Texts = {a, b}
  MaxKeywords = 1
  Idle = Idle
  None = None
  MaxPairs = 2
  MaxRequests = 3
  MaxTime = 4
  MaxFaults = 1
SPECIFICATION Spec
SYMMETRY MCSymmetry
CHECK_DEADLOCK FALSE
INVARIANTS
  TypeOK
  QuotaHeld
  LogoutHolds
  RateBound
  SessionKept
