CONSTANTS
  h1 = h1
  h2 = h2
  e1 = e1
  r1 = r1
  r2 = r2
  r3 = r3
  Nothing = Nothing
  Handlers <- OneHandler
  Events <- MCEvents
  Rules <- MCRules
  Matching <- Match
  Malformed <- MCMalformed
  MaxRetries = 3
  MaxFaults = 0
  MaxEdits = 0
  MaxWindows = 0
SPECIFICATION Spec
INVARIANT PushedIsPersisted
CHECK_DEADLOCK FALSE
