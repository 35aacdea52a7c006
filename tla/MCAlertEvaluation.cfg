CONSTANTS
  h1 = h1
  h2 = h2
  e1 = e1
  r1 = r1
  r2 = r2
  r3 = r3
  Nothing = Nothing
  Handlers <- TwoHandlers
  Events <- MCEvents
  Rules <- MCRules
  Matching <- Match
  Malformed <- MCMalformed
  MaxRetries = 2
  MaxFaults = 1
  MaxEdits = 1
  MaxWindows = 1
SPECIFICATION FairSpec
INVARIANT TypeOK
INVARIANT OnePushPerWindow
INVARIANT AlertPushed
INVARIANT QuietEventsAlert
PROPERTY EveryUpdateSettled
CHECK_DEADLOCK FALSE
