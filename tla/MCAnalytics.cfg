CONSTANTS
  Lower <- MCLower
  SpikeThreshold = 1
  Unanalysed = Unanalysed
  Nothing = Nothing
  Mentions <- MCMentions
  Early <- MCEarly
  Home = 1
  Now = 200
  Requests <- MCRequests
  Brands <- MCBrands
  Readers = {r1}
  Publishers = {p1}
  MaxRetries = 1
  MaxFaults = 1
  MaxDeletes = 1
SPECIFICATION FairSpec
CHECK_DEADLOCK FALSE
INVARIANTS
  TypeOK
  StaleOnlyByRace
  OneSpikeAlertPerWindow
  FiguresAgree
PROPERTIES
  EventuallyFresh
  SpikeAlerted
