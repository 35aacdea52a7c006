CONSTANTS
  a = a
  b = b
  c = c
  Lower <- MCLower
  SpikeThreshold = 1
  Unanalysed = Unanalysed
  Unavailable = Unavailable
  Nothing = Nothing
  Torn = Torn
  TopSize = 1
  Undrawable = {3}
  Rows <- MCRows
  Now = 100
  Reports = {a, b, c}
  Type <- MCType
  Filters <- MCFilters
  Malformed = {b}
  Workers = {w1, w2}
  MaxFaults = 2
  MaxReports = 2
SPECIFICATION FairSpec
CHECK_DEADLOCK FALSE
INVARIANTS
  TypeOK
  NoLimbo
  OfferedFileKept
  CleanDelete
  FilesFit
PROPERTIES
  EveryReportDone
