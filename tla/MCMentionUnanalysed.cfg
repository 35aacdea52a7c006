CONSTANTS
  w1 = w1
  k1 = k1
  u1 = u1
  h1 = h1
  h2 = h2
  Free = Free
  Workers <- MCWorkers
  Keywords <- MCKeywords
  Urls <- MCUrls
  Found <- MCFound
  Partial <- MCPartial
  Texts <- MCTexts
  Summaries <- MCSummaries
  Settings <- MCSettings
  Stopwords <- MCStopwords
  Ignored <- MCIgnored
  Handlers <- OneHandler
  MaxRetries = 3
  MaxFaults = 0
SPECIFICATION FlowSpec
INVARIANT SettledMentionAnalysed
