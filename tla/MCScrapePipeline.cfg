CONSTANTS
  w1 = w1
  w2 = w2
  k1 = k1
  k2 = k2
  u1 = u1
  f1 = f1
  Free = Free
  Workers <- MCWorkers
  Keywords <- MCKeywords
  Urls <- MCUrls
  Found <- MCFound
  Partial <- MCPartial
  MaxFaults = 1
SPECIFICATION FairSpec
INVARIANT TypeOK
INVARIANT UniqueUrl
INVARIANT CommittedAnnounced
INVARIANT LockExcludes
PROPERTY EveryFoundUrlStored
