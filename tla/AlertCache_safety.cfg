SPECIFICATION Spec
CONSTANTS
  a = a
  b = b
  c = c
  t1 = t1
  t2 = t2
  Ids <- Alerts
  Threads <- TwoThreads
  MaxEntries = 2
  MaxLimit = 2
  MaxTime = 6
SYMMETRY CacheSymmetry
CHECK_DEADLOCK FALSE
INVARIANTS TypeOK Accounting ListingReportsWhatStayed
PROPERTY EvictsLeastRecentlyUsed
