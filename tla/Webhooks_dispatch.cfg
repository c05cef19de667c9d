SPECIFICATION FairSpec
CONSTANTS
  t1 = t1
  t2 = t2
  d1 = d1
  d2 = d2
  Threads <- TwoThreads
  Dispatches <- TwoDispatches
  MaxIds = 3
  MaxRegistered = 2
  MaxAttempts = 2
  Subscribers <- LastTwo
  BadUrls <- SecondUrlBad
CHECK_DEADLOCK FALSE
INVARIANTS TypeOK RegistryNearLimit CountersMatchResults ResultsAreHonest ReturnCoversStable
PROPERTY DispatchesEnd
