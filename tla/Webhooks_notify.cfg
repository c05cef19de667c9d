SPECIFICATION Spec
CONSTANTS
  t1 = t1
  t2 = t2
  d1 = d1
  d2 = d2
  Threads <- TwoThreads
  Dispatches <- OneDispatch
  MaxIds = 3
  MaxRegistered = 2
  MaxAttempts = 2
  Subscribers <- AllIds
  BadUrls <- NoBadUrls
CHECK_DEADLOCK FALSE
INVARIANT AllSubscribersNotified
