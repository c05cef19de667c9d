SPECIFICATION FairSpec
CONSTANTS
  c1 = c1
  c2 = c2
  c3 = c3
  Callers <- ThreeCallers
  FailureThreshold = 3
  SuccessThreshold = 2
  Timeout = 2
INVARIANTS TypeOK BreakerInv
PROPERTIES ImplementsContract RecoversAfterOutage OutageOpensCircuit
