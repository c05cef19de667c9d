SPECIFICATION FairSpec
CONSTANTS
  d1 = d1
  d2 = d2
  Slots <- OneSlot
  Alerts <- ToBoth
  MeshThreshold = 3
  FailureThreshold = 2
  SuccessThreshold = 1
  Timeout = 1
PROPERTIES OutageOpensMeshCircuit
