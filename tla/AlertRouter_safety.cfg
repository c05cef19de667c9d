SPECIFICATION Spec
CONSTANTS
  d1 = d1
  d2 = d2
  Slots <- TwoSlots
  Alerts <- AllKinds
  MeshThreshold = 3
  FailureThreshold = 1
  SuccessThreshold = 2
  Timeout = 1
SYMMETRY SlotSymmetry
INVARIANTS TypeOK EveryChannelAnswered
PROPERTIES BreakersKeepContract
