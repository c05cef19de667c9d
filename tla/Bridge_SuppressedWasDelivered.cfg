SPECIFICATION Spec
CONSTANTS
  r1 = r1
  r2 = r2
  Requests <- TwoSlots
  Payloads <- AlertsAndMalformed
  DedupWindow = 1
  AuditMax = 2
  MaxCrashes = 0
  FailureThreshold = 2
  SuccessThreshold = 1
  Timeout = 1
  MaxEntries = 1
PROPERTY SuppressedWasDelivered
