SPECIFICATION FairSpec
CONSTANTS
  r1 = r1
  r2 = r2
  Requests <- OneSlot
  Payloads <- TwoAlerts
  DedupWindow = 1
  AuditMax = 1
  MaxCrashes = 0
  FailureThreshold = 1
  SuccessThreshold = 1
  Timeout = 1
  MaxEntries = 1
PROPERTY RetriedAlertsGetThrough
