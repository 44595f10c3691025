CONSTANTS
  q1 = q1
  q2 = q2
  q3 = q3
  k1 = k1
  k2 = k2
  Request = {q1, q2, q3}
  Key = {k1, k2}
  MeterOf <- AllDetections
  KeyOf <- RetriedKey
  Quota <- FreeOneProTwo
  MaxPeriod = 1
  Celery = TRUE
  SlowCalls = TRUE
  SummaryViews = TRUE
SPECIFICATION Spec
INVARIANT TypeOK
INVARIANT WithinQuota
INVARIANT ReserveInv
PROPERTY AdmitWithinPlan
PROPERTY ChargedByItsJob
PROPERTY ImplementsBook
CHECK_DEADLOCK FALSE
