CONSTANTS
  b1 = b1
  b2 = b2
  b3 = b3
  b4 = b4
  e1 = e1
  e2 = e2
  e3 = e3
  e4 = e4
  paper = paper
  essay = essay
  draft = draft
  Batch = {b1, b2, b3, b4}
  Event = {e1, e2, e3, e4}
  BatchOf <- Batches
  OwnerOf <- Owners
  ProviderOf <- Provided
  ContentOf <- Contents
  Ttl = 0
  Hour = 0
  Day = 1
  Retention = 1
  BreakerTime = 1
  MaxActive = 1
  PangramHour = 1
  PangramDay = 2
  OwnerHour = 1
  GlobalHour = 2
  GlobalDay = 2
  Threshold = 2
  MaxNow = 2
SPECIFICATION Spec
INVARIANT TypeOK
INVARIANT BudgetsHold
INVARIANT NoRepeat
CHECK_DEADLOCK FALSE
