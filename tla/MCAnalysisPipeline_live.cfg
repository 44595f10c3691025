CONSTANTS
  q1 = q1
  q2 = q2
  d1 = d1
  d2 = d2
  c1 = c1
  w1 = w1
  w2 = w2
  Request = {q1, q2}
  Doc = {d1, d2}
  Content = {c1}
  Worker = {w1, w2}
  DocOf <- Documents
  ContentOf <- Contents
  Modes <- Celery
  Deletable = {}
  ApiMayDie = FALSE
  TaskMayBeLost = FALSE
  MaxDeliveries = 3
SPECIFICATION FairSpec
PROPERTY QueuedSettles
CHECK_DEADLOCK FALSE
