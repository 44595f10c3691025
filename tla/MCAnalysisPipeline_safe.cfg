CONSTANTS
  q1 = q1
  q2 = q2
  d1 = d1
  d2 = d2
  c1 = c1
  w1 = w1
  w2 = w2
  Request = {q1, q2}
  Doc = {d1, d2}
  Content = {c1}
  Worker = {w1, w2}
  DocOf <- Documents
  ContentOf <- Contents
  Modes <- BothModes
  Deletable = {d1, d2}
  ApiMayDie = TRUE
  TaskMayBeLost = TRUE
  MaxDeliveries = 3
SPECIFICATION Spec
INVARIANT TypeOK
INVARIANT OnePost
INVARIANT ChargedForResult
INVARIANT SettledWithJob
INVARIANT CallStaysCounted
CHECK_DEADLOCK FALSE
