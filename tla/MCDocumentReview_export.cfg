CONSTANTS
  p1 = p1
  p2 = p2
  p3 = p3
  s1 = s1
  s2 = s2
  r1 = r1
  r2 = r2
  r3 = r3
  l1 = l1
  l2 = l2
  Patch = {p1, p2}
  Session = {s1}
  Request = {r1, r2}
  Loop = {l1, l2}
  LoopOf <- TwoLoops
  Deletes = FALSE
  MaxVersion = 2
SPECIFICATION Spec
INVARIANT Disclosed
CHECK_DEADLOCK FALSE
