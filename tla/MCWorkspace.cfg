CONSTANTS
  d1 = d1
  d2 = d2
  e1 = e1
  Doc = {d1, d2}
  Edit = {e1}
  MaxVersions <- Room
  MaxIds <- Proposals
  MaxTrouble = 1
SPECIFICATION Spec

INVARIANT TypeOK
INVARIANT DraftHolds
INVARIANT PaidOnce
CHECK_DEADLOCK FALSE
