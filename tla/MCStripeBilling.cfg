CONSTANTS
  r1 = r1
  r2 = r2
  Request = {r1, r2}
  Moves <- UnpaidMoves
  Grace = 1
  MaxAttempt = 2
  MaxMoves = 3
  MaxNow = 2
SPECIFICATION Spec
SYMMETRY Requests
INVARIANT TypeOK
INVARIANT ProHasEvidence
INVARIANT Converges
INVARIANT OneLive
 
CHECK_DEADLOCK FALSE
