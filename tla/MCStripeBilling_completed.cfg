CONSTANTS
  r1 = r1
  r2 = r2
  Request = {r1, r2}
  Moves <- CancelMoves
  Grace = 1
  MaxAttempt = 2
  MaxMoves = 3
  MaxNow = 3
SPECIFICATION Spec
CHECK_DEADLOCK FALSE
PROPERTY CompletedWaits
