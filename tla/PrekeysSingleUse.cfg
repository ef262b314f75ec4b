SPECIFICATION Spec
CONSTANTS
  Users = {u1, u2}
  PrekeyIds = {1, 2}
  Batches <- MCBatches
  Requests = {r1, r2}
  MaxRow = 3
  MaxKey = 3
SYMMETRY Symmetric
INVARIANT SingleUse
CHECK_DEADLOCK FALSE
