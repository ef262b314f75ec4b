SPECIFICATION Spec
CONSTANTS
  Users = {u1, u2}
  PrekeyIds = {1, 2}
  Batches <- MCBatches
  Requests = {r1}
  MaxRow = 3
  MaxKey = 3
PROPERTY PoolSpec
CHECK_DEADLOCK FALSE
