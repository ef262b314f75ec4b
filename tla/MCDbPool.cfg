SPECIFICATION DbFairSpec
CONSTANTS
  Tasks = {t1, t2, t3, t4}
  Arrivals = {"notify", "delete", "socket", "auth"}
  Workers = 2
  Size = 1
INVARIANTS
  DbTypeOK
  PoolConserved
PROPERTY EveryTaskEnds
