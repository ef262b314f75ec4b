SPECIFICATION Spec
CONSTANTS
  Users = {a, b}
  NoUser = NoUser
  Sockets = {s1, s2, s3}
  Transfers = {t1}
  Capacity = 1
  Devices = 2
  MaxDrop = 1
  MaxPanic = 1
SYMMETRY SymmetricSockets
INVARIANT PushReachesOpenSockets
