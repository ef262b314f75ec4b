SPECIFICATION FairSpec
CONSTANTS
  Users = {a}
  NoUser = NoUser
  Sockets = {s1, s2, s3}
  Transfers = {t1}
  Capacity = 1
  Devices = 2
  MaxDrop = 1
  MaxPanic = 1
INVARIANTS
  TypeOK
  EntryIsServed
  TransferIsServed
PROPERTIES
  OrphanEnds
  DeleteEndsOpenSockets
  Settles
