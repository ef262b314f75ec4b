SPECIFICATION Spec
CONSTANTS
  Devices = {d1}
  Requests = {r1, r2}
  Ttls = {0, 2}
  MinTtl = 1
  MaxTtl = 1
  Limit = 1
  MaxId = 2
  MaxBlob = 2
  MaxTime = 2
SYMMETRY Symmetric
INVARIANTS
  TypeOK
  RelayNotLost
  NoGapBelowSeen
  BlobNotLost
