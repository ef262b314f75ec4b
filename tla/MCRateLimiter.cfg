SPECIFICATION FairSpec
CONSTANTS
  Keys = {k1}
  Kinds = {"relay", "mid", "large"}
  Requests = {r1, r2}
  MaxRequests <- MCMax
  WindowTicks <- MCWindow
  Skew = 1
INVARIANTS
  TypeOK
  SpanBound
  CleanupTransparent
PROPERTY NeverLockedOut
