SPECIFICATION FairSpec
CONSTANTS
  alice = alice
  bob = bob
  Users = {alice, bob}
  MessageIds <- MCIds
  Envelope <- MCEnvelope
  Requests = {r1, r2}
  Limit = 1
  MaxTime = 2
  MaxSend = 2
  MaxDelete = 1
INVARIANTS
  TypeOK
  NoSilentLoss
PROPERTY EventuallySeen
