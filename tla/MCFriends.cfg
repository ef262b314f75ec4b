SPECIFICATION FairSpec
CONSTANTS
  alice = alice
  bob = bob
  Users = {alice, bob}
  Pairs <- OnePair
  Requests = {r1, r2}
  MaxRequest = 2
  MaxRow = 3
  MaxAnswer = 3
  MaxDelete = 1
  MaxFault = 1
INVARIANTS
  TypeOK
  FriendGraph
  Kept
  AnswersBounded
PROPERTIES
  RequestReaches
  Converges
