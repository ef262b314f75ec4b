SPECIFICATION Spec
CONSTANTS
  Users = {u}
  Requests = {r1, r2}
  ChallengeTicks = 0
  Tolerance = 1
  MaxKey = 3
  MaxChallenge = 4
  MaxSession = 2
  MaxTime = 1
  MaxFail = 1
SYMMETRY Symmetric
INVARIANTS
  TypeOK
  NoRowWithoutAccount
  ChallengeUsedOnce
  ChallengesBounded
CHECK_DEADLOCK FALSE
