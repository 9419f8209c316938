\* Requests are finite: a behaviour ends when each of them has run.
SPECIFICATION MCSpec
CONSTANTS
  alice = alice
  bob = bob
  Pets <- MCThreePets
  Owners = {alice, bob}
  OwnerOf <- MCThreeOwnerOf
  Decisions = {"skip", "like"}
  ReqIds = {i1, i2}
  Requests = {p1, p2, p3}
  Changing = {1}
  None = None
SYMMETRY MCSymmetry
ACTION_CONSTRAINT MCCases
CHECK_DEADLOCK FALSE
INVARIANTS
  TypeOK
  MatchIffMutual
  ToldOnce
  SwipeKeysAreFree
  SwipesNeverDeadlock
  AnswersStand
PROPERTY
  ImplementsMutualMatch
