SPECIFICATION Spec
CONSTANTS
  alice = alice
  bob = bob
  Pets <- MCTwoPets
  Owners = {alice, bob}
  OwnerOf <- MCTwoOwnerOf
  Decisions = {"skip", "like"}
  ReqIds = {i1, i2}
  Requests = {p1, p2, p3}
  Changing = {}
  None = None
SYMMETRY MCSymmetry
CHECK_DEADLOCK FALSE
INVARIANT
  BlockedUsersHaveNoMatch
