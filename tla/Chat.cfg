SPECIFICATION Spec
CONSTANTS
  alice = alice
  bob = bob
  c1 = c1
  c2 = c2
  x1 = x1
  x2 = x2
  Members = {alice, bob}
  ClientIds = {c1, c2}
  Contents = {x1, x2}
  Sends <- MCSends
  Readers = {bob}
  Earlier <- MCEarlier
  Ids = {1, 2, 3}
  Requests = {p1, p2, p3}
  PageSize = 1
  MaxTime = 2
  None = None
SYMMETRY MCSymmetry
CHECK_DEADLOCK FALSE
INVARIANTS
  TypeOK
  ToldOnce
  AnswersStand
  ReadStaysRead
  WalkIsComplete
PROPERTY
  ImplementsMailbox
