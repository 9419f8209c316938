\* A replayed token races the refresh of its successor.
SPECIFICATION Spec
CONSTANTS
  alice = alice
  Users = {alice}
  Families = {f1}
  Tokens = {t1, t2, t3}
  SignedIn = {f1}
  Requests = {r1, r2, r3}
  Owner <- MCOwner
  Ops <- MCRotateOps
  None = None
INVARIANTS
  RevokedSessionIsDead
SYMMETRY MCSymmetry
CHECK_DEADLOCK FALSE
