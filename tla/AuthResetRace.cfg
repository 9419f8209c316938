\* A password reset races a refresh or a sign-in.
SPECIFICATION Spec
CONSTANTS
  alice = alice
  Users = {alice}
  Families = {f1, f2}
  Tokens = {t1, t2, t3}
  SignedIn = {f1, f2}
  Requests = {r1, r2}
  Owner <- MCOwner
  Ops <- MCResetOps
  None = None
INVARIANTS
  ResetEndsOldSessions
SYMMETRY MCSymmetry
CHECK_DEADLOCK FALSE
