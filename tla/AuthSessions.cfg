\* Three concurrent requests against two sign-ins of one account.
SPECIFICATION Spec
CONSTANTS
  alice = alice
  Users = {alice}
  Families = {f1, f2}
  Tokens = {t1, t2, t3, t4}
  SignedIn = {f1, f2}
  Requests = {r1, r2, r3}
  Owner <- MCOwner
  Ops <- MCAllOps
  None = None
INVARIANTS
  TypeOK
  OneUnusedToken
  RotationHits
  SealedSessionsAreDead
  NoRotationAfterDeletion
PROPERTY ImplementsTokenChain
SYMMETRY MCSymmetry
CHECK_DEADLOCK FALSE
