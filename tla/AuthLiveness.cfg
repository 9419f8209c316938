\* Two concurrent requests; no symmetry, for liveness.
SPECIFICATION FairSpec
CONSTANTS
  alice = alice
  Users = {alice}
  Families = {f1, f2}
  Tokens = {t1, t2, t3, t4}
  SignedIn = {f1, f2}
  Requests = {r1, r2}
  Owner <- MCOwner
  Ops <- MCRevokingOps
  None = None
PROPERTIES
  EveryRequestEnds
CHECK_DEADLOCK FALSE
