\* Requests are finite: a behaviour ends when each of them has run.
SPECIFICATION AccountsSpec
CHECK_DEADLOCK FALSE
SYMMETRY Alike
ACTION_CONSTRAINT InOrder
CONSTANTS
  home = home first = first
  Nil = Nil
  Blank = Blank
  Ids = {u1, u2}
  Emails = {home}
  Subjects = {first}
  ProviderOf <- MCProviderOf
  Claims <- MCClaims
  Links = {l1}
  Keys = {k1, k2, k3}
  Clients = {1, 2, 3, 4}
  Jobs <- MCJobs
INVARIANT DeletedAccountsLetGo
