\* Requests are finite: a behaviour ends when each of them has run.
SPECIFICATION MCSpec
CHECK_DEADLOCK FALSE
CONSTANTS
  home = home first = first second = second ann = ann
  Nil = Nil
  Blank = Blank
  Absent = Absent
  NoReplica = NoReplica
  Replicas = {1, 2, 3}
  Files = 3
  Ids = {1, 2}
  Emails = {home}
  Subjects = {first, second}
  ProviderOf <- MCProviderOf
  Claims <- MCClaims
  Links = {1, 2}
  Keys = {11, 12, 13}
  Clients = {1, 2, 3}
  Jobs <- MCJobs
  Records = {1, 2}
  Passes = {p1}
  Requests = {1, 2, 3}
  PerSecond = 2
  AccessTTL = 1
  TicketTTL = 1
  MaxTime = 3
  Persons = {ann, ben}
  Logins = {1, 2}
  MaxGen = 3
  Tasks = {1, 2, 3}
  Void = Void
INVARIANTS
  MigrationsTypeOK
  SecretsAreUsedOnce IdentitiesAreEarned SocketsAreEarned LogoutAllHolds
  MigrationsRunOnce OnlyDeathMakesReuse CredentialsFollowTheUser
