SPECIFICATION FairSpec
CONSTANTS
  i1 = i1
  i2 = i2
  phone = phone
  p1 = p1
  bob = bob
  e1 = e1
  e2 = e2
  Instances = {i1, i2}
  Conns = {phone}
  UserOf <- MCUserOf
  Publishers = {p1}
  At <- MCAt
  Plan <- MCPlan
  To <- MCTo
  Cap = 1
  Retries <- MCRetries
  MaxReplies = 1
  None = None
CHECK_DEADLOCK FALSE
ACTION_CONSTRAINT MCCases
INVARIANTS
  TypeOK
  OnlyRetriesRepeat
  PublishersAreHeardInOrder
  ClosedHubIsEmpty
PROPERTIES
  ImplementsFeed
  EveryPublishEnds
  ClosedHubLetsGo
