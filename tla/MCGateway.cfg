CONSTANTS
  ann = ann
  bob = bob
  Ids = {ann, bob}
  Sessions <- MCSessions
  NoSession = NoSession
  NoOp = NoOp
  Sites <- MCSites
  Visits <- MCVisits
  Disks <- MCDisks
  Tabs = {1, 2}
  NoPath = NoPath
  BadURL = BadURL
  MaxHops = 5
  MaxLogins = 2
SPECIFICATION Spec
INVARIANTS
  TypeOK
  RefusalsNotCached
  ManagementIsReachable
  RedirectsEnd
  BackWhereAsked
  CallsReachTheirOperation
  AnswersAreTyped
PROPERTY ProtectedStaysProtected
CHECK_DEADLOCK FALSE
