CONSTANTS
  ann = ann
  bob = bob
  Ids = {ann, bob}
  Sessions <- MCSessions
  NoSession = NoSession
  NoOp = NoOp
  Sites <- PrefixSites
  Visits <- MCVisits
  Disks <- MCDisks
  Tabs = {1, 2}
  NoPath = NoPath
  BadURL = BadURL
  MaxHops = 5
  MaxLogins = 2
SPECIFICATION Spec
INVARIANT LoginButtonsWork
CHECK_DEADLOCK FALSE
