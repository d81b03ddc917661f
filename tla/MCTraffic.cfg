CONSTANTS
  Requests = {r1, r2}
  far = far
  local = local
  probe = probe
  agent = agent
  bob = bob
  Addresses = {far, local}
  Loopback = {local}
  Clients <- MCClients
  Usernames <- MCUsernames
  NoUserId = NoUserId
  Guest = "guest"
  Country <- MCCountry
  Blank = ""
  Answers <- MCAnswers
  Ranges <- MCRanges
  Now = Now
  Nowhere = Nowhere
  NotCached = NotCached
  NotSet = NotSet
  GeoTTL = 1
  GeoTimeout = 1
  JA4TTL = 0
  MaxTime = 2
  MaxRequests = 2
  DBFaults = TRUE
  Crashes = TRUE
SPECIFICATION Spec
INVARIANTS
  TypeOK
  RowsTellTheTruth
  LocationsAreFresh
  FingerprintsAreRecent
  ReportsAddUp
PROPERTY AnsweredIsRecorded
