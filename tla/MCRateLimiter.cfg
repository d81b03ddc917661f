CONSTANTS
  Ips = {i1}
  Handlers = {h1, h2}
  EntryIds = {e1, e2, e3}
  None = None
  RPM = 1
  MaxErrors = 0
  Window = 2
  Block = 3
  Max404 = 0
  ScanBlock = 0
  ScanURLs = FALSE
  Statuses = {"ok"}
  MaxTime = 6
SPECIFICATION Spec
SYMMETRY Symmetry
INVARIANTS
  TypeOK
  BlockedNotServed
  RequestsBounded
PROPERTIES
  BlockSurvivesCleanup
  CleanupForgets
CHECK_DEADLOCK FALSE
