CONSTANTS
  Ips = {i1}
  Handlers = {h1, h2}
  EntryIds = {e1, e2}
  None = None
  RPM = 1
  MaxErrors = 1
  Window = 2
  Block = 2
  Max404 = 1
  ScanBlock = 3
  ScanURLs = TRUE
  Statuses = {"ok", "unauthorized", "scan404"}
  MaxTime = 4
SPECIFICATION Spec
SYMMETRY Symmetry
INVARIANTS
  AtMostRPM
  BlockedNotServed
CHECK_DEADLOCK FALSE
