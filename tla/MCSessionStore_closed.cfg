CONSTANTS
  NoToken = NoToken
  Tokens = {t1}
  Requests = {r1, r2}
  SessionDuration = 1
  MaxTime = 2
  Analytics = TRUE
  DBFaults = FALSE
  Crashes = FALSE
SPECIFICATION Spec
PROPERTY ClosedStaysClosed
