CONSTANTS
  NoToken = NoToken
  Tokens = {t1, t2}
  Requests = {r1, r2}
  SessionDuration = 1
  MaxTime = 2
  Analytics = TRUE
  DBFaults = TRUE
  Crashes = TRUE
SPECIFICATION Spec
SYMMETRY Symmetry
INVARIANTS
  TypeOK
  ExpiredNeverAdmitted
  EndedNeverAdmitted
PROPERTY Promise
