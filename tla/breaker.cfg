SPECIFICATION FairSpec
CONSTANTS
  Callers = {c1, c2, c3}
  Blocking = {}
  FailureThreshold = 3
  MaxRequests = 1
  MaxOutages = 2
  MaxErrors = 3
INVARIANTS
  TypeOK
  ServiceSpared
  OpeningJustified
PROPERTIES
  ClosedByProbe
  Recovers
