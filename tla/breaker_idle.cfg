SPECIFICATION FairSpec
CONSTANTS
  Callers = {w1, g1}
  Blocking = {w1}
  FailureThreshold = 3
  MaxRequests = 1
  MaxOutages = 1
  MaxErrors = 0
PROPERTIES
  Recovers
