SPECIFICATION StorageSpec
CONSTANTS
  Callers = {c1}
  Blocking = {}
  FailureThreshold = 5
  MaxRequests = 1
  MaxOutages = 1
  MaxErrors = 0
  Videos = {v1, v2}
  NoVideo = NoVideo
  MaxJobRetries = 3
INVARIANTS
  BlipSelfHeals
CHECK_DEADLOCK FALSE
