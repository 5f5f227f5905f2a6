SPECIFICATION FairSpec

CONSTANTS
  NoVideo = NoVideo
  Videos = {v1}
  WithCallback = {v1}
  Procs = {p1}
  Slots = {g1}
  WorkerCount = 1
  MaxJobRetries = 3
  MaxFaults = 0
  MaxCrashes = 0
  MaxTimeouts = 0

PROPERTIES
  GivenUpAfterMaxFailures
