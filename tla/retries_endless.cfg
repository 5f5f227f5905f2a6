SPECIFICATION FairSpec
CONSTANTS
  NoVideo = NoVideo
  Videos = {v1}
  WithCallback = {v1}
  Procs = {p1}
  Slots = {g1, g2}
  WorkerCount = 1
  MaxJobRetries = 2
  MaxFaults = 0
  MaxCrashes = 0
  MaxTimeouts = 1
PROPERTIES
  RetriesEnd
