SPECIFICATION InstancesSpec
CONSTANTS
  NoVideo = NoVideo
  Videos = {v1}
  WithCallback = {v1}
  Procs = {p1}
  Slots = {g1, g2}
  WorkerCount = 2
  MaxJobRetries = 2
  MaxFaults = 0
  MaxCrashes = 2
  MaxTimeouts = 0
INVARIANTS
  ExclusiveProcessing
  NoFailureForgotten
PROPERTIES
  JobSettles
  RetriesEnd
  NotificationStarted
  ShutdownEnds
  OwnFiles
  ShutdownIsCrash
