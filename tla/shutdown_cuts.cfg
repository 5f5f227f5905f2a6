SPECIFICATION InstancesSpec
CONSTANTS
  NoVideo = NoVideo
  Videos = {v1}
  WithCallback = {v1}
  Procs = {p1}
  Slots = {g1}
  WorkerCount = 1
  MaxJobRetries = 1
  MaxFaults = 0
  MaxCrashes = 1
  MaxTimeouts = 0
PROPERTIES
  CurrentJobFinishes
