SPECIFICATION BoundedSpec

CONSTANTS
  NoVideo = NoVideo
  Videos = {v1}
  WithCallback = {v1}
  Procs = {p1, p2}
  Slots = {g1}
  WorkerCount = 1
  MaxJobRetries = 1
  MaxFaults = 1
  MaxCrashes = 2
  MaxTimeouts = 1

SYMMETRY Symmetry

INVARIANTS
  TypeOK
  NoSilentLoss
  CopiesCounted
  DeadLetterJustified
  DoneImpliesPublished
  SourceKept

PROPERTIES
  KeepsPromise
