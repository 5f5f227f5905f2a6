SPECIFICATION FairSpec
CONSTANTS
  Ladder = {240, 360, 720}
  SourceHeights = {144, 360, 480}
  MaxReruns = 2
INVARIANTS
  TypeOK
  PlayableMaster
  StoredPlayable
  FitsSource
  GivesUpOnlyOnCPU
PROPERTIES
  Ends
CHECK_DEADLOCK FALSE
