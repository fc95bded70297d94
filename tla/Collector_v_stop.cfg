SPECIFICATION LiveSpec
CONSTANTS
  depth = depth
  trades = trades
  metadata = metadata
  Group = {depth}
  Critical = {depth}
  Midnight = 1
  MaxBytes = 2
  ResumeBytes = 1
  BatchEvents = 1
  ChunkEvents = 2
  LateSeal = FALSE
  StopInBarrier = TRUE
  MaxStamp = 5
  MaxCrashes = 0
  MaxFailures = 0
PROPERTY StopEnds
CHECK_DEADLOCK FALSE
