SPECIFICATION LiveSpec
CONSTANTS
  depth = depth
  trades = trades
  metadata = metadata
  Group = {depth, metadata}
  Critical = {depth}
  Midnight = 1
  MaxBytes = 2
  ResumeBytes = 1
  BatchEvents = 2
  ChunkEvents = 2
  LateSeal = FALSE
  StopInBarrier = FALSE
  MaxStamp = 3
  MaxCrashes = 0
  MaxFailures = 0
PROPERTIES
  RotationEnds
  PausedEnds
  StopEnds
