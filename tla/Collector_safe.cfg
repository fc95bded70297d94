SPECIFICATION Spec
CONSTANTS
  depth = depth
  trades = trades
  metadata = metadata
  Group = {depth, trades}
  Critical = {depth, trades}
  Midnight = 1
  MaxBytes = 2
  ResumeBytes = 1
  BatchEvents = 2
  ChunkEvents = 3
  LateSeal = FALSE
  StopInBarrier = TRUE
  MaxStamp = 3
  MaxCrashes = 1
  MaxFailures = 1
SYMMETRY Sym
INVARIANTS
  TypeOK
  NoSilentLoss
  BudgetExact
  CleanMeansDurable
  SealedDayDrained
CHECK_DEADLOCK FALSE
