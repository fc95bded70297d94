SPECIFICATION Spec
CONSTANTS
  Symbol <- Symbols
  Evidence <- Findings
  Proposal <- Asked
  CoreSize = 2
  Slots = 2
  EntryRank = 1
  RetainRank = 4
  BoundaryRetainRank = 3
  WeeklyLimit = 1
  DailyLimit = 2
  Dwell = 2
  CoreDwell = 2
  DepthStable = 7
  DepthProbe = 4
  Week = 3
  MaxDays = 4
  MaxOverrides = 1
  MaxWait = 1
  MaxCrashes = 1
INVARIANTS
  TypeOK
PROPERTIES
  SequenceExact
  DwellRespected
  ChangeLimits
CHECK_DEADLOCK FALSE
