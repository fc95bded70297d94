SPECIFICATION LiveSpec
CONSTANTS
  c1 = c1
  c2 = c2
  d1 = d1
  d2 = d2
  NoDay = NoDay
  Chunk = {c1}
  RollChunk = {}
  Day = {d1}
  DayOf <- OneDay
  LateSeal = TRUE
  MaxEdgeCrashes = 1
  MaxCentralCrashes = 1
  MaxDamage = 1
INVARIANTS
  TypeOK
  NoLoss
  AckMeansDurable
  CollectionAccountedFor
  ManifestHasData
PROPERTIES
  SpoolDrains
  SealedDaysArrive
