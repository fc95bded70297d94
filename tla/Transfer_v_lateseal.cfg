SPECIFICATION Spec
CONSTANTS
  c1 = c1
  c2 = c2
  d1 = d1
  d2 = d2
  NoDay = NoDay
  Chunk = {c1}
  RollChunk = {}
  Day = {d1}
  DayOf <- OneDay
  LateSeal = TRUE
  MaxEdgeCrashes = 0
  MaxCentralCrashes = 0
  MaxDamage = 0
INVARIANT SealedInventoryComplete
