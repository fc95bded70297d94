SPECIFICATION LiveSpec
CONSTANTS
  c1 = c1
  c2 = c2
  d1 = d1
  d2 = d2
  NoDay = NoDay
  Chunk = {c1}
  RollChunk = {c1}
  Day = {d1}
  DayOf <- OneDay
  LateSeal = FALSE
  MaxEdgeCrashes = 1
  MaxCentralCrashes = 0
  MaxDamage = 0
PROPERTY SpoolDrains
