SPECIFICATION Spec
CONSTANTS
  Level <- TwoLevels
  Touch <- InTurn
  MaxConns = 3
  MaxUpdates = 3
  MaxDrops = 1
  MaxRepeats = 1
  MaxDays = 1
  MaxSilences = 1
INVARIANTS
  TypeOK
  BookExact
  AuthorityReanchored
  ValidIsCurrent
PROPERTIES
  MidnightKeepsAuthority
CHECK_DEADLOCK FALSE
