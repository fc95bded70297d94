SPECIFICATION Spec
CONSTANTS
  Level <- TwoLevels
  Touch <- InTurn
  MaxConns = 1
  MaxUpdates = 5
  MaxDrops = 1
  MaxRepeats = 0
  MaxDays = 0
  MaxSilences = 1
INVARIANTS
  AuthorityCurrent
CHECK_DEADLOCK FALSE
