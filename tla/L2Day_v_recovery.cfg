SPECIFICATION Spec
CONSTANTS
  Level <- TwoLevels
  Touch <- InTurn
  MaxConns = 2
  MaxUpdates = 3
  MaxDrops = 1
  MaxRepeats = 1
  MaxDays = 1
  MaxSilences = 1
PROPERTIES
  RecoveryNeedsBridge
CHECK_DEADLOCK FALSE
