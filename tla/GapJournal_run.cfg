SPECIFICATION Spec
CONSTANTS
  loss = loss
  stop = stop
  midnight = midnight
  LossGap = {loss}
  StopGap = {stop}
  Timer = midnight
  DayLen = 6
  Grace = 4
  Reach = 4
  MaxTime = 16
INVARIANTS
  TypeOK
  SealedDayTellsLoss
  SealedDayTellsNoMore
CHECK_DEADLOCK FALSE
