SPECIFICATION Spec
CONSTANTS
  stays = stays
  leaves = leaves
  joins = joins
  Key = {stays, joins}
  First = {stays}
  Second = {stays, joins}
  Timeout = 1
  Mortal = {stays}
  MaxFaults = 1
INVARIANTS
  MonitorSurvives
CHECK_DEADLOCK FALSE
