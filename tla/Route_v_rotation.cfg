SPECIFICATION Spec
CONSTANTS
  stays = stays
  leaves = leaves
  joins = joins
  Key = {stays, leaves}
  First = {stays, leaves}
  Second = {stays}
  Timeout = 1
  Mortal = {stays}
  MaxFaults = 1
INVARIANTS
  NothingForgotten
CHECK_DEADLOCK FALSE
