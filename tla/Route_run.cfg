SPECIFICATION LiveSpec
CONSTANTS
  stays = stays
  leaves = leaves
  joins = joins
  Key = {stays, leaves, joins}
  First = {stays, leaves}
  Second = {stays, joins}
  Timeout = 1
  Mortal = {stays}
  MaxFaults = 1
INVARIANTS
  TypeOK
  NoSilentLoss
  SubscriptionsMatch
CHECK_DEADLOCK FALSE
PROPERTIES
  OutageEnds
  StreamRecovers
