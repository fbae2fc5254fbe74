SPECIFICATION FairSpec
CHECK_DEADLOCK FALSE
CONSTANTS
  Servers <- MCServers
  Spare = 1
  Blocks = 3
  Requests = 2
  Parts = 2
  Room = 2
  Cap = 2
INVARIANTS
  NoFalseAlarm
  NonceFresh
PROPERTIES
  StreamSpec
  Concludes
