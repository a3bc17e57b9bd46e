CONSTANTS
  Bridges = {b}
  Editors = {e}
  Instances = {1, 2, 3, 4}
  LeaseTTL = 2
  HeartbeatAfter = 1
  Poll = 2
  BootGrace = 2
  IdleGrace = 4
  OwnerWatch = TRUE
  MaxFaults = 2
SPECIFICATION FairSpec
CHECK_DEADLOCK FALSE
PROPERTIES
  EveryBridgeRecovers
