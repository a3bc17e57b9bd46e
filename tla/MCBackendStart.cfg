SPECIFICATION FairSpec
CONSTANTS
  b1 = b1
  b2 = b2
  Bridges = {b1, b2}
  Impatient = {b1}
  Servers = {1, 2}
  None = None
  Denied = Denied
  Refused = Refused
CHECK_DEADLOCK FALSE
INVARIANTS RecordStands NoFalseOccupant
PROPERTIES NoRivalChild LockComesFree
