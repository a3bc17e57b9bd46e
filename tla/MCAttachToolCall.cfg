CONSTANTS
  Calls = {t, q}
  t = t
  q = q
  ToolCalls = {t}
  FailureThreshold = 3
  MaxInstance = 4
SPECIFICATION FairSpec
CHECK_DEADLOCK FALSE
CONSTRAINT OneCall
INVARIANTS
  NoFalseRefusal
PROPERTIES
  ImplementsAtMostOnce
  GoneBackendIsNoticed
