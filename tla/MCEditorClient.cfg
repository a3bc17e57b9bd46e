SPECIFICATION FairSpec
CONSTANTS
  Sessions = {s1, s2}
  NoSession = NoSession
  Callers = {c1, c2}
  Threshold = 2
  MaxOpen = 2
  MaxStates = 2
CHECK_DEADLOCK FALSE
INVARIANTS CircuitsBounded
PROPERTIES OpensOnStreak WellEditorsAreReached
