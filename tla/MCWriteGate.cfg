SPECIFICATION Spec
CONSTANTS
  Sessions = {s1, s2}
  Calls = {c1, c2}
  Blocking = {"importing", "playing"}
  Writable = {"ready"}
  HoldRounds = 2
  Steady = {s2}
  InboxCap = 2
  NoSession = NoSession
INVARIANTS NoFalseRefusal
PROPERTIES SentWhereAllowed
CHECK_DEADLOCK FALSE
SYMMETRY Sym
