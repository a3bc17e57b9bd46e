CONSTANTS
  Commands = {a, b}
  Deferring = {}
  Exclusive = {}
  Reloading = {}
  NoCommand = NoCommand
  DrainCap = 2
  FloodCap = 1
  MaxLinks = 2
CHECK_DEADLOCK FALSE
SPECIFICATION Spec
INVARIANTS
  OneResponsePerCommand
