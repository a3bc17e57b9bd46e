CONSTANTS
  Commands = {a, d, x, r}
  Deferring = {d}
  Exclusive = {x}
  Reloading = {r}
  NoCommand = NoCommand
  DrainCap = 2
  FloodCap = 1
  MaxLinks = 2
CHECK_DEADLOCK FALSE
SPECIFICATION FairSpec
INVARIANTS
  HandledOnce
  PauseEndsWithTick
  BusyNeverRuns
  LostOnlyWhenNested
PROPERTIES
  StaysOnItsLink
  StartsInOrder
  EveryCommandSettles
