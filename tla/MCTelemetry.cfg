SPECIFICATION Spec
CONSTANTS
  Tools = {t1}
  Resources = {r1}
  Milestones = {m1}
  Collectors = {k1, k2}
  None = None
  Save = Save
  Wake = Wake
  QueueMax = 2
  PendingMax = 1
  PerPost = 1
SYMMETRY Anonymous
CHECK_DEADLOCK FALSE
CONSTRAINT Bounded
INVARIANTS QuietAfterOptOut ReportedOnce NothingLeftBehind MilestoneOnce
