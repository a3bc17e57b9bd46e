SPECIFICATION SurfaceFairSpec
CONSTANTS
  e1 = e1
  e2 = e2
  c1 = c1
  c2 = c2
  Editors = {e1, e2}
  Clients = {c1, c2}
  Steady = {c1}
  Names = {1, 2}
  Schemas = {"a", "b"}
  NoTool = NoTool
  MAX_PROMOTED_TOOLS = 1
  Snapshots <- MCSnapshots
  ExcludeSets <- MCExcludeSets
  SampledTools = {"custom_manage", "session_manage"}
  MaxChanges = 2
CHECK_DEADLOCK FALSE
INVARIANTS AdvertisedIsBacked CallsArriveIntact
PROPERTIES EveryoneHears
