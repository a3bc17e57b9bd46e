CONSTANTS
  LeaseIds = {l1, l2, l3}
  TTL = 2
  MaxLeases = 2
  MaxTime = 5
SPECIFICATION RegistrySpec
SYMMETRY Symmetry
CHECK_DEADLOCK FALSE
INVARIANTS
  Bounded
PROPERTIES
  ImplementsTable
