CONSTANTS
  SessionIds = {s1, s2}
  Peers = {p1, p2}
  Requests = {r1, r2, r3}
  Waiters = {w1}
  Readiness = {ready, playing}
  MaxPendingPerPeer = 2
  MaxPendingTotal = 2
  NoSession = NoSession
  NoPeer = NoPeer
SPECIFICATION Spec
SYMMETRY Symmetry
CHECK_DEADLOCK FALSE
INVARIANTS
  EntryOwnership
  RequestsAccounted
  NoOrphanedCall
  ActiveIsRoutable
  NoLostWakeup
PROPERTIES
  SettledOnce
  DefaultRouteStable
