------------------------------ MODULE LeaseTable ------------------------------
(***************************************************************************)
(* What a lease registry promises: a lease lives for TTL from its grant or *)
(* its last renewal, at most MaxLeases live at once, and every answer is   *)
(* the one an exact table of the live leases would give at that instant.   *)
(***************************************************************************)
EXTENDS Integers, FiniteSets

CONSTANTS LeaseIds, TTL, MaxLeases, MaxTime

VARIABLES
  now,     \* the monotonic clock
  lease,   \* expiry of every live lease
  issued,  \* ids handed out so far
  reply    \* the answer of the last call

tableVars == <<now, lease, issued, reply>>

Live(t) == [l \in {k \in DOMAIN lease : lease[k] > t} |-> lease[l]]

Granted(l) == [k \in DOMAIN lease \cup {l} |-> IF k = l THEN now + TTL ELSE lease[k]]

Withdrawn(l) == [k \in DOMAIN lease \ {l} |-> lease[k]]

TableInit ==
  /\ now = 0
  /\ lease = [l \in {} |-> 0]
  /\ issued = {}
  /\ reply = "none"

\* Leases end by themselves.
TableTick ==
  /\ now < MaxTime
  /\ now' = now + 1
  /\ lease' = Live(now + 1)
  /\ UNCHANGED <<issued, reply>>

TableRegister(l) ==
  /\ l \notin issued
  /\ IF Cardinality(DOMAIN lease) < MaxLeases
     THEN /\ lease' = Granted(l)
          /\ issued' = issued \cup {l}
          /\ reply' = "granted"
     ELSE /\ reply' = "limit"
          /\ UNCHANGED <<lease, issued>>
  /\ UNCHANGED now

TableHeartbeat(l) ==
  /\ l \in issued
  /\ IF l \in DOMAIN lease
     THEN lease' = Granted(l) /\ reply' = "granted"
     ELSE reply' = "not_found" /\ UNCHANGED lease
  /\ UNCHANGED <<now, issued>>

TableRelease(l) ==
  /\ l \in issued
  /\ lease' = Withdrawn(l)
  /\ reply' = IF l \in DOMAIN lease THEN "released" ELSE "absent"
  /\ UNCHANGED <<now, issued>>

\* The reaper asks whether anyone holds a lease.
TableCount ==
  /\ reply' = IF DOMAIN lease = {} THEN "idle" ELSE "held"
  /\ UNCHANGED <<now, lease, issued>>

TableNext ==
  \/ TableTick \/ TableCount
  \/ \E l \in LeaseIds : TableRegister(l) \/ TableHeartbeat(l) \/ TableRelease(l)

TableSpec == TableInit /\ [][TableNext]_tableVars

=============================================================================
