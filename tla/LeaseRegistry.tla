---------------------------- MODULE LeaseRegistry ----------------------------
(***************************************************************************)
(* The backend's LeaseRegistry (attach/lease.py): the expiry of every      *)
(* lease it knows, and a min-heap of (expiry, lease) entries from which    *)
(* each call first prunes what has expired.  The heap is reconciled        *)
(* lazily: a renewal leaves its superseded entry behind and a release      *)
(* leaves them all, so entries outnumber leases until they surface or a    *)
(* push rebuilds the heap.  Pruning takes every entry that is due, so the  *)
(* heap's order does not matter.  It may hold an entry several times over, *)
(* so it is modelled as a set of entries with a number that tells the      *)
(* copies of one apart.                                                    *)
(***************************************************************************)
EXTENDS Integers, FiniteSets

CONSTANTS
  LeaseIds,   \* token_urlsafe ids; each is drawn once
  TTL,        \* ttl_seconds
  MaxLeases,  \* max_active_leases
  MaxTime     \* bound: the monotonic clock

ASSUME LeaseAssumption ==
  /\ TTL \in Nat \ {0}        \* __init__ refuses anything less
  /\ MaxLeases \in Nat \ {0}
  /\ MaxTime \in Nat
  /\ IsFiniteSet(LeaseIds)

VARIABLES
  now,       \* _clock()
  expiries,  \* _expiries
  heap,      \* _expiry_heap
  issued,    \* history: ids handed out
  reply      \* what the last call returned or raised

registryVars == <<now, expiries, heap, issued, reply>>

\* As many copies as a heap can have entries before it is rebuilt.
Copies == 1..(2 * MaxLeases + 2)

Entry == Nat \X LeaseIds \X Copies

Reply == {"none", "granted", "limit", "not_found", "released", "absent", "idle", "held"}

RegistryTypeOK ==
  /\ now \in Nat
  /\ issued \subseteq LeaseIds
  /\ DOMAIN expiries \subseteq issued
  /\ expiries \in [DOMAIN expiries -> Nat]
  /\ heap \subseteq Entry
  /\ reply \in Reply

RegistryInit ==
  /\ now = 0
  /\ expiries = [l \in {} |-> 0]
  /\ heap = {}
  /\ issued = {}
  /\ reply = "none"

-----------------------------------------------------------------------------
(* prune(): what the two structures are once the due entries are popped.   *)

Due == {e \in heap : e[1] <= now}

KeptHeap == heap \ Due

Expired_OnAnyEntry == {l \in DOMAIN expiries : \E e \in Due : e[2] = l}

\* A popped entry ends its lease unless the lease was renewed since.
Expired == {l \in DOMAIN expiries : expiries[l] <= now /\ \E e \in Due : e[2] = l}

Kept == [l \in DOMAIN expiries \ Expired |-> expiries[l]]

-----------------------------------------------------------------------------
(* _track(): the entry is pushed, and a heap past twice the ceiling is     *)
(* rebuilt from the leases.                                                *)

\* A copy of its own for each push.
Push(h, t, l) == h \cup {<<t, l, CHOOSE n \in Copies : <<t, l, n>> \notin h>>}

Rebuilt(ex) == {<<ex[l], l, 1>> : l \in DOMAIN ex}

Compacted_Never(h, ex) == h

Compacted(h, ex) == IF Cardinality(h) > 2 * MaxLeases + 1 THEN Rebuilt(ex) ELSE h

Dated(ex, l) == [k \in DOMAIN ex \cup {l} |-> IF k = l THEN now + TTL ELSE ex[k]]

Track(l) ==
  /\ expiries' = Dated(Kept, l)
  /\ heap' = Compacted(Push(KeptHeap, now + TTL, l), Dated(Kept, l))

PruneOnly ==
  /\ expiries' = Kept
  /\ heap' = KeptHeap

-----------------------------------------------------------------------------
(* The calls.                                                              *)

RegistryTick ==
  /\ now < MaxTime
  /\ now' = now + 1
  /\ UNCHANGED <<expiries, heap, issued, reply>>

Register(l) ==
  /\ l \notin issued
  /\ IF Cardinality(DOMAIN Kept) >= MaxLeases
     THEN PruneOnly /\ reply' = "limit" /\ UNCHANGED issued
     ELSE Track(l) /\ reply' = "granted" /\ issued' = issued \cup {l}
  /\ UNCHANGED now

Heartbeat(l) ==
  /\ l \in issued
  /\ IF l \in DOMAIN Kept
     THEN Track(l) /\ reply' = "granted"
     ELSE PruneOnly /\ reply' = "not_found"
  /\ UNCHANGED <<now, issued>>

Release(l) ==
  /\ l \in issued
  /\ expiries' = [k \in DOMAIN Kept \ {l} |-> Kept[k]]
  /\ heap' = KeptHeap
  /\ reply' = IF l \in DOMAIN Kept THEN "released" ELSE "absent"
  /\ UNCHANGED <<now, issued>>

\* The reaper asks only whether the count is zero.
ActiveCount ==
  /\ PruneOnly
  /\ reply' = IF DOMAIN Kept = {} THEN "idle" ELSE "held"
  /\ UNCHANGED <<now, issued>>

RegistryNext ==
  \/ RegistryTick \/ ActiveCount
  \/ \E l \in LeaseIds : Register(l) \/ Heartbeat(l) \/ Release(l)

RegistrySpec == RegistryInit /\ [][RegistryNext]_registryVars

-----------------------------------------------------------------------------
(* Properties.                                                             *)

\* A lease's current expiry is always in the heap, so the heap can be trusted
\* to surface it: no lease outlives its time by hiding behind stale entries.
LeaseInHeap == \A l \in DOMAIN expiries : \E n \in Copies : <<expiries[l], l, n>> \in heap

\* However fast leases are renewed, released and registered, memory is bounded.
Bounded ==
  /\ Cardinality(DOMAIN expiries) <= MaxLeases
  /\ Cardinality(heap) <= 2 * MaxLeases + 1

\* The lazily pruned registry answers as an exact table of live leases would.
LiveLeases == [l \in {k \in DOMAIN expiries : expiries[k] > now} |-> expiries[l]]

Table == INSTANCE LeaseTable WITH lease <- LiveLeases

ImplementsTable == Table!TableSpec

=============================================================================
