----------------------------- MODULE LeaseProofs -----------------------------
(***************************************************************************)
(* Proofs about the two sides of a lease.  LeaseRegistry, for every set of *)
(* ids, TTL and ceiling: pruning looks only at due heap entries, and it is *)
(* because a lease's current expiry is among the entries (LeaseInHeap)     *)
(* that what pruning keeps is exactly what still lives.  ServerLife, for   *)
(* any bridges, editors, durations and number of faults: a lease outlasts  *)
(* the sleep of the heartbeat that renews it, and the idle reaper's window *)
(* is never older than the last presence it could have seen.               *)
(***************************************************************************)
EXTENDS LeaseRegistry, ServerLife, FiniteSetTheorems, TLAPS

HeapLimit == 2 * MaxLeases + 1

\* What holds between calls: the typing, LeaseInHeap and the two ceilings.
IInv == RegistryTypeOK /\ LeaseInHeap /\ IsFiniteSet(heap) /\ Bounded

IsHeap(h) == h \subseteq Entry /\ IsFiniteSet(h)

IsExpiries(ex) == DOMAIN ex \subseteq LeaseIds /\ ex \in [DOMAIN ex -> Nat]

Covers(h, ex) == \A l \in DOMAIN ex : \E n \in Copies : <<ex[l], l, n>> \in h

-----------------------------------------------------------------------------
(* The operators the calls are built from.                                 *)

\* Pruning keeps the leases that are not due, and only those.
LEMMA KeptIsLive ==
  ASSUME IInv
  PROVE  Kept = LiveLeases
<1>1. ASSUME NEW l \in DOMAIN expiries
      PROVE  l \in Expired <=> ~(expiries[l] > now)
  <2>1. expiries[l] \in Nat /\ now \in Nat
    BY DEF IInv, RegistryTypeOK
  <2>2. CASE expiries[l] <= now
    <3>1. PICK n \in Copies : <<expiries[l], l, n>> \in heap
      BY DEF IInv, LeaseInHeap
    <3> DEFINE e == <<expiries[l], l, n>>
    <3>2. e \in Due /\ e[2] = l
      BY <3>1, <2>2 DEF Due
    <3>3. l \in Expired
      BY <3>2, <2>2 DEF Expired
    <3> QED BY <3>3, <2>1, <2>2
  <2>3. CASE ~(expiries[l] <= now)
    BY <2>1, <2>3 DEF Expired
  <2> QED BY <2>2, <2>3
<1>2. DOMAIN expiries \ Expired = {k \in DOMAIN expiries : expiries[k] > now}
  BY <1>1
<1> QED BY <1>2 DEF Kept, LiveLeases

\* Cardinality never grows by taking things away.
LEMMA Fewer ==
  ASSUME NEW S, IsFiniteSet(S), NEW T \in SUBSET S, NEW m \in Nat, Cardinality(S) <= m
  PROVE  IsFiniteSet(T) /\ Cardinality(T) <= m
BY FS_Subset, FS_CardinalityType

\* What pruning leaves is well formed, within both ceilings, and still covers
\* every lease.
LEMMA Pruned ==
  ASSUME IInv
  PROVE  /\ IsExpiries(Kept) /\ DOMAIN Kept \subseteq DOMAIN expiries
         /\ IsFiniteSet(DOMAIN Kept) /\ Cardinality(DOMAIN Kept) <= MaxLeases
         /\ IsHeap(KeptHeap) /\ Cardinality(KeptHeap) <= HeapLimit
         /\ Covers(KeptHeap, Kept)
<1>1. DOMAIN Kept \subseteq DOMAIN expiries
  BY DEF Kept
<1>2. \A l \in DOMAIN Kept : Kept[l] = expiries[l] /\ Kept[l] \in Nat
  BY DEF Kept, IInv, RegistryTypeOK
<1>3. IsExpiries(Kept)
  BY <1>1, <1>2 DEF Kept, IsExpiries, IInv, RegistryTypeOK
<1>4. IsFiniteSet(DOMAIN Kept) /\ Cardinality(DOMAIN Kept) <= MaxLeases
  <2>1. IsFiniteSet(DOMAIN expiries)
    BY FS_Subset, LeaseAssumption DEF IInv, RegistryTypeOK
  <2> QED BY <1>1, <2>1, Fewer, LeaseAssumption DEF IInv, Bounded
<1>5. IsHeap(KeptHeap) /\ Cardinality(KeptHeap) <= HeapLimit
  <2>1. KeptHeap \in SUBSET heap /\ IsFiniteSet(heap) /\ Cardinality(heap) <= HeapLimit
    BY DEF KeptHeap, IInv, Bounded, HeapLimit
  <2>2. HeapLimit \in Nat
    BY LeaseAssumption DEF HeapLimit
  <2>3. IsFiniteSet(KeptHeap) /\ Cardinality(KeptHeap) <= HeapLimit
    BY <2>1, <2>2, Fewer
  <2> QED BY <2>1, <2>3 DEF IsHeap, IInv, RegistryTypeOK
<1>6. ASSUME NEW l \in DOMAIN Kept
      PROVE  \E n \in Copies : <<Kept[l], l, n>> \in KeptHeap
  <2>1. l \in DOMAIN expiries /\ expiries[l] > now
    BY KeptIsLive DEF LiveLeases
  <2>2. PICK n \in Copies : <<expiries[l], l, n>> \in heap
    BY <2>1 DEF IInv, LeaseInHeap
  <2>3. expiries[l] \in Nat /\ now \in Nat
    BY <2>1 DEF IInv, RegistryTypeOK
  <2>4. <<expiries[l], l, n>> \notin Due
    BY <2>1, <2>3 DEF Due
  <2> QED BY <1>2, <2>2, <2>4 DEF KeptHeap
<1> QED BY <1>1, <1>3, <1>4, <1>5, <1>6 DEF Covers

\* A heap within its limit always has a free number for another copy.
LEMMA FreeCopy ==
  ASSUME NEW h, IsHeap(h), Cardinality(h) <= HeapLimit, NEW t, NEW l
  PROVE  \E n \in Copies : <<t, l, n>> \notin h
<1> SUFFICES ASSUME \A n \in Copies : <<t, l, n>> \in h
             PROVE  FALSE
  OBVIOUS
<1> DEFINE f == [n \in Copies |-> <<t, l, n>>]
<1>1. f \in Injection(Copies, h)
  BY DEF Injection, IsInjective
<1>2. Cardinality(Copies) <= Cardinality(h)
  BY <1>1, FS_Injection DEF IsHeap
<1>3. Cardinality(Copies) = 2 * MaxLeases + 2
  BY FS_Interval, LeaseAssumption DEF Copies
<1>4. Cardinality(h) \in Nat /\ MaxLeases \in Nat
  BY FS_CardinalityType, LeaseAssumption DEF IsHeap
<1> QED BY <1>2, <1>3, <1>4 DEF HeapLimit

\* A push adds exactly one entry, whatever copies of it are there already.
LEMMA Pushed ==
  ASSUME NEW h, IsHeap(h), Cardinality(h) <= HeapLimit, NEW t \in Nat, NEW l \in LeaseIds
  PROVE  /\ IsHeap(Push(h, t, l)) /\ h \subseteq Push(h, t, l)
         /\ Cardinality(Push(h, t, l)) = Cardinality(h) + 1
         /\ \E n \in Copies : <<t, l, n>> \in Push(h, t, l)
<1> DEFINE n == CHOOSE n \in Copies : <<t, l, n>> \notin h
           e == <<t, l, n>>
<1>1. n \in Copies /\ e \notin h
  BY FreeCopy
<1>2. Push(h, t, l) = h \cup {e}
  BY DEF Push
<1>3. e \in Entry
  BY <1>1 DEF Entry
<1> HIDE DEF n
<1>4. IsFiniteSet(h \cup {e}) /\ Cardinality(h \cup {e}) = Cardinality(h) + 1
  BY <1>1, FS_AddElement DEF IsHeap
<1> QED BY <1>1, <1>2, <1>3, <1>4 DEF IsHeap

\* A rebuilt heap has an entry for every lease and nothing else.
LEMMA RebuiltIsSmall ==
  ASSUME NEW ex, IsExpiries(ex)
  PROVE  /\ IsHeap(Rebuilt(ex)) /\ Covers(Rebuilt(ex), ex)
         /\ Cardinality(Rebuilt(ex)) <= Cardinality(DOMAIN ex)
<1> DEFINE f == [l \in DOMAIN ex |-> <<ex[l], l, 1>>]
<1>1. 1 \in Copies
  BY LeaseAssumption DEF Copies
<1>2. f \in Surjection(DOMAIN ex, Rebuilt(ex))
  BY DEF Surjection, Rebuilt
<1>3. IsFiniteSet(DOMAIN ex)
  BY FS_Subset, LeaseAssumption DEF IsExpiries
<1>4. IsFiniteSet(Rebuilt(ex)) /\ Cardinality(Rebuilt(ex)) <= Cardinality(DOMAIN ex)
  BY <1>2, <1>3, FS_Surjection
<1>5. Rebuilt(ex) \subseteq Entry
  BY <1>1 DEF Rebuilt, Entry, IsExpiries
<1>6. Covers(Rebuilt(ex), ex)
  BY <1>1 DEF Covers, Rebuilt
<1> QED BY <1>4, <1>5, <1>6 DEF IsHeap

\* Compaction loses no lease's current expiry and restores the limit.
LEMMA CompactedCovers ==
  ASSUME NEW h, IsHeap(h), NEW ex, IsExpiries(ex), Covers(h, ex),
         Cardinality(DOMAIN ex) <= MaxLeases + 1
  PROVE  /\ IsHeap(Compacted(h, ex)) /\ Covers(Compacted(h, ex), ex)
         /\ Cardinality(Compacted(h, ex)) <= HeapLimit
<1>1. CASE Cardinality(h) > 2 * MaxLeases + 1
  <2>1. Compacted(h, ex) = Rebuilt(ex)
    BY <1>1 DEF Compacted
  <2>2. Cardinality(Rebuilt(ex)) \in Nat /\ Cardinality(DOMAIN ex) \in Nat
    BY RebuiltIsSmall, FS_CardinalityType, FS_Subset, LeaseAssumption DEF IsExpiries, IsHeap
  <2>3. Cardinality(Rebuilt(ex)) <= HeapLimit
    BY <2>2, RebuiltIsSmall, LeaseAssumption DEF HeapLimit
  <2> QED BY <2>1, <2>3, RebuiltIsSmall
<1>2. CASE ~(Cardinality(h) > 2 * MaxLeases + 1)
  <2>1. Compacted(h, ex) = h
    BY <1>2 DEF Compacted
  <2>2. Cardinality(h) \in Nat
    BY FS_CardinalityType DEF IsHeap
  <2> QED BY <1>2, <2>1, <2>2, LeaseAssumption DEF HeapLimit
<1> QED BY <1>1, <1>2

\* Tracking a lease dates it one TTL ahead and keeps the heap covering.
LEMMA Tracked ==
  ASSUME IInv, NEW l \in LeaseIds, Track(l)
  PROVE  /\ IsExpiries(expiries') /\ IsHeap(heap') /\ Covers(heap', expiries')
         /\ DOMAIN expiries' = DOMAIN Kept \cup {l}
         /\ Cardinality(heap') <= HeapLimit
<1> DEFINE ex == Dated(Kept, l)
           pushed == Push(KeptHeap, now + TTL, l)
<1>1. now + TTL \in Nat
  BY LeaseAssumption DEF IInv, RegistryTypeOK
<1>2. /\ DOMAIN ex = DOMAIN Kept \cup {l}
      /\ \A k \in DOMAIN ex : ex[k] = IF k = l THEN now + TTL ELSE Kept[k]
  BY DEF Dated
<1>3. IsExpiries(ex)
  <2>1. \A k \in DOMAIN ex : ex[k] \in Nat
    BY <1>1, <1>2, Pruned DEF IsExpiries
  <2> QED BY <2>1, <1>2, Pruned DEF IsExpiries, Dated
<1>4. /\ IsHeap(pushed) /\ KeptHeap \subseteq pushed
      /\ \E n \in Copies : <<now + TTL, l, n>> \in pushed
  BY <1>1, Pruned, Pushed
<1>5. Covers(pushed, ex)
  BY <1>2, <1>4, Pruned DEF Covers
<1>6. Cardinality(DOMAIN ex) <= MaxLeases + 1
  <2>1. Cardinality(DOMAIN Kept) \in Nat /\ Cardinality(DOMAIN Kept) <= MaxLeases
    BY Pruned, FS_CardinalityType
  <2>2. Cardinality(DOMAIN ex) = IF l \in DOMAIN Kept THEN Cardinality(DOMAIN Kept)
                                                      ELSE Cardinality(DOMAIN Kept) + 1
    BY <1>2, Pruned, FS_AddElement
  <2> QED BY <2>1, <2>2, LeaseAssumption
<1>7. /\ IsHeap(Compacted(pushed, ex)) /\ Covers(Compacted(pushed, ex), ex)
      /\ Cardinality(Compacted(pushed, ex)) <= HeapLimit
  BY <1>3, <1>4, <1>5, <1>6, CompactedCovers
<1> QED BY <1>2, <1>3, <1>7 DEF Track

-----------------------------------------------------------------------------
(* The inductive invariant.                                                *)

\* The empty registry satisfies the invariant.
LEMMA InitIInv == RegistryInit => IInv
<1> SUFFICES ASSUME RegistryInit PROVE IInv
  OBVIOUS
<1>1. DOMAIN expiries = {} /\ heap = {}
  BY DEF RegistryInit
<1>2. expiries \in [DOMAIN expiries -> Nat]
  BY <1>1 DEF RegistryInit
<1>3. IsFiniteSet(heap) /\ Bounded
  BY <1>1, FS_EmptySet, LeaseAssumption DEF Bounded
<1> QED BY <1>1, <1>2, <1>3 DEF RegistryInit, IInv, RegistryTypeOK, LeaseInHeap, Reply

\* Every call leaves leases and entries that are well formed, within the
\* ceilings and covered.
LEMMA CallKeepsIInv ==
  ASSUME IInv, now' = now, reply' \in Reply,
         issued \subseteq issued', issued' \subseteq LeaseIds,
         IsExpiries(expiries'), DOMAIN expiries' \subseteq issued',
         Cardinality(DOMAIN expiries') <= MaxLeases,
         IsHeap(heap'), Cardinality(heap') <= HeapLimit, Covers(heap', expiries')
  PROVE  IInv'
<1>1. RegistryTypeOK' /\ LeaseInHeap' /\ IsFiniteSet(heap')
  BY DEF IInv, RegistryTypeOK, LeaseInHeap, IsExpiries, IsHeap, Covers
<1>2. Bounded'
  BY DEF Bounded, HeapLimit
<1> QED BY <1>1, <1>2 DEF IInv

\* Tracking a lease that is there already, or while there is room for it,
\* preserves the invariant.
LEMMA TrackKeepsIInv ==
  ASSUME IInv, NEW l \in LeaseIds, Track(l), now' = now, reply' \in Reply,
         l \in DOMAIN Kept \/ ~(Cardinality(DOMAIN Kept) >= MaxLeases),
         issued' = issued \cup {l}
  PROVE  IInv'
<1>1. /\ IsExpiries(expiries') /\ IsHeap(heap') /\ Covers(heap', expiries')
      /\ DOMAIN expiries' = DOMAIN Kept \cup {l}
      /\ Cardinality(heap') <= HeapLimit
  BY Tracked
<1>2. DOMAIN expiries' \subseteq issued' /\ issued' \subseteq LeaseIds
  BY <1>1, Pruned DEF IInv, RegistryTypeOK
<1>3. Cardinality(DOMAIN expiries') <= MaxLeases
  <2>1. Cardinality(DOMAIN Kept) \in Nat /\ Cardinality(DOMAIN Kept) <= MaxLeases
    BY Pruned, FS_CardinalityType
  <2>2. Cardinality(DOMAIN expiries') =
          IF l \in DOMAIN Kept THEN Cardinality(DOMAIN Kept) ELSE Cardinality(DOMAIN Kept) + 1
    BY <1>1, Pruned, FS_AddElement
  <2> QED BY <2>1, <2>2, LeaseAssumption
<1> QED BY <1>1, <1>2, <1>3, CallKeepsIInv

\* Every call, and the clock, preserve it.
LEMMA NextIInv == IInv /\ [RegistryNext]_registryVars => IInv'
<1> SUFFICES ASSUME IInv, [RegistryNext]_registryVars PROVE IInv'
  OBVIOUS
<1>0. DOMAIN Kept \subseteq issued /\ issued \subseteq LeaseIds
  BY Pruned DEF IInv, RegistryTypeOK
<1>1. ASSUME PruneOnly, now' = now, issued' = issued, reply' \in Reply PROVE IInv'
  BY <1>0, <1>1, Pruned, CallKeepsIInv DEF PruneOnly
<1>2. CASE RegistryTick
  <2>1. RegistryTypeOK'
    BY <1>2 DEF RegistryTick, IInv, RegistryTypeOK
  <2>2. LeaseInHeap' /\ IsFiniteSet(heap)' /\ Bounded'
    BY <1>2 DEF RegistryTick, IInv, LeaseInHeap, Bounded
  <2> QED BY <2>1, <2>2 DEF IInv
<1>3. CASE ActiveCount
  BY <1>1, <1>3 DEF ActiveCount, Reply
<1>4. ASSUME NEW l \in LeaseIds, Register(l) PROVE IInv'
  <2>1. now' = now /\ reply' \in Reply
    BY <1>4 DEF Register, Reply
  <2>2. CASE Cardinality(DOMAIN Kept) >= MaxLeases
    BY <1>1, <1>4, <2>1, <2>2 DEF Register
  <2>3. CASE ~(Cardinality(DOMAIN Kept) >= MaxLeases)
    <3>1. Track(l) /\ issued' = issued \cup {l}
      BY <1>4, <2>3 DEF Register
    <3> QED BY <2>1, <2>3, <3>1, TrackKeepsIInv
  <2> QED BY <2>2, <2>3
<1>5. ASSUME NEW l \in LeaseIds, Heartbeat(l) PROVE IInv'
  <2>1. now' = now /\ issued' = issued /\ issued' = issued \cup {l} /\ reply' \in Reply
    BY <1>5 DEF Heartbeat, Reply
  <2>2. CASE l \notin DOMAIN Kept
    BY <1>1, <1>5, <2>1, <2>2 DEF Heartbeat
  <2>3. CASE l \in DOMAIN Kept
    <3>1. Track(l)
      BY <1>5, <2>3 DEF Heartbeat
    <3> QED BY <2>1, <2>3, <3>1, TrackKeepsIInv
  <2> QED BY <2>2, <2>3
<1>6. ASSUME NEW l \in LeaseIds, Release(l) PROVE IInv'
  <2>1. now' = now /\ issued' = issued /\ reply' \in Reply /\ heap' = KeptHeap
    BY <1>6 DEF Release, Reply
  <2>2. expiries' = [k \in DOMAIN Kept \ {l} |-> Kept[k]]
    BY <1>6 DEF Release
  <2>3. IsExpiries(expiries') /\ DOMAIN expiries' \subseteq issued'
    BY <1>0, <2>1, <2>2, Pruned DEF IsExpiries
  <2>4. Covers(heap', expiries')
    BY <2>1, <2>2, Pruned DEF Covers
  <2>5. Cardinality(DOMAIN expiries') <= MaxLeases
    BY <2>2, Pruned, Fewer, LeaseAssumption
  <2>6. IsHeap(heap') /\ Cardinality(heap') <= HeapLimit
    BY <2>1, Pruned
  <2> QED BY <1>0, <2>1, <2>3, <2>4, <2>5, <2>6, CallKeepsIInv
<1>7. CASE UNCHANGED registryVars
  <2>1. RegistryTypeOK'
    BY <1>7 DEF registryVars, IInv, RegistryTypeOK
  <2>2. LeaseInHeap' /\ IsFiniteSet(heap)' /\ Bounded'
    BY <1>7 DEF registryVars, IInv, LeaseInHeap, Bounded
  <2> QED BY <2>1, <2>2 DEF IInv
<1> QED BY <1>2, <1>3, <1>4, <1>5, <1>6, <1>7 DEF RegistryNext

\* The typing, the coverage of the heap and the ceilings hold in every
\* reachable state.
THEOREM Invariance == RegistrySpec => []IInv
<1>1. RegistryInit => IInv
  BY InitIInv
<1>2. IInv /\ [RegistryNext]_registryVars => IInv'
  BY NextIInv
<1> QED BY <1>1, <1>2, PTL DEF RegistrySpec

\* Every reachable state is well typed.
THEOREM RegistryTypeCorrect == RegistrySpec => []RegistryTypeOK
<1>1. IInv => RegistryTypeOK
  BY DEF IInv
<1> QED BY <1>1, Invariance, PTL

\* No lease outlives its time by hiding behind stale heap entries.
THEOREM HeapCovers == RegistrySpec => []LeaseInHeap
<1>1. IInv => LeaseInHeap
  BY DEF IInv
<1> QED BY <1>1, Invariance, PTL

\* However calls, renewals and expiries interleave, no more than MaxLeases
\* leases are held, and no more than twice that and one entries.
THEOREM Ceilings == RegistrySpec => []Bounded
<1>1. IInv => Bounded
  BY DEF IInv
<1> QED BY <1>1, Invariance, PTL

-----------------------------------------------------------------------------
(* The registry implements the exact table.                                *)

\* The table counts its leases with the operator the registry uses.
LEMMA SameCardinality == \A S : Table!Cardinality(S) = Cardinality(S)
BY DEF Table!Cardinality, Cardinality

\* The live leases are the recorded ones whose expiry is ahead of the clock.
LEMMA LiveIsTyped ==
  ASSUME IInv
  PROVE  /\ DOMAIN LiveLeases = {k \in DOMAIN expiries : expiries[k] > now}
         /\ \A k \in DOMAIN LiveLeases :
              LiveLeases[k] = expiries[k] /\ LiveLeases[k] > now /\ LiveLeases[k] \in Nat
BY DEF LiveLeases, IInv, RegistryTypeOK

\* A call that only prunes changes nothing in the table.
LEMMA PruneIsSilent ==
  ASSUME IInv, expiries' = Kept, now' = now
  PROVE  LiveLeases' = LiveLeases
<1>1. LiveLeases' = [k \in {j \in DOMAIN Kept : Kept[j] > now} |-> Kept[k]]
  BY DEF LiveLeases
<1>2. Kept = LiveLeases
  BY KeptIsLive
<1>3. {j \in DOMAIN LiveLeases : LiveLeases[j] > now} = DOMAIN LiveLeases
  BY LiveIsTyped
<1>4. LiveLeases = [k \in DOMAIN LiveLeases |-> LiveLeases[k]]
  BY DEF LiveLeases
<1> QED BY <1>1, <1>2, <1>3, <1>4

\* Tracking grants or renews in the table.
LEMMA TrackGrants ==
  ASSUME IInv, NEW l \in LeaseIds, Track(l), now' = now
  PROVE  LiveLeases' = Table!Granted(l)
<1> DEFINE T == LiveLeases
<1>1. Kept = T
  BY KeptIsLive
<1>2. expiries' = [k \in DOMAIN T \cup {l} |-> IF k = l THEN now + TTL ELSE T[k]]
  BY <1>1 DEF Track, Dated
<1>3. now + TTL > now
  BY LeaseAssumption DEF IInv, RegistryTypeOK
<1>4. \A k \in DOMAIN T : T[k] > now
  BY LiveIsTyped
<1>5. \A k \in DOMAIN expiries' : expiries'[k] > now
  BY <1>2, <1>3, <1>4
<1>6. {k \in DOMAIN expiries' : expiries'[k] > now} = DOMAIN T \cup {l}
  BY <1>2, <1>5
<1>7. LiveLeases' = [k \in {j \in DOMAIN expiries' : expiries'[j] > now} |-> expiries'[k]]
  BY DEF LiveLeases
<1>8. LiveLeases' = [k \in DOMAIN T \cup {l} |-> expiries'[k]]
  BY <1>6, <1>7
<1>9. \A k \in DOMAIN T \cup {l} : expiries'[k] = IF k = l THEN now + TTL ELSE T[k]
  BY <1>2
<1>10. LiveLeases' = [k \in DOMAIN T \cup {l} |-> IF k = l THEN now + TTL ELSE T[k]]
  BY <1>8, <1>9
<1> QED BY <1>10 DEF Table!Granted

\* A release withdraws the lease from the table.
LEMMA ReleaseWithdraws ==
  ASSUME IInv, NEW l \in LeaseIds, Release(l)
  PROVE  LiveLeases' = Table!Withdrawn(l)
<1> DEFINE T == LiveLeases
<1>1. Kept = T /\ now' = now
  BY KeptIsLive DEF Release
<1>2. expiries' = [k \in DOMAIN T \ {l} |-> T[k]]
  BY <1>1 DEF Release
<1>3. \A k \in DOMAIN T : T[k] > now
  BY LiveIsTyped
<1>4. {k \in DOMAIN expiries' : expiries'[k] > now} = DOMAIN T \ {l}
  BY <1>2, <1>3
<1>5. LiveLeases' = [k \in {j \in DOMAIN expiries' : expiries'[j] > now} |-> expiries'[k]]
  BY <1>1 DEF LiveLeases
<1>6. LiveLeases' = [k \in DOMAIN T \ {l} |-> expiries'[k]]
  BY <1>4, <1>5
<1>7. \A k \in DOMAIN T \ {l} : expiries'[k] = T[k]
  BY <1>2
<1>8. LiveLeases' = [k \in DOMAIN T \ {l} |-> T[k]]
  BY <1>6, <1>7
<1> QED BY <1>8 DEF Table!Withdrawn

\* Time ends in the table the leases whose expiry it reaches.
LEMMA TickEnds ==
  ASSUME IInv, RegistryTick
  PROVE  LiveLeases' = Table!Live(now + 1)
<1>1. now' = now + 1 /\ expiries' = expiries /\ now \in Nat
  BY DEF RegistryTick, IInv, RegistryTypeOK
<1>2. \A k \in DOMAIN expiries : expiries[k] \in Nat
  BY DEF IInv, RegistryTypeOK
<1>3. LiveLeases' = [k \in {j \in DOMAIN expiries : expiries[j] > now + 1} |-> expiries[k]]
  BY <1>1 DEF LiveLeases
<1>4. {j \in DOMAIN LiveLeases : LiveLeases[j] > now + 1} = {j \in DOMAIN expiries : expiries[j] > now + 1}
  BY <1>1, <1>2, LiveIsTyped
<1>5. \A k \in {j \in DOMAIN expiries : expiries[j] > now + 1} : LiveLeases[k] = expiries[k]
  BY <1>4, LiveIsTyped
<1>6. Table!Live(now + 1) = [k \in {j \in DOMAIN LiveLeases : LiveLeases[j] > now + 1} |-> LiveLeases[k]]
  BY DEF Table!Live
<1> QED BY <1>3, <1>4, <1>5, <1>6

\* Every call of the lazily pruned registry is the same call of an exact table
\* of live leases, with the same answer.
THEOREM Refinement == RegistrySpec => ImplementsTable
<1>1. RegistryInit => Table!TableInit
  <2> SUFFICES ASSUME RegistryInit PROVE Table!TableInit
    OBVIOUS
  <2>1. DOMAIN expiries = {}
    BY DEF RegistryInit
  <2>2. LiveLeases = [l \in {} |-> 0]
    BY <2>1 DEF LiveLeases
  <2> QED BY <2>2 DEF RegistryInit, Table!TableInit
<1>2. IInv /\ [RegistryNext]_registryVars => [Table!TableNext]_(Table!tableVars)
  <2> SUFFICES ASSUME IInv, [RegistryNext]_registryVars
               PROVE  Table!TableNext \/ UNCHANGED Table!tableVars
    OBVIOUS
  <2>0. Kept = LiveLeases
    BY KeptIsLive
  <2>1. CASE RegistryTick
    <3>1. Table!TableTick
      BY <2>1, TickEnds DEF RegistryTick, Table!TableTick
    <3> QED BY <3>1 DEF Table!TableNext
  <2>2. CASE ActiveCount
    <3>1. now' = now /\ issued' = issued /\ expiries' = Kept
      BY <2>2 DEF ActiveCount, PruneOnly
    <3>2. LiveLeases' = LiveLeases
      BY <3>1, PruneIsSilent
    <3>3. Table!TableCount
      BY <2>0, <2>2, <3>1, <3>2 DEF ActiveCount, Table!TableCount
    <3> QED BY <3>3 DEF Table!TableNext
  <2>3. ASSUME NEW l \in LeaseIds, Register(l) PROVE Table!TableNext
    <3>1. CASE Cardinality(DOMAIN Kept) >= MaxLeases
      <4>1. now' = now /\ expiries' = Kept
        BY <2>3, <3>1 DEF Register, PruneOnly
      <4>2. LiveLeases' = LiveLeases
        BY <4>1, PruneIsSilent
      <4>3. ~(Cardinality(DOMAIN LiveLeases) < MaxLeases)
        <5>1. Cardinality(DOMAIN Kept) \in Int /\ MaxLeases \in Int
          BY Pruned, FS_CardinalityType, LeaseAssumption
        <5> QED BY <2>0, <3>1, <5>1
      <4>4. Table!TableRegister(l)
        BY SameCardinality, <2>3, <3>1, <4>1, <4>2, <4>3 DEF Register, Table!TableRegister
      <4> QED BY <4>4 DEF Table!TableNext
    <3>2. CASE ~(Cardinality(DOMAIN Kept) >= MaxLeases)
      <4>1. Track(l) /\ now' = now
        BY <2>3, <3>2 DEF Register
      <4>2. LiveLeases' = Table!Granted(l)
        BY <4>1, TrackGrants
      <4>3. Cardinality(DOMAIN LiveLeases) < MaxLeases
        <5>1. Cardinality(DOMAIN Kept) \in Int /\ MaxLeases \in Int
          BY Pruned, FS_CardinalityType, LeaseAssumption
        <5> QED BY <2>0, <3>2, <5>1
      <4>4. Table!TableRegister(l)
        BY SameCardinality, <2>3, <3>2, <4>2, <4>3 DEF Register, Table!TableRegister
      <4> QED BY <4>4 DEF Table!TableNext
    <3> QED BY <3>1, <3>2
  <2>4. ASSUME NEW l \in LeaseIds, Heartbeat(l) PROVE Table!TableNext
    <3>1. CASE l \in DOMAIN Kept
      <4>1. Track(l) /\ now' = now
        BY <2>4, <3>1 DEF Heartbeat
      <4>2. LiveLeases' = Table!Granted(l)
        BY <4>1, TrackGrants
      <4>3. Table!TableHeartbeat(l)
        BY <2>0, <2>4, <3>1, <4>2 DEF Heartbeat, Table!TableHeartbeat
      <4> QED BY <4>3 DEF Table!TableNext
    <3>2. CASE l \notin DOMAIN Kept
      <4>1. now' = now /\ expiries' = Kept
        BY <2>4, <3>2 DEF Heartbeat, PruneOnly
      <4>2. LiveLeases' = LiveLeases
        BY <4>1, PruneIsSilent
      <4>3. Table!TableHeartbeat(l)
        BY <2>0, <2>4, <3>2, <4>2 DEF Heartbeat, Table!TableHeartbeat
      <4> QED BY <4>3 DEF Table!TableNext
    <3> QED BY <3>1, <3>2
  <2>5. ASSUME NEW l \in LeaseIds, Release(l) PROVE Table!TableNext
    <3>1. LiveLeases' = Table!Withdrawn(l)
      BY <2>5, ReleaseWithdraws
    <3>2. Table!TableRelease(l)
      BY <2>0, <2>5, <3>1 DEF Release, Table!TableRelease
    <3> QED BY <3>2 DEF Table!TableNext
  <2>6. CASE UNCHANGED registryVars
    BY <2>6 DEF registryVars, Table!tableVars, LiveLeases
  <2> QED BY <2>1, <2>2, <2>3, <2>4, <2>5, <2>6 DEF RegistryNext
<1> QED BY <1>1, <1>2, Invariance, PTL DEF RegistrySpec, ImplementsTable, Table!TableSpec

-----------------------------------------------------------------------------
(* ServerLife: typing.                                                     *)

\* The window of the counters covers a poll and either grace.
LEMMA Capped ==
  /\ CapTime \in Nat /\ Poll < CapTime /\ IdleGrace < CapTime /\ BootGrace < CapTime
  /\ \A n \in 0..CapTime : More(n) \in 0..CapTime /\ n <= More(n) /\ More(n) <= n + 1
  /\ \A n \in 0..CapTime : n < CapTime => More(n) = n + 1
<1>1. {LeaseTTL, HeartbeatAfter, Poll, BootGrace, IdleGrace} \subseteq Nat \ {0}
  BY LifeAssumption
<1>2. /\ CapTime \in Nat /\ Poll < CapTime /\ IdleGrace < CapTime /\ BootGrace < CapTime
  BY <1>1 DEF CapTime
<1> QED BY <1>2 DEF More

\* What an observer sees of presence and absence.
LEMMA ObservedIs ==
  ASSUME Observed
  PROVE  /\ quiet' = IF Active' \/ instance' = 0 THEN 0 ELSE quiet
         /\ lasted' = IF instance' = 0 \/ (Active' /\ ~Active) THEN 0 ELSE lasted
BY DEF Observed, Watched, Same

\* And what one sees as time passes.
LEMMA WatchedIs ==
  ASSUME Watched(More)
  PROVE  /\ quiet' = IF Active' \/ instance' = 0 THEN 0 ELSE More(quiet)
         /\ lasted' = IF instance' = 0 \/ (Active' /\ ~Active) THEN 0
                      ELSE IF Active' THEN More(lasted) ELSE lasted
BY DEF Watched

\* A nonce nobody remembers exists.
LEMMA FreshIsNew ==
  ASSUME TypeOK
  PROVE  Fresh \in Instances /\ \A b \in Bridges : Fresh \notin Remembers(b)
<1> DEFINE ids == [b \in Bridges |-> [n \in 1..3 |->
                     IF n = 1 THEN bridge[b].known ELSE IF n = 2 THEN bridge[b].seen ELSE bridge[b].call]]
<1>1. ids \in [Bridges -> [1..3 -> Instances \cup {0}]]
  BY DEF TypeOK, BridgeState
<1>2. PICK i \in Instances : \A b \in Bridges : \A n \in 1..3 : i # ids[b][n]
  BY <1>1, NonceAssumption
<1>3. ASSUME NEW b \in Bridges PROVE i \notin Remembers(b)
  <2>1. i # ids[b][1] /\ i # ids[b][2] /\ i # ids[b][3]
    BY <1>2
  <2> QED BY <2>1 DEF Remembers
<1> QED BY <1>3 DEF Fresh

\* Numbers the counters are made of.
LEMMA Durations ==
  /\ LeaseTTL \in Nat \ {0} /\ HeartbeatAfter \in Nat \ {0} /\ HeartbeatAfter < LeaseTTL
  /\ Poll \in Nat \ {0} /\ BootGrace \in Nat \ {0} /\ IdleGrace \in Nat \ {0}
  /\ MaxFaults \in Nat /\ 0 \notin Instances
BY LifeAssumption

\* Freshly armed reapers are well typed.
LEMMA ArmedTyped ==
  ASSUME NEW owned
  PROVE  Armed(owned) \in Reapers
BY Capped, Durations DEF Armed, Reapers

\* Starting and ending a server keep its own state typed.
LEMMA ServerTyped ==
  ASSUME TypeOK, \/ \E owned \in BOOLEAN : Launched(owned)
                 \/ \E graceful \in BOOLEAN : Ended(graceful)
  PROVE  /\ instance' \in Instances \cup {0} /\ record' \in BOOLEAN
         /\ held' \in [Bridges -> 0..LeaseTTL] /\ stray' \in [Bridges -> 0..LeaseTTL]
         /\ sessions' \subseteq Editors /\ reaper' \in Reapers
<1>1. None \in [Bridges -> 0..LeaseTTL]
  BY Durations DEF None
<1> QED BY <1>1, ArmedTyped, FreshIsNew DEF TypeOK, Launched, Ended

\* The history keeps its type.
LEMMA HistoryTyped ==
  ASSUME TypeOK, Observed \/ Watched(More)
  PROVE  quiet' \in 0..CapTime /\ lasted' \in 0..CapTime
<1>1. 0 \in 0..CapTime /\ More(quiet) \in 0..CapTime /\ More(lasted) \in 0..CapTime
  BY Capped DEF TypeOK
<1>2. CASE Observed
  BY <1>1, <1>2, ObservedIs DEF TypeOK
<1>3. CASE Watched(More)
  BY <1>1, <1>3, WatchedIs DEF TypeOK
<1> QED BY <1>2, <1>3

\* So do the reapers when a poll rearms one.
LEMMA RearmedTyped ==
  ASSUME TypeOK
  PROVE  /\ \A phase \in {"poll", "grace"} : [reaper EXCEPT !.owner = phase, !.ownerIn = Poll] \in Reapers
         /\ [reaper EXCEPT !.idleIn = Poll] \in Reapers
         /\ [reaper EXCEPT !.idleIn = Poll, !.ever = TRUE, !.idleFor = 0] \in Reapers
<1>1. Poll \in 0..Poll /\ 0 \in 0..CapTime
  BY Durations, Capped
<1> QED BY <1>1 DEF TypeOK, Reapers

\* Faults are counted up to their bound.
LEMMA FaultTyped ==
  ASSUME TypeOK, Fault
  PROVE  faults' \in 0..MaxFaults
BY Durations DEF TypeOK, Fault

\* Every step of the server process keeps the typing.
LEMMA ServerStepTyped ==
  ASSUME TypeOK, ServerStep
  PROVE TypeOK'
<1>0. ServerStep => Observed
  BY DEF ServerStep, EditorLaunches, ServerCrashes, ServerIsStopped, OwnerDies, OwnerPolls,
    OwnerConfirms, IdleSees, IdleWaits, IdleExits, EditorConnects, EditorDrops
<1>1. CASE EditorLaunches
  BY <1>0, <1>1, ServerTyped, HistoryTyped DEF EditorLaunches, TypeOK
<1>2. CASE ServerCrashes \/ ServerIsStopped
  BY <1>0, <1>2, ServerTyped, HistoryTyped, FaultTyped DEF ServerCrashes, ServerIsStopped, TypeOK
<1>3. CASE OwnerDies
  BY <1>0, <1>3, HistoryTyped DEF OwnerDies, lease, TypeOK
<1>4. CASE OwnerPolls
  <2>1. reaper' \in Reapers
    BY <1>4, RearmedTyped DEF OwnerPolls, OwnerNext
  <2> QED BY <1>0, <1>4, <2>1, HistoryTyped DEF OwnerPolls, OwnerNext, lease, TypeOK
<1>5. CASE OwnerConfirms
  <2>1. CASE Orphaned
    BY <1>0, <1>5, <2>1, HistoryTyped, ServerTyped DEF OwnerConfirms, TypeOK
  <2>2. CASE ~Orphaned
    <3>1. reaper' \in Reapers
      BY <1>5, <2>2, RearmedTyped DEF OwnerConfirms, OwnerNext
    <3> QED BY <1>0, <1>5, <2>2, <3>1, HistoryTyped DEF OwnerConfirms, OwnerNext, lease, TypeOK
  <2> QED BY <2>1, <2>2
<1>6. CASE IdleSees
  BY <1>0, <1>6, HistoryTyped, RearmedTyped DEF IdleSees, lease, TypeOK
<1>7. CASE IdleWaits
  BY <1>0, <1>7, HistoryTyped, RearmedTyped DEF IdleWaits, lease, TypeOK
<1>8. CASE IdleExits
  BY <1>0, <1>8, HistoryTyped, ServerTyped DEF IdleExits, TypeOK
<1>9. CASE \E e \in Editors : EditorConnects(e) \/ EditorDrops(e)
  BY <1>0, <1>9, HistoryTyped DEF EditorConnects, EditorDrops, lease, TypeOK
<1> QED BY <1>1, <1>2, <1>3, <1>4, <1>5, <1>6, <1>7, <1>8, <1>9 DEF ServerStep

\* So does the passing of time.
LEMMA TickTyped ==
  ASSUME TypeOK, Tick
  PROVE TypeOK'
<1>1. held' \in [Bridges -> 0..LeaseTTL] /\ stray' \in [Bridges -> 0..LeaseTTL]
  <2>1. \A n \in 0..LeaseTTL : Less(n) \in 0..LeaseTTL
    BY Durations DEF Less
  <2> QED BY <2>1 DEF Tick, TypeOK
<1>2. reaper' \in Reapers
  <2>1. \A n \in 0..Poll : Less(n) \in 0..Poll
    BY Durations DEF Less
  <2>2. /\ Less(reaper.idleIn) \in 0..Poll /\ More(reaper.idleFor) \in 0..CapTime
        /\ (IF reaper.owner = "off" THEN reaper.ownerIn ELSE Less(reaper.ownerIn)) \in 0..Poll
    BY <2>1, Capped DEF TypeOK, Reapers
  <2> QED BY <2>2 DEF Tick, TypeOK, Reapers
<1>3. bridge' \in [Bridges -> BridgeState]
  <2>1. ASSUME NEW b \in Bridges PROVE [bridge[b] EXCEPT !.beatIn = Less(@)] \in BridgeState
    <3>1. Less(bridge[b].beatIn) \in 0..HeartbeatAfter
      BY Durations DEF TypeOK, BridgeState, Less
    <3> QED BY <3>1 DEF TypeOK, BridgeState
  <2> QED BY <2>1 DEF Tick
<1> QED BY <1>1, <1>2, <1>3, HistoryTyped DEF Tick, TypeOK

\* Whatever a bridge does to its leases, they last no longer than a grant.
LEMMA LeaseTyped ==
  ASSUME TypeOK, NEW b \in Bridges,
         \/ UNCHANGED lease
         \/ Forgotten(b)
         \/ MaybeRenewed(b) /\ UNCHANGED stray
         \/ \E i \in Instances \cup {0} : Synced(b, i) \/ Unsynced(b, i)
         \/ \E t \in {0, LeaseTTL} : held' = [held EXCEPT ![b] = t] /\ UNCHANGED stray
  PROVE  held' \in [Bridges -> 0..LeaseTTL] /\ stray' \in [Bridges -> 0..LeaseTTL]
<1>1. /\ 0 \in 0..LeaseTTL /\ LeaseTTL \in 0..LeaseTTL
      /\ held[b] \in 0..LeaseTTL /\ stray[b] \in 0..LeaseTTL
      /\ Longer(stray[b], held[b]) \in 0..LeaseTTL
  BY Durations DEF TypeOK, Longer
<1> QED BY <1>1 DEF TypeOK, lease, Forgotten, MaybeRenewed, Synced, Unsynced

\* Adopting or spawning a server keeps the server's own state typed.
LEMMA EnsuredTyped ==
  ASSUME TypeOK, NEW i \in Instances, Ensured(i)
  PROVE  /\ instance' \in Instances \cup {0} /\ record' \in BOOLEAN
         /\ held' \in [Bridges -> 0..LeaseTTL] /\ stray' \in [Bridges -> 0..LeaseTTL]
         /\ sessions' \subseteq Editors /\ reaper' \in Reapers
<1>1. CASE Launched(FALSE)
  BY <1>1, ServerTyped
<1>2. CASE UNCHANGED <<instance, record, lease, sessions, reaper>>
  BY <1>2 DEF TypeOK, lease
<1> QED BY <1>1, <1>2 DEF Ensured

\* Every step but the passing of time is seen at once.
LEMMA Seen == ServerStep \/ (\E b \in Bridges : BridgeStep(b)) => Observed
BY DEF ServerStep, EditorLaunches, ServerCrashes, ServerIsStopped, OwnerDies, OwnerPolls,
       OwnerConfirms, IdleSees, IdleWaits, IdleExits, EditorConnects, EditorDrops,
       BridgeStep, Ensures, EnsureFails, Syncs, SyncFails, BeatRenews, BeatRefused,
       BeatLost, BeatUnreadable, Invalidates, CallEnsures, CallSyncs, BridgeCloses, BridgeDies

\* So does every step of a bridge.
LEMMA BridgeStepTyped ==
  ASSUME TypeOK, NEW b \in Bridges, BridgeStep(b)
  PROVE TypeOK'
<1>0. Observed
  BY DEF BridgeStep, Ensures, EnsureFails, Syncs, SyncFails, BeatRenews, BeatRefused,
         BeatLost, BeatUnreadable, Invalidates, CallEnsures, CallSyncs, BridgeCloses, BridgeDies
<1>a. /\ bridge[b] \in BridgeState
      /\ bridge[b].known \in Instances \cup {0} /\ bridge[b].seen \in Instances \cup {0}
      /\ bridge[b].call \in Instances \cup {0}
      /\ 0 \in 0..HeartbeatAfter /\ HeartbeatAfter \in 0..HeartbeatAfter
  BY Durations DEF TypeOK, BridgeState
<1>b. quiet' \in 0..CapTime /\ lasted' \in 0..CapTime
  BY <1>0, HistoryTyped
<1>1. CASE Ensures(b)
  <2>1. PICK i \in Instances : Ensured(i) /\ bridge' = [bridge EXCEPT ![b].pc = AfterEnsure[bridge[b].pc], ![b].seen = i]
    BY <1>1 DEF Ensures
  <2>2. AfterEnsure[bridge[b].pc] \in Pc
    BY <1>1 DEF Ensures, AfterEnsure, Pc
  <2>3. bridge' \in [Bridges -> BridgeState]
    BY <1>a, <2>1, <2>2 DEF TypeOK, BridgeState
  <2> QED BY <1>1, <1>b, <2>1, <2>3, EnsuredTyped DEF Ensures, TypeOK
<1>2. CASE EnsureFails(b)
  <2>3. bridge' \in [Bridges -> BridgeState]
    BY <1>2, <1>a DEF EnsureFails, TypeOK, BridgeState, Pc
  <2> QED BY <1>2, <1>b, <2>3, FaultTyped DEF EnsureFails, TypeOK, lease
<1>3. CASE Syncs(b)
  <2>3. bridge' \in [Bridges -> BridgeState]
    BY <1>3, <1>a DEF Syncs, TypeOK, BridgeState, Pc
  <2>4. held' \in [Bridges -> 0..LeaseTTL] /\ stray' \in [Bridges -> 0..LeaseTTL]
    BY <1>3, <1>a, LeaseTyped DEF Syncs
  <2> QED BY <1>3, <1>b, <2>3, <2>4 DEF Syncs, TypeOK
<1>4. CASE SyncFails(b)
  <2>2. AfterFailure(b) \in Pc
    BY <1>4 DEF SyncFails, Syncing, AfterFailure, Pc
  <2>3. bridge' \in [Bridges -> BridgeState]
    BY <1>4, <1>a, <2>2 DEF SyncFails, TypeOK, BridgeState
  <2>4. held' \in [Bridges -> 0..LeaseTTL] /\ stray' \in [Bridges -> 0..LeaseTTL]
    BY <1>4, <1>a, LeaseTyped DEF SyncFails
  <2>5. faults' \in 0..MaxFaults
    BY <1>4, FaultTyped DEF SyncFails, Unsynced, TypeOK
  <2> QED BY <1>4, <1>b, <2>3, <2>4, <2>5 DEF SyncFails, TypeOK
<1>5. CASE BeatRenews(b)
  <2>3. bridge' \in [Bridges -> BridgeState]
    BY <1>5, <1>a DEF BeatRenews, TypeOK, BridgeState
  <2>4. held' \in [Bridges -> 0..LeaseTTL] /\ stray' \in [Bridges -> 0..LeaseTTL]
    BY <1>5, LeaseTyped DEF BeatRenews
  <2> QED BY <1>5, <1>b, <2>3, <2>4 DEF BeatRenews, TypeOK
<1>6. CASE BeatRefused(b)
  <2>3. bridge' \in [Bridges -> BridgeState]
    BY <1>6, <1>a DEF BeatRefused, BeatRaises, TypeOK, BridgeState, Pc
  <2>4. held' \in [Bridges -> 0..LeaseTTL] /\ stray' \in [Bridges -> 0..LeaseTTL]
    BY <1>6, LeaseTyped DEF BeatRefused
  <2> QED BY <1>6, <1>b, <2>3, <2>4 DEF BeatRefused, TypeOK
<1>7. CASE BeatLost(b)
  <2>3. bridge' \in [Bridges -> BridgeState]
    BY <1>7, <1>a DEF BeatLost, BeatRaises, TypeOK, BridgeState, Pc
  <2>4. held' \in [Bridges -> 0..LeaseTTL] /\ stray' \in [Bridges -> 0..LeaseTTL]
    BY <1>7, LeaseTyped DEF BeatLost
  <2> QED BY <1>7, <1>b, <2>3, <2>4, FaultTyped DEF BeatLost, TypeOK
<1>8. CASE BeatUnreadable(b)
  <2>3. bridge' \in [Bridges -> BridgeState]
    BY <1>8, <1>a DEF BeatUnreadable, TypeOK, BridgeState, Pc
  <2> QED BY <1>8, <1>b, <2>3 DEF BeatUnreadable, TypeOK, lease
<1>9. CASE CallEnsures(b)
  <2>1. PICK i \in Instances : Ensured(i) /\ bridge' = [bridge EXCEPT ![b].call = i]
    BY <1>9 DEF CallEnsures
  <2>3. bridge' \in [Bridges -> BridgeState]
    BY <1>a, <2>1 DEF TypeOK, BridgeState
  <2>4. /\ instance' \in Instances \cup {0} /\ record' \in BOOLEAN
        /\ held' \in [Bridges -> 0..LeaseTTL] /\ stray' \in [Bridges -> 0..LeaseTTL]
        /\ sessions' \subseteq Editors /\ reaper' \in Reapers
    BY <2>1, EnsuredTyped
  <2>5. UNCHANGED <<ownerAlive, faults>>
    BY <1>9 DEF CallEnsures
  <2> QED BY <1>b, <2>3, <2>4, <2>5 DEF TypeOK
<1>10. CASE CallSyncs(b)
  <2>3. bridge' \in [Bridges -> BridgeState]
    <3>1. \/ bridge' = [bridge EXCEPT ![b].known = bridge[b].call, ![b].call = 0]
          \/ bridge' = [bridge EXCEPT ![b].call = 0]
      BY <1>10 DEF CallSyncs
    <3> QED BY <1>a, <3>1 DEF TypeOK, BridgeState
  <2>4. held' \in [Bridges -> 0..LeaseTTL] /\ stray' \in [Bridges -> 0..LeaseTTL]
    <3>1. Synced(b, bridge[b].call) \/ Unsynced(b, bridge[b].call)
      BY <1>10 DEF CallSyncs
    <3> QED BY <3>1, <1>a, LeaseTyped
  <2>5. faults' \in 0..MaxFaults
    BY <1>10, FaultTyped DEF CallSyncs, Unsynced, TypeOK
  <2> QED BY <1>10, <1>b, <2>3, <2>4, <2>5 DEF CallSyncs, TypeOK
<1>11. CASE BridgeCloses(b) \/ BridgeDies(b)
  <2>3. bridge' \in [Bridges -> BridgeState]
    BY <1>11, <1>a DEF BridgeCloses, BridgeDies, Gone, TypeOK, BridgeState, Pc
  <2>4. held' \in [Bridges -> 0..LeaseTTL] /\ stray' \in [Bridges -> 0..LeaseTTL]
    BY <1>11, LeaseTyped DEF BridgeCloses, BridgeDies
  <2> QED BY <1>11, <1>b, <2>3, <2>4 DEF BridgeCloses, BridgeDies, TypeOK
<1>12. CASE Invalidates(b)
  <2>3. bridge' \in [Bridges -> BridgeState]
    BY <1>12, <1>a DEF Invalidates, Invalidated, TypeOK, BridgeState, Pc
  <2>4. held' \in [Bridges -> 0..LeaseTTL] /\ stray' \in [Bridges -> 0..LeaseTTL]
    BY <1>12, LeaseTyped DEF Invalidates
  <2> QED BY <1>12, <1>b, <2>3, <2>4 DEF Invalidates, TypeOK
<1> QED BY <1>1, <1>2, <1>3, <1>4, <1>5, <1>6, <1>7, <1>8, <1>9, <1>10, <1>11, <1>12 DEF BridgeStep

\* The first server and its bridges are well typed.
LEMMA InitTyped ==
  ASSUME Init
  PROVE TypeOK
<1>1. None \in [Bridges -> 0..LeaseTTL] /\ 1 \in Instances
  BY Durations, LifeAssumption DEF None
<1>2. bridge \in [Bridges -> BridgeState]
  BY Durations DEF Init, BridgeState, Pc
<1>3. quiet \in 0..CapTime /\ lasted \in 0..CapTime /\ faults \in 0..MaxFaults
  BY Durations, Capped DEF Init
<1> QED BY <1>1, <1>2, <1>3, ArmedTyped DEF Init, TypeOK

-----------------------------------------------------------------------------
(* The invariant of a bridge and its lease.                                *)

\* The bridge takes the running server for the one it has a lease on.
Believes(b) == bridge[b].known = instance /\ instance # 0

\* A bridge has no lease before its heartbeat task runs.  While that sleeps, the
\* lease outlasts the sleep; while it recovers, no time passes for a lease that
\* a tool call registered meanwhile.
BridgeInv(b) ==
  /\ bridge[b].pc \notin Started => bridge[b].known = 0 /\ bridge[b].call = 0
  /\ Syncing(b) => bridge[b].seen # 0
  /\ bridge[b].pc = "asleep" /\ Believes(b) => held[b] > bridge[b].beatIn
  /\ bridge[b].pc = "refused" /\ Believes(b) => held[b] > 0
  /\ bridge[b].pc \in {"ensuring", "syncing"} /\ Believes(b) => held[b] = LeaseTTL

\* Since its last poll the idle reaper's window is as old as that poll, if a
\* presence was there to be seen; a presence it has not seen is younger.
IdleInv ==
  /\ instance = 0 => ~Active /\ lasted = 0
  /\ instance # 0 /\ Active =>
       \/ lasted <= Poll - reaper.idleIn
       \/ reaper.ever /\ reaper.idleFor = Poll - reaper.idleIn
  /\ instance # 0 /\ ~Active =>
       \/ lasted <= Poll
       \/ reaper.ever /\ reaper.idleFor <= Poll + quiet

\* The invariant of the whole.
LifeInv == TypeOK /\ (\A b \in Bridges : BridgeInv(b)) /\ IdleInv

\* What a step leaves alone of a bridge it leaves true of it.
LEMMA Untouched ==
  ASSUME NEW b \in Bridges, BridgeInv(b), bridge'[b] = bridge[b],
         \/ instance' = instance /\ held'[b] = held[b]
         \/ bridge[b].known # instance'
         \/ instance' = 0
  PROVE  BridgeInv(b)'
BY DEF BridgeInv, Believes, Syncing

\* A server that starts is none that a bridge remembers.
LEMMA LaunchedIsNew ==
  ASSUME TypeOK, NEW owned, Launched(owned), NEW b \in Bridges
  PROVE  instance' \notin Remembers(b) /\ instance' # 0
BY FreshIsNew, Durations DEF Launched

\* A server that starts or ends breaks no bridge's invariant: the next one is
\* one the bridge does not know.
LEMMA ServerStepBridges ==
  ASSUME TypeOK, ServerStep, NEW b \in Bridges, BridgeInv(b)
  PROVE  BridgeInv(b)'
<1>1. bridge' = bridge
  BY DEF ServerStep, EditorLaunches, ServerCrashes, ServerIsStopped, OwnerDies, OwnerPolls,
         OwnerConfirms, IdleSees, IdleWaits, IdleExits, EditorConnects, EditorDrops
<1>2. \/ instance' = instance /\ held' = held
      \/ Launched(TRUE)
      \/ instance' = 0
  BY DEF ServerStep, EditorLaunches, ServerCrashes, ServerIsStopped, OwnerDies, OwnerPolls, OwnerNext,
         OwnerConfirms, IdleSees, IdleWaits, IdleExits, EditorConnects, EditorDrops, Ended, lease
<1>3. Launched(TRUE) => bridge[b].known # instance'
  BY LaunchedIsNew DEF Remembers
<1> QED BY <1>1, <1>2, <1>3, Untouched

\* A lease and the timer of the heartbeat that renews it run down together.
LEMMA TickBridges ==
  ASSUME TypeOK, Tick, NEW b \in Bridges, BridgeInv(b)
  PROVE  BridgeInv(b)'
<1>1. instance' = instance /\ held'[b] = Less(held[b])
      /\ bridge'[b] = [bridge[b] EXCEPT !.beatIn = Less(@)]
  BY DEF Tick, TypeOK
<1>2. /\ bridge[b] \in BridgeState /\ held[b] \in 0..LeaseTTL
      /\ bridge[b].beatIn \in Nat /\ held[b] \in Nat
  BY Durations DEF TypeOK, BridgeState
<1>3. /\ bridge'[b].pc = bridge[b].pc /\ bridge'[b].known = bridge[b].known
      /\ bridge'[b].seen = bridge[b].seen /\ bridge'[b].call = bridge[b].call
      /\ bridge'[b].beatIn = Less(bridge[b].beatIn)
  BY <1>1, <1>2 DEF BridgeState
<1>4. Waiting(b)
  BY DEF Tick
<1>5. bridge'[b].pc = "asleep" /\ Believes(b)' => held'[b] > bridge'[b].beatIn
  <2> SUFFICES ASSUME bridge[b].pc = "asleep", Believes(b) PROVE held'[b] > bridge'[b].beatIn
    BY <1>1, <1>3 DEF Believes
  <2>1. bridge[b].beatIn > 0 /\ held[b] > bridge[b].beatIn
    BY <1>4 DEF Waiting, BridgeInv
  <2> QED BY <2>1, <1>1, <1>2, <1>3 DEF Less
<1>6. ~(bridge[b].pc \in {"refused", "ensuring", "syncing"} /\ Believes(b))
  BY <1>4 DEF Waiting, Believes
<1> QED BY <1>1, <1>3, <1>5, <1>6 DEF BridgeInv, Believes, Syncing

\* After an ensure a bridge knows no server it did not know before.
LEMMA EnsuredIsNew ==
  ASSUME TypeOK, NEW i \in Instances, Ensured(i), NEW b \in Bridges
  PROVE  \/ instance' = instance /\ held' = held
         \/ bridge[b].known # instance'
BY LaunchedIsNew DEF Ensured, lease, Remembers

\* One bridge's steps leave the others' leases alone.
LEMMA OtherBridges ==
  ASSUME TypeOK, NEW c \in Bridges, BridgeStep(c), NEW b \in Bridges \ {c}, BridgeInv(b)
  PROVE  BridgeInv(b)'
<1>1. bridge'[b] = bridge[b]
  BY DEF TypeOK, BridgeStep, Ensures, EnsureFails, Syncs, SyncFails, BeatRenews, BeatRefused, BeatRaises, Invalidated,
       BeatLost, BeatUnreadable, Invalidates, CallEnsures, CallSyncs, BridgeCloses, BridgeDies, Gone
<1>2. CASE Ensures(c) \/ CallEnsures(c)
  <2>1. PICK i \in Instances : Ensured(i)
    BY <1>2 DEF Ensures, CallEnsures
  <2> QED BY <1>1, <2>1, EnsuredIsNew, Untouched
<1>3. CASE instance' = instance /\ held'[b] = held[b]
  BY <1>1, <1>3, Untouched
<1>4. ~(Ensures(c) \/ CallEnsures(c)) => instance' = instance
  BY DEF BridgeStep, EnsureFails, Syncs, SyncFails, BeatRenews, BeatRefused,
       BeatLost, BeatUnreadable, Invalidates, CallSyncs, BridgeCloses, BridgeDies
<1>5. ~(Ensures(c) \/ CallEnsures(c)) => held'[b] = held[b]
  <2>1. ASSUME Forgotten(c) \/ MaybeRenewed(c) \/ UNCHANGED lease
               \/ \E i \in Instances \cup {0} : Synced(c, i) \/ Unsynced(c, i)
        PROVE  held'[b] = held[b]
    BY <2>1 DEF Forgotten, MaybeRenewed, Synced, Unsynced, TypeOK, lease
  <2>2. bridge[c].seen \in Instances \cup {0} /\ bridge[c].call \in Instances \cup {0}
    BY DEF TypeOK, BridgeState
  <2>3. CASE Syncs(c) \/ SyncFails(c) \/ CallSyncs(c)
    BY <2>1, <2>2, <2>3 DEF Syncs, SyncFails, CallSyncs
  <2>4. CASE \/ EnsureFails(c) \/ BeatUnreadable(c) \/ BeatLost(c) \/ BeatRefused(c)
             \/ Invalidates(c) \/ BridgeDies(c)
    BY <2>1, <2>4 DEF EnsureFails, BeatUnreadable, BeatLost, BeatRefused, Invalidates, BridgeDies, lease
  <2>5. CASE BeatRenews(c) \/ BridgeCloses(c)
    BY <2>1, <2>5 DEF BeatRenews, BridgeCloses, TypeOK
  <2> QED BY <2>3, <2>4, <2>5 DEF BridgeStep
<1> QED BY <1>2, <1>3, <1>4, <1>5

\* Every step of a bridge leaves it a lease that outlasts its next heartbeat, or
\* no belief in one.
LEMMA ThisBridge ==
  ASSUME TypeOK, NEW b \in Bridges, BridgeStep(b), BridgeInv(b)
  PROVE  BridgeInv(b)'
<1>0. /\ bridge[b] \in BridgeState /\ held[b] \in 0..LeaseTTL
      /\ bridge[b].beatIn \in 0..HeartbeatAfter
      /\ HeartbeatAfter \in Nat /\ LeaseTTL \in Nat /\ HeartbeatAfter < LeaseTTL /\ HeartbeatAfter > 0
  BY Durations DEF TypeOK, BridgeState
<1>1. CASE Ensures(b)
  <2>1. PICK i \in Instances : Ensured(i) /\ bridge' = [bridge EXCEPT ![b].pc = AfterEnsure[bridge[b].pc], ![b].seen = i]
    BY <1>1 DEF Ensures
  <2>2. /\ bridge'[b].pc = AfterEnsure[bridge[b].pc] /\ bridge'[b].seen = i
        /\ bridge'[b].known = bridge[b].known /\ bridge'[b].call = bridge[b].call
    BY <2>1, <1>0 DEF TypeOK, BridgeState
  <2>3. i # 0
    BY Durations
  <2>4. \/ bridge[b].pc \in {"off", "retry"} /\ bridge'[b].pc \in {"start", "restart"}
        \/ bridge[b].pc = "ensuring" /\ bridge'[b].pc = "syncing"
    <3>1. /\ DOMAIN AfterEnsure = {"off", "retry", "ensuring"}
          /\ AfterEnsure["off"] = "start" /\ AfterEnsure["retry"] = "restart"
          /\ AfterEnsure["ensuring"] = "syncing"
      BY DEF AfterEnsure
    <3>2. bridge[b].pc \in {"off", "retry", "ensuring"}
      BY <1>1, <3>1 DEF Ensures
    <3> QED BY <2>2, <3>1, <3>2
  <2>5. Believes(b)' => Believes(b) /\ held'[b] = held[b]
    <3>1. \/ instance' = instance /\ held' = held
          \/ bridge[b].known # instance'
      BY <2>1, EnsuredIsNew
    <3> QED BY <2>2, <3>1 DEF Believes
  <2> QED BY <2>2, <2>3, <2>4, <2>5 DEF BridgeInv, Started
<1>2. CASE EnsureFails(b)
  <2>1. /\ bridge'[b].known = bridge[b].known /\ bridge'[b].call = bridge[b].call
        /\ held' = held /\ instance' = instance
    BY <1>0, <1>2 DEF EnsureFails, TypeOK, BridgeState, lease
  <2>2. \/ bridge[b].pc = "retry" /\ bridge'[b].pc = "off"
        \/ bridge[b].pc = "ensuring" /\ bridge'[b].pc = "asleep" /\ bridge'[b].beatIn = HeartbeatAfter
    BY <1>0, <1>2 DEF EnsureFails, TypeOK, BridgeState
  <2> QED BY <1>0, <2>1, <2>2 DEF BridgeInv, Started, Believes, Syncing
<1>3. CASE Syncs(b)
  <2>1. /\ bridge'[b].pc = "asleep" /\ bridge'[b].beatIn = HeartbeatAfter
        /\ bridge'[b].known = bridge[b].seen /\ instance' = instance
    BY <1>0, <1>3 DEF Syncs, TypeOK, BridgeState
  <2>2. Believes(b)' => held'[b] > HeartbeatAfter
    <3> SUFFICES ASSUME bridge[b].seen = instance, instance # 0 PROVE held'[b] > HeartbeatAfter
      BY <2>1 DEF Believes
    <3>1. CASE bridge[b].known # instance
      BY <1>0, <1>3, <3>1 DEF Syncs, Synced, TypeOK
    <3>2. CASE bridge[b].known = instance
      <4>1. held'[b] = held[b]
        BY <1>3, <3>2 DEF Syncs, Synced, lease
      <4>2. bridge[b].pc = "syncing"
        BY <1>3, <3>2 DEF Syncs, Syncing, BridgeInv, Started
      <4>3. held[b] = LeaseTTL
        BY <3>2, <4>2 DEF BridgeInv, Believes
      <4> QED BY <1>0, <4>1, <4>3
    <3> QED BY <3>1, <3>2
  <2> QED BY <2>1, <2>2 DEF BridgeInv, Started, Syncing
<1>4. CASE SyncFails(b)
  <2>1. /\ bridge'[b].known = bridge[b].known /\ bridge'[b].call = bridge[b].call
        /\ held' = held /\ instance' = instance
    BY <1>0, <1>4 DEF SyncFails, Unsynced, TypeOK, BridgeState, lease
  <2>2. \/ bridge[b].pc \in {"start", "restart"} /\ bridge'[b].pc \in {"retry", "off"}
        \/ bridge[b].pc = "syncing" /\ bridge'[b].pc = "asleep" /\ bridge'[b].beatIn = HeartbeatAfter
    BY <1>0, <1>4 DEF SyncFails, Syncing, AfterFailure, TypeOK, BridgeState
  <2> QED BY <1>0, <2>1, <2>2 DEF BridgeInv, Started, Believes, Syncing
<1>5. CASE BeatRenews(b)
  <2>1. /\ bridge'[b].pc = "asleep" /\ bridge'[b].beatIn = HeartbeatAfter /\ held'[b] = LeaseTTL
    BY <1>0, <1>5 DEF BeatRenews, BeatDue, TypeOK, BridgeState
  <2> QED BY <1>0, <2>1 DEF BridgeInv, Started, Syncing
<1>6. CASE BeatRefused(b) \/ BeatLost(b)
  <2>1. /\ bridge[b].pc = "asleep" /\ bridge'[b].pc = "refused"
        /\ bridge'[b].known = bridge[b].known /\ instance' = instance
        /\ held'[b] = held[b] \/ held'[b] = LeaseTTL
    BY <1>0, <1>6 DEF BeatRefused, BeatLost, BeatRaises, BeatDue, MaybeRenewed, TypeOK, BridgeState, lease
  <2>2. Believes(b) => held[b] > 0
    BY <1>0, <2>1 DEF BridgeInv
  <2> QED BY <1>0, <2>1, <2>2 DEF BridgeInv, Started, Syncing, Believes
<1>11. CASE Invalidates(b)
  <2>1. bridge'[b].pc = "ensuring" /\ bridge'[b].known = 0 /\ instance' = instance
    BY <1>0, <1>11 DEF Invalidates, Invalidated, TypeOK, BridgeState
  <2> QED BY <2>1 DEF BridgeInv, Started, Syncing, Believes
<1>7. CASE BeatUnreadable(b)
  <2>1. bridge'[b].pc = "dead"
    BY <1>0, <1>7 DEF BeatUnreadable, TypeOK, BridgeState
  <2> QED BY <2>1 DEF BridgeInv, Started, Syncing
<1>8. CASE CallEnsures(b)
  <2>1. PICK i \in Instances : Ensured(i) /\ bridge' = [bridge EXCEPT ![b].call = i]
    BY <1>8 DEF CallEnsures
  <2>2. /\ bridge'[b].pc = bridge[b].pc /\ bridge'[b].seen = bridge[b].seen
        /\ bridge'[b].known = bridge[b].known /\ bridge'[b].beatIn = bridge[b].beatIn
    BY <2>1, <1>0 DEF TypeOK, BridgeState
  <2>3. bridge[b].pc \in Started
    BY <1>8 DEF CallEnsures
  <2>4. Believes(b)' => Believes(b) /\ held'[b] = held[b]
    <3>1. \/ instance' = instance /\ held' = held
          \/ bridge[b].known # instance'
      BY <2>1, EnsuredIsNew
    <3> QED BY <2>2, <3>1 DEF Believes
  <2> QED BY <2>2, <2>3, <2>4 DEF BridgeInv, Syncing
<1>9. CASE CallSyncs(b)
  <2>1. /\ bridge'[b].pc = bridge[b].pc /\ bridge'[b].seen = bridge[b].seen
        /\ bridge'[b].beatIn = bridge[b].beatIn /\ bridge'[b].call = 0 /\ instance' = instance
    BY <1>0, <1>9 DEF CallSyncs, TypeOK, BridgeState
  <2>2. bridge[b].pc \in Started
    BY <1>9 DEF CallSyncs, BridgeInv
  <2>3. CASE bridge'[b].known = bridge[b].known /\ held'[b] = held[b]
    BY <2>1, <2>2, <2>3 DEF BridgeInv, Believes, Syncing
  <2>4. CASE held'[b] = LeaseTTL
    BY <1>0, <2>1, <2>2, <2>4 DEF BridgeInv, Believes, Syncing
  <2>5. \/ bridge'[b].known = bridge[b].known /\ held'[b] = held[b]
        \/ held'[b] = LeaseTTL
    BY <1>0, <1>9 DEF CallSyncs, Synced, Unsynced, TypeOK, BridgeState, lease
  <2> QED BY <2>3, <2>4, <2>5
<1>10. CASE BridgeCloses(b) \/ BridgeDies(b)
  <2>1. bridge'[b] = [pc |-> "off", beatIn |-> 0, known |-> 0, seen |-> 0, call |-> 0]
    BY <1>10 DEF BridgeCloses, BridgeDies, Gone, TypeOK
  <2> QED BY <2>1 DEF BridgeInv, Started, Syncing
<1> QED BY <1>1, <1>2, <1>3, <1>4, <1>5, <1>6, <1>7, <1>8, <1>9, <1>10, <1>11 DEF BridgeStep

-----------------------------------------------------------------------------
(* The accounts of the idle reaper.                                        *)

\* What a step that is not the idle reaper's leaves alone.
IdleSame == /\ reaper'.idleIn = reaper.idleIn
            /\ reaper'.idleFor = reaper.idleFor /\ reaper'.ever = reaper.ever

\* The counters of the idle reaper are numbers.
LEMMA Counters ==
  ASSUME TypeOK
  PROVE  /\ reaper.idleIn \in Nat /\ reaper.idleIn <= Poll /\ reaper.idleFor \in Nat
         /\ reaper.ever \in BOOLEAN /\ quiet \in Nat /\ lasted \in Nat /\ Poll \in Nat
BY Durations, Capped DEF TypeOK, Reapers

\* Whoever comes or goes between two polls leaves the relation true.
LEMMA IdleUntouched ==
  ASSUME TypeOK, IdleInv, Observed, instance' = instance, IdleSame, instance = 0 => ~Active'
  PROVE  IdleInv'
<1>0. /\ reaper.idleIn \in Nat /\ reaper.idleIn <= Poll /\ reaper.idleFor \in Nat
      /\ quiet \in Nat /\ lasted \in Nat /\ Poll \in Nat
  BY Counters
<1>a. /\ quiet' = IF Active' \/ instance' = 0 THEN 0 ELSE quiet
      /\ lasted' = IF instance' = 0 \/ (Active' /\ ~Active) THEN 0 ELSE lasted
  BY ObservedIs
<1>1. CASE instance = 0
  BY <1>1, <1>a DEF IdleInv
<1>2. CASE instance # 0 /\ Active /\ Active'
  BY <1>2, <1>a, <1>0 DEF IdleInv, IdleSame
<1>3. CASE instance # 0 /\ Active /\ ~Active'
  BY <1>3, <1>a, <1>0 DEF IdleInv, IdleSame
<1>4. CASE instance # 0 /\ ~Active /\ Active'
  BY <1>4, <1>a, <1>0 DEF IdleInv, IdleSame
<1>5. CASE instance # 0 /\ ~Active /\ ~Active'
  BY <1>5, <1>a, <1>0 DEF IdleInv, IdleSame
<1> QED BY <1>1, <1>2, <1>3, <1>4, <1>5

\* No server, no presence: both histories start over.
LEMMA IdleEnded ==
  ASSUME NEW graceful, Ended(graceful), Observed
  PROVE  IdleInv'
<1>1. instance' = 0 /\ ~Active'
  BY DEF Ended, Active, Leased, None
<1> QED BY <1>1, ObservedIs DEF IdleInv

\* A server that starts has seen no presence.
LEMMA IdleLaunched ==
  ASSUME TypeOK, IdleInv, NEW owned, Launched(owned), Observed
  PROVE  IdleInv'
<1>1. instance = 0 /\ instance' # 0 /\ ~Active /\ lasted = 0
  BY FreshIsNew, Durations DEF Launched, IdleInv
<1>2. ~Active'
  BY <1>1 DEF Launched, Active, Leased
<1>3. lasted' = 0
  BY <1>1, <1>2, ObservedIs
<1> QED BY <1>1, <1>2, <1>3, Durations DEF IdleInv

\* Presence, absence and the window since the last poll grow together.
LEMMA IdleTick ==
  ASSUME TypeOK, IdleInv, Tick
  PROVE  IdleInv'
<1>0. /\ reaper.idleIn \in Nat /\ reaper.idleIn <= Poll /\ reaper.idleFor \in 0..CapTime
      /\ quiet \in 0..CapTime /\ lasted \in 0..CapTime /\ Poll \in Nat /\ CapTime \in Nat /\ Poll < CapTime
  BY Counters, Capped DEF TypeOK, Reapers
<1>1. /\ instance' = instance
      /\ quiet' = IF Active' \/ instance' = 0 THEN 0 ELSE More(quiet)
      /\ lasted' = IF instance' = 0 \/ (Active' /\ ~Active) THEN 0
                   ELSE IF Active' THEN More(lasted) ELSE lasted
  BY WatchedIs DEF Tick
<1>2. Active' => Active
  <2>1. sessions' = sessions /\ \A b \in Bridges : held'[b] = Less(held[b]) /\ stray'[b] = Less(stray[b])
    BY DEF Tick
  <2>2. \A b \in Bridges : (held'[b] > 0 => held[b] > 0) /\ (stray'[b] > 0 => stray[b] > 0)
    BY <2>1 DEF Less, TypeOK
  <2> QED BY <2>1, <2>2 DEF Active, Leased
<1>3. CASE instance = 0
  BY <1>1, <1>2, <1>3 DEF IdleInv
<1>4. CASE instance # 0
  <2>1. /\ reaper.idleIn > 0 /\ reaper'.idleIn = reaper.idleIn - 1
        /\ reaper'.idleFor = More(reaper.idleFor) /\ reaper'.ever = reaper.ever
    BY <1>0, <1>4 DEF Tick, TypeOK, Reapers, Less
  <2>2. /\ \A n \in 0..CapTime : More(n) \in 0..CapTime /\ n <= More(n) /\ More(n) <= n + 1
        /\ \A n \in 0..CapTime : n < CapTime => More(n) = n + 1
    BY Capped
  <2>3. CASE Active /\ Active'
    <3>1. lasted' <= lasted + 1 /\ lasted' \in Nat
      BY <1>0, <1>1, <1>4, <2>2, <2>3
    <3>2. reaper.idleFor = Poll - reaper.idleIn => reaper'.idleFor = Poll - reaper'.idleIn
      BY <1>0, <2>1, <2>2
    <3>3. lasted <= Poll - reaper.idleIn => lasted' <= Poll - reaper'.idleIn
      BY <1>0, <2>1, <3>1
    <3> QED BY <1>1, <1>4, <2>1, <2>3, <3>2, <3>3 DEF IdleInv
  <2>4. CASE Active /\ ~Active'
    <3>1. lasted' = lasted /\ quiet' \in Nat
      BY <1>0, <1>1, <1>4, <2>2, <2>4
    <3>2. reaper.idleFor = Poll - reaper.idleIn => reaper'.idleFor <= Poll + quiet'
      BY <1>0, <2>1, <2>2, <3>1
    <3>3. lasted <= Poll - reaper.idleIn => lasted' <= Poll
      BY <1>0, <2>1, <3>1
    <3> QED BY <1>1, <1>4, <2>1, <2>4, <3>2, <3>3 DEF IdleInv
  <2>5. CASE ~Active /\ ~Active'
    <3>1. lasted' = lasted /\ quiet' = More(quiet)
      BY <1>0, <1>1, <1>4, <2>2, <2>5
    <3>2. reaper.idleFor <= Poll + quiet => reaper'.idleFor <= Poll + quiet'
      <4>1. CASE quiet = CapTime
        <5>1. quiet' = CapTime /\ reaper'.idleFor \in 0..CapTime
          BY <1>0, <2>1, <2>2, <3>1, <4>1
        <5> QED BY <1>0, <5>1
      <4>2. CASE quiet < CapTime
        BY <1>0, <2>1, <2>2, <3>1, <4>2
      <4> QED BY <1>0, <4>1, <4>2
    <3> QED BY <1>1, <1>4, <2>1, <2>5, <3>1, <3>2 DEF IdleInv
  <2> QED BY <1>2, <2>3, <2>4, <2>5
<1> QED BY <1>3, <1>4

\* The server's own steps.
LEMMA IdleServerStep ==
  ASSUME TypeOK, IdleInv, ServerStep
  PROVE  IdleInv'
<1>0. Observed
  BY Seen
<1>1. CASE EditorLaunches
  BY <1>0, <1>1, IdleLaunched DEF EditorLaunches
<1>2. CASE ServerCrashes \/ ServerIsStopped \/ IdleExits
  BY <1>0, <1>2, IdleEnded DEF ServerCrashes, ServerIsStopped, IdleExits
<1>3. CASE OwnerDies \/ \E e \in Editors : EditorConnects(e) \/ EditorDrops(e)
  <2>1. instance' = instance /\ IdleSame /\ (instance = 0 => ~Active')
    BY <1>3 DEF OwnerDies, EditorConnects, EditorDrops, IdleSame, lease, IdleInv, Active, Leased
  <2> QED BY <1>0, <2>1, IdleUntouched
<1>4. ASSUME NEW phase, OwnerNext(phase) PROVE IdleInv'
  <2>1. reaper' = [reaper EXCEPT !.owner = phase, !.ownerIn = Poll] /\ reaper \in Reapers
        /\ instance' = instance
    BY <1>4 DEF OwnerNext, TypeOK
  <2>2. IdleSame
    BY <2>1 DEF IdleSame, Reapers
  <2>3. Active' = Active
    BY <1>4 DEF OwnerNext, lease, Active, Leased
  <2> QED BY <1>0, <2>1, <2>2, <2>3, IdleUntouched DEF IdleInv
<1>5. CASE OwnerPolls \/ OwnerConfirms
  BY <1>0, <1>4, <1>5, IdleEnded DEF OwnerPolls, OwnerConfirms
<1>6. CASE IdleSees
  <2>1. /\ instance' = instance /\ instance # 0 /\ Active' /\ Active
        /\ reaper'.idleIn = Poll /\ reaper'.idleFor = 0 /\ reaper'.ever
    BY <1>6 DEF IdleSees, IdleDue, lease, Active, Leased, TypeOK, Reapers
  <2> QED BY <2>1, Counters DEF IdleInv
<1>7. CASE IdleWaits
  <2>1. /\ instance' = instance /\ instance # 0 /\ ~Active' /\ ~Active
        /\ reaper'.idleFor = reaper.idleFor /\ reaper'.ever = reaper.ever
    BY <1>7 DEF IdleWaits, IdleDue, lease, Active, Leased, TypeOK, Reapers
  <2>2. quiet' = quiet /\ lasted' = lasted
    BY <1>0, <2>1, ObservedIs
  <2> QED BY <2>1, <2>2 DEF IdleInv
<1> QED BY <1>1, <1>2, <1>3, <1>5, <1>6, <1>7 DEF ServerStep

\* No request of a bridge brings a lease to life where no server runs.
LEMMA NothingIsLeased ==
  ASSUME TypeOK, NEW b \in Bridges, BridgeInv(b), BridgeStep(b), instance = 0, instance' = 0, ~Active
  PROVE  ~Active'
<1>1. \A c \in Bridges : held[c] = 0 /\ stray[c] = 0
  BY DEF Active, Leased, TypeOK
<1>2. sessions = {}
  BY DEF Active
<1>3. \/ UNCHANGED <<lease, sessions>>
      \/ /\ held' = [held EXCEPT ![b] = 0] /\ sessions' = sessions
         /\ \/ stray' = stray
            \/ stray' = [stray EXCEPT ![b] = Longer(stray[b], held[b])]
  <2>1. CASE Ensures(b) \/ CallEnsures(b)
    BY <2>1, FreshIsNew, Durations DEF Ensures, CallEnsures, Ensured, Launched, lease
  <2>2. CASE EnsureFails(b) \/ BeatRenews(b) \/ BeatLost(b) \/ BeatUnreadable(b) \/ BeatRefused(b)
    BY <2>2 DEF EnsureFails, BeatRenews, BeatLost, BeatUnreadable, BeatRefused, lease
  <2>3. CASE Invalidates(b) \/ BridgeDies(b) \/ BridgeCloses(b)
    BY <2>3 DEF Invalidates, BridgeDies, BridgeCloses, Forgotten
  <2>4. CASE Syncs(b) \/ SyncFails(b)
    <3>1. bridge[b].seen # 0
      BY <2>4 DEF Syncs, SyncFails, BridgeInv
    <3> QED BY <2>4, <3>1 DEF Syncs, SyncFails, Synced, Unsynced, lease
  <2>5. CASE CallSyncs(b)
    BY <2>5 DEF CallSyncs, Synced, Unsynced, lease
  <2> QED BY <2>1, <2>2, <2>3, <2>4, <2>5 DEF BridgeStep
<1>4. Longer(0, 0) = 0
  BY DEF Longer
<1>5. \A c \in Bridges : held'[c] = 0 /\ stray'[c] = 0
  BY <1>1, <1>3, <1>4 DEF lease, TypeOK
<1> QED BY <1>2, <1>3, <1>5 DEF Active, Leased, lease

\* Nor does a bridge's step break the idle reaper's accounts.
LEMMA IdleBridgeStep ==
  ASSUME TypeOK, IdleInv, NEW b \in Bridges, BridgeInv(b), BridgeStep(b)
  PROVE  IdleInv'
<1>0. Observed
  BY Seen
<1>1. CASE Launched(FALSE)
  BY <1>0, <1>1, IdleLaunched
<1>2. CASE UNCHANGED <<instance, reaper>>
  <2>1. instance = 0 => ~Active'
    BY <1>2, NothingIsLeased DEF IdleInv
  <2> QED BY <1>0, <1>2, <2>1, IdleUntouched DEF IdleSame
<1>3. Launched(FALSE) \/ UNCHANGED <<instance, reaper>>
  BY DEF BridgeStep, Ensures, EnsureFails, Syncs, SyncFails, BeatRenews, BeatRefused, Ensured,
       BeatLost, BeatUnreadable, Invalidates, CallEnsures, CallSyncs, BridgeCloses, BridgeDies
<1> QED BY <1>1, <1>2, <1>3

-----------------------------------------------------------------------------
(* The inductive invariant and what follows from it.                       *)

\* The invariant holds of the first server.
LEMMA LifeInitInv == Init => LifeInv
<1> SUFFICES ASSUME Init PROVE LifeInv
  OBVIOUS
<1>1. TypeOK
  BY InitTyped
<1>2. ASSUME NEW b \in Bridges PROVE BridgeInv(b)
  <2>1. bridge[b].pc = "off" /\ bridge[b].known = 0 /\ bridge[b].call = 0
    BY DEF Init
  <2> QED BY <2>1 DEF BridgeInv, Syncing, Started
<1>3. instance = 1 /\ ~Active /\ lasted = 0
  BY DEF Init, Active, Leased, None
<1>4. IdleInv
  BY <1>3, Durations DEF IdleInv
<1> QED BY <1>1, <1>2, <1>4 DEF LifeInv

\* And every step preserves it.
LEMMA LifeNextInv == LifeInv /\ [Next]_vars => LifeInv'
<1> SUFFICES ASSUME LifeInv, [Next]_vars PROVE LifeInv'
  OBVIOUS
<1>0. TypeOK /\ IdleInv /\ \A b \in Bridges : BridgeInv(b)
  BY DEF LifeInv
<1>1. CASE Tick
  BY <1>0, <1>1, TickTyped, TickBridges, IdleTick DEF LifeInv
<1>2. CASE ServerStep
  BY <1>0, <1>2, ServerStepTyped, ServerStepBridges, IdleServerStep DEF LifeInv
<1>3. ASSUME NEW b \in Bridges, BridgeStep(b) PROVE LifeInv'
  BY <1>0, <1>3, BridgeStepTyped, ThisBridge, OtherBridges, IdleBridgeStep DEF LifeInv
<1>4. CASE UNCHANGED vars
  <2>1. TypeOK'
    BY <1>0, <1>4 DEF vars, TypeOK
  <2>2. \A b \in Bridges : BridgeInv(b)'
    BY <1>0, <1>4 DEF vars, BridgeInv, Believes, Syncing
  <2>3. IdleInv'
    BY <1>0, <1>4 DEF vars, IdleInv, Active, Leased
  <2> QED BY <2>1, <2>2, <2>3 DEF LifeInv
<1> QED BY <1>1, <1>2, <1>3, <1>4 DEF Next

\* The typing, the bridges' leases and the idle reaper's accounts hold in every
\* reachable state.
THEOREM LifeInvariance == Spec => []LifeInv
BY LifeInitInv, LifeNextInv, PTL DEF Spec

\* Servers, leases, reapers and bridges keep their types.
THEOREM LifeTypeCorrect == Spec => []TypeOK
<1>1. LifeInv => TypeOK
  BY DEF LifeInv
<1> QED BY <1>1, LifeInvariance, PTL

\* A lease that outlasts the next heartbeat has not expired.
LEMMA BeatenLives == LifeInv => BeatenLeaseLives
<1> SUFFICES ASSUME LifeInv, NEW b \in Bridges, bridge[b].pc # "dead", Believes(b)
             PROVE  held[b] > 0
  BY DEF BeatenLeaseLives, Believes
<1>1. BridgeInv(b) /\ bridge[b] \in BridgeState /\ held[b] \in Nat
  BY DEF LifeInv, TypeOK
<1>2. bridge[b].pc \in {"asleep", "refused", "ensuring", "syncing"}
  BY <1>1, Durations DEF BridgeInv, Started, Believes
<1> QED BY <1>1, <1>2, Durations DEF BridgeInv, BridgeState

\* Through crashes, restarts, lost requests and failed ensures, a bridge whose
\* heartbeat task runs and that believes it holds a lease on the running server
\* holds one that has not expired.
THEOREM HeartbeatKeepsLease == Spec => []BeatenLeaseLives
BY BeatenLives, LifeInvariance, PTL

\* Where no lease is left, no such bridge is.
LEMMA IdleIsSpared ==
  ASSUME TypeOK, BeatenLeaseLives, ~Active, instance # 0
  PROVE Spared
<1>1. \A b \in Bridges : held[b] = 0
  BY DEF Active, Leased, TypeOK
<1> QED BY <1>1 DEF Spared, BeatenLeaseLives, Active

\* Neither reaper ends the server under an editor or a bridge that beats, and the
\* idle reaper leaves its grace after a presence that outlasted a poll.
THEOREM ReapersSpareUsers == Spec => ReaperSparesUsers
<1>1. LifeInv /\ [Next]_vars =>
         [/\ OwnerConfirms \/ IdleExits => instance' # 0 \/ Spared
          /\ IdleExits /\ lasted > Poll => quiet >= IdleGrace - Poll]_vars
  <2> SUFFICES ASSUME LifeInv
               PROVE  /\ OwnerConfirms \/ IdleExits => instance' # 0 \/ Spared
                      /\ IdleExits /\ lasted > Poll => quiet >= IdleGrace - Poll
    OBVIOUS
  <2>0. TypeOK /\ BeatenLeaseLives /\ IdleInv
    BY BeatenLives DEF LifeInv
  <2>1. ASSUME OwnerConfirms, instance' = 0 PROVE Spared
    <3>1. instance # 0 /\ ~Active
      BY <2>1 DEF OwnerConfirms, OwnerDue, OwnerNext, Orphaned
    <3> QED BY <2>0, <3>1, IdleIsSpared
  <2>2. ASSUME IdleExits PROVE Spared
    <3>1. instance # 0 /\ ~Active
      BY <2>2 DEF IdleExits, IdleDue
    <3> QED BY <2>0, <3>1, IdleIsSpared
  <2>3. ASSUME IdleExits, lasted > Poll PROVE quiet >= IdleGrace - Poll
    <3>1. instance # 0 /\ ~Active /\ reaper.idleFor >= Grace
      BY <2>3 DEF IdleExits, IdleDue
    <3>2. reaper.ever /\ reaper.idleFor <= Poll + quiet
      BY <2>0, <2>3, <3>1, Counters DEF IdleInv
    <3>3. Grace = IdleGrace
      BY <3>2 DEF Grace
    <3> QED BY <2>0, <3>1, <3>2, <3>3, Counters, Durations
  <2> QED BY <2>1, <2>2, <2>3
<1> QED BY <1>1, LifeInvariance, PTL DEF Spec, ReaperSparesUsers
=============================================================================
