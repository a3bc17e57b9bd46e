---------------------------- MODULE SessionProofs ----------------------------
(***************************************************************************)
(* Proofs about the editor sessions: about SessionRegistry, for any number *)
(* of editors, connections, requests and waiters and any limits; and about *)
(* ToolSurface, what the sessions' custom tools are offered as, for any    *)
(* editors, clients, names, snapshots and cap.                             *)
(***************************************************************************)
EXTENDS SessionRegistry, ToolSurface, FiniteSetTheorems, SequenceTheorems, TLAPS

\* The inductive invariant: the run's invariants are its conjuncts, and each
\* needs the others.
IInv ==
  /\ TypeOK
  /\ EntryOwnership
  /\ NoLeakedRequest
  /\ NoOrphanedCall
  /\ PendingBudget
  /\ ActiveIsRoutable
  /\ NoLostWakeup

USE ConstantsAssumption, LimitsAssumption

-----------------------------------------------------------------------------
(* Facts about the helpers.                                                *)

\* The default value of the readiness field is a readiness.
LEMMA AnyReadinessType == AnyReadiness \in Readiness
  BY DEF AnyReadiness

\* After a removal the default route is none, or a session that stays listed.
LEMMA ActiveAfterRemovingStays ==
  ASSUME NEW s \in SessionIds, TypeOK, ActiveIsRoutable
  PROVE  ActiveAfterRemoving(s) \in (Listed \ {s}) \cup {NoSession}
  BY DEF ActiveAfterRemoving, Listed, ActiveIsRoutable, TypeOK

\* A set of requests, and what an editor holds, is finite.
LEMMA PendingFinite ==
  ASSUME TypeOK
  PROVE  /\ IsFiniteSet(OpenRequests)
         /\ \A s \in SessionIds : IsFiniteSet(pending[s])
  <1>1. OpenRequests \subseteq Requests /\ \A s \in SessionIds : pending[s] \subseteq Requests
    BY DEF OpenRequests, TypeOK
  <1>2. QED
    BY <1>1, FS_Subset

-----------------------------------------------------------------------------
(* Type correctness.                                                       *)

\* The initial state satisfies every conjunct of the invariant.
LEMMA InitInvariant == Init => IInv
  <1> SUFFICES ASSUME Init PROVE IInv
    OBVIOUS
  <1>1. TypeOK
    BY AnyReadinessType DEF Init, TypeOK, Phase, Handling, Call, Future, Waiter
  <1>2. OpenRequests = {}
    BY DEF OpenRequests, Init
  <1>3. PendingBudget
    BY <1>2, FS_EmptySet DEF Init, PendingBudget
  <1>4. EntryOwnership /\ NoLeakedRequest /\ NoOrphanedCall /\ ActiveIsRoutable /\ NoLostWakeup
    BY DEF Init, EntryOwnership, NoLeakedRequest, NoOrphanedCall, ActiveIsRoutable,
           NoLostWakeup, Running
  <1>5. QED
    BY <1>1, <1>3, <1>4 DEF IInv

-----------------------------------------------------------------------------
(* One lemma per action.                                                   *)

\* Actions that touch neither requests nor waiters keep the conjuncts on them.
LEMMA HandshakeSteps ==
  ASSUME IInv, NEW p \in Peers,
         \/ HandshakeFails(p)
         \/ \E s \in SessionIds, rd \in Readiness : Reserve(p, s, rd)
         \/ \E s \in SessionIds : RejectDuplicate(p, s)
  PROVE  IInv'
  <1> USE DEF IInv
  <1>1. CASE HandshakeFails(p)
    <2>1. TypeOK'
      BY <1>1 DEF HandshakeFails, TypeOK, Handling, tableVars, workVars, callVars, waiterVars
    <2>2. EntryOwnership'
      BY <1>1 DEF HandshakeFails, EntryOwnership, TypeOK, Handling, tableVars, workVars, callVars, waiterVars
    <2>3. NoLeakedRequest' /\ NoOrphanedCall' /\ ActiveIsRoutable'
      BY <1>1 DEF HandshakeFails, NoLeakedRequest, NoOrphanedCall, ActiveIsRoutable,
                  TypeOK, tableVars, workVars, callVars, waiterVars
    <2>4. PendingBudget' /\ NoLostWakeup'
      BY <1>1 DEF HandshakeFails, PendingBudget, NoLostWakeup, OpenRequests, Listed, Matches,
                  tableVars, workVars, callVars, waiterVars
    <2>5. QED
      BY <2>1, <2>2, <2>3, <2>4
  <1>2. ASSUME NEW s \in SessionIds, NEW rd \in Readiness, Reserve(p, s, rd)
        PROVE  IInv'
    <2>1. TypeOK'
      BY <1>2 DEF Reserve, TypeOK, Phase, Handling, tableVars, workVars, callVars, waiterVars
    <2>2. EntryOwnership'
      BY <1>2 DEF Reserve, EntryOwnership, TypeOK, Handling, tableVars, workVars, callVars, waiterVars
    <2>3. NoLeakedRequest' /\ NoOrphanedCall' /\ ActiveIsRoutable'
      BY <1>2 DEF Reserve, EntryOwnership, NoLeakedRequest, NoOrphanedCall, ActiveIsRoutable,
                  TypeOK, Running, tableVars, workVars, callVars, waiterVars
    <2>4. PendingBudget' /\ NoLostWakeup'
      BY <1>2 DEF Reserve, PendingBudget, NoLostWakeup, OpenRequests, Listed, Matches, TypeOK,
                  tableVars, workVars, callVars, waiterVars
    <2>5. QED
      BY <2>1, <2>2, <2>3, <2>4
  <1>3. ASSUME NEW s \in SessionIds, RejectDuplicate(p, s)
        PROVE  IInv'
    <2>1. TypeOK'
      BY <1>3 DEF RejectDuplicate, TypeOK, Phase, Handling, tableVars, workVars, callVars, waiterVars
    <2>2. EntryOwnership'
      BY <1>3 DEF RejectDuplicate, EntryOwnership, TypeOK, Handling, tableVars, workVars, callVars, waiterVars
    <2>3. NoLeakedRequest' /\ NoOrphanedCall' /\ ActiveIsRoutable'
      BY <1>3 DEF RejectDuplicate, EntryOwnership, NoLeakedRequest, NoOrphanedCall, ActiveIsRoutable,
                  TypeOK, Running, tableVars, workVars, callVars, waiterVars
    <2>4. PendingBudget' /\ NoLostWakeup'
      BY <1>3 DEF RejectDuplicate, PendingBudget, NoLostWakeup, OpenRequests, Listed, Matches, TypeOK,
                  tableVars, workVars, callVars, waiterVars
    <2>5. QED
      BY <2>1, <2>2, <2>3, <2>4
  <1>4. QED
    BY <1>1, <1>2, <1>3

\* Publishing wakes exactly the waiters the new session matches.
LEMMA PublishStep ==
  ASSUME IInv, NEW p \in Peers, Publish(p)
  PROVE  IInv'
  <1> USE DEF IInv
  <1> DEFINE s == claimed[p]
  <1>0. s \in SessionIds /\ handler[p] = "acking" /\ phase[s] = "pending" /\ owner[s] = p
    BY DEF Publish, EntryOwnership
  <1>1. TypeOK'
    BY <1>0 DEF Publish, OnPublished, TypeOK, Phase, Handling, Waiter, workVars, callVars
  <1>2. EntryOwnership'
    BY <1>0 DEF Publish, OnPublished, EntryOwnership, TypeOK, Handling, workVars, callVars
  <1>3. NoLeakedRequest' /\ NoOrphanedCall' /\ ActiveIsRoutable'
    BY <1>0 DEF Publish, OnPublished, EntryOwnership, NoLeakedRequest, NoOrphanedCall,
                ActiveIsRoutable, TypeOK, workVars, callVars
  <1>4. PendingBudget'
    BY DEF Publish, OnPublished, PendingBudget, OpenRequests, workVars
  <1>5. Listed' = Listed \cup {s}
    BY <1>0 DEF Publish, Listed, TypeOK
  <1>6. NoLostWakeup'
    BY <1>0, <1>5 DEF Publish, OnPublished, NoLostWakeup, Matches, TypeOK
  <1>7. QED
    BY <1>1, <1>2, <1>3, <1>4, <1>6

\* A leaving handler takes away its own entry, or none.
LEMMA HandlerEndsStep ==
  ASSUME IInv, NEW p \in Peers, HandlerEnds(p)
  PROVE  IInv'
  <1> USE DEF IInv
  <1> DEFINE s == claimed[p]
  <1>0. s \in SessionIds
    BY DEF HandlerEnds, EntryOwnership
  <1>1. CASE phase[s] # "absent" /\ owner[s] = p
    <2>1. /\ phase' = [phase EXCEPT ![s] = "absent"]
          /\ owner' = [owner EXCEPT ![s] = NoPeer]
          /\ readiness' = [readiness EXCEPT ![s] = AnyReadiness]
          /\ pending' = [pending EXCEPT ![s] = {}]
          /\ pendingCount' = pendingCount - Cardinality(pending[s])
          /\ future' = [r \in Requests |->
                          IF r \in pending[s] /\ future[r] = "waiting" THEN "failed" ELSE future[r]]
          /\ activeId' = IF phase[s] = "active" THEN ActiveAfterRemoving(s) ELSE activeId
          /\ handler' = [handler EXCEPT ![p] = "closed"]
          /\ claimed' = [claimed EXCEPT ![p] = NoSession]
          /\ UNCHANGED <<call, target, route, waiter, accepts, found>>
      BY <1>1 DEF HandlerEnds, RemoveConnection, callVars, waiterVars
    <2>2. pending[s] \subseteq OpenRequests /\ OpenRequests' = OpenRequests \ pending[s]
      <3>1. \A t \in SessionIds : t # s => pending[t] \cap pending[s] = {}
        BY <1>0 DEF NoLeakedRequest
      <3>2. QED
        BY <1>0, <2>1, <3>1 DEF OpenRequests, TypeOK
    <2>3. /\ Cardinality(OpenRequests') = Cardinality(OpenRequests) - Cardinality(pending[s])
          /\ Cardinality(OpenRequests') \in Nat /\ Cardinality(pending[s]) \in Nat
          /\ Cardinality(OpenRequests) \in Nat
      <3>1. IsFiniteSet(OpenRequests) /\ IsFiniteSet(pending[s]) /\ IsFiniteSet(OpenRequests')
        BY <1>0, <2>2, PendingFinite, FS_Subset
      <3>2. OpenRequests \cap pending[s] = pending[s]
        BY <2>2
      <3>3. QED
        BY <2>2, <3>1, <3>2, FS_Difference, FS_CardinalityType
    <2>4. TypeOK'
      <3>1. activeId' \in SessionIds \cup {NoSession}
        BY <1>0, <2>1, ActiveAfterRemovingStays DEF Listed, TypeOK
      <3>2. pendingCount' \in Nat
        BY <2>1, <2>3 DEF PendingBudget
      <3>3. QED
        BY <1>0, <2>1, <3>1, <3>2, AnyReadinessType DEF TypeOK, Phase, Handling, Future
    <2>5. EntryOwnership'
      BY <1>0, <1>1, <2>1 DEF EntryOwnership, TypeOK, Handling
    <2>6. NoLeakedRequest'
      BY <1>0, <2>1 DEF NoLeakedRequest, TypeOK
    <2>7. NoOrphanedCall'
      <3> SUFFICES ASSUME NEW r \in Requests
                   PROVE  /\ call[r] \in Running => target[r] \in SessionIds /\ route[r] \in Peers
                          /\ future'[r] = "waiting" => /\ call[r] \in Running
                                                       /\ r \in pending'[target[r]]
                                                       /\ handler'[route[r]] = "serving"
        BY <2>1 DEF NoOrphanedCall
      <3>1. call[r] \in Running => target[r] \in SessionIds /\ route[r] \in Peers
        BY DEF NoOrphanedCall
      <3>2. CASE future'[r] = "waiting"
        <4>1. future[r] = "waiting" /\ r \notin pending[s]
          BY <2>1, <3>2 DEF TypeOK
        <4>2. /\ call[r] \in Running /\ r \in pending[target[r]] /\ handler[route[r]] = "serving"
              /\ target[r] # s /\ target[r] \in SessionIds /\ route[r] \in Peers
          BY <4>1 DEF NoOrphanedCall
        <4>3. route[r] # p
          <5>1. phase[target[r]] = "active" /\ route[r] = owner[target[r]]
            BY <4>2 DEF NoLeakedRequest, EntryOwnership, TypeOK, Phase
          <5>2. claimed[route[r]] = target[r]
            BY <4>2, <5>1 DEF EntryOwnership
          <5>3. QED
            BY <4>2, <5>2
        <4>4. QED
          BY <1>0, <2>1, <4>2, <4>3 DEF TypeOK
      <3>3. QED
        BY <3>1, <3>2
    <2>8. PendingBudget'
      <3>1. pendingCount' = Cardinality(OpenRequests') /\ pendingCount' <= MaxPendingTotal
        BY <2>1, <2>3 DEF PendingBudget, TypeOK
      <3>2. \A t \in SessionIds : Cardinality(pending'[t]) <= MaxPendingPerPeer
        BY <1>0, <2>1, FS_EmptySet DEF PendingBudget, TypeOK
      <3>3. QED
        BY <3>1, <3>2 DEF PendingBudget
    <2>9. ActiveIsRoutable'
      BY <1>0, <1>1, <2>1, ActiveAfterRemovingStays DEF Listed, ActiveIsRoutable, TypeOK
    <2>10. NoLostWakeup'
      <3>1. Listed' \subseteq Listed
        BY <1>0, <2>1 DEF Listed, TypeOK
      <3>2. QED
        BY <2>1, <3>1 DEF NoLostWakeup, Matches
    <2>11. QED
      BY <2>4, <2>5, <2>6, <2>7, <2>8, <2>9, <2>10
  <1>2. CASE ~(phase[s] # "absent" /\ owner[s] = p)
    <2>1. /\ handler' = [handler EXCEPT ![p] = "closed"]
          /\ claimed' = [claimed EXCEPT ![p] = NoSession]
          /\ UNCHANGED <<tableVars, workVars, activeId, callVars, waiterVars>>
      BY <1>2 DEF HandlerEnds, RemoveConnection
    <2>2. handler[p] = "rejected"
      BY <1>2 DEF HandlerEnds, EntryOwnership
    <2>3. TypeOK'
      BY <2>1 DEF TypeOK, Handling, tableVars, workVars, callVars, waiterVars
    <2>4. EntryOwnership'
      BY <2>1, <2>2 DEF EntryOwnership, TypeOK, tableVars, workVars, callVars, waiterVars
    <2>5. NoLeakedRequest' /\ NoOrphanedCall' /\ ActiveIsRoutable'
      BY <2>1, <2>2 DEF NoLeakedRequest, NoOrphanedCall, ActiveIsRoutable, TypeOK, Running,
                        tableVars, workVars, callVars, waiterVars
    <2>6. PendingBudget' /\ NoLostWakeup'
      BY <2>1 DEF PendingBudget, OpenRequests, NoLostWakeup, Matches, Listed,
                  tableVars, workVars, callVars, waiterVars
    <2>7. QED
      BY <2>3, <2>4, <2>5, <2>6
  <1>3. QED
    BY <1>1, <1>2

\* Dropping a held request r from the table of s, as claims and cancels do.
LEMMA PopKeepsBudget ==
  ASSUME TypeOK, NoLeakedRequest, PendingBudget,
         NEW s \in SessionIds, NEW r \in pending[s], PopRequest(s, r)
  PROVE  /\ pendingCount' \in Nat
         /\ pending' \in [SessionIds -> SUBSET Requests]
         /\ PendingBudget'
  <1>1. pending' = [pending EXCEPT ![s] = @ \ {r}] /\ pendingCount' = pendingCount - 1
    BY DEF PopRequest
  <1>2. r \in OpenRequests /\ OpenRequests' = OpenRequests \ {r}
    <2>1. \A t \in SessionIds : t # s => r \notin pending[t]
      BY DEF NoLeakedRequest
    <2>2. QED
      BY <1>1, <2>1 DEF OpenRequests, TypeOK
  <1>3. Cardinality(OpenRequests') = Cardinality(OpenRequests) - 1 /\ Cardinality(OpenRequests') \in Nat
    <2>1. IsFiniteSet(OpenRequests) /\ IsFiniteSet(OpenRequests')
      BY <1>2, PendingFinite, FS_RemoveElement
    <2>2. QED
      BY <1>2, <2>1, FS_RemoveElement, FS_CardinalityType
  <1>4. \A t \in SessionIds : Cardinality(pending'[t]) <= MaxPendingPerPeer
    <2> SUFFICES ASSUME NEW t \in SessionIds PROVE Cardinality(pending'[t]) <= MaxPendingPerPeer
      OBVIOUS
    <2>1. CASE t # s
      BY <1>1, <2>1 DEF PendingBudget, TypeOK
    <2>2. CASE t = s
      <3>1. pending'[s] = pending[s] \ {r} /\ IsFiniteSet(pending[s])
        BY <1>1, PendingFinite DEF TypeOK
      <3>2. Cardinality(pending'[s]) = Cardinality(pending[s]) - 1 /\ Cardinality(pending[s]) \in Nat
        BY <3>1, FS_RemoveElement, FS_CardinalityType
      <3>3. Cardinality(pending[s]) <= MaxPendingPerPeer
        BY DEF PendingBudget
      <3>4. QED
        BY <2>2, <3>2, <3>3
    <2>3. QED
      BY <2>1, <2>2
  <1>5. pendingCount' = Cardinality(OpenRequests') /\ pendingCount' <= MaxPendingTotal
    BY <1>1, <1>3 DEF PendingBudget, TypeOK
  <1>6. pending' \in [SessionIds -> SUBSET Requests]
    BY <1>1 DEF TypeOK
  <1>7. QED
    BY <1>3, <1>4, <1>5, <1>6 DEF PendingBudget

\* A reply settles only a request its own connection holds.
LEMMA FrameSteps ==
  ASSUME IInv, NEW p \in Peers,
         \/ \E r \in Requests, rd \in Readiness : ResponseFrame(p, r, rd)
         \/ \E r \in Requests : MalformedFrame(p, r)
         \/ \E rd \in Readiness : ReadinessEvent(p, rd)
  PROVE  IInv'
  <1> USE DEF IInv
  <1> DEFINE s == claimed[p]
  <1>0. handler[p] = "serving" /\ s \in SessionIds /\ phase[s] = "active" /\ owner[s] = p
    BY DEF ResponseFrame, MalformedFrame, ReadinessEvent, EntryOwnership
  <1>1. ASSUME NEW r \in Requests,
               (\E rd \in Readiness : ResponseFrame(p, r, rd)) \/ MalformedFrame(p, r)
        PROVE  IInv'
    <2>1. /\ r \in pending[s] /\ PopRequest(s, r)
          /\ pending' = [pending EXCEPT ![s] = @ \ {r}]
          /\ readiness' \in [SessionIds -> Readiness]
          /\ \/ future' = [future EXCEPT ![r] = "result"]
             \/ future' = [future EXCEPT ![r] = "malformed"]
             \/ future' = future /\ future[r] # "waiting"
          /\ UNCHANGED <<phase, owner, activeId, handler, claimed, call, target, route,
                         waiter, accepts, found>>
      BY <1>0, <1>1 DEF ResponseFrame, MalformedFrame, PopRequest, TypeOK,
                        tableVars, callVars, waiterVars
    <2>2. pendingCount' \in Nat /\ pending' \in [SessionIds -> SUBSET Requests] /\ PendingBudget'
      BY <1>0, <2>1, PopKeepsBudget
    <2>3. TypeOK'
      BY <2>1, <2>2 DEF TypeOK, Future
    <2>4. EntryOwnership'
      BY <1>0, <2>1 DEF EntryOwnership, TypeOK
    <2>5. NoLeakedRequest'
      BY <1>0, <2>1 DEF NoLeakedRequest, TypeOK
    <2>6. NoOrphanedCall'
      <3> SUFFICES ASSUME NEW q \in Requests, future'[q] = "waiting"
                   PROVE  q \in pending'[target[q]]
        <4>1. call[r] \in Running
          BY <1>0, <2>1 DEF NoLeakedRequest
        <4>2. \A q \in Requests : future'[q] # "none" => call[q] \in Running
          BY <2>1, <4>1 DEF NoOrphanedCall, TypeOK
        <4>3. \A q \in Requests : future'[q] = "waiting" => future[q] = "waiting"
          BY <2>1 DEF TypeOK
        <4>4. QED
          BY <2>1, <4>2, <4>3 DEF NoOrphanedCall
      <3>1. q # r /\ future[q] = "waiting"
        BY <2>1 DEF TypeOK
      <3>2. q \in pending[target[q]] /\ target[q] \in SessionIds
        BY <3>1 DEF NoOrphanedCall
      <3>3. QED
        BY <1>0, <2>1, <3>1, <3>2 DEF TypeOK
    <2>7. ActiveIsRoutable' /\ NoLostWakeup'
      BY <2>1 DEF ActiveIsRoutable, NoLostWakeup, Matches, Listed
    <2>8. QED
      BY <2>2, <2>3, <2>4, <2>5, <2>6, <2>7
  <1>2. ASSUME NEW rd \in Readiness, ReadinessEvent(p, rd)
        PROVE  IInv'
    <2>1. TypeOK'
      BY <1>0, <1>2 DEF ReadinessEvent, TypeOK, workVars, callVars, waiterVars
    <2>2. EntryOwnership' /\ NoLeakedRequest' /\ NoOrphanedCall' /\ ActiveIsRoutable'
      BY <1>2 DEF ReadinessEvent, EntryOwnership, NoLeakedRequest, NoOrphanedCall,
                  ActiveIsRoutable, workVars, callVars, waiterVars
    <2>3. PendingBudget' /\ NoLostWakeup'
      BY <1>2 DEF ReadinessEvent, PendingBudget, OpenRequests, NoLostWakeup, Matches, Listed,
                  workVars, callVars, waiterVars
    <2>4. QED
      BY <2>1, <2>2, <2>3
  <1>3. QED
    BY <1>1, <1>2

\* open_request takes one slot of both budgets.
LEMMA OpenRequestStep ==
  ASSUME IInv, NEW r \in Requests, NEW s \in SessionIds, OpenRequest(r, s)
  PROVE  IInv'
  <1> USE DEF IInv
  <1>0. owner[s] \in Peers /\ handler[owner[s]] = "serving" /\ phase[s] = "active"
    BY DEF OpenRequest, EntryOwnership
  <1>1. \A t \in SessionIds : r \notin pending[t]
    BY DEF OpenRequest, NoLeakedRequest, Running
  <1>2. OpenRequests' = OpenRequests \cup {r} /\ r \notin OpenRequests
    BY <1>1 DEF OpenRequest, OpenRequests, TypeOK
  <1>3. TypeOK'
    BY <1>0 DEF OpenRequest, TypeOK, Call, Future, tableVars, waiterVars
  <1>4. EntryOwnership'
    BY DEF OpenRequest, EntryOwnership, TypeOK, tableVars, waiterVars
  <1>5. NoLeakedRequest'
    BY <1>0 DEF OpenRequest, NoLeakedRequest, TypeOK, Running, tableVars, waiterVars
  <1>6. NoOrphanedCall'
    BY <1>0 DEF OpenRequest, NoOrphanedCall, TypeOK, Running, tableVars, waiterVars
  <1>7. ActiveIsRoutable' /\ NoLostWakeup'
    BY DEF OpenRequest, ActiveIsRoutable, NoLostWakeup, Matches, Listed, tableVars, waiterVars
  <1>8. PendingBudget'
    <2>1. Cardinality(OpenRequests') = Cardinality(OpenRequests) + 1
      BY <1>2, PendingFinite, FS_AddElement
    <2>2. pendingCount' = Cardinality(OpenRequests') /\ pendingCount' <= MaxPendingTotal
      BY <2>1 DEF OpenRequest, PendingBudget, TypeOK
    <2>3. Cardinality(pending'[s]) <= MaxPendingPerPeer
      <3>1. pending'[s] = pending[s] \cup {r} /\ r \notin pending[s] /\ IsFiniteSet(pending[s])
        BY <1>1, PendingFinite DEF OpenRequest, TypeOK
      <3>2. Cardinality(pending'[s]) = Cardinality(pending[s]) + 1 /\ Cardinality(pending[s]) \in Nat
        BY <3>1, FS_AddElement, FS_CardinalityType
      <3>3. Cardinality(pending[s]) < MaxPendingPerPeer
        BY DEF OpenRequest
      <3>4. QED
        BY <3>2, <3>3
    <2>4. \A t \in SessionIds \ {s} : Cardinality(pending'[t]) <= MaxPendingPerPeer
      BY DEF OpenRequest, PendingBudget, TypeOK
    <2>5. QED
      BY <2>2, <2>3, <2>4 DEF PendingBudget
  <1>9. QED
    BY <1>3, <1>4, <1>5, <1>6, <1>7, <1>8

\* A command that ends drops what it still holds, and nothing else.
LEMMA CallEndsStep ==
  ASSUME IInv, NEW r \in Requests, call[r] \in Running, CallEnds(r)
  PROVE  IInv'
  <1> USE DEF IInv
  <1> DEFINE s == target[r]
  <1>0. s \in SessionIds /\ route[r] \in Peers
    BY DEF NoOrphanedCall
  <1>1. /\ call' = [call EXCEPT ![r] = "done"]
        /\ target' = [target EXCEPT ![r] = NoSession]
        /\ route' = [route EXCEPT ![r] = NoPeer]
        /\ future' = [future EXCEPT ![r] = "none"]
        /\ UNCHANGED <<phase, owner, readiness, activeId, handler, claimed, waiter, accepts, found>>
    BY DEF CallEnds, tableVars, waiterVars
  <1>2. /\ pendingCount' \in Nat /\ pending' \in [SessionIds -> SUBSET Requests] /\ PendingBudget'
        /\ \A t \in SessionIds : pending'[t] = pending[t] \ {r}
    <2>1. CASE Owns(route[r], s) /\ r \in pending[s]
      <3>1. PopRequest(s, r)
        BY <2>1 DEF CallEnds
      <3>2. \A t \in SessionIds : t # s => r \notin pending[t]
        BY <2>1 DEF NoLeakedRequest
      <3>3. PendingBudget' /\ pendingCount' \in Nat
        BY <1>0, <2>1, <3>1, PopKeepsBudget
      <3>4. pending' = [pending EXCEPT ![s] = @ \ {r}]
        BY <3>1 DEF PopRequest
      <3>5. QED
        BY <1>0, <3>2, <3>3, <3>4 DEF TypeOK
    <2>2. CASE ~(Owns(route[r], s) /\ r \in pending[s])
      <3>1. \A t \in SessionIds : r \notin pending[t]
        BY <1>0, <2>2 DEF NoLeakedRequest, EntryOwnership, TypeOK, Phase, Owns
      <3>2. UNCHANGED <<pending, pendingCount>>
        BY <2>2 DEF CallEnds
      <3>3. QED
        BY <3>1, <3>2 DEF TypeOK, PendingBudget, OpenRequests
    <2>3. QED
      BY <2>1, <2>2
  <1>3. TypeOK'
    BY <1>1, <1>2 DEF TypeOK, Call, Future
  <1>4. EntryOwnership'
    BY <1>1, <1>2 DEF EntryOwnership
  <1>5. NoLeakedRequest'
    BY <1>1, <1>2 DEF NoLeakedRequest, TypeOK
  <1>6. NoOrphanedCall'
    BY <1>1, <1>2 DEF NoOrphanedCall, TypeOK, Running
  <1>7. ActiveIsRoutable' /\ NoLostWakeup'
    BY <1>1 DEF ActiveIsRoutable, NoLostWakeup, Matches, Listed
  <1>8. QED
    BY <1>2, <1>3, <1>4, <1>5, <1>6, <1>7

\* The remaining steps of a command.
LEMMA CallSteps ==
  ASSUME IInv, NEW r \in Requests,
         Sent(r) \/ SendFails(r) \/ CallReturns(r) \/ DeadlineFires(r) \/ Unwind(r)
  PROVE  IInv'
  <1> USE DEF IInv
  <1>1. CASE SendFails(r) \/ CallReturns(r) \/ Unwind(r)
    BY <1>1, CallEndsStep DEF SendFails, CallReturns, Unwind, Running
  <1>2. CASE Sent(r) \/ DeadlineFires(r)
    <2>1. /\ call[r] \in Running /\ \E c \in Running : call' = [call EXCEPT ![r] = c]
          /\ future' = future \/ (future' = [future EXCEPT ![r] = "cancelled"])
          /\ UNCHANGED <<phase, owner, readiness, pending, pendingCount, activeId, handler,
                         claimed, target, route, waiter, accepts, found>>
      BY <1>2 DEF Sent, DeadlineFires, Running, tableVars, workVars, waiterVars
    <2>2. TypeOK'
      BY <2>1 DEF TypeOK, Call, Future, Running
    <2>3. EntryOwnership' /\ ActiveIsRoutable'
      BY <2>1 DEF EntryOwnership, ActiveIsRoutable
    <2>4. NoLeakedRequest'
      BY <2>1 DEF NoLeakedRequest, TypeOK
    <2>5. NoOrphanedCall'
      BY <2>1 DEF NoOrphanedCall, TypeOK
    <2>6. PendingBudget' /\ NoLostWakeup'
      BY <2>1 DEF PendingBudget, OpenRequests, NoLostWakeup, Matches, Listed
    <2>7. QED
      BY <2>2, <2>3, <2>4, <2>5, <2>6
  <1>3. QED
    BY <1>1, <1>2

\* The steps of a waiter.
LEMMA WaiterSteps ==
  ASSUME IInv, NEW w \in Waiters,
         \/ \E ids \in SUBSET SessionIds : WaitForSession(w, ids)
         \/ WaiterReturns(w) \/ WaiterDeadline(w) \/ WaiterExpires(w)
  PROVE  IInv'
  <1> USE DEF IInv
  <1>1. UNCHANGED <<tableVars, workVars, activeId, handler, claimed, callVars>>
    BY DEF WaitForSession, WaiterReturns, WaiterDeadline, WaiterExpires, WaiterEnds
  <1>2. TypeOK'
    BY <1>1 DEF WaitForSession, WaiterReturns, WaiterDeadline, WaiterExpires, WaiterEnds,
                TypeOK, Waiter, tableVars, workVars, callVars
  <1>3. EntryOwnership' /\ NoLeakedRequest' /\ NoOrphanedCall' /\ ActiveIsRoutable' /\ PendingBudget'
    BY <1>1 DEF EntryOwnership, NoLeakedRequest, NoOrphanedCall, ActiveIsRoutable, PendingBudget,
                OpenRequests, tableVars, workVars, callVars
  <1>4. NoLostWakeup'
    <2>1. Listed' = Listed
      BY <1>1 DEF Listed, tableVars
    <2>2. CASE \E ids \in SUBSET SessionIds : WaitForSession(w, ids)
      <3>1. PICK ids \in SUBSET SessionIds : WaitForSession(w, ids)
        BY <2>2
      <3>2. /\ waiter' = [waiter EXCEPT ![w] = "waiting"] /\ accepts' = [accepts EXCEPT ![w] = ids]
            /\ found' = found /\ waiter[w] = "idle" /\ Listed \cap ids = {}
        BY <3>1 DEF WaitForSession
      <3>3. Listed \subseteq SessionIds /\ (\A s \in Listed : s \notin ids)
        BY <3>2 DEF Listed
      <3>4. found[w] = NoSession
        BY <3>2 DEF NoLostWakeup
      <3>5. QED
        BY <2>1, <3>2, <3>3, <3>4 DEF NoLostWakeup, Matches, TypeOK
    <2>3. CASE WaiterReturns(w) \/ WaiterExpires(w)
      BY <2>1, <2>3 DEF WaiterReturns, WaiterExpires, WaiterEnds, NoLostWakeup, Matches, TypeOK
    <2>4. CASE WaiterDeadline(w)
      BY <2>1, <2>4 DEF WaiterDeadline, NoLostWakeup, Matches, TypeOK
    <2>5. QED
      BY <2>2, <2>3, <2>4
  <1>5. QED
    BY <1>2, <1>3, <1>4

\* session_activate.
LEMMA SetActiveStep ==
  ASSUME IInv, NEW s \in SessionIds, SetActive(s)
  PROVE  IInv'
  <1> USE DEF IInv
  <1>1. TypeOK' /\ ActiveIsRoutable'
    BY DEF SetActive, TypeOK, ActiveIsRoutable, tableVars, workVars, callVars, waiterVars
  <1>2. EntryOwnership' /\ NoLeakedRequest' /\ NoOrphanedCall'
    BY DEF SetActive, EntryOwnership, NoLeakedRequest, NoOrphanedCall,
           tableVars, workVars, callVars, waiterVars
  <1>3. PendingBudget' /\ NoLostWakeup'
    BY DEF SetActive, PendingBudget, OpenRequests, NoLostWakeup, Matches, Listed,
           tableVars, workVars, callVars, waiterVars
  <1>4. QED
    BY <1>1, <1>2, <1>3

-----------------------------------------------------------------------------
(* The theorems.                                                           *)

\* The invariant is inductive.
LEMMA NextInvariant == IInv /\ [Next]_vars => IInv'
  <1> SUFFICES ASSUME IInv, [Next]_vars PROVE IInv'
    OBVIOUS
  <1>1. CASE ConnectionStep
    BY <1>1, HandshakeSteps, PublishStep, HandlerEndsStep, FrameSteps DEF ConnectionStep
  <1>2. CASE CallStep
    BY <1>2, OpenRequestStep, CallSteps DEF CallStep
  <1>3. CASE WaiterStep
    BY <1>3, WaiterSteps DEF WaiterStep
  <1>4. CASE \E s \in SessionIds : SetActive(s)
    BY <1>4, SetActiveStep
  <1>5. CASE UNCHANGED vars
    <2>1. TypeOK' /\ EntryOwnership' /\ NoLeakedRequest'
      BY <1>5 DEF IInv, TypeOK, EntryOwnership, NoLeakedRequest, vars,
                  tableVars, workVars, callVars, waiterVars
    <2>2. NoOrphanedCall' /\ ActiveIsRoutable' /\ NoLostWakeup' /\ PendingBudget'
      BY <1>5 DEF IInv, NoOrphanedCall, ActiveIsRoutable, NoLostWakeup, PendingBudget, OpenRequests,
                  Matches, Listed, vars, tableVars, workVars, callVars, waiterVars
    <2>3. QED
      BY <2>1, <2>2 DEF IInv
  <1>6. QED
    BY <1>1, <1>2, <1>3, <1>4, <1>5 DEF Next

\* The invariant holds in every reachable state, whatever the constants.
THEOREM Invariance == Spec => []IInv
  BY InitInvariant, NextInvariant, PTL DEF Spec

\* The table, the counters and the tasks keep their types; in particular the
\* pending counter never goes below zero, however claims, cancels and
\* disconnects race.
THEOREM TypeCorrect == Spec => []TypeOK
  <1>1. IInv => TypeOK
    BY DEF IInv
  <1>2. QED
    BY <1>1, Invariance, PTL

\* Table entries and connection handlers correspond one to one.
THEOREM Ownership == Spec => []EntryOwnership
  <1>1. IInv => EntryOwnership
    BY DEF IInv
  <1>2. QED
    BY <1>1, Invariance, PTL

\* No request leaks, and both budgets hold.
THEOREM Budget == Spec => []RequestsAccounted
  <1>1. IInv => RequestsAccounted
    BY DEF IInv, RequestsAccounted
  <1>2. QED
    BY <1>1, Invariance, PTL

\* An open future always has a served connection that holds it.
THEOREM CallsHaveHomes == Spec => []NoOrphanedCall
  <1>1. IInv => NoOrphanedCall
    BY DEF IInv
  <1>2. QED
    BY <1>1, Invariance, PTL

\* The default route always names an editor the table lists.
THEOREM Routing == Spec => []ActiveIsRoutable
  <1>1. IInv => ActiveIsRoutable
    BY DEF IInv
  <1>2. QED
    BY <1>1, Invariance, PTL

\* A publication never passes over a waiter whose editor it has just listed.
THEOREM WakeupsKept == Spec => []NoLostWakeup
  <1>1. IInv => NoLostWakeup
    BY DEF IInv
  <1>2. QED
    BY <1>1, Invariance, PTL

\* Only the departure of the routed editor and session_activate move a default
\* route that names somebody.
THEOREM RouteStability == Spec => DefaultRouteStable
  <1> DEFINE Stable == (activeId # NoSession /\ activeId' # activeId) =>
                         phase'[activeId] = "absent" \/ UNCHANGED <<phase, owner>>
  <1>1. IInv /\ [Next]_vars => Stable
    <2> SUFFICES ASSUME IInv, Next, activeId # NoSession, activeId' # activeId
                 PROVE  phase'[activeId] = "absent" \/ UNCHANGED <<phase, owner>>
      BY DEF vars
    <2>1. CASE ConnectionStep
      <3>1. PICK p \in Peers :
              \/ HandshakeFails(p)
              \/ \E s \in SessionIds, rd \in Readiness : Reserve(p, s, rd)
              \/ \E s \in SessionIds : RejectDuplicate(p, s)
              \/ Publish(p)
              \/ HandlerEnds(p)
              \/ \E r \in Requests, rd \in Readiness : ResponseFrame(p, r, rd)
              \/ \E r \in Requests : MalformedFrame(p, r)
              \/ \E rd \in Readiness : ReadinessEvent(p, rd)
        BY <2>1 DEF ConnectionStep
      <3>2. ~Publish(p)
        BY DEF Publish, OnPublished
      <3>3. HandlerEnds(p)
        BY <3>1, <3>2 DEF HandshakeFails, Reserve, RejectDuplicate, ResponseFrame,
                          MalformedFrame, ReadinessEvent
      <3>4. PICK s \in SessionIds : s = claimed[p] /\ RemoveConnection(s, p)
        BY <3>3 DEF HandlerEnds, IInv, EntryOwnership
      <3>5. s = activeId /\ phase' = [phase EXCEPT ![s] = "absent"]
        BY <3>4 DEF RemoveConnection, ActiveAfterRemoving
      <3>6. QED
        BY <3>5 DEF IInv, TypeOK
    <2>2. CASE CallStep
      BY <2>2 DEF CallStep, OpenRequest, Sent, SendFails, CallReturns, DeadlineFires, Unwind, CallEnds
    <2>3. CASE WaiterStep
      BY <2>3 DEF WaiterStep, WaitForSession, WaiterReturns, WaiterDeadline, WaiterExpires, WaiterEnds
    <2>4. CASE \E s \in SessionIds : SetActive(s)
      BY <2>4 DEF SetActive, tableVars
    <2>5. QED
      BY <2>1, <2>2, <2>3, <2>4 DEF Next
  <1>2. QED
    BY <1>1, Invariance, PTL DEF Spec, DefaultRouteStable

\* A settled future is never settled again, and a frame that finds it settled
\* has no authority over the snapshot.
THEOREM Settlement == Spec => SettledOnce
  <1> DEFINE Kept(r) ==
        (future[r] \notin {"none", "waiting"} /\ call'[r] # "done") =>
          /\ future'[r] = future[r]
          /\ \A s \in SessionIds :
               (r \in pending[s] /\ r \notin pending'[s] /\ owner'[s] = owner[s]) =>
                 readiness'[s] = readiness[s]
  <1>1. IInv /\ [Next]_vars => \A r \in Requests : Kept(r)
    <2> SUFFICES ASSUME IInv, [Next]_vars, NEW r \in Requests,
                        future[r] \notin {"none", "waiting"}, call'[r] # "done"
                 PROVE  Kept(r)
      OBVIOUS
    <2> USE DEF IInv
    <2>1. CASE ConnectionStep
      <3>1. PICK p \in Peers :
              \/ HandshakeFails(p)
              \/ \E s \in SessionIds, rd \in Readiness : Reserve(p, s, rd)
              \/ \E s \in SessionIds : RejectDuplicate(p, s)
              \/ Publish(p)
              \/ HandlerEnds(p)
              \/ \E q \in Requests, rd \in Readiness : ResponseFrame(p, q, rd)
              \/ \E q \in Requests : MalformedFrame(p, q)
              \/ \E rd \in Readiness : ReadinessEvent(p, rd)
        BY <2>1 DEF ConnectionStep
      <3>2. CASE UNCHANGED workVars
        BY <3>2 DEF workVars
      <3>3. CASE HandlerEnds(p)
        <4>1. PICK s \in SessionIds : s = claimed[p] /\ RemoveConnection(s, p)
          BY <3>3 DEF HandlerEnds, EntryOwnership
        <4>2. future'[r] = future[r]
          BY <4>1 DEF RemoveConnection, TypeOK, workVars
        <4>3. \A t \in SessionIds \ {s} : pending'[t] = pending[t]
          BY <4>1 DEF RemoveConnection, TypeOK, workVars
        <4>4. pending[s] # pending'[s] => owner'[s] # owner[s]
          BY <4>1, ConstantsAssumption DEF RemoveConnection, TypeOK, workVars
        <4>5. QED
          BY <4>2, <4>3, <4>4
      <3>4. ASSUME NEW q \in Requests, NEW rd \in Readiness, ResponseFrame(p, q, rd)
            PROVE  Kept(r)
        <4>1. q # r => future'[r] = future[r] /\ \A t \in SessionIds : r \in pending[t] => r \in pending'[t]
          BY <3>4 DEF ResponseFrame, PopRequest, TypeOK
        <4>2. q = r => UNCHANGED <<future, readiness>>
          BY <3>4 DEF ResponseFrame
        <4>3. QED
          BY <4>1, <4>2
      <3>5. ASSUME NEW q \in Requests, MalformedFrame(p, q)
            PROVE  Kept(r)
        BY <3>5 DEF MalformedFrame, TypeOK, tableVars
      <3>6. QED
        BY <3>1, <3>2, <3>3, <3>4, <3>5
           DEF HandshakeFails, Reserve, RejectDuplicate, Publish, ReadinessEvent
    <2>2. CASE CallStep
      <3>1. UNCHANGED readiness
        BY <2>2 DEF CallStep, OpenRequest, Sent, SendFails, CallReturns, DeadlineFires, Unwind,
                    CallEnds, tableVars
      <3>2. PICK q \in Requests :
              \/ \E s \in SessionIds : OpenRequest(q, s)
              \/ Sent(q) \/ SendFails(q) \/ CallReturns(q) \/ DeadlineFires(q) \/ Unwind(q)
        BY <2>2 DEF CallStep
      <3>3. CASE q = r
        <4>1. ~CallEnds(r)
          BY DEF CallEnds, TypeOK
        <4>2. \A s \in SessionIds : ~OpenRequest(r, s)
          BY DEF OpenRequest, TypeOK, Call, Future, Running, NoOrphanedCall
        <4>3. QED
          BY <3>1, <3>2, <3>3, <4>1, <4>2
             DEF Sent, SendFails, CallReturns, DeadlineFires, Unwind, workVars
      <3>4. CASE q # r
        BY <3>1, <3>2, <3>4 DEF OpenRequest, Sent, SendFails, CallReturns, DeadlineFires, Unwind,
                                CallEnds, TypeOK, workVars
      <3>5. QED
        BY <3>3, <3>4
    <2>3. CASE WaiterStep
      BY <2>3 DEF WaiterStep, WaitForSession, WaiterReturns, WaiterDeadline, WaiterExpires,
                  WaiterEnds, workVars
    <2>4. CASE (\E s \in SessionIds : SetActive(s)) \/ UNCHANGED vars
      BY <2>4 DEF SetActive, workVars, vars
    <2>5. QED
      BY <2>1, <2>2, <2>3, <2>4 DEF Next
  <1>2. QED
    BY <1>1, Invariance, PTL DEF Spec, SettledOnce

-----------------------------------------------------------------------------
(* ToolSurface: what is advertised.                                        *)

\* The catalog is one snapshot per editor, in the order of the editors that have one.
Typed ==
  /\ connected \subseteq Editors
  /\ catalog \in [Editors -> Catalogs]
  /\ order \in Seq(Editors)

\* Only a connected editor has tools in the catalog.
Owned == \A e \in Editors : catalog[e] # Empty => e \in connected

\* What is registered and what is hidden are what the registrar derives from
\* the catalog as it is.
Synced ==
  /\ hidden = Tombstones(catalog, order)
  /\ registered = Tools(catalog, order, Chosen(catalog, order), Enabled)
                  \cup Tools(catalog, order, Tombstones(catalog, order), Definitions)

\* The inductive invariant: AdvertisedIsBacked speaks of editors that are
\* connected now, the registrar of the catalog alone; Owned ties the two.
SurfaceInv == Typed /\ Owned /\ Synced

\* A set of naturals that is not empty has a least element.
LEMMA Least ==
  ASSUME NEW T \in SUBSET Nat, T # {}
  PROVE  \E i \in T : \A j \in T : i <= j
  <1> DEFINE R == OpToRel(<, Nat)
  <1>1. IsWellFoundedOn(R, Nat)
    BY NatLessThanWellFounded
  <1>2. \A i, j \in Nat : <<i, j>> \in R <=> i < j
    BY DEF OpToRel
  <1> HIDE DEF R
  <1>3. PICK i \in T : \A j \in T : ~(<<j, i>> \in R)
    BY <1>1, WFMin
  <1>4. \A j \in T : ~(j < i)
    <2>1. SUFFICES ASSUME NEW j \in T PROVE ~(j < i)
      OBVIOUS
    <2>2. i \in Nat /\ j \in Nat
      OBVIOUS
    <2>3. QED
      BY <1>2, <1>3, <2>2
  <1>5. QED
    BY <1>4

\* A definition the catalog returns for a name is one that some editor has
\* under that name, and is of the kind asked for.
LEMMA FirstSeenIsSomeones ==
  ASSUME NEW cat \in [Editors -> Catalogs], NEW ord \in Seq(Editors), NEW n, NEW ok,
         FirstSeen(cat, ord, n, ok) # NoTool
  PROVE  \E e \in Editors : cat[e][n] \in ok /\ cat[e][n] = FirstSeen(cat, ord, n, ok)
  <1> DEFINE having == {i \in DOMAIN ord : cat[ord[i]][n] \in ok}
             first  == CHOOSE i \in having : \A j \in having : i <= j
  <1>1. having # {} /\ FirstSeen(cat, ord, n, ok) = cat[ord[first]][n]
    BY DEF FirstSeen
  <1>2. having \subseteq Nat /\ \A i \in having : ord[i] \in Editors
    OBVIOUS
  <1>3. \E i \in having : \A j \in having : i <= j
    <2> HIDE DEF having
    <2>1. QED
      BY <1>1, <1>2, Least
  <1>4. first \in having
    <2> HIDE DEF having
    <2>1. QED
      BY <1>3
  <1>5. QED
    BY <1>1, <1>2, <1>4

\* Of any set of names, those with fewer than the cap before them are no more
\* than the cap: counting the names before each numbers them from 0.
LEMMA BelowTheCap ==
  ASSUME NEW P \in SUBSET Names, NEW C,
         C = {n \in P : Cardinality({m \in P : m < n}) < MAX_PROMOTED_TOOLS}
  PROVE  IsFiniteSet(C) /\ Cardinality(C) <= MAX_PROMOTED_TOOLS
  <1> DEFINE before(n) == {m \in P : m < n}
             f == [n \in C |-> Cardinality(before(n))]
  <1>1. P \subseteq Nat /\ IsFiniteSet(P) /\ MAX_PROMOTED_TOOLS \in Nat
    BY SurfaceAssumption, FS_Subset
  <1>2. \A n \in P : IsFiniteSet(before(n)) /\ Cardinality(before(n)) \in Nat
    BY <1>1, FS_Subset, FS_CardinalityType
  <1>3. \A n, m \in P : n < m => Cardinality(before(n)) < Cardinality(before(m))
    <2>1. SUFFICES ASSUME NEW n \in P, NEW m \in P, n < m
                   PROVE  Cardinality(before(n)) < Cardinality(before(m))
      OBVIOUS
    <2>2. n \in Nat /\ m \in Nat
      BY <1>1
    <2>3. n \notin before(n) /\ before(n) \cup {n} \in SUBSET before(m)
      <3>1. n \notin before(n) /\ n \in before(m)
        BY <2>1, <2>2
      <3>2. ASSUME NEW k \in before(n) PROVE k \in before(m)
        <4>1. k \in P /\ k < n /\ k \in Nat
          BY <1>1
        <4>2. k < m
          BY <2>1, <2>2, <4>1
        <4>3. QED
          BY <4>1, <4>2
      <3> HIDE DEF before
      <3>3. QED
        BY <3>1, <3>2
    <2> HIDE DEF before
    <2>4. Cardinality(before(n) \cup {n}) = Cardinality(before(n)) + 1
      BY <1>2, <2>3, FS_AddElement
    <2>5. Cardinality(before(n) \cup {n}) <= Cardinality(before(m))
      BY <1>2, <2>3, FS_Subset
    <2>6. QED
      BY <1>2, <2>4, <2>5
  <1>4. f \in Injection(C, 0 .. MAX_PROMOTED_TOOLS - 1)
    <2>1. \A n \in C : n \in P /\ f[n] = Cardinality(before(n)) /\ Cardinality(before(n)) < MAX_PROMOTED_TOOLS
      OBVIOUS
    <2>2. DOMAIN f = C /\ f = [n \in C |-> f[n]]
      OBVIOUS
    <2> HIDE DEF f, before
    <2>3. \A n \in C : f[n] \in 0 .. MAX_PROMOTED_TOOLS - 1
      BY <1>1, <1>2, <2>1
    <2>4. \A n, m \in C : f[n] = f[m] => n = m
      <3>1. SUFFICES ASSUME NEW n \in C, NEW m \in C, f[n] = f[m] PROVE n = m
        OBVIOUS
      <3>2. n \in Nat /\ m \in Nat /\ ~(n < m) /\ ~(m < n)
        BY <1>1, <1>2, <1>3, <2>1, <3>1
      <3>3. QED
        BY <3>2
    <2>5. QED
      BY <2>2, <2>3, <2>4 DEF Injection, IsInjective
  <1> HIDE DEF f
  <1>5. /\ IsFiniteSet(0 .. MAX_PROMOTED_TOOLS - 1)
        /\ Cardinality(0 .. MAX_PROMOTED_TOOLS - 1) = MAX_PROMOTED_TOOLS
    BY <1>1, FS_Interval
  <1>6. QED
    BY <1>4, <1>5, FS_Injection

\* Setting or taking out a key leaves a sequence of editors.
LEMMA ReorderedType ==
  ASSUME NEW ord \in Seq(Editors), NEW e \in Editors, NEW has \in BOOLEAN
  PROVE  Reordered(ord, e, has) \in Seq(Editors)
  <1>1. Append(ord, e) \in Seq(Editors)
    BY AppendProperties
  <1>2. ASSUME \E i \in DOMAIN ord : ord[i] = e
        PROVE  Without(ord, e) \in Seq(Editors)
    <2> DEFINE i == CHOOSE i \in DOMAIN ord : ord[i] = e
    <2>1. i \in 1 .. Len(ord)
      BY <1>2
    <2> HIDE DEF i
    <2>2. \A j \in 1 .. Len(ord) : ord[j] \in Editors
      OBVIOUS
    <2>3. /\ SubSeq(ord, 1, i - 1) \in Seq(Editors)
          /\ SubSeq(ord, i + 1, Len(ord)) \in Seq(Editors)
      <3>1. i \in Nat /\ Len(ord) \in Nat
        BY <2>1
      <3>2. /\ \A j \in 1 .. i - 1 : ord[j] \in Editors
            /\ \A j \in i + 1 .. Len(ord) : ord[j] \in Editors
        BY <2>1, <2>2
      <3>3. QED
        BY <3>1, <3>2, SubSeqProperties
    <2>4. Without(ord, e) = SubSeq(ord, 1, i - 1) \o SubSeq(ord, i + 1, Len(ord))
      BY DEF Without, i
    <2>5. QED
      BY <2>3, <2>4, ConcatProperties
  <1>3. QED
    BY <1>1, <1>2 DEF Reordered

\* No tools at all are a snapshot.
LEMMA NoCatalog == Empty \in Catalogs
  BY DEF Empty, Catalogs

\* A server starts with nothing registered and an empty catalog.
LEMMA InitSurface == SurfaceInit => SurfaceInv
  <1> SUFFICES ASSUME SurfaceInit PROVE SurfaceInv
    OBVIOUS
  <1>1. catalog = [e \in Editors |-> Empty] /\ order = <<>> /\ connected = {}
    BY DEF SurfaceInit
  <1>2. \A n, ok : FirstSeen(catalog, order, n, ok) = NoTool
    BY <1>1 DEF FirstSeen
  <1>3. Promoted(catalog, order) = {} /\ Tombstones(catalog, order) = {}
    BY <1>2 DEF Promoted, Tombstones
  <1>4. Synced
    BY <1>3 DEF SurfaceInit, Synced, Chosen, Tools
  <1>5. Typed /\ Owned
    BY <1>1, NoCatalog DEF Typed, Owned
  <1>6. QED
    BY <1>4, <1>5 DEF SurfaceInv

\* A change of one editor's tools keeps the invariant if whoever has tools
\* after it is connected.
LEMMA ReplaceKeeps ==
  ASSUME SurfaceInv, NEW e \in Editors, NEW tools \in Catalogs, Replace(e, tools),
         connected' \in SUBSET Editors,
         \A f \in Editors \ {e} : f \in connected => f \in connected',
         tools # Empty => e \in connected'
  PROVE  SurfaceInv'
  <1>1. /\ catalog' \in [Editors -> Catalogs] /\ catalog'[e] = tools
        /\ \A f \in Editors \ {e} : catalog'[f] = catalog[f]
    BY DEF Replace, SurfaceInv, Typed
  <1>2. order' \in Seq(Editors)
    BY ReorderedType DEF Replace, SurfaceInv, Typed
  <1>3. Synced'
    BY DEF Replace, Sync, Synced
  <1>4. Owned'
    BY <1>1 DEF SurfaceInv, Owned
  <1>5. QED
    BY <1>1, <1>2, <1>3, <1>4 DEF SurfaceInv, Typed

\* The steps that change the catalog sync the registrar; the others leave both
\* alone and disconnect nobody.
LEMMA NextSurface == SurfaceInv /\ [SurfaceNext]_surfaceVars => SurfaceInv'
  <1> SUFFICES ASSUME SurfaceInv, [SurfaceNext]_surfaceVars PROVE SurfaceInv'
    OBVIOUS
  <1>1. ASSUME connected \subseteq connected', connected' \subseteq Editors, UNCHANGED server
        PROVE  SurfaceInv'
    BY <1>1 DEF server, SurfaceInv, Typed, Owned, Synced
  <1>2. ASSUME NEW e \in Editors, Push(e) PROVE SurfaceInv'
    <2>1. PICK tools \in Snapshots : Replace(e, tools)
      BY <1>2 DEF Push
    <2>2. tools \in Catalogs
      BY SurfaceAssumption
    <2>3. e \in connected' /\ connected' = connected /\ connected' \in SUBSET Editors
      BY <1>2 DEF Push, SurfaceInv, Typed
    <2>4. QED
      BY <2>1, <2>2, <2>3, ReplaceKeeps
  <1>3. ASSUME NEW e \in Editors, Disconnect(e) PROVE SurfaceInv'
    <2>1. connected' = connected \ {e} /\ connected' \in SUBSET Editors
      BY <1>3 DEF Disconnect, SurfaceInv, Typed
    <2>2. CASE catalog[e] # Empty
      <3>1. Replace(e, Empty)
        BY <1>3, <2>2 DEF Disconnect
      <3>2. QED
        BY <2>1, <3>1, NoCatalog, ReplaceKeeps
    <2>3. CASE catalog[e] = Empty
      <3>1. UNCHANGED server
        BY <1>3, <2>3 DEF Disconnect
      <3>2. QED
        BY <2>1, <2>3, <3>1 DEF server, SurfaceInv, Typed, Owned, Synced
    <2>4. QED
      BY <2>2, <2>3
  <1>4. ASSUME NEW e \in Editors, Connect(e) PROVE SurfaceInv'
    BY <1>1, <1>4 DEF Connect, SurfaceInv, Typed
  <1>5. ASSUME \/ Start \/ BeginRound \/ EndRound
               \/ \E c \in Clients : \/ Notified(c) \/ TimesOut(c) \/ AskList(c)
                                     \/ ReadTools(c) \/ AnswerList(c) \/ OtherRequest(c)
        PROVE  SurfaceInv'
    <2>1. UNCHANGED <<connected, server>>
      BY <1>5 DEF Start, BeginRound, EndRound, Notified, TimesOut, AskList, ReadTools, AnswerList,
                  OtherRequest, Broadcasting, Requesting
    <2>2. QED
      BY <1>1, <2>1 DEF SurfaceInv, Typed
  <1>6. CASE UNCHANGED surfaceVars
    BY <1>1, <1>6 DEF surfaceVars, SurfaceInv, Typed
  <1>7. QED
    BY <1>2, <1>3, <1>4, <1>5, <1>6 DEF SurfaceNext

\* The invariant holds throughout.
LEMMA AlwaysSurface == SurfaceSpec => []SurfaceInv
  BY InitSurface, NextSurface, PTL DEF SurfaceSpec

\* The invariant implies the property.
LEMMA InvBacked == SurfaceInv => AdvertisedIsBacked
  <1> SUFFICES ASSUME SurfaceInv PROVE AdvertisedIsBacked
    OBVIOUS
  <1> DEFINE promoted   == Promoted(catalog, order)
             chosen     == Chosen(catalog, order)
             tombstones == Tombstones(catalog, order)
             shown(n)   == FirstSeen(catalog, order, n, Enabled)
             tool(n)    == [name |-> n, schema |-> shown(n).schema]
  <1>1. /\ catalog \in [Editors -> Catalogs] /\ order \in Seq(Editors)
        /\ \A e \in Editors : catalog[e] # Empty => e \in connected
        /\ hidden = tombstones
        /\ registered = Tools(catalog, order, chosen, Enabled)
                        \cup Tools(catalog, order, tombstones, Definitions)
    BY DEF SurfaceInv, Typed, Owned, Synced
  <1>2. /\ promoted \subseteq Names /\ chosen \subseteq promoted
        /\ tombstones \cap promoted = {}
    BY DEF Promoted, Chosen, Tombstones
  <1>3. \A t \in registered : t.name \in tombstones \/ (t.name \in chosen /\ t = tool(t.name))
    BY <1>1 DEF Tools
  <1>4. \A n \in promoted :
          /\ \E e \in Promoting(catalog, n) : e \in connected /\ shown(n).schema = catalog[e][n].schema
          /\ ~Conflicted(catalog, n)
    <2>1. SUFFICES ASSUME NEW n \in promoted
                   PROVE  /\ \E e \in Promoting(catalog, n) :
                               e \in connected /\ shown(n).schema = catalog[e][n].schema
                          /\ ~Conflicted(catalog, n)
      OBVIOUS
    <2>2. n \in Names /\ shown(n) # NoTool /\ shown(n).promoted /\ ~Conflicted(catalog, n)
      BY DEF Promoted
    <2>3. PICK e \in Editors : catalog[e][n] \in Enabled /\ catalog[e][n] = shown(n)
      BY <1>1, <2>2, FirstSeenIsSomeones
    <2>4. e \in Promoting(catalog, n)
      BY <2>2, <2>3 DEF Promoting
    <2>5. catalog[e] # Empty
      BY <2>2, <2>3, SurfaceAssumption DEF Empty, Enabled
    <2>6. QED
      BY <1>1, <2>2, <2>3, <2>4, <2>5
  <1> HIDE DEF promoted, chosen, tombstones, shown
  <1>5. Cardinality(Advertised) <= MAX_PROMOTED_TOOLS
    <2>1. IsFiniteSet(chosen) /\ Cardinality(chosen) <= MAX_PROMOTED_TOOLS
      BY <1>2, BelowTheCap DEF Chosen, chosen, promoted
    <2> DEFINE f == [t \in Advertised |-> t.name]
    <2>2. \A t \in Advertised : t.name \in chosen /\ t = tool(t.name)
      BY <1>1, <1>3 DEF Advertised
    <2>3. f \in Injection(Advertised, chosen)
      BY <2>2 DEF Injection, IsInjective
    <2> HIDE DEF f
    <2>4. Cardinality(Advertised) <= Cardinality(chosen) /\ IsFiniteSet(Advertised)
      BY <2>1, <2>3, FS_Injection
    <2>5. Cardinality(Advertised) \in Nat /\ Cardinality(chosen) \in Nat /\ MAX_PROMOTED_TOOLS \in Nat
      BY <2>1, <2>4, FS_CardinalityType, SurfaceAssumption
    <2>6. QED
      BY <2>1, <2>4, <2>5
  <1>6. ASSUME NEW t \in Advertised
        PROVE  /\ \E e \in Promoting(catalog, t.name) : e \in connected
               /\ \A e \in Promoting(catalog, t.name) : catalog[e][t.name].schema = t.schema
               /\ \A u \in registered : u.name = t.name => u = t
    <2>1. t.name \in chosen /\ t = tool(t.name) /\ t.name \in promoted /\ t.name \notin tombstones
      BY <1>1, <1>2, <1>3 DEF Advertised
    <2>2. t.schema = shown(t.name).schema
      BY <2>1
    <2>3. \A u \in registered : u.name = t.name => u = t
      BY <1>3, <2>1
    <2>4. QED
      BY <1>4, <2>1, <2>2, <2>3 DEF Conflicted
  <1>7. QED
    BY <1>5, <1>6 DEF AdvertisedIsBacked

\* Whatever editors push, in whatever order, and whenever they go, what is
\* listed is promoted by a connected editor with the schema that is shown, once
\* per name and no more than the cap.
THEOREM ToolsAreBacked == SurfaceSpec => []AdvertisedIsBacked
  BY AlwaysSurface, InvBacked, PTL

-----------------------------------------------------------------------------
(* ToolCall: one call's way through the middleware and the dispatcher.     *)

\* What a client can write: values of the kinds the code tells apart, under
\* some of the keys, in a call of any form.
Values == [json : {"string", "int", "list", "listtext", "brokentext"}, id : Int]
Arguments == UNION {[ks -> Values] : ks \in SUBSET Keys}
Forms == {"none", "object", "text", "array", "broken"}
Calls(op) == [op : {op}, form : Forms, nested : Arguments, flat : Arguments, wrapper : BOOLEAN]

\* Everything the model's clients write is of that shape.
LEMMA WrittenShape == Written \subseteq Arguments
  <1> SUFFICES ASSUME NEW f \in Written PROVE f \in Arguments
    OBVIOUS
  <1> DEFINE texts  == {Value("string", 1), Value("string", 2), Value("listtext", 1)}
             counts == {Value("int", 1), Value("string", 1)}
             lists  == {Value("list", 1), Value("listtext", 1), Value("brokentext", 1)}
             all    == texts \cup counts \cup lists
  <1>1. \E ks \in SUBSET Keys : f \in [ks -> all]
    BY DEF Written
  <1>2. all \subseteq Values
    <2>1. texts \subseteq Values
      BY DEF Value, Values
    <2>2. counts \subseteq Values /\ lists \subseteq Values
      BY DEF Value, Values
    <2>3. QED
      BY <2>1, <2>2
  <1> HIDE DEF all
  <1>3. PICK ks \in SUBSET Keys : f \in [ks -> Values]
    BY <1>1, <1>2
  <1>4. QED
    BY <1>3 DEF Arguments

\* The keys of written arguments are keys, and an empty set of them is none.
LEMMA ArgumentsShape ==
  ASSUME NEW f \in Arguments
  PROVE  /\ DOMAIN f \subseteq Keys
         /\ \A k \in DOMAIN f : f[k] \in Values
         /\ f = [k \in DOMAIN f |-> f[k]]
         /\ DOMAIN f = {} => f = NoArguments
  <1>1. PICK ks \in SUBSET Keys : f \in [ks -> Values]
    BY DEF Arguments
  <1>2. QED
    BY <1>1 DEF NoArguments

\* What Over keeps of each of its arguments.
LEMMA OverShape ==
  ASSUME NEW f \in Arguments, NEW g \in Arguments
  PROVE  /\ DOMAIN Over(f, g) = DOMAIN f \cup DOMAIN g
         /\ \A k \in DOMAIN f : Over(f, g)[k] = f[k]
         /\ \A k \in DOMAIN g \ DOMAIN f : Over(f, g)[k] = g[k]
         /\ DOMAIN g = {} => Over(f, g) = f
  <1>1. DOMAIN g = {} => Over(f, g) = f
    <2>1. SUFFICES ASSUME DOMAIN g = {} PROVE Over(f, g) = f
      OBVIOUS
    <2>2. Over(f, g) = [k \in DOMAIN f |-> f[k]]
      BY <2>1 DEF Over
    <2>3. QED
      BY <2>2, ArgumentsShape
  <1>2. QED
    BY <1>1 DEF Over

\* The coercion of JSON text breaks no pin that held.
LEMMA CoercedPinned ==
  ASSUME NEW k, NEW v \in Values, Pinned(k, v)
  PROVE  Pinned(k, Coerced(k, v))
  <1>1. CASE k = "items" /\ v.json = "listtext"
    <2>1. Coerced(k, v).json = "list"
      BY <1>1 DEF Coerced, Values
    <2>2. QED
      BY <1>1, <2>1 DEF Pinned
  <1>2. CASE ~(k = "items" /\ v.json = "listtext")
    BY <1>2 DEF Coerced
  <1>3. QED
    BY <1>1, <1>2

\* A call is not the refusal.
LEMMA CallIsNoRefusal ==
  ASSUME NEW op, NEW c \in Calls(op)
  PROVE  c # Refused
  BY DEF Calls, Refused

\* The three middleware together: a call with keys beside "op" is refused when
\* they cannot be folded unambiguously, and carries all of its keys on
\* otherwise.
LEMMA Folded ==
  ASSUME NEW op, NEW c \in Calls(op), NEW folded,
         folded = FoldFlatManageParams(ParseStringifiedParams(StripClientWrapperKwargs(c)))
  PROVE  LET ambiguous == \E k \in DOMAIN c.flat \cap DOMAIN c.nested : c.flat[k] # c.nested[k]
             form      == IF c.form = "text" THEN "object" ELSE c.form
         IN  IF DOMAIN c.flat # {} /\ (form \notin {"none", "object"} \/ ambiguous)
             THEN folded = Refused
             ELSE /\ folded # Refused
                  /\ folded.op = op /\ folded.flat = NoArguments /\ ~folded.wrapper
                  /\ folded.nested = Over(c.nested, c.flat)
                  /\ folded.form = IF DOMAIN c.flat = {} THEN form ELSE "object"
                  /\ ~ambiguous
  <1> DEFINE ambiguous == \E k \in DOMAIN c.flat \cap DOMAIN c.nested : c.flat[k] # c.nested[k]
             form      == IF c.form = "text" THEN "object" ELSE c.form
             bare      == StripClientWrapperKwargs(c)
             parsed    == ParseStringifiedParams(StripClientWrapperKwargs(c))
  <1>1. /\ bare \in Calls(op) /\ ~bare.wrapper
        /\ bare.form = c.form /\ bare.nested = c.nested /\ bare.flat = c.flat
    BY DEF StripClientWrapperKwargs, Calls
  <1>2. /\ parsed \in Calls(op) /\ ~parsed.wrapper
        /\ parsed.form = form /\ parsed.nested = c.nested /\ parsed.flat = c.flat
    <2> HIDE DEF bare
    <2>1. CASE c.form = "text"
      <3>1. parsed = [bare EXCEPT !.form = "object"]
        BY <1>1, <2>1 DEF ParseStringifiedParams, bare
      <3> HIDE DEF parsed
      <3>2. QED
        BY <1>1, <2>1, <3>1 DEF Calls, Forms
    <2>2. CASE c.form # "text"
      <3>1. parsed = bare
        BY <1>1, <2>2 DEF ParseStringifiedParams, bare
      <3>2. QED
        BY <1>1, <2>2, <3>1
    <2>3. QED
      BY <2>1, <2>2
  <1> HIDE DEF parsed, form
  <1>3. folded = FoldFlatManageParams(parsed)
    BY DEF parsed
  <1>4. c.nested \in Arguments /\ c.flat \in Arguments
    BY DEF Calls
  <1>5. CASE DOMAIN c.flat = {}
    <2>1. folded = parsed
      BY <1>2, <1>3, <1>5 DEF FoldFlatManageParams
    <2>2. c.flat = NoArguments /\ Over(c.nested, c.flat) = c.nested
      BY <1>4, <1>5, ArgumentsShape, OverShape
    <2>3. folded # Refused /\ folded.op = op
      BY <1>2, <2>1, CallIsNoRefusal DEF Calls
    <2>4. QED
      BY <1>2, <1>5, <2>1, <2>2, <2>3 DEF form
  <1>6. CASE DOMAIN c.flat # {} /\ (form \notin {"none", "object"} \/ ambiguous)
    BY <1>2, <1>3, <1>6 DEF FoldFlatManageParams, form
  <1>7. CASE DOMAIN c.flat # {} /\ ~(form \notin {"none", "object"} \/ ambiguous)
    <2>1. folded = [parsed EXCEPT !.form = "object", !.nested = Over(c.nested, c.flat), !.flat = NoArguments]
      BY <1>2, <1>3, <1>7 DEF FoldFlatManageParams
    <2>2. DOMAIN folded = {"op", "form", "nested", "flat", "wrapper"}
      BY <1>2, <2>1 DEF Calls
    <2>3. folded # Refused
      BY <2>2 DEF Refused
    <2>4. folded.op = op /\ ~folded.wrapper
      BY <1>2, <2>1 DEF Calls
    <2>5. /\ folded.nested = Over(c.nested, c.flat) /\ folded.form = "object"
          /\ folded.flat = NoArguments
      BY <1>2, <2>1 DEF Calls
    <2>6. QED
      BY <1>7, <2>3, <2>4, <2>5 DEF form
  <1>8. QED
    BY <1>5, <1>6, <1>7

\* The whole way of one call, for any set of handlers.
LEMMA Delivery ==
  ASSUME NEW op, NEW c \in Calls(op), NEW handlers
  PROVE  /\ Intact(c, handlers)
         /\ Sensible(c, handlers) => Deliver(c, handlers) # Refused
         /\ op \notin DOMAIN handlers => Deliver(c, handlers) = Refused
  <1> DEFINE ambiguous == \E k \in DOMAIN c.flat \cap DOMAIN c.nested : c.flat[k] # c.nested[k]
             form      == IF c.form = "text" THEN "object" ELSE c.form
             folded    == FoldFlatManageParams(ParseStringifiedParams(StripClientWrapperKwargs(c)))
             all       == Over(c.nested, c.flat)
             arguments == [k \in DOMAIN all |-> Coerced(k, all[k])]
             fits      == (\A k \in DOMAIN arguments : Pinned(k, arguments[k])) /\ Binds(arguments)
  <1>1. /\ c.op = op /\ c.form \in Forms
        /\ c.nested \in Arguments /\ c.flat \in Arguments
    BY DEF Calls
  <1>2. /\ DOMAIN all = DOMAIN c.nested \cup DOMAIN c.flat
        /\ \A k \in DOMAIN c.nested : all[k] = c.nested[k]
        /\ ~ambiguous => \A k \in DOMAIN c.flat : all[k] = c.flat[k]
    <2>1. /\ DOMAIN all = DOMAIN c.nested \cup DOMAIN c.flat
          /\ \A k \in DOMAIN c.nested : all[k] = c.nested[k]
          /\ \A k \in DOMAIN c.flat \ DOMAIN c.nested : all[k] = c.flat[k]
      BY DEF Over
    <2>2. ~ambiguous => \A k \in DOMAIN c.flat \cap DOMAIN c.nested : c.flat[k] = c.nested[k]
      OBVIOUS
    <2> HIDE DEF all, ambiguous
    <2>3. ASSUME ~ambiguous, NEW k \in DOMAIN c.flat PROVE all[k] = c.flat[k]
      <3>1. CASE k \in DOMAIN c.nested
        BY <2>1, <2>2, <2>3, <3>1
      <3>2. CASE k \notin DOMAIN c.nested
        BY <2>1, <3>2
      <3>3. QED
        BY <3>1, <3>2
    <2>4. QED
      BY <2>1, <2>3
  <1>3. IF DOMAIN c.flat # {} /\ (form \notin {"none", "object"} \/ ambiguous)
        THEN folded = Refused
        ELSE /\ folded # Refused
             /\ folded.op = op /\ folded.flat = NoArguments /\ ~folded.wrapper
             /\ folded.nested = all
             /\ folded.form = IF DOMAIN c.flat = {} THEN form ELSE "object"
             /\ ~ambiguous
    BY Folded
  <1>4. Deliver(c, handlers) =
          IF folded = Refused \/ ~FitsSchema(folded, DOMAIN handlers) THEN Refused
          ELSE DispatchManageOp(folded, handlers[folded.op])
    BY DEF Deliver
  <1> HIDE DEF folded, all
  <1>5. folded # Refused =>
          FitsSchema(folded, DOMAIN handlers)
            <=> op \in DOMAIN handlers /\ form \in {"none", "object"}
    BY <1>1, <1>3 DEF FitsSchema
  <1>6. folded # Refused =>
          DispatchManageOp(folded, handlers[folded.op]) =
            IF fits THEN [handler |-> handlers[op], arguments |-> arguments] ELSE Refused
    <2>1. SUFFICES ASSUME folded # Refused
                   PROVE  DispatchManageOp(folded, handlers[folded.op]) =
                            IF fits THEN [handler |-> handlers[op], arguments |-> arguments]
                                    ELSE Refused
      OBVIOUS
    <2>2. folded.op = op /\ folded.nested = all
      BY <1>3, <2>1
    <2>3. QED
      BY <2>2 DEF DispatchManageOp
  <1> HIDE DEF form, fits, arguments
  <1>7. Deliver(c, handlers) # Refused =>
          /\ folded # Refused /\ op \in DOMAIN handlers /\ ~ambiguous
          /\ Deliver(c, handlers) = [handler |-> handlers[op], arguments |-> arguments]
    BY <1>3, <1>4, <1>5, <1>6
  <1>8. Intact(c, handlers)
    <2>1. SUFFICES ASSUME Deliver(c, handlers) # Refused
                   PROVE  LET got == Deliver(c, handlers)
                          IN  /\ got.handler = handlers[c.op]
                              /\ DOMAIN got.arguments = DOMAIN c.nested \cup DOMAIN c.flat
                              /\ \A k \in DOMAIN c.nested : got.arguments[k] = Means(k, c.nested[k])
                              /\ \A k \in DOMAIN c.flat : got.arguments[k] = Means(k, c.flat[k])
      BY DEF Intact
    <2>2. Deliver(c, handlers) = [handler |-> handlers[op], arguments |-> arguments]
      BY <1>7, <2>1
    <2>3. /\ Deliver(c, handlers).handler = handlers[op]
          /\ Deliver(c, handlers).arguments = arguments
      BY <2>2
    <2>4. /\ DOMAIN arguments = DOMAIN c.nested \cup DOMAIN c.flat
          /\ \A k \in DOMAIN c.nested : arguments[k] = Means(k, c.nested[k])
          /\ \A k \in DOMAIN c.flat : arguments[k] = Means(k, c.flat[k])
      BY <1>2, <1>7, <2>1 DEF arguments, Means
    <2>5. QED
      BY <1>1, <2>3, <2>4
  <1>9. ASSUME Sensible(c, handlers) PROVE Deliver(c, handlers) # Refused
    <2> DEFINE held == {<<k, c.nested[k]>> : k \in DOMAIN c.nested}
                       \cup {<<k, c.flat[k]>> : k \in DOMAIN c.flat}
    <2>1. /\ op \in DOMAIN handlers
          /\ form \in {"none", "object"}
          /\ Required \subseteq DOMAIN c.nested \cup DOMAIN c.flat
          /\ DOMAIN c.nested \cup DOMAIN c.flat \subseteq Accepted
      BY <1>1, <1>9 DEF Sensible, form
    <2>2. /\ \A p, q \in held : p[1] = q[1] => p = q
          /\ \A p \in held : Pinned(p[1], p[2])
      BY <1>9 DEF Sensible
    <2>3. \A k \in DOMAIN c.flat \cap DOMAIN c.nested : c.flat[k] = c.nested[k]
      <3>1. SUFFICES ASSUME NEW k \in DOMAIN c.flat \cap DOMAIN c.nested
                     PROVE  c.flat[k] = c.nested[k]
        OBVIOUS
      <3>2. <<k, c.flat[k]>> \in held /\ <<k, c.nested[k]>> \in held
        OBVIOUS
      <3> HIDE DEF held
      <3>3. <<k, c.flat[k]>> = <<k, c.nested[k]>>
        BY <2>2, <3>2
      <3>4. QED
        BY <3>3
    <2>4. /\ \A k \in DOMAIN c.nested : Pinned(k, c.nested[k])
          /\ \A k \in DOMAIN c.flat : Pinned(k, c.flat[k])
      <3>1. /\ \A k \in DOMAIN c.nested : <<k, c.nested[k]>> \in held
            /\ \A k \in DOMAIN c.flat : <<k, c.flat[k]>> \in held
        OBVIOUS
      <3> HIDE DEF held
      <3>2. QED
        BY <2>2, <3>1
    <2> HIDE DEF held
    <2>5. \A k \in DOMAIN all : all[k] \in Values /\ Pinned(k, all[k])
      BY <1>1, <1>2, <2>3, <2>4, ArgumentsShape
    <2>6. fits
      <3>1. \A k \in DOMAIN all : arguments[k] = Coerced(k, all[k])
        BY DEF arguments
      <3>2. \A k \in DOMAIN all : Pinned(k, arguments[k])
        BY <2>5, <3>1, CoercedPinned
      <3>3. DOMAIN arguments = DOMAIN all
        BY DEF arguments
      <3>4. QED
        BY <1>2, <2>1, <3>2, <3>3 DEF fits, Binds
    <2>7. folded # Refused
      BY <1>3, <2>1, <2>3
    <2>8. Deliver(c, handlers) = [handler |-> handlers[op], arguments |-> arguments]
      BY <1>4, <1>5, <1>6, <2>1, <2>6, <2>7
    <2>9. QED
      BY <2>8 DEF Refused
  <1>10. QED
    BY <1>7, <1>8, <1>9

\* The calls the property ranges over are of that shape.
LEMMA RawCallsShape ==
  ASSUME NEW op
  PROVE  RawCalls(op) \subseteq Calls(op)
  <1>1. NoArguments \in Arguments
    <2>1. NoArguments \in [{} -> Values]
      BY DEF NoArguments
    <2>2. {} \in SUBSET Keys
      OBVIOUS
    <2>3. QED
      BY <2>1, <2>2 DEF Arguments
  <1>2. QED
    BY <1>1, WrittenShape DEF RawCalls, Calls, Forms

\* Whichever tools and exclusions are sampled, a call of a rolled-up tool is
\* refused or reaches its handler with all that was written and nothing else, a
\* sensible one is not refused, and an excluded op is.
THEOREM CallsIntact == SurfaceSpec => []CallsArriveIntact
  <1>1. \A tool \in SampledTools, exclude \in ExcludeSets :
          \A op \in DOMAIN OpsOf(tool, {}) : \A c \in RawCalls(op) :
            /\ Intact(c, OpsOf(tool, exclude))
            /\ Sensible(c, OpsOf(tool, exclude)) => Deliver(c, OpsOf(tool, exclude)) # Refused
            /\ op \notin DOMAIN OpsOf(tool, exclude) => Deliver(c, OpsOf(tool, exclude)) = Refused
    <2>1. SUFFICES ASSUME NEW tool, NEW exclude, NEW op, NEW c \in RawCalls(op)
                   PROVE  LET handlers == OpsOf(tool, exclude)
                          IN  /\ Intact(c, handlers)
                              /\ Sensible(c, handlers) => Deliver(c, handlers) # Refused
                              /\ op \notin DOMAIN handlers => Deliver(c, handlers) = Refused
      OBVIOUS
    <2>2. c \in Calls(op)
      BY RawCallsShape
    <2>3. QED
      BY <2>2, Delivery
  <1>2. CallsArriveIntact
    BY <1>1 DEF CallsArriveIntact
  <1>3. QED
    BY <1>2, PTL

=============================================================================
