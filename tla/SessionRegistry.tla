--------------------------- MODULE SessionRegistry ---------------------------
(***************************************************************************)
(* The server's table of editor connections (sessions/registry.py) driven  *)
(* by the WebSocket connection handlers, the command senders and the       *)
(* session waiters that share it (transport/websocket.py).                 *)
(*                                                                         *)
(* Everything runs on one asyncio loop, so one action is the code between  *)
(* two awaits.  A handler awaits the ACK send, the close of a rejected     *)
(* duplicate, and the next frame; a command awaits the drain of its send   *)
(* and then its future; a deadline cancels a task in one loop iteration    *)
(* and the task unwinds in a later one.                                    *)
(***************************************************************************)
EXTENDS Integers, FiniteSets

CONSTANTS
  SessionIds,         \* ids an editor may claim in its handshake
  Peers,              \* WebSocket connections; each one is accepted once
  Requests,           \* request ids: a fresh uuid for every command sent
  Waiters,            \* wait_for_session calls
  Readiness,          \* KNOWN_READINESS
  MaxPendingPerPeer,  \* max_pending_per_peer
  MaxPendingTotal,    \* max_pending_total
  NoSession,          \* None in place of a session id
  NoPeer              \* no connection

\* SessionRegistry._validate_limits, and that the None values are not ids.
ASSUME LimitsAssumption ==
  /\ MaxPendingPerPeer \in Nat \ {0}
  /\ MaxPendingTotal \in Nat \ {0}
  /\ MaxPendingPerPeer <= MaxPendingTotal

ASSUME ConstantsAssumption ==
  /\ NoSession \notin SessionIds
  /\ NoPeer \notin Peers
  /\ IsFiniteSet(Requests)
  /\ Readiness # {}

VARIABLES
  phase,        \* _EditorConnection.phase, "absent" when there is no entry
  owner,        \* _EditorConnection.peer
  readiness,    \* Session.readiness of the entry
  pending,      \* _EditorConnection.pending: the request ids it holds
  activeId,     \* _active_session_id
  pendingCount, \* _pending_count
  handler,      \* where the _handle_connection task of a peer stands
  claimed,      \* the session id that task read from the handshake
  call,         \* where the send_command task of a request stands
  target,       \* the session it addressed
  route,        \* the peer open_request gave it
  future,       \* the asyncio.Future of the request
  waiter,       \* where a wait_for_session call stands
  accepts,      \* the ids that meet its exclude_id, known_ids and project_path
  found         \* the session it was given

tableVars  == <<phase, owner, readiness>>
workVars   == <<pending, pendingCount, future>>
callVars   == <<call, target, route>>
waiterVars == <<waiter, accepts, found>>
vars == <<tableVars, workVars, activeId, handler, claimed, callVars, waiterVars>>

Phase   == {"absent", "pending", "active"}
Handling == {"opening", "rejected", "acking", "serving", "closed"}
Call    == {"idle", "sending", "awaiting", "unwinding", "done"}
Running == {"sending", "awaiting", "unwinding"}
Future  == {"none", "waiting", "result", "failed", "malformed", "cancelled"}
Waiter  == {"idle", "waiting", "woken", "expiring"}

AnyReadiness == CHOOSE x \in Readiness : TRUE

TypeOK ==
  /\ phase \in [SessionIds -> Phase]
  /\ owner \in [SessionIds -> Peers \cup {NoPeer}]
  /\ readiness \in [SessionIds -> Readiness]
  /\ pending \in [SessionIds -> SUBSET Requests]
  /\ activeId \in SessionIds \cup {NoSession}
  /\ pendingCount \in Nat
  /\ handler \in [Peers -> Handling]
  /\ claimed \in [Peers -> SessionIds \cup {NoSession}]
  /\ call \in [Requests -> Call]
  /\ target \in [Requests -> SessionIds \cup {NoSession}]
  /\ route \in [Requests -> Peers \cup {NoPeer}]
  /\ future \in [Requests -> Future]
  /\ waiter \in [Waiters -> Waiter]
  /\ accepts \in [Waiters -> SUBSET SessionIds]
  /\ found \in [Waiters -> SessionIds \cup {NoSession}]

Init ==
  /\ phase = [s \in SessionIds |-> "absent"]
  /\ owner = [s \in SessionIds |-> NoPeer]
  /\ readiness = [s \in SessionIds |-> AnyReadiness]
  /\ pending = [s \in SessionIds |-> {}]
  /\ activeId = NoSession
  /\ pendingCount = 0
  /\ handler = [p \in Peers |-> "opening"]
  /\ claimed = [p \in Peers |-> NoSession]
  /\ call = [r \in Requests |-> "idle"]
  /\ target = [r \in Requests |-> NoSession]
  /\ route = [r \in Requests |-> NoPeer]
  /\ future = [r \in Requests |-> "none"]
  /\ waiter = [w \in Waiters |-> "idle"]
  /\ accepts = [w \in Waiters |-> {}]
  /\ found = [w \in Waiters |-> NoSession]

-----------------------------------------------------------------------------
(* Helpers of the table.                                                   *)

\* list_all: the sessions that are visible and routable.
Listed == {s \in SessionIds : phase[s] = "active"}

\* _active_entry plus the peer check that the operations on requests make.
Owns(p, s) == phase[s] = "active" /\ owner[s] = p

\* _matches_wait_criteria for a queued waiter w.  A session's id and project
\* never change, so the criteria fixed by the call are a set of ids.
Matches(s, w) == s \in accepts[w]

\* Mutant: the route is not cleared when its editor leaves.
ActiveAfterRemoving_Stale(s) == activeId

\* _on_removed: the default route once s has left.
ActiveAfterRemoving(s) ==
  LET survivors == Listed \ {s}
  IN  IF activeId # s THEN activeId
      ELSE IF \E t \in survivors : survivors = {t}
           THEN CHOOSE t \in survivors : TRUE
           ELSE NoSession

\* Mutant: the peer is not compared, so any handler removes the entry.
RemoveConnection_AnyPeer(s, p) ==
  /\ phase' = [phase EXCEPT ![s] = "absent"]
  /\ owner' = [owner EXCEPT ![s] = NoPeer]
  /\ readiness' = [readiness EXCEPT ![s] = AnyReadiness]
  /\ pending' = [pending EXCEPT ![s] = {}]
  /\ pendingCount' = pendingCount - Cardinality(pending[s])
  /\ future' = [r \in Requests |->
                  IF r \in pending[s] /\ future[r] = "waiting" THEN "failed" ELSE future[r]]
  /\ activeId' = IF phase[s] = "active" THEN ActiveAfterRemoving(s) ELSE activeId

\* Mutant: the entry goes and its futures are neither failed nor uncounted.
RemoveConnection_Forgets(s, p) ==
  \/ /\ phase[s] # "absent" /\ owner[s] = p
     /\ phase' = [phase EXCEPT ![s] = "absent"]
     /\ owner' = [owner EXCEPT ![s] = NoPeer]
     /\ readiness' = [readiness EXCEPT ![s] = AnyReadiness]
     /\ pending' = [pending EXCEPT ![s] = {}]
     /\ UNCHANGED <<pendingCount, future>>
     /\ activeId' = IF phase[s] = "active" THEN ActiveAfterRemoving(s) ELSE activeId
  \/ /\ phase[s] = "absent" \/ owner[s] # p
     /\ UNCHANGED <<tableVars, workVars, activeId>>

\* remove_connection(s, peer=p): only the entry that p owns, with its work.
RemoveConnection(s, p) ==
  \/ /\ phase[s] # "absent" /\ owner[s] = p
     /\ phase' = [phase EXCEPT ![s] = "absent"]
     /\ owner' = [owner EXCEPT ![s] = NoPeer]
     /\ readiness' = [readiness EXCEPT ![s] = AnyReadiness]
     /\ pending' = [pending EXCEPT ![s] = {}]
     /\ pendingCount' = pendingCount - Cardinality(pending[s])
     /\ future' = [r \in Requests |->
                     IF r \in pending[s] /\ future[r] = "waiting"
                     THEN "failed" ELSE future[r]]
     /\ activeId' = IF phase[s] = "active" THEN ActiveAfterRemoving(s) ELSE activeId
  \/ /\ phase[s] = "absent" \/ owner[s] # p
     /\ UNCHANGED <<tableVars, workVars, activeId>>

\* Mutant: every editor that connects takes the route, and only the first one
\* wakes the waiters.
OnPublished_Greedy(s) ==
  /\ activeId' = s
  /\ waiter' = [w \in Waiters |->
                  IF activeId = NoSession /\ waiter[w] = "waiting" /\ Matches(s, w)
                  THEN "woken" ELSE waiter[w]]
  /\ found' = [w \in Waiters |->
                 IF activeId = NoSession /\ waiter[w] = "waiting" /\ Matches(s, w)
                 THEN s ELSE found[w]]
  /\ UNCHANGED accepts

\* _on_published: a first editor becomes the default route, and every waiter
\* whose future is still open and whose criteria match is woken with it.
OnPublished(s) ==
  /\ activeId' = IF activeId = NoSession THEN s ELSE activeId
  /\ waiter' = [w \in Waiters |->
                  IF waiter[w] = "waiting" /\ Matches(s, w) THEN "woken" ELSE waiter[w]]
  /\ found' = [w \in Waiters |->
                 IF waiter[w] = "waiting" /\ Matches(s, w) THEN s ELSE found[w]]
  /\ UNCHANGED accepts

\* _pop_request on behalf of peer p; the future is left to the caller.
PopRequest(s, r) ==
  /\ pending' = [pending EXCEPT ![s] = @ \ {r}]
  /\ pendingCount' = pendingCount - 1

\* Mutant: the counter drops even when the request was already claimed.
CallEnds_AlwaysDecrements(r) ==
  /\ pendingCount' = pendingCount - 1
  /\ pending' = [s \in SessionIds |-> pending[s] \ {r}]
  /\ call' = [call EXCEPT ![r] = "done"]
  /\ target' = [target EXCEPT ![r] = NoSession]
  /\ route' = [route EXCEPT ![r] = NoPeer]
  /\ future' = [future EXCEPT ![r] = "none"]
  /\ UNCHANGED <<tableVars, activeId, handler, claimed, waiterVars>>

\* send_command ends: its finally clause is cancel_request(s, r, peer=p), which
\* drops a request still held; then the task's locals are gone.
CallEnds(r) ==
  LET s == target[r]
  IN  /\ \/ /\ Owns(route[r], s) /\ r \in pending[s]
            /\ PopRequest(s, r)
         \/ /\ ~(Owns(route[r], s) /\ r \in pending[s])
            /\ UNCHANGED <<pending, pendingCount>>
      /\ call' = [call EXCEPT ![r] = "done"]
      /\ target' = [target EXCEPT ![r] = NoSession]
      /\ route' = [route EXCEPT ![r] = NoPeer]
      /\ future' = [future EXCEPT ![r] = "none"]
      /\ UNCHANGED <<tableVars, activeId, handler, claimed, waiterVars>>

-----------------------------------------------------------------------------
(* The connection handlers.                                                *)

\* A handshake that fails before the id is known closes the socket; nothing
\* is in the table yet, and finally removes nothing.
HandshakeFails(p) ==
  /\ handler[p] = "opening"
  /\ handler' = [handler EXCEPT ![p] = "closed"]
  /\ UNCHANGED <<tableVars, workVars, activeId, claimed, callVars, waiterVars>>

\* The proof is good and the id is free: reserve it, then await the ACK send.
Reserve(p, s, rd) ==
  /\ handler[p] = "opening"
  /\ phase[s] = "absent"
  /\ phase' = [phase EXCEPT ![s] = "pending"]
  /\ owner' = [owner EXCEPT ![s] = p]
  /\ readiness' = [readiness EXCEPT ![s] = rd]
  /\ handler' = [handler EXCEPT ![p] = "acking"]
  /\ claimed' = [claimed EXCEPT ![p] = s]
  /\ UNCHANGED <<workVars, activeId, callVars, waiterVars>>

\* The id is taken (reserved or live): await ws.close(4001).
RejectDuplicate(p, s) ==
  /\ handler[p] = "opening"
  /\ phase[s] # "absent"
  /\ handler' = [handler EXCEPT ![p] = "rejected"]
  /\ claimed' = [claimed EXCEPT ![p] = s]
  /\ UNCHANGED <<tableVars, workVars, activeId, callVars, waiterVars>>

\* The ACK left: publish_connection in the same loop iteration.
Publish(p) ==
  LET s == claimed[p]
  IN  /\ handler[p] = "acking"
      /\ phase[s] = "pending" /\ owner[s] = p
      /\ phase' = [phase EXCEPT ![s] = "active"]
      /\ OnPublished(s)
      /\ handler' = [handler EXCEPT ![p] = "serving"]
      /\ UNCHANGED <<owner, readiness, workVars, claimed, callVars>>

\* The handler leaves: a rejected duplicate, a failed ACK or a lost socket.
\* The finally clause runs remove_connection with its own socket as peer.
HandlerEnds(p) ==
  /\ handler[p] \in {"rejected", "acking", "serving"}
  /\ handler' = [handler EXCEPT ![p] = "closed"]
  /\ claimed' = [claimed EXCEPT ![p] = NoSession]
  /\ RemoveConnection(claimed[p], p)
  /\ UNCHANGED <<callVars, waiterVars>>

\* Mutant: the reply is applied without asking whether its future is done.
ResponseFrame_Unguarded(p, r, rd) ==
  LET s == claimed[p]
  IN  /\ handler[p] = "serving"
      /\ Owns(p, s) /\ r \in pending[s]
      /\ PopRequest(s, r)
      /\ future' = [future EXCEPT ![r] = "result"]
      /\ readiness' = [readiness EXCEPT ![s] = rd]
      /\ UNCHANGED <<phase, owner, activeId, handler, claimed, callVars, waiterVars>>

\* A valid response frame for r.  Unowned or already settled requests have no
\* authority: an unowned frame is a stutter, and a request whose future is
\* done is popped without touching the snapshot.
ResponseFrame(p, r, rd) ==
  LET s == claimed[p]
  IN  /\ handler[p] = "serving"
      /\ Owns(p, s) /\ r \in pending[s]
      /\ PopRequest(s, r)
      /\ \/ /\ future[r] = "waiting"
            /\ future' = [future EXCEPT ![r] = "result"]
            /\ readiness' = [readiness EXCEPT ![s] = rd]
         \/ /\ future[r] # "waiting"
            /\ UNCHANGED <<future, readiness>>
      /\ UNCHANGED <<phase, owner, activeId, handler, claimed, callVars, waiterVars>>

\* A frame that names r and is no valid response fails r at once (#526).
MalformedFrame(p, r) ==
  LET s == claimed[p]
  IN  /\ handler[p] = "serving"
      /\ Owns(p, s) /\ r \in pending[s]
      /\ PopRequest(s, r)
      /\ future' = IF future[r] = "waiting"
                   THEN [future EXCEPT ![r] = "malformed"] ELSE future
      /\ UNCHANGED <<tableVars, activeId, handler, claimed, callVars, waiterVars>>

\* A readiness_changed event.
ReadinessEvent(p, rd) ==
  LET s == claimed[p]
  IN  /\ handler[p] = "serving"
      /\ phase[s] = "active"
      /\ readiness' = [readiness EXCEPT ![s] = rd]
      /\ UNCHANGED <<phase, owner, workVars, activeId, handler, claimed, callVars, waiterVars>>

-----------------------------------------------------------------------------
(* Commands.                                                               *)

\* open_request and the start of ws.send.  Each refusal (no live peer, either
\* budget full) raises before any assignment, and is a stutter here.
OpenRequest(r, s) ==
  /\ call[r] = "idle"
  /\ phase[s] = "active"
  /\ Cardinality(pending[s]) < MaxPendingPerPeer
  /\ pendingCount < MaxPendingTotal
  /\ pending' = [pending EXCEPT ![s] = @ \cup {r}]
  /\ pendingCount' = pendingCount + 1
  /\ future' = [future EXCEPT ![r] = "waiting"]
  /\ call' = [call EXCEPT ![r] = "sending"]
  /\ target' = [target EXCEPT ![r] = s]
  /\ route' = [route EXCEPT ![r] = owner[s]]
  /\ UNCHANGED <<tableVars, activeId, handler, claimed, waiterVars>>

\* ws.send drained.
Sent(r) ==
  /\ call[r] = "sending"
  /\ call' = [call EXCEPT ![r] = "awaiting"]
  /\ UNCHANGED <<tableVars, workVars, activeId, handler, claimed, target, route, waiterVars>>

\* ws.send raises because the socket closed; its handler may not know yet.
SendFails(r) ==
  /\ call[r] = "sending"
  /\ CallEnds(r)

\* The future is done and the task resumes with its result or exception.
CallReturns(r) ==
  /\ call[r] = "awaiting"
  /\ future[r] # "waiting"
  /\ CallEnds(r)

\* asyncio.timeout (or the caller) cancels the task, at either await.  A
\* future that the task is awaiting is cancelled on the spot; the entry stays
\* in the table until the task runs again.
DeadlineFires(r) ==
  /\ call[r] \in {"sending", "awaiting"}
  /\ call' = [call EXCEPT ![r] = "unwinding"]
  /\ future' = IF call[r] = "awaiting" /\ future[r] = "waiting"
               THEN [future EXCEPT ![r] = "cancelled"] ELSE future
  /\ UNCHANGED <<tableVars, pending, pendingCount, activeId, handler, claimed,
                 target, route, waiterVars>>

Unwind(r) ==
  /\ call[r] = "unwinding"
  /\ CallEnds(r)

\* session_activate.
SetActive(s) ==
  /\ phase[s] = "active"
  /\ activeId' = s
  /\ UNCHANGED <<tableVars, workVars, handler, claimed, callVars, waiterVars>>

-----------------------------------------------------------------------------
(* wait_for_session.                                                       *)

\* A session that already matches is returned at once, a stutter; otherwise the
\* waiter is queued, with no await between the look and the append.
WaitForSession(w, ids) ==
  /\ waiter[w] = "idle"
  /\ Listed \cap ids = {}
  /\ waiter' = [waiter EXCEPT ![w] = "waiting"]
  /\ accepts' = [accepts EXCEPT ![w] = ids]
  /\ UNCHANGED <<found, tableVars, workVars, activeId, handler, claimed, callVars>>

\* The call is over, and its locals with it.
WaiterEnds(w) ==
  /\ waiter' = [waiter EXCEPT ![w] = "idle"]
  /\ accepts' = [accepts EXCEPT ![w] = {}]
  /\ found' = [found EXCEPT ![w] = NoSession]
  /\ UNCHANGED <<tableVars, workVars, activeId, handler, claimed, callVars>>

WaiterReturns(w) == waiter[w] = "woken" /\ WaiterEnds(w)

\* The timeout cancels the future; the tuple leaves the list in finally.  A
\* waiter that was woken in the same iteration may lose the answer.
WaiterDeadline(w) ==
  /\ waiter[w] \in {"waiting", "woken"}
  /\ waiter' = [waiter EXCEPT ![w] = "expiring"]
  /\ found' = [found EXCEPT ![w] = NoSession]
  /\ UNCHANGED <<tableVars, workVars, activeId, handler, claimed, callVars, accepts>>

WaiterExpires(w) == waiter[w] = "expiring" /\ WaiterEnds(w)

-----------------------------------------------------------------------------
ConnectionStep ==
  \E p \in Peers :
    \/ HandshakeFails(p)
    \/ \E s \in SessionIds, rd \in Readiness : Reserve(p, s, rd)
    \/ \E s \in SessionIds : RejectDuplicate(p, s)
    \/ Publish(p)
    \/ HandlerEnds(p)
    \/ \E r \in Requests, rd \in Readiness : ResponseFrame(p, r, rd)
    \/ \E r \in Requests : MalformedFrame(p, r)
    \/ \E rd \in Readiness : ReadinessEvent(p, rd)

CallStep ==
  \E r \in Requests :
    \/ \E s \in SessionIds : OpenRequest(r, s)
    \/ Sent(r)
    \/ SendFails(r)
    \/ CallReturns(r)
    \/ DeadlineFires(r)
    \/ Unwind(r)

WaiterStep ==
  \E w \in Waiters :
    \/ \E ids \in SUBSET SessionIds : WaitForSession(w, ids)
    \/ WaiterReturns(w)
    \/ WaiterDeadline(w)
    \/ WaiterExpires(w)

Next ==
  \/ ConnectionStep
  \/ CallStep
  \/ WaiterStep
  \/ \E s \in SessionIds : SetActive(s)

Spec == Init /\ [][Next]_vars

-----------------------------------------------------------------------------
(* Properties.                                                             *)

\* The table and the handlers agree: an entry is pending exactly while one
\* handler awaits its ACK, active exactly while one handler serves it, and it
\* is that handler's.  A rejected duplicate or a handler that left owns
\* nothing, so its cleanup cannot erase the live editor, and no entry
\* outlives its socket.
EntryOwnership ==
  /\ \A p \in Peers :
       /\ handler[p] \in {"rejected", "acking", "serving"} => claimed[p] \in SessionIds
       /\ handler[p] = "acking" => phase[claimed[p]] = "pending" /\ owner[claimed[p]] = p
       /\ handler[p] = "serving" => phase[claimed[p]] = "active" /\ owner[claimed[p]] = p
  /\ \A s \in SessionIds :
       /\ phase[s] = "absent" => owner[s] = NoPeer /\ pending[s] = {}
       /\ phase[s] = "pending" => /\ owner[s] \in Peers /\ handler[owner[s]] = "acking"
                                  /\ claimed[owner[s]] = s /\ pending[s] = {}
       /\ phase[s] = "active" => /\ owner[s] \in Peers /\ handler[owner[s]] = "serving"
                                 /\ claimed[owner[s]] = s

\* Requests that some editor holds.
OpenRequests == UNION {pending[s] : s \in SessionIds}

\* No request leaks: what an editor's table holds is a command still running
\* that was sent to this very connection of it.  A leak would eat the budget
\* for good.
NoLeakedRequest ==
  \A s \in SessionIds : \A r \in pending[s] :
    /\ call[r] \in Running
    /\ target[r] = s
    /\ route[r] = owner[s]

\* The aggregate counter is the number of requests held, and both budgets hold
\* across sends, replies, deadlines and disconnects in any order.
PendingBudget ==
  /\ pendingCount = Cardinality(OpenRequests)
  /\ pendingCount <= MaxPendingTotal
  /\ \A s \in SessionIds : Cardinality(pending[s]) <= MaxPendingPerPeer

\* The budgets count the requests in flight and nothing else, whichever of a
\* reply, a deadline, a disconnect and a failed send ended the others.
RequestsAccounted == NoLeakedRequest /\ PendingBudget

\* Nobody waits on a future that nobody can settle: while a command's future is
\* open, the connection it was sent on is served and still holds it.
NoOrphanedCall ==
  \A r \in Requests :
    /\ call[r] \in Running => target[r] \in SessionIds /\ route[r] \in Peers
    /\ future[r] # "none" => call[r] \in Running
    /\ future[r] = "waiting" =>
         /\ r \in pending[target[r]]
         /\ handler[route[r]] = "serving"

\* The default route of unpinned calls always names a listed session: an
\* editor that left or whose ACK has not been sent is never the route.
ActiveIsRoutable == activeId # NoSession => phase[activeId] = "active"

\* No wake-up is lost between the look and the queue, and no waiter is given
\* a session it excluded: while one is queued nothing listed matches it.
NoLostWakeup ==
  \A w \in Waiters :
    /\ waiter[w] = "waiting" => \A s \in Listed : ~Matches(s, w)
    /\ found[w] # NoSession => waiter[w] = "woken" /\ Matches(found[w], w)

\* A future is settled once.  A second set_result or set_exception raises
\* InvalidStateError inside the receive loop, whose catch-all would drop the
\* editor; and a reply that finds its future settled leaves the snapshot alone.
SettledOnce ==
  [][\A r \in Requests :
       (future[r] \notin {"none", "waiting"} /\ call'[r] # "done") =>
         /\ future'[r] = future[r]
         /\ \A s \in SessionIds :
              (r \in pending[s] /\ r \notin pending'[s] /\ owner'[s] = owner[s]) =>
                readiness'[s] = readiness[s]]_vars

\* A connecting or leaving editor never takes the route from a live one: while
\* the routed session stays, only session_activate (which moves no entry)
\* changes it.
DefaultRouteStable ==
  [][(activeId # NoSession /\ activeId' # activeId) =>
        \/ phase'[activeId] = "absent"
        \/ UNCHANGED <<phase, owner>>]_vars

=============================================================================
