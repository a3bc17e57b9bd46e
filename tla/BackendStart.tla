------------------------------ MODULE BackendStart ------------------------------
(***************************************************************************)
(* How a bridge gets its backend: BackendEnsurer.ensure against the start  *)
(* and the end of server processes, on one HTTP port and one WebSocket     *)
(* port.  Nobody coordinates them but three things of the operating        *)
(* system: the bridges' startup lock, the servers' port claim (both        *)
(* released when their process dies) and the capability record, a file     *)
(* that outlives its writer.  Editors launch servers too, and do not take  *)
(* the lock.                                                               *)
(*                                                                         *)
(* A record names its server: it stands for the nonce and the credential   *)
(* of one launch.  Bridges are calls of ensure, one at a time each.        *)
(***************************************************************************)
EXTENDS Integers, FiniteSets

CONSTANTS
  Bridges,
  Impatient,      \* those whose call may be cancelled or whose process may die
  Servers,        \* server processes, launched in this order (bound: their number)
  None, Denied, Refused   \* no process; an answer 401; no connection

ASSUME StartAssumption ==
  /\ Impatient \subseteq Bridges
  /\ Servers \subseteq Nat /\ {None, Denied, Refused} \cap Servers = {}
  /\ None \notin [by : Bridges, as : {"call", "worker"}]

VARIABLES
  lock,     \* who holds the startup lock, [by, as], or None
  claim,    \* the server that holds the port claim
  record,   \* the server the capability record names
  http, ws, \* the server that holds each port
  server,   \* how far each server is
  bridge,   \* each bridge's call: where it is, and its probe
  backend,  \* the server it spawned and waits for, or found healthy last
  served,   \* _served_backend
  orphan    \* bridges with a lock worker whose caller was cancelled

system == <<claim, record, http, ws, server>>
caller == <<bridge, backend, served>>
vars   == <<lock, system, caller, orphan>>

Idle == [at |-> "idle", phase |-> "adopt", seen |-> None, answer |-> None, again |-> FALSE]

Init ==
  /\ lock = None /\ claim = None /\ record = None /\ http = None /\ ws = None
  /\ server = [s \in Servers |-> "unborn"]
  /\ bridge = [b \in Bridges |-> Idle]
  /\ backend = [b \in Bridges |-> None]
  /\ served = [b \in Bridges |-> FALSE]
  /\ orphan = {}

NextServer(s) == server[s] = "unborn" /\ \A r \in Servers : server[r] = "unborn" => s <= r

Moved(b, at) == bridge' = [bridge EXCEPT ![b].at = at]

-----------------------------------------------------------------------------
(* The startup lock.                                                       *)

Holds(b)     == lock = [by |-> b, as |-> "call"]
OrphanHas(b) == lock = [by |-> b, as |-> "worker"]

Ensure(b) ==
  /\ bridge[b].at = "idle" /\ Moved(b, "acquiring")
  /\ UNCHANGED <<lock, system, backend, served, orphan>>

Acquire(b) ==
  /\ bridge[b].at = "acquiring" /\ lock = None
  /\ lock' = [by |-> b, as |-> "call"] /\ Moved(b, "reading")
  /\ UNCHANGED <<system, backend, served, orphan>>

\* ATTACH_LOCK_TIMEOUT.
LockTimeout(b) ==
  /\ bridge[b].at = "acquiring" /\ Moved(b, "idle")
  /\ UNCHANGED <<lock, system, backend, served, orphan>>

\* The request that asked for the backend is cancelled.  Its thread goes on
\* polling for the lock; within the lock, __aexit__ releases.
Cancel(b) ==
  /\ b \in Impatient /\ bridge[b].at \notin {"idle", "dead"}
  /\ bridge' = [bridge EXCEPT ![b] = Idle]
  /\ IF bridge[b].at = "acquiring"
     THEN b \notin orphan /\ orphan' = orphan \cup {b} /\ UNCHANGED lock
     ELSE lock' = None /\ UNCHANGED orphan
  /\ backend' = [backend EXCEPT ![b] = None]
  /\ UNCHANGED <<system, served>>

OrphanAcquires(b) ==
  /\ b \in orphan /\ ~OrphanHas(b)
  /\ \/ lock = None /\ lock' = [by |-> b, as |-> "worker"] /\ UNCHANGED orphan
     \/ orphan' = orphan \ {b} /\ UNCHANGED lock
  /\ UNCHANGED <<system, caller>>

\* Mutant: nobody looks at the worker's result.
OrphanReleases_Never(b) == FALSE /\ UNCHANGED vars

\* _release_after_cancelled_acquire.
OrphanReleases(b) ==
  /\ OrphanHas(b) /\ lock' = None /\ orphan' = orphan \ {b}
  /\ UNCHANGED <<system, caller>>

BridgeDies(b) ==
  /\ b \in Impatient /\ bridge[b].at # "dead"
  /\ bridge' = [bridge EXCEPT ![b] = [Idle EXCEPT !.at = "dead"]]
  /\ lock' = IF Holds(b) \/ OrphanHas(b) THEN None ELSE lock
  /\ orphan' = orphan \ {b}
  /\ backend' = [backend EXCEPT ![b] = None]
  /\ UNCHANGED <<system, served>>

-----------------------------------------------------------------------------
(* probe_backend: the record before the request, the record after it.      *)

\* The call ends with an error, releasing the lock.
Fails(b) ==
  /\ bridge' = [bridge EXCEPT ![b] = Idle] /\ lock' = None
  /\ backend' = [backend EXCEPT ![b] = None]
  /\ UNCHANGED served

\* The call ends with the status of s.
Succeeds(b, s) ==
  /\ bridge' = [bridge EXCEPT ![b] = Idle] /\ lock' = None
  /\ backend' = [backend EXCEPT ![b] = s]
  /\ served' = [served EXCEPT ![b] = TRUE]

ReadRecord(b) ==
  /\ bridge[b].at = "reading"
  /\ bridge' = [bridge EXCEPT
       ![b].at = IF bridge[b].phase # "wait" /\ record = None THEN "unanswered" ELSE "asking",
       ![b].seen = record, ![b].again = FALSE]
  /\ UNCHANGED <<lock, system, backend, served, orphan>>

\* The credential presented: while waiting for a child, the child's.
Credential(b) == IF bridge[b].phase = "wait" THEN backend[b] ELSE bridge[b].seen

Ask(b) ==
  /\ bridge[b].at = "asking"
  /\ \/ Moved(b, "unanswered")
     \/ /\ http = None
        /\ bridge' = [bridge EXCEPT ![b].at = "checking", ![b].answer = Refused]
     \/ /\ http # None /\ server[http] = "serving"
        /\ bridge' = [bridge EXCEPT ![b].at = "checking",
                        ![b].answer = IF Credential(b) = http THEN http ELSE Denied]
  /\ UNCHANGED <<lock, system, backend, served, orphan>>

\* Mutant: the record is compared again only when the connection was refused.
Rotated_WhenRefused(b) ==
  bridge[b].answer = Refused /\ record # None /\ record # bridge[b].seen

\* Another record was published since the one that was read.
Rotated(b) == record # None /\ record # bridge[b].seen

\* The record of this moment binds the credential to the instance.
Pinned(b) == bridge[b].answer \in Servers /\ record = bridge[b].answer

\* What answered is taken for a foreign occupant of the port.
Occupied(b) ==
  /\ bridge[b].at = "checking" /\ ~Pinned(b) /\ bridge[b].answer # Refused
  /\ bridge[b].again \/ ~Rotated(b)

\* _validate may refuse a server it did not spawn: another version, WebSocket
\* port or other excluded domains.  A rotated record is worth one more request.
CheckRecord(b) ==
  /\ bridge[b].at = "checking"
  /\ \/ /\ Pinned(b)
        /\ Succeeds(b, bridge[b].answer) \/ (bridge[b].phase # "wait" /\ Fails(b))
     \/ /\ ~Pinned(b) /\ ~bridge[b].again /\ Rotated(b)
        /\ bridge' = [bridge EXCEPT ![b].at = "asking", ![b].seen = record, ![b].again = TRUE]
        /\ UNCHANGED <<lock, backend, served>>
     \/ /\ bridge[b].answer = Refused /\ (bridge[b].again \/ ~Rotated(b))
        /\ Moved(b, "unanswered") /\ UNCHANGED <<lock, backend, served>>
     \/ Occupied(b) /\ Fails(b)                      \* PORT_OCCUPIED
  /\ UNCHANGED <<system, orphan>>

-----------------------------------------------------------------------------
(* What no answer means: _adopt_existing, _await_replacement and the loop  *)
(* that waits for the child.                                               *)

Exited(s) == server[s] = "exited"

\* port_available: it is tried, not asked for.
PortFree == http = None

Retry(b) ==
  /\ bridge[b].at = "unanswered"
  /\ \/ bridge[b].phase \in {"adopt", "replace"} /\ ~PortFree
     \/ bridge[b].phase = "replace" /\ PortFree     \* the grace lasts
     \/ bridge[b].phase = "wait" /\ ~Exited(backend[b])
  /\ Moved(b, "reading")
  /\ UNCHANGED <<lock, system, backend, served, orphan>>

\* The port is free: at once, or after the grace for an editor's replacement.
NothingThere(b) ==
  /\ bridge[b].at = "unanswered" /\ bridge[b].phase = "adopt" /\ PortFree
  /\ bridge' = [bridge EXCEPT ![b].at = IF served[b] THEN "reading" ELSE "launching",
                              ![b].phase = IF served[b] THEN "replace" ELSE "adopt"]
  /\ UNCHANGED <<lock, system, backend, served, orphan>>

Deadline(b) ==
  /\ bridge[b].at = "unanswered"
  /\ \/ bridge[b].phase \in {"adopt", "replace"} /\ ~PortFree /\ Fails(b)
     \/ /\ bridge[b].phase = "replace" /\ PortFree /\ Moved(b, "launching")
        /\ UNCHANGED <<lock, backend, served>>
     \/ bridge[b].phase = "wait" /\ Fails(b)        \* the child is left alone
  /\ UNCHANGED <<system, orphan>>

ChildExited(b) ==
  /\ bridge[b].at = "unanswered" /\ bridge[b].phase = "wait" /\ Exited(backend[b])
  /\ Fails(b)
  /\ UNCHANGED <<system, orphan>>

\* Mutant: the lock guards the decision, not the wait.
Kept_UntilSpawned(b) == None

\* The lock is kept until the child is healthy.
Kept(b) == lock

\* The WebSocket port is taken, or the log or the process cannot be had.
CannotLaunch(b) ==
  /\ bridge[b].at = "launching" /\ Fails(b)
  /\ UNCHANGED <<system, orphan>>

Launch(b) ==
  /\ bridge[b].at = "launching" /\ ws = None
  /\ \E s \in Servers :
       /\ NextServer(s)
       /\ server' = [server EXCEPT ![s] = "starting"]
       /\ backend' = [backend EXCEPT ![b] = s]
  /\ bridge' = [bridge EXCEPT ![b].at = "reading", ![b].phase = "wait"]
  /\ lock' = Kept(b)
  /\ UNCHANGED <<claim, record, http, ws, served, orphan>>

-----------------------------------------------------------------------------
(* A server, from main to the end of its lifespan.                         *)

Others  == UNCHANGED <<lock, caller, orphan>>
Free(p, s) == p \in {None, s}
Left(p, s) == IF p = s THEN None ELSE p

At(s, from, to) == server[s] = from /\ server' = [server EXCEPT ![s] = to]

\* The process is gone and with it all the system kept for it.
Gone(s) ==
  /\ server' = [server EXCEPT ![s] = "exited"]
  /\ claim' = Left(claim, s) /\ http' = Left(http, s) /\ ws' = Left(ws, s)

\* An editor starts a server; one that is to replace a running one waits for
\* the ports.
EditorLaunches(s) ==
  /\ NextServer(s)
  /\ At(s, "unborn", "starting") \/ At(s, "unborn", "waiting")
  /\ Others /\ UNCHANGED <<claim, record, http, ws>>

\* preflight_check_port, without and with the wait.
Preflight(s) ==
  /\ server[s] = "starting"
  /\ IF http = None /\ ws = None THEN At(s, "starting", "claiming") /\ UNCHANGED <<claim, http, ws>>
                                 ELSE Gone(s)
  /\ Others /\ UNCHANGED record

HoldHttp(s) ==
  /\ server[s] = "waiting" /\ http = None /\ http' = s
  /\ Others /\ UNCHANGED <<server, claim, record, ws>>

HoldWs(s) ==
  /\ http = s /\ ws = None /\ ws' = s /\ At(s, "waiting", "claiming")
  /\ Others /\ UNCHANGED <<claim, record, http>>

\* acquire_port_claim, retried for a while; the listener; the record.
Claim(s) ==
  /\ claim = None /\ claim' = s /\ At(s, "claiming", "binding")
  /\ Others /\ UNCHANGED <<record, http, ws>>

Publish(s) ==
  /\ Free(ws, s) /\ ws' = s /\ record' = s /\ At(s, "binding", "opening")
  /\ Others /\ UNCHANGED <<claim, http>>

\* write_capabilities finds the file it published not as it should be, and takes
\* it back before it raises.
PublishFails(s) ==
  /\ Free(ws, s) /\ ws' = s /\ record' = s /\ At(s, "binding", "removing")
  /\ Others /\ UNCHANGED <<claim, http>>

\* A port that stays taken, or anything else that ends the start before the
\* record is written.
StartFails(s) ==
  /\ server[s] \in {"waiting", "claiming", "binding"} /\ Gone(s)
  /\ Others /\ UNCHANGED record

\* Uvicorn binds the HTTP port after the lifespan's start, and ends the
\* lifespan when it cannot.
OpenHttp(s) ==
  /\ IF Free(http, s) THEN http' = s /\ At(s, "opening", "serving")
                      ELSE UNCHANGED http /\ At(s, "opening", "leaving")
  /\ Others /\ UNCHANGED <<claim, record, ws>>

Stop(s) ==
  /\ At(s, "serving", "leaving") /\ http' = Left(http, s)
  /\ Others /\ UNCHANGED <<claim, record, ws>>

\* Mutant: the claim is let go first.
ClaimKept_Not(s) == Left(claim, s)

\* The claim is kept while the record is compared and unlinked.
ClaimKept(s) == claim

\* remove_capabilities compares ...
CompareRecord(s) ==
  /\ server[s] = "leaving"
  /\ IF record = s THEN /\ At(s, "leaving", "removing")
                        /\ ws' = Left(ws, s) /\ claim' = ClaimKept(s) /\ UNCHANGED http
                   ELSE Gone(s)
  /\ Others /\ UNCHANGED record

\* ... and unlinks whatever is there by then, as write_capabilities does, and
\* the claim is let go.
UnlinkRecord(s) ==
  /\ server[s] = "removing" /\ record' = None /\ Gone(s)
  /\ Others

\* A crash, or an editor that kills the occupant.
Killed(s) ==
  /\ server[s] \notin {"unborn", "exited"} /\ Gone(s)
  /\ Others /\ UNCHANGED record

ServerSteps(s) ==
  \/ Preflight(s) \/ HoldHttp(s) \/ HoldWs(s) \/ Claim(s) \/ Publish(s)
  \/ PublishFails(s) \/ StartFails(s) \/ OpenHttp(s) \/ CompareRecord(s) \/ UnlinkRecord(s)

BridgeSteps(b) ==
  \/ Acquire(b) \/ LockTimeout(b)
  \/ ReadRecord(b) \/ Ask(b) \/ CheckRecord(b)
  \/ Retry(b) \/ NothingThere(b) \/ Deadline(b) \/ ChildExited(b)
  \/ CannotLaunch(b) \/ Launch(b)

Next ==
  \/ \E b \in Bridges : \/ Ensure(b) \/ BridgeSteps(b) \/ Cancel(b) \/ BridgeDies(b)
                        \/ OrphanAcquires(b) \/ OrphanReleases(b)
  \/ \E s \in Servers : EditorLaunches(s) \/ ServerSteps(s) \/ Stop(s) \/ Killed(s)

Spec == Init /\ [][Next]_vars

\* A bridge that lives takes its steps and its clock reaches its deadlines
\* however often it polls; so does its lock worker.  Of the servers nothing is
\* assumed.
Fairness ==
  \A b \in Bridges :
    /\ WF_vars(BridgeSteps(b)) /\ SF_vars(Deadline(b))
    /\ WF_vars(OrphanAcquires(b)) /\ WF_vars(OrphanReleases(b))

FairSpec == Spec /\ Fairness

-----------------------------------------------------------------------------
(* Properties.                                                             *)

CallState ==
  [at : {"idle", "acquiring", "reading", "asking", "checking", "unanswered", "launching", "dead"},
   phase : {"adopt", "replace", "wait"}, seen : Servers \cup {None},
   answer : Servers \cup {None, Denied, Refused}, again : BOOLEAN]

TypeOK ==
  /\ lock \in {None} \cup [by : Bridges, as : {"call", "worker"}]
  /\ {claim, record, http, ws} \subseteq Servers \cup {None}
  /\ server \in [Servers -> {"unborn", "starting", "waiting", "claiming", "binding",
                             "opening", "serving", "leaving", "removing", "exited"}]
  /\ bridge \in [Bridges -> CallState]
  /\ backend \in [Bridges -> Servers \cup {None}]
  /\ served \in [Bridges -> BOOLEAN] /\ orphan \subseteq Bridges

\* The record of a server that serves, or is about to, is its own and stands:
\* neither the end of an earlier server, however late it comes to unlink, nor
\* the start of a rival takes it away.
RecordStands ==
  \A s \in Servers : server[s] \in {"opening", "serving"} => record = s /\ claim = s

\* No bridge spawns while a server lives that a bridge still waits for or
\* found healthy at its last call.
Usable(s) == server[s] \notin {"unborn", "leaving", "removing", "exited"}

NoRivalChild ==
  [][\A b \in Bridges : bridge[b].at = "launching" /\ bridge'[b].phase = "wait" =>
       \A c \in Bridges : backend[c] # None => ~Usable(backend[c])]_vars

\* Though servers come and go between the reading of the record, the request
\* and the answer, no bridge calls a backend it could use a foreign occupant: it
\* says so only when none serves at that moment, or not its child while it waits
\* for it, or when the record was replaced twice within the one probe.
Sought(b) == {s \in Servers : bridge[b].phase = "wait" => s = backend[b]}

NoFalseOccupant ==
  \A b \in Bridges :
    Occupied(b) => Rotated(b) \/ \A s \in Sought(b) : server[s] # "serving"

\* Whoever holds the startup lock, a call or the worker of a cancelled one,
\* lets it go, whatever servers do.
LockComesFree == \A b \in Bridges : (Holds(b) \/ OrphanHas(b)) ~> ~(Holds(b) \/ OrphanHas(b))

=============================================================================
