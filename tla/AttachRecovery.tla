---------------------------- MODULE AttachRecovery ----------------------------
(***************************************************************************)
(* The stdio bridge between an MCP client and the shared backend           *)
(* (attach/proxy.py): each request ensures a backend, opens a fresh        *)
(* downstream client, runs the operation beside a task that watches the    *)
(* backend's identity, and classifies a failure by what its transport      *)
(* recorded.  tools/call is replayed once and only when the failure proves *)
(* that the operation was not sent; every other request may run twice.     *)
(*                                                                         *)
(* An attempt of a request moves through the legs of its downstream client:*)
(* opening (client, initialize), notifying, calling (the operation's POST  *)
(* connects), sent (bytes may have left), then failed or answered.         *)
(***************************************************************************)
EXTENDS Integers, FiniteSets

CONSTANTS
  Calls,             \* requests of the MCP client
  ToolCalls,         \* those with method tools/call
  FailureThreshold,  \* monitor_failure_threshold
  MaxInstance        \* bound: backend launches

ASSUME AttachAssumption ==
  /\ ToolCalls \subseteq Calls
  /\ FailureThreshold \in Nat \ {0}   \* __init__ refuses less than one
  /\ MaxInstance \in Nat \ {0}

VARIABLES
  up,        \* a backend listens on the port
  instance,  \* instance_id of the latest backend
  wire,      \* <<call, attempt>>: operations at that backend, not performed yet
  executed,  \* <<call, attempt>>: operations some backend performed
  stage,     \* where the middleware coroutine of a request stands
  attempt,   \* which of its two attempts
  bound,     \* initial_status.instance_id of that attempt
  leg,       \* where the downstream client of the attempt stands
  error,     \* the exception it ended with
  trace,     \* OperationTrace.failures
  misses,    \* consecutive_failures of the monitor
  changed,   \* the monitor task returned
  outcome    \* what the MCP client is told

backendVars == <<up, instance, wire, executed>>
clientVars  == <<leg, error, trace>>
monitorVars == <<misses, changed>>
vars == <<backendVars, clientVars, monitorVars, stage, attempt, bound, outcome>>

Attempts == 1..2
Stage    == {"idle", "ensuring", "running", "done"}
Leg      == {"none", "opening", "notifying", "calling", "sent", "failed", "answered"}
Error    == {"none", "transport", "stream", "application", "startup"}
\* A recorded failure by phase; "connect" is a tools/call ConnectError or
\* ConnectTimeout, "broken" any other failure of the operation's own request.
Failure  == {"initialize", "notification", "connect", "broken", "http"}
Outcome  == {"none", "result", "outcome_unknown", "unavailable", "unstable",
             "startup_error", "raised", "cancelled"}

TypeOK ==
  /\ up \in BOOLEAN
  /\ instance \in Nat
  /\ wire \subseteq Calls \X Attempts
  /\ executed \subseteq Calls \X Attempts
  /\ stage \in [Calls -> Stage]
  /\ attempt \in [Calls -> {0} \cup Attempts]
  /\ bound \in [Calls -> Nat]
  /\ leg \in [Calls -> Leg]
  /\ error \in [Calls -> Error]
  /\ trace \in [Calls -> SUBSET Failure]
  /\ misses \in [Calls -> Nat]
  /\ changed \in [Calls -> BOOLEAN]
  /\ outcome \in [Calls -> Outcome]

Init ==
  /\ up = TRUE
  /\ instance = 1
  /\ wire = {}
  /\ executed = {}
  /\ stage = [c \in Calls |-> "idle"]
  /\ attempt = [c \in Calls |-> 0]
  /\ bound = [c \in Calls |-> 0]
  /\ leg = [c \in Calls |-> "none"]
  /\ error = [c \in Calls |-> "none"]
  /\ trace = [c \in Calls |-> {}]
  /\ misses = [c \in Calls |-> 0]
  /\ changed = [c \in Calls |-> FALSE]
  /\ outcome = [c \in Calls |-> "none"]

-----------------------------------------------------------------------------
(* Classification of a failed attempt.                                     *)

\* Mutant: any recorded connection-level failure is taken as proof.
ProvenPreDispatch_Lenient(c) == trace[c] # {}

\* _is_proven_pre_dispatch_failure.  The production transport records every
\* raw connect error, so its fallback to the exception chain adds nothing.
ProvenPreDispatch(c) == trace[c] \cap {"initialize", "connect"} # {}

\* _is_transport_failure: something was recorded (by this attempt, even if it
\* is not what was raised), or the SDK reports a stream that ended early.
TransportFailed(c) == trace[c] # {} \/ error[c] \in {"transport", "stream"}

\* Mutant: the failures of the first attempt stay in the trace.
BeginAttempt_KeepsTrace(c) ==
  /\ trace' = trace
  /\ leg' = [leg EXCEPT ![c] = "opening"]
  /\ error' = [error EXCEPT ![c] = "none"]
  /\ misses' = [misses EXCEPT ![c] = 0]
  /\ changed' = [changed EXCEPT ![c] = FALSE]

\* The start of _run_with_instance_monitor.
BeginAttempt(c) ==
  /\ trace' = [trace EXCEPT ![c] = {}]
  /\ leg' = [leg EXCEPT ![c] = "opening"]
  /\ error' = [error EXCEPT ![c] = "none"]
  /\ misses' = [misses EXCEPT ![c] = 0]
  /\ changed' = [changed EXCEPT ![c] = FALSE]

\* Both tasks are over or cancelled and awaited, the trace is reset, and the
\* request is answered.
Finish(c, o) ==
  /\ stage' = [stage EXCEPT ![c] = "done"]
  /\ outcome' = [outcome EXCEPT ![c] = o]
  /\ attempt' = [attempt EXCEPT ![c] = 0]
  /\ bound' = [bound EXCEPT ![c] = 0]
  /\ leg' = [leg EXCEPT ![c] = "none"]
  /\ error' = [error EXCEPT ![c] = "none"]
  /\ trace' = [trace EXCEPT ![c] = {}]
  /\ misses' = [misses EXCEPT ![c] = 0]
  /\ changed' = [changed EXCEPT ![c] = FALSE]
  /\ UNCHANGED backendVars

\* The second attempt, which starts with ensure_ready like the first.
Retry(c) ==
  /\ attempt[c] = 1
  /\ stage' = [stage EXCEPT ![c] = "ensuring"]
  /\ attempt' = [attempt EXCEPT ![c] = 2]
  /\ leg' = [leg EXCEPT ![c] = "none"]
  /\ UNCHANGED <<backendVars, error, trace, monitorVars, bound, outcome>>

-----------------------------------------------------------------------------
(* The backend, external: it is killed, restarted and performs operations. *)

\* Its in-flight requests die with it; the bridge hears of that from the
\* broken connection or not at all.
Crash ==
  /\ up
  /\ up' = FALSE
  /\ wire' = {}
  /\ UNCHANGED <<instance, executed, clientVars, monitorVars, stage, attempt, bound, outcome>>

\* Another bridge or an editor starts the next backend.
Restart ==
  /\ ~up /\ instance < MaxInstance
  /\ up' = TRUE
  /\ instance' = instance + 1
  /\ UNCHANGED <<wire, executed, clientVars, monitorVars, stage, attempt, bound, outcome>>

Execute(c, k) ==
  /\ up /\ <<c, k>> \in wire
  /\ wire' = wire \ {<<c, k>>}
  /\ executed' = executed \cup {<<c, k>>}
  /\ UNCHANGED <<up, instance, clientVars, monitorVars, stage, attempt, bound, outcome>>

-----------------------------------------------------------------------------
(* The middleware.                                                         *)

Start(c) ==
  /\ stage[c] = "idle"
  /\ stage' = [stage EXCEPT ![c] = "ensuring"]
  /\ attempt' = [attempt EXCEPT ![c] = 1]
  /\ UNCHANGED <<backendVars, clientVars, monitorVars, bound, outcome>>

\* ensure_ready adopts the live backend, or launches one.
EnsureReady(c) ==
  /\ stage[c] = "ensuring"
  /\ up \/ instance < MaxInstance
  /\ up' = TRUE
  /\ instance' = IF up THEN instance ELSE instance + 1
  /\ bound' = [bound EXCEPT ![c] = instance']
  /\ stage' = [stage EXCEPT ![c] = "running"]
  /\ BeginAttempt(c)
  /\ UNCHANGED <<wire, executed, attempt, outcome>>

EnsureFails(c) ==
  /\ stage[c] = "ensuring"
  /\ Finish(c, "startup_error")

\* A downstream step of the running attempt.
InLeg(c, l) == stage[c] = "running" /\ leg[c] = l

Advance(c, l) ==
  /\ leg' = [leg EXCEPT ![c] = l]
  /\ UNCHANGED <<error, trace, monitorVars, stage, attempt, bound, outcome>>

Fails(c, e, failures) ==
  /\ leg' = [leg EXCEPT ![c] = "failed"]
  /\ error' = [error EXCEPT ![c] = e]
  /\ trace' = [trace EXCEPT ![c] = @ \cup failures]
  /\ UNCHANGED <<backendVars, monitorVars, stage, attempt, bound, outcome>>

\* http_capability: the backend's capability record is gone or invalid.
CapabilityMissing(c) == InLeg(c, "opening") /\ Fails(c, "startup", {})

Initialized(c) ==
  InLeg(c, "opening") /\ up /\ Advance(c, "notifying") /\ UNCHANGED backendVars

\* Connect error, timeout, or an HTTP error status that the hook records.
InitializeFails(c) == InLeg(c, "opening") /\ Fails(c, "transport", {"initialize"})

Notified(c) ==
  InLeg(c, "notifying") /\ up /\ Advance(c, "calling") /\ UNCHANGED backendVars

NotificationFails(c) == InLeg(c, "notifying") /\ Fails(c, "transport", {"notification"})

\* The session's own GET stream fails; the operation goes on.
StreamRefused(c) ==
  /\ stage[c] = "running" /\ leg[c] \in {"calling", "sent"}
  /\ trace' = [trace EXCEPT ![c] = @ \cup {"http"}]
  /\ UNCHANGED <<backendVars, leg, error, monitorVars, stage, attempt, bound, outcome>>

ConnectFails(c) == InLeg(c, "calling") /\ Fails(c, "transport", {"connect"})

Send(c) ==
  /\ InLeg(c, "calling") /\ up
  /\ wire' = wire \cup {<<c, attempt[c]>>}
  /\ Advance(c, "sent")
  /\ UNCHANGED <<up, instance, executed>>

Answered(c) ==
  InLeg(c, "sent") /\ <<c, attempt[c]>> \in executed /\ Advance(c, "answered")
  /\ UNCHANGED backendVars

\* The connection breaks under the request, or answers an HTTP error; the SDK
\* reports the end of the stream; or the failure is no transport's.
Breaks(c) ==
  /\ InLeg(c, "sent")
  /\ \/ Fails(c, "transport", {"broken"})
     \/ Fails(c, "stream", {})
     \/ Fails(c, "application", {})

\* Mutant: only failed observations count, identity is not compared.
Observe_Blind(c) ==
  /\ stage[c] = "running" /\ ~changed[c]
  /\ \E seen \in (IF up THEN {instance} ELSE {}) \cup {0} :
       /\ misses' = [misses EXCEPT ![c] = IF seen = 0 THEN @ + 1 ELSE 0]
       /\ changed' = [changed EXCEPT ![c] = misses'[c] >= FailureThreshold]
  /\ UNCHANGED <<backendVars, clientVars, stage, attempt, bound, outcome>>

\* One round of _wait_for_backend_change; 0 is an observation that failed,
\* which a slow backend may cause as well.
Observe(c) ==
  /\ stage[c] = "running" /\ ~changed[c]
  /\ \E seen \in (IF up THEN {instance} ELSE {}) \cup {0} :
       /\ misses' = [misses EXCEPT ![c] = IF seen = 0 THEN @ + 1 ELSE 0]
       /\ changed' = [changed EXCEPT ![c] =
                        IF seen = 0 THEN misses'[c] >= FailureThreshold
                        ELSE seen # bound[c]]
  /\ UNCHANGED <<backendVars, clientVars, stage, attempt, bound, outcome>>

\* asyncio.wait returns with the call done: its result wins over the monitor.
Returns(c) == InLeg(c, "answered") /\ Finish(c, "result")

\* on_call_tool after an exception.  An AttachStartupError out of the dispatch
\* itself is structured on the replay only.
ToolCallFails(c) ==
  /\ c \in ToolCalls /\ InLeg(c, "failed")
  /\ \/ /\ attempt[c] = 2 /\ error[c] = "startup"
        /\ Finish(c, "startup_error")
     \/ /\ ~(attempt[c] = 2 /\ error[c] = "startup")
        /\ \/ /\ ProvenPreDispatch(c)
              /\ Retry(c) \/ (attempt[c] = 2 /\ Finish(c, "unavailable"))
           \/ ~ProvenPreDispatch(c) /\ TransportFailed(c) /\ Finish(c, "outcome_unknown")
           \/ ~ProvenPreDispatch(c) /\ ~TransportFailed(c) /\ Finish(c, "raised")

\* on_request after an exception.
SafeRequestFails(c) ==
  /\ c \notin ToolCalls /\ InLeg(c, "failed")
  /\ \/ error[c] = "startup" /\ Finish(c, "startup_error")
     \/ error[c] # "startup" /\ ~TransportFailed(c) /\ Finish(c, "raised")
     \/ /\ error[c] # "startup" /\ TransportFailed(c)
        /\ Retry(c) \/ (attempt[c] = 2 /\ Finish(c, "unstable"))

\* _BackendChanged: the call is cancelled locally and may still be performed.
BackendChanged(c) ==
  /\ stage[c] = "running" /\ changed[c] /\ leg[c] \notin {"failed", "answered"}
  /\ \/ c \in ToolCalls /\ Finish(c, "outcome_unknown")
     \/ c \notin ToolCalls /\ (Retry(c) \/ (attempt[c] = 2 /\ Finish(c, "unstable")))

\* The MCP client cancels the request.
Cancel(c) ==
  /\ stage[c] \in {"ensuring", "running"}
  /\ Finish(c, "cancelled")

Resume(c) == Returns(c) \/ ToolCallFails(c) \/ SafeRequestFails(c) \/ BackendChanged(c)

-----------------------------------------------------------------------------
CallStep(c) ==
  \/ Start(c) \/ EnsureReady(c) \/ EnsureFails(c)
  \/ CapabilityMissing(c) \/ Initialized(c) \/ InitializeFails(c)
  \/ Notified(c) \/ NotificationFails(c) \/ StreamRefused(c)
  \/ ConnectFails(c) \/ Send(c) \/ Answered(c) \/ Breaks(c)
  \/ Observe(c) \/ Resume(c) \/ Cancel(c)

Next ==
  \/ Crash \/ Restart
  \/ \E c \in Calls, k \in Attempts : Execute(c, k)
  \/ \E c \in Calls : CallStep(c)

\* The bridge's event loop runs: the monitor's sleep and probe end, and a
\* coroutine whose await is over resumes.  Nothing is assumed of the backend
\* or of the downstream request.
Fairness == \A c \in Calls : WF_vars(Observe(c)) /\ WF_vars(Resume(c))

Spec == Init /\ [][Next]_vars

FairSpec == Spec /\ Fairness

-----------------------------------------------------------------------------
(* Properties.                                                             *)

\* A tool call is performed at most once, whatever fails and however often the
\* backend is replaced under it.
AtMostOnce ==
  \A c \in ToolCalls : ~(<<c, 1>> \in executed /\ <<c, 2>> \in executed)

\* An answer that invites the caller to repeat the call is given only when the
\* operation neither was performed nor can be any more.
NoFalseRefusal ==
  \A c \in ToolCalls :
    outcome[c] \in {"unavailable", "startup_error"} =>
      \A k \in Attempts : <<c, k>> \notin wire \cup executed

\* The bridge as an at-most-once service.  "cancelled" and "raised" leave open
\* whether the operation was performed, as "outcome_unknown" does.
Performed == {c \in ToolCalls : \E k \in Attempts : <<c, k>> \in executed}

AnswerOf(o) ==
  CASE o = "none" -> "none"
    [] o = "result" -> "result"
    [] o \in {"unavailable", "startup_error"} -> "refused"
    [] OTHER -> "unknown"

Abstract == INSTANCE AtMostOnceCall
  WITH Calls <- ToolCalls, performed <- Performed,
       answer <- [c \in ToolCalls |-> AnswerOf(outcome[c])]

\* The detailed bridge implements the at-most-once call.
ImplementsAtMostOnce == Abstract!AmoSpec

\* A request never hangs on a backend that is gone: once the backend it was
\* bound to is down or replaced, the request is answered or retried.
Gone(c) == ~up \/ instance # bound[c]

GoneBackendIsNoticed ==
  \A c \in Calls : (stage[c] = "running" /\ Gone(c)) ~> (stage[c] # "running")

=============================================================================
