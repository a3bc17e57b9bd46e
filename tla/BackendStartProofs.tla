--------------------------- MODULE BackendStartProofs ---------------------------
(***************************************************************************)
(* For any number of bridges and servers: the record of a server that      *)
(* serves stands.  This rests on the port claim: a server holds it from    *)
(* before it writes the record until it has unlinked it, so between the    *)
(* comparison and the unlinking no other server can have written one.      *)
(* And a bridge that gets an answer it cannot place has read the record of *)
(* a server that is past serving, or of none, or two were written since.   *)
(* And no bridge spawns a server beside one that another bridge has: that  *)
(* rests on the startup lock, kept from the probe to the child's health.   *)
(***************************************************************************)
EXTENDS BackendStart, TLAPS

USE StartAssumption

\* From its claim to its exit a server holds the port claim.
Claimants == {"binding", "opening", "serving", "leaving", "removing"}

ClaimHeld == \A s \in Servers : server[s] \in Claimants => claim = s

IInv == TypeOK /\ ClaimHeld /\ RecordStands

-----------------------------------------------------------------------------
LEMMA InitHolds == Init => IInv
  <1>1. Init => TypeOK
    BY DEF Init, TypeOK, CallState, Idle
  <1>2. Init => ClaimHeld /\ RecordStands
    BY DEF Init, ClaimHeld, Claimants, RecordStands
  <1>3. QED
    BY <1>1, <1>2 DEF IInv

-----------------------------------------------------------------------------
(* Types.                                                                  *)

\* How a call moves on ...
LEMMA MovedTypes ==
  ASSUME TypeOK, NEW b \in Bridges, NEW at, Moved(b, at),
         at \in {"idle", "acquiring", "reading", "asking", "checking", "unanswered", "launching"}
  PROVE  bridge' \in [Bridges -> CallState]
  BY DEF TypeOK, Moved, CallState

\* ... and how it ends.
LEMMA FailsTypes ==
  ASSUME TypeOK, NEW b \in Bridges, Fails(b)
  PROVE  /\ bridge' \in [Bridges -> CallState]
         /\ lock' = None /\ backend' \in [Bridges -> Servers \cup {None}] /\ UNCHANGED served
  <1>1. Idle \in CallState
    BY DEF Idle, CallState
  <1>2. QED
    BY <1>1 DEF Fails, TypeOK

LEMMA SucceedsTypes ==
  ASSUME TypeOK, NEW b \in Bridges, NEW s \in Servers, Succeeds(b, s)
  PROVE  /\ bridge' \in [Bridges -> CallState]
         /\ lock' = None /\ backend' \in [Bridges -> Servers \cup {None}]
         /\ served' \in [Bridges -> BOOLEAN]
  <1>1. Idle \in CallState
    BY DEF Idle, CallState
  <1>2. QED
    BY <1>1 DEF Succeeds, TypeOK

\* A bridge's step.
LEMMA BridgeTypes ==
  ASSUME TypeOK, NEW b \in Bridges,
         BridgeSteps(b) \/ Ensure(b) \/ Cancel(b) \/ BridgeDies(b)
           \/ OrphanAcquires(b) \/ OrphanReleases(b)
  PROVE  TypeOK'
  <1>1. CASE Ensure(b)
    BY <1>1 DEF Ensure, TypeOK, system, caller, Moved, CallState
  <1>2. CASE Acquire(b)
    <2>1. bridge' \in [Bridges -> CallState]
      BY <1>2, MovedTypes DEF Acquire
    <2>2. lock' \in [by : Bridges, as : {"call", "worker"}]
      BY <1>2 DEF Acquire
    <2>3. QED
      BY <1>2, <2>1, <2>2 DEF Acquire, TypeOK, system
  <1>3. CASE LockTimeout(b)
    BY <1>3 DEF LockTimeout, TypeOK, system, caller, Moved, CallState
  <1>4. CASE Cancel(b)
    BY <1>4 DEF Cancel, TypeOK, system, caller, Idle, CallState
  <1>5. CASE OrphanAcquires(b)
    BY <1>5 DEF OrphanAcquires, TypeOK, system, caller, OrphanHas
  <1>6. CASE OrphanReleases(b)
    BY <1>6 DEF OrphanReleases, TypeOK, system, caller, OrphanHas
  <1>7. CASE BridgeDies(b)
    BY <1>7 DEF BridgeDies, TypeOK, system, caller, Idle, Holds, OrphanHas, CallState
  <1>8. CASE ReadRecord(b)
    <2>1. record \in Servers \cup {None} /\ bridge[b] \in CallState
      BY DEF TypeOK
    <2>2. PICK to \in {"unanswered", "asking"} :
            bridge' = [bridge EXCEPT ![b].at = to, ![b].seen = record, ![b].again = FALSE]
      BY <1>8 DEF ReadRecord
    <2>3. bridge' \in [Bridges -> CallState]
      BY <2>1, <2>2 DEF TypeOK, CallState
    <2>4. QED
      BY <1>8, <2>3 DEF ReadRecord, TypeOK, system
  <1>9. CASE Ask(b)
    BY <1>9 DEF Ask, TypeOK, system, caller, Moved, Credential, CallState
  <1>10. CASE CheckRecord(b)
    <2>1. bridge[b] \in CallState /\ record \in Servers \cup {None}
      BY DEF TypeOK
    <2>2. CASE Pinned(b) /\ Succeeds(b, bridge[b].answer)
      BY <1>10, <2>2, SucceedsTypes DEF CheckRecord, Pinned, TypeOK, system
    <2>3. CASE Fails(b)
      BY <1>10, <2>3, FailsTypes DEF CheckRecord, TypeOK, system
    <2>4. CASE Moved(b, "unanswered") /\ UNCHANGED <<lock, backend, served>>
      BY <1>10, <2>4, MovedTypes DEF CheckRecord, TypeOK, system
    <2>5. CASE /\ bridge' = [bridge EXCEPT ![b].at = "asking", ![b].seen = record,
                                          ![b].again = TRUE]
               /\ UNCHANGED <<lock, backend, served>>
      <3>1. bridge' \in [Bridges -> CallState]
        BY <2>1, <2>5 DEF TypeOK, CallState
      <3>2. QED
        BY <1>10, <2>5, <3>1 DEF CheckRecord, TypeOK, system
    <2>6. QED
      BY <1>10, <2>2, <2>3, <2>4, <2>5 DEF CheckRecord
  <1>11. CASE Retry(b)
    BY <1>11 DEF Retry, TypeOK, system, caller, Moved, PortFree, Exited, CallState
  <1>12. CASE NothingThere(b)
    <2>1. bridge[b] \in CallState
      BY DEF TypeOK
    <2>2. PICK to \in {"reading", "launching"}, phase \in {"replace", "adopt"} :
            bridge' = [bridge EXCEPT ![b].at = to, ![b].phase = phase]
      BY <1>12 DEF NothingThere
    <2>3. bridge' \in [Bridges -> CallState]
      BY <2>1, <2>2 DEF TypeOK, CallState
    <2>4. QED
      BY <1>12, <2>3 DEF NothingThere, TypeOK, system
  <1>13. CASE Deadline(b)
    <2>1. CASE Fails(b)
      BY <1>13, <2>1, FailsTypes DEF Deadline, TypeOK, system
    <2>2. CASE Moved(b, "launching") /\ UNCHANGED <<lock, backend, served>>
      BY <1>13, <2>2, MovedTypes DEF Deadline, TypeOK, system
    <2>3. QED
      BY <1>13, <2>1, <2>2 DEF Deadline
  <1>14. CASE ChildExited(b)
    BY <1>14 DEF ChildExited, TypeOK, system, caller, Exited, Fails, Idle, CallState
  <1>15. CASE CannotLaunch(b)
    BY <1>15 DEF CannotLaunch, TypeOK, system, caller, Fails, Idle, CallState
  <1>16. CASE Launch(b)
    <2>1. PICK s \in Servers : /\ server' = [server EXCEPT ![s] = "starting"]
                               /\ backend' = [backend EXCEPT ![b] = s]
      BY <1>16 DEF Launch
    <2>2. bridge[b] \in CallState
      BY DEF TypeOK
    <2>3. bridge' \in [Bridges -> CallState]
      BY <1>16, <2>2 DEF Launch, TypeOK, CallState
    <2>4. /\ server' \in [Servers -> {"unborn", "starting", "waiting", "claiming", "binding",
                                      "opening", "serving", "leaving", "removing", "exited"}]
          /\ backend' \in [Bridges -> Servers \cup {None}]
      BY <2>1 DEF TypeOK
    <2>5. QED
      BY <1>16, <2>3, <2>4 DEF Launch, Kept, TypeOK
  <1>17. QED
    BY <1>1, <1>2, <1>3, <1>4, <1>5, <1>6, <1>7, <1>8, <1>9, <1>10, <1>11, <1>12, <1>13, <1>14, <1>15, <1>16 DEF BridgeSteps

\* A server's step.
LEMMA ServerTypes ==
  ASSUME TypeOK, NEW s \in Servers,
         EditorLaunches(s) \/ ServerSteps(s) \/ Stop(s) \/ Killed(s)
  PROVE  TypeOK'
  <1>1. CASE EditorLaunches(s)
    BY <1>1 DEF EditorLaunches, TypeOK, Others, caller, NextServer, At
  <1>2. CASE Preflight(s)
    BY <1>2 DEF Preflight, TypeOK, Others, caller, At, Gone, Left
  <1>3. CASE HoldHttp(s)
    BY <1>3 DEF HoldHttp, TypeOK, Others, caller
  <1>4. CASE HoldWs(s)
    BY <1>4 DEF HoldWs, TypeOK, Others, caller, At
  <1>5. CASE Claim(s)
    BY <1>5 DEF Claim, TypeOK, Others, caller, At
  <1>6. CASE Publish(s)
    BY <1>6 DEF Publish, TypeOK, Others, caller, At, Free
  <1>7. CASE StartFails(s)
    BY <1>7 DEF StartFails, TypeOK, Others, caller, Gone, Left
  <1>0. CASE PublishFails(s)
    BY <1>0 DEF PublishFails, TypeOK, Others, caller, At, Free
  <1>8. CASE OpenHttp(s)
    BY <1>8 DEF OpenHttp, TypeOK, Others, caller, At, Free
  <1>9. CASE Stop(s)
    BY <1>9 DEF Stop, TypeOK, Others, caller, At, Left
  <1>10. CASE CompareRecord(s)
    BY <1>10 DEF CompareRecord, TypeOK, Others, caller, At, ClaimKept, Gone, Left
  <1>11. CASE UnlinkRecord(s)
    BY <1>11 DEF UnlinkRecord, TypeOK, Others, caller, Gone, Left
  <1>12. CASE Killed(s)
    BY <1>12 DEF Killed, TypeOK, Others, caller, Gone, Left
  <1>13. QED
    BY <1>0, <1>1, <1>2, <1>3, <1>4, <1>5, <1>6, <1>7, <1>8, <1>9, <1>10, <1>11, <1>12 DEF ServerSteps

-----------------------------------------------------------------------------
(* The claim and the record.                                               *)

\* A bridge touches neither, and the one server it moves was unborn.
LEMMA BridgeLeavesRecord ==
  ASSUME IInv, NEW b \in Bridges,
         BridgeSteps(b) \/ Ensure(b) \/ Cancel(b) \/ BridgeDies(b)
           \/ OrphanAcquires(b) \/ OrphanReleases(b)
  PROVE  ClaimHeld' /\ RecordStands'
  <1>1. CASE Launch(b)
    <2>1. UNCHANGED <<claim, record>>
      BY <1>1 DEF Launch
    <2>2. \A r \in Servers : server'[r] = server[r] \/ server'[r] = "starting"
      BY <1>1 DEF Launch, IInv, TypeOK
    <2>3. QED
      BY <2>1, <2>2 DEF IInv, ClaimHeld, Claimants, RecordStands
  <1>2. CASE UNCHANGED <<claim, record, server>>
    BY <1>2 DEF IInv, ClaimHeld, RecordStands
  <1>3. Launch(b) \/ UNCHANGED <<claim, record, server>>
    BY DEF BridgeSteps, Ensure, Acquire, LockTimeout, Cancel, OrphanAcquires, OrphanReleases,
           BridgeDies, ReadRecord, Ask, CheckRecord, Retry, NothingThere, Deadline, ChildExited,
           CannotLaunch, system
  <1>4. QED
    BY <1>1, <1>2, <1>3

\* A server that leaves the stage takes only its own claim with it.
LEMMA GoneKeeps ==
  ASSUME IInv, NEW s \in Servers, Gone(s), UNCHANGED record
  PROVE  ClaimHeld' /\ RecordStands'
  <1>1. /\ server'[s] = "exited"
        /\ \A r \in Servers \ {s} : server'[r] = server[r]
    BY DEF Gone, IInv, TypeOK
  <1>2. \A r \in Servers \ {s} : claim = r => claim' = r
    BY DEF Gone, Left
  <1>3. QED
    BY <1>1, <1>2 DEF IInv, ClaimHeld, Claimants, RecordStands

\* One server moves on and keeps what it holds.
LEMMA MoveKeeps ==
  ASSUME IInv, NEW s \in Servers, NEW from, NEW to, At(s, from, to), UNCHANGED <<claim, record>>,
         to \in Claimants => from \in Claimants,
         to \in {"opening", "serving"} => from \in {"opening", "serving"}
  PROVE  ClaimHeld' /\ RecordStands'
  <1>1. /\ server'[s] = to /\ server[s] = from
        /\ \A r \in Servers \ {s} : server'[r] = server[r]
    BY DEF At, IInv, TypeOK
  <1>2. QED
    BY <1>1 DEF IInv, ClaimHeld, RecordStands

LEMMA ServerKeepsRecord ==
  ASSUME IInv, NEW s \in Servers,
         EditorLaunches(s) \/ ServerSteps(s) \/ Stop(s) \/ Killed(s)
  PROVE  ClaimHeld' /\ RecordStands'
  <1>1. CASE EditorLaunches(s)
    BY <1>1, MoveKeeps DEF EditorLaunches, Claimants
  <1>2. CASE Preflight(s)
    BY <1>2, MoveKeeps, GoneKeeps DEF Preflight, Claimants
  <1>3. CASE HoldHttp(s)
    BY <1>3 DEF HoldHttp, IInv, ClaimHeld, RecordStands
  <1>4. CASE HoldWs(s)
    BY <1>4, MoveKeeps DEF HoldWs, Claimants
  <1>5. CASE Claim(s)
    <2>1. /\ claim = None /\ claim' = s /\ UNCHANGED record
          /\ server'[s] = "binding"
          /\ \A r \in Servers \ {s} : server'[r] = server[r]
      BY <1>5 DEF Claim, At, IInv, TypeOK
    <2>2. \A r \in Servers : server[r] \notin Claimants
      BY <2>1 DEF IInv, ClaimHeld
    <2>3. QED
      BY <2>1, <2>2 DEF ClaimHeld, Claimants, RecordStands
  <1>0. CASE PublishFails(s)
    <2>1. /\ UNCHANGED claim /\ server[s] = "binding" /\ server'[s] = "removing"
          /\ \A r \in Servers \ {s} : server'[r] = server[r]
      BY <1>0 DEF PublishFails, At, IInv, TypeOK
    <2>2. claim = s
      BY <2>1 DEF IInv, ClaimHeld, Claimants
    <2>3. \A r \in Servers \ {s} : server[r] \notin Claimants
      BY <2>2 DEF IInv, ClaimHeld
    <2>4. QED
      BY <2>1, <2>2, <2>3 DEF ClaimHeld, Claimants, RecordStands
  <1>6. CASE Publish(s)
    <2>1. /\ record' = s /\ UNCHANGED claim
          /\ server[s] = "binding" /\ server'[s] = "opening"
          /\ \A r \in Servers \ {s} : server'[r] = server[r]
      BY <1>6 DEF Publish, At, IInv, TypeOK
    <2>2. claim = s
      BY <2>1 DEF IInv, ClaimHeld, Claimants
    <2>3. \A r \in Servers \ {s} : server[r] \notin Claimants
      BY <2>2 DEF IInv, ClaimHeld
    <2>4. QED
      BY <2>1, <2>2, <2>3 DEF ClaimHeld, Claimants, RecordStands
  <1>7. CASE StartFails(s)
    BY <1>7, GoneKeeps DEF StartFails
  <1>8. CASE OpenHttp(s)
    BY <1>8, MoveKeeps DEF OpenHttp, Claimants
  <1>9. CASE Stop(s)
    BY <1>9, MoveKeeps DEF Stop, Claimants
  <1>10. CASE CompareRecord(s)
    BY <1>10, MoveKeeps, GoneKeeps DEF CompareRecord, ClaimKept, Claimants
  <1>11. CASE UnlinkRecord(s)
    <2>1. /\ server[s] = "removing" /\ server'[s] = "exited"
          /\ \A r \in Servers \ {s} : server'[r] = server[r]
      BY <1>11 DEF UnlinkRecord, Gone, IInv, TypeOK
    <2>2. \A r \in Servers \ {s} : server[r] \notin Claimants
      BY <2>1 DEF IInv, ClaimHeld, Claimants
    <2>3. QED
      BY <2>1, <2>2 DEF ClaimHeld, Claimants, RecordStands
  <1>12. CASE Killed(s)
    BY <1>12, GoneKeeps DEF Killed
  <1>13. QED
    BY <1>0, <1>1, <1>2, <1>3, <1>4, <1>5, <1>6, <1>7, <1>8, <1>9, <1>10, <1>11, <1>12 DEF ServerSteps

LEMMA StepHolds ==
  ASSUME IInv, [Next]_vars
  PROVE  IInv'
  <1>1. ASSUME NEW b \in Bridges,
               BridgeSteps(b) \/ Ensure(b) \/ Cancel(b) \/ BridgeDies(b)
                 \/ OrphanAcquires(b) \/ OrphanReleases(b)
        PROVE  IInv'
    BY <1>1, BridgeTypes, BridgeLeavesRecord DEF IInv
  <1>2. ASSUME NEW s \in Servers, EditorLaunches(s) \/ ServerSteps(s) \/ Stop(s) \/ Killed(s)
        PROVE  IInv'
    BY <1>2, ServerTypes, ServerKeepsRecord DEF IInv
  <1>3. CASE UNCHANGED vars
    BY <1>3 DEF IInv, TypeOK, ClaimHeld, RecordStands, vars, system, caller
  <1>4. QED
    BY <1>1, <1>2, <1>3 DEF Next

-----------------------------------------------------------------------------
(* What a probe makes of its answer.                                       *)

Fresh == {"opening", "serving"}
Past  == Fresh \cup {"leaving", "removing", "exited"}

\* A server writes its record once, as it opens.
RecordPast == \A s \in Servers : record = s => server[s] \in Past
SeenPast   == \A b \in Bridges : \A s \in Servers : bridge[b].seen = s => server[s] \in Past

\* If the server whose record the bridge read still serves, then the record is
\* still its own, so no other can have answered.
AnswerFits ==
  \A b \in Bridges : \A s \in Servers :
    /\ bridge[b].at = "checking" /\ bridge[b].seen = s
    /\ server[s] \in Fresh /\ (bridge[b].phase = "wait" => backend[b] = s)
    => bridge[b].answer \in {s, Refused}

PInv == IInv /\ RecordPast /\ SeenPast /\ AnswerFits

\* A bridge's step as far as its probe is concerned.
ProbeStep(b) ==
  /\ UNCHANGED record
  /\ \A c \in Bridges \ {b} : bridge'[c] = bridge[c] /\ backend'[c] = backend[c]
  /\ \A r \in Servers : server[r] \in Past \/ server'[r] \in Past => server'[r] = server[r]
  /\ bridge'[b].seen \in {bridge[b].seen, record, None}

LEMMA ProbeKeeps ==
  ASSUME PInv, NEW b \in Bridges, ProbeStep(b),
         \/ bridge'[b].at # "checking"
         \/ bridge'[b] = bridge[b] /\ backend'[b] = backend[b]
  PROVE  RecordPast' /\ SeenPast' /\ AnswerFits'
  <1>1. RecordPast' /\ SeenPast'
    BY DEF PInv, ProbeStep, RecordPast, SeenPast
  <1>2. ASSUME NEW c \in Bridges, NEW s \in Servers,
               bridge'[c].at = "checking", bridge'[c].seen = s,
               server'[s] \in Fresh, bridge'[c].phase = "wait" => backend'[c] = s
        PROVE  bridge'[c].answer \in {s, Refused}
    <2>1. bridge'[c] = bridge[c] /\ backend'[c] = backend[c]
      BY <1>2 DEF ProbeStep
    <2>2. server[s] \in Fresh
      BY <1>2 DEF ProbeStep, Past
    <2>3. QED
      BY <1>2, <2>1, <2>2 DEF PInv, AnswerFits
  <1>3. QED
    BY <1>1, <1>2 DEF AnswerFits

\* The request: whoever serves has the record, and presents its credential
\* unless the bridge read the record of one that no longer serves.
LEMMA AskFits ==
  ASSUME PInv, NEW b \in Bridges, Ask(b)
  PROVE  RecordPast' /\ SeenPast' /\ AnswerFits'
  <1>1. /\ UNCHANGED <<record, server, backend, http>>
        /\ \A c \in Bridges \ {b} : bridge'[c] = bridge[c]
    BY DEF Ask, Moved, system, PInv, IInv, TypeOK
  <1>2. bridge'[b].seen = bridge[b].seen /\ bridge'[b].phase = bridge[b].phase
    BY DEF Ask, Moved, PInv, IInv, TypeOK, CallState
  <1>3. RecordPast' /\ SeenPast'
    <2>1. \A c \in Bridges : bridge'[c].seen = bridge[c].seen
      BY <1>1, <1>2
    <2>2. QED
      BY <1>1, <2>1 DEF PInv, RecordPast, SeenPast
  <1>4. ASSUME NEW s \in Servers, bridge'[b].at = "checking", bridge[b].seen = s,
               server[s] \in Fresh, bridge[b].phase = "wait" => backend[b] = s
        PROVE  bridge'[b].answer \in {s, Refused}
    <2>1. Credential(b) = s /\ record = s
      BY <1>4 DEF Credential, PInv, IInv, RecordStands, Fresh
    <2>2. CASE http # None /\ server[http] = "serving"
      <3>1. http \in Servers
        BY <2>2 DEF PInv, IInv, TypeOK
      <3>2. http = s
        BY <2>1, <2>2, <3>1 DEF PInv, IInv, RecordStands
      <3>3. QED
        BY <1>4, <2>1, <2>2, <3>2 DEF Ask, Moved, PInv, IInv, TypeOK, CallState
    <2>3. CASE ~(http # None /\ server[http] = "serving")
      BY <1>4, <2>3 DEF Ask, Moved, PInv, IInv, TypeOK, CallState
    <2>4. QED
      BY <2>2, <2>3
  <1>5. AnswerFits'
    BY <1>1, <1>2, <1>4 DEF PInv, AnswerFits
  <1>6. QED
    BY <1>3, <1>5

LEMMA BridgeAnswers ==
  ASSUME PInv, NEW b \in Bridges,
         BridgeSteps(b) \/ Ensure(b) \/ Cancel(b) \/ BridgeDies(b)
           \/ OrphanAcquires(b) \/ OrphanReleases(b)
  PROVE  RecordPast' /\ SeenPast' /\ AnswerFits'
  <1>0. bridge[b] \in CallState
    BY DEF PInv, IInv, TypeOK
  <1>1. CASE Ask(b)
    BY <1>1, AskFits
  <1>2. CASE ReadRecord(b)
    <2>1. ProbeStep(b) /\ bridge'[b].at # "checking"
      BY <1>0, <1>2 DEF ReadRecord, ProbeStep, system, PInv, IInv, TypeOK, CallState
    <2>2. QED
      BY <2>1, ProbeKeeps
  <1>3. CASE CheckRecord(b)
    <2>1. UNCHANGED <<record, server>>
      BY <1>3 DEF CheckRecord, system
    <2>2. CASE /\ bridge' = [bridge EXCEPT ![b].at = "asking", ![b].seen = record,
                                          ![b].again = TRUE]
               /\ UNCHANGED backend
      <3>1. ProbeStep(b) /\ bridge'[b].at # "checking"
        BY <1>0, <2>1, <2>2 DEF ProbeStep, PInv, IInv, TypeOK, CallState
      <3>2. QED
        BY <3>1, ProbeKeeps
    <2>3. CASE Moved(b, "unanswered") /\ UNCHANGED backend
      <3>1. ProbeStep(b) /\ bridge'[b].at # "checking"
        BY <1>0, <2>1, <2>3 DEF Moved, ProbeStep, PInv, IInv, TypeOK, CallState
      <3>2. QED
        BY <3>1, ProbeKeeps
    <2>4. CASE Fails(b) \/ Succeeds(b, bridge[b].answer)
      <3>1. ProbeStep(b) /\ bridge'[b].at # "checking"
        BY <2>1, <2>4 DEF Fails, Succeeds, Idle, ProbeStep, PInv, IInv, TypeOK
      <3>2. QED
        BY <3>1, ProbeKeeps
    <2>5. QED
      BY <1>3, <2>2, <2>3, <2>4 DEF CheckRecord
  <1>4. CASE Launch(b)
    <2>1. PICK s \in Servers : /\ server[s] = "unborn" /\ server' = [server EXCEPT ![s] = "starting"]
                               /\ backend' = [backend EXCEPT ![b] = s]
      BY <1>4 DEF Launch, NextServer
    <2>2. \A r \in Servers : server[r] \in Past \/ server'[r] \in Past => server'[r] = server[r]
      BY <2>1 DEF PInv, IInv, TypeOK, Past, Fresh
    <2>3. ProbeStep(b) /\ bridge'[b].at # "checking"
      BY <1>0, <1>4, <2>1, <2>2 DEF Launch, ProbeStep, PInv, IInv, TypeOK, CallState
    <2>4. QED
      BY <2>3, ProbeKeeps
  <1>5. CASE Ensure(b) \/ Acquire(b) \/ LockTimeout(b)
    <2>1. ProbeStep(b) /\ bridge'[b].at # "checking"
      BY <1>0, <1>5 DEF Ensure, Acquire, LockTimeout, Moved, ProbeStep, system, PInv, IInv, TypeOK,
                        CallState
    <2>2. QED
      BY <2>1, ProbeKeeps
  <1>6. CASE Cancel(b) \/ BridgeDies(b)
    <2>1. ProbeStep(b) /\ bridge'[b].at # "checking"
      BY <1>6 DEF Cancel, BridgeDies, Idle, ProbeStep, system, PInv, IInv, TypeOK
    <2>2. QED
      BY <2>1, ProbeKeeps
  <1>7. CASE OrphanAcquires(b) \/ OrphanReleases(b)
    <2>1. ProbeStep(b) /\ bridge'[b] = bridge[b] /\ backend'[b] = backend[b]
      BY <1>7 DEF OrphanAcquires, OrphanReleases, ProbeStep, system, caller
    <2>2. QED
      BY <2>1, ProbeKeeps
  <1>8. CASE Retry(b) \/ NothingThere(b)
    <2>1. ProbeStep(b) /\ bridge'[b].at # "checking"
      BY <1>0, <1>8 DEF Retry, NothingThere, Moved, ProbeStep, system, PInv, IInv, TypeOK, CallState
    <2>2. QED
      BY <2>1, ProbeKeeps
  <1>9. CASE Deadline(b) \/ ChildExited(b) \/ CannotLaunch(b)
    <2>1. ProbeStep(b) /\ bridge'[b].at # "checking"
      BY <1>0, <1>9 DEF Deadline, ChildExited, CannotLaunch, Fails, Idle, Moved, ProbeStep, system,
                        PInv, IInv, TypeOK, CallState
    <2>2. QED
      BY <2>1, ProbeKeeps
  <1>10. QED
    BY <1>1, <1>2, <1>3, <1>4, <1>5, <1>6, <1>7, <1>8, <1>9 DEF BridgeSteps

\* A server that begins to serve has not been read before.
LEMMA ServerAnswers ==
  ASSUME PInv, NEW s \in Servers, EditorLaunches(s) \/ ServerSteps(s) \/ Stop(s) \/ Killed(s)
  PROVE  RecordPast' /\ SeenPast' /\ AnswerFits'
  <1>1. UNCHANGED <<bridge, backend>>
    BY DEF EditorLaunches, ServerSteps, Stop, Killed, Preflight, HoldHttp, HoldWs, Claim,
           Publish, PublishFails, StartFails, OpenHttp, CompareRecord, UnlinkRecord, Others, caller
  <1>2. \A r \in Servers \ {s} : server'[r] = server[r]
    BY DEF EditorLaunches, ServerSteps, Stop, Killed, Preflight, HoldHttp, HoldWs, Claim,
           Publish, PublishFails, StartFails, OpenHttp, CompareRecord, UnlinkRecord, At, Gone,
           PInv, IInv, TypeOK
  <1>3. /\ server[s] \in Past => server'[s] \in Past
        /\ server'[s] \in Fresh => server[s] \in Fresh \/ server[s] = "binding"
        /\ record' = s => record = s \/ server'[s] \in Past
    BY DEF EditorLaunches, ServerSteps, Stop, Killed, Preflight, HoldHttp, HoldWs, Claim,
           Publish, PublishFails, StartFails, OpenHttp, CompareRecord, UnlinkRecord, At, Gone,
           PInv, IInv, TypeOK, Past, Fresh
  <1>4. record' \in {record, s, None}
    BY DEF EditorLaunches, ServerSteps, Stop, Killed, Preflight, HoldHttp, HoldWs, Claim,
           Publish, PublishFails, StartFails, OpenHttp, CompareRecord, UnlinkRecord
  <1>5. RecordPast' /\ SeenPast'
    BY <1>1, <1>2, <1>3, <1>4 DEF PInv, RecordPast, SeenPast
  <1>6. ASSUME NEW c \in Bridges, NEW r \in Servers,
               bridge[c].at = "checking", bridge[c].seen = r,
               server'[r] \in Fresh, bridge[c].phase = "wait" => backend[c] = r
        PROVE  bridge[c].answer \in {r, Refused}
    <2>1. server[r] \in Past
      BY <1>6 DEF PInv, SeenPast
    <2>2. server[r] \in Fresh
      BY <1>2, <1>3, <1>6, <2>1 DEF Past, Fresh
    <2>3. QED
      BY <1>6, <2>2 DEF PInv, AnswerFits
  <1>7. AnswerFits'
    BY <1>1, <1>6 DEF AnswerFits
  <1>8. QED
    BY <1>5, <1>7

LEMMA StepAnswers ==
  ASSUME PInv, [Next]_vars
  PROVE  PInv'
  <1>1. IInv'
    BY StepHolds DEF PInv
  <1>2. CASE UNCHANGED vars
    BY <1>1, <1>2 DEF PInv, RecordPast, SeenPast, AnswerFits, vars, system, caller
  <1>3. QED
    BY <1>1, <1>2, BridgeAnswers, ServerAnswers DEF Next, PInv

\* Whoever serves has the record, so a bridge that found it unrotated read it.
LEMMA OccupiedRightly ==
  ASSUME PInv
  PROVE  NoFalseOccupant
  <1> SUFFICES ASSUME NEW b \in Bridges, Occupied(b), ~Rotated(b),
                      NEW s \in Sought(b), server[s] = "serving"
               PROVE  FALSE
    BY DEF NoFalseOccupant
  <1>1. s \in Servers
    BY DEF Sought
  <1>2. record = s /\ s # None
    BY <1>1 DEF PInv, IInv, RecordStands
  <1>3. bridge[b].seen = s
    BY <1>2 DEF Rotated
  <1>4. bridge[b].answer \in {s, Refused}
    BY <1>1, <1>3 DEF Sought, Occupied, Fresh, PInv, AnswerFits
  <1>5. QED
    BY <1>1, <1>2, <1>4 DEF Occupied, Pinned

-----------------------------------------------------------------------------
(* The startup lock.  It is held from the probe to the end of the wait for *)
(* the child, so a bridge that finds the port free knows of every backend  *)
(* of every other bridge that it has come to its end: none of them is      *)
(* still on its way to the port, and one that serves holds it.             *)

Within == {"reading", "asking", "checking", "unanswered", "launching"}
Late   == {"serving", "leaving", "removing", "exited"}
Ended  == {"leaving", "removing", "exited"}

Waits(b) == bridge[b].at \in Within /\ bridge[b].phase = "wait"

Locked == \A b \in Bridges : bridge[b].at \in Within => Holds(b)

PortServed == \A s \in Servers : server[s] = "serving" => http = s

AnswersLate ==
  \A b \in Bridges :
    bridge[b].at = "checking" /\ bridge[b].answer \in Servers => server[bridge[b].answer] \in Late

BackendsLate ==
  \A b \in Bridges : backend[b] # None /\ ~Waits(b) => server[backend[b]] \in Late

LaunchesAlone ==
  \A b \in Bridges : bridge[b].at = "launching" =>
    /\ bridge[b].phase # "wait"
    /\ \A c \in Bridges : backend[c] # None => server[backend[c]] \in Ended

LInv == TypeOK /\ Locked /\ PortServed /\ AnswersLate /\ BackendsLate /\ LaunchesAlone

\* What NoRivalChild says of a step.
Unrivalled ==
  \A b \in Bridges : bridge[b].at = "launching" /\ bridge'[b].phase = "wait" =>
    \A c \in Bridges : backend[c] # None => ~Usable(backend[c])

\* Servers only move on.
LEMMA ServersMoveOn ==
  ASSUME LInv, NEW s \in Servers, EditorLaunches(s) \/ ServerSteps(s) \/ Stop(s) \/ Killed(s)
  PROVE  /\ UNCHANGED <<bridge, backend, lock>>
         /\ \A r \in Servers : /\ server[r] \in Late => server'[r] \in Late
                               /\ server[r] \in Ended => server'[r] \in Ended
                               /\ server'[r] = "serving" => http' = r
  <1>1. UNCHANGED <<bridge, backend, lock>>
    BY DEF EditorLaunches, ServerSteps, Stop, Killed, Preflight, HoldHttp, HoldWs, Claim,
           Publish, PublishFails, StartFails, OpenHttp, CompareRecord, UnlinkRecord, Others, caller
  <1>2. \A r \in Servers \ {s} : server'[r] = server[r]
    BY DEF EditorLaunches, ServerSteps, Stop, Killed, Preflight, HoldHttp, HoldWs, Claim,
           Publish, PublishFails, StartFails, OpenHttp, CompareRecord, UnlinkRecord, At, Gone, LInv, TypeOK
  <1>3. /\ server[s] \in Late => server'[s] \in Late
        /\ server[s] \in Ended => server'[s] \in Ended
    BY DEF EditorLaunches, ServerSteps, Stop, Killed, Preflight, HoldHttp, HoldWs, Claim,
           Publish, PublishFails, StartFails, OpenHttp, CompareRecord, UnlinkRecord, At, Gone, LInv, TypeOK,
           Late, Ended
  <1>4. server'[s] = "serving" => http' = s
    BY DEF EditorLaunches, ServerSteps, Stop, Killed, Preflight, HoldHttp, HoldWs, Claim,
           Publish, PublishFails, StartFails, OpenHttp, CompareRecord, UnlinkRecord, At, Gone, LInv, TypeOK,
           PortServed
  <1>5. ASSUME NEW r \in Servers \ {s}, server[r] = "serving" PROVE http' = r
    <2>1. http = r
      BY <1>5 DEF LInv, PortServed
    <2>2. QED
      BY <2>1 DEF EditorLaunches, ServerSteps, Stop, Killed, Preflight, HoldHttp, HoldWs, Claim,
             Publish, PublishFails, StartFails, OpenHttp, CompareRecord, UnlinkRecord, At, Gone, Left, Free
  <1>6. QED
    BY <1>1, <1>2, <1>3, <1>4, <1>5

\* A step of b that is no launch, as far as the lock is concerned.
CallStep(b) ==
  /\ UNCHANGED <<http, server>>
  /\ \A c \in Bridges \ {b} : /\ bridge'[c] = bridge[c] /\ backend'[c] = backend[c]
                              /\ Holds(c) => Holds(c)'
  /\ bridge'[b].at \in Within => Holds(b)'
  /\ backend'[b] \in {backend[b], None} \/ Holds(b)
  /\ bridge'[b].at = "checking" /\ bridge'[b].answer \in Servers =>
       server[bridge'[b].answer] \in Late
  /\ backend'[b] # None /\ ~Waits(b)' => server[backend'[b]] \in Late
  /\ bridge'[b].at = "launching" =>
       /\ bridge'[b].phase # "wait" /\ Holds(b)
       /\ backend'[b] = backend[b]
       /\ bridge[b].at = "launching" \/ http = None

LEMMA CallKeeps ==
  ASSUME LInv, TypeOK', NEW b \in Bridges, CallStep(b)
  PROVE  LInv'
  <1>1. Locked'
    BY DEF CallStep, LInv, Locked
  <1>2. PortServed' /\ AnswersLate' /\ BackendsLate'
    BY DEF CallStep, LInv, PortServed, AnswersLate, BackendsLate, Waits
  <1>3. ASSUME NEW c \in Bridges, bridge'[c].at = "launching",
               NEW d \in Bridges, backend'[d] # None
        PROVE  server'[backend'[d]] \in Ended
    <2>1. CASE c # b
      <3>1. bridge[c].at = "launching" /\ Holds(c)
        BY <1>3, <2>1 DEF CallStep, LInv, Locked, Within
      <3>2. ~Holds(b)
        BY <3>1, <2>1 DEF Holds
      <3>3. backend'[d] = backend[d]
        BY <1>3, <3>2 DEF CallStep
      <3>4. QED
        BY <1>3, <2>1, <3>1, <3>3 DEF CallStep, LInv, LaunchesAlone
    <2>2. CASE c = b /\ bridge[b].at = "launching"
      BY <1>3, <2>2 DEF CallStep, LInv, LaunchesAlone
    <2>3. CASE c = b /\ http = None /\ Holds(b)
      <3>1. backend'[d] = backend[d] /\ backend[d] \in Servers
        BY <1>3, <2>3 DEF CallStep, LInv, TypeOK
      <3>2. server[backend[d]] \in Late
        <4>1. CASE d = b
          BY <1>3, <2>3, <4>1, <3>1 DEF CallStep, Waits
        <4>2. CASE d # b
          <5>1. ~Waits(d)
            BY <2>3, <4>2 DEF LInv, Locked, Waits, Holds
          <5>2. QED
            BY <1>3, <3>1, <5>1 DEF LInv, BackendsLate
        <4>3. QED
          BY <4>1, <4>2
      <3>3. server[backend[d]] # "serving"
        BY <2>3, <3>1 DEF LInv, PortServed
      <3>4. QED
        BY <1>3, <2>3, <3>1, <3>2, <3>3 DEF CallStep, Late, Ended
    <2>4. QED
      BY <1>3, <2>1, <2>2, <2>3 DEF CallStep
  <1>4. ASSUME NEW c \in Bridges, bridge'[c].at = "launching" PROVE bridge'[c].phase # "wait"
    BY <1>4 DEF CallStep, LInv, LaunchesAlone
  <1>5. LaunchesAlone'
    BY <1>3, <1>4 DEF LaunchesAlone
  <1>6. QED
    BY <1>1, <1>2, <1>5 DEF LInv

\* The steps of a call but the launch.
LEMMA BridgeKeepsLock ==
  ASSUME LInv, TypeOK', NEW b \in Bridges,
         BridgeSteps(b) \/ Ensure(b) \/ Cancel(b) \/ BridgeDies(b)
           \/ OrphanAcquires(b) \/ OrphanReleases(b),
         ~Launch(b)
  PROVE  LInv'
  <1> USE DEF Within
  <1>a. bridge[b] \in CallState /\ (bridge[b].at \in Within => Holds(b))
    BY DEF LInv, TypeOK, Locked
  <1>b. \A c \in Bridges : /\ c # b => ~(Holds(b) /\ Holds(c))
                           /\ Holds(c) \/ OrphanHas(c) => lock # None
                           /\ OrphanHas(b) => ~Holds(c)
    BY DEF Holds, OrphanHas
  <1>1. CASE Ensure(b)
    <2>1. /\ UNCHANGED <<http, server>>
          /\ \A c \in Bridges \ {b} : /\ bridge'[c] = bridge[c] /\ backend'[c] = backend[c]
                                      /\ Holds(c) => Holds(c)'
      BY <1>1, <1>a, <1>b DEF Ensure, LInv, TypeOK, CallState, system, Holds, Moved
    <2>2. /\ bridge'[b].at \in Within => Holds(b)'
          /\ backend'[b] \in {backend[b], None} \/ Holds(b)
      BY <1>1, <1>a DEF Ensure, LInv, TypeOK, CallState, Holds, Moved
    <2>3. bridge'[b].at = "checking" /\ bridge'[b].answer \in Servers
           => server[bridge'[b].answer] \in Late
      BY <1>1, <1>a DEF Ensure, LInv, TypeOK, CallState, AnswersLate, Late, Moved
    <2>4. backend'[b] # None /\ ~Waits(b)' => server[backend'[b]] \in Late
      BY <1>1, <1>a DEF Ensure, LInv, TypeOK, CallState, BackendsLate, AnswersLate, Waits, Late, Moved
    <2>5. bridge'[b].at = "launching" =>
           /\ bridge'[b].phase # "wait" /\ Holds(b)
           /\ backend'[b] = backend[b]
           /\ bridge[b].at = "launching" \/ http = None
      BY <1>1, <1>a DEF Ensure, LInv, TypeOK, CallState, LaunchesAlone, Moved
    <2>6. CallStep(b)
      BY <2>1, <2>2, <2>3, <2>4, <2>5 DEF CallStep
    <2>7. QED
      BY <2>6, CallKeeps
  <1>2. CASE Acquire(b)
    <2>1. /\ UNCHANGED <<http, server>>
          /\ \A c \in Bridges \ {b} : /\ bridge'[c] = bridge[c] /\ backend'[c] = backend[c]
                                      /\ Holds(c) => Holds(c)'
      BY <1>2, <1>a, <1>b DEF Acquire, LInv, TypeOK, CallState, system, Holds, Moved
    <2>2. /\ bridge'[b].at \in Within => Holds(b)'
          /\ backend'[b] \in {backend[b], None} \/ Holds(b)
      BY <1>2, <1>a DEF Acquire, LInv, TypeOK, CallState, Holds, Moved
    <2>3. bridge'[b].at = "checking" /\ bridge'[b].answer \in Servers
           => server[bridge'[b].answer] \in Late
      BY <1>2, <1>a DEF Acquire, LInv, TypeOK, CallState, AnswersLate, Late, Moved
    <2>4. backend'[b] # None /\ ~Waits(b)' => server[backend'[b]] \in Late
      BY <1>2, <1>a DEF Acquire, LInv, TypeOK, CallState, BackendsLate, AnswersLate, Waits, Late, Moved
    <2>5. bridge'[b].at = "launching" =>
           /\ bridge'[b].phase # "wait" /\ Holds(b)
           /\ backend'[b] = backend[b]
           /\ bridge[b].at = "launching" \/ http = None
      BY <1>2, <1>a DEF Acquire, LInv, TypeOK, CallState, LaunchesAlone, Moved
    <2>6. CallStep(b)
      BY <2>1, <2>2, <2>3, <2>4, <2>5 DEF CallStep
    <2>7. QED
      BY <2>6, CallKeeps
  <1>3. CASE LockTimeout(b)
    <2>1. /\ UNCHANGED <<http, server>>
          /\ \A c \in Bridges \ {b} : /\ bridge'[c] = bridge[c] /\ backend'[c] = backend[c]
                                      /\ Holds(c) => Holds(c)'
      BY <1>3, <1>a, <1>b DEF LockTimeout, LInv, TypeOK, CallState, system, Holds, Moved
    <2>2. /\ bridge'[b].at \in Within => Holds(b)'
          /\ backend'[b] \in {backend[b], None} \/ Holds(b)
      BY <1>3, <1>a DEF LockTimeout, LInv, TypeOK, CallState, Holds, Moved
    <2>3. bridge'[b].at = "checking" /\ bridge'[b].answer \in Servers
           => server[bridge'[b].answer] \in Late
      BY <1>3, <1>a DEF LockTimeout, LInv, TypeOK, CallState, AnswersLate, Late, Moved
    <2>4. backend'[b] # None /\ ~Waits(b)' => server[backend'[b]] \in Late
      BY <1>3, <1>a DEF LockTimeout, LInv, TypeOK, CallState, BackendsLate, AnswersLate, Waits, Late, Moved
    <2>5. bridge'[b].at = "launching" =>
           /\ bridge'[b].phase # "wait" /\ Holds(b)
           /\ backend'[b] = backend[b]
           /\ bridge[b].at = "launching" \/ http = None
      BY <1>3, <1>a DEF LockTimeout, LInv, TypeOK, CallState, LaunchesAlone, Moved
    <2>6. CallStep(b)
      BY <2>1, <2>2, <2>3, <2>4, <2>5 DEF CallStep
    <2>7. QED
      BY <2>6, CallKeeps
  <1>4. CASE Cancel(b)
    <2>1. /\ UNCHANGED <<http, server>>
          /\ \A c \in Bridges \ {b} : /\ bridge'[c] = bridge[c] /\ backend'[c] = backend[c]
                                      /\ Holds(c) => Holds(c)'
      BY <1>4, <1>a, <1>b DEF Cancel, LInv, TypeOK, CallState, system, Holds, Idle
    <2>2. /\ bridge'[b].at \in Within => Holds(b)'
          /\ backend'[b] \in {backend[b], None} \/ Holds(b)
      BY <1>4, <1>a DEF Cancel, LInv, TypeOK, CallState, Holds, Idle
    <2>3. bridge'[b].at = "checking" /\ bridge'[b].answer \in Servers
           => server[bridge'[b].answer] \in Late
      BY <1>4, <1>a DEF Cancel, LInv, TypeOK, CallState, AnswersLate, Late, Idle
    <2>4. backend'[b] # None /\ ~Waits(b)' => server[backend'[b]] \in Late
      BY <1>4, <1>a DEF Cancel, LInv, TypeOK, CallState, BackendsLate, AnswersLate, Waits, Late, Idle
    <2>5. bridge'[b].at = "launching" =>
           /\ bridge'[b].phase # "wait" /\ Holds(b)
           /\ backend'[b] = backend[b]
           /\ bridge[b].at = "launching" \/ http = None
      BY <1>4, <1>a DEF Cancel, LInv, TypeOK, CallState, LaunchesAlone, Idle
    <2>6. CallStep(b)
      BY <2>1, <2>2, <2>3, <2>4, <2>5 DEF CallStep
    <2>7. QED
      BY <2>6, CallKeeps
  <1>5. CASE OrphanAcquires(b)
    <2>1. /\ UNCHANGED <<http, server>>
          /\ \A c \in Bridges \ {b} : /\ bridge'[c] = bridge[c] /\ backend'[c] = backend[c]
                                      /\ Holds(c) => Holds(c)'
      BY <1>5, <1>a, <1>b DEF OrphanAcquires, LInv, TypeOK, CallState, system, Holds, OrphanHas, caller
    <2>2. /\ bridge'[b].at \in Within => Holds(b)'
          /\ backend'[b] \in {backend[b], None} \/ Holds(b)
      BY <1>5, <1>a DEF OrphanAcquires, LInv, TypeOK, CallState, Holds, OrphanHas, caller
    <2>3. bridge'[b].at = "checking" /\ bridge'[b].answer \in Servers
           => server[bridge'[b].answer] \in Late
      BY <1>5, <1>a DEF OrphanAcquires, LInv, TypeOK, CallState, AnswersLate, Late, OrphanHas, caller
    <2>4. backend'[b] # None /\ ~Waits(b)' => server[backend'[b]] \in Late
      BY <1>5, <1>a DEF OrphanAcquires, LInv, TypeOK, CallState, BackendsLate, AnswersLate, Waits, Late, OrphanHas, caller
    <2>5. bridge'[b].at = "launching" =>
           /\ bridge'[b].phase # "wait" /\ Holds(b)
           /\ backend'[b] = backend[b]
           /\ bridge[b].at = "launching" \/ http = None
      BY <1>5, <1>a DEF OrphanAcquires, LInv, TypeOK, CallState, LaunchesAlone, OrphanHas, caller
    <2>6. CallStep(b)
      BY <2>1, <2>2, <2>3, <2>4, <2>5 DEF CallStep
    <2>7. QED
      BY <2>6, CallKeeps
  <1>6. CASE OrphanReleases(b)
    <2>1. /\ UNCHANGED <<http, server>>
          /\ \A c \in Bridges \ {b} : /\ bridge'[c] = bridge[c] /\ backend'[c] = backend[c]
                                      /\ Holds(c) => Holds(c)'
      BY <1>6, <1>a, <1>b DEF OrphanReleases, LInv, TypeOK, CallState, system, Holds, OrphanHas, caller
    <2>2. /\ bridge'[b].at \in Within => Holds(b)'
          /\ backend'[b] \in {backend[b], None} \/ Holds(b)
      BY <1>6, <1>a DEF OrphanReleases, LInv, TypeOK, CallState, Holds, OrphanHas, caller
    <2>3. bridge'[b].at = "checking" /\ bridge'[b].answer \in Servers
           => server[bridge'[b].answer] \in Late
      BY <1>6, <1>a DEF OrphanReleases, LInv, TypeOK, CallState, AnswersLate, Late, OrphanHas, caller
    <2>4. backend'[b] # None /\ ~Waits(b)' => server[backend'[b]] \in Late
      BY <1>6, <1>a DEF OrphanReleases, LInv, TypeOK, CallState, BackendsLate, AnswersLate, Waits, Late, OrphanHas, caller
    <2>5. bridge'[b].at = "launching" =>
           /\ bridge'[b].phase # "wait" /\ Holds(b)
           /\ backend'[b] = backend[b]
           /\ bridge[b].at = "launching" \/ http = None
      BY <1>6, <1>a DEF OrphanReleases, LInv, TypeOK, CallState, LaunchesAlone, OrphanHas, caller
    <2>6. CallStep(b)
      BY <2>1, <2>2, <2>3, <2>4, <2>5 DEF CallStep
    <2>7. QED
      BY <2>6, CallKeeps
  <1>7. CASE BridgeDies(b)
    <2>1. /\ UNCHANGED <<http, server>>
          /\ \A c \in Bridges \ {b} : /\ bridge'[c] = bridge[c] /\ backend'[c] = backend[c]
                                      /\ Holds(c) => Holds(c)'
      BY <1>7, <1>a, <1>b DEF BridgeDies, LInv, TypeOK, CallState, system, Holds, Idle, OrphanHas
    <2>2. /\ bridge'[b].at \in Within => Holds(b)'
          /\ backend'[b] \in {backend[b], None} \/ Holds(b)
      BY <1>7, <1>a DEF BridgeDies, LInv, TypeOK, CallState, Holds, Idle, OrphanHas
    <2>3. bridge'[b].at = "checking" /\ bridge'[b].answer \in Servers
           => server[bridge'[b].answer] \in Late
      BY <1>7, <1>a DEF BridgeDies, LInv, TypeOK, CallState, AnswersLate, Late, Idle, OrphanHas
    <2>4. backend'[b] # None /\ ~Waits(b)' => server[backend'[b]] \in Late
      BY <1>7, <1>a DEF BridgeDies, LInv, TypeOK, CallState, BackendsLate, AnswersLate, Waits, Late, Idle, OrphanHas
    <2>5. bridge'[b].at = "launching" =>
           /\ bridge'[b].phase # "wait" /\ Holds(b)
           /\ backend'[b] = backend[b]
           /\ bridge[b].at = "launching" \/ http = None
      BY <1>7, <1>a DEF BridgeDies, LInv, TypeOK, CallState, LaunchesAlone, Idle, OrphanHas
    <2>6. CallStep(b)
      BY <2>1, <2>2, <2>3, <2>4, <2>5 DEF CallStep
    <2>7. QED
      BY <2>6, CallKeeps
  <1>8. CASE ReadRecord(b)
    <2>1. /\ UNCHANGED <<http, server>>
          /\ \A c \in Bridges \ {b} : /\ bridge'[c] = bridge[c] /\ backend'[c] = backend[c]
                                      /\ Holds(c) => Holds(c)'
      BY <1>8, <1>a, <1>b DEF ReadRecord, LInv, TypeOK, CallState, system, Holds
    <2>2. /\ bridge'[b].at \in Within => Holds(b)'
          /\ backend'[b] \in {backend[b], None} \/ Holds(b)
      BY <1>8, <1>a DEF ReadRecord, LInv, TypeOK, CallState, Holds
    <2>3. bridge'[b].at = "checking" /\ bridge'[b].answer \in Servers
           => server[bridge'[b].answer] \in Late
      BY <1>8, <1>a DEF ReadRecord, LInv, TypeOK, CallState, AnswersLate, Late
    <2>4. backend'[b] # None /\ ~Waits(b)' => server[backend'[b]] \in Late
      BY <1>8, <1>a DEF ReadRecord, LInv, TypeOK, CallState, BackendsLate, AnswersLate, Waits, Late
    <2>5. bridge'[b].at = "launching" =>
           /\ bridge'[b].phase # "wait" /\ Holds(b)
           /\ backend'[b] = backend[b]
           /\ bridge[b].at = "launching" \/ http = None
      BY <1>8, <1>a DEF ReadRecord, LInv, TypeOK, CallState, LaunchesAlone
    <2>6. CallStep(b)
      BY <2>1, <2>2, <2>3, <2>4, <2>5 DEF CallStep
    <2>7. QED
      BY <2>6, CallKeeps
  <1>9. CASE Ask(b)
    <2>1. /\ UNCHANGED <<http, server>>
          /\ \A c \in Bridges \ {b} : /\ bridge'[c] = bridge[c] /\ backend'[c] = backend[c]
                                      /\ Holds(c) => Holds(c)'
      BY <1>9, <1>a, <1>b DEF Ask, LInv, TypeOK, CallState, system, Holds, Moved
    <2>2. /\ bridge'[b].at \in Within => Holds(b)'
          /\ backend'[b] \in {backend[b], None} \/ Holds(b)
      BY <1>9, <1>a DEF Ask, LInv, TypeOK, CallState, Holds, Moved
    <2>3. bridge'[b].at = "checking" /\ bridge'[b].answer \in Servers
           => server[bridge'[b].answer] \in Late
      BY <1>9, <1>a DEF Ask, LInv, TypeOK, CallState, AnswersLate, Late, Moved
    <2>4. backend'[b] # None /\ ~Waits(b)' => server[backend'[b]] \in Late
      BY <1>9, <1>a DEF Ask, LInv, TypeOK, CallState, BackendsLate, AnswersLate, Waits, Late, Moved
    <2>5. bridge'[b].at = "launching" =>
           /\ bridge'[b].phase # "wait" /\ Holds(b)
           /\ backend'[b] = backend[b]
           /\ bridge[b].at = "launching" \/ http = None
      BY <1>9, <1>a DEF Ask, LInv, TypeOK, CallState, LaunchesAlone, Moved
    <2>6. CallStep(b)
      BY <2>1, <2>2, <2>3, <2>4, <2>5 DEF CallStep
    <2>7. QED
      BY <2>6, CallKeeps
  <1>10. CASE CheckRecord(b)
    <2>1. /\ UNCHANGED <<http, server>>
          /\ \A c \in Bridges \ {b} : /\ bridge'[c] = bridge[c] /\ backend'[c] = backend[c]
                                      /\ Holds(c) => Holds(c)'
      BY <1>10, <1>a, <1>b DEF CheckRecord, LInv, TypeOK, CallState, system, Holds, Moved, Pinned, Succeeds, Fails, Idle
    <2>2. /\ bridge'[b].at \in Within => Holds(b)'
          /\ backend'[b] \in {backend[b], None} \/ Holds(b)
      BY <1>10, <1>a DEF CheckRecord, LInv, TypeOK, CallState, Holds, Moved, Pinned, Succeeds, Fails, Idle
    <2>3. bridge'[b].at = "checking" /\ bridge'[b].answer \in Servers
           => server[bridge'[b].answer] \in Late
      BY <1>10, <1>a DEF CheckRecord, LInv, TypeOK, CallState, AnswersLate, Late, Moved, Pinned, Succeeds, Fails, Idle
    <2>4. backend'[b] # None /\ ~Waits(b)' => server[backend'[b]] \in Late
      BY <1>10, <1>a DEF CheckRecord, LInv, TypeOK, CallState, BackendsLate, AnswersLate, Waits, Late, Moved, Pinned, Succeeds, Fails, Idle
    <2>5. bridge'[b].at = "launching" =>
           /\ bridge'[b].phase # "wait" /\ Holds(b)
           /\ backend'[b] = backend[b]
           /\ bridge[b].at = "launching" \/ http = None
      BY <1>10, <1>a DEF CheckRecord, LInv, TypeOK, CallState, LaunchesAlone, Moved, Pinned, Succeeds, Fails, Idle
    <2>6. CallStep(b)
      BY <2>1, <2>2, <2>3, <2>4, <2>5 DEF CallStep
    <2>7. QED
      BY <2>6, CallKeeps
  <1>11. CASE Retry(b)
    <2>1. /\ UNCHANGED <<http, server>>
          /\ \A c \in Bridges \ {b} : /\ bridge'[c] = bridge[c] /\ backend'[c] = backend[c]
                                      /\ Holds(c) => Holds(c)'
      BY <1>11, <1>a, <1>b DEF Retry, LInv, TypeOK, CallState, system, Holds, Moved
    <2>2. /\ bridge'[b].at \in Within => Holds(b)'
          /\ backend'[b] \in {backend[b], None} \/ Holds(b)
      BY <1>11, <1>a DEF Retry, LInv, TypeOK, CallState, Holds, Moved
    <2>3. bridge'[b].at = "checking" /\ bridge'[b].answer \in Servers
           => server[bridge'[b].answer] \in Late
      BY <1>11, <1>a DEF Retry, LInv, TypeOK, CallState, AnswersLate, Late, Moved
    <2>4. backend'[b] # None /\ ~Waits(b)' => server[backend'[b]] \in Late
      BY <1>11, <1>a DEF Retry, LInv, TypeOK, CallState, BackendsLate, AnswersLate, Waits, Late, Moved
    <2>5. bridge'[b].at = "launching" =>
           /\ bridge'[b].phase # "wait" /\ Holds(b)
           /\ backend'[b] = backend[b]
           /\ bridge[b].at = "launching" \/ http = None
      BY <1>11, <1>a DEF Retry, LInv, TypeOK, CallState, LaunchesAlone, Moved
    <2>6. CallStep(b)
      BY <2>1, <2>2, <2>3, <2>4, <2>5 DEF CallStep
    <2>7. QED
      BY <2>6, CallKeeps
  <1>12. CASE NothingThere(b)
    <2>1. /\ UNCHANGED <<http, server>>
          /\ \A c \in Bridges \ {b} : /\ bridge'[c] = bridge[c] /\ backend'[c] = backend[c]
                                      /\ Holds(c) => Holds(c)'
      BY <1>12, <1>a, <1>b DEF NothingThere, LInv, TypeOK, CallState, system, Holds, PortFree
    <2>2. /\ bridge'[b].at \in Within => Holds(b)'
          /\ backend'[b] \in {backend[b], None} \/ Holds(b)
      BY <1>12, <1>a DEF NothingThere, LInv, TypeOK, CallState, Holds, PortFree
    <2>3. bridge'[b].at = "checking" /\ bridge'[b].answer \in Servers
           => server[bridge'[b].answer] \in Late
      BY <1>12, <1>a DEF NothingThere, LInv, TypeOK, CallState, AnswersLate, Late, PortFree
    <2>4. backend'[b] # None /\ ~Waits(b)' => server[backend'[b]] \in Late
      BY <1>12, <1>a DEF NothingThere, LInv, TypeOK, CallState, BackendsLate, AnswersLate, Waits, Late, PortFree
    <2>5. bridge'[b].at = "launching" =>
           /\ bridge'[b].phase # "wait" /\ Holds(b)
           /\ backend'[b] = backend[b]
           /\ bridge[b].at = "launching" \/ http = None
      BY <1>12, <1>a DEF NothingThere, LInv, TypeOK, CallState, LaunchesAlone, PortFree
    <2>6. CallStep(b)
      BY <2>1, <2>2, <2>3, <2>4, <2>5 DEF CallStep
    <2>7. QED
      BY <2>6, CallKeeps
  <1>13. CASE Deadline(b)
    <2>1. /\ UNCHANGED <<http, server>>
          /\ \A c \in Bridges \ {b} : /\ bridge'[c] = bridge[c] /\ backend'[c] = backend[c]
                                      /\ Holds(c) => Holds(c)'
      BY <1>13, <1>a, <1>b DEF Deadline, LInv, TypeOK, CallState, system, Holds, Moved, PortFree, Fails, Idle
    <2>2. /\ bridge'[b].at \in Within => Holds(b)'
          /\ backend'[b] \in {backend[b], None} \/ Holds(b)
      BY <1>13, <1>a DEF Deadline, LInv, TypeOK, CallState, Holds, Moved, PortFree, Fails, Idle
    <2>3. bridge'[b].at = "checking" /\ bridge'[b].answer \in Servers
           => server[bridge'[b].answer] \in Late
      BY <1>13, <1>a DEF Deadline, LInv, TypeOK, CallState, AnswersLate, Late, Moved, PortFree, Fails, Idle
    <2>4. backend'[b] # None /\ ~Waits(b)' => server[backend'[b]] \in Late
      BY <1>13, <1>a DEF Deadline, LInv, TypeOK, CallState, BackendsLate, AnswersLate, Waits, Late, Moved, PortFree, Fails, Idle
    <2>5. bridge'[b].at = "launching" =>
           /\ bridge'[b].phase # "wait" /\ Holds(b)
           /\ backend'[b] = backend[b]
           /\ bridge[b].at = "launching" \/ http = None
      BY <1>13, <1>a DEF Deadline, LInv, TypeOK, CallState, LaunchesAlone, Moved, PortFree, Fails, Idle
    <2>6. CallStep(b)
      BY <2>1, <2>2, <2>3, <2>4, <2>5 DEF CallStep
    <2>7. QED
      BY <2>6, CallKeeps
  <1>14. CASE ChildExited(b)
    <2>1. /\ UNCHANGED <<http, server>>
          /\ \A c \in Bridges \ {b} : /\ bridge'[c] = bridge[c] /\ backend'[c] = backend[c]
                                      /\ Holds(c) => Holds(c)'
      BY <1>14, <1>a, <1>b DEF ChildExited, LInv, TypeOK, CallState, system, Holds, Fails, Idle
    <2>2. /\ bridge'[b].at \in Within => Holds(b)'
          /\ backend'[b] \in {backend[b], None} \/ Holds(b)
      BY <1>14, <1>a DEF ChildExited, LInv, TypeOK, CallState, Holds, Fails, Idle
    <2>3. bridge'[b].at = "checking" /\ bridge'[b].answer \in Servers
           => server[bridge'[b].answer] \in Late
      BY <1>14, <1>a DEF ChildExited, LInv, TypeOK, CallState, AnswersLate, Late, Fails, Idle
    <2>4. backend'[b] # None /\ ~Waits(b)' => server[backend'[b]] \in Late
      BY <1>14, <1>a DEF ChildExited, LInv, TypeOK, CallState, BackendsLate, AnswersLate, Waits, Late, Fails, Idle
    <2>5. bridge'[b].at = "launching" =>
           /\ bridge'[b].phase # "wait" /\ Holds(b)
           /\ backend'[b] = backend[b]
           /\ bridge[b].at = "launching" \/ http = None
      BY <1>14, <1>a DEF ChildExited, LInv, TypeOK, CallState, LaunchesAlone, Fails, Idle
    <2>6. CallStep(b)
      BY <2>1, <2>2, <2>3, <2>4, <2>5 DEF CallStep
    <2>7. QED
      BY <2>6, CallKeeps
  <1>15. CASE CannotLaunch(b)
    <2>1. /\ UNCHANGED <<http, server>>
          /\ \A c \in Bridges \ {b} : /\ bridge'[c] = bridge[c] /\ backend'[c] = backend[c]
                                      /\ Holds(c) => Holds(c)'
      BY <1>15, <1>a, <1>b DEF CannotLaunch, LInv, TypeOK, CallState, system, Holds, Fails, Idle
    <2>2. /\ bridge'[b].at \in Within => Holds(b)'
          /\ backend'[b] \in {backend[b], None} \/ Holds(b)
      BY <1>15, <1>a DEF CannotLaunch, LInv, TypeOK, CallState, Holds, Fails, Idle
    <2>3. bridge'[b].at = "checking" /\ bridge'[b].answer \in Servers
           => server[bridge'[b].answer] \in Late
      BY <1>15, <1>a DEF CannotLaunch, LInv, TypeOK, CallState, AnswersLate, Late, Fails, Idle
    <2>4. backend'[b] # None /\ ~Waits(b)' => server[backend'[b]] \in Late
      BY <1>15, <1>a DEF CannotLaunch, LInv, TypeOK, CallState, BackendsLate, AnswersLate, Waits, Late, Fails, Idle
    <2>5. bridge'[b].at = "launching" =>
           /\ bridge'[b].phase # "wait" /\ Holds(b)
           /\ backend'[b] = backend[b]
           /\ bridge[b].at = "launching" \/ http = None
      BY <1>15, <1>a DEF CannotLaunch, LInv, TypeOK, CallState, LaunchesAlone, Fails, Idle
    <2>6. CallStep(b)
      BY <2>1, <2>2, <2>3, <2>4, <2>5 DEF CallStep
    <2>7. QED
      BY <2>6, CallKeeps
  <1>16. QED
    BY <1>1, <1>2, <1>3, <1>4, <1>5, <1>6, <1>7, <1>8, <1>9, <1>10, <1>11, <1>12, <1>13, <1>14, <1>15 DEF BridgeSteps

\* The launch: the new server was nobody's.
LEMMA LaunchKeeps ==
  ASSUME LInv, TypeOK', NEW b \in Bridges, Launch(b)
  PROVE  LInv'
  <1>1. PICK s \in Servers : /\ server[s] = "unborn" /\ server' = [server EXCEPT ![s] = "starting"]
                             /\ backend' = [backend EXCEPT ![b] = s]
    BY DEF Launch, NextServer
  <1>2. /\ server'[s] = "starting"
        /\ \A r \in Servers \ {s} : server'[r] = server[r]
        /\ \A c \in Bridges \ {b} : backend'[c] = backend[c]
    BY <1>1 DEF LInv, TypeOK
  <1>3. /\ bridge'[b].at = "reading" /\ bridge'[b].phase = "wait"
        /\ \A c \in Bridges \ {b} : bridge'[c] = bridge[c]
    BY DEF Launch, LInv, TypeOK, CallState
  <1>4. Holds(b) /\ UNCHANGED <<lock, http>>
    BY DEF Launch, Kept, LInv, Locked, Within
  <1>5. \A r \in Servers : server[r] \in Late => server'[r] \in Late
    BY <1>1, <1>2 DEF Late
  <1>6. Locked'
    BY <1>3, <1>4 DEF LInv, Locked, Holds
  <1>7. PortServed'
    BY <1>2, <1>4 DEF LInv, PortServed
  <1>8. AnswersLate'
    BY <1>3, <1>5 DEF LInv, AnswersLate
  <1>9. ASSUME NEW c \in Bridges, backend'[c] # None, ~Waits(c)' PROVE server'[backend'[c]] \in Late
    <2>1. c # b
      BY <1>3, <1>9 DEF Waits, Within
    <2>2. backend'[c] = backend[c] /\ bridge'[c] = bridge[c] /\ backend[c] \in Servers
      BY <2>1, <1>2, <1>3, <1>9 DEF LInv, TypeOK
    <2>3. server[backend[c]] \in Late
      BY <2>2, <1>9 DEF LInv, BackendsLate, Waits
    <2>4. QED
      BY <2>2, <2>3, <1>5
  <1>10. LaunchesAlone'
    <2>1. \A c \in Bridges : bridge'[c].at # "launching"
      BY <1>3, <1>4 DEF LInv, Locked, Holds, Within
    <2>2. QED
      BY <2>1 DEF LaunchesAlone
  <1>11. QED
    BY <1>6, <1>7, <1>8, <1>9, <1>10 DEF LInv, BackendsLate

LEMMA LockHolds ==
  ASSUME LInv, [Next]_vars
  PROVE  LInv'
  <1>1. ASSUME NEW b \in Bridges,
               BridgeSteps(b) \/ Ensure(b) \/ Cancel(b) \/ BridgeDies(b)
                 \/ OrphanAcquires(b) \/ OrphanReleases(b)
        PROVE  LInv'
    <2>1. TypeOK'
      BY <1>1, BridgeTypes DEF LInv
    <2>2. QED
      BY <1>1, <2>1, LaunchKeeps, BridgeKeepsLock
  <1>2. ASSUME NEW s \in Servers, EditorLaunches(s) \/ ServerSteps(s) \/ Stop(s) \/ Killed(s)
        PROVE  LInv'
    <2>1. TypeOK'
      BY <1>2, ServerTypes DEF LInv
    <2>2. /\ UNCHANGED <<bridge, backend, lock>>
          /\ \A r \in Servers : /\ server[r] \in Late => server'[r] \in Late
                                /\ server[r] \in Ended => server'[r] \in Ended
                                /\ server'[r] = "serving" => http' = r
      BY <1>2, ServersMoveOn
    <2>3. Locked' /\ PortServed' /\ AnswersLate'
      BY <2>2 DEF LInv, Locked, PortServed, AnswersLate, Holds
    <2>4. BackendsLate' /\ LaunchesAlone'
      BY <2>2 DEF LInv, TypeOK, BackendsLate, LaunchesAlone, Waits
    <2>5. QED
      BY <2>1, <2>3, <2>4 DEF LInv
  <1>3. CASE UNCHANGED vars
    BY <1>3 DEF LInv, TypeOK, Locked, PortServed, AnswersLate, BackendsLate, LaunchesAlone,
                Waits, Holds, vars, system, caller
  <1>4. QED
    BY <1>1, <1>2, <1>3 DEF Next

\* Whatever step the launch is, there is no backend left to be a rival of.
LEMMA StepUnrivalled ==
  ASSUME LInv
  PROVE  Unrivalled
  BY DEF LInv, TypeOK, LaunchesAlone, Unrivalled, Usable, Ended

-----------------------------------------------------------------------------
\* Types, the claim and the record.
THEOREM Invariance == Spec => []IInv
  <1>1. IInv /\ [Next]_vars => IInv'
    BY StepHolds
  <1>2. QED
    BY InitHolds, <1>1, PTL DEF Spec

\* Types.
THEOREM TypeCorrect == Spec => []TypeOK
  <1>1. IInv => TypeOK
    BY DEF IInv
  <1>2. QED
    BY <1>1, Invariance, PTL

\* write_capabilities and remove_capabilities, called between the claim and
\* its release, keep the record of a server that serves.
THEOREM RecordHolds == Spec => []RecordStands
  <1>1. IInv => RecordStands
    BY DEF IInv
  <1>2. QED
    BY <1>1, Invariance, PTL

\* The startup lock, the port and what bridges know of their backends.
THEOREM LockInvariance == Spec => []LInv
  <1>1. Init => LInv
    <2>1. Init => TypeOK
      BY InitHolds DEF IInv
    <2>2. Init => Locked /\ PortServed /\ AnswersLate /\ BackendsLate /\ LaunchesAlone
      BY DEF Init, Idle, Locked, PortServed, AnswersLate, BackendsLate, LaunchesAlone, Within
    <2>3. QED
      BY <2>1, <2>2 DEF LInv
  <1>2. LInv /\ [Next]_vars => LInv'
    BY LockHolds
  <1>3. QED
    BY <1>1, <1>2, PTL DEF Spec

\* ensure, holding the lock from the probe to the child's health, never spawns
\* beside a backend that lives and that some bridge has.
THEOREM NoRival == Spec => NoRivalChild
  <1>1. LInv => [Unrivalled]_vars
    BY StepUnrivalled
  <1>2. QED
    BY <1>1, LockInvariance, PTL DEF Spec, NoRivalChild, Unrivalled

\* probe_backend, reading the record before and after its request, blames no
\* foreign occupant while a backend serves that it could use, but when the
\* record rotates twice under it.
THEOREM OccupantsAreForeign == Spec => []NoFalseOccupant
  <1>1. Init => PInv
    <2>1. Init => IInv
      BY InitHolds
    <2>2. Init => RecordPast /\ SeenPast /\ AnswerFits
      BY DEF Init, Idle, RecordPast, SeenPast, AnswerFits
    <2>3. QED
      BY <2>1, <2>2 DEF PInv
  <1>2. PInv /\ [Next]_vars => PInv'
    BY StepAnswers
  <1>3. PInv => NoFalseOccupant
    BY OccupiedRightly
  <1>4. QED
    BY <1>1, <1>2, <1>3, PTL DEF Spec

=============================================================================
