------------------------- MODULE AttachRecoveryProofs -------------------------
(***************************************************************************)
(* At-most-once delivery of tools/call, for every number of requests,      *)
(* backends and monitor threshold.  The inductive invariant follows the    *)
(* attempts a call has used, that is sent or had performed: none while it  *)
(* ensures a backend, at most the current one while it runs, none as long  *)
(* as its trace proves that nothing was sent, and at most one for good.    *)
(***************************************************************************)
EXTENDS AttachRecovery, TLAPS

Used(c) == {k \in Attempts : <<c, k>> \in wire \cup executed}

\* What the trace or the exception shows to have happened before dispatch.
ShownUnsent(c) == trace[c] \cap {"initialize", "connect"} # {} \/ error[c] = "startup"

Refusal == {"unavailable", "startup_error"}

\* The parts of the invariant of one tool call.
Waiting(c) ==
  stage[c] \in {"idle", "ensuring"} => Used(c) = {} /\ outcome[c] = "none"

Busy(c) ==
  stage[c] = "running" =>
    /\ outcome[c] = "none"
    /\ Used(c) \subseteq {attempt[c]}
    /\ leg[c] \in {"opening", "notifying", "calling"} => Used(c) = {}
    /\ ShownUnsent(c) => leg[c] = "failed" /\ Used(c) = {}
    /\ leg[c] = "answered" => <<c, attempt[c]>> \in executed

Finished(c) ==
  stage[c] = "done" =>
    /\ \E k \in Attempts : Used(c) \subseteq {k}
    /\ outcome[c] # "none"
    /\ outcome[c] \in Refusal => Used(c) = {}
    /\ outcome[c] = "result" => c \in Performed

CallInv(c) ==
  /\ \A k \in Attempts : ~(<<c, k>> \in wire /\ <<c, k>> \in executed)
  /\ Waiting(c)
  /\ Busy(c)
  /\ Finished(c)

\* A request that is under way is in one of its two attempts.
Counted == \A c \in Calls : stage[c] \in {"ensuring", "running"} => attempt[c] \in Attempts

Typed == TypeOK /\ Counted

Inv == Typed /\ \A c \in ToolCalls : CallInv(c)

USE AttachAssumption


-----------------------------------------------------------------------------
(* The parts of a step.                                                    *)

\* c is as it was: nothing of it changed, in the bridge or at the backend.
Untouched(c) ==
  /\ stage'[c] = stage[c] /\ attempt'[c] = attempt[c] /\ outcome'[c] = outcome[c]
  /\ leg'[c] = leg[c] /\ error'[c] = error[c] /\ trace'[c] = trace[c]
  /\ \A k \in Attempts : /\ <<c, k>> \in wire' <=> <<c, k>> \in wire
                         /\ <<c, k>> \in executed' <=> <<c, k>> \in executed

\* A step of another request, or one that only moves the monitor, keeps what
\* is known of c.
LEMMA UntouchedCall ==
  ASSUME Typed, NEW c \in ToolCalls, CallInv(c), Untouched(c)
  PROVE  CallInv(c)'
  <1>1. Used(c)' = Used(c) /\ ShownUnsent(c)' = ShownUnsent(c)
    BY DEF Untouched, Used, ShownUnsent
  <1>2. c \in Performed <=> c \in Performed'
    BY DEF Untouched, Performed
  <1>3. Waiting(c)' /\ Busy(c)' /\ Finished(c)'
    BY <1>1, <1>2, AttachAssumption DEF Untouched, CallInv, Waiting, Busy, Finished, Typed, Counted
  <1>4. QED
    BY <1>3 DEF Untouched, CallInv

\* Finish keeps the invariant when its outcome fits what was used.
LEMMA FinishCall ==
  ASSUME Typed, NEW c \in ToolCalls, CallInv(c), NEW o \in Outcome \ {"none"}, Finish(c, o),
         stage[c] \in {"ensuring", "running"},
         o \in Refusal => Used(c) = {},
         o = "result" => c \in Performed
  PROVE  CallInv(c)'
  <1>1. stage'[c] = "done" /\ outcome'[c] = o /\ UNCHANGED <<wire, executed>>
    BY AttachAssumption DEF Finish, Typed, TypeOK, backendVars
  <1>2. Used(c)' = Used(c) /\ (c \in Performed <=> c \in Performed')
    BY <1>1 DEF Used, Performed
  <1>3. \E k \in Attempts : Used(c) \subseteq {k}
    BY AttachAssumption DEF CallInv, Waiting, Busy, Attempts, Typed, Counted
  <1>4. QED
    BY <1>1, <1>2, <1>3 DEF CallInv, Waiting, Busy, Finished

\* The replay starts with nothing used.
LEMMA RetryCall ==
  ASSUME Typed, NEW c \in ToolCalls, CallInv(c), Retry(c), stage[c] = "running", Used(c) = {}
  PROVE  CallInv(c)'
  <1>1. /\ stage'[c] = "ensuring" /\ attempt'[c] = 2 /\ outcome'[c] = outcome[c]
        /\ UNCHANGED <<wire, executed>>
    BY AttachAssumption DEF Retry, Typed, TypeOK, backendVars
  <1>2. Used(c)' = Used(c)
    BY <1>1 DEF Used
  <1>3. QED
    BY <1>1, <1>2 DEF CallInv, Waiting, Busy, Finished, Attempts

-----------------------------------------------------------------------------
(* The actions.                                                            *)

\* Every step keeps the types.
LEMMA TypeStep == ASSUME Typed, [Next]_vars PROVE Typed'
  <1> USE DEF Typed, TypeOK, Counted, Attempts, backendVars, clientVars, monitorVars
  <1>1. CASE Crash
    BY <1>1 DEF Crash
  <1>2. CASE Restart
    BY <1>2 DEF Restart
  <1>3. CASE UNCHANGED vars
    BY <1>3 DEF vars
  <1>4. ASSUME NEW c \in Calls, NEW k \in Attempts, Execute(c, k) PROVE Typed'
    BY <1>4 DEF Execute
  <1>5. ASSUME NEW c \in Calls, CallStep(c) PROVE Typed'
    <2>1. ASSUME NEW o \in Outcome, Finish(c, o) PROVE Typed'
      BY <2>1 DEF Finish, Stage, Leg, Error
    <2>2. CASE Retry(c)
      BY <2>2 DEF Retry, Stage, Leg
    <2>3. CASE Resume(c) \/ Cancel(c) \/ EnsureFails(c)
      BY <2>1, <2>2, <2>3 DEF Resume, Returns, ToolCallFails, SafeRequestFails, BackendChanged,
                              Cancel, EnsureFails, Outcome
    <2>4. CASE Start(c)
      BY <2>4 DEF Start, Stage
    <2>5. CASE EnsureReady(c)
      BY <2>5 DEF EnsureReady, BeginAttempt, Stage, Leg, Error
    <2>6. ASSUME NEW e \in Error, NEW F \in SUBSET Failure, Fails(c, e, F) PROVE Typed'
      BY <2>6 DEF Fails, Leg
    <2>7. CASE CapabilityMissing(c) \/ InitializeFails(c) \/ NotificationFails(c)
               \/ ConnectFails(c) \/ Breaks(c)
      BY <2>6, <2>7 DEF CapabilityMissing, InitializeFails, NotificationFails, ConnectFails, Breaks,
                        Error, Failure
    <2>8. CASE Initialized(c) \/ Notified(c) \/ Answered(c)
      BY <2>8 DEF Initialized, Notified, Answered, Advance, Leg
    <2>9. CASE Send(c)
      BY <2>9 DEF Send, Advance, InLeg, Leg
    <2>10. CASE StreamRefused(c)
      BY <2>10 DEF StreamRefused, Failure
    <2>11. CASE Observe(c)
      <3>1. /\ \E m \in Nat : misses' = [misses EXCEPT ![c] = m]
            /\ \E b \in BOOLEAN : changed' = [changed EXCEPT ![c] = b]
            /\ UNCHANGED <<up, instance, wire, executed, stage, attempt, bound, leg, error,
                           trace, outcome>>
        <4>1. PICK seen \in (IF up THEN {instance} ELSE {}) \cup {0} :
                /\ misses' = [misses EXCEPT ![c] = IF seen = 0 THEN @ + 1 ELSE 0]
                /\ changed' = [changed EXCEPT ![c] =
                                 IF seen = 0 THEN misses'[c] >= FailureThreshold
                                 ELSE seen # bound[c]]
          BY <2>11 DEF Observe
        <4> DEFINE m == IF seen = 0 THEN misses[c] + 1 ELSE 0
                   b == IF seen = 0 THEN misses'[c] >= FailureThreshold ELSE seen # bound[c]
        <4>2. m \in Nat /\ misses' = [misses EXCEPT ![c] = m]
          BY <4>1
        <4>3. b \in BOOLEAN
          <5>1. (misses'[c] >= FailureThreshold) \in BOOLEAN
            BY <4>2, AttachAssumption, SMT
          <5>2. (seen # bound[c]) \in BOOLEAN
            BY Zenon
          <5>3. QED
            BY <5>1, <5>2, Zenon
        <4>4. changed' = [changed EXCEPT ![c] = b]
          BY <4>1, Zenon
        <4> HIDE DEF m, b
        <4>5. QED
          BY <2>11, <4>2, <4>3, <4>4 DEF Observe
      <3>2. QED
        BY <3>1
    <2>12. QED
      BY <1>5, <2>3, <2>4, <2>5, <2>7, <2>8, <2>9, <2>10, <2>11 DEF CallStep
  <1>6. QED
    BY <1>1, <1>2, <1>3, <1>4, <1>5 DEF Next

\* Every step keeps what is known of each tool call c.
LEMMA CallStepInv ==
  ASSUME Inv, Next, NEW c \in ToolCalls
  PROVE  CallInv(c)'
  <1> USE AttachAssumption DEF Inv, Typed, TypeOK, backendVars, clientVars, monitorVars
  <1>1. CASE Crash \/ Restart
    <2>1. /\ UNCHANGED <<executed, stage, attempt, outcome, leg, error, trace>>
          /\ wire' \subseteq wire
      BY <1>1 DEF Crash, Restart
    <2>2. Used(c)' \subseteq Used(c) /\ ShownUnsent(c)' = ShownUnsent(c) /\ Performed' = Performed
      BY <2>1 DEF Used, ShownUnsent, Performed
    <2>3. QED
      BY <2>1, <2>2 DEF CallInv, Waiting, Busy, Finished
  <1>2. ASSUME NEW d \in Calls, NEW k \in Attempts, Execute(d, k)
        PROVE  CallInv(c)'
    <2>1. CASE d # c
      BY <1>2, <2>1, UntouchedCall DEF Execute, Untouched
    <2>2. CASE d = c
      <3>1. /\ UNCHANGED <<stage, attempt, outcome, leg, error, trace>>
            /\ wire' = wire \ {<<c, k>>} /\ executed' = executed \cup {<<c, k>>}
            /\ <<c, k>> \in wire
        BY <1>2, <2>2 DEF Execute
      <3>2. Used(c)' = Used(c) /\ ShownUnsent(c)' = ShownUnsent(c)
        BY <3>1 DEF Used, ShownUnsent
      <3>3. c \in Performed => c \in Performed'
        BY <3>1 DEF Performed
      <3>4. QED
        BY <3>1, <3>2, <3>3 DEF CallInv, Waiting, Busy, Finished
    <2>3. QED
      BY <2>1, <2>2
  <1>3. ASSUME NEW d \in Calls, CallStep(d), d # c
        PROVE  CallInv(c)'
    <2>1. Untouched(c)
      BY <1>3 DEF CallStep, Start, EnsureReady, BeginAttempt, EnsureFails, Finish, CapabilityMissing,
                  Fails, Initialized, InitializeFails, Notified, NotificationFails, StreamRefused,
                  ConnectFails, Send, Answered, Breaks, Advance, Observe, Resume, Returns,
                  ToolCallFails, SafeRequestFails, BackendChanged, Retry, Cancel, Untouched
    <2>2. QED
      BY <2>1, UntouchedCall
  <1>4. CASE CallStep(c)
    <2>1. CASE Start(c)
      BY <2>1 DEF Start, CallInv, Waiting, Busy, Finished, Used
    <2>2. CASE EnsureReady(c)
      BY <2>2 DEF EnsureReady, BeginAttempt, CallInv, Waiting, Busy, Finished, Used, ShownUnsent
    <2>3. CASE EnsureFails(c) \/ Cancel(c)
      BY <2>3, FinishCall DEF EnsureFails, Cancel, CallInv, Waiting, Refusal, Outcome
    <2>4. CASE CapabilityMissing(c) \/ InitializeFails(c) \/ ConnectFails(c)
      BY <2>4 DEF CapabilityMissing, InitializeFails, ConnectFails, Fails, InLeg,
                  CallInv, Waiting, Busy, Finished, Used, ShownUnsent
    <2>5. CASE NotificationFails(c) \/ Breaks(c)
      BY <2>5 DEF NotificationFails, Breaks, Fails, InLeg,
                  CallInv, Waiting, Busy, Finished, Used, ShownUnsent
    <2>6. CASE Initialized(c) \/ Notified(c) \/ Answered(c)
      BY <2>6 DEF Initialized, Notified, Answered, Advance, InLeg,
                  CallInv, Waiting, Busy, Finished, Used, ShownUnsent
    <2>7. CASE StreamRefused(c)
      BY <2>7 DEF StreamRefused, CallInv, Waiting, Busy, Finished, Used, ShownUnsent
    <2>8. CASE Send(c)
      BY <2>8 DEF Send, Advance, InLeg, CallInv, Waiting, Busy, Finished, Used, ShownUnsent
    <2>9. CASE Observe(c)
      <3>1. Untouched(c)
        BY <2>9 DEF Observe, Untouched
      <3>2. QED
        BY <3>1, UntouchedCall
    <2>10. CASE Returns(c)
      <3>1. c \in Performed
        BY <2>10 DEF Returns, InLeg, Performed, CallInv, Busy, Typed, Counted
      <3>2. QED
        BY <2>10, <3>1, FinishCall DEF Returns, InLeg, Refusal, Outcome
    <2>11. CASE ToolCallFails(c)
      <3>1. stage[c] = "running" /\ (ShownUnsent(c) => Used(c) = {})
        BY <2>11 DEF ToolCallFails, InLeg, CallInv, Busy
      <3>2. CASE Retry(c)
        BY <2>11, <3>1, <3>2, RetryCall DEF ToolCallFails, ProvenPreDispatch, ShownUnsent, Retry, Finish
      <3>3. ASSUME ~Retry(c) PROVE CallInv(c)'
        <4>1. PICK o \in Outcome \ {"none", "result"} :
                Finish(c, o) /\ (o \in Refusal => ShownUnsent(c))
          BY <2>11, <3>3 DEF ToolCallFails, ProvenPreDispatch, ShownUnsent, Outcome, Refusal
        <4>2. QED
          BY <3>1, <4>1, FinishCall
      <3>4. QED
        BY <3>2, <3>3
    <2>12. CASE SafeRequestFails(c)
      BY <2>12 DEF SafeRequestFails
    <2>13. CASE BackendChanged(c)
      BY <2>13, FinishCall DEF BackendChanged, Refusal, Outcome
    <2>14. QED
      BY <1>4, <2>1, <2>2, <2>3, <2>4, <2>5, <2>6, <2>7, <2>8, <2>9, <2>10, <2>11, <2>12, <2>13
         DEF CallStep, Resume
  <1>5. QED
    BY <1>1, <1>2, <1>3, <1>4 DEF Next

-----------------------------------------------------------------------------
(* The theorems.                                                           *)

\* The invariant holds at first.
LEMMA InitInv == Init => Inv
  BY AttachAssumption
     DEF Init, Inv, Typed, TypeOK, Counted, CallInv, Waiting, Busy, Finished, Used, Stage, Leg,
         Error, Outcome, Attempts

\* The invariant is inductive.
LEMMA NextInv == Inv /\ [Next]_vars => Inv'
  <1> SUFFICES ASSUME Inv, [Next]_vars PROVE Inv'
    OBVIOUS
  <1>1. Typed'
    BY TypeStep DEF Inv
  <1>2. CASE Next
    BY <1>1, <1>2, CallStepInv DEF Inv
  <1>3. CASE UNCHANGED vars
    <2>1. \A c \in ToolCalls : CallInv(c)'
      BY <1>3, UntouchedCall DEF Inv, Untouched, vars, backendVars, clientVars
    <2>2. QED
      BY <1>1, <2>1 DEF Inv
  <1>4. QED
    BY <1>2, <1>3

\* The invariant holds in every reachable state.
THEOREM Invariance == Spec => []Inv
  BY InitInv, NextInv, PTL DEF Spec

\* A tool call has used at most one of its attempts.
LEMMA OneUsed ==
  ASSUME Inv, NEW c \in ToolCalls
  PROVE  \E k \in Attempts : Used(c) \subseteq {k}
  <1>1. c \in Calls /\ stage[c] \in Stage
    BY AttachAssumption DEF Inv, Typed, TypeOK
  <1>2. CASE stage[c] \in {"idle", "ensuring"}
    <2>1. Used(c) = {}
      BY <1>2 DEF Inv, CallInv, Waiting
    <2>2. 1 \in Attempts
      BY DEF Attempts
    <2>3. QED
      BY <2>1, <2>2
  <1>3. CASE stage[c] = "running"
    <2>1. attempt[c] \in Attempts
      BY <1>1, <1>3 DEF Inv, Typed, Counted
    <2>2. Used(c) \subseteq {attempt[c]}
      BY <1>3 DEF Inv, CallInv, Busy
    <2>3. QED
      BY <2>1, <2>2
  <1>4. CASE stage[c] = "done"
    BY <1>4 DEF Inv, CallInv, Finished
  <1>5. QED
    BY <1>1, <1>2, <1>3, <1>4 DEF Stage

\* A tools/call is performed at most once, for every interleaving of crashes,
\* restarts, failures and retries.
THEOREM AtMostOnceHolds == Spec => []AtMostOnce
  <1>1. Inv => AtMostOnce
    <2> SUFFICES ASSUME Inv, NEW c \in ToolCalls PROVE ~(<<c, 1>> \in executed /\ <<c, 2>> \in executed)
      BY DEF AtMostOnce
    <2>1. \E k \in Attempts : Used(c) \subseteq {k}
      BY OneUsed
    <2>2. QED
      BY <2>1 DEF Used, Attempts
  <1>2. QED
    BY <1>1, Invariance, PTL

\* A call that the bridge declares safe to repeat was not and cannot be
\* performed.
THEOREM NoFalseRefusalHolds == Spec => []NoFalseRefusal
  <1>1. Inv => NoFalseRefusal
    BY AttachAssumption
       DEF Inv, Typed, TypeOK, Stage, CallInv, Waiting, Busy, Finished, Refusal, Used, NoFalseRefusal
  <1>2. QED
    BY <1>1, Invariance, PTL

\* Only the backend's own step performs anything.
LEMMA CallStepFrame ==
  ASSUME Typed, NEW c \in Calls, CallStep(c)
  PROVE  /\ UNCHANGED executed
         /\ outcome' = outcome \/ \E o \in Outcome \ {"none"} : Finish(c, o)
  <1>1. CASE Resume(c) \/ Cancel(c) \/ EnsureFails(c)
    <2>1. Retry(c) \/ \E o \in Outcome \ {"none"} : Finish(c, o)
      BY <1>1 DEF Resume, Returns, ToolCallFails, SafeRequestFails, BackendChanged, Cancel,
                  EnsureFails, Outcome
    <2>2. QED
      BY <2>1 DEF Retry, Finish, backendVars
  <1>2. CASE ~(Resume(c) \/ Cancel(c) \/ EnsureFails(c))
    BY <1>2 DEF CallStep, Start, EnsureReady, CapabilityMissing, Fails, Initialized, InitializeFails,
                Notified, NotificationFails, StreamRefused, ConnectFails, Send, Answered, Breaks,
                Advance, Observe, backendVars
  <1>3. QED
    BY <1>1, <1>2

\* A request is answered once: only one that is under way gets an outcome.
LEMMA UnfinishedBefore ==
  ASSUME Inv, NEW c \in ToolCalls, CallStep(c), NEW o \in Outcome \ {"none"}, Finish(c, o)
  PROVE  outcome[c] = "none"
  <1>1. stage'[c] = "done"
    BY AttachAssumption DEF Inv, Typed, TypeOK, Finish
  <1>2. stage[c] # "done"
    BY <1>1 DEF CallStep, Start, EnsureReady, EnsureFails, CapabilityMissing, Initialized,
                InitializeFails, Notified, NotificationFails, StreamRefused, ConnectFails, Send,
                Answered, Breaks, Observe, Resume, Returns, ToolCallFails, SafeRequestFails,
                BackendChanged, Cancel, InLeg
  <1>3. QED
    BY <1>2, AttachAssumption DEF Inv, Typed, TypeOK, Stage, CallInv, Waiting, Busy

\* The bridge implements the at-most-once call.
THEOREM Refinement == Spec => ImplementsAtMostOnce
  <1>1. Init => Abstract!AmoInit
    BY AttachAssumption DEF Init, Abstract!AmoInit, Performed, AnswerOf
  <1>2. Inv /\ [Next]_vars => [Abstract!AmoNext]_(Abstract!amoVars)
    <2> SUFFICES ASSUME Inv, [Next]_vars PROVE [Abstract!AmoNext]_(Abstract!amoVars)
      OBVIOUS
    <2> DEFINE ans == [c \in ToolCalls |-> AnswerOf(outcome[c])]
    <2>1. CASE Crash \/ Restart \/ UNCHANGED vars
      BY <2>1 DEF Crash, Restart, vars, backendVars, Performed, Abstract!amoVars
    <2>2. ASSUME NEW c \in Calls, NEW k \in Attempts, Execute(c, k)
          PROVE  [Abstract!AmoNext]_(Abstract!amoVars)
      <3>1. ans' = ans /\ executed' = executed \cup {<<c, k>>} /\ <<c, k>> \in wire
        BY <2>2 DEF Execute
      <3>2. CASE c \notin ToolCalls
        <4>1. Performed' = Performed
          BY <3>1, <3>2 DEF Performed
        <4>2. QED
          BY <3>1, <4>1 DEF Abstract!amoVars
      <3>3. CASE c \in ToolCalls
        <4>1. c \notin Performed /\ Performed' = Performed \cup {c}
          <5>1. \A j \in Attempts : <<c, j>> \notin executed
            <6>1. PICK i \in Attempts : Used(c) \subseteq {i}
              BY <3>3, OneUsed
            <6>2. i = k
              BY <3>1, <6>1 DEF Used
            <6>3. QED
              BY <3>1, <3>3, <6>1, <6>2 DEF Inv, CallInv, Used
          <5>2. QED
            BY <3>1, <3>3, <5>1 DEF Performed
        <4>2. AnswerOf(outcome[c]) \in {"none", "unknown"}
          <5>1. outcome[c] \in Outcome \ (Refusal \cup {"result"})
            BY <3>1, <3>3, <4>1, AttachAssumption
               DEF Inv, Typed, TypeOK, Stage, CallInv, Waiting, Busy, Finished, Refusal, Used
          <5>2. QED
            BY <5>1 DEF AnswerOf, Refusal
        <4>3. Abstract!Perform(c)
          BY <3>1, <3>3, <4>1, <4>2 DEF Abstract!Perform
        <4>4. QED
          BY <3>3, <4>3 DEF Abstract!AmoNext
      <3>4. QED
        BY <3>2, <3>3
    <2>3. ASSUME NEW c \in Calls, CallStep(c)
          PROVE  [Abstract!AmoNext]_(Abstract!amoVars)
      <3>1. Performed' = Performed
        BY <2>3, CallStepFrame DEF Inv, Performed
      <3>2. CASE outcome' = outcome
        BY <3>1, <3>2 DEF Abstract!amoVars
      <3>3. ASSUME NEW o \in Outcome \ {"none"}, Finish(c, o)
            PROVE  [Abstract!AmoNext]_(Abstract!amoVars)
        <4>1. outcome' = [outcome EXCEPT ![c] = o]
          BY <3>3 DEF Finish
        <4>2. CASE c \notin ToolCalls
          <5>1. ans' = ans
            BY <4>1, <4>2
          <5>2. QED
            BY <3>1, <5>1 DEF Abstract!amoVars
        <4>3. CASE c \in ToolCalls
          <5>1. CallInv(c)' /\ Typed'
            BY <4>3, NextInv DEF Inv
          <5>2. outcome'[c] = o /\ stage'[c] = "done"
            BY <3>3, <4>3, AttachAssumption DEF Finish, Inv, Typed, TypeOK
          <5>3. /\ o = "result" => c \in Performed
                /\ o \in Refusal => c \notin Performed
            BY <3>1, <5>1, <5>2 DEF CallInv, Finished, Used, Performed
          <5>4. /\ AnswerOf(o) \in {"result", "refused", "unknown"}
                /\ AnswerOf(o) = "result" => o = "result"
                /\ AnswerOf(o) = "refused" => o \in Refusal
            BY DEF AnswerOf, Refusal
          <5>5. ans' = [ans EXCEPT ![c] = AnswerOf(o)]
            BY <4>1, <4>3, AttachAssumption DEF Inv, Typed, TypeOK
          <5>6. ans[c] = "none"
            <6>1. outcome[c] = "none"
              BY <2>3, <3>3, <4>3, UnfinishedBefore DEF Inv
            <6>2. QED
              BY <4>3, <6>1 DEF AnswerOf
          <5>7. Abstract!Tell(c, AnswerOf(o))
            BY <3>1, <5>3, <5>4, <5>5, <5>6 DEF Abstract!Tell
          <5>8. QED
            BY <4>3, <5>4, <5>7 DEF Abstract!AmoNext, Abstract!Answer
        <4>4. QED
          BY <4>2, <4>3
      <3>4. QED
        BY <2>3, <3>2, <3>3, CallStepFrame DEF Inv
    <2>4. QED
      BY <2>1, <2>2, <2>3 DEF Next
  <1>3. QED
    BY <1>1, <1>2, Invariance, PTL DEF Spec, ImplementsAtMostOnce, Abstract!AmoSpec

=============================================================================
