---------------------------- MODULE TelemetryProofs ----------------------------
(***************************************************************************)
(* For any calls, milestones, collectors and capacities: the collectors'   *)
(* state is well typed, no client is closed under a post, nothing but what *)
(* was on the wire arrives after an opt-out, a worker that ended left      *)
(* nothing behind that was recorded in time, a call is reported once at    *)
(* the most, and a milestone by one collector.                             *)
(***************************************************************************)
EXTENDS Telemetry, SequenceTheorems, TLAPS

USE TelemetryAssumption DEF Records, Calls

Items == Records \cup {Save, Wake}

LoopSteps ==
  \/ \E t \in Calls : Returns(t) \/ Counts(t) \/ Queues(t)
  \/ \E m \in Milestones : Milestone(m)
  \/ OptOut \/ RecordMilestone \/ Shutdown \/ Joined \/ ProcessEnds

-----------------------------------------------------------------------------
(* Typing.                                                                 *)

LEMMA ExceptOutside ==
  ASSUME NEW S, NEW T, NEW f \in [S -> T], NEW x, x \notin S, NEW v
  PROVE  [f EXCEPT ![x] = v] \in [S -> T]
  OBVIOUS

LEMMA QueuedType ==
  ASSUME TypeOK, NEW c \in Collectors, NEW x \in Items
  PROVE  Queued(c, x) \in Seq(Items)
  BY DEF TypeOK, Queued, Items

LEMMA EmptyTypes ==
  <<>> \in Seq(Items) /\ <<>> \in Seq(Records) /\ <<>> \in Seq(SUBSET Records)
  BY EmptySeq

LEMMA InitType == Init => TypeOK
<1> SUFFICES ASSUME Init PROVE TypeOK
  OBVIOUS
<1>1. /\ queue \in [Collectors -> Seq(Items)]
      /\ pending \in [Collectors -> Seq(Records)]
      /\ outbox \in [Collectors -> Seq(SUBSET Records)]
  BY EmptyTypes DEF Init
<1>2. /\ worker \in [Collectors -> WorkerState] /\ client \in [Collectors -> {"none", "open", "closed"}]
      /\ caller \in [Calls -> {"idle", "done"} \cup Collectors]
      /\ marked \in [Collectors -> SUBSET Milestones] /\ rollup \in [Collectors -> SUBSET Tools]
      /\ stop \in [Collectors -> BOOLEAN] /\ last \in [Collectors -> BOOLEAN]
  BY DEF Init, WorkerState
<1> QED
  BY <1>1, <1>2 DEF Init, TypeOK, Items

LEMMA GetTelemetryType ==
  ASSUME TypeOK, NEW c \in Collectors, GetTelemetry(c)
  PROVE  current' \in Collectors \cup {None} /\ worker' \in [Collectors -> WorkerState]
  BY DEF TypeOK, GetTelemetry, WorkerState

LEMMA NotedType ==
  ASSUME TypeOK, NEW t \in Calls, Noted(t)
  PROVE  caller' \in [Calls -> {"idle", "done"} \cup Collectors] /\ caller[t] \in Collectors
  BY DEF TypeOK, Noted

\* Callers and the event loop keep the types.
LEMMA LoopType == TypeOK /\ LoopSteps => TypeOK'
<1> SUFFICES ASSUME TypeOK, LoopSteps PROVE TypeOK'
  OBVIOUS
<1>1. ASSUME NEW t \in Calls, Returns(t) PROVE TypeOK'
  <2>1. PICK c \in Collectors :
          /\ GetTelemetry(c)
          /\ marked' = [marked EXCEPT ![c] = Known(c)]
          /\ caller' = [caller EXCEPT ![t] = IF latched THEN "done" ELSE c]
    BY <1>1 DEF Returns
  <2>2. Known(c) \in SUBSET Milestones
    BY DEF Known, Loaded, TypeOK
  <2>3. current' \in Collectors \cup {None} /\ worker' \in [Collectors -> WorkerState]
    BY <2>1, GetTelemetryType
  <2> QED
    BY <1>1, <2>1, <2>2, <2>3 DEF Returns, TypeOK, onLoop, buffers, history, servers
<1>2. ASSUME NEW t \in Calls, Counts(t) PROVE TypeOK'
  <2>1. caller' \in [Calls -> {"idle", "done"} \cup Collectors] /\ caller[t] \in Collectors
    BY <1>2, NotedType DEF Counts
  <2>2. rollup' \in [Collectors -> SUBSET Tools]
    BY <1>2, <2>1 DEF Counts, TypeOK
  <2> QED
    BY <1>2, <2>1, <2>2 DEF Counts, Noted, TypeOK, threads, onLoop, servers
<1>3. ASSUME NEW t \in Calls, Queues(t) PROVE TypeOK'
  <2>1. caller' \in [Calls -> {"idle", "done"} \cup Collectors] /\ caller[t] \in Collectors
    BY <1>3, NotedType DEF Queues
  <2>2. queue' \in [Collectors -> Seq(Items)]
    BY <1>3, <2>1, QueuedType DEF Queues, TypeOK, Items
  <2> QED
    BY <1>3, <2>1, <2>2 DEF Queues, Noted, TypeOK, threads, onLoop, Items, servers
<1>4. ASSUME NEW m \in Milestones, Milestone(m) PROVE TypeOK'
  <2>1. PICK c \in Collectors :
          /\ GetTelemetry(c)
          /\ marked' = [marked EXCEPT ![c] = Known(c) \cup {m}]
          /\ queue' = [queue EXCEPT ![c] = Queued(c, Save)]
    BY <1>4 DEF Milestone
  <2>2. Known(c) \in SUBSET Milestones
    BY DEF Known, Loaded, TypeOK
  <2>3. current' \in Collectors \cup {None} /\ worker' \in [Collectors -> WorkerState]
    BY <2>1, GetTelemetryType
  <2>4. queue' \in [Collectors -> Seq(Items)]
    BY <2>1, QueuedType DEF TypeOK, Items
  <2>5. marked' \in [Collectors -> SUBSET Milestones]
    BY <2>1, <2>2 DEF TypeOK
  <2> QED
    BY <1>4, <2>3, <2>4, <2>5 DEF Milestone, TypeOK, Items
<1>5. CASE OptOut
  BY <1>5 DEF OptOut, TypeOK, threads, buffers, onLoop, servers
<1>6. ASSUME RecordMilestone, current \in Collectors PROVE TypeOK'
  <2>1. queue' \in [Collectors -> Seq(Items)]
    BY <1>6, QueuedType DEF RecordMilestone, TypeOK, Items, servers
  <2> QED
    BY <1>6, <2>1 DEF RecordMilestone, TypeOK, threads, history, Items, servers
<1>7. ASSUME RecordMilestone, current \notin Collectors PROVE TypeOK'
  <2>1. queue \in [Collectors -> Seq(Items)]
    BY DEF TypeOK, Items
  <2>2. queue' \in [Collectors -> Seq(Items)]
    BY <1>7, <2>1, ExceptOutside DEF RecordMilestone
  <2> QED
    BY <1>7, <2>2 DEF RecordMilestone, TypeOK, threads, history, Items, servers
<1>8. CASE Shutdown
  <2>1. queue' \in [Collectors -> Seq(Items)]
    BY <1>8, QueuedType DEF Shutdown, TypeOK, Items, servers
  <2> QED
    BY <1>8, <2>1 DEF Shutdown, TypeOK, history, Items, servers
<1>9. CASE Joined
  <2>1. client' \in [Collectors -> {"none", "open", "closed"}]
    BY <1>9 DEF Joined, Closed, TypeOK, servers
  <2> QED
    BY <1>9, <2>1 DEF Joined, TypeOK, buffers, servers
<1>10. CASE ProcessEnds
  <2>1. /\ queue' \in [Collectors -> Seq(Items)]
        /\ pending' \in [Collectors -> Seq(Records)]
        /\ outbox' \in [Collectors -> Seq(SUBSET Records)]
    BY <1>10, EmptyTypes DEF ProcessEnds
  <2>2. /\ worker' \in [Collectors -> WorkerState]
        /\ client' \in [Collectors -> {"none", "open", "closed"}]
        /\ caller' \in [Calls -> {"idle", "done"} \cup Collectors]
        /\ marked' \in [Collectors -> SUBSET Milestones] /\ rollup' \in [Collectors -> SUBSET Tools]
    BY <1>10 DEF ProcessEnds, TypeOK, WorkerState, servers
  <2> QED
    BY <1>10, <2>1, <2>2 DEF ProcessEnds, TypeOK, Items, servers
<1> QED
  BY <1>1, <1>2, <1>3, <1>4, <1>5, <1>6, <1>7, <1>8, <1>9, <1>10 DEF LoopSteps

\* The user's other servers leave the rest of this one alone.
LEMMA OthersApart == OtherSteps => Here
  BY DEF OtherSteps, OtherStarts, OtherMarks, OtherEnds

LEMMA ResumedType == \A c : Resumed(c) \in {"draining", "polling"}
  BY DEF Resumed

LEMMA HandleType ==
  ASSUME TypeOK, NEW c \in Collectors, Handle(c)
  PROVE  /\ queue' \in [Collectors -> Seq(Items)]
         /\ pending' \in [Collectors -> Seq(Records)]
         /\ file' \subseteq Milestones
<1>1. queue[c] \in Seq(Items) /\ queue[c] # <<>>
  BY DEF Handle, TypeOK, Items
<1>2. Tail(queue[c]) \in Seq(Items)
  BY <1>1
<1>3. queue' \in [Collectors -> Seq(Items)]
  BY <1>2 DEF Handle, TypeOK, Items
<1>4. pending' \in [Collectors -> Seq(Records)]
  <2>1. ASSUME Head(queue[c]) \in Records
        PROVE  Append(pending[c], Head(queue[c])) \in Seq(Records)
    BY <2>1 DEF TypeOK
  <2> QED
    BY <2>1 DEF Handle, TypeOK
<1>5. file' \subseteq Milestones
  BY DEF Handle, TypeOK
<1> QED
  BY <1>3, <1>4, <1>5

LEMMA BatchedType ==
  ASSUME TypeOK, NEW c \in Collectors
  PROVE  Batched(c) \in Seq(SUBSET Records)
<1>1. pending[c] \in Seq(Records) /\ rollup[c] \in SUBSET Records
  BY DEF TypeOK
<1>2. Len(pending[c]) \in Nat /\ DOMAIN pending[c] = 1..Len(pending[c])
  BY <1>1
<1>3. \A i \in 1..Len(pending[c]) : {pending[c][i]} \in SUBSET Records
  BY <1>1, ElementOfSeq
<1>4. [i \in 1..Len(pending[c]) |-> {pending[c][i]}] \in [1..Len(pending[c]) -> SUBSET Records]
  BY <1>3
<1>5. [i \in DOMAIN pending[c] |-> {pending[c][i]}] \in Seq(SUBSET Records)
  BY <1>2, <1>4, SeqDef
<1>6. (IF rollup[c] = {} THEN <<>> ELSE <<rollup[c]>>) \in Seq(SUBSET Records)
  BY <1>1
<1> QED
  BY <1>5, <1>6, ConcatProperties DEF Batched

LEMMA RestType ==
  ASSUME TypeOK, NEW c \in Collectors
  PROVE  Rest(c) \in Seq(SUBSET Records)
<1>1. outbox[c] \in Seq(SUBSET Records) /\ PerPost \in Nat
  BY DEF TypeOK
<1>2. \A i \in PerPost + 1 .. Len(outbox[c]) : i \in 1..Len(outbox[c])
  BY <1>1
<1>3. \A i \in PerPost + 1 .. Len(outbox[c]) : outbox[c][i] \in SUBSET Records
  BY <1>1, <1>2, ElementOfSeq
<1> QED
  BY <1>1, <1>3, SubSeqProperties DEF Rest

LEMMA ProceedsType ==
  ASSUME TypeOK, NEW c \in Collectors, NEW from, NEW events \in Seq(SUBSET Records),
         NEW final, Proceeds(c, from, events, final)
  PROVE  /\ worker' \in [Collectors -> WorkerState]
         /\ outbox' \in [Collectors -> Seq(SUBSET Records)]
  BY ResumedType DEF Proceeds, WorkerMoves, TypeOK, WorkerState

LEMMA FlushType ==
  ASSUME TypeOK, NEW c \in Collectors, NEW from, NEW final \in BOOLEAN, Flush(c, from, final)
  PROVE  TypeOK'
<1>1. (IF latched THEN <<>> ELSE Batched(c)) \in Seq(SUBSET Records)
  BY BatchedType
<1>2. worker' \in [Collectors -> WorkerState] /\ outbox' \in [Collectors -> Seq(SUBSET Records)]
  BY <1>1, ProceedsType DEF Flush
<1>3. pending' \in [Collectors -> Seq(Records)] /\ last' \in [Collectors -> BOOLEAN]
  BY DEF Flush, TypeOK
<1>4. rollup' \in [Collectors -> SUBSET Tools]
  BY DEF Flush, TypeOK
<1> QED
  BY <1>2, <1>3, <1>4 DEF Flush, WorkerOnly, TypeOK, onLoop, servers

\* A worker keeps the types.
LEMMA WorkerType ==
  ASSUME TypeOK, NEW c \in Collectors, WorkerSteps(c)
  PROVE  TypeOK'
<1>1. CASE Get(c)
  <2>1. worker' \in [Collectors -> WorkerState]
    BY <1>1, ResumedType DEF Get, WorkerMoves, TypeOK, WorkerState
  <2>2. CASE Handle(c)
    BY <1>1, <2>1, <2>2, HandleType DEF Get, Handle, WorkerOnly, TypeOK, onLoop, Items, servers
  <2>3. CASE UNCHANGED <<buffers, file, client, arrived, unsaved>>
    BY <1>1, <2>1, <2>3 DEF Get, WorkerOnly, TypeOK, onLoop, buffers, servers
  <2> QED
    BY <1>1, <2>2, <2>3 DEF Get
<1>2. CASE FlushDue(c)
  BY <1>2, FlushType DEF FlushDue
<1>3. CASE Drain(c)
  <2>1. worker' \in [Collectors -> WorkerState]
    BY <1>3 DEF Drain, WorkerMoves, TypeOK, WorkerState
  <2> QED
    BY <1>3, <2>1, HandleType DEF Drain, Handle, WorkerOnly, TypeOK, onLoop, Items, servers
<1>4. CASE LastFlush(c)
  BY <1>4, FlushType DEF LastFlush
<1>5. CASE Post(c)
  <2>1. worker' \in [Collectors -> WorkerState]
    BY <1>5 DEF Post, WorkerMoves, TypeOK, WorkerState
  <2>2. client' \in [Collectors -> {"none", "open", "closed"}]
    BY <1>5 DEF Post, TypeOK
  <2> QED
    BY <1>5, <2>1, <2>2 DEF Post, WorkerOnly, TypeOK, onLoop, buffers, servers
<1>6. CASE Withheld(c)
  <2>1. worker' \in [Collectors -> WorkerState]
        /\ outbox' \in [Collectors -> Seq(SUBSET Records)]
    BY <1>6, RestType, ProceedsType DEF Withheld
  <2> QED
    BY <1>6, <2>1 DEF Withheld, WorkerOnly, TypeOK, onLoop, servers
<1>7. CASE Posted(c)
  <2>1. worker' \in [Collectors -> WorkerState]
        /\ outbox' \in [Collectors -> Seq(SUBSET Records)]
    <3>1. Rest(c) \in Seq(SUBSET Records) /\ <<>> \in Seq(SUBSET Records)
      BY RestType, EmptyTypes
    <3>2. PICK events \in Seq(SUBSET Records) : Proceeds(c, "sending", events, last[c])
      BY <1>7, <3>1, Zenon DEF Posted
    <3> QED
      BY <3>2, ProceedsType
  <2> QED
    BY <1>7, <2>1 DEF Posted, WorkerOnly, TypeOK, onLoop, servers
<1> QED
  BY <1>1, <1>2, <1>3, <1>4, <1>5, <1>6, <1>7 DEF WorkerSteps

LEMMA OtherType == TypeOK /\ OtherSteps => TypeOK'
<1>1. ASSUME TypeOK, Here, others' \subseteq SUBSET Milestones, file' \subseteq Milestones
      PROVE  TypeOK'
  BY <1>1 DEF TypeOK, Here, threads, buffers, onLoop
<1>2. ASSUME TypeOK, OtherStarts PROVE TypeOK'
  <2>1. file \in SUBSET Milestones /\ others \subseteq SUBSET Milestones
    BY <1>2 DEF TypeOK
  <2>2. others' = others \cup {file} /\ file' = file /\ Here
    BY <1>2 DEF OtherStarts, Loaded
  <2> QED
    BY <1>1, <1>2, <2>1, <2>2
<1>3. ASSUME TypeOK, NEW copy \in others, OtherEnds(copy) PROVE TypeOK'
  BY <1>1, <1>3 DEF OtherEnds, TypeOK
<1>4. ASSUME TypeOK, NEW copy \in others, NEW m \in Milestones, OtherMarks(copy, m) PROVE TypeOK'
  <2>1. copy \cup {m} \in SUBSET Milestones
    BY <1>4 DEF TypeOK
  <2>2. others \subseteq SUBSET Milestones /\ file \in SUBSET Milestones
    BY <1>4 DEF TypeOK
  <2>3. /\ others' \subseteq others \cup {copy \cup {m}} /\ Here
        /\ file' = file \/ file' = copy \cup {m}
    BY <1>4 DEF OtherMarks
  <2> QED
    BY <1>1, <1>4, <2>1, <2>2, <2>3
<1> QED
  BY <1>2, <1>3, <1>4 DEF OtherSteps

LEMMA StutterType == TypeOK /\ UNCHANGED vars => TypeOK'
<1> SUFFICES ASSUME TypeOK, UNCHANGED vars PROVE TypeOK'
  OBVIOUS
<1>1. UNCHANGED <<latched, current, file, marked, caller, threads, buffers, onLoop, servers>>
  BY DEF vars
<1>2. UNCHANGED <<worker, stop, client, queue, pending, rollup, outbox, last, joining, due, others>>
  BY <1>1 DEF threads, buffers, onLoop, servers
<1> QED
  BY <1>1, <1>2 DEF TypeOK

LEMMA NextType == TypeOK /\ [Next]_vars => TypeOK'
  BY LoopType, WorkerType, OtherType, StutterType DEF Next, LoopSteps

\* The latch, the collectors' buffers and threads, the callers and the event
\* loop keep their types.
THEOREM TypesHold == Spec => []TypeOK
  BY InitType, NextType, PTL DEF Spec

-----------------------------------------------------------------------------
(* The client.                                                             *)

\* A client that was closed stays behind a worker that is gone.
ClosedBehind == \A c \in Collectors : client[c] = "closed" => worker[c] = "gone"

Usable == ClosedBehind /\ ClientIsUsable

LEMMA InitUsable == Init => Usable
  BY DEF Init, Usable, ClosedBehind, ClientIsUsable

LEMMA MadeUsable ==
  ASSUME TypeOK, Usable, NEW c \in Collectors, GetTelemetry(c), UNCHANGED client
  PROVE  Usable'
  BY DEF TypeOK, Usable, ClosedBehind, ClientIsUsable, GetTelemetry

LEMMA ThreadsKeepUsable == Usable /\ UNCHANGED threads => Usable'
  BY DEF Usable, ClosedBehind, ClientIsUsable, threads

LEMMA LoopUsable == TypeOK /\ Usable /\ LoopSteps => Usable'
<1> SUFFICES ASSUME TypeOK, Usable, LoopSteps PROVE Usable'
  OBVIOUS
<1>1. ASSUME NEW t \in Calls, Returns(t) PROVE Usable'
  BY <1>1, MadeUsable DEF Returns
<1>2. ASSUME NEW t \in Calls, Noted(t) PROVE Usable'
  BY <1>2, ThreadsKeepUsable DEF Noted
<1>3. ASSUME NEW m \in Milestones, Milestone(m) PROVE Usable'
  BY <1>3, MadeUsable DEF Milestone
<1>4. CASE OptOut \/ RecordMilestone
  BY <1>4, ThreadsKeepUsable DEF OptOut, RecordMilestone
<1>5. CASE Shutdown
  BY <1>5 DEF Shutdown, Usable, ClosedBehind, ClientIsUsable
<1>6. CASE Joined
  <2>1. \A c \in Collectors : client'[c] = client[c] \/ (client'[c] = "closed" /\ worker[c] = "gone")
    BY <1>6 DEF Joined, Closed, TypeOK
  <2> QED
    BY <1>6, <2>1 DEF Joined, Usable, ClosedBehind, ClientIsUsable
<1>7. CASE ProcessEnds
  BY <1>7 DEF ProcessEnds, Usable, ClosedBehind, ClientIsUsable
<1> QED
  BY <1>1, <1>2, <1>3, <1>4, <1>5, <1>6, <1>7 DEF LoopSteps, Counts, Queues

LEMMA ProceedsTo ==
  ASSUME TypeOK, NEW c \in Collectors, NEW from, NEW events, NEW final,
         Proceeds(c, from, events, final)
  PROVE  /\ worker[c] = from
         /\ worker'[c] \in {"checking", "gone", "polling", "draining"}
         /\ \A d \in Collectors \ {c} : worker'[d] = worker[d]
  BY ResumedType DEF Proceeds, WorkerMoves, TypeOK

LEMMA FlushGoes ==
  ASSUME TypeOK, NEW c \in Collectors, NEW from, NEW final, Flush(c, from, final)
  PROVE  /\ worker[c] = from /\ client' = client
         /\ worker'[c] \in {"checking", "gone", "polling", "draining"}
         /\ \A d \in Collectors \ {c} : worker'[d] = worker[d]
<1>1. Proceeds(c, from, IF latched THEN <<>> ELSE Batched(c), final) /\ client' = client
  BY DEF Flush
<1> QED
  BY <1>1, ProceedsTo

\* Only Post begins to send, and no other step of a worker touches the client.
LEMMA WorkerGoes ==
  ASSUME TypeOK, NEW c \in Collectors, WorkerSteps(c), ~Post(c)
  PROVE  /\ worker[c] \notin {"unborn", "gone"} /\ worker'[c] \notin {"sending", "unborn"}
         /\ \A d \in Collectors \ {c} : worker'[d] = worker[d]
         /\ client' = client
<1>1. CASE Get(c)
  <2>1. worker[c] = "polling" /\ worker' = [worker EXCEPT ![c] = Resumed(c)]
    BY <1>1 DEF Get, WorkerMoves
  <2>2. client' = client
    BY <1>1 DEF Get, Handle
  <2>3. worker'[c] \in {"draining", "polling"}
    BY <2>1, ResumedType DEF TypeOK
  <2>4. \A d \in Collectors \ {c} : worker'[d] = worker[d]
    BY <2>1 DEF TypeOK
  <2> QED
    BY <2>1, <2>2, <2>3, <2>4
<1>2. CASE FlushDue(c)
  <2>1. Flush(c, "polling", FALSE)
    BY <1>2 DEF FlushDue
  <2>2. /\ worker[c] = "polling" /\ client' = client
        /\ worker'[c] \in {"checking", "gone", "polling", "draining"}
        /\ \A d \in Collectors \ {c} : worker'[d] = worker[d]
    BY <2>1, FlushGoes
  <2> QED
    BY <2>2
<1>3. CASE Drain(c)
  BY <1>3 DEF Drain, Handle, WorkerMoves, TypeOK
<1>4. CASE LastFlush(c)
  <2>1. Flush(c, "draining", TRUE)
    BY <1>4 DEF LastFlush
  <2>2. /\ worker[c] = "draining" /\ client' = client
        /\ worker'[c] \in {"checking", "gone", "polling", "draining"}
        /\ \A d \in Collectors \ {c} : worker'[d] = worker[d]
    BY <2>1, FlushGoes
  <2> QED
    BY <2>2
<1>5. CASE Withheld(c)
  BY <1>5, ProceedsTo DEF Withheld
<1>6. CASE Posted(c)
  <2>1. PICK events : Proceeds(c, "sending", events, last[c])
    BY <1>6 DEF Posted
  <2> QED
    BY <1>6, <2>1, ProceedsTo DEF Posted
<1> QED
  BY <1>1, <1>2, <1>3, <1>4, <1>5, <1>6 DEF WorkerSteps

LEMMA WorkerUsable ==
  ASSUME TypeOK, Usable, NEW c \in Collectors, WorkerSteps(c)
  PROVE  Usable'
<1>1. CASE Post(c)
  <2>1. /\ worker[c] = "checking" /\ worker'[c] = "sending"
        /\ client'[c] = (IF client[c] = "none" THEN "open" ELSE client[c])
        /\ \A d \in Collectors \ {c} : worker'[d] = worker[d] /\ client'[d] = client[d]
    BY <1>1 DEF Post, WorkerMoves, TypeOK
  <2>2. client[c] \in {"none", "open"}
    BY <2>1 DEF Usable, ClosedBehind, TypeOK
  <2> QED
    BY <2>1, <2>2 DEF Usable, ClosedBehind, ClientIsUsable
<1>2. CASE ~Post(c)
  BY <1>2, WorkerGoes DEF Usable, ClosedBehind, ClientIsUsable
<1> QED
  BY <1>1, <1>2

LEMMA NextUsable == TypeOK /\ Usable /\ [Next]_vars => Usable'
  BY LoopUsable, WorkerUsable, OthersApart, ThreadsKeepUsable DEF Next, LoopSteps, Here, vars

\* No client is closed under a post, not even by a shutdown that gave up
\* waiting for the worker.
THEOREM ClientStaysUsable == Spec => []ClientIsUsable
<1>1. Usable => ClientIsUsable
  BY DEF Usable
<1> QED
  BY <1>1, InitUsable, NextUsable, TypesHold, PTL DEF Spec

-----------------------------------------------------------------------------
(* The opt-out.                                                            *)

Quiet == latched => /\ arrived \subseteq spent
                    /\ \A c \in Collectors : OnTheWire(c) \subseteq spent

LEMMA InitQuiet == Init => Quiet
  BY DEF Init, Quiet

\* What is on the wire changes with the worker or the outbox.
LEMMA WireKept ==
  ASSUME NEW d \in Collectors,
         worker'[d] # "sending" \/ (worker'[d] = worker[d] /\ outbox'[d] = outbox[d])
  PROVE  OnTheWire(d)' \subseteq OnTheWire(d)
  BY DEF OnTheWire

LEMMA QuietKept ==
  ASSUME Quiet, latched' = latched, spent' = spent,
         latched => arrived' \subseteq spent,
         \A d \in Collectors : OnTheWire(d)' \subseteq OnTheWire(d)
  PROVE  Quiet'
  BY DEF Quiet

LEMMA MadeQuiet ==
  ASSUME TypeOK, NEW c \in Collectors, GetTelemetry(c), UNCHANGED outbox
  PROVE  \A d \in Collectors : OnTheWire(d)' \subseteq OnTheWire(d)
<1>1. \A d \in Collectors : worker'[d] # "sending" \/ worker'[d] = worker[d]
  BY DEF GetTelemetry, TypeOK
<1> QED
  BY <1>1, WireKept

LEMMA StillQuiet ==
  Quiet /\ UNCHANGED <<latched, worker, outbox, arrived, spent>> => Quiet'
  BY DEF Quiet, OnTheWire

LEMMA LoopQuiet == TypeOK /\ Quiet /\ LoopSteps => Quiet'
<1> SUFFICES ASSUME TypeOK, Quiet, LoopSteps PROVE Quiet'
  OBVIOUS
<1>0. latched => arrived \subseteq spent
  BY DEF Quiet
<1>1. ASSUME NEW t \in Calls, Returns(t) PROVE Quiet'
  <2>1. \A d \in Collectors : OnTheWire(d)' \subseteq OnTheWire(d)
    BY <1>1, MadeQuiet DEF Returns, buffers
  <2> QED
    BY <1>0, <1>1, <2>1, QuietKept DEF Returns, history
<1>2. ASSUME NEW t \in Calls, Noted(t) PROVE Quiet'
  BY <1>2, StillQuiet DEF Noted, threads
<1>3. ASSUME NEW m \in Milestones, Milestone(m) PROVE Quiet'
  <2>1. \A d \in Collectors : OnTheWire(d)' \subseteq OnTheWire(d)
    BY <1>3, MadeQuiet DEF Milestone
  <2> QED
    BY <1>0, <1>3, <2>1, QuietKept DEF Milestone
<1>4. CASE OptOut
  <2>1. \A c \in Collectors : OnTheWire(c)' = OnTheWire(c)
    BY <1>4 DEF OptOut, OnTheWire, threads, buffers
  <2>2. arrived \subseteq spent' /\ \A c \in Collectors : OnTheWire(c) \subseteq spent'
    BY <1>4 DEF OptOut
  <2> QED
    BY <1>4, <2>1, <2>2 DEF OptOut, Quiet
<1>5. CASE RecordMilestone \/ Shutdown \/ Joined
  BY <1>5, StillQuiet DEF RecordMilestone, Shutdown, Joined, threads, buffers, history
<1>6. CASE ProcessEnds
  BY <1>6 DEF ProcessEnds, Quiet
<1> QED
  BY <1>1, <1>2, <1>3, <1>4, <1>5, <1>6 DEF LoopSteps, Counts, Queues

LEMMA ProceedsQuiet ==
  ASSUME TypeOK, NEW c \in Collectors, NEW from, NEW events, NEW final,
         Proceeds(c, from, events, final)
  PROVE  \A d \in Collectors : OnTheWire(d)' \subseteq OnTheWire(d)
<1>1. \A d \in Collectors \ {c} : worker'[d] = worker[d] /\ outbox'[d] = outbox[d]
  BY DEF Proceeds, WorkerMoves, TypeOK
<1>2. worker'[c] # "sending"
  BY ProceedsTo
<1> QED
  BY <1>1, <1>2, WireKept

LEMMA WorkerQuiet ==
  ASSUME TypeOK, Quiet, NEW c \in Collectors, WorkerSteps(c)
  PROVE  Quiet'
<1>0. latched' = latched /\ spent' = spent /\ (latched => arrived \subseteq spent)
  <2>1. WorkerOnly
    BY DEF WorkerSteps, Get, FlushDue, Drain, LastFlush, Flush, Post, Withheld, Posted
  <2> QED
    BY <2>1 DEF WorkerOnly, Quiet
<1>1. CASE Get(c) \/ Drain(c)
  <2>1. outbox' = outbox /\ arrived' = arrived
    BY <1>1 DEF Get, Drain, Handle, buffers
  <2>2. ~Post(c)
    BY <1>1 DEF Get, Drain, Post, WorkerMoves
  <2>3. \A d \in Collectors : worker'[d] # "sending" \/ worker'[d] = worker[d]
    BY <2>2, WorkerGoes
  <2> QED
    BY <1>0, <2>1, <2>3, WireKept, QuietKept
<1>2. CASE FlushDue(c) \/ LastFlush(c)
  BY <1>0, <1>2, ProceedsQuiet, QuietKept DEF FlushDue, LastFlush, Flush
<1>3. CASE Post(c)
  BY <1>0, <1>3 DEF Post, Allowed, Quiet
<1>4. CASE Withheld(c)
  BY <1>0, <1>4, ProceedsQuiet, QuietKept DEF Withheld
<1>5. CASE Posted(c)
  <2>1. \A d \in Collectors : OnTheWire(d)' \subseteq OnTheWire(d)
    BY <1>5, ProceedsQuiet DEF Posted
  <2>2. latched => arrived' \subseteq spent
    BY <1>5 DEF Posted, Quiet
  <2> QED
    BY <1>0, <2>1, <2>2, QuietKept
<1> QED
  BY <1>1, <1>2, <1>3, <1>4, <1>5 DEF WorkerSteps

LEMMA NextQuiet == TypeOK /\ Quiet /\ [Next]_vars => Quiet'
<1>1. Quiet /\ UNCHANGED vars => Quiet'
  BY StillQuiet DEF vars, threads, buffers, history
<1>2. Quiet /\ OtherSteps => Quiet'
  BY OthersApart, StillQuiet DEF Here, threads, buffers
<1> QED
  BY <1>1, <1>2, LoopQuiet, WorkerQuiet DEF Next, LoopSteps

\* After an editor's opt-out nothing reaches the endpoint but what was on the
\* wire when it was latched.
THEOREM OptOutIsQuiet == Spec => []QuietAfterOptOut
<1>1. Quiet => QuietAfterOptOut
  BY DEF Quiet, QuietAfterOptOut
<1> QED
  BY <1>1, InitQuiet, NextQuiet, TypesHold, PTL DEF Spec

-----------------------------------------------------------------------------
(* The end of a worker.                                                    *)

\* The worker takes nothing in any more.
Ended(c) == worker[c] = "gone" \/ (last[c] /\ worker[c] \in {"checking", "sending"})

\* Who can still record on which collector: the event loop only on one that
\* runs, a caller on none that died untold.
LoopInv ==
  /\ joining # None => joining = current
  /\ due # None => current # None /\ joining = None
  /\ current # None => worker[current] # "unborn" /\ (joining = None => ~stop[current])

EndInv ==
  \A c \in Collectors :
    /\ worker[c] = "unborn" => ~stop[c]
    /\ worker[c] = "draining" => stop[c]
    /\ last[c] /\ worker[c] \in {"checking", "sending"} => stop[c]
    /\ worker[c] = "gone" /\ ~stop[c] => current # c /\ \A t \in Calls : caller[t] # c

LeftInv == \A c \in Collectors : Ended(c) => LeftBehind(c) \subseteq late

LateInv == LoopInv /\ EndInv /\ LeftInv

LEMMA InitLate == Init => LateInv
  BY DEF Init, LateInv, LoopInv, EndInv, LeftInv, Ended

LEMMA LateKept ==
  LateInv /\ UNCHANGED <<current, worker, stop, queue, pending, rollup, last, caller, onLoop, late>>
  => LateInv'
  BY DEF LateInv, LoopInv, EndInv, LeftInv, Ended, LeftBehind, onLoop

\* A collector that get_telemetry returns has not ended, but by a shutdown.
LEMMA MadeLate ==
  ASSUME TypeOK, LateInv, NEW c \in Collectors, GetTelemetry(c),
         stop' = stop, joining' = joining
  PROVE  /\ current' = c /\ worker'[c] # "unborn"
         /\ \A d \in Collectors \ {c} : worker'[d] = worker[d]
         /\ worker'[c] = worker[c] \/ worker'[c] = "polling"
         /\ joining = None => ~stop[c]
         /\ worker'[c] = "gone" => stop[c]
         /\ joining # None => joining = c
  BY DEF LateInv, LoopInv, EndInv, GetTelemetry, TypeOK

LEMMA AppendRange ==
  ASSUME NEW S, NEW q \in Seq(S), NEW x \in S
  PROVE  Range(Append(q, x)) = Range(q) \cup {x}
<1>1. /\ DOMAIN Append(q, x) = 1..(Len(q) + 1) /\ DOMAIN q = 1..Len(q) /\ Len(q) \in Nat
      /\ Append(q, x)[Len(q) + 1] = x /\ \A i \in 1..Len(q) : Append(q, x)[i] = q[i]
  OBVIOUS
<1>2. ASSUME NEW y \in Range(Append(q, x)) PROVE y \in Range(q) \cup {x}
  <2>1. PICK i \in 1..(Len(q) + 1) : y = Append(q, x)[i]
    BY <1>1 DEF Range
  <2>2. i \in 1..Len(q) \/ i = Len(q) + 1
    BY <1>1
  <2> QED
    BY <1>1, <2>1, <2>2 DEF Range
<1>3. ASSUME NEW y \in Range(q) PROVE y \in Range(Append(q, x))
  <2>1. PICK i \in 1..Len(q) : y = q[i]
    BY <1>1 DEF Range
  <2>2. i \in 1..(Len(q) + 1)
    BY <1>1
  <2> QED
    BY <1>1, <2>1, <2>2 DEF Range
<1>4. x \in Range(Append(q, x))
  <2>1. Len(q) + 1 \in 1..(Len(q) + 1)
    BY <1>1
  <2> QED
    BY <1>1, <2>1 DEF Range
<1> QED
  BY <1>2, <1>3, <1>4

LEMMA QueuedRange ==
  ASSUME TypeOK, NEW c \in Collectors, NEW x \in Items
  PROVE  Range(Queued(c, x)) \subseteq Range(queue[c]) \cup {x}
<1>1. queue[c] \in Seq(Items)
  BY DEF TypeOK, Items
<1> QED
  BY <1>1, AppendRange DEF Queued

\* A call that is recorded on a collector that ended is late.
LEMMA NotedLate ==
  ASSUME TypeOK, LateInv, NEW t \in Calls, Noted(t),
         \A c \in Collectors :
           LeftBehind(c)' \subseteq LeftBehind(c) \cup (IF caller[t] = c THEN {t} ELSE {})
  PROVE  LateInv'
<1>1. LoopInv' /\ EndInv'
  <2>1. \A c \in Collectors, u \in Calls : caller'[u] = c => caller[u] = c
    BY DEF Noted, TypeOK
  <2> QED
    BY <2>1 DEF Noted, LateInv, LoopInv, EndInv, threads, onLoop
<1>2. LeftInv'
  <2> SUFFICES ASSUME NEW c \in Collectors, Ended(c)' PROVE LeftBehind(c)' \subseteq late'
    BY DEF LeftInv
  <2>1. Ended(c) /\ late \subseteq late'
    BY DEF Ended, Noted, threads
  <2>2. LeftBehind(c) \subseteq late'
    BY <2>1 DEF LateInv, LeftInv
  <2>3. ASSUME caller[t] = c PROVE t \in late'
    <3>1. stop[c]
      BY <2>1, <2>3 DEF Ended, LateInv, EndInv, TypeOK
    <3> QED
      BY <2>3, <3>1 DEF Noted
  <2> QED
    BY <2>2, <2>3
<1> QED
  BY <1>1, <1>2 DEF LateInv

LEMMA LoopLate == TypeOK /\ LateInv /\ LoopSteps => LateInv'
<1> SUFFICES ASSUME TypeOK, LateInv, LoopSteps PROVE LateInv'
  OBVIOUS
<1>1. ASSUME NEW t \in Calls, Returns(t) PROVE LateInv'
  <2>1. PICK c \in Collectors :
          GetTelemetry(c) /\ caller' = [caller EXCEPT ![t] = IF latched THEN "done" ELSE c]
    BY <1>1 DEF Returns
  <2>2. UNCHANGED <<stop, queue, pending, rollup, last, joining, due, late>>
    BY <1>1 DEF Returns, buffers, onLoop, history
  <2>3. /\ current' = c /\ worker'[c] # "unborn"
        /\ \A d \in Collectors \ {c} : worker'[d] = worker[d]
        /\ worker'[c] = worker[c] \/ worker'[c] = "polling"
        /\ joining = None => ~stop[c]
        /\ worker'[c] = "gone" => stop[c]
        /\ joining # None => joining = c
    BY <2>1, <2>2, MadeLate
  <2>4. LoopInv'
    BY <2>2, <2>3 DEF LateInv, LoopInv, TypeOK
  <2>5. \A d \in Collectors, u \in Calls : caller'[u] = d => caller[u] = d \/ d = c
    BY <2>1 DEF TypeOK
  <2>6. EndInv'
    <3> SUFFICES ASSUME NEW d \in Collectors
                 PROVE  /\ worker'[d] = "unborn" => ~stop'[d]
                        /\ worker'[d] = "draining" => stop'[d]
                        /\ last'[d] /\ worker'[d] \in {"checking", "sending"} => stop'[d]
                        /\ worker'[d] = "gone" /\ ~stop'[d]
                             => current' # d /\ \A u \in Calls : caller'[u] # d
      BY DEF EndInv
    <3>1. CASE d = c
      BY <2>2, <2>3, <3>1 DEF LateInv, EndInv
    <3>2. CASE d # c
      BY <2>2, <2>3, <2>5, <3>2 DEF LateInv, EndInv
    <3> QED
      BY <3>1, <3>2
  <2>7. LeftInv'
    BY <2>2, <2>3 DEF LateInv, LeftInv, Ended, LeftBehind
  <2> QED
    BY <2>4, <2>6, <2>7 DEF LateInv
<1>2. ASSUME NEW t \in Calls, Counts(t) PROVE LateInv'
  <2>1. \A c \in Collectors :
          LeftBehind(c)' \subseteq LeftBehind(c) \cup (IF caller[t] = c THEN {t} ELSE {})
    BY <1>2 DEF Counts, Noted, LeftBehind, TypeOK
  <2> QED
    BY <1>2, <2>1, NotedLate DEF Counts
<1>3. ASSUME NEW t \in Calls, Queues(t) PROVE LateInv'
  <2>1. ASSUME NEW c \in Collectors
        PROVE  Range(queue'[c]) \subseteq Range(queue[c]) \cup (IF caller[t] = c THEN {t} ELSE {})
    <3>1. t \in Items
      BY DEF Items
    <3>2. queue'[c] = IF caller[t] = c THEN Queued(c, t) ELSE queue[c]
      BY <1>3 DEF Queues, TypeOK
    <3> QED
      BY <3>1, <3>2, QueuedRange
  <2>2. pending' = pending /\ rollup' = rollup
    BY <1>3 DEF Queues, Noted
  <2>3. \A c \in Collectors :
          LeftBehind(c)' \subseteq LeftBehind(c) \cup (IF caller[t] = c THEN {t} ELSE {})
    BY <2>1, <2>2 DEF LeftBehind
  <2> QED
    BY <1>3, <2>3, NotedLate DEF Queues
<1>4. ASSUME NEW m \in Milestones, Milestone(m) PROVE LateInv'
  <2>1. PICK c \in Collectors :
          GetTelemetry(c) /\ queue' = [queue EXCEPT ![c] = Queued(c, Save)]
    BY <1>4 DEF Milestone
  <2>2. /\ UNCHANGED <<stop, pending, rollup, last, joining, late, caller>>
        /\ joining = None
    BY <1>4 DEF Milestone, LoopFree
  <2>3. /\ current' = c /\ worker'[c] # "unborn"
        /\ \A d \in Collectors \ {c} : worker'[d] = worker[d]
        /\ worker'[c] = worker[c] \/ worker'[c] = "polling"
        /\ ~stop[c]
        /\ worker'[c] # "gone"
    BY <2>1, <2>2, MadeLate
  <2>4. LoopInv'
    BY <1>4, <2>2, <2>3 DEF LoopInv
  <2>5. EndInv'
    BY <2>2, <2>3 DEF LateInv, EndInv, TypeOK
  <2>6. ~Ended(c)'
    BY <2>2, <2>3 DEF LateInv, EndInv, Ended
  <2>7. LeftInv'
    BY <2>1, <2>2, <2>3, <2>6 DEF LateInv, LeftInv, Ended, LeftBehind, TypeOK
  <2> QED
    BY <2>4, <2>5, <2>7 DEF LateInv
<1>5. CASE OptOut
  BY <1>5, LateKept DEF OptOut, threads, buffers, onLoop
<1>6. CASE RecordMilestone \/ Shutdown
  <2>1. /\ UNCHANGED <<current, worker, pending, rollup, last, caller, late>>
        /\ current # None /\ joining = None
        /\ \E x : queue' = [queue EXCEPT ![current] = Queued(current, x)]
    BY <1>6 DEF RecordMilestone, Shutdown, threads, history, LateInv, LoopInv, LoopFree
  <2>2. current \in Collectors /\ worker[current] # "unborn" /\ ~stop[current]
    BY <2>1 DEF LateInv, LoopInv, TypeOK
  <2>3. ~Ended(current)
    BY <2>1, <2>2 DEF LateInv, EndInv, Ended
  <2>4. LoopInv'
    BY <1>6, <2>1, <2>2 DEF RecordMilestone, Shutdown, LateInv, LoopInv, LoopFree, threads, onLoop
  <2>5. EndInv'
    BY <1>6, <2>1, <2>2 DEF RecordMilestone, Shutdown, LateInv, EndInv, threads, TypeOK
  <2>6. \A c \in Collectors \ {current} : queue'[c] = queue[c]
    BY <2>1 DEF TypeOK
  <2>7. LeftInv'
    BY <2>1, <2>3, <2>6 DEF LateInv, LeftInv, Ended, LeftBehind
  <2> QED
    BY <2>4, <2>5, <2>7 DEF LateInv
<1>7. CASE Joined
  BY <1>7 DEF Joined, buffers, LateInv, LoopInv, EndInv, LeftInv, Ended, LeftBehind, TypeOK
<1>8. CASE ProcessEnds
  <2>1. LoopInv'
    BY <1>8 DEF ProcessEnds, LoopInv
  <2>2. EndInv'
    BY <1>8 DEF ProcessEnds, LateInv, EndInv, TypeOK
  <2>3. \A c \in Collectors : LeftBehind(c)' = {}
    BY <1>8 DEF ProcessEnds, LeftBehind, Range
  <2> QED
    BY <2>1, <2>2, <2>3 DEF LateInv, LeftInv
<1> QED
  BY <1>1, <1>2, <1>3, <1>4, <1>5, <1>6, <1>7, <1>8 DEF LoopSteps

\* What a worker's step must do to keep the rest.
LEMMA WorkerKeeps ==
  ASSUME TypeOK, LateInv, NEW c \in Collectors,
         UNCHANGED <<current, stop, caller, onLoop, late>>,
         worker[c] \notin {"unborn", "gone"}, worker'[c] # "unborn",
         \A d \in Collectors \ {c} :
           /\ worker'[d] = worker[d] /\ last'[d] = last[d]
           /\ queue'[d] = queue[d] /\ pending'[d] = pending[d] /\ rollup'[d] = rollup[d],
         worker'[c] = "draining" => stop[c],
         Ended(c)' => stop[c] /\ LeftBehind(c)' \subseteq late
  PROVE  LateInv'
<1>1. LoopInv'
  BY DEF LateInv, LoopInv, onLoop, TypeOK
<1>2. EndInv'
  BY DEF LateInv, EndInv, Ended
<1>3. LeftInv'
  BY DEF LateInv, LeftInv, Ended, LeftBehind
<1> QED
  BY <1>1, <1>2, <1>3 DEF LateInv

LEMMA FlushLate ==
  ASSUME TypeOK, LateInv, NEW c \in Collectors, NEW from, NEW final \in BOOLEAN,
         Flush(c, from, final), from \in {"polling", "draining"},
         final => queue[c] = <<>> /\ stop[c]
  PROVE  LateInv'
<1>1. \E events : Proceeds(c, from, events, final)
  BY DEF Flush
<1>2. /\ worker[c] = from
      /\ worker'[c] \in (IF final THEN {"checking", "gone"} ELSE {"checking", Resumed(c)})
      /\ \A d \in Collectors \ {c} : worker'[d] = worker[d]
  BY <1>1 DEF Proceeds, WorkerMoves, TypeOK
<1>3. /\ UNCHANGED <<current, stop, caller, onLoop, late, queue>>
      /\ pending' = [pending EXCEPT ![c] = <<>>]
      /\ rollup' = [rollup EXCEPT ![c] = {}] /\ last' = [last EXCEPT ![c] = final]
  BY DEF Flush, WorkerOnly, onLoop
<1>4. \A d \in Collectors \ {c} :
        /\ worker'[d] = worker[d] /\ last'[d] = last[d]
        /\ queue'[d] = queue[d] /\ pending'[d] = pending[d] /\ rollup'[d] = rollup[d]
  BY <1>2, <1>3 DEF TypeOK
<1>5. last'[c] = final /\ pending'[c] = <<>> /\ rollup'[c] = {} /\ queue'[c] = queue[c]
  BY <1>3 DEF TypeOK
<1>6. Ended(c)' => final
  BY <1>2, <1>5 DEF Ended, Resumed
<1>7. final => LeftBehind(c)' = {}
  BY <1>5 DEF LeftBehind, Range
<1>8. worker'[c] # "unborn" /\ (worker'[c] = "draining" => stop[c])
  BY <1>2 DEF Resumed
<1> QED
  BY <1>2, <1>3, <1>4, <1>6, <1>7, <1>8, WorkerKeeps

\* Between the batches of a flush.
LEMMA BatchLate ==
  ASSUME TypeOK, LateInv, NEW c \in Collectors, NEW from \in {"checking", "sending"},
         NEW events, Proceeds(c, from, events, last[c]),
         WorkerOnly, UNCHANGED <<queue, pending, rollup, last>>
  PROVE  LateInv'
<1>1. /\ worker[c] = from
      /\ worker'[c] \in (IF last[c] THEN {"checking", "gone"} ELSE {"checking", Resumed(c)})
      /\ \A d \in Collectors \ {c} : worker'[d] = worker[d]
  BY DEF Proceeds, WorkerMoves, TypeOK
<1>2. UNCHANGED <<current, stop, caller, onLoop, late>> /\ LeftBehind(c)' = LeftBehind(c)
  BY DEF WorkerOnly, onLoop, LeftBehind
<1>3. Ended(c)' => last[c]
  BY <1>1 DEF Ended, Resumed
<1>4. last[c] => Ended(c) /\ stop[c]
  BY <1>1 DEF Ended, LateInv, EndInv
<1>5. Ended(c)' => stop[c] /\ LeftBehind(c)' \subseteq late
  BY <1>2, <1>3, <1>4 DEF LateInv, LeftInv
<1>6. worker'[c] # "unborn" /\ (worker'[c] = "draining" => stop[c])
  BY <1>1 DEF Resumed
<1> QED
  BY <1>1, <1>2, <1>5, <1>6, WorkerKeeps

LEMMA WorkerLate ==
  ASSUME TypeOK, LateInv, NEW c \in Collectors, WorkerSteps(c)
  PROVE  LateInv'
<1>0. ASSUME WorkerOnly PROVE UNCHANGED <<current, stop, caller, onLoop, late>>
  BY <1>0 DEF WorkerOnly, onLoop
<1>1. CASE Get(c) \/ Drain(c)
  <2>1. WorkerOnly
    BY <1>1 DEF Get, Drain
  <2>2. /\ worker[c] \in {"polling", "draining"} /\ worker'[c] \in {"polling", "draining"}
        /\ worker'[c] = "draining" => stop[c]
        /\ \A d \in Collectors \ {c} : worker'[d] = worker[d]
    BY <1>1 DEF Get, Drain, WorkerMoves, Resumed, TypeOK, LateInv, EndInv
  <2>3. /\ last' = last /\ rollup' = rollup
        /\ \A d \in Collectors \ {c} : queue'[d] = queue[d] /\ pending'[d] = pending[d]
    BY <1>1 DEF Get, Drain, Handle, buffers, TypeOK
  <2>4. ~Ended(c)'
    BY <2>2 DEF Ended
  <2> QED
    BY <1>0, <2>1, <2>2, <2>3, <2>4, WorkerKeeps
<1>2. CASE FlushDue(c)
  BY <1>2, FlushLate DEF FlushDue
<1>3. CASE LastFlush(c)
  <2>1. worker[c] = "draining"
    BY <1>3, FlushGoes DEF LastFlush
  <2> QED
    BY <1>3, <2>1, FlushLate DEF LastFlush, Drained, LateInv, EndInv
<1>4. CASE Post(c)
  <2>1. /\ worker[c] = "checking" /\ worker'[c] = "sending"
        /\ \A d \in Collectors \ {c} : worker'[d] = worker[d]
        /\ WorkerOnly /\ UNCHANGED buffers
    BY <1>4 DEF Post, WorkerMoves, TypeOK
  <2>2. Ended(c)' => Ended(c) /\ stop[c]
    BY <2>1 DEF Ended, LateInv, EndInv, buffers
  <2>3. Ended(c)' => stop[c] /\ LeftBehind(c)' \subseteq late
    BY <2>1, <2>2 DEF LateInv, LeftInv, LeftBehind, buffers
  <2> QED
    BY <1>0, <2>1, <2>3, WorkerKeeps DEF buffers
<1>5. CASE Withheld(c)
  BY <1>5, BatchLate DEF Withheld
<1>6. CASE Posted(c)
  BY <1>6, BatchLate DEF Posted
<1> QED
  BY <1>1, <1>2, <1>3, <1>4, <1>5, <1>6 DEF WorkerSteps

LEMMA NextLate == TypeOK /\ LateInv /\ [Next]_vars => LateInv'
<1>1. LateInv /\ UNCHANGED vars => LateInv'
  BY LateKept DEF vars, threads, buffers, onLoop, history
<1>2. LateInv /\ OtherSteps => LateInv'
  BY OthersApart, LateKept DEF Here, threads, buffers, onLoop
<1> QED
  BY <1>1, <1>2, LoopLate, WorkerLate DEF Next, LoopSteps

\* A worker that ended left nothing in the queue, the batch or the counts
\* but what was recorded after its collector had been told to stop.
THEOREM NothingIsLeft == Spec => []NothingLeftBehind
<1>1. LateInv => NothingLeftBehind
  BY DEF LateInv, LeftInv, Ended, NothingLeftBehind
<1> QED
  BY <1>1, InitLate, NextLate, TypesHold, PTL DEF Spec

-----------------------------------------------------------------------------
(* Each call in one place.                                                 *)

Occurs(q, x) == \E i \in DOMAIN q : q[i] = x

Alone(q, x) == \A i, j \in DOMAIN q : q[i] = x /\ q[j] = x => i = j

OccursIn(o, x) == \E i \in DOMAIN o : x \in o[i]

AloneIn(o, x) == \A i, j \in DOMAIN o : x \in o[i] /\ x \in o[j] => i = j

\* The collector has a call in a buffer or in the events of a flush, ...
Holds(c, t) ==
  Occurs(queue[c], t) \/ Occurs(pending[c], t) \/ t \in rollup[c] \/ OccursIn(outbox[c], t)

\* ... and in one place of one of them.
Single(c, t) ==
  /\ Alone(queue[c], t) /\ Alone(pending[c], t) /\ AloneIn(outbox[c], t)
  /\ Occurs(queue[c], t) => ~Occurs(pending[c], t) /\ t \notin rollup[c] /\ ~OccursIn(outbox[c], t)
  /\ Occurs(pending[c], t) => t \notin rollup[c] /\ ~OccursIn(outbox[c], t)
  /\ t \in rollup[c] => ~OccursIn(outbox[c], t)

\* A call that was recorded is held by one collector, or arrived, or lost.
Once(t) ==
  /\ \A c \in Collectors : Single(c, t)
  /\ \A c, d \in Collectors : Holds(c, t) /\ Holds(d, t) => c = d
  /\ \A c \in Collectors : Holds(c, t) => t \notin arrived /\ caller[t] = "done"
  /\ t \in arrived => caller[t] = "done"

OnceInv == \A t \in Calls : Once(t)

LEMMA TailOnce ==
  ASSUME NEW S, NEW q \in Seq(S), q # <<>>, NEW x
  PROVE  /\ Occurs(Tail(q), x) => Occurs(q, x)
         /\ Alone(q, x) => Alone(Tail(q), x)
         /\ Head(q) = x => Occurs(q, x)
         /\ Alone(q, x) /\ Head(q) = x => ~Occurs(Tail(q), x)
<1>1. /\ Len(q) \in Nat \ {0} /\ DOMAIN q = 1..Len(q) /\ DOMAIN Tail(q) = 1..(Len(q) - 1)
      /\ Head(q) = q[1] /\ \A i \in 1..(Len(q) - 1) : Tail(q)[i] = q[i + 1]
  OBVIOUS
<1>2. \A i \in DOMAIN Tail(q) : i + 1 \in DOMAIN q /\ i + 1 # 1 /\ Tail(q)[i] = q[i + 1]
  BY <1>1
<1>3. Occurs(Tail(q), x) => Occurs(q, x)
  BY <1>2 DEF Occurs
<1>4. ASSUME Alone(q, x), NEW i \in DOMAIN Tail(q), NEW j \in DOMAIN Tail(q),
             Tail(q)[i] = x, Tail(q)[j] = x
      PROVE  i = j
  <2>1. i + 1 = j + 1
    BY <1>2, <1>4 DEF Alone
  <2> QED
    BY <1>1, <2>1
<1>5. 1 \in DOMAIN q
  BY <1>1
<1> QED
  BY <1>1, <1>2, <1>3, <1>4, <1>5 DEF Occurs, Alone

LEMMA AppendOnce ==
  ASSUME NEW S, NEW q \in Seq(S), NEW y \in S, NEW x
  PROVE  /\ Occurs(Append(q, y), x) => Occurs(q, x) \/ x = y
         /\ Alone(q, x) /\ (x = y => ~Occurs(q, x)) => Alone(Append(q, y), x)
         /\ Occurs(q, x) \/ x = y => Occurs(Append(q, y), x)
<1>1. /\ Len(q) \in Nat /\ DOMAIN q = 1..Len(q) /\ DOMAIN Append(q, y) = 1..(Len(q) + 1)
      /\ Append(q, y)[Len(q) + 1] = y /\ \A i \in 1..Len(q) : Append(q, y)[i] = q[i]
  OBVIOUS
<1>2. \A i \in DOMAIN Append(q, y) :
        \/ i \in DOMAIN q /\ Append(q, y)[i] = q[i]
        \/ i = Len(q) + 1 /\ Append(q, y)[i] = y
  BY <1>1
<1>3. Len(q) + 1 \in DOMAIN Append(q, y) /\ DOMAIN q \subseteq DOMAIN Append(q, y)
  BY <1>1
<1>4. Occurs(Append(q, y), x) => Occurs(q, x) \/ x = y
  BY <1>2 DEF Occurs
<1>5. ASSUME Alone(q, x), x = y => ~Occurs(q, x),
             NEW i \in DOMAIN Append(q, y), NEW j \in DOMAIN Append(q, y),
             Append(q, y)[i] = x, Append(q, y)[j] = x
      PROVE  i = j
  BY <1>2, <1>5 DEF Alone, Occurs
<1>6. Occurs(q, x) \/ x = y => Occurs(Append(q, y), x)
  BY <1>1, <1>3 DEF Occurs
<1> QED
  BY <1>4, <1>5, <1>6 DEF Alone

LEMMA ConcatOnce ==
  ASSUME NEW S, NEW p \in Seq(SUBSET S), NEW q \in Seq(SUBSET S), NEW x
  PROVE  /\ OccursIn(p \o q, x) => OccursIn(p, x) \/ OccursIn(q, x)
         /\ AloneIn(p, x) /\ AloneIn(q, x) /\ ~(OccursIn(p, x) /\ OccursIn(q, x))
            => AloneIn(p \o q, x)
<1>1. /\ DOMAIN p = 1..Len(p) /\ DOMAIN q = 1..Len(q) /\ Len(p) \in Nat /\ Len(q) \in Nat
      /\ DOMAIN (p \o q) = 1..(Len(p) + Len(q))
      /\ \A i \in 1..(Len(p) + Len(q)) : (p \o q)[i] = IF i <= Len(p) THEN p[i] ELSE q[i - Len(p)]
  OBVIOUS
<1>2. \A i \in DOMAIN (p \o q) :
        \/ i \in DOMAIN p /\ (p \o q)[i] = p[i]
        \/ i \in Int /\ i - Len(p) \in DOMAIN q /\ (p \o q)[i] = q[i - Len(p)]
  BY <1>1
<1>3. OccursIn(p \o q, x) => OccursIn(p, x) \/ OccursIn(q, x)
  BY <1>2 DEF OccursIn
<1>4. ASSUME AloneIn(p, x), AloneIn(q, x), ~(OccursIn(p, x) /\ OccursIn(q, x)),
             NEW i \in DOMAIN (p \o q), NEW j \in DOMAIN (p \o q),
             x \in (p \o q)[i], x \in (p \o q)[j]
      PROVE  i = j
  <2>1. CASE OccursIn(p, x)
    BY <1>2, <1>4, <2>1 DEF OccursIn, AloneIn
  <2>2. CASE ~OccursIn(p, x)
    <3>1. /\ i \in Int /\ i - Len(p) \in DOMAIN q /\ x \in q[i - Len(p)]
          /\ j \in Int /\ j - Len(p) \in DOMAIN q /\ x \in q[j - Len(p)]
      BY <1>2, <1>4, <2>2 DEF OccursIn
    <3>2. i - Len(p) = j - Len(p)
      BY <1>4, <3>1 DEF AloneIn
    <3> QED
      BY <1>1, <3>1, <3>2
  <2> QED
    BY <2>1, <2>2
<1> QED
  BY <1>3, <1>4 DEF AloneIn

\* What a flush takes out holds each call as often as the batch and the counts.
LEMMA BatchedOnce ==
  ASSUME TypeOK, NEW c \in Collectors, NEW t, Single(c, t)
  PROVE  /\ OccursIn(Batched(c), t) => Occurs(pending[c], t) \/ t \in rollup[c]
         /\ AloneIn(Batched(c), t)
<1> DEFINE one == [i \in DOMAIN pending[c] |-> {pending[c][i]}]
           two == IF rollup[c] = {} THEN <<>> ELSE <<rollup[c]>>
<1>1. pending[c] \in Seq(Records) /\ rollup[c] \in SUBSET Records
  BY DEF TypeOK
<1>2. Len(pending[c]) \in Nat /\ DOMAIN pending[c] = 1..Len(pending[c])
  BY <1>1
<1>3. one \in Seq(SUBSET Records)
  <2>1. \A i \in 1..Len(pending[c]) : {pending[c][i]} \in SUBSET Records
    BY <1>1, ElementOfSeq
  <2>2. one \in [1..Len(pending[c]) -> SUBSET Records]
    BY <1>2, <2>1
  <2> QED
    BY <1>2, <2>2, SeqDef
<1>4. two \in Seq(SUBSET Records)
  <2>1. <<>> \in Seq(SUBSET Records) /\ <<rollup[c]>> \in Seq(SUBSET Records)
    BY <1>1
  <2> QED
    BY <2>1
<1>5. OccursIn(one, t) => Occurs(pending[c], t)
  BY DEF OccursIn, Occurs
<1>6. AloneIn(one, t)
  BY DEF AloneIn, Alone, Single
<1>7. (OccursIn(two, t) => t \in rollup[c]) /\ AloneIn(two, t)
  <2>1. \A i \in DOMAIN <<rollup[c]>> : i = 1 /\ <<rollup[c]>>[i] = rollup[c]
    OBVIOUS
  <2>2. DOMAIN <<>> = {}
    OBVIOUS
  <2>3. \A i \in DOMAIN two : i = 1 /\ two[i] = rollup[c]
    BY <2>1, <2>2
  <2> HIDE DEF two
  <2> QED
    BY <2>3 DEF OccursIn, AloneIn
<1>8. ~(OccursIn(one, t) /\ OccursIn(two, t))
  BY <1>5, <1>7 DEF Single
<1> HIDE DEF one, two
<1>9. /\ OccursIn(one \o two, t) => OccursIn(one, t) \/ OccursIn(two, t)
      /\ AloneIn(one \o two, t)
  BY <1>3, <1>4, <1>6, <1>7, <1>8, ConcatOnce
<1>10. Batched(c) = one \o two
  BY DEF Batched, one, two
<1> QED
  BY <1>5, <1>7, <1>9, <1>10

\* The batch on the wire and the events that follow it have no call in common.
LEMMA RestOnce ==
  ASSUME TypeOK, NEW c \in Collectors, NEW t, AloneIn(outbox[c], t)
  PROVE  /\ OccursIn(Rest(c), t) => OccursIn(outbox[c], t) /\ t \notin OnTheWire(c)
         /\ AloneIn(Rest(c), t)
         /\ t \in OnTheWire(c) => OccursIn(outbox[c], t)
<1> DEFINE o == outbox[c]
<1>1. o \in Seq(SUBSET Records) /\ PerPost \in Nat /\ Len(o) \in Nat /\ DOMAIN o = 1..Len(o)
  BY DEF TypeOK
<1>2. \A i \in DOMAIN Rest(c) :
        i \in Int /\ i + PerPost \in DOMAIN o /\ ~(i + PerPost <= PerPost) /\ Rest(c)[i] = o[i + PerPost]
  <2>1. \A i \in PerPost + 1 .. Len(o) : o[i] \in SUBSET Records
    BY <1>1, ElementOfSeq
  <2>2. Rest(c) = [i \in 1..(Len(o) - PerPost) |-> o[i + PerPost]]
    BY <1>1 DEF Rest
  <2> QED
    BY <1>1, <2>2
<1>3. t \in OnTheWire(c) => \E i \in DOMAIN o : i <= PerPost /\ t \in o[i]
  BY DEF OnTheWire
<1> HIDE DEF o
<1>4. AloneIn(o, t)
  BY DEF o
<1>5. ASSUME NEW i \in DOMAIN Rest(c), t \in Rest(c)[i]
      PROVE  OccursIn(o, t) /\ t \notin OnTheWire(c)
  BY <1>2, <1>3, <1>4, <1>5 DEF OccursIn, AloneIn
<1>6. ASSUME NEW i \in DOMAIN Rest(c), NEW j \in DOMAIN Rest(c), t \in Rest(c)[i], t \in Rest(c)[j]
      PROVE  i = j
  <2>1. i + PerPost = j + PerPost
    BY <1>2, <1>4, <1>6 DEF AloneIn
  <2> QED
    BY <1>1, <1>2, <2>1
<1>7. t \in OnTheWire(c) => OccursIn(o, t)
  BY <1>3 DEF OccursIn
<1>8. OccursIn(Rest(c), t) => OccursIn(o, t) /\ t \notin OnTheWire(c)
  BY <1>5 DEF OccursIn
<1> QED
  BY <1>6, <1>7, <1>8 DEF AloneIn, o

\* What a step that concerns one collector must do.
LEMMA StepOnce ==
  ASSUME NEW t \in Calls, Once(t), NEW c \in Collectors,
         \A d \in Collectors \ {c} :
           /\ queue'[d] = queue[d] /\ pending'[d] = pending[d]
           /\ rollup'[d] = rollup[d] /\ outbox'[d] = outbox[d],
         Single(c, t)',
         caller[t] = "done" => caller'[t] = "done",
         Holds(c, t)' => Holds(c, t) \/ (caller[t] # "done" /\ caller'[t] = "done"),
         t \in arrived' => t \in arrived \/ (Holds(c, t) /\ ~Holds(c, t)')
  PROVE  Once(t)'
<1>1. \A d \in Collectors \ {c} : (Holds(d, t)' <=> Holds(d, t)) /\ (Single(d, t)' <=> Single(d, t))
  BY DEF Holds, Single
<1>2. \A d \in Collectors : Single(d, t)'
  BY <1>1 DEF Once
<1>3. \A d, e \in Collectors : Holds(d, t)' /\ Holds(e, t)' => d = e
  BY <1>1 DEF Once
<1>4. \A d \in Collectors : Holds(d, t)' => t \notin arrived' /\ caller'[t] = "done"
  BY <1>1 DEF Once
<1>5. t \in arrived' => caller'[t] = "done"
  BY DEF Once
<1> QED
  BY <1>2, <1>3, <1>4, <1>5 DEF Once

LEMMA OnceKept ==
  ASSUME NEW t \in Calls, Once(t), UNCHANGED <<queue, pending, rollup, outbox, arrived>>,
         caller[t] = "done" => caller'[t] = "done"
  PROVE  Once(t)'
  BY DEF Once, Holds, Single

\* Something that is no call is queued.
LEMMA QueuedOther ==
  ASSUME TypeOK, NEW t \in Calls, Once(t), NEW c, NEW x \in Items \ Calls,
         queue' = [queue EXCEPT ![c] = Queued(c, x)],
         UNCHANGED <<pending, rollup, outbox, arrived, caller>>
  PROVE  Once(t)'
<1>1. CASE c \in Collectors
  <2>1. queue[c] \in Seq(Items) /\ x # t
    BY <1>1 DEF TypeOK, Items
  <2>2. (Occurs(Queued(c, x), t) => Occurs(queue[c], t)) /\ Alone(Queued(c, x), t)
    BY <1>1, <2>1, AppendOnce DEF Queued, Once, Single
  <2>3. \A d \in Collectors : queue'[d] = IF d = c THEN Queued(c, x) ELSE queue[d]
    BY <1>1 DEF TypeOK
  <2>4. (Occurs(queue'[c], t) => Occurs(queue[c], t)) /\ Alone(queue'[c], t)
    BY <1>1, <2>2, <2>3
  <2>5. Single(c, t)' /\ (Holds(c, t)' => Holds(c, t))
    BY <1>1, <2>4 DEF Once, Single, Holds
  <2> QED
    BY <1>1, <2>3, <2>5, StepOnce
<1>2. CASE c \notin Collectors
  <2>1. queue' = queue
    BY <1>2 DEF TypeOK
  <2> QED
    BY <2>1, OnceKept
<1> QED
  BY <1>1, <1>2

LEMMA NotedOnce ==
  ASSUME TypeOK, OnceInv, NEW u \in Calls, Counts(u) \/ Queues(u)
  PROVE  OnceInv'
<1> SUFFICES ASSUME NEW t \in Calls PROVE Once(t)'
  BY DEF OnceInv
<1>0. PICK c \in Collectors : c = caller[u]
  BY DEF Counts, Queues, Noted
<1>1. Once(t) /\ Once(u)
  BY DEF OnceInv
<1>2. caller' = [caller EXCEPT ![u] = "done"] /\ UNCHANGED <<pending, outbox, arrived>>
  BY DEF Counts, Queues, Noted
<1>3. /\ caller[u] # "done" /\ caller'[u] = "done"
      /\ t # u => caller'[t] = caller[t]
  BY <1>0, <1>2 DEF TypeOK
<1>4. ~Holds(c, u) /\ Single(c, t) /\ u \notin arrived
  BY <1>1, <1>3 DEF Once
<1>5. CASE Counts(u)
  <2>1. /\ queue' = queue
        /\ \A d \in Collectors : rollup'[d] = IF d = c THEN rollup[d] \cup {u} ELSE rollup[d]
    BY <1>0, <1>5 DEF Counts, TypeOK
  <2>2. Single(c, t)' /\ (Holds(c, t)' => Holds(c, t) \/ t = u)
    BY <1>2, <1>4, <2>1 DEF Single, Holds
  <2> QED
    BY <1>1, <1>2, <1>3, <2>1, <2>2, StepOnce
<1>6. CASE Queues(u)
  <2>1. /\ rollup' = rollup
        /\ \A d \in Collectors : queue'[d] = IF d = c THEN Queued(c, u) ELSE queue[d]
    BY <1>0, <1>6 DEF Queues, TypeOK
  <2>2. queue[c] \in Seq(Items) /\ u \in Items
    BY DEF TypeOK, Items
  <2>3. (Occurs(Queued(c, u), t) => Occurs(queue[c], t) \/ t = u)
        /\ Alone(Queued(c, u), t)
    BY <1>4, <2>2, AppendOnce DEF Queued, Single, Holds
  <2>4. (Occurs(queue'[c], t) => Occurs(queue[c], t) \/ t = u) /\ Alone(queue'[c], t)
    BY <2>1, <2>3
  <2>5. Single(c, t)' /\ (Holds(c, t)' => Holds(c, t) \/ t = u)
    BY <1>2, <1>4, <2>1, <2>4 DEF Single, Holds
  <2> QED
    BY <1>1, <1>2, <1>3, <2>1, <2>5, StepOnce
<1> QED
  BY <1>5, <1>6

LEMMA LoopOnce == TypeOK /\ OnceInv /\ LoopSteps => OnceInv'
<1> SUFFICES ASSUME TypeOK, OnceInv, LoopSteps PROVE OnceInv'
  OBVIOUS
<1>1. ASSUME NEW u \in Calls, Returns(u) PROVE OnceInv'
  <2> SUFFICES ASSUME NEW t \in Calls PROVE Once(t)'
    BY DEF OnceInv
  <2>1. caller[t] = "done" => caller'[t] = "done"
    BY <1>1 DEF Returns, TypeOK
  <2> QED
    BY <1>1, <2>1, OnceKept DEF OnceInv, Returns, buffers, history
<1>2. ASSUME NEW u \in Calls, Counts(u) \/ Queues(u) PROVE OnceInv'
  BY <1>2, NotedOnce
<1>3. ASSUME NEW m \in Milestones, Milestone(m) PROVE OnceInv'
  <2>1. PICK c \in Collectors : queue' = [queue EXCEPT ![c] = Queued(c, Save)]
    BY <1>3 DEF Milestone
  <2>2. UNCHANGED <<pending, rollup, outbox, arrived, caller>>
    BY <1>3 DEF Milestone
  <2>3. Save \in Items \ Calls
    BY DEF Items
  <2> QED
    BY <2>1, <2>2, <2>3, QueuedOther DEF OnceInv
<1>4. CASE RecordMilestone \/ Shutdown
  <2>1. /\ UNCHANGED <<pending, rollup, outbox, arrived, caller>>
        /\ \E x \in Items \ Calls : queue' = [queue EXCEPT ![current] = Queued(current, x)]
    <3>1. CASE RecordMilestone
      <4>1. due \in Items \ Calls
        BY <3>1 DEF RecordMilestone, TypeOK, Items
      <4> QED
        BY <3>1, <4>1 DEF RecordMilestone, history
    <3>2. CASE Shutdown
      <4>1. Wake \in Items \ Calls
        BY DEF Items
      <4> QED
        BY <3>2, <4>1 DEF Shutdown, history
    <3> QED
      BY <1>4, <3>1, <3>2
  <2> QED
    BY <2>1, QueuedOther DEF OnceInv
<1>5. CASE OptOut \/ Joined
  BY <1>5, OnceKept DEF OnceInv, OptOut, Joined, buffers
<1>6. CASE ProcessEnds
  <2> SUFFICES ASSUME NEW t \in Calls PROVE Once(t)'
    BY DEF OnceInv
  <2>1. \A c \in Collectors : ~Holds(c, t)' /\ Single(c, t)'
    <3>1. /\ \A c \in Collectors : queue'[c] = <<>> /\ pending'[c] = <<>> /\ outbox'[c] = <<>>
          /\ \A c \in Collectors : rollup'[c] = {}
      BY <1>6 DEF ProcessEnds
    <3>2. ~Occurs(<<>>, t) /\ Alone(<<>>, t) /\ ~OccursIn(<<>>, t) /\ AloneIn(<<>>, t)
      BY DEF Occurs, Alone, OccursIn, AloneIn
    <3> QED
      BY <3>1, <3>2 DEF Holds, Single
  <2>2. caller[t] = "done" => caller'[t] = "done"
    BY <1>6 DEF ProcessEnds, TypeOK
  <2>3. arrived' = arrived
    BY <1>6 DEF ProcessEnds
  <2> QED
    BY <2>1, <2>2, <2>3 DEF OnceInv, Once
<1> QED
  BY <1>1, <1>2, <1>3, <1>4, <1>5, <1>6 DEF LoopSteps

LEMMA HandleOnce ==
  ASSUME TypeOK, OnceInv, NEW c \in Collectors, Handle(c), WorkerOnly
  PROVE  OnceInv'
<1> SUFFICES ASSUME NEW t \in Calls PROVE Once(t)'
  BY DEF OnceInv
<1> DEFINE q == queue[c]  x == Head(queue[c])
<1>1. q \in Seq(Items) /\ q # <<>> /\ pending[c] \in Seq(Records)
  BY DEF Handle, TypeOK, Items
<1>2. /\ \A d \in Collectors : queue'[d] = IF d = c THEN Tail(q) ELSE queue[d]
      /\ \A d \in Collectors \ {c} : pending'[d] = pending[d]
      /\ pending'[c] = pending[c] \/ (x \in Records /\ pending'[c] = Append(pending[c], x))
      /\ UNCHANGED <<rollup, outbox, arrived, caller>>
  BY DEF Handle, TypeOK, WorkerOnly
<1>3. Once(t) /\ Single(c, t)
  BY DEF OnceInv, Once
<1>4. /\ Occurs(Tail(q), t) => Occurs(q, t)
      /\ Alone(Tail(q), t)
      /\ x = t => Occurs(q, t) /\ ~Occurs(Tail(q), t)
  BY <1>1, <1>3, TailOnce DEF Single
<1>5. /\ Occurs(pending'[c], t) => Occurs(pending[c], t) \/ x = t
      /\ Alone(pending'[c], t)
  <2>1. CASE pending'[c] = pending[c]
    BY <1>3, <2>1 DEF Single
  <2>2. CASE x \in Records /\ pending'[c] = Append(pending[c], x)
    <3>1. x = t => ~Occurs(pending[c], t)
      BY <1>3, <1>4 DEF Single
    <3>2. Alone(pending[c], t)
      BY <1>3 DEF Single
    <3> HIDE DEF q, x
    <3>3. /\ Occurs(Append(pending[c], x), t) => Occurs(pending[c], t) \/ x = t
          /\ Alone(Append(pending[c], x), t)
      BY <1>1, <2>2, <3>1, <3>2, AppendOnce
    <3> QED
      BY <2>2, <3>3
  <2> QED
    BY <1>2, <2>1, <2>2
<1> HIDE DEF q, x
<1>6. queue'[c] = Tail(q) /\ queue[c] = q
  BY <1>2 DEF q
<1>7. Single(c, t)' /\ (Holds(c, t)' => Holds(c, t))
  BY <1>2, <1>3, <1>4, <1>5, <1>6 DEF Single, Holds
<1> QED
  BY <1>2, <1>3, <1>7, StepOnce

LEMMA FlushOnce ==
  ASSUME TypeOK, OnceInv, NEW c \in Collectors, NEW from, NEW final, Flush(c, from, final)
  PROVE  OnceInv'
<1> SUFFICES ASSUME NEW t \in Calls PROVE Once(t)'
  BY DEF OnceInv
<1>1. Once(t) /\ Single(c, t)
  BY DEF OnceInv, Once
<1>2. /\ UNCHANGED <<queue, arrived, caller>>
      /\ \A d \in Collectors \ {c} :
           pending'[d] = pending[d] /\ rollup'[d] = rollup[d] /\ outbox'[d] = outbox[d]
      /\ pending'[c] = <<>> /\ rollup'[c] = {}
      /\ outbox'[c] = IF latched THEN <<>> ELSE Batched(c)
  BY DEF Flush, Proceeds, WorkerOnly, TypeOK
<1>3. ~Occurs(<<>>, t) /\ Alone(<<>>, t) /\ ~OccursIn(<<>>, t) /\ AloneIn(<<>>, t)
  BY DEF Occurs, Alone, OccursIn, AloneIn
<1>4. /\ OccursIn(outbox'[c], t) => Occurs(pending[c], t) \/ t \in rollup[c]
      /\ AloneIn(outbox'[c], t)
  BY <1>1, <1>2, <1>3, BatchedOnce
<1>5. Single(c, t)' /\ (Holds(c, t)' => Holds(c, t))
  BY <1>1, <1>2, <1>3, <1>4 DEF Single, Holds
<1> QED
  BY <1>1, <1>2, <1>5, StepOnce

\* A batch is done with: its calls arrived or not, and the rest remains.
LEMMA BatchOnce ==
  ASSUME TypeOK, OnceInv, NEW c \in Collectors, NEW from, NEW events,
         Proceeds(c, from, events, last[c]), events = Rest(c) \/ events = <<>>,
         WorkerOnly, UNCHANGED <<queue, pending, rollup>>,
         arrived' \subseteq arrived \cup OnTheWire(c)
  PROVE  OnceInv'
<1> SUFFICES ASSUME NEW t \in Calls PROVE Once(t)'
  BY DEF OnceInv
<1>1. Once(t) /\ Single(c, t)
  BY DEF OnceInv, Once
<1>2. /\ caller' = caller
      /\ \A d \in Collectors : outbox'[d] = IF d = c THEN events ELSE outbox[d]
  BY DEF Proceeds, WorkerOnly, TypeOK
<1>3. ~OccursIn(<<>>, t) /\ AloneIn(<<>>, t)
  BY DEF OccursIn, AloneIn
<1>4. /\ OccursIn(events, t) => OccursIn(outbox[c], t) /\ t \notin OnTheWire(c)
      /\ AloneIn(events, t)
      /\ t \in OnTheWire(c) => OccursIn(outbox[c], t)
  BY <1>1, <1>3, RestOnce DEF Single
<1>5. outbox'[c] = events
  BY <1>2
<1>6. Single(c, t)' /\ (Holds(c, t)' => Holds(c, t))
  BY <1>1, <1>4, <1>5 DEF Single, Holds
<1>7. t \in OnTheWire(c) => Holds(c, t) /\ ~Holds(c, t)'
  BY <1>1, <1>4, <1>5 DEF Single, Holds
<1> QED
  BY <1>1, <1>2, <1>6, <1>7, StepOnce

LEMMA WorkerOnce ==
  ASSUME TypeOK, OnceInv, NEW c \in Collectors, WorkerSteps(c)
  PROVE  OnceInv'
<1>1. CASE Get(c)
  <2>1. CASE Handle(c)
    BY <1>1, <2>1, HandleOnce DEF Get
  <2>2. CASE UNCHANGED <<buffers, file, client, arrived, unsaved>>
    BY <1>1, <2>2, OnceKept DEF Get, OnceInv, WorkerOnly, buffers
  <2> QED
    BY <1>1, <2>1, <2>2 DEF Get
<1>2. CASE FlushDue(c)
  BY <1>2, FlushOnce DEF FlushDue
<1>3. CASE Drain(c)
  BY <1>3, HandleOnce DEF Drain
<1>4. CASE LastFlush(c)
  BY <1>4, FlushOnce DEF LastFlush
<1>5. CASE Post(c)
  BY <1>5, OnceKept DEF Post, OnceInv, WorkerOnly, buffers
<1>6. CASE Withheld(c)
  BY <1>6, BatchOnce DEF Withheld
<1>7. CASE Posted(c)
  <2>1. PICK events :
          Proceeds(c, "sending", events, last[c]) /\ (events = Rest(c) \/ events = <<>>)
    BY <1>7 DEF Posted
  <2>2. /\ WorkerOnly /\ UNCHANGED <<queue, pending, rollup>>
        /\ arrived' \subseteq arrived \cup OnTheWire(c)
    BY <1>7 DEF Posted
  <2> QED
    BY <2>1, <2>2, BatchOnce
<1> QED
  BY <1>1, <1>2, <1>3, <1>4, <1>5, <1>6, <1>7 DEF WorkerSteps

LEMMA InitOnce == Init => OnceInv
<1> SUFFICES ASSUME Init, NEW t \in Calls PROVE Once(t)
  BY DEF OnceInv
<1>1. \A c \in Collectors : queue[c] = <<>> /\ pending[c] = <<>> /\ outbox[c] = <<>> /\ rollup[c] = {}
  BY DEF Init
<1>2. ~Occurs(<<>>, t) /\ Alone(<<>>, t) /\ ~OccursIn(<<>>, t) /\ AloneIn(<<>>, t)
  BY DEF Occurs, Alone, OccursIn, AloneIn
<1>3. \A c \in Collectors : ~Holds(c, t) /\ Single(c, t)
  BY <1>1, <1>2 DEF Holds, Single
<1> QED
  BY <1>3 DEF Init, Once

LEMMA NextOnce == TypeOK /\ OnceInv /\ [Next]_vars => OnceInv'
<1>1. OnceInv /\ UNCHANGED vars => OnceInv'
  BY OnceKept DEF OnceInv, vars, buffers, history
<1>2. OnceInv /\ OtherSteps => OnceInv'
  BY OthersApart, OnceKept DEF OnceInv, Here, buffers
<1> QED
  BY <1>1, <1>2, LoopOnce, WorkerOnce DEF Next, LoopSteps

\* A call is reported once at the most: what is on a collector's wire has not
\* arrived, and is on no other wire, whatever was lost and whoever shut down.
THEOREM CallsReportedOnce == Spec => []ReportedOnce
<1>1. TypeOK /\ OnceInv => ReportedOnce
  <2> SUFFICES ASSUME TypeOK, OnceInv, NEW c \in Collectors, NEW t \in Calls, t \in OnTheWire(c)
               PROVE  t \notin arrived /\ \A d \in Collectors \ {c} : t \notin OnTheWire(d)
    BY DEF ReportedOnce
  <2>1. \A d \in Collectors : t \in OnTheWire(d) => Holds(d, t)
    BY RestOnce DEF OnceInv, Once, Single, Holds
  <2> QED
    BY <2>1 DEF OnceInv, Once
<1> QED
  BY <1>1, InitOnce, NextOnce, TypesHold, PTL DEF Spec

-----------------------------------------------------------------------------
(* Milestones.                                                             *)

\* Every collector but the current one has ended, and asks for no more saves.
OnlyCurrent ==
  \A c \in Collectors :
    /\ c # current => worker[c] \in {"unborn", "gone"}
    /\ worker[c] = "unborn" \/ Ended(c) => ~Occurs(queue[c], Save)

\* What is settled was recorded, is saved or yet to be, and is undisputed.
Settled == fired \ (unsaved \cup disputed)

SaveIsDue == current # None /\ Occurs(queue[current], Save)

SavedOrDue == \A m \in Settled : m \in file \/ (SaveIsDue /\ m \in marked[current])

\* Every copy in use has what is in the file and in the others.
KnowsFile   == \A copy \in Copies : file \ disputed \subseteq copy
CopiesAgree == \A copy, other \in Copies : copy \ other \subseteq disputed

FiredOnce == again \subseteq unsaved \cup disputed

SaveInv == cut \/ (OnlyCurrent /\ SavedOrDue /\ KnowsFile /\ CopiesAgree /\ FiredOnce)

LEMMA InitSave == Init => SaveInv
<1>1. ~Occurs(<<>>, Save)
  BY DEF Occurs
<1> QED
  BY <1>1 DEF Init, SaveInv, OnlyCurrent, SavedOrDue, Settled, KnowsFile, CopiesAgree, Copies, FiredOnce

\* Where copies come to differ there is a dispute.
LEMMA AgreeAfter == Disputes => CopiesAgree' /\ disputed \subseteq disputed'
<1> SUFFICES ASSUME Disputes PROVE CopiesAgree' /\ disputed \subseteq disputed'
  OBVIOUS
<1>1. disputed' = disputed \cup Differing'
  BY DEF Disputes
<1>2. ASSUME NEW copy \in Copies', NEW other \in Copies', NEW m \in copy \ other
      PROVE  m \in disputed'
  BY <1>1, <1>2 DEF Differing
<1> QED
  BY <1>1, <1>2 DEF CopiesAgree

\* Whoever asks knows what is settled.
LEMMA KnownIfFired ==
  ASSUME SaveInv, ~cut, NEW c \in Collectors, GetTelemetry(c), NEW m \in Settled
  PROVE  m \in Known(c)
<1>1. current = c \/ current = None
  BY DEF GetTelemetry
<1>2. m \in file \/ (SaveIsDue /\ m \in marked[current])
  BY DEF SaveInv, SavedOrDue
<1>3. CASE current = c
  <2>1. marked[c] \in Copies
    BY <1>3 DEF Copies
  <2> QED
    BY <1>2, <1>3, <2>1 DEF Known, SaveInv, KnowsFile, Settled
<1>4. CASE current = None
  BY <1>2, <1>4 DEF Known, Loaded, SaveIsDue
<1> QED
  BY <1>1, <1>3, <1>4

\* A collector is asked for, and its saves and milestones stay as they are.
LEMMA MadeSave ==
  ASSUME TypeOK, LateInv, SaveInv, ~cut, NEW c \in Collectors, GetTelemetry(c), Disputes,
         UNCHANGED <<file, queue, last, unsaved, firsts, others>>,
         marked' = [marked EXCEPT ![c] = Known(c)]
  PROVE  OnlyCurrent' /\ SavedOrDue' /\ KnowsFile' /\ CopiesAgree' /\ FiredOnce'
<1>1. current = c \/ (current = None /\ worker[c] = "unborn")
  BY DEF GetTelemetry
<1>2. /\ current' = c /\ c # None
      /\ worker' = worker \/ (worker[c] = "unborn" /\ worker' = [worker EXCEPT ![c] = "polling"])
  BY DEF GetTelemetry
<1>3. marked'[c] = Known(c)
  BY DEF TypeOK
<1>4. OnlyCurrent'
  BY <1>1, <1>2 DEF SaveInv, OnlyCurrent, Ended, TypeOK
<1>5. CopiesAgree' /\ disputed \subseteq disputed'
  BY AgreeAfter
<1>6. Settled' \subseteq Settled
  BY <1>5 DEF Settled, firsts
<1>7. SavedOrDue'
  <2> SUFFICES ASSUME NEW m \in Settled', m \notin file
               PROVE  SaveIsDue' /\ m \in marked'[current']
    BY DEF SavedOrDue
  <2>1. m \in Settled /\ SaveIsDue /\ current = c
    BY <1>1, <1>6 DEF SaveInv, SavedOrDue, SaveIsDue
  <2>2. m \in Known(c)
    BY <2>1, KnownIfFired
  <2> QED
    BY <1>2, <1>3, <2>1, <2>2 DEF SaveIsDue
<1>8. KnowsFile'
  BY <1>1, <1>2, <1>3, <1>5 DEF SaveInv, KnowsFile, Copies, Known, Loaded
<1>9. FiredOnce'
  BY <1>5 DEF SaveInv, FiredOnce, firsts
<1> QED
  BY <1>4, <1>5, <1>7, <1>8, <1>9

\* The rest of the program asks for no save and moves no worker.
LEMMA SaveKept ==
  ASSUME TypeOK, SaveInv,
         UNCHANGED <<current, worker, file, last, marked, unsaved, firsts, servers>>,
         ~cut' => ~cut,
         \A c \in Collectors : Occurs(queue'[c], Save) <=> Occurs(queue[c], Save)
  PROVE  SaveInv'
<1> SUFFICES ASSUME ~cut, ~cut' PROVE SaveInv'
  BY DEF SaveInv
<1>1. UNCHANGED <<fired, again, others, disputed>>
  BY DEF firsts, servers
<1>2. OnlyCurrent'
  BY DEF SaveInv, OnlyCurrent, Ended
<1>3. SavedOrDue'
  BY <1>1 DEF SaveInv, SavedOrDue, SaveIsDue, Settled, TypeOK
<1>4. KnowsFile' /\ CopiesAgree' /\ FiredOnce'
  BY <1>1 DEF SaveInv, KnowsFile, CopiesAgree, Copies, FiredOnce
<1> QED
  BY <1>2, <1>3, <1>4 DEF SaveInv

LEMMA QueuedSave ==
  ASSUME TypeOK, NEW c, NEW x \in Items \ {Save}, queue' = [queue EXCEPT ![c] = Queued(c, x)]
  PROVE  \A d \in Collectors : Occurs(queue'[d], Save) <=> Occurs(queue[d], Save)
<1> SUFFICES ASSUME NEW d \in Collectors
             PROVE  Occurs(queue'[d], Save) <=> Occurs(queue[d], Save)
  OBVIOUS
<1>1. queue[d] \in Seq(Items)
  BY DEF TypeOK, Items
<1>2. Occurs(Append(queue[d], x), Save) <=> Occurs(queue[d], Save)
  BY <1>1, AppendOnce
<1> QED
  BY <1>2 DEF Queued, TypeOK

\* A milestone fires on a collector that runs, so that its save is handled.
LEMMA MilestoneSave ==
  ASSUME TypeOK, LateInv, SaveInv, NEW m \in Milestones, Milestone(m), ~cut
  PROVE  OnlyCurrent' /\ SavedOrDue' /\ KnowsFile' /\ CopiesAgree' /\ FiredOnce'
<1>1. PICK c \in Collectors :
        /\ GetTelemetry(c) /\ m \notin Known(c)
        /\ marked' = [marked EXCEPT ![c] = Known(c) \cup {m}]
        /\ queue' = [queue EXCEPT ![c] = Queued(c, Save)]
        /\ unsaved' = IF queue'[c] = queue[c] THEN unsaved \cup {m} ELSE unsaved
  BY DEF Milestone
<1>2. /\ UNCHANGED <<file, last, stop, joining, others>> /\ Fires(m)
      /\ joining = None
  BY DEF Milestone, LoopFree
<1>3. current = c \/ (current = None /\ worker[c] = "unborn")
  BY <1>1 DEF GetTelemetry
<1>4. /\ current' = c /\ worker'[c] # "unborn"
      /\ \A d \in Collectors \ {c} : worker'[d] = worker[d]
      /\ worker'[c] = worker[c] \/ worker'[c] = "polling"
      /\ ~stop[c] /\ worker'[c] # "gone"
  BY <1>1, <1>2, MadeLate
<1>5. ~Ended(c)'
  BY <1>2, <1>4 DEF LateInv, EndInv, Ended
<1>6. \A d \in Collectors : marked'[d] = IF d = c THEN Known(c) \cup {m} ELSE marked[d]
  BY <1>1 DEF TypeOK
<1>7. \A d \in Collectors : queue'[d] = IF d = c THEN Queued(c, Save) ELSE queue[d]
  BY <1>1 DEF TypeOK
<1>8. /\ Occurs(queue[c], Save) => Occurs(queue'[c], Save)
      /\ m \notin unsaved' => Occurs(queue'[c], Save)
  <2>1. queue[c] \in Seq(Items) /\ Save \in Items
    BY DEF TypeOK, Items
  <2>2. Occurs(Append(queue[c], Save), Save)
    BY <2>1, AppendOnce
  <2> QED
    BY <1>1, <1>7, <2>2 DEF Queued
<1>9. OnlyCurrent'
  <2> SUFFICES ASSUME NEW d \in Collectors
               PROVE  /\ d # current' => worker'[d] \in {"unborn", "gone"}
                      /\ worker'[d] = "unborn" \/ Ended(d)' => ~Occurs(queue'[d], Save)
    BY DEF OnlyCurrent
  <2>1. CASE d = c
    BY <1>4, <1>5, <2>1
  <2>2. CASE d # c
    BY <1>2, <1>3, <1>4, <1>7, <2>2 DEF SaveInv, OnlyCurrent, Ended, TypeOK
  <2> QED
    BY <2>1, <2>2
<1>10. CopiesAgree' /\ disputed \subseteq disputed' /\ unsaved \subseteq unsaved'
  BY <1>1, AgreeAfter DEF Milestone
<1>11. SavedOrDue'
  <2> SUFFICES ASSUME NEW n \in Settled', n \notin file
               PROVE  n \in marked'[c] /\ Occurs(queue'[c], Save)
    BY <1>2, <1>4 DEF SavedOrDue, SaveIsDue
  <2>1. CASE n = m
    BY <1>6, <1>8, <2>1 DEF Settled
  <2>2. CASE n # m
    <3>1. n \in Settled
      BY <1>2, <1>10, <2>2 DEF Settled, Fires
    <3>2. n \in Known(c) /\ SaveIsDue
      BY <1>1, <3>1, KnownIfFired DEF SaveInv, SavedOrDue
    <3> QED
      BY <1>3, <1>6, <1>8, <3>2 DEF SaveIsDue
  <2> QED
    BY <2>1, <2>2
<1>12. KnowsFile'
  BY <1>2, <1>3, <1>4, <1>6, <1>10 DEF SaveInv, KnowsFile, Copies, Known, Loaded
<1>13. FiredOnce'
  <2>1. m \notin Settled
    BY <1>1, KnownIfFired
  <2> QED
    BY <1>2, <1>10, <2>1 DEF SaveInv, FiredOnce, Fires, Settled
<1> QED
  BY <1>9, <1>10, <1>11, <1>12, <1>13

LEMMA LoopSave == TypeOK /\ LateInv /\ SaveInv /\ LoopSteps => SaveInv'
<1> SUFFICES ASSUME TypeOK, LateInv, SaveInv, LoopSteps PROVE SaveInv'
  OBVIOUS
<1>1. ASSUME NEW t \in Calls, Returns(t) PROVE SaveInv'
  <2>1. PICK c \in Collectors :
          GetTelemetry(c) /\ marked' = [marked EXCEPT ![c] = Known(c)] /\ Disputes
    BY <1>1 DEF Returns
  <2>2. UNCHANGED <<file, queue, last, unsaved, firsts, cut, others>>
    BY <1>1 DEF Returns, buffers, history
  <2>3. CASE ~cut
    BY <2>1, <2>2, <2>3, MadeSave DEF SaveInv
  <2>4. CASE cut
    BY <2>2, <2>4 DEF SaveInv
  <2> QED
    BY <2>3, <2>4
<1>2. ASSUME NEW t \in Calls, Counts(t) PROVE SaveInv'
  BY <1>2, SaveKept DEF Counts, Noted, threads
<1>3. ASSUME NEW t \in Calls, Queues(t) PROVE SaveInv'
  <2>1. t \in Items \ {Save}
    BY DEF Items
  <2>2. queue' = [queue EXCEPT ![caller[t]] = Queued(caller[t], t)]
    BY <1>3 DEF Queues
  <2>3. \A d \in Collectors : Occurs(queue'[d], Save) <=> Occurs(queue[d], Save)
    BY <2>1, <2>2, QueuedSave
  <2> QED
    BY <1>3, <2>3, SaveKept DEF Queues, Noted, threads
<1>4. ASSUME NEW m \in Milestones, Milestone(m) PROVE SaveInv'
  <2>1. cut' = cut
    BY <1>4 DEF Milestone
  <2> QED
    BY <1>4, <2>1, MilestoneSave DEF SaveInv
<1>5. CASE OptOut
  BY <1>5, SaveKept DEF OptOut, threads, buffers
<1>6. CASE RecordMilestone \/ Shutdown
  <2>1. /\ UNCHANGED <<current, worker, file, last, marked, unsaved, firsts, servers, cut>>
        /\ \E x \in Items \ {Save} : queue' = [queue EXCEPT ![current] = Queued(current, x)]
    <3>1. CASE RecordMilestone
      <4>1. due \in Items \ {Save}
        BY <3>1 DEF RecordMilestone, TypeOK, Items
      <4> QED
        BY <3>1, <4>1 DEF RecordMilestone, threads, history
    <3>2. CASE Shutdown
      <4>1. Wake \in Items \ {Save}
        BY DEF Items
      <4> QED
        BY <3>2, <4>1 DEF Shutdown, history
    <3> QED
      BY <1>6, <3>1, <3>2
  <2>2. \A d \in Collectors : Occurs(queue'[d], Save) <=> Occurs(queue[d], Save)
    BY <2>1, QueuedSave
  <2> QED
    BY <2>1, <2>2, SaveKept
<1>7. CASE Joined
  <2>1. /\ UNCHANGED <<worker, file, queue, last, unsaved, firsts, servers>>
        /\ current' = None /\ joining = current
        /\ cut' = (cut \/ worker[joining] # "gone")
        /\ current \in Collectors
    BY <1>7 DEF Joined, buffers, LateInv, LoopInv, TypeOK
  <2> SUFFICES ASSUME ~cut, worker[current] = "gone"
               PROVE  OnlyCurrent' /\ SavedOrDue' /\ KnowsFile' /\ CopiesAgree' /\ FiredOnce'
    BY <2>1 DEF SaveInv
  <2>2. UNCHANGED <<fired, again, others, disputed>> /\ Copies' \subseteq Copies
    BY <2>1 DEF firsts, servers, Copies
  <2>3. OnlyCurrent'
    BY <2>1 DEF SaveInv, OnlyCurrent, Ended
  <2>4. ~SaveIsDue
    BY <2>1 DEF SaveInv, OnlyCurrent, Ended, SaveIsDue
  <2>5. SavedOrDue'
    BY <2>1, <2>2, <2>4 DEF SaveInv, SavedOrDue, Settled
  <2>6. KnowsFile' /\ CopiesAgree' /\ FiredOnce'
    BY <2>1, <2>2 DEF SaveInv, KnowsFile, CopiesAgree, FiredOnce
  <2> QED
    BY <2>3, <2>5, <2>6
<1>8. CASE ProcessEnds
  BY <1>8 DEF ProcessEnds, SaveInv
<1> QED
  BY <1>1, <1>2, <1>3, <1>4, <1>5, <1>6, <1>7, <1>8 DEF LoopSteps

\* A step of a worker that saves nothing, and ends on an empty queue only.
LEMMA WorkerSaveKept ==
  ASSUME TypeOK, SaveInv, NEW c \in Collectors, worker[c] \notin {"unborn", "gone"},
         worker'[c] # "unborn", \A d \in Collectors \ {c} : worker'[d] = worker[d] /\ last'[d] = last[d],
         UNCHANGED <<current, file, marked, unsaved, firsts, servers, cut>>,
         \A d \in Collectors : Occurs(queue'[d], Save) <=> Occurs(queue[d], Save),
         Ended(c)' => Ended(c) \/ ~Occurs(queue[c], Save)
  PROVE  SaveInv'
<1> SUFFICES ASSUME ~cut PROVE SaveInv'
  BY DEF SaveInv
<1>1. OnlyCurrent'
  BY DEF SaveInv, OnlyCurrent, Ended
<1>2. UNCHANGED <<fired, again, others, disputed>>
  BY DEF firsts, servers
<1>3. SavedOrDue'
  BY <1>2 DEF SaveInv, SavedOrDue, SaveIsDue, Settled, TypeOK
<1>4. KnowsFile' /\ CopiesAgree' /\ FiredOnce'
  BY <1>2 DEF SaveInv, KnowsFile, CopiesAgree, Copies, FiredOnce
<1> QED
  BY <1>1, <1>3, <1>4 DEF SaveInv

LEMMA HandleSave ==
  ASSUME TypeOK, SaveInv, NEW c \in Collectors, worker[c] \in {"polling", "draining"},
         worker'[c] \in {"polling", "draining"}, \A d \in Collectors \ {c} : worker'[d] = worker[d],
         Handle(c), WorkerOnly
  PROVE  SaveInv'
<1> SUFFICES ASSUME ~cut
             PROVE  OnlyCurrent' /\ SavedOrDue' /\ KnowsFile' /\ CopiesAgree' /\ FiredOnce'
  BY DEF SaveInv, WorkerOnly
<1> DEFINE q == queue[c]  x == Head(queue[c])
<1>1. q \in Seq(Items) /\ q # <<>>
  BY DEF Handle, TypeOK, Items
<1>2. /\ \A d \in Collectors : queue'[d] = IF d = c THEN Tail(q) ELSE queue[d]
      /\ UNCHANGED <<current, last, marked, fired, again, others, disputed>>
  BY DEF Handle, TypeOK, WorkerOnly, firsts, servers
<1>3. Occurs(Tail(q), Save) => Occurs(q, Save)
  BY <1>1, TailOnce
<1>4. x # Save => (Occurs(q, Save) => Occurs(Tail(q), Save))
  <2>1. /\ Len(q) \in Nat \ {0} /\ DOMAIN q = 1..Len(q) /\ DOMAIN Tail(q) = 1..(Len(q) - 1)
        /\ x = q[1] /\ \A i \in 1..(Len(q) - 1) : Tail(q)[i] = q[i + 1]
    BY <1>1
  <2>2. \A i \in DOMAIN q : i = 1 \/ (i - 1 \in DOMAIN Tail(q) /\ Tail(q)[i - 1] = q[i])
    BY <2>1
  <2> HIDE DEF q, x
  <2> QED
    BY <2>1, <2>2 DEF Occurs
<1>5. c = current
  BY DEF SaveInv, OnlyCurrent
<1>6. OnlyCurrent'
  BY <1>2, <1>3 DEF SaveInv, OnlyCurrent, Ended
<1>7. \/ x = Save /\ file' = marked[c] /\ unsaved' = unsaved
      \/ x = Save /\ file' = file /\ unsaved' = unsaved \cup (marked[c] \ file)
      \/ x # Save /\ UNCHANGED <<file, unsaved>>
  BY DEF Handle
<1> HIDE DEF x
<1>8. /\ current # None /\ marked[c] \in Copies /\ Copies' = Copies
      /\ file \ disputed \subseteq marked[c]
  BY <1>2, <1>5 DEF SaveInv, KnowsFile, Copies, TypeOK
<1>9. SavedOrDue'
  <2> SUFFICES ASSUME NEW m \in Settled', m \notin file'
               PROVE  m \in marked[c] /\ Occurs(Tail(q), Save)
    BY <1>2, <1>5, <1>8 DEF SavedOrDue, SaveIsDue
  <2>1. m \in Settled /\ m \notin disputed
    BY <1>2, <1>7 DEF Settled
  <2>2. m \in file \/ (m \in marked[c] /\ Occurs(q, Save))
    BY <1>5, <2>1 DEF SaveInv, SavedOrDue, SaveIsDue
  <2>3. m \notin file
    BY <1>7, <1>8, <2>1
  <2>4. x # Save
    BY <1>2, <1>7, <2>2, <2>3 DEF Settled
  <2> QED
    BY <1>4, <2>2, <2>3, <2>4
<1>10. KnowsFile'
  <2>1. file' = file \/ file' = marked[c]
    BY <1>7
  <2>2. \A copy \in Copies : marked[c] \ disputed \subseteq copy
    BY <1>8 DEF SaveInv, CopiesAgree
  <2> QED
    BY <1>2, <1>8, <2>1, <2>2 DEF SaveInv, KnowsFile
<1>11. CopiesAgree' /\ FiredOnce'
  BY <1>2, <1>7, <1>8 DEF SaveInv, CopiesAgree, FiredOnce
<1> QED
  BY <1>6, <1>9, <1>10, <1>11

LEMMA WorkerSave ==
  ASSUME TypeOK, LateInv, SaveInv, NEW c \in Collectors, WorkerSteps(c)
  PROVE  SaveInv'
<1>1. /\ worker[c] \notin {"unborn", "gone"} /\ worker'[c] # "unborn"
      /\ \A d \in Collectors \ {c} : worker'[d] = worker[d]
  <2>1. CASE Post(c)
    BY <2>1 DEF Post, WorkerMoves, TypeOK
  <2> QED
    BY <2>1, WorkerGoes
<1>2. CASE Handle(c) /\ (Get(c) \/ Drain(c))
  <2>1. worker[c] \in {"polling", "draining"} /\ worker'[c] \in {"polling", "draining"} /\ WorkerOnly
    BY <1>2, ResumedType DEF Get, Drain, WorkerMoves, TypeOK
  <2> QED
    BY <1>1, <1>2, <2>1, HandleSave
<1>3. CASE Get(c) /\ UNCHANGED <<buffers, file, client, arrived, unsaved>>
  <2>1. worker'[c] \in {"polling", "draining"}
    BY <1>3, ResumedType DEF Get, WorkerMoves, TypeOK
  <2>2. UNCHANGED <<current, file, marked, unsaved, firsts, servers, cut, queue, last>> /\ ~Ended(c)'
    BY <1>3, <2>1 DEF Get, WorkerOnly, buffers, Ended
  <2> QED
    BY <1>1, <2>2, WorkerSaveKept
<1>4. ASSUME NEW from, NEW final \in BOOLEAN, Flush(c, from, final), final => queue[c] = <<>>
      PROVE  SaveInv'
  <2>1. /\ UNCHANGED <<current, file, marked, unsaved, firsts, servers, cut, queue>>
        /\ \A d \in Collectors : last'[d] = IF d = c THEN final ELSE last[d]
    BY <1>4 DEF Flush, WorkerOnly, TypeOK
  <2>2. worker'[c] = "gone" => final
    BY <1>4, ResumedType DEF Flush, Proceeds, WorkerMoves, TypeOK
  <2>3. Ended(c)' => ~Occurs(queue[c], Save)
    BY <1>4, <2>1, <2>2 DEF Ended, Occurs
  <2> QED
    BY <1>1, <2>1, <2>3, WorkerSaveKept
<1>5. CASE Post(c)
  <2>1. UNCHANGED <<current, file, marked, unsaved, firsts, servers, cut, queue, last>>
    BY <1>5 DEF Post, WorkerOnly, buffers
  <2>2. Ended(c)' => Ended(c)
    BY <1>5, <2>1 DEF Ended, Post, WorkerMoves, TypeOK
  <2> QED
    BY <1>1, <2>1, <2>2, WorkerSaveKept
<1>6. ASSUME NEW from \in {"checking", "sending"}, NEW events, Proceeds(c, from, events, last[c]),
             WorkerOnly, UNCHANGED <<queue, last, file, unsaved>>
      PROVE  SaveInv'
  <2>1. UNCHANGED <<current, file, marked, unsaved, firsts, servers, cut, queue, last>>
    BY <1>6 DEF WorkerOnly
  <2>2. /\ worker[c] \in {"checking", "sending"}
        /\ worker'[c] \in {"checking", "draining", "polling"} \/ last[c]
    <3>1. /\ worker[c] = from
          /\ worker' = [worker EXCEPT ![c] = IF events # <<>> THEN "checking"
                                             ELSE IF last[c] THEN "gone" ELSE Resumed(c)]
      BY <1>6 DEF Proceeds, WorkerMoves
    <3> QED
      BY <1>6, <3>1, ResumedType DEF TypeOK
  <2>3. Ended(c)' => Ended(c)
    BY <2>1, <2>2 DEF Ended
  <2> QED
    BY <1>1, <2>1, <2>3, WorkerSaveKept
<1>7. CASE Withheld(c) \/ Posted(c)
  BY <1>6, <1>7 DEF Withheld, Posted
<1> QED
  BY <1>2, <1>3, <1>4, <1>5, <1>7 DEF WorkerSteps, Get, Drain, FlushDue, LastFlush, Drained

\* What another server records was not settled, and what it saves is all that
\* is settled.
LEMMA OtherSave == TypeOK /\ SaveInv /\ OtherSteps => SaveInv'
<1> SUFFICES ASSUME TypeOK, SaveInv, OtherSteps, ~cut, ~cut' PROVE SaveInv'
  <2>1. OtherSteps /\ cut => cut'
    BY DEF OtherSteps, OtherStarts, OtherMarks, OtherEnds
  <2> QED
    BY <2>1 DEF SaveInv
<1>0. UNCHANGED <<current, worker, marked, queue, last>>
  BY OthersApart DEF Here, threads, buffers
<1>1. OnlyCurrent'
  BY <1>0 DEF SaveInv, OnlyCurrent, Ended
<1>2. CASE OtherStarts
  <2>1. CopiesAgree' /\ disputed \subseteq disputed'
    BY <1>2, AgreeAfter DEF OtherStarts
  <2>2. UNCHANGED <<file, fired, again, unsaved>> /\ others' = others \cup {file}
    BY <1>2 DEF OtherStarts, Loaded, firsts
  <2>3. SavedOrDue'
    BY <1>0, <2>1, <2>2 DEF SaveInv, SavedOrDue, SaveIsDue, Settled
  <2>4. KnowsFile' /\ FiredOnce'
    BY <1>0, <2>1, <2>2 DEF SaveInv, KnowsFile, Copies, FiredOnce
  <2> QED
    BY <1>1, <2>1, <2>3, <2>4 DEF SaveInv
<1>3. ASSUME NEW copy \in others, OtherEnds(copy) PROVE SaveInv'
  <2>1. UNCHANGED <<file, fired, again, unsaved, disputed>> /\ others' \subseteq others
    BY <1>3 DEF OtherEnds, firsts
  <2>2. SavedOrDue'
    BY <1>0, <2>1 DEF SaveInv, SavedOrDue, SaveIsDue, Settled
  <2>3. KnowsFile' /\ CopiesAgree' /\ FiredOnce'
    BY <1>0, <2>1 DEF SaveInv, KnowsFile, CopiesAgree, Copies, FiredOnce
  <2> QED
    BY <1>1, <2>2, <2>3 DEF SaveInv
<1>4. ASSUME NEW copy \in others, NEW m \in Milestones, OtherMarks(copy, m) PROVE SaveInv'
  <2>1. CopiesAgree' /\ disputed \subseteq disputed'
    BY <1>4, AgreeAfter DEF OtherMarks
  <2>2. /\ \/ file' = copy \cup {m} /\ unsaved' = unsaved
           \/ file' = file /\ unsaved' = unsaved \cup {m}
        /\ fired' = fired \cup {m} /\ again' = again \cup ({m} \cap fired)
    BY <1>4 DEF OtherMarks, Fires
  <2>3. copy \cup {m} \in Copies' /\ copy \in Copies /\ m \notin copy
    BY <1>4 DEF OtherMarks, Copies
  <2>4. file \ disputed \subseteq copy
    BY <2>3 DEF SaveInv, KnowsFile
  <2>5. m \notin Settled
    <3>1. SaveIsDue => marked[current] \ copy \subseteq disputed
      BY <2>3 DEF SaveInv, CopiesAgree, Copies, SaveIsDue
    <3> QED
      BY <2>3, <2>4, <3>1 DEF SaveInv, SavedOrDue, Settled
  <2>6. SavedOrDue'
    <3> SUFFICES ASSUME NEW n \in Settled', n \notin file'
                 PROVE  SaveIsDue /\ n \in marked[current]
      BY <1>0 DEF SavedOrDue, SaveIsDue
    <3>1. n \in Settled
      BY <2>1, <2>2 DEF Settled
    <3> QED
      BY <2>2, <2>4, <3>1 DEF SaveInv, SavedOrDue, Settled
  <2>7. KnowsFile'
    <3> SUFFICES ASSUME NEW other \in Copies' PROVE file' \ disputed' \subseteq other
      BY DEF KnowsFile
    <3>1. (copy \cup {m}) \ disputed' \subseteq other
      BY <2>1, <2>3 DEF CopiesAgree
    <3> QED
      BY <2>1, <2>2, <2>4, <3>1
  <2>8. FiredOnce'
    BY <2>1, <2>2, <2>5 DEF SaveInv, FiredOnce, Settled
  <2> QED
    BY <1>1, <2>1, <2>6, <2>7, <2>8 DEF SaveInv
<1> QED
  BY <1>2, <1>3, <1>4 DEF OtherSteps

LEMMA NextSave == TypeOK /\ LateInv /\ SaveInv /\ [Next]_vars => SaveInv'
<1>1. TypeOK /\ SaveInv /\ UNCHANGED vars => SaveInv'
  BY SaveKept DEF vars, threads, buffers, history
<1> QED
  BY <1>1, LoopSave, WorkerSave, OtherSave DEF Next, LoopSteps

\* A milestone is recorded once, by this server and the others, unless it
\* could not be saved, a worker was not let live to save it, or two servers
\* that ran at once did not agree on it.
THEOREM MilestonesOnce == Spec => []MilestoneOnce
<1>1. SaveInv => MilestoneOnce
  BY DEF SaveInv, FiredOnce, MilestoneOnce
<1> QED
  BY <1>1, InitSave, NextSave, InitLate, NextLate, TypesHold, PTL DEF Spec

=============================================================================
