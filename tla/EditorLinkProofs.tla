--------------------------- MODULE EditorLinkProofs ---------------------------
(***************************************************************************)
(* For any commands, sockets and caps: the types of the editor's channel,  *)
(* and all of its safety properties.                                       *)
(***************************************************************************)
EXTENDS EditorLink, SequenceTheorems, TLAPS

USE LinkAssumption DEF Pumping

\* What the socket, the poll and the lifecycle owner do.
LinkSteps ==
  SocketStep \/ PollStep \/ Revoke \/ Authorize \/ ReloadTimesOut \/ ReloadToggles

LEMMA StepCases ==
  ASSUME Next
  PROVE  \/ LinkSteps
         \/ \E late \in SUBSET deferred : Frame(late)
         \/ Dispatch \/ HandlerReturns \/ EndTick
         \/ HandlerPauses \/ HandlerResumes \/ ServiceTransport
         \/ \E c \in Commands : DeferredReply(c)
  BY DEF Next, LinkSteps, TickStep, HandlerStep

-----------------------------------------------------------------------------
(* What the steps do to the queue and the packets.                         *)

\* Draining moves a prefix of the packets to the end of the queue.
LEMMA DrainMoves ==
  ASSUME TypeOK, Drain
  PROVE  /\ queue' \in Seq(Commands) /\ inbox' \in Seq(Commands)
         /\ \E n \in 0..Len(inbox) :
              /\ Len(queue') = Len(queue) + n /\ Len(inbox') = Len(inbox) - n
              /\ \A i \in 1..Len(queue) : queue'[i] = queue[i]
              /\ \A i \in 1..n : queue'[Len(queue) + i] = inbox[i]
              /\ \A i \in 1..(Len(inbox) - n) : inbox'[i] = inbox[n + i]
<1> DEFINE n == Lesser(Len(inbox), DrainCap)
           head == SubSeq(inbox, 1, n)
<1>1. /\ inbox \in Seq(Commands) /\ queue \in Seq(Commands)
      /\ Len(inbox) \in Nat /\ Len(queue) \in Nat
  BY LenProperties DEF TypeOK
<1>2. n \in 0..Len(inbox)
  BY <1>1 DEF Lesser
<1>3. \A i \in 1..Len(inbox) : inbox[i] \in Commands
  BY <1>1, ElementOfSeq
<1>4. /\ head \in Seq(Commands) /\ Len(head) = n
      /\ \A i \in 1..n : head[i] = inbox[i]
  <2> HIDE DEF n
  <2>1. \A i \in 1..n : inbox[i] \in Commands
    BY <1>1, <1>2, <1>3
  <2> QED
    BY <1>1, <1>2, <2>1, SubSeqProperties
<1>5. /\ inbox' \in Seq(Commands) /\ Len(inbox') = Len(inbox) - n
      /\ \A i \in 1..(Len(inbox) - n) : inbox'[i] = inbox[n + i]
  <2>1. inbox' = SubSeq(inbox, n + 1, Len(inbox))
    BY DEF Drain
  <2> HIDE DEF n
  <2>2. \A i \in (n + 1)..Len(inbox) : inbox[i] \in Commands
    BY <1>1, <1>2, <1>3
  <2>3. /\ inbox' \in Seq(Commands)
        /\ Len(inbox') = IF n + 1 <= Len(inbox) THEN Len(inbox) - (n + 1) + 1 ELSE 0
        /\ \A i \in 1..(Len(inbox) - (n + 1) + 1) : inbox'[i] = inbox[(n + 1) + i - 1]
    BY <1>1, <1>2, <2>1, <2>2, SubSeqProperties
  <2> QED
    BY <1>1, <1>2, <2>3
<1>6. queue' = queue \o head
  BY DEF Drain
<1> HIDE DEF n, head
<1>7. /\ queue' \in Seq(Commands) /\ Len(queue') = Len(queue) + n
      /\ \A i \in 1..(Len(queue) + n) :
           queue'[i] = IF i <= Len(queue) THEN queue[i] ELSE head[i - Len(queue)]
  <2>1. /\ queue \o head \in Seq(Commands) /\ Len(queue \o head) = Len(queue) + Len(head)
        /\ \A i \in 1..(Len(queue) + Len(head)) :
             (queue \o head)[i] = IF i <= Len(queue) THEN queue[i] ELSE head[i - Len(queue)]
    BY <1>1, <1>4, ConcatProperties
  <2> QED
    BY <1>4, <1>6, <2>1
<1>8. \A i \in 1..n : queue'[Len(queue) + i] = inbox[i]
  BY <1>1, <1>2, <1>4, <1>7
<1>9. \A i \in 1..Len(queue) : queue'[i] = queue[i]
  BY <1>1, <1>2, <1>7
<1> QED
  BY <1>2, <1>5, <1>7, <1>8, <1>9

\* The end of a tick takes away what is not past its index.
LEMMA EndTickSlices ==
  ASSUME TypeOK, EndTick
  PROVE  /\ queue' \in Seq(Commands)
         /\ Len(queue') = IF idx < Len(queue) THEN Len(queue) - idx ELSE 0
         /\ \A i \in 1..Len(queue') : idx + i \in 1..Len(queue) /\ queue'[i] = queue[idx + i]
<1>1. queue \in Seq(Commands) /\ Len(queue) \in Nat /\ idx \in Nat
  BY LenProperties DEF TypeOK
<1>2. \A i \in (idx + 1)..Len(queue) : queue[i] \in Commands
  BY <1>1, ElementOfSeq
<1>3. queue' = SubSeq(queue, idx + 1, Len(queue))
  BY DEF EndTick
<1>4. /\ queue' \in Seq(Commands)
      /\ Len(queue') = IF idx + 1 <= Len(queue) THEN Len(queue) - (idx + 1) + 1 ELSE 0
      /\ \A i \in 1..(Len(queue) - (idx + 1) + 1) : queue'[i] = queue[(idx + 1) + i - 1]
  BY <1>1, <1>2, <1>3, SubSeqProperties
<1> QED
  BY <1>1, <1>4

LEMMA Appended ==
  ASSUME NEW s \in Seq(Commands), NEW c \in Commands
  PROVE  /\ Append(s, c) \in Seq(Commands) /\ Len(Append(s, c)) = Len(s) + 1
         /\ \A i \in 1..Len(s) : Append(s, c)[i] = s[i]
         /\ Append(s, c)[Len(s) + 1] = c
  OBVIOUS

\* What a test run may still reject is counted up to the cap.
LEMMA Rejectable ==
  ASSUME TypeOK
  PROVE  /\ Len(inbox) \in Nat
         /\ Lesser(Len(inbox), FloodCap - serviced) \in 0..Len(inbox)
         /\ serviced + Lesser(Len(inbox), FloodCap - serviced) \in 0..FloodCap
<1>1. Len(inbox) \in Nat
  BY LenProperties DEF TypeOK
<1>2. FloodCap \in Nat /\ serviced \in 0..FloodCap
  BY LinkAssumption DEF TypeOK
<1> QED
  BY <1>1, <1>2 DEF Lesser

\* Replies raise the count of some of those they answer.
LEMMA SendCounts ==
  ASSUME TypeOK, NEW replies \in SUBSET Commands, Send(replies)
  PROVE  /\ answers' \in [Commands -> Nat] /\ dropped' \in SUBSET Commands
         /\ dropped \subseteq dropped'
         /\ \A c \in Commands :
              /\ c \notin replies => answers'[c] = answers[c]
              /\ c \in replies => answers'[c] \in {answers[c], answers[c] + 1}
              /\ c \in replies => answers'[c] > answers[c] \/ c \in dropped'
  BY DEF Send, TypeOK

\* A step of the link leaves ticks, handlers and replies alone; it keeps the
\* queue and the deferred requests, or clears both and cuts loose what the tick
\* holds; packets only go, unless the server sends one.
LEMMA LinkFrame ==
  ASSUME LinkSteps
  PROVE  /\ UNCHANGED <<tickVars, replyVars, pauseDepth, working, started, busy>>
         /\ \/ UNCHANGED <<queue, deferred, adrift>>
            \/ queue' = <<>> /\ deferred' = {} /\ stage' = "offline" /\ CutLoose
         /\ \/ \E c \in Commands : ServerSends(c)
            \/ UNCHANGED <<home, order>> /\ inbox' \in {inbox, <<>>}
  BY DEF LinkSteps, SocketStep, PollStep, SocketOpens, SocketCloses, ServerSends, Greet,
         Authenticated, FailHandshake, ObserveClosed, Reconnect, Revoke, Authorize,
         ReloadTimesOut, ReloadToggles, Replace, Dial, ClearOnDisconnect, linkVars,
         tickVars, sentVars, replyVars

-----------------------------------------------------------------------------
(* Typing.                                                                 *)

LEMMA InitType == Init => TypeOK
<1> SUFFICES ASSUME Init PROVE TypeOK
  OBVIOUS
<1>1. inbox \in Seq(Commands) /\ queue \in Seq(Commands) /\ order \in Seq(Commands)
  BY EmptySeq DEF Init
<1>2. home \in [Commands -> 0..MaxLinks] /\ started \in [Commands -> Nat]
      /\ answers \in [Commands -> Nat]
  BY DEF Init
<1>3. gen \in 0..MaxLinks /\ serviced \in 0..FloodCap
  BY DEF Init
<1> QED
  BY <1>1, <1>2, <1>3 DEF Init, TypeOK

LEMMA DialType ==
  ASSUME TypeOK, Dial
  PROVE  gen' \in 0..MaxLinks /\ nested' \subseteq 1..MaxLinks /\ peer' = "connecting"
         /\ inbox' = <<>>
  BY DEF TypeOK, Dial, Replace

LEMMA LinkType ==
  ASSUME TypeOK, LinkSteps
  PROVE  TypeOK'
<1>0. <<>> \in Seq(Commands)
  BY EmptySeq
<1>1. /\ queue' \in Seq(Commands) /\ deferred' \subseteq Commands
      /\ adrift' \subseteq Commands
      /\ UNCHANGED <<tickVars, replyVars, pauseDepth, working, started, busy>>
  BY <1>0, LinkFrame DEF TypeOK, CutLoose
<1>2. inbox' \in Seq(Commands) /\ home' \in [Commands -> 0..MaxLinks] /\ order' \in Seq(Commands)
  <2>1. ASSUME NEW c \in Commands, ServerSends(c) PROVE <1>2
    BY <2>1, Appended DEF ServerSends, TypeOK
  <2> QED
    BY <1>0, <2>1, LinkFrame DEF TypeOK
<1>3. /\ gen' \in 0..MaxLinks /\ nested' \subseteq 1..MaxLinks
      /\ peer' \in {"connecting", "open", "closing", "closed"}
      /\ stage' \in {"offline", "greeting", "live"}
      /\ blocked' \in BOOLEAN /\ reload' \in BOOLEAN
  BY DialType DEF TypeOK, LinkSteps, SocketStep, PollStep, SocketOpens, SocketCloses, ServerSends,
         Greet, Authenticated, FailHandshake, ObserveClosed, Reconnect, Revoke, Authorize,
         ReloadTimesOut, ReloadToggles, Replace, ClearOnDisconnect, linkVars
<1> QED
  BY <1>1, <1>2, <1>3 DEF TypeOK, tickVars, replyVars

LEMMA TickType ==
  ASSUME TypeOK, \/ \E late \in SUBSET deferred : Frame(late)
                 \/ Dispatch \/ HandlerReturns \/ EndTick
  PROVE  TypeOK'
<1>1. ASSUME NEW late \in SUBSET deferred, Frame(late) PROVE TypeOK'
  <2>1. queue' \in Seq(Commands) /\ inbox' \in Seq(Commands)
    BY <1>1, DrainMoves DEF Frame
  <2>2. /\ tickActive' \in BOOLEAN /\ idx' \in Nat /\ outbox' \subseteq Commands
        /\ running' \in Commands \cup {NoCommand} /\ deferred' \subseteq Commands
        /\ UNCHANGED <<depthBefore, serviced>>
    <3>1. CASE BeginTick(late)
      BY <3>1 DEF BeginTick, TypeOK
    <3>2. CASE UNCHANGED <<tickVars, deferred>>
      BY <3>2 DEF TypeOK, tickVars
    <3> QED
      BY <1>1, <3>1, <3>2 DEF Frame
  <2> QED
    BY <1>1, <2>1, <2>2 DEF Frame, TypeOK, sentVars, replyVars
<1>2. CASE Dispatch
  <2>1. queue[idx + 1] \in Commands
    BY <1>2, ElementOfSeq, LenProperties DEF Dispatch, TypeOK
  <2>2. started' \in [Commands -> Nat] /\ running' \in Commands
    <3>1. started' = [started EXCEPT ![queue[idx + 1]] = @ + 1] /\ running' = queue[idx + 1]
      BY <1>2 DEF Dispatch
    <3>2. started \in [Commands -> Nat]
      BY DEF TypeOK
    <3>3. started[queue[idx + 1]] + 1 \in Nat
      BY <2>1, <3>2
    <3> QED
      BY <2>1, <3>1, <3>2, <3>3
  <2>3. depthBefore' \in Nat /\ serviced' \in 0..FloodCap
    BY <1>2 DEF Dispatch, TypeOK
  <2> QED
    BY <1>2, <2>2, <2>3 DEF Dispatch, TypeOK, linkVars, sentVars, replyVars
<1>3. CASE HandlerReturns
  <2>1. pauseDepth' \in Nat
    BY <1>3 DEF HandlerReturns, Restored, Lesser, TypeOK
  <2>2. /\ deferred' \subseteq Commands /\ working' \subseteq Deferring
        /\ outbox' \subseteq Commands /\ reload' \in BOOLEAN
    BY <1>3 DEF HandlerReturns, TypeOK
  <2> QED
    BY <1>3, <2>1, <2>2 DEF HandlerReturns, TypeOK, linkVars, sentVars, replyVars
<1>4. CASE EndTick
  <2>1. Send(outbox) /\ outbox \in SUBSET Commands
    BY <1>4 DEF EndTick, TypeOK
  <2>2. answers' \in [Commands -> Nat] /\ dropped' \in SUBSET Commands
    BY <2>1, SendCounts
  <2> QED
    BY <1>4, <2>2, EndTickSlices DEF EndTick, TypeOK, linkVars, sentVars
<1> QED
  BY <1>1, <1>2, <1>3, <1>4

LEMMA HandlerType ==
  ASSUME TypeOK, \/ HandlerPauses \/ HandlerResumes \/ ServiceTransport
                 \/ \E c \in Commands : DeferredReply(c)
  PROVE  TypeOK'
<1>1. CASE HandlerPauses
  BY <1>1 DEF HandlerPauses, TypeOK, linkVars, tickVars, sentVars, replyVars
<1>2. CASE HandlerResumes
  BY <1>2 DEF HandlerResumes, TypeOK, linkVars, tickVars, sentVars, replyVars
<1>3. CASE ServiceTransport
  <2> DEFINE n == Lesser(Len(inbox), FloodCap - serviced)
             rejected == {inbox[i] : i \in 1..n}
  <2>1. n \in 0..Len(inbox) /\ serviced + n \in 0..FloodCap
    BY Rejectable DEF Lesser
  <2>2. rejected \in SUBSET Commands
    <3>1. inbox \in Seq(Commands) /\ Len(inbox) \in Nat
      BY LenProperties DEF TypeOK
    <3> HIDE DEF n
    <3>2. \A i \in 1..n : inbox[i] \in Commands
      BY <2>1, <3>1, ElementOfSeq
    <3> QED
      BY <3>2
  <2>3. Send(rejected) /\ serviced' = serviced + n /\ busy' = busy \cup rejected
        /\ inbox' = <<>> /\ peer' \in {"closing", "open"}
    BY <1>3 DEF ServiceTransport, Replace
  <2> HIDE DEF n, rejected
  <2>4. answers' \in [Commands -> Nat] /\ dropped' \in SUBSET Commands
    BY <2>2, <2>3, SendCounts
  <2>5. inbox' \in Seq(Commands)
    BY <2>3, EmptySeq
  <2> QED
    BY <1>3, <2>1, <2>2, <2>3, <2>4, <2>5 DEF ServiceTransport, TypeOK, sentVars
<1>4. ASSUME NEW c \in Commands, DeferredReply(c) PROVE TypeOK'
  <2>1. answers' \in [Commands -> Nat] /\ deferred' \subseteq Commands
    <3>1. answers \in [Commands -> Nat] /\ answers[c] + 1 \in Nat
      BY DEF TypeOK
    <3>2. [answers EXCEPT ![c] = @ + 1] \in [Commands -> Nat]
      BY <3>1
    <3> QED
      BY <1>4, <3>1, <3>2 DEF DeferredReply, TypeOK
  <2>2. working' \subseteq Deferring
    BY <1>4 DEF DeferredReply, TypeOK
  <2> QED
    BY <1>4, <2>1, <2>2 DEF DeferredReply, TypeOK, linkVars, tickVars, sentVars
<1> QED
  BY <1>1, <1>2, <1>3, <1>4

LEMMA StepType == TypeOK /\ [Next]_vars => TypeOK'
<1>1. ASSUME TypeOK, UNCHANGED vars PROVE TypeOK'
  BY <1>1 DEF TypeOK, vars, linkVars, tickVars, sentVars, replyVars
<1> QED
  BY <1>1, StepCases, LinkType, TickType, HandlerType

\* Every variable keeps its type: a pause depth that is resumed too often or
\* an index past the queue is impossible.
THEOREM TypeCorrect == Spec => []TypeOK
  BY InitType, StepType, PTL DEF Spec

-----------------------------------------------------------------------------
(* Ticks and pauses.                                                       *)

\* Between ticks nothing runs, is counted or waits to be sent; a handler is
\* called with the transport unpaused, and nothing else leaves it paused.
TickInv ==
  /\ ~tickActive => idx = 0 /\ running = NoCommand /\ outbox = {}
  /\ IF running = NoCommand THEN pauseDepth = 0 ELSE depthBefore = 0

LEMMA InitTick == Init => TickInv
  BY DEF Init, TickInv

LEMMA StepTick == TypeOK /\ TickInv /\ [Next]_vars => TickInv'
<1> SUFFICES ASSUME TypeOK, TickInv, [Next]_vars PROVE TickInv'
  OBVIOUS
<1>1. CASE UNCHANGED vars
  BY <1>1 DEF TickInv, vars, tickVars
<1>2. CASE LinkSteps
  BY <1>2, LinkFrame DEF TickInv, tickVars
<1>3. ASSUME NEW late \in SUBSET deferred, Frame(late) PROVE TickInv'
  <2>1. CASE TickFree /\ BeginTick(late)
    BY <1>3, <2>1 DEF Frame, TickFree, BeginTick, TickInv
  <2>2. CASE UNCHANGED <<tickVars, deferred>>
    BY <1>3, <2>2 DEF Frame, TickInv, tickVars
  <2> QED
    BY <1>3, <2>1, <2>2 DEF Frame
<1>4. CASE Dispatch
  <2>1. running' \in Commands
    BY <1>4, ElementOfSeq, LenProperties DEF Dispatch, TypeOK
  <2> QED
    BY <1>4, <2>1 DEF Dispatch, TickInv
<1>5. CASE HandlerReturns
  <2>1. tickActive /\ depthBefore = 0 /\ pauseDepth \in Nat
    BY <1>5 DEF HandlerReturns, TickInv, TypeOK
  <2>2. pauseDepth' = 0
    BY <1>5, <2>1 DEF HandlerReturns, Restored, Lesser
  <2> QED
    BY <1>5, <2>1, <2>2 DEF HandlerReturns, TickInv
<1>6. CASE EndTick
  BY <1>6 DEF EndTick, TickInv
<1>7. CASE HandlerPauses \/ HandlerResumes
  BY <1>7 DEF HandlerPauses, HandlerResumes, TickInv, tickVars
<1>8. CASE ServiceTransport
  BY <1>8 DEF ServiceTransport, TickInv
<1>9. ASSUME NEW c \in Commands, DeferredReply(c) PROVE TickInv'
  BY <1>9 DEF DeferredReply, TickInv, tickVars
<1> QED
  BY <1>1, <1>2, <1>3, <1>4, <1>5, <1>6, <1>7, <1>8, <1>9, StepCases

\* The transport is never left paused (PauseEndsWithTick), however many
\* handlers pause, nest and crash.
THEOREM PausesEnd == Spec => []PauseEndsWithTick
<1>1. TypeOK /\ TickInv => PauseEndsWithTick
  BY DEF TickInv, PauseEndsWithTick
<1> QED
  BY <1>1, InitType, InitTick, StepType, StepTick, PTL DEF Spec

-----------------------------------------------------------------------------
(* The socket, the queue and the sockets that commands came on.            *)

Channel ==
  /\ gen = 0 => peer = "closed" /\ stage = "offline"
  /\ stage # "live" => queue = <<>>
  /\ blocked \/ peer = "connecting" => stage = "offline"

\* The packets and the queue are the socket's; what runs, is collected or is
\* deferred is too, or is adrift, as all of it is once the channel is cleared.
InHand == deferred \cup outbox \cup ({running} \cap Commands)

Homes ==
  /\ \A c \in Commands : home[c] <= gen
  /\ \A i \in 1..Len(queue) : home[queue[i]] = gen
  /\ \A i \in 1..Len(inbox) : home[inbox[i]] = gen
  /\ \A c \in InHand : home[c] = gen \/ c \in adrift
  /\ stage # "live" => InHand \subseteq adrift
  /\ \A c \in adrift : home[c] # 0
  /\ gen = 0 => queue = <<>> /\ inbox = <<>> /\ InHand = {}

LinkInv == TypeOK /\ TickInv /\ Channel /\ Homes

LEMMA InitLink == Init => Channel /\ Homes
<1> SUFFICES ASSUME Init PROVE Channel /\ Homes
  OBVIOUS
<1>1. Len(queue) = 0 /\ Len(inbox) = 0 /\ InHand = {}
  BY EmptySeq DEF Init, InHand
<1> QED
  BY <1>1 DEF Init, Channel, Homes

LEMMA StepChannel == LinkInv /\ [Next]_vars => Channel'
<1> SUFFICES ASSUME LinkInv, [Next]_vars PROVE Channel'
  OBVIOUS
<1> USE DEF LinkInv
<1>1. CASE UNCHANGED vars
  BY <1>1 DEF Channel, vars, linkVars, tickVars
<1>2. CASE LinkSteps
  <2>1. UNCHANGED running
    BY <1>2, LinkFrame DEF tickVars
  <2>3. CASE SocketStep
    BY <2>1, <2>3 DEF SocketStep, SocketOpens, SocketCloses, ServerSends, Replace, Channel
  <2>4. CASE PollStep
    BY <2>1, <2>4 DEF PollStep, Greet, Authenticated, FailHandshake, ObserveClosed, Reconnect,
       CanProcess, InMainLoop, Replace, Dial, ClearOnDisconnect, Channel, TypeOK, linkVars
  <2>5. CASE Revoke \/ Authorize
    BY <2>1, <2>5 DEF Revoke, Authorize, InMainLoop, Replace, Dial, ClearOnDisconnect,
       Channel, TypeOK
  <2>6. CASE ReloadTimesOut \/ ReloadToggles
    BY <2>1, <2>6 DEF ReloadTimesOut, ReloadToggles, Replace, ClearOnDisconnect, Channel,
       linkVars
  <2> QED
    BY <1>2, <2>3, <2>4, <2>5, <2>6 DEF LinkSteps
<1>3. ASSUME NEW late \in SUBSET deferred, Frame(late) PROVE Channel'
  BY <1>3 DEF Frame, Channel
<1>4. CASE Dispatch
  <2>1. queue # <<>>
    BY <1>4, EmptySeq DEF Dispatch, TypeOK
  <2> QED
    BY <1>4, <2>1 DEF Dispatch, Channel, linkVars
<1>5. CASE HandlerReturns
  BY <1>5 DEF HandlerReturns, Channel, linkVars
<1>6. CASE EndTick
  <2>1. ASSUME queue = <<>> PROVE queue' = <<>>
    <3>1. Len(queue') = 0 /\ queue' \in Seq(Commands)
      BY <1>6, <2>1, EmptySeq, EndTickSlices DEF TypeOK
    <3> QED
      BY <3>1, EmptySeq
  <2> QED
    BY <1>6, <2>1 DEF EndTick, Channel, linkVars
<1>7. CASE HandlerPauses \/ HandlerResumes
  BY <1>7 DEF HandlerPauses, HandlerResumes, Channel, linkVars, tickVars
<1>8. CASE ServiceTransport
  BY <1>8 DEF ServiceTransport, Replace, Channel
<1>9. ASSUME NEW c \in Commands, DeferredReply(c) PROVE Channel'
  BY <1>9 DEF DeferredReply, Channel, linkVars, tickVars
<1> QED
  BY <1>1, <1>2, <1>3, <1>4, <1>5, <1>6, <1>7, <1>8, <1>9, StepCases

\* A new socket starts with no command on any list; what is in hand is adrift.
LEMMA DialHomes ==
  ASSUME LinkInv, Reconnect \/ Authorize
  PROVE  Homes'
<1>1. stage = "offline"
  BY DEF Reconnect, Authorize, CanProcess, LinkInv, Channel
<1>2. queue = <<>> /\ InHand \subseteq adrift
  BY <1>1 DEF LinkInv, Channel, Homes
<1>3. /\ gen' = gen + 1 /\ inbox' = <<>>
      /\ UNCHANGED <<home, adrift, queue, deferred, outbox, running>>
  BY DEF Reconnect, Authorize, Dial, Replace, tickVars, sentVars
<1>4. Len(queue') = 0 /\ Len(inbox') = 0 /\ InHand' \subseteq adrift'
  BY <1>2, <1>3, EmptySeq DEF InHand
<1>5. \A c \in Commands : home[c] <= gen /\ home[c] \in Nat /\ gen \in Nat
  <2>1. home \in [Commands -> 0..MaxLinks] /\ gen \in Nat
    BY DEF LinkInv, TypeOK
  <2>2. \A c \in Commands : home[c] \in Nat
    BY <2>1
  <2>3. \A c \in Commands : home[c] <= gen
    BY DEF LinkInv, Homes
  <2> QED
    BY <2>1, <2>2, <2>3
<1>6. gen \in Nat /\ \A c \in adrift : home[c] # 0
  BY DEF LinkInv, TypeOK, Homes
<1> QED
  BY <1>3, <1>4, <1>5, <1>6 DEF Homes

LEMMA StepHomes == LinkInv /\ [Next]_vars => Homes'
<1> SUFFICES ASSUME LinkInv, [Next]_vars PROVE Homes'
  OBVIOUS
<1> USE DEF LinkInv
<1>0. <<>> \in Seq(Commands) /\ Len(<<>>) = 0
  BY EmptySeq
<1>1. CASE UNCHANGED vars
  BY <1>1 DEF Homes, InHand, vars, linkVars, tickVars, sentVars
<1>2. CASE LinkSteps
  <2>1. CASE Reconnect \/ Authorize
    BY <2>1, DialHomes
  <2>2. ASSUME NEW c \in Commands, ServerSends(c) PROVE Homes'
    <3>1. /\ gen' = gen /\ gen # 0 /\ home' = [home EXCEPT ![c] = gen]
          /\ inbox' = Append(inbox, c)
          /\ UNCHANGED <<queue, deferred, running, outbox, adrift, stage>>
      BY <2>2 DEF ServerSends, Channel, tickVars
    <3>2. \A d \in Commands : home'[d] = IF d = c THEN gen ELSE home[d]
      BY <3>1 DEF TypeOK
    <3>3. \A i \in 1..Len(inbox') : home'[inbox'[i]] = gen
      <4>1. inbox \in Seq(Commands) /\ Len(inbox) \in Nat
        BY LenProperties DEF TypeOK
      <4>2. \A i \in 1..Len(inbox) : inbox[i] \in Commands
        BY <4>1, ElementOfSeq
      <4> QED
        BY <3>1, <3>2, <4>1, <4>2, Appended DEF Homes
    <3>4. \A i \in 1..Len(queue) : queue[i] \in Commands
      BY ElementOfSeq DEF TypeOK
    <3>5. \A i \in 1..Len(queue') : home'[queue'[i]] = gen
      BY <3>1, <3>2, <3>4 DEF Homes
    <3>6. InHand \subseteq Commands /\ InHand' = InHand /\ gen <= gen
      BY <3>1 DEF TypeOK, InHand
    <3> QED
      BY <3>1, <3>2, <3>3, <3>5, <3>6 DEF Homes
  <2>3. ASSUME ~(Reconnect \/ Authorize), ~(\E c \in Commands : ServerSends(c)) PROVE Homes'
    <3>1. UNCHANGED gen
      BY <1>2, <2>3 DEF LinkSteps, SocketStep, PollStep, SocketOpens, SocketCloses, Greet,
         Authenticated, FailHandshake, ObserveClosed, Revoke, ReloadTimesOut, ReloadToggles, linkVars
    <3>2. /\ UNCHANGED <<home, running, outbox>> /\ inbox' \in {inbox, <<>>}
          /\ \/ UNCHANGED <<queue, deferred, adrift>>
             \/ queue' = <<>> /\ deferred' = {} /\ stage' = "offline" /\ CutLoose
      BY <1>2, <2>3, LinkFrame DEF tickVars
    <3>4. CASE queue' = <<>> /\ deferred' = {} /\ stage' = "offline" /\ CutLoose
      <4>1. /\ InHand' \subseteq InHand /\ InHand' \subseteq adrift'
            /\ adrift' \subseteq adrift \cup InHand
        BY <3>2, <3>4 DEF InHand, CutLoose
      <4>2. \A c \in adrift' : home[c] # 0
        BY <4>1 DEF Homes
      <4> QED
        BY <1>0, <3>1, <3>2, <3>4, <4>1, <4>2 DEF Homes
    <3>5. CASE UNCHANGED <<queue, deferred, adrift>>
      <4>1. InHand' = InHand
        BY <3>2, <3>5 DEF InHand
      <4>2. stage = "live" => stage' = "live" \/ InHand \subseteq adrift
        BY <1>2, <3>5 DEF LinkSteps, SocketStep, PollStep, SocketOpens, SocketCloses, ServerSends,
           Greet, Authenticated, FailHandshake, ObserveClosed, Reconnect, Revoke, Authorize,
           ReloadTimesOut, ReloadToggles, ClearOnDisconnect, CutLoose, InHand
      <4> QED
        BY <1>0, <3>1, <3>2, <3>5, <4>1, <4>2 DEF Homes
    <3> QED
      BY <3>2, <3>4, <3>5
  <2> QED
    BY <2>1, <2>2, <2>3
<1>3. ASSUME NEW late \in SUBSET deferred, Frame(late) PROVE Homes'
  <2>1. PICK n \in 0..Len(inbox) :
          /\ Len(queue') = Len(queue) + n /\ Len(inbox') = Len(inbox) - n
          /\ \A i \in 1..Len(queue) : queue'[i] = queue[i]
          /\ \A i \in 1..n : queue'[Len(queue) + i] = inbox[i]
          /\ \A i \in 1..(Len(inbox) - n) : inbox'[i] = inbox[n + i]
    BY <1>3, DrainMoves DEF Frame
  <2>2. /\ UNCHANGED <<gen, home, adrift, stage>> /\ gen # 0 /\ stage = "live"
        /\ InHand' \subseteq InHand
    BY <1>3 DEF Frame, BeginTick, tickVars, sentVars, Channel, InHand
  <2>3. Len(queue) \in Nat /\ Len(inbox) \in Nat
    BY LenProperties DEF TypeOK
  <2>4. \A i \in 1..Len(queue') :
          i \in 1..Len(queue) \/ (i - Len(queue) \in 1..n /\ i = Len(queue) + (i - Len(queue)))
    BY <2>1, <2>3
  <2>5. \A i \in 1..Len(queue') : home[queue'[i]] = gen
    <3>1. /\ \A i \in 1..Len(queue) : home[queue[i]] = gen
          /\ \A i \in 1..Len(inbox) : home[inbox[i]] = gen
      BY DEF Homes
    <3>2. TAKE i \in 1..Len(queue')
    <3>3. CASE i \in 1..Len(queue)
      BY <2>1, <3>1, <3>3
    <3>4. CASE i - Len(queue) \in 1..n
      <4> DEFINE j == i - Len(queue)
      <4>1. i = Len(queue) + j /\ j \in 1..Len(inbox)
        BY <2>3, <3>4
      <4>2. queue'[Len(queue) + j] = inbox[j]
        BY <2>1, <3>4
      <4> HIDE DEF j
      <4> QED
        BY <3>1, <4>1, <4>2
    <3> QED
      BY <2>4, <3>3, <3>4
  <2>6. \A i \in 1..Len(inbox') : home[inbox'[i]] = gen
    <3>1. \A i \in 1..Len(inbox) : home[inbox[i]] = gen
      BY DEF Homes
    <3> TAKE i \in 1..Len(inbox')
    <3>2. i \in 1..(Len(inbox) - n) /\ n + i \in 1..Len(inbox)
      BY <2>1, <2>3
    <3>3. inbox'[i] = inbox[n + i]
      BY <2>1, <3>2
    <3> QED
      BY <3>1, <3>2, <3>3
  <2> QED
    BY <2>2, <2>5, <2>6 DEF Homes
<1>4. CASE Dispatch
  <2>1. queue[idx + 1] \in Commands /\ idx + 1 \in 1..Len(queue) /\ queue # <<>>
    <3>1. queue \in Seq(Commands) /\ idx \in Nat /\ idx < Len(queue)
      BY <1>4 DEF Dispatch, TypeOK
    <3>2. Len(queue) \in Nat /\ idx + 1 \in 1..Len(queue)
      BY <3>1, LenProperties
    <3>3. queue[idx + 1] \in Commands
      BY <3>1, <3>2, ElementOfSeq
    <3> QED
      BY <1>0, <3>2, <3>3
  <2>2. stage = "live" /\ gen # 0 /\ home[queue[idx + 1]] = gen
    BY <2>1 DEF Channel, Homes
  <2>3. InHand' = InHand \cup {queue[idx + 1]}
    BY <1>4, <2>1 DEF Dispatch, InHand, TypeOK
  <2>4. UNCHANGED <<gen, home, adrift, stage, queue, inbox>>
    BY <1>4 DEF Dispatch, linkVars, sentVars
  <2> QED
    BY <2>2, <2>3, <2>4 DEF Homes
<1>5. CASE HandlerReturns
  <2>1. InHand' = InHand
    BY <1>5 DEF HandlerReturns, InHand, TypeOK
  <2>2. UNCHANGED <<home, adrift, stage, gen, queue, inbox>>
    BY <1>5 DEF HandlerReturns, linkVars, sentVars
  <2> QED
    BY <2>1, <2>2 DEF Homes
<1>6. CASE EndTick
  <2>1. \A i \in 1..Len(queue') : home[queue'[i]] = gen
    BY <1>6, EndTickSlices DEF Homes
  <2>2. gen = 0 => queue' = <<>>
    <3>1. gen = 0 => Len(queue') = 0 /\ queue' \in Seq(Commands)
      BY <1>0, <1>6, EndTickSlices DEF Homes, TypeOK
    <3> QED
      BY <3>1, EmptySeq
  <2>3. InHand' \subseteq InHand
    BY <1>6 DEF EndTick, InHand
  <2>4. UNCHANGED <<home, adrift, stage, gen, inbox>>
    BY <1>6 DEF EndTick, linkVars, sentVars
  <2> QED
    BY <2>1, <2>2, <2>3, <2>4 DEF Homes
<1>7. CASE HandlerPauses \/ HandlerResumes
  BY <1>7 DEF HandlerPauses, HandlerResumes, Homes, InHand, linkVars, tickVars, sentVars
<1>8. CASE ServiceTransport
  BY <1>0, <1>8 DEF ServiceTransport, Replace, Homes, InHand, sentVars
<1>9. ASSUME NEW c \in Commands, DeferredReply(c) PROVE Homes'
  <2>1. InHand' \subseteq InHand /\ UNCHANGED <<gen, home, adrift, stage, queue, inbox>>
    BY <1>9 DEF DeferredReply, InHand, linkVars, tickVars, sentVars
  <2> QED
    BY <2>1 DEF Homes
<1> QED
  BY <1>1, <1>2, <1>3, <1>4, <1>5, <1>6, <1>7, <1>8, <1>9, StepCases

LEMMA LinkInvariance == Spec => []LinkInv
<1>1. Init => LinkInv
  BY InitType, InitTick, InitLink DEF LinkInv
<1>2. LinkInv /\ [Next]_vars => LinkInv'
  BY StepType, StepTick, StepChannel, StepHomes DEF LinkInv
<1> QED
  BY <1>1, <1>2, PTL DEF Spec

\* Whatever starts came on the socket of now, and so did whatever is answered,
\* but for what was in hand when its connection was given up (StaysOnItsLink).
THEOREM LinksKeepApart == Spec => StaysOnItsLink
<1> DEFINE Kept == \A c \in Commands :
             /\ started'[c] > started[c] => home[c] = gen
             /\ answers'[c] > answers[c] => home[c] = gen \/ c \in adrift
<1>1. LinkInv /\ [Next]_vars => Kept
  <2> SUFFICES ASSUME LinkInv, [Next]_vars, NEW c \in Commands,
                      started'[c] > started[c] \/ answers'[c] > answers[c]
               PROVE  home[c] = gen \/ (c \in adrift /\ ~(started'[c] > started[c]))
    OBVIOUS
  <2> USE DEF LinkInv
  <2>0. started[c] \in Nat /\ answers[c] \in Nat
    BY DEF TypeOK
  <2>1. CASE UNCHANGED <<started, answers>>
    BY <2>0, <2>1
  <2>2. CASE Dispatch
    <3>1. UNCHANGED answers /\ started' = [started EXCEPT ![queue[idx + 1]] = @ + 1]
      BY <2>2 DEF Dispatch, replyVars
    <3>2. c = queue[idx + 1]
      BY <2>0, <3>1 DEF TypeOK
    <3>3. idx + 1 \in 1..Len(queue)
      BY <2>2, LenProperties DEF Dispatch, TypeOK
    <3> QED
      BY <3>2, <3>3 DEF Homes
  <2>3. CASE EndTick
    <3>1. UNCHANGED started /\ Send(outbox) /\ outbox \in SUBSET Commands
      BY <2>3 DEF EndTick, TypeOK
    <3>2. c \in InHand
      BY <2>0, <3>1, SendCounts DEF InHand
    <3> QED
      BY <2>0, <3>1, <3>2 DEF Homes
  <2>4. CASE ServiceTransport
    <3> DEFINE n == Lesser(Len(inbox), FloodCap - serviced)
               rejected == {inbox[i] : i \in 1..n}
    <3>1. UNCHANGED started /\ Send(rejected) /\ n \in 0..Len(inbox) /\ Len(inbox) \in Nat
      BY <2>4, LenProperties DEF ServiceTransport, TypeOK, Lesser
    <3> HIDE DEF n
    <3>2. rejected \in SUBSET Commands
      <4>1. inbox \in Seq(Commands)
        BY DEF TypeOK
      <4>2. \A i \in 1..n : inbox[i] \in Commands
        BY <3>1, <4>1, ElementOfSeq
      <4> QED
        BY <4>2
    <3>3. c \in rejected
      <4> HIDE DEF rejected
      <4> QED
        BY <2>0, <3>1, <3>2, SendCounts
    <3> QED
      BY <3>1, <3>3 DEF Homes
  <2>5. ASSUME NEW d \in Commands, DeferredReply(d)
        PROVE  home[c] = gen \/ (c \in adrift /\ ~(started'[c] > started[c]))
    <3>1. UNCHANGED started /\ (UNCHANGED answers \/ (d \in deferred /\ answers' = [answers EXCEPT ![d] = @ + 1]))
      BY <2>5 DEF DeferredReply
    <3>2. c = d /\ d \in deferred
      BY <2>0, <3>1 DEF TypeOK
    <3> QED
      BY <2>0, <3>1, <3>2 DEF Homes, InHand
  <2>6. LinkSteps => UNCHANGED <<started, answers>>
    BY LinkFrame DEF replyVars
  <2>7. ASSUME NEW late \in SUBSET deferred, Frame(late) PROVE UNCHANGED <<started, answers>>
    BY <2>7 DEF Frame, replyVars
  <2>8. HandlerReturns \/ HandlerPauses \/ HandlerResumes \/ UNCHANGED vars
          => UNCHANGED <<started, answers>>
    BY DEF HandlerReturns, HandlerPauses, HandlerResumes, vars, replyVars
  <2> QED
    BY <2>1, <2>2, <2>3, <2>4, <2>5, <2>6, <2>7, <2>8, StepCases
<1>2. [][Kept]_vars => StaysOnItsLink
  BY PTL DEF StaysOnItsLink
<1> QED
  BY <1>1, <1>2, LinkInvariance, PTL DEF Spec

-----------------------------------------------------------------------------
(* Where a command is: on the way, owed an answer, or done with.           *)

\* Positions of the queue that the tick has not dispatched.
Ahead(i) == i \in 1..Len(queue) /\ idx < i /\ (running # NoCommand => idx + 1 < i)

Untouched(c) == started[c] = 0 /\ answers[c] = 0 /\ c \notin busy

Distinct ==
  /\ \A i, j \in 1..Len(queue) : queue[i] = queue[j] => i = j
  /\ \A i, j \in 1..Len(inbox) : inbox[i] = inbox[j] => i = j
  /\ \A i \in 1..Len(queue), j \in 1..Len(inbox) : queue[i] # inbox[j]

Waiting ==
  /\ \A c \in Commands : home[c] = 0 => Untouched(c)
  /\ \A i \in 1..Len(inbox) : Untouched(inbox[i])
  /\ \A i \in 1..Len(queue) : Ahead(i) => Untouched(queue[i])

\* Started, not answered, and with one party that will see to it.
Owed(c) == started[c] = 1 /\ answers[c] = 0

Owing ==
  /\ \A c \in outbox \cup deferred : Owed(c)
  /\ running # NoCommand => Owed(running) /\ running \notin outbox \cup deferred
  /\ outbox \cap deferred = {}

Once == HandledOnce /\ BusyNeverRuns

OnceInv == LinkInv /\ Distinct /\ Waiting /\ Owing /\ Once

LEMMA Lengths ==
  ASSUME TypeOK
  PROVE  /\ Len(queue) \in Nat /\ Len(inbox) \in Nat
         /\ \A i \in 1..Len(queue) : queue[i] \in Commands
         /\ \A i \in 1..Len(inbox) : inbox[i] \in Commands
  BY LenProperties, ElementOfSeq DEF TypeOK

LEMMA EmptyLen == Len(<<>>) = 0
  OBVIOUS

LEMMA InitOnce == Init => Distinct /\ Waiting /\ Owing /\ Once
<1> SUFFICES ASSUME Init PROVE Distinct /\ Waiting /\ Owing /\ Once
  OBVIOUS
<1>1. Len(queue) = 0 /\ Len(inbox) = 0
  BY EmptyLen DEF Init
<1>2. \A c \in Commands : started[c] = 0 /\ answers[c] = 0
  BY DEF Init
<1> QED
  BY <1>1, <1>2 DEF Init, Distinct, Waiting, Owing, Once, HandledOnce, BusyNeverRuns, Untouched

\* Where the queue's and the packets' elements come from in a frame.
LEMMA FrameSources ==
  ASSUME OnceInv, NEW late \in SUBSET deferred, Frame(late)
  PROVE  \E n \in 0..Len(inbox) :
           /\ Len(queue') = Len(queue) + n /\ Len(inbox') = Len(inbox) - n
           /\ \A i \in 1..Len(queue') :
                \/ i \in 1..Len(queue) /\ queue'[i] = queue[i]
                \/ /\ i \notin 1..Len(queue)
                   /\ i - Len(queue) \in 1..n /\ queue'[i] = inbox[i - Len(queue)]
           /\ \A i \in 1..Len(inbox') : n + i \in 1..Len(inbox) /\ inbox'[i] = inbox[n + i]
<1>1. PICK n \in 0..Len(inbox) :
        /\ Len(queue') = Len(queue) + n /\ Len(inbox') = Len(inbox) - n
        /\ \A i \in 1..Len(queue) : queue'[i] = queue[i]
        /\ \A i \in 1..n : queue'[Len(queue) + i] = inbox[i]
        /\ \A i \in 1..(Len(inbox) - n) : inbox'[i] = inbox[n + i]
  BY DrainMoves DEF Frame, OnceInv, LinkInv
<1>2. Len(queue) \in Nat /\ Len(inbox) \in Nat
  BY Lengths DEF OnceInv, LinkInv
<1>3. ASSUME NEW i \in 1..Len(queue'), i \notin 1..Len(queue)
      PROVE  i - Len(queue) \in 1..n /\ queue'[i] = inbox[i - Len(queue)]
  <2> DEFINE j == i - Len(queue)
  <2>1. j \in 1..n /\ i = Len(queue) + j
    BY <1>1, <1>2, <1>3
  <2> HIDE DEF j
  <2>2. queue'[Len(queue) + j] = inbox[j]
    BY <1>1, <2>1
  <2> QED
    BY <2>1, <2>2 DEF j
<1>4. ASSUME NEW i \in 1..Len(inbox')
      PROVE  n + i \in 1..Len(inbox) /\ inbox'[i] = inbox[n + i]
  BY <1>1, <1>2, <1>4
<1>5. \A i \in 1..Len(queue) : queue'[i] = queue[i]
  BY <1>1
<1> QED
  BY <1>1, <1>3, <1>4, <1>5

LEMMA SentSomewhere ==
  ASSUME LinkInv
  PROVE  /\ \A i \in 1..Len(queue) : home[queue[i]] # 0
         /\ \A i \in 1..Len(inbox) : home[inbox[i]] # 0
         /\ \A c \in deferred : home[c] # 0
<1>1. deferred \subseteq InHand
  BY DEF InHand
<1>2. CASE gen = 0
  BY <1>1, <1>2, EmptyLen DEF LinkInv, Homes
<1>3. CASE gen # 0
  <2>1. \A c \in InHand : home[c] # 0
    BY <1>3 DEF LinkInv, Homes
  <2> QED
    BY <1>1, <1>3, <2>1 DEF LinkInv, Homes
<1> QED
  BY <1>2, <1>3

LEMMA StepDistinct == OnceInv /\ [Next]_vars => Distinct'
<1> SUFFICES ASSUME OnceInv, [Next]_vars PROVE Distinct'
  OBVIOUS
<1> USE DEF OnceInv
<1>1. ASSUME UNCHANGED queue, inbox' \in {inbox, <<>>} PROVE Distinct'
  BY <1>1, EmptyLen DEF Distinct
<1>2. CASE LinkSteps
  <2>1. ASSUME NEW c \in Commands, ServerSends(c) PROVE Distinct'
    <3>1. inbox' = Append(inbox, c) /\ UNCHANGED queue /\ home[c] = 0
      BY <2>1 DEF ServerSends
    <3>2. inbox \in Seq(Commands) /\ Len(inbox) \in Nat
      BY Lengths DEF LinkInv, TypeOK
    <3>3. /\ \A i \in 1..Len(queue) : queue[i] # c
          /\ \A i \in 1..Len(inbox) : inbox[i] # c
      BY <3>1, SentSomewhere
    <3>4. Len(inbox') = Len(inbox) + 1 /\ \A i \in 1..Len(inbox') :
             inbox'[i] = IF i = Len(inbox) + 1 THEN c ELSE inbox[i]
      BY <3>1, <3>2, Appended
    <3> QED
      BY <3>1, <3>2, <3>3, <3>4 DEF Distinct
  <2>2. CASE ~(\E c \in Commands : ServerSends(c))
    BY <1>2, <2>2, EmptyLen, LinkFrame DEF Distinct
  <2> QED
    BY <2>1, <2>2
<1>3. ASSUME NEW late \in SUBSET deferred, Frame(late) PROVE Distinct'
  <2>1. PICK n \in 0..Len(inbox) :
           /\ Len(queue') = Len(queue) + n /\ Len(inbox') = Len(inbox) - n
           /\ \A i \in 1..Len(queue') :
                \/ i \in 1..Len(queue) /\ queue'[i] = queue[i]
                \/ /\ i \notin 1..Len(queue)
                   /\ i - Len(queue) \in 1..n /\ queue'[i] = inbox[i - Len(queue)]
           /\ \A i \in 1..Len(inbox') : n + i \in 1..Len(inbox) /\ inbox'[i] = inbox[n + i]
    BY <1>3, FrameSources
  <2>2. Len(queue) \in Nat /\ Len(inbox) \in Nat
    BY Lengths DEF LinkInv
  <2>3. ASSUME NEW i \in 1..Len(queue'), NEW j \in 1..Len(queue'), queue'[i] = queue'[j] PROVE i = j
    <3>1. CASE i \in 1..Len(queue) /\ j \in 1..Len(queue)
      BY <2>1, <2>3, <3>1 DEF Distinct
    <3>0. \A k \in 1..n : k \in 1..Len(inbox)
      BY <2>2
    <3>2. CASE i \in 1..Len(queue) /\ j \notin 1..Len(queue)
      <4>1. queue'[i] = queue[i] /\ j - Len(queue) \in 1..Len(inbox)
            /\ queue'[j] = inbox[j - Len(queue)]
        BY <2>1, <3>0, <3>2
      <4> QED
        BY <2>3, <3>2, <4>1 DEF Distinct
    <3>3. CASE i \notin 1..Len(queue) /\ j \in 1..Len(queue)
      <4>1. queue'[j] = queue[j] /\ i - Len(queue) \in 1..Len(inbox)
            /\ queue'[i] = inbox[i - Len(queue)]
        BY <2>1, <3>0, <3>3
      <4> QED
        BY <2>3, <3>3, <4>1 DEF Distinct
    <3>4. CASE i \notin 1..Len(queue) /\ j \notin 1..Len(queue)
      <4>1. /\ i - Len(queue) \in 1..Len(inbox) /\ j - Len(queue) \in 1..Len(inbox)
            /\ inbox[i - Len(queue)] = inbox[j - Len(queue)]
        BY <2>1, <2>2, <2>3, <3>4
      <4>2. i - Len(queue) = j - Len(queue)
        BY <4>1 DEF Distinct
      <4> QED
        BY <2>1, <2>2, <4>2
    <3> QED
      BY <3>1, <3>2, <3>3, <3>4
  <2>4. ASSUME NEW i \in 1..Len(inbox'), NEW j \in 1..Len(inbox'), inbox'[i] = inbox'[j] PROVE i = j
    <3>1. /\ n + i \in 1..Len(inbox) /\ n + j \in 1..Len(inbox)
          /\ inbox[n + i] = inbox[n + j]
      BY <2>1, <2>4
    <3>2. n + i = n + j
      BY <3>1 DEF Distinct
    <3>3. i \in Int /\ j \in Int /\ n \in Int
      BY <2>1, <2>2, <2>4
    <3> QED
      BY <3>2, <3>3
  <2>5. ASSUME NEW i \in 1..Len(queue'), NEW j \in 1..Len(inbox') PROVE queue'[i] # inbox'[j]
    <3>1. n + j \in 1..Len(inbox) /\ inbox'[j] = inbox[n + j]
      BY <2>1
    <3>2. CASE i \in 1..Len(queue)
      <4>1. queue'[i] = queue[i]
        BY <2>1, <3>2
      <4> QED
        BY <3>1, <3>2, <4>1 DEF Distinct
    <3>3. CASE i \notin 1..Len(queue)
      <4>1. /\ i - Len(queue) \in 1..n /\ i - Len(queue) \in 1..Len(inbox)
            /\ queue'[i] = inbox[i - Len(queue)] /\ i - Len(queue) # n + j
        BY <2>1, <2>2, <3>3
      <4> QED
        BY <3>1, <4>1 DEF Distinct
    <3> QED
      BY <3>2, <3>3
  <2> QED
    BY <2>3, <2>4, <2>5 DEF Distinct
<1>4. CASE EndTick
  <2>1. UNCHANGED inbox
    BY <1>4 DEF EndTick, linkVars
  <2>2. \A i \in 1..Len(queue') : idx + i \in 1..Len(queue) /\ queue'[i] = queue[idx + i]
    BY <1>4, EndTickSlices DEF LinkInv
  <2>3. idx \in Nat /\ Len(queue') \in Nat
    BY <1>4, EndTickSlices, LenProperties DEF LinkInv, TypeOK
  <2> QED
    BY <2>1, <2>2, <2>3 DEF Distinct
<1>5. ASSUME NEW c \in Commands, DeferredReply(c) PROVE UNCHANGED <<queue, inbox>>
  BY <1>5 DEF DeferredReply, linkVars
<1>6. ServiceTransport => UNCHANGED queue /\ inbox' = <<>>
  BY DEF ServiceTransport, Replace
<1>7. Dispatch \/ HandlerReturns \/ HandlerPauses \/ HandlerResumes \/ UNCHANGED vars
        => UNCHANGED <<queue, inbox>>
  BY DEF Dispatch, HandlerReturns, HandlerPauses, HandlerResumes, vars, linkVars
<1> QED
  BY <1>1, <1>2, <1>3, <1>4, <1>5, <1>6, <1>7, StepCases

\* Nothing that was started or is told anything is still waiting.
LEMMA WaitingApart ==
  ASSUME OnceInv, NEW c \in Commands, Untouched(c)
  PROVE  c \notin outbox \cup deferred /\ c # running
  BY DEF OnceInv, Owing, Owed, Untouched

\* A test run's rejections are of packets only.
LEMMA Rejections ==
  ASSUME OnceInv, ServiceTransport
  PROVE  \E rejected \in SUBSET Commands :
           /\ Send(rejected) /\ busy' = busy \cup rejected
           /\ \A c \in rejected : \E i \in 1..Len(inbox) : c = inbox[i]
<1> DEFINE n == Lesser(Len(inbox), FloodCap - serviced)
           rejected == {inbox[i] : i \in 1..n}
<1>1. n \in 0..Len(inbox) /\ Len(inbox) \in Nat
  BY Rejectable DEF OnceInv, LinkInv, Lesser
<1>2. Send(rejected) /\ busy' = busy \cup rejected
  BY DEF ServiceTransport
<1> HIDE DEF n
<1>3. \A i \in 1..n : i \in 1..Len(inbox) /\ inbox[i] \in Commands
  BY <1>1, Lengths DEF OnceInv, LinkInv
<1>4. rejected \in SUBSET Commands /\ \A c \in rejected : \E i \in 1..Len(inbox) : c = inbox[i]
  BY <1>3
<1> QED
  BY <1>2, <1>4

\* Replies to what is not waiting leave what is waiting untouched.
LEMMA StaysUntouched ==
  ASSUME NEW c \in Commands, Untouched(c), started'[c] = started[c], answers'[c] = answers[c],
         busy' \subseteq busy \cup (Commands \ {c})
  PROVE  Untouched(c)'
  BY DEF Untouched

LEMMA StepWaiting == OnceInv /\ [Next]_vars => Waiting'
<1> SUFFICES ASSUME OnceInv, [Next]_vars PROVE Waiting'
  OBVIOUS
<1> USE DEF OnceInv
<1>0. TypeOK
  BY DEF LinkInv
<1>1. ASSUME UNCHANGED <<home, started, answers, busy, queue, idx, running>>, inbox' \in {inbox, <<>>}
      PROVE  Waiting'
  BY <1>1, EmptyLen DEF Waiting, Ahead, Untouched
<1>2. CASE LinkSteps
  <2>0. UNCHANGED <<started, answers, busy, idx, running>>
    BY <1>2, LinkFrame DEF tickVars, replyVars
  <2>1. ASSUME NEW c \in Commands, ServerSends(c) PROVE Waiting'
    <3>1. /\ inbox' = Append(inbox, c) /\ UNCHANGED queue
          /\ home' = [home EXCEPT ![c] = gen] /\ home[c] = 0 /\ gen # 0
      BY <2>1 DEF ServerSends, LinkInv, Channel
    <3>2. inbox \in Seq(Commands) /\ Len(inbox) \in Nat /\ home \in [Commands -> 0..MaxLinks]
      BY Lengths DEF LinkInv, TypeOK
    <3>3. Len(inbox') = Len(inbox) + 1 /\ \A i \in 1..Len(inbox') :
             inbox'[i] = c \/ (i \in 1..Len(inbox) /\ inbox'[i] = inbox[i])
      <4>1. /\ Len(inbox') = Len(inbox) + 1 /\ inbox'[Len(inbox) + 1] = c
            /\ \A i \in 1..Len(inbox) : inbox'[i] = inbox[i]
        BY <3>1, <3>2, Appended
      <4>2. \A i \in 1..(Len(inbox) + 1) : i \in 1..Len(inbox) \/ i = Len(inbox) + 1
        BY <3>2
      <4> QED
        BY <4>1, <4>2
    <3>4. Untouched(c)
      BY <3>1 DEF Waiting
    <3>5. \A i \in 1..Len(inbox') : Untouched(inbox'[i])
      BY <3>3, <3>4 DEF Waiting
    <3>6. \A d \in Commands : home'[d] = 0 => home[d] = 0
      BY <3>1, <3>2
    <3> QED
      BY <2>0, <3>1, <3>5, <3>6 DEF Waiting, Ahead, Untouched
  <2>2. ASSUME ~(\E c \in Commands : ServerSends(c)), queue' \in {queue, <<>>} PROVE Waiting'
    <3>1. UNCHANGED home /\ inbox' \in {inbox, <<>>}
      BY <1>2, <2>2, LinkFrame DEF sentVars
    <3> QED
      BY <2>0, <2>2, <3>1, EmptyLen DEF Waiting, Ahead, Untouched
  <2> QED
    BY <1>2, <2>1, <2>2, LinkFrame
<1>3. ASSUME NEW late \in SUBSET deferred, Frame(late) PROVE Waiting'
  <2>1. PICK n \in 0..Len(inbox) :
           /\ Len(queue') = Len(queue) + n /\ Len(inbox') = Len(inbox) - n
           /\ \A i \in 1..Len(queue') :
                \/ i \in 1..Len(queue) /\ queue'[i] = queue[i]
                \/ /\ i \notin 1..Len(queue)
                   /\ i - Len(queue) \in 1..n /\ queue'[i] = inbox[i - Len(queue)]
           /\ \A i \in 1..Len(inbox') : n + i \in 1..Len(inbox) /\ inbox'[i] = inbox[n + i]
    BY <1>3, FrameSources
  <2>2. UNCHANGED <<home, started, answers, busy>>
    BY <1>3 DEF Frame, sentVars, replyVars
  <2>3. \A i \in 1..Len(queue) : Ahead(i)' => Ahead(i)
    <3>1. CASE TickFree /\ BeginTick(late)
      BY <3>1 DEF TickFree, BeginTick, LinkInv, TickInv, Ahead
    <3>2. CASE UNCHANGED <<tickVars, deferred>>
      BY <3>2 DEF Ahead, tickVars
    <3> QED
      BY <1>3, <3>1, <3>2 DEF Frame
  <2>4. Len(inbox) \in Nat /\ \A j \in 1..n : j \in 1..Len(inbox)
    BY Lengths DEF LinkInv
  <2>5. \A i \in 1..Len(inbox') : Untouched(inbox'[i])
    BY <2>1 DEF Waiting
  <2>6. \A i \in 1..Len(queue') : Ahead(i)' => Untouched(queue'[i])
    BY <2>1, <2>3, <2>4 DEF Waiting
  <2>7. \A c : Untouched(c)' <=> Untouched(c)
    BY <2>2 DEF Untouched
  <2> QED
    BY <2>2, <2>5, <2>6, <2>7 DEF Waiting
<1>4. CASE Dispatch
  <2> DEFINE d == queue[idx + 1]
  <2>1. idx + 1 \in 1..Len(queue) /\ d \in Commands /\ idx \in Nat /\ home[d] # 0
    <3>1. Len(queue) \in Nat /\ idx \in Nat /\ idx < Len(queue)
      BY <1>0, <1>4, Lengths DEF Dispatch, TypeOK
    <3>2. idx + 1 \in 1..Len(queue)
      BY <3>1
    <3> QED
      BY <1>0, <3>1, <3>2, Lengths, SentSomewhere
  <2>2. /\ running' = d /\ started' = [started EXCEPT ![d] = @ + 1] /\ running = NoCommand
        /\ UNCHANGED <<home, answers, busy, queue, inbox, idx>>
    BY <1>4 DEF Dispatch, linkVars, sentVars, replyVars
  <2>3. \A c \in Commands : c # d /\ Untouched(c) => Untouched(c)'
    BY <1>0, <2>2 DEF Untouched, TypeOK
  <2>4. d # NoCommand
    BY <2>1
  <2>5. \A i \in 1..Len(queue) : Ahead(i)' => Ahead(i) /\ queue[i] # d
    BY <2>1, <2>2, <2>4 DEF Ahead, Distinct
  <2>6. \A i \in 1..Len(inbox) : inbox[i] # d
    BY <2>1 DEF Distinct
  <2> HIDE DEF d
  <2> QED
    BY <1>0, <2>1, <2>2, <2>3, <2>5, <2>6, Lengths DEF Waiting
<1>5. CASE HandlerReturns
  <2>1. /\ running # NoCommand /\ idx' = idx + 1 /\ idx \in Nat /\ running' = NoCommand
        /\ UNCHANGED <<home, started, answers, busy, queue, inbox>>
    BY <1>0, <1>5 DEF HandlerReturns, linkVars, sentVars, replyVars, TypeOK
  <2>2. \A i \in 1..Len(queue) : Ahead(i)' => Ahead(i)
    BY <2>1 DEF Ahead
  <2>3. \A c : Untouched(c)' <=> Untouched(c)
    BY <2>1 DEF Untouched
  <2> QED
    BY <2>1, <2>2, <2>3 DEF Waiting
<1>6. CASE EndTick
  <2>1. /\ UNCHANGED <<home, started, busy, inbox>> /\ running = NoCommand
        /\ Send(outbox) /\ outbox \in SUBSET Commands
    BY <1>0, <1>6 DEF EndTick, linkVars, sentVars, TypeOK
  <2>2. \A c \in Commands : Untouched(c) => Untouched(c)'
    <3> TAKE c \in Commands
    <3> HAVE Untouched(c)
    <3>1. answers'[c] = answers[c]
      BY <1>0, <2>1, SendCounts, WaitingApart
    <3> QED
      BY <2>1, <3>1, StaysUntouched
  <2>3. \A i \in 1..Len(queue') : idx + i \in 1..Len(queue) /\ queue'[i] = queue[idx + i]
    BY <1>0, <1>6, EndTickSlices
  <2>4. idx \in Nat /\ Len(queue') \in Nat
    BY <1>0, <1>6, EndTickSlices, LenProperties DEF TypeOK
  <2>5. \A i \in 1..Len(queue') : Ahead(idx + i)
    BY <2>1, <2>3, <2>4 DEF Ahead
  <2>6. \A i \in 1..Len(queue') : Untouched(queue'[i]) /\ queue'[i] \in Commands
    BY <1>0, <2>3, <2>5, Lengths DEF Waiting
  <2> QED
    BY <1>0, <2>1, <2>2, <2>6, Lengths DEF Waiting
<1>7. CASE ServiceTransport
  <2>1. PICK rejected \in SUBSET Commands :
           /\ Send(rejected) /\ busy' = busy \cup rejected
           /\ \A c \in rejected : \E i \in 1..Len(inbox) : c = inbox[i]
    BY <1>7, Rejections
  <2>2. UNCHANGED <<home, started, queue, idx, running>> /\ inbox' = <<>>
    BY <1>7 DEF ServiceTransport, Replace, sentVars
  <2>3. \A c \in Commands : Untouched(c) /\ c \notin rejected => Untouched(c)'
    <3> TAKE c \in Commands
    <3> HAVE Untouched(c) /\ c \notin rejected
    <3>1. answers'[c] = answers[c]
      BY <1>0, <2>1, SendCounts
    <3> QED
      BY <2>1, <2>2, <3>1, StaysUntouched
  <2>4. \A c \in rejected : home[c] # 0 /\ \A i \in 1..Len(queue) : queue[i] # c
    BY <2>1, SentSomewhere DEF Distinct
  <2>5. \A i \in 1..Len(queue) : Ahead(i)' <=> Ahead(i)
    BY <2>2 DEF Ahead
  <2> QED
    BY <1>0, <2>2, <2>3, <2>4, <2>5, Lengths, EmptyLen DEF Waiting
<1>8. ASSUME NEW c \in Commands, DeferredReply(c) PROVE Waiting'
  <2>1. /\ UNCHANGED <<home, started, busy, queue, inbox, idx, running>>
        /\ UNCHANGED answers \/ (c \in deferred /\ answers' = [answers EXCEPT ![c] = @ + 1])
    BY <1>8 DEF DeferredReply, linkVars, tickVars, sentVars
  <2>2. \A d \in Commands : Untouched(d) => Untouched(d)'
    <3> TAKE d \in Commands
    <3> HAVE Untouched(d)
    <3>1. answers'[d] = answers[d]
      BY <1>0, <2>1, WaitingApart DEF TypeOK
    <3> QED
      BY <2>1, <3>1, StaysUntouched
  <2>3. \A i \in 1..Len(queue) : Ahead(i)' <=> Ahead(i)
    BY <2>1 DEF Ahead
  <2> QED
    BY <1>0, <2>1, <2>2, <2>3, Lengths DEF Waiting
<1>9. HandlerPauses \/ HandlerResumes \/ UNCHANGED vars
        => UNCHANGED <<home, started, answers, busy, queue, idx, running, inbox>>
  BY DEF HandlerPauses, HandlerResumes, vars, linkVars, tickVars, sentVars, replyVars
<1> QED
  BY <1>1, <1>2, <1>3, <1>4, <1>5, <1>6, <1>7, <1>8, <1>9, StepCases

\* What a step does to the counts of a command.
LEMMA Counts ==
  ASSUME OnceInv, [Next]_vars
  PROVE  \/ UNCHANGED <<started, answers, busy>>
         \/ Dispatch /\ UNCHANGED <<answers, busy>>
         \/ \E replies \in SUBSET Commands :
              /\ UNCHANGED started
              /\ \A c \in replies : answers[c] = 0 /\ answers'[c] \in {0, 1}
              /\ \A c \in Commands \ replies : answers'[c] = answers[c]
              /\ \/ EndTick /\ replies = outbox /\ UNCHANGED busy
                 \/ /\ ServiceTransport /\ busy' = busy \cup replies
                    /\ \A c \in replies : Untouched(c)
                 \/ \E c \in deferred :
                      replies = {c} /\ deferred' = deferred \ {c} /\ DeferredReply(c) /\ UNCHANGED busy
<1> USE DEF OnceInv
<1>0. TypeOK
  BY DEF LinkInv
<1>1. LinkSteps => UNCHANGED <<started, answers, busy>>
  BY LinkFrame DEF replyVars
<1>2. ASSUME NEW late \in SUBSET deferred, Frame(late) PROVE UNCHANGED <<started, answers, busy>>
  BY <1>2 DEF Frame, replyVars
<1>3. HandlerReturns \/ HandlerPauses \/ HandlerResumes \/ UNCHANGED vars
        => UNCHANGED <<started, answers, busy>>
  BY DEF HandlerReturns, HandlerPauses, HandlerResumes, vars, replyVars
<1>4. Dispatch => UNCHANGED <<answers, busy>>
  BY DEF Dispatch, replyVars
<1>5. CASE EndTick
  <2>1. UNCHANGED <<started, busy>> /\ Send(outbox) /\ outbox \in SUBSET Commands
    BY <1>0, <1>5 DEF EndTick, TypeOK
  <2>2. \A c \in outbox : answers[c] = 0
    BY DEF Owing, Owed
  <2>3. /\ \A c \in outbox : answers[c] = 0 /\ answers'[c] \in {0, 1}
        /\ \A c \in Commands \ outbox : answers'[c] = answers[c]
    BY <1>0, <2>1, <2>2, SendCounts
  <2> QED
    BY <1>5, <2>1, <2>3
<1>6. CASE ServiceTransport
  <2>1. PICK rejected \in SUBSET Commands :
           /\ Send(rejected) /\ busy' = busy \cup rejected
           /\ \A c \in rejected : \E i \in 1..Len(inbox) : c = inbox[i]
    BY <1>6, Rejections
  <2>2. UNCHANGED started /\ \A c \in rejected : Untouched(c)
    BY <1>6, <2>1 DEF ServiceTransport, Waiting
  <2>3. /\ \A c \in rejected : answers[c] = 0 /\ answers'[c] \in {0, 1}
        /\ \A c \in Commands \ rejected : answers'[c] = answers[c]
    BY <1>0, <2>1, <2>2, SendCounts DEF Untouched
  <2> QED
    BY <1>6, <2>1, <2>2, <2>3
<1>7. ASSUME NEW c \in Commands, DeferredReply(c), ~UNCHANGED <<started, answers, busy>>
      PROVE  /\ c \in deferred /\ deferred' = deferred \ {c} /\ UNCHANGED <<started, busy>>
             /\ \A d \in {c} : answers[d] = 0 /\ answers'[d] \in {0, 1}
             /\ \A d \in Commands \ {c} : answers'[d] = answers[d]
  <2>1. /\ c \in deferred /\ answers' = [answers EXCEPT ![c] = @ + 1]
        /\ deferred' = deferred \ {c} /\ UNCHANGED <<started, busy>>
    BY <1>7 DEF DeferredReply
  <2>2. answers[c] = 0
    BY <2>1 DEF Owing, Owed
  <2> QED
    BY <1>0, <2>1, <2>2 DEF TypeOK
<1>8. ASSUME NEW c \in Commands, DeferredReply(c), ~UNCHANGED <<started, answers, busy>>
      PROVE  \E replies \in SUBSET Commands :
               /\ UNCHANGED started
               /\ \A d \in replies : answers[d] = 0 /\ answers'[d] \in {0, 1}
               /\ \A d \in Commands \ replies : answers'[d] = answers[d]
               /\ \E d \in deferred :
                    replies = {d} /\ deferred' = deferred \ {d} /\ DeferredReply(d) /\ UNCHANGED busy
  <2> WITNESS {c} \in SUBSET Commands
  <2> QED
    BY <1>7, <1>8
<1> QED
  BY <1>1, <1>2, <1>3, <1>4, <1>5, <1>6, <1>8, StepCases

LEMMA StepOnce == OnceInv /\ [Next]_vars => Once'
<1> SUFFICES ASSUME OnceInv, [Next]_vars PROVE Once'
  OBVIOUS
<1> USE DEF OnceInv
<1>0. TypeOK /\ Once
  BY DEF LinkInv
<1>1. CASE UNCHANGED <<started, answers, busy>>
  BY <1>1 DEF Once, HandledOnce, BusyNeverRuns
<1>2. CASE Dispatch /\ UNCHANGED <<answers, busy>>
  <2> DEFINE d == queue[idx + 1]
  <2>1. /\ idx + 1 \in 1..Len(queue) /\ running = NoCommand
        /\ started' = [started EXCEPT ![d] = @ + 1]
    BY <1>0, <1>2, Lengths DEF Dispatch, TypeOK
  <2>2. d \in Commands /\ Untouched(d)
    <3>1. idx \in Nat /\ d \in Commands
      BY <1>0, <2>1, Lengths DEF TypeOK
    <3>2. Ahead(idx + 1)
      BY <2>1, <3>1 DEF Ahead
    <3> QED
      BY <2>1, <3>1, <3>2 DEF Waiting
  <2> HIDE DEF d
  <2>3. \A c \in Commands : started'[c] = IF c = d THEN 1 ELSE started[c]
    BY <1>0, <2>1, <2>2 DEF TypeOK, Untouched
  <2> QED
    <3>1. UNCHANGED <<answers, busy>> /\ d \notin busy /\ busy \subseteq Commands
      BY <1>0, <1>2, <2>2 DEF Untouched, TypeOK
    <3>2. HandledOnce'
      BY <1>0, <2>3, <3>1 DEF Once, HandledOnce
    <3>3. BusyNeverRuns'
      BY <1>0, <2>3, <3>1 DEF Once, BusyNeverRuns
    <3> QED
      BY <3>2, <3>3 DEF Once
<1>3. ASSUME NEW replies \in SUBSET Commands, UNCHANGED started,
             \A c \in replies : answers[c] = 0 /\ answers'[c] \in {0, 1},
             \A c \in Commands \ replies : answers'[c] = answers[c],
             UNCHANGED busy \/ (busy' = busy \cup replies /\ \A c \in replies : Untouched(c))
      PROVE  Once'
  <2>1. HandledOnce'
    BY <1>0, <1>3 DEF Once, HandledOnce
  <2>2. BusyNeverRuns'
    BY <1>0, <1>3 DEF Once, BusyNeverRuns, Untouched
  <2> QED
    BY <2>1, <2>2 DEF Once
<1> QED
  BY <1>1, <1>2, <1>3, Counts

LEMMA StepOwing == OnceInv /\ [Next]_vars => Owing'
<1> SUFFICES ASSUME OnceInv, [Next]_vars PROVE Owing'
  OBVIOUS
<1> USE DEF OnceInv
<1>0. TypeOK /\ Owing /\ TickInv
  BY DEF LinkInv
<1>1. ASSUME UNCHANGED <<outbox, running, started, answers>>, deferred' \subseteq deferred
      PROVE  Owing'
  BY <1>0, <1>1 DEF Owing, Owed
<1>2. CASE LinkSteps
  BY <1>1, <1>2, LinkFrame DEF tickVars, replyVars
<1>3. ASSUME NEW late \in SUBSET deferred, Frame(late) PROVE Owing'
  <2>1. UNCHANGED <<started, answers>>
    BY <1>3 DEF Frame, replyVars
  <2>2. CASE TickFree /\ BeginTick(late)
    BY <1>0, <2>1, <2>2 DEF BeginTick, Owing, Owed
  <2>3. CASE UNCHANGED <<tickVars, deferred>>
    BY <1>1, <2>1, <2>3 DEF tickVars
  <2> QED
    BY <1>3, <2>2, <2>3 DEF Frame
<1>4. CASE Dispatch
  <2> DEFINE d == queue[idx + 1]
  <2>1. /\ idx + 1 \in 1..Len(queue) /\ running = NoCommand /\ running' = d
        /\ started' = [started EXCEPT ![d] = @ + 1] /\ UNCHANGED <<answers, outbox, deferred>>
    BY <1>0, <1>4, Lengths DEF Dispatch, TypeOK, replyVars
  <2>2. d \in Commands /\ Untouched(d)
    BY <1>0, <2>1, Lengths DEF Waiting, Ahead, TypeOK
  <2>3. d \notin outbox \cup deferred
    BY <2>2, WaitingApart
  <2> HIDE DEF d
  <2>4. \A c \in Commands : started'[c] = IF c = d THEN 1 ELSE started[c]
    BY <1>0, <2>1, <2>2 DEF TypeOK, Untouched
  <2> QED
    BY <1>0, <2>1, <2>2, <2>3, <2>4 DEF Owing, Owed, Untouched, TypeOK
<1>5. CASE HandlerReturns
  BY <1>0, <1>5 DEF HandlerReturns, Owing, Owed, replyVars
<1>6. CASE EndTick
  <2>1. outbox' = {} /\ UNCHANGED <<running, started, deferred>> /\ running = NoCommand
        /\ Send(outbox) /\ outbox \in SUBSET Commands
    BY <1>0, <1>6 DEF EndTick, TypeOK
  <2>2. \A c \in deferred : c \in Commands /\ answers'[c] = answers[c]
    BY <1>0, <2>1, SendCounts DEF Owing, TypeOK
  <2> QED
    BY <1>0, <2>1, <2>2 DEF Owing, Owed
<1>7. CASE ServiceTransport
  <2>1. PICK rejected \in SUBSET Commands :
           /\ Send(rejected) /\ busy' = busy \cup rejected
           /\ \A c \in rejected : \E i \in 1..Len(inbox) : c = inbox[i]
    BY <1>7, Rejections
  <2>2. UNCHANGED <<outbox, running, started, deferred>>
    BY <1>7 DEF ServiceTransport
  <2>3. \A c \in rejected : Untouched(c)
    BY <2>1 DEF Waiting
  <2>4. \A c \in Commands : Owed(c) => Owed(c)'
    BY <1>0, <2>1, <2>2, <2>3, SendCounts DEF Owed, Untouched
  <2> QED
    BY <1>0, <2>2, <2>4 DEF Owing, TypeOK
<1>8. ASSUME NEW c \in Commands, DeferredReply(c) PROVE Owing'
  <2>1. UNCHANGED <<outbox, running, started>>
    BY <1>8 DEF DeferredReply, tickVars
  <2>2. CASE UNCHANGED <<answers, deferred>>
    BY <1>1, <2>1, <2>2
  <2>3. CASE c \in deferred /\ answers' = [answers EXCEPT ![c] = @ + 1] /\ deferred' = deferred \ {c}
    <3>1. \A d \in Commands \ {c} : answers'[d] = answers[d]
      BY <1>0, <2>3 DEF TypeOK
    <3>2. c \notin outbox /\ c # running
      BY <1>0, <1>8, <2>3 DEF Owing
    <3> QED
      BY <1>0, <2>1, <2>3, <3>1, <3>2 DEF Owing, Owed, TypeOK
  <2> QED
    BY <1>8, <2>2, <2>3 DEF DeferredReply
<1>9. HandlerPauses \/ HandlerResumes \/ UNCHANGED vars
        => UNCHANGED <<outbox, running, started, answers, deferred>>
  BY DEF HandlerPauses, HandlerResumes, vars, tickVars, replyVars
<1> QED
  BY <1>1, <1>2, <1>3, <1>4, <1>5, <1>6, <1>7, <1>8, <1>9, StepCases

LEMMA OnceInvariance == Spec => []OnceInv
<1>1. Init => OnceInv
  BY InitType, InitTick, InitLink, InitOnce DEF OnceInv, LinkInv
<1>2. OnceInv /\ [Next]_vars => OnceInv'
  BY StepType, StepTick, StepChannel, StepHomes, StepDistinct, StepWaiting, StepOwing, StepOnce
     DEF OnceInv, LinkInv
<1> QED
  BY <1>1, <1>2, PTL DEF Spec

\* No command is run or answered twice (HandledOnce) ...
THEOREM Handled == Spec => []HandledOnce
<1>1. OnceInv => HandledOnce
  BY DEF OnceInv, Once
<1> QED
  BY <1>1, OnceInvariance, PTL

\* ... and none that was refused during a test run is run (BusyNeverRuns).
THEOREM RefusedStaysRefused == Spec => []BusyNeverRuns
<1>1. OnceInv => BusyNeverRuns
  BY DEF OnceInv, Once
<1> QED
  BY <1>1, OnceInvariance, PTL

-----------------------------------------------------------------------------
(* Nothing is lost, unless a pumped frame dialled the socket.              *)

\* The tick under way goes by the queue of the socket of now.
InStep ==
  gen \notin nested /\ stage = "live" =>
    /\ idx <= Len(queue)
    /\ running # NoCommand => idx < Len(queue) /\ queue[idx + 1] = running

NestInv ==
  /\ \A g \in nested : g <= gen
  /\ tickActive /\ gen \notin nested /\ stage # "live" => peer = "closed"
  /\ peer = "connecting" \/ (peer = "open" /\ stage # "live") => \A c \in Commands : home[c] # gen
  /\ InStep

KeepInv == OnceInv /\ NestInv /\ LostOnlyWhenNested

LEMMA InitNest == Init => NestInv /\ LostOnlyWhenNested
  BY DEF Init, NestInv, InStep, LostOnlyWhenNested, Accepted

LEMMA DialNest ==
  ASSUME OnceInv, NestInv, Reconnect \/ Authorize
  PROVE  NestInv'
<1>1. /\ gen' = gen + 1 /\ nested' = IF tickActive THEN nested \cup {gen'} ELSE nested
      /\ stage' = "offline" /\ UNCHANGED <<home, tickActive, idx, running>> /\ peer' = "connecting"
  BY DEF Reconnect, Authorize, Dial, Replace, tickVars, sentVars, OnceInv, LinkInv, Channel
<1>2. gen \in Nat /\ \A g \in nested : g \in Nat
  BY DEF OnceInv, LinkInv, TypeOK
<1>3. \A g \in nested' : g <= gen'
  BY <1>1, <1>2 DEF NestInv
<1>4. ~tickActive \/ gen' \in nested'
  BY <1>1
<1>5. \A c \in Commands : home[c] <= gen /\ home[c] \in Nat
  <2>1. home \in [Commands -> 0..MaxLinks]
    BY DEF OnceInv, LinkInv, TypeOK
  <2>2. \A c \in Commands : home[c] \in Nat
    BY <2>1
  <2> QED
    BY <2>2 DEF OnceInv, LinkInv, Homes
<1>6. \A c \in Commands : home'[c] # gen'
  BY <1>1, <1>2, <1>5
<1> QED
  BY <1>1, <1>3, <1>4, <1>6 DEF NestInv, InStep

LEMMA LinkNest ==
  ASSUME OnceInv, NestInv, LinkSteps, ~(Reconnect \/ Authorize)
  PROVE  NestInv'
<1>0. UNCHANGED <<tickActive, idx, running, gen, nested>>
  BY LinkFrame DEF LinkSteps, SocketStep, PollStep, SocketOpens, SocketCloses, ServerSends, Greet,
     Authenticated, FailHandshake, ObserveClosed, Revoke, ReloadTimesOut, ReloadToggles, linkVars,
     tickVars
<1>1. CASE SocketOpens \/ SocketCloses
  BY <1>0, <1>1 DEF SocketOpens, SocketCloses, Replace, NestInv, InStep, sentVars, OnceInv, LinkInv,
     Channel
<1>2. ASSUME NEW c \in Commands, ServerSends(c) PROVE NestInv'
  BY <1>0, <1>2 DEF ServerSends, NestInv, InStep
<1>3. CASE Greet \/ FailHandshake
  BY <1>0, <1>3 DEF Greet, FailHandshake, Replace, NestInv, InStep, linkVars, sentVars
<1>4. CASE Authenticated
  <2>1. stage = "greeting" /\ stage' = "live" /\ peer = "open" /\ UNCHANGED <<peer, home, queue>>
    BY <1>4 DEF Authenticated, linkVars, sentVars
  <2>2. gen \in nested \/ ~tickActive
    BY <2>1 DEF NestInv
  <2>3. ~tickActive => idx = 0 /\ running = NoCommand
    BY DEF OnceInv, LinkInv, TickInv
  <2>4. Len(queue) \in Nat
    BY Lengths DEF OnceInv, LinkInv
  <2>5. InStep'
    BY <1>0, <2>1, <2>2, <2>3, <2>4 DEF InStep
  <2> QED
    BY <1>0, <2>1, <2>5 DEF NestInv
<1>5. CASE ObserveClosed \/ Revoke \/ ReloadToggles
  BY <1>0, <1>5 DEF ObserveClosed, Revoke, ReloadToggles, Replace, ClearOnDisconnect, NestInv, InStep,
     linkVars, sentVars
<1>6. CASE ReloadTimesOut
  BY <1>0, <1>6 DEF ReloadTimesOut, NestInv, InStep, linkVars, sentVars
<1> QED
  BY <1>1, <1>2, <1>3, <1>4, <1>5, <1>6 DEF LinkSteps, SocketStep, PollStep

LEMMA StepNest == OnceInv /\ NestInv /\ [Next]_vars => NestInv'
<1> SUFFICES ASSUME OnceInv, NestInv, [Next]_vars PROVE NestInv'
  OBVIOUS
<1>0. TypeOK /\ TickInv /\ Len(queue) \in Nat
  BY Lengths DEF OnceInv, LinkInv
<1>1. CASE LinkSteps
  BY <1>1, DialNest, LinkNest
<1>2. ASSUME NEW late \in SUBSET deferred, Frame(late) PROVE NestInv'
  <2>1. UNCHANGED <<gen, nested, peer, stage, home>> /\ stage = "live"
    BY <1>2 DEF Frame, sentVars
  <2>2. PICK n \in 0..Len(inbox) :
          /\ Len(queue') = Len(queue) + n
          /\ \A i \in 1..Len(queue) : queue'[i] = queue[i]
    BY <1>0, <1>2, DrainMoves DEF Frame
  <2>3. CASE TickFree /\ BeginTick(late)
    <3>1. idx' = 0 /\ running' = NoCommand
      BY <2>3 DEF BeginTick
    <3>2. InStep'
      BY <1>0, <2>2, <3>1 DEF InStep
    <3> QED
      BY <2>1, <3>2 DEF NestInv
  <2>4. CASE UNCHANGED <<tickVars, deferred>>
    <3>1. UNCHANGED <<idx, running, tickActive>> /\ idx \in Nat
      BY <1>0, <2>4 DEF tickVars, TypeOK
    <3>2. InStep'
      BY <1>0, <2>1, <2>2, <3>1 DEF NestInv, InStep
    <3> QED
      BY <2>1, <3>1, <3>2 DEF NestInv
  <2> QED
    BY <1>2, <2>3, <2>4 DEF Frame
<1>3. CASE Dispatch
  BY <1>0, <1>3 DEF Dispatch, NestInv, InStep, linkVars, sentVars, TypeOK
<1>4. CASE HandlerReturns
  BY <1>0, <1>4 DEF HandlerReturns, NestInv, InStep, linkVars, sentVars, TypeOK
<1>5. CASE EndTick
  <2>1. Len(queue') \in Nat
    BY <1>0, <1>5, EndTickSlices, LenProperties
  <2>2. /\ ~tickActive' /\ idx' = 0 /\ running' = NoCommand
        /\ UNCHANGED <<gen, nested, peer, stage, home>>
    BY <1>5 DEF EndTick, linkVars, sentVars
  <2>3. InStep'
    BY <2>1, <2>2 DEF InStep
  <2> QED
    BY <2>2, <2>3 DEF NestInv
<1>6. CASE HandlerPauses \/ HandlerResumes \/ UNCHANGED vars
  BY <1>6 DEF HandlerPauses, HandlerResumes, vars, NestInv, InStep, linkVars, tickVars, sentVars
<1>7. CASE ServiceTransport
  BY <1>7 DEF ServiceTransport, Replace, NestInv, InStep, sentVars
<1>8. ASSUME NEW c \in Commands, DeferredReply(c) PROVE NestInv'
  BY <1>8 DEF DeferredReply, NestInv, InStep, linkVars, tickVars, sentVars
<1> QED
  BY <1>1, <1>2, <1>3, <1>4, <1>5, <1>6, <1>7, <1>8, StepCases

LEMMA SettledStays ==
  ASSUME OnceInv, [Next]_vars, NEW c \in Commands, Settled(c)
  PROVE  Settled(c)'
<1>1. dropped \subseteq dropped'
  <2>1. ASSUME NEW replies \in SUBSET Commands, Send(replies) PROVE dropped \subseteq dropped'
    BY <2>1 DEF Send
  <2>2. CASE EndTick
    BY <2>1, <2>2 DEF EndTick, OnceInv, LinkInv, TypeOK
  <2>3. CASE ServiceTransport
    BY <2>1, <2>3, Rejections
  <2>4. LinkSteps => UNCHANGED dropped
    BY LinkFrame DEF replyVars
  <2>5. ASSUME NEW late \in SUBSET deferred, Frame(late) PROVE UNCHANGED dropped
    BY <2>5 DEF Frame, replyVars
  <2>6. ASSUME NEW d \in Commands, DeferredReply(d) PROVE UNCHANGED dropped
    BY <2>6 DEF DeferredReply
  <2>7. Dispatch \/ HandlerReturns \/ HandlerPauses \/ HandlerResumes \/ UNCHANGED vars
          => UNCHANGED dropped
    BY DEF Dispatch, HandlerReturns, HandlerPauses, HandlerResumes, vars, replyVars
  <2> QED
    BY <2>2, <2>3, <2>4, <2>5, <2>6, <2>7, StepCases
<1>2. answers[c] > 0 => answers'[c] = answers[c]
  BY Counts
<1> QED
  BY <1>1, <1>2 DEF Settled

\* Being held needs only the parts of the state named here.
LEMMA HeldStays ==
  ASSUME NEW c, Held(c), UNCHANGED <<queue, idx, running, outbox, deferred>>,
         UNCHANGED inbox \/ \A i \in 1..Len(inbox) : inbox[i] # c
  PROVE  Held(c)'
  BY DEF Held

LEMMA KeptByLink ==
  ASSUME KeepInv, LinkSteps, NEW c \in Commands, Accepted(c)', home'[c] \notin nested'
  PROVE  Held(c)' \/ Settled(c)'
<1> USE DEF KeepInv
<1>0. /\ UNCHANGED <<idx, running, outbox, answers, dropped>>
      /\ stage' = "live" /\ peer' = "open" /\ home'[c] = gen' /\ home'[c] # 0
  BY LinkFrame DEF tickVars, replyVars, Accepted
<1>1. CASE SocketOpens
  <2>1. stage = "live" /\ peer = "connecting"
    BY <1>0, <1>1 DEF SocketOpens
  <2> QED
    BY <2>1 DEF OnceInv, LinkInv, Channel
<1>2. ASSUME NEW d \in Commands, ServerSends(d) PROVE Held(c)' \/ Settled(c)'
  <2>1. /\ inbox' = Append(inbox, d) /\ UNCHANGED <<queue, deferred, gen, nested, stage, peer>>
        /\ home' = [home EXCEPT ![d] = gen]
    BY <1>2 DEF ServerSends
  <2>2. /\ Len(inbox') = Len(inbox) + 1 /\ Len(inbox) \in Nat
        /\ inbox'[Len(inbox) + 1] = d /\ \A i \in 1..Len(inbox) : inbox'[i] = inbox[i]
    <3>1. inbox \in Seq(Commands) /\ Len(inbox) \in Nat
      BY Lengths DEF OnceInv, LinkInv, TypeOK
    <3> QED
      BY <2>1, <3>1, Appended
  <2>3. CASE c = d
    <3>1. Len(inbox) + 1 \in 1..Len(inbox') /\ inbox'[Len(inbox) + 1] = c
      BY <2>2, <2>3
    <3> QED
      BY <3>1 DEF Held
  <2>4. CASE c # d
    <3>1. home'[c] = home[c]
      BY <2>1, <2>4 DEF OnceInv, LinkInv, TypeOK
    <3>2. Held(c) \/ Settled(c)
      BY <1>0, <2>1, <3>1 DEF LostOnlyWhenNested, Accepted
    <3>3. \A i \in 1..Len(inbox) : i \in 1..Len(inbox') /\ inbox'[i] = inbox[i]
      BY <2>2
    <3> QED
      BY <1>0, <2>1, <3>2, <3>3 DEF Held, Settled
  <2> QED
    BY <2>3, <2>4
<1>3. CASE Authenticated
  <2>1. stage = "greeting" /\ peer = "open" /\ UNCHANGED <<home, gen>>
    BY <1>3 DEF Authenticated, linkVars, sentVars
  <2> QED
    BY <1>0, <2>1 DEF NestInv
<1>4. CASE ReloadTimesOut
  <2>1. UNCHANGED <<home, gen, nested, stage, peer, inbox, queue, deferred>>
    BY <1>4 DEF ReloadTimesOut, linkVars, sentVars
  <2>2. Held(c) \/ Settled(c)
    BY <1>0, <2>1 DEF LostOnlyWhenNested, Accepted
  <2> QED
    BY <1>0, <2>1, <2>2, HeldStays DEF Settled
<1>5. ~(SocketCloses \/ Greet \/ FailHandshake \/ ObserveClosed \/ Reconnect \/ Revoke
        \/ Authorize \/ ReloadToggles)
  BY <1>0 DEF SocketCloses, Greet, FailHandshake, ObserveClosed, Reconnect, Revoke, Authorize,
     ReloadToggles, Replace, Dial, ClearOnDisconnect
<1> QED
  BY <1>1, <1>2, <1>3, <1>4, <1>5 DEF LinkSteps, SocketStep, PollStep

\* The steps of a tick leave the sockets and the commands' homes alone.
LEMMA KeptBefore ==
  ASSUME KeepInv, NEW c \in Commands, Accepted(c)', home'[c] \notin nested',
         UNCHANGED <<gen, nested, home, stage>>, peer' = "open" => peer = "open"
  PROVE  /\ Held(c) \/ Settled(c)
         /\ gen \notin nested /\ stage = "live"
  BY DEF KeepInv, LostOnlyWhenNested, Accepted

LEMMA KeptByFrame ==
  ASSUME KeepInv, NEW late \in SUBSET deferred, Frame(late), NEW c \in Commands, Held(c),
         gen \notin nested, stage = "live"
  PROVE  Held(c)'
<1>1. PICK n \in 0..Len(inbox) :
        /\ Len(queue') = Len(queue) + n /\ Len(inbox') = Len(inbox) - n
        /\ \A i \in 1..Len(queue) : queue'[i] = queue[i]
        /\ \A i \in 1..n : queue'[Len(queue) + i] = inbox[i]
        /\ \A i \in 1..(Len(inbox) - n) : inbox'[i] = inbox[n + i]
  BY DrainMoves DEF Frame, KeepInv, OnceInv, LinkInv
<1>2. /\ Len(queue) \in Nat /\ Len(inbox) \in Nat /\ idx \in Nat /\ idx <= Len(queue)
      /\ ~tickActive => idx = 0 /\ running = NoCommand /\ outbox = {}
  BY Lengths DEF KeepInv, OnceInv, NestInv, InStep, LinkInv, TickInv, TypeOK
<1>3. \/ idx' = 0 /\ running = NoCommand /\ outbox = {} /\ outbox' = late /\ deferred' = deferred \ late
      \/ UNCHANGED <<idx, running, outbox, deferred>>
  BY <1>2 DEF Frame, TickFree, BeginTick, tickVars
<1>4. idx' \in Nat /\ idx' <= idx
  BY <1>2, <1>3
<1>5. CASE \E i \in 1..Len(inbox) : inbox[i] = c
  <2>1. PICK i \in 1..Len(inbox) : inbox[i] = c
    BY <1>5
  <2>2. CASE i <= n
    <3>1. /\ Len(queue) + i \in (idx' + 1)..Len(queue') /\ queue'[Len(queue) + i] = c
      BY <1>1, <1>2, <1>4, <2>1, <2>2
    <3> QED
      BY <3>1 DEF Held
  <2>3. CASE ~(i <= n)
    <3>1. i - n \in 1..Len(inbox') /\ inbox'[i - n] = inbox[n + (i - n)] /\ n + (i - n) = i
      BY <1>1, <1>2, <2>3
    <3> QED
      BY <2>1, <3>1 DEF Held
  <2> QED
    BY <2>2, <2>3
<1>6. CASE \E i \in (idx + 1)..Len(queue) : queue[i] = c
  <2>1. PICK i \in (idx + 1)..Len(queue) : queue[i] = c
    BY <1>6
  <2>2. i \in 1..Len(queue) /\ queue'[i] = queue[i]
    BY <1>1, <1>2, <2>1
  <2>3. i \in (idx' + 1)..Len(queue')
    <3>1. PICK k \in Nat : k = idx' /\ k <= idx
      BY <1>4
    <3>2. i \in (k + 1)..(Len(queue) + n)
      <4>1. n \in Nat /\ Len(queue) \in Nat /\ idx \in Nat
        BY <1>2
      <4>2. i \in Nat /\ idx < i /\ i <= Len(queue)
        BY <2>1, <4>1
      <4>3. k < i
        BY <3>1, <4>1, <4>2
      <4>4. i <= Len(queue) + n /\ Len(queue) + n \in Nat
        BY <4>1, <4>2
      <4>5. k + 1 <= i /\ k + 1 \in Nat
        BY <4>2, <4>3
      <4> QED
        BY <4>2, <4>4, <4>5
    <3> QED
      BY <1>1, <3>1, <3>2
  <2> QED
    BY <2>1, <2>2, <2>3 DEF Held
<1>7. CASE running = c \/ c \in outbox \cup deferred
  BY <1>3, <1>7 DEF Held
<1> QED
  BY <1>5, <1>6, <1>7 DEF Held

LEMMA KeptByReturn ==
  ASSUME KeepInv, HandlerReturns, NEW c \in Commands, Held(c), gen \notin nested, stage = "live"
  PROVE  Held(c)'
<1>1. /\ UNCHANGED <<queue, inbox>> /\ idx' = idx + 1 /\ running # NoCommand
      /\ outbox \cup deferred \cup {running} \subseteq outbox' \cup deferred'
  BY DEF HandlerReturns, linkVars
<1>2. idx \in Nat /\ Len(queue) \in Nat /\ queue[idx + 1] = running
  BY <1>1, Lengths DEF KeepInv, OnceInv, LinkInv, NestInv, InStep, TypeOK
<1>3. CASE \E i \in (idx + 1)..Len(queue) : queue[i] = c
  <2>1. PICK i \in (idx + 1)..Len(queue) : queue[i] = c
    BY <1>3
  <2>2. CASE i = idx + 1
    BY <1>1, <1>2, <2>1, <2>2 DEF Held
  <2>3. CASE i # idx + 1
    <3>1. i \in (idx' + 1)..Len(queue') /\ queue'[i] = c
      BY <1>1, <1>2, <2>1, <2>3
    <3> QED
      BY <3>1 DEF Held
  <2> QED
    BY <2>2, <2>3
<1> QED
  BY <1>1, <1>3 DEF Held

LEMMA KeptByEndTick ==
  ASSUME KeepInv, EndTick, NEW c \in Commands, Held(c), gen \notin nested, stage = "live"
  PROVE  Held(c)' \/ Settled(c)'
<1>1. /\ TypeOK /\ idx \in Nat /\ Len(queue) \in Nat
  BY Lengths DEF KeepInv, OnceInv, LinkInv, TypeOK
<1>2. /\ UNCHANGED <<inbox, deferred>> /\ running = NoCommand /\ idx' = 0
      /\ Send(outbox) /\ outbox \in SUBSET Commands
  BY <1>1 DEF EndTick, TypeOK, linkVars
<1>3. CASE c \in outbox
  <2>1. answers'[c] > answers[c] \/ c \in dropped'
    BY <1>1, <1>2, <1>3, SendCounts
  <2>2. answers[c] \in Nat /\ answers'[c] \in Nat
    BY <1>1, <1>2, SendCounts DEF TypeOK
  <2> QED
    BY <2>1, <2>2 DEF Settled
<1>4. CASE \E i \in (idx + 1)..Len(queue) : queue[i] = c
  <2>1. PICK i \in (idx + 1)..Len(queue) : queue[i] = c
    BY <1>4
  <2>2. /\ Len(queue') = Len(queue) - idx /\ i - idx \in 1..Len(queue')
        /\ queue'[i - idx] = queue[idx + (i - idx)] /\ idx + (i - idx) = i
    BY <1>1, <2>1, EndTickSlices
  <2>3. i - idx \in (idx' + 1)..Len(queue') /\ queue'[i - idx] = c
    BY <1>2, <2>1, <2>2
  <2> QED
    BY <2>3 DEF Held
<1> QED
  BY <1>2, <1>3, <1>4 DEF Held

\* A test run that leaves the socket open has rejected every packet.
LEMMA KeptByService ==
  ASSUME KeepInv, ServiceTransport, peer' = "open", NEW c \in Commands, Held(c)
  PROVE  Held(c)' \/ Settled(c)'
<1> DEFINE n == Lesser(Len(inbox), FloodCap - serviced)
           rejected == {inbox[i] : i \in 1..n}
<1>1. /\ TypeOK /\ Len(inbox) \in Nat /\ n \in 0..Len(inbox)
      /\ \A i \in 1..Len(inbox) : inbox[i] \in Commands
  <2>1. /\ TypeOK /\ Len(inbox) \in Nat
        /\ \A i \in 1..Len(inbox) : inbox[i] \in Commands
    BY Lengths DEF KeepInv, OnceInv, LinkInv
  <2>2. FloodCap - serviced \in Nat
    BY <2>1 DEF TypeOK
  <2> QED
    BY <2>1, <2>2 DEF Lesser
<1>2. /\ Send(rejected) /\ peer' = IF n < Len(inbox) THEN "closing" ELSE "open"
      /\ UNCHANGED <<queue, idx, running, outbox, deferred>>
  BY DEF ServiceTransport, Replace
<1> HIDE DEF n
<1>3. n = Len(inbox)
  BY <1>1, <1>2
<1>4. CASE \E i \in 1..Len(inbox) : inbox[i] = c
  <2>1. c \in rejected /\ rejected \in SUBSET Commands
    BY <1>1, <1>3, <1>4
  <2> HIDE DEF rejected
  <2>2. /\ answers'[c] > answers[c] \/ c \in dropped'
        /\ answers[c] \in Nat /\ answers'[c] \in Nat
    BY <1>1, <1>2, <2>1, SendCounts DEF TypeOK
  <2> QED
    BY <2>2 DEF Settled
<1> QED
  BY <1>2, <1>4 DEF Held

LEMMA KeptByReply ==
  ASSUME KeepInv, NEW d \in Commands, DeferredReply(d), NEW c \in Commands, Held(c)
  PROVE  Held(c)' \/ Settled(c)'
<1>1. UNCHANGED <<queue, idx, running, outbox, inbox>>
  BY DEF DeferredReply, linkVars, tickVars
<1>2. CASE UNCHANGED deferred
  BY <1>1, <1>2, HeldStays
<1>3. CASE deferred' = deferred \ {d} /\ answers' = [answers EXCEPT ![d] = @ + 1]
  <2>1. answers \in [Commands -> Nat]
    BY DEF KeepInv, OnceInv, LinkInv, TypeOK
  <2>2. answers'[d] > 0
    BY <1>3, <2>1
  <2> QED
    BY <1>1, <1>3, <2>2 DEF Held, Settled
<1> QED
  BY <1>2, <1>3 DEF DeferredReply

LEMMA StepKept == KeepInv /\ [Next]_vars => LostOnlyWhenNested'
<1> SUFFICES ASSUME KeepInv, [Next]_vars, NEW c \in Commands, Accepted(c)', home'[c] \notin nested'
             PROVE  Held(c)' \/ Settled(c)'
  BY DEF LostOnlyWhenNested
<1>1. CASE LinkSteps
  BY <1>1, KeptByLink
<1>2. CASE UNCHANGED <<gen, nested, home, stage>> /\ (peer' = "open" => peer = "open")
  <2>1. /\ Held(c) \/ Settled(c)
        /\ gen \notin nested /\ stage = "live"
    BY <1>2, KeptBefore
  <2>2. CASE Settled(c)
    BY <2>2, SettledStays DEF KeepInv
  <2>3. CASE Held(c)
    <3>1. CASE LinkSteps
      BY <1>1, <3>1
    <3>2. ASSUME NEW late \in SUBSET deferred, Frame(late) PROVE Held(c)'
      BY <2>1, <2>3, <3>2, KeptByFrame
    <3>3. CASE Dispatch
      BY <2>3, <3>3 DEF Dispatch, Held, linkVars
    <3>4. CASE HandlerReturns
      BY <2>1, <2>3, <3>4, KeptByReturn
    <3>5. CASE EndTick
      BY <2>1, <2>3, <3>5, KeptByEndTick
    <3>6. CASE HandlerPauses \/ HandlerResumes \/ UNCHANGED vars
      BY <2>3, <3>6, HeldStays DEF HandlerPauses, HandlerResumes, vars, linkVars, tickVars
    <3>7. CASE ServiceTransport
      BY <2>3, <3>7, KeptByService DEF Accepted
    <3>8. ASSUME NEW d \in Commands, DeferredReply(d) PROVE Held(c)' \/ Settled(c)'
      BY <2>3, <3>8, KeptByReply
    <3> QED
      BY <3>1, <3>2, <3>3, <3>4, <3>5, <3>6, <3>7, <3>8, StepCases
  <2> QED
    BY <2>1, <2>2, <2>3
<1>3. LinkSteps \/ (UNCHANGED <<gen, nested, home, stage>> /\ (peer' = "open" => peer = "open"))
  <2>1. ASSUME NEW late \in SUBSET deferred, Frame(late)
        PROVE  UNCHANGED <<gen, nested, home, stage, peer>>
    BY <2>1 DEF Frame, sentVars
  <2>2. ASSUME NEW d \in Commands, DeferredReply(d)
        PROVE  UNCHANGED <<gen, nested, home, stage, peer>>
    BY <2>2 DEF DeferredReply, linkVars, sentVars
  <2>3. Dispatch \/ HandlerReturns \/ EndTick \/ HandlerPauses \/ HandlerResumes \/ UNCHANGED vars
          => UNCHANGED <<gen, nested, home, stage, peer>>
    BY DEF Dispatch, HandlerReturns, EndTick, HandlerPauses, HandlerResumes, vars, linkVars, sentVars
  <2>4. ServiceTransport => UNCHANGED <<gen, nested, home, stage>> /\ peer = "open"
    BY DEF ServiceTransport, sentVars
  <2> QED
    BY <2>1, <2>2, <2>3, <2>4, StepCases
<1> QED
  BY <1>1, <1>2, <1>3

\* While its connection lives, no accepted command is lost but on a socket
\* that a pumped frame dialled (LostOnlyWhenNested).
THEOREM NothingLost == Spec => []LostOnlyWhenNested
<1>1. Init => KeepInv
  BY InitType, InitTick, InitLink, InitOnce, InitNest DEF KeepInv, OnceInv, LinkInv
<1>2. KeepInv /\ [Next]_vars => KeepInv'
  BY StepType, StepTick, StepChannel, StepHomes, StepDistinct, StepWaiting, StepOwing, StepOnce,
     StepNest, StepKept DEF KeepInv, OnceInv, LinkInv
<1>3. KeepInv => LostOnlyWhenNested
  BY DEF KeepInv
<1> QED
  BY <1>1, <1>2, <1>3, PTL DEF Spec

-----------------------------------------------------------------------------
(* Commands start in the order they were sent.                             *)

\* Its handler was called, or it was refused during a test run.
Done(c) == started[c] > 0 \/ c \in busy

Queued(c) == \E i \in 1..Len(queue) : queue[i] = c

Packed(c) == \E i \in 1..Len(inbox) : inbox[i] = c

\* What the tick's index has passed was started.
Passed == \A i \in 1..Len(queue) : i <= idx => started[queue[i]] > 0

\* What was sent before a queued command is done with or queued ahead of it.
QueueOrder ==
  \A i \in 1..Len(queue), c \in Commands :
    Before(c, queue[i]) /\ home[c] = gen =>
      Done(c) \/ \E j \in 1..Len(queue) : j < i /\ queue[j] = c

\* What was sent before a packet is done with, queued, or a packet ahead of it.
PacketOrder ==
  \A i \in 1..Len(inbox), c \in Commands :
    Before(c, inbox[i]) /\ home[c] = gen =>
      Done(c) \/ Queued(c) \/ \E j \in 1..Len(inbox) : j < i /\ inbox[j] = c

\* While the socket is in use, nothing that was sent on it is anywhere else.
NoneAstray ==
  peer = "open" /\ stage = "live" =>
    \A c \in Commands : home[c] = gen => Done(c) \/ Queued(c) \/ Packed(c)

\* The order has only commands that were sent, and only an open socket packets.
Recorded ==
  /\ \A i \in 1..Len(order) : home[order[i]] # 0
  /\ peer # "open" => inbox = <<>>

\* A socket that a pumped frame dialled is exempt: the tick's index is of the
\* queue before it.
InOrder == gen \notin nested => Passed /\ QueueOrder /\ PacketOrder /\ NoneAstray

OrderInv == OnceInv /\ NestInv /\ Recorded /\ InOrder

LEMMA InitOrder == Init => Recorded /\ InOrder
<1> SUFFICES ASSUME Init PROVE Recorded /\ InOrder
  OBVIOUS
<1>1. Len(queue) = 0 /\ Len(inbox) = 0 /\ Len(order) = 0
  BY EmptyLen DEF Init
<1> QED
  BY <1>1 DEF Init, Recorded, InOrder, Passed, QueueOrder, PacketOrder, NoneAstray

\* What was started or refused stays so.
LEMMA DoneStays ==
  ASSUME OnceInv, [Next]_vars, NEW c \in Commands
  PROVE  /\ started[c] > 0 => started'[c] > 0
         /\ Done(c) => Done(c)'
<1>1. started[c] \in Nat /\ started \in [Commands -> Nat]
  BY DEF OnceInv, LinkInv, TypeOK
<1>2. CASE UNCHANGED started
  BY <1>2, Counts DEF Done
<1>3. CASE Dispatch
  <2>1. started' = [started EXCEPT ![queue[idx + 1]] = @ + 1] /\ UNCHANGED busy
    BY <1>3 DEF Dispatch
  <2>2. started'[c] >= started[c] /\ started'[c] \in Nat
    BY <1>1, <2>1
  <2> QED
    BY <1>1, <2>1, <2>2 DEF Done
<1> QED
  BY <1>2, <1>3, Counts

\* The order only grows: what precedes a command that was sent stays the same.
LEMMA BeforeStays ==
  ASSUME OnceInv, Recorded, UNCHANGED <<home, order>> \/ \E e \in Commands : ServerSends(e),
         NEW c \in Commands, NEW d \in Commands, home[d] # 0, Before(c, d)'
  PROVE  Before(c, d) /\ home'[c] = home[c]
<1>1. CASE UNCHANGED <<home, order>>
  BY <1>1 DEF sentVars, Before
<1>2. ASSUME NEW e \in Commands, ServerSends(e) PROVE Before(c, d) /\ home'[c] = home[c]
  <2>1. /\ home[e] = 0 /\ home' = [home EXCEPT ![e] = gen] /\ order' = Append(order, e)
        /\ order \in Seq(Commands) /\ home \in [Commands -> 0..MaxLinks]
    BY <1>2 DEF ServerSends, OnceInv, LinkInv, TypeOK
  <2>2. /\ Len(order') = Len(order) + 1 /\ order'[Len(order) + 1] = e
        /\ \A i \in 1..Len(order) : order'[i] = order[i]
        /\ Len(order) \in Nat
    BY <2>1, Appended, LenProperties
  <2>3. PICK i, j \in 1..Len(order') : i < j /\ order'[i] = c /\ order'[j] = d
    BY DEF Before
  <2>4. j # Len(order) + 1
    BY <2>1, <2>2, <2>3
  <2>5. i \in 1..Len(order) /\ j \in 1..Len(order)
    BY <2>2, <2>3, <2>4
  <2>6. order[i] = c /\ order[j] = d
    BY <2>2, <2>3, <2>5
  <2>7. c # e
    BY <2>1, <2>5, <2>6 DEF Recorded
  <2> QED
    BY <2>1, <2>3, <2>5, <2>6, <2>7 DEF Before
<1> QED
  BY <1>1, <1>2

\* A step that moves no command, or clears the queue together with the packets.
LEMMA OrderKept ==
  ASSUME OrderInv, [Next]_vars, UNCHANGED <<gen, nested, home, order>>,
         \/ UNCHANGED <<queue, idx>>
         \/ queue' = <<>> /\ inbox' = <<>>,
         inbox' \in {inbox, <<>>}, NoneAstray'
  PROVE  InOrder'
<1> SUFFICES ASSUME gen \notin nested PROVE (Passed /\ QueueOrder /\ PacketOrder)'
  BY DEF InOrder
<1>1. Passed /\ QueueOrder /\ PacketOrder
  BY DEF OrderInv, InOrder
<1>2. OnceInv /\ Len(<<>>) = 0
  BY EmptyLen DEF OrderInv
<1>3. \A c \in Commands : (started[c] > 0 => started'[c] > 0) /\ (Done(c) => Done(c)')
  BY <1>2, DoneStays
<1>4. \A c, d : Before(c, d)' <=> Before(c, d)
  BY DEF Before
<1>5. \A i \in 1..Len(queue) : queue[i] \in Commands
  BY <1>2, Lengths DEF OnceInv, LinkInv
<1>6. CASE queue' = <<>> /\ inbox' = <<>>
  BY <1>2, <1>6 DEF Passed, QueueOrder, PacketOrder
<1>7. CASE UNCHANGED <<queue, idx>>
  <2>1. Passed'
    BY <1>1, <1>3, <1>5, <1>7 DEF Passed
  <2>2. QueueOrder'
    BY <1>1, <1>3, <1>4, <1>7 DEF QueueOrder
  <2>3. CASE inbox' = <<>>
    BY <1>2, <2>1, <2>2, <2>3 DEF PacketOrder
  <2>4. CASE inbox' = inbox
    <3>1. \A c : Queued(c)' <=> Queued(c)
      BY <1>7 DEF Queued
    <3>2. PacketOrder'
      BY <1>1, <1>3, <1>4, <2>4, <3>1 DEF PacketOrder
    <3> QED
      BY <2>1, <2>2, <3>2
  <2> QED
    BY <2>3, <2>4
<1> QED
  BY <1>6, <1>7

\* What is done with, queued or a packet stays so while nothing is cleared.
LEMMA NoneAstrayKept ==
  ASSUME OrderInv, [Next]_vars, UNCHANGED <<gen, home, queue, inbox>>, gen \notin nested,
         peer' = "open" /\ stage' = "live" => peer = "open" /\ stage = "live"
  PROVE  NoneAstray'
<1>1. \A c \in Commands : Done(c) => Done(c)'
  BY DoneStays DEF OrderInv
<1>2. \A c : (Queued(c)' <=> Queued(c)) /\ (Packed(c)' <=> Packed(c))
  BY DEF Queued, Packed
<1> QED
  BY <1>1, <1>2 DEF OrderInv, InOrder, NoneAstray

\* A new socket starts with no command on any list.
LEMMA DialOrder ==
  ASSUME OrderInv, Reconnect \/ Authorize
  PROVE  InOrder'
<1>1. stage = "offline" /\ queue = <<>>
  BY DEF Reconnect, Authorize, OrderInv, OnceInv, LinkInv, Channel
<1>2. queue' = <<>> /\ inbox' = <<>> /\ peer' = "connecting"
  BY <1>1 DEF Reconnect, Authorize, Dial, Replace
<1>3. Len(queue') = 0 /\ Len(inbox') = 0
  BY <1>2, EmptyLen
<1> QED
  BY <1>2, <1>3 DEF InOrder, Passed, QueueOrder, PacketOrder, NoneAstray

\* The socket in use is one on which something may be sent only once it is
\* authenticated; when it closes, its packets are gone.
LEMMA LinkOrder ==
  ASSUME OrderInv, [Next]_vars, LinkSteps, ~(Reconnect \/ Authorize),
         ~\E c \in Commands : ServerSends(c)
  PROVE  InOrder'
<1>1. /\ UNCHANGED <<gen, nested, home, order, idx>> /\ inbox' \in {inbox, <<>>}
      /\ UNCHANGED queue \/ queue' = <<>>
  BY LinkFrame DEF LinkSteps, SocketStep, PollStep, SocketOpens, SocketCloses, Greet, Authenticated,
     FailHandshake, ObserveClosed, Revoke, ReloadTimesOut, ReloadToggles, linkVars, sentVars, tickVars
<1>2. UNCHANGED queue \/ (queue' = <<>> /\ inbox' = <<>>)
  <2>1. CASE SocketOpens \/ SocketCloses \/ Greet \/ Authenticated \/ FailHandshake \/ ReloadTimesOut
    BY <2>1 DEF SocketOpens, SocketCloses, Greet, Authenticated, FailHandshake, ReloadTimesOut
  <2>2. CASE ObserveClosed
    BY <2>2 DEF ObserveClosed, ClearOnDisconnect, linkVars, OrderInv, Recorded
  <2>3. CASE Revoke \/ ReloadToggles
    BY <2>3 DEF Revoke, ReloadToggles, ClearOnDisconnect, Replace
  <2> QED
    BY <2>1, <2>2, <2>3 DEF LinkSteps, SocketStep, PollStep
<1>3. gen \notin nested => NoneAstray'
  <2> SUFFICES ASSUME gen \notin nested PROVE NoneAstray'
    OBVIOUS
  <2>1. CASE SocketOpens
    BY <2>1 DEF SocketOpens, NoneAstray, OrderInv, OnceInv, LinkInv, Channel
  <2>2. CASE SocketCloses \/ FailHandshake \/ Revoke \/ ReloadToggles
    BY <2>2 DEF SocketCloses, FailHandshake, Revoke, ReloadToggles, Replace, NoneAstray
  <2>3. CASE Greet \/ ObserveClosed
    BY <2>3 DEF Greet, ObserveClosed, ClearOnDisconnect, NoneAstray
  <2>4. CASE Authenticated
    <3>1. peer = "open" /\ stage # "live"
      BY <2>4 DEF Authenticated
    <3>2. \A c \in Commands : home[c] # gen
      BY <3>1 DEF OrderInv, NestInv
    <3> QED
      BY <1>1, <3>2 DEF NoneAstray
  <2>5. CASE ReloadTimesOut
    <3>1. UNCHANGED <<queue, inbox, peer, stage>>
      BY <2>5 DEF ReloadTimesOut, linkVars
    <3> QED
      BY <1>1, <3>1, NoneAstrayKept
  <2> QED
    BY <2>1, <2>2, <2>3, <2>4, <2>5 DEF LinkSteps, SocketStep, PollStep
<1> QED
  BY <1>1, <1>2, <1>3, OrderKept DEF InOrder

\* A command that is sent comes after all that was sent on its socket.
LEMMA SendOrder ==
  ASSUME OrderInv, [Next]_vars, NEW d \in Commands, ServerSends(d)
  PROVE  InOrder'
<1> SUFFICES ASSUME gen \notin nested PROVE (Passed /\ QueueOrder /\ PacketOrder /\ NoneAstray)'
  BY DEF InOrder, ServerSends
<1>1. /\ Passed /\ QueueOrder /\ PacketOrder /\ NoneAstray /\ OnceInv /\ Recorded
      /\ TypeOK
  BY DEF OrderInv, InOrder, OnceInv, LinkInv
<1>2. /\ UNCHANGED <<gen, queue, idx, started, busy, peer, stage>> /\ peer = "open" /\ stage = "live"
      /\ home[d] = 0 /\ home' = [home EXCEPT ![d] = gen]
      /\ inbox' = Append(inbox, d) /\ order' = Append(order, d)
  BY DEF ServerSends, tickVars
<1>3. /\ \A c \in Commands : home'[c] = IF c = d THEN gen ELSE home[c]
      /\ \A c \in Commands : Done(c)' <=> Done(c)
      /\ \A c \in Commands : Queued(c)' <=> Queued(c)
  BY <1>1, <1>2 DEF TypeOK, Done, Queued
<1>4. /\ Len(inbox') = Len(inbox) + 1 /\ inbox'[Len(inbox) + 1] = d /\ Len(inbox) \in Nat
      /\ \A i \in 1..Len(inbox) : inbox'[i] = inbox[i]
  BY <1>1, <1>2, Appended, Lengths DEF TypeOK
<1>5. /\ \A i \in 1..Len(queue) : queue[i] \in Commands /\ home[queue[i]] # 0
      /\ \A i \in 1..Len(inbox) : inbox[i] \in Commands /\ home[inbox[i]] # 0
  BY <1>1, Lengths, SentSomewhere DEF OnceInv
<1>6. \A c, e \in Commands : home[e] # 0 /\ Before(c, e)' => Before(c, e) /\ home'[c] = home[c]
  BY <1>1, BeforeStays
<1>7. Passed'
  BY <1>1, <1>2 DEF Passed
<1>8. QueueOrder'
  BY <1>1, <1>2, <1>3, <1>5, <1>6 DEF QueueOrder
<1>9. \A c \in Commands : Packed(c)' <=> Packed(c) \/ c = d
  <2>1. ASSUME NEW c \in Commands, Packed(c)' PROVE Packed(c) \/ c = d
    <3>1. PICK i \in 1..Len(inbox') : inbox'[i] = c
      BY <2>1 DEF Packed
    <3>2. i = Len(inbox) + 1 \/ i \in 1..Len(inbox)
      BY <1>4
    <3> QED
      BY <1>4, <3>1, <3>2 DEF Packed
  <2>2. ASSUME NEW c \in Commands, Packed(c) PROVE Packed(c)'
    <3>1. PICK i \in 1..Len(inbox) : inbox[i] = c
      BY <2>2 DEF Packed
    <3>2. i \in 1..Len(inbox') /\ inbox'[i] = c
      BY <1>4, <3>1
    <3> QED
      BY <3>2 DEF Packed
  <2>3. Packed(d)'
    <3>1. Len(inbox) + 1 \in 1..Len(inbox')
      BY <1>4
    <3> QED
      BY <1>4, <3>1 DEF Packed
  <2> QED
    BY <2>1, <2>2, <2>3
<1>10. NoneAstray'
  BY <1>1, <1>2, <1>3, <1>9 DEF NoneAstray
<1>11. PacketOrder'
  <2> SUFFICES ASSUME NEW i \in 1..Len(inbox'), NEW c \in Commands,
                      Before(c, inbox[i])', home'[c] = gen, ~Done(c), ~Queued(c)
               PROVE  \E j \in 1..Len(inbox') : j < i /\ inbox'[j] = c
    BY <1>2, <1>3 DEF PacketOrder
  <2>1. CASE i \in 1..Len(inbox)
    <3>1. Before(c, inbox[i]) /\ home[c] = gen
      BY <1>4, <1>5, <1>6, <2>1
    <3>2. PICK j \in 1..Len(inbox) : j < i /\ inbox[j] = c
      BY <1>1, <2>1, <3>1 DEF PacketOrder
    <3>3. j \in 1..Len(inbox') /\ inbox'[j] = c
      BY <1>4, <3>2
    <3> QED
      BY <3>2, <3>3
  <2>2. CASE i = Len(inbox) + 1
    <3>1. c # d /\ home[c] = gen
      <4>1. PICK k, l \in 1..Len(order') : k < l /\ order'[k] = c /\ order'[l] = d
        BY <1>4, <2>2 DEF Before
      <4>2. /\ Len(order') = Len(order) + 1 /\ Len(order) \in Nat
            /\ \A m \in 1..Len(order) : order'[m] = order[m]
        BY <1>1, <1>2, Appended, LenProperties DEF TypeOK
      <4>3. k \in 1..Len(order)
        BY <4>1, <4>2
      <4>4. order[k] = c
        BY <4>1, <4>2, <4>3
      <4>5. c # d
        BY <1>1, <1>2, <4>3, <4>4 DEF Recorded
      <4> QED
        BY <1>3, <4>5
    <3>2. PICK j \in 1..Len(inbox) : inbox[j] = c
      BY <1>1, <1>2, <3>1 DEF NoneAstray, Packed
    <3>3. j \in 1..Len(inbox') /\ inbox'[j] = c /\ j < i
      BY <1>4, <2>2, <3>2
    <3> QED
      BY <3>3
  <2> QED
    BY <1>4, <2>1, <2>2
<1> QED
  BY <1>7, <1>8, <1>10, <1>11

\* A frame moves a prefix of the packets to the end of the queue, in order.
LEMMA FrameOrder ==
  ASSUME OrderInv, [Next]_vars, NEW late \in SUBSET deferred, Frame(late)
  PROVE  InOrder'
<1> SUFFICES ASSUME gen \notin nested PROVE (Passed /\ QueueOrder /\ PacketOrder /\ NoneAstray)'
  BY DEF InOrder, Frame
<1>1. /\ Passed /\ QueueOrder /\ PacketOrder /\ NoneAstray /\ OnceInv /\ TypeOK /\ TickInv
      /\ Len(queue) \in Nat /\ Len(inbox) \in Nat /\ idx \in Nat
  BY Lengths DEF OrderInv, InOrder, OnceInv, LinkInv, TypeOK
<1>2. /\ UNCHANGED <<gen, home, order, started, busy, peer, stage>> /\ stage = "live" /\ peer = "open"
  BY DEF Frame, sentVars
<1>3. /\ \A c \in Commands : Done(c)' <=> Done(c)
      /\ \A c, d : Before(c, d)' <=> Before(c, d)
  BY <1>2 DEF Done, Before
<1>4. PICK n \in 0..Len(inbox) :
        /\ Len(queue') = Len(queue) + n /\ Len(inbox') = Len(inbox) - n
        /\ \A i \in 1..Len(queue) : queue'[i] = queue[i]
        /\ \A i \in 1..n : queue'[Len(queue) + i] = inbox[i]
        /\ \A i \in 1..(Len(inbox) - n) : inbox'[i] = inbox[n + i]
  BY <1>1, DrainMoves DEF Frame
<1>5. idx' \in Nat /\ idx' <= idx /\ idx <= Len(queue)
  <2>1. idx <= Len(queue)
    BY <1>2 DEF OrderInv, NestInv, InStep
  <2>2. idx' = 0 \/ UNCHANGED idx
    BY DEF Frame, BeginTick, tickVars
  <2> QED
    BY <1>1, <2>1, <2>2
\* Where a queued command or a packet is after the frame.
<1>6. \A j \in 1..Len(queue) : j \in 1..Len(queue') /\ queue'[j] = queue[j]
  BY <1>1, <1>4
<1>7. \A j \in 1..Len(inbox) :
        \/ j <= n /\ Len(queue) + j \in 1..Len(queue') /\ queue'[Len(queue) + j] = inbox[j]
        \/ ~(j <= n) /\ j - n \in 1..Len(inbox') /\ inbox'[j - n] = inbox[j]
  <2> SUFFICES ASSUME NEW j \in 1..Len(inbox)
               PROVE  \/ j <= n /\ Len(queue) + j \in 1..Len(queue') /\ queue'[Len(queue) + j] = inbox[j]
                      \/ ~(j <= n) /\ j - n \in 1..Len(inbox') /\ inbox'[j - n] = inbox[j]
    OBVIOUS
  <2>1. CASE j <= n
    <3>1. j \in 1..n /\ Len(queue) + j \in 1..(Len(queue) + n)
      BY <1>1, <2>1
    <3> QED
      BY <1>4, <2>1, <3>1
  <2>2. CASE ~(j <= n)
    <3>1. j - n \in 1..(Len(inbox) - n) /\ n + (j - n) = j
      BY <1>1, <2>2
    <3>2. inbox'[j - n] = inbox[n + (j - n)]
      BY <1>4, <3>1
    <3> QED
      BY <1>4, <2>2, <3>1, <3>2
  <2> QED
    BY <2>1, <2>2
\* Where it was before.
<1>8. \A i \in 1..Len(queue') :
        i \in 1..Len(queue) \/ \E k \in 1..Len(inbox) : k <= n /\ i = Len(queue) + k /\ queue'[i] = inbox[k]
  <2> SUFFICES ASSUME NEW i \in 1..Len(queue'), i \notin 1..Len(queue)
               PROVE  \E k \in 1..Len(inbox) : k <= n /\ i = Len(queue) + k /\ queue'[i] = inbox[k]
    OBVIOUS
  <2>1. i \in 1..(Len(queue) + n)
    BY <1>4
  <2> DEFINE k == i - Len(queue)
  <2>2. k \in 1..Len(inbox) /\ k <= n /\ i = Len(queue) + k
    BY <1>1, <2>1
  <2> HIDE DEF k
  <2>3. queue'[i] = inbox[k]
    BY <1>7, <2>2
  <2> QED
    BY <2>2, <2>3
<1>9. \A i \in 1..Len(inbox') : n + i \in 1..Len(inbox) /\ inbox'[i] = inbox[n + i] /\ ~(n + i <= n)
  BY <1>1, <1>4
<1>10. Passed'
  <2> SUFFICES ASSUME NEW i \in 1..Len(queue'), i <= idx' PROVE started'[queue'[i]] > 0
    BY DEF Passed
  <2>1. i \in 1..Len(queue) /\ i <= idx
    BY <1>1, <1>4, <1>5
  <2> QED
    BY <1>1, <1>2, <1>6, <2>1 DEF Passed
<1>11. QueueOrder'
  <2> SUFFICES ASSUME NEW i \in 1..Len(queue'), NEW c \in Commands,
                      Before(c, queue'[i]), home[c] = gen, ~Done(c)
               PROVE  \E j \in 1..Len(queue') : j < i /\ queue'[j] = c
    BY <1>2, <1>3 DEF QueueOrder
  <2>1. CASE i \in 1..Len(queue)
    <3>1. PICK j \in 1..Len(queue) : j < i /\ queue[j] = c
      BY <1>1, <1>6, <2>1 DEF QueueOrder
    <3> QED
      BY <1>6, <3>1
  <2>2. CASE i \notin 1..Len(queue)
    <3>1. PICK k \in 1..Len(inbox) : k <= n /\ i = Len(queue) + k /\ queue'[i] = inbox[k]
      BY <1>8, <2>2
    <3>2. Queued(c) \/ \E j \in 1..Len(inbox) : j < k /\ inbox[j] = c
      BY <1>1, <3>1 DEF PacketOrder
    <3>3. CASE Queued(c)
      <4>1. PICK j \in 1..Len(queue) : queue[j] = c
        BY <3>3 DEF Queued
      <4>2. j < i
        BY <1>1, <3>1
      <4> QED
        BY <1>6, <4>1, <4>2
    <3>4. CASE \E j \in 1..Len(inbox) : j < k /\ inbox[j] = c
      <4>1. PICK j \in 1..Len(inbox) : j < k /\ inbox[j] = c
        BY <3>4
      <4>2. j <= n /\ Len(queue) + j < i
        BY <1>1, <3>1, <4>1
      <4>3. Len(queue) + j \in 1..Len(queue') /\ queue'[Len(queue) + j] = c
        BY <1>7, <4>1, <4>2
      <4> QED
        BY <4>2, <4>3
    <3> QED
      BY <3>2, <3>3, <3>4
  <2> QED
    BY <2>1, <2>2
<1>12. \A c \in Commands : Queued(c) => Queued(c)'
  BY <1>6 DEF Queued
<1>13. PacketOrder'
  <2> SUFFICES ASSUME NEW i \in 1..Len(inbox'), NEW c \in Commands,
                      Before(c, inbox'[i]), home[c] = gen, ~Done(c), ~Queued(c)'
               PROVE  \E j \in 1..Len(inbox') : j < i /\ inbox'[j] = c
    BY <1>2, <1>3 DEF PacketOrder
  <2>1. n + i \in 1..Len(inbox) /\ Before(c, inbox[n + i])
    BY <1>9
  <2>2. PICK j \in 1..Len(inbox) : j < n + i /\ inbox[j] = c
    BY <1>1, <1>12, <2>1 DEF PacketOrder
  <2>3. ~(j <= n)
    <3>1. ASSUME j <= n PROVE FALSE
      <4>1. Len(queue) + j \in 1..Len(queue') /\ queue'[Len(queue) + j] = c
        BY <1>7, <2>2, <3>1
      <4> QED
        BY <4>1 DEF Queued
    <3> QED
      BY <3>1
  <2>4. j - n \in 1..Len(inbox') /\ inbox'[j - n] = c
    BY <1>7, <2>2, <2>3
  <2>5. j - n < i
    BY <1>1, <2>2
  <2> QED
    BY <2>4, <2>5
<1>14. NoneAstray'
  <2> SUFFICES ASSUME NEW c \in Commands, home[c] = gen, ~Done(c) PROVE Queued(c)' \/ Packed(c)'
    BY <1>2, <1>3 DEF NoneAstray
  <2>1. Queued(c) \/ Packed(c)
    BY <1>1, <1>2 DEF NoneAstray
  <2>2. ASSUME Packed(c) PROVE Queued(c)' \/ Packed(c)'
    <3>1. PICK j \in 1..Len(inbox) : inbox[j] = c
      BY <2>2 DEF Packed
    <3> QED
      BY <1>7, <3>1 DEF Queued, Packed
  <2> QED
    BY <1>12, <2>1, <2>2
<1> QED
  BY <1>10, <1>11, <1>13, <1>14

\* The handler that returns is of the command at the tick's index, and it was
\* started.
LEMMA ReturnOrder ==
  ASSUME OrderInv, [Next]_vars, HandlerReturns
  PROVE  InOrder'
<1> SUFFICES ASSUME gen \notin nested PROVE (Passed /\ QueueOrder /\ PacketOrder /\ NoneAstray)'
  BY DEF InOrder, HandlerReturns, linkVars
<1>1. /\ Passed /\ QueueOrder /\ PacketOrder /\ NoneAstray /\ OnceInv /\ TypeOK
      /\ Len(queue) \in Nat /\ idx \in Nat
  BY Lengths DEF OrderInv, InOrder, OnceInv, LinkInv, TypeOK
<1>2. /\ UNCHANGED <<gen, home, order, started, busy, peer, stage, queue, inbox>>
      /\ running # NoCommand /\ idx' = idx + 1
  BY DEF HandlerReturns, linkVars, sentVars
<1>3. /\ \A c \in Commands : Done(c)' <=> Done(c)
      /\ \A c \in Commands : Queued(c)' <=> Queued(c)
      /\ \A c \in Commands : Packed(c)' <=> Packed(c)
      /\ \A c, d : Before(c, d)' <=> Before(c, d)
  BY <1>2 DEF Done, Queued, Packed, Before
<1>4. Passed'
  <2> SUFFICES ASSUME NEW i \in 1..Len(queue), i <= idx + 1 PROVE started[queue[i]] > 0
    BY <1>2 DEF Passed
  <2>1. CASE i <= idx
    BY <1>1, <2>1 DEF Passed
  <2>2. CASE i = idx + 1
    <3>1. stage = "live"
      BY EmptyLen DEF OrderInv, OnceInv, LinkInv, Channel
    <3>2. queue[idx + 1] = running
      BY <1>2, <3>1 DEF OrderInv, NestInv, InStep
    <3>3. started[running] = 1
      BY <1>1, <1>2 DEF OnceInv, Owing, Owed
    <3> QED
      BY <2>2, <3>2, <3>3
  <2> QED
    BY <1>1, <2>1, <2>2
<1> QED
  BY <1>1, <1>2, <1>3, <1>4 DEF QueueOrder, PacketOrder, NoneAstray

\* What leaves the queue at the end of a tick was started.
LEMMA EndTickOrder ==
  ASSUME OrderInv, [Next]_vars, EndTick
  PROVE  InOrder'
<1> SUFFICES ASSUME gen \notin nested PROVE (Passed /\ QueueOrder /\ PacketOrder /\ NoneAstray)'
  BY DEF InOrder, EndTick, linkVars
<1>1. /\ Passed /\ QueueOrder /\ PacketOrder /\ NoneAstray /\ OnceInv /\ TypeOK
      /\ Len(queue) \in Nat /\ idx \in Nat
  BY Lengths DEF OrderInv, InOrder, OnceInv, LinkInv, TypeOK
<1>2. /\ UNCHANGED <<gen, home, order, started, busy, peer, stage, inbox>> /\ idx' = 0
  BY DEF EndTick, linkVars, sentVars
<1>3. /\ \A c \in Commands : Done(c)' <=> Done(c)
      /\ \A c \in Commands : Packed(c)' <=> Packed(c)
      /\ \A c, d : Before(c, d)' <=> Before(c, d)
  BY <1>2 DEF Done, Packed, Before
<1>4. /\ Len(queue') = IF idx < Len(queue) THEN Len(queue) - idx ELSE 0
      /\ \A i \in 1..Len(queue') : idx + i \in 1..Len(queue) /\ queue'[i] = queue[idx + i]
  BY <1>1, EndTickSlices
\* A queued command was started, or is still queued, as far from the others.
<1>5. \A j \in 1..Len(queue) :
        started[queue[j]] > 0 \/ (j - idx \in 1..Len(queue') /\ queue'[j - idx] = queue[j])
  <2> SUFFICES ASSUME NEW j \in 1..Len(queue), ~(started[queue[j]] > 0)
               PROVE  j - idx \in 1..Len(queue') /\ queue'[j - idx] = queue[j]
    OBVIOUS
  <2>1. ~(j <= idx)
    BY <1>1 DEF Passed
  <2>2. j - idx \in 1..Len(queue') /\ idx + (j - idx) = j
    BY <1>1, <1>4, <2>1
  <2>3. queue'[j - idx] = queue[idx + (j - idx)]
    BY <1>4, <2>2
  <2> QED
    BY <2>2, <2>3
<1>6. \A c \in Commands : Queued(c) => Done(c) \/ Queued(c)'
  BY <1>5 DEF Queued, Done
<1>7. Passed'
  <2>1. Len(queue') \in Nat
    BY <1>1, <1>4
  <2> QED
    BY <1>2, <2>1 DEF Passed
<1>8. QueueOrder'
  <2> SUFFICES ASSUME NEW i \in 1..Len(queue'), NEW c \in Commands,
                      Before(c, queue'[i]), home[c] = gen, ~Done(c)
               PROVE  \E j \in 1..Len(queue') : j < i /\ queue'[j] = c
    BY <1>2, <1>3 DEF QueueOrder
  <2>1. idx + i \in 1..Len(queue) /\ Before(c, queue[idx + i])
    BY <1>4
  <2>2. PICK j \in 1..Len(queue) : j < idx + i /\ queue[j] = c
    BY <1>1, <2>1 DEF QueueOrder
  <2>3. j - idx \in 1..Len(queue') /\ queue'[j - idx] = c
    BY <1>5, <2>2 DEF Done
  <2>4. j - idx < i
    <3>1. i \in Nat /\ j \in Nat
      BY <1>1, <2>2, <1>4
    <3> QED
      BY <1>1, <2>2, <3>1
  <2> QED
    BY <2>3, <2>4
<1>9. PacketOrder'
  BY <1>1, <1>2, <1>3, <1>6 DEF PacketOrder
<1>10. NoneAstray'
  BY <1>1, <1>2, <1>3, <1>6 DEF NoneAstray
<1> QED
  BY <1>7, <1>8, <1>9, <1>10

\* A test run refuses the packets; past the flood cap the socket is no longer
\* in use.
LEMMA ServiceOrder ==
  ASSUME OrderInv, [Next]_vars, ServiceTransport
  PROVE  InOrder'
<1>1. /\ UNCHANGED <<gen, nested, home, order, queue, idx, started, stage>> /\ inbox' = <<>>
  BY DEF ServiceTransport, Replace, sentVars
<1>2. gen \notin nested => NoneAstray'
  <2> SUFFICES ASSUME gen \notin nested, peer' = "open", stage = "live",
                      NEW c \in Commands, home[c] = gen, ~Done(c)', ~Queued(c)
               PROVE  FALSE
    BY <1>1 DEF NoneAstray, Queued
  <2> DEFINE n == Lesser(Len(inbox), FloodCap - serviced)
             rejected == {inbox[i] : i \in 1..n}
  <2>1. busy' = busy \cup rejected /\ peer' = IF n < Len(inbox) THEN "closing" ELSE "open"
    BY DEF ServiceTransport, Replace
  <2>2. n \in 0..Len(inbox) /\ Len(inbox) \in Nat
    <3>1. TypeOK /\ Len(inbox) \in Nat
      BY Lengths DEF OrderInv, OnceInv, LinkInv
    <3>2. serviced \in 0..FloodCap
      BY <3>1 DEF TypeOK
    <3> QED
      BY <3>1, <3>2 DEF Lesser
  <2> HIDE DEF n
  <2>3. n = Len(inbox)
    BY <2>1, <2>2
  <2>4. ~Done(c) /\ c \notin rejected
    BY <1>1, <2>1 DEF Done
  <2>5. Packed(c)
    BY <2>4 DEF OrderInv, InOrder, NoneAstray, ServiceTransport
  <2> QED
    BY <2>3, <2>4, <2>5 DEF Packed
<1> QED
  BY <1>1, <1>2, OrderKept DEF InOrder

\* The order keeps only commands that were sent; a socket that closes loses its
\* packets.
LEMMA StepRecorded ==
  ASSUME OrderInv, [Next]_vars
  PROVE  Recorded'
<1>0. OnceInv /\ Recorded /\ TypeOK
  BY DEF OrderInv, OnceInv, LinkInv
<1>1. \A i \in 1..Len(order') : home'[order'[i]] # 0
  <2>1. CASE UNCHANGED <<home, order>>
    BY <1>0, <2>1 DEF sentVars, Recorded
  <2>2. ASSUME NEW e \in Commands, ServerSends(e) PROVE <1>1
    <3>1. /\ gen # 0 /\ home' = [home EXCEPT ![e] = gen] /\ order' = Append(order, e)
          /\ order \in Seq(Commands) /\ home \in [Commands -> 0..MaxLinks]
      BY <1>0, <2>2 DEF ServerSends, TypeOK, OnceInv, LinkInv, Channel
    <3>2. /\ Len(order') = Len(order) + 1 /\ order'[Len(order) + 1] = e
          /\ \A i \in 1..Len(order) : order'[i] = order[i] /\ order[i] \in Commands
          /\ Len(order) \in Nat
      BY <3>1, Appended, LenProperties, ElementOfSeq
    <3>3. \A c \in Commands : home[c] # 0 => home'[c] # 0
      BY <3>1
    <3>4. home'[e] # 0
      BY <3>1
    <3>5. \A i \in 1..Len(order') : i \in 1..Len(order) \/ i = Len(order) + 1
      BY <3>2
    <3> QED
      BY <1>0, <3>2, <3>3, <3>4, <3>5 DEF Recorded
  <2>3. UNCHANGED <<home, order>> \/ \E e \in Commands : ServerSends(e)
    BY StepCases, LinkFrame DEF Frame, Dispatch, HandlerReturns, EndTick, HandlerPauses,
       HandlerResumes, ServiceTransport, DeferredReply, vars, sentVars
  <2> QED
    BY <2>1, <2>2, <2>3
<1>2. peer' # "open" => inbox' = <<>>
  <2>1. CASE LinkSteps
    BY <1>0, <2>1 DEF LinkSteps, SocketStep, PollStep, SocketOpens, SocketCloses, ServerSends, Greet,
       Authenticated, FailHandshake, ObserveClosed, Reconnect, Revoke, Authorize, ReloadTimesOut,
       ReloadToggles, Replace, Dial, linkVars, Recorded
  <2>2. CASE ServiceTransport
    BY <2>2 DEF ServiceTransport, Replace
  <2>3. ASSUME NEW late \in SUBSET deferred, Frame(late) PROVE peer' = "open"
    BY <2>3 DEF Frame
  <2>4. CASE Dispatch \/ HandlerReturns \/ EndTick \/ HandlerPauses \/ HandlerResumes \/ UNCHANGED vars
    BY <1>0, <2>4 DEF Dispatch, HandlerReturns, EndTick, HandlerPauses, HandlerResumes, vars, linkVars,
       Recorded
  <2>5. ASSUME NEW c \in Commands, DeferredReply(c) PROVE UNCHANGED <<peer, inbox>>
    BY <2>5 DEF DeferredReply, linkVars
  <2> QED
    BY <1>0, <2>1, <2>2, <2>3, <2>4, <2>5, StepCases DEF Recorded
<1> QED
  BY <1>1, <1>2 DEF Recorded

LEMMA StepOrder == OrderInv /\ [Next]_vars => InOrder'
<1> SUFFICES ASSUME OrderInv, [Next]_vars PROVE InOrder'
  OBVIOUS
<1>1. CASE LinkSteps
  BY <1>1, DialOrder, LinkOrder, SendOrder
<1>2. CASE \E late \in SUBSET deferred : Frame(late)
  BY <1>2, FrameOrder
<1>3. CASE HandlerReturns \/ EndTick \/ ServiceTransport
  BY <1>3, ReturnOrder, EndTickOrder, ServiceOrder
<1>4. ASSUME UNCHANGED <<gen, nested, home, order, queue, inbox, idx, peer, stage>>
      PROVE  InOrder'
  BY <1>4, NoneAstrayKept, OrderKept DEF InOrder
<1>5. CASE Dispatch \/ HandlerPauses \/ HandlerResumes \/ UNCHANGED vars
  BY <1>4, <1>5 DEF Dispatch, HandlerPauses, HandlerResumes, vars, linkVars, tickVars, sentVars
<1>6. ASSUME NEW c \in Commands, DeferredReply(c) PROVE InOrder'
  BY <1>4, <1>6 DEF DeferredReply, linkVars, tickVars, sentVars
<1> QED
  BY <1>1, <1>2, <1>3, <1>5, <1>6, StepCases

LEMMA OrderInvariance == Spec => []OrderInv
<1>1. Init => OrderInv
  BY InitType, InitTick, InitLink, InitOnce, InitNest, InitOrder DEF OrderInv, OnceInv, LinkInv
<1>2. OrderInv /\ [Next]_vars => OrderInv'
  BY StepType, StepTick, StepChannel, StepHomes, StepDistinct, StepWaiting, StepOwing, StepOnce,
     StepNest, StepRecorded, StepOrder DEF OrderInv, OnceInv, LinkInv
<1> QED
  BY <1>1, <1>2, PTL DEF Spec

\* On a socket that the main loop dialled, commands start in the order in which
\* they were sent (StartsInOrder); only those refused are passed over.
THEOREM StartsKeepOrder == Spec => StartsInOrder
<1> DEFINE Orderly == \A d \in Commands : started'[d] > started[d] /\ home[d] \notin nested =>
             \A c \in Commands : (Before(c, d) /\ home[c] = home[d]) =>
                started[c] > 0 \/ c \in busy
<1>1. OrderInv /\ [Next]_vars => Orderly
  <2> SUFFICES ASSUME OrderInv, [Next]_vars, NEW d \in Commands, started'[d] > started[d],
                      home[d] \notin nested, NEW c \in Commands, Before(c, d), home[c] = home[d]
               PROVE  Done(c)
    BY DEF Done
  <2>1. OnceInv /\ TypeOK /\ started[d] \in Nat
    BY DEF OrderInv, OnceInv, LinkInv, TypeOK
  <2>2. Dispatch
    BY <2>1, Counts
  <2>3. started' = [started EXCEPT ![queue[idx + 1]] = @ + 1] /\ idx < Len(queue)
    BY <2>2 DEF Dispatch
  <2>4. d = queue[idx + 1]
    BY <2>1, <2>3 DEF TypeOK
  <2>5. idx + 1 \in 1..Len(queue) /\ idx \in Nat
    BY <2>1, <2>3, Lengths DEF TypeOK
  <2>6. home[d] = gen
    BY <2>1, <2>4, <2>5 DEF OnceInv, LinkInv, Homes
  <2>7. Passed /\ QueueOrder
    BY <2>6 DEF OrderInv, InOrder
  <2>8. Done(c) \/ \E j \in 1..Len(queue) : j < idx + 1 /\ queue[j] = c
    BY <2>4, <2>5, <2>6, <2>7 DEF QueueOrder
  <2>9. ASSUME NEW j \in 1..Len(queue), j < idx + 1, queue[j] = c PROVE Done(c)
    <3>1. j <= idx
      BY <2>5, <2>9
    <3> QED
      BY <2>7, <2>9, <3>1 DEF Passed, Done
  <2> QED
    BY <2>8, <2>9
<1>2. [][Orderly]_vars => StartsInOrder
  BY PTL DEF StartsInOrder
<1> QED
  BY <1>1, <1>2, OrderInvariance, PTL DEF Spec

=============================================================================
