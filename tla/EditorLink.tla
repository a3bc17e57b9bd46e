------------------------------ MODULE EditorLink ------------------------------
(***************************************************************************)
(* The editor's end of the command channel: the WebSocket transport        *)
(* (connection.gd) and the command queue it feeds (dispatcher.gd), both on  *)
(* Godot's main thread.                                                    *)
(*                                                                         *)
(* One frame of _process polls the socket, drains packets into the queue   *)
(* and ticks the dispatcher, which runs handlers until its budget is spent.*)
(* A handler that touches the editor's filesystem pumps frames from within:*)
(* a whole _process then runs inside the tick, and may drain packets, find *)
(* the socket closed, reconnect and authenticate before the handler        *)
(* returns.  The socket, the server and the lifecycle owner that revokes   *)
(* and authorizes the transport are the environment.                       *)
(***************************************************************************)
EXTENDS Naturals, Sequences

CONSTANTS
  Commands,        \* command frames the server may send, each once
  Deferring,       \* handled out of band: the handler returns the sentinel
  Exclusive,       \* test runs: service the transport, pump nothing
  Reloading,       \* reserve a plugin reload
  NoCommand,
  DrainCap,        \* PACKET_DRAIN_CAP_PER_TICK
  FloodCap,        \* EXCLUSIVE_RUN_PACKET_CAP
  MaxLinks         \* bound: sockets dialled

ASSUME LinkAssumption ==
  /\ Deferring \subseteq Commands
  /\ Exclusive \subseteq Commands \ Deferring
  /\ Reloading \subseteq Commands \ (Deferring \cup Exclusive)
  /\ NoCommand \notin Commands
  /\ DrainCap \in Nat \ {0} /\ FloodCap \in Nat /\ MaxLinks \in Nat

VARIABLES
  gen,         \* sockets dialled so far; the last is _peer
  nested,      \* history: those dialled in a frame that a handler pumped
  peer,        \* its ready state
  stage,       \* offline, greeting (_connected), live (_handshake_complete)
  blocked,     \* connect_blocked
  inbox,       \* packets at the socket
  queue,       \* _command_queue
  deferred,    \* _pending_deferred
  reload,      \* is_reload_pending()
  pauseDepth,  \* _pause_depth
  tickActive,  \* _tick_active
  idx,         \* commands the tick has dispatched
  outbox,      \* responses the tick has collected
  running,     \* the command whose handler is on the stack
  depthBefore, \* pause depth when it was called
  serviced,    \* packets a test run has rejected
  working,     \* coroutines that still owe a deferred reply
  home,        \* history: the socket a command arrived on, 0 before
  order,       \* history: commands in the order they were sent
  adrift,      \* history: running or collected when their connection was given up
  started,     \* history: how often its handler ran
  answers,     \* history: replies that left for it
  busy,        \* history: rejected because a test run was in progress
  dropped      \* history: its reply was refused by the socket

linkVars == <<gen, nested, peer, blocked, inbox>>
tickVars == <<tickActive, idx, outbox, running, depthBefore, serviced>>
sentVars == <<home, order, adrift>>
replyVars == <<answers, dropped>>
vars == <<linkVars, tickVars, sentVars, replyVars, stage, queue, deferred, reload,
          pauseDepth, working, started, busy>>

\* Handlers that touch the filesystem or play a scene process frames in there,
\* those included that then defer.
Pumping == Commands \ (Exclusive \cup Reloading)

TypeOK ==
  /\ gen \in 0..MaxLinks /\ nested \subseteq 1..MaxLinks
  /\ peer \in {"connecting", "open", "closing", "closed"}
  /\ stage \in {"offline", "greeting", "live"}
  /\ inbox \in Seq(Commands) /\ queue \in Seq(Commands)
  /\ deferred \subseteq Commands /\ working \subseteq Deferring
  /\ blocked \in BOOLEAN /\ reload \in BOOLEAN /\ tickActive \in BOOLEAN
  /\ pauseDepth \in Nat /\ depthBefore \in Nat /\ idx \in Nat
  /\ serviced \in 0..FloodCap
  /\ outbox \subseteq Commands
  /\ running \in Commands \cup {NoCommand}
  /\ home \in [Commands -> 0..MaxLinks] /\ order \in Seq(Commands)
  /\ adrift \subseteq Commands
  /\ started \in [Commands -> Nat] /\ answers \in [Commands -> Nat]
  /\ busy \subseteq Commands /\ dropped \subseteq Commands

\* The plugin is built with the transport blocked until the lifecycle owner
\* authorizes it.
Init ==
  /\ gen = 0 /\ nested = {} /\ peer = "closed" /\ stage = "offline" /\ blocked = TRUE
  /\ inbox = <<>> /\ queue = <<>> /\ deferred = {} /\ working = {}
  /\ reload = FALSE /\ pauseDepth = 0
  /\ tickActive = FALSE /\ idx = 0 /\ outbox = {}
  /\ running = NoCommand /\ depthBefore = 0 /\ serviced = 0
  /\ home = [c \in Commands |-> 0] /\ order = <<>> /\ adrift = {}
  /\ started = [c \in Commands |-> 0] /\ answers = [c \in Commands |-> 0]
  /\ busy = {} /\ dropped = {}

-----------------------------------------------------------------------------
(* What frames and handlers share.                                         *)

Lesser(m, n) == IF m < n THEN m ELSE n

\* Main-loop callbacks run between ticks and in the frames a handler pumps.
InMainLoop == ~tickActive \/ running \in Pumping

\* _process does its work: not disabled by a revocation, not paused.
CanProcess == InMainLoop /\ ~blocked /\ pauseDepth = 0

\* The replies that leave: all but those that backpressure drops, and none
\* when the channel is not authenticated or its socket is closing.
Send(replies) ==
  \E full \in SUBSET replies :
    LET delivered == IF stage = "live" /\ peer = "open" THEN replies \ full ELSE {}
    IN /\ answers' = [c \in Commands |->
                        IF c \in delivered THEN answers[c] + 1 ELSE answers[c]]
       /\ dropped' = dropped \cup (replies \ delivered)

Replace(state) ==
  /\ peer' = state
  /\ inbox' = <<>>

\* What the handler on the stack returns, and what the tick has collected,
\* outlives the connection it is for.
CutLoose == adrift' = adrift \cup outbox \cup ({running} \cap Commands)

ClearOnDisconnect_KeepsQueue ==
  /\ stage' = "offline"
  /\ deferred' = {}
  /\ CutLoose
  /\ UNCHANGED queue

ClearOnDisconnect ==
  /\ stage' = "offline"
  /\ deferred' = {}
  /\ queue' = <<>>
  /\ CutLoose

Dial ==
  /\ gen < MaxLinks
  /\ gen' = gen + 1
  /\ nested' = IF tickActive THEN nested \cup {gen'} ELSE nested
  /\ Replace("connecting")

-----------------------------------------------------------------------------
(* The socket and the server.                                              *)

SocketOpens ==
  /\ peer = "connecting"
  /\ peer' = "open"
  /\ UNCHANGED <<gen, nested, blocked, inbox, tickVars, sentVars, replyVars, stage, queue,
                 deferred, reload, pauseDepth, working, started, busy>>

\* The dial fails, the close completes, or the connection breaks.
SocketCloses ==
  /\ peer # "closed"
  /\ Replace("closed")
  /\ UNCHANGED <<gen, nested, blocked, tickVars, sentVars, replyVars, stage, queue,
                 deferred, reload, pauseDepth, working, started, busy>>

\* The server sends commands to an editor whose handshake it has acknowledged.
ServerSends(c) ==
  /\ peer = "open" /\ stage = "live" /\ home[c] = 0
  /\ home' = [home EXCEPT ![c] = gen]
  /\ order' = Append(order, c)
  /\ inbox' = Append(inbox, c)
  /\ UNCHANGED <<gen, nested, peer, blocked, tickVars, adrift, replyVars, stage, queue,
                 deferred, reload, pauseDepth, working, started, busy>>

-----------------------------------------------------------------------------
(* The socket side of _process.                                            *)

Greet ==
  /\ CanProcess /\ peer = "open" /\ stage = "offline"
  /\ stage' = "greeting"
  /\ UNCHANGED <<linkVars, tickVars, sentVars, replyVars, queue, deferred, reload,
                 pauseDepth, working, started, busy>>

Authenticated ==
  /\ CanProcess /\ peer = "open" /\ stage = "greeting"
  /\ stage' = "live"
  /\ UNCHANGED <<linkVars, tickVars, sentVars, replyVars, queue, deferred, reload,
                 pauseDepth, working, started, busy>>

\* A bad frame or the five-second deadline closes the socket.
FailHandshake ==
  /\ CanProcess /\ peer = "open" /\ stage = "greeting"
  /\ Replace("closing")
  /\ UNCHANGED <<gen, nested, blocked, tickVars, sentVars, replyVars, stage, queue,
                 deferred, reload, pauseDepth, working, started, busy>>

ObserveClosed ==
  /\ CanProcess /\ peer = "closed" /\ stage # "offline"
  /\ ClearOnDisconnect
  /\ UNCHANGED <<linkVars, tickVars, home, order, replyVars, reload, pauseDepth,
                 working, started, busy>>

Reconnect ==
  /\ CanProcess /\ peer = "closed" /\ stage = "offline"
  /\ Dial
  /\ UNCHANGED <<blocked, tickVars, sentVars, replyVars, stage, queue, deferred,
                 reload, pauseDepth, working, started, busy>>

-----------------------------------------------------------------------------
(* The lifecycle owner, whose frames run even when _process is paused.     *)

Revoke ==
  /\ InMainLoop /\ ~blocked
  /\ blocked' = TRUE
  /\ Replace("closed")
  /\ ClearOnDisconnect
  /\ UNCHANGED <<gen, nested, tickVars, home, order, replyVars, reload, pauseDepth,
                 working, started, busy>>

Authorize ==
  /\ InMainLoop /\ blocked
  /\ blocked' = FALSE
  /\ Dial
  /\ UNCHANGED <<tickVars, sentVars, replyVars, stage, queue, deferred, reload,
                 pauseDepth, working, started, busy>>

-----------------------------------------------------------------------------
(* The command side of _process: drain, then tick unless a tick or a       *)
(* reload is already under way.                                            *)

TickFree_Reentrant == ~reload

TickFree == ~tickActive /\ ~reload

BeginTick_NeverExpires(late) ==
  /\ tickActive' = TRUE
  /\ idx' = 0
  /\ running' = NoCommand
  /\ outbox' = {}
  /\ UNCHANGED <<deferred, depthBefore, serviced>>

\* _tick_active is set, and every deferred request in `late` times out first.
BeginTick(late) ==
  /\ tickActive' = TRUE
  /\ idx' = 0
  /\ running' = NoCommand
  /\ deferred' = deferred \ late
  /\ outbox' = late
  /\ UNCHANGED <<depthBefore, serviced>>

\* At most DrainCap packets join the queue; the rest stay at the socket.
Drain_Newest ==
  LET n == Lesser(Len(inbox), DrainCap)
  IN /\ queue' = queue \o SubSeq(inbox, Len(inbox) - n + 1, Len(inbox))
     /\ inbox' = SubSeq(inbox, 1, Len(inbox) - n)

Drain_Discards ==
  LET n == Lesser(Len(inbox), DrainCap)
  IN /\ queue' = queue \o SubSeq(inbox, 1, n)
     /\ inbox' = <<>>

Drain ==
  LET n == Lesser(Len(inbox), DrainCap)
  IN /\ queue' = queue \o SubSeq(inbox, 1, n)
     /\ inbox' = SubSeq(inbox, n + 1, Len(inbox))

Frame(late) ==
  /\ CanProcess /\ peer = "open" /\ stage = "live"
  /\ Drain
  /\ \/ TickFree /\ BeginTick(late)
     \/ ~TickFree /\ late = {} /\ UNCHANGED <<tickVars, deferred>>
  /\ UNCHANGED <<gen, nested, peer, blocked, sentVars, replyVars, stage, reload,
                 pauseDepth, working, started, busy>>

Dispatch ==
  /\ tickActive /\ running = NoCommand /\ idx < Len(queue) /\ ~reload
  /\ LET c == queue[idx + 1]
     IN /\ running' = c
        /\ started' = [started EXCEPT ![c] = @ + 1]
  /\ depthBefore' = pauseDepth
  /\ serviced' = 0
  /\ UNCHANGED <<linkVars, tickActive, idx, outbox, sentVars, replyVars, stage,
                 queue, deferred, reload, pauseDepth, working, busy>>

\* What is left of the pause depth when a handler returns: it may crash
\* between its pause and its resume.
Restored_Never(depth) == depth

Restored(depth) == Lesser(depth, depthBefore)

\* A handler returns: a deferring one is registered, whatever has become of the
\* connection meanwhile, and its coroutine goes on; the response of any other
\* joins the tick's.
HandlerReturns ==
  /\ running # NoCommand
  /\ pauseDepth' = Restored(pauseDepth)
  /\ IF running \in Deferring
     THEN /\ deferred' = deferred \cup {running}
          /\ working' = working \cup {running}
          /\ UNCHANGED outbox
     ELSE /\ outbox' = outbox \cup {running}
          /\ UNCHANGED <<deferred, working>>
  /\ reload' = (reload \/ running \in Reloading)
  /\ idx' = idx + 1
  /\ running' = NoCommand
  /\ UNCHANGED <<linkVars, tickActive, depthBefore, serviced, sentVars, replyVars,
                 stage, queue, started, busy>>

\* The queue is done, the budget is spent or a reload is reserved: what was
\* dispatched leaves the queue and the responses are sent.  The budget never
\* ends before the first command.
EndTick ==
  /\ tickActive /\ running = NoCommand
  /\ idx > 0 \/ idx >= Len(queue)
  /\ queue' = SubSeq(queue, idx + 1, Len(queue))
  /\ Send(outbox)
  /\ tickActive' = FALSE /\ outbox' = {} /\ idx' = 0
  /\ UNCHANGED <<linkVars, running, depthBefore, serviced, sentVars, stage,
                 deferred, reload, pauseDepth, working, started, busy>>

-----------------------------------------------------------------------------
(* Inside and after a handler.                                             *)

\* Bound: a handler pauses at most twice.
HandlerPauses ==
  /\ running \in Pumping /\ pauseDepth < depthBefore + 2
  /\ pauseDepth' = pauseDepth + 1
  /\ UNCHANGED <<linkVars, tickVars, sentVars, replyVars, stage, queue, deferred,
                 reload, working, started, busy>>

HandlerResumes ==
  /\ running \in Pumping /\ pauseDepth > depthBefore
  /\ pauseDepth' = pauseDepth - 1
  /\ UNCHANGED <<linkVars, tickVars, sentVars, replyVars, stage, queue, deferred,
                 reload, working, started, busy>>

\* A test run rejects everything that arrived and buffers nothing; past the
\* flood cap it closes the connection instead.
ServiceTransport_Buffers ==
  /\ running \in Exclusive /\ ~blocked /\ pauseDepth = 0
  /\ peer = "open" /\ inbox # <<>>
  /\ queue' = queue \o inbox
  /\ inbox' = <<>>
  /\ busy' = busy \cup {inbox[i] : i \in 1..Len(inbox)}
  /\ UNCHANGED <<gen, nested, peer, blocked, tickVars, sentVars, replyVars, stage,
                 deferred, reload, pauseDepth, working, started>>

ServiceTransport ==
  /\ running \in Exclusive /\ ~blocked /\ pauseDepth = 0
  /\ peer = "open" /\ inbox # <<>>
  /\ LET n == Lesser(Len(inbox), FloodCap - serviced)
         rejected == {inbox[i] : i \in 1..n}
     IN /\ serviced' = serviced + n
        /\ busy' = busy \cup rejected
        /\ Send(rejected)
        /\ Replace(IF n < Len(inbox) THEN "closing" ELSE "open")
  /\ UNCHANGED <<gen, nested, blocked, tickActive, idx, outbox, running, depthBefore,
                 sentVars, stage, queue, deferred, reload, pauseDepth, working,
                 started>>

\* A coroutine ends in send_deferred_response: a late reply is dropped, and a
\* reply that the socket refuses leaves the request to time out.
DeferredReply_Unchecked(c) ==
  /\ InMainLoop /\ c \in working
  /\ working' = working \ {c}
  /\ \/ /\ stage = "live" /\ peer = "open"
        /\ answers' = [answers EXCEPT ![c] = @ + 1]
        /\ deferred' = deferred \ {c}
     \/ UNCHANGED <<answers, deferred>>
  /\ UNCHANGED <<linkVars, tickVars, sentVars, dropped, stage, queue, reload,
                 pauseDepth, started, busy>>

DeferredReply(c) ==
  /\ InMainLoop /\ c \in working
  /\ working' = working \ {c}
  /\ \/ /\ c \in deferred /\ stage = "live" /\ peer = "open"
        /\ answers' = [answers EXCEPT ![c] = @ + 1]
        /\ deferred' = deferred \ {c}
     \/ UNCHANGED <<answers, deferred>>
  /\ UNCHANGED <<linkVars, tickVars, sentVars, dropped, stage, queue, reload,
                 pauseDepth, started, busy>>

\* The reserved reload's filesystem scan does not finish in time ...
ReloadTimesOut ==
  /\ reload /\ ~tickActive
  /\ reload' = FALSE
  /\ UNCHANGED <<linkVars, tickVars, sentVars, replyVars, stage, queue, deferred,
                 pauseDepth, working, started, busy>>

\* ... or it does, and the plugin is torn down and built anew.
ReloadToggles ==
  /\ reload /\ ~tickActive
  /\ reload' = FALSE
  /\ blocked' = TRUE
  /\ Replace("closed")
  /\ ClearOnDisconnect
  /\ UNCHANGED <<gen, nested, tickVars, home, order, replyVars, pauseDepth, working,
                 started, busy>>

-----------------------------------------------------------------------------
SocketStep == SocketOpens \/ SocketCloses \/ \E c \in Commands : ServerSends(c)

PollStep == Greet \/ Authenticated \/ FailHandshake \/ ObserveClosed \/ Reconnect

TickStep ==
  \/ \E late \in SUBSET deferred : Frame(late)
  \/ Dispatch \/ HandlerReturns \/ EndTick

HandlerStep ==
  \/ HandlerPauses \/ HandlerResumes \/ ServiceTransport
  \/ \E c \in Commands : DeferredReply(c)

Next ==
  \/ SocketStep \/ PollStep \/ Revoke \/ Authorize
  \/ TickStep \/ HandlerStep \/ ReloadTimesOut \/ ReloadToggles

Spec == Init /\ [][Next]_vars

\* Frames keep coming and handlers return; a deferred request that stays
\* pending outlives its budget, and a reservation its scan timeout.
Expire(c) == \E late \in SUBSET deferred : c \in late /\ Frame(late)

Fairness ==
  /\ WF_vars(Dispatch) /\ WF_vars(HandlerReturns) /\ WF_vars(EndTick)
  /\ WF_vars(ReloadTimesOut)
  /\ SF_vars(TickFree /\ \E late \in SUBSET deferred : Frame(late))
  /\ \A c \in Deferring : SF_vars(Expire(c))

FairSpec == Spec /\ Fairness

-----------------------------------------------------------------------------
(* Properties.                                                             *)

\* However frames nest, a command's handler runs once, and the command is
\* answered at most once: its late reply, its timeout and its rejection
\* exclude each other.
HandledOnce == \A c \in Commands : started[c] <= 1 /\ answers[c] <= 1

\* A command of a dead connection never starts under the next one.  It is not
\* answered there either, by a reply, a timeout or a rejection, unless a pumped
\* frame gave its connection up while its handler was on the stack or its
\* response collected: then the reply goes to whatever is connected by then.
StaysOnItsLink ==
  [][\A c \in Commands :
       /\ started'[c] > started[c] => home[c] = gen
       /\ answers'[c] > answers[c] => home[c] = gen \/ c \in adrift]_vars

\* A command that was told the editor is busy never runs, then or later.
BusyNeverRuns == \A c \in busy : started[c] = 0

\* Between ticks nothing holds the transport paused, whatever handlers did;
\* a leaked pause would stop the channel for good.
PauseEndsWithTick == ~tickActive => pauseDepth = 0

\* Commands of one connection start in the order they were sent; only those
\* rejected as busy are passed over.  (For sockets dialled in the main loop.)
Before(c, d) == \E i, j \in 1..Len(order) : i < j /\ order[i] = c /\ order[j] = d

StartsInOrder ==
  [][\A d \in Commands : started'[d] > started[d] /\ home[d] \notin nested =>
       \A c \in Commands : (Before(c, d) /\ home[c] = home[d]) =>
          started[c] > 0 \/ c \in busy]_vars

\* While its connection lives, an accepted command waits, runs, or has been
\* given its one response.
Accepted(c) == home[c] = gen /\ home[c] # 0 /\ stage = "live" /\ peer = "open"

Held(c) ==
  \/ \E i \in 1..Len(inbox) : inbox[i] = c
  \/ \E i \in (idx + 1)..Len(queue) : queue[i] = c
  \/ running = c \/ c \in outbox \cup deferred

Settled(c) == answers[c] > 0 \/ c \in dropped

OneResponsePerCommand == \A c \in Commands : Accepted(c) => Held(c) \/ Settled(c)

\* The only commands ever lost are those of a socket that a pumped frame
\* dialled: its queue replaces the one the outer tick goes by.  Whatever else
\* happens within a tick, nothing that was accepted before it is lost.
LostOnlyWhenNested ==
  \A c \in Commands : Accepted(c) => Held(c) \/ Settled(c) \/ home[c] \in nested

\* Every accepted command of another socket is settled unless its connection
\* goes first.
EveryCommandSettles ==
  \A c \in Commands :
    (Accepted(c) /\ home[c] \notin nested) ~> (Settled(c) \/ ~Accepted(c))

=============================================================================
