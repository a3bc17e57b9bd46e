------------------------------- MODULE WriteGate -------------------------------
(***************************************************************************)
(* Tool calls at the write gate (handlers/_readiness.py), the cached       *)
(* readiness it reads (Session.readiness), and the editors whose replies   *)
(* and events feed that cache over their sockets.                          *)
(*                                                                         *)
(* Everything of the server runs on one asyncio loop: an action is the     *)
(* code between two awaits.  A call awaits the reply to a command (its     *)
(* own, or the gate's get_editor_state probe) or the sleep between two     *)
(* probes.  A reply that arrives settles a future; the task that waits for *)
(* it runs later, in the order the futures were settled, and frames that   *)
(* are already buffered may be handled before it.                          *)
(***************************************************************************)
EXTENDS ToolHandlers, Sequences, FiniteSets, SequencesExt

CONSTANTS
  Sessions,    \* ids of editor sessions
  Calls,       \* tool calls in progress
  Blocking,    \* the keys of _READINESS_INFO the instance uses
  Writable,    \* the other readiness values
  HoldRounds,  \* probe intervals in _IMPORTING_HOLD_CAP_SECONDS
  Steady,      \* bound: sessions of editors that stay busy and connected
  InboxCap,    \* bound: frames in flight from one editor
  NoSession    \* None

ASSUME GateAssumption ==
  /\ Blocking \subseteq {"importing", "playing"}
  /\ Writable # {} /\ Writable \subseteq {"ready", "no_scene"}
  /\ HoldRounds \in Nat
  /\ Steady \subseteq Sessions
  /\ NoSession \notin Sessions
  /\ IsFiniteSet(Calls)

VARIABLES
  editor,     \* the editor's readiness as get_readiness() would compute it
  told,       \* McpConnection._last_readiness: what its last event said
  inbox,      \* frames on their way from the editor to the server
  connected,  \* the sessions the registry lists
  cache,      \* Session.readiness
  pc,         \* where a call stands
  kind,       \* the gate of its handler, and whether it copies a snapshot
  bound,      \* DirectRuntime._bound_session_id, fixed when the call starts
  snap,       \* readiness in the Session snapshot the gate holds
  left,       \* probe intervals left of the hold
  got,        \* what settled the future the call awaits
  ready,      \* tasks whose future is settled, in the order they will run
  excuse      \* since its last probe left, the editor was busy or the link bad

editorVars == <<editor, told>>
localVars  == <<pc, kind, bound, snap, left, got>>
vars == <<editorVars, inbox, connected, cache, localVars, ready, excuse>>

Readiness == Blocking \cup Writable
Kinds == {[gate |-> h.gate, copies |-> h.reply = "snapshot"] : h \in Senders}
NoReply == [ok |-> FALSE, readiness |-> "none"]
Reply   == [ok : {TRUE}, readiness : Readiness] \cup {NoReply}
Frame   == [call : Calls, ok : BOOLEAN, readiness : Readiness] \cup [readiness : Readiness]

Idle     == {"idle", "refused"}
Awaiting == {"probing", "sent"}

TypeOK ==
  /\ editor \in [Sessions -> Readiness]
  /\ told \in [Sessions -> Readiness]
  /\ inbox \in [Sessions -> Seq(Frame)]
  /\ connected \subseteq Sessions
  /\ cache \in [Sessions -> Readiness]
  /\ pc \in [Calls -> Idle \cup Awaiting \cup {"holding"}]
  /\ kind \in [Calls -> Kinds]
  /\ bound \in [Calls -> Sessions \cup {NoSession}]
  /\ snap \in [Calls -> Readiness]
  /\ left \in [Calls -> 0..HoldRounds]
  /\ got \in [Calls -> Reply]
  /\ ready \in Seq(Calls)
  /\ excuse \in [Calls -> BOOLEAN]

SomeReady == CHOOSE r \in Writable : TRUE
SomeKind  == CHOOSE k \in Kinds : TRUE

Init ==
  /\ editor \in {e \in [Sessions -> Readiness] :
                  \A s \in Sessions : IF s \in Steady THEN e[s] \in Blocking
                                                     ELSE e[s] = SomeReady}
  /\ told = editor
  /\ inbox = [s \in Sessions |-> <<>>]
  /\ connected = Steady
  /\ cache = editor
  /\ pc = [c \in Calls |-> "idle"]
  /\ kind = [c \in Calls |-> SomeKind]
  /\ bound = [c \in Calls |-> NoSession]
  /\ snap = [c \in Calls |-> SomeReady]
  /\ left = [c \in Calls |-> 0]
  /\ got = [c \in Calls |-> NoReply]
  /\ ready = <<>>
  /\ excuse = [c \in Calls |-> FALSE]

-----------------------------------------------------------------------------
(* The editors and their sockets.                                          *)

Busy(s) == editor[s] \in Blocking

\* An import or a run starts or ends, by the user or by a command.
EditorChanges(s, r) ==
  /\ s \notin Steady
  /\ editor[s] # r
  /\ editor' = [editor EXCEPT ![s] = r]
  /\ excuse' = [c \in Calls |->
                  excuse[c] \/ (pc[c] = "probing" /\ bound[c] = s /\ r \in Blocking)]
  /\ UNCHANGED <<told, inbox, connected, cache, localVars, ready>>

Deliver(s, frame) ==
  /\ s \in connected
  /\ Len(inbox[s]) < InboxCap
  /\ inbox' = [inbox EXCEPT ![s] = Append(@, frame)]

\* _check_state_changes notices a transition; changes between two looks merge.
EditorTells(s) ==
  /\ editor[s] # told[s]
  /\ Deliver(s, [readiness |-> editor[s]])
  /\ told' = [told EXCEPT ![s] = editor[s]]
  /\ UNCHANGED <<editor, connected, cache, localVars, ready, excuse>>

Waits(c)    == pc[c] \in Awaiting /\ c \notin Range(ready)
IsReply(f)  == "call" \in DOMAIN f
RepliesTo(c, q) == {i \in 1..Len(q) : IsReply(q[i]) /\ q[i].call = c}
Answered(c) == RepliesTo(c, inbox[bound[c]]) # {}

\* The editor answers a command, stamping what it is now.
EditorAnswers(c, ok) ==
  /\ Waits(c) /\ ~Answered(c)
  /\ Deliver(bound[c], [call |-> c, ok |-> ok, readiness |-> editor[bound[c]]])
  /\ UNCHANGED <<editorVars, connected, cache, localVars, ready, excuse>>

\* A handshake: the registry entry starts from the readiness it carries.
Connect(s) ==
  /\ s \notin connected
  /\ connected' = connected \cup {s}
  /\ told' = [told EXCEPT ![s] = editor[s]]
  /\ cache' = [cache EXCEPT ![s] = editor[s]]
  /\ UNCHANGED <<editor, inbox, localVars, ready, excuse>>

\* remove_connection: the entry goes and the futures of its calls fail.
Disconnect(s) ==
  /\ s \in connected \ Steady
  /\ connected' = connected \ {s}
  /\ inbox' = [inbox EXCEPT ![s] = <<>>]
  /\ cache' = [cache EXCEPT ![s] = SomeReady]
  /\ told' = [told EXCEPT ![s] = SomeReady]
  /\ ready' = ready \o SetToSeq({c \in Calls : Waits(c) /\ bound[c] = s})
  /\ excuse' = [c \in Calls |-> excuse[c] \/ (pc[c] = "probing" /\ bound[c] = s)]
  /\ UNCHANGED <<editor, localVars>>

\* The reader loop takes a frame: both kinds heal the cache, and a reply
\* settles the future of the call that owns it.
Receive(s) ==
  /\ inbox[s] # <<>>
  /\ LET f == Head(inbox[s])
     IN  /\ cache' = [cache EXCEPT ![s] = f.readiness]
         /\ got' = IF IsReply(f)
                   THEN [got EXCEPT ![f.call] =
                           IF f.ok THEN [ok |-> TRUE, readiness |-> f.readiness] ELSE NoReply]
                   ELSE got
         /\ ready' = IF IsReply(f) THEN Append(ready, f.call) ELSE ready
  /\ inbox' = [inbox EXCEPT ![s] = Tail(@)]
  /\ UNCHANGED <<editorVars, connected, pc, kind, bound, snap, left, excuse>>

\* The frames in q once nobody waits for the reply to c: a reply to a settled
\* future is ignored.
Disowned(c, q) ==
  IF RepliesTo(c, q) = {} THEN q ELSE RemoveAt(q, CHOOSE i \in RepliesTo(c, q) : TRUE)

\* No reply in time, or none to hope for: the breaker is open, the caller is
\* over its limit, the send fails.  A reply that comes later has no owner.
NoAnswer(c) ==
  /\ Waits(c)
  /\ ready' = Append(ready, c)
  /\ inbox' = [inbox EXCEPT ![bound[c]] = Disowned(c, @)]
  /\ excuse' = [excuse EXCEPT ![c] = pc[c] = "probing"]
  /\ UNCHANGED <<editorVars, connected, cache, localVars>>

-----------------------------------------------------------------------------
(* The calls.                                                              *)

Becomes(c, state, k, s, sn, rounds) ==
  /\ pc' = [pc EXCEPT ![c] = state]
  /\ kind' = [kind EXCEPT ![c] = k]
  /\ bound' = [bound EXCEPT ![c] = s]
  /\ snap' = [snap EXCEPT ![c] = sn]
  /\ left' = [left EXCEPT ![c] = rounds]
  /\ got' = [got EXCEPT ![c] = NoReply]

\* The end of a call; its runtime and its locals go with it.
Ends(c, outcome, excused) ==
  /\ Becomes(c, outcome, SomeKind, NoSession, SomeReady, 0)
  /\ excuse' = [excuse EXCEPT ![c] = excused]

PastGate(k) == [k EXCEPT !.gate = "open"]

\* (mutant, #911) the send resolves the active session again.
SendTo_Unpinned(c, s, k) ==
  \E t \in connected \cup {s} :
    /\ Becomes(c, "sent", PastGate(k), t, SomeReady, 0)
    /\ excuse' = [excuse EXCEPT ![c] = FALSE]

\* GodotClient.send to s, up to the await of its reply: the session the call
\* is bound to may be gone, and then the call fails at once.
SendTo(c, s, k) ==
  IF s \in connected
  THEN /\ Becomes(c, "sent", PastGate(k), s, SomeReady, 0)
       /\ excuse' = [excuse EXCEPT ![c] = FALSE]
  ELSE Ends(c, "idle", FALSE)

\* _probe_readiness, up to the await of the reply to get_editor_state.
Probe(c, s, k, sn, rounds) ==
  /\ Becomes(c, "probing", k, s, sn, rounds)
  /\ excuse' = [excuse EXCEPT ![c] = Busy(s)]

\* A handler runs up to its first await: s is the session the caller named or
\* the active one, and stays this call's session.  A cache that says writable
\* is believed; one that says blocked is checked with the editor.
Start(c, k, s) ==
  /\ pc[c] \in Idle
  /\ s \in connected
  /\ IF k.gate = "open" \/ cache[s] \notin Blocking
     THEN SendTo(c, s, k)
     ELSE Probe(c, s, k, cache[s], HoldRounds)
  /\ UNCHANGED <<editorVars, inbox, connected, cache, ready>>

\* Session.readiness once a reply of s has been recorded; record_readiness
\* ignores a session that is gone.
Recorded(s, reply) ==
  IF reply.ok /\ s \in connected THEN [cache EXCEPT ![s] = reply.readiness] ELSE cache

\* project_run may go ahead on a run that a live probe has just confirmed.
PlayingIsFine(k, reply, sn) ==
  k.gate = "running_ok" /\ reply.ok /\ reply.readiness = "playing" /\ sn = "playing"

\* (mutant) the record of the probe's reply, "largely redundant", is left out.
ProbeReturns_NoRecord(c) ==
  LET s  == bound[c]
      sn == IF s \in connected THEN cache[s] ELSE snap[c]
  IN  /\ UNCHANGED cache
      /\ IF got[c].ok /\ sn = "importing" /\ left[c] > 0
         THEN /\ Becomes(c, "holding", kind[c], s, sn, left[c])
              /\ excuse' = [excuse EXCEPT ![c] = FALSE]
         ELSE IF sn \notin Blocking \/ PlayingIsFine(kind[c], got[c], sn)
         THEN SendTo(c, s, kind[c])
         ELSE Ends(c, "refused", excuse[c] \/ ~got[c].ok)

\* The gate goes on after a probe: hold, refuse, or let the command through.
ProbeReturns(c) ==
  LET s  == bound[c]
      sn == IF s \in connected THEN cache'[s] ELSE snap[c]
  IN  /\ cache' = Recorded(s, got[c])
      /\ IF got[c].ok /\ sn = "importing" /\ left[c] > 0
         THEN /\ Becomes(c, "holding", kind[c], s, sn, left[c])
              /\ excuse' = [excuse EXCEPT ![c] = FALSE]
         ELSE IF sn \notin Blocking \/ PlayingIsFine(kind[c], got[c], sn)
         THEN SendTo(c, s, kind[c])
         ELSE Ends(c, "refused", excuse[c] \/ ~got[c].ok)

\* The reply to the command itself: editor_state and project_stop copy the
\* readiness it carries to the session (sync_readiness_from_snapshot).
CommandReturns(c) ==
  /\ cache' = IF kind[c].copies THEN Recorded(bound[c], got[c]) ELSE cache
  /\ Ends(c, "idle", FALSE)

\* The loop runs the next task whose future is settled.
Resume(c) ==
  /\ ready # <<>> /\ c = Head(ready)
  /\ ready' = Tail(ready)
  /\ \/ pc[c] = "probing" /\ ProbeReturns(c)
     \/ pc[c] = "sent" /\ CommandReturns(c)
  /\ UNCHANGED <<editorVars, inbox, connected>>

\* The hold's sleep is over: probe again.  The sleep and the probe use up at
\* least one interval, a slow probe more.  With the session gone the probe
\* fails at once and the snapshot, which says importing, decides.
Wake(c) ==
  /\ pc[c] = "holding"
  /\ IF bound[c] \in connected
     THEN \E rest \in 0..(left[c] - 1) : Probe(c, bound[c], kind[c], snap[c], rest)
     ELSE Ends(c, "refused", TRUE)
  /\ UNCHANGED <<editorVars, inbox, connected, cache, ready>>

Next ==
  \/ \E s \in Sessions, r \in Readiness : EditorChanges(s, r)
  \/ \E s \in Sessions : EditorTells(s)
  \/ \E c \in Calls, ok \in BOOLEAN : EditorAnswers(c, ok)
  \/ \E s \in Sessions : Connect(s)
  \/ \E s \in Sessions : Disconnect(s)
  \/ \E s \in Sessions : Receive(s)
  \/ \E c \in Calls : NoAnswer(c)
  \/ \E c \in Calls, k \in Kinds, s \in Sessions : Start(c, k, s)
  \/ \E c \in Calls : Resume(c)
  \/ \E c \in Calls : Wake(c)

Spec == Init /\ [][Next]_vars

-----------------------------------------------------------------------------
(* Properties.                                                             *)

\* A gated call is refused only with a reason of its own: the editor was busy
\* at some moment since the call's last probe left, or that probe failed.
\* What other calls write to the shared cache meanwhile is no reason.
NoFalseRefusal == \A c \in Calls : pc[c] = "refused" => excuse[c]

\* A gated command goes to a session whose own cached readiness allows it at
\* that moment, whichever sessions were activated, lost or probed while the
\* call waited (#911).
SentWhereAllowed ==
  [][\A c \in Calls :
       pc[c] = "probing" /\ pc'[c] = "sent" =>
         \/ cache'[bound'[c]] \notin Blocking
         \/ kind[c].gate = "running_ok" /\ cache'[bound'[c]] = "playing"]_vars
=============================================================================
