------------------------------ MODULE ToolSurface ------------------------------
(***************************************************************************)
(* What MCP clients are offered and how they learn that it changed.  The   *)
(* built-in tools are registered once, less the excluded domains.  Each    *)
(* editor pushes snapshots of the custom tools its addons registered; the  *)
(* catalog keeps one per editor session, and every change of it            *)
(*                                                                         *)
(*   - synchronously rebuilds the promoted tools (PromotedToolRegistrar),  *)
(*   - schedules the one broadcast task, which tells the tracked clients   *)
(*     to list again, each send bounded by a timeout.                      *)
(*                                                                         *)
(* A push is validated whole; one that fails changes nothing and is left   *)
(* out.  So are the calls of custom tools (see ToolHandlers and WriteGate).*)
(***************************************************************************)
EXTENDS ToolTable, ToolCall, FiniteSets

CONSTANTS
  Editors,        \* editor sessions
  Clients,        \* MCP clients
  Steady,         \* those that read what they are sent within the timeout
  Names,          \* names of custom tools, ordered as sorted() orders them
  Schemas,        \* parameter schemas, as values to compare
  Snapshots,      \* what an editor may push
  NoTool,         \* no definition under a name
  MAX_PROMOTED_TOOLS,
  ExcludeSets,    \* the --exclude-domains a server may be started with
  SampledTools,   \* rolled-up tools whose calls are followed
  MaxChanges      \* bound: snapshots pushed

Definitions == [promoted : BOOLEAN, enabled : BOOLEAN, schema : Schemas]
Catalogs    == [Names -> Definitions \cup {NoTool}]

ASSUME SurfaceAssumption ==
  /\ Steady \subseteq Clients
  /\ Names \subseteq Nat /\ IsFiniteSet(Names) /\ NoTool \notin Definitions
  /\ Snapshots \subseteq Catalogs
  /\ MAX_PROMOTED_TOOLS \in Nat
  /\ \A x \in ExcludeSets : x \subseteq EXCLUDABLE_DOMAINS

VARIABLES
  running,     \* its lifespan has begun
  connected,   \* editors the registry lists
  catalog,     \* _tools_by_session
  order,       \* ... and the insertion order of its keys
  registered,  \* the promoted tools of the FastMCP server, [name, schema]
  hidden,      \* _hidden_promoted_tools
  task,        \* _broadcast_task: "none", "created" or "sending"
  rerun,       \* _broadcast_rerun
  sending,     \* clients the gather still waits for
  tracked,     \* _mcp_sessions
  notified,    \* clients with an unanswered list_changed
  listing,     \* each client's tools/list: "none", "asked", "read", or "idle"
  snapshot,    \* ... what list_tools has read of the registered tools
  view,        \* ... and the promoted tools its last answer showed
  changes      \* snapshots pushed so far

server  == <<catalog, order, registered, hidden>>
sender  == <<task, rerun, sending>>
client  == <<notified, listing, snapshot, view>>
surfaceVars    == <<running, connected, server, sender, tracked, client, changes>>

Empty == [n \in Names |-> NoTool]

SurfaceInit ==
  /\ running = FALSE
  /\ connected = {} /\ catalog = [e \in Editors |-> Empty] /\ order = <<>>
  /\ registered = {} /\ hidden = {}
  /\ task = "none" /\ rerun = FALSE /\ sending = {}
  /\ tracked = {} /\ notified = {}
  /\ listing = [c \in Clients |-> "none"]
  /\ snapshot = [c \in Clients |-> {}] /\ view = [c \in Clients |-> {}]
  /\ changes = 0

-----------------------------------------------------------------------------
(* The registrar's view of the catalog.                                    *)

Enabled == {d \in Definitions : d.enabled}

\* The definition under name n of the first session, in insertion order, that
\* has one among ok.
FirstSeen(cat, ord, n, ok) ==
  LET having == {i \in DOMAIN ord : cat[ord[i]][n] \in ok}
  IN  IF having = {} THEN NoTool
      ELSE cat[ord[CHOOSE i \in having : \A j \in having : i <= j]][n]

Promoting(cat, n) == {e \in Editors : cat[e][n] \in Enabled /\ cat[e][n].promoted}

\* Two sessions promote the name with different schemas.
Conflicted(cat, n) ==
  \E e, f \in Promoting(cat, n) : cat[e][n].schema # cat[f][n].schema

Promoted(cat, ord) ==
  {n \in Names : LET d == FirstSeen(cat, ord, n, Enabled)
                 IN  d # NoTool /\ d.promoted /\ ~Conflicted(cat, n)}

\* Disabled definitions that stay registered but are not listed.
Tombstones(cat, ord) ==
  {n \in Names \ Promoted(cat, ord) :
     LET d == FirstSeen(cat, ord, n, Definitions)
     IN  d # NoTool /\ d.promoted /\ ~d.enabled}

Chosen(cat, ord) ==
  {n \in Promoted(cat, ord) :
     Cardinality({m \in Promoted(cat, ord) : m < n}) < MAX_PROMOTED_TOOLS}

Tools(cat, ord, names, ok) ==
  {[name |-> n, schema |-> FirstSeen(cat, ord, n, ok).schema] : n \in names}

\* PromotedToolRegistrar.sync, on every change of the catalog.
Sync(cat, ord) ==
  /\ hidden' = Tombstones(cat, ord)
  /\ registered' = Tools(cat, ord, Chosen(cat, ord), Enabled)
                   \cup Tools(cat, ord, Tombstones(cat, ord), Definitions)

\* The key under which a session's tools are, taken out.
Without(ord, e) ==
  LET i == CHOOSE i \in DOMAIN ord : ord[i] = e
  IN  SubSeq(ord, 1, i - 1) \o SubSeq(ord, i + 1, Len(ord))

\* A key keeps its place when it is set again and loses it when it is popped.
Reordered(ord, e, has) ==
  LET listed == \E i \in DOMAIN ord : ord[i] = e
  IN  IF has = listed THEN ord ELSE IF has THEN Append(ord, e) ELSE Without(ord, e)

\* Mutant: the registrar is told of what is registered, not of what is gone.
Replace_LateSync(e, tools) ==
  /\ catalog' = [catalog EXCEPT ![e] = tools]
  /\ order' = Reordered(order, e, tools # Empty)
  /\ IF tools = Empty THEN UNCHANGED <<registered, hidden>> ELSE Sync(catalog', order')

\* update_session_tools and remove_session.
Replace(e, tools) ==
  /\ catalog' = [catalog EXCEPT ![e] = tools]
  /\ order' = Reordered(order, e, tools # Empty)
  /\ Sync(catalog', order')

\* Mutant: a change while the task runs is taken to be part of its round.
ScheduleBroadcast_Skips ==
  /\ task' = IF task # "none" THEN task ELSE "created"
  /\ UNCHANGED <<rerun, sending>>

\* _schedule_tools_broadcast: one task at a time; a change while it runs asks
\* for another round.
ScheduleBroadcast ==
  /\ IF task # "none" THEN rerun' = TRUE /\ UNCHANGED task
                      ELSE rerun' = FALSE /\ task' = "created"
  /\ UNCHANGED sending

-----------------------------------------------------------------------------
(* The server's start and the editors.                                     *)

Start == /\ ~running /\ running' = TRUE
         /\ UNCHANGED <<connected, server, sender, tracked, client, changes>>

Connect(e) ==
  /\ running /\ e \notin connected /\ connected' = connected \cup {e}
  /\ UNCHANGED <<running, server, sender, tracked, client, changes>>

\* A custom_tools_changed event of a listed session.
Push(e) ==
  /\ e \in connected /\ changes < MaxChanges /\ changes' = changes + 1
  /\ \E tools \in Snapshots : Replace(e, tools)
  /\ ScheduleBroadcast
  /\ UNCHANGED <<running, connected, tracked, client>>

\* The end of _handle_connection of the entry's owner; an editor without tools
\* leaves no trace.
Disconnect(e) ==
  /\ running /\ e \in connected /\ connected' = connected \ {e}
  /\ IF catalog[e] # Empty THEN Replace(e, Empty) /\ ScheduleBroadcast
                           ELSE UNCHANGED <<server, sender>>
  /\ UNCHANGED <<running, tracked, client, changes>>

-----------------------------------------------------------------------------
(* _run_tools_broadcast and notify_tools_change.                           *)

Broadcasting == UNCHANGED <<running, connected, server, changes>>

\* The task's first step takes the clients tracked by then.
BeginRound ==
  /\ task = "created" /\ task' = "sending" /\ sending' = tracked
  /\ Broadcasting /\ UNCHANGED <<rerun, tracked, client>>

Notified(c) ==
  /\ c \in sending /\ sending' = sending \ {c}
  /\ notified' = notified \cup {c}
  /\ Broadcasting /\ UNCHANGED <<task, rerun, tracked, listing, snapshot, view>>

\* A client that does not read, or is gone, is dropped until it is heard from.
\* What was written to it may still reach it.
TimesOut(c) ==
  /\ c \in sending \ Steady /\ sending' = sending \ {c}
  /\ tracked' = tracked \ {c}
  /\ notified' \in {notified, notified \cup {c}}
  /\ Broadcasting /\ UNCHANGED <<task, rerun, listing, snapshot, view>>

\* The gather is done; its waiter finds the flag, or ends the task.
EndRound ==
  /\ task = "sending" /\ sending = {}
  /\ IF rerun THEN rerun' = FALSE /\ sending' = tracked /\ UNCHANGED task
              ELSE task' = "none" /\ UNCHANGED <<rerun, sending>>
  /\ Broadcasting /\ UNCHANGED <<tracked, client>>

-----------------------------------------------------------------------------
(* The clients.  A client lists when it starts and when it is told to; any *)
(* request has it tracked (TrackMcpSessions) before the request is served. *)

Requesting == UNCHANGED <<running, connected, server, sender, changes>>

AskList(c) ==
  /\ running
  /\ listing[c] = "none" \/ (listing[c] = "idle" /\ c \in notified)
  /\ listing' = [listing EXCEPT ![c] = "asked"]
  /\ notified' = notified \ {c}
  /\ tracked' = tracked \cup {c}
  /\ Requesting /\ UNCHANGED <<snapshot, view>>

\* GodotAIFastMCP.list_tools awaits the registered tools ...
ReadTools(c) ==
  /\ listing[c] = "asked" /\ listing' = [listing EXCEPT ![c] = "read"]
  /\ snapshot' = [snapshot EXCEPT ![c] = registered]
  /\ Requesting /\ UNCHANGED <<tracked, notified, view>>

\* ... and leaves out those hidden by then.
AnswerList(c) ==
  /\ listing[c] = "read" /\ listing' = [listing EXCEPT ![c] = "idle"]
  /\ view' = [view EXCEPT ![c] = {t \in snapshot[c] : t.name \notin hidden}]
  /\ snapshot' = [snapshot EXCEPT ![c] = {}]
  /\ Requesting /\ UNCHANGED <<tracked, notified>>

OtherRequest(c) ==
  /\ listing[c] = "idle" /\ tracked' = tracked \cup {c}
  /\ Requesting /\ UNCHANGED client

SurfaceNext ==
  \/ Start \/ BeginRound \/ EndRound
  \/ \E e \in Editors : Connect(e) \/ Push(e) \/ Disconnect(e)
  \/ \E c \in Clients : \/ Notified(c) \/ TimesOut(c)
                        \/ AskList(c) \/ ReadTools(c) \/ AnswerList(c) \/ OtherRequest(c)

SurfaceSpec == SurfaceInit /\ [][SurfaceNext]_surfaceVars

\* The task runs, its sends end by themselves or by the timeout, and a steady
\* client's requests are served and its notifications acted upon.
SurfaceFairness ==
  /\ WF_surfaceVars(Start) /\ WF_surfaceVars(BeginRound) /\ WF_surfaceVars(EndRound)
  /\ \A c \in Clients : WF_surfaceVars(Notified(c) \/ TimesOut(c))
  /\ \A c \in Steady : WF_surfaceVars(AskList(c) \/ ReadTools(c) \/ AnswerList(c))

SurfaceFairSpec == SurfaceSpec /\ SurfaceFairness

-----------------------------------------------------------------------------
(* Properties.                                                             *)

Advertised == {t \in registered : t.name \notin hidden}

\* A listed promoted tool can be dispatched and its schema misleads nobody:
\* some connected editor promotes it, every editor that does agrees on the
\* schema shown, no name is shown twice, and the cap holds.  (After an
\* editor's disconnect, too, and whatever the order of pushes.)
AdvertisedIsBacked ==
  /\ Cardinality(Advertised) <= MAX_PROMOTED_TOOLS
  /\ \A t \in Advertised :
       /\ \E e \in Promoting(catalog, t.name) : e \in connected
       /\ \A e \in Promoting(catalog, t.name) : catalog[e][t.name].schema = t.schema
       /\ \A u \in registered : u.name = t.name => u = t

\* A steady client comes to know the tools as they are once changes stop,
\* whenever the last change fell during a broadcast or a listing, and
\* whatever the other clients do.
EveryoneHears == \A c \in Steady : <>[](view[c] = Advertised)

\* The ops of a tool that are registered, with their handlers.
OpsOf(tool, exclude) ==
  LET rows == {r \in Registered(exclude) : r.tool = tool}
  IN  [o \in {r.op : r \in rows} |-> (CHOOSE r \in rows : r.op = o).handler]

RawCalls(op) ==
  [op : {op}, form : {"object", "text"}, nested : Written, flat : Written, wrapper : BOOLEAN]
  \cup [op : {op}, form : {"none", "array", "broken"}, nested : {NoArguments},
        flat : Written, wrapper : BOOLEAN]

\* However a client writes a call of a registered op, it is refused or its
\* handler gets all of the arguments that were written and no others; and
\* what a person would take to be right is not refused.  An op that was
\* excluded is refused.
CallsArriveIntact ==
  ~running =>
    \A tool \in SampledTools, exclude \in ExcludeSets :
      LET handlers == OpsOf(tool, exclude)
      IN  \A op \in DOMAIN OpsOf(tool, {}) : \A c \in RawCalls(op) :
            /\ Intact(c, handlers)
            /\ Sensible(c, handlers) => Deliver(c, handlers) # Refused
            /\ op \notin DOMAIN handlers => Deliver(c, handlers) = Refused

=============================================================================
