# TLA+ models of Godot AI

Godot AI lets an MCP client edit a Godot project. Between the client and the
editor stand three programs that start, stop and fail on their own:

```
MCP client --stdio--> godot-ai attach --HTTP :8000--> Python server --WebSocket :9500--> Godot plugin
                      (one per client)                (shared)                          (one per editor)
```

This directory models what happens between them: who owns a connection, which
command runs and how often, who is answered, and who keeps the server alive.
Each module is a translation of code in this repository; `PROJECT.json` maps
every definition to the lines it stands for.

| Module | Code | Checked by TLC | Proved by TLAPS |
|---|---|---|---|
| `SessionRegistry` | `sessions/registry.py`, `transport/websocket.py` | `registry` | all invariants and action properties (`SessionProofs`) |
| `AttachRecovery` | `attach/proxy.py`, `attach/main.py` | `attach_tool_call` | safety and refinement of `AtMostOnceCall` (`AttachRecoveryProofs`) |
| `AtMostOnceCall` | the bridge's promise about a `tools/call` | through `ImplementsAtMostOnce` | |
| `BackendStart` | `attach/ensure.py`, `transport/capability.py`, `__init__.py`, the lifespan in `server.py` | `backend_start` | safety (`BackendStartProofs`) |
| `EditorLink` | `connection.gd`, `dispatcher.gd`, `utils/plugin_reload.gd` | `editor_link`, `editor_link_lost_command` | safety (`EditorLinkProofs`) |
| `LeaseRegistry` | `attach/lease.py`, the server's side | `lease_registry` | safety and refinement of `LeaseTable` (`LeaseProofs`) |
| `LeaseTable` | an exact table of live leases | through `ImplementsTable` | |
| `ServerLife` | `orphan_reaper.py`, `attach/lease.py` (client), the lifespan in `server.py` | `server_life*` | safety (`LeaseProofs`) |
| `EditorClient` | `godot_client/*.py` | `editor_client` | safety (`EditorClientProofs`) |
| `ToolHandlers` | `handlers/*.py`, as a table | through the two below | |
| `WriteGate` | `handlers/_readiness.py`, `runtime/direct.py`, the readiness events of `transport/websocket.py` | `write_gate` | safety (`WriteGateProofs`) |
| `ToolTable`, `ToolCall` | `tools/*.py`, `resources/*.py`, `middleware/*.py`, as a table and as operators | through `ToolSurface` | |
| `ToolSurface` | `services/*.py`, `server.py`, `middleware/track_mcp_sessions.py`, the broadcast of `transport/websocket.py` | `tool_surface` | safety (`SessionProofs`) |
| `Telemetry` | `telemetry.py` | `telemetry` | safety (`TelemetryProofs`) |

To check one: `tlc -config MCSessionRegistry.cfg MCSessionRegistry`. To prove
one: `tlapm SessionProofs.tla`. A proof module covers the two components that
deal in the same thing where there are two: `SessionProofs` editors' sessions and
the tools they bring, `LeaseProofs` the two ends of a lease. Definitions of
`LeaseRegistry` and `ToolSurface` that would clash there carry the prefix
`Registry` or `Surface`.

## 1. Inventory

Paths are under `src/godot_ai/` (Python) and `plugin/addons/godot_ai/` (GDScript).

### Session registry and connection handlers — modelled in part
*State.* `_entries`: per session id the connection that owns it, its phase
(reserved, published), its pending requests and a snapshot of the editor; the
default route `_active_session_id`; the aggregate `_pending_count`; the list
of `wait_for_session` waiters.
*Operations.* reserve, publish, remove; open, resolve, fail and cancel a
request; activate; wait.
*Interactions.* One handler task per socket, one `send_command` task per
command and one task per waiter share the table on one asyncio loop.
*Hard.* Everything happens between awaits: the ACK between reservation and
publication, the close of a refused duplicate, the drain of a send, a deadline
whose cancelled task unwinds an iteration later.
*Correct when* a socket only ever touches its own entry, no request is lost,
leaked or settled twice, budgets hold, the default route names a live editor,
no waiter misses its editor.

### Attach bridge: request recovery — modelled
*State per request.* which of two attempts, the backend instance it is bound
to, the failures its transport recorded, the monitor's count of failed
observations.
*Hard.* The backend may be killed and replaced at any point of a call, and the
bridge must decide from what its own transport saw whether a repeat is safe.
*Correct when* a `tools/call` is performed at most once, "safe to retry" is
said only when it was not performed, and nothing waits for a backend that is gone.

### Lease registry — modelled
*State.* `_expiries` and a lazily reconciled heap.
*Hard.* Renewals leave stale entries behind; a rebuild must not drop a live one.
*Correct when* it answers as an exact table would, in bounded memory.

### Server lifetime — modelled in part
*State.* the owner and idle reapers' timers, editors' sessions, leases, the
capability record on disk, each bridge's `LeaseClient`.
*Hard.* Servers crash, are stopped, reap themselves and are replaced while
bridges hold leases on the old one; heartbeats are lost; a plugin reload
leaves a gap with no session.
*Correct when* a used server is spared, an unused one ends, and every bridge
regains its lease.

### Backend discovery and launch — modelled in part
*State.* a startup lock that all bridges of a user share, the servers' port
claim, the capability record on disk, the two ports; per bridge what its probe
has read.
*Hard.* Only the operating system coordinates the parties, and only the lock
and the claim die with their holder: the record outlives it. Editors launch
servers without taking the lock. A cancelled call leaves a thread behind that
may still get the lock.
*Correct when* the record never names a server that cannot own the port while
another one serves, no bridge launches beside a healthy backend or takes one
for a foreign occupant of the port, and the lock always comes free.

### Plugin transport and dispatcher — modelled in part
*State.* the socket, the handshake stage, the command queue, deferred requests
with their deadlines, the pause depth, whether a tick is active, a reload
reservation.
*Hard.* A handler that touches the editor's file system pumps the main loop:
a whole `_process` runs inside the tick that is iterating over the queue.
*Correct when* a command runs once, in order, only on a live connection, is
answered once on the connection it came in on (with the exceptions of section
4), and nothing leaves the transport paused.

### Server lifecycle owner in the editor — planned
`server_lifecycle.gd` keeps one tagged episode (dormant, starting, ready,
blocked, recovering, stopping) and runs its effects on workers.
*Correct when* a late effect never touches a later episode, only a process
whose pid and fingerprint are proven is killed, a replacement authorization is
used once, and recovery is bounded.

### Self-update — planned
Stage, lock, two directory renames, marker, verification after the restart,
rollback. *Correct when* the live tree is the old or the new one after a crash
at any step.

### Godot client and circuit breaker — modelled
*State.* per session key a failure counter, an open window, a back-off; the
calls in flight.
*Hard.* Calls that share an outage all report it; ids that agents invent add
circuits; while clients retry, a circuit must still let a probe through.
*Correct when* the map is bounded, a circuit opens only on a streak of its own
key, and an editor that is well again is reached.

### Write readiness gate — modelled
*State.* the readiness cached for each session, the calls that wait at the
gate, the frames on their way from the editor.
*Hard.* The cache is written by events, by probes and by the replies of other
calls, in the order tasks run, which is not the order frames arrive.
*Correct when* a write is refused or sent according to what an editor said no
earlier than the call's last probe, and is not held past the cap.

### Custom tools: catalog, promotion, broadcast — server side modelled
*State.* a catalog per editor, the promoted tools of the MCP server, the names
hidden by tombstones, one broadcast task with a rerun flag, the tracked clients.
*Hard.* A change arrives while a broadcast is sending, or finishing; a client's
`tools/list` overlaps a change; two editors define one name differently.
*Correct when* what is advertised is backed by a catalog, and every client
learns of the last change.

### MCP tools, handlers, resources and middleware — modelled in part
No state, but a table of some 160 handlers in which one wrong entry sends a
write past the gate, and a chain of layers that rewrite a call. *Correct when*
every advertised tool reaches its handler, and what a client meant arrives
there, in whichever of the accepted spellings it was written.

### Telemetry — server side modelled
*State.* the collector's queue, batch and counts, its worker thread, its HTTP
client, the milestones in memory and on disk, the runtime opt-out.
*Hard.* Callers on several threads, a worker that posts for seconds, a shutdown
that waits only so long, an opt-out in the middle of a flush; servers on other
ports that load and overwrite the same milestones file without a lock.
*Correct when* nothing is sent after an opt-out, sent twice, or left behind,
and no milestone is recorded again.

### MCP client configuration jobs — planned
Worker threads, refresh generations, one mutation slot and a lock file.
*Correct when* a stale result never repairs a newer configuration.

### Game bridge — planned
Request ids over the debugger channel, a boot beacon and timeouts.
*Correct when* each request is answered once and a reply never crosses runs.

### Diagnostics — planned
Monotonic error counters in the plugin folded into deltas by the server.
*Correct when* no error is reported twice or lost across runs and reloads.

### Not modelled
The protocol schemas are data. The HTTP trust boundary checks each request on
its own; the claim and the record it rests on are in `BackendStart`. The
editor's command handlers act through Godot's API and undo manager, which are
not in this repository. `plugin.gd`, the dock and vision routing are wiring
and views. Release and CI scripts are not part of the running system.

## 2. The modules

### SessionRegistry
One action is the code between two awaits. `handler[p]` says where the
`_handle_connection` task of socket `p` stands (`opening`, `acking`,
`serving`, `rejected`, `closed`), `call[r]` where the `send_command` task of
request `r` stands (`sending`, `awaiting`, `unwinding`, `done`), `waiter[w]`
where a `wait_for_session` call stands. `future[r]` is the asyncio future. A
deadline is two actions, because it is two loop iterations: `DeadlineFires`
cancels the future, and `Unwind` runs the `finally` clause; whatever else is
runnable fits between them. Refusals that raise before any assignment are
stutters. A session's snapshot is its readiness; ids and project paths never
change, so a waiter's criteria are a set of ids.

### AttachRecovery and AtMostOnceCall
`leg[c]` is the progress of the downstream client of an attempt: `opening`,
`notifying`, `calling`, `sent`, then `failed` or `answered`. `trace[c]` is
what `RecordingAsyncHTTPTransport` recorded. `wire` holds operations that
reached a backend and may still be performed, also after the bridge gave up on
them; a crash empties it. A bridge's first `tools/call` also lists the tools through a
downstream client of its own (`_get_tool`, `proxy.py:174-179`), which is not modelled:
its failures come before the operation exists, and are taken for one of `initialize`
or, conservatively, for an unknown outcome. `AtMostOnceCall` says what the client may conclude:
a `result` was performed, a `refused` call never was nor will be, anything else
is `unknown`.

### EditorLink
One `_process` frame is `Frame` (drain, then tick unless one is active); a tick
is `Dispatch`, `HandlerReturns` and `EndTick`. While a handler in `Pumping` is on
the stack every main-loop action may run as well: that is the pumped frame. These
are all but the test run and the reload, those included that then defer, as
`run_project` does around `play_*_scene` and `create_script` around its file
refresh. A pumped frame may also find the transport closed, revoked or
re-established; `nested` remembers the sockets dialled in one, `adrift` the
commands that were running or collected when their connection was given up. A
deferring handler is registered when it returns, and answers later or times out. A test run (`Exclusive`) pumps nothing and rejects what arrives through
`ServiceTransport`. Which commands a tick manages within its four
milliseconds, and which replies a full socket buffer drops, are left open.
`home`, `order`, `nested`, `adrift`, `started`, `answers`, `busy` and `dropped` are
history.

### LeaseTable and LeaseRegistry
The heap is a set of `<<expiry, lease, copy>>`, where the number tells apart
entries that are equal in the code; `Push` takes one that is free. `prune` pops
everything that is due, so the heap's order has no effect. `Register`, `Heartbeat`, `Release` and
`ActiveCount` each prune first, as the code does. `LeaseTable` is the same
interface over a table from which a lease disappears the instant it expires.

### ServerLife
Time advances by `Tick`, which may not pass a timer that is due or a bridge
that has something to do. A request takes no time, but may be lost, and its
effect with it or not. `held[b]` is what is left of the lease the bridge
knows the id of, `stray[b]` of the longest other one granted to it: a bridge
that forgets its lease, or registers twice, leaves one behind, which keeps the
server up until it runs out. `bridge[b].pc` follows the code of
`LeaseClient.start` and `_heartbeat_loop`, and `bridge[b].call` a tool call
that recovers the backend at the same time (`ensure_ready`). A heartbeat that fails
and the `_invalidate` that follows it are two steps (`BeatRefused` or `BeatLost`, then
`Invalidates`), since the client's lock is free between them and a tool call may
register there. An instance id
nobody remembers any more is used again, which bounds the nonces; that there is
always such an id is `NonceAssumption`.
`quiet` and `lasted` are history.

### BackendStart
Per bridge one call of `BackendEnsurer.ensure`: `bridge[b].at` says where it
stands (`acquiring`, `reading` the record, `asking` the port, `checking` the
answer against the record, `unanswered`, `launching`), `bridge[b].phase` which
loop it is in (adopting, waiting out an editor's replacement, waiting for its
child). The probe is three actions because the record may change on either
side of the request; `Occupied` is its verdict `PORT_OCCUPIED`. A cancelled acquisition leaves `orphan` behind: the
thread that still polls, and whose success the done-callback undoes. Per server
the way from `main` through preflight, claim, listener, record and port, and
the end of the lifespan in two actions, since the record is compared and
unlinked in two system calls. A server dies at any step, and with it its ports
and its claim; a start may fail before the record is written (`StartFails`) or while it is
verified, when it is taken back (`PublishFails`). A record is the number of its server.

### EditorClient
The code between two awaits of `GodotClient.send` is one action: `Call` up to
the await, then `Answered` or `Failed`. A window is the time left of it. The
count of a streak of failures is history.

### ToolHandlers and WriteGate
`ToolHandlers` lists every handler with its gate and with what becomes of the
reply's readiness hints. `WriteGate` lets calls of every kind of them run against editors whose readiness
changes. A reply settles a future (`got`), and the task that waits for it runs
later, in the order of `ready`; between the two, frames already buffered may be
handled. `excuse[c]` is history: since its last probe left, the editor was busy
or the link bad.

### ToolTable, ToolCall and ToolSurface
`ToolTable` has what each `tools/*.py` registers. `ToolCall` has the
middleware and the dispatcher as operators on a call, in which a value is what
it is as JSON and which one; `Deliver` composes the layers in the order
`create_server` adds them. `ToolSurface` is the part with state: pushes of
snapshots replace a catalog, rebuild the promoted tools at once and schedule the
broadcast, whose task is `created`, `sending` and done, with the flag `rerun`.
A client's `tools/list` reads the tools and hides the tombstones in two steps.
TLC also evaluates `SurfaceIsWired`: every op has one known handler, a read
without a gate names the resource that answers it or waives it, a resource is
answered by a handler without a gate, and no exclusion takes a core tool away.

### Telemetry
A call is the one report its decorator makes: `Returns` takes the collector,
`Counts` or `Queues` records on it, and a shutdown or an opt-out fits between
the two, because synchronous tools run on threads of their own. `worker[c]` is
the thread of a collector: `polling`, `draining` after the stop, and within a
flush `checking` the opt-out before each batch and `sending` it. The event loop
is blocked while `joining` is set, so nothing of it interleaves with the wait.
`others` are the milestones that the user's other running servers hold in memory:
each loads the file as it finds it (`OtherStarts`), records and overwrites it with
what it holds (`OtherMarks`), and ends or is killed in mid-write (`OtherEnds`). Their
worker's delay is left out: a save of theirs happens at once or not at all.
`arrived`, `spent`, `late`, `fired`, `again`, `disputed`, `unsaved` and `cut` are
history; `disputed` has the milestones that some running servers held and others
did not.

The actions of the environment (an editor starting its server, crashes, an
operator's SIGTERM, sockets, the backend behind the bridge, time) are marked
external in the map.

## 3. The runs

Every property of a passing run has a mutant: a plausible bug in one mapped
definition (dropped guard, stale index, missing reset) under which the same run
finds the property violated.

| Run | Instance | States | Properties |
|---|---|---|---|
| `registry` | 2 sessions, 2 sockets, 3 requests, 1 waiter, both budgets 2 | 257,186 (symmetric) | `EntryOwnership`, `RequestsAccounted`, `NoOrphanedCall`, `ActiveIsRoutable`, `NoLostWakeup`, `SettledOnce`, `DefaultRouteStable` |
| `attach_tool_call` | one `tools/call` or one repeatable request, 4 backend launches, threshold 3 | 16,281 | `NoFalseRefusal`, `ImplementsAtMostOnce`, `GoneBackendIsNoticed` |
| `backend_start` | 2 bridges, one of which may be cancelled or die, 2 servers | 220,517 | `RecordStands`, `NoRivalChild`, `NoFalseOccupant`, `LockComesFree` |
| `editor_link` | a command that pumps, one that pumps and defers, a test run, a reload, 2 sockets | 721,291 | `HandledOnce`, `PauseEndsWithTick`, `BusyNeverRuns`, `LostOnlyWhenNested`, `StaysOnItsLink`, `StartsInOrder`, `EveryCommandSettles` |
| `editor_link_lost_command` | 2 plain commands, 2 sockets | violation | `OneResponsePerCommand` |
| `lease_registry` | 3 leases for 2 places, TTL 2, 5 ticks | 37,647 (symmetric) | `Bounded`, `ImplementsTable` |
| `server_life` | 1 bridge, 1 editor, 2 faults, TTL 2, poll 2, graces 2 and 4 | 150,840 | `TypeOK`, `BeatenLeaseLives`, `ReaperSparesUsers`, `UnusedServerEnds`, `LeaseRecovers` |
| `server_life_dead_heartbeat` | the same | violation | `EveryBridgeRecovers` |
| `editor_client` | 2 sessions, 2 callers, threshold 2, ceiling 2, 2 circuits | 84,747 | `CircuitsBounded`, `OpensOnStreak`, `WellEditorsAreReached` |
| `write_gate` | 2 sessions, 2 calls, a hold of 2 rounds, 2 frames in flight | 2,167,578 (symmetric) | `NoFalseRefusal`, `SentWhereAllowed` |
| `tool_surface` | 2 editors, 2 clients, 2 names, 2 schemas, cap 1, 2 changes, 6 snapshots | 579,013 | `AdvertisedIsBacked`, `CallsArriveIntact`, `EveryoneHears` |
| `telemetry` | a tool, a resource, a milestone, 2 collectors, other servers, queue 2, batch 1 | 3,399,967 (symmetric) | `QuietAfterOptOut`, `ReportedOnce`, `NothingLeftBehind`, `MilestoneOnce` |

Where a module has a `TypeOK` that is not listed here, it is proved.

### Why the bounds are enough
- **registry**: two sockets suffice for a duplicate against a live or reserved
  id; three requests against budgets of two reach both limits and leave one to
  be refused; both budgets are equal, so the aggregate one is reached by
  requests to different editors as well. The theorems hold for every size.
- **attach**: requests share nothing but the backend, so one is enough. A
  request has two attempts; four launches allow a replacement before and during
  each. Three misses is the shipped threshold.
- **editor_link**: one command of each kind; a tick holds several of them while a
  pumped frame replaces the queue. The second socket is the reconnect, between
  ticks or inside one. A drain cap of 2 and a flood cap of 1 are both exceeded
  by four commands.
- **lease_registry**: two places and three leases reach the ceiling; a heap of
  more than five entries, the rebuild threshold, needs renewals within one
  tick, which are unbounded here. Five ticks are two lifetimes and a half.
- **server_life**: at the scale of a few ticks, a heartbeat fits in a TTL and a
  poll in a grace, as shipped. The two graces are 120 s each by default and set
  separately; they differ here so that using the wrong one shows. Two
  faults allow a crash or stop and one lost request or failed launch on the way
  back. One bridge and one editor are enough for every pairing of a user with a
  reaper, since users only matter as "someone is there".

- **backend_start**: two bridges are needed for a rival launch and for a lock
  that a cancelled call left to its thread; two servers for an end that
  overlaps the next start. An instance with three servers (4.0 million states)
  was checked once with the same result, and the safety theorems hold for any number.
- **editor_client**: with two ids, the key without a session and room for two
  circuits, every call may find the map full; a threshold and a ceiling of two
  double once and then stop doubling.
- **write_gate**: two calls, one of which writes the cache the other reads; two
  sessions for a call whose session is activated away. Two rounds of the hold
  leave one to be woken early and one to end it, and two frames in flight allow
  an event to overtake the task of a reply. `Steady` keeps one editor busy and
  connected, so that one of the two sessions stays there to be read by mistake.
- **tool_surface**: a second change is what falls into a broadcast or a
  listing; two editors, two schemas and a cap of one reach every conflict, cap
  and tombstone. `ExcludeSets` and `SampledTools` only matter to the calls,
  which are checked in every form in the initial state.
- **telemetry**: the second collector is the one made after a shutdown or in the
  next process. Of the four kinds of record one each suffices for every order;
  queue, batch and post overflow at these sizes. With one milestone the other
  servers' copies are the empty set and the full one, which already reach every
  disagreement. Another server touches only the milestones, so the constraint
  `Bounded` has calls reported only in behaviours in which none has run so far;
  the theorems hold without it.

What limits the behaviours are the constants named in the modules:
`MaxInstance`, `MaxLinks`, `MaxTime`, `MaxFaults`, two pauses of a handler,
`CapTime`, `InboxCap`, `Steady` of `WriteGate`, `MaxChanges`, `Servers`,
`Collectors`; and in `attach_tool_call` the constraint `OneCall`, by which only one of the two
requests begins, and in `telemetry` the constraint `Bounded`. Deadlock is not checked because every model may come to
rest: all sockets used, all launches spent, nobody connected.

### Fairness
- `AttachRecovery`: weak fairness of the monitor's rounds and of resuming a
  coroutine whose await is over. Both are the bridge's own event loop. Nothing
  is assumed of the backend or the downstream request, which has no deadline.
- `EditorLink`: weak fairness of the synchronous steps of a tick and of the
  reload's timeout; strong fairness of a frame that ticks, and of the frame at
  which a deferred request's deadline has passed. Godot calls `_process` every
  frame, but a pause or a nested frame disables the action for a while, hence
  strong. Replies of coroutines are not assumed.
- `ServerLife`: weak fairness of time, of each reaper, and of a bridge's own
  steps. Loss of a request is never fair, and bounded by `MaxFaults`: a network
  that loses every heartbeat lets no lease live. Starting a bridge or an
  editor is not assumed.

- `BackendStart`: weak fairness of a bridge's steps and of the lock's thread,
  strong fairness of its deadlines, which the clock reaches however often the
  bridge polls in between. Nothing is assumed of servers.
- `EditorClient`: time passes; a call ends by its timeout; and for each session
  some client calls again and again (strong, since an open circuit or a call in
  flight disables it for a while).
- `ToolSurface`: the lifespan begins, the broadcast task runs, each send is
  received or times out, and a steady client lists again when told.

## 4. What the checks found

**A tick can discard a command of a new connection**
(`editor_link_lost_command`). `tick()` ends with
`_command_queue.slice(idx)`. When a frame pumped by a handler revokes the
transport, authenticates a new connection and queues its first command, the
outer tick slices that command away. It is neither run nor answered. `LostOnlyWhenNested` shows that this
is the only way: commands of a socket dialled between ticks are never lost.

**A heartbeat between two servers ends the heartbeat task**
(`server_life_dead_heartbeat`). After a graceful end of the server the
capability record is gone. `ensurer.http_capability` then raises
`AttachStartupError`, which `_heartbeat_loop` does not catch around
`_heartbeat_once`; leases that later calls register are never renewed.
`LeaseRecovers` shows that a bridge whose task is alive does recover.

Some promises are modelled as the code keeps them, which is less than a reader
might expect:

- `watch_idle` speaks of a full grace window after the last departure; the
  window is measured from the last poll that saw someone, so it is up to one
  poll shorter, and a visit between two polls is not seen at all. The second
  half of `ReaperSparesUsers` states what holds: after a presence longer than a
  poll, at least the grace less one poll.
- `_on_removed` promotes a lone survivor only when the editor that left was the
  default route: three editors, the routed one leaves, then another, and
  unpinned calls fail with one editor connected. `tests/unit/test_session_registry.py:62`
  describes the case of one as promoted.
- A bridge whose probe is answered just before a clean stop removes the record,
  or whose child loses the port to an editor's server, fails with
  `PORT_OCCUPIED` where a repeat would have adopted or launched. So does one whose
  record rotates twice within a probe, which repeats only once. `NoFalseOccupant`
  says that nothing else does. In
  `CompareRecord` the branch for another server's record is never taken, by
  `RecordStands`.
- A synchronous response of a tick that pumped a reconnect goes out on the new
  connection. Likewise a handler that pumps and then defers (`run_project`,
  `project_handler.gd:282-327`) may be registered after the table of deferred
  requests was cleared (`dispatcher.gd:298-304`), and its reply or timeout goes to
  whoever is connected then. `StaysOnItsLink` excepts both as `adrift`.
- A promoted tool called `manage` would be registered as `custom_manage`, which
  exists. With the cap or a conflict, which editor's tools are promoted depends on the
  order of their first pushes. A client whose send timed out is tracked again at its next
  request, but not told of the change it missed; `EveryoneHears` speaks of
  clients that read in time.
- `custom_manage`'s op `invoke` has a parameter called `params`, which
  therefore cannot be written beside `op`.
- A milestone may be recorded again when a worker outlived the wait for it or
  the process died before it was saved; `MilestoneOnce` excepts both.
- Servers of one user on two ports load `milestones.json` when they start and
  overwrite it with their own copy, without a lock (`telemetry.py:347-356`,
  `462-479`). Both may record the same first milestone, and one may undo what the
  other saved, so that a later server records it once more.
  `docs/TELEMETRY.md:235` calls the file a "one-shot event ledger (so each FIRST_X
  fires once)". `MilestoneOnce` excepts the milestones on which servers running
  together disagreed. A load that meets another server's half-written file is not
  modelled: a write is one step unless its writer is killed.

## 5. What is proved

For every number of editors, sockets, requests, leases and launches, and every
value of the budgets, thresholds and lifetimes that the modules' assumptions
allow. The assumptions are the checks of the constructors
(`LimitsAssumption`, `AttachAssumption`, `LeaseAssumption`, `LifeAssumption`,
`ClientAssumption`, `StartAssumption`, `TelemetryAssumption`, `SurfaceAssumption`), the
classification of commands and readiness values in the code
(`LinkAssumption`, `GateAssumption`, which also has finitely many calls at the
gate, as `SurfaceAssumption` has finitely many tool names), that the values
standing for "none" are not ids, and `NonceAssumption`: a server that starts draws
an instance id that no bridge still remembers, as a random UUID is bound to.

**SessionProofs.** *The registry.* No single invariant is inductive: that a handler
removes only its own entry needs the correspondence of entries and handlers,
that the counter is exact needs that no request is held twice, and that a
future is not settled twice needs to know who holds it. `IInv` is their
conjunction: `TypeOK`, `EntryOwnership`, `NoLeakedRequest` and `PendingBudget`
(together `RequestsAccounted`), `NoOrphanedCall`, `ActiveIsRoutable`,
`NoLostWakeup`. `Invariance` proves it,
one lemma for each part and action group; a lemma about the cardinality of a
disjoint union carries the counter through removals. `RouteStability` and
`Settlement` are the action properties.

*The tools.* `AdvertisedIsBacked` speaks of the editors connected now, the
registrar only looks at the catalog. `SurfaceInv` ties the two: only connected
editors have a catalog (`Owned`), and the registered and hidden tools are what the
registrar derives from the catalogs as they are (`Synced`), whichever changes came
before. `ToolsAreBacked` then needs that the first editor with a definition
exists, and that those within the cap are among the enabled ones: `Least` and
`BelowTheCap`, about any finite set of names and any order of editors.
`CallsIntact` is about the layers a call passes. `Folded` says what is left of a
call when wrappers are stripped, text is parsed and flat parameters are folded in;
`Delivery` follows it to the handler and proves for any set of handlers
that what the client wrote arrives, or the call is refused and had a reason to be.

**AttachRecoveryProofs.** The invariant `CallInv` follows the attempts a call
has used, that is put on the wire or had performed: none while it ensures a
backend, at most the current one while it runs, none as long as the trace shows
a failure before dispatch, at most one once it is answered, and none if that
answer was a refusal. At-most-once alone is not inductive: it needs that a
second attempt begins with none used.
`AtMostOnceHolds` and `NoFalseRefusalHolds` follow; `Refinement` maps each
step to a step of `AtMostOnceCall` or a stutter.

**LeaseProofs.** *The server's end.* `LeaseInHeap`: every lease's current expiry
is in the heap. With it pruning, which looks only at due entries, removes exactly
the expired leases (`KeptIsLive`), so what is left is what `LeaseTable` calls live;
`Refinement` is that argument for each call. `Ceilings` bounds the leases and
the heap: a push adds one entry, and a heap it takes past the limit is rebuilt
from no more leases than there may be.

*The bridge's end.* `BeatenLeaseLives` is not inductive, since the lease
it speaks of was granted some sleeps ago. `BridgeInv` says that what is left of a lease
exceeds what is left of the sleep, and that it is whole while the bridge recovers,
when no time passes; `HeartbeatAfter < LeaseTTL` starts that off. It needs
`FreshIsNew`: a bridge recognises a new server by its instance id.
`HeartbeatKeepsLease` follows. `ReapersSpareUsers` needs `IdleInv`, which relates the
idle reaper's window to its poll timer and to the time since somebody was
there: a presence the reaper has not seen yet is younger than its last poll, one
that it has seen restarted the window then.

**EditorClientProofs.** That a circuit opens only on a streak needs that the
counter never runs ahead of the streak (`Counted`): a success resets both, the
eviction of an entry only the counter. `MapBounded` is the cardinality argument
that eviction always makes room.

**BackendStartProofs.** Two invariants. That a record stands needs the claim:
`ClaimHeld` says that from the claim to its end a server holds it, so that a late
unlink and a rival's start exclude each other. That no bridge launches beside a
live backend needs the lock and the order of events: who has answered, or is
waited for, is found by the probe that precedes a launch, unless it has left by
then (`LInv`: `Locked`, `PortServed`, `AnswersLate`, `BackendsLate`,
`LaunchesAlone`). A third, `PInv`, is for the probe's verdict: a server publishes
once, as it opens (`RecordPast`, `SeenPast`), so while the server whose record a
bridge read still serves, the record is its own and nobody else can have answered
(`AnswerFits`). `RecordHolds`, `NoRival` and
`OccupantsAreForeign` are the theorems.

**TelemetryProofs.** `ClientStaysUsable` needs that a closed client stays behind
a worker that is gone; `OptOutIsQuiet` that what is on the wire is accounted
for with what arrived. `NothingIsLeft` is the longest: `LateInv` says who
can still record where. The event loop does so only on a collector that was not
told to stop, a caller never on one that died untold; so whatever is added to
a collector whose worker drains no more is late by definition. `CallsReportedOnce`
follows each call through queue, batch, rollup and outbox: it is in one place of one
collector, and in none once it has arrived (`OnceInv`, with lemmas on what the
sequence operators keep apart). `MilestonesOnce` speaks of what is settled, that is, fired, saved or
due to be, and not in dispute (`Settled`): it is in the file, or the current collector
holds it and a save is queued (`SavedOrDue`). Every copy in use knows the undisputed
part of the file (`KnowsFile`) and the copies differ in disputed milestones only
(`CopiesAgree`), so none of them can fire a settled one again, and an overwrite
takes none away (`SaveInv`). All of it holds until a worker or a write is cut off,
which the property excepts.

**EditorLinkProofs.** Four layers. `LinkInv` ties ticks, stages and sockets
together: nothing runs or is collected outside a tick, a handler is called with
the transport unpaused, and whatever is queued, deferred or at the socket came
on the present one, and what is running, collected or deferred did too or is `adrift`
(`TickInv`, `Channel`, `Homes`); `PausesEnd` and
`LinksKeepApart` follow. `OnceInv` adds that a command is in one place only:
those ahead of the tick's index or at the socket are pairwise distinct
(`Distinct`) and untouched (`Waiting`), and what runs, is collected or deferred
was started once and not answered (`Owing`), which gives `Handled` and
`RefusedStaysRefused`. `NestInv` says when the tick under way goes by the queue
of the present socket, namely unless a pumped frame dialled it; only then may
the slice at the end of a tick be trusted, and `NothingLost` rests on that.
`OrderInv` relates the history of sends to where commands are: whatever was sent
before a queued command is done with or queued ahead of it (`QueueOrder`), the same
for packets at the socket (`PacketOrder`), and nothing of a live connection is
anywhere else (`NoneAstray`); `StartsKeepOrder` follows.

**WriteGateProofs.** A refusal looks only at the cache, which everybody writes.
That it is nevertheless excused needs to follow the replies: `Frames` says that
a reply on its way is the only one to a call that waits for it, and `Excused`
that if it says blocked, or its editor became busy or vanished since the probe
left, the call is excused already. `CallSteps` reduces every step of a call to
one shape, `KeptFrames` every step of a socket to a frame that leaves.

**Only model-checked.** Every invariant and action property of a passing run is
a theorem. What is left to TLC is liveness (`GoneBackendIsNoticed`,
`EveryCommandSettles`, `UnusedServerEnds`, `LeaseRecovers`,
`WellEditorsAreReached`, `EveryoneHears`, `LockComesFree`), which rests on fairness
and `ENABLED` and is out of the prover's reach. The tables of `ToolTable` and
`ToolHandlers` are data: TLC evaluates `SurfaceIsWired`, and the theorems
about calls and the gate do not depend on their entries.

## 6. Plan

In order of what a wrong answer would cost:

1. `ServerLifecycle`: the episode, its effects as concurrent workers, stale
   results, the single-use replacement token, bounded recovery. Abstractly, a
   kill is only ever of a proven process.
2. `UpdateInstaller`: every step of staging, swap, verification and rollback
   with a crash between any two, against "the live tree is only ever the old
   exact tree or the new exact tree" (`docs/plugin-architecture.md`).
3. `BackendStart` as a refinement of `ServerLife`'s atomic `Ensured`.
4. The diagnostic watermark, client configuration jobs and the game bridge.

The abstract specifications worth stating are the proven-process kill, the
atomic tree exchange and `Ensured`. The runs of the new modules will have two
actors each: two workers of one episode, one editor and its crash.
