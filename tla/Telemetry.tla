------------------------------- MODULE Telemetry -------------------------------
(***************************************************************************)
(* telemetry.py: callers that record on the event loop and on FastMCP's    *)
(* threads for synchronous tools, the worker thread of a collector that    *)
(* batches and posts, the end of the server's lifespan that shuts the      *)
(* collector down and forgets it, and the opt-out that an editor latches   *)
(* while all of this goes on.  The user may run another server on another  *)
(* port, with a collector of its own and the same milestones.json.         *)
(*                                                                         *)
(* A call stands for the one report its decorator makes.  A new collector  *)
(* is made when the first report after a shutdown, or in a new process,    *)
(* asks for one.  The endpoint is configured and the environment does not  *)
(* opt out.                                                                *)
(***************************************************************************)
EXTENDS Integers, Sequences, Functions

CONSTANTS
  Tools, Resources,   \* calls of tools, and reads of resources
  Milestones,
  Collectors,         \* (bound: their number)
  None,
  Save, Wake,         \* _PERSIST_MILESTONES, _WAKE
  QueueMax, PendingMax, PerPost   \* QUEUE_MAXSIZE, PENDING_MAXSIZE, MAX_EVENTS_PER_POST

Calls   == Tools \cup Resources
Records == Calls \cup Milestones

ASSUME TelemetryAssumption ==
  /\ {QueueMax, PendingMax, PerPost} \subseteq Nat \ {0}
  /\ None \notin Collectors \cup Milestones \cup {"idle", "done"}
  /\ Save # Wake /\ {Save, Wake} \cap Records = {}
  /\ Calls \cap Milestones = {} /\ Collectors \cap {"idle", "done"} = {}

VARIABLES
  latched,   \* _runtime_opt_out
  current,   \* _collector
  file,      \* milestones.json
  others,    \* _milestones of the other servers that run, equal ones once
  worker,    \* each collector's thread
  stop,      \* _shutdown
  queue, pending, rollup, marked,   \* _queue, _pending, _rollup, _milestones
  last,      \* the flush is the last one
  outbox,    \* events still to be posted, each a set of records
  client,    \* _client
  caller,    \* each call: "idle", within record() on a collector, "done"
  joining,   \* the collector whose worker the event loop waits for
  due,       \* the milestone that record_milestone is about to record
  arrived,   \* history: records that reached the endpoint
  spent,     \* history: those, and those on the wire, when the latch was set
  late,      \* history: calls recorded after their collector was told to stop
  fired,     \* history: milestones that were recorded as a first time
  again,     \* history: those that were so once more
  disputed,  \* history: those that were in one copy in use and not in another
  unsaved,   \* history: milestones that were not persisted
  cut        \* history: a worker was cut off, or outlived the wait for it

buffers == <<queue, pending, rollup, outbox, last>>
threads == <<worker, stop, client>>
onLoop  == <<joining, due>>
firsts  == <<fired, again>>
history == <<arrived, spent, late, firsts, unsaved, cut>>
servers == <<others, disputed>>
vars == <<latched, current, file, threads, buffers, marked, caller, onLoop, history, servers>>

Init ==
  /\ latched = FALSE /\ current = None /\ file = {}
  /\ worker = [c \in Collectors |-> "unborn"]
  /\ stop = [c \in Collectors |-> FALSE]
  /\ queue = [c \in Collectors |-> <<>>]
  /\ pending = [c \in Collectors |-> <<>>]
  /\ rollup = [c \in Collectors |-> {}]
  /\ marked = [c \in Collectors |-> {}]
  /\ last = [c \in Collectors |-> FALSE]
  /\ outbox = [c \in Collectors |-> <<>>]
  /\ client = [c \in Collectors |-> "none"]
  /\ caller = [t \in Calls |-> "idle"]
  /\ joining = None /\ due = None
  /\ arrived = {} /\ spent = {} /\ late = {} /\ fired = {} /\ again = {} /\ unsaved = {} /\ cut = FALSE
  /\ others = {} /\ disputed = {}

-----------------------------------------------------------------------------
(* The collector that get_telemetry returns, made if there is none.        *)

\* (mutant) a collector starts without the milestones of the last one.
Loaded_Nothing == {}

\* _load_persistent_data.
Loaded == file

\* get_telemetry does not take the lock when it finds a collector, even one
\* that is being shut down.
GetTelemetry(c) ==
  \/ /\ current = c
     /\ UNCHANGED <<current, worker>>
  \/ /\ current = None /\ worker[c] = "unborn"
     /\ current' = c
     /\ worker' = [worker EXCEPT ![c] = "polling"]

Known(c) == IF current = None THEN Loaded ELSE marked[c]

\* The copies of the milestones in use, and where they differ.
Copies    == others \cup (IF current = None THEN {} ELSE {marked[current]})
Differing == {m \in UNION Copies : \E copy \in Copies : m \notin copy}
Disputes  == disputed' = disputed \cup Differing'

Fires(m) == fired' = fired \cup {m} /\ again' = again \cup ({m} \cap fired)

\* put_nowait: a full queue drops.
Queued(c, x) == IF Len(queue[c]) < QueueMax THEN Append(queue[c], x) ELSE queue[c]

-----------------------------------------------------------------------------
(* Callers.                                                                *)

\* The decorator's finished call: the collector, and whether to record at all.
Returns(t) ==
  /\ caller[t] = "idle"
  /\ \E c \in Collectors :
       /\ GetTelemetry(c)
       /\ marked' = [marked EXCEPT ![c] = Known(c)]
       /\ caller' = [caller EXCEPT ![t] = IF latched THEN "done" ELSE c]
  /\ UNCHANGED <<latched, file, stop, client, buffers, onLoop, history, others>>
  /\ Disputes

Noted(t) ==
  /\ caller[t] \in Collectors
  /\ caller' = [caller EXCEPT ![t] = "done"]
  /\ late' = IF stop[caller[t]] THEN late \cup {t} ELSE late
  /\ UNCHANGED <<latched, current, file, threads, pending, outbox, last, marked, onLoop,
                 arrived, spent, firsts, unsaved, cut, servers>>

\* A tool that succeeded is counted ...
Counts(t) ==
  /\ t \in Tools /\ Noted(t)
  /\ rollup' = [rollup EXCEPT ![caller[t]] = @ \cup {t}]
  /\ UNCHANGED queue

\* ... a tool that failed and any read of a resource are queued.
Queues(t) ==
  /\ Noted(t)
  /\ queue' = [queue EXCEPT ![caller[t]] = Queued(caller[t], t)]
  /\ UNCHANGED rollup

-----------------------------------------------------------------------------
(* The event loop.                                                         *)

LoopFree == joining = None /\ due = None

OnTheWire(c) ==
  IF worker[c] # "sending" THEN {}
  ELSE UNION {outbox[c][i] : i \in {n \in DOMAIN outbox[c] : n <= PerPost}}

\* An editor's telemetry_opt_out event.
OptOut ==
  /\ LoopFree /\ ~latched /\ latched' = TRUE
  /\ spent' = arrived \cup UNION {OnTheWire(c) : c \in Collectors}
  /\ UNCHANGED <<current, file, threads, buffers, marked, caller, onLoop,
                 arrived, late, firsts, unsaved, cut, servers>>

\* record_milestone: marked in memory, to be saved by the worker, and then
\* recorded.
Milestone(m) ==
  /\ LoopFree /\ ~latched
  /\ \E c \in Collectors :
       /\ GetTelemetry(c) /\ m \notin Known(c)
       /\ marked' = [marked EXCEPT ![c] = Known(c) \cup {m}]
       /\ queue' = [queue EXCEPT ![c] = Queued(c, Save)]
       /\ unsaved' = IF queue'[c] = queue[c] THEN unsaved \cup {m} ELSE unsaved
  /\ due' = m /\ Fires(m)
  /\ UNCHANGED <<latched, file, stop, client, pending, rollup, outbox, last, caller, joining,
                 arrived, spent, late, cut, others>>
  /\ Disputes

RecordMilestone ==
  /\ due # None /\ due' = None
  /\ queue' = [queue EXCEPT ![current] = Queued(current, due)]
  /\ UNCHANGED <<latched, current, file, threads, pending, rollup, outbox, last, marked,
                 caller, joining, history, servers>>

\* shutdown_if_initialized, up to the join ...
Shutdown ==
  /\ LoopFree /\ current # None
  /\ stop' = [stop EXCEPT ![current] = TRUE]
  /\ queue' = [queue EXCEPT ![current] = Queued(current, Wake)]
  /\ joining' = current
  /\ UNCHANGED <<latched, current, file, worker, client, pending, rollup, outbox, last, marked,
                 caller, due, history, servers>>

Closed(c) == IF worker[c] = "gone" /\ client[c] = "open" THEN "closed" ELSE client[c]

\* ... which ends with the worker or with its time.
Joined ==
  /\ joining # None
  /\ client' = [client EXCEPT ![joining] = Closed(joining)]
  /\ cut' = (cut \/ worker[joining] # "gone")
  /\ current' = None /\ joining' = None
  /\ UNCHANGED <<latched, file, worker, stop, buffers, marked, caller, due,
                 arrived, spent, late, firsts, unsaved, servers>>

\* The server ends or dies, with all its threads; the next one starts anew.
\* A file half written reads as none.
ProcessEnds ==
  /\ current # None
  /\ file' \in {file, {}}
  /\ cut' = TRUE
  /\ worker' = [c \in Collectors |-> IF worker[c] = "unborn" THEN "unborn" ELSE "gone"]
  /\ queue' = [c \in Collectors |-> <<>>] /\ pending' = [c \in Collectors |-> <<>>]
  /\ rollup' = [c \in Collectors |-> {}] /\ outbox' = [c \in Collectors |-> <<>>]
  /\ marked' = [c \in Collectors |-> {}] /\ client' = [c \in Collectors |-> "none"]
  /\ spent' = {}
  /\ caller' = [t \in Calls |-> IF caller[t] \in Collectors THEN "done" ELSE caller[t]]
  /\ latched' = FALSE /\ current' = None /\ joining' = None /\ due' = None
  /\ UNCHANGED <<stop, last, arrived, late, firsts, unsaved, servers>>

-----------------------------------------------------------------------------
(* The worker.                                                             *)

WorkerMoves(c, from, to) == worker[c] = from /\ worker' = [worker EXCEPT ![c] = to]

WorkerOnly ==
  UNCHANGED <<latched, current, stop, marked, caller, onLoop, spent, late, firsts, cut, servers>>

\* _handle.  The file may not be writable.
Handle(c) ==
  LET x == Head(queue[c])
  IN  /\ queue[c] # <<>>
      /\ queue' = [queue EXCEPT ![c] = Tail(@)]
      /\ pending' = IF x \in Records /\ Len(pending[c]) < PendingMax
                    THEN [pending EXCEPT ![c] = Append(@, x)] ELSE pending
      /\ \/ x = Save /\ file' = marked[c] /\ UNCHANGED unsaved
         \/ x = Save /\ unsaved' = unsaved \cup (marked[c] \ file) /\ UNCHANGED file
         \/ x # Save /\ UNCHANGED <<file, unsaved>>
      /\ UNCHANGED <<rollup, outbox, last, client, arrived>>

\* After a turn of the loop, or a flush.
Resumed(c) == IF stop[c] THEN "draining" ELSE "polling"

\* A turn of the loop whose get finds something, or nothing for a while.
Get(c) ==
  /\ WorkerMoves(c, "polling", Resumed(c))
  /\ Handle(c) \/ (queue[c] = <<>> /\ UNCHANGED <<buffers, file, client, arrived, unsaved>>)
  /\ WorkerOnly

\* Of the records one event each, of the counts one event.
Batched(c) == [i \in DOMAIN pending[c] |-> {pending[c][i]}]
              \o (IF rollup[c] = {} THEN <<>> ELSE <<rollup[c]>>)

\* With these events left the worker goes on posting, or leaves the flush.
Proceeds(c, from, events, final) ==
  /\ WorkerMoves(c, from, IF events # <<>> THEN "checking" ELSE IF final THEN "gone" ELSE Resumed(c))
  /\ outbox' = [outbox EXCEPT ![c] = events]

\* pending and the counts are swapped out, and dropped after an opt-out.
Flush(c, from, final) ==
  /\ Proceeds(c, from, IF latched THEN <<>> ELSE Batched(c), final)
  /\ pending' = [pending EXCEPT ![c] = <<>>]
  /\ rollup' = [rollup EXCEPT ![c] = {}]
  /\ last' = [last EXCEPT ![c] = final]
  /\ WorkerOnly /\ UNCHANGED <<queue, file, client, arrived, unsaved>>

HasUnsent(c) == pending[c] # <<>> \/ rollup[c] # {}

\* The interval has passed.
FlushDue(c) == HasUnsent(c) /\ Flush(c, "polling", FALSE)

\* (mutant) the last flush does not wait for the queue.
Drained_Never(c) == TRUE

Drained(c) == queue[c] = <<>>

Drain(c) ==
  /\ WorkerMoves(c, "draining", "draining") /\ Handle(c) /\ WorkerOnly

LastFlush(c) == Drained(c) /\ Flush(c, "draining", TRUE)

\* (mutant) the opt-out is asked for once per flush.
Allowed_Flushed == TRUE

\* _post asks again, for each batch.
Allowed == ~latched

Post(c) ==
  /\ Allowed
  /\ WorkerMoves(c, "checking", "sending")
  /\ client' = [client EXCEPT ![c] = IF @ = "none" THEN "open" ELSE @]
  /\ WorkerOnly /\ UNCHANGED <<buffers, file, arrived, unsaved>>

\* (mutant) the slice does not advance.
Rest_All(c) == outbox[c]

\* The batches still to come.
Rest(c) == SubSeq(outbox[c], PerPost + 1, Len(outbox[c]))

Withheld(c) ==
  /\ ~Allowed
  /\ Proceeds(c, "checking", Rest(c), last[c])
  /\ WorkerOnly /\ UNCHANGED <<queue, pending, rollup, last, file, client, arrived, unsaved>>

\* The batch is answered or lost, and never sent again; an error that is none
\* of httpx's ends the flush.
Posted(c) ==
  /\ Proceeds(c, "sending", Rest(c), last[c]) \/ Proceeds(c, "sending", <<>>, last[c])
  /\ arrived' = arrived \cup OnTheWire(c) \/ UNCHANGED arrived
  /\ WorkerOnly /\ UNCHANGED <<queue, pending, rollup, last, file, client, unsaved>>

-----------------------------------------------------------------------------
(* The user's other servers: each loads the file, and overwrites it with   *)
(* its own milestones, without a lock.                                     *)

Here == UNCHANGED <<latched, current, threads, buffers, marked, caller, onLoop,
                    arrived, spent, late>>

OtherStarts ==
  /\ others' = others \cup {Loaded}
  /\ Here /\ UNCHANGED <<file, firsts, unsaved, cut>> /\ Disputes

\* One that holds copy records m and saves it, or does not come to.
OtherMarks(copy, m) ==
  /\ copy \in others /\ m \notin copy
  /\ \E rest \in {others, others \ {copy}} : others' = rest \cup {copy \cup {m}}
  /\ \/ file' = copy \cup {m} /\ UNCHANGED unsaved
     \/ unsaved' = unsaved \cup {m} /\ UNCHANGED file
  /\ Fires(m) /\ Here /\ UNCHANGED cut /\ Disputes

\* ... or is killed while it writes.
OtherEnds(copy) ==
  /\ copy \in others /\ others' = others \ {copy}
  /\ UNCHANGED <<file, cut>> \/ (file' = {} /\ cut' = TRUE)
  /\ Here /\ UNCHANGED <<firsts, unsaved, disputed>>

OtherSteps ==
  \/ OtherStarts
  \/ \E copy \in others : OtherEnds(copy) \/ \E m \in Milestones : OtherMarks(copy, m)

-----------------------------------------------------------------------------
WorkerSteps(c) ==
  \/ Get(c) \/ FlushDue(c) \/ Drain(c) \/ LastFlush(c)
  \/ Post(c) \/ Withheld(c) \/ Posted(c)

Next ==
  \/ \E t \in Calls : Returns(t) \/ Counts(t) \/ Queues(t)
  \/ \E m \in Milestones : Milestone(m)
  \/ OptOut \/ RecordMilestone \/ Shutdown \/ Joined \/ ProcessEnds
  \/ \E c \in Collectors : WorkerSteps(c)
  \/ OtherSteps

Spec == Init /\ [][Next]_vars

-----------------------------------------------------------------------------
(* Properties.                                                             *)

WorkerState == {"unborn", "polling", "draining", "checking", "sending", "gone"}

TypeOK ==
  /\ latched \in BOOLEAN /\ current \in Collectors \cup {None}
  /\ file \subseteq Milestones /\ marked \in [Collectors -> SUBSET Milestones]
  /\ worker \in [Collectors -> WorkerState]
  /\ stop \in [Collectors -> BOOLEAN] /\ last \in [Collectors -> BOOLEAN]
  /\ client \in [Collectors -> {"none", "open", "closed"}]
  /\ queue \in [Collectors -> Seq(Records \cup {Save, Wake})]
  /\ pending \in [Collectors -> Seq(Records)]
  /\ rollup \in [Collectors -> SUBSET Tools]
  /\ outbox \in [Collectors -> Seq(SUBSET Records)]
  /\ caller \in [Calls -> {"idle", "done"} \cup Collectors]
  /\ joining \in Collectors \cup {None} /\ due \in Milestones \cup {None}
  /\ others \subseteq SUBSET Milestones

\* Once an editor has opted out, nothing reaches the endpoint but what was on
\* the wire at that moment: not what was recorded before, nor the other
\* batches of a flush under way, nor the last flush of the shutdown.
QuietAfterOptOut == latched => arrived \subseteq spent

\* A call is reported at most once, whether its post is known to have arrived
\* or not, and whichever collector comes to hold it.
ReportedOnce ==
  \A c \in Collectors :
    OnTheWire(c) \cap Calls \cap (arrived \cup UNION {OnTheWire(d) : d \in Collectors \ {c}}) = {}

\* A worker that ends leaves nothing behind but calls that were recorded after
\* its collector was told to stop; whatever else was recorded was handled.
LeftBehind(c) == Range(queue[c]) \cup Range(pending[c]) \cup rollup[c]

NothingLeftBehind ==
  \A c \in Collectors : worker[c] = "gone" => LeftBehind(c) \subseteq late

\* No client is closed under a post: not by a shutdown whose wait for the
\* worker was too short.
ClientIsUsable == \A c \in Collectors : worker[c] = "sending" => client[c] = "open"

\* A milestone is recorded once by all the collectors of the user's servers,
\* one after the other or at the same time, unless it could not be saved, a
\* worker did not live to save it, or of servers that ran together one held it
\* and another did not.  (Each goes by the file as it found it.)
MilestoneOnce == cut \/ again \subseteq unsaved \cup disputed
=============================================================================
