------------------------------ MODULE ServerLife ------------------------------
(***************************************************************************)
(* Who keeps a backend alive and what ends it: the two reapers of          *)
(* orphan_reaper.py, armed in the lifespan of server.py, the editors'      *)
(* sessions, and the LeaseClient each attach bridge runs (attach/lease.py) *)
(* with the BackendEnsurer behind it (attach/ensure.py).  The registry's   *)
(* side of a lease is what LeaseTable promises, here as the time each      *)
(* lease has left.  Time advances in ticks; a timer that is due fires      *)
(* before the next tick, and a request takes no time but may be lost.      *)
(***************************************************************************)
EXTENDS Integers, FiniteSets

CONSTANTS
  Bridges,        \* attach bridges
  Editors,        \* editors that may hold a session
  Instances,      \* SERVER_INSTANCE_ID nonces, as numbers
  LeaseTTL,       \* lease_ttl_seconds of a grant
  HeartbeatAfter, \* heartbeat_after_seconds
  Poll,           \* poll_seconds, and the owner reaper's grace_seconds
  BootGrace,      \* boot_grace_seconds
  IdleGrace,      \* idle_grace_seconds
  OwnerWatch,     \* should_arm_reaper: FALSE on Windows
  MaxFaults       \* bound: crashes, stops, lost requests, failed ensures

ASSUME LifeAssumption ==
  /\ {LeaseTTL, HeartbeatAfter, Poll, BootGrace, IdleGrace} \subseteq Nat \ {0}
  /\ HeartbeatAfter < LeaseTTL     \* LeaseRegistry.__init__
  /\ Instances \subseteq Nat \ {0} /\ 1 \in Instances
  /\ OwnerWatch \in BOOLEAN
  /\ MaxFaults \in Nat

\* There are more ids than the bridges can remember, each of them three.
ASSUME NonceAssumption ==
  \A ids \in [Bridges -> [1..3 -> Instances \cup {0}]] :
    \E i \in Instances : \A b \in Bridges : \A n \in 1..3 : i # ids[b][n]

VARIABLES
  instance,    \* the running server's SERVER_INSTANCE_ID, 0 while none runs
  record,      \* whether the capability record is there to be read
  held,        \* time left of the lease whose id the bridge has
  stray,       \* time left of the last other lease granted to the bridge
  sessions,    \* editors with a session
  ownerAlive,  \* the process --owner-pid names
  reaper,      \* watch_owner and watch_idle of the running server
  bridge,      \* each bridge's LeaseClient and its callers
  faults,
  quiet,       \* history: time since an editor or a lease was last there
  lasted       \* history: how long the last presence lasted

lease == <<held, stray>>
vars == <<instance, record, held, stray, sessions, ownerAlive, reaper, bridge, faults, quiet, lasted>>

CapTime == IF BootGrace > IdleGrace THEN BootGrace + Poll ELSE IdleGrace + Poll

Longer(x, y) == IF x > y THEN x ELSE y

Less(n) == IF n > 0 THEN n - 1 ELSE 0

More(n) == IF n < CapTime THEN n + 1 ELSE n

\* The bridge process: not running, the steps of LeaseClient.start, and the
\* heartbeat task asleep, recovering or ended by an exception.
Pc == {"off", "start", "retry", "restart", "asleep", "refused", "ensuring", "syncing", "dead"}

\* The heartbeat task exists.
Started == {"asleep", "refused", "ensuring", "syncing", "dead"}

Reapers == [owner : {"off", "poll", "grace"}, ownerIn : 0..Poll,
            idleIn : 0..Poll, idleFor : 0..CapTime, ever : BOOLEAN]

BridgeState == [pc : Pc, beatIn : 0..HeartbeatAfter, known : Instances \cup {0},
                seen : Instances \cup {0}, call : Instances \cup {0}]

TypeOK ==
  /\ instance \in Instances \cup {0}
  /\ record \in BOOLEAN /\ ownerAlive \in BOOLEAN
  /\ held \in [Bridges -> 0..LeaseTTL] /\ stray \in [Bridges -> 0..LeaseTTL]
  /\ sessions \subseteq Editors
  /\ reaper \in Reapers
  /\ bridge \in [Bridges -> BridgeState]
  /\ faults \in 0..MaxFaults
  /\ quiet \in 0..CapTime /\ lasted \in 0..CapTime

\* Both reapers as the lifespan arms them; watch_owner only with an owner.
Armed(owned) ==
  [owner |-> IF owned /\ OwnerWatch THEN "poll" ELSE "off", ownerIn |-> Poll,
   idleIn |-> Poll, idleFor |-> 0, ever |-> FALSE]

None == [b \in Bridges |-> 0]

Init ==
  /\ instance = 1 /\ record = TRUE
  /\ held = None /\ stray = None /\ sessions = {}
  /\ ownerAlive = TRUE
  /\ reaper = Armed(TRUE)
  /\ bridge = [b \in Bridges |-> [pc |-> "off", beatIn |-> 0, known |-> 0, seen |-> 0, call |-> 0]]
  /\ faults = 0
  /\ quiet = 0 /\ lasted = 0

-----------------------------------------------------------------------------
(* The server process.                                                     *)

Leased == \E b \in Bridges : held[b] > 0 \/ stray[b] > 0

Active == sessions # {} \/ Leased

\* The history: a presence is an unbroken time with a session or a lease.
Watched(after(_)) ==
  /\ quiet' = IF Active' \/ instance' = 0 THEN 0 ELSE after(quiet)
  /\ lasted' = IF instance' = 0 \/ (Active' /\ ~Active) THEN 0
               ELSE IF Active' THEN after(lasted) ELSE lasted

Same(n) == n

Observed == Watched(Same)

Remembers(b) == {bridge[b].known, bridge[b].seen, bridge[b].call}

\* An id nobody remembers stands for the nonce a new process draws.
Fresh == CHOOSE i \in Instances : \A b \in Bridges : i \notin Remembers(b)

Launched(owned) ==
  /\ instance = 0
  /\ instance' = Fresh
  /\ record' = TRUE
  /\ reaper' = Armed(owned)
  /\ UNCHANGED <<held, stray, sessions>>

\* Leases are in memory and sockets close; only a graceful end removes the record.
Ended(graceful) ==
  /\ instance # 0
  /\ instance' = 0
  /\ record' = (record /\ ~graceful)
  /\ held' = None /\ stray' = None /\ sessions' = {}
  /\ reaper' = Armed(FALSE)

Fault == faults < MaxFaults /\ faults' = faults + 1

EditorLaunches ==
  /\ Launched(TRUE)
  /\ ownerAlive' = TRUE
  /\ UNCHANGED <<bridge, faults>>
  /\ Observed

ServerCrashes == Fault /\ Ended(FALSE) /\ UNCHANGED <<ownerAlive, bridge>> /\ Observed

ServerIsStopped == Fault /\ Ended(TRUE) /\ UNCHANGED <<ownerAlive, bridge>> /\ Observed

OwnerDies ==
  /\ ownerAlive /\ ownerAlive' = FALSE
  /\ UNCHANGED <<instance, record, lease, sessions, reaper, bridge, faults>>
  /\ Observed

EditorConnects(e) ==
  /\ instance # 0 /\ e \notin sessions
  /\ sessions' = sessions \cup {e}
  /\ UNCHANGED <<instance, record, lease, ownerAlive, reaper, bridge, faults>>
  /\ Observed

EditorDrops(e) ==
  /\ e \in sessions
  /\ sessions' = sessions \ {e}
  /\ UNCHANGED <<instance, record, lease, ownerAlive, reaper, bridge, faults>>
  /\ Observed

-----------------------------------------------------------------------------
(* The reapers.                                                            *)

OwnerDue(phase) == instance # 0 /\ reaper.owner = phase /\ reaper.ownerIn = 0

OwnerNext(phase) ==
  /\ reaper' = [reaper EXCEPT !.owner = phase, !.ownerIn = Poll]
  /\ UNCHANGED <<instance, record, lease, sessions>>

Orphaned == ~ownerAlive /\ ~Active

\* watch_owner's first sample.
OwnerPolls ==
  /\ OwnerDue("poll")
  /\ OwnerNext(IF Orphaned THEN "grace" ELSE "poll")
  /\ UNCHANGED <<ownerAlive, bridge, faults>>
  /\ Observed

OwnerConfirms_Unchecked ==
  /\ OwnerDue("grace")
  /\ Ended(TRUE)
  /\ UNCHANGED <<ownerAlive, bridge, faults>>
  /\ Observed

\* Its second, a grace later: the server ends only if nobody came back.
OwnerConfirms ==
  /\ OwnerDue("grace")
  /\ IF Orphaned THEN Ended(TRUE) ELSE OwnerNext("poll")
  /\ UNCHANGED <<ownerAlive, bridge, faults>>
  /\ Observed

IdleDue == instance # 0 /\ reaper.idleIn = 0

IdleSees_Once ==
  /\ IdleDue /\ Active
  /\ reaper' = [reaper EXCEPT !.idleIn = Poll, !.ever = TRUE,
                              !.idleFor = IF reaper.ever THEN reaper.idleFor ELSE 0]
  /\ UNCHANGED <<instance, record, lease, sessions, ownerAlive, bridge, faults>>
  /\ Observed

\* watch_idle: a poll that sees someone restarts the window.
IdleSees ==
  /\ IdleDue /\ Active
  /\ reaper' = [reaper EXCEPT !.idleIn = Poll, !.ever = TRUE, !.idleFor = 0]
  /\ UNCHANGED <<instance, record, lease, sessions, ownerAlive, bridge, faults>>
  /\ Observed

Grace == IF reaper.ever THEN IdleGrace ELSE BootGrace

IdleWaits_Restarts ==
  /\ IdleDue /\ ~Active
  /\ reaper' = [reaper EXCEPT !.idleIn = Poll, !.idleFor = 0]
  /\ UNCHANGED <<instance, record, lease, sessions, ownerAlive, bridge, faults>>
  /\ Observed

IdleWaits ==
  /\ IdleDue /\ ~Active /\ reaper.idleFor < Grace
  /\ reaper' = [reaper EXCEPT !.idleIn = Poll]
  /\ UNCHANGED <<instance, record, lease, sessions, ownerAlive, bridge, faults>>
  /\ Observed

IdleExits ==
  /\ IdleDue /\ ~Active /\ reaper.idleFor >= Grace
  /\ Ended(TRUE)
  /\ UNCHANGED <<ownerAlive, bridge, faults>>
  /\ Observed

-----------------------------------------------------------------------------
(* The bridges: LeaseClient's two requests, and the tasks that make them.  *)

\* ensure() adopts the running server or spawns one that nobody owns.
Ensured(i) ==
  \/ instance # 0 /\ i = instance /\ UNCHANGED <<instance, record, lease, sessions, reaper>>
  \/ Launched(FALSE) /\ i = instance'

\* The bridge no longer knows its lease's id; the lease runs on without it.
Forgotten(b) ==
  /\ held' = [held EXCEPT ![b] = 0]
  /\ stray' = [stray EXCEPT ![b] = Longer(stray[b], held[b])]

\* The server may or may not have done what a lost request asked.
MaybeRenewed(b) == \E t \in {held[b], LeaseTTL} : held' = [held EXCEPT ![b] = t]

\* sync(status): nothing to do, or a registration with that instance.
Synced(b, i) ==
  \/ bridge[b].known = i /\ UNCHANGED lease
  \/ /\ bridge[b].known # i /\ instance = i
     /\ held' = [held EXCEPT ![b] = LeaseTTL]
     /\ stray' = [stray EXCEPT ![b] = Longer(stray[b], held[b])]

\* It raises when that instance is gone, or when the request is lost.
Unsynced(b, i) ==
  /\ bridge[b].known # i
  /\ \/ instance # i /\ UNCHANGED <<lease, faults>>
     \/ instance = i /\ Fault /\ UNCHANGED held
        /\ \E t \in {stray[b], LeaseTTL} : stray' = [stray EXCEPT ![b] = t]

AfterEnsure == [off |-> "start", retry |-> "restart", ensuring |-> "syncing"]

\* run_attach, start()'s second try and the loop's recovery find the backend.
Ensures(b) ==
  /\ bridge[b].pc \in DOMAIN AfterEnsure
  /\ \E i \in Instances :
       /\ Ensured(i)
       /\ bridge' = [bridge EXCEPT ![b].pc = AfterEnsure[bridge[b].pc], ![b].seen = i]
  /\ UNCHANGED <<ownerAlive, faults>>
  /\ Observed

\* A bridge that cannot start exits; the loop logs the failure and sleeps.
EnsureFails(b) ==
  /\ bridge[b].pc \in {"retry", "ensuring"}
  /\ Fault
  /\ bridge' = IF bridge[b].pc = "retry"
               THEN [bridge EXCEPT ![b].pc = "off"]
               ELSE [bridge EXCEPT ![b].pc = "asleep", ![b].beatIn = HeartbeatAfter]
  /\ UNCHANGED <<instance, record, lease, sessions, ownerAlive, reaper>>
  /\ Observed

Syncing(b) == bridge[b].pc \in {"start", "restart", "syncing"}

Syncs(b) ==
  /\ Syncing(b)
  /\ Synced(b, bridge[b].seen)
  /\ bridge' = [bridge EXCEPT ![b].pc = "asleep", ![b].beatIn = HeartbeatAfter,
                              ![b].known = bridge[b].seen, ![b].seen = 0]
  /\ UNCHANGED <<instance, record, sessions, ownerAlive, reaper, faults>>
  /\ Observed

\* start() tries once more, unless it could not even read the capability.
AfterFailure(b) ==
  CASE bridge[b].pc = "start" -> IF record THEN "retry" ELSE "off"
    [] bridge[b].pc = "restart" -> "off"
    [] bridge[b].pc = "syncing" -> "asleep"

SyncFails(b) ==
  /\ Syncing(b)
  /\ Unsynced(b, bridge[b].seen)
  /\ bridge' = [bridge EXCEPT ![b].pc = AfterFailure(b), ![b].seen = 0,
                              ![b].beatIn = IF bridge[b].pc = "syncing" THEN HeartbeatAfter ELSE 0]
  /\ UNCHANGED <<instance, record, sessions, ownerAlive, reaper>>
  /\ Observed

BeatDue(b) == bridge[b].pc = "asleep" /\ bridge[b].beatIn = 0

BeatRenews_Accumulates(b) ==
  /\ BeatDue(b)
  /\ bridge[b].known = instance /\ instance # 0 /\ held[b] > 0
  /\ held' = [held EXCEPT ![b] = @ + LeaseTTL]
  /\ bridge' = [bridge EXCEPT ![b].beatIn = HeartbeatAfter]
  /\ UNCHANGED <<instance, record, stray, sessions, ownerAlive, reaper, faults>>
  /\ Observed

BeatRenews_NotExtended(b) ==
  /\ BeatDue(b)
  /\ bridge[b].known = instance /\ instance # 0 /\ held[b] > 0
  /\ bridge' = [bridge EXCEPT ![b].beatIn = HeartbeatAfter]
  /\ UNCHANGED <<instance, record, lease, sessions, ownerAlive, reaper, faults>>
  /\ Observed

\* The heartbeat is answered with a renewal.
BeatRenews(b) ==
  /\ BeatDue(b)
  /\ bridge[b].known = instance /\ instance # 0 /\ held[b] > 0
  /\ held' = [held EXCEPT ![b] = LeaseTTL]
  /\ bridge' = [bridge EXCEPT ![b].beatIn = HeartbeatAfter]
  /\ UNCHANGED <<instance, record, stray, sessions, ownerAlive, reaper, faults>>
  /\ Observed

BeatRaises(b) == BeatDue(b) /\ bridge' = [bridge EXCEPT ![b].pc = "refused"]

\* No lease to renew; or another instance answers, or none, or the lease expired.
BeatRefused(b) ==
  /\ BeatRaises(b)
  /\ \/ bridge[b].known = 0
     \/ record /\ (bridge[b].known # instance \/ held[b] = 0)
  /\ UNCHANGED <<instance, record, lease, sessions, ownerAlive, reaper, faults>>
  /\ Observed

BeatLost(b) ==
  /\ BeatRaises(b)
  /\ bridge[b].known = instance /\ instance # 0 /\ held[b] > 0
  /\ Fault
  /\ MaybeRenewed(b)
  /\ UNCHANGED <<instance, record, stray, sessions, ownerAlive, reaper>>
  /\ Observed

Invalidated_Never(b) == bridge' = [bridge EXCEPT ![b].pc = "ensuring"]

Invalidated(b) == bridge' = [bridge EXCEPT ![b].pc = "ensuring", ![b].known = 0]

\* _invalidate takes the lock again, and forgets whichever lease is known then.
Invalidates(b) ==
  /\ bridge[b].pc = "refused"
  /\ Forgotten(b) /\ Invalidated(b)
  /\ UNCHANGED <<instance, record, sessions, ownerAlive, reaper, faults>>
  /\ Observed

\* The record is missing: AttachStartupError is none of the exceptions the
\* loop recovers from, and the heartbeat task ends.
BeatUnreadable(b) ==
  /\ BeatDue(b)
  /\ bridge[b].known # 0 /\ ~record
  /\ bridge' = [bridge EXCEPT ![b].pc = "dead"]
  /\ UNCHANGED <<instance, record, lease, sessions, ownerAlive, reaper, faults>>
  /\ Observed

\* A tool call that lost its backend recovers it, then syncs (ensure_ready).
CallEnsures(b) ==
  /\ bridge[b].pc \in Started /\ bridge[b].call = 0
  /\ \E i \in Instances : Ensured(i) /\ bridge' = [bridge EXCEPT ![b].call = i]
  /\ UNCHANGED <<ownerAlive, faults>>
  /\ Observed

CallSyncs(b) ==
  /\ bridge[b].call # 0
  /\ \/ /\ Synced(b, bridge[b].call)
        /\ bridge' = [bridge EXCEPT ![b].known = bridge[b].call, ![b].call = 0]
        /\ UNCHANGED faults
     \/ /\ Unsynced(b, bridge[b].call)
        /\ bridge' = [bridge EXCEPT ![b].call = 0]
  /\ UNCHANGED <<instance, record, sessions, ownerAlive, reaper>>
  /\ Observed

Gone(b) == bridge' = [bridge EXCEPT ![b] =
  [pc |-> "off", beatIn |-> 0, known |-> 0, seen |-> 0, call |-> 0]]

\* close() releases what it can reach; a dead task's exception stops it first.
BridgeCloses(b) ==
  /\ bridge[b].pc \in Started
  /\ IF bridge[b].pc # "dead" /\ bridge[b].known = instance
     THEN held' = [held EXCEPT ![b] = 0] /\ UNCHANGED stray
     ELSE Forgotten(b)
  /\ Gone(b)
  /\ UNCHANGED <<instance, record, sessions, ownerAlive, reaper, faults>>
  /\ Observed

BridgeDies(b) ==
  /\ bridge[b].pc # "off"
  /\ Forgotten(b)
  /\ Gone(b)
  /\ UNCHANGED <<instance, record, sessions, ownerAlive, reaper, faults>>
  /\ Observed

-----------------------------------------------------------------------------
(* Time.                                                                   *)

\* A bridge that time may pass for: it waits for its timer, or for a server.
Waiting(b) ==
  /\ \/ bridge[b].pc \in {"off", "dead"}
     \/ bridge[b].pc = "asleep" /\ bridge[b].beatIn > 0
     \/ bridge[b].pc \in {"retry", "ensuring"} /\ instance = 0
  /\ bridge[b].call = 0

\* Leases run down and timers come closer; a timer that is due goes first.
Tick ==
  /\ instance # 0 => reaper.idleIn > 0 /\ (reaper.owner # "off" => reaper.ownerIn > 0)
  /\ \A b \in Bridges : Waiting(b)
  /\ held' = [b \in Bridges |-> Less(held[b])]
  /\ stray' = [b \in Bridges |-> Less(stray[b])]
  /\ reaper' = IF instance = 0 THEN reaper
               ELSE [reaper EXCEPT !.idleIn = Less(@), !.idleFor = More(@),
                                   !.ownerIn = IF reaper.owner = "off" THEN @ ELSE Less(@)]
  /\ bridge' = [b \in Bridges |-> [bridge[b] EXCEPT !.beatIn = Less(@)]]
  /\ UNCHANGED <<instance, record, sessions, ownerAlive, faults>>
  /\ Watched(More)

ServerStep ==
  \/ EditorLaunches \/ ServerCrashes \/ ServerIsStopped \/ OwnerDies
  \/ OwnerPolls \/ OwnerConfirms \/ IdleSees \/ IdleWaits \/ IdleExits
  \/ \E e \in Editors : EditorConnects(e) \/ EditorDrops(e)

BridgeStep(b) ==
  \/ Ensures(b) \/ EnsureFails(b) \/ Syncs(b) \/ SyncFails(b)
  \/ BeatRenews(b) \/ BeatRefused(b) \/ BeatLost(b) \/ BeatUnreadable(b) \/ Invalidates(b)
  \/ CallEnsures(b) \/ CallSyncs(b) \/ BridgeCloses(b) \/ BridgeDies(b)

Next == Tick \/ ServerStep \/ \E b \in Bridges : BridgeStep(b)

Spec == Init /\ [][Next]_vars

\* Time goes on, the event loops run their due timers, and a bridge that has
\* something to do does it.
Fairness ==
  /\ WF_vars(Tick)
  /\ WF_vars(OwnerPolls \/ OwnerConfirms)
  /\ WF_vars(IdleSees \/ IdleWaits \/ IdleExits)
  /\ \A b \in Bridges :
       /\ WF_vars(bridge[b].pc # "off" /\ (Ensures(b) \/ Syncs(b) \/ SyncFails(b)))
       /\ WF_vars(BeatRenews(b) \/ BeatRefused(b) \/ BeatUnreadable(b) \/ Invalidates(b))
       /\ WF_vars(CallSyncs(b))

FairSpec == Spec /\ Fairness

-----------------------------------------------------------------------------
(* Properties.                                                             *)

\* While its heartbeat task runs, a bridge that believes it holds a lease on
\* the running server holds one there that has not expired.
BeatenLeaseLives ==
  \A b \in Bridges :
    bridge[b].pc # "dead" /\ bridge[b].known = instance /\ instance # 0 => held[b] > 0

\* A reaper never ends the server under an editor, or under a bridge whose
\* heartbeats run and that believes it holds a lease on it.  After a presence
\* that lasted longer than a poll the idle reaper leaves the grace window to
\* the next one, short of a poll: a plugin reload fits in it.
Spared == /\ sessions = {}
          /\ \A b \in Bridges : bridge[b].pc = "dead" \/ bridge[b].known # instance

ReaperSparesUsers ==
  [][/\ OwnerConfirms \/ IdleExits => instance' # 0 \/ Spared
     /\ IdleExits /\ lasted > Poll => quiet >= IdleGrace - Poll]_vars

Unused == sessions = {} /\ \A b \in Bridges : bridge[b].pc = "off"

\* A server nobody uses ends, whether or not its owner died and whatever
\* leases were left behind.
UnusedServerEnds == <>[]Unused => []<>(instance = 0)

Holds(b) == instance # 0 /\ bridge[b].known = instance /\ held[b] > 0

\* A bridge whose heartbeat task runs comes to hold a lease for good once
\* crashes and lost requests stop, whatever server is there by then.
LeaseRecovers == \A b \in Bridges :
  <>[](bridge[b].pc \in Started \ {"dead"}) => <>[]Holds(b)

\* lease.py:288: the loop's recovery is to "keep the lease task alive for
\* later recovery", so every running bridge comes to hold a lease.
EveryBridgeRecovers == \A b \in Bridges :
  <>[](bridge[b].pc \in Started) => <>[]Holds(b)

=============================================================================
