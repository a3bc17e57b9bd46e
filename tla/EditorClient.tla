----------------------------- MODULE EditorClient -----------------------------
(***************************************************************************)
(* GodotClient.send (godot_client/client.py) and the circuit breaker that  *)
(* guards it (circuit_breaker.py): callers that retry at once, several at  *)
(* a time, against editors that hang, leave and come back.                 *)
(*                                                                         *)
(* The code between two awaits is one action: the start of a call up to    *)
(* its await of the reply, and its end.  Times are in units of             *)
(* initial_open_ms; a window is kept as the time left of it, negative once *)
(* it has elapsed.                                                         *)
(***************************************************************************)
EXTENDS Integers, FiniteSets

CONSTANTS
  Sessions,   \* session ids a caller may name, of live editors or not
  NoSession,  \* _NO_SESSION_KEY: the call names none and none is active
  Callers,    \* tasks that send commands, one at a time each
  Threshold,  \* failures in a row that open a circuit
  MaxOpen,    \* max_open_ms
  MaxStates   \* _MAX_STATES

ASSUME ClientAssumption ==
  /\ NoSession \notin Sessions
  /\ IsFiniteSet(Sessions)
  /\ Threshold \in Nat \ {0}
  /\ MaxOpen \in Nat \ {0}
  /\ MaxStates \in Nat \ {0, 1}

VARIABLES
  editor,   \* "gone", "hung" (connected, answers nothing) or "well"
  fails,    \* consecutive_failures, counted up to Threshold; 0: no entry
  window,   \* open_until_monotonic - now
  next,     \* next_open_ms
  pc,       \* "idle", "waiting" for a reply, or "orphaned" by a disconnect
  on,       \* the session a call was sent to
  streak    \* history: failures since the last success that clears a key

breakerVars == <<fails, window, next>>
callVars == <<pc, on>>
vars == <<editor, breakerVars, callVars, streak>>

Keys  == Sessions \cup {NoSession}

\* Never opened, or elapsed for longer than max_open_ms: stale.
Stale == -MaxOpen - 1

Tracked == {k \in Keys : fails[k] > 0}
Open(k) == window[k] > 0

\* Counters stay in range.
TypeOK ==
  /\ editor \in [Sessions -> {"gone", "hung", "well"}]
  /\ fails \in [Keys -> 0..Threshold]
  /\ window \in [Keys -> Stale..MaxOpen]
  /\ next \in [Keys -> 1..MaxOpen]
  /\ pc \in [Callers -> {"idle", "waiting", "orphaned"}]
  /\ on \in [Callers -> Keys]
  /\ streak \in [Keys -> 0..Threshold]

Init ==
  /\ editor = [s \in Sessions |-> "gone"]
  /\ fails = [k \in Keys |-> 0]
  /\ window = [k \in Keys |-> Stale]
  /\ next = [k \in Keys |-> 1]
  /\ pc = [c \in Callers |-> "idle"]
  /\ on = [c \in Callers |-> NoSession]
  /\ streak = [k \in Keys |-> 0]

Lesser(m, n) == IF m < n THEN m ELSE n

-----------------------------------------------------------------------------
(* The breaker.                                                            *)

\* (mutant, #690) bad ids are never dropped.
Evicted_Never(k) == {{}}

\* The entries that go when a new key finds the map full: the stale ones, and
\* when they leave it full still, half of it, the oldest windows first.  The
\* no-session key is never among them.
Evicted(k) ==
  LET evictable == Tracked \ {k, NoSession}
      stale == {j \in evictable : window[j] = Stale}
      older(set) == \A i \in set, j \in evictable \ (set \cup stale) : window[i] <= window[j]
      half == Lesser(MaxStates \div 2, Cardinality(evictable))
  IN  IF k \in Tracked \/ Cardinality(Tracked) < MaxStates THEN {{}}
      ELSE IF stale # {} THEN {stale}
      ELSE {set \in SUBSET evictable : Cardinality(set) = half /\ older(set)}

\* record_failure.  The window starts anew, twice as long the next time, for
\* every failure from the threshold on, also while it is open.
RecordFailure(k) ==
  \E gone \in Evicted(k) :
    LET n     == Lesser(fails[k] + 1, Threshold)
        opens == n = Threshold
    IN  /\ fails' = [j \in Keys |-> IF j = k THEN n ELSE IF j \in gone THEN 0 ELSE fails[j]]
        /\ window' = [j \in Keys |-> IF j = k /\ opens THEN next[k]
                                     ELSE IF j \in gone THEN Stale ELSE window[j]]
        /\ next' = [j \in Keys |-> IF j = k /\ opens THEN Lesser(2 * next[k], MaxOpen)
                                   ELSE IF j \in gone THEN 1 ELSE next[j]]
        /\ streak' = [streak EXCEPT ![k] = Lesser(@ + 1, Threshold)]

\* (mutant) the no-session key is left as it was.
RecordSuccess_OwnKeyOnly(s) ==
  /\ fails' = [fails EXCEPT ![s] = 0]
  /\ window' = [window EXCEPT ![s] = Stale]
  /\ next' = [next EXCEPT ![s] = 1]
  /\ streak' = [streak EXCEPT ![s] = 0, ![NoSession] = 0]

\* record_success: one reply clears its session and the no-session key.
RecordSuccess(s) ==
  /\ fails' = [fails EXCEPT ![s] = 0, ![NoSession] = 0]
  /\ window' = [window EXCEPT ![s] = Stale, ![NoSession] = Stale]
  /\ next' = [next EXCEPT ![s] = 1, ![NoSession] = 1]
  /\ streak' = [streak EXCEPT ![s] = 0, ![NoSession] = 0]

-----------------------------------------------------------------------------
(* The editors and the clock.                                              *)

\* A disconnect fails the calls in flight; the breaker's state stays.
EditorChanges(s, state) ==
  /\ editor[s] # state
  /\ editor' = [editor EXCEPT ![s] = state]
  /\ pc' = [c \in Callers |->
             IF pc[c] = "waiting" /\ on[c] = s /\ state = "gone" THEN "orphaned" ELSE pc[c]]
  /\ UNCHANGED <<breakerVars, on, streak>>

Tick ==
  /\ \E k \in Keys : window[k] > Stale
  /\ window' = [k \in Keys |-> IF window[k] > Stale THEN window[k] - 1 ELSE Stale]
  /\ UNCHANGED <<editor, fails, next, callVars, streak>>

-----------------------------------------------------------------------------
(* Calls.                                                                  *)

\* No session named and none active.
CallNobody(c) ==
  /\ pc[c] = "idle"
  /\ ~Open(NoSession)
  /\ RecordFailure(NoSession)
  /\ UNCHANGED <<editor, callVars>>

\* A named or active session that the registry does not list.
CallMissing(c, s) ==
  /\ pc[c] = "idle"
  /\ ~Open(s)
  /\ editor[s] = "gone"
  /\ RecordFailure(s)
  /\ UNCHANGED <<editor, callVars>>

\* The command goes out.
Call(c, s) ==
  /\ pc[c] = "idle"
  /\ ~Open(s)
  /\ editor[s] # "gone"
  /\ pc' = [pc EXCEPT ![c] = "waiting"]
  /\ on' = [on EXCEPT ![c] = s]
  /\ UNCHANGED <<editor, breakerVars, streak>>

\* (mutant) a refusal counts as one more failure.
Refuse_Counts(c, k) ==
  /\ pc[c] = "idle"
  /\ Open(k)
  /\ RecordFailure(k)
  /\ UNCHANGED <<editor, callVars>>

\* The circuit is open: PLUGIN_DISCONNECTED with retry_after_ms, and nothing
\* is recorded.
Refuse(c, k) ==
  /\ pc[c] = "idle"
  /\ Open(k)
  /\ UNCHANGED vars

Returns(c) ==
  /\ pc' = [pc EXCEPT ![c] = "idle"]
  /\ on' = [on EXCEPT ![c] = NoSession]

\* A reply, even one that says no, proves that the bridge works.
Answered(c) ==
  /\ pc[c] = "waiting" /\ editor[on[c]] = "well"
  /\ RecordSuccess(on[c])
  /\ Returns(c)
  /\ UNCHANGED editor

\* The deadline, a lost connection or an unusable reply.
Failed(c) ==
  /\ pc[c] = "orphaned" \/ (pc[c] = "waiting" /\ editor[on[c]] = "hung")
  /\ RecordFailure(on[c])
  /\ Returns(c)
  /\ UNCHANGED editor

Next ==
  \/ \E s \in Sessions, state \in {"gone", "hung", "well"} : EditorChanges(s, state)
  \/ Tick
  \/ \E c \in Callers : CallNobody(c) \/ Answered(c) \/ Failed(c)
  \/ \E c \in Callers, s \in Sessions : CallMissing(c, s) \/ Call(c, s)
  \/ \E c \in Callers, k \in Keys : Refuse(c, k)

Spec == Init /\ [][Next]_vars

\* Time passes, a call ends by a reply or its deadline, and for each session
\* some client keeps retrying: the clients this module is there for do.
Fairness ==
  /\ WF_vars(Tick)
  /\ \A c \in Callers : WF_vars(Answered(c) \/ Failed(c))
  /\ \A s \in Sessions : SF_vars(\E c \in Callers : Call(c, s))

FairSpec == Spec /\ Fairness

-----------------------------------------------------------------------------
(* Properties.                                                             *)

\* The map of circuits stays within its bound, however many ids the callers
\* invent and whichever circuits are open (#690).
CircuitsBounded == Cardinality(Tracked) <= MaxStates

\* A circuit opens only on Threshold failures of its own key with no success
\* between them: other sessions' failures, failures without a session and the
\* eviction of entries never open it.
OpensOnStreak ==
  [][\A k \in Keys : ~Open(k) /\ Open(k)' => streak'[k] = Threshold]_vars

\* A circuit is a delay and no sentence: once an editor is well for good, the
\* clients that retry reach it, however many of them were refused meanwhile.
WellEditorsAreReached ==
  \A s \in Sessions : <>[](editor[s] = "well") => []<>(fails[s] = 0)
=============================================================================
