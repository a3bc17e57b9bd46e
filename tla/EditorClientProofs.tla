-------------------------- MODULE EditorClientProofs --------------------------
(***************************************************************************)
(* For any sessions, callers and limits: the breaker's state is well       *)
(* typed, its map of circuits stays bounded, and a circuit opens only on a *)
(* streak of failures of its own key.  The invariant says that the counter *)
(* never runs ahead of the streak: it is reset, or dropped with its entry, *)
(* at least whenever the streak is.                                        *)
(***************************************************************************)
EXTENDS EditorClient, FiniteSetTheorems, TLAPS

Counted == \A k \in Keys : fails[k] <= streak[k]

IInv == TypeOK /\ Counted

Opening == \A k \in Keys : ~Open(k) /\ Open(k)' => streak'[k] = Threshold

USE ClientAssumption

-----------------------------------------------------------------------------
\* A failure moves its own key up, and can only lower another.
LEMMA FailureKeeps ==
  ASSUME IInv, NEW k \in Keys, RecordFailure(k), UNCHANGED editor,
         pc' \in [Callers -> {"idle", "waiting", "orphaned"}], on' \in [Callers -> Keys]
  PROVE  IInv' /\ Opening
  <1>1. PICK gone \in Evicted(k) :
          LET n     == Lesser(fails[k] + 1, Threshold)
              opens == n = Threshold
          IN  /\ fails' = [j \in Keys |-> IF j = k THEN n ELSE IF j \in gone THEN 0 ELSE fails[j]]
              /\ window' = [j \in Keys |-> IF j = k /\ opens THEN next[k]
                                           ELSE IF j \in gone THEN Stale ELSE window[j]]
              /\ next' = [j \in Keys |-> IF j = k /\ opens THEN Lesser(2 * next[k], MaxOpen)
                                         ELSE IF j \in gone THEN 1 ELSE next[j]]
              /\ streak' = [streak EXCEPT ![k] = Lesser(@ + 1, Threshold)]
    BY DEF RecordFailure
  <1>2. \A j \in Keys : /\ fails[j] \in 0..Threshold /\ window[j] \in Stale..MaxOpen
                        /\ next[j] \in 1..MaxOpen /\ streak[j] \in 0..Threshold
                        /\ fails[j] <= streak[j]
    BY DEF IInv, TypeOK, Counted
  <1>3. Lesser(fails[k] + 1, Threshold) \in 0..Threshold
    BY <1>2 DEF Lesser
  <1>4. Lesser(streak[k] + 1, Threshold) \in 0..Threshold
    BY <1>2 DEF Lesser
  <1>5. Lesser(2 * next[k], MaxOpen) \in 1..MaxOpen
    BY <1>2 DEF Lesser
  <1>6. Stale \in Stale..MaxOpen /\ 0 \in 0..Threshold /\ 1 \in 1..MaxOpen
    BY DEF Stale
  <1>7. next[k] \in Stale..MaxOpen
    BY <1>2 DEF Stale
  <1>8. fails' \in [Keys -> 0..Threshold]
    BY <1>1, <1>2, <1>3, <1>6
  <1>9. window' \in [Keys -> Stale..MaxOpen]
    BY <1>1, <1>2, <1>6, <1>7
  <1>10. next' \in [Keys -> 1..MaxOpen]
    BY <1>1, <1>2, <1>5, <1>6
  <1>11. streak' \in [Keys -> 0..Threshold]
    BY <1>1, <1>4 DEF IInv, TypeOK
  <1>12. streak'[k] = Lesser(streak[k] + 1, Threshold)
    BY <1>1 DEF IInv, TypeOK
  <1>13. ASSUME NEW j \in Keys PROVE fails'[j] <= streak'[j]
    <2>1. CASE j = k
      BY <2>1, <1>1, <1>2, <1>12 DEF Lesser
    <2>2. CASE j # k
      <3>1. streak'[j] = streak[j]
        BY <2>2, <1>1 DEF IInv, TypeOK
      <3>2. QED
        BY <3>1, <2>2, <1>1, <1>2
    <2>3. QED
      BY <2>1, <2>2
  <1>14. ASSUME NEW j \in Keys, ~Open(j), Open(j)' PROVE streak'[j] = Threshold
    <2>1. window[j] <= 0 /\ window'[j] > 0
      BY <1>2, <1>14 DEF Open
    <2>2. j = k /\ Lesser(fails[k] + 1, Threshold) = Threshold
      BY <2>1, <1>1, <1>2 DEF Stale
    <2>3. QED
      BY <2>2, <1>2, <1>12 DEF Lesser
  <1>15. TypeOK'
    BY <1>8, <1>9, <1>10, <1>11 DEF IInv, TypeOK
  <1>16. QED
    BY <1>13, <1>14, <1>15 DEF IInv, Counted, Opening

\* A success clears the counters and the streaks of the same two keys.
LEMMA SuccessKeeps ==
  ASSUME IInv, NEW s \in Keys, RecordSuccess(s), UNCHANGED editor,
         pc' \in [Callers -> {"idle", "waiting", "orphaned"}], on' \in [Callers -> Keys]
  PROVE  IInv' /\ Opening
  <1>1. NoSession \in Keys /\ 0 \in 0..Threshold /\ 1 \in 1..MaxOpen /\ Stale \in Stale..MaxOpen
    BY DEF Keys, Stale
  <1>2. TypeOK'
    BY <1>1 DEF IInv, TypeOK, RecordSuccess
  <1>3. Counted'
    BY <1>1 DEF IInv, TypeOK, Counted, RecordSuccess
  <1>4. \A j \in Keys : window'[j] = window[j] \/ window'[j] = Stale
    BY <1>1 DEF IInv, TypeOK, RecordSuccess
  <1>5. Opening
    BY <1>4 DEF Opening, Open, Stale, IInv, TypeOK
  <1>6. QED
    BY <1>2, <1>3, <1>5 DEF IInv

-----------------------------------------------------------------------------
LEMMA InitHolds == Init => IInv
  <1>1. NoSession \in Keys /\ Stale \in Stale..MaxOpen
    BY DEF Keys, Stale
  <1>2. QED
    BY <1>1 DEF Init, IInv, TypeOK, Counted

\* One step: the invariant is kept, and what opens, opens on a streak.
LEMMA StepHolds ==
  ASSUME IInv, [Next]_vars
  PROVE  IInv' /\ (Opening \/ UNCHANGED vars)
  <1>1. ASSUME NEW s \in Sessions, NEW state \in {"gone", "hung", "well"}, EditorChanges(s, state)
        PROVE  IInv' /\ Opening
    BY <1>1 DEF EditorChanges, IInv, TypeOK, Counted, Opening, Open, Tracked, breakerVars
  <1>2. CASE Tick
    <2>1. window' \in [Keys -> Stale..MaxOpen]
      BY <1>2 DEF Tick, IInv, TypeOK, Stale
    <2>2. IInv'
      BY <2>1, <1>2 DEF Tick, IInv, TypeOK, Counted, callVars
    <2>3. Opening
      BY <1>2 DEF Tick, IInv, TypeOK, Opening, Open, Stale
    <2>4. QED
      BY <2>2, <2>3
  <1>3. ASSUME NEW c \in Callers, CallNobody(c) PROVE IInv' /\ Opening
    BY <1>3, FailureKeeps DEF CallNobody, Keys, callVars, IInv, TypeOK
  <1>4. ASSUME NEW c \in Callers, NEW s \in Sessions, CallMissing(c, s) PROVE IInv' /\ Opening
    BY <1>4, FailureKeeps DEF CallMissing, Keys, callVars, IInv, TypeOK
  <1>5. ASSUME NEW c \in Callers, NEW s \in Sessions, Call(c, s) PROVE IInv' /\ Opening
    BY <1>5 DEF Call, IInv, TypeOK, Counted, Opening, Open, Keys, breakerVars
  <1>6. ASSUME NEW c \in Callers, NEW k \in Keys, Refuse(c, k) PROVE IInv' /\ UNCHANGED vars
    BY <1>6 DEF Refuse, IInv, TypeOK, Counted, vars, breakerVars, callVars
  <1>7. ASSUME NEW c \in Callers, Answered(c) PROVE IInv' /\ Opening
    <2>1. on[c] \in Keys
      BY DEF IInv, TypeOK
    <2>2. /\ pc' \in [Callers -> {"idle", "waiting", "orphaned"}]
          /\ on' \in [Callers -> Keys]
      BY <1>7 DEF Answered, Returns, IInv, TypeOK, Keys
    <2>3. QED
      BY <1>7, <2>1, <2>2, SuccessKeeps DEF Answered
  <1>8. ASSUME NEW c \in Callers, Failed(c) PROVE IInv' /\ Opening
    <2>1. on[c] \in Keys
      BY DEF IInv, TypeOK
    <2>2. /\ pc' \in [Callers -> {"idle", "waiting", "orphaned"}]
          /\ on' \in [Callers -> Keys]
      BY <1>8 DEF Failed, Returns, IInv, TypeOK, Keys
    <2>3. QED
      BY <1>8, <2>1, <2>2, FailureKeeps DEF Failed
  <1>9. CASE UNCHANGED vars
    BY <1>9 DEF IInv, TypeOK, Counted, vars, breakerVars, callVars
  <1>10. QED
    BY <1>1, <1>2, <1>3, <1>4, <1>5, <1>6, <1>7, <1>8, <1>9 DEF Next

-----------------------------------------------------------------------------
(* The bound of the map: a key that finds it full drives another one out.  *)

LEMMA TrackedFinite == IsFiniteSet(Tracked)
  <1>1. IsFiniteSet(Sessions \cup {NoSession})
    BY FS_AddElement
  <1>2. QED
    BY <1>1, FS_Subset DEF Tracked, Keys

\* What is evicted for a new key of a full map is tracked and is something.
LEMMA EvictsSomething ==
  ASSUME NEW k \in Keys, k \notin Tracked, Cardinality(Tracked) = MaxStates,
         NEW gone \in Evicted(k)
  PROVE  gone \subseteq Tracked /\ gone # {}
  <1> DEFINE evictable == Tracked \ {k, NoSession}
             stale     == {j \in evictable : window[j] = Stale}
             older(set) == \A i \in set, j \in evictable \ (set \cup stale) : window[i] <= window[j]
             half      == Lesser(MaxStates \div 2, Cardinality(evictable))
  <1>1. gone \in (IF stale # {} THEN {stale}
                 ELSE {set \in SUBSET evictable : Cardinality(set) = half /\ older(set)})
    BY DEF Evicted
  <1>2. CASE stale # {}
    BY <1>1, <1>2
  <1>3. CASE stale = {}
    <2>1. gone \in SUBSET evictable /\ Cardinality(gone) = half
      BY <1>1, <1>3
    <2>2. evictable = Tracked \ {NoSession}
      OBVIOUS
    <2>3. Cardinality(evictable) \in Nat /\ Cardinality(evictable) >= 1
      <3>1. /\ IsFiniteSet(Tracked \ {NoSession})
            /\ Cardinality(Tracked \ {NoSession}) =
                 IF NoSession \in Tracked THEN MaxStates - 1 ELSE MaxStates
        BY TrackedFinite, FS_RemoveElement
      <3>2. Cardinality(Tracked \ {NoSession}) \in Nat /\ Cardinality(Tracked \ {NoSession}) >= 1
        BY <3>1, FS_CardinalityType
      <3> HIDE DEF evictable
      <3>3. QED
        BY <2>2, <3>2
    <2>4. half >= 1
      BY <2>3 DEF Lesser
    <2>5. gone # {}
      BY <2>1, <2>4, FS_EmptySet
    <2>6. QED
      BY <2>1, <2>5
  <1>4. QED
    BY <1>2, <1>3

LEMMA FailureBounded ==
  ASSUME IInv, CircuitsBounded, NEW k \in Keys, RecordFailure(k)
  PROVE  CircuitsBounded'
  <1>1. PICK gone \in Evicted(k) :
          fails' = [j \in Keys |-> IF j = k THEN Lesser(fails[k] + 1, Threshold)
                                  ELSE IF j \in gone THEN 0 ELSE fails[j]]
    BY DEF RecordFailure
  <1>2. Tracked' \subseteq (Tracked \ gone) \cup {k}
    BY <1>1 DEF Tracked
  <1>3. IsFiniteSet(Tracked) /\ Cardinality(Tracked) \in Nat /\ Cardinality(Tracked) <= MaxStates
    BY TrackedFinite, FS_CardinalityType DEF CircuitsBounded
  <1>4. CASE k \in Tracked
    <2>1. Tracked' \subseteq Tracked
      BY <1>2, <1>4
    <2>2. QED
      BY <2>1, <1>3, FS_Subset, FS_CardinalityType DEF CircuitsBounded
  <1>5. CASE k \notin Tracked /\ Cardinality(Tracked) < MaxStates
    <2>1. Tracked' \subseteq Tracked \cup {k}
      BY <1>2
    <2>2. IsFiniteSet(Tracked \cup {k}) /\ Cardinality(Tracked \cup {k}) = Cardinality(Tracked) + 1
      BY <1>3, <1>5, FS_AddElement
    <2>3. Cardinality(Tracked') <= Cardinality(Tracked \cup {k}) /\ IsFiniteSet(Tracked')
      BY <2>1, <2>2, FS_Subset
    <2>4. QED
      BY <2>2, <2>3, <1>3, <1>5, FS_CardinalityType DEF CircuitsBounded
  <1>6. CASE k \notin Tracked /\ Cardinality(Tracked) = MaxStates
    <2>1. PICK x \in gone : x \in Tracked
      BY <1>6, EvictsSomething
    <2>2. IsFiniteSet(Tracked \ {x}) /\ Cardinality(Tracked \ {x}) = MaxStates - 1
      BY <2>1, <1>3, <1>6, FS_RemoveElement
    <2>3. /\ IsFiniteSet((Tracked \ {x}) \cup {k})
          /\ Cardinality((Tracked \ {x}) \cup {k}) = MaxStates
      <3> DEFINE rest == Tracked \ {x}
      <3>1. k \notin rest
        BY <1>6
      <3>2. IsFiniteSet(rest) /\ Cardinality(rest) = MaxStates - 1
        BY <2>2
      <3> HIDE DEF rest
      <3>3. IsFiniteSet(rest \cup {k}) /\ Cardinality(rest \cup {k}) = Cardinality(rest) + 1
        BY <3>1, <3>2, FS_AddElement
      <3>4. Cardinality(rest \cup {k}) = MaxStates
        BY <3>2, <3>3
      <3>5. QED
        BY <3>3, <3>4 DEF rest
    <2>4. Tracked' \subseteq (Tracked \ {x}) \cup {k}
      BY <1>2, <2>1
    <2>5. Cardinality(Tracked') <= Cardinality((Tracked \ {x}) \cup {k}) /\ IsFiniteSet(Tracked')
      BY <2>3, <2>4, FS_Subset
    <2>6. QED
      BY <2>3, <2>5, FS_CardinalityType DEF CircuitsBounded
  <1>7. QED
    BY <1>3, <1>4, <1>5, <1>6

\* Every other step leaves the map as it is or takes keys out of it.
LEMMA StepBounded ==
  ASSUME IInv, CircuitsBounded, [Next]_vars
  PROVE  CircuitsBounded'
  <1>1. ASSUME NEW k \in Keys, RecordFailure(k) PROVE CircuitsBounded'
    BY <1>1, FailureBounded
  <1>2. ASSUME Tracked' \subseteq Tracked PROVE CircuitsBounded'
    BY <1>2, TrackedFinite, FS_Subset, FS_CardinalityType DEF CircuitsBounded
  <1>3. ASSUME UNCHANGED fails PROVE CircuitsBounded'
    BY <1>3, <1>2 DEF Tracked
  <1>4. ASSUME NEW c \in Callers, NEW s \in Sessions, CallMissing(c, s) PROVE CircuitsBounded'
    BY <1>4, <1>1 DEF CallMissing, Keys
  <1>5. ASSUME NEW c \in Callers, CallNobody(c) PROVE CircuitsBounded'
    BY <1>5, <1>1 DEF CallNobody, Keys
  <1>6. ASSUME NEW c \in Callers, Failed(c) PROVE CircuitsBounded'
    <2>1. on[c] \in Keys
      BY DEF IInv, TypeOK
    <2>2. QED
      BY <1>6, <2>1, <1>1 DEF Failed
  <1>7. ASSUME NEW c \in Callers, Answered(c) PROVE CircuitsBounded'
    <2>1. \A j \in Keys : fails'[j] > 0 => fails[j] > 0
      BY <1>7 DEF Answered, RecordSuccess, IInv, TypeOK, Keys
    <2>2. QED
      BY <2>1, <1>2 DEF Tracked
  <1>8. ASSUME NEW c \in Callers, NEW s \in Sessions, Call(c, s) PROVE CircuitsBounded'
    BY <1>8, <1>3 DEF Call, breakerVars
  <1>9. ASSUME NEW c \in Callers, NEW k \in Keys, Refuse(c, k) PROVE CircuitsBounded'
    BY <1>9, <1>3 DEF Refuse, vars, breakerVars
  <1>10. ASSUME NEW s \in Sessions, NEW state \in {"gone", "hung", "well"}, EditorChanges(s, state)
         PROVE  CircuitsBounded'
    BY <1>10, <1>3 DEF EditorChanges, breakerVars
  <1>11. CASE Tick
    BY <1>11, <1>3 DEF Tick
  <1>12. CASE UNCHANGED vars
    BY <1>12, <1>3 DEF vars, breakerVars
  <1>13. QED
    BY <1>4, <1>5, <1>6, <1>7, <1>8, <1>9, <1>10, <1>11, <1>12 DEF Next

-----------------------------------------------------------------------------
\* The breaker's counters stay in range and its counter behind the streak.
THEOREM Invariance == Spec => []IInv
  <1>1. IInv /\ [Next]_vars => IInv'
    BY StepHolds
  <1>2. QED
    BY InitHolds, <1>1, PTL DEF Spec

\* Types.
THEOREM TypeCorrect == Spec => []TypeOK
  <1>1. IInv => TypeOK
    BY DEF IInv
  <1>2. QED
    BY <1>1, Invariance, PTL

\* The map never outgrows _MAX_STATES, for any number of invented ids.
THEOREM MapBounded == Spec => []CircuitsBounded
  <1>1. Init => CircuitsBounded
    <2>1. ASSUME Init PROVE Tracked = {}
      BY <2>1 DEF Init, Tracked
    <2>2. QED
      BY <2>1, FS_EmptySet DEF CircuitsBounded
  <1>2. IInv /\ CircuitsBounded /\ [Next]_vars => CircuitsBounded'
    BY StepBounded
  <1>3. QED
    BY <1>1, <1>2, Invariance, PTL DEF Spec

\* record_failure opens a circuit on Threshold failures of its own key in a
\* row, whatever the other keys, evictions and successes in between.
THEOREM StreakOpens == Spec => OpensOnStreak
  <1>1. IInv /\ [Next]_vars => [Opening]_vars
    BY StepHolds
  <1>2. QED
    BY <1>1, Invariance, PTL DEF Spec, OpensOnStreak, Opening

=============================================================================
