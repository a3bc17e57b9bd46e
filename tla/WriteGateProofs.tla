---------------------------- MODULE WriteGateProofs ----------------------------
(***************************************************************************)
(* For any sessions, calls, frames in flight and rounds of the hold: the   *)
(* types of the write gate, and that it refuses and sends only with        *)
(* reason.                                                                 *)
(***************************************************************************)
EXTENDS WriteGate, FiniteSetTheorems, SequenceTheorems, TLAPS

USE GateAssumption

-----------------------------------------------------------------------------
(* Kinds, frames and sequences.                                            *)

\* A call past the gate is of a kind again, whether it copies or not.
LEMMA OpenKinds ==
  /\ \A k \in Kinds : PastGate(k) \in Kinds
  /\ SomeKind \in Kinds
<1>1. /\ [op |-> "editor_state", gate |-> "open", reply |-> "snapshot"] \in Senders
      /\ [op |-> "editor_quit", gate |-> "open", reply |-> "whole"] \in Senders
  <2>1. /\ [op |-> "editor_state", gate |-> "open", reply |-> "snapshot"] \in EditorHandlers
        /\ [op |-> "editor_quit", gate |-> "open", reply |-> "whole"] \in EditorHandlers
    BY DEF EditorHandlers, Handler, Reads
  <2> QED
    BY <2>1 DEF Senders, Handlers
<1>2. ASSUME NEW h \in Senders
      PROVE  [gate |-> "open", copies |-> h.reply = "snapshot"] \in Kinds
  <2>1. PICK e \in Senders : e.gate = "open" /\ (e.reply = "snapshot" <=> h.reply = "snapshot")
    <3>1. CASE h.reply = "snapshot"
      BY <1>1, <3>1
    <3>2. CASE h.reply # "snapshot"
      BY <1>1, <3>2
    <3> QED
      BY <3>1, <3>2
  <2>2. (e.reply = "snapshot") = (h.reply = "snapshot")
    BY <2>1
  <2>3. [gate |-> e.gate, copies |-> e.reply = "snapshot"] \in Kinds
    BY DEF Kinds
  <2> QED
    BY <2>1, <2>2, <2>3, Zenon
<1>3. ASSUME NEW k \in Kinds PROVE PastGate(k) \in Kinds
  <2>1. PICK h \in Senders : k = [gate |-> h.gate, copies |-> h.reply = "snapshot"]
    BY DEF Kinds
  <2>2. PastGate(k) = [gate |-> "open", copies |-> h.reply = "snapshot"]
    BY <2>1 DEF PastGate
  <2> QED
    BY <1>2, <2>2
<1>4. SomeKind \in Kinds
  BY <1>1, <1>2 DEF SomeKind
<1> QED
  BY <1>3, <1>4

LEMMA ReadyIsWritable == SomeReady \in Writable /\ SomeReady \in Readiness /\ SomeReady \notin Blocking
<1>1. SomeReady \in Writable
  BY DEF SomeReady
<1> QED
  BY <1>1 DEF Readiness

LEMMA FrameFields ==
  ASSUME NEW f \in Frame
  PROVE  /\ f.readiness \in Readiness
         /\ IsReply(f) => f.call \in Calls /\ f.ok \in BOOLEAN
<1>1. CASE f \in [call : Calls, ok : BOOLEAN, readiness : Readiness]
  BY <1>1
<1>2. CASE f \in [readiness : Readiness]
  BY <1>2 DEF IsReply
<1> QED
  BY <1>1, <1>2 DEF Frame

LEMMA ReplyFields ==
  ASSUME NEW r \in Reply
  PROVE  r.ok \in BOOLEAN /\ (r.ok => r.readiness \in Readiness)
<1>1. CASE r \in [ok : {TRUE}, readiness : Readiness]
  BY <1>1
<1>2. CASE r = NoReply
  <2>1. r.ok = FALSE
    BY <1>2 DEF NoReply
  <2> QED
    BY <2>1
<1> QED
  BY <1>1, <1>2 DEF Reply

\* What a disconnect settles is queued: no other call is.
LEMMA Queued ==
  ASSUME NEW S \in SUBSET Calls
  PROVE  SetToSeq(S) \in Seq(Calls) /\ Range(SetToSeq(S)) \subseteq S
<1> DEFINE n == Cardinality(S)
<1>1. IsFiniteSet(S)
  BY FS_Subset
<1>2. n \in Nat /\ ExistsBijection(1..n, S)
  BY <1>1, FS_CardinalityType
<1>3. \E f \in [1..n -> S] : IsInjective(f)
  BY <1>2 DEF ExistsBijection, Bijection, Injection
<1>4. SetToSeq(S) \in [1..n -> S]
  BY <1>3 DEF SetToSeq
<1> HIDE DEF n
<1>5. SetToSeq(S) \in Seq(S)
  BY <1>2, <1>4, SeqDef
<1> QED
  BY <1>5, SeqMonotonic, RangeOfSeq

\* p is q without one frame, or with none left, or the same.
Thins(p, q) ==
  \E k \in Nat : \A i \in 1..Len(p) :
    IF i < k THEN i \in 1..Len(q) /\ p[i] = q[i]
             ELSE i + 1 \in 1..Len(q) /\ p[i] = q[i + 1]

LEMMA ThinsSame ==
  ASSUME NEW q \in Seq(Frame)
  PROVE  Thins(q, q) /\ Thins(<<>>, q)
<1>1. Len(q) \in Nat
  OBVIOUS
<1>2. Thins(q, q)
  <2>1. Len(q) + 1 \in Nat /\ \A i \in 1..Len(q) : i < Len(q) + 1
    BY <1>1
  <2> QED
    BY <2>1 DEF Thins
<1>3. Thins(<<>>, q)
  <2>1. \A i \in 1..Len(<<>>) : FALSE
    BY EmptySeq
  <2> QED
    BY <2>1 DEF Thins
<1> QED
  BY <1>2, <1>3

LEMMA ThinsTail ==
  ASSUME NEW q \in Seq(Frame), q # <<>>
  PROVE  /\ Tail(q) \in Seq(Frame) /\ Thins(Tail(q), q)
         /\ Head(q) = q[1] /\ 1 \in 1..Len(q)
         /\ \A i \in 1..Len(Tail(q)) : i + 1 \in 1..Len(q) /\ Tail(q)[i] = q[i + 1]
<1>1. /\ Tail(q) \in Seq(Frame) /\ Len(Tail(q)) = Len(q) - 1 /\ Len(q) \in Nat \ {0}
      /\ \A i \in 1..Len(Tail(q)) : Tail(q)[i] = q[i + 1]
  BY HeadTailProperties, EmptySeq
<1>2. \A i \in 1..Len(Tail(q)) : ~(i < 0) /\ i + 1 \in 1..Len(q) /\ Tail(q)[i] = q[i + 1]
  BY <1>1
<1>3. Thins(Tail(q), q)
  BY <1>2 DEF Thins
<1>4. Head(q) = q[1]
  BY <1>1
<1> QED
  BY <1>1, <1>2, <1>3, <1>4

\* A reply that no call waits for any more leaves the frames as they are.
LEMMA DisownedFrames ==
  ASSUME NEW q \in Seq(Frame), NEW c \in Calls,
         \A i, j \in RepliesTo(c, q) : i = j
  PROVE  /\ Disowned(c, q) \in Seq(Frame) /\ Thins(Disowned(c, q), q)
         /\ RepliesTo(c, Disowned(c, q)) = {}
<1> DEFINE p == Disowned(c, q)
<1>0. Len(q) \in Nat /\ \A i \in 1..Len(q) : q[i] \in Frame
  BY ElementOfSeq
<1>1. CASE RepliesTo(c, q) = {}
  BY <1>1, ThinsSame DEF Disowned
<1>2. CASE RepliesTo(c, q) # {}
  <2> DEFINE k == CHOOSE i \in RepliesTo(c, q) : TRUE
             a == SubSeq(q, 1, k - 1)
             b == SubSeq(q, k + 1, Len(q))
  <2>1. k \in RepliesTo(c, q)
    BY <1>2
  <2>2. p = a \o b
    BY <1>2 DEF Disowned, RemoveAt
  <2>3. k \in 1..Len(q) /\ \A i \in RepliesTo(c, q) : i = k
    BY <2>1 DEF RepliesTo
  <2> HIDE DEF k
  <2>4. k - 1 \in Nat /\ k + 1 \in Nat
    BY <1>0, <2>3
  <2>5. a \in Seq(Frame) /\ Len(a) = k - 1 /\ \A i \in 1..(k - 1) : a[i] = q[i]
    <3>1. \A i \in 1..(k - 1) : q[i] \in Frame
      BY <1>0, <2>3
    <3> QED
      BY <2>4, <3>1, SubSeqProperties
  <2>6. b \in Seq(Frame) /\ Len(b) = Len(q) - k /\ \A i \in 1..(Len(q) - k) : b[i] = q[k + i]
    <3>1. \A i \in (k + 1)..Len(q) : q[i] \in Frame
      BY <1>0, <2>3
    <3>2. /\ b \in Seq(Frame)
          /\ Len(b) = IF k + 1 <= Len(q) THEN Len(q) - (k + 1) + 1 ELSE 0
          /\ \A i \in 1..(Len(q) - (k + 1) + 1) : b[i] = q[(k + 1) + i - 1]
      BY <1>0, <2>4, <3>1, SubSeqProperties
    <3> QED
      BY <1>0, <2>3, <3>2
  <2> HIDE DEF a, b
  <2>7. /\ a \o b \in Seq(Frame) /\ Len(a \o b) = Len(a) + Len(b)
        /\ \A i \in 1..(Len(a) + Len(b)) : (a \o b)[i] = IF i <= Len(a) THEN a[i] ELSE b[i - Len(a)]
    <3>1. a \in Seq(Frame) /\ b \in Seq(Frame)
      BY <2>5, <2>6
    <3> QED
      BY <3>1, ConcatProperties
  <2> HIDE DEF p
  <2>8. ASSUME NEW i \in 1..Len(p)
        PROVE  IF i < k THEN i \in 1..Len(q) /\ p[i] = q[i]
                        ELSE i + 1 \in 1..Len(q) /\ p[i] = q[i + 1]
    <3>1. i \in 1..(Len(q) - 1) /\ p[i] = IF i <= k - 1 THEN a[i] ELSE b[i - (k - 1)]
      BY <1>0, <2>2, <2>3, <2>5, <2>6, <2>7
    <3>2. CASE i < k
      BY <1>0, <2>3, <2>5, <3>1, <3>2
    <3>3. CASE ~(i < k)
      <4>1. i - (k - 1) \in 1..(Len(q) - k) /\ k + (i - (k - 1)) = i + 1
        BY <1>0, <2>3, <3>1, <3>3
      <4>2. p[i] = b[i - (k - 1)]
        BY <1>0, <2>3, <3>1, <3>3
      <4> QED
        BY <1>0, <2>6, <3>1, <3>3, <4>1, <4>2
    <3> QED
      BY <3>2, <3>3
  <2>9. Thins(p, q)
    <3>1. k \in Nat
      BY <1>0, <2>3
    <3> QED
      BY <2>8, <3>1 DEF Thins
  <2>10. RepliesTo(c, p) = {}
    <3>1. SUFFICES ASSUME NEW i \in RepliesTo(c, p) PROVE FALSE
      OBVIOUS
    <3>2. i \in 1..Len(p) /\ IsReply(p[i]) /\ p[i].call = c
      BY DEF RepliesTo
    <3>3. PICK j \in 1..Len(q) : p[i] = q[j] /\ j # k
      BY <1>0, <2>3, <2>8, <3>2
    <3> QED
      BY <2>3, <3>2, <3>3 DEF RepliesTo
  <2> QED
    BY <2>2, <2>7, <2>9, <2>10 DEF p
<1> QED
  BY <1>1, <1>2

-----------------------------------------------------------------------------
(* The invariant.                                                          *)

\* A reply on its way is the only one to a call that waits for it, and what
\* it says of the editor is known to excuse the call.
Owned(f, s) ==
  IsReply(f) => /\ Waits(f.call) /\ bound[f.call] = s
                /\ pc[f.call] = "probing" /\ f.readiness \in Blocking => excuse[f.call]

Single(q) ==
  \A i, j \in 1..Len(q) : IsReply(q[i]) /\ IsReply(q[j]) /\ q[i].call = q[j].call => i = j

Frames ==
  \A s \in Sessions : Single(inbox[s]) /\ \A i \in 1..Len(inbox[s]) : Owned(inbox[s][i], s)

Bound == \A c \in Calls : pc[c] \notin Idle => bound[c] \in Sessions

\* A probing call is excused while its editor is busy, once its session is
\* gone, and when the reply it holds says blocked.
Excused ==
  \A c \in Calls : pc[c] = "probing" =>
    /\ Busy(bound[c]) => excuse[c]
    /\ bound[c] \notin connected => excuse[c]
    /\ got[c].ok /\ got[c].readiness \in Blocking => excuse[c]

GateInv == TypeOK /\ Bound /\ Frames /\ Excused /\ NoFalseRefusal

LEMMA InitGate == Init => GateInv
<1> SUFFICES ASSUME Init PROVE GateInv
  OBVIOUS
<1>1. TypeOK
  <2>1. editor \in [Sessions -> Readiness]
    BY DEF Init
  <2>2. inbox \in [Sessions -> Seq(Frame)] /\ ready \in Seq(Calls)
    BY EmptySeq DEF Init
  <2>3. kind \in [Calls -> Kinds] /\ snap \in [Calls -> Readiness]
    BY OpenKinds, ReadyIsWritable DEF Init
  <2>4. left \in [Calls -> 0..HoldRounds] /\ got \in [Calls -> Reply] /\ excuse \in [Calls -> BOOLEAN]
    BY DEF Init, Reply
  <2> QED
    BY <2>1, <2>2, <2>3, <2>4 DEF Init, TypeOK, Idle
<1>2. \A c \in Calls : pc[c] = "idle"
  BY DEF Init
<1>3. \A s \in Sessions : inbox[s] = <<>>
  BY DEF Init
<1>4. Frames
  BY <1>3, EmptySeq DEF Frames, Single
<1> QED
  BY <1>1, <1>2, <1>4 DEF GateInv, Bound, Excused, NoFalseRefusal, Idle

-----------------------------------------------------------------------------
(* A step of a call, whatever it is.                                       *)

States == Idle \cup Awaiting \cup {"holding"}

\* The call c becomes something, with reason if it is refused and only while
\* connected if it probes.
Moves(c) ==
  \E st \in States, k \in Kinds, s \in Sessions \cup {NoSession}, sn \in Readiness,
     r \in 0..HoldRounds, x \in BOOLEAN :
    /\ Becomes(c, st, k, s, sn, r)
    /\ excuse' = [excuse EXCEPT ![c] = x]
    /\ st \notin Idle => s \in Sessions
    /\ st = "probing" => s \in connected /\ (Busy(s) => x)
    /\ st = "refused" => x

LEMMA EndMoves ==
  ASSUME NEW c \in Calls, NEW outcome \in Idle, NEW x \in BOOLEAN,
         outcome = "refused" => x, Ends(c, outcome, x)
  PROVE  Moves(c)
<1>1. /\ outcome \in States /\ outcome # "probing"
      /\ SomeKind \in Kinds /\ SomeReady \in Readiness /\ 0 \in 0..HoldRounds
  BY OpenKinds, ReadyIsWritable DEF States, Idle
<1>2. Becomes(c, outcome, SomeKind, NoSession, SomeReady, 0) /\ excuse' = [excuse EXCEPT ![c] = x]
  BY DEF Ends
<1> QED
  BY <1>1, <1>2 DEF Moves

LEMMA SendMoves ==
  ASSUME TypeOK, NEW c \in Calls, NEW s, NEW k \in Kinds, SendTo(c, s, k)
  PROVE  Moves(c)
<1>1. CASE s \in connected
  <2>1. Becomes(c, "sent", PastGate(k), s, SomeReady, 0) /\ excuse' = [excuse EXCEPT ![c] = FALSE]
    BY <1>1 DEF SendTo
  <2>2. /\ "sent" \in States /\ PastGate(k) \in Kinds /\ s \in Sessions
        /\ SomeReady \in Readiness /\ 0 \in 0..HoldRounds /\ "sent" \notin {"probing", "refused"}
    BY <1>1, OpenKinds, ReadyIsWritable DEF States, Awaiting, TypeOK
  <2> QED
    BY <2>1, <2>2 DEF Moves
<1>2. CASE s \notin connected
  BY <1>2, EndMoves DEF SendTo, Idle
<1> QED
  BY <1>1, <1>2

LEMMA ProbeMoves ==
  ASSUME TypeOK, NEW c \in Calls, NEW s \in connected, NEW k \in Kinds, NEW sn \in Readiness,
         NEW r \in 0..HoldRounds, Probe(c, s, k, sn, r)
  PROVE  Moves(c)
<1>1. /\ "probing" \in States /\ s \in Sessions /\ Busy(s) \in BOOLEAN /\ "probing" # "refused"
  BY DEF States, Awaiting, TypeOK, Busy
<1>2. Becomes(c, "probing", k, s, sn, r) /\ excuse' = [excuse EXCEPT ![c] = Busy(s)]
  BY DEF Probe
<1> QED
  BY <1>1, <1>2 DEF Moves

LEMMA HoldMoves ==
  ASSUME NEW c \in Calls, NEW s \in Sessions, NEW k \in Kinds, NEW sn \in Readiness,
         NEW r \in 0..HoldRounds, Becomes(c, "holding", k, s, sn, r),
         excuse' = [excuse EXCEPT ![c] = FALSE]
  PROVE  Moves(c)
<1>1. "holding" \in States /\ "holding" \notin {"probing", "refused"}
  BY DEF States
<1> QED
  BY <1>1 DEF Moves

\* The gate's decision: a refusal is excused, for a reply that says blocked
\* excuses it and so does the lack of one or of the session.
LEMMA ReturnMoves ==
  ASSUME GateInv, NEW c \in Calls, pc[c] = "probing", ProbeReturns(c)
  PROVE  Moves(c) /\ cache' \in [Sessions -> Readiness]
<1> DEFINE s == bound[c]
           sn == IF s \in connected THEN cache'[s] ELSE snap[c]
<1> USE DEF GateInv
<1>1. s \in Sessions
  BY DEF Bound, Idle
<1>2. cache' = Recorded(s, got[c])
  BY DEF ProbeReturns
<1>3. (got[c].ok => got[c].readiness \in Readiness) /\ got[c].ok \in BOOLEAN
  BY ReplyFields DEF TypeOK
<1>4. cache' \in [Sessions -> Readiness]
  BY <1>1, <1>2, <1>3 DEF Recorded, TypeOK
<1>5. sn \in Readiness /\ kind[c] \in Kinds /\ left[c] \in 0..HoldRounds /\ excuse[c] \in BOOLEAN
  BY <1>1, <1>4 DEF TypeOK
<1>6. got[c].ok /\ s \in connected => sn = got[c].readiness
  BY <1>1, <1>2 DEF Recorded, TypeOK
<1>7. got[c].ok /\ sn \in Blocking => excuse[c]
  <2>1. s \notin connected => excuse[c]
    BY DEF Excused
  <2>2. got[c].ok /\ got[c].readiness \in Blocking => excuse[c]
    BY DEF Excused
  <2> QED
    BY <1>6, <2>1, <2>2
<1>8. CASE got[c].ok /\ sn = "importing" /\ left[c] > 0
  <2>1. Becomes(c, "holding", kind[c], s, sn, left[c]) /\ excuse' = [excuse EXCEPT ![c] = FALSE]
    BY <1>8 DEF ProbeReturns
  <2> QED
    BY <1>1, <1>4, <1>5, <2>1, HoldMoves
<1>9. CASE ~(got[c].ok /\ sn = "importing" /\ left[c] > 0)
  <2>1. CASE sn \notin Blocking \/ PlayingIsFine(kind[c], got[c], sn)
    <3>1. SendTo(c, s, kind[c])
      BY <1>9, <2>1 DEF ProbeReturns
    <3> QED
      BY <1>4, <1>5, <3>1, SendMoves
  <2>2. CASE ~(sn \notin Blocking \/ PlayingIsFine(kind[c], got[c], sn))
    <3>1. Ends(c, "refused", excuse[c] \/ ~got[c].ok)
      BY <1>9, <2>2 DEF ProbeReturns
    <3>2. excuse[c] \/ ~got[c].ok
      BY <1>7, <2>2
    <3>3. (excuse[c] \/ ~got[c].ok) \in BOOLEAN /\ "refused" \in Idle
      BY DEF Idle
    <3> HIDE DEF s, sn
    <3> QED
      BY <1>4, <3>1, <3>2, <3>3, EndMoves
  <2> QED
    BY <2>1, <2>2
<1> QED
  BY <1>8, <1>9

LEMMA CallSteps ==
  ASSUME GateInv, NEW c \in Calls,
         (\E k \in Kinds, s \in Sessions : Start(c, k, s)) \/ Resume(c) \/ Wake(c)
  PROVE  /\ Moves(c) /\ ~Waits(c) /\ cache' \in [Sessions -> Readiness]
         /\ UNCHANGED <<editorVars, inbox, connected>>
         /\ \/ UNCHANGED ready
            \/ ready # <<>> /\ ready' = Tail(ready)
<1> USE DEF GateInv
<1>1. ASSUME NEW k \in Kinds, NEW s \in Sessions, Start(c, k, s)
      PROVE  Moves(c) /\ ~Waits(c) /\ UNCHANGED <<editorVars, inbox, connected, cache, ready>>
  <2>1. pc[c] \notin Awaiting /\ s \in connected
        /\ UNCHANGED <<editorVars, inbox, connected, cache, ready>>
    BY <1>1 DEF Start, Idle, Awaiting
  <2>2. cache[s] \in Readiness /\ HoldRounds \in 0..HoldRounds
    BY DEF TypeOK
  <2>3. Moves(c)
    BY <1>1, <2>1, <2>2, SendMoves, ProbeMoves DEF Start
  <2> QED
    BY <2>1, <2>3 DEF Waits
<1>2. CASE Resume(c)
  <2>1. /\ ready # <<>> /\ c = Head(ready) /\ ready' = Tail(ready)
        /\ UNCHANGED <<editorVars, inbox, connected>>
    BY <1>2 DEF Resume
  <2>2. c \in Range(ready)
    <3>1. ready \in Seq(Calls) /\ Len(ready) \in Nat \ {0}
      BY <2>1, EmptySeq DEF TypeOK
    <3>2. c = ready[1] /\ 1 \in DOMAIN ready
      BY <2>1, <3>1
    <3> QED
      BY <3>2 DEF Range
  <2>3. CASE pc[c] = "probing" /\ ProbeReturns(c)
    BY <2>1, <2>2, <2>3, ReturnMoves DEF Waits
  <2>4. CASE pc[c] = "sent" /\ CommandReturns(c)
    <3>1. Moves(c)
      BY <2>4, EndMoves DEF CommandReturns, Idle
    <3>2. got[c].ok => got[c].readiness \in Readiness
      BY ReplyFields DEF TypeOK
    <3>3. cache' \in [Sessions -> Readiness]
      BY <2>4, <3>2 DEF CommandReturns, Recorded, TypeOK
    <3> QED
      BY <2>1, <2>2, <3>1, <3>3 DEF Waits
  <2> QED
    BY <1>2, <2>3, <2>4 DEF Resume
<1>3. CASE Wake(c)
  <2>1. pc[c] = "holding" /\ UNCHANGED <<editorVars, inbox, connected, cache, ready>>
    BY <1>3 DEF Wake
  <2>2. CASE bound[c] \in connected
    <3>1. PICK rest \in 0..(left[c] - 1) : Probe(c, bound[c], kind[c], snap[c], rest)
      BY <1>3, <2>2 DEF Wake
    <3>2. rest \in 0..HoldRounds /\ kind[c] \in Kinds /\ snap[c] \in Readiness
      BY DEF TypeOK
    <3> QED
      BY <2>1, <2>2, <3>1, <3>2, ProbeMoves DEF Waits, Awaiting, TypeOK
  <2>3. CASE bound[c] \notin connected
    <3>1. Ends(c, "refused", TRUE)
      BY <1>3, <2>3 DEF Wake
    <3> QED
      BY <2>1, <3>1, EndMoves DEF Waits, Awaiting, Idle, TypeOK
  <2> QED
    BY <2>2, <2>3
<1> QED
  BY <1>1, <1>2, <1>3 DEF TypeOK

LEMMA Moved ==
  ASSUME TypeOK, NEW c \in Calls, Moves(c)
  PROVE  /\ pc' \in [Calls -> States] /\ kind' \in [Calls -> Kinds]
         /\ bound' \in [Calls -> Sessions \cup {NoSession}] /\ snap' \in [Calls -> Readiness]
         /\ left' \in [Calls -> 0..HoldRounds] /\ got' \in [Calls -> Reply]
         /\ excuse' \in [Calls -> BOOLEAN]
         /\ \A d \in Calls \ {c} : /\ pc'[d] = pc[d] /\ bound'[d] = bound[d] /\ got'[d] = got[d]
                                   /\ excuse'[d] = excuse[d]
         /\ pc'[c] \notin Idle => bound'[c] \in Sessions
         /\ pc'[c] = "probing" => /\ bound'[c] \in connected /\ ~got'[c].ok
                                  /\ Busy(bound'[c]) => excuse'[c]
         /\ pc'[c] = "refused" => excuse'[c]
<1>1. PICK st \in States, k \in Kinds, s \in Sessions \cup {NoSession}, sn \in Readiness,
           r \in 0..HoldRounds, x \in BOOLEAN :
        /\ Becomes(c, st, k, s, sn, r)
        /\ excuse' = [excuse EXCEPT ![c] = x]
        /\ st \notin Idle => s \in Sessions
        /\ st = "probing" => s \in connected /\ (Busy(s) => x)
        /\ st = "refused" => x
  BY DEF Moves
<1>2. NoReply \in Reply /\ ~NoReply.ok
  BY DEF Reply, NoReply
<1>3. /\ pc' \in [Calls -> States] /\ kind' \in [Calls -> Kinds]
      /\ bound' \in [Calls -> Sessions \cup {NoSession}] /\ snap' \in [Calls -> Readiness]
      /\ left' \in [Calls -> 0..HoldRounds] /\ got' \in [Calls -> Reply]
  BY <1>1, <1>2 DEF Becomes, TypeOK, States
<1>4. /\ pc'[c] = st /\ bound'[c] = s /\ got'[c] = NoReply
      /\ \A d \in Calls \ {c} : pc'[d] = pc[d] /\ bound'[d] = bound[d] /\ got'[d] = got[d]
  BY <1>1 DEF Becomes, TypeOK
<1>5. /\ excuse' \in [Calls -> BOOLEAN] /\ excuse'[c] = x
      /\ \A d \in Calls \ {c} : excuse'[d] = excuse[d]
  BY <1>1 DEF TypeOK
<1> QED
  BY <1>1, <1>2, <1>3, <1>4, <1>5

\* What editors, sockets and the reader do.
LinkSteps ==
  \/ \E s \in Sessions, r \in Readiness : EditorChanges(s, r)
  \/ \E s \in Sessions : EditorTells(s)
  \/ \E c \in Calls, ok \in BOOLEAN : EditorAnswers(c, ok)
  \/ \E s \in Sessions : Connect(s)
  \/ \E s \in Sessions : Disconnect(s)
  \/ \E s \in Sessions : Receive(s)
  \/ \E c \in Calls : NoAnswer(c)

LEMMA StepCases ==
  ASSUME Next
  PROVE  \/ LinkSteps
         \/ \E c \in Calls : (\E k \in Kinds, s \in Sessions : Start(c, k, s)) \/ Resume(c) \/ Wake(c)
  BY DEF Next, LinkSteps

\* None of them moves a call, or takes an excuse from a call at the gate.
LEMMA LinkFrame ==
  ASSUME TypeOK, LinkSteps
  PROVE  /\ UNCHANGED <<pc, kind, bound, snap, left>>
         /\ excuse' \in [Calls -> BOOLEAN]
         /\ \A c \in Calls : pc[c] # "sent" /\ excuse[c] => excuse'[c]
<1>1. CASE \E s \in Sessions, r \in Readiness : EditorChanges(s, r)
  BY <1>1 DEF EditorChanges, localVars, TypeOK
<1>2. CASE \E s \in Sessions : Disconnect(s)
  BY <1>2 DEF Disconnect, localVars, TypeOK
<1>3. ASSUME NEW c \in Calls, NoAnswer(c)
      PROVE  /\ UNCHANGED <<pc, kind, bound, snap, left>>
             /\ excuse' \in [Calls -> BOOLEAN]
             /\ \A d \in Calls : pc[d] # "sent" /\ excuse[d] => excuse'[d]
  <2>1. UNCHANGED <<pc, kind, bound, snap, left>> /\ pc[c] \in {"probing", "sent"}
        /\ excuse' = [excuse EXCEPT ![c] = pc[c] = "probing"]
    BY <1>3 DEF NoAnswer, localVars, Waits, Awaiting
  <2>2. (pc[c] = "probing") \in BOOLEAN
    OBVIOUS
  <2> QED
    BY <2>1, <2>2 DEF TypeOK
<1>4. CASE UNCHANGED <<pc, kind, bound, snap, left, excuse>>
  BY <1>4 DEF TypeOK
<1> QED
  BY <1>1, <1>2, <1>3, <1>4
     DEF LinkSteps, EditorTells, EditorAnswers, Connect, Receive, localVars

\* A frame joins the others at the end.
LEMMA Delivered ==
  ASSUME TypeOK, NEW s \in Sessions, NEW f \in Frame, Deliver(s, f)
  PROVE  /\ inbox' \in [Sessions -> Seq(Frame)] /\ s \in connected
         /\ \A t \in Sessions \ {s} : inbox'[t] = inbox[t]
         /\ Len(inbox'[s]) = Len(inbox[s]) + 1 /\ inbox'[s][Len(inbox[s]) + 1] = f
         /\ \A i \in 1..Len(inbox[s]) : inbox'[s][i] = inbox[s][i]
<1>1. inbox[s] \in Seq(Frame)
  BY DEF TypeOK
<1>2. /\ Append(inbox[s], f) \in Seq(Frame) /\ Len(Append(inbox[s], f)) = Len(inbox[s]) + 1
      /\ \A i \in 1..Len(inbox[s]) : Append(inbox[s], f)[i] = inbox[s][i]
      /\ Append(inbox[s], f)[Len(inbox[s]) + 1] = f
  BY <1>1, AppendProperties
<1>3. inbox' = [inbox EXCEPT ![s] = Append(inbox[s], f)] /\ s \in connected
  BY DEF Deliver
<1> QED
  BY <1>1, <1>2, <1>3 DEF TypeOK

\* The readiness of an editor is a frame's, alone or with an answer.
LEMMA FrameMakes ==
  /\ \A r \in Readiness : [readiness |-> r] \in Frame /\ ~IsReply([readiness |-> r])
  /\ \A c \in Calls, ok \in BOOLEAN, r \in Readiness :
       /\ [call |-> c, ok |-> ok, readiness |-> r] \in Frame
       /\ [call |-> c, ok |-> ok, readiness |-> r].call = c
       /\ [call |-> c, ok |-> ok, readiness |-> r].readiness = r
  BY DEF Frame, IsReply

LEMMA ReadyQueue ==
  ASSUME NEW q \in Seq(Calls), NEW c \in Calls
  PROVE  /\ Append(q, c) \in Seq(Calls) /\ Range(Append(q, c)) = Range(q) \cup {c}
         /\ q # <<>> => Tail(q) \in Seq(Calls) /\ Range(Tail(q)) \subseteq Range(q)
<1>0. Len(q) \in Nat /\ Range(q) = {q[i] : i \in 1..Len(q)}
  BY RangeEquality
<1>1. Append(q, c) \in Seq(Calls) /\ Range(Append(q, c)) = Range(q) \cup {c}
  <2> DEFINE p == Append(q, c)
  <2>1. /\ p \in Seq(Calls) /\ Len(p) = Len(q) + 1 /\ p[Len(q) + 1] = c
        /\ \A i \in 1..Len(q) : p[i] = q[i]
    BY AppendProperties
  <2> HIDE DEF p
  <2>2. Range(p) = {p[i] : i \in 1..Len(p)}
    BY <2>1, RangeEquality
  <2>3. ASSUME NEW i \in 1..Len(p) PROVE p[i] \in Range(q) \cup {c}
    BY <1>0, <2>1
  <2>4. ASSUME NEW i \in 1..Len(q) PROVE q[i] \in Range(p)
    BY <1>0, <2>1, <2>2
  <2>5. c \in Range(p)
    BY <1>0, <2>1, <2>2
  <2> QED
    BY <1>0, <2>1, <2>2, <2>3, <2>4, <2>5 DEF p
<1>2. ASSUME q # <<>> PROVE Tail(q) \in Seq(Calls) /\ Range(Tail(q)) \subseteq Range(q)
  <2>1. /\ Tail(q) \in Seq(Calls) /\ Len(Tail(q)) = Len(q) - 1
        /\ \A i \in 1..Len(Tail(q)) : Tail(q)[i] = q[i + 1]
    BY <1>2, HeadTailProperties
  <2>2. Range(Tail(q)) = {Tail(q)[i] : i \in 1..Len(Tail(q))}
    BY <2>1, RangeEquality
  <2>3. ASSUME NEW i \in 1..Len(Tail(q)) PROVE Tail(q)[i] \in Range(q)
    BY <1>0, <2>1
  <2> QED
    BY <2>1, <2>2, <2>3
<1> QED
  BY <1>1, <1>2

-----------------------------------------------------------------------------
(* What the steps of the link do to frames, futures and tasks.             *)

LEMMA ReceiveEffect ==
  ASSUME TypeOK, NEW s \in Sessions, Receive(s)
  PROVE  LET f == inbox[s][1] IN
         /\ f \in Frame /\ 1 \in 1..Len(inbox[s]) /\ cache' \in [Sessions -> Readiness]
         /\ inbox' \in [Sessions -> Seq(Frame)] /\ Thins(inbox'[s], inbox[s])
         /\ \A t \in Sessions \ {s} : inbox'[t] = inbox[t]
         /\ \A i \in 1..Len(inbox'[s]) : i + 1 \in 1..Len(inbox[s]) /\ inbox'[s][i] = inbox[s][i + 1]
         /\ got' \in [Calls -> Reply] /\ ready' \in Seq(Calls)
         /\ \A c \in Calls :
              \/ got'[c] = got[c]
              \/ IsReply(f) /\ c = f.call /\ (got'[c].ok => got'[c].readiness = f.readiness)
         /\ Range(ready') \subseteq Range(ready) \cup {c \in Calls : IsReply(f) /\ c = f.call}
<1> DEFINE f == inbox[s][1]
<1>1. inbox[s] \in Seq(Frame) /\ inbox[s] # <<>>
  BY DEF Receive, TypeOK
<1>2. /\ Head(inbox[s]) = f /\ 1 \in 1..Len(inbox[s])
      /\ Tail(inbox[s]) \in Seq(Frame) /\ Thins(Tail(inbox[s]), inbox[s])
      /\ \A i \in 1..Len(Tail(inbox[s])) :
           i + 1 \in 1..Len(inbox[s]) /\ Tail(inbox[s])[i] = inbox[s][i + 1]
  BY <1>1, ThinsTail
<1>3. f \in Frame
  BY <1>1, <1>2, ElementOfSeq
<1>4. f.readiness \in Readiness /\ (IsReply(f) => f.call \in Calls /\ f.ok \in BOOLEAN)
  BY <1>3, FrameFields
<1>5. /\ cache' = [cache EXCEPT ![s] = f.readiness]
      /\ got' = IF IsReply(f)
                THEN [got EXCEPT ![f.call] =
                        IF f.ok THEN [ok |-> TRUE, readiness |-> f.readiness] ELSE NoReply]
                ELSE got
      /\ ready' = IF IsReply(f) THEN Append(ready, f.call) ELSE ready
      /\ inbox' = [inbox EXCEPT ![s] = Tail(inbox[s])]
  BY <1>2 DEF Receive
<1> HIDE DEF f
<1>6. /\ inbox' \in [Sessions -> Seq(Frame)] /\ inbox'[s] = Tail(inbox[s])
      /\ \A t \in Sessions \ {s} : inbox'[t] = inbox[t]
      /\ cache' \in [Sessions -> Readiness]
  BY <1>2, <1>4, <1>5 DEF TypeOK
<1>7. /\ got' \in [Calls -> Reply]
      /\ \A c \in Calls :
           \/ got'[c] = got[c]
           \/ IsReply(f) /\ c = f.call /\ (got'[c].ok => got'[c].readiness = f.readiness)
  <2>1. CASE ~IsReply(f)
    <3>1. got' = got /\ got \in [Calls -> Reply]
      BY <1>5, <2>1 DEF TypeOK
    <3> QED
      BY <3>1, Zenon
  <2>2. CASE IsReply(f)
    <3> DEFINE r == IF f.ok THEN [ok |-> TRUE, readiness |-> f.readiness] ELSE NoReply
    <3>1. r \in Reply /\ (r.ok => r.readiness = f.readiness)
      BY <1>4, <2>2 DEF Reply, NoReply
    <3>2. got' = [got EXCEPT ![f.call] = r]
      BY <1>5, <2>2
    <3> HIDE DEF r
    <3>3. got \in [Calls -> Reply] /\ f.call \in Calls
      BY <1>4, <2>2 DEF TypeOK
    <3>4. got' \in [Calls -> Reply] /\ got'[f.call] = r
      BY <3>1, <3>2, <3>3
    <3>5. \A c \in Calls \ {f.call} : got'[c] = got[c]
      BY <3>2, <3>3
    <3> QED
      BY <2>2, <3>1, <3>4, <3>5, Zenon
  <2> QED
    BY <2>1, <2>2
<1>8. /\ ready' \in Seq(Calls)
      /\ Range(ready') \subseteq Range(ready) \cup {c \in Calls : IsReply(f) /\ c = f.call}
  <2>1. CASE ~IsReply(f)
    BY <1>5, <2>1 DEF TypeOK
  <2>2. CASE IsReply(f)
    <3>1. ready \in Seq(Calls) /\ f.call \in Calls /\ ready' = Append(ready, f.call)
      BY <1>4, <1>5, <2>2 DEF TypeOK
    <3>2. ready' \in Seq(Calls) /\ Range(ready') = Range(ready) \cup {f.call}
      BY <3>1, ReadyQueue
    <3> QED
      BY <2>2, <3>1, <3>2
  <2> QED
    BY <2>1, <2>2
<1> QED
  BY <1>2, <1>3, <1>6, <1>7, <1>8 DEF f

LEMMA TimeoutEffect ==
  ASSUME GateInv, NEW c \in Calls, NoAnswer(c)
  PROVE  /\ inbox' \in [Sessions -> Seq(Frame)] /\ \A s \in Sessions : Thins(inbox'[s], inbox[s])
         /\ \A s \in Sessions : RepliesTo(c, inbox'[s]) = {}
         /\ ready' \in Seq(Calls) /\ Range(ready') = Range(ready) \cup {c}
         /\ \A d \in Calls \ {c} : excuse'[d] = excuse[d]
<1> USE DEF GateInv
<1>1. bound[c] \in Sessions /\ inbox \in [Sessions -> Seq(Frame)]
  BY DEF NoAnswer, Waits, Awaiting, Bound, Idle, TypeOK
<1>2. \A i, j \in RepliesTo(c, inbox[bound[c]]) : i = j
  BY <1>1 DEF Frames, Single, RepliesTo
<1>3. LET p == Disowned(c, inbox[bound[c]]) IN
        p \in Seq(Frame) /\ Thins(p, inbox[bound[c]]) /\ RepliesTo(c, p) = {}
  BY <1>1, <1>2, DisownedFrames
<1>4. inbox' = [inbox EXCEPT ![bound[c]] = Disowned(c, inbox[bound[c]])]
  BY DEF NoAnswer
<1>5. \A s \in Sessions : Thins(inbox[s], inbox[s])
  BY <1>1, ThinsSame
<1>6. \A s \in Sessions \ {bound[c]} : RepliesTo(c, inbox[s]) = {}
  BY DEF Frames, Owned, RepliesTo
<1>7. ready' \in Seq(Calls) /\ Range(ready') = Range(ready) \cup {c}
  BY ReadyQueue DEF NoAnswer, TypeOK
<1>8. \A d \in Calls \ {c} : excuse'[d] = excuse[d]
  BY DEF NoAnswer, TypeOK
<1> QED
  BY <1>1, <1>3, <1>4, <1>5, <1>6, <1>7, <1>8

LEMMA DisconnectEffect ==
  ASSUME GateInv, NEW s \in Sessions, Disconnect(s)
  PROVE  /\ inbox' \in [Sessions -> Seq(Frame)] /\ inbox'[s] = <<>>
         /\ \A t \in Sessions \ {s} : inbox'[t] = inbox[t]
         /\ ready' \in Seq(Calls)
         /\ Range(ready') \subseteq Range(ready) \cup {c \in Calls : Waits(c) /\ bound[c] = s}
         /\ \A c \in Calls : pc[c] = "probing" /\ bound[c] = s => excuse'[c]
<1> DEFINE S == {c \in Calls : Waits(c) /\ bound[c] = s}
<1> USE DEF GateInv
<1>1. /\ inbox' \in [Sessions -> Seq(Frame)] /\ inbox'[s] = <<>>
      /\ \A t \in Sessions \ {s} : inbox'[t] = inbox[t]
  BY EmptySeq DEF Disconnect, TypeOK
<1>2. \A c \in Calls : pc[c] = "probing" /\ bound[c] = s => excuse'[c]
  BY DEF Disconnect
<1>3. /\ ready' = ready \o SetToSeq(S) /\ ready \in Seq(Calls) /\ S \in SUBSET Calls
  BY DEF Disconnect, TypeOK
<1> HIDE DEF S
<1>4. SetToSeq(S) \in Seq(Calls) /\ Range(SetToSeq(S)) \subseteq S
  BY <1>3, Queued
<1>5. ready' \in Seq(Calls)
  BY <1>3, <1>4, ConcatProperties
<1>6. Range(ready') = Range(ready) \cup Range(SetToSeq(S))
  BY <1>3, <1>4, RangeConcatenation
<1> QED
  BY <1>1, <1>2, <1>4, <1>5, <1>6 DEF S

-----------------------------------------------------------------------------
(* Every step keeps the invariant.                                         *)

LEMMA LinkType ==
  ASSUME GateInv, LinkSteps
  PROVE  TypeOK'
<1> USE DEF GateInv
<1>0. /\ UNCHANGED <<pc, kind, bound, snap, left>> /\ excuse' \in [Calls -> BOOLEAN]
  BY LinkFrame
<1>1. ASSUME NEW s \in Sessions, NEW r \in Readiness, EditorChanges(s, r) PROVE TypeOK'
  BY <1>0, <1>1 DEF EditorChanges, localVars, TypeOK
<1>2. ASSUME NEW s \in Sessions, EditorTells(s) PROVE TypeOK'
  <2>1. [readiness |-> editor[s]] \in Frame
    BY FrameMakes DEF TypeOK
  <2>2. inbox' \in [Sessions -> Seq(Frame)]
    BY <1>2, <2>1, Delivered DEF EditorTells
  <2> QED
    BY <1>0, <1>2, <2>2 DEF EditorTells, localVars, TypeOK
<1>3. ASSUME NEW c \in Calls, NEW ok \in BOOLEAN, EditorAnswers(c, ok) PROVE TypeOK'
  <2>1. bound[c] \in Sessions
    BY <1>3 DEF EditorAnswers, Waits, Awaiting, Bound, Idle
  <2>2. [call |-> c, ok |-> ok, readiness |-> editor[bound[c]]] \in Frame
    BY <2>1, FrameMakes DEF TypeOK
  <2>3. inbox' \in [Sessions -> Seq(Frame)]
    BY <1>3, <2>1, <2>2, Delivered DEF EditorAnswers
  <2> QED
    BY <1>0, <1>3, <2>3 DEF EditorAnswers, editorVars, localVars, TypeOK
<1>4. ASSUME NEW s \in Sessions, Connect(s) PROVE TypeOK'
  BY <1>0, <1>4 DEF Connect, localVars, TypeOK
<1>5. ASSUME NEW s \in Sessions, Disconnect(s) PROVE TypeOK'
  <2>1. SomeReady \in Readiness
    BY ReadyIsWritable
  <2>2. told' \in [Sessions -> Readiness] /\ cache' \in [Sessions -> Readiness]
    BY <1>5, <2>1 DEF Disconnect, TypeOK
  <2>3. inbox' \in [Sessions -> Seq(Frame)] /\ ready' \in Seq(Calls)
    BY <1>5, DisconnectEffect
  <2> QED
    BY <1>0, <1>5, <2>2, <2>3 DEF Disconnect, localVars, TypeOK
<1>6. ASSUME NEW s \in Sessions, Receive(s) PROVE TypeOK'
  <2>1. /\ inbox' \in [Sessions -> Seq(Frame)] /\ cache' \in [Sessions -> Readiness]
        /\ got' \in [Calls -> Reply] /\ ready' \in Seq(Calls)
    BY <1>6, ReceiveEffect
  <2> QED
    BY <1>0, <1>6, <2>1 DEF Receive, editorVars, TypeOK
<1>7. ASSUME NEW c \in Calls, NoAnswer(c) PROVE TypeOK'
  <2>1. inbox' \in [Sessions -> Seq(Frame)] /\ ready' \in Seq(Calls)
    BY <1>7, TimeoutEffect
  <2> QED
    BY <1>0, <1>7, <2>1 DEF NoAnswer, editorVars, localVars, TypeOK
<1> QED
  BY <1>1, <1>2, <1>3, <1>4, <1>5, <1>6, <1>7 DEF LinkSteps

\* What a step of a call leaves for the rest of the invariant.
LEMMA CallEffect ==
  ASSUME GateInv, NEW c \in Calls,
         (\E k \in Kinds, s \in Sessions : Start(c, k, s)) \/ Resume(c) \/ Wake(c)
  PROVE  /\ TypeOK' /\ ~Waits(c) /\ UNCHANGED <<editor, inbox, connected>>
         /\ Range(ready') \subseteq Range(ready)
<1>1. /\ Moves(c) /\ ~Waits(c) /\ cache' \in [Sessions -> Readiness]
      /\ UNCHANGED <<editorVars, inbox, connected>>
      /\ UNCHANGED ready \/ (ready # <<>> /\ ready' = Tail(ready))
  BY CallSteps
<1>2. ready \in Seq(Calls) /\ TypeOK
  BY DEF GateInv, TypeOK
<1>3. ready' \in Seq(Calls) /\ Range(ready') \subseteq Range(ready)
  BY <1>1, <1>2, ReadyQueue
<1>4. /\ pc' \in [Calls -> States] /\ kind' \in [Calls -> Kinds]
      /\ bound' \in [Calls -> Sessions \cup {NoSession}] /\ snap' \in [Calls -> Readiness]
      /\ left' \in [Calls -> 0..HoldRounds] /\ got' \in [Calls -> Reply]
      /\ excuse' \in [Calls -> BOOLEAN]
  BY <1>1, <1>2, Moved
<1> QED
  BY <1>1, <1>2, <1>3, <1>4 DEF TypeOK, editorVars, States

\* Frames that only go, or stay owned, stay well.
LEMMA KeptFrames ==
  ASSUME TypeOK, Frames, inbox' \in [Sessions -> Seq(Frame)],
         \A s \in Sessions : Thins(inbox'[s], inbox[s]),
         \A s \in Sessions : \A f \in Frame :
           Owned(f, s) /\ (\E i \in 1..Len(inbox'[s]) : inbox'[s][i] = f) => Owned(f, s)'
  PROVE  Frames'
<1> SUFFICES ASSUME NEW s \in Sessions
             PROVE  Single(inbox'[s]) /\ \A i \in 1..Len(inbox'[s]) : Owned(inbox[s][i], s)'
  BY DEF Frames, Single
<1> DEFINE p == inbox'[s]
           q == inbox[s]
<1>0. p \in Seq(Frame) /\ q \in Seq(Frame) /\ Len(p) \in Nat /\ Len(q) \in Nat
  BY DEF TypeOK
<1>1. PICK k \in Nat : \A i \in 1..Len(p) :
        IF i < k THEN i \in 1..Len(q) /\ p[i] = q[i] ELSE i + 1 \in 1..Len(q) /\ p[i] = q[i + 1]
  BY DEF Thins
<1>2. Single(q) /\ \A i \in 1..Len(q) : Owned(q[i], s)
  BY DEF Frames
<1> HIDE DEF p, q
<1>3. Single(p)
  <2>1. SUFFICES ASSUME NEW i \in 1..Len(p), NEW j \in 1..Len(p), IsReply(p[i]), IsReply(p[j]),
                        p[i].call = p[j].call
                 PROVE  i = j
    BY DEF Single
  <2>2. PICK a \in 1..Len(q), b \in 1..Len(q) :
          /\ a = (IF i < k THEN i ELSE i + 1) /\ p[i] = q[a]
          /\ b = (IF j < k THEN j ELSE j + 1) /\ p[j] = q[b]
    BY <1>0, <1>1
  <2>3. a = b
    BY <1>2, <2>1, <2>2 DEF Single
  <2> QED
    BY <1>0, <2>2, <2>3
<1>4. ASSUME NEW i \in 1..Len(p), NEW f, f = p[i] PROVE Owned(f, s)'
  <2>1. Owned(f, s)
    BY <1>1, <1>2, <1>4
  <2>2. f \in Frame
    BY <1>0, <1>4, ElementOfSeq
  <2>3. \E j \in 1..Len(p) : p[j] = f
    BY <1>4
  <2> QED
    BY <2>1, <2>2, <2>3 DEF p
<1> QED
  BY <1>3, <1>4 DEF p

LEMMA DeliveredFrames ==
  ASSUME TypeOK, Frames, NEW s \in Sessions, NEW f \in Frame, Deliver(s, f), Owned(f, s),
         IsReply(f) => RepliesTo(f.call, inbox[s]) = {},
         UNCHANGED <<pc, bound, ready, excuse>>
  PROVE  Frames'
<1> DEFINE q == inbox[s]
           p == inbox'[s]
<1>1. /\ Len(p) = Len(q) + 1 /\ p[Len(q) + 1] = f /\ Len(q) \in Nat
      /\ \A i \in 1..Len(q) : p[i] = q[i]
      /\ \A t \in Sessions \ {s} : inbox'[t] = inbox[t]
  <2>1. Len(q) \in Nat
    BY LenProperties DEF TypeOK
  <2> QED
    BY <2>1, Delivered
<1>2. Single(q) /\ \A i \in 1..Len(q) : Owned(q[i], s)
  BY DEF Frames
<1>3. IsReply(f) => \A i \in 1..Len(q) : ~(IsReply(q[i]) /\ q[i].call = f.call)
  BY DEF RepliesTo
<1>4. \A g : \A t \in Sessions : Owned(g, t) => Owned(g, t)'
  BY DEF Owned, Waits
<1> HIDE DEF p, q
<1>5. \A i \in 1..Len(p) : (i \in 1..Len(q) /\ p[i] = q[i]) \/ (i = Len(q) + 1 /\ p[i] = f)
  BY <1>1
<1>6. Single(p)
  <2>1. SUFFICES ASSUME NEW i \in 1..Len(p), NEW j \in 1..Len(p), IsReply(p[i]), IsReply(p[j]),
                        p[i].call = p[j].call
                 PROVE  i = j
    BY DEF Single
  <2>2. CASE i \in 1..Len(q) /\ p[i] = q[i] /\ j \in 1..Len(q) /\ p[j] = q[j]
    BY <1>2, <2>1, <2>2 DEF Single
  <2> QED
    BY <1>3, <1>5, <2>1, <2>2
<1>7. \A i \in 1..Len(p) : Owned(p[i], s)
  BY <1>2, <1>5
<1>8. ASSUME NEW t \in Sessions
      PROVE  Single(inbox'[t]) /\ \A i \in 1..Len(inbox'[t]) : Owned(inbox'[t][i], t)
  <2>1. CASE t = s
    BY <1>6, <1>7, <2>1 DEF p
  <2>2. CASE t # s
    BY <1>1, <2>2 DEF Frames
  <2> QED
    BY <2>1, <2>2
<1>9. ASSUME NEW t \in Sessions, NEW i \in 1..Len(inbox'[t]), NEW g, g = inbox'[t][i]
      PROVE  Owned(g, t)'
  BY <1>4, <1>8, <1>9
<1> QED
  BY <1>8, <1>9 DEF Frames, Single

LEMMA StepFrames == GateInv /\ [Next]_vars => Frames'
<1> SUFFICES ASSUME GateInv, [Next]_vars PROVE Frames'
  OBVIOUS
<1> USE DEF GateInv
<1>1. ASSUME UNCHANGED inbox,
             \A c \in Calls : Waits(c) => /\ pc'[c] = pc[c] /\ bound'[c] = bound[c]
                                          /\ excuse[c] => excuse'[c],
             Range(ready') \subseteq Range(ready)
      PROVE  Frames'
  <2>1. inbox' \in [Sessions -> Seq(Frame)] /\ \A s \in Sessions : Thins(inbox'[s], inbox[s])
    BY <1>1, ThinsSame DEF TypeOK
  <2>2. \A s \in Sessions : \A f \in Frame : Owned(f, s) => Owned(f, s)'
    BY <1>1, FrameFields DEF Owned, Waits
  <2> QED
    BY <2>1, <2>2, KeptFrames
<1>2. ASSUME NEW c \in Calls,
             (\E k \in Kinds, s \in Sessions : Start(c, k, s)) \/ Resume(c) \/ Wake(c)
      PROVE  Frames'
  <2>1. /\ ~Waits(c) /\ UNCHANGED inbox /\ Range(ready') \subseteq Range(ready)
    BY <1>2, CallEffect
  <2>2. \A d \in Calls \ {c} : pc'[d] = pc[d] /\ bound'[d] = bound[d] /\ excuse'[d] = excuse[d]
    BY <1>2, CallSteps, Moved
  <2> QED
    BY <1>1, <2>1, <2>2
<1>3. ASSUME NEW s \in Sessions, NEW r \in Readiness, EditorChanges(s, r) PROVE Frames'
  <2>1. UNCHANGED <<pc, bound, inbox, ready>> /\ \A c \in Calls : excuse[c] => excuse'[c]
    BY <1>3 DEF EditorChanges, localVars
  <2> QED
    BY <1>1, <2>1
<1>4. ASSUME NEW s \in Sessions, EditorTells(s) PROVE Frames'
  <2>1. [readiness |-> editor[s]] \in Frame /\ ~IsReply([readiness |-> editor[s]])
    BY FrameMakes DEF TypeOK
  <2> QED
    BY <1>4, <2>1, DeliveredFrames DEF EditorTells, localVars, Owned
<1>5. ASSUME NEW c \in Calls, NEW ok \in BOOLEAN, EditorAnswers(c, ok) PROVE Frames'
  <2> DEFINE s == bound[c]
             f == [call |-> c, ok |-> ok, readiness |-> editor[bound[c]]]
  <2>1. Waits(c) /\ ~Answered(c) /\ Deliver(s, f) /\ UNCHANGED <<pc, bound, ready, excuse>>
    BY <1>5 DEF EditorAnswers, localVars
  <2>2. s \in Sessions
    BY <2>1 DEF Waits, Awaiting, Bound, Idle
  <2>3. f \in Frame /\ f.call = c /\ f.readiness = editor[s]
    BY <2>2, FrameMakes DEF TypeOK
  <2>4. pc[c] = "probing" /\ editor[s] \in Blocking => excuse[c]
    BY DEF Excused, Busy
  <2> HIDE DEF s, f
  <2>5. Owned(f, s)
    BY <2>1, <2>3, <2>4 DEF Owned, s
  <2>6. RepliesTo(f.call, inbox[s]) = {}
    BY <2>1, <2>3 DEF Answered, s
  <2> QED
    BY <2>1, <2>2, <2>3, <2>5, <2>6, DeliveredFrames
<1>6. ASSUME NEW s \in Sessions, Connect(s) PROVE Frames'
  BY <1>1, <1>6 DEF Connect, localVars
<1>7. ASSUME NEW s \in Sessions, Disconnect(s) PROVE Frames'
  <2>1. UNCHANGED <<pc, bound>> /\ \A c \in Calls : excuse[c] => excuse'[c]
    BY <1>7 DEF Disconnect, localVars
  <2>2. /\ inbox' \in [Sessions -> Seq(Frame)] /\ inbox'[s] = <<>>
        /\ \A t \in Sessions \ {s} : inbox'[t] = inbox[t]
        /\ Range(ready') \subseteq Range(ready) \cup {c \in Calls : Waits(c) /\ bound[c] = s}
    BY <1>7, DisconnectEffect
  <2>3. \A t \in Sessions : Thins(inbox'[t], inbox[t])
    <3>1. \A t \in Sessions : Thins(inbox[t], inbox[t]) /\ Thins(<<>>, inbox[t])
      BY ThinsSame DEF TypeOK
    <3> QED
      BY <2>2, <3>1, Zenon
  <2>4. \A i \in 1..Len(inbox'[s]) : FALSE
    BY <2>2, EmptySeq
  <2>5. \A t \in Sessions \ {s} : \A f \in Frame : Owned(f, t) => Owned(f, t)'
    BY <2>1, <2>2, FrameFields DEF Owned, Waits
  <2> QED
    BY <2>2, <2>3, <2>4, <2>5, KeptFrames
<1>8. ASSUME NEW s \in Sessions, Receive(s) PROVE Frames'
  <2> DEFINE h == inbox[s][1]
  <2>1. UNCHANGED <<pc, bound, excuse>>
    BY <1>8 DEF Receive
  <2>2. /\ h \in Frame /\ 1 \in 1..Len(inbox[s])
        /\ inbox' \in [Sessions -> Seq(Frame)] /\ Thins(inbox'[s], inbox[s])
        /\ \A t \in Sessions \ {s} : inbox'[t] = inbox[t]
        /\ \A i \in 1..Len(inbox'[s]) :
             i + 1 \in 1..Len(inbox[s]) /\ inbox'[s][i] = inbox[s][i + 1]
        /\ Range(ready') \subseteq Range(ready) \cup {c \in Calls : IsReply(h) /\ c = h.call}
    BY <1>8, ReceiveEffect
  <2>3. \A t \in Sessions : Thins(inbox'[t], inbox[t])
    BY <2>2, ThinsSame DEF TypeOK
  <2>4. Owned(h, s) /\ Single(inbox[s])
    BY <2>2 DEF Frames
  <2> HIDE DEF h
  <2>5. ASSUME NEW t \in Sessions, NEW f \in Frame, Owned(f, t),
               \E i \in 1..Len(inbox'[t]) : inbox'[t][i] = f
        PROVE  Owned(f, t)'
    <3>1. IsReply(f) /\ IsReply(h) => f.call # h.call
      <4>1. CASE t = s
        <5>1. PICK i \in 1..Len(inbox'[s]) : inbox'[s][i] = f
          BY <2>5, <4>1
        <5>2. i + 1 \in 1..Len(inbox[s]) /\ f = inbox[s][i + 1] /\ i + 1 # 1
          BY <2>2, <5>1
        <5> QED
          BY <2>2, <2>4, <5>2 DEF Single, h
      <4>2. CASE t # s
        BY <2>4, <2>5, <4>2 DEF Owned
      <4> QED
        BY <4>1, <4>2
    <3> QED
      BY <2>1, <2>2, <2>5, <3>1, FrameFields DEF Owned, Waits
  <2> QED
    BY <2>2, <2>3, <2>5, KeptFrames
<1>9. ASSUME NEW c \in Calls, NoAnswer(c) PROVE Frames'
  <2>1. UNCHANGED <<pc, bound>>
    BY <1>9 DEF NoAnswer, localVars
  <2>2. /\ inbox' \in [Sessions -> Seq(Frame)] /\ \A s \in Sessions : Thins(inbox'[s], inbox[s])
        /\ \A s \in Sessions : RepliesTo(c, inbox'[s]) = {}
        /\ Range(ready') = Range(ready) \cup {c}
        /\ \A d \in Calls \ {c} : excuse'[d] = excuse[d]
    BY <1>9, TimeoutEffect
  <2>3. ASSUME NEW t \in Sessions, NEW f \in Frame, Owned(f, t),
               \E i \in 1..Len(inbox'[t]) : inbox'[t][i] = f
        PROVE  Owned(f, t)'
    <3>1. IsReply(f) => f.call # c
      BY <2>2, <2>3 DEF RepliesTo
    <3> QED
      BY <2>1, <2>2, <2>3, <3>1, FrameFields DEF Owned, Waits
  <2> QED
    BY <2>2, <2>3, KeptFrames
<1>10. CASE UNCHANGED vars
  BY <1>1, <1>10 DEF vars, localVars
<1> QED
  BY <1>2, <1>3, <1>4, <1>5, <1>6, <1>7, <1>8, <1>9, <1>10, StepCases DEF LinkSteps

LEMMA StepBound == GateInv /\ [Next]_vars => Bound'
<1> SUFFICES ASSUME GateInv, [Next]_vars PROVE Bound'
  OBVIOUS
<1> USE DEF GateInv
<1>1. CASE UNCHANGED <<pc, bound>>
  BY <1>1 DEF Bound
<1>2. ASSUME NEW c \in Calls,
             (\E k \in Kinds, s \in Sessions : Start(c, k, s)) \/ Resume(c) \/ Wake(c)
      PROVE  Bound'
  <2>1. /\ \A d \in Calls \ {c} : pc'[d] = pc[d] /\ bound'[d] = bound[d]
        /\ pc'[c] \notin Idle => bound'[c] \in Sessions
    BY <1>2, CallSteps, Moved
  <2> QED
    BY <2>1 DEF Bound
<1> QED
  BY <1>1, <1>2, StepCases, LinkFrame DEF vars, localVars

LEMMA StepExcused == GateInv /\ [Next]_vars => Excused'
<1> SUFFICES ASSUME GateInv, [Next]_vars PROVE Excused'
  OBVIOUS
<1> USE DEF GateInv
<1>1. ASSUME NEW c \in Calls,
             (\E k \in Kinds, s \in Sessions : Start(c, k, s)) \/ Resume(c) \/ Wake(c)
      PROVE  Excused'
  <2>1. UNCHANGED <<editor, connected>>
    BY <1>1, CallEffect
  <2>2. /\ \A d \in Calls \ {c} : /\ pc'[d] = pc[d] /\ bound'[d] = bound[d] /\ got'[d] = got[d]
                                  /\ excuse'[d] = excuse[d]
        /\ pc'[c] = "probing" => /\ bound'[c] \in connected /\ ~got'[c].ok
                                 /\ Busy(bound'[c]) => excuse'[c]
    BY <1>1, CallSteps, Moved
  <2>3. ASSUME NEW d \in Calls, pc'[d] = "probing"
        PROVE  /\ editor'[bound'[d]] \in Blocking => excuse'[d]
               /\ bound'[d] \notin connected' => excuse'[d]
               /\ got'[d].ok /\ got'[d].readiness \in Blocking => excuse'[d]
    <3>1. CASE d = c
      BY <2>1, <2>2, <2>3, <3>1 DEF Busy
    <3>2. CASE d # c
      <4>1. pc[d] = "probing"
        BY <2>2, <2>3, <3>2
      <4> QED
        BY <2>1, <2>2, <3>2, <4>1 DEF Excused, Busy
    <3> QED
      BY <3>1, <3>2
  <2> QED
    BY <2>3 DEF Excused, Busy
<1>2. ASSUME UNCHANGED <<pc, bound>>,
             \A c \in Calls : pc[c] = "probing" =>
               /\ excuse[c] => excuse'[c]
               /\ Busy(bound[c])' => Busy(bound[c]) \/ excuse'[c]
               /\ bound[c] \notin connected' => bound[c] \notin connected \/ excuse'[c]
               /\ got'[c].ok /\ got'[c].readiness \in Blocking =>
                    (got[c].ok /\ got[c].readiness \in Blocking) \/ excuse'[c]
      PROVE  Excused'
  <2>1. ASSUME NEW c \in Calls, pc'[c] = "probing"
        PROVE  /\ Busy(bound[c])' => excuse'[c]
               /\ bound'[c] \notin connected' => excuse'[c]
               /\ got'[c].ok /\ got'[c].readiness \in Blocking => excuse'[c]
    BY <1>2, <2>1 DEF Excused
  <2> QED
    BY <2>1 DEF Excused
<1>3. CASE UNCHANGED vars
  BY <1>2, <1>3 DEF vars, editorVars, localVars, Busy
<1>4. CASE LinkSteps
  <2>0. UNCHANGED <<pc, bound>> /\ \A c \in Calls : pc[c] = "probing" /\ excuse[c] => excuse'[c]
    BY <1>4, LinkFrame
  <2>1. ASSUME NEW s \in Sessions, NEW r \in Readiness, EditorChanges(s, r) PROVE Excused'
    <3>1. UNCHANGED <<got, connected>> /\ editor' = [editor EXCEPT ![s] = r]
          /\ \A c \in Calls : pc[c] = "probing" /\ bound[c] = s /\ r \in Blocking => excuse'[c]
      BY <2>1 DEF EditorChanges, localVars
    <3>2. ASSUME NEW c \in Calls, pc[c] = "probing", Busy(bound[c])'
          PROVE  Busy(bound[c]) \/ excuse'[c]
      <4>1. bound[c] \in Sessions /\ editor'[bound[c]] \in Blocking
        BY <2>0, <3>2 DEF Bound, Idle, Busy
      <4>2. CASE bound[c] = s
        BY <3>1, <3>2, <4>1, <4>2 DEF TypeOK
      <4>3. CASE bound[c] # s
        BY <3>1, <4>1, <4>3 DEF Busy, TypeOK
      <4> QED
        BY <4>2, <4>3
    <3> QED
      BY <1>2, <2>0, <3>1, <3>2
  <2>2. CASE UNCHANGED <<editor, got>> /\ connected \subseteq connected'
    BY <1>2, <2>0, <2>2 DEF Busy
  <2>3. ASSUME NEW s \in Sessions, Disconnect(s) PROVE Excused'
    <3>1. UNCHANGED <<editor, got>> /\ connected' = connected \ {s}
      BY <2>3 DEF Disconnect, localVars
    <3>2. \A c \in Calls : pc[c] = "probing" /\ bound[c] = s => excuse'[c]
      BY <2>3, DisconnectEffect
    <3> QED
      BY <1>2, <2>0, <3>1, <3>2 DEF Busy
  <2>4. ASSUME NEW s \in Sessions, Receive(s) PROVE Excused'
    <3> DEFINE h == inbox[s][1]
    <3>1. UNCHANGED <<editor, connected, excuse>>
      BY <2>4 DEF Receive, editorVars
    <3>2. /\ 1 \in 1..Len(inbox[s])
          /\ \A c \in Calls :
               \/ got'[c] = got[c]
               \/ IsReply(h) /\ c = h.call /\ (got'[c].ok => got'[c].readiness = h.readiness)
      BY <2>4, ReceiveEffect
    <3>3. Owned(h, s)
      BY <3>2 DEF Frames
    <3> HIDE DEF h
    <3>4. ASSUME NEW c \in Calls, pc[c] = "probing", got'[c].ok, got'[c].readiness \in Blocking
          PROVE  (got[c].ok /\ got[c].readiness \in Blocking) \/ excuse'[c]
      BY <3>1, <3>2, <3>3, <3>4 DEF Owned
    <3> QED
      BY <1>2, <2>0, <3>1, <3>4 DEF Busy
  <2> QED
    BY <1>4, <2>1, <2>2, <2>3, <2>4
       DEF LinkSteps, EditorTells, EditorAnswers, Connect, NoAnswer, editorVars, localVars
<1> QED
  BY <1>1, <1>3, <1>4, StepCases

LEMMA StepRefusal == GateInv /\ [Next]_vars => NoFalseRefusal'
<1> SUFFICES ASSUME GateInv, [Next]_vars PROVE NoFalseRefusal'
  OBVIOUS
<1> USE DEF GateInv
<1>1. CASE UNCHANGED vars
  BY <1>1 DEF NoFalseRefusal, vars, localVars
<1>2. CASE LinkSteps
  BY <1>2, LinkFrame DEF NoFalseRefusal
<1>3. ASSUME NEW c \in Calls,
             (\E k \in Kinds, s \in Sessions : Start(c, k, s)) \/ Resume(c) \/ Wake(c)
      PROVE  NoFalseRefusal'
  <2>1. /\ \A d \in Calls \ {c} : pc'[d] = pc[d] /\ excuse'[d] = excuse[d]
        /\ pc'[c] = "refused" => excuse'[c]
    BY <1>3, CallSteps, Moved
  <2> QED
    BY <2>1 DEF NoFalseRefusal
<1> QED
  BY <1>1, <1>2, <1>3, StepCases

LEMMA StepType == GateInv /\ [Next]_vars => TypeOK'
<1> SUFFICES ASSUME GateInv, [Next]_vars PROVE TypeOK'
  OBVIOUS
<1>1. CASE UNCHANGED vars
  BY <1>1 DEF GateInv, TypeOK, vars, editorVars, localVars
<1> QED
  BY <1>1, StepCases, LinkType, CallEffect

LEMMA Invariance == Spec => []GateInv
<1>1. GateInv /\ [Next]_vars => GateInv'
  BY StepType, StepBound, StepFrames, StepExcused, StepRefusal DEF GateInv
<1> QED
  BY <1>1, InitGate, PTL DEF Spec

-----------------------------------------------------------------------------
(* The theorems.                                                           *)

\* Calls, frames, futures and tasks keep their types: a reply that is no
\* longer awaited settles nothing.
THEOREM TypeCorrect == Spec => []TypeOK
<1>1. GateInv => TypeOK
  BY DEF GateInv
<1> QED
  BY <1>1, Invariance, PTL

\* The gate refuses only with a reason of the call's own (NoFalseRefusal),
\* whatever other calls and late frames write to the cache.
THEOREM RefusesWithReason == Spec => []NoFalseRefusal
<1>1. GateInv => NoFalseRefusal
  BY DEF GateInv
<1> QED
  BY <1>1, Invariance, PTL

\* A gated command goes to the session that was judged (SentWhereAllowed).
THEOREM SendsWhereAllowed == Spec => SentWhereAllowed
<1> DEFINE Allowed(c) ==
      pc[c] = "probing" /\ pc'[c] = "sent" =>
        \/ cache'[bound'[c]] \notin Blocking
        \/ kind[c].gate = "running_ok" /\ cache'[bound'[c]] = "playing"
<1>1. ASSUME GateInv, [Next]_vars, NEW c \in Calls, pc[c] = "probing", pc'[c] = "sent"
      PROVE  Allowed(c)
  <2> USE DEF GateInv
  <2>1. ~(LinkSteps \/ UNCHANGED vars)
    <3>1. pc' # pc
      BY <1>1
    <3>2. LinkSteps => UNCHANGED pc
      BY <1>1, LinkFrame
    <3>3. UNCHANGED vars => UNCHANGED pc
      BY DEF vars, localVars
    <3> QED
      BY <3>1, <3>2, <3>3
  <2>2. PICK d \in Calls : (\E k \in Kinds, s \in Sessions : Start(d, k, s)) \/ Resume(d) \/ Wake(d)
    BY <1>1, <2>1, StepCases
  <2>3. d = c
    BY <1>1, <2>2, CallSteps, Moved
  <2>4. ProbeReturns(c)
    BY <1>1, <2>2, <2>3 DEF Start, Resume, Wake, Idle
  <2> DEFINE s == bound[c]
             sn == IF s \in connected THEN cache'[s] ELSE snap[c]
  <2>5. ASSUME NEW st, NEW k, NEW t, NEW m, NEW r, Becomes(c, st, k, t, m, r)
        PROVE  st = "sent" /\ bound'[c] = t
    BY <1>1, <2>5 DEF Becomes, TypeOK
  <2>6. /\ sn \notin Blocking \/ PlayingIsFine(kind[c], got[c], sn)
        /\ SendTo(c, s, kind[c])
    <3>1. ~Becomes(c, "holding", kind[c], s, sn, left[c])
      BY <2>5
    <3>2. ~Ends(c, "refused", excuse[c] \/ ~got[c].ok)
      BY <2>5 DEF Ends
    <3> QED
      BY <2>4, <3>1, <3>2 DEF ProbeReturns
  <2>7. s \in connected /\ bound'[c] = s
    <3>1. ~Ends(c, "idle", FALSE)
      BY <2>5 DEF Ends
    <3>2. s \in connected
      BY <2>6, <3>1 DEF SendTo
    <3>3. Becomes(c, "sent", PastGate(kind[c]), s, SomeReady, 0)
      BY <2>6, <3>2 DEF SendTo
    <3> QED
      BY <2>5, <3>2, <3>3
  <2> QED
    BY <2>6, <2>7 DEF PlayingIsFine
<1>2. GateInv /\ [Next]_vars => [\A c \in Calls : Allowed(c)]_vars
  BY <1>1
<1> QED
  BY <1>2, Invariance, PTL DEF Spec, SentWhereAllowed

===============================================================================
