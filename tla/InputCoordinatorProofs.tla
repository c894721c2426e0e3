----------------------- MODULE InputCoordinatorProofs -----------------------
(***************************************************************************)
(* The input coordinator keeps its promises for every queue limit and any  *)
(* number of inputs.  The strengthening that makes them inductive says how *)
(* the queue, the dispatched and the discarded inputs partition the ingest *)
(* sequence, in order.                                                     *)
(***************************************************************************)
EXTENDS InputCoordinator, TLAPS

Elements(q) == {q[i] : i \in 1..Len(q)}

\* The inputs 1..n are split between a queue q, in increasing order, and the
\* inputs d and x that left it, all of them older than any in the queue.
Split(q, n, d, x) ==
  /\ q \in Seq(Nat)
  /\ d \subseteq Nat
  /\ x \subseteq Nat
  /\ 1..n = Elements(q) \cup d \cup x
  /\ d \cap x = {}
  /\ \A j, k \in 1..Len(q) : j < k => q[j] < q[k]
  /\ \A k \in 1..Len(q) : \A i \in d \cup x : i < q[k]

\* A shut-down engine that discards its inputs has none and accepts none.
DiscardingIsFinal ==
  discardQueuedInputs => queue = <<>> /\ ~intakeOpen

IInv ==
  /\ TypeOK
  /\ Split(queue, ingestSequence, dispatched, discarded)
  /\ DiscardingIsFinal
  /\ OverflowIsLatched
  /\ NothingStranded

-----------------------------------------------------------------------------
(* Lemmas about the queue *)

\* receiveAt pushes an input younger than all others.
LEMMA SplitAppend ==
  ASSUME NEW q, NEW n \in Nat, NEW d, NEW x, Split(q, n, d, x)
  PROVE  Split(Append(q, n + 1), n + 1, d, x)
<1> DEFINE r == Append(q, n + 1)
<1>1. q \in Seq(Nat) BY DEF Split
<1>2. r \in Seq(Nat) /\ Len(r) = Len(q) + 1 /\ Len(q) \in Nat BY <1>1
<1>3. \A k \in 1..Len(r) : r[k] = IF k = Len(q) + 1 THEN n + 1 ELSE q[k]
  BY <1>1, <1>2
<1>4. \A k \in 1..Len(q) : q[k] \in 1..n BY DEF Split, Elements
<1>5. Elements(r) = Elements(q) \cup {n + 1}
  <2>1. \A e \in Elements(r) : e \in Elements(q) \cup {n + 1}
    BY <1>2, <1>3 DEF Elements
  <2>2. \A k \in 1..Len(q) : k \in 1..Len(r) /\ r[k] = q[k] BY <1>2, <1>3
  <2>3. Len(r) \in 1..Len(r) /\ r[Len(r)] = n + 1 BY <1>2, <1>3
  <2> HIDE DEF r
  <2> QED BY <2>1, <2>2, <2>3 DEF Elements
<1>6. 1..(n + 1) = (1..n) \cup {n + 1} OBVIOUS
<1>7. \A j, k \in 1..Len(r) : j < k => r[j] < r[k]
  <2> SUFFICES ASSUME NEW j \in 1..Len(r), NEW k \in 1..Len(r), j < k
               PROVE  r[j] < r[k]
    OBVIOUS
  <2>1. j \in 1..Len(q) /\ r[j] = q[j] /\ q[j] \in 1..n
    <3>1. j \in 1..Len(q) BY <1>2
    <3> QED BY <3>1, <1>2, <1>3, <1>4
  <2>2. CASE k = Len(q) + 1 
    <3>1. r[k] = n + 1 BY <2>2, <1>3
    <3> QED BY <2>1, <3>1
  <2>3. CASE k # Len(q) + 1
    <3>1. k \in 1..Len(q) /\ r[k] = q[k] BY <2>3, <1>2, <1>3
    <3> QED BY <2>1, <3>1 DEF Split
  <2> QED BY <2>2, <2>3
<1>8. \A k \in 1..Len(r) : \A i \in d \cup x : i < r[k]
  <2>1. \A i \in d \cup x : i \in 1..n BY DEF Split
  <2> QED BY <1>2, <1>3, <2>1 DEF Split
<1> HIDE DEF r
<1>9. 1..(n + 1) = Elements(r) \cup d \cup x BY <1>5, <1>6 DEF Split
<1>10. Split(r, n + 1, d, x) BY <1>2, <1>7, <1>8, <1>9 DEF Split
<1> QED BY <1>10 DEF r

\* drainQueue shifts the oldest input and dispatches it.
LEMMA SplitTake ==
  ASSUME NEW q, NEW n \in Nat, NEW d, NEW x, Split(q, n, d, x), q # <<>>
  PROVE  /\ Split(Tail(q), n, d \cup {Head(q)}, x)
         /\ Head(q) \in 1..n
         /\ \A i \in d : i < Head(q)
         /\ \A k \in 1..Len(Tail(q)) : Head(q) < Tail(q)[k]
<1> DEFINE t == Tail(q)
           h == Head(q)
<1>1. q \in Seq(Nat) /\ Len(q) \in Nat \ {0} BY DEF Split
<1>2. t \in Seq(Nat) /\ Len(t) = Len(q) - 1 BY <1>1
<1>3. \A k \in 1..Len(t) : t[k] = q[k + 1] /\ k + 1 \in 1..Len(q) BY <1>1, <1>2
<1>4. h = q[1] /\ 1 \in 1..Len(q) /\ h \in Nat BY <1>1
<1>5. Elements(q) = Elements(t) \cup {h}
  <2>1. \A k \in 1..Len(q) : k = 1 \/ (k - 1 \in 1..Len(t) /\ t[k - 1] = q[k])
    BY <1>1, <1>2, <1>3
  <2> HIDE DEF t, h
  <2>2. \A e \in Elements(q) : e \in Elements(t) \cup {h}
    <3> SUFFICES ASSUME NEW k \in 1..Len(q), q[k] # h PROVE q[k] \in Elements(t)
      BY DEF Elements
    <3>1. k - 1 \in 1..Len(t) /\ t[k - 1] = q[k] BY <2>1, <1>4
    <3> QED BY <3>1 DEF Elements
  <2>3. \A e \in Elements(t) \cup {h} : e \in Elements(q)
    BY <1>3, <1>4 DEF Elements
  <2> QED BY <2>2, <2>3
<1>6. h \in 1..n BY <1>4 DEF Split, Elements
<1>7. \A i \in d \cup x : i < h BY <1>4 DEF Split
<1>8. \A k \in 1..Len(t) : h < t[k]
  <2>1. \A k \in 1..Len(t) : 1 < k + 1 BY <1>1, <1>2
  <2> QED BY <2>1, <1>3, <1>4 DEF Split
<1>9. \A j, k \in 1..Len(t) : j < k => t[j] < t[k]
  <2> SUFFICES ASSUME NEW j \in 1..Len(t), NEW k \in 1..Len(t), j < k
               PROVE  t[j] < t[k]
    OBVIOUS
  <2>1. j + 1 < k + 1 BY <1>1, <1>2
  <2> QED BY <2>1, <1>3 DEF Split
<1>10. \A k \in 1..Len(t) : \A i \in d \cup x : i < t[k] BY <1>3 DEF Split
<1> HIDE DEF t, h
<1>11. (d \cup {h}) \cap x = {}
  <2>1. h \notin x BY <1>7, <1>4
  <2> QED BY <2>1 DEF Split
<1>12. Split(t, n, d \cup {h}, x)
  <2>1. \A k \in 1..Len(t) : \A i \in (d \cup {h}) \cup x : i < t[k] BY <1>8, <1>10
  <2>2. 1..n = Elements(t) \cup (d \cup {h}) \cup x BY <1>5 DEF Split
  <2>3. d \cup {h} \subseteq Nat BY <1>4 DEF Split
  <2> QED BY <1>2, <1>9, <1>11, <2>1, <2>2, <2>3 DEF Split
<1> QED BY <1>6, <1>7, <1>8, <1>12 DEF t, h

\* A shutdown empties the queue into the discarded inputs.
LEMMA SplitDiscard ==
  ASSUME NEW q, NEW n \in Nat, NEW d, NEW x, Split(q, n, d, x)
  PROVE  Split(<<>>, n, d, x \cup Elements(q))
<1>1. Elements(<<>>) = {} /\ Len(<<>>) = 0 /\ <<>> \in Seq(Nat) BY DEF Elements
<1>2. q \in Seq(Nat) BY DEF Split
<1>3. Elements(q) \subseteq Nat BY <1>2 DEF Elements
<1>4. \A e \in Elements(q) : e \notin d
  <2> SUFFICES ASSUME NEW k \in 1..Len(q), q[k] \in d PROVE FALSE BY DEF Elements
  <2>1. q[k] < q[k] BY DEF Split
  <2>2. q[k] \in Nat BY <1>2
  <2> QED BY <2>1, <2>2
<1>5. d \cap (x \cup Elements(q)) = {} BY <1>4 DEF Split
<1>6. 1..n = Elements(<<>>) \cup d \cup (x \cup Elements(q)) BY <1>1 DEF Split
<1>7. \A k \in 1..Len(<<>>) : FALSE BY <1>1
<1> HIDE DEF Elements
<1> QED BY <1>1, <1>3, <1>5, <1>6, <1>7 DEF Split

-----------------------------------------------------------------------------
(* The drain loop *)

\* One pass of the loop keeps the split, and leaves the loop with inputs still
\* queued only at a cutover boundary.
LEMMA LoopStep ==
  ASSUME NEW q, NEW n \in Nat, NEW c, NEW b \in BOOLEAN,
         Split(q, n, dispatched, discarded), DrainLoop(q, c, b)
  PROVE  /\ Split(queue', n, dispatched', discarded')
         /\ draining' \in BOOLEAN /\ current' \in Nat /\ abandoned' = FALSE
         /\ draining' <=> current' # None
         /\ ~draining' /\ c = NoCutover => queue' = <<>>
         /\ Len(queue') <= Len(q)
         /\ q = <<>> => queue' = <<>> /\ ~draining'
<1>1. q \in Seq(Nat) /\ Len(q) \in Nat BY DEF Split
<1>2. CASE MayDequeue(q, c, b)
  <2>1. q # <<>> BY <1>2 DEF MayDequeue
  <2>2. /\ draining' = TRUE /\ current' = Head(q) /\ queue' = Tail(q)
        /\ dispatched' = dispatched \cup {Head(q)}
        /\ discarded' = discarded /\ abandoned' = FALSE
    BY <1>2 DEF DrainLoop, TakeNext, HandOver, LeaveLoop
  <2>3. Split(Tail(q), n, dispatched \cup {Head(q)}, discarded) /\ Head(q) \in 1..n
    BY <2>1, SplitTake
  <2>4. Head(q) \in Nat /\ Head(q) # None BY <2>3 DEF None
  <2>5. Len(Tail(q)) <= Len(q) BY <1>1, <2>1
  <2> QED BY <2>1, <2>2, <2>3, <2>4, <2>5
<1>3. CASE ~MayDequeue(q, c, b)
  <2>1. /\ draining' = FALSE /\ current' = None /\ abandoned' = FALSE
        /\ queue' = (IF b THEN <<>> ELSE q) /\ dispatched' = dispatched
        /\ discarded' = IF b THEN discarded \cup Elements(q) ELSE discarded
    BY <1>3 DEF DrainLoop, LeaveLoop, Elements
  <2>2. Split(queue', n, dispatched', discarded')
    <3>1. Split(<<>>, n, dispatched, discarded \cup Elements(q)) BY SplitDiscard
    <3> QED BY <2>1, <3>1
  <2>3. c = NoCutover => queue' = <<>> BY <1>3, <2>1 DEF MayDequeue
  <2>4. Len(queue') <= Len(q) BY <1>1, <2>1
  <2> QED BY <2>1, <2>2, <2>3, <2>4 DEF None
<1> QED BY <1>2, <1>3

\* drainQueue, as every operation calls it, after the queue became q.
LEMMA DrainStep ==
  ASSUME NEW q, NEW n \in Nat, NEW c, NEW b \in BOOLEAN, TypeOK,
         Split(q, n, dispatched, discarded), DrainQueue(q, c, b)
  PROVE  /\ Split(queue', n, dispatched', discarded')
         /\ draining' \in BOOLEAN /\ current' \in Nat /\ abandoned' \in BOOLEAN
         /\ draining' <=> current' # None
         /\ draining => draining'
         /\ ~draining' /\ c = NoCutover => queue' = <<>>
         /\ Len(queue') <= Len(q)
         /\ q = <<>> => queue' = <<>>
<1>1. CASE draining
  <2>1. Len(q) \in Nat BY DEF Split
  <2> QED BY <1>1, <2>1 DEF DrainQueue, TypeOK
<1>2. CASE ~draining
  <2>1. DrainLoop(q, c, b) BY <1>2 DEF DrainQueue
  <2> QED BY <1>2, <2>1, LoopStep
<1> QED BY <1>1, <1>2

-----------------------------------------------------------------------------
(* The inductive invariant *)

\* A coordinator just created satisfies the invariant.
LEMMA InitIInv == Init => IInv
<1> SUFFICES ASSUME Init PROVE IInv
  OBVIOUS
<1>1. TypeOK
  <2>1. <<>> \in Seq(Nat) /\ 0 \in Nat OBVIOUS
  <2> QED BY <2>1 DEF Init, TypeOK, None
<1>2. Split(queue, ingestSequence, dispatched, discarded)
  <2>1. Len(<<>>) = 0 /\ Elements(<<>>) = {} /\ <<>> \in Seq(Nat) BY DEF Elements
  <2> QED BY <2>1 DEF Init, Split
<1>3. DiscardingIsFinal /\ OverflowIsLatched /\ NothingStranded
  BY DEF Init, DiscardingIsFinal, OverflowIsLatched, NothingStranded, NoCutover, Within
<1> QED BY <1>1, <1>2, <1>3 DEF IInv

\* Every operation of the coordinator, and every return from a handler, keeps it.
LEMMA NextIInv == IInv /\ [Next]_vars => IInv'
<1> SUFFICES ASSUME IInv, [Next]_vars PROVE IInv'
  OBVIOUS
<1> USE ConstantsAssumption DEF IInv
<1>t. /\ ingestSequence \in Nat /\ discardQueuedInputs \in BOOLEAN
      /\ queue \in Seq(Nat) /\ Len(queue) \in Nat
  BY DEF TypeOK
<1>1. CASE Receive
  <2> DEFINE q == Append(queue, ingestSequence + 1)
  <2>1. /\ intakeOpen /\ ingestSequence' = ingestSequence + 1
        /\ NoteRecoveryQueueSize(q)
        /\ DrainQueue(q, recoveryCutover, discardQueuedInputs)
        /\ UNCHANGED <<intakeOpen, discardQueuedInputs, closing, shutdown>>
    BY <1>1 DEF Receive
  <2>2. Split(q, ingestSequence + 1, dispatched, discarded) BY <1>t, SplitAppend
  <2>3. Len(q) \in Nat BY <1>t
  <2> HIDE DEF q
  <2>4. /\ Split(queue', ingestSequence', dispatched', discarded')
        /\ draining' \in BOOLEAN /\ current' \in Nat /\ abandoned' \in BOOLEAN
        /\ draining' <=> current' # None
        /\ draining => draining'
        /\ ~draining' /\ recoveryCutover = NoCutover => queue' = <<>>
        /\ Len(queue') <= Len(q)
    BY <1>t, <2>1, <2>2, DrainStep
  <2>5. Len(queue') \in Nat /\ queue' \in Seq(Nat) BY <2>4 DEF Split
  <2>6. recoveryCutover' = IF recoveryCutover # NoCutover /\ Len(q) > QueueLimit
                           THEN Overflowed ELSE recoveryCutover
    BY <2>1 DEF NoteRecoveryQueueSize
  <2>7. TypeOK' BY <1>t, <2>1, <2>4, <2>5, <2>6 DEF TypeOK, Split
  <2>8. DiscardingIsFinal' BY <2>1 DEF DiscardingIsFinal
  <2>9. OverflowIsLatched'
    BY <2>3, <2>4, <2>5, <2>6 DEF OverflowIsLatched, NoCutover, Within, Overflowed
  <2>10. NothingStranded'
    BY <2>4, <2>6 DEF NothingStranded, NoCutover, Overflowed
  <2> QED BY <2>4, <2>7, <2>8, <2>9, <2>10
<1>2. CASE DispatchReturns
  <2>1. /\ DrainLoop(queue, recoveryCutover, discardQueuedInputs)
        /\ CloseAfterLoop
        /\ UNCHANGED <<ingestSequence, intakeOpen, discardQueuedInputs, recoveryCutover>>
    BY <1>2 DEF DispatchReturns
  <2>2. /\ Split(queue', ingestSequence, dispatched', discarded')
        /\ draining' \in BOOLEAN /\ current' \in Nat /\ abandoned' = FALSE
        /\ draining' <=> current' # None
        /\ ~draining' /\ recoveryCutover = NoCutover => queue' = <<>>
        /\ Len(queue') <= Len(queue)
        /\ queue = <<>> => queue' = <<>>
    BY <1>t, <2>1, LoopStep
  <2>3. Len(queue') \in Nat BY <2>2 DEF Split
  <2>4. TypeOK' BY <1>t, <2>1, <2>2 DEF TypeOK, CloseAfterLoop, Split
  <2>5. DiscardingIsFinal' BY <2>1, <2>2 DEF DiscardingIsFinal
  <2>6. OverflowIsLatched' BY <1>t, <2>1, <2>2, <2>3 DEF OverflowIsLatched
  <2>7. NothingStranded' BY <2>1, <2>2 DEF NothingStranded
  <2> QED BY <2>1, <2>2, <2>4, <2>5, <2>6, <2>7
<1>3. CASE DispatchThrows
  <2>1. Split(queue', ingestSequence', dispatched', discarded')
    <3>1. Split(<<>>, ingestSequence, dispatched, discarded \cup Elements(queue))
      BY <1>t, SplitDiscard
    <3> QED BY <1>3, <3>1 DEF DispatchThrows, Queued, Elements
  <2>2. TypeOK'
    BY <1>3, <1>t, <2>1 DEF DispatchThrows, TypeOK, None, Split
  <2>3. DiscardingIsFinal' BY <1>3 DEF DispatchThrows, DiscardingIsFinal
  <2>4. OverflowIsLatched' BY <1>3 DEF DispatchThrows, OverflowIsLatched
  <2>5. NothingStranded' BY <1>3 DEF DispatchThrows, NothingStranded
  <2> QED BY <2>1, <2>2, <2>3, <2>4, <2>5
<1>4. CASE BeginRecoveryCutover
  <2>1. TypeOK' BY <1>4 DEF BeginRecoveryCutover, TypeOK
  <2>2. OverflowIsLatched'
    BY <1>4, <1>t DEF BeginRecoveryCutover, OverflowIsLatched, Within, Overflowed
  <2>3. NothingStranded'
    BY <1>4 DEF BeginRecoveryCutover, NothingStranded, NoCutover, Within, Overflowed
  <2> QED BY <1>4, <2>1, <2>2, <2>3 DEF BeginRecoveryCutover, DiscardingIsFinal
<1>5. CASE CommitCutover \/ AbortCutover
  <2>1. /\ recoveryCutover' = NoCutover
        /\ DrainQueue(queue, NoCutover, discardQueuedInputs)
        /\ UNCHANGED <<ingestSequence, intakeOpen, discardQueuedInputs, closing, shutdown>>
    BY <1>5 DEF CommitCutover, AbortCutover, FinalizeCutover
  <2>2. /\ Split(queue', ingestSequence, dispatched', discarded')
        /\ draining' \in BOOLEAN /\ current' \in Nat /\ abandoned' \in BOOLEAN
        /\ draining' <=> current' # None
        /\ draining => draining'
        /\ ~draining' => queue' = <<>>
        /\ queue = <<>> => queue' = <<>>
    BY <1>t, <2>1, DrainStep
  <2>3. TypeOK' BY <2>1, <2>2 DEF TypeOK, Split
  <2>4. DiscardingIsFinal' BY <2>1, <2>2 DEF DiscardingIsFinal
  <2>5. OverflowIsLatched' BY <2>1 DEF OverflowIsLatched, NoCutover, Within
  <2>6. NothingStranded' BY <2>2 DEF NothingStranded
  <2> QED BY <2>1, <2>2, <2>3, <2>4, <2>5, <2>6
<1>6. CASE OpenIntake
  BY <1>6 DEF OpenIntake, TypeOK, DiscardingIsFinal, OverflowIsLatched, NothingStranded
<1>7. CASE CloseInterrupted
  <2>1. Split(queue', ingestSequence', dispatched', discarded')
    <3>1. Split(<<>>, ingestSequence, dispatched, discarded \cup Elements(queue))
      BY <1>t, SplitDiscard
    <3> QED BY <1>7, <3>1 DEF CloseInterrupted, Queued, Elements
  <2>2. TypeOK' BY <1>7, <2>1 DEF CloseInterrupted, TypeOK, Split
  <2>3. OverflowIsLatched'
    BY <1>7, <1>t DEF CloseInterrupted, OverflowIsLatched
  <2> QED BY <1>7, <2>1, <2>2, <2>3
          DEF CloseInterrupted, DiscardingIsFinal, NothingStranded
<1>8. CASE CloseAndDrain
  <2>1. /\ recoveryCutover = NoCutover /\ intakeOpen' = FALSE
        /\ DrainLoop(queue, recoveryCutover, discardQueuedInputs)
        /\ closing' = draining'
        /\ shutdown' = IF draining' THEN shutdown ELSE "drained"
        /\ UNCHANGED <<ingestSequence, discardQueuedInputs, recoveryCutover>>
    BY <1>8 DEF CloseAndDrain
  <2>2. /\ Split(queue', ingestSequence, dispatched', discarded')
        /\ draining' \in BOOLEAN /\ current' \in Nat /\ abandoned' = FALSE
        /\ draining' <=> current' # None
        /\ ~draining' => queue' = <<>>
        /\ queue = <<>> => queue' = <<>>
    BY <1>t, <2>1, LoopStep
  <2>3. TypeOK' BY <1>t, <2>1, <2>2 DEF TypeOK, Split
  <2>4. DiscardingIsFinal' BY <2>1, <2>2 DEF DiscardingIsFinal
  <2>5. OverflowIsLatched' BY <2>1 DEF OverflowIsLatched, NoCutover, Within
  <2>6. NothingStranded' BY <2>2 DEF NothingStranded
  <2> QED BY <2>1, <2>2, <2>3, <2>4, <2>5, <2>6
<1>9. CASE UNCHANGED vars
  BY <1>9 DEF vars, TypeOK, DiscardingIsFinal, OverflowIsLatched, NothingStranded
<1> QED
  BY <1>1, <1>2, <1>3, <1>4, <1>5, <1>6, <1>7, <1>8, <1>9 DEF Next

\* The strengthened invariant holds throughout: the ingest sequence stays split,
\* in order, between the queue and the inputs that left it.
THEOREM Invariance == Spec => []IInv
<1> QED BY InitIInv, NextIInv, PTL DEF Spec

-----------------------------------------------------------------------------
(* What follows from it *)

\* The variables keep their types and the drain loop is on the call stack
\* exactly while an input is being dispatched.
THEOREM TypeCorrect == Spec => []TypeOK
<1>1. IInv => TypeOK BY DEF IInv
<1> QED BY <1>1, Invariance, PTL

\* Every accepted input is waiting, dispatched or discarded: reentrancy, a
\* throwing handler, a cutover or a shutdown makes none of them vanish.
THEOREM NoneLost == Spec => []NoInputLost
<1>1. IInv => NoInputLost BY DEF IInv, Split, NoInputLost, Queued, Elements
<1> QED BY <1>1, Invariance, PTL

\* No input is in two of those states at once.
THEOREM NoneTwice == Spec => []FatesDisjoint
<1>1. IInv => FatesDisjoint
  <2> SUFFICES ASSUME IInv PROVE FatesDisjoint
    OBVIOUS
  <2>1. dispatched \cap discarded = {} BY DEF IInv, Split
  <2>2. ASSUME NEW k \in 1..Len(queue), queue[k] \in dispatched \cup discarded
        PROVE  FALSE
    <3>1. queue[k] \in Nat /\ queue[k] < queue[k] BY <2>2 DEF IInv, TypeOK, Split
    <3> QED BY <3>1
  <2>3. \A e \in Queued : e \notin dispatched /\ e \notin discarded
    BY <2>2 DEF Queued
  <2> QED BY <2>1, <2>3 DEF FatesDisjoint
<1> QED BY <1>1, Invariance, PTL

\* A cutover that held more than the limit can no longer be committed.
THEOREM OverflowLatched == Spec => []OverflowIsLatched
<1>1. IInv => OverflowIsLatched BY DEF IInv
<1> QED BY <1>1, Invariance, PTL

\* Inputs are left in the queue of an idle coordinator only by a thrown error.
THEOREM NoneStranded == Spec => []NothingStranded
<1>1. IInv => NothingStranded BY DEF IInv
<1> QED BY <1>1, Invariance, PTL

\* Inputs are dispatched in the order in which they were ingested.
THEOREM InOrder == Spec => DispatchInIngestOrder
<1> DEFINE Older == \A i \in dispatched' \ dispatched :
                      /\ \A d \in dispatched : d < i
                      /\ \A k \in 1..Len(queue') : i < queue'[k]
<1>1. ASSUME NEW q, NEW n \in Nat, NEW c, NEW b \in BOOLEAN,
             Split(q, n, dispatched, discarded), DrainQueue(q, c, b) \/ DrainLoop(q, c, b)
      PROVE  Older
  <2>1. CASE dispatched' = dispatched
    BY <2>1
  <2>2. CASE dispatched' # dispatched
    <3>1. /\ q # <<>> /\ queue' = Tail(q)
          /\ dispatched' = dispatched \cup {Head(q)}
      BY <1>1, <2>2 DEF DrainQueue, DrainLoop, TakeNext, HandOver, LeaveLoop, MayDequeue
    <3>2. /\ \A d \in dispatched : d < Head(q)
          /\ \A k \in 1..Len(Tail(q)) : Head(q) < Tail(q)[k]
      BY <1>1, <3>1, SplitTake
    <3> QED BY <3>1, <3>2
  <2> QED BY <2>1, <2>2
<1>2. IInv /\ [Next]_vars => [Older]_vars
  <2> SUFFICES ASSUME IInv, Next PROVE Older
    BY DEF vars
  <2>1. /\ ingestSequence \in Nat /\ discardQueuedInputs \in BOOLEAN
        /\ Split(queue, ingestSequence, dispatched, discarded)
    BY DEF IInv, TypeOK
  <2>2. CASE Receive
    <3>1. Split(Append(queue, ingestSequence + 1), ingestSequence + 1,
                dispatched, discarded)
      BY <2>1, SplitAppend
    <3>2. DrainQueue(Append(queue, ingestSequence + 1), recoveryCutover,
                     discardQueuedInputs)
      BY <2>2 DEF Receive
    <3>3. ingestSequence + 1 \in Nat BY <2>1
    <3> HIDE DEF Older
    <3> QED BY <2>1, <3>1, <3>2, <3>3, <1>1
  <2>3. CASE DispatchReturns \/ CloseAndDrain
    <3>1. DrainLoop(queue, recoveryCutover, discardQueuedInputs)
      BY <2>3 DEF DispatchReturns, CloseAndDrain
    <3> HIDE DEF Older
    <3> QED BY <2>1, <3>1, <1>1
  <2>4. CASE CommitCutover \/ AbortCutover
    <3>1. DrainQueue(queue, NoCutover, discardQueuedInputs)
      BY <2>4 DEF CommitCutover, AbortCutover, FinalizeCutover
    <3> HIDE DEF Older
    <3> QED BY <2>1, <3>1, <1>1
  <2>5. CASE dispatched' = dispatched
    BY <2>5
  <2>6. DispatchThrows \/ BeginRecoveryCutover \/ OpenIntake \/ CloseInterrupted
          => dispatched' = dispatched
    BY DEF DispatchThrows, BeginRecoveryCutover, OpenIntake, CloseInterrupted
  <2> QED BY <2>2, <2>3, <2>4, <2>5, <2>6 DEF Next
<1> QED BY <1>2, Invariance, PTL DEF Spec, DispatchInIngestOrder

\* No input is lost or handled twice.
THEOREM OneFate == Spec => []EachInputOnce
<1>1. NoInputLost /\ FatesDisjoint => EachInputOnce BY DEF EachInputOnce
<1> QED BY <1>1, NoneLost, NoneTwice, PTL

\* While a recovery cutover owns the dequeue boundary no input is dispatched.
THEOREM CutoverOwnsDequeue == Spec => NoDispatchDuringCutover
<1>1. [Next]_vars => [dispatched' # dispatched => recoveryCutover' = NoCutover]_vars
  <2> SUFFICES ASSUME Next, dispatched' # dispatched
               PROVE  recoveryCutover' = NoCutover
    BY DEF vars
  <2>1. ASSUME NEW q, NEW c, NEW b, DrainQueue(q, c, b) \/ DrainLoop(q, c, b)
        PROVE  c = NoCutover
    BY <2>1 DEF DrainQueue, DrainLoop, TakeNext, HandOver, LeaveLoop, MayDequeue
  <2>2. CASE Receive
    <3>1. recoveryCutover = NoCutover BY <2>1, <2>2 DEF Receive
    <3> QED BY <2>2, <3>1 DEF Receive, NoteRecoveryQueueSize
  <2>3. CASE DispatchReturns \/ CloseAndDrain
    BY <2>1, <2>3 DEF DispatchReturns, CloseAndDrain
  <2>4. CASE CommitCutover \/ AbortCutover
    BY <2>4 DEF CommitCutover, AbortCutover, FinalizeCutover
  <2>5. DispatchThrows \/ BeginRecoveryCutover \/ OpenIntake \/ CloseInterrupted
          => dispatched' = dispatched
    BY DEF DispatchThrows, BeginRecoveryCutover, OpenIntake, CloseInterrupted
  <2> QED BY <2>2, <2>3, <2>4, <2>5 DEF Next
<1> QED BY <1>1, PTL DEF Spec, NoDispatchDuringCutover

\* The latch of an overflow is released only by the end of the cutover.
LEMMA OverflowStays ==
  ASSUME [Next]_vars, recoveryCutover = Overflowed
  PROVE  recoveryCutover' \in {Overflowed, NoCutover}
<1>1. CASE Receive
  BY <1>1 DEF Receive, NoteRecoveryQueueSize
<1>2. CASE CommitCutover \/ AbortCutover
  BY <1>2 DEF CommitCutover, AbortCutover, FinalizeCutover
<1>3. BeginRecoveryCutover => recoveryCutover = NoCutover /\ NoCutover # Overflowed
  BY DEF BeginRecoveryCutover, NoCutover, Overflowed
<1>4. \/ DispatchReturns \/ DispatchThrows \/ OpenIntake
      \/ CloseInterrupted \/ CloseAndDrain \/ UNCHANGED vars
      => recoveryCutover' = recoveryCutover
  BY DEF DispatchReturns, DispatchThrows, OpenIntake, CloseInterrupted, CloseAndDrain, vars
<1> QED BY <1>1, <1>2, <1>3, <1>4 DEF Next

\* An open cutover owns the dequeue boundary, and once it has held more than its
\* limit nothing short of its end makes it committable again.
THEOREM CutoverOwnsQueue == Spec => CutoverHolds
<1>1. [Next]_vars => [recoveryCutover = Overflowed
                        => recoveryCutover' \in {Overflowed, NoCutover}]_vars
  BY OverflowStays
<1>2. Spec => OverflowNeverClears
  BY <1>1, PTL DEF Spec, OverflowNeverClears
<1> QED BY <1>2, CutoverOwnsDequeue, OverflowLatched DEF CutoverHolds

\* A pass of the drain loop goes on, empties the queue or finds a cutover open.
LEMMA LoopEnds ==
  ASSUME NEW q \in Seq(Nat), NEW cutover, NEW discard \in BOOLEAN,
         DrainLoop(q, cutover, discard)
  PROVE  draining' \/ queue' = <<>> \/ cutover # NoCutover
BY DEF DrainLoop, MayDequeue, TakeNext, HandOver, LeaveLoop

\* The shutdown on which the engine closes its session as clean leaves no input
\* behind, whatever its handlers delivered, closed or threw in the meantime.
THEOREM DrainedLeavesNothing == Spec => DrainedMeansEmpty
<1> DEFINE Answered == shutdown' = "drained" /\ (closing \/ shutdown # "drained")
           Done == draining' \/ queue' = <<>> \/ recoveryCutover' # NoCutover
<1>1. ASSUME TypeOK, Next PROVE Answered => Done
  <2> SUFFICES ASSUME Answered PROVE Done
    OBVIOUS
  <2>1. /\ queue \in Seq(Nat) /\ discardQueuedInputs \in BOOLEAN
        /\ draining \in BOOLEAN
        /\ closing => draining
    BY <1>1 DEF TypeOK
  <2>a. ASSUME NEW q, NEW cutover, NEW discard, UNCHANGED shutdown,
               DrainQueue(q, cutover, discard)
        PROVE  draining'
    <3>1. draining BY <2>1, <2>a
    <3>2. UNCHANGED <<draining, current, dispatched, discarded, abandoned>>
      BY ONLY <2>a, <3>1 DEF DrainQueue
    <3>3. draining' = draining BY ONLY <3>2
    <3> QED BY ONLY <3>1, <3>3
  <2>2. CASE Receive
    BY <2>a, <2>2 DEF Receive
  <2>3. CASE CommitCutover \/ AbortCutover
    BY <2>a, <2>3 DEF CommitCutover, AbortCutover, FinalizeCutover
  <2>4. CASE DispatchReturns
    <3>1. draining' \/ queue' = <<>> \/ recoveryCutover # NoCutover
      BY <2>1, <2>4, LoopEnds DEF DispatchReturns
    <3> QED BY <2>4, <3>1 DEF DispatchReturns
  <2>5. CASE CloseAndDrain
    <3>1. draining' \/ queue' = <<>> \/ recoveryCutover # NoCutover
      BY <2>1, <2>5, LoopEnds DEF CloseAndDrain
    <3> QED BY <2>5, <3>1 DEF CloseAndDrain
  <2>6. CASE BeginRecoveryCutover
    BY <2>1, <2>6 DEF BeginRecoveryCutover, NoCutover, Within, Overflowed
  <2>7. ~DispatchThrows /\ ~OpenIntake /\ ~CloseInterrupted
    BY DEF DispatchThrows, OpenIntake, CloseInterrupted
  <2> QED BY <1>1, <2>2, <2>3, <2>4, <2>5, <2>6, <2>7 DEF Next
<1>2. TypeOK /\ [Next]_vars => [Answered => Done]_vars
  BY <1>1
<1> QED BY <1>2, TypeCorrect, PTL DEF Spec, DrainedMeansEmpty
=============================================================================
