-------------------------- MODULE InputCoordinator --------------------------
(***************************************************************************)
(* The room input coordinator serializes everything that reaches the room  *)
(* engine: adapter events and timer callbacks.  JavaScript runs one call   *)
(* at a time, so the interleavings are those of REENTRANT calls: while an  *)
(* input is being dispatched its handler may deliver further inputs, begin *)
(* or finish a recovery cutover, or shut the engine down.                  *)
(*                                                                         *)
(* An input is represented by its ingest sequence number; its payload and  *)
(* its receivedAt are irrelevant to the coordinator.  One step of the      *)
(* model is one call of the coordinator up to the point where it hands an  *)
(* input to the handler, or one return from the handler.                   *)
(*                                                                         *)
(* Operators introduced as mutants are plausible bugs that the properties  *)
(* below must catch; nothing in the specification uses them.               *)
(***************************************************************************)
EXTENDS Naturals, Sequences

CONSTANTS
  QueueLimit,     \* storageRecoveryQueueLimit: inputs a cutover may hold back
  MaxInputs,      \* bound on the inputs ever received
  MayThrow        \* whether a handler may throw out of the drain loop

ASSUME ConstantsAssumption ==
  /\ QueueLimit \in Nat
  /\ MaxInputs \in Nat
  /\ MayThrow \in BOOLEAN

VARIABLES
  queue,                \* inputs waiting to be dispatched, oldest first
  ingestSequence,       \* number of the last input accepted
  draining,             \* the drain loop is on the call stack
  current,              \* the input being dispatched, None outside the loop
  intakeOpen,
  discardQueuedInputs,
  recoveryCutover,      \* the active cutover, or NoCutover
  closing,              \* a closeIntakeAndDrain is waiting for its drain
  shutdown,             \* what the last closeIntakeAndDrain answered
  dispatched,           \* history: inputs handed to the handler
  discarded,            \* history: inputs dropped by an interrupted shutdown
  abandoned             \* history: the last drain was cut short by a throw

vars == <<queue, ingestSequence, draining, current, intakeOpen,
          discardQueuedInputs, recoveryCutover, closing, shutdown,
          dispatched, discarded, abandoned>>

None == 0
NoCutover == "none"
Within == "within"           \* active, the queue limit never exceeded
Overflowed == "overflowed"   \* active, the limit was exceeded once (latched)

Queued == {queue[i] : i \in 1..Len(queue)}

Init ==
  /\ queue = <<>>
  /\ ingestSequence = 0
  /\ draining = FALSE
  /\ current = None
  /\ intakeOpen = TRUE
  /\ discardQueuedInputs = FALSE
  /\ recoveryCutover = NoCutover
  /\ closing = FALSE
  /\ shutdown = "none"
  /\ dispatched = {}
  /\ discarded = {}
  /\ abandoned = FALSE

-----------------------------------------------------------------------------
(* drainQueue *)

\* Mutants of MayDequeue: the cutover does not hold the loop; closing stops it.
DequeuesInCutover(q, cutover, discard) == q # <<>> /\ ~discard
DequeuesWhileOpen(q, cutover, discard) ==
  q # <<>> /\ cutover = NoCutover /\ ~discard /\ intakeOpen

\* The loop condition, for a queue, a cutover and a discard flag.
MayDequeue(q, cutover, discard) ==
  q # <<>> /\ cutover = NoCutover /\ ~discard

HandOver(i, q) ==
  /\ draining' = TRUE
  /\ current' = i
  /\ queue' = q
  /\ dispatched' = dispatched \cup {i}
  /\ abandoned' = FALSE
  /\ UNCHANGED discarded

\* Mutant of TakeNext: the newest input first.
TakeNewest(q) == HandOver(q[Len(q)], SubSeq(q, 1, Len(q) - 1))

\* The oldest input goes to the handler.
TakeNext(q) == HandOver(Head(q), Tail(q))

\* The finally block empties the queue of a shut-down engine.
LeaveLoop(q, discard) ==
  /\ draining' = FALSE
  /\ current' = None
  /\ queue' = IF discard THEN <<>> ELSE q
  /\ discarded' = IF discard
                  THEN discarded \cup {q[i] : i \in 1..Len(q)}
                  ELSE discarded
  /\ abandoned' = FALSE
  /\ UNCHANGED dispatched

\* One pass of the loop.
DrainLoop(q, cutover, discard) ==
  \/ MayDequeue(q, cutover, discard) /\ TakeNext(q)
  \/ ~MayDequeue(q, cutover, discard) /\ LeaveLoop(q, discard)

\* Mutant of DrainQueue: an input that arrives inside the loop is dropped.
ReentrantInputLost(q, cutover, discard) ==
  \/ draining /\ UNCHANGED <<queue, draining, current, dispatched, discarded, abandoned>>
  \/ ~draining /\ DrainLoop(q, cutover, discard)

\* A call of drainQueue after the queue became q: a no-op inside the loop.
DrainQueue(q, cutover, discard) ==
  \/ /\ draining
     /\ queue' = q
     /\ UNCHANGED <<draining, current, dispatched, discarded, abandoned>>
  \/ /\ ~draining
     /\ DrainLoop(q, cutover, discard)

\* closeIntakeAndDrain answers "drained" once the drain it started is over,
\* whatever a reentrant call of it answered in the meantime.
CloseAfterLoop ==
  /\ closing' = (closing /\ draining')
  /\ shutdown' = IF closing /\ ~draining' THEN "drained" ELSE shutdown

-----------------------------------------------------------------------------
(* Inputs *)

\* noteRecoveryQueueSize: the overflow latches.
NoteRecoveryQueueSize(q) ==
  recoveryCutover' = IF recoveryCutover # NoCutover /\ Len(q) > QueueLimit
                     THEN Overflowed ELSE recoveryCutover

\* receiveAt and receiveTimer with the intake open.  With the intake closed
\* both return at once and nothing changes.
Receive ==
  /\ ingestSequence < MaxInputs
  /\ intakeOpen
  /\ ingestSequence' = ingestSequence + 1
  /\ LET q == Append(queue, ingestSequence + 1)
     IN  /\ NoteRecoveryQueueSize(q)
         /\ DrainQueue(q, recoveryCutover, discardQueuedInputs)
  /\ UNCHANGED <<intakeOpen, discardQueuedInputs, closing, shutdown>>

\* The handler of the current input returns to the loop.
DispatchReturns ==
  /\ current # None
  /\ DrainLoop(queue, recoveryCutover, discardQueuedInputs)
  /\ CloseAfterLoop
  /\ UNCHANGED <<ingestSequence, intakeOpen, discardQueuedInputs, recoveryCutover>>

\* The handler throws: only the finally block runs, and the exception leaves
\* through whichever call had started the drain.
DispatchThrows ==
  /\ MayThrow
  /\ current # None
  /\ draining' = FALSE
  /\ current' = None
  /\ queue' = IF discardQueuedInputs THEN <<>> ELSE queue
  /\ discarded' = IF discardQueuedInputs THEN discarded \cup Queued ELSE discarded
  /\ abandoned' = TRUE
  /\ closing' = FALSE
  /\ shutdown' = IF closing THEN "none" ELSE shutdown
  /\ UNCHANGED <<ingestSequence, intakeOpen, discardQueuedInputs,
                 recoveryCutover, dispatched>>

-----------------------------------------------------------------------------
(* Recovery cutover.  A finished token is inert: its commit and abort return *)
(* at the finalized test, so only the active token is modelled.              *)

BeginRecoveryCutover ==
  /\ recoveryCutover = NoCutover
  /\ recoveryCutover' = IF Len(queue) > QueueLimit THEN Overflowed ELSE Within
  /\ UNCHANGED <<queue, ingestSequence, draining, current, intakeOpen,
                 discardQueuedInputs, closing, shutdown,
                 dispatched, discarded, abandoned>>

\* Mutant of FinalizeCutover: what the cutover held back is not drained.
FinalizeWithoutDrain ==
  /\ recoveryCutover' = NoCutover
  /\ UNCHANGED <<queue, ingestSequence, draining, current, intakeOpen,
                 discardQueuedInputs, closing, shutdown,
                 dispatched, discarded, abandoned>>

\* The part commit and abort share: release the boundary and drain.
FinalizeCutover ==
  /\ recoveryCutover' = NoCutover
  /\ DrainQueue(queue, NoCutover, discardQueuedInputs)
  /\ UNCHANGED <<ingestSequence, intakeOpen, discardQueuedInputs, closing, shutdown>>

\* commit throws, changing nothing, when the cutover has overflowed.
CommitCutover ==
  /\ recoveryCutover = Within
  /\ FinalizeCutover

AbortCutover ==
  /\ recoveryCutover # NoCutover
  /\ FinalizeCutover

-----------------------------------------------------------------------------
(* Shutdown and restart *)

OpenIntake ==
  /\ intakeOpen' = TRUE
  /\ discardQueuedInputs' = FALSE
  /\ shutdown' = "none"
  /\ UNCHANGED <<queue, ingestSequence, draining, current, recoveryCutover, closing,
                 dispatched, discarded, abandoned>>

\* A cutover or a drain on the call stack cannot be finished from here: what
\* is queued is given up and the caller is told so.
CloseInterrupted ==
  /\ recoveryCutover # NoCutover \/ draining
  /\ intakeOpen' = FALSE
  /\ discardQueuedInputs' = TRUE
  /\ queue' = <<>>
  /\ discarded' = discarded \cup Queued
  /\ shutdown' = "interrupted"
  /\ UNCHANGED <<ingestSequence, draining, current, recoveryCutover, closing,
                 dispatched, abandoned>>

CloseAndDrain ==
  /\ recoveryCutover = NoCutover /\ ~draining
  /\ intakeOpen' = FALSE
  /\ DrainLoop(queue, recoveryCutover, discardQueuedInputs)
  /\ closing' = draining'
  /\ shutdown' = IF draining' THEN shutdown ELSE "drained"
  /\ UNCHANGED <<ingestSequence, discardQueuedInputs, recoveryCutover>>

-----------------------------------------------------------------------------

Next ==
  \/ Receive
  \/ DispatchReturns
  \/ DispatchThrows
  \/ BeginRecoveryCutover
  \/ CommitCutover
  \/ AbortCutover
  \/ OpenIntake
  \/ CloseInterrupted
  \/ CloseAndDrain

Spec == Init /\ [][Next]_vars

\* Handlers return and a recovery always finishes its cutover (every exit of
\* attemptStorageRecovery commits, aborts or ends the process).
FairSpec ==
  /\ Spec
  /\ WF_vars(DispatchReturns)
  /\ WF_vars(CommitCutover \/ AbortCutover)

-----------------------------------------------------------------------------
(* Properties *)

\* Every variable holds a value of its type, and the drain loop is on the call
\* stack exactly while an input is being dispatched.
TypeOK ==
  /\ queue \in Seq(Nat)
  /\ ingestSequence \in Nat
  /\ draining \in BOOLEAN
  /\ current \in Nat
  /\ intakeOpen \in BOOLEAN
  /\ discardQueuedInputs \in BOOLEAN
  /\ recoveryCutover \in {NoCutover, Within, Overflowed}
  /\ closing \in BOOLEAN
  /\ shutdown \in {"none", "drained", "interrupted"}
  /\ dispatched \subseteq Nat
  /\ discarded \subseteq Nat
  /\ abandoned \in BOOLEAN
  /\ draining <=> current # None
  /\ closing => draining

\* No accepted input vanishes: each one is waiting, was handed to the handler,
\* or was given up by a shutdown that reported the interruption.
NoInputLost ==
  1..ingestSequence = Queued \cup dispatched \cup discarded

\* And none is handled twice, or handled after being given up.
FatesDisjoint ==
  /\ Queued \cap dispatched = {}
  /\ Queued \cap discarded = {}
  /\ dispatched \cap discarded = {}

\* So each input has exactly one fate.
EachInputOnce == NoInputLost /\ FatesDisjoint

\* Whatever the reentrancy, an aborted cutover or a drain cut short by an
\* exception, inputs reach the handler in the order they were ingested: a newly
\* dispatched input is younger than all earlier ones and older than all queued.
DispatchInIngestOrder ==
  [][\A i \in dispatched' \ dispatched :
       /\ \A d \in dispatched : d < i
       /\ \A k \in 1..Len(queue') : i < queue'[k]]_vars

\* The cutover owns the dequeue boundary: an input taken from the queue in a
\* step leaves no cutover active, so none is prepared against a state the
\* recovery is about to replace.
NoDispatchDuringCutover ==
  [][dispatched' # dispatched => recoveryCutover' = NoCutover]_vars

\* An active cutover that holds more than the limit has latched the overflow,
\* including inputs that were queued before it began, so commit refuses it.
OverflowIsLatched ==
  recoveryCutover = Within => Len(queue) <= QueueLimit

\* Once latched, the overflow stays until the cutover is finished: draining or
\* discarding inputs does not make the cutover committable again.
OverflowNeverClears ==
  [][recoveryCutover = Overflowed => recoveryCutover' \in {Overflowed, NoCutover}]_vars

\* An open cutover owns the queue, and is committed only within its limit.
CutoverHolds == NoDispatchDuringCutover /\ OverflowNeverClears /\ []OverflowIsLatched

\* Inputs never sit in a queue nobody will drain: outside the loop and with no
\* cutover active the queue is empty, unless a handler threw.
NothingStranded ==
  ~draining /\ recoveryCutover = NoCutover /\ ~abandoned => queue = <<>>

\* "drained" (on which the engine closes its runtime session as clean) is only
\* answered when nothing is left behind, or a handler opened a cutover meanwhile.
DrainedMeansEmpty ==
  [][shutdown' = "drained" /\ (closing \/ shutdown # "drained")
       => draining' \/ queue' = <<>> \/ recoveryCutover' # NoCutover]_vars

\* Every accepted input is eventually dispatched or given up by a shutdown,
\* unless a handler's exception abandons the queue it waits in.
EveryInputSettles ==
  \A i \in 1..MaxInputs : i \in Queued ~> i \in dispatched \cup discarded \/ abandoned
=============================================================================
