------------------------ MODULE DeviceEvidenceProofs ------------------------
(***************************************************************************)
(* Proofs about DeviceEvidence: what the room stores and what it shows of  *)
(* a device never goes back in time.                                       *)
(*                                                                         *)
(* The types alone are not enough: a commit writes the projection that     *)
(* memory holds, so the checkpoint only advances because, while storage is *)
(* available, the checkpoint is that projection (Mirrored).                *)
(* That a durable reading is recorded needs the same: every mark comes     *)
(* with the record of its reading, or with a projection that had it.       *)
(***************************************************************************)
EXTENDS DeviceEvidence, TLAPS

Mirrored == mode = "available" => store.checkpoint.projection = memory

IInv == TypeOK /\ Mirrored

\* Every dimension of after is at least as recent as in before.
AtLeast(before, after) == \A d \in Dimension : before.cells[d].at <= after.cells[d].at

-----------------------------------------------------------------------------
(* Operators *)

LEMMA AtLeastItself == ASSUME NEW p \in Projections PROVE AtLeast(p, p)
BY DEF AtLeast, Projections

LEMMA BootstrappedType ==
  ASSUME NEW t \in Nat, NEW durability \in Durability
  PROVE  /\ Bootstrapped(t, durability) \in Projections
         /\ t = 0 => \A d \in Dimension : Bootstrapped(t, durability).cells[d].at = 0
<1> DEFINE cells == [d \in Dimension |-> [value |-> "unknown",
                                         at |-> IF d = "reading" THEN 0 ELSE t,
                                         durability |-> durability]]
<1>1. Bootstrapped(t, durability) = [cells |-> cells, evidence |-> {}]
  BY DEF Bootstrapped, Cell, Unknown
<1>2. cells \in [Dimension -> [value : Values, at : Nat, durability : Durability]]
  <2>1. \A d \in Dimension : (IF d = "reading" THEN 0 ELSE t) \in Nat
    OBVIOUS
  <2>2. "unknown" \in Values
    BY DEF Values
  <2>3. QED BY <2>1, <2>2
<1>3. t = 0 => \A d \in Dimension : cells[d].at = 0
  OBVIOUS
<1> HIDE DEF cells
<1>4. QED BY <1>1, <1>2, <1>3 DEF Projections

LEMMA ProjectedType ==
  ASSUME NEW p \in Projections, NEW fact \in Facts, NEW durability \in Durability
  PROVE  /\ Projected(p, fact, durability) \in Projections
         /\ AtLeast(p, Projected(p, fact, durability))
<1>1. CASE ~Applies(p, fact)
  BY <1>1, AtLeastItself DEF Projected
<1>2. CASE Applies(p, fact)
  <2> DEFINE d == fact.dimension
             old == p.cells[d]
             new == AppliedCell(old, fact, durability)
             cells == [p.cells EXCEPT ![d] = new]
             evidence == p.evidence \cup ({d} \cap Transition)
  <2>1. d \in Dimension /\ fact.at \in Nat /\ fact.value \in Values
    BY DEF Facts
  <2>2. old \in [value : Values, at : Nat, durability : Durability]
    BY <2>1 DEF Projections
  <2>3. /\ new \in [value : Values, at : Nat, durability : Durability]
        /\ new.at = fact.at
    BY <2>1, <2>2 DEF AppliedCell, Cell
  <2>4. cells \in [Dimension -> [value : Values, at : Nat, durability : Durability]]
    BY <2>1, <2>3 DEF Projections
  <2>5. old.at <= fact.at
    BY <1>2, <2>1, <2>2 DEF Applies
  <2>6. Projected(p, fact, durability) = [cells |-> cells, evidence |-> evidence]
    BY <1>2 DEF Projected
  <2>7. \A e \in Dimension : p.cells[e].at <= cells[e].at
    BY <2>1, <2>2, <2>3, <2>5 DEF Projections
  <2>8. evidence \in SUBSET Transition
    BY DEF Projections
  <2> HIDE DEF cells, evidence
  <2>9. QED BY <2>4, <2>6, <2>7, <2>8 DEF AtLeast, Projections
<1>3. QED BY <1>1, <1>2

LEMMA PromotedType ==
  ASSUME NEW p \in Projections, NEW fact \in Facts
  PROVE  Promoted(p, fact) \in Projections /\ AtLeast(p, Promoted(p, fact))
<1>1. CASE ~Promotes(p.cells[fact.dimension], fact)
  BY <1>1, AtLeastItself DEF Promoted
<1>2. CASE Promotes(p.cells[fact.dimension], fact)
  <2> DEFINE d == fact.dimension
             new == [p.cells[d] EXCEPT !.durability = "durable"]
             cells == [p.cells EXCEPT ![d] = new]
  <2>1. d \in Dimension
    BY DEF Facts
  <2>2. p.cells[d] \in [value : Values, at : Nat, durability : Durability]
    BY <2>1 DEF Projections
  <2>3. /\ new \in [value : Values, at : Nat, durability : Durability]
        /\ new.at = p.cells[d].at
    BY <2>2 DEF Durability
  <2>4. cells \in [Dimension -> [value : Values, at : Nat, durability : Durability]]
    BY <2>1, <2>3 DEF Projections
  <2>5. \A e \in Dimension : p.cells[e].at <= cells[e].at
    BY <2>1, <2>2, <2>3 DEF Projections
  <2>6. Promoted(p, fact) = [p EXCEPT !.cells = cells]
    BY <1>2 DEF Promoted
  <2>7. p = [cells |-> p.cells, evidence |-> p.evidence] /\ p.evidence \in SUBSET Transition
    BY DEF Projections
  <2> HIDE DEF cells
  <2>8. Promoted(p, fact) = [cells |-> cells, evidence |-> p.evidence]
    BY <2>6, <2>7
  <2>9. QED BY <2>4, <2>5, <2>7, <2>8 DEF AtLeast, Projections
<1>3. QED BY <1>1, <1>2

LEMMA AtLeastTransitive ==
  ASSUME NEW p \in Projections, NEW q \in Projections, NEW r \in Projections,
         AtLeast(p, q), AtLeast(q, r)
  PROVE  AtLeast(p, r)
BY DEF AtLeast, Projections

LEMMA MergedType ==
  ASSUME NEW durable \in Projections, NEW volatile \in Projections
  PROVE  /\ Merged(durable, volatile) \in Projections
         /\ AtLeast(durable, Merged(durable, volatile))
         /\ AtLeast(volatile, Merged(durable, volatile))
<1> DEFINE cells == [d \in Dimension |->
                       IF Later(durable, volatile, d) THEN volatile.cells[d]
                       ELSE durable.cells[d]]
           evidence == {d \in Transition : d \in IF Later(durable, volatile, d)
                                                 THEN volatile.evidence ELSE durable.evidence}
<1>1. cells \in [Dimension -> [value : Values, at : Nat, durability : Durability]]
  BY DEF Projections
<1>2. evidence \in SUBSET Transition
  OBVIOUS
<1>3. \A d \in Dimension : /\ durable.cells[d].at <= cells[d].at
                           /\ volatile.cells[d].at <= cells[d].at
  BY DEF Later, Projections
<1>4. Merged(durable, volatile) = [cells |-> cells, evidence |-> evidence]
  BY DEF Merged
<1> HIDE DEF cells, evidence
<1>5. QED BY <1>1, <1>2, <1>3, <1>4 DEF AtLeast, Projections

LEMMA StoredType ==
  ASSUME memory \in Projections, NEW fact \in Facts
  PROVE  Stored(fact) \in Projections /\ AtLeast(memory, Stored(fact))
<1> DEFINE after == Projected(memory, fact, "durable")
<1>1. after \in Projections /\ AtLeast(memory, after)
  BY ProjectedType DEF Durability
<1>2. Promoted(after, fact) \in Projections /\ AtLeast(after, Promoted(after, fact))
  BY <1>1, PromotedType
<1>3. AtLeast(memory, Promoted(after, fact))
  BY <1>1, <1>2, AtLeastTransitive
<1>4. Stored(fact) = after \/ Stored(fact) = Promoted(after, fact)
  BY DEF Stored
<1> HIDE DEF after
<1>5. QED BY <1>1, <1>2, <1>3, <1>4

LEMMA CheckpointFields ==
  ASSUME NEW p, NEW kept
  PROVE  Checkpoint(p, kept).projection = p /\ Checkpoint(p, kept).guards = kept
BY DEF Checkpoint

-----------------------------------------------------------------------------
(* Steps *)

StoreType == [checkpoint : [projection : Projections, guards : SUBSET Facts],
              records : SUBSET Facts]

\* The parts of the invariant, and of the advance, that a step decides.
Kept ==
  /\ memory' \in Projections
  /\ guards' \subseteq Facts
  /\ store' \in StoreType
  /\ mode' \in {"down", "available", "degraded"}
  /\ Mirrored'
  /\ AtLeast(store.checkpoint.projection, store'.checkpoint.projection)

Known == AtLeast(memory, memory')

LEMMA StoreUnchanged ==
  ASSUME IInv, UNCHANGED <<memory, guards, store>>,
         mode' = mode \/ mode' = "degraded"
  PROVE  Kept /\ Known
BY AtLeastItself DEF IInv, TypeOK, Mirrored, Kept, Known, StoreType

\* A fact only brings something newer, stored or not.
LEMMA ReceiveKeeps ==
  ASSUME IInv, NEW fact \in Facts, Receive(fact)
  PROVE  Kept /\ Known
<1>1. /\ memory \in Projections /\ guards \subseteq Facts
      /\ store \in StoreType /\ mode \in {"down", "available", "degraded"}
  BY DEF IInv, TypeOK, StoreType
<1>2. CASE UNCHANGED <<memory, guards, store>> /\ (mode' = mode \/ mode' = "degraded")
  BY <1>2, StoreUnchanged
<1>3. CASE mode = "available" /\ CommitFact(fact) /\ UNCHANGED <<faults, mode>>
  <2>1. Stored(fact) \in Projections /\ AtLeast(memory, Stored(fact))
    BY <1>1, StoredType
  <2>2. memory' = Stored(fact) /\ guards' = guards \ {fact}
    BY <1>3 DEF CommitFact
  <2>3. /\ store'.checkpoint.projection = Stored(fact)
        /\ store' \in StoreType
    BY <1>1, <1>3, <2>1 DEF CommitFact, Checkpoint, StoreType
  <2>4. store.checkpoint.projection = memory
    BY <1>3 DEF IInv, Mirrored
  <2>5. QED BY <1>1, <1>3, <2>1, <2>2, <2>3, <2>4 DEF Kept, Known, Mirrored
<1>4. CASE KeepFact(fact) /\ mode' = "degraded"
  <2>1. Unstored(fact) \in Projections /\ AtLeast(memory, Unstored(fact))
    BY <1>1, ProjectedType DEF Unstored, Durability
  <2>2. memory' = Unstored(fact) /\ guards' = guards \cup {fact} /\ store' = store
    BY <1>4 DEF KeepFact
  <2>3. QED BY <1>1, <1>4, <2>1, <2>2, AtLeastItself DEF Kept, Known, Mirrored, StoreType
<1>5. QED BY <1>2, <1>3, <1>4 DEF Receive, Refuse, Accept, Fails

\* What the sensor may report is a fact.
LEMMA FactTypes ==
  ASSUME TypeOK
  PROVE  /\ \A dimension \in Dimension, value \in Values, t \in Nat :
              New(dimension, value, t) \in Facts
         /\ \A t \in Nat : Reading(t) \in Facts
         /\ \A i \in DOMAIN Pattern : Pattern[i] \in Values
         /\ source.last \in Facts
<1>1. \A i \in DOMAIN Pattern : Pattern[i] \in Values
  BY DEF Values
<1>2. source.next + 1 \in DOMAIN Pattern /\ source.last \in Facts
  BY SourceAssumption DEF TypeOK
<1>3. \A dimension \in Dimension, value \in Values, t \in Nat :
        New(dimension, value, t) \in Facts
  BY DEF TypeOK, New, Fact, Facts
<1>4. QED BY <1>1, <1>2, <1>3 DEF Reading, Dimension

SourceType == [stage : {"built", "announced", "running"}, ticking : BOOLEAN,
               offline : BOOLEAN, last : Facts, next : 0..Len(Pattern) - 1]

LEMMA SourceTypes ==
  ASSUME source \in SourceType, NEW fact \in Facts
  PROVE  /\ Announced \in SourceType /\ Measured(fact) \in SourceType
         /\ Started(fact) \in SourceType /\ Paused \in SourceType
         /\ Resumed \in SourceType /\ Garbled \in SourceType
         /\ Restarted(fact) \in SourceType
         /\ Disconnected \in SourceType /\ Reconnected \in SourceType
<1>1. Len(Pattern) \in Nat \ {0}
  BY SourceAssumption
<1>2. Advanced \in 0..Len(Pattern) - 1 /\ 1 % Len(Pattern) \in 0..Len(Pattern) - 1
  BY <1>1 DEF Advanced, SourceType
<1>3. QED BY <1>2 DEF SourceType, Announced, Measured, Started, Paused, Resumed, Garbled,
                      Restarted, Disconnected, Reconnected

LEMMA NewSourceType == NewSource \in SourceType /\ NoReading \in Facts
<1>1. NoReading \in Facts
  BY DEF NoReading, Facts, Dimension, Values
<1>2. 0 \in 0..Len(Pattern) - 1
  BY SourceAssumption
<1>3. QED BY <1>1, <1>2 DEF NewSource, SourceType

-----------------------------------------------------------------------------
(* The invariant *)

\* What every step does.
Advances == Kept /\ (starts' = starts => Known)

LEMMA ReportKeeps ==
  ASSUME IInv, NEW fact \in Facts, Reports(fact) \/ (Receive(fact) /\ made' = made)
  PROVE  Advances /\ now' = now /\ made' \in Nat /\ starts' = starts
<1>1. Kept /\ Known
  BY ReceiveKeeps DEF Reports
<1>2. QED BY <1>1 DEF Advances, Reports, Receive, IInv, TypeOK

LEMMA InitInv == Init => IInv
<1> SUFFICES ASSUME Init PROVE IInv
  OBVIOUS
<1>1. Bootstrapped(0, "durable") \in Projections
  BY BootstrappedType DEF Durability
<1>2. source \in SourceType
  BY NewSourceType DEF Init
<1>3. NoCheckpoint = [projection |-> Bootstrapped(0, "durable"), guards |-> {}]
  BY DEF NoCheckpoint, Checkpoint
<1>4. memory \in Projections /\ store \in StoreType /\ guards = {}
  BY <1>1, <1>3 DEF Init, StoreType
<1>5. QED BY <1>2, <1>4 DEF Init, IInv, TypeOK, Mirrored, SourceType, StoreType

\* The invariant follows from what a step does and the types of the rest.
LEMMA InvFromParts ==
  ASSUME Kept, now' \in Nat, made' \in Nat, starts' \in Nat, source' \in SourceType
  PROVE  IInv'
BY DEF Kept, IInv, TypeOK, SourceType, StoreType

\* One fact is received, or none.
Received ==
  \/ \E fact \in Facts : Reports(fact) \/ (Receive(fact) /\ made' = made)
  \/ UNCHANGED <<now, made, starts, mode, memory, guards, store>>

\* The sensor's operations: each receives at most one fact.
LEMMA SensorReceives ==
  ASSUME TypeOK,
         \/ Announce \/ FirstReading \/ Tick \/ EmitNext \/ EmitFutureDated \/ EmitInvalid
         \/ Replay \/ Reset \/ Pause \/ Resume \/ Disconnect \/ Reconnect
         \/ \E health \in {"healthy", "degraded"} : ReportHealth(health)
         \/ \E dimension \in Dimension, value \in Values : LateReport(dimension, value)
  PROVE  Received /\ source' \in SourceType
<1>1. TypeOK /\ source \in SourceType /\ now \in Nat /\ made \in Nat /\ starts \in Nat
  BY DEF TypeOK, SourceType
<1>2. now + FutureLead \in Nat
  BY <1>1, SourceAssumption
<1>3. /\ \A value \in Values : New("availability", value, now) \in Facts
      /\ \A value \in Values : New("health", value, now) \in Facts
      /\ \A value \in Values : New("reading", value, now) \in Facts
  BY <1>1, FactTypes DEF Dimension, Transition
<1>4. Reading(now) \in Facts /\ Reading(now + FutureLead) \in Facts /\ source.last \in Facts
  BY <1>1, <1>2, FactTypes
<1>5. {"online", "offline", "healthy", "degraded", "invalid"} \subseteq Values
  BY DEF Values
<1>6. ASSUME NEW fact \in Facts, Reports(fact) \/ (Receive(fact) /\ made' = made),
             source' \in SourceType
      PROVE  Received /\ source' \in SourceType
  BY <1>6 DEF Received
<1> DEFINE Reported(fact) == fact \in Facts /\ Reports(fact)
<1>7. ASSUME NEW fact, Reported(fact), source' \in SourceType
      PROVE  Received /\ source' \in SourceType
  BY <1>6, <1>7
<1>8. /\ \A fact \in Facts : /\ Measured(fact) \in SourceType
                             /\ Started(fact) \in SourceType
                             /\ Restarted(fact) \in SourceType
      /\ {Announced, Paused, Resumed, Garbled, Disconnected, Reconnected} \subseteq SourceType
  BY <1>1, <1>4, SourceTypes
<1>9. CASE Announce
  <2>1. source' \in SourceType /\ Reported(New("availability", "online", now))
    BY <1>3, <1>5, <1>8, <1>9 DEF Announce
  <2>2. QED BY <1>7, <2>1
<1>10. CASE FirstReading
  <2>1. source' \in SourceType /\ Reported(Reading(now))
    BY <1>4, <1>8, <1>10 DEF FirstReading
  <2>2. QED BY <1>7, <2>1
<1>11. CASE Tick \/ EmitNext
  <2>1. source' \in SourceType /\ Reported(Reading(now))
    BY <1>4, <1>8, <1>11 DEF Tick, EmitNext
  <2>2. QED BY <1>7, <2>1
<1>12. CASE EmitFutureDated
  <2>1. source' \in SourceType /\ Reported(Reading(now + FutureLead))
    BY <1>4, <1>8, <1>12 DEF EmitFutureDated
  <2>2. QED BY <1>7, <2>1
<1>13. CASE EmitInvalid
  <2>1. source' \in SourceType /\ Reported(New("reading", "invalid", now))
    BY <1>3, <1>5, <1>8, <1>13 DEF EmitInvalid
  <2>2. QED BY <1>7, <2>1
<1>14. CASE Replay
  <2>1. Receive(source.last) /\ made' = made /\ source' \in SourceType
    BY <1>1, <1>14 DEF Replay
  <2>2. QED BY <1>4, <1>6, <2>1
<1>15. CASE Reset
  <2> DEFINE first == New("reading", Pattern[1], now)
  <2>1. 1 \in DOMAIN Pattern
    BY SourceAssumption
  <2>2. first \in Facts
    BY <1>3, <2>1 DEF Values
  <2>3. source' = Restarted(first) /\ Reports(first)
    BY <1>15 DEF Reset
  <2> HIDE DEF first
  <2>4. source' \in SourceType
    BY <1>8, <2>2, <2>3
  <2>5. QED BY <1>6, <2>2, <2>3, <2>4
<1>16. CASE Pause \/ Resume
  <2>1. source' \in SourceType
    BY <1>8, <1>16 DEF Pause, Resume
  <2>2. /\ UNCHANGED <<memory, guards, store>>
        /\ mode' = mode /\ now' = now /\ made' = made /\ starts' = starts
    BY <1>16 DEF Pause, Resume
  <2>3. QED BY <2>1, <2>2 DEF Received
<1>17. CASE Disconnect \/ Reconnect
  <2>1. CASE Disconnect
    <3>1. source' \in SourceType /\ Reported(New("availability", "offline", now))
      BY <1>3, <1>5, <1>8, <2>1 DEF Disconnect
    <3>2. QED BY <1>7, <3>1
  <2>2. CASE Reconnect
    <3>1. source' \in SourceType /\ Reported(New("availability", "online", now))
      BY <1>3, <1>5, <1>8, <2>2 DEF Reconnect
    <3>2. QED BY <1>7, <3>1
  <2>3. QED BY <1>17, <2>1, <2>2
<1>18. CASE \E health \in {"healthy", "degraded"} : ReportHealth(health)
  <2>1. PICK health \in {"healthy", "degraded"} : ReportHealth(health)
    BY <1>18
  <2>2. source' \in SourceType /\ Reported(New("health", health, now))
    BY <1>1, <1>3, <1>5, <2>1 DEF ReportHealth
  <2>3. QED BY <1>7, <2>2
<1>19. CASE \E dimension \in Dimension, value \in Values : LateReport(dimension, value)
  <2>1. PICK dimension \in Dimension, value \in Values : LateReport(dimension, value)
    BY <1>19
  <2>2. now - 1 \in Nat
    BY <1>1, <2>1 DEF LateReport
  <2>3. New(dimension, value, now - 1) \in Facts
    BY <1>1, <2>2, FactTypes
  <2>4. source' \in SourceType /\ Reported(New(dimension, value, now - 1))
    BY <1>1, <2>1, <2>3 DEF LateReport
  <2>5. QED BY <1>7, <2>4
<1>20. QED BY <1>9, <1>10, <1>11, <1>12, <1>13, <1>14, <1>15, <1>16, <1>17, <1>18, <1>19

LEMMA SensorSteps ==
  ASSUME IInv, Received, source' \in SourceType
  PROVE  IInv' /\ Advances
<1>1. now \in Nat /\ made \in Nat /\ starts \in Nat
  BY DEF IInv, TypeOK
<1>2. CASE \E fact \in Facts : Reports(fact) \/ (Receive(fact) /\ made' = made)
  BY <1>1, <1>2, ReportKeeps, InvFromParts DEF Advances
<1>3. CASE UNCHANGED <<now, made, starts, mode, memory, guards, store>>
  <2>1. Kept /\ Known
    BY <1>3, StoreUnchanged
  <2>2. QED BY <1>1, <1>3, <2>1, InvFromParts DEF Advances
<1>4. QED BY <1>2, <1>3 DEF Received

\* A recovery takes the later of two projections, neither of which it can fall behind.
LEMMA RecoverStep ==
  ASSUME IInv, Recover
  PROVE  IInv' /\ Advances
<1> DEFINE old == store.checkpoint.projection
<1>1. /\ memory \in Projections /\ old \in Projections /\ guards \subseteq Facts
      /\ store \in StoreType
      /\ source \in SourceType /\ now \in Nat /\ made \in Nat /\ starts \in Nat
  BY DEF IInv, TypeOK, SourceType, StoreType
<1>2. /\ memory' \in Projections /\ AtLeast(memory, memory') /\ AtLeast(old, memory')
  <2>1. CASE HasCheckpoint
    BY <1>1, <2>1, MergedType DEF Recover
  <2>2. CASE ~HasCheckpoint
    <3>1. memory' = memory
      BY <2>2 DEF Recover
    <3>2. old = Bootstrapped(0, "durable")
      BY <2>2, CheckpointFields DEF HasCheckpoint, NoCheckpoint
    <3>3. \A d \in Dimension : old.cells[d].at = 0
      BY <3>2, BootstrappedType DEF Durability
    <3>4. AtLeast(old, memory)
      BY <1>1, <3>3 DEF AtLeast, Projections
    <3>5. QED BY <1>1, <3>1, <3>4, AtLeastItself
  <2>3. QED BY <2>1, <2>2
<1>3. RecoveredGuards \subseteq Facts
  BY <1>1 DEF RecoveredGuards, StoreType
<1>4. /\ guards' = RecoveredGuards /\ mode' = "available"
      /\ store' = [store EXCEPT !.checkpoint = Checkpoint(memory', RecoveredGuards)]
      /\ source' = source /\ now' = now /\ made' = made /\ starts' = starts
  BY DEF Recover
<1>5. store'.checkpoint.projection = memory' /\ store' \in StoreType
  BY <1>1, <1>2, <1>3, <1>4 DEF Checkpoint, StoreType
<1>6. Kept /\ Known
  BY <1>2, <1>3, <1>4, <1>5 DEF Kept, Known, Mirrored
<1>7. QED BY <1>1, <1>4, <1>6, InvFromParts DEF Advances

\* A broadcast stores the projection that the checkpoint already holds.
LEMMA BroadcastStep ==
  ASSUME IInv, Broadcast
  PROVE  IInv' /\ Advances
<1>1. /\ memory \in Projections /\ guards \subseteq Facts /\ store \in StoreType
      /\ source \in SourceType /\ now \in Nat /\ made \in Nat /\ starts \in Nat
  BY DEF IInv, TypeOK, SourceType, StoreType
<1>2. UNCHANGED <<source, now, made, starts, memory, guards>>
  BY DEF Broadcast
<1>3. ASSUME store' = store, mode' = mode \/ mode' = "degraded"
      PROVE  Kept /\ Known
  <2>1. UNCHANGED <<memory, guards, store>>
    BY <1>2, <1>3
  <2>2. QED BY <1>3, <2>1, StoreUnchanged
<1>4. ASSUME mode = "available", mode' = mode,
             store' = [store EXCEPT !.checkpoint = Checkpoint(memory, guards)]
      PROVE  Kept /\ Known
  <2>1. store'.checkpoint.projection = memory /\ store' \in StoreType
    BY <1>1, <1>4 DEF Checkpoint, StoreType
  <2>2. store.checkpoint.projection = memory
    BY <1>4 DEF IInv, Mirrored
  <2>3. QED BY <1>1, <1>2, <1>4, <2>1, <2>2, AtLeastItself DEF Kept, Known, Mirrored
<1>5. \/ store' = store /\ (mode' = mode \/ mode' = "degraded")
      \/ /\ mode = "available" /\ mode' = mode
         /\ store' = [store EXCEPT !.checkpoint = Checkpoint(memory, guards)]
  BY DEF Broadcast, Fails
<1>6. Kept /\ Known
  BY <1>3, <1>4, <1>5
<1>7. QED BY <1>1, <1>2, <1>6, InvFromParts DEF Advances

\* A process that starts reads the checkpoint, or writes the first one, or leaves it alone.
LEMMA StartSteps ==
  ASSUME IInv, StartAvailable \/ StartEmpty \/ StartRestored
  PROVE  IInv' /\ Advances
<1> DEFINE old == store.checkpoint.projection
<1>1. /\ old \in Projections /\ store \in StoreType /\ store.checkpoint.guards \subseteq Facts
      /\ now \in Nat /\ made \in Nat /\ starts \in Nat
  BY DEF IInv, TypeOK, StoreType
<1>2. /\ starts' \in Nat /\ starts' # starts
      /\ source' \in SourceType /\ now' = now /\ made' = made
  BY <1>1, NewSourceType DEF StartAvailable, StartEmpty, StartRestored, Begins
<1>3. CASE StartAvailable
  <2>1. memory' \in Projections /\ AtLeast(old, memory')
    <3>1. CASE HasCheckpoint
      BY <1>1, <1>3, <3>1, AtLeastItself DEF StartAvailable
    <3>2. CASE ~HasCheckpoint
      <4>1. memory' = Bootstrapped(now, "durable")
        BY <1>3, <3>2 DEF StartAvailable
      <4>2. memory' \in Projections
        BY <1>1, <4>1, BootstrappedType DEF Durability
      <4>3. old = Bootstrapped(0, "durable")
        BY <3>2, CheckpointFields DEF HasCheckpoint, NoCheckpoint
      <4>4. \A d \in Dimension : old.cells[d].at = 0
        BY <4>3, BootstrappedType DEF Durability
      <4>5. QED BY <4>2, <4>4 DEF AtLeast, Projections
    <3>3. QED BY <3>1, <3>2
  <2>2. /\ guards' = store.checkpoint.guards /\ mode' = "available"
        /\ store' = [store EXCEPT !.checkpoint = Checkpoint(memory', guards')]
    BY <1>3 DEF StartAvailable
  <2>3. store'.checkpoint.projection = memory' /\ store' \in StoreType
    BY <1>1, <2>1, <2>2 DEF Checkpoint, StoreType
  <2>4. Kept
    BY <1>1, <2>1, <2>2, <2>3 DEF Kept, Mirrored
  <2>5. QED BY <1>1, <1>2, <2>4, InvFromParts DEF Advances
<1>4. CASE StartEmpty
  <2>1. memory' \in Projections
    BY <1>1, <1>4, BootstrappedType DEF StartEmpty, Durability
  <2>2. mode' = "degraded" /\ guards' = {} /\ store' = store
    BY <1>4 DEF StartEmpty, Fails
  <2>3. Kept
    BY <1>1, <2>1, <2>2, AtLeastItself DEF Kept, Mirrored
  <2>4. QED BY <1>1, <1>2, <2>3, InvFromParts DEF Advances
<1>5. CASE StartRestored
  <2>1. /\ memory' = old /\ mode' = "degraded" /\ store' = store
        /\ guards' = store.checkpoint.guards
    BY <1>5 DEF StartRestored, Fails
  <2>2. Kept
    BY <1>1, <2>1, AtLeastItself DEF Kept, Mirrored
  <2>3. QED BY <1>1, <1>2, <2>2, InvFromParts DEF Advances
<1>6. QED BY <1>3, <1>4, <1>5

\* Time passes, or nothing happens.
LEMMA IdleSteps ==
  ASSUME IInv, Pass \/ UNCHANGED evidenceVars
  PROVE  IInv' /\ Advances
<1>1. /\ now' \in Nat /\ made' \in Nat /\ starts' \in Nat /\ source' \in SourceType
      /\ UNCHANGED <<memory, guards, store>> /\ mode' = mode
  BY DEF IInv, TypeOK, SourceType, Pass, evidenceVars
<1>2. Kept /\ Known
  BY <1>1, StoreUnchanged
<1>3. QED BY <1>1, <1>2, InvFromParts DEF Advances

\* The steps of the sensor and of other adapters.
Senses ==
  \/ Announce \/ FirstReading \/ Tick \/ EmitNext \/ EmitFutureDated \/ EmitInvalid
  \/ Replay \/ Reset \/ Pause \/ Resume \/ Disconnect \/ Reconnect
  \/ \E health \in {"healthy", "degraded"} : ReportHealth(health)
  \/ \E dimension \in Dimension, value \in Values : LateReport(dimension, value)

\* Every step is one of five kinds.
LEMMA StepKinds ==
  ASSUME [Next]_evidenceVars
  PROVE  \/ Senses \/ Broadcast \/ Recover
         \/ StartAvailable \/ StartEmpty \/ StartRestored
         \/ Pass \/ UNCHANGED evidenceVars
<1>1. CASE \/ \E i \in DOMAIN Pattern : LateReport("reading", Pattern[i])
           \/ \E value \in {"online", "offline"} : LateReport("availability", value)
           \/ \E value \in {"healthy", "degraded"} : LateReport("health", value)
  <2>1. \E dimension \in Dimension, value \in Values : LateReport(dimension, value)
    BY <1>1 DEF Dimension, Transition, Values
  <2>2. QED BY <2>1 DEF Senses
<1>2. QED BY <1>1 DEF Next, Senses

LEMMA EveryStep ==
  ASSUME IInv, [Next]_evidenceVars
  PROVE  IInv' /\ Advances
<1>1. CASE Senses
  <2>1. TypeOK
    BY DEF IInv
  <2>2. Received /\ source' \in SourceType
    BY <1>1, <2>1, SensorReceives DEF Senses
  <2>3. QED BY <2>2, SensorSteps
<1>2. CASE Broadcast \/ Recover
  BY <1>2, BroadcastStep, RecoverStep
<1>3. CASE StartAvailable \/ StartEmpty \/ StartRestored
  BY <1>3, StartSteps
<1>4. CASE Pass \/ UNCHANGED evidenceVars
  BY <1>4, IdleSteps
<1>5. QED BY <1>1, <1>2, <1>3, <1>4, StepKinds

-----------------------------------------------------------------------------
(* Durable readings *)

\* A reading that is marked durable is among the records.
Recorded(projection, records) ==
  LET cell == projection.cells["reading"] IN
  cell.durability = "durable" /\ cell.at > 0 =>
    \E fact \in records :
      fact.dimension = "reading" /\ fact.at = cell.at /\ fact.value = cell.value

BothRecorded ==
  Recorded(memory, store.records) /\ Recorded(store.checkpoint.projection, store.records)

\* A process that has just started knows of no reading.
LEMMA BootstrappedRecorded ==
  ASSUME NEW t \in Nat, NEW durability \in Durability, NEW records
  PROVE  Recorded(Bootstrapped(t, durability), records)
BY DEF Recorded, Bootstrapped, Cell, Dimension

\* A fact is applied as durable only when it is recorded.
LEMMA ProjectedRecorded ==
  ASSUME NEW p \in Projections, NEW fact \in Facts, NEW durability \in Durability, NEW records,
         Recorded(p, records), durability = "durable" => fact \in records
  PROVE  Recorded(Projected(p, fact, durability), records)
<1> DEFINE new == AppliedCell(p.cells[fact.dimension], fact, durability)
<1>1. CASE Applies(p, fact)
  <2>1. p.cells \in [Dimension -> [value : Values, at : Nat, durability : Durability]]
        /\ fact.dimension \in Dimension /\ fact.at \in Nat
    BY DEF Projections, Facts
  <2>2. Projected(p, fact, durability).cells = [p.cells EXCEPT ![fact.dimension] = new]
    BY <1>1 DEF Projected
  <2>3. CASE fact.dimension # "reading"
    <3>1. Projected(p, fact, durability).cells["reading"] = p.cells["reading"]
      BY <2>1, <2>2, <2>3
    <3>2. QED BY <3>1 DEF Recorded
  <2>4. CASE fact.dimension = "reading"
    <3>1. fact.at # p.cells["reading"].at
      BY <1>1, <2>1, <2>4 DEF Applies, Transition, Dimension
    <3>2. /\ new.value = fact.value /\ new.at = fact.at /\ new.durability = durability
      BY <2>4, <3>1 DEF AppliedCell, Cell
    <3>3. Projected(p, fact, durability).cells["reading"] = new
      BY <2>1, <2>2, <2>4 DEF Dimension
    <3> HIDE DEF new
    <3>4. QED BY <2>4, <3>2, <3>3 DEF Recorded
  <2>5. QED BY <2>3, <2>4
<1>2. QED BY <1>1 DEF Projected

\* Only the fact that a reading is of promotes it.
LEMMA PromotedRecorded ==
  ASSUME NEW p \in Projections, NEW records, NEW fact \in Facts, fact \in records, Recorded(p, records)
  PROVE  Recorded(Promoted(p, fact), records)
<1> DEFINE new == [p.cells[fact.dimension] EXCEPT !.durability = "durable"]
<1>1. CASE Promotes(p.cells[fact.dimension], fact)
  <2>1. p.cells \in [Dimension -> [value : Values, at : Nat, durability : Durability]]
        /\ fact.dimension \in Dimension /\ p = [cells |-> p.cells, evidence |-> p.evidence]
    BY DEF Projections, Facts
  <2>2. Promoted(p, fact).cells = [p.cells EXCEPT ![fact.dimension] = new]
    BY <1>1, <2>1 DEF Promoted
  <2>3. new.value = p.cells[fact.dimension].value /\ new.at = p.cells[fact.dimension].at
    BY <2>1
  <2> HIDE DEF new
  <2>4. Promoted(p, fact).cells["reading"] = IF fact.dimension = "reading" THEN new ELSE p.cells["reading"]
    BY <2>1, <2>2 DEF Dimension
  <2>5. QED BY <1>1, <2>3, <2>4 DEF Recorded, Promotes
<1>2. QED BY <1>1 DEF Promoted

LEMMA MergedRecorded ==
  ASSUME NEW durable, NEW volatile, NEW records, Recorded(durable, records), Recorded(volatile, records)
  PROVE  Recorded(Merged(durable, volatile), records)
<1>1. Merged(durable, volatile).cells["reading"] \in {durable.cells["reading"], volatile.cells["reading"]}
  BY DEF Merged, Dimension
<1>2. QED BY <1>1 DEF Recorded

\* Records are only ever added here, so what is recorded stays so.
LEMMA RecordedStays ==
  ASSUME NEW p, NEW before, NEW after, before \subseteq after, Recorded(p, before)
  PROVE  Recorded(p, after)
BY DEF Recorded

LEMMA ReceiveRecords ==
  ASSUME IInv, BothRecorded, NEW fact \in Facts, Receive(fact)
  PROVE  BothRecorded'
<1>1. memory \in Projections /\ store \in StoreType
  BY DEF IInv, TypeOK, StoreType
<1>2. CASE UNCHANGED <<memory, store>>
  BY <1>2 DEF BothRecorded, Recorded
<1>3. CASE CommitFact(fact)
  <2> DEFINE records == store.records \cup {fact}
             after == Projected(memory, fact, "durable")
  <2>1. Recorded(memory, records)
    BY RecordedStays DEF BothRecorded
  <2>2. after \in Projections /\ Recorded(after, records)
    BY <1>1, <2>1, ProjectedType, ProjectedRecorded DEF Durability
  <2>3. Recorded(Promoted(after, fact), records)
    BY <2>2, PromotedRecorded
  <2>4. Stored(fact) = after \/ Stored(fact) = Promoted(after, fact)
    BY DEF Stored
  <2>5. memory' = Stored(fact) /\ store'.checkpoint.projection = Stored(fact) /\ store'.records = records
    BY <1>3 DEF CommitFact, Checkpoint
  <2> HIDE DEF after, records
  <2>6. QED BY <2>2, <2>3, <2>4, <2>5 DEF BothRecorded
<1>4. CASE KeepFact(fact)
  <2>1. memory' = Unstored(fact) /\ store' = store
    BY <1>4 DEF KeepFact
  <2>2. Recorded(Unstored(fact), store.records)
    BY <1>1, ProjectedRecorded DEF Unstored, Durability, BothRecorded
  <2>3. QED BY <2>1, <2>2 DEF BothRecorded
<1>5. QED BY <1>2, <1>3, <1>4 DEF Receive, Refuse, Accept

LEMMA EveryStepRecords ==
  ASSUME IInv, BothRecorded, [Next]_evidenceVars
  PROVE  BothRecorded'
<1>1. memory \in Projections /\ store \in StoreType /\ now \in Nat
  BY DEF IInv, TypeOK, StoreType
<1>2. ASSUME UNCHANGED <<memory, store>> PROVE BothRecorded'
  BY <1>2 DEF BothRecorded, Recorded
<1>3. CASE Senses
  <2>1. Received
    BY <1>3, SensorReceives DEF IInv, Senses
  <2>2. QED BY <1>2, <2>1, ReceiveRecords DEF Received, Reports
<1>4. ASSUME NEW kept, store' = [store EXCEPT !.checkpoint = Checkpoint(memory', kept)],
             Recorded(memory', store.records)
      PROVE  BothRecorded'
  <2>1. store'.records = store.records /\ store'.checkpoint.projection = memory'
    BY <1>1, <1>4 DEF Checkpoint, StoreType
  <2>2. QED BY <1>4, <2>1 DEF BothRecorded
<1>5. CASE Broadcast
  BY <1>2, <1>4, <1>5 DEF Broadcast, BothRecorded
<1>6. CASE Recover
  BY <1>4, <1>6, MergedRecorded DEF Recover, BothRecorded
<1>7. CASE StartAvailable
  <2>1. Recorded(memory', store.records)
    BY <1>1, <1>7, BootstrappedRecorded DEF StartAvailable, BothRecorded, Durability
  <2>2. QED BY <1>4, <1>7, <2>1 DEF StartAvailable
<1>8. CASE StartEmpty \/ StartRestored
  <2>1. Recorded(memory', store.records) /\ store' = store
    BY <1>1, <1>8, BootstrappedRecorded DEF StartEmpty, StartRestored, BothRecorded, Durability
  <2>2. QED BY <2>1 DEF BothRecorded
<1>9. CASE Pass \/ UNCHANGED evidenceVars
  BY <1>2, <1>9 DEF Pass, evidenceVars
<1>10. QED BY <1>3, <1>5, <1>6, <1>7, <1>8, <1>9, StepKinds

-----------------------------------------------------------------------------
(* Theorems *)

\* The types hold, and while storage is available the checkpoint is what memory holds.
THEOREM InductiveInvariant == Spec => []IInv
<1>1. IInv /\ [Next]_evidenceVars => IInv'
  BY EveryStep
<1>2. QED BY InitInv, <1>1, PTL DEF Spec

\* What the checkpoint says of a device never goes back in time, whatever fails, restarts
\* or arrives late.
THEOREM StoredAdvances == Spec => StoredEvidenceAdvances
<1>1. IInv /\ [Next]_evidenceVars =>
        [\A d \in Dimension : store.checkpoint.projection.cells[d].at
                              <= store'.checkpoint.projection.cells[d].at]_evidenceVars
  BY EveryStep DEF Advances, Kept, AtLeast
<1>2. QED BY InductiveInvariant, <1>1, PTL DEF Spec, StoredEvidenceAdvances

\* What a running process knows of a device never goes back in time, recoveries included.
THEOREM KnownAdvances == Spec => KnownEvidenceAdvances
<1>1. IInv /\ [Next]_evidenceVars =>
        [starts' = starts => \A d \in Dimension : memory.cells[d].at
                                                  <= memory'.cells[d].at]_evidenceVars
  BY EveryStep DEF Advances, Known, AtLeast
<1>2. QED BY InductiveInvariant, <1>1, PTL DEF Spec, KnownEvidenceAdvances

\* Neither does: the property of the run.
THEOREM NothingGoesBack == Spec => EvidenceAdvances
BY StoredAdvances, KnownAdvances DEF EvidenceAdvances

\* A reading that is marked durable, in memory or in the checkpoint, is in the history
\* (materializePreparedTransition, reconcileVolatileEvidence, mergeRecoveryProjection).
THEOREM DurableReadingsAreRecorded == Spec => []DurableReadingIsRecorded
<1>1. Init => BothRecorded
  <2>1. ASSUME Init PROVE BothRecorded
    <3>1. memory = Bootstrapped(0, "durable") /\ store.checkpoint.projection = Bootstrapped(0, "durable")
      BY <2>1, CheckpointFields DEF Init, NoCheckpoint
    <3>2. QED BY <3>1, BootstrappedRecorded DEF BothRecorded, Durability
  <2>2. QED BY <2>1
<1>2. IInv /\ BothRecorded /\ [Next]_evidenceVars => BothRecorded'
  BY EveryStepRecords
<1>3. BothRecorded => DurableReadingIsRecorded
  BY DEF BothRecorded, Recorded, DurableReadingIsRecorded
<1>4. QED BY <1>1, <1>2, <1>3, InductiveInvariant, PTL DEF Spec

=============================================================================
