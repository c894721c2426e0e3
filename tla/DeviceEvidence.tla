--------------------------- MODULE DeviceEvidence ---------------------------
(***************************************************************************)
(* What the room knows of a device: its availability, its health and its   *)
(* last reading, each with the time it is from and whether it is stored    *)
(* (room-projection.ts, observation-freshness.ts, the acceptance rules of  *)
(* event-processor.ts, the merge of room-recovery-policy.ts).              *)
(*                                                                         *)
(* The three are cells of the same shape.  A cell holds a value, the time  *)
(* of the fact it comes from and its durability; evidence is the set of    *)
(* dimensions an accepted fact has ever set, as opposed to the unknown a   *)
(* process starts with.  A reading is unknown from time 0, before any      *)
(* fact.                                                                   *)
(*                                                                         *)
(* Each step handles one input whole, from its reception to its            *)
(* publication: InputCoordinator shows that inputs are handled one at a    *)
(* time and in order.  The identity of an event never expires here         *)
(* (EventIdentity).                                                        *)
(*                                                                         *)
(* Operators introduced as mutants are plausible bugs that the properties  *)
(* must catch; nothing in the specification uses them.                     *)
(***************************************************************************)
EXTENDS DeviceSource, FiniteSets

CONSTANTS FreshFor,   \* three reporting intervals
          MaxSkew,    \* how far ahead of the room's clock a reading may be
          MaxTime, MaxFacts, MaxFaults, MaxStarts \* bounds of the model

ASSUME WindowAssumption == FreshFor \in Nat /\ MaxSkew \in Nat

VARIABLES now,
          made,     \* messages so far, which are their ids
          faults, starts,
          mode,     \* of the storage: available or degraded
          memory,   \* the projection: cells and evidence
          guards,   \* volatile identities: the facts taken while nothing was stored
          store,    \* the database: checkpoint (cells, evidence, guards) and records
          shown     \* the reading in the last published snapshot, its freshness, and the
                    \* time of the last publication or broadcast check (not in the code)

evidenceVars == <<source, now, made, faults, starts, mode, memory, guards, store, shown>>

Durability == {"durable", "volatile"}
Unknown == "unknown"

Facts == [id : Nat, dimension : Dimension, value : Values, at : Nat]
Projections ==
  [cells : [Dimension -> [value : Values, at : Nat, durability : Durability]],
   evidence : SUBSET Transition]

TypeOK ==
  /\ now \in Nat /\ made \in Nat /\ starts \in Nat
  /\ mode \in {"down", "available", "degraded"}
  /\ source \in [stage : {"built", "announced", "running"}, ticking : BOOLEAN,
                 offline : BOOLEAN, last : Facts, next : 0..Len(Pattern) - 1]
  /\ memory \in Projections
  /\ guards \subseteq Facts
  /\ store \in [checkpoint : [projection : Projections, guards : SUBSET Facts],
                records : SUBSET Facts]

Cell(value, at, durability) == [value |-> value, at |-> at, durability |-> durability]

\* bootstrap and withBootstrapDurability: a device nothing is known of since the process
\* started.
Bootstrapped(at, durability) ==
  [cells |-> [d \in Dimension |-> Cell(Unknown, IF d = "reading" THEN 0 ELSE at, durability)],
   evidence |-> {}]

Checkpoint(projection, kept) == [projection |-> projection, guards |-> kept]

\* A database before its first checkpoint: every process starts after time 0.
NoCheckpoint == Checkpoint(Bootstrapped(0, "durable"), {})
HasCheckpoint == store.checkpoint # NoCheckpoint

Init ==
  /\ source = NewSource
  /\ now = 1 /\ made = 0 /\ faults = 0 /\ starts = 0
  /\ mode = "down"
  /\ memory = NoCheckpoint.projection /\ guards = {}
  /\ store = [checkpoint |-> NoCheckpoint, records |-> {}]
  /\ shown = [at |-> 0, freshness |-> Unknown, asOf |-> 1]

-----------------------------------------------------------------------------
(* Freshness *)

Freshness(cell, at) ==
  IF cell.at = 0 THEN Unknown ELSE IF at - cell.at > FreshFor THEN "stale" ELSE "fresh"

Shown(projection, at) ==
  LET cell == projection.cells["reading"] IN
  [at |-> cell.at, freshness |-> Freshness(cell, at), asOf |-> at]

\* hasObservationStatusChange.
StatusChanged(before, after) == before.at # after.at \/ before.freshness # after.freshness

-----------------------------------------------------------------------------
(* What a fact changes *)

\* Only a later fact applies; the first one may be as old as the unknown it replaces.
Applies(projection, fact) ==
  LET cell == projection.cells[fact.dimension] IN
  \/ fact.at > cell.at
  \/ /\ fact.dimension \in Transition \ projection.evidence
     /\ fact.at = cell.at

\* An applied fact has the durability of its commit, if it moved the time of the cell.
AppliedCell(cell, fact, durability) ==
  Cell(fact.value, fact.at, IF fact.at # cell.at THEN durability ELSE cell.durability)

Projected(projection, fact, durability) ==
  IF ~Applies(projection, fact) THEN projection
  ELSE [cells |-> [projection.cells EXCEPT ![fact.dimension] = AppliedCell(@, fact, durability)],
        evidence |-> projection.evidence \cup ({fact.dimension} \cap Transition)]

PromotesByTime(cell, fact) == cell.at = fact.at \* mutant

\* reconcileVolatileEvidence: the fact that a cell holds is now stored itself.
Promotes(cell, fact) == cell.value = fact.value /\ cell.at = fact.at

Promoted(projection, fact) ==
  IF Promotes(projection.cells[fact.dimension], fact)
  THEN [projection EXCEPT !.cells[fact.dimension].durability = "durable"]
  ELSE projection

\* materializePreparedTransition, of a commit that succeeds or of one that cannot.
Stored(fact) ==
  LET after == Projected(memory, fact, "durable") IN
  IF fact \in guards THEN Promoted(after, fact) ELSE after

Unstored(fact) == Projected(memory, fact, "volatile")

-----------------------------------------------------------------------------
(* Receiving a fact *)

Refused(fact) ==
  \/ fact.value = "invalid"
  \/ fact.dimension = "reading" /\ fact.at - now > MaxSkew
  \/ fact \in store.records
  \/ mode # "available" /\ fact \in guards

MayFail == mode = "available" /\ faults < MaxFaults
Fails == faults' = faults + 1 /\ mode' = "degraded"

\* The fact commits with the checkpoint and its own record and identity.
CommitFact(fact) ==
  /\ memory' = Stored(fact)
  /\ guards' = guards \ {fact}
  /\ store' = [checkpoint |-> Checkpoint(Stored(fact), guards \ {fact}),
               records |-> store.records \cup {fact}]

\* It cannot be stored, or could not: it is kept in memory only.
KeepFact(fact) ==
  /\ memory' = Unstored(fact)
  /\ guards' = guards \cup {fact}
  /\ UNCHANGED store

Publish == shown' = Shown(memory', now)

Accept(fact) ==
  \/ mode = "available" /\ CommitFact(fact) /\ UNCHANGED <<faults, mode>>
  \/ MayFail /\ KeepFact(fact) /\ Fails
  \/ mode = "degraded" /\ KeepFact(fact) /\ UNCHANGED <<faults, mode>>

\* A refusal is stored for diagnosis, which may fail too.
Refuse ==
  /\ UNCHANGED <<memory, guards, store>>
  /\ (MayFail /\ Fails) \/ UNCHANGED <<faults, mode>>

Receive(fact) ==
  /\ IF Refused(fact) THEN Refuse /\ UNCHANGED shown ELSE Accept(fact) /\ Publish
  /\ UNCHANGED <<now, starts>>

-----------------------------------------------------------------------------
(* The sensor reports *)

\* A new message, if the bound allows one.
New(dimension, value, at) == Fact(made + 1, dimension, value, at)
Reports(fact) == made < MaxFacts /\ made' = made + 1 /\ Receive(fact)

Reading(at) == New("reading", Pattern[source.next + 1], at)

Announce ==
  /\ mode # "down" /\ source.stage = "built"
  /\ source' = Announced
  /\ Reports(New("availability", "online", now))

FirstReading ==
  /\ source.stage = "announced"
  /\ source' = Started(Reading(now))
  /\ Reports(Reading(now))

\* The interval, and the scenario that measures once.
Tick ==
  /\ Measures /\ source.ticking
  /\ source' = Measured(Reading(now))
  /\ Reports(Reading(now))

EmitNext ==
  /\ Measures
  /\ source' = Measured(Reading(now))
  /\ Reports(Reading(now))

EmitFutureDated ==
  /\ Measures
  /\ source' = Measured(Reading(now + FutureLead))
  /\ Reports(Reading(now + FutureLead))

EmitInvalid ==
  /\ Measures
  /\ source' = Garbled
  /\ Reports(New("reading", "invalid", now))

\* The same message again, with the same id.
Replay ==
  /\ Measures /\ source.last # NoReading
  /\ Receive(source.last)
  /\ UNCHANGED <<source, made>>

Reset ==
  LET first == New("reading", Pattern[1], now) IN
  /\ Measures
  /\ source' = Restarted(first)
  /\ Reports(first)

Pause ==
  /\ Measures /\ source.ticking
  /\ source' = Paused
  /\ UNCHANGED <<now, made, faults, starts, mode, memory, guards, store, shown>>

Resume ==
  /\ Measures /\ ~source.ticking
  /\ source' = Resumed
  /\ UNCHANGED <<now, made, faults, starts, mode, memory, guards, store, shown>>

Disconnect ==
  /\ Running
  /\ source' = Disconnected
  /\ Reports(New("availability", "offline", now))

Reconnect ==
  /\ Running
  /\ source' = Reconnected
  /\ Reports(New("availability", "online", now))

ReportHealth(health) ==
  /\ Running
  /\ Reports(New("health", health, now))
  /\ UNCHANGED source

\* Another adapter of the room delivers late: the port takes a fact of any earlier time.
LateReport(dimension, value) ==
  /\ Running /\ now > 1
  /\ Reports(New(dimension, value, now - 1))
  /\ UNCHANGED source

-----------------------------------------------------------------------------
(* The process *)

\* The room broadcasts what time has made stale, and stores it first.
Broadcast ==
  /\ Running
  /\ shown' = IF StatusChanged(shown, Shown(memory, now)) THEN Shown(memory, now)
              ELSE [shown EXCEPT !.asOf = now]
  /\ \/ /\ mode = "available" /\ StatusChanged(shown, Shown(memory, now))
        /\ store' = [store EXCEPT !.checkpoint = Checkpoint(memory, guards)]
        /\ UNCHANGED <<faults, mode>>
     \/ /\ MayFail /\ StatusChanged(shown, Shown(memory, now))
        /\ Fails /\ UNCHANGED store
     \/ /\ mode = "degraded" \/ ~StatusChanged(shown, Shown(memory, now))
        /\ UNCHANGED <<faults, mode, store>>
  /\ UNCHANGED <<source, now, made, starts, memory, guards>>

VolatileWins(durable, volatile, d) == TRUE \* mutant

\* mergeRecoveryProjection and mergeRecoveryEvidence: the later of the two, for each
\* dimension.
Later(durable, volatile, d) == volatile.cells[d].at > durable.cells[d].at

Merged(durable, volatile) ==
  [cells |-> [d \in Dimension |->
                IF Later(durable, volatile, d) THEN volatile.cells[d] ELSE durable.cells[d]],
   evidence |-> {d \in Transition :
                   d \in IF Later(durable, volatile, d) THEN volatile.evidence
                         ELSE durable.evidence}]

RecoveredGuards == (store.checkpoint.guards \cup guards) \ store.records

Recover ==
  /\ Running /\ mode = "degraded"
  /\ mode' = "available"
  /\ memory' = IF HasCheckpoint THEN Merged(store.checkpoint.projection, memory) ELSE memory
  /\ guards' = RecoveredGuards
  /\ store' = [store EXCEPT !.checkpoint = Checkpoint(memory', RecoveredGuards)]
  /\ Publish
  /\ UNCHANGED <<source, now, made, faults, starts>>

\* A process starts, the first time or after the last one stopped or crashed: what it was
\* doing is over, and its simulator and its memory are gone.
Begins ==
  /\ starts < MaxStarts /\ starts' = starts + 1
  /\ source' = NewSource
  /\ UNCHANGED <<now, made>>

\* With its storage: from the checkpoint, or with the first one.
StartAvailable ==
  /\ Begins
  /\ mode' = "available"
  /\ memory' = IF HasCheckpoint THEN store.checkpoint.projection
               ELSE Bootstrapped(now, "durable")
  /\ guards' = store.checkpoint.guards
  /\ Publish
  /\ store' = [store EXCEPT !.checkpoint = Checkpoint(memory', guards')]
  /\ UNCHANGED faults

\* Without it: nothing could be read.
StartEmpty ==
  /\ Begins
  /\ faults < MaxFaults /\ Fails
  /\ memory' = Bootstrapped(now, "volatile")
  /\ guards' = {}
  /\ Publish
  /\ UNCHANGED store

\* The checkpoint could be read and nothing could be written.
StartRestored ==
  /\ Begins
  /\ HasCheckpoint
  /\ faults < MaxFaults /\ Fails
  /\ memory' = store.checkpoint.projection
  /\ guards' = store.checkpoint.guards
  /\ Publish
  /\ UNCHANGED store

Pass ==
  /\ Running
  /\ now < MaxTime
  /\ now' = now + 1
  /\ UNCHANGED <<source, made, faults, starts, mode, memory, guards, store, shown>>

Next ==
  \/ Announce \/ FirstReading \/ Tick \/ EmitNext \/ EmitFutureDated \/ EmitInvalid
  \/ Replay \/ Reset \/ Pause \/ Resume \/ Disconnect \/ Reconnect
  \/ \E health \in {"healthy", "degraded"} : ReportHealth(health)
  \/ \E i \in DOMAIN Pattern : LateReport("reading", Pattern[i])
  \/ \E value \in {"online", "offline"} : LateReport("availability", value)
  \/ \E value \in {"healthy", "degraded"} : LateReport("health", value)
  \/ Broadcast \/ Recover \/ StartAvailable \/ StartEmpty \/ StartRestored \/ Pass

Spec == Init /\ [][Next]_evidenceVars

-----------------------------------------------------------------------------
(* Properties *)

\* A reading that is marked durable, in memory or in the checkpoint, is in the history:
\* the mark is set by the commit of that reading or by the replay of that very reading,
\* never by another one of the same time (materializePreparedTransition,
\* reconcileVolatileEvidence, mergeRecoveryProjection).
DurableReadingIsRecorded ==
  \A cell \in {memory.cells["reading"], store.checkpoint.projection.cells["reading"]} :
    cell.durability = "durable" /\ cell.at > 0 =>
      \E fact \in store.records :
        fact.dimension = "reading" /\ fact.at = cell.at /\ fact.value = cell.value

\* What the checkpoint says of a device never goes back in time, in any dimension: not by
\* a late fact, not when a process that could not read it recovers (the rule of application,
\* the merge of a recovery).
StoredEvidenceAdvances ==
  [][\A d \in Dimension : store.checkpoint.projection.cells[d].at
                          <= store'.checkpoint.projection.cells[d].at]_evidenceVars

\* Nor does what a process shows, while it runs: a recovery gives up nothing that it took
\* since it degraded.
KnownEvidenceAdvances ==
  [][starts' = starts => \A d \in Dimension : memory.cells[d].at <= memory'.cells[d].at]_evidenceVars

\* What is known of a device never goes back in time.
EvidenceAdvances == StoredEvidenceAdvances /\ KnownEvidenceAdvances

\* adr-device-availability-and-observation-freshness.md: the unknown that a process starts
\* with is a baseline and no evidence, so it never replaces an accepted fact.
AcceptedEvidenceIsKept ==
  [][store.checkpoint.projection.evidence \subseteq store'.checkpoint.projection.evidence]_evidenceVars

=============================================================================
