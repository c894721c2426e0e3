----------------------------- MODULE RealtimeSync -----------------------------
(***************************************************************************)
(* From the room engine to the screen: what the engine publishes           *)
(* (room-engine.ts, room-storage-recovery.ts, room-publication.ts), the    *)
(* stream of one connection (room-bff-sse.ts), the client that applies it  *)
(* and reconnects (room-realtime-client.ts), and the room the application  *)
(* shows (RoomProvider.tsx).                                               *)
(*                                                                         *)
(* A server action is a macrotask: everything published in it is written   *)
(* or queued before another starts.  The backend runs throughout, and has  *)
(* published a baseline before the first connection, since it starts its   *)
(* sources before it listens.  The network keeps the order of what one     *)
(* connection carries and may break it; a source that the client closed    *)
(* may still deliver what is on its way.                                   *)
(***************************************************************************)
EXTENDS RoomSnapshots, FiniteSets

CONSTANTS Conn,       \* connections, reused once both sides are done
          SlowConn,   \* those whose write may ask to wait for "drain"
          NoConn,     \* no connection
          Changes,    \* the sets of parts that an accepted event may change
          MaxEvents,  \* bound on platform events
          MaxFaults,  \* bound on storage failures and failed recoveries
          MaxBreaks,  \* bound on connections broken or given up by the client
          MaxFlight   \* the engine waits while more messages of a stream are on their way

ASSUME ConstantsAssumption ==
  /\ Changes \subseteq {{"sensor"}, {"led"}, {"commands"}, {"led", "commands"}, {}}
  /\ IsFiniteSet(Conn) /\ SlowConn \subseteq Conn /\ NoConn \notin Conn
  /\ {MaxEvents, MaxFaults, MaxBreaks, MaxFlight} \subseteq Nat

VARIABLES
  events,    \* accepted events and merges so far; the last one is the newest version
  faults,    \* storage failures so far
  breaks,    \* connections broken or given up by the client so far
  room,      \* the installed projection and the storage status
  aged,      \* the last reading of the sensor is stale by now
  baseline,  \* last snapshot published
  quiet,     \* outages that began without being published (history)
  link,      \* per connection: the stream of the server and the network
  client,    \* the closure of connectRoomRealtime; its roomSnapshot is shown.room if ready
  shown      \* the state of RoomProvider

server == <<events, faults, room, aged, baseline, quiet>>
vars == <<server, breaks, link, client, shown>>

\* rest is what the stream has not written of the active batch.
Link == [phase : {"idle", "requested", "open", "ended"}, revision : Nat,
         rest : Seq(MessageRecord), waiting : Seq(MessageRecord), draining : BOOLEAN,
         wire : Seq(MessageRecord)]

IdleLink == [phase |-> "idle", revision |-> 0, rest |-> <<>>, waiting |-> <<>>,
             draining |-> FALSE, wire |-> <<>>]

EndedLink == [IdleLink EXCEPT !.phase = "ended"]

Requested(links, k) == [links EXCEPT ![k] = [IdleLink EXCEPT !.phase = "requested"]]

Client == [source : Conn \cup {NoConn}, timer : BOOLEAN, closed : BOOLEAN,
           ready : BOOLEAN, revision : Nat]

-----------------------------------------------------------------------------
(* The stream of a connection *)

\* flush stops after the i-th frame, whose write returned false.
Stopped(l, i) ==
  LET active == Len(l.rest)
      frames == l.rest \o l.waiting
  IN  [l EXCEPT !.wire = @ \o SubSeq(frames, 1, i), !.draining = TRUE,
                !.rest = SubSeq(IF i <= active THEN l.rest ELSE frames, i + 1,
                                IF i <= active THEN active ELSE Len(frames)),
                !.waiting = IF i <= active THEN @ ELSE <<>>]

\* What flush may leave: every frame written, or a stop at one of them.
Flushed(k, l) ==
  {[l EXCEPT !.wire = @ \o l.rest \o l.waiting, !.rest = <<>>, !.waiting = <<>>,
             !.draining = FALSE]}
  \cup {Stopped(l, i) : i \in IF k \in SlowConn THEN 1..Len(l.rest \o l.waiting) ELSE {}}

\* The stream ends; what was written still arrives.
Ended(l) == [EndedLink EXCEPT !.wire = l.wire]

Numbered(l, deltas) == [i \in DOMAIN deltas |-> [deltas[i] EXCEPT !.revision = l.revision + i]]

\* Mutant of Overrun: the batch is dropped.
BatchDropped(l, next) == next

\* A batch finds one waiting already: the connection is given up.
Overrun(l, next) == Ended(l)

\* The listener of publication batches, with enqueue.
Enqueued(k, l, deltas) ==
  LET batch == Numbered(l, deltas)
      next == [l EXCEPT !.revision = @ + Len(deltas)]
  IN  IF l.phase # "open" \/ deltas = <<>> THEN {l}
      ELSE IF ~l.draining THEN Flushed(k, [next EXCEPT !.rest = batch])
      ELSE IF l.waiting = <<>> THEN {[next EXCEPT !.waiting = batch]}
      ELSE {Overrun(l, next)}

\* All choices of one link per connection.
Choices(candidates) ==
  {f \in [Conn -> UNION {candidates[k] : k \in Conn}] : \A k \in Conn : f[k] \in candidates[k]}

Publish(deltas) ==
  link' \in Choices([k \in Conn |-> Enqueued(k, link[k], deltas)])

\* Two publications of one macrotask.
PublishBoth(first, second) ==
  link' \in Choices([k \in Conn |->
              UNION {Enqueued(k, l, second) : l \in Enqueued(k, link[k], first)}])

-----------------------------------------------------------------------------
(* The room engine *)

\* snapshotAt(now); the installed snapshot is room.
SnapshotNow == [room EXCEPT !.parts["sensor"].stale = aged]

Install(next) == room' = next /\ baseline' = next

Deltas(next, platformBeforeOutcome) == PublicationDeltas(baseline, next, platformBeforeOutcome)

StorageAvailable == room.platform.status = "available"

MayFail == faults < MaxFaults

Failed == faults' = faults + 1

\* enterStorageDegraded: a new outage, unless the status was degraded already.
Degraded(next) ==
  IF next.platform.status = "degraded" THEN next
  ELSE [next EXCEPT !.platform.status = "degraded",
                    !.platform.outage = @ + (IF next.platform.status = "available" THEN 1 ELSE 0)]

\* What an event leaves of the room that is shown when it is processed.
Projected(changed, outage) ==
  [SnapshotNow EXCEPT !.parts =
     [p \in Part |-> IF p \in changed
                     THEN [version |-> events + 1, joint |-> Cardinality(changed) > 1,
                           outage |-> outage, stale |-> FALSE]
                     ELSE SnapshotNow.parts[p]]]

\* The stored event advances storedThroughSequence.
Watermarked(next, changed) ==
  [next EXCEPT !.platform.through = events + 1,
               !.platform.covers = [p \in Part |-> IF p \in changed THEN events + 1 ELSE @[p]]]

\* processPlatformEvent of an accepted event whose transaction commits.  An event
\* that changes nothing is accepted but does not apply.
EventStored(changed) ==
  LET next == Watermarked(Projected(changed, 0), changed)
  IN  /\ StorageAvailable
      /\ Publish(Deltas(next, FALSE))
      /\ Install(next)
      /\ UNCHANGED <<faults, quiet>>

\* The transaction is rolled back: the outcome follows the outage.
EventRolledBack(changed) ==
  LET next == Degraded(Projected(changed, room.platform.outage + 1))
  IN  /\ StorageAvailable /\ MayFail /\ Failed
      /\ Publish(Deltas(next, TRUE))
      /\ Install(next)
      /\ UNCHANGED quiet

EventInOutage(changed) ==
  LET next == Projected(changed, room.platform.outage)
  IN  /\ ~StorageAvailable
      /\ Publish(Deltas(next, FALSE))
      /\ Install(next)
      /\ UNCHANGED <<faults, quiet>>

ProcessEvent(changed) ==
  /\ events < MaxEvents
  /\ events' = events + 1
  /\ aged' = IF "sensor" \in changed THEN FALSE ELSE aged
  /\ EventStored(changed) \/ EventRolledBack(changed) \/ EventInOutage(changed)
  /\ UNCHANGED <<breaks, client, shown>>

\* The transaction of a quarantined event is rolled back: nothing is published.
QuarantineRolledBack ==
  /\ StorageAvailable /\ MayFail /\ Failed
  /\ room' = Degraded(room)
  /\ quiet' = quiet \cup {room'.platform.outage}
  /\ UNCHANGED <<events, breaks, aged, baseline, link, client, shown>>

\* A receipt, an outbox mutation or an identity check fails: enterStorageDegraded.
StorageFails ==
  /\ StorageAvailable /\ MayFail /\ Failed
  /\ Publish(Deltas(Degraded(room), FALSE))
  /\ Install(Degraded(room))
  /\ UNCHANGED <<events, breaks, aged, quiet, client, shown>>

\* Time passes without a reading.
Age ==
  /\ ~aged
  /\ aged' = TRUE
  /\ UNCHANGED <<events, faults, breaks, room, baseline, quiet, link, client, shown>>

\* notifyFreshnessChanges, for a change since the last publication.
FreshnessTick ==
  /\ SnapshotNow.parts["sensor"].stale # baseline.parts["sensor"].stale
  /\ \/ /\ Publish(Deltas(SnapshotNow, FALSE))
        /\ Install(SnapshotNow)
        /\ UNCHANGED faults
     \/ /\ StorageAvailable /\ MayFail /\ Failed
        /\ Publish(Deltas(Degraded(SnapshotNow), TRUE))
        /\ Install(Degraded(SnapshotNow))
  /\ UNCHANGED <<events, breaks, aged, quiet, client, shown>>

-----------------------------------------------------------------------------
(* attemptStorageRecovery *)

InStatus(status) == [room EXCEPT !.platform.status = status]

Recovering == InStatus("recovering")

\* What the next publication is compared with once "recovering" was published.
EnteringDeltas == Deltas(Recovering, FALSE)

\* Storage cannot be opened: enterStorageDegraded publishes a new status only.
ProbeFails ==
  /\ MayFail /\ Failed
  /\ IF Degraded(room) = room
     THEN UNCHANGED <<room, baseline, link>>
     ELSE Publish(Deltas(Degraded(room), FALSE)) /\ Install(Degraded(room))
  /\ UNCHANGED quiet

\* Memory and checkpoint have different active commands: "recovering" stays.
RecoveryConflict ==
  /\ MayFail /\ Failed
  /\ Publish(EnteringDeltas)
  /\ Install(Recovering)
  /\ UNCHANGED quiet

\* The queue overflows, the cutover is aborted, or the transaction rolled back.
RecoveryStops(status) ==
  /\ MayFail /\ Failed
  /\ PublishBoth(EnteringDeltas,
                 PublicationDeltas(Recovering, InStatus(status), FALSE))
  /\ Install(InStatus(status))
  /\ UNCHANGED quiet

\* The gap is stored: the watermark stands for all that is installed.
Recovered(changed) ==
  LET next == Projected(changed, room.platform.outage)
  IN  [next EXCEPT !.platform =
         [status |-> "available", outage |-> @.outage, through |-> events',
          covers |-> [p \in Part |-> next.parts[p].version]]]

\* The merge may bring back stored commands, or mark those failed at startup.
RecoverySucceeds ==
  \E changed \in {{}, {"led", "commands"}} :
    /\ changed # {} => events < MaxEvents
    /\ events' = IF changed = {} THEN events ELSE events + 1
    /\ PublishBoth(EnteringDeltas, RecoveryDeltas(Recovering, Recovered(changed)))
    /\ Install(Recovered(changed))
    /\ UNCHANGED <<faults, quiet>>

RecoveryFails ==
  /\ \/ ProbeFails \/ RecoveryConflict
     \/ \E status \in {"degraded", "overflowed", room.platform.status} : RecoveryStops(status)
  /\ UNCHANGED events

Recover ==
  /\ ~StorageAvailable
  /\ RecoverySucceeds \/ RecoveryFails
  /\ UNCHANGED <<breaks, aged, client, shown>>

-----------------------------------------------------------------------------
(* Connections *)

\* startRoomRealtimePublisher: subscribe, then send the room as it is now.
Accept(k) ==
  /\ link[k].phase = "requested"
  /\ \E l \in Flushed(k, [IdleLink EXCEPT !.phase = "open",
                            !.rest = <<Message("room.snapshot", "led", SnapshotNow)>>]) :
       link' = [link EXCEPT ![k] = l]
  /\ UNCHANGED <<server, breaks, client, shown>>

\* onDrain.  Only once what was written has arrived: draining earlier leaves the
\* same stream as a write that did not ask to wait, which Flushed allows too.
Drain(k) ==
  /\ link[k].phase = "open" /\ link[k].draining /\ link[k].wire = <<>>
  /\ \E l \in Flushed(k, [link[k] EXCEPT !.draining = FALSE]) : link' = [link EXCEPT ![k] = l]
  /\ UNCHANGED <<server, breaks, client, shown>>

\* The network loses the connection, and what is on its way.  A connection that
\* the client has closed is only abandoned.
Break(k) ==
  /\ link[k].phase \in {"requested", "open"} /\ client.source = k /\ breaks < MaxBreaks
  /\ breaks' = breaks + 1
  /\ link' = [link EXCEPT ![k] = EndedLink]
  /\ UNCHANGED <<server, client, shown>>

\* The server notices that the client closed its source.
Abandon(k) ==
  /\ link[k].phase # "idle" /\ client.source # k
  /\ link' = [link EXCEPT ![k] = IdleLink]
  /\ UNCHANGED <<server, breaks, client, shown>>

-----------------------------------------------------------------------------
(* The client *)

\* scheduleReconnect, by the source of a connection.
Interrupted(k) ==
  IF client.closed \/ client.source # k THEN client
  ELSE [client EXCEPT !.source = NoConn, !.timer = TRUE]

\* Mutant of Listens: messages of a replaced source are handled too.
AnySource(k) == ~client.closed

\* The guard of handleMessage.
Listens(k) == ~client.closed /\ client.source = k

\* applyRealtimeMessage does not throw.
Fits(message) ==
  IF message.type = "room.snapshot" THEN ~client.ready
  ELSE client.ready /\ message.revision = client.revision + 1

Receive(k) ==
  /\ link[k].wire # <<>>
  /\ LET message == Head(link[k].wire)
     IN  IF Listens(k) /\ Fits(message)
         THEN /\ client' = [client EXCEPT !.ready = TRUE, !.revision = message.revision]
              /\ shown' = [ready |-> TRUE, room |-> Applied(shown.room, message)]
         ELSE /\ client' = IF Listens(k) THEN Interrupted(k) ELSE client
              /\ UNCHANGED shown
  /\ link' = [link EXCEPT ![k].wire = Tail(@)]
  /\ UNCHANGED <<server, breaks>>

\* The "error" event of a source whose stream ended.
Error(k) ==
  /\ link[k].phase = "ended" /\ link[k].wire = <<>>
  /\ client' = Interrupted(k)
  /\ link' = [link EXCEPT ![k] = IdleLink]
  /\ UNCHANGED <<server, breaks, shown>>

RequestBaseline ==
  /\ client.source # NoConn /\ breaks < MaxBreaks
  /\ breaks' = breaks + 1
  /\ client' = Interrupted(client.source)
  /\ UNCHANGED <<server, link, shown>>

\* Mutant of Connecting: the snapshot of the last connection is kept.
KeepingSnapshot(k) == [client EXCEPT !.source = k, !.timer = FALSE]

\* What connectSocket leaves.
Connecting(k) == [client EXCEPT !.source = k, !.timer = FALSE, !.ready = FALSE, !.revision = 0]

\* The reconnect timer fires.
Reconnect ==
  /\ client.timer
  /\ \E k \in Conn : /\ link[k].phase = "idle"
                     /\ client' = Connecting(k)
                     /\ link' = Requested(link, k)
  /\ UNCHANGED <<server, breaks, shown>>

CloseClient ==
  /\ ~client.closed /\ breaks < MaxBreaks
  /\ breaks' = breaks + 1
  /\ client' = [client EXCEPT !.closed = TRUE, !.timer = FALSE, !.source = NoConn]
  /\ UNCHANGED <<server, link, shown>>

-----------------------------------------------------------------------------
Init ==
  /\ events = 0 /\ faults = 0 /\ breaks = 0
  /\ room = FirstSnapshot /\ baseline = FirstSnapshot
  /\ aged = FALSE /\ quiet = {}
  /\ \E k \in Conn :
       /\ client = [source |-> k, timer |-> FALSE, closed |-> FALSE, ready |-> FALSE,
                    revision |-> 0]
       /\ link = Requested([c \in Conn |-> IdleLink], k)
  /\ shown = [ready |-> FALSE, room |-> FirstSnapshot]

\* MaxFlight bounds how far a client may lag on a stream that does not stall.
InFlight == \A k \in Conn : Len(link[k].wire) <= MaxFlight

Engine ==
  /\ InFlight
  /\ \/ \E changed \in Changes : ProcessEvent(changed)
     \/ QuarantineRolledBack \/ StorageFails \/ Age \/ FreshnessTick \/ Recover

Next ==
  \/ Engine
  \/ RequestBaseline \/ Reconnect \/ CloseClient
  \/ \E k \in Conn : Accept(k) \/ Drain(k) \/ Break(k) \/ Abandon(k) \/ Receive(k) \/ Error(k)

Spec == Init /\ [][Next]_vars

\* Timers fire, accepted connections are served, what was written arrives, a
\* slow client drains, and storage comes back.  (All but the first are
\* weak fairness with the guard of the action in the place of its ENABLED, which TLC is
\* slow to evaluate.)
FairSpec ==
  /\ Spec
  /\ WF_vars(Reconnect)
  /\ []<>~(InFlight /\ ~StorageAvailable) \/ []<><<InFlight /\ Recover>>_vars
  /\ []<>~(InFlight /\ SnapshotNow.parts["sensor"].stale # baseline.parts["sensor"].stale)
       \/ []<><<InFlight /\ FreshnessTick>>_vars
  /\ \A k \in Conn :
       /\ []<>(link[k].phase # "requested") \/ []<><<Accept(k)>>_vars
       /\ []<>~(link[k].phase = "open" /\ link[k].draining /\ link[k].wire = <<>>)
            \/ []<><<Drain(k)>>_vars
       /\ []<>~(link[k].phase # "idle" /\ client.source # k) \/ []<><<Abandon(k)>>_vars
       /\ []<>(link[k].wire = <<>>) \/ []<><<Receive(k)>>_vars
       /\ []<>~(link[k].phase = "ended" /\ link[k].wire = <<>>) \/ []<><<Error(k)>>_vars

-----------------------------------------------------------------------------
(* Properties *)

\* Types; a stream that does not wait for "drain" has nothing left to write.
TypeOK ==
  /\ {events, faults, breaks} \subseteq Nat
  /\ room \in Snapshot /\ baseline \in Snapshot
  /\ aged \in BOOLEAN /\ quiet \subseteq Nat
  /\ link \in [Conn -> Link] /\ client \in Client
  /\ shown \in [ready : BOOLEAN, room : Snapshot]
  /\ \A k \in Conn : ~link[k].draining => link[k].rest = <<>> /\ link[k].waiting = <<>>

\* What a connection has still to deliver.
Outgoing(k) == link[k].wire \o link[k].rest \o link[k].waiting

\* A revision is never skipped or repeated on the way to the client, whatever
\* is queued, cut short or given up: the client never sees a revision gap.
StreamIsContiguous ==
  \A k \in Conn :
    client.source = k =>
      \A i \in DOMAIN Outgoing(k) :
        LET message == Outgoing(k)[i]
        IN  /\ message.type = "room.snapshot" <=> ~client.ready /\ i = 1
            /\ message.revision = IF client.ready THEN client.revision + i ELSE i - 1

\* The application never shows an older part of the room after a newer one, nor
\* an earlier outage or watermark, also across reconnects.
ShownNeverGoesBack ==
  [][ /\ \A p \in Part : shown'.room.parts[p].version >= shown.room.parts[p].version
      /\ shown'.room.platform.outage >= shown.room.platform.outage
      /\ shown'.room.platform.through >= shown.room.platform.through ]_shown

\* A watermark is shown after what it covers: no client believes something
\* stored that it has not seen.
OutcomeBeforeWatermark ==
  \A p \in Part : shown.room.platform.covers[p] <= shown.room.parts[p].version

\* What happened in an outage is shown after the outage itself, unless the
\* outage began with a quarantined event.
OutageShownFirst ==
  \A p \in Part : \/ shown.room.parts[p].outage <= shown.room.platform.outage
                  \/ shown.room.parts[p].outage \in quiet

\* A change of the LED together with its commands is shown in one step: never
\* the LED of a newer event with the commands of an older one, or conversely.
CommandShownWithDevice ==
  LET led == shown.room.parts["led"]
      commands == shown.room.parts["commands"]
  IN  /\ led.joint => commands.version >= led.version
      /\ commands.joint => led.version >= commands.version

\* The order of the deltas of one operation never lets a client believe what is not so
\* (buildPublicationDeltas).
ShownIsConsistent ==
  /\ OutcomeBeforeWatermark
  /\ OutageShownFirst
  /\ CommandShownWithDevice

CaughtUp(k) == client.source = k /\ client.ready /\ link[k].phase = "open" /\ Outgoing(k) = <<>>

\* A client that has received everything shows the installed room, or the room
\* as of now; only an outage that began unpublished may be missing.
CaughtUpIsCurrent ==
  \A k \in Conn :
    CaughtUp(k) => /\ shown.room.parts \in {room.parts, SnapshotNow.parts}
                   /\ \/ shown.room.platform = room.platform
                      \/ room.platform.outage \in quiet

\* Once the room changes no more, the application comes to show it, whatever
\* connections were lost, refused or given up on the way.
EventuallySynced == <>[](client.closed \/ shown = [ready |-> TRUE, room |-> SnapshotNow])

\* "The same SSE connection publishes a revision-linked platform.updated
\* whenever storage status changes, even if no device changes"
\* (docs/decisions/adr-storage-and-observability.md:338).
StorageStatusPublished == baseline.platform.status = room.platform.status
=============================================================================
