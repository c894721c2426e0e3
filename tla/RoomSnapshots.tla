---------------------------- MODULE RoomSnapshots ----------------------------
(***************************************************************************)
(* What room snapshots and realtime messages hold, the deltas between two  *)
(* snapshots (room-publication-policy.ts, room-publication.ts) and what a  *)
(* client makes of a message (room-realtime-client.ts).                    *)
(*                                                                         *)
(* One temperature sensor, whose reading goes stale, stands for all, next  *)
(* to the LED, which has commands.  A part of a snapshot is known by the number of the *)
(* event that changed it last; its other fields are what the properties    *)
(* of RealtimeSync relate.  History additions and telemetry samples travel *)
(* in the same messages and are not modelled.                              *)
(*                                                                         *)
(* Operators introduced as mutants are plausible bugs that the properties  *)
(* of RealtimeSync must catch; nothing in the specification uses them.     *)
(***************************************************************************)
EXTENDS Naturals, Sequences

Part == {"sensor", "led", "commands"}

\* joint: the event changed the LED and its commands together; outage: the
\* storage outage it happened in, 0 if it was stored; stale: freshness.
PartRecord == [version : Nat, joint : BOOLEAN, outage : Nat, stale : BOOLEAN]

Status == {"available", "degraded", "overflowed", "recovering"}

\* through is the last event that storedThroughSequence counts, covers the version
\* of each part by then; outage numbers the outages, as changedAt tells them apart.
PlatformRecord == [status : Status, outage : Nat, through : Nat, covers : [Part -> Nat]]

Snapshot == [parts : [Part -> PartRecord], platform : PlatformRecord]

FirstSnapshot ==
  [parts |-> [p \in Part |-> [version |-> 0, joint |-> FALSE, outage |-> 0, stale |-> FALSE]],
   platform |-> [status |-> "available", outage |-> 0, through |-> 0, covers |-> [p \in Part |-> 0]]]

\* A message carries the part of room that its type and device name; the rest is
\* left as in FirstSnapshot and is not read.
Message(type, device, room) ==
  LET carried == CASE type = "room.snapshot" -> room
                   [] type = "device.updated" ->
                        [FirstSnapshot EXCEPT !.parts[device] = room.parts[device]]
                   [] type = "commands.updated" -> [FirstSnapshot EXCEPT !.parts = room.parts]
                   [] type = "platform.updated" -> [FirstSnapshot EXCEPT !.platform = room.platform]
  IN  [type |-> type, device |-> device, room |-> carried, revision |-> 0]

MessageType == {"room.snapshot", "device.updated", "commands.updated", "platform.updated"}

MessageRecord == [type : MessageType, device : Part, room : Snapshot, revision : Nat]

-----------------------------------------------------------------------------
(* Deltas *)

CommandsChanged(previous, next) == previous.parts["commands"] # next.parts["commands"]

\* A device that changed, unless its change is part of a commands.updated message.
DeviceDelta(previous, next, d) ==
  IF /\ previous.parts[d] # next.parts[d]
     /\ ~(d = "led" /\ CommandsChanged(previous, next))
  THEN <<Message("device.updated", d, next)>> ELSE <<>>

DeviceDeltas(previous, next) ==
  DeviceDelta(previous, next, "sensor") \o DeviceDelta(previous, next, "led")

CommandDelta(previous, next) ==
  IF CommandsChanged(previous, next)
  THEN <<Message("commands.updated", "led", next)>> ELSE <<>>

PlatformDelta(previous, next) ==
  IF previous.platform # next.platform
  THEN <<Message("platform.updated", "led", next)>> ELSE <<>>

\* Mutant of PublicationDeltas: the platform always comes first.
PlatformFirst(previous, next, platformBeforeOutcome) ==
  PlatformDelta(previous, next) \o DeviceDeltas(previous, next) \o CommandDelta(previous, next)

\* buildPublicationDeltas
PublicationDeltas(previous, next, platformBeforeOutcome) ==
  LET outcome == DeviceDeltas(previous, next) \o CommandDelta(previous, next)
      platform == PlatformDelta(previous, next)
  IN  IF platformBeforeOutcome THEN platform \o outcome ELSE outcome \o platform

\* publishRecoveryCommit: everything that a recovery may have changed, then the
\* platform with the gap.
RecoveryDeltas(previous, next) ==
  (IF previous.parts # next.parts
   THEN <<Message("commands.updated", "led", next)>> ELSE <<>>)
  \o <<Message("platform.updated", "led", next)>>

-----------------------------------------------------------------------------
(* Applying a message to the snapshot a client holds *)

\* Mutant of Applied: commands.updated leaves the devices alone.
AppliedToCommands(snapshot, message) ==
  CASE message.type = "room.snapshot" -> message.room
    [] message.type = "device.updated" ->
         [snapshot EXCEPT !.parts[message.device] = message.room.parts[message.device]]
    [] message.type = "commands.updated" ->
         [snapshot EXCEPT !.parts["commands"] = message.room.parts["commands"]]
    [] message.type = "platform.updated" -> [snapshot EXCEPT !.platform = message.room.platform]

Applied(snapshot, message) ==
  CASE message.type = "room.snapshot" -> message.room
    [] message.type = "device.updated" ->
         [snapshot EXCEPT !.parts[message.device] = message.room.parts[message.device]]
    [] message.type = "commands.updated" -> [snapshot EXCEPT !.parts = message.room.parts]
    [] message.type = "platform.updated" -> [snapshot EXCEPT !.platform = message.room.platform]
=============================================================================
