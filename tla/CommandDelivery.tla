--------------------------- MODULE CommandDelivery ---------------------------
(***************************************************************************)
(* The life of LED set.power commands in one backend process with its      *)
(* SQLite file: admission, delivery through the dispatch outbox, the LED   *)
(* source with its persistent receipts, confirmation by state reports,     *)
(* timeouts and retries, degraded storage, recovery, crash and restart.    *)
(*                                                                         *)
(* The process is single threaded.  A macrotask (a request, a timer) runs  *)
(* to completion, microtasks included, before the next one; but every      *)
(* storage transaction in it is a step of its own here, since each one may *)
(* commit, be rolled back, have an unknown outcome, or be the last thing   *)
(* the process does.  inputs is the room input coordinator's FIFO (module  *)
(* InputCoordinator) together with the events a macrotask still has to     *)
(* deliver; attempts holds the scheduled dispatch microtasks.              *)
(*                                                                         *)
(* One LED device, as in the temperature room runtime.  Availability and   *)
(* health of the device, telemetry, the public snapshot and the runtime    *)
(* session records are not modelled here.                                  *)
(*                                                                         *)
(* Operators introduced as mutants are plausible bugs that the properties  *)
(* below must catch; nothing in the specification uses them.               *)
(***************************************************************************)
EXTENDS Naturals, Sequences, FiniteSets, SequencesExt

CONSTANTS
  Command,        \* command identifiers, a pool of numbers: the code orders them
  RecentLimit,    \* finished commands the room keeps: 20 in selectRecentCommands
  NoCommand,      \* stands for "caused by no LED command"
  Power,          \* {"on", "off"}
  Plan,           \* LED scenarios: records [kind, delay]
  RetryDelay,     \* retryIntervalMs
  TimeoutDelay,   \* setPowerTimeoutMs
  MaxTime,        \* bound: no time passes after this, except to reach a set timer
  MaxFaults,      \* bound on storage failures and crashes
  StartupFaults   \* ways storage may fail at startup: subset of {"empty", "restored"}

ASSUME CommandDeliveryAssumption ==
  /\ Command \subseteq Nat /\ IsFiniteSet(Command)
  /\ RecentLimit \in Nat \ {0}
  /\ NoCommand \notin Command
  /\ {"off"} \subseteq Power
  /\ Plan \subseteq [kind : {"report", "rejection", "none"}, delay : Nat]
  /\ RetryDelay \in Nat \ {0}
  /\ TimeoutDelay \in Nat \ {0}
  /\ MaxTime \in Nat \ {0}
  /\ MaxFaults \in Nat
  /\ StartupFaults \subseteq {"empty", "restored"}

VARIABLES
  now,       \* the clock
  faults,    \* failures so far
  process,   \* "running", or why it is down: "crashed", "fatal", "uncaught"
  boot,      \* progress of startup: "closing", "sources", "resume", "done"
  storage,   \* platform.storage.status
  room,      \* in memory: [cmds, obs, known, guards, startupFailures]
  control,   \* the command controller: [work, timeoutAt, retryAt]
  inputs,    \* sequence of inputs still to be processed
  attempts,  \* sequence of commands with a dispatch microtask
  led,       \* the LED scenario: [armed, emitted, restoring, lamp]
  disk       \* SQLite: [cmds, obs, guards, known, outbox, receipts]

vars ==
  <<now, faults, process, boot, storage, room, control, inputs, attempts, led, disk>>

-----------------------------------------------------------------------------
(* Data *)

NoTime == 0

Status == {"none", "accepted", "pending", "confirmed", "failed", "timed_out"}
ActiveStatus == {"accepted", "pending"}
TerminalStatus == {"confirmed", "failed", "timed_out"}
Durability == {"durable", "volatile"}

\* A projected command.  ended is when it became terminal; admitted and lifecycle
\* are the code's durability and lifecycleDurability; source is the report that
\* confirmed the command.
NoRecord ==
  [status |-> "none", power |-> "off", requestedAt |-> NoTime, delivery |-> "none",
   origin |-> NoTime, deadline |-> NoTime, ended |-> NoTime, admitted |-> "durable",
   lifecycle |-> "durable", source |-> NoCommand]

\* The LED's observed power: the device time of the report and, as the event's
\* history record keeps it, the time the platform received it.
NoObservation == [power |-> "off", at |-> NoTime, receivedAt |-> NoTime]

NoReceipt ==
  [kind |-> "absent", power |-> "off", due |-> NoTime, acceptedAt |-> NoTime,
   terminal |-> FALSE]

NoPlan == [receipt |-> NoReceipt, durable |-> FALSE]

\* An input of the coordinator.  durable says that the event carries an outbox
\* mutation; the kinds "mark_uncertain" and "close" are bare outbox mutations.
Input(kind, c, power, at, durable) ==
  [kind |-> kind, cmd |-> c, power |-> power, at |-> at, durable |-> durable]

IsActive(cmds, c) == cmds[c].status \in ActiveStatus
IsTerminal(cmds, c) == cmds[c].status \in TerminalStatus
ActiveCommands(cmds) == {c \in Command : IsActive(cmds, c)}

EmptyRoom ==
  [cmds |-> [c \in Command |-> NoRecord], obs |-> NoObservation,
   known |-> {}, guards |-> {}, startupFailures |-> {}]

EmptyControl ==
  [work |-> [c \in Command |-> "none"],
   timeoutAt |-> [c \in Command |-> NoTime],
   retryAt |-> [c \in Command |-> NoTime]]

\* attachLedScenario("off")
FreshLed ==
  [armed |-> [c \in Command |-> NoPlan], emitted |-> {}, restoring |-> {},
   lamp |-> "off"]

EmptyDisk ==
  [cmds |-> [c \in Command |-> NoRecord], obs |-> NoObservation,
   guards |-> {}, known |-> {},
   outbox |-> [c \in Command |-> "none"],
   receipts |-> [c \in Command |-> NoReceipt]]

Init ==
  /\ now = 1
  /\ faults = 0
  /\ process = "running"
  /\ boot = "done"
  /\ storage = "available"
  /\ room = EmptyRoom
  /\ control = EmptyControl
  /\ inputs = <<>>
  /\ attempts = <<>>
  /\ led = FreshLed
  /\ disk = EmptyDisk

Running == process = "running"
Quiet == Running /\ inputs = <<>> /\ attempts = <<>>
Idle == Quiet /\ boot = "done"
Available == storage = "available"

Fault ==
  /\ faults < MaxFaults
  /\ faults' = faults + 1

\* enterStorageDegraded; the recovery timer it starts is the Recover action.
EnterDegraded ==
  /\ Fault
  /\ storage' = "degraded"

\* The process ends, leaving the disk as d.
Halt(cause, d) ==
  /\ process' = cause
  /\ disk' = d
  /\ room' = EmptyRoom
  /\ control' = EmptyControl
  /\ inputs' = <<>>
  /\ attempts' = <<>>
  /\ led' = FreshLed
  /\ boot' = "closing"
  /\ storage' = "available"
  /\ UNCHANGED now

\* A transaction whose outcome is unknown is fatal; the disk may be any of D.
Indeterminate(D) ==
  /\ Fault
  /\ \E d \in D : Halt("fatal", d)

-----------------------------------------------------------------------------
(* The room projector: what an event does to the commands and observation   *)

Ignored == [accepted |-> FALSE, cmds |-> room.cmds, obs |-> room.obs]

\* compareTerminalCommandsDescending
EndsAfter(cmds, d, c) ==
  \/ cmds[d].ended > cmds[c].ended
  \/ cmds[d].ended = cmds[c].ended /\ d > c

\* The finished commands that the order puts before c.
NewerOutcomes(cmds, c) ==
  {d \in Command : IsTerminal(cmds, d) /\ EndsAfter(cmds, d, c)}

\* A finished command that RecentLimit newer ones push off the list.
Surplus(cmds, c) ==
  IsTerminal(cmds, c) /\ Cardinality(NewerOutcomes(cmds, c)) >= RecentLimit

\* selectRecentCommands: of the finished commands the newest stay.
Selected(cmds) ==
  [c \in Command |-> IF Surplus(cmds, c) THEN NoRecord ELSE cmds[c]]

Changed(c, record) ==
  [accepted |-> TRUE, cmds |-> Selected([room.cmds EXCEPT ![c] = record]),
   obs |-> room.obs]

\* moveToRecent of a command that ends at a time.
Ended(record, status, at) == [record EXCEPT !.status = status, !.ended = at]

\* A state report confirms the pending command it matches, in source order
\* after the delivery and received before the deadline.
Confirms(c, power, at) ==
  /\ room.cmds[c].status = "pending"
  /\ now < room.cmds[c].deadline
  /\ at >= room.cmds[c].origin
  /\ power = room.cmds[c].power

\* A report that is not later, in device time, than the observation held.
Stale(e) == e.at <= room.obs.at

ApplyReport(e) ==
  IF Stale(e)
  THEN [Ignored EXCEPT !.accepted = TRUE]
  ELSE [accepted |-> TRUE,
        obs |-> [power |-> e.power, at |-> e.at, receivedAt |-> now],
        cmds |-> Selected(
          [c \in Command |->
             IF Confirms(c, e.power, e.at)
             THEN [Ended(room.cmds[c], "confirmed", e.at) EXCEPT !.source = e.cmd]
             ELSE room.cmds[c]])]

\* Mutant of Pending: every delivery evidence restarts the timeout.
PendingAnew(record, delivery, at) ==
  [record EXCEPT !.status = "pending", !.delivery = delivery, !.origin = at,
                 !.deadline = at + TimeoutDelay]

\* The first delivery evidence fixes the deadline.
Pending(record, delivery, at) ==
  [record EXCEPT
     !.status = "pending", !.delivery = delivery, !.origin = at,
     !.deadline = IF record.status = "pending" THEN @ ELSE at + TimeoutDelay]

\* Mutant of MayDispatch: a handoff that could not be stored is not repeated.
MayDispatchOnce(old) ==
  old.status = "accepted" \/ (old.status = "pending" /\ old.delivery = "uncertain")

\* A definite handoff follows the admission or an uncertain attempt, or repeats
\* one that could not be stored.
MayDispatch(old) ==
  \/ old.status = "accepted"
  \/ old.status = "pending" /\ (old.delivery = "uncertain" \/ old.lifecycle = "volatile")

ApplyDispatched(e) ==
  LET old == room.cmds[e.cmd]
      new == Pending(old, "handed_off", e.at)
  IN  IF MayDispatch(old) /\ e.at >= old.requestedAt
      THEN Changed(e.cmd, IF room.obs.at >= e.at /\ room.obs.power = old.power
                          THEN Ended(new, "confirmed", room.obs.at) ELSE new)
      ELSE Ignored

\* assertChronological: a failure does not precede the request nor the delivery.
InOrder(old, at) ==
  /\ at >= old.requestedAt
  /\ old.status = "pending" => at >= old.origin

Apply(e) ==
  CASE e.kind = "requested" ->
         IF ActiveCommands(room.cmds) = {} /\ room.cmds[e.cmd].status = "none"
         THEN Changed(e.cmd, [NoRecord EXCEPT !.status = "accepted", !.power = e.power,
                                              !.requestedAt = e.at])
         ELSE Ignored
    [] e.kind = "rejected" ->
         IF room.cmds[e.cmd].status = "none"
         THEN Changed(e.cmd, [Ended(NoRecord, "failed", e.at) EXCEPT
                                !.power = e.power, !.requestedAt = e.at])
         ELSE Ignored
    [] e.kind = "dispatched" -> ApplyDispatched(e)
    [] e.kind = "uncertain" ->
         IF room.cmds[e.cmd].status = "accepted" /\ e.at >= room.cmds[e.cmd].requestedAt
         THEN Changed(e.cmd, Pending(room.cmds[e.cmd], "uncertain", e.at))
         ELSE Ignored
    [] e.kind \in {"failed", "rejection"} ->
         IF IsActive(room.cmds, e.cmd) /\ InOrder(room.cmds[e.cmd], e.at)
         THEN Changed(e.cmd, Ended(room.cmds[e.cmd], "failed", e.at))
         ELSE Ignored
    [] e.kind = "timed_out" ->
         IF room.cmds[e.cmd].status = "pending" /\ e.at >= room.cmds[e.cmd].deadline
         THEN Changed(e.cmd, Ended(room.cmds[e.cmd], "timed_out", e.at))
         ELSE Ignored
    [] e.kind = "report" -> ApplyReport(e)

-----------------------------------------------------------------------------
(* The event processor: identities, reconciliation and durability stamps     *)

\* Outcomes of the LED carry a stable message id, one per command; the ids of
\* all other events are fresh.
HasStableId(e) == e.kind \in {"report", "rejection"} /\ e.cmd # NoCommand

IsDuplicate(e) ==
  /\ HasStableId(e)
  /\ e.cmd \in room.known \/ (e.cmd \in room.guards /\ ~Available)

\* prepareEvent: the candidate state, with the storage mode of its start.
Prepared(e) == IF IsDuplicate(e) THEN Ignored ELSE Apply(e)

\* A redelivered outcome accepted while storage was away makes the
\* confirmation it caused durable.
Reconciled(e) ==
  IF HasStableId(e) /\ e.kind = "report" /\ e.cmd \in room.guards
  THEN {c \in Command : /\ room.cmds[c].status = "confirmed"
                        /\ room.cmds[c].lifecycle = "volatile"
                        /\ room.cmds[c].source = e.cmd}
  ELSE {}

\* Mutant of Stamped: a changed lifecycle is marked durable during an outage too.
StampedDurable(cmds, durability, promoted) ==
  [c \in Command |->
     IF cmds[c] \in {room.cmds[c], NoRecord} THEN cmds[c]
     ELSE [cmds[c] EXCEPT
             !.admitted = IF room.cmds[c].status = "none" THEN durability ELSE @,
             !.lifecycle = "durable"]]

\* materializePreparedTransition
Stamped(cmds, durability, promoted) ==
  [c \in Command |->
     IF cmds[c] \notin {room.cmds[c], NoRecord}
     THEN [cmds[c] EXCEPT
             !.admitted = IF room.cmds[c].status = "none" THEN durability ELSE @,
             !.lifecycle = durability]
     ELSE IF c \in promoted
          THEN [cmds[c] EXCEPT !.lifecycle = "durable"]
          ELSE cmds[c]]

Closed(outbox, C) ==
  [c \in Command |-> IF c \in C /\ outbox[c] # "none" THEN "closed" ELSE outbox[c]]

\* Mutant of OutboxAfter: the admission stores no intent.
NoIntentStored(e, p) ==
  CASE e.kind = "requested" -> disk.outbox
    [] e.kind = "dispatched" /\ e.durable -> [disk.outbox EXCEPT ![e.cmd] = "delivered"]
    [] e.kind = "uncertain" /\ e.durable -> [disk.outbox EXCEPT ![e.cmd] = "uncertain"]
    [] OTHER -> Closed(disk.outbox, {c \in Command : IsTerminal(p.cmds, c)})

\* commitPreparedEvent: the mutation the event carries, else the closure of
\* the intent of a command the event makes terminal.
OutboxAfter(e, p) ==
  LET Put(state) == [disk.outbox EXCEPT ![e.cmd] = state]
  IN  CASE e.kind = "requested" /\ e.durable -> Put("ready")
        [] e.kind = "dispatched" /\ e.durable -> Put("delivered")
        [] e.kind = "uncertain" /\ e.durable -> Put("uncertain")
        [] e.kind = "failed" /\ e.durable -> Put("closed")
        [] e.kind \in {"failed", "rejected", "rejection", "timed_out"} /\ ~e.durable
             -> Closed(disk.outbox, {e.cmd})
        [] OTHER -> Closed(disk.outbox,
             {c \in Reconciled(e) : p.cmds[c].status = "confirmed"} \cup
             {c \in Command : /\ p.cmds[c].status = "confirmed"
                              /\ room.cmds[c].status # "confirmed"})

Identity(e) == IF HasStableId(e) THEN {e.cmd} ELSE {}

RoomAfterCommit(e, p) ==
  IF p.accepted
  THEN [room EXCEPT !.cmds = Stamped(p.cmds, "durable", Reconciled(e)), !.obs = p.obs,
                    !.known = @ \cup Identity(e), !.guards = @ \ Identity(e)]
  ELSE room

\* A quarantined event is recorded on its own; an accepted one commits its
\* identity, the outbox and the projection checkpoint together.
DiskAfterCommit(e, p) ==
  LET after == RoomAfterCommit(e, p)
  IN  IF p.accepted
      THEN [disk EXCEPT !.cmds = after.cmds, !.obs = after.obs, !.guards = after.guards,
                        !.known = @ \cup Identity(e), !.outbox = OutboxAfter(e, p)]
      ELSE disk

RoomAfterVolatile(e, p) ==
  IF p.accepted
  THEN [room EXCEPT !.cmds = Stamped(p.cmds, "volatile", {}), !.obs = p.obs,
                    !.guards = @ \cup (Identity(e) \ room.known)]
  ELSE room

-----------------------------------------------------------------------------
(* The command controller's bookkeeping *)

\* The commands of C whose deadline has passed; scheduleTimeout sets no timer
\* for these but times them out at once.
Expired(cmds, C) ==
  {c \in C : cmds[c].status = "pending" /\ cmds[c].deadline <= now}

\* Mutant of ScheduleTimeouts: only a command of durable lifecycle times out.
ScheduleDurableTimeouts(ctl, cmds, C) ==
  [ctl EXCEPT !.timeoutAt =
     [c \in Command |->
        IF /\ c \in C /\ cmds[c].status = "pending" /\ cmds[c].lifecycle = "durable"
           /\ ctl.timeoutAt[c] = NoTime /\ cmds[c].deadline > now
        THEN cmds[c].deadline ELSE ctl.timeoutAt[c]]]

\* scheduleTimeout for the commands of C: one timer per pending command.
ScheduleTimeouts(ctl, cmds, C) ==
  [ctl EXCEPT !.timeoutAt =
     [c \in Command |->
        IF /\ c \in C /\ cmds[c].status = "pending"
           /\ ctl.timeoutAt[c] = NoTime /\ cmds[c].deadline > now
        THEN cmds[c].deadline ELSE ctl.timeoutAt[c]]]

TimedOut(c, deadline) == Input("timed_out", c, "off", deadline, FALSE)
\* C has at most one element, like every set of active commands (SingleActive).
TimeoutInputs(cmds, C) == SetToSeq({TimedOut(c, cmds[c].deadline) : c \in C})

\* Mutant of ClearCompleted: timers of commands that go on are cleared.
ClearAll(ctl, cmds, C) ==
  [ctl EXCEPT !.timeoutAt = [c \in Command |-> IF c \in C THEN NoTime ELSE @[c]]]

\* clearCompletedTimers
ClearCompleted(ctl, cmds, C) ==
  LET done == {c \in C : ~IsActive(cmds, c)}
  IN  [work |-> [c \in Command |-> IF c \in done THEN "none" ELSE ctl.work[c]],
       timeoutAt |-> [c \in Command |-> IF c \in done THEN NoTime ELSE ctl.timeoutAt[c]],
       retryAt |-> [c \in Command |-> IF c \in done THEN NoTime ELSE ctl.retryAt[c]]]

IsLifecycle(e) == e.kind # "report"

\* onEventProcessed, and the tail of requestCommand: an accepted admission gets
\* dispatch work and a microtask to attempt it.
AfterProcessing(e, accepted, after, rest) ==
  LET subject == IF IsLifecycle(e) THEN {e.cmd} ELSE {}
      cleared == ClearCompleted(control, after.cmds, subject \cup ActiveCommands(room.cmds))
      late == {c \in Expired(after.cmds, subject) : cleared.timeoutAt[c] = NoTime}
      admitted == e.kind = "requested" /\ accepted
  IN  IF accepted
      THEN /\ control' =
                [ScheduleTimeouts(cleared, after.cmds, subject) EXCEPT
                   !.work = IF admitted
                            THEN [@ EXCEPT ![e.cmd] = after.cmds[e.cmd].admitted] ELSE @]
           /\ inputs' = rest \o TimeoutInputs(after.cmds, late)
           /\ attempts' = IF admitted THEN Append(attempts, e.cmd) ELSE attempts
      ELSE /\ inputs' = rest
           /\ UNCHANGED <<control, attempts>>

-----------------------------------------------------------------------------
(* Processing one input *)

\* closeExpiredCommandBeforeStateReport: a report at or after the deadline of
\* a pending command first times that command out, in a transaction of its own.
CurrentEvent ==
  LET head == Head(inputs)
      late == Expired(room.cmds, Command)
  IN  IF head.kind = "report" /\ late # {}
      THEN [event |-> LET c == CHOOSE c \in late : TRUE
                      IN  TimedOut(c, room.cmds[c].deadline),
            rest |-> inputs]
      ELSE [event |-> head, rest |-> Tail(inputs)]

IsEvent(e) == e.kind \notin {"mark_uncertain", "close"}

\* processPlatformEvent, by the outcome of its transaction.
ProcessEvent ==
  /\ Running
  /\ inputs # <<>>
  /\ IsEvent(Head(inputs))
  /\ LET e == CurrentEvent.event
         rest == CurrentEvent.rest
         p == Prepared(e)
         Volatile(startupFailures) ==
           LET after == RoomAfterVolatile(e, p)
           IN  /\ room' = [after EXCEPT !.startupFailures = @ \cup startupFailures]
               /\ AfterProcessing(e, p.accepted, after, rest)
               /\ UNCHANGED <<now, process, boot, led, disk>>
         \* closeRestoredVolatileCommands remembers what it could not store.
         unstored == IF boot = "closing" THEN {e.cmd} ELSE {}
     IN  \/ /\ ~Available
            /\ Volatile(unstored)
            /\ UNCHANGED <<faults, storage>>
         \/ /\ Available
            /\ room' = RoomAfterCommit(e, p)
            /\ disk' = DiskAfterCommit(e, p)
            /\ AfterProcessing(e, p.accepted, room', rest)
            /\ UNCHANGED <<now, faults, process, boot, storage, led>>
         \/ /\ Available
            /\ EnterDegraded
            /\ Volatile(unstored)
         \/ /\ Available
            /\ Indeterminate({disk, DiskAfterCommit(e, p)})

\* persistOutboxMutation: dropped without storage, else stored together with a
\* checkpoint of the projection.
PersistOutboxMutation ==
  /\ Running
  /\ inputs # <<>>
  /\ ~IsEvent(Head(inputs))
  /\ LET m == Head(inputs)
         stored == [disk EXCEPT
                      !.cmds = room.cmds, !.obs = room.obs, !.guards = room.guards,
                      !.outbox = IF m.kind = "close" THEN Closed(@, {m.cmd})
                                 ELSE [@ EXCEPT ![m.cmd] = "uncertain"]]
         Dequeue == /\ inputs' = Tail(inputs)
                    /\ UNCHANGED <<now, process, boot, room, control, attempts, led>>
     IN  \/ /\ ~Available
            /\ Dequeue
            /\ UNCHANGED <<faults, storage, disk>>
         \/ /\ Available
            /\ Dequeue
            /\ disk' = stored
            /\ UNCHANGED <<faults, storage>>
         \/ /\ Available
            /\ Dequeue
            /\ EnterDegraded
            /\ UNCHANGED disk
         \/ /\ Available
            /\ Indeterminate({disk, stored})

-----------------------------------------------------------------------------
(* The LED source *)

NewReceipt(c, plan) ==
  [kind |-> plan.kind, power |-> room.cmds[c].power, due |-> now + plan.delay,
   acceptedAt |-> now, terminal |-> plan.kind = "none"]

WithReceipt(c, r) == [disk EXCEPT !.receipts[c] = r]
Marked(r) == [r EXCEPT !.terminal = TRUE]

Outcome(c, r) == Input(r.kind, c, r.power, r.due, FALSE)

\* emitOutcome, with the message handed to the adapter after the given inputs.
Emit(c, r, before) ==
  /\ led' = [led EXCEPT !.emitted = @ \cup {c}, !.restoring = @ \ {c},
                        !.armed[c] = NoPlan,
                        !.lamp = IF r.kind = "report" THEN r.power ELSE @]
  /\ inputs' = inputs \o before \o <<Outcome(c, r)>>

\* deliverOutcome of a receipt whose terminal marker is not stored yet, on a
\* disk that already is d.
MarkTerminalAndEmit(c, r, d, before) ==
  \/ /\ Emit(c, r, before)
     /\ disk' = WithReceipt(c, Marked(r))
     /\ UNCHANGED <<now, faults, process, boot, storage, room>>
  \/ /\ EnterDegraded
     /\ Emit(c, r, before)
     /\ disk' = d
     /\ UNCHANGED <<now, process, boot, room>>

\* The same from a timer or at startup, where storage may be away: the marker
\* is then neither stored nor known to be rolled back, and the code throws.
\* An outcome is armed, or restored, only while it has not been emitted.
DeliverOutcome(c, r, durable) ==
  \/ /\ ~durable \/ r.terminal
     /\ Emit(c, r, <<>>)
     /\ UNCHANGED <<now, faults, process, boot, storage, room, control, attempts, disk>>
  \/ /\ durable /\ ~r.terminal
     /\ Available
     /\ \/ MarkTerminalAndEmit(c, r, disk, <<>>) /\ UNCHANGED <<control, attempts>>
        \/ Indeterminate({disk, WithReceipt(c, Marked(r))})
  \/ /\ durable /\ ~r.terminal
     /\ ~Available
     /\ Halt("uncaught", disk)
     /\ UNCHANGED faults

LedTimerFires(c) ==
  /\ Idle
  /\ led.armed[c] # NoPlan
  /\ led.armed[c].receipt.due <= now
  /\ DeliverOutcome(c, led.armed[c].receipt, led.armed[c].durable)

-----------------------------------------------------------------------------
(* Dispatching *)

\* scheduleReceipt has nothing to do.
NothingToSchedule(c, r) ==
  r.kind = "none" \/ r.terminal \/ c \in led.emitted \/ led.armed[c] # NoPlan

\* The LED accepted the command with receipt r; the lifecycle event precedes
\* whatever the LED reported during the dispatch (the dispatch scope).
HandedOff(c, r, durable, d) ==
  LET dispatched == <<Input("dispatched", c, r.power, r.acceptedAt, durable)>>
      idlePlan == NothingToSchedule(c, r)
      Only == /\ disk' = d
              /\ inputs' = inputs \o dispatched
              /\ UNCHANGED <<now, faults, process, boot, storage, room>>
  IN  \/ /\ idlePlan
         /\ Only
         /\ UNCHANGED led
      \/ /\ ~idlePlan /\ r.due > now
         /\ Only
         /\ led' = [led EXCEPT !.armed[c] = [receipt |-> r, durable |-> durable]]
      \/ /\ ~idlePlan /\ r.due <= now
         /\ IF durable
            THEN MarkTerminalAndEmit(c, r, d, dispatched)
            ELSE /\ Emit(c, r, dispatched)
                 /\ disk' = d
                 /\ UNCHANGED <<now, faults, process, boot, storage, room>>

\* Storage failed before the LED looked its receipt up: it may or may not have
\* accepted the command earlier.
DeliveryUncertain(c, ctl) ==
  /\ EnterDegraded
  /\ inputs' = Append(inputs,
       Input(IF room.cmds[c].status = "accepted" THEN "uncertain" ELSE "mark_uncertain",
             c, "off", now, TRUE))
  /\ control' = [ctl EXCEPT !.retryAt[c] = IF @ = NoTime THEN now + RetryDelay ELSE @]
  /\ UNCHANGED <<now, process, boot, room, led, disk>>

\* Storage failed while inserting the receipt: definitely not handed off.
NotHandedOff(c, ctl) ==
  /\ EnterDegraded
  /\ inputs' = Append(inputs, Input("failed", c, "off", now, TRUE))
  /\ control' = ctl
  /\ UNCHANGED <<now, process, boot, room, led, disk>>

\* The durable route: the LED first stores, or finds, its receipt.  Between
\* that and the terminal marker the process may also die.
DispatchDurable(c, ctl) ==
  LET found == disk.receipts[c]
      Receipts == IF found # NoReceipt THEN {found}
                  ELSE {NewReceipt(c, plan) : plan \in Plan}
  IN  \/ \E r \in Receipts :
           \/ HandedOff(c, r, TRUE, WithReceipt(c, r)) /\ control' = ctl
           \/ Indeterminate({disk, WithReceipt(c, r)} \cup
                             IF r.due <= now THEN {WithReceipt(c, Marked(r))} ELSE {})
      \/ DeliveryUncertain(c, ctl)
      \/ found = NoReceipt /\ NotHandedOff(c, ctl)

DispatchVolatile(c, ctl) ==
  \E plan \in Plan :
    /\ HandedOff(c, NewReceipt(c, plan), FALSE, disk)
    /\ control' = ctl

\* attemptDispatch with the controller state ctl.  Its fallback for work whose
\* command is not active is never needed (AttemptsAreForActiveCommands).
Attempt(c, ctl) ==
  LET overdue == Expired(room.cmds, {c}) # {}
      scheduled == ScheduleTimeouts(ctl, room.cmds, {c})
      MayAttempt == ctl.work[c] = "volatile" \/ (ctl.work[c] = "durable" /\ Available)
      Quietly == /\ control' = ctl
                 /\ UNCHANGED <<now, faults, process, boot, storage, room, led, disk>>
  IN  \/ /\ ~MayAttempt
         /\ Quietly
         /\ UNCHANGED inputs
      \/ /\ MayAttempt /\ overdue
         /\ Quietly
         /\ inputs' = Append(inputs, TimedOut(c, room.cmds[c].deadline))
      \/ /\ MayAttempt /\ ~overdue
         /\ IF ctl.work[c] = "durable" THEN DispatchDurable(c, scheduled)
            ELSE DispatchVolatile(c, scheduled)

\* What is left of a step's microtasks dies with the process.
AttemptsBecome(rest) ==
  attempts' = IF process' = "running" THEN rest ELSE <<>>

\* The microtask scheduled by an admission or a recovery.
RunAttempt ==
  /\ Running /\ boot = "done"
  /\ inputs = <<>> /\ attempts # <<>>
  /\ Attempt(Head(attempts), control)
  /\ AttemptsBecome(Tail(attempts))

\* The retry timer of an uncertain delivery.
RetryFires(c) ==
  /\ Idle
  /\ control.retryAt[c] # NoTime /\ control.retryAt[c] <= now
  /\ Attempt(c, [control EXCEPT !.retryAt[c] = NoTime])
  /\ AttemptsBecome(attempts)

TimeoutFires(c) ==
  /\ Idle
  /\ control.timeoutAt[c] # NoTime /\ control.timeoutAt[c] <= now
  /\ control' = [control EXCEPT !.timeoutAt[c] = NoTime]
  /\ inputs' = <<TimedOut(c, control.timeoutAt[c])>>
  /\ UNCHANGED <<now, faults, process, boot, storage, room, attempts, led, disk>>

-----------------------------------------------------------------------------
(* Requests *)

\* Mutant of Fresh: an identifier is new when the lists of commands do not have it.
FreshOnList(c) == room.cmds[c].status = "none" /\ disk.cmds[c].status = "none"

\* Identifiers are random and never repeat: only one that has left no trace names
\* a new command.
Fresh(c) ==
  /\ room.cmds[c] = NoRecord /\ disk.cmds[c] = NoRecord
  /\ disk.outbox[c] = "none" /\ disk.receipts[c] = NoReceipt
  /\ c \notin room.known \cup room.guards \cup room.startupFailures
  /\ c \notin disk.known \cup disk.guards
  /\ c \notin led.emitted /\ led.armed[c] = NoPlan

\* requestCommand for a command the device can take; refused while recovering.
RequestCommand(c, power) ==
  /\ Idle
  /\ storage # "recovering"
  /\ Fresh(c)
  /\ ActiveCommands(room.cmds) = {}
  /\ inputs' = <<Input("requested", c, power, now, Available)>>
  /\ UNCHANGED <<now, faults, process, boot, storage, room, control, attempts, led, disk>>

\* requestCommand while the device has an active command.
RejectCommand(c, power) ==
  /\ Idle
  /\ storage # "recovering"
  /\ Fresh(c)
  /\ ActiveCommands(room.cmds) # {}
  /\ inputs' = <<Input("rejected", c, power, now, FALSE)>>
  /\ UNCHANGED <<now, faults, process, boot, storage, room, control, attempts, led, disk>>

-----------------------------------------------------------------------------
(* Recovery *)

\* Mutant of MergedCommands: what is stored wins whenever it knows the command.
StoredWins ==
  Selected([c \in Command |->
              IF disk.cmds[c].status = "none" THEN room.cmds[c] ELSE disk.cmds[c]])

\* mergeRecoveryProjection: memory wins, except over a stored terminal status.  A
\* command that ended in the outage and left the list of memory is taken from
\* storage as it is there, active.
MergedCommands ==
  Selected([c \in Command |->
     IF \/ disk.cmds[c].status = "none"
        \/ /\ room.cmds[c].status # "none"
           /\ IsTerminal(room.cmds, c) \/ ~IsTerminal(disk.cmds, c)
     THEN room.cmds[c] ELSE disk.cmds[c]])

\* promoteStartupVolatileCommandFailures
Promoted(cmds) ==
  [c \in Command |-> IF c \in room.startupFailures /\ IsTerminal(cmds, c)
                     THEN [cmds[c] EXCEPT !.lifecycle = "durable"] ELSE cmds[c]]

MergedRoom ==
  [cmds |-> Promoted(MergedCommands),
   obs |-> IF room.obs.at > disk.obs.at THEN room.obs ELSE disk.obs,
   known |-> room.known \cup disk.known,
   guards |-> (room.guards \cup disk.guards) \ (room.known \cup disk.known),
   startupFailures |-> {}]

\* Mutant of ActiveConflict: the active commands are not compared.
NoConflictCheck == FALSE

\* hasVolatileDurableActiveCommandConflict
ActiveConflict ==
  \E c \in ActiveCommands(room.cmds), d \in ActiveCommands(disk.cmds) : c # d

\* reconcileOutboxAfterRecovery over the open intents, in the projection cmds.
Reconcile(cmds, ctl) ==
  LET open == {c \in Command : disk.outbox[c] \notin {"none", "closed"}}
      gone == {c \in open : ~IsActive(cmds, c)}
      \* an active volatile command of the device postpones the closure
      postponed == {c \in gone : \E d \in ActiveCommands(cmds) :
                                   d # c /\ cmds[d].lifecycle = "volatile"}
      late == Expired(cmds, open)
      delivered == {c \in open \ (gone \cup late) : disk.outbox[c] = "delivered"}
      again == open \ (gone \cup late \cup delivered)
      close == {Input("close", c, "off", now, FALSE) : c \in gone \ postponed}
  IN  /\ control' =
           [ScheduleTimeouts(ctl, cmds, delivered \cup again) EXCEPT
              !.work = [c \in Command |-> IF c \in gone \cup delivered THEN "none"
                                          ELSE IF c \in again THEN "durable" ELSE @[c]]]
      /\ \E closings \in SetToSeqs(close) : inputs' = TimeoutInputs(cmds, late) \o closings
      /\ attempts' = SetToSeq(again)

\* attemptStorageRecovery, run by the recovery timer.
Recover ==
  /\ Idle
  /\ ~Available
  /\ LET merged == MergedRoom
         saved == [disk EXCEPT !.cmds = merged.cmds, !.obs = merged.obs,
                               !.guards = merged.guards,
                               !.known = merged.known]
     IN  \/ /\ ActiveConflict
            /\ storage' = "recovering"
            /\ UNCHANGED <<now, faults, process, boot, room, control, inputs, attempts,
                           led, disk>>
         \/ /\ ~ActiveConflict
            /\ storage' = "available"
            /\ room' = merged
            /\ disk' = saved
            /\ Reconcile(merged.cmds, control)
            /\ UNCHANGED <<now, faults, process, boot, led>>
         \/ /\ ~ActiveConflict
            /\ storage = "recovering"
            /\ storage' = "degraded"
            /\ Fault
            /\ UNCHANGED <<now, process, boot, room, control, inputs, attempts, led, disk>>
         \/ /\ ~ActiveConflict
            /\ Indeterminate({disk, saved})

-----------------------------------------------------------------------------
(* The rest of the process *)

\* Any other transaction of the engine (freshness, telemetry): it saves the
\* projection it has, or fails.
OtherTransaction ==
  /\ Idle
  /\ Available
  /\ \/ /\ disk' = [disk EXCEPT !.cmds = room.cmds, !.obs = room.obs, !.guards = room.guards]
        /\ UNCHANGED <<faults, storage>>
     \/ /\ EnterDegraded
        /\ UNCHANGED disk
  /\ UNCHANGED <<now, process, boot, room, control, inputs, attempts, led>>

\* A macrotask takes no time.  Past the bound, time only passes to reach a timer.
TimerAhead ==
  \E c \in Command : \/ control.timeoutAt[c] > now
                      \/ control.retryAt[c] > now
                      \/ led.armed[c].receipt.due > now

Tick ==
  /\ Idle \/ ~Running
  /\ now < MaxTime \/ TimerAhead
  /\ now' = now + 1
  /\ UNCHANGED <<faults, process, boot, storage, room, control, inputs, attempts, led, disk>>

\* The process dies between two transactions, or is stopped.
Crash ==
  /\ Running
  /\ Fault
  /\ Halt("crashed", disk)

-----------------------------------------------------------------------------
(* Startup *)

Restored == [cmds |-> disk.cmds, obs |-> disk.obs, known |-> disk.known,
             guards |-> disk.guards, startupFailures |-> {}]

\* closeRestoredVolatileCommands
LostCommands(rm) ==
  SetToSeq({Input("failed", c, "off", now, FALSE) :
              c \in {d \in ActiveCommands(rm.cmds) : rm.cmds[d].admitted = "volatile"}})

\* The engine is built: on good storage, on storage that fails after the
\* checkpoint was read, or on storage that cannot be read at all.
Restart ==
  /\ ~Running
  /\ process' = "running"
  /\ \/ /\ storage' = "available"
        /\ room' = Restored
        /\ UNCHANGED faults
     \/ /\ "restored" \in StartupFaults
        /\ EnterDegraded
        /\ room' = [Restored EXCEPT !.known = {}]
     \/ /\ "empty" \in StartupFaults
        /\ EnterDegraded
        /\ room' = EmptyRoom
  /\ inputs' = LostCommands(room')
  /\ UNCHANGED <<now, boot, control, attempts, led, disk>>

\* start(): the sources come up once the lost commands are closed, and list
\* the receipts whose plans they resume.
ListReceipts ==
  /\ Quiet
  /\ boot = "closing"
  /\ LET listed == {c \in Command : disk.receipts[c] # NoReceipt}
         Resume(C) == /\ boot' = "sources"
                      /\ led' = [led EXCEPT !.restoring = C]
                      /\ UNCHANGED <<now, process, room, control, inputs, attempts, disk>>
     IN  \/ Available /\ Resume(listed) /\ UNCHANGED <<faults, storage>>
         \/ ~Available /\ Resume({}) /\ UNCHANGED <<faults, storage>>
         \/ Available /\ EnterDegraded /\ Resume({})
         \/ Available /\ Indeterminate({disk})

\* restoreDurablePlans, one receipt: a plan that is not due is armed again, a
\* due one is delivered, also when its marker is already terminal.
RestorePlan(c) ==
  /\ Quiet
  /\ boot = "sources"
  /\ c \in led.restoring
  /\ LET r == disk.receipts[c]
     IN  \/ /\ r.kind = "none" \/ r.due > now
            /\ led' = [led EXCEPT !.restoring = @ \ {c},
                         !.armed[c] = IF r.kind = "none" THEN NoPlan
                                      ELSE [receipt |-> r, durable |-> TRUE]]
            /\ UNCHANGED <<now, faults, process, boot, storage, room, control,
                           inputs, attempts, disk>>
         \/ /\ r.kind # "none" /\ r.due <= now
            /\ DeliverOutcome(c, r, TRUE)

\* reportCurrentState
ReportCurrentState ==
  /\ Quiet
  /\ boot = "sources"
  /\ led.restoring = {}
  /\ boot' = "resume"
  /\ inputs' = <<Input("report", NoCommand, led.lamp, now, FALSE)>>
  /\ UNCHANGED <<now, faults, process, storage, room, control, attempts, led, disk>>

\* reschedulePendingCommands, then reconcileOutboxAfterRecovery if storage is
\* available, else the recovery timer.  No command is overdue here: the state
\* report just processed timed it out.
ResumeCommands ==
  /\ Quiet
  /\ boot = "resume"
  /\ boot' = "done"
  /\ LET ctl == ScheduleTimeouts(control, room.cmds, Command)
     IN  \/ /\ Available
            /\ Reconcile(room.cmds, ctl)
         \/ /\ ~Available
            /\ control' = ctl
            /\ UNCHANGED <<inputs, attempts>>
  /\ UNCHANGED <<now, faults, process, storage, room, led, disk>>

-----------------------------------------------------------------------------

Next ==
  \/ ProcessEvent
  \/ PersistOutboxMutation
  \/ RunAttempt
  \/ \E c \in Command : RetryFires(c) \/ TimeoutFires(c) \/ LedTimerFires(c)
  \/ \E c \in Command, power \in Power : RequestCommand(c, power) \/ RejectCommand(c, power)
  \/ Recover
  \/ OtherTransaction
  \/ Tick
  \/ Crash
  \/ Restart
  \/ ListReceipts
  \/ \E c \in Command : RestorePlan(c)
  \/ ReportCurrentState
  \/ ResumeCommands

Spec == Init /\ [][Next]_vars

\* The event loop runs what is queued, timers that are due fire, the recovery
\* timer is re-armed until recovery succeeds, the process is started again, and
\* time passes: the loop serves timers however many requests come in between.
\* Nothing obliges a user to send a command or storage to fail.
Fairness ==
  /\ WF_vars(ProcessEvent)
  /\ WF_vars(PersistOutboxMutation)
  /\ WF_vars(RunAttempt)
  /\ \A c \in Command : /\ SF_vars(RetryFires(c))
                        /\ SF_vars(TimeoutFires(c))
                        /\ SF_vars(LedTimerFires(c))
                        /\ WF_vars(RestorePlan(c))
  /\ SF_vars(Recover)
  /\ SF_vars(Tick)
  /\ WF_vars(Restart)
  /\ WF_vars(ListReceipts)
  /\ WF_vars(ReportCurrentState)
  /\ WF_vars(ResumeCommands)

FairSpec == Spec /\ Fairness

-----------------------------------------------------------------------------
(* Properties *)

Records ==
  [status : Status, power : Power, requestedAt : Nat,
   delivery : {"none", "uncertain", "handed_off"},
   origin : Nat, deadline : Nat, ended : Nat, admitted : Durability, lifecycle : Durability,
   source : Command \cup {NoCommand}]

Observations == [power : Power, at : Nat, receivedAt : Nat]

Receipts ==
  [kind : {"absent", "report", "rejection", "none"}, power : Power, due : Nat,
   acceptedAt : Nat, terminal : BOOLEAN]

InputKinds ==
  {"requested", "rejected", "dispatched", "uncertain", "failed", "rejection",
   "timed_out", "report", "mark_uncertain", "close"}

\* Every variable keeps the shape its declaration names.
TypeOK ==
  /\ now \in Nat \ {0}
  /\ faults \in 0..MaxFaults
  /\ process \in {"running", "crashed", "fatal", "uncaught"}
  /\ boot \in {"closing", "sources", "resume", "done"}
  /\ storage \in {"available", "degraded", "recovering"}
  /\ room \in [cmds : [Command -> Records], obs : Observations, known : SUBSET Command,
               guards : SUBSET Command, startupFailures : SUBSET Command]
  /\ control \in [work : [Command -> {"none"} \cup Durability],
                  timeoutAt : [Command -> Nat], retryAt : [Command -> Nat]]
  /\ \A i \in 1..Len(inputs) :
       inputs[i] \in [kind : InputKinds, cmd : Command \cup {NoCommand}, power : Power,
                      at : Nat, durable : BOOLEAN]
  /\ \A i \in 1..Len(attempts) : attempts[i] \in Command
  /\ led \in [armed : [Command -> [receipt : Receipts, durable : BOOLEAN]],
              emitted : SUBSET Command, restoring : SUBSET Command, lamp : Power]
  /\ disk \in [cmds : [Command -> Records], obs : Observations, guards : SUBSET Command,
               known : SUBSET Command,
               outbox : [Command -> {"none", "ready", "uncertain", "delivered", "closed"}],
               receipts : [Command -> Receipts]]

\* The LED never has two active commands, neither in memory nor in the stored
\* checkpoint, although recovery merges the commands of both.
SingleActive ==
  /\ Cardinality(ActiveCommands(room.cmds)) <= 1
  /\ Cardinality(ActiveCommands(disk.cmds)) <= 1

\* A lifecycle state marked durable is stored as it is shown, in the middle of
\* an outage too: the marker the API exposes can be believed.  And whenever
\* storage is available and nothing is queued, the checkpoint holds all that
\* clients are shown.
DurableMeansStored ==
  /\ Running => \A c \in Command :
       room.cmds[c].status # "none" /\ room.cmds[c].lifecycle = "durable"
         => disk.cmds[c] = room.cmds[c]
  /\ Idle /\ Available => disk.cmds = room.cmds /\ disk.obs = room.obs

\* A command admitted as durable stays stored, with its outbox intent unless it
\* was refused at admission: no crash or recovery loses it.  Nor does the LED
\* hold a receipt of a command that was not stored so first.
AdmissionSurvives ==
  /\ Running => \A c \in Command :
       room.cmds[c].status # "none" /\ room.cmds[c].admitted = "durable" =>
         /\ disk.cmds[c].status # "none"
         /\ disk.outbox[c] # "none" \/ room.cmds[c].status = "failed"
  /\ \A c \in Command : disk.receipts[c] # NoReceipt =>
       /\ disk.outbox[c] # "none"
       /\ disk.cmds[c].status # "none" => disk.cmds[c].admitted = "durable"

\* An active command that was admitted in an outage and came back from the checkpoint
\* in a recovery, to a process that never had work for it or has done with it: no outbox
\* intent tells of it.
Orphaned(c) ==
  IsActive(room.cmds, c) /\ room.cmds[c].admitted = "volatile" /\ control.work[c] # "volatile"

\* A pending command always has its timeout timer set at its own deadline,
\* through retries, redelivery, recovery and restart, unless it is orphaned; and
\* dispatch microtasks and retry timers are of active commands, so attemptDispatch
\* never has to make up a command that is gone.
TimersMatchCommands ==
  /\ Idle => \A c \in Command :
       room.cmds[c].status = "pending" /\ ~Orphaned(c) =>
         control.timeoutAt[c] = room.cmds[c].deadline
  /\ Idle => \A c \in Command : control.retryAt[c] # NoTime => IsActive(room.cmds, c)
  /\ \A i \in 1..Len(attempts) : IsActive(room.cmds, attempts[i])

\* No durable delivery is forgotten: with storage available an active command
\* has reached the LED; one that still waits for its first attempt has its
\* intent in the outbox.
NothingLeftUnsent ==
  Idle => \A c \in ActiveCommands(room.cmds) :
    /\ room.cmds[c].admitted = "durable" /\ Available => disk.outbox[c] = "delivered"
    /\ room.cmds[c].status = "accepted" => ~Available /\ disk.outbox[c] = "ready"

\* The first delivery evidence fixes the deadline: as long as the list holds the
\* command, retries, a later handoff, recovery and restart never move it, in memory or
\* in storage.
DeadlineFixed ==
  [][\A c \in Command :
       /\ room.cmds[c].status = "pending" /\ room'.cmds[c].status # "none"
            => room'.cmds[c].deadline = room.cmds[c].deadline
       /\ disk.cmds[c].status = "pending" /\ disk'.cmds[c].status # "none"
            => disk'.cmds[c].deadline = disk.cmds[c].deadline]_vars

\* The LED accepts a command for the first time only while it is an active,
\* durable command with an open intent, and before its deadline.
DispatchOnlyLive ==
  [][\A c \in Command :
       disk.receipts[c] = NoReceipt /\ disk'.receipts[c] # NoReceipt
       => /\ IsActive(room.cmds, c)
          /\ room.cmds[c].admitted = "durable"
          /\ room.cmds[c].status = "pending" => now < room.cmds[c].deadline
          /\ disk.outbox[c] \in {"ready", "uncertain"}]_vars

\* Automatic retry promises one delivery and one deadline, whatever is rolled
\* back, retried or restarted in between (attemptDispatch, Pending).
OneDelivery == DeadlineFixed /\ DispatchOnlyLive

\* What clients are shown and what is stored keep the promise of CommandPromise.
Shown ==
  [c \in Command |-> IF Running THEN room.cmds[c].status ELSE disk.cmds[c].status]
Stored == [c \in Command |-> disk.cmds[c].status]

Promise ==
  INSTANCE CommandPromise
    WITH Limit <- RecentLimit, up <- Running, seen <- Shown, kept <- Stored

ImplementsPromise == Promise!Spec

\* The end of a command is stored: it is finished in the checkpoint, or its intent
\* shows that it was there and has left the list.
EndIsStored(c) ==
  ~IsActive(disk.cmds, c) /\ (IsTerminal(disk.cmds, c) \/ disk.outbox[c] # "none")

\* A stored end is final: no redelivery, recovery or restart makes the command
\* active again, in memory or in storage, also after the list has dropped it.  Only
\* an end that storage has not seen can be undone, by MergedCommands.
StoredEndIsFinal ==
  [][\A c \in Command :
       EndIsStored(c) => ~IsActive(disk'.cmds, c) /\ ~IsActive(room'.cmds, c)]_vars

\* Every stored active command comes to its end, whatever fails in between, as
\* long as failures stop and the process is restarted, unless it ends up orphaned.
EventuallySettles ==
  \A c \in Command :
    IsActive(disk.cmds, c) ~> ~IsActive(disk.cmds, c) \/ (Idle /\ Orphaned(c))

-----------------------------------------------------------------------------
(* What the storage decision record says, and the code does not do *)

\* "A matching report confirms only when receivedAt < deadlineAt."
ReportConfirmsBeforeDeadline ==
  [][\A c \in Command :
       room.cmds[c].status \in ActiveStatus /\ room'.cmds[c].status = "confirmed"
         => room'.obs.receivedAt < room'.cmds[c].deadline]_vars

\* "Every SQLite failure maps to exactly one reaction": none of them is an
\* uncaught exception out of a timer or of start().
NoUncaughtFailure == process # "uncaught"

\* An active volatile command in a checkpoint "is recoverable only as an
\* explanation, not as work": an active one belongs to the running process.
VolatileCommandIsOfThisProcess == Idle => \A c \in Command : ~Orphaned(c)

\* "terminal reconciliation closes the intent without dispatch": once an outcome of the LED
\* is accepted, its command does not become active again.  RecentLimit matters here.
AcceptedOutcomeIsFinal ==
  [][\A c \in Command :
       Running /\ c \in room.guards \cup room.known /\ ~IsActive(room.cmds, c)
         => ~IsActive(room'.cmds, c)]_vars

=============================================================================
