# Verification of the smart room control platform

TLA+ specifications of the smart room control platform in `src/`, model-checked
with TLC, and theorems about them checked with TLAPS. Every definition is
translated from the TypeScript source; `PROJECT.json` names the lines each one
stands for, the runs, the theorems, the disagreements found and the hazards the
properties aim at.

## 1. The system

One backend process owns one room. Sources (a simulated LED, simulated
temperature sensors) deliver messages to adapters, adapters turn them into
platform events, and the room engine serialises all events and timer callbacks,
projects them onto the room's state, stores them in SQLite and publishes the
resulting snapshots over server-sent events to the frontend. Users send
`set.power` commands to the LED. Storage may fail at any transaction and come
back later; the process then goes on in memory ("degraded") and merges its
memory with the stored checkpoint when storage is back.

| Component (under `src/`) | State | Operations | Hard behaviour |
|---|---|---|---|
| Input coordinator `platform/room/room-input-coordinator.ts` | FIFO queue, drain flag, open recovery cutover, intake and discard flags | receive an event or timer, drain, begin/commit/abort a cutover, open, close and drain | calls made from inside the handler that is being called; exceptions; a bound that latches |
| Command controller `platform/command-processing/set-power-command-controller.ts` | dispatch work, timeout and retry handles per command | request, attempt a dispatch, schedule, reconcile the outbox, reschedule | timers against reports; retries; restart with work half done |
| Event processor `platform/event-processing/` | accepted identities, volatile guards, dedup window | prepare, commit, reconcile, forget | redelivery; durable and volatile acceptance of one input |
| Room projection `platform/read-model/room-projection.ts` | devices, observations, active and recent commands | apply one event of each type | device time against receive time; late and stale reports |
| Commit and outbox `platform/room/room-event-commit.ts`, `storage/sqlite-room-storage.ts` | SQLite: checkpoint, facts, identities, outbox, receipts | one transaction per event | committed, rolled back, or unknown |
| Room engine `platform/room/room-engine.ts` | storage status, runtime session, recovery timer | start, stop, process an event, degrade, terminate | every storage failure in every place |
| Recovery `platform/room/room-storage-recovery.ts`, `read-model/room-recovery-policy.ts` | none of its own | probe, merge, write the gap, install | merging two histories of the same command |
| LED source `simulator/src/led/`, receipts `adapters/simulator/led/` | power, persistent receipts, planned outcomes, timers | accept, deliver an outcome, mark terminal, restore plans | crash between accepting and marking; outcome due in an outage |
| Publication and SSE `platform/room/room-publication.ts`, `api/room-bff-sse.ts` | baseline, subscribers; per stream: revision, active and waiting batch | notify, subscribe, send | subscribe racing an update; slow clients |
| Realtime client `frontend/.../room-realtime-client.ts` | connection, room, revision | connect, receive, reconnect | messages of an old connection; skipped revisions |
| Runtime sessions `platform/room/room-storage-session.ts` | open session, outage evidence | activate, close, record failure | a crash between any two transactions must leave its outage in one gap |
| Storage lifecycle `platform/storage/sqlite-room-storage-lifecycle.ts`, `-replacement.ts` | database files, generation | start, probe, cut over, replace | a crash while files are replaced; files exchanged under a recovery |
| Event identities `platform/event-processing/`, `platform/room/room-state.ts` | durable identities, volatile guards, dedup window | remember, forget, prune, merge | redelivery across expiry, retention, outages and restarts |
| Device evidence `read-model/room-projection.ts`, `observation-freshness.ts` | availability, health, readings, with time and durability | apply a fact, promote, merge, age | late and replayed facts; two memories of one device |
| History `platform/history/`, `api/user-history/` | rows, cursors, pinned bounds | page, retire, purge | retention and new records during paging |
| Live history `room-live-history.ts`, `shared/history/live-history-session.ts` | recent feed; pages, overlay, reading position | announce, load, rebuild | additions that cross pages; replaced databases |
| Search sessions `shared/infinite-scrolling/`, `shared/history/`, `pages/device-details/` | pages, requests in flight | search, load, retry, refresh | answers of superseded requests |
| Temperature sensor and adapter `simulator/src/temperature/`, `adapters/simulator/temperature/` | stage, interval, last reading | measure, replay, pause, disconnect | facts of the future, of the past, or of no value |
| HTTP API, migrations, contracts, user interface, scripts | - | - | none of their own |

What makes each of them correct:

* **Input coordinator**: every accepted input is handled once, in ingest order,
  never while a recovery is replacing the state, and never left waiting;
  `drained` is answered only when it is true.
* **Commands**: one active command per LED; a lifecycle that only moves forward
  and leaves the list of commands only when it is over and the list is full; a stored
  outcome is final; a deadline fixed by the first delivery evidence while the command
  is on the list; no delivery to the LED after that deadline or without a stored
  intent; every command ends.
* **Storage**: what the API calls durable is stored; a durable admission is
  never lost; recovery loses nothing that either side knows.
* **Realtime**: the application comes to show the room as it is, never an older
  part of it after a newer one, nothing stored that it has not seen, and no
  result of an outage before the outage.
* **History**: whoever pages sees, without gap or repetition, what there was when
  the first page was read, for as long as the cursor lives; pages and live
  additions meet in one list of one database.
* **Sessions and lifecycle**: what a process with a session could not store is
  within a gap, and gaps do not overlap; no database is lost or taken for another;
  recoveries end.
* **Identities**: one record for an id, and one meaning, as long as anything
  remembers it.
* **Devices**: what is known of a device never goes back in time, and what is
  called durable is recorded.

## 2. Modules

| Module | What it is |
|---|---|
| `InputCoordinator` | the room input coordinator, with every reentrant call |
| `MCInputCoordinator`, `InputCoordinator.cfg` | its instance for TLC |
| `InputCoordinatorProofs` | its inductive invariant and ten theorems |
| `CommandPromise` | abstract specification: what is shown and what is stored of a command's status, with a bounded list of outcomes |
| `CommandDelivery` | controller, processor, projection, outbox, storage outcomes, recovery, LED source and receipts, crash and restart |
| `CommandDeliveryProofs` | its four inductive invariants, that it implements `CommandPromise` and what that comes to, that stored ends are final, that the LED is asked once, and that no active command is left without a timer or an attempt |
| `MCCommandDelivery`, `CommandSafety.cfg`, `CommandLiveness.cfg`, `orphaned_command.cfg` | its instances for TLC |
| `RoomSnapshots` | what snapshots and realtime messages hold, the deltas between snapshots, how a client applies them |
| `RealtimeSync` | what the engine publishes, the streams of connections, the reconnecting client, the room shown |
| `RealtimeSyncProofs` | its inductive invariant and six theorems |
| `MCRealtimeSync`, `RealtimeSync.cfg` | its instance for TLC |
| `HistoryStore` | rows, retention and its revisions, pinned bounds, the views they allow |
| `PagedHistory` | readers, cursors and search sessions over `HistoryStore` |
| `PagedHistoryProofs` | why a pinned view is stable and valid, and a search shows the newest part of one; four theorems |
| `MCPagedHistory`, `history_paging.cfg` | its instance for TLC |
| `LiveSource` | the recent feed, the stream and the pages that a live history lives on |
| `LiveHistory` | the live history session over `LiveSource` |
| `LiveHistoryProofs` | why a live list is complete, of one database, keeps what is read and takes nothing back; six theorems |
| `MCLiveHistory`, `live_history.cfg` | its instance for TLC |
| `StorageDisk` | the files at the database's path, the calls of a replacement, what an operator does |
| `StorageLifecycle` | startup, sessions, gaps, probe, cutover, replacement and shutdown over `StorageDisk` |
| `StorageLifecycleProofs` | why losses are in gaps, gaps disjoint and databases kept |
| `MCStorageLifecycle`, `storage_lifecycle.cfg`, `unexplained_outage.cfg` | its instances for TLC |
| `EventIdentity` | identities of inputs in memory and storage |
| `EventIdentityProofs` | why an id has one record and one meaning, and memory covers storage |
| `MCEventIdentity`, `event_identity.cfg` | its instance for TLC |
| `DeviceSource` | the temperature sensor, its scenarios and its adapter |
| `DeviceEvidence` | the projection of a device, over `DeviceSource` |
| `DeviceEvidenceProofs` | its inductive invariant and five theorems |
| `MCDeviceEvidence`, `device_evidence.cfg`, `baseline_over_evidence.cfg` | its instances for TLC |

Composition is by `EXTENDS`: `PagedHistory` puts readers and a browser next to
`HistoryStore`, `LiveHistory` a browser next to `LiveSource`, `StorageLifecycle`
processes next to `StorageDisk`, `DeviceEvidence` a room next to `DeviceSource`.
Modules that are not composed rest on one another's results: everything that
handles an input in one step rests on `InputCoordinator`; `DeviceEvidence` takes
identities as `EventIdentity` keeps them; `LiveSource` takes pages as
`PagedHistory` shows them to be and streams as `RealtimeSync` does.

Some operators are marked as *mutants* of the definition that follows them.
They are plausible bugs (a dropped guard, an off-by-one, a missing reset).
Replacing the definition by its mutant makes a property fail, which shows that
the property is able to. Nothing in the specifications uses them.

### InputCoordinator

The variables carry the names of the closure's variables. JavaScript runs one
call at a time, so the only interleavings are calls made by the handler of the
input being dispatched: while `draining`, any operation may be the next step. A
step is one call up to the point where it hands an input to the handler
(`TakeNext`), or one return of a handler (`DispatchReturns`,
`DispatchThrows`). Inputs are their ingest sequence numbers. `receiveAt` and
`receiveTimer` are the same action, since only the handler differs. A finalised
cutover token is inert in the code and is not kept. `dispatched`, `discarded`
and `abandoned` are history variables; `closing` and `shutdown` say whether a
`closeIntakeAndDrain` is still inside its drain and what it answered.

### CommandDelivery

| Variable | Code |
|---|---|
| `now` | the clock |
| `process`, `boot` | running or how it ended; progress of `start()` |
| `storage` | `platform.storage.status` |
| `room` | the projector's commands and LED observation, the deduplicator's known identities, volatile guards, pending startup failures |
| `control` | `workByCommandId`, `timeoutHandles`, `retryHandles` |
| `inputs`, `attempts` | events a macrotask still has to deliver; `scheduleImmediate` microtasks |
| `led` | armed timers, `emittedOutcomeIds`, observed power |
| `disk` | the checkpoint, accepted identities, outbox and receipts in SQLite |

An action is a macrotask or one storage transaction of it:
`RequestCommand`/`RejectCommand` put an event in `inputs`, `ProcessEvent` is
`processPlatformEvent`, `RunAttempt`/`RetryFires` are `attemptDispatch`,
`TimeoutFires` and `LedTimerFires` are timers, `Recover` is
`attemptStorageRecovery`, `Restart`, `ListReceipts`, `RestorePlan`,
`ReportCurrentState` and `ResumeCommands` are the steps of startup. Each
transaction may commit, be rolled back (the engine degrades and the event takes
effect in memory, marked volatile), or have an unknown outcome (the process
ends, and the disk may be either). A crash may come between any two
transactions. Rolled back includes a failed `BEGIN`; errors classified as fatal
or as needing manual intervention are not distinguished: the first ends the
process like an unknown outcome, the second is an outage without recovery, which
is a behaviour that simply never takes `Recover`.

The room keeps every active command but only the newest outcomes: 20 in the code
(`selectRecentCommands`), `RecentLimit` here. `Selected` is applied wherever the code
does it, in every transition that ends a command (`Changed`, `ApplyReport`) and in the
merge of a recovery (`MergedCommands`); what it drops is gone from memory at once and
from the checkpoint with the next save, while the outbox intent, receipts and accepted
identities of the command stay. `NoRecord` stands for a command that the list does not
have, never admitted or dropped.

Abstractions:

* a command is numbered, and the order of identifiers that breaks ties between
  outcomes of one time is the order of the numbers;
* a new command takes an identifier that has left no trace anywhere (`Fresh`): the
  code draws it at random and compares it with the list only (`assertUnusedCommandId`,
  `room-projection.ts:717`). An identifier whose command left nothing behind may be
  drawn again, which is the same as a new one;
* one LED, as the runtime wires it; `c` identifies a command and the only
  outcome the LED plans for it, so the outcome's stable message id is `c`;
* events other than LED outcomes have fresh ids, so only LED outcomes can be
  duplicates; fingerprints never conflict (`EventIdentity` has both);
* time does not pass within a macrotask: `Tick` needs an empty queue, which
  puts a deadline before or after a macrotask, not inside it;
* telemetry, freshness and availability only appear as the transaction they
  cause (`OtherTransaction`), which saves the checkpoint or fails
  (`DeviceEvidence` has them);
* `obs.receivedAt` is what the event's history record keeps; the projection does
  not hold it, and no action reads it;
* a recovery runs in one step: it is synchronous in the code, and what its
  queue does meanwhile is the subject of `InputCoordinator`.

### CommandPromise

`seen` is the status clients are shown, `kept` the status in the checkpoint. An
event moves one command along the lifecycle and may or may not be stored; with it, or
with a save, outcomes may leave the list as long as `Limit` of them stay
(`Remembers`), and a command that is not over never does. A save stores what is
shown, and takes from storage what memory does not have (`Merge`); a stop forgets what
was not stored; a start may find storage unreadable and show nothing. So a command
goes back in two ways only: with a process that ends, to what was stored, and from a
list that has dropped it, to what was stored (section 6, number 4).
`CommandDelivery` implements it under `Limit <- RecentLimit`, `up <- Running`,
`seen <- Shown`, `kept <- Stored`: while the process is down, what is "shown" is what
a restart would find.

### RealtimeSync

| Variable | Code |
|---|---|
| `room` | the installed projection and `storageSession.status`: `installedSnapshot()` |
| `aged` | whether the sensor's reading is stale now: what `snapshotAt(now)` adds |
| `baseline` | `baseline` of `createRoomPublication` |
| `link` | per connection: `revision`, `activeBatch` (what is left of it), `waitingBatch`, `isWaitingForDrain` of the stream, and what the network carries |
| `client` | `activeSource`, `reconnectTimer`, `isClosed`, `revision` of `connectRoomRealtime`; `roomSnapshot` is the room shown when `ready` |
| `shown` | the state of `RoomProvider` |
| `quiet` | history: outages that began unpublished |

A server action is a macrotask of the engine with all it publishes: an event
(`EventStored`, `EventRolledBack`, `EventInOutage`, `QuarantineRolledBack`), a
failed receipt or outbox transaction (`StorageFails`), the freshness timer, and
a recovery, which publishes "recovering" and then how it ended. `Flushed` gives
every way a flush may end: a write may ask to wait for "drain" after any frame.
`Publish` lets each connection take its own outcome. A part of a snapshot is
known by the number of the event that changed it last, since that is all that
freshness of a view depends on. `Watermarked` models `storedThroughSequence` with
the versions it stands for, so that a property can compare them with what is
shown; `outage` numbers what `changedAt` tells apart.

The backend runs throughout: after a crash the room may go back to what was
stored, which is `CommandDelivery`'s subject. One sensor stands for all; related
history events travel in the same messages and are the subject of `LiveSource`;
telemetry samples are not modelled. An `EventSource` is assumed to deliver in
order and nothing else: the module lets a closed one still deliver what is on its
way, which the guard in `handleMessage` is there for. `Drain` waits until the
client has read what was written, since an earlier drain leaves the same stream
as a write that did not ask to wait.

### HistoryStore and PagedHistory

| Variable | Code |
|---|---|
| `now` | the clock of the host, which may be set back |
| `rows` | `significant_facts` and `telemetry_samples`, with `retired_at` and `retired_revision` |
| `meta` | the metadata row: generation, last sequence, last `retentionAsOf`, retention revision |
| `pins` | history: bounds handed out, each with what they listed at that moment |
| `process` | the backend process, whose random secret signs cursors |
| `session` | the closure of `createInfiniteSession` with the source's metadata |
| `calls` | requests on their way, with the epoch they were sent in and their answer |

Every transaction ends with retention, so `Commit` is part of `StoreRecord`,
`Maintain` and `Capture`: rows past the age or the number kept are retired under
a new revision, and retired rows are purged once no cursor can still list them.
`Capture` is the transaction of a first page. In `PagedHistory`, `Handle` answers
a request in one step of the backend (`FirstPage`, or `Continuation` with its
refusals in the order of the code), `Receive` is the validated answer and `Lose`
the failed request; the other actions are the session's methods. The timeout
evidence of the user history (an old timeout is shown only if the view holds
requests that agree on what was asked) is `Presented`. A cursor's signature is
the process it was made by. Facts and samples are rows of one table told apart by
`dataset`; quarantined input is retired by the same code and only moves the
revision (`quarantine`).

### LiveSource and LiveHistory

| Variable | Code |
|---|---|
| `room` | what is stored, the recent feed, the status of the storage, the generation announced (`known`) |
| `link` | the event stream, and `baseline` and `lastKnownHistoryGenerationId` of `RoomProvider` |
| `session` | the closure of `createHistorySession`: pages, retained pages, overlay, pin, cursors, reading position, error and what failed |
| `calls` | requests for pages on their way; `current` stands for the epoch of the session |
| `seen` | history: facts delivered as durable in the session's generation |

A fact is its place in time. Operations of the session are functions from its
state to the next, named as in the code; `Install` puts the result in place, with
the request it wants to send or the connection it wants renewed. `Deliver` hands
the next message of the stream to `RoomProvider` and the session, `Record`,
`Reconcile`, `Lose`, `Recover`, `Restart` and `Interrupt` are what happens in the
room, `Report` is an update that carries no fact. The notice shown to the user and
the number of entries behind it are left out.

### StorageDisk and StorageLifecycle

| Variable | Code |
|---|---|
| `disk` | the database file and its sidecars, the staging directory, the archives, and what the operator has put aside |
| `proc` | the process: its phase (startup, replacement, running, cutover), `status`, `verifiedHistoryGenerationId`, `outageState`, unclosed sessions found, the probe's result, a durable command as memory knows it (`known`) and a volatile one (`command`) |
| `lost` | history: when, and by which process, something observed was not stored |

Every transaction and every call to the file system is a step of its own, so
`Crash` comes between any two. `Operate` damages, repairs, removes or exchanges
files while no process holds the database open; files are not exchanged while a
replacement is at work, since it is the operator who asked for it (the code moves
and removes what it finds under the database's name, so that a database put in
place at that moment would lose its sidecars). A recovery is two steps,
probe and cutover, because files may change in between. Of a checkpoint only one
command is kept, which is what can make a recovery abort.

### EventIdentity

| Variable | Code |
|---|---|
| `identities` | the processor's map, one for an id |
| `recalled` | the entries of the deduplicator, in the order of insertion |
| `pending` | commands closed at startup whose failure is not stored yet |
| `store` | unretired records, accepted identities and the guards in the checkpoint |
| `mode` | the status of the storage, or that no process runs |

An event is an id and a fingerprint; a fingerprint is reduced to the time the
event is about, so that it also gives the record's age. One action for each kind
of transaction: an event that is stored, rolled back or taken without storage,
a quarantine, a freshness checkpoint, an outbox mutation, a maintenance read,
both startups, a recovery. The merge of guards, their expiry, the limits and what
each transaction forgets are those of the code, in its order. Records are a set,
each with its storage sequence, which only orders records of the same time and is
therefore kept dense (`Dense`).

Memory does not cover the guards in storage entirely: a recovery stores the
*oldest* takings of each id and installs them next to guards of ids that storage
has no room for, and at the next pruning memory keeps the *latest* `EntryLimit`
of all of these. `MemoryCoversStore` says exactly that: a guard in storage that
memory lacks is `Displaced` by as many later ones as there is place for.

Three things show in the model that no property forbids, since the code handles
them: outbox mutations and reads retire records without telling memory, which
`reconcileExpiredDurableIdentity` makes good at the next delivery of the id; a
process that starts without its database takes a stored event again as volatile,
and recovery drops that guard; until then the recent feed may show a volatile
copy of a durable record.

### DeviceSource and DeviceEvidence

| Variable | Code |
|---|---|
| `source` | stage, interval, connection, last reading and place in the pattern of the simulated sensor |
| `memory` | the projector's device and its evidence |
| `guards` | volatile identities: facts taken while nothing was stored |
| `store` | the checkpoint, and the records of history |
| `shown` | the reading in the last published snapshot |

Availability, health and reading are cells of the same shape: value, time,
durability. Each development scenario of the sensor is an action; `LateReport`
stands for a device of another kind behind the same port, whose facts may be of
an earlier time, as the port allows. `Broadcast` is the freshness notification,
which stores the checkpoint before it publishes.

## 3. Runs

| Run | Configuration | What it shows |
|---|---|---|
| `input_coordinator` | 5 inputs, cutover limit 2, handlers may throw, fairness | no input lost, repeated, reordered, dispatched in a cutover or left waiting |
| `command_safety` | 2 commands, a list of 1 outcome, 3 ticks, 2 faults, LED plans that answer before the deadline, unreadable storage at startup | one active command, true durability marks, no lost admission, timers that match, one delivery with one deadline; a stored end is final; and an implementation of `CommandPromise` |
| `command_liveness` | 1 command, all LED plans, 4 faults, unreadable or restored storage at startup, fairness | every stored active command becomes terminal, or is left orphaned (section 6) |
| `realtime_sync` | 2 connections, one slow, 2 events, 1 storage failure, 1 break, fairness | what is shown is consistent, never goes back, and becomes current; streams have no gap |
| `history_paging` | 2 queries, 3 epochs, 2 requests at once, 2 processes, 2 databases | what a search shows is a prefix of one pinned view of the current query |
| `live_history` | 4 facts, 2 databases, 1 fault, overlay of 1, pages of 1, fairness | pages and additions meet without a gap, of one database, with the entry that is read; the list becomes current |
| `storage_lifecycle` | 3 processes, 2 faults, 4 databases, fairness | outages become disjoint gaps; no database is lost or mistaken; recoveries end |
| `event_identity` | 3 ids, one of them with two contents, a startup failure, limits of 2, 4 faults | one record and one meaning for an id; memory covers storage |
| `device_evidence` | pattern of 2 readings, 5 messages, 2 processes, 1 fault | durable readings are recorded; nothing known goes back |
| `unexplained_outage`, `baseline_over_evidence` | one fault | the first two disagreements of section 6 |
| `orphaned_command` | 1 command, 3 faults | the third |

Why the bounds are enough:

* **Coordinator.** Five inputs against a limit of two reach: waiting before the
  cutover, during it, exactly at the limit, one above it, and still being
  drained after it. The limit of the code (1000) only matters through "more than
  the limit". The theorems drop both bounds.
* **Commands.** The LED has at most one active command, so two identifiers are
  needed for a conflict between memory and storage, for a successor of a finished
  command, and to push an outcome off a list of one (the 20 of the code in the small:
  a list of one is full with the first outcome, and the second drops one in memory, in
  storage, or in the merge of both). Identifiers are ordered and therefore not
  symmetric. 2,216,854 states. The theorems drop the bounds on both.
* **Time.** The timeout is two ticks and the retry interval one, so a retry
  falls before the deadline and a second one at it. `MaxTime` stops idle time
  only: the clock still advances to the next timer that is set.
* **Faults.** `MaxFaults` counts rolled-back and unknown transactions, failed
  startups and crashes. Two are what "failure during the handling of a failure"
  needs (an outage and then a crash, a crash and then an unreadable restart); an
  orphaned command needs three, so the runs about one command have three and four.
  A recovery that a conflict of two active commands holds up needs two commands:
  `EventuallySettles` holds there too (`Command = {1, 2}`, `MaxFaults = 2`, the plan
  `LaterReport`, 231,741 states, twelve minutes of TLC), which `command_liveness`
  (133,298 states) leaves out for its time.
* **Realtime.** Two connections are needed for messages of a replaced source. Two
  events let a view fall behind by one and a half updates; a single failure already
  gives an outage, its recovery and the quiet outage. A slow stream needs three
  batches to be given up: the initial snapshot, an event and an outage, or the two
  publications of one recovery. `MaxFlight` stops the engine while a client has
  more unread messages than that; a batch is still read, lost or interrupted at
  any message.
* **Paging.** Four records, of which one is the request that an old timeout needs
  and one arrives during the search, give two pages and a change of each kind
  (arrival, retirement by age and by number, replacement). Three epochs are a
  search, its successor, and an answer of the first that comes after both. Two
  cursors are alive at once; the theorems drop every bound of the store
  and of the session.
* **Live history.** An overlay of one overflows with the second addition; pages of
  one make every page end a place where an addition may fall; one fault, at any
  moment, is what each rebuild, refusal and interruption needs.
* **Lifecycle.** Three processes are one that loses something, one that accounts
  for it and one that might account for it again. Two faults are an outage and a
  crash, or a crash and a file exchanged. Four databases let an exchanged one be
  replaced in turn.
* **Identities.** Limits of two are exceeded by three ids, and a guard that is
  displaced needs all three. Two contents under one id are what a conflict needs. Guards and records live two ticks of five, so that an
  id is forgotten, comes back and is forgotten again.
* **Devices.** Two readings that differ and may carry the same time, one late, one
  ahead of the clock; one outage or unreadable start. The theorems drop the bounds.
* `CHECK_DEADLOCK FALSE` where the system may stop: once the clock is at its bound
  and all is finished, nothing is left to do.

### Fairness

* Coordinator: a handler returns or throws, and a recovery finishes its cutover
  (every path through `attemptStorageRecovery` commits, aborts or ends the
  process). Nothing obliges anyone to call `receive`, `open` or `close`.
* Commands: the event loop runs queued microtasks and events; a due timer fires,
  also when requests keep arriving between its chances (strong fairness, since the
  loop serves timers in every round); the recovery timer is an interval that is only
  cleared on success; time passes; a process that ended is started again. Nothing is assumed of users,
  and failures may occur or not up to their bound; a recovery may still fail
  while the bound lasts.

* Realtime: timers fire, connections are served, what was written arrives, a slow
  client drains or its connection ends, and storage comes back: failures are
  bounded, so a recovery that is tried again succeeds. Without the last a quiet
  outage would stay unpublished (section 6). Nothing is assumed of events.
* Live history: a connection is made, messages and requests come through, storage
  is tried again until it recovers, and sensors report: an interrupted session
  only learns the generation with the next message. Nothing is assumed of users.
* Lifecycle: a process goes on with what it has begun, the recovery timer fires
  while storage is not available, and commands end, which is what removes a
  conflict (strong fairness of `Settle`: a recovery in between disables it).

Some of it is written `[]<>~guard \/ []<><<A>>_vars`: weak fairness of `A` with
its guard in place of `ENABLED A`, which is what they amount to and faster for TLC.

## 4. Proofs

`InputCoordinatorProofs` proves, for every queue limit and any number of inputs
(the only assumption is `ConstantsAssumption`: the constants are of their
types):

* `TypeCorrect`, `NoneLost`, `NoneTwice`, `OneFate`, `OverflowLatched`,
  `NoneStranded`: invariants, of which `OneFate` and `NoneStranded` state
  properties of the run;
* `InOrder`, `CutoverOwnsDequeue`, `DrainedLeavesNothing`: action properties;
  `CutoverOwnsQueue` joins the second to the latch of the overflow, which only the
  end of the cutover releases (`OverflowStays`), into `CutoverHolds`.

None of these invariants is inductive by itself: that no input is dispatched twice depends
on the order of the queue. The inductive invariant `IInv` adds `Split`: the
inputs 1..n are divided between the queue, in increasing order, and the inputs
that left it, all of them older than any in the queue. It also adds
`DiscardingIsFinal` (a coordinator that discards has an empty queue and a closed
intake). `SplitAppend`, `SplitTake` and `SplitDiscard` say what the three
operations on the queue do to a split; `LoopStep` and `DrainStep` lift that to
the drain loop; `NextIInv` has one step per action. `InOrder` then reads the
order off `Split` before the step.

`PagedHistoryProofs` proves, of the store, `PinnedViewsAreStable`: whatever is written, retired,
purged or replaced, and wherever the clock is set, a view pinned to its bounds is
the same as long as it may be read. It assumes that cursors live for some time
(`LifetimeAssumption`) and that the limit is a natural number (`LimitAssumption`). The view is not inductive, since
purging takes rows away. The invariant adds that rows and pins of the current
generation lie behind its counters (`RowsInv`, `PinBehind`) and, the point of the
argument, that a row a pin still lists was retired, if at all, not before the pin
was captured (`RetiredLater`), so that it is purged only once the pin has expired.
`RetentionIsMonotone` says that the time of retention never goes back, although
the clock does. `ViewsStayValid` adds that a view holds no record twice and no more
rows of a partition than are kept, even when a retired record came in again: what a
transaction leaves active is within the limits, because each row that stays has fewer
rows above it than the limit and no two have as many (`NewerHasLess`,
`SurplusLeavesLimit`), and a view lists what was active.

Of the search session it proves `SearchesShowPrefixes` and `SearchesAreNeverConfused`,
for any history, queries, page size and limits, however many answers are late, lost or
refused and whatever the store does meanwhile. It assumes of the limits what the code
fixes: a page and the number of pages are not empty, and the limit on items is their
product (`PagesAssumption`; 100 pages of 50 and of 100). The limit on items alone would
not do: a session that took part of a page would hold the cursor behind all of it. The
argument has two halves. The records of a view that match a query have exactly one
order, newest first, which `InOrder` computes (`InOrderLists`, `ListsIsInOrder`: ranks
are injective because no two records have as many newer ones, `NewerHasFewer`); those
behind the position of a cursor are the rest of that list (`AfterIsRest`), so a page
continues the listing where the one before it ended (`PageContinues`). The invariant of
the session (`PagedInv`) is that it holds a prefix of the listing of one capture and,
unless at the end, the cursor that stands where the prefix ends (`Reading`); that a
query which replaces another keeps showing a prefix of its own (`Retained`); and that
an answer of the operation under way was read at that cursor (`CallInv`). Captures are
never forgotten in the model, although their rows are purged, and `PinnedViewStable`
makes what is read later the same view. Such a page is always taken (`PageIsTaken`),
which is `NeverConfused`, and extends the prefix. `SessionInv` was an invariant of the run
`history_paging` before it was proved.

`DeviceEvidenceProofs` proves, for every sensor pattern, window, and number of
messages, faults and processes, that the checkpoint never goes back in time
(`StoredAdvances`), that a running process does not (`KnownAdvances`), and
`NothingGoesBack` from both. A recovery can only keep both sides because it takes
the later one in each dimension; every other step needs that the checkpoint of an
available storage is what memory holds (`Mirrored`), which is the invariant
(`InductiveInvariant`). `DurableReadingsAreRecorded` rests on the same agreement: a
reading is marked durable by the commit that records it or by the replay of that very
reading, and a merge takes it with its mark.

`CommandDeliveryProofs` proves, for any finite set of commands, length of the list,
plans, delays and number of faults, `OneActiveCommand`, `DurableIsBelievable`,
`DeadlinesStay` and `PromiseKept`: that `CommandDelivery` implements `CommandPromise`.
It assumes what the module does of its constants (`CommandDeliveryAssumption`; commands
are finitely many because the list is sorted). The argument is the agreement of memory
and the stored checkpoint (`Agreement`): with storage available they hold the same
commands and observation; what is marked durable is stored as it is shown; of a command
that memory holds, what is stored is the same or not as far (`MemoryFollows`); and
neither side has two active commands (`One`). Of a command that memory does not hold it
says nothing: a process may not have read it at its start, or its list may have dropped
it. Wherever both sides know a command the merge of a recovery is therefore safe, since
memory wins except over a stored terminal status; where memory does not, the merge shows
what is stored, and `CommandPromise` says so. `RequestsAreFresh` says that a request is
for a command of which there is no trace, neither in memory nor in storage, and that it
is processed before anything else happens: otherwise an event of a known command could
take it back to `accepted`. `ClosingIsOwn` says the same of the inputs of a startup that
still closes lost commands.

The list has lemmas of its own. `Selected` never drops a command that is not over,
leaves what it keeps unchanged (`SelectedFacts`), and drops none unless `RecentLimit`
outcomes stay (`SelectedFull`: an outcome that is dropped has that many before it, and
those before the first one that is dropped all stay, `NewerHasLess`). A list within the
limit stays as it is as long as nothing ends on it (`ListStays`), so that what is shown
is stored unchanged.

Every action has a lemma: it keeps the types, keeps the agreement, moves each command as
a step of the promise may and leaves deadlines alone (`Agrees`, `Keeps`). Most actions
do not touch commands (`QuietStep`) or end the process (`HaltKeeps`), whose stop is a
step of the promise with what the last transaction left. `CommandsOnlyAdvance` says what
comes of it in one step: in storage always, and on the screen while a process runs, a
command on the list stays where it is, goes forward, or leaves a list that is full of
outcomes. It follows from `PromiseKept` and `StoredIsBehind`, which the invariant gives
(`StoredBehind`).

A second invariant on top of it, `Backing`, says what vouches for what: a durable
command has a stored intent or was refused (`AllBacked`, also of what memory will
store, `MemoryIsBacked`); a receipt of the LED is of a command that was admitted; an
event on its way, the controller's work, and an attempt or plan of the LED are each of
a command in the right status with an open intent (`InputsAreBacked`, `WorkIsBacked`,
`AttemptIsActive`, `PlansAreReceived`). Each action has a `...Backs` lemma. It gives
`AdmissionIsKept`, and with `DeadlinesStay` all of `OneDelivery` (`DeliveredOnce`). It
also gives `StoredEndStays`, which is about commands the list has dropped: only a fresh
command or one that is active on one side becomes active (`KeepsCommands`), and a
command with an intent and no stored record is active on neither side
(`MemoryIsBacked`).

A third, `InTime`, says that no active command was requested after its receipt, and that
the receipts the LED has armed are the stored ones. It is needed because a command that
comes back from storage meets a receipt of its first life: the handoff it is then given
carries the time of that receipt, and is refused if it precedes the request.

A fourth, `Tended`, says what is being done for each active command, at every point of
a macrotask of a started process. A durable one, with storage available, is delivered,
or about to be attempted, or its handoff or its timeout is queued (`DurableIsTried`);
one accepted in an outage is about to be attempted or handed off (`VolatileIsTried`); a
pending one has its timer at its deadline, or its timeout is queued, or it is orphaned
(`TimersAreSet`). No timer is of anything else (`TimersAreDeadlines`), no deadline is
past when the startup sets the timers (`NoneOverdue`), and what the startup closes has
ended (`ClosingFails`). Neither property of the run is inductive by itself: both speak
of an idle process, and what makes them true is that a step which takes one of these
reasons away within the macrotask leaves another. Most steps leave the commands alone
(`Leaves`) and go on with what was being done (`GoesOn`); the processing of an event is
the exception, and has a case per kind. TLC checked each of these invariants on complete
instances before it was proved. `TimersFollowCommands` and `NothingStaysUnsent`
follow, since nothing is on its way in an idle process.

`RealtimeSyncProofs` proves, for any connections and any number of events, faults and
breaks, that revisions arrive without gap or repetition (`RevisionsAreContiguous`),
that what is shown is consistent (`ConsistencyIsShown`), that nothing older is shown
after something newer (`NothingOlderIsShown`) and that a client which has received
everything shows the room of the engine (`CaughtUpShowsRoom`). The assumption is the
module's own (`ConstantsAssumption`: an event changes the sensor, the LED, its
commands, or the last two together). All four follow from one notion. Messages *lead*
from one room to another (`Leads`) if applying them one by one goes through rooms that
may be shown (`Good`), none older than one before it. The invariant says that what the
stream of the client still carries leads from the room that is shown to a room the
engine has had, and as long as the stream is open to one that is `Current`: the room
published last, or that room as of now, since a snapshot sent to a new connection
already shows the sensor as stale (`Later`). `PublicationLeads` and `RecoveryLeads`
are the heart: the deltas of one operation, in the order `buildPublicationDeltas` and
`publishRecoveryCommit` give them, lead from every `Current` room to the next one.
It is where the platform must come before the outcome of a rolled back transaction and
after that of a stored one. `EnqueuedCarries` and `FlushedKeeps` say that queueing,
stopping at a slow write and giving a connection up keep or cut what a stream carries
and never reorder it; `LeadsPartly` and `LeadsOn`, that what is cut off, or received,
leaves messages that lead. TLC checked the invariant on complete instances before
the proof.

`StorageLifecycleProofs` proves, for any number of processes, faults, losses and
databases, `LossesAreExplained`, `GapsNeverOverlap`, `DatabasesAreKept` and
`GenerationPinned`. The properties speak of the database at the path while storage
is available; the invariant speaks of every database that may come back there, for
an operator may take one away and return it (`DbOK` for each of `Databases`).
In each, what a session lost is in a gap, or the session is unclosed and its
`Bound` is not after the loss, or the loss is of the running process and its outage
began before it (`LossesOK`); and every gap ends before all of those (`GapsOK`). So
the gap of the next start or recovery, which begins at the least of them, takes in
every loss and overlaps no earlier gap. `PriorOK` says that what a process remembers
of unclosed sessions is what a database still says, which is what a recovery after an
exchange of files depends on; `FilesInv`, which copies exist at each point of
a replacement. Databases are kept by an invariant of its own over it: each
generation has a place with its own sidecars.

`EventIdentityProofs` proves, for any events, limits, ages and number of faults,
`RecordedOnce`, `IdentitiesAreRecords` and `MemoryIsComplete`. The three are one
argument: an event is recorded only if memory knows no durable identity of it, memory
covers storage, and the durable identities of storage are those of its unretired
records; a record that is past its age but not yet retired is retired by the very
transaction that records the event anew. It needs that a startup failure waiting to be
stored has an id that storage does not know (`PendingIsNew`). The hard part is the
limit on guards: `NewestDisplace` and the lemmas around it show that a guard which is
dropped is dropped for as many later ones, and stays so.

`MeaningsAreKept` needs one more fact, `Guarding`: a guard of the database was taken in
the past, and memory knows its id by this guard, or by a later one taken while nothing
could be stored. Otherwise a transaction that writes the guards of memory could give the
id another content. A recovery merges both sides by id, the earlier guard first
(`FirstTaken`), keeps as many as the limit allows and drops those of stored events; each
lemma `...Keeps` says for which of the permitted reasons a meaning may go. TLC checked
`Guarding` on all 724,585 states of `event_identity` before the proof. A record is
dropped by number only if as many are kept as the limit allows (`RetainedFull`).

`LiveHistoryProofs` proves, for any number of facts, generations and faults, any
messages and answers on their way and any limits, `ListsAreComplete`,
`ListsAreOfOneDatabase`, `AnchorsAreShown` and `DurableStaysDurable`, and with
`SessionTypes` that a session which loads waits for exactly one request. It assumes that
pages are not empty (`PageAssumption`) and that there are places for the gaps which
recoveries leave (`SourceAssumption`); of the limits on the overlay, pages and entries
it assumes nothing. The invariant has a part for each place an entry passes through
(`SessionIsSound`):

* a message says of no entry that it is durable which its database has not stored
  (`MessageOK`), and a connection starts with a snapshot (`LinkOK`);
* a page holds all that was stored between its cursor and the next (`Full`); the one
  that is awaited is of the database there is, and what it leaves out of the facts that
  were delivered is in the overlay (`Awaited`): a page is read after the baseline, so a
  fact was stored before its pin or is delivered later. Answers of the requests given
  up may be of any database and are never taken;
* the session holds all that was stored before its pin down to its last page
  (`Whole`), what was delivered since then in its overlay unless it overflowed
  (`Covered`), nothing of another database (`Dated`), the cursor of the pin it is read
  under (`Pinned`), and the entry that is read, also while a rebuild has put the pages
  aside (`Anchored`).

`NothingMissing` is `Whole` and `Covered` read together. None of the four is inductive
alone: that the overlay and the pages meet depends on which request is awaited, and
that on the status (`Phases`). The steps of the room only add to what was stored
(`SoundGrows`, `AwaitedGrows`) or break the connection and with it every request
(`BreakKeeps`); the operations of the session are proved one by one, from what they
return (`...Gives`) to what still holds of it (`...Holds`), and `InstallHolds` puts the
result in place. TLC found the invariant kept on all 364,053 states of `live_history`
before it was proved.

Three attempts at these proofs failed for a reason, which TLC then showed on a
larger instance. `TimersMatchCommands` was false of an orphaned command (section 6). With three ids at the limit of guards, a guard in storage may be
missing in memory after a recovery: `MemoryCoversStore` had been stated without
`Displaced`. And with one more fault, an operator could put files in place in the
middle of a replacement, which the model now excludes (`Operate`). Two definitions could
not be reasoned about at all: the arms of a `CASE` overlapped in `OutboxAfter` and
`Enqueued`, and TLC takes the first where the language leaves the value open. They
now say which arm the code takes.

Only model-checked: liveness, `BecomesCurrent` of `LiveHistory` among it, which is outside
what the proof system handles.

## 5. What some properties rest on

* `DurableMeansStored` and `AdmissionSurvives` relate what is marked durable, in
  memory, with what is on disk, in every state, also within an outage and in the
  middle of a macrotask.
* `TimersMatchCommands` says that the handles of the controller match the
  projection, although recovery replaces the projection and restart the handles.
* `NothingLeftUnsent` shows more than it set out to: whenever storage is
  available and nothing is queued, an active durable command has already been
  handed off, since recovery redispatches at once. A retry timer therefore finds
  either no storage or a command already handed off.
* `OneDelivery` is the "one delivery, one deadline" promise of automatic retry: as
  long as the list holds a command its deadline does not move, and nothing is sent to
  the LED after it. A command that the list has dropped and a recovery has brought back
  starts over and has a deadline of its own (section 6, number 4).
* `StoredEndIsFinal` is what is left of "an outcome is final" when outcomes leave the
  list: whatever finds a trace of a command whose end was stored, a redelivered
  outcome, an open plan, the merge of a recovery or a restart, does not revive it. It
  relates the list with the outbox, where the trace of a dropped command is, and rests
  on identifiers that are never drawn twice: with identifiers that are only compared
  with the list, as its mutant has it, a stored end is undone.
* `ShownIsPrefix` compares what a browser shows with what the database held when
  the search was first answered, across every request in between.
* `LossesExplained` speaks of processes that have a marker in the database at
  hand; for the others see section 6.
* `NeverDemoted` holds as long as the page of an entry is kept: a rebuild gives the
  page up, and shows the volatile copy of the overlay until the page is back.
* `GenerationIsPinned` is why an exchanged database stops a recovery instead of
  receiving another room's history.

## 6. Disagreements between the code and its decision records

Each of the first three has a run whose counterexample shows the behaviour. The
properties of the next four are stated in their modules and violated too. To see it,
put `INVARIANT P` (for `ReportConfirmsBeforeDeadline` and `AcceptedOutcomeIsFinal`,
`PROPERTY P`) in place of the properties of `CommandSafety.cfg` or `RealtimeSync.cfg`
and run TLC. Their quotes are from `adr-storage-and-observability.md` unless another
record is named.

1. `unexplained_outage`: `docs/decisions/adr-storage-and-observability.md:838` says
   that volatile items a restart cannot recreate are explained by "the later
   durable gap". A process that starts without usable storage and ends before it
   recovers leaves no session marker (`room-storage-session.ts:111-128`), and the
   gaps of a later start come from markers: nothing explains what it observed.
2. `baseline_over_evidence`:
   `docs/decisions/adr-device-availability-and-observation-freshness.md:74` says that
   the bootstrap `unknown` is "not accepted availability or health evidence". A
   process that cannot read its checkpoint has that `unknown` at its own start time,
   and its recovery takes it, as the later of the two, over an accepted availability
   or health, whose evidence is dropped (`room-recovery-policy.ts:162, 264`).
3. `orphaned_command`: a volatile command in a checkpoint "is recoverable only as an
   explanation, not as work" (`docs/decisions/adr-storage-and-observability.md:775`),
   and a start that reads the checkpoint fails it (`room-engine.ts:497`). A start that
   cannot read it leaves that to the recovery, which merges the command back as an
   active one; `reconcileOutboxAfterRecovery` walks outbox intents and a volatile
   command has none. It has no timer and no end, and its device refuses new
   commands. The counterexample takes an outage, a recovery that stores the command
   but ends the process, and an unreadable start. `TimersMatchCommands` and
   `EventuallySettles` except just these commands (`Orphaned`).

4. A command that ended in an outage may come back. In memory it is finished; in
   storage it is still active; and when 20 later commands have finished in the same
   outage, memory no longer has it (`room-projection.ts:695-705`). The merge of the
   recovery then finds the stored copy alone and takes it, active
   (`room-recovery-policy.ts:82-91`), and `reconcileOutboxAfterRecovery` retries it, from
   `accepted` even with a new deadline, although its outcome had been shown.
   Lines 513 and 514 say "After recovery, terminal reconciliation closes the intent
   without dispatch", lines 503 and 504 "A retry never moves the deadline", and
   `adr-command-history-and-terminal-projections.md:93` asks for no "terminal command
   back to active state". The comment at
   `room-recovery-policy.ts:390-395` knows of such evictions, for a failure that a
   startup makes up. `AcceptedOutcomeIsFinal` (`CommandDelivery`) is violated by it,
   with `RecentLimit = 1` standing for the 20; `StoredEndIsFinal` and `CommandPromise`
   state what the code does keep.
5. `NoUncaughtFailure` (`CommandDelivery`): the LED throws out of a timer when an
   outcome falls due while storage is away (`led-scenarios.ts:398`), instead of one
   of the three reactions of AC-1 (line 1011).
6. `ReportConfirmsBeforeDeadline` (`CommandDelivery`): "A matching report confirms
   only when `receivedAt < deadlineAt`" (line 519), but a handoff stored after a
   crash confirms from the observation held, whenever that was received.
7. `StorageStatusPublished` (`RealtimeSync`): "The same SSE connection publishes a
   revision-linked `platform.updated` whenever storage status changes" (line 338),
   but an outage found by a quarantined event is not published, and neither are
   probes that fail, until something else is.

Read in the code, without a property: `resumeAfterStorageRecovery`, which would
mark a receipt terminal after an outage (line 566), is called by no code outside
tests; plans that could not be listed at startup are not resumed when storage is
back (line 551); a dispatch event that confirms its command leaves the outbox
intent `delivered` until the next reconciliation (line 506); and the first fact
about a device, at the very time of its bootstrap, keeps the bootstrap's
durability, since durability follows a change of time.

## 7. Not modelled, and what would come next

Not modelled:

* rejections of commands by availability and health, and missing routes: tests
  over one call each, whose inputs `DeviceEvidence` has;
* the retention of LED receipts, the diagnostic counters, logging;
* the live chart of telemetry and the LED card's request, which are request
  sessions without the parts that make `PagedHistory` hard;
* command and scenario routes of the HTTP API, which pass a call on; the format of
  requests and responses; signatures of cursors;
* migrations, contracts, rendering and scripts: conversions of data, without
  interleavings or failures of their own;
* SQLite, the file system and the browser's `EventSource`, as far as sections 2
  and 3 say what is assumed of them.

Next, in this order:

1. an abstract specification of a view that only advances and catches up, which
   `RealtimeSync` and `LiveHistory` both implement;
2. receipts of the LED under retention, and its development scenarios.
