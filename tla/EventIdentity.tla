---------------------------- MODULE EventIdentity ----------------------------
(***************************************************************************)
(* The identity of an input: what keeps a redelivered event from being     *)
(* stored, or given another meaning, a second time (event-processor.ts,    *)
(* event-deduplicator.ts, the identity table of sqlite-room-storage.ts).   *)
(*                                                                         *)
(* An event is its id and its fingerprint (inputFingerprint).  What the    *)
(* fingerprint digests is reduced to the time the event is about, so       *)
(* print is both: two prints are two contents, and a later print is a      *)
(* younger record.  The identity of a stored event is durable and lives as *)
(* long as an unretired record of it; that of an event taken while nothing *)
(* can be stored is a volatile guard, which expires, is limited in number  *)
(* and is carried in the checkpoint.                                       *)
(*                                                                         *)
(* The clock does not run back here (HistoryStore models a clock that      *)
(* does), and a delivery takes no time: it is received at now.             *)
(*                                                                         *)
(* Operators introduced as mutants are plausible bugs that the properties  *)
(* must catch; nothing in the specification uses them.                     *)
(***************************************************************************)
EXTENDS Integers, Sequences, FiniteSets

CONSTANTS Event,           \* what may be delivered: [id, print]
          Closing,         \* command.failed events that a startup makes up
          GuardRetention,  \* 10 minutes
          EntryLimit,      \* 1000 guards, or entries of the deduplicator
          RecordAge,       \* 30 days
          RecordLimit,     \* 5000 facts
          MaxTime, MaxFaults \* bounds of the model

ASSUME EventAssumption == Event \cup Closing \subseteq [id : Nat, print : Int]
ASSUME LimitAssumption == EntryLimit \in Nat \ {0} /\ RecordLimit \in Nat \ {0}
ASSUME AgeAssumption == GuardRetention \in Nat /\ RecordAge \in Nat

VARIABLES now, faults,
          mode,       \* of the storage, "down" while no process runs
          identities, \* of the processor, one for an id
          recalled,   \* of the deduplicator, in the order of insertion
          pending,    \* the startup command failure that is not stored yet
          store       \* the database: rows (unretired), accepted, guards

identityVars == <<now, faults, mode, identities, recalled, pending, store>>

TypeOK ==
  /\ mode \in {"down", "available", "degraded"}
  /\ \A a, b \in identities : a.id = b.id => a = b
  /\ pending \subseteq Closing
  /\ Cardinality(store.guards) <= EntryLimit
  /\ Cardinality(store.rows) <= RecordLimit

Init ==
  /\ now = 0 /\ faults = 0 /\ mode = "down"
  /\ identities = {} /\ recalled = <<>> /\ pending = {}
  /\ store = [rows |-> {}, accepted |-> {}, guards |-> {}]

Ids(all) == {entry.id : entry \in all}

-----------------------------------------------------------------------------
(* Volatile identities *)

Durable(event) == [id |-> event.id, print |-> event.print, durable |-> TRUE, at |-> 0]
Volatile(event, at) == [id |-> event.id, print |-> event.print, durable |-> FALSE, at |-> at]

Unexpired(all, at) == {i \in all : ~i.durable /\ i.at > at - GuardRetention}

Later(a, b) == a.at > b.at \/ (a.at = b.at /\ a.id > b.id)
Newest(all) == {i \in all : Cardinality({j \in all : Later(j, i)}) < EntryLimit}

\* activeVolatileIdentities
Guards(all, at) == Newest(Unexpired(all, at))

\* pruneVolatileIdentities
Pruned(all, at) == {i \in all : i.durable} \cup Guards(all, at)

\* identityAt: the identity that speaks for an id, if there is one.
Known(all, id, at) == {i \in Pruned(all, at) : i.id = id}

Put(all, identity) == {i \in all : i.id # identity.id} \cup {identity}
Forget(all, ids) == {i \in all : ~(i.durable /\ i.id \in ids)}

\* rememberVolatileIdentity
Guarded(all, event) == Pruned(Put(all, Volatile(event, now)), now)

-----------------------------------------------------------------------------
(* The deduplicator *)

\* inspect
Recalls(id) ==
  \E k \in DOMAIN recalled : recalled[k].id = id /\ recalled[k].at > now - GuardRetention

\* Expiry stops at the first entry that is not expired.
Fresh(entries) ==
  LET live == {k \in DOMAIN entries : entries[k].at > now - GuardRetention}
  IN  IF live = {} THEN <<>>
      ELSE SubSeq(entries, CHOOSE k \in live : \A l \in live : k <= l, Len(entries))

\* remember: an id that is there keeps its place; over the limit, the first goes.
Recalling(id) ==
  LET entries == Fresh(recalled)
      places == {k \in DOMAIN entries : entries[k].id = id}
      entry == [id |-> id, at |-> now]
      all == IF places = {} THEN Append(entries, entry)
             ELSE [k \in DOMAIN entries |-> IF k \in places THEN entry ELSE entries[k]]
  IN  IF Len(all) > EntryLimit THEN Tail(all) ELSE all

-----------------------------------------------------------------------------
(* The database *)

InAge(print) == print >= now - RecordAge

\* retireExpiredRecords: by age, then by number.
Newer(row, than) ==
  row.print > than.print \/ (row.print = than.print /\ row.sequence > than.sequence)

Retained(rows) ==
  LET young == {row \in rows : InAge(row.print)}
  IN  {row \in young : Cardinality({other \in young : Newer(other, row)}) < RecordLimit}

\* Of the storage sequences only the order counts: they are kept dense.
Dense(rows) ==
  {[row EXCEPT !.sequence = Cardinality({other \in rows : other.sequence < @})] : row \in rows}

\* What a transaction leaves: identities go with the last record of their event.
Committed(db) ==
  LET rows == Dense(Retained(db.rows))
  IN  [db EXCEPT !.rows = rows, !.accepted = {a \in @ : a.id \in Ids(rows)}]

\* retiredIdentityEventIds
Retired(db) == Ids(db.accepted) \ Ids(Committed(db).accepted)

\* appendPreparedRecord and upsertAcceptedInputIdentity
Content(event) == [id |-> event.id, print |-> event.print]

Recorded(db, event) ==
  [db EXCEPT !.rows = @ \cup {[id |-> event.id, print |-> event.print, sequence |-> Cardinality(@)]},
             !.accepted = {a \in @ : a.id # event.id} \cup {Content(event)}]

\* Mutant of StillActive: a record on the last tick of its age is taken for expired.
StillActiveYounger(id) ==
  /\ id \in Ids(store.accepted)
  /\ \E row \in store.rows : row.id = id /\ row.print > now - RecordAge

\* isAcceptedInputIdentityActive
StillActive(id) ==
  /\ id \in Ids(store.accepted)
  /\ \E row \in store.rows : row.id = id /\ InAge(row.print)

-----------------------------------------------------------------------------
(* Deliveries *)

\* reconcileExpiredDurableIdentity
Reconciled(event) ==
  IF StillActive(event.id) THEN identities ELSE Forget(identities, {event.id})

Conflicts(all, event) == \E i \in Known(all, event.id, now) : i.print # event.print
Duplicates(all, event) == \E i \in Known(all, event.id, now) : i.durable

\* Without a database the first taking of an event is the only one.
RepeatsVolatile(all, event) ==
  IF Known(all, event.id, now) = {} THEN Recalls(event.id)
  ELSE \E i \in Known(all, event.id, now) : ~i.durable

\* commitPrepared, then the identity of what was taken.
Take(event, all) ==
  /\ identities' = all
  /\ recalled' = Recalling(event.id)

\* A refusal is quarantined where it can be, in a transaction that retires like any other.
Refuse(all) == identities' = all /\ UNCHANGED recalled

\* The checkpoint carries every guard but that of the event that is stored now.
StoreEvent(event) ==
  LET all == Reconciled(event)
      db == [Recorded(store, event) EXCEPT !.guards = {g \in Guards(all, now) : g.id # event.id}]
      left == Forget(Pruned(all, now), Retired(db))
  IN  /\ store' = Committed(db)
      /\ Take(event, IF event.id \in Retired(db) THEN left ELSE Put(left, Durable(event)))

Quarantine(event) ==
  /\ store' = Committed(store)
  /\ Refuse(Forget(Pruned(Reconciled(event), now), Retired(store)))

Fault == faults < MaxFaults /\ faults' = faults + 1

Deliverable(event) == mode # "down" /\ event.print <= now

\* An event that cannot be processed is a refusal too, whatever its identity.
DeliverStored(event) ==
  /\ Deliverable(event) /\ mode = "available"
  /\ LET all == Reconciled(event)
     IN  \/ ~Conflicts(all, event) /\ ~Duplicates(all, event) /\ StoreEvent(event)
         \/ Quarantine(event)
  /\ UNCHANGED <<now, faults, mode, pending>>

Volatilely(all, event) ==
  \/ /\ ~Conflicts(all, event) /\ ~Duplicates(all, event)
     /\ Take(event, Guarded(Pruned(all, now), event))
  \/ Refuse(Pruned(all, now))

\* The transaction is rolled back: what was prepared for storage is taken as volatile.
DeliverRolledBack(event) ==
  /\ Deliverable(event) /\ mode = "available" /\ Fault
  /\ mode' = "degraded"
  /\ Volatilely(Reconciled(event), event)
  /\ UNCHANGED <<now, pending, store>>

\* Nothing can be stored, or the lookup that precedes the storing finds that out.
DeliverVolatile(event) ==
  /\ Deliverable(event)
  /\ \/ mode = "degraded" /\ UNCHANGED <<mode, faults>>
     \/ mode = "available" /\ event.id \in Ids({i \in identities : i.durable}) /\ Fault /\ mode' = "degraded"
  /\ IF RepeatsVolatile(identities, event) THEN Refuse(Pruned(identities, now))
     ELSE Volatilely(identities, event)
  /\ UNCHANGED <<now, pending, store>>

-----------------------------------------------------------------------------
(* Other transactions *)

\* runFreshnessEvaluation: forgets what its transaction retires.
SaveFreshness ==
  LET db == [store EXCEPT !.guards = Guards(identities, now)]
  IN  /\ mode = "available"
      /\ store' = Committed(db)
      /\ identities' = Forget(identities, Retired(db))
      /\ UNCHANGED <<now, faults, mode, recalled, pending>>

\* persistOutboxMutation, and readers of history, receipts and diagnostics, do not.
PersistOutbox ==
  /\ mode = "available"
  /\ store' = Committed([store EXCEPT !.guards = Guards(identities, now)])
  /\ UNCHANGED <<now, faults, mode, identities, recalled, pending>>

ReadHistory ==
  /\ mode = "available"
  /\ store' = Committed(store)
  /\ UNCHANGED <<now, faults, mode, identities, recalled, pending>>

\* enterStorageDegraded, from any of them
LoseStorage ==
  /\ mode = "available" /\ Fault
  /\ mode' = "degraded"
  /\ UNCHANGED <<now, identities, recalled, pending, store>>

-----------------------------------------------------------------------------
(* Startup and recovery *)

Accepted(db) == {Durable(a) : a \in db.accepted}

\* Where both say something of an id, the durable identity is put last.
Restored(db) == {g \in db.guards : g.id \notin Ids(db.accepted)} \cup Accepted(db)

\* The gap and the changed projection of a startup are stored before identities are listed.
StartAvailable ==
  /\ mode = "down"
  /\ \E db \in {store, Committed(store)} :
       /\ store' = db
       /\ identities' = Restored(db)
  /\ mode' = "available"
  /\ UNCHANGED <<now, faults, recalled, pending>>

\* The failure of the active command that could not be stored waits for a recovery.
StartDegraded ==
  /\ mode = "down" /\ Fault
  /\ mode' = "degraded"
  /\ \/ /\ identities' = {}
        /\ UNCHANGED <<recalled, pending>>
     \/ \E read \in {store.guards, Restored(store)} :
          \/ identities' = read /\ UNCHANGED <<recalled, pending>>
          \/ \E closing \in Closing :
               /\ closing.id \notin Ids(store.accepted) \cup Ids(store.guards)
               /\ closing.print = now
               /\ Take(closing, Guarded(read, closing))
               /\ pending' = {closing}
  /\ UNCHANGED <<now, store>>

\* Mutant of MergedGuards: the last taking speaks for an id.
MergedGuardsLast(restored, live) ==
  LET all == Unexpired(restored \cup live, now)
  IN  Newest({g \in all : \A h \in all : h.id = g.id => h.at <= g.at})

\* mergeVolatileGuards: of two takings of an id the earlier speaks for it.
MergedGuards(restored, live) ==
  LET all == Unexpired(restored \cup live, now)
      First(g) == \A h \in all : h.id = g.id => g.at < h.at \/ (g.at = h.at /\ (g = h \/ g \in restored))
  IN  Newest({g \in all : First(g)})

\* Mutant of RecoveredGuards: a guard outlives the storing of its event.
RecoveredGuardsAll == MergedGuards(store.guards, Guards(identities, now))

RecoveredGuards ==
  {g \in MergedGuards(store.guards, Guards(identities, now)) :
     g.id \notin Ids(store.accepted) \cup Ids({i \in identities : i.durable}) \cup Ids(pending)}

\* Mutant of Installed: recovery trusts the identities of the process.
InstalledGuardsOnly(db) == {i \in identities : i.id \notin Ids(RecoveredGuards)} \cup RecoveredGuards

\* installRecoveredState, with the closed commands among what is durable now.
Installed(db) ==
  LET durable == Accepted(db) \cup RecoveredGuards
      kept == {i \in identities : i.id \notin Ids(durable)}
  IN  Forget(Pruned(kept \cup durable, now), Retired(db))

\* runStorageRecovery: nothing that was volatile becomes a record but the closed command.
Recover ==
  LET closed == IF pending = {} THEN store ELSE Recorded(store, CHOOSE closing \in pending : TRUE)
      db == [closed EXCEPT !.guards = RecoveredGuards]
  IN  /\ mode = "degraded"
      /\ mode' = "available"
      /\ store' = Committed(db)
      /\ identities' = Installed(db)
      /\ pending' = {}
      /\ UNCHANGED <<now, faults, recalled>>

\* The process ends, by a crash or in order: memory is gone.
Stop ==
  /\ mode # "down" /\ Fault
  /\ mode' = "down"
  /\ identities' = {} /\ recalled' = <<>> /\ pending' = {}
  /\ UNCHANGED <<now, store>>

Tick == now < MaxTime /\ now' = now + 1 /\ UNCHANGED <<faults, mode, identities, recalled, pending, store>>

Deliver == \E event \in Event : DeliverStored(event) \/ DeliverRolledBack(event) \/ DeliverVolatile(event)

Next ==
  \/ Deliver
  \/ SaveFreshness \/ PersistOutbox \/ ReadHistory \/ LoseStorage
  \/ StartAvailable \/ StartDegraded \/ Recover \/ Stop \/ Tick

Spec == Init /\ [][Next]_identityVars

-----------------------------------------------------------------------------
(* Properties *)

\* However often an event is redelivered, before and after the storage is lost, recovered
\* or the process restarted, history holds one unretired record of it, and never
\* one of another content under the same id (processEvent, installRecoveredState).
OneRecord ==
  \A row, other \in store.rows : row.id = other.id => row = other

\* What the database says of an id it says once: a durable identity stands for exactly
\* the unretired record of its event, and the checkpoint guards no event that
\* is stored (retireExpiredRecords, volatileGuardsForCheckpoint, recovery's filter).
IdentityCoversRecord ==
  /\ store.accepted = {Content(row) : row \in store.rows}
  /\ Ids(store.guards) \cap Ids(store.accepted) = {}

\* As many later ones are known.
Displaced(guard) ==
  Cardinality({i \in Unexpired(identities, now) : Later(i, guard)}) >= EntryLimit

\* While the storage is available the processor knows every identity that the database
\* would give a process started now, with the same content, but for guards that it has
\* no place for: recovery stores the oldest takings, and memory keeps the latest.
MemoryCoversStore ==
  mode = "available" =>
    /\ Accepted(store) \subseteq identities
    /\ \A guard \in Unexpired(store.guards, now) : guard \in identities \/ Displaced(guard)

Bindings(db) == {[id |-> e.id, print |-> e.print] : e \in db.accepted \cup Unexpired(db.guards, now)}

\* As many guards of other events are known, none of them older.
Outnumbered(bound) ==
  \E g \in store.guards :
    /\ g.id = bound.id
    /\ Cardinality(Ids({i \in identities \cup store.guards :
                          i.id # g.id /\ ~i.durable /\ i.at >= g.at})) >= EntryLimit

\* A record past its retention, by age or by number; or the guard of an event that is
\* stored now, whose record is past it at once.
Retires(bound) ==
  /\ ~InAge(bound.print)' \/ Cardinality(store'.rows) = RecordLimit
  /\ bound \in store.accepted \/ \E event \in Event : event.id = bound.id /\ StoreEvent(event)

\* The database lets go of what an id means only when the guard expires, is over the limit,
\* or the record is past its retention: no step gives an id another meaning before.
MeaningIsKept ==
  [][\A bound \in Bindings(store) :
       \/ bound \in Bindings(store)'
       \/ \E g \in store.guards : g.id = bound.id /\ g.at <= now' - GuardRetention
       \/ Retires(bound)
       \/ bound.id \notin Ids(store'.guards) /\ Outnumbered(bound)]_identityVars

=============================================================================
