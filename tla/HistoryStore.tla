---------------------------- MODULE HistoryStore ----------------------------
(***************************************************************************)
(* The durable history of one SQLite database (sqlite-room-storage.ts):    *)
(* rows that are only ever added, retired and purged, and the pinned       *)
(* bounds under which a paged reader goes on seeing what it saw first.     *)
(*                                                                         *)
(* Significant facts and telemetry samples share one sequence and one      *)
(* retention and are rows of one table here, told apart by dataset.        *)
(* Quarantined input is retired by the same code and read by no page: that *)
(* it was is a choice of the transaction (quarantine), which moves the     *)
(* retention revision.  Time is a small number of ticks; the clock of the  *)
(* host may be set back.                                                   *)
(*                                                                         *)
(* pins is a history variable: the bounds handed out so far, each with     *)
(* what could be listed under them at that moment.                         *)
(*                                                                         *)
(* Operators introduced as mutants are plausible bugs that the properties  *)
(* must catch; nothing in the specification uses them.                     *)
(***************************************************************************)
EXTENDS Integers, FiniteSets

CONSTANTS Device,          \* devices that rows are about
          Record,          \* logical record ids
          Stream,          \* what comes in: pairs of a dataset and a device
          MaxLate,         \* ticks a report may be late
          Limit,           \* rows kept per dataset partition (5000 facts, 10000 samples)
          Retention,       \* 30 days
          CursorLifetime,  \* 5 minutes
          MaxTime, MaxRevision, MaxPins,
          MaxSequence      \* by generation: bounds of the model

Dataset == {"fact", "sample"}

ASSUME LifetimeAssumption == CursorLifetime \in Nat \ {0}
ASSUME LimitAssumption == Limit \in Nat
ASSUME BoundsAssumption == MaxTime \in Nat /\ MaxLate \in Nat
ASSUME StreamAssumption == Stream \subseteq Dataset \X Device

Null == -1
Time == 0..MaxTime

VARIABLES now, rows, meta, pins

storeVars == <<now, rows, meta, pins>>

RowRecord ==
  [generation : Nat, sequence : Nat, record : Record, dataset : Dataset, device : Device,
   occurredAt : Int, retiredAt : Int, retiredRevision : Int]

MetaRecord == [generation : Nat, lastSequence : Nat, lastRetentionAsOf : Int, revision : Nat]

BoundsRecord == [generation : Nat, through : Nat, retentionAsOf : Int, revision : Nat, expiresAt : Int]

\* What a reader sees of a row.
Plain(row) ==
  [sequence |-> row.sequence, record |-> row.record, dataset |-> row.dataset,
   device |-> row.device, occurredAt |-> row.occurredAt]

PlainRecord ==
  [sequence : Nat, record : Record, dataset : Dataset, device : Device, occurredAt : Int]

StoreTypeOK ==
  /\ now \in Int
  /\ rows \subseteq RowRecord
  /\ meta \in MetaRecord
  /\ pins \subseteq [bounds : BoundsRecord, view : SUBSET PlainRecord]

-----------------------------------------------------------------------------
(* Retention *)

Active(all) == {row \in all : row.retiredAt = Null}

Newer(a, b) ==
  \/ a.occurredAt > b.occurredAt
  \/ a.occurredAt = b.occurredAt /\ a.sequence > b.sequence

\* Facts are counted together, samples per device.
SamePartition(a, b) == a.dataset = b.dataset /\ (a.dataset = "sample" => a.device = b.device)

\* Time never runs back for retention, whatever the host's clock does.
RetentionAsOf(asOf) == IF meta.lastRetentionAsOf > asOf THEN meta.lastRetentionAsOf ELSE asOf

\* Retired rows stay as long as a cursor that may still list them.
Kept(all, asOf) == {row \in all : row.retiredAt = Null \/ row.retiredAt > asOf - CursorLifetime}

Aged(all, asOf) == {row \in Active(all) : row.occurredAt < asOf - Retention}

Surplus(all) ==
  {row \in Active(all) :
     Cardinality({other \in Active(all) : SamePartition(other, row) /\ Newer(other, row)}) >= Limit}

\* Mutant of Retiring: the count limits are not enforced.
RetiringByAge(all, asOf) == Aged(all, asOf)

\* By age first, then by count among what is left.
Retiring(all, asOf) == Aged(all, asOf) \cup Surplus(all \ Aged(all, asOf))

RetiredAs(row, asOf, revision) == [row EXCEPT !.retiredAt = asOf, !.retiredRevision = revision]

\* Mutant of Retire: rows are retired under the revision in force, not the next.
RetireSameRevision(all, asOf) ==
  LET kept == Kept(all, asOf)
      out == Retiring(kept, asOf)
  IN  (kept \ out) \cup {RetiredAs(row, asOf, meta.revision) : row \in out}

Retire(all, asOf) ==
  LET kept == Kept(all, asOf)
      out == Retiring(kept, asOf)
  IN  (kept \ out) \cup {RetiredAs(row, asOf, meta.revision + 1) : row \in out}

\* The revision moves only if something was retired.
RevisionAfter(all, asOf, quarantine) ==
  IF quarantine \/ Retiring(Kept(all, asOf), asOf) # {} THEN meta.revision + 1 ELSE meta.revision

\* A committed transaction that leaves the rows all behind, last the newest of them.
Commit(all, last, quarantine) ==
  LET asOf == RetentionAsOf(now)
  IN  /\ rows' = Retire(all, asOf)
      /\ meta' = [meta EXCEPT !.lastSequence = last, !.lastRetentionAsOf = asOf,
                              !.revision = RevisionAfter(all, asOf, quarantine)]

-----------------------------------------------------------------------------
(* Reading under pinned bounds *)

\* Added by then and not retired by then.
Listed(all, bounds) ==
  {row \in all : /\ row.generation = bounds.generation
                 /\ row.sequence <= bounds.through
                 /\ row.retiredRevision = Null \/ row.retiredRevision > bounds.revision}

View(all, bounds) == {Plain(row) : row \in Listed(all, bounds)}

GenerationChanged(bounds) == bounds.generation # meta.generation

Expired(bounds) == RetentionAsOf(now) >= bounds.expiresAt

Readable(bounds) == ~GenerationChanged(bounds) /\ ~Expired(bounds)

\* The bounds a transaction captures after it has retired what is due.
BoundsAt(asOf, revision) ==
  [generation |-> meta.generation, through |-> meta.lastSequence, retentionAsOf |-> asOf,
   revision |-> revision, expiresAt |-> asOf + CursorLifetime]

-----------------------------------------------------------------------------
StoreInit ==
  /\ now = 0
  /\ rows = {}
  /\ meta = [generation |-> 1, lastSequence |-> 0, lastRetentionAsOf |-> Null, revision |-> 0]
  /\ pins = {}

\* The host's clock moves, in either direction.
SetClock ==
  /\ now' \in Time \ {now}
  /\ UNCHANGED <<rows, meta, pins>>

\* One record becomes durable.  A record whose identity is still retained is a
\* duplicate and is not stored again.
StoreRecord(dataset, device, record, occurredAt) ==
  LET row == [generation |-> meta.generation, sequence |-> meta.lastSequence + 1, record |-> record,
              dataset |-> dataset, device |-> device, occurredAt |-> occurredAt,
              retiredAt |-> Null, retiredRevision |-> Null]
  IN  /\ meta.lastSequence < MaxSequence[meta.generation]
      /\ \A other \in Active(rows) : other.record # record
      /\ Commit(rows \cup {row}, meta.lastSequence + 1, FALSE)
      /\ UNCHANGED <<now, pins>>

\* A transaction that adds no history: a checkpoint, a receipt, a maintenance read.
Maintain(quarantine) ==
  /\ quarantine => meta.revision < MaxRevision
  /\ Commit(rows, meta.lastSequence, quarantine)
  /\ UNCHANGED <<now, pins>>

\* The first page of a reader: bounds, and all that is listed under them.
Capture ==
  LET asOf == RetentionAsOf(now)
      bounds == BoundsAt(asOf, RevisionAfter(rows, asOf, FALSE))
  IN  /\ Commit(rows, meta.lastSequence, FALSE)
      /\ pins' = pins \cup {[bounds |-> bounds, view |-> View(Retire(rows, asOf), bounds)]}
      /\ UNCHANGED now

\* The database is replaced by an empty one of another generation.
Replace ==
  /\ meta.generation + 1 \in DOMAIN MaxSequence
  /\ rows' = {}
  /\ meta' = [generation |-> meta.generation + 1, lastSequence |-> 0, lastRetentionAsOf |-> Null,
              revision |-> 0]
  /\ UNCHANGED <<now, pins>>

StoreNext ==
  \/ SetClock
  \/ \E stream \in Stream, record \in Record, late \in 0..MaxLate :
       StoreRecord(stream[1], stream[2], record, now - late)
  \/ \E quarantine \in BOOLEAN : Maintain(quarantine)
  \/ Cardinality(pins) < MaxPins /\ Capture
  \/ Replace

StoreSpec == StoreInit /\ [][StoreNext]_storeVars

-----------------------------------------------------------------------------
(* Properties *)

\* Whoever holds bounds that have not expired lists, to the last row, what could be
\* listed when they were captured, whatever was added, retired and purged since and
\* wherever the clock went (listPinnedSignificantFacts, retireExpiredRecords).
PinnedViewStable ==
  \A pin \in pins : Readable(pin.bounds) => View(rows, pin.bounds) = pin.view

\* No view holds a record twice or more rows of a partition than are kept, even when a
\* record was retired and came in again: the reader would answer invalid_internal_data
\* (isPinnedSignificantFactSnapshot, isHistoryPage).
ViewsAreValid ==
  \A pin \in pins :
    /\ \A a, b \in pin.view : a.record = b.record => a = b
    /\ \A a \in pin.view : Cardinality({b \in pin.view : SamePartition(a, b)}) <= Limit

=============================================================================
