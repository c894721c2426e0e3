------------------------- MODULE PagedHistoryProofs -------------------------
(***************************************************************************)
(* Proofs about HistoryStore and PagedHistory: a pinned view is stable     *)
(* until it expires, and one a reader accepts; and what a search session   *)
(* shows is the newest part of such a view, in order, without a gap.       *)
(*                                                                         *)
(* The view is not stable by itself: purging takes rows away.  What keeps  *)
(* it whole is that a row a pin still lists was retired, if at all, under  *)
(* a later revision than the pin's, hence not before the pin was captured  *)
(* (RetiredLater), so that it is purged only once the pin has expired.     *)
(* What it lists is what a transaction left active, which is within the    *)
(* limits: of the rows of a partition that stay, each has fewer above it   *)
(* than the limit, and no two have as many (NewerHasLess).                 *)
(*                                                                         *)
(* The session never sees the view, only pages of it.  The records of a    *)
(* view that match a query have exactly one order, newest first            *)
(* (InOrderLists, ListsIsInOrder), and those behind the position in a      *)
(* cursor are the rest of that list (AfterIsRest): so the page a cursor    *)
(* asks for continues the listing where the page before it ended           *)
(* (PageContinues).  An answer may be late, and it was read from a view    *)
(* that need not be there any more; what it carries does not depend on     *)
(* that.  The invariant is that the session holds a prefix of the listing  *)
(* of one capture and the cursor that stands where it ends (Reading), and  *)
(* that an answer of the operation under way is the page of that cursor    *)
(* (CallInv); such a page is never refused (PageIsTaken).                  *)
(***************************************************************************)
EXTENDS PagedHistory, FiniteSetTheorems, SequenceTheorems, TLAPS

\* Rows carry the generation, and no sequence or revision of the future.
RowsInv ==
  \A row \in rows :
    /\ row.generation = meta.generation
    /\ row.sequence <= meta.lastSequence
    /\ row.retiredRevision <= meta.revision
    /\ (row.retiredAt = Null <=> row.retiredRevision = Null)

\* What a pin of the current generation was captured from lies behind.
PinBehind(pin) ==
  /\ pin.bounds.through <= meta.lastSequence
  /\ pin.bounds.revision <= meta.revision
  /\ pin.bounds.retentionAsOf <= meta.lastRetentionAsOf
  /\ pin.bounds.expiresAt = pin.bounds.retentionAsOf + CursorLifetime

RetiredLater(pin) ==
  \A row \in rows : row.retiredRevision > pin.bounds.revision => row.retiredAt >= pin.bounds.retentionAsOf

ViewKept(pin) ==
  meta.lastRetentionAsOf < pin.bounds.expiresAt => View(rows, pin.bounds) = pin.view

PinInv(pin) ==
  /\ pin.bounds.generation <= meta.generation
  /\ pin.bounds.generation = meta.generation => PinBehind(pin) /\ RetiredLater(pin) /\ ViewKept(pin)

ClockInv == now >= 0 /\ meta.lastRetentionAsOf >= Null

StoreInv ==
  /\ StoreTypeOK
  /\ ClockInv
  /\ RowsInv
  /\ \A pin \in pins : PinInv(pin)

-----------------------------------------------------------------------------
(* A committed transaction *)

\* The rows a transaction leaves behind: those there were, and new ones.
Grown(all, last) ==
  /\ all \subseteq RowRecord
  /\ rows \subseteq all
  /\ last \in Nat /\ last >= meta.lastSequence
  /\ \A row \in all \ rows :
       /\ row.generation = meta.generation
       /\ row.sequence > meta.lastSequence /\ row.sequence <= last
       /\ row.retiredAt = Null /\ row.retiredRevision = Null

LEMMA RetentionIsMonotone ==
  ASSUME StoreInv
  PROVE  /\ RetentionAsOf(now) \in Int
         /\ RetentionAsOf(now) >= 0
         /\ RetentionAsOf(now) >= meta.lastRetentionAsOf
BY DEF StoreInv, StoreTypeOK, ClockInv, RetentionAsOf, MetaRecord, Null

LEMMA RetiringIsActive ==
  ASSUME NEW all, NEW asOf
  PROVE  \A row \in Retiring(Kept(all, asOf), asOf) : row \in Kept(all, asOf) /\ row.retiredAt = Null
BY DEF Retiring, Aged, Surplus, Active

\* Retiring a row changes when, and under which revision, it was retired.
LEMMA RetiredRow ==
  ASSUME NEW old \in RowRecord, NEW asOf \in Int, NEW revision \in Int
  PROVE  /\ RetiredAs(old, asOf, revision) \in RowRecord
         /\ RetiredAs(old, asOf, revision).generation = old.generation
         /\ RetiredAs(old, asOf, revision).sequence = old.sequence
         /\ RetiredAs(old, asOf, revision).retiredAt = asOf
         /\ RetiredAs(old, asOf, revision).retiredRevision = revision
         /\ Plain(RetiredAs(old, asOf, revision)) = Plain(old)
BY DEF RowRecord, Plain, RetiredAs

LEMMA CommitKeepsRows ==
  ASSUME StoreInv, NEW all, NEW last, NEW quarantine \in BOOLEAN,
         Grown(all, last), Commit(all, last, quarantine)
  PROVE  /\ rows' \subseteq RowRecord
         /\ meta' \in MetaRecord
         /\ meta'.generation = meta.generation
         /\ meta'.lastSequence = last
         /\ meta'.lastRetentionAsOf = RetentionAsOf(now)
         /\ meta'.revision = RevisionAfter(all, RetentionAsOf(now), quarantine)
         /\ meta'.revision >= meta.revision
         /\ RowsInv'
PROOF
<1> DEFINE asOf == RetentionAsOf(now)
           kept == Kept(all, asOf)
           out == Retiring(kept, asOf)
<1>1. asOf \in Int /\ asOf >= 0
  BY RetentionIsMonotone
<1>2. meta \in MetaRecord
  BY DEF StoreInv, StoreTypeOK
<1>3. /\ rows' = Retire(all, asOf)
      /\ meta' = [meta EXCEPT !.lastSequence = last, !.lastRetentionAsOf = asOf,
                              !.revision = RevisionAfter(all, asOf, quarantine)]
  BY DEF Commit
<1>4. /\ RevisionAfter(all, asOf, quarantine) \in Nat
      /\ RevisionAfter(all, asOf, quarantine) >= meta.revision
      /\ out # {} => RevisionAfter(all, asOf, quarantine) = meta.revision + 1
  BY <1>2 DEF RevisionAfter, MetaRecord
<1>5. last \in Nat
  BY DEF Grown
<1>6. /\ meta' \in MetaRecord
      /\ meta'.generation = meta.generation
      /\ meta'.lastSequence = last
      /\ meta'.lastRetentionAsOf = asOf
      /\ meta'.revision = RevisionAfter(all, asOf, quarantine)
  BY <1>1, <1>2, <1>3, <1>4, <1>5 DEF MetaRecord
<1>7. \A row \in out : row \in kept /\ row.retiredAt = Null
  BY RetiringIsActive
<1>8. kept \subseteq all /\ all \subseteq RowRecord
  BY DEF Kept, Grown
<1>9. \A row \in all : /\ row.generation = meta.generation
                       /\ row.sequence <= last
                       /\ row.retiredRevision <= meta.revision
                       /\ (row.retiredAt = Null <=> row.retiredRevision = Null)
  BY <1>2, <1>5, <1>8 DEF Grown, StoreInv, RowsInv, RowRecord, MetaRecord, Null
<1> HIDE DEF asOf, kept, out
<1>10. ASSUME NEW row \in rows'
       PROVE  /\ row \in RowRecord
              /\ row.generation = meta.generation
              /\ row.sequence <= last
              /\ row.retiredRevision <= meta'.revision
              /\ (row.retiredAt = Null <=> row.retiredRevision = Null)
  <2>1. CASE row \in kept \ out
    BY <2>1, <1>2, <1>4, <1>6, <1>8, <1>9 DEF RowRecord, MetaRecord
  <2>2. CASE \E old \in out : row = RetiredAs(old, asOf, meta.revision + 1)
    <3>1. PICK old \in out : row = RetiredAs(old, asOf, meta.revision + 1)
      BY <2>2
    <3>2. old \in RowRecord /\ old \in all
      BY <1>7, <1>8
    <3>3. meta.revision \in Nat
      BY <1>2 DEF MetaRecord
    <3>3a. asOf \in Int /\ meta.revision + 1 \in Int
      BY <3>3, <1>1
    <3>4. /\ row \in RowRecord
          /\ row.generation = old.generation
          /\ row.sequence = old.sequence
          /\ row.retiredAt = asOf
          /\ row.retiredRevision = meta.revision + 1
      BY <3>1, <3>2, <3>3a, RetiredRow
    <3>5. meta'.revision = meta.revision + 1
      BY <1>4, <1>6
    <3> QED
      BY <3>2, <3>3, <3>4, <3>5, <1>1, <1>9 DEF Null
  <2> QED
    BY <2>1, <2>2, <1>3 DEF Retire, kept, out
<1> QED
  BY <1>4, <1>6, <1>10 DEF RowsInv, asOf


\* What a pin lists, it lists after a transaction as well, until it has expired.
LEMMA CommitKeepsViews ==
  ASSUME StoreInv, NEW all, NEW last, NEW quarantine \in BOOLEAN,
         Grown(all, last), Commit(all, last, quarantine),
         NEW bounds \in BoundsRecord,
         bounds.through <= meta.lastSequence, bounds.revision <= meta.revision,
         bounds.expiresAt = bounds.retentionAsOf + CursorLifetime,
         \A row \in rows : row.retiredRevision > bounds.revision => row.retiredAt >= bounds.retentionAsOf,
         RetentionAsOf(now) < bounds.expiresAt
  PROVE  View(rows', bounds) = View(rows, bounds)
PROOF
<1> DEFINE asOf == RetentionAsOf(now)
           kept == Kept(all, asOf)
           out == Retiring(kept, asOf)
           next == meta.revision + 1
<1>1. asOf \in Int /\ CursorLifetime \in Nat
  BY RetentionIsMonotone, LifetimeAssumption
<1>2. rows' = (kept \ out) \cup {RetiredAs(row, asOf, next) : row \in out}
  BY DEF Commit, Retire
<1>3. meta.revision \in Nat /\ meta.lastSequence \in Nat
  BY DEF StoreInv, StoreTypeOK, MetaRecord
<1>4. rows \subseteq RowRecord /\ all \subseteq RowRecord /\ rows \subseteq all
  BY DEF StoreInv, StoreTypeOK, Grown
<1>5. \A row \in out : row \in all /\ row.retiredAt = Null
  BY RetiringIsActive DEF Kept
<1>6. \A row \in all : row.sequence <= bounds.through => row \in rows
  BY <1>3, <1>4 DEF Grown, RowRecord, BoundsRecord
<1>7. \A row \in rows : row.retiredAt = Null <=> row.retiredRevision = Null
  BY DEF StoreInv, RowsInv
<1>8. \A row \in out :
        /\ RetiredAs(row, asOf, next).generation = row.generation
        /\ RetiredAs(row, asOf, next).sequence = row.sequence
        /\ RetiredAs(row, asOf, next).retiredRevision = next
        /\ Plain(RetiredAs(row, asOf, next)) = Plain(row)
  BY <1>1, <1>3, <1>4, <1>5, RetiredRow
<1>9. next > bounds.revision
  BY <1>3 DEF BoundsRecord
<1>10. \A row \in Listed(rows, bounds) : row \in kept
  BY <1>1, <1>4, <1>7 DEF Listed, Kept, RowRecord, BoundsRecord, Null
<1> HIDE DEF asOf, kept, out, next
<1>11. ASSUME NEW row \in Listed(rows', bounds)
       PROVE  \E old \in Listed(rows, bounds) : Plain(row) = Plain(old)
  <2>1. row \in rows' /\ row.generation = bounds.generation /\ row.sequence <= bounds.through
    BY DEF Listed
  <2>2. CASE row \in kept \ out
    <3>1. row \in rows
      BY <2>1, <2>2, <1>6 DEF Kept, kept
    <3> QED
      BY <3>1 DEF Listed
  <2>3. CASE \E old \in out : row = RetiredAs(old, asOf, next)
    <3>1. PICK old \in out : row = RetiredAs(old, asOf, next)
      BY <2>3
    <3>2. old.generation = bounds.generation /\ old.sequence <= bounds.through /\ Plain(row) = Plain(old)
      BY <3>1, <2>1, <1>8
    <3>3. old \in rows /\ old.retiredRevision = Null
      BY <3>2, <1>5, <1>6, <1>7
    <3> QED
      BY <3>2, <3>3 DEF Listed
  <2> QED
    BY <2>1, <2>2, <2>3, <1>2
<1>12. ASSUME NEW row \in Listed(rows, bounds)
       PROVE  \E later \in Listed(rows', bounds) : Plain(later) = Plain(row)
  <2>1. CASE row \in out
    <3>1. RetiredAs(row, asOf, next) \in rows'
      BY <2>1, <1>2
    <3>2. RetiredAs(row, asOf, next) \in Listed(rows', bounds)
      BY <3>1, <2>1, <1>8, <1>9 DEF Listed
    <3> QED
      BY <3>2, <2>1, <1>8
  <2>2. CASE row \notin out
    <3>1. row \in rows'
      BY <2>2, <1>2, <1>10
    <3> QED
      BY <3>1 DEF Listed
  <2> QED
    BY <2>1, <2>2
<1> QED
  BY <1>11, <1>12 DEF View

LEMMA CommitKeepsPins ==
  ASSUME StoreInv, NEW all, NEW last, NEW quarantine \in BOOLEAN,
         Grown(all, last), Commit(all, last, quarantine), NEW pin \in pins
  PROVE  PinInv(pin)'
PROOF
<1>1. /\ pin.bounds \in BoundsRecord
      /\ PinInv(pin)
      /\ meta \in MetaRecord
      /\ rows \subseteq RowRecord
  BY DEF StoreInv, StoreTypeOK
<1>2. /\ RetentionAsOf(now) \in Int
      /\ RetentionAsOf(now) >= meta.lastRetentionAsOf
  BY RetentionIsMonotone
<1>3. /\ meta'.generation = meta.generation
      /\ meta'.lastSequence >= meta.lastSequence /\ meta'.lastSequence \in Nat
      /\ meta'.lastRetentionAsOf = RetentionAsOf(now)
      /\ meta'.revision >= meta.revision /\ meta'.revision \in Nat
  BY CommitKeepsRows DEF Grown, MetaRecord
<1>4. SUFFICES ASSUME pin.bounds.generation = meta.generation
               PROVE  PinBehind(pin)' /\ RetiredLater(pin)' /\ ViewKept(pin)'
  BY <1>1, <1>3 DEF PinInv
<1>5. PinBehind(pin) /\ RetiredLater(pin) /\ ViewKept(pin)
  BY <1>1, <1>4 DEF PinInv
<1>6. PinBehind(pin)'
  BY <1>1, <1>2, <1>3, <1>5 DEF PinBehind, MetaRecord, BoundsRecord
<1>7. RetiredLater(pin)'
  <2>1. SUFFICES ASSUME NEW row \in rows', row.retiredRevision > pin.bounds.revision
                 PROVE  row.retiredAt >= pin.bounds.retentionAsOf
    BY DEF RetiredLater
  <2> DEFINE out == Retiring(Kept(all, RetentionAsOf(now)), RetentionAsOf(now))
  <2>2. CASE row \in Kept(all, RetentionAsOf(now)) \ out
    BY <2>1, <2>2, <1>1, <1>5 DEF RetiredLater, Kept, Grown, BoundsRecord, Null
  <2>3. CASE \E old \in out : row = RetiredAs(old, RetentionAsOf(now), meta.revision + 1)
    <3>1. PICK old \in out : row = RetiredAs(old, RetentionAsOf(now), meta.revision + 1)
      BY <2>3
    <3>2. old \in RowRecord
      BY RetiringIsActive DEF Kept, Grown
    <3>3. row.retiredAt = RetentionAsOf(now)
      BY <3>1, <3>2, <1>1, <1>2, RetiredRow DEF MetaRecord
    <3> QED
      BY <3>3, <1>1, <1>2, <1>5 DEF PinBehind, MetaRecord, BoundsRecord
  <2> QED
    BY <2>2, <2>3 DEF Commit, Retire
<1>8. ViewKept(pin)'
  <2>1. SUFFICES ASSUME RetentionAsOf(now) < pin.bounds.expiresAt
                 PROVE  View(rows', pin.bounds) = pin.view
    BY <1>3 DEF ViewKept
  <2>2. View(rows', pin.bounds) = View(rows, pin.bounds)
    BY <2>1, <1>1, <1>5, CommitKeepsViews DEF PinBehind, RetiredLater
  <2>3. meta.lastRetentionAsOf < pin.bounds.expiresAt
    BY <2>1, <1>1, <1>2 DEF MetaRecord, BoundsRecord
  <2> QED
    BY <2>2, <2>3, <1>5 DEF ViewKept
<1> QED
  BY <1>6, <1>7, <1>8


-----------------------------------------------------------------------------
(* The invariant *)

\* What a transaction leaves of the invariant when it hands out no bounds.
LEMMA CommitKeepsInv ==
  ASSUME StoreInv, NEW all, NEW last, NEW quarantine \in BOOLEAN,
         Grown(all, last), Commit(all, last, quarantine), UNCHANGED <<now, pins>>
  PROVE  StoreInv'
PROOF
<1>1. /\ rows' \subseteq RowRecord /\ meta' \in MetaRecord
      /\ meta'.lastRetentionAsOf >= 0
      /\ RowsInv'
  BY CommitKeepsRows, RetentionIsMonotone
<1>2. \A pin \in pins' : PinInv(pin)'
  BY CommitKeepsPins
<1>3. /\ now \in Int /\ now >= 0
      /\ pins \subseteq [bounds : BoundsRecord, view : SUBSET PlainRecord]
  BY DEF StoreInv, StoreTypeOK, ClockInv
<1>4. StoreTypeOK'
  BY <1>1, <1>3 DEF StoreTypeOK
<1>5. ClockInv'
  BY <1>1, <1>3 DEF ClockInv, MetaRecord, Null
<1> QED
  BY <1>1, <1>2, <1>4, <1>5 DEF StoreInv

LEMMA NothingGrows ==
  ASSUME StoreInv
  PROVE  Grown(rows, meta.lastSequence)
BY DEF StoreInv, StoreTypeOK, MetaRecord, Grown

LEMMA ViewIsTyped ==
  ASSUME NEW all, all \subseteq RowRecord, NEW bounds
  PROVE  View(all, bounds) \in SUBSET PlainRecord
BY DEF View, Listed, Plain, RowRecord, PlainRecord

LEMMA StoreInvInitially == StoreInit => StoreInv
BY DEF StoreInit, StoreInv, StoreTypeOK, ClockInv, RowsInv, MetaRecord, Null

LEMMA SetClockKeepsInv == StoreInv /\ SetClock => StoreInv'
PROOF
<1> SUFFICES ASSUME StoreInv, SetClock PROVE StoreInv'
  OBVIOUS
<1>1. now' \in Int /\ now' >= 0 /\ UNCHANGED <<rows, meta, pins>>
  BY BoundsAssumption DEF SetClock, Time
<1> QED
  BY <1>1 DEF StoreInv, StoreTypeOK, ClockInv, RowsInv, PinInv, PinBehind, RetiredLater, ViewKept,
              View, Listed

LEMMA StoreRecordKeepsInv ==
  ASSUME StoreInv, NEW dataset \in Dataset, NEW device \in Device, NEW record \in Record,
         NEW occurredAt \in Int, StoreRecord(dataset, device, record, occurredAt)
  PROVE  StoreInv'
PROOF
<1> DEFINE row == [generation |-> meta.generation, sequence |-> meta.lastSequence + 1, record |-> record,
                   dataset |-> dataset, device |-> device, occurredAt |-> occurredAt,
                   retiredAt |-> Null, retiredRevision |-> Null]
<1>1. meta.generation \in Nat /\ meta.lastSequence \in Nat /\ rows \subseteq RowRecord
  BY DEF StoreInv, StoreTypeOK, MetaRecord
<1>2. row \in RowRecord
  BY <1>1 DEF RowRecord, Null
<1>3. Grown(rows \cup {row}, meta.lastSequence + 1)
  BY <1>1, <1>2 DEF Grown
<1>4. Commit(rows \cup {row}, meta.lastSequence + 1, FALSE) /\ UNCHANGED <<now, pins>>
  BY DEF StoreRecord
<1> QED
  BY <1>3, <1>4, CommitKeepsInv

LEMMA MaintainKeepsInv ==
  ASSUME StoreInv, NEW quarantine \in BOOLEAN, Maintain(quarantine)
  PROVE  StoreInv'
BY NothingGrows, CommitKeepsInv DEF Maintain

LEMMA CaptureKeepsInv == StoreInv /\ Capture => StoreInv'
PROOF
<1> SUFFICES ASSUME StoreInv, Capture PROVE StoreInv'
  OBVIOUS
<1> DEFINE asOf == RetentionAsOf(now)
           bounds == BoundsAt(asOf, RevisionAfter(rows, asOf, FALSE))
           fresh == [bounds |-> bounds, view |-> View(Retire(rows, asOf), bounds)]
<1>1. /\ Commit(rows, meta.lastSequence, FALSE)
      /\ pins' = pins \cup {fresh}
      /\ now' = now
  BY DEF Capture
<1>2. Grown(rows, meta.lastSequence)
  BY NothingGrows
<1>3. rows' = Retire(rows, asOf)
  BY <1>1 DEF Commit
<1>4. /\ rows' \subseteq RowRecord /\ meta' \in MetaRecord
      /\ meta'.generation = meta.generation
      /\ meta'.lastSequence = meta.lastSequence
      /\ meta'.lastRetentionAsOf = asOf
      /\ meta'.revision = RevisionAfter(rows, asOf, FALSE)
      /\ RowsInv'
  BY <1>1, <1>2, CommitKeepsRows
<1>5. asOf \in Int /\ asOf >= 0 /\ CursorLifetime \in Nat
  BY RetentionIsMonotone, LifetimeAssumption
<1>6. meta' \in MetaRecord /\ meta \in MetaRecord
  BY <1>4 DEF StoreInv, StoreTypeOK
<1>7. /\ bounds \in BoundsRecord
      /\ bounds.generation = meta.generation
      /\ bounds.through = meta.lastSequence
      /\ bounds.retentionAsOf = asOf
      /\ bounds.revision = meta'.revision
      /\ bounds.expiresAt = asOf + CursorLifetime
  <2> DEFINE revision == RevisionAfter(rows, asOf, FALSE)
  <2>1. meta.generation \in Nat /\ meta.lastSequence \in Nat /\ revision \in Nat
    BY <1>4, <1>6 DEF MetaRecord
  <2>2. asOf + CursorLifetime \in Int
    BY <1>5
  <2>3. bounds = [generation |-> meta.generation, through |-> meta.lastSequence, retentionAsOf |-> asOf,
                  revision |-> revision, expiresAt |-> asOf + CursorLifetime]
    BY DEF BoundsAt
  <2> HIDE DEF asOf, revision, bounds
  <2> QED
    BY <2>1, <2>2, <2>3, <1>4, <1>5 DEF BoundsRecord, revision
<1>8. fresh.bounds = bounds /\ fresh.view = View(rows', bounds)
  BY <1>3
<1>9. fresh \in [bounds : BoundsRecord, view : SUBSET PlainRecord]
  <2> DEFINE listed == View(Retire(rows, asOf), bounds)
  <2>1. listed \in SUBSET PlainRecord
    BY <1>3, <1>4, ViewIsTyped
  <2> HIDE DEF bounds, listed
  <2>2. [bounds |-> bounds, view |-> listed] \in [bounds : BoundsRecord, view : SUBSET PlainRecord]
    BY <2>1, <1>7
  <2> QED
    BY <2>2 DEF listed
<1> HIDE DEF asOf, bounds, fresh
<1>10. ASSUME NEW pin, pin = fresh
       PROVE  PinInv(pin)'
  <2>1. PinBehind(pin)'
    <3>1. /\ meta'.lastSequence \in Nat /\ meta'.revision \in Nat
          /\ pin.bounds.through = meta'.lastSequence
          /\ pin.bounds.revision = meta'.revision
          /\ pin.bounds.retentionAsOf = asOf /\ meta'.lastRetentionAsOf = asOf
          /\ pin.bounds.expiresAt = asOf + CursorLifetime
      BY <1>4, <1>6, <1>7, <1>8, <1>10 DEF MetaRecord
    <3> QED
      BY <3>1, <1>5 DEF PinBehind
  <2>2. RetiredLater(pin)'
    <3>1. \A row \in rows' : row.retiredRevision <= meta'.revision /\ row.retiredRevision \in Int
      BY <1>4 DEF RowsInv, RowRecord
    <3>2. pin.bounds.revision = meta'.revision /\ meta'.revision \in Nat
      BY <1>6, <1>7, <1>8, <1>10 DEF MetaRecord
    <3> QED
      BY <3>1, <3>2 DEF RetiredLater, MetaRecord
  <2>3. ViewKept(pin)'
    BY <1>8, <1>10 DEF ViewKept
  <2>4. pin.bounds.generation <= meta'.generation
    BY <1>4, <1>6, <1>7, <1>8, <1>10 DEF MetaRecord
  <2> QED
    BY <2>1, <2>2, <2>3, <2>4 DEF PinInv
<1>11. \A pin \in pins : PinInv(pin)'
  BY <1>1, <1>2, CommitKeepsPins
<1>12. \A pin \in pins' : PinInv(pin)'
  BY <1>1, <1>10, <1>11
<1>13. StoreTypeOK'
  BY <1>1, <1>4, <1>9 DEF StoreTypeOK, StoreInv
<1>14. ClockInv'
  BY <1>1, <1>4, <1>5 DEF ClockInv, StoreInv, Null
<1> QED
  BY <1>4, <1>12, <1>13, <1>14 DEF StoreInv

LEMMA ReplaceKeepsInv == StoreInv /\ Replace => StoreInv'
PROOF
<1> SUFFICES ASSUME StoreInv, Replace PROVE StoreInv'
  OBVIOUS
<1>1. /\ rows' = {} /\ now' = now /\ pins' = pins
      /\ meta' = [generation |-> meta.generation + 1, lastSequence |-> 0,
                  lastRetentionAsOf |-> Null, revision |-> 0]
  BY DEF Replace
<1>2. meta.generation \in Nat
  BY DEF StoreInv, StoreTypeOK, MetaRecord
<1>3. /\ meta'.generation = meta.generation + 1
      /\ meta' \in MetaRecord
      /\ meta'.lastRetentionAsOf = Null
  BY <1>1, <1>2 DEF MetaRecord, Null
<1>4. StoreTypeOK' /\ ClockInv' /\ RowsInv'
  BY <1>1, <1>3 DEF StoreInv, StoreTypeOK, ClockInv, RowsInv, Null
<1>5. ASSUME NEW pin \in pins PROVE PinInv(pin)'
  <2>1. pin.bounds.generation \in Nat /\ pin.bounds.generation <= meta.generation
    BY DEF StoreInv, StoreTypeOK, PinInv, BoundsRecord
  <2> QED
    BY <2>1, <1>2, <1>3 DEF PinInv
<1> QED
  BY <1>1, <1>4, <1>5 DEF StoreInv

LEMMA StoreInvStep == StoreInv /\ [StoreNext]_storeVars => StoreInv'
PROOF
<1> SUFFICES ASSUME StoreInv, [StoreNext]_storeVars PROVE StoreInv'
  OBVIOUS
<1>1. CASE SetClock
  BY <1>1, SetClockKeepsInv
<1>2. CASE \E stream \in Stream, record \in Record, late \in 0..MaxLate :
             StoreRecord(stream[1], stream[2], record, now - late)
  <2>1. PICK stream \in Stream, record \in Record, late \in 0..MaxLate :
               StoreRecord(stream[1], stream[2], record, now - late)
    BY <1>2
  <2>2. stream[1] \in Dataset /\ stream[2] \in Device
    BY StreamAssumption
  <2>3. now - late \in Int
    BY BoundsAssumption DEF StoreInv, StoreTypeOK
  <2> QED
    BY <2>1, <2>2, <2>3, StoreRecordKeepsInv
<1>3. CASE \E quarantine \in BOOLEAN : Maintain(quarantine)
  BY <1>3, MaintainKeepsInv
<1>4. CASE Capture
  BY <1>4, CaptureKeepsInv
<1>5. CASE Replace
  BY <1>5, ReplaceKeepsInv
<1>6. CASE UNCHANGED storeVars
  BY <1>6 DEF storeVars, StoreInv, StoreTypeOK, ClockInv, RowsInv, PinInv, PinBehind, RetiredLater,
              ViewKept, View, Listed
<1> QED
  BY <1>1, <1>2, <1>3, <1>4, <1>5, <1>6 DEF StoreNext

\* Bounds that can still be read have not expired at the newest retention either.
LEMMA ReadableIsKept == StoreInv => PinnedViewStable
PROOF
<1> SUFFICES ASSUME StoreInv, NEW pin \in pins, Readable(pin.bounds)
             PROVE  View(rows, pin.bounds) = pin.view
  BY DEF PinnedViewStable
<1>1. pin.bounds.generation = meta.generation
  BY DEF Readable, GenerationChanged
<1>2. ViewKept(pin)
  BY <1>1 DEF StoreInv, PinInv
<1>3. RetentionAsOf(now) < pin.bounds.expiresAt
  <2>1. pin.bounds.expiresAt \in Int /\ RetentionAsOf(now) \in Int
    BY RetentionIsMonotone DEF StoreInv, StoreTypeOK, BoundsRecord
  <2> QED
    BY <2>1 DEF Readable, Expired
<1>4. meta.lastRetentionAsOf < pin.bounds.expiresAt
  <2>1. pin.bounds.expiresAt \in Int /\ meta.lastRetentionAsOf \in Int
    BY DEF StoreInv, StoreTypeOK, BoundsRecord, MetaRecord
  <2> QED
    BY <2>1, <1>3, RetentionIsMonotone
<1> QED
  BY <1>2, <1>4 DEF ViewKept

-----------------------------------------------------------------------------
(* What a view holds *)

\* What counts against a row.
Above(all, row) == {other \in all : SamePartition(other, row) /\ Newer(other, row)}

\* Active rows are told apart by their sequence and by their record.
Distinct(all) ==
  /\ IsFiniteSet(all)
  /\ \A a, b \in Active(all) : a.record = b.record \/ a.sequence = b.sequence => a = b

\* Of two active rows of a partition one is newer, and has fewer above it.
LEMMA NewerHasLess ==
  ASSUME NEW A \in SUBSET RowRecord, IsFiniteSet(A), NEW a \in A, NEW b \in A,
         SamePartition(a, b), Newer(a, b)
  PROVE  Cardinality(Above(A, a)) < Cardinality(Above(A, b))
<1>1. a \in RowRecord /\ b \in RowRecord /\ A \subseteq RowRecord
  OBVIOUS
<1>2. Above(A, a) \subseteq Above(A, b)
  BY <1>1 DEF Above, Newer, SamePartition, RowRecord
<1>3. a \in Above(A, b) /\ a \notin Above(A, a)
  BY <1>1 DEF Above, Newer, RowRecord
<1>4. Above(A, b) \in SUBSET A
  BY DEF Above
<1>5. IsFiniteSet(Above(A, b)) /\ Cardinality(Above(A, b)) \in Nat
  BY <1>4, FS_Subset, FS_CardinalityType
<1>6. Above(A, a) \in SUBSET Above(A, b)
  BY <1>2
<1>7. IsFiniteSet(Above(A, a)) /\ Cardinality(Above(A, a)) \in Nat
  BY <1>5, <1>6, FS_Subset, FS_CardinalityType
<1>8. Cardinality(Above(A, a)) <= Cardinality(Above(A, b))
  BY <1>5, <1>6, FS_Subset
<1>9. Cardinality(Above(A, a)) # Cardinality(Above(A, b))
  BY <1>3, <1>5, <1>6, FS_Subset
<1> QED
  BY <1>5, <1>7, <1>8, <1>9

\* So what is left of a partition is no more than its limit.
LEMMA SurplusLeavesLimit ==
  ASSUME NEW A \in SUBSET RowRecord, Distinct(A), Active(A) = A, NEW row \in A
  PROVE  Cardinality({b \in A \ Surplus(A) : SamePartition(row, b)}) <= Limit
<1> DEFINE P == {b \in A \ Surplus(A) : SamePartition(row, b)}
           f == [b \in P |-> Cardinality(Above(A, b))]
<1>1. \A b \in A : Cardinality(Above(A, b)) \in Nat
  <2> SUFFICES ASSUME NEW b \in A PROVE Cardinality(Above(A, b)) \in Nat
    OBVIOUS
  <2>1. Above(A, b) \in SUBSET A
    BY DEF Above
  <2> QED BY <2>1, FS_Subset, FS_CardinalityType DEF Distinct
<1>2. \A b \in P : b \in A /\ Cardinality(Above(A, b)) < Limit
  BY <1>1, LimitAssumption DEF Surplus, Above
<1>3. f \in [P -> 0..Limit - 1]
  BY <1>1, <1>2, LimitAssumption
<1>4. ASSUME NEW a \in P, NEW b \in P, a # b PROVE f[a] # f[b]
  <2>1. a \in RowRecord /\ b \in RowRecord /\ a \in A /\ b \in A
    BY <1>2
  <2>2. a.sequence # b.sequence
    BY <1>4, <2>1 DEF Distinct
  <2>3. SamePartition(a, b) /\ SamePartition(b, a)
    BY DEF SamePartition
  <2>4. Newer(a, b) \/ Newer(b, a)
    BY <2>1, <2>2 DEF Newer, RowRecord
  <2>5. Cardinality(Above(A, a)) < Cardinality(Above(A, b)) \/ Cardinality(Above(A, b)) < Cardinality(Above(A, a))
    BY <2>1, <2>3, <2>4, NewerHasLess DEF Distinct
  <2> QED BY <1>1, <2>1, <2>5
<1>5. f \in Injection(P, 0..Limit - 1)
  BY <1>3, <1>4 DEF Injection, IsInjective
<1>6. IsFiniteSet(0..Limit - 1) /\ Cardinality(0..Limit - 1) = Limit
  BY LimitAssumption, FS_Interval
<1>7. IsFiniteSet(P)
  <2>1. P \in SUBSET A
    OBVIOUS
  <2> QED BY <2>1, FS_Subset DEF Distinct
<1> HIDE DEF P, f
<1>8. Cardinality(P) <= Cardinality(0..Limit - 1)
  <2> DEFINE T == 0..Limit - 1
  <2>1. f \in Injection(P, T) /\ IsFiniteSet(T)
    BY <1>5, <1>6
  <2> HIDE DEF T
  <2>2. Cardinality(P) <= Cardinality(T)
    BY <2>1, FS_Injection
  <2> QED BY <2>2 DEF T
<1> QED
  BY <1>6, <1>8 DEF P

\* What a transaction leaves active was active, and is within the limits.
LEMMA CommitLeavesLimit ==
  ASSUME StoreInv, NEW all, NEW last, NEW quarantine \in BOOLEAN,
         Grown(all, last), Distinct(all), Commit(all, last, quarantine)
  PROVE  /\ Distinct(rows')
         /\ \A row \in Active(rows') : Cardinality({b \in Active(rows') : SamePartition(row, b)}) <= Limit
<1> DEFINE asOf == RetentionAsOf(now)
           kept == Kept(all, asOf)
           out == Retiring(kept, asOf)
           A == Active(kept \ Aged(kept, asOf))
           retired == {RetiredAs(row, asOf, meta.revision + 1) : row \in out}
<1>1. asOf \in Int /\ asOf >= 0 /\ meta.revision \in Nat
  BY RetentionIsMonotone DEF StoreInv, StoreTypeOK, MetaRecord
<1>2. rows' = (kept \ out) \cup retired
  BY DEF Commit, Retire
<1>3. kept \subseteq all /\ all \subseteq RowRecord /\ out \subseteq kept
  BY RetiringIsActive DEF Kept, Grown
<1>4. \A row \in retired : row.retiredAt # Null
  <2> SUFFICES ASSUME NEW old \in out PROVE RetiredAs(old, asOf, meta.revision + 1).retiredAt # Null
    OBVIOUS
  <2>1. old \in RowRecord /\ meta.revision + 1 \in Int
    BY <1>1, <1>3
  <2>2. RetiredAs(old, asOf, meta.revision + 1).retiredAt = asOf
    BY <1>1, <2>1, RetiredRow
  <2> QED BY <1>1, <2>2 DEF Null
<1>5. Active(rows') = A \ Surplus(A)
  <2>1. Active(rows') = Active(kept \ out)
    BY <1>2, <1>4 DEF Active
  <2>2. Active(A) = A /\ Surplus(A) = Surplus(kept \ Aged(kept, asOf))
    BY DEF Active, Surplus
  <2>3. Active(kept \ out) = A \ Surplus(kept \ Aged(kept, asOf))
    BY DEF Active, Surplus, Retiring
  <2> QED BY <2>1, <2>2, <2>3
<1>6. A \in SUBSET RowRecord /\ A \in SUBSET all /\ Active(A) = A /\ A \subseteq Active(all)
  BY <1>3 DEF Active
<1>7. Distinct(A)
  <2>1. IsFiniteSet(A)
    BY <1>6, FS_Subset DEF Distinct
  <2> QED BY <1>6, <2>1 DEF Distinct
<1>8. IsFiniteSet(rows')
  <2> DEFINE f == [row \in out |-> RetiredAs(row, asOf, meta.revision + 1)]
  <2>1. kept \ out \in SUBSET all /\ out \in SUBSET all
    BY <1>3
  <2>2. IsFiniteSet(kept \ out) /\ IsFiniteSet(out)
    BY <2>1, FS_Subset DEF Distinct
  <2>3. f \in Surjection(out, retired)
    BY DEF Surjection
  <2>4. IsFiniteSet(retired)
    BY <2>2, <2>3, FS_Surjection
  <2> HIDE DEF kept, out, retired
  <2> QED BY <1>2, <2>2, <2>4, FS_Union
<1> HIDE DEF A, asOf, kept, out, retired
<1>9. Distinct(rows')
  <2>1. Active(rows') \subseteq A /\ Active(A) = A
    BY <1>5, <1>6
  <2> QED BY <1>7, <1>8, <2>1 DEF Distinct
<1>10. ASSUME NEW row \in Active(rows')
       PROVE  Cardinality({b \in Active(rows') : SamePartition(row, b)}) <= Limit
  <2>1. row \in A
    BY <1>5
  <2>2. Cardinality({b \in A \ Surplus(A) : SamePartition(row, b)}) <= Limit
    BY <1>6, <1>7, <2>1, SurplusLeavesLimit
  <2> QED BY <1>5, <2>2
<1> QED
  BY <1>9, <1>10

\* A reader that would accept it (the body of ViewsAreValid).
ValidView(view) ==
  /\ \A a, b \in view : a.record = b.record => a = b
  /\ \A a \in view : Cardinality({b \in view : SamePartition(a, b)}) <= Limit

\* A view of active rows is valid if they are.
LEMMA ViewOfActive ==
  ASSUME NEW all \in SUBSET RowRecord, Distinct(all), NEW listed \in SUBSET Active(all),
         \A row \in Active(all) : Cardinality({b \in Active(all) : SamePartition(row, b)}) <= Limit
  PROVE  ValidView({Plain(row) : row \in listed})
<1> DEFINE view == {Plain(row) : row \in listed}
<1>1. \A row \in listed : row \in RowRecord /\ row \in Active(all)
  BY DEF Active
<1>2. \A a, b : SamePartition(Plain(a), Plain(b)) <=> SamePartition(a, b)
  BY DEF SamePartition, Plain
<1>3. \A a, b \in view : a.record = b.record => a = b
  BY <1>1 DEF Distinct, Plain
<1>4. ASSUME NEW a \in view PROVE Cardinality({b \in view : SamePartition(a, b)}) <= Limit
  <2>1. PICK row \in listed : a = Plain(row)
    OBVIOUS
  <2> DEFINE P == {b \in Active(all) : SamePartition(row, b)}
             S == {b \in listed : SamePartition(row, b)}
             T == {b \in view : SamePartition(a, b)}
             f == [b \in S |-> Plain(b)]
  <2>2. T = {Plain(b) : b \in S}
    BY <1>2, <2>1
  <2>3. f \in Surjection(S, T)
    BY <2>2 DEF Surjection
  <2>4. S \in SUBSET P /\ P \in SUBSET all
    BY DEF Active
  <2>5. IsFiniteSet(P) /\ Cardinality(P) <= Limit /\ Cardinality(P) \in Nat
    BY <1>1, <2>4, FS_Subset, FS_CardinalityType DEF Distinct
  <2> HIDE DEF P, S, T, f
  <2>6. IsFiniteSet(S) /\ Cardinality(S) <= Cardinality(P) /\ Cardinality(S) \in Nat
    BY <2>4, <2>5, FS_Subset, FS_CardinalityType
  <2>7. IsFiniteSet(T) /\ Cardinality(T) <= Cardinality(S)
    BY <2>3, <2>6, FS_Surjection
  <2>8. Cardinality(T) \in Nat
    BY <2>7, FS_CardinalityType
  <2> QED BY <2>5, <2>6, <2>7, <2>8, LimitAssumption DEF T
<1> HIDE DEF view
<1> QED
  BY <1>3, <1>4 DEF ValidView, view

\* What a step keeps, next to StoreInv.
ViewInv == Distinct(rows) /\ ViewsAreValid

LEMMA GrownStaysDistinct ==
  ASSUME StoreInv, Distinct(rows), NEW row \in RowRecord,
         row.sequence = meta.lastSequence + 1, \A other \in Active(rows) : other.record # row.record
  PROVE  Distinct(rows \cup {row})
<1>1. IsFiniteSet(rows \cup {row})
  BY FS_AddElement DEF Distinct
<1>2. \A other \in rows : other.sequence # row.sequence
  BY DEF StoreInv, StoreTypeOK, RowsInv, RowRecord, MetaRecord
<1>3. Active(rows \cup {row}) \subseteq Active(rows) \cup {row} /\ Active(rows) \subseteq rows
  BY DEF Active
<1> QED
  BY <1>1, <1>2, <1>3 DEF Distinct

\* A new pin lists rows that the transaction left active.
LEMMA CaptureListsActive ==
  ASSUME StoreInv, Distinct(rows), Capture
  PROVE  \E fresh, listed :
           /\ pins' = pins \cup {fresh} /\ fresh.view = {Plain(row) : row \in listed}
           /\ listed \in SUBSET Active(rows') /\ rows' \in SUBSET RowRecord /\ Distinct(rows')
           /\ \A row \in Active(rows') : Cardinality({b \in Active(rows') : SamePartition(row, b)}) <= Limit
<1> DEFINE asOf == RetentionAsOf(now)
           bounds == BoundsAt(asOf, RevisionAfter(rows, asOf, FALSE))
           fresh == [bounds |-> bounds, view |-> View(Retire(rows, asOf), bounds)]
<1>1. Commit(rows, meta.lastSequence, FALSE) /\ pins' = pins \cup {fresh} /\ rows' = Retire(rows, asOf)
  BY DEF Capture, Commit
<1>2. /\ Distinct(rows')
      /\ \A row \in Active(rows') : Cardinality({b \in Active(rows') : SamePartition(row, b)}) <= Limit
  BY <1>1, NothingGrows, CommitLeavesLimit
<1>3. rows' \subseteq RowRecord /\ RowsInv' /\ meta' \in MetaRecord
  BY <1>1, NothingGrows, CommitKeepsRows
<1>4. bounds.revision = meta'.revision /\ fresh.view = View(rows', bounds)
  <2>1. meta'.revision = RevisionAfter(rows, asOf, FALSE)
    BY <1>1, NothingGrows, CommitKeepsRows
  <2> QED BY <1>1, <2>1 DEF BoundsAt
<1> HIDE DEF asOf, bounds, fresh
<1>5. ASSUME NEW row \in Listed(rows', bounds) PROVE row \in Active(rows')
  <2>0. /\ row \in rows'
        /\ row.retiredRevision = Null \/ row.retiredRevision > bounds.revision
    BY <1>5 DEF Listed
  <2>1. /\ row \in rows' /\ row.retiredRevision \in Int /\ meta'.revision \in Int
        /\ row.retiredRevision = Null \/ row.retiredRevision > meta'.revision
    BY <1>3, <1>4, <2>0 DEF RowRecord, MetaRecord
  <2>2. row.retiredRevision <= meta'.revision /\ (row.retiredAt = Null <=> row.retiredRevision = Null)
    BY <1>3, <2>1 DEF RowsInv
  <2> QED BY <2>1, <2>2 DEF Active
<1>6. Listed(rows', bounds) \in SUBSET Active(rows')
  BY <1>5
<1>7. fresh.view = {Plain(row) : row \in Listed(rows', bounds)}
  BY <1>4 DEF View
<1> QED
  BY <1>1, <1>2, <1>3, <1>6, <1>7

LEMMA ViewInvStep == StoreInv /\ ViewInv /\ [StoreNext]_storeVars => ViewInv'
<1> SUFFICES ASSUME StoreInv, ViewInv, [StoreNext]_storeVars PROVE ViewInv'
  OBVIOUS
<1>1. Distinct(rows) /\ \A pin \in pins : ValidView(pin.view)
  BY DEF ViewInv, ViewsAreValid, ValidView
<1>2. ASSUME Distinct(rows)', \A pin \in pins' : ValidView(pin.view) PROVE ViewInv'
  BY <1>2 DEF ViewInv, ViewsAreValid, ValidView
<1>3. ASSUME NEW quarantine \in BOOLEAN, Maintain(quarantine) PROVE ViewInv'
  BY <1>1, <1>2, <1>3, NothingGrows, CommitLeavesLimit DEF Maintain
<1>4. ASSUME NEW dataset \in Dataset, NEW device \in Device, NEW record \in Record, NEW occurredAt \in Int,
             StoreRecord(dataset, device, record, occurredAt)
      PROVE  ViewInv'
  <2> DEFINE row == [generation |-> meta.generation, sequence |-> meta.lastSequence + 1, record |-> record,
                     dataset |-> dataset, device |-> device, occurredAt |-> occurredAt,
                     retiredAt |-> Null, retiredRevision |-> Null]
  <2>1. meta.generation \in Nat /\ meta.lastSequence \in Nat /\ rows \subseteq RowRecord
    BY DEF StoreInv, StoreTypeOK, MetaRecord
  <2>2. row \in RowRecord /\ row.sequence = meta.lastSequence + 1 /\ row.record = record
    BY <2>1 DEF RowRecord, Null
  <2>3. Grown(rows \cup {row}, meta.lastSequence + 1)
    BY <2>1, <2>2 DEF Grown
  <2>4. /\ Commit(rows \cup {row}, meta.lastSequence + 1, FALSE) /\ UNCHANGED <<now, pins>>
        /\ \A other \in Active(rows) : other.record # record
    BY <1>4 DEF StoreRecord
  <2> HIDE DEF row
  <2>5. Distinct(rows \cup {row})
    BY <1>1, <2>2, <2>4, GrownStaysDistinct
  <2> QED BY <1>1, <1>2, <2>3, <2>4, <2>5, CommitLeavesLimit
<1>5. CASE \E stream \in Stream, record \in Record, late \in 0..MaxLate :
             StoreRecord(stream[1], stream[2], record, now - late)
  <2>1. PICK stream \in Stream, record \in Record, late \in 0..MaxLate :
               StoreRecord(stream[1], stream[2], record, now - late)
    BY <1>5
  <2>2. stream[1] \in Dataset /\ stream[2] \in Device /\ now - late \in Int
    BY StreamAssumption, BoundsAssumption DEF StoreInv, StoreTypeOK
  <2> QED BY <1>4, <2>1, <2>2
<1>6. CASE Capture
  <2>1. PICK fresh, listed :
             /\ pins' = pins \cup {fresh} /\ fresh.view = {Plain(row) : row \in listed}
             /\ listed \in SUBSET Active(rows') /\ rows' \in SUBSET RowRecord /\ Distinct(rows')
             /\ \A row \in Active(rows') : Cardinality({b \in Active(rows') : SamePartition(row, b)}) <= Limit
    BY <1>1, <1>6, CaptureListsActive
  <2>2. ValidView(fresh.view)
    BY <2>1, ViewOfActive
  <2> QED BY <1>1, <1>2, <2>1, <2>2
<1>7. CASE Replace
  <2>1. rows' = {} /\ pins' = pins
    BY <1>7 DEF Replace
  <2>2. Distinct(rows)'
    BY <2>1, FS_EmptySet DEF Distinct, Active
  <2> QED BY <1>1, <1>2, <2>1, <2>2
<1>8. CASE SetClock \/ UNCHANGED storeVars
  <2>1. rows' = rows /\ pins' = pins
    BY <1>8 DEF SetClock, storeVars
  <2> QED BY <1>1, <1>2, <2>1
<1> QED
  BY <1>3, <1>5, <1>6, <1>7, <1>8 DEF StoreNext

-----------------------------------------------------------------------------
(* The invariant of the session *)

\* A view whose rows have one order.
Sound(view) ==
  /\ view \subseteq PlainRecord /\ IsFiniteSet(view)
  /\ \A a, b \in view : a.record = b.record \/ a.sequence = b.sequence => a = b

Position(row) == [occurredAt |-> row.occurredAt, sequence |-> row.sequence]

\* A cursor behind the first k rows of a listing that has more.
CursorTo(cursor, all, k, bounds, criteria) ==
  /\ k \in 1..Len(all) - 1
  /\ cursor # None
  /\ cursor.criteria = criteria /\ cursor.bounds = bounds
  /\ cursor.position = Position(all[k])

\* A page of what follows the first k rows of a listing.
Continues(page, all, k, bounds, criteria) ==
  /\ page.kind = "page" /\ page.bounds = PublicBounds(bounds)
  /\ Len(page.items) \in 0..Len(all) - k /\ Len(page.items) <= PageSize
  /\ page.items = SubSeq(all, k + 1, k + Len(page.items))
  /\ page.next = None => k + Len(page.items) = Len(all)
  /\ page.next # None => Len(page.items) = PageSize /\ CursorTo(page.next, all, k + PageSize, bounds, criteria)

\* What the pin lists for the query of the session.
Listing(pin) == Ordered(pin.view, session.factory)

\* The session has read the first rows of a pin's listing.
Reading(pin) ==
  LET n == Len(session.items)
  IN  /\ session.metadata = [criteria |-> session.factory, bounds |-> PublicBounds(pin.bounds)]
      /\ n \in 0..Len(Listing(pin))
      /\ session.items = SubSeq(Listing(pin), 1, n)
      /\ session.next = None => n = Len(Listing(pin))
      /\ session.next # None =>
           n = session.pages * PageSize /\ CursorTo(session.next, Listing(pin), n, pin.bounds, session.factory)
      /\ \A cursor \in session.used : \E k \in 1..n - 1 : cursor.position = Position(Listing(pin)[k])

\* What was read before the session was restarted.
Retained(pin) ==
  LET previous == session.previous
      all == Ordered(pin.view, previous.metadata.criteria)
  IN  /\ previous.metadata # None
      /\ previous.metadata.bounds = PublicBounds(pin.bounds)
      /\ previous.items = SubSeq(all, 1, Len(previous.items))

ReadInv ==
  /\ session.metadata = None =>
       session.items = <<>> /\ session.next = None /\ session.used = {} /\ session.pages = 0
  /\ session.metadata # None => session.previous = None /\ \E pin \in pins : Reading(pin)
  /\ session.previous # None => \E pin \in pins : Retained(pin)

\* A page is only asked for while there is one and the limits leave room for it.
StatusInv ==
  /\ session.status = "ready" =>
       /\ session.metadata # None
       /\ session.next # None /\ ~session.limitReached => session.pages < MaxPages
  /\ session.status \in {"loading", "error"} /\ session.metadata # None =>
       session.next # None /\ session.pages < MaxPages
  /\ session.status = "error" => session.failedCursor = session.next
  /\ session.error \notin {"invalid_response", "cursor_query_mismatch", "limit"}

\* The answer to the request of the session, of a pin it reads if it reads one.
Answered(call) ==
  /\ call.answer.kind \in {"page", "error"}
  /\ call.answer.kind = "error" => call.answer.reason \notin {"invalid_response", "cursor_query_mismatch", "limit"}
  /\ call.answer.kind = "page" =>
       \E pin \in pins :
         /\ session.metadata # None => Reading(pin)
         /\ Continues(call.answer, Listing(pin), Len(session.items), pin.bounds, session.factory)

CallInv(call) ==
  /\ call.epoch \in Nat /\ call.epoch <= session.epoch
  /\ call.epoch = session.epoch =>
       /\ session.status = "loading"
       /\ call.criteria = session.factory /\ call.cursor = session.next
       /\ call.answer # None => Answered(call)

CallsInv ==
  /\ \A call \in calls : CallInv(call)
  /\ \A call, other \in calls : call.epoch = other.epoch => call = other

SessionShape ==
  /\ DOMAIN session = DOMAIN Blank /\ session.pages \in Nat /\ session.epoch \in Nat
  /\ \A call \in calls : DOMAIN call = {"epoch", "criteria", "cursor", "answer"}

SessionInv == SessionShape /\ ReadInv /\ StatusInv /\ CallsInv
-----------------------------------------------------------------------------
(* What a reader lists *)

\* Rows that have one order.
OrderedSet(S) ==
  IsFiniteSet(S) /\ S \subseteq PlainRecord /\ \A a, b \in S : a.sequence = b.sequence => a = b

NewerThan(S, row) == {other \in S : Newer(other, row)}

Descending(q, m) == \A i, j \in 1..m : i < j <=> Newer(q[i], q[j])

\* A sequence that names every row of S, newest first.
Lists(q, m, S) ==
  /\ m \in Nat /\ q \in [1..m -> S] /\ Descending(q, m)
  /\ \A row \in S : \E i \in 1..m : row = q[i]

\* There is one such sequence, and InOrder is it.
LEMMA ListsIsInOrder ==
  ASSUME NEW S, NEW m, NEW q, Lists(q, m, S)
  PROVE  Cardinality(S) = m /\ InOrder(S) = q
<1>1. m \in Nat /\ q \in [1..m -> S] /\ \A row \in S : \E i \in 1..m : row = q[i]
  BY DEF Lists
<1>2. \A i, j \in 1..m : i < j <=> Newer(q[i], q[j])
  BY DEF Lists, Descending
<1>3. \A i, j \in 1..m : q[i] = q[j] => i = j
  <2> SUFFICES ASSUME NEW i \in 1..m, NEW j \in 1..m, q[i] = q[j] PROVE i = j
    OBVIOUS
  <2>1. ~(i < j) /\ ~(j < i)
    BY <1>2
  <2> QED BY <1>1, <2>1
<1>4. Cardinality(S) = m
  <2>1. q \in Surjection(1..m, S)
    BY <1>1 DEF Surjection
  <2>2. q \in Injection(1..m, S)
    BY <1>1, <1>3 DEF Injection, IsInjective
  <2>3. IsFiniteSet(1..m) /\ Cardinality(1..m) = m
    BY <1>1, FS_Interval
  <2> QED BY <2>1, <2>2, <2>3, FS_Surjection
<1>5. ASSUME NEW i \in 1..m PROVE Cardinality(NewerThan(S, q[i])) = i - 1
  <2> DEFINE f == [j \in 1..i - 1 |-> q[j]]
             T == NewerThan(S, q[i])
  <2>1. i - 1 \in Int /\ \A j \in 1..i - 1 : j \in 1..m /\ j < i
    BY <1>1
  <2>2. f \in [1..i - 1 -> T]
    BY <1>1, <1>2, <2>1 DEF NewerThan
  <2>3. ASSUME NEW row \in T PROVE \E j \in 1..i - 1 : f[j] = row
    <3>1. PICK j \in 1..m : row = q[j]
      BY <1>1 DEF NewerThan
    <3>2. j < i
      BY <1>2, <3>1 DEF NewerThan
    <3>3. j \in 1..i - 1
      BY <1>1, <3>2
    <3> QED BY <3>1, <3>3
  <2>4. f \in Surjection(1..i - 1, T)
    BY <2>2, <2>3 DEF Surjection
  <2>5. f \in Injection(1..i - 1, T)
    BY <1>3, <2>1, <2>2 DEF Injection, IsInjective
  <2>6. IsFiniteSet(1..i - 1) /\ Cardinality(1..i - 1) = i - 1
    BY <1>1, FS_Interval
  <2> HIDE DEF f, T
  <2>7. Cardinality(T) = i - 1
    BY <2>4, <2>5, <2>6, FS_Surjection
  <2> QED BY <2>7 DEF T
<1>6. ASSUME NEW i \in 1..m PROVE (CHOOSE row \in S : Cardinality(NewerThan(S, row)) = i - 1) = q[i]
  <2>1. q[i] \in S /\ Cardinality(NewerThan(S, q[i])) = i - 1
    BY <1>1, <1>5
  <2>2. ASSUME NEW row \in S, Cardinality(NewerThan(S, row)) = i - 1 PROVE row = q[i]
    <3>1. PICK j \in 1..m : row = q[j]
      BY <1>1
    <3>2. j - 1 = i - 1
      BY <1>5, <2>2, <3>1
    <3>3. j = i
      BY <1>1, <3>2
    <3> QED BY <3>1, <3>3
  <2> QED BY <2>1, <2>2
<1>7. InOrder(S) = [i \in 1..m |-> CHOOSE row \in S : Cardinality(NewerThan(S, row)) = i - 1]
  BY <1>4 DEF InOrder, NewerThan
<1>8. InOrder(S) = [i \in 1..m |-> q[i]]
  BY <1>6, <1>7
<1> QED
  BY <1>1, <1>4, <1>8

\* Of two rows one is newer.
LEMMA NewerIsOrder ==
  ASSUME NEW a \in PlainRecord, NEW b \in PlainRecord
  PROVE  /\ Newer(a, b) => ~Newer(b, a)
         /\ a.sequence # b.sequence => Newer(a, b) \/ Newer(b, a)
         /\ \A c \in PlainRecord : Newer(c, a) /\ Newer(a, b) => Newer(c, b)
BY DEF Newer, PlainRecord

\* The newer of two rows has fewer above it.
LEMMA NewerHasFewer ==
  ASSUME NEW S, OrderedSet(S), NEW a \in S, NEW b \in S, Newer(a, b)
  PROVE  Cardinality(NewerThan(S, a)) < Cardinality(NewerThan(S, b))
<1>1. a \in PlainRecord /\ b \in PlainRecord /\ S \subseteq PlainRecord /\ IsFiniteSet(S)
  BY DEF OrderedSet
<1>2. NewerThan(S, a) \in SUBSET NewerThan(S, b)
  BY <1>1, NewerIsOrder DEF NewerThan
<1>3. a \in NewerThan(S, b) /\ a \notin NewerThan(S, a)
  BY <1>1, NewerIsOrder DEF NewerThan
<1>4. NewerThan(S, b) \in SUBSET S /\ NewerThan(S, a) \in SUBSET S
  BY DEF NewerThan
<1>5. /\ IsFiniteSet(NewerThan(S, b)) /\ Cardinality(NewerThan(S, b)) \in Nat
      /\ Cardinality(NewerThan(S, a)) \in Nat
  BY <1>1, <1>4, FS_Subset, FS_CardinalityType
<1>6. Cardinality(NewerThan(S, a)) <= Cardinality(NewerThan(S, b))
  BY <1>2, <1>5, FS_Subset
<1>7. Cardinality(NewerThan(S, a)) # Cardinality(NewerThan(S, b))
  BY <1>2, <1>3, <1>5, FS_Subset
<1> QED
  BY <1>5, <1>6, <1>7

\* So every number of rows above is taken once, and InOrder names every row.
LEMMA InOrderLists ==
  ASSUME NEW S, OrderedSet(S)
  PROVE  Lists(InOrder(S), Cardinality(S), S)
<1> DEFINE n == Cardinality(S)
           f == [row \in S |-> Cardinality(NewerThan(S, row))]
           o == InOrder(S)
           T == 0..n - 1
<1>1. S \subseteq PlainRecord /\ IsFiniteSet(S) /\ n \in Nat
  BY FS_CardinalityType DEF OrderedSet
<1>2. ASSUME NEW row \in S PROVE f[row] \in T
  <2>1. NewerThan(S, row) \in SUBSET S /\ row \in S /\ row \notin NewerThan(S, row)
    BY <1>1, NewerIsOrder DEF NewerThan
  <2>2. /\ IsFiniteSet(NewerThan(S, row)) /\ Cardinality(NewerThan(S, row)) \in Nat
        /\ Cardinality(NewerThan(S, row)) <= n
        /\ Cardinality(NewerThan(S, row)) # n
    BY <1>1, <2>1, FS_Subset, FS_CardinalityType
  <2> QED BY <1>1, <2>2
<1>3. \A a, b \in S : Newer(a, b) => f[a] < f[b]
  BY NewerHasFewer
<1>4. \A a, b \in S : a # b => Newer(a, b) \/ Newer(b, a)
  BY <1>1, NewerIsOrder DEF OrderedSet
<1> HIDE DEF f
<1>5. \A a, b \in S : f[a] = f[b] => a = b
  <2> SUFFICES ASSUME NEW a \in S, NEW b \in S, a # b PROVE f[a] # f[b]
    OBVIOUS
  <2>1. f[a] < f[b] \/ f[b] < f[a]
    BY <1>3, <1>4
  <2> QED BY <1>1, <1>2, <2>1
<1>6. f \in Injection(S, T)
  BY <1>2, <1>5 DEF Injection, IsInjective, f
<1>7. IsFiniteSet(T) /\ Cardinality(T) = n
  BY <1>1, FS_Interval
<1> HIDE DEF T, n
<1>8. f \in Surjection(S, T)
  BY <1>6, <1>7, FS_Injection DEF n
<1>9. ASSUME NEW i \in 1..n PROVE o[i] \in S /\ f[o[i]] = i - 1
  <2>1. i - 1 \in T
    BY <1>1 DEF T
  <2>2. \E row \in S : f[row] = i - 1
    BY <1>8, <2>1 DEF Surjection
  <2>3. \E row \in S : Cardinality(NewerThan(S, row)) = i - 1
    BY <2>2 DEF f
  <2>4. o[i] = CHOOSE row \in S : Cardinality(NewerThan(S, row)) = i - 1
    BY DEF InOrder, NewerThan, n
  <2> HIDE DEF o
  <2>5. o[i] \in S /\ Cardinality(NewerThan(S, o[i])) = i - 1
    BY <2>3, <2>4
  <2> QED BY <2>5 DEF f
<1>10. o \in [1..n -> S]
  <2>1. o = [i \in 1..n |-> o[i]]
    BY DEF InOrder, n
  <2> QED BY <1>9, <2>1
<1> HIDE DEF o
<1>11. \A i, j \in 1..n : i < j <=> Newer(o[i], o[j])
  <2> SUFFICES ASSUME NEW i \in 1..n, NEW j \in 1..n PROVE i < j <=> Newer(o[i], o[j])
    OBVIOUS
  <2>1. o[i] \in S /\ o[j] \in S /\ f[o[i]] = i - 1 /\ f[o[j]] = j - 1
    BY <1>9
  <2>2. i < j => Newer(o[i], o[j])
    <3> SUFFICES ASSUME i < j PROVE Newer(o[i], o[j])
      OBVIOUS
    <3>1. o[i] # o[j]
      BY <1>1, <2>1
    <3>2. ~Newer(o[j], o[i])
      <4> SUFFICES ASSUME Newer(o[j], o[i]) PROVE FALSE
        OBVIOUS
      <4>1. f[o[j]] < f[o[i]]
        BY <1>3, <2>1
      <4> QED BY <1>1, <2>1, <4>1
    <3> QED BY <1>4, <2>1, <3>1, <3>2
  <2>3. Newer(o[i], o[j]) => i < j
    <3> SUFFICES ASSUME Newer(o[i], o[j]) PROVE i < j
      OBVIOUS
    <3>1. f[o[i]] < f[o[j]]
      BY <1>3, <2>1
    <3> QED BY <1>1, <2>1, <3>1
  <2> QED BY <2>2, <2>3
<1>12. ASSUME NEW row \in S PROVE \E i \in 1..n : row = o[i]
  <2>1. f[row] \in T
    BY <1>2
  <2>2. f[row] + 1 \in 1..n /\ (f[row] + 1) - 1 = f[row]
    BY <1>1, <2>1 DEF T
  <2>3. f[o[f[row] + 1]] = f[row] /\ o[f[row] + 1] \in S
    BY <1>9, <2>2
  <2> QED BY <1>5, <2>2, <2>3
<1> QED
  BY <1>1, <1>10, <1>11, <1>12 DEF Lists, Descending, o, n

LEMMA NoneIsNoPosition ==
  ASSUME NEW row, NEW criteria, NEW bounds
  PROVE  Position(row) # None /\ CursorAt(criteria, bounds, row) # None
<1>1. "occurredAt" \in DOMAIN Position(row) /\ "process" \in DOMAIN CursorAt(criteria, bounds, row)
  BY DEF Position, CursorAt
<1>2. "occurredAt" \notin DOMAIN None /\ "process" \notin DOMAIN None
  BY DEF None
<1> QED
  BY <1>1, <1>2

\* A slice of the rest of a sequence is a slice of the sequence.
LEMMA SliceOfRest ==
  ASSUME NEW S, NEW s \in Seq(S), NEW k \in 0..Len(s), NEW c \in 0..Len(s) - k
  PROVE  /\ Len(SubSeq(s, k + 1, Len(s))) = Len(s) - k
         /\ SubSeq(SubSeq(s, k + 1, Len(s)), 1, c) = SubSeq(s, k + 1, k + c)
         /\ Len(SubSeq(s, k + 1, k + c)) = c
         /\ c > 0 => SubSeq(s, k + 1, Len(s))[c] = s[k + c]
<1> DEFINE rest == SubSeq(s, k + 1, Len(s))
<1>1. Len(s) \in Nat /\ \A i \in 1..Len(s) : s[i] \in S
  BY LenProperties, ElementOfSeq
<1>2. /\ rest \in Seq(S) /\ Len(rest) = Len(s) - k
      /\ \A i \in 1..Len(s) - k : rest[i] = s[k + i]
  <2>1. \A i \in k + 1..Len(s) : s[i] \in S
    BY <1>1
  <2>2. k + 1 \in Int /\ Len(s) \in Int
    BY <1>1
  <2>3. /\ rest \in Seq(S)
        /\ Len(rest) = IF k + 1 <= Len(s) THEN Len(s) - (k + 1) + 1 ELSE 0
        /\ \A i \in 1..Len(s) - (k + 1) + 1 : rest[i] = s[k + 1 + i - 1]
    BY <2>1, <2>2, SubSeqProperties
  <2> HIDE DEF rest
  <2>4. Len(rest) = Len(s) - k
    BY <1>1, <2>3
  <2>5. ASSUME NEW i \in 1..Len(s) - k PROVE rest[i] = s[k + i]
    <3>1. i \in 1..Len(s) - (k + 1) + 1 /\ k + 1 + i - 1 = k + i
      BY <1>1
    <3>2. rest[i] = s[k + 1 + i - 1]
      BY ONLY <2>3, <3>1
    <3> QED BY <3>1, <3>2
  <2> QED BY <2>3, <2>4, <2>5
<1> HIDE DEF rest
<1>3. /\ SubSeq(rest, 1, c) \in Seq(S) /\ Len(SubSeq(rest, 1, c)) = c
      /\ \A i \in 1..c : SubSeq(rest, 1, c)[i] = s[k + i]
  <2>1. \A i \in 1..c : rest[i] \in S /\ rest[i] = s[k + i]
    BY <1>1, <1>2
  <2>2. /\ SubSeq(rest, 1, c) \in Seq(S)
        /\ Len(SubSeq(rest, 1, c)) = IF 1 <= c THEN c - 1 + 1 ELSE 0
        /\ \A i \in 1..c - 1 + 1 : SubSeq(rest, 1, c)[i] = rest[1 + i - 1]
    BY <1>1, <2>1, SubSeqProperties
  <2> QED BY <1>1, <2>1, <2>2
<1>4. /\ SubSeq(s, k + 1, k + c) \in Seq(S) /\ Len(SubSeq(s, k + 1, k + c)) = c
      /\ \A i \in 1..c : SubSeq(s, k + 1, k + c)[i] = s[k + i]
  <2>1. \A i \in k + 1..k + c : s[i] \in S
    BY <1>1
  <2>2. k + 1 \in Int /\ k + c \in Int
    BY <1>1
  <2>3. /\ SubSeq(s, k + 1, k + c) \in Seq(S)
        /\ Len(SubSeq(s, k + 1, k + c)) = IF k + 1 <= k + c THEN (k + c) - (k + 1) + 1 ELSE 0
        /\ \A i \in 1..(k + c) - (k + 1) + 1 : SubSeq(s, k + 1, k + c)[i] = s[k + 1 + i - 1]
    BY <2>1, <2>2, SubSeqProperties
  <2> QED BY <1>1, <2>3
<1>5. SubSeq(rest, 1, c) = SubSeq(s, k + 1, k + c)
  <2>1. \A i \in 1..Len(SubSeq(rest, 1, c)) : SubSeq(rest, 1, c)[i] = SubSeq(s, k + 1, k + c)[i]
    BY <1>3, <1>4
  <2> QED BY ONLY <1>3, <1>4, <2>1, SeqEqual
<1>6. c > 0 => rest[c] = s[k + c]
  BY <1>1, <1>2
<1> QED
  BY <1>2, <1>4, <1>5, <1>6 DEF rest

\* What is behind a row is the rest of the list.
LEMMA AfterIsRest ==
  ASSUME NEW S, OrderedSet(S), NEW k \in 1..Cardinality(S)
  PROVE  InOrder(After(S, Position(InOrder(S)[k]))) = SubSeq(InOrder(S), k + 1, Cardinality(S))
<1> DEFINE o == InOrder(S)
           n == Cardinality(S)
           T == After(S, Position(o[k]))
           q == [i \in 1..n - k |-> o[k + i]]
<1>1. n \in Nat /\ o \in [1..n -> S] /\ \A row \in S : \E i \in 1..n : row = o[i]
  BY InOrderLists DEF Lists
<1>2. \A i, j \in 1..n : i < j <=> Newer(o[i], o[j])
  BY InOrderLists DEF Lists, Descending
<1>3. T = {row \in S : Newer(o[k], row)}
  BY NoneIsNoPosition DEF After, Newer, Position
<1> HIDE DEF o, n, T
<1>4. \A i \in 1..n - k : q[i] = o[k + i] /\ k + i \in 1..n /\ k < k + i
  BY <1>1 DEF n
<1>5. q \in [1..n - k -> T]
  BY <1>1, <1>2, <1>3, <1>4 DEF n
<1>6. ASSUME NEW row \in T PROVE \E i \in 1..n - k : row = q[i]
  <2>1. PICK j \in 1..n : row = o[j]
    BY <1>1, <1>3
  <2>2. k < j
    BY <1>2, <1>3, <2>1 DEF n
  <2>3. j - k \in 1..n - k /\ k + (j - k) = j
    BY <1>1, <2>2 DEF n
  <2>4. q[j - k] = o[j]
    BY <2>3
  <2> QED BY <2>1, <2>3, <2>4
<1>7. Descending(q, n - k)
  <2> SUFFICES ASSUME NEW i \in 1..n - k, NEW j \in 1..n - k PROVE i < j <=> Newer(q[i], q[j])
    BY DEF Descending
  <2>1. k + i < k + j <=> Newer(o[k + i], o[k + j])
    BY <1>2, <1>4
  <2> QED BY <1>1, <1>4, <2>1 DEF n
<1>8. n - k \in Nat
  BY <1>1 DEF n
<1> HIDE DEF q
<1>9. InOrder(T) = q
  BY <1>5, <1>6, <1>7, <1>8, ListsIsInOrder DEF Lists
<1>10. q = SubSeq(o, k + 1, n)
  <2>1. \A i \in k + 1..n : o[i] \in S
    BY <1>1 DEF n
  <2>2. k + 1 \in Int /\ n \in Int
    BY <1>1 DEF n
  <2>3. /\ SubSeq(o, k + 1, n) \in Seq(S)
        /\ Len(SubSeq(o, k + 1, n)) = IF k + 1 <= n THEN n - (k + 1) + 1 ELSE 0
        /\ \A i \in 1..n - (k + 1) + 1 : SubSeq(o, k + 1, n)[i] = o[k + 1 + i - 1]
    BY <2>1, <2>2, SubSeqProperties
  <2>4. \A i \in 1..n - k : SubSeq(o, k + 1, n)[i] = q[i]
    BY <1>1, <1>4, <2>3 DEF n, q
  <2>5. q \in Seq(S) /\ Len(q) = n - k
    BY <1>3, <1>5, <1>8
  <2>6. Len(SubSeq(o, k + 1, n)) = n - k
    BY <1>1, <2>3 DEF n
  <2> QED BY ONLY <2>3, <2>4, <2>5, <2>6, SeqEqual
<1> QED
  BY <1>9, <1>10 DEF o, n, T

LEMMA SelectedIsOrdered ==
  ASSUME NEW view, Sound(view), NEW criteria
  PROVE  /\ OrderedSet(Selected(view, criteria))
         /\ Selected(view, criteria) \subseteq view
<1>1. Selected(view, criteria) \in SUBSET view
  BY DEF Selected
<1> QED
  BY <1>1, FS_Subset DEF Sound, OrderedSet

\* The listing of a query.
LEMMA OrderedIsListing ==
  ASSUME NEW view, Sound(view), NEW criteria
  PROVE  /\ Ordered(view, criteria) \in Seq(PlainRecord)
         /\ Len(Ordered(view, criteria)) = Cardinality(Selected(view, criteria))
         /\ Len(Ordered(view, criteria)) \in Nat
         /\ \A i \in 1..Len(Ordered(view, criteria)) :
              Ordered(view, criteria)[i] \in view /\ Ordered(view, criteria)[i] \in PlainRecord
         /\ \A i, j \in 1..Len(Ordered(view, criteria)) :
              i < j <=> Newer(Ordered(view, criteria)[i], Ordered(view, criteria)[j])
<1> DEFINE S == Selected(view, criteria)
<1>1. OrderedSet(S) /\ S \subseteq view /\ S \subseteq PlainRecord
  BY SelectedIsOrdered DEF OrderedSet
<1> HIDE DEF S
<1>2. Lists(InOrder(S), Cardinality(S), S)
  BY <1>1, InOrderLists
<1>3. /\ Cardinality(S) \in Nat /\ InOrder(S) \in [1..Cardinality(S) -> S]
      /\ \A i, j \in 1..Cardinality(S) : i < j <=> Newer(InOrder(S)[i], InOrder(S)[j])
  BY <1>2 DEF Lists, Descending
<1>4. InOrder(S) \in Seq(PlainRecord) /\ Len(InOrder(S)) = Cardinality(S)
  BY <1>1, <1>3
<1> QED
  BY <1>1, <1>3, <1>4 DEF Ordered, S

\* A page of what is behind the first k rows of a listing continues it there.
LEMMA PageContinues ==
  ASSUME NEW view, Sound(view), NEW criteria, NEW bounds, NEW k \in 0..Len(Ordered(view, criteria)),
         NEW position, position = IF k = 0 THEN None ELSE Position(Ordered(view, criteria)[k])
  PROVE  Continues(PageOf(view, criteria, bounds, position), Ordered(view, criteria), k, bounds, criteria)
<1> DEFINE o == Ordered(view, criteria)
           S == Selected(view, criteria)
           rest == InOrder(After(S, position))
           c == IF Len(rest) < PageSize THEN Len(rest) ELSE PageSize
           page == PageOf(view, criteria, bounds, position)
<1>1. o \in Seq(PlainRecord) /\ Len(o) \in Nat /\ Len(o) = Cardinality(S) /\ o = InOrder(S)
  BY OrderedIsListing DEF Ordered
<1>2. OrderedSet(S)
  BY SelectedIsOrdered
<1>3. PageSize \in Nat \ {0} /\ k \in 0..Len(o)
  BY PagesAssumption
<1>4. page = [kind |-> "page", items |-> SubSeq(rest, 1, c), bounds |-> PublicBounds(bounds),
              next |-> IF Len(rest) <= PageSize THEN None ELSE CursorAt(criteria, bounds, rest[PageSize])]
  BY DEF PageOf
<1>5. position = IF k = 0 THEN None ELSE Position(InOrder(S)[k])
  BY <1>1
<1> HIDE DEF o, S, page
<1>6. rest = SubSeq(o, k + 1, Len(o))
  <2>1. CASE k = 0
    <3>1. After(S, position) = S
      BY <1>5, <2>1 DEF After
    <3>2. SubSeq(o, 1, Len(o)) = o
      BY <1>1, SubSeqFull
    <3> QED BY <1>1, <2>1, <3>1, <3>2
  <2>2. CASE k # 0
    <3>1. k \in 1..Cardinality(S) /\ position = Position(InOrder(S)[k])
      BY <1>1, <1>3, <1>5, <2>2
    <3>2. InOrder(After(S, Position(InOrder(S)[k]))) = SubSeq(InOrder(S), k + 1, Cardinality(S))
      BY <1>2, <3>1, AfterIsRest
    <3> QED BY <1>1, <3>1, <3>2
  <2> QED BY <2>1, <2>2
<1>7. Len(rest) = Len(o) - k
  <2>1. 0 \in 0..Len(o) - k
    BY <1>1, <1>3
  <2> QED BY <1>1, <1>3, <1>6, <2>1, SliceOfRest
<1> HIDE DEF rest
<1>8. c \in 0..Len(o) - k /\ c <= PageSize /\ c \in Nat
  BY <1>1, <1>3, <1>7
<1>9. /\ SubSeq(rest, 1, c) = SubSeq(o, k + 1, k + c) /\ Len(SubSeq(o, k + 1, k + c)) = c
      /\ c > 0 => rest[c] = o[k + c]
  BY <1>1, <1>3, <1>6, <1>8, SliceOfRest
<1>10. /\ page.kind = "page" /\ page.bounds = PublicBounds(bounds)
       /\ page.items = SubSeq(o, k + 1, k + c) /\ Len(page.items) = c
       /\ page.next = IF Len(rest) <= PageSize THEN None ELSE CursorAt(criteria, bounds, rest[PageSize])
  BY <1>4, <1>9
<1>11. ASSUME page.next = None PROVE k + c = Len(o)
  <2>1. Len(rest) <= PageSize
    BY <1>10, <1>11, NoneIsNoPosition
  <2> QED BY <1>1, <1>3, <1>7, <2>1
<1>12. ASSUME page.next # None PROVE c = PageSize /\ CursorTo(page.next, o, k + PageSize, bounds, criteria)
  <2>1. ~(Len(rest) <= PageSize) /\ page.next = CursorAt(criteria, bounds, rest[PageSize])
    BY <1>10, <1>12
  <2>2. c = PageSize /\ k + PageSize \in 1..Len(o) - 1
    BY <1>1, <1>3, <1>7, <2>1
  <2>3. rest[PageSize] = o[k + PageSize]
    BY <1>3, <1>9, <2>2
  <2>4. /\ page.next.criteria = criteria /\ page.next.bounds = bounds
        /\ page.next.position = Position(rest[PageSize])
    BY <2>1 DEF CursorAt, Position
  <2> QED BY <1>12, <2>2, <2>3, <2>4 DEF CursorTo
<1> HIDE DEF c
<1> QED
  BY <1>8, <1>10, <1>11, <1>12 DEF Continues, o, page

-----------------------------------------------------------------------------
(* What the session makes of a page *)

\* A page that repeats nothing is added as it is.
LEMMA AdditionsAreThePage ==
  ASSUME NEW s, NEW page, page.items \in Seq(PlainRecord),
         \A i \in 1..Len(page.items) : ~Repeated(s, page, i)
  PROVE  Additions(s, page) = page.items
<1> DEFINE m == Len(page.items)
           new == {i \in DOMAIN page.items : ~Repeated(s, page, i)}
<1>1. m \in Nat /\ DOMAIN page.items = 1..m
  OBVIOUS
<1>2. new = 1..m
  BY <1>1
<1> HIDE DEF m
<1>3. \A k \in 1..m : Cardinality({j \in 1..m : j < k}) = k - 1
  <2> SUFFICES ASSUME NEW k \in 1..m PROVE Cardinality({j \in 1..m : j < k}) = k - 1
    OBVIOUS
  <2>1. {j \in 1..m : j < k} = 1..k - 1
    BY <1>1
  <2>2. Cardinality(1..k - 1) = k - 1
    BY <1>1, FS_Interval
  <2> QED BY <2>1, <2>2
<1>4. Cardinality(1..m) = m
  BY <1>1, FS_Interval
<1>5. \A k \in 1..m : (CHOOSE i \in 1..m : Cardinality({j \in 1..m : j < i}) = k - 1) = k
  <2> SUFFICES ASSUME NEW k \in 1..m
               PROVE  (CHOOSE i \in 1..m : Cardinality({j \in 1..m : j < i}) = k - 1) = k
    OBVIOUS
  <2>1. \A i \in 1..m : Cardinality({j \in 1..m : j < i}) = k - 1 => i = k
    <3> SUFFICES ASSUME NEW i \in 1..m, Cardinality({j \in 1..m : j < i}) = k - 1 PROVE i = k
      OBVIOUS
    <3>1. i - 1 = k - 1
      BY <1>3
    <3> QED BY <1>1, <3>1
  <2>2. Cardinality({j \in 1..m : j < k}) = k - 1
    BY <1>3
  <2> QED BY <2>1, <2>2
<1>6. Additions(s, page) =
        [k \in 1..m |-> page.items[CHOOSE i \in 1..m : Cardinality({j \in 1..m : j < i}) = k - 1]]
  <2>1. Additions(s, page) =
          [k \in 1..Cardinality(new) |->
             page.items[CHOOSE i \in new : Cardinality({j \in new : j < i}) = k - 1]]
    BY DEF Additions
  <2> QED BY <1>2, <1>4, <2>1
<1>7. Additions(s, page) = [k \in 1..m |-> page.items[k]]
  BY <1>5, <1>6
<1>8. page.items = [k \in 1..m |-> page.items[k]]
  BY <1>1 DEF m
<1> QED
  BY <1>7, <1>8

-----------------------------------------------------------------------------
(* The session *)

\* What ReadInv says of the session depends on these fields.
ReadFields ==
  <<session.metadata, session.items, session.next, session.pages, session.used, session.factory,
    session.previous>>

LEMMA SameReading ==
  ASSUME UNCHANGED ReadFields, NEW pin
  PROVE  /\ Listing(pin)' = Listing(pin)
         /\ Reading(pin) => Reading(pin)'
         /\ Retained(pin) => Retained(pin)'
<1>1. /\ session'.metadata = session.metadata /\ session'.items = session.items
      /\ session'.next = session.next /\ session'.pages = session.pages
      /\ session'.used = session.used /\ session'.factory = session.factory
      /\ session'.previous = session.previous
  BY DEF ReadFields
<1>2. Listing(pin)' = Listing(pin)
  BY <1>1 DEF Listing
<1>3. Reading(pin) => Reading(pin)'
  BY <1>1, <1>2 DEF Reading
<1>4. Retained(pin) => Retained(pin)'
  BY <1>1 DEF Retained
<1> QED
  BY <1>2, <1>3, <1>4

LEMMA SameReadInv ==
  ASSUME ReadInv, UNCHANGED ReadFields, pins \subseteq pins'
  PROVE  ReadInv'
<1>1. /\ session'.metadata = session.metadata /\ session'.items = session.items
      /\ session'.next = session.next /\ session'.pages = session.pages
      /\ session'.used = session.used /\ session'.previous = session.previous
  BY DEF ReadFields
<1>2. ASSUME session.metadata # None PROVE \E pin \in pins' : Reading(pin)'
  BY <1>2, SameReading DEF ReadInv
<1>3. ASSUME session.previous # None PROVE \E pin \in pins' : Retained(pin)'
  BY <1>3, SameReading DEF ReadInv
<1> QED
  BY <1>1, <1>2, <1>3 DEF ReadInv

LEMMA SameAnswered ==
  ASSUME NEW call, Answered(call), UNCHANGED ReadFields, pins \subseteq pins'
  PROVE  Answered(call)'
<1>1. session'.metadata = session.metadata /\ session'.items = session.items /\ session'.factory = session.factory
  BY DEF ReadFields
<1>2. ASSUME call.answer.kind = "page"
      PROVE  \E pin \in pins' :
               /\ session'.metadata # None => Reading(pin)'
               /\ Continues(call.answer, Listing(pin)', Len(session'.items), pin.bounds, session'.factory)
  <2>1. PICK pin \in pins :
               /\ session.metadata # None => Reading(pin)
               /\ Continues(call.answer, Listing(pin), Len(session.items), pin.bounds, session.factory)
    BY <1>2 DEF Answered
  <2>2. Listing(pin)' = Listing(pin) /\ (Reading(pin) => Reading(pin)')
    BY SameReading
  <2> QED BY <1>1, <2>1, <2>2
<1> QED
  BY <1>2 DEF Answered

\* Fewer requests, more pins, and the session as it was.
LEMMA SessionRests ==
  ASSUME SessionInv, session' = session, calls' \subseteq calls, pins \subseteq pins'
  PROVE  SessionInv'
<1>1. UNCHANGED ReadFields
  BY DEF ReadFields
<1>2. ReadInv' /\ SessionShape' /\ StatusInv'
  BY <1>1, SameReadInv DEF SessionInv, SessionShape, StatusInv
<1>3. ASSUME NEW call \in calls' PROVE CallInv(call)'
  <2>1. CallInv(call)
    BY DEF SessionInv, CallsInv
  <2>2. Answered(call) => Answered(call)'
    BY <1>1, SameAnswered
  <2> QED BY <2>1, <2>2 DEF CallInv
<1>4. CallsInv'
  BY <1>3 DEF SessionInv, CallsInv
<1> QED
  BY <1>2, <1>4 DEF SessionInv

\* The backend answers a request.
LEMMA AnswerComes ==
  ASSUME SessionInv, session' = session, NEW call \in calls, NEW answer, pins \subseteq pins',
         call.epoch = session.epoch => Answered([call EXCEPT !.answer = answer])',
         calls' = (calls \ {call}) \cup {[call EXCEPT !.answer = answer]}
  PROVE  SessionInv'
<1> DEFINE fresh == [call EXCEPT !.answer = answer]
<1>1. UNCHANGED ReadFields
  BY DEF ReadFields
<1>2. DOMAIN call = {"epoch", "criteria", "cursor", "answer"}
  BY DEF SessionInv, SessionShape
<1>3. /\ DOMAIN fresh = {"epoch", "criteria", "cursor", "answer"}
      /\ fresh.epoch = call.epoch /\ fresh.criteria = call.criteria /\ fresh.cursor = call.cursor
  BY <1>2
<1>4. ReadInv' /\ StatusInv'
  BY <1>1, SameReadInv DEF SessionInv, StatusInv
<1> HIDE DEF fresh
<1>5. SessionShape'
  BY <1>3 DEF SessionInv, SessionShape, fresh
<1>6. CallInv(call) /\ \A c \in calls : CallInv(c)
  BY DEF SessionInv, CallsInv
<1>7. CallInv(fresh)'
  BY <1>3, <1>6 DEF CallInv, fresh
<1>8. ASSUME NEW other \in calls PROVE CallInv(other)'
  <2>1. Answered(other) => Answered(other)'
    BY <1>1, SameAnswered
  <2> QED BY <1>6, <2>1 DEF CallInv
<1>9. \A c \in calls' : CallInv(c)'
  BY <1>7, <1>8 DEF fresh
<1>10. \A c, d \in calls' : c.epoch = d.epoch => c = d
  <2>1. \A c, d \in calls : c.epoch = d.epoch => c = d
    BY DEF SessionInv, CallsInv
  <2>2. \A c \in calls' : c = fresh \/ (c \in calls /\ c # call)
    BY DEF fresh
  <2> QED BY <1>3, <2>1, <2>2
<1>11. CallsInv'
  BY <1>9, <1>10 DEF CallsInv
<1> QED
  BY <1>4, <1>5, <1>11 DEF SessionInv

\* The request of the session fails.
LEMMA RequestFails ==
  ASSUME SessionInv, NEW call \in calls, call.epoch = session.epoch,
         NEW reason, reason \notin {"invalid_response", "cursor_query_mismatch", "limit"}, NEW refresh,
         session' = Failed(session, call.cursor, reason, refresh),
         calls' \subseteq calls, \A other \in calls' : other.epoch # session.epoch, pins' = pins
  PROVE  SessionInv'
<1>1. DOMAIN session = DOMAIN Blank /\ DOMAIN Blank =
        {"status", "items", "metadata", "previous", "next", "pages", "limitReached", "error",
         "refreshRequired", "failedCursor", "factory", "used", "epoch", "operation"}
  BY DEF SessionInv, SessionShape, Blank
<1>2. /\ DOMAIN session' = DOMAIN session
      /\ session'.status = "error" /\ session'.error = reason /\ session'.failedCursor = call.cursor
      /\ session'.epoch = session.epoch /\ session'.limitReached = session.limitReached
      /\ session'.metadata = session.metadata /\ session'.items = session.items
      /\ session'.next = session.next /\ session'.pages = session.pages
      /\ session'.used = session.used /\ session'.factory = session.factory
      /\ session'.previous = session.previous
  BY <1>1 DEF Failed
<1>3. UNCHANGED ReadFields
  BY <1>2 DEF ReadFields
<1>4. session.status = "loading" /\ call.cursor = session.next
  BY DEF SessionInv, CallsInv, CallInv
<1>5. ReadInv'
  BY <1>3, SameReadInv DEF SessionInv
<1>6. SessionShape'
  BY <1>1, <1>2 DEF SessionInv, SessionShape
<1>7. StatusInv'
  BY <1>2, <1>4 DEF SessionInv, StatusInv
<1>8. CallsInv'
  BY <1>2 DEF SessionInv, CallsInv, CallInv
<1> QED
  BY <1>5, <1>6, <1>7, <1>8 DEF SessionInv

LEMMA MetadataIsSome ==
  ASSUME NEW criteria, NEW bounds
  PROVE  [criteria |-> criteria, bounds |-> bounds] # None
<1>1. "none" \in DOMAIN None /\ "none" \notin DOMAIN [criteria |-> criteria, bounds |-> bounds]
  BY DEF None
<1> QED BY <1>1

\* There is room for one page more as long as there may be one.
LEMMA PageFits ==
  ASSUME NEW pages \in Nat, pages < MaxPages
  PROVE  /\ pages * PageSize + PageSize = (pages + 1) * PageSize
         /\ (pages + 1) * PageSize <= MaxItems
<1>1. PageSize \in Nat /\ MaxPages \in Nat /\ MaxItems = MaxPages * PageSize
  BY PagesAssumption
<1>2. PICK rest \in Nat : MaxPages = (pages + 1) + rest
  <2>1. MaxPages - (pages + 1) \in Nat /\ MaxPages = (pages + 1) + (MaxPages - (pages + 1))
    BY <1>1
  <2> QED BY <2>1
<1>3. MaxPages * PageSize = (pages + 1) * PageSize + rest * PageSize
  BY <1>1, <1>2
<1>4. rest * PageSize >= 0 /\ (pages + 1) * PageSize \in Int /\ rest * PageSize \in Int
  BY <1>1
<1>5. pages * PageSize + PageSize = (pages + 1) * PageSize
  BY <1>1
<1> QED
  BY <1>1, <1>3, <1>4, <1>5

\* The rows of a listing are told apart by their record and by their position.
LEMMA ListingIsDistinct ==
  ASSUME NEW view, Sound(view), NEW criteria,
         NEW i \in 1..Len(Ordered(view, criteria)), NEW j \in 1..Len(Ordered(view, criteria)), i # j
  PROVE  /\ Ordered(view, criteria)[i].record # Ordered(view, criteria)[j].record
         /\ Position(Ordered(view, criteria)[i]) # Position(Ordered(view, criteria)[j])
<1> DEFINE L == Ordered(view, criteria)
<1>1. /\ Len(L) \in Nat /\ L[i] \in view /\ L[j] \in view /\ L[i] \in PlainRecord /\ L[j] \in PlainRecord
      /\ i < j <=> Newer(L[i], L[j])
      /\ j < i <=> Newer(L[j], L[i])
  BY OrderedIsListing
<1> HIDE DEF L
<1>2. L[i] # L[j]
  <2>1. i < j \/ j < i
    BY <1>1 DEF L
  <2> QED BY <1>1, <2>1, NewerIsOrder
<1>3. L[i].record # L[j].record /\ L[i].sequence # L[j].sequence
  BY <1>1, <1>2 DEF Sound
<1> QED
  BY <1>3 DEF L, Position

\* What the session has, and what a page that continues it adds.
Prefix(items, all, n) ==
  /\ n \in Nat /\ n <= Len(all) /\ items = SubSeq(all, 1, n) /\ Len(items) = n
  /\ items \in Seq(PlainRecord)
  /\ \A i \in 1..n : items[i] = all[i]

LEMMA SliceIsPrefix ==
  ASSUME NEW all \in Seq(PlainRecord), NEW n \in Nat, n <= Len(all)
  PROVE  Prefix(SubSeq(all, 1, n), all, n)
<1>1. Len(all) \in Nat /\ \A i \in 1..n : all[i] \in PlainRecord
  BY LenProperties, ElementOfSeq
<1>2. /\ SubSeq(all, 1, n) \in Seq(PlainRecord)
      /\ Len(SubSeq(all, 1, n)) = IF 1 <= n THEN n - 1 + 1 ELSE 0
      /\ \A i \in 1..n - 1 + 1 : SubSeq(all, 1, n)[i] = all[1 + i - 1]
  BY <1>1, SubSeqProperties
<1> QED
  BY <1>1, <1>2 DEF Prefix

Suffix(items, all, n, p) ==
  /\ p \in Nat /\ n + p <= Len(all) /\ Len(items) = p
  /\ items \in Seq(PlainRecord)
  /\ \A i \in 1..p : items[i] = all[n + i]

LEMMA SliceIsSuffix ==
  ASSUME NEW all \in Seq(PlainRecord), NEW n \in Nat, NEW p \in Nat, n + p <= Len(all)
  PROVE  Suffix(SubSeq(all, n + 1, n + p), all, n, p)
<1>1. Len(all) \in Nat /\ \A i \in n + 1..n + p : all[i] \in PlainRecord
  BY LenProperties, ElementOfSeq
<1>2. /\ SubSeq(all, n + 1, n + p) \in Seq(PlainRecord)
      /\ Len(SubSeq(all, n + 1, n + p)) = IF n + 1 <= n + p THEN (n + p) - (n + 1) + 1 ELSE 0
      /\ \A i \in 1..(n + p) - (n + 1) + 1 : SubSeq(all, n + 1, n + p)[i] = all[n + 1 + i - 1]
  BY <1>1, SubSeqProperties
<1> QED
  BY <1>1, <1>2 DEF Suffix

\* A page that continues what is there repeats none of it.
LEMMA NothingRepeated ==
  ASSUME NEW s, NEW page, NEW view, Sound(view), NEW criteria, NEW n, NEW p,
         Prefix(s.items, Ordered(view, criteria), n), Suffix(page.items, Ordered(view, criteria), n, p),
         NEW i \in 1..p
  PROVE  ~Repeated(s, page, i)
<1> DEFINE L == Ordered(view, criteria)
<1>1. /\ n \in Nat /\ p \in Nat /\ n + p <= Len(L) /\ Len(L) \in Nat /\ DOMAIN s.items = 1..n
      /\ \A old \in 1..n : s.items[old] = L[old]
      /\ \A j \in 1..p : page.items[j] = L[n + j]
  BY OrderedIsListing DEF Prefix, Suffix
<1>2. \A a, b \in 1..Len(L) : a # b => L[a].record # L[b].record
  BY ListingIsDistinct
<1> HIDE DEF L
<1>3. \A old \in 1..n : s.items[old].record # page.items[i].record
  <2> SUFFICES ASSUME NEW old \in 1..n PROVE L[old].record # L[n + i].record
    BY <1>1
  <2>1. old \in 1..Len(L) /\ n + i \in 1..Len(L) /\ old # n + i
    BY <1>1
  <2> QED BY <1>2, <2>1
<1>4. \A j \in 1..i - 1 : page.items[j].record # page.items[i].record
  <2> SUFFICES ASSUME NEW j \in 1..i - 1 PROVE page.items[j].record # page.items[i].record
    OBVIOUS
  <2>1. j \in 1..p /\ n + j \in 1..Len(L) /\ n + i \in 1..Len(L) /\ n + j # n + i
    BY <1>1
  <2> QED BY <1>1, <1>2, <2>1
<1> QED
  BY <1>1, <1>3, <1>4 DEF Repeated

\* The session of a current request, the pin it reads or begins to read, and the page.
PageOfPin(call, page, pin) ==
  /\ session.metadata # None => Reading(pin)
  /\ Continues(page, Listing(pin), Len(session.items), pin.bounds, session.factory)
  /\ session.status = "loading" /\ call.criteria = session.factory /\ call.cursor = session.next

LEMMA SessionHasPrefix ==
  ASSUME SessionInv, NEW call, NEW page, NEW pin, Sound(pin.view), PageOfPin(call, page, pin)
  PROVE  /\ Prefix(session.items, Listing(pin), Len(session.items))
         /\ Suffix(page.items, Listing(pin), Len(session.items), Len(page.items))
<1> DEFINE L == Listing(pin)
           n == Len(session.items)
           p == Len(page.items)
<1>1. L \in Seq(PlainRecord) /\ Len(L) \in Nat
  BY OrderedIsListing DEF Listing
<1> HIDE DEF L
<1>2. n \in Nat /\ n <= Len(L) /\ session.items = SubSeq(L, 1, n)
  <2>1. CASE session.metadata = None
    <3>1. session.items = <<>>
      BY <2>1 DEF SessionInv, ReadInv
    <3>2. SubSeq(L, 1, 0) = <<>>
      BY SubSeqEmpty
    <3> QED BY <1>1, <3>1, <3>2
  <2>2. CASE session.metadata # None
    <3>1. n \in 0..Len(L) /\ session.items = SubSeq(L, 1, n)
      BY <2>2 DEF PageOfPin, Reading, L
    <3> QED BY <1>1, <3>1
  <2> QED BY <2>1, <2>2
<1>3. Prefix(session.items, L, n)
  BY <1>1, <1>2, SliceIsPrefix
<1>4. p \in 0..Len(L) - n /\ page.items = SubSeq(L, n + 1, n + p)
  BY DEF PageOfPin, Continues, L
<1> HIDE DEF n, p
<1>5. p \in Nat /\ n \in Nat /\ n + p <= Len(L)
  BY <1>1, <1>2, <1>4
<1>6. Suffix(SubSeq(L, n + 1, n + p), L, n, p)
  BY <1>1, <1>5, SliceIsSuffix
<1> QED
  BY <1>3, <1>4, <1>6 DEF L, n, p

\* The session refuses no such page.
LEMMA PageIsTaken ==
  ASSUME SessionInv, NEW call, NEW page, NEW pin, Sound(pin.view), PageOfPin(call, page, pin)
  PROVE  /\ ~Refused(session, call, page)
         /\ session.items \o Additions(session, page) =
              SubSeq(Listing(pin), 1, Len(session.items) + Len(page.items))
         /\ Len(session.items \o Additions(session, page)) = Len(session.items) + Len(page.items)
         /\ Len(session.items) + Len(page.items) <= MaxItems
<1> DEFINE L == Listing(pin)
           n == Len(session.items)
           p == Len(page.items)
<1>1. /\ L \in Seq(PlainRecord) /\ Len(L) \in Nat
      /\ \A i \in 1..Len(L) : L[i] \in PlainRecord
      /\ \A i, j \in 1..Len(L) : i < j <=> Newer(L[i], L[j])
  BY OrderedIsListing DEF Listing
<1>2. Prefix(session.items, L, n) /\ Suffix(page.items, L, n, p)
  BY SessionHasPrefix
<1>3. /\ n \in Nat /\ p \in Nat /\ n + p <= Len(L)
      /\ session.items = SubSeq(L, 1, n) /\ session.items \in Seq(PlainRecord)
      /\ page.items \in Seq(PlainRecord)
      /\ \A i \in 1..n : session.items[i] = L[i]
      /\ \A i \in 1..p : page.items[i] = L[n + i]
  BY <1>2 DEF Prefix, Suffix
<1>4. Continues(page, L, n, pin.bounds, session.factory)
  BY DEF PageOfPin
<1>5. \A i \in 1..p : ~Repeated(session, page, i)
  BY <1>2, NothingRepeated DEF Listing
<1>6. Additions(session, page) = page.items
  BY <1>3, <1>5, AdditionsAreThePage
<1>7. /\ page.items = SubSeq(L, n + 1, n + p) /\ page.bounds = PublicBounds(pin.bounds) /\ p <= PageSize
      /\ page.next # None => p = PageSize /\ CursorTo(page.next, L, n + PageSize, pin.bounds, session.factory)
      /\ page.next = None => n + p = Len(L)
  BY <1>4 DEF Continues
<1> HIDE DEF L, n, p
<1>8. session.items \o page.items = SubSeq(L, 1, n + p)
  <2>1. /\ 1 \in 1..Len(L) + 1 /\ n \in 1 - 1..Len(L) /\ n + p \in n..Len(L)
    BY <1>1, <1>3
  <2> QED BY <1>1, <1>3, <1>7, <2>1, ConcatAdjacentSubSeq
<1>9. Len(session.items \o page.items) = n + p
  BY <1>3, ConcatProperties DEF n, p
<1>10. n + p <= MaxItems
  <2>1. PageSize \in Nat /\ MaxPages \in Nat \ {0}
    BY PagesAssumption
  <2>2. CASE session.metadata = None
    <3>1. n = 0
      BY <2>2 DEF SessionInv, ReadInv, n
    <3>2. 0 < MaxPages /\ 0 \in Nat
      BY <2>1
    <3>3. (0 + 1) * PageSize <= MaxItems
      BY <3>2, PageFits
    <3>4. MaxItems \in Int
      BY PagesAssumption
    <3> QED BY <1>3, <1>7, <2>1, <3>1, <3>3, <3>4
  <2>3. CASE session.metadata # None
    <3>1. session.next # None /\ session.pages < MaxPages /\ session.pages \in Nat
      BY <2>3 DEF SessionInv, StatusInv, SessionShape, PageOfPin
    <3>2. n = session.pages * PageSize
      BY <2>3, <3>1 DEF PageOfPin, Reading, n
    <3>3. /\ session.pages * PageSize + PageSize = (session.pages + 1) * PageSize
          /\ (session.pages + 1) * PageSize <= MaxItems
      BY <3>1, PageFits
    <3>4. MaxItems \in Int
      BY PagesAssumption
    <3>5. n + PageSize <= MaxItems
      BY <3>2, <3>3
    <3> QED BY <1>3, <1>7, <2>1, <3>4, <3>5
  <2> QED BY <2>2, <2>3
<1>11. session.metadata # None => session.metadata.bounds = page.bounds
  BY <1>7 DEF PageOfPin, Reading
<1>12. session.items # <<>> /\ page.items # <<>> => Newer(Last(session.items), page.items[1])
  <2> SUFFICES ASSUME session.items # <<>>, page.items # <<>>
               PROVE  Newer(Last(session.items), page.items[1])
    OBVIOUS
  <2>1. n \in 1..n /\ 1 \in 1..p
    BY <1>3, EmptySeq DEF n, p
  <2>2. Last(session.items) = L[n] /\ page.items[1] = L[n + 1]
    BY <1>3, <2>1 DEF Last, n
  <2>3. n \in 1..Len(L) /\ n + 1 \in 1..Len(L) /\ n < n + 1
    BY <1>1, <1>3, <2>1
  <2> QED BY <1>1, <2>2, <2>3
<1>13. \A i, j \in 1..Len(L) : i # j => Position(L[i]) # Position(L[j])
  BY ListingIsDistinct DEF Listing, L
<1>14. ASSUME page.next # None PROVE page.next # call.cursor /\ page.next \notin session.used
  <2>1. n + PageSize \in 1..Len(L) - 1 /\ page.next.position = Position(L[n + PageSize])
    BY <1>7, <1>14 DEF CursorTo
  <2>2. PageSize \in Nat \ {0}
    BY PagesAssumption
  <2>3. ASSUME session.next # None PROVE page.next # session.next
    <3>1. session.metadata # None
      BY <2>3 DEF SessionInv, ReadInv
    <3>2. n \in 1..Len(L) - 1 /\ session.next.position = Position(L[n])
      BY <2>3, <3>1 DEF PageOfPin, Reading, CursorTo, L, n
    <3>3. n \in 1..Len(L) /\ n + PageSize \in 1..Len(L) /\ n # n + PageSize
      BY <1>1, <2>1, <2>2, <3>2
    <3>4. Position(L[n]) # Position(L[n + PageSize])
      BY <1>13, <3>3
    <3> QED BY <2>1, <3>2, <3>4
  <2>4. ASSUME NEW cursor \in session.used PROVE page.next # cursor
    <3>1. session.metadata # None
      BY DEF SessionInv, ReadInv
    <3>2. PICK k \in 1..n - 1 : cursor.position = Position(L[k])
      BY <3>1 DEF PageOfPin, Reading, L, n
    <3>3. k \in 1..Len(L) /\ n + PageSize \in 1..Len(L) /\ k # n + PageSize
      BY <1>1, <1>3, <2>1, <2>2
    <3>4. Position(L[k]) # Position(L[n + PageSize])
      BY <1>13, <3>3
    <3> QED BY <2>1, <3>2, <3>4
  <2>5. call.cursor = session.next
    BY DEF PageOfPin
  <2> QED BY <1>14, <2>3, <2>4, <2>5
<1>15. DOMAIN page.items = 1..p
  BY <1>3 DEF p
<1>16. ~Refused(session, call, page)
  BY <1>5, <1>11, <1>12, <1>14, <1>15 DEF Refused
<1> QED
  BY <1>6, <1>8, <1>9, <1>10, <1>16 DEF L, n, p

\* What the session is once it has taken a page.
LEMMA PageTaken ==
  ASSUME SessionShape, NEW call, NEW page, ~Refused(session, call, page),
         ~(Len(session.items \o Additions(session, page)) > MaxItems),
         session' = WithPage(session, call, page)
  PROVE  /\ DOMAIN session' = DOMAIN Blank
         /\ session'.status = "ready" /\ session'.error = session.error
         /\ session'.items = session.items \o Additions(session, page)
         /\ session'.metadata = [criteria |-> call.criteria, bounds |-> page.bounds]
         /\ session'.previous = None /\ session'.next = page.next
         /\ session'.pages = session.pages + 1 /\ session'.epoch = session.epoch
         /\ session'.factory = session.factory
         /\ session'.used = IF call.cursor = None THEN session.used ELSE session.used \cup {call.cursor}
         /\ page.next # None /\ ~session'.limitReached => session'.pages < MaxPages
<1>1. DOMAIN session = DOMAIN Blank /\ DOMAIN Blank =
        {"status", "items", "metadata", "previous", "next", "pages", "limitReached", "error",
         "refreshRequired", "failedCursor", "factory", "used", "epoch", "operation"}
  BY DEF SessionShape, Blank
<1> DEFINE items == session.items \o Additions(session, page)
           used == IF call.cursor = None THEN session.used ELSE session.used \cup {call.cursor}
           limit == page.next # None /\ (Len(items) >= MaxItems \/ session.pages + 1 >= MaxPages)
<1>2. session' = [session EXCEPT !.status = "ready", !.items = items, !.metadata = Metadata(call, page),
                     !.previous = None, !.next = page.next, !.pages = session.pages + 1,
                     !.limitReached = limit,
                     !.refreshRequired = FALSE, !.operation = FALSE,
                     !.used = used]
  BY DEF WithPage
<1> HIDE DEF items, used, limit
<1>3. session'.items = items /\ session'.limitReached = limit /\ session'.used = used
  BY <1>1, <1>2
<1>4. /\ DOMAIN session' = DOMAIN Blank
      /\ session'.status = "ready" /\ session'.error = session.error
      /\ session'.metadata = Metadata(call, page)
      /\ session'.previous = None /\ session'.next = page.next
      /\ session'.pages = session.pages + 1 /\ session'.epoch = session.epoch
      /\ session'.factory = session.factory
  BY <1>1, <1>2
<1>5. ASSUME page.next # None, ~session'.limitReached PROVE session'.pages < MaxPages
  <2>1. ~limit
    BY <1>3, <1>5
  <2>2. ~(session.pages + 1 >= MaxPages)
    BY <1>5, <2>1 DEF limit
  <2> QED BY <1>4, <2>2, PagesAssumption DEF SessionShape
<1> QED
  BY <1>3, <1>4, <1>5 DEF items, used, Metadata

\* The page the session waits for arrives.
LEMMA PageArrives ==
  ASSUME SessionInv, NEW call \in calls, call.epoch = session.epoch,
         NEW page, NEW pin \in pins, Sound(pin.view), PageOfPin(call, page, pin),
         session' = WithPage(session, call, page), calls' = calls \ {call}, pins' = pins
  PROVE  SessionInv'
<1> DEFINE L == Listing(pin)
           n == Len(session.items)
           p == Len(page.items)
<1>1. L \in Seq(PlainRecord) /\ Len(L) \in Nat
  BY OrderedIsListing DEF Listing
<1>2. /\ ~Refused(session, call, page)
      /\ session.items \o Additions(session, page) = SubSeq(L, 1, n + p)
      /\ Len(session.items \o Additions(session, page)) = n + p
      /\ n + p <= MaxItems
  BY PageIsTaken
<1>3. n \in Nat /\ p \in Nat /\ n + p <= Len(L)
  BY SessionHasPrefix DEF Prefix, Suffix
<1>4. /\ page.bounds = PublicBounds(pin.bounds)
      /\ page.next # None => p = PageSize /\ CursorTo(page.next, L, n + PageSize, pin.bounds, session.factory)
      /\ page.next = None => n + p = Len(L)
  BY DEF PageOfPin, Continues
<1>5. /\ session.metadata # None => Reading(pin)
      /\ session.status = "loading" /\ call.criteria = session.factory /\ call.cursor = session.next
  BY DEF PageOfPin
<1>6. MaxItems \in Int /\ PageSize \in Nat \ {0}
  BY PagesAssumption
<1>7. SessionShape /\ session.pages \in Nat /\ session.epoch \in Nat
  BY DEF SessionInv, SessionShape
<1> HIDE DEF n, p, L
<1>8. ~(Len(session.items \o Additions(session, page)) > MaxItems)
  BY <1>2, <1>3, <1>6
<1> DEFINE used == IF call.cursor = None THEN session.used ELSE session.used \cup {call.cursor}
<1> HIDE DEF used
<1>9. /\ DOMAIN session' = DOMAIN Blank
      /\ session'.status = "ready" /\ session'.error = session.error
      /\ session'.items = SubSeq(L, 1, n + p) /\ Len(session'.items) = n + p
      /\ session'.metadata = [criteria |-> session.factory, bounds |-> PublicBounds(pin.bounds)]
      /\ session'.previous = None /\ session'.next = page.next
      /\ session'.pages = session.pages + 1 /\ session'.epoch = session.epoch
      /\ session'.factory = session.factory
      /\ session'.used = used
      /\ page.next # None /\ ~session'.limitReached => session'.pages < MaxPages
  <2>1. /\ DOMAIN session' = DOMAIN Blank
        /\ session'.status = "ready" /\ session'.error = session.error
        /\ session'.items = session.items \o Additions(session, page)
        /\ session'.metadata = [criteria |-> call.criteria, bounds |-> page.bounds]
        /\ session'.previous = None /\ session'.next = page.next
        /\ session'.pages = session.pages + 1 /\ session'.epoch = session.epoch
        /\ session'.factory = session.factory
        /\ session'.used = used
        /\ page.next # None /\ ~session'.limitReached => session'.pages < MaxPages
    BY <1>2, <1>7, <1>8, PageTaken DEF used
  <2> QED BY <1>2, <1>4, <1>5, <2>1
<1>9a. session'.used \subseteq session.used \cup {session.next} /\ (session.next = None => session'.used = session.used)
  BY <1>5, <1>9 DEF used
<1>10. Listing(pin)' = L
  BY <1>9 DEF Listing, L
<1>11. ASSUME page.next # None PROVE n + p = (session.pages + 1) * PageSize
  <2>1. CASE session.metadata = None
    <3>1. n = 0 /\ session.pages = 0
      BY <2>1 DEF SessionInv, ReadInv, n
    <3> QED BY <1>4, <1>6, <1>11, <3>1
  <2>2. CASE session.metadata # None
    <3>1. session.next # None
      BY <1>5, <2>2 DEF SessionInv, StatusInv
    <3>2. n = session.pages * PageSize
      BY <1>5, <2>2, <3>1 DEF Reading, n
    <3>3. session.pages * PageSize + PageSize = (session.pages + 1) * PageSize
      BY <1>6, <1>7
    <3> QED BY <1>4, <1>11, <3>2, <3>3
  <2> QED BY <2>1, <2>2
<1>12. ASSUME NEW cursor \in session'.used
       PROVE  \E k \in 1..n + p - 1 : cursor.position = Position(L[k])
  <2>1. session.metadata # None
    <3> SUFFICES ASSUME session.metadata = None PROVE FALSE
      OBVIOUS
    <3>1. session.next = None /\ session.used = {}
      BY DEF SessionInv, ReadInv
    <3> QED BY <1>9a, <1>12, <3>1
  <2>2. session.next # None /\ Reading(pin)
    BY <1>5, <2>1 DEF SessionInv, StatusInv
  <2>3. n \in 1..Len(L) - 1 /\ session.next.position = Position(L[n])
    BY <2>2 DEF Reading, CursorTo, L, n
  <2>4. p >= 1
    BY <1>1, <1>3, <1>4, <1>6, <2>3
  <2>5. CASE cursor = session.next
    <3>1. n \in 1..n + p - 1
      BY <1>3, <2>3, <2>4
    <3> QED BY <2>3, <2>5, <3>1
  <2>6. CASE cursor \in session.used
    <3>1. PICK k \in 1..n - 1 : cursor.position = Position(L[k])
      BY <2>2, <2>6 DEF Reading, L, n
    <3>2. k \in 1..n + p - 1
      BY <1>3
    <3> QED BY <3>1, <3>2
  <2> QED BY <1>9a, <2>5, <2>6
<1>13. Reading(pin)'
  <2>1. n + p \in 0..Len(L)
    BY <1>1, <1>3
  <2>2. page.next # None => CursorTo(page.next, L, n + p, pin.bounds, session.factory)
    BY <1>4
  <2>3. page.next # None => n + p = session'.pages * PageSize
    BY <1>9, <1>11
  <2>4. page.next = None => n + p = Len(L)
    BY <1>4
  <2>5. /\ Len(session'.items) \in 0..Len(Listing(pin)')
        /\ session'.items = SubSeq(Listing(pin)', 1, Len(session'.items))
        /\ session'.next = None => Len(session'.items) = Len(Listing(pin)')
    BY <1>9, <1>10, <2>1, <2>4
  <2>6. session'.next # None =>
          /\ Len(session'.items) = session'.pages * PageSize
          /\ CursorTo(session'.next, Listing(pin)', Len(session'.items), pin.bounds, session'.factory)
    BY <1>9, <1>10, <2>2, <2>3
  <2>7. \A cursor \in session'.used :
          \E k \in 1..Len(session'.items) - 1 : cursor.position = Position(Listing(pin)'[k])
    <3> SUFFICES ASSUME NEW cursor \in session'.used
                 PROVE  \E k \in 1..Len(session'.items) - 1 : cursor.position = Position(Listing(pin)'[k])
      OBVIOUS
    <3>1. PICK k \in 1..n + p - 1 : cursor.position = Position(L[k])
      BY <1>12
    <3>2. k \in 1..Len(session'.items) - 1
      <4>1. Len(session'.items) = n + p
        BY <1>9
      <4> QED BY ONLY <1>3, <3>1, <4>1
    <3>3. Position(L[k]) = Position(Listing(pin)'[k])
      BY ONLY <1>10
    <3> QED BY ONLY <3>1, <3>2, <3>3
  <2>8. session'.metadata = [criteria |-> session'.factory, bounds |-> PublicBounds(pin.bounds)]
    BY <1>9
  <2> QED BY ONLY <2>5, <2>6, <2>7, <2>8 DEF Reading
<1>14. session'.metadata # None
  BY <1>9, MetadataIsSome
<1>15. ReadInv'
  BY <1>9, <1>13, <1>14 DEF ReadInv
<1>16. StatusInv'
  <2>1. session'.next # None /\ ~session'.limitReached => session'.pages < MaxPages
    BY <1>9
  <2>2. session'.error \notin {"invalid_response", "cursor_query_mismatch", "limit"}
    BY <1>9 DEF SessionInv, StatusInv
  <2> QED BY <1>9, <1>14, <2>1, <2>2 DEF StatusInv
<1>17. SessionShape'
  BY <1>7, <1>9 DEF SessionShape, SessionInv
<1>18. CallsInv'
  <2>1. \A c \in calls : c.epoch = session.epoch => c = call
    BY DEF SessionInv, CallsInv
  <2> QED BY <1>9, <2>1 DEF SessionInv, CallsInv, CallInv
<1> QED
  BY <1>15, <1>16, <1>17, <1>18 DEF SessionInv

-----------------------------------------------------------------------------
(* Requests *)

\* The session begins to wait for the page at its cursor.
LEMMA RequestSent ==
  ASSUME SessionInv, NEW s, DOMAIN s = DOMAIN Blank,
         Run(s, s.next), pins' = pins,
         s.pages \in Nat,
         \* ReadInv, for what the session will be
         s.metadata = None => s.items = <<>> /\ s.next = None /\ s.used = {} /\ s.pages = 0,
         s.metadata # None => s.previous = None /\ s.next # None /\ s.pages < MaxPages,
         s.metadata # None =>
           /\ s.items = session.items /\ s.metadata = session.metadata /\ s.next = session.next
           /\ s.used = session.used /\ s.pages = session.pages /\ s.factory = session.factory
           /\ s.previous = session.previous,
         s.previous # None => \E pin \in pins :
           /\ s.previous.metadata # None
           /\ s.previous.metadata.bounds = PublicBounds(pin.bounds)
           /\ s.previous.items =
                SubSeq(Ordered(pin.view, s.previous.metadata.criteria), 1, Len(s.previous.items))
  PROVE  SessionInv'
<1>0. PICK fresh : fresh = [epoch |-> session.epoch + 1, criteria |-> s.factory, cursor |-> s.next, answer |-> None]
  OBVIOUS
<1>1. DOMAIN s = {"status", "items", "metadata", "previous", "next", "pages", "limitReached", "error",
         "refreshRequired", "failedCursor", "factory", "used", "epoch", "operation"}
  BY DEF Blank
<1>2. calls' = calls \cup {fresh}
  BY <1>0 DEF Run
<1>3. /\ DOMAIN session' = DOMAIN s
      /\ session'.status = "loading" /\ session'.error = "none" /\ session'.epoch = session.epoch + 1
      /\ session'.metadata = s.metadata /\ session'.items = s.items /\ session'.next = s.next
      /\ session'.pages = s.pages /\ session'.used = s.used /\ session'.factory = s.factory
      /\ session'.previous = s.previous
  BY <1>1 DEF Run
<1>4. /\ DOMAIN fresh = {"epoch", "criteria", "cursor", "answer"}
      /\ fresh.epoch = session.epoch + 1 /\ fresh.criteria = s.factory /\ fresh.cursor = s.next
      /\ fresh.answer = None
  BY <1>0
<1>5. session.epoch \in Nat
  BY DEF SessionInv, SessionShape
<1>6. SessionShape'
  BY <1>2, <1>3, <1>4, <1>5 DEF SessionInv, SessionShape
<1>7. ASSUME s.metadata # None PROVE \E pin \in pins' : Reading(pin)'
  <2>1. session.metadata # None
    BY <1>7
  <2>2. UNCHANGED ReadFields
    BY <1>3, <1>7 DEF ReadFields
  <2>3. PICK pin \in pins : Reading(pin)
    BY <2>1 DEF SessionInv, ReadInv
  <2> QED BY <2>2, <2>3, SameReading
<1>8. ASSUME s.previous # None PROVE \E pin \in pins' : Retained(pin)'
  BY <1>3, <1>8 DEF Retained
<1>9. ReadInv'
  BY <1>3, <1>7, <1>8 DEF ReadInv
<1>10. StatusInv'
  BY <1>3 DEF StatusInv
<1>11. CallInv(fresh)'
  BY <1>3, <1>4, <1>5 DEF CallInv
<1>12. ASSUME NEW call \in calls PROVE CallInv(call)' /\ call.epoch # fresh.epoch
  <2>1. CallInv(call)
    BY DEF SessionInv, CallsInv
  <2>2. call.epoch \in Nat /\ call.epoch <= session.epoch
    BY <2>1 DEF CallInv
  <2> QED BY <1>3, <1>4, <1>5, <2>2 DEF CallInv
<1>13. CallsInv'
  BY <1>2, <1>11, <1>12 DEF SessionInv, CallsInv
<1> QED
  BY <1>6, <1>9, <1>10, <1>13 DEF SessionInv

\* A new query, or the same one again, keeps what was shown.
LEMMA StartKeepsInv ==
  ASSUME SessionInv, NEW criteria, Start(criteria), pins' = pins
  PROVE  SessionInv'
<1> DEFINE retained == IF ShownMetadata(session) = None THEN None
                       ELSE [items |-> ShownItems(session), metadata |-> ShownMetadata(session)]
           s == [Reset(session) EXCEPT !.previous = retained, !.factory = criteria]
<1>1. Run(s, None)
  BY DEF Start
<1> HIDE DEF retained
<1>2. /\ DOMAIN s = DOMAIN Blank /\ s.metadata = None /\ s.items = <<>> /\ s.next = None /\ s.used = {}
      /\ s.pages = 0 /\ s.previous = retained
  BY DEF Reset, Blank
<1> HIDE DEF s
<1>3. ASSUME retained # None
      PROVE  \E pin \in pins :
               /\ retained.metadata # None
               /\ retained.metadata.bounds = PublicBounds(pin.bounds)
               /\ retained.items =
                    SubSeq(Ordered(pin.view, retained.metadata.criteria), 1, Len(retained.items))
  <2>1. /\ ShownMetadata(session) # None
        /\ retained = [items |-> ShownItems(session), metadata |-> ShownMetadata(session)]
    BY <1>3 DEF retained
  <2>2. retained.items = ShownItems(session) /\ retained.metadata = ShownMetadata(session)
    BY <2>1
  <2>3. CASE session.previous # None
    <3>1. PICK pin \in pins : Retained(pin)
      BY <2>3 DEF SessionInv, ReadInv
    <3> QED BY <2>1, <2>2, <2>3, <3>1 DEF Retained, ShownItems, ShownMetadata
  <2>4. CASE session.previous = None
    <3>1. session.metadata # None /\ retained.metadata = session.metadata /\ retained.items = session.items
      BY <2>1, <2>2, <2>4 DEF ShownItems, ShownMetadata
    <3>2. PICK pin \in pins : Reading(pin)
      BY <3>1 DEF SessionInv, ReadInv
    <3>3. session.metadata = [criteria |-> session.factory, bounds |-> PublicBounds(pin.bounds)]
      BY <3>2 DEF Reading
    <3>4. session.metadata.criteria = session.factory /\ session.metadata.bounds = PublicBounds(pin.bounds)
      BY <3>3
    <3>5. session.items = SubSeq(Ordered(pin.view, session.factory), 1, Len(session.items))
      BY <3>2 DEF Reading, Listing
    <3> QED BY <3>1, <3>4, <3>5
  <2> QED BY <2>3, <2>4
<1> QED
  BY <1>1, <1>2, <1>3, RequestSent

\* The next page, or the page that failed, once more.
LEMMA ContinueKeepsInv ==
  ASSUME SessionInv, Run(session, session.next), pins' = pins,
         session.metadata # None => session.next # None /\ session.pages < MaxPages
  PROVE  SessionInv'
<1>1. /\ DOMAIN session = DOMAIN Blank /\ session.pages \in Nat
      /\ session.metadata = None => session.items = <<>> /\ session.next = None /\ session.used = {} /\ session.pages = 0
      /\ session.metadata # None => session.previous = None
  BY DEF SessionInv, SessionShape, ReadInv
<1>2. session.previous # None => \E pin \in pins :
           /\ session.previous.metadata # None
           /\ session.previous.metadata.bounds = PublicBounds(pin.bounds)
           /\ session.previous.items =
                SubSeq(Ordered(pin.view, session.previous.metadata.criteria), 1, Len(session.previous.items))
  BY DEF SessionInv, ReadInv, Retained
<1> QED
  BY <1>1, <1>2, RequestSent

\* A session that is cleared or closed waits for nothing.
LEMMA ResetKeepsInv ==
  ASSUME SessionInv, session' = Reset(session) \/ session' = [Reset(session) EXCEPT !.status = "closed"],
         calls' = calls, pins' = pins
  PROVE  SessionInv'
<1>1. /\ DOMAIN session' = DOMAIN Blank /\ session'.metadata = None /\ session'.items = <<>>
      /\ session'.next = None /\ session'.used = {} /\ session'.pages = 0 /\ session'.previous = None
      /\ session'.epoch = session.epoch + 1 /\ session'.error = "none"
  <2>1. CASE session' = Reset(session)
    BY <2>1 DEF Reset, Blank
  <2>2. CASE session' = [Reset(session) EXCEPT !.status = "closed"]
    BY <2>2 DEF Reset, Blank
  <2> QED BY <2>1, <2>2
<1>2. session'.status \in {"idle", "closed"}
  BY DEF Reset, Blank
<1>3. session.epoch \in Nat
  BY DEF SessionInv, SessionShape
<1>4. SessionShape'
  BY <1>1, <1>3 DEF SessionInv, SessionShape
<1>5. ReadInv' /\ StatusInv'
  BY <1>1, <1>2 DEF ReadInv, StatusInv
<1>6. CallsInv'
  BY <1>1, <1>3 DEF SessionInv, CallsInv, CallInv
<1> QED
  BY <1>4, <1>5, <1>6 DEF SessionInv

-----------------------------------------------------------------------------
(* Every step *)

PinsSound == \A pin \in pins : Sound(pin.view)

PagedInv == StoreInv /\ ViewInv /\ PinsSound /\ SessionInv

\* What a pin lists has one order.
LEMMA ActiveViewIsSound ==
  ASSUME NEW all \in SUBSET RowRecord, Distinct(all), NEW listed \in SUBSET Active(all)
  PROVE  Sound({Plain(row) : row \in listed})
<1> DEFINE view == {Plain(row) : row \in listed}
           f == [row \in listed |-> Plain(row)]
<1>1. \A row \in listed : row \in RowRecord /\ row \in Active(all) /\ row \in all
  BY DEF Active
<1>2. view \subseteq PlainRecord
  BY <1>1 DEF Plain, RowRecord, PlainRecord
<1>3. f \in Surjection(listed, view)
  BY DEF Surjection
<1>4. listed \in SUBSET all
  BY <1>1
<1>5. IsFiniteSet(listed)
  BY <1>4, FS_Subset DEF Distinct
<1>6. IsFiniteSet(view)
  <2> HIDE DEF view, f
  <2> QED BY <1>3, <1>5, FS_Surjection
<1>7. \A a, b \in view : a.record = b.record \/ a.sequence = b.sequence => a = b
  BY <1>1 DEF Distinct, Plain
<1> HIDE DEF view
<1> QED
  BY <1>2, <1>6, <1>7 DEF Sound, view

LEMMA CaptureIsSound ==
  ASSUME StoreInv, ViewInv, PinsSound, Capture
  PROVE  PinsSound' /\ pins \subseteq pins'
<1>1. PICK fresh, listed :
             /\ pins' = pins \cup {fresh} /\ fresh.view = {Plain(row) : row \in listed}
             /\ listed \in SUBSET Active(rows') /\ rows' \in SUBSET RowRecord /\ Distinct(rows')
  BY CaptureListsActive DEF ViewInv
<1>2. Sound(fresh.view)
  BY <1>1, ActiveViewIsSound
<1> QED
  BY <1>1, <1>2 DEF PinsSound

\* A step of the system is one of the store, or leaves it alone.
LEMMA StepOfStore ==
  ASSUME StoreInv, ViewInv, PinsSound, [Next]_pagedVars
  PROVE  StoreInv' /\ ViewInv' /\ PinsSound' /\ pins \subseteq pins'
<1>1. [StoreNext]_storeVars
  <2>1. CASE Store
    BY <2>1 DEF Store, StoreNext
  <2>2. CASE Clock \/ ReplaceStorage
    BY <2>2 DEF Clock, ReplaceStorage, StoreNext
  <2>3. CASE Restart \/ UNCHANGED pagedVars
    BY <2>3 DEF Restart, storeVars, pagedVars
  <2>4. ASSUME NEW call \in calls, Handle(call) PROVE [StoreNext]_storeVars
    BY <2>4 DEF Handle, StoreNext
  <2>5. ASSUME NEW call \in calls, Receive(call) \/ Lose(call) PROVE [StoreNext]_storeVars
    BY <2>5 DEF Receive, Lose
  <2>6. CASE Refresh \/ LoadMore \/ Retry \/ Clear \/ Close \/ \E criteria \in Criteria : Search(criteria)
    BY <2>6 DEF Refresh, LoadMore, Retry, Clear, Close, Search
  <2> QED BY <2>1, <2>2, <2>3, <2>4, <2>5, <2>6 DEF Next
<1>2. StoreInv' /\ ViewInv'
  BY <1>1, StoreInvStep, ViewInvStep
<1>3. PinsSound' /\ pins \subseteq pins'
  <2>1. CASE Capture
    BY <2>1, CaptureIsSound
  <2>2. CASE pins' = pins
    BY <2>2 DEF PinsSound
  <2>3. Capture \/ pins' = pins
    BY <1>1 DEF StoreNext, SetClock, StoreRecord, Maintain, Replace, storeVars
  <2> QED BY <2>1, <2>2, <2>3
<1> QED
  BY <1>2, <1>3

\* The first page is of the pin that is captured with it.
LEMMA FirstPageAnswers ==
  ASSUME PagedInv, PinsSound', NEW call \in calls, call.epoch = session.epoch, call.cursor = None, Capture,
         session' = session, NEW answer, answer = FirstPage(call.criteria)
  PROVE  Answered([call EXCEPT !.answer = answer])'
<1>1. /\ DOMAIN call = {"epoch", "criteria", "cursor", "answer"}
      /\ call.criteria = session.factory /\ session.next = None /\ session.metadata = None
      /\ session.items = <<>>
  <2>1. /\ session.status = "loading" /\ call.criteria = session.factory /\ call.cursor = session.next
        /\ DOMAIN call = {"epoch", "criteria", "cursor", "answer"}
    BY DEF PagedInv, SessionInv, CallsInv, CallInv, SessionShape
  <2>2. session.metadata = None
    BY <2>1 DEF PagedInv, SessionInv, StatusInv
  <2> QED BY <2>1, <2>2 DEF PagedInv, SessionInv, ReadInv
<1> DEFINE asOf == RetentionAsOf(now)
           bounds == BoundsAt(asOf, RevisionAfter(rows, asOf, FALSE))
           view == View(Retire(rows, asOf), bounds)
<1>2. PICK pin : pin = [bounds |-> bounds, view |-> view]
  OBVIOUS
<1>3. pin \in pins' /\ Sound(pin.view) /\ pin.bounds = bounds /\ pin.view = view
  BY <1>2 DEF Capture, PinsSound
<1>4. answer = PageOf(pin.view, session.factory, pin.bounds, None)
  BY <1>1, <1>3 DEF FirstPage
<1>5. Continues(answer, Listing(pin), 0, pin.bounds, session.factory)
  <2>1. Len(Ordered(pin.view, session.factory)) \in Nat
    BY <1>3, OrderedIsListing
  <2>2. 0 \in 0..Len(Ordered(pin.view, session.factory))
    BY <2>1
  <2> HIDE DEF asOf, bounds, view
  <2> QED BY <1>3, <1>4, <2>2, PageContinues DEF Listing
<1>6. PICK fresh : fresh = [call EXCEPT !.answer = answer]
  OBVIOUS
<1>7. fresh.answer = answer
  BY <1>1, <1>6
<1>8. Listing(pin)' = Listing(pin) /\ Len(session.items) = 0
  BY <1>1, EmptySeq DEF Listing
<1>9. answer.kind = "page"
  BY <1>5 DEF Continues
<1>10. Answered(fresh)'
  BY <1>1, <1>3, <1>5, <1>7, <1>8, <1>9 DEF Answered
<1> QED
  BY <1>6, <1>10

\* A later page is of the pin the session reads, or it is refused.
LEMMA ContinuationAnswers ==
  ASSUME PagedInv, NEW call \in calls, call.epoch = session.epoch, call.cursor # None,
         session' = session, pins' = pins, NEW answer, answer = Continuation(call.criteria, call.cursor)
  PROVE  Answered([call EXCEPT !.answer = answer])'
<1>1. /\ DOMAIN call = {"epoch", "criteria", "cursor", "answer"}
      /\ call.criteria = session.factory /\ call.cursor = session.next /\ session.next # None
  BY DEF PagedInv, SessionInv, CallsInv, CallInv, SessionShape
<1>2. session.metadata # None
  BY <1>1 DEF PagedInv, SessionInv, ReadInv
<1>3. PICK pin \in pins : Reading(pin)
  BY <1>2 DEF PagedInv, SessionInv, ReadInv
<1> DEFINE L == Listing(pin)
           n == Len(session.items)
           cursor == call.cursor
<1>4. /\ n \in 1..Len(L) - 1 /\ n \in 0..Len(L)
      /\ cursor.criteria = session.factory /\ cursor.bounds = pin.bounds
      /\ cursor.position = Position(L[n])
  BY <1>1, <1>3 DEF Reading, CursorTo
<1>5. Sound(pin.view)
  BY DEF PagedInv, PinsSound
<1>6. /\ answer.kind \in {"page", "error"}
      /\ answer.kind = "error" => answer.reason \notin {"invalid_response", "cursor_query_mismatch", "limit"}
      /\ answer.kind = "page" => Continues(answer, L, n, pin.bounds, session.factory)
  <2>1. CASE cursor.process # process
    <3>1. answer = Refusal("invalid_cursor")
      BY <1>1, <1>4, <2>1 DEF Continuation
    <3> QED BY <3>1 DEF Refusal
  <2>2. CASE cursor.process = process /\ GenerationChanged(cursor.bounds)
    <3>1. answer = Refusal("history_generation_changed")
      BY <1>1, <1>4, <2>2 DEF Continuation
    <3> QED BY <3>1 DEF Refusal
  <2>3. CASE cursor.process = process /\ ~GenerationChanged(cursor.bounds) /\ Expired(cursor.bounds)
    <3>1. answer = Refusal("cursor_expired")
      BY <1>1, <1>4, <2>3 DEF Continuation
    <3> QED BY <3>1 DEF Refusal
  <2>4. CASE cursor.process = process /\ ~GenerationChanged(cursor.bounds) /\ ~Expired(cursor.bounds)
    <3>1. answer = PageOf(View(rows, cursor.bounds), call.criteria, cursor.bounds, cursor.position)
      BY <1>1, <1>4, <2>4 DEF Continuation
    <3>2. View(rows, pin.bounds) = pin.view
      BY <1>4, <2>4, ReadableIsKept DEF PagedInv, PinnedViewStable, Readable
    <3>3. answer = PageOf(pin.view, session.factory, pin.bounds, Position(L[n]))
      BY <1>1, <1>4, <3>1, <3>2
    <3>4. n # 0 /\ n \in 0..Len(Ordered(pin.view, session.factory)) /\ L = Ordered(pin.view, session.factory)
      BY <1>4, <1>5, OrderedIsListing DEF Listing
    <3> HIDE DEF n, L
    <3>5. Continues(answer, L, n, pin.bounds, session.factory)
      BY <1>5, <3>3, <3>4, PageContinues
    <3> QED BY <3>5 DEF Continues
  <2> QED BY <2>1, <2>2, <2>3, <2>4
<1>7. PICK fresh : fresh = [call EXCEPT !.answer = answer]
  OBVIOUS
<1>8. fresh.answer = answer
  BY <1>1, <1>7
<1>9. Listing(pin)' = Listing(pin) /\ Reading(pin)'
  <2>1. UNCHANGED ReadFields
    BY DEF ReadFields
  <2> QED BY <1>3, <2>1, SameReading
<1>10. Answered(fresh)'
  BY <1>3, <1>6, <1>8, <1>9 DEF Answered
<1> QED
  BY <1>7, <1>10

LEMMA HandleKeepsInv ==
  ASSUME PagedInv, PinsSound', pins \subseteq pins', NEW call \in calls, Handle(call)
  PROVE  SessionInv'
<1>1. session' = session /\ SessionInv
  BY DEF Handle, PagedInv
<1>2. DOMAIN call = {"epoch", "criteria", "cursor", "answer"}
  BY DEF PagedInv, SessionInv, SessionShape
<1>3. CASE calls' = (calls \ {call}) \cup {[call EXCEPT !.answer = Refusal("history_unavailable")]}
  <2> DEFINE answer == Refusal("history_unavailable")
  <2>1. answer.kind = "error" /\ answer.reason = "history_unavailable"
    BY DEF Refusal
  <2> HIDE DEF answer
  <2>2. [call EXCEPT !.answer = answer].answer = answer
    BY <1>2
  <2>3. Answered([call EXCEPT !.answer = answer])'
    BY <2>1, <2>2 DEF Answered
  <2> QED BY <1>1, <1>3, <2>3, AnswerComes DEF answer
<1>4. CASE /\ call.cursor = None /\ Capture
           /\ calls' = (calls \ {call}) \cup {[call EXCEPT !.answer = FirstPage(call.criteria)]}
  <2>1. PICK answer : answer = FirstPage(call.criteria)
    OBVIOUS
  <2>2. call.epoch = session.epoch => Answered([call EXCEPT !.answer = answer])'
    BY <1>1, <1>4, <2>1, FirstPageAnswers
  <2>3. calls' = (calls \ {call}) \cup {[call EXCEPT !.answer = answer]}
    BY <1>4, <2>1
  <2> QED BY <1>1, <2>2, <2>3, AnswerComes
<1>5. CASE /\ call.cursor # None /\ UNCHANGED storeVars
           /\ calls' = (calls \ {call}) \cup {[call EXCEPT !.answer = Continuation(call.criteria, call.cursor)]}
  <2>1. PICK answer : answer = Continuation(call.criteria, call.cursor)
    OBVIOUS
  <2>2. pins' = pins
    BY <1>5 DEF storeVars
  <2>3. call.epoch = session.epoch => Answered([call EXCEPT !.answer = answer])'
    BY <1>1, <1>5, <2>1, <2>2, ContinuationAnswers
  <2>4. calls' = (calls \ {call}) \cup {[call EXCEPT !.answer = answer]}
    BY <1>5, <2>1
  <2> QED BY <1>1, <2>3, <2>4, AnswerComes
<1> QED
  BY <1>3, <1>4, <1>5 DEF Handle

\* An answer reaches the session.
LEMMA ReceiveKeepsInv ==
  ASSUME PagedInv, NEW call \in calls, Receive(call)
  PROVE  SessionInv'
<1>1. /\ call.answer # None /\ session' = Settled(session, call, call.answer) /\ calls' = calls \ {call}
      /\ pins' = pins /\ SessionInv
  BY DEF Receive, storeVars, PagedInv
<1>2. CASE call.epoch # session.epoch
  <2>1. session' = session
    BY <1>1, <1>2 DEF Settled
  <2> QED BY <1>1, <2>1, SessionRests
<1>3. CASE call.epoch = session.epoch
  <2>1. /\ Answered(call) /\ session.status = "loading" /\ call.criteria = session.factory
        /\ call.cursor = session.next
    BY <1>1, <1>3 DEF SessionInv, CallsInv, CallInv
  <2>2. \A other \in calls' : other.epoch # session.epoch
    BY <1>1, <1>3 DEF SessionInv, CallsInv
  <2>3. CASE call.answer.kind = "page"
    <3>1. session' = WithPage(session, call, call.answer)
      BY <1>1, <1>3, <2>3 DEF Settled
    <3>2. PICK pin \in pins :
            /\ session.metadata # None => Reading(pin)
            /\ Continues(call.answer, Listing(pin), Len(session.items), pin.bounds, session.factory)
      BY <2>1, <2>3 DEF Answered
    <3>3. PageOfPin(call, call.answer, pin) /\ Sound(pin.view)
      BY <2>1, <3>2 DEF PageOfPin, PagedInv, PinsSound
    <3> QED BY <1>1, <1>3, <3>1, <3>3, PageArrives
  <2>4. CASE call.answer.kind # "page"
    <3>1. call.answer.reason \notin {"invalid_response", "cursor_query_mismatch", "limit"}
      BY <2>1, <2>4 DEF Answered
    <3>2. PICK reason, refresh :
            reason = call.answer.reason /\ refresh = (call.answer.reason \in CursorReason)
      OBVIOUS
    <3>3. session' = Failed(session, call.cursor, reason, refresh)
      BY <1>1, <1>3, <2>4, <3>2 DEF Settled
    <3> QED BY <1>1, <1>3, <2>2, <3>1, <3>2, <3>3, RequestFails
  <2> QED BY <2>3, <2>4
<1> QED
  BY <1>2, <1>3

\* A request is lost.
LEMMA LoseKeepsInv ==
  ASSUME PagedInv, NEW call \in calls, Lose(call)
  PROVE  SessionInv'
<1>1. /\ session' = Settled(session, call, Refusal("request_failed")) /\ calls' = calls \ {call}
      /\ pins' = pins /\ SessionInv
  BY DEF Lose, storeVars, PagedInv
<1>2. CASE call.epoch # session.epoch
  <2>1. session' = session
    BY <1>1, <1>2 DEF Settled
  <2> QED BY <1>1, <2>1, SessionRests
<1>3. CASE call.epoch = session.epoch
  <2>1. \A other \in calls' : other.epoch # session.epoch
    BY <1>1, <1>3 DEF SessionInv, CallsInv
  <2>2. PICK refresh : refresh = (Refusal("request_failed").reason \in CursorReason)
    OBVIOUS
  <2>3. Refusal("request_failed").kind = "error" /\ Refusal("request_failed").reason = "request_failed"
    BY DEF Refusal
  <2>4. session' = Failed(session, call.cursor, "request_failed", refresh)
    BY <1>1, <1>3, <2>2, <2>3 DEF Settled
  <2> QED BY <1>1, <1>3, <2>1, <2>4, RequestFails
<1> QED
  BY <1>2, <1>3

\* The backend restarts: the requests it had not answered fail.
LEMMA RestartKeepsInv ==
  ASSUME PagedInv, Restart
  PROVE  SessionInv'
<1>1. /\ calls' = {call \in calls : call.answer # None} /\ pins' = pins /\ SessionInv
      /\ session' = IF \E call \in calls : call.epoch = session.epoch /\ call.answer = None
                    THEN LET call == CHOOSE c \in calls : c.epoch = session.epoch
                         IN  Failed(session, call.cursor, "request_failed", FALSE)
                    ELSE session
  BY DEF Restart, storeVars, PagedInv
<1>2. CASE \E call \in calls : call.epoch = session.epoch /\ call.answer = None
  <2>1. PICK call \in calls : call.epoch = session.epoch /\ call.answer = None
    BY <1>2
  <2>2. \A c \in calls : c.epoch = session.epoch => c = call
    BY <1>1, <2>1 DEF SessionInv, CallsInv
  <2>3. (CHOOSE c \in calls : c.epoch = session.epoch) = call
    BY <2>1, <2>2
  <2>4. session' = Failed(session, call.cursor, "request_failed", FALSE)
    BY <1>1, <1>2, <2>3
  <2>5. calls' \subseteq calls /\ \A other \in calls' : other.epoch # session.epoch
    BY <1>1, <2>1, <2>2
  <2> QED BY <1>1, <2>1, <2>4, <2>5, RequestFails
<1>3. CASE ~\E call \in calls : call.epoch = session.epoch /\ call.answer = None
  <2>1. session' = session /\ calls' \subseteq calls
    BY <1>1, <1>3
  <2> QED BY <1>1, <2>1, SessionRests
<1> QED
  BY <1>2, <1>3

LEMMA PagedInvStep == PagedInv /\ [Next]_pagedVars => PagedInv'
<1> SUFFICES ASSUME PagedInv, [Next]_pagedVars PROVE PagedInv'
  OBVIOUS
<1>1. StoreInv' /\ ViewInv' /\ PinsSound' /\ pins \subseteq pins'
  BY StepOfStore DEF PagedInv
<1>2. SessionInv
  BY DEF PagedInv
<1>3. CASE Store \/ Clock \/ ReplaceStorage \/ UNCHANGED pagedVars
  <2>1. session' = session /\ calls' = calls
    BY <1>3 DEF Store, Clock, ReplaceStorage, clientVars, pagedVars
  <2>2. SessionInv'
    BY <1>1, <1>2, <2>1, SessionRests
  <2> QED BY <1>1, <2>2 DEF PagedInv
<1>4. CASE Restart
  BY <1>1, <1>4, RestartKeepsInv DEF PagedInv
<1>5. ASSUME NEW call \in calls, Handle(call) PROVE PagedInv'
  <2>1. SessionInv'
    BY <1>1, <1>5, HandleKeepsInv
  <2> QED BY <1>1, <2>1 DEF PagedInv
<1>6. ASSUME NEW call \in calls, Receive(call) \/ Lose(call) PROVE PagedInv'
  BY <1>1, <1>6, ReceiveKeepsInv, LoseKeepsInv DEF PagedInv
<1>7. ASSUME NEW criteria, Start(criteria), pins' = pins PROVE PagedInv'
  <2>1. SessionInv'
    BY <1>2, <1>7, StartKeepsInv
  <2> QED BY <1>1, <2>1 DEF PagedInv
<1>8. CASE Refresh \/ \E criteria \in Criteria : Search(criteria)
  BY <1>7, <1>8 DEF Refresh, Search, storeVars
<1>9. CASE LoadMore
  <2>1. Run(session, session.next) /\ pins' = pins
    BY <1>9 DEF LoadMore, storeVars
  <2>2. session.next # None /\ session.pages < MaxPages
    BY <1>2, <1>9 DEF LoadMore, SessionInv, StatusInv
  <2>3. SessionInv'
    BY <1>2, <2>1, <2>2, ContinueKeepsInv
  <2> QED BY <1>1, <2>3 DEF PagedInv
<1>10. CASE Retry
  <2>1. Run(session, session.next) /\ pins' = pins
    BY <1>2, <1>10 DEF Retry, storeVars, SessionInv, StatusInv
  <2>2. session.metadata # None => session.next # None /\ session.pages < MaxPages
    BY <1>2, <1>10 DEF Retry, SessionInv, StatusInv
  <2>3. SessionInv'
    BY <1>2, <2>1, <2>2, ContinueKeepsInv
  <2> QED BY <1>1, <2>3 DEF PagedInv
<1>11. CASE Clear \/ Close
  <2>1. calls' = calls /\ pins' = pins
    BY <1>11 DEF Clear, Close, storeVars
  <2>2. session' = Reset(session) \/ session' = [Reset(session) EXCEPT !.status = "closed"]
    BY <1>11 DEF Clear, Close
  <2>3. SessionInv'
    BY <1>2, <2>1, <2>2, ResetKeepsInv
  <2> QED BY <1>1, <2>3 DEF PagedInv
<1> QED
  BY <1>3, <1>4, <1>5, <1>6, <1>8, <1>9, <1>10, <1>11 DEF Next

LEMMA PagedInvInitially == Init => PagedInv
<1> SUFFICES ASSUME Init PROVE PagedInv
  OBVIOUS
<1>1. StoreInit /\ session = Blank /\ calls = {}
  BY DEF Init
<1>2. StoreInv
  BY <1>1, StoreInvInitially
<1>3. ViewInv /\ PinsSound
  BY <1>1, FS_EmptySet DEF StoreInit, ViewInv, Distinct, Active, ViewsAreValid, PinsSound
<1>4. SessionInv
  BY <1>1 DEF SessionInv, SessionShape, ReadInv, StatusInv, CallsInv, Blank
<1> QED
  BY <1>2, <1>3, <1>4 DEF PagedInv

LEMMA ShownIsOfPin == PagedInv => ShownIsPrefix
<1> SUFFICES ASSUME PagedInv PROVE ShownIsPrefix
  OBVIOUS
<1>1. ReadInv /\ StatusInv
  BY DEF PagedInv, SessionInv
<1>2. ASSUME session.metadata # None PROVE session.metadata.criteria = session.factory
  <2>1. PICK pin \in pins : Reading(pin)
    BY <1>1, <1>2 DEF ReadInv
  <2>2. session.metadata = [criteria |-> session.factory, bounds |-> PublicBounds(pin.bounds)]
    BY <2>1 DEF Reading
  <2> QED BY <2>2
<1>3. ASSUME ShownMetadata(session) # None
      PROVE  \E pin \in pins :
               /\ PublicBounds(pin.bounds) = ShownMetadata(session).bounds
               /\ ShownItems(session) =
                    SubSeq(Ordered(pin.view, ShownMetadata(session).criteria), 1, Len(ShownItems(session)))
               /\ EndReached(session) =>
                    Len(ShownItems(session)) = Len(Ordered(pin.view, ShownMetadata(session).criteria))
  <2>1. CASE session.previous # None
    <3>1. PICK pin \in pins : Retained(pin)
      BY <1>1, <2>1 DEF ReadInv
    <3>2. ~EndReached(session)
      BY <1>1, <2>1 DEF ReadInv, StatusInv, EndReached
    <3>3. ShownMetadata(session) = session.previous.metadata /\ ShownItems(session) = session.previous.items
      BY <2>1 DEF ShownMetadata, ShownItems
    <3> QED BY <3>1, <3>2, <3>3 DEF Retained
  <2>2. CASE session.previous = None
    <3>1. ShownMetadata(session) = session.metadata /\ ShownItems(session) = session.items
      BY <2>2 DEF ShownMetadata, ShownItems
    <3>2. session.metadata # None
      BY <1>3, <3>1
    <3>3. PICK pin \in pins : Reading(pin)
      BY <1>1, <3>2 DEF ReadInv
    <3>4. session.metadata = [criteria |-> session.factory, bounds |-> PublicBounds(pin.bounds)]
      BY <3>3 DEF Reading
    <3>5. session.metadata.criteria = session.factory /\ session.metadata.bounds = PublicBounds(pin.bounds)
      BY <3>4
    <3>6. Listing(pin) = Ordered(pin.view, session.metadata.criteria)
      BY <3>5 DEF Listing
    <3>7. /\ session.items = SubSeq(Listing(pin), 1, Len(session.items))
          /\ EndReached(session) => Len(session.items) = Len(Listing(pin))
      BY <3>3 DEF Reading, EndReached
    <3> QED BY <3>1, <3>5, <3>6, <3>7
  <2> QED BY <2>1, <2>2
<1> QED
  BY <1>2, <1>3 DEF ShownIsPrefix

-----------------------------------------------------------------------------
(* Theorems *)

\* A reader that pages under pinned bounds lists until they expire what could be listed
\* when they were captured, for any limits, any clock and any number of readers
\* (sqlite-room-storage.ts, retireExpiredRecords and listPinnedSignificantFacts).
THEOREM PinnedViewsAreStable == StoreSpec => []PinnedViewStable
PROOF
<1>1. StoreSpec => []StoreInv
  BY StoreInvInitially, StoreInvStep, PTL DEF StoreSpec
<1> QED
  BY <1>1, ReadableIsKept, PTL

\* No view a reader pages through holds a record twice or more rows of a partition than
\* are kept, for any limit (retireExpiredRecords, isPinnedSignificantFactSnapshot).
THEOREM ViewsStayValid == StoreSpec => []ViewsAreValid
PROOF
<1>1. StoreInit => ViewInv
  BY FS_EmptySet DEF StoreInit, ViewInv, Distinct, Active, ViewsAreValid
<1>2. StoreSpec => [](StoreInv /\ ViewInv)
  BY <1>1, StoreInvInitially, StoreInvStep, ViewInvStep, PTL DEF StoreSpec
<1>3. ViewInv => ViewsAreValid
  BY DEF ViewInv
<1> QED
  BY <1>2, <1>3, PTL

\* What a search shows is, without a gap or a repetition, the newest part of what one
\* capture held for its query, and all of it at the end, whatever answers come late, are
\* lost or are refused and whatever the backend stores, retires or restarts meanwhile
\* (infinite-session.ts, with the cursors of room-history-reader.ts).
THEOREM SearchesShowPrefixes == Spec => []ShownIsPrefix
PROOF
<1>1. Spec => []PagedInv
  BY PagedInvInitially, PagedInvStep, PTL DEF Spec
<1> QED
  BY <1>1, ShownIsOfPin, PTL

\* The session never refuses what the backend sends it, for any size of a page, any limits
\* and any queries: no page repeats a record or leaves the capture of the one before, no
\* cursor comes back or meets another query, and no limit is exceeded.
THEOREM SearchesAreNeverConfused == Spec => []NeverConfused
PROOF
<1>1. Spec => []PagedInv
  BY PagedInvInitially, PagedInvStep, PTL DEF Spec
<1>2. PagedInv => NeverConfused
  BY DEF PagedInv, SessionInv, StatusInv, NeverConfused
<1> QED
  BY <1>1, <1>2, PTL

=============================================================================
