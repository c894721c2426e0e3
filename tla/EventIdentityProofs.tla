------------------------- MODULE EventIdentityProofs -------------------------
(***************************************************************************)
(* Proofs about EventIdentity, for any events, limits, times and number of *)
(* faults.                                                                 *)
(*                                                                         *)
(* The three properties are one argument.  An event is recorded only if    *)
(* the processor knows no durable identity of it; MemoryCoversStore makes  *)
(* that a statement about the database, and IdentityCoversRecord one about *)
(* its rows: the record it holds of that event, if any, is past its age    *)
(* and retires with the same transaction.  What they need besides is in    *)
(* Types and PendingIsNew.  The hard part is that a guard may be dropped   *)
(* for a later one at every step: the lemmas on Newest show that whatever  *)
(* is dropped stays displaced by as many as there is place for.            *)
(*                                                                         *)
(* A second invariant, Guarding, ties the guards of the database to what   *)
(* memory holds of their ids.  A transaction replaces those guards by ones *)
(* chosen from memory (or, in a recovery, from both), so the database lets *)
(* go of what an id means for three reasons only: the guard has expired,   *)
(* is displaced, or the record is retired (MeaningsAreKept).               *)
(***************************************************************************)
EXTENDS EventIdentity, FiniteSetTheorems, TLAPS

\* The values that the variables hold.
Identities == [id : Nat, print : Int, durable : BOOLEAN, at : Nat]
Rows == [id : Nat, print : Int, sequence : Nat]
Contents == [id : Nat, print : Int]

Unique(all) == \A a, b \in all : a.id = b.id => a = b
VolatileOf(all) == {i \in all : ~i.durable}

\* A set of guards; a table of identities.
IsGuards(all) == all \subseteq VolatileOf(Identities) /\ IsFiniteSet(all) /\ Unique(all)
IsTable(all) == all \subseteq Identities /\ IsFiniteSet(VolatileOf(all)) /\ Unique(all)

\* The records of a database, in a dense order.
IsHistory(rows) ==
  /\ rows \subseteq Rows /\ IsFiniteSet(rows)
  /\ \A row, other \in rows : row.sequence = other.sequence => row = other
  /\ \A row \in rows : row.sequence < Cardinality(rows)

Databases == [rows : SUBSET Rows, accepted : SUBSET Contents, guards : SUBSET Identities]

\* A database between transactions.
DbOK(db) ==
  /\ db \in Databases
  /\ IsHistory(db.rows) /\ Cardinality(db.rows) <= RecordLimit
  /\ IsGuards(db.guards) /\ Cardinality(db.guards) <= EntryLimit
  /\ Unique(db.rows)
  /\ db.accepted = {Content(row) : row \in db.rows}
  /\ Ids(db.guards) \cap Ids(db.accepted) = {}

Types ==
  /\ now \in Nat
  /\ mode \in {"down", "available", "degraded"}
  /\ IsTable(identities)
  /\ pending \subseteq Closing

\* The command failure that waits for the database is one, and new to it.
PendingIsNew ==
  /\ mode # "degraded" => pending = {}
  /\ \A a, b \in pending : a = b
  /\ Ids(pending) \cap Ids(store.accepted) = {}

IInv == Types /\ PendingIsNew /\ DbOK(store) /\ MemoryCoversStore

-----------------------------------------------------------------------------
(* What a limit keeps *)

LEMMA LeastNatural ==
  ASSUME NEW S \in SUBSET Nat, S # {}
  PROVE  \E n \in S : \A m \in S : n <= m
  <1> DEFINE less == OpToRel(<, Nat)
  <1>1. IsWellFoundedOn(less, Nat)
    BY NatLessThanWellFounded
  <1> HIDE DEF less
  <1>2. PICK n \in S : \A m \in S : <<m, n>> \notin less
    BY <1>1, WFMin, Zenon
  <1>3. \A m \in S : m \in Nat /\ n \in Nat /\ ~(m < n)
    BY <1>2 DEF less, OpToRel
  <1> QED BY <1>3

\* Later orders identities.
LEMMA LaterOrder ==
  ASSUME NEW a \in Identities, NEW b \in Identities, NEW c \in Identities
  PROVE  /\ ~Later(a, a)
         /\ Later(a, b) /\ Later(b, c) => Later(a, c)
         /\ Later(a, b) /\ ~Later(c, b) => Later(a, c)
         /\ a.id # b.id => Later(a, b) \/ Later(b, a)
  BY DEF Later, Identities

\* How many are later is a number, smaller for the later of two.
LEMMA Rank ==
  ASSUME NEW X \in SUBSET Identities, IsFiniteSet(X),
         NEW a \in Identities, NEW b \in X, Later(b, a)
  PROVE  /\ Cardinality({i \in X : Later(i, a)}) \in Nat
         /\ Cardinality({i \in X : Later(i, b)}) \in Nat
         /\ Cardinality({i \in X : Later(i, b)}) < Cardinality({i \in X : Later(i, a)})
  <1> DEFINE A == {i \in X : Later(i, a)}
             B == {i \in X : Later(i, b)}
  <1>1. IsFiniteSet(A) /\ IsFiniteSet(B)
    BY FS_Subset, A \in SUBSET X, B \in SUBSET X
  <1>2. B \in SUBSET A
    <2> SUFFICES ASSUME NEW i \in B PROVE i \in A
      OBVIOUS
    <2>1. i \in Identities /\ b \in Identities /\ Later(i, b) /\ i \in X
      OBVIOUS
    <2>2. Later(i, a)
      BY ONLY <2>1, Later(b, a), a \in Identities, LaterOrder
    <2> QED BY <2>1, <2>2
  <1>3. b \in A /\ b \notin B
    <2>1. b \in Identities
      OBVIOUS
    <2>2. ~Later(b, b)
      BY <2>1, LaterOrder
    <2> QED BY <2>2
  <1>4. Cardinality(A) \in Nat /\ Cardinality(B) \in Nat
    BY <1>1, FS_CardinalityType
  <1>5. Cardinality(B) <= Cardinality(A) /\ (Cardinality(A) = Cardinality(B) => A = B)
    BY <1>1, <1>2, FS_Subset
  <1> HIDE DEF A, B
  <1> SUFFICES Cardinality(A) \in Nat /\ Cardinality(B) \in Nat /\ Cardinality(B) < Cardinality(A)
    BY DEF A, B
  <1> QED BY <1>3, <1>4, <1>5

\* Whatever as many are later than, as many of those that are kept are later than.
LEMMA NewestDisplace ==
  ASSUME NEW X \in SUBSET Identities, IsFiniteSet(X), NEW g \in Identities,
         Cardinality({i \in X : Later(i, g)}) >= EntryLimit
  PROVE  Cardinality({i \in Newest(X) : Later(i, g)}) >= EntryLimit
  <1> DEFINE Above(y) == {i \in X : Later(i, y)}
             Y == Above(g)
             Out == Y \ Newest(X)
             K == {i \in Newest(X) : Later(i, g)}
             R == {Cardinality(Above(y)) : y \in Out}
  <1>1. Newest(X) \in SUBSET X /\ IsFiniteSet(Y)
    BY FS_Subset, Y \in SUBSET X DEF Newest
  <1>2. ASSUME NEW y \in Identities PROVE Cardinality(Above(y)) \in Nat /\ IsFiniteSet(Above(y))
    BY FS_Subset, FS_CardinalityType, Above(y) \in SUBSET X
  <1>3. CASE Out = {}
    <2>1. K = Y
      BY <1>1, <1>3
    <2> QED BY <2>1
  <1>4. CASE Out # {}
    <2>1. R \subseteq Nat /\ R # {}
      BY <1>2, <1>4
    <2>2. PICK y \in Out : \A z \in Out : Cardinality(Above(y)) <= Cardinality(Above(z))
      <3>1. PICK r \in R : \A s \in R : r <= s
        BY ONLY <2>1, LeastNatural
      <3> HIDE DEF Above, Out
      <3> QED BY <3>1
    <2>3. y \in X /\ Later(y, g) /\ y \in Identities /\ y \notin Newest(X)
      OBVIOUS
    <2>4. Above(y) \in SUBSET K
      <3> SUFFICES ASSUME NEW i \in Above(y) PROVE i \in K
        OBVIOUS
      <3>1. i \in X /\ Later(i, y) /\ i \in Identities
        OBVIOUS
      <3>2. Later(i, g)
        BY ONLY <3>1, <2>3, g \in Identities, LaterOrder
      <3>3. Cardinality(Above(i)) < Cardinality(Above(y))
        BY <3>1, <2>3, Rank
      <3>4. Cardinality(Above(i)) \in Nat /\ Cardinality(Above(y)) \in Nat
        BY <1>2, <2>3, <3>1
      <3>5. i \notin Out
        <4> SUFFICES ASSUME i \in Out PROVE FALSE
          OBVIOUS
        <4> HIDE DEF Above, Out
        <4> QED BY <3>3, <3>4, <2>2
      <3> QED BY <3>1, <3>2, <3>5
    <2>5. Cardinality(Above(y)) >= EntryLimit
      BY <2>3, <1>2, LimitAssumption DEF Newest
    <2>6. IsFiniteSet(K)
      <3>1. K \in SUBSET X
        BY <1>1
      <3> QED BY <3>1, FS_Subset
    <2>7. Cardinality(Above(y)) <= Cardinality(K) /\ Cardinality(K) \in Nat
      BY <2>4, <2>6, FS_Subset, FS_CardinalityType
    <2>8. Cardinality(Above(y)) \in Nat
      BY <1>2, <2>3
    <2> HIDE DEF Above, K
    <2>9. Cardinality(K) >= EntryLimit
      BY <2>5, <2>7, <2>8, LimitAssumption
    <2> QED BY <2>9 DEF K
  <1> QED BY <1>3, <1>4

\* Newest keeps no more than there is place for.
LEMMA NewestFew ==
  ASSUME NEW X \in SUBSET Identities, IsFiniteSet(X), Unique(X)
  PROVE  Cardinality(Newest(X)) <= EntryLimit
  <1> DEFINE Rk(y) == Cardinality({i \in X : Later(i, y)})
             N == Newest(X)
             T == 0 .. EntryLimit - 1
             f == [y \in N |-> Rk(y)]
  <1>1. N \in SUBSET X
    BY DEF Newest
  <1>2. ASSUME NEW y \in N PROVE Rk(y) \in T
    <2>1. {i \in X : Later(i, y)} \in SUBSET X
      OBVIOUS
    <2>2. Rk(y) \in Nat
      BY <2>1, FS_Subset, FS_CardinalityType
    <2>3. Rk(y) < EntryLimit
      BY DEF Newest
    <2> QED BY <2>2, <2>3, LimitAssumption
  <1>3. ASSUME NEW a \in N, NEW b \in N, Rk(a) = Rk(b) PROVE a = b
    <2>1. a \in X /\ b \in X /\ a \in Identities /\ b \in Identities
      BY <1>1
    <2>2. ~Later(a, b)
      BY <2>1, <1>3, Rank
    <2>3. ~Later(b, a)
      BY <2>1, <1>3, Rank
    <2>4. a.id = b.id
      BY <2>1, <2>2, <2>3, LaterOrder
    <2> QED BY <2>1, <2>4 DEF Unique
  <1>4. f \in Injection(N, T)
    <2> HIDE DEF N, Rk, T
    <2> QED BY <1>2, <1>3 DEF Injection, IsInjective
  <1>5. IsFiniteSet(T) /\ Cardinality(T) = EntryLimit
    BY FS_Interval, LimitAssumption
  <1> QED BY <1>4, <1>5, FS_Injection

-----------------------------------------------------------------------------
(* The identities of the processor *)

LEMMA UnexpiredType ==
  ASSUME NEW all, IsTable(all), NEW at
  PROVE  /\ Unexpired(all, at) \in SUBSET Identities
         /\ Unexpired(all, at) \in SUBSET all
         /\ \A i \in Unexpired(all, at) : ~i.durable
         /\ IsFiniteSet(Unexpired(all, at))
  BY FS_Subset, Unexpired(all, at) \in SUBSET VolatileOf(all) DEF IsTable, Unexpired, VolatileOf

LEMMA GuardsType ==
  ASSUME NEW all, IsTable(all), NEW at
  PROVE  /\ IsGuards(Guards(all, at)) /\ Cardinality(Guards(all, at)) <= EntryLimit
         /\ Guards(all, at) \subseteq all
  <1> DEFINE X == Unexpired(all, at)
  <1>1. X \in SUBSET Identities /\ X \in SUBSET all /\ IsFiniteSet(X) /\ \A i \in X : ~i.durable
    BY UnexpiredType
  <1>2. Unique(X)
    BY <1>1 DEF Unique, IsTable
  <1> HIDE DEF X
  <1>3. Newest(X) \in SUBSET X
    BY DEF Newest
  <1>4. IsGuards(Newest(X))
    BY <1>1, <1>2, <1>3, FS_Subset DEF IsGuards, VolatileOf, Unique
  <1>5. Cardinality(Newest(X)) <= EntryLimit
    BY <1>1, <1>2, NewestFew
  <1> QED BY <1>1, <1>3, <1>4, <1>5 DEF X, Guards

\* Any part of a table is one.
LEMMA PartIsTable ==
  ASSUME NEW all, IsTable(all), NEW part \in SUBSET all
  PROVE  IsTable(part)
  <1>1. VolatileOf(part) \in SUBSET VolatileOf(all)
    BY DEF VolatileOf
  <1> QED BY <1>1, FS_Subset DEF IsTable, Unique

LEMMA PrunedType ==
  ASSUME NEW all, IsTable(all), NEW at
  PROVE  /\ IsTable(Pruned(all, at)) /\ Pruned(all, at) \subseteq all
         /\ \A i \in all : i.durable => i \in Pruned(all, at)
         /\ Guards(all, at) \subseteq Pruned(all, at)
  <1>1. Pruned(all, at) \in SUBSET all
    BY GuardsType DEF Pruned
  <1>2. IsTable(Pruned(all, at))
    BY <1>1, PartIsTable
  <1> QED BY <1>1, <1>2 DEF Pruned

LEMMA ForgetType ==
  ASSUME NEW all, IsTable(all), NEW ids
  PROVE  /\ IsTable(Forget(all, ids)) /\ Forget(all, ids) \subseteq all
         /\ \A i \in all : i.id \notin ids \/ ~i.durable => i \in Forget(all, ids)
  <1>1. Forget(all, ids) \in SUBSET all
    BY DEF Forget
  <1>2. IsTable(Forget(all, ids))
    BY <1>1, PartIsTable
  <1> QED BY <1>1, <1>2 DEF Forget

LEMMA PutType ==
  ASSUME NEW all, IsTable(all), NEW i \in Identities
  PROVE  /\ IsTable(Put(all, i)) /\ i \in Put(all, i)
         /\ \A j \in all : j.id # i.id => j \in Put(all, i)
  <1>1. VolatileOf(Put(all, i)) \in SUBSET (VolatileOf(all) \cup {i})
    BY DEF VolatileOf, Put
  <1>2. IsFiniteSet(VolatileOf(Put(all, i)))
    BY <1>1, FS_Subset, FS_AddElement DEF IsTable
  <1> QED BY <1>2 DEF IsTable, Unique, Put

LEMMA TakenType ==
  ASSUME NEW event \in Contents, NEW at \in Nat
  PROVE  /\ Durable(event) \in Identities /\ Durable(event).id = event.id /\ Durable(event).durable
         /\ Volatile(event, at) \in Identities
  BY DEF Durable, Volatile, Identities, Contents

LEMMA GuardedType ==
  ASSUME NEW all, IsTable(all), NEW event \in Contents, now \in Nat
  PROVE  IsTable(Guarded(all, event))
  BY TakenType, PutType, PrunedType DEF Guarded

-----------------------------------------------------------------------------
(* The database *)

\* Records that have a number each.
IsNumbered(rows) ==
  /\ rows \subseteq Rows /\ IsFiniteSet(rows)
  /\ \A row, other \in rows : row.sequence = other.sequence => row = other

LEMMA NewerRank ==
  ASSUME NEW X \in SUBSET Rows, IsFiniteSet(X),
         NEW a \in X, NEW b \in X, Newer(b, a)
  PROVE  /\ Cardinality({i \in X : Newer(i, a)}) \in Nat
         /\ Cardinality({i \in X : Newer(i, b)}) \in Nat
         /\ Cardinality({i \in X : Newer(i, b)}) < Cardinality({i \in X : Newer(i, a)})
  <1> DEFINE A == {i \in X : Newer(i, a)}
             B == {i \in X : Newer(i, b)}
  <1>1. IsFiniteSet(A) /\ IsFiniteSet(B)
    BY FS_Subset, A \in SUBSET X, B \in SUBSET X
  <1>2. B \in SUBSET A
    BY DEF Newer, Rows
  <1>3. b \in A /\ b \notin B
    BY DEF Newer, Rows
  <1>4. Cardinality(A) \in Nat /\ Cardinality(B) \in Nat
    BY <1>1, FS_CardinalityType
  <1>5. Cardinality(B) <= Cardinality(A) /\ (Cardinality(A) = Cardinality(B) => A = B)
    BY <1>1, <1>2, FS_Subset
  <1> HIDE DEF A, B
  <1> SUFFICES Cardinality(A) \in Nat /\ Cardinality(B) \in Nat /\ Cardinality(B) < Cardinality(A)
    BY DEF A, B
  <1> QED BY <1>3, <1>4, <1>5

\* Retention keeps records that are in age, and no more than its limit.
LEMMA RetainedType ==
  ASSUME NEW rows, IsNumbered(rows)
  PROVE  /\ Retained(rows) \in SUBSET rows /\ IsNumbered(Retained(rows))
         /\ \A row \in Retained(rows) : InAge(row.print)
         /\ Cardinality(Retained(rows)) <= RecordLimit
  <1> DEFINE X == {row \in rows : InAge(row.print)}
             Rk(row) == Cardinality({other \in X : Newer(other, row)})
             N == Retained(rows)
             T == 0 .. RecordLimit - 1
             f == [row \in N |-> Rk(row)]
  <1>1. X \in SUBSET Rows /\ IsFiniteSet(X) /\ X \in SUBSET rows
    BY FS_Subset, X \in SUBSET rows DEF IsNumbered
  <1>2. N \in SUBSET X /\ \A row \in N : Rk(row) < RecordLimit
    BY DEF Retained
  <1>3. IsNumbered(N)
    BY <1>1, <1>2, FS_Subset DEF IsNumbered
  <1>4. ASSUME NEW row \in N PROVE Rk(row) \in T
    <2>1. {other \in X : Newer(other, row)} \in SUBSET X
      OBVIOUS
    <2>2. Rk(row) \in Nat
      BY <1>1, <2>1, FS_Subset, FS_CardinalityType
    <2> HIDE DEF Rk
    <2> QED BY <1>2, <2>2, LimitAssumption
  <1>5. ASSUME NEW a \in N, NEW b \in N, Rk(a) = Rk(b) PROVE a = b
    <2>1. a \in X /\ b \in X /\ a \in Rows /\ b \in Rows
      BY <1>1, <1>2
    <2>2. ~Newer(a, b)
      <3> SUFFICES ASSUME Newer(a, b) PROVE FALSE
        OBVIOUS
      <3> HIDE DEF X
      <3>1. Rk(b) \in Nat /\ Rk(a) < Rk(b)
        BY <1>1, <2>1, NewerRank
      <3> QED BY <3>1, <1>5
    <2>3. ~Newer(b, a)
      <3> SUFFICES ASSUME Newer(b, a) PROVE FALSE
        OBVIOUS
      <3> HIDE DEF X
      <3>1. Rk(a) \in Nat /\ Rk(b) < Rk(a)
        BY <1>1, <2>1, NewerRank
      <3> QED BY <3>1, <1>5
    <2>4. a.sequence = b.sequence
      BY <2>1, <2>2, <2>3 DEF Newer, Rows
    <2> QED BY <2>1, <2>4, <1>1 DEF IsNumbered
  <1>6. f \in Injection(N, T)
    <2> HIDE DEF N, Rk, T
    <2> QED BY <1>4, <1>5 DEF Injection, IsInjective
  <1>7. IsFiniteSet(T) /\ Cardinality(T) = RecordLimit
    BY FS_Interval, LimitAssumption
  <1>8. Cardinality(N) <= RecordLimit
    BY <1>6, <1>7, FS_Injection
  <1> QED BY <1>1, <1>2, <1>3, <1>8

\* Records keep their order, and what they say, when they are numbered anew.
LEMMA DenseType ==
  ASSUME NEW rows, IsNumbered(rows)
  PROVE  /\ IsHistory(Dense(rows)) /\ Cardinality(Dense(rows)) = Cardinality(rows)
         /\ \A dense \in Dense(rows) : \E row \in rows : dense.id = row.id /\ dense.print = row.print
         /\ \A row \in rows : \E dense \in Dense(rows) : dense.id = row.id /\ dense.print = row.print
         /\ Unique(rows) => Unique(Dense(rows))
  <1> DEFINE Below(row) == {other \in rows : other.sequence < row.sequence}
             D(row) == [row EXCEPT !.sequence = Cardinality(Below(row))]
             f == [row \in rows |-> D(row)]
  <1>1. rows \subseteq Rows /\ IsFiniteSet(rows)
    BY DEF IsNumbered
  <1>2. Dense(rows) = {D(row) : row \in rows}
    BY DEF Dense
  <1>3. ASSUME NEW row \in rows
        PROVE  /\ Cardinality(Below(row)) \in Nat /\ Cardinality(Below(row)) < Cardinality(rows)
               /\ IsFiniteSet(Below(row))
    <2>1. Below(row) \in SUBSET rows /\ row \notin Below(row)
      BY <1>1 DEF Rows
    <2>2. IsFiniteSet(Below(row)) /\ Cardinality(Below(row)) <= Cardinality(rows)
          /\ Cardinality(Below(row)) # Cardinality(rows)
      BY <1>1, <2>1, FS_Subset
    <2>3. Cardinality(Below(row)) \in Nat /\ Cardinality(rows) \in Nat
      BY <1>1, <2>2, FS_CardinalityType
    <2> HIDE DEF Below
    <2> QED BY <2>2, <2>3
  <1>4. ASSUME NEW a \in rows, NEW b \in rows, Cardinality(Below(a)) = Cardinality(Below(b))
        PROVE  a = b
    <2>1. a.sequence \in Nat /\ b.sequence \in Nat
      BY <1>1 DEF Rows
    <2>2. Below(a) \in SUBSET Below(b) \/ Below(b) \in SUBSET Below(a)
      BY <2>1, <1>1 DEF Rows
    <2>3. Below(a) = Below(b)
      BY <2>2, <1>3, <1>4, FS_Subset
    <2>4. ~(a.sequence < b.sequence) /\ ~(b.sequence < a.sequence)
      BY <2>3, <2>1
    <2> QED BY <2>1, <2>4 DEF IsNumbered
  <1>5. ASSUME NEW row \in rows
        PROVE  /\ D(row) \in Rows /\ D(row).id = row.id /\ D(row).print = row.print
               /\ D(row).sequence = Cardinality(Below(row))
    <2> HIDE DEF Below
    <2> QED BY <1>1, <1>3 DEF Rows
  <1>6. f \in Surjection(rows, Dense(rows)) /\ f \in Injection(rows, Dense(rows))
    <2> HIDE DEF D, Below
    <2> QED BY <1>2, <1>4, <1>5 DEF Surjection, Injection, IsInjective
  <1>7. IsFiniteSet(Dense(rows)) /\ Cardinality(Dense(rows)) = Cardinality(rows)
    BY <1>1, <1>6, FS_Surjection
  <1> HIDE DEF D, Below, f
  <1>8. IsHistory(Dense(rows))
    <2>1. Dense(rows) \subseteq Rows
      BY <1>2, <1>5
    <2>2. ASSUME NEW a \in Dense(rows), NEW b \in Dense(rows), a.sequence = b.sequence
          PROVE  a = b
      <3>1. PICK row \in rows, other \in rows : a = D(row) /\ b = D(other)
        BY <1>2
      <3>2. Cardinality(Below(row)) = Cardinality(Below(other))
        BY <3>1, <2>2, <1>5
      <3> QED BY <3>1, <3>2, <1>4
    <2>3. \A dense \in Dense(rows) : dense.sequence < Cardinality(Dense(rows))
      BY <1>2, <1>3, <1>5, <1>7
    <2> QED BY <1>7, <2>1, <2>2, <2>3 DEF IsHistory
  <1> QED BY <1>2, <1>5, <1>7, <1>8 DEF Unique

\* A database in a transaction: what is past its age may have another meaning.
Committable(db) ==
  /\ db \in Databases
  /\ IsNumbered(db.rows)
  /\ IsGuards(db.guards) /\ Cardinality(db.guards) <= EntryLimit
  /\ Ids(db.guards) \cap Ids(db.accepted) = {}
  /\ Unique(db.accepted)
  /\ \A row, other \in db.rows :
       InAge(row.print) /\ InAge(other.print) /\ row.id = other.id => row = other
  /\ \A row \in db.rows : InAge(row.print) => Content(row) \in db.accepted

LEMMA CommittedOK ==
  ASSUME NEW db, Committable(db)
  PROVE  /\ DbOK(Committed(db))
         /\ Committed(db).guards = db.guards /\ Committed(db).accepted \subseteq db.accepted
         /\ \A a \in Committed(db).accepted : \E row \in db.rows : row.id = a.id /\ InAge(row.print)
  <1> DEFINE kept == Retained(db.rows)
             rows == Dense(kept)
             accepted == {a \in db.accepted : a.id \in Ids(rows)}
  <1>1. Committed(db) \in [rows : {rows}, accepted : {accepted}, guards : {db.guards}]
    BY DEF Committed, Committable, Databases
  <1>2. /\ kept \in SUBSET db.rows /\ IsNumbered(kept)
        /\ \A row \in kept : InAge(row.print)
        /\ Cardinality(kept) <= RecordLimit
    BY RetainedType DEF Committable
  <1>3. Unique(kept)
    BY <1>2 DEF Committable, Unique
  <1> HIDE DEF kept
  <1>4. /\ IsHistory(rows) /\ Cardinality(rows) = Cardinality(kept)
        /\ \A dense \in rows : \E row \in kept : dense.id = row.id /\ dense.print = row.print
        /\ \A row \in kept : \E dense \in rows : dense.id = row.id /\ dense.print = row.print
        /\ Unique(rows)
    BY <1>2, <1>3, DenseType
  <1> HIDE DEF rows
  <1>5. Cardinality(rows) <= RecordLimit
    <2>1. Cardinality(rows) \in Nat /\ Cardinality(kept) \in Nat
      BY <1>2, <1>4, FS_CardinalityType DEF IsHistory, IsNumbered
    <2> QED BY <1>2, <1>4, <2>1, LimitAssumption
  <1>6. ASSUME NEW dense \in rows PROVE Content(dense) \in accepted
    <2>1. PICK row \in kept : dense.id = row.id /\ dense.print = row.print
      BY <1>4
    <2>2. Content(row) \in db.accepted
      BY <1>2 DEF Committable
    <2>3. Content(dense) = Content(row) /\ Content(row).id \in Ids(rows)
      BY <2>1 DEF Content, Ids
    <2> QED BY <2>2, <2>3
  <1>7. ASSUME NEW a \in accepted PROVE a \in {Content(row) : row \in rows}
    <2>1. PICK dense \in rows : dense.id = a.id
      BY DEF Ids
    <2>2. Content(dense) \in db.accepted /\ Content(dense).id = a.id /\ a \in db.accepted
      BY <1>6, <2>1 DEF Content
    <2>3. a = Content(dense)
      BY <2>2 DEF Committable, Unique
    <2> QED BY <2>3
  <1>8. accepted = {Content(row) : row \in rows}
    BY <1>6, <1>7
  <1>9. Ids(db.guards) \cap Ids(accepted) = {}
    BY DEF Committable, Ids
  <1>10. rows \subseteq Rows /\ accepted \in SUBSET Contents /\ db.guards \in SUBSET Identities
    BY <1>4 DEF IsHistory, Committable, Databases
  <1> HIDE DEF accepted
  <1>11. DbOK(Committed(db))
    BY <1>1, <1>4, <1>5, <1>8, <1>9, <1>10 DEF DbOK, Databases, Committable
  <1>12. accepted \subseteq db.accepted
    BY DEF accepted
  <1>13. \A a \in accepted : \E row \in db.rows : row.id = a.id /\ InAge(row.print)
    BY <1>2, <1>4 DEF accepted, Ids
  <1> QED BY <1>1, <1>11, <1>12, <1>13

\* A transaction that records nothing.
LEMMA GuardsAreCommittable ==
  ASSUME NEW db, DbOK(db), NEW guards,
         IsGuards(guards), Cardinality(guards) <= EntryLimit, Ids(guards) \cap Ids(db.accepted) = {}
  PROVE  /\ Committable([db EXCEPT !.guards = guards])
         /\ [db EXCEPT !.guards = guards].guards = guards
         /\ [db EXCEPT !.guards = guards].accepted = db.accepted
         /\ [db EXCEPT !.guards = guards].rows = db.rows
  <1> DEFINE new == [db EXCEPT !.guards = guards]
  <1>1. new \in Databases /\ new.rows = db.rows /\ new.accepted = db.accepted /\ new.guards = guards
    BY DEF DbOK, Databases, IsGuards, VolatileOf
  <1>2. IsNumbered(db.rows)
    BY DEF DbOK, IsHistory, IsNumbered
  <1>3. Unique(db.accepted) /\ \A row \in db.rows : Content(row) \in db.accepted
    BY DEF DbOK, Unique, Content
  <1>4. Committable(new)
    <2> HIDE DEF new
    <2> QED BY <1>1, <1>2, <1>3 DEF Committable, DbOK, Unique
  <1> QED BY <1>1, <1>4

LEMMA SameIsCommittable ==
  ASSUME NEW db, DbOK(db)
  PROVE  Committable(db)
  <1>1. db = [db EXCEPT !.guards = db.guards]
    BY DEF DbOK, Databases
  <1> QED BY <1>1, GuardsAreCommittable DEF DbOK

\* A transaction that records an event of which no record is in age.
LEMMA RecordedIsCommittable ==
  ASSUME NEW db, DbOK(db), NEW event \in Contents, NEW guards,
         IsGuards(guards), Cardinality(guards) <= EntryLimit, Ids(guards) \cap Ids(db.accepted) = {},
         event.id \notin Ids(guards),
         \A row \in db.rows : InAge(row.print) => row.id # event.id
  PROVE  /\ Committable([Recorded(db, event) EXCEPT !.guards = guards])
         /\ [Recorded(db, event) EXCEPT !.guards = guards].guards = guards
         /\ [Recorded(db, event) EXCEPT !.guards = guards].accepted =
              {a \in db.accepted : a.id # event.id} \cup {Content(event)}
         /\ db.rows \subseteq [Recorded(db, event) EXCEPT !.guards = guards].rows
         /\ \E row \in [Recorded(db, event) EXCEPT !.guards = guards].rows : Content(event) = Content(row)
  <1> DEFINE new == [Recorded(db, event) EXCEPT !.guards = guards]
             row0 == [id |-> event.id, print |-> event.print, sequence |-> Cardinality(db.rows)]
             rows == db.rows \cup {row0}
             accepted == {a \in db.accepted : a.id # event.id} \cup {Content(event)}
  <1>1. new.rows = rows /\ new.accepted = accepted /\ new.guards = guards
        /\ new = [rows |-> rows, accepted |-> accepted, guards |-> guards]
    <2>1. db \in Databases
      BY DEF DbOK
    <2> DEFINE recorded == [rows |-> rows, accepted |-> accepted, guards |-> db.guards]
    <2>2. Recorded(db, event) = recorded
      <3> HIDE DEF row0
      <3>1. Recorded(db, event) = [db EXCEPT !.rows = db.rows \cup {row0}, !.accepted = accepted]
        BY DEF Recorded, row0
      <3> HIDE DEF accepted
      <3> QED BY <2>1, <3>1 DEF Databases
    <2> HIDE DEF rows, accepted
    <2>3. new = [recorded EXCEPT !.guards = guards]
      BY <2>2
    <2> QED BY <2>3
  <1>2. row0 \in Rows /\ Content(event) \in Contents /\ Content(event).id = event.id
    BY FS_CardinalityType DEF Rows, Contents, DbOK, IsHistory, Content
  <1>3. /\ db.rows \subseteq Rows /\ IsFiniteSet(db.rows)
        /\ \A row \in db.rows : row.sequence < row0.sequence
        /\ \A row, other \in db.rows : row.sequence = other.sequence => row = other
    BY DEF DbOK, IsHistory
  <1>4. IsNumbered(rows)
    <2>1. IsFiniteSet(rows)
      BY <1>3, FS_AddElement
    <2>2. \A row \in db.rows : row.sequence # row0.sequence
      BY <1>2, <1>3 DEF Rows
    <2> HIDE DEF row0
    <2> QED BY <1>2, <1>3, <2>1, <2>2 DEF IsNumbered
  <1>5. Unique(accepted) /\ Ids(guards) \cap Ids(accepted) = {}
    BY <1>2 DEF DbOK, Unique, Content, Ids
  <1>6. new \in Databases
    <2>1. rows \in SUBSET Rows /\ accepted \in SUBSET Contents /\ guards \in SUBSET Identities
      BY <1>2, <1>3 DEF DbOK, Databases, IsGuards, VolatileOf
    <2> HIDE DEF new, rows, accepted
    <2> QED BY <1>1, <2>1 DEF Databases
  <1>7. \A row, other \in rows :
          InAge(row.print) /\ InAge(other.print) /\ row.id = other.id => row = other
    <2>1. row0.id = event.id
      OBVIOUS
    <2> HIDE DEF row0
    <2> QED BY <2>1 DEF DbOK, Unique
  <1>8. \A row \in rows : InAge(row.print) => Content(row) \in accepted
    <2>1. Content(row0) = Content(event)
      BY DEF Content
    <2>2. \A row \in db.rows : Content(row).id = row.id /\ Content(row) \in db.accepted
      BY DEF Content, DbOK
    <2> HIDE DEF row0
    <2> QED BY <2>1, <2>2
  <1>9. db.rows \subseteq rows /\ \E row \in rows : Content(event) = Content(row)
    <2>1. Content(event) = Content(row0)
      BY DEF Content
    <2> HIDE DEF row0
    <2> QED BY <2>1
  <1> HIDE DEF new, rows, accepted
  <1>10. Committable(new)
    BY <1>1, <1>4, <1>5, <1>6, <1>7, <1>8 DEF Committable
  <1> QED BY <1>1, <1>9, <1>10 DEF new, accepted

-----------------------------------------------------------------------------
(* What memory knows of the database *)

\* The guard is among the identities, or displaced by them.
Covered(all, guard) ==
  guard \in all \/ Cardinality({i \in Unexpired(all, now) : Later(i, guard)}) >= EntryLimit

LEMMA PrunedCovers ==
  ASSUME NEW all, IsTable(all),
         NEW guards \in SUBSET Identities, NEW guard \in Unexpired(guards, now), Covered(all, guard)
  PROVE  Covered(Pruned(all, now), guard)
  <1> DEFINE X == Unexpired(all, now)
  <1>1. X \in SUBSET Identities /\ IsFiniteSet(X) /\ guard \in Identities
    BY UnexpiredType DEF Unexpired
  <1>2. Unexpired(Pruned(all, now), now) = Newest(X)
    BY DEF Pruned, Guards, Newest, Unexpired
  <1>3. CASE guard \in Newest(X)
    BY <1>3 DEF Covered, Pruned, Guards
  <1>4. CASE guard \notin Newest(X)
    <2>1. Cardinality({i \in X : Later(i, guard)}) >= EntryLimit
      <3>1. CASE guard \in X
        <4>1. {i \in X : Later(i, guard)} \in SUBSET X
          OBVIOUS
        <4>2. Cardinality({i \in X : Later(i, guard)}) \in Nat
          BY <1>1, <4>1, FS_Subset, FS_CardinalityType
        <4>3. ~(Cardinality({i \in X : Later(i, guard)}) < EntryLimit)
          BY <1>4, <3>1 DEF Newest
        <4> HIDE DEF X
        <4> QED BY <4>2, <4>3, LimitAssumption
      <3>2. CASE guard \notin X
        BY <3>2 DEF Covered, Unexpired
      <3> QED BY <3>1, <3>2
    <2> HIDE DEF X
    <2>2. Cardinality({i \in Newest(X) : Later(i, guard)}) >= EntryLimit
      BY <1>1, <2>1, NewestDisplace
    <2> QED BY <1>2, <2>2 DEF Covered
  <1> QED BY <1>3, <1>4

\* Forgetting durable identities is nothing to a guard.
LEMMA ForgetCovers ==
  ASSUME NEW all, NEW ids, NEW guards, NEW guard \in Unexpired(guards, now), Covered(all, guard)
  PROVE  Covered(Forget(all, ids), guard)
  <1>1. Unexpired(Forget(all, ids), now) = Unexpired(all, now)
    BY DEF Unexpired, Forget
  <1>2. guard \in all => guard \in Forget(all, ids)
    BY DEF Unexpired, Forget
  <1> QED BY <1>1, <1>2 DEF Covered

\* An identity is retired only with the last record.
LEMMA ForgetRetired ==
  ASSUME NEW db, Committable(db), NEW all, IsTable(all),
         NEW a \in Committed(db).accepted, Durable(a) \in all
  PROVE  Durable(a) \in Forget(all, Retired(db)) /\ a.id \notin Retired(db)
  <1>1. a.id \notin Retired(db) /\ Durable(a).id = a.id
    BY DEF Retired, Ids, Durable
  <1> QED BY <1>1 DEF Forget

\* An event whose identity is known is not guarded as well.
LEMMA GuardsAreNew ==
  ASSUME IsTable(identities), Accepted(store) \subseteq identities, NEW g \in Guards(identities, now)
  PROVE  g.id \notin Ids(store.accepted)
  <1>1. g \in identities /\ ~g.durable
    BY GuardsType DEF IsGuards, VolatileOf
  <1>2. ASSUME NEW a \in store.accepted PROVE Durable(a) \in identities /\ Durable(a).id = a.id /\ Durable(a).durable
    BY DEF Accepted, Durable
  <1> QED BY <1>1, <1>2 DEF IsTable, Unique, Ids

LEMMA Covering ==
  ASSUME now' = now,
         \A a \in store'.accepted : Durable(a) \in identities',
         \A guard \in Unexpired(store'.guards, now) : Covered(identities', guard)
  PROVE  MemoryCoversStore'
  BY DEF MemoryCoversStore, Accepted, Covered, Displaced

LEMMA EventType ==
  ASSUME NEW event \in Event \cup Closing
  PROVE  event \in Contents
  BY EventAssumption DEF Contents

\* Identities that no record of the same event in age speaks for are reconciled.
LEMMA ReconciledType ==
  ASSUME IInv, NEW event \in Event
  PROVE  /\ IsTable(Reconciled(event)) /\ Reconciled(event) \subseteq identities
         /\ \A i \in identities : i.id # event.id => i \in Reconciled(event)
         /\ \A guards : \A guard \in Unexpired(guards, now) :
              Covered(identities, guard) => Covered(Reconciled(event), guard)
  <1>1. IsTable(identities)
    BY DEF IInv, Types
  <1>2. CASE StillActive(event.id)
    BY <1>1, <1>2 DEF Reconciled
  <1>3. CASE ~StillActive(event.id)
    <2>1. Reconciled(event) = Forget(identities, {event.id})
      BY <1>3 DEF Reconciled
    <2> QED BY <1>1, <2>1, ForgetType, ForgetCovers
  <1> QED BY <1>2, <1>3

-----------------------------------------------------------------------------
(* Deliveries preserve the invariant *)

LEMMA QuarantineInv ==
  ASSUME IInv, NEW event \in Event, mode = "available", Quarantine(event),
         UNCHANGED <<now, faults, mode, pending>>
  PROVE  IInv'
  <1> DEFINE all == Reconciled(event)
             left == Pruned(all, now)
  <1>1. DbOK(store) /\ Committable(store) /\ now \in Nat
    BY SameIsCommittable DEF IInv, Types
  <1>2. DbOK(store') /\ store'.guards = store.guards /\ store'.accepted \subseteq store.accepted
    BY <1>1, CommittedOK DEF Quarantine
  <1>3. /\ IsTable(all) /\ \A i \in identities : i.id # event.id => i \in all
        /\ \A guards : \A guard \in Unexpired(guards, now) :
              Covered(identities, guard) => Covered(all, guard)
    BY ReconciledType
  <1>4. IsTable(left) /\ \A i \in all : i.durable => i \in left
    BY <1>3, PrunedType
  <1>5. identities' = Forget(left, Retired(store))
    BY DEF Quarantine, Refuse
  <1>6. IsTable(identities')
    BY <1>4, <1>5, ForgetType
  <1>7. ASSUME NEW a \in store'.accepted PROVE Durable(a) \in identities'
    <2>1. a \in Committed(store).accepted
      BY DEF Quarantine
    <2>2. PICK row \in store.rows : row.id = a.id /\ InAge(row.print)
      BY <1>1, <2>1, CommittedOK
    <2>3. Durable(a) \in identities /\ Durable(a).id = a.id /\ Durable(a).durable
      BY <1>2 DEF IInv, MemoryCoversStore, Accepted, Durable
    <2>4. Durable(a) \in all
      <3>1. CASE a.id = event.id
        <4>1. StillActive(event.id)
          BY <1>2, <2>2, <3>1 DEF StillActive, Ids
        <4> QED BY <2>3, <4>1 DEF Reconciled
      <3> QED BY <1>3, <2>3, <3>1
    <2> HIDE DEF all, left
    <2> QED BY <1>1, <1>4, <1>5, <2>1, <2>3, <2>4, ForgetRetired
  <1>8. ASSUME NEW guard \in Unexpired(store'.guards, now) PROVE Covered(identities', guard)
    <2>1. Covered(identities, guard)
      BY <1>2 DEF IInv, MemoryCoversStore, Covered, Displaced
    <2>2. Covered(all, guard)
      BY <1>3, <2>1
    <2>3. store'.guards \in SUBSET Identities
      BY <1>2 DEF DbOK, Databases
    <2> HIDE DEF all
    <2>4. Covered(left, guard)
      BY <1>3, <2>2, <2>3, PrunedCovers
    <2> QED BY <1>5, <2>4, ForgetCovers
  <1>9. MemoryCoversStore'
    BY <1>7, <1>8, Covering
  <1>10. PendingIsNew'
    BY <1>2 DEF IInv, PendingIsNew, Ids
  <1> QED BY <1>2, <1>6, <1>9, <1>10 DEF IInv, Types

\* The database holds no record in age of an event that memory takes for new.
LEMMA NewEventHasNoRecord ==
  ASSUME IInv, mode = "available", NEW event \in Event, ~Duplicates(Reconciled(event), event)
  PROVE  \A row \in store.rows : InAge(row.print) => row.id # event.id
  <1> SUFFICES ASSUME NEW row \in store.rows, InAge(row.print), row.id = event.id PROVE FALSE
    OBVIOUS
  <1>1. Content(row) \in store.accepted /\ Content(row).id = event.id
    BY DEF IInv, DbOK, Content
  <1>2. StillActive(event.id)
    BY <1>1 DEF StillActive, Ids
  <1>3. Durable(Content(row)) \in identities
    BY <1>1 DEF IInv, MemoryCoversStore, Accepted
  <1>4. Durable(Content(row)).id = event.id /\ Durable(Content(row)).durable
    BY <1>1 DEF Durable
  <1>5. Durable(Content(row)) \in Known(Reconciled(event), event.id, now)
    BY <1>2, <1>3, <1>4 DEF Reconciled, Known, Pruned
  <1> QED BY <1>4, <1>5 DEF Duplicates

LEMMA StoreEventInv ==
  ASSUME IInv, NEW event \in Event, mode = "available",
         ~Duplicates(Reconciled(event), event), StoreEvent(event),
         UNCHANGED <<now, faults, mode, pending>>
  PROVE  IInv'
  <1> DEFINE all == Reconciled(event)
             guards == {g \in Guards(all, now) : g.id # event.id}
             db == [Recorded(store, event) EXCEPT !.guards = guards]
             left == Forget(Pruned(all, now), Retired(db))
  <1>1. DbOK(store) /\ now \in Nat /\ event \in Contents
    BY EventType DEF IInv, Types
  <1>2. IsTable(identities) /\ Accepted(store) \subseteq identities
    BY DEF IInv, Types, MemoryCoversStore
  <1>3. IsTable(all) /\ all \subseteq identities /\ \A i \in identities : i.id # event.id => i \in all
    BY ReconciledType
  <1>4. IsGuards(guards) /\ Cardinality(guards) <= EntryLimit /\ event.id \notin Ids(guards)
        /\ guards \subseteq Guards(all, now) /\ guards \subseteq all
    <2> DEFINE G == Guards(all, now)
    <2>1. IsGuards(G) /\ Cardinality(G) <= EntryLimit /\ G \subseteq all
      BY <1>3, GuardsType
    <2>2. guards \in SUBSET G
      OBVIOUS
    <2>3. IsFiniteSet(guards) /\ Cardinality(guards) <= Cardinality(G)
      BY <2>1, <2>2, FS_Subset DEF IsGuards
    <2>4. Cardinality(guards) \in Nat /\ Cardinality(G) \in Nat
      BY <2>1, <2>3, FS_CardinalityType DEF IsGuards
    <2>5. Cardinality(guards) <= EntryLimit
      <3> HIDE DEF guards, G
      <3> QED BY <2>1, <2>3, <2>4, LimitAssumption
    <2> HIDE DEF G
    <2> QED BY <2>1, <2>2, <2>3, <2>5 DEF IsGuards, Unique, Ids
  <1>5. Ids(guards) \cap Ids(store.accepted) = {}
    <2> SUFFICES ASSUME NEW g \in guards, NEW a \in store.accepted, g.id = a.id PROVE FALSE
      BY DEF Ids
    <2>1. g \in identities /\ ~g.durable
      BY <1>3, <1>4 DEF IsGuards, VolatileOf
    <2>2. Durable(a) \in identities /\ Durable(a).id = a.id /\ Durable(a).durable
      BY <1>2 DEF Accepted, Durable
    <2> QED BY <1>2, <2>1, <2>2 DEF IsTable, Unique
  <1>6. \A row \in store.rows : InAge(row.print) => row.id # event.id
    BY NewEventHasNoRecord
  <1> HIDE DEF guards
  <1>7. /\ Committable(db) /\ db.guards = guards
        /\ db.accepted = {a \in store.accepted : a.id # event.id} \cup {Content(event)}
    BY <1>1, <1>4, <1>5, <1>6, RecordedIsCommittable
  <1>8. store' = Committed(db)
    BY DEF StoreEvent, guards
  <1>9. identities' = IF event.id \in Retired(db) THEN left ELSE Put(left, Durable(event))
    BY DEF StoreEvent, Take, guards
  <1> HIDE DEF db, all
  <1>10. DbOK(store') /\ store'.guards = guards /\ store'.accepted \subseteq db.accepted
    BY <1>7, <1>8, CommittedOK
  <1>11. IsTable(Pruned(all, now)) /\ \A i \in all : i.durable => i \in Pruned(all, now)
    BY <1>3, PrunedType
  <1>12. IsTable(left)
    BY <1>11, ForgetType
  <1>13. Durable(event) \in Identities /\ Durable(event).id = event.id
    BY <1>1, TakenType
  <1> HIDE DEF left
  <1>14. IsTable(identities')
    BY <1>9, <1>12, <1>13, PutType
  <1>15. ASSUME NEW a \in store'.accepted PROVE Durable(a) \in identities'
    <2>1. a \in Committed(db).accepted /\ a \in db.accepted
      BY <1>8, <1>10
    <2>2. CASE a.id # event.id
      <3>1. a \in store.accepted
        BY <1>7, <2>1, <2>2 DEF Content
      <3>2. Durable(a) \in identities /\ Durable(a).id = a.id /\ Durable(a).durable
        BY <1>2, <3>1 DEF Accepted, Durable
      <3>3. Durable(a) \in Pruned(all, now)
        BY <1>3, <1>11, <2>2, <3>2
      <3>4. Durable(a) \in left
        BY <1>7, <1>11, <2>1, <3>3, ForgetRetired DEF left
      <3> QED BY <1>9, <1>12, <1>13, <2>2, <3>2, <3>4, PutType
    <2>3. CASE a.id = event.id
      <3>1. a = Content(event)
        BY <1>7, <2>1, <2>3
      <3>2. event.id \notin Retired(db)
        BY <2>1, <2>3 DEF Retired, Ids
      <3>3. Durable(a) = Durable(event)
        BY <3>1 DEF Durable, Content
      <3> QED BY <1>9, <1>12, <1>13, <3>2, <3>3, PutType
    <2> QED BY <2>2, <2>3
  <1>16. ASSUME NEW guard \in Unexpired(store'.guards, now) PROVE Covered(identities', guard)
    <2>1. guard \in guards /\ ~guard.durable
      BY <1>10 DEF Unexpired
    <2>2. guard \in Pruned(all, now) /\ guard.id # event.id
      BY <1>4, <2>1 DEF Pruned, Ids
    <2>3. guard \in left
      BY <1>11, <2>1, <2>2, ForgetType DEF left
    <2>4. guard \in identities'
      BY <1>9, <1>12, <1>13, <2>2, <2>3, PutType
    <2> QED BY <2>4 DEF Covered
  <1>17. MemoryCoversStore'
    BY <1>15, <1>16, Covering
  <1>18. PendingIsNew'
    BY DEF IInv, PendingIsNew, Ids
  <1> QED BY <1>10, <1>14, <1>17, <1>18 DEF IInv, Types

LEMMA VolatilelyType ==
  ASSUME NEW all, IsTable(all), NEW event \in Contents, now \in Nat, Volatilely(all, event)
  PROVE  IsTable(identities')
  BY PrunedType, GuardedType DEF Volatilely, Take, Refuse

\* While nothing can be stored, identities may be any.
LEMMA DegradedInv ==
  ASSUME IInv, IsTable(identities'), mode' = "degraded", UNCHANGED <<now, store>>,
         pending' = pending
  PROVE  IInv'
  BY DEF IInv, Types, PendingIsNew, MemoryCoversStore, Ids

LEMMA DeliverInv ==
  ASSUME IInv, Deliver
  PROVE  IInv'
  <1> PICK event \in Event : DeliverStored(event) \/ DeliverRolledBack(event) \/ DeliverVolatile(event)
    BY DEF Deliver
  <1>1. event \in Contents /\ now \in Nat /\ IsTable(identities)
    BY EventType DEF IInv, Types
  <1>2. CASE DeliverStored(event)
    BY <1>2, QuarantineInv, StoreEventInv DEF DeliverStored
  <1>3. CASE DeliverRolledBack(event)
    <2>1. IsTable(Reconciled(event))
      BY ReconciledType
    <2>2. IsTable(identities')
      BY <1>1, <1>3, <2>1, VolatilelyType DEF DeliverRolledBack
    <2> QED BY <1>3, <2>2, DegradedInv DEF DeliverRolledBack
  <1>4. CASE DeliverVolatile(event)
    <2>1. IsTable(identities')
      BY <1>1, <1>4, PrunedType, VolatilelyType DEF DeliverVolatile, Refuse
    <2> QED BY <1>4, <2>1, DegradedInv DEF DeliverVolatile
  <1> QED BY <1>2, <1>3, <1>4

-----------------------------------------------------------------------------
(* So do the other transactions *)

\* The checkpoint that a transaction saves.
LEMMA CheckpointIsCommittable ==
  ASSUME IInv, mode = "available"
  PROVE  LET db == [store EXCEPT !.guards = Guards(identities, now)]
         IN  Committable(db) /\ db.guards = Guards(identities, now) /\ db.accepted = store.accepted
  <1> DEFINE guards == Guards(identities, now)
  <1>1. IsTable(identities) /\ DbOK(store) /\ Accepted(store) \subseteq identities
    BY DEF IInv, Types, MemoryCoversStore
  <1>2. IsGuards(guards) /\ Cardinality(guards) <= EntryLimit
    BY <1>1, GuardsType
  <1>3. Ids(guards) \cap Ids(store.accepted) = {}
    BY <1>1, GuardsAreNew DEF Ids
  <1> HIDE DEF guards
  <1>4. /\ Committable([store EXCEPT !.guards = guards])
        /\ [store EXCEPT !.guards = guards].guards = guards
        /\ [store EXCEPT !.guards = guards].accepted = store.accepted
    BY <1>1, <1>2, <1>3, GuardsAreCommittable
  <1> QED BY <1>4 DEF guards

LEMMA CheckpointInv ==
  ASSUME IInv, SaveFreshness \/ PersistOutbox
  PROVE  IInv'
  <1> DEFINE db == [store EXCEPT !.guards = Guards(identities, now)]
  <1>1. mode = "available" /\ UNCHANGED <<now, mode, pending>> /\ store' = Committed(db)
    BY DEF SaveFreshness, PersistOutbox
  <1>2. Committable(db) /\ db.guards = Guards(identities, now) /\ db.accepted = store.accepted
    BY <1>1, CheckpointIsCommittable
  <1>3. identities' = identities \/ identities' = Forget(identities, Retired(db))
    BY DEF SaveFreshness, PersistOutbox
  <1> HIDE DEF db
  <1>4. DbOK(store') /\ store'.guards = db.guards /\ store'.accepted \subseteq store.accepted
    BY <1>1, <1>2, CommittedOK
  <1>5. IsTable(identities) /\ Accepted(store) \subseteq identities
    BY <1>1 DEF IInv, Types, MemoryCoversStore
  <1>6. IsTable(identities')
    BY <1>3, <1>5, ForgetType
  <1>7. ASSUME NEW a \in store'.accepted PROVE Durable(a) \in identities'
    <2>1. Durable(a) \in identities
      BY <1>4, <1>5 DEF Accepted
    <2>2. Durable(a) \in Forget(identities, Retired(db))
      BY <1>1, <1>2, <1>5, <2>1, ForgetRetired
    <2> QED BY <1>3, <2>1, <2>2
  <1>8. ASSUME NEW guard \in Unexpired(store'.guards, now) PROVE Covered(identities', guard)
    <2>1. guard \in Guards(identities, now) /\ ~guard.durable
      BY <1>2, <1>4 DEF Unexpired
    <2>2. guard \in identities
      BY <1>5, <2>1, GuardsType
    <2>3. guard \in Forget(identities, Retired(db))
      BY <1>5, <2>1, <2>2, ForgetType
    <2> QED BY <1>3, <2>2, <2>3 DEF Covered
  <1>9. MemoryCoversStore'
    BY <1>1, <1>7, <1>8, Covering
  <1>10. PendingIsNew'
    BY <1>1 DEF IInv, PendingIsNew, Ids
  <1> QED BY <1>1, <1>4, <1>6, <1>9, <1>10 DEF IInv, Types

LEMMA ReadHistoryInv ==
  ASSUME IInv, ReadHistory
  PROVE  IInv'
  <1>1. DbOK(store) /\ Committable(store)
    BY SameIsCommittable DEF IInv
  <1>2. DbOK(store') /\ store'.guards = store.guards /\ store'.accepted \subseteq store.accepted
    BY <1>1, CommittedOK DEF ReadHistory
  <1>3. mode = "available" /\ UNCHANGED <<now, mode, identities, pending>>
    BY DEF ReadHistory
  <1>4. ASSUME NEW a \in store'.accepted PROVE Durable(a) \in identities'
    BY <1>2, <1>3 DEF IInv, MemoryCoversStore, Accepted
  <1>5. ASSUME NEW guard \in Unexpired(store'.guards, now) PROVE Covered(identities', guard)
    BY <1>2, <1>3 DEF IInv, MemoryCoversStore, Covered, Displaced
  <1>6. MemoryCoversStore'
    BY <1>3, <1>4, <1>5, Covering
  <1>7. PendingIsNew'
    BY <1>3 DEF IInv, PendingIsNew, Ids
  <1> QED BY <1>2, <1>3, <1>6, <1>7 DEF IInv, Types

-----------------------------------------------------------------------------
(* So do startup and recovery *)

LEMMA AcceptedType ==
  ASSUME NEW db \in Databases, Unique(db.accepted)
  PROVE  /\ Accepted(db) \subseteq Identities /\ \A i \in Accepted(db) : i.durable
         /\ Unique(Accepted(db)) /\ Ids(Accepted(db)) = Ids(db.accepted)
  <1>1. \A a \in db.accepted : Durable(a) \in Identities /\ Durable(a).id = a.id /\ Durable(a).durable
    BY TakenType DEF Databases, Durable, Identities, Contents
  <1> QED BY <1>1 DEF Accepted, Unique, Ids

LEMMA RestoredType ==
  ASSUME NEW db, DbOK(db)
  PROVE  IsTable(Restored(db)) /\ IsTable(db.guards) /\ db.guards \subseteq Restored(db)
  <1>1. /\ Accepted(db) \subseteq Identities /\ \A i \in Accepted(db) : i.durable
        /\ Unique(Accepted(db)) /\ Ids(Accepted(db)) = Ids(db.accepted)
    BY AcceptedType, SameIsCommittable DEF Committable
  <1>2. db.guards \in SUBSET Identities /\ (\A g \in db.guards : ~g.durable) /\ IsFiniteSet(db.guards)
        /\ Unique(db.guards) /\ \A g \in db.guards : g.id \notin Ids(db.accepted)
    BY DEF DbOK, IsGuards, VolatileOf, Ids
  <1>3. Restored(db) = db.guards \cup Accepted(db)
    BY <1>2 DEF Restored
  <1>4. VolatileOf(Restored(db)) = db.guards /\ VolatileOf(db.guards) = db.guards
    BY <1>1, <1>2, <1>3 DEF VolatileOf
  <1>5. Unique(Restored(db))
    <2>1. \A g \in db.guards, i \in Accepted(db) : g.id # i.id
      BY <1>1, <1>2 DEF Ids
    <2> QED BY <1>1, <1>2, <1>3, <2>1 DEF Unique
  <1> QED BY <1>1, <1>2, <1>3, <1>4, <1>5 DEF IsTable

LEMMA StartAvailableInv ==
  ASSUME IInv, StartAvailable
  PROVE  IInv'
  <1>1. DbOK(store')
    BY SameIsCommittable, CommittedOK DEF IInv, StartAvailable
  <1>2. identities' = Restored(store') /\ UNCHANGED <<now, pending>> /\ mode' = "available"
    BY DEF StartAvailable
  <1>3. IsTable(identities') /\ store'.guards \subseteq identities'
    BY <1>1, <1>2, RestoredType
  <1>4. \A a \in store'.accepted : Durable(a) \in identities'
    BY <1>2 DEF Restored, Accepted
  <1>5. \A guard \in Unexpired(store'.guards, now) : Covered(identities', guard)
    BY <1>3 DEF Unexpired, Covered
  <1>6. MemoryCoversStore'
    BY <1>2, <1>4, <1>5, Covering
  <1>7. pending' = {}
    BY <1>2 DEF StartAvailable, IInv, PendingIsNew
  <1>8. PendingIsNew'
    BY <1>7 DEF PendingIsNew, Ids
  <1> QED BY <1>1, <1>2, <1>3, <1>6, <1>7, <1>8 DEF IInv, Types

LEMMA EmptyIsTable == IsTable({})
  BY FS_EmptySet, VolatileOf({}) = {} DEF IsTable, VolatileOf, Unique

LEMMA StartDegradedInv ==
  ASSUME IInv, StartDegraded
  PROVE  IInv'
  <1>1. mode = "down" /\ pending = {} /\ mode' = "degraded" /\ UNCHANGED <<now, store>> /\ now \in Nat
    BY DEF StartDegraded, IInv, PendingIsNew, Types
  <1>2. IsTable(store.guards) /\ IsTable(Restored(store))
    BY RestoredType DEF IInv
  <1>3. CASE IsTable(identities') /\ pending' = pending
    BY <1>1, <1>3, DegradedInv
  <1>4. ASSUME NEW read \in {store.guards, Restored(store)}, NEW closing \in Closing,
               closing.id \notin Ids(store.accepted) \cup Ids(store.guards),
               Take(closing, Guarded(read, closing)), pending' = {closing}
        PROVE  IInv'
    <2>1. IsTable(identities')
      BY <1>1, <1>2, <1>4, EventType, GuardedType DEF Take
    <2>2. PendingIsNew'
      BY <1>1, <1>4 DEF PendingIsNew, Ids
    <2> QED BY <1>1, <1>4, <2>1, <2>2 DEF IInv, Types, MemoryCoversStore
  <1> QED BY <1>2, <1>3, <1>4, EmptyIsTable DEF StartDegraded

\* Of the takings of an id, those before which there is none.
FirstTaken(restored, live) ==
  LET all == Unexpired(restored \cup live, now)
  IN  {g \in all : \A h \in all : h.id = g.id =>
                      g.at < h.at \/ (g.at = h.at /\ (g = h \/ g \in restored))}

LEMMA FirstType ==
  ASSUME NEW restored, IsGuards(restored), NEW live, IsGuards(live)
  PROVE  IsGuards(FirstTaken(restored, live)) /\ FirstTaken(restored, live) \subseteq restored \cup live
  <1> DEFINE both == restored \cup live
             all == Unexpired(both, now)
             First(g) == \A h \in all : h.id = g.id => g.at < h.at \/ (g.at = h.at /\ (g = h \/ g \in restored))
             X == {g \in all : First(g)}
  <1>1. both \subseteq Identities /\ IsFiniteSet(both) /\ \A i \in both : ~i.durable
    BY FS_Union DEF IsGuards, VolatileOf
  <1>2. X \in SUBSET both /\ X \in SUBSET Identities /\ IsFiniteSet(X)
    <2>1. X \in SUBSET both
      BY DEF Unexpired
    <2> HIDE DEF X
    <2> QED BY <1>1, <2>1, FS_Subset
  <1>3. Unique(X)
    <2> SUFFICES ASSUME NEW a \in X, NEW b \in X, a.id = b.id PROVE a = b
      BY DEF Unique
    <2>1. a \in all /\ b \in all /\ First(a) /\ First(b) /\ a \in Identities /\ b \in Identities
      BY <1>2
    <2>2. a = b \/ (a \in restored /\ b \in restored)
      <3> HIDE DEF all
      <3>1. a.at < b.at \/ (a.at = b.at /\ (a = b \/ a \in restored))
        BY <2>1
      <3>2. b.at < a.at \/ (b.at = a.at /\ (a = b \/ b \in restored))
        BY <2>1
      <3>3. a.at \in Nat /\ b.at \in Nat
        BY <2>1 DEF Identities
      <3> QED BY <3>1, <3>2, <3>3
    <2> QED BY <2>2 DEF IsGuards, Unique
  <1>4. FirstTaken(restored, live) = X
    BY DEF FirstTaken
  <1> HIDE DEF X
  <1> QED BY <1>1, <1>2, <1>3, <1>4 DEF IsGuards, VolatileOf

LEMMA MergedType ==
  ASSUME NEW restored, IsGuards(restored), NEW live, IsGuards(live)
  PROVE  /\ MergedGuards(restored, live) = Newest(FirstTaken(restored, live))
         /\ IsGuards(MergedGuards(restored, live)) /\ Cardinality(MergedGuards(restored, live)) <= EntryLimit
  <1> DEFINE X == FirstTaken(restored, live)
  <1>1. MergedGuards(restored, live) = Newest(X)
    BY DEF MergedGuards, FirstTaken
  <1>2. IsGuards(X)
    BY FirstType
  <1> HIDE DEF X
  <1>3. X \in SUBSET Identities /\ IsFiniteSet(X) /\ Unique(X)
    BY <1>2 DEF IsGuards, VolatileOf
  <1>4. Newest(X) \in SUBSET X
    BY DEF Newest
  <1>5. Cardinality(Newest(X)) <= EntryLimit
    BY <1>3, NewestFew
  <1>6. IsFiniteSet(Newest(X))
    BY <1>3, <1>4, FS_Subset
  <1>7. IsGuards(Newest(X))
    BY <1>2, <1>4, <1>6 DEF IsGuards, Unique
  <1> QED BY <1>1, <1>5, <1>7 DEF X

\* A part of what is within the limit is.
LEMMA PartIsGuards ==
  ASSUME NEW all, IsGuards(all), Cardinality(all) <= EntryLimit, NEW part \in SUBSET all
  PROVE  IsGuards(part) /\ Cardinality(part) <= EntryLimit
  <1>1. IsFiniteSet(part) /\ IsFiniteSet(all) /\ Cardinality(part) <= Cardinality(all)
    BY FS_Subset DEF IsGuards
  <1>2. Cardinality(part) \in Nat /\ Cardinality(all) \in Nat
    BY <1>1, FS_CardinalityType
  <1>3. Cardinality(part) <= EntryLimit
    BY <1>1, <1>2, LimitAssumption
  <1> QED BY <1>1, <1>3 DEF IsGuards, Unique

LEMMA RecoveredType ==
  ASSUME IInv
  PROVE  /\ IsGuards(RecoveredGuards) /\ Cardinality(RecoveredGuards) <= EntryLimit
         /\ Ids(RecoveredGuards) \cap Ids(store.accepted) = {}
         /\ Ids(RecoveredGuards) \cap Ids(pending) = {}
  <1> DEFINE merged == MergedGuards(store.guards, Guards(identities, now))
  <1>1. IsGuards(store.guards) /\ IsGuards(Guards(identities, now))
    BY GuardsType DEF IInv, Types, DbOK
  <1>2. IsGuards(merged) /\ Cardinality(merged) <= EntryLimit
    BY <1>1, MergedType
  <1>3. RecoveredGuards \in SUBSET merged
        /\ \A g \in RecoveredGuards : g.id \notin Ids(store.accepted) /\ g.id \notin Ids(pending)
    BY DEF RecoveredGuards
  <1> HIDE DEF merged
  <1>4. IsGuards(RecoveredGuards) /\ Cardinality(RecoveredGuards) <= EntryLimit
    BY <1>2, <1>3, PartIsGuards
  <1> QED BY <1>3, <1>4 DEF Ids

LEMMA RecoverInv ==
  ASSUME IInv, Recover
  PROVE  IInv'
  <1> DEFINE guards == RecoveredGuards
             closed == IF pending = {} THEN store ELSE Recorded(store, CHOOSE closing \in pending : TRUE)
             db == [closed EXCEPT !.guards = guards]
             kept == {i \in identities : i.id \notin Ids(Accepted(db) \cup guards)}
             all == kept \cup (Accepted(db) \cup guards)
  <1>1. /\ mode' = "available" /\ store' = Committed(db) /\ pending' = {} /\ now' = now
        /\ identities' = Forget(Pruned(all, now), Retired(db))
    BY DEF Recover, Installed
  <1>2. /\ IsGuards(guards) /\ Cardinality(guards) <= EntryLimit
        /\ Ids(guards) \cap Ids(store.accepted) = {} /\ Ids(guards) \cap Ids(pending) = {}
    BY RecoveredType
  <1> HIDE DEF guards
  <1>3. DbOK(store) /\ IsTable(identities) /\ now \in Nat /\ pending \subseteq Closing
    BY DEF IInv, Types
  <1>4. Committable(db) /\ db.guards = guards
    <2>1. CASE pending = {}
      BY <1>2, <1>3, <2>1, GuardsAreCommittable
    <2>2. CASE pending # {}
      <3>1. PICK closing \in pending : closing = CHOOSE c \in pending : TRUE
        BY <2>2
      <3>2. closing \in Contents /\ closing.id \notin Ids(store.accepted) /\ closing.id \notin Ids(guards)
        BY <1>2, <1>3, EventType DEF IInv, PendingIsNew, Ids
      <3>3. \A row \in store.rows : row.id # closing.id
        <4>1. \A row \in store.rows : Content(row) \in store.accepted /\ Content(row).id = row.id
          BY <1>3 DEF DbOK, Content
        <4> QED BY <3>2, <4>1 DEF Ids
      <3>4. db = [Recorded(store, closing) EXCEPT !.guards = guards]
        BY <2>2, <3>1
      <3> HIDE DEF db
      <3> QED BY <1>2, <1>3, <3>2, <3>3, <3>4, RecordedIsCommittable
    <2> QED BY <2>1, <2>2
  <1> HIDE DEF db
  <1>5. DbOK(store') /\ store'.guards = guards /\ store'.accepted \subseteq db.accepted
    BY <1>1, <1>4, CommittedOK
  <1>6. /\ Accepted(db) \subseteq Identities /\ \A i \in Accepted(db) : i.durable
        /\ Unique(Accepted(db)) /\ Ids(Accepted(db)) = Ids(db.accepted)
    BY <1>4, AcceptedType DEF Committable
  <1>7. IsTable(all)
    <2>1. Ids(guards) \cap Ids(Accepted(db)) = {}
      BY <1>4, <1>6 DEF Committable
    <2>2. IsTable(kept)
      BY <1>3, PartIsTable
    <2>3. IsFiniteSet(VolatileOf(all))
      <3>1. VolatileOf(all) \in SUBSET (VolatileOf(kept) \cup guards)
        BY <1>6 DEF VolatileOf
      <3>2. IsFiniteSet(VolatileOf(kept) \cup guards)
        BY <1>2, <2>2, FS_Union DEF IsTable, IsGuards
      <3> QED BY <3>1, <3>2, FS_Subset
    <2>4. Unique(Accepted(db) \cup guards)
      BY <1>2, <1>6, <2>1 DEF IsGuards, Unique, Ids
    <2>5. \A i \in kept, j \in Accepted(db) \cup guards : i.id # j.id
      BY DEF Ids
    <2>6. Unique(all)
      BY <2>2, <2>4, <2>5 DEF IsTable, Unique
    <2>7. all \subseteq Identities
      BY <1>2, <1>3, <1>6 DEF IsTable, IsGuards, VolatileOf
    <2> QED BY <2>3, <2>6, <2>7 DEF IsTable
  <1>8. \A i \in Accepted(db) \cup guards : i \in all
    OBVIOUS
  <1> HIDE DEF all
  <1>9. IsTable(Pruned(all, now)) /\ \A i \in all : i.durable => i \in Pruned(all, now)
    BY <1>7, PrunedType
  <1>10. IsTable(identities')
    BY <1>1, <1>9, ForgetType
  <1>11. ASSUME NEW a \in store'.accepted PROVE Durable(a) \in identities'
    <2>1. a \in Committed(db).accepted /\ Durable(a) \in Accepted(db)
      BY <1>1, <1>5 DEF Accepted
    <2>2. Durable(a) \in Pruned(all, now)
      BY <1>6, <1>8, <1>9, <2>1
    <2> QED BY <1>1, <1>4, <1>9, <2>1, <2>2, ForgetRetired
  <1>12. ASSUME NEW guard \in Unexpired(store'.guards, now) PROVE Covered(identities', guard)
    <2>1. guard \in guards /\ guards \in SUBSET Identities /\ guard \in Unexpired(guards, now)
      BY <1>2, <1>5 DEF Unexpired, IsGuards, VolatileOf
    <2>2. Covered(all, guard)
      BY <1>8, <2>1 DEF Covered
    <2>3. Covered(Pruned(all, now), guard)
      BY <1>7, <2>1, <2>2, PrunedCovers
    <2> QED BY <1>1, <2>1, <2>3, ForgetCovers
  <1>13. MemoryCoversStore'
    BY <1>1, <1>11, <1>12, Covering
  <1>14. PendingIsNew'
    BY <1>1 DEF PendingIsNew, Ids
  <1> QED BY <1>1, <1>5, <1>10, <1>13, <1>14 DEF IInv, Types

-----------------------------------------------------------------------------
(* The invariant, and what it implies *)

\* A guard that expires is nothing to memory, and what displaces another expires after it.
LEMMA TickInv ==
  ASSUME IInv, Tick
  PROVE  IInv'
  <1>1. now' = now + 1 /\ now \in Nat /\ UNCHANGED <<mode, identities, pending, store>>
    BY DEF Tick, IInv, Types
  <1>2. MemoryCoversStore'
    <2> SUFFICES ASSUME mode = "available",
                        NEW guard \in Unexpired(store.guards, now + 1), guard \notin identities
                 PROVE  Cardinality({i \in Unexpired(identities, now + 1) : Later(i, guard)}) >= EntryLimit
      BY <1>1 DEF IInv, MemoryCoversStore, Accepted, Displaced
    <2>1. store.guards \subseteq Identities /\ identities \subseteq Identities
      BY DEF IInv, Types, IsTable, DbOK, Databases
    <2>2. guard \in Identities /\ guard.at > (now + 1) - GuardRetention /\ guard \in store.guards /\ ~guard.durable
      BY <2>1 DEF Unexpired
    <2>3. guard \in Unexpired(store.guards, now)
      BY <1>1, <2>2, AgeAssumption DEF Unexpired, Identities
    <2>4. Displaced(guard)
      BY <2>3 DEF IInv, MemoryCoversStore
    <2>5. ASSUME NEW i \in identities, Later(i, guard)
          PROVE  i.at > (now + 1) - GuardRetention /\ i.at > now - GuardRetention
      BY <1>1, <2>1, <2>2, <2>5, AgeAssumption DEF Later, Identities
    <2>6. {i \in Unexpired(identities, now + 1) : Later(i, guard)}
            = {i \in Unexpired(identities, now) : Later(i, guard)}
      <3>1. \A i \in identities : Later(i, guard) =>
              (i \in Unexpired(identities, now + 1) <=> i \in Unexpired(identities, now))
        BY <2>5 DEF Unexpired
      <3>2. Unexpired(identities, now + 1) \subseteq identities /\ Unexpired(identities, now) \subseteq identities
        BY DEF Unexpired
      <3> QED BY <3>1, <3>2
    <2> QED BY <2>4, <2>6 DEF Displaced
  <1>3. Types'
    BY <1>1 DEF IInv, Types
  <1> QED BY <1>1, <1>2, <1>3 DEF IInv, PendingIsNew

LEMMA StopInv ==
  ASSUME IInv, Stop
  PROVE  IInv'
  <1>1. /\ mode' = "down" /\ identities' = {} /\ pending' = {} /\ UNCHANGED <<now, store>>
    BY DEF Stop
  <1>2. Types' /\ DbOK(store')
    BY <1>1, EmptyIsTable DEF IInv, Types
  <1>3. PendingIsNew' /\ MemoryCoversStore'
    BY <1>1 DEF PendingIsNew, MemoryCoversStore, Ids
  <1> QED BY <1>2, <1>3 DEF IInv

LEMMA InitInv ==
  ASSUME Init
  PROVE  IInv
  <1>1. IsHistory({}) /\ IsGuards({}) /\ Cardinality({}) = 0
    BY FS_EmptySet DEF IsHistory, IsGuards, Unique
  <1>2. store = [rows |-> {}, accepted |-> {}, guards |-> {}]
    BY DEF Init
  <1>3. DbOK(store)
    <2>1. store \in Databases /\ store.rows = {} /\ store.accepted = {} /\ store.guards = {}
      BY <1>2 DEF Databases
    <2> QED BY <1>1, <2>1, LimitAssumption DEF DbOK, Unique, Ids
  <1> QED BY <1>3, EmptyIsTable DEF Init, IInv, Types, PendingIsNew, MemoryCoversStore, Ids

LEMMA NextInv ==
  ASSUME IInv, [Next]_identityVars
  PROVE  IInv'
  <1>1. CASE Deliver
    BY <1>1, DeliverInv
  <1>2. CASE SaveFreshness \/ PersistOutbox
    BY <1>2, CheckpointInv
  <1>3. CASE ReadHistory
    BY <1>3, ReadHistoryInv
  <1>4. CASE LoseStorage
    BY <1>4, DegradedInv DEF LoseStorage, IInv, Types
  <1>5. CASE StartAvailable
    BY <1>5, StartAvailableInv
  <1>6. CASE StartDegraded
    BY <1>6, StartDegradedInv
  <1>7. CASE Recover
    BY <1>7, RecoverInv
  <1>8. CASE Stop
    BY <1>8, StopInv
  <1>9. CASE Tick
    BY <1>9, TickInv
  <1>10. CASE UNCHANGED identityVars
    BY <1>10 DEF identityVars, IInv, Types, PendingIsNew, MemoryCoversStore, Displaced
  <1> QED BY <1>1, <1>2, <1>3, <1>4, <1>5, <1>6, <1>7, <1>8, <1>9, <1>10 DEF Next

THEOREM Invariance == Spec => []IInv
  BY InitInv, NextInv, PTL DEF Spec

\* The limits of the deduplicator's guards in the checkpoint (volatileGuardsForCheckpoint)
\* and of the facts kept (retireExpiredRecords) hold after every transaction, and what
\* waits for the database is the startup's.
THEOREM TypeCorrect == Spec => []TypeOK
  <1>1. IInv => TypeOK
    BY DEF IInv, Types, DbOK, TypeOK, IsTable, Unique
  <1> QED BY <1>1, Invariance, PTL

\* However often and whenever an event is redelivered, history holds at most one unretired
\* record of an id (processEvent, installRecoveredState).
THEOREM RecordedOnce == Spec => []OneRecord
  <1>1. IInv => OneRecord
    BY DEF IInv, DbOK, Unique, OneRecord
  <1> QED BY <1>1, Invariance, PTL

\* The durable identities are those of the unretired records, and no stored event is
\* guarded in the checkpoint (retireExpiredRecords, volatileGuardsForCheckpoint).
THEOREM IdentitiesAreRecords == Spec => []IdentityCoversRecord
  <1>1. IInv => IdentityCoversRecord
    BY DEF IInv, DbOK, IdentityCoversRecord
  <1> QED BY <1>1, Invariance, PTL

\* While storage is available, memory knows every identity the database would restore, or
\* has no place for it (processEvent, runFreshnessEvaluation, installRecoveredState).
THEOREM MemoryIsComplete == Spec => []MemoryCoversStore
  <1>1. IInv => MemoryCoversStore
    BY DEF IInv
  <1> QED BY <1>1, Invariance, PTL

-----------------------------------------------------------------------------
(* What an id means *)

\* The guards of the database are taken in the past, memory knows no other meaning of
\* their ids, or took it later while nothing could be stored, and the failure that waits
\* for the database is not one of their events.
Guarding ==
  /\ \A i \in identities \cup store.guards : i.at <= now
  /\ \A g \in store.guards, i \in identities :
       i.id = g.id => i = g \/ (mode # "available" /\ ~i.durable /\ i.at >= g.at)
  /\ Ids(pending) \cap Ids(store.guards) = {}

\* What limits the records keeps as many as it allows, if it drops one.
LEMMA RetainedFull ==
  ASSUME NEW rows, IsNumbered(rows), NEW row \in rows, InAge(row.print), row \notin Retained(rows)
  PROVE  Cardinality(Retained(rows)) = RecordLimit
  <1> DEFINE X == {other \in rows : InAge(other.print)}
             Above(y) == {other \in X : Newer(other, y)}
             N == Retained(rows)
             Out == X \ N
             R == {Cardinality(Above(y)) : y \in Out}
  <1>1. X \in SUBSET Rows /\ IsFiniteSet(X) /\ row \in X
    BY FS_Subset, X \in SUBSET rows DEF IsNumbered
  <1>2. N = {y \in X : Cardinality(Above(y)) < RecordLimit}
    BY DEF Retained
  <1> HIDE DEF X, N
  <1>3. ASSUME NEW y \in X PROVE Cardinality(Above(y)) \in Nat /\ IsFiniteSet(Above(y))
    BY <1>1, FS_Subset, FS_CardinalityType, Above(y) \in SUBSET X
  <1>4. ASSUME NEW a \in X, NEW b \in Above(a)
        PROVE  b \in X /\ Cardinality(Above(b)) < Cardinality(Above(a))
    BY <1>1, NewerRank
  <1> HIDE DEF Above
  <1>5. R \subseteq Nat /\ R # {}
    BY <1>1, <1>3 DEF N
  <1>6. PICK y \in Out : \A z \in Out : Cardinality(Above(y)) <= Cardinality(Above(z))
    <2>1. PICK r \in R : \A s \in R : r <= s
      BY ONLY <1>5, LeastNatural
    <2> QED BY <2>1
  <1>7. Above(y) \subseteq N
    <2> SUFFICES ASSUME NEW b \in Above(y), b \notin N PROVE FALSE
      OBVIOUS
    <2>1. b \in Out /\ Cardinality(Above(b)) < Cardinality(Above(y))
      BY <1>4
    <2>2. Cardinality(Above(b)) \in Nat /\ Cardinality(Above(y)) \in Nat
      BY <1>3, <2>1
    <2> QED BY <1>6, <2>1, <2>2
  <1>8. Cardinality(Above(y)) \in Nat /\ Cardinality(Above(y)) >= RecordLimit
    BY <1>2, <1>3, LimitAssumption
  <1>9. IsFiniteSet(N) /\ Cardinality(N) <= RecordLimit
    BY RetainedType DEF N, IsNumbered
  <1>10. Cardinality(Above(y)) <= Cardinality(N) /\ Cardinality(N) \in Nat
    BY <1>7, <1>9, FS_Subset, FS_CardinalityType
  <1> QED BY <1>8, <1>9, <1>10, LimitAssumption DEF N

\* A transaction that keeps a content drops it only for its age or for the limit.
LEMMA ContentStays ==
  ASSUME NEW db, Committable(db), NEW a \in db.accepted, NEW row \in db.rows, a = Content(row)
  PROVE  \/ a \in Committed(db).accepted
         \/ ~InAge(a.print) \/ Cardinality(Committed(db).rows) = RecordLimit
  <1> SUFFICES ASSUME InAge(a.print), Cardinality(Committed(db).rows) # RecordLimit
               PROVE  a \in Committed(db).accepted
    OBVIOUS
  <1>1. IsNumbered(db.rows) /\ a.id = row.id /\ a.print = row.print
    BY DEF Committable, Content
  <1>2. IsNumbered(Retained(db.rows))
    BY <1>1, RetainedType
  <1>3. /\ Committed(db).rows = Dense(Retained(db.rows))
        /\ Committed(db).accepted = {b \in db.accepted : b.id \in Ids(Committed(db).rows)}
    BY DEF Committed, Committable, Databases
  <1>4. Cardinality(Retained(db.rows)) # RecordLimit
    BY <1>2, <1>3, DenseType
  <1>5. row \in Retained(db.rows)
    BY <1>1, <1>4, RetainedFull
  <1>6. PICK dense \in Committed(db).rows : dense.id = row.id
    BY <1>2, <1>3, <1>5, DenseType
  <1> QED BY <1>1, <1>3, <1>6 DEF Ids

\* Of guards with an id each there are as many ids.
LEMMA IdsCount ==
  ASSUME NEW Z, IsFiniteSet(Z), NEW Y \in SUBSET Z, Unique(Y), Cardinality(Y) >= EntryLimit
  PROVE  Cardinality(Ids(Z)) >= EntryLimit
  <1> DEFINE f == [y \in Y |-> y.id]
             g == [z \in Z |-> z.id]
  <1>1. g \in Surjection(Z, Ids(Z))
    BY DEF Ids, Surjection
  <1>2. IsFiniteSet(Ids(Z))
    BY <1>1, FS_Surjection
  <1>3. f \in Injection(Y, Ids(Z))
    BY DEF Ids, Unique, Injection, IsInjective
  <1>4. IsFiniteSet(Y) /\ Cardinality(Y) <= Cardinality(Ids(Z))
    BY <1>2, <1>3, FS_Injection
  <1>5. Cardinality(Y) \in Nat /\ Cardinality(Ids(Z)) \in Nat
    BY <1>2, <1>4, FS_CardinalityType
  <1> QED BY <1>4, <1>5, LimitAssumption

\* The step keeps a meaning, or drops it for its age or for the limit on records.
Remains(bound) == bound \in Bindings(store)' \/ Retires(bound)

\* What MeaningIsKept says of one meaning.
IsKept(bound) ==
  \/ Remains(bound)
  \/ \E g \in store.guards : g.id = bound.id /\ g.at <= now' - GuardRetention
  \/ bound.id \notin Ids(store'.guards) /\ Outnumbered(bound)

\* What means something: a record, or a guard.
LEMMA BoundBy ==
  ASSUME IInv, NEW bound \in Bindings(store)
  PROVE  \/ bound \in store.accepted /\ \E row \in store.rows : bound = Content(row)
         \/ \E g \in Unexpired(store.guards, now) : bound = Content(g)
  <1>1. PICK e \in store.accepted \cup Unexpired(store.guards, now) : bound = Content(e)
    BY DEF Bindings, Content
  <1>2. CASE e \in store.accepted
    <2>1. e \in Contents /\ store.accepted = {Content(row) : row \in store.rows}
      BY <1>2 DEF IInv, DbOK, Databases
    <2>2. bound = e
      BY <1>1, <2>1 DEF Content, Contents
    <2> QED BY <1>2, <2>1, <2>2
  <1> QED BY <1>1, <1>2

\* A content that a transaction keeps.
LEMMA AcceptedRemains ==
  ASSUME IInv', now' = now, NEW db, Committable(db), store' = Committed(db),
         NEW a \in db.accepted, NEW row \in db.rows, a = Content(row),
         a \in store.accepted \/ \E event \in Event : event.id = a.id /\ StoreEvent(event)
  PROVE  Remains(a)
  <1>1. CASE a \in store'.accepted
    <2>1. Content(a) = a
      BY DEF Content
    <2> QED BY <1>1, <2>1 DEF Remains, Bindings, Content
  <1>2. CASE a \notin store'.accepted
    <2>1. ~InAge(a.print) \/ Cardinality(store'.rows) = RecordLimit
      BY <1>2, ContentStays
    <2> QED BY <2>1 DEF Remains, Retires, InAge
  <1> QED BY <1>1, <1>2

\* A guard that a transaction keeps.
LEMMA GuardRemains ==
  ASSUME now' = now, NEW g \in Unexpired(store.guards, now), g \in store'.guards
  PROVE  Remains(Content(g))
  <1>1. g \in Unexpired(store'.guards, now')
    BY DEF Unexpired
  <1> QED BY <1>1 DEF Remains, Bindings, Content

\* A transaction that stores neither records nor guards.
LEMMA PlainKeeps ==
  ASSUME IInv, IInv', now' = now, store' = store \/ store' = Committed(store),
         NEW bound \in Bindings(store)
  PROVE  IsKept(bound)
  <1>1. Committable(store)
    BY SameIsCommittable DEF IInv
  <1>2. store'.guards = store.guards
    BY <1>1, CommittedOK
  <1>3. ASSUME NEW g \in Unexpired(store.guards, now), bound = Content(g)
        PROVE  IsKept(bound)
    BY <1>2, <1>3, GuardRemains DEF IsKept, Unexpired
  <1>4. ASSUME bound \in store.accepted, NEW row \in store.rows, bound = Content(row)
        PROVE  IsKept(bound)
    <2>1. CASE store' = store
      BY <2>1 DEF IsKept, Remains, Bindings
    <2>2. CASE store' = Committed(store)
      BY <1>1, <1>4, <2>2, AcceptedRemains DEF IsKept
    <2> QED BY <2>1, <2>2
  <1> QED BY <1>3, <1>4, BoundBy

\* A guard gives way to as many guards of other events.
LEMMA CrowdedOut ==
  ASSUME IInv, NEW g \in store.guards,
         NEW Y \in SUBSET (VolatileOf(identities) \cup store.guards), Unique(Y),
         \A i \in Y : i.id # g.id /\ i.at >= g.at,
         Cardinality(Y) >= EntryLimit
  PROVE  Outnumbered(Content(g))
  <1> DEFINE Z == {i \in identities \cup store.guards : i.id # g.id /\ ~i.durable /\ i.at >= g.at}
  <1>1. \A i \in store.guards : ~i.durable
    BY DEF IInv, DbOK, IsGuards, VolatileOf
  <1>2. IsFiniteSet(VolatileOf(identities) \cup store.guards)
    BY FS_Union DEF IInv, Types, IsTable, DbOK, IsGuards
  <1>3. Z \in SUBSET (VolatileOf(identities) \cup store.guards) /\ Y \in SUBSET Z
    BY <1>1 DEF VolatileOf
  <1> HIDE DEF Z
  <1>4. IsFiniteSet(Z)
    BY <1>2, <1>3, FS_Subset
  <1>5. Cardinality(Ids(Z)) >= EntryLimit
    BY <1>3, <1>4, IdsCount
  <1> QED BY <1>5 DEF Outnumbered, Content, Z

\* A transaction that stores the guards of memory, but perhaps of one event, keeps what
\* a guard means, unless there is no place for it.
LEMMA GuardsKeep ==
  ASSUME IInv, Guarding, mode = "available", now' = now,
         store'.guards \subseteq Guards(identities, now),
         NEW g \in Unexpired(store.guards, now), g \notin Guards(identities, now)
  PROVE  IsKept(Content(g))
  <1> DEFINE X == Unexpired(identities, now)
             Y == {i \in X : Later(i, g)}
  <1>1. IsTable(identities) /\ g \in store.guards /\ g \in Identities /\ ~g.durable
        /\ g.at > now - GuardRetention
    BY DEF IInv, Types, DbOK, Databases, Unexpired
  <1>2. X \in SUBSET Identities /\ X \in SUBSET identities /\ X \in SUBSET VolatileOf(identities)
        /\ IsFiniteSet(X)
    BY <1>1, UnexpiredType DEF VolatileOf
  <1>3. \A i \in identities : i.id = g.id => i = g
    BY <1>1 DEF Guarding
  <1>4. Cardinality(Y) >= EntryLimit
    <2>1. CASE g \in identities
      <3>1. g \in X /\ g \notin Newest(X)
        BY <1>1, <2>1 DEF Unexpired, Guards
      <3>2. Cardinality(Y) \in Nat
        BY <1>2, FS_Subset, FS_CardinalityType, Y \in SUBSET X
      <3> QED BY <3>1, <3>2, LimitAssumption DEF Newest
    <2>2. CASE g \notin identities
      BY <2>2 DEF IInv, MemoryCoversStore, Displaced
    <2> QED BY <2>1, <2>2
  <1>5. Y \in SUBSET (VolatileOf(identities) \cup store.guards) /\ Unique(Y)
    BY <1>1, <1>2 DEF IsTable, Unique
  <1>6. ASSUME NEW i \in Y PROVE i.id # g.id /\ i.at >= g.at
    <2>1. i \in Identities /\ i \in identities /\ Later(i, g)
      BY <1>2
    <2>2. i # g /\ i.at >= g.at
      BY <1>1, <2>1 DEF Later, Identities
    <2> QED BY <1>3, <2>1, <2>2
  <1>7. Outnumbered(Content(g))
    <2> HIDE DEF Y
    <2> QED BY <1>1, <1>4, <1>5, <1>6, CrowdedOut
  <1>8. g.id \notin Ids(store'.guards)
    <2>1. \A i \in store'.guards : i \in identities /\ i \in Guards(identities, now)
      BY <1>1, GuardsType
    <2> QED BY <1>3, <2>1 DEF Ids
  <1> QED BY <1>7, <1>8 DEF IsKept, Content

LEMMA CheckpointKeeps ==
  ASSUME IInv, IInv', Guarding, SaveFreshness \/ PersistOutbox, NEW bound \in Bindings(store)
  PROVE  IsKept(bound)
  <1> DEFINE db == [store EXCEPT !.guards = Guards(identities, now)]
  <1>1. mode = "available" /\ now' = now /\ store' = Committed(db)
    BY DEF SaveFreshness, PersistOutbox
  <1>2. /\ Committable(db) /\ db.guards = Guards(identities, now) /\ db.accepted = store.accepted
        /\ db.rows = store.rows
    BY <1>1, CheckpointIsCommittable DEF IInv, DbOK, Databases
  <1> HIDE DEF db
  <1>3. store'.guards = Guards(identities, now)
    BY <1>1, <1>2, CommittedOK
  <1>4. ASSUME bound \in store.accepted, NEW row \in store.rows, bound = Content(row)
        PROVE  IsKept(bound)
    BY <1>1, <1>2, <1>4, AcceptedRemains DEF IsKept
  <1>5. ASSUME NEW g \in Unexpired(store.guards, now), bound = Content(g)
        PROVE  IsKept(bound)
    <2>1. CASE g \in Guards(identities, now)
      BY <1>1, <1>3, <1>5, <2>1, GuardRemains DEF IsKept
    <2>2. CASE g \notin Guards(identities, now)
      BY <1>1, <1>3, <1>5, <2>2, GuardsKeep
    <2> QED BY <2>1, <2>2
  <1> QED BY <1>4, <1>5, BoundBy

\* An event that is guarded is stored only with the content that it is guarded with.
LEMMA StoreEventKeeps ==
  ASSUME IInv, IInv', Guarding, NEW event \in Event, mode = "available", now' = now,
         ~Duplicates(Reconciled(event), event), ~Conflicts(Reconciled(event), event),
         StoreEvent(event), NEW bound \in Bindings(store)
  PROVE  IsKept(bound)
  <1> DEFINE all == Reconciled(event)
             guards == {g \in Guards(all, now) : g.id # event.id}
             db == [Recorded(store, event) EXCEPT !.guards = guards]
  <1>1. event \in Contents /\ IsTable(identities) /\ DbOK(store) /\ DbOK(store')
    BY EventType DEF IInv, Types
  <1>2. Unexpired(all, now) = Unexpired(identities, now)
    BY DEF Reconciled, Forget, Unexpired
  <1>3. Guards(all, now) = Guards(identities, now) /\ Guards(all, now) \subseteq Pruned(all, now)
    BY <1>2 DEF Guards, Pruned
  <1>4. store' = Committed(db)
    BY DEF StoreEvent
  <1>5. \A row \in store.rows : InAge(row.print) => row.id # event.id
    BY NewEventHasNoRecord
  <1>6. /\ IsTable(all) /\ all \subseteq identities
    BY ReconciledType
  <1>7. IsGuards(guards) /\ Cardinality(guards) <= EntryLimit /\ event.id \notin Ids(guards)
        /\ Ids(guards) \cap Ids(store.accepted) = {}
    <2>1. IsGuards(Guards(all, now)) /\ Cardinality(Guards(all, now)) <= EntryLimit
      BY <1>6, GuardsType
    <2>2. guards \in SUBSET Guards(all, now) /\ event.id \notin Ids(guards)
      BY DEF Ids
    <2>3. Ids(guards) \cap Ids(store.accepted) = {}
      BY <1>1, <1>3, GuardsAreNew DEF IInv, MemoryCoversStore, Ids
    <2> HIDE DEF guards, all
    <2> QED BY <2>1, <2>2, <2>3, PartIsGuards
  <1>8. \A g \in Guards(identities, now) : g.id # event.id => g \in guards
    BY <1>3
  <1>9. guards \subseteq Guards(identities, now)
    BY <1>3
  <1> HIDE DEF guards
  <1>10. /\ Committable(db) /\ db.guards = guards
         /\ db.accepted = {a \in store.accepted : a.id # event.id} \cup {Content(event)}
         /\ store.rows \subseteq db.rows /\ \E row \in db.rows : Content(event) = Content(row)
    BY <1>1, <1>5, <1>7, RecordedIsCommittable
  <1> HIDE DEF db, all
  <1>11. store'.guards = guards
    BY <1>4, <1>10, CommittedOK
  <1>12. Remains(Content(event))
    <2>1. PICK row \in db.rows : Content(event) = Content(row)
      BY <1>10
    <2>2. Content(event) \in db.accepted /\ Content(event).id = event.id
      BY <1>10 DEF Content
    <2> QED BY <1>4, <1>10, <2>1, <2>2, AcceptedRemains
  <1>13. ASSUME bound \in store.accepted, NEW row \in store.rows, bound = Content(row)
         PROVE  IsKept(bound)
    <2>1. CASE bound.id = event.id
      <3>1. ~InAge(bound.print)
        BY <1>5, <1>13, <2>1 DEF Content
      <3> QED BY <1>13, <3>1 DEF IsKept, Remains, Retires, InAge
    <2>2. CASE bound.id # event.id
      <3>1. bound \in db.accepted /\ row \in db.rows
        BY <1>10, <1>13, <2>2
      <3> QED BY <1>4, <1>10, <1>13, <3>1, AcceptedRemains DEF IsKept
    <2> QED BY <2>1, <2>2
  <1>14. ASSUME NEW g \in Unexpired(store.guards, now), bound = Content(g)
         PROVE  IsKept(bound)
    <2>1. CASE g \in Guards(identities, now) /\ g.id = event.id
      <3>1. g \in Known(Reconciled(event), event.id, now)
        BY <1>3, <2>1 DEF Known, all
      <3>2. g.print = event.print
        BY <3>1 DEF Conflicts
      <3>3. bound = Content(event)
        BY <1>14, <2>1, <3>2 DEF Content
      <3> QED BY <1>12, <3>3 DEF IsKept
    <2>2. CASE g \in Guards(identities, now) /\ g.id # event.id
      BY <1>8, <1>11, <1>14, <2>2, GuardRemains DEF IsKept
    <2>3. CASE g \notin Guards(identities, now)
      BY <1>9, <1>11, <1>14, <2>3, GuardsKeep
    <2> QED BY <2>1, <2>2, <2>3
  <1> QED BY <1>13, <1>14, BoundBy

\* A recovery merges the guards of memory and the database: of the database's, each
\* speaks for its id, since memory took none of them before.
LEMMA RecoverKeeps ==
  ASSUME IInv, IInv', Guarding, Recover, NEW bound \in Bindings(store)
  PROVE  IsKept(bound)
  <1> DEFINE guards == RecoveredGuards
             closed == IF pending = {} THEN store ELSE Recorded(store, CHOOSE closing \in pending : TRUE)
             db == [closed EXCEPT !.guards = guards]
             live == Guards(identities, now)
             both == Unexpired(store.guards \cup live, now)
             First(g) == \A h \in both : h.id = g.id =>
                           g.at < h.at \/ (g.at = h.at /\ (g = h \/ g \in store.guards))
             X == FirstTaken(store.guards, live)
  <1>1. /\ mode = "degraded" /\ store' = Committed(db) /\ now' = now
    BY DEF Recover
  <1>2. /\ IsGuards(guards) /\ Cardinality(guards) <= EntryLimit
        /\ Ids(guards) \cap Ids(store.accepted) = {} /\ Ids(guards) \cap Ids(pending) = {}
    BY RecoveredType
  <1>3. guards = {g \in Newest(X) : g.id \notin Ids(store.accepted) \cup Ids({i \in identities : i.durable}) \cup Ids(pending)}
    BY DEF RecoveredGuards, MergedGuards, FirstTaken
  <1>4. X = {g \in both : First(g)}
    BY DEF FirstTaken
  <1> HIDE DEF guards, X
  <1>5. /\ DbOK(store) /\ IsTable(identities) /\ now \in Nat /\ pending \subseteq Closing
        /\ IsGuards(store.guards) /\ store.guards \subseteq Identities
    BY DEF IInv, Types, DbOK, Databases
  <1>6. Committable(db) /\ db.guards = guards /\ store.accepted \subseteq db.accepted /\ store.rows \subseteq db.rows
    <2>1. CASE pending = {}
      BY <1>2, <1>5, <2>1, GuardsAreCommittable
    <2>2. CASE pending # {}
      <3>1. PICK closing \in pending : closing = CHOOSE c \in pending : TRUE
        BY <2>2
      <3>2. closing \in Contents /\ closing.id \notin Ids(store.accepted) /\ closing.id \notin Ids(guards)
        BY <1>2, <1>5, EventType DEF IInv, PendingIsNew, Ids
      <3>3. \A row \in store.rows : row.id # closing.id
        <4>1. \A row \in store.rows : Content(row) \in store.accepted /\ Content(row).id = row.id
          BY <1>5 DEF DbOK, Content
        <4> QED BY <3>2, <4>1 DEF Ids
      <3>4. db = [Recorded(store, closing) EXCEPT !.guards = guards]
        BY <2>2, <3>1
      <3> HIDE DEF db
      <3>5. /\ Committable(db) /\ db.guards = guards /\ store.rows \subseteq db.rows
            /\ db.accepted = {a \in store.accepted : a.id # closing.id} \cup {Content(closing)}
        BY <1>2, <1>5, <3>2, <3>3, <3>4, RecordedIsCommittable
      <3>6. \A a \in store.accepted : a.id # closing.id
        BY <3>2 DEF Ids
      <3> QED BY <3>5, <3>6
    <2> QED BY <2>1, <2>2
  <1> HIDE DEF db
  <1>7. store'.guards = guards
    BY <1>1, <1>6, CommittedOK
  <1>8. IsGuards(X)
    BY <1>5, GuardsType, FirstType DEF X
  <1>9. ASSUME bound \in store.accepted, NEW row \in store.rows, bound = Content(row)
        PROVE  IsKept(bound)
    BY <1>1, <1>6, <1>9, AcceptedRemains DEF IsKept
  <1>10. ASSUME NEW g \in Unexpired(store.guards, now), bound = Content(g)
        PROVE  IsKept(bound)
    <2>1. g \in store.guards /\ ~g.durable /\ g \in both /\ g \in Identities
      BY <1>5 DEF Unexpired
    <2>2. live \subseteq identities /\ \A i \in live : ~i.durable
      BY <1>5, GuardsType DEF IsGuards, VolatileOf
    <2>3. both \subseteq store.guards \cup live /\ \A i \in both : ~i.durable
      BY DEF Unexpired
    <2> HIDE DEF live, both
    <2>4. ASSUME NEW h \in both, h.id = g.id PROVE h = g \/ h.at >= g.at
      <3>1. CASE h \in store.guards
        BY <1>5, <2>1, <2>4, <3>1 DEF IsGuards, Unique
      <3>2. CASE h \in identities
        BY <2>1, <2>4, <3>2 DEF Guarding
      <3> QED BY <2>2, <2>3, <3>1, <3>2
    <2>5. both \subseteq Identities
      BY <1>5, <2>2, <2>3 DEF IsTable
    <2>6. First(g)
      <3> SUFFICES ASSUME NEW h \in both, h.id = g.id
                   PROVE  g.at < h.at \/ (g.at = h.at /\ (g = h \/ g \in store.guards))
        OBVIOUS
      <3>1. h.at \in Nat /\ g.at \in Nat
        BY <2>1, <2>5 DEF Identities
      <3> QED BY <2>1, <2>4, <3>1
    <2>7. g \in X /\ X \subseteq both
      BY <1>4, <2>1, <2>6
    <2>8. ASSUME NEW h \in X, h.id = g.id PROVE h = g
      BY <1>8, <2>7, <2>8 DEF IsGuards, Unique
    <2>9. CASE g \in Newest(X)
      <3>1. g.id \notin Ids(store.accepted) /\ g.id \notin Ids(pending)
        BY <2>1 DEF IInv, DbOK, Guarding, Ids
      <3>2. g.id \notin Ids({i \in identities : i.durable})
        BY <2>1 DEF Guarding, Ids
      <3>3. g \in guards
        BY <1>3, <2>9, <3>1, <3>2
      <3> QED BY <1>1, <1>7, <1>10, <3>3, GuardRemains DEF IsKept
    <2>10. CASE g \notin Newest(X)
      <3> DEFINE Y == {i \in X : Later(i, g)}
      <3>1. IsFiniteSet(X) /\ Unique(X)
        BY <1>8 DEF IsGuards
      <3>2. Cardinality(Y) >= EntryLimit
        <4>1. Cardinality(Y) \in Nat
          BY <3>1, FS_Subset, FS_CardinalityType, Y \in SUBSET X
        <4> QED BY <2>7, <2>10, <4>1, LimitAssumption DEF Newest
      <3>3. Y \in SUBSET (VolatileOf(identities) \cup store.guards)
        BY <2>2, <2>3, <2>7 DEF VolatileOf
      <3>4. ASSUME NEW i \in Y PROVE i.id # g.id /\ i.at >= g.at
        <4>1. i \in Identities /\ i \in X /\ Later(i, g)
          BY <2>5, <2>7
        <4>2. i # g /\ i.at >= g.at
          BY <2>1, <4>1 DEF Later, Identities
        <4> QED BY <2>8, <4>1, <4>2
      <3>5. Unique(Y)
        BY <3>1 DEF Unique
      <3>6. Outnumbered(bound)
        <4> HIDE DEF Y
        <4> QED BY <1>10, <2>1, <3>2, <3>3, <3>4, <3>5, CrowdedOut
      <3>7. g.id \notin Ids(guards)
        <4>1. \A i \in guards : i \in Newest(X) /\ i \in X
          BY <1>3 DEF Newest
        <4> QED BY <2>8, <2>10, <4>1 DEF Ids
      <3> QED BY <1>7, <1>10, <3>6, <3>7 DEF IsKept, Content
    <2> QED BY <2>9, <2>10
  <1> QED BY <1>9, <1>10, BoundBy

-----------------------------------------------------------------------------
(* Guards and memory *)

LEMMA InitGuarding ==
  ASSUME Init
  PROVE  Guarding
  <1>1. store.guards = {} /\ identities = {} /\ pending = {}
    BY DEF Init
  <1> QED BY <1>1 DEF Guarding, Ids

\* A step that only forgets.
LEMMA LessGuarding ==
  ASSUME Guarding, identities' \subseteq identities, store'.guards = store.guards,
         UNCHANGED <<now, mode, pending>>
  PROVE  Guarding'
  BY DEF Guarding, Ids

\* A transaction that stores guards of memory, and perhaps records one event.
LEMMA StoredGuarding ==
  ASSUME IInv, IInv', Guarding, now' = now, pending' = {}, NEW event \in Contents,
         identities' \subseteq identities \cup {Durable(event)},
         store'.guards \subseteq VolatileOf(identities), event.id \notin Ids(store'.guards)
  PROVE  Guarding'
  <1>1. now \in Nat /\ IsTable(identities)
    BY DEF IInv, Types
  <1>2. Durable(event).id = event.id /\ Durable(event).at = 0
    BY DEF Durable
  <1>3. \A i \in identities' \cup store'.guards : i.at <= now'
    BY <1>1, <1>2 DEF Guarding, VolatileOf
  <1>4. \A g \in store'.guards, i \in identities' : i.id = g.id => i = g
    BY <1>1, <1>2 DEF IsTable, Unique, VolatileOf, Ids
  <1>5. Ids(pending') = {}
    BY DEF Ids
  <1> QED BY <1>3, <1>4, <1>5 DEF Guarding

\* While nothing can be stored, what memory takes it takes now.
LEMMA DegradedGuarding ==
  ASSUME IInv, Guarding, mode' = "degraded", UNCHANGED <<now, store, pending>>, NEW event,
         identities' \subseteq identities \cup {Volatile(event, now)}
  PROVE  Guarding'
  <1>1. /\ ~Volatile(event, now).durable /\ Volatile(event, now).at = now
    BY DEF Volatile
  <1>2. now \in Nat /\ store.guards \subseteq Identities /\ identities \subseteq Identities
        /\ \A g \in store.guards : g.at <= now
    BY DEF IInv, Types, IsTable, DbOK, Databases, Guarding
  <1>3. \A i \in identities' \cup store'.guards : i.at <= now'
    BY <1>1, <1>2 DEF Guarding
  <1>4. ASSUME NEW g \in store.guards, NEW i \in identities', i.id = g.id
        PROVE  i = g \/ (~i.durable /\ i.at >= g.at)
    <2>1. CASE i \in identities
      BY <1>4, <2>1 DEF Guarding
    <2>2. CASE i = Volatile(event, now)
      BY <1>1, <1>2, <2>2 DEF Identities
    <2> QED BY <2>1, <2>2
  <1> QED BY <1>3, <1>4 DEF Guarding

LEMMA VolatilelyTakes ==
  ASSUME NEW all, IsTable(all), all \subseteq identities, NEW event \in Contents, now \in Nat,
         Volatilely(all, event)
  PROVE  identities' \subseteq identities \cup {Volatile(event, now)}
  <1> DEFINE pruned == Pruned(all, now)
             put == Put(pruned, Volatile(event, now))
  <1>1. IsTable(pruned) /\ pruned \subseteq identities
    BY PrunedType
  <1>2. put \subseteq pruned \cup {Volatile(event, now)}
    BY DEF Put
  <1> HIDE DEF pruned
  <1>3. IsTable(put)
    BY <1>1, TakenType, PutType
  <1> HIDE DEF put
  <1>4. Pruned(put, now) \subseteq put
    BY <1>3, PrunedType
  <1>5. identities' = Pruned(put, now) \/ identities' = pruned
    BY DEF Volatilely, Take, Refuse, Guarded, pruned, put
  <1> QED BY <1>1, <1>2, <1>4, <1>5

\* The checkpoint of a transaction that stores an event.
LEMMA StoreEventGuards ==
  ASSUME IInv, NEW event, StoreEvent(event)
  PROVE  store'.guards = {g \in Guards(Reconciled(event), now) : g.id # event.id}
  <1> DEFINE guards == {g \in Guards(Reconciled(event), now) : g.id # event.id}
             recorded == Recorded(store, event)
             db == [recorded EXCEPT !.guards = guards]
  <1>1. store' = Committed(db)
    BY DEF StoreEvent
  <1> HIDE DEF guards
  <1>2. DOMAIN store = {"rows", "accepted", "guards"}
    BY DEF IInv, DbOK, Databases
  <1>3. DOMAIN recorded = {"rows", "accepted", "guards"}
    BY <1>2 DEF Recorded
  <1> HIDE DEF recorded
  <1>4. db.guards = guards /\ DOMAIN db = {"rows", "accepted", "guards"}
    BY <1>3
  <1> HIDE DEF db
  <1>5. Committed(db).guards = db.guards
    BY <1>4 DEF Committed
  <1> QED BY <1>1, <1>4, <1>5 DEF guards

LEMMA DeliverGuarding ==
  ASSUME IInv, IInv', Guarding, Deliver
  PROVE  Guarding'
  <1> PICK event \in Event : DeliverStored(event) \/ DeliverRolledBack(event) \/ DeliverVolatile(event)
    BY DEF Deliver
  <1>1. event \in Contents /\ now \in Nat /\ IsTable(identities)
    BY EventType DEF IInv, Types
  <1>2. IsTable(Reconciled(event)) /\ Reconciled(event) \subseteq identities
    BY ReconciledType
  <1>3. CASE DeliverStored(event)
    <2> DEFINE all == Reconciled(event)
               guards == {g \in Guards(all, now) : g.id # event.id}
               db == [Recorded(store, event) EXCEPT !.guards = guards]
               left == Forget(Pruned(all, now), Retired(db))
    <2>1. mode = "available" /\ UNCHANGED <<now, mode, pending>>
      BY <1>3 DEF DeliverStored
    <2>2. CASE Quarantine(event)
      <3>1. store'.guards = store.guards
        BY <2>2, CommittedOK, SameIsCommittable DEF Quarantine, IInv
      <3>2. identities' \subseteq identities
        BY <1>2, <2>2, PrunedType, ForgetType DEF Quarantine, Refuse
      <3> QED BY <2>1, <3>1, <3>2, LessGuarding
    <2>3. CASE StoreEvent(event)
      <3>1. guards \subseteq VolatileOf(identities) /\ event.id \notin Ids(guards)
        BY <1>2, GuardsType DEF IsGuards, VolatileOf, Ids
      <3>2. store'.guards = guards
        BY <2>3, StoreEventGuards
      <3>3. left \subseteq identities
        BY <1>2, PrunedType, ForgetType
      <3>4. identities' = left \/ identities' = Put(left, Durable(event))
        BY <2>3 DEF StoreEvent, Take
      <3> HIDE DEF left, guards
      <3>5. identities' \subseteq identities \cup {Durable(event)}
        BY <3>3, <3>4 DEF Put
      <3>6. pending' = {}
        BY <2>1 DEF IInv, PendingIsNew
      <3> QED BY <1>1, <2>1, <3>1, <3>2, <3>5, <3>6, StoredGuarding
    <2> QED BY <1>3, <2>2, <2>3 DEF DeliverStored
  <1>4. CASE DeliverRolledBack(event)
    <2>1. identities' \subseteq identities \cup {Volatile(event, now)}
      BY <1>1, <1>2, <1>4, VolatilelyTakes DEF DeliverRolledBack
    <2> QED BY <1>4, <2>1, DegradedGuarding DEF DeliverRolledBack
  <1>5. CASE DeliverVolatile(event)
    <2>1. identities' \subseteq identities \cup {Volatile(event, now)}
      <3>1. Pruned(identities, now) \subseteq identities
        BY <1>1, PrunedType
      <3> QED BY <1>1, <1>5, <3>1, VolatilelyTakes DEF DeliverVolatile, Refuse
    <2> QED BY <1>5, <2>1, DegradedGuarding DEF DeliverVolatile
  <1> QED BY <1>3, <1>4, <1>5

LEMMA CheckpointGuarding ==
  ASSUME IInv, Guarding, SaveFreshness \/ PersistOutbox
  PROVE  Guarding'
  <1> DEFINE db == [store EXCEPT !.guards = Guards(identities, now)]
  <1>1. mode = "available" /\ UNCHANGED <<now, mode, pending>> /\ store' = Committed(db)
    BY DEF SaveFreshness, PersistOutbox
  <1>2. Committable(db) /\ db.guards = Guards(identities, now)
    BY <1>1, CheckpointIsCommittable
  <1>3. IsTable(identities)
    BY DEF IInv, Types
  <1>4. identities' \subseteq identities
    BY <1>3, ForgetType DEF SaveFreshness, PersistOutbox
  <1> HIDE DEF db
  <1>5. store'.guards \subseteq identities
    BY <1>1, <1>2, <1>3, CommittedOK, GuardsType
  <1>6. \A g \in store'.guards, i \in identities' : i.id = g.id => i = g
    BY <1>3, <1>4, <1>5 DEF IsTable, Unique
  <1>7. Ids(pending') = {}
    BY <1>1 DEF IInv, PendingIsNew, Ids
  <1> QED BY <1>1, <1>4, <1>5, <1>6, <1>7 DEF Guarding

\* What a database restores.
LEMMA RestoredGuarding ==
  ASSUME IInv, Guarding, NEW i \in Restored(store)
  PROVE  /\ i.at <= now
         /\ \A g \in store.guards : i.id = g.id => i = g
  <1>1. now \in Nat /\ DbOK(store)
    BY DEF IInv, Types
  <1>2. CASE i \in store.guards
    BY <1>1, <1>2 DEF Guarding, DbOK, IsGuards, Unique
  <1>3. ASSUME NEW a \in store.accepted, i = Durable(a)
        PROVE  i.at <= now /\ \A g \in store.guards : i.id # g.id
    BY <1>1, <1>3 DEF Durable, DbOK, Ids
  <1> QED BY <1>2, <1>3 DEF Restored, Accepted

LEMMA StartAvailableGuarding ==
  ASSUME IInv, Guarding, StartAvailable
  PROVE  Guarding'
  <1> PICK db \in {store, Committed(store)} : store' = db /\ identities' = Restored(db)
    BY DEF StartAvailable
  <1>1. DbOK(store) /\ now' = now /\ pending' = {}
    BY DEF StartAvailable, IInv, PendingIsNew
  <1>2. DbOK(db) /\ db.guards = store.guards /\ db.accepted \subseteq store.accepted
    BY <1>1, CommittedOK, SameIsCommittable
  <1>3. ASSUME NEW i \in Restored(db)
        PROVE  i.at <= now /\ \A g \in store.guards : i.id = g.id => i = g
    <2>1. CASE i \in store.guards
      BY <1>1, <2>1 DEF Guarding, DbOK, IsGuards, Unique
    <2>2. CASE i \in Accepted(db)
      <3>1. i \in Restored(store)
        BY <1>2, <2>2 DEF Restored, Accepted
      <3> QED BY <3>1, RestoredGuarding
    <2> QED BY <1>2, <2>1, <2>2 DEF Restored
  <1>4. \A g \in store.guards : g.at <= now
    BY DEF Guarding
  <1> QED BY <1>1, <1>2, <1>3, <1>4 DEF Guarding, Ids

LEMMA StartDegradedGuarding ==
  ASSUME IInv, Guarding, StartDegraded
  PROVE  Guarding'
  <1>1. mode' = "degraded" /\ UNCHANGED <<now, store>> /\ now \in Nat /\ DbOK(store) /\ pending = {}
    BY DEF StartDegraded, IInv, Types, PendingIsNew
  <1>2. \A g \in store.guards : g.at <= now
    BY DEF Guarding
  <1>3. CASE identities' = {} /\ pending' = pending
    BY <1>1, <1>2, <1>3 DEF Guarding, Ids
  <1>4. ASSUME NEW read \in {store.guards, Restored(store)}, NEW i \in read
        PROVE  i.at <= now /\ \A g \in store.guards : i.id = g.id => i = g
    BY <1>1, <1>2, <1>4, RestoredGuarding DEF DbOK, IsGuards, Unique
  <1>5. ASSUME NEW read \in {store.guards, Restored(store)}, identities' = read, pending' = pending
        PROVE  Guarding'
    BY <1>1, <1>2, <1>4, <1>5 DEF Guarding, Ids
  <1>6. ASSUME NEW read \in {store.guards, Restored(store)}, NEW closing \in Closing,
               closing.id \notin Ids(store.accepted) \cup Ids(store.guards),
               Take(closing, Guarded(read, closing)), pending' = {closing}
        PROVE  Guarding'
    <2> DEFINE put == Put(read, Volatile(closing, now))
    <2>1. IsTable(read) /\ closing \in Contents
      BY <1>1, RestoredType, EventType
    <2>2. IsTable(put) /\ put \subseteq read \cup {Volatile(closing, now)}
      BY <1>1, <2>1, TakenType, PutType DEF Put
    <2> HIDE DEF put
    <2>3. identities' \subseteq put
      BY <1>6, <2>2, PrunedType DEF Take, Guarded, put
    <2>4. Volatile(closing, now).at = now /\ Volatile(closing, now).id = closing.id
      BY DEF Volatile
    <2>5. ASSUME NEW i \in identities'
          PROVE  i.at <= now /\ \A g \in store.guards : i.id = g.id => i = g
      <3>1. CASE i \in read
        BY <1>4, <3>1
      <3>2. CASE i = Volatile(closing, now)
        BY <1>1, <1>6, <2>4, <3>2 DEF Ids
      <3> QED BY <2>2, <2>3, <3>1, <3>2
    <2>6. Ids({closing}) \cap Ids(store.guards) = {}
      BY <1>6 DEF Ids
    <2> QED BY <1>1, <1>2, <1>6, <2>5, <2>6 DEF Guarding
  <1> QED BY <1>3, <1>5, <1>6 DEF StartDegraded

LEMMA RecoverGuarding ==
  ASSUME IInv, IInv', Guarding, Recover
  PROVE  Guarding'
  <1> DEFINE guards == RecoveredGuards
             closed == IF pending = {} THEN store ELSE Recorded(store, CHOOSE closing \in pending : TRUE)
             db == [closed EXCEPT !.guards = guards]
             kept == {i \in identities : i.id \notin Ids(Accepted(db) \cup guards)}
             all == kept \cup (Accepted(db) \cup guards)
  <1>1. /\ now' = now /\ pending' = {} /\ store' = Committed(db)
        /\ identities' = Forget(Pruned(all, now), Retired(db))
    BY DEF Recover, Installed
  <1>2. /\ now \in Nat /\ IsTable(identities) /\ IsGuards(store.guards) /\ pending \subseteq Closing
        /\ DOMAIN store = {"rows", "accepted", "guards"}
        /\ store.accepted \subseteq Contents
    BY DEF IInv, Types, DbOK, Databases
  <1>3. IsGuards(guards) /\ Ids(guards) \cap Ids(store.accepted) = {} /\ Ids(guards) \cap Ids(pending) = {}
    BY RecoveredType
  <1>4. \A g \in guards : g \in store.guards \/ g \in identities
    <2>1. IsGuards(Guards(identities, now)) /\ Guards(identities, now) \subseteq identities
      BY <1>2, GuardsType
    <2>2. FirstTaken(store.guards, Guards(identities, now)) \subseteq store.guards \cup identities
      BY <1>2, <2>1, FirstType
    <2>3. guards \subseteq Newest(FirstTaken(store.guards, Guards(identities, now)))
      BY <1>2, <2>1, MergedType DEF RecoveredGuards
    <2> QED BY <2>2, <2>3 DEF Newest
  <1> HIDE DEF guards
  <1>5. /\ db.guards = guards /\ DOMAIN db = {"rows", "accepted", "guards"}
        /\ db.accepted \subseteq store.accepted \cup {Content(closing) : closing \in pending}
    <2>1. CASE pending = {}
      BY <1>2, <2>1
    <2>2. CASE pending # {}
      <3>1. PICK closing \in pending : closing = CHOOSE c \in pending : TRUE
        BY <2>2
      <3> DEFINE recorded == Recorded(store, closing)
      <3>2. /\ DOMAIN recorded = {"rows", "accepted", "guards"}
            /\ recorded.accepted \subseteq store.accepted \cup {Content(closing)}
        BY <1>2 DEF Recorded
      <3>3. db = [recorded EXCEPT !.guards = guards]
        BY <2>2, <3>1
      <3> HIDE DEF recorded, db
      <3> QED BY <3>2, <3>3
    <2> QED BY <2>1, <2>2
  <1> HIDE DEF db
  <1>6. store'.guards = guards
    BY <1>1, <1>5 DEF Committed
  <1>7. ASSUME NEW i \in Accepted(db)
        PROVE  i.at <= now /\ \A g \in guards : i.id # g.id
    <2>1. PICK a \in db.accepted : i = Durable(a)
      BY DEF Accepted
    <2>2. i.at = 0 /\ i.id = a.id
      BY <2>1 DEF Durable
    <2>3. a.id \in Ids(store.accepted) \cup Ids(pending)
      BY <1>5, <2>1 DEF Ids, Content
    <2> QED BY <1>2, <1>3, <2>2, <2>3 DEF Ids
  <1>8. \A i \in all : (\A g \in guards : i.id = g.id => i = g) /\ i.at <= now
    <2>1. ASSUME NEW i \in kept PROVE i.at <= now /\ \A g \in guards : i.id # g.id
      BY DEF Guarding, Ids
    <2>2. ASSUME NEW i \in guards PROVE i.at <= now /\ \A g \in guards : i.id = g.id => i = g
      BY <1>3, <1>4 DEF Guarding, IsGuards, Unique
    <2> HIDE DEF kept
    <2> QED BY <1>7, <2>1, <2>2
  <1>9. identities' \subseteq all
    <2> HIDE DEF all
    <2> QED BY <1>1 DEF Forget, Pruned, Guards, Newest, Unexpired
  <1> HIDE DEF all
  <1>10. \A g \in guards : g.at <= now
    BY <1>4 DEF Guarding
  <1> QED BY <1>1, <1>6, <1>8, <1>9, <1>10 DEF Guarding, Ids

LEMMA NextGuarding ==
  ASSUME IInv, IInv', Guarding, [Next]_identityVars
  PROVE  Guarding'
  <1>1. CASE Deliver
    BY <1>1, DeliverGuarding
  <1>2. CASE SaveFreshness \/ PersistOutbox
    BY <1>2, CheckpointGuarding
  <1>3. CASE ReadHistory
    BY <1>3, LessGuarding, CommittedOK, SameIsCommittable DEF ReadHistory, IInv
  <1>4. CASE LoseStorage
    BY <1>4 DEF LoseStorage, Guarding
  <1>5. CASE StartAvailable \/ StartDegraded
    BY <1>5, StartAvailableGuarding, StartDegradedGuarding
  <1>6. CASE Recover
    BY <1>6, RecoverGuarding
  <1>7. CASE Stop
    BY <1>7 DEF Stop, Guarding, Ids
  <1>8. CASE Tick
    <2>1. UNCHANGED <<mode, identities, pending, store>> /\ now' = now + 1 /\ now \in Nat
      BY <1>8 DEF Tick, IInv, Types
    <2>2. \A i \in identities \cup store.guards : i.at \in Nat
      BY DEF IInv, Types, IsTable, DbOK, Databases, Identities
    <2> QED BY <2>1, <2>2 DEF Guarding
  <1>9. CASE UNCHANGED identityVars
    BY <1>9 DEF identityVars, Guarding
  <1> QED BY <1>1, <1>2, <1>3, <1>4, <1>5, <1>6, <1>7, <1>8, <1>9 DEF Next

\* Memory never takes an id for something else than a guard of the database says, unless
\* later and without storage.
THEOREM GuardingInvariance == Spec => []Guarding
  <1>1. Init => Guarding
    BY InitGuarding
  <1>2. IInv /\ IInv' /\ Guarding /\ [Next]_identityVars => Guarding'
    BY NextGuarding
  <1> QED BY <1>1, <1>2, Invariance, PTL DEF Spec

LEMMA NextKeeps ==
  ASSUME IInv, IInv', Guarding, Next, NEW bound \in Bindings(store)
  PROVE  IsKept(bound)
  <1>1. CASE Deliver
    <2> PICK event \in Event : DeliverStored(event) \/ DeliverRolledBack(event) \/ DeliverVolatile(event)
      BY <1>1 DEF Deliver
    <2>1. CASE DeliverStored(event) /\ Quarantine(event)
      BY <2>1, PlainKeeps DEF DeliverStored, Quarantine
    <2>2. CASE DeliverStored(event) /\ ~Quarantine(event)
      BY <2>2, StoreEventKeeps DEF DeliverStored
    <2>3. CASE DeliverRolledBack(event) \/ DeliverVolatile(event)
      BY <2>3, PlainKeeps DEF DeliverRolledBack, DeliverVolatile
    <2> QED BY <2>1, <2>2, <2>3
  <1>2. CASE SaveFreshness \/ PersistOutbox
    BY <1>2, CheckpointKeeps
  <1>3. CASE ReadHistory \/ LoseStorage
    BY <1>3, PlainKeeps DEF ReadHistory, LoseStorage
  <1>4. CASE StartAvailable \/ StartDegraded \/ Stop
    BY <1>4, PlainKeeps DEF StartAvailable, StartDegraded, Stop
  <1>5. CASE Recover
    BY <1>5, RecoverKeeps
  <1>6. CASE Tick
    <2>1. store' = store
      BY <1>6 DEF Tick
    <2>2. CASE bound \in store.accepted
      <3>1. bound = Content(bound)
        BY <2>2 DEF IInv, DbOK, Databases, Contents, Content
      <3> QED BY <2>1, <2>2, <3>1 DEF IsKept, Remains, Bindings, Content
    <2>3. ASSUME NEW g \in Unexpired(store.guards, now), bound = Content(g)
          PROVE  IsKept(bound)
      <3>1. g \in store.guards /\ g.at \in Nat /\ ~g.durable /\ g.id = bound.id
        BY <2>3 DEF Unexpired, IInv, DbOK, Databases, Identities, Content
      <3>2. CASE g \in Unexpired(store.guards, now')
        BY <2>1, <2>3, <3>2 DEF IsKept, Remains, Bindings, Content
      <3>3. CASE g \notin Unexpired(store.guards, now')
        <4>1. now' \in Int
          BY <1>6 DEF Tick, IInv, Types
        <4>2. g.at <= now' - GuardRetention
          BY <3>1, <3>3, <4>1, AgeAssumption DEF Unexpired
        <4> QED BY <3>1, <4>2 DEF IsKept
      <3> QED BY <3>2, <3>3
    <2> QED BY <2>2, <2>3, BoundBy
  <1> QED BY <1>1, <1>2, <1>3, <1>4, <1>5, <1>6 DEF Next

\* The database lets go of what an id means only when the guard expires, is one too many,
\* or the record is past its retention, by age or by number: until then a redelivered event
\* is known, and an event of another content is refused (volatileGuardsForCheckpoint,
\* mergeVolatileGuards, retireExpiredRecords).
THEOREM MeaningsAreKept == Spec => MeaningIsKept
  <1>1. ASSUME IInv, IInv', Guarding, [Next]_identityVars
        PROVE  [\A bound \in Bindings(store) : IsKept(bound)]_identityVars
    BY <1>1, NextKeeps
  <1>2. (\A bound \in Bindings(store) : IsKept(bound)) =>
          \A bound \in Bindings(store) :
            \/ bound \in Bindings(store)'
            \/ \E g \in store.guards : g.id = bound.id /\ g.at <= now' - GuardRetention
            \/ Retires(bound)
            \/ bound.id \notin Ids(store'.guards) /\ Outnumbered(bound)
    BY DEF IsKept, Remains
  <1>3. IInv /\ IInv' /\ Guarding /\ [Next]_identityVars =>
          [\A bound \in Bindings(store) :
            \/ bound \in Bindings(store)'
            \/ \E g \in store.guards : g.id = bound.id /\ g.at <= now' - GuardRetention
            \/ Retires(bound)
            \/ bound.id \notin Ids(store'.guards) /\ Outnumbered(bound)]_identityVars
    BY <1>1, <1>2
  <1> QED BY <1>3, Invariance, GuardingInvariance, PTL DEF Spec, MeaningIsKept

=============================================================================
