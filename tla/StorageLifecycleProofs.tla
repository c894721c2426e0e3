----------------------- MODULE StorageLifecycleProofs -----------------------
(***************************************************************************)
(* Proofs about StorageLifecycle, for any number of faults, processes,     *)
(* databases and ticks.                                                    *)
(*                                                                         *)
(* LossesExplained and GapsAreDisjoint speak of the database at the path   *)
(* while storage is available.  The invariant that implies them, IInv,     *)
(* speaks of every database a process may come to open, DbOK: an operator  *)
(* may have taken it away and bring it back.  In it, whatever a session    *)
(* lost is in a gap, or the session is still unclosed and the loss is not  *)
(* before its Bound, or it is the running one and the loss is not before   *)
(* its outage; and every gap ends before all of these.  So the gap of the  *)
(* next reconciliation or recovery, which begins at the least of them,     *)
(* takes in every loss and overlaps no gap.                                *)
(***************************************************************************)
EXTENDS StorageLifecycle, WellFoundedInduction, TLAPS

\* The values that the variables hold.
Sessions == [id : Nat, started : Nat, last : Nat, open : BOOLEAN]
Gaps == [from : Int, to : Nat]
DB == [generation : Nat \ {0}, condition : Conditions, wal : BOOLEAN,
       sessions : SUBSET Sessions, gaps : SUBSET Gaps, command : BOOLEAN]
Archives == [main : DB \cup {None}, side : Nat]

Disks == [main : DB \cup {None}, side : Nat, staging : [side : Nat] \cup {None},
          preserved : SUBSET Archives, aside : Archives, generations : Nat]

Copying == {"examining", "publishing"}
Starting == {"opening", "marking", "reconciling", "staging", "moving", "cleaning", "creating"} \cup Copying
Statuses == {"none", "available", "degraded", "recovering", "manual"}
Probes == [kind : {"existing_generation", "first_initialization"}, command : BOOLEAN,
           status : {"degraded", "recovering"}]

Procs == [phase : {"down", "running", "cutover"} \cup Starting, id : Nat, started : Nat,
          status : Statuses, verified : Nat, open : BOOLEAN, outage : Nat \cup {-1},
          prior : SUBSET Sessions, probe : Probes \cup {None},
          known : {"none", "active", "settled"}, command : BOOLEAN, archive : Nat]

\* The types of the variables.
TypeOK ==
  /\ disk \in Disks /\ proc \in Procs
  /\ now \in Nat /\ lost \subseteq [time : Nat, by : Nat]

\* The process runs, and cannot store.
Outage(p) == p.phase \in {"running", "cutover"} /\ p.status # "available"

\* What the phase of the process says of its fields.
Shape ==
  /\ proc.phase \in {"marking", "reconciling"} => proc.open
  /\ proc.phase = "running" => proc.status # "none"
  /\ proc.phase = "running" => (proc.open <=> proc.status = "available")
  /\ proc.phase \notin {"marking", "reconciling", "running"} => ~proc.open
  /\ proc.phase = "cutover" => proc.status = "recovering" /\ proc.probe # None
  /\ proc.phase = "examining" => disk.main # None
  /\ proc.open => disk.main # None /\ disk.main.generation = proc.verified
  /\ proc.phase \in Starting => proc.started = now
  /\ proc.phase \in Starting \ {"marking", "reconciling"} => proc.verified = 0
  /\ Outage(proc) => proc.outage # -1 /\ proc.started <= proc.outage /\ proc.outage <= now
  /\ ~Outage(proc) => proc.outage = -1
  /\ proc.started <= now

\* The databases that a process may open, now or after an operator's exchange.
Databases(d) == {d.main, d.aside.main} \ {None}

\* The sidecars beside a database that is partly in them are its own.
Kept(archive) == archive.main # None /\ archive.main.wal => archive.side = archive.main.generation

\* A replacement has copied the sidecars that are there, of a database that is there.
FilesInv ==
  /\ Kept(Archive(disk.main, disk.side)) /\ Kept(disk.aside)
  /\ \A db \in Databases(disk) : db.generation <= disk.generations
  /\ disk.main # None /\ disk.aside.main # None => disk.main.generation # disk.aside.main.generation
  /\ proc.phase \in Copying =>
       disk.main # None /\ disk.staging # None /\ disk.staging.side = disk.side
  /\ proc.phase = "moving" => disk.main # None /\ proc.archive = disk.side
  /\ proc.phase = "cleaning" => disk.main = None

\* What a database says of the sessions: the earlier ones ended before this process began.
SessionsOK(db) ==
  /\ \A s, t \in db.sessions : s.id = t.id => s = t
  /\ \A s \in db.sessions :
       /\ s.id <= proc.id /\ s.started <= now /\ s.last <= now
       /\ proc.phase # "down" /\ s.id # proc.id => s.started <= proc.started /\ s.last <= proc.started
       /\ proc.phase # "down" /\ s.id = proc.id =>
            /\ db.generation = proc.verified /\ s.open
            /\ proc.phase \in {"reconciling", "running", "cutover"}

\* A gap ends before the unclosed sessions, and before the outage, that the next one is for.
GapsOK(db) ==
  /\ \A g, h \in db.gaps : g = h \/ g.to <= h.from \/ h.to <= g.from
  /\ \A g \in db.gaps :
       /\ g.to <= now
       /\ \A s \in Unclosed(db) : g.to <= Bound(s)
       /\ Outage(proc) => g.to <= proc.outage

\* The sessions left open by other processes.
Others(db) == {s \in Unclosed(db) : s.id # proc.id}

\* The process has all of them in mind, as long as it has not closed them.
PriorOK ==
  /\ proc.phase = "marking" => proc.prior = Unclosed(disk.main)
  /\ proc.phase = "reconciling" => proc.prior = Others(disk.main)
  /\ Stored(proc) => Others(disk.main) = {}
  /\ proc.phase = "cutover" /\ proc.probe.kind = "existing_generation" =>
       \A db \in Databases(disk) : db.generation = proc.verified => proc.prior = Others(db)
  /\ proc.phase = "cutover" /\ proc.probe.kind = "first_initialization" =>
       proc.prior = {} /\ proc.verified = 0

CoveredIn(db, time) == \E gap \in db.gaps : gap.from <= time /\ time <= gap.to

\* What was lost is in a gap, or the next gap will begin before it.
LossesOK(db) ==
  /\ \A s \in db.sessions, loss \in lost :
       loss.by = s.id => CoveredIn(db, loss.time) \/ (s.open /\ Bound(s) <= loss.time)
  /\ \A loss \in lost :
       loss.by = proc.id /\ proc.phase \in {"running", "cutover"} /\ db.generation = proc.verified =>
         CoveredIn(db, loss.time) \/ (Outage(proc) /\ proc.outage <= loss.time)

\* A process loses nothing before it runs, nor before its outage.
LossesInv ==
  /\ \A loss \in lost : loss.time <= now /\ loss.by <= proc.id
  /\ \A loss \in lost : proc.phase \in Starting => loss.by # proc.id
  /\ \A loss \in lost :
       loss.by = proc.id /\ proc.phase \in {"running", "cutover"} /\ proc.verified = 0 =>
         Outage(proc) /\ proc.outage <= loss.time

\* What holds of each database.
DbOK(db) == SessionsOK(db) /\ GapsOK(db) /\ LossesOK(db)

\* The inductive invariant.
IInv ==
  /\ TypeOK /\ Shape /\ FilesInv /\ PriorOK /\ LossesInv
  /\ \A db \in Databases(disk) : DbOK(db)

-----------------------------------------------------------------------------
(* Operators *)

LEMMA BoundType ==
  ASSUME NEW s \in Sessions
  PROVE  Bound(s) \in Nat /\ Bound(s) >= s.started /\ Bound(s) >= s.last /\ Bound(s) \in {s.started, s.last}
BY DEF Bound, Sessions

LEMMA LeastNatural ==
  ASSUME NEW S \in SUBSET Nat, S # {}
  PROVE  \E n \in S : \A m \in S : n <= m
<1> DEFINE less == OpToRel(<, Nat)
<1>1. IsWellFoundedOn(less, Nat)
  BY NatLessThanWellFounded
<1> HIDE DEF less
<1>2. PICK n \in S : \A m \in S : <<m, n>> \notin less
  BY <1>1, WFMin, Zenon
<1>3. \A m \in S : <<m, n>> \in less <=> m < n
  BY DEF less, OpToRel
<1>4. n \in Nat /\ \A m \in S : m \in Nat /\ ~(m < n)
  BY <1>2, <1>3
<1>5. \A m \in S : n <= m
  BY <1>4
<1>6. QED BY <1>2, <1>5

LEMMA LargestIsMax ==
  ASSUME NEW S, NEW n \in S, S \subseteq Int, \A m \in S : n >= m
  PROVE  Max(S) \in S /\ \A m \in S : Max(S) >= m
BY DEF Max

LEMMA LeastIsMin ==
  ASSUME NEW S, NEW n \in S, S \subseteq Int, \A m \in S : n <= m
  PROVE  Min(S) \in S /\ \A m \in S : Min(S) <= m
BY DEF Min

LEMMA GapStartType ==
  ASSUME NEW S \in SUBSET Sessions, S # {}
  PROVE  /\ GapStart(S) \in Nat
         /\ \A s \in S : GapStart(S) <= Bound(s)
         /\ \E s \in S : GapStart(S) = Bound(s)
<1> DEFINE bounds == {Bound(s) : s \in S}
<1>1. bounds \in SUBSET Nat /\ bounds # {}
  BY BoundType
<1>2. PICK n \in bounds : \A m \in bounds : n <= m
  BY <1>1, LeastNatural
<1>3. GapStart(S) = Min(bounds)
  BY DEF GapStart
<1> HIDE DEF bounds
<1>4. Min(bounds) \in bounds /\ \A m \in bounds : Min(bounds) <= m
  <2>1. bounds \subseteq Int
    BY <1>1
  <2>2. QED BY <1>2, <2>1, LeastIsMin, Zenon
<1>5. QED BY <1>1, <1>3, <1>4 DEF bounds

\* The marker that a transaction leaves.
Marker(db, p, at, m) ==
  /\ m \in Sessions /\ m.id = p.id /\ m.started = p.started /\ m.open /\ m.last >= at
  /\ m.last = at \/ \E s \in db.sessions : s.id = p.id /\ m.last = s.last

LEMMA ActivatedType ==
  ASSUME NEW db \in DB, NEW p \in Procs, NEW at \in Nat,
         \A s, t \in db.sessions : s.id = t.id => s = t
  PROVE  \E m : /\ Marker(db, p, at, m)
               /\ Activated(db, p, at) =
                    [db EXCEPT !.sessions = {s \in db.sessions : s.id # p.id} \cup {m}]
<1> DEFINE own == {s \in db.sessions : s.id = p.id}
           before == {s.last : s \in own} \cup {at}
           m == [id |-> p.id, started |-> p.started, last |-> Max(before), open |-> TRUE]
<1>1. db.sessions \subseteq Sessions
  BY DEF DB
<1>2. \E l \in before : l \in Nat /\ \A k \in before : l >= k
  <2>1. CASE own = {}
    BY <2>1
  <2>2. CASE own # {}
    <3>1. PICK o \in own : own = {o}
      BY <2>2
    <3>2. before = {o.last, at} /\ o.last \in Nat
      BY <1>1, <3>1 DEF Sessions
    <3>3. QED BY <3>2
  <2>3. QED BY <2>1, <2>2
<1>3. /\ Max(before) \in before /\ Max(before) \in Nat
      /\ \A k \in before : Max(before) >= k
  <2>1. before \subseteq Nat
    BY <1>1 DEF Sessions
  <2>2. PICK l \in before : l \in Nat /\ \A k \in before : l >= k
    BY <1>2
  <2> HIDE DEF before, m
  <2>3. Max(before) \in before /\ \A k \in before : Max(before) >= k
    <3>1. before \subseteq Int
      BY <2>1
    <3>2. QED BY <2>2, <3>1, LargestIsMax, Zenon
  <2>4. QED BY <2>1, <2>3
<1>4. Marker(db, p, at, m)
  <2>1. m \in Sessions
    BY <1>3 DEF Sessions, Procs
  <2>2. QED BY <2>1, <1>3 DEF Marker
<1>5. Activated(db, p, at) = [db EXCEPT !.sessions = {s \in db.sessions : s.id # p.id} \cup {m}]
  <2>1. Activated(db, p, at) = [db EXCEPT !.sessions = (db.sessions \ own) \cup {m}]
    BY DEF Activated
  <2>2. db.sessions \ own = {s \in db.sessions : s.id # p.id}
    OBVIOUS
  <2>3. QED BY <2>1, <2>2
<1>6. QED BY <1>4, <1>5

-----------------------------------------------------------------------------
(* Databases that a step leaves alone *)

\* Something observed is not stored.
Loses == lost' = lost \cup {[time |-> now, by |-> proc.id]}

\* A process goes on.
Goes ==
  /\ proc.phase # "down" /\ proc'.phase # "down"
  /\ proc'.id = proc.id /\ proc'.started = proc.started
  /\ proc.verified # 0 => proc'.verified = proc.verified
  /\ proc.phase \in {"reconciling", "running", "cutover"} =>
       proc'.phase \in {"reconciling", "running", "cutover"}
  /\ Outage(proc) => Outage(proc') /\ proc'.outage = proc.outage
  /\ ~Outage(proc) /\ Outage(proc') => proc'.outage = now
  /\ now' \in Nat /\ now' >= now
  /\ \/ lost' = lost
     \/ Outage(proc') /\ proc.phase = "running" /\ Loses

LEMMA DbGoes ==
  ASSUME TypeOK, Shape, LossesInv, NEW db \in DB, DbOK(db), Goes
  PROVE  DbOK(db)'
<1> USE DEF DbOK
<1>1. /\ db.sessions \subseteq Sessions /\ db.gaps \subseteq Gaps
      /\ db.generation \in Nat \ {0}
      /\ \A s \in db.sessions : s \in Sessions /\ Bound(s) \in Nat /\ Bound(s) \in {s.started, s.last}
  BY BoundType DEF DB
<1>2. SessionsOK(db)'
  BY <1>1 DEF SessionsOK, Goes, TypeOK, Procs, Sessions
<1>3. GapsOK(db)'
  BY <1>1 DEF GapsOK, Goes, TypeOK, Procs, Gaps, Unclosed, Shape
<1>4. LossesOK(db)'
  <2>1. ASSUME NEW s \in db.sessions, NEW loss \in lost', loss.by = s.id
        PROVE  CoveredIn(db, loss.time) \/ (s.open /\ Bound(s) <= loss.time)
    <3>1. CASE loss \in lost
      BY <2>1, <3>1 DEF LossesOK
    <3>2. CASE loss = [time |-> now, by |-> proc.id]
      BY <1>1, <2>1, <3>2 DEF SessionsOK, Goes, TypeOK, Procs, Sessions, Shape
    <3>3. QED BY <2>1, <3>1, <3>2 DEF Goes, Loses
  <2>2. ASSUME NEW loss \in lost', loss.by = proc'.id, proc'.phase \in {"running", "cutover"},
               db.generation = proc'.verified
        PROVE  CoveredIn(db, loss.time) \/ (Outage(proc') /\ proc'.outage <= loss.time)
    <3>1. CASE loss \in lost
      BY <1>1, <2>2, <3>1 DEF LossesOK, LossesInv, Goes, TypeOK, Procs, Shape, Starting, Copying
    <3>2. CASE loss = [time |-> now, by |-> proc.id] /\ loss \notin lost
      BY <2>2, <3>2 DEF Goes, TypeOK, Procs, Shape
    <3>3. QED BY <2>2, <3>1, <3>2 DEF Goes, Loses
  <2>3. QED BY <2>1, <2>2 DEF LossesOK
<1>5. QED BY <1>2, <1>3, <1>4

\* The process ends.
Ends ==
  /\ proc.phase # "down" /\ proc' = Down(proc.id)
  /\ now' = now
  /\ lost' = lost \/ (proc.phase = "running" /\ Loses)

LEMMA DbEnds ==
  ASSUME TypeOK, Shape, LossesInv, NEW db \in DB, DbOK(db), Ends
  PROVE  DbOK(db)'
<1> USE DEF DbOK
<1>1. /\ db.sessions \subseteq Sessions /\ db.gaps \subseteq Gaps
      /\ \A s \in db.sessions : s \in Sessions /\ Bound(s) \in Nat /\ Bound(s) \in {s.started, s.last}
  BY BoundType DEF DB
<1>2. proc'.phase = "down" /\ proc'.id = proc.id /\ proc.id \in Nat /\ ~Outage(proc')
  BY DEF Ends, Down, TypeOK, Procs, Outage
<1>3. SessionsOK(db)'
  BY <1>1, <1>2 DEF SessionsOK, Ends
<1>4. GapsOK(db)'
  BY <1>1, <1>2 DEF GapsOK, Ends, Unclosed
<1>5. LossesOK(db)'
  <2>1. ASSUME NEW s \in db.sessions, NEW loss \in lost', loss.by = s.id
        PROVE  CoveredIn(db, loss.time) \/ (s.open /\ Bound(s) <= loss.time)
    <3>1. CASE loss \in lost
      BY <2>1, <3>1 DEF LossesOK
    <3>2. CASE loss = [time |-> now, by |-> proc.id]
      BY <1>1, <2>1, <3>2 DEF SessionsOK, Ends, TypeOK, Procs, Sessions, Shape
    <3>3. QED BY <2>1, <3>1, <3>2 DEF Ends, Loses
  <2>2. QED BY <1>2, <2>1 DEF LossesOK
<1>6. QED BY <1>3, <1>4, <1>5

LEMMA DbStarts ==
  ASSUME TypeOK, Shape, LossesInv, NEW db \in DB, DbOK(db), Start
  PROVE  DbOK(db)'
<1> USE DEF DbOK
<1>1. /\ db.sessions \subseteq Sessions /\ db.gaps \subseteq Gaps
      /\ \A s \in db.sessions : s \in Sessions
  BY DEF DB
<1>2. /\ proc.phase = "down" /\ proc.id \in Nat /\ proc'.id = proc.id + 1 /\ proc'.started = now
      /\ proc'.phase \in {"opening", "staging"} /\ ~Outage(proc')
      /\ now' = now /\ now \in Nat /\ lost' = lost
  BY DEF Start, Down, TypeOK, Procs, Outage
<1>3. SessionsOK(db)'
  BY <1>1, <1>2 DEF SessionsOK, Sessions
<1>4. GapsOK(db)'
  BY <1>1, <1>2 DEF GapsOK, Unclosed
<1>5. LossesOK(db)'
  BY <1>1, <1>2 DEF LossesOK
<1>6. QED BY <1>3, <1>4, <1>5

-----------------------------------------------------------------------------
(* What a transaction makes of a database *)

\* Two states of one marker.
Alike(s, t) == s.id = t.id /\ s.started = t.started /\ s.last = t.last

\* The marker moved.
MarkedAs(db, new, p, m) ==
  /\ new \in DB /\ new.generation = db.generation /\ new.wal = db.wal /\ new.gaps = db.gaps
  /\ new.sessions = {s \in db.sessions : s.id # p.id} \cup {m}

\* The marker moved, every other session closed, and a gap recorded.
ReconciledAs(db, new, p, m, gap) ==
  /\ new \in DB /\ new.generation = db.generation /\ new.wal = db.wal /\ new.gaps = db.gaps \cup {gap}
  /\ m \in new.sessions
  /\ \A s \in new.sessions :
       s = m \/ (~s.open /\ s.id # p.id /\ \E t \in db.sessions : Alike(s, t))

LEMMA MarkedType ==
  ASSUME NEW db \in DB, NEW p \in Procs, NEW at \in Nat,
         \A s, t \in db.sessions : s.id = t.id => s = t
  PROVE  \E m : Marker(db, p, at, m) /\ MarkedAs(db, Activated(db, p, at), p, m)
<1>1. PICK m : /\ Marker(db, p, at, m)
               /\ Activated(db, p, at) =
                    [db EXCEPT !.sessions = {s \in db.sessions : s.id # p.id} \cup {m}]
  BY ActivatedType
<1>2. {s \in db.sessions : s.id # p.id} \cup {m} \subseteq Sessions
  BY <1>1 DEF DB, Marker
<1>3. QED BY <1>1, <1>2 DEF DB, MarkedAs

LEMMA ReconciledType ==
  ASSUME NEW db \in DB, NEW p \in Procs, NEW at \in Nat, NEW from \in Int, NEW prior,
         \A s, t \in db.sessions : s.id = t.id => s = t,
         prior = {s \in Unclosed(db) : s.id # p.id}
  PROVE  \E m : /\ Marker(db, p, at, m)
                /\ ReconciledAs(db, Reconciled(db, p, from, prior, at), p, m, [from |-> from, to |-> at])
<1>1. PICK m : Marker(db, p, at, m) /\ MarkedAs(db, Activated(db, p, at), p, m)
  BY MarkedType
<1> DEFINE gap == [from |-> from, to |-> at]
           ids == {s.id : s \in prior}
           marked == Activated(db, p, at)
           gapped == [marked EXCEPT !.gaps = @ \cup {gap}]
           Shut(s) == [s EXCEPT !.open = @ /\ s.id \notin ids]
           sessions == {Shut(s) : s \in marked.sessions}
           new == Reconciled(db, p, from, prior, at)
<1>2. /\ marked \in DB /\ marked.generation = db.generation /\ marked.wal = db.wal /\ marked.gaps = db.gaps
      /\ marked.sessions = {s \in db.sessions : s.id # p.id} \cup {m}
      /\ m \in Sessions /\ m.id = p.id
  BY <1>1 DEF MarkedAs, Marker
<1> HIDE DEF marked
<1>3. gapped \in DB /\ gapped.generation = db.generation /\ gapped.wal = db.wal /\ gapped.gaps = db.gaps \cup {gap}
      /\ gapped.sessions = marked.sessions
  BY <1>2 DEF DB, Gaps
<1>4. new = [gapped EXCEPT !.sessions = {Shut(s) : s \in gapped.sessions}]
  BY DEF Reconciled, Closed, marked
<1> HIDE DEF gapped, new
<1>5. \A s \in marked.sessions : s \in Sessions
  BY <1>2 DEF DB
<1>6. p.id \notin ids
  OBVIOUS
<1>7. \A s \in marked.sessions :
        /\ Shut(s) \in Sessions /\ Alike(Shut(s), s)
        /\ s.id # p.id => ~Shut(s).open
  <2>1. TAKE s \in marked.sessions
  <2>2. s \in Sessions
    BY <1>5
  <2>3. Shut(s) = [id |-> s.id, started |-> s.started, last |-> s.last,
                   open |-> (s.open /\ s.id \notin ids)]
    BY <2>2 DEF Sessions
  <2>4. Shut(s) \in Sessions /\ Alike(Shut(s), s)
    BY <2>2, <2>3 DEF Sessions, Alike
  <2>5. ASSUME s.id # p.id PROVE ~(s.open /\ s.id \notin ids)
    BY <1>2, <2>5 DEF Unclosed
  <2>6. QED BY <2>3, <2>4, <2>5
<1>8. Shut(m) = m
  <2>1. m.open \in BOOLEAN /\ m.id \notin ids
    BY <1>2, <1>6 DEF Sessions
  <2>2. [m EXCEPT !.open = m.open] = m
    BY <1>2 DEF Sessions
  <2>3. (m.open /\ m.id \notin ids) = m.open
    BY <2>1
  <2>4. QED BY <2>2, <2>3
<1> HIDE DEF Shut
<1>9. /\ new \in DB /\ new.generation = db.generation /\ new.wal = db.wal /\ new.gaps = db.gaps \cup {gap}
      /\ new.sessions = {Shut(s) : s \in marked.sessions}
  BY <1>3, <1>4, <1>7 DEF DB
<1>10. m \in new.sessions
  BY <1>2, <1>8, <1>9
<1>11. \A s \in new.sessions :
         s = m \/ (~s.open /\ s.id # p.id /\ \E t \in db.sessions : Alike(s, t))
  BY <1>2, <1>7, <1>8, <1>9 DEF Alike
<1>12. QED BY <1>1, <1>9, <1>10, <1>11 DEF ReconciledAs, new

\* The sidecars, the condition and the command of a database may change.
SameSessions(db, new) ==
  /\ new \in DB /\ new.generation = db.generation
  /\ new.sessions = db.sessions /\ new.gaps = db.gaps

LEMMA DbSame ==
  ASSUME NEW db \in DB, NEW new, SameSessions(db, new)
  PROVE  (DbOK(db) => DbOK(new)) /\ (DbOK(db)' => DbOK(new)')
BY DEF SameSessions, DbOK, SessionsOK, GapsOK, LossesOK, CoveredIn, Unclosed

LEMMA DbFresh ==
  ASSUME NEW db \in DB, db.sessions = {}, db.gaps = {}
  PROVE  /\ proc.phase \notin {"running", "cutover"} \/ db.generation # proc.verified => DbOK(db)
         /\ proc'.phase \notin {"running", "cutover"} => DbOK(db)'
BY DEF DbOK, SessionsOK, GapsOK, LossesOK, Unclosed

\* The process goes on with storage available.
Works ==
  /\ proc.phase # "down" /\ proc'.id = proc.id /\ proc'.started = proc.started
  /\ proc'.phase \in {"reconciling", "running"} /\ ~Outage(proc')
  /\ lost' = lost /\ now' = now

LEMMA DbMarked ==
  ASSUME TypeOK, Shape, LossesInv, NEW db \in DB, DbOK(db), NEW m, NEW new,
         proc.phase \in {"marking", "running"}, ~Outage(proc), db.generation = proc.verified,
         Marker(db, proc, now, m), MarkedAs(db, new, proc, m),
         Works, proc'.verified = proc.verified
  PROVE  DbOK(new)'
<1>1. /\ db.sessions \subseteq Sessions /\ db.gaps \subseteq Gaps
      /\ \A s \in db.sessions : s \in Sessions /\ Bound(s) \in Nat /\ Bound(s) \in {s.started, s.last}
      /\ now \in Nat /\ proc.id \in Nat /\ proc.started \in Nat
  BY BoundType DEF DB, TypeOK, Procs
<1>2. /\ m \in Sessions /\ m.id = proc.id /\ m.started = proc.started /\ m.open /\ m.last >= now
      /\ m.last \in Nat /\ Bound(m) \in Nat /\ Bound(m) >= m.last
  BY BoundType DEF Marker, Sessions
<1>3. new.sessions = {s \in db.sessions : s.id # proc.id} \cup {m} /\ new.gaps = db.gaps
      /\ new.generation = db.generation
  BY DEF MarkedAs
<1>4. m.last <= now
  BY <1>1 DEF Marker, DbOK, SessionsOK
<1>5. SessionsOK(new)'
  BY <1>1, <1>2, <1>3, <1>4 DEF DbOK, SessionsOK, Works, Sessions, Shape
<1>6. GapsOK(new)'
  BY <1>1, <1>2, <1>3, <1>4 DEF DbOK, GapsOK, Works, Unclosed, Gaps
<1>7. LossesOK(new)'
  <2>1. \A loss \in lost : loss.by = proc.id => CoveredIn(db, loss.time)
    BY DEF DbOK, LossesOK, LossesInv, Starting
  <2>2. \A time : CoveredIn(new, time) <=> CoveredIn(db, time)
    BY <1>3 DEF CoveredIn
  <2>3. QED BY <1>2, <1>3, <2>1, <2>2 DEF DbOK, LossesOK, Works
<1>8. QED BY <1>5, <1>6, <1>7 DEF DbOK

LEMMA DbReconciled ==
  ASSUME TypeOK, Shape, LossesInv, NEW db \in DB, DbOK(db), NEW m, NEW new, NEW from \in Int,
         Marker(db, proc, now, m), ReconciledAs(db, new, proc, m, [from |-> from, to |-> now]),
         from <= now,
         \A g \in db.gaps : g.to <= from,
         \A s \in Others(db) : from <= Bound(s),
         \A loss \in lost : loss.by = proc.id => CoveredIn(db, loss.time) \/ from <= loss.time,
         Works, db.generation = proc'.verified
  PROVE  DbOK(new)'
<1> DEFINE gap == [from |-> from, to |-> now]
<1>1. /\ db.sessions \subseteq Sessions /\ db.gaps \subseteq Gaps
      /\ \A s \in db.sessions : s \in Sessions /\ Bound(s) \in Nat /\ Bound(s) \in {s.started, s.last}
      /\ now \in Nat /\ proc.id \in Nat /\ proc.started \in Nat
  BY BoundType DEF DB, TypeOK, Procs
<1>2. /\ m \in Sessions /\ m.id = proc.id /\ m.started = proc.started /\ m.open /\ m.last >= now
      /\ m.last \in Nat /\ Bound(m) \in Nat /\ Bound(m) >= m.last
  BY BoundType DEF Marker, Sessions
<1>3. /\ new \in DB /\ new.gaps = db.gaps \cup {gap} /\ new.generation = db.generation
      /\ \A s \in new.sessions :
           s = m \/ (~s.open /\ s.id # proc.id /\ \E t \in db.sessions : Alike(s, t))
  BY DEF ReconciledAs
<1>4. m.last <= now
  BY <1>1 DEF Marker, DbOK, SessionsOK
<1>5. SessionsOK(new)'
  <2>1. ASSUME NEW s \in new.sessions, NEW t \in new.sessions, s.id = t.id PROVE s = t
    <3>1. s \in Sessions /\ t \in Sessions
      BY <1>3 DEF DB
    <3>2. CASE s = m \/ t = m
      BY <1>2, <1>3, <2>1, <3>2
    <3>3. CASE s # m /\ t # m
      <4>1. PICK a \in db.sessions, b \in db.sessions : Alike(s, a) /\ Alike(t, b)
        BY <1>3, <3>3
      <4>2. a = b
        BY <2>1, <4>1 DEF Alike, DbOK, SessionsOK
      <4>3. ~s.open /\ ~t.open
        BY <1>3, <3>3
      <4>4. QED BY <3>1, <4>1, <4>2, <4>3 DEF Alike, Sessions
    <3>4. QED BY <3>2, <3>3
  <2>2. ASSUME NEW s \in new.sessions
        PROVE  /\ s.id <= proc.id /\ s.started <= now /\ s.last <= now
               /\ proc'.phase # "down" /\ s.id # proc.id => s.started <= proc.started /\ s.last <= proc.started
               /\ proc'.phase # "down" /\ s.id = proc.id => s.open
    <3>1. CASE s = m
      BY <1>1, <1>2, <1>4, <3>1 DEF Shape
    <3>2. CASE s # m
      <4>1. PICK a \in db.sessions : Alike(s, a) /\ s.id # proc.id
        BY <1>3, <3>2
      <4>2. proc.phase # "down"
        BY DEF Works
      <4>3. QED BY <4>1, <4>2 DEF Alike, DbOK, SessionsOK
    <3>3. QED BY <3>1, <3>2
  <2>3. QED BY <1>3, <2>1, <2>2 DEF SessionsOK, Works
<1>6. GapsOK(new)'
  <2>1. Unclosed(new) \subseteq {m}
    BY <1>3 DEF Unclosed
  <2>2. \A g \in new.gaps : g \in Gaps /\ g.to <= now
    BY <1>1, <1>3 DEF DbOK, GapsOK, Gaps
  <2>3. \A g, h \in new.gaps : g = h \/ g.to <= h.from \/ h.to <= g.from
    BY <1>1, <1>3 DEF DbOK, GapsOK, Gaps
  <2>4. QED BY <1>1, <1>2, <2>1, <2>2, <2>3 DEF GapsOK, Works, Gaps
<1>7. LossesOK(new)'
  <2>1. \A loss \in lost : loss \in [time : Nat, by : Nat] /\ loss.time <= now
    BY DEF TypeOK, LossesInv
  <2>2. \A loss \in lost : from <= loss.time => CoveredIn(new, loss.time)
    BY <1>1, <1>3, <2>1 DEF CoveredIn
  <2>3. \A time : CoveredIn(db, time) => CoveredIn(new, time)
    BY <1>3 DEF CoveredIn
  <2>4. ASSUME NEW s \in new.sessions, NEW loss \in lost, loss.by = s.id PROVE CoveredIn(new, loss.time)
    <3>1. CASE s = m
      BY <1>2, <2>2, <2>3, <2>4, <3>1
    <3>2. CASE s # m
      <4>1. PICK a \in db.sessions : Alike(s, a) /\ s.id # proc.id
        BY <1>3, <3>2
      <4>2. CASE CoveredIn(db, loss.time)
        BY <2>3, <4>2
      <4>3. CASE a.open /\ Bound(a) <= loss.time
        <5>1. a \in Others(db)
          BY <4>1, <4>3 DEF Others, Unclosed, Alike
        <5>2. from <= loss.time
          BY <1>1, <2>1, <4>1, <4>3, <5>1
        <5>3. QED BY <2>2, <5>2
      <4>4. QED BY <2>4, <4>1, <4>2, <4>3 DEF DbOK, LossesOK, Alike
    <3>3. QED BY <3>1, <3>2
  <2>5. QED BY <2>2, <2>3, <2>4 DEF LossesOK, Works
<1>8. QED BY <1>5, <1>6, <1>7 DEF DbOK

LEMMA DbClosed ==
  ASSUME TypeOK, Shape, LossesInv, NEW db \in DB, DbOK(db), NEW new,
         Stored(proc), db.generation = proc.verified,
         new = Closed(db, {proc.id}),
         proc' = Down(proc.id), lost' = lost, now' = now
  PROVE  new \in DB /\ new.generation = db.generation /\ DbOK(new)'
<1> DEFINE Shut(s) == [s EXCEPT !.open = @ /\ s.id \notin {proc.id}]
<1>1. /\ db.sessions \subseteq Sessions /\ db.gaps \subseteq Gaps
      /\ \A s \in db.sessions : s \in Sessions
      /\ now \in Nat /\ proc.id \in Nat /\ proc'.phase = "down" /\ proc'.id = proc.id /\ ~Outage(proc')
  BY DEF DB, TypeOK, Procs, Down, Outage
<1>2. \A s \in db.sessions : /\ Shut(s) \in Sessions /\ Alike(Shut(s), s)
                             /\ Shut(s).open <=> s.open /\ s.id # proc.id
                             /\ Bound(Shut(s)) = Bound(s)
  <2>1. TAKE s \in db.sessions
  <2>2. s \in Sessions
    BY <1>1
  <2>3. Shut(s) = [id |-> s.id, started |-> s.started, last |-> s.last, open |-> (s.open /\ s.id # proc.id)]
    BY <2>2 DEF Sessions
  <2>4. QED BY <2>2, <2>3 DEF Sessions, Alike, Bound
<1>3. new = [db EXCEPT !.sessions = {Shut(s) : s \in db.sessions}]
  BY DEF Closed
<1> HIDE DEF Shut
<1>4. /\ new \in DB /\ new.generation = db.generation /\ new.gaps = db.gaps
      /\ new.sessions = {Shut(s) : s \in db.sessions}
  <2>1. {Shut(s) : s \in db.sessions} \in SUBSET Sessions
    BY <1>2
  <2> HIDE DEF Shut
  <2>2. QED BY <1>3, <2>1 DEF DB
<1>5. \A n \in new.sessions : \E s \in db.sessions :
        /\ n = Shut(s) /\ Alike(n, s) /\ Bound(n) = Bound(s)
        /\ n.open <=> s.open /\ s.id # proc.id
  BY <1>2, <1>4
<1>6. SessionsOK(new)'
  <2>1. ASSUME NEW n \in new.sessions, NEW o \in new.sessions, n.id = o.id PROVE n = o
    BY <1>5, <2>1 DEF DbOK, SessionsOK, Alike
  <2>2. \A n \in new.sessions : n.id <= proc.id /\ n.started <= now /\ n.last <= now
    BY <1>5 DEF DbOK, SessionsOK, Alike
  <2>3. QED BY <1>1, <2>1, <2>2 DEF SessionsOK
<1>7. GapsOK(new)'
  <2>1. \A g \in db.gaps, n \in Unclosed(new) : g.to <= Bound(n)
    BY <1>5 DEF DbOK, GapsOK, Unclosed
  <2>2. QED BY <1>1, <1>4, <2>1 DEF DbOK, GapsOK
<1>8. LossesOK(new)'
  <2>1. \A loss \in lost : loss.by = proc.id => CoveredIn(db, loss.time)
    BY DEF DbOK, LossesOK, Stored, Outage
  <2>2. \A time : CoveredIn(new, time) <=> CoveredIn(db, time)
    BY <1>4 DEF CoveredIn
  <2>3. ASSUME NEW n \in new.sessions, NEW loss \in lost, loss.by = n.id
        PROVE  CoveredIn(new, loss.time) \/ (n.open /\ Bound(n) <= loss.time)
    <3>1. PICK s \in db.sessions : Alike(n, s) /\ Bound(n) = Bound(s) /\ (n.open <=> s.open /\ s.id # proc.id)
      BY <1>5
    <3>2. loss.by = s.id
      BY <2>3, <3>1 DEF Alike
    <3>3. CoveredIn(db, loss.time) \/ (s.open /\ Bound(s) <= loss.time)
      BY <3>2 DEF DbOK, LossesOK
    <3>4. QED BY <2>1, <2>2, <3>1, <3>2, <3>3
  <2>4. QED BY <1>1, <2>3 DEF LossesOK
<1>9. QED BY <1>4, <1>6, <1>7, <1>8 DEF DbOK

-----------------------------------------------------------------------------
(* The files *)

LEMMA NoDatabase == None \notin DB
BY DEF None, DB

LEMMA DatabasesAre ==
  ASSUME NEW d \in Disks
  PROVE  /\ Databases(d) \subseteq DB
         /\ d.main # None => d.main \in Databases(d)
         /\ d.aside.main # None => d.aside.main \in Databases(d)
BY DEF Disks, Archives, Databases

LEMMA ReleasedIs ==
  ASSUME NEW d \in Disks, d.main # None
  PROVE  /\ Released(d) \in Disks
         /\ SameSessions(d.main, Released(d).main)
         /\ Released(d).main # None /\ ~Released(d).main.wal
         /\ Released(d).side = 0
         /\ Released(d).staging = d.staging /\ Released(d).preserved = d.preserved
         /\ Released(d).aside = d.aside /\ Released(d).generations = d.generations
<1>1. d.main \in DB
  BY DEF Disks
<1>2. [d.main EXCEPT !.wal = FALSE] \in DB
  BY <1>1 DEF DB
<1>3. Released(d) = [d EXCEPT !.main = [d.main EXCEPT !.wal = FALSE], !.side = 0]
  BY DEF Released, Disks
<1>4. [d.main EXCEPT !.wal = FALSE] # None
  BY <1>2, NoDatabase
<1>5. SameSessions(d.main, [d.main EXCEPT !.wal = FALSE]) /\ ~[d.main EXCEPT !.wal = FALSE].wal
  BY <1>1, <1>2 DEF SameSessions, DB
<1> DEFINE closed == [d.main EXCEPT !.wal = FALSE]
<1> HIDE DEF closed
<1>6. closed \in DB /\ closed # None /\ SameSessions(d.main, closed) /\ ~closed.wal
  BY <1>2, <1>4, <1>5 DEF closed
<1>7. Released(d) = [d EXCEPT !.main = closed, !.side = 0]
  BY <1>3 DEF closed
<1>8. Released(d) \in Disks
  <2>1. closed \in DB \cup {None} /\ 0 \in Nat
    BY <1>6
  <2>2. QED BY <1>7, <2>1 DEF Disks
<1>9. /\ Released(d).main = closed /\ Released(d).side = 0
      /\ Released(d).staging = d.staging /\ Released(d).preserved = d.preserved
      /\ Released(d).aside = d.aside /\ Released(d).generations = d.generations
  BY <1>7 DEF Disks
<1>10. QED BY <1>6, <1>8, <1>9

LEMMA OpenedIs ==
  ASSUME NEW d \in Disks
  PROVE  /\ Opened(d) \in Disks
         /\ Opened(d).main \in DB /\ Opened(d).main # None
         /\ Opened(d).side = Opened(d).main.generation
         /\ d.main # None => SameSessions(d.main, Opened(d).main) /\ Opened(d).generations = d.generations
         /\ d.main = None =>
              /\ Opened(d).main.sessions = {} /\ Opened(d).main.gaps = {}
              /\ Opened(d).main.generation = d.generations + 1
              /\ Opened(d).generations = d.generations + 1
         /\ Opened(d).staging = d.staging /\ Opened(d).preserved = d.preserved
         /\ Opened(d).aside = d.aside
<1> DEFINE main == IF d.main = None THEN Database(d.generations + 1) ELSE d.main
           wide == [main EXCEPT !.wal = TRUE]
<1>1. main \in DB
  BY DEF Disks, DB, Database, Conditions
<1>2. wide \in DB /\ wide # None /\ wide.generation = main.generation
      /\ SameSessions(main, wide) /\ main.generation \in Nat
  BY <1>1, NoDatabase DEF DB, SameSessions
<1>3. d.main = None => main.generation = d.generations + 1 /\ main.sessions = {} /\ main.gaps = {}
  BY DEF Database
<1>4. Opened(d) = [d EXCEPT !.main = wide, !.side = main.generation,
                            !.generations = IF d.main = None THEN @ + 1 ELSE @]
  BY DEF Opened
<1>5. d.main # None => main = d.main
  OBVIOUS
<1> HIDE DEF main, wide
<1>6. QED BY <1>2, <1>3, <1>4, <1>5 DEF Disks, SameSessions

-----------------------------------------------------------------------------
(* The steps *)

LEMMA StartStep ==
  ASSUME IInv, Start
  PROVE  IInv'
<1>1. TypeOK /\ Shape /\ FilesInv /\ PriorOK /\ LossesInv /\ \A db \in Databases(disk) : DbOK(db)
  BY DEF IInv
<1>2. /\ proc.phase = "down" /\ UNCHANGED <<disk, now, lost>>
      /\ proc.id \in Nat /\ now \in Nat
      /\ \E phase \in {"opening", "staging"} :
           proc' = [phase |-> phase, id |-> proc.id + 1, started |-> now, status |-> "none", verified |-> 0,
                    open |-> FALSE, outage |-> -1, prior |-> {}, probe |-> None, known |-> "none",
                    command |-> FALSE, archive |-> 0]
  BY <1>1 DEF Start, Down, TypeOK, Procs
<1>3. TypeOK'
  BY <1>1, <1>2 DEF TypeOK, Procs, Starting, Copying, Statuses
<1>4. Shape'
  <2>1. /\ proc'.phase \in {"opening", "staging"} /\ proc'.started = now /\ ~proc'.open
        /\ proc'.verified = 0 /\ proc'.outage = -1 /\ ~Outage(proc') /\ now' = now /\ now \in Nat
    BY <1>2 DEF Outage
  <2>2. QED BY <2>1 DEF Shape
<1>5. FilesInv'
  BY <1>1, <1>2 DEF FilesInv, Copying, Kept
<1>6. PriorOK'
  BY <1>1, <1>2 DEF PriorOK, Stored
<1>7. LossesInv'
  BY <1>1, <1>2 DEF LossesInv, TypeOK, Starting, Copying
<1>8. \A db \in Databases(disk') : DbOK(db)'
  BY <1>1, <1>2, DbStarts, DatabasesAre DEF TypeOK
<1>9. QED BY <1>3, <1>4, <1>5, <1>6, <1>7, <1>8 DEF IInv

LEMMA FailureStep ==
  ASSUME IInv, NEW p \in Procs, p = [proc EXCEPT !.known = p.known],
         NEW kind \in {"availability", "manual_intervention", "fatal"},
         proc.phase \in {"opening", "marking", "reconciling", "running", "cutover"},
         Fails(p, kind), now' = now, lost' = lost \/ (proc.phase = "running" /\ Loses)
  PROVE  IInv'
<1>1. TypeOK /\ Shape /\ FilesInv /\ PriorOK /\ LossesInv /\ \A db \in Databases(disk) : DbOK(db)
  BY DEF IInv
<1>2. /\ disk \in Disks /\ proc \in Procs /\ now \in Nat /\ lost \subseteq [time : Nat, by : Nat]
      /\ proc.id \in Nat /\ proc.started \in Nat /\ proc.open \in BOOLEAN /\ proc.outage \in Nat \cup {-1}
  BY <1>1 DEF TypeOK, Procs
<1>3. /\ p.phase = proc.phase /\ p.id = proc.id /\ p.started = proc.started /\ p.open = proc.open
      /\ p.verified = proc.verified /\ p.outage = proc.outage
  BY <1>2 DEF Procs
<1>4. /\ disk' \in Disks /\ disk'.staging = disk.staging /\ disk'.preserved = disk.preserved
      /\ disk'.aside = disk.aside /\ disk'.generations = disk.generations
      /\ disk'.main = None <=> disk.main = None
      /\ disk.main # None => SameSessions(disk.main, disk'.main)
      /\ disk' = disk \/ (disk'.main # None /\ ~disk'.main.wal)
  <2>1. CASE proc.open
    BY <1>1, <1>2, <1>3, <2>1, ReleasedIs DEF Shape, Fails
  <2>2. CASE ~proc.open
    BY <1>2, <1>3, <2>2 DEF Fails, Disks, SameSessions
  <2>3. QED BY <1>2, <2>1, <2>2
<1>5. \A n \in Databases(disk') : \E db \in Databases(disk) : db \in DB /\ SameSessions(db, n)
  BY <1>2, <1>4 DEF Databases, SameSessions, Disks, Archives
<1>6. FilesInv' /\ disk'.generations = disk.generations
  <2>1. proc'.phase \in {"running", "down"}
    BY DEF Fails, Degraded, Down, Procs
  <2>2. Kept(Archive(disk'.main, disk'.side)) /\ Kept(disk'.aside)
    BY <1>1, <1>4 DEF FilesInv, Kept, Archive
  <2>3. \A n \in Databases(disk') : n.generation <= disk'.generations
    BY <1>1, <1>4, <1>5 DEF FilesInv, SameSessions
  <2>4. QED BY <1>1, <1>4, <2>1, <2>2, <2>3 DEF FilesInv, Copying, SameSessions
<1>7. TypeOK' /\ Shape' /\ PriorOK' /\ LossesInv' /\ (Ends \/ Goes)
  <2>1. ASSUME kind = "fatal"
        PROVE  TypeOK' /\ Shape' /\ PriorOK' /\ LossesInv' /\ Ends
    <3>1. /\ proc' = Down(proc.id) /\ proc'.phase = "down" /\ proc'.status = "none" /\ ~proc'.open
          /\ proc'.started = 0 /\ proc'.outage = -1 /\ ~Outage(proc') /\ proc'.id = proc.id
      BY <1>3, <2>1 DEF Fails, Down, Outage
    <3>2. proc' \in Procs
      BY <1>2, <3>1 DEF Down, Procs, Statuses
    <3>3. TypeOK'
      BY <1>2, <1>4, <3>2 DEF TypeOK, Loses
    <3>4. Shape'
      BY <1>2, <3>1 DEF Shape, Starting, Copying
    <3>5. PriorOK'
      BY <3>1 DEF PriorOK, Stored
    <3>6. LossesInv'
      BY <1>1, <1>2, <3>1 DEF LossesInv, Starting, Copying, Loses
    <3>7. Ends
      BY <3>1 DEF Ends
    <3>8. QED BY <3>3, <3>4, <3>5, <3>6, <3>7
  <2>2. ASSUME kind # "fatal"
        PROVE  TypeOK' /\ Shape' /\ PriorOK' /\ LossesInv' /\ Goes
    <3>1. /\ proc' = [p EXCEPT !.phase = "running", !.status = proc'.status, !.open = FALSE, !.prior = {},
                               !.probe = None, !.outage = IF @ = -1 THEN now ELSE @]
          /\ proc'.status \in {"degraded", "manual"}
      <4>1. PICK status \in {"degraded", "manual"} : proc' = Degraded(p, status)
        BY <2>2 DEF Fails
      <4>2. QED BY <4>1 DEF Degraded, Procs
    <3>2. /\ proc'.phase = "running" /\ ~proc'.open /\ proc'.id = proc.id /\ proc'.started = proc.started
          /\ proc'.verified = proc.verified /\ Outage(proc')
          /\ proc'.outage = IF proc.outage = -1 THEN now ELSE proc.outage
      BY <1>3, <3>1 DEF Procs, Outage
    <3>3. proc' \in Procs
      BY <1>2, <3>1 DEF Procs, Statuses
    <3>4. TypeOK'
      BY <1>2, <1>4, <3>3 DEF TypeOK, Loses
    <3>5. Shape'
      <4>1. /\ proc'.outage # -1 /\ proc'.started <= proc'.outage /\ proc'.outage <= now'
            /\ proc'.started <= now'
        BY <1>1, <1>2, <3>2 DEF Shape
      <4>2. QED BY <3>1, <3>2, <4>1 DEF Shape, Starting, Copying
    <3>6. PriorOK'
      BY <3>1, <3>2 DEF PriorOK, Stored
    <3>7. Goes
      BY <1>1, <1>2, <3>2 DEF Goes, Shape
    <3>8. LossesInv'
      BY <1>1, <1>2, <3>2 DEF LossesInv, Shape, Starting, Copying, Loses
    <3>9. QED BY <3>4, <3>5, <3>6, <3>7, <3>8
  <2>3. QED BY <2>1, <2>2
<1>8. \A n \in Databases(disk') : DbOK(n)'
  <2>1. TAKE n \in Databases(disk')
  <2>2. PICK db \in Databases(disk) : db \in DB /\ SameSessions(db, n)
    BY <1>5
  <2>3. DbOK(db)'
    BY <1>1, <1>7, <2>2, DbEnds, DbGoes
  <2>4. QED BY <2>2, <2>3, DbSame
<1>9. QED BY <1>6, <1>7, <1>8 DEF IInv

LEMMA OpenStep ==
  ASSUME IInv, Open
  PROVE  IInv'
<1>1. TypeOK /\ Shape /\ FilesInv /\ PriorOK /\ LossesInv /\ \A db \in Databases(disk) : DbOK(db)
  BY DEF IInv
<1>2. /\ disk \in Disks /\ proc \in Procs /\ now \in Nat /\ proc.id \in Nat /\ proc.started \in Nat
      /\ proc = [proc EXCEPT !.known = proc.known]
      /\ proc.phase = "opening" /\ now' = now /\ lost' = lost
  BY <1>1 DEF TypeOK, Procs, Open
<1>3. ASSUME NEW kind \in {"availability", "manual_intervention", "fatal"}, Fails(proc, kind)
      PROVE  IInv'
  BY <1>2, <1>3, FailureStep
<1> DEFINE opened == Opened(disk)
<1>4. ASSUME disk' = opened,
             proc' = [proc EXCEPT !.phase = "marking", !.open = TRUE,
                                  !.verified = opened.main.generation, !.prior = Unclosed(opened.main)]
      PROVE  IInv'
  <2>1. /\ disk' \in Disks /\ disk'.main \in DB /\ disk'.main # None
        /\ disk'.side = disk'.main.generation
        /\ disk.main # None => SameSessions(disk.main, disk'.main) /\ disk'.generations = disk.generations
        /\ disk.main = None =>
             /\ disk'.main.sessions = {} /\ disk'.main.gaps = {}
             /\ disk'.main.generation = disk.generations + 1
             /\ disk'.generations = disk.generations + 1
        /\ disk'.aside = disk.aside
    BY <1>2, <1>4, OpenedIs
  <2>2. /\ proc'.phase = "marking" /\ proc'.open /\ proc'.verified = disk'.main.generation
        /\ proc'.prior = Unclosed(disk'.main) /\ proc'.id = proc.id /\ proc'.started = proc.started
        /\ proc'.outage = proc.outage /\ ~Outage(proc') /\ ~Outage(proc)
    BY <1>2, <1>4 DEF Procs, Outage
  <2>3. proc' \in Procs
    <3>1. opened.main.generation \in Nat /\ Unclosed(opened.main) \in SUBSET Sessions
      BY <1>4, <2>1 DEF DB, Unclosed
    <3>2. QED BY <1>2, <1>4, <3>1 DEF Procs, Starting, Copying
  <2>4. TypeOK'
    BY <1>1, <1>2, <2>1, <2>3 DEF TypeOK
  <2>5. Shape'
    BY <1>1, <1>2, <2>1, <2>2 DEF Shape, Starting, Copying
  <2>6. FilesInv'
    <3>1. Kept(Archive(disk'.main, disk'.side)) /\ Kept(disk'.aside)
      BY <1>1, <2>1 DEF FilesInv, Kept, Archive
    <3>2. disk.generations \in Nat /\ (disk.aside.main # None => disk.aside.main.generation \in Nat)
      BY <1>2 DEF Disks, DB, Archives
    <3>3. \A n \in Databases(disk') : n.generation <= disk'.generations
      BY <1>1, <2>1, <3>2 DEF FilesInv, SameSessions, Databases
    <3>4. disk'.aside.main # None => disk'.main.generation # disk'.aside.main.generation
      BY <1>1, <2>1, <3>2 DEF FilesInv, SameSessions, Databases
    <3>5. QED BY <2>2, <3>1, <3>3, <3>4 DEF FilesInv, Copying
  <2>7. PriorOK'
    BY <2>2 DEF PriorOK, Stored
  <2>8. LossesInv'
    BY <1>1, <1>2, <2>2 DEF LossesInv, Starting, Copying
  <2>9. Goes
    BY <1>1, <1>2, <2>2 DEF Goes, Shape, Starting, Copying
  <2>10. \A n \in Databases(disk') : DbOK(n)'
    <3>1. \A db \in Databases(disk) : DbOK(db)'
      BY <1>1, <1>2, <2>9, DbGoes, DatabasesAre
    <3>2. \A n : n = disk'.main => DbOK(n)'
      <4>1. ASSUME NEW n, n = disk'.main PROVE DbOK(n)'
        <5>1. CASE disk.main = None
          BY <2>1, <2>2, <4>1, <5>1, DbFresh
        <5>2. CASE disk.main # None
          <6>1. PICK db : db = disk.main
            OBVIOUS
          <6>2. db \in DB /\ DbOK(db)' /\ SameSessions(db, n)
            BY <1>2, <2>1, <3>1, <4>1, <5>2, <6>1, DatabasesAre DEF Disks
          <6>3. QED BY <6>2, DbSame
        <5>3. QED BY <5>1, <5>2
      <4>2. QED BY <4>1
    <3>3. QED BY <2>1, <3>1, <3>2 DEF Databases
  <2>11. QED BY <2>4, <2>5, <2>6, <2>7, <2>8, <2>10 DEF IInv
<1>5. QED BY <1>3, <1>4 DEF Open, RolledBack

\* A transaction of the database that is open.
Stores(new) ==
  /\ disk.main # None /\ disk' = [disk EXCEPT !.main = new]
  /\ new \in DB /\ new.generation = disk.main.generation /\ new.wal = disk.main.wal
  /\ proc'.phase = "reconciling" => proc.phase \in Starting
  /\ proc'.verified = new.generation

LEMMA StoresStep ==
  ASSUME IInv, NEW new, Stores(new), Works, DbOK(new)',
         \A db \in Databases(disk) : db.generation # new.generation => DbOK(db)',
         proc' \in Procs, Shape', PriorOK'
  PROVE  IInv'
<1>1. /\ TypeOK /\ FilesInv /\ LossesInv /\ disk \in Disks
  BY DEF IInv, TypeOK
<1>2. disk' \in Disks /\ disk'.main = new /\ disk'.side = disk.side /\ disk'.aside = disk.aside
      /\ disk'.generations = disk.generations /\ new # None
  BY <1>1, NoDatabase DEF Stores, Disks
<1>3. TypeOK'
  BY <1>1, <1>2 DEF TypeOK, Works
<1>4. FilesInv'
  <2>1. Kept(Archive(disk'.main, disk'.side)) /\ Kept(disk'.aside)
    BY <1>1, <1>2 DEF FilesInv, Kept, Archive, Stores
  <2>2. \A n \in Databases(disk') : n.generation <= disk'.generations
    BY <1>1, <1>2 DEF FilesInv, Stores, Databases
  <2>3. disk'.aside.main # None => disk'.main.generation # disk'.aside.main.generation
    BY <1>1, <1>2 DEF FilesInv, Stores, Databases
  <2>4. QED BY <2>1, <2>2, <2>3 DEF FilesInv, Copying, Works
<1>5. LossesInv'
  <2>1. proc'.verified # 0
    BY DEF Stores, DB
  <2>2. QED BY <1>1, <2>1 DEF LossesInv, Works, Stores, Starting, Copying
<1>6. \A n \in Databases(disk') : DbOK(n)'
  BY <1>1, <1>2 DEF Databases, FilesInv, Stores
<1>7. QED BY <1>3, <1>4, <1>5, <1>6 DEF IInv

LEMMA MarkStep ==
  ASSUME IInv, Mark
  PROVE  IInv'
<1>1. TypeOK /\ Shape /\ FilesInv /\ PriorOK /\ LossesInv /\ \A db \in Databases(disk) : DbOK(db)
  BY DEF IInv
<1>2. /\ disk \in Disks /\ proc \in Procs /\ now \in Nat /\ proc.id \in Nat /\ proc.started \in Nat
      /\ proc = [proc EXCEPT !.known = proc.known]
      /\ proc.phase = "marking" /\ now' = now /\ lost' = lost
  BY <1>1 DEF TypeOK, Procs, Mark
<1>3. ASSUME RolledBack(proc) PROVE IInv'
  BY <1>2, <1>3, FailureStep DEF RolledBack
<1>4. ASSUME disk' = [disk EXCEPT !.main = Activated(@, proc, proc.started)],
             proc' = [proc EXCEPT !.phase = "reconciling"]
      PROVE  IInv'
  <2>1. /\ disk.main # None /\ disk.main.generation = proc.verified /\ proc.started = now
        /\ ~Outage(proc)
    BY <1>1, <1>2 DEF Shape, Starting, Outage
  <2>2. PICK db : db = disk.main
    OBVIOUS
  <2>3. db \in DB /\ DbOK(db) /\ db \in Databases(disk)
    BY <1>1, <1>2, <2>1, <2>2, DatabasesAre DEF Disks
  <2>4. PICK new : new = Activated(db, proc, now)
    OBVIOUS
  <2>5. PICK m : Marker(db, proc, now, m) /\ MarkedAs(db, new, proc, m)
    BY <1>2, <2>3, <2>4, MarkedType DEF DbOK, SessionsOK
  <2>6. /\ proc'.phase = "reconciling" /\ proc'.id = proc.id /\ proc'.started = proc.started
        /\ proc'.verified = proc.verified /\ proc'.open = proc.open /\ proc'.outage = proc.outage
        /\ proc'.prior = proc.prior /\ ~Outage(proc')
    BY <1>2, <1>4 DEF Procs, Outage
  <2>7. Works /\ Goes
    BY <1>2, <2>1, <2>6 DEF Works, Goes
  <2>8. DbOK(new)'
    BY <1>1, <1>2, <2>1, <2>2, <2>3, <2>5, <2>6, <2>7, DbMarked
  <2>9. Stores(new) /\ disk'.main = new
    BY <1>2, <1>4, <2>1, <2>2, <2>4, <2>5, <2>6 DEF Stores, MarkedAs, Starting, Disks
  <2>10. \A d \in Databases(disk) : DbOK(d)'
    BY <1>1, <1>2, <2>7, DbGoes, DatabasesAre
  <2>11. proc' \in Procs
    BY <1>2, <1>4 DEF Procs, Starting
  <2>12. Shape'
    BY <1>1, <1>2, <2>1, <2>2, <2>5, <2>6, <2>9, NoDatabase DEF Shape, Starting, Copying, MarkedAs
  <2>13. PriorOK'
    <3>1. \A s \in db.sessions : s.id # proc.id
      BY <1>2, <2>3 DEF DbOK, SessionsOK
    <3>2. new.sessions = db.sessions \cup {m} /\ m.id = proc.id
      BY <2>5, <3>1 DEF MarkedAs, Marker
    <3>3. proc.prior = Unclosed(db)
      BY <1>1, <1>2, <2>2 DEF PriorOK
    <3>4. proc.prior = {s \in Unclosed(new) : s.id # proc.id}
      BY <3>1, <3>2, <3>3 DEF Unclosed
    <3>5. Others(disk.main)' = {s \in Unclosed(new) : s.id # proc.id}
      BY <2>6, <2>9 DEF Others
    <3>6. QED BY <2>6, <3>4, <3>5 DEF PriorOK, Stored
  <2>14. QED BY <2>7, <2>8, <2>9, <2>10, <2>11, <2>12, <2>13, StoresStep
<1>5. QED BY <1>3, <1>4 DEF Mark

LEMMA ReconcileStep ==
  ASSUME IInv, Reconcile
  PROVE  IInv'
<1>1. TypeOK /\ Shape /\ FilesInv /\ PriorOK /\ LossesInv /\ \A db \in Databases(disk) : DbOK(db)
  BY DEF IInv
<1>2. /\ disk \in Disks /\ proc \in Procs /\ now \in Nat /\ proc.id \in Nat /\ proc.started \in Nat
      /\ proc = [proc EXCEPT !.known = proc.known]
      /\ proc.phase = "reconciling" /\ now' = now /\ lost' = lost
  BY <1>1 DEF TypeOK, Procs, Reconcile
<1>3. Restored(proc) \in Procs /\ Restored(proc) = [proc EXCEPT !.known = Restored(proc).known]
  BY <1>2 DEF Restored, Procs
<1>4. ASSUME NEW p \in {proc, Restored(proc)}, RolledBack(p) PROVE IInv'
  BY <1>2, <1>3, <1>4, FailureStep DEF RolledBack
<1>5. ASSUME disk' = IF proc.prior = {} THEN disk
                     ELSE [disk EXCEPT !.main =
                             Reconciled(@, proc, GapStart(proc.prior), proc.prior, proc.started)],
             proc' = [Restored(proc) EXCEPT !.phase = "running", !.status = "available", !.prior = {}]
      PROVE  IInv'
  <2>1. /\ disk.main # None /\ disk.main.generation = proc.verified /\ proc.started = now
        /\ proc.open /\ ~Outage(proc) /\ proc.prior = Others(disk.main)
    BY <1>1, <1>2 DEF Shape, Starting, Outage, PriorOK
  <2>2. PICK db : db = disk.main
    OBVIOUS
  <2>3. db \in DB /\ DbOK(db) /\ db \in Databases(disk)
    BY <1>1, <1>2, <2>1, <2>2, DatabasesAre DEF Disks
  <2>4. /\ proc'.phase = "running" /\ proc'.status = "available" /\ proc'.id = proc.id
        /\ proc'.started = proc.started /\ proc'.verified = proc.verified /\ proc'.open
        /\ proc'.outage = proc.outage /\ ~Outage(proc')
    BY <1>2, <1>3, <1>5, <2>1 DEF Procs, Outage, Restored
  <2>5. Works /\ Goes
    BY <1>2, <2>1, <2>4 DEF Works, Goes
  <2>6. proc' \in Procs
    BY <1>3, <1>5 DEF Procs, Statuses
  <2>7. \A d \in Databases(disk) : DbOK(d)'
    BY <1>1, <1>2, <2>5, DbGoes, DatabasesAre
  <2>8. \A new : disk'.main = new /\ Stores(new) => Shape'
    BY <1>1, <1>2, <2>1, <2>4, NoDatabase DEF Shape, Starting, Copying, Stores
  <2>9. CASE proc.prior = {}
    <3>1. disk' = disk /\ Stores(db) /\ disk'.main = db
      BY <1>2, <1>5, <2>1, <2>2, <2>3, <2>4, <2>9 DEF Stores, Disks
    <3>2. Others(disk.main)' = Others(disk.main)
      BY <2>4, <3>1 DEF Others
    <3>3. PriorOK'
      BY <2>1, <2>4, <2>9, <3>2 DEF PriorOK
    <3>4. QED BY <2>3, <2>5, <2>6, <2>7, <2>8, <3>1, <3>3, StoresStep
  <2>10. CASE proc.prior # {}
    <3>1. PICK from : from = GapStart(proc.prior)
      OBVIOUS
    <3>2. PICK new : new = Reconciled(db, proc, from, proc.prior, now)
      OBVIOUS
    <3>3. /\ proc.prior = {s \in Unclosed(db) : s.id # proc.id}
          /\ Others(db) = proc.prior /\ proc.prior \in SUBSET Sessions
      BY <1>2, <2>1, <2>2 DEF Others, Procs
    <3>4. /\ from \in Nat /\ \A s \in proc.prior : from <= Bound(s)
          /\ \E s \in proc.prior : from = Bound(s)
      BY <2>10, <3>1, <3>3, GapStartType
    <3>5. from <= now /\ \A g \in db.gaps : g.to <= from
      <4>1. PICK s \in proc.prior : from = Bound(s)
        BY <3>4
      <4>2. s \in Unclosed(db) /\ s \in db.sessions /\ s.id # proc.id /\ Bound(s) \in {s.started, s.last}
        BY <3>3, <4>1, BoundType DEF Unclosed
      <4>3. QED BY <1>2, <2>3, <4>1, <4>2 DEF DbOK, SessionsOK, GapsOK
    <3>6. PICK m : /\ Marker(db, proc, now, m)
                   /\ ReconciledAs(db, new, proc, m, [from |-> from, to |-> now])
      <4>1. from \in Int
        BY <3>4
      <4>2. QED BY <1>2, <2>3, <3>2, <3>3, <4>1, ReconciledType DEF DbOK, SessionsOK
    <3>7. \A loss \in lost : loss.by # proc.id
      BY <1>1, <1>2 DEF LossesInv, Starting
    <3>8. DbOK(new)'
      <4>1. from \in Int
        BY <3>4
      <4>2. QED BY <1>1, <2>1, <2>2, <2>3, <2>4, <2>5, <3>3, <3>4, <3>5, <3>6, <3>7, <4>1, DbReconciled
    <3>9. Stores(new) /\ disk'.main = new
      BY <1>2, <1>5, <2>1, <2>2, <2>4, <2>10, <3>1, <3>2, <3>6 DEF Stores, ReconciledAs, Disks
    <3>10. Others(disk.main)' = {}
      <4>1. \A s \in Unclosed(new) : s.id = proc.id
        BY <3>6 DEF ReconciledAs, Unclosed, Marker
      <4>2. QED BY <2>4, <3>9, <4>1 DEF Others
    <3>11. PriorOK'
      BY <2>4, <3>10 DEF PriorOK
    <3>12. QED BY <2>5, <2>6, <2>7, <2>8, <3>8, <3>9, <3>11, StoresStep
  <2>11. QED BY <2>9, <2>10
<1>6. QED BY <1>4, <1>5 DEF Reconcile

\* Only the commands of the process change.
Commands == proc' = [proc EXCEPT !.known = proc'.known, !.command = proc'.command] /\ proc' \in Procs

LEMMA StoredStep ==
  ASSUME IInv, Stored(proc), Commands, now' = now, lost' = lost, NEW new, NEW c \in BOOLEAN,
         disk' = [disk EXCEPT !.main = new],
         \/ new = Activated(disk.main, proc, now)
         \/ new = [Activated(disk.main, proc, now) EXCEPT !.command = c]
  PROVE  IInv'
<1>1. TypeOK /\ Shape /\ FilesInv /\ PriorOK /\ LossesInv /\ \A db \in Databases(disk) : DbOK(db)
  BY DEF IInv
<1>2. /\ disk \in Disks /\ proc \in Procs /\ now \in Nat /\ proc.id \in Nat /\ proc.started \in Nat
      /\ proc.phase = "running" /\ proc.status = "available" /\ ~Outage(proc)
  BY <1>1 DEF TypeOK, Procs, Stored, Outage
<1>3. /\ disk.main # None /\ disk.main.generation = proc.verified /\ proc.open
  BY <1>1, <1>2 DEF Shape
<1>4. PICK db : db = disk.main
  OBVIOUS
<1>5. db \in DB /\ DbOK(db) /\ db \in Databases(disk)
  BY <1>1, <1>2, <1>3, <1>4, DatabasesAre DEF Disks
<1>6. PICK m : Marker(db, proc, now, m) /\ MarkedAs(db, new, proc, m)
  <2>1. PICK m : Marker(db, proc, now, m) /\ MarkedAs(db, Activated(db, proc, now), proc, m)
    BY <1>2, <1>5, MarkedType DEF DbOK, SessionsOK
  <2>2. PICK marked : marked = Activated(db, proc, now)
    OBVIOUS
  <2>3. MarkedAs(db, marked, proc, m) /\ (new = marked \/ new = [marked EXCEPT !.command = c])
    BY <1>4, <2>1, <2>2
  <2>4. MarkedAs(db, new, proc, m)
    BY <2>3 DEF MarkedAs, DB
  <2>5. QED BY <2>1, <2>4
<1>7. /\ proc'.phase = "running" /\ proc'.status = "available" /\ proc'.id = proc.id
      /\ proc'.started = proc.started /\ proc'.verified = proc.verified /\ proc'.open = proc.open
      /\ proc'.outage = proc.outage /\ ~Outage(proc')
  BY <1>2 DEF Commands, Procs, Outage
<1>8. Works /\ Goes
  BY <1>2, <1>7 DEF Works, Goes
<1>9. DbOK(new)'
  BY <1>1, <1>2, <1>3, <1>4, <1>5, <1>6, <1>7, <1>8, DbMarked
<1>10. Stores(new) /\ disk'.main = new
  BY <1>2, <1>3, <1>4, <1>6, <1>7 DEF Stores, MarkedAs, Disks
<1>11. \A d \in Databases(disk) : DbOK(d)'
  BY <1>1, <1>2, <1>8, DbGoes, DatabasesAre
<1>12. Shape'
  BY <1>1, <1>2, <1>3, <1>4, <1>6, <1>7, <1>10, NoDatabase DEF Shape, Starting, Copying, MarkedAs
<1>13. PriorOK'
  <2>1. Others(db) = {}
    BY <1>1, <1>2, <1>4 DEF PriorOK, Stored
  <2>2. \A s \in Unclosed(new) : s.id = proc.id
    BY <1>6, <2>1 DEF Others, Unclosed, MarkedAs, Marker
  <2>3. Others(disk.main)' = {}
    BY <1>7, <1>10, <2>2 DEF Others
  <2>4. QED BY <1>7, <2>3 DEF PriorOK
<1>14. QED BY <1>8, <1>9, <1>10, <1>11, <1>12, <1>13, StoresStep DEF Commands

LEMMA IdleStep ==
  ASSUME IInv, Commands, disk' = disk, now' = now, proc.phase = "running",
         lost' = lost \/ (~Stored(proc) /\ Loses)
  PROVE  IInv'
<1>1. TypeOK /\ Shape /\ FilesInv /\ PriorOK /\ LossesInv /\ \A db \in Databases(disk) : DbOK(db)
  BY DEF IInv
<1>2. /\ disk \in Disks /\ proc \in Procs /\ now \in Nat /\ proc.id \in Nat /\ proc.started \in Nat
      /\ lost \subseteq [time : Nat, by : Nat]
  BY <1>1 DEF TypeOK, Procs
<1>3. /\ proc'.phase = "running" /\ proc'.status = proc.status /\ proc'.id = proc.id
      /\ proc'.started = proc.started /\ proc'.verified = proc.verified /\ proc'.open = proc.open
      /\ proc'.outage = proc.outage /\ proc'.prior = proc.prior /\ proc'.probe = proc.probe
      /\ (Outage(proc') <=> Outage(proc)) /\ (Stored(proc') <=> Stored(proc))
      /\ (~Stored(proc) => Outage(proc))
  BY <1>2 DEF Commands, Procs, Outage, Stored
<1>4. TypeOK'
  BY <1>1, <1>2 DEF TypeOK, Commands, Loses
<1>5. Shape'
  BY <1>1, <1>3 DEF Shape, Starting, Copying
<1>6. FilesInv'
  BY <1>1, <1>3 DEF FilesInv, Copying
<1>7. PriorOK'
  BY <1>1, <1>3 DEF PriorOK, Others
<1>8. LossesInv'
  BY <1>1, <1>2, <1>3 DEF LossesInv, Loses, Starting, Copying, Shape
<1>9. Goes
  BY <1>2, <1>3 DEF Goes
<1>10. \A d \in Databases(disk') : DbOK(d)'
  BY <1>1, <1>2, <1>9, DbGoes, DatabasesAre
<1>11. QED BY <1>4, <1>5, <1>6, <1>7, <1>8, <1>10 DEF IInv

LEMMA ObserveStep ==
  ASSUME IInv, Observe
  PROVE  IInv'
<1>1. proc \in Procs /\ proc.phase = "running" /\ now' = now
  BY DEF IInv, TypeOK, Observe
<1>2. proc = [proc EXCEPT !.known = proc.known, !.command = proc.command]
      /\ proc = [proc EXCEPT !.known = proc.known]
  BY <1>1 DEF Procs
<1>3. CASE Stored(proc) /\ disk' = [disk EXCEPT !.main = Activated(@, proc, now)] /\ proc' = proc /\ lost' = lost
  BY <1>1, <1>2, <1>3, StoredStep DEF Commands
<1>4. CASE Stored(proc) /\ RolledBack(proc) /\ Loses
  BY <1>1, <1>2, <1>4, FailureStep DEF RolledBack
<1>5. CASE ~Stored(proc) /\ Loses /\ disk' = disk /\ proc' = proc
  BY <1>1, <1>2, <1>5, IdleStep DEF Commands
<1>6. QED BY <1>3, <1>4, <1>5 DEF Observe, Loses

LEMMA RequestStep ==
  ASSUME IInv, Request
  PROVE  IInv'
<1>1. proc \in Procs /\ proc.phase = "running" /\ now' = now /\ lost' = lost
  BY DEF IInv, TypeOK, Request
<1>2. CASE /\ Stored(proc)
           /\ disk' = [disk EXCEPT !.main = [Activated(@, proc, now) EXCEPT !.command = TRUE]]
           /\ proc' = [proc EXCEPT !.known = "active"]
  <2>1. Commands
    BY <1>1, <1>2 DEF Commands, Procs
  <2>2. QED BY <1>1, <1>2, <2>1, StoredStep
<1>3. CASE proc' = [proc EXCEPT !.command = TRUE] /\ disk' = disk
  <2>1. Commands
    BY <1>1, <1>3 DEF Commands, Procs
  <2>2. QED BY <1>1, <1>3, <2>1, IdleStep
<1>4. QED BY <1>2, <1>3 DEF Request

LEMMA SettleStep ==
  ASSUME IInv, Settle
  PROVE  IInv'
<1>1. proc \in Procs /\ proc.phase = "running" /\ now' = now /\ lost' = lost
  BY DEF IInv, TypeOK, Settle
<1>2. CASE proc' = [proc EXCEPT !.command = FALSE] /\ disk' = disk
  <2>1. Commands
    BY <1>1, <1>2 DEF Commands, Procs
  <2>2. QED BY <1>1, <1>2, <2>1, IdleStep
<1>3. CASE /\ proc' = [proc EXCEPT !.known = IF Stored(proc) THEN "none" ELSE "settled"]
           /\ disk' = IF Stored(proc)
                      THEN [disk EXCEPT !.main = [Activated(@, proc, now) EXCEPT !.command = FALSE]] ELSE disk
  <2>1. Commands
    BY <1>1, <1>3 DEF Commands, Procs
  <2>2. CASE Stored(proc)
    BY <1>1, <1>3, <2>1, <2>2, StoredStep
  <2>3. CASE ~Stored(proc)
    BY <1>1, <1>3, <2>1, <2>3, IdleStep
  <2>4. QED BY <2>2, <2>3
<1>4. QED BY <1>2, <1>3 DEF Settle

\* The process goes on without a step of its database.
LEMMA ProceedStep ==
  ASSUME IInv, disk' = disk, proc' \in Procs, proc'.phase \in {"running", "cutover"}, Goes,
         Shape', PriorOK', LossesInv'
  PROVE  IInv'
<1>1. TypeOK /\ Shape /\ FilesInv /\ PriorOK /\ LossesInv /\ \A db \in Databases(disk) : DbOK(db)
  BY DEF IInv
<1>2. disk \in Disks /\ now \in Nat /\ proc.id \in Nat /\ lost \subseteq [time : Nat, by : Nat]
  BY <1>1 DEF TypeOK, Procs
<1>3. TypeOK'
  BY <1>2 DEF TypeOK, Goes, Loses
<1>4. FilesInv'
  BY <1>1 DEF FilesInv, Copying
<1>5. \A d \in Databases(disk') : DbOK(d)'
  BY <1>1, <1>2, DbGoes, DatabasesAre
<1>6. QED BY <1>3, <1>4, <1>5 DEF IInv

LEMMA ProbeStep ==
  ASSUME IInv, Probe
  PROVE  IInv'
<1>1. TypeOK /\ Shape /\ FilesInv /\ PriorOK /\ LossesInv /\ \A db \in Databases(disk) : DbOK(db)
  BY DEF IInv
<1>2. /\ disk \in Disks /\ proc \in Procs /\ now \in Nat /\ proc.id \in Nat /\ proc.started \in Nat
      /\ proc = [proc EXCEPT !.known = proc.known]
      /\ proc.phase = "running" /\ proc.status \in {"degraded", "recovering"}
      /\ Outage(proc) /\ now' = now /\ lost' = lost
      /\ lost \subseteq [time : Nat, by : Nat]
  BY <1>1 DEF TypeOK, Procs, Probe, Automatic, Outage
<1>3. ASSUME NEW kind \in {"availability", "manual_intervention", "fatal"}, Fails(proc, kind)
      PROVE  IInv'
  BY <1>2, <1>3, FailureStep
<1>4. ASSUME disk' = disk, proc' \in Procs,
             /\ proc'.phase = "cutover" /\ proc'.status = "recovering"
             /\ proc'.id = proc.id /\ proc'.started = proc.started
             /\ proc'.open = proc.open /\ proc'.outage = proc.outage
             /\ proc'.probe # None /\ proc.verified \in {0, proc'.verified},
             PriorOK'
      PROVE  IInv'
  <2>1. Outage(proc')
    BY <1>4 DEF Outage
  <2>2. Shape'
    BY <1>1, <1>2, <1>4, <2>1 DEF Shape, Starting, Copying
  <2>3. LossesInv'
    BY <1>1, <1>2, <1>4, <2>1 DEF LossesInv, Starting, Copying
  <2>4. Goes
    BY <1>2, <1>4, <2>1 DEF Goes
  <2>5. QED BY <1>4, <2>2, <2>3, <2>4, ProceedStep
<1>5. ASSUME Inspected(disk) = "existing", proc.verified \in {0, disk.main.generation},
             proc' = [proc EXCEPT !.phase = "cutover", !.verified = disk.main.generation,
                                  !.prior = {s \in Unclosed(disk.main) : s.id # proc.id},
                                  !.probe = [kind |-> "existing_generation", command |-> disk.main.command,
                                             status |-> proc.status],
                                  !.status = "recovering"],
             disk' = disk
      PROVE  IInv'
  <2>1. disk.main \in DB /\ disk.main # None
    BY <1>2, <1>5 DEF Inspected, Disks
  <2>2. PICK probe : probe = [kind |-> "existing_generation", command |-> disk.main.command,
                              status |-> proc.status]
    OBVIOUS
  <2>3. probe \in Probes /\ probe # None /\ probe.kind = "existing_generation"
    BY <1>2, <2>1, <2>2 DEF Probes, DB, None
  <2>4. disk.main.generation \in Nat /\ {s \in Unclosed(disk.main) : s.id # proc.id} \in SUBSET Sessions
    BY <2>1 DEF DB, Unclosed
  <2>5. /\ proc' \in Procs
        /\ proc'.phase = "cutover" /\ proc'.status = "recovering"
        /\ proc'.id = proc.id /\ proc'.started = proc.started
        /\ proc'.open = proc.open /\ proc'.outage = proc.outage
        /\ proc'.probe = probe /\ proc'.verified = disk.main.generation
        /\ proc'.prior = {s \in Unclosed(disk.main) : s.id # proc.id}
    BY <1>2, <1>5, <2>2, <2>3, <2>4 DEF Procs, Statuses
  <2>6. PriorOK'
    <3>1. proc'.prior = Others(disk.main)'
      BY <1>5, <2>5 DEF Others
    <3>2. \A db \in Databases(disk) : db.generation = disk.main.generation => db = disk.main
      BY <1>1, <2>1 DEF FilesInv, Databases
    <3>3. QED BY <1>5, <2>3, <2>5, <3>1, <3>2 DEF PriorOK, Stored
  <2>7. QED BY <1>4, <1>5, <2>3, <2>5, <2>6
<1>6. ASSUME Inspected(disk) = "pristine", proc.verified = 0, disk' = disk,
             proc' = [proc EXCEPT !.phase = "cutover", !.status = "recovering", !.prior = {},
                                  !.probe = [kind |-> "first_initialization", command |-> FALSE,
                                             status |-> proc.status]]
      PROVE  IInv'
  <2>1. PICK probe : probe = [kind |-> "first_initialization", command |-> FALSE, status |-> proc.status]
    OBVIOUS
  <2>2. probe \in Probes /\ probe # None /\ probe.kind = "first_initialization"
    BY <1>2, <2>1 DEF Probes, None
  <2>3. /\ proc' \in Procs
        /\ proc'.phase = "cutover" /\ proc'.status = "recovering"
        /\ proc'.id = proc.id /\ proc'.started = proc.started
        /\ proc'.open = proc.open /\ proc'.outage = proc.outage
        /\ proc'.probe = probe /\ proc'.verified = 0 /\ proc'.prior = {}
    BY <1>2, <1>6, <2>1, <2>2 DEF Procs, Statuses
  <2>4. PriorOK'
    BY <2>2, <2>3 DEF PriorOK, Stored
  <2>5. QED BY <1>4, <1>6, <2>2, <2>3, <2>4
<1>7. QED BY <1>2, <1>3, <1>5, <1>6 DEF Probe, RolledBack

LEMMA AbortStep ==
  ASSUME IInv, NEW status \in {"degraded", "recovering"}, proc.phase = "cutover",
         proc' = Aborted(proc, status), UNCHANGED <<disk, now, lost>>
  PROVE  IInv'
<1>1. TypeOK /\ Shape /\ FilesInv /\ PriorOK /\ LossesInv
  BY DEF IInv
<1>2. /\ proc \in Procs /\ now \in Nat /\ Outage(proc)
  BY <1>1 DEF TypeOK, Shape, Outage
<1>3. /\ proc' \in Procs /\ proc'.phase = "running" /\ proc'.status = status
      /\ proc'.id = proc.id /\ proc'.started = proc.started /\ proc'.verified = proc.verified
      /\ proc'.open = proc.open /\ proc'.outage = proc.outage /\ Outage(proc')
  BY <1>2 DEF Aborted, Procs, Statuses, Outage
<1>4. Shape'
  BY <1>1, <1>2, <1>3 DEF Shape, Starting, Copying
<1>5. PriorOK'
  BY <1>3 DEF PriorOK, Stored
<1>6. LossesInv'
  BY <1>1, <1>2, <1>3 DEF LossesInv, Starting, Copying
<1>7. Goes
  BY <1>2, <1>3 DEF Goes
<1>8. QED BY <1>3, <1>4, <1>5, <1>6, <1>7, ProceedStep

LEMMA DbElsewhere ==
  ASSUME TypeOK, Shape, LossesInv, NEW db \in DB, DbOK(db), proc.phase = "cutover",
         proc'.id = proc.id, proc'.started = proc.started, proc'.phase = "running", ~Outage(proc'),
         lost' = lost, now' = now,
         proc.verified \in {0, proc'.verified}, db.generation # proc'.verified
  PROVE  DbOK(db)'
<1>1. db.generation \in Nat \ {0}
  BY DEF DB
<1>2. SessionsOK(db)'
  BY <1>1 DEF DbOK, SessionsOK
<1>3. GapsOK(db)'
  BY DEF DbOK, GapsOK
<1>4. LossesOK(db)'
  BY DEF DbOK, LossesOK
<1>5. QED BY <1>2, <1>3, <1>4 DEF DbOK

\* What a cutover finds in the database, and where the gap it records begins.
CutsFrom(db, from) ==
  /\ from \in Int /\ from <= now
  /\ \A g \in db.gaps : g.to <= from
  /\ \A s \in Others(db) : from <= Bound(s)
  /\ \A loss \in lost : loss.by = proc.id => CoveredIn(db, loss.time) \/ from <= loss.time

LEMMA CutoverGap ==
  ASSUME IInv, proc.phase = "cutover", NEW db \in DB, DbOK(db), proc.prior = Others(db),
         db.generation = proc.verified \/ (proc.verified = 0 /\ db.gaps = {})
  PROVE  CutsFrom(db, IF proc.prior # {} THEN GapStart(proc.prior) ELSE proc.outage)
<1>1. TypeOK /\ Shape /\ LossesInv
  BY DEF IInv
<1>2. /\ proc \in Procs /\ now \in Nat /\ proc.started \in Nat /\ proc.prior \in SUBSET Sessions
      /\ Outage(proc) /\ proc.outage \in Nat /\ proc.started <= proc.outage /\ proc.outage <= now
      /\ lost \subseteq [time : Nat, by : Nat]
  BY <1>1 DEF TypeOK, Procs, Shape, Outage
<1>3. \A loss \in lost : loss.by = proc.id => CoveredIn(db, loss.time) \/ proc.outage <= loss.time
  BY <1>1, <1>2 DEF DbOK, LossesOK, LossesInv
<1>4. db.gaps \subseteq Gaps
  BY DEF DB
<1>5. \A g \in db.gaps : g.to <= proc.outage
  BY <1>2 DEF DbOK, GapsOK
<1>6. CASE proc.prior = {}
  BY <1>2, <1>3, <1>5, <1>6 DEF CutsFrom
<1>7. CASE proc.prior # {}
  <2>1. PICK from : from = GapStart(proc.prior)
    OBVIOUS
  <2>2. from \in Nat /\ \A s \in proc.prior : from <= Bound(s)
    BY <1>2, <1>7, <2>1, GapStartType
  <2>3. PICK s \in proc.prior : from = Bound(s)
    BY <1>2, <1>7, <2>1, GapStartType
  <2>4. s \in Unclosed(db) /\ s \in db.sessions /\ s.id # proc.id /\ Bound(s) \in {s.started, s.last}
    BY <1>2, <2>3, BoundType DEF Unclosed, Others
  <2>5. from <= proc.started
    BY <1>2, <2>3, <2>4 DEF DbOK, SessionsOK, Outage
  <2>6. \A g \in db.gaps : g.to <= from
    BY <2>3, <2>4 DEF DbOK, GapsOK
  <2>7. \A loss \in lost : loss.by = proc.id => CoveredIn(db, loss.time) \/ from <= loss.time
    BY <1>2, <1>3, <2>2, <2>5
  <2>8. QED BY <1>2, <1>7, <2>1, <2>2, <2>5, <2>6, <2>7 DEF CutsFrom
<1>8. QED BY <1>6, <1>7

LEMMA RecoveredStep ==
  ASSUME IInv, proc.phase = "cutover", Unchanged, now' = now, lost' = lost,
         disk' = Recovered(Opened(disk), proc),
         proc' = [Aborted(proc, "available") EXCEPT
                    !.open = TRUE, !.verified = disk'.main.generation, !.outage = -1,
                    !.known = IF disk'.main.command THEN "active" ELSE "none"]
  PROVE  IInv'
<1>1. TypeOK /\ Shape /\ FilesInv /\ PriorOK /\ LossesInv /\ \A db \in Databases(disk) : DbOK(db)
  BY DEF IInv
<1>2. /\ disk \in Disks /\ proc \in Procs /\ now \in Nat /\ proc.id \in Nat /\ proc.started \in Nat
      /\ lost \subseteq [time : Nat, by : Nat]
      /\ proc.probe \in Probes /\ disk.generations \in Nat
  BY <1>1 DEF TypeOK, Procs, Shape, Disks
<1>3. PICK opened : opened = Opened(disk)
  OBVIOUS
<1>4. /\ opened \in Disks /\ opened.main \in DB /\ opened.main # None
      /\ opened.side = opened.main.generation
      /\ disk.main # None => SameSessions(disk.main, opened.main) /\ opened.generations = disk.generations
      /\ disk.main = None =>
           /\ opened.main.sessions = {} /\ opened.main.gaps = {}
           /\ opened.main.generation = disk.generations + 1
           /\ opened.generations = disk.generations + 1
      /\ opened.aside = disk.aside
  BY <1>2, <1>3, OpenedIs
<1>5. PICK db : db = opened.main
  OBVIOUS
<1>6. /\ db \in DB /\ DbOK(db) /\ proc.prior = Others(db)
      /\ db.generation = proc.verified \/ (proc.verified = 0 /\ db.gaps = {})
      /\ disk.aside.main # None => disk.aside.main.generation # db.generation
      /\ \A d \in Databases(disk) : d.generation <= opened.generations
      /\ db.generation <= opened.generations
  <2>1. CASE proc.probe.kind = "existing_generation"
    <3>1. disk.main # None /\ disk.main.generation = proc.verified
      BY <2>1 DEF Unchanged
    <3>2. PICK old : old = disk.main
      OBVIOUS
    <3>3. old \in Databases(disk) /\ old \in DB /\ DbOK(old) /\ SameSessions(old, db)
      BY <1>1, <1>2, <1>4, <1>5, <3>1, <3>2, DatabasesAre
    <3>4. proc.prior = Others(old)
      BY <1>1, <2>1, <3>1, <3>2, <3>3 DEF PriorOK
    <3>5. DbOK(db) /\ Others(db) = Others(old) /\ db \in DB /\ db.generation = proc.verified
      BY <3>1, <3>2, <3>3, DbSame DEF SameSessions, Others, Unclosed
    <3>6. QED BY <1>1, <1>4, <3>1, <3>2, <3>3, <3>4, <3>5 DEF FilesInv
  <2>2. CASE proc.probe.kind = "first_initialization"
    <3>1. disk.main = None /\ proc.prior = {} /\ proc.verified = 0
      BY <1>1, <2>2 DEF Unchanged, PriorOK
    <3>2. db \in DB /\ db.sessions = {} /\ db.gaps = {} /\ db.generation = disk.generations + 1
      BY <1>4, <1>5, <3>1
    <3>3. DbOK(db)
      BY <1>2, <3>1, <3>2, DbFresh
    <3>4. Others(db) = {}
      BY <3>2 DEF Others, Unclosed
    <3>5. \A d \in Databases(disk) : d.generation \in Nat /\ d.generation <= disk.generations
      BY <1>1, <1>2, DatabasesAre DEF FilesInv, DB
    <3>6. QED BY <1>2, <1>4, <3>1, <3>2, <3>3, <3>4, <3>5, DatabasesAre
  <2>3. QED BY <1>2, <2>1, <2>2 DEF Probes
<1>7. PICK from : from = IF proc.prior # {} THEN GapStart(proc.prior) ELSE proc.outage
  OBVIOUS
<1>8. CutsFrom(db, from)
  BY <1>6, <1>7, CutoverGap
<1>9. PICK gapped : gapped = Reconciled(db, proc, from, proc.prior, now)
  OBVIOUS
<1>10. PICK m : /\ Marker(db, proc, now, m)
                /\ ReconciledAs(db, gapped, proc, m, [from |-> from, to |-> now])
  <2>1. from \in Int /\ proc.prior = {s \in Unclosed(db) : s.id # proc.id}
    BY <1>6, <1>8 DEF CutsFrom, Others
  <2>2. QED BY <1>2, <1>6, <1>9, <2>1, ReconciledType DEF DbOK, SessionsOK
<1>11. PICK new : new = [gapped EXCEPT !.command = @ /\ proc.known # "settled"]
  OBVIOUS
<1>12. ReconciledAs(db, new, proc, m, [from |-> from, to |-> now]) /\ new # None
  <2>1. gapped \in DB
    BY <1>10 DEF ReconciledAs
  <2>2. new \in DB /\ new.generation = gapped.generation /\ new.wal = gapped.wal
        /\ new.sessions = gapped.sessions /\ new.gaps = gapped.gaps
    BY <1>11, <2>1 DEF DB
  <2>3. QED BY <1>10, <2>2, NoDatabase DEF ReconciledAs
<1>13. disk' = [opened EXCEPT !.main = new]
  BY <1>3, <1>5, <1>7, <1>9, <1>11 DEF Recovered
<1>14. /\ disk' \in Disks /\ disk'.main = new /\ disk'.side = opened.side /\ disk'.aside = disk.aside
       /\ disk'.generations = opened.generations
       /\ new \in DB /\ new.generation = db.generation
  BY <1>4, <1>12, <1>13 DEF ReconciledAs, Disks
<1>15. /\ proc'.phase = "running" /\ proc'.status = "available" /\ proc'.id = proc.id
       /\ proc'.started = proc.started /\ proc'.open /\ proc'.verified = new.generation
       /\ proc'.outage = -1 /\ ~Outage(proc')
  BY <1>2, <1>14 DEF Aborted, Procs, Outage
<1>16. proc' \in Procs
  <2>1. new.generation \in Nat
    BY <1>14 DEF DB
  <2>2. QED BY <1>2, <1>14, <2>1 DEF Aborted, Procs, Statuses
<1>17. Works
  BY <1>15 DEF Works
<1>18. DbOK(new)'
  <2>1. from \in Int
    BY <1>8 DEF CutsFrom
  <2>2. QED BY <1>1, <1>6, <1>8, <1>10, <1>12, <1>14, <1>15, <1>17, <2>1, DbReconciled DEF CutsFrom
<1>19. \A n \in Databases(disk') : DbOK(n)'
  <2>1. ASSUME NEW n, n = disk.aside.main, n # None PROVE DbOK(n)'
    <3>1. n \in DB /\ DbOK(n) /\ n.generation # new.generation
      BY <1>1, <1>2, <1>6, <1>14, <2>1, DatabasesAre
    <3>2. proc.verified \in {0, proc'.verified}
      BY <1>6, <1>14, <1>15
    <3>3. QED BY <1>1, <1>15, <3>1, <3>2, DbElsewhere
  <2>2. QED BY <1>14, <1>18, <2>1 DEF Databases
<1>20. TypeOK'
  BY <1>2, <1>14, <1>16 DEF TypeOK
<1>21. Shape'
  BY <1>1, <1>12, <1>14, <1>15 DEF Shape, Starting, Copying
<1>22. FilesInv'
  <2>1. Kept(Archive(disk'.main, disk'.side)) /\ Kept(disk'.aside)
    BY <1>1, <1>4, <1>5, <1>14 DEF FilesInv, Kept, Archive
  <2>2. \A n \in Databases(disk') : n.generation <= disk'.generations
    BY <1>2, <1>6, <1>14, DatabasesAre DEF Databases
  <2>3. QED BY <1>6, <1>14, <1>15, <2>1, <2>2 DEF FilesInv, Copying
<1>23. PriorOK'
  <2>1. \A s \in Unclosed(new) : s.id = proc.id
    BY <1>10, <1>12 DEF ReconciledAs, Unclosed, Marker
  <2>2. Others(disk.main)' = {}
    BY <1>14, <1>15, <2>1 DEF Others
  <2>3. QED BY <1>15, <2>2 DEF PriorOK
<1>24. LossesInv'
  <2>1. proc'.verified # 0
    BY <1>14, <1>15 DEF DB
  <2>2. QED BY <1>1, <1>2, <1>15, <2>1 DEF LossesInv, Starting, Copying
<1>25. QED BY <1>19, <1>20, <1>21, <1>22, <1>23, <1>24 DEF IInv

LEMMA CutoverStep ==
  ASSUME IInv, Cutover
  PROVE  IInv'
<1>1. /\ proc \in Procs /\ proc = [proc EXCEPT !.known = proc.known] /\ proc.probe \in Probes
      /\ proc.phase = "cutover" /\ now' = now /\ lost' = lost
  BY DEF IInv, TypeOK, Shape, Procs, Cutover
<1>2. ASSUME NEW kind \in {"availability", "manual_intervention", "fatal"}, Fails(proc, kind)
      PROVE  IInv'
  BY <1>1, <1>2, FailureStep
<1>3. ASSUME NEW status \in {"degraded", "recovering"}, proc' = Aborted(proc, status), disk' = disk
      PROVE  IInv'
  BY <1>1, <1>3, AbortStep
<1>4. ASSUME Unchanged, disk' = Recovered(Opened(disk), proc),
             proc' = [Aborted(proc, "available") EXCEPT
                        !.open = TRUE, !.verified = Recovered(Opened(disk), proc).main.generation, !.outage = -1,
                        !.known = IF Recovered(Opened(disk), proc).main.command THEN "active" ELSE "none"]
      PROVE  IInv'
  BY <1>1, <1>4, RecoveredStep
<1>5. proc.probe.status \in {"degraded", "recovering"}
  BY <1>1 DEF Probes
<1>6. QED BY <1>1, <1>2, <1>3, <1>4, <1>5 DEF Cutover, RolledBack

LEMMA EndStep ==
  ASSUME IInv, Ends, disk' \in Disks, FilesInv',
         \A n \in Databases(disk') : \E db \in Databases(disk) : SameSessions(db, n)
  PROVE  IInv'
<1>1. TypeOK /\ Shape /\ FilesInv /\ PriorOK /\ LossesInv /\ \A db \in Databases(disk) : DbOK(db)
  BY DEF IInv
<1>2. /\ disk \in Disks /\ proc \in Procs /\ now \in Nat /\ proc.id \in Nat /\ now' = now
      /\ lost \subseteq [time : Nat, by : Nat]
  BY <1>1 DEF TypeOK, Procs, Ends
<1>3. /\ proc' = Down(proc.id) /\ proc'.phase = "down" /\ proc'.status = "none" /\ ~proc'.open
      /\ proc'.started = 0 /\ proc'.outage = -1 /\ ~Outage(proc') /\ proc'.id = proc.id
  BY DEF Ends, Down, Outage
<1>4. proc' \in Procs
  BY <1>2, <1>3 DEF Down, Procs, Statuses
<1>5. TypeOK'
  BY <1>2, <1>4 DEF TypeOK, Ends, Loses
<1>6. Shape'
  BY <1>2, <1>3 DEF Shape, Starting, Copying
<1>7. PriorOK'
  BY <1>3 DEF PriorOK, Stored
<1>8. LossesInv'
  BY <1>1, <1>2, <1>3 DEF LossesInv, Starting, Copying, Ends, Loses
<1>9. \A n \in Databases(disk') : DbOK(n)'
  <2>1. TAKE n \in Databases(disk')
  <2>2. PICK db \in Databases(disk) : SameSessions(db, n)
    OBVIOUS
  <2>3. db \in DB /\ DbOK(db)'
    BY <1>1, <1>2, <2>2, DbEnds, DatabasesAre
  <2>4. QED BY <2>2, <2>3, DbSame
<1>10. QED BY <1>5, <1>6, <1>7, <1>8, <1>9 DEF IInv

LEMMA StopStep ==
  ASSUME IInv, Stop
  PROVE  IInv'
<1>1. TypeOK /\ Shape /\ FilesInv /\ PriorOK /\ LossesInv /\ \A db \in Databases(disk) : DbOK(db)
  BY DEF IInv
<1>2. /\ disk \in Disks /\ proc \in Procs /\ now \in Nat /\ proc.id \in Nat
      /\ lost \subseteq [time : Nat, by : Nat]
      /\ proc.phase = "running" /\ now' = now /\ lost' = lost /\ proc' = Down(proc.id)
  BY <1>1 DEF TypeOK, Procs, Stop
<1>3. Ends /\ proc'.phase = "down" /\ proc'.id = proc.id
  BY <1>2 DEF Ends, Down
<1>4. ASSUME disk' = disk PROVE IInv'
  <2>1. FilesInv'
    BY <1>1, <1>3, <1>4 DEF FilesInv, Copying
  <2>2. \A n \in Databases(disk') : SameSessions(n, n)
    BY <1>2, <1>4, DatabasesAre DEF SameSessions
  <2>3. QED BY <1>2, <1>3, <1>4, <2>1, <2>2, EndStep
<1>5. ASSUME Stored(proc), disk' = Released(disk)
      PROVE  IInv'
  <2>1. disk.main # None
    BY <1>1, <1>5 DEF Shape, Stored
  <2>2. /\ disk' \in Disks /\ SameSessions(disk.main, disk'.main) /\ disk'.main # None
        /\ ~disk'.main.wal /\ disk'.aside = disk.aside /\ disk'.generations = disk.generations
    BY <1>2, <1>5, <2>1, ReleasedIs
  <2>3. \A n \in Databases(disk') : \E db \in Databases(disk) : SameSessions(db, n)
    BY <1>2, <2>1, <2>2, DatabasesAre DEF Databases, SameSessions
  <2>4. FilesInv'
    <3>1. Kept(Archive(disk'.main, disk'.side)) /\ Kept(disk'.aside)
      BY <1>1, <2>2 DEF FilesInv, Kept, Archive
    <3>2. \A n \in Databases(disk') : n.generation <= disk'.generations
      BY <1>1, <2>2, <2>3 DEF FilesInv, SameSessions
    <3>3. QED BY <1>1, <1>3, <2>1, <2>2, <3>1, <3>2 DEF FilesInv, Copying, SameSessions
  <2>5. QED BY <1>3, <2>2, <2>3, <2>4, EndStep
<1>6. ASSUME Stored(proc), disk' = Released([disk EXCEPT !.main = Closed(@, {proc.id})])
      PROVE  IInv'
  <2>1. disk.main # None /\ disk.main.generation = proc.verified
    BY <1>1, <1>6 DEF Shape, Stored
  <2>2. PICK db : db = disk.main
    OBVIOUS
  <2>3. db \in DB /\ DbOK(db) /\ db \in Databases(disk)
    BY <1>1, <1>2, <2>1, <2>2, DatabasesAre
  <2>4. PICK closed : closed = Closed(db, {proc.id})
    OBVIOUS
  <2>5. closed \in DB /\ closed.generation = db.generation /\ DbOK(closed)'
    BY <1>1, <1>2, <1>6, <2>1, <2>2, <2>3, <2>4, DbClosed
  <2>6. PICK d : d = [disk EXCEPT !.main = closed]
    OBVIOUS
  <2>7. d \in Disks /\ d.main = closed /\ d.main # None /\ d.aside = disk.aside /\ d.generations = disk.generations
    BY <1>2, <2>5, <2>6, NoDatabase DEF Disks
  <2>8. disk' = Released(d)
    BY <1>6, <2>2, <2>4, <2>6
  <2>9. /\ disk' \in Disks /\ SameSessions(closed, disk'.main) /\ disk'.main # None
        /\ ~disk'.main.wal /\ disk'.aside = disk.aside /\ disk'.generations = disk.generations
    BY <2>7, <2>8, ReleasedIs
  <2>10. \A n \in Databases(disk') : DbOK(n)'
    <3>1. ASSUME NEW n, n = disk'.main PROVE DbOK(n)'
      BY <2>5, <2>9, <3>1, DbSame
    <3>2. ASSUME NEW n, n = disk.aside.main, n # None PROVE DbOK(n)'
      BY <1>1, <1>2, <1>3, <3>2, DbEnds, DatabasesAre
    <3>3. QED BY <2>9, <3>1, <3>2 DEF Databases
  <2>11. FilesInv'
    <3>1. Kept(Archive(disk'.main, disk'.side)) /\ Kept(disk'.aside)
      BY <1>1, <2>9 DEF FilesInv, Kept, Archive
    <3>2. disk'.main.generation = disk.main.generation
      BY <2>2, <2>5, <2>9 DEF SameSessions
    <3>3. \A n \in Databases(disk') : n.generation <= disk'.generations
      BY <1>1, <2>1, <2>9, <3>2 DEF FilesInv, Databases
    <3>4. QED BY <1>1, <1>3, <2>1, <2>9, <3>1, <3>2, <3>3 DEF FilesInv, Copying
  <2>12. /\ proc' \in Procs /\ proc'.status = "none" /\ ~proc'.open /\ proc'.started = 0
         /\ proc'.outage = -1 /\ ~Outage(proc')
    BY <1>2 DEF Down, Procs, Statuses, Outage
  <2>13. TypeOK'
    BY <1>2, <2>9, <2>12 DEF TypeOK
  <2>14. Shape'
    BY <1>2, <1>3, <2>12 DEF Shape, Starting, Copying
  <2>15. PriorOK'
    BY <1>3 DEF PriorOK, Stored
  <2>16. LossesInv'
    BY <1>1, <1>2, <1>3 DEF LossesInv, Starting, Copying
  <2>17. QED BY <2>10, <2>11, <2>13, <2>14, <2>15, <2>16 DEF IInv
<1>7. QED BY <1>4, <1>5, <1>6 DEF Stop

LEMMA CrashStep ==
  ASSUME IInv, Crash
  PROVE  IInv'
<1>1. TypeOK /\ FilesInv /\ disk \in Disks /\ disk' = disk
  BY DEF IInv, TypeOK, Crash
<1>2. Ends /\ proc'.phase = "down"
  BY DEF Ends, Crash, Loses, Down
<1>3. FilesInv'
  BY <1>1, <1>2 DEF FilesInv, Copying
<1>4. \A n \in Databases(disk') : SameSessions(n, n)
  BY <1>1, DatabasesAre DEF SameSessions
<1>5. QED BY <1>1, <1>2, <1>3, <1>4, EndStep

LEMMA ReplaceFailsStep ==
  ASSUME IInv, ReplaceFails
  PROVE  IInv'
<1>1. TypeOK /\ FilesInv /\ disk \in Disks /\ disk' = [disk EXCEPT !.staging = None]
  BY DEF IInv, TypeOK, ReplaceFails, Discarded
<1>2. Ends /\ proc'.phase = "down"
  BY DEF Ends, ReplaceFails, Down
<1>3. /\ disk' \in Disks /\ disk'.main = disk.main /\ disk'.side = disk.side /\ disk'.aside = disk.aside
      /\ disk'.generations = disk.generations
  BY <1>1 DEF Disks
<1>4. FilesInv'
  BY <1>1, <1>2, <1>3 DEF FilesInv, Copying, Databases
<1>5. \A n \in Databases(disk') : n \in Databases(disk) /\ SameSessions(n, n)
  BY <1>1, <1>3, DatabasesAre DEF SameSessions, Databases
<1>6. QED BY <1>2, <1>3, <1>4, <1>5, EndStep

LEMMA OperateStep ==
  ASSUME IInv, Operate
  PROVE  IInv'
<1>1. TypeOK /\ Shape /\ FilesInv /\ PriorOK /\ LossesInv /\ \A db \in Databases(disk) : DbOK(db)
  BY DEF IInv
<1>2. disk \in Disks /\ ~proc.open /\ proc' = proc /\ now' = now /\ lost' = lost
  BY <1>1 DEF TypeOK, Operate
<1>3. \A n : DbOK(n) => DbOK(n)'
  BY <1>2 DEF DbOK, SessionsOK, GapsOK, LossesOK
<1>4. proc.phase \notin {"marking", "reconciling"} /\ ~Stored(proc)
  BY <1>1, <1>2 DEF Shape, Stored
<1>5. LossesInv'
  BY <1>1, <1>2 DEF LossesInv
<1>6. CASE Damage
  <2>1. PICK condition \in Conditions : disk' = [disk EXCEPT !.main.condition = condition]
    BY <1>6 DEF Damage
  <2>2. disk.main # None /\ disk.main \in DB
    BY <1>2, <1>6 DEF Damage, Disks
  <2>3. PICK main : main = [disk.main EXCEPT !.condition = condition]
    OBVIOUS
  <2>4. SameSessions(disk.main, main) /\ main.wal = disk.main.wal /\ main \in DB /\ main # None
    BY <2>2, <2>3, NoDatabase DEF SameSessions, DB
  <2>5. disk' = [disk EXCEPT !.main = main]
    BY <1>2, <2>1, <2>3 DEF Disks
  <2>6. /\ disk' \in Disks /\ disk'.main = main /\ disk'.side = disk.side /\ disk'.aside = disk.aside
        /\ disk'.generations = disk.generations /\ disk'.staging = disk.staging
    BY <1>2, <2>4, <2>5 DEF Disks
  <2>7. FilesInv'
    <3>1. Kept(Archive(disk'.main, disk'.side)) /\ Kept(disk'.aside)
      BY <1>1, <2>2, <2>4, <2>6 DEF FilesInv, Kept, Archive, SameSessions
    <3>2. \A n \in Databases(disk') : n.generation <= disk'.generations
      BY <1>1, <2>2, <2>4, <2>6 DEF FilesInv, Databases, SameSessions
    <3>3. QED BY <1>1, <1>2, <2>2, <2>4, <2>6, <3>1, <3>2 DEF FilesInv, Copying, SameSessions
  <2>8. \A n \in Databases(disk') : DbOK(n)'
    <3>1. ASSUME NEW n, n = main PROVE DbOK(n)'
      <4>1. PICK db : db = disk.main
        OBVIOUS
      <4>2. db \in DB /\ DbOK(db)' /\ SameSessions(db, n)
        BY <1>1, <1>2, <1>3, <2>2, <2>4, <3>1, <4>1, DatabasesAre
      <4>3. QED BY <4>2, DbSame
    <3>2. QED BY <1>1, <1>3, <2>6, <3>1 DEF Databases
  <2>9. Shape'
    BY <1>1, <1>2, <2>4, <2>6 DEF Shape
  <2>10. PriorOK'
    <3>1. \A db \in Databases(disk') : \E old \in Databases(disk) :
             db.generation = old.generation /\ Others(db) = Others(old)
      BY <2>2, <2>4, <2>6 DEF Databases, SameSessions, Others, Unclosed
    <3>2. \A n : Others(n)' = Others(n)
      BY <1>2 DEF Others
    <3>3. QED BY <1>1, <1>2, <1>4, <3>1, <3>2 DEF PriorOK
  <2>11. QED BY <1>1, <1>2, <1>5, <2>6, <2>7, <2>8, <2>9, <2>10 DEF IInv, TypeOK
<1>7. CASE Exchange /\ proc.phase \notin {"examining", "publishing", "moving", "cleaning"}
  <2>1. disk' = [disk EXCEPT !.main = disk.aside.main, !.side = disk.aside.side,
                             !.aside = [main |-> disk.main, side |-> disk.side]]
    BY <1>7 DEF Exchange
  <2>2. /\ disk' \in Disks /\ disk'.main = disk.aside.main /\ disk'.side = disk.aside.side
        /\ disk'.aside.main = disk.main /\ disk'.aside.side = disk.side
        /\ disk'.generations = disk.generations
    BY <1>2, <2>1 DEF Disks, Archives
  <2>3. Databases(disk') = Databases(disk)
    BY <2>2 DEF Databases
  <2>4. FilesInv'
    BY <1>1, <1>2, <1>7, <2>2, <2>3 DEF FilesInv, Kept, Archive, Copying
  <2>5. Shape'
    BY <1>1, <1>2, <1>7 DEF Shape
  <2>6. PriorOK'
    BY <1>1, <1>2, <1>4, <2>3 DEF PriorOK, Others
  <2>7. QED BY <1>1, <1>2, <1>3, <1>5, <2>2, <2>3, <2>4, <2>5, <2>6 DEF IInv, TypeOK
<1>8. QED BY <1>6, <1>7 DEF Operate

LEMMA TickStep ==
  ASSUME IInv, Tick
  PROVE  IInv'
<1>1. TypeOK /\ Shape /\ FilesInv /\ PriorOK /\ LossesInv /\ \A db \in Databases(disk) : DbOK(db)
  BY DEF IInv
<1>2. /\ disk \in Disks /\ proc \in Procs /\ now \in Nat /\ now' = now + 1 /\ disk' = disk /\ proc' = proc
      /\ lost' = lost /\ proc.phase \in {"down", "running"}
      /\ proc.started \in Nat /\ proc.outage \in Nat \cup {-1} /\ lost \subseteq [time : Nat, by : Nat]
  BY <1>1 DEF TypeOK, Tick, Procs
<1>3. TypeOK'
  BY <1>1, <1>2 DEF TypeOK
<1>4. Shape'
  BY <1>1, <1>2 DEF Shape, Starting, Copying
<1>5. FilesInv' /\ PriorOK'
  BY <1>1, <1>2 DEF FilesInv, PriorOK, Others
<1>6. LossesInv'
  BY <1>1, <1>2 DEF LossesInv
<1>7. ASSUME NEW db \in Databases(disk) PROVE DbOK(db)'
  <2>1. db \in DB /\ DbOK(db) /\ db.sessions \subseteq Sessions /\ db.gaps \subseteq Gaps
    BY <1>1, <1>2, DatabasesAre DEF DB
  <2>2. SessionsOK(db)'
    BY <1>2, <2>1 DEF DbOK, SessionsOK, Sessions
  <2>3. GapsOK(db)'
    BY <1>2, <2>1 DEF DbOK, GapsOK, Gaps
  <2>4. LossesOK(db)'
    BY <1>2, <2>1 DEF DbOK, LossesOK
  <2>5. QED BY <2>2, <2>3, <2>4 DEF DbOK
<1>8. QED BY <1>2, <1>3, <1>4, <1>5, <1>6, <1>7 DEF IInv

LEMMA ReplacesOn ==
  ASSUME IInv, NEW phase \in {"examining", "publishing", "moving", "cleaning", "creating", "opening"},
         NEW archive \in Nat,
         proc.phase \in {"staging", "examining", "publishing", "moving", "cleaning", "creating"},
         proc' = [proc EXCEPT !.phase = phase, !.archive = archive], now' = now, lost' = lost,
         disk' \in Disks, FilesInv', phase = "examining" => disk'.main # None,
         \A n \in Databases(disk') :
           \/ \E db \in Databases(disk) : SameSessions(db, n)
           \/ n \in DB /\ n.sessions = {} /\ n.gaps = {}
  PROVE  IInv'
<1>1. TypeOK /\ Shape /\ FilesInv /\ PriorOK /\ LossesInv /\ \A db \in Databases(disk) : DbOK(db)
  BY DEF IInv
<1>2. /\ disk \in Disks /\ proc \in Procs /\ now \in Nat /\ proc.id \in Nat
      /\ lost \subseteq [time : Nat, by : Nat]
  BY <1>1 DEF TypeOK, Procs
<1>3. /\ proc' \in Procs /\ proc'.phase = phase /\ proc'.id = proc.id /\ proc'.started = proc.started
      /\ proc'.verified = proc.verified /\ proc'.outage = proc.outage /\ proc'.open = proc.open
      /\ ~Outage(proc) /\ ~Outage(proc')
  BY <1>2 DEF Procs, Starting, Copying, Outage
<1>4. TypeOK'
  BY <1>2, <1>3 DEF TypeOK
<1>5. Shape'
  BY <1>1, <1>2, <1>3 DEF Shape, Starting, Copying
<1>6. PriorOK'
  BY <1>3 DEF PriorOK, Stored
<1>7. LossesInv'
  BY <1>1, <1>2, <1>3 DEF LossesInv, Starting, Copying
<1>8. Goes
  BY <1>2, <1>3 DEF Goes
<1>9. \A n \in Databases(disk') : DbOK(n)'
  <2>1. TAKE n \in Databases(disk')
  <2>2. ASSUME NEW db \in Databases(disk), SameSessions(db, n) PROVE DbOK(n)'
    <3>1. db \in DB /\ DbOK(db)'
      BY <1>1, <1>2, <1>8, DbGoes, DatabasesAre
    <3>2. QED BY <2>2, <3>1, DbSame
  <2>3. ASSUME n \in DB, n.sessions = {}, n.gaps = {} PROVE DbOK(n)'
    BY <1>3, <2>3, DbFresh
  <2>4. QED BY <2>2, <2>3
<1>10. QED BY <1>4, <1>5, <1>6, <1>7, <1>9 DEF IInv

LEMMA ReplaceStep ==
  ASSUME IInv, Replace
  PROVE  IInv'
<1>1. TypeOK /\ Shape /\ FilesInv
  BY DEF IInv
<1>2. /\ disk \in Disks /\ proc \in Procs /\ proc.archive \in Nat /\ now' = now /\ lost' = lost
      /\ disk.side \in Nat
  BY <1>1 DEF TypeOK, Procs, Replace, Disks
<1>3. /\ \A n \in Databases(disk) : SameSessions(n, n)
      /\ \A phase : [proc EXCEPT !.phase = phase] = [proc EXCEPT !.phase = phase, !.archive = proc.archive]
  BY <1>2, DatabasesAre DEF SameSessions, Procs
<1>4. ASSUME proc.phase = "staging", disk.main # None, disk' = Staged(disk), proc' = Going("examining")
      PROVE  IInv'
  <2>1. /\ disk' \in Disks /\ disk'.main = disk.main /\ disk'.side = disk.side /\ disk'.aside = disk.aside
        /\ disk'.generations = disk.generations /\ disk'.staging = [side |-> disk.side]
        /\ disk'.staging \in [side : Nat] /\ disk'.staging # None
    BY <1>2, <1>4 DEF Staged, Disks, None
  <2>2. proc' = [proc EXCEPT !.phase = "examining", !.archive = proc.archive] /\ proc'.phase = "examining"
    BY <1>2, <1>3, <1>4 DEF Going, Procs
  <2>3. FilesInv'
    BY <1>1, <1>4, <2>1, <2>2 DEF FilesInv, Databases, Copying
  <2>4. QED BY <1>2, <1>3, <1>4, <2>1, <2>2, <2>3, ReplacesOn DEF Databases
<1>5. ASSUME proc' = Down(proc.id), disk' = disk \/ disk' = Discarded(disk),
             proc.phase \in {"staging", "examining"}
      PROVE  IInv'
  <2>1. /\ disk' \in Disks /\ disk'.main = disk.main /\ disk'.side = disk.side /\ disk'.aside = disk.aside
        /\ disk'.generations = disk.generations
    BY <1>2, <1>5 DEF Discarded, Disks
  <2>2. Ends /\ proc'.phase = "down"
    BY <1>2, <1>5 DEF Ends, Down
  <2>3. FilesInv'
    BY <1>1, <2>1, <2>2 DEF FilesInv, Copying, Databases
  <2>4. QED BY <1>3, <2>1, <2>2, <2>3, EndStep DEF Databases
<1>6. ASSUME proc.phase = "examining", disk' = disk, proc' = Going("publishing")
      PROVE  IInv'
  <2>1. proc' = [proc EXCEPT !.phase = "publishing", !.archive = proc.archive] /\ proc'.phase = "publishing"
    BY <1>2, <1>3, <1>6 DEF Going, Procs
  <2>2. FilesInv'
    BY <1>1, <1>6, <2>1 DEF FilesInv, Copying
  <2>3. QED BY <1>2, <1>3, <1>6, <2>1, <2>2, ReplacesOn
<1>7. ASSUME proc.phase = "publishing", disk' = Published(disk),
             proc' = [Going("moving") EXCEPT !.archive = disk.staging.side]
      PROVE  IInv'
  <2>1. disk.main # None /\ disk.staging \in [side : Nat] /\ disk.staging.side = disk.side
    BY <1>1, <1>2, <1>7 DEF FilesInv, Copying, Disks
  <2>2. Archive(None, disk.staging.side) \in Archives
    BY <2>1 DEF Archive, Archives
  <2>3. /\ disk' \in Disks /\ disk'.main = disk.main /\ disk'.side = disk.side /\ disk'.aside = disk.aside
        /\ disk'.generations = disk.generations
    BY <1>2, <1>7, <2>2 DEF Published, Disks
  <2>4. proc' = [proc EXCEPT !.phase = "moving", !.archive = disk.side]
        /\ proc'.phase = "moving" /\ proc'.archive = disk.side
    BY <1>2, <1>7, <2>1 DEF Going, Procs
  <2>5. FilesInv'
    BY <1>1, <2>1, <2>3, <2>4 DEF FilesInv, Databases, Copying
  <2>6. QED BY <1>2, <1>3, <1>7, <2>3, <2>4, <2>5, ReplacesOn DEF Databases
<1>8. ASSUME proc.phase = "moving", disk' = Moved(disk, proc.archive),
             proc' = [Going("cleaning") EXCEPT !.archive = 0]
      PROVE  IInv'
  <2>1. Archive(disk.main, proc.archive) \in Archives
    BY <1>2 DEF Archive, Archives, Disks
  <2>2. /\ disk' \in Disks /\ disk'.main = None /\ disk'.aside = disk.aside
        /\ disk'.generations = disk.generations
    BY <1>2, <1>8, <2>1 DEF Moved, Disks
  <2>3. proc' = [proc EXCEPT !.phase = "cleaning", !.archive = 0] /\ proc'.phase = "cleaning"
    BY <1>2, <1>8 DEF Going, Procs
  <2>4. FilesInv'
    BY <1>1, <2>2, <2>3 DEF FilesInv, Databases, Copying, Kept, Archive
  <2>5. QED BY <1>2, <1>3, <1>8, <2>2, <2>3, <2>4, ReplacesOn DEF Databases
<1>9. ASSUME proc.phase = "cleaning", disk' = Cleaned(disk), proc' = Going("creating")
      PROVE  IInv'
  <2>1. /\ disk' \in Disks /\ disk'.main = None /\ disk'.aside = disk.aside
        /\ disk'.generations = disk.generations /\ disk.main = None
    BY <1>1, <1>2, <1>9 DEF Cleaned, Disks, FilesInv
  <2>2. proc' = [proc EXCEPT !.phase = "creating", !.archive = proc.archive] /\ proc'.phase = "creating"
    BY <1>2, <1>3, <1>9 DEF Going, Procs
  <2>3. FilesInv'
    BY <1>1, <2>1, <2>2 DEF FilesInv, Databases, Copying, Kept, Archive
  <2>4. QED BY <1>2, <1>3, <1>9, <2>1, <2>2, <2>3, ReplacesOn DEF Databases
<1>10. ASSUME proc.phase = "creating", disk' = Released(Opened(disk)), proc' = Going("opening")
       PROVE  IInv'
  <2>1. PICK opened : opened = Opened(disk)
    OBVIOUS
  <2>2. /\ opened \in Disks /\ opened.main # None /\ opened.main \in DB
        /\ opened.aside = disk.aside
        /\ disk.main # None => SameSessions(disk.main, opened.main) /\ opened.generations = disk.generations
        /\ disk.main = None =>
             /\ opened.main.sessions = {} /\ opened.main.gaps = {}
             /\ opened.main.generation = disk.generations + 1
             /\ opened.generations = disk.generations + 1
    BY <1>2, <2>1, OpenedIs
  <2>3. /\ disk' \in Disks /\ SameSessions(opened.main, disk'.main) /\ disk'.main # None
        /\ ~disk'.main.wal /\ disk'.aside = disk.aside /\ disk'.generations = opened.generations
    BY <1>10, <2>1, <2>2, ReleasedIs
  <2>4. proc' = [proc EXCEPT !.phase = "opening", !.archive = proc.archive] /\ proc'.phase = "opening"
    BY <1>2, <1>3, <1>10 DEF Going, Procs
  <2>5. FilesInv'
    <3>1. Kept(Archive(disk'.main, disk'.side)) /\ Kept(disk'.aside)
      BY <1>1, <2>3 DEF FilesInv, Kept, Archive
    <3>2. disk.generations \in Nat /\ (disk.aside.main # None => disk.aside.main.generation \in Nat)
      BY <1>2 DEF Disks, DB, Archives
    <3>3. \A n \in Databases(disk') : n.generation <= disk'.generations
      BY <1>1, <2>2, <2>3, <3>2 DEF FilesInv, SameSessions, Databases
    <3>4. disk'.aside.main # None => disk'.main.generation # disk'.aside.main.generation
      BY <1>1, <2>2, <2>3, <3>2 DEF FilesInv, SameSessions, Databases
    <3>5. QED BY <2>4, <3>1, <3>3, <3>4 DEF FilesInv, Copying
  <2>6. ASSUME NEW n \in Databases(disk')
        PROVE  \/ \E db \in Databases(disk) : SameSessions(db, n)
               \/ n \in DB /\ n.sessions = {} /\ n.gaps = {}
    <3>1. CASE n = disk.aside.main
      BY <1>3, <2>3, <2>6, <3>1 DEF Databases
    <3>2. CASE n = disk'.main
      BY <1>2, <2>2, <2>3, <3>2, DatabasesAre DEF SameSessions
    <3>3. QED BY <2>3, <2>6, <3>1, <3>2 DEF Databases
  <2>7. QED BY <1>2, <1>10, <2>3, <2>4, <2>5, <2>6, ReplacesOn
<1>11. QED BY <1>4, <1>5, <1>6, <1>7, <1>8, <1>9, <1>10 DEF Replace

-----------------------------------------------------------------------------
(* The theorems *)

LEMMA Initially == Init => IInv
<1> SUFFICES ASSUME Init PROVE IInv
  OBVIOUS
<1>1. /\ disk = [main |-> None, side |-> 0, staging |-> None, preserved |-> {},
                 aside |-> [main |-> None, side |-> 0], generations |-> 0]
      /\ proc = Down(0) /\ now = 0 /\ lost = {}
  BY DEF Init, DiskInit
<1>2. Databases(disk) = {}
  BY <1>1 DEF Databases
<1>3. disk \in Disks
  BY <1>1 DEF Disks, Archives
<1>4. /\ proc \in Procs /\ proc.phase = "down" /\ proc.status = "none" /\ ~proc.open /\ proc.started = 0
      /\ proc.outage = -1 /\ ~Outage(proc)
  BY <1>1 DEF Down, Procs, Statuses, Outage
<1>5. TypeOK /\ LossesInv
  BY <1>1, <1>3, <1>4 DEF TypeOK, LossesInv
<1>6. Shape /\ PriorOK
  BY <1>1, <1>4 DEF Shape, PriorOK, Stored, Starting, Copying
<1>7. FilesInv
  BY <1>1, <1>2, <1>4 DEF FilesInv, Kept, Archive, Copying
<1>8. QED BY <1>2, <1>5, <1>6, <1>7 DEF IInv

LEMMA Inductive == IInv /\ [Next]_storageVars => IInv'
<1> SUFFICES ASSUME IInv, [Next]_storageVars PROVE IInv'
  OBVIOUS
<1>1. CASE UNCHANGED storageVars
  <2>1. UNCHANGED <<disk, proc, now, lost>>
    BY <1>1 DEF storageVars
  <2>2. \A db : DbOK(db) => DbOK(db)'
    BY <2>1 DEF DbOK, SessionsOK, GapsOK, LossesOK
  <2>3. QED BY <2>1, <2>2 DEF IInv, TypeOK, Shape, FilesInv, PriorOK, LossesInv, Others
<1>2. CASE Next
  BY <1>2, StartStep, OpenStep, MarkStep, ReconcileStep, ReplaceStep, ReplaceFailsStep, ObserveStep,
     RequestStep, SettleStep, ProbeStep, CutoverStep, StopStep, CrashStep, OperateStep, TickStep DEF Next
<1>3. QED BY <1>1, <1>2

\* What the inductive invariant says of the disk, the process and the history of its
\* sessions holds in every state (room-engine.ts, room-storage-recovery.ts).
THEOREM Invariance == Spec => []IInv
<1>1. Init => IInv
  BY Initially
<1>2. IInv /\ [Next]_storageVars => IInv'
  BY Inductive
<1>3. QED BY <1>1, <1>2, PTL DEF Spec

\* Once storage is available, every loss of a process with a marker in the database is
\* within a recorded gap (initializeProjectionCheckpoint, attemptStorageRecovery).
THEOREM LossesAreExplained == Spec => []LossesExplained
<1>1. ASSUME IInv PROVE LossesExplained
  <2>1. SUFFICES ASSUME Stored(proc), NEW loss \in lost, NEW s \in disk.main.sessions, loss.by = s.id
                 PROVE  Covered(loss.time)
    BY DEF LossesExplained
  <2>2. /\ disk \in Disks /\ proc.phase = "running" /\ ~Outage(proc)
        /\ disk.main # None /\ disk.main.generation = proc.verified
        /\ Others(disk.main) = {}
    BY <1>1, <2>1 DEF IInv, TypeOK, Shape, PriorOK, Stored, Outage
  <2>3. DbOK(disk.main)
    BY <1>1, <2>2, DatabasesAre DEF IInv
  <2>4. CASE s.open
    <3>1. loss.by = proc.id
      BY <2>1, <2>2, <2>4 DEF Others, Unclosed
    <3>2. QED BY <2>2, <2>3, <3>1 DEF DbOK, LossesOK, CoveredIn, Covered
  <2>5. CASE ~s.open
    BY <2>1, <2>3, <2>5 DEF DbOK, LossesOK, CoveredIn, Covered
  <2>6. QED BY <2>4, <2>5
<1>2. QED BY <1>1, Invariance, PTL

\* No time is recorded as lost twice (conservativeSessionGapStart, closeRuntimeSession).
THEOREM GapsNeverOverlap == Spec => []GapsAreDisjoint
<1>1. IInv => GapsAreDisjoint
  BY DatabasesAre DEF IInv, TypeOK, GapsAreDisjoint, DbOK, GapsOK
<1>2. QED BY <1>1, Invariance, PTL

-----------------------------------------------------------------------------
(* The generation of a process *)

\* A transaction changes a database in place.
InPlace(db, new) == new # None /\ new.generation = db.generation

LEMMA TransactionsInPlace ==
  ASSUME NEW db \in DB, NEW p, NEW at, NEW from, NEW prior, NEW ids, NEW command,
         NEW new \in {Activated(db, p, at), Reconciled(db, p, from, prior, at), Closed(db, ids)}
  PROVE  InPlace(db, new) /\ InPlace(db, [new EXCEPT !.command = command])
<1> DEFINE Shaped(r) == DOMAIN r = DOMAIN db /\ r.generation = db.generation
<1>1. "generation" \in DOMAIN db /\ Shaped(db) /\ "generation" \notin DOMAIN None
  BY DEF DB, None
<1>2. ASSUME NEW r, Shaped(r), NEW value
      PROVE  /\ Shaped([r EXCEPT !.sessions = value]) /\ Shaped([r EXCEPT !.gaps = value])
             /\ Shaped([r EXCEPT !.command = value])
  BY <1>1, <1>2
<1> HIDE DEF Shaped
<1>3. Shaped(Activated(db, p, at))
  BY <1>1, <1>2 DEF Activated
<1>4. ASSUME NEW r, Shaped(r), NEW closing PROVE Shaped(Closed(r, closing))
  BY <1>2, <1>4 DEF Closed
<1>5. PICK gapped : gapped = [Activated(db, p, at) EXCEPT !.gaps = @ \cup {[from |-> from, to |-> at]}]
  OBVIOUS
<1>6. Shaped(gapped)
  BY <1>2, <1>3, <1>5
<1>7. Reconciled(db, p, from, prior, at) = Closed(gapped, {s.id : s \in prior})
  BY <1>5 DEF Reconciled
<1>8. Shaped(new)
  BY <1>1, <1>3, <1>4, <1>6, <1>7
<1>9. QED BY <1>1, <1>2, <1>8 DEF InPlace, Shaped

\* A process stores in no other database than the one it has seen first, and makes none
\* when that one is gone (probe and cutover of sqlite-room-storage-lifecycle.ts).
THEOREM GenerationPinned == Spec => GenerationIsPinned
<1>1. ASSUME IInv, [Next]_storageVars
      PROVE  proc.verified # 0 /\ proc'.id = proc.id /\ proc'.phase # "down" => proc'.verified = proc.verified
  <2>1. /\ TypeOK /\ Shape /\ PriorOK /\ disk \in Disks /\ proc \in Procs /\ proc.id \in Nat
    BY <1>1 DEF IInv, TypeOK, Procs
  <2>2. ASSUME NEW p, p = proc \/ p = Restored(proc), NEW kind, Fails(p, kind), proc'.phase # "down",
               kind \in {"availability", "manual_intervention", "fatal"}
        PROVE  proc'.verified = proc.verified
    BY <2>1, <2>2 DEF Fails, Degraded, Down, Restored, Procs
  <2>3. SUFFICES ASSUME proc.verified # 0, proc'.id = proc.id, proc'.phase # "down"
                 PROVE  proc'.verified = proc.verified
    OBVIOUS
  <2>4. CASE UNCHANGED storageVars
    BY <2>4 DEF storageVars
  <2>5. CASE Start
    BY <2>1, <2>3, <2>5 DEF Start, Down
  <2>6. CASE Open \/ Replace
    BY <2>1, <2>3, <2>6 DEF Shape, Starting, Copying, Open, Replace
  <2>7. CASE Mark \/ Reconcile
    <3>1. CASE RolledBack(proc) \/ RolledBack(Restored(proc))
      BY <2>2, <2>3, <3>1 DEF RolledBack
    <3>2. CASE ~(RolledBack(proc) \/ RolledBack(Restored(proc)))
      BY <2>1, <2>7, <3>2 DEF Mark, Reconcile, Restored, Procs
    <3>3. QED BY <3>1, <3>2
  <2>8. CASE Observe \/ Request \/ Settle
    BY <2>1, <2>2, <2>3, <2>8 DEF Observe, Request, Settle, RolledBack, Procs
  <2>9. CASE Probe
    BY <2>1, <2>2, <2>3, <2>9 DEF Probe, RolledBack, Procs
  <2>10. CASE Cutover
    <3>1. CASE \E status : proc' = Aborted(proc, status)
      BY <2>1, <3>1 DEF Aborted, Procs
    <3>2. ASSUME Unchanged, proc.phase = "cutover",
                 proc' = [Aborted(proc, "available") EXCEPT
                            !.open = TRUE, !.verified = Recovered(Opened(disk), proc).main.generation,
                            !.outage = -1,
                            !.known = IF Recovered(Opened(disk), proc).main.command THEN "active" ELSE "none"]
          PROVE  proc'.verified = proc.verified
      <4>1. proc.probe \in Probes
        BY <2>1, <3>2 DEF Shape, Procs
      <4>2. disk.main # None /\ disk.main.generation = proc.verified
        BY <2>1, <2>3, <3>2, <4>1 DEF Unchanged, PriorOK, Probes
      <4>3. PICK db : db = Opened(disk).main
        OBVIOUS
      <4>4. db \in DB /\ db.generation = proc.verified
        BY <2>1, <4>2, <4>3, OpenedIs DEF SameSessions
      <4>5. PICK from : from = IF proc.prior # {} THEN GapStart(proc.prior) ELSE proc.outage
        OBVIOUS
      <4>6. PICK gapped : gapped = Reconciled(db, proc, from, proc.prior, now)
        OBVIOUS
      <4>7. Recovered(Opened(disk), proc).main = [gapped EXCEPT !.command = @ /\ proc.known # "settled"]
        <5>1. Opened(disk) \in Disks
          BY <2>1, OpenedIs
        <5>2. QED BY <4>3, <4>5, <4>6, <5>1 DEF Recovered, Disks
      <4>8. Recovered(Opened(disk), proc).main.generation = proc.verified
        BY <4>4, <4>6, <4>7, TransactionsInPlace DEF InPlace
      <4>9. QED BY <2>1, <3>2, <4>8 DEF Aborted, Procs
    <3>3. QED BY <2>2, <2>3, <2>10, <3>1, <3>2 DEF Cutover, RolledBack, Inspected
  <2>11. CASE Stop \/ Crash \/ ReplaceFails
    BY <2>3, <2>11 DEF Stop, Crash, ReplaceFails, Down
  <2>12. CASE Operate \/ Tick
    BY <2>12 DEF Operate, Tick
  <2>13. QED BY <1>1, <2>4, <2>5, <2>6, <2>7, <2>8, <2>9, <2>10, <2>11, <2>12 DEF Next
<1>2. QED BY <1>1, Invariance, PTL DEF Spec, GenerationIsPinned

-----------------------------------------------------------------------------
(* The databases that are kept *)

\* Database g is there, whole.
Holds(place, g) ==
  place.main # None /\ place.main.generation = g /\ (place.main.wal => place.side = g)

\* The database at the path is still there, and nothing else is taken away.
MainStays ==
  /\ disk'.generations = disk.generations /\ disk'.aside = disk.aside
  /\ disk.preserved \subseteq disk'.preserved
  /\ disk.main # None => InPlace(disk.main, disk'.main)

LEMMA StaysKept ==
  ASSUME NoDatabaseIsLost, FilesInv', MainStays
  PROVE  NoDatabaseIsLost'
<1>1. SUFFICES ASSUME NEW g \in 1..disk'.generations PROVE \E place \in Places' : Holds(place, g)
  BY DEF NoDatabaseIsLost, Holds
<1>2. PICK place \in Places : Holds(place, g)
  BY <1>1 DEF NoDatabaseIsLost, MainStays, Holds
<1>3. CASE place \in disk.preserved \cup {disk.aside}
  BY <1>2, <1>3 DEF MainStays, Places, Holds
<1>4. CASE place = Archive(disk.main, disk.side)
  <2>1. Holds(Archive(disk'.main, disk'.side), g)
    BY <1>2, <1>4 DEF MainStays, InPlace, FilesInv, Kept, Holds, Archive
  <2>2. QED BY <2>1 DEF Places, Holds
<1>5. QED BY <1>2, <1>3, <1>4 DEF Places

LEMMA MainStaysInPlace ==
  ASSUME disk \in Disks, NEW new, disk' = [disk EXCEPT !.main = new], disk.main # None => InPlace(disk.main, new)
  PROVE  MainStays
BY DEF MainStays, Disks

LEMMA FailureKeeps ==
  ASSUME TypeOK, Shape, NEW p, p = proc \/ p = Restored(proc), NEW kind, Fails(p, kind)
  PROVE  MainStays
<1>1. /\ disk \in Disks /\ (p.open => disk.main # None)
      /\ disk' = IF p.open THEN Released(disk) ELSE disk
  BY DEF TypeOK, Shape, Restored, Procs, Fails
<1>2. CASE p.open
  BY <1>1, <1>2, ReleasedIs DEF MainStays, InPlace, SameSessions
<1>3. CASE ~p.open
  BY <1>1, <1>3 DEF MainStays, InPlace
<1>4. QED BY <1>2, <1>3

LEMMA OpenedKeeps ==
  ASSUME NoDatabaseIsLost, disk \in Disks, FilesInv', NEW opened, opened = Opened(disk),
         disk'.generations = opened.generations, disk'.aside = disk.aside, disk'.preserved = disk.preserved,
         InPlace(opened.main, disk'.main)
  PROVE  NoDatabaseIsLost'
<1>1. CASE disk.main # None
  <2>1. MainStays
    BY <1>1, OpenedIs DEF MainStays, InPlace, SameSessions
  <2>2. QED BY <2>1, StaysKept
<1>2. CASE disk.main = None
  <2>1. /\ disk.generations \in Nat /\ disk'.generations = disk.generations + 1
        /\ disk'.main # None /\ disk'.main.generation = disk.generations + 1
    BY <1>2, OpenedIs DEF InPlace, Disks
  <2>2. SUFFICES ASSUME NEW g \in 1..disk'.generations PROVE \E place \in Places' : Holds(place, g)
    BY DEF NoDatabaseIsLost, Holds
  <2>3. CASE g = disk'.generations
    <3>1. Holds(Archive(disk'.main, disk'.side), g)
      BY <2>1, <2>3 DEF FilesInv, Kept, Archive, Holds
    <3>2. QED BY <3>1 DEF Places, Holds
  <2>4. CASE g \in 1..disk.generations
    <3>1. PICK place \in Places : Holds(place, g)
      BY <2>4 DEF NoDatabaseIsLost, Holds
    <3>2. place \in disk.preserved \cup {disk.aside}
      BY <1>2, <3>1 DEF Places, Holds, Archive
    <3>3. QED BY <3>1, <3>2 DEF Places, Holds
  <2>5. QED BY <2>1, <2>2, <2>3, <2>4
<1>3. QED BY <1>1, <1>2

LEMMA ReplaceKeeps ==
  ASSUME TypeOK, FilesInv, FilesInv', NoDatabaseIsLost, Replace
  PROVE  NoDatabaseIsLost'
<1>1. disk \in Disks
  BY DEF TypeOK
<1>2. CASE disk' \in {disk, Staged(disk), Discarded(disk), Published(disk), Cleaned(disk)}
  <2>1. MainStays
    BY <1>1, <1>2 DEF MainStays, InPlace, Staged, Discarded, Published, Cleaned, Disks
  <2>2. QED BY <2>1, StaysKept
<1>3. CASE proc.phase = "moving" /\ disk' = Moved(disk, proc.archive)
  <2>1. /\ disk.main # None /\ proc.archive = disk.side
        /\ disk'.preserved = (disk.preserved \ {Archive(None, disk.side)}) \cup {Archive(disk.main, disk.side)}
        /\ disk'.generations = disk.generations /\ disk'.aside = disk.aside
    BY <1>1, <1>3 DEF FilesInv, Moved, Disks
  <2>2. SUFFICES ASSUME NEW g \in 1..disk'.generations PROVE \E place \in Places' : Holds(place, g)
    BY DEF NoDatabaseIsLost, Holds
  <2>3. PICK place \in Places : Holds(place, g)
    BY <2>1, <2>2 DEF NoDatabaseIsLost, Holds
  <2>4. place # Archive(None, disk.side)
    BY <2>3 DEF Holds, Archive
  <2>5. place \in Places'
    BY <2>1, <2>3, <2>4 DEF Places
  <2>6. QED BY <2>3, <2>5 DEF Holds
<1>4. CASE disk' = Released(Opened(disk))
  <2>1. PICK opened : opened = Opened(disk)
    OBVIOUS
  <2>2. opened \in Disks /\ opened.main # None /\ opened.aside = disk.aside /\ opened.preserved = disk.preserved
    BY <1>1, <2>1, OpenedIs
  <2>3. /\ disk'.generations = opened.generations /\ disk'.aside = opened.aside
        /\ disk'.preserved = opened.preserved /\ InPlace(opened.main, disk'.main)
    BY <1>4, <2>1, <2>2, ReleasedIs DEF InPlace, SameSessions
  <2>4. QED BY <1>1, <2>1, <2>2, <2>3, OpenedKeeps
<1>5. QED BY <1>2, <1>3, <1>4 DEF Replace

LEMMA StepKeeps ==
  ASSUME IInv, IInv', NoDatabaseIsLost, [Next]_storageVars
  PROVE  NoDatabaseIsLost'
<1>1. /\ TypeOK /\ Shape /\ FilesInv /\ FilesInv' /\ disk \in Disks
      /\ disk.main # None => disk.main \in DB
  BY DEF IInv, TypeOK, Disks
<1>2. ASSUME NEW p, p = proc \/ p = Restored(proc), NEW kind, Fails(p, kind) PROVE NoDatabaseIsLost'
  BY <1>1, <1>2, FailureKeeps, StaysKept
<1>3. ASSUME NEW new, disk' = [disk EXCEPT !.main = new], disk.main # None => InPlace(disk.main, new)
      PROVE  NoDatabaseIsLost'
  BY <1>1, <1>3, MainStaysInPlace, StaysKept
<1>4. ASSUME disk' = disk PROVE NoDatabaseIsLost'
  BY <1>4 DEF NoDatabaseIsLost, Places
<1>5. ASSUME NEW at, disk' = [disk EXCEPT !.main = Activated(@, proc, at)] PROVE NoDatabaseIsLost'
  BY <1>1, <1>3, <1>5, TransactionsInPlace
<1>6. ASSUME NEW at, NEW command,
             disk' = [disk EXCEPT !.main = [Activated(@, proc, at) EXCEPT !.command = command]]
      PROVE  NoDatabaseIsLost'
  BY <1>1, <1>3, <1>6, TransactionsInPlace
<1>7. CASE UNCHANGED storageVars \/ Start \/ Crash \/ Tick
  BY <1>4, <1>7 DEF storageVars, Start, Crash, Tick
<1>8. CASE Open
  <2>1. CASE disk' = Opened(disk)
    <3>1. InPlace(Opened(disk).main, disk'.main)
      BY <1>1, <2>1, OpenedIs DEF InPlace
    <3>2. QED BY <1>1, <2>1, <3>1, OpenedIs, OpenedKeeps
  <2>2. QED BY <1>2, <1>8, <2>1 DEF Open, RolledBack
<1>9. CASE Mark
  BY <1>2, <1>5, <1>9 DEF Mark, RolledBack
<1>10. CASE Reconcile
  <2>1. CASE disk' = [disk EXCEPT !.main =
                        Reconciled(@, proc, GapStart(proc.prior), proc.prior, proc.started)]
    BY <1>1, <1>3, <2>1, TransactionsInPlace
  <2>2. QED BY <1>2, <1>4, <1>10, <2>1 DEF Reconcile, RolledBack
<1>11. CASE Replace
  BY <1>1, <1>11, ReplaceKeeps
<1>12. CASE ReplaceFails
  <2>1. MainStays
    BY <1>1, <1>12 DEF MainStays, InPlace, ReplaceFails, Discarded, Disks
  <2>2. QED BY <1>1, <2>1, StaysKept
<1>13. CASE Observe
  BY <1>2, <1>4, <1>5, <1>13 DEF Observe, RolledBack
<1>14. CASE Request
  BY <1>4, <1>6, <1>14 DEF Request
<1>15. CASE Settle
  BY <1>4, <1>6, <1>15 DEF Settle
<1>16. CASE Probe
  BY <1>2, <1>4, <1>16 DEF Probe, RolledBack
<1>17. CASE Cutover
  <2>1. CASE disk' = Recovered(Opened(disk), proc)
    <3>1. PICK opened : opened = Opened(disk)
      OBVIOUS
    <3>2. /\ opened \in Disks /\ opened.main \in DB /\ opened.aside = disk.aside
          /\ opened.preserved = disk.preserved
      BY <1>1, <3>1, OpenedIs
    <3>3. PICK from : from = IF proc.prior # {} THEN GapStart(proc.prior) ELSE proc.outage
      OBVIOUS
    <3>4. PICK gapped : gapped = Reconciled(opened.main, proc, from, proc.prior, now)
      OBVIOUS
    <3>5. disk' = [opened EXCEPT !.main = [gapped EXCEPT !.command = @ /\ proc.known # "settled"]]
      BY <2>1, <3>1, <3>3, <3>4 DEF Recovered
    <3>6. InPlace(opened.main, [gapped EXCEPT !.command = @ /\ proc.known # "settled"])
      BY <3>2, <3>4, TransactionsInPlace
    <3>7. QED BY <1>1, <3>1, <3>2, <3>5, <3>6, OpenedKeeps DEF Disks
  <2>2. CASE disk' = disk
    BY <1>4, <2>2
  <2>3. CASE \E kind : Fails(proc, kind)
    BY <1>2, <2>3
  <2>4. QED BY <1>17, <2>1, <2>2, <2>3 DEF Cutover, RolledBack
<1>18. CASE Stop
  <2>1. CASE disk' = disk
    BY <1>4, <2>1
  <2>2. ASSUME Stored(proc), NEW d, d = disk \/ d = [disk EXCEPT !.main = Closed(@, {proc.id})],
               disk' = Released(d)
        PROVE  NoDatabaseIsLost'
    <3>1. disk.main # None /\ disk.main \in DB
      BY <1>1, <2>2 DEF Shape, Stored
    <3>2. d = [disk EXCEPT !.main = d.main] /\ InPlace(disk.main, d.main)
      BY <1>1, <2>2, <3>1, TransactionsInPlace DEF Disks, InPlace
    <3>3. disk' = [disk EXCEPT !.main = [d.main EXCEPT !.wal = FALSE], !.side = 0]
      BY <1>1, <2>2, <3>2 DEF Released, Disks
    <3>4. /\ disk'.main = [d.main EXCEPT !.wal = FALSE] /\ disk'.generations = disk.generations
          /\ disk'.aside = disk.aside /\ disk'.preserved = disk.preserved
      BY <1>1, <3>3 DEF Disks
    <3>5. disk'.main # None
      <4>1. d.main = disk.main \/ d.main = [disk.main EXCEPT !.sessions = d.main.sessions]
        BY <1>1, <2>2, <3>1 DEF Closed, Disks, DB
      <4>2. "wal" \in DOMAIN d.main
        BY <3>1, <4>1 DEF DB
      <4>3. QED BY <3>4, <4>2 DEF None
    <3>6. InPlace(disk.main, disk'.main)
      BY <3>2, <3>4, <3>5 DEF InPlace
    <3>7. QED BY <1>1, <3>4, <3>6, StaysKept DEF MainStays
  <2>3. QED BY <1>18, <2>1, <2>2 DEF Stop
<1>19. CASE Operate
  <2>1. CASE Damage
    <3>1. PICK condition \in Conditions : disk' = [disk EXCEPT !.main.condition = condition]
      BY <2>1 DEF Damage
    <3>2. disk.main # None /\ disk.main \in DB
      BY <1>1, <2>1 DEF Damage
    <3>3. InPlace(disk.main, [disk.main EXCEPT !.condition = condition])
      <4>1. "wal" \in DOMAIN [disk.main EXCEPT !.condition = condition]
        BY <3>2 DEF DB
      <4>2. QED BY <3>2, <4>1 DEF InPlace, None, DB
    <3>4. disk' = [disk EXCEPT !.main = [disk.main EXCEPT !.condition = condition]]
      BY <1>1, <3>1 DEF Disks
    <3>5. QED BY <1>3, <3>3, <3>4
  <2>2. CASE Exchange
    <3>1. /\ Archive(disk'.main, disk'.side) = disk.aside /\ disk'.aside = Archive(disk.main, disk.side)
          /\ disk'.preserved = disk.preserved /\ disk'.generations = disk.generations
      BY <1>1, <2>2 DEF Exchange, Archive, Archives, Disks
    <3>2. Places' = Places
      BY <3>1 DEF Places
    <3>3. QED BY <3>1, <3>2 DEF NoDatabaseIsLost
  <2>3. QED BY <1>19, <2>1, <2>2 DEF Operate
<1>20. QED BY <1>7, <1>8, <1>9, <1>10, <1>11, <1>12, <1>13, <1>14, <1>15, <1>16, <1>17, <1>18, <1>19 DEF Next

\* Whenever the process dies, also in the middle of a replacement, every database there
\* ever was is somewhere (replaceCorruptSqliteStorageAtStartup).
THEOREM DatabasesAreKept == Spec => []NoDatabaseIsLost
<1>1. Init => NoDatabaseIsLost
  BY DEF Init, DiskInit, NoDatabaseIsLost
<1>2. IInv /\ IInv' /\ NoDatabaseIsLost /\ [Next]_storageVars => NoDatabaseIsLost'
  BY StepKeeps
<1>3. QED BY <1>1, <1>2, Invariance, PTL DEF Spec

=============================================================================
