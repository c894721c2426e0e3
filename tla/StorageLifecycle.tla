-------------------------- MODULE StorageLifecycle --------------------------
(***************************************************************************)
(* How the backend opens, loses, recovers and closes its database over     *)
(* several processes: startup with the marker of its runtime session       *)
(* (room-engine.ts, initializeProjectionCheckpoint), the probe and the     *)
(* cutover of a recovery (room-storage-recovery.ts over                    *)
(* sqlite-room-storage-lifecycle.ts), and the replacement an operator asks *)
(* for.  Between any two transactions, and between the calls of a          *)
(* replacement, the process may die; while the database is not open, an    *)
(* operator may change the files.                                          *)
(*                                                                         *)
(* Time is a clock of a few ticks.  What is lost is the loss of what was   *)
(* observed while nothing could be stored.  An indeterminate commit ends   *)
(* the process: it is a commit, or none, before a crash.                   *)
(***************************************************************************)
EXTENDS StorageDisk

CONSTANTS MaxTime, MaxProcesses, MaxFaults \* bounds of the model

VARIABLES proc, now, faults,
          lost \* history variable: when, and by which process, something was not stored

storageVars == <<disk, proc, now, faults, lost>>

\* status as in PlatformStorageProjection; verified: the generation it has seen; outage: when
\* the storage was first lost; prior: the sessions found unclosed; probe: what recovery
\* found; archive: the sidecars it has archived; known: the state of the checkpoint's command
\* in memory; command: a volatile one.
Down(id) ==
  [phase |-> "down", id |-> id, started |-> 0, status |-> "none", verified |-> 0, open |-> FALSE,
   outage |-> -1, prior |-> {}, probe |-> None, known |-> "none", command |-> FALSE, archive |-> 0]

Init ==
  /\ DiskInit
  /\ proc = Down(0)
  /\ now = 0 /\ faults = 0 /\ lost = {}

-----------------------------------------------------------------------------
(* Runtime sessions and gaps *)

\* Mutant of Bound: work before the last commit is taken for lost.
BoundAtStart(session) == session.started

\* No work precedes the session, and all through its last commit is stored.
Bound(session) == IF session.started >= session.last THEN session.started ELSE session.last

\* conservativeSessionGapStart
GapStart(sessions) == Min({Bound(s) : s \in sessions})

Unclosed(db) == {s \in db.sessions : s.open}

\* Every transaction that stores a checkpoint moves the marker of the session.
Activated(db, p, at) ==
  LET own == {s \in db.sessions : s.id = p.id}
      before == {s.last : s \in own} \cup {at}
  IN  [db EXCEPT !.sessions = (@ \ own) \cup
         {[id |-> p.id, started |-> p.started, last |-> Max(before), open |-> TRUE]}]

Closed(db, ids) ==
  [db EXCEPT !.sessions = {[s EXCEPT !.open = @ /\ s.id \notin ids] : s \in db.sessions}]

\* One transaction stores the gap, moves the own marker and closes those it accounts for.
Reconciled(db, p, from, prior, at) ==
  Closed([Activated(db, p, at) EXCEPT !.gaps = @ \cup {[from |-> from, to |-> at]}],
         {s.id : s \in prior})

-----------------------------------------------------------------------------
(* The status of the storage *)

Stored(p) == p.phase = "running" /\ p.status = "available"

\* Mutant of Automatic: an attempt that was broken off is not repeated.
AutomaticOnce(p) == p.status = "degraded"

\* The recovery timer runs unless an operator has to step in.
Automatic(p) == p.status \in {"degraded", "recovering"}

\* Mutant of Degraded: a later failure moves the start of the outage.
DegradedAnew(p, status) ==
  [p EXCEPT !.phase = "running", !.status = status, !.open = FALSE, !.outage = now,
            !.prior = {}, !.probe = None]

\* recordStorageFailure keeps the first failure of an outage.
Degraded(p, status) ==
  [p EXCEPT !.phase = "running", !.status = status, !.open = FALSE, !.prior = {}, !.probe = None,
            !.outage = IF @ = -1 THEN now ELSE @]

\* What a failure makes of the process, and of the files it had open.
Fails(p, kind) ==
  /\ proc' = CASE kind = "availability" -> Degraded(p, "degraded")
               [] kind = "manual_intervention" -> Degraded(p, "manual")
               [] kind = "fatal" -> Down(p.id)
  /\ disk' = IF p.open THEN Released(disk) ELSE disk

Fault == faults < MaxFaults /\ faults' = faults + 1

\* A transaction that is rolled back because the storage is not available.
RolledBack(p) == Fault /\ Fails(p, "availability")

-----------------------------------------------------------------------------
(* Startup *)

\* A process begins, with the operator's order to replace the database or without.
Start ==
  /\ proc.phase = "down" /\ proc.id < MaxProcesses
  /\ \E phase \in {"opening", "staging"} :
       proc' = [Down(proc.id + 1) EXCEPT !.phase = phase, !.started = now]
  /\ UNCHANGED <<disk, now, faults, lost>>

\* openAtStartup, and the sessions found in the database.
Open ==
  /\ proc.phase = "opening"
  /\ \/ /\ Inspected(disk) \in {"pristine", "existing"}
        /\ disk.main = None => disk.generations < MaxGenerations
        /\ LET opened == Opened(disk)
           IN  /\ disk' = opened
               /\ proc' = [proc EXCEPT !.phase = "marking", !.open = TRUE,
                                       !.verified = opened.main.generation,
                                       !.prior = Unclosed(opened.main)]
        /\ UNCHANGED faults
     \/ /\ Inspected(disk) \in {"manual_intervention", "fatal"}
        /\ Fails(proc, Inspected(disk))
        /\ UNCHANGED faults
     \/ RolledBack(proc)
  /\ UNCHANGED <<now, lost>>

\* The first transaction: the session is marked before anything else is stored.
Mark ==
  /\ proc.phase = "marking"
  /\ \/ /\ disk' = [disk EXCEPT !.main = Activated(@, proc, proc.started)]
        /\ proc' = [proc EXCEPT !.phase = "reconciling"]
        /\ UNCHANGED faults
     \/ RolledBack(proc)
  /\ UNCHANGED <<now, lost>>

\* The checkpoint is restored; the sessions that were left open become one gap.
Restored(p) == [p EXCEPT !.known = IF disk.main.command THEN "active" ELSE "none"]

Reconcile ==
  /\ proc.phase = "reconciling"
  /\ \/ /\ disk' = IF proc.prior = {} THEN disk
                   ELSE [disk EXCEPT !.main =
                           Reconciled(@, proc, GapStart(proc.prior), proc.prior, proc.started)]
        /\ proc' = [Restored(proc) EXCEPT !.phase = "running", !.status = "available", !.prior = {}]
        /\ UNCHANGED faults
     \/ RolledBack(proc)
     \/ RolledBack(Restored(proc))
  /\ UNCHANGED <<now, lost>>

-----------------------------------------------------------------------------
(* Replacement *)

Going(phase) == [proc EXCEPT !.phase = phase]

Replace ==
  /\ \/ /\ proc.phase = "staging" /\ disk.main # None
        /\ disk' = Staged(disk)
        /\ proc' = Going("examining")
     \/ /\ proc.phase = "staging" /\ disk.main = None
        /\ proc' = Down(proc.id)
        /\ UNCHANGED disk
     \/ /\ proc.phase = "examining" /\ Inspected(disk) = "manual_intervention"
        /\ proc' = Going("publishing")
        /\ UNCHANGED disk
     \/ /\ proc.phase = "examining" /\ Inspected(disk) # "manual_intervention"
        /\ proc' = Down(proc.id)
        /\ disk' = Discarded(disk)
     \/ /\ proc.phase = "publishing"
        /\ disk' = Published(disk)
        /\ proc' = [Going("moving") EXCEPT !.archive = disk.staging.side]
     \/ /\ proc.phase = "moving"
        /\ disk' = Moved(disk, proc.archive)
        /\ proc' = [Going("cleaning") EXCEPT !.archive = 0]
     \/ /\ proc.phase = "cleaning"
        /\ disk' = Cleaned(disk)
        /\ proc' = Going("creating")
     \/ /\ proc.phase = "creating" /\ disk.generations < MaxGenerations
        /\ disk' = Released(Opened(disk))
        /\ proc' = Going("opening")
  /\ UNCHANGED <<now, faults, lost>>

\* A call to the file system fails: the process ends, without what it had staged.
ReplaceFails ==
  /\ Fault
  /\ proc.phase \in {"staging", "examining", "publishing", "moving", "cleaning", "creating"}
  /\ proc' = Down(proc.id)
  /\ disk' = Discarded(disk)
  /\ UNCHANGED <<now, lost>>

-----------------------------------------------------------------------------
(* While it runs *)

\* Something is observed: it is stored with the checkpoint, or lost with this process.
Observe ==
  /\ proc.phase = "running"
  /\ \/ /\ Stored(proc)
        /\ disk' = [disk EXCEPT !.main = Activated(@, proc, now)]
        /\ UNCHANGED <<proc, faults, lost>>
     \/ /\ Stored(proc) /\ RolledBack(proc)
        /\ lost' = lost \cup {[time |-> now, by |-> proc.id]}
     \/ /\ ~Stored(proc)
        /\ lost' = lost \cup {[time |-> now, by |-> proc.id]}
        /\ UNCHANGED <<disk, proc, faults>>
  /\ UNCHANGED now

\* A command is admitted: durable, or volatile while nothing can be stored and no durable
\* one is known; none during a recovery.
Request ==
  /\ proc.phase = "running" /\ proc.known # "active" /\ ~proc.command
  /\ \/ /\ Stored(proc)
        /\ disk' = [disk EXCEPT !.main = [Activated(@, proc, now) EXCEPT !.command = TRUE]]
        /\ proc' = [proc EXCEPT !.known = "active"]
     \/ /\ proc.status \in {"degraded", "manual"}
        /\ proc' = [proc EXCEPT !.command = TRUE]
        /\ UNCHANGED disk
  /\ UNCHANGED <<now, faults, lost>>

\* A command reaches its end, at the latest with its deadline.
Settle ==
  /\ proc.phase = "running"
  /\ \/ /\ proc.command
        /\ proc' = [proc EXCEPT !.command = FALSE]
        /\ UNCHANGED disk
     \/ /\ proc.known = "active"
        /\ proc' = [proc EXCEPT !.known = IF Stored(proc) THEN "none" ELSE "settled"]
        /\ disk' = IF Stored(proc)
                   THEN [disk EXCEPT !.main = [Activated(@, proc, now) EXCEPT !.command = FALSE]] ELSE disk
  /\ UNCHANGED <<now, faults, lost>>

-----------------------------------------------------------------------------
(* Recovery *)

\* The probe of the recovery timer.  It goes on to the cutover with what it found, and
\* has verified the generation even if the cutover fails.
Probe ==
  /\ proc.phase = "running" /\ Automatic(proc)
  /\ \/ /\ Inspected(disk) = "existing"
        /\ proc.verified \in {0, disk.main.generation}
        /\ proc' = [proc EXCEPT !.phase = "cutover", !.verified = disk.main.generation,
                                !.prior = {s \in Unclosed(disk.main) : s.id # proc.id},
                                !.probe = [kind |-> "existing_generation", command |-> disk.main.command,
                                           status |-> proc.status],
                                !.status = "recovering"]
        /\ UNCHANGED <<disk, faults>>
     \/ /\ Inspected(disk) = "pristine" /\ proc.verified = 0
        /\ proc' = [proc EXCEPT !.phase = "cutover", !.status = "recovering", !.prior = {},
                                !.probe = [kind |-> "first_initialization", command |-> FALSE,
                                           status |-> proc.status]]
        /\ UNCHANGED <<disk, faults>>
     \/ /\ \/ Inspected(disk) = "existing" /\ proc.verified \notin {0, disk.main.generation}
           \/ Inspected(disk) = "pristine" /\ proc.verified # 0
        /\ Fails(proc, "manual_intervention")
        /\ UNCHANGED faults
     \/ /\ Inspected(disk) \in {"manual_intervention", "fatal"}
        /\ Fails(proc, Inspected(disk))
        /\ UNCHANGED faults
     \/ RolledBack(proc)
  /\ UNCHANGED <<now, lost>>

\* A volatile command and another one, durable, on its device.
Conflict == proc.probe.command /\ proc.command

Aborted(p, status) ==
  [p EXCEPT !.phase = "running", !.status = status, !.prior = {}, !.probe = None]

\* Mutant of Unchanged: the target is not looked at again before the transaction.
UnchangedUnseen ==
  IF proc.probe.kind = "existing_generation" THEN disk.main # None ELSE disk.main = None

\* The target is still the one that was probed.
Unchanged ==
  IF proc.probe.kind = "existing_generation"
  THEN disk.main # None /\ disk.main.generation = proc.verified
  ELSE disk.main = None

\* The database with the outage recorded.
Recovered(d, p) ==
  LET from == IF p.prior # {} THEN GapStart(p.prior) ELSE p.outage
      db == Reconciled(d.main, p, from, p.prior, now)
  IN  [d EXCEPT !.main = [db EXCEPT !.command = @ /\ p.known # "settled"]]

Cutover ==
  /\ proc.phase = "cutover"
  /\ \/ /\ Conflict
        /\ proc' = Aborted(proc, "recovering")
        /\ UNCHANGED <<disk, faults>>
     \/ /\ ~Conflict /\ Inspected(disk) \in {"manual_intervention", "fatal"}
        /\ Fails(proc, Inspected(disk))
        /\ UNCHANGED faults
     \/ /\ ~Conflict /\ Inspected(disk) \in {"pristine", "existing"} /\ ~Unchanged
        /\ proc' = Aborted(proc, proc.probe.status)
        /\ UNCHANGED <<disk, faults>>
     \/ /\ Inspected(disk) \in {"pristine", "existing"} /\ Unchanged
        /\ ~Conflict
        /\ disk.main = None => disk.generations < MaxGenerations
        /\ LET recovered == Recovered(Opened(disk), proc)
           IN  /\ disk' = recovered
               /\ proc' = [Aborted(proc, "available") EXCEPT
                             !.open = TRUE, !.verified = recovered.main.generation, !.outage = -1,
                             !.known = IF recovered.main.command THEN "active" ELSE "none"]
        /\ UNCHANGED faults
     \/ /\ Fault
        /\ proc' = Aborted(proc, "degraded") \* the queue of inputs overflowed
        /\ UNCHANGED disk
     \/ /\ ~Conflict /\ RolledBack(proc)
  /\ UNCHANGED <<now, lost>>

-----------------------------------------------------------------------------
(* The end of a process *)

Stop ==
  /\ proc.phase = "running"
  /\ \/ /\ Stored(proc)
        /\ disk' = Released([disk EXCEPT !.main = Closed(@, {proc.id})])
        /\ UNCHANGED faults
     \/ /\ Stored(proc) /\ Fault \* intake did not drain, or the transaction failed
        /\ disk' = Released(disk)
     \/ /\ ~Stored(proc)
        /\ UNCHANGED <<disk, faults>>
  /\ proc' = Down(proc.id)
  /\ UNCHANGED <<now, lost>>

\* What was observed at the moment of the crash may not be stored.
Crash ==
  /\ Fault /\ proc.phase # "down"
  /\ proc' = Down(proc.id)
  /\ lost' = IF proc.phase = "running" THEN lost \cup {[time |-> now, by |-> proc.id]} ELSE lost
  /\ UNCHANGED <<disk, now>>

\* An operator may exchange files that no process holds open, but not under a replacement
\* that has begun to copy them: it was the operator who asked for it.
Operate ==
  /\ Fault /\ ~proc.open
  /\ \/ Damage
     \/ Exchange /\ proc.phase \notin {"examining", "publishing", "moving", "cleaning"}
  /\ UNCHANGED <<proc, now, lost>>

Tick ==
  /\ now < MaxTime /\ proc.phase \in {"down", "running"}
  /\ now' = now + 1
  /\ UNCHANGED <<disk, proc, faults, lost>>

Next ==
  \/ Start \/ Open \/ Mark \/ Reconcile
  \/ Replace \/ ReplaceFails
  \/ Observe \/ Request \/ Settle
  \/ Probe \/ Cutover
  \/ Stop \/ Crash \/ Operate \/ Tick

Spec == Init /\ [][Next]_storageVars

\* The process goes on with what it has begun, the recovery timer fires as long as storage
\* is not available, and a command has a deadline.
Fairness ==
  /\ WF_storageVars(Open) /\ WF_storageVars(Mark) /\ WF_storageVars(Reconcile)
  /\ WF_storageVars(Probe) /\ WF_storageVars(Cutover) /\ SF_storageVars(Settle)

FairSpec == Spec /\ Fairness

-----------------------------------------------------------------------------
(* Properties *)

Covered(time) == \E gap \in disk.main.gaps : gap.from <= time /\ time <= gap.to

\* Once storage is available, whatever a process with a marker in this database could not
\* store is within a recorded gap, however often it failed, crashed or was restarted
\* (initializeProjectionCheckpoint, attemptStorageRecovery).
LossesExplained ==
  Stored(proc) =>
    \A loss \in lost :
      loss.by \in {s.id : s \in disk.main.sessions} => Covered(loss.time)

\* No time is recorded as lost twice: a restart does not account again for what an earlier
\* one did, whichever of the two began the gap (conservativeSessionGapStart, closeRuntimeSession).
GapsAreDisjoint ==
  disk.main # None =>
    \A g, h \in disk.main.gaps : g = h \/ g.to <= h.from \/ h.to <= g.from

\* A process stores only in the database it has seen first, and makes none when that one
\* is gone, whatever an operator does to the files between its probe and its cutover
\* (probe and cutover of sqlite-room-storage-lifecycle.ts).
GenerationIsPinned ==
  [][proc.verified # 0 /\ proc'.id = proc.id /\ proc'.phase # "down" =>
       proc'.verified = proc.verified]_storageVars

\* What could not be stored is within a gap, whichever process lost it: the claim of the
\* ADR for "volatile feed items that never reached a checkpoint".
EveryLossIsExplained ==
  Stored(proc) => \A loss \in lost : Covered(loss.time)

\* An outage that needs no operator ends, also when a volatile command and a durable one are
\* in conflict (attemptStorageRecovery leaves the status recovering and tries again).
RecoveryEnds ==
  proc.phase = "running" /\ Automatic(proc) ~>
    proc.phase = "down" \/ proc.status \in {"available", "manual"}

=============================================================================
