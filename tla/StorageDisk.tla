----------------------------- MODULE StorageDisk -----------------------------
(***************************************************************************)
(* The files at the path of the room's database: the database, its write-  *)
(* ahead sidecars, and what replacements keep of databases that could no   *)
(* longer be opened (sqlite-room-storage-replacement.ts).                  *)
(*                                                                         *)
(* A database is named by its history generation.  Of its contents the     *)
(* model keeps the markers of runtime sessions, the recorded gaps, and     *)
(* whether the checkpoint has an active command.  SQLite itself is         *)
(* external: it replays the sidecars of a database it opens, removes them  *)
(* when it closes it, and drops those it finds beside an empty file.       *)
(***************************************************************************)
EXTENDS Integers, FiniteSets, FiniteSetsExt

CONSTANT MaxGenerations \* bound of the model: databases ever made

VARIABLE disk

None == [none |-> TRUE]

\* What the inspection of a target finds wrong with it, and how an error is classified.
\* "partial" stands for every schema that is not the expected one.
Conditions == {"sound", "damaged", "partial"}

\* A database; wal: part of it is only in the sidecars.
Database(generation) ==
  [generation |-> generation, condition |-> "sound", wal |-> FALSE,
   sessions |-> {}, gaps |-> {}, command |-> FALSE]

DiskInit ==
  disk = [main |-> None, side |-> 0, staging |-> None, preserved |-> {},
          aside |-> [main |-> None, side |-> 0], generations |-> 0]

\* The target at the path: without a file, or with an empty one, it is pristine.
Inspected(d) ==
  IF d.main = None THEN "pristine"
  ELSE CASE d.main.condition = "sound" -> "existing"
         [] d.main.condition = "damaged" -> "manual_intervention"
         [] d.main.condition = "partial" -> "fatal"

\* The file is opened, and made with the schema if there is none.
Opened(d) ==
  LET main == IF d.main = None THEN Database(d.generations + 1) ELSE d.main
  IN  [d EXCEPT !.main = [main EXCEPT !.wal = TRUE], !.side = main.generation,
                !.generations = IF d.main = None THEN @ + 1 ELSE @]

Released(d) == [d EXCEPT !.main.wal = FALSE, !.side = 0]

-----------------------------------------------------------------------------
(* Replacement, one call to the file system after the other *)

\* Mutant of Staged: the sidecars are left for the cleanup.
StagedBare(d) == [d EXCEPT !.staging = [side |-> 0]]

Staged(d) == [d EXCEPT !.staging = [side |-> d.side]]

Discarded(d) == [d EXCEPT !.staging = None]

\* The copies become the archive, and the database joins them.
Archive(main, side) == [main |-> main, side |-> side]

Published(d) ==
  [d EXCEPT !.preserved = @ \cup {Archive(None, d.staging.side)}, !.staging = None]

Moved(d, side) ==
  [d EXCEPT !.preserved = (@ \ {Archive(None, side)}) \cup {Archive(d.main, side)}, !.main = None]

Cleaned(d) == [d EXCEPT !.side = 0]

-----------------------------------------------------------------------------
(* What an operator does to the files *)

\* The database is damaged, or repaired with its contents kept.
Damage ==
  \E condition \in Conditions :
    /\ disk.main # None /\ condition # disk.main.condition
    /\ disk' = [disk EXCEPT !.main.condition = condition]

\* The files are taken away, or exchanged for those taken away before.
Exchange ==
  /\ disk.main # disk.aside.main
  /\ disk' = [disk EXCEPT !.main = disk.aside.main, !.side = disk.aside.side,
                          !.aside = [main |-> disk.main, side |-> disk.side]]

-----------------------------------------------------------------------------
Places == {Archive(disk.main, disk.side), disk.aside} \cup disk.preserved

\* Whenever the process dies, also in the middle of a replacement, every database there
\* ever was is still somewhere, with the sidecars that hold a part of it
\* (replaceCorruptSqliteStorageAtStartup of sqlite-room-storage-replacement.ts).
NoDatabaseIsLost ==
  \A g \in 1..disk.generations :
    \E place \in Places :
      /\ place.main # None /\ place.main.generation = g
      /\ place.main.wal => place.side = g

=============================================================================
