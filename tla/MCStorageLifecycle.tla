------------------------- MODULE MCStorageLifecycle -------------------------
(***************************************************************************)
(* No database yet, or one that an earlier process has closed; the         *)
(* operator has another one at hand.                                       *)
(***************************************************************************)
EXTENDS StorageLifecycle

MCInit ==
  /\ proc = Down(0)
  /\ now = 0 /\ faults = 0 /\ lost = {}
  /\ \/ DiskInit
     \/ disk = [main |-> Database(1), side |-> 0, staging |-> None, preserved |-> {},
                aside |-> [main |-> Database(2), side |-> 0], generations |-> 2]

MCSpec == MCInit /\ [][Next]_storageVars /\ Fairness

=============================================================================
