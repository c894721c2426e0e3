--------------------------- MODULE MCLiveHistory ---------------------------
(***************************************************************************)
(* A room with two stored facts to begin with; pages of one entry and an   *)
(* overlay of one or two.                                                  *)
(***************************************************************************)
EXTENDS LiveHistory

MCInit ==
  /\ room = [generation |-> 1, known |-> 1, available |-> TRUE, stored |-> <<1, 2>>,
             recent |-> Newest(Durable({1, 2}), RecentLimit), last |-> 2, faults |-> 0,
             past |-> [g \in 1..MaxGeneration |-> IF g = 1 THEN {1, 2} ELSE {}]]
  /\ link = [connected |-> FALSE, queue |-> <<>>, lastKnown |-> 0, baseline |-> None]
  /\ session = Closed
  /\ calls = {}
  /\ seen = {}

MCSpec == MCInit /\ [][Next]_liveVars

MCFairSpec == MCSpec /\ Fairness

=============================================================================
