--------------------------- MODULE MCPagedHistory ---------------------------
(***************************************************************************)
(* One device and two queries, pages of one item.  The database holds      *)
(* three facts to begin with, one of which is the request that an old      *)
(* timeout needs to be shown.                                              *)
(***************************************************************************)
EXTENDS PagedHistory

MCRecord == <<"request", "timeout", "change">>
MCMaxSequence == <<4, 1>>
MCStream == {<<"fact", "led">>}
MCRequests == [r \in {"request"} |-> [command |-> "c", power |-> "on"]]
MCLegacyTimeouts == [r \in {"timeout"} |-> "c"]
MCCriteria == {[dataset |-> "fact", device |-> "led", from |-> -1, to |-> 3],
               [dataset |-> "fact", device |-> "led", from |-> 0, to |-> 1]}

\* The first three facts, all of time 0.
FirstRows ==
  {[generation |-> 1, sequence |-> i, record |-> MCRecord[i], dataset |-> "fact", device |-> "led",
    occurredAt |-> 0, retiredAt |-> Null, retiredRevision |-> Null] : i \in 1..3}

MCInit ==
  /\ now = 0
  /\ rows = FirstRows
  /\ meta = [generation |-> 1, lastSequence |-> 3, lastRetentionAsOf |-> 0, revision |-> 0]
  /\ pins = {}
  /\ process = 1
  /\ session = Blank
  /\ calls = {}

MCSpec == MCInit /\ [][Next]_pagedVars

=============================================================================
