--------------------------- MODULE CommandPromise ---------------------------
(***************************************************************************)
(* What the platform promises about a command, whatever happens to storage *)
(* and to the process: while it is on the list its lifecycle only moves    *)
(* forward; it leaves the list only when it is over and Limit outcomes     *)
(* stay there; and a crash, or a recovery after it left the list of memory, *)
(* may take it back to what was stored but never further.                  *)
(* CommandDelivery implements this module.                                 *)
(***************************************************************************)
EXTENDS Naturals, FiniteSets

CONSTANTS
  Command,
  Limit     \* outcomes that stay on the list

VARIABLES
  up,    \* whether the process runs
  seen,  \* the status of each command that clients are shown
  kept   \* the status a restart would find in the SQLite checkpoint

vars == <<up, seen, kept>>

Status == {"none", "accepted", "pending", "confirmed", "failed", "timed_out"}
TerminalStatus == {"confirmed", "failed", "timed_out"}

\* The lifecycle: <<s, t>> is in Moves iff an event may take a command from s
\* to t.  Admission accepts or rejects; a handoff that the observed state
\* already confirms skips "pending".
Moves ==
  {<<"none", "accepted">>, <<"none", "failed">>,
   <<"accepted", "pending">>, <<"accepted", "confirmed">>, <<"accepted", "failed">>,
   <<"pending", "confirmed">>, <<"pending", "failed">>, <<"pending", "timed_out">>}

\* How far a status is along the lifecycle; all terminal ones are at its end.
Rank(s) ==
  CASE s = "none" -> 0 [] s = "accepted" -> 1 [] s = "pending" -> 2 [] OTHER -> 3

Outcomes(f) == {c \in Command : f[c] \in TerminalStatus}

\* selectRecentCommands: g is f without some outcomes, if Limit of them stay.
Remembers(f, g) ==
  /\ \A c \in Command : g[c] = f[c] \/ (f[c] \in TerminalStatus /\ g[c] = "none")
  /\ g # f => Cardinality(Outcomes(g)) >= Limit

\* mergeRecoveryProjection, for a memory that is ahead of what is stored or
\* does not know the command, or no longer.
Merge(memory, stored) ==
  [c \in Command |-> IF memory[c] = "none" THEN stored[c] ELSE memory[c]]

Init ==
  /\ up = TRUE
  /\ seen = [c \in Command |-> "none"]
  /\ kept = seen

\* An event moves command c to status t; the identifier of a new command is
\* fresh.
MayMove(c, t) ==
  /\ up
  /\ <<seen[c], t>> \in Moves
  /\ seen[c] = "none" => kept[c] = "none"

\* The move stays in memory, or is stored with the event, when storage holds
\* all that is shown.
Advance(c, t) ==
  /\ MayMove(c, t)
  /\ Remembers([seen EXCEPT ![c] = t], seen')
  /\ kept' = kept \/ (kept = seen /\ kept' = seen')
  /\ UNCHANGED up

\* The event was stored, but the process did not live to see it.
AdvanceAndStop(c, t) ==
  /\ MayMove(c, t)
  /\ kept = seen
  /\ Remembers([seen EXCEPT ![c] = t], kept')
  /\ seen' = kept'
  /\ up' = FALSE

\* A checkpoint or a recovery stores what is shown, and shows what is stored;
\* the process may not live to see that either.
Save ==
  /\ up
  /\ Remembers(Merge(seen, kept), kept')
  /\ seen' = kept'
  /\ up' \in BOOLEAN

\* The process ends: what was only in memory is gone.
Stop ==
  /\ up
  /\ up' = FALSE
  /\ seen' = kept
  /\ UNCHANGED kept

\* The process starts; it may find that storage cannot be read.
Start ==
  /\ ~up
  /\ up' = TRUE
  /\ seen' \in {kept, [c \in Command |-> "none"]}
  /\ UNCHANGED kept

Next ==
  \/ \E c \in Command, t \in Status : Advance(c, t) \/ AdvanceAndStop(c, t)
  \/ Save
  \/ Stop
  \/ Start

Spec == Init /\ [][Next]_vars

-----------------------------------------------------------------------------
(* Properties *)

\* Every command has a status, in memory and in storage.
TypeOK ==
  /\ up \in BOOLEAN
  /\ seen \in [Command -> Status]
  /\ kept \in [Command -> Status]

\* What is stored is never ahead of what is shown, except for a command that
\* memory does not hold: so nothing that storage still has to catch up with can
\* take a command back.
StoredIsBehind ==
  \A c \in Command :
    seen[c] # "none" => seen[c] = kept[c] \/ Rank(kept[c]) < Rank(seen[c])

\* From f to g no command on the list goes back along its lifecycle and no outcome
\* is replaced; one that is off the list leaves Limit outcomes on it.
OnlyAdvances(f, g) ==
  \A c \in Command :
    \/ g[c] = f[c]
    \/ Rank(f[c]) < Rank(g[c])
    \/ g[c] = "none" /\ Cardinality(Outcomes(g)) >= Limit
=============================================================================
