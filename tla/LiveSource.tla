----------------------------- MODULE LiveSource -----------------------------
(***************************************************************************)
(* What a history session of the browser lives on: the room's recent facts *)
(* and its durable history, the one event stream that carries baselines    *)
(* and additions, and the bridge of RoomProvider.tsx that passes them on.  *)
(*                                                                         *)
(* A fact is the number of its place in time.  It is durable when it was   *)
(* stored, else volatile; a volatile fact becomes durable when its source  *)
(* reports it again after recovery.  A generation of the database lasts as *)
(* long as the process: it is replaced only while the backend is down.     *)
(* Retention and the layout of pages are the subject of PagedHistory; the  *)
(* revisions and the reconnection of the stream, of RealtimeSync.          *)
(***************************************************************************)
EXTENDS Integers, Sequences, FiniteSets, SequencesExt

CONSTANTS MaxFact, MaxGeneration, MaxFaults, MaxQueue, \* bounds of the model
          RecentLimit                                  \* recent facts of a snapshot (20)

\* Every fault may end in a recovery, which leaves a gap as a fact.
ASSUME SourceAssumption ==
  MaxGeneration \in Nat \ {0} /\ MaxFact \in Nat /\ MaxFaults \in 0..MaxFact

VARIABLES room, \* the backend
          link  \* the event stream and what the client knows

sourceVars == <<room, link>>

Fact == 1..MaxFact
None == [none |-> TRUE]

Item == [fact : Fact, durable : BOOLEAN]
Durable(facts) == {[fact |-> f, durable |-> TRUE] : f \in facts}
FactsOf(items) == {item.fact : item \in items}

\* Mutant of Join: the later copy wins, durable or not.
JoinLatest(items, additions) ==
  {item \in items : item.fact \notin FactsOf(additions)} \cup additions

\* One item a fact; a durable copy is never replaced by a volatile one.
Join(items, additions) ==
  LET all == items \cup additions
  IN  {item \in all : item.durable \/ item.fact \notin FactsOf({i \in all : i.durable})}

Newest(items, n) ==
  {item \in items : Cardinality({f \in FactsOf(items) : f > item.fact}) < n}

-----------------------------------------------------------------------------
(* The stream *)

Storage(r) == [available |-> r.available, generation |-> r.known]

Message(r, kind, items) == [kind |-> kind, storage |-> Storage(r), items |-> items]

\* Nothing is kept for a client that is not connected.
Sent(messages) == IF link.connected THEN [link EXCEPT !.queue = @ \o messages] ELSE link

Cut(l) == [l EXCEPT !.connected = FALSE, !.queue = <<>>, !.baseline = None]

\* A new connection starts with a snapshot.
Connect ==
  /\ ~link.connected
  /\ link' = [link EXCEPT !.connected = TRUE, !.queue = <<Message(room, "snapshot", room.recent)>>]
  /\ UNCHANGED room

\* What the client makes of a message: a snapshot, or one of another generation than the
\* last that was known, is a baseline.  The generation last known stands in for none.
Update(l, message) ==
  LET generation == message.storage.generation
      changed == generation # 0 /\ l.lastKnown # 0 /\ generation # l.lastKnown
      lastKnown == IF generation # 0 THEN generation ELSE l.lastKnown
      baseline == message.kind = "snapshot" \/ changed
  IN  [kind |-> IF baseline THEN "baseline" ELSE "addition",
       available |-> message.storage.available,
       generation |-> IF generation = 0 /\ baseline THEN lastKnown ELSE generation,
       lastKnown |-> lastKnown,
       items |-> message.items]

\* The client's own snapshot, from which a page that opens later takes its baseline.
Followed(l, message) ==
  LET update == Update(l, message)
  IN  [l EXCEPT !.queue = Tail(@), !.lastKnown = update.lastKnown,
                !.baseline = [update EXCEPT !.kind = "baseline",
                                !.generation = IF @ = 0 THEN update.lastKnown ELSE @,
                                !.items = IF update.kind = "baseline" THEN update.items
                                          ELSE Newest(Join(l.baseline.items, @), RecentLimit)]]

-----------------------------------------------------------------------------
(* The room *)

SourceInit ==
  /\ room = [generation |-> 1, known |-> 1, available |-> TRUE, stored |-> <<>>, recent |-> {},
             last |-> 0, faults |-> 0, past |-> [g \in 1..MaxGeneration |-> {}]]
  /\ link = [connected |-> FALSE, queue |-> <<>>, lastKnown |-> 0, baseline |-> None]

Room(for) == Len(link.queue) + for <= MaxQueue

WithFact(r, fact, durable) ==
  [r EXCEPT !.stored = IF durable THEN Append(@, fact) ELSE @,
            !.recent = Newest(Join(@, {[fact |-> fact, durable |-> durable]}), RecentLimit),
            !.past[r.generation] = IF durable THEN @ \cup {fact} ELSE @]

\* Something happens in the room; without storage it is known as long as the process runs.
\* (Bound: a place is kept for the gap of every recovery.)
Record ==
  /\ room.last + (MaxFaults - room.faults) + (IF room.available THEN 0 ELSE 1) < MaxFact
  /\ Room(1)
  /\ LET fact == room.last + 1
         next == WithFact([room EXCEPT !.last = fact], fact, room.available)
     IN  /\ room' = next
         /\ link' = Sent(<<Message(next, "delta", {[fact |-> fact, durable |-> room.available]})>>)

\* A volatile fact is reported again and becomes durable, long after it happened.
Reconcile ==
  /\ room.available /\ Room(1)
  /\ \E item \in room.recent :
       /\ ~item.durable
       /\ LET next == WithFact(room, item.fact, TRUE)
          IN  /\ room' = next
              /\ link' = Sent(<<Message(next, "delta", Durable({item.fact}))>>)

\* Updates that carry no fact go on for as long as sensors report.
Report ==
  /\ link.connected /\ link.queue = <<>>
  /\ link' = Sent(<<Message(room, "delta", {})>>)
  /\ UNCHANGED room

Fault == room.faults < MaxFaults

Lost(r) == [r EXCEPT !.available = FALSE, !.faults = @ + 1]

Lose ==
  /\ Fault /\ room.available /\ Room(1)
  /\ room' = Lost(room)
  /\ link' = Sent(<<Message(Lost(room), "delta", {})>>)

\* Recovery begins by publishing which database it has found.
Announced(r) == <<Message([r EXCEPT !.known = r.generation], "delta", {})>>

\* Recovery leaves a gap as a durable fact, restores what the checkpoint holds, and
\* publishes the recent facts before the storage status.
Recover ==
  /\ ~room.available
  /\ Room(3)
  /\ LET gap == room.last + 1
         found == [room EXCEPT !.known = room.generation, !.last = gap,
                     !.recent = Newest(Join(Newest(Durable(ToSet(room.stored)), RecentLimit), @),
                                       RecentLimit)]
         next == WithFact([found EXCEPT !.available = TRUE], gap, TRUE)
     IN  /\ room' = next
         /\ link' = Sent(Announced(room)
                           \o (IF found.recent = room.recent THEN <<>>
                               ELSE <<Message(found, "delta", found.recent)>>)
                           \o <<Message(next, "delta", Durable({gap}))>>)

\* The backend stops and starts, perhaps with its database replaced meanwhile, perhaps
\* without being able to read it: what was volatile is gone.
Restart(replaced, available) ==
  /\ Fault
  /\ replaced => room.generation < MaxGeneration
  /\ LET stored == IF replaced THEN <<>> ELSE room.stored
         generation == IF replaced THEN room.generation + 1 ELSE room.generation
     IN  room' = [room EXCEPT !.generation = generation, !.stored = stored, !.available = available,
                              !.known = IF available THEN generation ELSE 0, !.faults = @ + 1,
                              !.recent = IF available
                                         THEN Newest(Durable(ToSet(stored)), RecentLimit) ELSE {}]
  /\ link' = Cut(link)

Interrupt ==
  /\ Fault /\ link.connected
  /\ room' = [room EXCEPT !.faults = @ + 1]
  /\ link' = Cut(link)

-----------------------------------------------------------------------------
(* Pages of history *)

\* The page after a cursor, of what was stored when its first page was read.
PageAfter(cursor, size) ==
  LET through == IF cursor = None THEN Len(room.stored) ELSE cursor.through
      rows == {room.stored[i] : i \in 1..through}
      rest == IF cursor = None THEN rows ELSE {f \in rows : f < cursor.after}
      facts == {f \in rest : Cardinality({g \in rest : g > f}) < size}
      last == CHOOSE f \in facts : \A g \in facts : f <= g
  IN  [kind |-> "page", generation |-> room.generation, through |-> through, facts |-> facts,
       next |-> IF facts = rest THEN None
                ELSE [generation |-> room.generation, through |-> through, after |-> last]]

Refusal(reason) == [kind |-> "error", reason |-> reason]

\* How a request for a page may be answered.  A read that fails takes the storage down; a
\* cursor may have expired; the network may fail.  Each of these is a fault.
Answered(cursor, size, answer) ==
  \/ /\ room.available
     /\ answer = IF cursor # None /\ cursor.generation # room.generation
                 THEN Refusal("history_generation_changed") ELSE PageAfter(cursor, size)
     /\ UNCHANGED sourceVars
  \/ /\ ~room.available
     /\ answer = Refusal("history_unavailable")
     /\ UNCHANGED sourceVars
  \/ /\ answer = Refusal("history_unavailable")
     /\ Lose
  \/ /\ Fault
     /\ \/ answer = Refusal("request_failed")
        \/ cursor # None /\ answer = Refusal("cursor_expired")
     /\ room' = [room EXCEPT !.faults = @ + 1]
     /\ UNCHANGED link

=============================================================================
