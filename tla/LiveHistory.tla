---------------------------- MODULE LiveHistory ----------------------------
(***************************************************************************)
(* The live history of a device or of the room (live-history-session.ts    *)
(* under useLiveHistory.ts): pages of durable history read over HTTP, and  *)
(* a bounded overlay of what the stream reports meanwhile.                 *)
(*                                                                         *)
(* Each operation of the session is a function from its state to its next; *)
(* ask and reconnect in the result say that a request is to be sent, or a  *)
(* new baseline wanted.  The source's epochs are the flag current of a     *)
(* request: a request that was superseded is aborted, unless its answer is *)
(* already there.  The notice shown to the user is left out.               *)
(***************************************************************************)
EXTENDS LiveSource

CONSTANTS PageSize, OverlayLimit, MaxPages, MaxItems, \* 50, 200, 100, 5000
          Anchors \* bound of the model: the entries at which a user stops to read

ASSUME PageAssumption == PageSize \in Nat \ {0}

VARIABLES session, calls,
          seen \* history variable: the facts delivered as durable in the session's generation

liveVars == <<room, link, session, calls, seen>>

Fresh ==
  [status |-> "waiting_for_baseline", error |-> "none", generation |-> 0, through |-> 0, next |-> None,
   hasPage |-> FALSE, accepted |-> 0, cursors |-> {}, hasBaseline |-> FALSE, opened |-> FALSE,
   lastKnown |-> FALSE, overflow |-> FALSE, hasNew |-> FALSE, position |-> 0, pages |-> {},
   retained |-> None, overlay |-> {}, read |-> None, failed |-> [cursor |-> None, rebuilding |-> FALSE],
   ask |-> FALSE, reconnect |-> FALSE]

Closed == [Fresh EXCEPT !.status = "closed"]

\* What is shown: the pages, or those before a rebuild until it is done, under the overlay.
ShownPages(s) == IF s.retained # None THEN s.retained.pages ELSE s.pages
Shown(s) == Join(Durable(ShownPages(s)), s.overlay)

ResetPin(s) ==
  [s EXCEPT !.hasPage = FALSE, !.accepted = 0, !.through = 0, !.next = None, !.cursors = {}]

Cancel(s) == [s EXCEPT !.read = None, !.ask = FALSE]

Retain(s) ==
  [s EXCEPT !.retained = IF @ = None THEN [pages |-> s.pages] ELSE @, !.lastKnown = TRUE]

Fail(s, reason) ==
  [s EXCEPT !.error = reason, !.status = "error", !.lastKnown = TRUE, !.read = None, !.ask = FALSE,
            !.failed = [cursor |-> s.read.cursor, rebuilding |-> s.read.rebuilding]]

\* The page at a cursor is asked for, unless there were too many.
Ask(s, cursor) ==
  LET next == [s EXCEPT !.read.cursor = cursor, !.read.count = @ + 1, !.ask = TRUE]
  IN  IF next.read.count > MaxPages \/ s.accepted >= MaxPages THEN Fail(next, "recovery_limit") ELSE next

Run(s, cursor, rebuilding) ==
  Ask([s EXCEPT !.status = "loading", !.error = "none",
                !.read = [cursor |-> cursor, rebuilding |-> rebuilding, restarted |-> FALSE, count |-> 0]],
      cursor)

Rebuild(s) ==
  Run([ResetPin(Retain(Cancel(s))) EXCEPT !.pages = {}, !.overflow = FALSE], None, TRUE)

AwaitBaseline(s) ==
  [ResetPin(Cancel(Retain(s))) EXCEPT !.hasBaseline = FALSE, !.status = "waiting_for_baseline",
                                      !.reconnect = TRUE]

-----------------------------------------------------------------------------
(* The stream *)

Interrupted(s) ==
  IF s.status = "closed" THEN s
  ELSE [Retain(Cancel(s)) EXCEPT !.hasBaseline = FALSE, !.status = "waiting_for_baseline"]

\* Mutant of Bounded: the entry the user is reading is given up like any other.
BoundedByAge(s) ==
  IF Cardinality(s.overlay) <= OverlayLimit THEN s
  ELSE [s EXCEPT !.overflow = TRUE, !.overlay = Newest(@, OverlayLimit)]

\* The overlay keeps its newest entries, and the one the user is reading.
Bounded(s) ==
  LET anchor == {item \in s.overlay : item.fact = s.position}
  IN  IF Cardinality(s.overlay) <= OverlayLimit THEN s
      ELSE [s EXCEPT !.overflow = TRUE,
                     !.overlay = Newest(@ \ anchor, OverlayLimit - Cardinality(anchor)) \cup anchor]

\* Mutant of Overlaid: what arrives during a rebuild is left to the rebuild.
OverlaidWhenReady(s, items, live) ==
  IF s.read # None /\ live THEN s
  ELSE Bounded([s EXCEPT !.hasNew = @ \/ (live /\ s.position # 0), !.overlay = Join(@, items)])

Overlaid(s, items, live) ==
  LET fresh == {item \in items : /\ item.fact \notin FactsOf(s.overlay) \cup s.pages
                                 /\ s.retained # None => item.fact \notin s.retained.pages}
  IN  Bounded([s EXCEPT !.hasNew = @ \/ (live /\ s.position # 0 /\ fresh # {}),
                        !.overlay = Join(@, items)])

\* Mutant of Regenerated: the overlay survives the database it came from.
RegeneratedPages(s) ==
  [ResetPin(Cancel(s)) EXCEPT !.pages = {}, !.retained = None, !.position = 0,
                              !.overflow = FALSE, !.hasNew = FALSE, !.lastKnown = FALSE]

\* Another database: nothing is kept.
Regenerated(s) ==
  [ResetPin(Cancel(s)) EXCEPT !.pages = {}, !.retained = None, !.overlay = {}, !.position = 0,
                              !.overflow = FALSE, !.hasNew = FALSE, !.lastKnown = FALSE]

Changed(s, update) == update.generation # 0 /\ s.generation # 0 /\ update.generation # s.generation

\* Mutant of Accepted: storage that is available again is left to the user's retry.
AcceptedUnhealed(s, update) ==
  LET changed == Changed(s, update)
      current == [(IF changed THEN Regenerated(s) ELSE s) EXCEPT
                    !.generation = IF update.generation # 0 THEN update.generation ELSE @]
      known == [Overlaid(current, update.items, update.kind = "addition") EXCEPT
                  !.hasBaseline = update.kind = "baseline" \/ changed \/ @]
  IN  IF s.status = "closed" THEN s
      ELSE IF s.opened /\ (update.kind = "baseline" \/ changed) THEN Rebuild(known)
      ELSE IF update.kind = "baseline" THEN [known EXCEPT !.status = "idle", !.error = "none"]
      ELSE known

Accepted(s, update) ==
  LET changed == Changed(s, update)
      based == IF changed THEN Regenerated(s) ELSE s
      current == [based EXCEPT !.generation = IF update.generation # 0 THEN update.generation ELSE @]
      merged == Overlaid(current, update.items, update.kind = "addition")
      known == [merged EXCEPT !.hasBaseline = update.kind = "baseline" \/ changed \/ @]
  IN  IF s.status = "closed" THEN s
      ELSE IF update.kind = "baseline"
           THEN IF s.opened THEN Rebuild(known) ELSE [known EXCEPT !.status = "idle", !.error = "none"]
      ELSE IF changed THEN IF s.opened THEN Rebuild(known) ELSE known
      ELSE IF s.error = "history_unavailable" /\ update.available /\ s.hasBaseline THEN Rebuild(known)
      ELSE known

-----------------------------------------------------------------------------
(* The user *)

CanLoad(s) ==
  /\ s.read = None /\ s.hasBaseline
  /\ s.status \notin {"closed", "error"}
  /\ s.hasPage => s.next # None

LoadedNext(s) == IF CanLoad(s) THEN Run([s EXCEPT !.opened = TRUE], s.next, FALSE) ELSE s

\* A page that has its first baseline begins to load at once.
Opened(s) == IF s.status = "idle" THEN LoadedNext(s) ELSE s

Retried(s) ==
  IF s.error \in {"cursor_query_mismatch", "recovery_limit"} THEN Rebuild(s)
  ELSE Run(s, s.failed.cursor, s.failed.rebuilding)

Newer(s) ==
  LET next == [s EXCEPT !.position = 0, !.hasNew = FALSE]
  IN  IF s.overflow /\ s.hasBaseline THEN Rebuild(next) ELSE next

-----------------------------------------------------------------------------
(* Pages *)

\* A cursor that is no longer honoured: once, all is read again.
Restarted(s) ==
  Ask([ResetPin(Retain(s)) EXCEPT !.pages = {}, !.read.restarted = TRUE, !.read.rebuilding = TRUE], None)

Refused(s, reason) ==
  CASE reason = "history_generation_changed" -> AwaitBaseline(s)
    [] reason = "cursor_expired" /\ s.read.cursor # None /\ ~s.read.restarted -> Restarted(s)
    [] reason = "cursor_expired" /\ (s.read.cursor = None \/ s.read.restarted) -> Fail(s, "invalid_response")
    [] reason \in {"history_unavailable", "request_failed"} -> Fail(s, reason)

Mismatched(s, page) ==
  \/ s.hasPage /\ page.through # s.through
  \/ page.next # None /\ (page.next = s.read.cursor \/ page.next \in s.cursors)

\* The entry next to the one that was read and is gone.
Nearest(items, position) ==
  LET older == {item \in items : item.fact <= position}
  IN  IF items = {} THEN 0
      ELSE IF older # {} THEN CHOOSE f \in FactsOf(older) : \A g \in FactsOf(older) : f >= g
      ELSE CHOOSE f \in FactsOf(items) : \A g \in FactsOf(items) : f <= g

\* A rebuild goes on to the page with the position.
Sought(s) ==
  s.read.rebuilding /\ s.position # 0 /\ s.position \notin s.pages \cup FactsOf(s.overlay)

Completed(s) ==
  [s EXCEPT !.retained = None, !.lastKnown = FALSE, !.error = "none", !.read = None, !.status = "ready",
            !.position = IF Sought(s) THEN Nearest(Join(Durable(s.pages), s.overlay), @) ELSE @]

Paged(s, page) ==
  LET next == [s EXCEPT !.cursors = IF s.read.cursor # None THEN @ \cup {s.read.cursor} ELSE @,
                        !.generation = page.generation, !.through = page.through, !.hasPage = TRUE,
                        !.accepted = @ + 1, !.next = page.next, !.pages = @ \cup page.facts]
  IN  IF s.generation # 0 /\ page.generation # s.generation THEN AwaitBaseline(s)
      ELSE IF Mismatched(s, page) THEN Fail(s, "invalid_response")
      ELSE IF Cardinality(next.pages) > MaxItems THEN Fail(s, "recovery_limit")
      ELSE IF Sought(next) /\ next.next # None THEN Ask(next, next.next)
      ELSE Completed(next)

Settled(s, call) ==
  IF ~call.current THEN s
  ELSE IF call.answer.kind = "page" THEN Paged(s, call.answer)
  ELSE Refused(s, call.answer.reason)

-----------------------------------------------------------------------------
Init ==
  /\ SourceInit
  /\ session = Closed
  /\ calls = {}
  /\ seen = {}

\* The request the session no longer waits for.  (Bound: one superseded before is gone.)
Superseded(all) ==
  IF \E call \in all : call.current
  THEN {[call EXCEPT !.current = FALSE] : call \in {c \in all : c.current /\ c.answer # None}}
  ELSE all

\* The facts delivered as durable, for as long as the generation lasts.
Witnessed(s, items) ==
  {item.fact : item \in {i \in items : i.durable}}
    \cup (IF s.generation = session.generation THEN seen ELSE {})

\* The session goes over to s, of the requests in flight to waiting; items were delivered.
Install(s, waiting, from, items) ==
  LET kept == IF s.ask \/ s.read = None THEN Superseded(waiting) ELSE waiting
      done == [s EXCEPT !.ask = FALSE, !.reconnect = FALSE,
                        !.failed = IF s.status = "error" THEN @ ELSE Fresh.failed]
  IN  /\ session' = IF s.reconnect THEN Interrupted(done) ELSE done
      /\ calls' = kept \cup {[current |-> TRUE, cursor |-> s.read.cursor, answer |-> None]
                             : ask \in {s.ask} \cap {TRUE}}
      /\ link' = IF s.reconnect THEN Cut(from) ELSE from
      /\ seen' = Witnessed(s, items)

Deliver ==
  /\ link.connected /\ link.queue # <<>>
  /\ LET update == Update(link, Head(link.queue))
     IN  Install(Opened(Accepted(session, update)), calls, Followed(link, Head(link.queue)),
                 IF session.status = "closed" THEN {} ELSE update.items)
  /\ UNCHANGED room

\* The stream breaks, with or without the backend.
Break ==
  /\ Interrupt \/ \E replaced, available \in BOOLEAN : Restart(replaced, available)
  /\ LET s == IF link.connected THEN Interrupted(session) ELSE session
     IN  /\ session' = s
         /\ calls' = IF s.read = None THEN Superseded(calls) ELSE calls
  /\ UNCHANGED seen

Source ==
  /\ Record \/ Reconcile \/ Report \/ Lose \/ Recover \/ Connect
  /\ UNCHANGED <<session, calls, seen>>

Handle(call) ==
  /\ call.answer = None
  /\ \E answer \in {Refusal(r) : r \in {"history_unavailable", "history_generation_changed",
                                        "request_failed", "cursor_expired"}}
                   \cup (IF room.available THEN {PageAfter(call.cursor, PageSize)} ELSE {}) :
       /\ Answered(call.cursor, PageSize, answer)
       /\ calls' = (calls \ {call}) \cup {[call EXCEPT !.answer = answer]}
  /\ UNCHANGED <<session, seen>>

Receive(call) ==
  /\ call.answer # None
  /\ Install(Settled(session, call), calls \ {call}, link, {})
  /\ UNCHANGED room

\* The page is opened, with the baseline there is.
Mount ==
  /\ session.status = "closed"
  /\ LET s == IF link.baseline # None THEN LoadedNext(Accepted(Fresh, link.baseline)) ELSE Fresh
     IN  Install(s, calls, link, IF link.baseline # None THEN link.baseline.items ELSE {})
  /\ UNCHANGED room

Close ==
  /\ session.status # "closed"
  /\ session' = Closed
  /\ calls' = Superseded(calls)
  /\ seen' = {}
  /\ UNCHANGED <<room, link>>

LoadNextPage ==
  /\ CanLoad(session)
  /\ Install(LoadedNext(session), calls, link, {})
  /\ UNCHANGED room

Retry ==
  /\ session.read = None /\ session.status = "error" /\ session.hasBaseline
  /\ Install(Retried(session), calls, link, {})
  /\ UNCHANGED room

RefreshToNewest ==
  /\ session.status # "closed"
  /\ session.position # 0 \/ session.overflow
  /\ Install(Newer(session), calls, link, {})
  /\ UNCHANGED room

\* The user scrolls to an entry, or to the top.
UpdateReadingPosition ==
  /\ session.status # "closed"
  /\ \E fact \in (FactsOf(Shown(session)) \cap Anchors) \cup {0} :
       /\ fact # session.position
       /\ session' = [session EXCEPT !.position = fact]
  /\ UNCHANGED <<room, link, calls, seen>>

Next ==
  \/ Source
  \/ Deliver
  \/ Break
  \/ \E call \in calls : Handle(call) \/ Receive(call)
  \/ Mount
  \/ Close
  \/ LoadNextPage
  \/ Retry
  \/ RefreshToNewest
  \/ UpdateReadingPosition

Spec == Init /\ [][Next]_liveVars

\* Connections are made, messages and requests come through, and sensors report.  Storage
\* is tried again until it recovers.  (The last three are weak fairness of Deliver, of the
\* handling and of the reception of a request, with the guard of each in the place of its
\* ENABLED, which TLC is slow to evaluate.)
Fairness ==
  /\ WF_liveVars(Connect /\ UNCHANGED <<session, calls, seen>>)
  /\ WF_liveVars(Report /\ UNCHANGED <<session, calls, seen>>)
  /\ WF_liveVars(Recover /\ UNCHANGED <<session, calls, seen>>)
  /\ []<>~(link.connected /\ link.queue # <<>>) \/ []<><<Deliver>>_liveVars
  /\ []<>(\A call \in calls : call.answer # None) \/ []<><<\E call \in calls : Handle(call)>>_liveVars
  /\ []<>(\A call \in calls : call.answer = None) \/ []<><<\E call \in calls : Receive(call)>>_liveVars

FairSpec == Spec /\ Fairness

-----------------------------------------------------------------------------
(* Properties *)

TypeOK ==
  /\ session.pages \subseteq Fact
  /\ session.overlay \subseteq Item
  /\ session.position \in Fact \cup {0}
  /\ session.status \in {"waiting_for_baseline", "idle", "loading", "ready", "error", "closed"}
  /\ (session.status = "loading") <=> (session.read # None)
  /\ Cardinality({call \in calls : call.current}) = (IF session.read = None THEN 0 ELSE 1)

\* A list that claims to be current leaves out no durable fact that was delivered, and
\* none that is older than its pin and as new as its last page: what the pages and the
\* overlay hold meets without a gap (readPages, mergeOverlay of live-history-session.ts).
NothingMissing ==
  session.status = "ready" /\ ~session.lastKnown /\ ~session.overflow =>
    LET reached(f) == session.next = None \/ f >= session.next.after
        pinned == IF session.generation = room.generation
                  THEN {room.stored[i] : i \in 1..session.through} ELSE {}
    IN  \A f \in seen \cup pinned : reached(f) => [fact |-> f, durable |-> TRUE] \in Shown(session)

\* One entry a fact; a list that claims to be current has facts of one database.
OneGeneration ==
  /\ \A a, b \in Shown(session) : a.fact = b.fact => a = b
  /\ session.status = "ready" =>
       \A item \in Shown(session) : item.durable => item.fact \in room.past[session.generation]

\* The entry that is read stays on the list through interruptions, rebuilds, expired
\* cursors and overflow.
AnchorIsShown == session.position # 0 => session.position \in FactsOf(Shown(session))

\* An entry shown as durable is not shown as volatile later, by the same database, as long
\* as its page is kept: neither a late addition nor another page takes it back (merge of
\* live-history-session.ts).  A rebuild does, when it gives up the page and the overlay
\* still holds the volatile copy.
NeverDemoted ==
  [][ShownPages(session) \subseteq ShownPages(session') /\ session'.generation = session.generation =>
       \A item \in Shown(session) :
         item.durable => [item EXCEPT !.durable = FALSE] \notin Shown(session')]_session

\* When faults end, the list becomes current without the user, unless a request failed or
\* there was too much.
BecomesCurrent ==
  (session.status \in {"waiting_for_baseline", "idle", "loading"} \/ session.error = "history_unavailable")
    ~> (session.status \in {"ready", "closed"} \/ session.error \notin {"none", "history_unavailable"})

=============================================================================
