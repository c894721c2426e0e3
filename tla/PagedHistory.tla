---------------------------- MODULE PagedHistory ----------------------------
(***************************************************************************)
(* A search session of the browser (infinite-session.ts, with the sources  *)
(* of history-search-session.ts and telemetry-search-session.ts) paging    *)
(* through HistoryStore by way of the HTTP routes (room-bff.ts), the       *)
(* readers (room-history-reader.ts, user-history-reader.ts) and their      *)
(* cursors.                                                                *)
(*                                                                         *)
(* A request is handled in one step of the backend, some time after it was *)
(* sent; its answer arrives some time later, or the request fails.  The    *)
(* session may have been restarted meanwhile: epoch tells its requests     *)
(* apart.  A backend restart changes the secret that signs cursors.        *)
(*                                                                         *)
(* A criterion stands for what a query selects: a dataset, a device and a  *)
(* half-open range of time.                                                *)
(***************************************************************************)
EXTENDS HistoryStore, Sequences, SequencesExt

CONSTANTS Criteria,          \* the queries a user may ask
          PageSize,
          MaxItems, MaxPages, \* limits of the session
          RejectDuplicates,  \* telemetry: TRUE, history: FALSE
          Requests,          \* records that are a command.requested fact: record -> [command, power]
          LegacyTimeouts,    \* command.timed_out facts without evidence: record -> command
          MaxEpoch, MaxCalls, MaxProcess \* bounds of the model

VARIABLES process,   \* the backend process, whose secret signs cursors
          session, calls

\* 5000 records are 100 pages of 50, and 10000 samples 100 pages of 100.
ASSUME PagesAssumption == /\ PageSize \in Nat \ {0} /\ MaxPages \in Nat \ {0}
                          /\ MaxItems = MaxPages * PageSize

pagedVars == <<now, rows, meta, pins, process, session, calls>>

None == [none |-> TRUE]

-----------------------------------------------------------------------------
(* What a reader lists *)

Matches(row, criteria) ==
  /\ row.dataset = criteria.dataset
  /\ row.device = criteria.device
  /\ row.occurredAt >= criteria.from
  /\ row.occurredAt < criteria.to

\* The power states that the requests of a view, of one device, asked of a command.
RequestedPowers(view, device, command) ==
  {Requests[row.record].power :
     row \in {r \in view : /\ r.device = device
                           /\ r.record \in DOMAIN Requests
                           /\ Requests[r.record].command = command}}

\* A request is no item of the user's history; an old timeout is one only if the same
\* view holds requests for its command, and they agree.
Presented(view, row) ==
  /\ row.record \notin DOMAIN Requests
  /\ row.record \in DOMAIN LegacyTimeouts =>
       Cardinality(RequestedPowers(view, row.device, LegacyTimeouts[row.record])) = 1

\* All that a criterion selects from a view.
Selected(view, criteria) ==
  {row \in view : Matches(row, criteria) /\ (row.dataset = "fact" => Presented(view, row))}

\* Rows as they are listed, newest first.
InOrder(selected) ==
  [i \in 1..Cardinality(selected) |->
     CHOOSE row \in selected : Cardinality({other \in selected : Newer(other, row)}) = i - 1]

Ordered(view, criteria) == InOrder(Selected(view, criteria))

\* Mutant of After: the position itself is listed again.
AfterInclusive(selected, position) ==
  IF position = None THEN selected ELSE {row \in selected : ~Newer(row, position)}

\* What follows the last item of the page before.
After(selected, position) ==
  IF position = None THEN selected ELSE {row \in selected : Newer(position, row)}

PublicBounds(bounds) ==
  [generation |-> bounds.generation, through |-> bounds.through, retentionAsOf |-> bounds.retentionAsOf]

\* A cursor binds the query, the bounds and the position, under the secret of the process.
CursorAt(criteria, bounds, row) ==
  [process |-> process, criteria |-> criteria, bounds |-> bounds,
   position |-> [occurredAt |-> row.occurredAt, sequence |-> row.sequence]]

\* One record more than the page is read, to know whether there is a next page.
PageOf(view, criteria, bounds, position) ==
  LET rest == InOrder(After(Selected(view, criteria), position))
      items == SubSeq(rest, 1, IF Len(rest) < PageSize THEN Len(rest) ELSE PageSize)
  IN  [kind |-> "page", items |-> items, bounds |-> PublicBounds(bounds),
       next |-> IF Len(rest) <= PageSize THEN None ELSE CursorAt(criteria, bounds, rest[PageSize])]

Refusal(reason) == [kind |-> "error", reason |-> reason]

CursorReason ==
  {"invalid_cursor", "cursor_query_mismatch", "history_generation_changed", "cursor_expired"}

\* The answer to a request for a page after a cursor.
Continuation(criteria, cursor) ==
  CASE cursor.process # process -> Refusal("invalid_cursor")
    [] cursor.process = process /\ cursor.criteria # criteria -> Refusal("cursor_query_mismatch")
    [] cursor.process = process /\ cursor.criteria = criteria ->
         IF GenerationChanged(cursor.bounds) THEN Refusal("history_generation_changed")
         ELSE IF Expired(cursor.bounds) THEN Refusal("cursor_expired")
         ELSE PageOf(View(rows, cursor.bounds), criteria, cursor.bounds, cursor.position)

\* The first page is read in the transaction that captures the bounds.
FirstPage(criteria) ==
  LET asOf == RetentionAsOf(now)
      bounds == BoundsAt(asOf, RevisionAfter(rows, asOf, FALSE))
  IN  PageOf(View(Retire(rows, asOf), bounds), criteria, bounds, None)

-----------------------------------------------------------------------------
(* The session *)

Blank == [status |-> "idle", items |-> <<>>, metadata |-> None, previous |-> None, next |-> None,
          pages |-> 0, limitReached |-> FALSE, error |-> "none", refreshRequired |-> FALSE,
          failedCursor |-> None, factory |-> None, used |-> {}, epoch |-> 0, operation |-> FALSE]

Reset(s) == [Blank EXCEPT !.epoch = s.epoch + 1]

ShownItems(s) == IF s.previous # None THEN s.previous.items ELSE s.items
ShownMetadata(s) == IF s.previous # None THEN s.previous.metadata ELSE s.metadata
EndReached(s) == s.status = "ready" /\ s.next = None

\* A new request for the page at a cursor supersedes those before it.
Run(s, cursor) ==
  /\ session.epoch < MaxEpoch
  /\ Cardinality(calls) < MaxCalls
  /\ session' = [s EXCEPT !.status = "loading", !.error = "none", !.epoch = session.epoch + 1,
                        !.operation = TRUE]
  /\ calls' = calls \cup {[epoch |-> session.epoch + 1, criteria |-> s.factory, cursor |-> cursor,
                           answer |-> None]}

\* What was shown stays until the first page of the new query is there.
Start(criteria) ==
  LET retained == IF ShownMetadata(session) = None THEN None
                  ELSE [items |-> ShownItems(session), metadata |-> ShownMetadata(session)]
  IN  /\ session.status # "closed"
      /\ Run([Reset(session) EXCEPT !.previous = retained, !.factory = criteria], None)

Failed(s, cursor, reason, refresh) ==
  [s EXCEPT !.status = "error", !.error = reason, !.failedCursor = cursor, !.refreshRequired = refresh,
            !.operation = FALSE]

Metadata(call, page) == [criteria |-> call.criteria, bounds |-> page.bounds]

\* The session holds the record of an item of a page, or the page has it before.
Repeated(s, page, i) ==
  \/ \E old \in DOMAIN s.items : s.items[old].record = page.items[i].record
  \/ \E j \in 1..i - 1 : page.items[j].record = page.items[i].record

\* A page that does not continue what is there is refused (the source's checks first).
Refused(s, call, page) ==
  \/ s.metadata # None /\ s.metadata.bounds # page.bounds
  \/ RejectDuplicates /\ s.items # <<>> /\ page.items # <<>> /\ ~Newer(Last(s.items), page.items[1])
  \/ page.next # None /\ (page.next = call.cursor \/ page.next \in s.used)
  \/ RejectDuplicates /\ \E i \in DOMAIN page.items : Repeated(s, page, i)

\* What a page adds, a record that is there already left out.
Additions(s, page) ==
  LET new == {i \in DOMAIN page.items : ~Repeated(s, page, i)}
  IN  [k \in 1..Cardinality(new) |->
         page.items[CHOOSE i \in new : Cardinality({j \in new : j < i}) = k - 1]]

WithPage(s, call, page) ==
  LET items == s.items \o Additions(s, page)
  IN  IF Refused(s, call, page)
      THEN Failed(s, call.cursor, "invalid_response", s.metadata # None /\ s.metadata.bounds # page.bounds)
      ELSE IF Len(items) > MaxItems THEN Failed(s, call.cursor, "limit", FALSE)
      ELSE [s EXCEPT !.status = "ready", !.items = items, !.metadata = Metadata(call, page),
                     !.previous = None, !.next = page.next, !.pages = s.pages + 1,
                     !.limitReached = page.next # None /\ (Len(items) >= MaxItems \/ s.pages + 1 >= MaxPages),
                     !.refreshRequired = FALSE, !.operation = FALSE,
                     !.used = IF call.cursor = None THEN s.used ELSE s.used \cup {call.cursor}]

\* Mutant of Settled: the answer to a superseded request is taken for the current one.
SettledLate(s, call, answer) ==
  IF answer.kind = "page" THEN WithPage(s, call, answer)
  ELSE Failed(s, call.cursor, answer.reason, answer.reason \in CursorReason)

\* The answer to a superseded request is dropped.
Settled(s, call, answer) ==
  IF call.epoch # s.epoch THEN s
  ELSE IF answer.kind = "page" THEN WithPage(s, call, answer)
  ELSE Failed(s, call.cursor, answer.reason, answer.reason \in CursorReason)

-----------------------------------------------------------------------------
Init ==
  /\ StoreInit
  /\ process = 1
  /\ session = Blank
  /\ calls = {}

clientVars == <<session, calls>>

\* Writing and housekeeping of the backend.
Store ==
  /\ \/ \E stream \in Stream, record \in Record, late \in 0..MaxLate :
          StoreRecord(stream[1], stream[2], record, now - late)
     \/ \E quarantine \in BOOLEAN : Maintain(quarantine)
  /\ UNCHANGED <<process, clientVars>>

Clock == SetClock /\ UNCHANGED <<process, clientVars>>

ReplaceStorage == Replace /\ UNCHANGED <<process, clientVars>>

\* Requests the old process had not answered fail with it.
Restart ==
  /\ process < MaxProcess
  /\ process' = process + 1
  /\ session' = IF \E call \in calls : call.epoch = session.epoch /\ call.answer = None
                THEN LET call == CHOOSE c \in calls : c.epoch = session.epoch
                     IN  Failed(session, call.cursor, "request_failed", FALSE)
                ELSE session
  /\ calls' = {call \in calls : call.answer # None}
  /\ UNCHANGED storeVars

\* The backend handles a request to the end.  Whether the storage is there to be read is
\* for RealtimeSync and CommandDelivery to say: here it may be unavailable at any time.
Handle(call) ==
  /\ call.answer = None
  /\ \/ /\ calls' = (calls \ {call}) \cup {[call EXCEPT !.answer = Refusal("history_unavailable")]}
        /\ UNCHANGED storeVars
     \/ /\ call.cursor = None
        /\ Cardinality(pins) < MaxPins
        /\ calls' = (calls \ {call}) \cup {[call EXCEPT !.answer = FirstPage(call.criteria)]}
        /\ Capture
     \/ /\ call.cursor # None
        /\ calls' = (calls \ {call}) \cup {[call EXCEPT !.answer = Continuation(call.criteria, call.cursor)]}
        /\ UNCHANGED storeVars
  /\ UNCHANGED <<process, session>>

\* The answer reaches the session.
Receive(call) ==
  /\ call.answer # None
  /\ session' = Settled(session, call, call.answer)
  /\ calls' = calls \ {call}
  /\ UNCHANGED <<storeVars, process>>

\* The request fails on the network, or was aborted by the session.  (An answer that is
\* lost leaves no more behind than a request that is, and another reader's capture.)
Lose(call) ==
  /\ call.answer = None
  /\ session' = Settled(session, call, Refusal("request_failed"))
  /\ calls' = calls \ {call}
  /\ UNCHANGED <<storeVars, process>>

Search(criteria) == Start(criteria) /\ UNCHANGED <<storeVars, process>>

Refresh ==
  /\ session.factory # None
  /\ Start(session.factory)
  /\ UNCHANGED <<storeVars, process>>

LoadMore ==
  /\ ~session.operation
  /\ session.status = "ready" /\ session.next # None /\ ~session.limitReached
  /\ Run(session, session.next)
  /\ UNCHANGED <<storeVars, process>>

Retry ==
  /\ ~session.operation
  /\ session.status = "error" /\ ~session.refreshRequired
  /\ Run(session, session.failedCursor)
  /\ UNCHANGED <<storeVars, process>>

Clear ==
  /\ session.status # "closed"
  /\ session.epoch < MaxEpoch
  /\ session' = Reset(session)
  /\ UNCHANGED <<storeVars, process, calls>>

Close ==
  /\ session.status # "closed"
  /\ session' = [Reset(session) EXCEPT !.status = "closed"]
  /\ UNCHANGED <<storeVars, process, calls>>

Next ==
  \/ Store
  \/ Clock
  \/ ReplaceStorage
  \/ Restart
  \/ \E call \in calls : Handle(call) \/ Receive(call) \/ Lose(call)
  \/ \E criteria \in Criteria : Search(criteria)
  \/ Refresh
  \/ LoadMore
  \/ Retry
  \/ Clear
  \/ Close

Spec == Init /\ [][Next]_pagedVars

-----------------------------------------------------------------------------
(* Properties *)

\* What the session shows for a query is, without a gap or a repetition, the newest
\* part of what the backend held when the query was first answered, and all of it once
\* the end is reached; pages of two queries, or of two captures, are never mixed
\* (infinite-session.ts, nextCursor of room-history-reader.ts).
ShownIsPrefix ==
  LET shown == ShownItems(session)
      metadata == ShownMetadata(session)
  IN  /\ session.metadata # None => session.metadata.criteria = session.factory
      /\ metadata # None =>
          \E pin \in pins :
            LET all == Ordered(pin.view, metadata.criteria)
            IN  /\ PublicBounds(pin.bounds) = metadata.bounds
                /\ shown = SubSeq(all, 1, Len(shown))
                /\ EndReached(session) => Len(shown) = Len(all)

\* The checks of the session never refuse what the backend sends: no page of one
\* capture repeats a record, and no cursor is sent with another query.
NeverConfused == session.error \notin {"invalid_response", "cursor_query_mismatch", "limit"}

=============================================================================
