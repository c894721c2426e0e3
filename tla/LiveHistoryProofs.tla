-------------------------- MODULE LiveHistoryProofs --------------------------
(***************************************************************************)
(* Proofs about LiveHistory, for any number of facts, generations, faults  *)
(* and messages, and any limits of pages, overlay and snapshots.           *)
(***************************************************************************)
EXTENDS LiveHistory, FiniteSetTheorems, SequenceTheorems, TLAPS

LEMMA Bounds ==
  /\ MaxGeneration \in Nat \ {0} /\ MaxFact \in Nat /\ MaxFaults \in 0..MaxFact
  /\ PageSize \in Nat \ {0}
  BY SourceAssumption, PageAssumption

-----------------------------------------------------------------------------
(* What the variables hold *)

Generations == 1..MaxGeneration

\* A generation that may not be known.
Known == {0} \cup Generations

Cursors == [generation : Generations, through : Nat, after : Fact]
Places == {None} \cup Cursors

Rooms ==
  [generation : Generations, known : Known, available : BOOLEAN, stored : Seq(Fact), recent : SUBSET Item,
   last : Nat, faults : Nat, past : [Generations -> SUBSET Fact]]

Messages ==
  [kind : {"snapshot", "delta"}, storage : [available : BOOLEAN, generation : Known], items : SUBSET Item]
Updates ==
  [kind : {"baseline", "addition"}, available : BOOLEAN, generation : Known, lastKnown : Known,
   items : SUBSET Item]
Links ==
  [connected : BOOLEAN, queue : Seq(Messages), lastKnown : Known, baseline : {None} \cup Updates]

Reasons ==
  {"history_unavailable", "history_generation_changed", "request_failed", "cursor_expired"}
Pages ==
  [kind : {"page"}, generation : Generations, through : Nat, facts : SUBSET Fact, next : Places]
Refusals == [kind : {"error"}, reason : Reasons]
Requests == [current : BOOLEAN, cursor : Places, answer : {None} \cup Pages \cup Refusals]

ReadRecords == [cursor : Places, rebuilding : BOOLEAN, restarted : BOOLEAN, count : Nat]
Retentions == [pages : SUBSET Fact]

Sessions ==
  [status : {"waiting_for_baseline", "idle", "loading", "ready", "error", "closed"},
   error : {"none", "recovery_limit", "invalid_response", "history_unavailable", "request_failed"},
   generation : Known, through : Nat, next : Places, hasPage : BOOLEAN, accepted : Nat,
   cursors : SUBSET Cursors, hasBaseline : BOOLEAN, opened : BOOLEAN, lastKnown : BOOLEAN,
   overflow : BOOLEAN, hasNew : BOOLEAN, position : {0} \cup Fact, pages : SUBSET Fact,
   retained : {None} \cup Retentions, overlay : SUBSET Item, read : {None} \cup ReadRecords,
   failed : [cursor : Places, rebuilding : BOOLEAN], ask : BOOLEAN, reconnect : BOOLEAN]

-----------------------------------------------------------------------------
(* The invariant *)

\* The facts that were ever stored under a generation; under none, none.
Past(r, g) == IF g \in Generations THEN r.past[g] ELSE {}

\* What is durable among items is of facts.
Of(items, facts) == \A item \in items : item.durable => item.fact \in facts

\* The room keeps what it stored, and knows as durable only that.
RoomOK(r) ==
  /\ r \in Rooms
  /\ r.known \in {0, r.generation} /\ (r.available => r.known = r.generation)
  /\ r.last + (MaxFaults - r.faults) + (IF r.available THEN 0 ELSE 1) <= MaxFact
  /\ r.faults <= MaxFaults
  /\ r.past[r.generation] = ToSet(r.stored)
  /\ \A g \in Generations : g > r.generation => r.past[g] = {}
  /\ Of(r.recent, Past(r, r.known))

MessageOK(m, r) ==
  /\ m.storage.generation <= r.generation
  /\ Of(m.items, Past(r, m.storage.generation))

\* A connection begins with a snapshot, and the client's own one is of the last generation
\* it knows.
LinkOK(l, r) ==
  /\ l \in Links
  /\ \A i \in 1..Len(l.queue) : MessageOK(l.queue[i], r)
  /\ l.lastKnown <= r.generation
  /\ l.baseline # None =>
       /\ l.connected /\ l.baseline.kind = "baseline" /\ l.baseline.generation = l.lastKnown
       /\ Of(l.baseline.items, Past(r, l.lastKnown))
  /\ ~l.connected => l.queue = <<>>
  /\ l.connected /\ l.baseline = None => l.queue # <<>> /\ l.queue[1].kind = "snapshot"

\* The session has its baseline, by the connection there is.
Active(s) == s.status \in {"loading", "ready", "error"}

\* What the status says.
Phases(s) ==
  /\ s.status = "loading" <=> s.read # None
  /\ s.status \in {"waiting_for_baseline", "closed"} => ~s.hasBaseline
  /\ s.status = "ready" => s.retained = None /\ s.hasPage
  /\ Active(s) => s.opened /\ s.hasBaseline
  /\ s.status # "idle"
  /\ s.status = "closed" => ~s.opened

\* Before its first baseline a session holds nothing.
Empty(s) ==
  /\ s.pages = {} /\ s.overlay = {} /\ s.position = 0 /\ s.generation = 0 /\ ~s.overflow /\ ~s.hasPage
  /\ s.retained # None => s.retained.pages = {}

\* The next page is to be read under the pin of the one before.
PinOK(s) ==
  /\ ~s.hasPage => s.next = None
  /\ s.hasPage => s.generation # 0
  /\ s.next # None => s.next.through = s.through /\ s.next.generation = s.generation

Pinned(s) ==
  /\ PinOK(s)
  /\ s.read # None => s.read.cursor = s.next
  /\ s.status = "error" => s.failed.cursor = s.next

\* The entry that is read is shown.  What a rebuild replaced is kept until it is done; a
\* read that goes on with the pages there are has kept all of them.
Anchored(s) ==
  /\ s.position # 0 => s.position \in ShownPages(s) \cup FactsOf(s.overlay)
  /\ s.retained # None /\ (\/ s.read # None /\ ~s.read.rebuilding
                           \/ s.status = "error" /\ ~s.failed.rebuilding)
       => s.retained.pages \subseteq s.pages

\* All that is held is of the generation.
Dated(s, r) ==
  /\ s.generation <= r.generation
  /\ s.pages \subseteq Past(r, s.generation)
  /\ s.retained # None => s.retained.pages \subseteq Past(r, s.generation)
  /\ Of(s.overlay, Past(r, s.generation))
  /\ s.hasPage /\ s.generation = r.generation => s.through <= Len(r.stored)

\* The pages hold what was stored before the pin, down to the last one.
Whole(s, r) ==
  Active(s) /\ s.hasPage =>
    /\ s.generation = r.generation
    /\ \A i \in 1..s.through : (s.next = None \/ r.stored[i] >= s.next.after) => r.stored[i] \in s.pages

\* A fact was stored before the pin, or is in the overlay.
Held(f, through, overlay, r) ==
  \/ \E i \in 1..through : r.stored[i] = f
  \/ [fact |-> f, durable |-> TRUE] \in overlay

Covered(s, r, n) ==
  /\ n \subseteq Past(r, s.generation)
  /\ Active(s) /\ s.hasPage /\ ~s.overflow => \A f \in n : Held(f, s.through, s.overlay, r)

Sound(s, r, n) ==
  /\ s \in Sessions /\ Phases(s) /\ (~s.opened => Empty(s)) /\ Pinned(s) /\ Anchored(s)
  /\ Dated(s, r) /\ Whole(s, r) /\ Covered(s, r, n)

CursorOK(c, r) ==
  c # None => c.generation <= r.generation /\ (c.generation = r.generation => c.through <= Len(r.stored))

IsPage(answer) == answer # None /\ answer.kind = "page"

AnswerOK(answer, r) ==
  IsPage(answer) =>
    /\ answer.generation <= r.generation
    /\ answer.generation = r.generation => answer.through <= Len(r.stored)
    /\ answer.facts \subseteq Past(r, answer.generation)
    /\ answer.next # None => answer.next.through = answer.through /\ answer.next.generation = answer.generation

\* A page holds all that was stored before its pin, from its cursor to the next.
Full(page, cursor, r) ==
  /\ cursor # None => page.through = cursor.through
  /\ \A i \in 1..page.through :
       /\ cursor = None \/ r.stored[i] < cursor.after
       /\ page.next = None \/ r.stored[i] >= page.next.after
       => r.stored[i] \in page.facts

\* The request the session waits for is for the page at its cursor; the answer is of the
\* connection there is.  A first page leaves out nothing that was delivered before it.
Awaited(c, s, r, n) ==
  /\ s.read # None /\ c.cursor = s.read.cursor
  /\ IsPage(c.answer) =>
       /\ c.answer.generation = r.generation
       /\ Full(c.answer, c.cursor, r)
       /\ c.cursor = None /\ s.generation = r.generation /\ ~s.overflow =>
            \A f \in n : Held(f, c.answer.through, s.overlay, r)

RequestOK(c, r) == c \in Requests /\ CursorOK(c.cursor, r) /\ AnswerOK(c.answer, r)

RequestsOK(all, s, r, n) ==
  \A c \in all : RequestOK(c, r) /\ (c.current => Awaited(c, s, r, n))

\* A session that waits for a page waits for one request.
OneCurrent(all) == \E c \in all : c.current /\ \A d \in all : d.current => d = c

\* A session that has its baseline is connected; one without has not missed any.
Attached(s, l) ==
  /\ Active(s) => l.connected
  /\ ~s.opened /\ s.status # "closed" => l.baseline = None

IInv ==
  /\ RoomOK(room) /\ LinkOK(link, room)
  /\ Sound(session, room, seen) /\ ~session.ask /\ ~session.reconnect
  /\ Attached(session, link)
  /\ RequestsOK(calls, session, room, seen) /\ (session.read # None => OneCurrent(calls))

-----------------------------------------------------------------------------
(* Items *)

LEMMA JoinHolds ==
  ASSUME NEW A \in SUBSET Item, NEW B \in SUBSET Item
  PROVE  /\ Join(A, B) \in SUBSET Item /\ Join(A, B) \subseteq A \cup B
         /\ \A item \in A \cup B : item.durable => item \in Join(A, B)
         /\ \A a, b \in Join(A, B) : a.fact = b.fact => a = b
         /\ FactsOf(Join(A, B)) = FactsOf(A) \cup FactsOf(B)
  <1> DEFINE J == Join(A, B)
  <1>1. /\ J \in SUBSET Item /\ J \subseteq A \cup B
        /\ \A item \in A \cup B : item.durable => item \in J
    BY DEF Join, Item
  <1>2. ASSUME NEW a \in J, NEW b \in J, a.fact = b.fact PROVE a = b
    <2>1. a \in Item /\ b \in Item /\ a.durable \in BOOLEAN /\ b.durable \in BOOLEAN
      BY <1>1 DEF Item
    <2>2. a.durable <=> b.durable
      BY <1>2 DEF Join, FactsOf
    <2>3. a.durable = b.durable
      BY ONLY <2>1, <2>2
    <2> QED BY <1>2, <2>1, <2>3 DEF Item
  <1>3. ASSUME NEW item \in A \cup B PROVE item.fact \in FactsOf(J)
    <2>1. CASE item \in J
      BY <2>1 DEF FactsOf
    <2>2. CASE item \notin J
      <3>1. PICK other \in A \cup B : other.durable /\ other.fact = item.fact
        BY <2>2 DEF Join, FactsOf
      <3>2. other \in J
        BY <1>1, <3>1
      <3> QED BY <3>1, <3>2 DEF FactsOf
    <2> QED BY <2>1, <2>2
  <1>4. FactsOf(J) = FactsOf(A) \cup FactsOf(B)
    BY <1>1, <1>3 DEF FactsOf
  <1> QED BY <1>1, <1>2, <1>4

LEMMA JoinOf ==
  ASSUME NEW A \in SUBSET Item, NEW B \in SUBSET Item, NEW X, Of(A, X), Of(B, X)
  PROVE  Of(Join(A, B), X)
  BY JoinHolds DEF Of

LEMMA NewestHolds ==
  ASSUME NEW A, NEW n, NEW X
  PROVE  Newest(A, n) \subseteq A /\ (Of(A, X) => Of(Newest(A, n), X))
  BY DEF Newest, Of

LEMMA DurableHolds ==
  ASSUME NEW F \in SUBSET Fact
  PROVE  /\ Durable(F) \in SUBSET Item /\ FactsOf(Durable(F)) = F /\ Of(Durable(F), F)
         /\ \A item \in Durable(F) : item.durable
         /\ \A f \in F : [fact |-> f, durable |-> TRUE] \in Durable(F)
  <1>1. \A f \in F : [fact |-> f, durable |-> TRUE] \in Durable(F) /\ [fact |-> f, durable |-> TRUE] \in Item
    BY DEF Durable, Item
  <1>2. \A item \in Durable(F) : \E f \in F : item = [fact |-> f, durable |-> TRUE]
    BY DEF Durable
  <1>3. \A item \in Durable(F) : item \in Item /\ item.durable /\ item.fact \in F
    BY <1>1, <1>2
  <1>4. ASSUME NEW f \in F PROVE f \in FactsOf(Durable(F))
    <2> DEFINE item == [fact |-> f, durable |-> TRUE]
    <2>1. item \in Durable(F) /\ item.fact = f
      BY <1>1
    <2> QED BY <2>1 DEF FactsOf
  <1> QED BY <1>1, <1>3, <1>4 DEF FactsOf, Of

LEMMA OfMore ==
  ASSUME NEW A, NEW X, NEW Y, Of(A, X), X \subseteq Y
  PROVE  Of(A, Y)
  BY DEF Of

-----------------------------------------------------------------------------
(* What is stored stays *)

\* The room goes on, perhaps with the next database.
Grown(r, q) ==
  /\ r.generation <= q.generation
  /\ \A g \in Generations : r.past[g] \subseteq q.past[g]
  /\ q.generation = r.generation =>
       /\ Len(r.stored) <= Len(q.stored)
       /\ \A i \in 1..Len(r.stored) : q.stored[i] = r.stored[i]

LEMMA PastGrows ==
  ASSUME NEW r, NEW q, Grown(r, q), NEW g
  PROVE  Past(r, g) \subseteq Past(q, g)
  BY DEF Past, Grown

LEMMA MessageGrows ==
  ASSUME NEW r \in Rooms, NEW q \in Rooms, Grown(r, q), NEW m \in Messages, MessageOK(m, r)
  PROVE  MessageOK(m, q)
  <1>1. m.storage.generation \in Int /\ r.generation \in Int /\ q.generation \in Int
    BY Bounds DEF Messages, Rooms, Generations, Known
  <1>2. Past(r, m.storage.generation) \subseteq Past(q, m.storage.generation)
    BY PastGrows
  <1> QED BY <1>1, <1>2 DEF MessageOK, Of, Grown

LEMMA LinkGrows ==
  ASSUME NEW r \in Rooms, NEW q \in Rooms, Grown(r, q), NEW l, LinkOK(l, r)
  PROVE  LinkOK(l, q)
  <1>1. l \in Links /\ l.queue \in Seq(Messages) /\ l.lastKnown \in Int
    BY Bounds DEF LinkOK, Links, Generations, Known
  <1>2. \A i \in 1..Len(l.queue) : MessageOK(l.queue[i], q)
    BY <1>1, MessageGrows DEF LinkOK
  <1>3. l.lastKnown <= q.generation
    BY <1>1, Bounds DEF LinkOK, Grown, Rooms, Generations
  <1>4. Past(r, l.lastKnown) \subseteq Past(q, l.lastKnown)
    BY PastGrows
  <1>5. l.baseline # None => Of(l.baseline.items, Past(q, l.lastKnown))
    BY <1>4 DEF LinkOK, Of
  <1> QED BY <1>1, <1>2, <1>3, <1>5 DEF LinkOK

LEMMA HeldGrows ==
  ASSUME NEW r \in Rooms, NEW q \in Rooms, Grown(r, q), q.generation = r.generation,
         NEW through \in Nat, through <= Len(r.stored), NEW f, NEW overlay, Held(f, through, overlay, r)
  PROVE  Held(f, through, overlay, q)
  <1>1. Len(r.stored) \in Nat
    BY DEF Rooms
  <1>2. \A i \in 1..through : q.stored[i] = r.stored[i]
    BY <1>1 DEF Grown
  <1> QED BY <1>2 DEF Held

LEMMA SoundGrows ==
  ASSUME NEW r \in Rooms, NEW q \in Rooms, Grown(r, q), NEW s, NEW n, Sound(s, r, n),
         Active(s) => q.generation = r.generation
  PROVE  Sound(s, q, n)
  <1>1. /\ s \in Sessions /\ s.generation \in Int /\ s.through \in Nat /\ s.overlay \in SUBSET Item
        /\ r.generation \in Int /\ q.generation \in Int /\ Len(r.stored) \in Nat /\ Len(q.stored) \in Nat
    BY Bounds DEF Sound, Sessions, Rooms, Generations, Known
  <1>2. Past(r, s.generation) \subseteq Past(q, s.generation)
    BY PastGrows
  <1>3. Dated(s, q)
    <2>1. s.hasPage /\ s.generation = q.generation => s.through <= Len(q.stored)
      BY <1>1 DEF Sound, Dated, Grown
    <2> QED BY <1>1, <1>2, <2>1, OfMore DEF Sound, Dated, Grown
  <1>4. Active(s) /\ s.hasPage => s.through <= Len(r.stored) /\ s.generation = r.generation
    BY DEF Sound, Dated, Whole
  <1>5. Whole(s, q)
    <2>1. Active(s) /\ s.hasPage => \A i \in 1..s.through : q.stored[i] = r.stored[i]
      BY <1>1, <1>4 DEF Grown
    <2> QED BY <1>1, <1>4, <2>1 DEF Sound, Whole
  <1>6. Covered(s, q, n)
    BY <1>1, <1>2, <1>4, HeldGrows DEF Sound, Covered
  <1> QED BY <1>3, <1>5, <1>6 DEF Sound

LEMMA RequestGrows ==
  ASSUME NEW r \in Rooms, NEW q \in Rooms, Grown(r, q), NEW c, RequestOK(c, r)
  PROVE  RequestOK(c, q)
  <1>1. /\ c \in Requests /\ r.generation \in Int /\ q.generation \in Int
        /\ Len(r.stored) \in Nat /\ Len(q.stored) \in Nat
    BY Bounds DEF RequestOK, Rooms, Generations
  <1>2. CursorOK(c.cursor, q)
    <2>1. c.cursor # None => c.cursor.generation \in Int /\ c.cursor.through \in Nat
      BY <1>1, Bounds DEF Requests, Places, Cursors, Generations
    <2> QED BY <1>1, <2>1 DEF RequestOK, CursorOK, Grown
  <1>3. AnswerOK(c.answer, q)
    <2>1. IsPage(c.answer) => c.answer \in Pages
      BY <1>1 DEF IsPage, Requests, Refusals
    <2>2. IsPage(c.answer) => c.answer.generation \in Int /\ c.answer.through \in Nat
      BY <2>1, Bounds DEF Pages, Generations
    <2>3. Past(r, c.answer.generation) \subseteq Past(q, c.answer.generation)
      BY PastGrows
    <2> QED BY <1>1, <2>2, <2>3 DEF RequestOK, AnswerOK, Grown
  <1> QED BY <1>1, <1>2, <1>3 DEF RequestOK

LEMMA AwaitedGrows ==
  ASSUME NEW r \in Rooms, NEW q \in Rooms, Grown(r, q), q.generation = r.generation,
         NEW c, NEW s, NEW n, RequestOK(c, r), Awaited(c, s, r, n)
  PROVE  Awaited(c, s, q, n)
  <1>1. IsPage(c.answer) => /\ c.answer.through \in Nat /\ c.answer.through <= Len(r.stored)
    BY DEF RequestOK, AnswerOK, Awaited, IsPage, Requests, Refusals, Pages
  <1>2. IsPage(c.answer) => \A i \in 1..c.answer.through : q.stored[i] = r.stored[i]
    <2>1. Len(r.stored) \in Nat
      BY DEF Rooms
    <2> QED BY <1>1, <2>1 DEF Grown
  <1>3. IsPage(c.answer) => Full(c.answer, c.cursor, q)
    BY <1>2 DEF Full, Awaited
  <1>4. IsPage(c.answer) /\ c.cursor = None /\ s.generation = q.generation /\ ~s.overflow =>
          \A f \in n : Held(f, c.answer.through, s.overlay, q)
    BY <1>1, HeldGrows DEF Awaited
  <1> QED BY <1>3, <1>4 DEF Awaited

-----------------------------------------------------------------------------
(* The steps of the room and its stream *)

LEMMA StoredFacts ==
  ASSUME NEW r, RoomOK(r)
  PROVE  /\ ToSet(r.stored) \in SUBSET Fact /\ r.past[r.generation] \in SUBSET Fact
         /\ Past(r, r.generation) = ToSet(r.stored)
         /\ r.generation \in Nat /\ r.last \in Nat /\ r.faults \in Nat /\ Len(r.stored) \in Nat
         /\ \A i \in 1..Len(r.stored) : r.stored[i] \in Fact /\ r.stored[i] \in ToSet(r.stored)
         /\ Past(r, r.known) \subseteq Past(r, r.generation)
  <1>1. r \in Rooms /\ r.generation \in Generations /\ r.stored \in Seq(Fact)
    BY DEF RoomOK, Rooms
  <1>2. r.past[r.generation] \in SUBSET Fact /\ r.past[r.generation] = ToSet(r.stored)
    BY DEF RoomOK, Rooms
  <1>3. Past(r, r.generation) = ToSet(r.stored)
    BY <1>1, <1>2 DEF Past
  <1>4. \A i \in 1..Len(r.stored) : r.stored[i] \in Fact /\ r.stored[i] \in ToSet(r.stored)
    BY <1>1 DEF ToSet
  <1>5. Past(r, r.known) \subseteq Past(r, r.generation)
    BY Bounds DEF RoomOK, Past, Generations
  <1> QED BY <1>1, <1>2, <1>3, <1>4, <1>5, Bounds DEF Rooms, Generations

\* A fact that is known, or stored, leaves the room as it should be.
LEMMA WithFactHolds ==
  ASSUME NEW r, RoomOK(r), NEW fact \in Fact, NEW durable \in BOOLEAN, durable => r.available
  PROVE  LET q == WithFact(r, fact, durable)
         IN  /\ RoomOK(q) /\ Grown(r, q) /\ q.generation = r.generation /\ q.known = r.known
             /\ q.available = r.available
             /\ durable => fact \in Past(q, q.known)
  <1> DEFINE q == WithFact(r, fact, durable)
             item == [fact |-> fact, durable |-> durable]
             new == {item}
             joined == Join(r.recent, new)
  <1>1. /\ r \in Rooms /\ r.generation \in Generations /\ r.stored \in Seq(Fact) /\ r.recent \in SUBSET Item
        /\ r.past \in [Generations -> SUBSET Fact] /\ new \in SUBSET Item
    BY DEF RoomOK, Rooms, Item
  <1>2. /\ q.stored = IF durable THEN Append(r.stored, fact) ELSE r.stored
        /\ q.recent = Newest(joined, RecentLimit)
        /\ q.past = [r.past EXCEPT ![r.generation] = IF durable THEN @ \cup {fact} ELSE @]
        /\ q.generation = r.generation /\ q.known = r.known /\ q.available = r.available
        /\ q.last = r.last /\ q.faults = r.faults
    BY <1>1 DEF WithFact, Rooms
  <1>3. q \in Rooms
    <2>1. q.stored \in Seq(Fact)
      BY <1>1, <1>2
    <2>2. q.recent \in SUBSET Item
      <3> HIDE DEF q, new
      <3>1. joined \in SUBSET Item
        BY <1>1, JoinHolds
      <3> HIDE DEF joined
      <3>2. Newest(joined, RecentLimit) \subseteq joined
        BY NewestHolds
      <3> QED BY <1>2, <3>1, <3>2
    <2>3. q.past \in [Generations -> SUBSET Fact]
      BY <1>1, <1>2
    <2>4. q = [r EXCEPT !.stored = IF durable THEN Append(r.stored, fact) ELSE r.stored,
                        !.recent = Newest(joined, RecentLimit),
                        !.past = [r.past EXCEPT ![r.generation] = IF durable THEN @ \cup {fact} ELSE @]]
      BY DEF WithFact
    <2>5. q = [r EXCEPT !.stored = q.stored, !.recent = q.recent, !.past = q.past]
      BY <1>2, <2>4
    <2> HIDE DEF q
    <2> QED BY <1>1, <1>2, <2>1, <2>2, <2>3, <2>5 DEF Rooms
  <1> SUFFICES /\ RoomOK(q) /\ Grown(r, q) /\ q.generation = r.generation /\ q.known = r.known
               /\ q.available = r.available
               /\ durable => fact \in Past(q, q.known)
    OBVIOUS
  <1> HIDE DEF q
  <1>4. \A g \in Generations : r.past[g] \subseteq q.past[g] /\ (g # r.generation => q.past[g] = r.past[g])
    BY <1>1, <1>2
  <1>5. Grown(r, q)
    <2>1. \A i \in 1..Len(r.stored) : q.stored[i] = r.stored[i]
      BY <1>1, <1>2
    <2>2. Len(r.stored) <= Len(q.stored)
      BY <1>1, <1>2
    <2> QED BY <1>1, <1>2, <1>4, <2>1, <2>2, Bounds DEF Grown, Generations
  <1>6. q.past[q.generation] = ToSet(q.stored)
    <2>1. r.past[r.generation] = ToSet(r.stored)
      BY DEF RoomOK
    <2>2. durable => ToSet(q.stored) = ToSet(r.stored) \cup {fact}
      BY <1>1, <1>2 DEF ToSet
    <2> QED BY <1>1, <1>2, <2>1, <2>2
  <1>7. durable => fact \in Past(q, q.known)
    BY <1>1, <1>2 DEF RoomOK, Past
  <1>8. Of(q.recent, Past(q, q.known))
    <2>1. Past(r, r.known) \subseteq Past(q, q.known)
      BY <1>2, <1>5, PastGrows
    <2>2. Of(r.recent, Past(q, q.known))
      BY <2>1, OfMore DEF RoomOK
    <2>3. Of(new, Past(q, q.known))
      BY <1>7 DEF Of
    <2> HIDE DEF new
    <2>4. Of(joined, Past(q, q.known))
      BY <1>1, <2>2, <2>3, JoinOf
    <2> HIDE DEF joined
    <2> QED BY <1>2, <2>4, NewestHolds
  <1> QED BY <1>2, <1>3, <1>4, <1>5, <1>6, <1>7, <1>8, Bounds DEF RoomOK, Generations

\* Messages of what the room holds are put at the end of the stream.
LEMMA SentHolds ==
  ASSUME NEW r, LinkOK(link, r), NEW messages \in Seq(Messages),
         \A i \in 1..Len(messages) : MessageOK(messages[i], r)
  PROVE  /\ LinkOK(Sent(messages), r)
         /\ Sent(messages).connected = link.connected /\ Sent(messages).baseline = link.baseline
  <1> DEFINE l == Sent(messages)
  <1>1. link \in Links /\ link.queue \in Seq(Messages)
    BY DEF LinkOK, Links
  <1>2. CASE ~link.connected
    BY <1>2 DEF Sent
  <1>3. CASE link.connected
    <2>1. /\ l.queue = link.queue \o messages /\ l.connected = link.connected
          /\ l.lastKnown = link.lastKnown /\ l.baseline = link.baseline
      BY <1>1, <1>3 DEF Sent, Links
    <2>2. l.queue \in Seq(Messages)
      BY <1>1, <2>1
    <2>3. l \in Links
      <3>1. l = [link EXCEPT !.queue = link.queue \o messages]
        BY <1>3 DEF Sent
      <3> HIDE DEF l
      <3> QED BY <1>1, <2>1, <2>2, <3>1 DEF Links
    <2> SUFFICES LinkOK(l, r) /\ l.connected = link.connected /\ l.baseline = link.baseline
      OBVIOUS
    <2> HIDE DEF l
    <2>4. \A i \in 1..Len(l.queue) : MessageOK(l.queue[i], r)
      <3> SUFFICES ASSUME NEW i \in 1..Len(l.queue) PROVE MessageOK(l.queue[i], r)
        OBVIOUS
      <3>1. CASE i <= Len(link.queue)
        BY <1>1, <2>1, <3>1 DEF LinkOK
      <3>2. CASE i > Len(link.queue)
        <4>1. i - Len(link.queue) \in 1..Len(messages) /\ l.queue[i] = messages[i - Len(link.queue)]
          BY <1>1, <2>1, <3>2
        <4> QED BY <4>1
      <3> QED BY <1>1, <3>1, <3>2
    <2>5. link.queue # <<>> => l.queue # <<>> /\ l.queue[1] = link.queue[1]
      BY <1>1, <2>1
    <2> QED BY <1>3, <2>1, <2>3, <2>4, <2>5 DEF LinkOK
  <1> QED BY <1>2, <1>3

LEMMA MessageHolds ==
  ASSUME NEW r, RoomOK(r), NEW q, q.available \in BOOLEAN, q.known \in {0, r.generation},
         NEW kind \in {"snapshot", "delta"}, NEW items \in SUBSET Item, Of(items, Past(r, q.known))
  PROVE  Message(q, kind, items) \in Messages /\ MessageOK(Message(q, kind, items), r)
  <1>1. r.generation \in Generations /\ q.known \in Known /\ q.known <= r.generation
    BY Bounds DEF RoomOK, Rooms, Generations, Known
  <1> QED BY <1>1 DEF Message, Storage, Messages, MessageOK

LEMMA OneMessage ==
  ASSUME NEW r, RoomOK(r), LinkOK(link, r), NEW items \in SUBSET Item, Of(items, Past(r, r.known)),
         link' = Sent(<<Message(r, "delta", items)>>)
  PROVE  LinkOK(link', r) /\ link'.connected = link.connected /\ link'.baseline = link.baseline
  <1> DEFINE m == Message(r, "delta", items)
  <1>1. m \in Messages /\ MessageOK(m, r)
    BY MessageHolds DEF RoomOK, Rooms
  <1> HIDE DEF m
  <1> DEFINE ms == <<m>>
  <1>2. ms \in Seq(Messages) /\ \A i \in 1..Len(ms) : MessageOK(ms[i], r)
    BY <1>1
  <1>3. link' = Sent(ms)
    BY DEF m
  <1> HIDE DEF ms
  <1> QED BY <1>2, <1>3, SentHolds

LEMMA GrownAlike ==
  ASSUME NEW r, RoomOK(r), NEW p, NEW q, Grown(p, q),
         p.generation = r.generation, p.stored = r.stored, p.past = r.past
  PROVE  Grown(r, q)
  BY DEF Grown

LEMMA GrownSame ==
  ASSUME NEW r, RoomOK(r), NEW q, q.generation = r.generation, q.stored = r.stored, q.past = r.past
  PROVE  Grown(r, q)
  <1>1. r.generation \in Int /\ Len(r.stored) \in Nat
    BY StoredFacts
  <1> QED BY <1>1 DEF Grown

\* A step of the room under the connection there is.
Goes ==
  /\ RoomOK(room') /\ LinkOK(link', room') /\ Grown(room, room') /\ room'.generation = room.generation
  /\ link.connected => link'.connected
  /\ link'.baseline = link.baseline

LEMMA RecordGoes ==
  ASSUME RoomOK(room), LinkOK(link, room), Record
  PROVE  Goes
  <1> DEFINE fact == room.last + 1
             p == [room EXCEPT !.last = fact]
             q == WithFact(p, fact, room.available)
             items == {[fact |-> fact, durable |-> room.available]}
  <1>1. /\ room \in Rooms /\ room.available \in BOOLEAN
        /\ room.last \in Nat /\ room.faults \in Nat /\ room.faults <= MaxFaults
    BY DEF RoomOK, Rooms
  <1>2. fact \in Fact
    BY <1>1, Bounds DEF Record, Fact
  <1>3. RoomOK(p)
    <2>1. p \in Rooms /\ p.last = fact /\ p.faults = room.faults
          /\ p.generation = room.generation /\ p.known = room.known /\ p.available = room.available
          /\ p.stored = room.stored /\ p.recent = room.recent /\ p.past = room.past
      BY <1>1 DEF Rooms
    <2>2. fact + (MaxFaults - room.faults) + (IF room.available THEN 0 ELSE 1) <= MaxFact
      BY <1>1, Bounds DEF Record
    <2> HIDE DEF p
    <2> QED BY <2>1, <2>2 DEF RoomOK, Past
  <1>4. p.available = room.available /\ p.generation = room.generation /\ p.stored = room.stored
        /\ p.past = room.past
    BY <1>1 DEF Rooms
  <1> HIDE DEF p
  <1>5. /\ RoomOK(q) /\ Grown(p, q) /\ q.generation = p.generation /\ q.known = p.known
        /\ q.available = p.available /\ (room.available => fact \in Past(q, q.known))
    <2> HIDE DEF fact
    <2> QED BY <1>1, <1>2, <1>3, <1>4, WithFactHolds
  <1>6. room' = q /\ link' = Sent(<<Message(q, "delta", items)>>)
    BY DEF Record, p
  <1> HIDE DEF q
  <1>7. Grown(room, q)
    BY <1>4, <1>5, GrownAlike
  <1>8. items \in SUBSET Item /\ Of(items, Past(q, q.known))
    <2> HIDE DEF fact
    <2>1. \A item \in items : item.fact = fact /\ item.durable = room.available /\ item \in Item
      BY <1>1, <1>2 DEF Item
    <2> HIDE DEF items
    <2> QED BY <1>5, <2>1 DEF Of
  <1> HIDE DEF items
  <1>9. LinkOK(link, q)
    BY <1>1, <1>5, <1>7, LinkGrows DEF RoomOK
  <1>10. LinkOK(link', q) /\ link'.connected = link.connected /\ link'.baseline = link.baseline
    BY <1>5, <1>6, <1>8, <1>9, OneMessage
  <1> QED BY <1>4, <1>5, <1>6, <1>7, <1>10 DEF Goes

LEMMA ReconcileGoes ==
  ASSUME RoomOK(room), LinkOK(link, room), Reconcile
  PROVE  Goes
  <1>1. PICK item \in room.recent :
          /\ room' = WithFact(room, item.fact, TRUE)
          /\ link' = Sent(<<Message(WithFact(room, item.fact, TRUE), "delta", Durable({item.fact}))>>)
    BY DEF Reconcile
  <1> DEFINE fact == item.fact
             q == WithFact(room, fact, TRUE)
             items == Durable({fact})
  <1>2. room \in Rooms /\ fact \in Fact /\ room.available
    BY DEF RoomOK, Rooms, Item, Reconcile
  <1>3. room' = q /\ link' = Sent(<<Message(q, "delta", items)>>)
    BY <1>1
  <1> HIDE DEF fact
  <1>4. RoomOK(q) /\ Grown(room, q) /\ q.generation = room.generation /\ fact \in Past(q, q.known)
    BY <1>2, WithFactHolds
  <1> HIDE DEF q
  <1>5. items \in SUBSET Item /\ Of(items, Past(q, q.known))
    <2>1. {fact} \in SUBSET Fact
      BY <1>2
    <2>2. items \in SUBSET Item /\ Of(items, {fact})
      BY <2>1, DurableHolds
    <2> QED BY <1>4, <2>2 DEF Of
  <1> HIDE DEF items
  <1>6. LinkOK(link, q)
    BY <1>2, <1>4, LinkGrows DEF RoomOK
  <1>7. LinkOK(link', q) /\ link'.connected = link.connected /\ link'.baseline = link.baseline
    BY <1>3, <1>4, <1>5, <1>6, OneMessage
  <1> QED BY <1>3, <1>4, <1>7 DEF Goes

LEMMA NothingOf ==
  ASSUME NEW X
  PROVE  {} \in SUBSET Item /\ Of({}, X)
  BY DEF Of

LEMMA ReportGoes ==
  ASSUME RoomOK(room), LinkOK(link, room), Report
  PROVE  Goes
  <1>1. room' = room /\ link' = Sent(<<Message(room, "delta", {})>>)
    BY DEF Report
  <1>2. LinkOK(link', room) /\ link'.connected = link.connected /\ link'.baseline = link.baseline
    BY <1>1, NothingOf, OneMessage
  <1>3. Grown(room, room)
    BY GrownSame
  <1> QED BY <1>1, <1>2, <1>3 DEF Goes

LEMMA LostHolds ==
  ASSUME RoomOK(room), Fault, room.available
  PROVE  RoomOK(Lost(room)) /\ Grown(room, Lost(room)) /\ Lost(room).generation = room.generation
  <1> DEFINE q == Lost(room)
  <1>1. /\ room \in Rooms /\ room.last \in Nat /\ room.faults \in Nat /\ room.faults < MaxFaults
        /\ room.last + (MaxFaults - room.faults) + 0 <= MaxFact
    BY DEF RoomOK, Rooms, Fault
  <1>2. /\ q \in Rooms /\ q.available = FALSE /\ q.faults = room.faults + 1 /\ q.last = room.last
        /\ q.generation = room.generation /\ q.known = room.known /\ q.stored = room.stored
        /\ q.recent = room.recent /\ q.past = room.past
    <2> DEFINE a == [room EXCEPT !.available = FALSE]
    <2>1. /\ a \in Rooms /\ a.available = FALSE /\ a.faults = room.faults /\ a.last = room.last
          /\ a.generation = room.generation /\ a.known = room.known /\ a.stored = room.stored
          /\ a.recent = room.recent /\ a.past = room.past
      BY <1>1 DEF Rooms
    <2>2. q = [a EXCEPT !.faults = @ + 1]
      BY <2>1 DEF Lost
    <2> HIDE DEF a, q
    <2> QED BY <1>1, <2>1, <2>2 DEF Rooms
  <1> SUFFICES RoomOK(q) /\ Grown(room, q) /\ q.generation = room.generation
    OBVIOUS
  <1> HIDE DEF q
  <1>3. Grown(room, q)
    BY <1>2, GrownSame
  <1>4. /\ q.last + (MaxFaults - q.faults) + (IF q.available THEN 0 ELSE 1) <= MaxFact
        /\ q.faults <= MaxFaults
    BY <1>1, <1>2, Bounds
  <1> QED BY <1>2, <1>3, <1>4 DEF RoomOK, Past

LEMMA LoseGoes ==
  ASSUME RoomOK(room), LinkOK(link, room), Lose
  PROVE  Goes
  <1> DEFINE q == Lost(room)
  <1>1. room' = q /\ link' = Sent(<<Message(q, "delta", {})>>)
    BY DEF Lose
  <1>2. RoomOK(q) /\ Grown(room, q) /\ q.generation = room.generation
    BY LostHolds DEF Lose
  <1> HIDE DEF q
  <1>3. LinkOK(link, q)
    BY <1>2, LinkGrows DEF RoomOK
  <1>4. LinkOK(link', q) /\ link'.connected = link.connected /\ link'.baseline = link.baseline
    BY <1>1, <1>2, <1>3, NothingOf, OneMessage
  <1> QED BY <1>1, <1>2, <1>4 DEF Goes

LEMMA AppendedHolds ==
  ASSUME NEW r, NEW a \in Seq(Messages), NEW b \in Seq(Messages),
         \A i \in 1..Len(a) : MessageOK(a[i], r), \A i \in 1..Len(b) : MessageOK(b[i], r)
  PROVE  a \o b \in Seq(Messages) /\ \A i \in 1..Len(a \o b) : MessageOK((a \o b)[i], r)
  <1> SUFFICES ASSUME NEW i \in 1..Len(a \o b) PROVE MessageOK((a \o b)[i], r)
    OBVIOUS
  <1>1. CASE i <= Len(a)
    BY <1>1
  <1>2. CASE i > Len(a)
    <2>1. i - Len(a) \in 1..Len(b) /\ (a \o b)[i] = b[i - Len(a)]
      BY <1>2
    <2> QED BY <2>1
  <1> QED BY <1>1, <1>2

LEMMA RecoverGoes ==
  ASSUME RoomOK(room), LinkOK(link, room), Recover
  PROVE  Goes
  <1> DEFINE gap == room.last + 1
             kept == Newest(Durable(ToSet(room.stored)), RecentLimit)
             recent == Newest(Join(kept, room.recent), RecentLimit)
             found == [room EXCEPT !.known = room.generation, !.last = gap, !.recent = recent]
             open == [found EXCEPT !.available = TRUE]
             q == WithFact(open, gap, TRUE)
             first == Announced(room)
             second == IF found.recent = room.recent THEN <<>> ELSE <<Message(found, "delta", found.recent)>>
             third == <<Message(q, "delta", Durable({gap}))>>
  <1>1. room' = q /\ link' = Sent(first \o second \o third) /\ ~room.available
    BY DEF Recover
  <1>2. /\ room \in Rooms /\ room.last \in Nat /\ room.faults \in Nat /\ room.faults <= MaxFaults
        /\ room.last + (MaxFaults - room.faults) + 1 <= MaxFact /\ room.generation \in Generations
    BY <1>1 DEF RoomOK, Rooms
  <1>3. gap \in Fact /\ gap \in Nat
    BY <1>2, Bounds DEF Fact
  <1>4. recent \in SUBSET Item /\ Of(recent, Past(room, room.generation))
    <2> DEFINE stored == Durable(ToSet(room.stored))
               joined == Join(kept, room.recent)
               past == Past(room, room.generation)
    <2>1. stored \in SUBSET Item /\ Of(stored, past)
      BY StoredFacts, DurableHolds
    <2> HIDE DEF stored
    <2>2. kept \in SUBSET Item /\ Of(kept, past)
      <3>1. kept = Newest(stored, RecentLimit)
        BY DEF stored
      <3>2. kept \subseteq stored /\ Of(kept, past)
        BY <2>1, <3>1, NewestHolds
      <3> QED BY <2>1, <3>2
    <2> HIDE DEF kept
    <2>3. room.recent \in SUBSET Item /\ Of(room.recent, past)
      <3>1. Past(room, room.known) \subseteq past /\ Of(room.recent, Past(room, room.known))
        BY StoredFacts DEF RoomOK
      <3> QED BY <1>2, <3>1, OfMore DEF Rooms
    <2>4. joined \in SUBSET Item /\ Of(joined, past)
      BY <2>2, <2>3, JoinHolds, JoinOf
    <2> HIDE DEF joined
    <2>5. Newest(joined, RecentLimit) \subseteq joined /\ Of(Newest(joined, RecentLimit), past)
      BY <2>4, NewestHolds
    <2> QED BY <2>4, <2>5 DEF joined
  <1> HIDE DEF recent, gap
  <1>5. /\ found \in Rooms /\ found.known = room.generation /\ found.last = gap /\ found.recent = recent
        /\ found.available = FALSE /\ found.generation = room.generation /\ found.stored = room.stored
        /\ found.past = room.past /\ found.faults = room.faults
    <2> DEFINE a == [room EXCEPT !.known = room.generation]
               b == [a EXCEPT !.last = gap]
    <2>1. /\ a \in Rooms /\ a.known = room.generation
          /\ a.available = FALSE /\ a.generation = room.generation /\ a.stored = room.stored
          /\ a.past = room.past /\ a.faults = room.faults
      BY <1>1, <1>2 DEF Rooms, Known
    <2> HIDE DEF a
    <2>2. /\ b \in Rooms /\ b.known = room.generation /\ b.last = gap
          /\ b.available = FALSE /\ b.generation = room.generation /\ b.stored = room.stored
          /\ b.past = room.past /\ b.faults = room.faults
      BY <1>3, <2>1 DEF Rooms
    <2>3. found = [b EXCEPT !.recent = recent]
      BY DEF b, a
    <2> HIDE DEF b, found
    <2> QED BY <1>4, <2>2, <2>3 DEF Rooms
  <1> HIDE DEF found
  <1>6. /\ open \in Rooms /\ open.known = room.generation /\ open.last = gap /\ open.recent = recent
        /\ open.available = TRUE /\ open.generation = room.generation /\ open.stored = room.stored
        /\ open.past = room.past /\ open.faults = room.faults
    BY <1>5 DEF Rooms
  <1> HIDE DEF open
  <1>7. RoomOK(open)
    <2>1. open.last + (MaxFaults - open.faults) + 0 <= MaxFact
      BY <1>2, <1>6, Bounds DEF gap
    <2>2. Past(open, open.known) = Past(room, room.generation)
      BY <1>6 DEF Past
    <2> QED BY <1>2, <1>4, <1>6, <2>1, <2>2 DEF RoomOK
  <1>8. /\ RoomOK(q) /\ Grown(open, q) /\ q.generation = room.generation /\ q.known = room.generation
        /\ gap \in Past(q, q.known)
    BY <1>3, <1>6, <1>7, WithFactHolds
  <1> HIDE DEF q
  <1>9. Grown(room, q)
    BY <1>6, <1>8, GrownAlike
  <1>10. Past(room, room.generation) \subseteq Past(q, q.known)
    BY <1>8, <1>9, PastGrows
  <1>11. q \in Rooms /\ q.available \in BOOLEAN
    BY <1>8 DEF RoomOK, Rooms
  <1>12. first \in Seq(Messages) /\ \A i \in 1..Len(first) : MessageOK(first[i], q)
    <2> DEFINE p == [room EXCEPT !.known = room.generation]
               m == Message(p, "delta", {})
    <2>1. p.available \in BOOLEAN /\ p.known = room.generation
      BY <1>2 DEF Rooms
    <2> HIDE DEF p
    <2>2. m \in Messages /\ MessageOK(m, q)
      BY <1>8, <2>1, NothingOf, MessageHolds
    <2>3. first = <<m>>
      BY DEF Announced, p
    <2> HIDE DEF m, first
    <2> QED BY <2>2, <2>3
  <1>13. second \in Seq(Messages) /\ \A i \in 1..Len(second) : MessageOK(second[i], q)
    <2> DEFINE m == Message(found, "delta", found.recent)
    <2>1. Of(recent, Past(q, found.known))
      BY <1>4, <1>5, <1>8, <1>10, OfMore
    <2>2. found.available \in BOOLEAN /\ found.known \in {0, q.generation} /\ found.recent \in SUBSET Item
          /\ Of(found.recent, Past(q, found.known))
      BY <1>4, <1>5, <1>8, <2>1
    <2>3. m \in Messages /\ MessageOK(m, q)
      BY <1>8, <2>2, MessageHolds
    <2>4. second = <<>> \/ second = <<m>>
      OBVIOUS
    <2> HIDE DEF m, second
    <2>5. CASE second = <<>>
      BY <2>5
    <2>6. CASE second = <<m>>
      BY <2>3, <2>6
    <2> QED BY <2>4, <2>5, <2>6
  <1>14. third \in Seq(Messages) /\ \A i \in 1..Len(third) : MessageOK(third[i], q)
    <2> DEFINE items == Durable({gap})
               m == Message(q, "delta", items)
    <2>1. {gap} \in SUBSET Fact
      BY <1>3
    <2>2. items \in SUBSET Item /\ Of(items, {gap})
      BY <2>1, DurableHolds
    <2>3. Of(items, Past(q, q.known))
      BY <1>8, <2>2 DEF Of
    <2> HIDE DEF items
    <2>4. m \in Messages /\ MessageOK(m, q)
      BY <1>8, <1>11, <2>2, <2>3, MessageHolds
    <2>5. third = <<m>>
      BY DEF items
    <2> HIDE DEF m, third
    <2> QED BY <2>4, <2>5
  <1> DEFINE all == first \o second \o third
  <1> HIDE DEF first, second, third
  <1>15. all \in Seq(Messages) /\ \A i \in 1..Len(all) : MessageOK(all[i], q)
    <2> DEFINE two == first \o second
    <2>1. two \in Seq(Messages) /\ \A i \in 1..Len(two) : MessageOK(two[i], q)
      BY <1>12, <1>13, AppendedHolds
    <2> HIDE DEF two
    <2>2. all = two \o third
      BY DEF two
    <2> QED BY <1>14, <2>1, <2>2, AppendedHolds
  <1>16. link' = Sent(all)
    BY <1>1
  <1> HIDE DEF all
  <1>17. LinkOK(link, q)
    BY <1>2, <1>9, <1>11, LinkGrows
  <1>18. LinkOK(link', q) /\ link'.connected = link.connected /\ link'.baseline = link.baseline
    BY <1>15, <1>16, <1>17, SentHolds
  <1> QED BY <1>1, <1>8, <1>9, <1>18 DEF Goes

LEMMA ConnectGoes ==
  ASSUME RoomOK(room), LinkOK(link, room), Connect
  PROVE  Goes
  <1> DEFINE m == Message(room, "snapshot", room.recent)
             l == [link EXCEPT !.connected = TRUE, !.queue = <<m>>]
  <1>1. ~link.connected /\ link' = l /\ room' = room
    BY DEF Connect
  <1>2. m \in Messages /\ MessageOK(m, room) /\ m.kind = "snapshot"
    <2>1. room.available \in BOOLEAN /\ room.known \in {0, room.generation} /\ room.recent \in SUBSET Item
          /\ Of(room.recent, Past(room, room.known))
      BY DEF RoomOK, Rooms
    <2>2. m.kind = "snapshot"
      BY DEF Message
    <2> QED BY <2>1, <2>2, MessageHolds
  <1> HIDE DEF m
  <1>3. /\ l \in Links /\ l.connected = TRUE /\ l.queue = <<m>> /\ l.lastKnown = link.lastKnown
        /\ l.baseline = link.baseline
    <2> DEFINE a == [link EXCEPT !.connected = TRUE]
    <2>1. a \in Links /\ a.connected = TRUE /\ a.lastKnown = link.lastKnown /\ a.baseline = link.baseline
      BY DEF LinkOK, Links
    <2>2. l = [a EXCEPT !.queue = <<m>>]
      BY <2>1
    <2>3. <<m>> \in Seq(Messages)
      BY <1>2
    <2> HIDE DEF a, l
    <2> QED BY <2>1, <2>2, <2>3 DEF Links
  <1> HIDE DEF l
  <1>4. link.baseline = None
    BY <1>1 DEF LinkOK
  <1>5. l.queue # <<>> /\ l.queue[1] = m /\ \A i \in 1..Len(l.queue) : MessageOK(l.queue[i], room)
    BY <1>2, <1>3
  <1>6. LinkOK(l, room)
    BY <1>2, <1>3, <1>4, <1>5 DEF LinkOK
  <1>7. Grown(room, room)
    BY GrownSame
  <1> QED BY <1>1, <1>3, <1>6, <1>7 DEF Goes

\* A step of the room that breaks the connection, if there is one.
Breaks ==
  /\ RoomOK(room') /\ LinkOK(link', room') /\ Grown(room, room') /\ ~link'.connected
  /\ link'.baseline = None

LEMMA CutHolds ==
  ASSUME NEW r \in Rooms, NEW l, LinkOK(l, r)
  PROVE  LinkOK(Cut(l), r) /\ ~Cut(l).connected /\ Cut(l).baseline = None
  <1> DEFINE c == Cut(l)
             a == [l EXCEPT !.connected = FALSE]
             b == [a EXCEPT !.queue = <<>>]
  <1>1. a \in Links /\ a.connected = FALSE /\ a.lastKnown = l.lastKnown
    BY DEF LinkOK, Links
  <1> HIDE DEF a
  <1>2. b \in Links /\ b.connected = FALSE /\ b.lastKnown = l.lastKnown /\ b.queue = <<>>
    BY <1>1, <<>> \in Seq(Messages) DEF Links
  <1>3. c = [b EXCEPT !.baseline = None]
    BY DEF Cut, b, a
  <1> SUFFICES LinkOK(c, r) /\ ~c.connected /\ c.baseline = None
    OBVIOUS
  <1> HIDE DEF b, c
  <1>4. c \in Links /\ c.connected = FALSE /\ c.lastKnown = l.lastKnown /\ c.queue = <<>> /\ c.baseline = None
    BY <1>2, <1>3 DEF Links
  <1> QED BY <1>4 DEF LinkOK

LEMMA InterruptBreaks ==
  ASSUME RoomOK(room), LinkOK(link, room), Interrupt
  PROVE  Breaks
  <1> DEFINE q == [room EXCEPT !.faults = @ + 1]
  <1>1. room' = q /\ link' = Cut(link) /\ room.faults < MaxFaults
    BY DEF Interrupt, Fault
  <1>2. /\ q \in Rooms /\ q.available = room.available /\ q.faults = room.faults + 1 /\ q.last = room.last
        /\ q.generation = room.generation /\ q.known = room.known /\ q.stored = room.stored
        /\ q.recent = room.recent /\ q.past = room.past /\ room.faults \in Nat /\ room.last \in Nat
    BY DEF RoomOK, Rooms
  <1> HIDE DEF q
  <1>3. Grown(room, q)
    BY <1>2, GrownSame
  <1>4. RoomOK(q)
    <2>1. /\ q.last + (MaxFaults - q.faults) + (IF q.available THEN 0 ELSE 1) <= MaxFact
          /\ q.faults <= MaxFaults
      BY <1>1, <1>2, Bounds DEF RoomOK
    <2> QED BY <1>2, <2>1 DEF RoomOK, Past
  <1>5. LinkOK(link, q)
    BY <1>2, <1>3, LinkGrows DEF RoomOK
  <1> QED BY <1>1, <1>2, <1>3, <1>4, <1>5, CutHolds DEF Breaks

LEMMA RestartBreaks ==
  ASSUME RoomOK(room), LinkOK(link, room), NEW replaced \in BOOLEAN, NEW available \in BOOLEAN,
         Restart(replaced, available)
  PROVE  Breaks
  <1> DEFINE stored == IF replaced THEN <<>> ELSE room.stored
             generation == IF replaced THEN room.generation + 1 ELSE room.generation
             known == IF available THEN generation ELSE 0
             recent == IF available THEN Newest(Durable(ToSet(stored)), RecentLimit) ELSE {}
             q == [room EXCEPT !.generation = generation, !.stored = stored, !.available = available,
                               !.known = known, !.faults = @ + 1, !.recent = recent]
  <1>1. /\ room' = q /\ link' = Cut(link) /\ room.faults < MaxFaults
        /\ replaced => room.generation < MaxGeneration
    BY DEF Restart, Fault
  <1>2. /\ room \in Rooms /\ room.generation \in Generations /\ room.generation \in Nat
        /\ room.stored \in Seq(Fact) /\ room.past \in [Generations -> SUBSET Fact]
        /\ room.faults \in Nat /\ room.last \in Nat
    BY StoredFacts DEF RoomOK, Rooms
  <1>3. generation \in Generations /\ stored \in Seq(Fact) /\ known \in Known
    BY <1>1, <1>2, Bounds DEF Generations, Known
  <1>4. room.past[generation] = ToSet(stored) /\ ToSet(stored) \in SUBSET Fact
    <2>1. CASE replaced
      <3>1. generation \in Generations /\ generation > room.generation
        BY <1>2, <1>3, <2>1
      <3>2. room.past[generation] = {}
        BY <3>1 DEF RoomOK
      <3>3. ToSet(stored) = {}
        BY <2>1 DEF ToSet
      <3> QED BY <3>2, <3>3
    <2>2. CASE ~replaced
      BY <2>2, StoredFacts DEF RoomOK
    <2> QED BY <2>1, <2>2
  <1>5. recent \in SUBSET Item /\ Of(recent, IF known = 0 THEN {} ELSE ToSet(stored))
    <2> DEFINE items == Durable(ToSet(stored))
    <2>1. items \in SUBSET Item /\ Of(items, ToSet(stored))
      BY <1>4, DurableHolds
    <2> HIDE DEF items
    <2>2. Newest(items, RecentLimit) \subseteq items /\ Of(Newest(items, RecentLimit), ToSet(stored))
      BY <2>1, NewestHolds
    <2>3. CASE available
      <3>1. known # 0 /\ recent = Newest(items, RecentLimit)
        BY <1>3, <2>3, Bounds DEF items, Generations
      <3> HIDE DEF recent, known
      <3> QED BY <2>1, <2>2, <3>1
    <2>4. CASE ~available
      BY <2>4, NothingOf
    <2> QED BY <2>3, <2>4
  <1>6. generation >= room.generation /\ (~replaced => generation = room.generation /\ stored = room.stored)
        /\ (replaced => generation # room.generation)
    BY <1>2
  <1>7. (available => known = generation) /\ (~available => known = 0)
    OBVIOUS
  <1> HIDE DEF generation, stored, known, recent
  <1>8. /\ q \in Rooms /\ q.available = available /\ q.faults = room.faults + 1 /\ q.last = room.last
        /\ q.generation = generation /\ q.known = known /\ q.stored = stored
        /\ q.recent = recent /\ q.past = room.past
    <2> DEFINE a == [room EXCEPT !.generation = generation]
               b == [a EXCEPT !.stored = stored]
               c == [b EXCEPT !.available = available]
               d == [c EXCEPT !.known = known]
               e == [d EXCEPT !.faults = room.faults + 1]
    <2>1. /\ a \in Rooms /\ a.generation = generation /\ a.last = room.last /\ a.past = room.past
          /\ a.faults = room.faults
      BY <1>2, <1>3 DEF Rooms
    <2> HIDE DEF a
    <2>2. /\ b \in Rooms /\ b.generation = generation /\ b.last = room.last /\ b.past = room.past
          /\ b.stored = stored /\ b.faults = room.faults
      BY <1>3, <2>1 DEF Rooms
    <2> HIDE DEF b
    <2>3. /\ c \in Rooms /\ c.generation = generation /\ c.last = room.last /\ c.past = room.past
          /\ c.stored = stored /\ c.available = available /\ c.faults = room.faults
      BY <2>2 DEF Rooms
    <2> HIDE DEF c
    <2>4. /\ d \in Rooms /\ d.generation = generation /\ d.last = room.last /\ d.past = room.past
          /\ d.stored = stored /\ d.available = available /\ d.known = known /\ d.faults = room.faults
      BY <1>3, <2>3 DEF Rooms
    <2> HIDE DEF d
    <2>5. /\ e \in Rooms /\ e.generation = generation /\ e.last = room.last /\ e.past = room.past
          /\ e.stored = stored /\ e.available = available /\ e.known = known /\ e.faults = room.faults + 1
      BY <2>4, room.faults + 1 \in Nat, <1>2 DEF Rooms
    <2>6. q = [e EXCEPT !.recent = recent]
      BY DEF a, b, c, d, e
    <2> HIDE DEF e, q
    <2> QED BY <1>5, <2>5, <2>6 DEF Rooms
  <1> HIDE DEF q
  <1>9. Grown(room, q)
    <2>1. Len(room.stored) \in Nat
      BY <1>2
    <2> QED BY <1>2, <1>6, <1>8, <2>1 DEF Grown
  <1>10. RoomOK(q)
    <2>1. /\ q.last + (MaxFaults - q.faults) + (IF q.available THEN 0 ELSE 1) <= MaxFact
          /\ q.faults <= MaxFaults
      BY <1>1, <1>2, <1>8, Bounds DEF RoomOK
    <2>2. Past(q, q.known) = IF known = 0 THEN {} ELSE ToSet(stored)
      BY <1>3, <1>4, <1>7, <1>8, Bounds DEF Past, Generations
    <2>3. \A g \in Generations : g > generation => room.past[g] = {}
      <3> SUFFICES ASSUME NEW g \in Generations, g > generation PROVE room.past[g] = {}
        OBVIOUS
      <3>1. g > room.generation
        BY <1>2, <1>3, <1>6, Bounds DEF Generations
      <3> QED BY <3>1 DEF RoomOK
    <2> QED BY <1>4, <1>5, <1>7, <1>8, <2>1, <2>2, <2>3 DEF RoomOK
  <1>11. LinkOK(link, q)
    BY <1>2, <1>8, <1>9, LinkGrows
  <1> QED BY <1>1, <1>8, <1>9, <1>10, <1>11, CutHolds DEF Breaks

-----------------------------------------------------------------------------
(* A page *)

LEMMA LeastFact ==
  ASSUME NEW S \in SUBSET Nat, S # {}
  PROVE  \E n \in S : \A m \in S : n <= m
  <1> DEFINE less == OpToRel(<, Nat)
  <1>1. IsWellFoundedOn(less, Nat)
    BY NatLessThanWellFounded
  <1> HIDE DEF less
  <1>2. PICK n \in S : \A m \in S : <<m, n>> \notin less
    BY <1>1, WFMin, Zenon
  <1>3. \A m \in S : m \in Nat /\ n \in Nat /\ ~(m < n)
    BY <1>2 DEF less, OpToRel
  <1> QED BY <1>3

LEMMA GreatestFact ==
  ASSUME NEW S \in SUBSET Fact, S # {}
  PROVE  \E n \in S : \A m \in S : n >= m
  <1> DEFINE T == {MaxFact - f : f \in S}
  <1>1. T \in SUBSET Nat /\ T # {}
    BY Bounds DEF Fact
  <1>2. PICK t \in T : \A u \in T : t <= u
    BY ONLY <1>1, LeastFact
  <1>3. PICK n \in S : t = MaxFact - n
    OBVIOUS
  <1>4. ASSUME NEW m \in S PROVE n >= m
    <2>1. MaxFact - m \in T
      OBVIOUS
    <2>2. MaxFact - n <= MaxFact - m
      BY <1>2, <1>3, <2>1
    <2>3. m \in Int /\ n \in Int /\ MaxFact \in Int
      BY Bounds DEF Fact
    <2> QED BY <2>2, <2>3
  <1> QED BY <1>4

LEMMA FactsAreFinite ==
  ASSUME NEW S \in SUBSET Fact
  PROVE  IsFiniteSet(S) /\ Cardinality(S) \in Nat
  <1>1. IsFiniteSet(Fact)
    BY Bounds, FS_Interval DEF Fact
  <1> QED BY <1>1, FS_Subset, FS_CardinalityType

\* The newest of some facts, as many as fit on a page: if not all fit there is an oldest
\* on the page, and everything from there on is on it.
LEMMA NewestFacts ==
  ASSUME NEW rest \in SUBSET Fact, NEW facts, facts # rest,
         facts = {f \in rest : Cardinality({g \in rest : g > f}) < PageSize}
  PROVE  LET last == CHOOSE f \in facts : \A g \in facts : f <= g
         IN  /\ last \in facts
             /\ \A f \in rest : f >= last => f \in facts
  <1> DEFINE last == CHOOSE f \in facts : \A g \in facts : f <= g
             Above(f) == {g \in rest : g > f}
  <1>1. \A f \in rest : f \in Nat
    BY Bounds DEF Fact
  <1>2. facts \in SUBSET Nat /\ facts \subseteq rest
    BY <1>1
  <1>3. facts # {}
    <2>1. rest # {}
      BY <1>2
    <2>2. PICK n \in rest : \A m \in rest : n >= m
      BY ONLY <2>1, rest \in SUBSET Fact, GreatestFact
    <2>3. Above(n) = {}
      <3> SUFFICES ASSUME NEW m \in rest, m > n PROVE FALSE
        OBVIOUS
      <3>1. m \in Nat /\ n \in Nat /\ n >= m
        BY <1>1, <2>2
      <3> QED BY <3>1
    <2>4. Cardinality(Above(n)) < PageSize
      BY <2>3, FS_EmptySet, Bounds
    <2> QED BY <2>4
  <1>4. PICK n \in facts : \A m \in facts : n <= m
    BY ONLY <1>2, <1>3, LeastFact
  <1>5. last \in facts /\ \A g \in facts : last <= g
    BY <1>4
  <1> HIDE DEF last
  <1>6. ASSUME NEW f \in rest, f >= last PROVE f \in facts
    <2>1. f \in Nat /\ last \in Nat /\ last \in rest
      BY <1>1, <1>2, <1>5
    <2>2. Above(f) \subseteq Above(last)
      <3> SUFFICES ASSUME NEW g \in rest, g > f PROVE g > last
        OBVIOUS
      <3>1. g \in Nat
        BY <1>1
      <3> QED BY <2>1, <3>1, <1>6
    <2>3. Above(last) \in SUBSET Fact /\ IsFiniteSet(Above(last))
      BY FactsAreFinite
    <2>4. Cardinality(Above(f)) <= Cardinality(Above(last)) /\ Cardinality(Above(f)) \in Nat
          /\ Cardinality(Above(last)) \in Nat
      BY <2>2, <2>3, FS_Subset, FS_CardinalityType
    <2>5. Cardinality(Above(last)) < PageSize
      BY <1>5
    <2>6. Cardinality(Above(f)) < PageSize
      BY <2>4, <2>5, Bounds
    <2> QED BY <2>6
  <1> QED BY <1>5, <1>6 DEF last

LEMMA PageHolds ==
  ASSUME RoomOK(room), NEW cursor \in Places, CursorOK(cursor, room),
         cursor # None => cursor.generation = room.generation
  PROVE  LET page == PageAfter(cursor, PageSize)
         IN  /\ page \in Pages /\ page.generation = room.generation /\ AnswerOK(page, room)
             /\ Full(page, cursor, room)
             /\ cursor = None => page.through = Len(room.stored)
  <1> DEFINE through == IF cursor = None THEN Len(room.stored) ELSE cursor.through
             rows == {room.stored[i] : i \in 1..through}
             rest == IF cursor = None THEN rows ELSE {f \in rows : f < cursor.after}
             facts == {f \in rest : Cardinality({g \in rest : g > f}) < PageSize}
             last == CHOOSE f \in facts : \A g \in facts : f <= g
             next == IF facts = rest THEN None
                     ELSE [generation |-> room.generation, through |-> through, after |-> last]
             page == PageAfter(cursor, PageSize)
  <1>1. page = [kind |-> "page", generation |-> room.generation, through |-> through, facts |-> facts,
                next |-> next]
    BY DEF PageAfter
  <1>2. /\ Len(room.stored) \in Nat /\ room.generation \in Generations /\ room.generation \in Nat
        /\ \A i \in 1..Len(room.stored) : room.stored[i] \in Fact /\ room.stored[i] \in Past(room, room.generation)
    BY StoredFacts DEF RoomOK, Rooms
  <1>3. through \in Nat /\ through <= Len(room.stored) /\ (cursor # None => through = cursor.through)
        /\ (cursor = None => through = Len(room.stored))
    BY <1>2 DEF CursorOK, Places, Cursors
  <1> HIDE DEF through
  <1>4. rows \in SUBSET Fact /\ rows \subseteq Past(room, room.generation)
    BY <1>2, <1>3
  <1>5. rest \subseteq rows
    OBVIOUS
  <1>6. \A i \in 1..through : (cursor = None \/ room.stored[i] < cursor.after) => room.stored[i] \in rest
    OBVIOUS
  <1> HIDE DEF rows, rest
  <1>7. facts \subseteq rest
    OBVIOUS
  <1>8. facts # rest => last \in facts /\ \A f \in rest : f >= last => f \in facts
    BY <1>4, <1>5, NewestFacts
  <1> HIDE DEF facts, last
  <1>9. /\ facts = rest => next = None
        /\ facts # rest => /\ next = [generation |-> room.generation, through |-> through, after |-> last]
                           /\ next \in Cursors /\ next # None /\ next.after = last
    <2>1. facts # rest => last \in Fact
      BY <1>4, <1>5, <1>7, <1>8
    <2>2. None \notin Cursors
      BY DEF None, Cursors
    <2> QED BY <1>2, <1>3, <2>1, <2>2 DEF Cursors
  <1> HIDE DEF next
  <1>10. next \in Places
    BY <1>9 DEF Places
  <1> SUFFICES /\ page \in Pages /\ page.generation = room.generation /\ AnswerOK(page, room)
               /\ Full(page, cursor, room)
               /\ cursor = None => page.through = Len(room.stored)
    OBVIOUS
  <1> HIDE DEF page
  <1>11. page \in Pages
    BY <1>1, <1>2, <1>3, <1>4, <1>5, <1>7, <1>10 DEF Pages
  <1>12. page.generation = room.generation /\ page.through = through /\ page.facts = facts /\ page.next = next
    BY <1>1
  <1>13. AnswerOK(page, room)
    BY <1>2, <1>3, <1>4, <1>5, <1>7, <1>9, <1>12 DEF AnswerOK
  <1>14. Full(page, cursor, room)
    BY <1>3, <1>6, <1>8, <1>9, <1>12 DEF Full
  <1> QED BY <1>3, <1>11, <1>12, <1>13, <1>14

-----------------------------------------------------------------------------
(* The operations of the session *)

SameContent(s, t) ==
  /\ t.pages = s.pages /\ t.retained = s.retained /\ t.overlay = s.overlay
  /\ t.position = s.position /\ t.overflow = s.overflow
SamePin(s, t) ==
  t.generation = s.generation /\ t.through = s.through /\ t.next = s.next /\ t.hasPage = s.hasPage
SameFlow(s, t) ==
  /\ t.status = s.status /\ t.hasBaseline = s.hasBaseline /\ t.opened = s.opened
  /\ t.reconnect = s.reconnect /\ t.failed = s.failed
SameRead(s, t) == t.read = s.read /\ t.ask = s.ask

LEMMA CancelGives ==
  ASSUME NEW s \in Sessions
  PROVE  LET t == Cancel(s)
         IN  /\ t \in Sessions /\ SameContent(s, t) /\ SamePin(s, t) /\ SameFlow(s, t)
             /\ t.read = None /\ ~t.ask
  BY DEF Cancel, Sessions, SameContent, SamePin, SameFlow

LEMMA RetainGives ==
  ASSUME NEW s \in Sessions
  PROVE  LET t == Retain(s)
         IN  /\ t \in Sessions /\ SamePin(s, t) /\ SameFlow(s, t) /\ SameRead(s, t)
             /\ t.retained \in Retentions /\ t.retained # None /\ t.retained.pages = ShownPages(s)
             /\ t.pages = s.pages /\ t.overlay = s.overlay /\ t.position = s.position
             /\ t.overflow = s.overflow
  <1> DEFINE t == Retain(s)
             kept == IF s.retained = None THEN [pages |-> s.pages] ELSE s.retained
  <1>1. None \notin Retentions
    BY DEF None, Retentions
  <1>2. kept \in Retentions /\ kept.pages = ShownPages(s)
    BY <1>1 DEF Sessions, Retentions, ShownPages
  <1>3. t = [s EXCEPT !.retained = kept, !.lastKnown = TRUE]
    BY DEF Retain
  <1> SUFFICES /\ t \in Sessions /\ SamePin(s, t) /\ SameFlow(s, t) /\ SameRead(s, t)
               /\ t.retained \in Retentions /\ t.retained # None /\ t.retained.pages = ShownPages(s)
               /\ t.pages = s.pages /\ t.overlay = s.overlay /\ t.position = s.position
               /\ t.overflow = s.overflow
    OBVIOUS
  <1> HIDE DEF t, kept
  <1>4. t \in Sessions
    BY <1>2, <1>3 DEF Sessions
  <1>5. t.retained = kept
    BY <1>3 DEF Sessions
  <1>6. SamePin(s, t) /\ SameFlow(s, t) /\ SameRead(s, t) /\ t.pages = s.pages /\ t.overlay = s.overlay
        /\ t.position = s.position /\ t.overflow = s.overflow
    BY <1>3 DEF Sessions, SamePin, SameFlow, SameRead
  <1> QED BY <1>1, <1>2, <1>4, <1>5, <1>6

LEMMA ResetPinGives ==
  ASSUME NEW s \in Sessions
  PROVE  LET t == ResetPin(s)
         IN  /\ t \in Sessions /\ SameContent(s, t) /\ SameFlow(s, t) /\ SameRead(s, t)
             /\ t.generation = s.generation /\ t.through = 0 /\ t.next = None /\ t.hasPage = FALSE
  BY DEF ResetPin, Sessions, Places, SameContent, SameFlow, SameRead

LEMMA FailGives ==
  ASSUME NEW s \in Sessions, s.read \in ReadRecords,
         NEW reason \in {"recovery_limit", "invalid_response", "history_unavailable", "request_failed"}
  PROVE  LET t == Fail(s, reason)
         IN  /\ t \in Sessions /\ SameContent(s, t) /\ SamePin(s, t)
             /\ t.hasBaseline = s.hasBaseline /\ t.opened = s.opened /\ t.reconnect = s.reconnect
             /\ t.status = "error" /\ t.read = None /\ ~t.ask
             /\ t.failed.cursor = s.read.cursor /\ t.failed.rebuilding = s.read.rebuilding
  <1> DEFINE t == Fail(s, reason)
             failed == [cursor |-> s.read.cursor, rebuilding |-> s.read.rebuilding]
  <1>1. failed \in [cursor : Places, rebuilding : BOOLEAN]
    BY DEF ReadRecords
  <1>2. failed.cursor = s.read.cursor /\ failed.rebuilding = s.read.rebuilding
    OBVIOUS
  <1>3. t = [s EXCEPT !.error = reason, !.status = "error", !.lastKnown = TRUE, !.read = None, !.ask = FALSE,
                      !.failed = failed]
    BY DEF Fail
  <1> SUFFICES /\ t \in Sessions /\ SameContent(s, t) /\ SamePin(s, t)
               /\ t.hasBaseline = s.hasBaseline /\ t.opened = s.opened /\ t.reconnect = s.reconnect
               /\ t.status = "error" /\ t.read = None /\ ~t.ask /\ t.failed = failed
    BY <1>2
  <1> HIDE DEF t, failed
  <1>4. t \in Sessions
    BY <1>1, <1>3 DEF Sessions
  <1> QED BY <1>3, <1>4 DEF Sessions, SameContent, SamePin

\* A request for the page at a cursor, or the refusal to make another one.
Asks(s, t, cursor, rebuilding) ==
  /\ t \in Sessions /\ SameContent(s, t) /\ SamePin(s, t)
  /\ t.hasBaseline = s.hasBaseline /\ t.opened = s.opened /\ t.reconnect = s.reconnect
  /\ \/ /\ t.status = "loading" /\ t.ask
        /\ t.read \in ReadRecords /\ t.read.cursor = cursor /\ t.read.rebuilding = rebuilding
     \/ /\ t.status = "error" /\ t.read = None /\ ~t.ask
        /\ t.failed.cursor = cursor /\ t.failed.rebuilding = rebuilding

LEMMA AskGives ==
  ASSUME NEW s \in Sessions, s.read \in ReadRecords, s.status = "loading", NEW cursor \in Places
  PROVE  Asks(s, Ask(s, cursor), cursor, s.read.rebuilding)
  <1> DEFINE read == [s.read EXCEPT !.cursor = cursor, !.count = @ + 1]
             t == [s EXCEPT !.read = read, !.ask = TRUE]
  <1>1. read \in ReadRecords /\ read.cursor = cursor /\ read.rebuilding = s.read.rebuilding
    <2>1. s.read.count + 1 \in Nat
      BY DEF ReadRecords
    <2> QED BY <2>1 DEF ReadRecords
  <1> HIDE DEF read
  <1>2. /\ t \in Sessions /\ SameContent(s, t) /\ SamePin(s, t)
        /\ t.hasBaseline = s.hasBaseline /\ t.opened = s.opened /\ t.reconnect = s.reconnect
        /\ t.status = "loading" /\ t.ask /\ t.read = read
    BY <1>1 DEF Sessions, SameContent, SamePin
  <1>3. [s EXCEPT !.read.cursor = cursor, !.read.count = @ + 1, !.ask = TRUE] = t
    BY DEF Sessions, ReadRecords, read
  <1> HIDE DEF t
  <1>4. Ask(s, cursor) = t \/ Ask(s, cursor) = Fail(t, "recovery_limit")
    BY <1>3 DEF Ask
  <1>5. CASE Ask(s, cursor) = t
    BY <1>1, <1>2, <1>5 DEF Asks
  <1>6. CASE Ask(s, cursor) = Fail(t, "recovery_limit")
    <2> DEFINE u == Fail(t, "recovery_limit")
    <2>1. /\ u \in Sessions /\ SameContent(t, u) /\ SamePin(t, u)
          /\ u.hasBaseline = t.hasBaseline /\ u.opened = t.opened /\ u.reconnect = t.reconnect
          /\ u.status = "error" /\ u.read = None /\ ~u.ask
          /\ u.failed.cursor = cursor /\ u.failed.rebuilding = s.read.rebuilding
      BY <1>1, <1>2, FailGives
    <2> HIDE DEF u
    <2>2. Asks(s, u, cursor, s.read.rebuilding)
      BY <1>2, <2>1 DEF Asks, SameContent, SamePin
    <2> QED BY <1>6, <2>2 DEF u
  <1> QED BY <1>4, <1>5, <1>6

LEMMA RunGives ==
  ASSUME NEW s \in Sessions, NEW cursor \in Places, NEW rebuilding \in BOOLEAN
  PROVE  Asks(s, Run(s, cursor, rebuilding), cursor, rebuilding)
  <1> DEFINE read == [cursor |-> cursor, rebuilding |-> rebuilding, restarted |-> FALSE, count |-> 0]
             t == [s EXCEPT !.status = "loading", !.error = "none", !.read = read]
  <1>1. read \in ReadRecords /\ read.rebuilding = rebuilding
    BY DEF ReadRecords
  <1> HIDE DEF read
  <1>2. /\ t \in Sessions /\ SameContent(s, t) /\ SamePin(s, t)
        /\ t.hasBaseline = s.hasBaseline /\ t.opened = s.opened /\ t.reconnect = s.reconnect
        /\ t.status = "loading" /\ t.read = read
    BY <1>1 DEF Sessions, SameContent, SamePin
  <1>3. Run(s, cursor, rebuilding) = Ask(t, cursor)
    BY DEF Run, read
  <1> HIDE DEF t
  <1>4. Asks(t, Ask(t, cursor), cursor, rebuilding)
    BY <1>1, <1>2, AskGives
  <1> QED BY <1>2, <1>3, <1>4 DEF Asks, SameContent, SamePin

\* All is read again, under what was shown.
Rebuilds(s, t) ==
  /\ t \in Sessions /\ t.pages = {} /\ t.retained # None /\ t.retained.pages = ShownPages(s)
  /\ t.overlay = s.overlay /\ t.position = s.position /\ t.generation = s.generation
  /\ ~t.overflow /\ ~t.hasPage /\ t.next = None
  /\ t.hasBaseline = s.hasBaseline /\ t.opened = s.opened /\ t.reconnect = s.reconnect
  /\ \/ /\ t.status = "loading" /\ t.ask
        /\ t.read \in ReadRecords /\ t.read.cursor = None /\ t.read.rebuilding
     \/ /\ t.status = "error" /\ t.read = None /\ ~t.ask
        /\ t.failed.cursor = None /\ t.failed.rebuilding

LEMMA RebuildGives ==
  ASSUME NEW s \in Sessions
  PROVE  Rebuilds(s, Rebuild(s))
  <1> DEFINE a == Cancel(s)
             b == Retain(a)
             c == ResetPin(b)
             d == [c EXCEPT !.pages = {}, !.overflow = FALSE]
  <1>1. /\ a \in Sessions /\ SameContent(s, a) /\ SamePin(s, a) /\ SameFlow(s, a)
    BY CancelGives
  <1>2. Rebuild(s) = Run(d, None, TRUE)
    BY DEF Rebuild
  <1> HIDE DEF a
  <1>3. /\ b \in Sessions /\ SamePin(a, b) /\ SameFlow(a, b)
        /\ b.retained \in Retentions /\ b.retained # None /\ b.retained.pages = ShownPages(a)
        /\ b.overlay = a.overlay /\ b.position = a.position
    BY <1>1, RetainGives
  <1> HIDE DEF b
  <1>4. /\ c \in Sessions /\ SameContent(b, c) /\ SameFlow(b, c)
        /\ c.generation = b.generation /\ c.next = None /\ c.hasPage = FALSE
    BY <1>3, ResetPinGives
  <1> HIDE DEF c
  <1>5. /\ d \in Sessions /\ d.pages = {} /\ d.overflow = FALSE /\ d.retained = c.retained
        /\ d.overlay = c.overlay /\ d.position = c.position /\ SamePin(c, d) /\ SameFlow(c, d)
    BY <1>4 DEF Sessions, SamePin, SameFlow
  <1> HIDE DEF d
  <1>6. Asks(d, Run(d, None, TRUE), None, TRUE)
    BY <1>5, RunGives DEF Places
  <1>7. ShownPages(a) = ShownPages(s)
    BY <1>1 DEF ShownPages, SameContent
  <1> DEFINE t == Run(d, None, TRUE)
  <1> HIDE DEF t
  <1>8. Asks(d, t, None, TRUE)
    BY <1>6 DEF t
  <1>9. /\ t \in Sessions /\ t.pages = d.pages /\ t.retained = d.retained /\ t.overlay = d.overlay
        /\ t.position = d.position /\ t.overflow = d.overflow /\ t.generation = d.generation
        /\ t.hasPage = d.hasPage /\ t.next = d.next
        /\ t.hasBaseline = d.hasBaseline /\ t.opened = d.opened /\ t.reconnect = d.reconnect
    BY <1>8 DEF Asks, SameContent, SamePin
  <1>10. \/ /\ t.status = "loading" /\ t.ask
            /\ t.read \in ReadRecords /\ t.read.cursor = None /\ t.read.rebuilding
         \/ /\ t.status = "error" /\ t.read = None /\ ~t.ask
            /\ t.failed.cursor = None /\ t.failed.rebuilding
    BY <1>8 DEF Asks
  <1>11. /\ d.retained # None /\ d.retained.pages = ShownPages(s) /\ d.overlay = s.overlay
         /\ d.position = s.position /\ d.generation = s.generation /\ d.next = None /\ d.hasPage = FALSE
         /\ d.hasBaseline = s.hasBaseline /\ d.opened = s.opened /\ d.reconnect = s.reconnect
    BY <1>1, <1>3, <1>4, <1>5, <1>7 DEF SameContent, SamePin, SameFlow
  <1>12. Rebuilds(s, t)
    BY <1>5, <1>9, <1>10, <1>11 DEF Rebuilds
  <1> QED BY <1>2, <1>12 DEF t

-----------------------------------------------------------------------------
(* What the operations keep *)

\* What is held is of the generation, and the entry that is read is shown.
Content(s, r, n) ==
  /\ s \in Sessions
  /\ s.position # 0 => s.position \in ShownPages(s) \cup FactsOf(s.overlay)
  /\ s.generation <= r.generation
  /\ s.pages \subseteq Past(r, s.generation) /\ ShownPages(s) \subseteq Past(r, s.generation)
  /\ Of(s.overlay, Past(r, s.generation))
  /\ n \subseteq Past(r, s.generation)

LEMMA ContentOf ==
  ASSUME NEW s, NEW r, NEW n, Sound(s, r, n)
  PROVE  Content(s, r, n)
  BY DEF Sound, Content, Anchored, Dated, Covered, ShownPages

LEMMA ReadsAre ==
  ASSUME NEW s \in Sessions, s.read # None
  PROVE  s.read \in ReadRecords
  BY DEF Sessions

LEMMA NoRead == None \notin ReadRecords
  <1>1. SUFFICES ASSUME None \in ReadRecords PROVE FALSE
    OBVIOUS
  <1>2. DOMAIN None = {"none"} /\ DOMAIN None = {"cursor", "rebuilding", "restarted", "count"}
    BY <1>1 DEF None, ReadRecords
  <1> QED BY <1>2

\* A session without its baseline keeps what was shown.
LEMMA WaitingHolds ==
  ASSUME NEW s, NEW t, NEW r, NEW n, Content(s, r, n), ~s.opened => Empty(s), Pinned(s), Dated(s, r),
         t \in Sessions, t.status = "waiting_for_baseline", t.read = None, ~t.hasBaseline,
         t.retained # None, t.retained.pages = ShownPages(s),
         t.pages = s.pages, t.overlay = s.overlay, t.position = s.position, t.overflow = s.overflow,
         t.generation = s.generation, t.opened = s.opened,
         SamePin(s, t) \/ (t.hasPage = FALSE /\ t.next = None)
  PROVE  Sound(t, r, n)
  <1>1. Phases(t)
    BY DEF Phases, Active
  <1>2. ShownPages(t) = ShownPages(s)
    BY DEF ShownPages
  <1>3. Anchored(t)
    BY <1>2 DEF Anchored, Content
  <1>4. ~t.opened => Empty(t)
    <2>1. Empty(s) => ShownPages(s) = {}
      BY DEF Empty, ShownPages
    <2>2. Empty(s) => ~t.hasPage
      BY DEF Empty, SamePin
    <2> QED BY <2>1, <2>2 DEF Empty
  <1>5. Pinned(t)
    BY DEF Pinned, PinOK, SamePin
  <1>6. Dated(t, r)
    BY DEF Dated, SamePin, Content
  <1>7. Whole(t, r) /\ Covered(t, r, n)
    BY DEF Whole, Covered, Active, Content
  <1> QED BY <1>1, <1>3, <1>4, <1>5, <1>6, <1>7 DEF Sound

LEMMA InterruptedHolds ==
  ASSUME NEW s, NEW r, NEW n, Sound(s, r, n)
  PROVE  LET t == Interrupted(s)
         IN  /\ Sound(t, r, n) /\ ~Active(t) /\ t.read = None /\ t.overlay = s.overlay
             /\ t.generation = s.generation /\ t.reconnect = s.reconnect
             /\ (t.opened = s.opened) /\ (t.status = "closed" <=> s.status = "closed")
             /\ (~s.ask => ~t.ask)
  <1> DEFINE t == Interrupted(s)
             a == Cancel(s)
             b == Retain(a)
             c == [b EXCEPT !.hasBaseline = FALSE, !.status = "waiting_for_baseline"]
  <1>1. s \in Sessions
    BY DEF Sound
  <1>2. CASE s.status = "closed"
    BY <1>2 DEF Interrupted, Active, Sound, Phases
  <1>3. CASE s.status # "closed"
    <2>1. t = c
      BY <1>3 DEF Interrupted
    <2>2. /\ a \in Sessions /\ SameContent(s, a) /\ SamePin(s, a) /\ SameFlow(s, a) /\ a.read = None /\ ~a.ask
      BY <1>1, CancelGives
    <2> HIDE DEF a
    <2>3. /\ b \in Sessions /\ SamePin(a, b) /\ SameFlow(a, b) /\ SameRead(a, b)
          /\ b.retained \in Retentions /\ b.retained # None /\ b.retained.pages = ShownPages(a)
          /\ b.pages = a.pages /\ b.overlay = a.overlay /\ b.position = a.position
          /\ b.overflow = a.overflow
      BY <2>2, RetainGives
    <2> HIDE DEF b
    <2>4. /\ c \in Sessions /\ SameContent(b, c) /\ SamePin(b, c) /\ SameRead(b, c)
          /\ c.status = "waiting_for_baseline" /\ c.hasBaseline = FALSE /\ c.opened = b.opened
          /\ c.reconnect = b.reconnect
      BY <2>3 DEF Sessions, SameContent, SamePin, SameRead
    <2> HIDE DEF c
    <2>5. ShownPages(a) = ShownPages(s)
      BY <2>2 DEF ShownPages, SameContent
    <2>6. /\ c.read = None /\ ~c.ask /\ c.retained # None /\ c.retained.pages = ShownPages(s)
          /\ c.pages = s.pages /\ c.overlay = s.overlay /\ c.position = s.position
          /\ c.overflow = s.overflow /\ c.generation = s.generation /\ c.opened = s.opened
          /\ c.reconnect = s.reconnect /\ SamePin(s, c)
      BY <2>2, <2>3, <2>4, <2>5 DEF SameContent, SamePin, SameFlow, SameRead
    <2>7. Content(s, r, n)
      BY ContentOf
    <2>8. Sound(c, r, n)
      BY <2>4, <2>6, <2>7, WaitingHolds DEF Sound
    <2> QED BY <1>3, <2>1, <2>4, <2>6, <2>8 DEF Active
  <1> QED BY <1>2, <1>3

\* The session gives up and asks for a new baseline.
LEMMA AwaitHolds ==
  ASSUME NEW s, NEW r, NEW n, Sound(s, r, n)
  PROVE  LET t == AwaitBaseline(s)
         IN  /\ Sound(t, r, n) /\ ~Active(t) /\ t.read = None /\ t.overlay = s.overlay
             /\ t.generation = s.generation /\ t.reconnect
             /\ t.opened = s.opened /\ t.status = "waiting_for_baseline" /\ ~t.ask
  <1> DEFINE t == AwaitBaseline(s)
             a == Retain(s)
             b == Cancel(a)
             c == ResetPin(b)
             d == [c EXCEPT !.hasBaseline = FALSE, !.status = "waiting_for_baseline", !.reconnect = TRUE]
  <1>1. s \in Sessions
    BY DEF Sound
  <1>2. t = d
    BY DEF AwaitBaseline
  <1>3. /\ a \in Sessions /\ SamePin(s, a) /\ SameFlow(s, a)
        /\ a.retained \in Retentions /\ a.retained # None /\ a.retained.pages = ShownPages(s)
        /\ a.pages = s.pages /\ a.overlay = s.overlay /\ a.position = s.position
        /\ a.overflow = s.overflow
    BY <1>1, RetainGives
  <1> HIDE DEF a
  <1>4. /\ b \in Sessions /\ SameContent(a, b) /\ SamePin(a, b) /\ SameFlow(a, b) /\ b.read = None /\ ~b.ask
    BY <1>3, CancelGives
  <1> HIDE DEF b
  <1>5. /\ c \in Sessions /\ SameContent(b, c) /\ SameFlow(b, c) /\ SameRead(b, c)
        /\ c.generation = b.generation /\ c.next = None /\ c.hasPage = FALSE
    BY <1>4, ResetPinGives
  <1> HIDE DEF c
  <1>6. /\ d \in Sessions /\ SameContent(c, d) /\ SamePin(c, d) /\ SameRead(c, d)
        /\ d.status = "waiting_for_baseline" /\ d.hasBaseline = FALSE /\ d.opened = c.opened /\ d.reconnect
    BY <1>5 DEF Sessions, SameContent, SamePin, SameRead
  <1> HIDE DEF d
  <1>7. /\ d.read = None /\ ~d.ask /\ d.retained # None /\ d.retained.pages = ShownPages(s)
        /\ d.pages = s.pages /\ d.overlay = s.overlay /\ d.position = s.position
        /\ d.overflow = s.overflow /\ d.generation = s.generation /\ d.opened = s.opened
        /\ d.hasPage = FALSE /\ d.next = None
    BY <1>3, <1>4, <1>5, <1>6 DEF SameContent, SamePin, SameFlow, SameRead
  <1>8. Content(s, r, n)
    BY ContentOf
  <1>9. Sound(d, r, n)
    BY <1>6, <1>7, <1>8, WaitingHolds DEF Sound
  <1> QED BY <1>2, <1>6, <1>7, <1>9 DEF Active

\* All is read again, and what was shown is kept until it is.
LEMMA RebuildHolds ==
  ASSUME NEW s, NEW t, NEW r, NEW n, Content(s, r, n), s.opened, s.hasBaseline, Rebuilds(s, t)
  PROVE  Sound(t, r, n) /\ Active(t) /\ (t.read # None <=> t.ask)
  <1>1. t.read = None \/ t.read \in ReadRecords
    BY DEF Rebuilds
  <1>2. Phases(t) /\ Active(t) /\ (t.read # None <=> t.ask)
    BY NoRead DEF Phases, Active, Rebuilds
  <1>3. ShownPages(t) = ShownPages(s)
    BY DEF ShownPages, Rebuilds
  <1>4. Anchored(t)
    BY <1>3, NoRead DEF Anchored, Content, Rebuilds
  <1>5. Pinned(t)
    BY DEF Pinned, PinOK, Rebuilds
  <1>6. Dated(t, r)
    BY DEF Dated, Content, Rebuilds
  <1>7. Whole(t, r) /\ Covered(t, r, n)
    BY DEF Whole, Covered, Content, Rebuilds
  <1> QED BY <1>2, <1>4, <1>5, <1>6, <1>7 DEF Sound, Rebuilds

-----------------------------------------------------------------------------
(* The stream *)

\* Nothing but the overlay is another.
SameRest(s, t) ==
  /\ t.pages = s.pages /\ t.retained = s.retained /\ t.position = s.position
  /\ SamePin(s, t) /\ SameFlow(s, t) /\ SameRead(s, t)

LEMMA BoundedGives ==
  ASSUME NEW s \in Sessions
  PROVE  LET t == Bounded(s)
         IN  /\ t \in Sessions /\ SameRest(s, t) /\ t.overlay \subseteq s.overlay
             /\ (s.position \in FactsOf(s.overlay) => s.position \in FactsOf(t.overlay))
             /\ (~t.overflow => ~s.overflow /\ t.overlay = s.overlay)
  <1> DEFINE anchor == {item \in s.overlay : item.fact = s.position}
             n == OverlayLimit - Cardinality(anchor)
             newest == Newest(s.overlay \ anchor, n)
             over == newest \cup anchor
             t == [s EXCEPT !.overflow = TRUE, !.overlay = over]
  <1>1. s.overlay \in SUBSET Item
    BY DEF Sessions
  <1>2. newest \subseteq s.overlay \ anchor
    <2> HIDE DEF n
    <2> QED BY NewestHolds
  <1> HIDE DEF newest
  <1>3. over \subseteq s.overlay /\ (s.position \in FactsOf(s.overlay) => s.position \in FactsOf(over))
    BY <1>2 DEF FactsOf
  <1>4. Bounded(s) = s \/ Bounded(s) = t
    BY DEF Bounded, newest
  <1> HIDE DEF over
  <1>5. t \in Sessions /\ SameRest(s, t) /\ t.overlay = over /\ t.overflow
    BY <1>1, <1>3 DEF Sessions, SameRest, SamePin, SameFlow, SameRead
  <1> HIDE DEF t
  <1>6. SameRest(s, s)
    BY DEF SameRest, SamePin, SameFlow, SameRead
  <1> QED BY <1>3, <1>4, <1>5, <1>6

LEMMA OverlaidGives ==
  ASSUME NEW s \in Sessions, NEW items \in SUBSET Item, NEW live \in BOOLEAN
  PROVE  LET t == Overlaid(s, items, live)
         IN  /\ t \in Sessions /\ SameRest(s, t) /\ t.overlay \subseteq Join(s.overlay, items)
             /\ (s.position \in FactsOf(s.overlay) => s.position \in FactsOf(t.overlay))
             /\ (~t.overflow => ~s.overflow /\ t.overlay = Join(s.overlay, items))
  <1> DEFINE fresh == {item \in items : /\ item.fact \notin FactsOf(s.overlay) \cup s.pages
                                        /\ s.retained # None => item.fact \notin s.retained.pages}
             new == s.hasNew \/ (live /\ s.position # 0 /\ fresh # {})
             over == Join(s.overlay, items)
             a == [s EXCEPT !.hasNew = new, !.overlay = over]
             t == Bounded(a)
  <1>1. s.overlay \in SUBSET Item
    BY DEF Sessions
  <1>2. over \in SUBSET Item /\ FactsOf(over) = FactsOf(s.overlay) \cup FactsOf(items)
    BY <1>1, JoinHolds
  <1>3. new \in BOOLEAN
    BY DEF Sessions
  <1>4. Overlaid(s, items, live) = t
    BY DEF Overlaid
  <1> HIDE DEF over, new
  <1>5. a \in Sessions /\ SameRest(s, a) /\ a.overlay = over /\ a.overflow = s.overflow
    BY <1>2, <1>3 DEF Sessions, SameRest, SamePin, SameFlow, SameRead
  <1> HIDE DEF a
  <1>6. /\ t \in Sessions /\ SameRest(a, t) /\ t.overlay \subseteq a.overlay
        /\ (a.position \in FactsOf(a.overlay) => a.position \in FactsOf(t.overlay))
        /\ (~t.overflow => ~a.overflow /\ t.overlay = a.overlay)
    BY <1>5, BoundedGives
  <1> HIDE DEF t
  <1>7. SameRest(s, t) /\ a.position = s.position
    BY <1>5, <1>6 DEF SameRest, SamePin, SameFlow, SameRead
  <1> QED BY <1>2, <1>4, <1>5, <1>6, <1>7 DEF over

LEMMA RegeneratedGives ==
  ASSUME NEW s \in Sessions
  PROVE  LET t == Regenerated(s)
         IN  /\ t \in Sessions /\ SameFlow(s, t) /\ t.generation = s.generation
             /\ t.pages = {} /\ t.retained = None /\ t.overlay = {} /\ t.position = 0 /\ ~t.overflow
             /\ t.hasPage = FALSE /\ t.next = None /\ t.read = None /\ ~t.ask
  <1> DEFINE a == Cancel(s)
             b == ResetPin(a)
             t == [b EXCEPT !.pages = {}, !.retained = None, !.overlay = {}, !.position = 0,
                            !.overflow = FALSE, !.hasNew = FALSE, !.lastKnown = FALSE]
  <1>1. a \in Sessions /\ SamePin(s, a) /\ SameFlow(s, a) /\ a.read = None /\ ~a.ask
    BY CancelGives
  <1>2. Regenerated(s) = t
    BY DEF Regenerated
  <1> HIDE DEF a
  <1>3. /\ b \in Sessions /\ SameFlow(a, b) /\ SameRead(a, b)
        /\ b.generation = a.generation /\ b.next = None /\ b.hasPage = FALSE
    BY <1>1, ResetPinGives
  <1> HIDE DEF b
  <1>4. /\ t \in Sessions /\ SameFlow(b, t) /\ t.generation = b.generation
        /\ t.pages = {} /\ t.retained = None /\ t.overlay = {} /\ t.position = 0 /\ t.overflow = FALSE
        /\ t.hasPage = FALSE /\ t.next = None /\ SameRead(b, t)
    BY <1>3 DEF Sessions, SameFlow, SameRead
  <1> HIDE DEF t
  <1> QED BY <1>1, <1>2, <1>3, <1>4 DEF SamePin, SameFlow, SameRead

LEMMA DurableItem ==
  ASSUME NEW item \in Item, item.durable
  PROVE  item = [fact |-> item.fact, durable |-> TRUE]
  <1>1. item.durable \in BOOLEAN /\ item = [fact |-> item.fact, durable |-> item.durable]
    BY DEF Item
  <1>2. item.durable = TRUE
    BY <1>1
  <1> QED BY <1>1, <1>2

\* The facts an update gives as durable.
Given(items) == {item.fact : item \in {i \in items : i.durable}}

\* Of another generation than its last one, a session knows only what it is given now.
Seen(s, g, n, items) == Given(items) \cup (IF g = s.generation THEN n ELSE {})

LEMMA HeldJoined ==
  ASSUME NEW A \in SUBSET Item, NEW B \in SUBSET Item, NEW r, NEW through
  PROVE  /\ \A f : Held(f, through, A, r) => Held(f, through, Join(A, B), r)
         /\ \A f \in Given(B) : Held(f, through, Join(A, B), r)
  <1>1. \A item \in A \cup B : item.durable => item \in Join(A, B)
    BY JoinHolds
  <1>2. ASSUME NEW f \in Given(B) PROVE Held(f, through, Join(A, B), r)
    <2>1. PICK item \in B : item.durable /\ item.fact = f
      BY <1>2 DEF Given
    <2>2. item \in Join(A, B) /\ item = [fact |-> f, durable |-> TRUE]
      BY <1>1, <2>1, DurableItem
    <2> QED BY <2>2 DEF Held
  <1>3. ASSUME NEW f, Held(f, through, A, r) PROVE Held(f, through, Join(A, B), r)
    BY <1>1, <1>3 DEF Held
  <1> QED BY <1>2, <1>3

LEMMA GivenOf ==
  ASSUME NEW items, NEW X, Of(items, X)
  PROVE  Given(items) \subseteq X
  BY DEF Given, Of

UpdateOK(update, r) ==
  /\ update \in Updates /\ update.generation <= r.generation
  /\ Of(update.items, Past(r, update.generation))

\* What an update adds to the session, before its pages are asked for again.
Taken(s, update) ==
  LET based == IF Changed(s, update) THEN Regenerated(s) ELSE s
      current == [based EXCEPT !.generation = IF update.generation # 0 THEN update.generation ELSE @]
      merged == Overlaid(current, update.items, update.kind = "addition")
  IN  [merged EXCEPT !.hasBaseline = update.kind = "baseline" \/ Changed(s, update) \/ @]

LEMMA TakenGives ==
  ASSUME NEW s \in Sessions, NEW update \in Updates
  PROVE  LET t == Taken(s, update)
             b == IF Changed(s, update) THEN Regenerated(s) ELSE s
         IN  /\ t \in Sessions
             /\ t.generation = IF update.generation # 0 THEN update.generation ELSE s.generation
             /\ t.overlay \subseteq Join(b.overlay, update.items)
             /\ (b.position \in FactsOf(b.overlay) => t.position \in FactsOf(t.overlay))
             /\ (~t.overflow => ~b.overflow /\ t.overlay = Join(b.overlay, update.items))
             /\ t.pages = b.pages /\ t.retained = b.retained /\ t.position = b.position
             /\ t.through = b.through /\ t.next = b.next /\ t.hasPage = b.hasPage
             /\ t.read = b.read /\ t.ask = b.ask
             /\ t.status = s.status /\ t.opened = s.opened /\ t.reconnect = s.reconnect
             /\ t.failed = s.failed
             /\ t.hasBaseline = (update.kind = "baseline" \/ Changed(s, update) \/ s.hasBaseline)
  <1> DEFINE b == IF Changed(s, update) THEN Regenerated(s) ELSE s
             g == IF update.generation # 0 THEN update.generation ELSE s.generation
             c == [b EXCEPT !.generation = g]
             live == update.kind = "addition"
             m == Overlaid(c, update.items, live)
             h == update.kind = "baseline" \/ Changed(s, update) \/ m.hasBaseline
             t == [m EXCEPT !.hasBaseline = h]
  <1>1. update.items \in SUBSET Item /\ update.generation \in Known
    BY DEF Updates
  <1>2. b \in Sessions /\ SameFlow(s, b) /\ b.generation = s.generation
    BY RegeneratedGives DEF SameFlow
  <1>3. Taken(s, update) = t
    BY <1>2 DEF Taken
  <1> HIDE DEF b
  <1>4. g \in Known
    BY <1>1 DEF Sessions
  <1> HIDE DEF g
  <1>5. /\ c \in Sessions /\ SameContent(b, c) /\ SameFlow(b, c) /\ SameRead(b, c) /\ c.generation = g
        /\ c.through = b.through /\ c.next = b.next /\ c.hasPage = b.hasPage
    BY <1>2, <1>4 DEF Sessions, SameContent, SameFlow, SameRead
  <1> HIDE DEF c
  <1>6. live \in BOOLEAN
    OBVIOUS
  <1> HIDE DEF live
  <1>7. /\ m \in Sessions /\ SameRest(c, m) /\ m.overlay \subseteq Join(c.overlay, update.items)
        /\ (c.position \in FactsOf(c.overlay) => c.position \in FactsOf(m.overlay))
        /\ (~m.overflow => ~c.overflow /\ m.overlay = Join(c.overlay, update.items))
    BY <1>1, <1>5, <1>6, OverlaidGives
  <1> HIDE DEF m
  <1>8. h \in BOOLEAN
    BY <1>7 DEF Sessions
  <1>9. h = (update.kind = "baseline" \/ Changed(s, update) \/ s.hasBaseline)
    BY <1>2, <1>5, <1>7 DEF SameFlow, SameRest
  <1> HIDE DEF h
  <1>10. /\ t \in Sessions /\ SameContent(m, t) /\ SamePin(m, t) /\ SameRead(m, t) /\ t.hasBaseline = h
         /\ t.status = m.status /\ t.opened = m.opened /\ t.reconnect = m.reconnect /\ t.failed = m.failed
    BY <1>7, <1>8 DEF Sessions, SameContent, SamePin, SameRead
  <1> HIDE DEF t
  <1>11. /\ t.generation = g /\ t.pages = b.pages /\ t.retained = b.retained /\ t.position = b.position
         /\ t.overlay = m.overlay /\ t.overflow = m.overflow
         /\ t.through = b.through /\ t.next = b.next /\ t.hasPage = b.hasPage
         /\ t.read = b.read /\ t.ask = b.ask
         /\ c.overlay = b.overlay /\ c.position = b.position /\ c.overflow = b.overflow
    BY <1>5, <1>7, <1>10 DEF SameContent, SamePin, SameRead, SameRest
  <1>12. t.status = s.status /\ t.opened = s.opened /\ t.reconnect = s.reconnect /\ t.failed = s.failed
    BY <1>2, <1>5, <1>7, <1>10 DEF SameFlow, SameRest
  <1> SUFFICES /\ t \in Sessions /\ t.generation = g
               /\ t.overlay \subseteq Join(b.overlay, update.items)
               /\ (b.position \in FactsOf(b.overlay) => t.position \in FactsOf(t.overlay))
               /\ (~t.overflow => ~b.overflow /\ t.overlay = Join(b.overlay, update.items))
               /\ t.pages = b.pages /\ t.retained = b.retained /\ t.position = b.position
               /\ t.through = b.through /\ t.next = b.next /\ t.hasPage = b.hasPage
               /\ t.read = b.read /\ t.ask = b.ask
               /\ t.status = s.status /\ t.opened = s.opened /\ t.reconnect = s.reconnect
               /\ t.failed = s.failed
               /\ t.hasBaseline = h
    BY <1>3, <1>9 DEF b, g
  <1> QED BY <1>7, <1>10, <1>11, <1>12

LEMMA TakenHolds ==
  ASSUME NEW s, NEW r, NEW n, NEW update, Sound(s, r, n), UpdateOK(update, r)
  PROVE  LET t == Taken(s, update)
             m == Seen(s, t.generation, n, update.items)
         IN  /\ Content(t, r, m)
             /\ (~Changed(s, update) /\ update.kind # "baseline" /\ s.opened) =>
                  /\ Sound(t, r, m) /\ t.read = s.read /\ t.ask = s.ask
                  /\ \A c : Awaited(c, s, r, n) => Awaited(c, t, r, m)
  <1> DEFINE t == Taken(s, update)
             m == Seen(s, t.generation, n, update.items)
             b == IF Changed(s, update) THEN Regenerated(s) ELSE s
             P == Past(r, t.generation)
  <1>1. s \in Sessions /\ update \in Updates /\ update.items \in SUBSET Item /\ s.overlay \in SUBSET Item
    BY DEF Sound, UpdateOK, Updates, Sessions
  <1>2. /\ t \in Sessions
        /\ t.generation = IF update.generation # 0 THEN update.generation ELSE s.generation
        /\ t.overlay \subseteq Join(b.overlay, update.items)
        /\ (b.position \in FactsOf(b.overlay) => t.position \in FactsOf(t.overlay))
        /\ (~t.overflow => ~b.overflow /\ t.overlay = Join(b.overlay, update.items))
        /\ t.pages = b.pages /\ t.retained = b.retained /\ t.position = b.position
        /\ t.through = b.through /\ t.next = b.next /\ t.hasPage = b.hasPage
        /\ t.read = b.read /\ t.ask = b.ask
        /\ t.status = s.status /\ t.opened = s.opened /\ t.reconnect = s.reconnect
        /\ t.failed = s.failed
        /\ t.hasBaseline = (update.kind = "baseline" \/ Changed(s, update) \/ s.hasBaseline)
    BY <1>1, TakenGives
  <1> HIDE DEF t
  <1>3. /\ b \in Sessions
        /\ Changed(s, update) => /\ b.pages = {} /\ b.retained = None /\ b.overlay = {} /\ b.position = 0
        /\ ~Changed(s, update) => b = s
    BY <1>1, RegeneratedGives
  <1> HIDE DEF b
  <1>4. Content(s, r, n)
    BY ContentOf
  <1>5. Past(r, 0) = {}
    BY DEF Past, Generations
  <1>6. ~Changed(s, update) => s.generation = 0 \/ t.generation = s.generation
    BY <1>2 DEF Changed
  <1>7. ~Changed(s, update) => Past(r, s.generation) \subseteq P
    BY <1>5, <1>6
  <1>8. Past(r, update.generation) \subseteq P
    BY <1>2, <1>5
  <1>9. Of(update.items, P)
    BY <1>8, OfMore DEF UpdateOK
  <1>10. Of(b.overlay, P)
    <2>1. CASE Changed(s, update)
      BY <1>3, <2>1 DEF Of
    <2>2. CASE ~Changed(s, update)
      BY <1>3, <1>4, <1>7, <2>2, OfMore DEF Content
    <2> QED BY <2>1, <2>2
  <1>11. Of(t.overlay, P)
    <2>1. b.overlay \in SUBSET Item
      BY <1>3 DEF Sessions
    <2>2. Of(Join(b.overlay, update.items), P)
      BY <1>1, <1>9, <1>10, <2>1, JoinOf
    <2> QED BY <1>2, <2>2 DEF Of
  <1>12. m \subseteq P
    <2>1. Given(update.items) \subseteq P
      BY <1>9, GivenOf
    <2>2. t.generation = s.generation => n \subseteq P
      BY <1>4 DEF Content
    <2> QED BY <2>1, <2>2 DEF Seen
  <1> HIDE DEF m
  <1>13. t.pages \subseteq P /\ ShownPages(t) \subseteq P
    <2>1. CASE Changed(s, update)
      BY <1>2, <1>3, <2>1 DEF ShownPages
    <2>2. CASE ~Changed(s, update)
      BY <1>2, <1>3, <1>4, <1>7, <2>2 DEF ShownPages, Content
    <2> QED BY <2>1, <2>2
  <1>14. t.position # 0 => t.position \in ShownPages(t) \cup FactsOf(t.overlay)
    <2>1. CASE Changed(s, update)
      BY <1>2, <1>3, <2>1
    <2>2. CASE ~Changed(s, update)
      <3>1. ShownPages(t) = ShownPages(s)
        BY <1>2, <1>3, <2>2 DEF ShownPages
      <3> QED BY <1>2, <1>3, <1>4, <2>2, <3>1 DEF Content
    <2> QED BY <2>1, <2>2
  <1>15. t.generation <= r.generation
    BY <1>2, <1>4 DEF Content, UpdateOK
  <1>16. Content(t, r, m)
    BY <1>2, <1>11, <1>12, <1>13, <1>14, <1>15 DEF Content
  <1>17. ASSUME ~Changed(s, update), update.kind # "baseline", s.opened
         PROVE  /\ Sound(t, r, m) /\ t.read = s.read /\ t.ask = s.ask
                /\ \A c : Awaited(c, s, r, n) => Awaited(c, t, r, m)
    <2>1. /\ t.pages = s.pages /\ t.retained = s.retained /\ t.position = s.position
          /\ t.through = s.through /\ t.next = s.next /\ t.hasPage = s.hasPage
          /\ t.read = s.read /\ t.ask = s.ask /\ t.hasBaseline = s.hasBaseline
          /\ (~t.overflow => ~s.overflow /\ t.overlay = Join(s.overlay, update.items))
      <3>1. b = s
        BY <1>3, <1>17
      <3>2. t.hasBaseline = s.hasBaseline
        <4>1. s.hasBaseline \in BOOLEAN
          BY <1>1 DEF Sessions
        <4>2. t.hasBaseline = (FALSE \/ FALSE \/ s.hasBaseline)
          BY <1>2, <1>17
        <4> QED BY ONLY <4>1, <4>2
      <3> QED BY ONLY <1>2, <3>1, <3>2
    <2>2. s.hasPage => t.generation = s.generation
      BY <1>6, <1>17 DEF Sound, Pinned, PinOK
    <2>3. Phases(t)
      BY <1>2, <2>1 DEF Sound, Phases, Active
    <2>4. Pinned(t)
      <3>1. s.next # None => t.generation = s.generation
        BY <2>2 DEF Sound, Pinned, PinOK
      <3> QED BY <1>2, <2>1, <2>2, <3>1 DEF Sound, Pinned, PinOK
    <2>5. Anchored(t)
      BY <1>2, <1>14, <2>1 DEF Sound, Anchored
    <2>6. Dated(t, r)
      <3>1. t.retained # None => t.retained.pages \subseteq P
        BY <1>13 DEF ShownPages
      <3>2. t.hasPage /\ t.generation = r.generation => t.through <= Len(r.stored)
        BY <2>1, <2>2 DEF Sound, Dated
      <3> QED BY <1>11, <1>13, <1>15, <3>1, <3>2 DEF Dated
    <2>7. Whole(t, r)
      BY <1>2, <2>1, <2>2 DEF Sound, Whole, Active
    <2>8. \A through : ~t.overflow =>
             /\ \A f : Held(f, through, s.overlay, r) => Held(f, through, t.overlay, r)
             /\ \A f \in Given(update.items) : Held(f, through, t.overlay, r)
      BY <1>1, <2>1, HeldJoined
    <2>9. Covered(t, r, m)
      <3>1. ASSUME Active(t), t.hasPage, ~t.overflow, NEW f \in m PROVE Held(f, t.through, t.overlay, r)
        <4>1. Active(s) /\ s.hasPage /\ ~s.overflow /\ t.generation = s.generation
          BY <1>2, <2>1, <2>2, <3>1 DEF Active
        <4>2. CASE f \in n
          BY <2>1, <2>8, <3>1, <4>1, <4>2 DEF Sound, Covered
        <4>3. CASE f \in Given(update.items)
          BY <2>8, <3>1, <4>3
        <4> QED BY <4>1, <4>2, <4>3 DEF m, Seen
      <3> QED BY <1>12, <3>1 DEF Covered
    <2>10. ASSUME NEW c, Awaited(c, s, r, n) PROVE Awaited(c, t, r, m)
      <3>1. ASSUME IsPage(c.answer), c.cursor = None, t.generation = r.generation, ~t.overflow, NEW f \in m
            PROVE  Held(f, c.answer.through, t.overlay, r)
        <4>1. CASE f \in Given(update.items)
          BY <2>8, <3>1, <4>1
        <4>2. CASE f \in n /\ t.generation = s.generation
          BY <2>1, <2>8, <2>10, <3>1, <4>2 DEF Awaited
        <4> QED BY <4>1, <4>2 DEF m, Seen
      <3> QED BY <2>1, <2>10, <3>1 DEF Awaited
    <2>11. t.opened
      BY <1>2, <1>17
    <2> QED BY <1>2, <2>1, <2>3, <2>4, <2>5, <2>6, <2>7, <2>9, <2>10, <2>11 DEF Sound
  <1> QED BY <1>16, <1>17 DEF m, t

\* A page is asked for, or there were too many.
Begun(s, t, r, n) ==
  /\ Sound(t, r, n) /\ Active(t) /\ (t.read # None <=> t.ask) /\ t.overlay = s.overlay
  /\ t.generation = s.generation /\ t.reconnect = s.reconnect

\* A session whose pages go down to its next cursor.
Paging(s, r, n) ==
  /\ Content(s, r, n) /\ PinOK(s) /\ Dated(s, r) /\ Whole(s, r) /\ Covered(s, r, n)
  /\ (s.hasPage => Active(s)) /\ s.hasBaseline

LEMMA RebuildBegins ==
  ASSUME NEW s, NEW r, NEW n, Content(s, r, n), s.opened, s.hasBaseline
  PROVE  Begun(s, Rebuild(s), r, n)
  <1> DEFINE t == Rebuild(s)
  <1>1. Rebuilds(s, t)
    BY RebuildGives DEF Content
  <1> HIDE DEF t
  <1>2. Sound(t, r, n) /\ Active(t) /\ (t.read # None <=> t.ask)
    BY <1>1, RebuildHolds
  <1> QED BY <1>1, <1>2 DEF Begun, Rebuilds, t

LEMMA AsksBegins ==
  ASSUME NEW s, NEW t, NEW r, NEW n, Paging(s, r, n), s.opened, NEW rebuilding \in BOOLEAN,
         s.retained # None /\ ~rebuilding => s.retained.pages \subseteq s.pages,
         Asks(s, t, s.next, rebuilding)
  PROVE  Begun(s, t, r, n)
  <1>1. /\ t \in Sessions /\ SameContent(s, t) /\ SamePin(s, t)
        /\ t.hasBaseline = s.hasBaseline /\ t.opened = s.opened /\ t.reconnect = s.reconnect
    BY DEF Asks
  <1>2. \/ /\ t.status = "loading" /\ t.ask
           /\ t.read \in ReadRecords /\ t.read.cursor = s.next /\ t.read.rebuilding = rebuilding
        \/ /\ t.status = "error" /\ t.read = None /\ ~t.ask
           /\ t.failed.cursor = s.next /\ t.failed.rebuilding = rebuilding
    BY DEF Asks
  <1>3. Phases(t) /\ Active(t) /\ (t.read # None <=> t.ask)
    BY <1>1, <1>2, NoRead DEF Phases, Active, Paging
  <1>4. ShownPages(t) = ShownPages(s)
    BY <1>1 DEF ShownPages, SameContent
  <1>5. Anchored(t)
    <2>1. t.position # 0 => t.position \in ShownPages(t) \cup FactsOf(t.overlay)
      BY <1>1, <1>4 DEF SameContent, Paging, Content
    <2>2. (\/ t.read # None /\ ~t.read.rebuilding
           \/ t.status = "error" /\ ~t.failed.rebuilding) => ~rebuilding
      BY <1>2, NoRead
    <2> QED BY <1>1, <2>1, <2>2 DEF Anchored, SameContent
  <1>6. Pinned(t)
    BY <1>1, <1>2, NoRead DEF Pinned, PinOK, SamePin, Paging
  <1>7. Dated(t, r)
    BY <1>1 DEF Dated, SamePin, SameContent, Paging
  <1>8. Whole(t, r) /\ Covered(t, r, n)
    BY <1>1 DEF Whole, Covered, SamePin, SameContent, Paging
  <1>9. Sound(t, r, n)
    BY <1>1, <1>3, <1>5, <1>6, <1>7, <1>8 DEF Sound
  <1> QED BY <1>1, <1>3, <1>9 DEF Begun, SamePin, SameContent

LEMMA LoadedBegins ==
  ASSUME NEW s, NEW r, NEW n, Paging(s, r, n), CanLoad(s),
         s.retained # None => s.retained.pages \subseteq s.pages
  PROVE  Begun(s, LoadedNext(s), r, n)
  <1> DEFINE a == [s EXCEPT !.opened = TRUE]
             t == Run(a, s.next, FALSE)
  <1>1. s \in Sessions /\ s.next \in Places
    BY DEF Paging, Content, Sessions
  <1>2. LoadedNext(s) = t
    BY DEF LoadedNext
  <1>3. /\ a \in Sessions /\ SameContent(s, a) /\ SamePin(s, a) /\ SameRead(s, a) /\ a.opened
        /\ a.status = s.status /\ a.hasBaseline = s.hasBaseline /\ a.reconnect = s.reconnect
        /\ a.failed = s.failed
    BY <1>1 DEF Sessions, SameContent, SamePin, SameRead
  <1> HIDE DEF a
  <1>4. Asks(a, t, a.next, FALSE)
    BY <1>1, <1>3, RunGives DEF SamePin
  <1> HIDE DEF t
  <1>5. Paging(a, r, n)
    <2>1. ShownPages(a) = ShownPages(s)
      BY <1>3 DEF ShownPages, SameContent
    <2>2. Content(a, r, n)
      BY <1>3, <2>1 DEF Paging, Content, SameContent, SamePin
    <2>3. PinOK(a)
      BY <1>3 DEF Paging, PinOK, SamePin
    <2>4. Dated(a, r) /\ Whole(a, r) /\ Covered(a, r, n)
      BY <1>3 DEF Paging, Dated, Whole, Covered, Active, SameContent, SamePin
    <2> QED BY <1>3, <2>2, <2>3, <2>4 DEF Paging, Active, SamePin
  <1>6. a.retained # None => a.retained.pages \subseteq a.pages
    BY <1>3 DEF SameContent
  <1>7. Begun(a, t, r, n)
    BY <1>3, <1>4, <1>5, <1>6, AsksBegins
  <1> QED BY <1>2, <1>3, <1>7 DEF Begun, SameContent, SamePin

\* A session of which no request is out begins one when it takes a baseline, and else goes on.
Resumes(s, t, r, n, m) ==
  /\ Sound(t, r, m) /\ (t.ask => t.read # None)
  /\ (t.read # None /\ ~t.ask => /\ t.read = s.read
                                 /\ \A c : Awaited(c, s, r, n) => Awaited(c, t, r, m))

LEMMA OpenedHolds ==
  ASSUME NEW s, NEW r, NEW n, NEW update, Sound(s, r, n), UpdateOK(update, r),
         s.status # "closed", ~s.ask, ~s.reconnect, ~s.opened => update.kind = "baseline"
  PROVE  LET t == Opened(Accepted(s, update))
             m == Seen(s, t.generation, n, update.items)
         IN  /\ Resumes(s, t, r, n, m) /\ t.opened /\ t.status # "closed"
             /\ ~t.reconnect
             /\ t.generation = s.generation => t.overlay \subseteq Join(s.overlay, update.items)
             /\ ~s.opened => LoadedNext(Accepted(s, update)) = t
  <1> DEFINE k == Taken(s, update)
             m == Seen(s, k.generation, n, update.items)
             i == [k EXCEPT !.status = "idle", !.error = "none"]
             t == Opened(Accepted(s, update))
             Done(u) == /\ Resumes(s, u, r, n, m) /\ u.opened /\ u.status # "closed" /\ ~u.reconnect
                        /\ u.generation = k.generation /\ u.overlay = k.overlay
  <1>1. s \in Sessions /\ update \in Updates
    BY DEF Sound, UpdateOK
  <1>2. Accepted(s, update) =
          IF update.kind = "baseline" THEN IF s.opened THEN Rebuild(k) ELSE i
          ELSE IF Changed(s, update) THEN IF s.opened THEN Rebuild(k) ELSE k
          ELSE IF s.error = "history_unavailable" /\ update.available /\ s.hasBaseline THEN Rebuild(k)
          ELSE k
    BY DEF Accepted, Taken
  <1>3. /\ Content(k, r, m)
        /\ (~Changed(s, update) /\ update.kind # "baseline" /\ s.opened) =>
             /\ Sound(k, r, m) /\ k.read = s.read /\ k.ask = s.ask
             /\ \A c : Awaited(c, s, r, n) => Awaited(c, k, r, m)
    BY TakenHolds
  <1>4. /\ k \in Sessions
        /\ k.generation = IF update.generation # 0 THEN update.generation ELSE s.generation
        /\ ~Changed(s, update) => /\ k.overlay \subseteq Join(s.overlay, update.items)
                                  /\ k.pages = s.pages /\ k.retained = s.retained /\ k.position = s.position
                                  /\ k.through = s.through /\ k.next = s.next /\ k.hasPage = s.hasPage
                                  /\ k.read = s.read /\ k.ask = s.ask
        /\ k.status = s.status /\ k.opened = s.opened /\ k.reconnect = s.reconnect
        /\ k.hasBaseline = (update.kind = "baseline" \/ Changed(s, update) \/ s.hasBaseline)
    BY <1>1, TakenGives
  <1> HIDE DEF k, m
  <1>5. ~s.opened => /\ Empty(s) /\ ~Changed(s, update) /\ s.status = "waiting_for_baseline" /\ s.read = None
    <2>1. ~s.opened => Empty(s) /\ s.generation = 0
      BY DEF Sound, Empty
    <2>2. ~s.opened => s.status = "waiting_for_baseline"
      BY <1>1 DEF Sound, Phases, Active, Sessions
    <2> QED BY <2>1, <2>2 DEF Changed, Sound, Phases
  <1>6. ASSUME s.opened, k.hasBaseline PROVE Done(Rebuild(k))
    <2> DEFINE u == Rebuild(k)
    <2>1. Begun(k, u, r, m)
      BY <1>3, <1>4, <1>6, RebuildBegins
    <2> HIDE DEF u
    <2>2. u.opened /\ u.status # "closed"
      BY <2>1 DEF Begun, Sound, Phases, Active
    <2>3. Done(u)
      BY <1>4, <2>1, <2>2 DEF Begun, Resumes
    <2> QED BY <2>3 DEF u
  <1>7. ASSUME s.opened, ~Changed(s, update), update.kind # "baseline" PROVE Done(k)
    BY <1>3, <1>4, <1>7 DEF Resumes
  <1>8. ASSUME ~s.opened PROVE Done(LoadedNext(i)) /\ i.status = "idle"
    <2>1. /\ i \in Sessions /\ SameContent(k, i) /\ SamePin(k, i) /\ SameRead(k, i) /\ i.status = "idle"
          /\ i.hasBaseline = k.hasBaseline /\ i.opened = k.opened /\ i.reconnect = k.reconnect
      BY <1>4 DEF Sessions, SameContent, SamePin, SameRead
    <2> HIDE DEF i
    <2>2. i.hasBaseline /\ i.read = None /\ ~i.hasPage /\ i.next = None /\ i.pages = {}
          /\ (i.retained # None => i.retained.pages \subseteq i.pages)
      BY <1>4, <1>5, <1>8, <2>1 DEF SameContent, SamePin, SameRead, Empty, Sound, Pinned, PinOK
    <2>3. CanLoad(i)
      BY <2>1, <2>2 DEF CanLoad
    <2>4. Content(i, r, m)
      <3>1. ShownPages(i) = ShownPages(k)
        BY <2>1 DEF ShownPages, SameContent
      <3> QED BY <1>3, <2>1, <3>1 DEF Content, SameContent, SamePin
    <2>5. PinOK(i)
      BY <2>1, <2>2 DEF PinOK
    <2>6. Dated(i, r)
      BY <2>2, <2>4 DEF Dated, Content, ShownPages
    <2>7. Paging(i, r, m)
      BY <2>1, <2>2, <2>4, <2>5, <2>6 DEF Paging, Whole, Covered, Active, Content
    <2> DEFINE u == LoadedNext(i)
    <2>8. Begun(i, u, r, m)
      BY <2>2, <2>3, <2>7, LoadedBegins
    <2> HIDE DEF u
    <2>9. u.opened /\ u.status # "closed"
      BY <2>8 DEF Begun, Sound, Phases, Active
    <2>10. Done(u)
      BY <1>4, <2>1, <2>8, <2>9 DEF Begun, Resumes, SameContent, SamePin
    <2> QED BY <2>1, <2>10 DEF u
  <1>9. Done(t)
    <2>1. CASE update.kind = "baseline" /\ ~s.opened
      <3>1. Accepted(s, update) = i
        BY <1>2, <2>1
      <3>2. t = LoadedNext(i)
        BY <1>8, <2>1, <3>1 DEF Opened
      <3> QED BY <1>8, <2>1, <3>2
    <2>2. CASE s.opened /\ Accepted(s, update) = Rebuild(k) /\ k.hasBaseline
      <3>1. Done(Rebuild(k))
        BY <1>6, <2>2
      <3>2. Active(Rebuild(k))
        <4>1. Begun(k, Rebuild(k), r, m)
          BY <1>3, <1>4, <2>2, RebuildBegins
        <4> QED BY <4>1 DEF Begun
      <3>3. t = Rebuild(k)
        BY <2>2, <3>2 DEF Opened, Active
      <3> QED BY <3>1, <3>3
    <2>3. CASE s.opened /\ ~Changed(s, update) /\ update.kind # "baseline" /\ Accepted(s, update) = k
      <3>1. k.status # "idle"
        BY <1>4 DEF Sound, Phases
      <3>2. t = k
        BY <2>3, <3>1 DEF Opened
      <3> QED BY <1>7, <2>3, <3>2
    <2>4. update.kind = "baseline" \/ Changed(s, update) \/ s.hasBaseline => k.hasBaseline
      BY <1>4
    <2> QED BY <1>2, <1>5, <2>1, <2>2, <2>3, <2>4
  <1>12. ~s.opened => LoadedNext(Accepted(s, update)) = t
    BY <1>2, <1>8 DEF Opened
  <1> HIDE DEF t
  <1>10. t.generation = s.generation => t.overlay \subseteq Join(s.overlay, update.items)
    <2>1. Changed(s, update) => k.generation # s.generation
      BY <1>4 DEF Changed
    <2> QED BY <1>4, <1>9, <2>1
  <1>11. m = Seen(s, t.generation, n, update.items)
    BY <1>9 DEF m
  <1> QED BY <1>9, <1>10, <1>11, <1>12 DEF t

-----------------------------------------------------------------------------
(* The user *)

LEMMA RetriedBegins ==
  ASSUME NEW s, NEW r, NEW n, Sound(s, r, n), s.status = "error", s.read = None, s.hasBaseline
  PROVE  Begun(s, Retried(s), r, n)
  <1>1. s \in Sessions /\ s.opened /\ s.failed.cursor = s.next /\ s.failed.rebuilding \in BOOLEAN
    BY DEF Sound, Sessions, Phases, Active, Pinned, PinOK
  <1>2. Content(s, r, n)
    BY ContentOf
  <1>3. CASE Retried(s) = Rebuild(s)
    BY <1>1, <1>2, <1>3, RebuildBegins
  <1>4. CASE Retried(s) = Run(s, s.next, s.failed.rebuilding)
    <2> DEFINE t == Run(s, s.next, s.failed.rebuilding)
    <2>1. s.next \in Places
      BY <1>1 DEF Sessions
    <2>2. Asks(s, t, s.next, s.failed.rebuilding)
      BY <1>1, <2>1, RunGives
    <2> HIDE DEF t
    <2>3. Paging(s, r, n)
      BY <1>2 DEF Paging, Sound, Active, Pinned
    <2>4. s.retained # None /\ ~s.failed.rebuilding => s.retained.pages \subseteq s.pages
      BY DEF Sound, Anchored
    <2>5. Begun(s, t, r, n)
      BY <1>1, <2>2, <2>3, <2>4, AsksBegins
    <2> QED BY <1>4, <2>5 DEF t
  <1> QED BY <1>1, <1>3, <1>4 DEF Retried

\* A session that holds a baseline is open.
LEMMA OpenWithBaseline ==
  ASSUME NEW s \in Sessions, Phases(s), s.hasBaseline
  PROVE  Active(s) /\ s.opened
  BY DEF Phases, Sessions, Active

LEMMA MovedHolds ==
  ASSUME NEW s, NEW t, NEW r, NEW n, Sound(s, r, n), t \in Sessions,
         t.pages = s.pages, t.retained = s.retained, t.overlay = s.overlay, t.overflow = s.overflow,
         SamePin(s, t), SameFlow(s, t), t.read = s.read,
         t.position # 0 => t.position \in ShownPages(s) \cup FactsOf(s.overlay)
  PROVE  /\ Sound(t, r, n)
         /\ \A c : Awaited(c, s, r, n) => Awaited(c, t, r, n)
  <1>1. ShownPages(t) = ShownPages(s)
    BY DEF ShownPages
  <1>2. Phases(t)
    BY DEF Sound, Phases, Active, SameFlow, SamePin
  <1>3. Anchored(t)
    BY <1>1 DEF Sound, Anchored, SameFlow
  <1>4. Pinned(t)
    BY DEF Sound, Pinned, PinOK, SamePin, SameFlow
  <1>5. Dated(t, r)
    BY DEF Sound, Dated, SamePin
  <1>6. Whole(t, r) /\ Covered(t, r, n)
    BY DEF Sound, Whole, Covered, Active, SamePin, SameFlow
  <1>7. ~t.opened => Empty(t)
    <2>1. ~t.opened => Empty(s) /\ ShownPages(s) = {} /\ FactsOf(s.overlay) = {}
      BY DEF Sound, Empty, ShownPages, SameFlow, FactsOf
    <2> QED BY <2>1 DEF Empty, SamePin
  <1>8. \A c : Awaited(c, s, r, n) => Awaited(c, t, r, n)
    BY DEF Awaited, SamePin
  <1> QED BY <1>2, <1>3, <1>4, <1>5, <1>6, <1>7, <1>8 DEF Sound

LEMMA NewerHolds ==
  ASSUME NEW s, NEW r, NEW n, Sound(s, r, n), s.status # "closed", ~s.ask, ~s.reconnect
  PROVE  LET t == Newer(s)
         IN  /\ Resumes(s, t, r, n, n) /\ ~t.reconnect /\ t.overlay = s.overlay /\ t.generation = s.generation
             /\ (Active(t) => Active(s)) /\ (~t.opened => ~s.opened)
  <1> DEFINE a == [s EXCEPT !.position = 0, !.hasNew = FALSE]
             t == Newer(s)
  <1>1. s \in Sessions
    BY DEF Sound
  <1>2. /\ a \in Sessions /\ a.position = 0
        /\ a.pages = s.pages /\ a.retained = s.retained /\ a.overlay = s.overlay /\ a.overflow = s.overflow
        /\ SamePin(s, a) /\ SameFlow(s, a) /\ SameRead(s, a)
    BY <1>1 DEF Sessions, SamePin, SameFlow, SameRead
  <1>3. t = IF s.overflow /\ s.hasBaseline THEN Rebuild(a) ELSE a
    BY DEF Newer
  <1> HIDE DEF a, t
  <1>4. /\ Sound(a, r, n)
        /\ \A c : Awaited(c, s, r, n) => Awaited(c, a, r, n)
    BY <1>2, MovedHolds DEF SameRead
  <1>5. CASE s.overflow /\ s.hasBaseline
    <2>1. Active(s) /\ s.opened
      BY <1>1, <1>5, OpenWithBaseline DEF Sound
    <2>2. Content(a, r, n)
      BY <1>4, ContentOf
    <2>3. Begun(a, Rebuild(a), r, n)
      BY <1>2, <1>5, <2>1, <2>2, RebuildBegins DEF SameFlow
    <2>4. Begun(a, t, r, n)
      BY <1>3, <1>5, <2>3
    <2>5. t.opened
      BY <2>4 DEF Begun, Sound, Phases
    <2> QED BY <1>2, <2>1, <2>4, <2>5 DEF Resumes, Begun, SameFlow, SamePin, t
  <1>6. CASE ~(s.overflow /\ s.hasBaseline)
    <2>1. t = a
      BY <1>3, <1>6
    <2>2. Active(a) => Active(s)
      BY <1>2 DEF Active, SameFlow
    <2> QED BY <1>2, <1>4, <2>1, <2>2 DEF Resumes, SameFlow, SamePin, SameRead, t
  <1> QED BY <1>5, <1>6

-----------------------------------------------------------------------------
(* Pages *)

LEMMA NearestIs ==
  ASSUME NEW items \in SUBSET Item, NEW position
  PROVE  Nearest(items, position) \in {0} \cup FactsOf(items)
  <1> DEFINE older == {item \in items : item.fact <= position}
             n == Nearest(items, position)
  <1>1. \A A \in SUBSET items : FactsOf(A) \in SUBSET Fact /\ FactsOf(A) \subseteq FactsOf(items)
                                  /\ (A # {} => FactsOf(A) # {})
    BY DEF FactsOf, Item
  <1>2. CASE items = {}
    BY <1>2 DEF Nearest
  <1>3. CASE items # {} /\ older # {}
    <2> DEFINE F == FactsOf(older)
    <2>1. F \in SUBSET Fact /\ F \subseteq FactsOf(items) /\ F # {}
      BY <1>1, <1>3
    <2>2. n = CHOOSE f \in F : \A g \in F : f >= g
      BY <1>3 DEF Nearest
    <2> HIDE DEF F
    <2>3. \E f \in F : \A g \in F : f >= g
      BY <2>1, GreatestFact
    <2>4. n \in F
      BY <2>2, <2>3
    <2> QED BY <2>1, <2>4
  <1>4. CASE items # {} /\ older = {}
    <2> DEFINE F == FactsOf(items)
    <2>1. F \in SUBSET Fact /\ F # {} /\ F \in SUBSET Nat
      BY <1>1, <1>4, Bounds DEF Fact
    <2>2. n = CHOOSE f \in F : \A g \in F : f <= g
      BY <1>4 DEF Nearest
    <2> HIDE DEF F
    <2>3. \E f \in F : \A g \in F : f <= g
      BY <2>1, LeastFact
    <2>4. n \in F
      BY <2>2, <2>3
    <2> QED BY <2>4 DEF F
  <1> QED BY <1>2, <1>3, <1>4

LEMMA RestartedBegins ==
  ASSUME NEW s, NEW r, NEW n, Sound(s, r, n), s.read # None
  PROVE  Begun(s, Restarted(s), r, n)
  <1> DEFINE a == Retain(s)
             b == ResetPin(a)
             read == [b.read EXCEPT !.restarted = TRUE, !.rebuilding = TRUE]
             c == [b EXCEPT !.pages = {}, !.read = read]
             t == Ask(c, None)
  <1>1. s \in Sessions /\ s.read \in ReadRecords /\ s.status = "loading" /\ s.opened /\ s.hasBaseline
    BY DEF Sound, Phases, Sessions, Active
  <1>2. /\ a \in Sessions /\ SamePin(s, a) /\ SameFlow(s, a) /\ SameRead(s, a)
        /\ a.retained \in Retentions /\ a.retained # None /\ a.retained.pages = ShownPages(s)
        /\ a.pages = s.pages /\ a.overlay = s.overlay /\ a.position = s.position
        /\ a.overflow = s.overflow
    BY <1>1, RetainGives
  <1> HIDE DEF a
  <1>3. /\ b \in Sessions /\ SameContent(a, b) /\ SameFlow(a, b) /\ SameRead(a, b)
        /\ b.generation = a.generation /\ b.next = None /\ b.hasPage = FALSE
    BY <1>2, ResetPinGives
  <1> HIDE DEF b
  <1>4. b.read = s.read
    BY <1>2, <1>3 DEF SameRead
  <1>5. read \in ReadRecords /\ read.rebuilding = TRUE
    BY <1>1, <1>4 DEF ReadRecords
  <1>6. Restarted(s) = t
    <2>1. [b EXCEPT !.pages = {}, !.read.restarted = TRUE, !.read.rebuilding = TRUE] = c
      BY <1>1, <1>3, <1>4 DEF Sessions, ReadRecords
    <2> QED BY <2>1 DEF Restarted, b, a
  <1> HIDE DEF read
  <1>7. /\ c \in Sessions /\ c.pages = {} /\ c.retained = b.retained /\ c.overlay = b.overlay
        /\ c.position = b.position /\ c.read = read /\ SamePin(b, c) /\ SameFlow(b, c)
    BY <1>3, <1>5 DEF Sessions, SamePin, SameFlow
  <1> HIDE DEF c
  <1>8. c.status = "loading" /\ c.opened /\ c.hasBaseline /\ c.reconnect = s.reconnect
    BY <1>1, <1>2, <1>3, <1>7 DEF SameFlow
  <1>9. c.next = None /\ c.hasPage = FALSE /\ c.generation = s.generation
    BY <1>2, <1>3, <1>7 DEF SamePin
  <1>10. c.retained # None /\ c.retained.pages = ShownPages(s) /\ c.overlay = s.overlay /\ c.position = s.position
    BY <1>2, <1>3, <1>7 DEF SameContent
  <1>11. Asks(c, t, c.next, TRUE)
    BY <1>5, <1>7, <1>8, <1>9, AskGives DEF Places
  <1> HIDE DEF t
  <1>12. Content(s, r, n)
    BY ContentOf
  <1>13. ShownPages(c) = ShownPages(s)
    BY <1>10 DEF ShownPages
  <1>14. Content(c, r, n)
    BY <1>7, <1>9, <1>10, <1>12, <1>13 DEF Content
  <1>15. PinOK(c)
    BY <1>9 DEF PinOK
  <1>16. Dated(c, r)
    BY <1>7, <1>9, <1>10, <1>12, <1>13, <1>14 DEF Dated, Content
  <1>17. Paging(c, r, n)
    BY <1>8, <1>9, <1>14, <1>15, <1>16 DEF Paging, Whole, Covered, Content
  <1>18. Begun(c, t, r, n)
    BY <1>8, <1>11, <1>17, AsksBegins
  <1> QED BY <1>6, <1>8, <1>9, <1>10, <1>18 DEF Begun, t

\* What a page that is taken brings.
Brings(s, page) ==
  [s EXCEPT !.cursors = IF s.read.cursor # None THEN @ \cup {s.read.cursor} ELSE @,
            !.generation = page.generation, !.through = page.through, !.hasPage = TRUE,
            !.accepted = @ + 1, !.next = page.next, !.pages = @ \cup page.facts]

LEMMA BringsGives ==
  ASSUME NEW s \in Sessions, s.read # None, NEW page \in Pages
  PROVE  LET t == Brings(s, page)
         IN  /\ t \in Sessions /\ SameFlow(s, t) /\ SameRead(s, t)
             /\ t.retained = s.retained /\ t.overlay = s.overlay /\ t.position = s.position
             /\ t.overflow = s.overflow /\ t.pages = s.pages \cup page.facts
             /\ t.generation = page.generation /\ t.through = page.through /\ t.next = page.next
             /\ t.hasPage = TRUE
  <1> DEFINE read == IF s.read.cursor # None THEN s.cursors \cup {s.read.cursor} ELSE s.cursors
             count == s.accepted + 1
             pages == s.pages \cup page.facts
             t == [s EXCEPT !.cursors = read, !.generation = page.generation, !.through = page.through,
                            !.hasPage = TRUE, !.accepted = count, !.next = page.next, !.pages = pages]
  <1>1. read \in SUBSET Cursors
    BY ReadsAre DEF Sessions, ReadRecords, Places
  <1>2. count \in Nat /\ pages \in SUBSET Fact
    BY DEF Sessions, Pages
  <1>3. page.generation \in Known /\ page.through \in Nat /\ page.next \in Places
    BY DEF Pages, Known
  <1>4. Brings(s, page) = t
    BY DEF Brings
  <1> HIDE DEF read, count
  <1>5. /\ t \in Sessions /\ SameFlow(s, t) /\ SameRead(s, t)
        /\ t.retained = s.retained /\ t.overlay = s.overlay /\ t.position = s.position
        /\ t.overflow = s.overflow /\ t.pages = s.pages \cup page.facts
        /\ t.generation = page.generation /\ t.through = page.through /\ t.next = page.next
        /\ t.hasPage = TRUE
    BY <1>1, <1>2, <1>3 DEF Sessions, SameFlow, SameRead
  <1> HIDE DEF t
  <1> QED BY <1>4, <1>5

\* The pages go on from where they were, without a gap, under one pin.
LEMMA BringsHolds ==
  ASSUME NEW s, NEW r, RoomOK(r), NEW n, Sound(s, r, n), NEW c, RequestOK(c, r), Awaited(c, s, r, n), IsPage(c.answer),
         s.generation # 0 => c.answer.generation = s.generation, ~Mismatched(s, c.answer)
  PROVE  LET t == Brings(s, c.answer)
         IN  /\ Paging(t, r, Seen(s, t.generation, n, {}))
             /\ t.status = "loading" /\ t.opened /\ t.read = s.read
  <1> DEFINE page == c.answer
             t == Brings(s, page)
             m == Seen(s, t.generation, n, {})
  <1>1. s \in Sessions /\ s.read # None /\ s.status = "loading" /\ s.opened /\ s.hasBaseline /\ Active(s)
    BY DEF Sound, Awaited, Phases, Active
  <1>2. /\ page \in Pages /\ page.generation = r.generation /\ page.facts \subseteq Past(r, r.generation)
        /\ page.through <= Len(r.stored)
        /\ page.next # None => page.next.through = page.through /\ page.next.generation = page.generation
    BY DEF RequestOK, AnswerOK, Awaited, IsPage, Requests, Refusals
  <1>3. /\ t \in Sessions /\ SameFlow(s, t) /\ SameRead(s, t)
        /\ t.retained = s.retained /\ t.overlay = s.overlay /\ t.position = s.position
        /\ t.overflow = s.overflow /\ t.pages = s.pages \cup page.facts
        /\ t.generation = page.generation /\ t.through = page.through /\ t.next = page.next
        /\ t.hasPage = TRUE
    BY <1>1, <1>2, BringsGives
  <1> HIDE DEF t
  <1>4. t.status = "loading" /\ t.opened /\ t.hasBaseline /\ t.read = s.read
    BY <1>1, <1>3 DEF SameFlow, SameRead
  <1>5. /\ c.cursor = s.next /\ (c.cursor # None => page.through = c.cursor.through)
        /\ \A i \in 1..page.through :
             /\ c.cursor = None \/ r.stored[i] < c.cursor.after
             /\ page.next = None \/ r.stored[i] >= page.next.after
             => r.stored[i] \in page.facts
    BY DEF Awaited, Full, Sound, Pinned
  <1>6. c.cursor # None => s.hasPage /\ s.through = page.through
    BY <1>5 DEF Sound, Pinned, PinOK
  <1>7. Past(r, s.generation) \subseteq Past(r, t.generation)
    <2>1. s.generation = 0 => Past(r, s.generation) = {}
      BY DEF Past, Generations
    <2> QED BY <1>3, <2>1
  <1>8. Content(s, r, n)
    BY ContentOf
  <1>9. m \subseteq n /\ (t.generation # s.generation => m = {})
    BY DEF Seen, Given
  <1> HIDE DEF m
  <1>10. Content(t, r, m)
    <2>1. ShownPages(s) \subseteq ShownPages(t) /\ ShownPages(t) \subseteq ShownPages(s) \cup t.pages
      BY <1>3 DEF ShownPages
    <2>2. t.pages \subseteq Past(r, t.generation)
      BY <1>2, <1>3, <1>7, <1>8 DEF Content
    <2>3. Of(t.overlay, Past(r, t.generation))
      BY <1>3, <1>7, <1>8, OfMore DEF Content
    <2>4. r.generation <= r.generation
      <3>1. r.generation \in Int
        BY <1>2, Bounds DEF Pages, Generations
      <3> QED BY <3>1
    <2> QED BY <1>2, <1>3, <1>7, <1>8, <1>9, <2>1, <2>2, <2>3, <2>4 DEF Content
  <1>11. PinOK(t)
    <2>1. t.generation # 0
      BY <1>2, <1>3 DEF Pages, Generations
    <2> QED BY <1>2, <1>3, <2>1 DEF PinOK
  <1>12. Dated(t, r)
    <2>1. t.retained # None => t.retained.pages \subseteq Past(r, t.generation)
      BY <1>10 DEF Content, ShownPages
    <2> QED BY <1>2, <1>3, <1>10, <2>1 DEF Dated, Content
  <1>13. Whole(t, r)
    <2>1. ASSUME NEW i \in 1..t.through, t.next = None \/ r.stored[i] >= t.next.after
          PROVE  r.stored[i] \in t.pages
      <3>1. CASE c.cursor = None \/ r.stored[i] < c.cursor.after
        BY <1>3, <1>5, <2>1, <3>1
      <3>2. CASE c.cursor # None /\ ~(r.stored[i] < c.cursor.after)
        <4>1. s.next.after \in Int /\ s.generation = r.generation /\ s.through <= Len(r.stored)
              /\ s.through = t.through
          <5>1. s.next \in Cursors
            BY <1>1, <1>5, <3>2 DEF Sessions, Places
          <5> QED BY <1>1, <1>3, <1>6, <3>2, <5>1, Bounds DEF Cursors, Fact, Sound, Whole, Dated
        <4>2. r.stored[i] \in Int
          <5>1. i \in 1..s.through
            BY <2>1, <4>1
          <5>2. r.stored[i] \in Fact
            <6>1. Len(r.stored) \in Nat /\ \A j \in 1..Len(r.stored) : r.stored[j] \in Fact
              BY StoredFacts
            <6>2. t.through \in Nat /\ t.through <= Len(r.stored)
              BY <1>2, <1>3 DEF Pages
            <6> QED BY <2>1, <6>1, <6>2
          <5> QED BY <5>2, Bounds DEF Fact
        <4>3. r.stored[i] >= s.next.after
          BY <1>5, <3>2, <4>1, <4>2
        <4>4. r.stored[i] \in s.pages
          BY <1>1, <1>6, <2>1, <3>2, <4>1, <4>3 DEF Sound, Whole
        <4> QED BY <1>3, <4>4
      <3> QED BY <3>1, <3>2
    <2> QED BY <1>2, <1>3, <2>1 DEF Whole
  <1>14. Covered(t, r, m)
    <2>1. ASSUME ~t.overflow, NEW f \in m PROVE Held(f, t.through, t.overlay, r)
      <3>1. f \in n /\ s.generation = r.generation /\ ~s.overflow
        BY <1>2, <1>3, <1>9, <2>1
      <3>2. CASE c.cursor = None
        BY <1>3, <2>1, <3>1, <3>2 DEF Awaited
      <3>3. CASE c.cursor # None
        BY <1>1, <1>3, <1>6, <3>1, <3>3 DEF Sound, Covered
      <3> QED BY <3>2, <3>3
    <2> QED BY <1>10, <2>1 DEF Covered, Content
  <1>15. Paging(t, r, m)
    BY <1>4, <1>10, <1>11, <1>12, <1>13, <1>14 DEF Paging, Active
  <1> QED BY <1>4, <1>15 DEF m, t

LEMMA NothingGiven ==
  ASSUME NEW s, NEW n
  PROVE  Seen(s, s.generation, n, {}) = n
  BY DEF Seen, Given

\* A read that is done: the entry that is read is on the pages that are shown now.
LEMMA CompletedHolds ==
  ASSUME NEW s, NEW r, NEW n, Paging(s, r, n), s.opened, s.status = "loading", s.hasPage, s.read \in ReadRecords,
         s.retained # None /\ ~s.read.rebuilding => s.retained.pages \subseteq s.pages, ~s.ask
  PROVE  LET t == Completed(s)
         IN  /\ Sound(t, r, n) /\ t.read = None /\ ~t.ask /\ t.overlay = s.overlay
             /\ t.generation = s.generation /\ t.reconnect = s.reconnect /\ t.opened /\ t.status = "ready"
  <1> DEFINE rows == Durable(s.pages)
             items == Join(rows, s.overlay)
             position == IF Sought(s) THEN Nearest(items, s.position) ELSE s.position
             t == [s EXCEPT !.retained = None, !.lastKnown = FALSE, !.error = "none", !.read = None,
                            !.status = "ready", !.position = position]
  <1>1. s \in Sessions /\ s.pages \in SUBSET Fact /\ s.overlay \in SUBSET Item
    BY DEF Paging, Content, Sessions
  <1>2. Completed(s) = t
    BY DEF Completed
  <1>3. position \in {0} \cup s.pages \cup FactsOf(s.overlay)
    <2>1. CASE Sought(s)
      <3>1. rows \in SUBSET Item /\ FactsOf(rows) = s.pages
        BY <1>1, DurableHolds
      <3> HIDE DEF rows
      <3>2. items \in SUBSET Item /\ FactsOf(items) = s.pages \cup FactsOf(s.overlay)
        BY <1>1, <3>1, JoinHolds
      <3> HIDE DEF items
      <3>3. Nearest(items, s.position) \in {0} \cup FactsOf(items)
        BY <3>2, NearestIs
      <3> QED BY <2>1, <3>2, <3>3
    <2>2. CASE ~Sought(s)
      <3>1. CASE s.read.rebuilding
        BY <2>2, <3>1 DEF Sought
      <3>2. CASE ~s.read.rebuilding
        BY <2>2, <3>2 DEF Paging, Content, ShownPages
      <3> QED BY <3>1, <3>2
    <2> QED BY <2>1, <2>2
  <1>4. position \in {0} \cup Fact
    BY <1>1, <1>3 DEF FactsOf, Item
  <1> HIDE DEF position
  <1>5. /\ t \in Sessions /\ t.retained = None /\ t.read = None /\ t.status = "ready" /\ t.position = position
        /\ t.pages = s.pages /\ t.overlay = s.overlay /\ t.overflow = s.overflow /\ SamePin(s, t)
        /\ t.hasBaseline = s.hasBaseline /\ t.opened = s.opened /\ t.reconnect = s.reconnect /\ t.ask = s.ask
    BY <1>1, <1>4 DEF Sessions, SamePin
  <1> HIDE DEF t
  <1>6. Phases(t) /\ t.hasPage
    BY <1>5 DEF Phases, Active, SamePin, Paging
  <1>7. Anchored(t)
    BY <1>3, <1>5 DEF Anchored, ShownPages
  <1>8. Pinned(t)
    BY <1>5 DEF Pinned, PinOK, SamePin, Paging
  <1>9. Dated(t, r)
    BY <1>5 DEF Dated, SamePin, Paging
  <1>10. Whole(t, r) /\ Covered(t, r, n)
    BY <1>5 DEF Whole, Covered, Active, SamePin, Paging
  <1>11. Sound(t, r, n)
    BY <1>5, <1>6, <1>7, <1>8, <1>9, <1>10 DEF Sound
  <1> QED BY <1>2, <1>5, <1>11 DEF SamePin, t

\* An operation on a session that waits for a page.
Settles(s, t, r, n) ==
  /\ Sound(t, r, Seen(s, t.generation, n, {})) /\ (t.read # None <=> t.ask) /\ t.overlay = s.overlay
  /\ t.opened /\ t.status # "closed" /\ (t.reconnect /\ ~s.reconnect => t.read = None)

LEMMA FailSettles ==
  ASSUME NEW s, NEW r, NEW n, Sound(s, r, n), s.read # None,
         NEW reason \in {"recovery_limit", "invalid_response", "history_unavailable", "request_failed"}
  PROVE  Settles(s, Fail(s, reason), r, n)
  <1> DEFINE t == Fail(s, reason)
  <1>1. s \in Sessions /\ s.read \in ReadRecords /\ s.status = "loading" /\ s.opened /\ s.hasBaseline
    BY DEF Sound, Phases, Active, Sessions
  <1>2. /\ t \in Sessions /\ SameContent(s, t) /\ SamePin(s, t)
        /\ t.hasBaseline = s.hasBaseline /\ t.opened = s.opened /\ t.reconnect = s.reconnect
        /\ t.status = "error" /\ t.read = None /\ ~t.ask
        /\ t.failed.cursor = s.read.cursor /\ t.failed.rebuilding = s.read.rebuilding
    BY <1>1, FailGives
  <1> HIDE DEF t
  <1>3. s.read.cursor = s.next
    BY <1>1, NoRead DEF Sound, Pinned
  <1>4. Asks(s, t, s.next, s.read.rebuilding)
    BY <1>2, <1>3 DEF Asks
  <1>5. s.read.rebuilding \in BOOLEAN
    BY <1>1 DEF ReadRecords
  <1>6. Paging(s, r, n)
    BY <1>1, ContentOf DEF Paging, Sound, Active, Pinned
  <1>7. s.retained # None /\ ~s.read.rebuilding => s.retained.pages \subseteq s.pages
    BY DEF Sound, Anchored
  <1>8. Begun(s, t, r, n)
    BY <1>1, <1>4, <1>5, <1>6, <1>7, AsksBegins
  <1>9. Seen(s, t.generation, n, {}) = n
    BY <1>2, NothingGiven DEF SamePin
  <1> QED BY <1>1, <1>2, <1>8, <1>9 DEF Settles, Begun, t

LEMMA AwaitSettles ==
  ASSUME NEW s, NEW r, NEW n, Sound(s, r, n), s.read # None
  PROVE  Settles(s, AwaitBaseline(s), r, n)
  <1> DEFINE t == AwaitBaseline(s)
  <1>1. /\ Sound(t, r, n) /\ ~Active(t) /\ t.read = None /\ t.overlay = s.overlay
        /\ t.generation = s.generation /\ t.reconnect
        /\ t.opened = s.opened /\ t.status = "waiting_for_baseline" /\ ~t.ask
    BY AwaitHolds
  <1> HIDE DEF t
  <1>2. s.opened
    BY DEF Sound, Phases, Active
  <1>3. Seen(s, t.generation, n, {}) = n
    BY <1>1, NothingGiven
  <1> QED BY <1>1, <1>2, <1>3 DEF Settles, t

LEMMA PagedSettles ==
  ASSUME NEW s, NEW r, RoomOK(r), NEW n, Sound(s, r, n), ~s.ask, NEW c, RequestOK(c, r), Awaited(c, s, r, n),
         IsPage(c.answer)
  PROVE  Settles(s, Paged(s, c.answer), r, n)
  <1> DEFINE page == c.answer
             b == Brings(s, page)
             t == Paged(s, page)
             m == Seen(s, b.generation, n, {})
  <1>1. s \in Sessions /\ s.read # None /\ s.read \in ReadRecords /\ s.status = "loading" /\ page \in Pages
    BY DEF Sound, Awaited, Phases, Sessions, RequestOK, IsPage, Requests, Refusals
  <1>2. t = IF s.generation # 0 /\ page.generation # s.generation THEN AwaitBaseline(s)
            ELSE IF Mismatched(s, page) THEN Fail(s, "invalid_response")
            ELSE IF Cardinality(b.pages) > MaxItems THEN Fail(s, "recovery_limit")
            ELSE IF Sought(b) /\ b.next # None THEN Ask(b, b.next)
            ELSE Completed(b)
    BY DEF Paged, Brings
  <1>3. Settles(s, AwaitBaseline(s), r, n)
    BY <1>1, AwaitSettles
  <1>4. Settles(s, Fail(s, "invalid_response"), r, n) /\ Settles(s, Fail(s, "recovery_limit"), r, n)
    BY <1>1, FailSettles
  <1>5. ASSUME ~(s.generation # 0 /\ page.generation # s.generation), ~Mismatched(s, page)
        PROVE  /\ Sought(b) => Settles(s, Ask(b, b.next), r, n)
               /\ Settles(s, Completed(b), r, n)
    <2>1. Paging(b, r, m) /\ b.status = "loading" /\ b.opened /\ b.read = s.read
      BY <1>5, BringsHolds
    <2>2. /\ b \in Sessions /\ SameFlow(s, b) /\ SameRead(s, b)
          /\ b.retained = s.retained /\ b.overlay = s.overlay /\ b.position = s.position
          /\ b.pages = s.pages \cup page.facts /\ b.hasPage = TRUE
      BY <1>1, BringsGives
    <2> HIDE DEF b, m
    <2>3. b.retained # None /\ ~b.read.rebuilding => b.retained.pages \subseteq b.pages
      BY <1>1, <2>1, <2>2 DEF Sound, Anchored
    <2>4. ASSUME NEW u, Sound(u, r, m), u.generation = b.generation, u.read # None <=> u.ask,
                 u.overlay = b.overlay, u.opened, u.status # "closed", u.reconnect = b.reconnect
          PROVE  Settles(s, u, r, n)
      BY <2>2, <2>4 DEF Settles, SameFlow, m
    <2>5. Settles(s, Completed(b), r, n)
      <3> DEFINE u == Completed(b)
      <3>1. /\ Sound(u, r, m) /\ u.read = None /\ ~u.ask /\ u.overlay = b.overlay
            /\ u.generation = b.generation /\ u.reconnect = b.reconnect /\ u.opened /\ u.status = "ready"
        BY <1>1, <2>1, <2>2, <2>3, CompletedHolds DEF SameRead
      <3> HIDE DEF u
      <3>2. Settles(s, u, r, n)
        BY <2>4, <3>1
      <3> QED BY <3>2 DEF u
    <2>6. Settles(s, Ask(b, b.next), r, n)
      <3> DEFINE u == Ask(b, b.next)
                 g == b.read.rebuilding
      <3>1. g \in BOOLEAN /\ b.next \in Places
        BY <1>1, <2>1, <2>2 DEF ReadRecords, Sessions
      <3>2. Asks(b, u, b.next, g)
        BY <1>1, <2>1, <2>2, <3>1, AskGives
      <3> HIDE DEF u
      <3>3. b.retained # None /\ ~g => b.retained.pages \subseteq b.pages
        BY <2>3
      <3> HIDE DEF g
      <3>4. Begun(b, u, r, m)
        BY <2>1, <3>1, <3>2, <3>3, AsksBegins
      <3>5. u.opened /\ u.status # "closed"
        BY <2>1, <3>2 DEF Asks
      <3>6. Settles(s, u, r, n)
        BY <2>4, <3>4, <3>5 DEF Begun
      <3> QED BY <3>6 DEF u
    <2> QED BY <2>5, <2>6
  <1> HIDE DEF b, t
  <1>6. Settles(s, t, r, n)
    BY <1>2, <1>3, <1>4, <1>5
  <1> QED BY <1>6 DEF t

LEMMA RefusedSettles ==
  ASSUME NEW s, NEW r, NEW n, Sound(s, r, n), s.read # None, NEW reason \in Reasons
  PROVE  Settles(s, Refused(s, reason), r, n)
  <1>1. CASE reason = "history_generation_changed"
    BY <1>1, AwaitSettles DEF Refused
  <1>2. CASE reason = "history_unavailable"
    <2>1. Refused(s, reason) = Fail(s, "history_unavailable")
      BY <1>2 DEF Refused
    <2> QED BY <2>1, FailSettles
  <1>3. CASE reason = "request_failed"
    <2>1. Refused(s, reason) = Fail(s, "request_failed")
      BY <1>3 DEF Refused
    <2> QED BY <2>1, FailSettles
  <1>4. CASE reason = "cursor_expired" /\ s.read.cursor # None /\ ~s.read.restarted
    <2> DEFINE t == Restarted(s)
    <2>1. Refused(s, reason) = t
      BY <1>4 DEF Refused
    <2>2. Begun(s, t, r, n)
      BY RestartedBegins
    <2> HIDE DEF t
    <2>3. Seen(s, t.generation, n, {}) = n
      BY <2>2, NothingGiven DEF Begun
    <2>4. t.opened /\ t.status # "closed"
      BY <2>2 DEF Begun, Sound, Phases, Active
    <2>5. Settles(s, t, r, n)
      BY <2>2, <2>3, <2>4 DEF Settles, Begun
    <2> QED BY <2>1, <2>5
  <1>5. CASE reason = "cursor_expired" /\ ~(s.read.cursor # None /\ ~s.read.restarted)
    <2>1. s.read.cursor = None \/ s.read.restarted
      BY <1>5
    <2>2. Refused(s, reason) = Fail(s, "invalid_response")
      BY <1>5, <2>1 DEF Refused
    <2> QED BY <2>2, FailSettles
  <1> QED BY <1>1, <1>2, <1>3, <1>4, <1>5 DEF Reasons

LEMMA SettledSettles ==
  ASSUME NEW s, NEW r, RoomOK(r), NEW n, Sound(s, r, n), ~s.ask, NEW c, RequestOK(c, r), Awaited(c, s, r, n),
         c.answer # None, c.current
  PROVE  Settles(s, Settled(s, c), r, n)
  <1>1. s.read # None
    BY DEF Awaited
  <1>2. CASE c.answer.kind = "page"
    BY <1>2, PagedSettles DEF Settled, IsPage
  <1>3. CASE c.answer.kind # "page"
    <2>1. c.answer.reason \in Reasons
      BY <1>3 DEF RequestOK, Requests, Pages, Refusals
    <2> QED BY <1>1, <1>3, <2>1, RefusedSettles DEF Settled
  <1> QED BY <1>2, <1>3

-----------------------------------------------------------------------------
(* The requests in flight *)

LEMMA SupersededHolds ==
  ASSUME NEW all, NEW r, \A c \in all : RequestOK(c, r)
  PROVE  \A c \in Superseded(all) : RequestOK(c, r) /\ ~c.current
  <1>1. ASSUME NEW c \in all PROVE LET d == [c EXCEPT !.current = FALSE] IN RequestOK(d, r) /\ ~d.current
    BY DEF RequestOK, Requests
  <1>2. CASE \E call \in all : call.current
    BY <1>1, <1>2 DEF Superseded
  <1>3. CASE ~\E call \in all : call.current
    BY <1>3 DEF Superseded
  <1> QED BY <1>2, <1>3

\* The session as it is left: a request is recorded, or a new connection asked for.
LEMMA DoneHolds ==
  ASSUME NEW s, NEW r, NEW n, Sound(s, r, n)
  PROVE  LET t == [s EXCEPT !.ask = FALSE, !.reconnect = FALSE,
                            !.failed = IF s.status = "error" THEN @ ELSE Fresh.failed]
         IN  /\ Sound(t, r, n) /\ ~t.ask /\ ~t.reconnect
             /\ t.read = s.read /\ t.overlay = s.overlay /\ t.generation = s.generation
             /\ t.opened = s.opened /\ t.status = s.status
             /\ \A c : Awaited(c, s, r, n) => Awaited(c, t, r, n)
  <1> DEFINE failed == IF s.status = "error" THEN s.failed ELSE Fresh.failed
             t == [s EXCEPT !.ask = FALSE, !.reconnect = FALSE, !.failed = failed]
  <1>1. s \in Sessions
    BY DEF Sound
  <1>2. failed \in [cursor : Places, rebuilding : BOOLEAN] /\ (s.status = "error" => failed = s.failed)
    BY <1>1 DEF Sessions, Fresh, Places
  <1> HIDE DEF failed
  <1>3. /\ t \in Sessions /\ SameContent(s, t) /\ SamePin(s, t) /\ t.read = s.read
        /\ t.status = s.status /\ t.hasBaseline = s.hasBaseline /\ t.opened = s.opened
        /\ t.failed = failed /\ t.ask = FALSE /\ t.reconnect = FALSE
    BY <1>1, <1>2 DEF Sessions, SameContent, SamePin
  <1>4. [s EXCEPT !.ask = FALSE, !.reconnect = FALSE,
                  !.failed = IF s.status = "error" THEN @ ELSE Fresh.failed] = t
    BY DEF failed
  <1> HIDE DEF t
  <1>5. ShownPages(t) = ShownPages(s)
    BY <1>3 DEF ShownPages, SameContent
  <1>6. Phases(t)
    BY <1>3 DEF Sound, Phases, Active, SameContent, SamePin
  <1>7. Anchored(t)
    BY <1>2, <1>3, <1>5 DEF Sound, Anchored, SameContent
  <1>8. Pinned(t)
    BY <1>2, <1>3 DEF Sound, Pinned, PinOK, SamePin
  <1>9. Dated(t, r)
    BY <1>3 DEF Sound, Dated, SamePin, SameContent
  <1>10. Whole(t, r) /\ Covered(t, r, n)
    BY <1>3 DEF Sound, Whole, Covered, Active, SamePin, SameContent
  <1>11. ~t.opened => Empty(t)
    BY <1>3 DEF Sound, Empty, SamePin, SameContent
  <1>12. Sound(t, r, n)
    BY <1>3, <1>6, <1>7, <1>8, <1>9, <1>10, <1>11 DEF Sound
  <1>13. \A c : Awaited(c, s, r, n) => Awaited(c, t, r, n)
    BY <1>3 DEF Awaited, SamePin, SameContent
  <1> QED BY <1>3, <1>4, <1>12, <1>13 DEF SameContent, SamePin

LEMMA CursorHolds ==
  ASSUME NEW s, NEW r, NEW n, Sound(s, r, n), s.read # None
  PROVE  s.read.cursor \in Places /\ CursorOK(s.read.cursor, r)
  <1>1. s \in Sessions /\ s.read \in ReadRecords /\ s.read.cursor = s.next
    BY DEF Sound, Pinned, Sessions
  <1>2. s.next # None => s.hasPage /\ s.next.through = s.through /\ s.next.generation = s.generation
    BY DEF Sound, Pinned, PinOK
  <1>3. s.generation <= r.generation /\ (s.hasPage /\ s.generation = r.generation => s.through <= Len(r.stored))
    BY DEF Sound, Dated
  <1> QED BY <1>1, <1>2, <1>3 DEF CursorOK, ReadRecords

\* What every change of the session comes to.
Kept(s) == session'.generation = s.generation /\ session'.overlay = s.overlay

LEMMA InstallHolds ==
  ASSUME RoomOK(room), NEW s, NEW waiting, NEW from, NEW items, LinkOK(from, room),
         Sound(s, room, Witnessed(s, items)), Attached(s, from),
         s.ask => s.read # None, s.reconnect => s.read = None,
         \A c \in waiting : RequestOK(c, room),
         s.read # None /\ ~s.ask =>
           /\ \A c \in waiting : c.current => Awaited(c, s, room, Witnessed(s, items))
           /\ OneCurrent(waiting),
         Install(s, waiting, from, items), room' = room
  PROVE  IInv' /\ Kept(s)
  <1> DEFINE n == Witnessed(s, items)
             kept == IF s.ask \/ s.read = None THEN Superseded(waiting) ELSE waiting
             done == [s EXCEPT !.ask = FALSE, !.reconnect = FALSE,
                               !.failed = IF s.status = "error" THEN @ ELSE Fresh.failed]
             new == [current |-> TRUE, cursor |-> s.read.cursor, answer |-> None]
  <1>1. /\ session' = IF s.reconnect THEN Interrupted(done) ELSE done
        /\ calls' = kept \cup {new : ask \in {s.ask} \cap {TRUE}}
        /\ link' = IF s.reconnect THEN Cut(from) ELSE from
        /\ seen' = n
    BY DEF Install
  <1> HIDE DEF n
  <1>2. Sound(s, room, n)
    BY DEF n
  <1>3. /\ Sound(done, room, n) /\ ~done.ask /\ ~done.reconnect
        /\ done.read = s.read /\ done.overlay = s.overlay /\ done.generation = s.generation
        /\ done.opened = s.opened /\ done.status = s.status
        /\ \A c : Awaited(c, s, room, n) => Awaited(c, done, room, n)
    BY <1>2, DoneHolds
  <1> HIDE DEF done
  <1>4. /\ Sound(session', room, n) /\ ~session'.ask /\ ~session'.reconnect
        /\ session'.overlay = s.overlay /\ session'.generation = s.generation
        /\ session'.opened = s.opened /\ (session'.status = "closed" <=> s.status = "closed")
        /\ s.reconnect => ~Active(session') /\ session'.read = None
        /\ ~s.reconnect => session' = done
    BY <1>1, <1>3, InterruptedHolds
  <1>5. LinkOK(link', room) /\ Attached(session', link')
    <2>1. CASE s.reconnect
      <3>1. room \in Rooms
        BY DEF RoomOK
      <3>2. LinkOK(Cut(from), room) /\ Cut(from).baseline = None
        BY <3>1, CutHolds
      <3> QED BY <1>1, <1>4, <2>1, <3>2 DEF Attached
    <2>2. CASE ~s.reconnect
      BY <1>1, <1>3, <1>4, <2>2 DEF Attached, Active
    <2> QED BY <2>1, <2>2
  <1>6. /\ \A c \in kept : RequestOK(c, room) /\ (c.current => Awaited(c, session', room, n))
        /\ s.ask => \A c \in kept : ~c.current
        /\ ~s.ask /\ s.read # None => OneCurrent(kept)
    <2>1. CASE s.ask \/ s.read = None
      BY <2>1, SupersededHolds
    <2>2. CASE ~(s.ask \/ s.read = None)
      BY <1>3, <1>4, <2>2 DEF n
    <2> QED BY <2>1, <2>2
  <1> HIDE DEF kept
  <1>7. s.ask => RequestOK(new, room) /\ Awaited(new, session', room, n)
    <2>1. ASSUME s.ask PROVE RequestOK(new, room) /\ Awaited(new, session', room, n)
      <3>1. s.read # None /\ ~s.reconnect /\ session'.read = s.read
        BY <1>3, <1>4, <2>1
      <3>2. s.read.cursor \in Places /\ CursorOK(s.read.cursor, room)
        BY <1>2, <3>1, CursorHolds
      <3>3. new \in Requests /\ new.cursor = s.read.cursor /\ new.answer = None
        BY <3>2 DEF Requests
      <3> HIDE DEF new
      <3> QED BY <3>1, <3>2, <3>3 DEF RequestOK, AnswerOK, Awaited, IsPage
    <2> QED BY <2>1
  <1>8. RequestsOK(calls', session', room, n)
    <2>1. \A c \in calls' : c \in kept \/ (c = new /\ s.ask)
      BY <1>1
    <2> HIDE DEF new
    <2> QED BY <1>6, <1>7, <2>1 DEF RequestsOK
  <1>9. ASSUME session'.read # None PROVE OneCurrent(calls')
    <2>1. s.read # None
      BY <1>3, <1>4, <1>9
    <2>2. CASE s.ask
      <3>1. new \in calls' /\ new.current /\ \A d \in calls' : d \in kept \/ d = new
        BY <1>1, <2>2
      <3> HIDE DEF new
      <3> QED BY <1>6, <2>2, <3>1 DEF OneCurrent
    <2>3. CASE ~s.ask
      <3>1. calls' = kept
        BY <1>1, <2>3
      <3> QED BY <1>6, <2>1, <2>3, <3>1
    <2> QED BY <2>2, <2>3
  <1> QED BY <1>1, <1>4, <1>5, <1>8, <1>9 DEF IInv, Kept

-----------------------------------------------------------------------------
(* What the client makes of a message *)

LEMMA UpdateHolds ==
  ASSUME NEW r, NEW l, LinkOK(l, r), l.connected, l.queue # <<>>
  PROVE  LET u == Update(l, Head(l.queue))
         IN  /\ UpdateOK(u, r) /\ u.lastKnown \in Known /\ u.lastKnown <= r.generation
             /\ (u.kind # "baseline" => l.baseline # None)
             /\ u.generation # 0 => u.generation = u.lastKnown
             /\ Past(r, u.generation) \subseteq Past(r, u.lastKnown)
             /\ u.kind # "baseline" => Past(r, l.lastKnown) \subseteq Past(r, u.lastKnown)
  <1> DEFINE m == Head(l.queue)
             g == m.storage.generation
             changed == g # 0 /\ l.lastKnown # 0 /\ g # l.lastKnown
             last == IF g # 0 THEN g ELSE l.lastKnown
             baseline == m.kind = "snapshot" \/ changed
             u == Update(l, m)
  <1>1. l \in Links /\ l.queue \in Seq(Messages) /\ l.lastKnown \in Known
    BY DEF LinkOK, Links
  <1>2. m \in Messages /\ MessageOK(m, r) /\ m = l.queue[1]
    BY <1>1 DEF LinkOK
  <1> HIDE DEF m
  <1>3. g \in Known /\ m.items \in SUBSET Item /\ m.storage.available \in BOOLEAN
    BY <1>2 DEF Messages
  <1>4. u = [kind |-> IF baseline THEN "baseline" ELSE "addition", available |-> m.storage.available,
             generation |-> IF g = 0 /\ baseline THEN last ELSE g, lastKnown |-> last, items |-> m.items]
    BY DEF Update
  <1>5. last \in Known /\ last <= r.generation
    BY <1>1, <1>2, <1>3 DEF LinkOK, MessageOK
  <1>6. g <= r.generation
    BY <1>2 DEF MessageOK
  <1> SUFFICES /\ UpdateOK(u, r) /\ u.lastKnown \in Known /\ u.lastKnown <= r.generation
               /\ (u.kind # "baseline" => l.baseline # None)
               /\ u.generation # 0 => u.generation = u.lastKnown
               /\ Past(r, u.generation) \subseteq Past(r, u.lastKnown)
               /\ u.kind # "baseline" => Past(r, l.lastKnown) \subseteq Past(r, u.lastKnown)
    BY DEF m
  <1> HIDE DEF u
  <1>7. /\ u.generation = (IF g = 0 /\ baseline THEN last ELSE g) /\ u.lastKnown = last /\ u.items = m.items
        /\ u.kind = IF baseline THEN "baseline" ELSE "addition"
    BY <1>4
  <1>8. u \in Updates
    BY <1>3, <1>4, <1>5 DEF Updates
  <1>9. Past(r, 0) = {}
    BY DEF Past, Generations
  <1>10. Past(r, g) \subseteq Past(r, u.generation) /\ Past(r, u.generation) \subseteq Past(r, last)
    BY <1>7, <1>9
  <1>11. Of(u.items, Past(r, u.generation))
    <2>1. Of(m.items, Past(r, g))
      BY <1>2 DEF MessageOK
    <2> QED BY <1>7, <1>10, <2>1, OfMore
  <1>12. u.generation <= r.generation
    BY <1>5, <1>6, <1>7
  <1>13. u.kind # "baseline" => l.baseline # None
    BY <1>2, <1>7 DEF LinkOK
  <1>14. u.kind # "baseline" => Past(r, l.lastKnown) \subseteq Past(r, last)
    BY <1>7, <1>9
  <1> QED BY <1>5, <1>7, <1>8, <1>10, <1>11, <1>12, <1>13, <1>14 DEF UpdateOK

LEMMA FollowedHolds ==
  ASSUME NEW r, NEW l, LinkOK(l, r), l.connected, l.queue # <<>>
  PROVE  LET f == Followed(l, Head(l.queue))
         IN  LinkOK(f, r) /\ f.connected /\ f.baseline # None
  <1> DEFINE m == Head(l.queue)
             u == Update(l, m)
             g == IF u.generation = 0 THEN u.lastKnown ELSE u.generation
             joined == Join(l.baseline.items, u.items)
             items == IF u.kind = "baseline" THEN u.items ELSE Newest(joined, RecentLimit)
             b == [u EXCEPT !.kind = "baseline", !.generation = g, !.items = items]
             queue == Tail(l.queue)
             f == [l EXCEPT !.queue = queue, !.lastKnown = u.lastKnown, !.baseline = b]
  <1>1. l \in Links /\ l.queue \in Seq(Messages) /\ l.lastKnown \in Known
    BY DEF LinkOK, Links
  <1>2. /\ UpdateOK(u, r) /\ u.lastKnown \in Known /\ u.lastKnown <= r.generation
        /\ (u.kind # "baseline" => l.baseline # None)
        /\ u.generation # 0 => u.generation = u.lastKnown
        /\ Past(r, u.generation) \subseteq Past(r, u.lastKnown)
        /\ u.kind # "baseline" => Past(r, l.lastKnown) \subseteq Past(r, u.lastKnown)
    BY UpdateHolds
  <1>3. Followed(l, m) = f
    BY DEF Followed
  <1> HIDE DEF u
  <1>4. u \in Updates /\ u.items \in SUBSET Item /\ Of(u.items, Past(r, u.lastKnown))
    BY <1>2, OfMore DEF UpdateOK, Updates
  <1>5. g = u.lastKnown
    BY <1>2
  <1> HIDE DEF g
  <1>6. items \in SUBSET Item /\ Of(items, Past(r, u.lastKnown))
    <2>1. CASE u.kind = "baseline"
      BY <1>4, <2>1
    <2>2. CASE u.kind # "baseline"
      <3>1. l.baseline \in Updates /\ l.baseline.items \in SUBSET Item
        BY <1>1, <1>2, <2>2 DEF Links, Updates
      <3>2. Of(l.baseline.items, Past(r, u.lastKnown))
        BY <1>2, <2>2, OfMore DEF LinkOK
      <3>3. joined \in SUBSET Item /\ Of(joined, Past(r, u.lastKnown))
        <4> DEFINE A == l.baseline.items
                   B == u.items
                   P == Past(r, u.lastKnown)
        <4>1. A \in SUBSET Item /\ B \in SUBSET Item /\ Of(A, P) /\ Of(B, P)
          BY <1>4, <3>1, <3>2
        <4> HIDE DEF A, B, P
        <4>2. Join(A, B) \in SUBSET Item
          BY <4>1, JoinHolds
        <4>3. Of(Join(A, B), P)
          BY <4>1, JoinOf
        <4> QED BY <4>2, <4>3 DEF A, B, P
      <3> HIDE DEF joined
      <3> QED BY <2>2, <3>3, NewestHolds
    <2> QED BY <2>1, <2>2
  <1> HIDE DEF items
  <1>7. b \in Updates /\ b.kind = "baseline" /\ b.generation = u.lastKnown /\ b.items = items
    BY <1>2, <1>4, <1>5, <1>6 DEF Updates
  <1>8. b # None
    BY <1>7 DEF Updates, None
  <1> HIDE DEF b
  <1>9. queue \in Seq(Messages) /\ Len(queue) = Len(l.queue) - 1 /\ \A i \in 1..Len(queue) : queue[i] = l.queue[i + 1]
    BY <1>1
  <1>10. \A i \in 1..Len(queue) : MessageOK(queue[i], r)
    <2>1. Len(l.queue) \in Nat
      BY <1>1
    <2> QED BY <1>9, <2>1 DEF LinkOK
  <1> HIDE DEF queue
  <1>11. /\ f \in Links /\ f.queue = queue /\ f.lastKnown = u.lastKnown /\ f.baseline = b
         /\ f.connected = l.connected
    BY <1>1, <1>2, <1>7, <1>9 DEF Links
  <1> HIDE DEF f
  <1>12. LinkOK(f, r)
    BY <1>2, <1>6, <1>7, <1>8, <1>10, <1>11 DEF LinkOK
  <1>13. f.connected /\ f.baseline # None
    BY <1>8, <1>11
  <1> QED BY <1>3, <1>12, <1>13 DEF m

-----------------------------------------------------------------------------
(* The steps *)

LEMMA FreshHolds ==
  ASSUME NEW r, RoomOK(r)
  PROVE  Sound(Fresh, r, {}) /\ Sound(Closed, r, {})
  <1>1. ASSUME NEW t, t = Fresh \/ t = Closed PROVE Sound(t, r, {})
    <2>1. /\ t.status \in {"waiting_for_baseline", "closed"} /\ t.generation = 0
          /\ t.next = None /\ ~t.hasPage /\ ~t.hasBaseline /\ ~t.opened /\ ~t.overflow
          /\ t.position = 0 /\ t.pages = {} /\ t.retained = None /\ t.overlay = {}
          /\ t.read = None
      BY <1>1 DEF Fresh, Closed
    <2>2. t \in Sessions
      <3>1. Fresh \in Sessions
        BY DEF Fresh, Sessions, Known, Places
      <3>2. Closed \in Sessions
        BY <3>1 DEF Closed, Sessions
      <3> QED BY <1>1, <3>1, <3>2
    <2>3. r.generation \in Nat
      BY StoredFacts
    <2>4. Phases(t) /\ Empty(t) /\ Pinned(t) /\ Anchored(t)
      BY <2>1 DEF Phases, Active, Empty, Pinned, PinOK, Anchored
    <2>5. Dated(t, r) /\ Whole(t, r) /\ Covered(t, r, {})
      BY <2>1, <2>3 DEF Dated, Of, Whole, Covered, Active
    <2> QED BY <2>2, <2>4, <2>5 DEF Sound
  <1> QED BY <1>1

LEMMA ShownHolds ==
  ASSUME NEW s \in Sessions
  PROVE  /\ FactsOf(Shown(s)) = ShownPages(s) \cup FactsOf(s.overlay)
         /\ Shown(s) \in SUBSET Item /\ Shown(s) \subseteq Durable(ShownPages(s)) \cup s.overlay
         /\ \A item \in Durable(ShownPages(s)) \cup s.overlay : item.durable => item \in Shown(s)
         /\ \A a, b \in Shown(s) : a.fact = b.fact => a = b
         /\ ShownPages(s) \in SUBSET Fact
  <1> DEFINE rows == Durable(ShownPages(s))
  <1>1. ShownPages(s) \in SUBSET Fact /\ s.overlay \in SUBSET Item
    BY DEF ShownPages, Sessions, Retentions
  <1>2. rows \in SUBSET Item /\ FactsOf(rows) = ShownPages(s)
    BY <1>1, DurableHolds
  <1> HIDE DEF rows
  <1>3. Shown(s) = Join(rows, s.overlay)
    BY DEF Shown, rows
  <1> QED BY <1>1, <1>2, <1>3, JoinHolds DEF rows

\* What is known of the requests when the session waits for none.
LEMMA NoneCurrent ==
  ASSUME IInv, session.read = None
  PROVE  \A c \in calls : RequestOK(c, room) /\ ~c.current
  BY DEF IInv, RequestsOK, Awaited

LEMMA WitnessedIs ==
  ASSUME NEW s, NEW items
  PROVE  Witnessed(s, items) = Seen(session, s.generation, seen, items)
  BY DEF Witnessed, Seen, Given

LEMMA SourceKeeps ==
  ASSUME IInv, Source
  PROVE  IInv' /\ Kept(session)
  <1>1. Goes
    BY RecordGoes, ReconcileGoes, ReportGoes, LoseGoes, RecoverGoes, ConnectGoes DEF IInv, Source
  <1>2. session' = session /\ calls' = calls /\ seen' = seen
    BY DEF Source
  <1>3. room \in Rooms /\ room' \in Rooms /\ RoomOK(room') /\ LinkOK(link', room') /\ Grown(room, room')
        /\ room'.generation = room.generation
    BY <1>1 DEF Goes, IInv, RoomOK
  <1>4. Sound(session, room', seen)
    BY <1>3, SoundGrows DEF IInv
  <1>5. RequestsOK(calls, session, room', seen)
    BY <1>3, RequestGrows, AwaitedGrows DEF IInv, RequestsOK
  <1>6. Attached(session, link')
    BY <1>1 DEF Goes, IInv, Attached
  <1>7. session.read # None => OneCurrent(calls)
    BY DEF IInv
  <1> QED BY <1>2, <1>3, <1>4, <1>5, <1>6, <1>7 DEF IInv, Kept

LEMMA BreakKeeps ==
  ASSUME IInv, Break
  PROVE  IInv' /\ Kept(session)
  <1> DEFINE s == IF link.connected THEN Interrupted(session) ELSE session
  <1>1. Breaks
    BY InterruptBreaks, RestartBreaks DEF IInv, Break
  <1>2. session' = s /\ calls' = (IF s.read = None THEN Superseded(calls) ELSE calls) /\ seen' = seen
    BY DEF Break
  <1>3. /\ Sound(s, room, seen) /\ ~Active(s) /\ s.overlay = session.overlay
        /\ s.generation = session.generation /\ ~s.ask /\ ~s.reconnect
    <2>1. CASE link.connected
      BY <2>1, InterruptedHolds DEF IInv
    <2>2. CASE ~link.connected
      BY <2>2 DEF IInv, Attached
    <2> QED BY <2>1, <2>2
  <1> HIDE DEF s
  <1>4. s.read = None
    BY <1>3 DEF Sound, Phases, Active
  <1>5. room \in Rooms /\ room' \in Rooms /\ RoomOK(room') /\ LinkOK(link', room') /\ Grown(room, room')
        /\ ~link'.connected /\ link'.baseline = None
    BY <1>1 DEF Breaks, IInv, RoomOK
  <1>6. Sound(s, room', seen)
    BY <1>3, <1>5, SoundGrows
  <1>7. \A c \in calls : RequestOK(c, room')
    BY <1>5, RequestGrows DEF IInv, RequestsOK
  <1>8. \A c \in calls' : RequestOK(c, room') /\ ~c.current
    BY <1>2, <1>4, <1>7, SupersededHolds
  <1>9. RequestsOK(calls', session', room', seen')
    BY <1>8 DEF RequestsOK
  <1>10. Attached(s, link')
    BY <1>3, <1>5 DEF Attached
  <1> QED BY <1>2, <1>3, <1>4, <1>5, <1>6, <1>9, <1>10 DEF IInv, Kept

LEMMA FaultGoes ==
  ASSUME RoomOK(room), LinkOK(link, room), Fault, room' = [room EXCEPT !.faults = @ + 1], UNCHANGED link
  PROVE  Goes
  <1> DEFINE q == [room EXCEPT !.faults = room.faults + 1]
  <1>1. room \in Rooms /\ room.faults \in Nat /\ room.faults + 1 \in Nat /\ room.last \in Nat
    BY DEF RoomOK, Rooms
  <1>2. /\ q \in Rooms /\ q.generation = room.generation /\ q.stored = room.stored /\ q.past = room.past
        /\ q.known = room.known /\ q.available = room.available /\ q.recent = room.recent
        /\ q.last = room.last /\ q.faults = room.faults + 1
    BY <1>1 DEF Rooms
  <1>3. room' = q
    OBVIOUS
  <1> HIDE DEF q
  <1>4. Grown(room, q)
    BY <1>2, GrownSame
  <1>5. q.faults <= MaxFaults
    BY <1>1, <1>2, Bounds DEF Fault
  <1>6. q.last + (MaxFaults - q.faults) + (IF q.available THEN 0 ELSE 1) <= MaxFact
    BY <1>1, <1>2, Bounds DEF RoomOK
  <1>7. Of(q.recent, Past(q, q.known))
    BY <1>2 DEF RoomOK, Past
  <1>8. RoomOK(q)
    BY <1>2, <1>5, <1>6, <1>7 DEF RoomOK
  <1>9. LinkOK(link, q)
    BY <1>1, <1>2, <1>4, LinkGrows
  <1> QED BY <1>2, <1>3, <1>4, <1>8, <1>9 DEF Goes

LEMMA HandleKeeps ==
  ASSUME IInv, NEW call \in calls, Handle(call)
  PROVE  IInv' /\ Kept(session)
  <1>1. PICK answer \in {Refusal(r) : r \in {"history_unavailable", "history_generation_changed",
                                              "request_failed", "cursor_expired"}}
                   \cup (IF room.available THEN {PageAfter(call.cursor, PageSize)} ELSE {}) :
          /\ Answered(call.cursor, PageSize, answer)
          /\ calls' = (calls \ {call}) \cup {[call EXCEPT !.answer = answer]}
    BY DEF Handle
  <1> DEFINE new == [call EXCEPT !.answer = answer]
  <1>2. session' = session /\ seen' = seen
    BY DEF Handle
  <1>3. RoomOK(room) /\ LinkOK(link, room) /\ Sound(session, room, seen) /\ RequestOK(call, room)
        /\ (call.current => Awaited(call, session, room, seen)) /\ call \in Requests
    BY DEF IInv, RequestsOK, RequestOK
  <1>4. Goes
    <2>1. CASE UNCHANGED sourceVars
      <3>1. room' = room /\ link' = link
        BY <2>1 DEF sourceVars
      <3>2. Grown(room, room)
        BY <1>3, GrownSame
      <3> QED BY <1>3, <3>1, <3>2 DEF Goes
    <2>2. CASE Lose
      BY <1>3, <2>2, LoseGoes
    <2>3. CASE Fault /\ room' = [room EXCEPT !.faults = @ + 1] /\ UNCHANGED link
      BY <1>3, <2>3, FaultGoes
    <2> QED BY <1>1, <2>1, <2>2, <2>3 DEF Answered
  <1>5. room \in Rooms /\ room' \in Rooms /\ RoomOK(room') /\ LinkOK(link', room') /\ Grown(room, room')
        /\ room'.generation = room.generation
    BY <1>3, <1>4 DEF Goes, RoomOK
  <1>6. Sound(session, room', seen)
    BY <1>3, <1>5, SoundGrows
  <1>7. \A c \in calls : RequestOK(c, room') /\ (c.current => Awaited(c, session, room', seen))
    BY <1>5, RequestGrows, AwaitedGrows DEF IInv, RequestsOK
  <1>8. \/ answer \in Refusals /\ ~IsPage(answer)
        \/ /\ answer \in Pages /\ AnswerOK(answer, room) /\ answer.generation = room.generation
           /\ Full(answer, call.cursor, room)
           /\ call.cursor = None => answer.through = Len(room.stored)
           /\ room' = room
    <2>1. CASE \E r \in Reasons : answer = Refusal(r)
      BY <2>1 DEF Refusal, Refusals, IsPage, Reasons
    <2>2. CASE ~(\E r \in Reasons : answer = Refusal(r))
      <3>1. room' = room /\ answer = PageAfter(call.cursor, PageSize)
            /\ (call.cursor # None => call.cursor.generation = room.generation)
        BY <1>1, <2>2 DEF Answered, Reasons, sourceVars
      <3>2. call.cursor \in Places /\ CursorOK(call.cursor, room)
        BY <1>3 DEF RequestOK, Requests
      <3> QED BY <1>3, <3>1, <3>2, PageHolds
    <2> QED BY <2>1, <2>2
  <1>9. /\ new \in Requests /\ new.cursor = call.cursor /\ new.current = call.current /\ new.answer = answer
    BY <1>3, <1>8 DEF Requests
  <1> HIDE DEF new
  <1>10. RequestOK(new, room')
    <2>1. AnswerOK(answer, room')
      BY <1>8 DEF AnswerOK
    <2> QED BY <1>7, <1>9, <2>1 DEF RequestOK
  <1>11. ASSUME new.current PROVE Awaited(new, session, room', seen)
    <2>1. session.read # None /\ call.cursor = session.read.cursor
      BY <1>3, <1>9, <1>11 DEF Awaited
    <2>2. ASSUME IsPage(answer), session.generation = room.generation, call.cursor = None, NEW f \in seen
          PROVE  Held(f, answer.through, session.overlay, room)
      <3>1. answer.through = Len(room.stored)
        BY <1>8, <2>2
      <3>2. f \in ToSet(room.stored)
        BY <1>3, <2>2, StoredFacts DEF Sound, Covered
      <3>3. \E i \in 1..Len(room.stored) : room.stored[i] = f
        BY <3>2 DEF ToSet
      <3> QED BY <3>1, <3>3 DEF Held
    <2>3. IsPage(answer) => /\ room' = room /\ answer.generation = room.generation
                            /\ Full(answer, call.cursor, room)
      BY <1>8
    <2> QED BY <1>9, <2>1, <2>2, <2>3 DEF Awaited
  <1>12. RequestsOK(calls', session, room', seen)
    <2>1. \A c \in calls' : c \in calls \/ c = new
      BY <1>1 DEF new
    <2> QED BY <1>7, <1>10, <1>11, <2>1 DEF RequestsOK
  <1>13. Attached(session, link')
    BY <1>4 DEF Goes, IInv, Attached
  <1>14. ASSUME session.read # None PROVE OneCurrent(calls')
    <2>1. PICK c \in calls : c.current /\ \A d \in calls : d.current => d = c
      BY <1>14 DEF IInv, OneCurrent
    <2>2. \A d : d \in calls' <=> d \in calls \ {call} \/ d = new
      BY <1>1 DEF new
    <2>3. CASE c = call
      BY <1>9, <2>1, <2>2, <2>3 DEF OneCurrent
    <2>4. CASE c # call
      BY <1>9, <2>1, <2>2, <2>4 DEF OneCurrent
    <2> QED BY <2>3, <2>4
  <1> QED BY <1>2, <1>5, <1>6, <1>12, <1>13, <1>14 DEF IInv, Kept

LEMMA DeliverKeeps ==
  ASSUME IInv, Deliver
  PROVE  /\ IInv'
         /\ session'.generation = session.generation =>
              session'.overlay = session.overlay
              \/ \E X \in SUBSET Item : session'.overlay \subseteq Join(session.overlay, X)
  <1> DEFINE update == Update(link, Head(link.queue))
             from == Followed(link, Head(link.queue))
             items == IF session.status = "closed" THEN {} ELSE update.items
             t == Opened(Accepted(session, update))
  <1>1. link.connected /\ link.queue # <<>> /\ room' = room /\ Install(t, calls, from, items)
    BY DEF Deliver
  <1>2. /\ RoomOK(room) /\ LinkOK(link, room) /\ Sound(session, room, seen) /\ ~session.ask /\ ~session.reconnect
        /\ \A c \in calls : RequestOK(c, room) /\ (c.current => Awaited(c, session, room, seen))
        /\ (session.read # None => OneCurrent(calls))
    BY DEF IInv, RequestsOK
  <1>3. UpdateOK(update, room) /\ (update.kind # "baseline" => link.baseline # None)
    BY <1>1, <1>2, UpdateHolds
  <1>4. LinkOK(from, room) /\ from.connected /\ from.baseline # None
    BY <1>1, <1>2, FollowedHolds
  <1>5. update.items \in SUBSET Item
    BY <1>3 DEF UpdateOK, Updates
  <1> HIDE DEF from, update
  <1>6. Witnessed(t, items) = Seen(session, t.generation, seen, items)
    BY WitnessedIs
  <1>7. /\ Resumes(session, t, room, seen, Witnessed(t, items)) /\ ~t.reconnect
        /\ (t.opened \/ t.status = "closed")
        /\ t.generation = session.generation =>
             t.overlay = session.overlay \/ t.overlay \subseteq Join(session.overlay, update.items)
    <2>1. CASE session.status = "closed"
      <3>1. t = session
        BY <2>1 DEF Opened, Accepted
      <3>2. Witnessed(t, items) = seen
        BY <1>6, <2>1, <3>1, NothingGiven
      <3> HIDE DEF t, items
      <3> QED BY <1>2, <2>1, <3>1, <3>2 DEF Resumes
    <2>2. CASE session.status # "closed"
      <3>1. ~session.opened => update.kind = "baseline"
        BY <1>3, <2>2 DEF IInv, Attached
      <3>2. items = update.items
        BY <2>2
      <3>3. /\ Resumes(session, t, room, seen, Seen(session, t.generation, seen, update.items))
            /\ t.opened /\ ~t.reconnect
            /\ t.generation = session.generation => t.overlay \subseteq Join(session.overlay, update.items)
        BY <1>2, <1>3, <2>2, <3>1, OpenedHolds
      <3> HIDE DEF t, items
      <3> QED BY <1>6, <3>2, <3>3
    <2> QED BY <2>1, <2>2
  <1> HIDE DEF t, items
  <1>8. Attached(t, from)
    BY <1>4, <1>7 DEF Attached
  <1>9. IInv' /\ Kept(t)
    BY <1>1, <1>2, <1>4, <1>7, <1>8, InstallHolds DEF Resumes
  <1> QED BY <1>5, <1>7, <1>9 DEF Kept

\* A request that is answered.
LEMMA ReceiveKeeps ==
  ASSUME IInv, NEW call \in calls, Receive(call)
  PROVE  IInv' /\ session'.overlay = session.overlay
  <1> DEFINE t == Settled(session, call)
             waiting == calls \ {call}
  <1>1. call.answer # None /\ room' = room /\ Install(t, waiting, link, {})
    BY DEF Receive
  <1>2. /\ RoomOK(room) /\ LinkOK(link, room) /\ Sound(session, room, seen) /\ ~session.ask /\ ~session.reconnect
        /\ Attached(session, link)
        /\ \A c \in calls : RequestOK(c, room) /\ (c.current => Awaited(c, session, room, seen))
    BY DEF IInv, RequestsOK
  <1>3. Witnessed(t, {}) = Seen(session, t.generation, seen, {})
    BY WitnessedIs
  <1>4. CASE call.current
    <2>1. Settles(session, t, room, seen)
      BY <1>1, <1>2, <1>4, SettledSettles
    <2>2. link.connected
      <3>1. Active(session)
        BY <1>2, <1>4 DEF Awaited, Sound, Phases, Active
      <3> QED BY <1>2, <3>1 DEF Attached
    <2> HIDE DEF t, waiting
    <2>3. Attached(t, link) /\ (t.reconnect => t.read = None)
      BY <1>2, <2>1, <2>2 DEF Settles, Attached
    <2>4. Sound(t, room, Witnessed(t, {})) /\ (t.ask <=> t.read # None) /\ t.overlay = session.overlay
      BY <1>3, <2>1 DEF Settles
    <2>5. \A c \in waiting : RequestOK(c, room)
      BY <1>2 DEF waiting
    <2>6. IInv' /\ Kept(t)
      BY <1>1, <1>2, <2>3, <2>4, <2>5, InstallHolds
    <2> QED BY <2>4, <2>6 DEF Kept
  <1>5. CASE ~call.current
    <2>1. t = session
      BY <1>5 DEF Settled
    <2>2. Witnessed(t, {}) = seen
      BY <1>3, <2>1, NothingGiven
    <2>3. session.read # None => OneCurrent(waiting)
      BY <1>5 DEF IInv, OneCurrent
    <2>4. \A c \in waiting : RequestOK(c, room) /\ (c.current => Awaited(c, session, room, seen))
      BY <1>2
    <2> HIDE DEF t, waiting
    <2>5. IInv' /\ Kept(t)
      BY <1>1, <1>2, <2>1, <2>2, <2>3, <2>4, InstallHolds
    <2> QED BY <2>1, <2>5 DEF Kept
  <1> QED BY <1>4, <1>5

LEMMA MountKeeps ==
  ASSUME IInv, Mount
  PROVE  IInv' /\ session.overlay = {} /\ ShownPages(session) = {}
  <1> DEFINE b == link.baseline
             s == IF b # None THEN LoadedNext(Accepted(Fresh, b)) ELSE Fresh
             items == IF b # None THEN b.items ELSE {}
  <1>1. session.status = "closed" /\ room' = room /\ Install(s, calls, link, items)
    BY DEF Mount
  <1>2. RoomOK(room) /\ LinkOK(link, room) /\ Sound(session, room, seen)
    BY DEF IInv
  <1>3. Empty(session) /\ session.read = None
    BY <1>1, <1>2 DEF Sound, Phases
  <1>4. seen = {}
    <2>1. Past(room, 0) = {}
      BY DEF Past, Generations
    <2> QED BY <1>2, <1>3, <2>1 DEF Sound, Covered, Empty
  <1>5. Sound(Fresh, room, {})
    BY <1>2, FreshHolds
  <1>6. Witnessed(s, items) = Seen(Fresh, s.generation, {}, items)
    BY <1>4 DEF Witnessed, Seen, Given
  <1>7. /\ Sound(s, room, Witnessed(s, items)) /\ Attached(s, link) /\ (s.ask <=> s.read # None) /\ ~s.reconnect
    <2>1. CASE b = None
      <3>1. s = Fresh /\ items = {}
        BY <2>1
      <3>2. Witnessed(s, items) = {}
        BY <1>6, <3>1, NothingGiven
      <3> HIDE DEF s, items
      <3> QED BY <1>5, <2>1, <3>1, <3>2 DEF Attached, Active, Fresh
    <2>2. CASE b # None
      <3>1. UpdateOK(b, room) /\ b.kind = "baseline" /\ link.connected
        BY <1>2, <2>2 DEF LinkOK, UpdateOK, Links
      <3>2. Fresh.status # "closed" /\ ~Fresh.ask /\ ~Fresh.reconnect /\ ~Fresh.opened
        BY DEF Fresh
      <3> DEFINE t == Opened(Accepted(Fresh, b))
      <3>3. /\ Resumes(Fresh, t, room, {}, Seen(Fresh, t.generation, {}, b.items))
            /\ t.opened /\ ~t.reconnect /\ LoadedNext(Accepted(Fresh, b)) = t
        BY <1>5, <3>1, <3>2, OpenedHolds
      <3>4. s = t /\ items = b.items
        BY <2>2, <3>3
      <3> HIDE DEF s, items, t, b
      <3>5. Attached(s, link)
        BY <3>1, <3>3, <3>4 DEF Attached
      <3>6. Fresh.read = None
        BY DEF Fresh
      <3> QED BY <1>6, <3>3, <3>4, <3>5, <3>6 DEF Resumes
    <2> QED BY <2>1, <2>2
  <1> HIDE DEF s, items
  <1>8. \A c \in calls : RequestOK(c, room) /\ ~c.current
    BY <1>3, NoneCurrent
  <1>9. IInv' /\ Kept(s)
    BY <1>1, <1>2, <1>7, <1>8, InstallHolds
  <1> QED BY <1>3, <1>9 DEF Empty, ShownPages

LEMMA CloseKeeps ==
  ASSUME IInv, Close
  PROVE  IInv' /\ session'.overlay = {} /\ ShownPages(session') = {}
  <1>1. session' = Closed /\ calls' = Superseded(calls) /\ seen' = {} /\ room' = room /\ link' = link
    BY DEF Close
  <1>2. RoomOK(room) /\ LinkOK(link, room) /\ \A c \in calls : RequestOK(c, room)
    BY DEF IInv, RequestsOK
  <1>3. Sound(Closed, room, {})
    BY <1>2, FreshHolds
  <1>4. /\ ~Closed.ask /\ ~Closed.reconnect /\ Closed.status = "closed" /\ Closed.overlay = {}
        /\ Closed.retained = None /\ Closed.pages = {} /\ Closed.read = None
    BY DEF Closed, Fresh
  <1>5. Attached(Closed, link)
    BY <1>4 DEF Attached, Active
  <1>6. \A c \in Superseded(calls) : RequestOK(c, room) /\ ~c.current
    BY <1>2, SupersededHolds
  <1>7. RequestsOK(calls', Closed, room, {})
    BY <1>1, <1>6 DEF RequestsOK
  <1> QED BY <1>1, <1>2, <1>3, <1>4, <1>5, <1>7 DEF IInv, ShownPages

LEMMA LoadKeeps ==
  ASSUME IInv, LoadNextPage
  PROVE  IInv' /\ Kept(session)
  <1> DEFINE t == LoadedNext(session)
  <1>1. CanLoad(session) /\ room' = room /\ Install(t, calls, link, {})
    BY DEF LoadNextPage
  <1>2. /\ RoomOK(room) /\ LinkOK(link, room) /\ Sound(session, room, seen) /\ ~session.reconnect
        /\ Attached(session, link) /\ \A c \in calls : RequestOK(c, room)
    BY DEF IInv, RequestsOK
  <1>3. Active(session) /\ session.opened /\ session.status = "ready" /\ session.retained = None
    <2>1. session \in Sessions /\ Phases(session) /\ session.hasBaseline
      BY <1>1, <1>2 DEF Sound, CanLoad
    <2>2. Active(session) /\ session.opened
      BY <2>1, OpenWithBaseline
    <2>3. session.status = "ready"
      BY <1>1, <2>1, <2>2 DEF Active, Phases, CanLoad
    <2> QED BY <2>1, <2>2, <2>3 DEF Phases
  <1>4. Paging(session, room, seen)
    BY <1>1, <1>2, <1>3, ContentOf DEF Paging, Sound, Pinned, CanLoad
  <1>5. Begun(session, t, room, seen)
    BY <1>1, <1>3, <1>4, LoadedBegins
  <1> HIDE DEF t
  <1>6. Witnessed(t, {}) = seen
    BY <1>5, WitnessedIs, NothingGiven DEF Begun
  <1>7. t.opened
    BY <1>5 DEF Begun, Sound, Phases
  <1>8. Attached(t, link)
    BY <1>2, <1>3, <1>7 DEF Attached
  <1>9. IInv' /\ Kept(t)
    BY <1>1, <1>2, <1>5, <1>6, <1>8, InstallHolds DEF Begun
  <1> QED BY <1>5, <1>9 DEF Begun, Kept

LEMMA RetryKeeps ==
  ASSUME IInv, Retry
  PROVE  IInv' /\ Kept(session)
  <1> DEFINE t == Retried(session)
  <1>1. /\ session.read = None /\ session.status = "error" /\ session.hasBaseline
        /\ room' = room /\ Install(t, calls, link, {})
    BY DEF Retry
  <1>2. /\ RoomOK(room) /\ LinkOK(link, room) /\ Sound(session, room, seen) /\ ~session.reconnect
        /\ Attached(session, link) /\ \A c \in calls : RequestOK(c, room)
    BY DEF IInv, RequestsOK
  <1>3. Begun(session, t, room, seen)
    BY <1>1, <1>2, RetriedBegins
  <1> HIDE DEF t
  <1>4. Witnessed(t, {}) = seen
    BY <1>3, WitnessedIs, NothingGiven DEF Begun
  <1>5. t.opened
    BY <1>3 DEF Begun, Sound, Phases
  <1>6. Attached(t, link)
    BY <1>1, <1>2, <1>5 DEF Attached, Active
  <1>7. IInv' /\ Kept(t)
    BY <1>1, <1>2, <1>3, <1>4, <1>6, InstallHolds DEF Begun
  <1> QED BY <1>3, <1>7 DEF Begun, Kept

LEMMA RefreshKeeps ==
  ASSUME IInv, RefreshToNewest
  PROVE  IInv' /\ Kept(session)
  <1> DEFINE t == Newer(session)
  <1>1. session.status # "closed" /\ room' = room /\ Install(t, calls, link, {})
    BY DEF RefreshToNewest
  <1>2. /\ RoomOK(room) /\ LinkOK(link, room) /\ Sound(session, room, seen) /\ ~session.ask /\ ~session.reconnect
        /\ Attached(session, link)
        /\ \A c \in calls : RequestOK(c, room) /\ (c.current => Awaited(c, session, room, seen))
        /\ (session.read # None => OneCurrent(calls))
    BY DEF IInv, RequestsOK
  <1>3. /\ Resumes(session, t, room, seen, seen) /\ ~t.reconnect /\ t.overlay = session.overlay
        /\ t.generation = session.generation
        /\ (Active(t) => Active(session)) /\ (~t.opened => ~session.opened)
    BY <1>1, <1>2, NewerHolds
  <1> HIDE DEF t
  <1>4. Witnessed(t, {}) = seen
    BY <1>3, WitnessedIs, NothingGiven
  <1>5. Attached(t, link)
    BY <1>1, <1>2, <1>3 DEF Attached
  <1>6. IInv' /\ Kept(t)
    BY <1>1, <1>2, <1>3, <1>4, <1>5, InstallHolds DEF Resumes
  <1> QED BY <1>3, <1>6 DEF Kept

LEMMA PositionKeeps ==
  ASSUME IInv, UpdateReadingPosition
  PROVE  IInv' /\ Kept(session)
  <1>1. PICK fact \in (FactsOf(Shown(session)) \cap Anchors) \cup {0} :
          session' = [session EXCEPT !.position = fact]
    BY DEF UpdateReadingPosition
  <1>2. room' = room /\ link' = link /\ calls' = calls /\ seen' = seen
    BY DEF UpdateReadingPosition
  <1>3. session \in Sessions /\ Sound(session, room, seen)
    BY DEF IInv, Sound
  <1>4. fact # 0 => fact \in ShownPages(session) \cup FactsOf(session.overlay)
    BY <1>3, ShownHolds
  <1>5. fact \in {0} \cup Fact
    BY <1>3, <1>4, ShownHolds DEF Sessions, FactsOf, Item
  <1> DEFINE t == [session EXCEPT !.position = fact]
  <1>6. /\ t \in Sessions /\ t.position = fact
        /\ t.pages = session.pages /\ t.retained = session.retained /\ t.overlay = session.overlay
        /\ t.overflow = session.overflow /\ SamePin(session, t) /\ SameFlow(session, t)
        /\ t.read = session.read /\ t.ask = session.ask
    BY <1>3, <1>5 DEF Sessions, SamePin, SameFlow
  <1>7. session' = t
    BY <1>1
  <1> HIDE DEF t
  <1>8. /\ Sound(t, room, seen)
        /\ \A c : Awaited(c, session, room, seen) => Awaited(c, t, room, seen)
    BY <1>3, <1>4, <1>6, MovedHolds
  <1>9. Attached(t, link) /\ ~t.ask /\ ~t.reconnect
    BY <1>6 DEF IInv, Attached, Active, SameFlow
  <1>10. RequestsOK(calls, t, room, seen)
    BY <1>8 DEF IInv, RequestsOK
  <1> QED BY <1>2, <1>6, <1>7, <1>8, <1>9, <1>10 DEF IInv, Kept, SamePin

LEMMA InitHolds ==
  ASSUME Init
  PROVE  IInv
  <1> DEFINE past == [g \in 1..MaxGeneration |-> {}]
             r == [generation |-> 1, known |-> 1, available |-> TRUE, stored |-> <<>>, recent |-> {},
                   last |-> 0, faults |-> 0, past |-> past]
             l == [connected |-> FALSE, queue |-> <<>>, lastKnown |-> 0, baseline |-> None]
  <1>1. room = r /\ link = l /\ session = Closed /\ calls = {} /\ seen = {}
    BY DEF Init, SourceInit
  <1>2. 1 \in Generations /\ past \in [Generations -> SUBSET Fact] /\ \A g \in Generations : past[g] = {}
    BY Bounds DEF Generations
  <1>3. <<>> \in Seq(Fact) /\ <<>> \in Seq(Messages) /\ ToSet(<<>>) = {}
    BY DEF ToSet
  <1> HIDE DEF past
  <1>4. r \in Rooms
    BY <1>2, <1>3 DEF Rooms, Known
  <1>5. /\ r.generation = 1 /\ r.known = 1 /\ r.available = TRUE /\ r.stored = <<>> /\ r.recent = {} /\ r.last = 0
        /\ r.faults = 0 /\ r.past = past
    OBVIOUS
  <1> HIDE DEF r
  <1>6. RoomOK(r)
    <2>1. r.last + (MaxFaults - r.faults) + (IF r.available THEN 0 ELSE 1) <= MaxFact /\ r.faults <= MaxFaults
      BY <1>5, Bounds
    <2>2. r.past[r.generation] = ToSet(r.stored) /\ \A g \in Generations : g > r.generation => r.past[g] = {}
      BY <1>2, <1>3, <1>5
    <2>3. Of(r.recent, Past(r, r.known))
      BY <1>5 DEF Of
    <2>4. r.known \in {0, r.generation} /\ (r.available => r.known = r.generation)
      BY <1>5
    <2> QED BY <1>4, <2>1, <2>2, <2>3, <2>4 DEF RoomOK
  <1>7. l \in Links /\ l.queue = <<>> /\ l.lastKnown = 0 /\ l.baseline = None /\ ~l.connected /\ Len(l.queue) = 0
    BY <1>3 DEF Links, Known
  <1> HIDE DEF l
  <1>8. LinkOK(l, r)
    BY <1>5, <1>7 DEF LinkOK
  <1>9. Sound(Closed, r, {})
    BY <1>6, FreshHolds
  <1>10. ~Closed.ask /\ ~Closed.reconnect /\ Closed.status = "closed" /\ Closed.read = None
    BY DEF Closed, Fresh
  <1>11. Attached(Closed, l)
    BY <1>10 DEF Attached, Active
  <1> QED BY <1>1, <1>6, <1>8, <1>9, <1>10, <1>11 DEF IInv, RequestsOK

-----------------------------------------------------------------------------
(* The theorems *)

LEMMA StepKeeps ==
  ASSUME IInv, [Next]_liveVars
  PROVE  IInv'
  <1>1. CASE Source
    BY <1>1, SourceKeeps
  <1>2. CASE Deliver
    BY <1>2, DeliverKeeps
  <1>3. CASE Break
    BY <1>3, BreakKeeps
  <1>4. ASSUME NEW call \in calls, Handle(call) \/ Receive(call) PROVE IInv'
    BY <1>4, HandleKeeps, ReceiveKeeps
  <1>5. CASE Mount
    BY <1>5, MountKeeps
  <1>6. CASE Close
    BY <1>6, CloseKeeps
  <1>7. CASE LoadNextPage
    BY <1>7, LoadKeeps
  <1>8. CASE Retry
    BY <1>8, RetryKeeps
  <1>9. CASE RefreshToNewest
    BY <1>9, RefreshKeeps
  <1>10. CASE UpdateReadingPosition
    BY <1>10, PositionKeeps
  <1>11. CASE UNCHANGED liveVars
    <2>1. room' = room /\ link' = link /\ session' = session /\ calls' = calls /\ seen' = seen
      BY <1>11 DEF liveVars
    <2> QED BY <2>1 DEF IInv
  <1> QED BY <1>1, <1>2, <1>3, <1>4, <1>5, <1>6, <1>7, <1>8, <1>9, <1>10, <1>11 DEF Next

\* The session holds what its generation stored, from its newest entry down to its next
\* page, and each request in flight is for the page it goes on with.
THEOREM SessionIsSound == Spec => []IInv
  <1>1. Init => IInv
    BY InitHolds
  <1>2. IInv /\ [Next]_liveVars => IInv'
    BY StepKeeps
  <1> QED BY <1>1, <1>2, PTL DEF Spec

\* What the session holds is of its types, and it waits for one request when it is loading,
\* for none otherwise.
THEOREM SessionTypes == Spec => []TypeOK
  <1>1. ASSUME IInv PROVE TypeOK
    <2> DEFINE current == {call \in calls : call.current}
    <2>1. session \in Sessions /\ Phases(session)
      BY <1>1 DEF IInv, Sound
    <2>2. /\ session.pages \subseteq Fact /\ session.overlay \subseteq Item
          /\ session.position \in Fact \cup {0}
          /\ session.status \in {"waiting_for_baseline", "idle", "loading", "ready", "error", "closed"}
      BY <2>1 DEF Sessions
    <2>3. CASE session.read = None
      <3>1. current = {}
        BY <1>1, <2>3, NoneCurrent
      <3>2. Cardinality(current) = 0
        BY <3>1, FS_EmptySet
      <3> QED BY <2>1, <2>2, <2>3, <3>2 DEF TypeOK, Phases
    <2>4. CASE session.read # None
      <3>1. PICK c \in calls : c.current /\ \A d \in calls : d.current => d = c
        BY <1>1, <2>4 DEF IInv, OneCurrent
      <3>2. current = {c}
        BY <3>1
      <3>3. Cardinality(current) = 1
        BY <3>2, FS_Singleton
      <3> QED BY <2>1, <2>2, <2>4, <3>3 DEF TypeOK, Phases
    <2> QED BY <2>3, <2>4
  <1> QED BY <1>1, SessionIsSound, PTL

\* The list that claims to be current leaves out nothing it should hold.
THEOREM ListsAreComplete == Spec => []NothingMissing
  <1>1. ASSUME IInv, session.status = "ready", ~session.overflow PROVE
          LET reached(f) == session.next = None \/ f >= session.next.after
              pinned == IF session.generation = room.generation
                        THEN {room.stored[i] : i \in 1..session.through} ELSE {}
          IN  \A f \in seen \cup pinned : reached(f) => [fact |-> f, durable |-> TRUE] \in Shown(session)
    <2> DEFINE reached(f) == session.next = None \/ f >= session.next.after
               pinned == IF session.generation = room.generation
                         THEN {room.stored[i] : i \in 1..session.through} ELSE {}
    <2>1. session \in Sessions /\ Active(session) /\ session.hasPage /\ session.retained = None
      BY <1>1 DEF IInv, Sound, Phases, Active
    <2>2. /\ ShownPages(session) = session.pages /\ session.pages \in SUBSET Fact
          /\ \A item \in Durable(session.pages) \cup session.overlay : item.durable => item \in Shown(session)
      BY <2>1, ShownHolds DEF ShownPages
    <2>3. ASSUME NEW f \in session.pages PROVE [fact |-> f, durable |-> TRUE] \in Shown(session)
      BY <2>2, <2>3, DurableHolds
    <2>4. \A i \in 1..session.through : reached(room.stored[i]) => room.stored[i] \in session.pages
      BY <1>1, <2>1 DEF IInv, Sound, Whole
    <2>5. ASSUME NEW f \in seen, reached(f) PROVE [fact |-> f, durable |-> TRUE] \in Shown(session)
      <3>1. Held(f, session.through, session.overlay, room)
        BY <1>1, <2>1 DEF IInv, Sound, Covered
      <3>2. CASE \E i \in 1..session.through : room.stored[i] = f
        BY <2>3, <2>4, <2>5, <3>2
      <3>3. CASE [fact |-> f, durable |-> TRUE] \in session.overlay
        BY <2>2, <3>3
      <3> QED BY <3>1, <3>2, <3>3 DEF Held
    <2>6. ASSUME NEW f \in pinned, reached(f) PROVE [fact |-> f, durable |-> TRUE] \in Shown(session)
      BY <2>3, <2>4, <2>6
    <2> QED BY <2>5, <2>6
  <1>2. IInv => NothingMissing
    BY <1>1 DEF NothingMissing
  <1> QED BY <1>2, SessionIsSound, PTL

\* The list has one entry a fact, and one that claims to be current is of one database.
THEOREM ListsAreOfOneDatabase == Spec => []OneGeneration
  <1>1. ASSUME IInv PROVE OneGeneration
    <2>1. session \in Sessions
      BY <1>1 DEF IInv, Sound
    <2>2. ASSUME session.status = "ready", NEW item \in Shown(session), item.durable
          PROVE  item.fact \in room.past[session.generation]
      <3>1. session.hasPage /\ session.retained = None /\ session.generation # 0
        BY <1>1, <2>2 DEF IInv, Sound, Phases, Pinned, PinOK
      <3>2. Past(room, session.generation) = room.past[session.generation]
        BY <2>1, <3>1 DEF Past, Sessions, Known
      <3>3. item \in Durable(session.pages) \/ item \in session.overlay
        BY <2>1, <2>2, <3>1, ShownHolds DEF ShownPages
      <3>4. CASE item \in Durable(session.pages)
        <4>1. item.fact \in session.pages
          BY <3>4 DEF Durable
        <4> QED BY <1>1, <3>2, <4>1 DEF IInv, Sound, Dated
      <3>5. CASE item \in session.overlay
        BY <1>1, <2>2, <3>2, <3>5 DEF IInv, Sound, Dated, Of
      <3> QED BY <3>3, <3>4, <3>5
    <2>3. \A a, b \in Shown(session) : a.fact = b.fact => a = b
      BY <2>1, ShownHolds
    <2> QED BY <2>2, <2>3 DEF OneGeneration
  <1> QED BY <1>1, SessionIsSound, PTL

\* The entry that is read stays on the list.
THEOREM AnchorsAreShown == Spec => []AnchorIsShown
  <1>1. ASSUME IInv PROVE AnchorIsShown
    BY <1>1, ShownHolds DEF IInv, Sound, Anchored, AnchorIsShown
  <1> QED BY <1>1, SessionIsSound, PTL

\* What becomes of the overlay in a step by one database.
LEMMA OverlayKeeps ==
  ASSUME IInv, [Next]_liveVars, session'.generation = session.generation
  PROVE  \/ session'.overlay = session.overlay
         \/ \E X \in SUBSET Item : session'.overlay \subseteq Join(session.overlay, X)
         \/ Shown(session) = {}
         \/ Shown(session') = {}
  <1>1. CASE Source
    BY <1>1, SourceKeeps DEF Kept
  <1>2. CASE Deliver
    BY <1>2, DeliverKeeps
  <1>3. CASE Break
    BY <1>3, BreakKeeps DEF Kept
  <1>4. ASSUME NEW call \in calls, Handle(call) \/ Receive(call) PROVE session'.overlay = session.overlay
    BY <1>4, HandleKeeps, ReceiveKeeps DEF Kept
  <1>5. CASE Mount
    BY <1>5, MountKeeps, JoinHolds DEF Shown, Durable, Join
  <1>6. CASE Close
    BY <1>6, CloseKeeps DEF Shown, Durable, Join
  <1>7. CASE LoadNextPage
    BY <1>7, LoadKeeps DEF Kept
  <1>8. CASE Retry
    BY <1>8, RetryKeeps DEF Kept
  <1>9. CASE RefreshToNewest
    BY <1>9, RefreshKeeps DEF Kept
  <1>10. CASE UpdateReadingPosition
    BY <1>10, PositionKeeps DEF Kept
  <1>11. CASE UNCHANGED liveVars
    BY <1>11 DEF liveVars
  <1> QED BY <1>1, <1>2, <1>3, <1>4, <1>5, <1>6, <1>7, <1>8, <1>9, <1>10, <1>11 DEF Next

\* As long as its page is kept, a durable entry is not taken back.
THEOREM DurableStaysDurable == Spec => NeverDemoted
  <1>1. ASSUME IInv, IInv', [Next]_liveVars, ShownPages(session) \subseteq ShownPages(session'),
               session'.generation = session.generation, NEW item \in Shown(session), item.durable
        PROVE  [item EXCEPT !.durable = FALSE] \notin Shown(session')
    <2> DEFINE copy == [item EXCEPT !.durable = FALSE]
    <2>1. session \in Sessions /\ session' \in Sessions
      BY <1>1 DEF IInv, Sound
    <2>2. item \in Item /\ item = [fact |-> item.fact, durable |-> TRUE]
      BY <1>1, <2>1, ShownHolds, DurableItem
    <2>3. copy.fact = item.fact /\ copy # item /\ ~copy.durable
      BY <2>2
    <2> HIDE DEF copy
    <2>4. item \in Shown(session') => copy \notin Shown(session')
      BY <2>1, <2>3, ShownHolds
    <2>5. \A i \in Durable(ShownPages(session')) \cup session'.overlay : i.durable => i \in Shown(session')
      BY <2>1, ShownHolds
    <2>6. CASE item \in Durable(ShownPages(session))
      <3>1. item \in Durable(ShownPages(session'))
        BY <1>1, <2>6 DEF Durable
      <3> QED BY <1>1, <2>4, <2>5, <3>1 DEF copy
    <2>7. CASE item \in session.overlay
      <3>1. CASE session'.overlay = session.overlay
        BY <1>1, <2>4, <2>5, <2>7, <3>1 DEF copy
      <3>2. ASSUME NEW X \in SUBSET Item, session'.overlay \subseteq Join(session.overlay, X)
            PROVE  copy \notin Shown(session')
        <4>1. session.overlay \in SUBSET Item
          BY <2>1 DEF Sessions
        <4>2. /\ \A i \in session.overlay \cup X : i.durable => i \in Join(session.overlay, X)
              /\ \A a, b \in Join(session.overlay, X) : a.fact = b.fact => a = b
          BY <4>1, JoinHolds
        <4>3. copy \notin session'.overlay
          BY <1>1, <2>3, <2>7, <3>2, <4>2
        <4>4. copy \notin Durable(ShownPages(session'))
          BY <2>1, <2>3, ShownHolds, DurableHolds
        <4> QED BY <2>1, <4>3, <4>4, ShownHolds
      <3>3. CASE Shown(session) = {}
        BY <1>1, <3>3
      <3>4. CASE Shown(session') = {}
        BY <3>4 DEF copy
      <3> QED BY <1>1, <3>1, <3>2, <3>3, <3>4, OverlayKeeps DEF copy
    <2>8. item \in Durable(ShownPages(session)) \cup session.overlay
      BY <1>1, <2>1, ShownHolds
    <2> QED BY <2>6, <2>7, <2>8
  <1>2. IInv /\ IInv' /\ [Next]_liveVars
          => (ShownPages(session) \subseteq ShownPages(session') /\ session'.generation = session.generation =>
                \A item \in Shown(session) :
                  item.durable => [item EXCEPT !.durable = FALSE] \notin Shown(session'))
    BY <1>1
  <1> QED BY <1>2, SessionIsSound, PTL DEF Spec, NeverDemoted

=============================================================================
