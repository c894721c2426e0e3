-------------------------- MODULE RealtimeSyncProofs --------------------------
(***************************************************************************)
(* Proofs about RealtimeSync: the application is brought every revision    *)
(* once and in order, never shows an older room after a newer one or what  *)
(* no publication says, and shows the room of the engine once it has       *)
(* received everything.                                                    *)
(*                                                                         *)
(* The invariant follows each message that is still to arrive: from the    *)
(* room that is shown, what the stream of the client carries Leads through *)
(* consistent rooms, each at least as recent as the one before, to one     *)
(* that is Current as long as the stream is open.                          *)
(***************************************************************************)
EXTENDS RealtimeSync, FiniteSetTheorems, SequenceTheorems, TLAPS

\* Room b is at least as recent as room a.
AtMost(a, b) ==
  /\ \A p \in Part : a.parts[p].version <= b.parts[p].version
  /\ a.platform.outage <= b.platform.outage
  /\ a.platform.through <= b.platform.through

Covered(parts, platform) == \A p \in Part : platform.covers[p] <= parts[p].version

\* silent: the outages that began without being published.
Explained(parts, platform, silent) ==
  \A p \in Part : parts[p].outage <= platform.outage \/ parts[p].outage \in silent

Together(parts) ==
  /\ parts["led"].joint => parts["commands"].version >= parts["led"].version
  /\ parts["commands"].joint => parts["led"].version >= parts["commands"].version

\* A room that may be shown.
Good(v, silent) ==
  Covered(v.parts, v.platform) /\ Explained(v.parts, v.platform, silent) /\ Together(v.parts)

Room(parts, platform) == [parts |-> parts, platform |-> platform]

\* Applying the messages one by one to a room gives a room, through good ones only,
\* none older than one before it.
Leads(messages, from, to, silent) ==
  \E V \in [0..Len(messages) -> Snapshot] :
    /\ V[0] = from /\ V[Len(messages)] = to
    /\ \A i \in 1..Len(messages) : V[i] = Applied(V[i - 1], messages[i]) /\ Good(V[i], silent)
    /\ \A j \in 0..Len(messages) : \A i \in 0..j : AtMost(V[i], V[j])

-----------------------------------------------------------------------------
(* Rooms *)

LEMMA SnapshotFields ==
  ASSUME NEW v \in Snapshot
  PROVE  /\ v.parts \in [Part -> PartRecord] /\ v.platform \in PlatformRecord
         /\ \A p \in Part : /\ v.parts[p] \in PartRecord
                            /\ v.parts[p].version \in Nat /\ v.parts[p].outage \in Nat
                            /\ v.platform.covers[p] \in Nat
         /\ v.platform.outage \in Nat /\ v.platform.through \in Nat
         /\ v = [parts |-> v.parts, platform |-> v.platform]
BY DEF Snapshot, PartRecord, PlatformRecord

LEMMA RoomFields ==
  ASSUME NEW parts \in [Part -> PartRecord], NEW platform \in PlatformRecord
  PROVE  /\ Room(parts, platform) \in Snapshot
         /\ Room(parts, platform).parts = parts /\ Room(parts, platform).platform = platform
BY DEF Room, Snapshot

LEMMA AtMostItself == ASSUME NEW v \in Snapshot PROVE AtMost(v, v)
BY SnapshotFields DEF AtMost

LEMMA AtMostTransitive ==
  ASSUME NEW a \in Snapshot, NEW b \in Snapshot, NEW c \in Snapshot,
         AtMost(a, b), AtMost(b, c)
  PROVE  AtMost(a, c)
<1>1. ASSUME NEW p \in Part PROVE a.parts[p].version <= c.parts[p].version
  <2>1. /\ a.parts[p].version \in Nat /\ b.parts[p].version \in Nat /\ c.parts[p].version \in Nat
    BY SnapshotFields
  <2>2. QED BY <2>1 DEF AtMost
<1>2. a.platform.outage <= c.platform.outage /\ a.platform.through <= c.platform.through
  BY SnapshotFields DEF AtMost
<1>3. QED BY <1>1, <1>2 DEF AtMost

LEMMA GoodStays ==
  ASSUME NEW v, NEW some, NEW more, Good(v, some), some \subseteq more
  PROVE  Good(v, more)
BY DEF Good, Explained

-----------------------------------------------------------------------------
(* Where messages lead *)

LEMMA LeadsNowhere ==
  ASSUME NEW v \in Snapshot, NEW silent
  PROVE  Leads(<<>>, v, v, silent)
<1> DEFINE V == [i \in 0..0 |-> v]
<1>1. V \in [0..Len(<<>>) -> Snapshot] /\ V[0] = v /\ V[Len(<<>>)] = v
  OBVIOUS
<1>2. \A j \in 0..Len(<<>>) : \A i \in 0..j : AtMost(V[i], V[j])
  BY AtMostItself
<1>3. \A i \in 1..Len(<<>>) : FALSE
  OBVIOUS
<1> HIDE DEF V
<1>4. QED BY <1>1, <1>2, <1>3 DEF Leads

LEMMA NothingLeads ==
  ASSUME NEW v, NEW w, NEW silent, Leads(<<>>, v, w, silent)
  PROVE  v = w
BY DEF Leads

LEMMA LeadsOnce ==
  ASSUME NEW v \in Snapshot, NEW m, NEW silent,
         Applied(v, m) \in Snapshot, Good(Applied(v, m), silent), AtMost(v, Applied(v, m))
  PROVE  Leads(<<m>>, v, Applied(v, m), silent)
<1> DEFINE w == Applied(v, m)
           V == [i \in 0..1 |-> IF i = 0 THEN v ELSE w]
<1>0. Len(<<m>>) = 1 /\ <<m>>[1] = m
  OBVIOUS
<1>a. w \in Snapshot /\ Good(w, silent) /\ AtMost(v, w) /\ w = Applied(v, m)
  OBVIOUS
<1> HIDE DEF w
<1>1. V \in [0..1 -> Snapshot] /\ V[0] = v /\ V[1] = w
  BY <1>a
<1>2. AtMost(v, v) /\ AtMost(w, w)
  BY AtMostItself, <1>a
<1>3. \A j \in 0..1 : \A i \in 0..j : AtMost(V[i], V[j])
  BY <1>1, <1>2, <1>a
<1>4. \A i \in 1..1 : V[i] = Applied(V[i - 1], <<m>>[i]) /\ Good(V[i], silent)
  BY <1>0, <1>1, <1>a
<1> HIDE DEF V
<1>5. Leads(<<m>>, v, w, silent)
  BY <1>0, <1>1, <1>3, <1>4 DEF Leads
<1>6. QED BY <1>5, <1>a

LEMMA LeadsThrough ==
  ASSUME NEW u \in Snapshot, NEW v \in Snapshot, NEW w \in Snapshot, NEW silent,
         NEW S, NEW a \in Seq(S), NEW b \in Seq(S), Leads(a, u, v, silent), Leads(b, v, w, silent)
  PROVE  Leads(a \o b, u, w, silent)
<1> DEFINE m == Len(a) n == Len(b)
<1>1. PICK A \in [0..m -> Snapshot] :
         /\ A[0] = u /\ A[m] = v
         /\ \A i \in 1..m : A[i] = Applied(A[i - 1], a[i]) /\ Good(A[i], silent)
         /\ \A j \in 0..m : \A i \in 0..j : AtMost(A[i], A[j])
  BY DEF Leads
<1>2. PICK B \in [0..n -> Snapshot] :
         /\ B[0] = v /\ B[n] = w
         /\ \A i \in 1..n : B[i] = Applied(B[i - 1], b[i]) /\ Good(B[i], silent)
         /\ \A j \in 0..n : \A i \in 0..j : AtMost(B[i], B[j])
  BY DEF Leads
<1>3. /\ m \in Nat /\ n \in Nat /\ Len(a \o b) = m + n
      /\ \A i \in 1..m + n : (a \o b)[i] = IF i <= m THEN a[i] ELSE b[i - m]
  BY ConcatProperties, LenProperties
<1> DEFINE V == [i \in 0..m + n |-> IF i <= m THEN A[i] ELSE B[i - m]]
<1> HIDE DEF m, n
<1>4. \A i \in 0..m + n : /\ i <= m => V[i] = A[i]
                          /\ i >= m => V[i] = B[i - m]
  BY <1>1, <1>2, <1>3
<1>5. V \in [0..m + n -> Snapshot]
  <2>1. \A i \in 0..m + n : IF i <= m THEN i \in 0..m ELSE i - m \in 0..n
    BY <1>3
  <2>2. QED BY <2>1
<1>6. V[0] = u /\ V[m + n] = w
  <2>1. 0 \in 0..m + n /\ 0 <= m /\ m + n \in 0..m + n /\ m + n >= m /\ (m + n) - m = n
    BY <1>3
  <2>2. QED BY <2>1, <1>1, <1>2, <1>4
<1> HIDE DEF V
<1>8. \A j \in 0..m + n : \A i \in 0..j : AtMost(V[i], V[j])
  <2> SUFFICES ASSUME NEW j \in 0..m + n, NEW i \in 0..j PROVE AtMost(V[i], V[j]) OBVIOUS
  <2>0. i \in 0..m + n /\ i \in Nat /\ j \in Nat
    BY <1>3
  <2>1. CASE j <= m
    <3>1. V[i] = A[i] /\ V[j] = A[j] /\ j \in 0..m BY <2>0, <2>1, <1>3, <1>4
    <3>2. QED BY <3>1, <1>1
  <2>2. CASE i >= m
    <3>1. V[i] = B[i - m] /\ V[j] = B[j - m] /\ j - m \in 0..n /\ i - m \in 0..j - m
      BY <2>0, <2>2, <1>3, <1>4
    <3>2. QED BY <3>1, <1>2
  <2>3. CASE i <= m /\ j >= m
    <3>1. /\ V[i] = A[i] /\ V[j] = B[j - m] /\ i \in 0..m /\ j - m \in 0..n
          /\ m \in 0..m /\ 0 \in 0..j - m
      BY <2>0, <2>3, <1>3, <1>4
    <3>2. AtMost(V[i], v) /\ AtMost(v, V[j]) /\ V[i] \in Snapshot /\ V[j] \in Snapshot
      BY <3>1, <1>1, <1>2
    <3>3. QED BY <3>2, AtMostTransitive
  <2>4. QED BY <2>0, <2>1, <2>2, <2>3, <1>3
<1>9. \A i \in 1..m + n : V[i] = Applied(V[i - 1], (a \o b)[i]) /\ Good(V[i], silent)
  <2> SUFFICES ASSUME NEW i \in 1..m + n
               PROVE  V[i] = Applied(V[i - 1], (a \o b)[i]) /\ Good(V[i], silent)
    OBVIOUS
  <2>1. CASE i <= m
    <3>1. V[i] = A[i] /\ V[i - 1] = A[i - 1] /\ (a \o b)[i] = a[i] /\ i \in 1..m
      BY <2>1, <1>3, <1>4
    <3>2. QED BY <3>1, <1>1
  <2>2. CASE i > m
    <3>1. /\ V[i] = B[i - m] /\ V[i - 1] = B[(i - m) - 1] /\ (a \o b)[i] = b[i - m]
          /\ i - m \in 1..n
      <4>1. i - 1 \in 0..m + n /\ i - 1 >= m /\ (i - 1) - m = (i - m) - 1
        BY <2>2, <1>3
      <4>2. i \in 0..m + n /\ i >= m /\ ~(i <= m) /\ i - m \in 1..n
        BY <2>2, <1>3
      <4>3. V[i] = B[i - m] /\ V[i - 1] = B[(i - m) - 1]
        BY <4>1, <4>2, <1>4
      <4>4. QED BY <4>2, <4>3, <1>3
    <3>2. QED BY <3>1, <1>2
  <2>3. QED BY <2>1, <2>2, <1>3
<1>10. QED BY <1>3, <1>5, <1>6, <1>8, <1>9 DEF Leads

\* The first message, and what is left after it.
LEMMA LeadsOn ==
  ASSUME NEW u \in Snapshot, NEW w \in Snapshot, NEW silent,
         NEW S, NEW s \in Seq(S), s # <<>>, Leads(s, u, w, silent)
  PROVE  LET v == Applied(u, Head(s))
         IN  v \in Snapshot /\ Good(v, silent) /\ AtMost(u, v) /\ Leads(Tail(s), v, w, silent)
<1> DEFINE n == Len(s)
<1>1. PICK V \in [0..n -> Snapshot] :
         /\ V[0] = u /\ V[n] = w
         /\ \A i \in 1..n : V[i] = Applied(V[i - 1], s[i]) /\ Good(V[i], silent)
         /\ \A j \in 0..n : \A i \in 0..j : AtMost(V[i], V[j])
  BY DEF Leads
<1>2. /\ n \in Nat \ {0} /\ Len(Tail(s)) = n - 1 /\ Head(s) = s[1]
      /\ \A i \in 1..n - 1 : Tail(s)[i] = s[i + 1]
  BY HeadTailProperties, EmptySeq
<1> HIDE DEF n
<1>3. V[1] = Applied(u, Head(s)) /\ Good(V[1], silent) /\ AtMost(u, V[1]) /\ V[1] \in Snapshot
  <2>1. 1 \in 1..n /\ 1 - 1 = 0 /\ 1 \in 0..n /\ 0 \in 0..1
    BY <1>2
  <2>2. QED BY <2>1, <1>1, <1>2
<1> DEFINE W == [i \in 0..n - 1 |-> V[i + 1]]
<1>4. W \in [0..n - 1 -> Snapshot] /\ W[0] = V[1] /\ W[n - 1] = w
  BY <1>1, <1>2
<1>5. \A i \in 0..n - 1 : W[i] = V[i + 1]
  OBVIOUS
<1> HIDE DEF W
<1>a. \A j \in 0..n - 1 : \A i \in 0..j : AtMost(W[i], W[j])
  <2> SUFFICES ASSUME NEW j \in 0..n - 1, NEW i \in 0..j PROVE AtMost(W[i], W[j]) OBVIOUS
  <2>1. j + 1 \in 0..n /\ i + 1 \in 0..j + 1 /\ i \in 0..n - 1
    BY <1>2
  <2>2. QED BY <2>1, <1>1, <1>5
<1>6. \A i \in 1..n - 1 : W[i] = Applied(W[i - 1], Tail(s)[i]) /\ Good(W[i], silent)
  <2> SUFFICES ASSUME NEW i \in 1..n - 1
               PROVE W[i] = Applied(W[i - 1], Tail(s)[i]) /\ Good(W[i], silent)
    OBVIOUS
  <2>1. i + 1 \in 1..n /\ (i + 1) - 1 = i /\ i - 1 \in 0..n - 1 /\ (i - 1) + 1 = i /\ i \in 0..n - 1
    BY <1>2
  <2>2. W[i] = V[i + 1] /\ W[i - 1] = V[i] /\ Tail(s)[i] = s[i + 1]
    BY <2>1, <1>2, <1>5
  <2>3. QED BY <2>1, <2>2, <1>1
<1>7. Leads(Tail(s), V[1], w, silent)
  BY <1>2, <1>4, <1>a, <1>6 DEF Leads
<1>8. QED BY <1>3, <1>7

\* What is cut off at its end leads to an earlier room.
LEMMA LeadsPartly ==
  ASSUME NEW u \in Snapshot, NEW w \in Snapshot, NEW silent,
         NEW S, NEW a \in Seq(S), NEW b \in Seq(S), Leads(a \o b, u, w, silent)
  PROVE  \E v \in Snapshot : Leads(a, u, v, silent) /\ AtMost(v, w)
<1> DEFINE m == Len(a) n == Len(b)
<1>1. /\ m \in Nat /\ n \in Nat /\ Len(a \o b) = m + n
      /\ \A i \in 1..m + n : (a \o b)[i] = IF i <= m THEN a[i] ELSE b[i - m]
  BY ConcatProperties, LenProperties
<1> HIDE DEF m, n
<1>2. PICK V \in [0..m + n -> Snapshot] :
         /\ V[0] = u /\ V[m + n] = w
         /\ \A i \in 1..m + n : V[i] = Applied(V[i - 1], (a \o b)[i]) /\ Good(V[i], silent)
         /\ \A j \in 0..m + n : \A i \in 0..j : AtMost(V[i], V[j])
  BY <1>1 DEF Leads
<1> DEFINE W == [i \in 0..m |-> V[i]]
<1>3. \A i \in 0..m : W[i] = V[i] /\ i \in 0..m + n
  BY <1>1
<1>4. W \in [0..m -> Snapshot]
  BY <1>1
<1> HIDE DEF W
<1>5. W[0] = u /\ 0 \in 0..m /\ m \in 0..m /\ W[m] \in Snapshot
  BY <1>1, <1>2, <1>3, <1>4
<1>6. \A i \in 1..m : W[i] = Applied(W[i - 1], a[i]) /\ Good(W[i], silent)
  <2> SUFFICES ASSUME NEW i \in 1..m PROVE W[i] = Applied(W[i - 1], a[i]) /\ Good(W[i], silent)
    OBVIOUS
  <2>1. i \in 1..m + n /\ i <= m /\ i \in 0..m /\ i - 1 \in 0..m
    BY <1>1
  <2>2. QED BY <2>1, <1>1, <1>2, <1>3
<1>7. \A j \in 0..m : \A i \in 0..j : AtMost(W[i], W[j])
  <2> SUFFICES ASSUME NEW j \in 0..m, NEW i \in 0..j PROVE AtMost(W[i], W[j]) OBVIOUS
  <2>1. i \in 0..m /\ j \in 0..m + n
    BY <1>1
  <2>2. QED BY <2>1, <1>2, <1>3
<1>8. Leads(a, u, W[m], silent)
  BY <1>4, <1>5, <1>6, <1>7 DEF Leads, m
<1>9. AtMost(W[m], w)
  <2>1. m + n \in 0..m + n /\ m \in 0..m + n
    BY <1>1
  <2>2. QED BY <2>1, <1>2, <1>3, <1>5
<1>10. QED BY <1>5, <1>8, <1>9

LEMMA LeadsStays ==
  ASSUME NEW messages, NEW from, NEW to, NEW some, NEW more,
         Leads(messages, from, to, some), some \subseteq more
  PROVE  Leads(messages, from, to, more)
<1>1. \A v : Good(v, some) => Good(v, more)
  BY GoodStays
<1>2. QED BY <1>1 DEF Leads

\* A revision is not applied.
LEMMA LeadsNumbered ==
  ASSUME NEW u, NEW w, NEW silent, NEW deltas \in Seq(MessageRecord), NEW l,
         Leads(deltas, u, w, silent)
  PROVE  Leads(Numbered(l, deltas), u, w, silent)
<1> DEFINE batch == Numbered(l, deltas)
<1>1. /\ batch = [i \in 1..Len(deltas) |-> [deltas[i] EXCEPT !.revision = l.revision + i]]
      /\ Len(deltas) \in Nat
  BY LenProperties DEF Numbered
<1>2. Len(batch) = Len(deltas)
  BY <1>1
<1>3. \A i \in 1..Len(deltas) : \A v : Applied(v, batch[i]) = Applied(v, deltas[i])
  <2> SUFFICES ASSUME NEW i \in 1..Len(deltas), NEW v
               PROVE  Applied(v, batch[i]) = Applied(v, deltas[i])
    OBVIOUS
  <2>1. batch[i] = [deltas[i] EXCEPT !.revision = l.revision + i]
    BY <1>1
  <2>2. deltas[i] \in MessageRecord
    BY ElementOfSeq
  <2>3. /\ batch[i].type = deltas[i].type /\ batch[i].device = deltas[i].device
        /\ batch[i].room = deltas[i].room
    BY <2>1, <2>2 DEF MessageRecord
  <2>4. QED BY <2>3 DEF Applied
<1> HIDE DEF batch
<1>4. PICK V \in [0..Len(deltas) -> Snapshot] :
         /\ V[0] = u /\ V[Len(deltas)] = w
         /\ \A i \in 1..Len(deltas) : V[i] = Applied(V[i - 1], deltas[i]) /\ Good(V[i], silent)
         /\ \A j \in 0..Len(deltas) : \A i \in 0..j : AtMost(V[i], V[j])
  BY DEF Leads
<1>5. \A i \in 1..Len(deltas) : V[i] = Applied(V[i - 1], batch[i]) /\ Good(V[i], silent)
  BY <1>3, <1>4
<1>6. Leads(batch, u, w, silent)
  BY <1>2, <1>4, <1>5 DEF Leads
<1>7. QED BY <1>6 DEF batch

-----------------------------------------------------------------------------
(* Messages *)

LEMMA FirstSnapshotType == FirstSnapshot \in Snapshot
BY DEF FirstSnapshot, Snapshot, Part, PartRecord, PlatformRecord, Status

LEMMA MessageFields ==
  ASSUME NEW new \in Snapshot, NEW type \in MessageType, NEW d \in Part
  PROVE  /\ Message(type, d, new) \in MessageRecord
         /\ Message(type, d, new).type = type /\ Message(type, d, new).device = d
<1> DEFINE carried == CASE type = "room.snapshot" -> new
                        [] type = "device.updated" ->
                             [FirstSnapshot EXCEPT !.parts[d] = new.parts[d]]
                        [] type = "commands.updated" -> [FirstSnapshot EXCEPT !.parts = new.parts]
                        [] type = "platform.updated" -> [FirstSnapshot EXCEPT !.platform = new.platform]
<1>1. [FirstSnapshot EXCEPT !.parts[d] = new.parts[d]] \in Snapshot
  BY FirstSnapshotType DEF Snapshot
<1>2. [FirstSnapshot EXCEPT !.parts = new.parts] \in Snapshot
  BY FirstSnapshotType DEF Snapshot
<1>3. [FirstSnapshot EXCEPT !.platform = new.platform] \in Snapshot
  BY FirstSnapshotType DEF Snapshot
<1>4. carried \in Snapshot
  BY <1>1, <1>2, <1>3 DEF MessageType
<1>5. Message(type, d, new) = [type |-> type, device |-> d, room |-> carried, revision |-> 0]
  BY DEF Message
<1> HIDE DEF carried
<1>6. QED BY <1>4, <1>5 DEF MessageRecord

\* What a client makes of each message.
LEMMA AppliedMessage ==
  ASSUME NEW v \in Snapshot, NEW new \in Snapshot, NEW d \in Part
  PROVE  /\ Applied(v, Message("room.snapshot", d, new)) = new
         /\ Applied(v, Message("device.updated", d, new))
              = Room([v.parts EXCEPT ![d] = new.parts[d]], v.platform)
         /\ Applied(v, Message("commands.updated", d, new)) = Room(new.parts, v.platform)
         /\ Applied(v, Message("platform.updated", d, new)) = Room(v.parts, new.platform)
<1>0. v = [parts |-> v.parts, platform |-> v.platform]
  BY SnapshotFields
<1>1. Applied(v, Message("room.snapshot", d, new)) = new
  BY DEF Applied, Message
<1>2. Applied(v, Message("device.updated", d, new))
        = Room([v.parts EXCEPT ![d] = new.parts[d]], v.platform)
  <2>1. [FirstSnapshot EXCEPT !.parts[d] = new.parts[d]].parts[d] = new.parts[d]
    BY FirstSnapshotType DEF Snapshot
  <2>2. Message("device.updated", d, new).room = [FirstSnapshot EXCEPT !.parts[d] = new.parts[d]]
    BY DEF Message
  <2>3. /\ Message("device.updated", d, new).type = "device.updated"
        /\ Message("device.updated", d, new).device = d
    BY DEF Message
  <2>4. Applied(v, Message("device.updated", d, new)) = [v EXCEPT !.parts[d] = new.parts[d]]
    BY <2>1, <2>2, <2>3 DEF Applied
  <2>5. QED BY <1>0, <2>4 DEF Room
<1>3. Applied(v, Message("commands.updated", d, new)) = Room(new.parts, v.platform)
  <2>1. [FirstSnapshot EXCEPT !.parts = new.parts].parts = new.parts
    BY DEF FirstSnapshot
  <2>2. /\ Message("commands.updated", d, new).room = [FirstSnapshot EXCEPT !.parts = new.parts]
        /\ Message("commands.updated", d, new).type = "commands.updated"
    BY DEF Message
  <2>3. Applied(v, Message("commands.updated", d, new)) = [v EXCEPT !.parts = new.parts]
    BY <2>1, <2>2 DEF Applied
  <2>4. QED BY <1>0, <2>3 DEF Room
<1>4. Applied(v, Message("platform.updated", d, new)) = Room(v.parts, new.platform)
  <2>1. [FirstSnapshot EXCEPT !.platform = new.platform].platform = new.platform
    BY DEF FirstSnapshot
  <2>2. /\ Message("platform.updated", d, new).room = [FirstSnapshot EXCEPT !.platform = new.platform]
        /\ Message("platform.updated", d, new).type = "platform.updated"
    BY DEF Message
  <2>3. Applied(v, Message("platform.updated", d, new)) = [v EXCEPT !.platform = new.platform]
    BY <2>1, <2>2 DEF Applied
  <2>4. QED BY <1>0, <2>3 DEF Room
<1>5. QED BY <1>1, <1>2, <1>3, <1>4

\* One equation each, for the places where only one message matters.
LEMMA AppliedSnapshot ==
  ASSUME NEW v \in Snapshot, NEW new \in Snapshot, NEW d \in Part
  PROVE  Applied(v, Message("room.snapshot", d, new)) = new
BY AppliedMessage

LEMMA AppliedDevice ==
  ASSUME NEW v \in Snapshot, NEW new \in Snapshot, NEW d \in Part
  PROVE  Applied(v, Message("device.updated", d, new))
           = Room([v.parts EXCEPT ![d] = new.parts[d]], v.platform)
BY AppliedMessage

LEMMA AppliedCommands ==
  ASSUME NEW v \in Snapshot, NEW new \in Snapshot, NEW d \in Part
  PROVE  Applied(v, Message("commands.updated", d, new)) = Room(new.parts, v.platform)
BY AppliedMessage

LEMMA AppliedPlatform ==
  ASSUME NEW v \in Snapshot, NEW new \in Snapshot, NEW d \in Part
  PROVE  Applied(v, Message("platform.updated", d, new)) = Room(v.parts, new.platform)
BY AppliedMessage

-----------------------------------------------------------------------------
(* The stream of a connection *)

\* What a stream has still to deliver, in order.
Carried(l) == l.wire \o l.rest \o l.waiting

Settled(l) == ~l.draining => l.rest = <<>> /\ l.waiting = <<>>

LEMMA LinkFields ==
  ASSUME NEW l \in Link
  PROVE  /\ l.wire \in Seq(MessageRecord) /\ l.rest \in Seq(MessageRecord)
         /\ l.waiting \in Seq(MessageRecord) /\ Carried(l) \in Seq(MessageRecord)
         /\ l.revision \in Nat
<1>1. /\ l.wire \in Seq(MessageRecord) /\ l.rest \in Seq(MessageRecord)
      /\ l.waiting \in Seq(MessageRecord) /\ l.revision \in Nat
  BY DEF Link
<1>2. QED BY <1>1, ConcatProperties DEF Carried

LEMMA IdleLinkType ==
  /\ IdleLink \in Link /\ EndedLink \in Link
  /\ Settled(IdleLink) /\ Settled(EndedLink)
  /\ Carried(IdleLink) = <<>> /\ Carried(EndedLink) = <<>>
  /\ IdleLink.phase = "idle" /\ EndedLink.phase = "ended"
<1>1. <<>> \in Seq(MessageRecord)
  BY EmptySeq
<1>2. <<>> \o <<>> \o <<>> = <<>>
  BY <1>1, ConcatEmptySeq
<1>3. QED BY <1>1, <1>2 DEF IdleLink, EndedLink, Link, Settled, Carried

LEMMA Regroup ==
  ASSUME NEW w \in Seq(MessageRecord), NEW a \in Seq(MessageRecord), NEW b \in Seq(MessageRecord)
  PROVE  (w \o a) \o b = w \o (a \o b)
BY ConcatAssociative

\* Writing moves messages along the stream, and stops where it likes.
LEMMA FlushedKeeps ==
  ASSUME NEW k, NEW l \in Link, NEW f \in Flushed(k, l)
  PROVE  /\ f \in Link /\ Settled(f) /\ Carried(f) = Carried(l)
         /\ f.phase = l.phase /\ f.revision = l.revision
<1> DEFINE a == l.rest b == l.waiting w == l.wire frames == a \o b
<1>0. /\ a \in Seq(MessageRecord) /\ b \in Seq(MessageRecord) /\ w \in Seq(MessageRecord)
      /\ l.revision \in Nat /\ l.phase \in {"idle", "requested", "open", "ended"}
      /\ frames \in Seq(MessageRecord) /\ Len(a) \in Nat /\ Len(b) \in Nat
      /\ Len(frames) = Len(a) + Len(b) /\ <<>> \in Seq(MessageRecord)
  <2>1. a \in Seq(MessageRecord) /\ b \in Seq(MessageRecord) /\ w \in Seq(MessageRecord)
    BY LinkFields
  <2>2. l.revision \in Nat /\ l.phase \in {"idle", "requested", "open", "ended"}
    BY DEF Link
  <2>3. QED BY <2>1, <2>2, ConcatProperties, LenProperties, EmptySeq
<1> HIDE DEF a, b, w, frames
<1>1. CASE f = [l EXCEPT !.wire = @ \o l.rest \o l.waiting, !.rest = <<>>, !.waiting = <<>>,
                         !.draining = FALSE]
  <2>1. /\ f.wire = Carried(l) /\ f.rest = <<>> /\ f.waiting = <<>> /\ f.draining = FALSE
        /\ f.phase = l.phase /\ f.revision = l.revision
    BY <1>1 DEF Carried, Link
  <2>2. Carried(l) \in Seq(MessageRecord)
    BY LinkFields
  <2>3. f \in Link
    BY <1>1, <1>0, <2>2 DEF Link, Carried
  <2>4. Carried(f) = Carried(l)
    <3>1. Carried(f) = Carried(l) \o <<>> \o <<>>
      BY <2>1 DEF Carried
    <3>2. QED BY <3>1, <2>2, ConcatEmptySeq
  <2>5. QED BY <2>1, <2>3, <2>4 DEF Settled
<1>2. CASE \E i \in 1..Len(frames) : f = Stopped(l, i)
  <2> PICK i \in 1..Len(frames) : f = Stopped(l, i)
    BY <1>2
  <2> DEFINE out == SubSeq(frames, 1, i)
  <2>0. i \in Nat /\ i >= 1 /\ i <= Len(frames)
    BY <1>0
  <2> HIDE DEF out
  <2>1. out \in Seq(MessageRecord)
    <3>1. \A j \in 1..i : frames[j] \in MessageRecord
      BY <1>0, <2>0, ElementOfSeq
    <3>2. 1 \in Int /\ i \in Int
      BY <2>0
    <3>3. QED BY <3>1, <3>2, SubSeqProperties DEF out
  <2>2. CASE i <= Len(a)
    <3> DEFINE left == SubSeq(a, i + 1, Len(a))
    <3>1. f = [l EXCEPT !.wire = w \o out, !.draining = TRUE, !.rest = left]
      <4>1. f = [l EXCEPT !.wire = w \o out, !.draining = TRUE, !.rest = left, !.waiting = b]
        BY <2>2 DEF Stopped, out, frames, a, b, w
      <4>2. QED BY <4>1 DEF Link, b
    <3>2. left \in Seq(MessageRecord)
      <4>1. \A j \in i + 1 .. Len(a) : a[j] \in MessageRecord
        BY <1>0, <2>0, ElementOfSeq
      <4>2. QED BY <4>1, <2>0, <1>0, SubSeqProperties
    <3>3. out \o left = a
      <4>1. out = SubSeq(a, 1, i)
        BY <1>0, <2>0, <2>2, SubSeqOfConcat1 DEF out, frames
      <4>2. SubSeq(a, 1, i) \o left = SubSeq(a, 1, Len(a))
        <5>1. 1 \in 1..Len(a) + 1 /\ i \in 1 - 1 .. Len(a) /\ Len(a) \in i .. Len(a)
          BY <1>0, <2>0, <2>2
        <5>2. QED BY <5>1, <1>0, ConcatAdjacentSubSeq
      <4>3. QED BY <4>1, <4>2, <1>0, SubSeqFull
    <3> HIDE DEF left
    <3>4. (w \o out) \o left = w \o a
      <4>1. w \in Seq(MessageRecord)
        BY <1>0
      <4>2. (w \o out) \o left = w \o (out \o left)
        BY <4>1, <2>1, <3>2, Regroup
      <4>3. QED BY <4>2, <3>3
    <3>5. /\ f.wire = w \o out /\ f.rest = left /\ f.waiting = b /\ f.draining = TRUE
          /\ f.phase = l.phase /\ f.revision = l.revision
      BY <3>1 DEF b, Link
    <3>6. Carried(f) = Carried(l)
      BY <3>4, <3>5 DEF Carried, a, b, w
    <3>7. w \o out \in Seq(MessageRecord)
      BY <2>1, <1>0, ConcatProperties
    <3>8. f \in Link
      BY <3>1, <3>2, <3>7 DEF Link
    <3>9. QED BY <3>5, <3>6, <3>8 DEF Settled
  <2>3. CASE ~(i <= Len(a))
    <3> DEFINE left == SubSeq(frames, i + 1, Len(frames))
    <3>1. f = [l EXCEPT !.wire = w \o out, !.draining = TRUE, !.rest = left, !.waiting = <<>>]
      BY <2>3 DEF Stopped, out, frames, a, b, w
    <3>2. left \in Seq(MessageRecord)
      <4>1. \A j \in i + 1 .. Len(frames) : frames[j] \in MessageRecord
        BY <1>0, <2>0, ElementOfSeq
      <4>2. Len(frames) \in Int /\ i + 1 \in Int
        BY <1>0, <2>0
      <4>3. QED BY <4>1, <4>2, SubSeqProperties
    <3>3. out \o left = frames
      <4>1. 1 \in 1..Len(frames) + 1 /\ i \in 1 - 1 .. Len(frames) /\ Len(frames) \in i .. Len(frames)
        BY <1>0, <2>0
      <4>2. out \o left = SubSeq(frames, 1, Len(frames))
        BY <4>1, <1>0, ConcatAdjacentSubSeq DEF out
      <4>3. QED BY <4>2, <1>0, SubSeqFull
    <3> HIDE DEF left
    <3>4. (w \o out) \o left = w \o a \o b
      <4>0. w \in Seq(MessageRecord)
        BY <1>0
      <4>1. (w \o out) \o left = w \o (out \o left)
        BY <4>0, <3>2, <2>1, Regroup
      <4>2. w \o (a \o b) = w \o a \o b
        <5>1. a \in Seq(MessageRecord) /\ b \in Seq(MessageRecord)
          BY <1>0
        <5> HIDE DEF a, b, w, out
        <5>2. QED BY <4>0, <5>1, Regroup
      <4>3. out \o left = a \o b
        BY <3>3 DEF frames
      <4>4. QED BY ONLY <4>1, <4>2, <4>3
    <3>5. /\ f.wire = w \o out /\ f.rest = left /\ f.waiting = <<>> /\ f.draining = TRUE
          /\ f.phase = l.phase /\ f.revision = l.revision
      BY <3>1 DEF Link
    <3>6. w \o out \in Seq(MessageRecord)
      BY <2>1, <1>0, ConcatProperties
    <3>7. ((w \o out) \o left) \o <<>> = (w \o out) \o left
      BY <3>2, <3>6, ConcatProperties, ConcatEmptySeq
    <3>8. Carried(f) = Carried(l)
      BY <3>4, <3>5, <3>7 DEF Carried, a, b, w
    <3>9. f \in Link
      BY <3>1, <3>2, <3>6, <1>0 DEF Link
    <3>10. QED BY <3>5, <3>8, <3>9 DEF Settled
  <2>4. QED BY <2>2, <2>3
<1>3. QED BY <1>1, <1>2 DEF Flushed, frames, a, b

\* What a batch makes of a stream: nothing, its messages are added, or it ends.
Continues(l, deltas, e) ==
  \/ e = l /\ (l.phase # "open" \/ deltas = <<>>)
  \/ /\ l.phase = "open" /\ e.phase = "open"
     /\ e.revision = l.revision + Len(deltas)
     /\ Carried(e) = Carried(l) \o Numbered(l, deltas)
  \/ l.phase = "open" /\ e.phase = "ended" /\ Carried(e) = l.wire

LEMMA EnqueuedCarries ==
  ASSUME NEW k, NEW l \in Link, Settled(l), NEW deltas \in Seq(MessageRecord),
         NEW e \in Enqueued(k, l, deltas)
  PROVE  e \in Link /\ Settled(e) /\ Continues(l, deltas, e)
<1> DEFINE batch == Numbered(l, deltas)
           next == [l EXCEPT !.revision = @ + Len(deltas)]
<1>1. CASE l.phase # "open" \/ deltas = <<>>
  <2>1. e = l
    BY <1>1 DEF Enqueued
  <2>2. QED BY <1>1, <2>1 DEF Continues
<1>2. CASE l.phase = "open" /\ deltas # <<>>
  <2>0. /\ l.wire \in Seq(MessageRecord) /\ l.rest \in Seq(MessageRecord)
        /\ l.waiting \in Seq(MessageRecord) /\ l.revision \in Nat /\ Carried(l) \in Seq(MessageRecord)
        /\ Len(deltas) \in Nat
    BY LinkFields, LenProperties
  <2>1. batch \in Seq(MessageRecord)
    <3>1. /\ batch = [i \in 1..Len(deltas) |-> [deltas[i] EXCEPT !.revision = l.revision + i]]
          /\ Len(deltas) \in Nat
      BY LenProperties DEF Numbered
    <3>2. \A i \in 1..Len(deltas) : [deltas[i] EXCEPT !.revision = l.revision + i] \in MessageRecord
      <4> SUFFICES ASSUME NEW i \in 1..Len(deltas)
                   PROVE  [deltas[i] EXCEPT !.revision = l.revision + i] \in MessageRecord
        OBVIOUS
      <4>1. deltas[i] \in MessageRecord /\ l.revision + i \in Nat
        BY <2>0, <3>1, ElementOfSeq
      <4>2. QED BY <4>1 DEF MessageRecord
    <3> HIDE DEF batch
    <3>3. batch \in [1..Len(deltas) -> MessageRecord]
      BY <3>1, <3>2
    <3>4. QED BY <3>1, <3>3, SeqDef
  <2>2. next \in Link /\ next.revision = l.revision + Len(deltas) /\ next.phase = "open" /\ next.wire = l.wire
        /\ next.rest = l.rest /\ next.waiting = l.waiting /\ next.draining = l.draining
    <3>1. l.revision + Len(deltas) \in Nat
      BY <2>0
    <3> HIDE DEF batch
    <3>2. QED BY <1>2, <3>1 DEF Link
  <2> HIDE DEF batch, next
  <2>3. CASE ~l.draining
    <3>1. e \in Flushed(k, [next EXCEPT !.rest = batch])
      BY <1>2, <2>3 DEF Enqueued, batch, next
    <3>2. [next EXCEPT !.rest = batch] \in Link
      BY <2>1, <2>2 DEF Link
    <3>3. /\ e \in Link /\ Settled(e) /\ Carried(e) = Carried([next EXCEPT !.rest = batch])
          /\ e.phase = [next EXCEPT !.rest = batch].phase
          /\ e.revision = [next EXCEPT !.rest = batch].revision
      BY <3>1, <3>2, FlushedKeeps
    <3>4. l.rest = <<>> /\ l.waiting = <<>>
      BY <2>3 DEF Settled
    <3>5. /\ [next EXCEPT !.rest = batch].wire = l.wire /\ [next EXCEPT !.rest = batch].rest = batch
          /\ [next EXCEPT !.rest = batch].waiting = <<>> /\ [next EXCEPT !.rest = batch].phase = "open"
          /\ [next EXCEPT !.rest = batch].revision = l.revision + Len(deltas)
      BY <2>2, <3>4 DEF Link
    <3>6. Carried([next EXCEPT !.rest = batch]) = l.wire \o batch
      <4>1. l.wire \o batch \o <<>> = l.wire \o batch
        BY <2>0, <2>1, ConcatProperties, ConcatEmptySeq
      <4>2. QED BY <4>1, <3>5 DEF Carried
    <3>7. Carried(l) = l.wire
      <4>1. l.wire \o <<>> \o <<>> = l.wire
        BY <2>0, ConcatEmptySeq
      <4>2. QED BY <4>1, <3>4 DEF Carried
    <3>8. QED BY <1>2, <3>3, <3>5, <3>6, <3>7 DEF batch, Continues
  <2>4. CASE l.draining /\ l.waiting = <<>>
    <3>1. e = [next EXCEPT !.waiting = batch]
      BY <1>2, <2>4 DEF Enqueued, batch, next
    <3>2. e \in Link /\ e.wire = l.wire /\ e.rest = l.rest /\ e.waiting = batch /\ e.draining = l.draining
          /\ e.phase = "open" /\ e.revision = l.revision + Len(deltas)
      BY <3>1, <2>1, <2>2 DEF Link
    <3>3. Carried(l) = l.wire \o l.rest
      <4>1. l.wire \o l.rest \o <<>> = l.wire \o l.rest
        BY <2>0, ConcatProperties, ConcatEmptySeq
      <4>2. QED BY <4>1, <2>4 DEF Carried
    <3>4. QED BY <1>2, <2>4, <3>2, <3>3 DEF Carried, Settled, batch, Continues
  <2>5. CASE l.draining /\ l.waiting # <<>>
    <3>1. e = Overrun(l, next)
      BY <1>2, <2>5 DEF Enqueued, next
    <3>2. e = [EndedLink EXCEPT !.wire = l.wire]
      BY <3>1 DEF Overrun, Ended
    <3>3. e \in Link /\ e.wire = l.wire /\ e.rest = <<>> /\ e.waiting = <<>> /\ e.phase = "ended"
      BY <3>2, <2>0, EmptySeq DEF Link, EndedLink, IdleLink
    <3>4. Carried(e) = l.wire
      <4>1. l.wire \o <<>> \o <<>> = l.wire
        BY <2>0, ConcatEmptySeq
      <4>2. QED BY <4>1, <3>3 DEF Carried
    <3>5. QED BY <1>2, <3>3, <3>4 DEF Settled, Continues
  <2>6. QED BY <2>3, <2>4, <2>5
<1>3. QED BY <1>1, <1>2

\* Revisions go on where the client c is, and a snapshot comes first and only then.
Contiguous(messages, c) ==
  \A i \in 1..Len(messages) :
    /\ messages[i].type = "room.snapshot" <=> ~c.ready /\ i = 1
    /\ messages[i].revision = IF c.ready THEN c.revision + i ELSE i - 1

\* Stream l brings client c from one room to another.
Delivers(l, c, from, to, silent) ==
  /\ l.phase # "idle"
  /\ l.phase = "requested" => ~c.ready /\ Carried(l) = <<>>
  /\ l.phase = "open" => /\ c.ready \/ Carried(l) # <<>>
                         /\ l.revision = IF c.ready THEN c.revision + Len(Carried(l))
                                         ELSE Len(Carried(l)) - 1
  /\ Contiguous(Carried(l), c)
  /\ Leads(Carried(l), from, to, silent)

LEMMA LeadsForward ==
  ASSUME NEW S, NEW s \in Seq(S), NEW u, NEW w, NEW silent, Leads(s, u, w, silent)
  PROVE  AtMost(u, w)
<1>1. Len(s) \in 0..Len(s) /\ 0 \in 0..Len(s)
  BY LenProperties
<1>2. QED BY <1>1 DEF Leads

\* A publication that leads on from where a stream leads.
LEMMA DeliversMore ==
  ASSUME NEW k, NEW l \in Link, Settled(l), NEW c \in Client, NEW silent,
         NEW from \in Snapshot, NEW v \in Snapshot, NEW w \in Snapshot,
         NEW deltas \in Seq(MessageRecord),
         \A i \in 1..Len(deltas) : deltas[i].type # "room.snapshot",
         Delivers(l, c, from, v, silent), l.phase = "open", Leads(deltas, v, w, silent),
         NEW e \in Enqueued(k, l, deltas)
  PROVE  \E u \in Snapshot : /\ Delivers(e, c, from, u, silent) /\ AtMost(u, w)
                             /\ e.phase = "open" => u = w
<1>0. /\ l.wire \in Seq(MessageRecord) /\ l.rest \in Seq(MessageRecord)
      /\ l.waiting \in Seq(MessageRecord) /\ l.revision \in Nat /\ Carried(l) \in Seq(MessageRecord)
      /\ Len(deltas) \in Nat /\ Len(Carried(l)) \in Nat
  BY LinkFields, LenProperties
<1>1. c.revision \in Nat /\ c.ready \in BOOLEAN
  BY DEF Client
<1>2. CASE e = l /\ deltas = <<>>
  <2>1. v = w
    BY <1>2, NothingLeads
  <2>2. QED BY <1>2, <2>1, AtMostItself
<1>3. CASE e.phase = "open" /\ e.revision = l.revision + Len(deltas)
           /\ Carried(e) = Carried(l) \o Numbered(l, deltas)
  <2> DEFINE n == Len(Carried(l)) batch == Numbered(l, deltas)
  <2>1. /\ batch = [i \in 1..Len(deltas) |-> [deltas[i] EXCEPT !.revision = l.revision + i]]
        /\ Len(deltas) \in Nat
    BY LenProperties DEF Numbered
  <2>2. \A i \in 1..Len(deltas) : /\ batch[i] \in MessageRecord
                                  /\ batch[i].type # "room.snapshot"
                                  /\ batch[i].revision = l.revision + i
    <3> SUFFICES ASSUME NEW i \in 1..Len(deltas)
                 PROVE  /\ batch[i] \in MessageRecord /\ batch[i].type # "room.snapshot"
                        /\ batch[i].revision = l.revision + i
      OBVIOUS
    <3>1. batch[i] = [deltas[i] EXCEPT !.revision = l.revision + i]
      BY <2>1
    <3>2. deltas[i] \in MessageRecord /\ l.revision + i \in Nat /\ deltas[i].type # "room.snapshot"
      BY <1>0, <2>1, ElementOfSeq
    <3> HIDE DEF batch
    <3>3. QED BY <3>1, <3>2 DEF MessageRecord
  <2>3. Leads(batch, v, w, silent)
    BY LeadsNumbered
  <2> HIDE DEF batch
  <2>4. batch \in Seq(MessageRecord) /\ Len(batch) = Len(deltas)
    <3>1. batch \in [1..Len(deltas) -> MessageRecord]
      BY <2>1, <2>2
    <3>2. QED BY <2>1, <3>1, SeqDef
  <2>5. /\ Len(Carried(l) \o batch) = n + Len(batch)
        /\ \A i \in 1..n + Len(batch) :
             (Carried(l) \o batch)[i] = IF i <= n THEN Carried(l)[i] ELSE batch[i - n]
    <3>1. Carried(l) \in Seq(MessageRecord) /\ batch \in Seq(MessageRecord)
      BY <1>0, <2>4
    <3> HIDE DEF batch
    <3>2. QED BY <3>1, ConcatProperties
  <2>6. Leads(Carried(e), from, w, silent)
    <3>1. Leads(Carried(l), from, v, silent)
      BY DEF Delivers
    <3>2. QED BY <1>0, <1>3, <2>3, <2>4, <3>1, LeadsThrough DEF batch
  <2> DEFINE more == Carried(l) \o batch
  <2>7. Carried(e) = more
    BY <1>3 DEF batch
  <2>8. /\ c.ready \/ n > 0
        /\ l.revision = IF c.ready THEN c.revision + n ELSE n - 1
        /\ Contiguous(Carried(l), c)
    <3>1. Carried(l) # <<>> => n > 0
      BY <1>0, EmptySeq
    <3>2. QED BY <3>1 DEF Delivers
  <2> HIDE DEF n
  <2>a. n \in Nat
    BY <1>0 DEF n
  <2>9. Contiguous(more, c)
    <3> SUFFICES ASSUME NEW i \in 1..n + Len(batch)
                 PROVE  /\ more[i].type = "room.snapshot" <=> ~c.ready /\ i = 1
                        /\ more[i].revision = IF c.ready THEN c.revision + i ELSE i - 1
      BY <2>5 DEF Contiguous
    <3>1. CASE i <= n
      <4>1. more[i] = Carried(l)[i] /\ i \in 1..n
        BY <2>5, <2>a, <3>1
      <4>2. QED BY <4>1, <2>8 DEF Contiguous, n
    <3>2. CASE i > n
      <4>1. more[i] = batch[i - n] /\ i - n \in 1..Len(deltas) /\ ~(~c.ready /\ i = 1)
        BY <2>4, <2>5, <2>8, <2>a, <3>2, <1>0
      <4>2. more[i].type # "room.snapshot" /\ more[i].revision = l.revision + (i - n)
        BY <4>1, <2>2
      <4>3. QED BY <4>1, <4>2, <2>8, <2>a, <1>0, <1>1
    <3>3. i \in Int /\ n \in Int
      BY <2>a
    <3>4. i <= n \/ i > n
      BY <3>3
    <3>5. QED BY <3>1, <3>2, <3>4
  <2>10. /\ c.ready \/ more # <<>>
         /\ e.revision = IF c.ready THEN c.revision + Len(more) ELSE Len(more) - 1
    <3>1. e.revision = IF c.ready THEN c.revision + Len(more) ELSE Len(more) - 1
      BY <2>4, <2>5, <2>8, <2>a, <1>0, <1>1, <1>3
    <3>2. more = <<>> => n = 0
      BY <2>4, <2>5, <2>a, <1>0
    <3>3. QED BY <3>1, <3>2, <2>8
  <2> HIDE DEF more
  <2>11. Delivers(e, c, from, w, silent)
    BY <1>3, <2>6, <2>7, <2>9, <2>10 DEF Delivers
  <2>12. QED BY <2>11, AtMostItself
<1>4. CASE e.phase = "ended" /\ Carried(e) = l.wire
  <2>1. /\ Carried(l) = l.wire \o (l.rest \o l.waiting) /\ l.rest \o l.waiting \in Seq(MessageRecord)
    <3>1. l.wire \in Seq(MessageRecord) /\ l.rest \in Seq(MessageRecord) /\ l.waiting \in Seq(MessageRecord)
      BY <1>0
    <3>2. /\ (l.wire \o l.rest) \o l.waiting = l.wire \o (l.rest \o l.waiting)
          /\ l.rest \o l.waiting \in Seq(MessageRecord)
      BY ONLY <3>1, Regroup, ConcatProperties
    <3>3. QED BY ONLY <3>2 DEF Carried
  <2>2. Leads(l.wire \o (l.rest \o l.waiting), from, v, silent) /\ Contiguous(Carried(l), c)
    BY <2>1 DEF Delivers
  <2>3. PICK u \in Snapshot : Leads(l.wire, from, u, silent) /\ AtMost(u, v)
    BY <1>0, <2>1, <2>2, LeadsPartly
  <2>4. AtMost(u, w)
    BY <2>3, LeadsForward, AtMostTransitive
  <2>5. Contiguous(l.wire, c)
    <3> SUFFICES ASSUME NEW i \in 1..Len(l.wire)
                 PROVE  i \in 1..Len(Carried(l)) /\ Carried(l)[i] = l.wire[i]
      BY <2>2 DEF Contiguous
    <3> DEFINE sent == l.wire kept == l.rest \o l.waiting
    <3>1. sent \in Seq(MessageRecord) /\ kept \in Seq(MessageRecord) /\ Carried(l) = sent \o kept
      BY <1>0, <2>1
    <3> HIDE DEF sent, kept
    <3>2. /\ Len(sent \o kept) = Len(sent) + Len(kept) /\ Len(sent) \in Nat /\ Len(kept) \in Nat
          /\ \A j \in 1..Len(sent) + Len(kept) : (sent \o kept)[j] = IF j <= Len(sent) THEN sent[j] ELSE kept[j - Len(sent)]
      BY <3>1, ConcatProperties, LenProperties
    <3>3. i \in 1..Len(sent)
      BY DEF sent
    <3>4. i \in 1..Len(sent) + Len(kept) /\ i <= Len(sent)
      BY <3>2, <3>3
    <3>5. QED BY <3>1, <3>2, <3>4 DEF sent
  <2>6. Delivers(e, c, from, u, silent)
    BY <1>4, <2>3, <2>5 DEF Delivers
  <2>7. QED BY <1>4, <2>4, <2>6
<1>5. Continues(l, deltas, e)
  BY EnqueuedCarries
<1>6. QED BY <1>2, <1>3, <1>4, <1>5 DEF Continues

-----------------------------------------------------------------------------
(* Publications *)

Aging(parts, old) == [parts EXCEPT !["sensor"].stale = old]

\* The parts as installed, or as of now.
Later(q, parts, old) == q = parts \/ q = Aging(parts, old)

\* What a client that has received everything may show, if now is installed, before was
\* published, and old says whether the sensor is stale by now.
Current(v, now, before, old) ==
  /\ Later(v.parts, now.parts, old)
  /\ v.platform = now.platform \/ v.platform = before.platform

\* What is installed differs from what was published by an outage at most.
Behind(now, before, silent) ==
  /\ before.parts = now.parts
  /\ \/ now.platform = before.platform
     \/ /\ now.platform = [before.platform EXCEPT !.status = "degraded", !.outage = @ + 1]
        /\ now.platform.outage \in silent

LEMMA AgingFields ==
  ASSUME NEW parts \in [Part -> PartRecord], NEW old \in BOOLEAN
  PROVE  /\ Aging(parts, old) \in [Part -> PartRecord]
         /\ \A p \in Part : /\ Aging(parts, old)[p].version = parts[p].version
                            /\ Aging(parts, old)[p].outage = parts[p].outage
         /\ Aging(parts, old)["led"] = parts["led"]
         /\ Aging(parts, old)["commands"] = parts["commands"]
         /\ Aging(parts, old)["sensor"] = [parts["sensor"] EXCEPT !.stale = old]
         /\ Aging(parts, old)["sensor"].stale = old
<1>1. "sensor" \in Part /\ "led" \in Part /\ "commands" \in Part
  BY DEF Part
<1>2. Aging(parts, old) = [parts EXCEPT !["sensor"] = [parts["sensor"] EXCEPT !.stale = old]]
  BY <1>1 DEF Aging
<1>3. /\ parts["sensor"] \in PartRecord
      /\ [parts["sensor"] EXCEPT !.stale = old] \in PartRecord
      /\ [parts["sensor"] EXCEPT !.stale = old].version = parts["sensor"].version
      /\ [parts["sensor"] EXCEPT !.stale = old].outage = parts["sensor"].outage
      /\ [parts["sensor"] EXCEPT !.stale = old].stale = old
  BY <1>1 DEF PartRecord
<1>4. QED BY <1>1, <1>2, <1>3

\* A message that is sent only if there is something to say, and what it does to
\* a client's room.
Maybe(sent, m) == IF sent THEN <<m>> ELSE <<>>
Hop(sent, m, u, w) == IF sent THEN Applied(u, m) = w ELSE u = w

LEMMA LeadsMaybe ==
  ASSUME NEW u \in Snapshot, NEW w \in Snapshot, NEW silent, NEW m, NEW sent \in BOOLEAN,
         Hop(sent, m, u, w), Good(w, silent), AtMost(u, w)
  PROVE  Leads(Maybe(sent, m), u, w, silent)
<1>1. CASE sent
  <2>1. Applied(u, m) = w /\ Maybe(sent, m) = <<m>>
    BY <1>1 DEF Maybe, Hop
  <2>2. QED BY <2>1, LeadsOnce
<1>2. CASE ~sent
  <2>1. u = w /\ Maybe(sent, m) = <<>>
    BY <1>2 DEF Maybe, Hop
  <2>2. QED BY <2>1, LeadsNowhere
<1>3. QED BY <1>1, <1>2

\* No part of r is older than that of q.
NotOlder(q, r) == \A p \in Part : q[p].version <= r[p].version

Mixed(r, q, next) == \A p \in Part : r[p] = q[p] \/ r[p] = next[p]

\* A room part of which has become that of next.
LEMMA GoodMixture ==
  ASSUME NEW q \in [Part -> PartRecord], NEW r \in [Part -> PartRecord],
         NEW next \in [Part -> PartRecord], NEW platform \in PlatformRecord, NEW silent,
         NotOlder(q, next), Covered(q, platform),
         Explained(q, platform, silent), Explained(next, platform, silent),
         Mixed(r, q, next), Together(r)
  PROVE  /\ Good(Room(r, platform), silent)
         /\ AtMost(Room(q, platform), Room(r, platform))
         /\ NotOlder(r, next) /\ Covered(r, platform) /\ Explained(r, platform, silent)
<1>1. \A p \in Part : /\ q[p].version \in Nat /\ next[p].version \in Nat
                      /\ platform.covers[p] \in Nat
  BY DEF PartRecord, PlatformRecord
<1>2. \A p \in Part : /\ r[p].version <= next[p].version
                      /\ q[p].version <= r[p].version
                      /\ platform.covers[p] <= r[p].version
  <2> SUFFICES ASSUME NEW p \in Part
               PROVE  /\ r[p].version <= next[p].version
                      /\ q[p].version <= r[p].version
                      /\ platform.covers[p] <= r[p].version
    OBVIOUS
  <2>1. r[p].version = q[p].version \/ r[p].version = next[p].version
    BY DEF Mixed
  <2>2. q[p].version <= next[p].version /\ platform.covers[p] <= q[p].version
    BY DEF NotOlder, Covered
  <2>3. QED BY <1>1, <2>1, <2>2
<1>3. Explained(r, platform, silent)
  BY DEF Explained, Mixed
<1>4. platform.outage \in Nat /\ platform.through \in Nat
  BY DEF PlatformRecord
<1>5. Room(r, platform).parts = r /\ Room(r, platform).platform = platform
      /\ Room(q, platform).parts = q /\ Room(q, platform).platform = platform
  BY DEF Room
<1>6. AtMost(Room(q, platform), Room(r, platform))
  BY <1>2, <1>4, <1>5 DEF AtMost
<1>7. NotOlder(r, next) /\ Covered(r, platform)
  BY <1>2 DEF NotOlder, Covered
<1>8. Good(Room(r, platform), silent)
  BY <1>3, <1>5, <1>7 DEF Good
<1>9. QED BY <1>3, <1>6, <1>7, <1>8

\* What a publication makes of the parts that a client shows.
Updated(parts, before, next) ==
  IF CommandsChanged(before, next) THEN next.parts
  ELSE [p \in Part |-> IF before.parts[p] # next.parts[p] THEN next.parts[p] ELSE parts[p]]

Outcome(before, next) == DeviceDeltas(before, next) \o CommandDelta(before, next)

LEMMA DeltaTypes ==
  ASSUME NEW before \in Snapshot, NEW next \in Snapshot
  PROVE  /\ \A d \in Part : /\ DeviceDelta(before, next, d) \in Seq(MessageRecord)
                            /\ \A i \in 1..Len(DeviceDelta(before, next, d)) :
                                 DeviceDelta(before, next, d)[i].type # "room.snapshot"
         /\ CommandDelta(before, next) \in Seq(MessageRecord)
         /\ \A i \in 1..Len(CommandDelta(before, next)) :
              CommandDelta(before, next)[i].type # "room.snapshot"
         /\ PlatformDelta(before, next) \in Seq(MessageRecord)
         /\ \A i \in 1..Len(PlatformDelta(before, next)) :
              PlatformDelta(before, next)[i].type # "room.snapshot"
<1>1. \A m \in MessageRecord :
        m.type # "room.snapshot" =>
          /\ <<m>> \in Seq(MessageRecord) /\ <<>> \in Seq(MessageRecord)
          /\ \A i \in 1..Len(<<m>>) : <<m>>[i].type # "room.snapshot"
          /\ \A i \in 1..Len(<<>>) : FALSE
  OBVIOUS
<1>2. \A d \in Part : /\ Message("device.updated", d, next) \in MessageRecord
                      /\ Message("device.updated", d, next).type = "device.updated"
  BY MessageFields DEF MessageType
<1>3. "led" \in Part
  BY DEF Part
<1>4. /\ Message("commands.updated", "led", next) \in MessageRecord
      /\ Message("commands.updated", "led", next).type = "commands.updated"
      /\ Message("platform.updated", "led", next) \in MessageRecord
      /\ Message("platform.updated", "led", next).type = "platform.updated"
  BY <1>3, MessageFields DEF MessageType
<1>5. QED BY <1>1, <1>2, <1>4 DEF DeviceDelta, CommandDelta, PlatformDelta

\* The outcome of an operation, in any platform that explains it.
LEMMA OutcomeLeads ==
  ASSUME NEW before \in Snapshot, NEW next \in Snapshot, NEW silent,
         NEW parts \in [Part -> PartRecord], NEW platform \in PlatformRecord,
         NotOlder(parts, next.parts), Covered(parts, platform),
         Explained(parts, platform, silent), Explained(next.parts, platform, silent),
         parts["led"] = before.parts["led"], parts["commands"] = before.parts["commands"],
         Together(parts), Together(next.parts)
  PROVE  /\ Updated(parts, before, next) \in [Part -> PartRecord]
         /\ Leads(Outcome(before, next), Room(parts, platform),
                  Room(Updated(parts, before, next), platform), silent)
<1> DEFINE new == next.parts
           both == CommandsChanged(before, next)
           q1 == IF before.parts["sensor"] # new["sensor"]
                 THEN [parts EXCEPT !["sensor"] = new["sensor"]] ELSE parts
           led == before.parts["led"] # new["led"] /\ ~both
           q2 == IF led THEN [q1 EXCEPT !["led"] = new["led"]] ELSE q1
           q3 == Updated(parts, before, next)
<1>1. new \in [Part -> PartRecord] /\ before.parts \in [Part -> PartRecord]
  BY SnapshotFields
<1>2. "sensor" \in Part /\ "led" \in Part /\ "commands" \in Part
  BY DEF Part
<1>3. q1 \in [Part -> PartRecord] /\ q2 \in [Part -> PartRecord] /\ q3 \in [Part -> PartRecord]
  <2>1. q3 \in [Part -> PartRecord]
    BY <1>1 DEF Updated
  <2>2. QED BY <1>1, <1>2, <2>1
<1>4. Mixed(q1, parts, new)
  BY <1>1, <1>2 DEF Mixed
<1>5. Mixed(q2, q1, new)
  BY <1>1, <1>2, <1>3 DEF Mixed
<1>6. q1["led"] = parts["led"] /\ q1["commands"] = parts["commands"]
  BY <1>1, <1>2
<1>7. ~both => before.parts["commands"] = new["commands"]
  BY DEF CommandsChanged
<1>8. /\ q2["commands"] = parts["commands"]
      /\ q2["led"] = IF led THEN new["led"] ELSE parts["led"]
  BY <1>1, <1>2, <1>6, <1>3
<1>9. Together(q1)
  BY <1>6 DEF Together
<1>10. Together(q2)
  <2>1. CASE led
    <3>1. q2["led"] = new["led"] /\ q2["commands"] = new["commands"]
      BY <2>1, <1>7, <1>8, <1>2
    <3>2. QED BY <3>1 DEF Together
  <2>2. CASE ~led
    BY <2>2, <1>6, <1>8, <1>9 DEF Together
  <2>3. QED BY <2>1, <2>2
<1>11. q3 = IF both THEN new ELSE q2
  <2>1. CASE both
    BY <2>1 DEF Updated
  <2>2. CASE ~both
    <3>1. \A p \in Part : q3[p] = IF before.parts[p] # new[p] THEN new[p] ELSE parts[p]
      BY <2>2, <1>3 DEF Updated
    <3>2. q2["sensor"] = q1["sensor"] /\ q1["sensor"] = IF before.parts["sensor"] # new["sensor"]
                                                        THEN new["sensor"] ELSE parts["sensor"]
      BY <1>1, <1>2, <1>3
    <3>3. \A p \in Part : q2[p] = IF before.parts[p] # new[p] THEN new[p] ELSE parts[p]
      <4> SUFFICES ASSUME NEW p \in Part
                   PROVE  q2[p] = IF before.parts[p] # new[p] THEN new[p] ELSE parts[p]
        OBVIOUS
      <4>1. CASE p = "sensor" BY <4>1, <3>2
      <4>2. CASE p = "led" BY <4>2, <1>8, <2>2
      <4>3. CASE p = "commands" BY <4>3, <1>7, <1>8, <2>2
      <4>4. QED BY <4>1, <4>2, <4>3 DEF Part
    <3>4. q3 = q2
      BY <1>3, <3>1, <3>3
    <3>5. QED BY <3>4, <2>2
  <2>3. QED BY <2>1, <2>2
<1>12. Together(q3)
  BY <1>10, <1>11
<1> HIDE DEF q1, q2, q3, new
<1>a. NotOlder(parts, new) /\ Explained(new, platform, silent)
  BY DEF new
<1>13. /\ Good(Room(q1, platform), silent) /\ AtMost(Room(parts, platform), Room(q1, platform))
       /\ NotOlder(q1, new) /\ Covered(q1, platform) /\ Explained(q1, platform, silent)
  BY <1>1, <1>3, <1>4, <1>9, <1>a, GoodMixture
<1>14. /\ Good(Room(q2, platform), silent) /\ AtMost(Room(q1, platform), Room(q2, platform))
       /\ NotOlder(q2, new) /\ Covered(q2, platform) /\ Explained(q2, platform, silent)
  BY <1>1, <1>3, <1>5, <1>10, <1>13, <1>a, GoodMixture
<1>15. /\ Good(Room(q3, platform), silent) /\ AtMost(Room(q2, platform), Room(q3, platform))
  <2>1. Mixed(q3, q2, new)
    BY <1>11 DEF Mixed
  <2>2. QED BY <2>1, <1>1, <1>3, <1>12, <1>14, <1>a, GoodMixture
<1>16. /\ Room(parts, platform) \in Snapshot /\ Room(q1, platform) \in Snapshot
       /\ Room(q2, platform) \in Snapshot /\ Room(q3, platform) \in Snapshot
  BY <1>3, RoomFields
<1>17. Leads(DeviceDelta(before, next, "sensor"), Room(parts, platform), Room(q1, platform), silent)
  <2> DEFINE sent == before.parts["sensor"] # new["sensor"]
             m == Message("device.updated", "sensor", next)
  <2>1. DeviceDelta(before, next, "sensor") = Maybe(sent, m)
    BY DEF DeviceDelta, new, Maybe
  <2>2. Applied(Room(parts, platform), m) = Room([parts EXCEPT !["sensor"] = new["sensor"]], platform)
    <3>1. Room(parts, platform).parts = parts /\ Room(parts, platform).platform = platform
      BY DEF Room
    <3>2. Applied(Room(parts, platform), m)
            = Room([Room(parts, platform).parts EXCEPT !["sensor"] = next.parts["sensor"]], Room(parts, platform).platform)
      BY ONLY <1>2, <1>16, next \in Snapshot, AppliedDevice
    <3>3. QED BY <3>1, <3>2 DEF new
  <2>4. Hop(sent, m, Room(parts, platform), Room(q1, platform))
    BY <2>2 DEF q1, Hop
  <2> HIDE DEF sent, m
  <2>5. sent \in BOOLEAN
    BY DEF sent
  <2>6. Leads(Maybe(sent, m), Room(parts, platform), Room(q1, platform), silent)
    BY <1>13, <1>16, <2>4, <2>5, LeadsMaybe
  <2>7. QED BY <2>1, <2>6
<1>18. Leads(DeviceDelta(before, next, "led"), Room(q1, platform), Room(q2, platform), silent)
  <2> DEFINE m == Message("device.updated", "led", next)
  <2>1. DeviceDelta(before, next, "led") = Maybe(led, m)
    BY DEF DeviceDelta, new, Maybe
  <2>2. Applied(Room(q1, platform), m) = Room([q1 EXCEPT !["led"] = new["led"]], platform)
    <3>1. Room(q1, platform).parts = q1 /\ Room(q1, platform).platform = platform
      BY DEF Room
    <3>2. Applied(Room(q1, platform), m)
            = Room([Room(q1, platform).parts EXCEPT !["led"] = next.parts["led"]], Room(q1, platform).platform)
      BY ONLY <1>2, <1>16, next \in Snapshot, AppliedDevice
    <3>3. QED BY <3>1, <3>2 DEF new
  <2>4. Hop(led, m, Room(q1, platform), Room(q2, platform))
    BY <2>2 DEF q2, Hop
  <2> HIDE DEF led, m
  <2>5. led \in BOOLEAN
    BY DEF led
  <2>6. Leads(Maybe(led, m), Room(q1, platform), Room(q2, platform), silent)
    BY <1>14, <1>16, <2>4, <2>5, LeadsMaybe
  <2>7. QED BY <2>1, <2>6
<1>19. Leads(CommandDelta(before, next), Room(q2, platform), Room(q3, platform), silent)
  <2> DEFINE m == Message("commands.updated", "led", next)
  <2>1. CommandDelta(before, next) = Maybe(both, m)
    BY DEF CommandDelta, Maybe
  <2>2. Applied(Room(q2, platform), m) = Room(new, platform)
    <3>1. Room(q2, platform).platform = platform
      BY DEF Room
    <3>2. Applied(Room(q2, platform), m) = Room(next.parts, Room(q2, platform).platform)
      BY ONLY <1>2, <1>16, next \in Snapshot, AppliedCommands
    <3>3. QED BY <3>1, <3>2 DEF new
  <2>4. Hop(both, m, Room(q2, platform), Room(q3, platform))
    BY <2>2, <1>11 DEF Hop
  <2> HIDE DEF both, m
  <2>5. both \in BOOLEAN
    BY DEF both, CommandsChanged
  <2>6. Leads(Maybe(both, m), Room(q2, platform), Room(q3, platform), silent)
    BY <1>15, <1>16, <2>4, <2>5, LeadsMaybe
  <2>7. QED BY <2>1, <2>6
<1>20. /\ DeviceDelta(before, next, "sensor") \in Seq(MessageRecord)
       /\ DeviceDelta(before, next, "led") \in Seq(MessageRecord)
       /\ CommandDelta(before, next) \in Seq(MessageRecord)
  BY <1>2, DeltaTypes
<1>21. Leads(DeviceDeltas(before, next), Room(parts, platform), Room(q2, platform), silent)
  BY <1>16, <1>17, <1>18, <1>20, LeadsThrough DEF DeviceDeltas
<1>22. DeviceDeltas(before, next) \in Seq(MessageRecord)
  BY <1>20, ConcatProperties DEF DeviceDeltas
<1>23. Leads(Outcome(before, next), Room(parts, platform), Room(q3, platform), silent)
  BY <1>16, <1>19, <1>20, <1>21, <1>22, LeadsThrough DEF Outcome
<1>24. QED BY <1>3, <1>23 DEF q3

\* Parts that differ by no more than the freshness of the sensor.
Alike(q, parts) ==
  /\ \A p \in Part : q[p].version = parts[p].version /\ q[p].outage = parts[p].outage
  /\ q["led"] = parts["led"] /\ q["commands"] = parts["commands"]

LEMMA LaterIsAlike ==
  ASSUME NEW parts \in [Part -> PartRecord], NEW q \in [Part -> PartRecord],
         NEW old \in BOOLEAN, Later(q, parts, old)
  PROVE  Alike(q, parts)
<1>1. CASE q = parts
  BY <1>1 DEF Alike
<1>2. CASE q = Aging(parts, old)
  <2>1. Alike(Aging(parts, old), parts)
    BY AgingFields DEF Alike
  <2>2. QED BY <1>2, <2>1
<1>3. QED BY <1>1, <1>2 DEF Later

LEMMA UpdatedFields ==
  ASSUME NEW before \in Snapshot, NEW next \in Snapshot, NEW parts \in [Part -> PartRecord],
         NEW old \in BOOLEAN, NEW older \in BOOLEAN,
         Later(parts, before.parts, old),
         next.parts["sensor"] = before.parts["sensor"] => older = old
  PROVE  LET u == Updated(parts, before, next)
         IN  Later(u, next.parts, older) /\ u \in [Part -> PartRecord]
<1> DEFINE u == Updated(parts, before, next) new == next.parts was == before.parts
<1>1. new \in [Part -> PartRecord] /\ was \in [Part -> PartRecord] /\ "sensor" \in Part
  BY SnapshotFields DEF Part
<1>2. u \in [Part -> PartRecord]
  BY <1>1 DEF Updated
<1>3. CASE CommandsChanged(before, next)
  BY <1>2, <1>3 DEF Updated, Later
<1>4. CASE ~CommandsChanged(before, next)
  <2>1. \A p \in Part : u[p] = IF was[p] # new[p] THEN new[p] ELSE parts[p]
    BY <1>4 DEF Updated
  <2>2. Later(parts, was, old)
    OBVIOUS
  <2>b. new["sensor"] = was["sensor"] => older = old
    OBVIOUS
  <2> HIDE DEF u, new, was
  <2>c. Alike(parts, was)
    BY <1>1, <2>2, LaterIsAlike
  <2>a. parts["sensor"] = was["sensor"] \/ parts["sensor"] = [was["sensor"] EXCEPT !.stale = old]
    <3>1. Aging(was, old)["sensor"] = [was["sensor"] EXCEPT !.stale = old]
      BY <1>1, AgingFields
    <3>2. QED BY <2>2, <3>1 DEF Later
  <2>3. u["led"] = new["led"] /\ u["commands"] = new["commands"]
    <3>1. "led" \in Part /\ "commands" \in Part
      BY DEF Part
    <3>2. QED BY <2>1, <2>c, <3>1 DEF Alike
  <2>4. CASE u["sensor"] = new["sensor"]
    <3>1. u = new
      BY <1>1, <1>2, <2>3, <2>4 DEF Part
    <3>2. QED BY <1>2, <3>1 DEF u, new, Later
  <2>5. CASE u["sensor"] # new["sensor"]
    <3>1. u["sensor"] = [new["sensor"] EXCEPT !.stale = older]
      BY <1>1, <2>1, <2>5, <2>a, <2>b
    <3>2. /\ Aging(new, older) \in [Part -> PartRecord]
          /\ Aging(new, older)["led"] = new["led"] /\ Aging(new, older)["commands"] = new["commands"]
          /\ Aging(new, older)["sensor"] = [new["sensor"] EXCEPT !.stale = older]
      BY <1>1, AgingFields
    <3>a. \A p \in Part : Aging(new, older)[p] = u[p]
      BY <2>3, <3>1, <3>2 DEF Part
    <3>3. u = Aging(new, older)
      BY <1>2, <3>2, <3>a
    <3>4. QED BY <1>2, <3>3 DEF u, new, Later
  <2>6. QED BY <2>4, <2>5
<1>5. QED BY <1>3, <1>4

LEMMA GoodLater ==
  ASSUME NEW next \in Snapshot, NEW parts \in [Part -> PartRecord], NEW old \in BOOLEAN,
         NEW silent, Good(next, silent), Later(parts, next.parts, old)
  PROVE  Good(Room(parts, next.platform), silent)
<1>1. next.parts \in [Part -> PartRecord]
  BY SnapshotFields
<1>2. Alike(parts, next.parts)
  BY <1>1, LaterIsAlike
<1>3. Covered(parts, next.platform) /\ Explained(parts, next.platform, silent)
  BY <1>2 DEF Good, Covered, Explained, Alike
<1>4. Together(parts)
  BY <1>2 DEF Good, Together, Alike
<1>5. QED BY <1>3, <1>4 DEF Good, Room

LEMMA ExplainedLater ==
  ASSUME NEW parts \in [Part -> PartRecord], NEW a \in PlatformRecord, NEW b \in PlatformRecord,
         NEW silent, a.outage <= b.outage, Explained(parts, a, silent)
  PROVE  Explained(parts, b, silent)
<1>1. a.outage \in Nat /\ b.outage \in Nat
  BY DEF PlatformRecord
<1>2. \A p \in Part : parts[p].outage \in Nat
  BY DEF PartRecord
<1>3. ASSUME NEW p \in Part PROVE parts[p].outage <= b.outage \/ parts[p].outage \in silent
  <2>1. parts[p].outage <= a.outage \/ parts[p].outage \in silent
    BY DEF Explained
  <2>2. QED BY <1>1, <1>2, <2>1
<1>4. QED BY <1>3 DEF Explained

LEMMA LaterPlatform ==
  ASSUME NEW q \in [Part -> PartRecord], NEW a \in PlatformRecord, NEW b \in PlatformRecord,
         a.outage <= b.outage, a.through <= b.through
  PROVE  AtMost(Room(q, a), Room(q, b))
BY DEF AtMost, Room, PartRecord

\* What is published leads a client that shows what was published, or what is installed,
\* to the room that is installed now.
LEMMA PublicationLeads ==
  ASSUME NEW now \in Snapshot, NEW before \in Snapshot, NEW next \in Snapshot,
         NEW v \in Snapshot, NEW silent, NEW old \in BOOLEAN, NEW older \in BOOLEAN,
         NEW first \in BOOLEAN,
         Good(v, silent), Good(next, silent), AtMost(now, next),
         Current(v, now, before, old), Behind(now, before, silent),
         next.parts["sensor"] = now.parts["sensor"] => older = old,
         IF first THEN next.platform.covers = now.platform.covers
         ELSE Explained(next.parts, before.platform, silent)
  PROVE  \E w \in Snapshot : /\ Leads(PublicationDeltas(before, next, first), v, w, silent)
                             /\ Current(w, next, next, older)
<1> DEFINE q == v.parts
           u == Updated(q, before, next)
           from == v.platform
           to == next.platform
<1>1. /\ q \in [Part -> PartRecord] /\ from \in PlatformRecord /\ to \in PlatformRecord
      /\ next.parts \in [Part -> PartRecord] /\ now.parts \in [Part -> PartRecord]
      /\ now.platform \in PlatformRecord /\ before.platform \in PlatformRecord
      /\ v = Room(q, from) /\ before.parts = now.parts
  BY SnapshotFields DEF Room, Behind
<1>2. Later(q, now.parts, old)
  BY DEF Current
<1>3. u \in [Part -> PartRecord] /\ Later(u, next.parts, older)
  BY <1>1, <1>2, UpdatedFields
<1>4. Alike(q, now.parts)
  BY <1>1, <1>2, LaterIsAlike
<1>a. q["led"] = before.parts["led"] /\ q["commands"] = before.parts["commands"]
  BY <1>1, <1>4 DEF Alike
<1>5. NotOlder(q, next.parts)
  BY <1>4 DEF AtMost, NotOlder, Alike
<1>6. /\ before.platform.outage \in Nat /\ now.platform.outage \in Nat /\ from.outage \in Nat
      /\ to.outage \in Nat /\ from.through \in Nat /\ to.through \in Nat
  BY <1>1 DEF PlatformRecord
<1>7. /\ before.platform.through = now.platform.through
      /\ before.platform.covers = now.platform.covers
      /\ now.platform = before.platform \/ now.platform.outage = before.platform.outage + 1
  BY <1>1 DEF Behind, PlatformRecord
<1>8. from = now.platform \/ from = before.platform
  BY DEF Current
<1>9. now.platform.outage <= to.outage /\ now.platform.through <= to.through
  BY DEF AtMost
<1>10. /\ from.outage <= to.outage /\ from.through <= to.through
       /\ before.platform.outage <= from.outage
       /\ from.covers = now.platform.covers
  <2>1. before.platform.outage <= now.platform.outage
    BY <1>6, <1>7
  <2>2. CASE from = now.platform
    BY <2>1, <2>2, <1>9
  <2>3. CASE from = before.platform
    BY <2>1, <2>3, <1>6, <1>7, <1>9
  <2>4. QED BY <2>2, <2>3, <1>8
<1>11. before.platform = to => from = to
  <2> SUFFICES ASSUME before.platform = to PROVE from = to
    OBVIOUS
  <2>1. ~(now.platform.outage = before.platform.outage + 1)
    BY <1>6, <1>9
  <2>2. QED BY <2>1, <1>7, <1>8
<1>12. Covered(q, from) /\ Explained(q, from, silent) /\ Together(q) /\ Together(next.parts)
       /\ Explained(next.parts, to, silent)
  BY DEF Good
<1>13. Room(q, from) \in Snapshot /\ Room(q, to) \in Snapshot /\ Room(u, from) \in Snapshot
       /\ Room(u, to) \in Snapshot
  BY <1>1, <1>3, RoomFields
<1>14. ASSUME NEW z \in [Part -> PartRecord], Good(Room(z, to), silent)
       PROVE  Leads(PlatformDelta(before, next), Room(z, from), Room(z, to), silent)
  <2> DEFINE sent == before.platform # to
             m == Message("platform.updated", "led", next)
  <2>1. PlatformDelta(before, next) = Maybe(sent, m)
    BY DEF PlatformDelta, Maybe
  <2>2. Room(z, from) \in Snapshot /\ Room(z, to) \in Snapshot /\ Room(z, from).parts = z
    BY <1>1, RoomFields
  <2>3. Applied(Room(z, from), m) = Room(z, to)
    <3>1. "led" \in Part
      BY DEF Part
    <3>2. Applied(Room(z, from), m) = Room(Room(z, from).parts, next.platform)
      BY ONLY <2>2, <3>1, next \in Snapshot, AppliedPlatform
    <3>3. QED BY <2>2, <3>2
  <2>4. Hop(sent, m, Room(z, from), Room(z, to))
    BY <2>3, <1>11 DEF Hop
  <2>5. AtMost(Room(z, from), Room(z, to))
    BY <1>1, <1>10, LaterPlatform
  <2> HIDE DEF sent, m
  <2>6. sent \in BOOLEAN
    BY DEF sent
  <2> HIDE DEF from, to, q, u
  <2>7. Leads(Maybe(sent, m), Room(z, from), Room(z, to), silent)
    BY <1>14, <2>2, <2>4, <2>5, <2>6, LeadsMaybe
  <2>8. QED BY <2>1, <2>7
<1>15. Good(Room(u, to), silent)
  BY <1>3, GoodLater
<1>16. /\ Outcome(before, next) \in Seq(MessageRecord)
       /\ PlatformDelta(before, next) \in Seq(MessageRecord)
  <2>1. "sensor" \in Part /\ "led" \in Part
    BY DEF Part
  <2>2. QED BY <2>1, DeltaTypes, ConcatProperties DEF Outcome, DeviceDeltas
<1>17. CASE first
  <2>1. next.platform.covers = now.platform.covers
    BY <1>17
  <2>2. Covered(q, to)
    BY <1>10, <1>12, <2>1 DEF Covered
  <2>3. Explained(q, to, silent)
    BY <1>1, <1>10, <1>12, ExplainedLater
  <2>4. Good(Room(q, to), silent)
    BY <1>12, <2>2, <2>3 DEF Good, Room
  <2>5. Leads(PlatformDelta(before, next), Room(q, from), Room(q, to), silent)
    BY <1>1, <1>14, <2>4
  <2> HIDE DEF q, from, to, u
  <2>6. Leads(Outcome(before, next), Room(q, to), Room(u, to), silent)
    BY <1>1, <1>a, <1>5, <1>12, <2>2, <2>3, OutcomeLeads DEF u
  <2>7. Leads(PlatformDelta(before, next) \o Outcome(before, next), Room(q, from), Room(u, to), silent)
    BY <1>13, <1>16, <2>5, <2>6, LeadsThrough
  <2>8. PublicationDeltas(before, next, first) = PlatformDelta(before, next) \o Outcome(before, next)
    BY <1>17 DEF PublicationDeltas, Outcome
  <2>9. QED BY <1>1, <1>3, <1>13, <2>7, <2>8 DEF Current, Room, to
<1>18. CASE ~first
  <2>1. Explained(next.parts, before.platform, silent)
    BY <1>18
  <2>2. Explained(next.parts, from, silent)
    BY <1>1, <1>10, <2>1, ExplainedLater
  <2>3. Leads(PlatformDelta(before, next), Room(u, from), Room(u, to), silent)
    BY <1>3, <1>14, <1>15
  <2> HIDE DEF q, from, to, u
  <2>4. Leads(Outcome(before, next), Room(q, from), Room(u, from), silent)
    BY <1>1, <1>a, <1>5, <1>12, <2>2, OutcomeLeads DEF u
  <2>5. Leads(Outcome(before, next) \o PlatformDelta(before, next), Room(q, from), Room(u, to), silent)
    BY <1>13, <1>16, <2>3, <2>4, LeadsThrough
  <2>6. PublicationDeltas(before, next, first) = Outcome(before, next) \o PlatformDelta(before, next)
    BY <1>18 DEF PublicationDeltas, Outcome
  <2>7. QED BY <1>1, <1>3, <1>13, <2>5, <2>6 DEF Current, Room, to
<1>19. QED BY <1>17, <1>18

\* So does what is published of a recovery.
LEMMA RecoveryLeads ==
  ASSUME NEW now \in Snapshot, NEW next \in Snapshot, NEW v \in Snapshot, NEW silent,
         NEW old \in BOOLEAN, NEW older \in BOOLEAN,
         Good(v, silent), Good(next, silent), AtMost(now, next), Current(v, now, now, old),
         next.parts["sensor"] = now.parts["sensor"] => older = old,
         Explained(next.parts, now.platform, silent)
  PROVE  \E w \in Snapshot : /\ Leads(RecoveryDeltas(now, next), v, w, silent)
                             /\ Current(w, next, next, older)
<1> DEFINE sent == now.parts # next.parts
           q == v.parts
           u == IF sent THEN next.parts ELSE q
           from == v.platform
           to == next.platform
           first == Message("commands.updated", "led", next)
           second == Message("platform.updated", "led", next)
<1>1. /\ q \in [Part -> PartRecord] /\ from \in PlatformRecord /\ to \in PlatformRecord
      /\ next.parts \in [Part -> PartRecord] /\ now.parts \in [Part -> PartRecord]
      /\ v = Room(q, from) /\ from = now.platform
  BY SnapshotFields DEF Room, Current
<1>2. Later(q, now.parts, old)
  BY DEF Current
<1>3. u \in [Part -> PartRecord] /\ Later(u, next.parts, older)
  BY <1>1, <1>2 DEF Later
<1>4. Alike(q, now.parts)
  BY <1>1, <1>2, LaterIsAlike
<1>5. NotOlder(q, next.parts)
  BY <1>4 DEF AtMost, NotOlder, Alike
<1>6. Covered(q, from) /\ Explained(q, from, silent) /\ Together(q) /\ Together(next.parts)
  BY DEF Good
<1>7. /\ v \in Snapshot /\ Room(u, from) \in Snapshot /\ Room(u, to) \in Snapshot
      /\ Room(u, from).parts = u /\ Room(u, from).platform = from
  BY <1>1, <1>3, RoomFields
<1>8. Mixed(u, q, next.parts) /\ Together(u)
  BY <1>6 DEF Mixed
<1>9. "led" \in Part
  BY DEF Part
<1>10. /\ first \in MessageRecord /\ second \in MessageRecord
       /\ Applied(v, first) = Room(next.parts, from)
       /\ Applied(Room(u, from), second) = Room(u, to)
  <2>1. first \in MessageRecord /\ second \in MessageRecord
    BY <1>9, MessageFields DEF MessageType
  <2>2. Applied(v, first) = Room(next.parts, v.platform)
    BY <1>9, AppliedCommands
  <2>3. Applied(Room(u, from), second) = Room(Room(u, from).parts, next.platform)
    BY ONLY <1>7, <1>9, next \in Snapshot, AppliedPlatform
  <2> HIDE DEF first, second, u, from, to
  <2>4. v.platform = from
    BY DEF from
  <2>5. Applied(Room(u, from), second) = Room(u, to)
    BY <1>7, <2>3 DEF to
  <2>6. QED BY <2>1, <2>2, <2>4, <2>5
<1>11. Good(Room(u, from), silent) /\ AtMost(Room(q, from), Room(u, from))
  <2>1. Explained(next.parts, from, silent)
    BY <1>1
  <2> HIDE DEF q, u, from, to
  <2>2. QED BY <2>1, <1>1, <1>3, <1>5, <1>6, <1>8, GoodMixture
<1>12. Good(Room(u, to), silent)
  BY <1>3, GoodLater
<1>13. AtMost(Room(u, from), Room(u, to))
  <2>1. from.outage <= to.outage /\ from.through <= to.through
    BY <1>1 DEF AtMost
  <2> HIDE DEF q, u, from, to
  <2>2. QED BY <2>1, <1>1, <1>3, LaterPlatform
<1>14. Hop(sent, first, v, Room(u, from))
  BY <1>1, <1>10 DEF Hop
<1>15. RecoveryDeltas(now, next) = Maybe(sent, first) \o <<second>>
  BY DEF RecoveryDeltas, Maybe
<1>16. sent \in BOOLEAN
  OBVIOUS
<1>17. Room(u, to).parts = u /\ Room(u, to).platform = next.platform
  BY DEF Room
<1> HIDE DEF sent, q, u, from, to, first, second
<1>18. Leads(Maybe(sent, first), v, Room(u, from), silent)
  BY <1>1, <1>7, <1>11, <1>14, <1>16, LeadsMaybe
<1>19. Leads(<<second>>, Room(u, from), Room(u, to), silent)
  BY <1>7, <1>10, <1>12, <1>13, LeadsOnce
<1>20. Maybe(sent, first) \in Seq(MessageRecord) /\ <<second>> \in Seq(MessageRecord)
  BY <1>10, EmptySeq DEF Maybe
<1>21. Leads(RecoveryDeltas(now, next), v, Room(u, to), silent)
  BY <1>7, <1>15, <1>18, <1>19, <1>20, LeadsThrough
<1>22. Current(Room(u, to), next, next, older)
  BY <1>3, <1>17 DEF Current
<1>23. QED BY <1>7, <1>21, <1>22

\* Deltas are messages other than snapshots.
AreDeltas(deltas) ==
  deltas \in Seq(MessageRecord) /\ \A i \in 1..Len(deltas) : deltas[i].type # "room.snapshot"

LEMMA DeltasJoined ==
  ASSUME NEW a, NEW b, AreDeltas(a), AreDeltas(b)
  PROVE  AreDeltas(a \o b)
<1>1. /\ a \in Seq(MessageRecord) /\ b \in Seq(MessageRecord) /\ a \o b \in Seq(MessageRecord)
      /\ Len(a) \in Nat /\ Len(b) \in Nat /\ Len(a \o b) = Len(a) + Len(b)
      /\ \A i \in 1..Len(a) + Len(b) : (a \o b)[i] = IF i <= Len(a) THEN a[i] ELSE b[i - Len(a)]
  BY ConcatProperties, LenProperties DEF AreDeltas
<1>2. ASSUME NEW i \in 1..Len(a \o b) PROVE (a \o b)[i].type # "room.snapshot"
  <2>1. CASE i <= Len(a)
    <3>1. i \in 1..Len(a) /\ (a \o b)[i] = a[i]
      BY <1>1, <2>1
    <3>2. QED BY <3>1 DEF AreDeltas
  <2>2. CASE ~(i <= Len(a))
    <3>1. i - Len(a) \in 1..Len(b) /\ (a \o b)[i] = b[i - Len(a)]
      BY <1>1, <2>2
    <3>2. QED BY <3>1 DEF AreDeltas
  <2>3. QED BY <2>1, <2>2
<1>3. QED BY <1>1, <1>2 DEF AreDeltas

LEMMA PublicationIsDeltas ==
  ASSUME NEW before \in Snapshot, NEW next \in Snapshot, NEW first \in BOOLEAN
  PROVE  AreDeltas(PublicationDeltas(before, next, first)) /\ AreDeltas(RecoveryDeltas(before, next))
<1>1. "sensor" \in Part /\ "led" \in Part
  BY DEF Part
<1>2. /\ AreDeltas(DeviceDelta(before, next, "sensor")) /\ AreDeltas(DeviceDelta(before, next, "led"))
      /\ AreDeltas(CommandDelta(before, next)) /\ AreDeltas(PlatformDelta(before, next))
  BY <1>1, DeltaTypes DEF AreDeltas
<1>3. AreDeltas(Outcome(before, next))
  BY <1>2, DeltasJoined DEF Outcome, DeviceDeltas
<1>4. PublicationDeltas(before, next, first) = IF first THEN PlatformDelta(before, next) \o Outcome(before, next)
                                               ELSE Outcome(before, next) \o PlatformDelta(before, next)
  BY DEF PublicationDeltas, Outcome
<1>5. AreDeltas(PublicationDeltas(before, next, first))
  BY <1>2, <1>3, <1>4, DeltasJoined
<1>6. AreDeltas(RecoveryDeltas(before, next))
  <2> DEFINE m == Message("commands.updated", "led", next)
             n == Message("platform.updated", "led", next)
  <2>1. /\ m \in MessageRecord /\ m.type = "commands.updated"
        /\ n \in MessageRecord /\ n.type = "platform.updated"
    BY <1>1, MessageFields DEF MessageType
  <2>2. RecoveryDeltas(before, next) = (IF before.parts # next.parts THEN <<m>> ELSE <<>>) \o <<n>>
    BY DEF RecoveryDeltas
  <2> HIDE DEF m, n
  <2>3. AreDeltas(<<m>>) /\ AreDeltas(<<n>>) /\ AreDeltas(<<>>)
    BY <2>1 DEF AreDeltas
  <2>4. AreDeltas(IF before.parts # next.parts THEN <<m>> ELSE <<>>)
    BY <2>3
  <2>5. QED BY <2>2, <2>3, <2>4, DeltasJoined
<1>7. QED BY <1>5, <1>6

-----------------------------------------------------------------------------
(* Where a stream is *)

\* What the stream still carries leads client c from one room to an earlier one or, as long as the
\* stream is open, to one that may be shown while now is installed.
Follows(l, c, from, silent, now, before, old) ==
  \E to \in Snapshot : /\ Delivers(l, c, from, to, silent) /\ AtMost(to, now)
                       /\ l.phase = "open" => Current(to, now, before, old)

LEMMA LeadsGood ==
  ASSUME NEW S, NEW s \in Seq(S), NEW u, NEW w, NEW silent, Leads(s, u, w, silent), Good(u, silent)
  PROVE  Good(w, silent)
<1>1. CASE Len(s) = 0
  BY <1>1 DEF Leads
<1>2. CASE Len(s) # 0
  <2>1. Len(s) \in 1..Len(s)
    BY <1>2, LenProperties
  <2>2. QED BY <2>1 DEF Leads
<1>3. QED BY <1>1, <1>2

LEMMA CurrentIsAtMost ==
  ASSUME NEW v \in Snapshot, NEW now \in Snapshot, NEW old \in BOOLEAN, Current(v, now, now, old)
  PROVE  AtMost(v, now)
<1>1. now.parts \in [Part -> PartRecord] /\ v.parts \in [Part -> PartRecord]
      /\ v.platform = now.platform /\ Later(v.parts, now.parts, old)
  BY SnapshotFields DEF Current
<1>2. Alike(v.parts, now.parts)
  BY <1>1, LaterIsAlike
<1>3. \A p \in Part : now.parts[p].version \in Nat
  BY SnapshotFields
<1>4. now.platform.outage \in Nat /\ now.platform.through \in Nat
  BY SnapshotFields
<1>5. QED BY <1>1, <1>2, <1>3, <1>4 DEF AtMost, Alike

\* A batch that leads on from every room that may be shown.
LEMMA FollowsOn ==
  ASSUME NEW k, NEW l \in Link, Settled(l), NEW c \in Client, NEW from \in Snapshot, NEW silent,
         NEW now \in Snapshot, NEW before, NEW old, NEW next \in Snapshot, NEW older \in BOOLEAN,
         Follows(l, c, from, silent, now, before, old), Good(from, silent), AtMost(now, next),
         NEW deltas, AreDeltas(deltas),
         \A v \in Snapshot : Good(v, silent) /\ Current(v, now, before, old) =>
           \E w \in Snapshot : Leads(deltas, v, w, silent) /\ Current(w, next, next, older),
         NEW e \in Enqueued(k, l, deltas)
  PROVE  e \in Link /\ Settled(e) /\ Follows(e, c, from, silent, next, next, older)
<1>0. deltas \in Seq(MessageRecord) /\ \A i \in 1..Len(deltas) : deltas[i].type # "room.snapshot"
  BY DEF AreDeltas
<1>1. e \in Link /\ Settled(e) /\ Continues(l, deltas, e)
  BY <1>0, EnqueuedCarries
<1>2. PICK v \in Snapshot : /\ Delivers(l, c, from, v, silent) /\ AtMost(v, now)
                            /\ l.phase = "open" => Current(v, now, before, old)
  BY DEF Follows
<1>3. CASE l.phase # "open"
  <2>1. e = l
    BY <1>1, <1>3 DEF Continues
  <2>2. AtMost(v, next)
    BY <1>2, AtMostTransitive
  <2>3. Follows(e, c, from, silent, next, next, older)
    BY <1>2, <1>3, <2>1, <2>2 DEF Follows
  <2>4. QED BY <1>1, <2>3
<1>4. CASE l.phase = "open"
  <2>1. Good(v, silent)
    <3>1. Leads(Carried(l), from, v, silent) /\ Carried(l) \in Seq(MessageRecord)
      BY <1>2, LinkFields DEF Delivers
    <3>2. QED BY <3>1, LeadsGood
  <2>2. PICK w \in Snapshot : Leads(deltas, v, w, silent) /\ Current(w, next, next, older)
    BY <1>2, <1>4, <2>1
  <2>3. PICK u \in Snapshot : /\ Delivers(e, c, from, u, silent) /\ AtMost(u, w)
                              /\ e.phase = "open" => u = w
    BY <1>0, <1>2, <1>4, <2>2, DeliversMore
  <2>4. AtMost(u, next)
    BY <2>2, <2>3, CurrentIsAtMost, AtMostTransitive
  <2>5. Follows(e, c, from, silent, next, next, older)
    BY <2>2, <2>3, <2>4 DEF Follows
  <2>6. QED BY <1>1, <2>5
<1>5. QED BY <1>3, <1>4

-----------------------------------------------------------------------------
(* The invariant *)

RoomInv ==
  /\ Good(room, quiet)
  /\ Behind(room, baseline, quiet)
  /\ room.parts["sensor"].stale => aged
  /\ \A p \in Part : room.parts[p].version <= events
  /\ room.platform.through <= events

ClientInv ==
  /\ client.closed => client.source = NoConn /\ ~client.timer
  /\ Good(shown.room, quiet)
  /\ AtMost(shown.room, room)

StreamInv(k) == Follows(link[k], client, shown.room, quiet, room, baseline, aged)

IInv ==
  /\ TypeOK /\ RoomInv /\ ClientInv
  /\ \A k \in Conn : client.source = k => StreamInv(k)

\* What an action of the engine leaves of the rest.
EngineKeeps == UNCHANGED <<breaks, client, shown>>

LEMMA NowFields ==
  ASSUME TypeOK
  PROVE  /\ SnapshotNow \in Snapshot /\ SnapshotNow.platform = room.platform
         /\ SnapshotNow.parts = Aging(room.parts, aged)
         /\ Alike(SnapshotNow.parts, room.parts)
         /\ SnapshotNow.parts["sensor"].stale = aged
<1>1. room \in Snapshot /\ aged \in BOOLEAN
  BY DEF TypeOK
<1>2. room.parts \in [Part -> PartRecord] /\ room.platform \in PlatformRecord
      /\ room = [parts |-> room.parts, platform |-> room.platform]
  BY <1>1, SnapshotFields
<1>3. SnapshotNow = Room(Aging(room.parts, aged), room.platform)
  BY <1>2 DEF SnapshotNow, Room, Aging
<1>4. Aging(room.parts, aged) \in [Part -> PartRecord] /\ Aging(room.parts, aged)["sensor"].stale = aged
  BY <1>1, <1>2, AgingFields
<1>5. Alike(Aging(room.parts, aged), room.parts)
  BY <1>1, <1>2, <1>4, LaterIsAlike DEF Later
<1>6. QED BY <1>2, <1>3, <1>4, <1>5, RoomFields

LEMMA NowIsGood ==
  ASSUME TypeOK, RoomInv
  PROVE  /\ Good(SnapshotNow, quiet) /\ AtMost(room, SnapshotNow)
         /\ \A p \in Part : SnapshotNow.parts[p].version = room.parts[p].version
<1>1. /\ room \in Snapshot /\ aged \in BOOLEAN /\ Good(room, quiet)
      /\ room.parts \in [Part -> PartRecord]
  BY SnapshotFields DEF TypeOK, RoomInv
<1>2. /\ SnapshotNow \in Snapshot /\ SnapshotNow.platform = room.platform
      /\ Later(SnapshotNow.parts, room.parts, aged) /\ Alike(SnapshotNow.parts, room.parts)
      /\ SnapshotNow.parts \in [Part -> PartRecord]
  BY NowFields, SnapshotFields DEF Later
<1>3. Good(Room(SnapshotNow.parts, room.platform), quiet)
  BY <1>1, <1>2, GoodLater
<1>4. Good(SnapshotNow, quiet)
  BY <1>2, <1>3, SnapshotFields DEF Room
<1>5. \A p \in Part : SnapshotNow.parts[p].version = room.parts[p].version
  BY <1>2 DEF Alike
<1>6. /\ \A p \in Part : room.parts[p].version \in Nat
      /\ room.platform.outage \in Nat /\ room.platform.through \in Nat
  BY <1>1, SnapshotFields
<1>7. AtMost(room, SnapshotNow)
  BY <1>2, <1>5, <1>6 DEF AtMost
<1>8. QED BY <1>4, <1>5, <1>7

LEMMA DegradedFields ==
  ASSUME NEW x \in Snapshot
  PROVE  /\ Degraded(x) \in Snapshot /\ Degraded(x).parts = x.parts
         /\ Degraded(x).platform.covers = x.platform.covers
         /\ Degraded(x).platform.through = x.platform.through
         /\ Degraded(x).platform.outage
              = IF x.platform.status = "available" THEN x.platform.outage + 1 ELSE x.platform.outage
         /\ x.platform.status = "available" =>
              Degraded(x).platform
                = [x.platform EXCEPT !.status = "degraded", !.outage = x.platform.outage + 1]
<1> DEFINE s == x.platform.status
           more == x.platform.outage + (IF s = "available" THEN 1 ELSE 0)
<1>1. x.platform \in PlatformRecord /\ x = Room(x.parts, x.platform) /\ x.platform.outage \in Nat
      /\ x.parts \in [Part -> PartRecord]
  BY SnapshotFields DEF Room
<1>2. CASE s = "degraded"
  BY <1>1, <1>2 DEF Degraded
<1>3. CASE s # "degraded"
  <2>1. Degraded(x) = Room(x.parts, [x.platform EXCEPT !.status = "degraded", !.outage = more])
    BY <1>1, <1>3 DEF Degraded, Room
  <2>2. more \in Nat /\ more = IF s = "available" THEN x.platform.outage + 1 ELSE x.platform.outage
    BY <1>1
  <2> HIDE DEF more
  <2> DEFINE y == [x.platform EXCEPT !.status = "degraded", !.outage = more]
  <2>3. y \in PlatformRecord /\ y.covers = x.platform.covers /\ y.through = x.platform.through
        /\ y.outage = more
    BY <1>1, <2>2 DEF PlatformRecord, Status
  <2>4. s = "available" => y = [x.platform EXCEPT !.status = "degraded", !.outage = x.platform.outage + 1]
    BY <2>2
  <2> HIDE DEF y
  <2>5. Degraded(x) \in Snapshot /\ Degraded(x).parts = x.parts /\ Degraded(x).platform = y
    BY <1>1, <2>1, <2>3, RoomFields DEF y
  <2>6. QED BY <2>2, <2>3, <2>4, <2>5
<1>4. QED BY <1>2, <1>3

LEMMA DegradedIsGood ==
  ASSUME NEW x \in Snapshot, NEW silent, Good(x, silent)
  PROVE  Good(Degraded(x), silent) /\ AtMost(x, Degraded(x))
<1>1. /\ Degraded(x) \in Snapshot /\ Degraded(x).parts = x.parts
      /\ Degraded(x).platform.covers = x.platform.covers
      /\ Degraded(x).platform.through = x.platform.through
      /\ x.platform.outage \in Nat /\ x.platform.through \in Nat
      /\ x.parts \in [Part -> PartRecord] /\ x.platform \in PlatformRecord
      /\ Degraded(x).platform \in PlatformRecord
  BY DegradedFields, SnapshotFields
<1>b. Degraded(x).platform.outage
        = IF x.platform.status = "available" THEN x.platform.outage + 1 ELSE x.platform.outage
  BY DegradedFields
<1>a. x.platform.outage <= Degraded(x).platform.outage
  BY <1>1, <1>b
<1>2. Covered(x.parts, Degraded(x).platform)
  BY <1>1 DEF Good, Covered
<1>3. Explained(x.parts, Degraded(x).platform, silent)
  BY <1>1, <1>a, ExplainedLater DEF Good
<1>4. Good(Degraded(x), silent)
  BY <1>1, <1>2, <1>3 DEF Good
<1>5. \A p \in Part : x.parts[p].version \in Nat
  BY SnapshotFields
<1>6. AtMost(x, Degraded(x))
  BY <1>1, <1>a, <1>5 DEF AtMost
<1>7. QED BY <1>4, <1>6

-----------------------------------------------------------------------------
(* Publications of the engine *)

\* Every connection enqueues one batch.
LEMMA ChosenLinks ==
  ASSUME NEW candidates, link' \in Choices([k \in Conn |-> candidates[k]])
  PROVE  /\ \A k \in Conn : link'[k] \in candidates[k]
         /\ \A S : (\A k \in Conn : link'[k] \in S) => link' \in [Conn -> S]
BY DEF Choices

\* What every publication of the engine leaves of the streams.
StreamsKept ==
  /\ link' \in [Conn -> Link]
  /\ \A k \in Conn : Settled(link'[k])
  /\ \A k \in Conn : client.source = k => StreamInv(k)'

LEMMA PublishedOnce ==
  ASSUME IInv, NEW next \in Snapshot, NEW first \in BOOLEAN,
         Good(next, quiet), AtMost(room, next), aged' \in BOOLEAN,
         next.parts["sensor"] = room.parts["sensor"] => aged' = aged,
         IF first THEN next.platform.covers = room.platform.covers
         ELSE Explained(next.parts, baseline.platform, quiet),
         Publish(Deltas(next, first)), Install(next), UNCHANGED quiet, EngineKeeps
  PROVE  StreamsKept
<1> DEFINE deltas == Deltas(next, first)
<1>1. /\ room \in Snapshot /\ baseline \in Snapshot /\ aged \in BOOLEAN
      /\ link \in [Conn -> Link] /\ \A k \in Conn : Settled(link[k])
      /\ client \in Client /\ shown.room \in Snapshot
      /\ Behind(room, baseline, quiet) /\ Good(shown.room, quiet)
  BY DEF IInv, TypeOK, RoomInv, ClientInv, Settled
<1>2. AreDeltas(deltas)
  BY <1>1, PublicationIsDeltas DEF Deltas
<1>3. \A v \in Snapshot : Good(v, quiet) /\ Current(v, room, baseline, aged) =>
        \E w \in Snapshot : Leads(deltas, v, w, quiet) /\ Current(w, next, next, aged')
  BY <1>1, PublicationLeads, SMTT(60) DEF Deltas
<1>4. /\ \A k \in Conn : link'[k] \in Enqueued(k, link[k], deltas)
      /\ \A S : (\A k \in Conn : link'[k] \in S) => link' \in [Conn -> S]
  <2> DEFINE candidates == [k \in Conn |-> Enqueued(k, link[k], deltas)]
  <2>1. link' \in Choices([k \in Conn |-> candidates[k]])
    BY DEF Publish
  <2> HIDE DEF candidates
  <2>2. /\ \A k \in Conn : link'[k] \in candidates[k]
        /\ \A S : (\A k \in Conn : link'[k] \in S) => link' \in [Conn -> S]
    BY <2>1, ChosenLinks
  <2>3. QED BY <2>2 DEF candidates
<1> HIDE DEF deltas
<1>5. \A k \in Conn : link'[k] \in Link /\ Settled(link'[k])
  BY <1>1, <1>2, <1>4, EnqueuedCarries DEF AreDeltas
<1>6. ASSUME NEW k \in Conn, client.source = k
      PROVE  StreamInv(k)'
  <2>1. Follows(link[k], client, shown.room, quiet, room, baseline, aged)
    BY <1>6 DEF IInv, StreamInv
  <2>2. link'[k] \in Enqueued(k, link[k], deltas) /\ link[k] \in Link /\ Settled(link[k])
    BY <1>1, <1>4
  <2>3. Follows(link'[k], client, shown.room, quiet, next, next, aged')
    BY <1>1, <1>2, <1>3, <2>1, <2>2, FollowsOn
  <2>4. client' = client /\ shown' = shown /\ quiet' = quiet /\ room' = next /\ baseline' = next
    BY DEF EngineKeeps, Install
  <2>5. QED BY <2>3, <2>4 DEF StreamInv
<1>7. link' \in [Conn -> Link]
  BY <1>4, <1>5
<1>8. QED BY <1>5, <1>6, <1>7 DEF StreamsKept

LEMMA PublishedTwice ==
  ASSUME IInv, NEW mid \in Snapshot, NEW next \in Snapshot, NEW second, AreDeltas(second),
         Good(mid, quiet), AtMost(room, mid), mid.parts = room.parts, AtMost(mid, next),
         Explained(mid.parts, baseline.platform, quiet), aged' \in BOOLEAN,
         \A v \in Snapshot : Good(v, quiet) /\ Current(v, mid, mid, aged) =>
           \E w \in Snapshot : Leads(second, v, w, quiet) /\ Current(w, next, next, aged'),
         PublishBoth(Deltas(mid, FALSE), second), Install(next), UNCHANGED quiet, EngineKeeps
  PROVE  StreamsKept
<1> DEFINE deltas == Deltas(mid, FALSE)
           both(k) == UNION {Enqueued(k, l, second) : l \in Enqueued(k, link[k], deltas)}
<1>1. /\ room \in Snapshot /\ baseline \in Snapshot /\ aged \in BOOLEAN
      /\ link \in [Conn -> Link] /\ \A k \in Conn : Settled(link[k])
      /\ client \in Client /\ shown.room \in Snapshot
      /\ Behind(room, baseline, quiet) /\ Good(shown.room, quiet)
  BY DEF IInv, TypeOK, RoomInv, ClientInv, Settled
<1>2. AreDeltas(deltas)
  BY <1>1, PublicationIsDeltas DEF Deltas
<1>3. ASSUME NEW v \in Snapshot, Good(v, quiet), Current(v, room, baseline, aged)
      PROVE  \E w \in Snapshot : Leads(deltas, v, w, quiet) /\ Current(w, mid, mid, aged)
  <2>1. mid.parts["sensor"] = room.parts["sensor"] => aged = aged
    OBVIOUS
  <2> DEFINE first == FALSE
  <2>2. /\ first \in BOOLEAN
        /\ IF first THEN mid.platform.covers = room.platform.covers
           ELSE Explained(mid.parts, baseline.platform, quiet)
    OBVIOUS
  <2>a. deltas = PublicationDeltas(baseline, mid, first)
    BY DEF Deltas
  <2> HIDE DEF first, deltas
  <2>3. \E w \in Snapshot : /\ Leads(PublicationDeltas(baseline, mid, first), v, w, quiet)
                            /\ Current(w, mid, mid, aged)
    BY <1>1, <1>3, <2>1, <2>2, PublicationLeads
  <2>4. QED BY <2>3, <2>a
<1>4. /\ \A k \in Conn : link'[k] \in both(k)
      /\ \A S : (\A k \in Conn : link'[k] \in S) => link' \in [Conn -> S]
  <2> DEFINE candidates == [k \in Conn |-> both(k)]
  <2>1. link' \in Choices([k \in Conn |-> candidates[k]])
    BY DEF PublishBoth
  <2> HIDE DEF candidates
  <2>2. /\ \A k \in Conn : link'[k] \in candidates[k]
        /\ \A S : (\A k \in Conn : link'[k] \in S) => link' \in [Conn -> S]
    BY <2>1, ChosenLinks
  <2>3. QED BY <2>2 DEF candidates
<1>b. \A k \in Conn : \E l \in Enqueued(k, link[k], deltas) : link'[k] \in Enqueued(k, l, second)
  BY <1>4
<1> HIDE DEF deltas, both
<1>5. ASSUME NEW k \in Conn
      PROVE  /\ link'[k] \in Link /\ Settled(link'[k])
             /\ client.source = k => StreamInv(k)'
  <2>1. PICK l \in Enqueued(k, link[k], deltas) : link'[k] \in Enqueued(k, l, second)
    BY <1>b
  <2>2. l \in Link /\ Settled(l)
    BY <1>1, <1>2, EnqueuedCarries DEF AreDeltas
  <2>3. link'[k] \in Link /\ Settled(link'[k])
    BY <2>1, <2>2, EnqueuedCarries DEF AreDeltas
  <2>4. ASSUME client.source = k
        PROVE  StreamInv(k)'
    <3>1. Follows(link[k], client, shown.room, quiet, room, baseline, aged)
      BY <2>4 DEF IInv, StreamInv
    <3>2. link[k] \in Link /\ Settled(link[k])
      BY <1>1
    <3>3. Follows(l, client, shown.room, quiet, mid, mid, aged)
      BY <1>1, <1>2, <1>3, <2>1, <3>1, <3>2, FollowsOn
    <3>4. Follows(link'[k], client, shown.room, quiet, next, next, aged')
      BY <1>1, <2>1, <2>2, <3>3, FollowsOn
    <3>5. client' = client /\ shown' = shown /\ quiet' = quiet /\ room' = next /\ baseline' = next
      BY DEF EngineKeeps, Install
    <3>6. QED BY <3>4, <3>5 DEF StreamInv
  <2>5. QED BY <2>3, <2>4
<1>6. link' \in [Conn -> Link]
  BY <1>4, <1>5
<1>7. QED BY <1>5, <1>6 DEF StreamsKept

\* What the installed room explains, the published one does.
LEMMA BaselineExplains ==
  ASSUME TypeOK, RoomInv, NEW parts \in [Part -> PartRecord], Explained(parts, room.platform, quiet)
  PROVE  Explained(parts, baseline.platform, quiet)
<1>1. /\ room.platform.outage \in Nat /\ baseline.platform.outage \in Nat
      /\ baseline.platform \in PlatformRecord /\ \A p \in Part : parts[p].outage \in Nat
  BY SnapshotFields DEF TypeOK, PartRecord
<1>2. \/ room.platform.outage = baseline.platform.outage
      \/ room.platform.outage = baseline.platform.outage + 1 /\ room.platform.outage \in quiet
  BY <1>1 DEF RoomInv, Behind, PlatformRecord
<1>3. ASSUME NEW p \in Part
      PROVE  parts[p].outage <= baseline.platform.outage \/ parts[p].outage \in quiet
  <2>1. parts[p].outage <= room.platform.outage \/ parts[p].outage \in quiet
    BY DEF Explained
  <2>2. parts[p].outage \in Nat
    BY <1>1
  <2>3. CASE parts[p].outage \in quiet
    BY <2>3
  <2>4. CASE parts[p].outage <= room.platform.outage /\ parts[p].outage \notin quiet
    <3>1. parts[p].outage # room.platform.outage \/ room.platform.outage = baseline.platform.outage
      BY <1>2, <2>4
    <3>2. QED BY <1>1, <1>2, <2>2, <2>4, <3>1
  <2>5. QED BY <2>1, <2>3, <2>4
<1>4. QED BY <1>3 DEF Explained

\* The sets of parts that one event may change.
ChangeSets == {{"sensor"}, {"led"}, {"commands"}, {"led", "commands"}, {}}

LEMMA ChangedParts ==
  ASSUME NEW changed \in ChangeSets
  PROVE  Cardinality(changed) > 1 => changed = {"led", "commands"}
<1>1. CASE changed = {}
  BY <1>1, FS_EmptySet
<1>2. CASE \E p : changed = {p}
  <2>1. PICK p : changed = {p}
    BY <1>2
  <2>2. Cardinality({p}) = 1
    BY FS_Singleton
  <2>3. QED BY <2>1, <2>2
<1>3. QED BY <1>1, <1>2 DEF ChangeSets

\* What projecting an event that changes some parts leaves of the room.
Makes(changed, outage, next) ==
  /\ next \in Snapshot /\ next.platform = room.platform
  /\ \A p \in Part :
       /\ next.parts[p].version = IF p \in changed THEN events + 1 ELSE room.parts[p].version
       /\ next.parts[p].outage = IF p \in changed THEN outage ELSE room.parts[p].outage
  /\ Together(next.parts)
  /\ "sensor" \in changed => /\ ~next.parts["sensor"].stale
                             /\ next.parts["sensor"] # room.parts["sensor"]
  /\ "sensor" \notin changed => next.parts["sensor"].stale = aged

LEMMA ProjectedFields ==
  ASSUME TypeOK, RoomInv, NEW outage \in Nat,
         NEW changed \in ChangeSets
  PROVE  Makes(changed, outage, Projected(changed, outage))
<1> DEFINE next == Projected(changed, outage)
           now == SnapshotNow
           both == Cardinality(changed) > 1
           cell == [version |-> events + 1, joint |-> both, outage |-> outage, stale |-> FALSE]
           parts == [p \in Part |-> IF p \in changed THEN cell ELSE now.parts[p]]
<1>1. /\ events \in Nat /\ now \in Snapshot /\ now.platform = room.platform
      /\ now.parts \in [Part -> PartRecord] /\ Alike(now.parts, room.parts)
      /\ room.platform \in PlatformRecord
      /\ room.parts \in [Part -> PartRecord]
      /\ \A p \in Part : room.parts[p].version \in Nat /\ room.parts[p].version <= events
      /\ now.parts["sensor"].stale = aged /\ now = Room(now.parts, now.platform)
  BY NowFields, SnapshotFields DEF TypeOK, RoomInv, Room
<1>2. next = Room(parts, room.platform)
  <2>1. next = [now EXCEPT !.parts = parts]
    BY DEF Projected
  <2> HIDE DEF next, now, parts
  <2>2. QED BY <1>1, <2>1 DEF Room
<1>3. "sensor" \in Part /\ "led" \in Part /\ "commands" \in Part
  BY DEF Part
<1> HIDE DEF now
<1>4. cell \in PartRecord
  BY <1>1 DEF PartRecord
<1>5. parts \in [Part -> PartRecord]
  BY <1>1, <1>4
<1>6. next \in Snapshot /\ next.parts = parts /\ next.platform = room.platform
  <2> HIDE DEF next, parts
  <2>1. QED BY <1>1, <1>2, <1>5, RoomFields
<1>7. \A p \in Part : /\ parts[p].version = IF p \in changed THEN events + 1
                                            ELSE room.parts[p].version
                      /\ parts[p].outage = IF p \in changed THEN outage ELSE room.parts[p].outage
  BY <1>1 DEF Alike
<1>8. parts["led"] = (IF "led" \in changed THEN cell ELSE room.parts["led"])
      /\ parts["commands"] = (IF "commands" \in changed THEN cell ELSE room.parts["commands"])
  BY <1>1, <1>3 DEF Alike
<1>9. /\ both => changed = {"led", "commands"}
      /\ cell.joint = both /\ cell.version = events + 1
  BY ChangedParts
<1>10. Together(parts)
  <2> DEFINE led == parts["led"] commands == parts["commands"]
  <2>1. Together(room.parts)
    BY DEF RoomInv, Good
  <2>2. /\ room.parts["led"].version \in Nat /\ room.parts["commands"].version \in Nat
        /\ room.parts["led"].version <= events /\ room.parts["commands"].version <= events
    BY <1>1, <1>3
  <2> HIDE DEF parts, cell, both
  <2>3. CASE "led" \in changed /\ "commands" \in changed
    BY <1>1, <1>8, <1>9, <2>3 DEF Together
  <2>4. CASE "led" \in changed /\ "commands" \notin changed
    <3>1. ~both
      BY <1>9, <2>4
    <3>2. led.joint = FALSE /\ led.version = events + 1 /\ commands = room.parts["commands"]
      <4>1. led = cell /\ commands = room.parts["commands"]
        BY <1>8, <2>4
      <4> HIDE DEF led, commands
      <4>2. QED BY <1>9, <3>1, <4>1
    <3>3. commands.joint => led.version >= commands.version
      <4>1. commands.version \in Nat /\ commands.version <= events
        BY <2>2, <3>2
      <4> HIDE DEF led, commands
      <4>2. QED BY <1>1, <3>2, <4>1
    <3>4. QED BY <3>2, <3>3 DEF Together
  <2>5. CASE "led" \notin changed /\ "commands" \in changed
    <3>1. ~both
      BY <1>9, <2>5
    <3>2. commands.joint = FALSE /\ commands.version = events + 1 /\ led = room.parts["led"]
      <4>1. commands = cell /\ led = room.parts["led"]
        BY <1>8, <2>5
      <4> HIDE DEF led, commands
      <4>2. QED BY <1>9, <3>1, <4>1
    <3>3. led.joint => commands.version >= led.version
      <4>1. led.version \in Nat /\ led.version <= events
        BY <2>2, <3>2
      <4> HIDE DEF led, commands
      <4>2. QED BY <1>1, <3>2, <4>1
    <3>4. QED BY <3>2, <3>3 DEF Together
  <2>6. CASE "led" \notin changed /\ "commands" \notin changed
    BY <1>8, <2>1, <2>6 DEF Together
  <2>7. QED BY <2>3, <2>4, <2>5, <2>6
<1>11. "sensor" \in changed => ~parts["sensor"].stale /\ parts["sensor"] # room.parts["sensor"]
  <2> SUFFICES ASSUME "sensor" \in changed
               PROVE  ~parts["sensor"].stale /\ parts["sensor"] # room.parts["sensor"]
    OBVIOUS
  <2>1. parts["sensor"] = cell
    BY <1>3
  <2>2. room.parts["sensor"].version \in Nat /\ room.parts["sensor"].version <= events
    BY <1>1, <1>3
  <2>3. room.parts["sensor"].version # events + 1
    BY <1>1, <2>2
  <2>4. cell.stale = FALSE /\ cell.version = events + 1
    OBVIOUS
  <2> HIDE DEF parts, cell
  <2>5. QED BY <2>1, <2>3, <2>4
<1>12. "sensor" \notin changed => parts["sensor"].stale = aged
  BY <1>1, <1>3
<1> HIDE DEF parts
<1>13. QED BY <1>6, <1>7, <1>10, <1>11, <1>12 DEF next, Makes

-----------------------------------------------------------------------------
(* Steps of the connections and of the client *)

\* What such a step leaves.
LEMMA ClientSteps ==
  ASSUME IInv, UNCHANGED server, breaks' \in Nat,
         link' \in [Conn -> Link], \A k \in Conn : Settled(link'[k]),
         client' \in Client, shown' \in [ready : BOOLEAN, room : Snapshot],
         client'.closed => client'.source = NoConn /\ ~client'.timer,
         Good(shown'.room, quiet), AtMost(shown'.room, room),
         \A k \in Conn : client'.source = k =>
           Follows(link'[k], client', shown'.room, quiet, room, baseline, aged)
  PROVE  IInv'
<1>1. /\ events' = events /\ faults' = faults /\ room' = room /\ aged' = aged
      /\ baseline' = baseline /\ quiet' = quiet
  BY DEF server
<1>2. TypeOK'
  BY <1>1 DEF IInv, TypeOK, Settled
<1>3. RoomInv'
  BY <1>1 DEF IInv, RoomInv
<1>4. ClientInv'
  BY <1>1 DEF ClientInv
<1>5. \A k \in Conn : client'.source = k => StreamInv(k)'
  BY <1>1 DEF StreamInv
<1>6. QED BY <1>2, <1>3, <1>4, <1>5 DEF IInv

LEMMA LinkUpdated ==
  ASSUME TypeOK, NEW k \in Conn, NEW l \in Link, Settled(l), link' = [link EXCEPT ![k] = l]
  PROVE  /\ link' \in [Conn -> Link] /\ \A j \in Conn : Settled(link'[j])
         /\ link'[k] = l /\ \A j \in Conn : j # k => link'[j] = link[j]
<1>1. link \in [Conn -> Link] /\ \A j \in Conn : Settled(link[j])
  BY DEF TypeOK, Settled
<1>2. QED BY <1>1

\* As a step that changes the link of one connection and nothing else.
LEMMA LinkSteps ==
  ASSUME IInv, NEW k \in Conn, NEW l \in Link, Settled(l), link' = [link EXCEPT ![k] = l],
         UNCHANGED <<server, client, shown>>, breaks' \in Nat,
         client.source = k =>
           Follows(l, client, shown.room, quiet, room, baseline, aged)
  PROVE  IInv'
<1>1. /\ link' \in [Conn -> Link] /\ \A j \in Conn : Settled(link'[j])
      /\ link'[k] = l /\ \A j \in Conn : j # k => link'[j] = link[j]
  BY LinkUpdated DEF IInv
<1>2. client' = client /\ shown' = shown
  OBVIOUS
<1>3. ASSUME NEW j \in Conn, client'.source = j
      PROVE  Follows(link'[j], client', shown'.room, quiet, room, baseline, aged)
  <2>1. CASE j = k
    BY <1>1, <1>2, <1>3, <2>1
  <2>2. CASE j # k
    <3>1. Follows(link[j], client, shown.room, quiet, room, baseline, aged)
      BY <1>2, <1>3 DEF IInv, StreamInv
    <3>2. QED BY <1>1, <1>2, <2>2, <3>1
  <2>3. QED BY <2>1, <2>2
<1>4. /\ client' \in Client /\ shown' \in [ready : BOOLEAN, room : Snapshot]
      /\ client'.closed => client'.source = NoConn /\ ~client'.timer
      /\ Good(shown'.room, quiet) /\ AtMost(shown'.room, room)
  BY <1>2 DEF IInv, TypeOK, ClientInv
<1>5. QED BY <1>1, <1>3, <1>4, ClientSteps

\* A stream on which nothing is left leaves the client where it is.
LEMMA FollowsNothing ==
  ASSUME NEW l \in Link, Carried(l) = <<>>, l.phase \in {"requested", "ended"},
         NEW c \in Client, l.phase = "requested" => ~c.ready, NEW silent,
         NEW from \in Snapshot, NEW now, NEW before, NEW old, AtMost(from, now)
  PROVE  Follows(l, c, from, silent, now, before, old)
<1>1. Leads(<<>>, from, from, silent)
  BY LeadsNowhere
<1>2. Contiguous(<<>>, c)
  BY DEF Contiguous
<1>3. Delivers(l, c, from, from, silent)
  BY <1>1, <1>2 DEF Delivers
<1>4. QED BY <1>3 DEF Follows

\* Writing leaves the stream at the same revision.
LEMMA FlushedStays ==
  ASSUME NEW k, NEW l \in Link, NEW f \in Flushed(k, l)
  PROVE  f.phase = l.phase /\ f.revision = l.revision
<1>1. ASSUME NEW i PROVE Stopped(l, i).phase = l.phase /\ Stopped(l, i).revision = l.revision
  BY DEF Stopped, Link
<1>2. CASE \E i : f = Stopped(l, i)
  BY <1>1, <1>2
<1>3. CASE f = [l EXCEPT !.wire = @ \o l.rest \o l.waiting, !.rest = <<>>, !.waiting = <<>>,
                         !.draining = FALSE]
  BY <1>3 DEF Link
<1>4. QED BY <1>2, <1>3 DEF Flushed

LEMMA FollowsAlike ==
  ASSUME NEW l, NEW f, NEW c, NEW from, NEW silent, NEW now, NEW before, NEW old,
         f.phase = l.phase, f.revision = l.revision, Carried(f) = Carried(l),
         Follows(l, c, from, silent, now, before, old)
  PROVE  Follows(f, c, from, silent, now, before, old)
<1>1. \A to : Delivers(l, c, from, to, silent) => Delivers(f, c, from, to, silent)
  BY DEF Delivers
<1>2. QED BY <1>1 DEF Follows

LEMMA AcceptKeeps ==
  ASSUME IInv, NEW k \in Conn, Accept(k)
  PROVE  IInv'
<1> DEFINE m == Message("room.snapshot", "led", SnapshotNow)
           opened == [IdleLink EXCEPT !.phase = "open", !.rest = <<m>>]
<1>1. /\ SnapshotNow \in Snapshot /\ Good(SnapshotNow, quiet) /\ AtMost(room, SnapshotNow)
      /\ room \in Snapshot /\ shown.room \in Snapshot /\ AtMost(shown.room, room)
      /\ client \in Client /\ breaks \in Nat
      /\ SnapshotNow.parts = Aging(room.parts, aged) /\ SnapshotNow.platform = room.platform
  BY NowFields, NowIsGood DEF IInv, TypeOK, ClientInv
<1>2. /\ m \in MessageRecord /\ m.type = "room.snapshot" /\ m.revision = 0
      /\ Applied(shown.room, m) = SnapshotNow
  <2>1. "led" \in Part /\ "room.snapshot" \in MessageType
    BY DEF Part, MessageType
  <2>2. m \in MessageRecord /\ m.type = "room.snapshot"
    BY <1>1, <2>1, MessageFields
  <2>3. m.revision = 0
    BY DEF Message
  <2>4. Applied(shown.room, m) = SnapshotNow
    BY <1>1, <2>1, AppliedSnapshot
  <2>5. QED BY <2>2, <2>3, <2>4
<1> HIDE DEF m
<1>3. opened \in Link /\ opened.phase = "open" /\ opened.revision = 0 /\ Carried(opened) = <<m>>
  <2>1. <<m>> \in Seq(MessageRecord) /\ <<>> \in Seq(MessageRecord) /\ <<>> \o <<m>> \o <<>> = <<m>>
    BY <1>2
  <2>2. opened \in Link /\ opened.phase = "open" /\ opened.revision = 0
        /\ opened.wire = <<>> /\ opened.rest = <<m>> /\ opened.waiting = <<>>
    BY <2>1 DEF IdleLink, Link
  <2>3. QED BY <2>1, <2>2 DEF Carried
<1>4. PICK l \in Flushed(k, opened) : link' = [link EXCEPT ![k] = l]
  BY DEF Accept, m
<1> HIDE DEF opened
<1>5. /\ l \in Link /\ Settled(l) /\ Carried(l) = <<m>> /\ l.phase = "open" /\ l.revision = 0
  BY <1>3, <1>4, FlushedKeeps, FlushedStays
<1>6. ASSUME client.source = k
      PROVE  Follows(l, client, shown.room, quiet, room, baseline, aged)
  <2>1. ~client.ready
    BY <1>6 DEF IInv, StreamInv, Follows, Delivers, Accept
  <2>2. AtMost(shown.room, SnapshotNow)
    BY <1>1, AtMostTransitive
  <2>3. Leads(<<m>>, shown.room, SnapshotNow, quiet)
    BY <1>1, <1>2, <2>2, LeadsOnce
  <2>4. Len(<<m>>) = 1 /\ <<m>>[1] = m /\ <<m>> # <<>>
    OBVIOUS
  <2>5. Contiguous(<<m>>, client)
    BY <1>2, <2>1, <2>4 DEF Contiguous
  <2>6. Delivers(l, client, shown.room, SnapshotNow, quiet)
    BY <1>5, <2>1, <2>3, <2>4, <2>5 DEF Delivers
  <2>7. Current(SnapshotNow, room, baseline, aged)
    BY <1>1 DEF Current, Later
  <2>8. AtMost(SnapshotNow, room)
    <3>1. \A p \in Part : SnapshotNow.parts[p].version = room.parts[p].version
      BY NowIsGood DEF IInv
    <3>2. \A p \in Part : room.parts[p].version \in Nat
      BY <1>1, SnapshotFields
    <3>3. room.platform.outage \in Nat /\ room.platform.through \in Nat
      BY <1>1, SnapshotFields
    <3>4. QED BY <1>1, <3>1, <3>2, <3>3 DEF AtMost
  <2>9. QED BY <1>1, <2>6, <2>7, <2>8 DEF Follows
<1>7. UNCHANGED <<server, breaks, client, shown>>
  BY DEF Accept
<1>8. QED BY <1>1, <1>4, <1>5, <1>6, <1>7, LinkSteps

LEMMA DrainKeeps ==
  ASSUME IInv, NEW k \in Conn, Drain(k)
  PROVE  IInv'
<1> DEFINE drained == [link[k] EXCEPT !.draining = FALSE]
<1>1. link[k] \in Link /\ breaks \in Nat
  BY DEF IInv, TypeOK
<1>2. /\ drained \in Link /\ drained.phase = link[k].phase /\ drained.revision = link[k].revision
      /\ Carried(drained) = Carried(link[k])
  BY <1>1 DEF Link, Carried
<1>3. PICK l \in Flushed(k, drained) : link' = [link EXCEPT ![k] = l]
  BY DEF Drain
<1> HIDE DEF drained
<1>4. /\ l \in Link /\ Settled(l) /\ Carried(l) = Carried(link[k])
      /\ l.phase = link[k].phase /\ l.revision = link[k].revision
  BY <1>2, <1>3, FlushedKeeps, FlushedStays
<1>5. client.source = k => Follows(l, client, shown.room, quiet, room, baseline, aged)
  BY <1>4, FollowsAlike DEF IInv, StreamInv
<1>6. UNCHANGED <<server, breaks, client, shown>>
  BY DEF Drain
<1>7. QED BY <1>1, <1>3, <1>4, <1>5, <1>6, LinkSteps

LEMMA BreakKeeps ==
  ASSUME IInv, NEW k \in Conn, Break(k)
  PROVE  IInv'
<1>1. /\ shown.room \in Snapshot /\ AtMost(shown.room, room) /\ client \in Client /\ breaks' \in Nat
  BY DEF IInv, TypeOK, ClientInv, Break
<1>2. Follows(EndedLink, client, shown.room, quiet, room, baseline, aged)
  BY <1>1, IdleLinkType, FollowsNothing
<1>3. link' = [link EXCEPT ![k] = EndedLink] /\ UNCHANGED <<server, client, shown>>
  BY DEF Break
<1>4. QED BY <1>1, <1>2, <1>3, IdleLinkType, LinkSteps

LEMMA AbandonKeeps ==
  ASSUME IInv, NEW k \in Conn, Abandon(k)
  PROVE  IInv'
<1>1. breaks \in Nat
  BY DEF IInv, TypeOK
<1>2. /\ link' = [link EXCEPT ![k] = IdleLink] /\ client.source # k
      /\ UNCHANGED <<server, breaks, client, shown>>
  BY DEF Abandon
<1>3. QED BY <1>1, <1>2, IdleLinkType, LinkSteps

LEMMA HeadTailOfConcat ==
  ASSUME NEW a \in Seq(MessageRecord), NEW b \in Seq(MessageRecord), a # <<>>
  PROVE  /\ a \o b \in Seq(MessageRecord) /\ a \o b # <<>>
         /\ Head(a \o b) = Head(a) /\ Tail(a \o b) = Tail(a) \o b
<1> DEFINE m == Len(a) n == Len(b) s == a \o b t == Tail(a)
<1>1. /\ m \in Nat \ {0} /\ n \in Nat /\ s \in Seq(MessageRecord) /\ Len(s) = m + n
      /\ \A i \in 1..m + n : s[i] = IF i <= m THEN a[i] ELSE b[i - m]
  BY ConcatProperties, LenProperties, EmptySeq
<1>2. /\ t \in Seq(MessageRecord) /\ Len(t) = m - 1
      /\ \A i \in 1..Len(t) : t[i] = a[i + 1]
  BY HeadTailProperties
<1>3. /\ t \o b \in Seq(MessageRecord) /\ Len(t \o b) = Len(t) + n
      /\ \A i \in 1..Len(t) + n : (t \o b)[i] = IF i <= Len(t) THEN t[i] ELSE b[i - Len(t)]
  BY <1>2, ConcatProperties
<1> HIDE DEF m, n, s, t
<1>4. s # <<>>
  BY <1>1, EmptySeq
<1>5. /\ Tail(s) \in Seq(MessageRecord) /\ Len(Tail(s)) = m + n - 1
      /\ \A i \in 1..Len(Tail(s)) : Tail(s)[i] = s[i + 1]
  BY <1>1, <1>4, HeadTailProperties
<1>6. ASSUME NEW i \in 1..m + n - 1 PROVE Tail(s)[i] = (t \o b)[i]
  <2>1. Tail(s)[i] = s[i + 1] /\ i + 1 \in 1..m + n /\ i \in 1..Len(t) + n /\ i \in Nat
    BY <1>1, <1>2, <1>5
  <2>2. CASE i <= m - 1
    BY <1>1, <1>2, <1>3, <2>1, <2>2
  <2>3. CASE ~(i <= m - 1)
    <3>1. s[i + 1] = b[(i + 1) - m] /\ (t \o b)[i] = b[i - (m - 1)]
      BY <1>1, <1>2, <1>3, <2>1, <2>3
    <3>2. (i + 1) - m = i - (m - 1)
      BY <1>1, <2>1
    <3>3. QED BY <2>1, <3>1, <3>2
  <2>4. QED BY <2>2, <2>3
<1>7. Len(t \o b) = m + n - 1
  BY <1>1, <1>2, <1>3
<1>8. Tail(s) = t \o b
  BY <1>3, <1>5, <1>6, <1>7, SeqEqual
<1>9. Head(s) = Head(a)
  <2>1. Head(s) = s[1] /\ Head(a) = a[1]
    BY <1>1, <1>4
  <2>2. s[1] = a[1]
    BY <1>1
  <2>3. QED BY <2>1, <2>2
<1>10. QED BY <1>1, <1>4, <1>8, <1>9 DEF s, t

\* A stream without its first message, and a client that took it.
Onward(l) == [l EXCEPT !.wire = Tail(@)]

Took(c, message) == [c EXCEPT !.ready = TRUE, !.revision = message.revision]

\* The message at the head of a stream brings the client to the next room and revision.
LEMMA FollowsOnward ==
  ASSUME NEW l \in Link, l.wire # <<>>, NEW c \in Client,
         NEW from \in Snapshot, NEW silent, NEW now \in Snapshot, NEW before, NEW old,
         Follows(l, c, from, silent, now, before, old),
         NEW v, v = Applied(from, Head(l.wire))
  PROVE  /\ v \in Snapshot /\ Good(v, silent) /\ AtMost(from, v) /\ AtMost(v, now)
         /\ Took(c, Head(l.wire)) \in Client
         /\ Follows(Onward(l), Took(c, Head(l.wire)), v, silent, now, before, old)
<1> DEFINE s == Carried(l)
           e == Onward(l)
           d == Took(c, Head(l.wire))
<1>1. /\ l.wire \in Seq(MessageRecord) /\ l.rest \in Seq(MessageRecord)
      /\ l.waiting \in Seq(MessageRecord) /\ s \in Seq(MessageRecord) /\ l.revision \in Nat
  BY LinkFields
<1>2. s # <<>> /\ Head(s) = Head(l.wire) /\ Tail(s) = Tail(l.wire) \o l.rest \o l.waiting
  <2> DEFINE b == l.rest \o l.waiting
  <2>1. Tail(l.wire) \in Seq(MessageRecord)
    BY <1>1, HeadTailProperties
  <2>2. b \in Seq(MessageRecord)
    BY <1>1, ConcatProperties
  <2>3. s = l.wire \o b
    BY <1>1, Regroup DEF Carried
  <2>4. Tail(l.wire) \o l.rest \o l.waiting = Tail(l.wire) \o b
    BY <1>1, <2>1, Regroup
  <2> HIDE DEF b, s
  <2>5. l.wire \o b # <<>> /\ Head(l.wire \o b) = Head(l.wire) /\ Tail(l.wire \o b) = Tail(l.wire) \o b
    BY <1>1, <2>2, HeadTailOfConcat
  <2>6. QED BY <2>3, <2>4, <2>5
<1>3. /\ e.phase = l.phase /\ e.revision = l.revision /\ e.wire = Tail(l.wire)
      /\ e.rest = l.rest /\ e.waiting = l.waiting
  BY DEF Link, Onward
<1>4. Carried(e) = Tail(s)
  BY <1>2, <1>3 DEF Carried
<1>5. PICK to \in Snapshot : /\ Delivers(l, c, from, to, silent) /\ AtMost(to, now)
                             /\ l.phase = "open" => Current(to, now, before, old)
  BY DEF Follows
<1> HIDE DEF s
<1>6. Leads(s, from, to, silent) /\ Contiguous(s, c)
  BY <1>5 DEF Delivers, s
<1>7. v \in Snapshot /\ Good(v, silent) /\ AtMost(from, v) /\ Leads(Tail(s), v, to, silent)
  BY <1>1, <1>2, <1>6, LeadsOn
<1>8. /\ Len(s) \in Nat \ {0} /\ Len(Tail(s)) = Len(s) - 1 /\ Head(s) = s[1]
      /\ \A i \in 1..Len(s) - 1 : Tail(s)[i] = s[i + 1]
      /\ Tail(s) \in Seq(MessageRecord) /\ Head(s) \in MessageRecord
  BY <1>1, <1>2, HeadTailProperties, EmptySeq
<1>9. /\ Head(s).revision \in Nat
      /\ d \in Client /\ d.ready = TRUE /\ d.revision = Head(s).revision
  <2>1. Head(s) \in MessageRecord
    BY <1>8
  <2>2. Head(s).revision \in Nat
    BY <2>1 DEF MessageRecord
  <2>3. QED BY <1>2, <2>2 DEF Client, Took
<1> HIDE DEF e, d
<1>a. c.ready \in BOOLEAN /\ c.revision \in Nat
  BY DEF Client
<1>10. d.revision = IF c.ready THEN c.revision + 1 ELSE 0
  BY <1>6, <1>8, <1>9, <1>a DEF Contiguous
<1>11. Contiguous(Tail(s), d)
  <2>1. ASSUME NEW i \in 1..Len(s) - 1
        PROVE  Tail(s)[i].type # "room.snapshot" /\ Tail(s)[i].revision = d.revision + i
    <3>1. i + 1 \in 1..Len(s) /\ i + 1 # 1 /\ i \in Nat
      BY <1>8
    <3>2. /\ s[i + 1].type = "room.snapshot" <=> ~c.ready /\ i + 1 = 1
          /\ s[i + 1].revision = IF c.ready THEN c.revision + (i + 1) ELSE (i + 1) - 1
      BY <1>6, <3>1 DEF Contiguous
    <3>3. Tail(s)[i] = s[i + 1]
      BY <1>8
    <3>4. CASE c.ready
      BY <1>10, <1>a, <3>1, <3>2, <3>3, <3>4
    <3>5. CASE ~c.ready
      BY <1>10, <1>a, <3>1, <3>2, <3>3, <3>5
    <3>6. QED BY <3>4, <3>5
  <2>2. QED BY <1>8, <1>9, <2>1 DEF Contiguous
<1>12. Delivers(e, d, v, to, silent)
  <2>1. l.phase # "idle" /\ l.phase # "requested"
    BY <1>2, <1>5 DEF Delivers, s
  <2>2. l.phase = "open" => l.revision = IF c.ready THEN c.revision + Len(s) ELSE Len(s) - 1
    BY <1>5 DEF Delivers, s
  <2>3. l.phase = "open" => l.revision = d.revision + Len(Tail(s))
    BY <1>8, <1>10, <1>a, <2>2
  <2>4. QED BY <1>3, <1>4, <1>7, <1>9, <1>11, <2>1, <2>3 DEF Delivers
<1>13. Follows(e, d, v, silent, now, before, old)
  BY <1>3, <1>5, <1>12 DEF Follows
<1>14. AtMost(v, now)
  <2>1. AtMost(v, to)
    BY <1>7, <1>8, LeadsForward
  <2>2. QED BY <1>5, <1>7, <2>1, AtMostTransitive
<1>15. QED BY <1>7, <1>9, <1>13, <1>14 DEF e, d

LEMMA InterruptedFields ==
  ASSUME IInv, NEW k \in Conn
  PROVE  /\ Interrupted(k) \in Client
         /\ Interrupted(k).source = k => FALSE
         /\ client.source # k => Interrupted(k) = client
         /\ client.source = k => Interrupted(k).source = NoConn
         /\ Interrupted(k).closed => Interrupted(k).source = NoConn /\ ~Interrupted(k).timer
<1>1. client \in Client /\ (client.closed => client.source = NoConn /\ ~client.timer)
  BY DEF IInv, TypeOK, ClientInv
<1>2. k # NoConn
  BY ConstantsAssumption
<1>3. QED BY <1>1, <1>2 DEF Interrupted, Client

LEMMA ReceiveKeeps ==
  ASSUME IInv, NEW k \in Conn, Receive(k)
  PROVE  IInv' /\ (shown' = shown \/ AtMost(shown.room, shown'.room))
<1> DEFINE m == Head(link[k].wire)
           l == [link[k] EXCEPT !.wire = Tail(@)]
<1>1. /\ link[k] \in Link /\ Settled(link[k]) /\ client \in Client /\ breaks \in Nat
      /\ room \in Snapshot /\ shown.room \in Snapshot /\ AtMost(shown.room, room)
      /\ shown \in [ready : BOOLEAN, room : Snapshot] /\ Good(shown.room, quiet)
      /\ client.closed => client.source = NoConn /\ ~client.timer
      /\ link \in [Conn -> Link]
  BY DEF IInv, TypeOK, ClientInv, Settled
<1>2. /\ link[k].wire # <<>> /\ link' = [link EXCEPT ![k] = l]
      /\ UNCHANGED <<server, breaks>>
  BY <1>1 DEF Receive
<1>3. l \in Link /\ Settled(l)
  <2>1. link[k].wire \in Seq(MessageRecord)
    BY <1>1, LinkFields
  <2>2. Tail(link[k].wire) \in Seq(MessageRecord)
    BY <1>2, <2>1
  <2>3. QED BY <1>1, <2>2 DEF Link, Settled
<1>4. /\ link' \in [Conn -> Link] /\ \A j \in Conn : Settled(link'[j])
      /\ link'[k] = l /\ \A j \in Conn : j # k => link'[j] = link[j]
  BY <1>2, <1>3, LinkUpdated DEF IInv
<1>5. ASSUME NEW j \in Conn, j # k, client.source = j
      PROVE  Follows(link'[j], client, shown.room, quiet, room, baseline, aged)
  BY <1>4, <1>5 DEF IInv, StreamInv
<1>6. CASE Listens(k) /\ Fits(m)
  <2>1. /\ client' = [client EXCEPT !.ready = TRUE, !.revision = m.revision]
        /\ shown' = [ready |-> TRUE, room |-> Applied(shown.room, m)]
    BY <1>6 DEF Receive
  <2>2. client.source = k
    BY <1>6 DEF Listens
  <2>3. Follows(link[k], client, shown.room, quiet, room, baseline, aged)
    BY <2>2 DEF IInv, StreamInv
  <2> DEFINE v == Applied(shown.room, m)
  <2>a. v = Applied(shown.room, Head(link[k].wire)) /\ client' = Took(client, Head(link[k].wire))
        /\ l = Onward(link[k])
    BY <2>1 DEF Took, Onward
  <2> HIDE DEF l, v, m
  <2>4. /\ v \in Snapshot /\ Good(v, quiet) /\ AtMost(shown.room, v)
        /\ client' \in Client /\ AtMost(v, room)
        /\ Follows(l, client', v, quiet, room, baseline, aged)
    BY <1>1, <1>2, <2>1, <2>3, <2>a, FollowsOnward
  <2>6. /\ client'.source = k /\ client'.closed = client.closed /\ client'.timer = client.timer
        /\ shown'.room = v /\ shown' \in [ready : BOOLEAN, room : Snapshot]
    BY <1>1, <2>1, <2>2, <2>4 DEF Client, v
  <2>7. IInv'
    BY <1>1, <1>2, <1>4, <2>2, <2>4, <2>6, ClientSteps
  <2>8. QED BY <2>4, <2>6, <2>7
<1>7. CASE ~(Listens(k) /\ Fits(m))
  <2>1. shown' = shown /\ client' = IF Listens(k) THEN Interrupted(k) ELSE client
    BY <1>7 DEF Receive
  <2>2. /\ client' \in Client /\ client'.source # k
        /\ client'.closed => client'.source = NoConn /\ ~client'.timer
        /\ client' = client \/ client'.source = NoConn
    BY <1>1, <2>1, InterruptedFields, ConstantsAssumption DEF Listens
  <2>3. ASSUME NEW j \in Conn, client'.source = j
        PROVE  Follows(link'[j], client', shown'.room, quiet, room, baseline, aged)
    <3>1. j # k /\ client' = client
      BY <2>2, <2>3, ConstantsAssumption
    <3>2. QED BY <1>5, <2>1, <2>3, <3>1
  <2>4. IInv'
    BY <1>1, <1>2, <1>4, <2>1, <2>2, <2>3, ClientSteps
  <2>5. QED BY <2>1, <2>4
<1>8. QED BY <1>6, <1>7

LEMMA ErrorKeeps ==
  ASSUME IInv, NEW k \in Conn, Error(k)
  PROVE  IInv'
<1>1. /\ client' = Interrupted(k) /\ link' = [link EXCEPT ![k] = IdleLink]
      /\ UNCHANGED <<server, breaks, shown>>
  BY DEF Error
<1>2. /\ client' \in Client /\ client'.source # k
      /\ client'.closed => client'.source = NoConn /\ ~client'.timer
      /\ client' = client \/ client'.source = NoConn
  BY <1>1, InterruptedFields
<1>3. /\ link' \in [Conn -> Link] /\ \A j \in Conn : Settled(link'[j])
      /\ \A j \in Conn : j # k => link'[j] = link[j]
  BY <1>1, IdleLinkType, LinkUpdated DEF IInv
<1>4. ASSUME NEW j \in Conn, client'.source = j
      PROVE  Follows(link'[j], client', shown'.room, quiet, room, baseline, aged)
  <2>1. j # k /\ client' = client /\ shown' = shown
    BY <1>1, <1>2, <1>4, ConstantsAssumption
  <2>2. Follows(link[j], client, shown.room, quiet, room, baseline, aged)
    BY <1>4, <2>1 DEF IInv, StreamInv
  <2>3. QED BY <1>3, <2>1, <2>2
<1>5. /\ breaks' \in Nat /\ shown' \in [ready : BOOLEAN, room : Snapshot]
      /\ Good(shown'.room, quiet) /\ AtMost(shown'.room, room)
  BY <1>1 DEF IInv, TypeOK, ClientInv
<1>6. QED BY <1>1, <1>2, <1>3, <1>4, <1>5, ClientSteps

\* The client gives up its connection.
LEMMA LeavingKeeps ==
  ASSUME IInv, RequestBaseline \/ CloseClient
  PROVE  IInv'
<1>1. /\ client \in Client /\ breaks \in Nat /\ link \in [Conn -> Link]
      /\ (\A k \in Conn : Settled(link[k])) /\ shown \in [ready : BOOLEAN, room : Snapshot]
      /\ client.closed => client.source = NoConn /\ ~client.timer
      /\ Good(shown.room, quiet) /\ AtMost(shown.room, room)
  BY DEF IInv, TypeOK, ClientInv, Settled
<1>2. UNCHANGED <<server, link, shown>> /\ breaks' = breaks + 1
  BY DEF RequestBaseline, CloseClient
<1>3. /\ client' \in Client /\ client'.source = NoConn
      /\ client'.closed => ~client'.timer
  BY <1>1 DEF RequestBaseline, CloseClient, Interrupted, Client
<1>4. NoConn \notin Conn
  BY ConstantsAssumption
<1>5. QED BY <1>1, <1>2, <1>3, <1>4, ClientSteps

LEMMA ReconnectKeeps ==
  ASSUME IInv, Reconnect
  PROVE  IInv'
<1>1. PICK k \in Conn : client' = Connecting(k) /\ link' = Requested(link, k)
  BY DEF Reconnect
<1>2. client.timer /\ UNCHANGED <<server, breaks, shown>>
  BY DEF Reconnect
<1>3. /\ client \in Client /\ breaks \in Nat /\ shown \in [ready : BOOLEAN, room : Snapshot]
      /\ client.closed => client.source = NoConn /\ ~client.timer
      /\ Good(shown.room, quiet) /\ AtMost(shown.room, room) /\ shown.room \in Snapshot
  BY DEF IInv, TypeOK, ClientInv
<1>4. client' \in Client /\ client'.source = k /\ ~client'.closed /\ ~client'.ready
  BY <1>1, <1>2, <1>3 DEF Connecting, Client
<1> DEFINE l == [IdleLink EXCEPT !.phase = "requested"]
<1>5. l \in Link /\ Settled(l) /\ Carried(l) = <<>> /\ l.phase = "requested"
  BY IdleLinkType DEF Link, Settled, Carried
<1>6. link' = [link EXCEPT ![k] = l]
  BY <1>1 DEF Requested
<1> HIDE DEF l
<1>7. /\ link' \in [Conn -> Link] /\ \A j \in Conn : Settled(link'[j]) /\ link'[k] = l
  BY <1>5, <1>6, LinkUpdated DEF IInv
<1>8. Follows(l, client', shown'.room, quiet, room, baseline, aged)
  BY <1>2, <1>3, <1>4, <1>5, FollowsNothing
<1>9. QED BY <1>2, <1>3, <1>4, <1>7, <1>8, ClientSteps

-----------------------------------------------------------------------------
(* Steps of the engine *)

\* What such a step leaves.
LEMMA EngineSteps ==
  ASSUME IInv, EngineKeeps, StreamsKept,
         room' \in Snapshot, baseline' \in Snapshot, events' \in Nat, faults' \in Nat,
         aged' \in BOOLEAN, quiet' \subseteq Nat, quiet \subseteq quiet',
         Good(room', quiet'), Behind(room', baseline', quiet'), AtMost(room, room'),
         room'.parts["sensor"].stale => aged',
         \A p \in Part : room'.parts[p].version <= events',
         room'.platform.through <= events'
  PROVE  IInv'
<1>1. breaks' = breaks /\ client' = client /\ shown' = shown
  BY DEF EngineKeeps
<1>2. TypeOK'
  BY <1>1 DEF IInv, TypeOK, StreamsKept, Settled
<1>3. RoomInv'
  BY DEF RoomInv
<1>4. ClientInv'
  <2>1. /\ room \in Snapshot /\ shown.room \in Snapshot /\ AtMost(shown.room, room)
        /\ Good(shown.room, quiet) /\ (client.closed => client.source = NoConn /\ ~client.timer)
    BY DEF IInv, TypeOK, ClientInv
  <2>2. AtMost(shown.room, room')
    BY <2>1, AtMostTransitive
  <2>3. Good(shown.room, quiet')
    BY <2>1, GoodStays
  <2>4. QED BY <1>1, <2>1, <2>2, <2>3 DEF ClientInv
<1>5. \A k \in Conn : client'.source = k => StreamInv(k)'
  BY <1>1 DEF StreamsKept
<1>6. QED BY <1>2, <1>3, <1>4, <1>5 DEF IInv

\* A room is installed that is published at once.
LEMMA InstallKeeps ==
  ASSUME IInv, EngineKeeps, StreamsKept, NEW next \in Snapshot, Install(next), UNCHANGED quiet,
         events' \in Nat, faults' \in Nat, aged' \in BOOLEAN,
         Good(next, quiet), AtMost(room, next), next.parts["sensor"].stale => aged',
         \A p \in Part : next.parts[p].version <= events', next.platform.through <= events'
  PROVE  IInv'
<1>1. room' = next /\ baseline' = next /\ quiet' = quiet
  BY DEF Install
<1>2. quiet \subseteq Nat
  BY DEF IInv, TypeOK
<1>3. Behind(next, next, quiet)
  BY DEF Behind
<1>4. QED BY <1>1, <1>2, <1>3, EngineSteps

\* Nothing is published.
LEMMA StreamsUnmoved ==
  ASSUME IInv, EngineKeeps, link' = link, room' \in Snapshot, quiet \subseteq quiet',
         AtMost(room, room'),
         \A v \in Snapshot : Current(v, room, baseline, aged) => Current(v, room', baseline', aged')
  PROVE  StreamsKept
<1>1. /\ link \in [Conn -> Link] /\ (\A k \in Conn : Settled(link[k])) /\ room \in Snapshot
      /\ client' = client /\ shown' = shown
  BY DEF IInv, TypeOK, Settled, EngineKeeps
<1>2. ASSUME NEW k \in Conn, client.source = k PROVE StreamInv(k)'
  <2>1. Follows(link[k], client, shown.room, quiet, room, baseline, aged)
    BY <1>2 DEF IInv, StreamInv
  <2>2. PICK to \in Snapshot : /\ Delivers(link[k], client, shown.room, to, quiet) /\ AtMost(to, room)
                               /\ link[k].phase = "open" => Current(to, room, baseline, aged)
    BY <2>1 DEF Follows
  <2>3. Delivers(link[k], client, shown.room, to, quiet')
    BY <2>2, LeadsStays DEF Delivers
  <2>4. AtMost(to, room')
    BY <1>1, <2>2, AtMostTransitive
  <2>5. Follows(link[k], client, shown.room, quiet', room', baseline', aged')
    BY <2>2, <2>3, <2>4 DEF Follows
  <2>6. QED BY <1>1, <2>5 DEF StreamInv
<1>3. QED BY <1>1, <1>2 DEF StreamsKept

\* The part of the invariant that a step of the engine starts from.
LEMMA RoomFacts ==
  ASSUME IInv
  PROVE  /\ TypeOK /\ RoomInv /\ room \in Snapshot /\ baseline \in Snapshot /\ aged \in BOOLEAN
         /\ events \in Nat /\ faults \in Nat /\ quiet \subseteq Nat
         /\ Good(room, quiet) /\ Behind(room, baseline, quiet)
         /\ room.parts["sensor"].stale => aged
         /\ \A p \in Part : room.parts[p].version <= events /\ room.parts[p].version \in Nat
         /\ room.platform.through <= events /\ room.platform.through \in Nat
         /\ room.platform.outage \in Nat
         /\ room.parts \in [Part -> PartRecord] /\ room.platform \in PlatformRecord
         /\ Covered(room.parts, room.platform) /\ Explained(room.parts, room.platform, quiet)
         /\ Together(room.parts)
<1>1. TypeOK /\ RoomInv
  BY DEF IInv
<1>2. room \in Snapshot /\ baseline \in Snapshot /\ aged \in BOOLEAN
      /\ events \in Nat /\ faults \in Nat /\ quiet \subseteq Nat
  BY <1>1 DEF TypeOK
<1>3. /\ Good(room, quiet) /\ Behind(room, baseline, quiet)
      /\ room.parts["sensor"].stale => aged
      /\ \A p \in Part : room.parts[p].version <= events
      /\ room.platform.through <= events
  BY <1>1 DEF RoomInv
<1>4. /\ room.parts \in [Part -> PartRecord] /\ room.platform \in PlatformRecord
      /\ \A p \in Part : room.parts[p].version \in Nat
      /\ room.platform.through \in Nat /\ room.platform.outage \in Nat
  BY <1>2, SnapshotFields
<1>5. QED BY <1>1, <1>2, <1>3, <1>4 DEF Good

LEMMA DegradedParts ==
  ASSUME NEW x \in Snapshot
  PROVE  /\ Degraded(x) \in Snapshot /\ Degraded(x).parts = x.parts
         /\ Degraded(x).platform.covers = x.platform.covers
         /\ Degraded(x).platform.through = x.platform.through
BY DegradedFields

LEMMA AgeKeeps ==
  ASSUME IInv, Age
  PROVE  IInv'
<1>1. /\ ~aged /\ aged' = TRUE /\ link' = link /\ EngineKeeps
      /\ UNCHANGED <<events, faults, room, baseline, quiet>>
  BY DEF Age, EngineKeeps
<1>2. ASSUME NEW v, Current(v, room, baseline, aged) PROVE Current(v, room', baseline', aged')
  <2>1. aged = FALSE /\ room.parts["sensor"].stale = FALSE
    <3>1. room.parts["sensor"] \in PartRecord
      BY RoomFacts DEF Part
    <3>2. room.parts["sensor"].stale \in BOOLEAN
      BY <3>1 DEF PartRecord
    <3>3. QED BY <1>1, <3>2, RoomFacts
  <2>2. Aging(room.parts, FALSE) = room.parts
    <3>1. room.parts \in [Part -> PartRecord] /\ "sensor" \in Part
      BY RoomFacts DEF Part
    <3>2. [room.parts["sensor"] EXCEPT !.stale = FALSE] = room.parts["sensor"]
      BY <2>1, <3>1 DEF PartRecord
    <3>3. QED BY <3>1, <3>2 DEF Aging
  <2>3. v.parts = room.parts
    BY <1>2, <2>1, <2>2 DEF Current, Later
  <2>4. QED BY <1>1, <1>2, <2>3 DEF Current, Later
<1>3. StreamsKept
  BY <1>1, <1>2, RoomFacts, AtMostItself, StreamsUnmoved
<1>4. QED BY <1>1, <1>3, RoomFacts, AtMostItself, EngineSteps

LEMMA QuarantineKeeps ==
  ASSUME IInv, QuarantineRolledBack
  PROVE  IInv'
<1>1. /\ room.platform.status = "available" /\ faults' = faults + 1 /\ room' = Degraded(room)
      /\ quiet' = quiet \cup {room'.platform.outage} /\ link' = link /\ EngineKeeps
      /\ UNCHANGED <<events, aged, baseline>>
  BY DEF QuarantineRolledBack, StorageAvailable, Failed, EngineKeeps
<1>2. /\ room' \in Snapshot /\ room'.parts = room.parts
      /\ room'.platform.through = room.platform.through
      /\ room'.platform = [room.platform EXCEPT !.status = "degraded",
                                                !.outage = room.platform.outage + 1]
      /\ Good(room', quiet) /\ AtMost(room, room')
  BY <1>1, RoomFacts, DegradedFields, DegradedIsGood
<1>3. room'.platform.outage \in Nat
  BY <1>2, SnapshotFields
<1>4. quiet' \subseteq Nat /\ quiet \subseteq quiet' /\ room'.platform.outage \in quiet'
  BY <1>1, <1>3, RoomFacts
<1>5. room.platform = baseline.platform /\ room.parts = baseline.parts
  <2>1. [baseline.platform EXCEPT !.status = "degraded", !.outage = @ + 1].status = "degraded"
    BY RoomFacts, SnapshotFields DEF PlatformRecord
  <2>2. QED BY <1>1, <2>1, RoomFacts DEF Behind
<1>6. Behind(room', baseline', quiet')
  BY <1>1, <1>2, <1>4, <1>5 DEF Behind
<1>7. Good(room', quiet')
  BY <1>2, <1>4, GoodStays
<1>8. ASSUME NEW v, Current(v, room, baseline, aged) PROVE Current(v, room', baseline', aged')
  BY <1>1, <1>2, <1>5, <1>8 DEF Current
<1>9. StreamsKept
  BY <1>1, <1>2, <1>4, <1>8, StreamsUnmoved
<1>a. /\ faults' \in Nat /\ events' \in Nat /\ aged' \in BOOLEAN /\ baseline' \in Snapshot
      /\ room'.parts["sensor"].stale => aged'
      /\ \A p \in Part : room'.parts[p].version <= events'
      /\ room'.platform.through <= events'
  BY <1>1, <1>2, RoomFacts
<1>10. QED BY <1>1, <1>2, <1>4, <1>6, <1>7, <1>9, <1>a, EngineSteps

\* A room with the parts of the installed one, or as of now, is published.
LEMMA SamePartsKeep ==
  ASSUME IInv, EngineKeeps, NEW next \in Snapshot, NEW first \in BOOLEAN,
         Good(next, quiet), AtMost(room, next),
         next.parts \in {room.parts, SnapshotNow.parts},
         next.platform.covers = room.platform.covers,
         next.platform.through = room.platform.through,
         Publish(Deltas(next, first)), Install(next), UNCHANGED <<events, aged, quiet>>,
         faults' \in Nat
  PROVE  IInv'
<1>1. /\ Explained(SnapshotNow.parts, room.platform, quiet)
      /\ SnapshotNow.parts \in [Part -> PartRecord]
      /\ \A p \in Part : SnapshotNow.parts[p].version = room.parts[p].version
      /\ SnapshotNow.parts["sensor"].stale = aged
  <2>1. TypeOK /\ RoomInv
    BY RoomFacts
  <2>2. /\ SnapshotNow \in Snapshot /\ SnapshotNow.platform = room.platform
        /\ SnapshotNow.parts["sensor"].stale = aged
    BY <2>1, NowFields
  <2>3. Good(SnapshotNow, quiet) /\ \A p \in Part : SnapshotNow.parts[p].version = room.parts[p].version
    BY <2>1, NowIsGood
  <2>4. SnapshotNow.parts \in [Part -> PartRecord]
    BY <2>2, SnapshotFields
  <2>5. QED BY <2>2, <2>3, <2>4 DEF Good
<1>2. Explained(next.parts, room.platform, quiet) /\ next.parts \in [Part -> PartRecord]
  BY <1>1, RoomFacts
<1>3. Explained(next.parts, baseline.platform, quiet)
  BY <1>2, RoomFacts, BaselineExplains
<1>4. aged' = aged /\ events' = events /\ quiet' = quiet
  OBVIOUS
<1>5. StreamsKept
  BY <1>3, <1>4, RoomFacts, PublishedOnce
<1>6. /\ \A p \in Part : next.parts[p].version <= events
      /\ next.parts["sensor"].stale => aged
  BY <1>1, RoomFacts
<1>7. next.platform.through <= events'
  BY <1>4, RoomFacts
<1>8. QED BY <1>4, <1>5, <1>6, <1>7, RoomFacts, InstallKeeps

\* The degraded room is published.
LEMMA DegradedKeeps ==
  ASSUME IInv, EngineKeeps, NEW x \in {room, SnapshotNow}, NEW first \in BOOLEAN,
         Publish(Deltas(Degraded(x), first)), Install(Degraded(x)),
         UNCHANGED <<events, aged, quiet>>, faults' \in Nat
  PROVE  IInv'
<1>1. /\ x \in Snapshot /\ Good(x, quiet) /\ AtMost(room, x)
      /\ x.platform = room.platform /\ x.parts \in {room.parts, SnapshotNow.parts}
  BY RoomFacts, NowFields, NowIsGood, AtMostItself
<1>2. Degraded(x) \in Snapshot /\ Degraded(x).parts = x.parts
      /\ Degraded(x).platform.covers = room.platform.covers
      /\ Degraded(x).platform.through = room.platform.through
  BY <1>1, DegradedParts
<1>3. Good(Degraded(x), quiet) /\ AtMost(x, Degraded(x))
  BY <1>1, DegradedIsGood
<1>4. AtMost(room, Degraded(x))
  BY <1>1, <1>2, <1>3, RoomFacts, AtMostTransitive
<1>5. QED BY <1>1, <1>2, <1>3, <1>4, SamePartsKeep

LEMMA StorageFailsKeeps ==
  ASSUME IInv, StorageFails
  PROVE  IInv'
<1>1. /\ EngineKeeps /\ faults' = faults + 1 /\ FALSE \in BOOLEAN
      /\ Publish(Deltas(Degraded(room), FALSE)) /\ Install(Degraded(room))
      /\ UNCHANGED <<events, aged, quiet>>
  BY DEF StorageFails, Failed, EngineKeeps
<1>2. faults' \in Nat
  BY <1>1, RoomFacts
<1>3. QED BY <1>1, <1>2, DegradedKeeps

LEMMA FreshnessKeeps ==
  ASSUME IInv, FreshnessTick
  PROVE  IInv'
<1>1. EngineKeeps /\ UNCHANGED <<events, aged, quiet>> /\ TRUE \in BOOLEAN /\ FALSE \in BOOLEAN
  BY DEF FreshnessTick, EngineKeeps
<1>2. CASE Publish(Deltas(SnapshotNow, FALSE)) /\ Install(SnapshotNow) /\ UNCHANGED faults
  <2>1. /\ SnapshotNow \in Snapshot /\ Good(SnapshotNow, quiet) /\ AtMost(room, SnapshotNow)
        /\ SnapshotNow.platform = room.platform
    BY RoomFacts, NowFields, NowIsGood
  <2>2. faults' \in Nat
    BY <1>2, RoomFacts
  <2>3. QED BY <1>1, <1>2, <2>1, <2>2, SamePartsKeep
<1>3. CASE /\ Failed /\ Publish(Deltas(Degraded(SnapshotNow), TRUE))
           /\ Install(Degraded(SnapshotNow))
  <2>1. faults' \in Nat
    BY <1>3, RoomFacts DEF Failed
  <2>2. QED BY <1>1, <1>3, <2>1, DegradedKeeps
<1>4. QED BY <1>2, <1>3 DEF FreshnessTick

-----------------------------------------------------------------------------
(* Events *)

\* What an event leaves of the parts, whatever then becomes of the platform.
LEMMA ProjectedIsGood ==
  ASSUME IInv, NEW changed \in ChangeSets, NEW outage \in Nat,
         NEW platform \in PlatformRecord,
         platform.outage >= room.platform.outage, platform.outage >= outage,
         platform.through >= room.platform.through,
         \A p \in Part : platform.covers[p] <= Projected(changed, outage).parts[p].version
  PROVE  LET parts == Projected(changed, outage).parts
         IN  /\ parts \in [Part -> PartRecord] /\ Room(parts, platform) \in Snapshot
             /\ Room(parts, platform).parts = parts /\ Room(parts, platform).platform = platform
             /\ Good(Room(parts, platform), quiet) /\ AtMost(room, Room(parts, platform))
             /\ outage <= room.platform.outage => Explained(parts, room.platform, quiet)
             /\ \A p \in Part : parts[p].version = IF p \in changed THEN events + 1
                                                   ELSE room.parts[p].version
             /\ "sensor" \in changed => /\ ~parts["sensor"].stale
                                        /\ parts["sensor"] # room.parts["sensor"]
             /\ "sensor" \notin changed => parts["sensor"].stale = aged
<1> DEFINE made == Projected(changed, outage)
<1>0. /\ made \in Snapshot
      /\ \A p \in Part :
           /\ made.parts[p].version = IF p \in changed THEN events + 1
                                      ELSE room.parts[p].version
           /\ made.parts[p].outage = IF p \in changed THEN outage ELSE room.parts[p].outage
      /\ Together(made.parts)
      /\ "sensor" \in changed => /\ ~made.parts["sensor"].stale
                                 /\ made.parts["sensor"] # room.parts["sensor"]
      /\ "sensor" \notin changed => made.parts["sensor"].stale = aged
  <2>1. Makes(changed, outage, Projected(changed, outage))
    BY RoomFacts, ProjectedFields
  <2>2. QED BY ONLY <2>1 DEF Makes
<1> DEFINE parts == made.parts
           next == Room(parts, platform)
<1>1. /\ made \in Snapshot
      /\ \A p \in Part :
           /\ parts[p].version = IF p \in changed THEN events + 1 ELSE room.parts[p].version
           /\ parts[p].outage = IF p \in changed THEN outage ELSE room.parts[p].outage
      /\ Together(parts)
      /\ "sensor" \in changed => /\ ~parts["sensor"].stale
                                 /\ parts["sensor"] # room.parts["sensor"]
      /\ "sensor" \notin changed => parts["sensor"].stale = aged
  BY ONLY <1>0
<1>2. parts \in [Part -> PartRecord]
  BY <1>1, SnapshotFields
<1>3. \A p \in Part : platform.covers[p] <= parts[p].version
  OBVIOUS
<1> HIDE DEF parts
<1>4. next \in Snapshot /\ next.parts = parts /\ next.platform = platform
  BY <1>2, RoomFields
<1> HIDE DEF next
<1>5. /\ platform.outage \in Nat /\ platform.through \in Nat /\ room.platform.outage \in Nat
      /\ room.platform.through \in Nat /\ events \in Nat
      /\ \A p \in Part : /\ room.parts[p].version \in Nat /\ room.parts[p].version <= events
                         /\ room.parts[p].outage \in Nat
  BY RoomFacts, SnapshotFields DEF PlatformRecord
<1>6. Covered(parts, platform)
  BY <1>3 DEF Covered
<1>7. ASSUME NEW p \in Part
      PROVE  /\ parts[p].outage <= platform.outage \/ parts[p].outage \in quiet
             /\ outage <= room.platform.outage =>
                  parts[p].outage <= room.platform.outage \/ parts[p].outage \in quiet
  <2>1. room.parts[p].outage <= room.platform.outage \/ room.parts[p].outage \in quiet
    BY RoomFacts DEF Explained
  <2>2. parts[p].outage = IF p \in changed THEN outage ELSE room.parts[p].outage
    BY <1>1
  <2>3. CASE p \in changed
    BY <1>5, <2>2, <2>3
  <2>4. CASE p \notin changed
    <3>1. parts[p].outage = room.parts[p].outage /\ room.parts[p].outage \in Nat
      BY <1>5, <2>2, <2>4
    <3>2. QED BY <1>5, <2>1, <3>1
  <2>5. QED BY <2>3, <2>4
<1>8. Explained(parts, platform, quiet)
      /\ (outage <= room.platform.outage => Explained(parts, room.platform, quiet))
  BY <1>7 DEF Explained
<1>9. Good(next, quiet)
  BY <1>1, <1>4, <1>6, <1>8 DEF Good
<1>10. AtMost(room, next)
  <2>1. ASSUME NEW p \in Part PROVE room.parts[p].version <= parts[p].version
    <3>1. parts[p].version = IF p \in changed THEN events + 1 ELSE room.parts[p].version
      BY <1>1
    <3>2. QED BY <1>5, <3>1
  <2>2. QED BY <1>4, <1>5, <2>1 DEF AtMost
<1>11. QED BY <1>1, <1>2, <1>4, <1>8, <1>9, <1>10 DEF made, parts, next

\* An event whose room is published.
LEMMA EventPublished ==
  ASSUME IInv, EngineKeeps, NEW changed \in ChangeSets, NEW outage \in Nat,
         NEW platform \in PlatformRecord, NEW next, NEW first \in BOOLEAN,
         next = Room(Projected(changed, outage).parts, platform),
         platform.outage >= room.platform.outage, platform.outage >= outage,
         platform.through >= room.platform.through, platform.through <= events',
         \A p \in Part : platform.covers[p] <= Projected(changed, outage).parts[p].version,
         IF first THEN platform.covers = room.platform.covers ELSE outage <= room.platform.outage,
         events' = events + 1, aged' = IF "sensor" \in changed THEN FALSE ELSE aged,
         Publish(Deltas(next, first)), Install(next), UNCHANGED quiet, faults' \in Nat
  PROVE  IInv'
<1> DEFINE parts == Projected(changed, outage).parts
<1>1. /\ parts \in [Part -> PartRecord] /\ next \in Snapshot
      /\ next.parts = parts /\ next.platform = platform
      /\ Good(next, quiet) /\ AtMost(room, next)
      /\ outage <= room.platform.outage => Explained(parts, room.platform, quiet)
      /\ \A p \in Part : parts[p].version = IF p \in changed THEN events + 1
                                            ELSE room.parts[p].version
      /\ "sensor" \in changed => ~parts["sensor"].stale /\ parts["sensor"] # room.parts["sensor"]
      /\ "sensor" \notin changed => parts["sensor"].stale = aged
  BY ProjectedIsGood
<1> HIDE DEF parts
<1>2. outage <= room.platform.outage => Explained(parts, baseline.platform, quiet)
  BY <1>1, RoomFacts, BaselineExplains
<1>4. next.parts["sensor"] = room.parts["sensor"] => aged' = aged
  BY <1>1
<1>5. IF first THEN next.platform.covers = room.platform.covers
      ELSE Explained(next.parts, baseline.platform, quiet)
  BY <1>1, <1>2
<1>6. aged' \in BOOLEAN /\ events' \in Nat /\ (next.parts["sensor"].stale => aged')
  <2>1. aged \in BOOLEAN /\ events \in Nat
    BY RoomFacts
  <2>2. CASE "sensor" \in changed
    BY <1>1, <2>1, <2>2
  <2>3. CASE "sensor" \notin changed
    BY <1>1, <2>1, <2>3
  <2>4. QED BY <2>2, <2>3
<1>7. StreamsKept
  BY <1>1, <1>4, <1>5, <1>6, PublishedOnce
<1>8. ASSUME NEW p \in Part PROVE next.parts[p].version <= events'
  <2>1. parts[p].version = IF p \in changed THEN events + 1 ELSE room.parts[p].version
    BY <1>1
  <2>2. room.parts[p].version \in Nat /\ room.parts[p].version <= events /\ events \in Nat
    BY RoomFacts
  <2>3. QED BY <1>1, <2>1, <2>2
<1>9. next.platform.through <= events'
  BY <1>1
<1>10. QED BY <1>1, <1>6, <1>7, <1>8, <1>9, InstallKeeps

LEMMA ProjectedPlatform ==
  ASSUME IInv, NEW changed \in ChangeSets, NEW outage \in Nat
  PROVE  LET next == Projected(changed, outage)
         IN  /\ next \in Snapshot /\ next.platform = room.platform
             /\ next = Room(next.parts, room.platform)
             /\ \A p \in Part : /\ room.platform.covers[p] <= next.parts[p].version
                                /\ p \in changed => next.parts[p].version = events + 1
<1> DEFINE next == Projected(changed, outage)
<1>1. /\ next \in Snapshot /\ next.platform = room.platform
      /\ \A p \in Part : next.parts[p].version = IF p \in changed THEN events + 1
                                                 ELSE room.parts[p].version
  <2>1. Makes(changed, outage, next)
    BY RoomFacts, ProjectedFields
  <2>2. QED BY <2>1 DEF Makes
<1> HIDE DEF next
<1>2. next = Room(next.parts, room.platform)
  BY <1>1, SnapshotFields DEF Room
<1>3. ASSUME NEW p \in Part
      PROVE  /\ room.platform.covers[p] <= next.parts[p].version
             /\ p \in changed => next.parts[p].version = events + 1
  <2>1. /\ room.platform.covers[p] <= room.parts[p].version /\ room.platform.covers[p] \in Nat
        /\ room.parts[p].version \in Nat /\ room.parts[p].version <= events /\ events \in Nat
    BY RoomFacts, SnapshotFields DEF Covered
  <2>2. next.parts[p].version = IF p \in changed THEN events + 1 ELSE room.parts[p].version
    BY <1>1
  <2>3. QED BY <2>1, <2>2
<1>4. QED BY <1>1, <1>2, <1>3 DEF next

LEMMA EventStoredKeeps ==
  ASSUME IInv, EngineKeeps, NEW changed \in ChangeSets, EventStored(changed),
         events' = events + 1, aged' = IF "sensor" \in changed THEN FALSE ELSE aged
  PROVE  IInv'
<1> DEFINE x == Projected(changed, 0)
           covers == [p \in Part |-> IF p \in changed THEN events + 1 ELSE room.platform.covers[p]]
           platform == [room.platform EXCEPT !.through = events + 1, !.covers = covers]
           next == Watermarked(x, changed)
<1>1. /\ x \in Snapshot /\ x.platform = room.platform /\ x = Room(x.parts, room.platform)
      /\ \A p \in Part : /\ room.platform.covers[p] <= x.parts[p].version
                         /\ p \in changed => x.parts[p].version = events + 1
  BY ProjectedPlatform
<1> HIDE DEF x
<1>2. next = Room(x.parts, platform)
  <2>1. next = [x EXCEPT !.platform = platform]
    BY <1>1 DEF Watermarked
  <2> HIDE DEF next, platform
  <2>2. QED BY <1>1, <2>1 DEF Room
<1>3. covers \in [Part -> Nat]
  BY RoomFacts, SnapshotFields
<1>4. \A p \in Part : covers[p] <= x.parts[p].version
  BY <1>1, RoomFacts
<1> HIDE DEF covers
<1>5. /\ platform \in PlatformRecord /\ platform.outage = room.platform.outage
      /\ platform.through = events + 1 /\ platform.covers = covers
  <2>1. room.platform \in PlatformRecord /\ events + 1 \in Nat
    BY RoomFacts
  <2>2. QED BY <1>3, <2>1 DEF PlatformRecord
<1> HIDE DEF platform, next
<1>6. /\ Publish(Deltas(next, FALSE)) /\ Install(next) /\ UNCHANGED quiet /\ faults' = faults
  BY DEF EventStored, next, x
<1>7. /\ faults' \in Nat /\ 0 \in Nat /\ FALSE \in BOOLEAN
      /\ platform.outage >= room.platform.outage /\ platform.outage >= 0
      /\ platform.through >= room.platform.through /\ platform.through <= events'
      /\ 0 <= room.platform.outage
  BY <1>5, <1>6, RoomFacts
<1>8. next = Room(Projected(changed, 0).parts, platform)
      /\ \A p \in Part : platform.covers[p] <= Projected(changed, 0).parts[p].version
  BY <1>2, <1>4, <1>5 DEF x
<1>9. QED BY <1>5, <1>6, <1>7, <1>8, EventPublished

LEMMA EventRolledBackKeeps ==
  ASSUME IInv, EngineKeeps, NEW changed \in ChangeSets, EventRolledBack(changed),
         events' = events + 1, aged' = IF "sensor" \in changed THEN FALSE ELSE aged
  PROVE  IInv'
<1> DEFINE outage == room.platform.outage + 1
           x == Projected(changed, outage)
           next == Degraded(x)
           platform == next.platform
           first == TRUE
<1>0. outage \in Nat
  BY RoomFacts
<1> HIDE DEF outage
<1>1. /\ x \in Snapshot /\ x.platform = room.platform
      /\ \A p \in Part : room.platform.covers[p] <= x.parts[p].version
  BY <1>0, ProjectedPlatform
<1> HIDE DEF x
<1>2. /\ next \in Snapshot /\ next.parts = x.parts /\ platform.covers = room.platform.covers
      /\ platform.through = room.platform.through
  BY <1>1, DegradedParts
<1>3. /\ Publish(Deltas(next, first)) /\ Install(next) /\ UNCHANGED quiet
      /\ faults' = faults + 1 /\ first \in BOOLEAN /\ first /\ room.platform.status = "available"
  BY DEF EventRolledBack, Failed, StorageAvailable, x, outage
<1>4. platform.outage = outage
  <2>1. platform.outage = IF x.platform.status = "available" THEN x.platform.outage + 1
                          ELSE x.platform.outage
    BY <1>1, DegradedFields
  <2> HIDE DEF next
  <2>2. QED BY <1>1, <1>3, <2>1 DEF outage
<1> HIDE DEF next
<1>5. next = Room(x.parts, platform) /\ platform \in PlatformRecord
  BY <1>2, SnapshotFields DEF Room
<1> HIDE DEF platform, first
<1>6. /\ faults' \in Nat
      /\ platform.outage >= room.platform.outage /\ platform.outage >= outage
      /\ platform.through >= room.platform.through /\ platform.through <= events'
  BY <1>0, <1>2, <1>3, <1>4, RoomFacts DEF outage, platform
<1>7. /\ next = Room(Projected(changed, outage).parts, platform)
      /\ \A p \in Part : platform.covers[p] <= Projected(changed, outage).parts[p].version
      /\ platform.covers = room.platform.covers
  BY <1>1, <1>2, <1>5 DEF x, platform
<1>8. IF first THEN platform.covers = room.platform.covers ELSE outage <= room.platform.outage
  BY <1>3, <1>7
<1>9. Publish(Deltas(next, first)) /\ Install(next) /\ UNCHANGED quiet /\ first \in BOOLEAN
  BY <1>3
<1>10. QED BY <1>0, <1>5, <1>6, <1>7, <1>8, <1>9, EventPublished

LEMMA EventInOutageKeeps ==
  ASSUME IInv, EngineKeeps, NEW changed \in ChangeSets, EventInOutage(changed),
         events' = events + 1, aged' = IF "sensor" \in changed THEN FALSE ELSE aged
  PROVE  IInv'
<1> DEFINE outage == room.platform.outage
           next == Projected(changed, outage)
<1>1. /\ outage \in Nat /\ room.platform \in PlatformRecord /\ events \in Nat
      /\ room.platform.through \in Nat /\ room.platform.through <= events
  BY RoomFacts
<1>2. /\ next = Room(next.parts, room.platform)
      /\ \A p \in Part : room.platform.covers[p] <= next.parts[p].version
  BY <1>1, ProjectedPlatform
<1>3. /\ Publish(Deltas(next, FALSE)) /\ Install(next) /\ UNCHANGED quiet /\ faults' = faults
  BY DEF EventInOutage
<1>4. /\ faults' \in Nat /\ FALSE \in BOOLEAN /\ room.platform.outage >= outage
      /\ room.platform.through >= room.platform.through /\ room.platform.through <= events'
      /\ outage <= room.platform.outage
  BY <1>1, <1>3, RoomFacts
<1>5. QED BY <1>1, <1>2, <1>3, <1>4, EventPublished

LEMMA EventKeeps ==
  ASSUME IInv, NEW changed \in Changes, ProcessEvent(changed)
  PROVE  IInv'
<1>1. changed \in ChangeSets
  BY ConstantsAssumption DEF ChangeSets
<1>2. /\ EngineKeeps /\ events' = events + 1
      /\ aged' = IF "sensor" \in changed THEN FALSE ELSE aged
      /\ EventStored(changed) \/ EventRolledBack(changed) \/ EventInOutage(changed)
  BY DEF ProcessEvent, EngineKeeps
<1>3. QED BY <1>1, <1>2, EventStoredKeeps, EventRolledBackKeeps, EventInOutageKeeps

-----------------------------------------------------------------------------
(* Recovery *)

LEMMA InStatusFields ==
  ASSUME IInv, NEW status \in Status
  PROVE  LET x == InStatus(status)
         IN  /\ x \in Snapshot /\ x.parts = room.parts
             /\ x.platform.outage = room.platform.outage
             /\ x.platform.through = room.platform.through
             /\ x.platform.covers = room.platform.covers
             /\ Explained(room.parts, x.platform, quiet) /\ Good(x, quiet)
<1> DEFINE x == InStatus(status)
           platform == [room.platform EXCEPT !.status = status]
<1>1. /\ room \in Snapshot /\ room.parts \in [Part -> PartRecord]
      /\ room.platform \in PlatformRecord /\ room = Room(room.parts, room.platform)
      /\ Covered(room.parts, room.platform) /\ Explained(room.parts, room.platform, quiet)
      /\ Together(room.parts)
  BY RoomFacts, SnapshotFields DEF Room
<1>2. x = Room(room.parts, platform)
  BY <1>1 DEF InStatus, Room
<1>3. /\ platform \in PlatformRecord /\ platform.outage = room.platform.outage
      /\ platform.through = room.platform.through /\ platform.covers = room.platform.covers
  BY <1>1 DEF PlatformRecord
<1> HIDE DEF x, platform
<1>4. x \in Snapshot /\ x.parts = room.parts /\ x.platform = platform
  BY <1>1, <1>2, <1>3, RoomFields
<1>5. Covered(room.parts, platform) /\ Explained(room.parts, platform, quiet)
  BY <1>1, <1>3 DEF Covered, Explained
<1>6. Good(x, quiet)
  BY <1>1, <1>4, <1>5 DEF Good
<1>7. QED BY <1>3, <1>4, <1>5, <1>6 DEF x

\* Rooms that differ in their status only are as recent as one another.
LEMMA InStatusAtMost ==
  ASSUME IInv, NEW x \in Snapshot, x.parts = room.parts,
         x.platform.outage = room.platform.outage, x.platform.through = room.platform.through,
         NEW y \in Snapshot, AtMost(room, y)
  PROVE  AtMost(x, y)
<1>1. \A p \in Part : x.parts[p].version = room.parts[p].version
  OBVIOUS
<1>2. QED BY <1>1 DEF AtMost

LEMMA RecoveringFields ==
  ASSUME IInv
  PROVE  /\ Recovering \in Snapshot /\ Recovering.parts = room.parts
         /\ Recovering.platform.outage = room.platform.outage
         /\ Recovering.platform.through = room.platform.through
         /\ Recovering.platform.covers = room.platform.covers
         /\ Explained(room.parts, Recovering.platform, quiet) /\ Good(Recovering, quiet)
         /\ AtMost(room, Recovering) /\ Behind(Recovering, Recovering, quiet)
         /\ Explained(Recovering.parts, baseline.platform, quiet)
<1>1. "recovering" \in Status
  BY DEF Status
<1>2. /\ Recovering \in Snapshot /\ Recovering.parts = room.parts
      /\ Recovering.platform.outage = room.platform.outage
      /\ Recovering.platform.through = room.platform.through
      /\ Recovering.platform.covers = room.platform.covers
      /\ Explained(room.parts, Recovering.platform, quiet) /\ Good(Recovering, quiet)
  BY <1>1, InStatusFields DEF Recovering
<1>3. AtMost(room, Recovering)
  BY <1>2, RoomFacts DEF AtMost
<1>4. Behind(Recovering, Recovering, quiet)
  BY DEF Behind
<1>5. Explained(Recovering.parts, baseline.platform, quiet)
  BY <1>2, RoomFacts, BaselineExplains
<1>6. QED BY <1>2, <1>3, <1>4, <1>5

LEMMA ProbeFailsKeeps ==
  ASSUME IInv, EngineKeeps, ProbeFails, UNCHANGED <<events, aged>>
  PROVE  IInv'
<1>1. faults' = faults + 1 /\ UNCHANGED quiet /\ faults' \in Nat /\ FALSE \in BOOLEAN
  BY RoomFacts DEF ProbeFails, Failed
<1>2. CASE UNCHANGED <<room, baseline, link>>
  <2>1. StreamsKept
    BY <1>1, <1>2, RoomFacts, AtMostItself, StreamsUnmoved
  <2>2. QED BY <1>1, <1>2, <2>1, RoomFacts, AtMostItself, EngineSteps
<1>3. CASE Publish(Deltas(Degraded(room), FALSE)) /\ Install(Degraded(room))
  BY <1>1, <1>3, DegradedKeeps
<1>4. QED BY <1>2, <1>3 DEF ProbeFails

LEMMA ConflictKeeps ==
  ASSUME IInv, EngineKeeps, RecoveryConflict, UNCHANGED <<events, aged>>
  PROVE  IInv'
<1>1. /\ faults' = faults + 1 /\ UNCHANGED quiet /\ FALSE \in BOOLEAN
      /\ Publish(Deltas(Recovering, FALSE)) /\ Install(Recovering)
  BY DEF RecoveryConflict, Failed, EnteringDeltas
<1>2. faults' \in Nat
  BY <1>1, RoomFacts
<1>3. QED BY <1>1, <1>2, RecoveringFields, SamePartsKeep

LEMMA StopsKeeps ==
  ASSUME IInv, EngineKeeps, NEW status \in Status, RecoveryStops(status), UNCHANGED <<events, aged>>
  PROVE  IInv'
<1> DEFINE mid == Recovering
           next == InStatus(status)
           second == PublicationDeltas(mid, next, FALSE)
           first == FALSE
<1>1. /\ faults' = faults + 1 /\ quiet' = quiet /\ Install(next)
      /\ PublishBoth(Deltas(mid, FALSE), second)
  BY DEF RecoveryStops, Failed, EnteringDeltas
<1>2. faults' \in Nat
  BY <1>1, RoomFacts
<1>3. /\ mid \in Snapshot /\ mid.parts = room.parts /\ Good(mid, quiet) /\ AtMost(room, mid)
      /\ mid.platform.outage = room.platform.outage
      /\ mid.platform.through = room.platform.through
      /\ Explained(room.parts, mid.platform, quiet) /\ Behind(mid, mid, quiet)
      /\ Explained(mid.parts, baseline.platform, quiet)
  BY RecoveringFields
<1>4. /\ next \in Snapshot /\ next.parts = room.parts /\ Good(next, quiet)
      /\ next.platform.outage = room.platform.outage
      /\ next.platform.through = room.platform.through
  BY InStatusFields
<1>5. first \in BOOLEAN /\ second = PublicationDeltas(mid, next, first)
  OBVIOUS
<1>a. IF first THEN next.platform.covers = mid.platform.covers
      ELSE Explained(next.parts, mid.platform, quiet)
  BY <1>3, <1>4
<1> HIDE DEF mid, next, second, first
<1>6. AtMost(room, next)
  BY <1>4, RoomFacts DEF AtMost
<1>7. AtMost(mid, next)
  BY <1>3, <1>4, <1>6, InStatusAtMost
<1>8. AreDeltas(second)
  BY <1>3, <1>4, <1>5, PublicationIsDeltas
<1>9. aged \in BOOLEAN /\ aged' = aged /\ next.parts["sensor"] = mid.parts["sensor"]
  BY <1>3, <1>4, RoomFacts
<1>10. ASSUME NEW v \in Snapshot, Good(v, quiet), Current(v, mid, mid, aged)
       PROVE  \E w \in Snapshot : Leads(second, v, w, quiet) /\ Current(w, next, next, aged')
  <2>1. next.parts["sensor"] = mid.parts["sensor"] => aged = aged
    OBVIOUS
  <2>2. \E w \in Snapshot : /\ Leads(PublicationDeltas(mid, next, first), v, w, quiet)
                            /\ Current(w, next, next, aged)
    BY <1>3, <1>4, <1>5, <1>7, <1>9, <1>10, <1>a, <2>1, PublicationLeads
  <2>3. QED BY <1>5, <1>9, <2>2
<1>11. PublishBoth(Deltas(mid, FALSE), second) /\ Install(next) /\ UNCHANGED quiet
       /\ aged' \in BOOLEAN
  BY <1>1, <1>9
<1>12. StreamsKept
  BY <1>3, <1>4, <1>7, <1>8, <1>10, <1>11, PublishedTwice
<1>13. /\ next.parts["sensor"].stale => aged'
       /\ \A p \in Part : next.parts[p].version <= events'
       /\ next.platform.through <= events' /\ events' \in Nat
  BY <1>4, <1>9, RoomFacts
<1>14. QED BY <1>2, <1>4, <1>6, <1>11, <1>12, <1>13, InstallKeeps

LEMMA SucceedsKeeps ==
  ASSUME IInv, EngineKeeps, RecoverySucceeds, aged' = aged
  PROVE  IInv'
<1>1. PICK changed \in {{}, {"led", "commands"}} :
         /\ events' = IF changed = {} THEN events ELSE events + 1
         /\ PublishBoth(EnteringDeltas, RecoveryDeltas(Recovering, Recovered(changed)))
         /\ Install(Recovered(changed)) /\ UNCHANGED <<faults, quiet>>
  BY DEF RecoverySucceeds
<1> DEFINE mid == Recovering
           outage == room.platform.outage
           x == Projected(changed, outage)
           parts == x.parts
           covers == [p \in Part |-> parts[p].version]
           platform == [status |-> "available", outage |-> outage, through |-> events',
                        covers |-> covers]
           next == Recovered(changed)
           second == RecoveryDeltas(mid, next)
<1>2. changed \in ChangeSets /\ outage \in Nat /\ "sensor" \notin changed /\ "sensor" \in Part
  BY RoomFacts DEF ChangeSets, Part
<1>3. /\ mid \in Snapshot /\ mid.parts = room.parts /\ Good(mid, quiet) /\ AtMost(room, mid)
      /\ mid.platform.outage = room.platform.outage
      /\ mid.platform.through = room.platform.through
      /\ Explained(mid.parts, baseline.platform, quiet)
  BY RecoveringFields
<1>4. x \in Snapshot /\ x.platform = room.platform /\ parts \in [Part -> PartRecord]
  BY <1>2, ProjectedPlatform, SnapshotFields
<1>5. next = Room(parts, platform)
  <2>1. next = [x EXCEPT !.platform = platform]
    BY <1>4 DEF Recovered
  <2> HIDE DEF next, x, platform
  <2>2. QED BY <1>4, <2>1, SnapshotFields DEF Room
<1>6. /\ events \in Nat /\ events' \in Nat /\ events <= events'
      /\ room.platform.through \in Nat /\ room.platform.through <= events
      /\ faults' \in Nat /\ aged \in BOOLEAN
  BY <1>1, RoomFacts
<1>7. platform \in PlatformRecord /\ platform.outage = outage /\ platform.through = events'
      /\ \A p \in Part : platform.covers[p] = parts[p].version
  <2> HIDE DEF x, outage
  <2>1. covers \in [Part -> Nat] /\ \A p \in Part : covers[p] = parts[p].version
    BY <1>4 DEF PartRecord
  <2> HIDE DEF covers
  <2>2. QED BY <1>2, <1>6, <2>1 DEF PlatformRecord, Status
<1>a. second = RecoveryDeltas(mid, next)
  OBVIOUS
<1>b. PublishBoth(Deltas(mid, FALSE), second) /\ Install(next) /\ UNCHANGED quiet
      /\ aged' \in BOOLEAN
  BY <1>1, <1>6 DEF EnteringDeltas
<1> HIDE DEF platform, next, mid, second
<1>8. /\ \A p \in Part : platform.covers[p] <= Projected(changed, outage).parts[p].version
      /\ platform.outage >= room.platform.outage /\ platform.outage >= outage
      /\ platform.through >= room.platform.through /\ outage <= room.platform.outage
  <2>1. \A p \in Part : parts[p].version \in Nat
    BY <1>4 DEF PartRecord
  <2>2. \A p \in Part : platform.covers[p] <= parts[p].version
    BY <1>7, <2>1
  <2>3. QED BY <1>2, <1>6, <1>7, <2>2
<1>9. /\ next \in Snapshot /\ next.parts = parts /\ next.platform = platform
      /\ Good(next, quiet) /\ AtMost(room, next)
      /\ Explained(parts, room.platform, quiet)
      /\ \A p \in Part : parts[p].version = IF p \in changed THEN events + 1
                                            ELSE room.parts[p].version
      /\ parts["sensor"].stale = aged
  BY <1>2, <1>5, <1>7, <1>8, ProjectedIsGood
<1> HIDE DEF parts
<1>10. AtMost(mid, next)
  BY <1>3, <1>9, InStatusAtMost
<1>11. Explained(next.parts, mid.platform, quiet)
  <2>1. Explained(parts, room.platform, quiet)
    BY <1>9
  <2>2. QED BY <1>3, <1>9, <2>1 DEF Explained
<1>12. AreDeltas(second)
  BY <1>3, <1>9, <1>a, PublicationIsDeltas
<1>13. ASSUME NEW v \in Snapshot, Good(v, quiet), Current(v, mid, mid, aged)
       PROVE  \E w \in Snapshot : Leads(second, v, w, quiet) /\ Current(w, next, next, aged')
  <2>1. next.parts["sensor"] = mid.parts["sensor"] => aged = aged
    OBVIOUS
  <2>2. \E w \in Snapshot : /\ Leads(RecoveryDeltas(mid, next), v, w, quiet)
                            /\ Current(w, next, next, aged)
    BY <1>3, <1>6, <1>9, <1>10, <1>11, <1>13, <2>1, RecoveryLeads
  <2>3. QED BY <1>a, <2>2
<1>14. StreamsKept
  BY <1>3, <1>9, <1>10, <1>12, <1>13, <1>b, PublishedTwice
<1>15. ASSUME NEW p \in Part PROVE next.parts[p].version <= events'
  <2>1. parts[p].version = IF p \in changed THEN events + 1 ELSE room.parts[p].version
    BY <1>9
  <2>2. room.parts[p].version \in Nat /\ room.parts[p].version <= events
    BY RoomFacts
  <2>3. p \in changed => events' = events + 1
    BY <1>1
  <2>4. CASE p \in changed
    BY <1>6, <1>9, <2>1, <2>3, <2>4
  <2>5. CASE p \notin changed
    BY <1>6, <1>9, <2>1, <2>2, <2>5
  <2>6. QED BY <2>4, <2>5
<1>16. next.platform.through <= events' /\ (next.parts["sensor"].stale => aged')
  BY <1>6, <1>7, <1>9
<1>17. QED BY <1>6, <1>9, <1>14, <1>15, <1>16, <1>b, InstallKeeps

LEMMA RecoverKeeps ==
  ASSUME IInv, Recover
  PROVE  IInv'
<1>1. EngineKeeps /\ aged' = aged
  BY DEF Recover, EngineKeeps
<1>2. CASE RecoverySucceeds
  BY <1>1, <1>2, SucceedsKeeps
<1>3. CASE RecoveryFails
  <2>1. UNCHANGED <<events, aged>>
    BY <1>1, <1>3 DEF RecoveryFails
  <2>2. CASE ProbeFails \/ RecoveryConflict
    BY <1>1, <2>1, <2>2, ProbeFailsKeeps, ConflictKeeps
  <2>3. ASSUME NEW status \in {"degraded", "overflowed", room.platform.status}, RecoveryStops(status)
        PROVE  IInv'
    <3>1. status \in Status
      BY RoomFacts DEF Status, PlatformRecord
    <3>2. QED BY <1>1, <2>1, <2>3, <3>1, StopsKeeps
  <2>4. QED BY <1>3, <2>2, <2>3 DEF RecoveryFails
<1>4. QED BY <1>2, <1>3 DEF Recover

-----------------------------------------------------------------------------
(* Theorems *)

LEMMA InitHolds == Init => IInv
<1> SUFFICES ASSUME Init PROVE IInv
  OBVIOUS
<1> DEFINE F == FirstSnapshot
<1>1. PICK k \in Conn :
         /\ client = [source |-> k, timer |-> FALSE, closed |-> FALSE, ready |-> FALSE,
                      revision |-> 0]
         /\ link = Requested([c \in Conn |-> IdleLink], k)
  BY DEF Init
<1>2. /\ events = 0 /\ faults = 0 /\ breaks = 0 /\ room = F /\ baseline = F
      /\ aged = FALSE /\ quiet = {} /\ shown = [ready |-> FALSE, room |-> F]
  BY DEF Init
<1>3. /\ F \in Snapshot /\ F.platform.outage = 0 /\ F.platform.through = 0
      /\ \A p \in Part : /\ F.parts[p] = [version |-> 0, joint |-> FALSE, outage |-> 0,
                                          stale |-> FALSE]
                         /\ F.platform.covers[p] = 0
  BY FirstSnapshotType DEF FirstSnapshot
<1> HIDE DEF F
<1>4. "sensor" \in Part /\ "led" \in Part /\ "commands" \in Part
  BY DEF Part
<1>5. Good(F, {})
  BY <1>3, <1>4 DEF Good, Covered, Explained, Together
<1>6. RoomInv
  BY <1>2, <1>3, <1>4, <1>5 DEF RoomInv, Behind
<1>7. ClientInv
  BY <1>1, <1>2, <1>3, <1>5, AtMostItself DEF ClientInv
<1> DEFINE l == [IdleLink EXCEPT !.phase = "requested"]
<1>8. l \in Link /\ Settled(l) /\ Carried(l) = <<>> /\ l.phase = "requested"
  BY IdleLinkType DEF Link, Settled, Carried
<1>9. link = [[c \in Conn |-> IdleLink] EXCEPT ![k] = l]
  BY <1>1 DEF Requested
<1> HIDE DEF l
<1>10. /\ link \in [Conn -> Link] /\ \A j \in Conn : Settled(link[j])
       /\ link[k] = l
  BY <1>8, <1>9, IdleLinkType
<1>11. client \in Client /\ client.source = k /\ ~client.ready
  BY <1>1 DEF Client
<1>12. TypeOK
  <2>a. events = 0 /\ faults = 0 /\ breaks = 0 /\ quiet = {} /\ aged = FALSE
    BY <1>2
  <2>b. aged \in BOOLEAN
    BY <2>a
  <2>c. quiet \subseteq Nat
    BY <2>a
  <2>d. events \in Nat /\ faults \in Nat /\ breaks \in Nat
    BY <2>a
  <2>1. {events, faults, breaks} \subseteq Nat
    BY <2>d
  <2>2. room \in Snapshot /\ baseline \in Snapshot /\ shown \in [ready : BOOLEAN, room : Snapshot]
    BY <1>2, <1>3
  <2>3. QED BY <1>10, <1>11, <2>1, <2>2, <2>b, <2>c DEF TypeOK, Settled
<1>13. StreamInv(k)
  <2>1. Follows(l, client, F, {}, F, F, FALSE)
    BY <1>3, <1>8, <1>11, AtMostItself, FollowsNothing
  <2>2. QED BY <1>2, <1>10, <2>1 DEF StreamInv
<1>14. QED BY <1>6, <1>7, <1>11, <1>12, <1>13 DEF IInv

LEMMA StutterKeeps ==
  ASSUME IInv, UNCHANGED vars
  PROVE  IInv'
BY DEF vars, server, IInv, TypeOK, RoomInv, ClientInv, StreamInv

LEMMA NextKeeps ==
  ASSUME IInv, [Next]_vars
  PROVE  IInv'
<1>1. CASE Engine
  <2>1. ASSUME NEW changed \in Changes, ProcessEvent(changed) PROVE IInv'
    BY <2>1, EventKeeps
  <2>2. CASE QuarantineRolledBack
    BY <2>2, QuarantineKeeps
  <2>3. CASE StorageFails
    BY <2>3, StorageFailsKeeps
  <2>4. CASE Age
    BY <2>4, AgeKeeps
  <2>5. CASE FreshnessTick
    BY <2>5, FreshnessKeeps
  <2>6. CASE Recover
    BY <2>6, RecoverKeeps
  <2>7. QED BY <1>1, <2>1, <2>2, <2>3, <2>4, <2>5, <2>6 DEF Engine
<1>2. CASE RequestBaseline \/ CloseClient
  BY <1>2, LeavingKeeps
<1>3. CASE Reconnect
  BY <1>3, ReconnectKeeps
<1>4. ASSUME NEW k \in Conn, Accept(k) \/ Drain(k) \/ Break(k) \/ Abandon(k)
      PROVE  IInv'
  BY <1>4, AcceptKeeps, DrainKeeps, BreakKeeps, AbandonKeeps
<1>5. ASSUME NEW k \in Conn, Receive(k) \/ Error(k)
      PROVE  IInv'
  BY <1>5, ReceiveKeeps, ErrorKeeps
<1>6. CASE UNCHANGED vars
  BY <1>6, StutterKeeps
<1>7. QED BY <1>1, <1>2, <1>3, <1>4, <1>5, <1>6 DEF Next

\* Whatever the engine publishes, connections lose and the client does, what a stream
\* still carries leads the client through rooms that may be shown to the engine's.
THEOREM Invariance == Spec => []IInv
<1>1. Init => IInv
  BY InitHolds
<1>2. IInv /\ [Next]_vars => IInv'
  BY NextKeeps
<1>3. QED BY <1>1, <1>2, PTL DEF Spec

\* Streams, rooms and clients keep their types, and a stream that does not wait for
\* "drain" has nothing left to write.
THEOREM TypeCorrect == Spec => []TypeOK
<1>1. IInv => TypeOK
  BY DEF IInv
<1>2. QED BY <1>1, Invariance, PTL

\* enqueue, flush and the applying client never skip or repeat a revision on the way.
THEOREM RevisionsAreContiguous == Spec => []StreamIsContiguous
<1>1. IInv => StreamIsContiguous
  <2> SUFFICES ASSUME IInv, NEW k \in Conn, client.source = k, NEW i \in DOMAIN Outgoing(k)
               PROVE  LET message == Outgoing(k)[i]
                      IN  /\ message.type = "room.snapshot" <=> ~client.ready /\ i = 1
                          /\ message.revision = IF client.ready THEN client.revision + i
                                                ELSE i - 1
    BY DEF StreamIsContiguous
  <2>1. Outgoing(k) = Carried(link[k])
    BY DEF Outgoing, Carried
  <2>2. Carried(link[k]) \in Seq(MessageRecord)
    BY LinkFields DEF IInv, TypeOK
  <2>3. i \in 1..Len(Carried(link[k]))
    BY <2>1, <2>2, LenProperties
  <2>4. Contiguous(Carried(link[k]), client)
    BY DEF IInv, StreamInv, Follows, Delivers
  <2>5. QED BY <2>1, <2>3, <2>4 DEF Contiguous
<1>2. QED BY <1>1, Invariance, PTL

\* The order that buildPublicationDeltas gives the deltas of one operation never shows a
\* watermark before what it covers, an outcome before its outage, or half a command.
THEOREM ConsistencyIsShown == Spec => []ShownIsConsistent
<1>1. IInv => ShownIsConsistent
  <2> SUFFICES ASSUME IInv PROVE ShownIsConsistent
    OBVIOUS
  <2>1. /\ Covered(shown.room.parts, shown.room.platform)
        /\ Explained(shown.room.parts, shown.room.platform, quiet)
        /\ Together(shown.room.parts)
    BY DEF IInv, ClientInv, Good
  <2>2. QED BY <2>1 DEF ShownIsConsistent, OutcomeBeforeWatermark, OutageShownFirst,
                        CommandShownWithDevice, Covered, Explained, Together
<1>2. QED BY <1>1, Invariance, PTL

\* A client of an open stream that has received everything shows the installed room.
THEOREM CaughtUpShowsRoom == Spec => []CaughtUpIsCurrent
<1>1. IInv => CaughtUpIsCurrent
  <2> SUFFICES ASSUME IInv, NEW k \in Conn, CaughtUp(k)
               PROVE  /\ shown.room.parts \in {room.parts, SnapshotNow.parts}
                      /\ \/ shown.room.platform = room.platform
                         \/ room.platform.outage \in quiet
    BY DEF CaughtUpIsCurrent
  <2>1. client.source = k /\ link[k].phase = "open" /\ Carried(link[k]) = <<>>
    BY DEF CaughtUp, Outgoing, Carried
  <2>2. PICK to \in Snapshot : /\ Delivers(link[k], client, shown.room, to, quiet)
                               /\ Current(to, room, baseline, aged)
    BY <2>1 DEF IInv, StreamInv, Follows
  <2>3. to = shown.room
    BY <2>1, <2>2, NothingLeads DEF Delivers
  <2>4. SnapshotNow.parts = Aging(room.parts, aged) /\ Behind(room, baseline, quiet)
    BY NowFields, RoomFacts
  <2>5. QED BY <2>2, <2>3, <2>4 DEF Current, Later, Behind
<1>2. QED BY <1>1, Invariance, PTL

\* No part, outage or watermark that the application shows is ever replaced by an
\* older one, within a connection or across reconnects.
THEOREM NothingOlderIsShown == Spec => ShownNeverGoesBack
<1> DEFINE Forward == /\ \A p \in Part : shown'.room.parts[p].version >= shown.room.parts[p].version
                      /\ shown'.room.platform.outage >= shown.room.platform.outage
                      /\ shown'.room.platform.through >= shown.room.platform.through
<1>1. IInv /\ IInv' /\ [Next]_vars => [Forward]_shown
  <2> SUFFICES ASSUME IInv, IInv', [Next]_vars, shown' # shown PROVE Forward
    OBVIOUS
  <2>1. PICK k \in Conn : Receive(k)
    BY DEF Next, Engine, ProcessEvent, QuarantineRolledBack, StorageFails, Age, FreshnessTick,
           Recover, RequestBaseline, Reconnect, CloseClient, Accept, Drain, Break, Abandon,
           Error, vars
  <2>2. AtMost(shown.room, shown'.room)
    BY <2>1, ReceiveKeeps
  <2>3. shown.room \in Snapshot /\ shown'.room \in Snapshot
    BY DEF IInv, TypeOK
  <2>4. /\ \A p \in Part : /\ shown.room.parts[p].version \in Nat
                           /\ shown'.room.parts[p].version \in Nat
        /\ shown.room.platform.outage \in Nat /\ shown'.room.platform.outage \in Nat
        /\ shown.room.platform.through \in Nat /\ shown'.room.platform.through \in Nat
    BY <2>3, SnapshotFields
  <2>5. QED BY <2>2, <2>4 DEF AtMost
<1>2. QED BY <1>1, Invariance, PTL DEF Spec, ShownNeverGoesBack

=============================================================================
