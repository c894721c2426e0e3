------------------------ MODULE CommandDeliveryProofs ------------------------
(***************************************************************************)
(* Proofs about CommandDelivery, for any commands, plans, delays and       *)
(* number of faults.                                                       *)
(*                                                                         *)
(* The argument is the agreement of memory and the stored checkpoint:      *)
(* with storage available they hold the same commands; without it, a       *)
(* command that both hold is no further in storage than in memory.  The    *)
(* room keeps only the newest outcomes (Selected), so a command may also   *)
(* be held by one alone, and what recovery merges is selected again:       *)
(* lemmas about that selection say that it drops only finished commands    *)
(* and which ones.  A stored active command that memory has dropped comes  *)
(* back, and CommandPromise allows it; a command whose end is stored does  *)
(* not.  A request is for a command of which there is no trace and is      *)
(* processed before anything else happens (RequestsAreFresh), which is     *)
(* what makes a move out of "none" one of CommandPromise.                  *)
(*                                                                         *)
(* Every step has a lemma that says it Agrees (with the invariant, with    *)
(* CommandPromise and with the deadlines) and Keeps the types; most leave  *)
(* the commands alone (QuietStep) or end the process (HaltKeeps).          *)
(*                                                                         *)
(* A second invariant, Backing, stands on that agreement: the admission of *)
(* a command, its outbox intent, the LED's receipt and the work and timers *)
(* of the controller vouch for each other, in memory, in storage and in    *)
(* the events on their way.  Each step has a lemma that it Backs: it keeps *)
(* Backing, and the LED accepts no command that is not live.               *)
(*                                                                         *)
(* A third invariant, Tended, says what is being done for every active     *)
(* command: it is delivered, or about to be attempted, or its handoff or   *)
(* its timeout is queued; and the timers of the room are the deadlines of  *)
(* its pending commands.  Most steps leave the commands alone (Leaves) and *)
(* go on with what was being done for them (GoesOn).                       *)
(***************************************************************************)
EXTENDS CommandDelivery, FiniteSetTheorems, TLAPS

\* What the variables hold, more precisely than TypeOK says it.
RealReceipts ==
  [kind : {"report", "rejection", "none"}, power : Power, due : Nat, acceptedAt : Nat,
   terminal : BOOLEAN]
\* A receipt that has an outcome to deliver.
Outcomes ==
  [kind : {"report", "rejection"}, power : Power, due : Nat, acceptedAt : Nat,
   terminal : BOOLEAN]

\* Commands of which the list has none too many.
Lists == {f \in [Command -> Records] : \A c \in Command : ~Surplus(f, c)}

Rooms ==
  [cmds : Lists, obs : Observations, known : SUBSET Command,
   guards : SUBSET Command, startupFailures : SUBSET Command]

Controls ==
  [work : [Command -> {"none"} \cup Durability],
   timeoutAt : [Command -> Nat], retryAt : [Command -> Nat]]

Inputs ==
  [kind : InputKinds, cmd : Command, power : Power, at : Nat, durable : BOOLEAN]
  \cup [kind : {"report"}, cmd : {NoCommand}, power : Power, at : Nat, durable : BOOLEAN]

Leds ==
  [armed : [Command -> {NoPlan} \cup [receipt : Outcomes, durable : BOOLEAN]],
   emitted : SUBSET Command, restoring : SUBSET Command, lamp : Power]

Disks ==
  [cmds : Lists, obs : Observations, guards : SUBSET Command,
   known : SUBSET Command,
   outbox : [Command -> {"none", "ready", "uncertain", "delivered", "closed"}],
   receipts : [Command -> {NoReceipt} \cup RealReceipts]]

Intents(d) == {c \in Command : d.outbox[c] # "none"}

Types ==
  /\ now \in Nat \ {0}
  /\ faults \in 0..MaxFaults
  /\ process \in {"running", "crashed", "fatal", "uncaught"}
  /\ boot \in {"closing", "sources", "resume", "done"}
  /\ storage \in {"available", "degraded", "recovering"}
  /\ room \in Rooms
  /\ control \in Controls
  /\ inputs \in Seq(Inputs)
  /\ attempts \in Seq(Command)
  /\ led \in Leds
  /\ disk \in Disks /\ IsFiniteSet(Intents(disk))
  /\ \A c \in led.restoring : disk.receipts[c] # NoReceipt

\* At most one command is active.
One(cmds) == \A c, d \in ActiveCommands(cmds) : c = d

\* What an event may make of a record.
Goes(old, new) ==
  /\ new.status = old.status \/ <<old.status, new.status>> \in Promise!Moves
  /\ old.status \notin {"none", "accepted"} => new.deadline = old.deadline

-----------------------------------------------------------------------------
(* Operators *)

\* A finite set can be put in an order.
LEMMA SetToSeqType ==
  ASSUME NEW S, IsFiniteSet(S)
  PROVE  /\ SetToSeq(S) \in Seq(S)
         /\ SetToSeq(S) \in [1..Cardinality(S) -> S] /\ Cardinality(S) \in Nat
         /\ Len(SetToSeq(S)) = Cardinality(S)
  <1>1. Cardinality(S) \in Nat /\ ExistsBijection(1..Cardinality(S), S)
    BY FS_CardinalityType
  <1>2. PICK f : f \in [1..Cardinality(S) -> S] /\ IsInjective(f)
    BY <1>1 DEF ExistsBijection, Bijection, Injection
  <1>3. SetToSeq(S) \in [1..Cardinality(S) -> S]
    BY <1>2 DEF SetToSeq
  <1> QED BY <1>1, <1>3

\* Any order of a finite set is a sequence of its elements.
LEMMA SetToSeqsType ==
  ASSUME NEW S, IsFiniteSet(S), NEW s \in SetToSeqs(S)
  PROVE  s \in Seq(S)
  BY FS_CardinalityType DEF SetToSeqs

\* What an unknown command and an unobserved LED look like.
LEMMA NoRecordType ==
  /\ NoRecord \in Records
  /\ NoObservation \in Observations
  /\ "off" \in Power
  BY CommandDeliveryAssumption DEF NoRecord, NoObservation, NoTime, Records, Observations, Status, Durability

\* The state a process begins with.
LEMMA EmptyTypes ==
  /\ EmptyRoom \in Rooms /\ EmptyControl \in Controls /\ FreshLed \in Leds
  /\ FreshLed.restoring = {}
  <1> DEFINE f == [c \in Command |-> NoRecord]
  <1>1. f \in Lists
    BY NoRecordType DEF Lists, Surplus, IsTerminal, NoRecord, TerminalStatus
  <1> HIDE DEF f
  <1>2. EmptyRoom = [cmds |-> f, obs |-> NoObservation, known |-> {}, guards |-> {}, startupFailures |-> {}]
    BY DEF EmptyRoom, f
  <1> QED
    BY <1>1, <1>2, NoRecordType DEF EmptyControl, FreshLed, Rooms, Controls, Leds, NoTime, Durability

-----------------------------------------------------------------------------
(* The list of commands *)

\* A set of numbers has a least one.
LEMMA LeastOne ==
  ASSUME NEW S \in SUBSET Nat, S # {}
  PROVE  \E n \in S : \A m \in S : n <= m
  <1> DEFINE less == OpToRel(<, Nat)
  <1>1. IsWellFoundedOn(less, Nat)
    BY NatLessThanWellFounded
  <1> HIDE DEF less
  <1>2. PICK n \in S : \A m \in S : <<m, n>> \notin less
    BY <1>1, WFMin, Zenon
  <1>3. \A m \in S : m \in Nat /\ n \in Nat /\ ~(m < n)
    BY <1>2 DEF less, OpToRel
  <1> QED BY <1>3

\* There are finitely many outcomes before another.
LEMMA NewerType ==
  ASSUME NEW f, NEW c
  PROVE  IsFiniteSet(NewerOutcomes(f, c)) /\ Cardinality(NewerOutcomes(f, c)) \in Nat
  <1>1. NewerOutcomes(f, c) \in SUBSET Command
    BY DEF NewerOutcomes
  <1> QED BY <1>1, CommandDeliveryAssumption, FS_Subset, FS_CardinalityType

\* The order of the outcomes: fewer are before the one that is before another.
LEMMA NewerHasLess ==
  ASSUME NEW f \in [Command -> Records], NEW a \in Command, NEW b \in Command,
         IsTerminal(f, a), EndsAfter(f, a, b)
  PROVE  Cardinality(NewerOutcomes(f, a)) < Cardinality(NewerOutcomes(f, b))
  <1>1. \A c \in Command : f[c].ended \in Nat /\ c \in Nat
    BY CommandDeliveryAssumption DEF Records
  <1>2. NewerOutcomes(f, a) \in SUBSET NewerOutcomes(f, b)
    BY <1>1 DEF NewerOutcomes, EndsAfter
  <1>3. a \in NewerOutcomes(f, b) /\ a \notin NewerOutcomes(f, a)
    BY <1>1 DEF NewerOutcomes, EndsAfter
  <1>4. IsFiniteSet(NewerOutcomes(f, b))
    BY NewerType
  <1>5. Cardinality(NewerOutcomes(f, a)) <= Cardinality(NewerOutcomes(f, b))
    BY <1>2, <1>4, FS_Subset
  <1>6. Cardinality(NewerOutcomes(f, a)) # Cardinality(NewerOutcomes(f, b))
    BY <1>2, <1>3, <1>4, FS_Subset
  <1> QED BY <1>5, <1>6, NewerType

\* A list stays within the limit when nothing ends on it.
LEMMA ListStays ==
  ASSUME NEW f \in [Command -> Records], NEW g \in [Command -> Records],
         \A c \in Command : IsTerminal(g, c) =>
           IsTerminal(f, c) /\ g[c].ended = f[c].ended /\ ~Surplus(f, c)
  PROVE  g \in Lists
  <1> SUFFICES ASSUME NEW c \in Command, IsTerminal(g, c)
               PROVE  ~(Cardinality(NewerOutcomes(g, c)) >= RecentLimit)
    BY DEF Lists, Surplus
  <1>1. NewerOutcomes(g, c) \in SUBSET NewerOutcomes(f, c)
    BY DEF NewerOutcomes, EndsAfter
  <1>2. Cardinality(NewerOutcomes(g, c)) <= Cardinality(NewerOutcomes(f, c))
    BY <1>1, NewerType, FS_Subset
  <1>3. ~(Cardinality(NewerOutcomes(f, c)) >= RecentLimit)
    BY DEF Surplus
  <1>4. /\ Cardinality(NewerOutcomes(g, c)) \in Nat /\ Cardinality(NewerOutcomes(f, c)) \in Nat
        /\ RecentLimit \in Nat
    BY NewerType, CommandDeliveryAssumption
  <1> QED BY <1>2, <1>3, <1>4

\* What selectRecentCommands keeps and drops.
LEMMA SelectedFacts ==
  ASSUME NEW f \in [Command -> Records]
  PROVE  /\ Selected(f) \in Lists
         /\ \A c \in Command : \/ Selected(f)[c] = f[c] /\ ~Surplus(f, c)
                               \/ Selected(f)[c] = NoRecord /\ IsTerminal(f, c) /\ Surplus(f, c)
         /\ f \in Lists => Selected(f) = f
  <1> DEFINE g == Selected(f)
  <1>1. \A c \in Command : \/ g[c] = f[c] /\ ~Surplus(f, c)
                           \/ g[c] = NoRecord /\ IsTerminal(f, c) /\ Surplus(f, c)
    BY DEF Selected, Surplus
  <1>2. g = [c \in Command |-> g[c]]
    BY DEF Selected
  <1> HIDE DEF g
  <1>3. g \in [Command -> Records]
    BY <1>1, <1>2, NoRecordType
  <1>4. \A c \in Command : IsTerminal(g, c) => IsTerminal(f, c) /\ g[c].ended = f[c].ended /\ ~Surplus(f, c)
    BY <1>1 DEF IsTerminal, NoRecord, TerminalStatus
  <1>5. g \in Lists
    BY <1>3, <1>4, ListStays
  <1>6. f \in Lists => g = f
    BY <1>1, <1>3 DEF Lists
  <1> QED BY <1>1, <1>5, <1>6 DEF g

\* CommandPromise counts as CommandDelivery does.
LEMMA SameCount ==
  \A S : Promise!Cardinality(S) = Cardinality(S)
  BY DEF Promise!Cardinality, Cardinality

Statuses(cmds) == [c \in Command |-> cmds[c].status]

\* It drops one only if as many stay as the limit allows.
LEMMA SelectedFull ==
  ASSUME NEW f \in [Command -> Records]
  PROVE  Promise!Remembers(Statuses(f), Statuses(Selected(f)))
  <1> DEFINE g == Selected(f)
             Out == {c \in Command : Surplus(f, c)}
             Stay == Promise!Outcomes(Statuses(g))
             R == {Cardinality(NewerOutcomes(f, c)) : c \in Out}
  <1>1. /\ \A c \in Command : \/ g[c] = f[c] /\ ~Surplus(f, c)
                              \/ g[c] = NoRecord /\ IsTerminal(f, c) /\ Surplus(f, c)
    BY SelectedFacts
  <1> HIDE DEF g
  <1>2. \A c \in Command : \/ Statuses(g)[c] = Statuses(f)[c]
                           \/ Statuses(f)[c] \in Promise!TerminalStatus /\ Statuses(g)[c] = "none"
    BY <1>1 DEF Statuses, IsTerminal, TerminalStatus, Promise!TerminalStatus, NoRecord
  <1>3. CASE Out = {}
    <2>1. Statuses(g) = Statuses(f)
      BY <1>1, <1>3 DEF Statuses
    <2> QED BY <1>2, <2>1 DEF Promise!Remembers, g
  <1>4. CASE Out # {}
    <2>1. R \in SUBSET Nat /\ R # {}
      BY <1>4, NewerType
    <2>2. PICK r \in R : \A s \in R : r <= s
      <3> HIDE DEF R
      <3> QED BY ONLY <2>1, LeastOne
    <2>3. PICK c \in Out : r = Cardinality(NewerOutcomes(f, c))
      BY <2>2
    <2>4. NewerOutcomes(f, c) \in SUBSET Stay
      <3> SUFFICES ASSUME NEW d \in NewerOutcomes(f, c) PROVE d \in Stay
        OBVIOUS
      <3>1. d \in Command /\ IsTerminal(f, d) /\ EndsAfter(f, d, c) /\ c \in Command
        BY DEF NewerOutcomes
      <3>2. Cardinality(NewerOutcomes(f, d)) < Cardinality(NewerOutcomes(f, c))
        BY <3>1, NewerHasLess
      <3>3. d \notin Out
        BY <2>2, <2>3, <3>2, NewerType
      <3>4. g[d] = f[d]
        BY <1>1, <3>1, <3>3
      <3> QED BY <3>1, <3>4 DEF Promise!Outcomes, Statuses, IsTerminal, TerminalStatus, Promise!TerminalStatus
    <2>5. IsFiniteSet(Stay)
      <3>1. Stay \in SUBSET Command
        BY DEF Promise!Outcomes
      <3> QED BY <3>1, CommandDeliveryAssumption, FS_Subset
    <2>6. Cardinality(NewerOutcomes(f, c)) <= Cardinality(Stay) /\ Cardinality(Stay) \in Nat
      <3> HIDE DEF Stay
      <3> QED BY <2>4, <2>5, FS_Subset, FS_CardinalityType
    <2>7. Cardinality(NewerOutcomes(f, c)) >= RecentLimit /\ Cardinality(NewerOutcomes(f, c)) \in Nat
      BY NewerType DEF Surplus
    <2>8. Cardinality(Stay) >= RecentLimit
      <3> HIDE DEF Stay
      <3> QED BY <2>6, <2>7, CommandDeliveryAssumption
    <2> QED BY <1>2, <2>8, SameCount DEF Promise!Remembers, g
  <1> QED BY <1>3, <1>4

-----------------------------------------------------------------------------
(* The room projector *)

\* What the projector returns.
Results == [accepted : BOOLEAN, cmds : Lists, obs : Observations]

\* A quarantined event.
LEMMA IgnoredType ==
  ASSUME Types
  PROVE  Ignored \in Results /\ ~Ignored.accepted /\ Ignored.cmds = room.cmds /\ Ignored.obs = room.obs
  BY DEF Types, Rooms, Ignored, Results

\* The records in memory and in storage.
LEMMA RecordTypes ==
  ASSUME Types
  PROVE  /\ room.cmds \in Lists /\ room.cmds \in [Command -> Records]
         /\ disk.cmds \in Lists /\ disk.cmds \in [Command -> Records]
         /\ \A c \in Command : room.cmds[c] \in Records /\ disk.cmds[c] \in Records
  BY DEF Types, Rooms, Disks, Lists

\* A transition of one command; outcomes may leave the list.
LEMMA ChangedType ==
  ASSUME Types, NEW c \in Command, NEW record \in Records
  PROVE  /\ Changed(c, record) \in Results
         /\ Changed(c, record).accepted /\ Changed(c, record).obs = room.obs
         /\ \/ Changed(c, record).cmds[c] = record
            \/ record.status \in TerminalStatus /\ Changed(c, record).cmds[c] = NoRecord
         /\ \A d \in Command \ {c} :
              \/ Changed(c, record).cmds[d] = room.cmds[d]
              \/ IsTerminal(room.cmds, d) /\ Changed(c, record).cmds[d] = NoRecord
  <1> DEFINE f == [room.cmds EXCEPT ![c] = record]
             g == Selected(f)
  <1>1. /\ f \in [Command -> Records] /\ f[c] = record
        /\ \A d \in Command \ {c} : f[d] = room.cmds[d]
    BY DEF Types, Rooms, Lists
  <1>2. Changed(c, record) = [accepted |-> TRUE, cmds |-> g, obs |-> room.obs] /\ room.obs \in Observations
    BY DEF Changed, Types, Rooms
  <1> HIDE DEF f
  <1>3. g \in Lists /\ \A d \in Command : g[d] = f[d] \/ (g[d] = NoRecord /\ IsTerminal(f, d))
    BY <1>1, SelectedFacts
  <1> HIDE DEF g
  <1> QED BY <1>1, <1>2, <1>3 DEF Results, IsTerminal

\* What an event makes of the commands, before the list is cut.
Changes(e, f) ==
  /\ f \in [Command -> Records]
  /\ \A c \in Command : Goes(room.cmds[c], f[c])
  /\ \/ f = room.cmds
     \/ \E c \in Command : ~IsTerminal(room.cmds, c) /\ \A d \in Command \ {c} : f[d] = room.cmds[d]
  /\ \A c \in Command : room.cmds[c].status = "none" /\ f[c].status # "none" =>
       e.kind \in {"requested", "rejected"} /\ c = e.cmd
  /\ \A c \in Command : IsActive(f, c) /\ ~IsActive(room.cmds, c) =>
       e.kind = "requested" /\ ActiveCommands(room.cmds) = {}

\* One command moves along the lifecycle, which may push outcomes off the list.
OneMove(e, cmds) ==
  \/ Statuses(cmds) = Statuses(room.cmds)
  \/ \E c \in Command, t \in Promise!Status :
       /\ <<room.cmds[c].status, t>> \in Promise!Moves
       /\ room.cmds[c].status = "none" => e.kind \in {"requested", "rejected"} /\ c = e.cmd
       /\ Promise!Remembers([Statuses(room.cmds) EXCEPT ![c] = t], Statuses(cmds))

\* What processing an event does to the commands.
Applied(e, p) ==
  /\ p \in Results
  /\ ~p.accepted => p.cmds = room.cmds /\ p.obs = room.obs
  /\ \A c \in Command : p.cmds[c] = NoRecord \/ Goes(room.cmds[c], p.cmds[c])
  /\ OneMove(e, p.cmds)
  /\ \A c \in Command : room.cmds[c].status = "none" /\ p.cmds[c].status # "none" =>
       e.kind \in {"requested", "rejected"} /\ c = e.cmd
  /\ \A c \in Command : IsActive(p.cmds, c) /\ ~IsActive(room.cmds, c) =>
       e.kind = "requested" /\ ActiveCommands(room.cmds) = {}

\* An event that changes nothing.
LEMMA SameApplied ==
  ASSUME Types, NEW e, NEW p \in Results, p.cmds = room.cmds, p.accepted \/ p.obs = room.obs
  PROVE  Applied(e, p)
  BY DEF Applied, Goes, OneMove

\* A quarantined event changes nothing.
LEMMA IgnoredApplied ==
  ASSUME Types, NEW e
  PROVE  Applied(e, Ignored)
  BY IgnoredType, SameApplied

\* The list is cut when a command ends.
LEMMA SelectedApplied ==
  ASSUME Types, NEW e, NEW f, Changes(e, f), NEW obs \in Observations
  PROVE  Applied(e, [accepted |-> TRUE, cmds |-> Selected(f), obs |-> obs])
  <1> DEFINE g == Selected(f)
             p == [accepted |-> TRUE, cmds |-> g, obs |-> obs]
  <1>1. /\ f \in [Command -> Records] /\ g \in Lists
        /\ \A c \in Command : g[c] = f[c] \/ g[c] = NoRecord
        /\ f \in Lists => g = f
        /\ Promise!Remembers(Statuses(f), Statuses(g))
    BY SelectedFacts, SelectedFull DEF Changes
  <1>2. NoRecord.status = "none"
    BY DEF NoRecord
  <1>3. room.cmds \in Lists /\ room.cmds \in [Command -> Records]
    BY DEF Types, Rooms, Lists
  <1> HIDE DEF g
  <1>4. OneMove(e, g)
    <2>1. CASE f = room.cmds
      BY <1>1, <1>3, <2>1 DEF OneMove
    <2>2. CASE f # room.cmds
      <3>1. PICK c \in Command : ~IsTerminal(room.cmds, c) /\ \A d \in Command \ {c} : f[d] = room.cmds[d]
        BY <2>2 DEF Changes
      <3> DEFINE t == f[c].status
      <3>2. t \in Promise!Status /\ Statuses(f) = [Statuses(room.cmds) EXCEPT ![c] = t]
        BY <1>1, <3>1 DEF Statuses, Records, Promise!Status, Status
      <3>3. CASE t = room.cmds[c].status
        <4>1. Statuses(f) = Statuses(room.cmds)
          BY <1>1, <3>1, <3>3 DEF Statuses
        <4>2. \A d \in Command : IsTerminal(f, d) =>
                IsTerminal(room.cmds, d) /\ f[d].ended = room.cmds[d].ended /\ ~Surplus(room.cmds, d)
          BY <1>3, <3>1, <3>3 DEF IsTerminal, Lists
        <4>3. f \in Lists
          BY <1>1, <1>3, <4>2, ListStays
        <4> QED BY <1>1, <4>1, <4>3 DEF OneMove
      <3>4. CASE t # room.cmds[c].status
        <4>1. <<room.cmds[c].status, t>> \in Promise!Moves
          BY <3>4 DEF Changes, Goes
        <4>2. room.cmds[c].status = "none" => e.kind \in {"requested", "rejected"} /\ c = e.cmd
          BY <3>4 DEF Changes
        <4> HIDE DEF t
        <4> QED BY <1>1, <3>2, <4>1, <4>2 DEF OneMove
      <3> QED BY <3>3, <3>4
    <2> QED BY <2>1, <2>2
  <1>5. p \in Results /\ p.cmds = g /\ p.accepted
    BY <1>1 DEF Results
  <1> HIDE DEF p
  <1>6. \A c \in Command : IsActive(g, c) => IsActive(f, c)
    BY <1>1, <1>2 DEF IsActive, ActiveStatus
  <1>7. Applied(e, p)
    BY <1>1, <1>2, <1>4, <1>5, <1>6 DEF Applied, Changes
  <1> QED BY <1>7 DEF p, g

\* A transition of one command, along the lifecycle.
LEMMA ChangedApplied ==
  ASSUME Types, NEW e, NEW c \in Command, NEW record \in Records,
         Goes(room.cmds[c], record), room.cmds[c].status \in {"none", "accepted", "pending"},
         room.cmds[c].status = "none" => e.kind \in {"requested", "rejected"} /\ c = e.cmd,
         record.status \in ActiveStatus /\ room.cmds[c].status \notin ActiveStatus =>
           e.kind = "requested" /\ ActiveCommands(room.cmds) = {}
  PROVE  Applied(e, Changed(c, record))
  <1> DEFINE f == [room.cmds EXCEPT ![c] = record]
             p == Changed(c, record)
  <1>1. /\ f \in [Command -> Records] /\ f[c] = record
        /\ \A d \in Command \ {c} : f[d] = room.cmds[d]
    BY DEF Types, Rooms, Lists
  <1>2. /\ p = [accepted |-> TRUE, cmds |-> Selected(f), obs |-> room.obs]
        /\ room.obs \in Observations
    BY DEF Changed, Types, Rooms
  <1> HIDE DEF f, p
  <1>3. ~IsTerminal(room.cmds, c)
    BY DEF IsTerminal, TerminalStatus
  <1>4. \A d \in Command : Goes(room.cmds[d], f[d])
    BY <1>1 DEF Goes
  <1>5. \A d \in Command : IsActive(f, d) /\ ~IsActive(room.cmds, d) =>
          e.kind = "requested" /\ ActiveCommands(room.cmds) = {}
    BY <1>1 DEF IsActive
  <1>6. \A d \in Command : room.cmds[d].status = "none" /\ f[d].status # "none" =>
          e.kind \in {"requested", "rejected"} /\ d = e.cmd
    BY <1>1
  <1>7. Changes(e, f)
    BY <1>1, <1>3, <1>4, <1>5, <1>6 DEF Changes
  <1> QED BY <1>2, <1>7, SelectedApplied DEF p

\* Delivery evidence makes a command pending; one that was has its deadline.
LEMMA PendingType ==
  ASSUME NEW old \in Records, NEW delivery \in {"uncertain", "handed_off"}, NEW at \in Nat
  PROVE  /\ Pending(old, delivery, at) \in Records /\ Pending(old, delivery, at).status = "pending"
         /\ old.status = "pending" => Pending(old, delivery, at).deadline = old.deadline
  <1>1. at + TimeoutDelay \in Nat
    BY CommandDeliveryAssumption
  <1> QED BY <1>1 DEF Pending, Records, Status

\* The end of a command leaves its deadline and its marks alone.
LEMMA EndedType ==
  ASSUME NEW old \in Records, NEW status \in TerminalStatus, NEW at \in Nat
  PROVE  /\ Ended(old, status, at) \in Records
         /\ Ended(old, status, at).status = status /\ Ended(old, status, at).deadline = old.deadline
         /\ Ended(old, status, at).admitted = old.admitted
         /\ Ended(old, status, at).lifecycle = old.lifecycle
         /\ Ended(old, status, at).power = old.power
  BY DEF Ended, Records, Status, TerminalStatus

\* A handoff moves its command, to pending or straight to confirmed.
LEMMA DispatchedApplied ==
  ASSUME Types, NEW e \in Inputs, e.kind = "dispatched"
  PROVE  Applied(e, ApplyDispatched(e))
  <1> DEFINE old == room.cmds[e.cmd]
             new == Pending(old, "handed_off", e.at)
             done == Ended(new, "confirmed", room.obs.at)
  <1>1. e.cmd \in Command /\ e.at \in Nat /\ old \in Records /\ room.obs.at \in Nat
    BY DEF Inputs, Types, Rooms, Lists, Observations
  <1>2. CASE MayDispatch(old) /\ e.at >= old.requestedAt
    <2>1. /\ new \in Records /\ new.status = "pending"
          /\ old.status = "pending" => new.deadline = old.deadline
      BY <1>1, PendingType
    <2> HIDE DEF new
    <2>2. done \in Records /\ done.status = "confirmed" /\ done.deadline = new.deadline
      BY <1>1, <2>1, EndedType DEF TerminalStatus
    <2>3. old.status \in {"accepted", "pending"}
      BY <1>2 DEF MayDispatch
    <2>4. ApplyDispatched(e) = Changed(e.cmd, new) \/ ApplyDispatched(e) = Changed(e.cmd, done)
      BY <1>2 DEF ApplyDispatched, new
    <2> HIDE DEF done
    <2>5. Goes(old, new) /\ Goes(old, done)
      BY <2>1, <2>2, <2>3 DEF Goes, Promise!Moves
    <2>6. Applied(e, Changed(e.cmd, new)) /\ Applied(e, Changed(e.cmd, done))
      BY <1>1, <2>1, <2>2, <2>3, <2>5, ChangedApplied DEF ActiveStatus
    <2> QED BY <2>4, <2>6
  <1>3. CASE ~(MayDispatch(old) /\ e.at >= old.requestedAt)
    BY <1>3, IgnoredApplied DEF ApplyDispatched
  <1> QED BY <1>2, <1>3

\* Of one active command, a report confirms one at most.
LEMMA ReportApplied ==
  ASSUME Types, One(room.cmds), NEW e \in Inputs
  PROVE  Applied(e, ApplyReport(e))
  <1> DEFINE p == ApplyReport(e)
             obs == [power |-> e.power, at |-> e.at, receivedAt |-> now]
             new(c) == [Ended(room.cmds[c], "confirmed", e.at) EXCEPT !.source = e.cmd]
             f == [c \in Command |->
                     IF Confirms(c, e.power, e.at) THEN new(c) ELSE room.cmds[c]]
  <1>1. CASE Stale(e)
    <2>1. p = [Ignored EXCEPT !.accepted = TRUE]
      BY <1>1 DEF ApplyReport
    <2>2. p \in Results /\ p.cmds = room.cmds /\ p.accepted
      BY <2>1, IgnoredType DEF Results, Ignored
    <2> QED BY <2>2, SameApplied
  <1>2. CASE ~Stale(e)
    <2>1. p = [accepted |-> TRUE, obs |-> obs, cmds |-> Selected(f)]
      BY <1>2 DEF ApplyReport
    <2>2. obs \in Observations /\ e.cmd \in Command \cup {NoCommand} /\ e.at \in Nat
      BY DEF Types, Inputs, Observations
    <2>3. ASSUME NEW c \in Command
          PROVE  new(c) \in Records /\ new(c).status = "confirmed" /\ new(c).deadline = room.cmds[c].deadline
      <3> DEFINE ended == Ended(room.cmds[c], "confirmed", e.at)
      <3>1. ended \in Records /\ ended.status = "confirmed" /\ ended.deadline = room.cmds[c].deadline
        BY <2>2, RecordTypes, EndedType DEF TerminalStatus
      <3> HIDE DEF ended
      <3>2. [ended EXCEPT !.source = e.cmd] \in Records
            /\ [ended EXCEPT !.source = e.cmd].status = "confirmed"
            /\ [ended EXCEPT !.source = e.cmd].deadline = ended.deadline
        BY <2>2, <3>1 DEF Records
      <3> QED BY <3>1, <3>2 DEF ended
    <2>4. ASSUME NEW c \in Command
          PROVE  /\ f[c] \in Records
                 /\ f[c] = room.cmds[c] \/ (room.cmds[c].status = "pending" /\ f[c].status = "confirmed"
                                             /\ f[c].deadline = room.cmds[c].deadline)
      <3> HIDE DEF new
      <3> QED BY <2>3 DEF Types, Rooms, Lists, Confirms
    <2>5. f \in [Command -> Records]
      BY <2>4
    <2> HIDE DEF f, obs
    <2>6. \A c \in Command : Goes(room.cmds[c], f[c])
      BY <2>4 DEF Goes, Promise!Moves
    <2>7. \/ f = room.cmds
          \/ \E c \in Command : ~IsTerminal(room.cmds, c) /\ \A d \in Command \ {c} : f[d] = room.cmds[d]
      <3>1. CASE \E c \in Command : f[c] # room.cmds[c]
        <4>1. PICK c \in Command : f[c] # room.cmds[c]
          BY <3>1
        <4>2. \A d \in Command \ {c} : f[d] = room.cmds[d]
          BY <2>4, <4>1 DEF One, ActiveCommands, IsActive, ActiveStatus
        <4>3. ~IsTerminal(room.cmds, c)
          BY <2>4, <4>1 DEF IsTerminal, TerminalStatus
        <4> QED BY <4>2, <4>3
      <3>2. CASE \A c \in Command : f[c] = room.cmds[c]
        BY <3>2, <2>5 DEF Types, Rooms, Lists
      <3> QED BY <3>1, <3>2
    <2>8. \A c \in Command : room.cmds[c].status = "none" => f[c].status = "none"
      BY <2>4
    <2>9. \A c \in Command : IsActive(f, c) => IsActive(room.cmds, c)
      BY <2>4 DEF IsActive, ActiveStatus
    <2>10. Changes(e, f)
      BY <2>5, <2>6, <2>7, <2>8, <2>9 DEF Changes
    <2>11. Applied(e, [accepted |-> TRUE, cmds |-> Selected(f), obs |-> obs])
      BY <2>2, <2>10, SelectedApplied
    <2> QED BY <2>1, <2>11 DEF p
  <1> QED BY <1>1, <1>2

\* Whatever the event, what it does to the commands is Applied.
LEMMA EventApplied ==
  ASSUME Types, One(room.cmds), NEW e \in Inputs, IsEvent(e)
  PROVE  Applied(e, Prepared(e))
  <1> DEFINE old == room.cmds[e.cmd]
  <1>1. e.kind # "report" => e.cmd \in Command /\ old \in Records
    BY DEF Inputs, Types, Rooms, Lists
  <1>2. e.at \in Nat /\ e.power \in Power /\ e.kind \in InputKinds
    BY DEF Inputs, InputKinds
  <1>3. Applied(e, Ignored)
    BY IgnoredApplied
  <1>4. CASE e.kind \in {"requested", "rejected"}
    <2> DEFINE accepted == [NoRecord EXCEPT !.status = "accepted", !.power = e.power, !.requestedAt = e.at]
               ended == Ended(NoRecord, "failed", e.at)
               failed == [ended EXCEPT !.power = e.power, !.requestedAt = e.at]
    <2>1. accepted \in Records /\ accepted.status = "accepted"
      BY <1>2, NoRecordType DEF Records, Status
    <2>2. ended \in Records /\ ended.status = "failed"
      BY <1>2, NoRecordType, EndedType DEF TerminalStatus
    <2> HIDE DEF ended
    <2>3. failed \in Records /\ failed.status = "failed"
      BY <1>2, <2>2 DEF Records
    <2> HIDE DEF accepted, failed
    <2>4. old.status = "none" => Goes(old, accepted) /\ Goes(old, failed)
      BY <2>1, <2>3 DEF Goes, Promise!Moves
    <2>5. CASE e.kind = "requested" /\ ActiveCommands(room.cmds) = {} /\ old.status = "none"
      <3>1. Applied(e, Changed(e.cmd, accepted))
        BY <1>1, <2>1, <2>4, <2>5, ChangedApplied
      <3> QED BY <2>5, <3>1 DEF Apply, Prepared, IsDuplicate, HasStableId, accepted
    <2>6. CASE e.kind = "rejected" /\ old.status = "none"
      <3>1. Applied(e, Changed(e.cmd, failed))
        BY <1>1, <2>3, <2>4, <2>6, ChangedApplied DEF ActiveStatus
      <3> QED BY <2>6, <3>1 DEF Apply, Prepared, IsDuplicate, HasStableId, failed, ended
    <2>7. CASE Apply(e) = Ignored
      BY <2>7, <1>3 DEF Prepared
    <2> QED BY <1>4, <2>5, <2>6, <2>7 DEF Apply
  <1>5. CASE e.kind = "dispatched"
    <2>1. Apply(e) = ApplyDispatched(e)
      BY <1>5 DEF Apply
    <2> QED BY <1>3, <1>5, <2>1, DispatchedApplied DEF Prepared
  <1>6. CASE e.kind = "report"
    <2>1. Apply(e) = ApplyReport(e)
      BY <1>6 DEF Apply
    <2> QED BY <1>3, <1>6, <2>1, ReportApplied DEF Prepared
  <1>7. CASE e.kind = "uncertain"
    <2> DEFINE new == Pending(old, "uncertain", e.at)
    <2>1. new \in Records /\ new.status = "pending"
      BY <1>1, <1>2, <1>7, PendingType
    <2> HIDE DEF new
    <2>2. old.status = "accepted" => Applied(e, Changed(e.cmd, new))
      BY <1>1, <1>7, <2>1, ChangedApplied DEF Goes, Promise!Moves, ActiveStatus
    <2>3. Apply(e) = IF old.status = "accepted" /\ e.at >= old.requestedAt
                     THEN Changed(e.cmd, new) ELSE Ignored
      BY <1>7 DEF Apply, new
    <2> QED BY <1>3, <2>2, <2>3 DEF Prepared
  <1>8. CASE e.kind \in {"failed", "rejection", "timed_out"}
    <2> DEFINE failed == Ended(old, "failed", e.at)
               late == Ended(old, "timed_out", e.at)
    <2>1. /\ failed \in Records /\ failed.status = "failed" /\ failed.deadline = old.deadline
          /\ late \in Records /\ late.status = "timed_out" /\ late.deadline = old.deadline
      BY <1>1, <1>2, <1>8, EndedType DEF TerminalStatus
    <2>2. /\ IsActive(room.cmds, e.cmd) => old.status \in {"accepted", "pending"}
          /\ e.kind \in {"failed", "rejection"} =>
               Apply(e) = IF IsActive(room.cmds, e.cmd) /\ InOrder(old, e.at)
                          THEN Changed(e.cmd, failed) ELSE Ignored
          /\ e.kind = "timed_out" =>
               Apply(e) = IF old.status = "pending" /\ e.at >= old.deadline
                          THEN Changed(e.cmd, late) ELSE Ignored
      BY <1>8 DEF Apply, IsActive, ActiveStatus
    <2> HIDE DEF failed, late
    <2>3. old.status \in {"accepted", "pending"} => Applied(e, Changed(e.cmd, failed))
      BY <1>1, <1>8, <2>1, ChangedApplied DEF Goes, Promise!Moves, ActiveStatus
    <2>4. old.status = "pending" => Applied(e, Changed(e.cmd, late))
      BY <1>1, <1>8, <2>1, ChangedApplied DEF Goes, Promise!Moves, ActiveStatus
    <2> QED BY <1>3, <1>8, <2>2, <2>3, <2>4 DEF Prepared
  <1> QED BY <1>2, <1>4, <1>5, <1>6, <1>7, <1>8 DEF InputKinds, IsEvent

-----------------------------------------------------------------------------
(* The event processor *)

\* What an event makes of the commands, stamps included.
Moved(e, cmds) ==
  /\ cmds \in Lists
  /\ \A c \in Command : cmds[c].status = "none" \/ Goes(room.cmds[c], cmds[c])
  /\ OneMove(e, cmds)
  /\ \A c \in Command : room.cmds[c].status = "none" /\ cmds[c].status # "none" =>
       e.kind \in {"requested", "rejected"} /\ c = e.cmd
  /\ \A c \in Command : IsActive(cmds, c) /\ ~IsActive(room.cmds, c) =>
       e.kind = "requested" /\ ActiveCommands(room.cmds) = {} /\ c = e.cmd

\* No change is a move.
LEMMA SameMoved ==
  ASSUME Types, NEW e
  PROVE  Moved(e, room.cmds)
  BY RecordTypes DEF Moved, Goes, OneMove

\* The durability stamps leave status and deadline alone.
LEMMA StampedMoved ==
  ASSUME Types, NEW e, NEW p, Applied(e, p), NEW durability \in Durability, NEW promoted
  PROVE  LET stamped == Stamped(p.cmds, durability, promoted)
         IN  /\ Moved(e, stamped)
             /\ \A c \in Command : c \notin promoted =>
                  stamped[c] \in {room.cmds[c], NoRecord} \/ stamped[c].lifecycle = durability
  <1> DEFINE stamped == Stamped(p.cmds, durability, promoted)
  <1>0. p.cmds \in Lists /\ p.cmds \in [Command -> Records]
    BY DEF Applied, Results, Lists
  <1>1. ASSUME NEW c \in Command
        PROVE  /\ stamped[c] \in Records
               /\ stamped[c].status = p.cmds[c].status
               /\ stamped[c].deadline = p.cmds[c].deadline
               /\ stamped[c].ended = p.cmds[c].ended
               /\ c \notin promoted => stamped[c] \in {room.cmds[c], NoRecord} \/ stamped[c].lifecycle = durability
    <2>1. p.cmds[c] \in Records
      BY <1>0
    <2>2. stamped[c] =
            IF p.cmds[c] \notin {room.cmds[c], NoRecord}
            THEN [p.cmds[c] EXCEPT !.admitted = IF room.cmds[c].status = "none" THEN durability ELSE @,
                                   !.lifecycle = durability]
            ELSE IF c \in promoted THEN [p.cmds[c] EXCEPT !.lifecycle = "durable"] ELSE p.cmds[c]
      BY DEF Stamped
    <2> HIDE DEF stamped
    <2> QED BY <2>1, <2>2 DEF Records, Durability
  <1>2. stamped \in [Command -> Records]
    <2>1. stamped = [c \in Command |-> stamped[c]]
      BY DEF Stamped
    <2> HIDE DEF stamped
    <2> QED BY <1>1, <2>1
  <1> HIDE DEF stamped
  <1>3. stamped \in Lists
    <2>1. \A c \in Command : IsTerminal(stamped, c) =>
            IsTerminal(p.cmds, c) /\ stamped[c].ended = p.cmds[c].ended /\ ~Surplus(p.cmds, c)
      BY <1>0, <1>1 DEF IsTerminal, Lists
    <2> QED BY <1>0, <1>2, <2>1, ListStays
  <1>4. \A c \in Command : stamped[c].status = "none" \/ Goes(room.cmds[c], stamped[c])
    BY <1>1 DEF Applied, Goes, NoRecord
  <1>5. OneMove(e, stamped)
    <2>1. Statuses(stamped) = Statuses(p.cmds)
      BY <1>1 DEF Statuses
    <2> QED BY <2>1 DEF Applied, OneMove
  <1>6. \A c \in Command : IsActive(stamped, c) <=> IsActive(p.cmds, c)
    BY <1>1 DEF IsActive
  <1>7. \A c \in Command : IsActive(stamped, c) /\ ~IsActive(room.cmds, c) =>
          e.kind = "requested" /\ ActiveCommands(room.cmds) = {} /\ c = e.cmd
    <2> SUFFICES ASSUME NEW c \in Command, IsActive(stamped, c), ~IsActive(room.cmds, c)
                 PROVE  e.kind = "requested" /\ ActiveCommands(room.cmds) = {} /\ c = e.cmd
      OBVIOUS
    <2>1. e.kind = "requested" /\ ActiveCommands(room.cmds) = {}
      BY <1>6 DEF Applied
    <2>2. p.cmds[c] # NoRecord /\ p.cmds[c].status # "none"
      BY <1>6 DEF IsActive, ActiveStatus, NoRecord
    <2>3. room.cmds[c].status = "none"
      BY <1>6, <2>2 DEF Applied, Goes, Promise!Moves, IsActive, ActiveStatus
    <2> QED BY <2>1, <2>2, <2>3 DEF Applied
  <1>8. \A c \in Command : room.cmds[c].status = "none" /\ stamped[c].status # "none" =>
          e.kind \in {"requested", "rejected"} /\ c = e.cmd
    BY <1>1 DEF Applied
  <1>9. Moved(e, stamped)
    BY <1>3, <1>4, <1>5, <1>7, <1>8 DEF Moved
  <1> QED BY <1>1, <1>9 DEF stamped

\* An event moves the room; what it leaves alone stays.
LEMMA OneMoves ==
  ASSUME Types, One(room.cmds), NEW e, NEW cmds, Moved(e, cmds)
  PROVE  One(cmds)
  BY DEF One, Moved, ActiveCommands

\* Identities are those of commands.
LEMMA IdentityType ==
  ASSUME NEW e \in Inputs
  PROVE  Identity(e) \in SUBSET Command
  BY DEF Identity, HasStableId, Inputs

\* The room after an event that stays in memory: what changed is marked volatile.
LEMMA VolatileMoved ==
  ASSUME Types, NEW e \in Inputs, NEW p, Applied(e, p)
  PROVE  LET after == RoomAfterVolatile(e, p)
         IN  /\ after \in Rooms /\ Moved(e, after.cmds) /\ after.startupFailures = room.startupFailures
             /\ \A c \in Command : after.cmds[c] \in {room.cmds[c], NoRecord} \/ after.cmds[c].lifecycle = "volatile"
  <1> DEFINE after == RoomAfterVolatile(e, p)
             cmds == Stamped(p.cmds, "volatile", {})
  <1>1. Moved(e, cmds) /\ \A c \in Command : cmds[c] \in {room.cmds[c], NoRecord} \/ cmds[c].lifecycle = "volatile"
    <2>1. "volatile" \in Durability
      BY DEF Durability
    <2>2. Moved(e, cmds) /\ \A c \in Command : c \notin {} => cmds[c] \in {room.cmds[c], NoRecord} \/ cmds[c].lifecycle = "volatile"
      BY <2>1, StampedMoved
    <2> HIDE DEF cmds, after
    <2> QED BY <2>2
  <1>2. Identity(e) \in SUBSET Command
    BY IdentityType
  <1>3. CASE p.accepted
    <2>1. after = [room EXCEPT !.cmds = cmds, !.obs = p.obs, !.guards = @ \cup (Identity(e) \ room.known)]
      BY ONLY <1>3 DEF RoomAfterVolatile
    <2> HIDE DEF cmds
    <2>2. cmds \in Lists /\ p.obs \in Observations /\ room \in Rooms
      BY <1>1 DEF Moved, Types, Applied, Results
    <2> HIDE DEF after
    <2>3. after \in Rooms /\ after.cmds = cmds /\ after.startupFailures = room.startupFailures
      BY <1>2, <2>1, <2>2 DEF Rooms
    <2> QED BY <1>1, <2>3 DEF after
  <1>4. CASE ~p.accepted
    <2>1. after = room
      BY <1>4 DEF RoomAfterVolatile
    <2> QED BY <2>1, SameMoved DEF Types
  <1> QED BY <1>3, <1>4

\* The room after an event that is stored.
LEMMA CommitMoved ==
  ASSUME Types, NEW e \in Inputs, NEW p, Applied(e, p)
  PROVE  LET after == RoomAfterCommit(e, p)
         IN  after \in Rooms /\ Moved(e, after.cmds)
  <1> DEFINE after == RoomAfterCommit(e, p)
             cmds == Stamped(p.cmds, "durable", Reconciled(e))
  <1>1. Moved(e, cmds)
    BY StampedMoved DEF Durability
  <1>2. Identity(e) \in SUBSET Command
    BY IdentityType
  <1> HIDE DEF cmds
  <1>3. CASE p.accepted
    <2>1. after = [room EXCEPT !.cmds = cmds, !.obs = p.obs, !.known = @ \cup Identity(e),
                               !.guards = @ \ Identity(e)]
      BY <1>3 DEF RoomAfterCommit, cmds
    <2>2. cmds \in Lists /\ p.obs \in Observations /\ room \in Rooms
      BY <1>1 DEF Moved, Types, Applied, Results
    <2> HIDE DEF after
    <2>3. after \in Rooms /\ after.cmds = cmds
      BY <1>2, <2>1, <2>2 DEF Rooms
    <2> QED BY <1>1, <2>3 DEF after
  <1>4. CASE ~p.accepted
    <2>1. after = room
      BY <1>4 DEF RoomAfterCommit
    <2> QED BY <2>1, SameMoved DEF Types
  <1> QED BY <1>3, <1>4

OutboxStates == {"none", "ready", "uncertain", "delivered", "closed"}

\* An event opens at most the intent of its own command, and removes none.
LEMMA OutboxType ==
  ASSUME Types, NEW e \in Inputs, NEW p
  PROVE  /\ OutboxAfter(e, p) \in [Command -> OutboxStates]
         /\ \A c \in Command : OutboxAfter(e, p)[c] # "none" => disk.outbox[c] # "none" \/ c = e.cmd
         /\ \A c \in Command : disk.outbox[c] # "none" => OutboxAfter(e, p)[c] # "none"
  <1>1. disk.outbox \in [Command -> OutboxStates]
    BY DEF Types, Disks, OutboxStates
  <1>2. e.kind # "report" => e.cmd \in Command
    BY DEF Inputs
  <1>3. ASSUME NEW state \in OutboxStates \ {"none"}, e.cmd \in Command
        PROVE  LET new == [disk.outbox EXCEPT ![e.cmd] = state]
               IN  /\ new \in [Command -> OutboxStates]
                   /\ \A c \in Command : new[c] # "none" => disk.outbox[c] # "none" \/ c = e.cmd
                   /\ \A c \in Command : disk.outbox[c] # "none" => new[c] # "none"
    BY <1>1, <1>3
  <1>4. ASSUME NEW C
        PROVE  LET new == Closed(disk.outbox, C)
               IN  /\ new \in [Command -> OutboxStates]
                   /\ \A c \in Command : new[c] # "none" => disk.outbox[c] # "none"
                   /\ \A c \in Command : disk.outbox[c] # "none" => new[c] # "none"
    BY <1>1 DEF Closed, OutboxStates
  <1> QED BY <1>2, <1>3, <1>4 DEF OutboxAfter, OutboxStates

\* More intents by one stay finitely many.
LEMMA IntentsFinite ==
  ASSUME Types, NEW d \in Disks, NEW e,
         \A c \in Command : d.outbox[c] # "none" => disk.outbox[c] # "none" \/ c = e
  PROVE  IsFiniteSet(Intents(d))
  <1>1. Intents(d) \in SUBSET (Intents(disk) \cup {e})
    BY DEF Intents
  <1>2. IsFiniteSet(Intents(disk) \cup {e})
    BY FS_AddElement DEF Types
  <1> QED BY <1>1, <1>2, FS_Subset

\* The database after an event that is stored: it holds the commands of the room.
LEMMA DiskCommit ==
  ASSUME Types, NEW e \in Inputs, NEW p, Applied(e, p)
  PROVE  LET d == DiskAfterCommit(e, p)
             after == RoomAfterCommit(e, p)
         IN  /\ d \in Disks /\ IsFiniteSet(Intents(d)) /\ d.receipts = disk.receipts
             /\ p.accepted => d.cmds = after.cmds /\ d.obs = after.obs
             /\ ~p.accepted => d = disk /\ after = room
  <1> DEFINE d == DiskAfterCommit(e, p)
             after == RoomAfterCommit(e, p)
             outbox == OutboxAfter(e, p)
  <1>1. after \in Rooms /\ disk \in Disks /\ Identity(e) \in SUBSET Command
    BY CommitMoved, IdentityType DEF Types
  <1>2. /\ outbox \in [Command -> OutboxStates]
        /\ \A c \in Command : outbox[c] # "none" => disk.outbox[c] # "none" \/ c = e.cmd
    BY OutboxType
  <1> HIDE DEF after, outbox
  <1>3. CASE p.accepted
    <2>1. d = [disk EXCEPT !.cmds = after.cmds, !.obs = after.obs, !.guards = after.guards,
                           !.known = @ \cup Identity(e), !.outbox = outbox]
      BY <1>3 DEF DiskAfterCommit, after, outbox
    <2> HIDE DEF d
    <2>2. d \in Disks /\ d.cmds = after.cmds /\ d.obs = after.obs /\ d.receipts = disk.receipts
          /\ d.outbox = outbox
      BY <1>1, <1>2, <2>1 DEF Disks, Rooms, OutboxStates
    <2>3. IsFiniteSet(Intents(d))
      BY <1>2, <2>2, IntentsFinite
    <2> QED BY <1>3, <2>2, <2>3 DEF d, after
  <1>4. CASE ~p.accepted
    BY <1>4 DEF DiskAfterCommit, RoomAfterCommit, Types, after
  <1> QED BY <1>3, <1>4

-----------------------------------------------------------------------------
(* Inputs and the command controller *)

\* What asks for a command, and everything else.
RequestKinds == {"requested", "rejected"}
Plain == {e \in Inputs : e.kind \notin RequestKinds}

\* What is about a command.
Own == {e \in Plain : e.cmd \in Command}

\* A sequence over a part of a set.
LEMMA SeqOfPart ==
  ASSUME NEW S, NEW T, S \subseteq T, NEW s \in Seq(S)
  PROVE  s \in Seq(T)
  OBVIOUS

\* Sequences are closed under what is done to the FIFO.
LEMMA SeqOps ==
  ASSUME NEW S, NEW s \in Seq(S), NEW t \in Seq(S), NEW e \in S
  PROVE  /\ s \o t \in Seq(S) /\ Append(s, e) \in Seq(S) /\ <<e>> \in Seq(S) /\ <<>> \in Seq(S)
         /\ s # <<>> => Head(s) \in S /\ Tail(s) \in Seq(S)
  OBVIOUS

\* An input of another kind than a request.
LEMMA PlainType ==
  ASSUME NEW kind \in InputKinds \ RequestKinds, NEW c \in Command, NEW power \in Power, NEW at \in Nat,
         NEW durable \in BOOLEAN
  PROVE  Input(kind, c, power, at, durable) \in Plain /\ Input(kind, c, power, at, durable) \in Own
  BY DEF Input, Plain, Own, Inputs, InputKinds, RequestKinds

\* The timeout of a command.
LEMMA TimedOutPlain ==
  ASSUME NEW c \in Command, NEW deadline \in Nat
  PROVE  TimedOut(c, deadline) \in Plain /\ TimedOut(c, deadline) \in Own
  BY PlainType, NoRecordType DEF TimedOut, InputKinds, RequestKinds

\* No more than one element.
LEMMA FewFinite ==
  ASSUME NEW S, \A a, b \in S : a = b
  PROVE  IsFiniteSet(S)
  <1>1. CASE S = {}
    BY <1>1, FS_EmptySet
  <1>2. CASE S # {}
    <2>1. PICK x : S = {x}
      BY <1>2
    <2> QED BY <2>1, FS_Singleton
  <1> QED BY <1>1, <1>2

\* The timeouts of the one active command, if it is overdue.
LEMMA TimeoutInputsPlain ==
  ASSUME NEW cmds \in [Command -> Records], NEW C \in SUBSET Command, \A c, d \in C : c = d
  PROVE  TimeoutInputs(cmds, C) \in Seq(Plain) /\ TimeoutInputs(cmds, C) \in Seq(Own)
  <1> DEFINE S == {TimedOut(c, cmds[c].deadline) : c \in C}
  <1>1. ASSUME NEW c \in C PROVE TimedOut(c, cmds[c].deadline) \in Own
    BY TimedOutPlain DEF Records
  <1>2. IsFiniteSet(S)
    <2>1. \A a, b \in S : a = b
      OBVIOUS
    <2> QED BY <2>1, FewFinite
  <1>3. S \subseteq Own /\ Own \subseteq Plain
    BY <1>1 DEF Own
  <1> HIDE DEF S
  <1>4. SetToSeq(S) \in Seq(S)
    BY <1>2, SetToSeqType
  <1>5. SetToSeq(S) \in Seq(Own) /\ SetToSeq(S) \in Seq(Plain)
    BY <1>3, <1>4, SeqOfPart
  <1> QED BY <1>5 DEF TimeoutInputs, S

\* Scheduling timeouts changes the timers only.
LEMMA ScheduleType ==
  ASSUME NEW ctl \in Controls, NEW cmds \in [Command -> Records], NEW C
  PROVE  LET new == ScheduleTimeouts(ctl, cmds, C)
         IN  new \in Controls /\ new.work = ctl.work /\ new.retryAt = ctl.retryAt
  <1> DEFINE timeoutAt == [c \in Command |->
                             IF /\ c \in C /\ cmds[c].status = "pending"
                                /\ ctl.timeoutAt[c] = NoTime /\ cmds[c].deadline > now
                             THEN cmds[c].deadline ELSE ctl.timeoutAt[c]]
  <1>1. timeoutAt \in [Command -> Nat]
    BY DEF Controls, Records
  <1>2. ScheduleTimeouts(ctl, cmds, C) = [ctl EXCEPT !.timeoutAt = timeoutAt]
    BY DEF ScheduleTimeouts
  <1> HIDE DEF timeoutAt
  <1> QED BY <1>1, <1>2 DEF Controls

\* Completed commands lose their timers and work.
LEMMA ClearType ==
  ASSUME NEW ctl \in Controls, NEW cmds, NEW C
  PROVE  ClearCompleted(ctl, cmds, C) \in Controls
  BY DEF ClearCompleted, Controls, NoTime

\* The controller after an event; no request is queued behind another input.
LEMMA AfterProcessingType ==
  ASSUME Types, NEW e \in Inputs, NEW accepted, NEW after \in Rooms, One(after.cmds),
         NEW rest \in Seq(Plain), AfterProcessing(e, accepted, after, rest)
  PROVE  /\ control' \in Controls /\ inputs' \in Seq(Plain) /\ attempts' \in Seq(Command)
         /\ rest \in Seq(Own) => inputs' \in Seq(Own)
  <1> DEFINE subject == IF IsLifecycle(e) THEN {e.cmd} ELSE {}
             cleared == ClearCompleted(control, after.cmds, subject \cup ActiveCommands(room.cmds))
             late == {c \in Expired(after.cmds, subject) : cleared.timeoutAt[c] = NoTime}
             admitted == e.kind = "requested" /\ accepted
             scheduled == ScheduleTimeouts(cleared, after.cmds, subject)
  <1>1. CASE accepted
    <2>1. subject \in SUBSET Command /\ (admitted => e.cmd \in Command)
      BY DEF Inputs, IsLifecycle
    <2>2. scheduled \in Controls
      BY ClearType, ScheduleType DEF Types, Rooms, Lists
    <2>3. late \in SUBSET Command /\ \A c, d \in late : c = d
      BY <2>1 DEF Expired, One, ActiveCommands, IsActive, ActiveStatus
    <2> HIDE DEF late
    <2>4. TimeoutInputs(after.cmds, late) \in Seq(Plain) /\ TimeoutInputs(after.cmds, late) \in Seq(Own)
      BY <2>3, TimeoutInputsPlain DEF Rooms, Lists
    <2> HIDE DEF scheduled
    <2>5. /\ control' = [scheduled EXCEPT !.work = IF admitted
                            THEN [@ EXCEPT ![e.cmd] = after.cmds[e.cmd].admitted] ELSE @]
          /\ inputs' = rest \o TimeoutInputs(after.cmds, late)
          /\ attempts' = IF admitted THEN Append(attempts, e.cmd) ELSE attempts
      BY <1>1 DEF AfterProcessing, late, scheduled
    <2>6. control' \in Controls
      <3>1. admitted => after.cmds[e.cmd].admitted \in Durability
        BY <2>1 DEF Rooms, Lists, Records
      <3> QED BY <2>2, <2>5, <3>1 DEF Controls
    <2>7. inputs' \in Seq(Plain) /\ (rest \in Seq(Own) => inputs' \in Seq(Own))
      BY <2>4, <2>5
    <2>8. attempts' \in Seq(Command)
      BY <2>1, <2>5 DEF Types
    <2> QED BY <2>6, <2>7, <2>8
  <1>2. CASE ~accepted
    BY <1>2 DEF AfterProcessing, Types
  <1> QED BY <1>1, <1>2

-----------------------------------------------------------------------------
(* The invariant *)

\* The record in memory, when there is one, is where the stored one is, or further.
Follows(record, stored) ==
  record.status # "none" =>
    /\ stored.status = record.status \/ Promise!Rank(stored.status) < Promise!Rank(record.status)
    /\ stored.status = "pending" => record.deadline = stored.deadline

\* A fresh command has no record.
LEMMA FreshHasNoRecord ==
  ASSUME NEW c, Fresh(c)
  PROVE  room.cmds[c].status = "none" /\ disk.cmds[c].status = "none"
  BY DEF Fresh, NoRecord

\* A request is processed before anything else happens; it was not made in the future.
RequestsAreFresh ==
  inputs \in Seq(Plain) \/
  \E e \in Inputs : e.kind \in RequestKinds /\ inputs = <<e>> /\ Fresh(e.cmd) /\ e.at <= now

\* With storage available, what is stored is what is shown.
Synced ==
  Running /\ Available => disk.cmds = room.cmds /\ disk.obs = room.obs

\* What is marked durable is stored as it is shown.
DurableIsStored ==
  \A c \in Command : room.cmds[c].status # "none" /\ room.cmds[c].lifecycle = "durable" =>
    disk.cmds[c] = room.cmds[c]

\* A command that memory holds is where what is stored of it is, or further.
MemoryFollows == \A c \in Command : Follows(room.cmds[c], disk.cmds[c])

\* A process that is down shows nothing of its own.
DownIsEmpty == ~Running => \A c \in Command : room.cmds[c].status = "none"

\* How memory and the stored checkpoint agree.
Agreement ==
  /\ One(room.cmds) /\ One(disk.cmds)
  /\ Synced /\ DurableIsStored /\ MemoryFollows /\ DownIsEmpty

\* While the lost commands are closed, the inputs are about commands.
ClosingIsOwn == boot = "closing" => inputs \in Seq(Own)

\* The inductive invariant.
IInv == Types /\ Agreement /\ RequestsAreFresh /\ ClosingIsOwn

\* The deadline of a pending command does not move, and only a new command becomes active.
KeepsCommands ==
  \A c \in Command :
    /\ room.cmds[c].status = "pending" /\ room'.cmds[c].status # "none" =>
         room'.cmds[c].deadline = room.cmds[c].deadline
    /\ disk.cmds[c].status = "pending" /\ disk'.cmds[c].status # "none" =>
         disk'.cmds[c].deadline = disk.cmds[c].deadline
    /\ IsActive(room'.cmds, c) \/ IsActive(disk'.cmds, c) =>
         IsActive(room.cmds, c) \/ IsActive(disk.cmds, c) \/ Fresh(c)

\* What a step does to the commands, in memory and stored.
Agrees == Agreement' /\ [Promise!Next]_Promise!vars /\ KeepsCommands

-----------------------------------------------------------------------------
(* What steps do to the commands *)

\* Nothing; the storage may be lost.
CommandsStay ==
  /\ process' = process
  /\ storage' # "available" \/ storage' = storage
  /\ room'.cmds = room.cmds /\ room'.obs = room.obs
  /\ disk'.cmds = disk.cmds /\ disk'.obs = disk.obs

\* A step that leaves the commands alone maps to a stutter.
LEMMA CommandsStayAgrees ==
  ASSUME Types, Agreement, CommandsStay
  PROVE  Agrees
  <1>1. Agreement'
    BY DEF Agreement, CommandsStay, One, ActiveCommands, IsActive, Synced, Running, Available, DurableIsStored,
           MemoryFollows, DownIsEmpty
  <1>2. UNCHANGED Promise!vars
    BY DEF Promise!vars, CommandsStay, Running, Shown, Stored
  <1> QED BY <1>1, <1>2 DEF Agrees, CommandsStay, KeepsCommands, IsActive

\* The process ends with the stored commands as they were.
LEMMA HaltAgrees ==
  ASSUME Types, Agreement, Running, NEW cause, cause # "running", NEW d, Halt(cause, d),
         d.cmds = disk.cmds
  PROVE  Agrees
  <1>1. process' = cause /\ ~Running' /\ disk' = d /\ room' = EmptyRoom /\ disk'.cmds = disk.cmds
    BY DEF Halt, Running
  <1>2. \A c \in Command : room'.cmds[c] = NoRecord /\ NoRecord.status = "none"
    BY <1>1 DEF EmptyRoom, NoRecord
  <1>3. Agreement'
    BY <1>1, <1>2 DEF Agreement, One, ActiveCommands, IsActive, ActiveStatus, Synced, DurableIsStored,
           MemoryFollows, Follows, DownIsEmpty
  <1>4. Promise!Stop
    BY <1>1 DEF Promise!Stop, Running, Shown, Stored
  <1>5. KeepsCommands
    BY <1>1, <1>2 DEF KeepsCommands, IsActive, ActiveStatus
  <1> QED BY <1>3, <1>4, <1>5 DEF Agrees, Promise!Next

\* The moves of the lifecycle go forward.
LEMMA Forward ==
  ASSUME NEW old \in Records, NEW new \in Records, Goes(old, new)
  PROVE  /\ old.status = new.status \/ (Promise!Rank(old.status) < Promise!Rank(new.status)
                                         /\ new.status # "none" /\ new.status \in Promise!Status)
         /\ Promise!Rank(old.status) \in 0..3 /\ Promise!Rank(new.status) \in 0..3
         /\ new.status = "none" => old.status = "none"
         /\ Promise!Rank(old.status) < Promise!Rank(new.status) => new.status # "none"
  BY DEF Goes, Promise!Moves, Promise!Rank, Promise!Status, Records, Status

\* An event that changes what is shown moves one command.
LEMMA MovedMoves ==
  ASSUME Types, Running, NEW e, e.kind \in RequestKinds => Fresh(e.cmd), NEW cmds, Moved(e, cmds),
         NEW next, next = Statuses(cmds), next # Shown
  PROVE  \E c \in Command, t \in Promise!Status :
           Promise!MayMove(c, t) /\ Promise!Remembers([Shown EXCEPT ![c] = t], next)
  <1>1. Shown = Statuses(room.cmds)
    BY DEF Shown, Statuses
  <1>2. PICK c \in Command, t \in Promise!Status :
          /\ <<room.cmds[c].status, t>> \in Promise!Moves
          /\ room.cmds[c].status = "none" => e.kind \in RequestKinds /\ c = e.cmd
          /\ Promise!Remembers([Statuses(room.cmds) EXCEPT ![c] = t], Statuses(cmds))
    BY <1>1 DEF Moved, OneMove, RequestKinds
  <1>3. room.cmds[c].status = "none" => disk.cmds[c].status = "none"
    BY <1>2, FreshHasNoRecord
  <1>4. Promise!MayMove(c, t)
    BY <1>2, <1>3 DEF Promise!MayMove, Stored, Shown
  <1> QED BY <1>1, <1>2, <1>4

\* An event that stays in memory.
LEMMA VolatileEventAgrees ==
  ASSUME Types, Agreement, Running, NEW e, e.kind \in RequestKinds => Fresh(e.cmd),
         NEW cmds, Moved(e, cmds), \A c \in Command : cmds[c] \in {room.cmds[c], NoRecord} \/ cmds[c].lifecycle = "volatile",
         room'.cmds = cmds, disk' = disk, process' = process, storage' # "available"
  PROVE  Agrees
  <1>1. One(room'.cmds)
    BY OneMoves DEF Agreement
  <1>2. DurableIsStored'
    BY DEF Agreement, DurableIsStored, NoRecord
  <1>3. ASSUME NEW c \in Command, cmds[c].status # "none" PROVE Follows(cmds[c], disk.cmds[c])
    <2>1. /\ room.cmds[c] \in Records /\ cmds[c] \in Records /\ disk.cmds[c] \in Records
          /\ Goes(room.cmds[c], cmds[c])
      BY <1>3, RecordTypes DEF Moved, Lists
    <2>2. Follows(room.cmds[c], disk.cmds[c])
      BY DEF Agreement, MemoryFollows
    <2>3. CASE room.cmds[c].status = "none"
      <3>1. cmds[c].status # "none" => disk.cmds[c].status = "none"
        BY <2>3, FreshHasNoRecord DEF Moved, RequestKinds
      <3> QED BY <2>1, <2>3, <3>1, Forward DEF Follows
    <2>4. CASE room.cmds[c].status # "none"
      <3>1. Promise!Rank(disk.cmds[c].status) \in 0..3
        BY <2>1 DEF Promise!Rank
      <3>2. /\ disk.cmds[c].status = cmds[c].status
               \/ Promise!Rank(disk.cmds[c].status) < Promise!Rank(cmds[c].status)
        BY <2>1, <2>2, <2>4, <3>1, Forward DEF Follows
      <3>3. disk.cmds[c].status = "pending" => room.cmds[c].status \notin {"none", "accepted"}
        BY <2>2, <2>4 DEF Follows, Promise!Rank
      <3>4. disk.cmds[c].status = "pending" => cmds[c].deadline = disk.cmds[c].deadline
        BY <2>1, <2>2, <2>4, <3>3 DEF Follows, Goes
      <3> QED BY <3>2, <3>4 DEF Follows
    <2> QED BY <2>3, <2>4
  <1>4. Agreement'
    <2>1. \A c \in Command : Follows(cmds[c], disk.cmds[c])
      BY <1>3 DEF Follows
    <2> QED BY <1>1, <1>2, <2>1 DEF Agreement, Synced, Available, MemoryFollows, DownIsEmpty, Running
  <1>5. Running' /\ Shown' = Statuses(cmds) /\ Stored' = Stored
    BY DEF Running, Shown, Stored, Statuses
  <1>6. [Promise!Next]_Promise!vars
    <2>1. CASE Shown' = Shown
      BY <1>5, <2>1 DEF Promise!vars, Running
    <2>2. CASE Shown' # Shown
      <3>1. PICK c \in Command, t \in Promise!Status :
               Promise!MayMove(c, t) /\ Promise!Remembers([Shown EXCEPT ![c] = t], Shown')
        BY <1>5, <2>2, MovedMoves
      <3>2. Promise!Advance(c, t)
        BY <1>5, <3>1 DEF Promise!Advance, Running
      <3> QED BY <3>2 DEF Promise!Next
    <2> QED BY <2>1, <2>2
  <1>7. KeepsCommands
    <2>1. \A c \in Command : IsActive(cmds, c) => IsActive(room.cmds, c) \/ Fresh(c)
      BY DEF Moved, RequestKinds
    <2> QED BY <2>1 DEF KeepsCommands, Moved, Goes, IsActive
  <1> QED BY <1>4, <1>6, <1>7 DEF Agrees

\* An event that is stored.
LEMMA CommittedEventAgrees ==
  ASSUME Types, Agreement, Running, Available, NEW e, e.kind \in RequestKinds => Fresh(e.cmd),
         NEW cmds, Moved(e, cmds),
         disk'.cmds = cmds,
         \/ /\ process' = process /\ storage' = storage
            /\ room'.cmds = cmds /\ room'.obs = disk'.obs
         \/ process' # "running" /\ room' = EmptyRoom
  PROVE  Agrees
  <1>1. disk.cmds = room.cmds
    BY DEF Agreement, Synced
  <1>2. One(cmds)
    BY OneMoves DEF Agreement
  <1>3. \A c \in Command : EmptyRoom.cmds[c] = NoRecord /\ NoRecord.status = "none"
    BY DEF EmptyRoom, NoRecord
  <1>4. Agreement'
    <2>1. CASE process' = process /\ storage' = storage /\ room'.cmds = cmds /\ room'.obs = disk'.obs
      BY <1>2, <2>1 DEF Agreement, Synced, DurableIsStored, MemoryFollows, Follows, DownIsEmpty, Running
    <2>2. CASE process' # "running" /\ room' = EmptyRoom
      BY <1>2, <1>3, <2>2 DEF Agreement, Synced, Running, DurableIsStored, MemoryFollows, Follows, DownIsEmpty,
             One, ActiveCommands, IsActive, ActiveStatus
    <2> QED BY <2>1, <2>2
  <1>5. KeepsCommands
    <2>1. \A c \in Command : room.cmds[c].status = "pending" /\ cmds[c].status # "none" =>
            cmds[c].deadline = room.cmds[c].deadline
      BY DEF Moved, Goes
    <2>2. \A c \in Command : IsActive(cmds, c) => IsActive(room.cmds, c) \/ Fresh(c)
      BY DEF Moved, RequestKinds
    <2> QED BY <1>1, <1>3, <2>1, <2>2 DEF KeepsCommands, IsActive, ActiveStatus
  <1>6. Shown = Stored /\ Shown = [c \in Command |-> room.cmds[c].status]
    BY <1>1 DEF Shown, Stored
  <1>7. Shown' = Statuses(cmds) /\ Stored' = Shown'
    BY DEF Shown, Stored, Running, Statuses
  <1>8. ASSUME Shown' # Shown
        PROVE  \E c \in Command, t \in Promise!Status :
                 Promise!MayMove(c, t) /\ Promise!Remembers([Shown EXCEPT ![c] = t], Shown')
    BY <1>7, <1>8, MovedMoves
  <1>9. [Promise!Next]_Promise!vars
    <2>1. CASE process' = process
      <3>1. Running' = Running
        BY <2>1 DEF Running
      <3>2. CASE Shown' = Shown
        BY <1>6, <1>7, <3>1, <3>2 DEF Promise!vars
      <3>3. CASE Shown' # Shown
        <4>1. PICK c \in Command, t \in Promise!Status :
                 Promise!MayMove(c, t) /\ Promise!Remembers([Shown EXCEPT ![c] = t], Shown')
          BY <1>8, <3>3
        <4>2. Promise!Advance(c, t)
          BY <1>6, <1>7, <3>1, <4>1 DEF Promise!Advance
        <4> QED BY <4>2 DEF Promise!Next
      <3> QED BY <3>2, <3>3
    <2>2. CASE process' # process
      <3>1. Running /\ ~Running' /\ Running' = FALSE
        BY <2>2 DEF Running
      <3>2. CASE Shown' = Shown
        <4>1. Promise!Stop
          BY <1>6, <1>7, <3>1, <3>2 DEF Promise!Stop
        <4> QED BY <4>1 DEF Promise!Next
      <3>3. CASE Shown' # Shown
        <4>1. PICK c \in Command, t \in Promise!Status :
                 Promise!MayMove(c, t) /\ Promise!Remembers([Shown EXCEPT ![c] = t], Shown')
          BY <1>8, <3>3
        <4>2. Promise!AdvanceAndStop(c, t)
          BY <1>6, <1>7, <3>1, <4>1 DEF Promise!AdvanceAndStop
        <4> QED BY <4>2 DEF Promise!Next
      <3> QED BY <3>2, <3>3
    <2> QED BY <2>1, <2>2
  <1> QED BY <1>4, <1>5, <1>9 DEF Agrees

-----------------------------------------------------------------------------
(* Processing one input *)

\* Faults are counted up to their bound.
LEMMA FaultType ==
  ASSUME Types, Fault
  PROVE  faults' \in 0..MaxFaults
  BY CommandDeliveryAssumption DEF Types, Fault

\* What every step keeps besides: the types, and what the inputs may be.
Keeps == Types' /\ RequestsAreFresh' /\ ClosingIsOwn'

\* The empty FIFO.
LEMMA NoInputs == <<>> \in Seq(Own) /\ <<>> \in Seq(Plain) /\ <<>> \in Seq(Inputs) /\ <<>> \in Seq(Command)
  OBVIOUS

\* With no request queued, none is stale.
LEMMA PlainInputs ==
  ASSUME inputs' \in Seq(Plain)
  PROVE  inputs' \in Seq(Inputs) /\ RequestsAreFresh'
  BY SeqOfPart DEF Plain, RequestsAreFresh

\* Inputs about commands are no requests.
LEMMA OwnInputs ==
  ASSUME inputs' \in Seq(Own)
  PROVE  inputs' \in Seq(Plain) /\ ClosingIsOwn'
  BY SeqOfPart DEF Own, ClosingIsOwn

\* A process that ends leaves nothing but the disk.
LEMMA HaltKeeps ==
  ASSUME Types, faults' \in 0..MaxFaults, NEW cause \in {"crashed", "fatal", "uncaught"},
         NEW d \in Disks, IsFiniteSet(Intents(d)), Halt(cause, d)
  PROVE  Keeps
  <1>1. /\ process' = cause /\ disk' = d /\ room' = EmptyRoom /\ control' = EmptyControl
        /\ inputs' = <<>> /\ attempts' = <<>> /\ led' = FreshLed /\ boot' = "closing"
        /\ storage' = "available" /\ now' = now
    BY DEF Halt
  <1>2. inputs' \in Seq(Inputs) /\ RequestsAreFresh' /\ ClosingIsOwn'
    BY <1>1, NoInputs, PlainInputs, OwnInputs
  <1>3. led' \in Leds /\ led'.restoring = {} /\ room' \in Rooms /\ control' \in Controls
    BY <1>1, EmptyTypes
  <1>4. IsFiniteSet(Intents(disk)')
    BY <1>1 DEF Intents
  <1> QED BY <1>1, <1>2, <1>3, <1>4, NoInputs DEF Keeps, Types

\* A process whose transaction had an unknown outcome ends; the disk is one of D.
LEMMA IndeterminateKeeps ==
  ASSUME Types, NEW D, \A d \in D : d \in Disks /\ IsFiniteSet(Intents(d)), Indeterminate(D)
  PROVE  Keeps
  BY FaultType, HaltKeeps DEF Indeterminate

\* The same of the commands, when the transaction does not touch them.
LEMMA IndeterminateAgrees ==
  ASSUME Types, Agreement, Running, NEW D, \A d \in D : d.cmds = disk.cmds, Indeterminate(D)
  PROVE  Agrees
  BY HaltAgrees DEF Indeterminate

\* The event that is processed next, and what waits behind it.
LEMMA CurrentType ==
  ASSUME Types, RequestsAreFresh, ClosingIsOwn, inputs # <<>>, IsEvent(Head(inputs))
  PROVE  /\ CurrentEvent.event \in Inputs /\ IsEvent(CurrentEvent.event)
         /\ CurrentEvent.event.kind \in RequestKinds =>
              Fresh(CurrentEvent.event.cmd) /\ CurrentEvent.event.at <= now
         /\ CurrentEvent.rest \in Seq(Plain)
         /\ boot = "closing" => CurrentEvent.event \in Own /\ CurrentEvent.rest \in Seq(Own)
  <1> DEFINE head == Head(inputs)
             late == Expired(room.cmds, Command)
  <1>1. head \in Inputs /\ (inputs \in Seq(Plain) => head \in Plain /\ Tail(inputs) \in Seq(Plain))
    BY SeqOps DEF Types
  <1>2. CASE head.kind = "report" /\ late # {}
    <2> DEFINE c == CHOOSE c \in late : TRUE
    <2>1. c \in Command
      BY <1>2 DEF Expired
    <2> HIDE DEF c
    <2>2. TimedOut(c, room.cmds[c].deadline) \in Plain /\ TimedOut(c, room.cmds[c].deadline) \in Own
      BY <2>1, TimedOutPlain DEF Types, Rooms, Lists, Records
    <2>3. CurrentEvent = [event |-> TimedOut(c, room.cmds[c].deadline), rest |-> inputs]
      BY <1>2 DEF CurrentEvent, c
    <2>4. inputs \in Seq(Plain)
      BY <1>2 DEF RequestsAreFresh, RequestKinds
    <2>5. IsEvent(TimedOut(c, room.cmds[c].deadline))
      BY DEF TimedOut, Input, IsEvent
    <2> QED BY <2>2, <2>3, <2>4, <2>5 DEF Plain, ClosingIsOwn
  <1>3. CASE ~(head.kind = "report" /\ late # {})
    <2>1. CurrentEvent = [event |-> head, rest |-> Tail(inputs)]
      BY <1>3 DEF CurrentEvent
    <2> HIDE DEF head
    <2>2. CASE inputs \in Seq(Plain)
      <3>1. boot = "closing" => head \in Own /\ Tail(inputs) \in Seq(Own)
        BY SeqOps DEF ClosingIsOwn, head
      <3>2. head \in Plain /\ Tail(inputs) \in Seq(Plain) /\ IsEvent(head)
        BY <1>1, <2>2 DEF head
      <3> QED BY <2>1, <3>1, <3>2 DEF Plain, RequestKinds
    <2>3. CASE \E e \in Inputs : e.kind \in RequestKinds /\ inputs = <<e>> /\ Fresh(e.cmd) /\ e.at <= now
      <3>1. boot # "closing"
        BY <1>1, <2>3, SeqOps DEF ClosingIsOwn, Own, Plain, head
      <3>2. Tail(inputs) = <<>> /\ head \in Inputs /\ Fresh(head.cmd) /\ head.at <= now /\ IsEvent(head)
        BY <2>3 DEF head
      <3> QED BY <2>1, <3>1, <3>2, NoInputs
    <2> QED BY <2>1, <2>2, <2>3 DEF RequestsAreFresh
  <1> QED BY <1>2, <1>3

\* Processing an event: it stays in memory, or is stored, or its transaction has an
\* unknown outcome.
LEMMA ProcessEventStep ==
  ASSUME IInv, ProcessEvent
  PROVE  Agrees /\ Keeps
  <1>1. Types /\ Agreement /\ RequestsAreFresh /\ ClosingIsOwn /\ One(room.cmds)
    BY DEF IInv, Agreement
  <1> DEFINE e0 == CurrentEvent.event
             rest0 == CurrentEvent.rest
  <1>2. e0 \in Inputs /\ IsEvent(e0) /\ (e0.kind \in RequestKinds => Fresh(e0.cmd)) /\ rest0 \in Seq(Plain)
        /\ (boot = "closing" => e0 \in Own /\ rest0 \in Seq(Own))
    BY <1>1, CurrentType DEF ProcessEvent
  <1> PICK e \in Inputs : e = e0
    BY <1>2
  <1> PICK rest \in Seq(Plain) : rest = rest0
    BY <1>2
  <1> PICK p : p = Prepared(e)
    OBVIOUS
  <1>3. Applied(e, p)
    BY <1>1, <1>2, EventApplied
  <1>4. Running /\ process = "running"
    BY DEF ProcessEvent, Running
  <1>5. ASSUME NEW failures \in SUBSET Command, storage' \in {"degraded", "recovering"}, faults' \in 0..MaxFaults,
               room' = [RoomAfterVolatile(e, p) EXCEPT !.startupFailures = @ \cup failures],
               AfterProcessing(e, p.accepted, RoomAfterVolatile(e, p), rest),
               UNCHANGED <<now, process, boot, led, disk>>
        PROVE  Agrees /\ Keeps
    <2>1. PICK after \in Rooms : /\ after = RoomAfterVolatile(e, p) /\ Moved(e, after.cmds)
                                 /\ \A c \in Command : \/ after.cmds[c] \in {room.cmds[c], NoRecord}
                                                        \/ after.cmds[c].lifecycle = "volatile"
      BY <1>1, <1>3, VolatileMoved
    <2>2. room' \in Rooms /\ room'.cmds = after.cmds
      BY <1>5, <2>1 DEF Rooms
    <2>3. Agrees
      BY <1>1, <1>2, <1>4, <1>5, <2>1, <2>2, VolatileEventAgrees
    <2>4. One(after.cmds)
      BY <1>1, <2>1, OneMoves
    <2>5. control' \in Controls /\ inputs' \in Seq(Plain) /\ attempts' \in Seq(Command)
          /\ (boot = "closing" => inputs' \in Seq(Own))
      BY <1>1, <1>2, <1>5, <2>1, <2>4, AfterProcessingType
    <2>6. Types'
      BY <1>1, <1>5, <2>2, <2>5, PlainInputs DEF Types, Intents
    <2> QED BY <1>5, <2>3, <2>5, <2>6, PlainInputs DEF Keeps, ClosingIsOwn
  <1>6. ASSUME Available, room' = RoomAfterCommit(e, p), disk' = DiskAfterCommit(e, p),
               AfterProcessing(e, p.accepted, room', rest),
               UNCHANGED <<now, faults, process, boot, storage, led>>
        PROVE  Agrees /\ Keeps
    <2>1. room' \in Rooms /\ Moved(e, room'.cmds)
      BY <1>1, <1>3, <1>6, CommitMoved
    <2>2. /\ disk' \in Disks /\ IsFiniteSet(Intents(disk')) /\ disk'.receipts = disk.receipts
          /\ p.accepted => disk'.cmds = room'.cmds /\ disk'.obs = room'.obs
          /\ ~p.accepted => disk' = disk /\ room' = room
      BY <1>1, <1>3, <1>6, DiskCommit
    <2>3. disk'.cmds = room'.cmds /\ disk'.obs = room'.obs
      BY <1>1, <1>4, <1>6, <2>2 DEF Agreement, Synced
    <2>4. Agrees
      BY <1>1, <1>2, <1>4, <1>6, <2>1, <2>3, CommittedEventAgrees
    <2>5. One(room'.cmds)
      BY <1>1, <2>1, OneMoves
    <2>6. control' \in Controls /\ inputs' \in Seq(Plain) /\ attempts' \in Seq(Command)
          /\ (boot = "closing" => inputs' \in Seq(Own))
      BY <1>1, <1>2, <1>6, <2>1, <2>5, AfterProcessingType
    <2>7. Types'
      BY <1>1, <1>6, <2>1, <2>2, <2>6, PlainInputs DEF Types, Intents
    <2> QED BY <1>6, <2>4, <2>6, <2>7, PlainInputs DEF Keeps, ClosingIsOwn
  <1>7. ASSUME Available, Indeterminate({disk, DiskAfterCommit(e, p)})
        PROVE  Agrees /\ Keeps
    <2> PICK d : d = DiskAfterCommit(e, p)
      OBVIOUS
    <2> PICK after \in Rooms : after = RoomAfterCommit(e, p) /\ Moved(e, after.cmds)
      BY <1>1, <1>3, CommitMoved
    <2>1. /\ d \in Disks /\ IsFiniteSet(Intents(d))
          /\ p.accepted => d.cmds = after.cmds
          /\ ~p.accepted => d = disk
      BY <1>1, <1>3, DiskCommit
    <2>2. Indeterminate({disk, d})
      BY <1>7
    <2>3. Keeps
      BY <1>1, <2>1, <2>2, IndeterminateKeeps DEF Types
    <2>4. Agrees
      <3>1. CASE Halt("fatal", disk) \/ ~p.accepted
        BY <1>1, <1>4, <2>1, <2>2, <3>1, HaltAgrees DEF Indeterminate
      <3>2. CASE Halt("fatal", d) /\ p.accepted
        <4>1. process' = "fatal" /\ disk'.cmds = after.cmds /\ room' = EmptyRoom
          BY <2>1, <3>2 DEF Halt
        <4> QED BY <1>1, <1>2, <1>4, <1>7, <4>1, CommittedEventAgrees
      <3> QED BY <2>2, <3>1, <3>2 DEF Indeterminate
    <2> QED BY <2>3, <2>4
  <1> DEFINE unstored == IF boot = "closing" THEN {e.cmd} ELSE {}
  <1>8. unstored \in SUBSET Command
    BY <1>2 DEF Own
  <1>9. ASSUME ~Available \/ (Available /\ EnterDegraded), ~Available => UNCHANGED <<faults, storage>>,
               room' = [RoomAfterVolatile(e, p) EXCEPT !.startupFailures = @ \cup unstored],
               AfterProcessing(e, p.accepted, RoomAfterVolatile(e, p), rest),
               UNCHANGED <<now, process, boot, led, disk>>
        PROVE  Agrees /\ Keeps
    <2>1. storage' \in {"degraded", "recovering"} /\ faults' \in 0..MaxFaults
      BY <1>1, <1>9, FaultType DEF EnterDegraded, Available, Types
    <2> HIDE DEF unstored
    <2> QED BY <1>5, <1>8, <1>9, <2>1
  <1> QED BY <1>6, <1>7, <1>9 DEF ProcessEvent

-----------------------------------------------------------------------------
(* The steps that leave the commands alone *)

\* All that such a step may change.
LEMMA QuietStep ==
  ASSUME Types, Agreement, now' \in Nat \ {0}, faults' \in 0..MaxFaults, process' = process,
         boot' \in {"closing", "sources", "resume", "done"},
         storage' \in {"available", "degraded", "recovering"},
         storage' # "available" \/ storage' = storage,
         room' = room, control' \in Controls, inputs' \in Seq(Plain), attempts' \in Seq(Command),
         boot' = "closing" => inputs' \in Seq(Own),
         led' \in Leds, \A c \in led'.restoring : disk'.receipts[c] # NoReceipt,
         disk' \in Disks, IsFiniteSet(Intents(disk')), disk'.cmds = disk.cmds, disk'.obs = disk.obs
  PROVE  Agrees /\ Keeps
  <1>1. Agrees
    BY CommandsStayAgrees DEF CommandsStay
  <1>2. inputs' \in Seq(Inputs) /\ RequestsAreFresh' /\ ClosingIsOwn'
    BY PlainInputs DEF ClosingIsOwn
  <1>3. Types'
    BY <1>2 DEF Types, Intents
  <1> QED BY <1>1, <1>2, <1>3 DEF Keeps

\* Storage is lost.
LEMMA FaultStep ==
  ASSUME Types, EnterDegraded
  PROVE  faults' \in 0..MaxFaults /\ storage' = "degraded"
  BY FaultType DEF EnterDegraded

\* A bare outbox mutation.
LEMMA PersistStep ==
  ASSUME IInv, PersistOutboxMutation
  PROVE  Agrees /\ Keeps
  <1>1. /\ Types /\ Agreement /\ RequestsAreFresh /\ ClosingIsOwn
        /\ Running /\ inputs # <<>> /\ ~IsEvent(Head(inputs))
    BY DEF IInv, PersistOutboxMutation
  <1> PICK m : m = Head(inputs)
    OBVIOUS
  <1>2. inputs \in Seq(Plain)
    BY <1>1 DEF RequestsAreFresh, RequestKinds, IsEvent
  <1>3. /\ Tail(inputs) \in Seq(Plain) /\ (boot = "closing" => Tail(inputs) \in Seq(Own))
        /\ m \in Inputs /\ m.cmd \in Command
    <2>1. m \in Plain /\ Tail(inputs) \in Seq(Plain)
      BY <1>1, <1>2, SeqOps
    <2>2. boot = "closing" => Tail(inputs) \in Seq(Own)
      BY <1>1, SeqOps DEF ClosingIsOwn
    <2>3. ~IsEvent(m)
      BY <1>1
    <2> QED BY <2>1, <2>2, <2>3 DEF Plain, Inputs, IsEvent
  <1> DEFINE outbox == IF m.kind = "close" THEN Closed(disk.outbox, {m.cmd})
                       ELSE [disk.outbox EXCEPT ![m.cmd] = "uncertain"]
             stored == [disk EXCEPT !.cmds = room.cmds, !.obs = room.obs, !.guards = room.guards,
                                    !.outbox = outbox]
  <1>4. /\ outbox \in [Command -> OutboxStates]
        /\ \A c \in Command : outbox[c] # "none" => disk.outbox[c] # "none" \/ c = m.cmd
    BY <1>1, <1>3 DEF Types, Disks, OutboxStates, Closed
  <1>5. Available => /\ stored \in Disks /\ IsFiniteSet(Intents(stored))
                     /\ stored.cmds = disk.cmds /\ stored.obs = disk.obs /\ stored.receipts = disk.receipts
    <2> HIDE DEF outbox
    <2>1. stored \in Disks /\ stored.cmds = room.cmds /\ stored.obs = room.obs
          /\ stored.receipts = disk.receipts /\ stored.outbox = outbox
      BY <1>1, <1>4 DEF Types, Rooms, Disks, OutboxStates
    <2> HIDE DEF stored
    <2>2. IsFiniteSet(Intents(stored))
      BY <1>1, <1>4, <2>1, IntentsFinite
    <2> QED BY <1>1, <2>1, <2>2 DEF Agreement, Synced
  <1> DEFINE Dequeue == /\ inputs' = Tail(inputs)
                        /\ UNCHANGED <<now, process, boot, room, control, attempts, led>>
  <1>6. \/ ~Available /\ Dequeue /\ UNCHANGED <<faults, storage, disk>>
        \/ Available /\ Dequeue /\ disk' = stored /\ UNCHANGED <<faults, storage>>
        \/ Available /\ Dequeue /\ EnterDegraded /\ UNCHANGED disk
        \/ Available /\ Indeterminate({disk, stored})
    BY DEF PersistOutboxMutation
  <1> HIDE DEF stored
  <1>7. ASSUME Dequeue, faults' \in 0..MaxFaults, storage' \in {storage, "degraded"},
               disk' = disk \/ (Available /\ disk' = stored)
        PROVE  Agrees /\ Keeps
    BY <1>1, <1>3, <1>5, <1>7, QuietStep DEF Types
  <1>8. CASE Available /\ Indeterminate({disk, stored})
    <2>1. \A d \in {disk, stored} : d \in Disks /\ IsFiniteSet(Intents(d)) /\ d.cmds = disk.cmds
      BY <1>1, <1>5, <1>8 DEF Types
    <2> QED BY <1>1, <1>8, <2>1, IndeterminateKeeps, IndeterminateAgrees
  <1> HIDE DEF Dequeue
  <1> QED BY <1>1, <1>6, <1>7, <1>8, FaultStep DEF Types

-----------------------------------------------------------------------------
(* The LED source and the dispatch *)

\* A receipt on the disk.
LEMMA ReceiptType ==
  ASSUME Types, NEW c \in Command, NEW r \in RealReceipts
  PROVE  /\ WithReceipt(c, r) \in Disks /\ Marked(r) \in RealReceipts
         /\ WithReceipt(c, r).cmds = disk.cmds /\ WithReceipt(c, r).obs = disk.obs
         /\ IsFiniteSet(Intents(WithReceipt(c, r)))
         /\ \A x \in Command : disk.receipts[x] # NoReceipt => WithReceipt(c, r).receipts[x] # NoReceipt
  <1> DEFINE d == WithReceipt(c, r)
  <1>1. disk \in Disks /\ IsFiniteSet(Intents(disk))
    BY DEF Types
  <1>2. Marked(r) \in RealReceipts
    BY DEF Marked, RealReceipts
  <1>3. r # NoReceipt
    BY DEF RealReceipts, NoReceipt
  <1>4. /\ d \in Disks /\ d.cmds = disk.cmds /\ d.obs = disk.obs /\ d.outbox = disk.outbox
        /\ d.receipts = [disk.receipts EXCEPT ![c] = r]
    BY <1>1 DEF WithReceipt, Disks
  <1> HIDE DEF d
  <1>5. IsFiniteSet(Intents(d))
    BY <1>1, <1>4 DEF Intents
  <1>6. \A x \in Command : disk.receipts[x] # NoReceipt => d.receipts[x] # NoReceipt
    BY <1>1, <1>3, <1>4 DEF Disks
  <1> QED BY <1>2, <1>4, <1>5, <1>6 DEF d

\* The receipt of a new command.
LEMMA NewReceiptType ==
  ASSUME Types, NEW c \in Command, NEW plan \in Plan
  PROVE  NewReceipt(c, plan) \in RealReceipts
  <1>1. plan.kind \in {"report", "rejection", "none"} /\ plan.delay \in Nat
    BY CommandDeliveryAssumption
  <1>2. room.cmds[c].power \in Power /\ now \in Nat /\ now + plan.delay \in Nat
    BY <1>1 DEF Types, Rooms, Lists, Records
  <1> QED BY <1>1, <1>2 DEF NewReceipt, RealReceipts

\* What is emitted is no longer armed or to be restored.
LEMMA EmitType ==
  ASSUME Types, inputs = <<>>, NEW c \in Command, NEW r \in Outcomes, NEW before \in Seq(Plain),
         Emit(c, r, before)
  PROVE  led' \in Leds /\ led'.restoring \in SUBSET led.restoring /\ inputs' \in Seq(Plain)
  <1>1. r.kind \in {"report", "rejection"} /\ r.power \in Power /\ r.due \in Nat
    BY DEF Outcomes
  <1>2. Outcome(c, r) \in Plain
    BY <1>1, PlainType DEF Outcome, InputKinds, RequestKinds
  <1>3. inputs' \in Seq(Plain)
    BY <1>2, SeqOps DEF Emit
  <1>4. led \in Leds
    BY DEF Types
  <1>5. led' = [led EXCEPT !.emitted = @ \cup {c}, !.restoring = @ \ {c}, !.armed[c] = NoPlan,
                           !.lamp = IF r.kind = "report" THEN r.power ELSE @]
    BY DEF Emit
  <1>6. led' \in Leds /\ led'.restoring \in SUBSET led.restoring
    BY <1>1, <1>4, <1>5 DEF Leds
  <1> QED BY <1>3, <1>6

\* Every plan but the silent one has an outcome.
LEMMA OutcomeReceipt ==
  ASSUME NEW r \in RealReceipts
  PROVE  r.kind # "none" => r \in Outcomes
  BY DEF RealReceipts, Outcomes

\* Outcomes are receipts.
LEMMA OutcomeIsReceipt == Outcomes \subseteq RealReceipts
  BY DEF RealReceipts, Outcomes

\* Storing the terminal marker of an outcome, and emitting it.
LEMMA MarkStep ==
  ASSUME Types, Agreement, boot # "closing", inputs = <<>>, NEW c \in Command, NEW r \in Outcomes,
         NEW d \in {disk, WithReceipt(c, r)}, NEW before \in Seq(Plain),
         MarkTerminalAndEmit(c, r, d, before), control' \in Controls, attempts' \in Seq(Command)
  PROVE  Agrees /\ Keeps
  <1>1. Emit(c, r, before) /\ now' = now /\ process' = process /\ boot' = boot /\ room' = room
    BY DEF MarkTerminalAndEmit
  <1>2. led' \in Leds /\ led'.restoring \in SUBSET led.restoring /\ inputs' \in Seq(Plain)
    BY <1>1, EmitType
  <1>3. r \in RealReceipts /\ Marked(r) \in RealReceipts
    BY OutcomeIsReceipt, ReceiptType
  <1>4. disk' \in {disk, WithReceipt(c, r), WithReceipt(c, Marked(r))}
    BY DEF MarkTerminalAndEmit
  <1>5. /\ disk' \in Disks /\ IsFiniteSet(Intents(disk')) /\ disk'.cmds = disk.cmds /\ disk'.obs = disk.obs
        /\ \A x \in Command : disk.receipts[x] # NoReceipt => disk'.receipts[x] # NoReceipt
    BY <1>3, <1>4, ReceiptType DEF Types
  <1>6. \A x \in led'.restoring : disk'.receipts[x] # NoReceipt
    BY <1>2, <1>5 DEF Types, Leds
  <1>7. faults' \in 0..MaxFaults /\ storage' \in {storage, "degraded"}
    BY FaultStep DEF MarkTerminalAndEmit, Types
  <1> QED BY <1>1, <1>2, <1>5, <1>6, <1>7, QuietStep DEF Types

\* The process may end in a transaction of the LED.
LEMMA ReceiptIndeterminate ==
  ASSUME Types, Agreement, Running, NEW c \in Command, NEW r \in RealReceipts,
         NEW D, D \subseteq {disk, WithReceipt(c, r), WithReceipt(c, Marked(r))}, Indeterminate(D)
  PROVE  Agrees /\ Keeps
  <1>1. \A d \in D : d \in Disks /\ IsFiniteSet(Intents(d)) /\ d.cmds = disk.cmds
    BY ReceiptType DEF Types
  <1> QED BY <1>1, IndeterminateKeeps, IndeterminateAgrees

\* Delivering an outcome, from a timer or at startup.
LEMMA DeliverStep ==
  ASSUME Types, Agreement, Running, boot # "closing", inputs = <<>>, NEW c \in Command, NEW r \in Outcomes,
         NEW durable, DeliverOutcome(c, r, durable)
  PROVE  Agrees /\ Keeps
  <1>1. CASE Emit(c, r, <<>>)
             /\ UNCHANGED <<now, faults, process, boot, storage, room, control, attempts, disk>>
    <2>1. led' \in Leds /\ led'.restoring \in SUBSET led.restoring /\ inputs' \in Seq(Plain)
      BY <1>1, EmitType, NoInputs
    <2> QED BY <1>1, <2>1, QuietStep DEF Types
  <1>2. CASE MarkTerminalAndEmit(c, r, disk, <<>>) /\ UNCHANGED <<control, attempts>>
    BY <1>2, MarkStep, NoInputs DEF Types
  <1>3. CASE Indeterminate({disk, WithReceipt(c, Marked(r))})
    BY <1>3, OutcomeIsReceipt, ReceiptIndeterminate
  <1>4. CASE Halt("uncaught", disk) /\ UNCHANGED faults
    BY <1>4, HaltKeeps, HaltAgrees DEF Types
  <1> QED BY <1>1, <1>2, <1>3, <1>4 DEF DeliverOutcome

\* The LED accepts a command.
LEMMA HandedOffStep ==
  ASSUME Types, Agreement, boot # "closing", inputs = <<>>, NEW c \in Command, NEW r \in RealReceipts,
         NEW durable \in BOOLEAN, NEW d \in {disk, WithReceipt(c, r)},
         HandedOff(c, r, durable, d), control' \in Controls, attempts' \in Seq(Command)
  PROVE  Agrees /\ Keeps
  <1> DEFINE dispatched == <<Input("dispatched", c, r.power, r.acceptedAt, durable)>>
             idlePlan == NothingToSchedule(c, r)
  <1>1. dispatched \in Seq(Plain)
    <2>1. r.power \in Power /\ r.acceptedAt \in Nat
      BY DEF RealReceipts
    <2>2. Input("dispatched", c, r.power, r.acceptedAt, durable) \in Plain
      BY <2>1, PlainType DEF InputKinds, RequestKinds
    <2> QED BY <2>2, SeqOps
  <1>2. /\ d \in Disks /\ IsFiniteSet(Intents(d)) /\ d.cmds = disk.cmds /\ d.obs = disk.obs
        /\ \A x \in Command : disk.receipts[x] # NoReceipt => d.receipts[x] # NoReceipt
    BY ReceiptType DEF Types
  <1>3. ~idlePlan => r \in Outcomes
    BY OutcomeReceipt DEF NothingToSchedule
  <1> HIDE DEF dispatched, idlePlan
  <1>4. ASSUME disk' = d, inputs' \in Seq(Plain), led' \in Leds, led'.restoring \in SUBSET led.restoring,
               UNCHANGED <<now, faults, process, boot, storage, room>>
        PROVE  Agrees /\ Keeps
    <2>1. \A x \in led'.restoring : disk'.receipts[x] # NoReceipt
      BY <1>2, <1>4 DEF Types, Leds
    <2> QED BY <1>2, <1>4, <2>1, QuietStep DEF Types
  <1>5. ASSUME disk' = d, inputs' = inputs \o dispatched,
               UNCHANGED <<now, faults, process, boot, storage, room>>,
               \/ led' = led
               \/ ~idlePlan /\ led' = [led EXCEPT !.armed[c] = [receipt |-> r, durable |-> durable]]
        PROVE  Agrees /\ Keeps
    <2>1. inputs' \in Seq(Plain)
      BY <1>1, <1>5
    <2>2. led' \in Leds /\ led'.restoring = led.restoring
      BY <1>3, <1>5, SMTT(60) DEF Types, Leds
    <2> QED BY <1>4, <1>5, <2>1, <2>2
  <1>6. ASSUME ~idlePlan, Emit(c, r, dispatched), disk' = d,
               UNCHANGED <<now, faults, process, boot, storage, room>>
        PROVE  Agrees /\ Keeps
    BY <1>1, <1>3, <1>4, <1>6, EmitType
  <1>7. ASSUME ~idlePlan, MarkTerminalAndEmit(c, r, d, dispatched)
        PROVE  Agrees /\ Keeps
    BY <1>1, <1>3, <1>7, MarkStep
  <1> QED BY <1>5, <1>6, <1>7 DEF HandedOff, dispatched, idlePlan

\* Setting a retry timer.
LEMMA RetryAtType ==
  ASSUME NEW ctl \in Controls, NEW c \in Command, NEW at \in Nat
  PROVE  [ctl EXCEPT !.retryAt[c] = at] \in Controls
  BY DEF Controls

\* An attempt to dispatch, whatever becomes of it.
LEMMA AttemptStep ==
  ASSUME Types, Agreement, Running, boot = "done", inputs = <<>>, NEW c \in Command, NEW ctl \in Controls,
         Attempt(c, ctl), NEW rest \in Seq(Command), AttemptsBecome(rest)
  PROVE  Agrees /\ Keeps
  <1> DEFINE scheduled == ScheduleTimeouts(ctl, room.cmds, {c})
  <1>1. scheduled \in Controls
    BY ScheduleType DEF Types, Rooms, Lists
  <1>2. attempts' \in Seq(Command)
    BY NoInputs DEF AttemptsBecome
  <1>3. ASSUME NEW e \in Plain, inputs' = Append(inputs, e), control' \in Controls, faults' \in 0..MaxFaults,
               storage' \in {storage, "degraded"}, UNCHANGED <<now, process, boot, room, led, disk>>
        PROVE  Agrees /\ Keeps
    <2>1. inputs' \in Seq(Plain)
      BY <1>3, SeqOps
    <2> QED BY <1>2, <1>3, <2>1, QuietStep DEF Types
  <1> HIDE DEF scheduled
  <1>4. CASE control' = ctl /\ UNCHANGED <<now, faults, process, boot, storage, room, led, disk, inputs>>
    BY <1>2, <1>4, QuietStep, NoInputs DEF Types
  <1>5. CASE control' = ctl /\ inputs' = Append(inputs, TimedOut(c, room.cmds[c].deadline))
             /\ UNCHANGED <<now, faults, process, boot, storage, room, led, disk>>
    <2>1. TimedOut(c, room.cmds[c].deadline) \in Plain
      BY TimedOutPlain DEF Types, Rooms, Lists, Records
    <2> QED BY <1>3, <1>5, <2>1 DEF Types
  <1>6. CASE DispatchVolatile(c, scheduled)
    <2>1. PICK plan \in Plan : HandedOff(c, NewReceipt(c, plan), FALSE, disk) /\ control' = scheduled
      BY <1>6 DEF DispatchVolatile
    <2> QED BY <1>1, <1>2, <2>1, NewReceiptType, HandedOffStep
  <1>7. CASE DeliveryUncertain(c, scheduled)
    <2> DEFINE e == Input(IF room.cmds[c].status = "accepted" THEN "uncertain" ELSE "mark_uncertain",
                          c, "off", now, TRUE)
    <2>1. e \in Plain
      BY PlainType, NoRecordType DEF InputKinds, RequestKinds, Types
    <2>2. control' \in Controls
      <3>1. PICK at \in Nat : at = IF scheduled.retryAt[c] = NoTime THEN now + RetryDelay ELSE scheduled.retryAt[c]
        <4>1. scheduled.retryAt[c] \in Nat
          BY <1>1 DEF Controls
        <4>2. now + RetryDelay \in Nat
          BY CommandDeliveryAssumption DEF Types
        <4> QED BY <4>1, <4>2
      <3>2. control' = [scheduled EXCEPT !.retryAt[c] = at]
        BY <1>7, <3>1 DEF DeliveryUncertain
      <3> QED BY <1>1, <3>2, RetryAtType
    <2>3. inputs' = Append(inputs, e)
      BY <1>7 DEF DeliveryUncertain
    <2> HIDE DEF e
    <2> QED BY <1>3, <1>7, <2>1, <2>2, <2>3, FaultStep DEF DeliveryUncertain
  <1>8. CASE NotHandedOff(c, scheduled)
    <2> DEFINE e == Input("failed", c, "off", now, TRUE)
    <2>1. e \in Plain
      BY PlainType, NoRecordType DEF InputKinds, RequestKinds, Types
    <2>2. inputs' = Append(inputs, e) /\ control' = scheduled
      BY <1>8 DEF NotHandedOff
    <2> HIDE DEF e
    <2> QED BY <1>1, <1>3, <1>8, <2>1, <2>2, FaultStep DEF NotHandedOff
  <1>9. CASE DispatchDurable(c, scheduled)
    <2> DEFINE found == disk.receipts[c]
               Found == IF found # NoReceipt THEN {found} ELSE {NewReceipt(c, plan) : plan \in Plan}
    <2>1. Found \subseteq RealReceipts
      BY NewReceiptType DEF Types, Disks
    <2>2. \/ \E r \in Found :
               \/ HandedOff(c, r, TRUE, WithReceipt(c, r)) /\ control' = scheduled
               \/ Indeterminate({disk, WithReceipt(c, r)} \cup
                                 IF r.due <= now THEN {WithReceipt(c, Marked(r))} ELSE {})
          \/ DeliveryUncertain(c, scheduled)
          \/ NotHandedOff(c, scheduled)
      BY <1>9 DEF DispatchDurable
    <2> HIDE DEF Found
    <2>3. CASE \E r \in Found : HandedOff(c, r, TRUE, WithReceipt(c, r)) /\ control' = scheduled
      BY <1>1, <1>2, <2>1, <2>3, HandedOffStep
    <2>4. ASSUME NEW r \in Found,
                 Indeterminate({disk, WithReceipt(c, r)} \cup
                                IF r.due <= now THEN {WithReceipt(c, Marked(r))} ELSE {})
          PROVE  Agrees /\ Keeps
      <3> PICK D : D = {disk, WithReceipt(c, r)} \cup IF r.due <= now THEN {WithReceipt(c, Marked(r))} ELSE {}
        OBVIOUS
      <3>1. D \subseteq {disk, WithReceipt(c, r), WithReceipt(c, Marked(r))}
        OBVIOUS
      <3>2. Indeterminate(D)
        BY <2>4
      <3> QED BY <2>1, <3>1, <3>2, ReceiptIndeterminate
    <2> QED BY <1>7, <1>8, <2>2, <2>3, <2>4
  <1> QED BY <1>4, <1>5, <1>6, <1>7, <1>8, <1>9 DEF Attempt, scheduled

\* The dispatch microtask.
LEMMA RunStep ==
  ASSUME IInv, RunAttempt
  PROVE  Agrees /\ Keeps
  <1>1. Types /\ Agreement
    BY DEF IInv
  <1>2. Head(attempts) \in Command /\ Tail(attempts) \in Seq(Command)
    BY <1>1, SeqOps DEF RunAttempt, Types
  <1> QED BY <1>1, <1>2, AttemptStep DEF RunAttempt, Types

\* The timers of the controller and the LED.
LEMMA TimerStep ==
  ASSUME IInv, NEW c \in Command, RetryFires(c) \/ TimeoutFires(c) \/ LedTimerFires(c)
  PROVE  Agrees /\ Keeps
  <1>1. Types /\ Agreement
    BY DEF IInv
  <1>3. CASE RetryFires(c)
    <2>1. [control EXCEPT !.retryAt[c] = NoTime] \in Controls
      BY <1>1, RetryAtType DEF Types, NoTime
    <2> QED BY <1>1, <1>3, <2>1, AttemptStep DEF RetryFires, Types, Idle, Quiet
  <1>4. CASE TimeoutFires(c)
    <2>1. control.timeoutAt[c] \in Nat
      BY <1>1 DEF Types, Controls
    <2>2. inputs' \in Seq(Plain)
      BY <1>4, <2>1, TimedOutPlain, SeqOps DEF TimeoutFires
    <2>3. control' \in Controls
      BY <1>1, <1>4 DEF TimeoutFires, Types, Controls, NoTime
    <2> QED BY <1>1, <1>4, <2>2, <2>3, QuietStep DEF TimeoutFires, Types, Idle
  <1>5. CASE LedTimerFires(c)
    <2>1. led.armed[c].receipt \in Outcomes
      BY <1>1, <1>5 DEF LedTimerFires, Types, Leds
    <2> QED BY <1>1, <1>5, <2>1, DeliverStep DEF LedTimerFires, Idle, Quiet
  <1> QED BY <1>3, <1>4, <1>5

-----------------------------------------------------------------------------
(* Requests, and the rest of the process *)

\* A request enters an empty FIFO, about a command nobody knows.
LEMMA RequestStep ==
  ASSUME IInv, NEW c \in Command, NEW power \in Power, RequestCommand(c, power) \/ RejectCommand(c, power)
  PROVE  Agrees /\ Keeps
  <1>1. Types /\ Agreement
    BY DEF IInv
  <1>2. PICK kind \in RequestKinds, durable \in BOOLEAN : inputs' = <<Input(kind, c, power, now, durable)>>
    BY DEF RequestCommand, RejectCommand, RequestKinds, Available
  <1>3. /\ Fresh(c) /\ boot = "done"
        /\ UNCHANGED <<now, faults, process, boot, storage, room, control, attempts, led, disk>>
    BY DEF RequestCommand, RejectCommand, Idle, Fresh
  <1> DEFINE e == Input(kind, c, power, now, durable)
  <1>4. e \in Inputs /\ e.kind \in RequestKinds /\ e.cmd = c /\ e.at <= now
    BY <1>1 DEF Input, Inputs, InputKinds, RequestKinds, Types
  <1> HIDE DEF e
  <1>5. inputs' = <<e>> /\ inputs' \in Seq(Inputs)
    BY <1>2, <1>4, SeqOps DEF e
  <1>6. RequestsAreFresh' /\ ClosingIsOwn'
    BY <1>3, <1>4, <1>5 DEF RequestsAreFresh, Fresh, ClosingIsOwn
  <1>7. Types'
    BY <1>1, <1>3, <1>5 DEF Types, Intents
  <1>8. Agrees
    BY <1>1, <1>3, CommandsStayAgrees DEF CommandsStay
  <1> QED BY <1>6, <1>7, <1>8 DEF Keeps

\* Other transactions, time, and crashes.
LEMMA OtherStep ==
  ASSUME IInv, OtherTransaction \/ Tick \/ Crash
  PROVE  Agrees /\ Keeps
  <1>1. Types /\ Agreement /\ RequestsAreFresh /\ ClosingIsOwn
    BY DEF IInv
  <1>2. CASE OtherTransaction
    <2> DEFINE saved == [disk EXCEPT !.cmds = room.cmds, !.obs = room.obs, !.guards = room.guards]
    <2>1. Running /\ Available /\ boot = "done" /\ inputs = <<>>
      BY <1>2 DEF OtherTransaction, Idle, Quiet
    <2>2. /\ saved \in Disks /\ IsFiniteSet(Intents(saved)) /\ saved.cmds = disk.cmds
          /\ saved.obs = disk.obs /\ saved.receipts = disk.receipts
      <3>1. saved \in Disks /\ saved.outbox = disk.outbox /\ saved.receipts = disk.receipts
            /\ saved.cmds = room.cmds /\ saved.obs = room.obs
        BY <1>1 DEF Types, Rooms, Disks
      <3> QED BY <1>1, <2>1, <3>1 DEF Agreement, Synced, Intents, Types
    <2>3. disk' = saved \/ disk' = disk
      BY <1>2 DEF OtherTransaction
    <2> HIDE DEF saved
    <2>4. faults' \in 0..MaxFaults /\ storage' \in {storage, "degraded"}
      BY <1>1, <1>2, FaultStep DEF OtherTransaction, Types
    <2>5. UNCHANGED <<now, process, boot, room, control, inputs, attempts, led>>
      BY <1>2 DEF OtherTransaction
    <2>6. inputs' \in Seq(Plain)
      BY <2>1, <2>5, NoInputs
    <2>7. disk' \in Disks /\ IsFiniteSet(Intents(disk')) /\ disk'.cmds = disk.cmds
          /\ disk'.obs = disk.obs /\ disk'.receipts = disk.receipts
      BY <1>1, <2>2, <2>3 DEF Types
    <2> QED BY <1>1, <2>1, <2>4, <2>5, <2>6, <2>7, QuietStep DEF Types
  <1>3. CASE Tick
    <2>1. UNCHANGED <<faults, process, boot, storage, room, control, inputs, attempts, led, disk>> /\ now' = now + 1
      BY <1>3 DEF Tick
    <2>2. Agrees
      BY <1>1, <2>1, CommandsStayAgrees DEF CommandsStay
    <2>3. RequestsAreFresh' /\ ClosingIsOwn'
      <3>1. \A e \in Inputs : e.at \in Nat
        BY DEF Inputs
      <3>2. \A e \in Inputs : e.at <= now => e.at <= now'
        BY <1>1, <2>1, <3>1 DEF Types
      <3> QED BY <1>1, <2>1, <3>2 DEF RequestsAreFresh, Fresh, ClosingIsOwn
    <2>4. Types'
      BY <1>1, <2>1 DEF Types, Intents
    <2> QED BY <2>2, <2>3, <2>4 DEF Keeps
  <1>4. CASE Crash
    BY <1>1, <1>4, HaltKeeps, HaltAgrees, FaultType DEF Crash, Types
  <1> QED BY <1>2, <1>3, <1>4

\* The receipts are listed at startup.
LEMMA ListStep ==
  ASSUME IInv, ListReceipts
  PROVE  Agrees /\ Keeps
  <1>1. Types /\ Agreement /\ Running /\ inputs = <<>>
    BY DEF IInv, ListReceipts, Quiet
  <1> DEFINE listed == {c \in Command : disk.receipts[c] # NoReceipt}
  <1>2. ASSUME NEW C, C = listed \/ C = {}, boot' = "sources", led' = [led EXCEPT !.restoring = C],
               faults' \in 0..MaxFaults, storage' \in {storage, "degraded"},
               UNCHANGED <<now, process, room, control, inputs, attempts, disk>>
        PROVE  Agrees /\ Keeps
    <2>1. led' \in Leds /\ led'.restoring = C
      BY <1>1, <1>2 DEF Types, Leds
    <2>2. \A c \in led'.restoring : disk'.receipts[c] # NoReceipt
      BY <1>2, <2>1
    <2> QED BY <1>1, <1>2, <2>1, <2>2, QuietStep, NoInputs DEF Types
  <1>3. ASSUME Indeterminate({disk})
        PROVE  Agrees /\ Keeps
    BY <1>1, <1>3, IndeterminateKeeps, IndeterminateAgrees DEF Types
  <1> QED BY <1>1, <1>2, <1>3, FaultStep DEF ListReceipts, Types

\* A plan is restored.
LEMMA RestoreStep ==
  ASSUME IInv, NEW c \in Command, RestorePlan(c)
  PROVE  Agrees /\ Keeps
  <1>1. Types /\ Agreement /\ Running /\ inputs = <<>> /\ boot = "sources"
    BY DEF IInv, RestorePlan, Quiet
  <1> DEFINE r == disk.receipts[c]
  <1>2. r \in RealReceipts /\ (r.kind # "none" => r \in Outcomes)
    <2>1. r # NoReceipt /\ r \in {NoReceipt} \cup RealReceipts
      BY <1>1 DEF RestorePlan, Types, Disks
    <2> QED BY <2>1, OutcomeReceipt
  <1> HIDE DEF r
  <1>3. CASE /\ led' = [led EXCEPT !.restoring = @ \ {c},
                          !.armed[c] = IF r.kind = "none" THEN NoPlan
                                       ELSE [receipt |-> r, durable |-> TRUE]]
             /\ UNCHANGED <<now, faults, process, boot, storage, room, control, inputs, attempts, disk>>
    <2>1. led' \in Leds /\ led'.restoring = led.restoring \ {c}
      BY <1>1, <1>2, <1>3 DEF Types, Leds
    <2> QED BY <1>1, <1>3, <2>1, QuietStep, NoInputs DEF Types
  <1>4. CASE r.kind # "none" /\ DeliverOutcome(c, r, TRUE)
    BY <1>1, <1>2, <1>4, DeliverStep
  <1> QED BY <1>3, <1>4 DEF RestorePlan, r

\* The LED reports its state at startup.
LEMMA ReportStep ==
  ASSUME IInv, ReportCurrentState
  PROVE  Agrees /\ Keeps
  <1>1. Types /\ Agreement /\ Running /\ inputs = <<>> /\ boot = "sources"
    BY DEF IInv, ReportCurrentState, Quiet
  <1> DEFINE e == Input("report", NoCommand, led.lamp, now, FALSE)
  <1>2. /\ boot' = "resume" /\ inputs' = <<e>>
        /\ UNCHANGED <<now, faults, process, storage, room, control, attempts, led, disk>>
    BY DEF ReportCurrentState
  <1>3. e \in Plain
    BY <1>1 DEF Input, Plain, Inputs, InputKinds, RequestKinds, Types, Leds
  <1> HIDE DEF e
  <1>4. inputs' \in Seq(Plain)
    BY <1>2, <1>3
  <1> QED BY <1>1, <1>2, <1>4, QuietStep DEF Types

-----------------------------------------------------------------------------
(* Recovery and startup *)

\* Every element of a finite set, once.
LEMMA OncePerCommand ==
  ASSUME NEW C \in SUBSET Command, IsFiniteSet(C), NEW kind \in InputKinds \ RequestKinds, now \in Nat
  PROVE  LET S == {Input(kind, c, "off", now, FALSE) : c \in C}
         IN  IsFiniteSet(S) /\ S \subseteq Own
  <1> DEFINE S == {Input(kind, c, "off", now, FALSE) : c \in C}
             f == [c \in C |-> Input(kind, c, "off", now, FALSE)]
  <1>1. f \in Surjection(C, S)
    BY DEF Surjection
  <1>2. IsFiniteSet(S)
    BY <1>1, FS_Surjection
  <1>3. S \subseteq Own
    BY PlainType, NoRecordType
  <1> QED BY <1>2, <1>3

\* The outbox is reconciled: no request comes of it.
LEMMA ReconcileType ==
  ASSUME Types, NEW cmds \in [Command -> Records], One(cmds), NEW ctl \in Controls, Reconcile(cmds, ctl)
  PROVE  control' \in Controls /\ inputs' \in Seq(Plain) /\ attempts' \in Seq(Command)
  <1> DEFINE open == {c \in Command : disk.outbox[c] \notin {"none", "closed"}}
             gone == {c \in open : ~IsActive(cmds, c)}
             postponed == {c \in gone : \E d \in ActiveCommands(cmds) : d # c /\ cmds[d].lifecycle = "volatile"}
             late == Expired(cmds, open)
             delivered == {c \in open \ (gone \cup late) : disk.outbox[c] = "delivered"}
             again == open \ (gone \cup late \cup delivered)
             close == {Input("close", c, "off", now, FALSE) : c \in gone \ postponed}
             scheduled == ScheduleTimeouts(ctl, cmds, delivered \cup again)
  <1>1. open \in SUBSET Command /\ IsFiniteSet(open)
    <2>1. open \in SUBSET Intents(disk)
      BY DEF Intents
    <2> QED BY <2>1, FS_Subset DEF Types, Intents
  <1>2. gone \ postponed \in SUBSET Command /\ IsFiniteSet(gone \ postponed)
        /\ again \in SUBSET Command /\ IsFiniteSet(again)
    <2>1. gone \ postponed \in SUBSET open /\ again \in SUBSET open
      OBVIOUS
    <2> HIDE DEF open, gone, postponed, again
    <2> QED BY <1>1, <2>1, FS_Subset
  <1>3. IsFiniteSet(close) /\ close \subseteq Own
    BY <1>2, OncePerCommand DEF InputKinds, RequestKinds, Types
  <1>4. late \in SUBSET Command /\ \A c, d \in late : c = d
    BY <1>1 DEF Expired, One, ActiveCommands, IsActive, ActiveStatus
  <1>5. scheduled \in Controls
    BY ScheduleType
  <1> HIDE DEF open, close, late, again, scheduled
  <1>6. PICK closings \in SetToSeqs(close) : inputs' = TimeoutInputs(cmds, late) \o closings
    BY DEF Reconcile, open, close, late
  <1>7. inputs' \in Seq(Plain)
    <2>1. closings \in Seq(close)
      BY <1>3, <1>6, SetToSeqsType
    <2>2. closings \in Seq(Plain)
      <3>1. close \subseteq Plain
        BY <1>3 DEF Own
      <3> QED BY <2>1, <3>1, SeqOfPart
    <2>3. TimeoutInputs(cmds, late) \in Seq(Plain)
      BY <1>4, TimeoutInputsPlain
    <2> QED BY <1>6, <2>2, <2>3
  <1>8. attempts' \in Seq(Command)
    <2>1. attempts' = SetToSeq(again)
      BY DEF Reconcile, open, late, again
    <2>2. SetToSeq(again) \in Seq(again)
      BY <1>2, SetToSeqType
    <2> QED BY <1>2, <2>1, <2>2, SeqOfPart, SMTT(60)
  <1>9. control' \in Controls
    <2> DEFINE work == [c \in Command |-> IF c \in gone \cup delivered THEN "none"
                                          ELSE IF c \in again THEN "durable" ELSE scheduled.work[c]]
    <2>1. work \in [Command -> {"none"} \cup Durability]
      BY <1>5, SMTT(60) DEF Controls, Durability
    <2>2. control' = [scheduled EXCEPT !.work = work]
      BY DEF Reconcile, open, late, again, scheduled
    <2> HIDE DEF work
    <2> QED BY <1>5, <2>1, <2>2 DEF Controls
  <1> QED BY <1>7, <1>8, <1>9

\* Recovery lets memory win, for it follows what is stored.
LEMMA MergedFacts ==
  ASSUME Types, Agreement, Running
  PROVE  /\ MergedRoom \in Rooms
         /\ \A c \in Command :
              \/ MergedRoom.cmds[c].status = "none"
              \/ /\ MergedRoom.cmds[c].status = IF room.cmds[c].status = "none" THEN disk.cmds[c].status
                                                ELSE room.cmds[c].status
                 /\ room.cmds[c].status = "pending" => MergedRoom.cmds[c].deadline = room.cmds[c].deadline
                 /\ disk.cmds[c].status = "pending" => MergedRoom.cmds[c].deadline = disk.cmds[c].deadline
         /\ Promise!Remembers(Promise!Merge(Statuses(room.cmds), Statuses(disk.cmds)),
                              Statuses(MergedRoom.cmds))
  <1> DEFINE base == [c \in Command |->
                        IF \/ disk.cmds[c].status = "none"
                           \/ /\ room.cmds[c].status # "none"
                              /\ IsTerminal(room.cmds, c) \/ ~IsTerminal(disk.cmds, c)
                        THEN room.cmds[c] ELSE disk.cmds[c]]
             merged == MergedCommands
  <1>1. ASSUME NEW c \in Command
        PROVE  /\ base[c] \in Records
               /\ base[c].status = IF room.cmds[c].status = "none" THEN disk.cmds[c].status
                                   ELSE room.cmds[c].status
               /\ room.cmds[c].status = "pending" => base[c].deadline = room.cmds[c].deadline
               /\ disk.cmds[c].status = "pending" => base[c].deadline = disk.cmds[c].deadline
    <2>1. room.cmds[c] \in Records /\ disk.cmds[c] \in Records
      BY RecordTypes
    <2>2. Follows(room.cmds[c], disk.cmds[c])
      BY DEF Agreement, MemoryFollows
    <2>3. CASE room.cmds[c].status = "none"
      <3>1. base[c] = IF disk.cmds[c].status = "none" THEN room.cmds[c] ELSE disk.cmds[c]
        BY <2>3
      <3> QED BY <2>1, <2>3, <3>1
    <2>4. CASE room.cmds[c].status # "none"
      <3>1. IsTerminal(disk.cmds, c) => IsTerminal(room.cmds, c)
        BY <2>1, <2>2, <2>4 DEF Follows, Promise!Rank, IsTerminal, TerminalStatus, Records, Status
      <3>2. base[c] = room.cmds[c]
        BY <2>4, <3>1
      <3> QED BY <2>1, <2>2, <2>4, <3>2 DEF Follows
    <2> QED BY <2>3, <2>4
  <1>2. base \in [Command -> Records]
    BY <1>1
  <1>3. merged = Selected(base)
    BY DEF MergedCommands
  <1> HIDE DEF base, merged
  <1>4. /\ merged \in Lists /\ merged \in [Command -> Records]
        /\ \A c \in Command : merged[c] = base[c] \/ merged[c] = NoRecord
        /\ Promise!Remembers(Statuses(base), Statuses(merged))
    BY <1>2, <1>3, SelectedFacts, SelectedFull DEF Lists
  <1>5. Statuses(base) = Promise!Merge(Statuses(room.cmds), Statuses(disk.cmds))
    BY <1>1 DEF Statuses, Promise!Merge
  <1> DEFINE promoted == Promoted(merged)
  <1>6. ASSUME NEW c \in Command
        PROVE  /\ promoted[c] \in Records /\ promoted[c].status = merged[c].status
               /\ promoted[c].deadline = merged[c].deadline /\ promoted[c].ended = merged[c].ended
    <2>1. promoted[c] = IF c \in room.startupFailures /\ IsTerminal(merged, c)
                        THEN [merged[c] EXCEPT !.lifecycle = "durable"] ELSE merged[c]
      BY DEF Promoted
    <2>2. merged[c] \in Records
      BY <1>4
    <2> HIDE DEF promoted
    <2> QED BY <2>1, <2>2 DEF Records, Durability
  <1>7. promoted = [c \in Command |-> promoted[c]]
    BY DEF Promoted
  <1> HIDE DEF promoted
  <1>8. promoted \in [Command -> Records]
    BY <1>6, <1>7
  <1>9. promoted \in Lists
    <2>1. \A c \in Command : IsTerminal(promoted, c) =>
            IsTerminal(merged, c) /\ promoted[c].ended = merged[c].ended /\ ~Surplus(merged, c)
      BY <1>4, <1>6 DEF IsTerminal, Lists
    <2> QED BY <1>4, <1>8, <2>1, ListStays
  <1>10. MergedRoom \in Rooms /\ MergedRoom.cmds = promoted
    <2>1. MergedRoom =
            [cmds |-> promoted,
             obs |-> IF room.obs.at > disk.obs.at THEN room.obs ELSE disk.obs,
             known |-> room.known \cup disk.known,
             guards |-> (room.guards \cup disk.guards) \ (room.known \cup disk.known),
             startupFailures |-> {}]
      BY DEF MergedRoom, promoted, merged
    <2> QED BY <1>9, <2>1 DEF Types, Rooms, Disks
  <1>11. Statuses(promoted) = Statuses(merged)
    BY <1>6 DEF Statuses
  <1>12. NoRecord.status = "none"
    BY DEF NoRecord
  <1> QED BY <1>1, <1>4, <1>5, <1>6, <1>10, <1>11, <1>12

\* Recovery stores what is shown and shows what is stored, or leaves the commands alone.
LEMMA RecoverStep ==
  ASSUME IInv, Recover
  PROVE  Agrees /\ Keeps
  <1>1. Types /\ Agreement /\ Running /\ inputs = <<>> /\ boot = "done" /\ ~Available
    BY DEF IInv, Recover, Idle, Quiet
  <1> PICK merged \in Rooms : merged = MergedRoom
    BY <1>1, MergedFacts
  <1>2. ASSUME NEW c \in Command
        PROVE  \/ merged.cmds[c].status = "none"
               \/ /\ merged.cmds[c].status = IF room.cmds[c].status = "none" THEN disk.cmds[c].status
                                             ELSE room.cmds[c].status
                  /\ room.cmds[c].status = "pending" => merged.cmds[c].deadline = room.cmds[c].deadline
                  /\ disk.cmds[c].status = "pending" => merged.cmds[c].deadline = disk.cmds[c].deadline
    BY <1>1, MergedFacts
  <1> DEFINE saved == [disk EXCEPT !.cmds = merged.cmds, !.obs = merged.obs, !.guards = merged.guards,
                                   !.known = merged.known]
  <1>3. /\ saved \in Disks /\ IsFiniteSet(Intents(saved)) /\ saved.receipts = disk.receipts
        /\ saved.cmds = merged.cmds /\ saved.obs = merged.obs /\ saved.outbox = disk.outbox
    BY <1>1 DEF Types, Rooms, Disks, Intents
  <1>4. ~ActiveConflict => One(merged.cmds)
    <2> SUFFICES ASSUME ~ActiveConflict, NEW c \in Command, NEW d \in Command,
                        IsActive(merged.cmds, c), IsActive(merged.cmds, d)
                 PROVE  c = d
      BY DEF One, ActiveCommands
    <2>1. /\ IsActive(room.cmds, c) \/ IsActive(disk.cmds, c)
          /\ IsActive(room.cmds, d) \/ IsActive(disk.cmds, d)
      BY <1>2 DEF IsActive, ActiveStatus
    <2> QED BY <1>1, <2>1 DEF ActiveConflict, Agreement, One, ActiveCommands
  <1>5. \/ /\ storage' = "recovering"
           /\ UNCHANGED <<now, faults, process, boot, room, control, inputs, attempts, led, disk>>
        \/ /\ ~ActiveConflict
           /\ storage' = "available" /\ room' = merged /\ disk' = saved
           /\ Reconcile(merged.cmds, control)
           /\ UNCHANGED <<now, faults, process, boot, led>>
        \/ /\ storage' = "degraded" /\ Fault
           /\ UNCHANGED <<now, process, boot, room, control, inputs, attempts, led, disk>>
        \/ ~ActiveConflict /\ Indeterminate({disk, saved})
    BY DEF Recover
  <1> HIDE DEF saved
  <1>6. ASSUME storage' \in {"recovering", "degraded"}, faults' \in 0..MaxFaults,
               UNCHANGED <<now, process, boot, room, control, inputs, attempts, led, disk>>
        PROVE  Agrees /\ Keeps
    BY <1>1, <1>6, QuietStep, NoInputs DEF Types
  \* What a saving recovery does to the stored commands, and to those in memory.
  <1>7. ASSUME disk'.cmds = merged.cmds,
               \/ process' = process /\ room' = merged
               \/ process' # "running" /\ room' = EmptyRoom
        PROVE  KeepsCommands /\ Promise!Save
    <2>1. /\ Shown = Statuses(room.cmds) /\ Stored = Statuses(disk.cmds)
          /\ Stored' = Statuses(merged.cmds)
      BY <1>1, <1>7 DEF Shown, Stored, Statuses
    <2>2. Promise!Remembers(Promise!Merge(Shown, Stored), Stored')
      BY <1>1, <2>1, MergedFacts
    <2>3. Shown' = Stored' /\ Running' \in BOOLEAN
      BY <1>1, <1>7 DEF Shown, Stored, Running
    <2>4. KeepsCommands
      BY <1>2, <1>7 DEF KeepsCommands, EmptyRoom, NoRecord, IsActive, ActiveStatus
    <2> QED BY <1>1, <2>2, <2>3, <2>4 DEF Promise!Save
  <1>8. CASE /\ ~ActiveConflict
             /\ storage' = "available" /\ room' = merged /\ disk' = saved
             /\ Reconcile(merged.cmds, control)
             /\ UNCHANGED <<now, faults, process, boot, led>>
    <2>1. control' \in Controls /\ inputs' \in Seq(Plain) /\ attempts' \in Seq(Command)
      BY <1>1, <1>4, <1>8, ReconcileType DEF Types, Rooms, Lists
    <2>2. KeepsCommands /\ Promise!Save
      BY <1>3, <1>7, <1>8
    <2>3. Agreement'
      BY <1>1, <1>3, <1>4, <1>8 DEF Agreement, Synced, DurableIsStored, MemoryFollows, Follows, DownIsEmpty, Running
    <2>4. Types' /\ RequestsAreFresh' /\ ClosingIsOwn'
      BY <1>1, <1>3, <1>8, <2>1, PlainInputs DEF Types, Intents, ClosingIsOwn
    <2> QED BY <2>2, <2>3, <2>4 DEF Agrees, Keeps, Promise!Next
  <1>9. CASE ~ActiveConflict /\ Indeterminate({disk, saved})
    <2>1. Keeps
      <3>1. \A d \in {disk, saved} : d \in Disks /\ IsFiniteSet(Intents(d))
        BY <1>1, <1>3 DEF Types
      <3> QED BY <1>1, <1>9, <3>1, IndeterminateKeeps
    <2>2. CASE Halt("fatal", disk)
      BY <1>1, <2>1, <2>2, HaltAgrees
    <2>3. CASE Halt("fatal", saved)
      <3>1. process' = "fatal" /\ disk' = saved /\ room' = EmptyRoom
        BY <2>3 DEF Halt
      <3>2. KeepsCommands /\ Promise!Save
        BY <1>3, <1>7, <3>1
      <3>3. Agreement'
        <4>1. \A c \in Command : EmptyRoom.cmds[c].status = "none"
          BY DEF EmptyRoom, NoRecord
        <4> QED BY <1>3, <1>4, <1>9, <3>1, <4>1
                DEF Agreement, Synced, DurableIsStored, MemoryFollows, Follows, DownIsEmpty, Running,
                    One, ActiveCommands, IsActive, ActiveStatus
      <3> QED BY <2>1, <3>2, <3>3 DEF Agrees, Promise!Next
    <2> QED BY <1>9, <2>1, <2>2, <2>3 DEF Indeterminate
  <1> QED BY <1>1, <1>5, <1>6, <1>8, <1>9, FaultType DEF Types

\* The process starts with what is stored, or with nothing.
LEMMA RestartStep ==
  ASSUME IInv, Restart
  PROVE  Agrees /\ Keeps
  <1>1. Types /\ Agreement /\ ~Running
    BY DEF IInv, Restart
  <1>2. \/ storage' = "available" /\ room' = Restored /\ UNCHANGED faults
        \/ EnterDegraded /\ room' = [Restored EXCEPT !.known = {}]
        \/ EnterDegraded /\ room' = EmptyRoom
    BY DEF Restart
  <1>3. /\ process' = "running" /\ inputs' = LostCommands(room')
        /\ UNCHANGED <<now, boot, control, attempts, led, disk>>
    BY DEF Restart
  <1>4. /\ Restored \in Rooms /\ Restored.cmds = disk.cmds /\ Restored.obs = disk.obs
        /\ [Restored EXCEPT !.known = {}] \in Rooms /\ [Restored EXCEPT !.known = {}].cmds = disk.cmds
    BY <1>1 DEF Types, Disks, Rooms, Restored
  <1>5. /\ room' \in Rooms
        /\ \/ room'.cmds = disk.cmds
           \/ storage' # "available" /\ \A c \in Command : room'.cmds[c].status = "none"
        /\ storage' = "available" => room'.cmds = disk.cmds /\ room'.obs = disk.obs
    <2>1. EmptyRoom \in Rooms /\ \A c \in Command : EmptyRoom.cmds[c].status = "none"
      BY EmptyTypes DEF EmptyRoom, NoRecord
    <2>2. CASE storage' = "available" /\ room' = Restored
      BY <1>4, <2>2
    <2>3. CASE EnterDegraded /\ room' = [Restored EXCEPT !.known = {}]
      BY <1>4, <2>3 DEF EnterDegraded
    <2>4. CASE EnterDegraded /\ room' = EmptyRoom
      BY <2>1, <2>4 DEF EnterDegraded
    <2> QED BY <1>2, <2>2, <2>3, <2>4
  <1>6. faults' \in 0..MaxFaults /\ storage' \in {"available", "degraded"}
    BY <1>1, <1>2, FaultStep DEF Types
  <1>7. One(room'.cmds)
    BY <1>1, <1>5 DEF Agreement, One, ActiveCommands, IsActive, ActiveStatus
  <1>8. inputs' \in Seq(Own)
    <2> DEFINE lost == {d \in ActiveCommands(room'.cmds) : room'.cmds[d].admitted = "volatile"}
               S == {Input("failed", c, "off", now, FALSE) : c \in lost}
    <2>1. lost \in SUBSET Command /\ IsFiniteSet(lost)
      BY <1>7, FewFinite DEF One, ActiveCommands
    <2> HIDE DEF lost
    <2>2. IsFiniteSet(S) /\ S \subseteq Own
      BY <1>1, <2>1, OncePerCommand DEF InputKinds, RequestKinds, Types
    <2>3. inputs' = SetToSeq(S)
      BY <1>3 DEF LostCommands, lost
    <2> HIDE DEF S
    <2>4. SetToSeq(S) \in Seq(S)
      BY <2>2, SetToSeqType
    <2> QED BY <2>2, <2>3, <2>4, SeqOfPart
  <1>9. Types'
    BY <1>1, <1>3, <1>5, <1>6, <1>8, OwnInputs, PlainInputs DEF Types, Intents
  <1>10. Agreement'
    BY <1>1, <1>3, <1>5, <1>7
       DEF Agreement, Synced, Available, DurableIsStored, MemoryFollows, Follows, DownIsEmpty, Running
  <1>11. Promise!Start
    <2>1. Stored' = Stored /\ Shown = Stored
      BY <1>1, <1>3 DEF Shown, Stored
    <2>2. Shown' \in {Stored, [c \in Command |-> "none"]}
      BY <1>3, <1>5 DEF Shown, Stored, Running
    <2> QED BY <1>1, <1>3, <2>1, <2>2 DEF Promise!Start, Running
  <1>12. KeepsCommands
    BY <1>1, <1>3, <1>5 DEF KeepsCommands, Agreement, DownIsEmpty, IsActive, ActiveStatus
  <1> QED BY <1>8, <1>9, <1>10, <1>11, <1>12, OwnInputs, PlainInputs DEF Agrees, Keeps, Promise!Next

\* Startup ends with the outbox reconciled.
LEMMA ResumeStep ==
  ASSUME IInv, ResumeCommands
  PROVE  Agrees /\ Keeps
  <1>1. Types /\ Agreement /\ inputs = <<>> /\ boot' = "done"
        /\ UNCHANGED <<now, faults, process, storage, room, led, disk>>
    BY DEF IInv, ResumeCommands, Quiet
  <1> DEFINE ctl == ScheduleTimeouts(control, room.cmds, Command)
  <1>2. ctl \in Controls
    BY <1>1, ScheduleType DEF Types, Rooms, Lists
  <1>3. Reconcile(room.cmds, ctl) \/ (control' = ctl /\ UNCHANGED <<inputs, attempts>>)
    BY DEF ResumeCommands
  <1> HIDE DEF ctl
  <1>4. control' \in Controls /\ inputs' \in Seq(Plain) /\ attempts' \in Seq(Command)
    <2>1. CASE Reconcile(room.cmds, ctl)
      BY <1>1, <1>2, <2>1, ReconcileType DEF Types, Rooms, Lists, Agreement
    <2>2. CASE control' = ctl /\ UNCHANGED <<inputs, attempts>>
      BY <1>1, <1>2, <2>2, NoInputs DEF Types
    <2> QED BY <1>3, <2>1, <2>2
  <1> QED BY <1>1, <1>4, QuietStep DEF Types

-----------------------------------------------------------------------------
(* The theorems *)

\* The invariant holds at first, and the initial state is one of CommandPromise.
LEMMA InitStep ==
  ASSUME Init
  PROVE  IInv /\ Promise!Init
  <1>1. /\ now = 1 /\ faults = 0 /\ process = "running" /\ boot = "done" /\ storage = "available"
        /\ room = EmptyRoom /\ control = EmptyControl /\ inputs = <<>> /\ attempts = <<>>
        /\ led = FreshLed /\ disk = EmptyDisk
    BY DEF Init
  <1>2. \A c \in Command : NoRecord.status = "none"
    BY DEF NoRecord
  <1>3. EmptyDisk \in Disks /\ Intents(EmptyDisk) = {} /\ EmptyDisk.cmds = EmptyRoom.cmds
        /\ EmptyDisk.obs = EmptyRoom.obs /\ \A c \in Command : EmptyRoom.cmds[c] = NoRecord
    <2>1. EmptyRoom.cmds \in Lists
      BY EmptyTypes DEF Rooms
    <2> QED BY <2>1, NoRecordType DEF EmptyDisk, EmptyRoom, Disks, Intents
  <1>4. Types
    BY <1>1, <1>3, EmptyTypes, NoInputs, FS_EmptySet, CommandDeliveryAssumption DEF Types
  <1>5. Agreement
    BY <1>1, <1>2, <1>3 DEF Agreement, One, ActiveCommands, IsActive, ActiveStatus, Synced, DurableIsStored,
       MemoryFollows, Follows, DownIsEmpty, Running
  <1>6. RequestsAreFresh /\ ClosingIsOwn
    BY <1>1, NoInputs DEF RequestsAreFresh, ClosingIsOwn
  <1>7. Promise!Init
    BY <1>1, <1>2, <1>3 DEF Promise!Init, Running, Shown, Stored
  <1> QED BY <1>4, <1>5, <1>6, <1>7 DEF IInv

\* Every step keeps the invariant and the deadlines, and is one of CommandPromise.
LEMMA NextStep ==
  ASSUME IInv, [Next]_vars
  PROVE  IInv' /\ [Promise!Next]_Promise!vars /\ KeepsCommands
  <1>1. CASE Next
    <2>1. CASE ProcessEvent \/ PersistOutboxMutation \/ RunAttempt
      BY <2>1, ProcessEventStep, PersistStep, RunStep DEF Agrees, Keeps, IInv
    <2>2. CASE \E c \in Command : RetryFires(c) \/ TimeoutFires(c) \/ LedTimerFires(c)
      BY <2>2, TimerStep DEF Agrees, Keeps, IInv
    <2>3. CASE \E c \in Command, power \in Power : RequestCommand(c, power) \/ RejectCommand(c, power)
      BY <2>3, RequestStep DEF Agrees, Keeps, IInv
    <2>4. CASE Recover \/ OtherTransaction \/ Tick \/ Crash \/ Restart
      BY <2>4, RecoverStep, OtherStep, RestartStep DEF Agrees, Keeps, IInv
    <2>5. CASE ListReceipts \/ (\E c \in Command : RestorePlan(c)) \/ ReportCurrentState \/ ResumeCommands
      BY <2>5, ListStep, RestoreStep, ReportStep, ResumeStep DEF Agrees, Keeps, IInv
    <2> QED BY <1>1, <2>1, <2>2, <2>3, <2>4, <2>5 DEF Next
  <1>2. CASE UNCHANGED vars
    <2>1. UNCHANGED <<now, faults, process, boot, storage, room, control, inputs, attempts, led, disk>>
      BY <1>2 DEF vars
    <2>2. Agrees
      BY <2>1, CommandsStayAgrees DEF CommandsStay, IInv
    <2>3. Types' /\ RequestsAreFresh' /\ ClosingIsOwn'
      BY <2>1 DEF IInv, Types, Intents, RequestsAreFresh, Fresh, ClosingIsOwn
    <2> QED BY <2>2, <2>3 DEF Agrees, IInv
  <1> QED BY <1>1, <1>2

\* Memory and the stored checkpoint agree at every moment, through outages, recoveries,
\* crashes and restarts: with storage available they are equal, what is marked durable is
\* equal in both, and no command that memory holds is further in storage; a stored command
\* that memory has dropped from its list is left out of that.
THEOREM Invariance == Spec => []IInv
  <1>1. Init => IInv
    BY InitStep
  <1>2. IInv /\ [Next]_vars => IInv'
    BY NextStep
  <1> QED BY <1>1, <1>2, PTL DEF Spec

\* The variables have their types (CommandDelivery.TypeOK).
THEOREM TypeCorrect == Spec => []TypeOK
  <1>1. ASSUME Types PROVE TypeOK
    <2>1. /\ now \in Nat \ {0} /\ faults \in 0..MaxFaults
          /\ process \in {"running", "crashed", "fatal", "uncaught"}
          /\ boot \in {"closing", "sources", "resume", "done"}
          /\ storage \in {"available", "degraded", "recovering"}
          /\ room \in [cmds : [Command -> Records], obs : Observations, known : SUBSET Command,
                       guards : SUBSET Command, startupFailures : SUBSET Command]
          /\ control \in [work : [Command -> {"none"} \cup Durability],
                          timeoutAt : [Command -> Nat], retryAt : [Command -> Nat]]
      BY <1>1 DEF Types, Rooms, Lists, Controls
    <2>2. \A i \in 1..Len(inputs) :
            inputs[i] \in [kind : InputKinds, cmd : Command \cup {NoCommand}, power : Power,
                           at : Nat, durable : BOOLEAN]
      <3>1. \A i \in 1..Len(inputs) : inputs[i] \in Inputs
        BY <1>1 DEF Types
      <3> QED BY <3>1 DEF Inputs, InputKinds
    <2>3. \A i \in 1..Len(attempts) : attempts[i] \in Command
      BY <1>1 DEF Types
    <2>4. NoReceipt \in Receipts /\ RealReceipts \subseteq Receipts /\ Outcomes \subseteq Receipts
      BY NoRecordType DEF NoReceipt, Receipts, RealReceipts, Outcomes, NoTime
    <2>5. led \in [armed : [Command -> [receipt : Receipts, durable : BOOLEAN]],
                   emitted : SUBSET Command, restoring : SUBSET Command, lamp : Power]
      <3>1. {NoPlan} \cup [receipt : Outcomes, durable : BOOLEAN] \subseteq [receipt : Receipts, durable : BOOLEAN]
        <4>1. NoPlan \in [receipt : Receipts, durable : BOOLEAN]
          BY <2>4 DEF NoPlan
        <4> QED BY <2>4, <4>1
      <3> QED BY <1>1, <3>1 DEF Types, Leds
    <2>6. disk \in [cmds : [Command -> Records], obs : Observations, guards : SUBSET Command,
                    known : SUBSET Command,
                    outbox : [Command -> {"none", "ready", "uncertain", "delivered", "closed"}],
                    receipts : [Command -> Receipts]]
      BY <1>1, <2>4 DEF Types, Disks, Lists
    <2> QED BY <2>1, <2>2, <2>3, <2>5, <2>6 DEF TypeOK
  <1>2. IInv => TypeOK
    BY <1>1 DEF IInv
  <1> QED BY <1>2, Invariance, PTL

\* The LED never has two active commands: the conflict check of
\* attemptStorageRecovery is enough, although memory and the checkpoint are merged.
THEOREM OneActiveCommand == Spec => []SingleActive
  <1>1. ASSUME NEW cmds, One(cmds) PROVE Cardinality(ActiveCommands(cmds)) <= 1
    <2>1. CASE ActiveCommands(cmds) = {}
      BY <2>1, FS_EmptySet
    <2>2. CASE ActiveCommands(cmds) # {}
      <3>1. PICK c : ActiveCommands(cmds) = {c}
        BY <1>1, <2>2 DEF One
      <3> QED BY <3>1, FS_Singleton
    <2> QED BY <2>1, <2>2
  <1>2. IInv => SingleActive
    BY <1>1 DEF IInv, Agreement, SingleActive
  <1> QED BY <1>2, Invariance, PTL

\* What the API marks durable is stored as shown, and with storage available the
\* checkpoint holds all that is shown (materializePreparedTransition, commitPreparedEvent).
THEOREM DurableIsBelievable == Spec => []DurableMeansStored
  <1>1. IInv => DurableMeansStored
    BY DEF IInv, Agreement, Synced, DurableIsStored, DurableMeansStored, Idle, Quiet
  <1> QED BY <1>1, Invariance, PTL

\* No retry, late handoff, recovery or restart moves the deadline of a pending command,
\* in memory or in storage: one half of OneDelivery.
THEOREM DeadlinesStay == Spec => DeadlineFixed
  <1>1. IInv /\ [Next]_vars =>
          [\A c \in Command :
             /\ room.cmds[c].status = "pending" /\ room'.cmds[c].status # "none"
                  => room'.cmds[c].deadline = room.cmds[c].deadline
             /\ disk.cmds[c].status = "pending" /\ disk'.cmds[c].status # "none"
                  => disk'.cmds[c].deadline = disk.cmds[c].deadline]_vars
    BY NextStep DEF KeepsCommands
  <1> QED BY <1>1, Invariance, PTL DEF Spec, DeadlineFixed

\* CommandDelivery implements CommandPromise: every step of the controller, the event
\* processor, the LED, recovery and startup moves one command forward, saves, stops,
\* starts, or is invisible to clients and to the next process.
THEOREM PromiseKept == Spec => ImplementsPromise
  <1>1. Init => Promise!Init
    BY InitStep
  <1>2. IInv /\ [Next]_vars => [Promise!Next]_Promise!vars
    BY NextStep
  <1> QED BY <1>1, <1>2, Invariance, PTL DEF Spec, ImplementsPromise, Promise!Spec

-----------------------------------------------------------------------------
(* What the promise comes to *)

\* Every move of the lifecycle goes forward.
LEMMA LifecycleMovesForward ==
  ASSUME NEW s, NEW t, <<s, t>> \in Promise!Moves
  PROVE  Promise!Rank(s) < Promise!Rank(t)
  BY SMTT(30) DEF Promise!Moves, Promise!Rank

\* What is stored is behind what is shown, of every command that is shown.
LEMMA StoredBehind ==
  ASSUME IInv
  PROVE  Promise!StoredIsBehind
  <1> SUFFICES ASSUME NEW c \in Command, Shown[c] # "none"
               PROVE  Shown[c] = Stored[c] \/ Promise!Rank(Stored[c]) < Promise!Rank(Shown[c])
    BY DEF Promise!StoredIsBehind
  <1>1. CASE Running
    BY <1>1 DEF IInv, Agreement, MemoryFollows, Follows, Shown, Stored
  <1>2. CASE ~Running
    BY <1>2 DEF Shown, Stored
  <1> QED BY <1>1, <1>2

\* A list that drops outcomes of one that is further than f is further than f.
LEMMA RemembersAdvances ==
  ASSUME NEW f, NEW g, NEW h, Promise!Remembers(g, h),
         \A c \in Command : g[c] = f[c] \/ Promise!Rank(f[c]) < Promise!Rank(g[c])
  PROVE  Promise!OnlyAdvances(f, h)
  <1> SUFFICES ASSUME NEW c \in Command
               PROVE  \/ h[c] = f[c]
                      \/ Promise!Rank(f[c]) < Promise!Rank(h[c])
                      \/ h[c] = "none" /\ Promise!Cardinality(Promise!Outcomes(h)) >= RecentLimit
    BY DEF Promise!OnlyAdvances
  <1>1. CASE h[c] = g[c]
    BY <1>1
  <1>2. CASE h[c] # g[c]
    BY <1>2 DEF Promise!Remembers
  <1> QED BY <1>1, <1>2

\* A step that keeps the promise takes nothing back.
LEMMA PromiseStepAdvances ==
  ASSUME Promise!StoredIsBehind, [Promise!Next]_Promise!vars
  PROVE  /\ Promise!OnlyAdvances(Stored, Stored')
         /\ Running /\ Running' => Promise!OnlyAdvances(Shown, Shown')
  <1> DEFINE Moved1(c, t) == [Shown EXCEPT ![c] = t]
  <1>1. Shown = [c \in Command |-> Shown[c]] /\ Stored = [c \in Command |-> Stored[c]]
    BY DEF Shown, Stored
  <1>2. \A f : Promise!OnlyAdvances(f, f)
    BY DEF Promise!OnlyAdvances
  <1>3. ASSUME NEW c \in Command, NEW t \in Promise!Status, Promise!MayMove(c, t)
        PROVE  \A d \in Command : \/ Moved1(c, t)[d] = Shown[d]
                                  \/ Promise!Rank(Shown[d]) < Promise!Rank(Moved1(c, t)[d])
    BY <1>1, <1>3, LifecycleMovesForward DEF Promise!MayMove
  <1>4. ASSUME NEW c \in Command, NEW t \in Promise!Status, Promise!Advance(c, t)
        PROVE  Promise!OnlyAdvances(Stored, Stored') /\ Promise!OnlyAdvances(Shown, Shown')
    <2>1. /\ Promise!MayMove(c, t) /\ Promise!Remembers(Moved1(c, t), Shown')
          /\ Stored' = Stored \/ (Stored = Shown /\ Stored' = Shown')
      BY <1>4 DEF Promise!Advance
    <2> HIDE DEF Moved1
    <2>2. Promise!OnlyAdvances(Shown, Shown')
      BY <1>3, <2>1, RemembersAdvances
    <2> QED BY <1>2, <2>1, <2>2
  <1>5. ASSUME NEW c \in Command, NEW t \in Promise!Status, Promise!AdvanceAndStop(c, t)
        PROVE  Promise!OnlyAdvances(Stored, Stored') /\ ~Running'
    <2>1. /\ Promise!MayMove(c, t) /\ Promise!Remembers(Moved1(c, t), Stored')
          /\ Stored = Shown /\ Running' = FALSE
      BY <1>5 DEF Promise!AdvanceAndStop
    <2> HIDE DEF Moved1
    <2> QED BY <1>3, <2>1, RemembersAdvances
  <1>6. ASSUME Promise!Save
        PROVE  /\ Promise!OnlyAdvances(Stored, Stored')
               /\ Promise!OnlyAdvances(Shown, Shown')
    <2> DEFINE merge == Promise!Merge(Shown, Stored)
    <2>1. Promise!Remembers(merge, Stored') /\ Shown' = Stored'
      BY <1>6 DEF Promise!Save
    <2>2. \A c \in Command : merge[c] = IF Shown[c] = "none" THEN Stored[c] ELSE Shown[c]
      BY DEF Promise!Merge
    <2> HIDE DEF merge
    <2>3. \A c \in Command : merge[c] = Stored[c] \/ Promise!Rank(Stored[c]) < Promise!Rank(merge[c])
      BY <2>2 DEF Promise!StoredIsBehind
    <2>4. \A c \in Command : merge[c] = Shown[c] \/ Promise!Rank(Shown[c]) < Promise!Rank(merge[c])
      <3> SUFFICES ASSUME NEW c \in Command, Shown[c] = "none", Stored[c] # "none"
                   PROVE  Promise!Rank(Shown[c]) < Promise!Rank(Stored[c])
        BY <2>2
      <3> QED BY DEF Promise!Rank
    <2> QED BY <2>1, <2>3, <2>4, RemembersAdvances
  <1>7. ASSUME Promise!Stop \/ Promise!Start
        PROVE  Promise!OnlyAdvances(Stored, Stored') /\ ~(Running /\ Running')
    BY <1>2, <1>7 DEF Promise!Stop, Promise!Start
  <1>8. ASSUME UNCHANGED Promise!vars
        PROVE  Promise!OnlyAdvances(Stored, Stored') /\ Promise!OnlyAdvances(Shown, Shown')
    BY <1>2, <1>8 DEF Promise!vars
  <1> QED BY <1>4, <1>5, <1>6, <1>7, <1>8 DEF Promise!Next

\* In storage, whatever fails or restarts, and before clients while a process runs, no
\* command on the list goes back along its lifecycle and no outcome is replaced; one that
\* leaves the list leaves RecentLimit outcomes there (mergeRecoveryProjection,
\* selectRecentCommands).
THEOREM CommandsOnlyAdvance ==
  Spec => [][/\ Promise!OnlyAdvances(Stored, Stored')
             /\ Running /\ Running' => Promise!OnlyAdvances(Shown, Shown')]_vars
  <1>1. IInv /\ [Next]_vars =>
          /\ Promise!OnlyAdvances(Stored, Stored')
          /\ Running /\ Running' => Promise!OnlyAdvances(Shown, Shown')
    BY NextStep, StoredBehind, PromiseStepAdvances
  <1> QED BY <1>1, Invariance, PTL DEF Spec

-----------------------------------------------------------------------------
(* What admissions, intents and receipts say of each other *)

\* Every command admitted as durable has an intent, unless it was refused, and no other
\* on the list has one; a receipt is of a command with an intent; an intent is delivered
\* only with a receipt, and closed only of a command that is not active.
Backed(d, c) ==
  /\ d.cmds[c].status # "none" /\ d.cmds[c].admitted = "durable" =>
       d.outbox[c] # "none" \/ d.cmds[c].status = "failed"
  /\ d.outbox[c] # "none" /\ d.cmds[c].status # "none" => d.cmds[c].admitted = "durable"
  /\ d.receipts[c] # NoReceipt => d.outbox[c] # "none"
  /\ d.outbox[c] = "delivered" => d.receipts[c] # NoReceipt
  /\ d.outbox[c] = "closed" => ~IsActive(d.cmds, c)

AllBacked(d) == \A c \in Command : Backed(d, c)

\* What is shown as admitted durably is stored so, with an intent unless it was refused;
\* and what is shown of a command with an intent is stored too.
MemoryIsBacked ==
  \A c \in Command : room.cmds[c].status # "none" =>
    /\ room.cmds[c].admitted = "durable" =>
         /\ disk.cmds[c].status # "none"
         /\ disk.outbox[c] # "none" \/ room.cmds[c].status = "failed"
    /\ disk.cmds[c].status # "none" => room.cmds[c].admitted = disk.cmds[c].admitted
    /\ disk.outbox[c] # "none" => disk.cmds[c].status # "none"

\* An event carries an outbox mutation only for an intent that is stored, a durable handoff
\* only for a receipt that is, and an intent is closed only of a command that is not active.
BackedInputs ==
  {e \in Plain :
     /\ e.durable /\ e.kind # "report" => disk.outbox[e.cmd] # "none"
     /\ e.kind = "mark_uncertain" => e.durable
     /\ e.kind = "dispatched" /\ e.durable => disk.receipts[e.cmd] # NoReceipt
     /\ e.kind = "close" => ~IsActive(room.cmds, e.cmd)}

\* A request carries an intent exactly if storage is available.
InputsAreBacked ==
  \/ inputs \in Seq(BackedInputs)
  \/ \E e \in Inputs : /\ inputs = <<e>> /\ e.kind \in RequestKinds
                       /\ e.kind = "requested" => (e.durable <=> Available)

\* Durable work has an intent, and retries are of active commands.
WorkIsBacked ==
  \A c \in Command :
    /\ control.work[c] = "durable" => disk.outbox[c] # "none"
    /\ control.retryAt[c] # NoTime => IsActive(room.cmds, c)

Closings == {e \in Inputs : e.kind = "close"}

\* At most one attempt is scheduled, of the active command, with nothing before it but
\* closures of other commands' intents.
AttemptIsActive ==
  \/ attempts = <<>>
  \/ \E c \in Command : attempts = <<c>> /\ IsActive(room.cmds, c) /\ inputs \in Seq(Closings)

\* The LED's durable plans have receipts.
PlansAreReceived == \A c \in Command : led.armed[c].durable => disk.receipts[c] # NoReceipt

\* The invariant on top of IInv.
Backing ==
  /\ AllBacked(disk) /\ MemoryIsBacked /\ InputsAreBacked /\ WorkIsBacked
  /\ AttemptIsActive /\ PlansAreReceived

\* The LED accepts live commands only (DispatchOnlyLive).
AcceptsLive ==
  \A c \in Command :
    disk.receipts[c] = NoReceipt /\ disk'.receipts[c] # NoReceipt
    => /\ IsActive(room.cmds, c)
       /\ room.cmds[c].admitted = "durable"
       /\ room.cmds[c].status = "pending" => now < room.cmds[c].deadline
       /\ disk.outbox[c] \in {"ready", "uncertain"}

Backs == Backing' /\ AcceptsLive

-----------------------------------------------------------------------------
(* What steps do to it *)

\* No intent and no receipt is removed.
Grows ==
  \A c \in Command : /\ disk.outbox[c] # "none" => disk'.outbox[c] # "none"
                     /\ disk.receipts[c] # NoReceipt => disk'.receipts[c] # NoReceipt

\* So what is queued stays backed, as long as no command becomes active.
LEMMA BackedStays ==
  ASSUME Grows, \A c \in Command : IsActive(room'.cmds, c) => IsActive(room.cmds, c)
  PROVE  BackedInputs \subseteq BackedInputs'
  BY DEF BackedInputs, Grows, Plain, Inputs, RequestKinds

\* A bare event is backed by nothing.
LEMMA BareBacked ==
  ASSUME NEW e \in Plain, ~e.durable, e.kind \notin {"mark_uncertain", "close"}
  PROVE  e \in BackedInputs /\ e \in BackedInputs'
  BY DEF BackedInputs

\* A process that ends leaves no debts but those of the disk.
LEMMA HaltBacks ==
  ASSUME NEW cause, NEW d, Halt(cause, d), AllBacked(d), d.receipts = disk.receipts \/ AcceptsLive
  PROVE  Backs
  <1>1. /\ disk' = d /\ room' = EmptyRoom /\ control' = EmptyControl /\ inputs' = <<>>
        /\ attempts' = <<>> /\ led' = FreshLed
    BY DEF Halt
  <1>2. \A c \in Command : EmptyRoom.cmds[c] = NoRecord /\ NoRecord.status = "none"
                           /\ EmptyControl.work[c] = "none" /\ EmptyControl.retryAt[c] = NoTime
                           /\ FreshLed.armed[c] = NoPlan /\ NoPlan.durable = FALSE
    BY DEF EmptyRoom, NoRecord, EmptyControl, FreshLed, NoPlan
  <1>3. AllBacked(disk)'
    BY <1>1 DEF AllBacked, Backed, IsActive
  <1>4. InputsAreBacked' /\ AttemptIsActive'
    BY <1>1 DEF InputsAreBacked, AttemptIsActive
  <1>5. MemoryIsBacked' /\ WorkIsBacked' /\ PlansAreReceived'
    BY <1>1, <1>2 DEF MemoryIsBacked, WorkIsBacked, PlansAreReceived, Durability
  <1> QED BY <1>1, <1>3, <1>4, <1>5 DEF Backs, Backing, AcceptsLive

-----------------------------------------------------------------------------
(* Processing an event *)

\* What an event makes of the admission of commands, and of its own command.
Effect(e, p) ==
  /\ \A c \in Command :
       \/ p.cmds[c] \in {NoRecord, room.cmds[c]}
       \/ /\ p.cmds[c].status # "none"
          /\ room.cmds[c].status # "none" => p.cmds[c].admitted = room.cmds[c].admitted
  /\ p.accepted /\ e.kind \in {"failed", "rejected", "rejection"} => p.cmds[e.cmd].status \in {"failed", "none"}
  /\ p.accepted /\ e.kind = "timed_out" => p.cmds[e.cmd].status \in {"timed_out", "none"}
  /\ p.accepted /\ e.kind = "requested" =>
       room.cmds[e.cmd].status = "none" /\ p.cmds[e.cmd].status = "accepted"

\* A quarantined event does nothing.
LEMMA IgnoredOutcome ==
  ASSUME Types, NEW e
  PROVE  Effect(e, Ignored)
  BY IgnoredType DEF Effect

\* A transition of one command, which it had been admitted as before.
LEMMA ChangedOutcome ==
  ASSUME Types, NEW e, e.cmd \in Command, NEW record \in Records, record.status # "none",
         room.cmds[e.cmd].status # "none" => record.admitted = room.cmds[e.cmd].admitted,
         e.kind \in {"failed", "rejected", "rejection"} => record.status = "failed",
         e.kind = "timed_out" => record.status = "timed_out",
         e.kind = "requested" => room.cmds[e.cmd].status = "none" /\ record.status = "accepted"
  PROVE  Effect(e, Changed(e.cmd, record))
  <1>1. NoRecord.status = "none" /\ "accepted" \notin TerminalStatus
    BY DEF NoRecord, TerminalStatus
  <1> QED BY <1>1, ChangedType DEF Effect

\* A handoff keeps the admission.
LEMMA DispatchedOutcome ==
  ASSUME Types, NEW e \in Inputs, e.kind = "dispatched"
  PROVE  Effect(e, ApplyDispatched(e))
  <1> DEFINE old == room.cmds[e.cmd]
             new == Pending(old, "handed_off", e.at)
             done == Ended(new, "confirmed", room.obs.at)
  <1>1. e.cmd \in Command /\ e.at \in Nat /\ old \in Records /\ room.obs.at \in Nat
    BY DEF Inputs, Types, Rooms, Lists, Observations
  <1>2. CASE MayDispatch(old) /\ e.at >= old.requestedAt
    <2>1. new \in Records /\ new.status = "pending"
      BY <1>1, PendingType
    <2>2. new.admitted = old.admitted
      BY <1>1 DEF Pending, Records
    <2>3. ApplyDispatched(e) = Changed(e.cmd, new) \/ ApplyDispatched(e) = Changed(e.cmd, done)
      BY <1>2 DEF ApplyDispatched
    <2> HIDE DEF new
    <2>4. done \in Records /\ done.status = "confirmed" /\ done.admitted = old.admitted
      BY <1>1, <2>1, <2>2, EndedType DEF TerminalStatus
    <2> HIDE DEF done
    <2>5. Effect(e, Changed(e.cmd, new)) /\ Effect(e, Changed(e.cmd, done))
      BY <1>1, <2>1, <2>2, <2>4, ChangedOutcome
    <2> QED BY <2>3, <2>5
  <1>3. CASE ~(MayDispatch(old) /\ e.at >= old.requestedAt)
    BY <1>3, IgnoredOutcome DEF ApplyDispatched
  <1> QED BY <1>2, <1>3

\* So does a confirmation.
LEMMA ReportOutcome ==
  ASSUME Types, NEW e \in Inputs, e.kind = "report"
  PROVE  Effect(e, ApplyReport(e))
  <1> DEFINE obs == [power |-> e.power, at |-> e.at, receivedAt |-> now]
             new(c) == [Ended(room.cmds[c], "confirmed", e.at) EXCEPT !.source = e.cmd]
             f == [c \in Command |->
                     IF Confirms(c, e.power, e.at) THEN new(c) ELSE room.cmds[c]]
  <1>1. CASE Stale(e)
    <2>1. ApplyReport(e) = [Ignored EXCEPT !.accepted = TRUE]
      BY <1>1 DEF ApplyReport
    <2> QED BY <2>1 DEF Effect, Ignored
  <1>2. CASE ~Stale(e)
    <2>1. ApplyReport(e) = [accepted |-> TRUE, obs |-> obs, cmds |-> Selected(f)]
      BY <1>2 DEF ApplyReport
    <2>2. ASSUME NEW c \in Command
          PROVE  new(c).status = "confirmed" /\ new(c).admitted = room.cmds[c].admitted
      <3>1. room.cmds[c] \in Records
        BY RecordTypes
      <3> QED BY <3>1 DEF Ended, Records
    <2>3. \A c \in Command : Selected(f)[c] \in {NoRecord, f[c]}
      BY DEF Selected
    <2>4. \A c \in Command : f[c] \in {new(c), room.cmds[c]}
      OBVIOUS
    <2> HIDE DEF f, new
    <2> QED BY <2>1, <2>2, <2>3, <2>4 DEF Effect
  <1> QED BY <1>1, <1>2

\* Whatever the event.
LEMMA EventOutcome ==
  ASSUME Types, NEW e \in Inputs, IsEvent(e)
  PROVE  Effect(e, Prepared(e))
  <1> DEFINE old == room.cmds[e.cmd]
  <1>1. e.kind # "report" => e.cmd \in Command /\ old \in Records
    BY DEF Inputs, Types, Rooms, Lists
  <1>2. e.at \in Nat /\ e.power \in Power /\ e.kind \in InputKinds
    BY DEF Inputs, InputKinds
  <1>3. Effect(e, Ignored)
    BY IgnoredOutcome
  <1>4. CASE e.kind \in {"requested", "rejected"}
    <2> DEFINE accepted == [NoRecord EXCEPT !.status = "accepted", !.power = e.power, !.requestedAt = e.at]
               ended == Ended(NoRecord, "failed", e.at)
               failed == [ended EXCEPT !.power = e.power, !.requestedAt = e.at]
    <2>0. ended \in Records /\ ended.status = "failed"
      BY <1>2, NoRecordType, EndedType DEF TerminalStatus
    <2>2. /\ e.kind = "requested" => Apply(e) = Ignored \/ (Apply(e) = Changed(e.cmd, accepted) /\ old.status = "none")
          /\ e.kind = "rejected" => Apply(e) = Ignored \/ (Apply(e) = Changed(e.cmd, failed) /\ old.status = "none")
      BY <1>4 DEF Apply
    <2> HIDE DEF ended
    <2>1. /\ accepted \in Records /\ accepted.status = "accepted"
          /\ failed \in Records /\ failed.status = "failed"
      BY <1>2, <2>0, NoRecordType DEF Records, Status
    <2> HIDE DEF accepted, failed
    <2>3. CASE e.kind = "requested"
      <3>1. old.status = "none" => Effect(e, Changed(e.cmd, accepted))
        BY <1>1, <2>1, <2>3, ChangedOutcome
      <3> QED BY <1>3, <2>2, <2>3, <3>1 DEF Prepared
    <2>4. CASE e.kind = "rejected"
      <3>1. old.status = "none" => Effect(e, Changed(e.cmd, failed))
        BY <1>1, <2>1, <2>4, ChangedOutcome
      <3> QED BY <1>3, <2>2, <2>4, <3>1 DEF Prepared
    <2> QED BY <1>4, <2>3, <2>4
  <1>5. CASE e.kind = "dispatched"
    <2>1. Apply(e) = ApplyDispatched(e)
      BY <1>5 DEF Apply
    <2> QED BY <1>3, <1>5, <2>1, DispatchedOutcome DEF Prepared
  <1>6. CASE e.kind = "report"
    <2>1. Apply(e) = ApplyReport(e)
      BY <1>6 DEF Apply
    <2> QED BY <1>3, <1>6, <2>1, ReportOutcome DEF Prepared
  <1>7. CASE e.kind = "uncertain"
    <2> DEFINE new == Pending(old, "uncertain", e.at)
    <2>1. new \in Records /\ new.status = "pending" /\ new.admitted = old.admitted
      <3>1. new \in Records /\ new.status = "pending"
        BY <1>1, <1>2, <1>7, PendingType
      <3>2. new.admitted = old.admitted
        BY <1>1, <1>7 DEF Pending, Records
      <3> QED BY <3>1, <3>2
    <2>2. Apply(e) = IF old.status = "accepted" /\ e.at >= old.requestedAt THEN Changed(e.cmd, new) ELSE Ignored
      BY <1>7 DEF Apply
    <2> HIDE DEF new
    <2>3. Effect(e, Changed(e.cmd, new))
      BY <1>1, <1>7, <2>1, ChangedOutcome
    <2> QED BY <1>3, <2>2, <2>3 DEF Prepared
  <1>8. CASE e.kind \in {"failed", "rejection", "timed_out"}
    <2> DEFINE failed == Ended(old, "failed", e.at)
               late == Ended(old, "timed_out", e.at)
    <2>1. /\ failed \in Records /\ failed.status = "failed" /\ failed.admitted = old.admitted
          /\ late \in Records /\ late.status = "timed_out" /\ late.admitted = old.admitted
      BY <1>1, <1>2, <1>8, EndedType DEF TerminalStatus
    <2>2. /\ e.kind \in {"failed", "rejection"} => Apply(e) \in {Changed(e.cmd, failed), Ignored}
          /\ e.kind = "timed_out" => Apply(e) \in {Changed(e.cmd, late), Ignored}
      BY <1>8 DEF Apply
    <2> HIDE DEF failed, late
    <2>3. e.kind \in {"failed", "rejection"} => Effect(e, Changed(e.cmd, failed))
      BY <1>1, <1>8, <2>1, ChangedOutcome
    <2>4. e.kind = "timed_out" => Effect(e, Changed(e.cmd, late))
      BY <1>1, <1>8, <2>1, ChangedOutcome
    <2> QED BY <1>3, <1>8, <2>2, <2>3, <2>4 DEF Prepared
  <1> QED BY <1>2, <1>4, <1>5, <1>6, <1>7, <1>8 DEF InputKinds, IsEvent

\* The admission of a command stays with it, a new one has the durability of its event,
\* and what is off the list tells nothing else.
Admits(c, record, durability) ==
  \/ record.admitted = room.cmds[c].admitted /\ (room.cmds[c].status = "none" => record.status = "none")
  \/ record.status = "none" /\ record.admitted = "durable"
  \/ room.cmds[c].status = "none" /\ record.status # "none" /\ record.admitted = durability

\* The durability stamp of an admission stays with the command.
LEMMA StampedAdmission ==
  ASSUME Types, NEW e, NEW p, Applied(e, p), Effect(e, p), NEW durability \in Durability, NEW promoted,
         NEW c \in Command
  PROVE  LET stamped == Stamped(p.cmds, durability, promoted)
         IN  stamped[c].status = p.cmds[c].status /\ Admits(c, stamped[c], durability)
  <1> DEFINE stamped == Stamped(p.cmds, durability, promoted)
  <1>1. /\ p.cmds[c] \in Records
        /\ \/ p.cmds[c] \in {NoRecord, room.cmds[c]}
           \/ /\ p.cmds[c].status # "none"
              /\ room.cmds[c].status # "none" => p.cmds[c].admitted = room.cmds[c].admitted
    BY DEF Applied, Results, Lists, Effect
  <1>2. stamped[c] =
          IF p.cmds[c] \notin {room.cmds[c], NoRecord}
          THEN [p.cmds[c] EXCEPT !.admitted = IF room.cmds[c].status = "none" THEN durability ELSE @,
                                 !.lifecycle = durability]
          ELSE IF c \in promoted THEN [p.cmds[c] EXCEPT !.lifecycle = "durable"] ELSE p.cmds[c]
    BY DEF Stamped
  <1>3. NoRecord.status = "none" /\ NoRecord.admitted = "durable"
    BY DEF NoRecord
  <1> HIDE DEF stamped
  <1>4. ASSUME p.cmds[c] \notin {room.cmds[c], NoRecord}
        PROVE  stamped[c].status = p.cmds[c].status /\ Admits(c, stamped[c], durability)
    <2>1. /\ p.cmds[c].status # "none"
          /\ room.cmds[c].status # "none" => p.cmds[c].admitted = room.cmds[c].admitted
      BY <1>1, <1>4
    <2>2. /\ stamped[c].status = p.cmds[c].status
          /\ stamped[c].admitted = IF room.cmds[c].status = "none" THEN durability ELSE p.cmds[c].admitted
      BY <1>1, <1>2, <1>4 DEF Records
    <2> QED BY <2>1, <2>2 DEF Admits
  <1>5. ASSUME p.cmds[c] \in {room.cmds[c], NoRecord}
        PROVE  stamped[c].status = p.cmds[c].status /\ Admits(c, stamped[c], durability)
    <2>1. stamped[c].status = p.cmds[c].status /\ stamped[c].admitted = p.cmds[c].admitted
      BY <1>1, <1>2, <1>5 DEF Records
    <2>2. CASE p.cmds[c] = room.cmds[c]
      BY <2>1, <2>2 DEF Admits
    <2>3. CASE p.cmds[c] = NoRecord
      BY <1>3, <2>1, <2>3 DEF Admits
    <2> QED BY <1>5, <2>2, <2>3
  <1> QED BY <1>4, <1>5 DEF stamped

\* What an event does, in terms of the room after it.
Becomes(e, p, cmds, durability) ==
  /\ Moved(e, cmds)
  /\ \A c \in Command : cmds[c].status = p.cmds[c].status /\ Admits(c, cmds[c], durability)

\* The room after an event, stored or not.
LEMMA RoomBecomes ==
  ASSUME Types, NEW e \in Inputs, NEW p, Applied(e, p), Effect(e, p)
  PROVE  /\ Becomes(e, p, RoomAfterCommit(e, p).cmds, "durable")
         /\ Becomes(e, p, RoomAfterVolatile(e, p).cmds, "volatile")
  <1>1. Moved(e, RoomAfterCommit(e, p).cmds) /\ Moved(e, RoomAfterVolatile(e, p).cmds)
    BY CommitMoved, VolatileMoved
  <1>2. CASE p.accepted
    <2>1. /\ RoomAfterCommit(e, p).cmds = Stamped(p.cmds, "durable", Reconciled(e))
          /\ RoomAfterVolatile(e, p).cmds = Stamped(p.cmds, "volatile", {})
      BY <1>2 DEF RoomAfterCommit, RoomAfterVolatile, Types, Rooms
    <2>2. "durable" \in Durability /\ "volatile" \in Durability
      BY DEF Durability
    <2> QED BY <1>1, <2>1, <2>2, StampedAdmission DEF Becomes
  <1>3. CASE ~p.accepted
    <2>1. RoomAfterCommit(e, p) = room /\ RoomAfterVolatile(e, p) = room /\ p.cmds = room.cmds
      BY <1>3 DEF RoomAfterCommit, RoomAfterVolatile, Applied
    <2> QED BY <1>1, <2>1 DEF Becomes, Admits
  <1> QED BY <1>2, <1>3

\* A command does not leave its end, nor its failure, but with its place on the list.
LEMMA EndsStay ==
  ASSUME NEW e, NEW cmds, Moved(e, cmds), NEW c \in Command
  PROVE  /\ IsTerminal(room.cmds, c) => IsTerminal(cmds, c) \/ cmds[c].status = "none"
         /\ room.cmds[c].status = "failed" => cmds[c].status \in {"failed", "none"}
         /\ IsActive(cmds, c) => IsActive(room.cmds, c) \/ (e.kind = "requested" /\ c = e.cmd)
  BY DEF Moved, Goes, Promise!Moves, IsTerminal, TerminalStatus

\* What an input may be that is processed next: backed, or a request.
Proper(e) ==
  \/ e \in BackedInputs
  \/ e.kind \in RequestKinds /\ (e.kind = "requested" => (e.durable <=> Available))

\* Where the states of the outbox come from.
LEMMA OutboxOrigins ==
  ASSUME Types, NEW e \in Inputs, IsEvent(e), Proper(e), NEW p, Applied(e, p), Effect(e, p), p.accepted,
         NEW c \in Command, NEW state, state = OutboxAfter(e, p)[c]
  PROVE  /\ state # "none" => disk.outbox[c] # "none" \/ (e.kind = "requested" /\ e.durable /\ c = e.cmd)
         /\ disk.outbox[c] # "none" => state # "none"
         /\ e.kind = "requested" /\ e.durable /\ c = e.cmd => state = "ready"
         /\ state = "delivered" => disk.outbox[c] = "delivered" \/ disk.receipts[c] # NoReceipt
         /\ state = "closed" => disk.outbox[c] = "closed" \/ ~IsActive(p.cmds, c)
  <1>1. disk.outbox \in [Command -> OutboxStates] /\ (e.kind # "report" => e.cmd \in Command)
    BY DEF Types, Disks, OutboxStates, Inputs
  <1>2. e.kind \notin RequestKinds \cup {"report"} /\ e.durable => disk.outbox[e.cmd] # "none"
    BY DEF Proper, BackedInputs
  <1>3. ASSUME NEW C, NEW x, x = Closed(disk.outbox, C)[c]
        PROVE  (x # "none" <=> disk.outbox[c] # "none") /\ (x = disk.outbox[c] \/ (x = "closed" /\ c \in C))
    BY <1>3 DEF Closed
  <1>4. ASSUME NEW s \in {"ready", "delivered", "uncertain", "closed"}, NEW x, e.kind # "report",
               x = [disk.outbox EXCEPT ![e.cmd] = s][c]
        PROVE  (x = s /\ c = e.cmd) \/ (x = disk.outbox[c] /\ c # e.cmd)
    BY <1>1, <1>4
  <1>5. CASE e.kind = "requested" /\ e.durable
    <2>1. OutboxAfter(e, p) = [disk.outbox EXCEPT ![e.cmd] = "ready"]
      BY <1>5 DEF OutboxAfter
    <2> QED BY <1>4, <1>5, <2>1
  <1>6. CASE e.kind = "dispatched" /\ e.durable
    <2>1. OutboxAfter(e, p) = [disk.outbox EXCEPT ![e.cmd] = "delivered"]
      BY <1>6 DEF OutboxAfter
    <2>2. disk.receipts[e.cmd] # NoReceipt
      BY <1>6 DEF Proper, BackedInputs, RequestKinds
    <2> QED BY <1>2, <1>4, <1>6, <2>1, <2>2 DEF RequestKinds
  <1>7. CASE e.kind = "uncertain" /\ e.durable
    <2>1. OutboxAfter(e, p) = [disk.outbox EXCEPT ![e.cmd] = "uncertain"]
      BY <1>7 DEF OutboxAfter
    <2> QED BY <1>2, <1>4, <1>7, <2>1 DEF RequestKinds
  <1>8. CASE e.kind = "failed" /\ e.durable
    <2>1. OutboxAfter(e, p) = [disk.outbox EXCEPT ![e.cmd] = "closed"]
      BY <1>8 DEF OutboxAfter
    <2>2. ~IsActive(p.cmds, e.cmd)
      BY <1>8 DEF Effect, IsActive, ActiveStatus
    <2>3. (state = "closed" /\ c = e.cmd) \/ (state = disk.outbox[c] /\ c # e.cmd)
      BY <1>4, <1>8, <2>1
    <2>4. disk.outbox[e.cmd] # "none"
      BY <1>2, <1>8 DEF RequestKinds
    <2> QED BY <1>8, <2>2, <2>3, <2>4
  <1>9. CASE e.kind \in {"failed", "rejected", "rejection", "timed_out"} /\ ~e.durable
    <2>1. OutboxAfter(e, p) = Closed(disk.outbox, {e.cmd})
      BY <1>9 DEF OutboxAfter
    <2>2. ~IsActive(p.cmds, e.cmd)
      BY <1>9 DEF Effect, IsActive, ActiveStatus
    <2> QED BY <1>3, <1>9, <2>1, <2>2
  <1>10. CASE /\ ~(e.kind \in {"requested", "dispatched", "uncertain", "failed"} /\ e.durable)
              /\ ~(e.kind \in {"failed", "rejected", "rejection", "timed_out"} /\ ~e.durable)
    <2> DEFINE confirmed == {x \in Command : p.cmds[x].status = "confirmed" /\ room.cmds[x].status # "confirmed"}
               again == {x \in Reconciled(e) : p.cmds[x].status = "confirmed"}
    <2>1. OutboxAfter(e, p) = Closed(disk.outbox, again \cup confirmed)
      BY <1>10 DEF OutboxAfter
    <2>2. c \in again => ~IsActive(p.cmds, c)
      BY DEF IsActive, ActiveStatus
    <2>3. c \in confirmed => ~IsActive(p.cmds, c)
      BY DEF IsActive, ActiveStatus
    <2> HIDE DEF confirmed, again
    <2> QED BY <1>3, <1>10, <2>1, <2>2, <2>3
  <1> QED BY <1>5, <1>6, <1>7, <1>8, <1>9, <1>10

\* What is stored stays backed, by the intent that an admission carries.
LEMMA CommitBacked ==
  ASSUME Types, Agreement, Running, Available, AllBacked(disk), NEW e \in Inputs, IsEvent(e), Proper(e),
         NEW p, Applied(e, p), Effect(e, p), NEW d, d = DiskAfterCommit(e, p)
  PROVE  /\ AllBacked(d) /\ d.receipts = disk.receipts
         /\ \A c \in Command : disk.outbox[c] # "none" => d.outbox[c] # "none"
  <1>1. CASE ~p.accepted
    BY <1>1 DEF DiskAfterCommit
  <1>2. CASE p.accepted
    <2> DEFINE cmds == RoomAfterCommit(e, p).cmds
               outbox == OutboxAfter(e, p)
    <2>1. Becomes(e, p, cmds, "durable")
      BY RoomBecomes
    <2>2. d.cmds = cmds /\ d.outbox = outbox /\ d.receipts = disk.receipts
      BY <1>2 DEF DiskAfterCommit, Types, Disks
    <2>3. disk.cmds = room.cmds
      BY DEF Agreement, Synced
    <2> HIDE DEF cmds
    <2>4. ASSUME NEW c \in Command
          PROVE  Backed(d, c) /\ (disk.outbox[c] # "none" => d.outbox[c] # "none")
      <3> PICK state : state = outbox[c]
        OBVIOUS
      <3>1. /\ state # "none" => disk.outbox[c] # "none" \/ (e.kind = "requested" /\ e.durable /\ c = e.cmd)
            /\ disk.outbox[c] # "none" => state # "none"
            /\ e.kind = "requested" /\ e.durable /\ c = e.cmd => state = "ready"
            /\ state = "delivered" => disk.outbox[c] = "delivered" \/ disk.receipts[c] # NoReceipt
            /\ state = "closed" => disk.outbox[c] = "closed" \/ ~IsActive(p.cmds, c)
        BY <1>2, OutboxOrigins
      <3> HIDE DEF outbox
      <3>2. d.cmds[c] = cmds[c] /\ d.outbox[c] = state /\ d.receipts[c] = disk.receipts[c]
        BY <2>2
      <3>3. /\ room.cmds[c].status = "failed" => cmds[c].status \in {"failed", "none"}
            /\ IsActive(cmds, c) => IsActive(room.cmds, c) \/ (e.kind = "requested" /\ c = e.cmd)
        BY <2>1, EndsStay DEF Becomes
      <3>4. IsActive(p.cmds, c) <=> IsActive(cmds, c)
        BY <2>1 DEF Becomes, IsActive
      <3>5. Backed(disk, c)
        BY DEF AllBacked
      <3>6. room.cmds[c].status = "none" /\ cmds[c].status # "none" =>
              /\ c = e.cmd
              /\ (e.kind = "requested" /\ e.durable) \/ cmds[c].status = "failed"
        <4>1. room.cmds[c].status = "none" /\ cmds[c].status # "none" =>
                e.kind \in RequestKinds /\ c = e.cmd
          BY <2>1 DEF Becomes, Moved, RequestKinds
        <4>2. e.kind = "requested" => e.durable
          BY DEF Proper, BackedInputs, Plain, RequestKinds
        <4>3. e.kind = "rejected" /\ c = e.cmd => cmds[c].status \in {"failed", "none"}
          BY <1>2, <2>1 DEF Becomes, Effect
        <4> QED BY <4>1, <4>2, <4>3 DEF RequestKinds
      <3>7. e.kind = "requested" /\ c = e.cmd => room.cmds[c].status = "none" /\ cmds[c].status # "none"
        BY <1>2, <2>1 DEF Becomes, Effect
      <3>8. Admits(c, cmds[c], "durable")
        BY <2>1 DEF Becomes
      <3>9. IsActive(d.cmds, c) <=> IsActive(cmds, c)
        BY <2>2
      <3>10. IsActive(disk.cmds, c) <=> IsActive(room.cmds, c)
        BY <2>3
      <3>11. e.kind = "requested" => e.durable
        BY DEF Proper, BackedInputs, Plain, RequestKinds
      <3> QED BY <2>3, <3>1, <3>2, <3>3, <3>4, <3>5, <3>6, <3>7, <3>8, <3>9, <3>10, <3>11 DEF Backed, Admits
    <2> QED BY <2>2, <2>4 DEF AllBacked
  <1> QED BY <1>1, <1>2

\* The event that is processed next is backed, or a request that waits alone.
LEMMA CurrentBacked ==
  ASSUME Types, InputsAreBacked, inputs # <<>>, IsEvent(Head(inputs)),
         NEW e, e = CurrentEvent.event, NEW rest, rest = CurrentEvent.rest
  PROVE  /\ Proper(e) /\ rest \in Seq(BackedInputs)
         /\ e.kind = "requested" => rest = <<>>
  <1> DEFINE head == Head(inputs)
             late == Expired(room.cmds, Command)
  <1>1. CASE head.kind = "report" /\ late # {}
    <2> PICK c : c = CHOOSE d \in late : TRUE
      OBVIOUS
    <2>1. c \in Command
      BY <1>1 DEF Expired
    <2>2. e = TimedOut(c, room.cmds[c].deadline) /\ rest = inputs
      BY <1>1 DEF CurrentEvent
    <2>3. e \in Plain
      BY <2>1, <2>2, TimedOutPlain DEF Types, Rooms, Lists, Records
    <2>4. e.kind = "timed_out" /\ ~e.durable
      BY <2>2 DEF TimedOut, Input
    <2>5. e \in BackedInputs
      BY <2>3, <2>4, BareBacked
    <2>6. inputs \in Seq(BackedInputs)
      BY <1>1 DEF InputsAreBacked, RequestKinds
    <2> QED BY <2>2, <2>4, <2>5, <2>6 DEF Proper
  <1>2. CASE ~(head.kind = "report" /\ late # {})
    <2>1. e = head /\ rest = Tail(inputs)
      BY <1>2 DEF CurrentEvent
    <2>2. CASE inputs \in Seq(BackedInputs)
      <3>1. head \in BackedInputs /\ Tail(inputs) \in Seq(BackedInputs)
        BY <2>2, SeqOps
      <3> QED BY <2>1, <3>1 DEF Proper, BackedInputs, Plain, RequestKinds
    <2>3. CASE \E x \in Inputs : /\ inputs = <<x>> /\ x.kind \in RequestKinds
                                 /\ x.kind = "requested" => (x.durable <=> Available)
      <3> PICK x \in Inputs : /\ inputs = <<x>> /\ x.kind \in RequestKinds
                              /\ x.kind = "requested" => (x.durable <=> Available)
        BY <2>3
      <3>1. Tail(inputs) = <<>> /\ head = x
        OBVIOUS
      <3> HIDE DEF head
      <3> QED BY <2>1, <3>1 DEF Proper
    <2> QED BY <2>2, <2>3 DEF InputsAreBacked
  <1> QED BY <1>1, <1>2

\* The timeouts of the one active command, if it is overdue.
LEMMA TimeoutInputsIn ==
  ASSUME NEW cmds, NEW C, \A c, d \in C : c = d, NEW S, \A c \in C : TimedOut(c, cmds[c].deadline) \in S
  PROVE  TimeoutInputs(cmds, C) \in Seq(S) /\ (C = {} => TimeoutInputs(cmds, C) = <<>>)
  <1> DEFINE T == {TimedOut(c, cmds[c].deadline) : c \in C}
  <1>1. \A a, b \in T : a = b
    OBVIOUS
  <1>2. T \subseteq S /\ (C = {} => T = {})
    OBVIOUS
  <1> HIDE DEF T
  <1>3. IsFiniteSet(T)
    BY <1>1, FewFinite
  <1>4. SetToSeq(T) \in Seq(T) /\ Len(SetToSeq(T)) = Cardinality(T)
    BY <1>3, SetToSeqType
  <1>5. SetToSeq(T) \in Seq(S)
    BY <1>2, <1>4, SeqOfPart
  <1>6. C = {} => SetToSeq(T) = <<>>
    BY <1>2, <1>4, FS_EmptySet
  <1> QED BY <1>5, <1>6 DEF TimeoutInputs, T

\* Work and timers follow the command: an admission gets work for its intent.
LEMMA AfterProcessingBacks ==
  ASSUME Types, Types', NEW e \in Inputs, IsEvent(e), NEW accepted \in BOOLEAN, NEW after \in Rooms, One(after.cmds),
         room'.cmds = after.cmds, NEW rest \in Seq(BackedInputs'), AfterProcessing(e, accepted, after, rest),
         attempts = <<>>, WorkIsBacked, MemoryIsBacked', Grows,
         ~accepted => after.cmds = room.cmds,
         e.kind = "requested" /\ accepted => after.cmds[e.cmd].status = "accepted" /\ rest = <<>>
  PROVE  InputsAreBacked' /\ WorkIsBacked' /\ AttemptIsActive'
  <1> DEFINE subject == IF IsLifecycle(e) THEN {e.cmd} ELSE {}
             C == subject \cup ActiveCommands(room.cmds)
             cleared == ClearCompleted(control, after.cmds, C)
             late == {c \in Expired(after.cmds, subject) : cleared.timeoutAt[c] = NoTime}
             admitted == e.kind = "requested" /\ accepted
             scheduled == ScheduleTimeouts(cleared, after.cmds, subject)
  <1>1. CASE accepted
    <2>1. subject \in SUBSET Command /\ (admitted => e.cmd \in Command /\ subject = {e.cmd})
      BY DEF Inputs, IsLifecycle
    <2>2. cleared \in Controls
      BY ClearType DEF Types
    <2>3. /\ \A c \in Command : cleared.work[c] \in {"none", control.work[c]}
          /\ \A c \in Command : cleared.retryAt[c] # NoTime =>
               cleared.retryAt[c] = control.retryAt[c] /\ (c \in C => IsActive(after.cmds, c))
      <3>1. ASSUME NEW c \in Command
            PROVE  /\ cleared.work[c] \in {"none", control.work[c]}
                   /\ cleared.retryAt[c] # NoTime =>
                        cleared.retryAt[c] = control.retryAt[c] /\ (c \in C => IsActive(after.cmds, c))
        BY DEF ClearCompleted
      <3> QED BY <3>1
    <2>4. late \in SUBSET Command /\ (\A c, d \in late : c = d) /\ (admitted => late = {})
      <3>1. late \in SUBSET Command /\ \A c, d \in late : c = d
        BY <2>1 DEF Expired, One, ActiveCommands, IsActive, ActiveStatus
      <3>2. admitted => late = {}
        BY <2>1 DEF Expired
      <3> QED BY <3>1, <3>2
    <2> HIDE DEF C, cleared, late
    <2>5. scheduled \in Controls /\ scheduled.work = cleared.work /\ scheduled.retryAt = cleared.retryAt
      BY <2>2, ScheduleType DEF Rooms, Lists
    <2> HIDE DEF scheduled
    <2>6. /\ control' = [scheduled EXCEPT !.work = IF admitted
                            THEN [@ EXCEPT ![e.cmd] = after.cmds[e.cmd].admitted] ELSE @]
          /\ inputs' = rest \o TimeoutInputs(after.cmds, late)
          /\ attempts' = IF admitted THEN Append(attempts, e.cmd) ELSE attempts
      BY <1>1 DEF AfterProcessing, C, cleared, late, scheduled
    <2>7. inputs' \in Seq(BackedInputs') /\ (admitted => inputs' = <<>>)
      <3>1. ASSUME NEW c \in late PROVE TimedOut(c, after.cmds[c].deadline) \in BackedInputs'
        <4>1. TimedOut(c, after.cmds[c].deadline) \in Plain
          BY <2>4, TimedOutPlain DEF Rooms, Lists, Records
        <4> QED BY <4>1, BareBacked DEF TimedOut, Input
      <3>2. TimeoutInputs(after.cmds, late) \in Seq(BackedInputs')
            /\ (late = {} => TimeoutInputs(after.cmds, late) = <<>>)
        BY <2>4, <3>1, TimeoutInputsIn
      <3> QED BY <1>1, <2>4, <2>6, <3>2
    <2>8. ASSUME NEW c \in Command
          PROVE  /\ control'.work[c] = "durable" => disk'.outbox[c] # "none"
                 /\ control'.retryAt[c] # NoTime => IsActive(room'.cmds, c)
      <3>1. control'.retryAt[c] # NoTime => IsActive(room'.cmds, c)
        <4>1. control'.retryAt = cleared.retryAt
          BY <2>5, <2>6 DEF Controls
        <4>2. cleared.retryAt[c] # NoTime => c \in C
          BY <2>3 DEF WorkIsBacked, C, ActiveCommands
        <4> QED BY <2>3, <4>1, <4>2
      <3>2. control'.work[c] = IF admitted /\ c = e.cmd THEN after.cmds[c].admitted ELSE cleared.work[c]
        BY <2>1, <2>5, <2>6 DEF Controls
      <3>3. cleared.work[c] = "durable" => disk'.outbox[c] # "none"
        BY <2>3 DEF WorkIsBacked, Grows
      <3>4. admitted /\ c = e.cmd /\ after.cmds[c].admitted = "durable" => disk'.outbox[c] # "none"
        BY <1>1 DEF MemoryIsBacked
      <3> QED BY <3>1, <3>2, <3>3, <3>4
    <2>9. AttemptIsActive'
      <3>1. CASE admitted
        <4>1. attempts' = <<e.cmd>> /\ inputs' = <<>> /\ e.cmd \in Command
          BY <2>1, <2>6, <2>7, <3>1
        <4>2. IsActive(room'.cmds, e.cmd)
          BY <1>1, <3>1 DEF IsActive, ActiveStatus
        <4>3. inputs' \in Seq(Closings')
          BY <4>1
        <4>4. attempts' = <<e.cmd>> /\ IsActive(room.cmds, e.cmd)' /\ inputs' \in Seq(Closings')
          BY <4>1, <4>2, <4>3 DEF IsActive
        <4> QED BY <4>1, <4>4 DEF AttemptIsActive
      <3>2. CASE ~admitted
        BY <2>6, <3>2 DEF AttemptIsActive
      <3> QED BY <3>1, <3>2
    <2> QED BY <2>7, <2>8, <2>9 DEF InputsAreBacked, WorkIsBacked
  <1>2. CASE ~accepted
    <2>1. inputs' = rest /\ control' = control /\ attempts' = attempts
      BY <1>2 DEF AfterProcessing
    <2> QED BY <1>2, <2>1 DEF InputsAreBacked, WorkIsBacked, AttemptIsActive, Grows, IsActive
  <1> QED BY <1>1, <1>2

\* With memory and store in step, what holds of the one holds of the other.
LEMMA SyncedBacked ==
  ASSUME AllBacked(disk)', disk'.cmds = room'.cmds
  PROVE  MemoryIsBacked'
  BY DEF AllBacked, Backed, MemoryIsBacked

\* An event that stays in memory adds no durable admission.
LEMMA VolatileBacked ==
  ASSUME MemoryIsBacked, NEW e, e.kind \in RequestKinds => Fresh(e.cmd), NEW p, NEW cmds,
         Becomes(e, p, cmds, "volatile"), room'.cmds = cmds, disk' = disk
  PROVE  MemoryIsBacked'
  <1>1. ASSUME NEW c \in Command, cmds[c].status # "none"
        PROVE  /\ cmds[c].admitted = "durable" =>
                    disk.cmds[c].status # "none" /\ (disk.outbox[c] # "none" \/ cmds[c].status = "failed")
               /\ disk.cmds[c].status # "none" => cmds[c].admitted = disk.cmds[c].admitted
               /\ disk.outbox[c] # "none" => disk.cmds[c].status # "none"
    <2>0. Admits(c, cmds[c], "volatile") /\ Moved(e, cmds)
      BY DEF Becomes
    <2>1. CASE room.cmds[c].status = "none"
      <3>1. cmds[c].admitted = "volatile" /\ c = e.cmd /\ e.kind \in RequestKinds
        BY <1>1, <2>0, <2>1 DEF Admits, Moved, RequestKinds
      <3>2. Fresh(c) /\ NoRecord.status = "none"
        BY <3>1 DEF NoRecord
      <3> QED BY <3>1, <3>2 DEF Fresh
    <2>2. CASE room.cmds[c].status # "none"
      <3>1. cmds[c].admitted = room.cmds[c].admitted
        BY <1>1, <2>0, <2>2 DEF Admits
      <3>2. room.cmds[c].status = "failed" => cmds[c].status = "failed"
        BY <1>1, <2>0, EndsStay
      <3> QED BY <2>2, <3>1, <3>2 DEF MemoryIsBacked
    <2> QED BY <2>1, <2>2
  <1> QED BY <1>1 DEF MemoryIsBacked

\* Processing an event keeps intents, work and attempts in step with the commands.
LEMMA ProcessEventBacks ==
  ASSUME IInv, IInv', Backing, ProcessEvent
  PROVE  Backs
  <1>1. Types /\ Agreement /\ RequestsAreFresh /\ ClosingIsOwn /\ One(room.cmds) /\ Types' /\ Running
    BY DEF IInv, Agreement, ProcessEvent
  <1>2. /\ AllBacked(disk) /\ MemoryIsBacked /\ InputsAreBacked /\ WorkIsBacked /\ AttemptIsActive
        /\ PlansAreReceived
    BY DEF Backing
  <1> DEFINE e0 == CurrentEvent.event
             rest0 == CurrentEvent.rest
  <1>3. /\ e0 \in Inputs /\ IsEvent(e0) /\ (e0.kind \in RequestKinds => Fresh(e0.cmd))
        /\ Proper(e0) /\ rest0 \in Seq(BackedInputs) /\ (e0.kind = "requested" => rest0 = <<>>)
    <2>1. inputs # <<>> /\ IsEvent(Head(inputs))
      BY DEF ProcessEvent
    <2>2. e0 \in Inputs /\ IsEvent(e0) /\ (e0.kind \in RequestKinds => Fresh(e0.cmd))
      BY <1>1, <2>1, CurrentType
    <2>3. Proper(e0) /\ rest0 \in Seq(BackedInputs) /\ (e0.kind = "requested" => rest0 = <<>>)
      BY <1>1, <1>2, <2>1, CurrentBacked
    <2> QED BY <2>2, <2>3
  <1>4. attempts = <<>>
    <2>1. inputs # <<>> /\ IsEvent(Head(inputs))
      BY DEF ProcessEvent
    <2>2. inputs \notin Seq(Closings)
      BY <2>1, SeqOps DEF IsEvent, Closings
    <2> QED BY <1>2, <2>2 DEF AttemptIsActive
  <1> PICK e \in Inputs : e = e0
    BY <1>3
  <1> PICK rest \in Seq(BackedInputs) : rest = rest0
    BY <1>3
  <1> PICK p : p = Prepared(e)
    OBVIOUS
  <1>5. Applied(e, p) /\ Effect(e, p) /\ p.accepted \in BOOLEAN
    BY <1>1, <1>3, EventApplied, EventOutcome DEF Applied, Results
  <1>6. ASSUME NEW after \in Rooms, NEW durability, Becomes(e, p, after.cmds, durability),
               ~p.accepted => after.cmds = room.cmds,
               room'.cmds = after.cmds, AllBacked(disk)', MemoryIsBacked', Grows, disk'.receipts = disk.receipts,
               led' = led, AfterProcessing(e, p.accepted, after, rest)
        PROVE  Backs
    <2>2. rest \in Seq(BackedInputs')
      <3>1. CASE e.kind = "requested"
        <4>1. rest = <<>>
          BY <1>3, <3>1
        <4> QED BY <4>1
      <3>2. CASE e.kind # "requested"
        <4>1. \A c \in Command : IsActive(room'.cmds, c) => IsActive(room.cmds, c)
          BY <1>6, <3>2, EndsStay DEF Becomes
        <4>2. BackedInputs \subseteq BackedInputs'
          BY <1>6, <4>1, BackedStays
        <4> QED BY <4>2, SeqOfPart
      <3> QED BY <3>1, <3>2
    <2>3. One(after.cmds)
      BY <1>1, <1>6, OneMoves DEF Becomes
    <2>4. e.kind = "requested" /\ p.accepted => after.cmds[e.cmd].status = "accepted" /\ rest = <<>>
      <3>1. e.kind = "requested" => e.cmd \in Command
        BY DEF Inputs
      <3> QED BY <1>3, <1>5, <1>6, <3>1 DEF Effect, Becomes
    <2>5. InputsAreBacked' /\ WorkIsBacked' /\ AttemptIsActive'
      BY <1>1, <1>2, <1>3, <1>4, <1>5, <1>6, <2>2, <2>3, <2>4, AfterProcessingBacks
    <2>6. PlansAreReceived' /\ AcceptsLive
      BY <1>2, <1>6 DEF PlansAreReceived, AcceptsLive
    <2> QED BY <1>6, <2>5, <2>6 DEF Backs, Backing
  <1>7. ASSUME NEW failures,
               room' = [RoomAfterVolatile(e, p) EXCEPT !.startupFailures = @ \cup failures],
               AfterProcessing(e, p.accepted, RoomAfterVolatile(e, p), rest),
               UNCHANGED <<now, process, boot, led, disk>>
        PROVE  Backs
    <2>1. PICK after \in Rooms : after = RoomAfterVolatile(e, p)
      BY <1>1, <1>5, VolatileMoved
    <2>2. Becomes(e, p, after.cmds, "volatile") /\ room'.cmds = after.cmds
      BY <1>1, <1>5, <1>7, <2>1, RoomBecomes DEF Rooms
    <2>3. ~p.accepted => after.cmds = room.cmds
      BY <2>1 DEF RoomAfterVolatile
    <2>4. MemoryIsBacked'
      BY <1>2, <1>3, <1>7, <2>2, VolatileBacked
    <2>5. AllBacked(disk)' /\ Grows
      BY <1>2, <1>7 DEF AllBacked, Backed, IsActive, Grows
    <2> QED BY <1>6, <1>7, <2>1, <2>2, <2>3, <2>4, <2>5
  <1>8. ASSUME Available
        PROVE  /\ AllBacked(DiskAfterCommit(e, p)) /\ DiskAfterCommit(e, p).receipts = disk.receipts
               /\ \A c \in Command : disk.outbox[c] # "none" => DiskAfterCommit(e, p).outbox[c] # "none"
    BY <1>1, <1>2, <1>3, <1>5, <1>8, CommitBacked
  <1>9. ASSUME Available, room' = RoomAfterCommit(e, p), disk' = DiskAfterCommit(e, p),
               AfterProcessing(e, p.accepted, room', rest),
               UNCHANGED <<now, faults, process, boot, storage, led>>
        PROVE  Backs
    <2>1. PICK after \in Rooms : after = RoomAfterCommit(e, p)
      BY <1>1, <1>5, CommitMoved
    <2>2. Becomes(e, p, after.cmds, "durable") /\ room' = after
      BY <1>1, <1>5, <1>9, <2>1, RoomBecomes
    <2>3. ~p.accepted => after.cmds = room.cmds
      BY <2>1 DEF RoomAfterCommit
    <2>4. AllBacked(disk)' /\ Grows /\ disk'.receipts = disk.receipts
      BY <1>8, <1>9 DEF AllBacked, Backed, IsActive, Grows
    <2>5. disk'.cmds = room'.cmds
      BY <1>9 DEF IInv, Agreement, Synced, Running, Available, ProcessEvent
    <2>6. MemoryIsBacked'
      BY <2>4, <2>5, SyncedBacked
    <2> QED BY <1>6, <1>9, <2>1, <2>2, <2>3, <2>4, <2>6
  <1>10. ASSUME Available, Indeterminate({disk, DiskAfterCommit(e, p)})
         PROVE  Backs
    <2>1. PICK d \in {disk, DiskAfterCommit(e, p)} : Halt("fatal", d)
      BY <1>10 DEF Indeterminate
    <2>2. AllBacked(d) /\ d.receipts = disk.receipts
      BY <1>2, <1>8, <1>10
    <2> QED BY <1>1, <2>1, <2>2, HaltBacks
  <1> DEFINE unstored == IF boot = "closing" THEN {e.cmd} ELSE {}
  <1> HIDE DEF unstored
  <1> QED BY <1>7, <1>9, <1>10 DEF ProcessEvent, unstored

-----------------------------------------------------------------------------
(* The steps that leave the commands alone *)

NoNewIntent == \A c \in Command : disk'.outbox[c] # "none" => disk.outbox[c] # "none"

\* What such a step has to account for.
LEMMA QuietBacks ==
  ASSUME Types, MemoryIsBacked, room' = room, disk'.cmds = disk.cmds, AllBacked(disk)', Grows, NoNewIntent,
         inputs' \in Seq(BackedInputs'), WorkIsBacked', AttemptIsActive', PlansAreReceived', AcceptsLive
  PROVE  Backs
  BY DEF Backs, Backing, MemoryIsBacked, InputsAreBacked, Grows, NoNewIntent

\* What is backed stays so when neither memory nor the disk changes.
LEMMA SameBacked ==
  ASSUME Backing, room' = room, disk' = disk
  PROVE  /\ AllBacked(disk)' /\ Grows /\ AcceptsLive /\ BackedInputs \subseteq BackedInputs'
         /\ MemoryIsBacked'
         /\ led' = led => PlansAreReceived'
         /\ control'.work = control.work /\ control'.retryAt = control.retryAt => WorkIsBacked'
         /\ attempts' = <<>> => AttemptIsActive'
  <1>1. AllBacked(disk)' /\ Grows /\ AcceptsLive
    BY DEF Backing, AllBacked, Backed, IsActive, Grows, AcceptsLive
  <1>2. BackedInputs \subseteq BackedInputs'
    BY <1>1, BackedStays
  <1>3. MemoryIsBacked' /\ (led' = led => PlansAreReceived')
    BY DEF Backing, MemoryIsBacked, PlansAreReceived
  <1>4. control'.work = control.work /\ control'.retryAt = control.retryAt => WorkIsBacked'
    BY DEF Backing, WorkIsBacked, IsActive
  <1>5. attempts' = <<>> => AttemptIsActive'
    BY DEF AttemptIsActive
  <1> QED BY <1>1, <1>2, <1>3, <1>4, <1>5

\* A bare outbox mutation is of a stored intent, and closes only at the end.
LEMMA PersistBacks ==
  ASSUME IInv, IInv', Backing, PersistOutboxMutation
  PROVE  Backs
  <1>1. Types /\ Agreement /\ Running /\ inputs # <<>> /\ ~IsEvent(Head(inputs))
    BY DEF IInv, PersistOutboxMutation
  <1>2. /\ AllBacked(disk) /\ MemoryIsBacked /\ InputsAreBacked /\ WorkIsBacked /\ AttemptIsActive
        /\ PlansAreReceived
    BY DEF Backing
  <1> PICK m : m = Head(inputs)
    OBVIOUS
  <1>3. inputs \in Seq(BackedInputs)
    BY <1>1, <1>2 DEF InputsAreBacked, RequestKinds, IsEvent
  <1>4. m \in BackedInputs /\ Tail(inputs) \in Seq(BackedInputs)
    BY <1>1, <1>3, SeqOps
  <1>5. m.cmd \in Command /\ m.kind \in {"mark_uncertain", "close"}
    BY <1>1, <1>4 DEF BackedInputs, Plain, Inputs, IsEvent
  <1>6. /\ m.kind = "mark_uncertain" => disk.outbox[m.cmd] # "none"
        /\ m.kind = "close" => ~IsActive(room.cmds, m.cmd)
    BY <1>4 DEF BackedInputs
  <1> DEFINE outbox == IF m.kind = "close" THEN Closed(disk.outbox, {m.cmd})
                       ELSE [disk.outbox EXCEPT ![m.cmd] = "uncertain"]
             stored == [disk EXCEPT !.cmds = room.cmds, !.obs = room.obs, !.guards = room.guards,
                                    !.outbox = outbox]
             Dequeue == /\ inputs' = Tail(inputs)
                        /\ UNCHANGED <<now, process, boot, room, control, attempts, led>>
  <1>7. ASSUME NEW c \in Command
        PROVE  /\ outbox[c] # "none" <=> disk.outbox[c] # "none"
               /\ outbox[c] = "delivered" => disk.outbox[c] = "delivered"
               /\ outbox[c] = "closed" => disk.outbox[c] = "closed" \/ ~IsActive(room.cmds, c)
    <2>1. disk.outbox \in [Command -> OutboxStates]
      BY <1>1 DEF Types, Disks, OutboxStates
    <2>2. CASE m.kind = "close"
      BY <1>5, <1>6, <2>1, <2>2 DEF Closed
    <2>3. CASE m.kind # "close"
      BY <1>5, <1>6, <2>1, <2>3
    <2> QED BY <2>2, <2>3
  <1> HIDE DEF outbox
  <1>8. Available => /\ AllBacked(stored) /\ stored.receipts = disk.receipts /\ stored.cmds = disk.cmds
                     /\ \A c \in Command : disk.outbox[c] # "none" <=> stored.outbox[c] # "none"
    <2> HAVE Available
    <2>1. /\ stored.cmds = room.cmds /\ stored.outbox = outbox /\ stored.receipts = disk.receipts
          /\ room.cmds = disk.cmds
      BY <1>1 DEF Types, Disks, Agreement, Synced
    <2> HIDE DEF stored
    <2>2. \A c \in Command : Backed(stored, c)
      BY <1>2, <1>7, <2>1 DEF AllBacked, Backed, IsActive
    <2> QED BY <1>7, <2>1, <2>2 DEF AllBacked
  <1>9. \/ Dequeue /\ disk' = disk
        \/ Available /\ Dequeue /\ disk' = stored
        \/ Available /\ Indeterminate({disk, stored})
    BY DEF PersistOutboxMutation, outbox
  <1> HIDE DEF stored
  <1>10. CASE Dequeue /\ (disk' = disk \/ (Available /\ disk' = stored))
    <2>1. /\ AllBacked(disk)' /\ Grows /\ disk'.receipts = disk.receipts /\ disk'.cmds = disk.cmds
          /\ NoNewIntent
      <3>1. CASE disk' = disk
        BY <1>2, <3>1 DEF AllBacked, Backed, IsActive, Grows, NoNewIntent
      <3>2. CASE Available /\ disk' = stored
        BY <1>8, <3>2 DEF AllBacked, Backed, IsActive, Grows, NoNewIntent
      <3> QED BY <1>10, <3>1, <3>2
    <2>2. inputs' \in Seq(BackedInputs')
      <3>1. BackedInputs \subseteq BackedInputs'
        BY <1>10, <2>1, BackedStays
      <3> QED BY <1>4, <1>10, <3>1, SeqOfPart
    <2>3. AttemptIsActive'
      <3>1. inputs \in Seq(Closings) => Tail(inputs) \in Seq(Closings)
        BY <1>1, SeqOps
      <3> QED BY <1>2, <1>10, <3>1 DEF AttemptIsActive, IsActive, Closings
    <2>4. WorkIsBacked' /\ PlansAreReceived' /\ AcceptsLive
      BY <1>2, <1>10, <2>1 DEF WorkIsBacked, PlansAreReceived, AcceptsLive, Grows, IsActive
    <2> QED BY <1>1, <1>2, <1>10, <2>1, <2>2, <2>3, <2>4, QuietBacks
  <1>11. CASE Available /\ Indeterminate({disk, stored})
    <2>1. PICK d \in {disk, stored} : Halt("fatal", d)
      BY <1>11 DEF Indeterminate
    <2> QED BY <1>1, <1>2, <1>8, <1>11, <2>1, HaltBacks
  <1> HIDE DEF Dequeue
  <1> QED BY <1>9, <1>10, <1>11

-----------------------------------------------------------------------------
(* The LED source and the dispatch *)

\* A command the LED may accept for the first time.
Live(c) ==
  /\ IsActive(room.cmds, c)
  /\ room.cmds[c].admitted = "durable"
  /\ room.cmds[c].status = "pending" => now < room.cmds[c].deadline
  /\ disk.outbox[c] \in {"ready", "uncertain"}

\* A receipt may be stored of a command that has one, or is live.
MayStore(c) == disk.outbox[c] # "none" /\ (disk.receipts[c] # NoReceipt \/ Live(c))

\* What is stored of a receipt.
LEMMA ReceiptBacked ==
  ASSUME Types, AllBacked(disk), NEW c \in Command, NEW r \in RealReceipts, MayStore(c),
         NEW d \in {WithReceipt(c, r), WithReceipt(c, Marked(r))}
  PROVE  /\ AllBacked(d) /\ d.cmds = disk.cmds /\ d.outbox = disk.outbox
         /\ d.receipts[c] # NoReceipt
         /\ \A x \in Command \ {c} : d.receipts[x] = disk.receipts[x]
  <1>1. r # NoReceipt /\ Marked(r) # NoReceipt
    <2>1. Marked(r) \in RealReceipts
      BY ReceiptType
    <2> QED BY <2>1 DEF RealReceipts, NoReceipt
  <1>2. PICK x : x # NoReceipt /\ d = WithReceipt(c, x)
    BY <1>1
  <1>3. /\ d.cmds = disk.cmds /\ d.outbox = disk.outbox /\ d.receipts[c] # NoReceipt
        /\ \A y \in Command \ {c} : d.receipts[y] = disk.receipts[y]
    BY <1>2 DEF WithReceipt, Types, Disks
  <1>4. AllBacked(d)
    BY <1>3 DEF AllBacked, Backed, IsActive, MayStore
  <1> QED BY <1>3, <1>4

\* What the disk may become in a step of the LED.
LedWrites(c, r) ==
  \/ disk' = disk
  \/ MayStore(c) /\ disk' \in {WithReceipt(c, r), WithReceipt(c, Marked(r))}

LEMMA LedGrows ==
  ASSUME Types, AllBacked(disk), NEW c \in Command, NEW r \in RealReceipts, LedWrites(c, r)
  PROVE  /\ AllBacked(disk)' /\ Grows /\ disk'.cmds = disk.cmds /\ NoNewIntent /\ AcceptsLive
         /\ disk' # disk => disk'.receipts[c] # NoReceipt /\ disk'.outbox[c] # "none"
  <1>1. CASE disk' = disk
    BY <1>1 DEF AllBacked, Backed, IsActive, Grows, NoNewIntent, AcceptsLive
  <1>2. CASE MayStore(c) /\ disk' \in {WithReceipt(c, r), WithReceipt(c, Marked(r))}
    <2> PICK d \in {WithReceipt(c, r), WithReceipt(c, Marked(r))} : disk' = d
      BY <1>2
    <2>1. /\ AllBacked(d) /\ d.cmds = disk.cmds /\ d.outbox = disk.outbox
          /\ d.receipts[c] # NoReceipt
          /\ \A x \in Command \ {c} : d.receipts[x] = disk.receipts[x]
      BY <1>2, ReceiptBacked
    <2>2. AllBacked(disk)'
      BY <2>1 DEF AllBacked, Backed, IsActive
    <2>3. Grows /\ NoNewIntent /\ AcceptsLive
      BY <1>2, <2>1 DEF Grows, NoNewIntent, AcceptsLive, MayStore, Live
    <2> QED BY <1>2, <2>1, <2>2, <2>3 DEF MayStore
  <1> QED BY <1>1, <1>2 DEF LedWrites

\* A step of the LED or of an attempt.
LEMMA LedBacks ==
  ASSUME Types, Backing, NEW c \in Command, NEW r \in RealReceipts, LedWrites(c, r), room' = room,
         inputs' \in Seq(BackedInputs'), control'.work = control.work,
         \A x \in Command : control'.retryAt[x] # NoTime => IsActive(room.cmds, x),
         attempts' = <<>>,
         \A x \in Command : led'.armed[x].durable => led.armed[x].durable \/ disk'.receipts[x] # NoReceipt
  PROVE  Backs
  <1>1. /\ AllBacked(disk)' /\ Grows /\ disk'.cmds = disk.cmds /\ NoNewIntent /\ AcceptsLive
    BY LedGrows DEF Backing
  <1>2. WorkIsBacked'
    BY <1>1 DEF Backing, WorkIsBacked, Grows, IsActive
  <1>3. AttemptIsActive' /\ PlansAreReceived'
    BY <1>1 DEF Backing, AttemptIsActive, PlansAreReceived, Grows
  <1> QED BY <1>1, <1>2, <1>3, QuietBacks DEF Backing

\* The retries stay as they are.
LEMMA RetriesStay ==
  ASSUME Backing, UNCHANGED <<control, room>>
  PROVE  control'.work = control.work /\ \A x \in Command : control'.retryAt[x] # NoTime => IsActive(room.cmds, x)
  BY DEF Backing, WorkIsBacked

\* An emitted outcome is bare.
LEMMA EmitBacked ==
  ASSUME Types, inputs = <<>>, NEW c \in Command, NEW r \in Outcomes, NEW before \in Seq(BackedInputs'),
         Emit(c, r, before)
  PROVE  /\ inputs' \in Seq(BackedInputs')
         /\ \A x \in Command : led'.armed[x].durable => led.armed[x].durable
  <1>1. r.kind \in {"report", "rejection"} /\ r.power \in Power /\ r.due \in Nat
    BY DEF Outcomes
  <1>2. Outcome(c, r) \in Plain /\ ~Outcome(c, r).durable /\ Outcome(c, r).kind \notin {"mark_uncertain", "close"}
    <2>1. Outcome(c, r) \in Plain
      BY <1>1, PlainType DEF Outcome, InputKinds, RequestKinds
    <2> QED BY <1>1, <2>1 DEF Outcome, Input
  <1>3. Outcome(c, r) \in BackedInputs'
    BY <1>2, BareBacked
  <1>4. inputs' \in Seq(BackedInputs')
    BY <1>3, SeqOps DEF Emit
  <1>5. led'.armed = [led.armed EXCEPT ![c] = NoPlan]
    BY DEF Emit, Types, Leds
  <1> QED BY <1>4, <1>5 DEF NoPlan, Types, Leds

\* Storing the terminal marker, and emitting.
LEMMA MarkBacks ==
  ASSUME Types, Backing, inputs = <<>>, NEW c \in Command, NEW r \in Outcomes, MayStore(c),
         NEW d \in {disk, WithReceipt(c, r)}, NEW before \in Seq(BackedInputs'),
         MarkTerminalAndEmit(c, r, d, before), control'.work = control.work,
         \A x \in Command : control'.retryAt[x] # NoTime => IsActive(room.cmds, x), attempts' = <<>>
  PROVE  Backs
  <1>1. Emit(c, r, before) /\ room' = room /\ disk' \in {d, WithReceipt(c, Marked(r))}
    BY DEF MarkTerminalAndEmit
  <1>2. LedWrites(c, r) /\ r \in RealReceipts
    BY <1>1, OutcomeIsReceipt DEF LedWrites
  <1> QED BY <1>1, <1>2, EmitBacked, LedBacks

\* The process ends in a transaction of the LED.
LEMMA ReceiptHalts ==
  ASSUME Types, Backing, NEW c \in Command, NEW r \in RealReceipts, MayStore(c), NEW cause,
         NEW d \in {disk, WithReceipt(c, r), WithReceipt(c, Marked(r))}, Halt(cause, d)
  PROVE  Backs
  <1>1. LedWrites(c, r)
    BY DEF Halt, LedWrites
  <1>2. AllBacked(d)
    BY ReceiptBacked DEF Backing
  <1>3. AcceptsLive
    BY <1>1, LedGrows DEF Backing
  <1> QED BY <1>2, <1>3, HaltBacks

\* Delivering an outcome, from a timer or at startup.
LEMMA DeliverBacks ==
  ASSUME Types, Backing, inputs = <<>>, attempts = <<>>, NEW c \in Command, NEW r \in Outcomes,
         NEW durable, DeliverOutcome(c, r, durable), durable => disk.receipts[c] # NoReceipt
  PROVE  Backs
  <1>1. durable => MayStore(c)
    BY DEF MayStore, Backing, AllBacked, Backed
  <1>2. r \in RealReceipts /\ <<>> \in Seq(BackedInputs')
    BY OutcomeIsReceipt
  <1>3. CASE Emit(c, r, <<>>)
             /\ UNCHANGED <<now, faults, process, boot, storage, room, control, attempts, disk>>
    <2>1. LedWrites(c, r)
      BY <1>3 DEF LedWrites
    <2> QED BY <1>2, <1>3, <2>1, EmitBacked, RetriesStay, LedBacks
  <1>4. CASE durable /\ MarkTerminalAndEmit(c, r, disk, <<>>) /\ UNCHANGED <<control, attempts>>
    <2>1. UNCHANGED <<control, room>>
      BY <1>4 DEF MarkTerminalAndEmit
    <2> QED BY <1>1, <1>2, <1>4, <2>1, RetriesStay, MarkBacks
  <1>5. CASE durable /\ Indeterminate({disk, WithReceipt(c, Marked(r))})
    BY <1>1, <1>2, <1>5, ReceiptHalts DEF Indeterminate
  <1>6. CASE durable /\ Halt("uncaught", disk) /\ UNCHANGED faults
    BY <1>1, <1>2, <1>6, ReceiptHalts
  <1> QED BY <1>3, <1>4, <1>5, <1>6 DEF DeliverOutcome

\* The LED accepts a command: the handoff is an event with a mutation if it is durable.
LEMMA HandedOffBacks ==
  ASSUME Types, Backing, inputs = <<>>, NEW c \in Command, NEW r \in RealReceipts,
         NEW durable \in BOOLEAN, NEW d, d = IF durable THEN WithReceipt(c, r) ELSE disk,
         durable => MayStore(c), HandedOff(c, r, durable, d), control'.work = control.work,
         \A x \in Command : control'.retryAt[x] # NoTime => IsActive(room.cmds, x), attempts' = <<>>
  PROVE  Backs
  <1> DEFINE handoff == Input("dispatched", c, r.power, r.acceptedAt, durable)
             idlePlan == NothingToSchedule(c, r)
  <1>1. handoff \in Plain /\ handoff.kind = "dispatched" /\ handoff.cmd = c /\ handoff.durable = durable
    <2>1. r.power \in Power /\ r.acceptedAt \in Nat
      BY DEF RealReceipts
    <2>2. handoff \in Plain
      BY <2>1, PlainType DEF InputKinds, RequestKinds
    <2> QED BY <2>2 DEF Input
  <1>2. ~idlePlan => r \in Outcomes
    BY OutcomeReceipt DEF NothingToSchedule
  <1> HIDE DEF handoff, idlePlan
  <1>3. ASSUME LedWrites(c, r), durable => disk' # disk \/ disk' = d
        PROVE  <<handoff>> \in Seq(BackedInputs') /\ (durable => disk'.receipts[c] # NoReceipt)
    <2>1. durable => disk'.receipts[c] # NoReceipt /\ disk'.outbox[c] # "none"
      <3>1. durable => d.receipts[c] # NoReceipt /\ d.outbox[c] # "none"
        BY ReceiptBacked DEF MayStore, Backing
      <3> QED BY <1>3, <3>1, LedGrows DEF Backing
    <2>2. handoff \in BackedInputs'
      BY <1>1, <2>1 DEF BackedInputs
    <2> QED BY <2>1, <2>2
  <1>4. disk' = d => LedWrites(c, r)
    BY DEF LedWrites
  <1>5. ASSUME disk' = d, inputs' = inputs \o <<handoff>>, room' = room,
               \/ led' = led
               \/ led' = [led EXCEPT !.armed[c] = [receipt |-> r, durable |-> durable]]
        PROVE  Backs
    <2>1. LedWrites(c, r) /\ inputs' \in Seq(BackedInputs') /\ (durable => disk'.receipts[c] # NoReceipt)
      BY <1>3, <1>4, <1>5
    <2>2. \A x \in Command : led'.armed[x].durable => led.armed[x].durable \/ disk'.receipts[x] # NoReceipt
      BY <1>5, <2>1 DEF Types, Leds
    <2> QED BY <1>5, <2>1, <2>2, LedBacks
  <1>6. ASSUME ~idlePlan, Emit(c, r, <<handoff>>), disk' = d, room' = room
        PROVE  Backs
    <2>1. LedWrites(c, r) /\ <<handoff>> \in Seq(BackedInputs')
      BY <1>3, <1>4, <1>6
    <2> QED BY <1>2, <1>6, <2>1, EmitBacked, LedBacks
  <1>7. ASSUME ~idlePlan, durable, MarkTerminalAndEmit(c, r, d, <<handoff>>)
        PROVE  Backs
    <2>1. disk' \in {d, WithReceipt(c, Marked(r))} /\ d \in {disk, WithReceipt(c, r)}
      BY <1>7 DEF MarkTerminalAndEmit
    <2>2. disk'.receipts[c] # NoReceipt /\ disk'.outbox[c] # "none"
      BY <1>7, <2>1, ReceiptBacked DEF MayStore, Backing
    <2>3. handoff \in BackedInputs'
      BY <1>1, <2>2 DEF BackedInputs
    <2>4. <<handoff>> \in Seq(BackedInputs')
      BY <2>3
    <2> QED BY <1>2, <1>7, <2>1, <2>4, MarkBacks
  <1> QED BY <1>5, <1>6, <1>7 DEF HandedOff, handoff, idlePlan

\* An attempt to dispatch the active command, whatever becomes of it.
LEMMA AttemptBacks ==
  ASSUME Types, Agreement, Backing, Running, inputs = <<>>, NEW c \in Command, NEW ctl \in Controls,
         ctl.work = control.work, \A x \in Command : ctl.retryAt[x] # NoTime => IsActive(room.cmds, x),
         Attempt(c, ctl), AttemptsBecome(<<>>), IsActive(room.cmds, c)
  PROVE  Backs
  <1> DEFINE scheduled == ScheduleTimeouts(ctl, room.cmds, {c})
             MayAttempt == ctl.work[c] = "volatile" \/ (ctl.work[c] = "durable" /\ Available)
             overdue == Expired(room.cmds, {c}) # {}
  <1>1. scheduled \in Controls /\ scheduled.work = control.work /\ scheduled.retryAt = ctl.retryAt
    BY ScheduleType DEF Types, Rooms, Lists
  <1>2. attempts' = <<>>
    BY DEF AttemptsBecome
  <1> HIDE DEF scheduled
  <1>3. ASSUME NEW r \in RealReceipts, disk' = disk, room' = room, led' = led, inputs' \in Seq(BackedInputs'),
               control'.work = control.work,
               \A x \in Command : control'.retryAt[x] # NoTime => IsActive(room.cmds, x)
        PROVE  Backs
    BY <1>2, <1>3, LedBacks DEF LedWrites
  \* A receipt to speak of, for the steps that write none.
  <1>4. PICK r0 \in RealReceipts : TRUE
    <2>1. [kind |-> "none", power |-> "off", due |-> 0, acceptedAt |-> 0, terminal |-> TRUE] \in RealReceipts
      BY NoRecordType DEF RealReceipts
    <2> QED BY <2>1
  <1>5. ASSUME control' = ctl, room' = room, led' = led, disk' = disk, inputs' \in {inputs, Append(inputs, TimedOut(c, room.cmds[c].deadline))}
        PROVE  Backs
    <2>1. TimedOut(c, room.cmds[c].deadline) \in Plain
      BY TimedOutPlain DEF Types, Rooms, Lists, Records
    <2>2. TimedOut(c, room.cmds[c].deadline) \in BackedInputs'
      BY <2>1, BareBacked DEF TimedOut, Input
    <2>3. inputs' \in Seq(BackedInputs')
      <3> PICK e \in BackedInputs' : e = TimedOut(c, room.cmds[c].deadline)
        BY <2>2
      <3>1. inputs \in Seq(BackedInputs') /\ Append(inputs, e) \in Seq(BackedInputs')
        OBVIOUS
      <3> QED BY <1>5, <3>1
    <2> QED BY <1>3, <1>4, <1>5, <2>3
  <1>6. CASE DispatchVolatile(c, scheduled)
    <2>1. PICK plan \in Plan : HandedOff(c, NewReceipt(c, plan), FALSE, disk) /\ control' = scheduled
      BY <1>6 DEF DispatchVolatile
    <2>2. NewReceipt(c, plan) \in RealReceipts
      BY NewReceiptType
    <2> QED BY <1>1, <1>2, <2>1, <2>2, HandedOffBacks
  <1>7. ASSUME ctl.work[c] = "durable", Available, ~overdue, DispatchDurable(c, scheduled)
        PROVE  Backs
    <2>1. disk.outbox[c] # "none" /\ disk.cmds = room.cmds
      <3>1. control.work[c] = "durable"
        BY <1>7
      <3>2. disk.outbox[c] # "none"
        BY <3>1 DEF Backing, WorkIsBacked
      <3>3. disk.cmds = room.cmds
        BY <1>7 DEF Agreement, Synced
      <3> QED BY <3>2, <3>3
    <2>2. MayStore(c)
      <3>1. room.cmds[c].status = "pending" => now < room.cmds[c].deadline
        <4>1. room.cmds[c].deadline \in Nat /\ now \in Nat
          BY DEF Types, Rooms, Lists, Records
        <4> QED BY <1>7, <4>1 DEF Expired
      <3>2. Backed(disk, c) /\ disk.outbox[c] \in OutboxStates
        BY DEF Backing, AllBacked, Types, Disks, OutboxStates
      <3>3. disk.outbox[c] # "closed" /\ room.cmds[c].admitted = "durable"
        BY <2>1, <3>2 DEF Backed, IsActive, ActiveStatus
      <3>4. disk.receipts[c] = NoReceipt => disk.outbox[c] # "delivered"
        BY <3>2 DEF Backed
      <3> QED BY <2>1, <3>1, <3>2, <3>3, <3>4 DEF MayStore, Live, OutboxStates
    <2>3. CASE DeliveryUncertain(c, scheduled)
      <3> DEFINE e == Input(IF room.cmds[c].status = "accepted" THEN "uncertain" ELSE "mark_uncertain",
                            c, "off", now, TRUE)
      <3>1. e \in Plain
        BY PlainType, NoRecordType DEF InputKinds, RequestKinds, Types
      <3>2. e.durable /\ e.kind \in {"uncertain", "mark_uncertain"} /\ e.cmd = c
        BY DEF Input
      <3>3. room' = room /\ led' = led /\ disk' = disk /\ inputs' = Append(inputs, e)
            /\ control' = [scheduled EXCEPT !.retryAt[c] = IF @ = NoTime THEN now + RetryDelay ELSE @]
        BY <2>3 DEF DeliveryUncertain
      <3> HIDE DEF e
      <3>4. e \in BackedInputs'
        BY <2>1, <3>1, <3>2, <3>3 DEF BackedInputs
      <3>5. control'.work = control.work /\ \A x \in Command : control'.retryAt[x] # NoTime => IsActive(room.cmds, x)
        BY <1>1, <3>3 DEF Controls
      <3>6. inputs' \in Seq(BackedInputs')
        BY <3>3, <3>4
      <3> QED BY <1>3, <1>4, <3>3, <3>5, <3>6
    <2>4. CASE NotHandedOff(c, scheduled)
      <3> DEFINE e == Input("failed", c, "off", now, TRUE)
      <3>1. e \in Plain
        BY PlainType, NoRecordType DEF InputKinds, RequestKinds, Types
      <3>2. e.durable /\ e.kind = "failed" /\ e.cmd = c
        BY DEF Input
      <3>3. room' = room /\ led' = led /\ disk' = disk /\ inputs' = Append(inputs, e) /\ control' = scheduled
        BY <2>4 DEF NotHandedOff
      <3> HIDE DEF e
      <3>4. e \in BackedInputs'
        BY <2>1, <3>1, <3>2, <3>3 DEF BackedInputs
      <3>5. inputs' \in Seq(BackedInputs')
        BY <3>3, <3>4
      <3> QED BY <1>1, <1>3, <1>4, <3>3, <3>5
    <2> DEFINE found == disk.receipts[c]
               Found == IF found # NoReceipt THEN {found} ELSE {NewReceipt(c, plan) : plan \in Plan}
    <2>5. Found \subseteq RealReceipts
      BY NewReceiptType DEF Types, Disks
    <2>6. \/ \E r \in Found :
               \/ HandedOff(c, r, TRUE, WithReceipt(c, r)) /\ control' = scheduled
               \/ Indeterminate({disk, WithReceipt(c, r)} \cup
                                 IF r.due <= now THEN {WithReceipt(c, Marked(r))} ELSE {})
          \/ DeliveryUncertain(c, scheduled)
          \/ NotHandedOff(c, scheduled)
      BY <1>7 DEF DispatchDurable
    <2> HIDE DEF Found
    <2>7. ASSUME NEW r \in Found, HandedOff(c, r, TRUE, WithReceipt(c, r)), control' = scheduled
          PROVE  Backs
      BY <1>1, <1>2, <2>2, <2>5, <2>7, HandedOffBacks
    <2>8. ASSUME NEW r \in Found,
                 Indeterminate({disk, WithReceipt(c, r)} \cup
                                IF r.due <= now THEN {WithReceipt(c, Marked(r))} ELSE {})
          PROVE  Backs
      <3>1. PICK d \in {disk, WithReceipt(c, r), WithReceipt(c, Marked(r))} : Halt("fatal", d)
        BY <2>8 DEF Indeterminate
      <3> QED BY <2>2, <2>5, <3>1, ReceiptHalts
    <2> QED BY <2>3, <2>4, <2>6, <2>7, <2>8
  <1>8. \/ control' = ctl /\ UNCHANGED <<now, faults, process, boot, storage, room, led, disk, inputs>>
        \/ /\ control' = ctl /\ inputs' = Append(inputs, TimedOut(c, room.cmds[c].deadline))
           /\ UNCHANGED <<now, faults, process, boot, storage, room, led, disk>>
        \/ MayAttempt /\ ~overdue /\ ctl.work[c] = "durable" /\ DispatchDurable(c, scheduled)
        \/ DispatchVolatile(c, scheduled)
    BY DEF Attempt, scheduled
  <1> HIDE DEF overdue
  <1> QED BY <1>5, <1>6, <1>7, <1>8

\* The dispatch microtask attempts the active command.
LEMMA RunBacks ==
  ASSUME IInv, Backing, RunAttempt
  PROVE  Backs
  <1>1. Types /\ Agreement /\ Running /\ inputs = <<>> /\ attempts # <<>>
    BY DEF IInv, RunAttempt
  <1>2. PICK c \in Command : attempts = <<c>> /\ IsActive(room.cmds, c)
    BY <1>1 DEF Backing, AttemptIsActive
  <1>3. Attempt(c, control) /\ AttemptsBecome(<<>>)
    BY <1>2 DEF RunAttempt
  <1>4. control \in Controls /\ \A x \in Command : control.retryAt[x] # NoTime => IsActive(room.cmds, x)
    BY <1>1 DEF Types, Backing, WorkIsBacked
  <1> QED BY <1>1, <1>2, <1>3, <1>4, AttemptBacks

\* The timers of the controller and the LED.
LEMMA TimerBacks ==
  ASSUME IInv, Backing, NEW c \in Command, RetryFires(c) \/ TimeoutFires(c) \/ LedTimerFires(c)
  PROVE  Backs
  <1>1. Types /\ Agreement /\ Running /\ inputs = <<>> /\ attempts = <<>>
    BY DEF IInv, RetryFires, TimeoutFires, LedTimerFires, Idle, Quiet
  <1>2. CASE RetryFires(c)
    <2> DEFINE ctl == [control EXCEPT !.retryAt[c] = NoTime]
    <2>1. ctl \in Controls
      BY <1>1, RetryAtType DEF Types, NoTime
    <2>2. ctl.work = control.work /\ \A x \in Command : ctl.retryAt[x] # NoTime => control.retryAt[x] # NoTime
      BY <1>1 DEF Types, Controls
    <2>3. /\ IsActive(room.cmds, c)
          /\ \A x \in Command : ctl.retryAt[x] # NoTime => IsActive(room.cmds, x)
      BY <1>2, <2>2 DEF RetryFires, Backing, WorkIsBacked
    <2>4. Attempt(c, ctl) /\ AttemptsBecome(<<>>)
      BY <1>1, <1>2 DEF RetryFires
    <2> HIDE DEF ctl
    <2> QED BY <1>1, <2>1, <2>2, <2>3, <2>4, AttemptBacks
  <1>3. CASE TimeoutFires(c)
    <2>1. /\ control'.work = control.work /\ control'.retryAt = control.retryAt
          /\ UNCHANGED <<room, attempts, led, disk>>
      BY <1>1, <1>3 DEF TimeoutFires, Types, Controls
    <2> PICK e : e = TimedOut(c, control.timeoutAt[c])
      OBVIOUS
    <2>2. e \in Plain /\ ~e.durable /\ e.kind = "timed_out"
      <3>1. e \in Plain
        BY <1>1, TimedOutPlain DEF Types, Controls
      <3> QED BY <3>1 DEF TimedOut, Input
    <2>3. inputs' = <<e>> /\ e \in BackedInputs'
      BY <1>3, <2>2, BareBacked DEF TimeoutFires
    <2>4. inputs' \in Seq(BackedInputs')
      BY <2>3
    <2> QED BY <1>1, <2>1, <2>4, SameBacked DEF Backs, Backing, InputsAreBacked
  <1>4. CASE LedTimerFires(c)
    <2>1. led.armed[c].receipt \in Outcomes
      BY <1>1, <1>4 DEF LedTimerFires, Types, Leds
    <2> QED BY <1>1, <1>4, <2>1, DeliverBacks DEF LedTimerFires, Backing, PlansAreReceived
  <1> QED BY <1>2, <1>3, <1>4

-----------------------------------------------------------------------------
(* Requests, and the rest of the process *)

\* A request carries an intent if storage is available.
LEMMA RequestBacks ==
  ASSUME IInv, Backing, NEW c \in Command, NEW power \in Power, RequestCommand(c, power) \/ RejectCommand(c, power)
  PROVE  Backs
  <1>1. Types /\ attempts = <<>>
    BY DEF IInv, RequestCommand, RejectCommand, Idle, Quiet
  <1>2. PICK kind \in RequestKinds, durable \in BOOLEAN :
          /\ inputs' = <<Input(kind, c, power, now, durable)>>
          /\ kind = "requested" => (durable <=> Available)
    BY DEF RequestCommand, RejectCommand, RequestKinds, Available
  <1>3. UNCHANGED <<now, faults, process, boot, storage, room, control, attempts, led, disk>>
    BY DEF RequestCommand, RejectCommand
  <1> PICK e : e = Input(kind, c, power, now, durable)
    OBVIOUS
  <1>4. e \in Inputs /\ e.kind = kind /\ e.durable = durable
    BY <1>1 DEF Input, Inputs, InputKinds, RequestKinds, Types
  <1>5. InputsAreBacked'
    BY <1>2, <1>3, <1>4 DEF InputsAreBacked, Available
  <1> QED BY <1>1, <1>3, <1>5, SameBacked DEF Backs, Backing

\* Other transactions, time, and crashes.
LEMMA OtherBacks ==
  ASSUME IInv, Backing, OtherTransaction \/ Tick \/ Crash
  PROVE  Backs
  <1>1. Types /\ Agreement
    BY DEF IInv
  <1>2. CASE OtherTransaction
    <2> DEFINE saved == [disk EXCEPT !.cmds = room.cmds, !.obs = room.obs, !.guards = room.guards]
    <2>1. Running /\ Available /\ inputs = <<>> /\ attempts = <<>>
      BY <1>2 DEF OtherTransaction, Idle, Quiet
    <2>2. saved.cmds = disk.cmds /\ saved.outbox = disk.outbox /\ saved.receipts = disk.receipts
      BY <1>1, <2>1 DEF Types, Disks, Agreement, Synced
    <2>3. disk' = saved \/ disk' = disk
      BY <1>2 DEF OtherTransaction
    <2> HIDE DEF saved
    <2>4. disk'.cmds = disk.cmds /\ disk'.outbox = disk.outbox /\ disk'.receipts = disk.receipts
      BY <2>2, <2>3
    <2>5. UNCHANGED <<now, process, boot, room, control, inputs, attempts, led>>
      BY <1>2 DEF OtherTransaction
    <2>6. AllBacked(disk)' /\ Grows /\ NoNewIntent /\ AcceptsLive
      BY <2>4 DEF Backing, AllBacked, Backed, IsActive, Grows, NoNewIntent, AcceptsLive
    <2>7. WorkIsBacked' /\ AttemptIsActive' /\ PlansAreReceived'
      BY <2>1, <2>4, <2>5 DEF Backing, WorkIsBacked, AttemptIsActive, PlansAreReceived, IsActive
    <2>8. inputs' \in Seq(BackedInputs')
      BY <2>1, <2>5
    <2> QED BY <1>1, <2>4, <2>5, <2>6, <2>7, <2>8, QuietBacks DEF Backing
  <1>3. CASE Tick
    <2>1. UNCHANGED <<faults, process, boot, storage, room, control, inputs, attempts, led, disk>>
      BY <1>3 DEF Tick
    <2>2. InputsAreBacked' /\ AttemptIsActive'
      BY <2>1 DEF Backing, InputsAreBacked, BackedInputs, Available, AttemptIsActive, IsActive
    <2> QED BY <2>1, <2>2, SameBacked DEF Backs, Backing
  <1>4. CASE Crash
    BY <1>4, HaltBacks DEF Crash, Backing
  <1> QED BY <1>2, <1>3, <1>4

\* The receipts are listed at startup.
LEMMA ListBacks ==
  ASSUME IInv, Backing, ListReceipts
  PROVE  Backs
  <1>1. Types /\ inputs = <<>> /\ attempts = <<>>
    BY DEF IInv, ListReceipts, Quiet
  <1>2. ASSUME NEW C, led' = [led EXCEPT !.restoring = C],
               UNCHANGED <<now, process, room, control, inputs, attempts, disk>>
        PROVE  Backs
    <2>1. led'.armed = led.armed
      BY <1>1, <1>2 DEF Types, Leds
    <2>2. PlansAreReceived'
      BY <1>2, <2>1 DEF Backing, PlansAreReceived
    <2>3. InputsAreBacked'
      BY <1>1, <1>2 DEF InputsAreBacked
    <2> QED BY <1>1, <1>2, <2>2, <2>3, SameBacked DEF Backs, Backing
  <1>3. CASE Indeterminate({disk})
    BY <1>3, HaltBacks DEF Indeterminate, Backing
  <1> QED BY <1>2, <1>3 DEF ListReceipts

\* A plan is restored from its receipt.
LEMMA RestoreBacks ==
  ASSUME IInv, Backing, NEW c \in Command, RestorePlan(c)
  PROVE  Backs
  <1>1. Types /\ inputs = <<>> /\ attempts = <<>>
    BY DEF IInv, RestorePlan, Quiet
  <1> DEFINE r == disk.receipts[c]
  <1>2. r # NoReceipt /\ r \in RealReceipts /\ (r.kind # "none" => r \in Outcomes)
    <2>1. r # NoReceipt /\ r \in {NoReceipt} \cup RealReceipts
      BY <1>1 DEF RestorePlan, Types, Disks
    <2> QED BY <2>1, OutcomeReceipt
  <1>3. CASE /\ led' = [led EXCEPT !.restoring = @ \ {c},
                          !.armed[c] = IF r.kind = "none" THEN NoPlan
                                       ELSE [receipt |-> r, durable |-> TRUE]]
             /\ UNCHANGED <<now, faults, process, boot, storage, room, control, inputs, attempts, disk>>
    <2>1. \A x \in Command \ {c} : led'.armed[x] = led.armed[x]
      BY <1>1, <1>3 DEF Types, Leds
    <2>2. PlansAreReceived'
      BY <1>2, <1>3, <2>1 DEF Backing, PlansAreReceived
    <2>3. InputsAreBacked'
      BY <1>1, <1>3 DEF InputsAreBacked
    <2> QED BY <1>1, <1>3, <2>2, <2>3, SameBacked DEF Backs, Backing
  <1>4. CASE r.kind # "none" /\ DeliverOutcome(c, r, TRUE)
    BY <1>1, <1>2, <1>4, DeliverBacks
  <1> HIDE DEF r
  <1> QED BY <1>3, <1>4 DEF RestorePlan, r

\* A sequence of one element.
LEMMA SeqOne ==
  ASSUME NEW S, NEW e \in S
  PROVE  <<e>> \in Seq(S)
  OBVIOUS

\* The LED reports its state at startup.
LEMMA ReportBacks ==
  ASSUME IInv, Backing, ReportCurrentState
  PROVE  Backs
  <1>1. Types /\ inputs = <<>> /\ attempts = <<>>
    BY DEF IInv, ReportCurrentState, Quiet
  <1> PICK e : e = Input("report", NoCommand, led.lamp, now, FALSE)
    OBVIOUS
  <1>2. inputs' = <<e>> /\ UNCHANGED <<now, faults, process, storage, room, control, attempts, led, disk>>
    BY DEF ReportCurrentState
  <1>3. e \in Plain /\ ~e.durable /\ e.kind = "report"
    BY <1>1 DEF Input, Plain, Inputs, InputKinds, RequestKinds, Types, Leds
  <1>4. e \in BackedInputs'
    <2>1. e.kind \notin {"mark_uncertain", "close"}
      BY <1>3
    <2> QED BY <1>3, <2>1, BareBacked
  <1>5. inputs' \in Seq(BackedInputs')
    BY <1>2, <1>4, SeqOne
  <1> QED BY <1>1, <1>2, <1>5, SameBacked DEF Backs, Backing, InputsAreBacked

-----------------------------------------------------------------------------
(* Recovery and startup *)

\* The one element of a set.
LEMMA SetToSeqOne ==
  ASSUME NEW c
  PROVE  SetToSeq({c}) = <<c>>
  <1>1. IsFiniteSet({c}) /\ Cardinality({c}) = 1
    BY FS_Singleton
  <1> PICK s : s = SetToSeq({c})
    OBVIOUS
  <1>2. s \in Seq({c}) /\ Len(s) = 1
    BY <1>1, SetToSeqType
  <1>3. s \in [1..1 -> {c}]
    BY <1>2
  <1>4. <<c>> \in [1..1 -> {c}] /\ <<c>>[1] = c /\ s[1] = c
    BY <1>3
  <1>5. s = <<c>>
    BY <1>3, <1>4
  <1> QED BY <1>5

\* Reconciling attempts the active command again if its intent is open, and closes the
\* intents of completed commands.
LEMMA ReconcileBacks ==
  ASSUME Types, AllBacked(disk)', PlansAreReceived, led' = led, now \in Nat,
         NEW cmds \in [Command -> Records], One(cmds), NEW ctl \in Controls, Reconcile(cmds, ctl),
         room'.cmds = cmds, disk'.cmds = cmds, disk'.outbox = disk.outbox, disk'.receipts = disk.receipts,
         \A c \in Command : /\ ctl.work[c] = "durable" => disk.outbox[c] # "none"
                            /\ ctl.retryAt[c] # NoTime => IsActive(cmds, c)
  PROVE  Backs
  <1> DEFINE open == {c \in Command : disk.outbox[c] \notin {"none", "closed"}}
             gone == {c \in open : ~IsActive(cmds, c)}
             postponed == {c \in gone : \E d \in ActiveCommands(cmds) : d # c /\ cmds[d].lifecycle = "volatile"}
             late == Expired(cmds, open)
             delivered == {c \in open \ (gone \cup late) : disk.outbox[c] = "delivered"}
             again == open \ (gone \cup late \cup delivered)
             close == {Input("close", c, "off", now, FALSE) : c \in gone \ postponed}
             scheduled == ScheduleTimeouts(ctl, cmds, delivered \cup again)
  <1>1. open \in SUBSET Command /\ IsFiniteSet(open)
    <2>1. open \in SUBSET Intents(disk)
      BY DEF Intents
    <2> QED BY <2>1, FS_Subset DEF Types, Intents
  <1>2. gone \ postponed \in SUBSET Command /\ IsFiniteSet(gone \ postponed)
    <2>1. gone \ postponed \in SUBSET open
      OBVIOUS
    <2> HIDE DEF open, gone, postponed
    <2> QED BY <1>1, <2>1, FS_Subset
  <1>3. IsFiniteSet(close) /\ close \subseteq Own
    BY <1>2, OncePerCommand DEF InputKinds, RequestKinds
  <1>4. close \subseteq BackedInputs' /\ close \subseteq Closings
    <2> SUFFICES ASSUME NEW c \in gone \ postponed, NEW e, e = Input("close", c, "off", now, FALSE)
                 PROVE  e \in BackedInputs' /\ e \in Closings
      OBVIOUS
    <2>1. e \in Plain /\ ~e.durable /\ e.kind = "close" /\ e.cmd = c
      BY <1>3 DEF Own, Input
    <2>2. ~IsActive(room'.cmds, e.cmd)
      BY <2>1 DEF IsActive
    <2> QED BY <2>1, <2>2 DEF BackedInputs, IsActive, Closings, Plain
  <1>5. late \in SUBSET Command /\ \A c, d \in late \cup again : c = d
    <2>1. late \in SUBSET Command /\ again \in SUBSET Command /\ late \cup again \subseteq ActiveCommands(cmds)
      BY DEF Expired, ActiveCommands, IsActive, ActiveStatus
    <2> QED BY <2>1 DEF One
  <1>6. scheduled \in Controls /\ scheduled.work = ctl.work /\ scheduled.retryAt = ctl.retryAt
    BY ScheduleType
  <1>7. again \in SUBSET Command /\ (\A c \in again : disk.outbox[c] # "none" /\ IsActive(cmds, c))
        /\ (again # {} => late = {})
    BY <1>5, SMTT(60)
  <1> HIDE DEF close, late, scheduled
  <1>8. PICK closings \in SetToSeqs(close) : inputs' = TimeoutInputs(cmds, late) \o closings
    BY DEF Reconcile, close, late
  <1>9. closings \in Seq(BackedInputs') /\ closings \in Seq(Closings)
    <2>1. closings \in Seq(close)
      BY <1>3, <1>8, SetToSeqsType
    <2> QED BY <1>4, <2>1, SeqOfPart
  <1>10. TimeoutInputs(cmds, late) \in Seq(BackedInputs') /\ (late = {} => TimeoutInputs(cmds, late) = <<>>)
    <2>1. ASSUME NEW c \in late PROVE TimedOut(c, cmds[c].deadline) \in BackedInputs'
      <3>1. TimedOut(c, cmds[c].deadline) \in Plain
        BY <1>5, TimedOutPlain DEF Records
      <3> QED BY <3>1, BareBacked DEF TimedOut, Input
    <2> QED BY <1>5, <2>1, TimeoutInputsIn
  <1>11. inputs' \in Seq(BackedInputs') /\ (again # {} => inputs' \in Seq(Closings))
    BY <1>7, <1>8, <1>9, <1>10, SMTT(60)
  <1>12. attempts' = SetToSeq(again)
    BY SMTT(60) DEF Reconcile, late
  <1> DEFINE work == [c \in Command |-> IF c \in gone \cup delivered THEN "none"
                                        ELSE IF c \in again THEN "durable" ELSE scheduled.work[c]]
  <1>13. control' = [scheduled EXCEPT !.work = work]
    BY DEF Reconcile, late, scheduled
  <1>14. \A c \in Command : work[c] = "durable" => disk.outbox[c] # "none"
    BY <1>6
  <1> HIDE DEF again, work, gone, delivered
  <1>15. AttemptIsActive'
    <2>1. CASE again = {}
      <3>1. SetToSeq(again) = <<>>
        BY <2>1, SetToSeqType, FS_EmptySet
      <3> QED BY <1>12, <3>1 DEF AttemptIsActive
    <2>2. CASE again # {}
      <3>1. PICK c \in again : again = {c}
        BY <1>5, <2>2
      <3>2. attempts' = <<c>> /\ c \in Command /\ inputs' \in Seq(Closings) /\ IsActive(cmds, c)
        BY <1>7, <1>11, <1>12, <3>1, SetToSeqOne
      <3> QED BY <3>2 DEF AttemptIsActive, IsActive, Closings
    <2> QED BY <2>1, <2>2
  <1>16. WorkIsBacked'
    <2>1. control'.work = work /\ control'.retryAt = ctl.retryAt
      BY <1>6, <1>13 DEF Controls
    <2> QED BY <1>14, <2>1 DEF WorkIsBacked, IsActive
  <1>17. MemoryIsBacked'
    BY SyncedBacked
  <1>18. PlansAreReceived' /\ AcceptsLive
    BY DEF PlansAreReceived, AcceptsLive
  <1> QED BY <1>11, <1>15, <1>16, <1>17, <1>18 DEF Backs, Backing, InputsAreBacked

\* Recovery keeps how a command was admitted, memory and store agreeing on it; only an
\* outcome may leave the list.
LEMMA MergedAdmission ==
  ASSUME Types, Agreement, NEW c \in Command
  PROVE  LET merged == MergedRoom.cmds
         IN  \/ /\ room.cmds[c].status # "none"
                /\ merged[c].status = room.cmds[c].status
                /\ merged[c].admitted = room.cmds[c].admitted
             \/ /\ room.cmds[c].status = "none"
                /\ merged[c].status = disk.cmds[c].status
                /\ disk.cmds[c].status # "none" => merged[c].admitted = disk.cmds[c].admitted
             \/ /\ merged[c].status = "none"
                /\ ~IsActive(room.cmds, c)
                /\ room.cmds[c].status = "none" => ~IsActive(disk.cmds, c)
  <1> DEFINE base == [x \in Command |->
                        IF \/ disk.cmds[x].status = "none"
                           \/ /\ room.cmds[x].status # "none"
                              /\ IsTerminal(room.cmds, x) \/ ~IsTerminal(disk.cmds, x)
                        THEN room.cmds[x] ELSE disk.cmds[x]]
             merged == MergedCommands
             promoted == Promoted(merged)
  <1>1. room.cmds[c] \in Records /\ disk.cmds[c] \in Records /\ Follows(room.cmds[c], disk.cmds[c])
    BY RecordTypes DEF Agreement, MemoryFollows
  <1>2. room.cmds[c].status # "none" /\ IsTerminal(disk.cmds, c) => IsTerminal(room.cmds, c)
    BY <1>1 DEF Follows, Promise!Rank, IsTerminal, TerminalStatus, Records, Status
  <1>3. /\ room.cmds[c].status # "none" => base[c] = room.cmds[c]
        /\ room.cmds[c].status = "none" /\ disk.cmds[c].status # "none" => base[c] = disk.cmds[c]
        /\ room.cmds[c].status = "none" /\ disk.cmds[c].status = "none" => base[c] = room.cmds[c]
    BY <1>2
  <1>4. base \in [Command -> Records]
    BY RecordTypes
  <1>5. merged = Selected(base)
    BY DEF MergedCommands
  <1>6. MergedRoom.cmds = promoted
    BY DEF MergedRoom
  <1> HIDE DEF base, merged
  <1>7. /\ merged[c] \in Records
        /\ merged[c] = base[c] \/ (merged[c] = NoRecord /\ base[c].status \in TerminalStatus)
    BY <1>4, <1>5, SelectedFacts DEF Lists, IsTerminal
  <1>8. promoted[c] = IF c \in room.startupFailures /\ IsTerminal(merged, c)
                      THEN [merged[c] EXCEPT !.lifecycle = "durable"] ELSE merged[c]
    BY DEF Promoted
  <1> HIDE DEF promoted
  <1>9. promoted[c].status = merged[c].status /\ promoted[c].admitted = merged[c].admitted
    BY <1>7, <1>8 DEF Records
  <1> SUFFICES \/ /\ room.cmds[c].status # "none"
                  /\ promoted[c].status = room.cmds[c].status
                  /\ promoted[c].admitted = room.cmds[c].admitted
               \/ /\ room.cmds[c].status = "none"
                  /\ promoted[c].status = disk.cmds[c].status
                  /\ disk.cmds[c].status # "none" => promoted[c].admitted = disk.cmds[c].admitted
               \/ /\ promoted[c].status = "none"
                  /\ ~IsActive(room.cmds, c)
                  /\ room.cmds[c].status = "none" => ~IsActive(disk.cmds, c)
    BY <1>6
  <1>10. CASE merged[c] = base[c]
    BY <1>3, <1>9, <1>10
  <1>11. CASE merged[c] = NoRecord /\ base[c].status \in TerminalStatus
    <2>1. promoted[c].status = "none"
      BY <1>9, <1>11 DEF NoRecord
    <2>2. ~IsActive(room.cmds, c) /\ (room.cmds[c].status = "none" => ~IsActive(disk.cmds, c))
      BY <1>3, <1>11 DEF IsActive, ActiveStatus, TerminalStatus
    <2> QED BY <2>1, <2>2
  <1> QED BY <1>7, <1>10, <1>11

\* Recovery stores what memory admitted, and takes up the durable deliveries again.
LEMMA RecoverBacks ==
  ASSUME IInv, Backing, Recover
  PROVE  Backs
  <1>1. Types /\ Agreement /\ Running /\ inputs = <<>> /\ attempts = <<>> /\ ~Available
    BY DEF IInv, Recover, Idle, Quiet
  <1> PICK merged \in Rooms : merged = MergedRoom
    BY <1>1, MergedFacts
  <1>2. ASSUME NEW c \in Command
        PROVE  \/ /\ room.cmds[c].status # "none"
                  /\ merged.cmds[c].status = room.cmds[c].status
                  /\ merged.cmds[c].admitted = room.cmds[c].admitted
               \/ /\ room.cmds[c].status = "none"
                  /\ merged.cmds[c].status = disk.cmds[c].status
                  /\ disk.cmds[c].status # "none" => merged.cmds[c].admitted = disk.cmds[c].admitted
               \/ /\ merged.cmds[c].status = "none"
                  /\ ~IsActive(room.cmds, c)
                  /\ room.cmds[c].status = "none" => ~IsActive(disk.cmds, c)
    BY <1>1, MergedAdmission
  <1> DEFINE saved == [disk EXCEPT !.cmds = merged.cmds, !.obs = merged.obs, !.guards = merged.guards,
                                   !.known = merged.known]
  <1>3. saved.receipts = disk.receipts /\ saved.cmds = merged.cmds /\ saved.outbox = disk.outbox
    BY <1>1 DEF Types, Disks
  <1>4. \/ /\ UNCHANGED <<now, process, boot, room, control, inputs, attempts, led, disk>>
        \/ /\ ~ActiveConflict
           /\ room' = merged /\ disk' = saved
           /\ Reconcile(merged.cmds, control)
           /\ UNCHANGED <<now, faults, process, boot, led>>
        \/ Indeterminate({disk, saved})
    BY DEF Recover
  <1> HIDE DEF saved
  <1>5. AllBacked(saved)
    <2> SUFFICES ASSUME NEW c \in Command PROVE Backed(saved, c)
      BY DEF AllBacked
    <2>1. Backed(disk, c)
      BY DEF Backing, AllBacked
    <2>2. room.cmds[c].status # "none" =>
            /\ room.cmds[c].admitted = "durable" =>
                 disk.cmds[c].status # "none" /\ (disk.outbox[c] # "none" \/ room.cmds[c].status = "failed")
            /\ disk.cmds[c].status # "none" => room.cmds[c].admitted = disk.cmds[c].admitted
            /\ disk.outbox[c] # "none" => disk.cmds[c].status # "none"
      BY DEF Backing, MemoryIsBacked
    <2>3. IsActive(room.cmds, c) /\ disk.cmds[c].status # "none" => IsActive(disk.cmds, c)
      <3>1. Follows(room.cmds[c], disk.cmds[c]) /\ room.cmds[c] \in Records /\ disk.cmds[c] \in Records
        BY <1>1, RecordTypes DEF Agreement, MemoryFollows
      <3> QED BY <3>1 DEF Follows, Promise!Rank, IsActive, ActiveStatus, Records, Status
    <2>4. IsActive(merged.cmds, c) /\ disk.outbox[c] # "none" => IsActive(disk.cmds, c)
      BY <1>2, <2>2, <2>3 DEF IsActive, ActiveStatus
    <2>5. IsActive(saved.cmds, c) <=> IsActive(merged.cmds, c)
      BY <1>3 DEF IsActive
    <2>6. merged.cmds[c].status # "none" /\ merged.cmds[c].admitted = "durable" =>
            disk.outbox[c] # "none" \/ merged.cmds[c].status = "failed"
      BY <1>2, <2>1, <2>2 DEF Backed
    <2>7. disk.outbox[c] # "none" /\ merged.cmds[c].status # "none" => merged.cmds[c].admitted = "durable"
      BY <1>2, <2>1, <2>2 DEF Backed
    <2> QED BY <1>3, <2>1, <2>4, <2>5, <2>6, <2>7 DEF Backed
  <1>6. CASE UNCHANGED <<now, process, boot, room, control, inputs, attempts, led, disk>>
    BY <1>1, <1>6, SameBacked DEF Backs, Backing, InputsAreBacked
  <1>7. CASE /\ ~ActiveConflict
             /\ room' = merged /\ disk' = saved
             /\ Reconcile(merged.cmds, control)
             /\ UNCHANGED <<now, faults, process, boot, led>>
    <2>1. One(merged.cmds)
      <3> SUFFICES ASSUME NEW c \in Command, NEW d \in Command, IsActive(merged.cmds, c), IsActive(merged.cmds, d)
                   PROVE  c = d
        BY DEF One, ActiveCommands
      <3>1. /\ IsActive(room.cmds, c) \/ IsActive(disk.cmds, c)
            /\ IsActive(room.cmds, d) \/ IsActive(disk.cmds, d)
        BY <1>2 DEF IsActive, ActiveStatus
      <3> QED BY <1>1, <1>7, <3>1 DEF ActiveConflict, Agreement, One, ActiveCommands
    <2>2. AllBacked(disk)'
      BY <1>5, <1>7 DEF AllBacked, Backed, IsActive
    <2>3. \A c \in Command : control.retryAt[c] # NoTime => IsActive(merged.cmds, c)
      BY <1>2 DEF Backing, WorkIsBacked, IsActive, ActiveStatus
    <2>4. \A c \in Command : control.work[c] = "durable" => disk.outbox[c] # "none"
      BY DEF Backing, WorkIsBacked
    <2>5. /\ merged.cmds \in [Command -> Records] /\ control \in Controls /\ now \in Nat /\ PlansAreReceived
      BY <1>1 DEF Types, Rooms, Lists, Backing
    <2> QED BY <1>1, <1>3, <1>7, <2>1, <2>2, <2>3, <2>4, <2>5, ReconcileBacks
  <1>8. CASE Indeterminate({disk, saved})
    BY <1>3, <1>5, <1>8, HaltBacks DEF Indeterminate, Backing
  <1> QED BY <1>4, <1>6, <1>7, <1>8

\* A new process has no work yet, and closes the commands that were lost with the last.
LEMMA RestartBacks ==
  ASSUME IInv, IInv', Backing, Restart
  PROVE  Backs
  <1>1. Types /\ Agreement /\ ~Running /\ One(room'.cmds)
    BY DEF IInv, Restart, Agreement
  <1>2. inputs' = LostCommands(room') /\ UNCHANGED <<now, boot, control, attempts, led, disk>>
    BY DEF Restart
  <1>3. room'.cmds = disk.cmds \/ \A c \in Command : room'.cmds[c].status = "none"
    <2>1. Restored.cmds = disk.cmds /\ [Restored EXCEPT !.known = {}].cmds = disk.cmds
          /\ \A c \in Command : EmptyRoom.cmds[c].status = "none"
      BY DEF Restored, EmptyRoom, NoRecord
    <2> QED BY <2>1 DEF Restart
  <1>4. \A c \in Command : room.cmds[c].status = "none"
    BY <1>1 DEF Agreement, DownIsEmpty
  <1>5. attempts' = <<>> /\ \A c \in Command : control'.retryAt[c] = NoTime
    BY <1>2, <1>4 DEF Backing, AttemptIsActive, WorkIsBacked, IsActive, ActiveStatus
  <1>6. AllBacked(disk)' /\ AcceptsLive /\ PlansAreReceived'
    BY <1>2 DEF Backing, AllBacked, Backed, IsActive, AcceptsLive, PlansAreReceived
  <1>7. MemoryIsBacked'
    <2>1. CASE room'.cmds = disk.cmds
      BY <1>2, <1>6, <2>1, SyncedBacked
    <2>2. CASE \A c \in Command : room'.cmds[c].status = "none"
      BY <2>2 DEF MemoryIsBacked
    <2> QED BY <1>3, <2>1, <2>2
  <1>8. WorkIsBacked' /\ AttemptIsActive'
    BY <1>2, <1>5 DEF Backing, WorkIsBacked, AttemptIsActive
  <1>9. inputs' \in Seq(BackedInputs')
    <2> DEFINE lost == {d \in ActiveCommands(room'.cmds) : room'.cmds[d].admitted = "volatile"}
               S == {Input("failed", c, "off", now, FALSE) : c \in lost}
    <2>1. lost \in SUBSET Command /\ IsFiniteSet(lost)
      BY <1>1, FewFinite DEF One, ActiveCommands
    <2> HIDE DEF lost
    <2>2. IsFiniteSet(S) /\ S \subseteq Own
      BY <1>1, <2>1, OncePerCommand DEF InputKinds, RequestKinds, Types
    <2>3. S \subseteq BackedInputs'
      <3> SUFFICES ASSUME NEW c \in lost, NEW e, e = Input("failed", c, "off", now, FALSE)
                   PROVE  e \in BackedInputs'
        OBVIOUS
      <3>1. e \in Plain /\ ~e.durable /\ e.kind \notin {"mark_uncertain", "close"}
        BY <2>2 DEF Own, Input
      <3> QED BY <3>1, BareBacked
    <2>4. inputs' = SetToSeq(S)
      BY <1>2 DEF LostCommands, lost
    <2> HIDE DEF S
    <2>5. SetToSeq(S) \in Seq(S)
      BY <2>2, SetToSeqType
    <2> QED BY <2>3, <2>4, <2>5, SeqOfPart
  <1> QED BY <1>6, <1>7, <1>8, <1>9 DEF Backs, Backing, InputsAreBacked

\* Startup ends with the outbox reconciled.
LEMMA ResumeBacks ==
  ASSUME IInv, Backing, ResumeCommands
  PROVE  Backs
  <1>1. Types /\ Agreement /\ Running /\ inputs = <<>> /\ attempts = <<>>
        /\ UNCHANGED <<now, faults, process, storage, room, led, disk>>
    BY DEF IInv, ResumeCommands, Quiet
  <1> DEFINE ctl == ScheduleTimeouts(control, room.cmds, Command)
  <1>2. ctl \in Controls /\ ctl.work = control.work /\ ctl.retryAt = control.retryAt
    BY <1>1, ScheduleType DEF Types, Rooms, Lists
  <1>3. (Available /\ Reconcile(room.cmds, ctl)) \/ (control' = ctl /\ UNCHANGED <<inputs, attempts>>)
    BY DEF ResumeCommands
  <1> HIDE DEF ctl
  <1>4. CASE Available /\ Reconcile(room.cmds, ctl)
    <2>1. room.cmds = disk.cmds /\ One(room.cmds) /\ room.cmds \in [Command -> Records] /\ now \in Nat
      BY <1>1, <1>4 DEF Agreement, Synced, Types, Rooms, Lists
    <2>2. AllBacked(disk)' /\ PlansAreReceived
      BY <1>1 DEF Backing, AllBacked, Backed, IsActive
    <2>3. \A c \in Command : /\ ctl.work[c] = "durable" => disk.outbox[c] # "none"
                             /\ ctl.retryAt[c] # NoTime => IsActive(room.cmds, c)
      BY <1>2 DEF Backing, WorkIsBacked
    <2> QED BY <1>1, <1>2, <1>4, <2>1, <2>2, <2>3, ReconcileBacks
  <1>5. CASE control' = ctl /\ UNCHANGED <<inputs, attempts>>
    BY <1>1, <1>2, <1>5, SameBacked DEF Backs, Backing, InputsAreBacked
  <1> QED BY <1>3, <1>4, <1>5

-----------------------------------------------------------------------------
(* Together *)

\* At first there is nothing to back.
LEMMA InitBacks ==
  ASSUME Init
  PROVE  Backing
  <1>1. \A c \in Command : /\ disk.cmds[c] = NoRecord /\ room.cmds[c] = NoRecord
                           /\ disk.outbox[c] = "none" /\ disk.receipts[c] = NoReceipt
                           /\ control.work[c] = "none" /\ control.retryAt[c] = NoTime
                           /\ led.armed[c] = NoPlan
    BY DEF Init, EmptyDisk, EmptyRoom, EmptyControl, FreshLed
  <1>2. NoRecord.status = "none" /\ NoPlan.durable = FALSE
    BY DEF NoRecord, NoPlan
  <1>3. inputs = <<>> /\ attempts = <<>>
    BY DEF Init
  <1>4. AllBacked(disk) /\ MemoryIsBacked
    BY <1>1, <1>2 DEF AllBacked, Backed, MemoryIsBacked
  <1>5. WorkIsBacked /\ PlansAreReceived
    BY <1>1, <1>2 DEF WorkIsBacked, PlansAreReceived
  <1>6. InputsAreBacked /\ AttemptIsActive
    BY <1>3 DEF InputsAreBacked, AttemptIsActive
  <1> QED BY <1>4, <1>5, <1>6 DEF Backing

\* Every step keeps the invariant, and the LED accepts live commands only.
LEMMA NextBacks ==
  ASSUME IInv, Backing, [Next]_vars
  PROVE  Backs
  <1>0. IInv'
    BY NextStep
  <1>1. CASE Next
    <2>1. CASE ProcessEvent \/ PersistOutboxMutation \/ RunAttempt
      BY <1>0, <2>1, ProcessEventBacks, PersistBacks, RunBacks
    <2>2. CASE \E c \in Command : RetryFires(c) \/ TimeoutFires(c) \/ LedTimerFires(c)
      BY <2>2, TimerBacks
    <2>3. CASE \E c \in Command, power \in Power : RequestCommand(c, power) \/ RejectCommand(c, power)
      BY <2>3, RequestBacks
    <2>4. CASE Recover \/ OtherTransaction \/ Tick \/ Crash \/ Restart
      BY <1>0, <2>4, RecoverBacks, OtherBacks, RestartBacks
    <2>5. CASE ListReceipts \/ (\E c \in Command : RestorePlan(c)) \/ ReportCurrentState \/ ResumeCommands
      BY <2>5, ListBacks, RestoreBacks, ReportBacks, ResumeBacks
    <2> QED BY <1>1, <2>1, <2>2, <2>3, <2>4, <2>5 DEF Next
  <1>2. CASE UNCHANGED vars
    <2>1. UNCHANGED <<now, faults, process, boot, storage, room, control, inputs, attempts, led, disk>>
      BY <1>2 DEF vars
    <2>2. AllBacked(disk)' /\ MemoryIsBacked' /\ WorkIsBacked' /\ PlansAreReceived' /\ AcceptsLive
      BY <2>1 DEF Backing, AllBacked, Backed, MemoryIsBacked, WorkIsBacked, PlansAreReceived,
                  AcceptsLive, IsActive
    <2>3. InputsAreBacked' /\ AttemptIsActive'
      BY <2>1 DEF Backing, InputsAreBacked, BackedInputs, Available, AttemptIsActive, IsActive
    <2> QED BY <2>2, <2>3 DEF Backs, Backing
  <1> QED BY <1>1, <1>2

\* Admissions, intents, receipts and work tell the same story at every moment.
THEOREM BackingInvariance == Spec => []Backing
  <1>1. Init => Backing
    BY InitBacks
  <1>2. IInv /\ Backing /\ [Next]_vars => Backing'
    BY NextBacks DEF Backs
  <1> QED BY <1>1, <1>2, Invariance, PTL DEF Spec

\* A command that is shown as admitted durably has a stored intent, or was refused, and
\* every receipt of the LED is of such a command (prepareRequest, commitPreparedEvent,
\* acceptReceipt).
THEOREM AdmissionIsKept == Spec => []AdmissionSurvives
  <1>1. Backing => AdmissionSurvives
    BY DEF Backing, MemoryIsBacked, AllBacked, Backed, AdmissionSurvives
  <1> QED BY <1>1, BackingInvariance, PTL

\* The LED accepts a command once, while it is active and before its deadline, and no
\* deadline moves (attemptDispatch, Pending).
THEOREM DeliveredOnce == Spec => OneDelivery
  <1>1. IInv /\ Backing /\ [Next]_vars =>
          [\A c \in Command :
             disk.receipts[c] = NoReceipt /\ disk'.receipts[c] # NoReceipt
             => /\ IsActive(room.cmds, c)
                /\ room.cmds[c].admitted = "durable"
                /\ room.cmds[c].status = "pending" => now < room.cmds[c].deadline
                /\ disk.outbox[c] \in {"ready", "uncertain"}]_vars
    BY NextBacks DEF Backs, AcceptsLive
  <1>2. Spec => DispatchOnlyLive
    BY <1>1, Invariance, BackingInvariance, PTL DEF Spec, DispatchOnlyLive
  <1> QED BY <1>2, DeadlinesStay, PTL DEF OneDelivery

\* A command whose end storage has seen is not active, nor does anything make it so.
LEMMA StoredEndHolds ==
  ASSUME IInv, Backing, KeepsCommands, NEW c \in Command, EndIsStored(c)
  PROVE  ~IsActive(disk'.cmds, c) /\ ~IsActive(room'.cmds, c)
  <1>1. room.cmds[c] \in Records /\ disk.cmds[c] \in Records /\ Follows(room.cmds[c], disk.cmds[c])
    BY RecordTypes DEF IInv, Agreement, MemoryFollows
  <1>2. ~IsActive(disk.cmds, c)
    BY DEF EndIsStored
  <1>3. ~IsActive(room.cmds, c)
    <2> SUFFICES ASSUME IsActive(room.cmds, c) PROVE FALSE
      OBVIOUS
    <2>1. disk.outbox[c] # "none" => disk.cmds[c].status # "none"
      BY DEF Backing, MemoryIsBacked, IsActive, ActiveStatus
    <2>2. IsTerminal(disk.cmds, c)
      BY <1>1, <1>2, <2>1 DEF EndIsStored, IsTerminal, IsActive, ActiveStatus, TerminalStatus, Records, Status
    <2> QED BY <1>1, <2>2 DEF Follows, Promise!Rank, IsTerminal, TerminalStatus, IsActive, ActiveStatus
  <1>4. ~Fresh(c)
    BY DEF EndIsStored, Fresh, NoRecord, IsTerminal, TerminalStatus
  <1> QED BY <1>2, <1>3, <1>4 DEF KeepsCommands

\* A stored end is final: neither a redelivery, nor the merge of a recovery, nor the next
\* process makes the command active again, also when the list no longer has it
\* (mergeRecoveryProjection, selectRecentCommands, reconcileOutboxAfterRecovery).
THEOREM StoredEndStays == Spec => StoredEndIsFinal
  <1>1. IInv /\ Backing /\ [Next]_vars =>
          [\A c \in Command :
             EndIsStored(c) => ~IsActive(disk'.cmds, c) /\ ~IsActive(room'.cmds, c)]_vars
    BY NextStep, StoredEndHolds
  <1> QED BY <1>1, Invariance, BackingInvariance, PTL DEF Spec, StoredEndIsFinal

-----------------------------------------------------------------------------
(* What an event makes of active commands *)

\* What an event makes of active commands, and which events are always accepted.
Turns(e, p) ==
  /\ \A c \in Command : p.cmds[c].status = "pending" =>
       \/ p.cmds[c] = room.cmds[c]
       \/ /\ p.accepted /\ c = e.cmd /\ IsActive(room.cmds, c)
          /\ e.kind = "dispatched" \/ (e.kind = "uncertain" /\ p.cmds[c].delivery = "uncertain")
          /\ p.cmds[c].requestedAt = room.cmds[c].requestedAt /\ p.cmds[c].origin = e.at
  /\ \A c \in Command : p.cmds[c].status = "accepted" =>
       \/ p.cmds[c] = room.cmds[c]
       \/ p.accepted /\ c = e.cmd /\ e.kind = "requested" /\ p.cmds[c].requestedAt = e.at
  /\ e.kind = "dispatched" /\ MayDispatch(room.cmds[e.cmd]) /\ e.at >= room.cmds[e.cmd].requestedAt
       => p.accepted
  /\ e.kind = "failed" /\ IsActive(room.cmds, e.cmd) /\ InOrder(room.cmds[e.cmd], e.at) => p.accepted
  /\ e.kind = "timed_out" /\ room.cmds[e.cmd].status = "pending" /\ e.at >= room.cmds[e.cmd].deadline
       => p.accepted
  /\ e.kind \in {"dispatched", "uncertain"} /\ p.accepted => p.cmds[e.cmd].status # "accepted"
  /\ e.kind = "uncertain" /\ p.accepted => room.cmds[e.cmd].status = "accepted"

\* A quarantined event turns nothing.
LEMMA IgnoredTurns ==
  ASSUME Types, NEW e,
         ~(e.kind = "dispatched" /\ MayDispatch(room.cmds[e.cmd]) /\ e.at >= room.cmds[e.cmd].requestedAt),
         ~(e.kind = "failed" /\ IsActive(room.cmds, e.cmd) /\ InOrder(room.cmds[e.cmd], e.at)),
         ~(e.kind = "timed_out" /\ room.cmds[e.cmd].status = "pending" /\ e.at >= room.cmds[e.cmd].deadline)
  PROVE  Turns(e, Ignored)
  BY IgnoredType DEF Turns

\* A transition of the event's own command.
LEMMA ChangedTurns ==
  ASSUME Types, NEW e, e.cmd \in Command, NEW record \in Records,
         record.status = "pending" =>
           /\ IsActive(room.cmds, e.cmd)
           /\ e.kind = "dispatched" \/ (e.kind = "uncertain" /\ record.delivery = "uncertain")
           /\ record.requestedAt = room.cmds[e.cmd].requestedAt /\ record.origin = e.at,
         record.status = "accepted" => e.kind = "requested" /\ record.requestedAt = e.at,
         e.kind = "uncertain" => room.cmds[e.cmd].status = "accepted"
  PROVE  Turns(e, Changed(e.cmd, record))
  <1> PICK p : p = Changed(e.cmd, record)
    OBVIOUS
  <1>1. /\ p.accepted
        /\ p.cmds[e.cmd] = record \/ p.cmds[e.cmd] = NoRecord
        /\ \A d \in Command \ {e.cmd} : p.cmds[d] = room.cmds[d] \/ p.cmds[d] = NoRecord
    BY ChangedType
  <1>2. NoRecord.status = "none"
    BY DEF NoRecord
  <1>3. e.kind \in {"dispatched", "uncertain"} => p.cmds[e.cmd].status # "accepted"
    BY <1>1, <1>2
  <1>4. Turns(e, p)
    BY <1>1, <1>2, <1>3 DEF Turns
  <1> QED BY <1>4

\* A handoff makes its command pending, or confirms it.
LEMMA DispatchedTurns ==
  ASSUME Types, NEW e \in Inputs, e.kind = "dispatched"
  PROVE  Turns(e, ApplyDispatched(e))
  <1> DEFINE old == room.cmds[e.cmd]
             new == Pending(old, "handed_off", e.at)
             done == Ended(new, "confirmed", room.obs.at)
             taken == MayDispatch(old) /\ e.at >= old.requestedAt
  <1>1. e.cmd \in Command /\ e.at \in Nat /\ old \in Records /\ room.obs.at \in Nat
    BY DEF Inputs, Types, Rooms, Lists, Observations
  <1>2. CASE taken
    <2>1. new \in Records /\ new.status = "pending"
      BY <1>1, PendingType
    <2>2. new.requestedAt = old.requestedAt /\ new.origin = e.at
      BY <1>1 DEF Pending, Records
    <2> HIDE DEF new
    <2>3. done \in Records /\ done.status = "confirmed"
      BY <1>1, <2>1, EndedType DEF TerminalStatus
    <2>4. ApplyDispatched(e) = Changed(e.cmd, new) \/ ApplyDispatched(e) = Changed(e.cmd, done)
      BY <1>2 DEF ApplyDispatched, new
    <2>5. IsActive(room.cmds, e.cmd)
      BY <1>2 DEF MayDispatch, IsActive, ActiveStatus
    <2> HIDE DEF done
    <2>6. Turns(e, Changed(e.cmd, new)) /\ Turns(e, Changed(e.cmd, done))
      BY <1>1, <2>1, <2>2, <2>3, <2>5, ChangedTurns
    <2> QED BY <2>4, <2>6
  <1>3. CASE ~taken
    <2>1. Turns(e, Ignored)
      BY <1>3, IgnoredTurns
    <2> QED BY <1>3, <2>1 DEF ApplyDispatched
  <1> QED BY <1>2, <1>3

\* A report makes no command active.
LEMMA ReportTurns ==
  ASSUME Types, NEW e \in Inputs, e.kind = "report"
  PROVE  Turns(e, ApplyReport(e))
  <1> DEFINE obs == [power |-> e.power, at |-> e.at, receivedAt |-> now]
             f == [c \in Command |->
                     IF Confirms(c, e.power, e.at)
                     THEN [Ended(room.cmds[c], "confirmed", e.at) EXCEPT !.source = e.cmd]
                     ELSE room.cmds[c]]
  <1>1. CASE Stale(e)
    <2>1. ApplyReport(e) = [Ignored EXCEPT !.accepted = TRUE]
      BY <1>1 DEF ApplyReport
    <2>2. ApplyReport(e).cmds = room.cmds
      BY <2>1 DEF Ignored
    <2> QED BY <2>2 DEF Turns
  <1>2. CASE ~Stale(e)
    <2>1. ApplyReport(e) = [accepted |-> TRUE, obs |-> obs, cmds |-> Selected(f)]
      BY <1>2 DEF ApplyReport
    <2>2. ASSUME NEW c \in Command
          PROVE  f[c] = room.cmds[c] \/ f[c].status = "confirmed"
      <3>1. room.cmds[c] \in Records
        BY DEF Types, Rooms, Lists
      <3> QED BY <3>1 DEF Records, Ended
    <2> HIDE DEF f
    <2>3. ApplyReport(e).cmds = Selected(f)
      BY <2>1
    <2>4. \A c \in Command : Selected(f)[c] = f[c] \/ Selected(f)[c] = NoRecord
      BY DEF Selected
    <2>5. NoRecord.status = "none"
      BY DEF NoRecord
    <2> QED BY <2>2, <2>3, <2>4, <2>5 DEF Turns
  <1> QED BY <1>1, <1>2

\* Whatever the event.
LEMMA EventTurns ==
  ASSUME Types, NEW e \in Inputs, IsEvent(e)
  PROVE  Turns(e, Prepared(e))
  <1> DEFINE old == room.cmds[e.cmd]
             inOrder == IsActive(room.cmds, e.cmd) /\ InOrder(old, e.at)
  <1>1. e.kind # "report" => e.cmd \in Command /\ old \in Records
    BY DEF Inputs, Types, Rooms, Lists
  <1>2. e.at \in Nat /\ e.power \in Power /\ e.kind \in InputKinds
    BY DEF Inputs, InputKinds
  <1>3. e.kind \notin {"report", "rejection"} => Prepared(e) = Apply(e)
    BY DEF Prepared, IsDuplicate, HasStableId
  <1>4. e.kind \notin {"dispatched", "failed", "timed_out"} => Turns(e, Ignored)
    BY IgnoredTurns
  <1>5. CASE e.kind \in {"requested", "rejected"}
    <2> DEFINE accepted == [NoRecord EXCEPT !.status = "accepted", !.power = e.power, !.requestedAt = e.at]
               ended == Ended(NoRecord, "failed", e.at)
               failed == [ended EXCEPT !.power = e.power, !.requestedAt = e.at]
    <2>1. accepted \in Records /\ accepted.status = "accepted" /\ accepted.requestedAt = e.at
      BY <1>2, NoRecordType DEF Records, Status
    <2>2. failed \in Records /\ failed.status = "failed"
      <3>1. ended \in Records /\ ended.status = "failed"
        BY <1>2, NoRecordType, EndedType DEF TerminalStatus
      <3> HIDE DEF ended
      <3> QED BY <1>2, <3>1 DEF Records
    <2>3. /\ e.kind = "requested" => Apply(e) \in {Ignored, Changed(e.cmd, accepted)}
          /\ e.kind = "rejected" => Apply(e) \in {Ignored, Changed(e.cmd, failed)}
      BY <1>5 DEF Apply
    <2> HIDE DEF accepted, failed
    <2>4. /\ e.kind = "requested" => Turns(e, Changed(e.cmd, accepted))
          /\ e.kind = "rejected" => Turns(e, Changed(e.cmd, failed))
      BY <1>1, <1>5, <2>1, <2>2, ChangedTurns
    <2> QED BY <1>3, <1>4, <1>5, <2>3, <2>4
  <1>6. CASE e.kind = "dispatched"
    <2>1. Apply(e) = ApplyDispatched(e)
      BY <1>6 DEF Apply
    <2> QED BY <1>3, <1>6, <2>1, DispatchedTurns
  <1>7. CASE e.kind = "report"
    <2>1. Apply(e) = ApplyReport(e)
      BY <1>7 DEF Apply
    <2> QED BY <1>4, <1>7, <2>1, ReportTurns DEF Prepared
  <1>8. CASE e.kind = "uncertain"
    <2> DEFINE new == Pending(old, "uncertain", e.at)
    <2>1. new \in Records
      BY <1>1, <1>2, <1>8, PendingType
    <2>2. /\ new.status = "pending" /\ new.delivery = "uncertain"
          /\ new.requestedAt = old.requestedAt /\ new.origin = e.at
      BY <1>1, <1>8, <2>1 DEF Pending, Records
    <2>3. Apply(e) \in {Ignored, Changed(e.cmd, new)} /\ (old.status # "accepted" => Apply(e) = Ignored)
      BY <1>8 DEF Apply
    <2> HIDE DEF new
    <2>4. old.status = "accepted" => Turns(e, Changed(e.cmd, new))
      BY <1>1, <1>8, <2>1, <2>2, ChangedTurns DEF IsActive, ActiveStatus
    <2> QED BY <1>3, <1>4, <1>8, <2>3, <2>4
  <1>9. CASE e.kind \in {"failed", "rejection"}
    <2> DEFINE new == Ended(old, "failed", e.at)
    <2>1. new \in Records /\ new.status = "failed"
      BY <1>1, <1>2, <1>9, EndedType DEF TerminalStatus
    <2>2. Apply(e) = IF inOrder THEN Changed(e.cmd, new) ELSE Ignored
      BY <1>9 DEF Apply
    <2> HIDE DEF new
    <2>3. Turns(e, Changed(e.cmd, new))
      BY <1>1, <1>9, <2>1, ChangedTurns
    <2>4. ~inOrder => Turns(e, Ignored)
      BY <1>9, IgnoredTurns
    <2> QED BY <1>3, <1>4, <1>9, <2>2, <2>3, <2>4 DEF Prepared
  <1>10. CASE e.kind = "timed_out"
    <2> DEFINE new == Ended(old, "timed_out", e.at)
               late == old.status = "pending" /\ e.at >= old.deadline
    <2>1. new \in Records /\ new.status = "timed_out"
      BY <1>1, <1>2, <1>10, EndedType DEF TerminalStatus
    <2>2. Apply(e) = IF late THEN Changed(e.cmd, new) ELSE Ignored
      BY <1>10 DEF Apply
    <2> HIDE DEF new
    <2>3. Turns(e, Changed(e.cmd, new))
      BY <1>1, <1>10, <2>1, ChangedTurns
    <2>4. ~late => Turns(e, Ignored)
      BY <1>10, IgnoredTurns
    <2> QED BY <1>3, <1>10, <2>2, <2>3, <2>4
  <1> QED BY <1>2, <1>5, <1>6, <1>7, <1>8, <1>9, <1>10 DEF InputKinds, IsEvent

\* The same of the room after the event, stamps included.
Turned(e, p, cmds, durability) ==
  /\ \A c \in Command : cmds[c].status = "pending" =>
       \/ cmds[c] = room.cmds[c]
       \/ /\ p.accepted /\ c = e.cmd /\ IsActive(room.cmds, c) /\ cmds[c].lifecycle = durability
          /\ e.kind = "dispatched" \/ (e.kind = "uncertain" /\ cmds[c].delivery = "uncertain")
          /\ cmds[c].requestedAt = room.cmds[c].requestedAt /\ cmds[c].origin = e.at
  /\ \A c \in Command : cmds[c].status = "accepted" =>
       \/ cmds[c] = room.cmds[c]
       \/ p.accepted /\ c = e.cmd /\ e.kind = "requested" /\ cmds[c].requestedAt = e.at

\* A changed record is stamped; of the others only confirmed ones are promoted.
LEMMA StampedTurned ==
  ASSUME Types, NEW e, NEW p, Applied(e, p), Effect(e, p), Turns(e, p), NEW durability \in Durability,
         NEW promoted, \A c \in promoted : room.cmds[c].status = "confirmed"
  PROVE  Turned(e, p, Stamped(p.cmds, durability, promoted), durability)
  <1> DEFINE stamped == Stamped(p.cmds, durability, promoted)
  <1>1. ASSUME NEW c \in Command
        PROVE  /\ stamped[c].status = p.cmds[c].status
               /\ p.cmds[c] = room.cmds[c] /\ IsActive(p.cmds, c) => stamped[c] = p.cmds[c]
               /\ p.cmds[c] # room.cmds[c] /\ IsActive(p.cmds, c) =>
                    /\ stamped[c].delivery = p.cmds[c].delivery /\ stamped[c].lifecycle = durability
                    /\ stamped[c].requestedAt = p.cmds[c].requestedAt /\ stamped[c].origin = p.cmds[c].origin
    <2>1. p.cmds[c] \in Records
      BY DEF Applied, Results, Lists
    <2>2. stamped[c] =
            IF p.cmds[c] \notin {room.cmds[c], NoRecord}
            THEN [p.cmds[c] EXCEPT !.admitted = IF room.cmds[c].status = "none" THEN durability ELSE @,
                                   !.lifecycle = durability]
            ELSE IF c \in promoted THEN [p.cmds[c] EXCEPT !.lifecycle = "durable"] ELSE p.cmds[c]
      BY DEF Stamped
    <2>3. c \in promoted => room.cmds[c].status = "confirmed"
      OBVIOUS
    <2> HIDE DEF stamped
    <2>4. stamped[c].status = p.cmds[c].status
      BY StampedAdmission DEF stamped
    <2>5. p.cmds[c] # room.cmds[c] /\ IsActive(p.cmds, c) =>
            /\ stamped[c].delivery = p.cmds[c].delivery /\ stamped[c].lifecycle = durability
            /\ stamped[c].requestedAt = p.cmds[c].requestedAt /\ stamped[c].origin = p.cmds[c].origin
      <3>1. IsActive(p.cmds, c) => p.cmds[c] # NoRecord
        BY DEF IsActive, ActiveStatus, NoRecord
      <3> QED BY <2>1, <2>2, <3>1 DEF Records
    <2>6. p.cmds[c] = room.cmds[c] /\ IsActive(p.cmds, c) => stamped[c] = p.cmds[c]
      BY <2>2, <2>3 DEF IsActive, ActiveStatus
    <2> QED BY <2>4, <2>5, <2>6
  <1> HIDE DEF stamped
  <1>2. ASSUME NEW c \in Command, stamped[c].status = "pending"
        PROVE  \/ stamped[c] = room.cmds[c]
               \/ /\ p.accepted /\ c = e.cmd /\ IsActive(room.cmds, c) /\ stamped[c].lifecycle = durability
                  /\ e.kind = "dispatched" \/ (e.kind = "uncertain" /\ stamped[c].delivery = "uncertain")
                  /\ stamped[c].requestedAt = room.cmds[c].requestedAt /\ stamped[c].origin = e.at
    <2>1. p.cmds[c].status = "pending" /\ IsActive(p.cmds, c)
      BY <1>1, <1>2 DEF IsActive, ActiveStatus
    <2> QED BY <1>1, <2>1 DEF Turns
  <1>3. ASSUME NEW c \in Command, stamped[c].status = "accepted"
        PROVE  \/ stamped[c] = room.cmds[c]
               \/ p.accepted /\ c = e.cmd /\ e.kind = "requested" /\ stamped[c].requestedAt = e.at
    <2>1. p.cmds[c].status = "accepted" /\ IsActive(p.cmds, c)
      BY <1>1, <1>3 DEF IsActive, ActiveStatus
    <2> QED BY <1>1, <2>1 DEF Turns
  <1>4. Turned(e, p, stamped, durability)
    BY <1>2, <1>3 DEF Turned
  <1> QED BY <1>4 DEF stamped

\* The room after an event, stored or not.
LEMMA RoomTurned ==
  ASSUME Types, NEW e \in Inputs, NEW p, Applied(e, p), Effect(e, p), Turns(e, p)
  PROVE  /\ Turned(e, p, RoomAfterCommit(e, p).cmds, "durable")
         /\ Turned(e, p, RoomAfterVolatile(e, p).cmds, "volatile")
  <1>1. CASE p.accepted
    <2>1. /\ RoomAfterCommit(e, p).cmds = Stamped(p.cmds, "durable", Reconciled(e))
          /\ RoomAfterVolatile(e, p).cmds = Stamped(p.cmds, "volatile", {})
      BY <1>1 DEF RoomAfterCommit, RoomAfterVolatile, Types, Rooms
    <2>2. "durable" \in Durability /\ "volatile" \in Durability
      BY DEF Durability
    <2>3. \A c \in Reconciled(e) : room.cmds[c].status = "confirmed"
      BY DEF Reconciled
    <2>4. Turned(e, p, Stamped(p.cmds, "durable", Reconciled(e)), "durable")
      BY <2>2, <2>3, StampedTurned
    <2>5. Turned(e, p, Stamped(p.cmds, "volatile", {}), "volatile")
      BY <2>2, StampedTurned
    <2> QED BY <2>1, <2>4, <2>5
  <1>2. CASE ~p.accepted
    <2>1. RoomAfterCommit(e, p) = room /\ RoomAfterVolatile(e, p) = room
      BY <1>2 DEF RoomAfterCommit, RoomAfterVolatile
    <2> QED BY <2>1 DEF Turned
  <1> QED BY <1>1, <1>2

-----------------------------------------------------------------------------
(* Requests come before their receipts *)

\* An active command after a recovery is the one in memory, or the stored one.
LEMMA MergedActive ==
  ASSUME Types, Agreement, NEW c \in Command, IsActive(MergedRoom.cmds, c)
  PROVE  MergedRoom.cmds[c] = IF room.cmds[c].status = "none" THEN disk.cmds[c] ELSE room.cmds[c]
  <1> DEFINE base == [x \in Command |->
                        IF \/ disk.cmds[x].status = "none"
                           \/ /\ room.cmds[x].status # "none"
                              /\ IsTerminal(room.cmds, x) \/ ~IsTerminal(disk.cmds, x)
                        THEN room.cmds[x] ELSE disk.cmds[x]]
             merged == MergedCommands
             promoted == Promoted(merged)
  <1>1. room.cmds[c] \in Records /\ disk.cmds[c] \in Records /\ Follows(room.cmds[c], disk.cmds[c])
    BY RecordTypes DEF Agreement, MemoryFollows
  <1>2. room.cmds[c].status # "none" /\ IsTerminal(disk.cmds, c) => IsTerminal(room.cmds, c)
    BY <1>1 DEF Follows, Promise!Rank, IsTerminal, TerminalStatus, Records, Status
  <1>3. /\ room.cmds[c].status # "none" => base[c] = room.cmds[c]
        /\ room.cmds[c].status = "none" /\ disk.cmds[c].status # "none" => base[c] = disk.cmds[c]
        /\ room.cmds[c].status = "none" /\ disk.cmds[c].status = "none" => base[c] = room.cmds[c]
    BY <1>2
  <1>4. base \in [Command -> Records]
    BY RecordTypes
  <1>5. merged = Selected(base)
    BY DEF MergedCommands
  <1>6. MergedRoom.cmds = promoted
    BY DEF MergedRoom
  <1> HIDE DEF base, merged
  <1>7. merged[c] \in Records /\ (merged[c] = base[c] \/ merged[c] = NoRecord)
    BY <1>4, <1>5, SelectedFacts DEF Lists
  <1>8. promoted[c] = IF c \in room.startupFailures /\ IsTerminal(merged, c)
                      THEN [merged[c] EXCEPT !.lifecycle = "durable"] ELSE merged[c]
    BY DEF Promoted
  <1> HIDE DEF promoted
  <1>9. promoted[c].status = merged[c].status /\ promoted[c].status \in ActiveStatus
    BY <1>6, <1>7, <1>8 DEF Records, IsActive
  <1>10. promoted[c] = merged[c] /\ merged[c] = base[c] /\ base[c].status # "none"
    BY <1>7, <1>8, <1>9 DEF IsTerminal, TerminalStatus, ActiveStatus, NoRecord
  <1> QED BY <1>3, <1>6, <1>10

\* What is active in memory is merged as it is there.
LEMMA ActiveMerges ==
  ASSUME Types, Agreement, NEW c \in Command, IsActive(room.cmds, c)
  PROVE  MergedRoom.cmds[c] = room.cmds[c]
  <1> DEFINE base == [x \in Command |->
                        IF \/ disk.cmds[x].status = "none"
                           \/ /\ room.cmds[x].status # "none"
                              /\ IsTerminal(room.cmds, x) \/ ~IsTerminal(disk.cmds, x)
                        THEN room.cmds[x] ELSE disk.cmds[x]]
             merged == MergedCommands
  <1>1. room.cmds[c] \in Records /\ disk.cmds[c] \in Records /\ Follows(room.cmds[c], disk.cmds[c])
    BY RecordTypes DEF Agreement, MemoryFollows
  <1>2. room.cmds[c].status # "none" /\ ~IsTerminal(room.cmds, c)
    BY DEF IsActive, ActiveStatus, IsTerminal, TerminalStatus
  <1>3. ~IsTerminal(disk.cmds, c)
    BY <1>1, <1>2 DEF Follows, Promise!Rank, IsTerminal, TerminalStatus, Records, Status
  <1>4. base[c] = room.cmds[c]
    BY <1>2, <1>3
  <1>5. merged = Selected(base)
    BY DEF MergedCommands
  <1> HIDE DEF base, merged
  <1>6. ~IsTerminal(base, c)
    BY <1>2, <1>4 DEF IsTerminal
  <1>7. merged[c] = room.cmds[c]
    BY <1>4, <1>5, <1>6 DEF Selected, Surplus
  <1>8. ~IsTerminal(merged, c)
    BY <1>2, <1>7 DEF IsTerminal
  <1>9. Promoted(merged)[c] = merged[c]
    BY <1>8 DEF Promoted
  <1>10. MergedRoom.cmds = Promoted(merged)
    BY DEF MergedRoom, merged
  <1> QED BY <1>7, <1>9, <1>10

\* An active command was not requested in the future, nor after its receipt.
Timely(record, c) ==
  record.status \in ActiveStatus =>
    /\ record.requestedAt <= now
    /\ disk.receipts[c] # NoReceipt => record.requestedAt <= disk.receipts[c].acceptedAt

\* The LED's durable plans are those of the stored receipts.
PlanIsStored(c) ==
  led.armed[c].durable =>
    disk.receipts[c] # NoReceipt /\ led.armed[c].receipt.acceptedAt = disk.receipts[c].acceptedAt

InTime == \A c \in Command : Timely(room.cmds[c], c) /\ Timely(disk.cmds[c], c) /\ PlanIsStored(c)

\* What a step leaves of the request of a command, and of its receipt.
SameRequest(record, c) ==
  record.status \in ActiveStatus =>
    \/ IsActive(room.cmds, c) /\ record.requestedAt = room.cmds[c].requestedAt
    \/ IsActive(disk.cmds, c) /\ record.requestedAt = disk.cmds[c].requestedAt
    \/ disk.receipts[c] = NoReceipt /\ record.requestedAt <= now

SameReceipt(r, c) ==
  IF disk.receipts[c] = NoReceipt THEN r = NoReceipt \/ r.acceptedAt = now
  ELSE r # NoReceipt /\ r.acceptedAt = disk.receipts[c].acceptedAt

SameDisk(d) == \A c \in Command : SameRequest(d.cmds[c], c) /\ SameReceipt(d.receipts[c], c)

StaysInTime ==
  /\ now' = now \/ now' = now + 1
  /\ \A c \in Command : SameRequest(room'.cmds[c], c)
  /\ SameDisk(disk')
  /\ \A c \in Command : led'.armed[c].durable =>
       \/ led'.armed[c] = led.armed[c]
       \/ disk'.receipts[c] # NoReceipt /\ led'.armed[c].receipt.acceptedAt = disk'.receipts[c].acceptedAt

LEMMA StaysInTimeKeeps ==
  ASSUME Types, Types', InTime, StaysInTime
  PROVE  InTime'
  <1>1. now \in Nat /\ now' \in Nat /\ now' >= now
    BY DEF Types, StaysInTime
  <1>2. ASSUME NEW c \in Command, NEW record \in Records, record.status \in ActiveStatus, SameRequest(record, c)
        PROVE  /\ record.requestedAt <= now'
               /\ disk'.receipts[c] # NoReceipt => record.requestedAt <= disk'.receipts[c].acceptedAt
    <2>1. record.requestedAt \in Nat
      BY DEF Records
    <2>2. /\ record.requestedAt <= now
          /\ disk.receipts[c] # NoReceipt => record.requestedAt <= disk.receipts[c].acceptedAt
      BY <1>2 DEF InTime, Timely, SameRequest, IsActive
    <2>3. SameReceipt(disk'.receipts[c], c)
      BY DEF StaysInTime, SameDisk
    <2>4. record.requestedAt <= now'
      BY <1>1, <2>1, <2>2
    <2> QED BY <2>2, <2>3, <2>4 DEF SameReceipt
  <1>3. ASSUME NEW c \in Command PROVE Timely(room.cmds[c], c)' /\ Timely(disk.cmds[c], c)'
    <2>1. room'.cmds[c] \in Records /\ disk'.cmds[c] \in Records
      BY DEF Types, Rooms, Disks, Lists
    <2>2. SameRequest(room'.cmds[c], c) /\ SameRequest(disk'.cmds[c], c)
      BY DEF StaysInTime, SameDisk
    <2> QED BY <1>2, <2>1, <2>2 DEF Timely
  <1>4. ASSUME NEW c \in Command PROVE PlanIsStored(c)'
    <2>1. SameReceipt(disk'.receipts[c], c)
      BY DEF StaysInTime, SameDisk
    <2> QED BY <2>1 DEF StaysInTime, InTime, PlanIsStored, SameReceipt
  <1> QED BY <1>3, <1>4 DEF InTime

\* What is in memory or stored may be stored.
LEMMA SameDiskStays ==
  ASSUME NEW d, d.cmds = room.cmds \/ d.cmds = disk.cmds, d.receipts = disk.receipts
  PROVE  SameDisk(d)
  BY DEF SameDisk, SameRequest, SameReceipt, IsActive

\* A process that ends leaves nothing but the disk.
LEMMA HaltInTime ==
  ASSUME NEW cause, NEW d, SameDisk(d), Halt(cause, d)
  PROVE  StaysInTime
  <1>1. disk' = d /\ room' = EmptyRoom /\ led' = FreshLed /\ now' = now
    BY DEF Halt
  <1>2. \A c \in Command : EmptyRoom.cmds[c].status \notin ActiveStatus /\ ~FreshLed.armed[c].durable
    BY DEF EmptyRoom, NoRecord, ActiveStatus, FreshLed, NoPlan
  <1> QED BY <1>1, <1>2 DEF StaysInTime, SameRequest

\* A step that leaves the room alone.
LEMMA RoomInTime ==
  ASSUME now' = now \/ now' = now + 1, room' = room, SameDisk(disk'),
         \A c \in Command : led'.armed[c].durable =>
           \/ led'.armed[c] = led.armed[c]
           \/ disk'.receipts[c] # NoReceipt /\ led'.armed[c].receipt.acceptedAt = disk'.receipts[c].acceptedAt
  PROVE  StaysInTime
  BY DEF StaysInTime, SameRequest, IsActive

\* An event keeps the time of every request but its own.
LEMMA ProcessEventInTime ==
  ASSUME IInv, Backing, ProcessEvent
  PROVE  StaysInTime
  <1>1. Types /\ Agreement /\ RequestsAreFresh /\ ClosingIsOwn /\ Running /\ inputs # <<>> /\ IsEvent(Head(inputs))
    BY DEF IInv, ProcessEvent
  <1> PICK e : e = CurrentEvent.event
    OBVIOUS
  <1>2. e \in Inputs /\ IsEvent(e) /\ (e.kind \in RequestKinds => Fresh(e.cmd) /\ e.at <= now)
    BY <1>1, CurrentType
  <1> PICK p : p = Prepared(e)
    OBVIOUS
  <1>3. Applied(e, p) /\ Effect(e, p) /\ Turns(e, p)
    BY <1>1, <1>2, EventApplied, EventOutcome, EventTurns DEF Agreement
  <1>4. ASSUME NEW cmds, NEW durability, Turned(e, p, cmds, durability), NEW c \in Command
        PROVE  SameRequest(cmds[c], c)
    <2>1. CASE cmds[c].status = "pending"
      BY <1>4, <2>1 DEF Turned, SameRequest, IsActive
    <2>2. CASE cmds[c].status = "accepted"
      BY <1>2, <1>4, <2>2 DEF Turned, SameRequest, IsActive, RequestKinds, Fresh
    <2>3. CASE cmds[c].status \notin {"accepted", "pending"}
      BY <2>3 DEF SameRequest, ActiveStatus
    <2> QED BY <2>1, <2>2, <2>3
  <1>5. /\ Turned(e, p, RoomAfterCommit(e, p).cmds, "durable")
        /\ Turned(e, p, RoomAfterVolatile(e, p).cmds, "volatile")
    BY <1>1, <1>2, <1>3, RoomTurned
  <1>6. Available => SameDisk(DiskAfterCommit(e, p))
    <2>1. CASE p.accepted
      <3>1. DiskAfterCommit(e, p).cmds = RoomAfterCommit(e, p).cmds /\ DiskAfterCommit(e, p).receipts = disk.receipts
        BY <1>1, <2>1 DEF DiskAfterCommit, Types, Disks
      <3> QED BY <1>4, <1>5, <3>1 DEF SameDisk, SameReceipt
    <2>2. CASE ~p.accepted
      BY <2>2, SameDiskStays DEF DiskAfterCommit
    <2> QED BY <2>1, <2>2
  <1>7. SameDisk(disk)
    BY SameDiskStays
  <1>8. ASSUME room'.cmds = RoomAfterCommit(e, p).cmds \/ room'.cmds = RoomAfterVolatile(e, p).cmds,
               now' = now, led' = led, SameDisk(disk')
        PROVE  StaysInTime
    BY <1>4, <1>5, <1>8 DEF StaysInTime
  <1>9. ASSUME NEW failures, room' = [RoomAfterVolatile(e, p) EXCEPT !.startupFailures = @ \cup failures],
               UNCHANGED <<now, process, boot, led, disk>>
        PROVE  StaysInTime
    <2>1. RoomAfterVolatile(e, p) \in Rooms
      BY <1>1, <1>2, <1>3, VolatileMoved
    <2>2. room'.cmds = RoomAfterVolatile(e, p).cmds
      BY <1>9, <2>1 DEF Rooms
    <2> QED BY <1>7, <1>8, <1>9, <2>2
  <1>10. ASSUME Available, room' = RoomAfterCommit(e, p), disk' = DiskAfterCommit(e, p),
                UNCHANGED <<now, faults, process, boot, storage, led>>
         PROVE  StaysInTime
    BY <1>6, <1>8, <1>10
  <1>11. ASSUME Available, Indeterminate({disk, DiskAfterCommit(e, p)})
         PROVE  StaysInTime
    BY <1>6, <1>7, <1>11, HaltInTime DEF Indeterminate
  <1> DEFINE unstored == IF boot = "closing" THEN {e.cmd} ELSE {}
  <1> HIDE DEF unstored
  <1> QED BY <1>9, <1>10, <1>11 DEF ProcessEvent, unstored

\* A mutation stores the commands as they are shown.
LEMMA PersistInTime ==
  ASSUME IInv, PersistOutboxMutation
  PROVE  StaysInTime
  <1> PICK m : m = Head(inputs)
    OBVIOUS
  <1> DEFINE stored == [disk EXCEPT !.cmds = room.cmds, !.obs = room.obs, !.guards = room.guards,
                          !.outbox = IF m.kind = "close" THEN Closed(@, {m.cmd})
                                     ELSE [@ EXCEPT ![m.cmd] = "uncertain"]]
  <1>1. SameDisk(stored) /\ SameDisk(disk)
    <2>1. stored.cmds = room.cmds /\ stored.receipts = disk.receipts
      BY DEF IInv, Types, Disks
    <2> HIDE DEF stored
    <2> QED BY <2>1, SameDiskStays
  <1>2. \/ disk' \in {disk, stored} /\ UNCHANGED <<now, process, boot, room, control, attempts, led>>
        \/ Indeterminate({disk, stored})
    BY DEF PersistOutboxMutation
  <1> HIDE DEF stored
  <1>3. CASE Indeterminate({disk, stored})
    BY <1>1, <1>3, HaltInTime DEF Indeterminate
  <1>4. CASE disk' \in {disk, stored} /\ UNCHANGED <<now, process, boot, room, control, attempts, led>>
    BY <1>1, <1>4, RoomInTime
  <1> QED BY <1>2, <1>3, <1>4

\* A receipt that is stored has the time of its command's handoff.
LEMMA ReceiptInTime ==
  ASSUME Types, NEW c \in Command, NEW r \in RealReceipts, SameReceipt(r, c),
         NEW d \in {disk, WithReceipt(c, r), WithReceipt(c, Marked(r))}
  PROVE  /\ SameDisk(d)
         /\ d # disk => d.receipts[c] # NoReceipt /\ d.receipts[c].acceptedAt = r.acceptedAt
  <1>1. Marked(r) \in RealReceipts /\ Marked(r).acceptedAt = r.acceptedAt /\ SameDisk(disk)
    BY ReceiptType, SameDiskStays DEF Marked, RealReceipts
  <1>2. ASSUME NEW x \in RealReceipts, x.acceptedAt = r.acceptedAt
        PROVE  /\ SameDisk(WithReceipt(c, x))
               /\ WithReceipt(c, x).receipts[c] # NoReceipt /\ WithReceipt(c, x).receipts[c].acceptedAt = r.acceptedAt
    <2>1. x # NoReceipt /\ r # NoReceipt
      BY DEF RealReceipts, NoReceipt
    <2> DEFINE w == WithReceipt(c, x)
    <2>2. w.cmds = disk.cmds /\ w.receipts[c] = x /\ \A y \in Command \ {c} : w.receipts[y] = disk.receipts[y]
      BY DEF WithReceipt, Types, Disks
    <2> HIDE DEF w
    <2>3. SameReceipt(x, c)
      BY <1>2, <2>1 DEF SameReceipt
    <2>4. \A y \in Command : SameReceipt(w.receipts[y], y)
      BY <2>2, <2>3 DEF SameReceipt
    <2>5. SameDisk(w)
      BY <2>2, <2>4 DEF SameDisk, SameRequest, IsActive
    <2> QED BY <1>2, <2>1, <2>2, <2>5 DEF w
  <1> QED BY <1>1, <1>2

\* A step of the LED.
LEMMA LedInTime ==
  ASSUME Types, NEW c \in Command, NEW r \in RealReceipts, now' = now, room' = room,
         disk' = disk \/ (SameReceipt(r, c) /\ disk' \in {WithReceipt(c, r), WithReceipt(c, Marked(r))}),
         \A x \in Command : led'.armed[x].durable =>
           \/ led'.armed[x] = led.armed[x]
           \/ disk'.receipts[x] # NoReceipt /\ led'.armed[x].receipt.acceptedAt = disk'.receipts[x].acceptedAt
  PROVE  StaysInTime
  <1>1. SameDisk(disk')
    BY ReceiptInTime, SameDiskStays
  <1> QED BY <1>1, RoomInTime

\* What is emitted is no longer planned.
LEMMA EmitInTime ==
  ASSUME Types, NEW c \in Command, NEW r, NEW before, Emit(c, r, before)
  PROVE  \A x \in Command : led'.armed[x].durable => led'.armed[x] = led.armed[x]
  <1>1. led'.armed = [led.armed EXCEPT ![c] = NoPlan]
    BY DEF Emit, Types, Leds
  <1> QED BY <1>1 DEF NoPlan, Types, Leds

LEMMA MarkInTime ==
  ASSUME Types, NEW c \in Command, NEW r \in RealReceipts, SameReceipt(r, c), NEW d \in {disk, WithReceipt(c, r)},
         NEW before, MarkTerminalAndEmit(c, r, d, before)
  PROVE  StaysInTime
  <1>1. /\ Emit(c, r, before) /\ room' = room /\ now' = now
        /\ disk' \in {disk, WithReceipt(c, r), WithReceipt(c, Marked(r))}
    BY DEF MarkTerminalAndEmit
  <1> QED BY <1>1, EmitInTime, LedInTime

\* The process ends in a transaction of the LED.
LEMMA ReceiptHaltsInTime ==
  ASSUME Types, NEW c \in Command, NEW r \in RealReceipts, SameReceipt(r, c), NEW cause,
         NEW d \in {disk, WithReceipt(c, r), WithReceipt(c, Marked(r))}, Halt(cause, d)
  PROVE  StaysInTime
  BY ReceiptInTime, HaltInTime

\* Delivering an outcome, from a timer or at startup.
LEMMA DeliverInTime ==
  ASSUME Types, NEW c \in Command, NEW r \in Outcomes, NEW durable, DeliverOutcome(c, r, durable),
         durable => SameReceipt(r, c)
  PROVE  StaysInTime
  <1>1. r \in RealReceipts
    BY OutcomeIsReceipt
  <1>2. CASE Emit(c, r, <<>>)
             /\ UNCHANGED <<now, faults, process, boot, storage, room, control, attempts, disk>>
    BY <1>1, <1>2, EmitInTime, LedInTime
  <1>3. CASE durable /\ MarkTerminalAndEmit(c, r, disk, <<>>)
    BY <1>1, <1>3, MarkInTime
  <1>4. CASE durable /\ Indeterminate({disk, WithReceipt(c, Marked(r))})
    BY <1>1, <1>4, ReceiptHaltsInTime DEF Indeterminate
  <1>5. CASE durable /\ Halt("uncaught", disk)
    BY <1>1, <1>5, ReceiptHaltsInTime
  <1> QED BY <1>2, <1>3, <1>4, <1>5 DEF DeliverOutcome

\* The LED accepts a command.
LEMMA HandedOffInTime ==
  ASSUME Types, NEW c \in Command, NEW r \in RealReceipts, NEW durable \in BOOLEAN,
         NEW d, d = IF durable THEN WithReceipt(c, r) ELSE disk, durable => SameReceipt(r, c),
         HandedOff(c, r, durable, d)
  PROVE  StaysInTime
  <1> DEFINE dispatched == <<Input("dispatched", c, r.power, r.acceptedAt, durable)>>
             plan == [receipt |-> r, durable |-> durable]
  <1>1. /\ d = disk \/ (SameReceipt(r, c) /\ d = WithReceipt(c, r))
        /\ durable => SameReceipt(r, c) /\ d \in {disk, WithReceipt(c, r)}
    OBVIOUS
  <1>2. CASE disk' = d /\ UNCHANGED <<now, room, led>>
    BY <1>1, <1>2, LedInTime
  <1>3. CASE disk' = d /\ UNCHANGED <<now, room>> /\ led' = [led EXCEPT !.armed[c] = plan]
    <2>1. led'.armed[c] = plan /\ \A x \in Command \ {c} : led'.armed[x] = led.armed[x]
      BY <1>3 DEF Types, Leds
    <2>2. durable => d.receipts[c] # NoReceipt /\ d.receipts[c].acceptedAt = r.acceptedAt
      <3>1. durable /\ d = disk => d.receipts[c] = r
        BY DEF WithReceipt, Types, Disks
      <3>2. r # NoReceipt
        BY DEF RealReceipts, NoReceipt
      <3> QED BY <1>1, <3>1, <3>2, ReceiptInTime
    <2> HIDE DEF plan
    <2>3. plan.durable = durable /\ plan.receipt.acceptedAt = r.acceptedAt
      BY DEF plan
    <2> QED BY <1>1, <1>3, <2>1, <2>2, <2>3, LedInTime
  <1>4. CASE durable /\ MarkTerminalAndEmit(c, r, d, dispatched)
    BY <1>1, <1>4, MarkInTime
  <1>5. CASE Emit(c, r, dispatched) /\ disk' = d /\ UNCHANGED <<now, room>>
    BY <1>1, <1>5, EmitInTime, LedInTime
  <1> HIDE DEF plan
  <1> QED BY <1>2, <1>3, <1>4, <1>5 DEF HandedOff, plan

\* An attempt to dispatch a command: its receipt is the stored one, or is new.
LEMMA AttemptInTime ==
  ASSUME Types, NEW c \in Command, NEW ctl, Attempt(c, ctl)
  PROVE  StaysInTime
  <1> DEFINE scheduled == ScheduleTimeouts(ctl, room.cmds, {c})
             found == disk.receipts[c]
             Found == IF found # NoReceipt THEN {found} ELSE {NewReceipt(c, plan) : plan \in Plan}
  <1>1. ASSUME NEW r \in Found PROVE r \in RealReceipts /\ SameReceipt(r, c)
    <2>1. CASE found # NoReceipt
      BY <2>1 DEF Types, Disks, SameReceipt
    <2>2. CASE found = NoReceipt
      <3>1. PICK plan \in Plan : r = NewReceipt(c, plan)
        BY <2>2
      <3>2. r.acceptedAt = now
        BY <3>1 DEF NewReceipt
      <3> QED BY <2>2, <3>1, <3>2, NewReceiptType DEF SameReceipt
    <2> QED BY <2>1, <2>2
  <1>2. \/ UNCHANGED <<now, room, led, disk>>
        \/ DispatchVolatile(c, scheduled)
        \/ \E r \in Found :
             \/ HandedOff(c, r, TRUE, WithReceipt(c, r))
             \/ Indeterminate({disk, WithReceipt(c, r)} \cup
                               IF r.due <= now THEN {WithReceipt(c, Marked(r))} ELSE {})
    BY DEF Attempt, DispatchDurable, DeliveryUncertain, NotHandedOff
  <1> HIDE DEF scheduled, found, Found
  <1>3. CASE UNCHANGED <<now, room, led, disk>>
    BY <1>3, SameDiskStays, RoomInTime
  <1>4. CASE DispatchVolatile(c, scheduled)
    <2>1. PICK plan \in Plan : HandedOff(c, NewReceipt(c, plan), FALSE, disk)
      BY <1>4 DEF DispatchVolatile
    <2>2. NewReceipt(c, plan) \in RealReceipts
      BY NewReceiptType
    <2> QED BY <2>1, <2>2, HandedOffInTime
  <1>5. ASSUME NEW r \in Found, HandedOff(c, r, TRUE, WithReceipt(c, r))
        PROVE  StaysInTime
    BY <1>1, <1>5, HandedOffInTime
  <1>6. ASSUME NEW r \in Found,
               Indeterminate({disk, WithReceipt(c, r)} \cup
                              IF r.due <= now THEN {WithReceipt(c, Marked(r))} ELSE {})
        PROVE  StaysInTime
    <2>1. PICK d \in {disk, WithReceipt(c, r), WithReceipt(c, Marked(r))} : Halt("fatal", d)
      BY <1>6 DEF Indeterminate
    <2> QED BY <1>1, <2>1, ReceiptHaltsInTime
  <1> QED BY <1>2, <1>3, <1>4, <1>5, <1>6

\* Attempts, and the timers of the controller and the LED.
LEMMA TimersInTime ==
  ASSUME IInv, Backing, InTime,
         RunAttempt \/ \E c \in Command : RetryFires(c) \/ TimeoutFires(c) \/ LedTimerFires(c)
  PROVE  StaysInTime
  <1>1. Types
    BY DEF IInv
  <1>2. CASE RunAttempt
    <2>1. PICK c \in Command : attempts = <<c>>
      BY <1>2 DEF RunAttempt, Backing, AttemptIsActive
    <2>2. Attempt(c, control)
      BY <1>2, <2>1 DEF RunAttempt
    <2> QED BY <1>1, <2>2, AttemptInTime
  <1>3. ASSUME NEW c \in Command, RetryFires(c) PROVE StaysInTime
    BY <1>1, <1>3, AttemptInTime DEF RetryFires
  <1>4. ASSUME NEW c \in Command, TimeoutFires(c) PROVE StaysInTime
    BY <1>4, SameDiskStays, RoomInTime DEF TimeoutFires
  <1>5. ASSUME NEW c \in Command, LedTimerFires(c) PROVE StaysInTime
    <2>1. led.armed[c].receipt \in Outcomes /\ led.armed[c].receipt # NoReceipt
      BY <1>1, <1>5 DEF LedTimerFires, Types, Leds, Outcomes, NoReceipt
    <2>2. led.armed[c].durable => SameReceipt(led.armed[c].receipt, c)
      BY <2>1 DEF InTime, PlanIsStored, SameReceipt
    <2>3. DeliverOutcome(c, led.armed[c].receipt, led.armed[c].durable)
      BY <1>5 DEF LedTimerFires
    <2> QED BY <1>1, <2>1, <2>2, <2>3, DeliverInTime
  <1> QED BY <1>2, <1>3, <1>4, <1>5

\* Startup restores the plans of stored receipts.
LEMMA RestoreInTime ==
  ASSUME IInv, NEW c \in Command, RestorePlan(c)
  PROVE  StaysInTime
  <1>1. Types
    BY DEF IInv
  <1> DEFINE r == disk.receipts[c]
  <1>2. r \in RealReceipts /\ r # NoReceipt /\ (r.kind # "none" => r \in Outcomes)
    <2>1. r # NoReceipt /\ r \in {NoReceipt} \cup RealReceipts
      BY <1>1 DEF RestorePlan, Types, Disks
    <2> QED BY <2>1, OutcomeReceipt
  <1> HIDE DEF r
  <1>3. CASE /\ led' = [led EXCEPT !.restoring = @ \ {c},
                          !.armed[c] = IF r.kind = "none" THEN NoPlan
                                       ELSE [receipt |-> r, durable |-> TRUE]]
             /\ UNCHANGED <<now, faults, process, boot, storage, room, control, inputs, attempts, disk>>
    <2>1. /\ \A x \in Command \ {c} : led'.armed[x] = led.armed[x]
          /\ led'.armed[c].durable => led'.armed[c].receipt = r
      BY <1>1, <1>3 DEF Types, Leds, NoPlan
    <2>2. \A x \in Command : led'.armed[x].durable =>
            \/ led'.armed[x] = led.armed[x]
            \/ disk'.receipts[x] # NoReceipt /\ led'.armed[x].receipt.acceptedAt = disk'.receipts[x].acceptedAt
      BY <1>2, <1>3, <2>1 DEF r
    <2> QED BY <1>3, <2>2, SameDiskStays, RoomInTime
  <1>4. CASE r.kind # "none" /\ DeliverOutcome(c, r, TRUE)
    <2>1. SameReceipt(r, c)
      BY <1>2 DEF SameReceipt, r
    <2> QED BY <1>1, <1>2, <1>4, <2>1, DeliverInTime
  <1> QED BY <1>3, <1>4 DEF RestorePlan, r

\* The other steps of startup: a process takes up the checkpoint, or nothing.
LEMMA StartupInTime ==
  ASSUME IInv, Restart \/ ListReceipts \/ ReportCurrentState \/ ResumeCommands
  PROVE  StaysInTime
  <1>1. Types /\ SameDisk(disk)
    BY SameDiskStays DEF IInv
  <1>2. CASE Restart
    <2>1. room'.cmds = disk.cmds \/ \A c \in Command : room'.cmds[c].status = "none"
      <3>1. Restored.cmds = disk.cmds /\ [Restored EXCEPT !.known = {}].cmds = disk.cmds
            /\ \A c \in Command : EmptyRoom.cmds[c].status = "none"
        BY DEF Restored, EmptyRoom, NoRecord
      <3> QED BY <1>2, <3>1 DEF Restart
    <2>2. UNCHANGED <<now, led, disk>>
      BY <1>2 DEF Restart
    <2> QED BY <1>1, <2>1, <2>2 DEF StaysInTime, SameRequest, IsActive, ActiveStatus
  <1>3. CASE ListReceipts
    <2>1. CASE Indeterminate({disk})
      BY <1>1, <2>1, HaltInTime DEF Indeterminate
    <2>2. ASSUME NEW C, led' = [led EXCEPT !.restoring = C], UNCHANGED <<now, process, room, control, inputs, attempts, disk>>
          PROVE  StaysInTime
      <3>1. led'.armed = led.armed
        BY <1>1, <2>2 DEF Types, Leds
      <3> QED BY <1>1, <2>2, <3>1, RoomInTime
    <2> QED BY <1>3, <2>1, <2>2 DEF ListReceipts
  <1>4. CASE ReportCurrentState \/ ResumeCommands
    BY <1>1, <1>4, RoomInTime DEF ReportCurrentState, ResumeCommands
  <1> QED BY <1>2, <1>3, <1>4

\* Recovery takes every active command from memory or from storage.
LEMMA RecoverInTime ==
  ASSUME IInv, Recover
  PROVE  StaysInTime
  <1>1. Types /\ Agreement /\ SameDisk(disk)
    BY SameDiskStays DEF IInv
  <1> PICK merged : merged = MergedRoom
    OBVIOUS
  <1>2. ASSUME NEW c \in Command PROVE SameRequest(merged.cmds[c], c)
    <2> SUFFICES ASSUME IsActive(MergedRoom.cmds, c) PROVE SameRequest(merged.cmds[c], c)
      BY DEF SameRequest, IsActive
    <2>1. MergedRoom.cmds[c] = IF room.cmds[c].status = "none" THEN disk.cmds[c] ELSE room.cmds[c]
      BY <1>1, MergedActive
    <2> QED BY <2>1 DEF SameRequest, IsActive
  <1> DEFINE saved == [disk EXCEPT !.cmds = merged.cmds, !.obs = merged.obs, !.guards = merged.guards,
                                   !.known = merged.known]
  <1>3. SameDisk(saved)
    <2>1. saved.receipts = disk.receipts /\ saved.cmds = merged.cmds
      BY <1>1 DEF Types, Disks
    <2> HIDE DEF saved
    <2> QED BY <1>2, <2>1 DEF SameDisk, SameReceipt
  <1>4. \/ UNCHANGED <<now, room, led, disk>>
        \/ room' = merged /\ disk' = saved /\ UNCHANGED <<now, led>>
        \/ Indeterminate({disk, saved})
    BY DEF Recover
  <1> HIDE DEF saved
  <1>5. CASE UNCHANGED <<now, room, led, disk>>
    BY <1>1, <1>5, RoomInTime
  <1>6. CASE room' = merged /\ disk' = saved /\ UNCHANGED <<now, led>>
    BY <1>2, <1>3, <1>6 DEF StaysInTime
  <1>7. CASE Indeterminate({disk, saved})
    BY <1>1, <1>3, <1>7, HaltInTime DEF Indeterminate
  <1> QED BY <1>4, <1>5, <1>6, <1>7

\* Requests, other transactions, time and crashes change no request that is there.
LEMMA OtherInTime ==
  ASSUME IInv, \/ \E c \in Command, power \in Power : RequestCommand(c, power) \/ RejectCommand(c, power)
               \/ OtherTransaction \/ Tick \/ Crash
  PROVE  StaysInTime
  <1>1. Types /\ SameDisk(disk)
    BY SameDiskStays DEF IInv
  <1>2. CASE (\E c \in Command, power \in Power : RequestCommand(c, power) \/ RejectCommand(c, power)) \/ Tick
    BY <1>1, <1>2, RoomInTime DEF RequestCommand, RejectCommand, Tick
  <1>3. CASE OtherTransaction
    <2> DEFINE saved == [disk EXCEPT !.cmds = room.cmds, !.obs = room.obs, !.guards = room.guards]
    <2>1. SameDisk(saved)
      <3>1. saved.cmds = room.cmds /\ saved.receipts = disk.receipts
        BY <1>1 DEF Types, Disks
      <3> HIDE DEF saved
      <3> QED BY <3>1, SameDiskStays
    <2>2. disk' \in {disk, saved} /\ UNCHANGED <<now, room, led>>
      BY <1>3 DEF OtherTransaction
    <2> HIDE DEF saved
    <2> QED BY <1>1, <2>1, <2>2, RoomInTime
  <1>4. CASE Crash
    BY <1>1, <1>4, HaltInTime DEF Crash
  <1> QED BY <1>2, <1>3, <1>4

LEMMA InitInTime ==
  ASSUME Init
  PROVE  InTime
  <1>1. \A c \in Command : /\ disk.cmds[c] = NoRecord /\ room.cmds[c] = NoRecord /\ led.armed[c] = NoPlan
    BY DEF Init, EmptyDisk, EmptyRoom, FreshLed
  <1>2. NoRecord.status \notin ActiveStatus /\ ~NoPlan.durable
    BY DEF NoRecord, NoPlan, ActiveStatus
  <1> QED BY <1>1, <1>2 DEF InTime, Timely, PlanIsStored

\* No command becomes younger than its receipt.
LEMMA NextInTime ==
  ASSUME IInv, Backing, InTime, [Next]_vars
  PROVE  InTime'
  <1>1. Types /\ Types'
    BY NextStep DEF IInv
  <1>2. CASE Next
    <2>1. StaysInTime
      <3>1. CASE ProcessEvent \/ PersistOutboxMutation
        BY <3>1, ProcessEventInTime, PersistInTime
      <3>2. CASE RunAttempt \/ \E c \in Command : RetryFires(c) \/ TimeoutFires(c) \/ LedTimerFires(c)
        BY <3>2, TimersInTime
      <3>3. CASE \/ \E c \in Command, power \in Power : RequestCommand(c, power) \/ RejectCommand(c, power)
                 \/ OtherTransaction \/ Tick \/ Crash
        BY <3>3, OtherInTime
      <3>4. CASE Recover \/ Restart \/ ListReceipts \/ ReportCurrentState \/ ResumeCommands
        BY <3>4, RecoverInTime, StartupInTime
      <3>5. CASE \E c \in Command : RestorePlan(c)
        BY <3>5, RestoreInTime
      <3> QED BY <1>2, <3>1, <3>2, <3>3, <3>4, <3>5 DEF Next
    <2> QED BY <1>1, <2>1, StaysInTimeKeeps
  <1>3. CASE UNCHANGED vars
    <2>1. UNCHANGED <<now, room, led, disk>>
      BY <1>3 DEF vars
    <2>2. StaysInTime
      BY <2>1, SameDiskStays, RoomInTime
    <2> QED BY <1>1, <2>2, StaysInTimeKeeps
  <1> QED BY <1>2, <1>3

-----------------------------------------------------------------------------
(* What is being done for every active command *)

\* A handoff of a pending command is still accepted (MayDispatch).
MayHandOff(r) == r.delivery = "uncertain" \/ r.lifecycle = "volatile"

\* A durable command that was not attempted has its intent ready, and one whose intent is
\* open takes a handoff.
Open(cmds, outbox, c) ==
  /\ cmds[c].status = "accepted" /\ cmds[c].admitted = "durable" => outbox[c] = "ready"
  /\ cmds[c].status = "pending" /\ outbox[c] \in {"ready", "uncertain"} => MayHandOff(cmds[c])

RoomIsOpen == \A c \in Command : Open(room.cmds, disk.outbox, c)

\* The same of the checkpoint, where no volatile command waits for its first attempt.
StoresOpen(d) ==
  \A c \in Command : /\ Open(d.cmds, d.outbox, c)
                     /\ d.cmds[c].status = "accepted" => d.cmds[c].admitted = "durable"

IsVolatile(c) == room.cmds[c].status # "none" /\ room.cmds[c].admitted = "volatile"

\* Uncertain deliveries are queued only without storage, and the handoff of an active
\* command carries no mutation only if it is volatile.
OpenInputs ==
  {e \in Inputs :
     /\ e.kind \in {"uncertain", "mark_uncertain"} => ~Available
     /\ e.kind = "dispatched" /\ ~e.durable /\ IsActive(room.cmds, e.cmd) => IsVolatile(e.cmd)}

InputsAreOpen == ToSet(inputs) \subseteq OpenInputs

\* Volatile work is that of an active volatile command.
WorkIsAdmitted ==
  \A c \in Command : control.work[c] = "volatile" => IsActive(room.cmds, c) /\ IsVolatile(c)

\* The command is about to be attempted, or its handoff is queued.
OnItsWay(c) ==
  \/ attempts = <<c>> /\ control.work[c] # "none"
  \/ \E e \in ToSet(inputs) :
       e.kind = "dispatched" /\ e.cmd = c /\ e.at >= room.cmds[c].requestedAt

\* Its timeout is queued.
Ends(c) ==
  /\ room.cmds[c].status = "pending"
  /\ \E e \in ToSet(inputs) : e.kind = "timed_out" /\ e.cmd = c /\ e.at >= room.cmds[c].deadline

VolatileIsTried ==
  \A c \in Command : room.cmds[c].status = "accepted" /\ IsVolatile(c) => ~Available /\ OnItsWay(c)

Started == Running /\ boot = "done"

DurableIsTried ==
  Started /\ Available =>
    \A c \in Command : IsActive(room.cmds, c) /\ room.cmds[c].admitted = "durable" =>
      disk.outbox[c] = "delivered" \/ OnItsWay(c) \/ Ends(c)

\* A timer is set only at the deadline of a pending command.
TimersAreDeadlines ==
  \A c \in Command : control.timeoutAt[c] # NoTime =>
    room.cmds[c].status = "pending" /\ control.timeoutAt[c] = room.cmds[c].deadline

TimersAreSet ==
  Started =>
    \A c \in Command : room.cmds[c].status = "pending" /\ ~Orphaned(c) =>
      control.timeoutAt[c] = room.cmds[c].deadline \/ Ends(c)

\* The state report of the startup times out what is overdue before the timers are set.
NoneOverdue ==
  Running /\ boot = "resume" =>
    /\ attempts = <<>>
    /\ \/ inputs = <<>> /\ Expired(room.cmds, Command) = {}
       \/ \E e \in Inputs : inputs = <<e>> /\ e.kind = "report"

\* Startup begins by failing the commands that were lost with the last process.
ClosingFails ==
  /\ ~Running => boot = "closing"
  /\ boot = "closing" => \A e \in ToSet(inputs) : e.kind = "failed"

Tended ==
  /\ RoomIsOpen /\ StoresOpen(disk) /\ InputsAreOpen /\ WorkIsAdmitted
  /\ VolatileIsTried /\ DurableIsTried /\ TimersAreDeadlines /\ TimersAreSet
  /\ NoneOverdue /\ ClosingFails

-----------------------------------------------------------------------------
(* Queues *)

\* What is in two queues.
LEMMA Joined ==
  ASSUME NEW S, NEW s \in Seq(S), NEW t \in Seq(S)
  PROVE  ToSet(s \o t) = ToSet(s) \cup ToSet(t)
  <1>1. \A i \in DOMAIN s : i \in DOMAIN (s \o t) /\ (s \o t)[i] = s[i]
    OBVIOUS
  <1>2. \A i \in DOMAIN t : Len(s) + i \in DOMAIN (s \o t) /\ (s \o t)[Len(s) + i] = t[i]
    OBVIOUS
  <1>3. ASSUME NEW i \in DOMAIN (s \o t)
        PROVE  i \in DOMAIN s \/ (i - Len(s) \in DOMAIN t /\ (s \o t)[i] = t[i - Len(s)])
    <2>1. DOMAIN s = 1..Len(s) /\ DOMAIN t = 1..Len(t) /\ i \in 1..(Len(s) + Len(t)) /\ Len(s) \in Nat /\ Len(t) \in Nat
      OBVIOUS
    <2>2. CASE i \notin DOMAIN s
      BY <2>1, <2>2
    <2> QED BY <2>2
  <1>4. ToSet(s \o t) \subseteq ToSet(s) \cup ToSet(t)
    BY <1>1, <1>3 DEF ToSet
  <1>5. ToSet(s) \cup ToSet(t) \subseteq ToSet(s \o t)
    BY <1>1, <1>2 DEF ToSet
  <1> QED BY <1>4, <1>5

\* A queue of one.
LEMMA Alone ==
  ASSUME NEW e
  PROVE  ToSet(<<e>>) = {e}
  <1>1. DOMAIN <<e>> = {1} /\ <<e>>[1] = e
    OBVIOUS
  <1> QED BY <1>1, Zenon DEF ToSet

\* What is queued.
LEMMA Queued ==
  ASSUME NEW S, NEW s \in Seq(S), NEW e \in S
  PROVE  /\ ToSet(s) \subseteq S
         /\ ToSet(Append(s, e)) = ToSet(s) \cup {e} /\ ToSet(<<e>>) = {e}
         /\ s # <<>> => ToSet(s) = {Head(s)} \cup ToSet(Tail(s))
  <1>1. ToSet(s) \subseteq S
    BY DEF ToSet
  <1>2. ToSet(Append(s, e)) = ToSet(s) \cup {e}
    <2>1. DOMAIN Append(s, e) = DOMAIN s \cup {Len(s) + 1} /\ Append(s, e)[Len(s) + 1] = e
          /\ \A i \in DOMAIN s : Append(s, e)[i] = s[i]
      OBVIOUS
    <2> QED BY <2>1 DEF ToSet
  <1>3. ToSet(<<e>>) = {e}
    BY Alone
  <1>4. ASSUME s # <<>> PROVE ToSet(s) = {Head(s)} \cup ToSet(Tail(s))
    <2>1. 1 \in DOMAIN s /\ Head(s) = s[1] /\ \A i \in DOMAIN Tail(s) : i + 1 \in DOMAIN s /\ Tail(s)[i] = s[i + 1]
      BY <1>4
    <2>2. \A i \in DOMAIN s : i = 1 \/ (i - 1 \in DOMAIN Tail(s) /\ Tail(s)[i - 1] = s[i])
      BY <1>4
    <2>3. ToSet(s) \subseteq {Head(s)} \cup ToSet(Tail(s))
      <3>1. ASSUME NEW x, NEW i \in DOMAIN s, x = s[i]
            PROVE  x = Head(s) \/ \E j \in DOMAIN Tail(s) : x = Tail(s)[j]
        BY <2>1, <2>2, <3>1
      <3> QED BY <3>1 DEF ToSet
    <2>4. {Head(s)} \cup ToSet(Tail(s)) \subseteq ToSet(s)
      BY <2>1 DEF ToSet
    <2> QED BY <2>3, <2>4
  <1> QED BY <1>1, <1>2, <1>3, <1>4

LEMMA NoneQueued == ToSet(<<>>) = {}
  BY DEF ToSet

\* The timeouts of the one active command, if it is overdue.
LEMMA TimeoutsQueued ==
  ASSUME NEW cmds, NEW C, \A c, d \in C : c = d
  PROVE  ToSet(TimeoutInputs(cmds, C)) = {TimedOut(c, cmds[c].deadline) : c \in C}
  <1>1. CASE C = {}
    <2>1. SetToSeq({}) = <<>>
      BY SetToSeqType, FS_EmptySet
    <2>2. {TimedOut(c, cmds[c].deadline) : c \in C} = {}
      BY <1>1
    <2> QED BY <2>1, <2>2, NoneQueued DEF TimeoutInputs
  <1>2. CASE C # {}
    <2> PICK c \in C : C = {c}
      BY <1>2
    <2> PICK e : e = TimedOut(c, cmds[c].deadline)
      OBVIOUS
    <2>1. {TimedOut(d, cmds[d].deadline) : d \in C} = {e}
      BY Zenon
    <2>2. TimeoutInputs(cmds, C) = <<e>>
      BY <2>1, SetToSeqOne DEF TimeoutInputs
    <2>3. ToSet(<<e>>) = {e}
      BY DEF ToSet
    <2> QED BY <2>1, <2>2, <2>3
  <1> QED BY <1>1, <1>2

-----------------------------------------------------------------------------
(* Processing an event *)

\* The intent of an active command changes only by its own mutation.
LEMMA OutboxStays ==
  ASSUME Types, NEW e \in Inputs, IsEvent(e), NEW p, Applied(e, p), Effect(e, p), p.accepted,
         NEW c \in Command, ~IsTerminal(room.cmds, c), IsActive(p.cmds, c),
         NEW state, state = OutboxAfter(e, p)[c]
  PROVE  IF c = e.cmd /\ e.durable /\ e.kind \in {"requested", "dispatched", "uncertain"}
         THEN state = CASE e.kind = "requested" -> "ready"
                        [] e.kind = "dispatched" -> "delivered"
                        [] e.kind = "uncertain" -> "uncertain"
         ELSE state = disk.outbox[c]
  <1>1. disk.outbox \in [Command -> OutboxStates] /\ (e.kind # "report" => e.cmd \in Command)
    BY DEF Types, Disks, OutboxStates, Inputs
  <1>2. ASSUME NEW s, NEW x, x = [disk.outbox EXCEPT ![e.cmd] = s][c]
        PROVE  x = IF c = e.cmd THEN s ELSE disk.outbox[c]
    BY <1>1, <1>2
  <1>3. ASSUME NEW C, c \notin C
        PROVE  Closed(disk.outbox, C)[c] = disk.outbox[c]
    BY <1>3 DEF Closed
  <1>4. e.kind \in {"failed", "rejected", "rejection", "timed_out"} => c # e.cmd
    BY DEF Effect, IsActive, ActiveStatus
  <1>5. CASE e.kind = "requested" /\ e.durable
    <2>1. OutboxAfter(e, p) = [disk.outbox EXCEPT ![e.cmd] = "ready"]
      BY <1>5 DEF OutboxAfter
    <2> QED BY <1>2, <1>5, <2>1
  <1>6. CASE e.kind = "dispatched" /\ e.durable
    <2>1. OutboxAfter(e, p) = [disk.outbox EXCEPT ![e.cmd] = "delivered"]
      BY <1>6 DEF OutboxAfter
    <2> QED BY <1>2, <1>6, <2>1
  <1>7. CASE e.kind = "uncertain" /\ e.durable
    <2>1. OutboxAfter(e, p) = [disk.outbox EXCEPT ![e.cmd] = "uncertain"]
      BY <1>7 DEF OutboxAfter
    <2> QED BY <1>2, <1>7, <2>1
  <1>8. CASE e.kind = "failed" /\ e.durable
    <2>1. OutboxAfter(e, p) = [disk.outbox EXCEPT ![e.cmd] = "closed"]
      BY <1>8 DEF OutboxAfter
    <2> QED BY <1>2, <1>4, <1>8, <2>1
  <1>9. CASE e.kind \in {"failed", "rejected", "rejection", "timed_out"} /\ ~e.durable
    <2>1. OutboxAfter(e, p) = Closed(disk.outbox, {e.cmd})
      BY <1>9 DEF OutboxAfter
    <2> QED BY <1>3, <1>4, <1>9, <2>1
  <1>10. CASE /\ ~(e.kind \in {"requested", "dispatched", "uncertain", "failed"} /\ e.durable)
              /\ ~(e.kind \in {"failed", "rejected", "rejection", "timed_out"} /\ ~e.durable)
    <2> DEFINE confirmed == {x \in Command : p.cmds[x].status = "confirmed" /\ room.cmds[x].status # "confirmed"}
               reconciled == {x \in Reconciled(e) : p.cmds[x].status = "confirmed"}
             C == reconciled \cup confirmed
    <2>1. OutboxAfter(e, p) = Closed(disk.outbox, C)
      BY <1>10 DEF OutboxAfter
    <2>2. c \notin C
      BY DEF IsActive, ActiveStatus
    <2> HIDE DEF C
    <2> QED BY <1>3, <1>10, <2>1, <2>2
  <1> QED BY <1>5, <1>6, <1>7, <1>8, <1>9, <1>10

\* An event that is stored leaves the checkpoint with every durable delivery open.
LEMMA CommitOpen ==
  ASSUME Types, Agreement, Running, Available, AllBacked(disk), StoresOpen(disk),
         NEW e \in OpenInputs, IsEvent(e), Proper(e), NEW p, Applied(e, p), Effect(e, p), Turns(e, p)
  PROVE  StoresOpen(DiskAfterCommit(e, p))
  <1>1. CASE ~p.accepted
    BY <1>1 DEF DiskAfterCommit
  <1>2. CASE p.accepted
    <2> PICK cmds : cmds = RoomAfterCommit(e, p).cmds
      OBVIOUS
    <2> PICK d : d = DiskAfterCommit(e, p)
      OBVIOUS
    <2>0. e \in Inputs
      BY DEF OpenInputs
    <2>1. Becomes(e, p, cmds, "durable") /\ Turned(e, p, cmds, "durable")
      BY <2>0, RoomBecomes, RoomTurned
    <2>2. d.cmds = cmds /\ d.outbox = OutboxAfter(e, p)
      BY <1>2 DEF DiskAfterCommit, Types, Disks
    <2>3. disk.cmds = room.cmds
      BY DEF Agreement, Synced
    <2>4. ASSUME NEW c \in Command
          PROVE  Open(d.cmds, d.outbox, c) /\ (d.cmds[c].status = "accepted" => d.cmds[c].admitted = "durable")
      <3> PICK state : state = OutboxAfter(e, p)[c]
        OBVIOUS
      <3>1. /\ Open(room.cmds, disk.outbox, c)
            /\ room.cmds[c].status = "accepted" => room.cmds[c].admitted = "durable"
        BY <2>3 DEF StoresOpen, Open
      <3>2. cmds[c].status = p.cmds[c].status
        BY <2>1 DEF Becomes
      <3>3. ASSUME IsActive(cmds, c)
            PROVE  IF c = e.cmd /\ e.durable /\ e.kind \in {"requested", "dispatched", "uncertain"}
                   THEN state = CASE e.kind = "requested" -> "ready"
                                  [] e.kind = "dispatched" -> "delivered"
                                  [] e.kind = "uncertain" -> "uncertain"
                   ELSE state = disk.outbox[c]
        <4>1. IsActive(p.cmds, c) /\ ~IsTerminal(room.cmds, c)
          BY <2>1, <3>2, <3>3, EndsStay DEF Becomes, IsActive, ActiveStatus, IsTerminal, TerminalStatus
        <4> QED BY <1>2, <2>0, <4>1, OutboxStays
      <3>4. CASE cmds[c].status = "accepted"
        <4>1. IsActive(cmds, c)
          BY <3>4 DEF IsActive, ActiveStatus
        <4>2. CASE cmds[c] = room.cmds[c]
          <5>1. disk.outbox[c] = "ready" /\ cmds[c].admitted = "durable"
            BY <3>1, <3>4, <4>2 DEF Open
          <5>2. ~(c = e.cmd /\ e.kind \in {"dispatched", "uncertain"})
            BY <1>2, <3>2, <3>4 DEF Turns
          <5>3. state = "ready"
            BY <3>3, <4>1, <5>1, <5>2
          <5> QED BY <2>2, <3>4, <5>1, <5>3 DEF Open
        <4>3. CASE c = e.cmd /\ e.kind = "requested"
          <5>1. e.durable
            BY <4>3 DEF Proper, BackedInputs, Plain, RequestKinds
          <5>2. cmds[c].admitted = "durable"
            BY <1>2, <2>1, <3>4, <4>3 DEF Becomes, Admits, Effect
          <5>3. state = "ready"
            BY <3>3, <4>1, <4>3, <5>1
          <5> QED BY <2>2, <3>4, <5>2, <5>3 DEF Open
        <4> QED BY <2>1, <3>4, <4>2, <4>3 DEF Turned
      <3>5. CASE cmds[c].status = "pending"
        <4>1. IsActive(cmds, c)
          BY <3>5 DEF IsActive, ActiveStatus
        <4>2. CASE cmds[c] = room.cmds[c]
          <5>1. disk.outbox[c] \in {"ready", "uncertain"} => MayHandOff(cmds[c])
            BY <3>1, <3>5, <4>2 DEF Open
          <5>2. ~(c = e.cmd /\ e.kind \in {"requested", "uncertain"})
            BY <1>2, <3>5, <4>2 DEF Turns, Effect
          <5>3. state = disk.outbox[c] \/ state = "delivered"
            BY <3>3, <4>1, <5>2
          <5> QED BY <2>2, <3>5, <5>1, <5>3 DEF Open
        <4>3. CASE c = e.cmd /\ e.kind = "uncertain" /\ cmds[c].delivery = "uncertain"
          BY <2>2, <3>5, <4>3 DEF Open, MayHandOff
        <4>4. CASE c = e.cmd /\ e.kind = "dispatched" /\ IsActive(room.cmds, c)
          <5>1. e.durable => state = "delivered"
            BY <3>3, <4>1, <4>4
          <5>2. ~e.durable => state = disk.outbox[c] /\ IsVolatile(c)
            BY <3>3, <4>1, <4>4 DEF OpenInputs
          <5>3. IsVolatile(c) => disk.outbox[c] = "none"
            BY <2>3 DEF IsVolatile, AllBacked, Backed
          <5> QED BY <2>2, <3>5, <5>1, <5>2, <5>3 DEF Open
        <4> QED BY <2>1, <3>5, <4>2, <4>3, <4>4 DEF Turned
      <3> QED BY <2>2, <3>4, <3>5 DEF Open
    <2> QED BY <2>4 DEF StoresOpen
  <1> QED BY <1>1, <1>2

\* An event that stays in memory opens nothing that is stored.
LEMMA VolatileOpen ==
  ASSUME RoomIsOpen, NEW e, NEW p, NEW cmds, Effect(e, p), Becomes(e, p, cmds, "volatile"),
         Turned(e, p, cmds, "volatile"), room'.cmds = cmds, disk' = disk
  PROVE  RoomIsOpen'
  <1>1. ASSUME NEW c \in Command PROVE Open(cmds, disk.outbox, c)
    <2>1. Open(room.cmds, disk.outbox, c)
      BY DEF RoomIsOpen
    <2>2. cmds[c].status = "accepted" => cmds[c] = room.cmds[c] \/ cmds[c].admitted = "volatile"
      <3>1. cmds[c].status = "accepted" /\ cmds[c] # room.cmds[c] => c = e.cmd /\ e.kind = "requested" /\ p.accepted
        BY DEF Turned
      <3> QED BY <3>1 DEF Becomes, Admits, Effect
    <2>3. cmds[c].status = "pending" => cmds[c] = room.cmds[c] \/ cmds[c].lifecycle = "volatile"
      BY DEF Turned
    <2> QED BY <2>1, <2>2, <2>3 DEF Open, MayHandOff
  <1> QED BY <1>1 DEF RoomIsOpen, Open

\* The event that is processed next is taken from the queue, or is the timeout of a pending
\* command that a report finds overdue.
LEMMA CurrentQueued ==
  ASSUME Types, InputsAreOpen, inputs # <<>>, IsEvent(Head(inputs)),
         NEW e, e = CurrentEvent.event, NEW rest, rest = CurrentEvent.rest
  PROVE  /\ e \in OpenInputs /\ rest \in Seq(Inputs) /\ ToSet(rest) \subseteq ToSet(inputs)
         /\ \/ /\ e = Head(inputs) /\ rest = Tail(inputs) /\ ToSet(inputs) = {e} \cup ToSet(rest)
               /\ e.kind = "report" => Expired(room.cmds, Command) = {}
            \/ /\ rest = inputs /\ Head(inputs).kind = "report" /\ e.kind = "timed_out" /\ e.cmd \in Command
               /\ room.cmds[e.cmd].status = "pending" /\ e.at = room.cmds[e.cmd].deadline
  <1> DEFINE head == Head(inputs)
             late == Expired(room.cmds, Command)
  <1>1. inputs \in Seq(Inputs)
    BY DEF Types
  <1>2. CASE head.kind = "report" /\ late # {}
    <2> PICK c : c = CHOOSE d \in late : TRUE
      OBVIOUS
    <2>1. c \in Command /\ room.cmds[c].status = "pending"
      BY <1>2 DEF Expired
    <2>2. e = TimedOut(c, room.cmds[c].deadline) /\ rest = inputs
      BY <1>2 DEF CurrentEvent
    <2>3. e \in Inputs
      BY <2>1, <2>2, TimedOutPlain DEF Types, Rooms, Lists, Records, Plain
    <2>4. e.kind = "timed_out" /\ e.cmd = c /\ e.at = room.cmds[c].deadline
      BY <2>2 DEF TimedOut, Input
    <2>5. e \in OpenInputs
      BY <2>3, <2>4 DEF OpenInputs
    <2> QED BY <1>1, <1>2, <2>1, <2>2, <2>4, <2>5
  <1>3. CASE ~(head.kind = "report" /\ late # {})
    <2>1. e = head /\ rest = Tail(inputs)
      BY <1>3 DEF CurrentEvent
    <2>2. Tail(inputs) \in Seq(Inputs) /\ head \in Inputs
      BY <1>1, SeqOps
    <2>3. ToSet(inputs) = {head} \cup ToSet(Tail(inputs))
      BY <1>1, <2>2, Queued
    <2> HIDE DEF head
    <2>4. e \in OpenInputs
      BY <2>1, <2>3 DEF InputsAreOpen
    <2> QED BY <1>3, <2>1, <2>2, <2>3, <2>4 DEF head
  <1> QED BY <1>2, <1>3

\* What the controller does about an event.
Attended(e, accepted, cmds, rest) ==
  /\ ToSet(rest) \subseteq ToSet(inputs')
  /\ \/ inputs' = rest
     \/ /\ accepted /\ IsLifecycle(e) /\ e.cmd \in Command /\ cmds[e.cmd].status = "pending"
        /\ ToSet(inputs') \subseteq ToSet(rest) \cup {TimedOut(e.cmd, cmds[e.cmd].deadline)}
  /\ attempts' = IF accepted /\ e.kind = "requested" THEN <<e.cmd>> ELSE <<>>
  /\ \A c \in Command :
       IF accepted /\ e.kind = "requested" /\ c = e.cmd THEN control'.work[c] = cmds[c].admitted
       ELSE \/ /\ control'.work[c] = control.work[c]
               /\ accepted /\ IsActive(room.cmds, c) => IsActive(cmds, c) \/ control'.work[c] = "none"
            \/ control'.work[c] = "none" /\ ~IsActive(cmds, c)
  /\ \A c \in Command :
       \/ /\ control'.timeoutAt[c] = control.timeoutAt[c]
          /\ accepted /\ IsActive(room.cmds, c) => IsActive(cmds, c) \/ control'.timeoutAt[c] = NoTime
       \/ cmds[c].status = "pending" /\ control'.timeoutAt[c] = cmds[c].deadline
       \/ control'.timeoutAt[c] = NoTime /\ ~IsActive(cmds, c)
  /\ \A c \in Command :
       accepted /\ IsLifecycle(e) /\ c = e.cmd /\ cmds[c].status = "pending" /\ control.timeoutAt[c] = NoTime =>
         control'.timeoutAt[c] = cmds[c].deadline \/ TimedOut(c, cmds[c].deadline) \in ToSet(inputs')

LEMMA AfterProcessingAttends ==
  ASSUME Types, NEW e \in Inputs, NEW accepted \in BOOLEAN, NEW after \in Rooms, One(after.cmds),
         NEW rest \in Seq(Inputs), AfterProcessing(e, accepted, after, rest), attempts = <<>>
  PROVE  Attended(e, accepted, after.cmds, rest)
  <1> DEFINE subject == IF IsLifecycle(e) THEN {e.cmd} ELSE {}
             C == subject \cup ActiveCommands(room.cmds)
             cleared == ClearCompleted(control, after.cmds, C)
             late == {c \in Expired(after.cmds, subject) : cleared.timeoutAt[c] = NoTime}
             admitted == e.kind = "requested" /\ accepted
             scheduled == ScheduleTimeouts(cleared, after.cmds, subject)
  <1>1. CASE accepted
    <2>1. subject \in SUBSET Command /\ (IsLifecycle(e) => e.cmd \in Command) /\ (admitted => e.cmd \in Command)
      BY DEF Inputs, IsLifecycle
    <2>2. cleared \in Controls
      BY ClearType DEF Types
    <2>3. ASSUME NEW c \in Command
          PROVE  /\ cleared.work[c] = IF c \in C /\ ~IsActive(after.cmds, c) THEN "none" ELSE control.work[c]
                 /\ cleared.timeoutAt[c] = IF c \in C /\ ~IsActive(after.cmds, c) THEN NoTime
                                           ELSE control.timeoutAt[c]
      BY DEF ClearCompleted
    <2>4. late \in SUBSET Command /\ (\A c, d \in late : c = d)
      BY <2>1 DEF Expired, One, ActiveCommands, IsActive, ActiveStatus
    <2>5. \A c \in Command : ActiveCommands(room.cmds) \subseteq C /\ (c \in subject <=> IsLifecycle(e) /\ c = e.cmd)
      OBVIOUS
    <2>6. \A c \in late : IsLifecycle(e) /\ c = e.cmd /\ after.cmds[c].status = "pending"
      BY DEF Expired
    <2> HIDE DEF C, cleared, subject
    <2>7. ASSUME NEW c \in subject, after.cmds[c].status = "pending", after.cmds[c].deadline <= now,
                 cleared.timeoutAt[c] = NoTime
          PROVE  c \in late
      BY <2>7 DEF Expired
    <2> HIDE DEF late
    <2>8. scheduled \in Controls /\ scheduled.work = cleared.work
      BY <2>2, ScheduleType DEF Rooms, Lists
    <2>9. \A c \in Command : scheduled.timeoutAt[c] =
            IF /\ c \in subject /\ after.cmds[c].status = "pending"
               /\ cleared.timeoutAt[c] = NoTime /\ after.cmds[c].deadline > now
            THEN after.cmds[c].deadline ELSE cleared.timeoutAt[c]
      BY <2>2 DEF ScheduleTimeouts, Controls
    <2> HIDE DEF scheduled
    <2>10. /\ control' = [scheduled EXCEPT !.work = IF admitted
                            THEN [@ EXCEPT ![e.cmd] = after.cmds[e.cmd].admitted] ELSE @]
           /\ inputs' = rest \o TimeoutInputs(after.cmds, late)
           /\ attempts' = IF admitted THEN Append(attempts, e.cmd) ELSE attempts
      BY <1>1 DEF AfterProcessing, subject, C, cleared, late, scheduled
    <2>11. TimeoutInputs(after.cmds, late) \in Seq(Inputs) /\ (late = {} => TimeoutInputs(after.cmds, late) = <<>>)
           /\ ToSet(TimeoutInputs(after.cmds, late)) = {TimedOut(c, after.cmds[c].deadline) : c \in late}
      <3>1. ASSUME NEW c \in late PROVE TimedOut(c, after.cmds[c].deadline) \in Inputs
        <4>1. c \in Command /\ after.cmds[c].deadline \in Nat
          BY <2>4 DEF Rooms, Lists, Records
        <4>2. TimedOut(c, after.cmds[c].deadline) \in Plain
          BY <4>1, TimedOutPlain
        <4> QED BY <4>2 DEF Plain
      <3> QED BY <2>4, <3>1, TimeoutInputsIn, TimeoutsQueued
    <2>12. ToSet(inputs') = ToSet(rest) \cup {TimedOut(c, after.cmds[c].deadline) : c \in late}
      <3> PICK t \in Seq(Inputs) : t = TimeoutInputs(after.cmds, late)
        BY <2>11
      <3>1. ToSet(rest \o t) = ToSet(rest) \cup ToSet(t)
        BY Joined
      <3> QED BY <2>10, <2>11, <3>1
    <2>13. \/ inputs' = rest
           \/ /\ accepted /\ IsLifecycle(e) /\ e.cmd \in Command /\ after.cmds[e.cmd].status = "pending"
              /\ ToSet(inputs') \subseteq ToSet(rest) \cup {TimedOut(e.cmd, after.cmds[e.cmd].deadline)}
      <3>1. CASE late = {}
        BY <2>10, <2>11, <3>1
      <3>2. CASE late # {}
        BY <1>1, <2>4, <2>6, <2>12, <3>2
      <3> QED BY <3>1, <3>2
    <2>14. attempts' = IF accepted /\ e.kind = "requested" THEN <<e.cmd>> ELSE <<>>
      BY <1>1, <2>10
    <2>15. control'.work = (IF admitted THEN [scheduled.work EXCEPT ![e.cmd] = after.cmds[e.cmd].admitted]
                            ELSE scheduled.work)
           /\ control'.timeoutAt = scheduled.timeoutAt
      BY <2>8, <2>10 DEF Controls
    <2>16. ASSUME NEW c \in Command
           PROVE  IF accepted /\ e.kind = "requested" /\ c = e.cmd THEN control'.work[c] = after.cmds[c].admitted
                  ELSE \/ /\ control'.work[c] = control.work[c]
                          /\ accepted /\ IsActive(room.cmds, c) => IsActive(after.cmds, c) \/ control'.work[c] = "none"
                       \/ control'.work[c] = "none" /\ ~IsActive(after.cmds, c)
      <3>1. control'.work[c] = IF admitted /\ c = e.cmd THEN after.cmds[c].admitted ELSE cleared.work[c]
        BY <2>8, <2>15 DEF Controls
      <3>2. IsActive(room.cmds, c) => c \in C
        BY <2>5 DEF ActiveCommands
      <3> QED BY <1>1, <2>3, <3>1, <3>2
    <2>17. ASSUME NEW c \in Command
           PROVE  \/ /\ control'.timeoutAt[c] = control.timeoutAt[c]
                     /\ accepted /\ IsActive(room.cmds, c) => IsActive(after.cmds, c) \/ control'.timeoutAt[c] = NoTime
                  \/ after.cmds[c].status = "pending" /\ control'.timeoutAt[c] = after.cmds[c].deadline
                  \/ control'.timeoutAt[c] = NoTime /\ ~IsActive(after.cmds, c)
      BY <2>3, <2>5, <2>9, <2>15 DEF ActiveCommands
    <2>18. ASSUME NEW c \in Command, IsLifecycle(e), c = e.cmd, after.cmds[c].status = "pending",
                  control.timeoutAt[c] = NoTime
           PROVE  control'.timeoutAt[c] = after.cmds[c].deadline
                  \/ TimedOut(c, after.cmds[c].deadline) \in ToSet(inputs')
      <3>1. cleared.timeoutAt[c] = NoTime /\ c \in subject
        BY <2>3, <2>5, <2>18
      <3>2. CASE after.cmds[c].deadline > now
        BY <2>9, <2>15, <2>18, <3>1, <3>2
      <3>3. CASE ~(after.cmds[c].deadline > now)
        <4>1. after.cmds[c].deadline \in Nat /\ now \in Nat
          BY DEF Types, Rooms, Lists, Records
        <4>2. c \in late
          BY <2>7, <2>18, <3>1, <3>3, <4>1
        <4> QED BY <2>12, <4>2
      <3> QED BY <3>2, <3>3
    <2> QED BY <2>12, <2>13, <2>14, <2>16, <2>17, <2>18 DEF Attended
  <1>2. CASE ~accepted
    <2>1. inputs' = rest /\ control' = control /\ attempts' = attempts
      BY <1>2 DEF AfterProcessing
    <2> QED BY <1>2, <2>1 DEF Attended
  <1> QED BY <1>1, <1>2

\* What the steps of ProcessEvent that leave the process running have in common.
Processed(e, rest, p, cmds, durability) ==
  /\ Becomes(e, p, cmds, durability) /\ Turned(e, p, cmds, durability)
  /\ Attended(e, p.accepted, cmds, rest)
  /\ room'.cmds = cmds /\ now' = now /\ process' = process /\ boot' = boot
  /\ Available' => Available /\ durability = "durable" /\ disk' = DiskAfterCommit(e, p)

\* The event that is processed, and how its outcome relates to what is being done.
Processing(e, rest, p, cmds, durability) ==
  /\ IInv /\ Types' /\ Backing /\ Tended /\ Running
  /\ inputs # <<>> /\ IsEvent(Head(inputs)) /\ attempts = <<>>
  /\ e = CurrentEvent.event /\ rest = CurrentEvent.rest
  /\ e \in OpenInputs /\ IsEvent(e) /\ Proper(e)
  /\ rest \in Seq(Inputs)
  /\ Applied(e, p) /\ Effect(e, p) /\ Turns(e, p)
  /\ Processed(e, rest, p, cmds, durability)

\* A command that is active after an event was active before, or is admitted by it.
LEMMA ActiveBefore ==
  ASSUME NEW e, NEW rest, NEW p, NEW cmds, NEW durability, Processing(e, rest, p, cmds, durability),
         NEW c \in Command, IsActive(cmds, c)
  PROVE  /\ \/ /\ IsActive(room.cmds, c) /\ cmds[c].admitted = room.cmds[c].admitted
               /\ cmds[c].requestedAt = room.cmds[c].requestedAt
            \/ /\ p.accepted /\ e.kind = "requested" /\ c = e.cmd /\ cmds[c].status = "accepted"
               /\ cmds[c].admitted = durability
         /\ room.cmds[c].status = "pending" =>
              cmds[c].status = "pending" /\ cmds[c].deadline = room.cmds[c].deadline
  <1>1. /\ Moved(e, cmds) /\ Becomes(e, p, cmds, durability) /\ Applied(e, p) /\ Effect(e, p)
        /\ Turned(e, p, cmds, durability)
    BY DEF Processing, Processed, Becomes
  <1>2. cmds[c].status = p.cmds[c].status /\ Admits(c, cmds[c], durability)
    BY <1>1 DEF Becomes
  <1>3. CASE IsActive(room.cmds, c)
    <2>1. Goes(room.cmds[c], cmds[c])
      BY <1>1 DEF Moved, IsActive, ActiveStatus
    <2>2. cmds[c].admitted = room.cmds[c].admitted
      BY <1>2, <1>3 DEF Admits, IsActive, ActiveStatus
    <2>3. room.cmds[c].status = "pending" =>
            cmds[c].status = "pending" /\ cmds[c].deadline = room.cmds[c].deadline
      BY <2>1 DEF Goes, Promise!Moves, IsActive, ActiveStatus
    <2>4. ~(p.accepted /\ c = e.cmd /\ e.kind = "requested")
      BY <1>1, <1>3 DEF Effect, IsActive, ActiveStatus
    <2>5. cmds[c].requestedAt = room.cmds[c].requestedAt
      BY <1>1, <2>4 DEF Turned, IsActive, ActiveStatus
    <2> QED BY <1>3, <2>2, <2>3, <2>5
  <1>4. CASE ~IsActive(room.cmds, c)
    <2>1. e.kind = "requested" /\ c = e.cmd
      BY <1>1, <1>4 DEF Moved
    <2>2. p.accepted
      BY <1>1, <1>2, <1>4 DEF Applied, IsActive
    <2>3. room.cmds[c].status = "none" /\ cmds[c].status = "accepted"
      BY <1>1, <1>2, <2>1, <2>2 DEF Effect
    <2>4. cmds[c].admitted = durability
      BY <1>2, <2>3 DEF Admits
    <2> QED BY <2>1, <2>2, <2>3, <2>4
  <1> QED BY <1>3, <1>4

\* What was queued still is, except the event itself.
LEMMA StillQueued ==
  ASSUME NEW e, NEW rest, NEW p, NEW cmds, NEW durability, Processing(e, rest, p, cmds, durability)
  PROVE  /\ \A x \in ToSet(inputs) : x \in ToSet(inputs') \/ x = e
         /\ \A x \in ToSet(inputs') :
              \/ x \in ToSet(inputs)
              \/ /\ p.accepted
                 /\ x = TimedOut(e.cmd, cmds[e.cmd].deadline) /\ x \in Inputs /\ x.kind = "timed_out"
                 /\ IsLifecycle(e) /\ cmds[e.cmd].status = "pending"
  <1>1. Types /\ InputsAreOpen /\ Attended(e, p.accepted, cmds, rest) /\ e \in Inputs /\ rest \in Seq(Inputs)
    BY DEF Processing, Processed, IInv, Tended, OpenInputs
  <1>2. ToSet(rest) \subseteq ToSet(inputs) /\ (rest = inputs \/ ToSet(inputs) = {e} \cup ToSet(rest))
    BY <1>1, CurrentQueued DEF Processing
  <1>3. /\ ToSet(rest) \subseteq ToSet(inputs')
        /\ \/ inputs' = rest
           \/ /\ p.accepted /\ IsLifecycle(e) /\ e.cmd \in Command /\ cmds[e.cmd].status = "pending"
              /\ ToSet(inputs') \subseteq ToSet(rest) \cup {TimedOut(e.cmd, cmds[e.cmd].deadline)}
    BY <1>1 DEF Attended
  <1>4. ASSUME e.cmd \in Command
        PROVE  /\ TimedOut(e.cmd, cmds[e.cmd].deadline) \in Inputs
               /\ TimedOut(e.cmd, cmds[e.cmd].deadline).kind = "timed_out"
    <2>1. cmds \in [Command -> Records]
      BY DEF Processing, Processed, Becomes, Moved, Lists
    <2>2. TimedOut(e.cmd, cmds[e.cmd].deadline) \in Plain
      BY <1>4, <2>1, TimedOutPlain DEF Records
    <2> QED BY <2>2 DEF Plain, TimedOut, Input
  <1>5. \A x \in ToSet(inputs) : x \in ToSet(inputs') \/ x = e
    BY <1>2, <1>3
  <1>6. \A x \in ToSet(inputs') :
              \/ x \in ToSet(inputs)
              \/ /\ p.accepted
                 /\ x = TimedOut(e.cmd, cmds[e.cmd].deadline) /\ x \in Inputs /\ x.kind = "timed_out"
                 /\ IsLifecycle(e) /\ cmds[e.cmd].status = "pending"
    BY <1>2, <1>3, <1>4
  <1> QED BY <1>5, <1>6

\* A request that is admitted was the only thing queued.
LEMMA RequestIsAlone ==
  ASSUME NEW e, NEW rest, NEW p, NEW cmds, NEW durability, Processing(e, rest, p, cmds, durability),
         e.kind = "requested"
  PROVE  ToSet(inputs) = {e}
  <1>1. Types /\ InputsAreOpen /\ RequestsAreFresh /\ inputs # <<>> /\ IsEvent(Head(inputs))
    BY DEF Processing, IInv, Tended
  <1>2. e = Head(inputs)
    BY <1>1, CurrentQueued DEF Processing
  <1>3. PICK x \in Inputs : inputs = <<x>>
    <2>1. inputs \notin Seq(Plain)
      BY <1>1, <1>2, SeqOps DEF Plain, RequestKinds
    <2> QED BY <1>1, <2>1 DEF RequestsAreFresh
  <1>4. x = e
    BY <1>2, <1>3
  <1> QED BY <1>3, <1>4, Alone

\* The queue and the work stay as they should.
LEMMA ProcessedQueue ==
  ASSUME NEW e, NEW rest, NEW p, NEW cmds, NEW durability, Processing(e, rest, p, cmds, durability)
  PROVE  InputsAreOpen' /\ WorkIsAdmitted'
  <1>1. /\ InputsAreOpen /\ WorkIsAdmitted /\ Becomes(e, p, cmds, durability) /\ Applied(e, p) /\ Effect(e, p)
        /\ Attended(e, p.accepted, cmds, rest) /\ room'.cmds = cmds /\ (Available' => Available)
    BY DEF Processing, Processed, Tended
  <1>2. ASSUME NEW c \in Command, IsActive(cmds, c), IsVolatile(c) PROVE IsVolatile(c)'
    <2>1. cmds[c].admitted = "volatile" /\ cmds[c].status # "none"
      BY <1>1, <1>2, ActiveBefore DEF IsVolatile, Effect, IsActive, ActiveStatus
    <2> QED BY <1>1, <2>1 DEF IsVolatile
  <1>3. ASSUME NEW x \in ToSet(inputs') PROVE x \in OpenInputs'
    <2>1. CASE x \in ToSet(inputs)
      <3>1. x \in Inputs /\ (x.kind \in {"uncertain", "mark_uncertain"} => ~Available)
        BY <1>1, <2>1 DEF InputsAreOpen, OpenInputs
      <3>2. ASSUME x.kind = "dispatched", ~x.durable, IsActive(cmds, x.cmd) PROVE IsVolatile(x.cmd)'
        <4>1. x.cmd \in Command
          BY <3>1, <3>2 DEF Inputs
        <4>2. e.kind # "requested"
          BY <2>1, <3>2, RequestIsAlone
        <4>3. IsActive(room.cmds, x.cmd)
          BY <3>2, <4>1, <4>2, ActiveBefore
        <4>4. IsVolatile(x.cmd)
          BY <1>1, <2>1, <3>2, <4>3 DEF InputsAreOpen, OpenInputs
        <4> QED BY <1>2, <3>2, <4>1, <4>4
      <3>3. IsActive(room'.cmds, x.cmd) <=> IsActive(cmds, x.cmd)
        BY <1>1 DEF IsActive
      <3> QED BY <1>1, <3>1, <3>2, <3>3 DEF OpenInputs, IsActive
    <2>2. CASE x \in Inputs /\ x.kind = "timed_out"
      BY <2>2 DEF OpenInputs
    <2> QED BY <2>1, <2>2, StillQueued
  <1>4. ASSUME NEW c \in Command, control'.work[c] = "volatile" PROVE IsActive(cmds, c) /\ IsVolatile(c)'
    <2>1. CASE p.accepted /\ e.kind = "requested" /\ c = e.cmd
      <3>1. control'.work[c] = cmds[c].admitted
        BY <1>1, <2>1 DEF Attended
      <3>2. cmds[c].status = "accepted"
        BY <1>1, <2>1 DEF Effect, Becomes
      <3> QED BY <1>1, <1>4, <3>1, <3>2 DEF IsVolatile, IsActive, ActiveStatus
    <2>2. CASE ~(p.accepted /\ e.kind = "requested" /\ c = e.cmd)
      <3>1. control.work[c] = "volatile" /\ (p.accepted /\ IsActive(room.cmds, c) => IsActive(cmds, c))
        BY <1>1, <1>4, <2>2 DEF Attended
      <3>2. IsActive(room.cmds, c) /\ IsVolatile(c)
        BY <1>1, <3>1 DEF WorkIsAdmitted
      <3>3. ~p.accepted => cmds[c].status = room.cmds[c].status
        BY <1>1 DEF Applied, Becomes
      <3>4. IsActive(cmds, c)
        BY <3>1, <3>2, <3>3 DEF IsActive
      <3> QED BY <1>2, <3>2, <3>4
    <2> QED BY <2>1, <2>2
  <1>5. \A c \in Command : IsActive(room'.cmds, c) <=> IsActive(cmds, c)
    BY <1>1 DEF IsActive
  <1> QED BY <1>3, <1>4, <1>5 DEF InputsAreOpen, WorkIsAdmitted, IsActive

\* A volatile command that waits for its first attempt is attempted next.
LEMMA ProcessedVolatile ==
  ASSUME NEW e, NEW rest, NEW p, NEW cmds, NEW durability, Processing(e, rest, p, cmds, durability)
  PROVE  VolatileIsTried'
  <1>1. /\ VolatileIsTried /\ Turned(e, p, cmds, durability) /\ Turns(e, p) /\ Becomes(e, p, cmds, durability)
        /\ Attended(e, p.accepted, cmds, rest) /\ room'.cmds = cmds
        /\ (Available' => Available /\ durability = "durable") /\ attempts = <<>>
    BY DEF Processing, Processed, Tended
  <1>2. ASSUME NEW c \in Command, cmds[c].status = "accepted", cmds[c].admitted = "volatile"
        PROVE  ~Available' /\ OnItsWay(c)'
    <2>0. IsActive(cmds, c)
      BY <1>2 DEF IsActive, ActiveStatus
    <2>1. CASE cmds[c] = room.cmds[c]
      <3>1. ~Available /\ OnItsWay(c)
        BY <1>1, <1>2, <2>1 DEF VolatileIsTried, IsVolatile
      <3>2. PICK x \in ToSet(inputs) :
              x.kind = "dispatched" /\ x.cmd = c /\ x.at >= room.cmds[c].requestedAt
        BY <1>1, <3>1 DEF OnItsWay
      <3>3. x # e
        <4>1. ASSUME x = e PROVE FALSE
          <5>1. p.accepted
            BY <1>1, <1>2, <2>1, <3>2, <4>1 DEF Turns, MayDispatch
          <5>2. p.cmds[c].status # "accepted"
            BY <1>1, <3>2, <4>1, <5>1 DEF Turns
          <5> QED BY <1>1, <1>2, <5>2 DEF Becomes
        <4> QED BY <4>1
      <3>4. x \in ToSet(inputs')
        BY <3>3, StillQueued
      <3> QED BY <1>1, <2>1, <3>1, <3>2, <3>4 DEF OnItsWay
    <2>2. CASE p.accepted /\ e.kind = "requested" /\ c = e.cmd
      <3>1. durability = "volatile"
        BY <1>2, <2>0, <2>2, ActiveBefore DEF Processing, Effect, IsActive, ActiveStatus
      <3>2. attempts' = <<c>> /\ control'.work[c] = "volatile"
        BY <1>1, <1>2, <2>2 DEF Attended
      <3> QED BY <1>1, <3>1, <3>2 DEF OnItsWay
    <2> QED BY <1>1, <1>2, <2>1, <2>2 DEF Turned
  <1> QED BY <1>1, <1>2 DEF VolatileIsTried, IsVolatile

\* A queued timeout ends its command, or stays queued.
LEMMA ProcessedEnds ==
  ASSUME NEW e, NEW rest, NEW p, NEW cmds, NEW durability, Processing(e, rest, p, cmds, durability),
         NEW c \in Command, Ends(c), IsActive(cmds, c)
  PROVE  Ends(c)'
  <1>1. PICK x \in ToSet(inputs) : x.kind = "timed_out" /\ x.cmd = c /\ x.at >= room.cmds[c].deadline
    BY DEF Ends
  <1>2. room.cmds[c].status = "pending" /\ cmds[c].status = "pending" /\ cmds[c].deadline = room.cmds[c].deadline
    BY ActiveBefore DEF Ends
  <1>3. x # e
    <2>1. ASSUME x = e PROVE FALSE
      <3>1. p.accepted
        BY <1>1, <1>2, <2>1 DEF Processing, Turns
      <3>2. cmds[c].status \in {"timed_out", "none"}
        BY <1>1, <2>1, <3>1 DEF Processing, Processed, Effect, Becomes
      <3> QED BY <1>2, <3>2
    <2> QED BY <2>1
  <1>4. x \in ToSet(inputs')
    BY <1>3, StillQueued
  <1>5. room'.cmds = cmds
    BY DEF Processing, Processed
  <1> QED BY <1>1, <1>2, <1>4, <1>5 DEF Ends

\* A durable command is delivered, or on its way, or at its end.
LEMMA ProcessedDurable ==
  ASSUME NEW e, NEW rest, NEW p, NEW cmds, NEW durability, Processing(e, rest, p, cmds, durability)
  PROVE  DurableIsTried'
  <1>1. /\ Types /\ Agreement /\ AllBacked(disk) /\ RoomIsOpen /\ DurableIsTried /\ attempts = <<>>
        /\ Becomes(e, p, cmds, durability) /\ Turns(e, p) /\ Effect(e, p) /\ Applied(e, p)
        /\ Attended(e, p.accepted, cmds, rest)
        /\ room'.cmds = cmds /\ process' = process /\ boot' = boot
        /\ Available' => Available /\ disk' = DiskAfterCommit(e, p)
    BY DEF Processing, Processed, IInv, Backing, Tended
  <1>2. e \in Inputs /\ IsEvent(e) /\ (e.kind = "uncertain" => ~Available)
        /\ (e.kind = "dispatched" /\ ~e.durable /\ IsActive(room.cmds, e.cmd) => IsVolatile(e.cmd))
    BY DEF Processing, OpenInputs
  <1>3. ASSUME Started, Available', NEW c \in Command, IsActive(cmds, c), cmds[c].admitted = "durable"
        PROVE  disk'.outbox[c] = "delivered" \/ OnItsWay(c)' \/ Ends(c)'
    <2>1. CASE p.accepted /\ e.kind = "requested" /\ c = e.cmd
      <3>1. attempts' = <<c>> /\ control'.work[c] = "durable"
        BY <1>1, <1>3, <2>1 DEF Attended
      <3> QED BY <3>1 DEF OnItsWay
    <2>2. CASE /\ IsActive(room.cmds, c) /\ cmds[c].admitted = room.cmds[c].admitted
               /\ cmds[c].requestedAt = room.cmds[c].requestedAt
      <3>1. disk.cmds = room.cmds
        BY <1>1, <1>3 DEF Agreement, Synced, Started
      <3>2. disk.outbox[c] = "delivered" \/ OnItsWay(c) \/ Ends(c)
        BY <1>1, <1>3, <2>2 DEF DurableIsTried
      <3>3. ASSUME p.accepted
            PROVE  /\ disk.outbox[c] = "delivered" => disk'.outbox[c] = "delivered"
                   /\ c = e.cmd /\ e.durable /\ e.kind = "dispatched" => disk'.outbox[c] = "delivered"
        <4> PICK state : state = OutboxAfter(e, p)[c]
          OBVIOUS
        <4>1. ~IsTerminal(room.cmds, c) /\ IsActive(p.cmds, c)
          BY <1>1, <1>3, <2>2 DEF Becomes, IsActive, ActiveStatus, IsTerminal, TerminalStatus
        <4>2. IF c = e.cmd /\ e.durable /\ e.kind \in {"requested", "dispatched", "uncertain"}
              THEN state = CASE e.kind = "requested" -> "ready"
                             [] e.kind = "dispatched" -> "delivered"
                             [] e.kind = "uncertain" -> "uncertain"
              ELSE state = disk.outbox[c]
          BY <1>1, <1>2, <3>3, <4>1, OutboxStays
        <4>3. disk'.outbox[c] = state
          BY <1>1, <1>3, <3>3 DEF DiskAfterCommit, Types, Disks
        <4>4. ~(c = e.cmd /\ e.kind \in {"requested", "uncertain"})
          BY <1>1, <1>2, <1>3, <2>2, <3>3 DEF Effect, IsActive, ActiveStatus
        <4> QED BY <4>2, <4>3, <4>4
      <3>4. ~p.accepted => disk'.outbox[c] = disk.outbox[c]
        BY <1>1, <1>3 DEF DiskAfterCommit
      <3>5. CASE disk.outbox[c] = "delivered"
        BY <3>3, <3>4, <3>5
      <3>6. CASE disk.outbox[c] # "delivered" /\ OnItsWay(c)
        <4>1. PICK x \in ToSet(inputs) :
                x.kind = "dispatched" /\ x.cmd = c /\ x.at >= room.cmds[c].requestedAt
          BY <1>1, <3>6 DEF OnItsWay
        <4>2. CASE x \in ToSet(inputs')
          BY <1>1, <2>2, <4>1, <4>2 DEF OnItsWay
        <4>3. CASE x = e
          <5>1. e.durable
            BY <1>2, <1>3, <2>2, <4>1, <4>3 DEF IsVolatile
          <5>2. disk.outbox[c] \in {"ready", "uncertain"}
            <6>1. disk.outbox[c] \in OutboxStates /\ Backed(disk, c)
              BY <1>1 DEF Types, Disks, OutboxStates, AllBacked
            <6> QED BY <1>3, <2>2, <3>1, <3>6, <6>1
                    DEF Backed, OutboxStates, IsActive, ActiveStatus, IsTerminal, TerminalStatus
          <5>3. MayDispatch(room.cmds[c])
            BY <1>1, <2>2, <5>2 DEF RoomIsOpen, Open, MayHandOff, MayDispatch, IsActive, ActiveStatus
          <5>4. p.accepted
            BY <1>1, <4>1, <4>3, <5>3 DEF Turns
          <5> QED BY <3>3, <4>1, <4>3, <5>1, <5>4
        <4> QED BY <4>1, <4>2, <4>3, StillQueued
      <3>7. CASE Ends(c)
        BY <1>3, <3>7, ProcessedEnds
      <3> QED BY <3>2, <3>5, <3>6, <3>7
    <2> QED BY <1>3, <2>1, <2>2, ActiveBefore
  <1> QED BY <1>1, <1>3 DEF DurableIsTried, Started, Running, IsActive

\* The timers follow the commands.
LEMMA ProcessedTimers ==
  ASSUME NEW e, NEW rest, NEW p, NEW cmds, NEW durability, Processing(e, rest, p, cmds, durability)
  PROVE  TimersAreDeadlines' /\ TimersAreSet'
  <1>1. /\ TimersAreDeadlines /\ TimersAreSet /\ Attended(e, p.accepted, cmds, rest)
        /\ Becomes(e, p, cmds, durability) /\ Turned(e, p, cmds, durability) /\ Applied(e, p)
        /\ room'.cmds = cmds /\ process' = process /\ boot' = boot /\ cmds \in [Command -> Records]
    BY DEF Processing, Processed, Tended, Becomes, Moved, Lists
  <1>2. ASSUME NEW c \in Command, control'.timeoutAt[c] # NoTime
        PROVE  cmds[c].status = "pending" /\ control'.timeoutAt[c] = cmds[c].deadline
    <2>1. CASE /\ control'.timeoutAt[c] = control.timeoutAt[c]
               /\ (p.accepted /\ IsActive(room.cmds, c) => IsActive(cmds, c))
      <3>1. room.cmds[c].status = "pending" /\ control.timeoutAt[c] = room.cmds[c].deadline
        BY <1>1, <1>2, <2>1 DEF TimersAreDeadlines
      <3>2. IsActive(cmds, c)
        <4>1. ~p.accepted => cmds[c].status = room.cmds[c].status
          BY <1>1 DEF Applied, Becomes
        <4> QED BY <2>1, <3>1, <4>1 DEF IsActive, ActiveStatus
      <3> QED BY <2>1, <3>1, <3>2, ActiveBefore
    <2>2. CASE cmds[c].status = "pending" /\ control'.timeoutAt[c] = cmds[c].deadline
      BY <2>2
    <2> QED BY <1>1, <1>2, <2>1, <2>2 DEF Attended
  <1>3. ASSUME Started, NEW c \in Command, cmds[c].status = "pending", ~Orphaned(c)'
        PROVE  control'.timeoutAt[c] = cmds[c].deadline \/ Ends(c)'
    <2>1. IsActive(cmds, c)
      BY <1>3 DEF IsActive, ActiveStatus
    <2>2. IsActive(room.cmds, c) /\ cmds[c].admitted = room.cmds[c].admitted
      BY <1>3, <2>1, ActiveBefore
    <2>3. ~(p.accepted /\ e.kind = "requested" /\ c = e.cmd)
      BY <1>1, <1>3 DEF Processing, Effect, Becomes
    <2>4. control'.work[c] = control.work[c]
      BY <1>1, <2>1, <2>3 DEF Attended
    <2>5. ~Orphaned(c)
      BY <1>1, <1>3, <2>1, <2>2, <2>4 DEF Orphaned, IsActive
    <2>6. CASE room.cmds[c].status = "pending"
      <3>1. control.timeoutAt[c] = room.cmds[c].deadline \/ Ends(c)
        BY <1>1, <1>3, <2>5, <2>6 DEF TimersAreSet
      <3>2. cmds[c].deadline = room.cmds[c].deadline
        BY <2>1, <2>6, ActiveBefore
      <3>3. control'.timeoutAt[c] = control.timeoutAt[c] \/ control'.timeoutAt[c] = cmds[c].deadline
        BY <1>1, <2>1 DEF Attended
      <3>4. Ends(c) => Ends(c)'
        BY <2>1, ProcessedEnds
      <3> QED BY <3>1, <3>2, <3>3, <3>4
    <2>7. CASE room.cmds[c].status # "pending"
      <3>1. p.accepted /\ c = e.cmd /\ IsLifecycle(e)
        BY <1>1, <1>3, <2>7 DEF Turned, IsLifecycle
      <3>2. control.timeoutAt[c] = NoTime
        BY <1>1, <2>7 DEF TimersAreDeadlines
      <3>3. control'.timeoutAt[c] = cmds[c].deadline \/ TimedOut(c, cmds[c].deadline) \in ToSet(inputs')
        BY <1>1, <1>3, <3>1, <3>2 DEF Attended
      <3>4. TimedOut(c, cmds[c].deadline) \in ToSet(inputs') => Ends(c)'
        <4> PICK x : x = TimedOut(c, cmds[c].deadline)
          OBVIOUS
        <4>1. x.kind = "timed_out" /\ x.cmd = c /\ x.at = cmds[c].deadline /\ cmds[c].deadline \in Nat
          BY <1>1 DEF TimedOut, Input, Records
        <4>2. x.at >= cmds[c].deadline
          BY <4>1
        <4> QED BY <1>1, <1>3, <4>1, <4>2 DEF Ends
      <3> QED BY <3>3, <3>4
    <2> QED BY <2>6, <2>7
  <1> QED BY <1>1, <1>2, <1>3 DEF TimersAreDeadlines, TimersAreSet, Started, Running

\* Startup goes on as it should.
LEMMA ProcessedStartup ==
  ASSUME NEW e, NEW rest, NEW p, NEW cmds, NEW durability, Processing(e, rest, p, cmds, durability)
  PROVE  NoneOverdue' /\ ClosingFails'
  <1>1. /\ Types /\ InputsAreOpen /\ NoneOverdue /\ ClosingFails /\ Running /\ inputs # <<>> /\ IsEvent(Head(inputs))
        /\ Becomes(e, p, cmds, durability) /\ Moved(e, cmds) /\ Turned(e, p, cmds, durability)
        /\ Turns(e, p) /\ Effect(e, p) /\ Attended(e, p.accepted, cmds, rest)
        /\ room'.cmds = cmds /\ now' = now /\ process' = process /\ boot' = boot
    BY DEF Processing, Processed, IInv, Tended, Becomes
  <1>2. \/ /\ e = Head(inputs) /\ rest = Tail(inputs) /\ ToSet(inputs) = {e} \cup ToSet(rest)
           /\ e.kind = "report" => Expired(room.cmds, Command) = {}
        \/ /\ rest = inputs /\ Head(inputs).kind = "report" /\ e.kind = "timed_out" /\ e.cmd \in Command
           /\ room.cmds[e.cmd].status = "pending" /\ e.at = room.cmds[e.cmd].deadline
    BY <1>1, CurrentQueued DEF Processing
  <1>3. ASSUME boot = "resume" PROVE NoneOverdue'
    <2>1. PICK x \in Inputs : inputs = <<x>> /\ x.kind = "report"
      BY <1>1, <1>3 DEF NoneOverdue
    <2>2. Head(inputs) = x /\ Tail(inputs) = <<>>
      BY <2>1
    <2>3. CASE e = x /\ rest = <<>> /\ Expired(room.cmds, Command) = {}
      <3>1. inputs' = <<>> /\ attempts' = <<>>
        BY <1>1, <2>1, <2>3 DEF Attended, IsLifecycle
      <3>2. ASSUME NEW c \in Expired(room.cmds, Command)' PROVE FALSE
        <4>1. c \in Command /\ cmds[c].status = "pending" /\ cmds[c].deadline <= now
          BY <1>1, <3>2 DEF Expired
        <4>2. cmds[c] = room.cmds[c]
          BY <1>1, <2>1, <2>3, <4>1 DEF Turned
        <4> QED BY <2>3, <4>1, <4>2 DEF Expired
      <3> QED BY <3>1, <3>2 DEF NoneOverdue
    <2>4. CASE rest = inputs /\ e.kind = "timed_out" /\ e.cmd \in Command
               /\ room.cmds[e.cmd].status = "pending" /\ e.at = room.cmds[e.cmd].deadline
      <3>1. p.accepted
        <4>1. room.cmds[e.cmd].deadline \in Nat
          BY <1>1, <2>4 DEF Types, Rooms, Lists, Records
        <4>2. e.at >= room.cmds[e.cmd].deadline
          BY <2>4, <4>1
        <4> QED BY <1>1, <2>4, <4>2 DEF Turns
      <3>2. cmds[e.cmd].status \in {"timed_out", "none"}
        BY <1>1, <2>4, <3>1 DEF Effect, Becomes
      <3>3. inputs' = inputs /\ attempts' = <<>>
        BY <1>1, <2>4, <3>2 DEF Attended
      <3> QED BY <2>1, <3>3 DEF NoneOverdue
    <2> QED BY <1>2, <2>1, <2>2, <2>3, <2>4
  <1>4. ASSUME boot = "closing" PROVE inputs' = rest /\ ToSet(rest) \subseteq ToSet(inputs)
    <2>1. Head(inputs) \in ToSet(inputs)
      <3> PICK s \in Seq(Inputs) : s = inputs
        BY <1>1 DEF Types
      <3>1. 1 \in DOMAIN s /\ Head(s) = s[1]
        BY <1>1
      <3> QED BY <3>1 DEF ToSet
    <2>2. e = Head(inputs) /\ ToSet(rest) \subseteq ToSet(inputs) /\ e.kind = "failed"
      BY <1>1, <1>2, <1>4, <2>1 DEF ClosingFails
    <2>3. p.accepted => cmds[e.cmd].status # "pending"
      <3>1. e.cmd \in Command
        BY <2>2 DEF Processing, OpenInputs, Inputs
      <3> QED BY <1>1, <2>2, <3>1 DEF Effect, Becomes
    <2> QED BY <1>1, <2>2, <2>3 DEF Attended
  <1>5. ClosingFails'
    BY <1>1, <1>4 DEF ClosingFails, Running
  <1> QED BY <1>1, <1>3, <1>5 DEF NoneOverdue

\* A process that ends leaves what is stored, and nothing to do.
LEMMA HaltTends ==
  ASSUME NEW cause, cause # "running", NEW d, Halt(cause, d), StoresOpen(d)
  PROVE  Tended'
  <1>1. /\ disk' = d /\ room' = EmptyRoom /\ control' = EmptyControl /\ inputs' = <<>>
        /\ boot' = "closing" /\ ~Running'
    BY DEF Halt, Running
  <1>2. /\ \A c \in Command : /\ EmptyRoom.cmds[c] = NoRecord /\ NoRecord.status = "none"
                              /\ EmptyControl.work[c] = "none" /\ EmptyControl.timeoutAt[c] = NoTime
    BY DEF EmptyRoom, NoRecord, EmptyControl
  <1>3. ToSet(inputs') = {}
    BY <1>1, NoneQueued
  <1>4. StoresOpen(disk)' /\ RoomIsOpen'
    BY <1>1, <1>2 DEF StoresOpen, RoomIsOpen, Open, MayHandOff
  <1>5. InputsAreOpen' /\ WorkIsAdmitted' /\ VolatileIsTried' /\ TimersAreDeadlines'
    BY <1>1, <1>2, <1>3 DEF InputsAreOpen, WorkIsAdmitted, VolatileIsTried, TimersAreDeadlines
  <1>6. DurableIsTried' /\ TimersAreSet' /\ NoneOverdue' /\ ClosingFails'
    BY <1>1, <1>2, <1>3 DEF DurableIsTried, TimersAreSet, NoneOverdue, ClosingFails, Started
  <1> QED BY <1>4, <1>5, <1>6 DEF Tended

\* Processing an event tends to all commands.
LEMMA ProcessEventTends ==
  ASSUME IInv, IInv', Backing, Backing', Tended, ProcessEvent
  PROVE  Tended'
  <1>1. Types /\ Agreement /\ RequestsAreFresh /\ ClosingIsOwn /\ One(room.cmds) /\ Types' /\ Running
    BY DEF IInv, Agreement, ProcessEvent
  <1>2. /\ AllBacked(disk) /\ InputsAreBacked /\ AttemptIsActive
        /\ RoomIsOpen /\ StoresOpen(disk) /\ InputsAreOpen
    BY DEF Backing, Tended
  <1>3. inputs # <<>> /\ IsEvent(Head(inputs))
    BY DEF ProcessEvent
  <1>4. attempts = <<>>
    <2>1. inputs \notin Seq(Closings)
      BY <1>3, SeqOps DEF IsEvent, Closings
    <2> QED BY <1>2, <2>1 DEF AttemptIsActive
  <1> PICK e : e = CurrentEvent.event
    OBVIOUS
  <1> PICK rest : rest = CurrentEvent.rest
    OBVIOUS
  <1> PICK p : p = Prepared(e)
    OBVIOUS
  <1>5. e \in OpenInputs /\ e \in Inputs /\ rest \in Seq(Inputs)
    BY <1>1, <1>2, <1>3, CurrentQueued DEF OpenInputs
  <1>6. IsEvent(e) /\ Proper(e)
    BY <1>1, <1>2, <1>3, CurrentType, CurrentBacked
  <1>7. Applied(e, p) /\ Effect(e, p) /\ Turns(e, p) /\ p.accepted \in BOOLEAN
    BY <1>1, <1>5, <1>6, EventApplied, EventOutcome, EventTurns DEF Applied, Results
  <1>8. ASSUME NEW after \in Rooms, NEW durability, Becomes(e, p, after.cmds, durability),
               Turned(e, p, after.cmds, durability), AfterProcessing(e, p.accepted, after, rest),
               room'.cmds = after.cmds, UNCHANGED <<now, process, boot>>,
               Available' => Available /\ durability = "durable" /\ disk' = DiskAfterCommit(e, p),
               RoomIsOpen', StoresOpen(disk)'
        PROVE  Tended'
    <2>1. One(after.cmds)
      BY <1>1, <1>8, OneMoves DEF Becomes
    <2>2. Attended(e, p.accepted, after.cmds, rest)
      BY <1>1, <1>4, <1>5, <1>7, <1>8, <2>1, AfterProcessingAttends
    <2> PICK cmds : cmds = after.cmds
      OBVIOUS
    <2>3. Processed(e, rest, p, cmds, durability)
      BY <1>8, <2>2 DEF Processed
    <2>4. Processing(e, rest, p, cmds, durability)
      BY <1>1, <1>3, <1>4, <1>5, <1>6, <1>7, <2>3 DEF Processing
    <2>5. InputsAreOpen' /\ WorkIsAdmitted' /\ VolatileIsTried'
      BY <2>4, ProcessedQueue, ProcessedVolatile
    <2>6. DurableIsTried' /\ TimersAreDeadlines' /\ TimersAreSet' /\ NoneOverdue' /\ ClosingFails'
      BY <2>4, ProcessedDurable, ProcessedTimers, ProcessedStartup
    <2> QED BY <1>8, <2>5, <2>6 DEF Tended
  <1>9. ASSUME NEW failures,
               room' = [RoomAfterVolatile(e, p) EXCEPT !.startupFailures = @ \cup failures],
               AfterProcessing(e, p.accepted, RoomAfterVolatile(e, p), rest),
               UNCHANGED <<now, process, boot, led, disk>>, ~Available'
        PROVE  Tended'
    <2>1. PICK after \in Rooms : after = RoomAfterVolatile(e, p)
      BY <1>1, <1>5, <1>7, VolatileMoved
    <2>2. Becomes(e, p, after.cmds, "volatile") /\ Turned(e, p, after.cmds, "volatile")
      BY <1>1, <1>5, <1>7, <2>1, RoomBecomes, RoomTurned
    <2>3. room'.cmds = after.cmds
      BY <1>9, <2>1 DEF Rooms
    <2>4. RoomIsOpen'
      BY <1>2, <1>7, <1>9, <2>2, <2>3, VolatileOpen
    <2>5. StoresOpen(disk)'
      BY <1>2, <1>9 DEF StoresOpen, Open
    <2> QED BY <1>8, <1>9, <2>1, <2>2, <2>3, <2>4, <2>5
  <1>10. Available => StoresOpen(DiskAfterCommit(e, p))
    BY <1>1, <1>2, <1>5, <1>6, <1>7, CommitOpen
  <1>11. ASSUME Available, room' = RoomAfterCommit(e, p), disk' = DiskAfterCommit(e, p),
                AfterProcessing(e, p.accepted, room', rest),
                UNCHANGED <<now, faults, process, boot, storage, led>>
         PROVE  Tended'
    <2>1. PICK after \in Rooms : after = RoomAfterCommit(e, p)
      BY <1>1, <1>5, <1>7, CommitMoved
    <2>2. Becomes(e, p, after.cmds, "durable") /\ Turned(e, p, after.cmds, "durable") /\ room' = after
      BY <1>1, <1>5, <1>7, <1>11, <2>1, RoomBecomes, RoomTurned
    <2>4. StoresOpen(disk)'
      BY <1>10, <1>11 DEF StoresOpen, Open
    <2>5. disk'.cmds = room'.cmds
      BY <1>11 DEF IInv, Agreement, Synced, Running, Available, ProcessEvent
    <2>6. RoomIsOpen'
      BY <2>4, <2>5 DEF StoresOpen, RoomIsOpen, Open
    <2>7. Available' => Available
      BY <1>11
    <2> QED BY <1>8, <1>11, <2>1, <2>2, <2>4, <2>6, <2>7
  <1>12. ASSUME Available, Indeterminate({disk, DiskAfterCommit(e, p)})
         PROVE  Tended'
    <2>1. PICK d \in {disk, DiskAfterCommit(e, p)} : Halt("fatal", d)
      BY <1>12 DEF Indeterminate
    <2>2. StoresOpen(d)
      BY <1>2, <1>10, <1>12
    <2> QED BY <2>1, <2>2, HaltTends
  <1> PICK unstored : unstored = (IF boot = "closing" THEN {e.cmd} ELSE {})
    OBVIOUS
  <1>13. \/ /\ ~Available /\ storage' = storage
            /\ room' = [RoomAfterVolatile(e, p) EXCEPT !.startupFailures = @ \cup unstored]
            /\ AfterProcessing(e, p.accepted, RoomAfterVolatile(e, p), rest)
            /\ UNCHANGED <<now, process, boot, led, disk>>
         \/ /\ Available
            /\ room' = RoomAfterCommit(e, p) /\ disk' = DiskAfterCommit(e, p)
            /\ AfterProcessing(e, p.accepted, room', rest)
            /\ UNCHANGED <<now, faults, process, boot, storage, led>>
         \/ /\ storage' = "degraded"
            /\ room' = [RoomAfterVolatile(e, p) EXCEPT !.startupFailures = @ \cup unstored]
            /\ AfterProcessing(e, p.accepted, RoomAfterVolatile(e, p), rest)
            /\ UNCHANGED <<now, process, boot, led, disk>>
         \/ Available /\ Indeterminate({disk, DiskAfterCommit(e, p)})
    BY DEF ProcessEvent, EnterDegraded
  <1> DEFINE Stays == /\ room' = [RoomAfterVolatile(e, p) EXCEPT !.startupFailures = @ \cup unstored]
                      /\ AfterProcessing(e, p.accepted, RoomAfterVolatile(e, p), rest)
                      /\ UNCHANGED <<now, process, boot, led, disk>>
  <1>14. CASE Stays /\ (storage' = "degraded" \/ (~Available /\ storage' = storage))
    <2>1. ~Available'
      BY <1>14 DEF Available
    <2> QED BY <1>9, <1>14, <2>1
  <1>15. \/ Stays /\ (storage' = "degraded" \/ (~Available /\ storage' = storage))
         \/ /\ Available
            /\ room' = RoomAfterCommit(e, p) /\ disk' = DiskAfterCommit(e, p)
            /\ AfterProcessing(e, p.accepted, room', rest)
            /\ UNCHANGED <<now, faults, process, boot, storage, led>>
         \/ Available /\ Indeterminate({disk, DiskAfterCommit(e, p)})
    BY <1>13
  <1> HIDE DEF Stays
  <1> QED BY <1>11, <1>12, <1>14, <1>15

-----------------------------------------------------------------------------
(* The steps that leave the commands alone *)

\* What such a step leaves alone.
Leaves ==
  /\ Running /\ Running' /\ room' = room /\ disk'.cmds = disk.cmds /\ control'.work = control.work
  /\ \A c \in Command : IsActive(room.cmds, c) \/ IsActive(disk.cmds, c) => disk'.outbox[c] = disk.outbox[c]
  /\ Available' => Available
  /\ boot' = "done" => boot = "done"
  /\ boot' # "closing"

\* What is queued and attempted goes on, and the timers stay, or are set, or fire.
GoesOn ==
  /\ \A e \in ToSet(inputs) : e.kind \in {"dispatched", "timed_out"} => e \in ToSet(inputs')
  /\ \A c \in Command : attempts = <<c>> /\ control.work[c] # "none" /\ IsActive(room.cmds, c) =>
       OnItsWay(c)' \/ Ends(c)' \/ (room.cmds[c].admitted = "durable" /\ ~Available')
  /\ \A c \in Command :
       \/ control'.timeoutAt[c] = control.timeoutAt[c]
       \/ room.cmds[c].status = "pending" /\ control'.timeoutAt[c] = room.cmds[c].deadline
       \/ control'.timeoutAt[c] = NoTime /\ Ends(c)'

LEMMA QuietTends ==
  ASSUME Tended, Leaves, GoesOn, InputsAreOpen', NoneOverdue'
  PROVE  Tended'
  <1>1. /\ RoomIsOpen /\ StoresOpen(disk) /\ WorkIsAdmitted /\ VolatileIsTried /\ DurableIsTried
        /\ TimersAreDeadlines /\ TimersAreSet /\ ClosingFails
    BY DEF Tended
  <1>2. /\ room' = room /\ disk'.cmds = disk.cmds /\ control'.work = control.work /\ Running /\ Running'
        /\ \A c \in Command : IsActive(room.cmds, c) \/ IsActive(disk.cmds, c) =>
                                disk'.outbox[c] = disk.outbox[c]
        /\ (Available' => Available) /\ (Started' => Started)
    BY DEF Leaves, Started
  <1>3. RoomIsOpen' /\ StoresOpen(disk)'
    <2>1. ASSUME NEW c \in Command
          PROVE  /\ Open(room.cmds, disk'.outbox, c) /\ Open(disk.cmds, disk'.outbox, c)
                 /\ disk.cmds[c].status = "accepted" => disk.cmds[c].admitted = "durable"
      BY <1>1, <1>2 DEF RoomIsOpen, StoresOpen, Open, IsActive, ActiveStatus
    <2> QED BY <1>2, <2>1 DEF RoomIsOpen, StoresOpen, Open
  <1>4. WorkIsAdmitted' /\ ClosingFails'
    BY <1>1, <1>2 DEF WorkIsAdmitted, IsVolatile, ClosingFails, Leaves, IsActive
  <1>5. ASSUME NEW c \in Command, OnItsWay(c), IsActive(room.cmds, c)
        PROVE  OnItsWay(c)' \/ Ends(c)' \/ (room.cmds[c].admitted = "durable" /\ ~Available')
    <2>1. CASE attempts = <<c>> /\ control.work[c] # "none"
      BY <1>5, <2>1 DEF GoesOn
    <2>2. CASE \E e \in ToSet(inputs) :
                 e.kind = "dispatched" /\ e.cmd = c /\ e.at >= room.cmds[c].requestedAt
      BY <1>2, <2>2 DEF GoesOn, OnItsWay
    <2> QED BY <1>5, <2>1, <2>2 DEF OnItsWay
  <1>6. ASSUME NEW c \in Command, Ends(c) PROVE Ends(c)'
    BY <1>2, <1>6 DEF GoesOn, Ends
  <1>7. VolatileIsTried'
    <2>1. ASSUME NEW c \in Command, room.cmds[c].status = "accepted", IsVolatile(c)
          PROVE  ~Available' /\ OnItsWay(c)'
      <3>1. ~Available /\ OnItsWay(c) /\ IsActive(room.cmds, c)
        BY <1>1, <2>1 DEF VolatileIsTried, IsActive, ActiveStatus
      <3>2. ~Ends(c)' /\ room.cmds[c].admitted = "volatile"
        BY <1>2, <2>1 DEF Ends, IsVolatile
      <3> QED BY <1>2, <1>5, <3>1, <3>2
    <2> QED BY <1>2, <2>1 DEF VolatileIsTried, IsVolatile
  <1>8. DurableIsTried'
    <2>1. ASSUME Started', Available', NEW c \in Command, IsActive(room.cmds, c), room.cmds[c].admitted = "durable"
          PROVE  disk'.outbox[c] = "delivered" \/ OnItsWay(c)' \/ Ends(c)'
      <3>1. disk.outbox[c] = "delivered" \/ OnItsWay(c) \/ Ends(c)
        BY <1>1, <1>2, <2>1 DEF DurableIsTried
      <3> QED BY <1>2, <1>5, <1>6, <2>1, <3>1
    <2> QED BY <1>2, <2>1 DEF DurableIsTried, IsActive
  <1>9. TimersAreDeadlines'
    BY <1>1, <1>2 DEF TimersAreDeadlines, GoesOn
  <1>10. TimersAreSet'
    <2>1. ASSUME Started', NEW c \in Command, room.cmds[c].status = "pending", ~Orphaned(c)
          PROVE  control'.timeoutAt[c] = room.cmds[c].deadline \/ Ends(c)'
      <3>1. control.timeoutAt[c] = room.cmds[c].deadline \/ Ends(c)
        BY <1>1, <1>2, <2>1 DEF TimersAreSet
      <3> QED BY <1>6, <2>1, <3>1 DEF GoesOn
    <2> QED BY <1>2, <2>1 DEF TimersAreSet, Orphaned, IsActive
  <1> QED BY <1>3, <1>4, <1>7, <1>8, <1>9, <1>10 DEF Tended

\* What is queued last.
LEMMA AppendOpen ==
  ASSUME Types, InputsAreOpen, room' = room, Available' => Available, NEW s \in Seq(Inputs),
         inputs' = inputs \o s, \A e \in ToSet(s) : e \in OpenInputs'
  PROVE  InputsAreOpen' /\ ToSet(inputs') = ToSet(inputs) \cup ToSet(s)
  <1>1. inputs \in Seq(Inputs)
    BY DEF Types
  <1>2. ToSet(inputs \o s) = ToSet(inputs) \cup ToSet(s)
    BY <1>1, Joined
  <1>3. OpenInputs \subseteq OpenInputs'
    BY DEF OpenInputs, IsVolatile
  <1> QED BY <1>2, <1>3 DEF InputsAreOpen

\* An input that is neither an uncertain delivery nor a bare handoff may always be queued.
LEMMA PlainOpen ==
  ASSUME NEW e \in Inputs, e.kind \notin {"uncertain", "mark_uncertain"}, e.kind = "dispatched" => e.durable
  PROVE  e \in OpenInputs /\ e \in OpenInputs'
  BY DEF OpenInputs

\* A bare outbox mutation says nothing new of an active command.
LEMMA PersistTends ==
  ASSUME IInv, IInv', Backing, Tended, PersistOutboxMutation
  PROVE  Tended'
  <1>1. Types /\ Agreement /\ Running /\ inputs # <<>> /\ ~IsEvent(Head(inputs)) /\ inputs \in Seq(Inputs)
    BY DEF IInv, PersistOutboxMutation, Types
  <1>2. /\ StoresOpen(disk) /\ InputsAreOpen /\ NoneOverdue /\ ClosingFails /\ InputsAreBacked
    BY DEF Backing, Tended
  <1> PICK m : m = Head(inputs)
    OBVIOUS
  <1>3. m \in BackedInputs
    <2>1. inputs \in Seq(BackedInputs)
      BY <1>1, <1>2 DEF InputsAreBacked, RequestKinds, IsEvent
    <2> QED BY <1>1, <2>1, SeqOps
  <1>4. m \in Inputs /\ m.cmd \in Command /\ m.kind \in {"mark_uncertain", "close"}
    BY <1>1, <1>3 DEF BackedInputs, Plain, Inputs, IsEvent
  <1>5. m.kind = "close" => ~IsActive(room.cmds, m.cmd)
    BY <1>3 DEF BackedInputs
  <1>6. ToSet(inputs) = {m} \cup ToSet(Tail(inputs)) /\ Tail(inputs) \in Seq(Inputs)
    BY <1>1, <1>4, SeqOps, Queued
  <1>7. m.kind = "mark_uncertain" => ~Available
    BY <1>2, <1>6 DEF InputsAreOpen, OpenInputs
  <1>8. boot \notin {"closing", "resume"}
    <2>1. boot # "closing"
      BY <1>2, <1>4, <1>6 DEF ClosingFails
    <2>2. ASSUME boot = "resume" PROVE FALSE
      <3>1. PICK e \in Inputs : inputs = <<e>> /\ e.kind = "report"
        BY <1>1, <1>2, <2>2 DEF NoneOverdue
      <3>2. m = e
        BY <3>1
      <3> QED BY <1>4, <3>1, <3>2
    <2> QED BY <2>1, <2>2
  <1> DEFINE outbox == IF m.kind = "close" THEN Closed(disk.outbox, {m.cmd})
                       ELSE [disk.outbox EXCEPT ![m.cmd] = "uncertain"]
             stored == [disk EXCEPT !.cmds = room.cmds, !.obs = room.obs, !.guards = room.guards,
                                    !.outbox = outbox]
             Dequeue == /\ inputs' = Tail(inputs)
                        /\ UNCHANGED <<now, process, boot, room, control, attempts, led>>
  <1>9. Available => /\ stored.cmds = disk.cmds /\ room.cmds = disk.cmds
                     /\ \A c \in Command : IsActive(room.cmds, c) => stored.outbox[c] = disk.outbox[c]
    <2> HAVE Available
    <2>1. stored.cmds = room.cmds /\ stored.outbox = outbox /\ room.cmds = disk.cmds
      BY <1>1 DEF Types, Disks, Agreement, Synced
    <2>2. ASSUME NEW c \in Command, IsActive(room.cmds, c) PROVE outbox[c] = disk.outbox[c]
      <3>1. m.kind = "close" /\ c # m.cmd
        BY <1>4, <1>5, <1>7, <2>2
      <3> QED BY <3>1 DEF Closed
    <2> QED BY <2>1, <2>2
  <1> HIDE DEF outbox
  <1>10. \/ Dequeue /\ disk' = disk /\ (Available' => Available)
         \/ Available /\ Dequeue /\ disk' = stored
         \/ Available /\ Indeterminate({disk, stored})
    BY DEF PersistOutboxMutation, outbox, Available, EnterDegraded
  <1> HIDE DEF stored
  <1>11. CASE Dequeue /\ (Available' => Available) /\ (disk' = disk \/ (Available /\ disk' = stored))
    <2>1. Leaves
      BY <1>1, <1>8, <1>9, <1>11 DEF Leaves, Running
    <2>2. GoesOn
      <3>1. \A e \in ToSet(inputs) : e.kind \in {"dispatched", "timed_out"} => e \in ToSet(inputs')
        BY <1>4, <1>6, <1>11
      <3>2. \A c \in Command : attempts = <<c>> /\ control.work[c] # "none" => OnItsWay(c)'
        BY <1>11 DEF OnItsWay
      <3> QED BY <1>11, <3>1, <3>2 DEF GoesOn
    <2>3. InputsAreOpen'
      <3>1. OpenInputs \subseteq OpenInputs'
        BY <1>11 DEF OpenInputs, IsVolatile
      <3> QED BY <1>2, <1>6, <1>11, <3>1 DEF InputsAreOpen
    <2>4. NoneOverdue'
      BY <1>8, <1>11 DEF NoneOverdue
    <2> QED BY <2>1, <2>2, <2>3, <2>4, QuietTends
  <1>12. CASE Available /\ Indeterminate({disk, stored})
    <2>1. PICK d \in {disk, stored} : Halt("fatal", d)
      BY <1>12 DEF Indeterminate
    <2>2. StoresOpen(d)
      BY <1>2, <1>9, <1>12 DEF StoresOpen, Open, IsActive, ActiveStatus
    <2> QED BY <2>1, <2>2, HaltTends
  <1>13. Available /\ Dequeue /\ disk' = stored => (Available' => Available)
    OBVIOUS
  <1> HIDE DEF Dequeue
  <1> QED BY <1>10, <1>11, <1>12, <1>13

-----------------------------------------------------------------------------
(* The LED, and the attempts *)

\* A step in which nothing was queued, and which may be the attempt of a command.
LEMMA IdleTends ==
  ASSUME Tended, inputs = <<>>, boot = "done" \/ (attempts = <<>> /\ boot \notin {"resume", "closing"}),
         Running, Running', boot' = boot, room' = room, disk'.cmds = disk.cmds, disk'.outbox = disk.outbox,
         control'.work = control.work, Available' => Available, InputsAreOpen',
         \A c \in Command : attempts = <<c>> /\ control.work[c] # "none" /\ IsActive(room.cmds, c) =>
           OnItsWay(c)' \/ Ends(c)' \/ (room.cmds[c].admitted = "durable" /\ ~Available'),
         \A c \in Command :
           \/ control'.timeoutAt[c] = control.timeoutAt[c]
           \/ room.cmds[c].status = "pending" /\ control'.timeoutAt[c] = room.cmds[c].deadline
           \/ control'.timeoutAt[c] = NoTime /\ Ends(c)'
  PROVE  Tended'
  <1>1. boot \notin {"resume", "closing"}
    OBVIOUS
  <1>2. Leaves /\ NoneOverdue'
    BY <1>1 DEF Leaves, NoneOverdue
  <1>3. ToSet(inputs) = {}
    BY NoneQueued
  <1>4. GoesOn
    BY <1>3 DEF GoesOn
  <1> QED BY <1>2, <1>4, QuietTends

\* Receipts concern neither the commands nor their intents.
LEMMA ReceiptApart ==
  ASSUME Types, NEW c, NEW r
  PROVE  WithReceipt(c, r).cmds = disk.cmds /\ WithReceipt(c, r).outbox = disk.outbox
  BY DEF WithReceipt, Types, Disks

\* An emitted outcome may always be queued, behind what precedes it.
LEMMA EmitOpen ==
  ASSUME Types, InputsAreOpen, inputs = <<>>, room' = room, Available' => Available,
         NEW c \in Command, NEW r \in Outcomes, NEW before \in Seq(Inputs),
         \A e \in ToSet(before) : e \in OpenInputs', Emit(c, r, before)
  PROVE  InputsAreOpen' /\ ToSet(before) \subseteq ToSet(inputs')
  <1> PICK e : e = Outcome(c, r)
    OBVIOUS
  <1>1. e \in Inputs /\ e.kind \in {"report", "rejection"}
    <2>1. r.kind \in {"report", "rejection"} /\ r.power \in Power /\ r.due \in Nat
      BY DEF Outcomes
    <2>2. e \in Plain
      BY <2>1, PlainType DEF Outcome, InputKinds, RequestKinds
    <2> QED BY <2>1, <2>2 DEF Outcome, Input, Plain
  <1>2. e \in OpenInputs'
    BY <1>1, PlainOpen
  <1> PICK t : t = before \o <<e>>
    OBVIOUS
  <1>3. t \in Seq(Inputs) /\ ToSet(t) = ToSet(before) \cup {e}
    <2> PICK one : one = <<e>>
      OBVIOUS
    <2>1. one \in Seq(Inputs) /\ ToSet(one) = {e}
      BY <1>1, SeqOne DEF ToSet
    <2>2. ToSet(before \o one) = ToSet(before) \cup ToSet(one)
      <3>1. before \in Seq(Inputs) /\ one \in Seq(Inputs)
        BY <2>1
      <3> QED BY ONLY <3>1, Joined
    <2>3. before \o one \in Seq(Inputs)
      BY <2>1
    <2> QED BY <2>1, <2>2, <2>3
  <1>4. inputs' = inputs \o t
    BY <1>1 DEF Emit
  <1>5. \A x \in ToSet(t) : x \in OpenInputs'
    BY <1>2, <1>3
  <1>6. InputsAreOpen' /\ ToSet(inputs') = ToSet(inputs) \cup ToSet(t)
    BY <1>3, <1>4, <1>5, AppendOpen
  <1> QED BY <1>3, <1>6

\* The process ends in a transaction of the LED.
LEMMA ReceiptHaltTends ==
  ASSUME Types, Tended, NEW c, NEW r, NEW cause, cause # "running",
         NEW d \in {disk, WithReceipt(c, r), WithReceipt(c, Marked(r))}, Halt(cause, d)
  PROVE  Tended'
  <1>1. d.cmds = disk.cmds /\ d.outbox = disk.outbox
    BY ReceiptApart
  <1>2. StoresOpen(d)
    BY <1>1 DEF Tended, StoresOpen
  <1> QED BY <1>2, HaltTends

\* Delivering an outcome, from a timer or at startup.
LEMMA DeliverTends ==
  ASSUME Types, Tended, Running, inputs = <<>>, attempts = <<>>, boot \notin {"resume", "closing"},
         NEW c \in Command, NEW r \in Outcomes, NEW durable, DeliverOutcome(c, r, durable)
  PROVE  Tended'
  <1>1. ASSUME Emit(c, r, <<>>), UNCHANGED <<process, boot, room, control>>, Available' => Available,
               disk'.cmds = disk.cmds, disk'.outbox = disk.outbox
        PROVE  Tended'
    <2>1. InputsAreOpen'
      BY <1>1, NoneQueued, EmitOpen, NoInputs DEF Tended
    <2> QED BY <1>1, <2>1, IdleTends DEF Running
  <1>2. CASE Emit(c, r, <<>>) /\ UNCHANGED <<process, boot, storage, room, control, disk>>
    BY <1>1, <1>2 DEF Available
  <1>3. CASE MarkTerminalAndEmit(c, r, disk, <<>>) /\ UNCHANGED <<control, attempts>> /\ Available
    <2>1. Emit(c, r, <<>>) /\ UNCHANGED <<process, boot, room>> /\ disk' \in {disk, WithReceipt(c, Marked(r))}
      BY <1>3 DEF MarkTerminalAndEmit
    <2>2. disk'.cmds = disk.cmds /\ disk'.outbox = disk.outbox
      BY <2>1, ReceiptApart
    <2> QED BY <1>1, <1>3, <2>1, <2>2
  <1>4. CASE Indeterminate({disk, WithReceipt(c, Marked(r))})
    <2>1. PICK d \in {disk, WithReceipt(c, Marked(r))} : Halt("fatal", d)
      BY <1>4 DEF Indeterminate
    <2> QED BY <2>1, ReceiptHaltTends
  <1>5. CASE Halt("uncaught", disk)
    BY <1>5, ReceiptHaltTends
  <1> QED BY <1>2, <1>3, <1>4, <1>5 DEF DeliverOutcome

\* The LED accepts a command: the handoff is queued.
LEMMA HandedOffTends ==
  ASSUME Types, Tended, Running, inputs = <<>>, boot = "done", NEW c \in Command,
         attempts = <<>> \/ attempts = <<c>>, NEW r \in RealReceipts, NEW durable \in BOOLEAN,
         r.acceptedAt >= room.cmds[c].requestedAt,
         durable \/ IsVolatile(c), durable => Available,
         NEW d, d = IF durable THEN WithReceipt(c, r) ELSE disk, HandedOff(c, r, durable, d),
         control'.work = control.work,
         \A x \in Command :
           \/ control'.timeoutAt[x] = control.timeoutAt[x]
           \/ room.cmds[x].status = "pending" /\ control'.timeoutAt[x] = room.cmds[x].deadline
  PROVE  Tended'
  <1> DEFINE idlePlan == NothingToSchedule(c, r)
  <1> PICK handoff : handoff = Input("dispatched", c, r.power, r.acceptedAt, durable)
    OBVIOUS
  <1>1. /\ handoff \in Inputs /\ handoff.kind = "dispatched" /\ handoff.cmd = c /\ handoff.durable = durable
        /\ handoff.at = r.acceptedAt
    <2>1. r.power \in Power /\ r.acceptedAt \in Nat
      BY DEF RealReceipts
    <2>2. handoff \in Plain
      BY <2>1, PlainType DEF InputKinds, RequestKinds
    <2> QED BY <2>2 DEF Input, Plain
  <1>2. <<handoff>> \in Seq(Inputs) /\ ToSet(<<handoff>>) = {handoff}
    BY <1>1, SeqOne DEF ToSet
  <1>3. ~idlePlan => r \in Outcomes
    BY OutcomeReceipt DEF NothingToSchedule
  <1>4. room' = room => handoff \in OpenInputs'
    BY <1>1 DEF OpenInputs, IsVolatile
  <1>5. d.cmds = disk.cmds /\ d.outbox = disk.outbox
    BY ReceiptApart
  <1>6. ASSUME UNCHANGED <<process, boot, room>>, Available' => Available, disk'.cmds = disk.cmds,
               disk'.outbox = disk.outbox, InputsAreOpen', handoff \in ToSet(inputs')
        PROVE  Tended'
    <2>1. OnItsWay(c)'
      BY <1>1, <1>6 DEF OnItsWay
    <2>2. \A x \in Command : attempts = <<x>> => x = c
      OBVIOUS
    <2> QED BY <1>6, <2>1, <2>2, IdleTends DEF Running
  <1>7. ASSUME disk' = d, inputs' = inputs \o <<handoff>>,
               UNCHANGED <<process, boot, storage, room>>
        PROVE  Tended'
    <2>1. InputsAreOpen' /\ handoff \in ToSet(inputs')
      BY <1>2, <1>4, <1>7, AppendOpen DEF Tended, Available
    <2> QED BY <1>5, <1>6, <1>7, <2>1 DEF Available
  <1>8. ASSUME ~idlePlan, Emit(c, r, <<handoff>>), UNCHANGED <<process, boot, room>>, Available' => Available,
               disk'.cmds = disk.cmds, disk'.outbox = disk.outbox
        PROVE  Tended'
    <2>1. InputsAreOpen' /\ handoff \in ToSet(inputs')
      BY <1>2, <1>3, <1>4, <1>8, EmitOpen DEF Tended
    <2> QED BY <1>6, <1>8, <2>1
  <1>9. ASSUME ~idlePlan, durable, MarkTerminalAndEmit(c, r, d, <<handoff>>)
        PROVE  Tended'
    <2>1. /\ Emit(c, r, <<handoff>>) /\ UNCHANGED <<process, boot, room>>
          /\ disk' \in {d, WithReceipt(c, Marked(r))}
      BY <1>9 DEF MarkTerminalAndEmit
    <2>2. disk'.cmds = disk.cmds /\ disk'.outbox = disk.outbox
      BY <1>5, <2>1, ReceiptApart
    <2> QED BY <1>8, <1>9, <2>1, <2>2
  <1>10. ASSUME ~idlePlan, Emit(c, r, <<handoff>>), disk' = d, UNCHANGED <<process, boot, storage, room>>
         PROVE  Tended'
    BY <1>5, <1>8, <1>10 DEF Available
  <1> HIDE DEF idlePlan
  <1> QED BY <1>7, <1>9, <1>10 DEF HandedOff, idlePlan

\* Queueing one input at the end of an attempt.
LEMMA AttemptQueues ==
  ASSUME Types, Tended, Running, inputs = <<>>, boot = "done", NEW c \in Command,
         attempts = <<>> \/ attempts = <<c>>, NEW e \in Inputs, e \in OpenInputs', inputs' = Append(inputs, e),
         UNCHANGED <<process, boot, room, disk>>, Available' => Available, control'.work = control.work,
         \A x \in Command :
           \/ control'.timeoutAt[x] = control.timeoutAt[x]
           \/ room.cmds[x].status = "pending" /\ control'.timeoutAt[x] = room.cmds[x].deadline,
         e \in ToSet(inputs') => Ends(c)' \/ (room.cmds[c].admitted = "durable" /\ ~Available')
  PROVE  Tended'
  <1>1. <<e>> \in Seq(Inputs) /\ ToSet(<<e>>) = {e} /\ inputs' = inputs \o <<e>>
    BY SeqOne DEF ToSet
  <1>2. InputsAreOpen' /\ e \in ToSet(inputs')
    BY <1>1, AppendOpen DEF Tended
  <1>3. \A x \in Command : attempts = <<x>> => x = c
    OBVIOUS
  <1> QED BY <1>2, <1>3, IdleTends DEF Running

\* An attempt to dispatch the active command, whatever becomes of it.
LEMMA AttemptTends ==
  ASSUME Types, Agreement, Backing, Tended, Running, inputs = <<>>, boot = "done",
         NEW c \in Command, attempts = <<>> \/ attempts = <<c>>, NEW ctl \in Controls,
         ctl.work = control.work, ctl.timeoutAt = control.timeoutAt, Attempt(c, ctl),
         IsActive(room.cmds, c), InTime
  PROVE  Tended'
  <1> DEFINE scheduled == ScheduleTimeouts(ctl, room.cmds, {c})
             MayAttempt == ctl.work[c] = "volatile" \/ (ctl.work[c] = "durable" /\ Available)
             overdue == Expired(room.cmds, {c}) # {}
  <1>1. /\ scheduled \in Controls /\ scheduled.work = control.work
        /\ \A x \in Command : \/ scheduled.timeoutAt[x] = control.timeoutAt[x]
                              \/ /\ room.cmds[x].status = "pending"
                                 /\ scheduled.timeoutAt[x] = room.cmds[x].deadline
    <2>1. scheduled \in Controls /\ scheduled.work = control.work
      BY ScheduleType DEF Types, Rooms, Lists
    <2>2. \A x \in Command : scheduled.timeoutAt[x] =
            IF /\ x \in {c} /\ room.cmds[x].status = "pending"
               /\ ctl.timeoutAt[x] = NoTime /\ room.cmds[x].deadline > now
            THEN room.cmds[x].deadline ELSE ctl.timeoutAt[x]
      BY DEF ScheduleTimeouts, Controls
    <2> HIDE DEF scheduled
    <2> QED BY <2>1, <2>2
  <1>2. control.work[c] \in {"none", "durable", "volatile"}
    BY DEF Types, Controls, Durability
  <1>3. control.work[c] = "durable" => room.cmds[c].admitted = "durable"
    <2> HAVE control.work[c] = "durable"
    <2>1. disk.outbox[c] # "none"
      BY DEF Backing, WorkIsBacked
    <2>2. room.cmds[c].status # "none"
      BY DEF IsActive, ActiveStatus
    <2>3. disk.cmds[c].status # "none" /\ room.cmds[c].admitted = disk.cmds[c].admitted
      BY <2>1, <2>2 DEF Backing, MemoryIsBacked
    <2> QED BY <2>1, <2>3 DEF Backing, AllBacked, Backed
  <1>3a. /\ \A plan \in Plan : NewReceipt(c, plan).acceptedAt >= room.cmds[c].requestedAt
         /\ disk.receipts[c] # NoReceipt => disk.receipts[c].acceptedAt >= room.cmds[c].requestedAt
    <2>1. /\ room.cmds[c].requestedAt \in Nat /\ now \in Nat /\ disk.receipts[c].acceptedAt \in Nat
          /\ room.cmds[c].status \in ActiveStatus
      BY DEF Types, Rooms, Lists, Records, Disks, RealReceipts, NoReceipt, NoTime, IsActive
    <2>2. Timely(room.cmds[c], c)
      BY DEF InTime
    <2>3. \A plan \in Plan : NewReceipt(c, plan).acceptedAt = now
      BY DEF NewReceipt
    <2> QED BY <2>1, <2>2, <2>3 DEF Timely
  <1> HIDE DEF scheduled
  <1>4. CASE ~MayAttempt /\ control' = ctl /\ UNCHANGED <<process, boot, storage, room, disk, inputs>>
    <2>1. InputsAreOpen'
      BY <1>4, NoneQueued DEF InputsAreOpen
    <2>2. control.work[c] # "none" => room.cmds[c].admitted = "durable" /\ ~Available'
      BY <1>2, <1>3, <1>4 DEF Available
    <2>3. \A x \in Command : attempts = <<x>> => x = c
      OBVIOUS
    <2> QED BY <1>4, <2>1, <2>2, <2>3, IdleTends DEF Running, Available
  <1>5. CASE /\ overdue /\ control' = ctl /\ inputs' = Append(inputs, TimedOut(c, room.cmds[c].deadline))
             /\ UNCHANGED <<process, boot, storage, room, disk>>
    <2> PICK e : e = TimedOut(c, room.cmds[c].deadline)
      OBVIOUS
    <2>1. e \in Inputs /\ e.kind = "timed_out" /\ e.cmd = c /\ e.at = room.cmds[c].deadline
          /\ room.cmds[c].deadline \in Nat
      <3>1. room.cmds[c].deadline \in Nat
        BY DEF Types, Rooms, Lists, Records
      <3>2. e \in Plain
        BY <3>1, TimedOutPlain
      <3> QED BY <3>1, <3>2 DEF TimedOut, Input, Plain
    <2>2. e \in OpenInputs'
      BY <2>1, PlainOpen
    <2>3. room.cmds[c].status = "pending"
      BY <1>5 DEF Expired
    <2>4. e \in ToSet(inputs') => Ends(c)'
      <3>1. e.at >= room.cmds[c].deadline
        BY <2>1
      <3> QED BY <1>5, <2>1, <2>3, <3>1 DEF Ends
    <2>5. inputs' = Append(inputs, e)
      BY <1>5
    <2> HIDE DEF overdue
    <2> QED BY <1>5, <2>1, <2>2, <2>4, <2>5, AttemptQueues DEF Available
  <1>6. CASE MayAttempt /\ ctl.work[c] # "durable" /\ DispatchVolatile(c, scheduled)
    <2>1. PICK plan \in Plan : HandedOff(c, NewReceipt(c, plan), FALSE, disk) /\ control' = scheduled
      BY <1>6 DEF DispatchVolatile
    <2>2. NewReceipt(c, plan) \in RealReceipts
      BY NewReceiptType
    <2>3. IsVolatile(c)
      BY <1>6 DEF Tended, WorkIsAdmitted
    <2> QED BY <1>1, <1>3a, <2>1, <2>2, <2>3, HandedOffTends
  <1>7. CASE MayAttempt /\ ctl.work[c] = "durable" /\ DispatchDurable(c, scheduled)
    <2>1. ASSUME NEW e \in Inputs, e.kind \in {"uncertain", "mark_uncertain", "failed"},
                 inputs' = Append(inputs, e), UNCHANGED <<process, boot, room, disk>>, EnterDegraded,
                 control'.work = control.work, control'.timeoutAt = scheduled.timeoutAt
          PROVE  Tended'
      <3>1. ~Available'
        BY <2>1 DEF EnterDegraded, Available
      <3>2. e \in OpenInputs'
        BY <2>1, <3>1 DEF OpenInputs
      <3>3. room.cmds[c].admitted = "durable"
        BY <1>3, <1>7
      <3> QED BY <1>1, <2>1, <3>1, <3>2, <3>3, AttemptQueues
    <2>2. CASE DeliveryUncertain(c, scheduled)
      <3> PICK kind \in {"uncertain", "mark_uncertain"} :
            kind = IF room.cmds[c].status = "accepted" THEN "uncertain" ELSE "mark_uncertain"
        OBVIOUS
      <3> PICK e : e = Input(kind, c, "off", now, TRUE)
        OBVIOUS
      <3>1. e \in Inputs /\ e.kind \in {"uncertain", "mark_uncertain", "failed"}
        <4>1. e \in Plain
          BY PlainType, NoRecordType DEF InputKinds, RequestKinds, Types
        <4> QED BY <4>1 DEF Input, Plain
      <3>2. /\ EnterDegraded /\ UNCHANGED <<process, boot, room, disk>> /\ inputs' = Append(inputs, e)
            /\ control' = [scheduled EXCEPT !.retryAt[c] = IF @ = NoTime THEN now + RetryDelay ELSE @]
        BY <2>2 DEF DeliveryUncertain
      <3>3. control'.work = control.work /\ control'.timeoutAt = scheduled.timeoutAt
        BY <1>1, <3>2 DEF Controls
      <3> QED BY <2>1, <3>1, <3>2, <3>3
    <2>3. CASE NotHandedOff(c, scheduled)
      <3> PICK e : e = Input("failed", c, "off", now, TRUE)
        OBVIOUS
      <3>1. e \in Inputs /\ e.kind = "failed"
        <4>1. e \in Plain
          BY PlainType, NoRecordType DEF InputKinds, RequestKinds, Types
        <4> QED BY <4>1 DEF Input, Plain
      <3>2. EnterDegraded /\ UNCHANGED <<process, boot, room, disk>> /\ inputs' = Append(inputs, e)
            /\ control' = scheduled
        BY <2>3 DEF NotHandedOff
      <3> QED BY <1>1, <2>1, <3>1, <3>2
    <2> DEFINE found == disk.receipts[c]
               Found == IF found # NoReceipt THEN {found} ELSE {NewReceipt(c, plan) : plan \in Plan}
    <2>4. /\ Found \subseteq RealReceipts
          /\ \A r \in Found : r.acceptedAt >= room.cmds[c].requestedAt
      BY <1>3a, NewReceiptType DEF Types, Disks
    <2>5. \/ \E r \in Found :
               \/ HandedOff(c, r, TRUE, WithReceipt(c, r)) /\ control' = scheduled
               \/ Indeterminate({disk, WithReceipt(c, r)} \cup
                                 IF r.due <= now THEN {WithReceipt(c, Marked(r))} ELSE {})
          \/ DeliveryUncertain(c, scheduled)
          \/ NotHandedOff(c, scheduled)
      BY <1>7 DEF DispatchDurable
    <2> HIDE DEF Found
    <2>6. ASSUME NEW r \in Found, HandedOff(c, r, TRUE, WithReceipt(c, r)), control' = scheduled
          PROVE  Tended'
      BY <1>1, <1>7, <2>4, <2>6, HandedOffTends
    <2>7. ASSUME NEW r \in Found,
                 Indeterminate({disk, WithReceipt(c, r)} \cup
                                IF r.due <= now THEN {WithReceipt(c, Marked(r))} ELSE {})
          PROVE  Tended'
      <3>1. PICK d \in {disk, WithReceipt(c, r), WithReceipt(c, Marked(r))} : Halt("fatal", d)
        BY <2>7 DEF Indeterminate
      <3> QED BY <3>1, ReceiptHaltTends
    <2> QED BY <2>2, <2>3, <2>5, <2>6, <2>7
  <1>8. \/ ~MayAttempt /\ control' = ctl /\ UNCHANGED <<process, boot, storage, room, disk, inputs>>
        \/ /\ overdue /\ control' = ctl /\ inputs' = Append(inputs, TimedOut(c, room.cmds[c].deadline))
           /\ UNCHANGED <<process, boot, storage, room, disk>>
        \/ MayAttempt /\ ctl.work[c] = "durable" /\ DispatchDurable(c, scheduled)
        \/ MayAttempt /\ ctl.work[c] # "durable" /\ DispatchVolatile(c, scheduled)
    BY DEF Attempt, scheduled
  <1> HIDE DEF overdue, MayAttempt
  <1> QED BY <1>4, <1>5, <1>6, <1>7, <1>8

\* The dispatch microtask attempts the active command.
LEMMA RunTends ==
  ASSUME IInv, Backing, InTime, Tended, RunAttempt
  PROVE  Tended'
  <1>1. Types /\ Agreement /\ Running /\ inputs = <<>> /\ attempts # <<>> /\ boot = "done"
    BY DEF IInv, RunAttempt
  <1>2. PICK c \in Command : attempts = <<c>> /\ IsActive(room.cmds, c)
    BY <1>1 DEF Backing, AttemptIsActive
  <1>3. Attempt(c, control) /\ control \in Controls
    BY <1>1, <1>2 DEF RunAttempt, Types
  <1> QED BY <1>1, <1>2, <1>3, AttemptTends

\* The timers of the controller and the LED.
LEMMA TimerTends ==
  ASSUME IInv, Backing, InTime, Tended, NEW c \in Command, RetryFires(c) \/ TimeoutFires(c) \/ LedTimerFires(c)
  PROVE  Tended'
  <1>1. Types /\ Agreement /\ Running /\ inputs = <<>> /\ attempts = <<>> /\ boot = "done"
    BY DEF IInv, RetryFires, TimeoutFires, LedTimerFires, Idle, Quiet
  <1>2. CASE RetryFires(c)
    <2> DEFINE ctl == [control EXCEPT !.retryAt[c] = NoTime]
    <2>1. ctl \in Controls
      BY <1>1, RetryAtType DEF Types, NoTime
    <2>2. ctl.work = control.work /\ ctl.timeoutAt = control.timeoutAt
      BY <1>1 DEF Types, Controls
    <2>3. IsActive(room.cmds, c) /\ Attempt(c, ctl)
      BY <1>2 DEF RetryFires, Backing, WorkIsBacked
    <2> HIDE DEF ctl
    <2> QED BY <1>1, <2>1, <2>2, <2>3, AttemptTends
  <1>3. CASE TimeoutFires(c)
    <2> PICK e : e = TimedOut(c, control.timeoutAt[c])
      OBVIOUS
    <2>1. room.cmds[c].status = "pending" /\ control.timeoutAt[c] = room.cmds[c].deadline
          /\ room.cmds[c].deadline \in Nat
      BY <1>1, <1>3 DEF TimeoutFires, Tended, TimersAreDeadlines, Types, Rooms, Lists, Records
    <2>2. e \in Inputs /\ e.kind = "timed_out" /\ e.cmd = c /\ e.at = room.cmds[c].deadline
      <3>1. e \in Plain
        BY <2>1, TimedOutPlain
      <3> QED BY <2>1, <3>1 DEF TimedOut, Input, Plain
    <2>3. /\ inputs' = <<e>> /\ ToSet(inputs') = {e}
          /\ UNCHANGED <<process, boot, storage, room, attempts, disk>>
      BY <1>3 DEF TimeoutFires, ToSet
    <2>4. InputsAreOpen'
      <3>1. e \in OpenInputs'
        BY <2>2, PlainOpen
      <3> QED BY <2>3, <3>1 DEF InputsAreOpen
    <2>5. Ends(c)'
      <3>1. e.at >= room.cmds[c].deadline
        BY <2>1, <2>2
      <3> QED BY <2>1, <2>2, <2>3, <3>1 DEF Ends
    <2>6. /\ control'.work = control.work
          /\ \A x \in Command : control'.timeoutAt[x] = IF x = c THEN NoTime ELSE control.timeoutAt[x]
      BY <1>1, <1>3 DEF TimeoutFires, Types, Controls
    <2> QED BY <1>1, <2>3, <2>4, <2>5, <2>6, IdleTends DEF Running, Available
  <1>4. CASE LedTimerFires(c)
    <2>1. led.armed[c].receipt \in Outcomes
      BY <1>1, <1>4 DEF LedTimerFires, Types, Leds
    <2>2. DeliverOutcome(c, led.armed[c].receipt, led.armed[c].durable)
      BY <1>4 DEF LedTimerFires
    <2>3. boot \notin {"resume", "closing"}
      BY <1>1
    <2> QED BY <1>1, <2>1, <2>2, <2>3, DeliverTends
  <1> QED BY <1>2, <1>3, <1>4

-----------------------------------------------------------------------------
(* Requests, and the rest of the process *)

\* A request may always be queued.
LEMMA RequestTends ==
  ASSUME IInv, Tended, NEW c \in Command, NEW power \in Power, RequestCommand(c, power) \/ RejectCommand(c, power)
  PROVE  Tended'
  <1>1. Types /\ Running /\ inputs = <<>> /\ attempts = <<>> /\ boot = "done"
    BY DEF IInv, RequestCommand, RejectCommand, Idle, Quiet
  <1>2. PICK kind \in RequestKinds, durable \in BOOLEAN : inputs' = <<Input(kind, c, power, now, durable)>>
    BY DEF RequestCommand, RejectCommand, RequestKinds, Available
  <1>3. UNCHANGED <<now, faults, process, boot, storage, room, control, attempts, led, disk>>
    BY DEF RequestCommand, RejectCommand
  <1> PICK e : e = Input(kind, c, power, now, durable)
    OBVIOUS
  <1>4. e \in Inputs /\ e.kind \in RequestKinds
    BY <1>1 DEF Input, Inputs, InputKinds, RequestKinds, Types
  <1>5. e \in OpenInputs'
    BY <1>4, PlainOpen DEF RequestKinds
  <1>6. InputsAreOpen'
    BY <1>2, <1>5 DEF InputsAreOpen, ToSet
  <1> QED BY <1>1, <1>3, <1>6, IdleTends DEF Running, Available

\* Time passes only when nothing is to be done at once.
LEMMA TickTends ==
  ASSUME Tended, Tick
  PROVE  Tended'
  <1>1. /\ UNCHANGED <<faults, process, boot, storage, room, control, inputs, attempts, led, disk>>
        /\ Running => boot = "done"
    BY DEF Tick, Idle
  <1>2. RoomIsOpen' /\ StoresOpen(disk)' /\ InputsAreOpen' /\ WorkIsAdmitted'
    BY <1>1 DEF Tended, RoomIsOpen, StoresOpen, Open, InputsAreOpen, OpenInputs, WorkIsAdmitted, IsVolatile, Available
  <1>3. \A c \in Command : (OnItsWay(c)' <=> OnItsWay(c)) /\ (Ends(c)' <=> Ends(c)) /\ (Orphaned(c)' <=> Orphaned(c))
    BY <1>1 DEF OnItsWay, Ends, Orphaned, IsActive
  <1>4. VolatileIsTried' /\ DurableIsTried'
    BY <1>1, <1>3 DEF Tended, VolatileIsTried, DurableIsTried, IsVolatile, Available, Started, Running, IsActive
  <1>5. TimersAreDeadlines' /\ TimersAreSet' /\ NoneOverdue' /\ ClosingFails'
    BY <1>1, <1>3 DEF Tended, TimersAreDeadlines, TimersAreSet, NoneOverdue, ClosingFails, Started, Running
  <1> QED BY <1>2, <1>4, <1>5 DEF Tended

\* Other transactions, and crashes.
LEMMA OtherTends ==
  ASSUME IInv, Backing, Tended, OtherTransaction \/ Tick \/ Crash
  PROVE  Tended'
  <1>1. Types /\ Agreement
    BY DEF IInv
  <1>2. CASE OtherTransaction
    <2> DEFINE saved == [disk EXCEPT !.cmds = room.cmds, !.obs = room.obs, !.guards = room.guards]
    <2>1. Running /\ Available /\ inputs = <<>> /\ attempts = <<>> /\ boot = "done"
      BY <1>2 DEF OtherTransaction, Idle, Quiet
    <2>2. saved.cmds = disk.cmds /\ saved.outbox = disk.outbox
      BY <1>1, <2>1 DEF Types, Disks, Agreement, Synced
    <2>3. disk' = saved \/ disk' = disk
      BY <1>2 DEF OtherTransaction
    <2> HIDE DEF saved
    <2>4. disk'.cmds = disk.cmds /\ disk'.outbox = disk.outbox
      BY <2>2, <2>3
    <2>5. UNCHANGED <<now, process, boot, room, control, inputs, attempts, led>>
      BY <1>2 DEF OtherTransaction
    <2>6. InputsAreOpen'
      BY <2>1, <2>5, NoneQueued DEF InputsAreOpen
    <2> QED BY <2>1, <2>4, <2>5, <2>6, IdleTends DEF Running
  <1>3. CASE Tick
    BY <1>3, TickTends
  <1>4. CASE Crash
    BY <1>4, HaltTends DEF Crash, Tended
  <1> QED BY <1>2, <1>3, <1>4

-----------------------------------------------------------------------------
(* Startup *)

\* The receipts are listed.
LEMMA ListTends ==
  ASSUME IInv, Tended, ListReceipts
  PROVE  Tended'
  <1>1. Types /\ Running /\ inputs = <<>> /\ attempts = <<>>
    BY DEF IInv, ListReceipts, Quiet
  <1>2. ASSUME boot' = "sources", UNCHANGED <<now, process, room, control, inputs, attempts, disk>>,
               Available' => Available
        PROVE  Tended'
    <2>1. Leaves
      BY <1>1, <1>2 DEF Leaves, Running
    <2>2. InputsAreOpen' /\ NoneOverdue'
      BY <1>1, <1>2, NoneQueued DEF InputsAreOpen, NoneOverdue
    <2>3. GoesOn
      BY <1>1, <1>2, NoneQueued DEF GoesOn
    <2> QED BY <2>1, <2>2, <2>3, QuietTends
  <1>3. CASE Indeterminate({disk})
    BY <1>3, HaltTends DEF Indeterminate, Tended
  <1> QED BY <1>2, <1>3 DEF ListReceipts, Available, EnterDegraded

\* A plan is restored from its receipt.
LEMMA RestoreTends ==
  ASSUME IInv, Tended, NEW c \in Command, RestorePlan(c)
  PROVE  Tended'
  <1>1. Types /\ Running /\ inputs = <<>> /\ attempts = <<>> /\ boot \notin {"resume", "closing"}
    BY DEF IInv, RestorePlan, Quiet
  <1> DEFINE r == disk.receipts[c]
  <1>2. r.kind # "none" => r \in Outcomes
    <2>1. r # NoReceipt /\ r \in {NoReceipt} \cup RealReceipts
      BY <1>1 DEF RestorePlan, Types, Disks
    <2> QED BY <2>1, OutcomeReceipt
  <1>3. CASE UNCHANGED <<now, faults, process, boot, storage, room, control, inputs, attempts, disk>>
    <2>1. InputsAreOpen'
      BY <1>1, <1>3, NoneQueued DEF InputsAreOpen
    <2> QED BY <1>1, <1>3, <2>1, IdleTends DEF Running, Available
  <1>4. CASE r.kind # "none" /\ DeliverOutcome(c, r, TRUE)
    BY <1>1, <1>2, <1>4, DeliverTends
  <1> HIDE DEF r
  <1> QED BY <1>3, <1>4 DEF RestorePlan, r

\* The LED reports its state.
LEMMA ReportTends ==
  ASSUME IInv, Tended, ReportCurrentState
  PROVE  Tended'
  <1>1. Types /\ Running /\ inputs = <<>> /\ attempts = <<>>
    BY DEF IInv, ReportCurrentState, Quiet
  <1> PICK e : e = Input("report", NoCommand, led.lamp, now, FALSE)
    OBVIOUS
  <1>2. /\ inputs' = <<e>> /\ boot' = "resume"
        /\ UNCHANGED <<now, faults, process, storage, room, control, attempts, led, disk>>
    BY DEF ReportCurrentState
  <1>3. e \in Inputs /\ e.kind = "report"
    BY <1>1 DEF Input, Inputs, InputKinds, Types, Leds
  <1>4. e \in OpenInputs'
    BY <1>3, PlainOpen
  <1>5. InputsAreOpen' /\ NoneOverdue'
    <2>1. ToSet(<<e>>) = {e}
      BY Alone
    <2>2. InputsAreOpen'
      BY <1>2, <1>4, <2>1 DEF InputsAreOpen
    <2>3. NoneOverdue'
      BY <1>1, <1>2, <1>3 DEF NoneOverdue
    <2> QED BY <2>2, <2>3
  <1>6. Leaves
    BY <1>1, <1>2 DEF Leaves, Running, Available
  <1>7. GoesOn
    BY <1>1, <1>2, NoneQueued DEF GoesOn
  <1> QED BY <1>5, <1>6, <1>7, QuietTends

-----------------------------------------------------------------------------
(* Recovery, and the end of startup *)

\* What a store has ready for the room that takes it up, and the timers of that room.
Ready(cmds, ctl) ==
  \A c \in Command :
    /\ Open(cmds, disk.outbox, c)
    /\ cmds[c].status = "accepted" => cmds[c].admitted = "durable"
    /\ ctl.work[c] = "volatile" => IsActive(cmds, c) /\ cmds[c].admitted = "volatile"
    /\ ctl.timeoutAt[c] # NoTime => cmds[c].status = "pending" /\ ctl.timeoutAt[c] = cmds[c].deadline
    /\ cmds[c].status = "pending" /\ ctl.work[c] = "volatile" => ctl.timeoutAt[c] = cmds[c].deadline

\* Reconciling takes up every active command with an intent: it is late, delivered, or
\* attempted again.
LEMMA ReconcileTends ==
  ASSUME Types, AllBacked(disk)', NEW cmds \in [Command -> Records], One(cmds), NEW ctl \in Controls,
         Reconcile(cmds, ctl), Ready(cmds, ctl), room'.cmds = cmds, disk'.cmds = cmds,
         disk'.outbox = disk.outbox, Running', boot' = "done"
  PROVE  Tended'
  <1> DEFINE open == {c \in Command : disk.outbox[c] \notin {"none", "closed"}}
             gone == {c \in open : ~IsActive(cmds, c)}
             postponed == {c \in gone : \E d \in ActiveCommands(cmds) : d # c /\ cmds[d].lifecycle = "volatile"}
             late == Expired(cmds, open)
             delivered == {c \in open \ (gone \cup late) : disk.outbox[c] = "delivered"}
             again == open \ (gone \cup late \cup delivered)
             close == {Input("close", c, "off", now, FALSE) : c \in gone \ postponed}
             scheduled == ScheduleTimeouts(ctl, cmds, delivered \cup again)
  <1>1. open \in SUBSET Command /\ IsFiniteSet(open)
    <2>1. open \in SUBSET Intents(disk)
      BY DEF Intents
    <2> QED BY <2>1, FS_Subset DEF Types, Intents
  <1>2. gone \ postponed \in SUBSET Command /\ IsFiniteSet(gone \ postponed)
    <2>1. gone \ postponed \in SUBSET open
      OBVIOUS
    <2> HIDE DEF open, gone, postponed
    <2> QED BY <1>1, <2>1, FS_Subset
  <1>3. IsFiniteSet(close) /\ close \subseteq Own /\ now \in Nat
    <2>1. now \in Nat
      BY DEF Types
    <2> QED BY <1>2, <2>1, OncePerCommand DEF InputKinds, RequestKinds
  <1>4. \A e \in close : e \in Inputs /\ e.kind = "close"
    <2> SUFFICES ASSUME NEW c \in gone \ postponed, NEW e, e = Input("close", c, "off", now, FALSE)
                 PROVE  e \in Inputs /\ e.kind = "close"
      BY <1>3
    <2>1. e \in close
      OBVIOUS
    <2> QED BY <1>3, <2>1 DEF Own, Plain, Input
  <1>5. late \in SUBSET Command /\ (\A c, d \in late \cup again : c = d)
    <2>1. late \in SUBSET Command /\ again \in SUBSET Command /\ late \cup again \subseteq ActiveCommands(cmds)
      BY DEF Expired, ActiveCommands, IsActive, ActiveStatus
    <2> QED BY <2>1 DEF One
  <1>6. scheduled \in Controls /\ scheduled.work = ctl.work
    BY ScheduleType
  <1>7. \A c \in Command : scheduled.timeoutAt[c] =
          IF /\ c \in delivered \cup again /\ cmds[c].status = "pending"
             /\ ctl.timeoutAt[c] = NoTime /\ cmds[c].deadline > now
          THEN cmds[c].deadline ELSE ctl.timeoutAt[c]
    BY DEF ScheduleTimeouts, Controls
  <1>8. \A c \in late : cmds[c].status = "pending"
    BY DEF Expired
  <1>9. ASSUME NEW c \in open, IsActive(cmds, c)
        PROVE  \/ c \in late
               \/ /\ c \in delivered \cup again
                  /\ cmds[c].status = "pending" => cmds[c].deadline > now
                  /\ c \in delivered => disk.outbox[c] = "delivered"
    <2>1. cmds[c].deadline \in Nat /\ now \in Nat
      BY <1>1 DEF Types, Records
    <2> QED BY <1>9, <2>1 DEF Expired
  <1> HIDE DEF close, late, scheduled
  <1>10. PICK closings \in SetToSeqs(close) : inputs' = TimeoutInputs(cmds, late) \o closings
    BY DEF Reconcile, close, late
  <1> PICK timeouts : timeouts = TimeoutInputs(cmds, late)
    OBVIOUS
  <1>11. closings \in Seq(Inputs) /\ \A e \in ToSet(closings) : e \in Inputs /\ e.kind = "close"
    <2>1. closings \in Seq(close)
      BY <1>3, <1>10, SetToSeqsType
    <2>2. close \subseteq Inputs
      BY <1>4
    <2>3. closings \in Seq(Inputs)
      BY <2>1, <2>2, SeqOfPart
    <2>4. ToSet(closings) \subseteq close
      BY <2>1 DEF ToSet
    <2> QED BY <1>4, <2>3, <2>4
  <1>12. /\ timeouts \in Seq(Inputs)
         /\ ToSet(timeouts) = {TimedOut(c, cmds[c].deadline) : c \in late}
    <2>1. ASSUME NEW c \in late PROVE TimedOut(c, cmds[c].deadline) \in Inputs
      <3>1. TimedOut(c, cmds[c].deadline) \in Plain
        BY <1>5, TimedOutPlain DEF Records
      <3> QED BY <3>1 DEF Plain
    <2> QED BY <1>5, <2>1, TimeoutInputsIn, TimeoutsQueued
  <1>13. ToSet(inputs') = ToSet(timeouts) \cup ToSet(closings)
    <2>1. ToSet(timeouts \o closings) = ToSet(timeouts) \cup ToSet(closings)
      BY ONLY <1>11, <1>12, Joined
    <2> QED BY <1>10, <2>1
  <1>14. attempts' = SetToSeq(again)
    BY SMTT(60) DEF Reconcile, late
  <1> DEFINE work == [c \in Command |-> IF c \in gone \cup delivered THEN "none"
                                        ELSE IF c \in again THEN "durable" ELSE scheduled.work[c]]
  <1>15. control'.work = work /\ control'.timeoutAt = scheduled.timeoutAt
    <2>1. control' = [scheduled EXCEPT !.work = work]
      BY DEF Reconcile, late, scheduled
    <2> QED BY <1>6, <2>1 DEF Controls
  <1>16. ASSUME NEW c \in Command
         PROVE  /\ work[c] = "none" \/ (c \in again /\ work[c] = "durable") \/ work[c] = ctl.work[c]
                /\ c \in again => work[c] = "durable"
                /\ c \notin open => work[c] = ctl.work[c]
    BY <1>6
  <1>17. \A c \in Command : disk.outbox[c] \notin {"none", "closed"} => c \in open
    OBVIOUS
  <1> HIDE DEF open, gone, delivered, again, work
  <1>18. ASSUME NEW c \in late PROVE Ends(c)'
    <2> PICK e : e = TimedOut(c, cmds[c].deadline)
      OBVIOUS
    <2>1. e.kind = "timed_out" /\ e.cmd = c /\ e.at = cmds[c].deadline /\ cmds[c].deadline \in Nat
      BY <1>5 DEF TimedOut, Input, Records
    <2>2. e \in ToSet(inputs')
      BY <1>12, <1>13
    <2>3. e.at >= cmds[c].deadline
      BY <2>1
    <2> QED BY <1>5, <1>8, <2>1, <2>2, <2>3 DEF Ends
  <1>19. ASSUME NEW c \in Command, c \in again PROVE OnItsWay(c)'
    <2>1. again = {c}
      BY <1>5, <1>19
    <2>2. attempts' = <<c>>
      BY <1>14, <2>1, SetToSeqOne
    <2>3. control'.work[c] = "durable"
      BY <1>15, <1>16, <1>19
    <2> QED BY <2>2, <2>3 DEF OnItsWay
  <1>20. ASSUME NEW c \in Command, IsActive(cmds, c)
         PROVE  /\ cmds[c].admitted = "durable" => c \in open
                /\ cmds[c].admitted # "durable" => c \notin open
    <2>1. Backed(disk, c)'
      BY DEF AllBacked
    <2>2. disk.outbox[c] # "closed" /\ cmds[c].status \notin {"none", "failed"}
      BY <1>20, <2>1 DEF Backed, IsActive, ActiveStatus
    <2> QED BY <1>17, <2>1, <2>2 DEF Backed, open
  <1>21. RoomIsOpen' /\ StoresOpen(disk)'
    BY DEF Ready, RoomIsOpen, StoresOpen, Open
  <1>22. InputsAreOpen'
    <2>1. ASSUME NEW e \in ToSet(inputs')
          PROVE  e \in Inputs /\ e.kind \in {"timed_out", "close"}
      <3>1. CASE e \in ToSet(closings)
        BY <1>11, <3>1
      <3>2. CASE e \in ToSet(timeouts)
        <4>1. PICK c \in late : e = TimedOut(c, cmds[c].deadline)
          BY <1>12, <3>2
        <4>2. e \in Plain
          BY <1>5, <4>1, TimedOutPlain DEF Records
        <4> QED BY <4>1, <4>2 DEF TimedOut, Input, Plain
      <3> QED BY <1>13, <2>1, <3>1, <3>2
    <2>2. \A e \in ToSet(inputs') : e \in OpenInputs'
      BY <2>1, PlainOpen
    <2> QED BY <2>2 DEF InputsAreOpen
  <1>23. WorkIsAdmitted' /\ VolatileIsTried'
    <2>1. WorkIsAdmitted'
      BY <1>15, <1>16 DEF WorkIsAdmitted, IsVolatile, Ready, IsActive, ActiveStatus
    <2>2. VolatileIsTried'
      BY DEF VolatileIsTried, IsVolatile, Ready
    <2> QED BY <2>1, <2>2
  <1>24. DurableIsTried'
    <2>1. ASSUME NEW c \in Command, IsActive(cmds, c), cmds[c].admitted = "durable"
          PROVE  disk'.outbox[c] = "delivered" \/ OnItsWay(c)' \/ Ends(c)'
      BY <1>9, <1>18, <1>19, <1>20, <2>1
    <2> QED BY <2>1 DEF DurableIsTried, IsActive
  <1>25. ASSUME NEW c \in Command
         PROVE  \/ scheduled.timeoutAt[c] = ctl.timeoutAt[c]
                \/ cmds[c].status = "pending" /\ scheduled.timeoutAt[c] = cmds[c].deadline
    BY <1>7
  <1>26. TimersAreDeadlines'
    BY <1>15, <1>25 DEF TimersAreDeadlines, Ready
  <1>27. TimersAreSet'
    <2>1. ASSUME NEW c \in Command, cmds[c].status = "pending", ~Orphaned(c)'
          PROVE  control'.timeoutAt[c] = cmds[c].deadline \/ Ends(c)'
      <3>1. IsActive(cmds, c) /\ IsActive(room.cmds, c)'
        BY <2>1 DEF IsActive, ActiveStatus
      <3>2. CASE c \in open
        <4>1. c \in late \/ (c \in delivered \cup again /\ cmds[c].deadline > now)
          BY <1>9, <2>1, <3>1, <3>2
        <4>2. ctl.timeoutAt[c] = NoTime \/ ctl.timeoutAt[c] = cmds[c].deadline
          BY DEF Ready
        <4> QED BY <1>7, <1>15, <1>18, <2>1, <4>1, <4>2
      <3>3. CASE c \notin open
        <4>1. cmds[c].admitted = "volatile"
          <5>1. cmds[c].admitted # "durable"
            BY <1>20, <3>1, <3>3
          <5> QED BY <5>1 DEF Records, Durability
        <4>2. ctl.work[c] = "volatile"
          BY <1>15, <1>16, <2>1, <3>1, <3>3, <4>1 DEF Orphaned
        <4> QED BY <1>15, <1>25, <2>1, <4>2 DEF Ready
      <3> QED BY <3>2, <3>3
    <2> QED BY <2>1 DEF TimersAreSet
  <1>28. NoneOverdue' /\ ClosingFails'
    BY DEF NoneOverdue, ClosingFails
  <1> QED BY <1>21, <1>22, <1>23, <1>24, <1>26, <1>27, <1>28 DEF Tended

\* When nothing is queued or attempted, every volatile command had its attempt, and the
\* timers of all commands that go on are set.
LEMMA Rested ==
  ASSUME Tended, inputs = <<>>, attempts = <<>>, NEW c \in Command
  PROVE  /\ ~OnItsWay(c) /\ ~Ends(c)
         /\ room.cmds[c].status = "accepted" => ~IsVolatile(c)
         /\ Started /\ room.cmds[c].status = "pending" /\ ~Orphaned(c) =>
              control.timeoutAt[c] = room.cmds[c].deadline
  <1>1. ~OnItsWay(c) /\ ~Ends(c)
    BY NoneQueued DEF OnItsWay, Ends
  <1> QED BY <1>1 DEF Tended, VolatileIsTried, TimersAreSet

\* Recovery takes up the durable deliveries again.
LEMMA RecoverTends ==
  ASSUME IInv, Backing, Backing', Tended, Recover
  PROVE  Tended'
  <1>1. Types /\ Agreement /\ Running /\ inputs = <<>> /\ attempts = <<>> /\ ~Available /\ boot = "done" /\ Started
    BY DEF IInv, Recover, Idle, Quiet, Started
  <1>2. /\ RoomIsOpen /\ StoresOpen(disk) /\ WorkIsAdmitted /\ TimersAreDeadlines /\ ClosingFails
    BY DEF Tended
  <1> PICK merged \in Rooms : merged = MergedRoom
    BY <1>1, MergedFacts
  <1>3. ASSUME NEW c \in Command
        PROVE  /\ IsActive(room.cmds, c) => merged.cmds[c] = room.cmds[c]
               /\ IsActive(merged.cmds, c) =>
                    \/ IsActive(room.cmds, c) /\ merged.cmds[c] = room.cmds[c]
                    \/ merged.cmds[c] = disk.cmds[c]
    BY <1>1, ActiveMerges, MergedActive DEF IsActive
  <1>4. Ready(merged.cmds, control)
    <2>1. ASSUME NEW c \in Command, IsActive(merged.cmds, c)
          PROVE  /\ Open(merged.cmds, disk.outbox, c)
                 /\ merged.cmds[c].status = "accepted" => merged.cmds[c].admitted = "durable"
      <3>1. CASE merged.cmds[c] = room.cmds[c]
        <4>1. merged.cmds[c].status = "accepted" => merged.cmds[c].admitted # "volatile"
          BY <1>1, <3>1, Rested DEF IsVolatile
        <4> QED BY <1>2, <3>1, <4>1 DEF RoomIsOpen, Open, Rooms, Lists, Records, Durability
      <3>2. CASE merged.cmds[c] = disk.cmds[c]
        BY <1>2, <3>2 DEF StoresOpen, Open
      <3> QED BY <1>3, <2>1, <3>1, <3>2
    <2>2. ASSUME NEW c \in Command
          PROVE  /\ Open(merged.cmds, disk.outbox, c)
                 /\ merged.cmds[c].status = "accepted" => merged.cmds[c].admitted = "durable"
      BY <2>1, <2>2 DEF Open, IsActive, ActiveStatus
    <2>3. ASSUME NEW c \in Command, control.work[c] = "volatile"
          PROVE  /\ IsActive(merged.cmds, c) /\ merged.cmds[c].admitted = "volatile"
                 /\ merged.cmds[c].status = "pending" => control.timeoutAt[c] = merged.cmds[c].deadline
      <3>1. IsActive(room.cmds, c) /\ room.cmds[c].admitted = "volatile"
        BY <1>2, <2>3 DEF WorkIsAdmitted, IsVolatile
      <3>2. merged.cmds[c] = room.cmds[c]
        BY <1>3, <3>1
      <3>3. ~Orphaned(c)
        BY <2>3 DEF Orphaned
      <3>4. room.cmds[c].status = "pending" => control.timeoutAt[c] = room.cmds[c].deadline
        BY <1>1, <3>3, Rested
      <3> QED BY <3>1, <3>2, <3>4 DEF IsActive
    <2>4. ASSUME NEW c \in Command, control.timeoutAt[c] # NoTime
          PROVE  merged.cmds[c].status = "pending" /\ control.timeoutAt[c] = merged.cmds[c].deadline
      <3>1. room.cmds[c].status = "pending" /\ control.timeoutAt[c] = room.cmds[c].deadline
        BY <1>2, <2>4 DEF TimersAreDeadlines
      <3>2. merged.cmds[c] = room.cmds[c]
        BY <1>3, <3>1 DEF IsActive, ActiveStatus
      <3> QED BY <3>1, <3>2
    <2> QED BY <2>2, <2>3, <2>4 DEF Ready
  <1> DEFINE saved == [disk EXCEPT !.cmds = merged.cmds, !.obs = merged.obs, !.guards = merged.guards,
                                   !.known = merged.known]
  <1>5. saved.cmds = merged.cmds /\ saved.outbox = disk.outbox
    BY <1>1 DEF Types, Disks
  <1>6. \/ /\ UNCHANGED <<now, process, boot, room, control, inputs, attempts, led, disk>>
           /\ storage' \in {"recovering", "degraded"}
        \/ /\ ~ActiveConflict
           /\ room' = merged /\ disk' = saved
           /\ Reconcile(merged.cmds, control)
           /\ UNCHANGED <<now, faults, process, boot, led>>
        \/ Indeterminate({disk, saved})
    BY DEF Recover
  <1> HIDE DEF saved
  <1>7. CASE /\ UNCHANGED <<now, process, boot, room, control, inputs, attempts, led, disk>>
             /\ storage' \in {"recovering", "degraded"}
    <2>1. ~Available'
      BY <1>7 DEF Available
    <2>2. InputsAreOpen'
      BY <1>1, <1>7, NoneQueued DEF InputsAreOpen
    <2> QED BY <1>1, <1>7, <2>1, <2>2, IdleTends DEF Running
  <1>8. CASE /\ ~ActiveConflict
             /\ room' = merged /\ disk' = saved
             /\ Reconcile(merged.cmds, control)
             /\ UNCHANGED <<now, faults, process, boot, led>>
    <2>1. One(merged.cmds)
      <3> SUFFICES ASSUME NEW c \in Command, NEW d \in Command, IsActive(merged.cmds, c), IsActive(merged.cmds, d)
                   PROVE  c = d
        BY DEF One, ActiveCommands
      <3>1. /\ IsActive(room.cmds, c) \/ IsActive(disk.cmds, c)
            /\ IsActive(room.cmds, d) \/ IsActive(disk.cmds, d)
        BY <1>3 DEF IsActive
      <3> QED BY <1>1, <1>8, <3>1 DEF ActiveConflict, Agreement, One, ActiveCommands
    <2>2. AllBacked(disk)' /\ Running' /\ boot' = "done"
      BY <1>1, <1>8 DEF Backing, Running
    <2>3. merged.cmds \in [Command -> Records] /\ control \in Controls
      BY <1>1 DEF Types, Rooms, Lists
    <2> QED BY <1>1, <1>4, <1>5, <1>8, <2>1, <2>2, <2>3, ReconcileTends
  <1>9. CASE Indeterminate({disk, saved})
    <2>1. PICK d \in {disk, saved} : Halt("fatal", d)
      BY <1>9 DEF Indeterminate
    <2>2. StoresOpen(saved)
      BY <1>4, <1>5 DEF Ready, StoresOpen, Open
    <2> QED BY <1>2, <2>1, <2>2, HaltTends
  <1> QED BY <1>6, <1>7, <1>8, <1>9

\* A new process takes over what is stored, and fails the commands that were lost.
LEMMA RestartTends ==
  ASSUME IInv, IInv', Backing, Tended, Restart
  PROVE  Tended'
  <1>1. Types /\ Agreement /\ ~Running /\ Running' /\ One(room'.cmds)
    BY DEF IInv, Restart, Agreement, Running
  <1>2. inputs' = LostCommands(room') /\ UNCHANGED <<now, boot, control, attempts, led, disk>>
    BY DEF Restart
  <1>3. room'.cmds = disk.cmds \/ \A c \in Command : room'.cmds[c].status = "none"
    <2>1. Restored.cmds = disk.cmds /\ [Restored EXCEPT !.known = {}].cmds = disk.cmds
          /\ \A c \in Command : EmptyRoom.cmds[c].status = "none"
      BY DEF Restored, EmptyRoom, NoRecord
    <2> QED BY <2>1 DEF Restart
  <1>4. \A c \in Command : room.cmds[c].status = "none"
    BY <1>1 DEF Agreement, DownIsEmpty
  <1>5. boot' = "closing" /\ \A c \in Command : control'.timeoutAt[c] = NoTime /\ control'.work[c] # "volatile"
    <2>1. boot' = "closing"
      BY <1>1, <1>2 DEF Tended, ClosingFails
    <2>2. \A c \in Command : control.timeoutAt[c] = NoTime
      BY <1>4 DEF Tended, TimersAreDeadlines
    <2>3. \A c \in Command : control.work[c] # "volatile"
      BY <1>4 DEF Tended, WorkIsAdmitted, IsVolatile
    <2> QED BY <1>2, <2>1, <2>2, <2>3
  <1>6. StoresOpen(disk)' /\ RoomIsOpen' /\ \A c \in Command : room'.cmds[c].status = "accepted" =>
                                                              room'.cmds[c].admitted = "durable"
    <2>1. StoresOpen(disk)'
      BY <1>2 DEF Tended, StoresOpen, Open
    <2>2. ASSUME NEW c \in Command
          PROVE  Open(room'.cmds, disk.outbox, c)
                 /\ (room'.cmds[c].status = "accepted" => room'.cmds[c].admitted = "durable")
      BY <1>3 DEF Tended, StoresOpen, Open
    <2>3. RoomIsOpen'
      BY <1>2, <2>2 DEF RoomIsOpen, Open
    <2> QED BY <2>1, <2>2, <2>3
  <1>7. ASSUME NEW e \in ToSet(inputs')
        PROVE  e \in OpenInputs' /\ e.kind = "failed"
    <2> DEFINE lost == {d \in ActiveCommands(room'.cmds) : room'.cmds[d].admitted = "volatile"}
               S == {Input("failed", c, "off", now, FALSE) : c \in lost}
    <2>1. lost \in SUBSET Command /\ IsFiniteSet(lost) /\ now \in Nat
      BY <1>1, FewFinite DEF One, ActiveCommands, IsActive, ActiveStatus, Types
    <2> HIDE DEF lost
    <2>2. IsFiniteSet(S) /\ S \subseteq Own
      BY <2>1, OncePerCommand DEF InputKinds, RequestKinds
    <2>3. inputs' = SetToSeq(S)
      BY <1>2 DEF LostCommands, lost
    <2> HIDE DEF S
    <2>4. SetToSeq(S) \in Seq(S)
      BY <2>2, SetToSeqType
    <2>5. e \in S
      BY <1>7, <2>3, <2>4 DEF ToSet
    <2>6. PICK c \in lost : e = Input("failed", c, "off", now, FALSE)
      BY <2>5 DEF S
    <2>7. e \in Inputs /\ e.kind = "failed" /\ e.cmd = c
      BY <2>2, <2>5, <2>6 DEF Own, Plain, Input
    <2> QED BY <2>1, <2>7, PlainOpen
  <1>8. InputsAreOpen' /\ WorkIsAdmitted' /\ VolatileIsTried' /\ TimersAreDeadlines'
    BY <1>5, <1>6, <1>7 DEF InputsAreOpen, WorkIsAdmitted, VolatileIsTried, IsVolatile, TimersAreDeadlines
  <1>9. DurableIsTried' /\ TimersAreSet' /\ NoneOverdue'
    BY <1>5 DEF DurableIsTried, TimersAreSet, NoneOverdue, Started
  <1>10. ClosingFails'
    BY <1>1, <1>3, <1>5, <1>7 DEF ClosingFails
  <1> QED BY <1>6, <1>8, <1>9, <1>10 DEF Tended

\* Startup ends with a timer for every pending command, and with the outbox reconciled.
LEMMA ResumeTends ==
  ASSUME IInv, Backing, Tended, ResumeCommands
  PROVE  Tended'
  <1>1. Types /\ Agreement /\ Running /\ Running' /\ inputs = <<>> /\ attempts = <<>> /\ boot = "resume"
        /\ boot' = "done" /\ UNCHANGED <<now, faults, process, storage, room, led, disk>>
    BY DEF IInv, ResumeCommands, Quiet, Running
  <1>2. /\ RoomIsOpen /\ StoresOpen(disk) /\ WorkIsAdmitted /\ TimersAreDeadlines /\ ClosingFails
    BY DEF Tended
  <1>3. Expired(room.cmds, Command) = {}
    BY <1>1 DEF Tended, NoneOverdue
  <1> DEFINE ctl == ScheduleTimeouts(control, room.cmds, Command)
  <1>4. ctl \in Controls /\ ctl.work = control.work
    BY <1>1, ScheduleType DEF Types, Rooms, Lists
  <1>5. ASSUME NEW c \in Command
        PROVE  /\ room.cmds[c].status = "pending" => ctl.timeoutAt[c] = room.cmds[c].deadline
               /\ ctl.timeoutAt[c] # NoTime =>
                    room.cmds[c].status = "pending" /\ ctl.timeoutAt[c] = room.cmds[c].deadline
    <2>1. ctl.timeoutAt[c] =
            IF /\ room.cmds[c].status = "pending" /\ control.timeoutAt[c] = NoTime /\ room.cmds[c].deadline > now
            THEN room.cmds[c].deadline ELSE control.timeoutAt[c]
      BY <1>1 DEF ScheduleTimeouts, Types, Controls
    <2>2. control.timeoutAt[c] # NoTime =>
            room.cmds[c].status = "pending" /\ control.timeoutAt[c] = room.cmds[c].deadline
      BY <1>2 DEF TimersAreDeadlines
    <2>3. room.cmds[c].status = "pending" => room.cmds[c].deadline > now
      <3>1. room.cmds[c].deadline \in Nat /\ now \in Nat
        BY <1>1 DEF Types, Rooms, Lists, Records
      <3> QED BY <1>3, <3>1 DEF Expired
    <2> HIDE DEF ctl
    <2> QED BY <2>1, <2>2, <2>3
  <1>6. (Available /\ Reconcile(room.cmds, ctl)) \/ (~Available /\ control' = ctl /\ UNCHANGED <<inputs, attempts>>)
    BY DEF ResumeCommands
  <1> HIDE DEF ctl
  <1>7. ASSUME NEW c \in Command
        PROVE  /\ ~IsVolatile(c) \/ room.cmds[c].status # "accepted"
               /\ room.cmds[c].status = "accepted" => room.cmds[c].admitted = "durable"
    <2>1. room.cmds[c].admitted \in {"durable", "volatile"}
      BY <1>1 DEF Types, Rooms, Lists, Records, Durability
    <2> QED BY <1>1, <2>1, Rested DEF IsVolatile
  <1>8. CASE Available /\ Reconcile(room.cmds, ctl)
    <2>1. room.cmds = disk.cmds /\ One(room.cmds) /\ room.cmds \in [Command -> Records]
      BY <1>1, <1>8 DEF Agreement, Synced, Types, Rooms, Lists
    <2>2. AllBacked(disk)'
      BY <1>1 DEF Backing, AllBacked, Backed, IsActive
    <2>3. Ready(room.cmds, ctl)
      BY <1>2, <1>4, <1>5, <1>7 DEF Ready, RoomIsOpen, WorkIsAdmitted, IsVolatile
    <2> QED BY <1>1, <1>4, <1>8, <2>1, <2>2, <2>3, ReconcileTends
  <1>9. CASE ~Available /\ control' = ctl /\ UNCHANGED <<inputs, attempts>>
    <2>1. RoomIsOpen' /\ StoresOpen(disk)' /\ InputsAreOpen'
      BY <1>1, <1>2, <1>9, NoneQueued DEF RoomIsOpen, StoresOpen, Open, InputsAreOpen
    <2>2. WorkIsAdmitted' /\ VolatileIsTried'
      BY <1>1, <1>2, <1>4, <1>7, <1>9 DEF WorkIsAdmitted, VolatileIsTried, IsVolatile
    <2>3. TimersAreDeadlines' /\ TimersAreSet'
      BY <1>1, <1>5, <1>9 DEF TimersAreDeadlines, TimersAreSet
    <2>4. DurableIsTried' /\ NoneOverdue' /\ ClosingFails'
      BY <1>1, <1>2, <1>9 DEF DurableIsTried, NoneOverdue, ClosingFails, Available
    <2> QED BY <2>1, <2>2, <2>3, <2>4 DEF Tended
  <1> QED BY <1>6, <1>8, <1>9

-----------------------------------------------------------------------------
(* Together *)

\* At first there is no command to tend to.
LEMMA InitTends ==
  ASSUME Init
  PROVE  Tended
  <1>1. \A c \in Command : /\ disk.cmds[c] = NoRecord /\ room.cmds[c] = NoRecord
                           /\ control.work[c] = "none" /\ control.timeoutAt[c] = NoTime
    BY DEF Init, EmptyDisk, EmptyRoom, EmptyControl
  <1>2. NoRecord.status = "none"
    BY DEF NoRecord
  <1>3. /\ inputs = <<>> /\ ToSet(inputs) = {} /\ Running /\ boot = "done"
    BY NoneQueued DEF Init, Running
  <1>4. RoomIsOpen /\ StoresOpen(disk) /\ InputsAreOpen /\ WorkIsAdmitted
    BY <1>1, <1>2, <1>3 DEF RoomIsOpen, StoresOpen, Open, InputsAreOpen, WorkIsAdmitted
  <1>5. VolatileIsTried /\ DurableIsTried /\ TimersAreDeadlines /\ TimersAreSet
    BY <1>1, <1>2 DEF VolatileIsTried, DurableIsTried, TimersAreDeadlines, TimersAreSet, IsActive, ActiveStatus
  <1>6. NoneOverdue /\ ClosingFails
    BY <1>3 DEF NoneOverdue, ClosingFails
  <1> QED BY <1>4, <1>5, <1>6 DEF Tended

\* Every step tends to every active command.
LEMMA NextTends ==
  ASSUME IInv, Backing, InTime, Tended, [Next]_vars
  PROVE  Tended'
  <1>0. IInv' /\ Backing'
    BY NextStep, NextBacks DEF Backs
  <1>1. CASE Next
    <2>1. CASE ProcessEvent \/ PersistOutboxMutation \/ RunAttempt
      BY <1>0, <2>1, ProcessEventTends, PersistTends, RunTends
    <2>2. CASE \E c \in Command : RetryFires(c) \/ TimeoutFires(c) \/ LedTimerFires(c)
      BY <2>2, TimerTends
    <2>3. CASE \E c \in Command, power \in Power : RequestCommand(c, power) \/ RejectCommand(c, power)
      BY <2>3, RequestTends
    <2>4. CASE Recover \/ OtherTransaction \/ Tick \/ Crash \/ Restart
      BY <1>0, <2>4, RecoverTends, OtherTends, RestartTends
    <2>5. CASE ListReceipts \/ (\E c \in Command : RestorePlan(c)) \/ ReportCurrentState \/ ResumeCommands
      BY <2>5, ListTends, RestoreTends, ReportTends, ResumeTends
    <2> QED BY <1>1, <2>1, <2>2, <2>3, <2>4, <2>5 DEF Next
  <1>2. CASE UNCHANGED vars
    <2>1. UNCHANGED <<now, faults, process, boot, storage, room, control, inputs, attempts, led, disk>>
      BY <1>2 DEF vars
    <2>2. RoomIsOpen' /\ StoresOpen(disk)' /\ InputsAreOpen' /\ WorkIsAdmitted'
      BY <2>1 DEF Tended, RoomIsOpen, StoresOpen, Open, InputsAreOpen, OpenInputs, WorkIsAdmitted, IsVolatile, Available
    <2>3. \A c \in Command : (OnItsWay(c)' <=> OnItsWay(c)) /\ (Ends(c)' <=> Ends(c)) /\ (Orphaned(c)' <=> Orphaned(c))
      BY <2>1 DEF OnItsWay, Ends, Orphaned, IsActive
    <2>4. VolatileIsTried' /\ DurableIsTried'
      BY <2>1, <2>3 DEF Tended, VolatileIsTried, DurableIsTried, IsVolatile, Available, Started, Running, IsActive
    <2>5. TimersAreDeadlines' /\ TimersAreSet' /\ ClosingFails'
      BY <2>1, <2>3 DEF Tended, TimersAreDeadlines, TimersAreSet, ClosingFails, Started, Running
    <2>6. NoneOverdue'
      BY <2>1 DEF Tended, NoneOverdue, Running, Expired
    <2> QED BY <2>2, <2>4, <2>5, <2>6 DEF Tended
  <1> QED BY <1>1, <1>2

\* No command is younger than its receipt, nor the receipt of a plan of the LED another one
\* than what is stored (prepareDispatch, MayDispatch, restoreDurablePlans).
THEOREM InTimeInvariance == Spec => []InTime
  <1>1. Init => InTime
    BY InitInTime
  <1>2. IInv /\ Backing /\ InTime /\ [Next]_vars => InTime'
    BY NextInTime
  <1> QED BY <1>1, <1>2, Invariance, BackingInvariance, PTL DEF Spec

\* At every moment each active command is delivered, on its way, or at its end, and no
\* volatile one is before its first attempt (requestCommand, onEventProcessed,
\* attemptDispatch, reconcileOutboxAfterRecovery, closeRestoredVolatileCommands).
THEOREM TendingInvariance == Spec => []Tended
  <1>1. Init => Tended
    BY InitTends
  <1>2. IInv /\ Backing /\ InTime /\ Tended /\ [Next]_vars => Tended'
    BY NextTends
  <1> QED BY <1>1, <1>2, Invariance, BackingInvariance, InTimeInvariance, PTL DEF Spec

\* Whenever the process rests, a pending command that is not orphaned has its timeout
\* timer set at its own deadline, and retries and attempts are of active commands
\* (scheduleTimeout, clearCompletedTimers, reschedulePendingCommands, attemptDispatch).
THEOREM TimersFollowCommands == Spec => []TimersMatchCommands
  <1>1. IInv /\ Backing /\ Tended => TimersMatchCommands
    <2> HAVE IInv /\ Backing /\ Tended
    <2>1. ASSUME Idle, NEW c \in Command, room.cmds[c].status = "pending", ~Orphaned(c)
          PROVE  control.timeoutAt[c] = room.cmds[c].deadline
      BY <2>1, Rested DEF Idle, Quiet, Started
    <2>2. \A c \in Command : control.retryAt[c] # NoTime => IsActive(room.cmds, c)
      BY DEF Backing, WorkIsBacked
    <2>3. \A i \in 1..Len(attempts) : IsActive(room.cmds, attempts[i])
      <3>1. CASE attempts = <<>>
        BY <3>1
      <3>2. ASSUME NEW c \in Command, attempts = <<c>>, IsActive(room.cmds, c)
            PROVE  \A i \in 1..Len(attempts) : IsActive(room.cmds, attempts[i])
        BY <3>2
      <3> QED BY <3>1, <3>2 DEF Backing, AttemptIsActive
    <2> QED BY <2>1, <2>2, <2>3 DEF TimersMatchCommands
  <1> QED BY <1>1, Invariance, BackingInvariance, TendingInvariance, PTL

\* Whenever the process rests with storage available, a durable command that is active has
\* reached the LED; and a command that still waits for its first attempt has its intent in
\* the outbox, for storage to come back (attemptDispatch, onEventProcessed,
\* reconcileOutboxAfterRecovery, closeRestoredVolatileCommands).
THEOREM NothingStaysUnsent == Spec => []NothingLeftUnsent
  <1>1. IInv /\ Backing /\ Tended => NothingLeftUnsent
    <2> SUFFICES ASSUME IInv, Backing, Tended, Idle, NEW c \in Command, IsActive(room.cmds, c)
                 PROVE  /\ room.cmds[c].admitted = "durable" /\ Available => disk.outbox[c] = "delivered"
                        /\ room.cmds[c].status = "accepted" => ~Available /\ disk.outbox[c] = "ready"
      BY DEF NothingLeftUnsent, ActiveCommands
    <2>1. inputs = <<>> /\ attempts = <<>> /\ Started
      BY DEF Idle, Quiet, Started
    <2>2. ~OnItsWay(c) /\ ~Ends(c) /\ (room.cmds[c].status = "accepted" => ~IsVolatile(c))
      BY <2>1, Rested
    <2>3. room.cmds[c].admitted = "durable" /\ Available => disk.outbox[c] = "delivered"
      BY <2>1, <2>2 DEF Tended, DurableIsTried
    <2>4. ASSUME room.cmds[c].status = "accepted" PROVE ~Available /\ disk.outbox[c] = "ready"
      <3>1. room.cmds[c].admitted \in {"durable", "volatile"}
        BY DEF IInv, Types, Rooms, Lists, Records, Durability
      <3>2. room.cmds[c].admitted = "durable"
        BY <2>2, <2>4, <3>1 DEF IsVolatile
      <3>3. disk.outbox[c] = "ready"
        BY <2>4, <3>2 DEF Tended, RoomIsOpen, Open
      <3> QED BY <2>3, <3>2, <3>3
    <2> QED BY <2>3, <2>4
  <1> QED BY <1>1, Invariance, BackingInvariance, TendingInvariance, PTL

=============================================================================
