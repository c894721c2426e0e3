---------------------------- MODULE DeviceSource ----------------------------
(***************************************************************************)
(* The simulated temperature sensor and its adapter, with the development  *)
(* scenarios that disturb it (temperature-sensor*.ts, temperature-         *)
(* adapter.ts, temperature-room-sources.ts).                               *)
(*                                                                         *)
(* Every operation reports at most one fact, which the adapter hands to    *)
(* the room at once: an operator below is the state of the source after    *)
(* the operation, and the composing module puts it next to the reception   *)
(* of the fact.  A fact is a new message (an id of its own) unless it is   *)
(* the last reading, replayed.                                             *)
(*                                                                         *)
(* A reading that is not a number has the value "invalid".  The reason     *)
(* that goes with a fact and the previous value it quotes decide nothing   *)
(* and are left out.                                                       *)
(***************************************************************************)
EXTENDS Integers, Sequences

CONSTANTS Pattern,   \* the readings, over and over
          FutureLead \* how far ahead a future-dated reading is

ASSUME SourceAssumption ==
  /\ Pattern \in Seq(STRING) /\ Len(Pattern) > 0
  /\ FutureLead \in Nat

VARIABLE source \* stage, ticking, offline, last, next

Transition == {"availability", "health"}
Dimension == Transition \cup {"reading"}

\* What is ever said, or not said yet, of a dimension.
Values == {"unknown", "online", "offline", "healthy", "degraded", "invalid"}
          \cup {Pattern[i] : i \in DOMAIN Pattern}

\* There is no last reading.
NoReading == [id |-> 0, dimension |-> "reading", value |-> "invalid", at |-> 0]

Fact(id, dimension, value, at) ==
  [id |-> id, dimension |-> dimension, value |-> value, at |-> at]

\* A simulator of a process that has just been built.
NewSource ==
  [stage |-> "built", ticking |-> FALSE, offline |-> FALSE, last |-> NoReading, next |-> 0]

\* startObservationSources attaches the adapter and reports that the sensor is online ...
Announced == [source EXCEPT !.stage = "announced"]

\* tick: the next value of the pattern.
Advanced == (source.next + 1) % Len(Pattern)

Measured(fact) == [source EXCEPT !.next = Advanced, !.last = fact]

\* ... then takes a first reading; startPeriodicSources starts the interval.
Started(fact) == [Measured(fact) EXCEPT !.stage = "running", !.ticking = TRUE]

Running == source.stage = "running"

\* An interval tick, or emit_next_reading, measures only while the sensor is connected.
Measures == Running /\ ~source.offline

\* pause_telemetry and resume_telemetry stop and start the interval, once.
Paused == [source EXCEPT !.ticking = FALSE]
Resumed == [source EXCEPT !.ticking = TRUE]

\* An invalid reading uses up a value and is not the last one.
Garbled == [source EXCEPT !.next = Advanced]

\* reset: a new adapter on a sensor that starts over, measures and ticks again.
Restarted(fact) ==
  [source EXCEPT !.next = 1 % Len(Pattern), !.last = fact, !.offline = FALSE, !.ticking = TRUE]

\* The sensor is silent before it reports that it is offline, and stays so until it has
\* reported that it is back.
Disconnected == [source EXCEPT !.offline = TRUE]
Reconnected == [source EXCEPT !.offline = FALSE]

=============================================================================
