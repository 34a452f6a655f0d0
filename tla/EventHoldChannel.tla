-------------------------- MODULE EventHoldChannel --------------------------
(***************************************************************************)
(* EventHoldControl.hpp, Channel: the mapping by which the runtime hands the *)
(* host's room transitions and event holds to the game's input callback, and *)
(* through which the game's owner acknowledges what it has consumed.  One    *)
(* producer for the mapping's whole life, a heartbeat, and an abort word     *)
(* only its first writer sets.                                               *)
(*                                                                           *)
(* A channel is a record.  The FIFO and the history are one sequence: the    *)
(* FIFO is what lies past "consumed".  The acknowledgement's sequence lock   *)
(* has one writer, so it is read and written whole.                          *)
(***************************************************************************)
EXTENDS Integers, Sequences

CONSTANTS
  Capacity,          \* of the FIFO
  SourceCapacity,    \* envelopes one lifetime can take
  TimeoutTicks       \* HeartbeatTimeoutMs

ASSUME ChannelAssumption == {Capacity, SourceCapacity} \subseteq Nat \ {0} /\ TimeoutTicks \in Nat

Aborts == {"None", "BindingReset", "Shutdown", "Overflow", "HeartbeatExpired",
           "InvalidOrder", "Unsupported", "SourceLimit"}

\* Only "both flags" is ever read of the flags.
NoAck == [ordinal |-> 0, epoch |-> 0, ready |-> FALSE]

Unbound == [scope |-> 0, abort |-> "None", age |-> 0, log |-> <<>>, consumed |-> 0, ack |-> NoAck]

ResetCommand == [kind |-> "Reset", source |-> 0, epoch |-> 0, scene |-> FALSE]

IsBound(c) == c.scope # 0

\* Nobody reads an aborted channel: whom it was for and why it ended is kept.
Aborted(c, why) == [Unbound EXCEPT !.scope = c.scope, !.abort = why]

Invalidate(c, why) == IF c.abort = "None" THEN Aborted(c, why) ELSE c

PushOrDrop(c, command) ==    \* mutant: a full FIFO loses the record
  IF Len(c.log) - c.consumed >= Capacity THEN c ELSE [c EXCEPT !.log = Append(@, command)]

PushPastFull(c, command) ==    \* mutant: one record too many fits
  IF Len(c.log) >= SourceCapacity + 2 \/ Len(c.log) - c.consumed > Capacity
    THEN Invalidate(c, "Overflow")
    ELSE [c EXCEPT !.log = Append(@, command)]

Push(c, command) ==
  IF Len(c.log) >= SourceCapacity + 2 \/ Len(c.log) - c.consumed >= Capacity
    THEN Invalidate(c, "Overflow")
    ELSE [c EXCEPT !.log = Append(@, command)]

Bindable(c) == ~IsBound(c) /\ c.abort = "None"

Bind(c, scope) == Push([c EXCEPT !.scope = scope, !.age = 0], ResetCommand)

\* Its terminal reset record is in a channel that is not read.
Reset(c, why) == Invalidate(c, why)

Healthy(c) == IsBound(c) /\ c.abort = "None" /\ c.age <= TimeoutTicks

\* A test of a silent channel leaves it aborted.
Tested(c) ==
  IF IsBound(c) /\ c.age > TimeoutTicks THEN Invalidate(c, "HeartbeatExpired") ELSE c

Heartbeat(c) == IF Healthy(c) THEN [c EXCEPT !.age = 0] ELSE Tested(c)

\* PublishAck() refuses to go back.
PublishAck(c, ack) ==
  IF ack.ordinal < c.ack.ordinal \/ ack.epoch < c.ack.epoch
     \/ (ack.ordinal = c.ack.ordinal /\ c.ack.ordinal # 0 /\ ack.epoch # c.ack.epoch)
    THEN c ELSE [c EXCEPT !.ack = ack]

\* One record per callback, and none of an aborted channel.
CanRead(c) == Healthy(c) /\ c.consumed < Len(c.log)

Silent(c) ==
  [c EXCEPT !.age = IF IsBound(c) /\ c.abort = "None" /\ @ <= TimeoutTicks THEN @ + 1 ELSE @]

-----------------------------------------------------------------------------
(* Publish(): what the producer accepts of the host's stream.  "p" is the    *)
(* producer's own memory: the armed epoch, whether an acquire is             *)
(* outstanding, and how many sources it has taken.                           *)

NoProducer == [epoch |-> 0, active |-> FALSE, sources |-> 0]

InOrder(p, command) ==
  CASE command.kind = "Transition" -> command.epoch > p.epoch
    [] command.kind = "Acquire"    -> command.epoch = p.epoch /\ ~p.active
    [] command.kind = "Release"    -> command.epoch = p.epoch /\ p.active

TakenForgetsRoom(p, command) ==    \* mutant: a transition does not move the epoch
  [p EXCEPT !.sources = @ + 1,
            !.active = IF command.kind = "Transition" THEN @ ELSE command.kind = "Acquire"]

Taken(p, command) ==
  [p EXCEPT !.sources = @ + 1,
            !.epoch = IF command.kind = "Transition" THEN command.epoch ELSE @,
            !.active = IF command.kind = "Transition" THEN @ ELSE command.kind = "Acquire"]

\* The channel after Publish(); accepted exactly when it is still healthy.
Publish(c, p, command) ==
  IF ~Healthy(c) THEN Tested(c)
  ELSE IF p.sources = SourceCapacity THEN Invalidate(c, "SourceLimit")
  ELSE IF ~InOrder(p, command) THEN Invalidate(c, "InvalidOrder")
  ELSE Push(c, command)
=============================================================================
