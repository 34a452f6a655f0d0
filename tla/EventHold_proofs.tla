--------------------------- MODULE EventHold_proofs ---------------------------
(***************************************************************************)
(* Proofs about the event hold, for every capacity, timeout, number of facts *)
(* and of lifetimes.                                                          *)
(*                                                                           *)
(* The argument: a mapping that its producer has not lost is one into which   *)
(* every fact of the host goes ("Live"): whatever keeps a fact from it also   *)
(* aborts it.  Until it arms, the baseline is the host's room and no hold is  *)
(* open ("Ready"); from then on the producer's memory is the host's state.    *)
(* An acknowledgement stands for facts that the world has taken, since the    *)
(* facts an owner has seen are only forgotten together with the mapping.      *)
(***************************************************************************)
EXTENDS EventHold, FiniteSetTheorems, WellFoundedInduction, TLAPS

AckType == [ordinal : Nat, epoch : Nat, ready : BOOLEAN]

ChannelType ==
  [scope : Nat, abort : Aborts, age : Nat, log : Seq(FactRecords), consumed : Nat, ack : AckType]

ProducerType == [epoch : Nat, active : BOOLEAN, sources : Nat]

RuntimeType ==
  [cur : Nat, last : Lifetimes, view : Lifetimes, producer : BOOLEAN, p : ProducerType,
   blocked : BOOLEAN, baseline : Nat, excluded : Nat,
   recovering : {"no", "lost", "joined", "result", "adopted"}, left : Nat, quarantined : BOOLEAN]

\* An aborted mapping holds at most the record it was bound with.
ChannelOK(c) ==
  /\ c \in ChannelType
  /\ c.consumed <= Len(c.log) /\ Len(c.log) - c.consumed <= Capacity /\ c.ack.ordinal <= Len(c.log)
  /\ c.abort # "None" => Len(c.log) <= 1
  /\ c.scope = 0 => c.log = <<>> /\ c.abort # "HeartbeatExpired"

HostType == [epoch : Nat, active : BOOLEAN, facts : Nat]

WorldType == [rt : RuntimeType, chan : [Lifetimes -> ChannelType]]

HostOK(H) ==
  /\ H \in HostType
  /\ 1 <= H.epoch /\ H.epoch <= H.facts /\ H.facts <= MaxFacts

Typed(w) ==
  /\ w \in WorldType
  /\ \A l \in Lifetimes : ChannelOK(w.chan[l])
  /\ w.rt.cur \in {0, w.rt.last}

Bindings(w) ==
  /\ w.rt.producer => IsBound(Mapping(w))
  /\ ~w.rt.producer => w.rt.p.epoch = 0
  /\ w.rt.p.epoch = 0 => ~w.rt.p.active
  /\ w.rt.view # 1 => IsBound(Mapping(w))
  /\ w.rt.recovering # "no" => IsBound(Mapping(w))
  /\ w.rt.recovering \in {"joined", "result", "adopted"} => w.rt.cur >= 2
  /\ w.rt.recovering = "adopted" => w.rt.view # 1
  /\ w.rt.recovering \in {"joined", "result"} => w.chan[w.rt.cur].scope = 0
  /\ \A l \in Lifetimes : w.chan[l].scope <= w.rt.last /\ (l # 1 => w.chan[l].scope \in {0, l})
  /\ w.rt.quarantined => w.rt.blocked

\* A mapping that its producer has not lost is reached by every fact.
Live(w) ==
  w.rt.producer /\ Mapping(w).abort = "None" =>
    ~w.rt.blocked /\ w.rt.cur # 0 /\ w.rt.recovering \in {"no", "adopted"}

Counted(w) ==
  /\ w.rt.excluded <= SourceCapacity /\ w.rt.p.sources <= SourceCapacity
  /\ w.rt.p.epoch = 0 /\ IsBound(Mapping(w)) => w.rt.p.sources <= w.rt.excluded

Whole(w, H) ==
  w.rt.producer /\ Len(Mapping(w).log) > 1 =>
    /\ w.rt.p.epoch # 0
    /\ \A k \in 2..Len(Mapping(w).log) :
         Mapping(w).log[k].source = H.facts - (Len(Mapping(w).log) - k)

\* The memory of an armed producer of the first mapping is the host's state.
Agrees(w, H) ==
  w.rt.view = 1 /\ w.rt.producer /\ Mapping(w).abort = "None" /\ w.rt.p.epoch # 0 =>
    w.rt.p.epoch = H.epoch /\ w.rt.p.active = H.active

\* The first mapping that has not armed yet, or is not bound yet, can arm for the host's room.
Ready(w, H) ==
  /\ w.rt.view = 1 /\ ~w.rt.blocked /\ w.rt.cur # 0 /\ w.rt.recovering = "no" /\ w.rt.p.epoch = 0
  /\ IsBound(Mapping(w)) => w.rt.producer /\ Mapping(w).abort = "None"
  => w.rt.baseline = H.epoch /\ ~H.active

Base(w, H) ==
  /\ HostOK(H) /\ Typed(w) /\ Bindings(w) /\ Live(w) /\ Counted(w) /\ Whole(w, H) /\ Agrees(w, H)
  /\ w.chan[1].abort # "InvalidOrder"

Good(w, H) == Base(w, H) /\ Ready(w, H)

\* The game's owner.
OwnType == [scope : Nat, seen : SUBSET Nat]

OwnerType == [view : Lifetimes, epoch : Nat, own : OwnType, release : Nat, held : Nat]

Owned(w, o) ==
  /\ o \in OwnerType /\ o.view <= w.rt.last
  /\ IsFiniteSet(o.own.seen) /\ Cardinality(o.own.seen) <= OwnerCapacity
  /\ o.own.scope = 0 => o.own.seen = {}
  /\ \A l \in Lifetimes : l > o.view => w.chan[l].scope = 0
  /\ \A k \in 2..w.chan[o.view].ack.ordinal : w.chan[o.view].log[k].source \in o.own.seen
  /\ w.chan[o.view].abort = "None" => o.release <= w.chan[o.view].consumed

InputType ==
  [phase : Phases, owned : BOOLEAN, wake : BOOLEAN, follow : BOOLEAN, press : BOOLEAN, open : Int,
   release : Int, due : BOOLEAN, unwound : 0..UnwindPresses, failedOwned : BOOLEAN]

PauseType ==
  [armed : BOOLEAN, handled : BOOLEAN, release : BOOLEAN, presses : 0..(UnwindPresses + 1), due : BOOLEAN]

IInv ==
  /\ Good(World, host) /\ Owned(World, owner)
  /\ inbox \in Seq(FactRecords)
  /\ input \in InputType /\ pause \in PauseType

-----------------------------------------------------------------------------
(* The channel *)

\* What a step of the runtime may do to a mapping that the owner reads.
Grows(c, d) ==
  \/ d.abort # "None" /\ d.ack.ordinal = 0
  \/ /\ d.ack = c.ack /\ d.consumed = c.consumed /\ (d.abort = "None" => c.abort = "None")
     /\ Len(c.log) <= Len(d.log) /\ \A k \in 1..Len(c.log) : d.log[k] = c.log[k]

\* What ends a mapping, and what leaves its records alone.
Ends(c, d) == d.log = <<>> /\ d.abort # "None"

Keeps(c, d) == d.log = c.log /\ d.abort = c.abort

Reasons == Aborts \ {"None"}

LEMMA Constants ==
  /\ Capacity \in Nat /\ Capacity >= 1 /\ SourceCapacity \in Nat /\ SourceCapacity >= 1
  /\ TimeoutTicks \in Nat /\ OwnerCapacity \in Nat /\ OwnerCapacity >= 1 /\ RosterTicks \in Nat
  /\ MaxFacts \in Nat /\ MaxFacts >= 1 /\ MaxLifetimes \in Nat /\ MaxLifetimes >= 1
  /\ UnwindPresses \in Nat /\ OpenTicks \in Nat /\ ReleaseTicks \in Nat
BY ChannelAssumption, HoldAssumption, InputAssumption

\* A dead channel keeps nothing but whose it was and why it ended.
LEMMA AbortedChannel ==
  ASSUME NEW c, ChannelOK(c), NEW why \in Reasons, why = "HeartbeatExpired" => IsBound(c)
  PROVE  /\ ChannelOK(Aborted(c, why)) /\ Aborted(c, why).scope = c.scope
         /\ Aborted(c, why).abort = why /\ Aborted(c, why).ack = NoAck
         /\ Aborted(c, why).log = <<>> /\ Aborted(c, why).consumed = 0
<1> DEFINE d == Aborted(c, why)
<1>1. /\ d.scope = c.scope /\ d.abort = why /\ d.age = 0 /\ d.log = <<>> /\ d.consumed = 0
      /\ d.ack = NoAck
  BY DEF Aborted, Unbound
<1>2. d \in ChannelType
  <2>1. NoAck \in AckType
    BY DEF NoAck, AckType
  <2>2. <<>> \in Seq(FactRecords)
    OBVIOUS
  <2>3. c.scope \in Nat /\ why \in Aborts
    BY DEF ChannelOK, ChannelType, Reasons
  <2> QED BY <2>1, <2>2, <2>3 DEF Aborted, Unbound, ChannelType
<1>3. Len(<<>>) = 0 /\ NoAck.ordinal = 0
  BY DEF NoAck
<1>4. c.scope = 0 => why # "HeartbeatExpired"
  BY DEF IsBound
<1> QED BY <1>1, <1>2, <1>3, <1>4, Constants DEF ChannelOK

LEMMA InvalidatedChannel ==
  ASSUME NEW c, ChannelOK(c), NEW why \in Reasons, why = "HeartbeatExpired" => IsBound(c)
  PROVE  LET d == Invalidate(c, why) IN
         /\ ChannelOK(d) /\ d.scope = c.scope /\ d.abort # "None" /\ Grows(c, d)
         /\ Ends(c, d) \/ (Keeps(c, d) /\ d = c)
         /\ d.abort = c.abort \/ d.abort = why
<1>1. CASE c.abort = "None"
  <2>1. Invalidate(c, why) = Aborted(c, why)
    BY <1>1 DEF Invalidate
  <2>2. NoAck.ordinal = 0 /\ why # "None"
    BY DEF NoAck, Reasons
  <2>3. LET d == Aborted(c, why) IN
        /\ ChannelOK(d) /\ d.scope = c.scope /\ d.abort = why /\ d.ack = NoAck /\ d.log = <<>>
    BY AbortedChannel
  <2> QED BY <2>1, <2>2, <2>3 DEF Grows, Ends
<1>2. CASE c.abort # "None"
  <2>1. Invalidate(c, why) = c
    BY <1>2 DEF Invalidate
  <2>2. Len(c.log) \in Nat
    BY DEF ChannelOK, ChannelType
  <2> QED BY <1>2, <2>1, <2>2 DEF Grows, Keeps
<1> QED BY <1>1, <1>2

LEMMA TestedChannel ==
  ASSUME NEW c, ChannelOK(c)
  PROVE  LET d == Tested(c) IN
         /\ ChannelOK(d) /\ d.scope = c.scope /\ Grows(c, d)
         /\ Ends(c, d) \/ d = c
         /\ d.abort = c.abort \/ d.abort = "HeartbeatExpired"
         /\ ~Healthy(c) /\ IsBound(c) => d.abort # "None"
<1>1. CASE IsBound(c) /\ c.age > TimeoutTicks
  BY <1>1, InvalidatedChannel DEF Tested, Reasons, Aborts
<1>2. CASE ~(IsBound(c) /\ c.age > TimeoutTicks)
  <2>1. Tested(c) = c
    BY <1>2 DEF Tested
  <2>2. Len(c.log) \in Nat
    BY DEF ChannelOK, ChannelType
  <2>3. Grows(c, c)
    BY <2>2 DEF Grows
  <2>4. ~Healthy(c) /\ IsBound(c) => c.abort # "None"
    BY <1>2, Constants DEF Healthy, ChannelOK, ChannelType
  <2> QED BY <2>1, <2>3, <2>4
<1> QED BY <1>1, <1>2

LEMMA HeartbeatChannel ==
  ASSUME NEW c, ChannelOK(c)
  PROVE  LET d == Heartbeat(c) IN
         /\ ChannelOK(d) /\ d.scope = c.scope /\ Grows(c, d)
         /\ Ends(c, d) \/ Keeps(c, d)
         /\ Healthy(c) => Keeps(c, d) /\ d.ack = c.ack
         /\ ~Healthy(c) /\ IsBound(c) => d.abort # "None"
         /\ d.abort = c.abort \/ d.abort = "HeartbeatExpired"
<1>1. CASE Healthy(c)
  <2>1. Heartbeat(c) = [c EXCEPT !.age = 0]
    BY <1>1 DEF Heartbeat
  <2>2. Len(c.log) \in Nat
    BY DEF ChannelOK, ChannelType
  <2> QED BY <1>1, <2>1, <2>2 DEF ChannelOK, ChannelType, Grows, Keeps
<1>2. CASE ~Healthy(c)
  <2>1. Heartbeat(c) = Tested(c)
    BY <1>2 DEF Heartbeat
  <2> QED BY <1>2, <2>1, TestedChannel DEF Keeps
<1> QED BY <1>1, <1>2

\* A record that fits is appended; one that does not ends the channel.
LEMMA PushedChannel ==
  ASSUME NEW c, ChannelOK(c), NEW record \in FactRecords, c.scope # 0,
         c.abort # "None" => c.log = <<>>
  PROVE  LET d == Push(c, record) IN
         /\ ChannelOK(d) /\ d.scope = c.scope /\ Grows(c, d)
         /\ \/ d.abort # "None" /\ Ends(c, d) /\ d.abort \in {c.abort, "Overflow"}
            \/ /\ d.log = Append(c.log, record) /\ d.abort = c.abort /\ d.ack = c.ack
               /\ d.age = c.age /\ d.consumed = c.consumed
         /\ c.log = <<>> => d.log = <<record>>
<1> DEFINE d == Push(c, record)
<1>0. c \in ChannelType /\ Len(c.log) \in Nat /\ c.log \in Seq(FactRecords)
  BY DEF ChannelOK, ChannelType
<1>1. CASE Len(c.log) >= SourceCapacity + 2 \/ Len(c.log) - c.consumed >= Capacity
  <2>1. d = Invalidate(c, "Overflow")
    BY <1>1 DEF Push
  <2>2. c.log # <<>>
    <3>1. ASSUME c.log = <<>> PROVE FALSE
      <4>1. Len(c.log) = 0 /\ c.consumed \in Nat /\ c.consumed <= Len(c.log)
        BY <3>1, <1>0 DEF ChannelOK, ChannelType
      <4> QED BY <4>1, <1>1, Constants
    <3> QED BY <3>1
  <2>3. c.abort = "None"
    BY <2>2
  <2>4. d = Aborted(c, "Overflow")
    BY <2>1, <2>3 DEF Invalidate
  <2> QED BY <2>1, <2>2, <2>4, AbortedChannel, InvalidatedChannel DEF Reasons, Aborts, Ends
<1>2. CASE ~(Len(c.log) >= SourceCapacity + 2 \/ Len(c.log) - c.consumed >= Capacity)
  <2>1. d = [c EXCEPT !.log = Append(c.log, record)]
    BY <1>2 DEF Push
  <2>2. /\ d.log = Append(c.log, record) /\ d.abort = c.abort /\ d.ack = c.ack /\ d.age = c.age
        /\ d.consumed = c.consumed /\ d.scope = c.scope
    BY <2>1, <1>0 DEF ChannelType
  <2>3. /\ Append(c.log, record) \in Seq(FactRecords) /\ Len(Append(c.log, record)) = Len(c.log) + 1
        /\ \A k \in 1..Len(c.log) : Append(c.log, record)[k] = c.log[k]
    BY <1>0
  <2>4. d \in ChannelType
    BY <2>1, <2>3, <1>0 DEF ChannelType
  <2>5. c.log = <<>> => Append(c.log, record) = <<record>>
    OBVIOUS
  <2>6. c.consumed \in Nat /\ c.ack.ordinal \in Nat
    BY <1>0 DEF ChannelType, AckType
  <2>7. ChannelOK(d)
    <3>1. c.abort # "None" => Len(Append(c.log, record)) <= 1
      BY <2>3
    <3>2. c.consumed <= Len(c.log) /\ c.ack.ordinal <= Len(c.log)
      BY DEF ChannelOK
    <3> QED BY <2>2, <2>3, <2>4, <2>6, <3>1, <3>2, <1>0, <1>2, Constants DEF ChannelOK
  <2>8. Grows(c, d)
    BY <2>2, <2>3, <1>0 DEF Grows
  <2> QED BY <2>2, <2>5, <2>7, <2>8
<1> QED BY <1>1, <1>2

LEMMA BoundChannel ==
  ASSUME NEW c, ChannelOK(c), c.scope = 0, NEW scope \in Nat, scope # 0
  PROVE  LET d == Bind(c, scope) IN
         /\ ChannelOK(d) /\ d.scope = scope /\ Grows(c, d) /\ d.abort = c.abort
         /\ d.log = <<ResetCommand>> /\ d.ack.ordinal = 0
<1> DEFINE e == [c EXCEPT !.scope = scope, !.age = 0]
<1>0. c \in ChannelType /\ c.log = <<>> /\ c.ack \in AckType /\ Len(c.log) = 0
  BY DEF ChannelOK, ChannelType
<1>1. /\ e.scope = scope /\ e.log = c.log /\ e.abort = c.abort /\ e.ack = c.ack
      /\ e.consumed = c.consumed /\ e \in ChannelType
  BY <1>0 DEF ChannelType
<1>2. ChannelOK(e)
  BY <1>0, <1>1 DEF ChannelOK
<1>3. ResetCommand \in FactRecords
  BY Constants DEF ResetCommand, FactRecords, FactKinds, Replayed
<1>4. Bind(c, scope) = Push(e, ResetCommand)
  BY DEF Bind
<1>5. LET d == Push(e, ResetCommand) IN
      /\ ChannelOK(d) /\ d.scope = e.scope
      /\ \/ Ends(e, d)
         \/ d.abort = e.abort /\ d.ack = e.ack /\ d.consumed = e.consumed
      /\ d.log = <<ResetCommand>>
  <2> HIDE DEF e
  <2> QED BY <1>0, <1>1, <1>2, <1>3, PushedChannel
<1>6. <<ResetCommand>> # <<>> /\ Len(<<ResetCommand>>) = 1
  OBVIOUS
<1>7. c.ack.ordinal = 0
  BY <1>0 DEF ChannelOK, AckType
<1> HIDE DEF e
<1> QED BY <1>0, <1>1, <1>4, <1>5, <1>6, <1>7 DEF Ends, Grows

LEMMA PublishedChannel ==
  ASSUME NEW c, ChannelOK(c), IsBound(c), NEW p \in ProducerType, NEW record \in FactRecords
  PROVE  LET d == Publish(c, p, record) IN
         /\ ChannelOK(d) /\ d.scope = c.scope /\ Grows(c, d)
         /\ \/ /\ Healthy(d) /\ Healthy(c) /\ p.sources # SourceCapacity /\ InOrder(p, record)
               /\ d.log = Append(c.log, record) /\ d.abort = c.abort
            \/ /\ ~Healthy(d) /\ d.abort # "None" /\ (Ends(c, d) \/ Keeps(c, d))
               /\ d.abort = "InvalidOrder" =>
                    c.abort = "InvalidOrder" \/ (Healthy(c) /\ ~InOrder(p, record))
<1> DEFINE d == Publish(c, p, record)
<1>1. CASE ~Healthy(c)
  <2>1. d = Tested(c)
    BY <1>1 DEF Publish
  <2>2. /\ ChannelOK(d) /\ d.scope = c.scope /\ Grows(c, d)
        /\ Ends(c, d) \/ d = c
        /\ d.abort = c.abort \/ d.abort = "HeartbeatExpired"
        /\ d.abort # "None"
    BY <1>1, <2>1, TestedChannel
  <2> QED BY <2>2 DEF Healthy, Keeps
<1>2. CASE Healthy(c)
  <2>0. c.scope # 0 /\ c.abort = "None" /\ c.age <= TimeoutTicks
    BY <1>2 DEF Healthy, IsBound
  <2>1. CASE p.sources = SourceCapacity
    <3>1. d = Invalidate(c, "SourceLimit")
      BY <1>2, <2>1 DEF Publish
    <3> QED BY <3>1, <2>0, InvalidatedChannel DEF Reasons, Aborts, Healthy
  <2>2. CASE p.sources # SourceCapacity /\ ~InOrder(p, record)
    <3>1. d = Invalidate(c, "InvalidOrder")
      BY <1>2, <2>2 DEF Publish
    <3> QED BY <1>2, <2>2, <3>1, <2>0, InvalidatedChannel DEF Reasons, Aborts, Healthy
  <2>3. CASE p.sources # SourceCapacity /\ InOrder(p, record)
    <3>1. d = Push(c, record)
      BY <1>2, <2>3 DEF Publish
    <3>2. /\ ChannelOK(d) /\ d.scope = c.scope /\ Grows(c, d)
          /\ \/ d.abort # "None" /\ Ends(c, d) /\ d.abort \in {c.abort, "Overflow"}
             \/ d.log = Append(c.log, record) /\ d.abort = c.abort /\ d.age = c.age
      BY <3>1, <2>0, PushedChannel
    <3> QED BY <1>2, <2>0, <2>3, <3>2 DEF Healthy, IsBound
  <2> QED BY <2>1, <2>2, <2>3
<1> QED BY <1>1, <1>2

LEMMA AckedChannel ==
  ASSUME NEW c, ChannelOK(c), NEW ack \in AckType, ack.ordinal <= Len(c.log)
  PROVE  LET d == PublishAck(c, ack) IN
         /\ ChannelOK(d) /\ d.scope = c.scope /\ Keeps(c, d) /\ d.consumed = c.consumed
         /\ d.ack = ack \/ d.ack = c.ack
<1> DEFINE d == PublishAck(c, ack)
<1>1. d = c \/ d = [c EXCEPT !.ack = ack]
  BY DEF PublishAck
<1>2. c \in ChannelType
  BY DEF ChannelOK
<1> QED BY <1>1, <1>2 DEF ChannelOK, ChannelType, Keeps

LEMMA SilentChannel ==
  ASSUME NEW c, ChannelOK(c)
  PROVE  LET d == Silent(c) IN
         /\ ChannelOK(d) /\ d.scope = c.scope /\ Keeps(c, d) /\ d.ack = c.ack /\ d.consumed = c.consumed
<1> DEFINE d == Silent(c)
           a == IF IsBound(c) /\ c.abort = "None" /\ c.age <= TimeoutTicks THEN c.age + 1 ELSE c.age
<1>1. c \in ChannelType
  BY DEF ChannelOK
<1>2. d = [c EXCEPT !.age = a]
  BY DEF Silent
<1>3. a \in Nat
  BY <1>1 DEF ChannelType
<1> HIDE DEF a
<1> QED BY <1>1, <1>2, <1>3 DEF ChannelOK, ChannelType, Keeps

-----------------------------------------------------------------------------
(* A runtime and its mappings *)

\* What every step of the runtime does to the mappings, for the owner's eyes.
Moves(w, w2) ==
  /\ w2.rt.last >= w.rt.last
  /\ \A l \in Lifetimes : /\ Grows(w.chan[l], w2.chan[l])
                          /\ l > owner.view => w2.chan[l].scope = w.chan[l].scope

LEMMA GrowsOn ==
  ASSUME NEW c, NEW d, NEW e, ChannelOK(c), ChannelOK(d), ChannelOK(e), Grows(c, d), Grows(d, e)
  PROVE  Grows(c, e)
<1>1. Len(c.log) \in Nat /\ Len(d.log) \in Nat /\ Len(e.log) \in Nat
  BY DEF ChannelOK, ChannelType
<1>2. CASE e.abort # "None" /\ e.ack.ordinal = 0
  BY <1>2 DEF Grows
<1>3. CASE ~(e.abort # "None" /\ e.ack.ordinal = 0)
  <2>1. /\ e.ack = d.ack /\ e.consumed = d.consumed /\ (e.abort = "None" => d.abort = "None")
        /\ Len(d.log) <= Len(e.log) /\ \A k \in 1..Len(d.log) : e.log[k] = d.log[k]
    BY <1>3 DEF Grows
  <2>2. /\ d.ack = c.ack /\ d.consumed = c.consumed /\ (d.abort = "None" => c.abort = "None")
        /\ Len(c.log) <= Len(d.log) /\ \A k \in 1..Len(c.log) : d.log[k] = c.log[k]
    BY <1>3, <2>1 DEF Grows
  <2>3. \A k \in 1..Len(c.log) : e.log[k] = c.log[k]
    BY <2>1, <2>2, <1>1
  <2> QED BY <2>1, <2>2, <2>3, <1>1 DEF Grows
<1> QED BY <1>2, <1>3

LEMMA GrowsNot ==
  ASSUME NEW c, ChannelOK(c)
  PROVE  Grows(c, c)
BY DEF ChannelOK, ChannelType, Grows

LEMMA MovesOn ==
  ASSUME NEW u, NEW v, NEW w, Typed(u), Typed(v), Typed(w), Moves(u, v), Moves(v, w)
  PROVE  Moves(u, w)
<1>1. u.rt.last \in Int /\ v.rt.last \in Int /\ w.rt.last \in Int
  <2>1. ASSUME NEW r \in RuntimeType PROVE r.last \in Int
    BY DEF RuntimeType, Lifetimes
  <2>2. u.rt \in RuntimeType /\ v.rt \in RuntimeType /\ w.rt \in RuntimeType
    BY DEF Typed, WorldType
  <2> QED BY <2>1, <2>2
<1>2. ASSUME NEW l \in Lifetimes PROVE Grows(u.chan[l], w.chan[l])
  <2>1. ChannelOK(u.chan[l]) /\ ChannelOK(v.chan[l]) /\ ChannelOK(w.chan[l])
    BY DEF Typed
  <2>2. Grows(u.chan[l], v.chan[l]) /\ Grows(v.chan[l], w.chan[l])
    BY DEF Moves
  <2> QED BY <2>1, <2>2, GrowsOn
<1> QED BY <1>1, <1>2 DEF Moves

LEMMA MovesNot ==
  ASSUME NEW w, Typed(w)
  PROVE  Moves(w, w)
BY GrowsNot DEF Moves, Typed, WorldType, RuntimeType, Lifetimes

LEMMA BlockedIs ==
  ASSUME NEW w \in WorldType
  PROVE  /\ Blocked(w) \in WorldType /\ Blocked(w).chan = w.chan
         /\ Blocked(w).rt = [w.rt EXCEPT !.blocked = TRUE]
BY DEF Blocked, WorldType, RuntimeType

LEMMA RemappedIs ==
  ASSUME NEW w \in WorldType, NEW d \in ChannelType
  PROVE  LET w2 == WithMapping(w, d) IN
         /\ w2 \in WorldType /\ w2.rt = w.rt /\ w2.chan[w.rt.view] = d /\ Mapping(w2) = d
         /\ \A l \in Lifetimes \ {w.rt.view} : w2.chan[l] = w.chan[l]
BY DEF WithMapping, Mapping, WorldType, RuntimeType

LEMMA RetypedWorld ==
  ASSUME NEW w \in WorldType, NEW r \in RuntimeType
  PROVE  [w EXCEPT !.rt = r] \in WorldType /\ [w EXCEPT !.rt = r].rt = r /\ [w EXCEPT !.rt = r].chan = w.chan
BY DEF WorldType

\* A runtime that no longer feeds its mapping: if it produces, the mapping is dead.
Cut(w, w2) ==
  /\ w2 \in WorldType
  /\ w2.rt.view = w.rt.view /\ w2.rt.producer = w.rt.producer /\ w2.rt.p = w.rt.p /\ w2.rt.last = w.rt.last
  /\ \A l \in Lifetimes \ {w.rt.view} : w2.chan[l] = w.chan[l]
  /\ ChannelOK(Mapping(w2)) /\ Mapping(w2).scope = Mapping(w).scope /\ Grows(Mapping(w), Mapping(w2))
  /\ Mapping(w2).abort = "InvalidOrder" => w.rt.view # 1 \/ Mapping(w).abort = "InvalidOrder"
  /\ w.rt.producer => Mapping(w2).abort # "None"
  /\ w2.rt.blocked \/ w2.rt.cur = 0
  /\ w2.rt.excluded = w.rt.excluded \/ (w2.rt.excluded = 0 /\ ~IsBound(Mapping(w)))
  /\ w2.rt.cur \in {0, w.rt.cur}
  /\ w2.rt.quarantined => w2.rt.blocked
  /\ \/ w2.rt.recovering = w.rt.recovering /\ w2.rt.cur = w.rt.cur
     \/ w2.rt.recovering = "no"
     \/ w2.rt.recovering = "lost" /\ IsBound(Mapping(w))
     \/ w2.rt.recovering = "joined" /\ w.rt.recovering = "result" /\ w2.rt.cur = w.rt.cur

\* Whatever the host does, nothing more can go wrong with a mapping that was cut.
LEMMA CutIsGood ==
  ASSUME NEW w, NEW w2, NEW H, NEW H2, Base(w, H), HostOK(H2), Cut(w, w2)
  PROVE  Good(w2, H2) /\ Moves(w, w2)
<1> DEFINE v == w.rt.view
<1>0. /\ w \in WorldType /\ w2 \in WorldType /\ v \in Lifetimes /\ 1 \in Lifetimes
      /\ Mapping(w) = w.chan[v] /\ Mapping(w2) = w2.chan[v] /\ v = w2.rt.view
      /\ w.rt \in RuntimeType /\ w2.rt \in RuntimeType
  BY Constants DEF Base, Typed, Cut, WorldType, RuntimeType, Mapping, Lifetimes
<1>1. \A l \in Lifetimes : ChannelOK(w2.chan[l]) /\ w2.chan[l].scope = w.chan[l].scope
                           /\ Grows(w.chan[l], w2.chan[l])
  BY <1>0, GrowsNot DEF Cut, Base, Typed
<1>2. Typed(w2)
  BY <1>0, <1>1 DEF Typed, Base, Cut
<1>3. Bindings(w2)
  <2>1. \A l \in Lifetimes : w2.chan[l].scope <= w2.rt.last /\ (l # 1 => w2.chan[l].scope \in {0, l})
    BY <1>1 DEF Base, Bindings, Cut
  <2>2. /\ IsBound(Mapping(w2)) <=> IsBound(Mapping(w))
        /\ w2.rt.producer = w.rt.producer /\ w2.rt.p = w.rt.p
    BY <1>0, <1>1 DEF IsBound, Cut
  <2>3. /\ w2.rt.recovering # "no" => IsBound(Mapping(w2))
        /\ w2.rt.recovering \in {"joined", "result", "adopted"} => w2.rt.cur >= 2
        /\ w2.rt.recovering = "adopted" => w2.rt.view # 1
    BY <2>2 DEF Base, Bindings, Cut
  <2>4. ASSUME w2.rt.recovering \in {"joined", "result"} PROVE w2.chan[w2.rt.cur].scope = 0
    <3>1. w.rt.recovering \in {"joined", "result"} /\ w2.rt.cur = w.rt.cur
      BY <2>4 DEF Cut
    <3>2. w.rt.cur \in Lifetimes /\ w.chan[w.rt.cur].scope = 0
      BY <3>1, <1>0 DEF Base, Bindings, Typed, RuntimeType
    <3> QED BY <3>1, <3>2, <1>1
  <2> QED BY <1>0, <2>1, <2>2, <2>3, <2>4 DEF Base, Bindings, Cut
<1>4. Live(w2) /\ Agrees(w2, H2) /\ Ready(w2, H2)
  BY DEF Live, Agrees, Ready, Cut
<1>5. Counted(w2)
  BY <1>0, Constants DEF Counted, Cut, Base, IsBound
<1>6. Whole(w2, H2)
  <2>1. w2.rt.producer => Len(Mapping(w2).log) <= 1
    BY DEF Cut, ChannelOK
  <2>2. Len(Mapping(w2).log) \in Nat
    BY DEF Cut, ChannelOK, ChannelType
  <2> QED BY <2>1, <2>2 DEF Whole
<1>7. w2.chan[1].abort # "InvalidOrder"
  BY <1>0 DEF Base, Cut
<1>8. Moves(w, w2)
  BY <1>0, <1>1 DEF Moves, Cut, RuntimeType, Lifetimes
<1> QED BY <1>2, <1>3, <1>4, <1>5, <1>6, <1>7, <1>8 DEF Good, Base

-----------------------------------------------------------------------------
(* What cuts a mapping off *)

\* A mapping invalidated, and what the callers do to the runtime.
LEMMA RejectedIs ==
  ASSUME NEW w, NEW H, Base(w, H), NEW why \in Reasons, why # "HeartbeatExpired",
         why = "InvalidOrder" => w.rt.view # 1
  PROVE  LET u == Reject(w, why) IN
         u.rt = [w.rt EXCEPT !.blocked = TRUE] /\ Cut(w, u)
<1> DEFINE d == Invalidate(Mapping(w), why)
           x == WithMapping(w, d)
           u == Reject(w, why)
<1>0. w \in WorldType /\ ChannelOK(Mapping(w)) /\ w.rt \in RuntimeType /\ w.rt.view \in Lifetimes
  BY DEF Base, Typed, WorldType, RuntimeType, Mapping
<1>1. /\ ChannelOK(d) /\ d.scope = Mapping(w).scope /\ d.abort # "None" /\ Grows(Mapping(w), d)
      /\ d.abort = Mapping(w).abort \/ d.abort = why
  BY <1>0, InvalidatedChannel
<1>2. d \in ChannelType
  BY <1>1 DEF ChannelOK
<1> HIDE DEF d
<1>3. /\ x \in WorldType /\ x.rt = w.rt /\ x.chan[w.rt.view] = d /\ Mapping(x) = d
      /\ \A l \in Lifetimes \ {w.rt.view} : x.chan[l] = w.chan[l]
  BY <1>0, <1>2, RemappedIs
<1>4. u = Blocked(x)
  BY DEF Reject, d
<1> HIDE DEF x
<1>5. u \in WorldType /\ u.chan = x.chan /\ u.rt = [w.rt EXCEPT !.blocked = TRUE]
  BY <1>3, <1>4, BlockedIs
<1> HIDE DEF u
<1>6. Mapping(u) = d
  BY <1>0, <1>3, <1>5 DEF Mapping, RuntimeType
<1>7. Cut(w, u)
  BY <1>0, <1>1, <1>3, <1>5, <1>6 DEF Cut, RuntimeType
<1> QED BY <1>5, <1>7 DEF u

LEMMA RejectedGood ==
  ASSUME NEW w, NEW H, NEW H2, Base(w, H), HostOK(H2), NEW why \in Reasons, why # "HeartbeatExpired",
         why = "InvalidOrder" => w.rt.view # 1
  PROVE  Good(Reject(w, why), H2) /\ Moves(w, Reject(w, why))
BY RejectedIs, CutIsGood

\* A quarantined connection, which may have been waiting to adopt a mapping.
LEMMA QuarantinedGood ==
  ASSUME NEW w, NEW H, Base(w, H)
  PROVE  /\ Good(Quarantine(w), H) /\ Moves(w, Quarantine(w))
         /\ w.rt.recovering = "result" =>
              LET u == [Quarantine(w) EXCEPT !.rt.recovering = "joined"] IN Good(u, H) /\ Moves(w, u)
<1> DEFINE x == Reject(w, "Unsupported")
           q == Quarantine(w)
           u == [q EXCEPT !.rt.recovering = "joined"]
<1>0. w.rt \in RuntimeType /\ HostOK(H)
  BY DEF Base, Typed, WorldType
<1>1. x.rt = [w.rt EXCEPT !.blocked = TRUE] /\ Cut(w, x)
  BY RejectedIs DEF Reasons, Aborts
<1> HIDE DEF x
<1>2. q = [x EXCEPT !.rt.quarantined = TRUE]
  BY DEF Quarantine, x
<1>3. x \in WorldType
  BY <1>1 DEF Cut
<1>4. q \in WorldType /\ q.rt = [x.rt EXCEPT !.quarantined = TRUE] /\ q.chan = x.chan
  <2>1. x.rt \in RuntimeType
    BY <1>3 DEF WorldType
  <2>2. [x.rt EXCEPT !.quarantined = TRUE] \in RuntimeType
    BY <2>1 DEF RuntimeType
  <2>3. q = [x EXCEPT !.rt = [x.rt EXCEPT !.quarantined = TRUE]]
    BY <1>2
  <2> HIDE DEF q
  <2>4. ASSUME NEW r \in RuntimeType, q = [x EXCEPT !.rt = r]
        PROVE  q \in WorldType /\ q.rt = r /\ q.chan = x.chan
    BY <1>3, <2>4, RetypedWorld
  <2> QED BY <2>2, <2>3, <2>4
<1> HIDE DEF q
<1>5. u \in WorldType /\ u.rt = [q.rt EXCEPT !.recovering = "joined"] /\ u.chan = x.chan
  BY <1>4 DEF WorldType, RuntimeType
<1> HIDE DEF u
<1>6. Mapping(q) = Mapping(x) /\ Mapping(u) = Mapping(x)
  BY <1>0, <1>1, <1>4, <1>5 DEF Mapping, RuntimeType
<1>7. Cut(w, q)
  BY <1>0, <1>1, <1>4, <1>6 DEF Cut, RuntimeType
<1>8. w.rt.recovering = "result" => Cut(w, u)
  BY <1>0, <1>1, <1>4, <1>5, <1>6 DEF Cut, RuntimeType
<1> QED BY <1>0, <1>7, <1>8, CutIsGood DEF q, u

LEMMA RetiredIs ==
  ASSUME NEW w, NEW H, Base(w, H), NEW why \in {"Unsupported", "BindingReset"}
  PROVE  LET u == Retire(w, why) IN
         /\ u \in WorldType
         /\ IsBound(Mapping(w)) => u.rt = [w.rt EXCEPT !.blocked = TRUE] /\ Cut(w, u)
         /\ ~IsBound(Mapping(w)) => u.rt = [w.rt EXCEPT !.excluded = 0, !.baseline = 0] /\ u.chan = w.chan
<1> DEFINE u == Retire(w, why)
<1>0. w \in WorldType /\ ChannelOK(Mapping(w)) /\ w.rt \in RuntimeType
  BY DEF Base, Typed, WorldType, RuntimeType, Mapping
<1>1. CASE ~IsBound(Mapping(w))
  BY <1>0, <1>1 DEF Retire, WorldType, RuntimeType
<1>2. CASE IsBound(Mapping(w)) /\ w.rt.producer
  <2>1. u = Reject(w, why)
    BY <1>2 DEF Retire, Reject, Reset
  <2>2. u.rt = [w.rt EXCEPT !.blocked = TRUE] /\ Cut(w, u)
    BY <2>1, RejectedIs DEF Reasons, Aborts
  <2> QED BY <1>2, <2>2 DEF Cut
<1>3. CASE IsBound(Mapping(w)) /\ ~w.rt.producer
  <2>1. u = Blocked(w)
    BY <1>3 DEF Retire
  <2>2. u \in WorldType /\ u.chan = w.chan /\ u.rt = [w.rt EXCEPT !.blocked = TRUE]
    BY <2>1, <1>0, BlockedIs
  <2>3. Mapping(u) = Mapping(w) /\ Grows(Mapping(w), Mapping(w))
    BY <1>0, <2>2, GrowsNot DEF Mapping, RuntimeType
  <2>4. Cut(w, u)
    BY <1>0, <1>3, <2>2, <2>3 DEF Cut, RuntimeType
  <2> QED BY <1>3, <2>2, <2>4
<1> QED BY <1>1, <1>2, <1>3

LEMMA RetiredGood ==
  ASSUME NEW w, NEW H, Base(w, H), NEW why \in {"Unsupported", "BindingReset"}, IsBound(Mapping(w))
  PROVE  Good(Retire(w, why), H) /\ Moves(w, Retire(w, why))
BY RetiredIs, CutIsGood DEF Base

\* A connection that is lost takes the mapping with it.
LEMMA LostGood ==
  ASSUME NEW w, NEW H, Base(w, H), NEW u \in WorldType,
         u.chan = Retire(w, "BindingReset").chan,
         NEW left \in Nat, NEW recovering \in {"no", "lost"}, recovering = "lost" => IsBound(Mapping(w)),
         u.rt = [Retire(w, "BindingReset").rt EXCEPT !.cur = 0, !.left = left, !.recovering = recovering]
  PROVE  Good(u, H) /\ Moves(w, u)
<1> DEFINE x == Retire(w, "BindingReset")
<1>0. w \in WorldType /\ w.rt \in RuntimeType /\ ChannelOK(Mapping(w))
  BY DEF Base, Typed, WorldType, RuntimeType, Mapping
<1>1. CASE IsBound(Mapping(w))
  <2>1. x.rt = [w.rt EXCEPT !.blocked = TRUE] /\ Cut(w, x)
    BY <1>1, RetiredIs
  <2> HIDE DEF x
  <2>2. u.rt = [x.rt EXCEPT !.cur = 0, !.left = left, !.recovering = recovering] /\ u.chan = x.chan
    BY DEF x
  <2>3. Mapping(u) = Mapping(x)
    BY <1>0, <2>1, <2>2 DEF Mapping, RuntimeType
  <2>4. /\ u.rt.cur = 0 /\ u.rt.last = w.rt.last /\ u.rt.view = w.rt.view
        /\ u.rt.producer = w.rt.producer /\ u.rt.p = w.rt.p /\ u.rt.blocked = TRUE
        /\ u.rt.excluded = w.rt.excluded /\ u.rt.recovering = recovering /\ u.rt.quarantined = w.rt.quarantined
    <3>1. x.rt \in RuntimeType
      BY <1>0, <2>1 DEF RuntimeType
    <3>2. /\ u.rt.cur = 0 /\ u.rt.last = x.rt.last /\ u.rt.view = x.rt.view
          /\ u.rt.producer = x.rt.producer /\ u.rt.p = x.rt.p /\ u.rt.blocked = x.rt.blocked
          /\ u.rt.excluded = x.rt.excluded /\ u.rt.recovering = recovering
          /\ u.rt.quarantined = x.rt.quarantined
      BY <2>2, <3>1 DEF RuntimeType
    <3> QED BY <1>0, <2>1, <3>2 DEF RuntimeType
  <2>5. Cut(w, u)
    BY <1>1, <2>1, <2>2, <2>3, <2>4 DEF Cut
  <2> QED BY <2>5, CutIsGood DEF Base
<1>2. CASE ~IsBound(Mapping(w))
  <2>1. x \in WorldType /\ x.rt = [w.rt EXCEPT !.excluded = 0, !.baseline = 0] /\ x.chan = w.chan
    BY <1>2, RetiredIs
  <2> HIDE DEF x
  <2>2. u.rt = [x.rt EXCEPT !.cur = 0, !.left = left, !.recovering = recovering] /\ u.chan = w.chan
    BY <2>1 DEF x
  <2>3. Mapping(u) = Mapping(w) /\ Grows(Mapping(w), Mapping(w))
    <3>1. x.rt \in RuntimeType /\ x.rt.view = w.rt.view
      BY <1>0, <2>1 DEF WorldType, RuntimeType
    <3>2. u.rt.view = x.rt.view
      BY <2>2, <3>1 DEF RuntimeType
    <3> QED BY <1>0, <2>2, <3>1, <3>2, GrowsNot DEF Mapping
  <2>4. ~w.rt.producer /\ recovering = "no" /\ (w.rt.quarantined => w.rt.blocked)
    BY <1>2 DEF Base, Bindings
  <2>5. /\ u.rt.cur = 0 /\ u.rt.last = w.rt.last /\ u.rt.view = w.rt.view
        /\ u.rt.producer = w.rt.producer /\ u.rt.p = w.rt.p /\ u.rt.blocked = w.rt.blocked
        /\ u.rt.excluded = 0 /\ u.rt.recovering = recovering /\ u.rt.quarantined = w.rt.quarantined
    <3>1. x.rt \in RuntimeType
      BY <2>1 DEF WorldType
    <3>2. /\ u.rt.cur = 0 /\ u.rt.last = x.rt.last /\ u.rt.view = x.rt.view
          /\ u.rt.producer = x.rt.producer /\ u.rt.p = x.rt.p /\ u.rt.blocked = x.rt.blocked
          /\ u.rt.excluded = x.rt.excluded /\ u.rt.recovering = recovering
          /\ u.rt.quarantined = x.rt.quarantined
      BY <2>2, <3>1 DEF RuntimeType
    <3> QED BY <1>0, <2>1, <3>2 DEF RuntimeType
  <2>6. Cut(w, u)
    BY <1>0, <1>2, <2>1, <2>2, <2>3, <2>4, <2>5 DEF Cut
  <2> QED BY <2>6, CutIsGood DEF Base
<1> QED BY <1>1, <1>2

-----------------------------------------------------------------------------
(* What leaves the producer and its records alone *)

\* A runtime whose clock alone may have moved.
Same(r, s) ==
  /\ s.cur = r.cur /\ s.last = r.last /\ s.view = r.view /\ s.producer = r.producer /\ s.p = r.p
  /\ s.blocked = r.blocked /\ s.baseline = r.baseline /\ s.excluded = r.excluded
  /\ s.recovering = r.recovering /\ s.quarantined = r.quarantined

\* The game and the clock may end mappings or acknowledge their records, no more.
Played(w, w2) ==
  \A l \in Lifetimes :
    /\ ChannelOK(w2.chan[l]) /\ w2.chan[l].scope = w.chan[l].scope
    /\ \/ Keeps(w.chan[l], w2.chan[l])
       \/ Ends(w.chan[l], w2.chan[l]) /\ w2.chan[l].abort # "InvalidOrder"

LEMMA TouchedGood ==
  ASSUME NEW w, NEW w2, NEW H, Good(w, H), w2 \in WorldType, Same(w.rt, w2.rt), Played(w, w2)
  PROVE  Good(w2, H)
<1> DEFINE c == Mapping(w)
           d == Mapping(w2)
<1> USE DEF Played
<1>0. /\ w \in WorldType /\ w.rt.view \in Lifetimes /\ 1 \in Lifetimes
      /\ c = w.chan[w.rt.view] /\ d = w2.chan[w.rt.view]
      /\ w.rt \in RuntimeType /\ w2.rt \in RuntimeType
  BY Constants DEF Good, Base, Typed, WorldType, RuntimeType, Mapping, Same, Lifetimes
<1>1. /\ d.scope = c.scope
      /\ \/ d.log = c.log /\ d.abort = c.abort
         \/ d.log = <<>> /\ d.abort # "None"
  BY <1>0 DEF Keeps, Ends
<1> HIDE DEF c, d
<1>2. Typed(w2)
  BY <1>0 DEF Typed, Good, Base, Same
<1>3. Bindings(w2)
  <2>1. \A l \in Lifetimes : w2.chan[l].scope <= w2.rt.last /\ (l # 1 => w2.chan[l].scope \in {0, l})
    BY DEF Good, Base, Bindings, Same
  <2>2. IsBound(Mapping(w2)) <=> IsBound(Mapping(w))
    BY <1>1 DEF IsBound, c, d
  <2>3. w2.rt.recovering \in {"joined", "result"} => w2.chan[w2.rt.cur].scope = 0
    <3>1. w.rt.recovering \in {"joined", "result"} =>
            w.rt.cur >= 2 /\ w.chan[w.rt.cur].scope = 0 /\ w.rt.cur \in Lifetimes
      BY <1>0 DEF Good, Base, Bindings, Typed, RuntimeType
    <3> QED BY <3>1 DEF Same
  <2> QED BY <2>1, <2>2, <2>3 DEF Good, Base, Bindings, Same
<1>4. Live(w2) /\ Agrees(w2, H)
  BY <1>1 DEF Good, Base, Live, Agrees, Same, c, d
<1>5. Ready(w2, H)
  BY <1>1 DEF Good, Ready, IsBound, Same, c, d
<1>6. Counted(w2)
  BY <1>1 DEF Good, Base, Counted, IsBound, Same, c, d
<1>7. Whole(w2, H)
  <2>1. Len(<<>>) = 0
    OBVIOUS
  <2> QED BY <1>1, <2>1 DEF Good, Base, Whole, Same, c, d
<1>8. w2.chan[1].abort # "InvalidOrder"
  BY <1>0 DEF Good, Base, Keeps
<1> QED BY <1>2, <1>3, <1>4, <1>5, <1>6, <1>7, <1>8 DEF Good, Base

\* Arming takes the room of the baseline, which is the host's.
LEMMA ArmedGood ==
  ASSUME NEW w, NEW H, Good(w, H), w.rt.producer, ~w.rt.blocked, Mapping(w).abort = "None"
  PROVE  Good(Arm(w), H) /\ Moves(w, Arm(w))
<1> DEFINE c == Mapping(w)
           u == Arm(w)
           arms == w.rt.p.epoch = 0 /\ c.ack.epoch = w.rt.baseline /\ c.ack.ordinal = 1 /\ c.ack.ready
<1>0. /\ w \in WorldType /\ w.rt \in RuntimeType /\ w.rt.p \in ProducerType /\ w.rt.view \in Lifetimes
      /\ ChannelOK(c) /\ HostOK(H) /\ Typed(w)
  BY DEF Good, Base, Typed, WorldType, RuntimeType, Mapping
<1>1. CASE ~arms
  <2>1. u = w
    BY <1>1 DEF Arm
  <2> QED BY <2>1, <1>0, MovesNot
<1>2. CASE arms
  <2> DEFINE e == c.ack.epoch
             p2 == [w.rt.p EXCEPT !.epoch = e]
  <2>1. e \in Nat /\ e = w.rt.baseline
    BY <1>0, <1>2 DEF ChannelOK, ChannelType, AckType
  <2>2. p2 \in ProducerType /\ p2.epoch = e /\ p2.active = w.rt.p.active /\ p2.sources = w.rt.p.sources
    BY <1>0, <2>1 DEF ProducerType
  <2>3. u = [w EXCEPT !.rt = [w.rt EXCEPT !.p = p2]]
    BY <1>2 DEF Arm
  <2> HIDE DEF p2
  <2>4. u \in WorldType /\ u.chan = w.chan /\ u.rt = [w.rt EXCEPT !.p = p2] /\ u.rt \in RuntimeType
    BY <2>2, <2>3, <1>0 DEF WorldType, RuntimeType
  <2>5. /\ u.rt.cur = w.rt.cur /\ u.rt.last = w.rt.last /\ u.rt.view = w.rt.view
        /\ u.rt.producer = w.rt.producer /\ u.rt.p = p2 /\ u.rt.blocked = w.rt.blocked
        /\ u.rt.baseline = w.rt.baseline /\ u.rt.excluded = w.rt.excluded
        /\ u.rt.recovering = w.rt.recovering /\ u.rt.quarantined = w.rt.quarantined
    BY <2>4, <1>0 DEF RuntimeType
  <2> HIDE DEF u
  <2>6. Mapping(u) = c
    BY <2>4, <2>5 DEF Mapping
  <2>7. Typed(u) /\ Moves(w, u)
    BY <1>0, <2>4, <2>5, MovesNot DEF Typed, Moves
  <2>8. Bindings(u)
    BY <1>2, <2>2, <2>4, <2>5, <2>6 DEF Good, Base, Bindings
  <2>9. Live(u) /\ Counted(u)
    BY <1>2, <2>2, <2>5, <2>6 DEF Good, Base, Live, Counted
  <2>10. Whole(u, H)
    <3>1. ~(Len(c.log) > 1)
      BY <1>2 DEF Good, Base, Whole
    <3> QED BY <3>1, <2>5, <2>6 DEF Whole
  <2>11. Agrees(u, H)
    <3>1. ASSUME w.rt.view = 1, p2.epoch # 0 PROVE p2.epoch = H.epoch /\ p2.active = H.active
      <4>1. w.rt.cur # 0 /\ w.rt.recovering \in {"no", "adopted"}
        BY DEF Good, Base, Live
      <4>2. w.rt.recovering = "no"
        BY <3>1, <4>1 DEF Good, Base, Bindings
      <4>3. w.rt.baseline = H.epoch /\ ~H.active
        BY <1>2, <3>1, <4>1, <4>2 DEF Good, Ready
      <4>4. ~w.rt.p.active /\ w.rt.p.active \in BOOLEAN /\ H.active \in BOOLEAN
        BY <1>0, <1>2 DEF Good, Base, Bindings, ProducerType, HostOK, HostType
      <4> QED BY <2>1, <2>2, <4>3, <4>4
    <3> QED BY <3>1, <2>5 DEF Agrees
  <2>12. Ready(u, H)
    BY <1>2, <2>2, <2>5, <2>6 DEF Good, Ready
  <2> QED BY <1>0, <2>4, <2>7, <2>8, <2>9, <2>10, <2>11, <2>12 DEF Good, Base, u
<1> QED BY <1>1, <1>2

\* Beat(): a healthy mapping may arm, any other is cut off.
LEMMA BeatGood ==
  ASSUME NEW w, NEW H, Good(w, H)
  PROVE  Good(Beat(w), H) /\ Moves(w, Beat(w))
<1> DEFINE c == Mapping(w)
           d == Heartbeat(c)
           x == WithMapping(w, d)
<1>0. /\ w \in WorldType /\ w.rt \in RuntimeType /\ w.rt.view \in Lifetimes /\ ChannelOK(c) /\ HostOK(H)
      /\ Typed(w) /\ c = w.chan[w.rt.view] /\ Base(w, H)
  BY DEF Good, Base, Typed, WorldType, RuntimeType, Mapping
<1>1. /\ ChannelOK(d) /\ d.scope = c.scope /\ Grows(c, d) /\ (Ends(c, d) \/ Keeps(c, d))
      /\ Healthy(c) => Keeps(c, d) /\ d.ack = c.ack
      /\ ~Healthy(c) /\ IsBound(c) => d.abort # "None"
      /\ d.abort = c.abort \/ d.abort = "HeartbeatExpired"
  BY <1>0, HeartbeatChannel
<1> HIDE DEF d
<1>2. /\ x \in WorldType /\ x.rt = w.rt /\ x.chan[w.rt.view] = d /\ Mapping(x) = d
      /\ \A l \in Lifetimes \ {w.rt.view} : x.chan[l] = w.chan[l]
  BY <1>0, <1>1, RemappedIs DEF ChannelOK
<1> HIDE DEF x, c
<1>3. CASE w.rt.blocked
  BY <1>0, <1>3, MovesNot DEF Beat
<1>4. CASE ~w.rt.blocked /\ w.rt.producer /\ Healthy(c)
  <2>1. Beat(w) = Arm(x)
    BY <1>4 DEF Beat, x, d, c
  <2>2. \A l \in Lifetimes : /\ ChannelOK(x.chan[l]) /\ x.chan[l].scope = w.chan[l].scope
                             /\ Keeps(w.chan[l], x.chan[l]) /\ Grows(w.chan[l], x.chan[l])
    BY <1>0, <1>1, <1>2, <1>4, GrowsNot DEF Typed, Keeps
  <2>3. Good(x, H)
    BY <1>2, <2>2, TouchedGood DEF Same, Played
  <2>4. Moves(w, x)
    BY <1>0, <1>2, <2>2 DEF Moves, RuntimeType, Lifetimes
  <2>5. Mapping(x).abort = "None"
    BY <1>1, <1>2, <1>4 DEF Keeps, Healthy
  <2>6. Good(Arm(x), H) /\ Moves(x, Arm(x))
    BY <1>2, <1>4, <2>3, <2>5, ArmedGood
  <2> QED BY <1>0, <2>1, <2>3, <2>4, <2>6, MovesOn DEF Good, Base
<1>5. CASE ~w.rt.blocked /\ w.rt.producer /\ ~Healthy(c)
  <2>1. Beat(w) = Blocked(x)
    BY <1>5 DEF Beat, x, d, c
  <2> DEFINE u == Blocked(x)
  <2>2. u \in WorldType /\ u.chan = x.chan /\ u.rt = [w.rt EXCEPT !.blocked = TRUE]
    BY <1>2, BlockedIs
  <2> HIDE DEF u
  <2>3. Mapping(u) = d
    BY <1>0, <1>2, <2>2 DEF Mapping, RuntimeType
  <2>4. IsBound(c)
    BY <1>5 DEF Good, Base, Bindings, c
  <2>5. /\ u.rt.cur = w.rt.cur /\ u.rt.last = w.rt.last /\ u.rt.view = w.rt.view
        /\ u.rt.producer = w.rt.producer /\ u.rt.p = w.rt.p /\ u.rt.blocked = TRUE
        /\ u.rt.excluded = w.rt.excluded /\ u.rt.recovering = w.rt.recovering
    BY <1>0, <2>2 DEF RuntimeType
  <2>6. \A l \in Lifetimes \ {w.rt.view} : u.chan[l] = w.chan[l]
    BY <1>2, <2>2
  <2>7. d.abort # "None" /\ (d.abort = "InvalidOrder" => c.abort = "InvalidOrder")
    BY <1>1, <1>5, <2>4
  <2>8. Cut(w, u)
    BY <1>1, <2>2, <2>3, <2>5, <2>6, <2>7 DEF Cut, c
  <2> QED BY <1>0, <2>1, <2>8, CutIsGood DEF u
<1>6. CASE ~w.rt.blocked /\ ~w.rt.producer
  <2>1. Beat(w) = Blocked(w)
    BY <1>6 DEF Beat
  <2> DEFINE u == Blocked(w)
  <2>2. u \in WorldType /\ u.chan = w.chan /\ u.rt = [w.rt EXCEPT !.blocked = TRUE]
    BY <1>0, BlockedIs
  <2> HIDE DEF u
  <2>3. Mapping(u) = Mapping(w) /\ Grows(Mapping(w), Mapping(w)) /\ ChannelOK(Mapping(w))
    BY <1>0, <2>2, GrowsNot DEF Mapping, RuntimeType, c
  <2>4. Cut(w, u)
    BY <1>0, <1>6, <2>2, <2>3 DEF Cut, RuntimeType
  <2> QED BY <1>0, <2>1, <2>4, CutIsGood DEF u
<1> QED BY <1>3, <1>4, <1>5, <1>6

-----------------------------------------------------------------------------
(* A pulse of the runtime *)

\* The first mapping is bound for the room of the baseline.
LEMMA BoundFirst ==
  ASSUME NEW w, NEW H, Good(w, H), ~w.rt.blocked, w.rt.cur # 0, ~IsBound(Mapping(w)),
         owner.view \in Lifetimes
  PROVE  Good(BindFirst(w), H) /\ Moves(w, BindFirst(w))
<1> DEFINE c == Mapping(w)
           d == Bind(c, w.rt.cur)
           x == WithMapping(w, d)
           p2 == [w.rt.p EXCEPT !.sources = w.rt.excluded]
           u == BindFirst(w)
<1>0. /\ w \in WorldType /\ w.rt \in RuntimeType /\ w.rt.p \in ProducerType /\ w.rt.view \in Lifetimes
      /\ ChannelOK(c) /\ HostOK(H) /\ Typed(w) /\ Base(w, H) /\ c = w.chan[w.rt.view]
  BY DEF Good, Base, Typed, WorldType, RuntimeType, Mapping
<1>1. /\ w.rt.view = 1 /\ ~w.rt.producer /\ w.rt.p.epoch = 0 /\ ~w.rt.p.active
      /\ w.rt.recovering = "no" /\ c.scope = 0
      /\ w.rt.cur \in Nat /\ w.rt.cur = w.rt.last /\ ~w.rt.quarantined
  BY <1>0 DEF Good, Base, Bindings, Typed, IsBound, RuntimeType
<1>2. CASE ~Bindable(c)
  <2>1. u = Blocked(w)
    BY <1>2 DEF BindFirst
  <2>2. u \in WorldType /\ u.chan = w.chan /\ u.rt = [w.rt EXCEPT !.blocked = TRUE]
    BY <1>0, <2>1, BlockedIs
  <2> HIDE DEF u
  <2>3. Mapping(u) = Mapping(w) /\ Grows(Mapping(w), Mapping(w))
    BY <1>0, <2>2, GrowsNot DEF Mapping, RuntimeType
  <2>4. Cut(w, u)
    BY <1>0, <1>1, <2>2, <2>3 DEF Cut, RuntimeType, c
  <2> QED BY <1>0, <2>4, CutIsGood DEF u
<1>3. CASE Bindable(c)
  <2>1. /\ ChannelOK(d) /\ d.scope = w.rt.cur /\ Grows(c, d) /\ d.abort = "None"
        /\ d.log = <<ResetCommand>>
    BY <1>0, <1>1, <1>3, BoundChannel DEF Bindable
  <2> HIDE DEF d
  <2>2. /\ x \in WorldType /\ x.rt = w.rt /\ x.chan[w.rt.view] = d
        /\ \A l \in Lifetimes \ {w.rt.view} : x.chan[l] = w.chan[l]
    BY <1>0, <2>1, RemappedIs DEF ChannelOK
  <2>3. u = [[x EXCEPT !.rt.producer = TRUE] EXCEPT !.rt.p.sources = w.rt.excluded]
    BY <1>3 DEF BindFirst, d
  <2> HIDE DEF x, u
  <2>4. /\ p2 \in ProducerType /\ p2.epoch = w.rt.p.epoch /\ p2.active = w.rt.p.active
        /\ p2.sources = w.rt.excluded
    BY <1>0 DEF ProducerType, RuntimeType
  <2>5. u \in WorldType /\ u.chan = x.chan /\ u.rt = [w.rt EXCEPT !.producer = TRUE, !.p = p2]
    <3>1. x.rt = w.rt /\ DOMAIN x = {"rt", "chan"}
      BY <2>2 DEF WorldType
    <3>2. u = [x EXCEPT !.rt = [w.rt EXCEPT !.producer = TRUE, !.p = p2]]
      BY <1>0, <2>2, <2>3 DEF WorldType, RuntimeType
    <3> HIDE DEF p2
    <3>3. [w.rt EXCEPT !.producer = TRUE, !.p = p2] \in RuntimeType
      BY <1>0, <2>4 DEF RuntimeType
    <3>4. ASSUME NEW r \in RuntimeType, u = [x EXCEPT !.rt = r]
          PROVE  u \in WorldType /\ u.rt = r /\ u.chan = x.chan
      BY <2>2, <3>4, RetypedWorld
    <3> QED BY <3>2, <3>3, <3>4
  <2> HIDE DEF p2
  <2>6. /\ u.rt.cur = w.rt.cur /\ u.rt.last = w.rt.last /\ u.rt.view = w.rt.view
        /\ u.rt.producer = TRUE /\ u.rt.p = p2 /\ u.rt.blocked = w.rt.blocked
        /\ u.rt.baseline = w.rt.baseline /\ u.rt.excluded = w.rt.excluded
        /\ u.rt.recovering = w.rt.recovering /\ u.rt.quarantined = w.rt.quarantined
    BY <1>0, <2>5 DEF RuntimeType
  <2>7. Mapping(u) = d
    BY <2>2, <2>5, <2>6 DEF Mapping
  <2> HIDE DEF c
  <2>8. Typed(u)
    BY <1>0, <2>1, <2>2, <2>5, <2>6 DEF Typed
  <2>9. Bindings(u)
    <3>1. \A l \in Lifetimes : u.chan[l].scope <= u.rt.last /\ (l # 1 => u.chan[l].scope \in {0, l})
      BY <1>0, <1>1, <2>1, <2>2, <2>5, <2>6 DEF Base, Bindings, RuntimeType, Lifetimes
    <3> QED BY <1>1, <2>1, <2>4, <2>6, <2>7, <3>1 DEF Bindings, IsBound
  <2>10. Live(u) /\ Agrees(u, H)
    BY <1>1, <2>4, <2>6 DEF Live, Agrees
  <2>11. Counted(u)
    BY <1>0, <2>4, <2>6 DEF Base, Counted, RuntimeType
  <2>12. Whole(u, H)
    <3>1. Len(<<ResetCommand>>) = 1
      OBVIOUS
    <3>2. Mapping(u).log = <<ResetCommand>>
      BY <2>1, <2>7
    <3>3. Len(Mapping(u).log) = 1
      BY <3>1, <3>2
    <3> QED BY <3>3 DEF Whole
  <2>13. Ready(u, H)
    BY <1>1, <2>6 DEF Good, Ready, IsBound, c
  <2>14. u.chan[1].abort # "InvalidOrder"
    BY <1>1, <2>1, <2>2, <2>5
  <2>15. Moves(w, u)
    BY <1>0, <1>1, <2>1, <2>2, <2>5, <2>6, GrowsNot DEF Moves, Typed, RuntimeType, Lifetimes
  <2> QED BY <1>0, <2>8, <2>9, <2>10, <2>11, <2>12, <2>13, <2>14, <2>15 DEF Good, Base, u
<1> QED BY <1>2, <1>3

LEMMA ProjectionGood ==
  ASSUME NEW w, NEW H, Good(w, H), owner.view \in Lifetimes, NEW eligible \in BOOLEAN
  PROVE  Good(ProjectionTick(w, eligible), H) /\ Moves(w, ProjectionTick(w, eligible))
<1> DEFINE u == ProjectionTick(w, eligible)
<1>0. Base(w, H) /\ Typed(w) /\ Moves(w, w)
  BY MovesNot DEF Good, Base
<1>1. CASE u = w
  BY <1>0, <1>1
<1>2. ASSUME IsBound(Mapping(w)), NEW why \in {"Unsupported", "BindingReset"}, u = Retire(w, why)
      PROVE  Good(u, H) /\ Moves(w, u)
  BY <1>0, <1>2, RetiredGood
<1>3. CASE ~w.rt.blocked /\ w.rt.cur # 0 /\ ~IsBound(Mapping(w)) /\ u = Beat(BindFirst(w))
  <2>1. Good(BindFirst(w), H) /\ Moves(w, BindFirst(w))
    BY <1>3, BoundFirst
  <2>2. Good(u, H) /\ Moves(BindFirst(w), u)
    BY <1>3, <2>1, BeatGood
  <2>3. Typed(BindFirst(w)) /\ Typed(u)
    BY <2>1, <2>2 DEF Good, Base
  <2> QED BY <1>0, <2>1, <2>2, <2>3, MovesOn
<1>4. CASE u = Beat(w)
  BY <1>4, BeatGood
<1>5. \/ u = w
      \/ IsBound(Mapping(w)) /\ \E why \in {"Unsupported", "BindingReset"} : u = Retire(w, why)
      \/ ~w.rt.blocked /\ w.rt.cur # 0 /\ ~IsBound(Mapping(w)) /\ u = Beat(BindFirst(w))
      \/ u = Beat(w)
  BY DEF ProjectionTick
<1> HIDE DEF u
<1> QED BY <1>1, <1>2, <1>3, <1>4, <1>5 DEF u

LEMMA AwaitedGood ==
  ASSUME NEW w, NEW H, Good(w, H)
  PROVE  Good(AwaitAck(w), H) /\ Moves(w, AwaitAck(w))
BY MovesNot, QuarantinedGood DEF AwaitAck, Good, Base

\* The mapping of the new connection was never bound before.
LEMMA AdoptedGood ==
  ASSUME NEW w, NEW H, Good(w, H), owner.view \in Lifetimes, NEW eligible \in BOOLEAN,
         w.rt.recovering = "result" /\ eligible => ~w.rt.quarantined
  PROVE  Good(Adopt(w, eligible), H) /\ Moves(w, Adopt(w, eligible))
<1> DEFINE u == Adopt(w, eligible)
           cur == w.rt.cur
           d == Bind(w.chan[cur], cur)
<1>0. /\ w \in WorldType /\ w.rt \in RuntimeType /\ w.rt.view \in Lifetimes
      /\ HostOK(H) /\ Typed(w) /\ Base(w, H)
  BY DEF Good, Base, Typed, WorldType, RuntimeType
<1>1. CASE u = w
  BY <1>0, <1>1, MovesNot
<1>2. CASE w.rt.recovering = "result" /\ u = [Quarantine(w) EXCEPT !.rt.recovering = "joined"]
  BY <1>0, <1>2, QuarantinedGood
<1>3. CASE w.rt.recovering = "result" /\ eligible /\ owner.view = cur /\ ~(u = w) /\ w.rt.left # 0
  <2>1. cur \in Lifetimes /\ cur = w.rt.last /\ cur >= 2 /\ w.chan[cur].scope = 0 /\ ~w.rt.quarantined
    BY <1>0, <1>3 DEF Base, Bindings, Typed, RuntimeType
  <2>2. /\ ChannelOK(d) /\ d.scope = cur /\ Grows(w.chan[cur], d) /\ d.log = <<ResetCommand>>
    BY <1>0, <2>1, BoundChannel DEF Typed, Lifetimes
  <2>3. u = [w EXCEPT !.chan[cur] = d, !.rt.view = cur, !.rt.producer = TRUE, !.rt.p = NoProducer,
                      !.rt.blocked = FALSE, !.rt.excluded = 0, !.rt.recovering = "adopted"]
    BY <1>3 DEF Adopt
  <2> DEFINE r == [w.rt EXCEPT !.view = cur, !.producer = TRUE, !.p = NoProducer,
                               !.blocked = FALSE, !.excluded = 0, !.recovering = "adopted"]
             C == [w.chan EXCEPT ![cur] = d]
  <2> HIDE DEF d, u
  <2>4. u = [w EXCEPT !.chan = C, !.rt = r]
    BY <1>0, <2>3 DEF WorldType, RuntimeType
  <2>5. NoProducer \in ProducerType /\ NoProducer.epoch = 0 /\ NoProducer.active = FALSE /\ NoProducer.sources = 0
    BY DEF NoProducer, ProducerType
  <2>6. r \in RuntimeType
    BY <1>0, <2>1, <2>5 DEF RuntimeType
  <2>7. /\ r.cur = cur /\ r.last = w.rt.last /\ r.view = cur /\ r.producer = TRUE /\ r.p = NoProducer
        /\ r.blocked = FALSE /\ r.excluded = 0 /\ r.recovering = "adopted"
        /\ r.quarantined = w.rt.quarantined
    BY <1>0 DEF RuntimeType
  <2>8. /\ C \in [Lifetimes -> ChannelType] /\ C[cur] = d
        /\ \A l \in Lifetimes \ {cur} : C[l] = w.chan[l]
    BY <1>0, <2>1, <2>2 DEF WorldType, ChannelOK
  <2> HIDE DEF r, C
  <2>9. u \in WorldType /\ u.rt = r /\ u.chan = C
    BY <1>0, <2>4, <2>6, <2>8 DEF WorldType
  <2>10. Mapping(u) = d
    BY <2>7, <2>8, <2>9 DEF Mapping
  <2> HIDE DEF cur
  <2>11. Typed(u)
    BY <1>0, <2>1, <2>2, <2>7, <2>8, <2>9 DEF Typed
  <2>12. Bindings(u)
    <3>1. \A l \in Lifetimes : u.chan[l].scope <= u.rt.last /\ (l # 1 => u.chan[l].scope \in {0, l})
      BY <1>0, <2>1, <2>2, <2>7, <2>8, <2>9 DEF Base, Bindings, RuntimeType, Lifetimes
    <3> QED BY <2>1, <2>2, <2>5, <2>7, <2>9, <2>10, <3>1 DEF Bindings, IsBound, Lifetimes
  <2>13. Live(u) /\ Agrees(u, H) /\ Ready(u, H) /\ Counted(u)
    BY <2>1, <2>5, <2>7, <2>9, Constants DEF Live, Agrees, Ready, Counted, Lifetimes
  <2>14. Whole(u, H)
    <3>1. Len(<<ResetCommand>>) = 1
      OBVIOUS
    <3>2. Mapping(u).log = <<ResetCommand>>
      BY <2>2, <2>10
    <3>3. Len(Mapping(u).log) = 1
      BY <3>1, <3>2
    <3> QED BY <3>3 DEF Whole
  <2>15. u.chan[1].abort # "InvalidOrder"
    BY <1>0, <2>1, <2>8, <2>9, Constants DEF Base, Lifetimes
  <2>16. Moves(w, u)
    BY <1>0, <1>3, <2>1, <2>2, <2>7, <2>8, <2>9, GrowsNot DEF Moves, Typed, Lifetimes, cur
  <2> QED BY <1>0, <2>11, <2>12, <2>13, <2>14, <2>15, <2>16 DEF Good, Base, u
<1>4. \/ u = w
      \/ w.rt.recovering = "result" /\ u = [Quarantine(w) EXCEPT !.rt.recovering = "joined"]
      \/ w.rt.recovering = "result" /\ eligible /\ owner.view = cur /\ ~(u = w) /\ w.rt.left # 0
  <2>1. CASE w.rt.recovering = "result" /\ eligible /\ w.rt.left # 0 /\ ~(owner.view = cur)
    BY <2>1 DEF Adopt
  <2>2. CASE w.rt.recovering = "result" /\ ~(eligible /\ w.rt.left # 0)
    BY <2>2 DEF Adopt
  <2>3. CASE w.rt.recovering # "result"
    BY <2>3 DEF Adopt
  <2>4. CASE w.rt.recovering = "result" /\ eligible /\ w.rt.left # 0 /\ owner.view = cur
    BY <2>4
  <2> HIDE DEF u
  <2> QED BY <2>1, <2>2, <2>3, <2>4
<1> HIDE DEF u
<1> QED BY <1>1, <1>2, <1>3, <1>4 DEF u

LEMMA RestoredGood ==
  ASSUME NEW w, NEW H, Good(w, H)
  PROVE  Good(Restored(w), H) /\ Moves(w, Restored(w))
<1> DEFINE u == Restored(w)
           restores == TickOk(w) /\ w.rt.recovering # "no" /\ w.rt.p.epoch # 0
<1>0. w \in WorldType /\ w.rt \in RuntimeType /\ Typed(w) /\ Moves(w, w)
  BY MovesNot DEF Good, Base, Typed, WorldType
<1>1. CASE ~restores
  BY <1>0, <1>1 DEF Restored
<1>2. CASE restores
  <2> DEFINE r == [w.rt EXCEPT !.recovering = "no", !.left = 0]
  <2>1. u = [w EXCEPT !.rt = r]
    BY <1>0, <1>2 DEF Restored, WorldType, RuntimeType
  <2>2. r \in RuntimeType
    BY <1>0 DEF RuntimeType
  <2>3. /\ r.cur = w.rt.cur /\ r.last = w.rt.last /\ r.view = w.rt.view
        /\ r.producer = w.rt.producer /\ r.p = w.rt.p /\ r.blocked = w.rt.blocked
        /\ r.baseline = w.rt.baseline /\ r.excluded = w.rt.excluded
        /\ r.recovering = "no" /\ r.quarantined = w.rt.quarantined
    BY <1>0 DEF RuntimeType
  <2> HIDE DEF u, r
  <2>4. u \in WorldType /\ u.rt = r /\ u.chan = w.chan
    BY <1>0, <2>1, <2>2, RetypedWorld
  <2>5. Mapping(u) = Mapping(w)
    BY <2>3, <2>4 DEF Mapping
  <2>6. Typed(u) /\ Moves(w, u)
    BY <1>0, <2>3, <2>4 DEF Typed, Moves
  <2>7. Bindings(u) /\ Live(u) /\ Counted(u) /\ Whole(u, H) /\ Agrees(u, H) /\ Ready(u, H)
    <3>1. Bindings(u)
      BY <2>3, <2>4, <2>5 DEF Good, Base, Bindings
    <3>2. Live(u) /\ Counted(u)
      BY <2>3, <2>4, <2>5 DEF Good, Base, Live, Counted
    <3>3. Whole(u, H) /\ Agrees(u, H)
      BY <2>3, <2>4, <2>5 DEF Good, Base, Whole, Agrees
    <3>4. Ready(u, H)
      BY <1>2, <2>3, <2>4 DEF Ready
    <3> QED BY <3>1, <3>2, <3>3, <3>4
  <2> QED BY <2>4, <2>6, <2>7 DEF Good, Base, u
<1> QED BY <1>1, <1>2

LEMMA ExpiredGood ==
  ASSUME NEW w, NEW H, Good(w, H)
  PROVE  Good(Expired(w), H) /\ Moves(w, Expired(w))
<1> DEFINE u == Expired(w)
           x == Retire(w, "BindingReset")
           expires == /\ Mapping(w).abort = "HeartbeatExpired" /\ Mapping(w).scope = w.rt.cur
                      /\ w.rt.recovering = "no"
<1>0. /\ w \in WorldType /\ w.rt \in RuntimeType /\ Typed(w) /\ Moves(w, w) /\ Base(w, H)
      /\ ChannelOK(Mapping(w))
  BY MovesNot DEF Good, Base, Typed, WorldType, RuntimeType, Mapping
<1>1. CASE ~expires
  BY <1>0, <1>1 DEF Expired
<1>2. CASE expires
  <2>1. IsBound(Mapping(w))
    BY <1>0, <1>2 DEF ChannelOK, IsBound
  <2>2. x \in WorldType /\ x.rt \in RuntimeType /\ x.rt.left \in Nat
    <3>1. x \in WorldType
      BY <1>0, RetiredIs
    <3> QED BY <3>1 DEF WorldType, RuntimeType
  <2>3. u = [x EXCEPT !.rt.cur = 0, !.rt.recovering = "lost"]
    BY <1>2 DEF Expired
  <2> DEFINE r == [x.rt EXCEPT !.cur = 0, !.left = x.rt.left, !.recovering = "lost"]
  <2> HIDE DEF u, x
  <2>4. r \in RuntimeType /\ r = [x.rt EXCEPT !.cur = 0, !.recovering = "lost"]
    BY <2>2 DEF RuntimeType
  <2>5. u = [x EXCEPT !.rt = r]
    BY <2>2, <2>3, <2>4 DEF WorldType, RuntimeType
  <2> HIDE DEF r
  <2>6. u \in WorldType /\ u.rt = r /\ u.chan = x.chan
    BY <2>2, <2>4, <2>5, RetypedWorld
  <2>7. u.rt = [x.rt EXCEPT !.cur = 0, !.left = x.rt.left, !.recovering = "lost"]
    BY <2>6 DEF r
  <2> QED BY <1>0, <2>1, <2>2, <2>6, <2>7, LostGood DEF u, x
<1> QED BY <1>1, <1>2

\* A whole pulse.  A quarantined connection is never eligible.
LEMMA PulsedGood ==
  ASSUME NEW w, NEW H, Good(w, H), owner.view \in Lifetimes, NEW eligible \in BOOLEAN,
         eligible => ~w.rt.quarantined
  PROVE  Good(Pulsed(w, eligible), H) /\ Moves(w, Pulsed(w, eligible))
<1> DEFINE a == AwaitAck(w)
           b == Adopt(a, eligible)
           c == ProjectionTick(b, eligible)
           d == Restored(c)
           e == Expired(d)
<1>1. Good(a, H) /\ Moves(w, a)
  BY AwaitedGood
<1>2. a.rt.recovering = "result" /\ eligible => ~a.rt.quarantined
  <2>1. CASE a = w
    BY <2>1
  <2>2. CASE w.rt.recovering = "adopted" /\ a = Quarantine(w)
    <3>1. Base(w, H) /\ w.rt \in RuntimeType
      BY DEF Good, Base, Typed, WorldType
    <3>2. Reject(w, "Unsupported").rt = [w.rt EXCEPT !.blocked = TRUE] /\ Reject(w, "Unsupported") \in WorldType
      BY <3>1, RejectedIs DEF Reasons, Aborts, Cut
    <3>3. Quarantine(w).rt.recovering = w.rt.recovering
      BY <3>1, <3>2 DEF Quarantine, WorldType, RuntimeType
    <3> QED BY <2>2, <3>3
  <2> QED BY <2>1, <2>2 DEF AwaitAck
<1> HIDE DEF a
<1>3. Good(b, H) /\ Moves(a, b)
  BY <1>1, <1>2, AdoptedGood
<1> HIDE DEF b
<1>4. Good(c, H) /\ Moves(b, c)
  BY <1>3, ProjectionGood
<1> HIDE DEF c
<1>5. Good(d, H) /\ Moves(c, d)
  BY <1>4, RestoredGood
<1> HIDE DEF d
<1>6. Good(e, H) /\ Moves(d, e)
  BY <1>5, ExpiredGood
<1> HIDE DEF e
<1>7. Typed(w) /\ Typed(a) /\ Typed(b) /\ Typed(c) /\ Typed(d) /\ Typed(e)
  BY <1>1, <1>3, <1>4, <1>5, <1>6 DEF Good, Base
<1>8. Moves(w, b)
  BY <1>1, <1>3, <1>7, MovesOn
<1>9. Moves(w, c)
  BY <1>4, <1>7, <1>8, MovesOn
<1>10. Moves(w, d)
  BY <1>5, <1>7, <1>9, MovesOn
<1>11. Moves(w, e)
  BY <1>6, <1>7, <1>10, MovesOn
<1>12. Pulsed(w, eligible) = e
  BY DEF Pulsed, a, b, c, d, e
<1> QED BY <1>6, <1>11, <1>12

-----------------------------------------------------------------------------
(* The host's facts *)

\* One step of the host, and the fact that tells of it.
Legal(H, H2, fact) ==
  /\ HostOK(H) /\ HostOK(H2) /\ fact \in FactRecords
  /\ H2.facts = H.facts + 1 /\ fact.source = H.facts + 1
  /\ \/ fact.kind = "Transition" /\ fact.epoch = H.epoch + 1 /\ H2.epoch = fact.epoch /\ H2.active = H.active
     \/ fact.kind = "Acquire" /\ fact.epoch = H.epoch /\ H2.epoch = H.epoch /\ ~H.active /\ H2.active
     \/ fact.kind = "Release" /\ fact.epoch = H.epoch /\ H2.epoch = H.epoch /\ H.active /\ ~H2.active

\* Who is not told of a fact has nothing that the fact could be missing from.
LEMMA DeafGood ==
  ASSUME NEW w, NEW H, NEW H2, Good(w, H), HostOK(H2), w.rt.blocked \/ ~WorldReaches(w)
  PROVE  Good(w, H2)
<1>1. w.rt.quarantined => w.rt.blocked
  BY DEF Good, Base, Bindings
<1>2. w.rt.producer => Mapping(w).abort # "None"
  BY <1>1 DEF Good, Base, Live, WorldReaches
<1>3. ChannelOK(Mapping(w))
  BY DEF Good, Base, Typed, Mapping, WorldType, RuntimeType
<1>4. w.rt.producer => ~(Len(Mapping(w).log) > 1)
  BY <1>2, <1>3 DEF ChannelOK, ChannelType
<1>5. Whole(w, H2) /\ Agrees(w, H2)
  BY <1>2, <1>4 DEF Whole, Agrees
<1>6. Ready(w, H2)
  BY <1>1 DEF Ready, WorldReaches
<1> QED BY <1>5, <1>6 DEF Good, Base

\* A record that the channel does not take ends it.
LEMMA PublishedCut ==
  ASSUME NEW w, NEW H, NEW H2, Base(w, H), HostOK(H2), w.rt.p.epoch # 0, NEW fact \in FactRecords,
         ~Healthy(Publish(Mapping(w), w.rt.p, fact)),
         InOrder(w.rt.p, fact) \/ w.rt.view # 1 \/ ~Healthy(Mapping(w))
  PROVE  Good(Published(w, fact), H2) /\ Moves(w, Published(w, fact))
<1> DEFINE c == Mapping(w)
           d == Publish(c, w.rt.p, fact)
           x == WithMapping(w, d)
           u == Published(w, fact)
<1>0. /\ w \in WorldType /\ w.rt \in RuntimeType /\ w.rt.p \in ProducerType /\ w.rt.view \in Lifetimes
      /\ ChannelOK(c) /\ c = w.chan[w.rt.view] /\ IsBound(c)
  BY DEF Base, Typed, Bindings, WorldType, RuntimeType, Mapping
<1>1. /\ ChannelOK(d) /\ d.scope = c.scope /\ Grows(c, d) /\ d.abort # "None"
      /\ d.abort = "InvalidOrder" =>
           c.abort = "InvalidOrder" \/ (Healthy(c) /\ ~InOrder(w.rt.p, fact))
  BY <1>0, PublishedChannel
<1>2. u = Blocked(x)
  BY DEF Published
<1> HIDE DEF d
<1>3. /\ x \in WorldType /\ x.rt = w.rt /\ x.chan[w.rt.view] = d /\ Mapping(x) = d
      /\ \A l \in Lifetimes \ {w.rt.view} : x.chan[l] = w.chan[l]
  BY <1>0, <1>1, RemappedIs DEF ChannelOK
<1> HIDE DEF x
<1>4. u \in WorldType /\ u.chan = x.chan /\ u.rt = [w.rt EXCEPT !.blocked = TRUE]
  BY <1>2, <1>3, BlockedIs
<1> HIDE DEF u
<1>5. Mapping(u) = d
  BY <1>0, <1>3, <1>4 DEF Mapping, RuntimeType
<1>6. d.abort = "InvalidOrder" => w.rt.view # 1 \/ c.abort = "InvalidOrder"
  BY <1>1
<1>7. Cut(w, u)
  BY <1>0, <1>1, <1>3, <1>4, <1>5, <1>6 DEF Cut, RuntimeType
<1> QED BY <1>7, CutIsGood DEF u

LEMMA TakenIs ==
  ASSUME NEW p \in ProducerType, NEW fact \in FactRecords
  PROVE  LET q == Taken(p, fact) IN
         /\ q \in ProducerType /\ q.sources = p.sources + 1
         /\ q.epoch = IF fact.kind = "Transition" THEN fact.epoch ELSE p.epoch
         /\ q.active = IF fact.kind = "Transition" THEN p.active ELSE fact.kind = "Acquire"
<1> DEFINE epoch == IF fact.kind = "Transition" THEN fact.epoch ELSE p.epoch
           active == IF fact.kind = "Transition" THEN p.active ELSE fact.kind = "Acquire"
           q == Taken(p, fact)
<1>1. epoch \in Nat
  BY Constants DEF FactRecords, ProducerType
<1>2. active \in BOOLEAN
  BY DEF ProducerType
<1>3. q = [p EXCEPT !.sources = p.sources + 1, !.epoch = epoch, !.active = active]
  BY DEF Taken
<1> HIDE DEF epoch, active, q
<1>4. q \in ProducerType /\ q.sources = p.sources + 1 /\ q.epoch = epoch /\ q.active = active
  <2>1. p.sources + 1 \in Nat
    BY DEF ProducerType
  <2>2. q \in ProducerType
    BY <1>1, <1>2, <1>3, <2>1 DEF ProducerType
  <2>3. q.sources = p.sources + 1
    BY <1>3 DEF ProducerType
  <2>4. q.epoch = epoch
    BY <1>3 DEF ProducerType
  <2>5. q.active = active
    BY <1>3 DEF ProducerType
  <2> QED BY <2>2, <2>3, <2>4, <2>5
<1> QED BY <1>4 DEF epoch, active, q

\* An armed producer of the first mapping agrees with the host: no legal fact is out of order.
LEMMA PublishedGood ==
  ASSUME NEW w, NEW H, NEW H2, NEW fact, Good(w, H), Legal(H, H2, fact), w.rt.p.epoch # 0
  PROVE  Good(Published(w, fact), H2) /\ Moves(w, Published(w, fact))
<1> DEFINE c == Mapping(w)
           d == Publish(c, w.rt.p, fact)
           x == WithMapping(w, d)
           p2 == Taken(w.rt.p, fact)
           u == Published(w, fact)
<1>0. /\ w \in WorldType /\ w.rt \in RuntimeType /\ w.rt.p \in ProducerType /\ w.rt.view \in Lifetimes
      /\ ChannelOK(c) /\ c = w.chan[w.rt.view] /\ IsBound(c) /\ w.rt.producer
      /\ fact \in FactRecords /\ HostOK(H) /\ HostOK(H2) /\ Base(w, H)
  BY DEF Good, Base, Typed, Bindings, WorldType, RuntimeType, Mapping, Legal
<1>1. ASSUME w.rt.view = 1, Healthy(c) PROVE w.rt.p.epoch = H.epoch /\ w.rt.p.active = H.active
  BY <1>0, <1>1 DEF Base, Agrees, Healthy
<1>2. w.rt.view = 1 /\ Healthy(c) => InOrder(w.rt.p, fact)
  <2>1. H.epoch \in Nat
    BY <1>0 DEF HostOK, HostType
  <2>2. CASE fact.kind = "Transition"
    <3>1. fact.epoch = H.epoch + 1
      BY <2>2 DEF Legal
    <3> QED BY <1>1, <2>1, <2>2, <3>1 DEF InOrder
  <2>3. CASE fact.kind = "Acquire"
    <3>1. fact.epoch = H.epoch /\ ~H.active
      BY <2>3 DEF Legal
    <3> QED BY <1>1, <2>3, <3>1 DEF InOrder
  <2>4. CASE fact.kind = "Release"
    <3>1. fact.epoch = H.epoch /\ H.active
      BY <2>4 DEF Legal
    <3> QED BY <1>1, <2>4, <3>1 DEF InOrder
  <2> QED BY <2>2, <2>3, <2>4 DEF Legal
<1>3. CASE ~Healthy(d)
  BY <1>0, <1>2, <1>3, PublishedCut
<1>4. CASE Healthy(d)
  <2>1. /\ ChannelOK(d) /\ d.scope = c.scope /\ Grows(c, d) /\ Healthy(c)
        /\ w.rt.p.sources # SourceCapacity /\ d.log = Append(c.log, fact) /\ d.abort = c.abort
    BY <1>0, <1>4, PublishedChannel
  <2>2. u = [x EXCEPT !.rt.p = Taken(x.rt.p, fact)]
    BY <1>4 DEF Published
  <2> HIDE DEF d
  <2>3. /\ x \in WorldType /\ x.rt = w.rt /\ x.chan[w.rt.view] = d
        /\ \A l \in Lifetimes \ {w.rt.view} : x.chan[l] = w.chan[l]
    BY <1>0, <2>1, RemappedIs DEF ChannelOK
  <2> HIDE DEF x, u
  <2>4. /\ p2 \in ProducerType /\ p2.sources = w.rt.p.sources + 1
        /\ p2.epoch = IF fact.kind = "Transition" THEN fact.epoch ELSE w.rt.p.epoch
        /\ p2.active = IF fact.kind = "Transition" THEN w.rt.p.active ELSE fact.kind = "Acquire"
    BY <1>0, TakenIs
  <2>5. u = [x EXCEPT !.rt = [w.rt EXCEPT !.p = p2]]
    BY <2>2, <2>3
  <2> HIDE DEF p2
  <2>6. [w.rt EXCEPT !.p = p2] \in RuntimeType
    BY <1>0, <2>4 DEF RuntimeType
  <2>7. u \in WorldType /\ u.rt = [w.rt EXCEPT !.p = p2] /\ u.chan = x.chan
    <3>1. ASSUME NEW r \in RuntimeType, u = [x EXCEPT !.rt = r]
          PROVE  u \in WorldType /\ u.rt = r /\ u.chan = x.chan
      BY <2>3, <3>1, RetypedWorld
    <3> QED BY <2>5, <2>6, <3>1
  <2>8. /\ u.rt.cur = w.rt.cur /\ u.rt.last = w.rt.last /\ u.rt.view = w.rt.view
        /\ u.rt.producer = w.rt.producer /\ u.rt.p = p2 /\ u.rt.blocked = w.rt.blocked
        /\ u.rt.baseline = w.rt.baseline /\ u.rt.excluded = w.rt.excluded
        /\ u.rt.recovering = w.rt.recovering /\ u.rt.quarantined = w.rt.quarantined
    <3>1. w.rt \in RuntimeType /\ u.rt = [w.rt EXCEPT !.p = p2]
      BY <1>0, <2>7
    <3> HIDE DEF c
    <3> QED BY <3>1 DEF RuntimeType
  <2>9. Mapping(u) = d
    BY <2>3, <2>7, <2>8 DEF Mapping
  <2>10. \A l \in Lifetimes : /\ ChannelOK(u.chan[l]) /\ u.chan[l].scope = w.chan[l].scope
                              /\ u.chan[l].abort = w.chan[l].abort /\ Grows(w.chan[l], u.chan[l])
    <3>1. \A l \in Lifetimes : ChannelOK(w.chan[l])
      BY <1>0 DEF Base, Typed
    <3>2. ASSUME NEW l \in Lifetimes, l # w.rt.view
          PROVE  u.chan[l] = w.chan[l] /\ ChannelOK(w.chan[l]) /\ Grows(w.chan[l], w.chan[l])
      BY <2>3, <2>7, <3>1, <3>2, GrowsNot
    <3>3. u.chan[w.rt.view] = d /\ c = w.chan[w.rt.view]
      BY <2>3, <2>7 DEF Mapping
    <3> HIDE DEF c
    <3> QED BY <2>1, <3>2, <3>3
  <2>11. p2.epoch # 0
    BY <1>0, <2>4 DEF Legal, HostOK, HostType
  <2> HIDE DEF c
  <2>12. Typed(u) /\ Moves(w, u)
    BY <1>0, <2>7, <2>8, <2>10 DEF Base, Typed, Moves, RuntimeType, Lifetimes
  <2>13. Bindings(u)
    <3>1. u.rt.recovering \in {"joined", "result"} => u.chan[u.rt.cur].scope = 0
      <4>1. w.rt.recovering \in {"joined", "result"} =>
              w.rt.cur >= 2 /\ w.chan[w.rt.cur].scope = 0 /\ w.rt.cur \in Lifetimes
        BY <1>0 DEF Base, Bindings, Typed, RuntimeType
      <4> QED BY <2>8, <2>10, <4>1
    <3>2. IsBound(Mapping(u))
      BY <1>0, <2>1, <2>9 DEF IsBound
    <3> QED BY <1>0, <2>8, <2>10, <2>11, <3>1, <3>2 DEF Base, Bindings
  <2>14. Live(u)
    BY <1>0, <2>1, <2>8, <2>9 DEF Base, Live, c
  <2>15. Counted(u)
    <3>1. w.rt.excluded <= SourceCapacity /\ w.rt.p.sources <= SourceCapacity
      BY <1>0 DEF Base, Counted
    <3>2. w.rt.p.sources \in Nat
      BY <1>0 DEF RuntimeType, ProducerType
    <3>3. p2.sources <= SourceCapacity
      BY <2>1, <2>4, <3>1, <3>2, Constants
    <3> QED BY <2>8, <2>11, <3>1, <3>3 DEF Counted
  <2>16. Whole(u, H2)
    <3> DEFINE n == Len(c.log)
    <3>1. n \in Nat /\ c.log \in Seq(FactRecords)
      BY <1>0 DEF ChannelOK, ChannelType
    <3>2. Len(d.log) = n + 1 /\ d.log[n + 1] = fact /\ \A k \in 1..n : d.log[k] = c.log[k]
      <4>1. ASSUME NEW s \in Seq(FactRecords), NEW e \in FactRecords, NEW t, t = Append(s, e)
            PROVE  Len(t) = Len(s) + 1 /\ t[Len(s) + 1] = e /\ \A k \in 1..Len(s) : t[k] = s[k]
        BY <4>1
      <4>2. c.log \in Seq(FactRecords) /\ fact \in FactRecords /\ d.log = Append(c.log, fact)
        BY <1>0, <2>1, <3>1
      <4>3. /\ Len(d.log) = Len(c.log) + 1 /\ d.log[Len(c.log) + 1] = fact
            /\ \A k \in 1..Len(c.log) : d.log[k] = c.log[k]
        BY <4>1, <4>2
      <4> QED BY <4>3
    <3>3. n > 1 => \A k \in 2..n : c.log[k].source = H.facts - (n - k)
      BY <1>0 DEF Base, Whole, c
    <3>4. fact.source = H.facts + 1 /\ H2.facts = H.facts + 1 /\ H.facts \in Nat
      BY DEF Legal, HostOK, HostType
    <3> HIDE DEF n
    <3>5. ASSUME NEW k \in 2..(n + 1) PROVE d.log[k].source = H2.facts - ((n + 1) - k)
      <4>1. CASE k = n + 1
        BY <3>1, <3>2, <3>4, <4>1
      <4>2. CASE k \in 2..n
        <5>1. k \in 1..n /\ n > 1
          BY <3>1, <4>2
        <5>2. d.log[k] = c.log[k] /\ c.log[k].source = H.facts - (n - k)
          BY <3>2, <3>3, <4>2, <5>1
        <5> QED BY <3>1, <3>4, <5>1, <5>2
      <4> QED BY <3>1, <4>1, <4>2
    <3> QED BY <2>8, <2>9, <2>11, <3>2, <3>5 DEF Whole
  <2>17. Agrees(u, H2)
    <3>1. ASSUME w.rt.view = 1 PROVE p2.epoch = H2.epoch /\ p2.active = H2.active
      <4>1. w.rt.p.epoch = H.epoch /\ w.rt.p.active = H.active
        BY <1>1, <2>1, <3>1
      <4>2. H.active \in BOOLEAN /\ H2.active \in BOOLEAN
        BY <1>0 DEF HostOK, HostType
      <4> QED BY <2>4, <4>1, <4>2 DEF Legal
    <3> QED BY <2>8, <3>1 DEF Agrees
  <2>18. Ready(u, H2)
    BY <2>8, <2>11 DEF Ready
  <2>19. u.chan[1].abort # "InvalidOrder"
    BY <1>0, <2>10, Constants DEF Base, Lifetimes
  <2> QED BY <1>0, <2>12, <2>13, <2>14, <2>15, <2>16, <2>17, <2>18, <2>19 DEF Good, Base, u
<1> QED BY <1>3, <1>4

\* Before the lifetime is armed a fact only moves the baseline.
LEMMA ExcludedIs ==
  ASSUME NEW w, NEW H, NEW H2, Base(w, H), HostOK(H2), NEW fact \in FactRecords,
         w.rt.p.epoch = 0, w.rt.excluded # SourceCapacity
  PROVE  LET u == Excluded(w, fact) IN
         /\ Base(u, H2) /\ Moves(w, u) /\ Mapping(u) = Mapping(w)
         /\ u.rt.view = w.rt.view /\ u.rt.blocked = w.rt.blocked /\ u.rt.cur = w.rt.cur
         /\ u.rt.recovering = w.rt.recovering /\ u.rt.producer = w.rt.producer
         /\ u.rt.baseline = IF fact.kind = "Transition" /\ w.rt.view = 1 THEN fact.epoch ELSE w.rt.baseline
<1> DEFINE u == Excluded(w, fact)
           sources == IF IsBound(Mapping(w)) THEN w.rt.p.sources + 1 ELSE w.rt.p.sources
           baseline == IF fact.kind = "Transition" /\ w.rt.view = 1 THEN fact.epoch ELSE w.rt.baseline
           p2 == [w.rt.p EXCEPT !.sources = sources]
           r == [w.rt EXCEPT !.excluded = w.rt.excluded + 1, !.p = p2, !.baseline = baseline]
<1>0. /\ w \in WorldType /\ w.rt \in RuntimeType /\ w.rt.p \in ProducerType /\ Typed(w)
      /\ w.rt.excluded \in Nat /\ w.rt.p.sources \in Nat /\ w.rt.baseline \in Nat /\ fact.epoch \in Nat
  BY Constants DEF Base, Typed, WorldType, RuntimeType, ProducerType, FactRecords
<1>1. sources \in Nat /\ baseline \in Nat
  BY <1>0
<1>2. u = [w EXCEPT !.rt = r]
  BY <1>0 DEF Excluded, Explicit, WorldType, RuntimeType, ProducerType
<1> HIDE DEF u, sources, baseline
<1>3. /\ p2 \in ProducerType /\ p2.epoch = w.rt.p.epoch /\ p2.active = w.rt.p.active
      /\ p2.sources = sources
  BY <1>0, <1>1 DEF ProducerType
<1> HIDE DEF p2
<1>4. r \in RuntimeType
  <2>1. w.rt.excluded + 1 \in Nat
    BY <1>0
  <2> QED BY <1>0, <1>1, <1>3, <2>1 DEF RuntimeType
<1>5. /\ r.cur = w.rt.cur /\ r.last = w.rt.last /\ r.view = w.rt.view
      /\ r.producer = w.rt.producer /\ r.p = p2 /\ r.blocked = w.rt.blocked
      /\ r.baseline = baseline /\ r.excluded = w.rt.excluded + 1
      /\ r.recovering = w.rt.recovering /\ r.quarantined = w.rt.quarantined
  BY <1>0 DEF RuntimeType
<1> HIDE DEF r
<1>6. u \in WorldType /\ u.rt = r /\ u.chan = w.chan
  BY <1>0, <1>2, <1>4, RetypedWorld
<1>7. Mapping(u) = Mapping(w)
  BY <1>5, <1>6 DEF Mapping
<1>8. Typed(u) /\ Moves(w, u)
  BY <1>0, <1>5, <1>6, MovesNot DEF Typed, Moves
<1>9. Bindings(u)
  BY <1>3, <1>5, <1>6, <1>7 DEF Base, Bindings
<1>10. Live(u) /\ Agrees(u, H2)
  BY <1>3, <1>5, <1>6, <1>7 DEF Base, Live, Agrees
<1>11. Counted(u)
  BY <1>0, <1>3, <1>5, <1>6, <1>7, Constants DEF Base, Counted, sources
<1>12. Whole(u, H2)
  <2>1. ~(w.rt.producer /\ Len(Mapping(w).log) > 1)
    BY DEF Base, Whole
  <2> QED BY <2>1, <1>5, <1>6, <1>7 DEF Whole
<1>13. u.chan[1].abort # "InvalidOrder"
  BY <1>6 DEF Base
<1>14. Base(u, H2)
  BY <1>8, <1>9, <1>10, <1>11, <1>12, <1>13 DEF Base
<1> QED BY <1>5, <1>6, <1>7, <1>8, <1>14 DEF u, baseline

LEMMA AdmitIs ==
  ASSUME NEW w, NEW fact, NEW eligible \in BOOLEAN
  PROVE  LET u == Admit(w, fact, eligible) IN
         \/ w.rt.blocked /\ u = w
         \/ \E why \in {"Unsupported", "SourceLimit"} : u = Reject(w, why)
         \/ w.rt.view # 1 /\ u = Reject(w, "InvalidOrder")
         \/ w.rt.p.epoch # 0 /\ u = Published(w, fact)
         \/ /\ ~w.rt.blocked /\ w.rt.p.epoch = 0 /\ fact.kind # "Acquire" /\ w.rt.excluded # SourceCapacity
            /\ u = Excluded(w, fact)
<1>1. CASE w.rt.blocked
  BY <1>1 DEF Admit
<1>2. CASE ~w.rt.blocked /\ ~eligible
  BY <1>2 DEF Admit
<1>3. CASE ~w.rt.blocked /\ eligible /\ w.rt.p.epoch # 0
  BY <1>3 DEF Admit
<1>4. CASE ~w.rt.blocked /\ eligible /\ w.rt.p.epoch = 0
  BY <1>4 DEF Admit, Explicit
<1> QED BY <1>1, <1>2, <1>3, <1>4

\* An envelope with the host's latest step.
LEMMA AdmittedGood ==
  ASSUME NEW w, NEW H, NEW H2, NEW fact, Good(w, H), Legal(H, H2, fact), NEW eligible \in BOOLEAN
  PROVE  Good(Admit(w, fact, eligible), H2) /\ Moves(w, Admit(w, fact, eligible))
<1> DEFINE u == Admit(w, fact, eligible)
<1>0. Base(w, H) /\ HostOK(H) /\ HostOK(H2) /\ fact \in FactRecords /\ Typed(w)
  BY DEF Good, Base, Legal
<1>1. CASE w.rt.blocked /\ u = w
  BY <1>0, <1>1, DeafGood, MovesNot
<1>2. ASSUME NEW why \in {"Unsupported", "SourceLimit"}, u = Reject(w, why) PROVE Good(u, H2) /\ Moves(w, u)
  BY <1>0, <1>2, RejectedGood DEF Reasons, Aborts
<1>3. CASE w.rt.view # 1 /\ u = Reject(w, "InvalidOrder")
  BY <1>0, <1>3, RejectedGood DEF Reasons, Aborts
<1>4. CASE w.rt.p.epoch # 0 /\ u = Published(w, fact)
  BY <1>4, PublishedGood
<1>5. CASE /\ ~w.rt.blocked /\ w.rt.p.epoch = 0 /\ fact.kind # "Acquire" /\ w.rt.excluded # SourceCapacity
           /\ u = Excluded(w, fact)
  <2>1. /\ Base(u, H2) /\ Moves(w, u) /\ Mapping(u) = Mapping(w)
        /\ u.rt.view = w.rt.view /\ u.rt.blocked = w.rt.blocked /\ u.rt.cur = w.rt.cur
        /\ u.rt.recovering = w.rt.recovering /\ u.rt.producer = w.rt.producer
        /\ u.rt.baseline = IF fact.kind = "Transition" /\ w.rt.view = 1 THEN fact.epoch ELSE w.rt.baseline
    BY <1>0, <1>5, ExcludedIs
  <2> HIDE DEF u
  <2>2. Ready(u, H2)
    <3>1. SUFFICES ASSUME u.rt.view = 1, ~u.rt.blocked, u.rt.cur # 0, u.rt.recovering = "no",
                          IsBound(Mapping(u)) => u.rt.producer /\ Mapping(u).abort = "None"
                   PROVE  u.rt.baseline = H2.epoch /\ ~H2.active
      BY DEF Ready
    <3>2. w.rt.baseline = H.epoch /\ ~H.active
      BY <1>5, <2>1, <3>1 DEF Good, Ready
    <3>3. H.active \in BOOLEAN /\ H2.active \in BOOLEAN
      BY <1>0 DEF HostOK, HostType
    <3>4. fact.kind = "Transition" /\ H2.epoch = fact.epoch /\ H2.active = H.active
      BY <1>5, <3>2 DEF Legal
    <3> QED BY <2>1, <3>1, <3>2, <3>3, <3>4
  <2> QED BY <2>1, <2>2 DEF Good, u
<1> HIDE DEF u
<1>6. \/ w.rt.blocked /\ u = w
      \/ \E why \in {"Unsupported", "SourceLimit"} : u = Reject(w, why)
      \/ w.rt.view # 1 /\ u = Reject(w, "InvalidOrder")
      \/ w.rt.p.epoch # 0 /\ u = Published(w, fact)
      \/ /\ ~w.rt.blocked /\ w.rt.p.epoch = 0 /\ fact.kind # "Acquire" /\ w.rt.excluded # SourceCapacity
         /\ u = Excluded(w, fact)
  BY AdmitIs DEF u
<1> QED BY <1>1, <1>2, <1>3, <1>4, <1>5, <1>6 DEF u

\* The room that a new connection finds, if the host holds nothing.
LEMMA WelcomedGood ==
  ASSUME NEW w, NEW H, NEW fact \in FactRecords, Base(w, H), ~H.active,
         fact.kind = "Transition", fact.epoch = H.epoch,
         w.rt.producer => Mapping(w).abort # "None"
  PROVE  Good(Admit(w, fact, TRUE), H) /\ Moves(w, Admit(w, fact, TRUE))
<1> DEFINE u == Admit(w, fact, TRUE)
<1>0. HostOK(H) /\ Typed(w)
  BY DEF Base
<1>1. CASE w.rt.blocked /\ u = w
  BY <1>0, <1>1, MovesNot DEF Good, Ready
<1>2. ASSUME NEW why \in {"Unsupported", "SourceLimit"}, u = Reject(w, why) PROVE Good(u, H) /\ Moves(w, u)
  BY <1>0, <1>2, RejectedGood DEF Reasons, Aborts
<1>3. CASE w.rt.view # 1 /\ u = Reject(w, "InvalidOrder")
  BY <1>0, <1>3, RejectedGood DEF Reasons, Aborts
<1>4. CASE w.rt.p.epoch # 0 /\ u = Published(w, fact)
  <2>1. /\ w.rt.producer /\ IsBound(Mapping(w)) /\ Mapping(w).abort # "None" /\ ChannelOK(Mapping(w))
        /\ w.rt.p \in ProducerType
    BY <1>4 DEF Base, Bindings, Typed, Mapping, WorldType, RuntimeType
  <2>2. ~Healthy(Mapping(w))
    BY <2>1 DEF Healthy
  <2>3. ~Healthy(Publish(Mapping(w), w.rt.p, fact))
    BY <2>1, <2>2, PublishedChannel
  <2> QED BY <1>0, <1>4, <2>2, <2>3, PublishedCut
<1>5. CASE /\ ~w.rt.blocked /\ w.rt.p.epoch = 0 /\ fact.kind # "Acquire" /\ w.rt.excluded # SourceCapacity
           /\ u = Excluded(w, fact)
  <2> DEFINE x == Excluded(w, fact)
  <2>1. /\ Base(x, H) /\ Moves(w, x) /\ x.rt.view = w.rt.view
        /\ x.rt.baseline = IF fact.kind = "Transition" /\ w.rt.view = 1 THEN fact.epoch ELSE w.rt.baseline
    <3>1. w.rt.p.epoch = 0 /\ w.rt.excluded # SourceCapacity
      BY <1>5
    <3> HIDE DEF u
    <3> QED BY <1>0, <3>1, ExcludedIs
  <2> HIDE DEF x
  <2>2. u = x
    BY <1>5 DEF x
  <2> HIDE DEF u
  <2>3. Ready(x, H)
    BY <2>1 DEF Ready
  <2> QED BY <2>1, <2>2, <2>3 DEF Good, u
<1> HIDE DEF u
<1>6. \/ w.rt.blocked /\ u = w
      \/ \E why \in {"Unsupported", "SourceLimit"} : u = Reject(w, why)
      \/ w.rt.view # 1 /\ u = Reject(w, "InvalidOrder")
      \/ w.rt.p.epoch # 0 /\ u = Published(w, fact)
      \/ /\ ~w.rt.blocked /\ w.rt.p.epoch = 0 /\ fact.kind # "Acquire" /\ w.rt.excluded # SourceCapacity
         /\ u = Excluded(w, fact)
  BY AdmitIs DEF u
<1> QED BY <1>1, <1>2, <1>3, <1>4, <1>5, <1>6 DEF u

-----------------------------------------------------------------------------
(* The actions of the host and of the connection *)

LEMMA BecomesWorld ==
  ASSUME NEW w \in WorldType, BecomeWorld(w)
  PROVE  World' = w
BY DEF BecomeWorld, World, WorldType

\* What the owner has taken does not change with what the runtime does.
LEMMA OwnedKept ==
  ASSUME NEW w, NEW w2, NEW o, Owned(w, o), Typed(w), Typed(w2), Moves(w, w2), o.view = owner.view
  PROVE  Owned(w2, o)
<1> DEFINE c == w.chan[o.view]
           d == w2.chan[o.view]
<1>1. o.view \in Lifetimes /\ ChannelOK(c) /\ ChannelOK(d) /\ Grows(c, d)
  BY DEF Owned, OwnerType, Typed, Moves
<1>2. /\ c.ack.ordinal \in Nat /\ d.ack.ordinal \in Nat /\ c.ack.ordinal <= Len(c.log) /\ Len(c.log) \in Nat
      /\ c.consumed \in Nat /\ d.consumed \in Nat
  <2> HIDE DEF c, d
  <2>1. c \in ChannelType /\ d \in ChannelType /\ c.ack.ordinal <= Len(c.log)
    BY <1>1 DEF ChannelOK
  <2>2. c.ack \in AckType /\ d.ack \in AckType /\ c.log \in Seq(FactRecords)
    BY <2>1 DEF ChannelType
  <2> QED BY <2>1, <2>2 DEF ChannelType, AckType
<1>3. ASSUME NEW k \in 2..d.ack.ordinal PROVE d.log[k].source \in o.own.seen
  <2>1. d.ack.ordinal # 0
    BY <1>2, <1>3
  <2>2. d.ack = c.ack /\ \A n \in 1..Len(c.log) : d.log[n] = c.log[n]
    BY <1>1, <2>1 DEF Grows
  <2>3. k \in 1..Len(c.log) /\ k \in 2..c.ack.ordinal
    BY <1>2, <1>3, <2>2
  <2>4. d.log[k] = c.log[k]
    BY <2>2, <2>3
  <2> QED BY <2>3, <2>4 DEF Owned
<1>4. d.abort = "None" => o.release <= d.consumed
  <2>1. d.abort = "None" => d.consumed = c.consumed /\ c.abort = "None"
    BY <1>1 DEF Grows
  <2> QED BY <2>1 DEF Owned
<1>5. o.view <= w2.rt.last
  BY DEF Owned, OwnerType, Typed, WorldType, RuntimeType, Moves, Lifetimes
<1>6. \A l \in Lifetimes : l > o.view => w2.chan[l].scope = 0
  BY DEF Owned, Moves
<1> QED BY <1>3, <1>4, <1>5, <1>6 DEF Owned

LEMMA ToldGood ==
  ASSUME NEW fact, NEW eligible \in BOOLEAN, HostFact(fact, eligible),
         Good(World, host), owner.view \in Lifetimes, Legal(host, host', fact)
  PROVE  Good(World', host') /\ Moves(World, World')
<1> DEFINE w == Pulsed(World, eligible)
           u == Admit(w, fact, eligible)
<1>0. Typed(World) /\ HostOK(host') /\ World \in WorldType
  BY DEF Good, Base, Legal, Typed
<1>1. CASE ~WorldReaches(World)
  <2>1. World' = World
    BY <1>1 DEF HostFact, World
  <2> HIDE DEF w, u
  <2> QED BY <1>0, <1>1, <2>1, DeafGood, MovesNot
<1>2. CASE WorldReaches(World)
  <2>1. eligible => ~World.rt.quarantined
    BY <1>2 DEF WorldReaches
  <2>2. Good(w, host) /\ Moves(World, w)
    BY <2>1, PulsedGood
  <2>3. w \in WorldType /\ Typed(w)
    BY <2>2 DEF Good, Base, Typed
  <2>4. CASE ~WorldReaches(w)
    <3>1. World' = w
      <4>1. BecomeWorld(w)
        BY <1>2, <2>4 DEF HostFact
      <4> HIDE DEF w, u
      <4> QED BY <2>3, <4>1, BecomesWorld
    <3> HIDE DEF w, u
    <3> QED BY <1>0, <2>2, <2>4, <3>1, DeafGood
  <2>5. CASE WorldReaches(w)
    <3>1. BecomeWorld(u)
      BY <1>2, <2>5 DEF HostFact
    <3> HIDE DEF w
    <3>2. Good(u, host') /\ Moves(w, u)
      BY <2>2, AdmittedGood
    <3>3. u \in WorldType /\ Typed(u)
      BY <3>2 DEF Good, Base, Typed
    <3> HIDE DEF u
    <3>4. World' = u
      BY <3>1, <3>3, BecomesWorld
    <3>5. Moves(World, u)
      BY <1>0, <2>2, <2>3, <3>2, <3>3, MovesOn
    <3> QED BY <3>2, <3>4, <3>5
  <2> QED BY <2>4, <2>5
<1> QED BY <1>1, <1>2

LEMMA PulseGood ==
  ASSUME NEW eligible \in BOOLEAN, Pulse(eligible), Good(World, host), owner.view \in Lifetimes
  PROVE  Good(World', host') /\ Moves(World, World')
<1> DEFINE e == eligible /\ ~rt.quarantined
           w == Pulsed(World, e)
<1>1. e \in BOOLEAN /\ (e => ~World.rt.quarantined)
  BY DEF World
<1>2. BecomeWorld(w) /\ host' = host
  BY DEF Pulse
<1> HIDE DEF e
<1>3. Good(w, host) /\ Moves(World, w)
  BY <1>1, PulsedGood
<1>4. w \in WorldType
  BY <1>3 DEF Good, Base, Typed
<1> HIDE DEF w
<1> QED BY <1>2, <1>3, <1>4, BecomesWorld

LEMMA LoseGood ==
  ASSUME Lose, Good(World, host)
  PROVE  Good(World', host') /\ Moves(World, World')
<1> DEFINE x == Retire(World, "BindingReset")
           recovering == IF x.rt.recovering = "no" THEN "no" ELSE "lost"
           r == [x.rt EXCEPT !.cur = 0, !.left = 0, !.recovering = recovering]
           u == [x EXCEPT !.rt = r]
<1>0. Base(World, host) /\ World.rt \in RuntimeType
  BY DEF Good, Base, Typed, WorldType
<1>1. /\ x \in WorldType
      /\ IsBound(Mapping(World)) => x.rt = [World.rt EXCEPT !.blocked = TRUE]
      /\ ~IsBound(Mapping(World)) => x.rt = [World.rt EXCEPT !.excluded = 0, !.baseline = 0]
  BY <1>0, RetiredIs
<1>2. x.rt.recovering = World.rt.recovering /\ x.rt \in RuntimeType
  BY <1>0, <1>1 DEF RuntimeType, WorldType
<1>3. BecomeWorld([x EXCEPT !.rt.cur = 0, !.rt.left = 0, !.rt.recovering = IF @ = "no" THEN @ ELSE "lost"])
  BY DEF Lose
<1> HIDE DEF x
<1>4. [x EXCEPT !.rt.cur = 0, !.rt.left = 0, !.rt.recovering = IF @ = "no" THEN @ ELSE "lost"] = u
  BY <1>1, <1>2 DEF WorldType, RuntimeType
<1>5. recovering \in {"no", "lost"} /\ (recovering = "lost" => IsBound(Mapping(World)))
  BY <1>0, <1>2 DEF Base, Bindings
<1> HIDE DEF recovering
<1>6. r \in RuntimeType
  BY <1>2, <1>5 DEF RuntimeType
<1>7. u \in WorldType /\ u.chan = x.chan /\ u.rt = r
  <2> HIDE DEF r
  <2> QED BY <1>1, <1>6, RetypedWorld
<1>8. World' = u
  <2> HIDE DEF r, u
  <2> QED BY <1>3, <1>4, <1>7, BecomesWorld
<1>9. Good(u, host) /\ Moves(World, u)
  <2> HIDE DEF u
  <2>1. u.rt = [Retire(World, "BindingReset").rt EXCEPT !.cur = 0, !.left = 0, !.recovering = recovering]
    BY <1>7 DEF x
  <2>2. u.chan = Retire(World, "BindingReset").chan
    BY <1>7 DEF x
  <2>3. 0 \in Nat
    OBVIOUS
  <2> QED BY <1>0, <1>5, <1>7, <2>1, <2>2, <2>3, LostGood
<1>10. host' = host
  BY DEF Lose
<1> QED BY <1>8, <1>9, <1>10

LEMMA RestartGood ==
  ASSUME Restart, Good(World, host)
  PROVE  Good(World', host') /\ Moves(World, World')
<1> DEFINE r == [rt EXCEPT !.view = 1, !.producer = FALSE, !.p = NoProducer, !.blocked = FALSE,
                           !.baseline = 0, !.excluded = 0, !.recovering = "no", !.quarantined = FALSE]
           u == [rt |-> r, chan |-> chan]
<1>0. /\ World \in WorldType /\ Typed(World) /\ rt \in RuntimeType /\ World.chan = chan /\ World.rt = rt
      /\ Base(World, host) /\ 1 \in Lifetimes
  BY Constants DEF Good, Base, Typed, WorldType, World, Lifetimes
<1>1. NoProducer \in ProducerType /\ NoProducer.epoch = 0 /\ NoProducer.active = FALSE /\ NoProducer.sources = 0
  BY DEF NoProducer, ProducerType
<1>2. /\ r.view = 1 /\ r.producer = FALSE /\ r.p = NoProducer /\ r.blocked = FALSE /\ r.excluded = 0
      /\ r.recovering = "no" /\ r.quarantined = FALSE /\ r.cur = 0 /\ r.last = rt.last
  BY <1>0 DEF RuntimeType, Restart
<1>3. r \in RuntimeType
  BY <1>0, <1>1 DEF RuntimeType
<1>4. World' = u /\ host' = host
  BY DEF Restart, World
<1> HIDE DEF r
<1>5. u \in WorldType /\ u.rt = r /\ u.chan = World.chan
  BY <1>0, <1>3 DEF WorldType, World
<1> HIDE DEF u
<1>6. Typed(u) /\ Moves(World, u)
  BY <1>0, <1>2, <1>5, MovesNot DEF Typed, Moves
<1>7. Bindings(u)
  BY <1>0, <1>1, <1>2, <1>5 DEF Base, Bindings
<1>8. Live(u) /\ Whole(u, host) /\ Agrees(u, host) /\ Ready(u, host)
  BY <1>2, <1>5 DEF Live, Whole, Agrees, Ready
<1>9. Counted(u)
  BY <1>1, <1>2, <1>5, Constants DEF Counted
<1> QED BY <1>0, <1>4, <1>5, <1>6, <1>7, <1>8, <1>9 DEF Good, Base

\* A new connection, before it knows anything of the room.
LEMMA JoinedBase ==
  ASSUME Good(World, host), rt.cur = 0, rt.last < MaxLifetimes
  PROVE  LET j == [World EXCEPT !.rt.cur = rt.last + 1, !.rt.last = rt.last + 1, !.rt.quarantined = FALSE] IN
         /\ Base(j, host) /\ Moves(World, j) /\ j.rt.recovering = rt.recovering
         /\ j.rt.producer => Mapping(j).abort # "None"
         /\ rt.recovering # "no" =>
              LET u == [j EXCEPT !.rt.recovering = "joined"] IN Good(u, host) /\ Moves(World, u)
<1> DEFINE r == [rt EXCEPT !.cur = rt.last + 1, !.last = rt.last + 1, !.quarantined = FALSE]
           j == [World EXCEPT !.rt.cur = rt.last + 1, !.rt.last = rt.last + 1, !.rt.quarantined = FALSE]
           s == [r EXCEPT !.recovering = "joined"]
           u == [j EXCEPT !.rt.recovering = "joined"]
<1>0. /\ World \in WorldType /\ Typed(World) /\ rt \in RuntimeType /\ World.chan = chan /\ World.rt = rt
      /\ Base(World, host) /\ 1 \in Lifetimes /\ rt.last \in Nat /\ rt.last >= 1
      /\ rt.last + 1 \in Lifetimes
  BY Constants DEF Good, Base, Typed, WorldType, RuntimeType, World, Lifetimes
<1>1. /\ r.cur = rt.last + 1 /\ r.last = rt.last + 1 /\ r.quarantined = FALSE /\ r.view = rt.view
      /\ r.producer = rt.producer /\ r.p = rt.p /\ r.blocked = rt.blocked /\ r.excluded = rt.excluded
      /\ r.recovering = rt.recovering
  BY <1>0 DEF RuntimeType
<1>2. r \in RuntimeType
  <2>1. rt.last + 1 \in Nat
    BY <1>0
  <2> QED BY <1>0, <2>1 DEF RuntimeType
<1>3. j = [World EXCEPT !.rt = r]
  <2>1. World.rt = rt /\ DOMAIN World = {"rt", "chan"}
    BY <1>0 DEF World
  <2> QED BY <2>1
<1> HIDE DEF r
<1> HIDE DEF j
<1>4. j \in WorldType /\ j.rt = r /\ j.chan = World.chan
  BY <1>0, <1>2, <1>3, RetypedWorld
<1>5. /\ s \in RuntimeType /\ s.cur = r.cur /\ s.last = r.last /\ s.quarantined = FALSE /\ s.view = r.view
      /\ s.producer = r.producer /\ s.p = r.p /\ s.blocked = r.blocked /\ s.excluded = r.excluded
      /\ s.recovering = "joined"
  BY <1>1, <1>2 DEF RuntimeType
<1>6. u = [j EXCEPT !.rt = s]
  BY <1>4 DEF WorldType
<1> HIDE DEF s
<1>7. u \in WorldType /\ u.rt = s /\ u.chan = World.chan
  BY <1>4, <1>5, <1>6, RetypedWorld
<1> HIDE DEF u
<1>8. rt.recovering \in {"no", "lost"} /\ (rt.producer => Mapping(World).abort # "None")
  BY <1>0 DEF Base, Bindings, Live, RuntimeType
<1>9. Mapping(j) = Mapping(World) /\ Mapping(u) = Mapping(World)
  BY <1>0, <1>1, <1>4, <1>5, <1>7 DEF Mapping
<1>10. \A l \in Lifetimes : World.chan[l].scope <= rt.last + 1 /\ (l # 1 => World.chan[l].scope \in {0, l})
  <2>1. \A l \in Lifetimes : World.chan[l].scope <= rt.last /\ (l # 1 => World.chan[l].scope \in {0, l})
    BY <1>0 DEF Base, Bindings
  <2>2. \A l \in Lifetimes : World.chan[l].scope \in Nat
    BY <1>0 DEF Typed, ChannelOK, ChannelType
  <2> QED BY <1>0, <2>1, <2>2
<1>11. World.chan[rt.last + 1].scope = 0
  <2>1. World.chan[rt.last + 1].scope <= rt.last /\ World.chan[rt.last + 1].scope \in {0, rt.last + 1}
    BY <1>0 DEF Base, Bindings
  <2> QED BY <1>0, <2>1
<1>12. Base(j, host) /\ Moves(World, j)
  <2>1. Typed(j) /\ Moves(World, j)
    BY <1>0, <1>1, <1>4, MovesNot DEF Typed, Moves
  <2>2. Bindings(j)
    BY <1>0, <1>1, <1>4, <1>8, <1>9, <1>10 DEF Base, Bindings
  <2>3. Live(j) /\ Agrees(j, host) /\ Counted(j) /\ Whole(j, host)
    BY <1>0, <1>1, <1>4, <1>8, <1>9 DEF Base, Live, Agrees, Counted, Whole
  <2> QED BY <1>0, <1>4, <2>1, <2>2, <2>3 DEF Base
<1>13. ASSUME rt.recovering # "no" PROVE Good(u, host) /\ Moves(World, u)
  <2>1. Typed(u) /\ Moves(World, u)
    BY <1>0, <1>1, <1>5, <1>7, MovesNot DEF Typed, Moves
  <2>2. Bindings(u)
    BY <1>0, <1>1, <1>5, <1>7, <1>8, <1>9, <1>10, <1>11, <1>13 DEF Base, Bindings
  <2>3. Live(u) /\ Agrees(u, host) /\ Counted(u) /\ Whole(u, host) /\ Ready(u, host)
    BY <1>0, <1>1, <1>5, <1>7, <1>8, <1>9 DEF Base, Live, Agrees, Counted, Whole, Ready
  <2> QED BY <1>0, <1>7, <2>1, <2>2, <2>3 DEF Good, Base
<1> QED BY <1>1, <1>4, <1>8, <1>9, <1>12, <1>13 DEF j, u

LEMMA RejoinGood ==
  ASSUME Rejoin, Good(World, host)
  PROVE  Good(World', host') /\ Moves(World, World')
<1> DEFINE cached == Fact("Transition", Replayed, host.epoch, FALSE)
           j == [World EXCEPT !.rt.cur = rt.last + 1, !.rt.last = rt.last + 1, !.rt.quarantined = FALSE]
           u == [j EXCEPT !.rt.recovering = "joined"]
           a == Admit(j, cached, TRUE)
<1>1. rt.cur = 0 /\ rt.last < MaxLifetimes /\ ~host.active /\ host' = host
  BY DEF Rejoin
<1>2. /\ rt.recovering = "no" => BecomeWorld(a)
      /\ rt.recovering # "no" => BecomeWorld(u)
  BY DEF Rejoin
<1>3. /\ Base(j, host) /\ Moves(World, j)
      /\ j.rt.producer => Mapping(j).abort # "None"
      /\ rt.recovering # "no" => Good(u, host) /\ Moves(World, u)
  BY <1>1, JoinedBase
<1>4. cached \in FactRecords /\ cached.kind = "Transition" /\ cached.epoch = host.epoch
  BY Constants DEF Fact, FactRecords, FactKinds, Replayed, Good, Base, HostOK, HostType
<1>5. Typed(World) /\ Typed(j)
  BY <1>3 DEF Good, Base
<1> HIDE DEF j, cached
<1>6. CASE rt.recovering = "no"
  <2>1. Good(a, host) /\ Moves(j, a)
    BY <1>1, <1>3, <1>4, WelcomedGood
  <2>2. a \in WorldType /\ Typed(a)
    BY <2>1 DEF Good, Base, Typed
  <2> HIDE DEF a
  <2>3. World' = a
    BY <1>2, <1>6, <2>2, BecomesWorld
  <2>4. Moves(World, a)
    BY <1>3, <1>5, <2>1, <2>2, MovesOn
  <2> QED BY <1>1, <2>1, <2>3, <2>4
<1>7. CASE rt.recovering # "no"
  <2> HIDE DEF u
  <2>1. u \in WorldType
    BY <1>3, <1>7 DEF Good, Base, Typed
  <2>2. World' = u
    BY <1>2, <1>7, <2>1, BecomesWorld
  <2> QED BY <1>1, <1>3, <1>7, <2>2
<1> QED BY <1>6, <1>7

LEMMA ConvergedGood ==
  ASSUME ResyncConverges, Good(World, host)
  PROVE  Good(World', host') /\ Moves(World, World')
<1> DEFINE r == [rt EXCEPT !.recovering = "result", !.left = RosterTicks]
           u == [rt |-> r, chan |-> chan]
<1>0. /\ World \in WorldType /\ Typed(World) /\ rt \in RuntimeType /\ World.chan = chan /\ World.rt = rt
      /\ Base(World, host) /\ rt.recovering = "joined"
  BY DEF Good, Base, Typed, WorldType, World, ResyncConverges
<1>1. /\ r \in RuntimeType /\ r.recovering = "result" /\ r.cur = rt.cur /\ r.last = rt.last
      /\ r.quarantined = rt.quarantined /\ r.view = rt.view /\ r.producer = rt.producer /\ r.p = rt.p
      /\ r.blocked = rt.blocked /\ r.excluded = rt.excluded
  BY <1>0, Constants DEF RuntimeType
<1>2. World' = u /\ host' = host
  BY DEF ResyncConverges, World
<1> HIDE DEF r
<1>3. u \in WorldType /\ u.rt = r /\ u.chan = World.chan
  BY <1>0, <1>1 DEF WorldType, World
<1> HIDE DEF u
<1>4. Mapping(u) = Mapping(World)
  BY <1>0, <1>1, <1>3 DEF Mapping
<1>5. Typed(u) /\ Moves(World, u)
  BY <1>0, <1>1, <1>3, MovesNot DEF Typed, Moves
<1>6. Bindings(u)
  BY <1>0, <1>1, <1>3, <1>4 DEF Base, Bindings
<1>7. Live(u) /\ Whole(u, host) /\ Agrees(u, host) /\ Ready(u, host) /\ Counted(u)
  BY <1>0, <1>1, <1>3, <1>4 DEF Base, Live, Whole, Agrees, Ready, Counted
<1> QED BY <1>0, <1>2, <1>3, <1>5, <1>6, <1>7 DEF Good, Base

-----------------------------------------------------------------------------
(* The hold and the orphaned pause *)

LEMMA InputConstants ==
  /\ NoHold \in InputType /\ NoHold.phase = "Idle" /\ Complete \in InputType /\ Complete.phase = "Complete"
  /\ Acquire \in InputType /\ NoOrphan \in PauseType /\ OrphanOver \in PauseType
<1>1. /\ 0 \in 0..UnwindPresses /\ 0 \in 0..(UnwindPresses + 1) /\ Unset \in Int /\ OpenTicks \in Int
  BY Constants DEF Unset
<1>2. NoHold \in InputType /\ NoHold.phase = "Idle"
  BY <1>1 DEF NoHold, InputType, Phases
<1>3. Complete \in InputType /\ Complete.phase = "Complete"
  BY <1>1, <1>2 DEF Complete, InputType, Phases
<1>4. Acquire \in InputType
  BY <1>1, <1>2 DEF Acquire, InputType, Phases
<1>5. NoOrphan \in PauseType
  BY <1>1 DEF NoOrphan, PauseType
<1>6. OrphanOver \in PauseType
  BY <1>5 DEF OrphanOver, PauseType
<1> QED BY <1>2, <1>3, <1>4, <1>5, <1>6

LEMMA FailedType ==
  ASSUME NEW i \in InputType
  PROVE  Fail(i) \in InputType /\ Fail(i).phase = "Failed"
<1>1. (IF i.phase = "Failed" THEN i.failedOwned ELSE OwnedPauseOpen(i)) \in BOOLEAN
  BY DEF InputType, OwnedPauseOpen
<1> DEFINE b == IF i.phase = "Failed" THEN i.failedOwned ELSE OwnedPauseOpen(i)
<1>2. Fail(i) = [NoHold EXCEPT !.phase = "Failed", !.failedOwned = b]
  BY DEF Fail
<1> HIDE DEF b
<1>3. b \in BOOLEAN
  BY <1>1 DEF b
<1> QED BY <1>2, <1>3, InputConstants DEF InputType, Phases

\* A tick of a hold keeps the bounds, and completes or fails it for what it sees.
LEMMA SteppedType ==
  ASSUME NEW i \in InputType, NEW s
  PROVE  Step(i, s) \in InputType
<1> DEFINE u == Step(i, s)
<1>0. Fail(i) \in InputType /\ Complete \in InputType
  BY FailedType, InputConstants
<1>1. ASSUME NEW phase \in Phases
      PROVE  /\ [i EXCEPT !.phase = phase] \in InputType
             /\ [i EXCEPT !.press = FALSE] \in InputType
             /\ [i EXCEPT !.owned = TRUE, !.phase = "Paused", !.open = 0] \in InputType
             /\ [i EXCEPT !.phase = "CloseRelease", !.due = FALSE, !.unwound = 0] \in InputType
             /\ [i EXCEPT !.owned = FALSE, !.phase = "OwnerWait", !.due = FALSE] \in InputType
  <2>1. 0 \in 0..UnwindPresses
    BY Constants
  <2>2. "Paused" \in Phases /\ "CloseRelease" \in Phases /\ "OwnerWait" \in Phases
    BY DEF Phases
  <2>3. [i EXCEPT !.phase = phase] \in InputType
    BY DEF InputType
  <2>4. [i EXCEPT !.press = FALSE] \in InputType
    BY DEF InputType
  <2>5. [i EXCEPT !.owned = TRUE, !.phase = "Paused", !.open = 0] \in InputType
    <3> DEFINE a == [i EXCEPT !.owned = TRUE]
    <3>1. a \in InputType
      BY DEF InputType
    <3>2. [i EXCEPT !.owned = TRUE, !.phase = "Paused", !.open = 0] = [a EXCEPT !.phase = "Paused", !.open = 0]
      OBVIOUS
    <3> HIDE DEF a
    <3>3. 0 \in Int
      OBVIOUS
    <3>4. [a EXCEPT !.phase = "Paused", !.open = 0] \in InputType
      BY <2>2, <3>1, <3>3 DEF InputType
    <3> QED BY <3>2, <3>4
  <2>6. [i EXCEPT !.phase = "CloseRelease", !.due = FALSE, !.unwound = 0] \in InputType
    BY <2>1, <2>2 DEF InputType
  <2>7. [i EXCEPT !.owned = FALSE, !.phase = "OwnerWait", !.due = FALSE] \in InputType
    BY <2>2 DEF InputType
  <2> QED BY <2>3, <2>4, <2>5, <2>6, <2>7
<1>2. CASE u \in {i, Fail(i), Complete}
  BY <1>0, <1>2
<1>3. CASE u = [i EXCEPT !.press = FALSE]
  BY <1>1, <1>3 DEF Phases
<1>4. CASE ~i.press /\ i.phase \in {"OpenRelease", "CloseRelease"}
           /\ \E phase \in Phases : u = [i EXCEPT !.phase = phase]
  BY <1>1, <1>4
<1>5. CASE i.phase = "Opening" /\ u = StepOpening(i, s)
  BY <1>0, <1>1, <1>5 DEF StepOpening, Phases
<1>6. CASE i.phase = "Paused" /\ u = StepPaused(i, s)
  BY <1>0, <1>1, <1>6 DEF StepPaused, Phases
<1>7. CASE i.phase = "Closing" /\ u = StepClosing(i, s)
  <2>1. CASE u \in {i, Fail(i)} \/ u = [i EXCEPT !.owned = FALSE, !.phase = "OwnerWait", !.due = FALSE]
    BY <1>0, <1>1, <2>1 DEF Phases
  <2>2. CASE /\ ~(i.unwound >= UnwindPresses)
             /\ u = [i EXCEPT !.unwound = i.unwound + 1, !.due = FALSE, !.phase = "CloseRelease"]
    <3>1. i.unwound + 1 \in 0..UnwindPresses
      BY <2>2, Constants DEF InputType
    <3> QED BY <2>2, <3>1 DEF InputType, Phases
  <2> QED BY <1>7, <2>1, <2>2 DEF StepClosing
<1>8. CASE i.phase = "OwnerWait" /\ u = StepOwnerWait(i, s)
  BY <1>0, <1>1, <1>8 DEF StepOwnerWait, Phases
<1>9. CASE i.phase = "ReleaseBoundary" /\ u = StepReleaseBoundary(i, s)
  BY <1>0, <1>9 DEF StepReleaseBoundary
<1>10. \/ u \in {i, Fail(i)}
       \/ u = [i EXCEPT !.press = FALSE]
       \/ Holding(i) /\ s.healthy /\ ~i.press
  BY DEF Step
<1>11. CASE Holding(i) /\ s.healthy /\ ~i.press
  <2>1. i.phase \in {"OpenRelease", "Opening", "Paused", "CloseRelease", "Closing", "OwnerWait", "ReleaseBoundary"}
    BY <1>11 DEF Holding, InputType, Phases
  <2>2. CASE i.phase = "OpenRelease"
    <3>1. u = [i EXCEPT !.phase = "Opening"]
      BY <1>11, <2>2 DEF Step
    <3> QED BY <1>1, <3>1 DEF Phases
  <2>3. CASE i.phase = "CloseRelease"
    <3>1. u = [i EXCEPT !.phase = "Closing"]
      BY <1>11, <2>3 DEF Step
    <3> QED BY <1>1, <3>1 DEF Phases
  <2>4. CASE i.phase = "Opening"
    BY <1>5, <1>11, <2>4 DEF Step
  <2>5. CASE i.phase = "Paused"
    BY <1>6, <1>11, <2>5 DEF Step
  <2>6. CASE i.phase = "Closing"
    BY <1>7, <1>11, <2>6 DEF Step
  <2>7. CASE i.phase = "OwnerWait"
    BY <1>8, <1>11, <2>7 DEF Step
  <2>8. CASE i.phase = "ReleaseBoundary"
    BY <1>9, <1>11, <2>8 DEF Step
  <2> QED BY <2>1, <2>2, <2>3, <2>4, <2>5, <2>6, <2>7, <2>8
<1> QED BY <1>2, <1>3, <1>10, <1>11

LEMMA AgedType ==
  ASSUME NEW i \in InputType
  PROVE  Aged(i) \in InputType /\ Aged(i).phase = i.phase
<1> DEFINE open == IF i.open > 0 THEN i.open - 1 ELSE i.open
           release == IF i.release > 0 THEN i.release - 1 ELSE i.release
           due == i.phase \in {"CloseRelease", "Closing"}
<1>1. open \in Int /\ release \in Int /\ due \in BOOLEAN
  BY DEF InputType
<1>2. Aged(i) = [i EXCEPT !.open = open, !.release = release, !.due = due]
  BY DEF Aged
<1> HIDE DEF open, release, due
<1> QED BY <1>1, <1>2 DEF InputType

LEMMA ServicedType ==
  ASSUME NEW shown, pause \in PauseType
  PROVE  Serviced(shown) \in PauseType
<1>1. ArmOrphan(shown) \in PauseType
  <2>1. (shown = "pause") \in BOOLEAN
    OBVIOUS
  <2> QED BY <2>1, InputConstants DEF ArmOrphan, PauseType
<1>2. ASSUME NEW o \in PauseType PROVE StepOrphan(o, shown) \in PauseType
  <2>1. [o EXCEPT !.release = FALSE] \in PauseType
    BY DEF PauseType
  <2>2. ASSUME ~(o.presses > UnwindPresses)
        PROVE  [o EXCEPT !.presses = o.presses + 1, !.due = FALSE, !.release = TRUE] \in PauseType
    <3>1. o.presses + 1 \in 0..(UnwindPresses + 1)
      BY <2>2, Constants DEF PauseType
    <3> QED BY <3>1 DEF PauseType
  <2> QED BY <2>1, <2>2, InputConstants DEF StepOrphan
<1> QED BY <1>1, <1>2 DEF Serviced

\* What the hold takes of a record: it remembers no release that it has not read.
LEMMA ReceivedIs ==
  ASSUME NEW i \in InputType, NEW c, NEW record, NEW ordinal \in Nat, NEW safe,
         owner.release \in Nat, owner.held \in Nat
  PROVE  LET got == Received(i, c, record, ordinal, safe) IN
         /\ got.hold \in InputType /\ got.release \in {0, ordinal, owner.release} /\ got.held \in Nat
         /\ i.phase = "ReleaseBoundary" /\ record.kind # "Acquire" =>
              got.hold.phase = "ReleaseBoundary" /\ got.release \in {ordinal, owner.release}
<1> DEFINE got == Received(i, c, record, ordinal, safe)
           left == Supersede(i)
           acquires == /\ c.ack.ready /\ c.ack.epoch = record.epoch
                       /\ CanAcquire(left, [healthy |-> TRUE, safe |-> safe])
           asIs == [hold |-> i, release |-> owner.release, held |-> owner.held]
<1>1. /\ Wake(i) \in InputType /\ Wake(i).phase = i.phase
      /\ FollowScene(i) \in InputType /\ FollowScene(i).phase = i.phase
  BY DEF Wake, FollowScene, InputType
<1>2. ReleaseReceived(Wake(i)) \in InputType /\ ReleaseReceived(Wake(i)).phase = i.phase
  <2> DEFINE a == Wake(i)
  <2>1. a \in InputType /\ a.phase = i.phase /\ ReleaseTicks \in Int
    BY <1>1, Constants
  <2> HIDE DEF a
  <2>2. ReleaseReceived(a) \in InputType /\ ReleaseReceived(a).phase = a.phase
    BY <2>1 DEF ReleaseReceived, InputType
  <2> QED BY <2>1, <2>2 DEF a
<1>3. left \in InputType
  BY InputConstants DEF Supersede
<1> HIDE DEF left
<1>4. i.phase = "ReleaseBoundary" => Holding(i)
  BY DEF Holding
<1>5. CASE record.kind = "Acquire"
  <2>1. got = [hold |-> IF acquires THEN Acquire ELSE left, release |-> 0,
               held |-> IF acquires THEN ordinal ELSE owner.held]
    BY <1>5 DEF Received, left
  <2> HIDE DEF got, acquires
  <2> QED BY <1>3, <1>5, <2>1, InputConstants DEF got
<1>6. CASE record.kind = "Transition" /\ Holding(i)
  <2>1. got = [asIs EXCEPT !.hold = IF record.scene THEN FollowScene(i) ELSE Wake(i)]
    BY <1>6 DEF Received
  <2> HIDE DEF got
  <2> QED BY <1>1, <1>6, <2>1 DEF got
<1>7. CASE record.kind = "Release" /\ Holding(i)
  <2>1. got = [asIs EXCEPT !.hold = ReleaseReceived(Wake(i)), !.release = ordinal]
    BY <1>7 DEF Received
  <2> HIDE DEF got
  <2> QED BY <1>2, <1>7, <2>1 DEF got
<1>8. CASE ~(record.kind = "Acquire" \/ ((record.kind = "Transition" \/ record.kind = "Release") /\ Holding(i)))
  <2>1. got = asIs
    BY <1>8 DEF Received
  <2> HIDE DEF got
  <2> QED BY <1>4, <1>8, <2>1 DEF got
<1> QED BY <1>5, <1>6, <1>7, <1>8

-----------------------------------------------------------------------------
(* The actions of the game *)

\* What the game may do to the mapping it reads: end it, if it does not leave it.
Touches(c, d) ==
  /\ ChannelOK(d) /\ d.scope = c.scope
  /\ \/ d = c
     \/ d.log = <<>> /\ d.abort \notin {"None", "InvalidOrder"} /\ d.ack = NoAck

GameReasons == Reasons \ {"InvalidOrder", "HeartbeatExpired"}

LEMMA InvalidTouches ==
  ASSUME NEW c, ChannelOK(c), NEW why \in GameReasons
  PROVE  Touches(c, Invalidate(c, why)) /\ Invalidate(c, why).abort # "None"
<1>1. CASE c.abort = "None"
  <2>1. Invalidate(c, why) = Aborted(c, why)
    BY <1>1 DEF Invalidate
  <2> QED BY <2>1, AbortedChannel DEF GameReasons, Reasons, Touches
<1>2. CASE c.abort # "None"
  BY <1>2 DEF Invalidate, Touches
<1> QED BY <1>1, <1>2

LEMMA TestedTouches ==
  ASSUME NEW c, ChannelOK(c)
  PROVE  Touches(c, Tested(c))
<1>1. CASE IsBound(c) /\ c.age > TimeoutTicks /\ c.abort = "None"
  <2>1. Tested(c) = Aborted(c, "HeartbeatExpired")
    BY <1>1 DEF Tested, Invalidate
  <2> QED BY <1>1, <2>1, AbortedChannel DEF Reasons, Aborts, Touches
<1>2. CASE ~(IsBound(c) /\ c.age > TimeoutTicks /\ c.abort = "None")
  <2>1. Tested(c) = c
    BY <1>2 DEF Tested, Invalidate
  <2> QED BY <2>1 DEF Touches
<1> QED BY <1>1, <1>2

\* The mapping of the owner alone changes, and not in what its producer wrote.
LEMMA TouchGood ==
  ASSUME Good(World, host), owner.view \in Lifetimes, NEW d, ChannelOK(d), d.scope = OwnMapping.scope,
         Keeps(OwnMapping, d) \/ (d.log = <<>> /\ d.abort \notin {"None", "InvalidOrder"}),
         chan' = [chan EXCEPT ![owner.view] = d], rt' = rt, host' = host
  PROVE  /\ Good(World', host') /\ World'.rt = World.rt
         /\ World'.chan[owner.view] = d /\ \A l \in Lifetimes \ {owner.view} : World'.chan[l] = World.chan[l]
<1> DEFINE w2 == [rt |-> rt, chan |-> [chan EXCEPT ![owner.view] = d]]
<1>0. /\ World \in WorldType /\ Typed(World) /\ World.rt = rt /\ World.chan = chan
      /\ rt \in RuntimeType /\ chan \in [Lifetimes -> ChannelType] /\ d \in ChannelType
  BY DEF Good, Base, Typed, WorldType, World, ChannelOK
<1>1. World' = w2
  BY DEF World
<1>2. /\ w2.rt = rt /\ w2.chan = [chan EXCEPT ![owner.view] = d] /\ w2 \in WorldType
  BY <1>0 DEF WorldType
<1> HIDE DEF w2
<1>3. w2.chan[owner.view] = d /\ \A l \in Lifetimes \ {owner.view} : w2.chan[l] = chan[l]
  BY <1>0, <1>2
<1>4. ASSUME NEW l \in Lifetimes
      PROVE  /\ ChannelOK(w2.chan[l]) /\ w2.chan[l].scope = World.chan[l].scope
             /\ \/ Keeps(World.chan[l], w2.chan[l])
                \/ Ends(World.chan[l], w2.chan[l]) /\ w2.chan[l].abort # "InvalidOrder"
  <2>1. CASE l = owner.view
    BY <1>0, <1>3, <2>1 DEF OwnMapping, Ends
  <2>2. CASE l # owner.view
    BY <1>0, <1>3, <2>2 DEF Typed, Keeps
  <2> QED BY <2>1, <2>2
<1>5. Same(World.rt, w2.rt)
  BY <1>0, <1>2 DEF Same
<1>6. Good(w2, host)
  <2>1. Played(World, w2)
    BY <1>4 DEF Played
  <2> QED BY <1>2, <1>5, <2>1, TouchedGood
<1> QED BY <1>0, <1>1, <1>2, <1>3, <1>6

\* The owner keeps what it has seen, or takes more, of a mapping that it touched.
LEMMA TouchOwned ==
  ASSUME NEW w, NEW w2, NEW o, NEW o2, Owned(w, o), o2 \in OwnerType, o2.view = o.view,
         IsFiniteSet(o2.own.seen), Cardinality(o2.own.seen) <= OwnerCapacity,
         o2.own.scope = 0 => o2.own.seen = {}, Typed(w2),
         w2.rt.last = w.rt.last, \A l \in Lifetimes \ {o.view} : w2.chan[l] = w.chan[l],
         \A k \in 2..w2.chan[o.view].ack.ordinal : w2.chan[o.view].log[k].source \in o2.own.seen,
         w2.chan[o.view].abort = "None" => o2.release <= w2.chan[o.view].consumed
  PROVE  Owned(w2, o2)
<1>1. \A l \in Lifetimes : l > o2.view => l \in Lifetimes \ {o.view}
  BY DEF OwnerType, Lifetimes
<1> QED BY <1>1 DEF Owned

\* An end that the game puts to its mapping leaves nothing to acknowledge.
LEMMA EndedOwned ==
  ASSUME Good(World, host), Owned(World, owner), NEW why \in GameReasons, NEW o \in OwnerType,
         chan' = [chan EXCEPT ![owner.view] = Invalidate(@, why)], rt' = rt, host' = host,
         o.view = owner.view, IsFiniteSet(o.own.seen), Cardinality(o.own.seen) <= OwnerCapacity,
         o.own.scope = 0 => o.own.seen = {}
  PROVE  Good(World', host') /\ Owned(World', o)
<1> DEFINE c == chan[owner.view]
           d == Invalidate(c, why)
<1>0. owner.view \in Lifetimes /\ c = OwnMapping /\ ChannelOK(c)
  BY DEF Owned, OwnerType, OwnMapping, Good, Base, Typed, World
<1>1. Touches(c, d) /\ d.abort # "None"
  BY <1>0, InvalidTouches
<1>2. chan' = [chan EXCEPT ![owner.view] = d]
  OBVIOUS
<1> HIDE DEF c, d
<1>3. /\ Good(World', host') /\ World'.rt = World.rt
      /\ World'.chan[owner.view] = d /\ \A l \in Lifetimes \ {owner.view} : World'.chan[l] = World.chan[l]
  BY <1>0, <1>1, <1>2, TouchGood DEF Touches, Keeps
<1>4. \A k \in 2..d.ack.ordinal : FALSE
  <2>1. ChannelOK(d) /\ d.ack.ordinal <= Len(d.log) /\ Len(d.log) <= 1
    BY <1>1 DEF Touches, ChannelOK
  <2>2. d.ack.ordinal \in Nat /\ Len(d.log) \in Nat
    BY <2>1 DEF ChannelOK, ChannelType, AckType
  <2> QED BY <2>1, <2>2
<1>5. Typed(World')
  BY <1>3 DEF Good, Base
<1> QED BY <1>1, <1>3, <1>4, <1>5, TouchOwned

\* Where the mappings rest the owner may forget a release, or see one fact more.
LEMMA RestedOwned ==
  ASSUME Owned(World, owner), NEW o \in OwnerType, rt' = rt, chan' = chan,
         o.view = owner.view, IsFiniteSet(o.own.seen), Cardinality(o.own.seen) <= OwnerCapacity,
         o.own.scope = 0 => o.own.seen = {}, owner.own.seen \subseteq o.own.seen, o.release = owner.release,
         Typed(World)
  PROVE  Owned(World', o)
<1>1. World' = World
  BY DEF World
<1>2. \A k \in 2..World.chan[o.view].ack.ordinal : World.chan[o.view].log[k].source \in o.own.seen
  BY DEF Owned
<1> QED BY <1>1, <1>2 DEF Owned

\* The parts of the invariant that the game's steps change.
LEMMA GameSafe ==
  ASSUME Good(World', host'), Owned(World', owner'), inbox' \in Seq(FactRecords),
         input' \in InputType, pause' \in PauseType
  PROVE  IInv'
BY DEF IInv

LEMMA OwnerFacts ==
  ASSUME IInv
  PROVE  /\ Good(World, host) /\ Owned(World, owner) /\ Typed(World) /\ World.rt = rt /\ World.chan = chan
         /\ rt \in RuntimeType /\ chan \in [Lifetimes -> ChannelType]
         /\ owner \in OwnerType /\ owner.view \in Lifetimes /\ owner.own \in OwnType
         /\ owner.own.scope \in Nat /\ owner.own.seen \in SUBSET Nat
         /\ owner.epoch \in Nat /\ owner.release \in Nat /\ owner.held \in Nat
         /\ ChannelOK(OwnMapping) /\ OwnMapping \in ChannelType
         /\ IsFiniteSet(owner.own.seen) /\ Cardinality(owner.own.seen) <= OwnerCapacity
         /\ owner.own.scope = 0 => owner.own.seen = {}
<1>1. Good(World, host) /\ Owned(World, owner) /\ Typed(World) /\ World.rt = rt /\ World.chan = chan
  BY DEF IInv, Good, Base, World
<1>2. rt \in RuntimeType /\ chan \in [Lifetimes -> ChannelType]
  BY <1>1 DEF Typed, WorldType, World
<1>3. owner \in OwnerType /\ owner.own \in OwnType
  BY <1>1 DEF Owned, OwnerType
<1>4. /\ owner.view \in Lifetimes /\ owner.own.scope \in Nat /\ owner.own.seen \in SUBSET Nat
      /\ owner.epoch \in Nat /\ owner.release \in Nat /\ owner.held \in Nat
  BY <1>3 DEF OwnerType, OwnType
<1>5. ChannelOK(OwnMapping) /\ OwnMapping \in ChannelType
  BY <1>1, <1>4 DEF Typed, OwnMapping, ChannelOK
<1> QED BY <1>1, <1>2, <1>3, <1>4, <1>5 DEF Owned

LEMMA NoOwnerIs ==
  /\ NoOwner \in OwnType /\ NoOwner.seen = {} /\ NoOwner.scope = 0
  /\ IsFiniteSet({}) /\ Cardinality({}) = 0 /\ 0 <= OwnerCapacity
BY Constants, FS_EmptySet DEF NoOwner, OwnType

LEMMA SessionForgotten ==
  ASSUME IInv, ForgetSession, rt' = rt, host' = host
  PROVE  Good(World', host') /\ Owned(World', owner')
<1> DEFINE o == [owner EXCEPT !.own = NoOwner, !.epoch = 0]
<1>1. owner' = o
  BY DEF ForgetSession
<1>2. o \in OwnerType /\ o.view = owner.view /\ o.own = NoOwner /\ o.release = owner.release
  BY OwnerFacts, NoOwnerIs DEF OwnerType
<1> HIDE DEF o
<1>3. CASE owner.own.scope # 0
  <2>1. chan' = [chan EXCEPT ![owner.view] = Invalidate(@, "BindingReset")]
    BY <1>3 DEF ForgetSession
  <2>2. "BindingReset" \in GameReasons
    BY DEF GameReasons, Reasons, Aborts
  <2> QED BY <1>1, <1>2, <2>1, <2>2, OwnerFacts, NoOwnerIs, EndedOwned
<1>4. CASE owner.own.scope = 0
  <2>1. chan' = chan /\ owner.own.seen = {}
    BY <1>4, OwnerFacts DEF ForgetSession
  <2>2. World' = World
    BY <2>1 DEF World
  <2> QED BY <1>1, <1>2, <2>1, <2>2, OwnerFacts, NoOwnerIs, RestedOwned
<1> QED BY <1>3, <1>4

\* The lifetime that the owner opens is one that nobody has bound.
LEMMA RecoveryBegun ==
  ASSUME IInv, NEW safe, BeginRecovered(safe), rt' = rt, host' = host, Head(inbox) \in FactRecords
  PROVE  /\ Good(World', host') /\ Owned(World', owner')
         /\ input' \in {input, NoHold} /\ pause' \in {pause, NoOrphan}
<1> DEFINE room == [owner EXCEPT !.epoch = Head(inbox).epoch]
           own == [NoOwner EXCEPT !.scope = rt.cur]
           o == [room EXCEPT !.view = rt.cur, !.own = own, !.release = 0, !.held = 0]
<1>0. World' = World /\ Good(World', host') /\ rt.cur # 0
  BY OwnerFacts DEF BeginRecovered, World
<1>1. Head(inbox).epoch \in Nat
  BY Constants DEF FactRecords
<1>2. /\ room \in OwnerType /\ room.view = owner.view /\ room.own = owner.own
      /\ room.release = owner.release
  BY <1>1, OwnerFacts DEF OwnerType
<1>3. CASE owner' = room /\ UNCHANGED <<input, pause>>
  <2> HIDE DEF room
  <2>1. Owned(World', owner')
    BY <1>2, <1>3, OwnerFacts, RestedOwned DEF BeginRecovered
  <2> QED BY <1>0, <1>3, <2>1
<1>4. CASE /\ IsBound(OwnMapping) /\ OwnMapping.scope # rt.cur
           /\ owner' = o /\ input' = NoHold /\ pause' = NoOrphan
  <2>1. rt.cur \in Lifetimes /\ rt.cur = rt.last /\ rt.cur \in Nat
    BY <1>0, OwnerFacts DEF Typed, RuntimeType
  <2>2. own \in OwnType /\ own.seen = {} /\ own.scope = rt.cur
    BY <2>1, NoOwnerIs DEF OwnType
  <2> HIDE DEF room, own
  <2>3. o \in OwnerType /\ o.view = rt.cur /\ o.own = own /\ o.release = 0
    BY <1>2, <2>1, <2>2 DEF OwnerType
  <2> HIDE DEF o
  <2>4. \A l \in Lifetimes : /\ chan[l].scope <= rt.last /\ (l # 1 => chan[l].scope \in {0, l})
                             /\ chan[l].scope \in Nat /\ l \in Nat /\ l >= 1
    <3>1. \A l \in Lifetimes : chan[l].scope <= rt.last /\ (l # 1 => chan[l].scope \in {0, l})
      BY OwnerFacts DEF Good, Base, Bindings
    <3>2. \A l \in Lifetimes : chan[l].scope \in Nat
      BY OwnerFacts DEF ChannelType
    <3> QED BY <3>1, <3>2 DEF Lifetimes
  <2>5. \A l \in Lifetimes : l > rt.cur => chan[l].scope = 0
    BY <2>1, <2>4
  <2>6. chan[rt.cur].scope = 0
    <3>1. owner.view # rt.cur
      BY <1>0, <1>4, <2>1, <2>4 DEF OwnMapping, IsBound
    <3>2. owner.view <= rt.last
      BY OwnerFacts DEF Owned
    <3>3. owner.view < rt.cur
      BY <2>1, <2>4, <3>1, <3>2, OwnerFacts
    <3> QED BY <2>1, <3>3, OwnerFacts DEF Owned
  <2>7. ChannelOK(chan[rt.cur]) /\ chan[rt.cur].log = <<>>
    BY <2>1, <2>6, OwnerFacts DEF Typed, ChannelOK
  <2>8. \A k \in 2..chan[rt.cur].ack.ordinal : FALSE
    <3>1. chan[rt.cur].ack.ordinal \in Nat /\ chan[rt.cur].ack.ordinal <= Len(<<>>) /\ Len(<<>>) = 0
      BY <2>7 DEF ChannelOK, ChannelType, AckType
    <3> QED BY <3>1
  <2>9. chan[rt.cur].consumed \in Nat
    BY <2>7 DEF ChannelOK, ChannelType
  <2>10. Owned(World, o)
    <3>1. IsFiniteSet(o.own.seen) /\ Cardinality(o.own.seen) <= OwnerCapacity
      BY <2>2, <2>3, NoOwnerIs
    <3>2. o.view <= World.rt.last /\ (o.own.scope = 0 => o.own.seen = {})
      BY <2>1, <2>2, <2>3, OwnerFacts
    <3>3. \A k \in 2..World.chan[o.view].ack.ordinal : World.chan[o.view].log[k].source \in o.own.seen
      BY <2>3, <2>8, OwnerFacts
    <3>4. World.chan[o.view].abort = "None" => o.release <= World.chan[o.view].consumed
      BY <2>3, <2>9, OwnerFacts
    <3>5. \A l \in Lifetimes : l > o.view => World.chan[l].scope = 0
      BY <2>3, <2>5, OwnerFacts
    <3> QED BY <2>3, <3>1, <3>2, <3>3, <3>4, <3>5 DEF Owned
  <2> QED BY <1>0, <1>4, <2>10
<1>5. \/ owner' = room /\ UNCHANGED <<input, pause>>
      \/ /\ IsBound(OwnMapping) /\ OwnMapping.scope # rt.cur
         /\ owner' = o /\ input' = NoHold /\ pause' = NoOrphan
  BY DEF BeginRecovered
<1> QED BY <1>3, <1>4, <1>5

LEMMA FactSeen ==
  ASSUME IInv, NEW fact \in FactRecords, NEW epoch \in Nat, Seen(fact, epoch), rt.cur # 0,
         rt' = rt, host' = host
  PROVE  Good(World', host') /\ Owned(World', owner')
<1> DEFINE o == [owner EXCEPT !.epoch = epoch]
           seen == owner.own.seen \cup {fact.source}
           own == [owner.own EXCEPT !.scope = rt.cur, !.seen = seen]
           o2 == [owner EXCEPT !.epoch = epoch, !.own = own]
<1>1. o \in OwnerType /\ o.view = owner.view /\ o.own = owner.own /\ o.release = owner.release
  BY OwnerFacts DEF OwnerType
<1>2. CASE owner' = o /\ chan' = chan
  <2> HIDE DEF o
  <2>1. World' = World
    BY <1>2 DEF World
  <2> QED BY <1>1, <1>2, <2>1, OwnerFacts, RestedOwned
<1>3. CASE owner' = o /\ chan' = [chan EXCEPT ![owner.view] = Invalidate(@, "Overflow")]
  <2> HIDE DEF o
  <2>1. "Overflow" \in GameReasons
    BY DEF GameReasons, Reasons, Aborts
  <2> QED BY <1>1, <1>3, <2>1, OwnerFacts, EndedOwned
<1>4. CASE /\ fact.source \notin owner.own.seen /\ Cardinality(owner.own.seen) # OwnerCapacity
           /\ owner' = o2 /\ chan' = chan
  <2>1. IsFiniteSet(seen) /\ Cardinality(seen) = Cardinality(owner.own.seen) + 1
    <3>1. IsFiniteSet(owner.own.seen)
      BY OwnerFacts
    <3> QED BY <1>4, <3>1, FS_AddElement
  <2>2. Cardinality(owner.own.seen) \in Nat
    BY OwnerFacts, FS_CardinalityType
  <2>3. Cardinality(seen) <= OwnerCapacity
    BY <1>4, <2>1, <2>2, OwnerFacts, Constants
  <2>4. fact.source \in Nat /\ rt.cur \in Nat
    BY OwnerFacts, Constants DEF FactRecords, Replayed, RuntimeType
  <2>5. seen \in SUBSET Nat /\ owner.own.seen \subseteq seen
    BY <2>4, OwnerFacts
  <2> HIDE DEF seen
  <2>6. own \in OwnType /\ own.scope = rt.cur /\ own.seen = seen
    BY <2>4, <2>5, OwnerFacts DEF OwnType
  <2> HIDE DEF own
  <2>7. o2 \in OwnerType /\ o2.view = owner.view /\ o2.own = own /\ o2.release = owner.release
    BY <2>6, OwnerFacts DEF OwnerType
  <2> HIDE DEF o2
  <2>8. World' = World
    BY <1>4 DEF World
  <2> QED BY <1>4, <2>1, <2>3, <2>5, <2>6, <2>7, <2>8, OwnerFacts, RestedOwned
<1>5. [owner EXCEPT !.epoch = epoch, !.own.scope = rt.cur, !.own.seen = @ \cup {fact.source}] = o2
  BY OwnerFacts DEF OwnerType, OwnType
<1> QED BY <1>2, <1>3, <1>4, <1>5 DEF Seen

LEMMA ConsumeSafe ==
  ASSUME IInv, NEW accepted, NEW safe, Consume(accepted, safe)
  PROVE  IInv'
<1>1. /\ inbox # <<>> /\ inbox' = Tail(inbox) /\ rt' = rt /\ host' = host
      /\ inbox \in Seq(FactRecords) /\ input \in InputType /\ pause \in PauseType
  BY DEF Consume, IInv
<1>2. inbox' \in Seq(FactRecords) /\ Head(inbox) \in FactRecords
  BY <1>1
<1>3. Head(inbox).epoch \in Nat
  BY <1>2, Constants DEF FactRecords
<1>4. ASSUME Dropped, input' = input, pause' = pause PROVE IInv'
  <2>1. World' = World /\ owner' = owner
    BY <1>1, <1>4 DEF Dropped, World
  <2> QED BY <1>1, <1>2, <1>4, <2>1 DEF IInv
<1>5. CASE ForgetSession
  <2>1. input' = input /\ pause' = pause
    BY <1>5 DEF ForgetSession
  <2> QED BY <1>1, <1>2, <1>5, <2>1, SessionForgotten, GameSafe
<1>6. CASE BeginRecovered(safe)
  <2>1. /\ Good(World', host') /\ Owned(World', owner')
        /\ input' \in {input, NoHold} /\ pause' \in {pause, NoOrphan}
    BY <1>1, <1>2, <1>6, RecoveryBegun
  <2> QED BY <1>1, <1>2, <2>1, InputConstants, GameSafe
<1>7. CASE rt.cur # 0 /\ ObserveFact(accepted)
  <2>1. input' = input /\ pause' = pause
    BY <1>7 DEF ObserveFact
  <2>2. CASE Dropped
    BY <1>4, <2>1, <2>2
  <2>3. ASSUME NEW epoch \in {Head(inbox).epoch, owner.epoch}, Seen(Head(inbox), epoch) PROVE IInv'
    <3>1. epoch \in Nat
      BY <1>3, <2>3, OwnerFacts
    <3> QED BY <1>1, <1>2, <1>7, <2>1, <2>3, <3>1, FactSeen, GameSafe
  <2> QED BY <1>7, <2>2, <2>3 DEF ObserveFact
<1>8. CASE Dropped /\ UNCHANGED <<input, pause>>
  BY <1>4, <1>8
<1> QED BY <1>5, <1>6, <1>7, <1>8 DEF Consume

\* A set of numbers up to a bound has a greatest one.
LEMMA Greatest ==
  ASSUME NEW n \in Nat, NEW S, S \subseteq 0..n, S # {}
  PROVE  \E x \in S : \A y \in S : y <= x
<1> DEFINE T == {n - x : x \in S}
           R == {p \in Nat \X Nat : p[1] < p[2]}
<1>1. T \subseteq Nat /\ T # {}
  <2>1. \A x \in S : n - x \in Nat
    OBVIOUS
  <2>2. PICK x \in S : TRUE
    OBVIOUS
  <2>3. n - x \in T
    BY <2>2
  <2> QED BY <2>1, <2>3
<1>2. IsWellFoundedOn(R, Nat)
  BY NatLessThanWellFounded DEF OpToRel
<1> HIDE DEF T, R
<1>3. \E t \in T : \A u \in T : ~(<<u, t>> \in R)
  BY <1>1, <1>2, WFMin
<1>4. PICK t \in T : \A u \in T : ~(<<u, t>> \in R)
  BY <1>3
<1>5. ASSUME NEW u \in T PROVE t <= u
  <2>1. t \in Nat /\ u \in Nat
    BY <1>1, <1>4, <1>5
  <2>2. <<u, t>> \in Nat \X Nat /\ <<u, t>>[1] = u /\ <<u, t>>[2] = t
    BY <2>1
  <2>3. ~(u < t)
    BY <1>4, <2>2 DEF R
  <2> QED BY <2>1, <2>3
<1>6. PICK x \in S : t = n - x
  BY DEF T
<1>7. ASSUME NEW y \in S PROVE y <= x
  <2>1. n - y \in T
    BY DEF T
  <2> QED BY <1>5, <1>6, <2>1
<1> QED BY <1>7

\* The owner acknowledges no record past the first whose fact it has not taken.
LEMMA CursorIs ==
  ASSUME NEW c, ChannelOK(c), c.log # <<>>
  PROVE  Cursor(c) \in 1..Len(c.log) /\ \A k \in 2..Cursor(c) : c.log[k].source \in owner.own.seen
<1> DEFINE through == {n \in DOMAIN c.log : \A k \in 2..n : c.log[k].source \in owner.own.seen}
<1>1. c.log \in Seq(FactRecords) /\ Len(c.log) \in Nat /\ DOMAIN c.log = 1..Len(c.log)
  BY DEF ChannelOK, ChannelType
<1>2. 1 \in through
  <2>1. 1 \in DOMAIN c.log
    BY <1>1
  <2>2. \A k \in 2..1 : FALSE
    OBVIOUS
  <2> QED BY <2>1, <2>2
<1>3. through \subseteq 0..Len(c.log)
  BY <1>1
<1>4. Cursor(c) = CHOOSE n \in through : \A k \in through : k <= n
  BY DEF Cursor
<1>5. \A n \in through : n \in 1..Len(c.log) /\ \A k \in 2..n : c.log[k].source \in owner.own.seen
  BY <1>1
<1> HIDE DEF through
<1>6. \E n \in through : \A k \in through : k <= n
  BY <1>1, <1>2, <1>3, Greatest
<1>7. Cursor(c) \in through
  BY <1>4, <1>6
<1> QED BY <1>5, <1>7

LEMMA OwnerFrameSafe ==
  ASSUME IInv, NEW ready \in BOOLEAN, OwnerFrame(ready)
  PROVE  IInv'
<1> DEFINE c == OwnMapping
           n == Cursor(c)
           epoch == IF c.log[n].kind = "Reset" THEN owner.epoch ELSE c.log[n].epoch
           ack == [ordinal |-> n, epoch |-> epoch, ready |-> ready]
           d == PublishAck(c, ack)
<1>1. /\ c.log # <<>> /\ rt' = rt /\ host' = host /\ inbox' = inbox /\ owner' = owner
      /\ input' = input /\ pause' = pause
  BY DEF OwnerFrame
<1>2. chan' = [chan EXCEPT ![owner.view] = d]
  BY OwnerFacts DEF OwnerFrame, OwnMapping
<1>3. ChannelOK(c) /\ c \in ChannelType /\ owner.view \in Lifetimes /\ c = World.chan[owner.view]
  BY OwnerFacts DEF OwnMapping
<1>4. n \in 1..Len(c.log) /\ \A k \in 2..n : c.log[k].source \in owner.own.seen
  <2> HIDE DEF c
  <2> QED BY <1>1, <1>3, CursorIs
<1>5. epoch \in Nat /\ n \in Nat /\ n <= Len(c.log)
  <2>1. c.log \in Seq(FactRecords) /\ Len(c.log) \in Nat
    BY <1>3 DEF ChannelType
  <2> HIDE DEF c, n
  <2>2. c.log[n] \in FactRecords
    BY <1>4, <2>1
  <2>3. c.log[n].epoch \in Nat
    BY <2>2, Constants DEF FactRecords
  <2> QED BY <1>4, <2>1, <2>3, OwnerFacts
<1> HIDE DEF c, n, epoch
<1>6. ack \in AckType /\ ack.ordinal = n
  BY <1>5 DEF AckType
<1> HIDE DEF ack
<1>7. /\ ChannelOK(d) /\ d.scope = c.scope /\ Keeps(c, d) /\ d.consumed = c.consumed
      /\ d.ack = ack \/ d.ack = c.ack
  BY <1>3, <1>5, <1>6, AckedChannel
<1> HIDE DEF d
<1>8. /\ Good(World', host') /\ World'.rt = World.rt
      /\ World'.chan[owner.view] = d /\ \A l \in Lifetimes \ {owner.view} : World'.chan[l] = World.chan[l]
  BY <1>1, <1>2, <1>3, <1>7, OwnerFacts, TouchGood DEF c
<1>9. \A k \in 2..d.ack.ordinal : d.log[k].source \in owner.own.seen
  <2>1. \A k \in 2..c.ack.ordinal : c.log[k].source \in owner.own.seen
    BY <1>3, OwnerFacts DEF Owned
  <2> QED BY <1>4, <1>6, <1>7, <2>1 DEF Keeps
<1>10. d.abort = "None" => owner.release <= d.consumed
  BY <1>3, <1>7, OwnerFacts DEF Owned, Keeps
<1>11. Typed(World')
  BY <1>8 DEF Good, Base
<1>12. Owned(World', owner)
  BY <1>8, <1>9, <1>10, <1>11, OwnerFacts, TouchOwned
<1> QED BY <1>1, <1>8, <1>12, GameSafe DEF IInv

\* The game ends its mapping, and neither looks at the stream nor at its facts.
LEMMA EndSafe ==
  ASSUME IInv, NEW why \in GameReasons, chan' = [chan EXCEPT ![owner.view] = Invalidate(@, why)],
         rt' = rt, host' = host, owner' = owner, inbox' = inbox, input' \in InputType, pause' = pause
  PROVE  IInv'
<1>1. Good(World', host') /\ Owned(World', owner)
  BY OwnerFacts, EndedOwned
<1> QED BY <1>1, GameSafe DEF IInv

LEMMA RejectedCallbackSafe ==
  ASSUME IInv, NEW within \in BOOLEAN, RejectedCallback(within)
  PROVE  IInv'
<1>1. input' \in InputType
  BY FailedType DEF RejectedCallback, IInv
<1>2. "Unsupported" \in GameReasons
  BY DEF GameReasons, Reasons, Aborts
<1> QED BY <1>1, <1>2, EndSafe DEF RejectedCallback

LEMMA DisableSafe ==
  ASSUME IInv, Disable
  PROVE  IInv'
<1>1. "Shutdown" \in GameReasons
  BY DEF GameReasons, Reasons, Aborts
<1>2. input' \in InputType
  BY DEF Disable, IInv
<1> QED BY <1>1, <1>2, EndSafe DEF Disable

LEMMA TickSafe ==
  ASSUME IInv, Tick
  PROVE  IInv'
<1> DEFINE left == IF rt.left > 0 THEN rt.left - 1 ELSE 0
           r == [rt EXCEPT !.left = left]
           f == [l \in Lifetimes |-> Silent(chan[l])]
           w2 == [rt |-> r, chan |-> f]
           due == pause.armed /\ pause.presses > 0
<1>1. /\ rt' = r /\ chan' = f /\ host' = host /\ inbox' = inbox /\ owner' = owner
      /\ input' = Aged(input) /\ pause' = [pause EXCEPT !.due = due]
  BY DEF Tick
<1>2. left \in Nat
  BY OwnerFacts DEF RuntimeType
<1> HIDE DEF left
<1>3. r \in RuntimeType /\ Same(rt, r)
  BY <1>2, OwnerFacts DEF RuntimeType, Same
<1>4. \A l \in Lifetimes : /\ ChannelOK(f[l]) /\ f[l].scope = chan[l].scope /\ Keeps(chan[l], f[l])
                           /\ f[l].ack = chan[l].ack /\ f[l].consumed = chan[l].consumed
  BY OwnerFacts, SilentChannel DEF Typed
<1> HIDE DEF r
<1>5. f \in [Lifetimes -> ChannelType]
  <2>1. \A l \in Lifetimes : Silent(chan[l]) \in ChannelType
    BY <1>4 DEF ChannelOK
  <2> QED BY <2>1
<1> HIDE DEF f
<1>6. w2 \in WorldType /\ w2.rt = r /\ w2.chan = f
  BY <1>3, <1>5 DEF WorldType
<1>7. World' = w2
  BY <1>1 DEF World
<1> HIDE DEF w2
<1>8. Good(w2, host)
  <2>1. Played(World, w2)
    BY <1>4, <1>6, OwnerFacts DEF Played
  <2>2. Same(World.rt, w2.rt)
    BY <1>3, <1>6, OwnerFacts
  <2> QED BY <1>6, <2>1, <2>2, OwnerFacts, TouchedGood
<1>9. Moves(World, w2)
  <2>1. ASSUME NEW l \in Lifetimes PROVE Grows(World.chan[l], w2.chan[l])
    <3>1. World.chan[l] = chan[l] /\ w2.chan[l] = f[l] /\ Len(chan[l].log) \in Nat
      BY <1>6, OwnerFacts DEF ChannelType
    <3>2. f[l].log = chan[l].log /\ f[l].abort = chan[l].abort
      BY <1>4 DEF Keeps
    <3> QED BY <1>4, <3>1, <3>2 DEF Grows
  <2>2. w2.rt.last >= World.rt.last
    BY <1>3, <1>6, OwnerFacts DEF Same, RuntimeType, Lifetimes
  <2> QED BY <1>4, <1>6, <2>1, <2>2, OwnerFacts DEF Moves
<1>10. Owned(w2, owner)
  <2>1. Typed(w2)
    BY <1>8 DEF Good, Base
  <2> QED BY <1>9, <2>1, OwnerFacts, OwnedKept
<1>11. input' \in InputType
  BY <1>1, AgedType DEF IInv
<1>12. pause' \in PauseType
  <2>1. pause \in PauseType /\ due \in BOOLEAN
    BY DEF IInv, PauseType
  <2> HIDE DEF due
  <2> QED BY <1>1, <2>1 DEF PauseType
<1> QED BY <1>1, <1>7, <1>8, <1>10, <1>11, <1>12, GameSafe DEF IInv

-----------------------------------------------------------------------------
(* The callback, in the steps that Callback takes *)

CallInput(readable) == IF readable THEN input ELSE Fail(input)

CallMapping(readable) == Tested(IF readable THEN OwnMapping ELSE Invalidate(OwnMapping, "Unsupported"))

CallReads(readable) ==
  ~(OwnedPauseOpen(CallInput(readable)) /\ CallInput(readable).phase # "Paused") /\ CanRead(CallMapping(readable))

CallRead(readable) ==
  IF CallReads(readable) THEN [CallMapping(readable) EXCEPT !.consumed = @ + 1] ELSE CallMapping(readable)

CallGot(readable, safe) ==
  LET c == CallRead(readable) IN
  IF CallReads(readable) THEN Received(CallInput(readable), c, c.log[c.consumed], c.consumed, safe)
  ELSE [hold |-> CallInput(readable), release |-> owner.release, held |-> owner.held]

CallSample(readable, safe) ==
  [healthy |-> Healthy(CallRead(readable)), menu |-> menu,
   ownerReleased |-> OwnerReleased(CallRead(readable), CallGot(readable, safe).release)]

LEMMA CallbackIs ==
  ASSUME NEW readable \in BOOLEAN, NEW writable \in BOOLEAN, NEW safe \in BOOLEAN,
         Callback(readable, writable, safe)
  PROVE  LET c == CallRead(readable)
             got == CallGot(readable, safe)
             stepped == Step(got.hold, CallSample(readable, safe)) IN
         /\ \/ input' = stepped /\ chan' = [chan EXCEPT ![owner.view] = c]
            \/ input' = Fail(stepped) /\ chan' = [chan EXCEPT ![owner.view] = Invalidate(c, "Unsupported")]
         /\ owner' = Remembered(input', got)
         /\ pause' \in {OrphanOver, Serviced(IF readable THEN menu ELSE "page")}
         /\ rt' = rt /\ host' = host /\ inbox' = inbox
BY DEF Callback, CallInput, CallMapping, CallReads, CallRead, CallGot, CallSample

LEMMA CallInputIs ==
  ASSUME IInv, NEW readable \in BOOLEAN
  PROVE  CallInput(readable) \in InputType
BY FailedType DEF CallInput, IInv

\* What a callback reads is of a mapping that nothing has ended.
LEMMA CallReadIs ==
  ASSUME IInv, NEW readable \in BOOLEAN
  PROVE  LET d == CallRead(readable) IN
         /\ ChannelOK(d) /\ d.scope = OwnMapping.scope
         /\ \/ Keeps(OwnMapping, d) /\ d.ack = OwnMapping.ack /\ d.consumed >= OwnMapping.consumed
            \/ d.log = <<>> /\ d.abort \notin {"None", "InvalidOrder"} /\ d.ack = NoAck
         /\ d.abort = "None" => OwnMapping.abort = "None"
         /\ CallReads(readable) =>
              /\ readable /\ d.consumed = OwnMapping.consumed + 1 /\ d.abort = "None"
              /\ d.consumed \in 1..Len(d.log) /\ d.log[d.consumed] \in FactRecords
<1> DEFINE a == IF readable THEN OwnMapping ELSE Invalidate(OwnMapping, "Unsupported")
           b == CallMapping(readable)
           d == CallRead(readable)
<1>0. ChannelOK(OwnMapping) /\ OwnMapping.consumed \in Nat
  BY OwnerFacts DEF ChannelType
<1>1. Touches(OwnMapping, a) /\ ChannelOK(a) /\ (~readable => a.abort # "None")
  <2>1. "Unsupported" \in GameReasons
    BY DEF GameReasons, Reasons, Aborts
  <2>2. Touches(OwnMapping, OwnMapping)
    BY <1>0 DEF Touches
  <2>3. Touches(OwnMapping, a) /\ (~readable => a.abort # "None")
    BY <1>0, <2>1, <2>2, InvalidTouches
  <2> QED BY <2>3 DEF Touches
<1>2. b = Tested(a)
  BY DEF CallMapping
<1> HIDE DEF a
<1>3. Touches(a, b)
  BY <1>1, <1>2, TestedTouches
<1> HIDE DEF b
<1>4. Touches(OwnMapping, b) /\ (b.abort = "None" => b = OwnMapping /\ readable)
  BY <1>1, <1>3 DEF Touches
<1>5. CASE ~CallReads(readable)
  <2>1. d = b
    BY <1>5 DEF CallRead, b
  <2> HIDE DEF d
  <2> QED BY <1>0, <1>4, <1>5, <2>1 DEF Touches, Keeps, d
<1>6. CASE CallReads(readable)
  <2>1. b.abort = "None" /\ b.consumed < Len(b.log)
    BY <1>6 DEF CallReads, CanRead, Healthy, b
  <2>2. b = OwnMapping /\ readable
    BY <1>4, <2>1
  <2>3. d = [OwnMapping EXCEPT !.consumed = OwnMapping.consumed + 1]
    BY <1>6, <2>2 DEF CallRead, b
  <2> HIDE DEF d
  <2>4. OwnMapping \in ChannelType /\ OwnMapping.log \in Seq(FactRecords) /\ OwnMapping.consumed + 1 \in Nat
        /\ Len(OwnMapping.log) \in Nat
    BY <1>0, OwnerFacts DEF ChannelType
  <2>5. /\ d.scope = OwnMapping.scope /\ d.log = OwnMapping.log /\ d.abort = OwnMapping.abort
        /\ d.ack = OwnMapping.ack /\ d.consumed = OwnMapping.consumed + 1 /\ d \in ChannelType
    BY <2>3, <2>4 DEF ChannelType
  <2>6. ChannelOK(d)
    <3>1. /\ OwnMapping.consumed <= Len(OwnMapping.log)
          /\ Len(OwnMapping.log) - OwnMapping.consumed <= Capacity
      BY <1>0 DEF ChannelOK
    <3>2. d.consumed <= Len(d.log) /\ Len(d.log) - d.consumed <= Capacity
      BY <1>0, <2>1, <2>2, <2>4, <2>5, <3>1, Constants
    <3> QED BY <1>0, <2>5, <3>2 DEF ChannelOK
  <2>7. d.consumed \in 1..Len(d.log)
    BY <1>0, <2>1, <2>2, <2>4, <2>5
  <2>8. d.log[d.consumed] \in FactRecords
    BY <2>4, <2>5, <2>7
  <2>9. Keeps(OwnMapping, d) /\ d.consumed >= OwnMapping.consumed
    BY <1>0, <2>5 DEF Keeps
  <2>10. OwnMapping.abort = "None"
    BY <2>1, <2>2
  <2> QED BY <2>2, <2>5, <2>6, <2>7, <2>8, <2>9, <2>10 DEF d
<1> QED BY <1>5, <1>6

\* A hold awaits no release that the callback has not read.
LEMMA CallGotIs ==
  ASSUME IInv, NEW readable \in BOOLEAN, NEW safe \in BOOLEAN
  PROVE  LET c == CallRead(readable)
             got == CallGot(readable, safe) IN
         /\ got.hold \in InputType /\ got.release \in Nat /\ got.held \in Nat
         /\ c.abort = "None" => got.release <= c.consumed
         /\ \/ ~CallReads(readable) /\ got.hold = CallInput(readable) /\ got.release = owner.release
            \/ /\ CallReads(readable)
               /\ CallInput(readable).phase = "ReleaseBoundary" /\ c.log[c.consumed].kind # "Acquire" =>
                    got.hold.phase = "ReleaseBoundary" /\ got.release \in {c.consumed, owner.release}
<1> DEFINE c == CallRead(readable)
           i == CallInput(readable)
           got == CallGot(readable, safe)
<1>0. owner.release \in Nat /\ owner.held \in Nat /\ i \in InputType
  BY OwnerFacts, CallInputIs
<1>1. c.abort = "None" => owner.release <= c.consumed
  <2>1. c.abort = "None" => OwnMapping.abort = "None" /\ c.consumed >= OwnMapping.consumed
    BY CallReadIs
  <2>2. OwnMapping.abort = "None" => owner.release <= OwnMapping.consumed
    BY OwnerFacts DEF Owned, OwnMapping
  <2>3. OwnMapping.consumed \in Nat /\ c.consumed \in Nat
    BY OwnerFacts, CallReadIs DEF ChannelOK, ChannelType
  <2> QED BY <1>0, <2>1, <2>2, <2>3
<1>2. CASE ~CallReads(readable)
  <2>1. got = [hold |-> i, release |-> owner.release, held |-> owner.held]
    BY <1>2 DEF CallGot
  <2>2. got.hold = i /\ got.release = owner.release /\ got.held = owner.held
    BY <2>1
  <2> HIDE DEF got, c, i
  <2> QED BY <1>0, <1>1, <1>2, <2>2 DEF got, c, i
<1>3. CASE CallReads(readable)
  <2>1. got = Received(i, c, c.log[c.consumed], c.consumed, safe)
    BY <1>3 DEF CallGot
  <2>2. c.consumed \in Nat
    BY CallReadIs DEF ChannelOK, ChannelType
  <2> HIDE DEF c, i, got
  <2>3. /\ got.hold \in InputType /\ got.release \in {0, c.consumed, owner.release} /\ got.held \in Nat
        /\ i.phase = "ReleaseBoundary" /\ c.log[c.consumed].kind # "Acquire" =>
             got.hold.phase = "ReleaseBoundary" /\ got.release \in {c.consumed, owner.release}
    BY <1>0, <2>1, <2>2, ReceivedIs
  <2> QED BY <1>0, <1>1, <1>3, <2>2, <2>3 DEF c, i, got
<1> QED BY <1>2, <1>3

LEMMA CallbackSafe ==
  ASSUME IInv, NEW readable \in BOOLEAN, NEW writable \in BOOLEAN, NEW safe \in BOOLEAN,
         Callback(readable, writable, safe)
  PROVE  IInv'
<1> DEFINE c == CallRead(readable)
           got == CallGot(readable, safe)
           stepped == Step(got.hold, CallSample(readable, safe))
<1>1. /\ \/ input' = stepped /\ chan' = [chan EXCEPT ![owner.view] = c]
         \/ input' = Fail(stepped) /\ chan' = [chan EXCEPT ![owner.view] = Invalidate(c, "Unsupported")]
      /\ owner' = Remembered(input', got)
      /\ pause' \in {OrphanOver, Serviced(IF readable THEN menu ELSE "page")}
      /\ rt' = rt /\ host' = host /\ inbox' = inbox
  BY CallbackIs
<1>2. /\ ChannelOK(c) /\ c.scope = OwnMapping.scope
      /\ \/ Keeps(OwnMapping, c) /\ c.ack = OwnMapping.ack
         \/ c.log = <<>> /\ c.abort \notin {"None", "InvalidOrder"} /\ c.ack = NoAck
  BY CallReadIs
<1>3. /\ got.hold \in InputType /\ got.release \in Nat /\ got.held \in Nat
      /\ c.abort = "None" => got.release <= c.consumed
  BY CallGotIs
<1>4. input' \in InputType
  BY <1>1, <1>3, SteppedType, FailedType
<1>5. pause' \in PauseType
  <2>1. pause \in PauseType
    BY DEF IInv
  <2> QED BY <1>1, <2>1, InputConstants, ServicedType
<1> HIDE DEF c, got, stepped
<1>6. PICK d : /\ chan' = [chan EXCEPT ![owner.view] = d] /\ ChannelOK(d) /\ d.scope = OwnMapping.scope
               /\ d = c \/ d.abort # "None"
               /\ \/ Keeps(OwnMapping, d) /\ d.ack = OwnMapping.ack
                  \/ d.log = <<>> /\ d.abort \notin {"None", "InvalidOrder"} /\ d.ack = NoAck
  <2>1. "Unsupported" \in GameReasons
    BY DEF GameReasons, Reasons, Aborts
  <2>2. Touches(c, Invalidate(c, "Unsupported")) /\ Invalidate(c, "Unsupported").abort # "None"
    BY <1>2, <2>1, InvalidTouches
  <2>3. CASE chan' = [chan EXCEPT ![owner.view] = c]
    BY <1>2, <2>3
  <2>4. CASE chan' = [chan EXCEPT ![owner.view] = Invalidate(c, "Unsupported")]
    BY <1>2, <2>2, <2>4 DEF Touches
  <2> QED BY <1>1, <2>3, <2>4
<1>7. /\ Good(World', host') /\ World'.rt = World.rt
      /\ World'.chan[owner.view] = d /\ \A l \in Lifetimes \ {owner.view} : World'.chan[l] = World.chan[l]
  BY <1>1, <1>6, OwnerFacts, TouchGood
<1>8. /\ owner' \in OwnerType /\ owner'.view = owner.view /\ owner'.own = owner.own
      /\ owner'.release \in {0, got.release}
  BY <1>1, <1>3, OwnerFacts DEF Remembered, OwnerType
<1>9. d.abort = "None" => owner'.release <= d.consumed
  <2>1. d.consumed \in Nat
    BY <1>6 DEF ChannelOK, ChannelType
  <2> QED BY <1>3, <1>6, <1>8, <2>1
<1>10. \A k \in 2..d.ack.ordinal : d.log[k].source \in owner.own.seen
  <2>1. CASE Keeps(OwnMapping, d) /\ d.ack = OwnMapping.ack
    BY <2>1, OwnerFacts DEF Owned, OwnMapping, Keeps
  <2>2. CASE d.ack = NoAck
    <3>1. d.ack.ordinal = 0
      BY <2>2 DEF NoAck
    <3> QED BY <3>1
  <2> QED BY <1>6, <2>1, <2>2
<1>11. Typed(World')
  BY <1>7 DEF Good, Base
<1>12. Owned(World', owner')
  BY <1>7, <1>8, <1>9, <1>10, <1>11, OwnerFacts, TouchOwned
<1> QED BY <1>1, <1>4, <1>5, <1>7, <1>12, GameSafe DEF IInv

-----------------------------------------------------------------------------
(* The invariant *)

LEMMA InitSafe ==
  ASSUME Init
  PROVE  IInv
<1> DEFINE w == World
<1>1. NoAck \in AckType /\ NoAck.ordinal = 0 /\ <<>> \in Seq(FactRecords) /\ Len(<<>>) = 0
  BY DEF NoAck, AckType
<1>2. /\ Unbound \in ChannelType /\ Unbound.scope = 0 /\ Unbound.abort = "None" /\ Unbound.log = <<>>
      /\ Unbound.consumed = 0 /\ Unbound.ack = NoAck
  BY <1>1 DEF Unbound, ChannelType, Aborts
<1>3. ChannelOK(Unbound)
  BY <1>1, <1>2, Constants DEF ChannelOK
<1>4. /\ NoProducer \in ProducerType /\ NoProducer.epoch = 0 /\ NoProducer.active = FALSE
      /\ NoProducer.sources = 0
  BY DEF NoProducer, ProducerType
<1>5. 1 \in Lifetimes /\ 1 <= MaxFacts /\ 1 <= SourceCapacity
  BY Constants DEF Lifetimes
<1>6. /\ w.rt = rt /\ w.chan = chan /\ rt.cur = 1 /\ rt.last = 1 /\ rt.view = 1 /\ rt.producer = FALSE
      /\ rt.p = NoProducer /\ rt.blocked = FALSE /\ rt.baseline = 1 /\ rt.excluded = 1
      /\ rt.recovering = "no" /\ rt.quarantined = FALSE
      /\ \A l \in Lifetimes : chan[l] = Unbound
  BY DEF Init, World
<1>7. HostOK(host) /\ host.epoch = 1 /\ host.active = FALSE
  BY <1>5 DEF Init, HostOK, HostType
<1>8. w \in WorldType
  <2>1. rt \in RuntimeType
    BY <1>4, <1>5 DEF Init, RuntimeType
  <2>2. chan \in [Lifetimes -> ChannelType]
    BY <1>2 DEF Init
  <2> QED BY <2>1, <2>2 DEF World, WorldType
<1>9. Typed(w)
  BY <1>3, <1>6, <1>8 DEF Typed
<1> HIDE DEF w
<1>10. Mapping(w) = Unbound
  BY <1>5, <1>6 DEF Mapping
<1>11. Bindings(w)
  BY <1>2, <1>4, <1>5, <1>6, <1>10 DEF Bindings
<1>12. Live(w) /\ Counted(w) /\ Whole(w, host) /\ Agrees(w, host) /\ Ready(w, host)
  <2>1. Live(w) /\ Whole(w, host) /\ Agrees(w, host)
    BY <1>6 DEF Live, Whole, Agrees
  <2>2. Counted(w)
    BY <1>2, <1>4, <1>5, <1>6, <1>10, Constants DEF Counted, IsBound
  <2>3. Ready(w, host)
    BY <1>6, <1>7 DEF Ready
  <2> QED BY <2>1, <2>2, <2>3
<1>13. Good(World, host)
  BY <1>2, <1>5, <1>6, <1>7, <1>9, <1>11, <1>12 DEF Good, Base, w
<1>14. Owned(World, owner)
  <2>1. /\ owner.view = 1 /\ owner.own = NoOwner /\ owner.release = 0 /\ owner \in OwnerType
    BY <1>5, NoOwnerIs DEF Init, OwnerType
  <2>2. \A k \in 2..Unbound.ack.ordinal : FALSE
    BY <1>1, <1>2
  <2> QED BY <1>2, <1>5, <1>6, <2>1, <2>2, NoOwnerIs DEF Owned, w
<1>15. inbox \in Seq(FactRecords)
  <2> DEFINE fact == Fact("Transition", 1, 1, FALSE)
  <2>1. fact \in FactRecords
    BY <1>5, Constants DEF Fact, FactRecords, FactKinds, Replayed
  <2>2. inbox = <<fact>>
    BY DEF Init
  <2> HIDE DEF fact
  <2> QED BY <2>1, <2>2
<1>16. input \in InputType /\ pause \in PauseType
  BY InputConstants DEF Init
<1> QED BY <1>13, <1>14, <1>15, <1>16 DEF IInv

\* What the host and the connection do to the invariant.
LEMMA RuntimeSafe ==
  ASSUME IInv, Good(World', host'), Moves(World, World'), inbox' \in Seq(FactRecords),
         UNCHANGED <<owner, input, pause>>
  PROVE  IInv'
<1>1. Typed(World')
  BY DEF Good, Base
<1>2. Owned(World', owner)
  BY <1>1, OwnerFacts, OwnedKept
<1> QED BY <1>2, GameSafe DEF IInv

LEMMA HostFactSafe ==
  ASSUME IInv, NEW fact, NEW eligible \in BOOLEAN, HostFact(fact, eligible), Legal(host, host', fact)
  PROVE  IInv'
<1>1. Good(World', host') /\ Moves(World, World')
  BY OwnerFacts, ToldGood
<1>2. inbox' \in Seq(FactRecords)
  <2>1. inbox \in Seq(FactRecords) /\ fact \in FactRecords
    BY DEF IInv, Legal
  <2>2. inbox' \in {inbox, Append(inbox, fact)}
    BY DEF HostFact
  <2> QED BY <2>1, <2>2
<1> QED BY <1>1, <1>2, RuntimeSafe DEF HostFact

LEMMA HostSafe ==
  ASSUME IInv, NEW eligible \in BOOLEAN, NEW scene \in BOOLEAN,
         HostMoves(scene, eligible) \/ HostHolds(eligible) \/ HostReleases(eligible)
  PROVE  IInv'
<1>0. /\ HostOK(host) /\ host \in HostType /\ host.epoch \in Nat /\ host.facts \in Nat
      /\ host.active \in BOOLEAN /\ host.epoch + 1 \in Nat /\ host.facts + 1 \in Nat
  BY OwnerFacts DEF Good, Base, HostOK, HostType
<1>1. ASSUME NEW H2, H2 \in HostType, H2.facts = host.facts + 1, host.facts < MaxFacts,
             H2.epoch \in {host.epoch, host.epoch + 1}
      PROVE  HostOK(H2)
  BY <1>0, <1>1, Constants DEF HostOK
<1>2. ASSUME NEW kind \in FactKinds, NEW epoch \in {host.epoch, host.epoch + 1}, NEW b \in BOOLEAN,
             host.facts < MaxFacts
      PROVE  LET fact == Fact(kind, host.facts + 1, epoch, b) IN
             /\ fact \in FactRecords /\ fact.kind = kind /\ fact.source = host.facts + 1 /\ fact.epoch = epoch
  <2>1. host.facts + 1 \in 0..Replayed /\ epoch \in 0..MaxFacts
    BY <1>0, <1>2, Constants DEF HostOK, Replayed
  <2> QED BY <2>1 DEF Fact, FactRecords
<1>3. CASE HostMoves(scene, eligible)
  <2> DEFINE fact == Fact("Transition", host.facts + 1, host.epoch + 1, scene)
  <2>1. HostFact(fact, eligible) /\ host' = [host EXCEPT !.epoch = @ + 1, !.facts = @ + 1]
    BY <1>3 DEF HostMoves
  <2>2. host.facts < MaxFacts
    BY <2>1 DEF HostFact
  <2>3. /\ host' \in HostType /\ host'.facts = host.facts + 1 /\ host'.epoch = host.epoch + 1
        /\ host'.active = host.active
    BY <1>0, <2>1 DEF HostType
  <2>4. fact \in FactRecords /\ fact.kind = "Transition" /\ fact.source = host.facts + 1 /\ fact.epoch = host.epoch + 1
    BY <1>2, <2>2 DEF FactKinds
  <2> HIDE DEF fact
  <2>5. Legal(host, host', fact)
    BY <1>0, <1>1, <2>2, <2>3, <2>4 DEF Legal
  <2> QED BY <2>1, <2>5, HostFactSafe
<1>4. CASE HostHolds(eligible)
  <2> DEFINE fact == Fact("Acquire", host.facts + 1, host.epoch, FALSE)
  <2>1. HostFact(fact, eligible) /\ host' = [host EXCEPT !.active = TRUE, !.facts = @ + 1] /\ ~host.active
    BY <1>4 DEF HostHolds
  <2>2. host.facts < MaxFacts
    BY <2>1 DEF HostFact
  <2>3. /\ host' \in HostType /\ host'.facts = host.facts + 1 /\ host'.epoch = host.epoch
        /\ host'.active = TRUE
    BY <1>0, <2>1 DEF HostType
  <2>4. fact \in FactRecords /\ fact.kind = "Acquire" /\ fact.source = host.facts + 1 /\ fact.epoch = host.epoch
    BY <1>2, <2>2 DEF FactKinds
  <2> HIDE DEF fact
  <2>5. Legal(host, host', fact)
    BY <1>0, <1>1, <2>1, <2>2, <2>3, <2>4 DEF Legal
  <2> QED BY <2>1, <2>5, HostFactSafe
<1>5. CASE HostReleases(eligible)
  <2> DEFINE fact == Fact("Release", host.facts + 1, host.epoch, FALSE)
  <2>1. HostFact(fact, eligible) /\ host' = [host EXCEPT !.active = FALSE, !.facts = @ + 1] /\ host.active
    BY <1>5 DEF HostReleases
  <2>2. host.facts < MaxFacts
    BY <2>1 DEF HostFact
  <2>3. /\ host' \in HostType /\ host'.facts = host.facts + 1 /\ host'.epoch = host.epoch
        /\ host'.active = FALSE
    BY <1>0, <2>1 DEF HostType
  <2>4. fact \in FactRecords /\ fact.kind = "Release" /\ fact.source = host.facts + 1 /\ fact.epoch = host.epoch
    BY <1>2, <2>2 DEF FactKinds
  <2> HIDE DEF fact
  <2>5. Legal(host, host', fact)
    BY <1>0, <1>1, <2>1, <2>2, <2>3, <2>4 DEF Legal
  <2> QED BY <2>1, <2>5, HostFactSafe
<1> QED BY <1>3, <1>4, <1>5

LEMMA ConnectionSafe ==
  ASSUME IInv, Lose \/ Restart \/ Rejoin \/ ResyncConverges
  PROVE  IInv'
<1>0. /\ inbox \in Seq(FactRecords) /\ host.epoch \in 0..MaxFacts
  <2>1. host.epoch \in Nat /\ host.facts \in Nat /\ host.epoch <= host.facts /\ host.facts <= MaxFacts
    BY OwnerFacts DEF Good, Base, HostOK, HostType
  <2> QED BY <2>1, Constants DEF IInv
<1>1. CASE Lose
  BY <1>0, <1>1, OwnerFacts, LoseGood, RuntimeSafe DEF Lose
<1>2. CASE Restart
  BY <1>0, <1>2, OwnerFacts, RestartGood, RuntimeSafe DEF Restart
<1>3. CASE Rejoin
  <2> DEFINE cached == Fact("Transition", Replayed, host.epoch, FALSE)
  <2>1. Session \in FactRecords /\ cached \in FactRecords
    BY <1>0, Constants DEF Session, Fact, FactRecords, FactKinds, Replayed
  <2>2. inbox' \in {<<Session, cached>>, <<Session>>} /\ UNCHANGED <<owner, input, pause>>
    BY <1>3 DEF Rejoin
  <2> HIDE DEF cached
  <2>3. inbox' \in Seq(FactRecords)
    BY <2>1, <2>2
  <2> QED BY <1>3, <2>2, <2>3, OwnerFacts, RejoinGood, RuntimeSafe
<1>4. CASE ResyncConverges
  <2>1. Result(host.epoch) \in FactRecords
    BY <1>0, Constants DEF Result, Fact, FactRecords, FactKinds, Replayed
  <2>2. inbox' = Append(inbox, Result(host.epoch)) /\ UNCHANGED <<owner, input, pause>>
    BY <1>4 DEF ResyncConverges
  <2>3. inbox' \in Seq(FactRecords)
    BY <1>0, <2>1, <2>2
  <2> QED BY <1>4, <2>2, <2>3, OwnerFacts, ConvergedGood, RuntimeSafe
<1> QED BY <1>1, <1>2, <1>3, <1>4

LEMMA NextSafe ==
  ASSUME IInv, [Next]_vars
  PROVE  IInv'
<1>1. ASSUME NEW eligible \in BOOLEAN, Pulse(eligible) PROVE IInv'
  <2>1. inbox' = inbox /\ UNCHANGED <<owner, input, pause>>
    BY <1>1 DEF Pulse
  <2>2. inbox' \in Seq(FactRecords)
    BY <2>1 DEF IInv
  <2> QED BY <1>1, <2>1, <2>2, OwnerFacts, PulseGood, RuntimeSafe
<1>2. CASE UNCHANGED vars \/ ForeignCall \/ GameMoves
  <2>1. UNCHANGED <<host, rt, chan, inbox, owner, input, pause>>
    BY <1>2 DEF vars, ForeignCall, GameMoves
  <2>2. World' = World
    BY <2>1 DEF World
  <2> QED BY <2>1, <2>2 DEF IInv
<1>3. CASE \E eligible \in BOOLEAN : HostMoves(FALSE, eligible) \/ HostMoves(TRUE, eligible)
                                       \/ HostHolds(eligible) \/ HostReleases(eligible)
  BY <1>3, HostSafe
<1>4. CASE Lose \/ Restart \/ Rejoin \/ ResyncConverges
  BY <1>4, ConnectionSafe
<1>5. CASE \E accepted, safe \in BOOLEAN : Consume(accepted, safe)
  BY <1>5, ConsumeSafe
<1>6. CASE \E ready \in BOOLEAN : OwnerFrame(ready)
  BY <1>6, OwnerFrameSafe
<1>7. CASE \E readable, writable, safe \in BOOLEAN : Callback(readable, writable, safe)
  BY <1>7, CallbackSafe
<1>8. CASE \E within \in BOOLEAN : RejectedCallback(within)
  BY <1>8, RejectedCallbackSafe
<1>9. CASE Disable
  BY <1>9, DisableSafe
<1>10. CASE Tick
  BY <1>10, TickSafe
<1> QED BY <1>1, <1>2, <1>3, <1>4, <1>5, <1>6, <1>7, <1>8, <1>9, <1>10 DEF Next

-----------------------------------------------------------------------------
(* What holds of every friend's hold *)

\* The invariant: a mapping that its producer has not lost agrees with the host,
\* and what the owner acknowledged of it is what the world has taken.
THEOREM InvariantHolds == Spec => []IInv
<1>1. Init => IInv
  BY InitSafe
<1>2. IInv /\ [Next]_vars => IInv'
  BY NextSafe
<1> QED BY <1>1, <1>2, PTL DEF Spec

LEMMA TypesFollow ==
  ASSUME IInv
  PROVE  TypeOK
<1>1. /\ host.epoch \in Nat /\ host.facts \in Nat /\ host.active \in BOOLEAN
      /\ 1 <= host.epoch /\ host.epoch <= host.facts /\ host.facts <= MaxFacts
  BY OwnerFacts DEF Good, Base, HostOK, HostType
<1>2. host.epoch \in 1..MaxFacts /\ host.facts \in 1..MaxFacts
  BY <1>1, Constants
<1>3. /\ rt.cur \in {0, rt.last} /\ rt.last \in Lifetimes /\ rt.view \in Lifetimes
      /\ rt.recovering \in {"no", "lost", "joined", "result", "adopted"}
  BY OwnerFacts DEF Typed, RuntimeType
<1>4. rt.excluded \in 0..SourceCapacity /\ rt.p.sources \in 0..SourceCapacity
  <2>1. rt.excluded \in Nat /\ rt.p.sources \in Nat
    BY OwnerFacts DEF RuntimeType, ProducerType
  <2>2. rt.excluded <= SourceCapacity /\ rt.p.sources <= SourceCapacity
    BY OwnerFacts DEF Good, Base, Counted
  <2> QED BY <2>1, <2>2, Constants
<1>5. ASSUME NEW l \in Lifetimes
      PROVE  /\ chan[l].abort \in Aborts /\ chan[l].consumed \in 0..Len(chan[l].log)
             /\ Len(chan[l].log) - chan[l].consumed \in 0..Capacity
             /\ \A k \in DOMAIN chan[l].log : chan[l].log[k] \in FactRecords
             /\ chan[l].ack.ordinal \in 0..Len(chan[l].log)
  <2> DEFINE c == chan[l]
  <2>1. ChannelOK(c)
    BY OwnerFacts DEF Typed
  <2> HIDE DEF c
  <2>2. /\ c.abort \in Aborts /\ c.consumed \in Nat /\ c.log \in Seq(FactRecords) /\ Len(c.log) \in Nat
        /\ c.ack \in AckType
    BY <2>1 DEF ChannelOK, ChannelType
  <2>3. c.ack.ordinal \in Nat
    BY <2>2 DEF AckType
  <2>4. c.consumed <= Len(c.log) /\ Len(c.log) - c.consumed <= Capacity /\ c.ack.ordinal <= Len(c.log)
    BY <2>1 DEF ChannelOK
  <2>5. \A k \in DOMAIN c.log : c.log[k] \in FactRecords
    BY <2>2
  <2> QED BY <2>2, <2>3, <2>4, <2>5, Constants DEF c
<1>6. input.phase \in Phases /\ input.unwound \in 0..UnwindPresses /\ pause.presses \in 0..(UnwindPresses + 1)
  BY DEF IInv, InputType, PauseType
<1> QED BY <1>1, <1>2, <1>3, <1>4, <1>5, <1>6, OwnerFacts DEF TypeOK

\* The values of the variables: no mapping holds more than its FIFO, nothing is
\* acknowledged or consumed that was not written, and no counter passes its limit.
THEOREM TypeSafety == Spec => []TypeOK
BY InvariantHolds, TypesFollow, PTL

\* Between an armed mapping and the host nothing is lost in silence: as long as
\* its producer has not cut it, it holds every fact of the host since its first.
THEOREM NothingSkipped == Spec => []NoFactSkipped
<1>1. IInv => NoFactSkipped
  BY DEF IInv, Good, Base, Whole, World, NoFactSkipped
<1> QED BY <1>1, InvariantHolds, PTL

\* A host that keeps its own order is never cut off for disorder in a friend's
\* first lifetime, whenever the friend joined, armed, lost packets or came back.
THEOREM HostNeverBlamed == Spec => []LegalHostNeverBlamed
<1>1. IInv => LegalHostNeverBlamed
  BY DEF IInv, Good, Base, World, LegalHostNeverBlamed
<1> QED BY <1>1, InvariantHolds, PTL

\* A hold ends by its release only when the owner has acknowledged a record.
LEMMA BoundaryIsReleased ==
  ASSUME NEW i \in InputType, NEW s, i.phase = "ReleaseBoundary", Step(i, s).phase = "Complete"
  PROVE  s.healthy /\ s.ownerReleased
<1>1. Holding(i)
  BY DEF Holding
<1>2. Fail(i).phase = "Failed"
  BY FailedType
<1>3. [i EXCEPT !.press = FALSE].phase = "ReleaseBoundary"
  BY DEF InputType
<1>4. s.healthy /\ ~i.press
  BY <1>1, <1>2, <1>3 DEF Step
<1>5. Step(i, s) = StepReleaseBoundary(i, s)
  BY <1>1, <1>4 DEF Step
<1> QED BY <1>2, <1>4, <1>5 DEF StepReleaseBoundary

LEMMA CallbackEarned ==
  ASSUME IInv, NEW readable \in BOOLEAN, NEW writable \in BOOLEAN, NEW safe \in BOOLEAN,
         Callback(readable, writable, safe), input.phase = "ReleaseBoundary", input'.phase = "Complete",
         ~Superseded
  PROVE  \A k \in 2..owner.release : OwnMapping.log[k].source \in owner.own.seen
<1> DEFINE c == CallRead(readable)
           i == CallInput(readable)
           got == CallGot(readable, safe)
           s == CallSample(readable, safe)
<1>0. i \in InputType /\ got.hold \in InputType /\ owner.view \in Lifetimes /\ owner.release \in Nat
      /\ Step(got.hold, s) \in InputType /\ input \in InputType
  BY CallInputIs, CallGotIs, SteppedType, OwnerFacts DEF IInv
<1>1. input' = Step(got.hold, s) /\ chan' = [chan EXCEPT ![owner.view] = c] /\ owner'.view = owner.view
  <2>1. Fail(Step(got.hold, s)).phase = "Failed"
    BY <1>0, FailedType
  <2>2. \/ input' = Step(got.hold, s) /\ chan' = [chan EXCEPT ![owner.view] = c]
        \/ input' = Fail(Step(got.hold, s)) /\ chan' = [chan EXCEPT ![owner.view] = Invalidate(c, "Unsupported")]
    BY CallbackIs
  <2>3. owner' = Remembered(input', got)
    BY CallbackIs
  <2> HIDE DEF got, s, c
  <2>4. owner'.view = owner.view
    BY <2>3, OwnerFacts DEF Remembered, OwnerType
  <2> QED BY <2>1, <2>2, <2>4
<1>2. /\ ChannelOK(c)
      /\ \/ Keeps(OwnMapping, c) /\ c.ack = OwnMapping.ack /\ c.consumed >= OwnMapping.consumed
         \/ c.abort # "None"
      /\ c.abort = "None" => OwnMapping.abort = "None"
      /\ CallReads(readable) => readable /\ c.consumed = OwnMapping.consumed + 1
  BY CallReadIs
<1>3. /\ got.release \in Nat
      /\ c.abort = "None" => got.release <= c.consumed
      /\ \/ ~CallReads(readable) /\ got.hold = i /\ got.release = owner.release
         \/ /\ CallReads(readable)
            /\ i.phase = "ReleaseBoundary" /\ c.log[c.consumed].kind # "Acquire" =>
                 got.hold.phase = "ReleaseBoundary" /\ got.release \in {c.consumed, owner.release}
  BY CallGotIs
<1>4. s.healthy = Healthy(c) /\ s.ownerReleased = OwnerReleased(c, got.release)
  BY DEF CallSample
<1>5. readable /\ i = input
  <2>1. ASSUME ~readable PROVE FALSE
    <3>1. i.phase = "Failed" /\ got.hold = i
      <4>1. i = Fail(input)
        BY <2>1 DEF CallInput
      <4>2. Fail(input).phase = "Failed"
        BY <1>0, FailedType
      <4>3. got.hold = i
        BY <1>2, <1>3, <2>1
      <4> QED BY <4>1, <4>2, <4>3
    <3> HIDE DEF i, got, s
    <3>2. Step(i, s) = i
      BY <3>1 DEF Step, Holding
    <3> QED BY <1>1, <3>1, <3>2
  <2> QED BY <2>1 DEF CallInput
<1> HIDE DEF c, i, got, s
<1>6. OwnMapping' = c
  <2>1. chan \in [Lifetimes -> ChannelType]
    BY OwnerFacts
  <2> QED BY <1>0, <1>1, <2>1 DEF OwnMapping
<1>7. CallReads(readable) => c.log[c.consumed].kind # "Acquire"
  <2>1. OwnMapping.consumed \in Nat
    BY OwnerFacts DEF ChannelType
  <2> QED BY <1>2, <1>6, <2>1 DEF Superseded
<1>8. got.hold.phase = "ReleaseBoundary" /\ got.release \in {c.consumed, owner.release}
  BY <1>3, <1>5, <1>7
<1>9. Healthy(c) /\ OwnerReleased(c, got.release)
  BY <1>0, <1>1, <1>4, <1>8, BoundaryIsReleased
<1>10. /\ c.abort = "None" /\ c.log = OwnMapping.log /\ c.ack = OwnMapping.ack
       /\ c.consumed >= OwnMapping.consumed /\ c.ack.ordinal = got.release
  BY <1>2, <1>9 DEF Healthy, OwnerReleased, Keeps
<1>11. owner.release <= OwnMapping.consumed
  BY <1>2, <1>10, OwnerFacts DEF Owned, OwnMapping
<1>12. owner.release <= OwnMapping.ack.ordinal /\ OwnMapping.ack.ordinal \in Nat
  <2>1. OwnMapping.consumed \in Nat /\ c.consumed \in Nat
    BY <1>2, OwnerFacts DEF ChannelOK, ChannelType
  <2> QED BY <1>0, <1>3, <1>8, <1>10, <1>11, <2>1
<1>13. \A k \in 2..OwnMapping.ack.ordinal : OwnMapping.log[k].source \in owner.own.seen
  BY OwnerFacts DEF Owned, OwnMapping
<1> QED BY <1>0, <1>12, <1>13

LEMMA ReturnEarned ==
  ASSUME IInv, [Next]_vars, input.phase = "ReleaseBoundary", input'.phase = "Complete", ~Superseded
  PROVE  \A k \in 2..owner.release : OwnMapping.log[k].source \in owner.own.seen
<1>0. input \in InputType
  BY DEF IInv
<1>1. input' # input
  OBVIOUS
<1>2. CASE \E accepted, safe \in BOOLEAN : Consume(accepted, safe)
  <2>1. input' \in {input, NoHold}
    BY <1>2 DEF Consume, ForgetSession, BeginRecovered, ObserveFact
  <2> QED BY <1>1, <2>1, InputConstants
<1>3. CASE \E readable, writable, safe \in BOOLEAN : Callback(readable, writable, safe)
  BY <1>3, CallbackEarned
<1>4. CASE \E within \in BOOLEAN : RejectedCallback(within)
  <2>1. input' \in {input, Fail(input)}
    BY <1>4 DEF RejectedCallback
  <2> QED BY <1>0, <1>1, <2>1, FailedType
<1>5. CASE Tick
  <2>1. input' = Aged(input)
    BY <1>5 DEF Tick
  <2> QED BY <1>0, <2>1, AgedType
<1>6. CASE \E eligible \in BOOLEAN :
             Pulse(eligible) \/ HostMoves(FALSE, eligible) \/ HostMoves(TRUE, eligible)
               \/ HostHolds(eligible) \/ HostReleases(eligible)
  BY <1>1, <1>6 DEF Pulse, HostMoves, HostHolds, HostReleases, HostFact
<1>7. CASE Lose \/ Restart \/ Rejoin \/ ResyncConverges
  BY <1>1, <1>7 DEF Lose, Restart, Rejoin, ResyncConverges
<1>8. CASE (\E ready \in BOOLEAN : OwnerFrame(ready)) \/ ForeignCall \/ Disable \/ GameMoves
  BY <1>1, <1>8 DEF OwnerFrame, ForeignCall, Disable, GameMoves
<1>9. CASE UNCHANGED vars
  BY <1>1, <1>9 DEF vars
<1> QED BY <1>2, <1>3, <1>4, <1>5, <1>6, <1>7, <1>8, <1>9 DEF Next

\* A hold that ends by its release ends when the game has taken, as world state,
\* every fact that the host sent up to that release.
THEOREM ReturnsAreEarned == Spec => ReturnIsEarned
<1>1. ASSUME IInv, [Next]_vars
      PROVE  [input.phase = "ReleaseBoundary" /\ input'.phase = "Complete" /\ ~Superseded
                => \A k \in 2..owner.release : OwnMapping.log[k].source \in owner.own.seen]_vars
  BY <1>1, ReturnEarned
<1> QED BY <1>1, InvariantHolds, PTL DEF Spec, ReturnIsEarned
=============================================================================
