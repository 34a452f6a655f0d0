----------------------- MODULE DeliverySerials_proofs -----------------------
(***************************************************************************)
(* Proof that a seat which was there when a serial was announced recognises  *)
(* every envelope under it, for any number of friends, connections and       *)
(* transactions and any amount of mail on its way.                           *)
(*                                                                           *)
(* The argument: what a listener knows of one source is its view, the        *)
(* connection in that slot and the serial expected.  The messages in the      *)
(* listener's channel lead from its present view, one view per message, to    *)
(* the one it ends with (Tracks).  The last view is the relay's own, up to     *)
(* plans the listener came too late for (EndsAt); an envelope is admitted     *)
(* while that is so, and finds the view it was admitted under (Fits).         *)
(***************************************************************************)
EXTENDS DeliverySerials, TLAPS

Positive == Nat \ {0}

Roster == [Friends -> Nat]

Peer == [conn : Nat, serial : Positive, fenced : BOOLEAN]

Relay == [peers : [Friends -> Peer], nextConn : Positive, lastId : Nat, targets : Roster, handed : BOOLEAN]

Seat == [bound : Positive, fenced : BOOLEAN, plan : Nat, roster : Roster, heard : Roster]

Envelope == [t : {"env"}, from : Friends, conn : Nat, serial : Positive]

RosterMessage == [t : {"roster"}, conns : Roster]

PlanMessage == [t : {"plan"}, id : Nat, serials : Roster, conns : Roster]

Ending == [t : {"end"}, id : Nat] \cup [t : {"result"}, id : Nat, converged : BOOLEAN]

Message == Envelope \cup RosterMessage \cup PlanMessage \cup Ending

Types ==
  /\ relay \in Relay
  /\ seat \in [Listeners -> Seat]
  /\ wire \in [Friends -> Seq(Envelope)]
  /\ out \in [Listeners -> Seq(Message)]
  /\ announced \in [1..MaxConns -> [2..MaxPlans + 1 -> Nat]]

-----------------------------------------------------------------------------
(* Views, and how messages lead from one to the next.                       *)

View == [conn : Nat, serial : Nat]

ViewOf(q, f) == [conn |-> q.roster[f], serial |-> q.heard[f]]

Selected(p, m) == p = Host \/ m.serials[p] # 0

\* The serial that listener p expects of source f after a plan.
Planned(p, f, v, m) ==
  IF m.serials[f] # 0 /\ (Selected(p, m) \/ (m.serials[f] > v.serial /\ m.conns[f] = v.conn))
    THEN m.serials[f] ELSE v.serial

Reads(p, f, v, m) ==
  IF m.t = "roster" THEN [conn |-> m.conns[f], serial |-> IF m.conns[f] # v.conn THEN 1 ELSE v.serial]
  ELSE IF m.t = "plan" THEN [conn |-> v.conn, serial |-> Planned(p, f, v, m)]
  ELSE v

\* An envelope of f that is among those owed finds the view it was admitted under.
Fits(f, owed, v, m) ==
  m.t = "env" /\ m.from = f /\ <<m.conn, m.serial>> \in owed => v.conn = m.conn /\ v.serial = m.serial

Step(p, f, owed, v, m, w) == w = Reads(p, f, v, m) /\ Fits(f, owed, v, m)

Tracks(p, f, owed, v, q, w) ==
  \E tr \in [0..Len(q) -> View] :
    /\ tr[0] = v /\ tr[Len(q)] = w
    /\ \A i \in 1..Len(q) : Step(p, f, owed, tr[i - 1], q[i], tr[i])

\* What the relay has for a source, and a listener's last view of it.
EndsAt(w, conn, serial, owed) ==
  /\ w.conn = conn /\ w.serial <= serial
  /\ <<conn, serial>> \in owed => w.serial = serial

Leads(p, f, conn, serial, owed, v, q) ==
  \E w \in View : EndsAt(w, conn, serial, owed) /\ Tracks(p, f, owed, v, q, w)

-----------------------------------------------------------------------------
(* The invariant.                                                           *)

\* What listener p has been told of: it was there when the serial was announced.
Owed(p) ==
  {d \in Nat \X Nat : p = Host \/ d[2] = 1 \/ relay.peers[p].conn < announced[d[1]][d[2]]}

Story(p, f) ==
  Leads(p, f, relay.peers[f].conn, relay.peers[f].serial, Owed(p), ViewOf(seat[p], f), out[p])

\* A serial counts the transactions; a connection id is never given twice.
RelayOK ==
  /\ relay.nextConn <= MaxConns + 1 /\ relay.lastId <= MaxPlans
  /\ \A f \in Friends :
       LET q == relay.peers[f]
       IN  q.conn < relay.nextConn /\ q.serial <= relay.lastId + 1 /\ (q.conn = 0 => q.serial = 1)
  /\ \A f, g \in Friends :
       relay.peers[f].conn = relay.peers[g].conn /\ relay.peers[f].conn # 0 => f = g
  /\ \A c \in 1..MaxConns : \A s \in 2..MaxPlans + 1 : announced[c][s] <= relay.nextConn

WireOK ==
  \A f \in Friends : /\ wire[f] # <<>> => relay.peers[f].conn # 0
                     /\ \A i \in 1..Len(wire[f]) : wire[f][i].from = f

\* No envelope is ahead of the relay.
Behind(r, m) ==
  /\ 0 < m.conn /\ m.conn < r.nextConn /\ m.serial <= r.lastId + 1
  /\ \A g \in Friends : r.peers[g].conn = m.conn => m.serial <= r.peers[g].serial

Sound(r, q) == \A i \in 1..Len(q) : q[i].t = "env" => Behind(r, q[i])

MailOK == \A p \in Listeners : Sound(relay, out[p])

AbsentOK == \A p \in Listeners : ~Verified(p) => out[p] = <<>> /\ seat[p] = NewSeat

StoriesOK == \A p \in Listeners : Verified(p) => \A f \in Friends : Story(p, f)

IInv == Types /\ RelayOK /\ WireOK /\ MailOK /\ AbsentOK /\ StoriesOK

-----------------------------------------------------------------------------
LEMMA Constants ==
    /\ MaxConns \in Nat /\ MaxPlans \in Nat /\ MaxSends \in Nat
    /\ Host \notin Friends /\ Listeners \subseteq Friends \cup {Host}
    /\ Speakers \subseteq Friends \cap Listeners
    BY SerialsAssumption

LEMMA MessageIs ==
    ASSUME NEW m \in Message
    PROVE  /\ m.t = "env" => m \in Envelope
           /\ m.t = "roster" => m \in RosterMessage
           /\ m.t = "plan" => m \in PlanMessage
           /\ m.t \in {"env", "roster", "plan", "end", "result"}
    BY DEF Message, Envelope, RosterMessage, PlanMessage, Ending

LEMMA ReadsView ==
    ASSUME NEW p, NEW f \in Friends, NEW v \in View, NEW m \in Message
    PROVE  Reads(p, f, v, m) \in View
<1>1. CASE m.t = "roster"
  <2>1. m.conns[f] \in Nat
    BY <1>1, MessageIs DEF RosterMessage, Roster
  <2> QED
    BY <1>1, <2>1 DEF Reads, View
<1>2. CASE m.t = "plan"
  <2>1. m.serials[f] \in Nat
    BY <1>2, MessageIs DEF PlanMessage, Roster
  <2>2. Planned(p, f, v, m) \in Nat
    BY <2>1 DEF Planned, View
  <2> QED
    BY <1>2, <2>2 DEF Reads, View
<1> QED
  BY <1>1, <1>2 DEF Reads

-----------------------------------------------------------------------------
(* A track, and what reading and writing make of it.                         *)

LEMMA TrackEmpty ==
    ASSUME NEW p, NEW f, NEW owed, NEW v \in View
    PROVE  Tracks(p, f, owed, v, <<>>, v)
<1> DEFINE tr == [i \in 0..0 |-> v]
<1>1. tr \in [0..Len(<<>>) -> View] /\ tr[0] = v /\ tr[Len(<<>>)] = v
  OBVIOUS
<1>2. 1..Len(<<>>) = {}
  OBVIOUS
<1> QED
  BY <1>1, <1>2 DEF Tracks

LEMMA TrackAppend ==
    ASSUME NEW p, NEW f \in Friends, NEW owed, NEW v \in View, NEW w \in View,
           NEW q \in Seq(Message), NEW m \in Message,
           Tracks(p, f, owed, v, q, w), Fits(f, owed, w, m)
    PROVE  Tracks(p, f, owed, v, Append(q, m), Reads(p, f, w, m))
<1> PICK tr \in [0..Len(q) -> View] :
      /\ tr[0] = v /\ tr[Len(q)] = w
      /\ \A i \in 1..Len(q) : Step(p, f, owed, tr[i - 1], q[i], tr[i])
  BY DEF Tracks
<1> DEFINE n == Len(q)
           z == Reads(p, f, w, m)
           q2 == Append(q, m)
           tr2 == [i \in 0..(n + 1) |-> IF i = n + 1 THEN z ELSE tr[i]]
<1>1. z \in View
  BY ReadsView
<1>2. /\ n \in Nat /\ Len(q2) = n + 1 /\ q2[n + 1] = m
      /\ \A i \in 1..n : q2[i] = q[i]
  OBVIOUS
<1> HIDE DEF z, q2
<1>3. /\ tr2 \in [0..(n + 1) -> View] /\ tr2[0] = v /\ tr2[n + 1] = z
      /\ \A i \in 0..n : tr2[i] = tr[i]
  BY <1>1, <1>2
<1> HIDE DEF tr2
<1>4. ASSUME NEW i \in 1..(n + 1)
      PROVE  Step(p, f, owed, tr2[i - 1], q2[i], tr2[i])
  <2>1. CASE i = n + 1
    <3>1. tr2[i - 1] = w /\ tr2[i] = z /\ q2[i] = m
      BY <1>2, <1>3, <2>1
    <3> QED
      BY <3>1 DEF Step, z
  <2>2. CASE i # n + 1
    <3>1. i \in 1..n /\ i - 1 \in 0..n /\ i \in 0..n
      BY <1>2, <2>2
    <3>2. tr2[i - 1] = tr[i - 1] /\ tr2[i] = tr[i] /\ q2[i] = q[i]
      BY <1>2, <1>3, <3>1
    <3>3. Step(p, f, owed, tr[i - 1], q[i], tr[i])
      BY <3>1
    <3> QED
      BY <3>2, <3>3
  <2> QED
    BY <2>1, <2>2
<1>5. Tracks(p, f, owed, v, q2, z)
  BY <1>2, <1>3, <1>4 DEF Tracks
<1> QED
  BY <1>5 DEF q2, z

LEMMA TrackTail ==
    ASSUME NEW p, NEW f, NEW owed, NEW v \in View, NEW w \in View,
           NEW q \in Seq(Message), q # <<>>, Tracks(p, f, owed, v, q, w)
    PROVE  /\ Fits(f, owed, v, Head(q))
           /\ Tracks(p, f, owed, Reads(p, f, v, Head(q)), Tail(q), w)
<1> PICK tr \in [0..Len(q) -> View] :
      /\ tr[0] = v /\ tr[Len(q)] = w
      /\ \A i \in 1..Len(q) : Step(p, f, owed, tr[i - 1], q[i], tr[i])
  BY DEF Tracks
<1> DEFINE n == Len(q) - 1
           q2 == Tail(q)
           tr2 == [i \in 0..n |-> tr[i + 1]]
<1>1. /\ n \in Nat /\ Len(q) = n + 1 /\ Len(q2) = n /\ Head(q) = q[1]
      /\ \A i \in 1..n : q2[i] = q[i + 1]
  OBVIOUS
<1>2. Step(p, f, owed, tr[0], q[1], tr[1])
  <2>1. 1 \in 1..Len(q) /\ 1 - 1 = 0
    BY <1>1
  <2> QED
    BY <2>1
<1> HIDE DEF n, q2
<1>3. /\ tr2 \in [0..n -> View] /\ tr2[0] = tr[1] /\ tr2[n] = w
      /\ \A i \in 0..n : tr2[i] = tr[i + 1]
  BY <1>1
<1> HIDE DEF tr2
<1>4. ASSUME NEW i \in 1..n
      PROVE  Step(p, f, owed, tr2[i - 1], q2[i], tr2[i])
  <2>1. i + 1 \in 1..Len(q) /\ (i + 1) - 1 = i /\ i - 1 \in 0..n /\ i \in 0..n /\ (i - 1) + 1 = i
    BY <1>1
  <2>2. tr2[i - 1] = tr[i] /\ tr2[i] = tr[i + 1] /\ q2[i] = q[i + 1]
    BY <1>1, <1>3, <2>1
  <2>3. Step(p, f, owed, tr[(i + 1) - 1], q[i + 1], tr[i + 1])
    BY <2>1
  <2> QED
    BY <2>1, <2>2, <2>3
<1>5. tr2[0] = Reads(p, f, v, Head(q)) /\ Fits(f, owed, v, Head(q))
  BY <1>1, <1>2, <1>3 DEF Step
<1>6. Tracks(p, f, owed, Reads(p, f, v, Head(q)), q2, w)
  BY <1>1, <1>3, <1>4, <1>5 DEF Tracks
<1> QED
  BY <1>5, <1>6 DEF q2

\* A track owes less when none of its envelopes is among what is added.
LEMMA TrackOwes ==
    ASSUME NEW p, NEW f, NEW owed, NEW less, NEW v, NEW w, NEW q \in Seq(Message),
           Tracks(p, f, owed, v, q, w),
           \A i \in 1..Len(q) : q[i].t = "env" /\ <<q[i].conn, q[i].serial>> \in less =>
                                  <<q[i].conn, q[i].serial>> \in owed
    PROVE  Tracks(p, f, less, v, q, w)
<1> PICK tr \in [0..Len(q) -> View] :
      /\ tr[0] = v /\ tr[Len(q)] = w
      /\ \A i \in 1..Len(q) : Step(p, f, owed, tr[i - 1], q[i], tr[i])
  BY DEF Tracks
<1>1. ASSUME NEW i \in 1..Len(q)
      PROVE  Step(p, f, less, tr[i - 1], q[i], tr[i])
  <2>1. Step(p, f, owed, tr[i - 1], q[i], tr[i])
    OBVIOUS
  <2> QED
    BY <2>1 DEF Step, Fits
<1> QED
  BY <1>1 DEF Tracks

-----------------------------------------------------------------------------
(* What each kind of message does to what a listener knows.                  *)

\* The end of a transaction says nothing of serials.
LEMMA LeadsEnding ==
    ASSUME NEW p, NEW f \in Friends, NEW c, NEW s, NEW owed, NEW v \in View,
           NEW q \in Seq(Message), NEW m \in Message, m.t \in {"end", "result"},
           Leads(p, f, c, s, owed, v, q)
    PROVE  Leads(p, f, c, s, owed, v, Append(q, m))
<1> PICK w \in View : EndsAt(w, c, s, owed) /\ Tracks(p, f, owed, v, q, w)
  BY DEF Leads
<1>1. Fits(f, owed, w, m) /\ Reads(p, f, w, m) = w
  BY DEF Fits, Reads
<1>2. Tracks(p, f, owed, v, Append(q, m), w)
  BY <1>1, TrackAppend
<1> QED
  BY <1>2 DEF Leads

\* An envelope is admitted under the relay's own view of its source.
LEMMA LeadsEnvelope ==
    ASSUME NEW p, NEW f \in Friends, NEW c, NEW s, NEW owed, NEW v \in View,
           NEW q \in Seq(Message), NEW m \in Message, m.t = "env",
           m.from = f => m.conn = c /\ m.serial = s,
           Leads(p, f, c, s, owed, v, q)
    PROVE  Leads(p, f, c, s, owed, v, Append(q, m))
<1> PICK w \in View : EndsAt(w, c, s, owed) /\ Tracks(p, f, owed, v, q, w)
  BY DEF Leads
<1>1. Fits(f, owed, w, m) /\ Reads(p, f, w, m) = w
  BY DEF Fits, Reads, EndsAt
<1>2. Tracks(p, f, owed, v, Append(q, m), w)
  BY <1>1, TrackAppend
<1> QED
  BY <1>2 DEF Leads

\* A roster keeps a source, or puts another in its slot, or nobody, at serial 1.
LEMMA LeadsRoster ==
    ASSUME NEW p, NEW f \in Friends, NEW c \in Nat, NEW s \in Positive,
           NEW d \in Nat, NEW r \in Positive, NEW owed, NEW v \in View,
           NEW q \in Seq(Message), NEW m \in Message, m.t = "roster", m.conns[f] = d,
           d = c => r = s, d # c => r = 1,
           Leads(p, f, c, s, owed, v, q)
    PROVE  Leads(p, f, d, r, owed, v, Append(q, m))
<1> PICK w \in View : EndsAt(w, c, s, owed) /\ Tracks(p, f, owed, v, q, w)
  BY DEF Leads
<1> DEFINE z == Reads(p, f, w, m)
<1>1. z = [conn |-> d, serial |-> IF d # c THEN 1 ELSE w.serial]
  BY DEF Reads, EndsAt
<1>2. EndsAt(z, d, r, owed)
  BY <1>1 DEF EndsAt, Positive, View
<1>3. z \in View /\ Fits(f, owed, w, m)
  BY ReadsView DEF Fits
<1>4. Tracks(p, f, owed, v, Append(q, m), z)
  BY <1>3, TrackAppend
<1> QED
  BY <1>2, <1>3, <1>4 DEF Leads

\* A plan gives a target one serial more, and everyone who hears of it is owed the new one.
LEMMA LeadsPlan ==
    ASSUME NEW p, NEW f \in Friends, NEW c \in Nat, NEW s \in Positive, NEW r \in Positive,
           NEW owed, NEW less, NEW v \in View,
           NEW q \in Seq(Message), NEW m \in Message, m.t = "plan", m.conns[f] = c,
           m.serials[f] = 0 => r = s /\ (<<c, s>> \in less => <<c, s>> \in owed),
           m.serials[f] # 0 => m.serials[f] = s + 1 /\ r = s + 1,
           \A i \in 1..Len(q) : q[i].t = "env" /\ <<q[i].conn, q[i].serial>> \in less =>
                                  <<q[i].conn, q[i].serial>> \in owed,
           Leads(p, f, c, s, owed, v, q)
    PROVE  Leads(p, f, c, r, less, v, Append(q, m))
<1> PICK w \in View : EndsAt(w, c, s, owed) /\ Tracks(p, f, owed, v, q, w)
  BY DEF Leads
<1> DEFINE z == Reads(p, f, w, m)
<1>1. z = [conn |-> c, serial |-> IF m.serials[f] # 0 THEN r ELSE w.serial]
  BY DEF Reads, EndsAt, Planned, Positive, View
<1>2. EndsAt(z, c, r, less)
  BY <1>1 DEF EndsAt, Positive
<1>3. z \in View /\ Fits(f, less, w, m)
  BY ReadsView DEF Fits
<1>4. Tracks(p, f, less, v, q, w)
  BY TrackOwes
<1>5. Tracks(p, f, less, v, Append(q, m), z)
  BY <1>3, <1>4, TrackAppend
<1> QED
  BY <1>2, <1>3, <1>5 DEF Leads

LEMMA LeadsTail ==
    ASSUME NEW p, NEW f \in Friends, NEW c, NEW s, NEW owed, NEW v \in View,
           NEW q \in Seq(Message), q # <<>>,
           Leads(p, f, c, s, owed, v, q)
    PROVE  /\ Fits(f, owed, v, Head(q))
           /\ Leads(p, f, c, s, owed, Reads(p, f, v, Head(q)), Tail(q))
<1> PICK w \in View : EndsAt(w, c, s, owed) /\ Tracks(p, f, owed, v, q, w)
  BY DEF Leads
<1> QED
  BY TrackTail DEF Leads

-----------------------------------------------------------------------------
(* The invariant and the property.                                          *)

LEMMA ViewIs ==
    ASSUME Types, NEW p \in Listeners, NEW f \in Friends
    PROVE  /\ ViewOf(seat[p], f) \in View
           /\ out[p] \in Seq(Message)
           /\ relay.peers[f] \in Peer /\ relay.peers[f].conn \in Nat
           /\ relay.peers[f].serial \in Positive
  BY DEF Types, ViewOf, View, Seat, Roster, Relay, Peer

LEMMA NewSeatIs ==
    /\ NewSeat \in Seat
    /\ \A f \in Friends : ViewOf(NewSeat, f) = [conn |-> 0, serial |-> 1]
  BY DEF NewSeat, Seat, Roster, ViewOf, Positive

\* A transaction that nobody has begun: the seats that are there are owed what they see.
LEMMA InitIInv == Init => IInv
<1> SUFFICES ASSUME Init PROVE IInv
  OBVIOUS
<1>1. Types
  BY NewSeatIs, Constants
  DEF Init, Types, Relay, Peer, NoPeer, NoTargets, Roster, Positive
<1>2. RelayOK /\ WireOK /\ MailOK
  BY Constants DEF Init, RelayOK, WireOK, MailOK, Sound, NoPeer
<1>3. AbsentOK
  BY DEF Init, AbsentOK
<1>4. ASSUME NEW p \in Listeners, NEW f \in Friends
      PROVE  Story(p, f)
  <2> DEFINE v == ViewOf(seat[p], f)
  <2>1. v = [conn |-> 0, serial |-> 1] /\ v \in View /\ out[p] = <<>>
    BY NewSeatIs DEF Init, View
  <2>2. relay.peers[f].conn = 0 /\ relay.peers[f].serial = 1
    BY DEF Init, NoPeer
  <2>3. EndsAt(v, relay.peers[f].conn, relay.peers[f].serial, Owed(p))
    BY <2>1, <2>2 DEF EndsAt
  <2> HIDE DEF v
  <2> QED
    BY <2>1, <2>3, TrackEmpty DEF Story, Leads, v
<1> QED
  BY <1>1, <1>2, <1>3, <1>4 DEF IInv, StoriesOK

LEMMA IInvRecognises == IInv => PresentSeatsRecognise
<1> SUFFICES ASSUME IInv, NEW p \in Listeners, out[p] # <<>>,
                    Head(out[p]).t = "env", Present(p, Head(out[p]))
             PROVE  Recognised(p)
  BY DEF PresentSeatsRecognise
<1> DEFINE m == Head(out[p])
           f == m.from
<1>1. m \in Message /\ out[p] \in Seq(Message)
  BY DEF IInv, Types
<1>2. f \in Friends /\ m.conn \in Nat /\ m.serial \in Nat
  BY <1>1, MessageIs DEF Envelope, Positive
<1>3. <<m.conn, m.serial>> \in Owed(p)
  BY <1>2 DEF Owed, Present
<1>4. Story(p, f)
  BY <1>2 DEF IInv, AbsentOK, StoriesOK
<1>5. ViewOf(seat[p], f) \in View
  BY <1>2, ViewIs DEF IInv
<1>6. Fits(f, Owed(p), ViewOf(seat[p], f), m)
  BY <1>1, <1>2, <1>4, <1>5, LeadsTail DEF Story
<1> QED
  BY <1>3, <1>6 DEF Fits, ViewOf, Recognised

-----------------------------------------------------------------------------
(* What is on its way.                                                      *)

LEMMA TellIs ==
    ASSUME Types, NEW to, NEW m \in Message
    PROVE  /\ Tell(to, m) \in [Listeners -> Seq(Message)]
           /\ \A p \in Listeners :
                Tell(to, m)[p] = IF p \in to /\ Verified(p) THEN Append(out[p], m) ELSE out[p]
  BY DEF Types, Tell

LEMMA TellOr ==
    ASSUME NEW to, NEW m, NEW p \in Listeners
    PROVE  Tell(to, m)[p] = out[p] \/ Tell(to, m)[p] = Append(out[p], m)
<1>1. CASE p \in to /\ Verified(p)
  BY <1>1 DEF Tell
<1>2. CASE ~(p \in to /\ Verified(p))
  BY <1>2 DEF Tell
<1> QED
  BY <1>1, <1>2

LEMMA SoundAppend ==
    ASSUME NEW r, NEW q \in Seq(Message), NEW m \in Message, Sound(r, q), m.t = "env" => Behind(r, m)
    PROVE  Sound(r, Append(q, m))
<1> SUFFICES ASSUME NEW i \in 1..Len(Append(q, m)), Append(q, m)[i].t = "env"
             PROVE  Behind(r, Append(q, m)[i])
  BY DEF Sound
<1>1. CASE i = Len(q) + 1
  BY <1>1
<1>2. CASE i # Len(q) + 1
  <2>1. i \in 1..Len(q) /\ Append(q, m)[i] = q[i]
    BY <1>2
  <2> QED
    BY <2>1 DEF Sound
<1> QED
  BY <1>1, <1>2

LEMMA SoundTail ==
    ASSUME NEW r, NEW q \in Seq(Message), q # <<>>, Sound(r, q)
    PROVE  Sound(r, Tail(q))
<1> SUFFICES ASSUME NEW i \in 1..Len(Tail(q)), Tail(q)[i].t = "env"
             PROVE  Behind(r, Tail(q)[i])
  BY DEF Sound
<1>1. i + 1 \in 1..Len(q) /\ Tail(q)[i] = q[i + 1]
  OBVIOUS
<1> QED
  BY <1>1 DEF Sound

\* A relay that goes on: a slot keeps its connection and loses no serial, or is empty, or has a new connection.
Succeeds(r, r2) ==
  /\ r.nextConn <= r2.nextConn /\ r.lastId <= r2.lastId
  /\ \A g \in Friends : \/ /\ r2.peers[g].conn = r.peers[g].conn
                            /\ r.peers[g].serial <= r2.peers[g].serial
                         \/ r2.peers[g].conn = 0
                         \/ r.nextConn <= r2.peers[g].conn

LEMMA SoundLater ==
    ASSUME NEW r \in Relay, NEW r2 \in Relay, NEW q \in Seq(Message), Succeeds(r, r2), Sound(r, q)
    PROVE  Sound(r2, q)
<1> SUFFICES ASSUME NEW i \in 1..Len(q), q[i].t = "env"
             PROVE  Behind(r2, q[i])
  BY DEF Sound
<1> DEFINE m == q[i]
<1>1. Behind(r, m)
  BY DEF Sound
<1>2. m \in Envelope /\ m.conn \in Nat /\ m.serial \in Nat
  BY MessageIs DEF Envelope, Positive
<1>3. r.nextConn \in Nat /\ r2.nextConn \in Nat /\ r.lastId \in Nat /\ r2.lastId \in Nat
  BY DEF Relay, Positive
<1>4. ASSUME NEW g \in Friends, r2.peers[g].conn = m.conn
      PROVE  m.serial <= r2.peers[g].serial
  <2>1. r.peers[g].serial \in Nat /\ r2.peers[g].serial \in Nat
    BY DEF Relay, Peer, Positive
  <2>2. r2.peers[g].conn = r.peers[g].conn /\ r.peers[g].serial <= r2.peers[g].serial
    BY <1>1, <1>2, <1>3, <1>4 DEF Succeeds, Behind
  <2>3. m.serial <= r.peers[g].serial
    BY <1>1, <1>4, <2>2 DEF Behind
  <2> QED
    BY <1>2, <2>1, <2>2, <2>3
<1> QED
  BY <1>1, <1>2, <1>3, <1>4 DEF Succeeds, Behind

-----------------------------------------------------------------------------
(* A seat reads.                                                            *)

LEMMA SeatReads ==
    ASSUME IInv, NEW p \in Listeners, out[p] # <<>>,
           out' = [out EXCEPT ![p] = Tail(@)], UNCHANGED <<relay, wire, announced>>,
           seat' \in [Listeners -> Seat], \A o \in Listeners \ {p} : seat'[o] = seat[o],
           \A f \in Friends : ViewOf(seat'[p], f) = Reads(p, f, ViewOf(seat[p], f), Head(out[p]))
    PROVE  IInv'
<1>1. out[p] \in Seq(Message) /\ Tail(out[p]) \in Seq(Message)
  BY DEF IInv, Types
<1>2. out'[p] = Tail(out[p]) /\ \A o \in Listeners \ {p} : out'[o] = out[o]
  BY DEF IInv, Types
<1>3. out' \in [Listeners -> Seq(Message)]
  BY <1>1 DEF IInv, Types
<1>4. Types' /\ RelayOK' /\ WireOK'
  BY <1>3 DEF IInv, Types, RelayOK, WireOK
<1>5. MailOK'
  BY <1>1, <1>2, SoundTail DEF IInv, MailOK
<1>6. \A o \in Listeners : Verified(o)' <=> Verified(o)
  BY DEF Verified
<1>7. AbsentOK'
  BY <1>2, <1>6 DEF IInv, AbsentOK
<1>8. ASSUME NEW o \in Listeners, Verified(o), NEW f \in Friends
      PROVE  Story(o, f)'
  <2>1. Owed(o)' = Owed(o)
    BY DEF Owed
  <2>2. Story(o, f) /\ ViewOf(seat[o], f) \in View
    BY <1>8, ViewIs DEF IInv, StoriesOK
  <2>3. CASE o = p
    BY <1>1, <1>2, <2>1, <2>2, <2>3, LeadsTail DEF Story
  <2>4. CASE o # p
    BY <1>2, <2>1, <2>2, <2>4 DEF Story
  <2> QED
    BY <2>3, <2>4
<1> QED
  BY <1>4, <1>5, <1>6, <1>7, <1>8 DEF IInv, StoriesOK

LEMMA HeadIs ==
    ASSUME IInv, NEW p \in Listeners, out[p] # <<>>
    PROVE  Head(out[p]) \in Message /\ seat[p] \in Seat /\ p \in Friends \cup {Host}
  BY Constants DEF IInv, Types

LEMMA SeatRosterStep ==
    ASSUME IInv, NEW p \in Listeners, SeatRoster(p)
    PROVE  IInv'
<1> DEFINE m == Head(out[p])
           h == [f \in Friends |-> IF m.conns[f] # seat[p].roster[f] THEN 1 ELSE seat[p].heard[f]]
<1>1. /\ out[p] # <<>> /\ m.t = "roster"
      /\ out' = [out EXCEPT ![p] = Tail(@)] /\ UNCHANGED <<relay, wire, announced>>
  BY DEF SeatRoster, Receives
<1>2. m.conns \in Roster
  BY <1>1, HeadIs, MessageIs DEF RosterMessage
<1>3. h \in Roster
  BY <1>1, <1>2, HeadIs DEF Roster, Seat
<1> HIDE DEF h
<1>4. seat' = [seat EXCEPT ![p] = [seat[p] EXCEPT !.roster = m.conns, !.heard = h]]
  BY DEF SeatRoster, h, IInv, Types
<1>5. /\ seat' \in [Listeners -> Seat] /\ \A o \in Listeners \ {p} : seat'[o] = seat[o]
      /\ seat'[p].roster = m.conns /\ seat'[p].heard = h
  BY <1>1, <1>2, <1>3, <1>4, HeadIs DEF IInv, Types, Seat
<1>6. ASSUME NEW f \in Friends
      PROVE  ViewOf(seat'[p], f) = Reads(p, f, ViewOf(seat[p], f), m)
  BY <1>1, <1>5 DEF ViewOf, Reads, h
<1> QED
  BY <1>1, <1>5, <1>6, SeatReads

LEMMA SeatPlanStep ==
    ASSUME IInv, NEW p \in Listeners, SeatPlan(p)
    PROVE  IInv'
<1> DEFINE m == Head(out[p])
<1>1. /\ out[p] # <<>> /\ m.t = "plan"
      /\ out' = [out EXCEPT ![p] = Tail(@)] /\ UNCHANGED <<relay, wire, announced>>
  BY DEF SeatPlan, Receives
<1>2. m.serials \in Roster /\ m.conns \in Roster /\ m.id \in Nat
  BY <1>1, HeadIs, MessageIs DEF PlanMessage
<1>3. seat[p] \in Seat /\ p \in Friends \cup {Host}
  BY <1>1, HeadIs
<1>4. Raised(seat[p], m) \in Roster /\ Announced(seat[p], m) \in Roster
  BY <1>2, <1>3 DEF Raised, Announced, Roster, Seat
<1>5. PICK z \in Seat :
        /\ seat' = [seat EXCEPT ![p] = z] /\ z.roster = seat[p].roster
        /\ z.heard = IF Selected(p, m) THEN Announced(seat[p], m) ELSE Raised(seat[p], m)
  <2>1. CASE ~Selected(p, m)
    <3> DEFINE z == [seat[p] EXCEPT !.heard = Raised(seat[p], m)]
    <3>1. seat' = [seat EXCEPT ![p] = z]
      BY <2>1 DEF SeatPlan, Selected, IInv, Types
    <3>2. z \in Seat /\ z.roster = seat[p].roster /\ z.heard = Raised(seat[p], m)
      BY <1>3, <1>4 DEF Seat
    <3> QED
      BY <2>1, <3>1, <3>2
  <2>2. CASE p = Host
    <3> DEFINE z == [seat[p] EXCEPT !.heard = Announced(seat[p], m), !.plan = m.id]
    <3>1. seat' = [seat EXCEPT ![p] = z]
      BY <2>2 DEF SeatPlan, IInv, Types
    <3>2. z \in Seat /\ z.roster = seat[p].roster /\ z.heard = Announced(seat[p], m)
      BY <1>2, <1>3, <1>4 DEF Seat
    <3> QED
      BY <2>2, <3>1, <3>2 DEF Selected
  <2>3. CASE p # Host /\ Selected(p, m)
    <3> DEFINE z == [seat[p] EXCEPT !.heard = Announced(seat[p], m), !.plan = m.id,
                                    !.bound = m.serials[p], !.fenced = TRUE]
    <3>1. seat' = [seat EXCEPT ![p] = z]
      BY <2>3 DEF SeatPlan, Selected, IInv, Types
    <3>2. m.serials[p] \in Positive
      BY <1>2, <1>3, <2>3 DEF Roster, Selected, Positive
    <3>3. z \in Seat /\ z.roster = seat[p].roster /\ z.heard = Announced(seat[p], m)
      BY <1>2, <1>3, <1>4, <3>2 DEF Seat
    <3> QED
      BY <2>3, <3>1, <3>3
  <2> QED
    BY <2>1, <2>2, <2>3
<1>6. /\ seat' \in [Listeners -> Seat] /\ \A o \in Listeners \ {p} : seat'[o] = seat[o]
      /\ seat'[p] = z
  BY <1>5 DEF IInv, Types
<1>7. ASSUME NEW f \in Friends
      PROVE  ViewOf(seat'[p], f) = Reads(p, f, ViewOf(seat[p], f), m)
  <2>1. m.serials[f] \in Nat /\ seat[p].heard[f] \in Nat
    BY <1>2, <1>3 DEF Roster, Seat
  <2>2. z.heard[f] = Planned(p, f, ViewOf(seat[p], f), m)
    BY <1>5, <2>1 DEF Announced, Raised, Planned, ViewOf
  <2> QED
    BY <1>1, <1>5, <1>6, <2>2 DEF ViewOf, Reads
<1> QED
  BY <1>1, <1>6, <1>7, SeatReads

LEMMA SeatOtherStep ==
    ASSUME IInv, NEW p \in Listeners, SeatEnd(p) \/ SeatResult(p) \/ SeatEnvelope(p)
    PROVE  IInv'
<1> DEFINE m == Head(out[p])
<1>1. /\ out[p] # <<>> /\ m.t \in {"end", "result", "env"}
      /\ out' = [out EXCEPT ![p] = Tail(@)] /\ UNCHANGED <<relay, wire, announced>>
  BY DEF SeatEnd, SeatResult, SeatEnvelope, Receives
<1>2. seat[p] \in Seat /\ seat \in [Listeners -> Seat]
  BY <1>1, HeadIs DEF IInv, Types
<1>3. /\ seat' \in [Listeners -> Seat] /\ \A o \in Listeners \ {p} : seat'[o] = seat[o]
      /\ seat'[p].roster = seat[p].roster /\ seat'[p].heard = seat[p].heard
  <2>1. CASE SeatEnd(p)
    <3> DEFINE z == [seat[p] EXCEPT !.fenced = FALSE]
    <3>1. z \in Seat /\ z.roster = seat[p].roster /\ z.heard = seat[p].heard
      BY <1>2 DEF Seat
    <3>2. seat' = [seat EXCEPT ![p] = z] \/ seat' = seat
      BY <2>1 DEF SeatEnd
    <3> HIDE DEF z
    <3> QED
      BY <1>2, <3>1, <3>2
  <2>2. CASE SeatResult(p)
    <3> DEFINE b == seat[p].fenced \/ (p # Host /\ ~m.converged)
               z == [seat[p] EXCEPT !.plan = 0, !.fenced = b]
    <3>1. z \in Seat /\ z.roster = seat[p].roster /\ z.heard = seat[p].heard
      BY <1>2 DEF Seat
    <3>2. seat' = [seat EXCEPT ![p] = z] \/ seat' = seat
      BY <1>2, <2>2 DEF SeatResult
    <3> HIDE DEF z
    <3> QED
      BY <1>2, <3>1, <3>2
  <2>3. CASE SeatEnvelope(p)
    BY <1>2, <2>3 DEF SeatEnvelope
  <2> QED
    BY <2>1, <2>2, <2>3
<1>4. \A f \in Friends : ViewOf(seat'[p], f) = Reads(p, f, ViewOf(seat[p], f), m)
  BY <1>1, <1>3 DEF ViewOf, Reads
<1> QED
  BY <1>1, <1>3, <1>4, SeatReads

-----------------------------------------------------------------------------
(* The relay goes on.                                                       *)

\* The end of a transaction, for any reason, and the hand-out of a snapshot move fences only.
LEMMA QuietStep ==
    ASSUME IInv, UNCHANGED <<seat, wire, announced>>, relay' \in Relay,
           relay'.nextConn = relay.nextConn, relay'.lastId = relay.lastId,
           \A f \in Friends : /\ relay'.peers[f].conn = relay.peers[f].conn
                              /\ relay'.peers[f].serial = relay.peers[f].serial,
           NEW to, NEW m \in Message, m.t \in {"end", "result"}, out' = Tell(to, m)
    PROVE  IInv'
<1>1. Types'
  BY TellIs DEF IInv, Types
<1>2. RelayOK' /\ WireOK'
  BY DEF IInv, RelayOK, WireOK
<1>3. \A p \in Listeners : Verified(p)' <=> Verified(p)
  BY Constants DEF Verified
<1>4. AbsentOK'
  BY <1>3, TellIs DEF IInv, AbsentOK
<1>5. ASSUME NEW p \in Listeners
      PROVE  Sound(relay, out[p])'
  <2>1. Succeeds(relay, relay')
    BY DEF Succeeds, IInv, Types, Relay, Positive, Peer
  <2>2. Sound(relay, out[p]) /\ out[p] \in Seq(Message) /\ relay \in Relay
    BY DEF IInv, MailOK, Types
  <2>3. Sound(relay', out[p])
    BY <2>1, <2>2, SoundLater
  <2> QED
    BY <2>2, <2>3, SoundAppend, TellIs DEF IInv
<1>6. ASSUME NEW p \in Listeners, Verified(p), NEW f \in Friends
      PROVE  Story(p, f)'
  <2>1. Owed(p)' = Owed(p)
    BY Constants DEF Owed
  <2>2. Story(p, f) /\ ViewOf(seat[p], f) \in View /\ out[p] \in Seq(Message)
    BY <1>6, ViewIs DEF IInv, StoriesOK
  <2>3. out'[p] = Append(out[p], m) \/ out'[p] = out[p]
    BY TellOr
  <2> QED
    BY <2>1, <2>2, <2>3, LeadsEnding DEF Story
<1> QED
  BY <1>1, <1>2, <1>3, <1>4, <1>5, <1>6 DEF IInv, MailOK, StoriesOK

LEMMA HandOutStep ==
    ASSUME IInv, HandOut
    PROVE  IInv'
<1> DEFINE m == [t |-> "end", id |-> relay.lastId]
           peers == [f \in Friends |-> IF f \in Targets THEN [relay.peers[f] EXCEPT !.fenced = FALSE]
                                                        ELSE relay.peers[f]]
<1>1. relay \in Relay /\ \A f \in Friends : relay.peers[f] \in Peer
  BY DEF IInv, Types, Relay
<1>2. /\ peers \in [Friends -> Peer]
      /\ \A f \in Friends : peers[f].conn = relay.peers[f].conn /\ peers[f].serial = relay.peers[f].serial
  BY <1>1 DEF Peer
<1> HIDE DEF peers
<1>3. relay' = [relay EXCEPT !.handed = TRUE, !.peers = peers]
  BY <1>1 DEF HandOut, peers, Relay
<1>4. relay' \in Relay /\ relay'.nextConn = relay.nextConn /\ relay'.lastId = relay.lastId /\ relay'.peers = peers
  BY <1>1, <1>2, <1>3 DEF Relay
<1>5. m \in Message /\ m.t = "end"
  BY <1>1 DEF Message, Ending, Relay
<1>6. out' = Tell(Targets, m) /\ UNCHANGED <<seat, wire, announced>>
  BY DEF HandOut
<1> HIDE DEF m
<1> QED
  BY <1>2, <1>4, <1>5, <1>6, QuietStep

LEMMA FencedIs ==
    ASSUME IInv
    PROVE  /\ Fenced(relay.peers, relay.targets) \in [Friends -> Peer]
           /\ \A f \in Friends :
                /\ Fenced(relay.peers, relay.targets)[f].conn = relay.peers[f].conn
                /\ Fenced(relay.peers, relay.targets)[f].serial = relay.peers[f].serial
<1>1. \A f \in Friends : relay.peers[f] \in Peer
  BY DEF IInv, Types, Relay
<1> QED
  BY <1>1 DEF Fenced, Peer

LEMMA ResultIs ==
    ASSUME IInv, NEW b \in BOOLEAN
    PROVE  Result(b) \in Message /\ Result(b).t = "result"
  BY DEF IInv, Types, Relay, Result, Message, Ending

LEMMA ToldIs ==
    ASSUME IInv, NEW to
    PROVE  /\ Tell(to, Result(FALSE)) \in [Listeners -> Seq(Message)]
           /\ \A p \in Listeners : \/ Tell(to, Result(FALSE))[p] = out[p]
                                   \/ Tell(to, Result(FALSE))[p] = Append(out[p], Result(FALSE))
<1>1. Types /\ Result(FALSE) \in Message
  BY ResultIs DEF IInv
<1>2. Tell(to, Result(FALSE)) \in [Listeners -> Seq(Message)]
  BY <1>1, TellIs
<1> QED
  BY <1>2, TellOr

LEMMA NoTargetsIs == NoTargets \in Roster
  BY DEF NoTargets, Roster

LEMMA EndStep ==
    ASSUME IInv, NEW b \in BOOLEAN, End(b)
    PROVE  IInv'
<1> DEFINE peers == IF b THEN relay.peers ELSE Fenced(relay.peers, relay.targets)
<1>1. relay \in Relay /\ relay.peers \in [Friends -> Peer]
  BY DEF IInv, Types, Relay
<1>2. /\ peers \in [Friends -> Peer]
      /\ \A f \in Friends : peers[f].conn = relay.peers[f].conn /\ peers[f].serial = relay.peers[f].serial
  BY <1>1, FencedIs
<1> HIDE DEF peers
<1>3. relay' = [relay EXCEPT !.targets = NoTargets, !.handed = FALSE, !.peers = peers]
  BY <1>1 DEF End, peers, Relay
<1>4. relay' \in Relay /\ relay'.nextConn = relay.nextConn /\ relay'.lastId = relay.lastId /\ relay'.peers = peers
  BY <1>1, <1>2, <1>3, NoTargetsIs DEF Relay
<1>5. out' = Tell(Targets \cup {Host}, Result(b)) /\ UNCHANGED <<seat, wire, announced>>
  BY DEF End
<1> QED
  BY <1>2, <1>4, <1>5, QuietStep, ResultIs

-----------------------------------------------------------------------------
(* Who comes and goes, and what is sent.                                    *)

LEMMA SendStep ==
    ASSUME IInv, NEW f \in Speakers, Send(f)
    PROVE  IInv'
<1> DEFINE m == [t |-> "env", from |-> f, conn |-> seat[f].roster[f], serial |-> seat[f].bound]
<1>1. /\ relay.peers[f].conn # 0
      /\ wire' = [wire EXCEPT ![f] = Append(wire[f], m)] /\ UNCHANGED <<relay, seat, out, announced>>
  BY DEF Send
<1>2. f \in Friends /\ seat[f] \in Seat /\ wire[f] \in Seq(Envelope) /\ wire \in [Friends -> Seq(Envelope)]
  BY Constants DEF IInv, Types
<1>3. m \in Envelope /\ m.from = f
  BY <1>2 DEF Envelope, Seat, Roster
<1> HIDE DEF m
<1>4. Append(wire[f], m) \in Seq(Envelope) /\ Len(Append(wire[f], m)) = Len(wire[f]) + 1
  BY <1>2, <1>3
<1>5. \A i \in 1..Len(Append(wire[f], m)) : Append(wire[f], m)[i].from = f
  <2> SUFFICES ASSUME NEW i \in 1..Len(Append(wire[f], m)) PROVE Append(wire[f], m)[i].from = f
    OBVIOUS
  <2>1. CASE i = Len(wire[f]) + 1
    BY <1>2, <1>3, <2>1
  <2>2. CASE i # Len(wire[f]) + 1
    <3>1. i \in 1..Len(wire[f]) /\ Append(wire[f], m)[i] = wire[f][i]
      BY <1>2, <1>4, <2>2
    <3> QED
      BY <1>2, <3>1 DEF IInv, WireOK
  <2> QED
    BY <2>1, <2>2
<1>6. /\ wire' \in [Friends -> Seq(Envelope)] /\ wire'[f] = Append(wire[f], m)
      /\ \A g \in Friends \ {f} : wire'[g] = wire[g]
  BY <1>1, <1>2, <1>4
<1>7. Types' /\ WireOK'
  BY <1>1, <1>5, <1>6 DEF IInv, Types, WireOK
<1>8. RelayOK' /\ MailOK' /\ AbsentOK'
  BY <1>1 DEF IInv, RelayOK, MailOK, AbsentOK, Verified
<1>9. ASSUME NEW p \in Listeners, NEW g \in Friends
      PROVE  (Verified(p) <=> Verified(p)') /\ (Story(p, g) <=> Story(p, g)')
  BY <1>1 DEF Story, Owed, Verified
<1> QED
  BY <1>7, <1>8, <1>9 DEF IInv, StoriesOK

\* A friend's envelope bears what the relay has for it, and what is owed is what the listener has.
LEMMA ForwardStep ==
    ASSUME IInv, NEW f \in Speakers, Forward(f)
    PROVE  IInv'
<1> DEFINE m == Head(wire[f])
           to == {p \in Listeners \ {f} : p = Host \/ ~relay.peers[p].fenced}
<1>1. /\ wire[f] # <<>> /\ wire' = [wire EXCEPT ![f] = Tail(wire[f])] /\ UNCHANGED <<relay, seat, announced>>
      /\ out' = IF Admitted(f, m) THEN Tell(to, m) ELSE out
  BY DEF Forward
<1> HIDE DEF to
<1>2. f \in Friends /\ wire[f] \in Seq(Envelope) /\ wire \in [Friends -> Seq(Envelope)]
  BY Constants DEF IInv, Types
<1>3. /\ m \in Envelope /\ m.t = "env" /\ m.from = f /\ Tail(wire[f]) \in Seq(Envelope)
      /\ \A i \in 1..Len(Tail(wire[f])) : Tail(wire[f])[i].from = f
  <2>1. m = wire[f][1] /\ 1 \in 1..Len(wire[f]) /\ m \in Envelope /\ Tail(wire[f]) \in Seq(Envelope)
    BY <1>1, <1>2
  <2>2. \A i \in 1..Len(Tail(wire[f])) : i + 1 \in 1..Len(wire[f]) /\ Tail(wire[f])[i] = wire[f][i + 1]
    BY <1>1, <1>2
  <2> QED
    BY <1>2, <2>1, <2>2 DEF IInv, WireOK, Envelope
<1> HIDE DEF m
<1>4. m \in Message
  BY <1>3 DEF Message
<1>5. /\ wire' \in [Friends -> Seq(Envelope)] /\ wire'[f] = Tail(wire[f])
      /\ \A g \in Friends \ {f} : wire'[g] = wire[g]
  BY <1>1, <1>2, <1>3
<1>6. WireOK' /\ RelayOK'
  BY <1>1, <1>3, <1>5 DEF IInv, WireOK, RelayOK
<1>7. Types'
  BY <1>1, <1>4, <1>5, TellIs DEF IInv, Types
<1>8. \A p \in Listeners : Verified(p)' <=> Verified(p)
  BY <1>1 DEF Verified
<1>9. AbsentOK'
  BY <1>1, <1>4, <1>8, TellIs DEF IInv, AbsentOK
<1>10. Admitted(f, m) => Behind(relay, m)
  <2>1. relay.peers[f].conn # 0 /\ relay.peers[f] \in Peer
    BY <1>1, <1>2 DEF IInv, WireOK, Types, Relay
  <2> QED
    BY <1>2, <2>1 DEF Admitted, Behind, IInv, RelayOK, Peer, Positive
<1>11. MailOK'
  <2> SUFFICES ASSUME NEW p \in Listeners PROVE Sound(relay, out'[p])
    BY <1>1 DEF MailOK
  <2>1. Sound(relay, out[p]) /\ out[p] \in Seq(Message)
    BY DEF IInv, MailOK, Types
  <2> QED
    BY <1>1, <1>4, <1>10, <2>1, SoundAppend, TellIs DEF IInv
<1>12. ASSUME NEW p \in Listeners, Verified(p), NEW g \in Friends
       PROVE  Story(p, g)'
  <2>1. Owed(p)' = Owed(p)
    BY <1>1 DEF Owed
  <2>2. Story(p, g) /\ ViewOf(seat[p], g) \in View /\ out[p] \in Seq(Message)
    BY <1>12, ViewIs DEF IInv, StoriesOK
  <2>3. CASE out'[p] = out[p]
    BY <1>1, <2>1, <2>2, <2>3 DEF Story
  <2>4. CASE Admitted(f, m) /\ out'[p] = Append(out[p], m)
    <3>1. m.from = g => m.conn = relay.peers[g].conn /\ m.serial = relay.peers[g].serial
      BY <1>3, <2>4 DEF Admitted
    <3> QED
      BY <1>1, <1>3, <1>4, <2>1, <2>2, <2>4, <3>1, LeadsEnvelope DEF Story
  <2> QED
    BY <1>1, <1>4, <2>3, <2>4, TellIs DEF IInv
<1> QED
  BY <1>6, <1>7, <1>8, <1>9, <1>11, <1>12 DEF IInv, StoriesOK

LEMMA ConnsIs ==
    ASSUME NEW peers \in [Friends -> Peer]
    PROVE  /\ [t |-> "roster", conns |-> Conns(peers)] \in Message
           /\ Conns(peers) \in Roster
           /\ \A f \in Friends : Conns(peers)[f] = peers[f].conn
<1>1. Conns(peers) \in Roster /\ \A f \in Friends : Conns(peers)[f] = peers[f].conn
  BY DEF Conns, Roster, Peer
<1> QED
  BY <1>1 DEF Message, RosterMessage

\* The newcomer reads the roster as it is, and was told of no serial yet.
LEMMA NewcomerStory ==
    ASSUME NEW p, NEW f \in Friends, NEW c \in Nat, NEW s \in Positive, NEW owed,
           NEW m \in Message, m.t = "roster", m.conns[f] = c,
           <<c, s>> \in owed => s = 1
    PROVE  Leads(p, f, c, s, owed, [conn |-> 0, serial |-> 1], <<m>>)
<1> DEFINE v == [conn |-> 0, serial |-> 1]
           z == Reads(p, f, v, m)
<1>1. v \in View /\ z \in View /\ z = [conn |-> c, serial |-> 1]
  <2>1. v \in View
    BY DEF View
  <2> QED
    BY <2>1, ReadsView DEF Reads
<1>2. Fits(f, owed, v, m)
  BY DEF Fits
<1>3. <<m>> = Append(<<>>, m) /\ <<>> \in Seq(Message)
  OBVIOUS
<1>4. Tracks(p, f, owed, v, <<m>>, z)
  BY <1>1, <1>2, <1>3, TrackEmpty, TrackAppend
<1>5. EndsAt(z, c, s, owed)
  BY <1>1 DEF EndsAt, Positive
<1> QED
  BY <1>1, <1>4, <1>5 DEF Leads

LEMMA JoinStep ==
    ASSUME IInv, NEW g \in Friends, Join(g)
    PROVE  IInv'
<1> DEFINE q == [NoPeer EXCEPT !.conn = relay.nextConn]
           peers == [relay.peers EXCEPT ![g] = q]
           m == [t |-> "roster", conns |-> Conns(peers)]
<1>1. /\ relay \in Relay /\ relay.peers \in [Friends -> Peer] /\ relay.nextConn \in Positive /\ relay.lastId \in Nat
      /\ \A f \in Friends : relay.peers[f].conn \in Nat /\ relay.peers[f].serial \in Positive
  BY DEF IInv, Types, Relay, Peer
<1> HIDE DEF m, peers
<1>2. q \in Peer /\ q.conn = relay.nextConn /\ q.serial = 1
  <2>1. NoPeer \in Peer /\ NoPeer.serial = 1 /\ relay.nextConn \in Nat
    BY <1>1 DEF NoPeer, Peer, Positive
  <2> QED
    BY <2>1 DEF Peer
<1> USE DEF m, peers
<1>3. /\ peers \in [Friends -> Peer] /\ peers[g].conn = relay.nextConn /\ peers[g].serial = 1
      /\ \A f \in Friends \ {g} : peers[f] = relay.peers[f]
  BY <1>1, <1>2
<1>4. /\ relay.peers[g].conn = 0 /\ relay.nextConn <= MaxConns
      /\ relay' = [relay EXCEPT !.peers = peers, !.nextConn = relay.nextConn + 1]
      /\ out' = [p \in Listeners |-> IF p = g THEN <<m>> ELSE Tell(Listeners, m)[p]]
      /\ UNCHANGED <<seat, wire, announced>>
  BY <1>1, <1>2 DEF Join, q
<1> HIDE DEF peers, q
<1>5. /\ m \in Message /\ m.t = "roster" /\ \A f \in Friends : m.conns[f] = peers[f].conn
  BY <1>3, ConnsIs
<1> HIDE DEF m
<1>6. /\ relay' \in Relay /\ relay'.peers = peers /\ relay'.nextConn = relay.nextConn + 1
      /\ relay'.lastId = relay.lastId
  <2>1. relay.nextConn + 1 \in Positive
    BY <1>1 DEF Positive
  <2> QED
    BY <1>1, <1>3, <1>4, <2>1 DEF Relay
<1>7. /\ out' \in [Listeners -> Seq(Message)]
      /\ \A p \in Listeners : out'[p] = IF p = g THEN <<m>>
                                        ELSE IF Verified(p) THEN Append(out[p], m) ELSE out[p]
  <2>1. <<m>> \in Seq(Message)
    BY <1>5
  <2>2. /\ Tell(Listeners, m) \in [Listeners -> Seq(Message)]
        /\ \A p \in Listeners : Tell(Listeners, m)[p] = IF Verified(p) THEN Append(out[p], m) ELSE out[p]
    BY <1>5, TellIs DEF IInv
  <2> QED
    BY <1>4, <2>1, <2>2
<1>8. Types'
  BY <1>4, <1>6, <1>7 DEF IInv, Types
<1>9. RelayOK'
  <2>1. \A f \in Friends :
          LET z == peers[f]
          IN  z.conn < relay.nextConn + 1 /\ z.serial <= relay.lastId + 1 /\ (z.conn = 0 => z.serial = 1)
    BY <1>1, <1>3 DEF IInv, RelayOK, Positive
  <2>2. \A f \in Friends \ {g} : peers[f].conn < relay.nextConn
    BY <1>3 DEF IInv, RelayOK
  <2>3. \A f, h \in Friends : peers[f].conn = peers[h].conn /\ peers[f].conn # 0 => f = h
    BY <1>1, <1>3, <2>2 DEF IInv, RelayOK, Positive
  <2>4. \A c \in 1..MaxConns : \A s \in 2..MaxPlans + 1 : announced'[c][s] <= relay.nextConn + 1
    BY <1>1, <1>4, Constants DEF IInv, RelayOK, Types, Positive
  <2> QED
    BY <1>1, <1>4, <1>6, <2>1, <2>3, <2>4, Constants DEF IInv, RelayOK, Positive
<1>10. WireOK'
  BY <1>1, <1>3, <1>4, <1>6 DEF IInv, WireOK, Positive
<1>11. \A p \in Listeners \ {g} : Verified(p)' <=> Verified(p)
  BY <1>3, <1>6, Constants DEF Verified
<1>12. AbsentOK'
  <2>1. Verified(g)'
    BY <1>1, <1>3, <1>6 DEF Verified, Positive
  <2> QED
    BY <1>4, <1>7, <1>11, <2>1 DEF IInv, AbsentOK
<1>13. ASSUME NEW p \in Listeners
       PROVE  Sound(relay, out[p])'
  <2>1. Succeeds(relay, relay')
    BY <1>1, <1>3, <1>6 DEF Succeeds, Positive
  <2>2. out[p] \in Seq(Message) /\ Sound(relay', out[p])
    BY <1>1, <1>6, <2>1, SoundLater DEF IInv, MailOK, Types
  <2>3. Sound(relay', <<m>>)
    BY <1>5 DEF Sound
  <2> QED
    BY <1>5, <1>7, <2>2, <2>3, SoundAppend
<1>14. ASSUME NEW p \in Listeners, Verified(p)', NEW f \in Friends
       PROVE  Story(p, f)'
  <2> DEFINE c == relay.peers[f].conn
             s == relay.peers[f].serial
             d == peers[f].conn
             r == peers[f].serial
  <2>0. c \in Nat /\ s \in Positive /\ d \in Nat /\ r \in Positive
    BY <1>1, <1>3 DEF Peer
  <2>1. CASE p = g
    <3>1. ~Verified(g)
      BY <1>4, Constants DEF Verified
    <3>2. ViewOf(seat[p], f) = [conn |-> 0, serial |-> 1]
      BY <2>1, <3>1, NewSeatIs DEF IInv, AbsentOK
    <3>3. <<d, r>> \in Owed(p)' => r = 1
      <4> SUFFICES ASSUME <<d, r>> \in Owed(p)', r # 1 PROVE FALSE
        OBVIOUS
      <4>1. f # g /\ d = c /\ r = s /\ c # 0
        BY <1>3 DEF IInv, RelayOK
      <4>2. d \in 1..MaxConns /\ r \in 2..MaxPlans + 1
        BY <1>1, <1>4, <2>0, <4>1, Constants DEF IInv, RelayOK, Positive
      <4>3. announced[d][r] <= relay.nextConn /\ announced[d][r] \in Nat
        BY <4>2 DEF IInv, RelayOK, Types
      <4>4. relay'.peers[p].conn < announced[d][r]
        BY <1>4, <2>1, Constants DEF Owed
      <4> QED
        BY <1>1, <1>3, <1>6, <2>1, <4>3, <4>4 DEF Positive
    <3> QED
      BY <1>4, <1>5, <1>6, <1>7, <2>0, <2>1, <3>2, <3>3, NewcomerStory DEF Story
  <2>2. CASE p # g
    <3>1. Verified(p) /\ out'[p] = Append(out[p], m)
      BY <1>7, <1>11, <1>14, <2>2
    <3>2. Story(p, f) /\ ViewOf(seat[p], f) \in View /\ out[p] \in Seq(Message)
      BY <3>1, ViewIs DEF IInv, StoriesOK
    <3>3. Owed(p)' = Owed(p)
      BY <1>3, <1>4, <1>6, <2>2, Constants DEF Owed
    <3>4. (d = c => r = s) /\ (d # c => r = 1)
      BY <1>1, <1>3, <1>4 DEF Positive
    <3>5. Leads(p, f, d, r, Owed(p), ViewOf(seat[p], f), Append(out[p], m))
      <4>1. Leads(p, f, c, s, Owed(p), ViewOf(seat[p], f), out[p])
        BY <3>2 DEF Story
      <4>2. m.conns[f] = d
        BY <1>5
      <4> HIDE DEF c, s, d, r
      <4> QED
        BY <1>5, <2>0, <3>2, <3>4, <4>1, <4>2, LeadsRoster
    <3> QED
      BY <1>4, <1>6, <3>1, <3>3, <3>5 DEF Story
  <2> QED
    BY <2>1, <2>2
<1> QED
  BY <1>8, <1>9, <1>10, <1>12, <1>13, <1>14 DEF IInv, MailOK, StoriesOK

\* A target that leaves fails the transaction first; the others hear of both in that order.
LEMMA LeaveStep ==
    ASSUME IInv, NEW g \in Friends, Leave(g)
    PROVE  IInv'
<1> DEFINE ends == relay.targets[g] # 0
           kept == IF ends THEN Fenced(relay.peers, relay.targets) ELSE relay.peers
           peers == [kept EXCEPT ![g] = NoPeer]
           told == IF ends THEN Tell(Targets \cup {Host}, Result(FALSE)) ELSE out
           m == [t |-> "roster", conns |-> Conns(peers)]
           targets == IF ends THEN NoTargets ELSE relay.targets
           handed == IF ends THEN FALSE ELSE relay.handed
<1>1. /\ relay \in Relay /\ relay.peers \in [Friends -> Peer] /\ relay.nextConn \in Positive /\ relay.lastId \in Nat
      /\ relay.targets \in Roster /\ relay.handed \in BOOLEAN
      /\ \A f \in Friends : relay.peers[f].conn \in Nat /\ relay.peers[f].serial \in Positive
  BY DEF IInv, Types, Relay, Peer
<1>2. NoPeer \in Peer /\ NoPeer.conn = 0 /\ NoPeer.serial = 1
  BY DEF NoPeer, Peer, Positive
<1>3. /\ kept \in [Friends -> Peer]
      /\ \A f \in Friends : kept[f].conn = relay.peers[f].conn /\ kept[f].serial = relay.peers[f].serial
  BY <1>1, FencedIs
<1>4. /\ relay.peers[g].conn # 0
      /\ relay' = [relay EXCEPT !.peers = peers, !.targets = targets, !.handed = handed]
      /\ out' = [p \in Listeners |-> IF p = g THEN <<>> ELSE IF Verified(p) THEN Append(told[p], m) ELSE <<>>]
      /\ seat' = [seat EXCEPT ![g] = NewSeat] /\ wire' = [wire EXCEPT ![g] = <<>>]
      /\ UNCHANGED announced
  BY <1>1 DEF Leave, Relay
<1>5. /\ told \in [Listeners -> Seq(Message)]
      /\ \A p \in Listeners : told[p] = out[p] \/ told[p] = Append(out[p], Result(FALSE))
  BY ToldIs DEF IInv, Types
<1>6. targets \in Roster /\ handed \in BOOLEAN
  BY <1>1, NoTargetsIs
<1> HIDE DEF kept, told, targets, handed
<1>7. /\ peers \in [Friends -> Peer] /\ peers[g].conn = 0 /\ peers[g].serial = 1
      /\ \A f \in Friends \ {g} : peers[f].conn = relay.peers[f].conn /\ peers[f].serial = relay.peers[f].serial
  BY <1>2, <1>3
<1> HIDE DEF peers
<1>8. /\ m \in Message /\ m.t = "roster" /\ \A f \in Friends : m.conns[f] = peers[f].conn
  BY <1>7, ConnsIs
<1> HIDE DEF m
<1>9. /\ relay' \in Relay /\ relay'.peers = peers /\ relay'.nextConn = relay.nextConn
      /\ relay'.lastId = relay.lastId
  BY <1>1, <1>4, <1>6, <1>7 DEF Relay
<1>10. /\ out' \in [Listeners -> Seq(Message)]
       /\ \A p \in Listeners : out'[p] = IF p # g /\ Verified(p) THEN Append(told[p], m) ELSE <<>>
  BY <1>4, <1>5, <1>8
<1>11. /\ seat' \in [Listeners -> Seat] /\ \A p \in Listeners : seat'[p] = IF p = g THEN NewSeat ELSE seat[p]
  BY <1>4, NewSeatIs DEF IInv, Types
<1>12. /\ wire' \in [Friends -> Seq(Envelope)]
       /\ \A f \in Friends : wire'[f] = IF f = g THEN <<>> ELSE wire[f]
  BY <1>4 DEF IInv, Types
<1>13. Types'
  BY <1>4, <1>9, <1>10, <1>11, <1>12 DEF IInv, Types
<1>14. RelayOK'
  <2>1. \A f \in Friends :
          LET z == peers[f]
          IN  z.conn < relay.nextConn /\ z.serial <= relay.lastId + 1 /\ (z.conn = 0 => z.serial = 1)
    BY <1>1, <1>7 DEF IInv, RelayOK, Positive
  <2>2. \A f, h \in Friends : peers[f].conn = peers[h].conn /\ peers[f].conn # 0 => f = h
    BY <1>7 DEF IInv, RelayOK
  <2> QED
    BY <1>4, <1>9, <2>1, <2>2 DEF IInv, RelayOK
<1>15. WireOK'
  BY <1>7, <1>9, <1>12 DEF IInv, WireOK
<1>16. ASSUME NEW p \in Listeners
       PROVE  Verified(p)' <=> p # g /\ Verified(p)
  BY <1>7, <1>9, Constants DEF Verified
<1>17. AbsentOK'
  BY <1>10, <1>11, <1>16 DEF IInv, AbsentOK
<1>18. ASSUME NEW p \in Listeners
       PROVE  Sound(relay, out[p])'
  <2>1. Succeeds(relay, relay')
    BY <1>1, <1>7, <1>9 DEF Succeeds, Positive
  <2>2. out[p] \in Seq(Message) /\ Sound(relay', out[p])
    BY <1>1, <1>9, <2>1, SoundLater DEF IInv, MailOK, Types
  <2>3. told[p] \in Seq(Message) /\ Sound(relay', told[p])
    BY <1>5, <2>2, SoundAppend, ResultIs
  <2>4. Sound(relay', <<>>)
    BY DEF Sound
  <2> QED
    BY <1>8, <1>10, <2>3, <2>4, SoundAppend
<1>19. ASSUME NEW p \in Listeners, Verified(p)', NEW f \in Friends
       PROVE  Story(p, f)'
  <2> DEFINE c == relay.peers[f].conn
             s == relay.peers[f].serial
             d == peers[f].conn
             r == peers[f].serial
             v == ViewOf(seat[p], f)
  <2>1. c \in Nat /\ s \in Positive /\ d \in Nat /\ r \in Positive
    BY <1>1, <1>7 DEF Peer
  <2>2. p # g /\ Verified(p) /\ out'[p] = Append(told[p], m) /\ seat'[p] = seat[p]
    BY <1>10, <1>11, <1>16, <1>19
  <2>3. Story(p, f) /\ v \in View /\ out[p] \in Seq(Message)
    BY <2>2, ViewIs DEF IInv, StoriesOK
  <2>4. Leads(p, f, c, s, Owed(p), v, out[p])
    BY <2>3 DEF Story
  <2>5. (d = c => r = s) /\ (d # c => r = 1)
    BY <1>4, <1>7
  <2>6. m.conns[f] = d
    BY <1>8
  <2>7. Owed(p)' = Owed(p)
    BY <1>4, <1>7, <1>9, <2>2, Constants DEF Owed
  <2> HIDE DEF c, s, d, r, v
  <2>8. told[p] \in Seq(Message) /\ Leads(p, f, c, s, Owed(p), v, told[p])
    BY <1>5, <2>3, <2>4, LeadsEnding, ResultIs
  <2>9. Leads(p, f, d, r, Owed(p), v, Append(told[p], m))
    BY <1>8, <2>1, <2>3, <2>5, <2>6, <2>8, LeadsRoster
  <2> QED
    BY <1>9, <2>2, <2>7, <2>9 DEF Story, d, r, v
<1> QED
  BY <1>13, <1>14, <1>15, <1>17, <1>18, <1>19 DEF IInv, MailOK, StoriesOK

\* Everyone hears of a new serial, and no envelope bears it yet.
LEMMA StartStep ==
    ASSUME IInv, NEW mask \in SUBSET Friends, Start(mask)
    PROVE  IInv'
<1> DEFINE targets == [f \in Friends |-> IF f \in mask THEN relay.peers[f].serial + 1 ELSE 0]
           peers == [f \in Friends |-> IF f \in mask
                       THEN [relay.peers[f] EXCEPT !.serial = @ + 1, !.fenced = TRUE]
                       ELSE relay.peers[f]]
           m == Plan(targets, relay.lastId + 1)
<1>1. /\ relay \in Relay /\ relay.peers \in [Friends -> Peer] /\ relay.nextConn \in Positive /\ relay.lastId \in Nat
      /\ \A f \in Friends : /\ relay.peers[f] \in Peer /\ relay.peers[f].conn \in Nat
                            /\ relay.peers[f].serial \in Positive
  BY DEF IInv, Types, Relay, Peer
<1>2. /\ relay.lastId < MaxPlans /\ \A f \in mask : relay.peers[f].conn # 0
      /\ relay' = [relay EXCEPT !.peers = peers, !.targets = targets, !.handed = FALSE, !.lastId = relay.lastId + 1]
      /\ announced' = [c \in DOMAIN announced |-> [s \in DOMAIN announced[c] |->
                          IF \E f \in mask : relay.peers[f].conn = c /\ targets[f] = s
                          THEN relay.nextConn ELSE announced[c][s]]]
      /\ out' = Tell(Listeners, m) /\ UNCHANGED <<seat, wire>>
  BY <1>1 DEF Start, Relay
<1>3. targets \in Roster /\ \A f \in Friends : targets[f] = IF f \in mask THEN relay.peers[f].serial + 1 ELSE 0
  BY <1>1 DEF Roster, Positive
<1>4. /\ peers \in [Friends -> Peer]
      /\ \A f \in Friends : /\ peers[f].conn = relay.peers[f].conn
                            /\ peers[f].serial = IF f \in mask THEN relay.peers[f].serial + 1
                                                               ELSE relay.peers[f].serial
  <2> HIDE DEF m, targets
  <2>1. ASSUME NEW f \in Friends, f \in mask
        PROVE  /\ [relay.peers[f] EXCEPT !.serial = @ + 1, !.fenced = TRUE] \in Peer
               /\ [relay.peers[f] EXCEPT !.serial = @ + 1, !.fenced = TRUE].conn = relay.peers[f].conn
               /\ [relay.peers[f] EXCEPT !.serial = @ + 1, !.fenced = TRUE].serial = relay.peers[f].serial + 1
    <3>1. relay.peers[f].serial + 1 \in Positive
      BY <1>1 DEF Positive
    <3> QED
      BY <1>1, <3>1 DEF Peer
  <2> QED
    BY <1>1, <2>1
<1> HIDE DEF peers, targets
<1>5. /\ m \in Message /\ m.t = "plan" /\ m.serials = targets
      /\ \A f \in Friends : m.conns[f] = relay.peers[f].conn
  <2>1. Conns(relay.peers) \in Roster /\ \A f \in Friends : Conns(relay.peers)[f] = relay.peers[f].conn
    BY <1>1, ConnsIs
  <2>2. m = [t |-> "plan", id |-> relay.lastId + 1, serials |-> targets, conns |-> Conns(relay.peers)]
    BY DEF Plan
  <2>3. m \in PlanMessage
    BY <1>1, <1>3, <2>1, <2>2 DEF PlanMessage
  <2> QED
    BY <2>1, <2>2, <2>3 DEF Message
<1> HIDE DEF m
<1>6. /\ relay' \in Relay /\ relay'.peers = peers /\ relay'.nextConn = relay.nextConn
      /\ relay'.lastId = relay.lastId + 1
  <2>1. relay.lastId + 1 \in Nat
    BY <1>1
  <2> QED
    BY <1>1, <1>2, <1>3, <1>4, <2>1 DEF Relay
<1>7. /\ announced' \in [1..MaxConns -> [2..MaxPlans + 1 -> Nat]]
      /\ \A c \in 1..MaxConns : \A s \in 2..MaxPlans + 1 :
           announced'[c][s] = IF \E f \in mask : relay.peers[f].conn = c /\ targets[f] = s
                              THEN relay.nextConn ELSE announced[c][s]
  BY <1>1, <1>2 DEF IInv, Types, Positive
<1>8. /\ out' \in [Listeners -> Seq(Message)]
      /\ \A p \in Listeners : out'[p] = IF Verified(p) THEN Append(out[p], m) ELSE out[p]
  BY <1>2, <1>5, TellIs DEF IInv
<1>9. Types' /\ WireOK'
  <2>1. Types'
    BY <1>2, <1>6, <1>7, <1>8 DEF IInv, Types
  <2>2. WireOK'
    BY <1>2, <1>4, <1>6 DEF IInv, WireOK
  <2> QED
    BY <2>1, <2>2
<1>10. RelayOK'
  <2>1. \A f \in Friends :
          LET z == peers[f]
          IN  z.conn < relay.nextConn /\ z.serial <= (relay.lastId + 1) + 1 /\ (z.conn = 0 => z.serial = 1)
    BY <1>1, <1>2, <1>4 DEF IInv, RelayOK, Positive
  <2>2. \A f, h \in Friends : peers[f].conn = peers[h].conn /\ peers[f].conn # 0 => f = h
    BY <1>4 DEF IInv, RelayOK
  <2>3. relay.lastId + 1 <= MaxPlans
    BY <1>1, <1>2, Constants
  <2>4. \A c \in 1..MaxConns : \A s \in 2..MaxPlans + 1 : announced'[c][s] <= relay.nextConn
    BY <1>1, <1>7 DEF IInv, RelayOK, Positive
  <2> QED
    BY <1>6, <2>1, <2>2, <2>3, <2>4 DEF IInv, RelayOK
<1>11. \A p \in Listeners : Verified(p)' <=> Verified(p)
  BY <1>4, <1>6, Constants DEF Verified
<1>12. AbsentOK'
  BY <1>2, <1>8, <1>11 DEF IInv, AbsentOK
<1>13. ASSUME NEW p \in Listeners
       PROVE  Sound(relay, out[p])'
  <2>1. Succeeds(relay, relay')
    BY <1>1, <1>4, <1>6 DEF Succeeds, Positive
  <2>2. out[p] \in Seq(Message) /\ Sound(relay', out[p])
    BY <1>1, <1>6, <2>1, SoundLater DEF IInv, MailOK, Types
  <2> QED
    BY <1>5, <1>8, <2>2, SoundAppend
<1>14. ASSUME NEW p \in Listeners, NEW c \in Nat, NEW s \in Positive, 0 < c, c < relay.nextConn, s <= relay.lastId + 1,
              \A f \in mask : relay.peers[f].conn = c => s <= relay.peers[f].serial,
              <<c, s>> \in Owed(p)'
       PROVE  <<c, s>> \in Owed(p)
  <2>1. CASE p = Host \/ s = 1
    BY <2>1 DEF Owed, Positive
  <2>2. CASE p # Host /\ s # 1
    <3>1. peers[p].conn < announced'[c][s]
      BY <1>6, <1>14, <2>2 DEF Owed
    <3>2. c \in 1..MaxConns /\ s \in 2..MaxPlans + 1
      BY <1>1, <1>2, <1>14, <2>2, Constants DEF IInv, RelayOK, Positive
    <3>3. \A f \in mask : ~(relay.peers[f].conn = c /\ targets[f] = s)
      BY <1>1, <1>3, <1>14 DEF Positive
    <3>4. announced'[c][s] = announced[c][s]
      BY <1>7, <3>2, <3>3
    <3> QED
      BY <1>4, <2>2, <3>1, <3>4, Constants DEF Owed, Positive
  <2> QED
    BY <2>1, <2>2
<1>15. ASSUME NEW p \in Listeners, Verified(p), NEW f \in Friends
       PROVE  Story(p, f)'
  <2> DEFINE c == relay.peers[f].conn
             s == relay.peers[f].serial
             r == peers[f].serial
             v == ViewOf(seat[p], f)
             less == Owed(p)'
  <2>1. c \in Nat /\ s \in Positive /\ r \in Positive
    BY <1>1, <1>4 DEF Peer
  <2>2. /\ Leads(p, f, c, s, Owed(p), v, out[p]) /\ v \in View /\ out[p] \in Seq(Message)
    BY <1>15, ViewIs DEF IInv, StoriesOK, Story
  <2>3. m.conns[f] = c
    BY <1>5
  <2>4. m.serials[f] = 0 => r = s /\ (<<c, s>> \in less => <<c, s>> \in Owed(p))
    <3> SUFFICES ASSUME m.serials[f] = 0, <<c, s>> \in less PROVE r = s /\ <<c, s>> \in Owed(p)
      BY <1>1, <1>3, <1>4, <1>5 DEF Positive
    <3>1. f \notin mask /\ r = s
      BY <1>1, <1>3, <1>4, <1>5 DEF Positive
    <3>2. CASE c = 0
      <4>1. s = 1
        BY <3>2 DEF IInv, RelayOK
      <4> HIDE DEF c, s
      <4> QED
        BY <2>1, <3>1, <4>1 DEF Owed
    <3>3. CASE c # 0
      <4>1. c < relay.nextConn /\ s <= relay.lastId + 1 /\ \A g \in mask : relay.peers[g].conn # c
        BY <3>1, <3>3 DEF IInv, RelayOK
      <4> QED
        BY <1>14, <2>1, <3>1, <3>3, <4>1
    <3> QED
      BY <3>2, <3>3
  <2>5. m.serials[f] # 0 => m.serials[f] = s + 1 /\ r = s + 1
    BY <1>3, <1>4, <1>5
  <2>6. ASSUME NEW i \in 1..Len(out[p]), out[p][i].t = "env", <<out[p][i].conn, out[p][i].serial>> \in less
        PROVE  <<out[p][i].conn, out[p][i].serial>> \in Owed(p)
    <3> DEFINE e == out[p][i]
    <3>1. e \in Envelope /\ e.conn \in Nat /\ e.serial \in Positive
      BY <2>2, <2>6, MessageIs DEF Envelope
    <3>2. Behind(relay, e)
      BY <2>6 DEF IInv, MailOK, Sound
    <3> HIDE DEF e, less
    <3>3. \A g \in mask : relay.peers[g].conn = e.conn => e.serial <= relay.peers[g].serial
      BY <3>2 DEF Behind
    <3>4. <<e.conn, e.serial>> \in less
      BY <2>6 DEF e
    <3> QED
      BY <1>14, <3>1, <3>2, <3>3, <3>4 DEF Behind, e, less
  <2> HIDE DEF c, s, r, v, less
  <2>7. Leads(p, f, c, r, less, v, Append(out[p], m))
    BY <1>5, <2>1, <2>2, <2>3, <2>4, <2>5, <2>6, LeadsPlan
  <2> QED
    BY <1>2, <1>4, <1>6, <1>8, <1>15, <2>7 DEF Story, c, r, v, less
<1> QED
  BY <1>9, <1>10, <1>11, <1>12, <1>13, <1>15 DEF IInv, MailOK, StoriesOK

-----------------------------------------------------------------------------
LEMMA NextIInv == IInv /\ [Next]_vars => IInv'
<1> SUFFICES ASSUME IInv, [Next]_vars PROVE IInv'
  OBVIOUS
<1>1. ASSUME NEW mask \in SUBSET Friends, Start(mask) PROVE IInv'
  BY <1>1, StartStep
<1>2. ASSUME HandOut PROVE IInv'
  BY <1>2, HandOutStep
<1>3. ASSUME NEW b \in BOOLEAN, End(b) PROVE IInv'
  BY <1>3, EndStep
<1>4. ASSUME NEW f \in Friends, Join(f) \/ Leave(f) PROVE IInv'
  BY <1>4, JoinStep, LeaveStep
<1>5. ASSUME NEW f \in Speakers, Forward(f) \/ Send(f) PROVE IInv'
  BY <1>5, ForwardStep, SendStep
<1>6. ASSUME NEW p \in Listeners,
             SeatRoster(p) \/ SeatPlan(p) \/ SeatEnd(p) \/ SeatResult(p) \/ SeatEnvelope(p)
      PROVE  IInv'
  BY <1>6, SeatRosterStep, SeatPlanStep, SeatOtherStep
<1>7. CASE UNCHANGED vars
  <2>1. Types' /\ RelayOK' /\ WireOK' /\ MailOK' /\ AbsentOK'
    BY <1>7 DEF vars, IInv, Types, RelayOK, WireOK, MailOK, AbsentOK, Verified
  <2>2. StoriesOK'
    BY <1>7 DEF vars, IInv, StoriesOK, Story, Owed, Verified
  <2> QED
    BY <2>1, <2>2 DEF IInv
<1> QED
  BY <1>1, <1>2, <1>3, <1>4, <1>5, <1>6, <1>7 DEF Next

\* However many friends there are and however much mail is on its way, what a listener knows
\* of a source when it reads an envelope is what the relay knew when it admitted it, unless
\* the listener joined after that serial was announced.
THEOREM SerialsInvariant == Spec => []IInv
<1> QED
  BY InitIInv, NextIInv, PTL DEF Spec

\* No seat that was there when a serial was announced refuses an envelope that the relay
\* admitted under it (NetworkClient's roster, plans and notices).
THEOREM PresentRecognise == Spec => []PresentSeatsRecognise
<1> QED
  BY SerialsInvariant, IInvRecognises, PTL
=============================================================================
