----------------------------- MODULE Downed_proofs -----------------------------
(***************************************************************************)
(* Proofs about downed players, for any number of friends, rooms, sessions   *)
(* and events, any bound on episodes and any number of attempts.              *)
(*                                                                           *)
(* The argument: whatever speaks of a seat's downing, a sample, a pose, a     *)
(* claim or a request, names an episode that is at most the owner's, and if   *)
(* it is the owner's, the downing is the owner's too: a new downing takes a   *)
(* new episode with it.  The gate lets only the owner's own episode through.  *)
(* And the relay reserves an episode before it sends: what it sends later is  *)
(* above everything still on its way.                                         *)
(***************************************************************************)
EXTENDS Downed, TLAPS

EventKinds == {"none", "camera", "cutscene"}
Rules == {"none", "sitout", "resolve"}

GameType == [room : Nat, event : EventKinds, dead : BOOLEAN]

SampleType ==
  [scoped : BOOLEAN, cutscene : BOOLEAN, room : Nat, up : BOOLEAN, down : BOOLEAN,
   episode : Nat, downing : Nat]

PoseType == [room : Nat, down : BOOLEAN, episode : Nat, downing : Nat]

OwedType == [state : {"none", "owed", "carried"}, session : Nat, fallback : Rules, downing : Nat]

EndType == [downing : Nat, room : Nat, session : Nat]

OwnerType ==
  [down : BOOLEAN, episode : Nat, downing : Nat, room : Nat, session : Nat,
   latch : {"unseen", "alldown", "up"}, seen : Nat, next : Rules, owed : OwedType, end : EndType,
   consumed : Nat, fired : [Seats -> Nat], asked : [Seats -> [episode : Nat, times : Nat]],
   astray : BOOLEAN]

ClaimType == [seat : Seats, session : Nat, episode : Nat, downing : Nat]

EncounterType == [armed : BOOLEAN, sending : BOOLEAN, room : Nat, claims : SUBSET ClaimType]

RequestType ==
  [from : Seats, target : Seats, episode : Nat, downing : Nat, kind : {"partner", "return"}, room : Nat]

NoticeType == [kind : {"end"}, target : Seats, room : Nat]

MessageType == RequestType \cup NoticeType

Types ==
  /\ game \in [Seats -> GameType] /\ own \in [Seats -> OwnerType] /\ enc \in EncounterType
  /\ avatar \in [Seats -> SampleType] /\ pose \in [Seats -> [Seats -> PoseType]]
  /\ relay \in [Seats -> Nat] /\ client \in [Seats -> Nat]
  /\ wire \in [Seats -> Seq(MessageType)] /\ inbox \in [Seats -> Seq(MessageType)]
  /\ session \in Nat

\* What speaks of the owner "o": an episode of its past, or its very downing.
Speaks(o, episode, downing) ==
  /\ episode <= o.episode
  /\ episode = o.episode => downing = o.downing

\* A return is owed for the downing that the owner is in, or was in last.
Sound(o) ==
  /\ ~o.astray
  /\ o.owed.state # "none" => o.owed.downing = o.downing

SamplesSpeak == \A s \in Seats : avatar[s].down => Speaks(own[s], avatar[s].episode, avatar[s].downing)

PosesSpeak ==
  \A s, t \in Seats : pose[s][t].down => Speaks(own[t], pose[s][t].episode, pose[s][t].downing)

ClaimsSpeak == \A c \in enc.claims : Speaks(own[c.seat], c.episode, c.downing)

AllSpeak(q, o) == \A i \in 1..Len(q) : q[i].kind # "end" => Speaks(o, q[i].episode, q[i].downing)

\* The requests of a sequence rise, and stay below a number.
Rises(q) ==
  \A i, j \in 1..Len(q) : i < j /\ q[i].kind # "end" /\ q[j].kind # "end" => q[i].episode < q[j].episode

AtMost(q, n) == \A i \in 1..Len(q) : q[i].kind # "end" => q[i].episode <= n

Precedes(p, q) ==
  \A i \in 1..Len(p), j \in 1..Len(q) :
    p[i].kind # "end" /\ q[j].kind # "end" => p[i].episode < q[j].episode

Orderly(s) ==
  /\ Rises(inbox[s]) /\ Rises(wire[s]) /\ Precedes(inbox[s], wire[s])
  /\ AtMost(inbox[s], relay[s]) /\ AtMost(wire[s], relay[s])

IInv ==
  /\ Types
  /\ \A s \in Seats : Sound(own[s])
  /\ SamplesSpeak /\ PosesSpeak /\ ClaimsSpeak
  /\ \A s \in Seats : AllSpeak(wire[s], own[s]) /\ AllSpeak(inbox[s], own[s])
  /\ \A s \in Seats : Orderly(s)

-----------------------------------------------------------------------------
(* What an owner may become. *)

Onward(o, n) ==
  /\ o.episode <= n.episode
  /\ n.episode = o.episode => n.downing = o.downing

Becomes(o, n) == n \in OwnerType /\ Sound(n) /\ Onward(o, n)

LEMMA BecomesTwice ==
  ASSUME NEW o \in OwnerType, NEW m, NEW n, Becomes(o, m), Becomes(m, n)
  PROVE  Becomes(o, n)
<1>1. o.episode \in Nat /\ m.episode \in Nat /\ n.episode \in Nat
  BY DEF Becomes, OwnerType
<1>. QED  BY <1>1 DEF Becomes, Onward

LEMMA SpeaksStill ==
  ASSUME NEW o \in OwnerType, NEW n, Becomes(o, n), NEW e \in Nat, NEW d, Speaks(o, e, d)
  PROVE  Speaks(n, e, d)
<1>1. o.episode \in Nat /\ n.episode \in Nat
  BY DEF Becomes, OwnerType
<1>. QED  BY <1>1 DEF Becomes, Onward, Speaks

\* Whatever leaves episode, downing, receipt and history alone.
LEMMA AsideIs ==
  ASSUME NEW o \in OwnerType, Sound(o), NEW n \in OwnerType,
         n.episode = o.episode, n.downing = o.downing, n.astray = o.astray,
         n.owed.state # "none" => n.owed.downing = o.downing
  PROVE  Becomes(o, n)
<1>1. o.episode \in Nat
  BY DEF OwnerType
<1>. QED  BY <1>1 DEF Becomes, Onward, Sound

LEMMA NothingOwed == NoOwed \in OwedType /\ NoOwed.state = "none"
  BY DEF NoOwed, OwedType, Rules

LEMMA NothingEnds == NoEnd \in EndType
  BY DEF NoEnd, EndType

LEMMA BeginDownedIs ==
  ASSUME Types, NEW s \in Seats, NEW o \in OwnerType, Sound(o)
  PROVE  Becomes(o, BeginDowned(o, s))
<1>. DEFINE downing == o.downing + 1
            episode == o.episode + 1
            room == game[s].room
            n == [o EXCEPT !.down = TRUE, !.downing = downing, !.episode = episode, !.room = room,
                           !.session = session, !.latch = "unseen", !.owed = NoOwed]
<1>1. downing \in Nat /\ episode \in Nat /\ o.episode \in Nat /\ o.episode < episode
  BY DEF OwnerType
<1>2. room \in Nat /\ session \in Nat
  BY DEF Types, GameType
<1>3. BeginDowned(o, s) = n
  BY DEF BeginDowned
<1>. HIDE DEF downing, episode, room
<1>4. n \in OwnerType
  BY <1>1, <1>2, NothingOwed DEF OwnerType
<1>5. n.episode = episode /\ n.owed = NoOwed /\ n.astray = o.astray
  BY DEF OwnerType
<1>6. n.owed.state = "none" /\ ~n.astray
  BY <1>5, NothingOwed DEF Sound
<1>. HIDE DEF n
<1>. QED  BY <1>1, <1>3, <1>4, <1>5, <1>6 DEF Becomes, Onward, Sound

LEMMA RemintIs ==
  ASSUME NEW o \in OwnerType, Sound(o)
  PROVE  Becomes(o, Remint(o))
<1>. DEFINE episode == o.episode + 1
            n == [o EXCEPT !.episode = episode]
<1>1. episode \in Nat /\ o.episode \in Nat /\ o.episode < episode
  BY DEF OwnerType
<1>2. Remint(o) = n \/ Remint(o) = o
  BY DEF Remint
<1>. HIDE DEF episode
<1>3. n \in OwnerType /\ n.episode = episode /\ n.downing = o.downing /\ n.owed = o.owed
      /\ n.astray = o.astray
  BY <1>1 DEF OwnerType
<1>. HIDE DEF n
<1>4. Becomes(o, n)
  BY <1>1, <1>3 DEF Becomes, Onward, Sound
<1>. QED  BY <1>2, <1>4, AsideIs DEF Sound

\* Rising for the downing one is in.
LEMMA RiseIs ==
  ASSUME NEW o \in OwnerType, Sound(o)
  PROVE  Becomes(o, Rise(o, o.downing))
<1>1. Rise(o, o.downing) = [o EXCEPT !.down = FALSE, !.latch = "unseen", !.astray = o.astray]
  BY DEF Rise, OwnerType
<1>2. o.astray \in BOOLEAN
  BY DEF OwnerType
<1>3. /\ Rise(o, o.downing) \in OwnerType
      /\ Rise(o, o.downing).episode = o.episode /\ Rise(o, o.downing).downing = o.downing
      /\ Rise(o, o.downing).owed = o.owed /\ Rise(o, o.downing).astray = o.astray
  BY <1>1, <1>2 DEF OwnerType
<1>. QED  BY <1>3, AsideIs DEF Sound

LEMMA OweIs ==
  ASSUME Types, NEW o \in OwnerType, Sound(o)
  PROVE  Becomes(o, Owe(o, o.downing))
<1>. DEFINE owed == [state |-> "owed", session |-> session, fallback |-> "none", downing |-> o.downing]
            n == [o EXCEPT !.owed = owed]
<1>1. owed \in OwedType /\ owed.downing = o.downing
  BY DEF Types, OwedType, OwnerType, Rules
<1>2. Owe(o, o.downing) = n \/ Owe(o, o.downing) = o
  BY DEF Owe
<1>. HIDE DEF owed
<1>3. n \in OwnerType /\ n.episode = o.episode /\ n.downing = o.downing /\ n.owed = owed
      /\ n.astray = o.astray
  BY <1>1 DEF OwnerType
<1>. HIDE DEF n
<1>4. Becomes(o, n)
  BY <1>1, <1>3, AsideIs
<1>. QED  BY <1>2, <1>4, AsideIs DEF Sound

-----------------------------------------------------------------------------
(* The frame, from one part to the next. *)

LEMMA ObserveIs ==
  ASSUME Types, NEW s \in Seats, NEW o \in OwnerType, Sound(o)
  PROVE  Becomes(o, Observe(o, s))
<1>. DEFINE seen == IF Shown(s) # {} THEN session ELSE o.seen
            latch == IF ~o.down \/ Shown(s) = {} THEN o.latch
                     ELSE IF \A t \in Shown(s) : pose[s][t].down THEN "alldown" ELSE "up"
            n == [o EXCEPT !.seen = seen, !.latch = latch]
<1>1. seen \in Nat /\ latch \in {"unseen", "alldown", "up"}
  BY DEF Types, OwnerType
<1>2. Observe(o, s) = n
  BY DEF Observe
<1>. HIDE DEF seen, latch
<1>3. n \in OwnerType /\ n.episode = o.episode /\ n.downing = o.downing /\ n.owed = o.owed
      /\ n.astray = o.astray
  BY <1>1 DEF OwnerType
<1>. HIDE DEF n
<1>. QED  BY <1>2, <1>3, AsideIs DEF Sound

LEMMA JudgeEndIs ==
  ASSUME Types, NEW s \in Seats, NEW o \in OwnerType, Sound(o)
  PROVE  Becomes(o, JudgeEnd(o, s))
<1>. DEFINE m == IF HostEndFor(o, s) THEN Owe(o, o.end.downing) ELSE o
            n == [m EXCEPT !.end = NoEnd]
<1>1. Becomes(o, o)
  BY AsideIs DEF Sound
<1>2. Becomes(o, m)
  <2>1. HostEndFor(o, s) => o.end.downing = o.downing
    BY DEF HostEndFor
  <2>. QED  BY <1>1, <2>1, OweIs
<1>3. JudgeEnd(o, s) = n \/ JudgeEnd(o, s) = o
  BY DEF JudgeEnd
<1>. HIDE DEF m
<1>4. n \in OwnerType /\ n.episode = m.episode /\ n.downing = m.downing /\ n.owed = m.owed
      /\ n.astray = m.astray
  BY <1>2, NothingEnds DEF Becomes, OwnerType
<1>. HIDE DEF n
<1>5. Becomes(m, n)
  BY <1>2, <1>4, AsideIs DEF Becomes, Sound
<1>. QED  BY <1>1, <1>2, <1>3, <1>5, BecomesTwice

LEMMA LoseHoldIs ==
  ASSUME NEW o \in OwnerType, Sound(o)
  PROVE  Becomes(o, LoseHold(o))
<1>. DEFINE plain == SitOutAfterTransition(o)
            lost == [o EXCEPT !.down = FALSE, !.latch = "unseen"]
            bare == [lost EXCEPT !.next = plain]
            carried == [lost EXCEPT !.next = "none", !.owed.state = "carried", !.owed.fallback = plain]
<1>1. plain \in Rules
  BY DEF SitOutAfterTransition, Rules
<1>2. LoseHold(o) = IF o.owed.state = "none" THEN bare ELSE carried
  BY DEF LoseHold, plain
<1>. HIDE DEF plain
<1>3. lost \in OwnerType /\ lost.episode = o.episode /\ lost.downing = o.downing /\ lost.owed = o.owed
      /\ lost.astray = o.astray
  BY DEF OwnerType
<1>. HIDE DEF lost
<1>4. bare \in OwnerType /\ bare.episode = o.episode /\ bare.downing = o.downing /\ bare.owed = o.owed
      /\ bare.astray = o.astray
  BY <1>1, <1>3 DEF OwnerType
<1>5. /\ carried \in OwnerType /\ carried.episode = o.episode /\ carried.downing = o.downing
      /\ carried.astray = o.astray /\ carried.owed.downing = o.owed.downing
  <2>1. [lost.owed EXCEPT !.state = "carried", !.fallback = plain] \in OwedType
    BY <1>1, <1>3 DEF OwnerType, OwedType
  <2>2. [lost.owed EXCEPT !.state = "carried", !.fallback = plain].downing = o.owed.downing
    BY <1>3 DEF OwnerType, OwedType
  <2>. DEFINE owed == [lost.owed EXCEPT !.state = "carried", !.fallback = plain]
  <2>3. carried = [lost EXCEPT !.next = "none", !.owed = owed]
    BY <1>3 DEF OwnerType, OwedType
  <2>. HIDE DEF owed, carried
  <2>4. "none" \in Rules
    BY DEF Rules
  <2>. QED  BY <1>3, <2>1, <2>2, <2>3, <2>4 DEF OwnerType, owed
<1>. HIDE DEF bare, carried
<1>6. Becomes(o, bare)
  BY <1>4, AsideIs DEF Sound
<1>7. o.owed.state # "none" => Becomes(o, carried)
  BY <1>5, AsideIs DEF Sound
<1>. QED  BY <1>2, <1>6, <1>7

LEMMA HeldIs ==
  ASSUME Types, NEW s \in Seats, NEW o \in OwnerType, Sound(o), NEW occasion
  PROVE  Becomes(o, Held(o, s, occasion))
<1>. DEFINE n == [o EXCEPT !.down = FALSE, !.latch = "unseen", !.owed = NoOwed]
<1>1. Held(o, s, occasion) \in {o, LoseHold(o), n, Remint(o)}
  BY DEF Held
<1>2. n \in OwnerType /\ n.episode = o.episode /\ n.downing = o.downing /\ n.owed = NoOwed
      /\ n.astray = o.astray
  BY NothingOwed DEF OwnerType
<1>. HIDE DEF n
<1>3. Becomes(o, n)
  BY <1>2, AsideIs, NothingOwed
<1>4. Becomes(o, o)
  BY AsideIs DEF Sound
<1>. QED  BY <1>1, <1>3, <1>4, LoseHoldIs, RemintIs

LEMMA OwedTickIs ==
  ASSUME Types, NEW s \in Seats, NEW o \in OwnerType, Sound(o), NEW ready
  PROVE  Becomes(o, OwedTick(o, s, ready))
<1>. DEFINE done == [o EXCEPT !.owed = NoOwed]
            back == [done EXCEPT !.next = o.owed.fallback]
            n == OwedTick(o, s, ready)
<1>1. Becomes(o, o)
  BY AsideIs DEF Sound
<1>2. \/ n \in {o, done, back}
      \/ o.owed.state # "none" /\ n = Rise(done, o.owed.downing)
  BY DEF OwedTick
<1>3. done \in OwnerType /\ done.episode = o.episode /\ done.downing = o.downing /\ done.owed = NoOwed
      /\ done.astray = o.astray
  BY NothingOwed DEF OwnerType
<1>. HIDE DEF done, n
<1>4. Becomes(o, done) /\ Sound(done)
  BY <1>3, AsideIs, NothingOwed DEF Becomes
<1>5. back \in OwnerType /\ back.episode = o.episode /\ back.downing = o.downing /\ back.owed = NoOwed
      /\ back.astray = o.astray
  <2>1. o.owed.fallback \in Rules
    BY DEF OwnerType, OwedType
  <2>. QED  BY <1>3, <2>1 DEF OwnerType
<1>. HIDE DEF back
<1>6. Becomes(o, back)
  BY <1>5, AsideIs, NothingOwed
<1>7. ASSUME o.owed.state # "none", n = Rise(done, o.owed.downing)
      PROVE  Becomes(o, n)
  <2>1. n = Rise(done, done.downing)
    BY <1>3, <1>7 DEF Sound
  <2>2. Becomes(done, n)
    BY <1>3, <1>4, <2>1, RiseIs
  <2>. QED  BY <1>4, <2>2, BecomesTwice
<1>. QED  BY <1>1, <1>2, <1>4, <1>6, <1>7 DEF n

LEMMA SettleIs ==
  ASSUME Types, NEW s \in Seats, NEW o \in OwnerType, Sound(o)
  PROVE  Becomes(o, Settle(o, s))
<1>. DEFINE clear == [o EXCEPT !.next = "none"]
<1>1. Becomes(o, o)
  BY AsideIs DEF Sound
<1>2. Settle(o, s) \in {o, clear, BeginDowned(clear, s)}
  BY DEF Settle
<1>3. clear \in OwnerType /\ clear.episode = o.episode /\ clear.downing = o.downing
      /\ clear.owed = o.owed /\ clear.astray = o.astray
  BY DEF OwnerType, Rules
<1>. HIDE DEF clear
<1>4. Becomes(o, clear) /\ Sound(clear)
  BY <1>3, AsideIs DEF Sound, Becomes
<1>5. Becomes(o, BeginDowned(clear, s))
  BY <1>3, <1>4, BeginDownedIs, BecomesTwice
<1>. QED  BY <1>1, <1>2, <1>4, <1>5

LEMMA FiredIs ==
  ASSUME NEW o \in OwnerType, Sound(o), NEW t \in Seats, NEW e \in Nat
  PROVE  Becomes(o, [o EXCEPT !.fired[t] = e])
<1>. DEFINE n == [o EXCEPT !.fired[t] = e]
<1>1. n \in OwnerType /\ n.episode = o.episode /\ n.downing = o.downing
      /\ n.owed = o.owed /\ n.astray = o.astray
  BY DEF OwnerType
<1>. HIDE DEF n
<1>2. Becomes(o, n)
  BY <1>1, AsideIs DEF Sound
<1>. QED  BY <1>2 DEF n

LEMMA TookIs ==
  ASSUME NEW o \in OwnerType, Sound(o), NEW S \in SUBSET Seats, NEW wants \in [S -> Nat]
  PROVE  Becomes(o, Took(o, wants))
<1>. DEFINE asked == [t \in Seats |->
              IF t \notin DOMAIN wants THEN o.asked[t]
              ELSE [episode |-> wants[t],
                    times |-> IF o.asked[t].episode = wants[t] THEN o.asked[t].times + 1 ELSE 1]]
            n == [o EXCEPT !.asked = asked]
<1>1. Took(o, wants) = n
  BY DEF Took
<1>2. asked \in [Seats -> [episode : Nat, times : Nat]]
  <2>. SUFFICES ASSUME NEW t \in Seats
                PROVE  asked[t] \in [episode : Nat, times : Nat]
    OBVIOUS
  <2>1. o.asked[t] \in [episode : Nat, times : Nat]
    BY DEF OwnerType
  <2>. QED  BY <2>1
<1>. HIDE DEF asked
<1>3. n \in OwnerType /\ n.episode = o.episode /\ n.downing = o.downing
      /\ n.owed = o.owed /\ n.astray = o.astray
  BY <1>2 DEF OwnerType
<1>. HIDE DEF n
<1>. QED  BY <1>1, <1>3, AsideIs DEF Sound

\* What the gate lets through speaks of the very downing.
LEMMA ApplyIs ==
  ASSUME Types, NEW s \in Seats, NEW o \in OwnerType, Sound(o), NEW m, m.downing = o.downing, NEW ready
  PROVE  Becomes(o, Apply(o, s, m, ready))
  BY RemintIs, RiseIs, OweIs DEF Apply

LEMMA DrainedIs ==
  ASSUME Types, NEW s \in Seats, NEW o \in OwnerType, Sound(o), AllSpeak(inbox[s], o), NEW ready
  PROVE  Becomes(o, Drained(o, s, ready))
<1>. DEFINE m == Head(inbox[s])
            end == [downing |-> IF o.down THEN o.downing ELSE 0, room |-> m.room, session |-> session]
            ended == [o EXCEPT !.end = end]
            spent == [o EXCEPT !.consumed = m.episode]
<1>1. Becomes(o, o)
  BY AsideIs DEF Sound
<1>2. CASE inbox[s] = <<>>
  BY <1>1, <1>2 DEF Drained
<1>3. CASE inbox[s] # <<>>
  <2>1. m \in MessageType /\ m = inbox[s][1] /\ 1 \in 1..Len(inbox[s])
    BY <1>3 DEF Types
  <2>2. CASE m.kind = "end"
    <3>1. end \in EndType
      BY <2>1 DEF EndType, OwnerType, Types, MessageType, RequestType, NoticeType
    <3>2. Drained(o, s, ready) \in {o, ended}
      BY <1>3, <2>2 DEF Drained
    <3>. HIDE DEF end
    <3>3. ended \in OwnerType /\ ended.episode = o.episode /\ ended.downing = o.downing
          /\ ended.owed = o.owed /\ ended.astray = o.astray
      BY <3>1 DEF OwnerType
    <3>. HIDE DEF ended
    <3>. QED  BY <1>1, <3>2, <3>3, AsideIs DEF Sound
  <2>3. CASE m.kind # "end"
    <3>1. Drained(o, s, ready) = IF Gate(o, s, m) THEN Apply(spent, s, m, ready) ELSE o
      BY <1>3, <2>3 DEF Drained
    <3>2. m.episode \in Nat /\ Speaks(o, m.episode, m.downing)
      BY <2>1, <2>3 DEF MessageType, RequestType, NoticeType, AllSpeak
    <3>3. Gate(o, s, m) => m.downing = o.downing
      BY <3>2 DEF Gate, Speaks
    <3>. HIDE DEF m
    <3>4. spent \in OwnerType /\ spent.episode = o.episode /\ spent.downing = o.downing
          /\ spent.owed = o.owed /\ spent.astray = o.astray
      BY <3>2 DEF OwnerType
    <3>. HIDE DEF spent
    <3>5. Becomes(o, spent) /\ Sound(spent)
      BY <3>4, AsideIs DEF Sound, Becomes
    <3>6. Gate(o, s, m) => Becomes(spent, Apply(spent, s, m, ready))
      BY <3>3, <3>4, <3>5, ApplyIs
    <3>. QED  BY <1>1, <3>1, <3>5, <3>6, BecomesTwice
  <2>. QED  BY <2>2, <2>3
<1>. QED  BY <1>2, <1>3

-----------------------------------------------------------------------------
(* One frame. *)

\* What a frame of "s" sends: requests that the relay has accepted, and notices.
SendsOut(sent, ends) ==
  /\ sent \subseteq RequestType /\ ends \subseteq NoticeType
  /\ \A r \in sent :
       relay[r.target] < r.episode /\ Speaks(own[r.target], r.episode, r.downing)
  /\ relay' = [u \in Seats |-> IF \E r \in sent : r.target = u THEN For(u, sent).episode ELSE relay[u]]
  /\ wire' = [u \in Seats |-> wire[u] \o To(u, ends) \o To(u, sent)]

FrameStep(s) ==
  /\ own' \in [Seats -> OwnerType] /\ Becomes(own[s], own'[s])
  /\ \A u \in Seats \ {s} : own'[u] = own[u]
  /\ enc' \in EncounterType /\ \A c \in enc'.claims : Speaks(own[c.seat], c.episode, c.downing)
  /\ game' \in [Seats -> GameType]
  /\ \E sent, ends : SendsOut(sent, ends)
  /\ inbox' = IF inbox[s] = <<>> THEN inbox ELSE [inbox EXCEPT ![s] = Tail(@)]
  /\ UNCHANGED <<avatar, pose, client, session>>

LEMMA DownHereIs ==
  ASSUME IInv, NEW s \in Seats, NEW u \in DownHere(s)
  PROVE  /\ u \in Seats /\ pose[s][u].episode \in Nat /\ pose[s][u].downing \in Nat
         /\ Speaks(own[u], pose[s][u].episode, pose[s][u].downing)
<1>1. u \in Seats /\ pose[s][u].down
  BY DEF DownHere, Shown
<1>2. pose[s][u] \in PoseType
  BY <1>1 DEF IInv, Types
<1>. QED  BY <1>1, <1>2 DEF PoseType, IInv, PosesSpeak

\* The claims an edge takes speak of the downings it sees.
LEMMA ArmIs ==
  ASSUME IInv, NEW s \in Seats
  PROVE  /\ Arm(s) \in EncounterType
         /\ \A c \in Arm(s).claims : Speaks(own[c.seat], c.episode, c.downing)
<1>. DEFINE claims == IF ~Scoped(s) THEN {}
                      ELSE {[seat |-> t, session |-> session, episode |-> pose[s][t].episode,
                             downing |-> pose[s][t].downing] : t \in DownHere(s)}
<1>1. session \in Nat /\ game[s].room \in Nat
  BY DEF IInv, Types, GameType
<1>2. ASSUME NEW c \in claims
      PROVE  c \in ClaimType /\ Speaks(own[c.seat], c.episode, c.downing)
  <2>1. PICK t \in DownHere(s) : c = [seat |-> t, session |-> session, episode |-> pose[s][t].episode,
                                      downing |-> pose[s][t].downing]
    BY <1>2
  <2>. QED  BY <1>1, <2>1, DownHereIs DEF ClaimType
<1>3. Arm(s) = [armed |-> TRUE, sending |-> FALSE, room |-> game[s].room, claims |-> claims]
  BY DEF Arm
<1>. HIDE DEF claims
<1>. QED  BY <1>1, <1>2, <1>3 DEF EncounterType

LEMMA TickedIs ==
  ASSUME NEW e \in EncounterType, NEW s, NEW lives, NEW occasion
  PROVE  Ticked(e, s, lives, occasion) \in EncounterType
         /\ Ticked(e, s, lives, occasion).claims \subseteq e.claims
<1>. DEFINE claims == {c \in e.claims : CheckClaim(c, s) # "drop"}
            n == [e EXCEPT !.sending = TRUE, !.claims = claims]
<1>1. Ticked(e, s, lives, occasion) \in {n, e, NoEncounter}
  BY DEF Ticked
<1>2. claims \subseteq e.claims
  OBVIOUS
<1>. HIDE DEF claims
<1>3. n \in EncounterType /\ n.claims = claims
  BY <1>2 DEF EncounterType
<1>4. NoEncounter \in EncounterType /\ NoEncounter.claims = {}
  BY DEF NoEncounter, EncounterType
<1>. HIDE DEF n, NoEncounter
<1>. QED  BY <1>1, <1>2, <1>3, <1>4

LEMMA RequestIs ==
  ASSUME IInv, NEW s \in Seats, NEW u \in Seats, NEW e \in Nat, NEW d \in Nat,
         NEW kind \in {"partner", "return"}
  PROVE  /\ Request(s, u, e, d, kind) \in RequestType
         /\ Request(s, u, e, d, kind).target = u
         /\ Request(s, u, e, d, kind).episode = e /\ Request(s, u, e, d, kind).downing = d
<1>1. game[s].room \in Nat
  BY DEF IInv, Types, GameType
<1>. QED  BY <1>1 DEF Request, RequestType

LEMMA FrameMoves ==
  ASSUME IInv, NEW s \in Seats, NEW occasion, NEW ready, NEW t \in Seats, Frame(s, occasion, ready, t)
  PROVE  FrameStep(s)
<1>. DEFINE seen   == pose[s]
            watched == Observe(own[s], s)
            judged == IF s = Host THEN watched ELSE JudgeEnd(watched, s)
            takes  == TakesOver(judged, s, occasion)
            held   == Held(judged, s, occasion)
            owing  == OwedTick(held, s, ready)
            ticked == Settle(owing, s)
            lives  == Living(ticked, s) /\ occasion \in {"settle", "save"}
            asks   == Prompts(ticked, s, t, occasion)
            asked  == IF asks THEN [ticked EXCEPT !.fired[t] = seen[t].episode] ELSE ticked
            wins   == Wins(s, occasion) /\ ~enc.armed
            fresh  == IF wins THEN Arm(s) ELSE enc
            risen  == IF ~wins \/ ~asked.down THEN asked
                      ELSE IF InEvent(s) THEN Owe(asked, asked.downing)
                      ELSE IF ready THEN Rise(asked, asked.downing) ELSE asked
            claims == IF s = Host /\ Sends(fresh, s, lives, occasion)
                      THEN {c \in fresh.claims : /\ CheckClaim(c, s) = "send"
                                                 /\ MayTake(asked, c.seat, c.episode, occasion)}
                      ELSE {}
            saves  == IF occasion = "save" /\ left.savepoint /\ lives /\ InField(s)
                      THEN {u \in DownHere(s) : MayTake(asked, u, seen[u].episode, occasion)}
                      ELSE {}
            wants  == [u \in {c.seat : c \in claims} \cup saves |-> seen[u].episode]
            out    == IF ~Scoped(s) THEN {}
                      ELSE {Request(s, u, seen[u].episode, seen[u].downing, "partner") : u \in IF asks THEN {t} ELSE {}}
                           \cup {Request(s, c.seat, c.episode, c.downing, "return") : c \in claims}
                           \cup {Request(s, u, seen[u].episode, seen[u].downing, "return") : u \in saves}
            sent   == Forwarded(out)
            ends   == {[kind |-> "end", target |-> u, room |-> game[Host].room] :
                         u \in IF occasion = "mission" THEN Friends ELSE {}}
            last   == Drained(Took(risen, wants), s, ready)
<1>1. /\ own' = [own EXCEPT ![s] = last]
      /\ enc' = IF s = Host THEN Ticked(fresh, s, lives, occasion) ELSE enc
      /\ game' = IF takes THEN [game EXCEPT ![s].dead = TRUE] ELSE game
      /\ relay' = [u \in Seats |-> IF \E r \in sent : r.target = u THEN For(u, sent).episode
                                   ELSE relay[u]]
      /\ wire' = [u \in Seats |-> wire[u] \o To(u, ends) \o To(u, sent)]
      /\ inbox' = IF inbox[s] = <<>> THEN inbox ELSE [inbox EXCEPT ![s] = Tail(@)]
      /\ UNCHANGED <<avatar, pose, client, session>>
  BY Zenon DEF Frame
<1>2. Types /\ own[s] \in OwnerType /\ Sound(own[s]) /\ AllSpeak(inbox[s], own[s])
  BY DEF IInv, Types
<1>3. Becomes(own[s], ticked)
  <2>1. Becomes(own[s], watched)
    BY <1>2, ObserveIs
  <2>. HIDE DEF watched
  <2>2. Becomes(own[s], judged)
    BY <1>2, <2>1, JudgeEndIs, BecomesTwice DEF Becomes
  <2>. HIDE DEF judged
  <2>3. Becomes(own[s], held)
    BY <1>2, <2>2, HeldIs, BecomesTwice DEF Becomes
  <2>. HIDE DEF held
  <2>4. Becomes(own[s], owing)
    BY <1>2, <2>3, OwedTickIs, BecomesTwice DEF Becomes
  <2>. HIDE DEF owing
  <2>. QED  BY <1>2, <2>4, SettleIs, BecomesTwice DEF Becomes
<1>. HIDE DEF ticked, takes
<1>4. Becomes(own[s], asked)
  <2>1. seen[t].episode \in Nat
    BY <1>2 DEF Types, PoseType
  <2>. QED  BY <1>2, <1>3, <2>1, FiredIs, BecomesTwice DEF Becomes
<1>5. asks => t \in DownHere(s)
  BY DEF Prompts
<1>. HIDE DEF asked, asks
<1>6. Becomes(own[s], risen)
  BY <1>2, <1>4, OweIs, RiseIs, BecomesTwice DEF Becomes
<1>. HIDE DEF risen, wins, lives
<1>7. fresh \in EncounterType /\ \A c \in fresh.claims : Speaks(own[c.seat], c.episode, c.downing)
  BY <1>2, ArmIs DEF IInv, ClaimsSpeak, Types
<1>. HIDE DEF fresh
<1>8. claims \subseteq fresh.claims /\ claims \subseteq ClaimType /\ saves \subseteq DownHere(s)
      /\ saves \subseteq Seats
  BY <1>7 DEF EncounterType, DownHere, Shown
<1>. HIDE DEF claims, saves
<1>9. Becomes(own[s], last) /\ last \in OwnerType
  <2>. DEFINE S == {c.seat : c \in claims} \cup saves
  <2>1. S \in SUBSET Seats
    BY <1>8 DEF ClaimType
  <2>2. wants \in [S -> Nat]
    <3>1. \A u \in Seats : seen[u].episode \in Nat
      BY <1>2 DEF Types, PoseType
    <3>. QED  BY <2>1, <3>1
  <2>. HIDE DEF S, wants
  <2>3. Becomes(own[s], Took(risen, wants))
    BY <1>2, <1>6, <2>1, <2>2, TookIs, BecomesTwice DEF Becomes
  <2>. DEFINE took == Took(risen, wants)
  <2>. HIDE DEF took
  <2>4. AllSpeak(inbox[s], took)
    <3>. SUFFICES ASSUME NEW i \in 1..Len(inbox[s]), inbox[s][i].kind # "end"
                  PROVE  Speaks(took, inbox[s][i].episode, inbox[s][i].downing)
      BY DEF AllSpeak
    <3>1. inbox[s][i] \in MessageType
      BY <1>2 DEF Types
    <3>2. inbox[s][i].episode \in Nat
      BY <3>1 DEF MessageType, RequestType, NoticeType
    <3>. QED  BY <1>2, <2>3, <3>2, SpeaksStill DEF AllSpeak, took
  <2>5. Becomes(own[s], took)
    BY <2>3 DEF took
  <2>6. Becomes(took, Drained(took, s, ready))
    BY <1>2, <2>4, <2>5, DrainedIs DEF Becomes
  <2>7. Becomes(own[s], Drained(took, s, ready))
    BY <1>2, <2>5, <2>6, BecomesTwice
  <2>. QED  BY <2>7 DEF took, Becomes
<1>. HIDE DEF last
<1>10. /\ own' \in [Seats -> OwnerType] /\ Becomes(own[s], own'[s])
       /\ \A u \in Seats \ {s} : own'[u] = own[u]
  BY <1>1, <1>2, <1>9 DEF Types
<1>11. enc' \in EncounterType /\ \A c \in enc'.claims : Speaks(own[c.seat], c.episode, c.downing)
  <2>1. enc \in EncounterType /\ \A c \in enc.claims : Speaks(own[c.seat], c.episode, c.downing)
    BY DEF IInv, Types, ClaimsSpeak
  <2>. QED  BY <1>1, <1>7, <2>1, TickedIs
<1>12. game' \in [Seats -> GameType]
  BY <1>1, <1>2 DEF Types, GameType
<1>13. ASSUME NEW r \in out
       PROVE  r \in RequestType /\ Speaks(own[r.target], r.episode, r.downing)
  <2>1. CASE \E u \in DownHere(s), kind \in {"partner", "return"} :
               r = Request(s, u, seen[u].episode, seen[u].downing, kind)
    BY <2>1, DownHereIs, RequestIs
  <2>2. CASE \E c \in claims : r = Request(s, c.seat, c.episode, c.downing, "return")
    <3>1. PICK c \in claims : r = Request(s, c.seat, c.episode, c.downing, "return")
      BY <2>2
    <3>2. c \in ClaimType /\ Speaks(own[c.seat], c.episode, c.downing)
      BY <1>7, <1>8
    <3>3. c.seat \in Seats /\ c.episode \in Nat /\ c.downing \in Nat
      BY <3>2 DEF ClaimType
    <3>. QED  BY <3>1, <3>2, <3>3, RequestIs
  <2>. QED  BY <1>5, <1>8, <1>13, <2>1, <2>2
<1>. HIDE DEF out
<1>14. SendsOut(sent, ends)
  <2>1. \A r \in sent : r \in out /\ r.episode > relay[r.target]
    BY DEF Forwarded, Accepts
  <2>2. ends \subseteq NoticeType
    BY <1>2 DEF Types, GameType, NoticeType, Seats
  <2>. HIDE DEF sent, ends
  <2>3. \A r \in sent : r \in RequestType /\ r.target \in Seats /\ relay[r.target] \in Nat /\ r.episode \in Nat
    BY <1>2, <1>13, <2>1 DEF RequestType, Types
  <2>. QED  BY <1>1, <1>13, <2>1, <2>2, <2>3 DEF SendsOut
<1>. QED  BY <1>1, <1>10, <1>11, <1>12, <1>14 DEF FrameStep

-----------------------------------------------------------------------------
(* The other steps. *)

\* The games move: rooms and events.
Moves ==
  HostMoves \/ (\E f \in Friends : Follow(f)) \/ (\E s \in Seats : EventEnds(s))
  \/ (\E s \in Seats, event \in {"camera", "cutscene"} : EventStarts(s, event))

Poses == \E s \in Seats, t \in Seats : Pose(s, t) \/ PoseLost(s, t)

LEMMA Steps ==
  ASSUME Next
  PROVE  \/ \E s, t \in Seats : \E occasion, ready : Frame(s, occasion, ready, t)
         \/ \E s \in Seats : LethalHit(s)
         \/ \E s \in Seats : Sample(s)
         \/ \E s \in Seats : Deliver(s)
         \/ Moves \/ Poses \/ NewSession
<1>1. CASE \E s \in Seats : \E ready \in Readiness(s) :
             \/ \E occasion \in Occasions(s) : Frame(s, occasion, ready, s)
             \/ \E t \in Seats \ {s} : left.partner /\ Frame(s, "ask", ready, t)
  BY <1>1
<1>2. CASE \E s \in Seats : LethalHit(s) \/ EventEnds(s) \/ Sample(s) \/ Deliver(s)
  BY <1>2 DEF Moves
<1>3. CASE \/ \E s \in Seats, event \in {"camera", "cutscene"} : EventStarts(s, event)
           \/ HostMoves \/ \E f \in Friends : Follow(f)
  BY <1>3 DEF Moves
<1>4. CASE \E s \in Seats, t \in Seats : s # t /\ (Pose(s, t) \/ PoseLost(s, t))
  BY <1>4 DEF Poses
<1>. QED  BY <1>1, <1>2, <1>3, <1>4, Zenon DEF Next

\* What the games show after a step.
LEMMA SampledIs == NoSample \in SampleType /\ ~NoSample.down /\ NoPose \in PoseType /\ ~NoPose.down
  BY DEF NoSample, NoPose, PoseOf, SampleType, PoseType

LEMMA OwnersMove ==
  ASSUME IInv, [Next]_vars
  PROVE  own' \in [Seats -> OwnerType] /\ \A u \in Seats : Becomes(own[u], own'[u])
<1>1. own \in [Seats -> OwnerType] /\ \A u \in Seats : Sound(own[u])
  BY DEF IInv, Types
<1>2. \A u \in Seats : Becomes(own[u], own[u])
  BY <1>1, AsideIs DEF Sound
<1>3. CASE own' = own
  BY <1>1, <1>2, <1>3
<1>4. ASSUME NEW s \in Seats, NEW t \in Seats, NEW occasion, NEW ready, Frame(s, occasion, ready, t)
      PROVE  own' \in [Seats -> OwnerType] /\ \A u \in Seats : Becomes(own[u], own'[u])
  BY <1>2, <1>4, FrameMoves DEF FrameStep
<1>5. ASSUME NEW s \in Seats, LethalHit(s)
      PROVE  own' \in [Seats -> OwnerType] /\ \A u \in Seats : Becomes(own[u], own'[u])
  <2>. DEFINE n == BeginDowned(own[s], s)
  <2>1. own' = [own EXCEPT ![s] = n]
    BY <1>5 DEF LethalHit
  <2>2. Becomes(own[s], n)
    BY <1>1, BeginDownedIs DEF IInv
  <2>. HIDE DEF n
  <2>3. n \in OwnerType
    BY <2>2 DEF Becomes
  <2>. QED  BY <1>1, <1>2, <2>1, <2>2, <2>3
<1>6. CASE (\E s \in Seats : Sample(s)) \/ (\E s \in Seats : Deliver(s)) \/ Poses \/ NewSession
  BY <1>3, <1>6 DEF Sample, Deliver, Poses, Pose, PoseLost, NewSession
<1>7. CASE Moves
  BY <1>3, <1>7 DEF Moves, HostMoves, Follow, EventEnds, EventStarts
<1>8. CASE UNCHANGED vars
  BY <1>3, <1>8 DEF vars
<1>. QED  BY <1>4, <1>5, <1>6, <1>7, <1>8, Steps

LEMMA GameMoves ==
  ASSUME IInv, [Next]_vars
  PROVE  game' \in [Seats -> GameType]
<1>1. game \in [Seats -> GameType] /\ Host \in Seats /\ Friends \subseteq Seats
  BY DEF IInv, Types, Seats
<1>2. ASSUME NEW s \in Seats, NEW t \in Seats, NEW occasion, NEW ready, Frame(s, occasion, ready, t)
      PROVE  game' \in [Seats -> GameType]
  BY <1>2, FrameMoves DEF FrameStep
<1>3. CASE Moves
  <2>1. \A s \in Seats : game[s].room \in Nat /\ game[s].room + 1 \in Nat
    BY <1>1 DEF GameType
  <2>2. CASE HostMoves
    <3>1. game' = [game EXCEPT ![Host] = [room |-> game[Host].room + 1, event |-> "none", dead |-> FALSE]]
      BY <2>2 DEF HostMoves
    <3>2. [room |-> game[Host].room + 1, event |-> "none", dead |-> FALSE] \in GameType
      BY <1>1, <2>1 DEF GameType, EventKinds
    <3>. QED  BY <1>1, <3>1, <3>2
  <2>3. ASSUME NEW f \in Friends, Follow(f)
        PROVE  game' \in [Seats -> GameType]
    <3>1. game' = [game EXCEPT ![f] = [room |-> game[Host].room, event |-> "none", dead |-> FALSE]]
      BY <2>3 DEF Follow
    <3>2. [room |-> game[Host].room, event |-> "none", dead |-> FALSE] \in GameType
      BY <1>1, <2>1 DEF GameType, EventKinds
    <3>. QED  BY <1>1, <3>1, <3>2
  <2>4. ASSUME NEW s \in Seats, EventEnds(s)
        PROVE  game' \in [Seats -> GameType]
    BY <1>1, <2>4 DEF EventEnds, GameType, EventKinds
  <2>5. ASSUME NEW s \in Seats, NEW event \in {"camera", "cutscene"}, EventStarts(s, event)
        PROVE  game' \in [Seats -> GameType]
    BY <1>1, <2>5 DEF EventStarts, GameType, EventKinds
  <2>. QED  BY <1>3, <2>2, <2>3, <2>4, <2>5 DEF Moves
<1>4. CASE (\E s \in Seats : LethalHit(s) \/ Sample(s) \/ Deliver(s)) \/ Poses \/ NewSession \/ UNCHANGED vars
  BY <1>1, <1>4 DEF LethalHit, Sample, Deliver, Poses, Pose, PoseLost, NewSession, vars
<1>. QED  BY <1>2, <1>3, <1>4, Steps

\* A sample speaks of the downing its owner is in.
LEMMA AvatarsMove ==
  ASSUME IInv, [Next]_vars
  PROVE  avatar' \in [Seats -> SampleType] /\ SamplesSpeak'
<1>1. avatar \in [Seats -> SampleType] /\ SamplesSpeak /\ own \in [Seats -> OwnerType]
  BY DEF IInv, Types
<1>2. CASE avatar' = avatar
  <2>. SUFFICES ASSUME NEW s \in Seats, avatar[s].down
                PROVE  Speaks(own'[s], avatar[s].episode, avatar[s].downing)
    BY <1>1, <1>2 DEF SamplesSpeak
  <2>1. avatar[s].episode \in Nat
    BY <1>1 DEF SampleType
  <2>. QED  BY <1>1, <2>1, OwnersMove, SpeaksStill DEF SamplesSpeak
<1>3. ASSUME NEW s \in Seats, Sample(s)
      PROVE  avatar' \in [Seats -> SampleType] /\ SamplesSpeak'
  <2>. DEFINE down == own[s].down /\ Publishes(own[s], s)
              episode == IF down THEN own[s].episode ELSE 0
              downing == IF down THEN own[s].downing ELSE 0
              now == [scoped |-> Publishes(own[s], s), cutscene |-> game[s].event = "cutscene",
                      room |-> game[s].room, up |-> ~own[s].down /\ ~game[s].dead, down |-> down,
                      episode |-> episode, downing |-> downing]
  <2>1. avatar' = [avatar EXCEPT ![s] = now] /\ own' = own
    BY <1>3 DEF Sample
  <2>2. /\ Publishes(own[s], s) \in BOOLEAN /\ down \in BOOLEAN /\ game[s].room \in Nat
        /\ game[s].dead \in BOOLEAN
    BY DEF Publishes, IInv, Types, OwnerType, GameType
  <2>3. episode \in Nat /\ downing \in Nat /\ (down => Speaks(own[s], episode, downing))
    BY <1>1 DEF OwnerType, Speaks
  <2>. HIDE DEF down, episode, downing
  <2>4. now \in SampleType /\ now.down = down /\ now.episode = episode /\ now.downing = downing
    BY <2>2, <2>3 DEF SampleType
  <2>. HIDE DEF now
  <2>. QED  BY <1>1, <2>1, <2>3, <2>4 DEF SamplesSpeak
<1>4. CASE NewSession
  BY <1>4, SampledIs DEF NewSession, NoAvatars, SamplesSpeak
<1>5. ASSUME NEW s \in Seats, NEW t \in Seats, NEW occasion, NEW ready, Frame(s, occasion, ready, t)
      PROVE  avatar' = avatar
  BY <1>5, FrameMoves DEF FrameStep
<1>6. CASE (\E s \in Seats : LethalHit(s) \/ Deliver(s)) \/ Poses \/ UNCHANGED vars
  BY <1>2, <1>6 DEF LethalHit, Deliver, Poses, Pose, PoseLost, vars
<1>7. CASE Moves
  BY <1>2, <1>7 DEF Moves, HostMoves, Follow, EventEnds, EventStarts
<1>. QED  BY <1>2, <1>3, <1>4, <1>5, <1>6, <1>7, Steps

LEMMA PosesMove ==
  ASSUME IInv, [Next]_vars
  PROVE  pose' \in [Seats -> [Seats -> PoseType]] /\ PosesSpeak'
<1>1. /\ pose \in [Seats -> [Seats -> PoseType]] /\ avatar \in [Seats -> SampleType]
      /\ own \in [Seats -> OwnerType]
  BY DEF IInv, Types
<1>2. ASSUME NEW s \in Seats, NEW t \in Seats, pose[s][t].down
      PROVE  Speaks(own'[t], pose[s][t].episode, pose[s][t].downing)
  <2>1. pose[s][t].episode \in Nat
    BY <1>1 DEF PoseType
  <2>2. Speaks(own[t], pose[s][t].episode, pose[s][t].downing)
    BY <1>2 DEF IInv, PosesSpeak
  <2>. QED  BY <1>1, <2>1, <2>2, OwnersMove, SpeaksStill
<1>3. CASE pose' = pose
  BY <1>1, <1>2, <1>3 DEF PosesSpeak
<1>4. ASSUME NEW s \in Seats, NEW t \in Seats, NEW p \in PoseType, pose' = [pose EXCEPT ![s][t] = p],
             p.down => Speaks(own'[t], p.episode, p.downing)
      PROVE  pose' \in [Seats -> [Seats -> PoseType]] /\ PosesSpeak'
  <2>1. /\ pose' \in [Seats -> [Seats -> PoseType]]
        /\ \A u, v \in Seats : pose'[u][v] = IF u = s /\ v = t THEN p ELSE pose[u][v]
    BY <1>1, <1>4
  <2>. QED  BY <1>2, <1>4, <2>1 DEF PosesSpeak
<1>5. CASE Poses
  <2>1. ASSUME NEW s \in Seats, NEW t \in Seats, Pose(s, t)
        PROVE  pose' \in [Seats -> [Seats -> PoseType]] /\ PosesSpeak'
    <3>1. pose' = [pose EXCEPT ![s][t] = NoPose] \/ pose' = [pose EXCEPT ![s][t] = PoseOf(avatar[t])]
      BY <2>1 DEF Pose
    <3>2. /\ PoseOf(avatar[t]) \in PoseType /\ PoseOf(avatar[t]).down = avatar[t].down
          /\ PoseOf(avatar[t]).episode = avatar[t].episode /\ PoseOf(avatar[t]).downing = avatar[t].downing
      BY <1>1 DEF PoseOf, PoseType, SampleType
    <3>3. avatar[t].down => Speaks(own'[t], avatar[t].episode, avatar[t].downing)
      <4>1. own' = own
        BY <2>1 DEF Pose
      <4>. QED  BY <4>1 DEF IInv, SamplesSpeak
    <3>. QED  BY <1>4, <3>1, <3>2, <3>3, SampledIs
  <2>2. ASSUME NEW s \in Seats, NEW t \in Seats, PoseLost(s, t)
        PROVE  pose' \in [Seats -> [Seats -> PoseType]] /\ PosesSpeak'
    BY <1>4, <2>2, SampledIs DEF PoseLost
  <2>. QED  BY <1>5, <2>1, <2>2 DEF Poses
<1>6. ASSUME NEW s \in Seats, pose' = [pose EXCEPT ![s] = NoPoses]
      PROVE  pose' \in [Seats -> [Seats -> PoseType]] /\ PosesSpeak'
  <2>1. NoPoses \in [Seats -> PoseType] /\ \A t \in Seats : ~NoPoses[t].down
    BY SampledIs DEF NoPoses
  <2>2. /\ pose' \in [Seats -> [Seats -> PoseType]]
        /\ \A u \in Seats : pose'[u] = IF u = s THEN NoPoses ELSE pose[u]
    BY <1>1, <1>6, <2>1
  <2>. QED  BY <1>2, <2>1, <2>2 DEF PosesSpeak
<1>7. CASE Moves
  BY <1>3, <1>6, <1>7 DEF Moves, HostMoves, Follow, EventEnds, EventStarts, Seats
<1>8. CASE NewSession
  <2>1. NoPoses \in [Seats -> PoseType] /\ \A t \in Seats : ~NoPoses[t].down
    BY SampledIs DEF NoPoses
  <2>2. pose' = [s \in Seats |-> NoPoses]
    BY <1>8 DEF NewSession
  <2>. HIDE DEF NoPoses
  <2>. QED  BY <2>1, <2>2 DEF PosesSpeak
<1>9. ASSUME NEW s \in Seats, NEW t \in Seats, NEW occasion, NEW ready, Frame(s, occasion, ready, t)
      PROVE  pose' = pose
  BY <1>9, FrameMoves DEF FrameStep
<1>10. CASE (\E s \in Seats : LethalHit(s) \/ Deliver(s) \/ Sample(s)) \/ UNCHANGED vars
  BY <1>3, <1>10 DEF LethalHit, Deliver, Sample, vars
<1>. QED  BY <1>3, <1>5, <1>7, <1>8, <1>9, <1>10, Steps

LEMMA ClaimsMove ==
  ASSUME IInv, [Next]_vars
  PROVE  enc' \in EncounterType /\ ClaimsSpeak'
<1>1. enc \in EncounterType /\ ClaimsSpeak /\ own \in [Seats -> OwnerType]
  BY DEF IInv, Types
<1>2. ASSUME enc' \in EncounterType, \A c \in enc'.claims : Speaks(own[c.seat], c.episode, c.downing)
      PROVE  ClaimsSpeak'
  <2>. SUFFICES ASSUME NEW c \in enc'.claims
                PROVE  Speaks(own'[c.seat], c.episode, c.downing)
    BY DEF ClaimsSpeak
  <2>1. c.seat \in Seats /\ c.episode \in Nat
    BY <1>2 DEF EncounterType, ClaimType
  <2>. QED  BY <1>1, <1>2, <2>1, OwnersMove, SpeaksStill
<1>3. CASE enc' = enc
  BY <1>1, <1>2, <1>3 DEF ClaimsSpeak
<1>4. ASSUME NEW s \in Seats, NEW t \in Seats, NEW occasion, NEW ready, Frame(s, occasion, ready, t)
      PROVE  enc' \in EncounterType /\ ClaimsSpeak'
  BY <1>2, <1>4, FrameMoves DEF FrameStep
<1>5. CASE (\E s \in Seats : LethalHit(s) \/ Deliver(s) \/ Sample(s)) \/ Poses \/ NewSession \/ UNCHANGED vars
  BY <1>3, <1>5 DEF LethalHit, Deliver, Sample, Poses, Pose, PoseLost, NewSession, vars
<1>6. CASE Moves
  BY <1>3, <1>6 DEF Moves, HostMoves, Follow, EventEnds, EventStarts
<1>. QED  BY <1>4, <1>5, <1>6, Steps

-----------------------------------------------------------------------------
(* What is on its way to a seat. *)

\* At most one message of a set is for a seat.
LEMMA ToIs ==
  ASSUME NEW u, NEW S, S \subseteq MessageType
  PROVE  /\ To(u, S) \in Seq(MessageType) /\ Len(To(u, S)) \in {0, 1}
         /\ \A i \in 1..Len(To(u, S)) :
              /\ To(u, S)[i] \in S /\ To(u, S)[i].target = u /\ To(u, S)[i] = For(u, S)
              /\ \E m \in S : m.target = u
  BY Zenon, SMT DEF To, For

\* A step either leaves a seat's channel alone, adds a notice and a request to
\* it, or takes its first message, into the inbox or away; and it may take the
\* first message of the inbox.
Grows(u, p, q) ==
  /\ wire'[u] = wire[u] \o p \o q
  /\ \A i \in 1..Len(p) : p[i].kind = "end"
  /\ Len(q) <= 1 /\ relay[u] <= relay'[u]
  /\ \A i \in 1..Len(q) :
       /\ Speaks(own[u], q[i].episode, q[i].downing)
       /\ relay[u] < q[i].episode /\ q[i].episode = relay'[u]

ChannelStep(u) ==
  \/ /\ inbox'[u] = inbox[u] \/ (inbox[u] # <<>> /\ inbox'[u] = Tail(inbox[u]))
     /\ \E p, q \in Seq(MessageType) : Grows(u, p, q)
  \/ /\ wire[u] # <<>> /\ wire'[u] = Tail(wire[u]) /\ relay'[u] = relay[u]
     /\ inbox'[u] = inbox[u] \/ inbox'[u] = Append(inbox[u], Head(wire[u]))
  \/ wire'[u] = <<>> /\ inbox'[u] = <<>>

LEMMA FrameChannel ==
  ASSUME IInv, NEW s \in Seats, FrameStep(s), NEW u \in Seats
  PROVE  ChannelStep(u) /\ relay'[u] \in Nat
<1>1. PICK sent, ends : SendsOut(sent, ends)
  BY DEF FrameStep
<1>. DEFINE p == To(u, ends)
            q == To(u, sent)
<1>2. sent \subseteq RequestType /\ ends \subseteq NoticeType
  BY <1>1 DEF SendsOut
<1>3. p \in Seq(MessageType) /\ \A i \in 1..Len(p) : p[i] \in ends
  BY <1>2, ToIs DEF MessageType
<1>4. /\ q \in Seq(MessageType) /\ Len(q) \in {0, 1}
      /\ \A i \in 1..Len(q) : q[i] \in sent /\ q[i].target = u /\ q[i] = For(u, sent)
                               /\ \E r \in sent : r.target = u
  BY <1>2, ToIs DEF MessageType
<1>5. wire'[u] = wire[u] \o p \o q
  BY <1>1 DEF SendsOut
<1>6. relay'[u] = IF \E r \in sent : r.target = u THEN For(u, sent).episode ELSE relay[u]
  BY <1>1 DEF SendsOut
<1>7. relay[u] \in Nat
  BY DEF IInv, Types
<1>8. (\E r \in sent : r.target = u) => For(u, sent) \in sent /\ For(u, sent).target = u
  BY DEF For
<1>. HIDE DEF p, q
<1>9. /\ \A i \in 1..Len(p) : p[i].kind = "end"
      /\ \A i \in 1..Len(q) : /\ Speaks(own[u], q[i].episode, q[i].downing)
                              /\ relay[u] < q[i].episode /\ q[i].episode = relay'[u]
  BY <1>1, <1>2, <1>3, <1>4, <1>6 DEF SendsOut, NoticeType
<1>10. relay'[u] \in Nat /\ relay[u] <= relay'[u]
  <2>1. \A r \in sent : r.episode \in Nat
    BY <1>2 DEF RequestType
  <2>. QED  BY <1>1, <1>6, <1>7, <1>8, <2>1 DEF SendsOut
<1>11. inbox'[u] = inbox[u] \/ (inbox[u] # <<>> /\ inbox'[u] = Tail(inbox[u]))
  BY DEF FrameStep, IInv, Types
<1>12. Grows(u, p, q)
  BY <1>4, <1>5, <1>9, <1>10 DEF Grows
<1>. QED  BY <1>3, <1>4, <1>10, <1>11, <1>12, Zenon DEF ChannelStep

LEMMA ChannelsMove ==
  ASSUME IInv, [Next]_vars, NEW u \in Seats
  PROVE  ChannelStep(u) /\ relay'[u] \in Nat
<1>1. /\ relay \in [Seats -> Nat] /\ wire \in [Seats -> Seq(MessageType)]
      /\ inbox \in [Seats -> Seq(MessageType)]
  BY DEF IInv, Types
<1>2. ASSUME wire'[u] = wire[u], inbox'[u] = inbox[u], relay'[u] = relay[u]
      PROVE  ChannelStep(u) /\ relay'[u] \in Nat
  <2>1. <<>> \in Seq(MessageType) /\ wire[u] = wire[u] \o <<>> \o <<>>
    BY <1>1
  <2>2. relay[u] <= relay[u] /\ relay[u] \in Nat
    BY <1>1
  <2>3. Grows(u, <<>>, <<>>)
    BY <1>2, <2>1, <2>2 DEF Grows
  <2>. QED  BY <1>2, <2>1, <2>2, <2>3, Zenon DEF ChannelStep
<1>3. ASSUME NEW s \in Seats, NEW t \in Seats, NEW occasion, NEW ready, Frame(s, occasion, ready, t)
      PROVE  ChannelStep(u) /\ relay'[u] \in Nat
  BY <1>3, FrameMoves, FrameChannel
<1>4. ASSUME NEW s \in Seats, Deliver(s)
      PROVE  ChannelStep(u) /\ relay'[u] \in Nat
  <2>1. /\ wire[s] # <<>> /\ wire' = [wire EXCEPT ![s] = Tail(@)] /\ relay' = relay
        /\ inbox' = inbox \/ inbox' = [inbox EXCEPT ![s] = Append(@, Head(wire[s]))]
    BY <1>4 DEF Deliver
  <2>2. CASE u = s
    BY <1>1, <2>1, <2>2 DEF ChannelStep
  <2>3. CASE u # s
    <3>1. wire'[u] = wire[u] /\ inbox'[u] = inbox[u] /\ relay'[u] = relay[u]
      BY <1>1, <2>1, <2>3
    <3>. QED  BY <1>2, <3>1
  <2>. QED  BY <2>2, <2>3
<1>5. CASE NewSession
  BY <1>5 DEF NewSession, ChannelStep
<1>6. CASE (\E s \in Seats : LethalHit(s) \/ Sample(s)) \/ Poses \/ UNCHANGED vars
  BY <1>2, <1>6 DEF LethalHit, Sample, Poses, Pose, PoseLost, vars
<1>7. CASE Moves
  BY <1>2, <1>7 DEF Moves, HostMoves, Follow, EventEnds, EventStarts
<1>. QED  BY <1>3, <1>4, <1>5, <1>6, <1>7, Steps

\* What the invariant says of one seat's channel.
Channel(u) ==
  /\ wire[u] \in Seq(MessageType) /\ inbox[u] \in Seq(MessageType)
  /\ AllSpeak(wire[u], own[u]) /\ AllSpeak(inbox[u], own[u])
  /\ Orderly(u)

LEMMA EpisodeIs ==
  ASSUME NEW q \in Seq(MessageType), NEW i \in 1..Len(q), q[i].kind # "end"
  PROVE  q[i].episode \in Nat
<1>1. q[i] \in MessageType
  OBVIOUS
<1>. QED  BY <1>1 DEF MessageType, RequestType, NoticeType

\* What stays on its way stays in order.
LEMMA TailKeeps ==
  ASSUME NEW q \in Seq(MessageType), q # <<>>, NEW o, NEW n, AllSpeak(q, o), Rises(q), AtMost(q, n)
  PROVE  /\ Tail(q) \in Seq(MessageType) /\ AllSpeak(Tail(q), o) /\ Rises(Tail(q)) /\ AtMost(Tail(q), n)
         /\ \A i \in 1..Len(Tail(q)) : i + 1 \in 1..Len(q) /\ Tail(q)[i] = q[i + 1]
<1>1. /\ Tail(q) \in Seq(MessageType)
      /\ \A i \in 1..Len(Tail(q)) : i + 1 \in 1..Len(q) /\ Tail(q)[i] = q[i + 1]
  OBVIOUS
<1>. DEFINE r == Tail(q)
<1>. HIDE DEF r
<1>2. /\ r \in Seq(MessageType)
      /\ \A i \in 1..Len(r) : i + 1 \in 1..Len(q) /\ r[i] = q[i + 1]
  BY <1>1 DEF r
<1>3. AllSpeak(r, o) /\ AtMost(r, n)
  BY <1>2 DEF AllSpeak, AtMost
<1>4. Rises(r)
  <2>. SUFFICES ASSUME NEW i \in 1..Len(r), NEW j \in 1..Len(r), i < j,
                       r[i].kind # "end", r[j].kind # "end"
                PROVE  r[i].episode < r[j].episode
    BY DEF Rises
  <2>1. i + 1 \in 1..Len(q) /\ j + 1 \in 1..Len(q) /\ i + 1 < j + 1
    BY <1>2
  <2>. QED  BY <1>2, <2>1 DEF Rises
<1>. QED  BY <1>2, <1>3, <1>4 DEF r

\* The next message of the channel, at the end of the inbox.
LEMMA TakenKeeps ==
  ASSUME NEW p \in Seq(MessageType), NEW q \in Seq(MessageType), q # <<>>, NEW o, NEW n,
         AllSpeak(p, o), AllSpeak(q, o), Rises(p), Rises(q), Precedes(p, q), AtMost(p, n), AtMost(q, n)
  PROVE  LET r == Append(p, Head(q))
         IN  /\ r \in Seq(MessageType) /\ AllSpeak(r, o) /\ Rises(r) /\ Precedes(r, Tail(q)) /\ AtMost(r, n)
<1>. DEFINE r == Append(p, Head(q))
            t == Tail(q)
            k == Len(p) + 1
<1>1. /\ r \in Seq(MessageType) /\ Len(r) = k /\ r[k] = q[1] /\ 1 \in 1..Len(q)
      /\ \A i \in 1..Len(p) : i \in 1..Len(r) /\ r[i] = p[i]
      /\ \A i \in 1..Len(r) : i \in 1..Len(p) \/ i = k
      /\ Len(p) \in Nat
  OBVIOUS
<1>2. \A i \in 1..Len(t) : i + 1 \in 1..Len(q) /\ t[i] = q[i + 1] /\ 1 < i + 1
  OBVIOUS
<1>. HIDE DEF r, t
<1>3. AllSpeak(r, o) /\ AtMost(r, n)
  BY <1>1 DEF AllSpeak, AtMost
<1>4. Rises(r)
  <2>. SUFFICES ASSUME NEW i \in 1..Len(r), NEW j \in 1..Len(r), i < j,
                       r[i].kind # "end", r[j].kind # "end"
                PROVE  r[i].episode < r[j].episode
    BY DEF Rises
  <2>1. i \in 1..Len(p)
    BY <1>1
  <2>2. CASE j \in 1..Len(p)
    BY <1>1, <2>1, <2>2 DEF Rises
  <2>3. CASE j = k
    BY <1>1, <2>1, <2>3 DEF Precedes
  <2>. QED  BY <1>1, <2>2, <2>3
<1>5. Precedes(r, t)
  <2>. SUFFICES ASSUME NEW i \in 1..Len(r), NEW j \in 1..Len(t), r[i].kind # "end", t[j].kind # "end"
                PROVE  r[i].episode < t[j].episode
    BY DEF Precedes
  <2>1. j + 1 \in 1..Len(q) /\ t[j] = q[j + 1] /\ 1 < j + 1
    BY <1>2
  <2>2. CASE i \in 1..Len(p)
    BY <1>1, <2>1, <2>2 DEF Precedes
  <2>3. CASE i = k
    BY <1>1, <2>1, <2>3 DEF Rises
  <2>. QED  BY <1>1, <2>2, <2>3
<1>. QED  BY <1>1, <1>3, <1>4, <1>5 DEF r, t

\* A notice, and a request of an episode just reserved, behind all the others.
LEMMA GrowsKeeps ==
  ASSUME IInv, NEW u \in Seats, Channel(u), NEW p \in Seq(MessageType), NEW q \in Seq(MessageType),
         Grows(u, p, q), relay'[u] \in Nat
  PROVE  /\ wire'[u] \in Seq(MessageType) /\ AllSpeak(wire'[u], own[u]) /\ Rises(wire'[u])
         /\ Precedes(inbox[u], wire'[u]) /\ AtMost(wire'[u], relay'[u]) /\ AtMost(inbox[u], relay'[u])
<1>. DEFINE w == wire'[u]
            n == relay'[u]
            k == relay[u]
<1>1. wire[u] \in Seq(MessageType) /\ inbox[u] \in Seq(MessageType) /\ k \in Nat /\ n \in Nat /\ k <= n
  BY DEF Channel, Grows, IInv, Types
<1>2. w = wire[u] \o p \o q
  BY DEF Grows
<1>3. w \in Seq(MessageType)
  BY <1>1, <1>2
<1>4. ASSUME NEW i \in 1..Len(w), w[i].kind # "end"
      PROVE  \/ i \in 1..Len(wire[u]) /\ w[i] = wire[u][i]
             \/ /\ i = Len(wire[u]) + Len(p) + 1 /\ k < w[i].episode /\ w[i].episode = n
                /\ Speaks(own[u], w[i].episode, w[i].downing)
  <2>1. /\ Len(wire[u]) \in Nat /\ Len(p) \in Nat /\ Len(q) \in Nat
        /\ Len(w) = Len(wire[u]) + Len(p) + Len(q)
    BY <1>1, <1>2
  <2>2. CASE i \in 1..Len(wire[u])
    BY <1>1, <1>2, <2>1, <2>2
  <2>3. CASE i > Len(wire[u]) /\ i <= Len(wire[u]) + Len(p)
    <3>1. i - Len(wire[u]) \in 1..Len(p) /\ w[i] = p[i - Len(wire[u])]
      BY <1>1, <1>2, <2>1, <2>3
    <3>. QED  BY <1>4, <3>1 DEF Grows
  <2>4. CASE i > Len(wire[u]) + Len(p)
    <3>1. Len(q) <= 1
      BY DEF Grows
    <3>2. i = Len(wire[u]) + Len(p) + 1 /\ 1 \in 1..Len(q)
      BY <1>4, <2>1, <2>4, <3>1
    <3>3. w[i] = q[1]
      BY <1>1, <1>2, <2>1, <3>2
    <3>. QED  BY <3>2, <3>3 DEF Grows
  <2>. QED  BY <2>1, <2>2, <2>3, <2>4
<1>. HIDE DEF w
<1>5. Len(wire[u]) \in Nat /\ Len(p) \in Nat /\ Len(w) \in Nat
  BY <1>1, <1>3
<1>6. \A i \in 1..Len(wire[u]) : wire[u][i].kind # "end" =>
        wire[u][i].episode \in Nat /\ wire[u][i].episode <= k
             /\ Speaks(own[u], wire[u][i].episode, wire[u][i].downing)
  BY <1>1, EpisodeIs DEF Channel, Orderly, AtMost, AllSpeak
<1>7. \A i \in 1..Len(inbox[u]) : inbox[u][i].kind # "end" =>
        inbox[u][i].episode \in Nat /\ inbox[u][i].episode <= k
  BY <1>1, EpisodeIs DEF Channel, Orderly, AtMost
<1>8. AllSpeak(w, own[u])
  <2>. SUFFICES ASSUME NEW i \in 1..Len(w), w[i].kind # "end"
                PROVE  Speaks(own[u], w[i].episode, w[i].downing)
    BY DEF AllSpeak
  <2>1. CASE i \in 1..Len(wire[u]) /\ w[i] = wire[u][i]
    BY <1>6, <2>1
  <2>. QED  BY <1>4, <2>1
<1>9. AtMost(w, n) /\ AtMost(inbox[u], n)
  <2>1. ASSUME NEW i \in 1..Len(w), w[i].kind # "end"
        PROVE  w[i].episode <= n
    <3>1. CASE i \in 1..Len(wire[u]) /\ w[i] = wire[u][i]
      BY <1>1, <1>6, <2>1, <3>1
    <3>. QED  BY <1>1, <1>4, <2>1, <3>1
  <2>2. AtMost(inbox[u], n)
    BY <1>1, <1>7 DEF AtMost
  <2>. QED  BY <2>1, <2>2 DEF AtMost
<1>10. Rises(w)
  <2>. SUFFICES ASSUME NEW i \in 1..Len(w), NEW j \in 1..Len(w), i < j,
                       w[i].kind # "end", w[j].kind # "end"
                PROVE  w[i].episode < w[j].episode
    BY DEF Rises
  <2>1. CASE j \in 1..Len(wire[u]) /\ w[j] = wire[u][j]
    <3>1. i \in 1..Len(wire[u]) /\ w[i] = wire[u][i]
      BY <1>4, <1>5, <2>1
    <3>. QED  BY <2>1, <3>1 DEF Channel, Orderly, Rises
  <2>2. CASE j = Len(wire[u]) + Len(p) + 1 /\ k < w[j].episode /\ w[j].episode = n
    <3>1. i \in 1..Len(wire[u]) /\ w[i] = wire[u][i]
      BY <1>4, <1>5, <2>2
    <3>2. w[i].episode \in Nat /\ w[i].episode <= k
      BY <1>6, <3>1
    <3>. QED  BY <1>1, <2>2, <3>2
  <2>. QED  BY <1>4, <2>1, <2>2
<1>11. Precedes(inbox[u], w)
  <2>. SUFFICES ASSUME NEW i \in 1..Len(inbox[u]), NEW j \in 1..Len(w),
                       inbox[u][i].kind # "end", w[j].kind # "end"
                PROVE  inbox[u][i].episode < w[j].episode
    BY DEF Precedes
  <2>1. CASE j \in 1..Len(wire[u]) /\ w[j] = wire[u][j]
    BY <2>1 DEF Channel, Orderly, Precedes
  <2>2. CASE k < w[j].episode /\ w[j].episode = n
    BY <1>1, <1>7, <2>2
  <2>. QED  BY <1>4, <2>1, <2>2
<1>. QED  BY <1>3, <1>8, <1>9, <1>10, <1>11 DEF w

LEMMA AllSpeakStill ==
  ASSUME NEW q \in Seq(MessageType), NEW o \in OwnerType, NEW n, Becomes(o, n), AllSpeak(q, o)
  PROVE  AllSpeak(q, n)
<1>. SUFFICES ASSUME NEW i \in 1..Len(q), q[i].kind # "end"
              PROVE  Speaks(n, q[i].episode, q[i].downing)
  BY DEF AllSpeak
<1>. QED  BY EpisodeIs, SpeaksStill DEF AllSpeak

\* The inbox loses its first message, or nothing.
LEMMA InboxKeeps ==
  ASSUME NEW p \in Seq(MessageType), NEW r, r = p \/ (p # <<>> /\ r = Tail(p)),
         NEW q \in Seq(MessageType), NEW o, NEW n,
         AllSpeak(p, o), Rises(p), AtMost(p, n), Precedes(p, q)
  PROVE  r \in Seq(MessageType) /\ AllSpeak(r, o) /\ Rises(r) /\ AtMost(r, n) /\ Precedes(r, q)
<1>1. CASE r = p
  BY <1>1
<1>2. CASE p # <<>> /\ r = Tail(p)
  <2>1. /\ r \in Seq(MessageType) /\ AllSpeak(r, o) /\ Rises(r) /\ AtMost(r, n)
        /\ \A i \in 1..Len(r) : i + 1 \in 1..Len(p) /\ r[i] = p[i + 1]
    BY <1>2, TailKeeps
  <2>2. Precedes(r, q)
    BY <2>1 DEF Precedes
  <2>. QED  BY <2>1, <2>2
<1>. QED  BY <1>1, <1>2

LEMMA NothingThere ==
  ASSUME NEW o, NEW n, NEW q
  PROVE  /\ <<>> \in Seq(MessageType) /\ AllSpeak(<<>>, o) /\ Rises(<<>>) /\ AtMost(<<>>, n)
         /\ Precedes(<<>>, q)
  BY DEF AllSpeak, Rises, AtMost, Precedes

LEMMA ChannelKept ==
  ASSUME IInv, [Next]_vars, NEW u \in Seats
  PROVE  /\ wire'[u] \in Seq(MessageType) /\ inbox'[u] \in Seq(MessageType)
         /\ AllSpeak(wire'[u], own'[u]) /\ AllSpeak(inbox'[u], own'[u])
         /\ Orderly(u)'
<1>1. /\ wire[u] \in Seq(MessageType) /\ inbox[u] \in Seq(MessageType)
      /\ AllSpeak(wire[u], own[u]) /\ AllSpeak(inbox[u], own[u])
      /\ Rises(inbox[u]) /\ Rises(wire[u]) /\ Precedes(inbox[u], wire[u])
      /\ AtMost(inbox[u], relay[u]) /\ AtMost(wire[u], relay[u])
  BY DEF IInv, Types, Orderly
<1>2. Channel(u)
  BY <1>1 DEF Channel, Orderly
<1>3. own[u] \in OwnerType /\ Becomes(own[u], own'[u])
  BY OwnersMove DEF IInv, Types
<1>4. ChannelStep(u) /\ relay'[u] \in Nat
  BY ChannelsMove
<1>5. ASSUME wire'[u] \in Seq(MessageType), inbox'[u] \in Seq(MessageType),
             AllSpeak(wire'[u], own[u]), AllSpeak(inbox'[u], own[u]),
             Rises(inbox'[u]), Rises(wire'[u]), Precedes(inbox'[u], wire'[u]),
             AtMost(inbox'[u], relay'[u]), AtMost(wire'[u], relay'[u])
      PROVE  /\ wire'[u] \in Seq(MessageType) /\ inbox'[u] \in Seq(MessageType)
             /\ AllSpeak(wire'[u], own'[u]) /\ AllSpeak(inbox'[u], own'[u])
             /\ Orderly(u)'
  <2>1. AllSpeak(wire'[u], own'[u]) /\ AllSpeak(inbox'[u], own'[u])
    BY <1>3, <1>5, AllSpeakStill
  <2>. QED  BY <1>5, <2>1 DEF Orderly
<1>6. ASSUME inbox'[u] = inbox[u] \/ (inbox[u] # <<>> /\ inbox'[u] = Tail(inbox[u])),
             NEW p \in Seq(MessageType), NEW q \in Seq(MessageType), Grows(u, p, q)
      PROVE  /\ wire'[u] \in Seq(MessageType) /\ inbox'[u] \in Seq(MessageType)
             /\ AllSpeak(wire'[u], own'[u]) /\ AllSpeak(inbox'[u], own'[u])
             /\ Orderly(u)'
  <2>1. /\ wire'[u] \in Seq(MessageType) /\ AllSpeak(wire'[u], own[u]) /\ Rises(wire'[u])
        /\ Precedes(inbox[u], wire'[u]) /\ AtMost(wire'[u], relay'[u]) /\ AtMost(inbox[u], relay'[u])
    BY <1>2, <1>4, <1>6, GrowsKeeps
  <2>2. /\ inbox'[u] \in Seq(MessageType) /\ AllSpeak(inbox'[u], own[u]) /\ Rises(inbox'[u])
        /\ AtMost(inbox'[u], relay'[u]) /\ Precedes(inbox'[u], wire'[u])
    BY <1>1, <1>6, <2>1, InboxKeeps
  <2>. QED  BY <1>5, <2>1, <2>2
<1>7. ASSUME wire[u] # <<>>, wire'[u] = Tail(wire[u]), relay'[u] = relay[u],
             inbox'[u] = inbox[u] \/ inbox'[u] = Append(inbox[u], Head(wire[u]))
      PROVE  /\ wire'[u] \in Seq(MessageType) /\ inbox'[u] \in Seq(MessageType)
             /\ AllSpeak(wire'[u], own'[u]) /\ AllSpeak(inbox'[u], own'[u])
             /\ Orderly(u)'
  <2>1. /\ wire'[u] \in Seq(MessageType) /\ AllSpeak(wire'[u], own[u]) /\ Rises(wire'[u])
        /\ AtMost(wire'[u], relay'[u])
        /\ \A i \in 1..Len(wire'[u]) : i + 1 \in 1..Len(wire[u]) /\ wire'[u][i] = wire[u][i + 1]
    BY <1>1, <1>7, TailKeeps
  <2>2. CASE inbox'[u] = inbox[u]
    <3>1. Precedes(inbox[u], wire'[u])
      BY <1>1, <2>1 DEF Precedes
    <3>. QED  BY <1>1, <1>5, <1>7, <2>1, <2>2, <3>1
  <2>3. CASE inbox'[u] = Append(inbox[u], Head(wire[u]))
    <3>1. /\ inbox'[u] \in Seq(MessageType) /\ AllSpeak(inbox'[u], own[u]) /\ Rises(inbox'[u])
          /\ Precedes(inbox'[u], Tail(wire[u])) /\ AtMost(inbox'[u], relay[u])
      BY <1>1, <1>7, <2>3, TakenKeeps
    <3>. QED  BY <1>5, <1>7, <2>1, <3>1
  <2>. QED  BY <1>7, <2>2, <2>3
<1>8. CASE wire'[u] = <<>> /\ inbox'[u] = <<>>
  BY <1>5, <1>8, NothingThere
<1>. QED  BY <1>4, <1>6, <1>7, <1>8 DEF ChannelStep

\* The channels are functions of the seats, and the rest has its type.
LEMMA RestMoves ==
  ASSUME IInv, [Next]_vars
  PROVE  /\ relay' = [u \in Seats |-> relay'[u]] /\ wire' = [u \in Seats |-> wire'[u]]
         /\ inbox' = [u \in Seats |-> inbox'[u]]
         /\ client' \in [Seats -> Nat] /\ session' \in Nat
<1>1. /\ relay \in [Seats -> Nat] /\ wire \in [Seats -> Seq(MessageType)]
      /\ inbox \in [Seats -> Seq(MessageType)] /\ client \in [Seats -> Nat] /\ session \in Nat
  BY DEF IInv, Types
<1>2. ASSUME NEW s \in Seats, NEW t \in Seats, NEW occasion, NEW ready, Frame(s, occasion, ready, t)
      PROVE  /\ relay' = [u \in Seats |-> relay'[u]] /\ wire' = [u \in Seats |-> wire'[u]]
             /\ inbox' = [u \in Seats |-> inbox'[u]]
             /\ client' \in [Seats -> Nat] /\ session' \in Nat
  <2>1. FrameStep(s)
    BY <1>2, FrameMoves
  <2>2. PICK sent, ends : SendsOut(sent, ends)
    BY <2>1 DEF FrameStep
  <2>3. relay' = [u \in Seats |-> relay'[u]] /\ wire' = [u \in Seats |-> wire'[u]]
    BY <2>2 DEF SendsOut
  <2>. QED  BY <1>1, <2>1, <2>3 DEF FrameStep
<1>3. ASSUME NEW s \in Seats, Deliver(s)
      PROVE  /\ relay' = [u \in Seats |-> relay'[u]] /\ wire' = [u \in Seats |-> wire'[u]]
             /\ inbox' = [u \in Seats |-> inbox'[u]]
             /\ client' \in [Seats -> Nat] /\ session' \in Nat
  <2>. DEFINE m == Head(wire[s])
  <2>1. /\ wire[s] # <<>> /\ relay' = relay /\ session' = session
        /\ wire' = [wire EXCEPT ![s] = Tail(@)]
        /\ inbox' = IF Delivered(s, m) THEN [inbox EXCEPT ![s] = Append(@, m)] ELSE inbox
        /\ client' = IF Delivered(s, m) /\ m.kind # "end" THEN [client EXCEPT ![s] = m.episode] ELSE client
    BY <1>3 DEF Deliver
  <2>2. m.kind # "end" => m.episode \in Nat
    <3>1. m = wire[s][1] /\ 1 \in 1..Len(wire[s]) /\ wire[s] \in Seq(MessageType)
      BY <1>1, <2>1
    <3>. HIDE DEF m
    <3>. QED  BY <3>1, EpisodeIs
  <2>. HIDE DEF m
  <2>. QED  BY <1>1, <2>1, <2>2
<1>4. CASE NewSession
  BY <1>1, <1>4 DEF NewSession
<1>5. CASE (\E s \in Seats : LethalHit(s) \/ Sample(s)) \/ Poses \/ UNCHANGED vars
  BY <1>1, <1>5 DEF LethalHit, Sample, Poses, Pose, PoseLost, vars
<1>6. CASE Moves
  BY <1>1, <1>6 DEF Moves, HostMoves, Follow, EventEnds, EventStarts
<1>. QED  BY <1>2, <1>3, <1>4, <1>5, <1>6, Steps

-----------------------------------------------------------------------------
(* The invariant, and what follows from it. *)

LEMMA Starts == Init => IInv
<1>. SUFFICES ASSUME Init
              PROVE  IInv
  OBVIOUS
<1>1. NewOwner \in OwnerType /\ Sound(NewOwner)
  <2>1. /\ NewOwner.astray = FALSE /\ NewOwner.owed = NoOwed
    BY DEF NewOwner
  <2>2. /\ [t \in Seats |-> 0] \in [Seats -> Nat]
        /\ [t \in Seats |-> [episode |-> 0, times |-> 0]] \in [Seats -> [episode : Nat, times : Nat]]
    OBVIOUS
  <2>3. NewOwner \in OwnerType
    BY <2>2, NothingOwed, NothingEnds DEF NewOwner, OwnerType, Rules
  <2>. QED  BY <2>1, <2>3, NothingOwed DEF Sound
<1>2. NoEncounter \in EncounterType /\ NoEncounter.claims = {}
  BY DEF NoEncounter, EncounterType
<1>3. NoPoses \in [Seats -> PoseType] /\ \A t \in Seats : ~NoPoses[t].down
  BY SampledIs DEF NoPoses
<1>4. NoAvatars \in [Seats -> SampleType] /\ \A t \in Seats : ~NoAvatars[t].down
  BY SampledIs DEF NoAvatars
<1>. HIDE DEF NewOwner, NoEncounter, NoPoses, NoAvatars
<1>5. game \in [Seats -> GameType]
  BY DEF Init, GameType, EventKinds
<1>6. /\ relay \in [Seats -> Nat] /\ client \in [Seats -> Nat]
      /\ wire \in [Seats -> Seq(MessageType)] /\ inbox \in [Seats -> Seq(MessageType)]
      /\ session \in Nat
  BY DEF Init
<1>7. Types
  BY <1>1, <1>2, <1>3, <1>4, <1>5, <1>6 DEF Init, Types
<1>8. (\A s \in Seats : Sound(own[s])) /\ SamplesSpeak /\ PosesSpeak /\ ClaimsSpeak
  BY <1>1, <1>2, <1>3, <1>4 DEF Init, SamplesSpeak, PosesSpeak, ClaimsSpeak
<1>9. \A s \in Seats : wire[s] = <<>> /\ inbox[s] = <<>>
  BY DEF Init
<1>10. (\A s \in Seats : AllSpeak(wire[s], own[s]) /\ AllSpeak(inbox[s], own[s])) /\ \A s \in Seats : Orderly(s)
  BY <1>9, NothingThere DEF Orderly
<1>. QED  BY <1>7, <1>8, <1>10 DEF IInv

LEMMA StepPreserves == IInv /\ [Next]_vars => IInv'
<1>. SUFFICES ASSUME IInv, [Next]_vars
              PROVE  IInv'
  OBVIOUS
<1>1. /\ relay' \in [Seats -> Nat] /\ wire' \in [Seats -> Seq(MessageType)]
      /\ inbox' \in [Seats -> Seq(MessageType)]
  BY RestMoves, ChannelKept, ChannelsMove
<1>2. Types'
  BY <1>1, RestMoves, OwnersMove, GameMoves, AvatarsMove, PosesMove, ClaimsMove DEF Types
<1>3. \A s \in Seats : Sound(own'[s])
  BY OwnersMove DEF Becomes
<1>. QED  BY <1>2, <1>3, AvatarsMove, PosesMove, ClaimsMove, ChannelKept DEF IInv

LEMMA BothIs ==
  ASSUME NEW p \in Seq(MessageType), NEW q \in Seq(MessageType)
  PROVE  /\ DOMAIN (p \o q) = 1..Len(p \o q) /\ Len(p) \in Nat
         /\ \A i \in 1..Len(p \o q) :
              \/ i \in 1..Len(p) /\ (p \o q)[i] = p[i]
              \/ i - Len(p) \in 1..Len(q) /\ (p \o q)[i] = q[i - Len(p)]
<1>1. Len(p) \in Nat /\ Len(q) \in Nat /\ Len(p \o q) = Len(p) + Len(q) /\ p \o q \in Seq(MessageType)
  OBVIOUS
<1>2. ASSUME NEW i \in 1..Len(p)
      PROVE  (p \o q)[i] = p[i]
  OBVIOUS
<1>3. ASSUME NEW i \in 1..Len(p \o q), i > Len(p)
      PROVE  i - Len(p) \in 1..Len(q) /\ (p \o q)[i] = q[i - Len(p)]
  BY <1>1, <1>3
<1>4. DOMAIN (p \o q) = 1..Len(p \o q)
  BY <1>1
<1>5. ASSUME NEW i \in 1..Len(p \o q)
      PROVE  \/ i \in 1..Len(p) /\ (p \o q)[i] = p[i]
             \/ i - Len(p) \in 1..Len(q) /\ (p \o q)[i] = q[i - Len(p)]
  <2>1. i \in 1..Len(p) \/ i > Len(p)
    BY <1>1
  <2>. QED  BY <1>2, <1>3, <2>1
<1>. QED  BY <1>1, <1>4, <1>5

THEOREM DownedInvariant == Spec => []IInv
<1>. QED  BY Starts, StepPreserves, PTL DEF Spec

\* A player is brought back only by what was meant for the downing it is in:
\* OwedReturn, the claims of PendingEncounter and ReviveOwnerGate never let one
\* that outlived a downing, a room or a session raise the player from a later one.
THEOREM RisenForItsOwn == Spec => []RisesForItsOwnDowning
<1>1. IInv => RisesForItsOwnDowning
  BY DEF IInv, Sound, RisesForItsOwnDowning
<1>. QED  BY <1>1, DownedInvariant, PTL

\* The revive requests on their way to a player rise and are none twice: the
\* relay reserves an episode in revivedEpisode before it sends.
THEOREM UnspentRequests == Spec => []RequestsAreUnspent
<1>1. ASSUME IInv
      PROVE  RequestsAreUnspent
  <2>. SUFFICES ASSUME NEW s \in Seats
                PROVE  LET onTheWay == inbox[s] \o wire[s]
                           requests == {i \in DOMAIN onTheWay : onTheWay[i].kind # "end"}
                       IN  /\ \A i, j \in requests : i < j => onTheWay[i].episode < onTheWay[j].episode
                           /\ \A i \in requests : onTheWay[i].episode <= relay[s]
    BY DEF RequestsAreUnspent
  <2>. DEFINE p == inbox[s]
              q == wire[s]
              w == p \o q
  <2>1. p \in Seq(MessageType) /\ q \in Seq(MessageType) /\ Orderly(s)
    BY <1>1 DEF IInv, Types
  <2>2. /\ DOMAIN w = 1..Len(w) /\ Len(p) \in Nat
        /\ \A i \in 1..Len(w) : \/ i \in 1..Len(p) /\ w[i] = p[i]
                                \/ i - Len(p) \in 1..Len(q) /\ w[i] = q[i - Len(p)]
    BY <2>1, BothIs
  <2>3. /\ Rises(p) /\ Rises(q) /\ Precedes(p, q) /\ AtMost(p, relay[s]) /\ AtMost(q, relay[s])
    BY <2>1 DEF Orderly
  <2>. HIDE DEF w, p, q
  <2>4. ASSUME NEW i \in 1..Len(w), NEW j \in 1..Len(w), w[i].kind # "end", w[j].kind # "end", i < j
        PROVE  w[i].episode < w[j].episode
    <3>1. CASE i \in 1..Len(p) /\ w[i] = p[i]
      BY <2>2, <2>3, <2>4, <3>1 DEF Rises, Precedes
    <3>2. CASE i \notin 1..Len(p)
      <4>1. i - Len(p) \in 1..Len(q) /\ w[i] = q[i - Len(p)] /\ j \notin 1..Len(p)
        BY <2>2, <2>4, <3>2
      <4>2. j - Len(p) \in 1..Len(q) /\ w[j] = q[j - Len(p)] /\ i - Len(p) < j - Len(p)
        BY <2>2, <2>4, <4>1
      <4>. QED  BY <2>3, <2>4, <4>1, <4>2 DEF Rises
    <3>. QED  BY <2>2, <2>4, <3>1, <3>2
  <2>5. ASSUME NEW i \in 1..Len(w), w[i].kind # "end"
        PROVE  w[i].episode <= relay[s]
    BY <2>2, <2>3, <2>5 DEF AtMost
  <2>6. /\ \A i, j \in {k \in DOMAIN w : w[k].kind # "end"} : i < j => w[i].episode < w[j].episode
        /\ \A i \in {k \in DOMAIN w : w[k].kind # "end"} : w[i].episode <= relay[s]
    BY <2>2, <2>4, <2>5
  <2>. QED  BY <2>6 DEF w, p, q
<1>. QED  BY <1>1, DownedInvariant, PTL
=============================================================================
