----------------------------- MODULE WorldRelay -----------------------------
(***************************************************************************)
(* One relay, the host and its friends: who is a member of which session, how *)
(* the host's world is cached and forwarded, and how a friend that comes      *)
(* late, comes back, or asks for the room again is brought up to date.        *)
(*                                                                           *)
(* The parts: RelayCache (SessionHost's caches), FriendWorld (NetworkClient,  *)
(* the runtime's binding, the inbox and ring, the game's view).  Here are the *)
(* membership, the links between them, and what the host publishes.  Reliable *)
(* traffic keeps its order per link; HP samples travel unreliably, and are    *)
(* lost or overtake.  A link dies with what it carries, and its two ends      *)
(* notice at different times.                                                 *)
(*                                                                           *)
(* Left out: the forced resync (WorldResync), its delivery serials and source *)
(* floors (DeliverySerials); travel rooms, scenes, lifecycle cuts; the host's *)
(* own ring.  One message at the relay is one step.                *)
(***************************************************************************)
EXTENDS RelayCache, FriendWorld

CONSTANTS
  Friends,         \* the friend seats
  Settings,        \* the relay's mode, and how much may happen
  Backlog          \* reliable messages on the host's link

Modes == {"CampaignCoop", "PublicRealm"}

\* Bounds: world incarnations over every relay process, relay restarts, reliable messages and HP samples the host
\* publishes, replays the friends ask for, connections of each friend.
Bounds == {"sessions", "restarts", "facts", "samples", "replays"}

ASSUME WorldAssumption ==
  /\ Backlog \in Nat \ {0}
  /\ \A s \in Settings : /\ s.mode \in Modes
                         /\ \A b \in Bounds : s[b] \in Nat
                         /\ s.dials \in [Friends -> Nat]

VARIABLES
  relay,      \* the session and the host's connection, 0 for none; the next connection id
  cache,      \* what the relay replays
  seat,       \* per friend: the verified peer of its slot
  host,       \* what the host's game has seen and published
  hostOut,    \* the host's reliable link
  hostHp,     \* its samples in flight
  friend,     \* per friend: FriendWorld's record
  down,       \* per friend: the reliable link
  hpDown,     \* per friend: samples in flight
  ask,        \* per friend: the epoch of a RoomReplayRequest in flight, or 0
  left        \* what is left of the bounds; it also numbers incarnations and connections

vars == <<relay, cache, seat, host, hostOut, hostHp, friend, down, hpDown, ask, left>>

Empty == [conn |-> 0, wire |-> 0, replayed |-> 0]

FreshRelay == [session |-> 0, host |-> 0, next |-> 1]

FreshHost == [epoch |-> 0, seq |-> 0, spawned |-> {}, slain |-> {}, announced |-> {}, told |-> {}, sent |-> FALSE,
              inRoom |-> FALSE, held |-> FALSE, heldHere |-> FALSE, version |-> 0]

Init ==
  /\ left \in Settings

  /\ relay = FreshRelay
  /\ cache = EmptyCache
  /\ seat = [f \in Friends |-> Empty]
  /\ host = FreshHost
  /\ hostOut = <<>>
  /\ hostHp = {}
  /\ friend = [f \in Friends |-> NewFriend]
  /\ down = [f \in Friends |-> <<>>]
  /\ hpDown = [f \in Friends |-> {}]
  /\ ask = [f \in Friends |-> 0]

HostOn == relay.host # 0

Verified(s, f) == s[f].conn # 0

\* What is sent to a seat whose connection is gone goes nowhere.
Linked(s, f) == Verified(s, f) /\ s[f].wire = friend[f].net.wire

--------------------------------------------------------------------------
SessionPacket(r, s, f) == [p |-> "session", session |-> r.session, host |-> r.host, self |-> s[f].conn]

BindingPacket(r, s, f) == [p |-> "binding", session |-> r.session, host |-> r.host, self |-> s[f].conn]

Scoped(r, s, f, body) == [p |-> "world", session |-> r.session, self |-> s[f].conn, body |-> body]

\* broadcastSessionState: the roster, then each seat's binding.
Announced(r, s, d) ==
  [f \in Friends |->
     IF ~Linked(s, f) THEN d[f]
     ELSE Append(d[f], SessionPacket(r, s, f)) \o Only(r.host # 0, BindingPacket(r, s, f))]

Replayed(f, d) == d \o [k \in 1..Len(WorldState(cache)) |-> Scoped(relay, seat, f, WorldState(cache)[k])]

Forwarded(body) == [f \in Friends |-> IF Linked(seat, f) THEN Append(down[f], Scoped(relay, seat, f, body)) ELSE down[f]]

--------------------------------------------------------------------------
(* Membership                                                             *)

\* A Player hello.  The host's game is the one it was, or a new one; either way it retires its own world.
HostJoins(fresh) ==
  LET r == [relay EXCEPT !.session = left.sessions, !.host = relay.next, !.next = @ + 1]
      h == IF fresh THEN FreshHost
           ELSE [FreshHost EXCEPT !.epoch = host.epoch, !.seq = host.seq, !.spawned = host.spawned, !.slain = host.slain]
  IN  /\ ~HostOn
      /\ left.sessions > 0
      /\ left' = [left EXCEPT !.sessions = @ - 1]
      /\ relay' = r
      /\ cache' = NewIncarnation(cache)
      /\ host' = h
      /\ down' = Announced(r, seat, down)
      /\ UNCHANGED <<seat, hostOut, hostHp, friend, hpDown, ask>>

\* The host's connection closes or times out: removePeer, then the roster to whoever is left.
HostLeaves ==
  LET campaign == left.mode = "CampaignCoop"
      r == [relay EXCEPT !.session = 0, !.host = 0]
      s == IF campaign THEN [f \in Friends |-> Empty] ELSE seat
  IN  /\ HostOn
      /\ relay' = r
      /\ cache' = HostGone(cache, campaign)
      /\ seat' = s
      /\ hostOut' = <<>>
      /\ hostHp' = {}
      /\ down' = Announced(r, s, down)
      /\ UNCHANGED <<host, friend, hpDown, ask, left>>

\* The relay process starts again: nothing of it is kept, and its connection ids begin at 1.
RelayRestarts ==
  /\ relay.next > 1
  /\ left.restarts > 0
  /\ left' = [left EXCEPT !.restarts = @ - 1]
  /\ relay' = FreshRelay
  /\ cache' = EmptyCache
  /\ seat' = [f \in Friends |-> Empty]
  /\ hostOut' = <<>>
  /\ hostHp' = {}
  /\ UNCHANGED <<host, friend, down, hpDown, ask>>

\* A connection, its ClientHello, and what it is answered with.
DialRelay(f) ==
  LET wire == left.dials[f]
      s == [seat EXCEPT ![f] = [conn |-> relay.next, wire |-> wire, replayed |-> 0]]
      world == [k \in 1..Len(WorldState(cache)) |-> Scoped(relay, s, f, WorldState(cache)[k])]
  IN  /\ friend[f].net.wire = 0
      /\ ~friend[f].rt.over
      /\ ~Verified(seat, f)
      /\ wire > 0
      /\ left' = [left EXCEPT !.dials[f] = @ - 1]
      /\ relay' = [relay EXCEPT !.next = @ + 1]
      /\ seat' = s
      /\ friend' = [friend EXCEPT ![f] = Dialled(@, wire)]
      /\ down' = [Announced(relay, [s EXCEPT ![f] = Empty], down) EXCEPT
                    ![f] = <<SessionPacket(relay, s, f)>> \o Only(HostOn, BindingPacket(relay, s, f)) \o world]
      /\ hpDown' = [hpDown EXCEPT ![f] = {}]
      /\ UNCHANGED <<cache, host, hostOut, hostHp, ask>>

\* The relay notices that a friend's connection is gone, or gives it up.
SeatGone(f) ==
  LET s == [seat EXCEPT ![f] = Empty]
  IN  /\ Verified(seat, f)
      /\ seat' = s
      /\ down' = Announced(relay, s, down)
      /\ UNCHANGED <<relay, cache, host, hostOut, hostHp, friend, hpDown, ask, left>>

\* The friend's end notices.
LinkLost(f) ==
  /\ friend[f].net.wire # 0
  /\ friend' = [friend EXCEPT ![f] = Hung(@)]
  /\ down' = [down EXCEPT ![f] = <<>>]
  /\ hpDown' = [hpDown EXCEPT ![f] = {}]
  /\ ask' = [ask EXCEPT ![f] = 0]
  /\ UNCHANGED <<relay, cache, seat, host, hostOut, hostHp, left>>

\* The friend's runtime ends and another is started, beside the same game.
NewRuntime(f) ==
  /\ friend[f].rt # NewProcess
  /\ left.dials[f] > 0
  /\ friend' = [friend EXCEPT ![f].net = NoLink, ![f].rt = NewProcess, ![f].inbox = <<>>]
  /\ down' = [down EXCEPT ![f] = <<>>]
  /\ hpDown' = [hpDown EXCEPT ![f] = {}]
  /\ ask' = [ask EXCEPT ![f] = 0]
  /\ UNCHANGED <<relay, cache, seat, host, hostOut, hostHp, left>>

--------------------------------------------------------------------------
(* What the host publishes                                                *)

Publishes(body) ==
  /\ HostOn
  /\ Len(hostOut) < Backlog
  /\ left.facts > 0
  /\ left' = [left EXCEPT !.facts = @ - 1]
  /\ hostOut' = Append(hostOut, body)
  /\ UNCHANGED <<relay, cache, seat, hostHp, friend, down, hpDown, ask>>

\* The first update of a session is full.
HostSaves ==
  LET v == host.version + 1
      full == host.version = 0
  IN  /\ Publishes([t |-> "progress", version |-> v, full |-> full, spans |-> IF full THEN 1..v ELSE {v}])
      /\ host' = [host EXCEPT !.version = v]

\* A load, or the room it was in when its session began; progress goes first.
HostArrives(load) ==
  LET epoch == host.epoch + 1
      h == [host EXCEPT !.epoch = epoch, !.inRoom = TRUE, !.announced = {}, !.told = {}, !.sent = FALSE, !.heldHere = FALSE]
  IN  /\ host.version # 0
      /\ load \/ ~host.inRoom
      /\ Publishes([t |-> "room", epoch |-> epoch])
      /\ host' = IF load THEN [h EXCEPT !.spawned = {}, !.slain = {}] ELSE h

\* Everything not yet announced, with or without one more; an empty room says so once.
HostPopulates(born) ==
  LET spawned == host.spawned \cup (IF born THEN {Cardinality(host.spawned) + 1} ELSE {})
  IN  /\ host.inRoom
      /\ spawned # host.announced \/ ~host.sent
      /\ Publishes([t |-> "manifest", epoch |-> host.epoch, replace |-> ~host.sent, ids |-> spawned \ host.announced])
      /\ host' = [host EXCEPT !.spawned = spawned, !.announced = spawned, !.sent = TRUE]

HostBuries(id) ==
  /\ id \in host.announced \ host.told
  /\ Publishes([t |-> "death", epoch |-> host.epoch, id |-> id])
  /\ host' = [host EXCEPT !.slain = @ \cup {id}, !.told = @ \cup {id}]

HostHolds ==
  /\ host.inRoom
  /\ Publishes([t |-> "hold", epoch |-> host.epoch, active |-> ~host.held])
  /\ host' = [host EXCEPT !.held = ~@, !.heldHere = ~host.held]

\* Every living enemy, under the next source sequence.
HostSamples ==
  LET seq == host.seq + 1
      living == host.announced \ host.slain
      value == [epoch |-> host.epoch, seq |-> seq]
  IN  /\ HostOn
      /\ living # {}
      /\ left.samples > 0
      /\ left' = [left EXCEPT !.samples = @ - 1]
      /\ host' = [host EXCEPT !.seq = seq]
      /\ hostHp' = hostHp \cup {[t |-> "hp", epoch |-> host.epoch, seq |-> seq, hp |-> [i \in living |-> value]]}
      /\ UNCHANGED <<relay, cache, seat, hostOut, friend, down, hpDown, ask>>

--------------------------------------------------------------------------
(* The relay                                                              *)

RelayTakes ==
  LET m == Head(hostOut)
  IN  /\ hostOut # <<>>
      /\ hostOut' = Tail(hostOut)
      /\ cache' = IF Admits(cache, m) THEN Took(cache, m) ELSE cache
      /\ down' = IF Admits(cache, m) THEN Forwarded(m) ELSE down
      /\ UNCHANGED <<relay, seat, host, hostHp, friend, hpDown, ask, left>>

\* A sample arrives; what is forwarded of it stays unreliable.
RelaySamples(m) ==
  /\ hostHp' = hostHp \ {m}
  /\ cache' = IF Admits(cache, m) THEN Took(cache, m) ELSE cache
  /\ hpDown' = [f \in Friends |->
                  IF Admits(cache, m) /\ Linked(seat, f) THEN hpDown[f] \cup {Scoped(relay, seat, f, m)} ELSE hpDown[f]]
  /\ UNCHANGED <<relay, seat, host, hostOut, friend, down, ask, left>>

SampleLost(m) ==
  /\ hostHp' = hostHp \ {m}
  /\ UNCHANGED <<relay, cache, seat, host, hostOut, friend, down, hpDown, ask, left>>

\* RoomReplayRequest: for the room the relay is in, once per seat and epoch, to that seat alone.
RelayReplays(f) ==
  LET answered == Linked(seat, f) /\ cache.room # NoRoom /\ ask[f] = cache.room /\ seat[f].replayed # cache.room
  IN  /\ ask[f] # 0
      /\ ask' = [ask EXCEPT ![f] = 0]
      /\ seat' = IF answered THEN [seat EXCEPT ![f].replayed = cache.room] ELSE seat
      /\ down' = IF answered /\ HostOn THEN [down EXCEPT ![f] = Replayed(f, @)] ELSE down
      /\ UNCHANGED <<relay, cache, host, hostOut, hostHp, friend, hpDown, left>>

--------------------------------------------------------------------------
(* A friend                                                               *)

FriendStep(f, g) ==
  /\ friend' = [friend EXCEPT ![f] = g]
  /\ UNCHANGED <<relay, cache, seat, host, hostOut, hostHp>>

\* A changed world closes the link from this end, and what it carried is lost.
FriendHears(f) ==
  LET g == Heard(friend[f], Head(down[f]), TRUE)
      cut == g.net.wire = 0
  IN  /\ down[f] # <<>>
      /\ FriendStep(f, g)
      /\ down' = [down EXCEPT ![f] = IF cut THEN <<>> ELSE Tail(@)]
      /\ hpDown' = [hpDown EXCEPT ![f] = IF cut THEN {} ELSE @]
      /\ ask' = [ask EXCEPT ![f] = IF cut THEN 0 ELSE @]
      /\ UNCHANGED left

FriendHearsSample(f, m) ==
  /\ FriendStep(f, Heard(friend[f], m, FALSE))
  /\ hpDown' = [hpDown EXCEPT ![f] = @ \ {m}]
  /\ UNCHANGED <<down, ask, left>>

FriendMissesSample(f, m) ==
  /\ hpDown' = [hpDown EXCEPT ![f] = @ \ {m}]
  /\ UNCHANGED <<relay, cache, seat, host, hostOut, hostHp, friend, down, ask, left>>

\* The game is found.
Attach(f) ==
  /\ ~friend[f].rt.open
  /\ friend[f].rt # NewProcess \/ friend[f].net.wire # 0
  /\ FriendStep(f, Attached(friend[f]))
  /\ UNCHANGED <<down, hpDown, ask, left>>

Flush(f) ==
  /\ friend[f].inbox # <<>>
  /\ friend[f].rt.open
  /\ Len(friend[f].ring) < RingCapacity
  /\ FriendStep(f, Delivered(friend[f], friend[f].inbox))
  /\ UNCHANGED <<down, hpDown, ask, left>>

GameConsumes(f, safe) ==
  /\ friend[f].ring # <<>>
  /\ FriendStep(f, Consumed(friend[f], safe))
  /\ UNCHANGED <<down, hpDown, ask, left>>

\* A frame without packets.
GameChecks(f) ==
  /\ friend[f].dll.gen # friend[f].header.gen
  /\ FriendStep(f, Checked(friend[f]))
  /\ UNCHANGED <<down, hpDown, ask, left>>

\* The room was built for two and there are three, which is not modelled: once per build, again when nothing came.
GameAsks(f) ==
  LET d == friend[f].dll
  IN  /\ Armed(friend[f])
      /\ friend[f].net.ready
      /\ d.epoch # 0
      /\ ~d.hold
      /\ d.replay \in {"None", "Awaiting"}
      /\ ask[f] = 0
      /\ left.replays > 0
      /\ left' = [left EXCEPT !.replays = @ - 1]
      /\ ask' = [ask EXCEPT ![f] = d.epoch]
      /\ FriendStep(f, [friend[f] EXCEPT !.dll.replay = "Awaiting"])
      /\ UNCHANGED <<down, hpDown>>

\* Unsafe or out of patience: the arrived room is acknowledged again, and this build never asks again.
GameAbandons(f) ==
  /\ friend[f].dll.replay = "Awaiting"
  /\ FriendStep(f, [friend[f] EXCEPT !.dll.replay = "Closed"])
  /\ UNCHANGED <<down, hpDown, ask, left>>

--------------------------------------------------------------------------
HostNext ==
  \/ \E fresh \in BOOLEAN : HostJoins(fresh)
  \/ HostLeaves
  \/ HostSaves
  \/ \E load \in BOOLEAN : HostArrives(load)
  \/ \E born \in BOOLEAN : HostPopulates(born)
  \/ \E id \in host.announced : HostBuries(id)
  \/ HostHolds
  \/ HostSamples

RelayNext ==
  \/ RelayRestarts
  \/ RelayTakes
  \/ \E m \in hostHp : RelaySamples(m) \/ SampleLost(m)
  \/ \E f \in Friends : RelayReplays(f) \/ SeatGone(f)

FriendNext ==
  \E f \in Friends :
    \/ DialRelay(f)
    \/ LinkLost(f)
    \/ NewRuntime(f)
    \/ FriendHears(f)
    \/ \E m \in hpDown[f] : FriendHearsSample(f, m) \/ FriendMissesSample(f, m)
    \/ Attach(f)
    \/ Flush(f)
    \/ \E safe \in BOOLEAN : GameConsumes(f, safe)
    \/ GameChecks(f)
    \/ GameAsks(f)
    \/ GameAbandons(f)

Next == HostNext \/ RelayNext \/ FriendNext

Spec == Init /\ [][Next]_vars

--------------------------------------------------------------------------
(* Properties                                                             *)

Drained(f) ==
  /\ hostOut = <<>>
  /\ Linked(seat, f)
  /\ down[f] = <<>>
  /\ friend[f].inbox = <<>>
  /\ friend[f].ring = <<>>

Deaths(enemies) == {i \in DOMAIN enemies : enemies[i].dead}

\* Whoever is in the host's session and has heard everything on its way shows the host's world: a joiner, a
\* returner, a seat that replayed its room, and one whose game came after the network are all the same.
CaughtUp ==
  \A f \in Friends :
    LET d == friend[f].dll
    IN  HostOn /\ Drained(f) /\ friend[f].rt.open =>
          /\ Armed(friend[f])
          /\ d.version = host.version
          /\ d.progress = 1..host.version
          /\ d.epoch = (IF host.inRoom THEN host.epoch ELSE 0)
          /\ DOMAIN d.enemies = host.announced
          /\ Deaths(d.enemies) = host.told
          /\ d.hold = host.heldHere

\* While a game is armed for the runtime beside it, all it shows came over the connection that runtime has, in the
\* session that runtime is a member of; and an HP value is never relabelled: what is cached, and what a game shows, was
\* read in the room it stands for.
OfThisSession ==
  \A f \in Friends :
    LET g == friend[f]
    IN  g.rt.open /\ Armed(g) => g.dll.seen \subseteq {<<g.net.wire, g.rt.session>>}
HpOfThisRoom ==
  /\ \A i \in DOMAIN cache.hp : cache.hp[i].epoch = cache.room
  /\ \A f \in Friends : LET d == friend[f].dll
                        IN  \A i \in DOMAIN d.enemies : d.enemies[i].hp # <<>> => d.enemies[i].hp.epoch = d.epoch
NothingOfAnotherLife == OfThisSession /\ HpOfThisRoom

\* An enemy's HP, once shown, is never replaced by an older sample's, in whatever order the samples arrive.
HpNeverGoesBack ==
  [][\A f \in Friends :
       LET d == friend[f].dll
           e == friend'[f].dll
       IN  <<d.ordered, d.epoch>> = <<e.ordered, e.epoch>> =>
             \A i \in DOMAIN d.enemies \cap DOMAIN e.enemies :
               d.enemies[i].hp = <<>> \/ e.enemies[i].hp = <<>> \/ e.enemies[i].hp.seq >= d.enemies[i].hp.seq]_vars
=============================================================================
