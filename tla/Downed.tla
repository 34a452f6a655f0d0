------------------------------- MODULE Downed -------------------------------
(***************************************************************************)
(* Downed players and how they come back: the owner of a seat's downing in   *)
(* its game (DownedSpike.inl with the rules of DownedReturn.hpp and          *)
(* RevivePrompt.hpp), the relay that checks a revive request against the     *)
(* avatars it last heard (SessionHost.cpp), the target's client and its      *)
(* game's gate (NetworkClient.cpp, Revive.hpp, EnemySync.cpp).               *)
(*                                                                           *)
(* An episode names what a request may revive; a downing may go through      *)
(* several.  The relay, the client and the game's gate each spend an episode *)
(* before they pass it on.  Every downing is the logical one of a Roxas      *)
(* seat; no outage duty is open.  Timers are occasions of a frame.  Fields   *)
(* called "downing" outside the owner's record are history: the downing a    *)
(* sample, a claim or a request speaks of.                                   *)
(***************************************************************************)
EXTENDS Integers, Sequences, FiniteSets

CONSTANTS
  Host,        \* the host's seat
  Friends,     \* the other seats
  Place,       \* the room's identifier, of each generation of the host's room
  Attempts,    \* kReturnAttempts
  MaxEpisode,  \* bound on a seat's episodes
  Stories      \* bounds: lethal hits and events of each seat, poses that age out, victories,
               \* rooms, sessions; the difficulty's rule, a save point

Seats == {Host} \cup Friends

ASSUME DownedAssumption ==
  /\ Host \notin Friends
  /\ Attempts \in Nat \ {0}
  /\ MaxEpisode \in Nat
  /\ Stories \subseteq [hits : [Seats -> Nat], events : SUBSET (Seats \X {"camera", "cutscene"}),
                         lost : Nat, wins : Nat, rooms : Nat, sessions : Nat, partner : BOOLEAN,
                         savepoint : BOOLEAN]
  /\ \A story \in Stories : story.rooms + 1 \in DOMAIN Place

VARIABLES
  game,     \* each seat's game: its room's generation, the event it is in, dead natively
  own,      \* each seat's owner
  enc,      \* the host's PendingEncounter
  avatar,   \* the sample a seat last streamed, as its client and the relay keep it
  pose,     \* pose[s][t]: the teammate t as the game of s shows it
  relay,    \* revivedEpisode of each seat
  client,   \* receivedReviveEpisode_
  wire,     \* what the relay has sent to a seat
  inbox,    \* what the seat's client has queued for its game
  session,  \* the relay session's identity
  left      \* the story: what is left of each bound

vars == <<game, own, enc, avatar, pose, relay, client, wire, inbox, session, left>>

NoSample == [scoped |-> FALSE, cutscene |-> TRUE, room |-> 0, up |-> FALSE, down |-> FALSE,
             episode |-> 0, downing |-> 0]

NoOwed == [state |-> "none", session |-> 0, fallback |-> "none", downing |-> 0]

NoEnd == [downing |-> 0, room |-> 0, session |-> 0]

NoEncounter == [armed |-> FALSE, sending |-> FALSE, room |-> 0, claims |-> {}]

NoAvatars == [t \in Seats |-> NoSample]

\* What a game reads of a teammate's sample.
PoseOf(a) == [room |-> a.room, down |-> a.down, episode |-> a.episode, downing |-> a.downing]

NoPose == PoseOf(NoSample)

NoPoses == [t \in Seats |-> NoPose]

NewOwner ==
  [down |-> FALSE, episode |-> 0, downing |-> 0, room |-> 0, session |-> 0, latch |-> "unseen",
   seen |-> 0, next |-> "none", owed |-> NoOwed, end |-> NoEnd, consumed |-> 0,
   fired |-> [t \in Seats |-> 0], asked |-> [t \in Seats |-> [episode |-> 0, times |-> 0]],
   astray |-> FALSE]

Init ==
  /\ game = [s \in Seats |-> [room |-> 1, event |-> "none", dead |-> FALSE]]
  /\ own = [s \in Seats |-> NewOwner]
  /\ enc = NoEncounter
  /\ avatar = NoAvatars
  /\ pose = [s \in Seats |-> NoPoses]
  /\ relay = [s \in Seats |-> 0]
  /\ client = [s \in Seats |-> 0]
  /\ wire = [s \in Seats |-> <<>>]
  /\ inbox = [s \in Seats |-> <<>>]
  /\ session = 1
  /\ left \in Stories

-----------------------------------------------------------------------------
(* One seat's downing.  "o" is an owner's record.                            *)

InEvent(s) == game[s].event # "none"

InField(s) == ~InEvent(s) /\ ~game[s].dead

\* CaptureDownedScope: gameplay, a camera the game's own script holds included, in the host's room.
Scoped(s) == game[s].event # "cutscene" /\ game[s].room = game[Host].room

NextEpisodeLost(o, s) ==                                \* mutant: the episode is the room's
  [o EXCEPT !.down = TRUE, !.downing = @ + 1, !.room = game[s].room, !.session = session,
            !.episode = IF o.room = game[s].room THEN @ ELSE @ + 1,
            !.latch = "unseen", !.owed = NoOwed]

BeginDowned(o, s) ==
  [o EXCEPT !.down = TRUE, !.downing = @ + 1, !.episode = @ + 1, !.room = game[s].room,
            !.session = session, !.latch = "unseen", !.owed = NoOwed]

Remint(o) == IF o.episode < MaxEpisode THEN [o EXCEPT !.episode = @ + 1] ELSE o

\* The player is brought back, by what was meant for the downing "meant".
Rise(o, meant) == [o EXCEPT !.down = FALSE, !.latch = "unseen", !.astray = @ \/ meant # o.downing]

Owe(o, meant) ==
  IF o.owed.state # "none" THEN o
  ELSE [o EXCEPT !.owed = [state |-> "owed", session |-> session, fallback |-> "none",
                           downing |-> meant]]

-----------------------------------------------------------------------------
(* The owner's frame, in its order.                                          *)

Shown(s) == {t \in Seats \ {s} : pose[s][t] # NoPose}

Observe(o, s) ==
  [o EXCEPT !.seen = IF Shown(s) # {} THEN session ELSE @,
            !.latch = IF ~o.down \/ Shown(s) = {} THEN @
                      ELSE IF \A t \in Shown(s) : pose[s][t].down THEN "alldown" ELSE "up"]

HostEndFor(o, s) ==
  /\ o.down
  /\ o.end.downing = o.downing
  /\ o.end.room = game[s].room /\ o.end.room = o.room
  /\ o.end.session = session /\ o.session = session

JudgeEnd(o, s) ==
  IF o.end = NoEnd THEN o
  ELSE [(IF HostEndFor(o, s) THEN Owe(o, o.end.downing) ELSE o) EXCEPT !.end = NoEnd]

SitOutAfterTransition(o) ==
  IF o.latch = "unseen" THEN IF o.seen = session THEN "sitout" ELSE "resolve"
  ELSE IF o.latch = "alldown" THEN "resolve" ELSE "sitout"

LoseWithoutReceipt(o) ==                                \* mutant: the receipt is not carried
  [o EXCEPT !.down = FALSE, !.latch = "unseen", !.next = SitOutAfterTransition(o)]

\* The room changed under a downing: AfterTransitionFor.
LoseHold(o) ==
  LET plain == SitOutAfterTransition(o)
      lost == [o EXCEPT !.down = FALSE, !.latch = "unseen"]
  IN  IF o.owed.state = "none" THEN [lost EXCEPT !.next = plain]
      ELSE [lost EXCEPT !.next = "none", !.owed.state = "carried", !.owed.fallback = plain]

EveryoneDown(o, s) ==
  LET here == {t \in Shown(s) : Place[pose[s][t].room] = Place[game[s].room]}
  IN  o.seen # session \/ (here # {} /\ \A t \in here : pose[s][t].down)

\* The host takes the native game over once everyone has been down for a second.
TakesOver(o, s, occasion) ==
  s = Host /\ occasion = "second" /\ o.down /\ o.room = game[s].room /\ EveryoneDown(o, s)

Held(o, s, occasion) ==
  IF ~o.down THEN o
  ELSE IF o.room # game[s].room THEN LoseHold(o)
  ELSE IF TakesOver(o, s, occasion) THEN [o EXCEPT !.down = FALSE, !.latch = "unseen", !.owed = NoOwed]
  ELSE IF occasion = "remint" THEN Remint(o)
  ELSE o

\* OwedReturn::Frame, and the one attempt or the resolve it asks for.
OwedTick(o, s, ready) ==
  LET carried == o.owed.state = "carried"
      done == [o EXCEPT !.owed = NoOwed]
  IN  IF o.owed.state = "none" THEN o
      ELSE IF o.owed.session # session
        THEN IF carried THEN [done EXCEPT !.next = o.owed.fallback] ELSE done
      ELSE IF carried THEN IF ~o.down /\ InField(s) THEN Rise(done, o.owed.downing) ELSE o
      ELSE IF ~o.down THEN done
      ELSE IF ready /\ ~InEvent(s) THEN Rise(done, o.owed.downing) ELSE o

\* The room change's own rule, on the first settled frame of the new room.
Settle(o, s) ==
  IF o.next = "none" \/ o.down \/ ~InField(s) THEN o
  ELSE IF o.next = "resolve" THEN [o EXCEPT !.next = "none"]
  ELSE IF o.episode < MaxEpisode THEN BeginDowned([o EXCEPT !.next = "none"], s) ELSE o

Publishes(o, s) == Scoped(s) /\ (o.down \/ ~game[s].dead)

\* LivingGate: up and published as such, for a while when the occasion says so.
Living(o, s) == ~o.down /\ Publishes(o, s)

-----------------------------------------------------------------------------
(* What the frame asks of the relay.  A request reaches it in that frame.    *)

DownHere(s) ==
  {t \in Shown(s) : pose[s][t].down /\ pose[s][t].episode # 0
                    /\ Place[pose[s][t].room] = Place[game[s].room]}

Request(s, t, episode, downing, kind) ==
  [from |-> s, target |-> t, episode |-> episode, downing |-> downing, kind |-> kind,
   room |-> game[s].room]

\* The prompt at the teammate "t": one request for an episode.
Prompts(o, s, t, occasion) ==
  /\ occasion = "ask"
  /\ left.partner /\ ~o.down /\ InField(s)
  /\ t \in DownHere(s)
  /\ o.fired[t] # pose[s][t].episode

\* ReturnLatch::Take: an episode's first request, then a bounded retry.
MayTake(o, t, episode, occasion) ==
  \/ o.asked[t].episode # episode
  \/ o.asked[t].times < Attempts /\ occasion \in {"retry", "save"}

Took(o, wants) ==
  [o EXCEPT !.asked = [t \in Seats |->
     IF t \notin DOMAIN wants THEN @[t]
     ELSE [episode |-> wants[t],
           times |-> IF @[t].episode = wants[t] THEN @[t].times + 1 ELSE 1]]]

\* The encounter is beaten: the forced battle's edge, or the mission's end.
Wins(s, occasion) ==
  s = Host /\ left.wins > 0 /\ (occasion = "mission" \/ (occasion = "cage" /\ InField(s)))

Arm(s) ==
  [armed |-> TRUE, sending |-> FALSE, room |-> game[s].room,
   claims |-> IF ~Scoped(s) THEN {}
              ELSE {[seat |-> t, session |-> session, episode |-> pose[s][t].episode,
                     downing |-> pose[s][t].downing] : t \in DownHere(s)}]

CheckClaim(c, s) ==
  LET p == pose[s][c.seat]
  IN  IF Scoped(s) /\ c.session # session THEN "drop"
      ELSE IF p = NoPose THEN "keep"
      ELSE IF ~p.down \/ p.episode # c.episode THEN "drop"
      ELSE IF Scoped(s) /\ c.seat \in DownHere(s) THEN "send" ELSE "keep"

\* PendingEncounter::Tick
Sends(e, s, lives, occasion) ==
  e.armed /\ e.room = game[s].room /\ (e.sending \/ lives) /\ e.claims # {} /\ occasion # "expire"

Ticked(e, s, lives, occasion) ==
  IF Sends(e, s, lives, occasion)
    THEN [e EXCEPT !.sending = TRUE, !.claims = {c \in @ : CheckClaim(c, s) # "drop"}]
  ELSE IF e.armed /\ e.room = game[s].room /\ ~e.sending /\ ~lives THEN e
  ELSE NoEncounter

-----------------------------------------------------------------------------
(* The relay, and the target.                                                *)

AcceptsAgain(r) ==                                      \* mutant: the episode is not reserved
  LET from == avatar[r.from]
      target == avatar[r.target]
  IN  /\ game[Host].event # "cutscene"
      /\ r.room = game[Host].room
      /\ \A a \in {from, target} : a.scoped /\ a.room = r.room /\ ~a.cutscene
      /\ from.up /\ target.down
      /\ r.episode = target.episode

Accepts(r) ==
  LET from == avatar[r.from]
      target == avatar[r.target]
  IN  /\ game[Host].event # "cutscene"
      /\ r.room = game[Host].room
      /\ \A a \in {from, target} : a.scoped /\ a.room = r.room /\ ~a.cutscene
      /\ from.up /\ target.down
      /\ r.episode = target.episode
      /\ r.episode > relay[r.target]

\* Of a frame's requests for one target the first reserves the episode, and goes on.
Forwarded(requests) ==
  {r \in requests :
     /\ Accepts(r)
     /\ ~\E q \in requests : q.target = r.target /\ q.kind = "partner" /\ q # r /\ Accepts(q)}

\* AdmitReviveRequest and ReviveOwnerGate, against what the frame has published.
Gate(o, s, m) ==
  /\ Scoped(s) /\ o.down
  /\ m.room = game[s].room
  /\ m.episode = o.episode /\ m.episode > o.consumed

\* ApplyReviveRequest, by a native owner that is ready or not.
Apply(o, s, m, ready) ==
  LET partner == m.kind = "partner"
  IN  IF partner /\ ~left.partner THEN Remint(o)
      ELSE IF ready /\ ~InEvent(s) THEN Rise(o, m.downing)
      ELSE IF InEvent(s) /\ ~partner /\ o.owed.state = "none" THEN Owe(o, m.downing)
      ELSE Remint(o)

\* The game takes the message at the head of its inbox, if there is one.
Drained(o, s, ready) ==
  IF inbox[s] = <<>> THEN o
  ELSE LET m == Head(inbox[s])
       IN  IF m.kind = "end"
             THEN IF m.room # game[s].room THEN o
                  ELSE [o EXCEPT !.end = [downing |-> IF o.down THEN o.downing ELSE 0,
                                          room |-> m.room, session |-> session]]
             ELSE IF Gate(o, s, m) THEN Apply([o EXCEPT !.consumed = m.episode], s, m, ready) ELSE o

-----------------------------------------------------------------------------
(* Steps                                                                     *)

\* The occasions that can make a difference to a frame of "s".
Occasions(s) ==
  {"none"} \cup (IF own[s].down THEN {"remint"} ELSE {})
           \cup (IF left.savepoint /\ ~own[s].down THEN {"save"} ELSE {})
           \cup (IF s = Host /\ own[s].down THEN {"second"} ELSE {})
           \cup (IF s = Host /\ enc.armed THEN {"settle", "retry", "expire"} ELSE {})
           \cup (IF s = Host /\ left.wins > 0 THEN {"cage", "mission"} ELSE {})

\* Whether the native owner lets a revive through, where the frame may try one.
Readiness(s) ==
  IF /\ own[s].owed = NoOwed /\ own[s].end = NoEnd
     /\ inbox[s] = <<>>
     /\ ~(s = Host /\ left.wins > 0 /\ own[s].down)
    THEN {TRUE} ELSE BOOLEAN

\* At most one of a frame's messages is for "u".
For(u, messages) == CHOOSE m \in messages : m.target = u

To(u, messages) == IF \E m \in messages : m.target = u THEN <<For(u, messages)>> ELSE <<>>

\* One frame of the game of "s": the owner's tick, its requests, the inbox.
Frame(s, occasion, ready, t) ==
  LET seen   == pose[s]
      judged == IF s = Host THEN Observe(own[s], s) ELSE JudgeEnd(Observe(own[s], s), s)
      takes  == TakesOver(judged, s, occasion)
      ticked == Settle(OwedTick(Held(judged, s, occasion), s, ready), s)
      lives  == Living(ticked, s) /\ occasion \in {"settle", "save"}
      asks   == Prompts(ticked, s, t, occasion)
      asked  == IF asks THEN [ticked EXCEPT !.fired[t] = seen[t].episode] ELSE ticked
      wins   == Wins(s, occasion) /\ ~enc.armed
      fresh  == IF wins THEN Arm(s) ELSE enc
      risen  == IF ~wins \/ ~asked.down THEN asked
                ELSE IF InEvent(s) THEN Owe(asked, asked.downing)
                ELSE IF ready THEN Rise(asked, asked.downing) ELSE asked
      claims == IF s = Host /\ Sends(fresh, s, lives, occasion)
                THEN {c \in fresh.claims : /\ CheckClaim(c, s) = "send"
                                           /\ MayTake(asked, c.seat, c.episode, occasion)}
                ELSE {}
      saves  == IF occasion = "save" /\ left.savepoint /\ lives /\ InField(s)
                THEN {u \in DownHere(s) : MayTake(asked, u, seen[u].episode, occasion)}
                ELSE {}
      wants  == [u \in {c.seat : c \in claims} \cup saves |-> seen[u].episode]
      out    == IF ~Scoped(s) THEN {}              \* SendReviveRequest needs a checked scope
                ELSE {Request(s, u, seen[u].episode, seen[u].downing, "partner") : u \in IF asks THEN {t} ELSE {}}
                     \cup {Request(s, c.seat, c.episode, c.downing, "return") : c \in claims}
                     \cup {Request(s, u, seen[u].episode, seen[u].downing, "return") : u \in saves}
      sent   == Forwarded(out)
      ends   == {[kind |-> "end", target |-> u, room |-> game[Host].room] :
                   u \in IF occasion = "mission" THEN Friends ELSE {}}
  IN  /\ occasion \in {"cage", "mission"} => Wins(s, occasion)
      /\ own' = [own EXCEPT ![s] = Drained(Took(risen, wants), s, ready)]
      /\ enc' = IF s = Host THEN Ticked(fresh, s, lives, occasion) ELSE enc
      /\ game' = IF takes THEN [game EXCEPT ![s].dead = TRUE] ELSE game
      /\ relay' = [u \in Seats |-> IF \E r \in sent : r.target = u THEN For(u, sent).episode
                                   ELSE relay[u]]
      /\ wire' = [u \in Seats |-> wire[u] \o To(u, ends) \o To(u, sent)]
      /\ inbox' = IF inbox[s] = <<>> THEN inbox ELSE [inbox EXCEPT ![s] = Tail(@)]
      /\ left' = IF occasion \in {"cage", "mission"} THEN [left EXCEPT !.wins = @ - 1] ELSE left
      /\ UNCHANGED <<avatar, pose, client, session>>

\* A lethal hit on the local player.
LethalHit(s) ==
  /\ left.hits[s] > 0
  /\ ~own[s].down /\ ~game[s].dead
  /\ own[s].episode < MaxEpisode
  /\ own' = [own EXCEPT ![s] = BeginDowned(@, s)]
  /\ left' = [left EXCEPT !.hits[s] = @ - 1]
  /\ UNCHANGED <<game, enc, avatar, pose, relay, client, wire, inbox, session>>

\* The host's game loads a room: a door, a story's change, Continue after its death.
HostMoves ==
  /\ left.rooms > 0
  /\ game' = [game EXCEPT ![Host] = [room |-> @.room + 1, event |-> "none", dead |-> FALSE]]
  /\ pose' = [pose EXCEPT ![Host] = NoPoses]
  /\ left' = [left EXCEPT !.rooms = @ - 1]
  /\ UNCHANGED <<own, enc, avatar, relay, client, wire, inbox, session>>

Follow(f) ==
  /\ game[f].room # game[Host].room
  /\ game' = [game EXCEPT ![f] = [room |-> game[Host].room, event |-> "none", dead |-> FALSE]]
  /\ pose' = [pose EXCEPT ![f] = NoPoses]
  /\ UNCHANGED <<own, enc, avatar, relay, client, wire, inbox, session, left>>

EventStarts(s, event) ==
  /\ <<s, event>> \in left.events /\ ~InEvent(s) /\ ~game[s].dead
  /\ game' = [game EXCEPT ![s].event = event]
  /\ left' = [left EXCEPT !.events = @ \ {<<s, event>>}]
  /\ UNCHANGED <<own, enc, avatar, pose, relay, client, wire, inbox, session>>

EventEnds(s) ==
  /\ InEvent(s)
  /\ game' = [game EXCEPT ![s].event = "none"]
  /\ UNCHANGED <<own, enc, avatar, pose, relay, client, wire, inbox, session, left>>

\* The runtime streams the local avatar with what its owner published.
Sample(s) ==
  LET down == own[s].down /\ Publishes(own[s], s)
      now  == [scoped |-> Publishes(own[s], s), cutscene |-> game[s].event = "cutscene",
               room |-> game[s].room, up |-> ~own[s].down /\ ~game[s].dead, down |-> down,
               episode |-> IF down THEN own[s].episode ELSE 0,
               downing |-> IF down THEN own[s].downing ELSE 0]
  IN  /\ avatar[s] # now
      /\ avatar' = [avatar EXCEPT ![s] = now]
      /\ UNCHANGED <<game, own, enc, pose, relay, client, wire, inbox, session, left>>

\* The pose of "t" reaches the game of "s", an active one or none.
Pose(s, t) ==
  LET shown == IF avatar[t] # NoSample /\ ~avatar[t].cutscene
                  /\ Place[avatar[t].room] = Place[game[s].room]
               THEN PoseOf(avatar[t]) ELSE NoPose
  IN  /\ pose[s][t] # shown
      /\ pose' = [pose EXCEPT ![s][t] = shown]
      /\ UNCHANGED <<game, own, enc, avatar, relay, client, wire, inbox, session, left>>

\* The poses stop coming: it ages out.
PoseLost(s, t) ==
  /\ left.lost > 0 /\ pose[s][t] # NoPose
  /\ pose' = [pose EXCEPT ![s][t] = NoPose]
  /\ left' = [left EXCEPT !.lost = @ - 1]
  /\ UNCHANGED <<game, own, enc, avatar, relay, client, wire, inbox, session>>

\* The client of "s" takes the next message, and checks a request against its own avatar.
Delivered(s, m) ==
  \/ m.kind = "end"
  \/ /\ avatar[s].down /\ ~avatar[s].cutscene
     /\ avatar[s].room = m.room /\ avatar[s].episode = m.episode
     /\ m.episode > client[s]

Deliver(s) ==
  /\ wire[s] # <<>>
  /\ LET m == Head(wire[s])
     IN  /\ inbox' = IF Delivered(s, m) THEN [inbox EXCEPT ![s] = Append(@, m)] ELSE inbox
         /\ client' = IF Delivered(s, m) /\ m.kind # "end" THEN [client EXCEPT ![s] = m.episode] ELSE client
  /\ wire' = [wire EXCEPT ![s] = Tail(@)]
  /\ UNCHANGED <<game, own, enc, avatar, pose, relay, session, left>>

\* Another session of the relay: every game keeps its owner, and with it the episodes.
NewSession ==
  /\ left.sessions > 0
  /\ session' = session + 1
  /\ left' = [left EXCEPT !.sessions = @ - 1]
  /\ avatar' = NoAvatars
  /\ pose' = [s \in Seats |-> NoPoses]
  /\ relay' = [s \in Seats |-> 0]
  /\ client' = [s \in Seats |-> 0]
  /\ wire' = [s \in Seats |-> <<>>]
  /\ inbox' = [s \in Seats |-> <<>>]
  /\ UNCHANGED <<game, own, enc>>

Next ==
  \/ \E s \in Seats : \E ready \in Readiness(s) :
       \/ \E occasion \in Occasions(s) : Frame(s, occasion, ready, s)
       \/ \E t \in Seats \ {s} : left.partner /\ Frame(s, "ask", ready, t)
  \/ \E s \in Seats : LethalHit(s) \/ EventEnds(s) \/ Sample(s) \/ Deliver(s)
  \/ \E s \in Seats, event \in {"camera", "cutscene"} : EventStarts(s, event)
  \/ \E s \in Seats, t \in Seats : s # t /\ (Pose(s, t) \/ PoseLost(s, t))
  \/ HostMoves
  \/ \E f \in Friends : Follow(f)
  \/ NewSession

Spec == Init /\ [][Next]_vars

-----------------------------------------------------------------------------
(* Properties                                                                *)

\* A player is brought back only by what was meant for the downing it is in: a
\* request, a claim, a receipt or the host's end that outlived a downing, a room
\* or a session never raises the player from a later one.
RisesForItsOwnDowning == \A s \in Seats : ~own[s].astray

\* A return that is owed brings its player back, in this room or the next: it ends
\* with the player up and nothing left to hold it down, unless another session
\* revokes it, the host takes the game over, or a new downing replaces it.
ReturnIsHonoured ==
  [][\A s \in Seats :
       own[s].owed.state # "none" /\ own'[s].owed.state = "none" =>
         \/ ~own'[s].down /\ own'[s].next = "none"
         \/ own'[s].downing # own[s].downing
         \/ own[s].owed.session # session
         \/ game'[s].dead]_vars

\* The requests on their way to a player name rising episodes, none twice: the
\* relay reserves an episode before it sends, so two teammates, or a prompt, a
\* victory and a save point of one, never bring a player back twice.
RequestsAreUnspent ==
  \A s \in Seats :
    LET onTheWay == inbox[s] \o wire[s]
        requests == {i \in DOMAIN onTheWay : onTheWay[i].kind # "end"}
    IN  /\ \A i, j \in requests : i < j => onTheWay[i].episode < onTheWay[j].episode
        /\ \A i \in requests : onTheWay[i].episode <= relay[s]

=============================================================================
