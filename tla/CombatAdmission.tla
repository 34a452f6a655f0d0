-------------------------- MODULE CombatAdmission --------------------------
(***************************************************************************)
(* CombatAdmission.hpp, CombatAdmissionNative.hpp: the barrier that keeps    *)
(* the host's party and boss frozen at the end of the Axel II intro until    *)
(* every admitted friend has arrived, or until something ends the wait.      *)
(*                                                                           *)
(* Everything the host does runs on the game's own thread: hooked native     *)
(* calls, the frame and the input poll are one action each.  Around it are   *)
(* the native game, the relay that checks a friend's acknowledgement, and    *)
(* the friends, who follow the announced room, arrive, acknowledge, leave    *)
(* and come back.                                                            *)
(*                                                                           *)
(* A native group is frozen by a bit of the game's mask.  Here the mask is   *)
(* a function to who froze the group last, so that a release of somebody     *)
(* else's freeze can be told from a release of the barrier's own.            *)
(***************************************************************************)
EXTENDS Integers, Sequences, FiniteSets

CONSTANTS
  Seats,           \* the friends' slots
  DeadlineTicks,   \* DeadlineMs, in clock ticks
  Stories          \* who is there at first, and how much may happen

\* The bounds: native room requests, events the game installs in mid-room,
\* world session identities of the host, connections and deliveries of a slot.
ASSUME BoundsAssumption ==
  /\ IsFiniteSet(Seats) /\ Seats # {}
  /\ DeadlineTicks \in Nat \ {0}
  /\ Stories \subseteq [party : SUBSET Seats, transitions : Nat, events : Nat, sessions : Nat,
                       conns : [Seats -> Nat]]

VARIABLES
  game,       \* the host's native game, with the serials Warp.cpp counts
  host,       \* EnemySync's room publication and world session
  armed,      \* Machine::armed_
  lease,      \* Machine::lease_, and the ticks since its first deferral
  unload,     \* Shutdown(): not asked, asked, or the hooks are off
  view,       \* the connection of each slot, as the host's bridge shows it
  relay,      \* the relay: the admitted room and each slot's connection
  friend,     \* each friend's DLL: the room it follows
  inbox,      \* acknowledgements the relay forwarded to the host
  arrivals,   \* history: who arrived on which connection for which challenge
  story       \* the bounds, and how many more events the game may install

gameVars == <<game, host, armed, lease>>
netVars == <<view, relay, friend, inbox, arrivals>>
vars == <<game, host, armed, lease, unload, view, relay, friend, inbox, arrivals, story>>

-----------------------------------------------------------------------------
(* Native state *)

Groups == {0, 1, 3, 4}         \* player, party, boss, small enemies
DeferrableGroups == {0, 1}
OwnableGroups == {3, 4}

Rooms == {"mansion", "axel"}   \* "mansion": the only source that arms
Events == {"none", "freezes", "spares"}   \* whether the installed one froze the party

Frozen(g) == {k \in Groups : g.by[k] # "nobody"}

Freeze(g, ks, who) == [g EXCEPT !.by = [k \in Groups |-> IF k \in ks THEN who ELSE @[k]]]

Unfreeze(g, ks) == Freeze(g, ks, "nobody")

\* The context stays installed until its owner clears it after the teardown.
EventInstalled(g) == g.event # "none"

-----------------------------------------------------------------------------
(* The lease *)

NoSeat == [connection |-> 0, required |-> FALSE, acked |-> FALSE]

NoLease ==
  [phase |-> "idle", outcome |-> "none", load |-> 0, transition |-> 0, session |-> 0,
   challenge |-> 0, epoch |-> 0, deferred |-> {}, owned |-> {}, age |-> 0,
   seats |-> [s \in Seats |-> NoSeat]]

NotArmed == [state |-> "no", transition |-> 0, load |-> 0]

Live == lease.phase \in {"held", "releasing"}

HeldGroups(l) == l.deferred \cup l.owned

AnySeatMissing(l) ==        \* mutant: one friend's arrival is enough
  \A s \in Seats : l.seats[s].required => ~l.seats[s].acked

Missing(l) == \E s \in Seats : l.seats[s].required /\ ~l.seats[s].acked

SeatLost(l) ==
  \E s \in Seats : l.seats[s].required /\ view[s] # l.seats[s].connection

DecideAgain(l, outcome) ==    \* mutant: the last writer wins
  IF l.phase \in {"held", "releasing"}
    THEN [l EXCEPT !.phase = "releasing", !.outcome = outcome] ELSE l

\* First writer wins; only a held lease can be decided.
Decide(l, outcome) ==
  IF l.phase = "held" THEN [l EXCEPT !.phase = "releasing", !.outcome = outcome] ELSE l

OverdueOnceAnnounced(l) ==    \* mutant: a hold never announced never expires
  l.epoch # 0 /\ l.age >= DeadlineTicks

Overdue(l) == l.age >= DeadlineTicks

(* The reasons in the order the code asks for them.  Whether the host is    *)
(* down, and whether a friend is down in this lease's own room, are inputs.  *)
Evaluate(l, g, hostDowned, peerDowned) ==
  IF g.load # l.load THEN "load changed"
  ELSE IF g.transition # l.transition THEN "transition"
  ELSE IF ~EventInstalled(g) /\ Frozen(g) \cap l.deferred = {} THEN "native cleared"
  ELSE IF host.session # l.session THEN "session retired"
  ELSE IF SeatLost(l) THEN "seat lost"
  ELSE IF hostDowned THEN "host downed"
  ELSE IF l.epoch # 0 /\ peerDowned THEN "peer downed"
  ELSE IF l.epoch # 0 /\ ~Missing(l) THEN "arrived"
  ELSE IF Overdue(l) THEN "deadline"
  ELSE "none"

EventOwnsPartyNever(g) == FALSE     \* mutant: released through any event

\* A freezing event owns the party's bits until its context clears.
EventOwnsParty(g) == g.event = "freezes"

\* What nothing reads again is forgotten, the failure's name included.
Done(l) ==
  LET over == [NoLease EXCEPT !.phase = "done", !.challenge = l.challenge, !.epoch = l.epoch]
  IN  IF l.outcome = "arrived" THEN [over EXCEPT !.outcome = "arrived", !.seats = l.seats]
      ELSE [over EXCEPT !.outcome = "failed"]

\* The adapter replays the release in one pass: 0, 1, then 3, 4.
Release(l, g) ==
  [lease |-> Done(l), game |-> Unfreeze(g, Frozen(g) \cap HeldGroups(l))]

Retire(l, g) == [lease |-> Done(l), game |-> g]

ReleasingBossFirst(l, g) ==   \* mutant: the lease's own groups do not wait
  IF l.phase # "releasing" THEN [lease |-> l, game |-> g]
  ELSE IF g.load # l.load THEN Retire(l, g)
  ELSE IF EventOwnsParty(g) THEN [lease |-> l, game |-> Unfreeze(g, Frozen(g) \cap l.owned)]
  ELSE Release(l, g)

Releasing(l, g) ==
  IF l.phase # "releasing" THEN [lease |-> l, game |-> g]
  ELSE IF g.load # l.load THEN Retire(l, g)
  ELSE IF EventOwnsParty(g) THEN [lease |-> l, game |-> g]
  ELSE Release(l, g)

\* ServiceOwner(), on a lease and a game as the caller leaves them.
Serviced(l, g, hostDowned, peerDowned) ==
  LET asked == IF unload = "asked" THEN Decide(l, "shutdown") ELSE l
      reason == Evaluate(asked, g, hostDowned, peerDowned)
      decided == IF asked.phase = "held" /\ reason # "none" THEN Decide(asked, reason) ELSE asked
  IN  Releasing(decided, g)

Service(l, g, hostDowned, peerDowned) ==
  /\ peerDowned => \E s \in Seats : friend[s].arrived /\ friend[s].epoch = l.epoch
  /\ LET after == Serviced(l, g, hostDowned, peerDowned)
     IN  lease' = after.lease /\ game' = after.game

-----------------------------------------------------------------------------
NewFriend == [epoch |-> 0, challenge |-> 0, arrived |-> FALSE, acked |-> FALSE]

NoRoom == [epoch |-> 0, challenge |-> 0]

FirstRoster == [s \in Seats |-> IF s \in story.party THEN 1 ELSE 0]

\* The host stands in the mansion, its room published; one connection each.
Init ==
  /\ story \in Stories
  /\ game = [load |-> 1, transition |-> 0, pending |-> FALSE, target |-> "mansion",
             room |-> "mansion", event |-> "none", ending |-> FALSE, by |-> [k \in Groups |-> "nobody"]]
  /\ host = [session |-> 1, epoch |-> 0, begin |-> FALSE, load |-> 1, leases |-> 0]
  /\ armed = NotArmed
  /\ lease = NoLease
  /\ unload = "no"
  /\ view = FirstRoster
  /\ relay = [room |-> NoRoom, connection |-> FirstRoster,
              next |-> [s \in Seats |-> FirstRoster[s] + 1]]
  /\ friend = [s \in Seats |-> NewFriend]
  /\ inbox = <<>>
  /\ arrivals = {}

-----------------------------------------------------------------------------
(* The native game and the calls it makes into the barrier *)

Arms(to) == game.room = "mansion" /\ to = "axel"

\* The hooked room request: decide and release first, then arm, then forward.
Request(to) ==
  LET begun == [game EXCEPT !.transition = @ + 1, !.pending = TRUE, !.target = to]
  IN  /\ game.transition < story.transitions
      /\ IF lease.phase = "held"
           THEN Service(Decide(lease, "transition"), begun, FALSE, FALSE)
           ELSE game' = begun /\ UNCHANGED lease
      /\ armed' = IF Arms(to)
                    THEN [state |-> "requested", transition |-> begun.transition, load |-> 0]
                    ELSE NotArmed
      /\ UNCHANGED <<host, unload, netVars, story>>

\* The end of a load clears the mask and installs the room's event, and the
\* room itself may freeze the boss; the hook then retires an older lease and
\* binds an armed request.
Loaded(event, scripted) ==
  LET froze == [k \in Groups |-> IF k \in scripted THEN "script"
                                 ELSE IF event = "freezes" /\ k \in DeferrableGroups THEN "event"
                                 ELSE "nobody"]
  IN  [game EXCEPT !.load = @ + 1, !.pending = FALSE, !.room = game.target,
                   !.event = event, !.ending = FALSE, !.by = froze]

NoteLoad(l) == IF Live /\ l.load # game.load + 1 THEN Retire(Decide(l, "load changed"), game).lease ELSE l

LoadCompletes ==
  /\ game.pending
  /\ \E event \in Events, scripted \in SUBSET {3} :
       /\ game.target # "axel" => event = "none" /\ scripted = {}
       /\ game' = Loaded(event, scripted)
  /\ lease' = NoteLoad(lease)
  /\ armed' = IF armed.state # "no" /\ armed.transition = game.transition
                THEN [armed EXCEPT !.state = "bound", !.load = game.load + 1]
                ELSE NotArmed
  /\ UNCHANGED <<host, unload, netVars, story>>

EventStarts ==
  /\ story.events > 0 /\ game.room = "axel" /\ ~EventInstalled(game)
  /\ \E event \in {"freezes", "spares"} :
       LET installed == [game EXCEPT !.event = event]
       IN  game' = IF event = "freezes"
                     THEN Freeze(installed, DeferrableGroups, "event") ELSE installed
  /\ story' = [story EXCEPT !.events = @ - 1]
  /\ UNCHANGED <<host, armed, lease, unload, netVars>>

\* OnUnfreeze() for group 0 of an event's teardown.
Deferrable ==
  /\ ~Live
  /\ armed.state = "bound" /\ armed.load = game.load /\ armed.transition = game.transition
  /\ ~game.pending /\ game.room = "axel"
  /\ host.begin
  /\ \E s \in Seats : view[s] # 0

NewLeaseReadBack(owned) ==    \* mutant: what is frozen now, not what the lease froze
  [NoLease EXCEPT
     !.phase = "held", !.load = game.load, !.transition = game.transition,
     !.session = host.session, !.challenge = host.leases + 1,
     !.deferred = DeferrableGroups, !.owned = owned \cup Frozen(game),
     !.seats = [s \in Seats |-> [connection |-> view[s], required |-> view[s] # 0,
                                 acked |-> FALSE]]]

NewLease(owned) ==
  [NoLease EXCEPT
     !.phase = "held", !.load = game.load, !.transition = game.transition,
     !.session = host.session, !.challenge = host.leases + 1,
     !.deferred = DeferrableGroups, !.owned = owned,
     !.seats = [s \in Seats |-> [connection |-> view[s], required |-> view[s] # 0,
                                 acked |-> FALSE]]]

TornDown(g) == [g EXCEPT !.ending = TRUE]

\* Both native calls, 3BF2E0(0) and 3BF2E0(1), are deferred or both forwarded.
EventTearsDown ==
  /\ EventInstalled(game) /\ ~game.ending
  /\ IF Deferrable
       THEN LET owned == OwnableGroups \ Frozen(game)
                kept == Freeze(game, Frozen(game) \cap DeferrableGroups, "lease")
            IN  /\ lease' = NewLease(owned)
                /\ arrivals' = {}    \* nobody can have arrived for a new challenge
                /\ game' = TornDown(Freeze(kept, owned, "lease"))
                /\ host' = [host EXCEPT !.leases = @ + 1]
                /\ armed' = NotArmed
       ELSE /\ game' = TornDown(Unfreeze(game, DeferrableGroups))
            /\ UNCHANGED <<host, armed, lease, arrivals>>
  /\ UNCHANGED <<unload, view, relay, friend, inbox, story>>

ContextClears ==
  /\ game.ending
  /\ game' = [game EXCEPT !.event = "none", !.ending = FALSE]
  /\ UNCHANGED <<host, armed, lease, unload, netVars, story>>

\* A room script gives the party back by itself.
ScriptClears ==
  /\ game.room = "axel" /\ ~game.pending
  /\ game' = Unfreeze(game, DeferrableGroups)
  /\ UNCHANGED <<host, armed, lease, unload, netVars, story>>

-----------------------------------------------------------------------------
(* EnemySync on the host *)

\* The input poll, the frame, and the call that reports the host downed.
Poll(hostDowned, peerDowned) ==
  /\ Service(lease, game, hostDowned, peerDowned)
  /\ UNCHANGED <<host, armed, unload, netVars, story>>

PublicationHoldQualifies ==
  /\ lease.phase = "held" /\ lease.epoch = 0
  /\ ~game.pending /\ lease.load = game.load /\ lease.transition = game.transition
  /\ game.room = "axel" /\ ~EventInstalled(game)
  /\ Frozen(game) = HeldGroups(lease)

SafeNativeGameplay == Frozen(game) = {} /\ ~EventInstalled(game) /\ ~game.pending

\* The frame's room tracking: a request or a load drops the pending
\* announcement, a settled load queues its own.
TrackRoom ==
  /\ game.pending \/ host.load # game.load
  /\ host' = [host EXCEPT !.begin = ~game.pending,
                          !.load = IF game.pending THEN @ ELSE game.load]
  /\ host # host'
  /\ UNCHANGED <<game, armed, lease, unload, netVars, story>>

RoomTracked == ~game.pending /\ host.load = game.load

Announcement(challenge) == [epoch |-> host.epoch + 1, challenge |-> challenge]

NotePublished(epoch) == [lease EXCEPT !.epoch = epoch]

HostBeginInstance ==
  /\ host.begin /\ RoomTracked
  /\ \/ /\ SafeNativeGameplay
        /\ relay' = [relay EXCEPT !.room = Announcement(0)]
        /\ UNCHANGED lease
     \/ /\ PublicationHoldQualifies
        /\ relay' = [relay EXCEPT !.room = Announcement(lease.challenge)]
        /\ lease' = NotePublished(host.epoch + 1)
  /\ host' = [host EXCEPT !.epoch = @ + 1, !.begin = FALSE]
  /\ UNCHANGED <<game, armed, unload, view, friend, inbox, arrivals, story>>

\* Generation, delivery or role: a new world session announces its room anew,
\* a new delivery alone does not.
SessionChanges ==
  /\ host.session < story.sessions
  /\ \E announces \in BOOLEAN :
       host' = [host EXCEPT !.session = @ + 1,
                            !.begin = IF announces THEN RoomTracked ELSE @]
  /\ UNCHANGED <<game, armed, lease, unload, netVars, story>>

HostSeesRoster(s) ==
  /\ view[s] # relay.connection[s]
  /\ view' = [view EXCEPT ![s] = relay.connection[s]]
  /\ UNCHANGED <<gameVars, unload, relay, friend, inbox, arrivals, story>>

\* RequesterCurrent(), then Machine::Ack().
Accepts(ack) ==
  /\ lease.phase = "held"
  /\ view[ack.slot] = ack.connection
  /\ ack.challenge = lease.challenge
  /\ lease.epoch # 0 /\ ack.epoch = lease.epoch
  /\ LET seat == lease.seats[ack.slot]
     IN  seat.required /\ seat.connection = ack.connection /\ ~seat.acked

HostReceivesAck ==
  /\ inbox # <<>>
  /\ LET ack == Head(inbox)
     IN  IF Accepts(ack)
           THEN Service([lease EXCEPT !.seats[ack.slot].acked = TRUE], game, FALSE, FALSE)
           ELSE UNCHANGED <<lease, game>>
  /\ inbox' = Tail(inbox)
  /\ UNCHANGED <<host, armed, unload, view, relay, friend, arrivals, story>>

\* Asked from another thread, which waits for the owner only so long; with
\* the hooks off the barrier is gone, and so is this model.
Shutdown ==
  /\ Live
  /\ unload' = IF unload = "no" THEN "asked" ELSE "gone"
  /\ UNCHANGED <<gameVars, netVars, story>>

Tick ==
  /\ Live /\ lease.age < DeadlineTicks
  /\ lease' = [lease EXCEPT !.age = @ + 1]
  /\ UNCHANGED <<game, host, armed, unload, netVars, story>>

-----------------------------------------------------------------------------
(* The relay *)

Leave(s) ==
  /\ relay.connection[s] # 0
  /\ relay' = [relay EXCEPT !.connection[s] = 0]
  /\ friend' = [friend EXCEPT ![s] = NewFriend]
  /\ UNCHANGED <<gameVars, unload, view, inbox, arrivals, story>>

\* A friend joins, or a recovery gives a connected one a new delivery.
Reconnect(s) ==
  /\ relay.next[s] <= story.conns[s]
  /\ relay' = [relay EXCEPT !.connection[s] = relay.next[s], !.next[s] = @ + 1]
  /\ UNCHANGED <<gameVars, unload, view, friend, inbox, arrivals, story>>

-----------------------------------------------------------------------------
(* A friend *)

\* A room announced without a challenge asks nothing of the friend.
Follow(s) ==
  /\ relay.connection[s] # 0
  /\ relay.room.challenge # friend[s].challenge
  /\ friend' = [friend EXCEPT ![s] =
                  IF relay.room.challenge = 0 THEN NewFriend
                  ELSE [NewFriend EXCEPT !.epoch = relay.room.epoch,
                                         !.challenge = relay.room.challenge]]
  /\ UNCHANGED <<gameVars, unload, view, relay, inbox, arrivals, story>>

Arrive(s) ==
  /\ friend[s].challenge # 0 /\ ~friend[s].arrived
  /\ friend' = [friend EXCEPT ![s].arrived = TRUE]
  /\ arrivals' = arrivals \cup {<<s, relay.connection[s], friend[s].challenge>>}
  /\ UNCHANGED <<gameVars, unload, view, relay, inbox, story>>

\* The acknowledgement, through the relay's own tests, into the host's inbox.
SendAck(s) ==
  /\ friend[s].arrived /\ ~friend[s].acked
  /\ inbox' = IF friend[s].challenge = relay.room.challenge /\ friend[s].epoch = relay.room.epoch
                THEN Append(inbox, [slot |-> s, connection |-> relay.connection[s],
                                    epoch |-> friend[s].epoch, challenge |-> friend[s].challenge])
                ELSE inbox
  /\ friend' = [friend EXCEPT ![s].acked = TRUE]
  /\ UNCHANGED <<gameVars, unload, view, relay, arrivals, story>>

-----------------------------------------------------------------------------
Native == (\E to \in Rooms : Request(to)) \/ LoadCompletes \/ EventStarts \/ ScriptClears

EventEnds == unload # "gone" /\ (EventTearsDown \/ ContextClears)

HostNext ==
  \/ (\E hostDowned, peerDowned \in BOOLEAN : Poll(hostDowned, peerDowned))
  \/ TrackRoom \/ HostBeginInstance \/ SessionChanges \/ HostReceivesAck
  \/ (\E s \in Seats : HostSeesRoster(s)) \/ Tick
  \/ Shutdown

FriendNext ==
  \E s \in Seats : Leave(s) \/ Reconnect(s) \/ Follow(s) \/ Arrive(s) \/ SendAck(s)

CalmPoll == unload # "gone" /\ Poll(FALSE, FALSE)

Next == unload # "gone" /\ (Native \/ EventEnds \/ HostNext \/ FriendNext)

Spec == Init /\ [][Next]_vars

(***************************************************************************)
(* The input poll runs even while the game is paused, the clock runs, and    *)
(* an event the game installs comes to its end.  Nothing obliges a friend,   *)
(* the relay, a load or a room request.                                      *)
(***************************************************************************)
FairSpec == Spec /\ WF_vars(CalmPoll) /\ WF_vars(Tick) /\ WF_vars(EventEnds)
-----------------------------------------------------------------------------
(* Types. *)
TypeOK ==
  /\ game \in [load : 1..(story.transitions + 1), transition : 0..story.transitions, pending : BOOLEAN,
               target : Rooms, room : Rooms, event : Events, ending : BOOLEAN,
               by : [Groups -> {"nobody", "event", "script", "lease"}]]
  /\ armed.state \in {"no", "requested", "bound"}
  /\ lease.phase \in {"idle", "held", "releasing", "done"}
  /\ lease.deferred \subseteq DeferrableGroups /\ lease.owned \subseteq OwnableGroups
  /\ lease.age \in 0..DeadlineTicks
  /\ unload \in {"no", "asked", "gone"}

(* A barrier reported as all-arrived was: every friend it waited for had     *)
(* reached the room for this very challenge on the connection recorded when  *)
(* the hold began, whatever acknowledgements of earlier holds, connections   *)
(* or rooms were still in flight (Machine::Ack, Evaluate; the relay's        *)
(* challenge test).                                                          *)
ArrivedIsEarned ==
  lease.outcome = "arrived" =>
    \A s \in Seats : lease.seats[s].required =>
      <<s, lease.seats[s].connection, lease.challenge>> \in arrivals

(* A release is whole.  While a deferred freeze of the party is still in     *)
(* force in the lease's room, so is every freeze the lease added for boss    *)
(* and enemies: the boss never acts alone ("owned bits are never freed while *)
(* a deferred bit is set").  And whatever ended the hold, once no lease      *)
(* lives no group is frozen on its account (Service, NoteReleased,           *)
(* NoteLoad).                                                                *)
BossWaitsForParty ==
  (Live /\ lease.load = game.load /\ Frozen(game) \cap lease.deferred # {})
    => lease.owned \subseteq Frozen(game)
NothingLeftFrozen ==
  ~Live => \A k \in Groups : game.by[k] # "lease"
ReleaseIsWhole == BossWaitsForParty /\ NothingLeftFrozen

(* The host's own steps free a group outside an event's teardown only if the *)
(* intro or the barrier froze it: never a bit a later event or a script set, *)
(* and never one of a later load (Service's event wait, OwnCandidates, the   *)
(* load test).                                                               *)
FreesOnlyItsOwn ==
  [][\A k \in Groups :
       (lease' # lease /\ game.load = game'.load /\ game.by[k] # "nobody" /\ game'.by[k] = "nobody")
         => game.by[k] = "lease"]_vars

(* The first decision of a hold stands: no later acknowledgement, deadline,  *)
(* downing, request or reload rewrites why it ended, and a finished hold     *)
(* never comes back (Decide).                                                *)
FirstDecisionStands ==
  [][(lease.outcome # "none" /\ lease'.challenge = lease.challenge)
       => /\ lease'.outcome = "arrived" <=> lease.outcome = "arrived"
          /\ lease'.outcome \in {lease.outcome, "failed"}
          /\ lease.phase = "done" => lease'.phase = "done"]_vars

(* "It never waits indefinitely": every hold ends, whichever friends never   *)
(* arrive and whatever events the game plays meanwhile, unless the hooks go. *)
HoldsEnd == []<>(~Live \/ unload = "gone")
=============================================================================
