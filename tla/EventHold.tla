----------------------------- MODULE EventHold -----------------------------
(***************************************************************************)
(* The event hold of one friend, end to end: the host's stream of room       *)
(* changes and holds, the friend's runtime that projects it onto a mapping   *)
(* (EventHoldRuntimeProjection.hpp, RuntimeMain.cpp), the game's owner that  *)
(* consumes the same stream as world state and acknowledges it               *)
(* (EnemySync.cpp, EventHoldNative.cpp), and the input callback that takes   *)
(* the friend's input and gives it back.                                     *)
(*                                                                           *)
(* A lifetime is a mapping: the first is opened unscoped, the next is opened *)
(* by the game's owner for a connection that replaced an expired one.  A     *)
(* scope is the number of the friend's connection.  Runtime and game talk    *)
(* through the mapping and through the world ring ("inbox"); the game's two  *)
(* parts run on the game's own thread.                                       *)
(***************************************************************************)
EXTENDS Integers, Sequences, FiniteSets, EventHoldInput, EventHoldChannel

CONSTANTS
  OwnerCapacity,   \* facts the owner can retain
  RosterTicks,     \* kRosterMs: how long a recovered lifetime may take to arm
  MaxFacts,        \* bound on the host's facts
  MaxLifetimes     \* bound on the friend's connections, and so on mappings

ASSUME HoldAssumption == {OwnerCapacity, RosterTicks, MaxFacts, MaxLifetimes} \subseteq Nat \ {0}

VARIABLES
  host,      \* g_epoch, activePublished and its facts so far
  rt,        \* the runtime: its connection, the projection, the recovery
  chan,      \* the mappings
  inbox,     \* the world ring
  owner,     \* the game's owner, and g_host.epoch
  input,     \* InputState
  pause,     \* OrphanedPause
  menu,      \* the menu the game shows while a hold or an orphaned pause looks at it
  entry      \* "open", "rejected" a foreign thread, or "disabled"

vars == <<host, rt, chan, inbox, owner, input, pause, menu, entry>>

Lifetimes == 1..MaxLifetimes

NoOwner == [scope |-> 0, seen |-> {}]

Fact(kind, source, epoch, scene) ==
  [kind |-> kind, source |-> source, epoch |-> epoch, scene |-> scene]

Session == Fact("Session", 0, 0, FALSE)

Result(epoch) == Fact("Result", 0, epoch, FALSE)

Init ==
  /\ host = [epoch |-> 1, active |-> FALSE, facts |-> 1]
  /\ rt = [cur |-> 1, last |-> 1, view |-> 1, producer |-> FALSE, p |-> NoProducer, blocked |-> FALSE,
           baseline |-> 1, excluded |-> 1, recovering |-> "no", left |-> 0, quarantined |-> FALSE]
  /\ chan = [l \in Lifetimes |-> Unbound]
  /\ inbox = <<Fact("Transition", 1, 1, FALSE)>>
  /\ owner = [view |-> 1, epoch |-> 0, own |-> NoOwner, release |-> 0, held |-> 0]
  /\ input = NoHold
  /\ pause = NoOrphan
  /\ menu = "closed"
  /\ entry = "open"

-----------------------------------------------------------------------------
(* The runtime.  "w" is a runtime together with the mappings.                *)

World == [rt |-> rt, chan |-> chan]

Mapping(w) == w.chan[w.rt.view]

WithMapping(w, c) == [w EXCEPT !.chan[w.rt.view] = c]

Blocked(w) == [w EXCEPT !.rt.blocked = TRUE]

Reject(w, why) == Blocked(WithMapping(w, Invalidate(Mapping(w), why)))

\* Reset() is the producer's alone.  Before a mapping is bound nothing was armed.
Retire(w, why) ==
  IF ~IsBound(Mapping(w)) THEN [w EXCEPT !.rt.excluded = 0, !.rt.baseline = 0]
  ELSE IF w.rt.producer THEN Blocked(WithMapping(w, Reset(Mapping(w), why)))
  ELSE Blocked(w)

Quarantine(w) == [Reject(w, "Unsupported") EXCEPT !.rt.quarantined = TRUE]

\* The owner's acknowledgement of the first record, for the room of the baseline.
Arm(w) ==
  LET c == Mapping(w) IN
  IF w.rt.p.epoch = 0 /\ c.ack.epoch = w.rt.baseline /\ c.ack.ordinal = 1 /\ c.ack.ready
    THEN [w EXCEPT !.rt.p.epoch = c.ack.epoch] ELSE w

BindFirst(w) ==
  LET bound == [WithMapping(w, Bind(Mapping(w), w.rt.cur)) EXCEPT !.rt.producer = TRUE] IN
  IF ~Bindable(Mapping(w)) THEN Blocked(w)
  ELSE [bound EXCEPT !.rt.p.sources = w.rt.excluded]

Beat(w) ==
  LET beaten == WithMapping(w, Heartbeat(Mapping(w))) IN
  IF w.rt.blocked THEN w
  ELSE IF w.rt.producer /\ Healthy(Mapping(w)) THEN Arm(beaten)
  ELSE Blocked(IF w.rt.producer THEN beaten ELSE w)

ProjectionTick(w, eligible) ==
  IF w.rt.blocked THEN w
  ELSE IF ~eligible \/ w.rt.cur = 0 THEN IF IsBound(Mapping(w)) THEN Retire(w, "Unsupported") ELSE w
  ELSE IF ~IsBound(Mapping(w)) THEN Beat(BindFirst(w))
  ELSE IF Mapping(w).scope # w.rt.cur THEN Retire(w, "BindingReset")
  ELSE Beat(w)

TickOk(w) == ~w.rt.blocked /\ w.rt.producer /\ Healthy(Mapping(w))

\* A recovered lifetime that has not armed in time is given up.
AwaitAck(w) ==
  IF w.rt.recovering = "adopted" /\ ~w.rt.quarantined /\ w.rt.left = 0 THEN Quarantine(w) ELSE w

\* The mapping the owner opened for this connection, if it has.
Adopt(w, eligible) ==
  LET opened == owner.view = w.rt.cur
      adopted == [w EXCEPT !.chan[w.rt.cur] = Bind(@, w.rt.cur),
                           !.rt.view = w.rt.cur, !.rt.producer = TRUE, !.rt.p = NoProducer,
                           !.rt.blocked = FALSE, !.rt.excluded = 0, !.rt.recovering = "adopted"]
  IN IF w.rt.recovering # "result" THEN w
     ELSE IF ~eligible \/ w.rt.left = 0 THEN [Quarantine(w) EXCEPT !.rt.recovering = "joined"]
     ELSE IF opened THEN adopted
     ELSE w

Restored(w) ==
  IF TickOk(w) /\ w.rt.recovering # "no" /\ w.rt.p.epoch # 0
    THEN [w EXCEPT !.rt.recovering = "no", !.rt.left = 0] ELSE w

\* An expired lifetime costs the connection; its successor is a rejoin.
Expired(w) ==
  LET c == Mapping(w) IN
  IF c.abort = "HeartbeatExpired" /\ c.scope = w.rt.cur /\ w.rt.recovering = "no"
    THEN [Retire(w, "BindingReset") EXCEPT !.rt.cur = 0, !.rt.recovering = "lost"]
    ELSE w

Pulsed(w, eligible) ==
  Expired(Restored(ProjectionTick(Adopt(AwaitAck(w), eligible), eligible)))

BecomeWorld(w) == rt' = w.rt /\ chan' = w.chan

Pulse(eligible) ==
  /\ BecomeWorld(Pulsed(World, eligible /\ ~rt.quarantined))
  /\ UNCHANGED <<host, inbox, owner, input, pause, menu, entry>>

\* explicitBaseline_: only an adopted mapping is not the first.
Explicit(w) == w.rt.view # 1

\* Admit(): before the lifetime is armed a fact is world state only.
Excluded(w, fact) ==
  [w EXCEPT !.rt.excluded = @ + 1,
            !.rt.p.sources = IF IsBound(Mapping(w)) THEN @ + 1 ELSE @,
            !.rt.baseline = IF fact.kind = "Transition" /\ ~Explicit(w) THEN fact.epoch ELSE @]

Published(w, fact) ==
  LET c == Publish(Mapping(w), w.rt.p, fact)
      next == WithMapping(w, c)
  IN IF Healthy(c) THEN [next EXCEPT !.rt.p = Taken(@, fact)] ELSE Blocked(next)

Admit(w, fact, eligible) ==
  IF w.rt.blocked THEN w
  ELSE IF ~eligible THEN Reject(w, "Unsupported")
  ELSE IF w.rt.p.epoch # 0 THEN Published(w, fact)
  ELSE IF fact.kind = "Acquire" THEN Reject(w, "Unsupported")
  ELSE IF Explicit(w) /\ fact.epoch # w.rt.baseline THEN Reject(w, "InvalidOrder")
  ELSE IF w.rt.excluded = SourceCapacity THEN Reject(w, "SourceLimit")
  ELSE Excluded(w, fact)

\* Every envelope is preceded by a pulse, and follows its fact to the ring.
WorldReaches(w) == w.rt.cur # 0 /\ ~w.rt.quarantined /\ w.rt.recovering \notin {"lost", "joined"}

HostFact(fact, eligible) ==
  LET w == Pulsed(World, eligible) IN
  /\ host.facts < MaxFacts
  /\ fact.source = host.facts + 1
  /\ IF WorldReaches(World)
       THEN IF WorldReaches(w)
              THEN BecomeWorld(Admit(w, fact, eligible)) /\ inbox' = Append(inbox, fact)
              ELSE BecomeWorld(w) /\ inbox' = inbox
       ELSE UNCHANGED <<rt, chan, inbox>>
  /\ UNCHANGED <<owner, input, pause, menu, entry>>

\* TickHostEventHold() and the host's room announcements.
HostMoves(scene, eligible) ==
  /\ HostFact(Fact("Transition", host.facts + 1, host.epoch + 1, scene), eligible)
  /\ host' = [host EXCEPT !.epoch = @ + 1, !.facts = @ + 1]

HostHolds(eligible) ==
  /\ ~host.active
  /\ HostFact(Fact("Acquire", host.facts + 1, host.epoch, FALSE), eligible)
  /\ host' = [host EXCEPT !.active = TRUE, !.facts = @ + 1]

HostReleases(eligible) ==
  /\ host.active
  /\ HostFact(Fact("Release", host.facts + 1, host.epoch, FALSE), eligible)
  /\ host' = [host EXCEPT !.active = FALSE, !.facts = @ + 1]

-----------------------------------------------------------------------------
(* The friend's connection *)

\* A lost connection; a resync plan or an inbox that overflows ends it too.
Lose ==
  /\ rt.cur # 0
  /\ BecomeWorld([Retire(World, "BindingReset") EXCEPT
                    !.rt.cur = 0, !.rt.left = 0, !.rt.recovering = IF @ = "no" THEN @ ELSE "lost"])
  /\ UNCHANGED <<host, inbox, owner, input, pause, menu, entry>>

\* A restarted runtime finds the first mapping, and is not its producer.
Restart ==
  /\ rt.cur = 0
  /\ rt' = [rt EXCEPT !.view = 1, !.producer = FALSE, !.p = NoProducer, !.blocked = FALSE,
                      !.baseline = 0, !.excluded = 0, !.recovering = "no", !.quarantined = FALSE]
  /\ UNCHANGED <<host, chan, inbox, owner, input, pause, menu, entry>>

\* The relay's replay of the room has a source of its own.
Replayed == MaxFacts + 1

\* A new connection, and for one that has nothing to recover the room it finds.
Rejoin ==
  LET cached == Fact("Transition", Replayed, host.epoch, FALSE)
      joined == [World EXCEPT !.rt.cur = rt.last + 1, !.rt.last = rt.last + 1, !.rt.quarantined = FALSE]
  IN /\ rt.cur = 0 /\ rt.last < MaxLifetimes /\ ~host.active
     /\ IF rt.recovering = "no"
          THEN BecomeWorld(Admit(joined, cached, TRUE)) /\ inbox' = <<Session, cached>>
          ELSE BecomeWorld([joined EXCEPT !.rt.recovering = "joined"]) /\ inbox' = <<Session>>
     /\ UNCHANGED <<host, owner, input, pause, menu, entry>>

\* A converged resync of the new connection, as the runtime and the game learn it.
ResyncConverges ==
  /\ rt.recovering = "joined" /\ rt.cur # 0 /\ ~rt.quarantined /\ ~host.active
  /\ rt' = [rt EXCEPT !.recovering = "result", !.left = RosterTicks]
  /\ inbox' = Append(inbox, Result(host.epoch))
  /\ UNCHANGED <<host, chan, owner, input, pause, menu, entry>>

-----------------------------------------------------------------------------
(* The game's owner *)

OwnMapping == chan[owner.view]

\* RetireWorldSession()
ForgetSession ==
  /\ Head(inbox).kind = "Session"
  /\ chan' = IF owner.own.scope # 0 THEN [chan EXCEPT ![owner.view] = Invalidate(@, "BindingReset")]
             ELSE chan
  /\ owner' = [owner EXCEPT !.own = NoOwner, !.epoch = 0]
  /\ UNCHANGED <<input, pause>>

OldLifetimeSilent == OwnMapping.abort = "HeartbeatExpired"

\* CompleteRecoveredEventControl(), BeginRecoveredLifetime(): now or never.
BeginRecovered(safe) ==
  LET ready == /\ entry = "open"
               /\ IsBound(OwnMapping) /\ OwnMapping.scope # rt.cur /\ OldLifetimeSilent
               /\ ~Holding(input) /\ safe
      room == [owner EXCEPT !.epoch = Head(inbox).epoch]
  IN /\ Head(inbox).kind = "Result" /\ rt.cur # 0
     /\ IF ready
          THEN /\ owner' = [room EXCEPT !.view = rt.cur, !.own = [NoOwner EXCEPT !.scope = rt.cur],
                                        !.release = 0, !.held = 0]
               /\ input' = NoHold /\ pause' = NoOrphan
          ELSE owner' = room /\ UNCHANGED <<input, pause>>
     /\ UNCHANGED chan

\* Observe(), once the world has taken the fact.
Seen(fact, epoch) ==
  IF fact.source \in owner.own.seen
    THEN owner' = [owner EXCEPT !.epoch = epoch] /\ UNCHANGED chan
    ELSE IF Cardinality(owner.own.seen) = OwnerCapacity
           THEN /\ owner' = [owner EXCEPT !.epoch = epoch]
                /\ chan' = [chan EXCEPT ![owner.view] = Invalidate(@, "Overflow")]
           ELSE /\ owner' = [owner EXCEPT !.epoch = epoch, !.own.scope = rt.cur,
                                          !.own.seen = @ \cup {fact.source}]
                /\ UNCHANGED chan

Dropped == UNCHANGED <<owner, chan>>

\* The native warp may refuse a room.
ObserveFact(accepted) ==
  LET fact == Head(inbox) IN
  /\ fact.kind \notin {"Session", "Result"}
  /\ IF fact.kind = "Transition"
       THEN IF accepted /\ fact.epoch > owner.epoch THEN Seen(fact, fact.epoch) ELSE Dropped
       ELSE IF fact.epoch = owner.epoch THEN Seen(fact, owner.epoch) ELSE Dropped
  /\ UNCHANGED <<input, pause>>

Consume(accepted, safe) ==
  /\ inbox # <<>>
  /\ safe => menu = "closed"
  /\ \/ ForgetSession
     \/ BeginRecovered(safe)
     \/ rt.cur # 0 /\ entry # "disabled" /\ ObserveFact(accepted)
     \/ (rt.cur = 0 \/ entry = "disabled") /\ Head(inbox).kind # "Session" /\ Dropped
          /\ UNCHANGED <<input, pause>>
  /\ inbox' = Tail(inbox)
  /\ UNCHANGED <<host, rt, menu, entry>>

\* OwnerAck()'s cursor: over the records whose facts the world has taken.
Cursor(c) ==
  LET through == {n \in DOMAIN c.log : \A k \in 2..n : c.log[k].source \in owner.own.seen}
  IN CHOOSE n \in through : \A k \in through : k <= n

\* OwnerAck(); "ready": AckEventControl() finds the world eligible and converged.
OwnerFrame(ready) ==
  LET c == OwnMapping
      n == Cursor(c)
      epoch == IF c.log[n].kind = "Reset" THEN owner.epoch ELSE c.log[n].epoch
  IN /\ entry # "disabled" /\ rt.cur # 0 /\ owner.own.scope = rt.cur /\ owner.epoch # 0
     /\ c.log # <<>> /\ c.scope = owner.own.scope
     /\ ready => epoch = owner.epoch
     /\ chan' = [chan EXCEPT ![owner.view] =
                    PublishAck(@, [ordinal |-> n, epoch |-> epoch, ready |-> ready])]
     /\ UNCHANGED <<host, rt, inbox, owner, input, pause, menu, entry>>

-----------------------------------------------------------------------------
(* The input callback *)

\* ServiceOrphanedPause()
Serviced(shown) ==
  LET due == ~pause.armed /\ ~pause.handled /\ input.phase = "Failed" /\ input.failedOwned
             /\ OwnMapping.abort = "HeartbeatExpired"
      o == IF due THEN ArmOrphan(shown) ELSE pause
  IN IF o.armed THEN StepOrphan(o, shown) ELSE o

\* A record as the hold takes it: the hold, the release it awaits, its acquire.
\* A start that the seat plays natively is a hold that it skips.
Received(i, c, record, ordinal, safe) ==
  LET left == Supersede(i)
      hostRoom == c.ack.ready /\ c.ack.epoch = record.epoch
      acquires == hostRoom /\ CanAcquire(left, [healthy |-> TRUE, safe |-> safe])
      asIs == [hold |-> i, release |-> owner.release, held |-> owner.held]
  IN CASE record.kind = "Acquire" ->
            [hold |-> IF acquires THEN Acquire ELSE left, release |-> 0,
             held |-> IF acquires THEN ordinal ELSE owner.held]
       [] record.kind = "Transition" /\ Holding(i) ->
            [asIs EXCEPT !.hold = IF record.scene THEN FollowScene(i) ELSE Wake(i)]
       [] record.kind = "Release" /\ Holding(i) ->
            [asIs EXCEPT !.hold = ReleaseReceived(Wake(i)), !.release = ordinal]
       [] OTHER -> asIs

AnyAck(c, release) == release # 0 /\ c.ack.ready    \* mutant: whichever record it is for

OwnerReleased(c, release) == release # 0 /\ c.ack.ordinal = release /\ c.ack.ready

\* What the callback remembers of a hold matters only as long as it lasts.
Remembered(i, got) ==
  IF Holding(i) THEN [owner EXCEPT !.release = got.release, !.held = got.held]
  ELSE [owner EXCEPT !.release = 0, !.held = 0]

\* Who looks at the menu: a hold, the service, or a pause it may still have to close.
Watching(i, o) == Holding(i) \/ o.armed \/ (i.failedOwned /\ ~o.handled)

\* ServiceOrphanedPause() and ApplyInput(), with what the game's memory allows:
\* the sample may not be readable, or the input not writable.
Callback(readable, writable, safe) ==
  LET i1 == IF readable THEN input ELSE Fail(input)
      c1 == Tested(IF readable THEN OwnMapping ELSE Invalidate(OwnMapping, "Unsupported"))
      closing == OwnedPauseOpen(i1) /\ i1.phase # "Paused"
      reads == ~closing /\ CanRead(c1)
      c2 == IF reads THEN [c1 EXCEPT !.consumed = @ + 1] ELSE c1
      got == IF reads THEN Received(i1, c2, c2.log[c2.consumed], c2.consumed, safe)
             ELSE [hold |-> i1, release |-> owner.release, held |-> owner.held]
      s == [healthy |-> Healthy(c2), menu |-> menu, ownerReleased |-> OwnerReleased(c2, got.release)]
      fails == Neutral(got.hold, s) /\ ~writable
      stepped == Step(got.hold, s)
      serviced == Serviced(IF readable THEN menu ELSE "page")
      pressed == serviced.release /\ ~pause.release
  IN /\ entry = "open"
     /\ safe => menu = "closed"
     /\ pause' = IF pressed /\ ~writable THEN OrphanOver ELSE serviced
     /\ input' = IF fails THEN Fail(stepped) ELSE stepped
     /\ chan' = [chan EXCEPT ![owner.view] = IF fails THEN Invalidate(c2, "Unsupported") ELSE c2]
     /\ owner' = Remembered(input', got)
     /\ menu' = IF Watching(input', pause') THEN menu ELSE "closed"
     /\ UNCHANGED <<host, rt, inbox, entry>>

\* EnterInput() latches the fault of a foreign caller, or ApplyInput() does.
RejectedCallback(within) ==
  /\ entry = "rejected"
  /\ entry' = "open"
  /\ chan' = [chan EXCEPT ![owner.view] = Invalidate(@, "Unsupported")]
  /\ input' = IF within THEN Fail(input) ELSE input
  /\ UNCHANGED <<host, rt, inbox, owner, pause, menu>>

\* A later one finds the fault already latched.
ForeignCall ==
  /\ entry = "open" /\ OwnMapping.abort = "None"
  /\ entry' = "rejected"
  /\ UNCHANGED <<host, rt, chan, inbox, owner, input, pause, menu>>

Disable ==
  /\ entry # "disabled"
  /\ entry' = "disabled"
  /\ chan' = [chan EXCEPT ![owner.view] = Invalidate(@, "Shutdown")]
  /\ UNCHANGED <<host, rt, inbox, owner, input, pause, menu>>

-----------------------------------------------------------------------------
(* Around them *)

GameMoves ==
  /\ Watching(input, pause)
  /\ menu' \in Menus
  /\ UNCHANGED <<host, rt, chan, inbox, owner, input, pause, entry>>

Tick ==
  /\ chan' = [l \in Lifetimes |-> Silent(chan[l])]
  /\ input' = Aged(input)
  /\ pause' = [pause EXCEPT !.due = pause.armed /\ pause.presses > 0]
  /\ rt' = [rt EXCEPT !.left = IF @ > 0 THEN @ - 1 ELSE 0]
  /\ UNCHANGED <<host, inbox, owner, menu, entry>>

Next ==
  \/ \E eligible \in BOOLEAN :
       Pulse(eligible) \/ HostMoves(FALSE, eligible) \/ HostMoves(TRUE, eligible)
         \/ HostHolds(eligible) \/ HostReleases(eligible)
  \/ Lose \/ Restart \/ Rejoin \/ ResyncConverges
  \/ \E accepted, safe \in BOOLEAN : Consume(accepted, safe)
  \/ \E ready \in BOOLEAN : OwnerFrame(ready)
  \/ \E readable, writable, safe \in BOOLEAN : Callback(readable, writable, safe)
  \/ \E within \in BOOLEAN : RejectedCallback(within)
  \/ ForeignCall \/ Disable \/ GameMoves \/ Tick

Spec == Init /\ [][Next]_vars

\* The game calls its input collector again and again, and the clock runs.
Fairness ==
  /\ WF_vars(\E safe \in BOOLEAN : Callback(TRUE, TRUE, safe))
  /\ WF_vars(\E within \in BOOLEAN : RejectedCallback(within))
  /\ WF_vars(Tick)

FairSpec == Spec /\ Fairness

-----------------------------------------------------------------------------
(* Properties *)

FactKinds == {"Reset", "Transition", "Acquire", "Release", "Session", "Result"}

FactRecords == [kind : FactKinds, source : 0..Replayed, epoch : 0..MaxFacts, scene : BOOLEAN]

\* The values the variables can take; what the two halves keep is bounded.
TypeOK ==
  /\ host.epoch \in 1..MaxFacts /\ host.facts \in 1..MaxFacts /\ host.active \in BOOLEAN
  /\ rt.cur \in {0, rt.last} /\ rt.last \in Lifetimes /\ rt.view \in Lifetimes
  /\ rt.recovering \in {"no", "lost", "joined", "result", "adopted"}
  /\ rt.excluded \in 0..SourceCapacity /\ rt.p.sources \in 0..SourceCapacity
  /\ \A l \in Lifetimes :
       /\ chan[l].abort \in Aborts /\ chan[l].consumed \in 0..Len(chan[l].log)
       /\ Len(chan[l].log) - chan[l].consumed \in 0..Capacity
       /\ \A k \in DOMAIN chan[l].log : chan[l].log[k] \in FactRecords
       /\ chan[l].ack.ordinal \in 0..Len(chan[l].log)
  /\ Cardinality(owner.own.seen) <= OwnerCapacity
  /\ input.phase \in Phases /\ input.unwound \in 0..UnwindPresses
  /\ pause.presses \in 0..(UnwindPresses + 1)

\* The callback has read a new hold of the host.
Superseded ==
  LET c == OwnMapping' IN
  c.consumed # OwnMapping.consumed /\ c.log[c.consumed].kind = "Acquire"

\* A hold that ends by its release, and not by a timeout, a new hold or a
\* scene, ends when the game has taken as world state every fact that the host
\* sent up to that release: the friend does not move in a room the host has
\* left, nor before what the event changed has reached it.
ReturnIsEarned ==
  [][input.phase = "ReleaseBoundary" /\ input'.phase = "Complete" /\ ~Superseded
       => \A k \in 2..owner.release : OwnMapping.log[k].source \in owner.own.seen]_vars

\* A host that opens and closes its events and changes rooms in order is never
\* cut off for disorder in a friend's first lifetime, whenever the friend
\* joined, armed, lost packets or came back.
LegalHostNeverBlamed == chan[1].abort # "InvalidOrder"

\* Between an armed mapping and the host nothing is lost in silence: as long as
\* its producer has not cut it, it holds every fact of the host since its first,
\* in order, so that no hold can wait for a release that it was never shown.
NoFactSkipped ==
  LET log == Mapping(World).log IN
  rt.producer /\ rt.p.epoch # 0 /\ Len(log) > 1
    => \A k \in 2..Len(log) : log[k].source = host.facts - (Len(log) - k)

Released == \E k \in DOMAIN OwnMapping.log : k > owner.held /\ OwnMapping.log[k].kind = "Release"

InputHeld == entry # "disabled" /\ (Holding(input) \/ pause.armed)

\* The friend's input always comes back: once the host has released the hold,
\* and, whatever the host does, once the mapping is dead; the service that
\* closes an orphaned pause gives up too.
InputGivenBack ==
  /\ []<>~(InputHeld /\ Holding(input) /\ Released)
  /\ []<>~(InputHeld /\ ~Healthy(OwnMapping))
=============================================================================
