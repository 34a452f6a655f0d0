------------------------ MODULE CombatAdmission_proofs ------------------------
(***************************************************************************)
(* Proofs about the combat admission barrier, for any number of friends,      *)
(* connections, room requests, events and sessions, and any deadline.         *)
(*                                                                           *)
(* The argument: every freeze the lease added stays its own until the one     *)
(* release that frees them all, because only a live lease's groups bear its   *)
(* mark and nothing else frees boss or enemies in its room.  And a challenge   *)
(* is new when its lease begins: whoever carries it arrived after that, so     *)
(* its acknowledgement either bears the connection it arrived on, or one       *)
(* younger than any that the lease recorded.                                  *)
(***************************************************************************)
EXTENDS CombatAdmission, TLAPS

Owners == {"nobody", "event", "script", "lease"}

GameType ==
  [load : Nat, transition : Nat, pending : BOOLEAN, target : Rooms, room : Rooms,
   event : Events, ending : BOOLEAN, by : [Groups -> Owners]]

SeatType == [connection : Nat, required : BOOLEAN, acked : BOOLEAN]

Outcomes ==
  {"none", "arrived", "failed", "load changed", "transition", "native cleared", "session retired",
   "seat lost", "host downed", "peer downed", "deadline", "shutdown"}

LeaseType ==
  [phase : {"idle", "held", "releasing", "done"}, outcome : Outcomes, load : Nat, transition : Nat,
   session : Nat, challenge : Nat, epoch : Nat, deferred : SUBSET DeferrableGroups,
   owned : SUBSET OwnableGroups, age : 0..DeadlineTicks, seats : [Seats -> SeatType]]

HostType == [session : Nat, epoch : Nat, begin : BOOLEAN, load : Nat, leases : Nat]

ArmedType == [state : {"no", "requested", "bound"}, transition : Nat, load : Nat]

RoomType == [epoch : Nat, challenge : Nat]

RelayType == [room : RoomType, connection : [Seats -> Nat], next : [Seats -> Nat]]

FriendType == [epoch : Nat, challenge : Nat, arrived : BOOLEAN, acked : BOOLEAN]

AckType == [slot : Seats, connection : Nat, epoch : Nat, challenge : Nat]

StoryType ==
  [party : SUBSET Seats, transitions : Nat, events : Nat, sessions : Nat, conns : [Seats -> Nat]]

Types ==
  /\ game \in GameType /\ lease \in LeaseType /\ host \in HostType /\ armed \in ArmedType
  /\ unload \in {"no", "asked", "gone"}
  /\ view \in [Seats -> Nat] /\ relay \in RelayType /\ friend \in [Seats -> FriendType]
  /\ inbox \in Seq(AckType) /\ arrivals \subseteq Seats \X Nat \X Nat /\ story \in StoryType

\* A load completes once for each request.
Counts ==
  /\ game.load > 0 /\ game.transition <= story.transitions
  /\ game.load <= game.transition + 1 /\ (game.pending => game.load <= game.transition)

Lives(l) == l.phase \in {"held", "releasing"}

\* Who froze a group, and what a live lease can count on.
Bits(l, g) ==
  /\ \A k \in Groups :
       /\ g.by[k] = "event" => k \in DeferrableGroups /\ g.event = "freezes" /\ ~g.ending
       /\ g.by[k] = "script" => k = 3
       /\ g.by[k] = "lease" => Lives(l) /\ k \in HeldGroups(l)
  /\ g.ending => EventInstalled(g)
  /\ Lives(l) => l.load = g.load /\ \A k \in l.owned : g.by[k] = "lease"

Decided(l) ==
  /\ l.phase \in {"idle", "held"} <=> l.outcome = "none"

\* Who is acknowledged had arrived, and "arrived" missed nobody.
Earned(l, a) ==
  /\ \A s \in Seats :
       l.seats[s].acked => <<s, l.seats[s].connection, l.challenge>> \in a
  /\ l.outcome = "arrived" => \A s \in Seats : l.seats[s].required => l.seats[s].acked

\* Connections and challenges are numbered, and the newest is known.
Numbered ==
  /\ \A s \in Seats :
       /\ view[s] < relay.next[s] /\ relay.connection[s] < relay.next[s]
       /\ lease.seats[s].connection < relay.next[s]
       /\ friend[s].challenge <= host.leases
  /\ lease.challenge <= host.leases /\ relay.room.challenge <= host.leases
  /\ \A i \in 1..Len(inbox) : inbox[i].challenge <= host.leases

\* Arrived under this lease's challenge, on this connection or on one that the
\* lease has never heard of.
Vouches(l, a, s, connection) ==
  \/ <<s, connection, l.challenge>> \in a
  \/ connection # l.seats[s].connection

Answers ==
  lease.phase = "held" =>
    /\ \A s \in Seats :
         friend[s].arrived /\ friend[s].challenge = lease.challenge
           => Vouches(lease, arrivals, s, relay.connection[s])
    /\ \A i \in 1..Len(inbox) :
         inbox[i].challenge = lease.challenge => Vouches(lease, arrivals, inbox[i].slot, inbox[i].connection)

IInv ==
  /\ Types /\ Counts
  /\ Bits(lease, game) /\ Decided(lease) /\ Earned(lease, arrivals)
  /\ Numbered /\ Answers

-----------------------------------------------------------------------------
(* The operators. *)

\* Two games that differ at most in who froze a group.
SameButBits(g, h) ==
  /\ h.load = g.load /\ h.transition = g.transition /\ h.pending = g.pending
  /\ h.target = g.target /\ h.room = g.room /\ h.event = g.event /\ h.ending = g.ending

\* Freeze writes one group after another and nothing else of the game.
LEMMA FreezeIs ==
  ASSUME NEW g \in GameType, NEW ks, NEW who \in Owners
  PROVE  /\ Freeze(g, ks, who) \in GameType /\ SameButBits(g, Freeze(g, ks, who))
         /\ \A k \in Groups : Freeze(g, ks, who).by[k] = IF k \in ks THEN who ELSE g.by[k]
  BY DEF GameType, Freeze, SameButBits

\* A finished lease keeps its challenge, and what it says of who arrived.
LEMMA DoneIs ==
  ASSUME NEW l \in LeaseType
  PROVE  /\ Done(l) \in LeaseType /\ Done(l).phase = "done" /\ Done(l).challenge = l.challenge
         /\ Done(l).outcome = IF l.outcome = "arrived" THEN "arrived" ELSE "failed"
         /\ IF l.outcome = "arrived" THEN Done(l).seats = l.seats
            ELSE Done(l).seats = [s \in Seats |-> NoSeat]
<1>1. NoLease \in LeaseType
  <2>1. 0 \in 0..DeadlineTicks
    BY BoundsAssumption
  <2>2. [s \in Seats |-> NoSeat] \in [Seats -> SeatType]
    BY DEF NoSeat, SeatType
  <2>3. {} \in SUBSET DeferrableGroups /\ {} \in SUBSET OwnableGroups /\ "none" \in Outcomes
    BY DEF Outcomes
  <2>. QED  BY <2>1, <2>2, <2>3 DEF NoLease, LeaseType
<1>2. NoLease.seats = [s \in Seats |-> NoSeat]
  BY DEF NoLease
<1>. HIDE DEF NoLease
<1>3. l.challenge \in Nat /\ l.epoch \in Nat /\ l.seats \in [Seats -> SeatType] /\ l.outcome \in Outcomes
  BY DEF LeaseType
<1>. QED  BY <1>1, <1>2, <1>3 DEF Done, LeaseType, Outcomes

\* Decide changes a held lease's phase and outcome, and nothing of another.
LEMMA DecideIs ==
  ASSUME NEW l \in LeaseType, NEW outcome \in Outcomes
  PROVE  /\ Decide(l, outcome) \in LeaseType
         /\ Decide(l, outcome).load = l.load /\ Decide(l, outcome).challenge = l.challenge
         /\ Decide(l, outcome).seats = l.seats /\ Decide(l, outcome).deferred = l.deferred
         /\ Decide(l, outcome).owned = l.owned
         /\ l.phase = "held" =>
              Decide(l, outcome).phase = "releasing" /\ Decide(l, outcome).outcome = outcome
         /\ l.phase # "held" => Decide(l, outcome) = l
  BY DEF Decide, LeaseType

LEMMA EvaluateIs ==
  ASSUME NEW l, NEW g, NEW hostDowned, NEW peerDowned
  PROVE  /\ Evaluate(l, g, hostDowned, peerDowned) \in Outcomes
         /\ Evaluate(l, g, hostDowned, peerDowned) = "arrived" => ~Missing(l)
<1>. DEFINE e == Evaluate(l, g, hostDowned, peerDowned)
<1>1. /\ e \in {"load changed", "transition", "native cleared", "session retired", "seat lost",
                "host downed", "peer downed", "arrived", "deadline", "none"}
      /\ e = "arrived" => ~Missing(l)
  BY DEF Evaluate
<1>. QED  BY <1>1 DEF Outcomes

-----------------------------------------------------------------------------
(* One pass of the owner's service. *)

\* What a pass over (l, g) leaves: the lease as it was, or decided, or done.
Handled(l, g, m, h) ==
  /\ m \in LeaseType /\ h \in GameType /\ SameButBits(g, h)
  /\ Bits(m, h) /\ Decided(m) /\ m.challenge = l.challenge
  /\ m.seats = l.seats \/ m.seats = [s \in Seats |-> NoSeat]
  /\ m.outcome = "arrived" =>
       /\ m.seats = l.seats
       /\ \A s \in Seats : l.seats[s].required => l.seats[s].acked
  /\ m.phase = "held" => m = l
  /\ l.outcome # "none" =>
       /\ m.outcome = "arrived" <=> l.outcome = "arrived"
       /\ m.outcome \in {l.outcome, "failed"}
       /\ l.phase = "done" => m.phase = "done"
  /\ \A k \in Groups : g.by[k] # "nobody" /\ h.by[k] = "nobody" => g.by[k] = "lease"

\* What every pass can count on.
Fit(l, g) ==
  /\ l \in LeaseType /\ g \in GameType /\ Bits(l, g) /\ Decided(l)
  /\ l.outcome = "arrived" => \A s \in Seats : l.seats[s].required => l.seats[s].acked

\* A decision leaves the lease fit for the release.
LEMMA DecisionIsHandled ==
  ASSUME NEW l, NEW g, Fit(l, g), NEW outcome \in Outcomes, outcome # "none",
         outcome = "arrived" => ~Missing(l)
  PROVE  Handled(l, g, Decide(l, outcome), g) /\ Fit(Decide(l, outcome), g)
<1>. DEFINE m == Decide(l, outcome)
<1>1. l \in LeaseType /\ g \in GameType
  BY DEF Fit
<1>2. /\ m \in LeaseType
      /\ m.load = l.load /\ m.challenge = l.challenge
      /\ m.seats = l.seats /\ m.deferred = l.deferred
      /\ m.owned = l.owned
      /\ l.phase = "held" => m.phase = "releasing" /\ m.outcome = outcome
      /\ l.phase # "held" => m = l
  BY <1>1, DecideIs
<1>. HIDE DEF m
<1>3. Bits(m, g)
  BY <1>2 DEF Fit, Bits, Lives, HeldGroups
<1>4. Decided(m)
  BY <1>2 DEF Fit, Decided
<1>5. m.outcome = "arrived" => \A s \in Seats : l.seats[s].required => l.seats[s].acked
  <2>1. CASE l.phase = "held"
    BY <2>1, <1>2 DEF Missing
  <2>2. CASE l.phase # "held"
    BY <2>2, <1>2 DEF Fit
  <2>. QED  BY <2>1, <2>2
<1>6. Fit(m, g)
  BY <1>1, <1>2, <1>3, <1>4, <1>5 DEF Fit
<1>7. Handled(l, g, m, g)
  BY <1>1, <1>2, <1>3, <1>4, <1>5 DEF Handled, SameButBits, Fit, Decided
<1>. QED  BY <1>6, <1>7 DEF m

\* The release, in the lease's own room, of all that the lease froze.
LEMMA ReleaseIsHandled ==
  ASSUME NEW l, NEW g, Fit(l, g), l.phase = "releasing", ~EventOwnsParty(g)
  PROVE  Handled(l, g, Release(l, g).lease, Release(l, g).game)
<1>. DEFINE m == Done(l)
            h == Unfreeze(g, Frozen(g) \cap HeldGroups(l))
<1>1. l \in LeaseType /\ g \in GameType /\ Lives(l)
  BY DEF Fit, Lives
<1>2. /\ m \in LeaseType /\ m.phase = "done" /\ m.challenge = l.challenge
      /\ m.outcome = IF l.outcome = "arrived" THEN "arrived" ELSE "failed"
      /\ IF l.outcome = "arrived" THEN m.seats = l.seats ELSE m.seats = [s \in Seats |-> NoSeat]
  BY <1>1, DoneIs
<1>3. /\ h \in GameType /\ SameButBits(g, h)
      /\ \A k \in Groups :
           h.by[k] = IF k \in Frozen(g) \cap HeldGroups(l) THEN "nobody" ELSE g.by[k]
  BY <1>1, FreezeIs DEF Unfreeze, Owners
<1>. HIDE DEF m, h
<1>4. \A k \in Groups :
        /\ h.by[k] # "lease"
        /\ g.by[k] # "nobody" /\ h.by[k] = "nobody" => g.by[k] = "lease"
        /\ h.by[k] \in {g.by[k], "nobody"}
  <2>. SUFFICES ASSUME NEW k \in Groups
                PROVE  /\ h.by[k] # "lease"
                       /\ g.by[k] # "nobody" /\ h.by[k] = "nobody" => g.by[k] = "lease"
                       /\ h.by[k] \in {g.by[k], "nobody"}
    OBVIOUS
  <2>1. h.by[k] = IF g.by[k] # "nobody" /\ k \in HeldGroups(l) THEN "nobody" ELSE g.by[k]
    BY <1>3 DEF Frozen
  <2>2. g.by[k] \in Owners /\ g.event # "freezes"
    BY <1>1 DEF GameType, EventOwnsParty
  <2>3. /\ g.by[k] # "event"
        /\ g.by[k] = "script" => k = 3
        /\ g.by[k] = "lease" => k \in HeldGroups(l)
        /\ k \in l.owned => g.by[k] = "lease"
    BY <1>1, <2>2 DEF Fit, Bits
  <2>4. k \in HeldGroups(l) => k \in l.owned \/ k \in {0, 1}
    BY <1>1 DEF HeldGroups, LeaseType, DeferrableGroups
  <2>. QED  BY <2>1, <2>2, <2>3, <2>4 DEF Owners
<1>5. Bits(m, h)
  <2>1. ~Lives(m) /\ EventInstalled(h) = EventInstalled(g)
    BY <1>2, <1>3 DEF Lives, EventInstalled, SameButBits
  <2>2. \A k \in Groups : h.by[k] # "lease" /\ (h.by[k] = g.by[k] \/ h.by[k] = "nobody")
    BY <1>4
  <2>. QED  BY <2>1, <2>2, <1>3 DEF Fit, Bits, SameButBits
<1>6. Handled(l, g, m, h)
  BY <1>1, <1>2, <1>3, <1>4, <1>5 DEF Handled, Decided, Fit
<1>. QED  BY <1>6 DEF Release, m, h

\* The second half of the pass; a lease of another load does not live.
LEMMA ReleasingIsHandled ==
  ASSUME NEW l, NEW g, Fit(l, g)
  PROVE  Handled(l, g, Releasing(l, g).lease, Releasing(l, g).game)
<1>1. Handled(l, g, l, g)
  BY DEF Fit, Handled, SameButBits
<1>2. CASE l.phase # "releasing" \/ EventOwnsParty(g)
  <2>1. l.phase = "releasing" => g.load = l.load
    BY DEF Fit, Bits, Lives
  <2>. QED  BY <1>1, <1>2, <2>1 DEF Releasing
<1>3. CASE l.phase = "releasing" /\ ~EventOwnsParty(g)
  <2>1. g.load = l.load
    BY <1>3 DEF Fit, Bits, Lives
  <2>2. Releasing(l, g) = Release(l, g)
    BY <1>3, <2>1 DEF Releasing
  <2>. QED  BY <1>3, <2>2, ReleaseIsHandled
<1>. QED  BY <1>2, <1>3

\* Two halves of a pass are a pass.
LEMMA HandledTwice ==
  ASSUME NEW l, NEW g, NEW m, NEW n, NEW h,
         Handled(l, g, m, g), m.seats = l.seats, Handled(m, g, n, h)
  PROVE  Handled(l, g, n, h)
<1>1. /\ n \in LeaseType /\ h \in GameType /\ SameButBits(g, h)
      /\ Bits(n, h) /\ Decided(n) /\ n.challenge = l.challenge
      /\ n.seats = l.seats \/ n.seats = [s \in Seats |-> NoSeat]
  BY DEF Handled
<1>2. n.outcome = "arrived" =>
        /\ n.seats = l.seats
        /\ \A s \in Seats : l.seats[s].required => l.seats[s].acked
  BY DEF Handled
<1>3. n.phase = "held" => n = l
  BY DEF Handled
<1>4. l.outcome # "none" =>
       /\ n.outcome = "arrived" <=> l.outcome = "arrived"
       /\ n.outcome \in {l.outcome, "failed"}
       /\ l.phase = "done" => n.phase = "done"
  BY DEF Handled
<1>5. \A k \in Groups : g.by[k] # "nobody" /\ h.by[k] = "nobody" => g.by[k] = "lease"
  BY DEF Handled
<1>. QED  BY <1>1, <1>2, <1>3, <1>4, <1>5 DEF Handled

LEMMA ServicedIsHandled ==
  ASSUME NEW l, NEW g, Fit(l, g), NEW hostDowned, NEW peerDowned
  PROVE  LET after == Serviced(l, g, hostDowned, peerDowned)
         IN  Handled(l, g, after.lease, after.game)
<1>. DEFINE asked == IF unload = "asked" THEN Decide(l, "shutdown") ELSE l
            reason == Evaluate(asked, g, hostDowned, peerDowned)
            decided == IF asked.phase = "held" /\ reason # "none"
                         THEN Decide(asked, reason) ELSE asked
            after == Releasing(decided, g)
<1>1. Handled(l, g, l, g)
  BY DEF Fit, Handled, SameButBits
<1>2. Handled(l, g, asked, g) /\ Fit(asked, g) /\ asked.seats = l.seats
  <2>1. "shutdown" \in Outcomes /\ "shutdown" # "none" /\ "shutdown" # "arrived"
    BY DEF Outcomes
  <2>2. /\ Handled(l, g, Decide(l, "shutdown"), g) /\ Fit(Decide(l, "shutdown"), g)
        /\ Decide(l, "shutdown").seats = l.seats
    BY <2>1, DecisionIsHandled, DecideIs DEF Fit
  <2>. QED  BY <1>1, <2>2
<1>3. reason \in Outcomes /\ (reason = "arrived" => ~Missing(asked))
  BY EvaluateIs
<1>. HIDE DEF asked, reason
<1>4. Handled(asked, g, decided, g) /\ Fit(decided, g) /\ decided.seats = asked.seats
  <2>1. Handled(asked, g, asked, g)
    BY <1>2 DEF Fit, Handled, SameButBits
  <2>2. reason # "none" =>
          /\ Handled(asked, g, Decide(asked, reason), g) /\ Fit(Decide(asked, reason), g)
          /\ Decide(asked, reason).seats = asked.seats
    BY <1>2, <1>3, DecisionIsHandled, DecideIs DEF Fit
  <2>. QED  BY <1>2, <2>1, <2>2
<1>5. Serviced(l, g, hostDowned, peerDowned) = after
  BY DEF Serviced, asked, reason
<1>. HIDE DEF decided
<1>6. Handled(decided, g, after.lease, after.game)
  BY <1>4, ReleasingIsHandled
<1>. HIDE DEF after
<1>7. Handled(asked, g, after.lease, after.game)
  BY <1>4, <1>6, HandledTwice
<1>8. Handled(l, g, after.lease, after.game)
  BY <1>2, <1>7, HandledTwice
<1>. QED  BY <1>5, <1>8

\* What an action that serves the owner leaves.
LEMMA ServiceIsHandled ==
  ASSUME NEW l, NEW g, Fit(l, g), NEW hostDowned, NEW peerDowned,
         Service(l, g, hostDowned, peerDowned)
  PROVE  Handled(l, g, lease', game')
  BY ServicedIsHandled DEF Service

-----------------------------------------------------------------------------
(* What a step does to the lease and to the freezes. *)

\* The two action properties, of one step.
FreesOwn ==
  \A k \in Groups :
    (lease' # lease /\ game.load = game'.load /\ game.by[k] # "nobody" /\ game'.by[k] = "nobody")
      => game.by[k] = "lease"

DecisionStands ==
  (lease.outcome # "none" /\ lease'.challenge = lease.challenge)
    => /\ lease'.outcome = "arrived" <=> lease.outcome = "arrived"
       /\ lease'.outcome \in {lease.outcome, "failed"}
       /\ lease.phase = "done" => lease'.phase = "done"

\* The lease that is there goes on, or a new one begins.
GoesOn ==
  /\ lease'.challenge = lease.challenge
  /\ lease'.phase = "held" =>
       /\ lease.phase = "held"
       /\ \A s \in Seats : lease'.seats[s].connection = lease.seats[s].connection

Begins == lease'.challenge = host.leases + 1 /\ host'.leases = host.leases + 1

\* Requests and loads are counted one by one.
Counted ==
  \/ game'.load = game.load /\ game'.transition = game.transition /\ game'.pending = game.pending
  \/ /\ game.transition < story.transitions
     /\ game'.load = game.load /\ game'.transition = game.transition + 1
  \/ /\ game.pending
     /\ game'.load = game.load + 1 /\ game'.transition = game.transition /\ ~game'.pending

LeaseStep ==
  /\ lease' \in LeaseType /\ game' \in GameType
  /\ Bits(lease', game') /\ Decided(lease') /\ Earned(lease', arrivals')
  /\ \A s \in Seats :
       lease'.seats[s].connection \in {lease.seats[s].connection, view[s], 0}
  /\ GoesOn \/ Begins
  /\ FreesOwn /\ DecisionStands /\ Counted

\* A pass over the lease, or over one that differs from it as the caller may.
LEMMA ServedStep ==
  ASSUME IInv, NEW l, NEW g, Fit(l, g), Handled(l, g, lease', game'),
         l.challenge = lease.challenge, l.phase = "held" => lease.phase = "held",
         lease.outcome # "none" => l = lease,
         Earned(l, arrivals), arrivals' = arrivals,
         \A s \in Seats : /\ l.seats[s].connection = lease.seats[s].connection
                          /\ l.seats[s].required = lease.seats[s].required,
         g.load = game.load, g.by = game.by,
         \/ g.transition = game.transition /\ g.pending = game.pending
         \/ game.transition < story.transitions /\ g.transition = game.transition + 1
  PROVE  LeaseStep
<1>1. lease' \in LeaseType /\ game' \in GameType /\ Bits(lease', game') /\ Decided(lease')
  BY DEF Handled
<1>2. \A s \in Seats :
        /\ NoSeat.connection = 0 /\ ~NoSeat.acked
        /\ lease'.seats[s] = l.seats[s] \/ lease'.seats[s] = NoSeat
  BY DEF Handled, NoSeat
<1>. HIDE DEF NoSeat
<1>3. Earned(lease', arrivals')
  <2>1. \A s \in Seats : lease'.seats[s].acked =>
          <<s, lease'.seats[s].connection, lease'.challenge>> \in arrivals
    BY <1>2 DEF Earned, Handled
  <2>2. lease'.outcome = "arrived" =>
          \A s \in Seats : lease'.seats[s].required => lease'.seats[s].acked
    BY DEF Handled
  <2>. QED  BY <2>1, <2>2 DEF Earned
<1>4. \A s \in Seats :
        lease'.seats[s].connection \in {lease.seats[s].connection, view[s], 0}
  BY <1>2
<1>5. GoesOn
  BY DEF GoesOn, Handled
<1>6. FreesOwn
  BY DEF FreesOwn, Handled
<1>7. DecisionStands
  BY DEF DecisionStands, Handled
<1>8. Counted
  BY DEF Counted, Handled, SameButBits
<1>. QED  BY <1>1, <1>3, <1>4, <1>5, <1>6, <1>7, <1>8 DEF LeaseStep

LEMMA RequestStep ==
  ASSUME IInv, NEW to \in Rooms, Request(to)
  PROVE  LeaseStep
<1>. DEFINE begun == [game EXCEPT !.transition = @ + 1, !.pending = TRUE, !.target = to]
            l == Decide(lease, "transition")
<1>1. begun \in GameType /\ begun.load = game.load /\ begun.by = game.by
      /\ begun.transition = game.transition + 1
      /\ begun.event = game.event /\ begun.ending = game.ending
  <2>1. game \in GameType
    BY DEF IInv, Types
  <2>2. game.transition + 1 \in Nat
    BY <2>1 DEF GameType
  <2>. QED  BY <2>1, <2>2 DEF GameType
<1>2. IF lease.phase = "held" THEN Service(l, begun, FALSE, FALSE)
      ELSE game' = begun /\ lease' = lease
  BY DEF Request
<1>3. arrivals' = arrivals /\ game.transition < story.transitions
  BY DEF Request, netVars
<1>. HIDE DEF begun
<1>4. Fit(lease, begun)
  BY <1>1 DEF IInv, Types, Fit, Bits, Earned, EventInstalled
<1>5. CASE lease.phase = "held"
  <2>1. "transition" \in Outcomes /\ "transition" # "none" /\ "transition" # "arrived"
    BY DEF Outcomes
  <2>2. Fit(l, begun)
    BY <1>4, <2>1, DecisionIsHandled
  <2>3. /\ l.challenge = lease.challenge /\ l.seats = lease.seats /\ l.phase = "releasing"
        /\ l.outcome = "transition"
    BY <1>5, <2>1, DecideIs DEF IInv, Types
  <2>. HIDE DEF l
  <2>4. Handled(l, begun, lease', game')
    BY <1>2, <1>5, <2>2, ServiceIsHandled
  <2>5. lease.outcome = "none"
    BY <1>5 DEF IInv, Decided
  <2>6. Earned(l, arrivals)
    BY <2>1, <2>3 DEF IInv, Earned
  <2>. QED  BY <1>1, <1>3, <2>2, <2>3, <2>4, <2>5, <2>6, ServedStep
<1>6. CASE lease.phase # "held"
  <2>1. Handled(lease, begun, lease', game')
    BY <1>2, <1>4, <1>6 DEF Handled, Fit, SameButBits
  <2>. QED  BY <1>1, <1>3, <1>4, <2>1, ServedStep DEF IInv
<1>. QED  BY <1>5, <1>6

LEMMA PollStep ==
  ASSUME IInv, NEW hostDowned, NEW peerDowned, Poll(hostDowned, peerDowned)
  PROVE  LeaseStep
<1>1. Fit(lease, game)
  BY DEF IInv, Types, Fit, Earned
<1>2. Handled(lease, game, lease', game')
  BY <1>1, ServiceIsHandled DEF Poll
<1>3. arrivals' = arrivals
  BY DEF Poll, netVars
<1>. QED  BY <1>1, <1>2, <1>3, ServedStep DEF IInv

\* An acknowledgement counts for the friend that arrived on this connection.
LEMMA AckStep ==
  ASSUME IInv, HostReceivesAck
  PROVE  LeaseStep
<1>. DEFINE ack == Head(inbox)
            l == [lease EXCEPT !.seats[ack.slot].acked = TRUE]
<1>1. ack \in AckType /\ 1 \in 1..Len(inbox) /\ inbox[1] = ack
  BY DEF IInv, Types, HostReceivesAck
<1>2. /\ IF Accepts(ack) THEN Service(l, game, FALSE, FALSE) ELSE lease' = lease /\ game' = game
      /\ arrivals' = arrivals
  BY DEF HostReceivesAck
<1>. HIDE DEF ack
<1>3. Fit(lease, game)
  BY DEF IInv, Types, Fit, Earned
<1>4. CASE ~Accepts(ack)
  <2>1. Handled(lease, game, lease', game')
    BY <1>2, <1>3, <1>4 DEF Handled, Fit, SameButBits
  <2>. QED  BY <1>2, <1>3, <2>1, ServedStep DEF IInv
<1>5. CASE Accepts(ack)
  <2>1. /\ lease.phase = "held" /\ ack.challenge = lease.challenge /\ ack.slot \in Seats
        /\ lease.seats[ack.slot].connection = ack.connection
    BY <1>1, <1>5 DEF Accepts, AckType
  <2>2. <<ack.slot, ack.connection, lease.challenge>> \in arrivals
    BY <1>1, <2>1 DEF IInv, Answers, Vouches
  <2>3. /\ l \in LeaseType /\ l.challenge = lease.challenge /\ l.phase = "held" /\ l.load = lease.load
        /\ l.outcome = lease.outcome /\ l.deferred = lease.deferred /\ l.owned = lease.owned
        /\ \A s \in Seats :
             /\ l.seats[s].connection = lease.seats[s].connection
             /\ l.seats[s].required = lease.seats[s].required
             /\ l.seats[s].acked => s = ack.slot \/ lease.seats[s].acked
    <3>1. lease \in LeaseType
      BY DEF IInv, Types
    <3>. DEFINE seat == [lease.seats[ack.slot] EXCEPT !.acked = TRUE]
                seats == [lease.seats EXCEPT ![ack.slot] = seat]
    <3>2. l = [lease EXCEPT !.seats = seats]
      BY <3>1 DEF LeaseType
    <3>3. /\ seat \in SeatType /\ seat.connection = lease.seats[ack.slot].connection
          /\ seat.required = lease.seats[ack.slot].required
      BY <2>1, <3>1 DEF LeaseType, SeatType
    <3>. HIDE DEF seat
    <3>4. /\ seats \in [Seats -> SeatType]
          /\ \A s \in Seats : seats[s] = IF s = ack.slot THEN seat ELSE lease.seats[s]
      BY <2>1, <3>1, <3>3 DEF LeaseType
    <3>. HIDE DEF seats, l
    <3>5. l \in LeaseType /\ l.challenge = lease.challenge /\ l.phase = "held" /\ l.load = lease.load
          /\ l.outcome = lease.outcome /\ l.deferred = lease.deferred /\ l.owned = lease.owned
          /\ l.seats = seats
      BY <2>1, <3>1, <3>2, <3>4 DEF LeaseType
    <3>. QED  BY <3>3, <3>4, <3>5
  <2>. HIDE DEF l
  <2>4. lease.outcome = "none"
    BY <2>1 DEF IInv, Decided
  <2>5. Earned(l, arrivals)
    BY <2>1, <2>2, <2>3, <2>4 DEF IInv, Earned
  <2>6. Fit(l, game)
    <3>1. Bits(l, game)
      BY <2>1, <2>3 DEF IInv, Bits, Lives, HeldGroups
    <3>. QED  BY <2>1, <2>3, <2>4, <3>1 DEF IInv, Types, Fit, Decided
  <2>7. Handled(l, game, lease', game')
    BY <1>2, <1>5, <2>6, ServiceIsHandled
  <2>. QED  BY <1>2, <2>1, <2>3, <2>4, <2>5, <2>6, <2>7, ServedStep
<1>. QED  BY <1>4, <1>5

\* A step that leaves the lease alone, and its freezes in place.
LEMMA LeaseStays ==
  ASSUME IInv, lease' = lease, arrivals \subseteq arrivals', game' \in GameType, Bits(lease, game'),
         Counted
  PROVE  LeaseStep
<1>1. Earned(lease, arrivals')
  BY DEF IInv, Earned
<1>2. lease \in LeaseType /\ Decided(lease)
  BY DEF IInv, Types
<1>3. lease.outcome \in {lease.outcome, "failed"}
  OBVIOUS
<1>. QED  BY <1>1, <1>2, <1>3 DEF LeaseStep, GoesOn, FreesOwn, DecisionStands

LEMMA LoadStep ==
  ASSUME IInv, LoadCompletes
  PROVE  LeaseStep
<1>1. PICK event \in Events, scripted \in SUBSET {3} : game' = Loaded(event, scripted)
  BY DEF LoadCompletes
<1>2. lease \in LeaseType /\ game \in GameType
  BY DEF IInv, Types
<1>3. /\ game' \in GameType /\ game'.load = game.load + 1 /\ game'.event = event /\ ~game'.ending
      /\ game'.transition = game.transition /\ ~game'.pending
      /\ \A k \in Groups :
           game'.by[k] = IF k \in scripted THEN "script"
                         ELSE IF event = "freezes" /\ k \in DeferrableGroups THEN "event"
                         ELSE "nobody"
  <2>. DEFINE froze == [k \in Groups |-> IF k \in scripted THEN "script"
                          ELSE IF event = "freezes" /\ k \in DeferrableGroups THEN "event"
                          ELSE "nobody"]
  <2>1. froze \in [Groups -> Owners]
    BY DEF Owners
  <2>2. game' = [game EXCEPT !.load = @ + 1, !.pending = FALSE, !.room = game.target,
                             !.event = event, !.ending = FALSE, !.by = froze]
    BY <1>1 DEF Loaded
  <2>3. \A k \in Groups :
           froze[k] = IF k \in scripted THEN "script"
                      ELSE IF event = "freezes" /\ k \in DeferrableGroups THEN "event"
                      ELSE "nobody"
    OBVIOUS
  <2>. HIDE DEF froze
  <2>4. game.load + 1 \in Nat
    BY <1>2 DEF GameType
  <2>. QED  BY <1>2, <2>1, <2>2, <2>3, <2>4 DEF GameType
<1>4. arrivals' = arrivals /\ lease' = NoteLoad(lease)
  BY DEF LoadCompletes, netVars
<1>5. \A k \in Groups :
        /\ game'.by[k] # "lease"
        /\ game'.by[k] = "event" => k \in DeferrableGroups /\ event = "freezes"
        /\ game'.by[k] = "script" => k = 3
  BY <1>3
<1>6. FreesOwn /\ Counted
  <2>1. game.load \in Nat /\ game.pending
    BY <1>2 DEF GameType, LoadCompletes
  <2>2. FreesOwn
    BY <1>3, <2>1 DEF FreesOwn
  <2>3. Counted
    BY <1>3, <2>1 DEF Counted
  <2>. QED  BY <2>2, <2>3
<1>7. CASE Lives(lease)
  <2>. DEFINE l == Decide(lease, "load changed")
  <2>1. lease.load = game.load /\ game.load \in Nat
    BY <1>2, <1>7 DEF IInv, Bits, GameType
  <2>2. lease' = Done(l)
    <3>1. lease.load # game.load + 1
      BY <2>1
    <3>. QED  BY <1>4, <1>7, <3>1, Zenon DEF NoteLoad, Retire, Live, Lives
  <2>3. "load changed" \in Outcomes /\ "load changed" # "arrived"
    BY DEF Outcomes
  <2>4. /\ l \in LeaseType /\ l.challenge = lease.challenge /\ l.seats = lease.seats
        /\ lease.phase = "held" => l.outcome = "load changed"
        /\ lease.phase # "held" => l = lease
    BY <1>2, <2>3, DecideIs
  <2>. HIDE DEF l
  <2>5. /\ lease' \in LeaseType /\ lease'.phase = "done" /\ lease'.challenge = lease.challenge
        /\ lease'.outcome = IF l.outcome = "arrived" THEN "arrived" ELSE "failed"
        /\ IF l.outcome = "arrived" THEN lease'.seats = lease.seats
           ELSE lease'.seats = [s \in Seats |-> NoSeat]
    BY <2>2, <2>4, DoneIs
  <2>6. lease.phase = "held" => lease.outcome = "none"
    BY DEF IInv, Decided
  <2>7. lease'.outcome = "arrived" <=> lease.outcome = "arrived"
    BY <2>3, <2>4, <2>5, <2>6
  <2>8. \A s \in Seats : \/ lease'.seats[s] = lease.seats[s] /\ lease.outcome = "arrived"
                        \/ lease'.seats[s] = NoSeat
    BY <2>4, <2>5, <2>6, <2>7
  <2>9. Earned(lease', arrivals')
    <3>1. Earned(lease, arrivals) /\ ~NoSeat.acked
      BY DEF IInv, NoSeat
    <3>. QED  BY <1>4, <2>5, <2>7, <2>8, <3>1 DEF Earned
  <2>10. \A s \in Seats :
           lease'.seats[s].connection \in {lease.seats[s].connection, view[s], 0}
    BY <2>8 DEF NoSeat
  <2>11. Bits(lease', game') /\ Decided(lease')
    BY <1>3, <1>5, <2>5 DEF Bits, Decided, Lives
  <2>12. GoesOn /\ DecisionStands
    BY <2>3, <2>5, <2>6, <2>7 DEF GoesOn, DecisionStands
  <2>. QED  BY <1>3, <1>6, <2>5, <2>9, <2>10, <2>11, <2>12 DEF LeaseStep
<1>8. CASE ~Lives(lease)
  <2>1. lease' = lease
    BY <1>4, <1>8 DEF NoteLoad, Live, Lives
  <2>2. Bits(lease, game')
    BY <1>3, <1>5, <1>8 DEF Bits
  <2>. QED  BY <1>3, <1>4, <1>6, <2>1, <2>2, LeaseStays
<1>. QED  BY <1>7, <1>8

LEMMA EventStartsStep ==
  ASSUME IInv, EventStarts
  PROVE  LeaseStep
<1>1. PICK event \in {"freezes", "spares"} :
        LET installed == [game EXCEPT !.event = event]
        IN  game' = IF event = "freezes"
                      THEN Freeze(installed, DeferrableGroups, "event") ELSE installed
  BY DEF EventStarts
<1>. DEFINE installed == [game EXCEPT !.event = event]
<1>2. lease' = lease /\ arrivals' = arrivals /\ ~EventInstalled(game)
  BY DEF EventStarts, netVars
<1>3. /\ installed \in GameType /\ installed.by = game.by /\ installed.load = game.load
      /\ installed.transition = game.transition /\ installed.pending = game.pending
      /\ installed.event = event /\ installed.ending = game.ending
  BY DEF IInv, Types, GameType, Events
<1>. HIDE DEF installed
<1>4. /\ game' \in GameType /\ game'.load = game.load /\ game'.event = event /\ game'.ending = game.ending
      /\ game'.transition = game.transition /\ game'.pending = game.pending
      /\ \A k \in Groups :
           game'.by[k] = IF event = "freezes" /\ k \in DeferrableGroups THEN "event" ELSE game.by[k]
  <2>1. event = "freezes" => game' = Freeze(installed, DeferrableGroups, "event")
    BY <1>1 DEF installed
  <2>2. event # "freezes" => game' = installed
    BY <1>1 DEF installed
  <2>. QED  BY <1>3, <2>1, <2>2, FreezeIs DEF Owners, SameButBits
<1>5. Bits(lease, game')
  <2>1. lease \in LeaseType /\ Bits(lease, game)
    BY DEF IInv, Types
  <2>2. ~game.ending /\ \A k \in Groups : game.by[k] # "event"
    BY <1>2, <2>1 DEF Bits, EventInstalled
  <2>3. \A k \in lease.owned : k \in Groups /\ k \notin DeferrableGroups
    BY <2>1 DEF LeaseType, OwnableGroups, DeferrableGroups, Groups
  <2>. QED  BY <1>1, <1>4, <2>1, <2>2, <2>3 DEF Bits, EventInstalled
<1>6. Counted
  BY <1>4 DEF Counted
<1>. QED  BY <1>2, <1>4, <1>5, <1>6, LeaseStays

\* The room's own script, and the end of the context.
LEMMA ClearsStep ==
  ASSUME IInv, ScriptClears \/ ContextClears
  PROVE  LeaseStep
<1>1. lease' = lease /\ arrivals' = arrivals
  BY DEF ScriptClears, ContextClears, netVars
<1>2. lease \in LeaseType /\ game \in GameType /\ Bits(lease, game)
  BY DEF IInv, Types
<1>3. \A k \in lease.owned : k \in Groups /\ k \notin DeferrableGroups
  BY <1>2 DEF LeaseType, OwnableGroups, DeferrableGroups, Groups
<1>4. CASE ScriptClears
  <2>1. game' = Freeze(game, DeferrableGroups, "nobody")
    BY <1>4 DEF ScriptClears, Unfreeze
  <2>2. /\ game' \in GameType /\ SameButBits(game, game')
        /\ \A k \in Groups :
             game'.by[k] = IF k \in DeferrableGroups THEN "nobody" ELSE game.by[k]
    BY <1>2, <2>1, FreezeIs DEF Owners
  <2>3. Bits(lease, game')
    BY <1>2, <1>3, <2>2 DEF Bits, SameButBits, EventInstalled
  <2>4. Counted
    BY <2>2 DEF Counted, SameButBits
  <2>. QED  BY <1>1, <2>2, <2>3, <2>4, LeaseStays
<1>5. CASE ContextClears
  <2>1. /\ game.ending /\ game' \in GameType /\ game'.by = game.by /\ game'.load = game.load
        /\ ~game'.ending /\ game'.transition = game.transition /\ game'.pending = game.pending
    BY <1>2, <1>5 DEF ContextClears, GameType, Events
  <2>2. \A k \in Groups : game.by[k] # "event"
    BY <1>2, <2>1 DEF Bits
  <2>3. Bits(lease, game')
    BY <1>2, <2>1, <2>2 DEF Bits
  <2>4. Counted
    BY <2>1 DEF Counted
  <2>. QED  BY <1>1, <2>1, <2>3, <2>4, LeaseStays
<1>. QED  BY <1>4, <1>5

\* A new lease freezes what the event had frozen, and boss or enemies unless
\* somebody froze them already.
LEMMA NewLeaseStep ==
  ASSUME IInv, EventTearsDown, Deferrable
  PROVE  LeaseStep
<1>. DEFINE owned == OwnableGroups \ Frozen(game)
            ours == Frozen(game) \cap DeferrableGroups
            kept == Freeze(game, ours, "lease")
            both == Freeze(kept, owned, "lease")
            seats == [s \in Seats |-> [connection |-> view[s], required |-> view[s] # 0, acked |-> FALSE]]
<1>1. /\ lease' = NewLease(owned) /\ arrivals' = {} /\ game' = TornDown(both)
      /\ host' = [host EXCEPT !.leases = @ + 1]
      /\ EventInstalled(game) /\ ~Live
  BY Zenon DEF EventTearsDown, Deferrable
<1>2. game \in GameType /\ lease \in LeaseType /\ host \in HostType /\ view \in [Seats -> Nat]
      /\ Bits(lease, game)
  BY DEF IInv, Types
<1>3. /\ kept \in GameType /\ SameButBits(game, kept)
      /\ \A k \in Groups : kept.by[k] = IF k \in ours THEN "lease" ELSE game.by[k]
  BY <1>2, FreezeIs DEF Owners
<1>. HIDE DEF kept
<1>4. /\ both \in GameType /\ SameButBits(kept, both)
      /\ \A k \in Groups : both.by[k] = IF k \in owned THEN "lease" ELSE kept.by[k]
  BY <1>3, FreezeIs DEF Owners
<1>. HIDE DEF both
<1>5. /\ game' \in GameType /\ game'.load = game.load /\ game'.event = game.event /\ game'.ending
      /\ game'.transition = game.transition /\ game'.pending = game.pending
      /\ game'.by = both.by
  BY <1>1, <1>3, <1>4 DEF TornDown, GameType, SameButBits
<1>6. \A k \in Groups :
        /\ game'.by[k] = "lease" => k \in DeferrableGroups \cup owned
        /\ k \in owned => game'.by[k] = "lease"
        /\ game'.by[k] # "event" /\ (game'.by[k] = "script" => k = 3)
        /\ game.by[k] # "nobody" => game'.by[k] # "nobody"
  <2>. SUFFICES ASSUME NEW k \in Groups
                PROVE  /\ game'.by[k] = "lease" => k \in DeferrableGroups \cup owned
                       /\ k \in owned => game'.by[k] = "lease"
                       /\ game'.by[k] # "event" /\ (game'.by[k] = "script" => k = 3)
                       /\ game.by[k] # "nobody" => game'.by[k] # "nobody"
    OBVIOUS
  <2>1. /\ game.by[k] = "event" => k \in DeferrableGroups
        /\ game.by[k] = "script" => k = 3
        /\ game.by[k] # "lease"
    BY <1>1, <1>2 DEF Bits, Live, Lives
  <2>2. game'.by[k] = IF k \in owned \/ k \in ours THEN "lease" ELSE game.by[k]
    BY <1>3, <1>4, <1>5
  <2>3. game.by[k] = "event" => k \in ours
    BY <2>1 DEF Frozen
  <2>. QED  BY <2>1, <2>2, <2>3
<1>7. seats \in [Seats -> SeatType]
  BY <1>2 DEF SeatType
<1>8. /\ lease' \in LeaseType /\ lease'.phase = "held" /\ lease'.outcome = "none"
      /\ lease'.load = game.load /\ lease'.challenge = host.leases + 1
      /\ lease'.deferred = DeferrableGroups /\ lease'.owned = owned /\ lease'.seats = seats
  <2>1. 0 \in 0..DeadlineTicks /\ 0 \in Nat
    BY BoundsAssumption
  <2>2. owned \in SUBSET OwnableGroups /\ DeferrableGroups \in SUBSET DeferrableGroups
    OBVIOUS
  <2>3. /\ game.load \in Nat /\ game.transition \in Nat /\ host.session \in Nat
        /\ host.leases + 1 \in Nat /\ "none" \in Outcomes
    BY <1>2 DEF GameType, HostType, Outcomes
  <2>4. lease' = [NoLease EXCEPT
                    !.phase = "held", !.load = game.load, !.transition = game.transition,
                    !.session = host.session, !.challenge = host.leases + 1,
                    !.deferred = DeferrableGroups, !.owned = owned, !.seats = seats]
    BY <1>1, Zenon DEF NewLease
  <2>. HIDE DEF owned, seats
  <2>. QED  BY <1>7, <2>1, <2>2, <2>3, <2>4 DEF NoLease, LeaseType
<1>9. \A s \in Seats : lease'.seats[s].connection = view[s] /\ ~lease'.seats[s].acked
  BY <1>8
<1>. HIDE DEF owned, seats
<1>10. Bits(lease', game')
  <2>1. \A k \in owned : k \in Groups
    BY DEF owned, OwnableGroups, Groups
  <2>. QED  BY <1>1, <1>5, <1>6, <1>8, <2>1 DEF Bits, Lives, HeldGroups, EventInstalled
<1>11. Earned(lease', arrivals') /\ Decided(lease')
  BY <1>8, <1>9 DEF Earned, Decided
<1>12. Begins
  BY <1>1, <1>2, <1>8 DEF Begins, HostType
<1>13. FreesOwn
  BY <1>6 DEF FreesOwn
<1>14. DecisionStands
  <2>1. lease'.challenge # lease.challenge
    <3>1. lease.challenge <= host.leases /\ lease.challenge \in Nat /\ host.leases \in Nat
      BY <1>2 DEF IInv, Numbered, LeaseType, HostType
    <3>. QED  BY <1>8, <3>1
  <2>. QED  BY <2>1 DEF DecisionStands
<1>15. Counted
  BY <1>5 DEF Counted
<1>. QED  BY <1>5, <1>8, <1>9, <1>10, <1>11, <1>12, <1>13, <1>14, <1>15 DEF LeaseStep

LEMMA TearDownStep ==
  ASSUME IInv, EventTearsDown
  PROVE  LeaseStep
<1>1. CASE Deferrable
  BY <1>1, NewLeaseStep
<1>2. CASE ~Deferrable
  <2>1. /\ game' = TornDown(Unfreeze(game, DeferrableGroups)) /\ lease' = lease /\ arrivals' = arrivals
        /\ EventInstalled(game)
    BY <1>2 DEF EventTearsDown
  <2>2. lease \in LeaseType /\ game \in GameType /\ Bits(lease, game)
    BY DEF IInv, Types
  <2>. DEFINE freed == Freeze(game, DeferrableGroups, "nobody")
  <2>3. /\ freed \in GameType /\ SameButBits(game, freed)
        /\ \A k \in Groups : freed.by[k] = IF k \in DeferrableGroups THEN "nobody" ELSE game.by[k]
    BY <2>2, FreezeIs DEF Owners
  <2>4. game' = TornDown(freed)
    BY <2>1 DEF Unfreeze
  <2>. HIDE DEF freed
  <2>5. /\ game' \in GameType /\ game'.load = game.load /\ game'.event = game.event
        /\ game'.transition = game.transition /\ game'.pending = game.pending
        /\ game'.by = freed.by
    BY <2>3, <2>4 DEF TornDown, GameType, SameButBits
  <2>6. \A k \in lease.owned : k \in Groups /\ k \notin DeferrableGroups
    BY <2>2 DEF LeaseType, OwnableGroups, DeferrableGroups, Groups
  <2>7. Bits(lease, game')
    BY <2>1, <2>2, <2>3, <2>5, <2>6 DEF Bits, EventInstalled
  <2>8. Counted
    BY <2>5 DEF Counted
  <2>. QED  BY <2>1, <2>5, <2>7, <2>8, LeaseStays
<1>. QED  BY <1>1, <1>2

\* The announcement names the lease, and the clock ages it.
LEMMA AnnouncedOrOlder ==
  ASSUME IInv, HostBeginInstance \/ Tick
  PROVE  LeaseStep
<1>1. game' = game /\ arrivals' = arrivals
  BY DEF HostBeginInstance, Tick, netVars
<1>2. lease \in LeaseType /\ game \in GameType /\ host \in HostType
  BY DEF IInv, Types
<1>3. /\ lease' \in LeaseType /\ lease'.phase = lease.phase /\ lease'.outcome = lease.outcome
      /\ lease'.load = lease.load /\ lease'.challenge = lease.challenge
      /\ lease'.deferred = lease.deferred /\ lease'.owned = lease.owned
      /\ lease'.seats = lease.seats
  <2>1. CASE lease' = lease
    BY <1>2, <2>1
  <2>2. CASE HostBeginInstance /\ lease' # lease
    <3>1. lease' = [lease EXCEPT !.epoch = host.epoch + 1] /\ host.epoch + 1 \in Nat
      BY <1>2, <2>2 DEF HostBeginInstance, NotePublished, HostType
    <3>. QED  BY <1>2, <3>1 DEF LeaseType
  <2>3. CASE Tick
    <3>1. lease' = [lease EXCEPT !.age = @ + 1] /\ lease.age < DeadlineTicks
      BY <2>3 DEF Tick
    <3>2. lease.age + 1 \in 0..DeadlineTicks
      BY <1>2, <3>1, BoundsAssumption DEF LeaseType
    <3>. QED  BY <1>2, <3>1, <3>2 DEF LeaseType
  <2>. QED  BY <2>1, <2>2, <2>3
<1>4. Bits(lease', game') /\ Decided(lease') /\ Earned(lease', arrivals')
  BY <1>1, <1>3 DEF IInv, Bits, Decided, Earned, Lives, HeldGroups
<1>. QED  BY <1>1, <1>2, <1>3, <1>4 DEF LeaseStep, GoesOn, FreesOwn, DecisionStands, Counted

\* Everything else leaves lease and game alone.
Elsewhere ==
  \/ TrackRoom \/ SessionChanges \/ Shutdown
  \/ \E s \in Seats : HostSeesRoster(s) \/ Leave(s) \/ Reconnect(s) \/ Follow(s) \/ Arrive(s) \/ SendAck(s)

LEMMA ElsewhereStep ==
  ASSUME IInv, Elsewhere
  PROVE  LeaseStep /\ lease' = lease /\ game' = game
<1>1. lease' = lease /\ game' = game
  BY DEF Elsewhere, TrackRoom, SessionChanges, Shutdown, HostSeesRoster, Leave, Reconnect, Follow,
         Arrive, SendAck, gameVars
<1>2. arrivals \subseteq arrivals'
  BY DEF Elsewhere, TrackRoom, SessionChanges, Shutdown, HostSeesRoster, Leave, Reconnect, Follow,
         Arrive, SendAck, netVars
<1>. QED  BY <1>1, <1>2, LeaseStays DEF IInv, Types, Counted

\* Every step is one of these.
LEMMA Steps ==
  ASSUME Next
  PROVE  \/ \E to \in Rooms : Request(to)
         \/ \E hostDowned, peerDowned \in BOOLEAN : Poll(hostDowned, peerDowned)
         \/ HostReceivesAck
         \/ LoadCompletes
         \/ EventStarts
         \/ ScriptClears \/ ContextClears
         \/ EventTearsDown
         \/ HostBeginInstance \/ Tick
         \/ Elsewhere
  BY Zenon DEF Next, Native, EventEnds, HostNext, FriendNext, Elsewhere

LEMMA LeaseMoves ==
  ASSUME IInv, [Next]_vars
  PROVE  LeaseStep
<1>1. CASE Next
  BY <1>1, Steps, RequestStep, PollStep, AckStep, LoadStep, EventStartsStep, ClearsStep, TearDownStep,
     AnnouncedOrOlder, ElsewhereStep, Zenon
<1>2. CASE UNCHANGED vars
  BY <1>2, LeaseStays DEF vars, IInv, Types, Counted
<1>. QED  BY <1>1, <1>2

-----------------------------------------------------------------------------
(* What a step does to the rest. *)

HostStep == host' \in HostType /\ host.leases <= host'.leases

LEMMA HostMoves ==
  ASSUME IInv, [Next]_vars
  PROVE  HostStep
<1>1. /\ host \in HostType /\ host.leases \in Nat /\ host.leases + 1 \in Nat
      /\ host.session + 1 \in Nat /\ host.epoch + 1 \in Nat /\ game.load \in Nat /\ game.pending \in BOOLEAN
      /\ host.begin \in BOOLEAN /\ RoomTracked \in BOOLEAN
  BY DEF IInv, Types, HostType, GameType, RoomTracked
<1>2. CASE host' = host
  BY <1>1, <1>2 DEF HostStep
<1>3. CASE host' = [host EXCEPT !.leases = @ + 1]
  BY <1>1, <1>3 DEF HostStep, HostType
<1>4. CASE TrackRoom
  <2>. DEFINE begin == ~game.pending
              load == IF game.pending THEN host.load ELSE game.load
  <2>1. host' = [host EXCEPT !.begin = begin, !.load = load]
    BY <1>4 DEF TrackRoom
  <2>2. begin \in BOOLEAN /\ load \in Nat
    BY <1>1 DEF HostType
  <2>. HIDE DEF begin, load
  <2>4. host' \in HostType
    BY <1>1, <2>1, <2>2 DEF HostType
  <2>5. host'.leases = host.leases
    BY <1>1, <2>1, <2>2 DEF HostType
  <2>. QED  BY <1>1, <2>4, <2>5 DEF HostStep
<1>5. CASE HostBeginInstance
  <2>. DEFINE epoch == host.epoch + 1
  <2>1. host' = [host EXCEPT !.epoch = epoch, !.begin = FALSE]
    BY <1>5 DEF HostBeginInstance
  <2>2. epoch \in Nat
    BY <1>1
  <2>. HIDE DEF epoch
  <2>4. host' \in HostType
    BY <1>1, <2>1, <2>2 DEF HostType
  <2>5. host'.leases = host.leases
    BY <1>1, <2>1, <2>2 DEF HostType
  <2>. QED  BY <1>1, <2>4, <2>5 DEF HostStep
<1>6. CASE SessionChanges
  <2>1. PICK announces \in BOOLEAN :
          host' = [host EXCEPT !.session = @ + 1, !.begin = IF announces THEN RoomTracked ELSE @]
    BY <1>6 DEF SessionChanges
  <2>. DEFINE session == host.session + 1
              begin == IF announces THEN RoomTracked ELSE host.begin
  <2>2. host' = [host EXCEPT !.session = session, !.begin = begin]
    BY <2>1
  <2>3. session \in Nat /\ begin \in BOOLEAN
    BY <1>1
  <2>. HIDE DEF session, begin
  <2>4. host' \in HostType
    BY <1>1, <2>2, <2>3 DEF HostType
  <2>5. host'.leases = host.leases
    BY <1>1, <2>2, <2>3 DEF HostType
  <2>. QED  BY <1>1, <2>4, <2>5 DEF HostStep
<1>7. CASE EventTearsDown
  BY <1>2, <1>3, <1>7 DEF EventTearsDown
<1>8. CASE UNCHANGED vars
  BY <1>2, <1>8 DEF vars
<1>9. CASE Elsewhere /\ ~TrackRoom /\ ~SessionChanges
  BY <1>2, <1>9 DEF Elsewhere, Shutdown, HostSeesRoster, Leave, Reconnect, Follow, Arrive, SendAck, gameVars
<1>10. CASE \/ \E to \in Rooms : Request(to)
            \/ \E hostDowned, peerDowned \in BOOLEAN : Poll(hostDowned, peerDowned)
            \/ HostReceivesAck \/ LoadCompletes \/ EventStarts \/ ScriptClears \/ ContextClears \/ Tick
  BY <1>2, <1>10 DEF Request, Poll, HostReceivesAck, LoadCompletes, EventStarts, ScriptClears,
                     ContextClears, Tick
<1>. QED  BY <1>4, <1>5, <1>6, <1>7, <1>8, <1>9, <1>10, Steps, Zenon

\* Who writes what is left.
LEMMA Writers ==
  ASSUME [Next]_vars
  PROVE  /\ \/ armed' = armed \/ LoadCompletes \/ EventTearsDown \/ \E to \in Rooms : Request(to)
         /\ unload' = unload \/ Shutdown
         /\ view' = view \/ \E s \in Seats : HostSeesRoster(s)
         /\ relay' = relay \/ HostBeginInstance \/ \E s \in Seats : Leave(s) \/ Reconnect(s)
         /\ friend' = friend \/ \E s \in Seats : Leave(s) \/ Follow(s) \/ Arrive(s) \/ SendAck(s)
         /\ inbox' = inbox \/ HostReceivesAck \/ \E s \in Seats : SendAck(s)
         /\ arrivals' = arrivals \/ EventTearsDown \/ \E s \in Seats : Arrive(s)
         /\ story' = story \/ EventStarts
<1>1. CASE UNCHANGED vars
  BY <1>1 DEF vars
<1>2. CASE Elsewhere
  <2>1. CASE TrackRoom \/ SessionChanges \/ Shutdown
    BY <2>1 DEF TrackRoom, SessionChanges, Shutdown, netVars, gameVars
  <2>2. CASE \E s \in Seats : HostSeesRoster(s) \/ Leave(s) \/ Reconnect(s)
    BY <2>2 DEF HostSeesRoster, Leave, Reconnect, gameVars
  <2>3. CASE \E s \in Seats : Follow(s) \/ Arrive(s) \/ SendAck(s)
    BY <2>3 DEF Follow, Arrive, SendAck, gameVars
  <2>. QED  BY <1>2, <2>1, <2>2, <2>3 DEF Elsewhere
<1>3. CASE \/ \E to \in Rooms : Request(to)
           \/ \E hostDowned, peerDowned \in BOOLEAN : Poll(hostDowned, peerDowned)
           \/ HostReceivesAck \/ LoadCompletes
  BY <1>3 DEF Request, Poll, HostReceivesAck, LoadCompletes, netVars
<1>4. CASE EventStarts \/ ScriptClears \/ ContextClears \/ EventTearsDown \/ HostBeginInstance \/ Tick
  BY <1>4 DEF EventStarts, ScriptClears, ContextClears, EventTearsDown, HostBeginInstance, Tick, netVars
<1>. QED  BY <1>1, <1>2, <1>3, <1>4, Steps, Zenon

\* A seat gets a connection by a number never used for it.
RelayStep ==
  /\ relay' \in RelayType
  /\ relay'.room.challenge \in {relay.room.challenge, lease.challenge, 0}
  /\ \A s \in Seats :
       /\ relay.next[s] <= relay'.next[s]
       /\ \/ relay'.connection[s] = relay.connection[s]
          \/ relay'.connection[s] = 0 /\ ~friend'[s].arrived
          \/ relay'.connection[s] = relay.next[s] /\ relay'.next[s] = relay.next[s] + 1

LEMMA RelayMoves ==
  ASSUME IInv, [Next]_vars
  PROVE  RelayStep
<1>1. /\ relay \in RelayType /\ host.epoch + 1 \in Nat /\ lease.challenge \in Nat
      /\ relay.room \in RoomType
      /\ relay.connection \in [Seats -> Nat] /\ relay.next \in [Seats -> Nat]
      /\ friend \in [Seats -> FriendType]
  BY DEF IInv, Types, HostType, LeaseType, RelayType
<1>2. CASE relay' = relay
  BY <1>1, <1>2 DEF RelayStep
<1>3. CASE HostBeginInstance
  <2>1. PICK challenge \in {0, lease.challenge} :
          relay' = [relay EXCEPT !.room = Announcement(challenge)]
    BY <1>3, Zenon DEF HostBeginInstance
  <2>2. Announcement(challenge) \in RoomType /\ Announcement(challenge).challenge = challenge
    BY <1>1 DEF Announcement, RoomType
  <2>3. /\ relay' \in RelayType /\ relay'.room = Announcement(challenge)
        /\ relay'.connection = relay.connection /\ relay'.next = relay.next
    BY <1>1, <2>1, <2>2 DEF RelayType
  <2>. QED  BY <1>1, <2>2, <2>3 DEF RelayStep
<1>4. ASSUME NEW s \in Seats, Leave(s)
      PROVE  RelayStep
  <2>1. /\ relay' = [relay EXCEPT !.connection[s] = 0]
        /\ friend' = [friend EXCEPT ![s] = NewFriend]
    BY <1>4 DEF Leave
  <2>2. ~friend'[s].arrived
    BY <1>1, <2>1 DEF NewFriend
  <2>3. /\ relay' \in RelayType /\ relay'.room = relay.room /\ relay'.next = relay.next
        /\ \A r \in Seats : relay'.connection[r] = IF r = s THEN 0 ELSE relay.connection[r]
    BY <1>1, <2>1 DEF RelayType
  <2>. QED  BY <1>1, <2>2, <2>3 DEF RelayStep
<1>5. ASSUME NEW s \in Seats, Reconnect(s)
      PROVE  RelayStep
  <2>1. relay' = [relay EXCEPT !.connection[s] = relay.next[s], !.next[s] = @ + 1]
    BY <1>5 DEF Reconnect
  <2>2. relay.next[s] \in Nat /\ relay.next[s] + 1 \in Nat
    BY <1>1
  <2>3. /\ relay' \in RelayType /\ relay'.room = relay.room
        /\ \A r \in Seats :
             /\ relay'.connection[r] = IF r = s THEN relay.next[r] ELSE relay.connection[r]
             /\ relay'.next[r] = IF r = s THEN relay.next[r] + 1 ELSE relay.next[r]
    BY <1>1, <2>1, <2>2 DEF RelayType
  <2>4. \A r \in Seats : relay.next[r] \in Nat
    BY <1>1
  <2>. QED  BY <1>1, <2>3, <2>4 DEF RelayStep
<1>. QED  BY <1>2, <1>3, <1>4, <1>5, Writers

\* A friend that arrives does so on its connection, under its challenge.
FriendStep ==
  /\ friend' \in [Seats -> FriendType]
  /\ \A s \in Seats :
       /\ friend'[s].challenge \in {friend[s].challenge, relay.room.challenge, 0}
       /\ friend'[s].arrived =>
            /\ friend'[s].challenge = friend[s].challenge
            /\ \/ friend[s].arrived
               \/ <<s, relay.connection[s], friend[s].challenge>> \in arrivals'

LEMMA FriendMoves ==
  ASSUME IInv, [Next]_vars
  PROVE  FriendStep
<1>1. /\ friend \in [Seats -> FriendType] /\ relay.room \in RoomType
      /\ NewFriend \in FriendType /\ ~NewFriend.arrived /\ NewFriend.challenge = 0
  BY DEF IInv, Types, RelayType, NewFriend, FriendType
<1>2. CASE friend' = friend
  BY <1>1, <1>2 DEF FriendStep
<1>3. ASSUME NEW s \in Seats, NEW f \in FriendType, friend' = [friend EXCEPT ![s] = f],
             f.challenge \in {friend[s].challenge, relay.room.challenge, 0},
             f.arrived => /\ f.challenge = friend[s].challenge
                          /\ \/ friend[s].arrived
                             \/ <<s, relay.connection[s], friend[s].challenge>> \in arrivals'
      PROVE  FriendStep
  <2>1. \A r \in Seats : friend'[r] = IF r = s THEN f ELSE friend[r]
    BY <1>1, <1>3
  <2>. QED  BY <1>1, <1>3, <2>1 DEF FriendStep
<1>4. ASSUME NEW s \in Seats, Leave(s)
      PROVE  FriendStep
  BY <1>1, <1>3, <1>4 DEF Leave
<1>5. ASSUME NEW s \in Seats, Follow(s)
      PROVE  FriendStep
  <2>. DEFINE f == IF relay.room.challenge = 0 THEN NewFriend
                   ELSE [NewFriend EXCEPT !.epoch = relay.room.epoch,
                                          !.challenge = relay.room.challenge]
  <2>1. f \in FriendType /\ f.challenge \in {relay.room.challenge, 0} /\ ~f.arrived
    BY <1>1 DEF FriendType, RoomType
  <2>2. friend' = [friend EXCEPT ![s] = f]
    BY <1>5 DEF Follow
  <2>. HIDE DEF f
  <2>. QED  BY <1>3, <2>1, <2>2
<1>6. ASSUME NEW s \in Seats, Arrive(s)
      PROVE  FriendStep
  <2>. DEFINE f == [friend[s] EXCEPT !.arrived = TRUE]
  <2>1. f \in FriendType /\ f.challenge = friend[s].challenge
    BY <1>1 DEF FriendType
  <2>2. friend' = [friend EXCEPT ![s] = f] /\ <<s, relay.connection[s], friend[s].challenge>> \in arrivals'
    BY <1>6 DEF Arrive
  <2>. HIDE DEF f
  <2>. QED  BY <1>3, <2>1, <2>2
<1>7. ASSUME NEW s \in Seats, SendAck(s)
      PROVE  FriendStep
  <2>. DEFINE f == [friend[s] EXCEPT !.acked = TRUE]
  <2>1. f \in FriendType /\ f.challenge = friend[s].challenge /\ f.arrived = friend[s].arrived
    BY <1>1 DEF FriendType
  <2>2. friend' = [friend EXCEPT ![s] = f]
    BY <1>7 DEF SendAck
  <2>. HIDE DEF f
  <2>. QED  BY <1>3, <2>1, <2>2
<1>. QED  BY <1>2, <1>4, <1>5, <1>6, <1>7, Writers

\* An acknowledgement enters the inbox as the relay saw its friend.
InboxStep ==
  /\ inbox' \in Seq(AckType)
  /\ \A i \in 1..Len(inbox') :
       \/ \E j \in 1..Len(inbox) : inbox'[i] = inbox[j]
       \/ /\ friend[inbox'[i].slot].arrived
          /\ inbox'[i].connection = relay.connection[inbox'[i].slot]
          /\ inbox'[i].challenge = friend[inbox'[i].slot].challenge

LEMMA InboxMoves ==
  ASSUME IInv, [Next]_vars
  PROVE  InboxStep
<1>1. /\ inbox \in Seq(AckType) /\ friend \in [Seats -> FriendType] /\ relay.connection \in [Seats -> Nat]
  BY DEF IInv, Types, RelayType
<1>2. CASE inbox' = inbox
  BY <1>1, <1>2 DEF InboxStep
<1>3. CASE HostReceivesAck
  <2>1. inbox # <<>> /\ inbox' = Tail(inbox)
    BY <1>3 DEF HostReceivesAck
  <2>2. \A i \in 1..Len(inbox') : i + 1 \in 1..Len(inbox) /\ inbox'[i] = inbox[i + 1]
    BY <1>1, <2>1
  <2>3. inbox' \in Seq(AckType)
    BY <1>1, <2>1
  <2>. QED  BY <2>2, <2>3 DEF InboxStep
<1>4. ASSUME NEW s \in Seats, SendAck(s), inbox' # inbox
      PROVE  InboxStep
  <2>. DEFINE ack == [slot |-> s, connection |-> relay.connection[s],
                      epoch |-> friend[s].epoch, challenge |-> friend[s].challenge]
  <2>1. inbox' = Append(inbox, ack) /\ friend[s].arrived
    BY <1>4 DEF SendAck
  <2>2. ack \in AckType /\ ack.slot = s /\ ack.connection = relay.connection[s]
        /\ ack.challenge = friend[s].challenge
    BY <1>1 DEF AckType, FriendType
  <2>. HIDE DEF ack
  <2>3. inbox' \in Seq(AckType) /\ Len(inbox') = Len(inbox) + 1
    BY <1>1, <2>1, <2>2
  <2>4. \A i \in 1..Len(inbox') : (i \in 1..Len(inbox) /\ inbox'[i] = inbox[i]) \/ inbox'[i] = ack
    BY <1>1, <2>1, <2>2
  <2>. QED  BY <2>1, <2>2, <2>3, <2>4 DEF InboxStep
<1>. QED  BY <1>2, <1>3, <1>4, Writers

-----------------------------------------------------------------------------
(* The invariant. *)

LEMMA InitEstablishes == Init => IInv
<1>. SUFFICES ASSUME Init
              PROVE  IInv
  OBVIOUS
<1>1. /\ story \in StoryType
      /\ game = [load |-> 1, transition |-> 0, pending |-> FALSE, target |-> "mansion",
                 room |-> "mansion", event |-> "none", ending |-> FALSE, by |-> [k \in Groups |-> "nobody"]]
      /\ host = [session |-> 1, epoch |-> 0, begin |-> FALSE, load |-> 1, leases |-> 0]
      /\ armed = NotArmed /\ lease = NoLease /\ unload = "no" /\ view = FirstRoster
      /\ relay = [room |-> NoRoom, connection |-> FirstRoster,
                  next |-> [s \in Seats |-> FirstRoster[s] + 1]]
      /\ friend = [s \in Seats |-> NewFriend] /\ inbox = <<>> /\ arrivals = {}
  BY BoundsAssumption DEF Init, StoryType
<1>2. FirstRoster \in [Seats -> {0, 1}]
  BY DEF FirstRoster
<1>3. lease \in LeaseType
  <2>1. 0 \in 0..DeadlineTicks
    BY BoundsAssumption
  <2>2. [s \in Seats |-> NoSeat] \in [Seats -> SeatType]
    BY DEF NoSeat, SeatType
  <2>3. {} \in SUBSET DeferrableGroups /\ {} \in SUBSET OwnableGroups /\ "none" \in Outcomes
    BY DEF Outcomes
  <2>. QED  BY <1>1, <2>1, <2>2, <2>3 DEF NoLease, LeaseType
<1>4. game \in GameType
  <2>1. [k \in Groups |-> "nobody"] \in [Groups -> Owners]
    BY DEF Owners
  <2>. QED  BY <1>1, <2>1 DEF GameType, Rooms, Events
<1>5. host \in HostType /\ armed \in ArmedType
  BY <1>1 DEF HostType, ArmedType, NotArmed
<1>6. relay \in RelayType /\ view \in [Seats -> Nat]
  BY <1>1, <1>2 DEF RelayType, RoomType, NoRoom
<1>7. friend \in [Seats -> FriendType] /\ inbox \in Seq(AckType)
  BY <1>1 DEF FriendType, NewFriend
<1>8. Types
  BY <1>1, <1>3, <1>4, <1>5, <1>6, <1>7 DEF Types
<1>9. Counts
  <2>1. story.transitions \in Nat
    BY <1>1 DEF StoryType
  <2>. QED  BY <1>1, <2>1 DEF Counts
<1>10. Bits(lease, game) /\ Decided(lease) /\ Earned(lease, arrivals)
  BY <1>1 DEF Bits, Decided, Earned, NoLease, NoSeat, Lives, EventInstalled
<1>11. Numbered
  BY <1>1, <1>2 DEF Numbered, NoLease, NoSeat, NoRoom, NewFriend
<1>12. Answers
  BY <1>1 DEF Answers, NoLease
<1>. QED  BY <1>8, <1>9, <1>10, <1>11, <1>12 DEF IInv

LEMMA TypesNext ==
  ASSUME IInv, [Next]_vars
  PROVE  Types'
<1>1. game' \in GameType /\ lease' \in LeaseType
  BY LeaseMoves DEF LeaseStep
<1>2. host' \in HostType /\ relay' \in RelayType /\ friend' \in [Seats -> FriendType] /\ inbox' \in Seq(AckType)
  BY HostMoves, RelayMoves, FriendMoves, InboxMoves DEF HostStep, RelayStep, FriendStep, InboxStep
<1>3. Types /\ NotArmed \in ArmedType
  BY DEF IInv, NotArmed, ArmedType
<1>4. armed' \in ArmedType
  <2>1. game \in GameType /\ game.transition + 1 \in Nat /\ game.load + 1 \in Nat /\ armed \in ArmedType
    BY <1>3 DEF Types, GameType
  <2>2. CASE armed' = armed
    BY <2>1, <2>2
  <2>3. ASSUME NEW to \in Rooms, Request(to)
        PROVE  armed' \in ArmedType
    <3>1. armed' = IF Arms(to)
                     THEN [state |-> "requested", transition |-> game.transition + 1, load |-> 0]
                     ELSE NotArmed
      BY <2>1, <2>3 DEF Request, GameType
    <3>. QED  BY <1>3, <2>1, <3>1 DEF ArmedType
  <2>4. CASE LoadCompletes
    <3>1. armed' = [armed EXCEPT !.state = "bound", !.load = game.load + 1] \/ armed' = NotArmed
      BY <2>4 DEF LoadCompletes
    <3>. QED  BY <1>3, <2>1, <3>1 DEF ArmedType
  <2>5. CASE EventTearsDown
    BY <1>3, <2>1, <2>5 DEF EventTearsDown
  <2>. QED  BY <2>2, <2>3, <2>4, <2>5, Writers
<1>5. unload' \in {"no", "asked", "gone"}
  BY <1>3, Writers DEF Types, Shutdown
<1>6. view' \in [Seats -> Nat]
  BY <1>3, Writers DEF Types, HostSeesRoster, RelayType
<1>7. arrivals' \subseteq Seats \X Nat \X Nat
  <2>1. arrivals \subseteq Seats \X Nat \X Nat
    BY <1>3 DEF Types
  <2>2. CASE EventTearsDown
    BY <2>1, <2>2 DEF EventTearsDown
  <2>3. ASSUME NEW s \in Seats, Arrive(s)
        PROVE  arrivals' \subseteq Seats \X Nat \X Nat
    <3>1. relay.connection[s] \in Nat /\ friend[s].challenge \in Nat
      BY <1>3 DEF Types, RelayType, FriendType
    <3>. QED  BY <2>1, <2>3, <3>1 DEF Arrive
  <2>. QED  BY <2>1, <2>2, <2>3, Writers
<1>8. story' \in StoryType
  <2>1. CASE story' = story
    BY <1>3, <2>1 DEF Types
  <2>2. CASE EventStarts
    <3>1. /\ story \in StoryType /\ story.events - 1 \in Nat
          /\ story' = [story EXCEPT !.events = story.events - 1]
      BY <1>3, <2>2 DEF Types, StoryType, EventStarts
    <3>. QED  BY <3>1 DEF StoryType
  <2>. QED  BY <2>1, <2>2, Writers
<1>. QED  BY <1>1, <1>2, <1>4, <1>5, <1>6, <1>7, <1>8 DEF Types

LEMMA CountsNext ==
  ASSUME IInv, [Next]_vars
  PROVE  Counts'
<1>1. /\ game \in GameType /\ story \in StoryType /\ Counts
      /\ game.load \in Nat /\ game.transition \in Nat /\ story.transitions \in Nat
  BY DEF IInv, Types, GameType, StoryType
<1>2. story'.transitions = story.transitions
  BY <1>1, Writers DEF EventStarts, StoryType
<1>3. Counted
  BY LeaseMoves DEF LeaseStep
<1>. QED  BY <1>1, <1>2, <1>3 DEF Counts, Counted

LEMMA NumberedNext ==
  ASSUME IInv, [Next]_vars
  PROVE  Numbered'
<1>1. LeaseStep /\ HostStep /\ RelayStep /\ FriendStep /\ InboxStep /\ Types'
  BY LeaseMoves, HostMoves, RelayMoves, FriendMoves, InboxMoves, TypesNext
<1>2. /\ host.leases \in Nat /\ host'.leases \in Nat /\ host.leases <= host'.leases
      /\ lease.challenge \in Nat /\ relay.room.challenge \in Nat
  BY <1>1 DEF IInv, Types, HostType, LeaseType, RelayType, RoomType, HostStep
<1>3. ASSUME NEW s \in Seats
      PROVE  /\ view'[s] < relay'.next[s] /\ relay'.connection[s] < relay'.next[s]
             /\ lease'.seats[s].connection < relay'.next[s]
  <2>1. /\ relay.next[s] \in Nat /\ relay'.next[s] \in Nat /\ relay.next[s] <= relay'.next[s]
        /\ view[s] < relay.next[s] /\ relay.connection[s] < relay.next[s]
        /\ lease.seats[s].connection < relay.next[s] /\ 0 < relay.next[s]
        /\ view[s] \in Nat /\ relay.connection[s] \in Nat /\ lease.seats[s].connection \in Nat
    <3>1. relay.next[s] \in Nat /\ view[s] \in Nat /\ relay.connection[s] \in Nat
      BY <1>3 DEF IInv, Types, RelayType
    <3>2. lease.seats[s].connection \in Nat
      BY <1>3 DEF IInv, Types, LeaseType, SeatType
    <3>3. relay'.next[s] \in Nat
      BY <1>1, <1>3 DEF Types, RelayType
    <3>4. relay.next[s] <= relay'.next[s]
      BY <1>1, <1>3 DEF RelayStep
    <3>5. /\ view[s] < relay.next[s] /\ relay.connection[s] < relay.next[s]
          /\ lease.seats[s].connection < relay.next[s]
      <4>1. Numbered
        BY DEF IInv
      <4>. QED  BY <1>3, <4>1, Zenon DEF Numbered
    <3>6. 0 < relay.next[s]
      BY <3>1, <3>5
    <3>. QED  BY <3>1, <3>2, <3>3, <3>4, <3>5, <3>6, Zenon
  <2>2. view'[s] = view[s] \/ view'[s] = relay.connection[s]
    <3>1. view \in [Seats -> Nat]
      BY DEF IInv, Types
    <3>. QED  BY <1>3, <3>1, Writers DEF HostSeesRoster
  <2>3. lease'.seats[s].connection \in {lease.seats[s].connection, view[s], 0}
    BY <1>1, <1>3 DEF LeaseStep
  <2>4. \/ relay'.connection[s] = relay.connection[s]
        \/ relay'.connection[s] = 0
        \/ relay'.connection[s] = relay.next[s] /\ relay'.next[s] = relay.next[s] + 1
    BY <1>1, <1>3 DEF RelayStep
  <2>. QED  BY <2>1, <2>2, <2>3, <2>4
<1>4. ASSUME NEW s \in Seats
      PROVE  friend'[s].challenge <= host'.leases
  <2>1. /\ friend[s].challenge \in Nat /\ friend[s].challenge <= host.leases
        /\ relay.room.challenge <= host.leases
        /\ friend'[s].challenge \in {friend[s].challenge, relay.room.challenge, 0}
    BY <1>1, <1>4 DEF IInv, Types, FriendType, Numbered, FriendStep
  <2>. QED  BY <1>2, <2>1
<1>5. lease'.challenge <= host'.leases
  <2>1. lease.challenge <= host.leases
    BY DEF IInv, Numbered
  <2>2. GoesOn \/ Begins
    BY <1>1 DEF LeaseStep
  <2>. QED  BY <1>2, <2>1, <2>2 DEF GoesOn, Begins
<1>6. relay'.room.challenge <= host'.leases
  <2>1. lease.challenge <= host.leases /\ relay.room.challenge <= host.leases
    BY DEF IInv, Numbered
  <2>2. relay'.room.challenge \in {relay.room.challenge, lease.challenge, 0}
    BY <1>1 DEF RelayStep
  <2>. QED  BY <1>2, <2>1, <2>2
<1>7. ASSUME NEW i \in 1..Len(inbox')
      PROVE  inbox'[i].challenge <= host'.leases
  <2>1. inbox' \in Seq(AckType) /\ inbox \in Seq(AckType)
    BY <1>1 DEF IInv, Types
  <2>2. CASE \E j \in 1..Len(inbox) : inbox'[i] = inbox[j]
    <3>1. PICK j \in 1..Len(inbox) : inbox'[i] = inbox[j]
      BY <2>2
    <3>2. inbox[j].challenge <= host.leases
      BY DEF IInv, Numbered
    <3>3. inbox[j] \in AckType
      BY <2>1
    <3>4. inbox[j].challenge \in Nat
      BY <3>3 DEF AckType
    <3>. QED  BY <1>2, <3>1, <3>2, <3>4
  <2>3. CASE inbox'[i].challenge = friend[inbox'[i].slot].challenge
    <3>1. inbox'[i] \in AckType
      BY <1>7, <2>1
    <3>2. inbox'[i].slot \in Seats
      BY <3>1 DEF AckType
    <3>3. /\ friend[inbox'[i].slot].challenge <= host.leases
          /\ friend[inbox'[i].slot].challenge \in Nat
      BY <3>2 DEF IInv, Numbered, Types, FriendType
    <3>. QED  BY <1>2, <2>3, <3>3
  <2>. QED  BY <1>1, <1>7, <2>2, <2>3 DEF InboxStep
<1>. QED  BY <1>3, <1>4, <1>5, <1>6, <1>7 DEF Numbered

\* The one step that forgets arrivals begins a lease.
LEMMA ArrivalsMove ==
  ASSUME IInv, [Next]_vars, lease'.challenge = lease.challenge
  PROVE  arrivals \subseteq arrivals'
<1>1. CASE EventTearsDown
  <2>1. CASE Deferrable
    <3>1. lease' = NewLease(OwnableGroups \ Frozen(game))
      BY <1>1, <2>1, Zenon DEF EventTearsDown, Deferrable
    <3>2. lease'.challenge = host.leases + 1
      BY <3>1 DEF NewLease, NoLease
    <3>3. lease.challenge \in Nat /\ host.leases \in Nat /\ lease.challenge <= host.leases
      BY DEF IInv, Types, HostType, LeaseType, Numbered
    <3>. QED  BY <3>2, <3>3
  <2>2. CASE ~Deferrable
    BY <1>1, <2>2 DEF EventTearsDown
  <2>. QED  BY <2>1, <2>2
<1>. QED  BY <1>1, Writers DEF Arrive

LEMMA AnswersNext ==
  ASSUME IInv, [Next]_vars
  PROVE  Answers'
<1>1. LeaseStep /\ HostStep /\ RelayStep /\ FriendStep /\ InboxStep /\ Types'
  BY LeaseMoves, HostMoves, RelayMoves, FriendMoves, InboxMoves, TypesNext
<1>2. /\ host.leases \in Nat /\ lease.challenge \in Nat /\ lease.challenge <= host.leases
      /\ \A s \in Seats : friend[s].challenge \in Nat /\ friend[s].challenge <= host.leases
      /\ relay.room.challenge <= host.leases
  BY DEF IInv, Types, HostType, LeaseType, FriendType, Numbered
<1>3. \A i \in 1..Len(inbox) : inbox[i].challenge \in Nat /\ inbox[i].challenge <= host.leases
  <2>1. \A i \in 1..Len(inbox) : inbox[i] \in AckType /\ inbox[i].challenge <= host.leases
    BY DEF IInv, Types, Numbered
  <2>. QED  BY <2>1 DEF AckType
<1>4. \A i \in 1..Len(inbox') : inbox'[i].slot \in Seats
  <2>1. inbox' \in Seq(AckType)
    BY <1>1 DEF InboxStep
  <2>2. \A i \in 1..Len(inbox') : inbox'[i] \in AckType
    BY <2>1
  <2>. QED  BY <2>2 DEF AckType
<1>5. CASE Begins
  <2>1. lease'.challenge = host.leases + 1
    BY <1>5 DEF Begins
  <2>2. ASSUME NEW s \in Seats, friend'[s].arrived
        PROVE  friend'[s].challenge # lease'.challenge
    <3>1. friend'[s].challenge = friend[s].challenge
      BY <1>1, <2>2 DEF FriendStep
    <3>2. friend[s].challenge # host.leases + 1
      BY <1>2
    <3>. QED  BY <2>1, <3>1, <3>2
  <2>3. \A i \in 1..Len(inbox') : inbox'[i].challenge # lease'.challenge
    BY <1>1, <1>2, <1>3, <1>4, <2>1 DEF InboxStep
  <2>. QED  BY <2>2, <2>3 DEF Answers
<1>6. CASE GoesOn /\ lease'.phase = "held"
  <2>1. /\ lease'.challenge = lease.challenge /\ lease.phase = "held" /\ Answers
        /\ \A s \in Seats : lease'.seats[s].connection = lease.seats[s].connection
    BY <1>6 DEF GoesOn, IInv
  <2>2. arrivals \subseteq arrivals'
    BY <2>1, ArrivalsMove
  <2>3. ASSUME NEW s \in Seats, NEW c, Vouches(lease, arrivals, s, c)
        PROVE  Vouches(lease', arrivals', s, c)
    BY <2>1, <2>2, <2>3 DEF Vouches
  <2>4. ASSUME NEW s \in Seats, friend'[s].arrived, friend'[s].challenge = lease'.challenge
        PROVE  Vouches(lease', arrivals', s, relay'.connection[s])
    <3>1. friend[s].challenge = lease.challenge
      BY <1>1, <2>1, <2>4 DEF FriendStep
    <3>2. \/ friend[s].arrived
          \/ <<s, relay.connection[s], lease'.challenge>> \in arrivals'
      BY <1>1, <2>1, <2>4 DEF FriendStep
    <3>3. Vouches(lease', arrivals', s, relay.connection[s])
      <4>1. CASE friend[s].arrived
        BY <2>1, <2>3, <3>1, <4>1 DEF Answers
      <4>2. CASE <<s, relay.connection[s], lease'.challenge>> \in arrivals'
        BY <4>2 DEF Vouches
      <4>. QED  BY <3>2, <4>1, <4>2
    <3>4. CASE relay'.connection[s] = relay.connection[s]
      BY <3>3, <3>4
    <3>5. CASE relay'.connection[s] = relay.next[s]
      <4>1. /\ lease.seats[s].connection < relay.next[s]
            /\ lease.seats[s].connection \in Nat /\ relay.next[s] \in Nat
        BY DEF IInv, Numbered, Types, LeaseType, SeatType, RelayType
      <4>2. relay'.connection[s] # lease'.seats[s].connection
        BY <2>1, <3>5, <4>1
      <4>. QED  BY <4>2 DEF Vouches
    <3>. QED  BY <1>1, <2>4, <3>4, <3>5 DEF RelayStep
  <2>5. ASSUME NEW i \in 1..Len(inbox'), inbox'[i].challenge = lease'.challenge
        PROVE  Vouches(lease', arrivals', inbox'[i].slot, inbox'[i].connection)
    <3>. DEFINE s == inbox'[i].slot
    <3>1. s \in Seats
      BY <1>4
    <3>2. CASE \E j \in 1..Len(inbox) : inbox'[i] = inbox[j]
      <4>1. Vouches(lease, arrivals, s, inbox'[i].connection)
        BY <2>1, <2>5, <3>2 DEF Answers
      <4>. QED  BY <2>3, <3>1, <4>1
    <3>3. CASE /\ friend[s].arrived /\ inbox'[i].connection = relay.connection[s]
               /\ inbox'[i].challenge = friend[s].challenge
      <4>1. Vouches(lease, arrivals, s, relay.connection[s])
        BY <2>1, <2>5, <3>1, <3>3 DEF Answers
      <4>. QED  BY <2>3, <3>1, <3>3, <4>1
    <3>. QED  BY <1>1, <3>2, <3>3 DEF InboxStep
  <2>. QED  BY <2>4, <2>5 DEF Answers
<1>. QED  BY <1>1, <1>5, <1>6 DEF LeaseStep, Answers

-----------------------------------------------------------------------------
(* The theorems. *)

LEMMA StepPreserves == IInv /\ [Next]_vars => IInv'
<1>. SUFFICES ASSUME IInv, [Next]_vars
              PROVE  IInv'
  OBVIOUS
<1>1. Bits(lease', game') /\ Decided(lease') /\ Earned(lease', arrivals')
  BY LeaseMoves DEF LeaseStep
<1>. QED  BY <1>1, TypesNext, CountsNext, NumberedNext, AnswersNext DEF IInv

\* The conjunction the rest is read off is an invariant of every step.
THEOREM BarrierInvariant == Spec => []IInv
  BY InitEstablishes, StepPreserves, PTL DEF Spec

\* Every variable keeps its type, and a load never outruns the requests.
THEOREM TypeSafety == Spec => []TypeOK
<1>1. IInv => TypeOK
  <2>. SUFFICES ASSUME IInv
                PROVE  TypeOK
    OBVIOUS
  <2>1. /\ game \in GameType /\ lease \in LeaseType /\ armed \in ArmedType /\ story \in StoryType
        /\ unload \in {"no", "asked", "gone"}
    BY DEF IInv, Types
  <2>2. game.load \in 1..(story.transitions + 1) /\ game.transition \in 0..story.transitions
    BY <2>1 DEF IInv, Counts, GameType, StoryType
  <2>. QED  BY <2>1, <2>2 DEF TypeOK, GameType, LeaseType, ArmedType, Owners
<1>. QED  BY <1>1, BarrierInvariant, PTL

\* A barrier reported as all-arrived was: each friend it waited for had reached
\* the room for this challenge on the connection the hold recorded.
THEOREM ArrivalIsEarned == Spec => []ArrivedIsEarned
<1>1. IInv => ArrivedIsEarned
  BY DEF IInv, Earned, ArrivedIsEarned
<1>. QED  BY <1>1, BarrierInvariant, PTL

\* Boss and enemies stay frozen as long as the party does, and once the lease
\* is over it leaves no group frozen.
THEOREM WholeRelease == Spec => []ReleaseIsWhole
<1>1. IInv => ReleaseIsWhole
  <2>. SUFFICES ASSUME IInv
                PROVE  ReleaseIsWhole
    OBVIOUS
  <2>1. lease \in LeaseType /\ Bits(lease, game)
    BY DEF IInv, Types
  <2>2. BossWaitsForParty
    <3>1. \A k \in lease.owned : k \in Groups
      BY <2>1 DEF LeaseType, OwnableGroups, Groups
    <3>2. Live => \A k \in lease.owned : game.by[k] = "lease"
      BY <2>1 DEF Bits, Lives, Live
    <3>. QED  BY <3>1, <3>2 DEF BossWaitsForParty, Frozen
  <2>3. NothingLeftFrozen
    BY <2>1 DEF NothingLeftFrozen, Bits, Lives, Live
  <2>. QED  BY <2>2, <2>3 DEF ReleaseIsWhole
<1>. QED  BY <1>1, BarrierInvariant, PTL

\* In the lease's own steps no group is freed that an event or a script froze.
THEOREM OnlyItsOwnIsFreed == Spec => FreesOnlyItsOwn
<1>1. IInv /\ [Next]_vars =>
        [\A k \in Groups :
           (lease' # lease /\ game.load = game'.load /\ game.by[k] # "nobody" /\ game'.by[k] = "nobody")
             => game.by[k] = "lease"]_vars
  BY LeaseMoves DEF LeaseStep, FreesOwn
<1>. QED  BY <1>1, BarrierInvariant, PTL DEF Spec, FreesOnlyItsOwn

\* Nothing later rewrites why a hold ended, and a finished hold stays finished.
THEOREM DecisionIsFinal == Spec => FirstDecisionStands
<1>1. IInv /\ [Next]_vars =>
        [(lease.outcome # "none" /\ lease'.challenge = lease.challenge)
           => /\ lease'.outcome = "arrived" <=> lease.outcome = "arrived"
              /\ lease'.outcome \in {lease.outcome, "failed"}
              /\ lease.phase = "done" => lease'.phase = "done"]_vars
  BY LeaseMoves DEF LeaseStep, DecisionStands
<1>. QED  BY <1>1, BarrierInvariant, PTL DEF Spec, FirstDecisionStands
=============================================================================
