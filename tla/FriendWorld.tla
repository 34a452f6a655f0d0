---------------------------- MODULE FriendWorld ----------------------------
(***************************************************************************)
(* The path of the host's world through one friend: NetworkClient admits it,  *)
(* RuntimeMain's callbacks bind it to the mapping's session generation,       *)
(* WorldInbox hands it to the ring, and EnemySync's ReceiveWorldPackets shows *)
(* it in the game.  A friend is a record with one field per owner:            *)
(*   net     NetworkClient, of one transport connection                       *)
(*   rt      the runtime process's world binding, and its resume pin          *)
(*   inbox   WorldInbox::pending_                                             *)
(*   header  the mapping's words, written by the runtime only                 *)
(*   ring    the mapping's runtime-to-game ring                               *)
(*   dll     the game's view; net, rt and inbox die with the runtime, header,  *)
(*           ring and dll with the game                                       *)
(* Delivery serials above 1 and quarantine belong to the forced resync.       *)
(***************************************************************************)
EXTENDS Integers, Sequences, FiniteSetsExt, SequencesExt

CONSTANT RingCapacity    \* packets the ring holds

ASSUME FriendAssumption == RingCapacity \in Nat \ {0}

NoLink == [wire |-> 0, session |-> 0, host |-> 0, self |-> 0, ready |-> FALSE, bound |-> FALSE, epoch |-> 0, hpSeq |-> 0]

NewProcess == [session |-> 0, host |-> 0, self |-> 0, bound |-> FALSE, gen |-> 0,
               pin |-> <<>>, open |-> FALSE, over |-> FALSE]

Unadmitted(rt) == [rt EXCEPT !.session = 0, !.host = 0, !.self = 0, !.bound = FALSE, !.gen = 0]

NewGame == [gen |-> 0, ordered |-> 0, hpFloor |-> 0,
            epoch |-> 0, enemies |-> <<>>, hold |-> FALSE, replay |-> "None", version |-> 0, progress |-> {}, seen |-> {}]

\* What the game keeps of a session goes; the words of its generation stay.
NoView(d) == [d EXCEPT !.epoch = 0, !.enemies = <<>>, !.hold = FALSE, !.replay = "None", !.version = 0, !.progress = {},
                       !.seen = {}]

NewFriend == [net |-> NoLink, rt |-> NewProcess, inbox |-> <<>>,
              header |-> [gen |-> 0, self |-> 0, bound |-> FALSE], ring |-> <<>>,
              dll |-> NewGame]

Marker(gen, bound) == [p |-> "marker", gen |-> gen, bound |-> bound]

\* WorldInbox::Receive and Flush: the backlog first, and what the ring refuses waits.
Delivered(f, backlog) ==
  LET n == IF f.rt.open THEN Min({RingCapacity - Len(f.ring), Len(backlog)}) ELSE 0
  IN  [f EXCEPT !.ring = @ \o SubSeq(backlog, 1, n), !.inbox = SubSeq(backlog, n + 1, Len(backlog))]

Queued(f, packet) == Delivered(f, Append(f.inbox, packet))

\* AdvanceSessionGeneration on a mapping that is not open is 0.
NextGeneration(f) == IF f.rt.open THEN f.header.gen + 1 ELSE 0

HeaderAt(f, gen) == IF f.rt.open THEN [gen |-> gen, self |-> f.rt.self, bound |-> f.rt.bound] ELSE f.header

ResetWorldSession(f) ==
  LET gen == NextGeneration(f)
  IN  Queued([f EXCEPT !.inbox = <<>>, !.rt.gen = gen, !.header = HeaderAt(f, gen)], Marker(gen, f.rt.bound))

\* retireNetworkState: the pin stays.
Retired(f) == ResetWorldSession([f EXCEPT !.rt = Unadmitted(@)])

Hung(f) == Retired([f EXCEPT !.net = NoLink])

\* What waits, its markers erased.
Unmarked(backlog) ==
  LET kept[n \in 0..Len(backlog)] ==
        IF n = 0 THEN <<>>
        ELSE IF backlog[n].p = "marker" THEN kept[n - 1] ELSE Append(kept[n - 1], backlog[n])
  IN  kept[Len(backlog)]

\* One marker, ahead of everything that waits.
BindBehindBacklog(f) ==    \* mutant: the marker is queued behind what waits
  [f EXCEPT !.inbox = Append(Unmarked(@), Marker(f.rt.gen, f.rt.bound))]

BindSessionGeneration(f) == [f EXCEPT !.inbox = <<Marker(f.rt.gen, f.rt.bound)>> \o Unmarked(@)]

--------------------------------------------------------------------------
Dialled(f, wire) == Retired([f EXCEPT !.net = [NoLink EXCEPT !.wire = wire]])

IsRoster(m) == m.session # 0 /\ m.host # 0

\* updateAvatarRoster: another world starts another binding and another HP order.
NetRoster(n, m) ==
  IF ~IsRoster(m) THEN [n EXCEPT !.ready = FALSE, !.self = 0]
  ELSE IF <<n.session, n.host>> = <<m.session, m.host>> THEN [n EXCEPT !.ready = TRUE, !.self = m.self]
  ELSE [NoLink EXCEPT !.wire = n.wire, !.session = m.session, !.host = m.host, !.self = m.self, !.ready = TRUE]

MatchesPin(f, m) == f.rt.pin = <<>> \/ (IsRoster(m) /\ f.rt.pin = <<m.session, m.host>>)

Unchanged(f, m) == <<f.rt.session, f.rt.host, f.rt.self>> = <<m.session, m.host, m.self>>

Admitted(f, m) ==
  LET pinned == [f EXCEPT !.rt.pin = <<m.session, m.host>>]
  IN  IF Unchanged(f, m) THEN pinned
      ELSE ResetWorldSession([pinned EXCEPT !.rt.session = m.session, !.rt.host = m.host, !.rt.self = m.self,
                                            !.rt.bound = FALSE])

OnSessionState(f, m) ==
  LET g == [f EXCEPT !.net = NetRoster(@, m)]
  IN  IF ~MatchesPin(f, m) THEN [Hung(f) EXCEPT !.rt.over = TRUE]
      ELSE IF ~IsRoster(m) THEN Retired(g)
      ELSE Admitted(g, m)

\* The runtime binds once: a second copy of the same binding changes nothing.
OnWorldBinding(f, m) ==
  LET g == [f EXCEPT !.net.bound = TRUE, !.rt.bound = TRUE]
  IN  IF <<m.session, m.host, m.self>> # <<f.net.session, f.net.host, f.net.self>> \/ ~f.net.ready THEN f
      ELSE IF f.rt.bound \/ ~Unchanged(f, m) THEN [f EXCEPT !.net.bound = TRUE]
      ELSE IF ~f.rt.open THEN g
      ELSE BindSessionGeneration([g EXCEPT !.header.bound = TRUE])

NetAdmits(n, m) == n.ready /\ n.bound /\ <<m.session, m.self>> = <<n.session, n.self>>

\* Equal sequences are the relay's own replay, which only comes reliably.
HpAdmitted(n, b, reliable) == b.epoch = n.epoch /\ (b.seq > n.hpSeq \/ (reliable /\ b.seq = n.hpSeq))

OnWorldEnvelope(f, m, reliable) ==
  LET b == m.body
      n == CASE b.t = "room" -> [f.net EXCEPT !.epoch = b.epoch]
             [] b.t = "hp"   -> [f.net EXCEPT !.hpSeq = b.seq]
             [] OTHER        -> f.net
  IN  IF ~NetAdmits(f.net, m) \/ (b.t = "hp" /\ ~HpAdmitted(f.net, b, reliable)) THEN f
      ELSE Queued([f EXCEPT !.net = n], [p |-> "world", self |-> m.self, life |-> <<f.net.wire, m.session>>, body |-> b])

Heard(f, m, reliable) ==
  CASE m.p = "session" -> OnSessionState(f, m)
    [] m.p = "binding" -> OnWorldBinding(f, m)
    [] m.p = "world"   -> OnWorldEnvelope(f, m, reliable)

\* The game is there: the mapping takes a new generation, and its marker goes ahead of what waited.
Attached(f) ==
  LET g == [f EXCEPT !.rt.open = TRUE]
      gen == f.header.gen + 1
  IN  BindSessionGeneration([g EXCEPT !.rt.gen = gen, !.header = HeaderAt(g, gen)])

--------------------------------------------------------------------------
ArmedByHeader(f) == f.dll.gen = f.header.gen /\ f.header.bound    \* mutant: no marker is waited for

Armed(f) == f.dll.ordered # 0 /\ f.dll.ordered = f.dll.gen /\ f.dll.gen = f.header.gen /\ f.header.bound

\* CheckActivationGeneration, at every packet and every frame.
Checked(f) ==
  IF f.header.gen = f.dll.gen THEN f
  ELSE [f EXCEPT !.dll = [NewGame EXCEPT !.gen = f.header.gen]]

\* A marker retires the view whatever it says, and arms only the generation the header publishes now.
OnMarker(f, m) ==
  [f EXCEPT !.dll = [NoView(@) EXCEPT !.ordered = IF m.gen = f.header.gen /\ m.bound /\ f.header.bound THEN m.gen ELSE 0]]

Unknown == [hp |-> <<>>, dead |-> FALSE]

Enters(d, epoch) == [d EXCEPT !.epoch = epoch, !.enemies = <<>>, !.hold = FALSE, !.replay = "None"]

\* Only a later room, a first one, or the replay this seat asked for; an unsafe replay is refused for good.
OnRoom(d, b, safe) ==
  IF d.epoch = 0 \/ b.epoch > d.epoch \/ (b.epoch = d.epoch /\ d.replay = "Awaiting" /\ safe /\ ~d.hold)
    THEN Enters(d, b.epoch)
    ELSE IF d.replay = "Awaiting" /\ b.epoch = d.epoch THEN [d EXCEPT !.replay = "Closed"] ELSE d

OnManifest(d, b) ==
  LET kept == IF b.replace THEN {} ELSE DOMAIN d.enemies
  IN  [d EXCEPT !.enemies = [i \in kept \cup b.ids |-> IF i \in kept THEN d.enemies[i] ELSE Unknown]]

\* The whole sample or none of it.
OnHp(d, b) ==
  IF b.seq < d.hpFloor \/ ~(DOMAIN b.hp \subseteq DOMAIN d.enemies) THEN d
  ELSE [d EXCEPT !.hpFloor = b.seq,
                 !.enemies = [i \in DOMAIN d.enemies |->
                                IF i \in DOMAIN b.hp THEN [d.enemies[i] EXCEPT !.hp = b.hp[i]] ELSE d.enemies[i]]]

OnDeath(d, b) == IF b.id \in DOMAIN d.enemies THEN [d EXCEPT !.enemies[b.id].dead = TRUE] ELSE d

\* A full update must cover every byte, and a change needs a full one before it.
OnProgress(d, b) ==
  IF \/ d.version # 0 /\ b.version < d.version
     \/ ~b.full /\ (d.version = 0 \/ b.version = d.version)
     \/ b.full /\ b.spans # 1..b.version
    THEN d
    ELSE [d EXCEPT !.version = b.version, !.progress = IF b.full THEN b.spans ELSE @ \cup b.spans]

\* The bodies that are of the room the view is in.
ShownInRoom(d, b) ==
  CASE b.t = "hold"     -> [d EXCEPT !.hold = b.active]
    [] b.t = "manifest" -> OnManifest(d, b)
    [] b.t = "hp"       -> OnHp(d, b)
    [] b.t = "death"    -> OnDeath(d, b)

Shown(d, b, safe) ==
  CASE b.t = "progress" -> OnProgress(d, b)
    [] b.t = "room"     -> OnRoom(d, b, safe)
    [] OTHER            -> IF b.epoch = d.epoch THEN ShownInRoom(d, b) ELSE d

OnEnvelope(f, m, safe) ==
  IF ~Armed(f) \/ m.self # f.header.self THEN f
  ELSE LET shown == Shown(f.dll, m.body, safe)
       IN  [f EXCEPT !.dll = IF shown = f.dll THEN shown ELSE [shown EXCEPT !.seen = @ \cup {m.life}]]

\* ReceiveWorldPackets, one packet of the ring.
Consumed(f, safe) ==
  LET g == Checked([f EXCEPT !.ring = Tail(@)])
      m == Head(f.ring)
  IN  IF m.p = "marker" THEN OnMarker(g, m) ELSE OnEnvelope(g, m, safe)
=============================================================================
