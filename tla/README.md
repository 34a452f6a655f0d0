# A formal model of KH2 co-op

TLA+ models of the parts of `kh2-multiplayer` that keep a session together:
who is a member, which world a seat shows, whose messages are believed, who
writes the shared memory, how long a fight waits for its party, and how a
friend's input is held and given back. Each module is translated from the C++
sources; TLC checks it on small instances and TLAPS proves much of it for every
value of the constants. `PROJECT.json` lists components, runs, hazards,
theorems, mutants and, for each definition, the source lines it stands for.

    tlc -config WorldResync_overtaken.cfg MCWorldResync
    tlapm FriendLink_proofs.tla

Contents: 1 the system · 2 the modules and the code · 3 the runs · 4 bounds ·
5 fairness · 6 proofs · 7 what the models leave out · 8 finding · 9 the plan

## 1. The system

The game (`KINGDOM HEARTS II FINAL MIX.exe`) runs once per player, with a DLL
injected into it (`inject/`). Beside each game runs a `runtime` process. One
`server` relays between runtimes. The host's world is the truth; up to two
friends mirror it.

    game + DLL  <-- shared memory -->  runtime  <-- ENet or Steam -->  relay
    EnemySync       InputMailbox       NetworkClient                   SessionHost
    EntityHook      AvatarBridge v4    ClientRecovery                  DesyncCapture
    Warp, ...       WorldBridge v13    WorldInbox, policies

Four kinds of interaction matter:

* **Messages** between runtimes and the relay: reliable channels are ordered,
  avatar poses and enemy HP also travel unreliably.
* **Shared memory** between DLL and runtime, two processes that start, die and
  restart apart: lock-free rings (`PacketRing.hpp`), single words with a
  publication order (`WorldBridge.hpp`), compare-and-swap mailboxes.
* **Callbacks**: transport events reach `ClientRecovery` and `NetworkClient` in
  the runtime's own loop; the game's hooked functions call the DLL.
* **Threads**: several threads of the game ask the same lease whether the
  runtime lives.

### Components, their state, operations and what makes them correct

| component | state | operations | correct when |
|---|---|---|---|
| Rejoin scheduler `ClientRecovery.hpp` | state, entry and episode clocks, attempts, pending close | start, connected, roster, closed, rejected, tick, terminate | a bounded number of dials in a bounded time; no dial over an open transport; stopped is final; no state lasts for ever |
| Forced resync `SessionHost`, `NetworkClient`, `EnemySync` | the relay's transaction (plan, cut, snapshot, continuations, acks), each seat's fence and plan, the host's request | request, plan, begin, end, ack, abort, result, roster, ordinary updates, deadlines | a seat that is not fenced shows the host's world; *converged* is never said in vain; every transaction ends |
| Delivery serials | a serial per peer, the serials each receiver has heard | join, plan, world binding, envelope | who was present when a serial was announced recognises it |
| Packet ring, world inbox | head, tail, words, a retry queue | push, pop, flush | a FIFO of whole records; a retried record never blocks for good |
| World sessions of the bridge | a generation in the mapping, the generation a game is armed for, the inbox | attach, begin session, reset marker, flush, drain | an armed game shows its runtime's session and nothing older |
| Writer words, lease, terminal receipt | generation, incarnation, PID, heartbeat, receipt; retired and bound generation | attach, pulse, advance, terminate; RuntimeWriterLive, ReadTerminal | a yes was true; one writer per generation; retirement is final |
| Combat admission | lease phase, deferred and owned groups, seats, challenge | freeze and free hooks, input poll, frame, ack, shutdown | nobody fights alone; nothing stays frozen; every hold ends |
| Session membership `SessionHost` | peers, slots, retained seats, deadlines | hello, reject, expiry, host end, relay restart | one live connection per slot; the next session of a relay inherits nothing of the last |
| World relay and late-join cache | room, hold, manifest, HP, deaths, progress by epoch | admit, cache, forward, replay to a joiner or on request | a late joiner sees what those present see |
| Event hold channel `EventHoldControl.hpp` and both its ends | shared FIFO, heartbeat, abort word, ack; the runtime's projection and recovery; the game's owner; the input hold and its pause | bind, publish, pulse, read, acknowledge, abort, recover; the input callback | no fact of the host is skipped in silence; the friend moves again only in the host's world; input always comes back |
| Resync policies | per connection and room: tried, pending, key | notice, roster, pump, result | a returning seat stops being one only when it is recovered; nobody waits for a transaction that is over |
| Activation lease | outstanding requests, copies of the activation point | request, answer, expire | an answer serves the request it was made for |
| Downed and revive `DownedSpike.inl`, `DownedReturn.hpp`, `SessionHost`, `NetworkClient` | the owner's downing, episode, latch, rule for the next room and owed return; the host's encounter; episodes reserved by relay and client | lethal hit, frame, prompt, encounter won, save point, request, notice, room change | nobody is raised by what was meant for an earlier downing; one revival per downing; an owed return is honoured |
| Spawn emissions, ordinary lifecycle | receipts, cuts | reserve, commit, cancel, admit | births before removals, none undone |
| Desync reports | capture per peer, deadline, worker | begin, chunk, finish, expire | one report, complete or failed, never both |
| Steam broker | sessions, queues, drain deadlines | open, send, receive, end | what was sent reliably is drained before an end |
| Story progress, damage policy, avatar relay, script and mission mirrors | native memory or continuous data | per frame | mostly the game's own behaviour |
| Codec, ENet, tools, launcher, rigs, legacy bridge | none that the protocol depends on | | |

The hard behaviours, each listed in `PROJECT.json` under `hazards` at the line
where it bites: updates that overtake a capture; three clocks that end the same
transaction; a failure that leaves seats fenced; acknowledgements of an earlier
hold, connection or room; a joiner that is told the world in pieces while it
goes on changing; a host, a runtime or a relay that ends and starts again with
identities that look the same; two processes and several game threads over
single words, with PIDs recycled; counters that wrap; records that do not fit;
a heartbeat that stops while the friend's input is held; rejoin attempts that
interleave with late transport callbacks.

## 2. The modules and the code

### ClientRecovery — `ClientRecovery.hpp`, `RuntimeMain.cpp`, `NetworkClient.cpp`

The scheduler object is one record `r`; its operations are functions from
record to record (`Enter`, `Advance`, `Failed`, `Closed`, `Connected`,
`AdmitRoster`, `Refuse`, `TickOf`), and the actions are the runtime's callbacks
and one turn of its main loop, with the deferred close, the resume pin and the
event-hold fence that the loop keeps beside it. Clocks are only compared with
thresholds, so two saturating ages replace three absolute times; saturation at
`EpisodeMs`, the largest threshold, loses no comparison.

### WorldResync — `SessionHost.cpp`, `NetworkClient.cpp`, the producer and consumer of `EnemySync.cpp`

`hist` is the host's source history: serial `n` is an update or a capture. A
world image is *named by the serial of the update that last wrote it*, so that
two updates with equal values are still different images and a lost, repeated
or late one is seen. `relay` is the `SessionHost` (peers, transaction, cache,
channels to host and seats); its helpers (`Finish`, `Publish`, `Fence`,
`Deliver`, `Forward`, `Disturb`, `AdmitEnvelope`, `AdmitRequest`, `AdmitBegin`,
`AdmitEnd`, `AdmitAck`, `Refresh`, `HandOut`, `Checkpoint`) are functions from
relay to relay and correspond to the member functions one by one. An action
takes one message from one channel and does all that its handler does. `seat`
is a friend's `NetworkClient` with the native consumer behind it: what it has
been handed, what its game has observed and which image it shows. Deadlines are
two sets, `late.host` and `late.relay`, of the requests whose fixed time has
passed: the host's clock started before the relay's, the relay's before the
seats'.

### DeliverySerials — the same files

WorldResync follows one host's updates to the seats. Envelopes between
*friends* carry the sender's delivery serial, which the relay compares with its
own and every receiver with what it has heard. This module keeps fences and
plans only as far as they announce serials, and adds the notice to those who
are not targets.

### PacketRing, RecordQueue — `PacketRing.hpp`, `WorldInbox` in `WorldPump.hpp`

`push` and `pop` are split at every access to shared memory. `RecordQueue` is
what the ring promises: records accepted, records delivered, in order. `Unread`,
the records between tail and head as `pop` would return them, is the refinement
mapping: it is what `Reading` makes of the bytes below head, one record or gap at
a time, with `Torn` for what no call may ever meet. A record offered with `keep` is one of `WorldInbox`, which tries it
again; every other caller drops a refused record.

### WriterWords, TerminalReceipt, WriterLease — `WorldBridge.hpp`, `RuntimeWriterLease.hpp`, `RuntimeMain.cpp`, `RuntimeWriterLive` in `EnemySync.cpp`

`WriterWords` holds the header words and the runtimes that store them, one store
a step, with death possible between any two. Two readers use it:
`TerminalReceipt` (`NetworkTerminal`: has the runtime stopped for good?) and
`WriterLease` (several threads: is the writer alive, and is its generation still
good?). History variable `ended` holds who committed a receipt while the
generation it had read was the current one. The CAS loops on the lease's two words take effect in one step each, the
load that decides or the exchange that succeeds.

### CombatAdmission — `CombatAdmission.hpp`, `CombatAdmissionNative.hpp`, `EnemySync.cpp`, `Warp.cpp`, `SessionHost.cpp`

The barrier that holds the party and the boss at the end of the Axel II intro
until each admitted friend has arrived. The host is single-threaded, so each
hooked call, frame and input poll is one action; around it are the game, the
relay's test of an acknowledgement and the friends who follow, arrive,
acknowledge, leave and return. The game's bit mask is a function to *who* froze
a group last: freeing an event's bit and freeing one's own look the same in the
code's mask and are told apart here.

### EventHoldChannel, EventHoldInput, EventHold — `EventHoldControl.hpp`, `EventHoldRuntimeProjection.hpp`, `EventHoldRecovery.hpp`, `EventHoldNative.cpp`, `EventHoldInputState.hpp`, `RuntimeMain.cpp`, `EnemySync.cpp`

When the host opens an event, a friend's input is held, under a pause of its own,
until the host closes the event and the friend's game has taken what changed.
`EventHoldChannel` is the mapping: the FIFO, the source history, the heartbeat,
the first abort and the acknowledgement, as functions from channel to channel.
`EventHoldInput` is what a hold does to the friend's buttons, and the service that
closes a pause which outlived its hold. `EventHold` puts the four parties around
them: the host's room changes and holds; the friend's runtime, which projects
them onto a mapping, beats, binds, arms, quarantines, loses its connection and
recovers with a new lifetime; the game's owner, which takes the same stream as
world state and acknowledges it; and the input callback. Lifetimes are mappings,
one per connection, and the abandoned ones stay readable.

### RelayCache, FriendWorld, WorldRelay — `SessionHost.cpp`, `NetworkClient.cpp`, `RuntimeMain.cpp`, `WorldBridge.hpp`, `WorldPump.hpp`, `EnemySync.cpp`

`RelayCache` is what the relay keeps of the host's world, the gates a message
passes to be kept and forwarded, and the order in which it is replayed.
`FriendWorld` is the path of a record through one friend: the client's admission,
the runtime's binding of a roster to a session generation of the mapping, the
inbox with its reset marker, the ring, and the game that shows nothing until the
marker of the present generation has come. `WorldRelay` composes them with
membership: the host joins, publishes, leaves; friends dial, lose their link on
either end, restart their runtime, ask for the room again; the relay ends
sessions in its two modes and may restart. Each connection has a number of its own
(`wire`), which the code does not have: the relay's connection identities start
from 1 again, and the properties must tell the two apart.

### Downed — `DownedSpike.inl`, `DownedReturn.hpp`, `RevivePrompt.hpp`, `Revive.hpp`, `EnemySync.cpp`, `SessionHost.cpp`, `NetworkClient.cpp`

`own[s]` is the owner of a seat's downing in its game: the episode in force, what
it has seen of its teammates, the rule for the next room and the return it is
owed. A `Frame` is one turn of the game's loop: the occasion it finds (a prompt
held long enough, a victory, a save point, nothing) and all that the owner then
does, down to the rise. `enc` is the host's encounter, armed by a friend's pose and
sent with its claims one frame after the victory. The relay checks a request against the avatar it last
heard, reserves the episode in `relay` and sends; the target's client does the
same in `client`, the game's gate in `own[s].consumed`. Fields named `downing` in
samples, poses, claims and requests are history, the downing they speak of; no
guard reads them, and `astray` records a rise that a request, a claim or a receipt
for another downing caused.

### ResyncPolicies — `AutomaticResyncNotice.hpp`, `ReturningSeatResync.hpp`, `RuntimeMain.cpp`

`ResyncPolicies` extends WorldResync and takes its free `HostRequest` away: only
the two policies submit requests, from the notices, rosters and results that the
host's loop hands them, one turn of the loop after the other.

## 3. The runs

Every property also has a mutant in `PROJECT.json`: a plausible slip in the
mapped code under which the same run finds the property violated.

| run | instance | shows |
|---|---|---|
| `recovery_friend` | a friend, two identities, three delays | `RetryBudget`: waits only with an attempt left. `LinkFollowsScheduler`: scheduler and transport agree, and a client that stopped dials no more. `OnlyStableMembershipCounts`: only stable membership refills the attempts, and the episode limit never ends membership that could still become stable. `AttemptsSettle`: every attempt ends admitted or stopped |
| `resync_overtaken` | one seat that may leave and rejoin, one request, five serials | `UnfencedSeatsMirror`: a seat nobody fences is on its way to the relay's world. `CacheIsCurrent`: the late-join cache is the host's world at the last admitted serial. `AppliesInOrder`: no update skipped, unless a checkpoint covers it. `ConvergedIsCertified`: converged means installed, observed and current, for each target |
| `policies_returning` | one seat, two peers who take it in turn, two requests, two notices, a room change | `ReturnedIsRecovered`: a returning seat stops being one only after a full recovery of that very connection. `WaitersAreServed`: no hint and no key outlives the transaction it waits for. `CutOffSeatsKnow`: a seat the relay cut off knows it once it has drained its channel. `TransactionsEnd`: a transaction ends on the relay, on the host and on every seat, whoever falls silent |
| `serials_present` | host and two friends, two plans | `PresentSeatsRecognise` |
| `serials_latejoiner` | two friends, one plan | `OutsidersRecognise` is violated, see 8 |
| `ring_bridge` | 32-byte ring, counters modulo 64 | `RingTypeOK`: never more than the capacity between tail and head. `RefinesQueue`: whole records, once and in order. `KeptRecordGoesThrough` |
| `receipt_recycled` | three runtimes, the third with the first's PID, the second without a creation time | `YesWasTrue`: a yes names, by PID and incarnation, a runtime that ended for good under the generation the call found |
| `lease_handover` | one thread, two overlapping runtimes without a creation time (the incarnation tells a view nothing, so more of them pass), two generations | `RetiredForGood`, `LiveIsRecent`, `PunctualKeepsLease` |
| `admission_party` | one or two friends, five stories: two friends of whom one returns, three room requests, a second event, a second session of the host, an event in either of two fights | `ArrivedIsEarned`: who counts as arrived has come on this connection for this hold. `ReleaseIsWhole`: the boss is not free before the party, and a finished hold leaves nothing frozen that was its own. `FirstDecisionStands`, `FreesOnlyItsOwn`. `HoldsEnd`: every hold ends |
| `hold_friend` | one friend with two lifetimes, three facts of the host | `LegalHostNeverBlamed`: an orderly host is never cut off for disorder. `NoFactSkipped`: an armed mapping holds every fact since its first, in order. `ReturnIsEarned`: a hold that its release ends, ends when the game has taken every fact up to that release. `InputGivenBack`: input comes back once the host releases it, and once the mapping is dead |
| `relay_joiner` | one friend, six stories (4) | `CaughtUp`: who has heard everything on its way shows the host's world, however it came. `NothingOfAnotherLife`: what an armed game shows came over the connection and in the session its runtime has, and no HP value is relabelled for another room. `HpNeverGoesBack`: an HP value is never replaced by an older sample's |
| `downed_party` | the host and one friend, seven stories (4) | `RisesForItsOwnDowning`: nothing that outlived a downing, a room or a session raises the player from a later one. `RequestsAreUnspent`: the requests on their way to a player name rising episodes, none twice, none unreserved. `ReturnIsHonoured`: an owed return ends with the player up, unless the session, the host's game over or a new downing revokes it |

`CHECK_DEADLOCK FALSE` stands where the bounded system may stop: bounded
serials, requests, facts, connections and stories run out, and the admission
model ends when the hooks go.

`PunctualKeepsLease` speaks of punctual runtimes and calls: history variable
`late` excludes those who let more than the timeout pass between pulses, a call
suspended between its heartbeat load and its clock read, and runtimes whose
lives overlap. The others can lose their lease; the code accepts that.

## 4. Bounds, and why they are enough

* **ClientRecovery**: no counter is unbounded; only the durations are scaled.
  `TransportMs = RosterMs = 2`, `EpisodeMs = 12`, `StableMs = 3` and the delays
  `1, 1, 2` keep the order of the code's values (each phase deadline and each
  delay well inside the episode), and leave room in an episode for every attempt
  to fail in every phase. The proofs do not use these values.
* **WorldResync**: `MaxSerial` bounds what the host publishes. Five serials
  allow an update before the request, a bootstrap capture, one that overtakes it
  with news, a checkpoint capture and one more update across that: every path of
  the transaction, up to a second snapshot. `MaxContinuation = 1` puts the
  overflow within reach. Two values, one of which touches only the boss's rows,
  are what `Differs` and the sit-out tell apart. `MaxConns = 2` lets the seat
  leave and return once. One seat cannot show that any of several targets has a
  continuation the relay can rebuild its cache from: that is proved (6). That
  they are certified together is left to a proof to come (9).
* **ResyncPolicies**: `MaxRequests = 2` with `MaxEpoch = 2` lets everything of the
  first transaction still be in flight in the second and in another room, and
  gives a policy a second attempt. Two peers share the seat, so that a connection
  is a first arrival, a return or a replacement; the first to come always has the
  same name, since names are interchangeable. One value and one set of fields are
  enough: what the world looks like and what a notice names decide nothing here
  beyond being the same again. `MaxEvents = 3` counts source serials and notices
  together.
* **DeliverySerials**: two plans let a serial be announced twice, two sends per
  direction let an envelope of the old serial overlap one of the new. One friend
  speaks, everyone listens.
* **PacketRing**: 32 bytes with records that take 12 or 16 leave a gap of each
  size a record can leave at the end of the ring; counters modulo 64 wrap every
  second lap. 12 bytes is the longest record the ring takes, 13 one too many.
* **Writer words**: three runtimes are needed for a recycled PID with another
  runtime in between; two generations for a lease to survive a handover. In the
  lease runs the timeout is 0 or 1 tick of a clock that runs 1 or 2: silence is
  either within the timeout or not, and only differences of ticks count. The
  proofs leave all of these open.
* **CombatAdmission**: five stories in one state graph, `Story(...)` in
  `MCCombatAdmission`: two friends of whom one returns, with two room requests
  (the fight is left); one friend who returns, with three (the fight is entered
  again, so that what is in flight for one hold can reach the next); one friend
  who returns and a second event in mid-hold, the case a release waits for; one
  friend who returns and a second session, a change of the host's identity; and
  two fights with an event in either of them, from which nobody is gone. The
  deadline is one tick: only before and after it differ.
* **EventHold**: `Capacity = 2` fills while the callback closes a pause;
  `OwnerCapacity = 2` and `SourceCapacity = 4` end a lifetime by what it has
  taken; one tick for each timeout separates in time from too late.
  `MaxFacts = 3` is the room the friend found, a hold and its release, or a hold
  and the room the host left for. `MaxLifetimes = 2` is a lifetime and the one
  that replaces it, in the same or in another runtime; `LegalHostNeverBlamed`
  speaks of the first.
* **WorldRelay**: one friend, since friends do not affect each other's records,
  and six stories that share one state graph: a long session (a host that saves,
  enters a room, populates and buries); a room replayed on request while HP
  samples are under way; a rejoin within a session; two sessions at a relay that
  stays; two at a relay that may restart; and a public realm whose friend
  outlives its host. `Story(mode, sessions, restarts, facts, samples, replays,
  dials)` in `MCWorldRelay` gives the bounds of each. `Backlog = 1` and
  `RingCapacity = 1` make the inbox wait and lose no interleaving between links.
* **Downed**: seven stories in one state graph, `Story(...)` in `MCDowned`, each
  with the lethal hits, events, victories, rooms and sessions it needs: an
  encounter won during the friend's cutscene and a host that moves on; both down;
  a host that wins while it is down itself; another session before a receipt is
  used; a friend down twice, with a partner and a save point; a host that sits out
  two rooms; a friend whose poses are lost. `MaxEpisode = 2` gives a downing a
  second episode, or a second downing one; the first two rooms are the same place,
  which is what a room's identifier cannot tell apart. `Attempts = 1` gives a
  return up after one failure.

## 5. Fairness

Safety properties are checked under no fairness at all. Liveness assumes only
what runs by itself:

* `ClientRecovery`: the runtime's main loop turns and the clock runs. The relay
  owes nothing, so `AttemptsSettle` rests on the deadlines alone.
* `ResyncPolicies` (and WorldResync under it): each side's loop tests its
  deadline and the clocks run, as one condition on all of these together. No
  message need ever arrive and no host need answer: `TransactionsEnd` says that
  silence cannot hold a transaction.
* `PacketRing`: the calls of `push` and `pop` proceed, since both sides call them
  from loops that keep running. Nobody is obliged to offer a record.
* `CombatAdmission`: the input poll (which the game runs even while paused; the
  assumption is on polls that see nobody downed, so that a downing never has to
  rescue the hold), the clock, and the end of an event the game installed. No
  friend, relay, load or room request is obliged to do anything.

* `EventHold`: the game calls its input collector again and again, with memory
  that can be read and written, a rejected call is answered by the next, and the
  clock runs. Neither the runtime, the owner nor the host owes anything:
  `InputGivenBack` rests on the heartbeat and on the release's own deadline.

TerminalReceipt, WriterLease, DeliverySerials, WorldRelay and Downed have no
liveness property: a reader may be starved by a stream of restarts, an envelope
may be late for ever, a link may stay silent, and nobody has to walk to a
teammate and hold the prompt.

## 6. Proofs

TLAPS checks eight modules from nothing, down to the last leaf. A theorem holds
for all constants that satisfy the named assumptions of its module
(`RecoveryAssumption`, `WordsAssumption`, `LeaseAssumption`, `CapAssumption`, `BoundsAssumption`,
`DownedAssumption`, `ResyncAssumption`, `SerialsAssumption`, `HoldAssumption`, `ChannelAssumption`,
`InputAssumption`, `FriendAssumption`), which say no more than what the code's types
and tables guarantee. An inductive invariant was checked by TLC before it was proved,
where TLC can evaluate it.

**`FriendLink_proofs`** is about a friend's link: the scheduler that keeps it, and the
world that reaches the game over it. For the scheduler it proves `TypeOK` (`TypeCorrect`), `RetryBudget`
(`BudgetKept`), `LinkFollowsScheduler` (`TransportOwned`) and the action property
`OnlyStableMembershipCounts` (`MembershipEarns`). None of the invariants is inductive: the attempts stay in the table because a client waits only with
one left; it waits with one left because `failed()` tests the table before it
enters `RetryWait`; and a dial never meets an open transport because a client
that waits without a pending close has none. `IInv` is their conjunction. The
lemmas describe each operation as a function (`EnterIs` ... `TickIs`), from the
innermost outwards; `NextIInv` then has one step per action. For the attempts a
fourth part is needed, `Counted`: outside an episode the count is zero, so that the
loss which opens one, and resets it, forgives nothing; every operation then either
keeps the count, raises it or finds a membership that has lasted (`Spares`).

For the world it proves WorldRelay's `NothingOfAnotherLife` (`NoOtherLife`, from
`WorldInvariant`), for any number of friends, enemies, rooms, sessions and
reconnections, any capacity of the ring and a safe moment whenever it likes. A life
is a connection together with the session the runtime is a member of. Whatever ends
one, a reset or a roster, publishes a generation above all that the ring has seen,
erases the markers that wait and puts one of its own in front of the rest. So
what stands in the ring behind the marker of the published generation, and what was
shown since that marker was taken (`Bound`, `Behind`), is of one life (`OfLife`); of
the present life, while the mapping is open (`FriendInv`); and the inbox holds the
present life's only (`InboxOK`). That *one* life remains true between the retirement and
the next marker, when it is not the present one, is what makes the invariant
inductive. Generations are ordered: no packet bears a generation above the header's
(`Waits`), so that a new one is nobody's. On the relay's side a cached sample is of the
room the cache is of, and all that is replayed is a body a friend understands
(`CacheInv`). The lemmas follow the operators of FriendWorld and RelayCache one by one;
lists are kept as sequences over their own elements (`IsList`), and the loop that
erases the markers is followed along its prefixes (`Stepwise`, a well-founded
argument over a set), which needs no induction over an operator. This invariant
speaks of all sequences and is the prover's alone; TLC checks the property.

**`SharedMemory_proofs`** is about what a runtime and the DLL share: the writer's words,
read by the lease and by the terminal receipt, and the packet ring. For the lease it proves `TypeOK` (`TypeCorrect`), `RetiredForGood`
(`RetirementIsFinal`) and `OneWriterPerGeneration` (`BindingIsUnique`: all threads
that bind one generation bind it to one PID), for any number of threads and
runtimes, any PIDs (recycled ones included), any timeout, overlapping and
unpunctual runtimes and calls suspended anywhere. The argument: `retired_` and the
bound generation only grow. A call past the tombstone carries a generation above
what was retired when it began (`CallOK`); a call past the binding carries the PID
now bound, or its generation lies below the bound one and nobody can bind it again
(`BindingKept`); therefore two calls with one generation agree (`Agree`). One lemma
per step of a call, one for all that others do to it. The run has one thread, so
that it can reach two generations and overlapping runtimes; what several threads do
to each other is the proof's part.

The module's second part adds time to it: `LiveIsRecent` (`LiveWasAlive`) and
`PunctualKeepsLease` (`PunctualIsKept`). For the first, `Vouched`: whoever's PID is
in the words lives, or died no earlier than any tick that is there or is about to
be stored, since a runtime publishes its PID before its heartbeat; a view keeps
that relation between what it has loaded. For the second, as long as nobody is
late only one runtime is alive, so that a view of its generation shows its PID and
a heartbeat no older than the timeout, and neither test of the call can retire it.

Its third part proves TerminalReceipt's `YesWasTrue` (`ReceiptIsTrue`): only the newest
runtime opens a generation, so the present one has an owner, and a receipt for it
was committed behind the owner's own stamp. An incarnation found between the two
loads of the receipt is the owner's, or that of a predecessor that stamped late;
and such a predecessor never announces itself again, so the second writer view
does not find its incarnation any more. The property speaks of a runtime that
ended under the call's generation at some time. To ask for one moment at which all
the words agreed would be wrong: three overlapping runtimes can produce a correct
yes of which no such moment exists.

Its fourth part proves that the packet ring is a queue (`RingIsAQueue`:
`RingSpec => RefinesQueue`, with `RingTypeSafety` for `RingTypeOK`), for any capacity
that is a multiple of 8, any width of the counters that is a multiple of the
capacity and at least twice as large, any payloads and sizes, and every
interleaving of the two sides. Everything rests on `Reading`, which is recursive.
A first record or gap takes some of what is left and no more (`Smaller`), so that
the equation has a solution up to every bound (`Solvable`, the smallest bound
without one would have one) and `Reading` is what its equation says (`Unfolds`).
The same principle of the least counterexample then gives that a reading depends
on the words below head only (`Frame`), and that it gains the published record as
its last when the head moves on, through the wrap of the memory and of the
counters (`Appends`). Every word `push` writes before it publishes lies outside of what
may be read (`WriteIsOutside`, `MarkIsOutside`): no step before `Publish` changes what
is unread, wherever `pop` stands, and stale payload below the new head is never
taken for a length. The invariant `RingInv` adds where both sides stand: the room
reserved is still free and holds what has been copied (`Reserved`, `Copied`), and
the consumer stands at the first unread record, past any gap, with a prefix of it
copied (`Reads`, `Taken`). Then `Publish` appends, `Release` takes the first, and
every other step changes neither. TLC checked `RingInv` on the run's instance first.

**`CombatAdmission_proofs`** proves `TypeOK` (`TypeSafety`), `ArrivedIsEarned`
(`ArrivalIsEarned`), `ReleaseIsWhole` (`WholeRelease`) and the action properties
`FreesOnlyItsOwn` (`OnlyItsOwnIsFreed`) and `FirstDecisionStands` (`DecisionIsFinal`),
for any number of friends, connections, rooms, events and sessions. A group bears
the lease's mark only while a live lease owns it, since one release frees all of
them and nothing else frees boss or enemies in the lease's room. A challenge is new
when its lease begins, so whoever carries it arrived after that; an acknowledgement
bears the connection it arrived on or one younger than any that the lease recorded.

**`Downed_proofs`** proves `RisesForItsOwnDowning` (`RisenForItsOwn`) and
`RequestsAreUnspent` (`UnspentRequests`). Whatever speaks of a downing, a sample, a
pose, a claim, a message or what a relay or client has reserved, names an episode
that is at most the owner's, and if it is the owner's, the downing is the owner's
too, since a new downing takes a new episode with it. The game's gate lets only the
owner's own episode through. The relay reserves an episode before it sends it, so
what it sends later lies above everything on its way.

**`WorldResync_proofs`** proves `CacheIsCurrent` (`CacheStaysCurrent`, from
`ResyncInvariant`) for any number of seats, updates, rooms, requests and
connections and any limit on a continuation. What the host sends rises: an update
is above everything sent before it, and `Begin` and `End` of a snapshot are
neighbours, so when an `End` is read every update up to its cut has been admitted.
The relay takes one snapshot for each phase of a plan, and it was captured after
that phase began; whatever the relay admits until then is at the end of the
continuation of every target (`Kept`, `Later`). A snapshot that updates have overtaken
therefore finds the last of them there, and any other is as new as the cache
(`RebuiltCache`). The lemmas follow the relay's helpers from the inside out;
`Finish`, the way out of everything, has one of its own (`EndedGood`). That the
relay's memory of connections, plans and floors stays consistent (a target is
connected and fenced, a peer's floor is at most the relay's, a snapshot belongs
to the plan's phase) is part of the invariant.

**`WorldSeats_proofs`** goes on from there to the seats, and proves
`UnfencedSeatsMirror` (`SeatsMirror`), `CutOffSeatsKnow` (`CutOffIsKnown`) and the
action properties `AppliesInOrder` (`SeatsApplyInOrder`) and `ConvergedIsCertified`
(`ConvergedCertifies`), again for any number of seats, updates, rooms, requests and
connections and any limit on a continuation. What makes them hard is that the relay
and a seat never look at each other: between them lie a channel of any length and an
acknowledgement under way, and a transaction may overtake either.

* A *standing* is a point in a seat's life: the delivery serial it is bound to, how
  far the transaction has brought it (new, open, fenced, planned, begun, ended, cut
  off), the cut of its last snapshot and the last serial of the world it has been
  sent. `Moves` says what each message may find and what it makes of it.
* The messages in a channel lead from one standing to the next: its `Trace`. Relay
  and seat meet there. The relay's fields agree with the last standing (`Meant`),
  the seat's own with the first (`Stands`). Reading a message drops the first
  standing, sending one adds a last; neither side needs the other.
* Standings have a rank, serial first and then stage, which never falls along a
  trace. An acknowledgement has one too (`Answers`): it is at most the seat's, and
  when equal, the seat has installed the snapshot of its standing. The relay counts
  an acknowledgement only for its present serial and phase, which is the rank of the
  last standing: all standings of that channel are then one (`TargetCertified`).
* A target that waits for its snapshot is *fenced*, and its continuation goes on from
  before every cut that may still come (`Waits`); `Chain` says that it has no gap.
* What the relay admits after a cut is no news for the snapshot unless `changed`
  says so (`NoNews`); a snapshot is a copy of the update before it (`Copies`).

The inductive invariant is `SeatsInv`: these parts for each seat together with the
invariant of `WorldResync_proofs`. TLC checked it first, on a small instance that
computes the trace from the messages read. `UnfencedSeatsMirror` follows because an
open last standing has no gap up to the relay's last serial; `CutOffSeatsKnow`
because the only standing of an empty channel is the relay's; `AppliesInOrder`
because an update follows the standing's last with nothing between, and the seat's
own image lags behind the standing only by what a checkpoint's cut covers; and
`ConvergedIsCertified` because at the last acknowledgement every target's trace is a
single standing, on which the seat's world reads like the cut's, and the cut's like
all that came since. `CutOffSeatsKnow` is checked by the run of ResyncPolicies, whose
host also loses requests before they leave and is told notices; the theorem is about
WorldResync's own specification, and those two kinds of step belong to TLC.

**`DeliverySerials_proofs`** proves `PresentSeatsRecognise` (`PresentRecognise`, from
`SerialsInvariant`), for any number of friends, listeners, connections and
transactions and any amount of mail. What a listener knows of a source is its view:
the connection in that slot and the serial it expects. The messages in the listener's
channel lead from its present view to a last one (`Tracks`), which is what the relay
has for the source, except for serials announced before the listener joined
(`EndsAt`). An envelope is admitted under the relay's own connection and serial, so
it finds exactly that view when it is read (`Fits`); the roster, the plan and the
notice that change it are in the channel before or behind it. A new serial is
announced to everyone at once, and no envelope on its way bears it yet (`Behind`). A
listener that joins later is owed nothing under that serial, and nothing less is
true of the code: the run of `OutsidersRecognise` shows it refusing such envelopes.

**`EventHold_proofs`** proves `TypeOK` (`TypeSafety`), `NoFactSkipped`
(`NothingSkipped`), `LegalHostNeverBlamed` (`HostNeverBlamed`) and the action
property `ReturnIsEarned` (`ReturnsAreEarned`), for any capacity, limit, timeout,
number of facts and of connections. None of them is inductive. `NoFactSkipped`
needs that whatever keeps a fact from a mapping (a connection that is lost, a
quarantine, a runtime that stopped) aborts it: `Live`. That no legal host is
blamed needs that the first mapping can only arm for the room the host is in and
with no hold open (`Ready`), also when a new connection or a restarted runtime
finds it half bound; from then on the producer's memory is the host's (`Agrees`).
`Ready` is the delicate part: a pulse comes before every fact and may bind or arm
between the host's step and its envelope, so each part of a pulse is shown to keep
it (`AwaitedGood` ... `ExpiredGood`). For `ReturnIsEarned` the invariant relates the owner
to the mapping it reads (`Owned`): an acknowledgement covers facts that the world
has taken and that are forgotten only with the mapping, and a hold awaits no
release that its callback has not read. `Cut` describes every way in which a
producer gives a mapping up, `Touches` everything the game may do to one; one
lemma for each replaces a case analysis in twenty places. The library's minimum
principle gives the owner's cursor (`Greatest`), the only induction needed.

Only model-checked: `TypeOK` of WorldResync (its bounds on serials and requests are
the model's, the types the proofs need are part of `Types`), what ResyncPolicies
states, and `CaughtUp` and `HpNeverGoesBack` of WorldRelay.
`ReturnIsHonoured` of Downed stays with TLC: its inductive form speaks of the bound
on episodes, which the code does not have. Left to the model checker for good:
every liveness property (the prover has no rule for fairness here, nor for
`ENABLED`), `KeptRecordGoesThrough` of the ring among them; and what the folds and recursive
operators of the relay's cache compute for all inputs, which needs induction over
data.

## 7. What the models leave out

* **WorldResync.** Channels are reliable and ordered; failures of the transport
  to send, and the loss of the host, are not modelled (a session that ends is
  WorldRelay's, the unreliable enemy HP too). A snapshot's parts are folded into
  its end; the continuation is bounded in records and not also in bytes; a room
  is one value and not its rows. Re-broadcasts of a binding a seat already has
  are omitted, as is the serial spent by a failed capture. A seat leaves on both
  ends at once. Two statuses which the relay accepts, *Received* and *Arrived*,
  are never sent by the DLL and do not occur; *NativeUnavailable* counts as
  *NativeFailed*.
* **ResyncPolicies.** The end of the host's own session, which clears both
  policies. The hash comparison that decides when the relay sends a notice: the
  moment is open. What the host's game must allow before a returning seat is
  submitted (a room it can capture, a leader on its feet, the arena's own sit-out)
  is one choice, *ready*. One outcome of the transport per turn of the loop.
* **PacketRing.** The capacity divides the width of the counters, as 2^20 divides
  2^32 in both bridges; `format()` does not demand it. Memory is sequentially
  consistent: the code puts an acquire fence after reading a position and a
  release fence before storing one.
* **Writer words.** Generations and the tick count do not wrap. A runtime with a
  successor may finish what it began (a pulse, a receipt) and starts nothing new.
  What else a runtime does with the bridge is not modelled.
* **CombatAdmission.** The native sample can always be read; menus and cutscenes
  only delay a publication, which may stay away anyway. The two teardown calls of
  an event are one step. Challenges are a counter of leases, a connection number
  stands for connection and delivery, a session number for generation, delivery
  and role; an unpublished delivery, which the code forgives, does not occur.
  An announcement and an acknowledgement reach the relay at once, and the delays
  between relay and host and between announcement and arrival remain. Rooms
  outside the fight, and loads nobody requested, are omitted. Whether somebody is
  downed is an input. Which group a room's own script freezes or frees at a load
  is a choice. A history of arrivals is kept for the property and forgotten with
  the lease it belongs to. A shutdown that gives up after half a second with a
  lease alive ends the model: the code logs it and leaves the groups to the next
  load.
* **EventHold.** A command and an acknowledgement are read and written whole: the
  code publishes them behind a release store and a sequence word with one writer
  each. Native starts of an event that a seat plays itself, and the defeat of
  Thorn, are not replayed. What the buttons do to the game is the game's: the
  menu moves as it likes whenever something looks at it. A recovery resync is the
  message of its result; the transaction is WorldResync's.
* **WorldRelay.** The forced resync, its delivery serials and source floors
  (WorldResync, DeliverySerials); rooms entered for travel; scenes; lifecycle
  cuts; streams that are forwarded and not kept; hello refusals; the host's own
  ring; a game that restarts while its runtime stays. `CaughtUp` leaves HP out:
  the relay may keep an HP value of an enemy whose manifest record has not come,
  the game drops a sample that names an unknown enemy whole, and HP is then only
  right with the next sample.
* **Downed.** Every downing is the logical one of a seat that plays Roxas; a
  natively dead Sora, the outage duty and faults of the native calls are left out.
  The age of a pose is a choice, lost or not. Distance and hold of the prompt are
  folded into its occasion. A request reaches the relay in the frame that makes
  it, and a game takes at most one message a frame. A connection replaced within
  a session, and the test that every other seat is absent, are not modelled, nor
  is the identity of the mission file.
* **Whole components** without a module are in `PROJECT.json` with the reason:
  some are planned (9), some are native layout or continuous data, some hold no
  state the protocol depends on.

## 8. Finding

`serials_latejoiner`: a plan raises the delivery serial of its targets, and a
notice tells the others who are present (`SessionHost.cpp:79`). A comment at
`NetworkClient.cpp:1064` and `docs/FORCED_RESYNC.md:773` say that such a seat
must admit the targets' later envelopes, as the host does. A friend who joins
or returns after the notice takes serial 1 for every connection of its first
roster (`NetworkClient.cpp:640`), and no join message carries the relay's
current one. The relay passes only envelopes under the current serial and the
newcomer only those under the one it expects (`NetworkClient.cpp:783`), so it
refuses everything the resynced friend sends until that friend's next resync.
`PresentSeatsRecognise` shows that nobody who was present is affected.

More places where a document says more than the code does, met while modelling;
none is a run of its own:

* `docs/ONLINE_COOP_PLAN.md:1265` has a hold without acknowledgement skipped. A
  hold that reaches a runtime whose mapping has not armed yet ends that mapping
  as *Unsupported* (`EventHoldRuntimeProjection.hpp:131`): the seat is without
  holds until it rejoins.
* `docs/DOWNED_REVIVE.md:336` has a returning seat quarantined until its recovery
  converges. `ReturningSeatResync.hpp:91` forgets its key on any change of the
  roster, and a test asserts that; when another friend joins or leaves between
  the submission and its result, a seat that has converged stays a returning one
  until the next room.
* `docs/DOWNED_REVIVE.md:320` describes one sit-out of the next room. The rule stays
  pending until the room has settled, and a new downing does not clear it: a
  lethal hit before the first settled frame is followed by a second downing right
  after the revival.
* `DownedSpike.inl:1082` has an encounter's claims taken at its edge. A downing
  that takes a new episode between that edge and the send a frame later no longer
  matches its claim, and the claim is dropped.
* `docs/DOWNED_REVIVE.md:240` has a host that is down with everybody take its
  native game over. Until it reloads, its avatar streams without the downed flag;
  a friend that sees such a pose takes it for a teammate who is up, and sits the
  retried room out.

## 9. The plan

Done: the rejoin scheduler; the resync transaction and the policies that ask for
it; delivery serials; the ring, its queue and the inbox; writer words with both
readers; the admission barrier; the event hold from the host to the buttons; the
world relay with membership, the late-join cache and session generations; downed
players and their return. Proofs: see 6.

Next, each as a module of its own:

1. `ActivationLease` (`ActivationLease.hpp:71`): answers that compete for the
   requests of several epochs.
2. `SpawnEmissions` with the cuts of the ordinary lifecycle.
3. `DesyncReport`: two captures, a deadline and a worker; one report.
4. `SteamDrain`: what was sent reliably leaves before the end.
5. In WorldRelay: the refusals of a hello and the operator mailbox.

Abstract specifications to state: *prefix replication* (each seat shows a prefix
of the host's history, except behind a fence), refined by WorldResync; *one
decision per hold*, refined by CombatAdmission and EventHold.

Proofs to come: the two invariants of ResyncPolicies on top of `SeatsInv`, `HpNeverGoesBack` of WorldRelay.
