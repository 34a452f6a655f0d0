-------------------------- MODULE WorldResync_proofs --------------------------
(***************************************************************************)
(* Proofs about the relay's cache, for any number of seats, updates, rooms,  *)
(* requests and connections and any limit on a continuation.                  *)
(*                                                                           *)
(* The argument: what the host sends rises, so every update that the relay    *)
(* reads is newer than anything it has admitted.  A snapshot's Begin and End  *)
(* are neighbours, and every update up to its cut comes before them.  The     *)
(* relay takes one snapshot for each phase of a plan, captured after that     *)
(* phase began; whatever it admits until then is in the continuation of every *)
(* target.  So a snapshot that updates have overtaken finds the last of them  *)
(* at the end of each continuation, and any other is as new as the cache.     *)
(***************************************************************************)
EXTENDS WorldResync, TLAPS

Positive == Nat \ {0}

Entry == [at : Nat, epoch : 1..MaxEpoch, val : Values]

Rosters == [Seats -> Nat]

HostMessage ==
  [t : {"env"}, n : Nat]
  \cup [t : {"request"}, id : Positive, mask : (SUBSET Seats) \ {{}}, epoch : Nat, roster : Rosters]
  \cup [t : {"begin"}, id : Nat, phase : Phases, cut : Nat]
  \cup [t : {"end"}, id : Nat, phase : Phases, cut : Nat, sitOut : BOOLEAN]
  \cup [t : {"failure"}, id : Nat, reason : Reasons]

RelayMessage ==
  [t : {"result"}, id : Nat, reason : Reasons] \cup [t : {"plan"}, id : Positive, phase : Phases]
  \cup [t : {"roster"}, roster : Rosters]

SnapType == [cut : Nat, sitOut : BOOLEAN]

HostType ==
  [plan : Nat, phase : Phases, asked : Nat, next : Positive, lastPlan : Nat, captured : BOOLEAN,
   staged : SnapType, roster : Rosters]

TargetType == [conn : Nat, delivery : Nat]

PlanType == [id : Nat, phase : Phases, epoch : Nat, targets : [Seats -> TargetType]]

PeerType == [conn : Nat, delivery : Nat, quarantined : BOOLEAN, sitOut : BOOLEAN, floor : Nat]

Record == [t : {"env"}, n : Nat, delivery : Nat]

RelayFields ==
  {"plan", "begin", "snap", "changed", "acks", "cont", "floor", "last", "cache", "lastId", "outcome",
   "nextConn", "peers", "outHost", "outSeat"}

\* The seats' own channels, the acknowledgements and the outcome are left untyped.
Relay(R) ==
  /\ DOMAIN R = RelayFields
  /\ R.plan \in PlanType /\ R.begin \in [cut : Nat, phase : Phases] /\ R.snap \in SnapType
  /\ R.changed \in BOOLEAN /\ R.cont \in [Seats -> Seq(Record)] /\ R.peers \in [Seats -> PeerType]
  /\ R.floor \in Nat /\ R.last \in Nat /\ R.cache \in Nat /\ R.lastId \in Nat /\ R.nextConn \in Positive
  /\ R.outHost \in Seq(RelayMessage)

Types(R, H, q, h) == h \in Seq(Entry) /\ H \in HostType /\ q \in Seq(HostMessage) /\ Relay(R)

\* An entry of the history names the last update up to it.
History(h) ==
  /\ Len(h) # 0
  /\ \A n \in 1..Len(h) :
       /\ 1 <= h[n].at /\ h[n].at <= n
       /\ \A m \in 1..Len(h) : h[n].at <= m /\ m <= n => h[m].at = h[n].at

Update(h, n) == n \in 1..Len(h) /\ h[n].at = n

Serial(m) == IF m.t = "env" THEN m.n ELSE m.cut

\* What the host sends rises: an update is above everything before it, and so
\* is a snapshot above the ones before it; Begin and End are neighbours.
Pair(b, e) == b.t = "begin" /\ e.t = "end" /\ b.id = e.id /\ b.phase = e.phase /\ b.cut = e.cut

Rising(q, h) ==
  /\ \A i \in 1..Len(q) : q[i].t = "env" => Update(h, q[i].n)
  /\ \A i \in 1..Len(q) : q[i].t = "end" => q[i].cut \in 1..Len(h)
  /\ \A i, j \in 1..Len(q) : i < j /\ q[j].t = "env" /\ q[i].t \in {"env", "end"} => Serial(q[i]) < q[j].n
  /\ \A i, j \in 1..Len(q) : i < j /\ q[j].t = "end" /\ q[i].t = "end" => q[i].cut < q[j].cut

Paired(q) ==
  /\ \A i \in 1..Len(q) : q[i].t = "begin" => i + 1 \in 1..Len(q) /\ Pair(q[i], q[i + 1])
  /\ \A i \in 1..Len(q) : q[i].t = "end" /\ i # 1 => Pair(q[i - 1], q[i])

Staged(H, q, h) ==
  H.staged # NoSnap =>
    /\ H.staged.cut \in 1..Len(h)
    /\ \A i \in 1..Len(q) : q[i].t = "end" => q[i].cut < H.staged.cut

\* The End of the snapshot whose Begin the relay has just admitted.
Partner(R, m) ==
  /\ m.t = "end" /\ R.plan # NoPlan /\ R.snap = NoSnap
  /\ m.id = R.plan.id /\ m.cut = R.begin.cut /\ m.phase = R.begin.phase /\ m.phase = R.plan.phase

Ahead(R, H, q) ==
  /\ \A i \in 1..Len(q) : q[i].t = "env" => R.last < q[i].n
  /\ \A i \in 1..Len(q) : q[i].t = "end" => R.begin.cut < q[i].cut \/ (i = 1 /\ Partner(R, q[1]))
  /\ H.staged # NoSnap => R.begin.cut < H.staged.cut
  /\ R.begin.cut <= R.last \/ (q # <<>> /\ Partner(R, q[1]))

\* Every update is admitted or on its way.
Received(R, q, h) ==
  \A n \in 1..Len(h) : h[n].at = n => n <= R.last \/ \E i \in 1..Len(q) : q[i].t = "env" /\ q[i].n = n

\* The relay's transaction.
Fenced(R, f) == R.peers[f].conn # 0 /\ (R.snap = NoSnap => R.peers[f].quarantined)

Kept(R, f) == IF R.snap = NoSnap THEN R.cont[f] # <<>> => R.cont[f][Len(R.cont[f])].n = R.last
              ELSE R.cont[f] = <<>> /\ (R.snap.sitOut \/ ~R.peers[f].quarantined)

Transaction(R, h) ==
  /\ R.plan = NoPlan => R.begin = NoBegin /\ R.snap = NoSnap
  /\ R.plan # NoPlan => R.plan.id \in 1..R.lastId /\ \E f \in Seats : IsTarget(R, f)
  /\ R.snap # NoSnap => R.begin.cut # 0 /\ R.begin.cut = R.snap.cut /\ R.begin.phase = R.plan.phase
  /\ R.plan.phase = "Checkpoint" => ~R.changed
  /\ R.floor <= R.last /\ R.last <= Len(h)
  /\ \A f \in Seats : R.peers[f].floor <= R.floor
  /\ \A f \in Seats : IF IsTarget(R, f) THEN Fenced(R, f) /\ Kept(R, f) ELSE R.cont[f] = <<>>
  /\ \A f \in Seats : \A i \in 1..Len(R.cont[f]) : Update(h, R.cont[f][i].n) /\ R.cont[f][i].n <= R.last

\* A phase that the host speaks of is one the relay has begun.
Known(R, id, phase) ==
  /\ id <= R.lastId
  /\ R.plan.id = id /\ R.plan.phase = "Bootstrap" => phase = "Bootstrap"

Begun(R, H, q) ==
  /\ \A i \in 1..Len(R.outHost) : R.outHost[i].t = "plan" => Known(R, R.outHost[i].id, R.outHost[i].phase)
  /\ H.plan # 0 => Known(R, H.plan, H.phase)
  /\ \A i \in 1..Len(q) : q[i].t = "end" => Known(R, q[i].id, q[i].phase)
  /\ \A i \in 1..Len(q) : q[i].t = "end" => q[i].id # 0

\* A snapshot of the phase was captured after everything the relay admitted
\* before that phase.
Later(R, H, q) ==
  \A f \in Seats :
    R.plan # NoPlan /\ R.snap = NoSnap /\ IsTarget(R, f) /\ R.cont[f] = <<>> =>
      /\ \A i \in 1..Len(q) :
           q[i].t = "end" /\ q[i].id = R.plan.id /\ q[i].phase = R.plan.phase => R.last < q[i].cut
      /\ H.staged # NoSnap /\ H.plan = R.plan.id /\ H.phase = R.plan.phase => R.last < H.staged.cut

Cached(R, h) == R.last # 0 => R.cache = h[R.last].at

Good(R, H, q, h) ==
  /\ Types(R, H, q, h)
  /\ History(h) /\ Rising(q, h) /\ Paired(q) /\ Staged(H, q, h)
  /\ Ahead(R, H, q) /\ Received(R, q, h)
  /\ Transaction(R, h) /\ Begun(R, H, q) /\ Later(R, H, q)
  /\ Cached(R, h)

IInv == Good(relay, host, toRelay, hist)

-----------------------------------------------------------------------------
(* What the relay's helpers do to the fields that matter here.             *)

\* No plan is sent to the host.
Quiet(R, S) ==
  \A i \in 1..Len(S.outHost) :
    S.outHost[i].t = "plan" => \E j \in 1..Len(R.outHost) : R.outHost[j] = S.outHost[i]

Clean(R) == R.plan = NoPlan /\ R.begin = NoBegin /\ R.snap = NoSnap /\ R.cont = [f \in Seats |-> <<>>]

Ended(R, S) ==
  /\ Relay(S) /\ Clean(S) /\ Quiet(R, S)
  /\ S.floor = R.floor /\ S.last = R.last /\ S.cache = R.cache /\ S.lastId = R.lastId
  /\ \A f \in Seats : S.peers[f].floor = R.peers[f].floor

LEMMA NothingTyped == NoPlan \in PlanType /\ NoBegin \in [cut : Nat, phase : Phases] /\ NoSnap \in SnapType
BY DEF NoPlan, NoTargets, NoTarget, NoBegin, NoSnap, PlanType, TargetType, SnapType, Phases

LEMMA Ends ==
  ASSUME NEW R, Relay(R), NEW reason \in Reasons, R.plan = NoPlan => Clean(R)
  PROVE  Ended(R, Finish(R, reason))
<1>. DEFINE peers == [f \in Seats |-> IF IsTarget(R, f) /\ reason # "Converged"
                        THEN [R.peers[f] EXCEPT !.quarantined = TRUE, !.sitOut = FALSE] ELSE R.peers[f]]
            m == [t |-> "result", id |-> R.plan.id, reason |-> reason]
            cont == [f \in Seats |-> <<>>]
            outSeat == [f \in Seats |-> IF IsTarget(R, f)
                  THEN Append(R.outSeat[f], [t |-> "result", id |-> R.plan.id, reason |-> reason])
                  ELSE R.outSeat[f]]
            outcome == [id |-> R.plan.id, reason |-> reason]
            S == [R EXCEPT !.plan = NoPlan, !.begin = NoBegin, !.snap = NoSnap, !.cont = cont, !.acks = {},
                           !.outcome = outcome, !.peers = peers, !.outHost = Append(R.outHost, m),
                           !.outSeat = outSeat]
<1>1. CASE R.plan = NoPlan
  <2>1. Finish(R, reason) = R
    BY <1>1 DEF Finish
  <2>. QED  BY <2>1, <1>1 DEF Ended, Quiet
<1>2. CASE R.plan # NoPlan
  <2>1. Finish(R, reason) = S
    BY <1>2, Zenon DEF Finish
  <2>2. DOMAIN R = RelayFields
    BY DEF Relay
  <2>3. m \in RelayMessage /\ m.t = "result"
    BY DEF Relay, RelayMessage, PlanType
  <2>4. /\ peers \in [Seats -> PeerType]
        /\ \A f \in Seats : peers[f].floor = R.peers[f].floor
    BY DEF Relay, PeerType
  <2>5. cont \in [Seats -> Seq(Record)]
    OBVIOUS
  <2>. HIDE DEF peers, m, cont, outSeat, outcome
  <2>6. /\ DOMAIN S = RelayFields /\ S.plan = NoPlan /\ S.begin = NoBegin /\ S.snap = NoSnap
        /\ S.changed = R.changed /\ S.cont = cont /\ S.peers = peers /\ S.floor = R.floor /\ S.last = R.last
        /\ S.cache = R.cache /\ S.lastId = R.lastId /\ S.nextConn = R.nextConn
        /\ S.outHost = Append(R.outHost, m)
    BY <2>2 DEF RelayFields
  <2>. HIDE DEF S
  <2>7. Relay(S)
    BY <2>6, <2>3, <2>4, <2>5, NothingTyped DEF Relay
  <2>8. Quiet(R, S)
    BY <2>6, <2>3 DEF Quiet, Relay
  <2>9. Clean(S)
    BY <2>6 DEF Clean, cont
  <2>. QED  BY <2>1, <2>4, <2>6, <2>7, <2>8, <2>9 DEF Ended
<1>. QED  BY <1>1, <1>2

LEMMA EndedAgain ==
  ASSUME NEW R, NEW S, NEW T, Ended(R, S), Ended(S, T)
  PROVE  Ended(R, T)
<1>1. Quiet(R, T)
  BY DEF Ended, Quiet
<1>. QED  BY <1>1 DEF Ended

LEMMA Delivers ==
  ASSUME NEW R, Relay(R), NEW n \in Nat
  PROVE  LET S == Deliver(R, n)
         IN  /\ Relay(S)
             /\ S.plan = R.plan /\ S.begin = R.begin /\ S.snap = R.snap /\ S.changed = R.changed
             /\ S.peers = R.peers /\ S.floor = R.floor /\ S.last = R.last /\ S.cache = R.cache
             /\ S.lastId = R.lastId /\ S.outHost = R.outHost
             /\ \A f \in Seats : S.cont[f] = IF Reaches(R, f, n) /\ Buffered(R, f)
                                             THEN Append(R.cont[f], Envelope(R, f, n)) ELSE R.cont[f]
             /\ S.cont \in [Seats -> Seq(Record)]
<1>. DEFINE cont == [f \in Seats |-> IF Reaches(R, f, n) /\ Buffered(R, f)
                       THEN Append(R.cont[f], Envelope(R, f, n)) ELSE R.cont[f]]
            outSeat == [f \in Seats |->
                  IF Reaches(R, f, n) /\ ~Buffered(R, f) /\ ~R.peers[f].quarantined
                  THEN Append(R.outSeat[f], Envelope(R, f, n)) ELSE R.outSeat[f]]
            S == [R EXCEPT !.cont = cont, !.outSeat = outSeat]
<1>1. Deliver(R, n) = S
  BY Zenon DEF Deliver
<1>2. \A f \in Seats : Envelope(R, f, n) \in Record
  BY DEF Envelope, Record, Relay, PeerType
<1>3. cont \in [Seats -> Seq(Record)]
  BY <1>2 DEF Relay
<1>4. \A f \in Seats : cont[f] = IF Reaches(R, f, n) /\ Buffered(R, f)
                                 THEN Append(R.cont[f], Envelope(R, f, n)) ELSE R.cont[f]
  OBVIOUS
<1>5. DOMAIN R = RelayFields
  BY DEF Relay
<1>. HIDE DEF cont, outSeat
<1>6. /\ DOMAIN S = RelayFields /\ S.plan = R.plan /\ S.begin = R.begin /\ S.snap = R.snap
      /\ S.changed = R.changed /\ S.cont = cont /\ S.peers = R.peers /\ S.floor = R.floor /\ S.last = R.last
      /\ S.cache = R.cache /\ S.lastId = R.lastId /\ S.nextConn = R.nextConn /\ S.outHost = R.outHost
  BY <1>5 DEF RelayFields
<1>. HIDE DEF S
<1>7. Relay(S)
  BY <1>6, <1>3 DEF Relay
<1>. QED  BY <1>1, <1>4, <1>6, <1>7, <1>3

LEMMA Replans ==
  ASSUME NEW R, Relay(R), R.plan.id # 0
  PROVE  LET S == Publish(Fence(R))
         IN  /\ Relay(S)
             /\ S.plan = R.plan /\ S.begin = R.begin /\ S.snap = R.snap /\ S.changed = R.changed
             /\ S.cont = R.cont /\ S.floor = R.floor /\ S.last = R.last /\ S.cache = R.cache
             /\ S.lastId = R.lastId
             /\ \A f \in Seats : /\ S.peers[f].floor = R.peers[f].floor /\ S.peers[f].conn = R.peers[f].conn
                                 /\ IsTarget(R, f) => S.peers[f].quarantined
             /\ S.outHost = Append(R.outHost, [t |-> "plan", id |-> R.plan.id, phase |-> R.plan.phase])
<1>. DEFINE peers == [f \in Seats |->
                        IF IsTarget(R, f) THEN [R.peers[f] EXCEPT !.quarantined = TRUE, !.sitOut = FALSE]
                        ELSE R.peers[f]]
            m == [t |-> "plan", id |-> R.plan.id, phase |-> R.plan.phase]
            T == [R EXCEPT !.peers = peers]
<1>1. Fence(R) = T
  BY Zenon DEF Fence
<1>2. /\ peers \in [Seats -> PeerType]
      /\ \A f \in Seats : /\ peers[f].floor = R.peers[f].floor /\ peers[f].conn = R.peers[f].conn
                          /\ IsTarget(R, f) => peers[f].quarantined
  BY DEF Relay, PeerType
<1>3. DOMAIN R = RelayFields
  BY DEF Relay
<1>. HIDE DEF peers, m
<1>4. /\ DOMAIN T = RelayFields /\ T.plan = R.plan /\ T.begin = R.begin /\ T.snap = R.snap
      /\ T.changed = R.changed /\ T.cont = R.cont /\ T.peers = peers /\ T.floor = R.floor /\ T.last = R.last
      /\ T.cache = R.cache /\ T.lastId = R.lastId /\ T.nextConn = R.nextConn /\ T.outHost = R.outHost
  BY <1>3 DEF RelayFields
<1>. HIDE DEF T
<1>. DEFINE outSeat == [f \in Seats |->
                  IF IsTarget(T, f)
                  THEN T.outSeat[f] \o << [t |-> "binding", delivery |-> T.peers[f].delivery],
                                  [t |-> "plan", id |-> T.plan.id, phase |-> T.plan.phase,
                                   delivery |-> T.plan.targets[f].delivery] >>
                  ELSE T.outSeat[f]]
            l == [t |-> "plan", id |-> T.plan.id, phase |-> T.plan.phase]
            S == [T EXCEPT !.outSeat = outSeat, !.outHost = Append(T.outHost, l)]
<1>5. Publish(T) = S
  BY Zenon DEF Publish
<1>6. l = m
  BY <1>4 DEF m
<1>. HIDE DEF outSeat, l
<1>7. /\ DOMAIN S = RelayFields /\ S.plan = T.plan /\ S.begin = T.begin /\ S.snap = T.snap
      /\ S.changed = T.changed /\ S.cont = T.cont /\ S.peers = T.peers /\ S.floor = T.floor /\ S.last = T.last
      /\ S.cache = T.cache /\ S.lastId = T.lastId /\ S.nextConn = T.nextConn
      /\ S.outHost = Append(T.outHost, l)
  BY <1>4 DEF RelayFields
<1>. HIDE DEF S
<1>8. m \in RelayMessage
  BY DEF m, Relay, RelayMessage, PlanType, Positive
<1>9. Relay(S)
  BY <1>2, <1>4, <1>6, <1>7, <1>8 DEF Relay
<1>. QED  BY <1>1, <1>2, <1>4, <1>5, <1>6, <1>7, <1>9 DEF m

-----------------------------------------------------------------------------
(* A transaction that ends, and a message the relay refuses, keep everything. *)

LEMMA PositiveId ==
  ASSUME NEW R, NEW h, Relay(R), Transaction(R, h), R.plan # NoPlan
  PROVE  R.plan.id # 0 /\ R.plan.id <= R.lastId
BY DEF Transaction, Relay, PlanType

LEMMA TransactionClean ==
  ASSUME NEW R, NEW h, Relay(R), Transaction(R, h), R.plan = NoPlan
  PROVE  Clean(R)
<1>1. \A f \in Seats : ~IsTarget(R, f)
  BY DEF IsTarget, NoPlan, NoTargets
<1>2. \A f \in Seats : R.cont[f] = <<>>
  BY <1>1 DEF Transaction
<1>3. R.cont \in [Seats -> Seq(Record)]
  BY DEF Relay
<1>4. R.cont = [f \in Seats |-> <<>>]
  BY <1>2, <1>3
<1>. QED  BY <1>4 DEF Clean, Transaction

\* Whatever became of the last, the cache and the transaction, once the transaction is over.
LEMMA CleanGood ==
  ASSUME NEW R, NEW H, NEW q, NEW h, NEW S,
         Types(S, H, q, h), History(h), Rising(q, h), Paired(q), Staged(H, q, h), Clean(S),
         \A i \in 1..Len(q) : q[i].t = "env" => S.last < q[i].n,
         Received(S, q, h), Begun(R, H, q), Quiet(R, S), R.lastId <= S.lastId, R.lastId \in Nat,
         S.floor <= S.last, S.last <= Len(h), \A f \in Seats : S.peers[f].floor <= S.floor,
         Cached(S, h)
  PROVE  Good(S, H, q, h)
<1>1. \A f \in Seats : ~IsTarget(S, f)
  BY DEF Clean, IsTarget, NoPlan, NoTargets
<1>2. Transaction(S, h)
  BY <1>1 DEF Transaction, Clean, NoPlan
<1>3. Ahead(S, H, q)
  <2>1. S.begin.cut = 0 /\ S.last \in Nat
    BY DEF Clean, NoBegin, Types, Relay
  <2>2. \A i \in 1..Len(q) : q[i].t = "end" => 0 < q[i].cut
    BY DEF Rising
  <2>3. H.staged # NoSnap => 0 < H.staged.cut
    BY DEF Staged
  <2>. QED  BY <2>1, <2>2, <2>3 DEF Ahead
<1>4. \A id, phase : Known(R, id, phase) /\ id \in Positive => Known(S, id, phase)
  BY DEF Known, Clean, NoPlan, Types, Relay, Positive
<1>5. Begun(S, H, q)
  <2>1. \A i \in 1..Len(S.outHost) : S.outHost[i].t = "plan" => Known(S, S.outHost[i].id, S.outHost[i].phase)
    <3>. SUFFICES ASSUME NEW i \in 1..Len(S.outHost), S.outHost[i].t = "plan"
                  PROVE  Known(S, S.outHost[i].id, S.outHost[i].phase)
      OBVIOUS
    <3>1. S.outHost[i].id \in Positive
      <4>1. S.outHost[i] \in RelayMessage
        BY DEF Types, Relay
      <4>. QED  BY <4>1 DEF RelayMessage
    <3>2. Known(R, S.outHost[i].id, S.outHost[i].phase)
      BY DEF Quiet, Begun
    <3>. QED  BY <3>1, <3>2, <1>4
  <2>2. H.plan # 0 => Known(S, H.plan, H.phase)
    BY <1>4 DEF Begun, Types, HostType, Positive
  <2>3. \A i \in 1..Len(q) : q[i].t = "end" => Known(S, q[i].id, q[i].phase)
    BY <1>4 DEF Begun, Types, HostMessage, Positive
  <2>. QED  BY <2>1, <2>2, <2>3 DEF Begun
<1>6. Later(S, H, q)
  BY <1>1 DEF Later
<1>. QED  BY <1>2, <1>3, <1>5, <1>6 DEF Good

LEMMA EndedGood ==
  ASSUME NEW R, NEW H, NEW q, NEW h, NEW S, Good(R, H, q, h), Ended(R, S)
  PROVE  Good(S, H, q, h)
<1>1. /\ Types(S, H, q, h) /\ Clean(S) /\ Quiet(R, S) /\ R.lastId <= S.lastId /\ R.lastId \in Nat
      /\ S.floor <= S.last /\ S.last <= Len(h)
  BY DEF Good, Types, Ended, Transaction, Relay
<1>2. \A f \in Seats : S.peers[f].floor <= S.floor
  BY DEF Good, Ended, Transaction
<1>3. (\A i \in 1..Len(q) : q[i].t = "env" => S.last < q[i].n) /\ Received(S, q, h) /\ Cached(S, h)
  BY DEF Good, Ended, Ahead, Received, Cached
<1>4. History(h) /\ Rising(q, h) /\ Paired(q) /\ Staged(H, q, h) /\ Begun(R, H, q)
  BY DEF Good
<1>. QED  BY <1>1, <1>2, <1>3, <1>4, CleanGood

LEMMA Tails ==
  ASSUME NEW q \in Seq(HostMessage), NEW h, q # <<>>, Rising(q, h), Paired(q)
  PROVE  LET p == Tail(q)
         IN  /\ p \in Seq(HostMessage) /\ Len(p) = Len(q) - 1 /\ Len(q) \in Nat
             /\ \A i \in 1..Len(p) : p[i] = q[i + 1] /\ i + 1 \in 1..Len(q)
             /\ \A i \in 1..Len(q) : i # 1 => i - 1 \in 1..Len(p) /\ q[i] = p[i - 1]
             /\ Rising(p, h) /\ Paired(p)
<1>. DEFINE p == Tail(q)
<1>1. /\ p \in Seq(HostMessage) /\ Len(p) = Len(q) - 1 /\ Len(q) \in Nat
      /\ \A i \in 1..Len(p) : p[i] = q[i + 1] /\ i + 1 \in 1..Len(q)
      /\ \A i \in 1..Len(q) : i # 1 => i - 1 \in 1..Len(p) /\ q[i] = p[i - 1]
  OBVIOUS
<1>. HIDE DEF p
<1>2. Rising(p, h)
  BY <1>1 DEF Rising, Serial
<1>3. Paired(p)
  <2>1. ASSUME NEW i \in 1..Len(p), p[i].t = "begin"
        PROVE  i + 1 \in 1..Len(p) /\ Pair(p[i], p[i + 1])
    <3>1. i + 1 \in 1..Len(q) /\ q[i + 1].t = "begin"
      BY <1>1, <2>1
    <3>2. i + 1 + 1 \in 1..Len(q) /\ Pair(q[i + 1], q[i + 1 + 1])
      BY <3>1 DEF Paired
    <3>3. i + 1 \in 1..Len(p)
      BY <1>1, <3>2
    <3>. QED  BY <1>1, <3>2, <3>3
  <2>2. ASSUME NEW i \in 1..Len(p), p[i].t = "end", i # 1
        PROVE  Pair(p[i - 1], p[i])
    <3>1. i - 1 \in 1..Len(p) /\ p[i - 1] = q[i] /\ p[i] = q[i + 1] /\ i + 1 \in 1..Len(q)
      BY <1>1, <2>2
    <3>2. Pair(q[i + 1 - 1], q[i + 1])
      BY <2>2, <3>1 DEF Paired
    <3>. QED  BY <3>1, <3>2
  <2>. QED  BY <2>1, <2>2 DEF Paired
<1>. QED  BY <1>1, <1>2, <1>3 DEF p

LEMMA BegunTail ==
  ASSUME NEW R, NEW S, NEW H, NEW q, NEW p, Begun(R, H, q),
         S.plan = R.plan, S.lastId = R.lastId, S.outHost = R.outHost,
         \A i \in 1..Len(p) : p[i] = q[i + 1] /\ i + 1 \in 1..Len(q)
  PROVE  Begun(S, H, p)
<1>1. \A id, phase : Known(R, id, phase) => Known(S, id, phase)
  BY DEF Known
<1>2. \A i \in 1..Len(p) : p[i].t = "end" => Known(S, p[i].id, p[i].phase) /\ p[i].id # 0
  BY <1>1 DEF Begun
<1>3. \A i \in 1..Len(S.outHost) : S.outHost[i].t = "plan" => Known(S, S.outHost[i].id, S.outHost[i].phase)
  BY <1>1 DEF Begun
<1>4. H.plan # 0 => Known(S, H.plan, H.phase)
  BY <1>1 DEF Begun
<1>. QED  BY <1>2, <1>3, <1>4 DEF Begun

LEMMA TailGood ==
  ASSUME NEW R, NEW H, NEW q, NEW h, Good(R, H, q, h), q # <<>>, q[1].t # "env", ~Partner(R, q[1])
  PROVE  Good(R, H, Tail(q), h)
<1>. DEFINE p == Tail(q)
<1>1. /\ p \in Seq(HostMessage) /\ Len(p) = Len(q) - 1 /\ Len(q) \in Nat
      /\ \A i \in 1..Len(p) : p[i] = q[i + 1] /\ i + 1 \in 1..Len(q)
      /\ \A i \in 1..Len(q) : i # 1 => i - 1 \in 1..Len(p) /\ q[i] = p[i - 1]
      /\ Rising(p, h) /\ Paired(p)
  BY Tails DEF Good, Types
<1>. HIDE DEF p
<1>2. Types(R, H, p, h)
  BY <1>1 DEF Good, Types
<1>3. Staged(H, p, h) /\ Begun(R, H, p) /\ Later(R, H, p)
  <2>1. Staged(H, p, h)
    BY <1>1 DEF Good, Staged
  <2>2. Begun(R, H, p)
    BY <1>1, BegunTail DEF Good
  <2>3. Later(R, H, p)
    BY <1>1 DEF Good, Later
  <2>. QED  BY <2>1, <2>2, <2>3
<1>4. Ahead(R, H, p)
  BY <1>1 DEF Good, Ahead
<1>5. Received(R, p, h)
  <2>1. ASSUME NEW n \in 1..Len(h), h[n].at = n, ~(n <= R.last)
        PROVE  \E i \in 1..Len(p) : p[i].t = "env" /\ p[i].n = n
    <3>1. PICK i \in 1..Len(q) : q[i].t = "env" /\ q[i].n = n
      BY <2>1 DEF Good, Received
    <3>. QED  BY <1>1, <3>1
  <2>. QED  BY <2>1 DEF Received
<1>. QED  BY <1>1, <1>2, <1>3, <1>4, <1>5 DEF Good, p

-----------------------------------------------------------------------------
(* An update of the host's world.                                          *)

LEMMA Disturbs ==
  ASSUME NEW R, Relay(R), NEW n \in Nat, R.plan = NoPlan => Clean(R)
  PROVE  LET S == Disturb(R, n)
         IN  \/ Ended(R, S)
             \/ /\ Relay(S)
                /\ S.plan = R.plan /\ S.begin = R.begin /\ S.snap = R.snap /\ S.cont = R.cont
                /\ S.peers = R.peers /\ S.floor = R.floor /\ S.last = R.last /\ S.cache = R.cache
                /\ S.lastId = R.lastId /\ S.outHost = R.outHost
                /\ R.plan.phase = "Checkpoint" => S.changed = R.changed
<1>. DEFINE T == [R EXCEPT !.changed = TRUE]
<1>1. DOMAIN R = RelayFields
  BY DEF Relay
<1>2. /\ DOMAIN T = RelayFields /\ T.plan = R.plan /\ T.begin = R.begin /\ T.snap = R.snap
      /\ T.changed = TRUE /\ T.cont = R.cont /\ T.peers = R.peers /\ T.floor = R.floor /\ T.last = R.last
      /\ T.cache = R.cache /\ T.lastId = R.lastId /\ T.nextConn = R.nextConn /\ T.outHost = R.outHost
  BY <1>1 DEF RelayFields
<1>3. \/ Disturb(R, n) = R
      \/ Disturb(R, n) = Finish(T, "NativeFailed")
      \/ Disturb(R, n) = T /\ R.plan.phase # "Checkpoint"
  BY Zenon DEF Disturb
<1>. HIDE DEF T
<1>4. Relay(T)
  BY <1>2 DEF Relay
<1>5. CASE Disturb(R, n) = R
  BY <1>5
<1>6. CASE Disturb(R, n) = Finish(T, "NativeFailed")
  <2>1. Ended(T, Finish(T, "NativeFailed"))
    BY <1>2, <1>4, Ends DEF Clean, Reasons
  <2>2. Ended(R, Finish(T, "NativeFailed"))
    BY <2>1, <1>2 DEF Ended, Quiet
  <2>. QED  BY <1>6, <2>2
<1>7. CASE Disturb(R, n) = T /\ R.plan.phase # "Checkpoint"
  BY <1>2, <1>4, <1>7
<1>. QED  BY <1>3, <1>5, <1>6, <1>7

LEMMA DeliversEnded ==
  ASSUME NEW R, NEW S, Relay(R), Ended(R, S), NEW n \in Nat
  PROVE  Ended(R, Deliver(S, n))
<1>. DEFINE T == Deliver(S, n)
<1>1. \A f \in Seats : ~Buffered(S, f)
  BY DEF Ended, Clean, Buffered
<1>2. /\ Relay(T)
      /\ T.plan = S.plan /\ T.begin = S.begin /\ T.snap = S.snap
      /\ T.peers = S.peers /\ T.floor = S.floor /\ T.last = S.last /\ T.cache = S.cache
      /\ T.lastId = S.lastId /\ T.outHost = S.outHost
      /\ \A f \in Seats : T.cont[f] = S.cont[f]
      /\ T.cont \in [Seats -> Seq(Record)]
  BY <1>1, Delivers DEF Ended
<1>. HIDE DEF T
<1>3. T.cont = S.cont
  BY <1>2 DEF Ended, Relay
<1>4. Clean(T)
  BY <1>2, <1>3 DEF Ended, Clean
<1>. QED  BY <1>2, <1>4 DEF Ended, Quiet, T

\* The transaction goes on with the update, in the continuations or past them.
Carried(R, S, n) ==
  /\ Relay(S)
  /\ S.plan = R.plan /\ S.begin = R.begin /\ S.snap = R.snap
  /\ S.peers = R.peers /\ S.floor = R.floor /\ S.last = n /\ S.cache = n
  /\ S.lastId = R.lastId /\ S.outHost = R.outHost
  /\ R.plan.phase = "Checkpoint" => S.changed = R.changed
  /\ \A f \in Seats : S.cont[f] = IF n > R.peers[f].floor /\ R.peers[f].conn # 0 /\ Buffered(R, f)
                                  THEN Append(R.cont[f], Envelope(R, f, n)) ELSE R.cont[f]

Dropped(R, S, n) ==
  /\ Relay(S) /\ Clean(S) /\ Quiet(R, S)
  /\ S.floor = R.floor /\ S.last = n /\ S.cache = n /\ S.lastId = R.lastId
  /\ \A f \in Seats : S.peers[f].floor = R.peers[f].floor

LEMMA ForwardsCached ==
  ASSUME NEW R, Relay(R), NEW n \in Nat, R.last < n, R.plan = NoPlan => Clean(R)
  PROVE  LET S == Forward(Disturb([R EXCEPT !.cache = n, !.last = Larger(R.last, n)], n), n)
         IN  Carried(R, S, n) \/ Dropped(R, S, n)
<1>. DEFINE C == [R EXCEPT !.cache = n, !.last = Larger(R.last, n)]
            D == Disturb(C, n)
            S == Forward(D, n)
<1>1. DOMAIN R = RelayFields /\ Larger(R.last, n) = n
  BY DEF Relay, Larger
<1>2. /\ DOMAIN C = RelayFields /\ C.plan = R.plan /\ C.begin = R.begin /\ C.snap = R.snap
      /\ C.changed = R.changed /\ C.cont = R.cont /\ C.peers = R.peers /\ C.floor = R.floor /\ C.last = n
      /\ C.cache = n /\ C.lastId = R.lastId /\ C.nextConn = R.nextConn /\ C.outHost = R.outHost
  BY <1>1 DEF RelayFields
<1>. HIDE DEF C
<1>3. Relay(C) /\ (C.plan = NoPlan => Clean(C))
  BY <1>2 DEF Relay, Clean
<1>4. S = Deliver(D, n) \/ S = Deliver(Finish(D, "Overflow"), n)
  BY Zenon DEF Forward
<1>5. \A T : Ended(C, T) => Dropped(R, T, n)
  BY <1>2 DEF Ended, Dropped, Quiet
<1>6. CASE Ended(C, D)
  <2>1. Ended(D, Finish(D, "Overflow"))
    BY <1>6, Ends DEF Ended, Reasons
  <2>2. Ended(C, Finish(D, "Overflow"))
    BY <1>6, <2>1, EndedAgain
  <2>3. Ended(C, S)
    BY <1>3, <1>4, <1>6, <2>2, DeliversEnded
  <2>. QED  BY <2>3, <1>5 DEF C
<1>7. CASE ~Ended(C, D)
  <2>1. /\ Relay(D)
        /\ D.plan = C.plan /\ D.begin = C.begin /\ D.snap = C.snap /\ D.cont = C.cont
        /\ D.peers = C.peers /\ D.floor = C.floor /\ D.last = C.last /\ D.cache = C.cache
        /\ D.lastId = C.lastId /\ D.outHost = C.outHost
        /\ C.plan.phase = "Checkpoint" => D.changed = C.changed
    BY <1>3, <1>7, Disturbs
  <2>. HIDE DEF D
  <2>2. CASE S = Deliver(D, n)
    <3>1. \A f \in Seats : /\ Reaches(D, f, n) <=> n > R.peers[f].floor /\ R.peers[f].conn # 0
                           /\ Buffered(D, f) <=> Buffered(R, f)
                           /\ Envelope(D, f, n) = Envelope(R, f, n)
      BY <1>2, <2>1 DEF Reaches, Buffered, IsTarget, Envelope
    <3>2. LET T == Deliver(D, n)
          IN  /\ Relay(T)
              /\ T.plan = D.plan /\ T.begin = D.begin /\ T.snap = D.snap /\ T.changed = D.changed
              /\ T.peers = D.peers /\ T.floor = D.floor /\ T.last = D.last /\ T.cache = D.cache
              /\ T.lastId = D.lastId /\ T.outHost = D.outHost
              /\ \A f \in Seats : T.cont[f] = IF Reaches(D, f, n) /\ Buffered(D, f)
                                              THEN Append(D.cont[f], Envelope(D, f, n)) ELSE D.cont[f]
      BY <2>1, Delivers
    <3>3. Carried(R, Deliver(D, n), n)
      BY <1>2, <2>1, <3>1, <3>2 DEF Carried
    <3>. QED  BY <2>2, <3>3 DEF C, D
  <2>3. CASE S = Deliver(Finish(D, "Overflow"), n)
    <3>1. Ended(D, Finish(D, "Overflow"))
      BY <1>2, <1>3, <2>1, Ends DEF Clean, Reasons
    <3>2. Ended(C, Finish(D, "Overflow"))
      BY <2>1, <3>1 DEF Ended, Quiet
    <3>3. Ended(C, S)
      BY <1>3, <2>3, <3>2, DeliversEnded
    <3>. QED  BY <3>3, <1>5 DEF C, D
  <2>. QED  BY <1>4, <2>2, <2>3
<1>. QED  BY <1>6, <1>7

\* What an update at the head of the channel is to the relay.
LEMMA HeadUpdate ==
  ASSUME NEW R, NEW H, NEW q, NEW h, Good(R, H, q, h), q # <<>>, q[1].t = "env"
  PROVE  LET n == q[1].n
             p == Tail(q)
         IN  /\ n \in Nat /\ Update(h, n) /\ R.last < n /\ R.begin.cut <= R.last
             /\ \A i \in 1..Len(p) : p[i].t = "env" => n < p[i].n
             /\ \A i \in 1..Len(p) : p[i].t = "end" => R.begin.cut < p[i].cut
             /\ \A m \in 1..Len(h) : h[m].at = m =>
                  m <= n \/ \E i \in 1..Len(p) : p[i].t = "env" /\ p[i].n = m
<1>. DEFINE n == q[1].n
            p == Tail(q)
<1>1. /\ p \in Seq(HostMessage) /\ Len(p) = Len(q) - 1 /\ Len(q) \in Nat
      /\ \A i \in 1..Len(p) : p[i] = q[i + 1] /\ i + 1 \in 1..Len(q)
      /\ \A i \in 1..Len(q) : i # 1 => i - 1 \in 1..Len(p) /\ q[i] = p[i - 1]
      /\ q \in Seq(HostMessage) /\ 1 \in 1..Len(q)
  BY Tails DEF Good, Types
<1>. HIDE DEF p
<1>2. n \in Nat
  BY <1>1 DEF HostMessage
<1>3. Update(h, n) /\ R.last < n
  BY <1>1 DEF Good, Rising, Ahead
<1>4. R.begin.cut <= R.last
  BY DEF Good, Ahead, Partner
<1>5. \A i \in 1..Len(p) : p[i].t = "env" => n < p[i].n
  BY <1>1 DEF Good, Rising, Serial
<1>6. \A i \in 1..Len(p) : p[i].t = "end" => R.begin.cut < p[i].cut
  BY <1>1 DEF Good, Ahead
<1>7. ASSUME NEW m \in 1..Len(h), h[m].at = m, ~(m <= n)
      PROVE  \E i \in 1..Len(p) : p[i].t = "env" /\ p[i].n = m
  <2>1. ~(m <= R.last)
    BY <1>2, <1>3, <1>7 DEF Good, Types, Relay
  <2>2. PICK i \in 1..Len(q) : q[i].t = "env" /\ q[i].n = m
    BY <1>7, <2>1 DEF Good, Received
  <2>3. i # 1
    BY <1>2, <1>7, <2>2
  <2>. QED  BY <1>1, <2>2, <2>3
<1>. QED  BY <1>2, <1>3, <1>4, <1>5, <1>6, <1>7 DEF p

LEMMA DroppedGood ==
  ASSUME NEW R, NEW H, NEW q, NEW h, NEW S,
         Good(R, H, q, h), q # <<>>, q[1].t = "env", Dropped(R, S, q[1].n)
  PROVE  Good(S, H, Tail(q), h)
<1>. DEFINE n == q[1].n
            p == Tail(q)
<1>1. /\ p \in Seq(HostMessage) /\ Rising(p, h) /\ Paired(p)
      /\ \A i \in 1..Len(p) : p[i] = q[i + 1] /\ i + 1 \in 1..Len(q)
  BY Tails DEF Good, Types
<1>2. /\ n \in Nat /\ Update(h, n) /\ R.last < n /\ R.begin.cut <= R.last
      /\ \A i \in 1..Len(p) : p[i].t = "env" => n < p[i].n
      /\ \A i \in 1..Len(p) : p[i].t = "end" => R.begin.cut < p[i].cut
      /\ \A m \in 1..Len(h) : h[m].at = m =>
           m <= n \/ \E i \in 1..Len(p) : p[i].t = "env" /\ p[i].n = m
  BY HeadUpdate
<1>3. S.last = n /\ S.cache = n
  BY DEF Dropped
<1>. HIDE DEF p, n
<1>4. Types(S, H, p, h) /\ Clean(S) /\ Quiet(R, S)
  BY <1>1 DEF Good, Types, Dropped
<1>5. Staged(H, p, h) /\ Begun(R, H, p)
  BY <1>1 DEF Good, Staged, Begun
<1>6. Received(S, p, h) /\ Cached(S, h)
  BY <1>2, <1>3 DEF Received, Cached, Update
<1>7. R.lastId <= S.lastId /\ R.lastId \in Nat /\ S.floor <= S.last /\ S.last <= Len(h)
  BY <1>2, <1>3 DEF Good, Types, Relay, Dropped, Transaction, Update
<1>8. \A f \in Seats : S.peers[f].floor <= S.floor
  BY DEF Good, Transaction, Dropped
<1>9. \A i \in 1..Len(p) : p[i].t = "env" => S.last < p[i].n
  BY <1>2, <1>3
<1>10. History(h)
  BY DEF Good
<1>. QED  BY <1>1, <1>4, <1>5, <1>6, <1>7, <1>8, <1>9, <1>10, CleanGood DEF p

LEMMA CarriedGood ==
  ASSUME NEW R, NEW H, NEW q, NEW h, NEW S,
         Good(R, H, q, h), q # <<>>, q[1].t = "env", Carried(R, S, q[1].n)
  PROVE  Good(S, H, Tail(q), h)
<1>. DEFINE n == q[1].n
            p == Tail(q)
<1>1. /\ p \in Seq(HostMessage) /\ Rising(p, h) /\ Paired(p)
      /\ \A i \in 1..Len(p) : p[i] = q[i + 1] /\ i + 1 \in 1..Len(q)
  BY Tails DEF Good, Types
<1>2. /\ n \in Nat /\ Update(h, n) /\ R.last < n /\ R.begin.cut <= R.last
      /\ \A i \in 1..Len(p) : p[i].t = "env" => n < p[i].n
      /\ \A i \in 1..Len(p) : p[i].t = "end" => R.begin.cut < p[i].cut
      /\ \A m \in 1..Len(h) : h[m].at = m =>
           m <= n \/ \E i \in 1..Len(p) : p[i].t = "env" /\ p[i].n = m
  BY HeadUpdate
<1>3. S.last = n /\ S.cache = n /\ S.begin = R.begin /\ S.plan = R.plan /\ S.snap = R.snap
  BY DEF Carried
<1>4. \A f \in Seats : S.cont[f] = IF n > R.peers[f].floor /\ R.peers[f].conn # 0 /\ Buffered(R, f)
                                   THEN Append(R.cont[f], Envelope(R, f, n)) ELSE R.cont[f]
  BY DEF Carried
<1>5. Relay(R) /\ R.begin.cut \in Nat /\ R.last \in Nat
  BY DEF Good, Types, Relay
<1>. HIDE DEF p, n
<1>6. Types(S, H, p, h)
  BY <1>1 DEF Good, Types, Carried
<1>7. Staged(H, p, h)
  BY <1>1 DEF Good, Staged
<1>8. Begun(S, H, p)
  BY <1>1, BegunTail DEF Good, Carried
<1>9. Received(S, p, h) /\ Cached(S, h)
  BY <1>2, <1>3 DEF Received, Cached, Update
<1>10. Ahead(S, H, p)
  <2>1. S.begin.cut <= S.last
    BY <1>2, <1>3, <1>5
  <2>2. H.staged # NoSnap => S.begin.cut < H.staged.cut
    BY <1>3 DEF Good, Ahead
  <2>. QED  BY <2>1, <2>2, <1>2, <1>3 DEF Ahead
<1>11. \A f \in Seats : S.peers[f] = R.peers[f] /\ (IsTarget(S, f) <=> IsTarget(R, f))
  BY DEF Carried, IsTarget
<1>12. \A f \in Seats : IsTarget(R, f) => R.plan # NoPlan /\ R.peers[f].conn # 0
  BY DEF Good, Transaction, Fenced, IsTarget, NoPlan, NoTargets
<1>13. \A f \in Seats : R.peers[f].floor < n /\ R.peers[f].floor \in Nat /\ R.cont[f] \in Seq(Record)
  BY <1>2 DEF Good, Types, Transaction, Relay, PeerType
<1>14. \A f \in Seats : /\ IF IsTarget(S, f) THEN Fenced(S, f) /\ Kept(S, f) ELSE S.cont[f] = <<>>
                        /\ IsTarget(S, f) /\ S.snap = NoSnap => S.cont[f] # <<>>
  <2>. SUFFICES ASSUME NEW f \in Seats
                PROVE  /\ IF IsTarget(S, f) THEN Fenced(S, f) /\ Kept(S, f) ELSE S.cont[f] = <<>>
                       /\ IsTarget(S, f) /\ S.snap = NoSnap => S.cont[f] # <<>>
    OBVIOUS
  <2>1. IF IsTarget(R, f) THEN Fenced(R, f) /\ Kept(R, f) ELSE R.cont[f] = <<>>
    BY DEF Good, Transaction
  <2>2. CASE ~IsTarget(R, f)
    BY <1>4, <1>11, <2>1, <2>2 DEF Buffered
  <2>3. CASE IsTarget(R, f) /\ R.snap = NoSnap
    <3>1. Buffered(R, f) /\ n > R.peers[f].floor /\ R.peers[f].conn # 0
      BY <1>12, <1>13, <1>2, <2>1, <2>3 DEF Buffered, Fenced, NoSnap
    <3>2. S.cont[f] = Append(R.cont[f], Envelope(R, f, n))
      BY <1>4, <3>1
    <3>3. S.cont[f][Len(S.cont[f])].n = n /\ S.cont[f] # <<>>
      BY <3>2, <1>13 DEF Envelope
    <3>. QED  BY <3>3, <2>1, <2>3, <1>3, <1>11 DEF Fenced, Kept
  <2>4. CASE IsTarget(R, f) /\ R.snap # NoSnap
    <3>1. ~Buffered(R, f) /\ R.cont[f] = <<>>
      BY <2>1, <2>4 DEF Kept, Buffered
    <3>2. S.cont[f] = <<>>
      BY <1>4, <3>1
    <3>. QED  BY <3>2, <2>1, <2>4, <1>3, <1>11 DEF Fenced, Kept
  <2>. QED  BY <2>2, <2>3, <2>4
<1>15. \A f \in Seats : \A i \in 1..Len(S.cont[f]) : Update(h, S.cont[f][i].n) /\ S.cont[f][i].n <= S.last
  <2>. SUFFICES ASSUME NEW f \in Seats, NEW i \in 1..Len(S.cont[f])
                PROVE  Update(h, S.cont[f][i].n) /\ S.cont[f][i].n <= n
    BY <1>3
  <2>1. \A j \in 1..Len(R.cont[f]) : Update(h, R.cont[f][j].n) /\ R.cont[f][j].n <= n
    <3>1. \A j \in 1..Len(R.cont[f]) : Update(h, R.cont[f][j].n) /\ R.cont[f][j].n <= R.last
      BY DEF Good, Transaction
    <3>2. R.last \in Nat
      BY <1>5 DEF Relay
    <3>. QED  BY <3>1, <3>2, <1>2 DEF Update
  <2>2. Envelope(R, f, n).n = n
    BY DEF Envelope
  <2>3. CASE S.cont[f] = R.cont[f]
    BY <2>1, <2>3
  <2>4. CASE S.cont[f] = Append(R.cont[f], Envelope(R, f, n))
    BY <1>2, <1>13, <2>1, <2>2, <2>4
  <2>. QED  BY <1>4, <2>3, <2>4
<1>16. Transaction(S, h)
  <2>1. /\ S.plan = NoPlan => S.begin = NoBegin /\ S.snap = NoSnap
        /\ S.plan # NoPlan => S.plan.id \in 1..S.lastId /\ \E f \in Seats : IsTarget(S, f)
        /\ S.snap # NoSnap => S.begin.cut # 0 /\ S.begin.cut = S.snap.cut /\ S.begin.phase = S.plan.phase
        /\ S.plan.phase = "Checkpoint" => ~S.changed
    BY <1>11 DEF Good, Transaction, Carried
  <2>2. S.floor <= S.last /\ S.last <= Len(h)
    BY <1>2, <1>3 DEF Good, Types, Relay, Transaction, Carried, Update
  <2>3. \A f \in Seats : S.peers[f].floor <= S.floor
    BY <1>11 DEF Good, Transaction, Carried
  <2>4. \A f \in Seats : IF IsTarget(S, f) THEN Fenced(S, f) /\ Kept(S, f) ELSE S.cont[f] = <<>>
    BY <1>14
  <2>. QED  BY <2>1, <2>2, <2>3, <2>4, <1>15 DEF Transaction
<1>17. Later(S, H, p)
  <2>1. \A f \in Seats : ~(IsTarget(S, f) /\ S.snap = NoSnap /\ S.cont[f] = <<>>)
    BY <1>14
  <2>. QED  BY <2>1 DEF Later
<1>. QED  BY <1>1, <1>6, <1>7, <1>8, <1>9, <1>10, <1>16, <1>17 DEF Good, p

LEMMA EnvelopeGood ==
  ASSUME NEW R, NEW H, NEW q, Good(R, H, q, hist), q # <<>>, q[1].t = "env"
  PROVE  Good(IF q[1].n <= SourceFloor(R) THEN R ELSE AdmitEnvelope(R, q[1].n), H, Tail(q), hist)
<1>. DEFINE n == q[1].n
            left == IF R.plan # NoPlan /\ hist[n].epoch # R.plan.epoch THEN Finish(R, "RoomChanged") ELSE R
            S == Forward(Disturb([left EXCEPT !.cache = n, !.last = Larger(left.last, n)], n), n)
<1>1. n \in Nat /\ R.last < n /\ R.begin.cut <= R.last
  BY HeadUpdate
<1>2. ~(n <= SourceFloor(R))
  BY <1>1 DEF SourceFloor, Larger, Good, Types, Transaction, Relay
<1>3. AdmitEnvelope(R, n) = S
  BY Zenon DEF AdmitEnvelope
<1>4. Relay(R) /\ (R.plan = NoPlan => Clean(R))
  BY TransactionClean DEF Good, Types
<1>5. left = R \/ Ended(R, left)
  BY <1>4, Ends DEF Reasons
<1>6. Good(left, H, q, hist) /\ left.last = R.last
  BY <1>5, EndedGood DEF Ended
<1>7. Relay(left) /\ (left.plan = NoPlan => Clean(left))
  BY <1>6, TransactionClean DEF Good, Types
<1>. HIDE DEF left
<1>8. Carried(left, S, n) \/ Dropped(left, S, n)
  BY <1>1, <1>6, <1>7, ForwardsCached
<1>9. Good(S, H, Tail(q), hist)
  BY <1>6, <1>8, CarriedGood, DroppedGood
<1>. QED  BY <1>2, <1>3, <1>9

-----------------------------------------------------------------------------
(* Requests, acknowledgements and peers that come and go.                  *)

LEMMA SameGood ==
  ASSUME NEW R, NEW H, NEW q, NEW h, NEW S, Good(R, H, q, h), Relay(S), Quiet(R, S),
         S.plan = R.plan, S.begin = R.begin, S.snap = R.snap, S.changed = R.changed, S.cont = R.cont,
         S.floor = R.floor, S.last = R.last, S.cache = R.cache, S.lastId = R.lastId,
         \A f \in Seats : S.peers[f].floor <= S.floor /\ (IsTarget(R, f) => S.peers[f] = R.peers[f])
  PROVE  Good(S, H, q, h)
<1>1. Types(S, H, q, h)
  BY DEF Good, Types
<1>2. Ahead(S, H, q) /\ Received(S, q, h) /\ Cached(S, h)
  BY DEF Good, Ahead, Partner, Received, Cached
<1>3. \A id, phase : Known(R, id, phase) => Known(S, id, phase)
  BY DEF Known
<1>4. Begun(S, H, q)
  <2>1. \A i \in 1..Len(S.outHost) : S.outHost[i].t = "plan" => Known(S, S.outHost[i].id, S.outHost[i].phase)
    BY <1>3 DEF Good, Begun, Quiet
  <2>. QED  BY <2>1, <1>3 DEF Good, Begun
<1>5. Later(S, H, q)
  BY DEF Good, Later, IsTarget
<1>6. Transaction(S, h)
  <2>1. \A f \in Seats : IF IsTarget(S, f) THEN Fenced(S, f) /\ Kept(S, f) ELSE S.cont[f] = <<>>
    BY DEF Good, Transaction, IsTarget, Fenced, Kept
  <2>. QED  BY <2>1 DEF Good, Transaction, IsTarget
<1>. QED  BY <1>1, <1>2, <1>4, <1>5, <1>6 DEF Good

\* A phase that begins with empty continuations, which no snapshot in flight belongs to.
LEMMA PhaseGood ==
  ASSUME NEW R, NEW H, NEW q, NEW h, NEW S, Good(R, H, q, h), Relay(S), R.plan = NoPlan \/ R.snap # NoSnap,
         S.plan # NoPlan, S.plan.id \in 1..S.lastId, \E f \in Seats : IsTarget(S, f),
         S.begin = NoBegin \/ S.begin = R.begin, S.snap = NoSnap, ~S.changed, S.cont = [f \in Seats |-> <<>>],
         S.floor = R.floor, S.last = R.last, S.cache = R.cache, R.lastId <= S.lastId,
         \A f \in Seats : S.peers[f].floor = R.peers[f].floor,
         \A f \in Seats : IsTarget(S, f) => S.peers[f].conn # 0 /\ S.peers[f].quarantined,
         \/ S.plan.id = R.plan.id /\ R.plan.phase = "Bootstrap" /\ S.plan.phase = "Checkpoint"
         \/ R.lastId < S.plan.id,
         S.outHost = Append(R.outHost, [t |-> "plan", id |-> S.plan.id, phase |-> S.plan.phase])
  PROVE  Good(S, H, q, h)
<1>1. Types(S, H, q, h)
  BY DEF Good, Types
<1>2. Relay(R) /\ R.lastId \in Nat /\ R.last \in Nat /\ R.begin.cut \in Nat
  BY DEF Good, Types, Relay
<1>3. Received(S, q, h) /\ Cached(S, h)
  BY DEF Good, Received, Cached
<1>4. \A m : ~Partner(R, m)
  BY DEF Partner
<1>5. Ahead(S, H, q)
  <2>1. CASE S.begin = R.begin
    BY <2>1, <1>4 DEF Good, Ahead
  <2>2. CASE S.begin = NoBegin
    <3>1. \A i \in 1..Len(q) : q[i].t = "env" => S.last < q[i].n
      BY DEF Good, Ahead
    <3>2. \A i \in 1..Len(q) : q[i].t = "end" => 0 < q[i].cut
      BY DEF Good, Rising
    <3>3. H.staged # NoSnap => 0 < H.staged.cut
      BY DEF Good, Staged
    <3>. QED  BY <2>2, <1>2, <3>1, <3>2, <3>3 DEF Ahead, NoBegin
  <2>. QED  BY <2>1, <2>2
\* What the host knows of is another phase, and stays known.
<1>6. \A id \in Nat, phase \in Phases :
        Known(R, id, phase) => Known(S, id, phase) /\ ~(id = S.plan.id /\ phase = S.plan.phase)
  <2>1. S.plan.id \in Nat /\ S.lastId \in Nat
    BY DEF Relay, PlanType
  <2>2. CASE S.plan.id = R.plan.id /\ R.plan.phase = "Bootstrap" /\ S.plan.phase = "Checkpoint"
    BY <1>2, <2>1, <2>2 DEF Known
  <2>3. CASE R.lastId < S.plan.id
    BY <1>2, <2>1, <2>3 DEF Known
  <2>. QED  BY <2>2, <2>3
<1>7. Begun(S, H, q)
  <2>1. \A i \in 1..Len(S.outHost) : S.outHost[i].t = "plan" => Known(S, S.outHost[i].id, S.outHost[i].phase)
    <3>. SUFFICES ASSUME NEW i \in 1..Len(S.outHost), S.outHost[i].t = "plan"
                  PROVE  Known(S, S.outHost[i].id, S.outHost[i].phase)
      OBVIOUS
    <3>1. CASE i \in 1..Len(R.outHost)
      <4>1. R.outHost[i] = S.outHost[i]
        BY <1>2, <3>1 DEF Relay
      <4>2. R.outHost[i] \in RelayMessage /\ R.outHost[i].t = "plan"
        BY <1>2, <3>1, <4>1 DEF Relay
      <4>3. R.outHost[i].id \in Nat /\ R.outHost[i].phase \in Phases
        BY <4>2 DEF RelayMessage, Positive
      <4>4. Known(R, R.outHost[i].id, R.outHost[i].phase)
        BY <3>1, <4>1 DEF Good, Begun
      <4>. QED  BY <4>1, <4>3, <4>4, <1>6
    <3>2. CASE i \notin 1..Len(R.outHost)
      <4>1. S.outHost[i] = [t |-> "plan", id |-> S.plan.id, phase |-> S.plan.phase]
        BY <1>2, <3>2 DEF Relay
      <4>. QED  BY <4>1 DEF Known
    <3>. QED  BY <3>1, <3>2
  <2>2. H.plan # 0 => Known(S, H.plan, H.phase)
    BY <1>6 DEF Good, Begun, Types, HostType
  <2>3. \A i \in 1..Len(q) : q[i].t = "end" => Known(S, q[i].id, q[i].phase) /\ q[i].id # 0
    BY <1>6 DEF Good, Begun, Types, HostMessage
  <2>. QED  BY <2>1, <2>2, <2>3 DEF Begun
<1>8. Later(S, H, q)
  <2>1. \A i \in 1..Len(q) : q[i].t = "end" => ~(q[i].id = S.plan.id /\ q[i].phase = S.plan.phase)
    BY <1>6 DEF Good, Begun, Types, HostMessage
  <2>2. ~(H.plan = S.plan.id /\ H.phase = S.plan.phase)
    BY <1>6 DEF Good, Begun, Types, HostType
  <2>. QED  BY <2>1, <2>2 DEF Later
<1>9. Transaction(S, h)
  <2>1. S.floor <= S.last /\ S.last <= Len(h) /\ \A f \in Seats : S.peers[f].floor <= S.floor
    BY DEF Good, Transaction
  <2>2. \A f \in Seats : IF IsTarget(S, f) THEN Fenced(S, f) /\ Kept(S, f) ELSE S.cont[f] = <<>>
    BY DEF Fenced, Kept
  <2>. QED  BY <2>1, <2>2 DEF Transaction
<1>. QED  BY <1>1, <1>3, <1>5, <1>7, <1>8, <1>9 DEF Good

RequestType == [t : {"request"}, id : Positive, mask : (SUBSET Seats) \ {{}}, epoch : Nat, roster : Rosters]

LEMMA StartGood ==
  ASSUME NEW R, NEW H, NEW q, NEW h, Good(R, H, q, h), NEW m \in RequestType,
         R.plan = NoPlan, R.lastId < m.id, \A f \in m.mask : R.peers[f].conn # 0
  PROVE  Good(Start(R, m), H, q, h)
<1>. DEFINE peers == [f \in Seats |-> IF f \in m.mask THEN [R.peers[f] EXCEPT !.delivery = R.peers[f].delivery + 1]
                                     ELSE R.peers[f]]
            targets == [f \in Seats |-> IF f \in m.mask
                               THEN [conn |-> R.peers[f].conn, delivery |-> R.peers[f].delivery + 1]
                               ELSE NoTarget]
            plan == [id |-> m.id, phase |-> "Bootstrap", epoch |-> m.epoch, targets |-> targets]
            T == [R EXCEPT !.lastId = m.id, !.changed = FALSE, !.begin = NoBegin, !.snap = NoSnap, !.acks = {},
                           !.peers = peers, !.plan = plan]
            S == Publish(Fence(T))
<1>1. Start(R, m) = S
  BY Zenon DEF Start
<1>2. Relay(R) /\ DOMAIN R = RelayFields /\ Clean(R) /\ R.lastId \in Nat
  BY TransactionClean DEF Good, Types, Relay
<1>3. /\ m.id \in Nat /\ m.id # 0 /\ m.epoch \in Nat /\ m.mask \subseteq Seats /\ m.mask # {}
  BY DEF RequestType, Positive
<1>4. /\ peers \in [Seats -> PeerType]
      /\ \A f \in Seats : peers[f].floor = R.peers[f].floor /\ peers[f].conn = R.peers[f].conn
  <2>1. ASSUME NEW f \in Seats
        PROVE  peers[f] \in PeerType /\ peers[f].floor = R.peers[f].floor /\ peers[f].conn = R.peers[f].conn
    <3>1. R.peers[f] \in PeerType
      BY <1>2 DEF Relay
    <3>2. R.peers[f].delivery + 1 \in Nat
      BY <3>1 DEF PeerType
    <3>3. CASE f \in m.mask
      BY <3>1, <3>2, <3>3 DEF PeerType
    <3>4. CASE f \notin m.mask
      BY <3>1, <3>4
    <3>. QED  BY <3>3, <3>4
  <2>. QED  BY <2>1
<1>5. targets \in [Seats -> TargetType] /\ \A f \in Seats : targets[f] # NoTarget <=> f \in m.mask
  <2>. SUFFICES ASSUME NEW f \in Seats
                PROVE  targets[f] \in TargetType /\ (targets[f] # NoTarget <=> f \in m.mask)
    OBVIOUS
  <2>1. R.peers[f].conn \in Nat /\ R.peers[f].delivery + 1 \in Nat /\ R.peers[f].delivery + 1 # 0
    BY <1>2 DEF Relay, PeerType
  <2>. QED  BY <2>1 DEF TargetType, NoTarget
<1>6. /\ plan \in PlanType /\ plan.targets = targets /\ plan.id = m.id /\ plan.phase = "Bootstrap"
      /\ plan # NoPlan
  BY <1>3, <1>5 DEF PlanType, Phases, NoPlan
<1>. HIDE DEF peers, targets, plan
<1>7. /\ DOMAIN T = RelayFields /\ T.plan = plan /\ T.begin = NoBegin /\ T.snap = NoSnap
      /\ T.changed = FALSE /\ T.cont = R.cont /\ T.peers = peers /\ T.floor = R.floor /\ T.last = R.last
      /\ T.cache = R.cache /\ T.lastId = m.id /\ T.nextConn = R.nextConn /\ T.outHost = R.outHost
  BY <1>2 DEF RelayFields
<1>. HIDE DEF T
<1>8. Relay(T) /\ T.plan.id # 0
  BY <1>2, <1>3, <1>4, <1>6, <1>7, NothingTyped DEF Relay
<1>9. /\ Relay(S)
      /\ S.plan = T.plan /\ S.begin = T.begin /\ S.snap = T.snap /\ S.changed = T.changed
      /\ S.cont = T.cont /\ S.floor = T.floor /\ S.last = T.last /\ S.cache = T.cache
      /\ S.lastId = T.lastId
      /\ \A f \in Seats : /\ S.peers[f].floor = T.peers[f].floor /\ S.peers[f].conn = T.peers[f].conn
                          /\ IsTarget(T, f) => S.peers[f].quarantined
      /\ S.outHost = Append(T.outHost, [t |-> "plan", id |-> T.plan.id, phase |-> T.plan.phase])
  BY <1>8, Replans
<1>. HIDE DEF S
<1>10. \A f \in Seats : (IsTarget(S, f) <=> f \in m.mask) /\ (IsTarget(T, f) <=> f \in m.mask)
  BY <1>5, <1>6, <1>7, <1>9 DEF IsTarget
<1>11. /\ S.plan # NoPlan /\ S.plan.id \in 1..S.lastId /\ \E f \in Seats : IsTarget(S, f)
       /\ \A f \in Seats : IsTarget(S, f) => S.peers[f].conn # 0 /\ S.peers[f].quarantined
       /\ S.cont = [f \in Seats |-> <<>>]
  BY <1>2, <1>3, <1>4, <1>6, <1>7, <1>9, <1>10 DEF Clean
<1>12. /\ \A f \in Seats : S.peers[f].floor = R.peers[f].floor
       /\ S.outHost = Append(R.outHost, [t |-> "plan", id |-> S.plan.id, phase |-> S.plan.phase])
       /\ R.lastId < S.plan.id /\ R.lastId <= S.lastId
  BY <1>2, <1>3, <1>4, <1>6, <1>7, <1>9
<1>13. Good(S, H, q, h)
  BY <1>2, <1>7, <1>9, <1>11, <1>12, PhaseGood
<1>. QED  BY <1>1, <1>13

LEMMA RequestGood ==
  ASSUME NEW R, NEW H, NEW q, NEW h, Good(R, H, q, h), NEW m \in RequestType
  PROVE  Good(AdmitRequest(R, m), H, q, h)
<1>. DEFINE l == [t |-> "result", id |-> m.id, reason |-> "Busy"]
            outcome == [id |-> m.id, reason |-> "Busy"]
            S == [R EXCEPT !.outcome = outcome, !.outHost = Append(R.outHost, l)]
<1>1. \/ AdmitRequest(R, m) = R
      \/ AdmitRequest(R, m) = S
      \/ /\ AdmitRequest(R, m) = Start(R, m) /\ R.plan = NoPlan /\ ~(m.id <= R.lastId)
         /\ \A f \in m.mask : R.peers[f].conn # 0
  BY Zenon DEF AdmitRequest
<1>2. Relay(R) /\ DOMAIN R = RelayFields /\ R.lastId \in Nat /\ m.id \in Nat
  BY DEF Good, Types, Relay, RequestType, Positive
<1>3. l \in RelayMessage /\ l.t = "result"
  BY <1>2 DEF RelayMessage, Reasons
<1>. HIDE DEF l, outcome
<1>4. /\ DOMAIN S = RelayFields /\ S.plan = R.plan /\ S.begin = R.begin /\ S.snap = R.snap
      /\ S.changed = R.changed /\ S.cont = R.cont /\ S.peers = R.peers /\ S.floor = R.floor /\ S.last = R.last
      /\ S.cache = R.cache /\ S.lastId = R.lastId /\ S.nextConn = R.nextConn
      /\ S.outHost = Append(R.outHost, l)
  BY <1>2 DEF RelayFields
<1>. HIDE DEF S
<1>5. Relay(S) /\ Quiet(R, S)
  BY <1>2, <1>3, <1>4 DEF Relay, Quiet
<1>6. \A f \in Seats : S.peers[f].floor <= S.floor
  BY <1>4 DEF Good, Transaction
<1>7. Good(S, H, q, h)
  BY <1>4, <1>5, <1>6, SameGood
<1>8. ~(m.id <= R.lastId) => R.lastId < m.id
  BY <1>2
<1>. QED  BY <1>1, <1>7, <1>8, StartGood

-----------------------------------------------------------------------------
(* A snapshot's Begin and End.                                             *)

LEMMA BeginGood ==
  ASSUME NEW R, NEW H, NEW q, Good(R, H, q, hist), q # <<>>, q[1].t = "begin"
  PROVE  Good(AdmitBegin(R, q[1]), H, Tail(q), hist)
<1>. DEFINE m == q[1]
            p == Tail(q)
            begin == [cut |-> m.cut, phase |-> m.phase]
            S == [R EXCEPT !.begin = begin]
<1>1. \/ AdmitBegin(R, m) = R
      \/ AdmitBegin(R, m) = Finish(R, "InvalidSnapshot")
      \/ /\ AdmitBegin(R, m) = S /\ R.plan # NoPlan /\ m.id = R.plan.id /\ m.phase = R.plan.phase
         /\ R.begin = NoBegin \/ m.phase # R.begin.phase
  BY Zenon DEF AdmitBegin, Misplaced
<1>2. Relay(R) /\ DOMAIN R = RelayFields /\ (R.plan = NoPlan => Clean(R))
  BY TransactionClean DEF Good, Types, Relay
<1>3. \A T : ~Partner(T, m)
  BY DEF Partner
<1>4. CASE AdmitBegin(R, m) = R
  BY <1>3, <1>4, TailGood
<1>5. CASE AdmitBegin(R, m) = Finish(R, "InvalidSnapshot")
  BY <1>2, <1>3, <1>5, Ends, EndedGood, TailGood DEF Reasons
<1>6. CASE /\ AdmitBegin(R, m) = S /\ R.plan # NoPlan /\ m.id = R.plan.id /\ m.phase = R.plan.phase
           /\ R.begin = NoBegin \/ m.phase # R.begin.phase
  <2>1. /\ p \in Seq(HostMessage) /\ Len(p) = Len(q) - 1 /\ Len(q) \in Nat /\ q \in Seq(HostMessage)
        /\ \A i \in 1..Len(p) : p[i] = q[i + 1] /\ i + 1 \in 1..Len(q)
        /\ \A i \in 1..Len(q) : i # 1 => i - 1 \in 1..Len(p) /\ q[i] = p[i - 1]
        /\ Rising(p, hist) /\ Paired(p) /\ 1 \in 1..Len(q)
    BY Tails DEF Good, Types
  <2>2. 1 + 1 \in 1..Len(q) /\ Pair(q[1], q[1 + 1])
    BY <2>1 DEF Good, Paired
  <2>3. Good(R, H, p, hist)
    BY <1>3, TailGood
  <2>4. R.snap = NoSnap
    BY <1>6 DEF Good, Transaction, NoBegin
  <2>. HIDE DEF p
  <2>5. /\ 1 \in 1..Len(p) /\ p # <<>> /\ p[1].t = "end" /\ p[1].id = m.id /\ p[1].phase = m.phase
        /\ p[1].cut = m.cut /\ p[1] \in HostMessage
    BY <2>1, <2>2 DEF Pair
  <2>6. begin \in [cut : Nat, phase : Phases]
    BY <2>5 DEF HostMessage
  <2>. DEFINE cut == m.cut
              phase == m.phase
  <2>7. begin.cut = cut /\ begin.phase = phase /\ cut \in Nat
    BY <2>6
  <2>. HIDE DEF begin, cut, phase
  <2>8. /\ DOMAIN S = RelayFields /\ S.plan = R.plan /\ S.begin = begin /\ S.snap = R.snap
        /\ S.changed = R.changed /\ S.cont = R.cont /\ S.peers = R.peers /\ S.floor = R.floor /\ S.last = R.last
        /\ S.cache = R.cache /\ S.lastId = R.lastId /\ S.nextConn = R.nextConn
        /\ S.outHost = R.outHost
    BY <1>2 DEF RelayFields
  <2>. HIDE DEF S
  <2>9. Types(S, H, p, hist)
    BY <1>2, <2>1, <2>6, <2>8 DEF Good, Types, Relay
  <2>10. Partner(S, p[1])
    BY <1>6, <2>4, <2>5, <2>7, <2>8 DEF Partner, cut, phase
  <2>11. Ahead(S, H, p)
    <3>1. \A i \in 1..Len(p) : p[i].t = "env" => S.last < p[i].n
      BY <2>3, <2>8 DEF Good, Ahead
    <3>2. \A i \in 1..Len(p) : p[i].t = "end" /\ i # 1 => S.begin.cut < p[i].cut
      BY <2>1, <2>5, <2>7, <2>8 DEF Rising, cut
    <3>3. H.staged # NoSnap => S.begin.cut < H.staged.cut
      BY <2>3, <2>5, <2>7, <2>8 DEF Good, Staged, cut
    <3>. QED  BY <2>5, <2>10, <3>1, <3>2, <3>3 DEF Ahead
  <2>12. Transaction(S, hist)
    BY <1>6, <2>3, <2>4, <2>8 DEF Good, Transaction, IsTarget, Fenced, Kept
  <2>13. Begun(S, H, p) /\ Later(S, H, p) /\ Received(S, p, hist) /\ Cached(S, hist)
    BY <2>3, <2>8 DEF Good, Begun, Known, Later, IsTarget, Received, Cached
  <2>14. Good(S, H, p, hist)
    BY <2>3, <2>9, <2>11, <2>12, <2>13 DEF Good
  <2>. QED  BY <1>6, <2>14 DEF p
<1>. QED  BY <1>1, <1>4, <1>5, <1>6

\* What an End that the relay was waiting for is to it.
LEMMA HeadEnd ==
  ASSUME NEW R, NEW H, NEW q, NEW h, Good(R, H, q, h), q # <<>>, Partner(R, q[1])
  PROVE  LET m == q[1]
             p == Tail(q)
         IN  /\ m.cut \in 1..Len(h) /\ m.cut \in Nat /\ m.sitOut \in BOOLEAN
             /\ \A i \in 1..Len(p) : p[i].t = "env" => m.cut < p[i].n /\ R.last < p[i].n
             /\ \A i \in 1..Len(p) : p[i].t = "end" => m.cut < p[i].cut
             /\ H.staged # NoSnap => m.cut < H.staged.cut
             /\ \A n \in 1..Len(h) : h[n].at = n =>
                  n <= R.last \/ \E i \in 1..Len(p) : p[i].t = "env" /\ p[i].n = n
<1>. DEFINE m == q[1]
            p == Tail(q)
<1>1. /\ p \in Seq(HostMessage) /\ Len(p) = Len(q) - 1 /\ Len(q) \in Nat /\ q \in Seq(HostMessage)
      /\ \A i \in 1..Len(p) : p[i] = q[i + 1] /\ i + 1 \in 1..Len(q)
      /\ \A i \in 1..Len(q) : i # 1 => i - 1 \in 1..Len(p) /\ q[i] = p[i - 1]
      /\ 1 \in 1..Len(q)
  BY Tails DEF Good, Types
<1>. HIDE DEF p
<1>2. m.t = "end" /\ m \in HostMessage
  BY <1>1 DEF Partner
<1>3. m.cut \in 1..Len(h) /\ m.cut \in Nat /\ m.sitOut \in BOOLEAN
  BY <1>1, <1>2 DEF Good, Rising, HostMessage
<1>4. \A i \in 1..Len(p) : p[i].t = "env" => m.cut < p[i].n /\ R.last < p[i].n
  BY <1>1, <1>2 DEF Good, Rising, Ahead, Serial
<1>5. \A i \in 1..Len(p) : p[i].t = "end" => m.cut < p[i].cut
  BY <1>1, <1>2 DEF Good, Rising
<1>6. H.staged # NoSnap => m.cut < H.staged.cut
  BY <1>1, <1>2 DEF Good, Staged
<1>7. ASSUME NEW n \in 1..Len(h), h[n].at = n, ~(n <= R.last)
      PROVE  \E i \in 1..Len(p) : p[i].t = "env" /\ p[i].n = n
  <2>1. PICK i \in 1..Len(q) : q[i].t = "env" /\ q[i].n = n
    BY <1>7 DEF Good, Received
  <2>. QED  BY <1>1, <1>2, <2>1
<1>. QED  BY <1>3, <1>4, <1>5, <1>6, <1>7 DEF p

\* The crux: the cache that the relay rebuilds is the host's world.
LEMMA RebuiltCache ==
  ASSUME NEW R, NEW H, NEW q, Good(R, H, q, hist), q # <<>>, Partner(R, q[1])
  PROVE  (IF q[1].sitOut THEN R.cache ELSE Refresh(R, q[1].cut)) = hist[Larger(R.last, q[1].cut)].at
<1>. DEFINE cut == q[1].cut
            p == Tail(q)
<1>1. cut \in 1..Len(hist) /\ cut \in Nat /\ R.last \in Nat /\ R.last <= Len(hist) /\ Len(hist) \in Nat
  <2>1. cut \in 1..Len(hist) /\ cut \in Nat
    BY HeadEnd
  <2>2. R.last \in Nat /\ R.last <= Len(hist) /\ Len(hist) \in Nat
    BY DEF Good, Types, Relay, Transaction
  <2>. QED  BY <2>1, <2>2
<1>2. \A n \in 1..Len(hist) : hist[n].at = n /\ n <= cut => n <= R.last
  <2>. SUFFICES ASSUME NEW n \in 1..Len(hist), hist[n].at = n, n <= cut, ~(n <= R.last)
                PROVE  FALSE
    OBVIOUS
  <2>1. PICK i \in 1..Len(p) : p[i].t = "env" /\ p[i].n = n
    BY HeadEnd
  <2>2. cut < n
    BY <2>1, HeadEnd
  <2>. QED  BY <2>2, <1>1
<1>3. \A n \in 1..Len(hist) :
        /\ hist[n].at \in Nat /\ 1 <= hist[n].at /\ hist[n].at <= n
        /\ \A k \in 1..Len(hist) : hist[n].at <= k /\ k <= n => hist[k].at = hist[n].at
  <2>1. History(hist) /\ \A n \in 1..Len(hist) : hist[n] \in Entry
    BY DEF Good, Types
  <2>2. \A n \in 1..Len(hist) : hist[n].at \in Nat
    BY <2>1 DEF Entry
  <2>. QED  BY <2>1, <2>2 DEF History
<1>. HIDE DEF p, cut
\* Overtaken by no update: everything up to the cut has been admitted.
<1>4. CASE R.last <= cut
  <2>1. Larger(R.last, cut) = cut
    BY <1>1, <1>4 DEF Larger
  <2>2. hist[cut].at <= R.last /\ R.last \in 1..Len(hist)
    <3>. DEFINE k == hist[cut].at
    <3>1. k \in Nat /\ 1 <= k /\ k <= cut
      BY <1>1, <1>3
    <3>2. hist[k].at = k
      BY <1>1, <1>3, <3>1
    <3>3. k <= R.last
      BY <1>1, <1>2, <3>1, <3>2
    <3>. QED  BY <1>1, <3>1, <3>3
  <2>3. hist[R.last].at = hist[cut].at
    BY <1>1, <1>3, <1>4, <2>2
  <2>4. R.cache = hist[cut].at
    BY <2>2, <2>3 DEF Good, Cached
  <2>5. Refresh(R, cut) = hist[cut].at
    <3>. DEFINE first == CHOOSE f \in Seats : IsTarget(R, f)
                queue == R.cont[first]
                later == {i \in 1..Len(queue) : queue[i].n > cut}
    <3>1. first \in Seats
      BY DEF Good, Transaction, Partner
    <3>2. \A i \in 1..Len(queue) : queue[i].n <= R.last /\ queue[i].n \in Nat
      <4>1. queue \in Seq(Record) /\ \A i \in 1..Len(queue) : queue[i].n <= R.last
        BY <3>1 DEF Good, Transaction, Types, Relay
      <4>2. \A i \in 1..Len(queue) : queue[i] \in Record
        BY <4>1
      <4>. QED  BY <4>1, <4>2 DEF Record
    <3>3. later = {}
      BY <1>1, <1>4, <3>2
    <3>4. Refresh(R, cut) = IF later = {} THEN hist[cut].at
                            ELSE queue[CHOOSE i \in later : \A j \in later : j <= i].n
      BY Zenon DEF Refresh
    <3>. QED  BY <3>3, <3>4
  <2>. QED  BY <2>1, <2>4, <2>5 DEF cut
\* Overtaken: the last update is at the end of each continuation.
<1>5. CASE cut < R.last
  <2>1. Larger(R.last, cut) = R.last
    BY <1>1, <1>5 DEF Larger
  <2>2. R.cache = hist[R.last].at
    BY <1>1, <1>5 DEF Good, Cached
  <2>3. ASSUME ~q[1].sitOut
        PROVE  Refresh(R, cut) = hist[R.last].at
    <3>. DEFINE first == CHOOSE f \in Seats : IsTarget(R, f)
                queue == R.cont[first]
                later == {i \in 1..Len(queue) : queue[i].n > cut}
                final == CHOOSE i \in later : \A j \in later : j <= i
    <3>1. first \in Seats /\ IsTarget(R, first)
      BY DEF Good, Transaction, Partner
    <3>2. queue \in Seq(Record)
      BY <3>1 DEF Good, Types, Relay
    <3>3. queue # <<>>
      <4>1. /\ q[1].t = "end" /\ q[1].id = R.plan.id /\ q[1].phase = R.plan.phase /\ 1 \in 1..Len(q)
            /\ R.plan # NoPlan /\ R.snap = NoSnap
        BY DEF Partner, Good, Types
      <4>2. queue = <<>> => R.last < q[1].cut
        BY <3>1, <4>1 DEF Good, Later
      <4>. QED  BY <4>2, <1>1, <1>5 DEF cut
    <3>4. queue[Len(queue)].n = R.last
      BY <3>1, <3>3 DEF Good, Transaction, Kept, Partner
    <3>5. Update(hist, queue[Len(queue)].n)
      BY <3>1, <3>2, <3>3 DEF Good, Transaction
    <3>6. Refresh(R, cut) = IF later = {} THEN hist[cut].at ELSE queue[final].n
      BY Zenon DEF Refresh
    <3>. HIDE DEF queue
    <3>7. Len(queue) \in later /\ \A j \in later : j <= Len(queue)
      BY <1>1, <1>5, <3>2, <3>3, <3>4
    <3>8. later \subseteq Nat
      BY <3>2
    <3>. HIDE DEF later, final
    <3>9. final \in later /\ \A j \in later : j <= final
      BY <3>7 DEF final
    <3>10. final = Len(queue)
      BY <3>7, <3>8, <3>9
    <3>. QED  BY <3>4, <3>5, <3>6, <3>7, <3>10 DEF Update
  <2>. QED  BY <2>1, <2>2, <2>3 DEF cut
<1>. QED  BY <1>1, <1>4, <1>5

LEMMA HandsOut ==
  ASSUME NEW R, Relay(R), NEW m, m.cut \in Nat, m.sitOut \in BOOLEAN
  PROVE  LET S == HandOut(R, m)
         IN  /\ Relay(S)
             /\ S.plan = R.plan /\ S.begin = R.begin /\ S.snap = R.snap /\ S.changed = R.changed
             /\ S.floor = R.floor /\ S.last = R.last /\ S.cache = R.cache
             /\ S.lastId = R.lastId /\ S.outHost = R.outHost
             /\ \A f \in Seats : IF IsTarget(R, f)
                  THEN /\ S.cont[f] = <<>> /\ S.peers[f].floor = m.cut /\ S.peers[f].conn = R.peers[f].conn
                       /\ m.sitOut \/ ~S.peers[f].quarantined
                  ELSE S.cont[f] = R.cont[f] /\ S.peers[f] = R.peers[f]
<1>. DEFINE cont == [f \in Seats |-> IF IsTarget(R, f) THEN <<>> ELSE R.cont[f]]
            peers == [f \in Seats |-> IF IsTarget(R, f)
                   THEN [R.peers[f] EXCEPT !.floor = m.cut, !.sitOut = m.sitOut,
                                           !.quarantined = m.sitOut /\ R.peers[f].quarantined]
                   ELSE R.peers[f]]
            outSeat == [f \in Seats |-> IF IsTarget(R, f)
                     THEN R.outSeat[f] \o << [t |-> "begin", id |-> m.id, phase |-> m.phase, cut |-> m.cut],
                                     [t |-> "end", id |-> m.id, phase |-> m.phase, cut |-> m.cut,
                                      sitOut |-> m.sitOut] >>
                               \o (IF m.sitOut THEN <<>> ELSE After(R.cont[f], m.cut))
                     ELSE R.outSeat[f]]
            S == [R EXCEPT !.cont = cont, !.peers = peers, !.outSeat = outSeat]
<1>1. HandOut(R, m) = S
  BY Zenon DEF HandOut
<1>2. DOMAIN R = RelayFields
  BY DEF Relay
<1>3. ASSUME NEW f \in Seats
      PROVE  /\ peers[f] \in PeerType /\ cont[f] \in Seq(Record)
             /\ IF IsTarget(R, f)
                  THEN /\ cont[f] = <<>> /\ peers[f].floor = m.cut /\ peers[f].conn = R.peers[f].conn
                       /\ m.sitOut \/ ~peers[f].quarantined
                  ELSE cont[f] = R.cont[f] /\ peers[f] = R.peers[f]
  <2>1. R.peers[f] \in PeerType /\ R.cont[f] \in Seq(Record)
    BY DEF Relay
  <2>2. CASE IsTarget(R, f)
    <3>. DEFINE fenced == m.sitOut /\ R.peers[f].quarantined
                peer == [R.peers[f] EXCEPT !.floor = m.cut, !.sitOut = m.sitOut, !.quarantined = fenced]
    <3>1. fenced \in BOOLEAN /\ (m.sitOut \/ ~fenced)
      OBVIOUS
    <3>2. peers[f] = peer /\ cont[f] = <<>>
      BY <2>2
    <3>. HIDE DEF fenced
    <3>3. peer \in PeerType /\ peer.floor = m.cut /\ peer.conn = R.peers[f].conn /\ peer.quarantined = fenced
      BY <2>1, <3>1 DEF PeerType
    <3>. HIDE DEF peers, cont, peer
    <3>4. cont[f] \in Seq(Record)
      BY <3>2
    <3>. QED  BY <2>2, <3>1, <3>2, <3>3, <3>4
  <2>3. CASE ~IsTarget(R, f)
    BY <2>1, <2>3
  <2>. QED  BY <2>2, <2>3
<1>4. peers \in [Seats -> PeerType] /\ cont \in [Seats -> Seq(Record)]
  BY <1>3
<1>. HIDE DEF cont, peers, outSeat
<1>5. /\ DOMAIN S = RelayFields /\ S.plan = R.plan /\ S.begin = R.begin /\ S.snap = R.snap
      /\ S.changed = R.changed /\ S.cont = cont /\ S.peers = peers /\ S.floor = R.floor /\ S.last = R.last
      /\ S.cache = R.cache /\ S.lastId = R.lastId /\ S.nextConn = R.nextConn /\ S.outHost = R.outHost
  BY <1>2 DEF RelayFields
<1>. HIDE DEF S
<1>6. Relay(S)
  BY <1>4, <1>5 DEF Relay
<1>. QED  BY <1>1, <1>3, <1>5, <1>6

\* The relay after it has handed out the snapshot whose End it has just read.
LEMMA HandedGood ==
  ASSUME NEW R, NEW H, NEW q, NEW h, NEW S, Good(R, H, q, h), q # <<>>, Partner(R, q[1]), Relay(S),
         S.plan = R.plan, S.begin = R.begin, S.snap = [cut |-> q[1].cut, sitOut |-> q[1].sitOut],
         R.plan.phase = "Checkpoint" => ~S.changed,
         S.floor = Larger(R.floor, q[1].cut), S.last = Larger(R.last, q[1].cut),
         S.cache = h[S.last].at, S.lastId = R.lastId, S.outHost = R.outHost,
         \A f \in Seats : IF IsTarget(R, f)
             THEN /\ S.cont[f] = <<>> /\ S.peers[f].floor = q[1].cut /\ S.peers[f].conn = R.peers[f].conn
                  /\ q[1].sitOut \/ ~S.peers[f].quarantined
             ELSE S.cont[f] = R.cont[f] /\ S.peers[f] = R.peers[f]
  PROVE  Good(S, H, Tail(q), h)
<1>. DEFINE m == q[1]
            p == Tail(q)
<1>1. /\ p \in Seq(HostMessage) /\ Rising(p, h) /\ Paired(p)
      /\ \A i \in 1..Len(p) : p[i] = q[i + 1] /\ i + 1 \in 1..Len(q)
  BY Tails DEF Good, Types
<1>2. /\ m.cut \in 1..Len(h) /\ m.cut \in Nat /\ m.sitOut \in BOOLEAN
      /\ \A i \in 1..Len(p) : p[i].t = "env" => m.cut < p[i].n /\ R.last < p[i].n
      /\ \A i \in 1..Len(p) : p[i].t = "end" => m.cut < p[i].cut
      /\ H.staged # NoSnap => m.cut < H.staged.cut
      /\ \A n \in 1..Len(h) : h[n].at = n =>
           n <= R.last \/ \E i \in 1..Len(p) : p[i].t = "env" /\ p[i].n = n
  BY HeadEnd
<1>3. /\ R.plan # NoPlan /\ R.snap = NoSnap /\ m.cut = R.begin.cut /\ m.phase = R.begin.phase
      /\ m.phase = R.plan.phase
  BY DEF Partner
<1>4. Relay(R) /\ R.last \in Nat /\ R.floor \in Nat /\ R.floor <= R.last /\ R.last <= Len(h) /\ Len(h) \in Nat
  BY DEF Good, Types, Relay, Transaction
<1>. HIDE DEF m, p
<1>5. /\ S.floor \in Nat /\ S.last \in Nat /\ S.floor <= S.last /\ S.last <= Len(h) /\ R.last <= S.last
      /\ m.cut <= S.last /\ m.cut <= S.floor /\ R.floor <= S.floor
      /\ S.last = R.last \/ S.last = m.cut
  BY <1>2, <1>4 DEF Larger, m
<1>6. Types(S, H, p, h)
  BY <1>1 DEF Good, Types
<1>7. Staged(H, p, h)
  BY <1>1 DEF Good, Staged
<1>8. Received(S, p, h)
  <2>1. \A n \in 1..Len(h) : n <= R.last => n <= S.last
    BY <1>4, <1>5
  <2>. QED  BY <1>2, <2>1 DEF Received
<1>9. Cached(S, h)
  BY DEF Cached
<1>10. Begun(S, H, p)
  BY <1>1, BegunTail DEF Good
<1>11. S.snap.cut = m.cut /\ S.snap.sitOut = m.sitOut /\ m.cut # 0 /\ S.snap # NoSnap
  BY <1>2 DEF m, NoSnap
<1>12. Later(S, H, p)
  BY <1>11 DEF Later
<1>13. Ahead(S, H, p)
  BY <1>2, <1>3, <1>5 DEF Ahead
<1>14. \A f \in Seats : IsTarget(S, f) <=> IsTarget(R, f)
  BY DEF IsTarget
<1>15. \A f \in Seats : IF IsTarget(S, f) THEN Fenced(S, f) /\ Kept(S, f) ELSE S.cont[f] = <<>>
  BY <1>11, <1>14 DEF Good, Transaction, Fenced, Kept, m
<1>16. \A f \in Seats : S.cont[f] = <<>>
  BY <1>14 DEF Good, Transaction
<1>17. \A f \in Seats : S.peers[f].floor <= S.floor
  <2>1. \A f \in Seats : R.peers[f].floor <= R.floor /\ R.peers[f].floor \in Nat
    BY <1>4 DEF Good, Transaction, Relay, PeerType
  <2>2. \A f \in Seats : S.peers[f].floor = m.cut \/ S.peers[f].floor = R.peers[f].floor
    BY DEF m
  <2>. QED  BY <1>2, <1>4, <1>5, <2>1, <2>2
<1>18. Transaction(S, h)
  <2>1. S.plan # NoPlan => S.plan.id \in 1..S.lastId /\ \E f \in Seats : IsTarget(S, f)
    BY <1>14 DEF Good, Transaction
  <2>2. S.begin.cut # 0 /\ S.begin.cut = S.snap.cut /\ S.begin.phase = S.plan.phase
    BY <1>3, <1>11
  <2>3. S.plan.phase = "Checkpoint" => ~S.changed
    OBVIOUS
  <2>4. S.plan # NoPlan
    BY <1>3
  <2>. QED  BY <1>5, <1>15, <1>16, <1>17, <2>1, <2>2, <2>3, <2>4 DEF Transaction
<1>19. History(h)
  BY DEF Good
<1>. QED  BY <1>1, <1>6, <1>7, <1>8, <1>9, <1>10, <1>12, <1>13, <1>18, <1>19 DEF Good, p

LEMMA EndGood ==
  ASSUME NEW R, NEW H, NEW q, Good(R, H, q, hist), q # <<>>, q[1].t = "end"
  PROVE  Good(AdmitEnd(R, q[1]), H, Tail(q), hist)
<1>. DEFINE m == q[1]
            snap == [cut |-> m.cut, sitOut |-> m.sitOut]
            news == NewsQueued(R, snap)
            held == [R EXCEPT !.snap = snap, !.changed = news]
            T == [held EXCEPT !.cache = IF m.sitOut THEN held.cache ELSE Refresh(R, m.cut),
                              !.floor = Larger(held.floor, m.cut), !.last = Larger(held.last, m.cut)]
<1>1. Relay(R) /\ DOMAIN R = RelayFields /\ (R.plan = NoPlan => Clean(R))
  BY TransactionClean DEF Good, Types, Relay
<1>2. 1 \in 1..Len(q) /\ m \in HostMessage
  BY DEF Good, Types
<1>3. CASE R.plan = NoPlan \/ m.id # R.plan.id
  <2>1. AdmitEnd(R, m) = R
    BY <1>3 DEF AdmitEnd
  <2>2. ~Partner(R, m)
    BY <1>3 DEF Partner
  <2>. QED  BY <2>1, <2>2, TailGood
<1>4. CASE ~(R.plan = NoPlan \/ m.id # R.plan.id) /\ (R.begin.cut # m.cut \/ R.begin.phase # m.phase)
  <2>1. AdmitEnd(R, m) = Finish(R, "InvalidSnapshot")
    BY <1>4 DEF AdmitEnd
  <2>2. Ended(R, Finish(R, "InvalidSnapshot"))
    BY <1>1, Ends DEF Reasons
  <2>3. ~Partner(Finish(R, "InvalidSnapshot"), m)
    BY <2>2 DEF Ended, Clean, Partner
  <2>4. Good(Finish(R, "InvalidSnapshot"), H, q, hist)
    BY <2>2, EndedGood
  <2>. QED  BY <2>1, <2>3, <2>4, TailGood
<1>5. CASE R.plan # NoPlan /\ m.id = R.plan.id /\ R.begin.cut = m.cut /\ R.begin.phase = m.phase
  <2>1. Partner(R, m)
    <3>1. ~(R.begin.cut < m.cut)
      BY <1>1, <1>5 DEF Relay
    <3>. QED  BY <1>2, <3>1 DEF Good, Ahead
  <2>2. m.cut \in Nat /\ m.sitOut \in BOOLEAN
    BY <2>1, HeadEnd
  <2>3. snap \in SnapType /\ snap.cut = m.cut /\ snap.sitOut = m.sitOut /\ news \in BOOLEAN
    BY <2>2 DEF SnapType, NewsQueued
  <2>4. AdmitEnd(R, m) = IF news /\ R.plan.phase = "Checkpoint" THEN Finish(held, "NativeFailed")
                         ELSE HandOut(T, m)
    BY <1>5, Zenon DEF AdmitEnd
  <2>. DEFINE cache == IF m.sitOut THEN held.cache ELSE Refresh(R, m.cut)
              floor == Larger(held.floor, m.cut)
              last == Larger(held.last, m.cut)
  <2>. HIDE DEF snap, news
  <2>5. /\ DOMAIN held = RelayFields /\ held.plan = R.plan /\ held.begin = R.begin /\ held.snap = snap
        /\ held.changed = news /\ held.cont = R.cont /\ held.peers = R.peers /\ held.floor = R.floor
        /\ held.last = R.last /\ held.cache = R.cache /\ held.lastId = R.lastId
        /\ held.nextConn = R.nextConn /\ held.outHost = R.outHost
    BY <1>1 DEF RelayFields
  <2>. HIDE DEF held
  <2>6. Relay(held)
    BY <1>1, <2>3, <2>5 DEF Relay
  <2>7. CASE news /\ R.plan.phase = "Checkpoint"
    <3>1. Ended(held, Finish(held, "NativeFailed"))
      BY <1>5, <2>5, <2>6, Ends DEF Reasons
    <3>2. Ended(R, Finish(held, "NativeFailed"))
      BY <2>5, <3>1 DEF Ended, Quiet
    <3>3. ~Partner(Finish(held, "NativeFailed"), m)
      BY <3>2 DEF Ended, Clean, Partner
    <3>4. Good(Finish(held, "NativeFailed"), H, q, hist)
      BY <3>2, EndedGood
    <3>. QED  BY <2>4, <2>7, <3>3, <3>4, TailGood
  <2>8. CASE ~(news /\ R.plan.phase = "Checkpoint")
    <3>1. /\ cache = hist[Larger(R.last, m.cut)].at
          /\ floor = Larger(R.floor, m.cut) /\ last = Larger(R.last, m.cut)
      BY <2>1, <2>5, RebuiltCache
    <3>2. floor \in Nat /\ last \in Nat /\ cache \in Nat
      <4>1. floor \in Nat /\ last \in Nat
        BY <1>1, <2>2, <3>1 DEF Relay, Larger
      <4>2. Larger(R.last, m.cut) \in 1..Len(hist)
        <5>1. m.cut \in 1..Len(hist)
          BY <2>1, HeadEnd
        <5>2. R.last \in Nat /\ R.last <= Len(hist) /\ Len(hist) \in Nat
          BY <1>1 DEF Good, Types, Relay, Transaction
        <5>. QED  BY <5>1, <5>2 DEF Larger
      <4>3. \A n \in 1..Len(hist) : hist[n] \in Entry
        BY DEF Good, Types
      <4>4. \A n \in 1..Len(hist) : hist[n].at \in Nat
        BY <4>3 DEF Entry
      <4>. QED  BY <3>1, <4>1, <4>2, <4>4
    <3>. HIDE DEF cache, floor, last
    <3>3. T = [held EXCEPT !.cache = cache, !.floor = floor, !.last = last]
      BY Zenon DEF cache, floor, last
    <3>4. /\ DOMAIN T = RelayFields /\ T.plan = R.plan /\ T.begin = R.begin /\ T.snap = snap
          /\ T.changed = news /\ T.cont = R.cont /\ T.peers = R.peers /\ T.floor = floor
          /\ T.last = last /\ T.cache = cache /\ T.lastId = R.lastId
          /\ T.nextConn = R.nextConn /\ T.outHost = R.outHost
      BY <2>5, <3>3 DEF RelayFields
    <3>. HIDE DEF T
    <3>5. Relay(T)
      BY <1>1, <2>3, <3>2, <3>4 DEF Relay
    <3>. DEFINE S == HandOut(T, m)
    <3>6. /\ Relay(S)
          /\ S.plan = T.plan /\ S.begin = T.begin /\ S.snap = T.snap /\ S.changed = T.changed
          /\ S.floor = T.floor /\ S.last = T.last /\ S.cache = T.cache
          /\ S.lastId = T.lastId /\ S.outHost = T.outHost
          /\ \A f \in Seats : IF IsTarget(T, f)
               THEN /\ S.cont[f] = <<>> /\ S.peers[f].floor = m.cut /\ S.peers[f].conn = T.peers[f].conn
                    /\ m.sitOut \/ ~S.peers[f].quarantined
               ELSE S.cont[f] = T.cont[f] /\ S.peers[f] = T.peers[f]
      BY <2>2, <3>5, HandsOut
    <3>. HIDE DEF S
    <3>7. \A f \in Seats : IF IsTarget(R, f)
            THEN /\ S.cont[f] = <<>> /\ S.peers[f].floor = m.cut /\ S.peers[f].conn = R.peers[f].conn
                 /\ m.sitOut \/ ~S.peers[f].quarantined
            ELSE S.cont[f] = R.cont[f] /\ S.peers[f] = R.peers[f]
      BY <3>4, <3>6 DEF IsTarget
    <3>8. /\ S.snap = [cut |-> m.cut, sitOut |-> m.sitOut]
          /\ R.plan.phase = "Checkpoint" => ~S.changed
          /\ S.floor = Larger(R.floor, m.cut) /\ S.last = Larger(R.last, m.cut)
          /\ S.cache = hist[S.last].at
      BY <2>8, <3>1, <3>4, <3>6 DEF snap
    <3>9. Good(S, H, Tail(q), hist)
      BY <2>1, <3>4, <3>6, <3>7, <3>8, HandedGood
    <3>. QED  BY <2>4, <2>8, <3>9 DEF S
  <2>. QED  BY <2>7, <2>8
<1>. QED  BY <1>3, <1>4, <1>5

-----------------------------------------------------------------------------
(* Acknowledgements, and peers that come and go.                           *)

LEMMA CheckpointGood ==
  ASSUME NEW R, NEW H, NEW q, NEW h, Good(R, H, q, h), R.plan # NoPlan, R.snap # NoSnap, R.changed
  PROVE  Good(Checkpoint(R), H, q, h)
<1>. DEFINE plan == [R.plan EXCEPT !.phase = "Checkpoint"]
            T == [R EXCEPT !.plan = plan, !.snap = NoSnap, !.acks = {}, !.changed = FALSE]
            S == Publish(Fence(T))
<1>1. Relay(R) /\ DOMAIN R = RelayFields /\ R.plan \in PlanType
  BY DEF Good, Types, Relay
<1>2. Checkpoint(R) = S
  BY Zenon DEF Checkpoint
<1>3. /\ plan \in PlanType /\ plan.id = R.plan.id /\ plan.phase = "Checkpoint"
      /\ plan.targets = R.plan.targets /\ plan # NoPlan
  BY <1>1 DEF PlanType, Phases, NoPlan
<1>4. R.plan.id \in 1..R.lastId /\ R.plan.phase = "Bootstrap" /\ R.lastId \in Nat
  BY <1>1 DEF Good, Transaction, PlanType, Phases, Relay
<1>. HIDE DEF plan
<1>5. /\ DOMAIN T = RelayFields /\ T.plan = plan /\ T.begin = R.begin /\ T.snap = NoSnap
      /\ T.changed = FALSE /\ T.cont = R.cont /\ T.peers = R.peers /\ T.floor = R.floor /\ T.last = R.last
      /\ T.cache = R.cache /\ T.lastId = R.lastId /\ T.nextConn = R.nextConn /\ T.outHost = R.outHost
  BY <1>1 DEF RelayFields
<1>. HIDE DEF T
<1>6. Relay(T) /\ T.plan.id # 0
  <2>1. Relay(T)
    BY <1>1, <1>3, <1>5, NothingTyped DEF Relay
  <2>2. T.plan.id # 0
    BY <1>3, <1>4, <1>5
  <2>. QED  BY <2>1, <2>2
<1>7. /\ Relay(S)
      /\ S.plan = T.plan /\ S.begin = T.begin /\ S.snap = T.snap /\ S.changed = T.changed
      /\ S.cont = T.cont /\ S.floor = T.floor /\ S.last = T.last /\ S.cache = T.cache
      /\ S.lastId = T.lastId
      /\ \A f \in Seats : /\ S.peers[f].floor = T.peers[f].floor /\ S.peers[f].conn = T.peers[f].conn
                          /\ IsTarget(T, f) => S.peers[f].quarantined
      /\ S.outHost = Append(T.outHost, [t |-> "plan", id |-> T.plan.id, phase |-> T.plan.phase])
  BY <1>6, Replans
<1>. HIDE DEF S
<1>8. \A f \in Seats : (IsTarget(S, f) <=> IsTarget(R, f)) /\ (IsTarget(T, f) <=> IsTarget(R, f))
  BY <1>3, <1>5, <1>7 DEF IsTarget
<1>9. \A f \in Seats : R.cont[f] = <<>>
  BY DEF Good, Transaction, Kept
<1>10. S.cont = [f \in Seats |-> <<>>]
  BY <1>1, <1>5, <1>7, <1>9 DEF Relay
<1>11. \A f \in Seats : S.peers[f].floor = R.peers[f].floor
  BY <1>5, <1>7
<1>12. \A f \in Seats : IsTarget(S, f) => S.peers[f].conn # 0 /\ S.peers[f].quarantined
  BY <1>5, <1>7, <1>8 DEF Good, Transaction, Fenced
<1>13. \E f \in Seats : IsTarget(S, f)
  BY <1>8 DEF Good, Transaction
<1>14. S.outHost = Append(R.outHost, [t |-> "plan", id |-> S.plan.id, phase |-> S.plan.phase])
  BY <1>5, <1>7
<1>15. Good(S, H, q, h)
  BY <1>3, <1>4, <1>5, <1>7, <1>10, <1>11, <1>12, <1>13, <1>14, PhaseGood
<1>. QED  BY <1>2, <1>15

LEMMA AckGood ==
  ASSUME NEW R, NEW H, NEW q, NEW h, Good(R, H, q, h), NEW f \in Seats, NEW a
  PROVE  Good(AdmitAck(R, f, a), H, q, h)
<1>. DEFINE acks == R.acks \cup {f}
            S == [R EXCEPT !.acks = acks]
<1>1. \/ AdmitAck(R, f, a) = R
      \/ AdmitAck(R, f, a) = Finish(R, "NativeFailed")
      \/ /\ AdmitAck(R, f, a) = Checkpoint(R)
         /\ R.plan # NoPlan /\ R.snap # NoSnap /\ R.changed
      \/ AdmitAck(R, f, a) = Finish(S, "Converged")
      \/ AdmitAck(R, f, a) = S
  BY Zenon DEF AdmitAck, AckAdmitted
<1>2. Relay(R) /\ DOMAIN R = RelayFields /\ (R.plan = NoPlan => Clean(R))
  BY TransactionClean DEF Good, Types, Relay
<1>. HIDE DEF acks
<1>3. /\ DOMAIN S = RelayFields /\ S.plan = R.plan /\ S.begin = R.begin /\ S.snap = R.snap
      /\ S.changed = R.changed /\ S.cont = R.cont /\ S.peers = R.peers /\ S.floor = R.floor /\ S.last = R.last
      /\ S.cache = R.cache /\ S.lastId = R.lastId /\ S.nextConn = R.nextConn /\ S.outHost = R.outHost
  BY <1>2 DEF RelayFields
<1>. HIDE DEF S
<1>4. Relay(S) /\ Quiet(R, S) /\ (S.plan = NoPlan => Clean(S))
  BY <1>2, <1>3 DEF Relay, Quiet, Clean
<1>5. \A g \in Seats : S.peers[g].floor <= S.floor
  BY <1>3 DEF Good, Transaction
<1>6. Good(S, H, q, h)
  BY <1>3, <1>4, <1>5, SameGood
<1>7. Good(Finish(R, "NativeFailed"), H, q, h) /\ Good(Finish(S, "Converged"), H, q, h)
  BY <1>2, <1>4, <1>6, Ends, EndedGood DEF Reasons
<1>. QED  BY <1>1, <1>6, <1>7, CheckpointGood

LEMMA RosterTyped ==
  ASSUME NEW peers \in [Seats -> PeerType]
  PROVE  Roster(peers) \in RelayMessage /\ Roster(peers).t = "roster"
BY DEF Roster, RelayMessage, Rosters, PeerType

LEMMA JoinGood ==
  ASSUME IInv, NEW f \in Seats, Join(f)
  PROVE  IInv'
<1>. DEFINE peer == [NoPeer EXCEPT !.conn = relay.nextConn, !.delivery = 1]
            peers == [relay.peers EXCEPT ![f] = peer]
            S == relay'
<1>1. Relay(relay) /\ DOMAIN relay = RelayFields /\ relay.nextConn \in Nat /\ relay.nextConn + 1 \in Positive
  BY DEF IInv, Good, Types, Relay, Positive
<1>2. peer \in PeerType /\ peer.floor = 0
  BY <1>1 DEF NoPeer, PeerType
<1>3. /\ peers \in [Seats -> PeerType]
      /\ \A g \in Seats : peers[g] = IF g = f THEN peer ELSE relay.peers[g]
  BY <1>1, <1>2 DEF Relay
<1>4. relay.peers[f].conn = 0 /\ UNCHANGED <<hist, host, toRelay>>
  BY DEF Join
<1>5. /\ DOMAIN S = RelayFields /\ S.plan = relay.plan /\ S.begin = relay.begin /\ S.snap = relay.snap
      /\ S.changed = relay.changed /\ S.cont = relay.cont /\ S.peers = peers /\ S.floor = relay.floor
      /\ S.last = relay.last /\ S.cache = relay.cache /\ S.lastId = relay.lastId
      /\ S.nextConn = relay.nextConn + 1 /\ S.outHost = Append(relay.outHost, Roster(peers))
  <2>. DEFINE outSeat == [relay.outSeat EXCEPT ![f] = << [t |-> "binding", delivery |-> 1] >>
                  \o (IF relay.cache = 0 THEN <<>>
                      ELSE << [t |-> "cached", n |-> relay.last, image |-> relay.cache, delivery |-> 1] >>)]
              roster == Roster(peers)
  <2>1. S = [relay EXCEPT !.peers = peers, !.nextConn = relay.nextConn + 1,
                          !.outHost = Append(relay.outHost, roster), !.outSeat = outSeat]
    BY Zenon DEF Join
  <2>. HIDE DEF outSeat, peers, roster
  <2>2. /\ DOMAIN S = RelayFields /\ S.plan = relay.plan /\ S.begin = relay.begin /\ S.snap = relay.snap
        /\ S.changed = relay.changed /\ S.cont = relay.cont /\ S.peers = peers /\ S.floor = relay.floor
        /\ S.last = relay.last /\ S.cache = relay.cache /\ S.lastId = relay.lastId
        /\ S.nextConn = relay.nextConn + 1 /\ S.outHost = Append(relay.outHost, roster)
    BY <1>1, <2>1 DEF RelayFields
  <2>. QED  BY <2>2 DEF roster
<1>6. Roster(peers) \in RelayMessage /\ Roster(peers).t = "roster"
  BY <1>3, RosterTyped
<1>. HIDE DEF peer, peers, S
<1>7. Relay(S) /\ Quiet(relay, S)
  <2>1. Relay(S)
    BY <1>1, <1>3, <1>5, <1>6 DEF Relay
  <2>2. relay.outHost \in Seq(RelayMessage)
    BY <1>1 DEF Relay
  <2>3. Quiet(relay, S)
    BY <1>5, <1>6, <2>2 DEF Quiet
  <2>. QED  BY <2>1, <2>3
<1>8. ~IsTarget(relay, f)
  BY <1>4 DEF IInv, Good, Transaction, Fenced
<1>9. \A g \in Seats : S.peers[g].floor <= S.floor /\ (IsTarget(relay, g) => S.peers[g] = relay.peers[g])
  BY <1>1, <1>2, <1>3, <1>5, <1>8 DEF IInv, Good, Transaction, Relay
<1>10. Good(S, host, toRelay, hist)
  BY <1>5, <1>7, <1>9, SameGood DEF IInv
<1>. QED  BY <1>4, <1>10 DEF IInv, S

LEMMA LeaveGood ==
  ASSUME IInv, NEW f \in Seats, Leave(f)
  PROVE  IInv'
<1>. DEFINE ended == IF IsTarget(relay, f) THEN Finish(relay, "TargetChanged") ELSE relay
            peers == [ended.peers EXCEPT ![f] = NoPeer]
            S == relay'
<1>1. Relay(relay) /\ (relay.plan = NoPlan => Clean(relay))
  BY TransactionClean DEF IInv, Good, Types
<1>2. /\ Good(ended, host, toRelay, hist)
      /\ ~IsTarget(ended, f)
  <2>1. CASE ~IsTarget(relay, f)
    BY <2>1 DEF IInv
  <2>2. CASE IsTarget(relay, f)
    <3>1. Ended(relay, ended)
      BY <1>1, <2>2, Ends DEF Reasons
    <3>2. ~IsTarget(ended, f)
      BY <3>1 DEF Ended, Clean, IsTarget, NoPlan, NoTargets
    <3>. QED  BY <3>1, <3>2, EndedGood DEF IInv
  <2>. QED  BY <2>1, <2>2
<1>3. Relay(ended) /\ DOMAIN ended = RelayFields
  BY <1>2 DEF Good, Types, Relay
<1>4. UNCHANGED <<hist, host, toRelay>>
  BY DEF Leave
<1>. DEFINE outSeat == [ended.outSeat EXCEPT ![f] = <<>>]
            roster == Roster(peers)
<1>5. S = [ended EXCEPT !.peers = peers, !.outHost = Append(ended.outHost, roster), !.outSeat = outSeat]
  BY Zenon DEF Leave
<1>. HIDE DEF ended, S
<1>6. /\ peers \in [Seats -> PeerType]
      /\ \A g \in Seats : peers[g] = IF g = f THEN NoPeer ELSE ended.peers[g]
      /\ NoPeer.floor = 0
  BY <1>3 DEF Relay, NoPeer, PeerType
<1>7. roster \in RelayMessage /\ roster.t = "roster"
  BY <1>6, RosterTyped
<1>. HIDE DEF outSeat, peers, roster
<1>8. /\ DOMAIN S = RelayFields /\ S.plan = ended.plan /\ S.begin = ended.begin /\ S.snap = ended.snap
      /\ S.changed = ended.changed /\ S.cont = ended.cont /\ S.peers = peers /\ S.floor = ended.floor
      /\ S.last = ended.last /\ S.cache = ended.cache /\ S.lastId = ended.lastId
      /\ S.nextConn = ended.nextConn /\ S.outHost = Append(ended.outHost, roster)
  BY <1>3, <1>5 DEF RelayFields
<1>9. Relay(S) /\ Quiet(ended, S)
  BY <1>3, <1>6, <1>7, <1>8 DEF Relay, Quiet
<1>10. \A g \in Seats : S.peers[g].floor <= S.floor /\ (IsTarget(ended, g) => S.peers[g] = ended.peers[g])
  BY <1>2, <1>3, <1>6, <1>8 DEF Good, Transaction, Relay
<1>11. Good(S, host, toRelay, hist)
  BY <1>2, <1>8, <1>9, <1>10, SameGood
<1>. QED  BY <1>4, <1>11 DEF IInv, S

-----------------------------------------------------------------------------
(* The host's side.                                                        *)

\* A new entry of the history changes nothing about the entries before it.
LEMMA Appended ==
  ASSUME NEW h \in Seq(Entry), NEW e \in Entry
  PROVE  LET g == Append(h, e)
         IN  /\ g \in Seq(Entry) /\ Len(g) = Len(h) + 1 /\ Len(h) \in Nat
             /\ \A n \in 1..Len(h) : n \in 1..Len(g) /\ g[n] = h[n]
             /\ g[Len(h) + 1] = e /\ 1..Len(g) = 1..Len(h) \cup {Len(h) + 1}
OBVIOUS

\* Whatever the host appends, what is on its way or admitted keeps its place.
LEMMA LongerHistory ==
  ASSUME NEW R, NEW q, NEW h \in Seq(Entry), NEW e \in Entry, Relay(R),
         History(h), Rising(q, h), Transaction(R, h), Cached(R, h),
         \/ e.at = Len(h) + 1
         \/ Len(h) # 0 /\ e.at = h[Len(h)].at
  PROVE  LET g == Append(h, e) IN History(g) /\ Rising(q, g) /\ Transaction(R, g) /\ Cached(R, g)
<1>. DEFINE g == Append(h, e)
            new == Len(h) + 1
<1>1. /\ g \in Seq(Entry) /\ Len(g) = Len(h) + 1 /\ Len(h) \in Nat
      /\ \A n \in 1..Len(h) : n \in 1..Len(g) /\ g[n] = h[n]
      /\ g[new] = e /\ 1..Len(g) = 1..Len(h) \cup {new}
  BY Appended
<1>. HIDE DEF g
<1>2. \A n : Update(h, n) => Update(g, n)
  BY <1>1 DEF Update
<1>3. Rising(q, g)
  BY <1>1, <1>2 DEF Rising
<1>4. Cached(R, g)
  BY <1>1 DEF Cached, Transaction, Relay
<1>5. Transaction(R, g)
  <2>1. R.last <= Len(g)
    BY <1>1 DEF Transaction, Relay
  <2>2. \A f \in Seats : \A i \in 1..Len(R.cont[f]) : Update(g, R.cont[f][i].n) /\ R.cont[f][i].n <= R.last
    BY <1>2 DEF Transaction
  <2>. QED  BY <2>1, <2>2 DEF Transaction
<1>6. History(g)
  <2>1. \A n \in 1..Len(h) : h[n].at \in Nat /\ 1 <= h[n].at /\ h[n].at <= n
    <3>1. \A n \in 1..Len(h) : h[n] \in Entry
      OBVIOUS
    <3>. QED  BY <3>1 DEF History, Entry
  <2>2. ASSUME NEW n \in 1..Len(g)
        PROVE  /\ 1 <= g[n].at /\ g[n].at <= n
               /\ \A m \in 1..Len(g) : g[n].at <= m /\ m <= n => g[m].at = g[n].at
    <3>1. CASE n \in 1..Len(h)
      <4>1. \A m \in 1..Len(g) : m <= n => m \in 1..Len(h)
        BY <1>1, <3>1
      <4>. QED  BY <1>1, <2>1, <3>1, <4>1 DEF History
    <3>2. CASE n = new /\ e.at = new
      BY <1>1, <3>2
    <3>3. CASE n = new /\ Len(h) # 0 /\ e.at = h[Len(h)].at
      <4>1. Len(h) \in 1..Len(h)
        BY <1>1, <3>3
      <4>2. ASSUME NEW m \in 1..Len(g), g[n].at <= m, m <= n
            PROVE  g[m].at = g[n].at
        <5>1. CASE m = new
          BY <3>3, <5>1
        <5>2. CASE m \in 1..Len(h)
          BY <1>1, <2>1, <3>3, <4>1, <4>2, <5>2 DEF History
        <5>. QED  BY <1>1, <5>1, <5>2
      <4>3. 1 <= g[n].at /\ g[n].at <= n
        BY <1>1, <2>1, <3>3, <4>1
      <4>. QED  BY <4>2, <4>3
    <3>. QED  BY <1>1, <3>1, <3>2, <3>3
  <2>3. Len(g) # 0
    BY <1>1
  <2>. QED  BY <2>2, <2>3 DEF History
<1>. QED  BY <1>3, <1>4, <1>5, <1>6 DEF g

LEMMA HostUpdateGood ==
  ASSUME IInv, NEW v \in Values, NEW e \in 1..MaxEpoch, HostUpdate(v, e)
  PROVE  IInv'
<1>. DEFINE new == Len(hist) + 1
            entry == [at |-> new, epoch |-> e, val |-> v]
            m == [t |-> "env", n |-> new]
            g == Append(hist, entry)
            q == toRelay
            p == Append(toRelay, m)
<1>1. hist' = g /\ toRelay' = p /\ UNCHANGED <<host, relay>>
  BY DEF HostUpdate
<1>2. /\ hist \in Seq(Entry) /\ Len(hist) \in Nat /\ new \in Nat /\ q \in Seq(HostMessage) /\ Relay(relay)
      /\ relay.last \in Nat /\ relay.last <= Len(hist)
  BY DEF IInv, Good, Types, Relay, Transaction
<1>3. entry \in Entry /\ entry.at = new /\ m \in HostMessage /\ m.t = "env" /\ m.n = new
  BY <1>2 DEF Entry, HostMessage
<1>. HIDE DEF entry, m
<1>4. /\ g \in Seq(Entry) /\ Len(g) = new
      /\ \A n \in 1..Len(hist) : n \in 1..Len(g) /\ g[n] = hist[n]
      /\ g[new] = entry /\ 1..Len(g) = 1..Len(hist) \cup {new}
  BY <1>2, <1>3, Appended
<1>5. History(g) /\ Rising(q, g) /\ Transaction(relay, g) /\ Cached(relay, g)
  BY <1>2, <1>3, LongerHistory DEF IInv, Good
<1>6. /\ p \in Seq(HostMessage) /\ Len(p) = Len(q) + 1 /\ Len(q) \in Nat /\ p[Len(q) + 1] = m
      /\ \A i \in 1..Len(q) : i \in 1..Len(p) /\ p[i] = q[i]
      /\ 1..Len(p) = 1..Len(q) \cup {Len(q) + 1}
  BY <1>2, <1>3
<1>. HIDE DEF g, p
<1>7. Update(g, new)
  BY <1>2, <1>3, <1>4 DEF Update
<1>8. Rising(p, g)
  <2>1. \A i \in 1..Len(q) : q[i].t \in {"env", "end"} => Serial(q[i]) < new
    BY <1>2 DEF IInv, Good, Rising, Serial, Update
  <2>2. \A i, j \in 1..Len(p) : i < j => i \in 1..Len(q)
    BY <1>6
  <2>3. \A i, j \in 1..Len(p) : i < j /\ p[j].t = "env" /\ p[i].t \in {"env", "end"} => Serial(p[i]) < p[j].n
    BY <1>3, <1>5, <1>6, <2>1, <2>2 DEF Rising
  <2>4. \A i, j \in 1..Len(p) : i < j /\ p[j].t = "end" /\ p[i].t = "end" => p[i].cut < p[j].cut
    BY <1>3, <1>5, <1>6, <2>2 DEF Rising
  <2>5. \A i \in 1..Len(p) : /\ p[i].t = "env" => Update(g, p[i].n)
                             /\ p[i].t = "end" => p[i].cut \in 1..Len(g)
    BY <1>3, <1>5, <1>6, <1>7 DEF Rising
  <2>. QED  BY <2>3, <2>4, <2>5 DEF Rising
<1>9. Paired(p)
  <2>1. \A i \in 1..Len(p) : p[i].t = "begin" => i + 1 \in 1..Len(p) /\ Pair(p[i], p[i + 1])
    BY <1>3, <1>6 DEF IInv, Good, Paired
  <2>2. ASSUME NEW i \in 1..Len(p), p[i].t = "end", i # 1
        PROVE  Pair(p[i - 1], p[i])
    <3>1. i \in 1..Len(q) /\ i - 1 \in 1..Len(q)
      BY <1>3, <1>6, <2>2
    <3>. QED  BY <1>6, <2>2, <3>1 DEF IInv, Good, Paired
  <2>. QED  BY <2>1, <2>2 DEF Paired
<1>10. Staged(host, p, g)
  BY <1>3, <1>4, <1>6 DEF IInv, Good, Staged
<1>11. Types(relay, host, p, g)
  BY <1>4, <1>6 DEF IInv, Good, Types
<1>12. Ahead(relay, host, p)
  <2>1. \A i \in 1..Len(p) : p[i].t = "env" => relay.last < p[i].n
    BY <1>2, <1>3, <1>6 DEF IInv, Good, Ahead
  <2>2. \A i \in 1..Len(p) : p[i].t = "end" => relay.begin.cut < p[i].cut \/ (i = 1 /\ Partner(relay, p[1]))
    BY <1>3, <1>6 DEF IInv, Good, Ahead
  <2>3. relay.begin.cut <= relay.last \/ (p # <<>> /\ Partner(relay, p[1]))
    BY <1>2, <1>6 DEF IInv, Good, Ahead
  <2>. QED  BY <2>1, <2>2, <2>3 DEF IInv, Good, Ahead
<1>13. Received(relay, p, g)
  <2>1. ASSUME NEW n \in 1..Len(g), g[n].at = n, ~(n <= relay.last)
        PROVE  \E i \in 1..Len(p) : p[i].t = "env" /\ p[i].n = n
    <3>1. CASE n = new
      BY <1>3, <1>6, <3>1
    <3>2. CASE n \in 1..Len(hist)
      <4>1. PICK i \in 1..Len(q) : q[i].t = "env" /\ q[i].n = n
        BY <1>4, <2>1, <3>2 DEF IInv, Good, Received
      <4>. QED  BY <1>6, <4>1
    <3>. QED  BY <1>4, <3>1, <3>2
  <2>. QED  BY <2>1 DEF Received
<1>14. Begun(relay, host, p) /\ Later(relay, host, p)
  BY <1>3, <1>6 DEF IInv, Good, Begun, Later
<1>. QED  BY <1>1, <1>5, <1>8, <1>9, <1>10, <1>11, <1>12, <1>13, <1>14 DEF IInv, Good

LEMMA HostCaptureGood ==
  ASSUME IInv, NEW sitOut \in BOOLEAN, HostCapture(sitOut)
  PROVE  IInv'
<1>. DEFINE new == Len(hist) + 1
            entry == hist[Len(hist)]
            g == Append(hist, entry)
            staged == [cut |-> new, sitOut |-> sitOut]
<1>1. /\ hist' = g /\ host' = [host EXCEPT !.captured = TRUE, !.staged = staged]
      /\ UNCHANGED <<toRelay, relay>>
  BY DEF HostCapture
<1>2. /\ hist \in Seq(Entry) /\ Len(hist) \in Nat /\ new \in Nat /\ Relay(relay) /\ host \in HostType
      /\ relay.last \in Nat /\ relay.last <= Len(hist) /\ Len(hist) # 0 /\ relay.begin.cut \in Nat
      /\ toRelay \in Seq(HostMessage)
  BY DEF IInv, Good, Types, Relay, Transaction, History
<1>3. entry \in Entry
  BY <1>2
<1>4. /\ g \in Seq(Entry) /\ Len(g) = new
      /\ \A n \in 1..Len(hist) : n \in 1..Len(g) /\ g[n] = hist[n]
      /\ g[new] = entry /\ 1..Len(g) = 1..Len(hist) \cup {new}
  BY <1>2, <1>3, Appended
<1>5. History(g) /\ Rising(toRelay, g) /\ Transaction(relay, g) /\ Cached(relay, g)
  BY <1>2, <1>3, LongerHistory DEF IInv, Good
<1>6. staged \in SnapType /\ staged.cut = new
  BY <1>2 DEF SnapType
<1>. HIDE DEF g, staged
<1>7. /\ host' \in HostType /\ host'.staged = staged /\ host'.plan = host.plan /\ host'.phase = host.phase
  BY <1>1, <1>2, <1>6 DEF HostType
<1>8. \A i \in 1..Len(toRelay) : toRelay[i].t = "end" => toRelay[i].cut < new
  BY <1>2 DEF IInv, Good, Rising
<1>9. relay.begin.cut < new
  <2>1. CASE relay.begin.cut <= relay.last
    BY <1>2, <2>1
  <2>2. CASE toRelay # <<>> /\ Partner(relay, toRelay[1])
    BY <1>2, <1>8, <2>2 DEF Partner
  <2>. QED  BY <2>1, <2>2 DEF IInv, Good, Ahead
<1>10. Types(relay', host', toRelay', hist')
  BY <1>1, <1>4, <1>7 DEF IInv, Good, Types
<1>11. Staged(host', toRelay', hist')
  BY <1>1, <1>2, <1>4, <1>6, <1>7, <1>8 DEF Staged
<1>12. Ahead(relay', host', toRelay')
  BY <1>1, <1>6, <1>7, <1>9 DEF IInv, Good, Ahead
<1>13. Received(relay', toRelay', hist')
  <2>1. g[new].at # new
    <3>1. Len(hist) \in 1..Len(hist)
      BY <1>2
    <3>2. entry.at <= Len(hist) /\ entry.at \in Nat
      BY <1>3, <3>1 DEF IInv, Good, History, Entry
    <3>. QED  BY <1>2, <1>4, <3>2
  <2>. QED  BY <1>1, <1>4, <2>1 DEF IInv, Good, Received
<1>14. Begun(relay', host', toRelay')
  BY <1>1, <1>7 DEF IInv, Good, Begun
<1>15. Later(relay', host', toRelay')
  BY <1>1, <1>2, <1>6, <1>7 DEF IInv, Good, Later
<1>16. Paired(toRelay')
  BY <1>1 DEF IInv, Good
<1>. QED  BY <1>1, <1>5, <1>10, <1>11, <1>12, <1>13, <1>14, <1>15, <1>16 DEF IInv, Good

LEMMA OtherGood ==
  ASSUME NEW R, NEW H, NEW q, NEW h, Good(R, H, q, h), NEW m \in HostMessage, m.t \in {"request", "failure"}
  PROVE  Good(R, H, Append(q, m), h)
<1>. DEFINE p == Append(q, m)
<1>1. /\ p \in Seq(HostMessage) /\ Len(p) = Len(q) + 1 /\ Len(q) \in Nat /\ p[Len(q) + 1] = m
      /\ \A i \in 1..Len(q) : i \in 1..Len(p) /\ p[i] = q[i]
      /\ 1..Len(p) = 1..Len(q) \cup {Len(q) + 1}
  BY DEF Good, Types
<1>. HIDE DEF p
<1>2. \A i \in 1..Len(p) : p[i].t \notin {"request", "failure"} => i \in 1..Len(q)
  BY <1>1
<1>3. Types(R, H, p, h)
  BY <1>1 DEF Good, Types
<1>4. Rising(p, h)
  BY <1>1, <1>2 DEF Good, Rising
<1>5. Paired(p)
  <2>1. \A i \in 1..Len(p) : p[i].t = "begin" => i + 1 \in 1..Len(p) /\ Pair(p[i], p[i + 1])
    BY <1>1, <1>2 DEF Good, Paired
  <2>2. ASSUME NEW i \in 1..Len(p), p[i].t = "end", i # 1
        PROVE  Pair(p[i - 1], p[i])
    <3>1. i \in 1..Len(q) /\ i - 1 \in 1..Len(q)
      BY <1>1, <1>2, <2>2
    <3>. QED  BY <1>1, <2>2, <3>1 DEF Good, Paired
  <2>. QED  BY <2>1, <2>2 DEF Paired
<1>6. Staged(H, p, h) /\ Begun(R, H, p) /\ Later(R, H, p)
  BY <1>1, <1>2 DEF Good, Staged, Begun, Later
<1>7. Ahead(R, H, p)
  <2>1. q # <<>> => p # <<>> /\ p[1] = q[1]
    BY <1>1 DEF Good, Types
  <2>2. \A i \in 1..Len(q) : q # <<>>
    OBVIOUS
  <2>. QED  BY <1>1, <1>2, <2>1, <2>2 DEF Good, Ahead
<1>8. Received(R, p, h)
  <2>1. ASSUME NEW n \in 1..Len(h), h[n].at = n, ~(n <= R.last)
        PROVE  \E i \in 1..Len(p) : p[i].t = "env" /\ p[i].n = n
    <3>1. PICK i \in 1..Len(q) : q[i].t = "env" /\ q[i].n = n
      BY <2>1 DEF Good, Received
    <3>. QED  BY <1>1, <3>1
  <2>. QED  BY <2>1 DEF Received
<1>. QED  BY <1>3, <1>4, <1>5, <1>6, <1>7, <1>8 DEF Good, p

LEMMA HostGood ==
  ASSUME NEW R, NEW H, NEW q, NEW h, Good(R, H, q, h), NEW K \in HostType,
         K.staged = NoSnap \/ (K.staged = H.staged /\ K.plan = H.plan /\ K.phase = H.phase),
         K.plan # 0 => Known(R, K.plan, K.phase)
  PROVE  Good(R, K, q, h)
<1>1. Types(R, K, q, h) /\ Staged(K, q, h)
  BY DEF Good, Types, Staged
<1>2. Ahead(R, K, q)
  BY DEF Good, Ahead
<1>3. Begun(R, K, q) /\ Later(R, K, q)
  BY DEF Good, Begun, Later
<1>. QED  BY <1>1, <1>2, <1>3 DEF Good

LEMMA HostRequestGood ==
  ASSUME IInv, NEW mask \in SUBSET Seats, HostRequest(mask)
  PROVE  IInv'
<1>. DEFINE m == Request(host, mask)
            K == [host EXCEPT !.asked = host.next, !.next = host.next + 1]
<1>1. toRelay' = Append(toRelay, m) /\ host' = K /\ UNCHANGED <<hist, relay>>
  BY DEF HostRequest
<1>2. /\ host \in HostType /\ hist \in Seq(Entry) /\ Len(hist) \in 1..Len(hist)
  BY DEF IInv, Good, Types, History
<1>3. hist[Len(hist)] \in Entry
  BY <1>2
<1>4. m \in HostMessage /\ m.t = "request"
  BY <1>2, <1>3 DEF Request, HostMessage, HostType, Entry, HostRequest
<1>5. K \in HostType /\ K.staged = host.staged /\ K.plan = host.plan /\ K.phase = host.phase
  <2>1. host.next + 1 \in Positive /\ host.next \in Nat
    BY <1>2 DEF HostType, Positive
  <2>. QED  BY <1>2, <2>1 DEF HostType
<1>. HIDE DEF m, K
<1>6. Good(relay, host, Append(toRelay, m), hist)
  BY <1>4, OtherGood DEF IInv
<1>7. K.plan # 0 => Known(relay, K.plan, K.phase)
  BY <1>5 DEF IInv, Good, Begun
<1>8. Good(relay, K, Append(toRelay, m), hist)
  BY <1>5, <1>6, <1>7, HostGood
<1>. QED  BY <1>1, <1>8 DEF IInv

LEMMA HostCaptureFailsGood ==
  ASSUME IInv, HostCaptureFails
  PROVE  IInv'
<1>. DEFINE m == [t |-> "failure", id |-> host.plan, reason |-> "CaptureUnavailable"]
            K == [host EXCEPT !.captured = TRUE]
<1>1. toRelay' = Append(toRelay, m) /\ host' = K /\ UNCHANGED <<hist, relay>>
  BY DEF HostCaptureFails
<1>2. host \in HostType
  BY DEF IInv, Good, Types
<1>3. m \in HostMessage /\ m.t = "failure"
  BY <1>2 DEF HostMessage, HostType, Reasons
<1>4. K \in HostType /\ K.staged = host.staged /\ K.plan = host.plan /\ K.phase = host.phase
  BY <1>2 DEF HostType
<1>. HIDE DEF m, K
<1>5. Good(relay, host, Append(toRelay, m), hist)
  BY <1>3, OtherGood DEF IInv
<1>6. K.plan # 0 => Known(relay, K.plan, K.phase)
  BY <1>4 DEF IInv, Good, Begun
<1>7. Good(relay, K, Append(toRelay, m), hist)
  BY <1>4, <1>5, <1>6, HostGood
<1>. QED  BY <1>1, <1>7 DEF IInv

LEMMA HostDeadlineGood ==
  ASSUME IInv, HostDeadline
  PROVE  IInv'
<1>. DEFINE m == [t |-> "failure", id |-> HostBusy, reason |-> "HostDeadline"]
            K == [host EXCEPT !.plan = 0, !.asked = 0, !.staged = NoSnap, !.captured = TRUE,
                              !.lastPlan = Larger(host.lastPlan, HostBusy)]
<1>1. toRelay' = Append(toRelay, m) /\ host' = K /\ UNCHANGED <<hist, relay>>
  BY DEF HostDeadline
<1>2. host \in HostType /\ HostBusy \in Nat
  BY DEF IInv, Good, Types, HostType, HostBusy
<1>3. m \in HostMessage /\ m.t = "failure"
  BY <1>2 DEF HostMessage, Reasons
<1>4. K \in HostType /\ K.staged = NoSnap /\ K.plan = 0
  BY <1>2, NothingTyped DEF HostType, Larger
<1>. HIDE DEF m, K
<1>5. Good(relay, host, Append(toRelay, m), hist)
  BY <1>3, OtherGood DEF IInv
<1>6. Good(relay, K, Append(toRelay, m), hist)
  BY <1>4, <1>5, HostGood
<1>. QED  BY <1>1, <1>6 DEF IInv

LEMMA HostPublishGood ==
  ASSUME IInv, HostPublish
  PROVE  IInv'
<1>. DEFINE cut == host.staged.cut
            id == host.plan
            phase == host.phase
            head == [t |-> "begin", id |-> id, phase |-> phase, cut |-> cut]
            tail == [t |-> "end", id |-> id, phase |-> phase, cut |-> cut, sitOut |-> host.staged.sitOut]
            q == toRelay
            p == q \o <<head, tail>>
            K == [host EXCEPT !.staged = NoSnap]
<1>1. /\ toRelay' = p /\ host' = K /\ UNCHANGED <<hist, relay>>
      /\ host.staged # NoSnap /\ host.plan # 0
  BY DEF HostPublish
<1>2. host \in HostType /\ q \in Seq(HostMessage)
  BY DEF IInv, Good, Types
<1>3. cut \in Nat /\ id \in Nat /\ phase \in Phases /\ host.staged.sitOut \in BOOLEAN
  BY <1>2 DEF HostType, SnapType
<1>4. /\ head \in HostMessage /\ tail \in HostMessage /\ head.t = "begin" /\ tail.t = "end"
      /\ Pair(head, tail) /\ tail.cut = cut /\ tail.id = id /\ tail.phase = phase
  BY <1>3 DEF HostMessage, Pair
<1>5. /\ cut \in 1..Len(hist) /\ \A i \in 1..Len(q) : q[i].t = "end" => q[i].cut < cut
      /\ relay.begin.cut < cut
  BY <1>1 DEF IInv, Good, Staged, Ahead
<1>6. K \in HostType /\ K.staged = NoSnap /\ K.plan = host.plan /\ K.phase = host.phase
  BY <1>2, NothingTyped DEF HostType
<1>7. Known(relay, id, phase) /\ id # 0
  BY <1>1 DEF IInv, Good, Begun
<1>8. \A f \in Seats : relay.plan # NoPlan /\ relay.snap = NoSnap /\ IsTarget(relay, f) /\ relay.cont[f] = <<>>
                       /\ id = relay.plan.id /\ phase = relay.plan.phase => relay.last < cut
  BY <1>1 DEF IInv, Good, Later
<1>. HIDE DEF K, head, tail, cut, id, phase
<1>9. /\ p \in Seq(HostMessage) /\ Len(p) = Len(q) + 2 /\ Len(q) \in Nat
      /\ p[Len(q) + 1] = head /\ p[Len(q) + 2] = tail
      /\ \A i \in 1..Len(q) : i \in 1..Len(p) /\ p[i] = q[i]
      /\ 1..Len(p) = 1..Len(q) \cup {Len(q) + 1, Len(q) + 2}
  BY <1>2, <1>4
<1>. HIDE DEF p
<1>10. \A i \in 1..Len(p) : p[i].t = "env" => i \in 1..Len(q)
  BY <1>4, <1>9
<1>11. \A i \in 1..Len(p) : p[i].t = "end" => i \in 1..Len(q) \/ (i = Len(q) + 2 /\ p[i] = tail)
  BY <1>4, <1>9
<1>12. Rising(p, hist)
  <2>1. \A i \in 1..Len(p) : /\ p[i].t = "env" => Update(hist, p[i].n)
                             /\ p[i].t = "end" => p[i].cut \in 1..Len(hist)
    BY <1>4, <1>5, <1>9, <1>10, <1>11 DEF IInv, Good, Rising
  <2>2. \A i, j \in 1..Len(p) : i < j /\ p[j].t = "env" /\ p[i].t \in {"env", "end"} => Serial(p[i]) < p[j].n
    <3>1. \A i, j \in 1..Len(p) : i < j /\ p[j].t = "env" => i \in 1..Len(q) /\ j \in 1..Len(q)
      BY <1>9, <1>10
    <3>. QED  BY <1>9, <3>1 DEF IInv, Good, Rising
  <2>3. ASSUME NEW i \in 1..Len(p), NEW j \in 1..Len(p), i < j, p[j].t = "end", p[i].t = "end"
        PROVE  p[i].cut < p[j].cut
    <3>1. i \in 1..Len(q)
      BY <1>9, <1>11, <2>3
    <3>2. CASE j \in 1..Len(q)
      BY <1>9, <2>3, <3>1, <3>2 DEF IInv, Good, Rising
    <3>3. CASE p[j] = tail
      BY <1>4, <1>5, <1>9, <2>3, <3>1, <3>3
    <3>. QED  BY <1>11, <2>3, <3>2, <3>3
  <2>. QED  BY <2>1, <2>2, <2>3 DEF Rising
<1>13. Paired(p)
  <2>1. ASSUME NEW i \in 1..Len(p), p[i].t = "begin"
        PROVE  i + 1 \in 1..Len(p) /\ Pair(p[i], p[i + 1])
    <3>1. CASE i \in 1..Len(q)
      BY <1>9, <2>1, <3>1 DEF IInv, Good, Paired
    <3>2. CASE i = Len(q) + 1
      <4>1. i + 1 = Len(q) + 2
        BY <1>9, <3>2
      <4>. QED  BY <1>4, <1>9, <3>2, <4>1
    <3>3. i # Len(q) + 2
      BY <1>4, <1>9, <2>1
    <3>. QED  BY <1>9, <3>1, <3>2, <3>3
  <2>2. ASSUME NEW i \in 1..Len(p), p[i].t = "end", i # 1
        PROVE  Pair(p[i - 1], p[i])
    <3>1. CASE i \in 1..Len(q)
      <4>1. i - 1 \in 1..Len(q)
        BY <1>9, <2>2, <3>1
      <4>. QED  BY <1>9, <2>2, <3>1, <4>1 DEF IInv, Good, Paired
    <3>2. CASE i = Len(q) + 2 /\ p[i] = tail
      <4>1. i - 1 = Len(q) + 1
        BY <1>9, <3>2
      <4>. QED  BY <1>4, <1>9, <3>2, <4>1
    <3>. QED  BY <1>11, <2>2, <3>1, <3>2
  <2>. QED  BY <2>1, <2>2 DEF Paired
<1>14. Types(relay, K, p, hist) /\ Staged(K, p, hist)
  BY <1>6, <1>9 DEF IInv, Good, Types, Staged
<1>15. Ahead(relay, K, p)
  <2>1. \A i \in 1..Len(p) : p[i].t = "env" => relay.last < p[i].n
    BY <1>9, <1>10 DEF IInv, Good, Ahead
  <2>2. q # <<>> => p # <<>> /\ p[1] = q[1]
    BY <1>2, <1>9
  <2>3. \A i \in 1..Len(p) : p[i].t = "end" => relay.begin.cut < p[i].cut \/ (i = 1 /\ Partner(relay, p[1]))
    <3>. SUFFICES ASSUME NEW i \in 1..Len(p), p[i].t = "end"
                  PROVE  relay.begin.cut < p[i].cut \/ (i = 1 /\ Partner(relay, p[1]))
      OBVIOUS
    <3>1. CASE i \in 1..Len(q)
      <4>1. p[i] = q[i] /\ p[1] = q[1]
        BY <1>9, <2>2, <3>1
      <4>. QED  BY <3>1, <4>1 DEF IInv, Good, Ahead
    <3>2. CASE p[i] = tail
      BY <1>4, <1>5, <3>2
    <3>. QED  BY <1>11, <3>1, <3>2
  <2>4. relay.begin.cut <= relay.last \/ (p # <<>> /\ Partner(relay, p[1]))
    BY <2>2 DEF IInv, Good, Ahead
  <2>. QED  BY <1>6, <2>1, <2>3, <2>4 DEF Ahead
<1>16. Received(relay, p, hist)
  <2>1. ASSUME NEW n \in 1..Len(hist), hist[n].at = n, ~(n <= relay.last)
        PROVE  \E i \in 1..Len(p) : p[i].t = "env" /\ p[i].n = n
    <3>1. PICK i \in 1..Len(q) : q[i].t = "env" /\ q[i].n = n
      BY <2>1 DEF IInv, Good, Received
    <3>. QED  BY <1>9, <3>1
  <2>. QED  BY <2>1 DEF Received
<1>17. Begun(relay, K, p)
  <2>1. \A i \in 1..Len(p) : p[i].t = "end" => Known(relay, p[i].id, p[i].phase) /\ p[i].id # 0
    <3>. SUFFICES ASSUME NEW i \in 1..Len(p), p[i].t = "end"
                  PROVE  Known(relay, p[i].id, p[i].phase) /\ p[i].id # 0
      OBVIOUS
    <3>1. CASE i \in 1..Len(q)
      BY <1>9, <3>1 DEF IInv, Good, Begun
    <3>2. CASE p[i] = tail
      BY <1>4, <1>7, <3>2
    <3>. QED  BY <1>11, <3>1, <3>2
  <2>2. K.plan # 0 => Known(relay, K.plan, K.phase)
    BY <1>6 DEF IInv, Good, Begun
  <2>. QED  BY <2>1, <2>2 DEF IInv, Good, Begun
<1>18. Later(relay, K, p)
  <2>. SUFFICES ASSUME NEW f \in Seats, relay.plan # NoPlan, relay.snap = NoSnap, IsTarget(relay, f),
                       relay.cont[f] = <<>>, NEW i \in 1..Len(p), p[i].t = "end", p[i].id = relay.plan.id,
                       p[i].phase = relay.plan.phase
                PROVE  relay.last < p[i].cut
    BY <1>6 DEF Later
  <2>1. CASE i \in 1..Len(q)
    BY <1>9, <2>1 DEF IInv, Good, Later
  <2>2. CASE p[i] = tail
    BY <1>4, <1>8, <2>2
  <2>. QED  BY <1>11, <2>1, <2>2
<1>. QED  BY <1>1, <1>12, <1>13, <1>14, <1>15, <1>16, <1>17, <1>18 DEF IInv, Good

-----------------------------------------------------------------------------
(* A message read by the host or by a seat.                                *)

LEMMA ReadGood ==
  ASSUME NEW H, NEW q, NEW h, Good(relay, H, q, h), NEW S, Quiet(relay, S), DOMAIN S = RelayFields,
         S.outHost \in Seq(RelayMessage), S.nextConn = relay.nextConn, S.peers = relay.peers,
         S.plan = relay.plan, S.begin = relay.begin, S.snap = relay.snap, S.changed = relay.changed,
         S.cont = relay.cont, S.floor = relay.floor, S.last = relay.last, S.cache = relay.cache,
         S.lastId = relay.lastId
  PROVE  Good(S, H, q, h)
<1>1. Relay(S)
  BY DEF Good, Types, Relay
<1>2. \A f \in Seats : S.peers[f].floor <= S.floor
  BY DEF Good, Transaction
<1>. QED  BY <1>1, <1>2, SameGood

LEMMA HostReceivesGood ==
  ASSUME IInv, NEW type, HostReceives(type)
  PROVE  /\ Good(relay', host, toRelay, hist) /\ hist' = hist
         /\ Head(relay.outHost) \in RelayMessage /\ Head(relay.outHost).t = type
         /\ type = "plan" => Known(relay', Head(relay.outHost).id, Head(relay.outHost).phase)
<1>. DEFINE S == relay'
<1>1. /\ relay' = [relay EXCEPT !.outHost = Tail(relay.outHost)] /\ relay.outHost # <<>> /\ hist' = hist
      /\ Head(relay.outHost).t = type
  BY DEF HostReceives
<1>2. Relay(relay) /\ DOMAIN relay = RelayFields /\ relay.outHost \in Seq(RelayMessage)
  BY DEF IInv, Good, Types, Relay
<1>3. /\ Head(relay.outHost) \in RelayMessage /\ Tail(relay.outHost) \in Seq(RelayMessage)
      /\ 1 \in 1..Len(relay.outHost) /\ relay.outHost[1] = Head(relay.outHost)
      /\ \A i \in 1..Len(Tail(relay.outHost)) :
           i + 1 \in 1..Len(relay.outHost) /\ Tail(relay.outHost)[i] = relay.outHost[i + 1]
  BY <1>1, <1>2
<1>4. /\ DOMAIN S = RelayFields /\ S.plan = relay.plan /\ S.begin = relay.begin /\ S.snap = relay.snap
      /\ S.changed = relay.changed /\ S.cont = relay.cont /\ S.peers = relay.peers
      /\ S.floor = relay.floor /\ S.last = relay.last /\ S.cache = relay.cache
      /\ S.lastId = relay.lastId /\ S.nextConn = relay.nextConn /\ S.outHost = Tail(relay.outHost)
  BY <1>1, <1>2 DEF RelayFields
<1>5. Quiet(relay, S)
  BY <1>3, <1>4 DEF Quiet
<1>6. Good(S, host, toRelay, hist)
  BY <1>3, <1>4, <1>5, ReadGood DEF IInv
<1>7. type = "plan" => Known(relay, Head(relay.outHost).id, Head(relay.outHost).phase)
  BY <1>1, <1>3 DEF IInv, Good, Begun
<1>. QED  BY <1>1, <1>3, <1>4, <1>6, <1>7 DEF Known

LEMMA HostRosterGood ==
  ASSUME IInv, HostRoster
  PROVE  IInv'
<1>. DEFINE roster == Head(relay.outHost).roster
            K == [host EXCEPT !.roster = roster]
<1>1. /\ Good(relay', host, toRelay, hist) /\ hist' = hist /\ toRelay' = toRelay
      /\ Head(relay.outHost) \in RelayMessage /\ Head(relay.outHost).t = "roster"
      /\ host' = K
  BY HostReceivesGood DEF HostRoster
<1>2. roster \in Rosters
  BY <1>1 DEF RelayMessage
<1>. HIDE DEF roster
<1>3. K \in HostType /\ K.staged = host.staged /\ K.plan = host.plan /\ K.phase = host.phase
  BY <1>2 DEF IInv, Good, Types, HostType
<1>4. K.plan # 0 => Known(relay', K.plan, K.phase)
  BY <1>1, <1>3 DEF Good, Begun
<1>. HIDE DEF K
<1>5. Good(relay', K, toRelay, hist)
  BY <1>1, <1>3, <1>4, HostGood
<1>. QED  BY <1>1, <1>5 DEF IInv

LEMMA HostPlanGood ==
  ASSUME IInv, HostPlan
  PROVE  IInv'
<1>. DEFINE id == Head(relay.outHost).id
            phase == Head(relay.outHost).phase
            K == [host EXCEPT !.plan = id, !.phase = phase, !.lastPlan = id,
                              !.asked = 0, !.captured = FALSE, !.staged = NoSnap]
<1>1. /\ Good(relay', host, toRelay, hist) /\ hist' = hist /\ toRelay' = toRelay
      /\ Head(relay.outHost) \in RelayMessage /\ Head(relay.outHost).t = "plan"
      /\ Known(relay', id, phase)
      /\ host' = host \/ host' = K
  BY HostReceivesGood DEF HostPlan
<1>2. id \in Nat /\ phase \in Phases
  BY <1>1 DEF RelayMessage, Positive
<1>. HIDE DEF id, phase
<1>3. K \in HostType /\ K.staged = NoSnap /\ K.plan = id /\ K.phase = phase
  BY <1>2, NothingTyped DEF IInv, Good, Types, HostType
<1>. HIDE DEF K
<1>4. Good(relay', K, toRelay, hist)
  BY <1>1, <1>3, HostGood
<1>. QED  BY <1>1, <1>4 DEF IInv

LEMMA HostResultGood ==
  ASSUME IInv, HostResult
  PROVE  IInv'
<1>. DEFINE K == [host EXCEPT !.plan = 0, !.asked = 0, !.staged = NoSnap, !.captured = TRUE]
<1>1. /\ Good(relay', host, toRelay, hist) /\ hist' = hist /\ toRelay' = toRelay
      /\ host' = host \/ host' = K
  BY HostReceivesGood DEF HostResult
<1>2. K \in HostType /\ K.staged = NoSnap /\ K.plan = 0
  BY NothingTyped DEF IInv, Good, Types, HostType
<1>. HIDE DEF K
<1>3. Good(relay', K, toRelay, hist)
  BY <1>1, <1>2, HostGood
<1>. QED  BY <1>1, <1>3 DEF IInv

LEMMA SeatReceivesGood ==
  ASSUME IInv, NEW f \in Seats, NEW type, SeatReceives(f, type)
  PROVE  IInv'
<1>. DEFINE S == relay'
<1>1. /\ relay' = [relay EXCEPT !.outSeat[f] = Tail(relay.outSeat[f])]
      /\ UNCHANGED <<hist, host, toRelay>>
  BY DEF SeatReceives
<1>2. Relay(relay) /\ DOMAIN relay = RelayFields
  BY DEF IInv, Good, Types, Relay
<1>3. /\ DOMAIN S = RelayFields /\ S.plan = relay.plan /\ S.begin = relay.begin /\ S.snap = relay.snap
      /\ S.changed = relay.changed /\ S.cont = relay.cont /\ S.peers = relay.peers
      /\ S.floor = relay.floor /\ S.last = relay.last /\ S.cache = relay.cache
      /\ S.lastId = relay.lastId /\ S.nextConn = relay.nextConn /\ S.outHost = relay.outHost
  BY <1>1, <1>2 DEF RelayFields
<1>4. Quiet(relay, S)
  BY <1>3 DEF Quiet
<1>5. Good(S, host, toRelay, hist)
  BY <1>2, <1>3, <1>4, ReadGood DEF IInv, Relay
<1>. QED  BY <1>1, <1>5 DEF IInv

-----------------------------------------------------------------------------
(* The relay's steps.                                                      *)

LEMMA RelayReceivesGood ==
  ASSUME IInv, NEW type, RelayReceives(type)
  PROVE  /\ toRelay # <<>> /\ Head(toRelay) = toRelay[1] /\ toRelay[1].t = type
         /\ toRelay[1] \in HostMessage /\ toRelay' = Tail(toRelay) /\ UNCHANGED <<hist, host>>
<1>1. toRelay \in Seq(HostMessage)
  BY DEF IInv, Good, Types
<1>. QED  BY <1>1 DEF RelayReceives

LEMMA RelayEnvelopeGood ==
  ASSUME IInv, RelayEnvelope
  PROVE  IInv'
<1>1. /\ toRelay # <<>> /\ Head(toRelay) = toRelay[1] /\ toRelay[1].t = "env"
      /\ toRelay' = Tail(toRelay) /\ UNCHANGED <<hist, host>>
  BY RelayReceivesGood DEF RelayEnvelope
<1>2. relay' = IF toRelay[1].n <= SourceFloor(relay) THEN relay ELSE AdmitEnvelope(relay, toRelay[1].n)
  BY <1>1 DEF RelayEnvelope
<1>3. Good(relay', host, Tail(toRelay), hist)
  BY <1>1, <1>2, EnvelopeGood DEF IInv
<1>. QED  BY <1>1, <1>3 DEF IInv

LEMMA RelayRequestGood ==
  ASSUME IInv, RelayRequest
  PROVE  IInv'
<1>. DEFINE m == toRelay[1]
<1>1. /\ toRelay # <<>> /\ Head(toRelay) = m /\ m.t = "request" /\ m \in HostMessage
      /\ toRelay' = Tail(toRelay) /\ UNCHANGED <<hist, host>> /\ relay' = AdmitRequest(relay, m)
  BY RelayReceivesGood DEF RelayRequest
<1>2. m \in RequestType
  BY <1>1 DEF HostMessage, RequestType
<1>3. Good(relay, host, Tail(toRelay), hist)
  BY <1>1, TailGood DEF IInv, Partner
<1>. HIDE DEF m
<1>4. Good(AdmitRequest(relay, m), host, Tail(toRelay), hist)
  BY <1>2, <1>3, RequestGood
<1>. QED  BY <1>1, <1>4 DEF IInv

LEMMA RelayBeginGood ==
  ASSUME IInv, RelayBegin
  PROVE  IInv'
<1>1. /\ toRelay # <<>> /\ toRelay[1].t = "begin"
      /\ toRelay' = Tail(toRelay) /\ UNCHANGED <<hist, host>> /\ relay' = AdmitBegin(relay, toRelay[1])
  BY RelayReceivesGood DEF RelayBegin
<1>2. Good(AdmitBegin(relay, toRelay[1]), host, Tail(toRelay), hist)
  BY <1>1, BeginGood DEF IInv
<1>. QED  BY <1>1, <1>2 DEF IInv

LEMMA RelayEndGood ==
  ASSUME IInv, RelayEnd
  PROVE  IInv'
<1>1. /\ toRelay # <<>> /\ toRelay[1].t = "end"
      /\ toRelay' = Tail(toRelay) /\ UNCHANGED <<hist, host>> /\ relay' = AdmitEnd(relay, toRelay[1])
  BY RelayReceivesGood DEF RelayEnd
<1>2. Good(AdmitEnd(relay, toRelay[1]), host, Tail(toRelay), hist)
  BY <1>1, EndGood DEF IInv
<1>. QED  BY <1>1, <1>2 DEF IInv

LEMMA FinishGood ==
  ASSUME NEW R, NEW H, NEW q, NEW h, Good(R, H, q, h), NEW reason \in Reasons
  PROVE  Good(Finish(R, reason), H, q, h)
<1>1. Relay(R) /\ (R.plan = NoPlan => Clean(R))
  BY TransactionClean DEF Good, Types
<1>. QED  BY <1>1, Ends, EndedGood

LEMMA RelayFailureGood ==
  ASSUME IInv, RelayFailure
  PROVE  IInv'
<1>. DEFINE m == toRelay[1]
<1>1. /\ toRelay # <<>> /\ Head(toRelay) = m /\ m.t = "failure" /\ m \in HostMessage
      /\ toRelay' = Tail(toRelay) /\ UNCHANGED <<hist, host>>
      /\ relay' = relay \/ relay' = Finish(relay, m.reason)
  BY RelayReceivesGood DEF RelayFailure
<1>2. m.reason \in Reasons
  BY <1>1 DEF HostMessage
<1>3. Good(relay, host, Tail(toRelay), hist)
  BY <1>1, TailGood DEF IInv, Partner
<1>. HIDE DEF m
<1>4. Good(Finish(relay, m.reason), host, Tail(toRelay), hist)
  BY <1>2, <1>3, FinishGood
<1>. QED  BY <1>1, <1>3, <1>4 DEF IInv

-----------------------------------------------------------------------------
(* The invariant.                                                          *)

LEMMA InitGood == Init => IInv
<1>. SUFFICES ASSUME Init PROVE Good(relay, host, toRelay, hist)
  BY DEF IInv
<1>. DEFINE v == CHOOSE w \in Values : TRUE
            entry == [at |-> 1, epoch |-> 1, val |-> v]
            m == [t |-> "env", n |-> 1]
<1>1. v \in Values /\ 1 \in 1..MaxEpoch
  BY ResyncAssumption
<1>. HIDE DEF v
<1>2. entry \in Entry /\ entry.at = 1 /\ m \in HostMessage /\ m.t = "env" /\ m.n = 1
  BY <1>1 DEF Entry, HostMessage
<1>3. hist = <<entry>> /\ toRelay = <<m>>
  BY DEF Init, v
<1>. HIDE DEF entry, m
<1>4. /\ hist \in Seq(Entry) /\ Len(hist) = 1 /\ hist[1] = entry /\ 1..Len(hist) = {1}
      /\ toRelay \in Seq(HostMessage) /\ Len(toRelay) = 1 /\ toRelay[1] = m /\ 1..Len(toRelay) = {1}
  BY <1>2, <1>3
<1>5. host \in HostType /\ host.staged = NoSnap /\ host.plan = 0
  <2>1. [f \in Seats |-> 0] \in Rosters
    BY DEF Rosters
  <2>. QED  BY <2>1, NothingTyped DEF Init, HostType, Positive, Phases
<1>6. NoPeer \in PeerType /\ NoPeer.floor = 0
  BY DEF NoPeer, PeerType
<1>7. /\ DOMAIN relay = RelayFields /\ relay.plan = NoPlan /\ relay.begin = NoBegin /\ relay.snap = NoSnap
      /\ relay.changed = FALSE /\ relay.cont = [f \in Seats |-> <<>>] /\ relay.floor = 0 /\ relay.last = 0
      /\ relay.cache = 0 /\ relay.lastId = 0 /\ relay.nextConn = 1
      /\ relay.peers = [f \in Seats |-> NoPeer] /\ relay.outHost = <<>>
  BY DEF Init, RelayFields
<1>8. Relay(relay) /\ Clean(relay)
  <2>1. /\ relay.cont \in [Seats -> Seq(Record)] /\ relay.outHost \in Seq(RelayMessage)
        /\ relay.peers \in [Seats -> PeerType]
    BY <1>6, <1>7
  <2>2. 0 \in Nat /\ 1 \in Positive /\ FALSE \in BOOLEAN
    BY DEF Positive
  <2>. QED  BY <1>7, <2>1, <2>2, NothingTyped DEF Relay, Clean
<1>9. Types(relay, host, toRelay, hist)
  BY <1>4, <1>5, <1>8 DEF Types
<1>10. History(hist)
  BY <1>2, <1>4 DEF History
<1>11. Rising(toRelay, hist) /\ Paired(toRelay)
  BY <1>2, <1>4 DEF Rising, Paired, Update
<1>12. Staged(host, toRelay, hist)
  BY <1>5 DEF Staged
<1>13. Received(relay, toRelay, hist) /\ Cached(relay, hist)
  BY <1>2, <1>4, <1>7 DEF Received, Cached
<1>14. Begun(relay, host, toRelay)
  BY <1>2, <1>4, <1>5, <1>7 DEF Begun
<1>15. Quiet(relay, relay)
  BY DEF Quiet
<1>16. \A f \in Seats : relay.peers[f].floor <= relay.floor
  BY <1>6, <1>7
<1>. QED
  BY <1>2, <1>4, <1>7, <1>8, <1>9, <1>10, <1>11, <1>12, <1>13, <1>14, <1>15, <1>16, CleanGood

LEMMA HostNextGood ==
  ASSUME IInv, HostNext
  PROVE  IInv'
<1>1. ASSUME NEW v \in Values, NEW e \in 1..MaxEpoch, HostUpdate(v, e)
      PROVE  IInv'
  BY <1>1, HostUpdateGood
<1>2. ASSUME NEW mask \in SUBSET Seats, HostRequest(mask)
      PROVE  IInv'
  BY <1>2, HostRequestGood
<1>3. ASSUME NEW sitOut \in BOOLEAN, HostCapture(sitOut)
      PROVE  IInv'
  BY <1>3, HostCaptureGood
<1>. QED  BY <1>1, <1>2, <1>3, HostPublishGood, HostCaptureFailsGood, HostDeadlineGood, HostRosterGood,
             HostPlanGood, HostResultGood DEF HostNext

LEMMA RelayNextGood ==
  ASSUME IInv, RelayNext
  PROVE  IInv'
<1>1. CASE RelayDeadline
  <2>1. relay' = Finish(relay, "Deadline") /\ UNCHANGED <<hist, host, toRelay>>
    BY <1>1 DEF RelayDeadline
  <2>2. Good(Finish(relay, "Deadline"), host, toRelay, hist)
    BY FinishGood DEF IInv, Reasons
  <2>. QED  BY <2>1, <2>2 DEF IInv
<1>2. ASSUME NEW f \in Seats, RelayAck(f)
      PROVE  IInv'
  <2>1. relay' = AdmitAck(relay, f, Head(fromSeat[f])) /\ UNCHANGED <<hist, host, toRelay>>
    BY <1>2 DEF RelayAck
  <2>2. Good(AdmitAck(relay, f, Head(fromSeat[f])), host, toRelay, hist)
    BY AckGood DEF IInv
  <2>. QED  BY <2>1, <2>2 DEF IInv
<1>. QED  BY <1>1, <1>2, RelayEnvelopeGood, RelayRequestGood, RelayBeginGood, RelayEndGood,
             RelayFailureGood, JoinGood, LeaveGood DEF RelayNext

LEMMA SeatNextGood ==
  ASSUME IInv, SeatNext
  PROVE  IInv'
<1>1. PICK f \in Seats :
        \/ SeatBinding(f) \/ SeatPlan(f) \/ SeatBegin(f) \/ SeatEnd(f) \/ SeatEnvelope(f)
        \/ SeatCached(f) \/ SeatResult(f)
        \/ SeatConverges(f) \/ SeatFails(f) \/ SeatDeadline(f)
  BY DEF SeatNext
<1>2. \/ \E type : SeatReceives(f, type)
      \/ UNCHANGED <<hist, host, toRelay, relay>>
  BY <1>1, Zenon DEF SeatBinding, SeatPlan, SeatBegin, SeatEnd, SeatEnvelope, SeatCached, SeatResult,
                     SeatConverges, SeatFails, SeatDeadline
<1>3. CASE UNCHANGED <<hist, host, toRelay, relay>>
  BY <1>3 DEF IInv
<1>. QED  BY <1>2, <1>3, SeatReceivesGood

LEMMA NextGood == IInv /\ [Next]_vars => IInv'
<1>. SUFFICES ASSUME IInv, [Next]_vars PROVE IInv'
  OBVIOUS
<1>1. CASE ClockNext \/ UNCHANGED vars
  <2>1. UNCHANGED <<hist, host, toRelay, relay>>
    BY <1>1 DEF ClockNext, HostClock, RelayClock, vars
  <2>. QED  BY <2>1 DEF IInv
<1>. QED  BY <1>1, HostNextGood, RelayNextGood, SeatNextGood DEF Next

\* The inductive invariant: what the host sends rises, a snapshot's Begin and
\* End are neighbours, and the relay's transaction keeps in every target's
\* continuation whatever could overtake the snapshot.
THEOREM ResyncInvariant == Spec => []IInv
BY InitGood, NextGood, PTL DEF Spec

\* refreshResyncCache() and the envelope path: whatever snapshots, overtaking
\* updates, new rooms, failures, departures and late joiners come in between,
\* the cache that a late joiner is caught up from is the host's world at the
\* last serial the relay has admitted.
THEOREM CacheStaysCurrent == Spec => []CacheIsCurrent
<1>1. IInv => CacheIsCurrent
  BY DEF IInv, Good, Cached, CacheIsCurrent
<1>. QED  BY <1>1, ResyncInvariant, PTL
=============================================================================
