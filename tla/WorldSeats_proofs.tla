-------------------------- MODULE WorldSeats_proofs --------------------------
(***************************************************************************)
(* Proofs about the seats of the forced resync, on top of what                *)
(* WorldResync_proofs shows of the relay and the host.                        *)
(*                                                                           *)
(* The argument: a channel is read as the relay wrote it, so whatever waits   *)
(* in it takes the seat from where it stands to where the relay means it to   *)
(* be.  A standing names a point of a seat's life: the delivery serial it is  *)
(* bound to, how far the transaction has brought it, and the last serial of   *)
(* the world it has been sent.  Each message moves a standing on; the        *)
(* standings before and after the messages of a channel are its trace.  The   *)
(* relay's own fields agree with the last of them (Meant), the seat with the  *)
(* first (Stands), and an acknowledgement with a standing the seat has        *)
(* reached (Answers).  Once all targets have answered, no message that moves   *)
(* a standing is left in any channel.                                         *)
(***************************************************************************)
EXTENDS WorldResync_proofs, NaturalsInduction, WellFoundedInduction

Stages == {"New", "Open", "Fenced", "Planned", "Begun", "Ended", "Cut"}

\* top is the serial of the last update the seat has been sent, or the one its
\* snapshot was cut at; floor the cut of its last snapshot.
Standing == [bound : Nat, id : Nat, phase : Phases, stage : Stages, floor : Nat, cut : Nat,
             sitOut : BOOLEAN, top : Nat]

Arrival == [bound |-> 0, id |-> 0, phase |-> "Bootstrap", stage |-> "New", floor |-> 0, cut |-> 0,
            sitOut |-> FALSE, top |-> 0]

Reading(a) == a.stage \in {"Planned", "Begun", "Ended"}

\* How far a standing has come: delivery serials first, then the transaction.
Level(a) ==
  IF a.stage = "Open" THEN 7 ELSE IF a.stage = "Cut" THEN 8
  ELSE (IF a.stage = "Planned" THEN 1 ELSE IF a.stage = "Begun" THEN 2 ELSE IF a.stage = "Ended" THEN 3 ELSE 0)
       + (IF Reading(a) /\ a.phase = "Checkpoint" THEN 3 ELSE 0)
Rank(a) == 10 * a.bound + Level(a)

Alike(h, m, n) == m = n \/ (m # 0 /\ n # 0 /\ h[m].val = h[n].val /\ h[m].epoch = h[n].epoch)

At(h, n) == IF n = 0 THEN 0 ELSE h[n].at

Gapless(h, m, n) == \A u \in m + 1..n : h[u].at # u

\* Update n is the first one after m.
Follows(h, m, n) == m < n /\ Update(h, n) /\ Gapless(h, m, n - 1)

-----------------------------------------------------------------------------
(* What each message makes of a standing.                                  *)

Same(a, b) == a.bound = b.bound /\ a.id = b.id /\ a.phase = b.phase /\ a.floor = b.floor /\ a.sitOut = b.sitOut

Binds(a, m, b) ==
  /\ b.id = a.id /\ b.phase = a.phase /\ b.floor = a.floor /\ b.sitOut = a.sitOut /\ b.top = a.top
  /\ b.bound = m.delivery
  /\ \/ a.stage = "New" /\ m.delivery = 1 /\ b.stage = "Open"
     \/ a.stage \in {"Open", "Cut"} /\ m.delivery = a.bound + 1 /\ b.stage = "Fenced"
     \/ a.stage = "Ended" /\ m.delivery = a.bound /\ a.phase = "Bootstrap" /\ b.stage = "Ended"

Plans(a, m, b) ==
  /\ m.delivery = a.bound
  /\ \/ m.phase = "Bootstrap" /\ a.stage = "Fenced" /\ a.id < m.id
     \/ m.phase = "Checkpoint" /\ a.stage = "Ended" /\ a.id = m.id /\ a.phase = "Bootstrap"
  /\ b.stage = "Planned" /\ b.bound = a.bound /\ b.id = m.id /\ b.phase = m.phase
  /\ b.floor = a.floor /\ ~b.sitOut /\ b.top = a.top

Begins(a, m, b) ==
  /\ a.stage = "Planned" /\ m.id = a.id /\ m.phase = a.phase /\ a.floor < m.cut /\ a.top < m.cut
  /\ b.stage = "Begun" /\ Same(a, b) /\ b.cut = m.cut /\ b.top = a.top

EndsAt(a, m, b, h) ==
  /\ a.stage = "Begun" /\ m.id = a.id /\ m.phase = a.phase /\ m.cut = a.cut /\ m.cut \in 1..Len(h)
  /\ b.stage = "Ended" /\ b.bound = a.bound /\ b.id = a.id /\ b.phase = a.phase
  /\ b.floor = m.cut /\ b.sitOut = m.sitOut /\ b.top = IF m.sitOut THEN a.top ELSE m.cut

Carries(a, m, b, h) ==
  /\ a.stage \in {"Open", "Ended"} /\ ~a.sitOut /\ m.delivery = a.bound /\ a.floor < m.n
  /\ Follows(h, a.top, m.n)
  /\ a.stage = "Ended" /\ a.phase = "Checkpoint" => Alike(h, m.n, a.floor)
  /\ b.stage = a.stage /\ Same(a, b) /\ b.top = m.n

Catches(a, m, b, h) ==
  /\ a.stage = "Open" /\ a.bound = 1 /\ m.delivery = 1 /\ a.top = 0 /\ a.id = 0 /\ a.floor = 0 /\ ~a.sitOut
  /\ m.n \in 1..Len(h) /\ m.image = h[m.n].at
  /\ b.stage = a.stage /\ Same(a, b) /\ b.top = m.n

Results(a, m, b) ==
  /\ m.id = a.id /\ b.bound = a.bound /\ b.id = a.id /\ b.phase = a.phase /\ b.floor = a.floor /\ b.top = a.top
  /\ IF m.reason = "Converged" THEN a.stage = "Ended" /\ b.stage = "Open" /\ b.sitOut = a.sitOut
     ELSE a.stage \in {"Planned", "Ended"} /\ b.stage = "Cut" /\ ~b.sitOut

Moves(a, m, b, h) ==
  \/ m.t = "binding" /\ Binds(a, m, b)
  \/ m.t = "plan" /\ Plans(a, m, b)
  \/ m.t = "begin" /\ Begins(a, m, b)
  \/ m.t = "end" /\ EndsAt(a, m, b, h)
  \/ m.t = "env" /\ Carries(a, m, b, h)
  \/ m.t = "cached" /\ Catches(a, m, b, h)
  \/ m.t = "result" /\ Results(a, m, b)

-----------------------------------------------------------------------------
(* The trace of a channel.                                                 *)

\* Nothing but the result of a settled transaction opens a seat.
Settled(a, b) == a.stage \in {"Ended", "Open"} /\ Same(a, b)

Precedes(a, b) ==
  /\ Rank(a) <= Rank(b)
  /\ Rank(a) = Rank(b) => a.stage = b.stage /\ Same(a, b)
  /\ b.stage = "Open" => a = Arrival \/ Settled(a, b)

Sane(a, h) ==
  /\ a.top <= Len(h)
  /\ a.stage = "New" => a = Arrival
  /\ a.stage # "New" => a.bound # 0
  /\ Reading(a) => a.id # 0
  /\ a.stage = "Begun" => a.floor < a.cut /\ a.top < a.cut
  /\ a.stage = "Ended" => a.floor # 0 /\ (~a.sitOut => a.floor <= a.top)
  /\ a.stage = "Ended" /\ a.phase = "Checkpoint" /\ ~a.sitOut => Alike(h, a.top, a.floor)

Bears(m) == m.t \in {"env", "cached", "end"}

Trace(q, g, h) ==
  /\ g \in Seq(Standing) /\ Len(g) = Len(q) + 1
  /\ \A i \in 1..Len(g) : Sane(g[i], h)
  /\ \A i \in 1..Len(q) : Moves(g[i], q[i], g[i + 1], h)
  /\ \A i, j \in 1..Len(g) : i <= j => Precedes(g[i], g[j])
  /\ \A i, j \in 1..Len(g) : i <= j /\ g[i].top # g[j].top => \E k \in i..j - 1 : Bears(q[k])

-----------------------------------------------------------------------------
(* The seat.                                                               *)

SeatType == [bound : Nat, plan : Nat, phase : Phases, lastPlan : Nat, quarantined : BOOLEAN, floor : Nat,
             header : Nat, done : Nat \X Phases, native : SnapType, finished : BOOLEAN, image : Nat]

AckType == [t : {"ack"}, id : Nat, phase : Phases, delivery : Nat, status : {"Converged", "Failed"}, cut : Nat]

SeatMessage ==
  [t : {"binding"}, delivery : Nat] \cup [t : {"plan"}, id : Nat, phase : Phases, delivery : Nat]
  \cup [t : {"begin"}, id : Nat, phase : Phases, cut : Nat]
  \cup [t : {"end"}, id : Nat, phase : Phases, cut : Nat, sitOut : BOOLEAN]
  \cup Record \cup [t : {"cached"}, n : Nat, image : Nat, delivery : Nat]
  \cup [t : {"result"}, id : Nat, reason : Reasons]

\* The updates between the seat's image and its standing, which only a checkpoint leaves.
Shown(s, a, h) == \A u \in s.image + 1..a.top : h[u].at = u => u <= s.floor /\ s.done[2] = "Checkpoint"

\* The seat's plan.
Follow(s, a, late1) ==
  /\ a.stage \in {"Fenced", "Cut"} => s.plan = 0 /\ s.quarantined
  /\ a.stage = "Open" => s.plan = 0
  /\ Reading(a) /\ s.plan = 0 => s.quarantined /\ a.id \in late1
  /\ Reading(a) /\ s.plan # 0 => s.plan = a.id /\ s.phase = a.phase
  /\ a.stage \in {"Planned", "Begun"} /\ s.plan # 0 => s.quarantined /\ s.native = NoSnap /\ ~s.finished
  /\ a.stage = "Begun" /\ s.plan # 0 => s.header = a.cut
  /\ a.stage = "Ended" /\ s.plan # 0 =>
       /\ s.native = [cut |-> a.floor, sitOut |-> a.sitOut]
       /\ s.done = <<a.id, a.phase>> /\ s.floor = a.floor
       /\ s.quarantined => s.finished

\* What it has installed.
Installed(s, a) ==
  /\ s.done[1] <= a.id
  /\ a.stage \in {"Planned", "Begun"} => s.done # <<a.id, a.phase>>
  /\ a.phase = "Bootstrap" => s.done # <<a.id, "Checkpoint">>
  /\ ~s.quarantined => s.floor = a.floor /\ (a.id # 0 => s.done = <<a.id, a.phase>>)

Stands(s, a, h, late1) ==
  /\ s.bound = a.bound /\ s.lastPlan = a.id /\ s.floor <= a.floor /\ s.image <= a.top
  /\ s.image = 0 \/ Update(h, s.image)
  /\ a.stage = "New" => s = NewSeat
  /\ Follow(s, a, late1) /\ Installed(s, a)
  /\ ~s.quarantined /\ ~a.sitOut => Shown(s, a, h)

\* The seat's world is the one it has been sent.
Certified(s, a, h) == ~s.quarantined /\ ~a.sitOut => Alike(h, s.image, At(h, a.top))

\* A seat that has acknowledged the snapshot of its standing.
Acked(s, a, h) ==
  /\ s.done = <<a.id, a.phase>> /\ s.floor = a.floor
  /\ s.plan # 0 => s.finished /\ ~s.quarantined
  /\ Certified(s, a, h)

AckRank(m) == 10 * m.delivery + IF m.phase = "Bootstrap" THEN 3 ELSE 6

Answers(b, s, a, h) ==
  \A i \in 1..Len(b) : b[i].status = "Converged" =>
    /\ AckRank(b[i]) <= Rank(a)
    /\ AckRank(b[i]) = Rank(a) => Acked(s, a, h)

-----------------------------------------------------------------------------
(* The relay.                                                              *)

Behind(h, t, c, k) == Follows(h, IF k = 1 THEN t ELSE c[k - 1].n, c[k].n)

\* The records of c are the updates from t to l.
Chain(h, t, c, l) ==
  /\ \A k \in 1..Len(c) : Behind(h, t, c, k)
  /\ LET z == IF c = <<>> THEN t ELSE c[Len(c)].n IN z <= l /\ Gapless(h, z, l)

\* A target that waits for its snapshot: the continuation goes on from before
\* every snapshot of this phase that the relay may still be sent.
Waits(P, c, a, l, h, cuts) ==
  /\ P.quarantined /\ ~P.sitOut
  /\ \E t \in a.top..l : Chain(h, t, c, l) /\ \A x \in cuts : t < x
  /\ \A k \in 1..Len(c) : c[k].delivery = P.delivery

Bound(P, R, a, l) == a.bound = P.delivery /\ a.floor = P.floor /\ a.id <= R.lastId /\ a.top <= l

Meant(R, f, a, l, h, cuts) ==
  LET P == R.peers[f] IN
  /\ Bound(P, R, a, l)
  /\ a.stage \in {"Open", "Cut", "Planned", "Ended"}
  /\ IsTarget(R, f) <=> a.stage \in {"Planned", "Ended"}
  /\ IsTarget(R, f) => /\ R.plan.targets[f] = [conn |-> P.conn, delivery |-> P.delivery]
                       /\ a.id = R.plan.id /\ a.phase = R.plan.phase
                       /\ a.stage = "Ended" <=> R.snap # NoSnap
  /\ a.stage = "Ended" => a.floor = R.snap.cut /\ a.sitOut = R.snap.sitOut
  /\ a.stage \in {"Open", "Ended"} => P.quarantined = a.sitOut /\ P.sitOut = a.sitOut
  /\ a.stage \in {"Open", "Ended"} /\ ~a.sitOut => Gapless(h, a.top, l)
  /\ a.stage = "Cut" => P.quarantined /\ ~P.sitOut
  /\ a.stage = "Planned" => Waits(P, R.cont[f], a, l, h, cuts)

Final(g) == g[Len(g)]

Life(R, f, s, b, g, l, h, cuts, late1) ==
  /\ Trace(R.outSeat[f], g, h)
  /\ Meant(R, f, Final(g), l, h, cuts)
  /\ Stands(s, g[1], h, late1)
  /\ (\E i \in 1..Len(g) : g[i].stage = "Open") => Certified(s, g[1], h)
  /\ Answers(b, s, g[1], h)
  /\ f \in R.acks => IsTarget(R, f) /\ Rank(g[1]) = Rank(Final(g)) /\ Acked(s, g[1], h)

Absent(R, f, s, b) == /\ R.outSeat[f] = <<>> /\ s = NewSeat /\ b = <<>> /\ R.peers[f] = NoPeer
                      /\ f \notin R.acks /\ ~IsTarget(R, f)

\* l is the last serial the relay has admitted, or the one before the update it is admitting.
Mail(R, f, s, b, l, h, cuts, late1) ==
  IF R.peers[f].conn = 0 THEN Absent(R, f, s, b)
  ELSE \E g : Life(R, f, s, b, g, l, h, cuts, late1)

\* The cuts of the snapshots of this phase that may still reach the relay.
OfPhase(R, id, phase) == R.plan # NoPlan /\ id = R.plan.id /\ phase = R.plan.phase

Cuts(R, H, q) ==
  {q[i].cut : i \in {j \in 1..Len(q) : q[j].t = "end" /\ OfPhase(R, q[j].id, q[j].phase)}}
  \cup {c \in {H.staged.cut} : H.staged # NoSnap /\ OfPhase(R, H.plan, H.phase)}

AboveFloor(R, H, q) ==
  /\ \A i \in 1..Len(q) : q[i].t = "end" => R.floor < q[i].cut
  /\ H.staged # NoSnap => R.floor < H.staged.cut

Boss(h, n) == h[n].val \in BossRows

\* No update the relay has admitted since the cut is news, unless it says so.
NoNews(R, h, l) ==
  R.snap # NoSnap /\ ~R.changed =>
    \A n \in R.snap.cut + 1..l : (R.snap.sitOut /\ Boss(h, n)) \/ Alike(h, n, R.snap.cut)

\* A snapshot is the world of the update before it.
Copies(h) == \A n \in 1..Len(h) : h[h[n].at] = h[n]

Extra(R, H, q, h, l) ==
  /\ Copies(h) /\ AboveFloor(R, H, q) /\ NoNews(R, h, l)
  /\ R.last = 0 => R.cache = 0
  /\ \A i \in 1..Len(q) : q[i].t = "failure" => q[i].reason # "Converged"
  /\ \A f \in R.acks : f \in Seats /\ R.snap # NoSnap

SeatsTyped ==
  /\ seat \in [Seats -> SeatType] /\ fromSeat \in [Seats -> Seq(AckType)]
  /\ relay.outSeat \in [Seats -> Seq(SeatMessage)]

SInv ==
  /\ IInv /\ SeatsTyped
  /\ Extra(relay, host, toRelay, hist, relay.last)
  /\ \A f \in Seats :
       Mail(relay, f, seat[f], fromSeat[f], relay.last, hist, Cuts(relay, host, toRelay), late.relay)

-----------------------------------------------------------------------------
(* Standings and traces.                                                   *)

LEMMA Levels ==
  ASSUME NEW a \in Standing
  PROVE  /\ Level(a) \in 0..8
         /\ a.stage \in {"New", "Fenced"} => Level(a) = 0
         /\ a.stage = "Planned" => Level(a) = IF a.phase = "Bootstrap" THEN 1 ELSE 4
         /\ a.stage = "Begun" => Level(a) = IF a.phase = "Bootstrap" THEN 2 ELSE 5
         /\ a.stage = "Ended" => Level(a) = IF a.phase = "Bootstrap" THEN 3 ELSE 6
         /\ a.stage = "Open" => Level(a) = 7
         /\ a.stage = "Cut" => Level(a) = 8
BY DEF Level, Reading, Standing, Stages, Phases

LEMMA RecordIs ==
  /\ Record \subseteq SeatMessage
  /\ \A m \in Record : m.t = "env" /\ m.n \in Nat /\ m.delivery \in Nat
BY DEF SeatMessage, Record

LEMMA ArrivalIs == Arrival \in Standing /\ Rank(Arrival) = 0
BY DEF Arrival, Standing, Stages, Phases, Rank, Level, Reading

\* A message never takes a seat back.
LEMMA MovesOn ==
  ASSUME NEW a \in Standing, NEW b \in Standing, NEW m \in SeatMessage, NEW h, Moves(a, m, b, h), Sane(a, h)
  PROVE  /\ Precedes(a, b)
         /\ b.top # a.top => Bears(m)
<1>1. /\ a.bound \in Nat /\ b.bound \in Nat /\ a.phase \in Phases /\ b.phase \in Phases
      /\ a.phase = "Bootstrap" \/ a.phase = "Checkpoint"
      /\ Rank(a) = 10 * a.bound + Level(a) /\ Rank(b) = 10 * b.bound + Level(b)
  BY DEF Standing, Phases, Rank
<1>2. CASE m.t \in {"env", "cached"} \/ (m.t = "binding" /\ a.stage = "Ended")
  <2>1. Same(a, b) /\ a.stage = b.stage
    BY <1>2 DEF Moves, Binds, Carries, Catches, Same
  <2>9. m.t = "binding" => a.top = b.top
    BY DEF Moves, Binds
  <2>2. Rank(a) = Rank(b)
    BY <2>1 DEF Same, Rank, Level, Reading
  <2>3. b.stage = "Open" => Settled(a, b)
    BY <2>1 DEF Settled
  <2>4. Rank(a) <= Rank(b)
    BY <2>2, <1>1, Levels
  <2>. QED  BY <1>2, <2>1, <2>3, <2>4, <2>9 DEF Precedes, Bears
<1>3. CASE ~(m.t \in {"env", "cached"}) /\ ~(m.t = "binding" /\ a.stage = "Ended")
  <2>1. m.t \in {"binding", "plan", "begin", "end", "result"}
    BY <1>3 DEF Moves
  <2>2. Rank(a) < Rank(b)
    <3>1. CASE m.t = "binding"
      BY <1>1, <1>3, <3>1, Levels DEF Moves, Binds, Sane, Arrival
    <3>2. CASE m.t = "plan"
      BY <1>1, <3>2, Levels DEF Moves, Plans
    <3>3. CASE m.t = "begin"
      BY <1>1, <3>3, Levels DEF Moves, Begins, Same
    <3>4. CASE m.t = "end"
      BY <1>1, <3>4, Levels DEF Moves, EndsAt
    <3>5. CASE m.t = "result"
      BY <1>1, <3>5, Levels DEF Moves, Results
    <3>. QED  BY <2>1, <3>1, <3>2, <3>3, <3>4, <3>5
  <2>3. b.stage = "Open" => a = Arrival \/ Settled(a, b)
    BY <2>1, <1>3 DEF Moves, Binds, Plans, Begins, EndsAt, Results, Sane, Settled, Same
  <2>4. b.top # a.top => m.t = "end"
    BY <2>1 DEF Moves, Binds, Plans, Begins, Results
  <2>5. Rank(a) \in Nat /\ Rank(b) \in Nat
    BY <1>1, Levels
  <2>. QED  BY <2>2, <2>3, <2>4, <2>5 DEF Precedes, Bears
<1>. QED  BY <1>2, <1>3

LEMMA RankIs ==
  ASSUME NEW a \in Standing
  PROVE  /\ Rank(a) \in Nat /\ Rank(a) = 10 * a.bound + Level(a)
         /\ 10 * a.bound <= Rank(a) /\ Rank(a) <= 10 * a.bound + 8
BY Levels DEF Rank, Standing

LEMMA PrecedesAlong ==
  ASSUME NEW x \in Standing, NEW a \in Standing, NEW b \in Standing, NEW h, Sane(x, h),
         Precedes(x, a), Precedes(a, b), b.stage # "Open" \/ Rank(x) = Rank(a) \/ a.stage = "Open"
  PROVE  Precedes(x, b)
<1>1. Rank(x) \in Nat /\ Rank(a) \in Nat /\ Rank(b) \in Nat
  BY RankIs
<1>2. Rank(x) <= Rank(b) /\ (Rank(x) = Rank(b) => Rank(x) = Rank(a) /\ Rank(a) = Rank(b))
  BY <1>1 DEF Precedes
<1>3. Rank(x) = Rank(b) => x.stage = b.stage /\ Same(x, b)
  BY <1>2 DEF Precedes, Same
<1>4. b.stage = "Open" => x = Arrival \/ Settled(x, b)
  <2>1. CASE b.stage = "Open" /\ Rank(x) = Rank(a)
    <3>1. x.stage = a.stage /\ Same(x, a)
      BY <2>1 DEF Precedes
    <3>2. a = Arrival => x = Arrival
      BY <3>1 DEF Sane, Arrival
    <3>. QED  BY <2>1, <3>1, <3>2 DEF Precedes, Settled, Same
  <2>2. CASE b.stage = "Open" /\ a.stage = "Open"
    <3>1. Settled(a, b)
      BY <2>2 DEF Precedes, Arrival
    <3>. QED  BY <2>2, <3>1 DEF Precedes, Settled, Same
  <2>. QED  BY <2>1, <2>2
<1>. QED  BY <1>2, <1>3, <1>4 DEF Precedes


LEMMA SentTrace ==
  ASSUME NEW q \in Seq(SeatMessage), NEW g, NEW h, Trace(q, g, h),
         NEW m \in SeatMessage, NEW b \in Standing, Moves(Final(g), m, b, h), Sane(b, h),
         b.stage # "Open" \/ Final(g).stage = "Open" \/ \A i \in 1..Len(g) : Rank(g[i]) = Rank(Final(g))
  PROVE  LET G == Append(g, b)
         IN  /\ Append(q, m) \in Seq(SeatMessage) /\ Trace(Append(q, m), G, h)
             /\ Final(G) = b /\ G[1] = g[1] /\ Len(g) \in Nat /\ Len(G) = Len(g) + 1
             /\ \A i \in 1..Len(g) : G[i] = g[i]
<1>. DEFINE p == Append(q, m)
            G == Append(g, b)
<1>1. g \in Seq(Standing) /\ Len(q) \in Nat /\ Len(g) = Len(q) + 1
  BY DEF Trace
<1>2. /\ p \in Seq(SeatMessage) /\ Len(p) = Len(q) + 1 /\ p[Len(p)] = m
      /\ \A i \in 1..Len(q) : p[i] = q[i]
  BY <1>1
<1>3. /\ G \in Seq(Standing) /\ Len(G) = Len(g) + 1 /\ G[Len(G)] = b
      /\ \A i \in 1..Len(g) : G[i] = g[i]
  BY <1>1
<1>. HIDE DEF p, G
<1>4. /\ Final(G) = b /\ G[1] = g[1] /\ Final(g) = g[Len(g)] /\ Final(g) \in Standing
      /\ \A i \in 1..Len(g) : g[i] \in Standing
  BY <1>1, <1>3 DEF Final
<1>5. \A i \in 1..Len(G) : Sane(G[i], h)
  BY <1>1, <1>3 DEF Trace
<1>6. \A i \in 1..Len(p) : Moves(G[i], p[i], G[i + 1], h)
  BY <1>1, <1>2, <1>3, <1>4, SMTT(30) DEF Trace
<1>7. Precedes(Final(g), b) /\ (b.top # Final(g).top => Bears(m))
  <2>1. Sane(Final(g), h)
    BY <1>1, <1>4 DEF Trace
  <2>. QED  BY <2>1, <1>4, MovesOn
<1>8. ASSUME NEW i \in 1..Len(g)
      PROVE  Precedes(g[i], b)
  <2>1. Precedes(g[i], Final(g)) /\ Sane(g[i], h)
    BY <1>1, <1>4 DEF Trace
  <2>. QED  BY <2>1, <1>4, <1>7, PrecedesAlong
<1>9. Precedes(b, b)
  BY <1>7, RankIs DEF Precedes, Settled, Same, Arrival
<1>10. \A i, j \in 1..Len(G) : i <= j => Precedes(G[i], G[j])
  <2>. SUFFICES ASSUME NEW i \in 1..Len(G), NEW j \in 1..Len(G), i <= j
                PROVE  Precedes(G[i], G[j])
    OBVIOUS
  <2>1. CASE j <= Len(g)
    <3>1. i \in 1..Len(g) /\ j \in 1..Len(g)
      BY <1>1, <1>3, <2>1
    <3>2. Precedes(g[i], g[j])
      BY <3>1 DEF Trace
    <3>. QED  BY <3>1, <3>2, <1>3
  <2>2. CASE ~(j <= Len(g))
    <3>1. j = Len(G) /\ G[j] = b
      BY <1>1, <1>3, <2>2
    <3>2. i = Len(G) \/ i \in 1..Len(g)
      BY <1>1, <1>3
    <3>. QED  BY <3>1, <3>2, <1>3, <1>8, <1>9
  <2>. QED  BY <2>1, <2>2
<1>11. \A i, j \in 1..Len(G) : i <= j /\ G[i].top # G[j].top => \E k \in i..j - 1 : Bears(p[k])
  <2>. SUFFICES ASSUME NEW i \in 1..Len(G), NEW j \in 1..Len(G), i <= j, G[i].top # G[j].top
                PROVE  \E k \in i..j - 1 : Bears(p[k])
    OBVIOUS
  <2>1. CASE j <= Len(g)
    <3>1. i \in 1..Len(g) /\ j \in 1..Len(g) /\ g[i].top # g[j].top
      BY <1>1, <1>3, <2>1
    <3>2. PICK k \in i..j - 1 : Bears(q[k])
      BY <3>1 DEF Trace
    <3>3. k \in 1..Len(q)
      BY <1>1, <3>1
    <3>. QED  BY <3>2, <3>3, <1>2
  <2>2. CASE ~(j <= Len(g)) /\ b.top # Final(g).top
    <3>1. j = Len(p) + 1 /\ i # j
      BY <1>1, <1>2, <1>3, <2>2
    <3>2. Len(p) \in i..j - 1
      BY <1>1, <1>2, <3>1
    <3>. QED  BY <3>2, <2>2, <1>2, <1>7
  <2>3. CASE ~(j <= Len(g)) /\ b.top = Final(g).top
    <3>1. j = Len(g) + 1 /\ i \in 1..Len(g) /\ g[i].top # g[Len(g)].top /\ Len(g) \in 1..Len(g)
      BY <1>1, <1>3, <1>4, <2>3
    <3>2. PICK k \in i..Len(g) - 1 : Bears(q[k])
      BY <3>1 DEF Trace
    <3>3. k \in 1..Len(q) /\ k \in i..j - 1
      BY <1>1, <3>1
    <3>. QED  BY <3>2, <3>3, <1>2
  <2>. QED  BY <2>1, <2>2, <2>3
<1>12. Trace(p, G, h)
  BY <1>1, <1>2, <1>3, <1>5, <1>6, <1>10, <1>11 DEF Trace
<1>. QED  BY <1>1, <1>2, <1>3, <1>4, <1>12 DEF p, G

LEMMA ReadTrace ==
  ASSUME NEW q \in Seq(SeatMessage), q # <<>>, NEW g, NEW h, Trace(q, g, h)
  PROVE  LET G == Tail(g)
         IN  /\ Tail(q) \in Seq(SeatMessage) /\ Trace(Tail(q), G, h)
             /\ Head(q) \in SeatMessage /\ g[1] \in Standing /\ G[1] \in Standing
             /\ Sane(g[1], h) /\ Sane(G[1], h) /\ Precedes(g[1], G[1])
             /\ Moves(g[1], Head(q), G[1], h) /\ Final(G) = Final(g)
             /\ Len(g) \in Nat /\ Len(G) = Len(g) - 1 /\ \A i \in 1..Len(G) : i + 1 \in 1..Len(g) /\ G[i] = g[i + 1]
             /\ Precedes(G[1], Final(g)) /\ Final(g) \in Standing
<1>. DEFINE p == Tail(q)
            G == Tail(g)
<1>1. g \in Seq(Standing) /\ Len(q) \in Nat /\ Len(g) = Len(q) + 1 /\ Len(q) # 0
  BY DEF Trace
<1>2. /\ p \in Seq(SeatMessage) /\ Len(p) = Len(q) - 1 /\ Head(q) \in SeatMessage /\ Head(q) = q[1]
      /\ \A i \in 1..Len(p) : p[i] = q[i + 1]
  BY <1>1
<1>3. /\ G \in Seq(Standing) /\ Len(G) = Len(g) - 1
      /\ \A i \in 1..Len(G) : i + 1 \in 1..Len(g) /\ G[i] = g[i + 1]
  BY <1>1
<1>. HIDE DEF p, G
<1>4. \A i \in 1..Len(G) : Sane(G[i], h)
  BY <1>3 DEF Trace
<1>5. \A i \in 1..Len(p) : Moves(G[i], p[i], G[i + 1], h)
  <2>. SUFFICES ASSUME NEW i \in 1..Len(p)
                PROVE  Moves(G[i], p[i], G[i + 1], h)
    OBVIOUS
  <2>1. i \in 1..Len(G) /\ i + 1 \in 1..Len(G) /\ i + 1 \in 1..Len(q)
    BY <1>1, <1>2, <1>3
  <2>2. Moves(g[i + 1], q[i + 1], g[i + 1 + 1], h)
    BY <2>1 DEF Trace
  <2>. QED  BY <2>1, <2>2, <1>2, <1>3
<1>6. \A i, j \in 1..Len(G) : i <= j => Precedes(G[i], G[j])
  <2>. SUFFICES ASSUME NEW i \in 1..Len(G), NEW j \in 1..Len(G), i <= j
                PROVE  Precedes(G[i], G[j])
    OBVIOUS
  <2>1. i + 1 \in 1..Len(g) /\ j + 1 \in 1..Len(g) /\ i + 1 <= j + 1
    BY <1>1, <1>3
  <2>2. Precedes(g[i + 1], g[j + 1])
    BY <2>1 DEF Trace
  <2>. QED  BY <2>2, <1>3
<1>7. \A i, j \in 1..Len(G) : i <= j /\ G[i].top # G[j].top => \E k \in i..j - 1 : Bears(p[k])
  <2>. SUFFICES ASSUME NEW i \in 1..Len(G), NEW j \in 1..Len(G), i <= j, G[i].top # G[j].top
                PROVE  \E k \in i..j - 1 : Bears(p[k])
    OBVIOUS
  <2>. DEFINE x == i + 1
              y == j + 1
  <2>1. x \in 1..Len(g) /\ y \in 1..Len(g) /\ x <= y /\ g[x].top # g[y].top /\ x = i + 1 /\ y = j + 1
    BY <1>1, <1>3
  <2>. HIDE DEF x, y
  <2>2. PICK k \in x..y - 1 : Bears(q[k])
    BY <2>1 DEF Trace
  <2>3. k - 1 \in 1..Len(p) /\ k - 1 \in i..j - 1 /\ k - 1 + 1 = k
    BY <1>1, <1>2, <1>3, <2>1
  <2>5. Bears(p[k - 1])
    BY <2>2, <2>3, <1>2
  <2>. QED  BY <2>3, <2>5
<1>8. Trace(p, G, h)
  BY <1>1, <1>2, <1>3, <1>4, <1>5, <1>6, <1>7 DEF Trace
<1>9. /\ 1 \in 1..Len(q) /\ 1 \in 1..Len(g) /\ 2 \in 1..Len(g) /\ 1 \in 1..Len(G) /\ G[1] = g[2]
      /\ Len(g) \in 1..Len(g) /\ G[Len(G)] = g[Len(g)]
  BY <1>1, <1>3
<1>10. Moves(g[1], Head(q), G[1], h)
  BY <1>9, <1>2 DEF Trace
<1>11. Precedes(g[1], g[2]) /\ Precedes(g[2], g[Len(g)])
  BY <1>9, <1>1 DEF Trace
<1>12. Final(G) = Final(g) /\ Final(g) \in Standing /\ Final(g) = g[Len(g)]
  BY <1>9, <1>1 DEF Final
<1>13. Sane(g[1], h) /\ Sane(G[1], h) /\ g[1] \in Standing /\ G[1] \in Standing
  BY <1>9, <1>1, <1>3, <1>4 DEF Trace
<1>. QED  BY <1>1, <1>2, <1>3, <1>8, <1>9, <1>10, <1>11, <1>12, <1>13 DEF p, G


LEMMA Joined ==
  ASSUME NEW S, NEW x \in Seq(S), NEW y \in Seq(S)
  PROVE  /\ x \o y \in Seq(S) /\ Len(x \o y) = Len(x) + Len(y)
         /\ \A i \in 1..Len(x) : (x \o y)[i] = x[i]
         /\ \A i \in 1..Len(y) : (x \o y)[Len(x) + i] = y[i]
OBVIOUS

Prolonged(q, c, g, G, h) ==
  /\ q \o c \in Seq(SeatMessage) /\ Trace(q \o c, G, h)
  /\ Final(G).stage = Final(g).stage /\ Same(Final(g), Final(G))
  /\ Final(G).top = IF c = <<>> THEN Final(g).top ELSE c[Len(c)].n
  /\ G[1] = g[1] /\ Rank(Final(G)) = Rank(Final(g))
  /\ (\E i \in 1..Len(G) : G[i].stage = "Open") => \E i \in 1..Len(g) : g[i].stage = "Open"

\* Updates that follow one another carry an open or an ended standing on.
LEMMA CarriedTrace ==
  ASSUME NEW q \in Seq(SeatMessage), NEW g, NEW h \in Seq(Entry), Trace(q, g, h),
         NEW c \in Seq(Record), NEW a, a = Final(g), a.stage \in {"Open", "Ended"}, ~a.sitOut,
         \A k \in 1..Len(c) : /\ c[k].delivery = a.bound /\ a.floor < c[k].n /\ Behind(h, a.top, c, k)
                              /\ a.stage = "Ended" /\ a.phase = "Checkpoint" => Alike(h, c[k].n, a.floor)
  PROVE  \E G : Prolonged(q, c, g, G, h)
<1>. DEFINE p == q \o c
            d == [k \in 1..Len(c) |-> [a EXCEPT !.top = c[k].n]]
            G == g \o d
<1>1. g \in Seq(Standing) /\ Len(q) \in Nat /\ Len(g) = Len(q) + 1 /\ Len(g) \in 1..Len(g) /\ Len(c) \in Nat
      /\ a \in Standing /\ a = g[Len(g)]
  BY DEF Trace, Final
<1>2. Record \subseteq SeatMessage /\ \A m \in Record : m.t = "env" /\ m.n \in Nat
  BY RecordIs
<1>3. /\ p \in Seq(SeatMessage) /\ Len(p) = Len(q) + Len(c)
      /\ \A i \in 1..Len(p) : p[i] = IF i <= Len(q) THEN q[i] ELSE c[i - Len(q)]
  BY <1>1, <1>2
<1>4. \A k \in 1..Len(c) : c[k] \in Record /\ c[k].t = "env" /\ c[k].n \in Nat
  BY <1>2
<1>5. \A k \in 1..Len(c) : d[k] \in Standing /\ d[k].stage = a.stage /\ Same(a, d[k]) /\ d[k].top = c[k].n
  BY <1>1, <1>4 DEF Standing, Same
<1>6. d \in Seq(Standing) /\ Len(d) = Len(c)
  BY <1>1, <1>5
<1>. HIDE DEF p, d
<1>7. /\ G \in Seq(Standing) /\ Len(G) = Len(g) + Len(c)
      /\ \A i \in 1..Len(g) : G[i] = g[i]
      /\ \A k \in 1..Len(c) : G[Len(g) + k] = d[k]
  <2>1. G \in Seq(Standing)
    BY <1>1, <1>6, Joined
  <2>2. Len(G) = Len(g) + Len(c)
    <3>1. Len(G) = Len(g) + Len(d)
      BY <1>1, <1>6, Joined, Zenon
    <3>. QED  BY <3>1, <1>6, Zenon
  <2>3. \A i \in 1..Len(g) : G[i] = g[i]
    BY <1>1, <1>6
  <2>4. \A k \in 1..Len(c) : G[Len(g) + k] = d[k]
    BY <1>1, <1>6
  <2>. QED  BY <2>1, <2>2, <2>3, <2>4
<1>. HIDE DEF G
<1>8. ASSUME NEW i \in 1..Len(G), ~(i <= Len(g))
      PROVE  /\ i - Len(g) \in 1..Len(c) /\ G[i] = d[i - Len(g)] /\ G[i] \in Standing /\ G[i].stage = a.stage
             /\ Same(a, G[i]) /\ G[i].top = c[i - Len(g)].n /\ Rank(G[i]) = Rank(a)
  <2>1. i - Len(g) \in 1..Len(c)
    BY <1>1, <1>7, <1>8
  <2>2. G[i] = d[i - Len(g)]
    <3>1. Len(g) + (i - Len(g)) = i
      BY <1>1, <1>7
    <3>. QED  BY <2>1, <3>1, <1>7
  <2>3. Same(a, G[i]) /\ G[i].stage = a.stage
    BY <2>1, <2>2, <1>5
  <2>4. Rank(G[i]) = Rank(a)
    BY <2>3 DEF Same, Rank, Level, Reading
  <2>. QED  BY <2>1, <2>2, <2>3, <2>4, <1>5
<1>9. ASSUME NEW i \in 1..Len(G), i <= Len(g)
      PROVE  i \in 1..Len(g) /\ G[i] = g[i] /\ G[i] \in Standing
  <2>1. i \in 1..Len(g)
    BY <1>1, <1>7, <1>9
  <2>. QED  BY <2>1, <1>1, <1>7
<1>10. \A i \in 1..Len(G) : Sane(G[i], h)
  <2>. SUFFICES ASSUME NEW i \in 1..Len(G), ~(i <= Len(g))
                PROVE  Sane(G[i], h)
    BY <1>9 DEF Trace
  <2>1. Update(h, c[i - Len(g)].n)
    BY <1>8 DEF Behind, Follows
  <2>2. Sane(a, h)
    BY <1>1 DEF Trace
  <2>3. G[i].stage = "Ended" /\ G[i].phase = "Checkpoint" => Alike(h, G[i].top, G[i].floor)
    BY <1>8 DEF Same
  <2>4. G[i].top <= Len(h) /\ G[i].floor <= G[i].top
    <3>. DEFINE n == c[i - Len(g)].n
    <3>1. n \in Nat /\ n \in 1..Len(h) /\ G[i].top = n
      BY <1>8, <2>1, <1>4 DEF Update
    <3>2. G[i].floor = a.floor /\ a.floor < n /\ a.floor \in Nat
      BY <1>8, <1>1 DEF Same, Standing
    <3>. HIDE DEF n
    <3>. QED  BY <3>1, <3>2
  <2>5. G[i].stage \in {"Open", "Ended"} /\ G[i].bound # 0 /\ (Reading(G[i]) => G[i].id # 0)
        /\ (G[i].stage = "Ended" => G[i].floor # 0)
    BY <1>8, <2>2 DEF Same, Sane, Reading
  <2>. QED  BY <2>3, <2>4, <2>5 DEF Sane
<1>11. \A i \in 1..Len(p) : Moves(G[i], p[i], G[i + 1], h)
  <2>. SUFFICES ASSUME NEW i \in 1..Len(p)
                PROVE  Moves(G[i], p[i], G[i + 1], h)
    OBVIOUS
  <2>1. CASE i <= Len(q)
    <3>1. i \in 1..Len(q) /\ i \in 1..Len(G) /\ i + 1 \in 1..Len(G) /\ i <= Len(g) /\ i + 1 <= Len(g)
      BY <1>1, <1>3, <1>7, <2>1
    <3>2. Moves(g[i], q[i], g[i + 1], h)
      BY <3>1 DEF Trace
    <3>. QED  BY <3>1, <3>2, <1>3, <1>9
  <2>2. CASE ~(i <= Len(q))
    <3>. DEFINE k == i - Len(q)
    <3>1. /\ k \in 1..Len(c) /\ i + 1 \in 1..Len(G) /\ ~(i + 1 <= Len(g)) /\ i + 1 - Len(g) = k /\ i \in 1..Len(G)
          /\ p[i] = c[k] /\ (k # 1 => ~(i <= Len(g)) /\ i - Len(g) = k - 1) /\ (k = 1 => i = Len(g))
      BY <1>1, <1>3, <1>7, <2>2
    <3>2. Same(a, G[i + 1]) /\ G[i + 1].stage = a.stage /\ G[i + 1].top = c[k].n
      BY <3>1, <1>8, SMTT(30)
    <3>3. Same(a, G[i]) /\ G[i].stage = a.stage /\ G[i].top = IF k = 1 THEN a.top ELSE c[k - 1].n
      <4>1. CASE k = 1
        BY <4>1, <3>1, <1>1, <1>9 DEF Same
      <4>2. CASE k # 1
        BY <4>2, <3>1, <1>8
      <4>. QED  BY <4>1, <4>2
    <3>4. p[i].t = "env"
      BY <3>1, <1>4
    <3>. HIDE DEF k
    <3>5. Follows(h, G[i].top, p[i].n)
      BY <3>1, <3>3 DEF Behind
    <3>6. /\ c[k].delivery = a.bound /\ a.floor < c[k].n
          /\ a.stage = "Ended" /\ a.phase = "Checkpoint" => Alike(h, c[k].n, a.floor)
      BY <3>1
    <3>7. Carries(G[i], p[i], G[i + 1], h)
      BY <3>1, <3>2, <3>3, <3>5, <3>6 DEF Carries, Same
    <3>. QED  BY <3>4, <3>7 DEF Moves
  <2>. QED  BY <2>1, <2>2
<1>12. \A i, j \in 1..Len(G) : i <= j => Precedes(G[i], G[j])
  <2>. SUFFICES ASSUME NEW i \in 1..Len(G), NEW j \in 1..Len(G), i <= j
                PROVE  Precedes(G[i], G[j])
    OBVIOUS
  <2>1. CASE j <= Len(g)
    <3>1. i \in 1..Len(g) /\ j \in 1..Len(g) /\ G[i] = g[i] /\ G[j] = g[j]
      BY <1>1, <1>7, <2>1
    <3>2. Precedes(g[i], g[j])
      BY <3>1 DEF Trace
    <3>. QED  BY <3>1, <3>2
  <2>2. CASE ~(j <= Len(g))
    <3>1. Same(a, G[j]) /\ G[j].stage = a.stage /\ G[j] \in Standing /\ Rank(G[j]) = Rank(a)
      BY <2>2, <1>8
    <3>2. CASE i <= Len(g)
      <4>1. Precedes(G[i], a) /\ a # Arrival
        BY <3>2, <1>1, <1>9 DEF Trace, Arrival
      <4>. QED  BY <4>1, <3>1 DEF Precedes, Settled, Same
    <3>3. CASE ~(i <= Len(g))
      <4>1. Same(a, G[i]) /\ G[i].stage = a.stage /\ Rank(G[i]) = Rank(a) /\ Rank(a) \in Nat
        BY <3>3, <1>8, <1>1, RankIs
      <4>. QED  BY <4>1, <3>1 DEF Precedes, Settled, Same
    <3>. QED  BY <3>2, <3>3
  <2>. QED  BY <2>1, <2>2
<1>13. \A i, j \in 1..Len(G) : i <= j /\ G[i].top # G[j].top => \E k \in i..j - 1 : Bears(p[k])
  <2>. SUFFICES ASSUME NEW i \in 1..Len(G), NEW j \in 1..Len(G), i <= j, G[i].top # G[j].top
                PROVE  \E k \in i..j - 1 : Bears(p[k])
    OBVIOUS
  <2>1. CASE j <= Len(g)
    <3>1. i \in 1..Len(g) /\ j \in 1..Len(g) /\ g[i].top # g[j].top
      BY <1>1, <1>7, <2>1
    <3>2. PICK k \in i..j - 1 : Bears(q[k])
      BY <3>1 DEF Trace
    <3>3. k \in 1..Len(p) /\ k <= Len(q)
      BY <1>1, <1>3, <3>1
    <3>. QED  BY <3>2, <3>3, <1>3
  <2>2. CASE ~(j <= Len(g))
    <3>1. i # j
      OBVIOUS
    <3>2. j - 1 \in i..j - 1 /\ j - 1 \in 1..Len(p) /\ ~(j - 1 <= Len(q)) /\ j - 1 - Len(q) \in 1..Len(c)
      BY <1>1, <1>3, <1>7, <2>2, <3>1
    <3>3. p[j - 1].t = "env"
      BY <3>2, <1>3, <1>4
    <3>. QED  BY <3>2, <3>3 DEF Bears
  <2>. QED  BY <2>1, <2>2
<1>14. Trace(p, G, h)
  BY <1>1, <1>3, <1>7, <1>10, <1>11, <1>12, <1>13 DEF Trace
<1>15. Len(G) \in 1..Len(G) /\ Final(G) = G[Len(G)] /\ 1 \in 1..Len(G) /\ 1 <= Len(g)
  BY <1>1, <1>7 DEF Final
<1>16. Final(G).stage = a.stage /\ Same(a, Final(G)) /\ Rank(Final(G)) = Rank(a)
       /\ Final(G).top = IF c = <<>> THEN a.top ELSE c[Len(c)].n
  <2>1. CASE c = <<>>
    <3>1. Len(G) = Len(g) /\ Final(G) = a
      BY <2>1, <1>1, <1>7, <1>15
    <3>. QED  BY <3>1, <2>1 DEF Same
  <2>2. CASE c # <<>>
    <3>1. ~(Len(G) <= Len(g)) /\ Len(G) - Len(g) = Len(c)
      BY <2>2, <1>1, <1>7
    <3>. QED  BY <2>2, <3>1, <1>8, <1>15
  <2>. QED  BY <2>1, <2>2
<1>17. G[1] = g[1]
  BY <1>15, <1>9
<1>18. (\E i \in 1..Len(G) : G[i].stage = "Open") => \E i \in 1..Len(g) : g[i].stage = "Open"
  BY <1>1, <1>8, <1>9
<1>19. Prolonged(q, c, g, G, h)
  BY <1>1, <1>3, <1>14, <1>16, <1>17, <1>18 DEF p, Prolonged
<1>. QED  BY <1>19



-----------------------------------------------------------------------------
(* A longer history, fewer snapshots to come and a later hour keep a life.  *)

Grows(h, k) == /\ h \in Seq(Entry) /\ k \in Seq(Entry) /\ Len(h) <= Len(k)
               /\ \A i \in 1..Len(h) : k[i] = h[i]

LEMMA FollowsGrows ==
  ASSUME NEW h, NEW k, Grows(h, k), NEW m \in Nat, NEW n, Follows(h, m, n)
  PROVE  Follows(k, m, n) /\ n \in 1..Len(h) /\ n \in Nat
<1>1. m < n /\ n \in 1..Len(h) /\ h[n].at = n /\ Len(h) \in Nat /\ Len(k) \in Nat /\ Len(h) <= Len(k)
  BY DEF Follows, Update, Grows
<1>2. Update(k, n)
  BY <1>1 DEF Update, Grows
<1>3. ASSUME NEW u \in m + 1..n - 1 PROVE k[u].at # u
  <2>1. u \in 1..Len(h)
    BY <1>1
  <2>. QED  BY <2>1 DEF Follows, Gapless, Grows
<1>. QED  BY <1>1, <1>2, <1>3 DEF Follows, Gapless

LEMMA AlikeGrows ==
  ASSUME NEW h, NEW k, Grows(h, k), NEW m \in 0..Len(h), NEW n \in 0..Len(h)
  PROVE  Alike(k, m, n) <=> Alike(h, m, n)
BY DEF Alike, Grows

LEMMA SaneGrows ==
  ASSUME NEW h, NEW k, Grows(h, k), NEW a \in Standing, Sane(a, h)
  PROVE  Sane(a, k)
<1>1. a.top \in Nat /\ a.floor \in Nat /\ Len(h) \in Nat /\ Len(k) \in Nat /\ Len(h) <= Len(k) /\ a.top <= Len(h)
  BY DEF Standing, Grows, Sane
<1>2. a.stage = "Ended" /\ a.phase = "Checkpoint" /\ ~a.sitOut => Alike(k, a.top, a.floor)
  <2>1. a.stage = "Ended" /\ ~a.sitOut => a.top \in 0..Len(h) /\ a.floor \in 0..Len(h)
    BY <1>1 DEF Sane
  <2>. QED  BY <2>1, AlikeGrows DEF Sane
<1>3. a.top <= Len(k)
  BY <1>1
<1>. QED  BY <1>2, <1>3 DEF Sane

LEMMA MovesGrow ==
  ASSUME NEW h, NEW k, Grows(h, k), NEW a \in Standing, NEW b \in Standing, NEW m, Moves(a, m, b, h)
  PROVE  Moves(a, m, b, k)
<1>1. CASE m.t = "env" /\ Carries(a, m, b, h)
  <2>1. Follows(k, a.top, m.n) /\ m.n \in 1..Len(h) /\ a.floor \in Nat /\ a.floor < m.n /\ Len(h) \in Nat
    BY <1>1, FollowsGrows, SMTT(30) DEF Carries, Standing, Grows
  <2>2. Alike(k, m.n, a.floor) <=> Alike(h, m.n, a.floor)
    BY <2>1, AlikeGrows
  <2>. QED  BY <1>1, <2>1, <2>2 DEF Moves, Carries
<1>2. CASE m.t = "cached" /\ Catches(a, m, b, h)
  BY <1>2 DEF Moves, Catches, Grows
<1>3. CASE m.t = "end" /\ EndsAt(a, m, b, h)
  BY <1>3 DEF Moves, EndsAt, Grows
<1>4. CASE m.t \in {"binding", "plan", "begin", "result"}
  BY <1>4 DEF Moves
<1>. QED  BY <1>1, <1>2, <1>3, <1>4 DEF Moves

LEMMA TraceGrows ==
  ASSUME NEW h, NEW k, Grows(h, k), NEW q, NEW g, Trace(q, g, h), Len(q) \in Nat
  PROVE  Trace(q, g, k)
<1>1. \A i \in 1..Len(g) : g[i] \in Standing
  BY DEF Trace
<1>2. \A i \in 1..Len(g) : Sane(g[i], k)
  BY <1>1, SaneGrows DEF Trace
<1>3. \A i \in 1..Len(q) : Moves(g[i], q[i], g[i + 1], k)
  <2>1. \A i \in 1..Len(q) : i \in 1..Len(g) /\ i + 1 \in 1..Len(g)
    BY DEF Trace
  <2>. QED  BY <2>1, <1>1, MovesGrow DEF Trace
<1>. QED  BY <1>2, <1>3 DEF Trace

\* The update a serial shows.
LEMMA AtIs ==
  ASSUME NEW h \in Seq(Entry), History(h), NEW n \in 0..Len(h)
  PROVE  /\ At(h, n) \in 0..n /\ (n # 0 => At(h, n) \in 1..n /\ Update(h, At(h, n)))
         /\ Gapless(h, At(h, n), n)
<1>1. CASE n = 0
  BY <1>1 DEF At, Gapless
<1>2. CASE n # 0
  <2>1. n \in 1..Len(h) /\ At(h, n) = h[n].at /\ h[n].at \in Nat /\ Len(h) \in Nat /\ n \in Nat
    <3>1. n \in 1..Len(h) /\ Len(h) \in Nat /\ n \in Nat
      BY <1>2
    <3>2. h[n] \in Entry
      BY <3>1
    <3>. QED  BY <1>2, <3>1, <3>2 DEF At, Entry
  <2>2. 1 <= h[n].at /\ h[n].at <= n
    BY <2>1 DEF History
  <2>3. \A m \in 1..Len(h) : h[n].at <= m /\ m <= n => h[m].at = h[n].at
    BY <2>1 DEF History
  <2>4. Update(h, At(h, n))
    BY <2>1, <2>2, <2>3 DEF Update
  <2>5. Gapless(h, At(h, n), n)
    BY <2>1, <2>2, <2>3 DEF Gapless
  <2>. QED  BY <2>1, <2>2, <2>4, <2>5
<1>. QED  BY <1>1, <1>2

LEMMA StandsGrows ==
  ASSUME NEW h, NEW k, Grows(h, k), NEW s \in SeatType, NEW a \in Standing, Sane(a, h),
         NEW late1, NEW late2, late1 \subseteq late2, Stands(s, a, h, late1)
  PROVE  Stands(s, a, k, late2)
<1>1. s.image \in Nat /\ a.top \in Nat /\ Len(h) \in Nat /\ a.top <= Len(h) /\ Len(k) \in Nat /\ Len(h) <= Len(k)
  BY DEF SeatType, Standing, Sane, Grows
<1>2. s.image = 0 \/ Update(k, s.image)
  BY <1>1 DEF Stands, Update, Grows
<1>3. Shown(s, a, h) => Shown(s, a, k)
  BY <1>1 DEF Shown, Grows
<1>4. Follow(s, a, late2)
  BY DEF Stands, Follow
<1>. QED  BY <1>2, <1>3, <1>4 DEF Stands

LEMMA CertifiedGrows ==
  ASSUME NEW h, NEW k, Grows(h, k), History(h), NEW s \in SeatType, NEW a \in Standing, Sane(a, h),
         s.image <= a.top, Certified(s, a, h)
  PROVE  Certified(s, a, k)
<1>1. a.top \in 0..Len(h) /\ s.image \in 0..Len(h) /\ h \in Seq(Entry) /\ Len(h) \in Nat
  BY DEF SeatType, Standing, Sane, Grows
<1>2. At(k, a.top) = At(h, a.top) /\ At(h, a.top) \in 0..Len(h)
  BY <1>1, AtIs DEF At, Grows
<1>. QED  BY <1>1, <1>2, AlikeGrows DEF Certified

LEMMA ChainGrows ==
  ASSUME NEW h, NEW k, Grows(h, k), NEW t \in Nat, NEW c \in Seq(Record), NEW l \in Nat, l <= Len(h), Chain(h, t, c, l)
  PROVE  Chain(k, t, c, l)
<1>1. \A i \in 1..Len(c) : c[i].n \in Nat
  BY RecordIs
<1>2. \A i \in 1..Len(c) : Behind(k, t, c, i)
  <2>1. \A i \in 1..Len(c) : Behind(h, t, c, i)
    BY DEF Chain
  <2>. SUFFICES ASSUME NEW i \in 1..Len(c)
                PROVE  Behind(k, t, c, i)
    OBVIOUS
  <2>2. CASE i = 1
    BY <2>1, <2>2, FollowsGrows DEF Behind
  <2>3. CASE i # 1
    <3>1. c[i - 1].n \in Nat
      BY <2>3, <1>1
    <3>2. Follows(h, c[i - 1].n, c[i].n)
      BY <2>1, <2>3 DEF Behind
    <3>. QED  BY <2>3, <3>1, <3>2, FollowsGrows DEF Behind
  <2>. QED  BY <2>2, <2>3
<1>. DEFINE z == IF c = <<>> THEN t ELSE c[Len(c)].n
<1>3. z \in Nat /\ z <= l /\ Gapless(h, z, l) /\ Len(h) \in Nat
  BY <1>1 DEF Chain, Grows
<1>. HIDE DEF z
<1>4. Gapless(k, z, l)
  BY <1>3 DEF Gapless, Grows
<1>. QED  BY <1>2, <1>3, <1>4 DEF Chain, z


LEMMA MeantGrows ==
  ASSUME NEW h, NEW k, Grows(h, k), NEW R, NEW S, NEW f \in Seats, Relay(R), NEW a \in Standing,
         NEW l \in Nat, l <= Len(h), NEW cuts, NEW cuts2, \A x \in cuts2 : x \in cuts \/ (x \in Nat /\ l < x),
         S.peers[f] = R.peers[f], S.plan = R.plan, S.snap = R.snap, S.cont[f] = R.cont[f], S.lastId \in Nat,
         R.lastId <= S.lastId, Meant(R, f, a, l, h, cuts)
  PROVE  Meant(S, f, a, l, k, cuts2)
<1>. DEFINE P == R.peers[f]
            c == R.cont[f]
<1>1. c \in Seq(Record) /\ R.lastId \in Nat /\ a.id \in Nat /\ a.top \in Nat
  BY DEF Relay, Standing
<1>2. Bound(P, S, a, l)
  BY <1>1 DEF Meant, Bound
<1>3. Gapless(h, a.top, l) => Gapless(k, a.top, l)
  BY <1>1, SMTT(30) DEF Gapless, Grows
<1>4. Waits(P, c, a, l, h, cuts) => Waits(P, c, a, l, k, cuts2)
  <2>. SUFFICES ASSUME Waits(P, c, a, l, h, cuts)
                PROVE  Waits(P, c, a, l, k, cuts2)
    OBVIOUS
  <2>1. PICK t \in a.top..l : Chain(h, t, c, l) /\ \A x \in cuts : t < x
    BY DEF Waits
  <2>2. t \in Nat /\ t <= l
    BY <1>1
  <2>3. Chain(k, t, c, l)
    BY <1>1, <2>1, <2>2, ChainGrows
  <2>4. \A x \in cuts2 : t < x
    BY <2>1, <2>2
  <2>. QED  BY <2>1, <2>3, <2>4 DEF Waits
<1>5. \A i : IsTarget(S, f) <=> IsTarget(R, f)
  BY DEF IsTarget
<1>. QED  BY <1>2, <1>3, <1>4, <1>5 DEF Meant

LEMMA AckedGrows ==
  ASSUME NEW h, NEW k, Grows(h, k), History(h), NEW s \in SeatType, NEW a \in Standing, Sane(a, h),
         s.image <= a.top, Acked(s, a, h)
  PROVE  Acked(s, a, k)
BY CertifiedGrows DEF Acked

\* What of the relay a seat's life depends on.
Agree(R, S, f) ==
  /\ S.outSeat[f] = R.outSeat[f] /\ S.peers[f] = R.peers[f] /\ S.plan = R.plan /\ S.snap = R.snap
  /\ S.cont[f] = R.cont[f] /\ S.lastId \in Nat /\ R.lastId <= S.lastId
  /\ f \in S.acks => f \in R.acks

LEMMA TraceTyped ==
  ASSUME NEW q \in Seq(SeatMessage), NEW g, NEW h, Trace(q, g, h)
  PROVE  /\ g \in Seq(Standing) /\ Len(g) \in Nat /\ Len(g) = Len(q) + 1 /\ Len(q) \in Nat
         /\ 1 \in 1..Len(g) /\ Len(g) \in 1..Len(g) /\ Final(g) = g[Len(g)]
         /\ g[1] \in Standing /\ Final(g) \in Standing /\ Sane(g[1], h) /\ Sane(Final(g), h)
         /\ Precedes(g[1], Final(g))
         /\ \A i \in 1..Len(g) : g[i] \in Standing /\ Precedes(g[1], g[i]) /\ Precedes(g[i], Final(g))
<1>1. g \in Seq(Standing) /\ Len(q) \in Nat /\ Len(g) = Len(q) + 1
  BY DEF Trace
<1>2. 1 \in 1..Len(g) /\ Len(g) \in 1..Len(g) /\ Final(g) = g[Len(g)] /\ Len(g) \in Nat
  BY <1>1 DEF Final
<1>3. g[1] \in Standing /\ Final(g) \in Standing /\ \A i \in 1..Len(g) : g[i] \in Standing
  BY <1>1, <1>2
<1>4. Sane(g[1], h) /\ Sane(Final(g), h)
  BY <1>2 DEF Trace
<1>5. \A i \in 1..Len(g) : Precedes(g[1], g[i]) /\ Precedes(g[i], Final(g))
  <2>. SUFFICES ASSUME NEW i \in 1..Len(g)
                PROVE  Precedes(g[1], g[i]) /\ Precedes(g[i], Final(g))
    OBVIOUS
  <2>1. 1 <= i /\ i <= Len(g)
    BY <1>2
  <2>. QED  BY <2>1, <1>2 DEF Trace
<1>. QED  BY <1>1, <1>2, <1>3, <1>4, <1>5

LEMMA MailGrows ==
  ASSUME NEW h, NEW k, Grows(h, k), History(h), NEW R, NEW S, NEW f \in Seats, Relay(R), Agree(R, S, f),
         R.outSeat[f] \in Seq(SeatMessage), NEW s \in SeatType, NEW b,
         NEW l \in Nat, l <= Len(h), NEW cuts, NEW cuts2, \A x \in cuts2 : x \in cuts \/ (x \in Nat /\ l < x),
         NEW late1, NEW late2, late1 \subseteq late2, Mail(R, f, s, b, l, h, cuts, late1)
  PROVE  Mail(S, f, s, b, l, k, cuts2, late2)
<1>1. CASE R.peers[f].conn = 0
  BY <1>1 DEF Mail, Absent, Agree, IsTarget
<1>2. CASE R.peers[f].conn # 0
  <2>1. PICK g : Life(R, f, s, b, g, l, h, cuts, late1)
    BY <1>2 DEF Mail
  <2>. DEFINE q == R.outSeat[f]
              a == g[1]
  <2>2. Trace(q, g, h)
    BY <2>1 DEF Life
  <2>3. a \in Standing /\ Sane(a, h) /\ Final(g) \in Standing /\ Len(q) \in Nat
    BY <2>2, TraceTyped
  <2>4. Trace(q, g, k)
    BY <2>2, <2>3, TraceGrows
  <2>5. Meant(S, f, Final(g), l, k, cuts2)
    BY <2>1, <2>3, MeantGrows, ZenonT(30) DEF Life, Agree
  <2>6. Stands(s, a, h, late1) /\ Stands(s, a, k, late2) /\ s.image <= a.top
    <3>1. Stands(s, a, h, late1)
      BY <2>1 DEF Life
    <3>. QED  BY <3>1, <2>3, StandsGrows DEF Stands
  <2>7. Certified(s, a, h) => Certified(s, a, k)
    BY <2>3, <2>6, CertifiedGrows
  <2>8. Acked(s, a, h) => Acked(s, a, k)
    BY <2>3, <2>6, AckedGrows
  <2>9. Answers(b, s, a, k)
    BY <2>1, <2>8 DEF Life, Answers
  <2>10. f \in S.acks => IsTarget(S, f) /\ Rank(a) = Rank(Final(g)) /\ Acked(s, a, k)
    BY <2>1, <2>8 DEF Life, Agree, IsTarget
  <2>. HIDE DEF a, q
  <2>11. Life(S, f, s, b, g, l, k, cuts2, late2)
    BY <2>1, <2>4, <2>5, <2>6, <2>7, <2>9, <2>10 DEF Life, Agree, q, a
  <2>. QED  BY <2>11, <1>2 DEF Mail, Agree
<1>. QED  BY <1>1, <1>2


-----------------------------------------------------------------------------
(* What the relay's helpers send.                                          *)

Channels(R) == R.outSeat \in [Seats -> Seq(SeatMessage)]

\* The relay's record of a seat whose fence it has raised.
Shut(P) == [P EXCEPT !.quarantined = TRUE, !.sitOut = FALSE]

LEMMA ShutIs ==
  ASSUME NEW P \in PeerType
  PROVE  /\ Shut(P) \in PeerType /\ Shut(P).quarantined /\ ~Shut(P).sitOut /\ Shut(P).conn = P.conn
         /\ Shut(P).delivery = P.delivery /\ Shut(P).floor = P.floor
BY DEF Shut, PeerType

ResultOf(R, reason) == [t |-> "result", id |-> R.plan.id, reason |-> reason]
BindingFor(R, f) == [t |-> "binding", delivery |-> R.peers[f].delivery]
PlanFor(R, f) == [t |-> "plan", id |-> R.plan.id, phase |-> R.plan.phase, delivery |-> R.plan.targets[f].delivery]

LEMMA OneMore ==
  ASSUME NEW S, NEW q \in Seq(S), NEW x \in S, NEW y \in S
  PROVE  /\ q \o <<x>> = Append(q, x) /\ q \o <<x, y>> = Append(Append(q, x), y)
         /\ Append(q, x) \in Seq(S) /\ Append(Append(q, x), y) \in Seq(S)
         /\ <<x>> \in Seq(S) /\ <<x>> = Append(<<>>, x) /\ <<x, y>> = Append(Append(<<>>, x), y)
OBVIOUS

LEMMA TwoMore ==
  ASSUME NEW S, NEW q \in Seq(S), NEW x \in S, NEW y \in S
  PROVE  q \o <<x, y>> = Append(Append(q, x), y) /\ Append(Append(q, x), y) \in Seq(S)
OBVIOUS

\* What Finish, Deliver and Publish after Fence make of a relay's record.
Finished(R, S, reason) ==
  /\ S.plan = NoPlan /\ S.snap = NoSnap /\ S.acks = {} /\ S.last = R.last /\ S.cache = R.cache
  /\ S.lastId = R.lastId /\ S.lastId \in Nat /\ S.floor = R.floor
  /\ S.outcome = [id |-> R.plan.id, reason |-> reason]
  /\ Channels(S) /\ ResultOf(R, reason) \in SeatMessage
  /\ \A f \in Seats :
       /\ S.peers[f] = IF IsTarget(R, f) /\ reason # "Converged" THEN Shut(R.peers[f]) ELSE R.peers[f]
       /\ S.outSeat[f] = IF IsTarget(R, f) THEN Append(R.outSeat[f], ResultOf(R, reason)) ELSE R.outSeat[f]
       /\ S.cont[f] = <<>>

Sends(R, f, n) == Reaches(R, f, n) /\ ~Buffered(R, f) /\ ~R.peers[f].quarantined

Delivered(R, S, n) ==
  /\ Channels(S) /\ S.acks = R.acks /\ S.lastId \in Nat /\ S.outcome = R.outcome
  /\ \A f \in Seats :
       /\ Envelope(R, f, n) \in Record
       /\ S.outSeat[f] = IF Sends(R, f, n) THEN Append(R.outSeat[f], Envelope(R, f, n)) ELSE R.outSeat[f]

Published(R, S) ==
  /\ Channels(S) /\ S.acks = R.acks /\ S.lastId \in Nat /\ S.outcome = R.outcome
  /\ \A f \in Seats :
       /\ BindingFor(R, f) \in SeatMessage /\ PlanFor(R, f) \in SeatMessage
       /\ S.peers[f] = IF IsTarget(R, f) THEN Shut(R.peers[f]) ELSE R.peers[f]
       /\ S.outSeat[f] = IF IsTarget(R, f)
                         THEN Append(Append(R.outSeat[f], BindingFor(R, f)), PlanFor(R, f))
                         ELSE R.outSeat[f]

LEMMA FinishSends ==
  ASSUME NEW R, Relay(R), Channels(R), NEW reason \in Reasons, R.plan # NoPlan
  PROVE  Finished(R, Finish(R, reason), reason)
<1>. DEFINE S == Finish(R, reason)
<1>. DEFINE peers == [f \in Seats |-> IF IsTarget(R, f) /\ reason # "Converged"
                        THEN Shut(R.peers[f]) ELSE R.peers[f]]
            cont == [f \in Seats |-> <<>>]
            outSeat == [f \in Seats |-> IF IsTarget(R, f) THEN Append(R.outSeat[f], ResultOf(R, reason)) ELSE R.outSeat[f]]
            outcome == [id |-> R.plan.id, reason |-> reason]
            T == [R EXCEPT !.plan = NoPlan, !.begin = NoBegin, !.snap = NoSnap, !.cont = cont, !.acks = {},
                           !.outcome = outcome, !.peers = peers, !.outHost = Append(R.outHost, ResultOf(R, reason)),
                           !.outSeat = outSeat]
<1>1. S = T
  BY Zenon DEF Finish, Shut, ResultOf
<1>2. DOMAIN R = RelayFields /\ R.lastId \in Nat
  BY DEF Relay
<1>3. ResultOf(R, reason) \in SeatMessage
  BY DEF Relay, SeatMessage, PlanType, ResultOf
<1>4. \A f \in Seats : /\ peers[f] = IF IsTarget(R, f) /\ reason # "Converged"
                                     THEN Shut(R.peers[f]) ELSE R.peers[f]
                       /\ outSeat[f] = IF IsTarget(R, f) THEN Append(R.outSeat[f], ResultOf(R, reason)) ELSE R.outSeat[f]
                       /\ cont[f] = <<>>
  OBVIOUS
<1>5. outSeat \in [Seats -> Seq(SeatMessage)]
  <2>1. \A f \in Seats : R.outSeat[f] \in Seq(SeatMessage)
    BY DEF Channels
  <2>2. \A f \in Seats : Append(R.outSeat[f], ResultOf(R, reason)) \in Seq(SeatMessage)
    BY <2>1, <1>3
  <2>. QED  BY <2>1, <2>2
<1>. HIDE DEF peers, cont, outSeat, outcome, S
<1>6. /\ S.plan = NoPlan /\ S.snap = NoSnap /\ S.acks = {} /\ S.last = R.last /\ S.cache = R.cache
      /\ S.lastId = R.lastId /\ S.floor = R.floor /\ S.outcome = outcome
      /\ S.peers = peers /\ S.outSeat = outSeat /\ S.cont = cont
  BY <1>1, <1>2 DEF RelayFields
<1>7. Channels(S) /\ S.lastId \in Nat
  BY <1>2, <1>5, <1>6 DEF Channels
<1>8. \A f \in Seats :
        /\ S.peers[f] = IF IsTarget(R, f) /\ reason # "Converged"
                        THEN Shut(R.peers[f]) ELSE R.peers[f]
        /\ S.outSeat[f] = IF IsTarget(R, f) THEN Append(R.outSeat[f], ResultOf(R, reason)) ELSE R.outSeat[f]
        /\ S.cont[f] = <<>>
  BY <1>4, <1>6, Zenon
<1>9. S.outcome = [id |-> R.plan.id, reason |-> reason]
  BY <1>6 DEF outcome
<1>. QED  BY <1>3, <1>6, <1>7, <1>8, <1>9, Zenon DEF Finished, S

LEMMA DeliverSends ==
  ASSUME NEW R, Relay(R), Channels(R), NEW n \in Nat
  PROVE  Delivered(R, Deliver(R, n), n)
<1>. DEFINE S == Deliver(R, n)
<1>. DEFINE cont == [f \in Seats |-> IF Reaches(R, f, n) /\ Buffered(R, f)
                       THEN Append(R.cont[f], Envelope(R, f, n)) ELSE R.cont[f]]
            outSeat == [f \in Seats |->
                  IF Sends(R, f, n) THEN Append(R.outSeat[f], Envelope(R, f, n)) ELSE R.outSeat[f]]
            T == [R EXCEPT !.cont = cont, !.outSeat = outSeat]
<1>1. S = T
  BY Zenon DEF Deliver, Sends
<1>2. \A f \in Seats : Envelope(R, f, n) \in Record
  BY DEF Envelope, Record, Relay, PeerType
<1>3. outSeat \in [Seats -> Seq(SeatMessage)]
  <2>1. \A f \in Seats : R.outSeat[f] \in Seq(SeatMessage) /\ Envelope(R, f, n) \in SeatMessage
    BY <1>2, RecordIs DEF Channels
  <2>2. \A f \in Seats : Append(R.outSeat[f], Envelope(R, f, n)) \in Seq(SeatMessage)
    BY <2>1
  <2>. QED  BY <2>1, <2>2
<1>4. \A f \in Seats : outSeat[f] = IF Sends(R, f, n) THEN Append(R.outSeat[f], Envelope(R, f, n)) ELSE R.outSeat[f]
  OBVIOUS
<1>5. DOMAIN R = RelayFields /\ R.lastId \in Nat
  BY DEF Relay
<1>. HIDE DEF cont, outSeat, S
<1>6. S.acks = R.acks /\ S.lastId = R.lastId /\ S.outSeat = outSeat /\ S.outcome = R.outcome
  BY <1>1, <1>5 DEF RelayFields
<1>. QED  BY <1>2, <1>3, <1>4, <1>5, <1>6 DEF Channels, Delivered, S

LEMMA PublishSends ==
  ASSUME NEW R, Relay(R), Channels(R)
  PROVE  Published(R, Publish(Fence(R)))
<1>. DEFINE S == Publish(Fence(R))
<1>. DEFINE peers == [f \in Seats |->
                        IF IsTarget(R, f) THEN Shut(R.peers[f])
                        ELSE R.peers[f]]
            T == [R EXCEPT !.peers = peers]
<1>1. Fence(R) = T
  BY Zenon DEF Fence, Shut
<1>2. \A f \in Seats : peers[f] = IF IsTarget(R, f)
                                   THEN Shut(R.peers[f]) ELSE R.peers[f]
  OBVIOUS
<1>15. \A f \in Seats : peers[f].delivery = R.peers[f].delivery
  BY ShutIs DEF Relay
<1>3. DOMAIN R = RelayFields /\ R.lastId \in Nat
  BY DEF Relay
<1>. HIDE DEF peers
<1>4. /\ DOMAIN T = RelayFields /\ T.plan = R.plan /\ T.peers = peers /\ T.lastId = R.lastId /\ T.acks = R.acks
      /\ T.outSeat = R.outSeat /\ T.outHost = R.outHost /\ T.outcome = R.outcome
  BY <1>3 DEF RelayFields
<1>. HIDE DEF T
<1>. DEFINE outSeat == [f \in Seats |->
                  IF IsTarget(T, f)
                  THEN T.outSeat[f] \o << [t |-> "binding", delivery |-> T.peers[f].delivery],
                                  [t |-> "plan", id |-> T.plan.id, phase |-> T.plan.phase,
                                   delivery |-> T.plan.targets[f].delivery] >>
                  ELSE T.outSeat[f]]
            l == [t |-> "plan", id |-> T.plan.id, phase |-> T.plan.phase]
            U == [T EXCEPT !.outSeat = outSeat, !.outHost = Append(T.outHost, l)]
<1>5. S = U
  BY <1>1, Zenon DEF Publish
<1>6. \A f \in Seats : BindingFor(R, f) \in SeatMessage /\ PlanFor(R, f) \in SeatMessage
  BY DEF Relay, PeerType, PlanType, TargetType, SeatMessage, BindingFor, PlanFor
<1>7. \A f \in Seats : R.outSeat[f] \in Seq(SeatMessage)
  BY DEF Channels
<1>8. \A f \in Seats : outSeat[f] = IF IsTarget(R, f) THEN R.outSeat[f] \o <<BindingFor(R, f), PlanFor(R, f)>> ELSE R.outSeat[f]
  <2>1. \A f \in Seats : IsTarget(T, f) <=> IsTarget(R, f)
    BY <1>4 DEF IsTarget
  <2>2. \A f \in Seats : T.peers[f].delivery = R.peers[f].delivery
    BY <1>4, <1>15
  <2>. QED  BY <2>1, <2>2, <1>4 DEF BindingFor, PlanFor
<1>9. DOMAIN outSeat = Seats
  OBVIOUS
<1>. HIDE DEF outSeat, l, S
<1>10. \A f \in Seats : /\ R.outSeat[f] \o <<BindingFor(R, f), PlanFor(R, f)>> = Append(Append(R.outSeat[f], BindingFor(R, f)), PlanFor(R, f))
                        /\ R.outSeat[f] \o <<BindingFor(R, f), PlanFor(R, f)>> \in Seq(SeatMessage)
  <2>. SUFFICES ASSUME NEW f \in Seats
                PROVE  LET q == R.outSeat[f]
                           p == q \o <<BindingFor(R, f), PlanFor(R, f)>>
                       IN  p = Append(Append(q, BindingFor(R, f)), PlanFor(R, f)) /\ p \in Seq(SeatMessage)
    OBVIOUS
  <2>1. PICK q \in Seq(SeatMessage) : q = R.outSeat[f]
    BY <1>7
  <2>2. PICK x \in SeatMessage : x = BindingFor(R, f)
    BY <1>6
  <2>3. PICK y \in SeatMessage : y = PlanFor(R, f)
    BY <1>6
  <2>4. q \o <<x, y>> = Append(Append(q, x), y) /\ Append(Append(q, x), y) \in Seq(SeatMessage)
    BY TwoMore
  <2>. QED  BY <2>1, <2>2, <2>3, <2>4
<1>11. outSeat \in [Seats -> Seq(SeatMessage)]
  <2>1. \A f \in Seats : outSeat[f] \in Seq(SeatMessage)
    BY <1>7, <1>8, <1>10
  <2>2. outSeat = [f \in Seats |-> outSeat[f]]
    BY DEF outSeat
  <2>. QED  BY <2>1, <2>2
<1>12. S.acks = T.acks /\ S.lastId = T.lastId /\ S.outSeat = outSeat /\ S.peers = T.peers /\ S.outcome = T.outcome
  BY <1>4, <1>5 DEF RelayFields
<1>13. Channels(S) /\ S.acks = R.acks /\ S.lastId \in Nat /\ S.outcome = R.outcome
  BY <1>3, <1>4, <1>11, <1>12 DEF Channels
<1>14. \A f \in Seats :
        /\ S.peers[f] = IF IsTarget(R, f)
                        THEN Shut(R.peers[f]) ELSE R.peers[f]
        /\ S.outSeat[f] = IF IsTarget(R, f) THEN Append(Append(R.outSeat[f], BindingFor(R, f)), PlanFor(R, f)) ELSE R.outSeat[f]
  BY <1>2, <1>4, <1>8, <1>10, <1>12, Zenon
<1>. QED  BY <1>6, <1>13, <1>14, Zenon DEF Published, S


-----------------------------------------------------------------------------
(* A seat's mail when a transaction ends.                                  *)

LEMMA Sent ==
  ASSUME NEW R, NEW S, NEW f, NEW s, NEW b, NEW g, NEW G, NEW l, NEW l2, NEW h, NEW cuts, NEW cuts2, NEW late1,
         Life(R, f, s, b, g, l, h, cuts, late1), S.peers[f].conn # 0,
         Trace(S.outSeat[f], G, h), G[1] = g[1], Meant(S, f, Final(G), l2, h, cuts2),
         (\E i \in 1..Len(G) : G[i].stage = "Open") =>
            (\E i \in 1..Len(g) : g[i].stage = "Open") \/ Certified(s, g[1], h),
         f \in S.acks => f \in R.acks /\ IsTarget(S, f) /\ Rank(G[1]) = Rank(Final(G))
  PROVE  Mail(S, f, s, b, l2, h, cuts2, late1)
<1>1. Life(S, f, s, b, G, l2, h, cuts2, late1)
  BY DEF Life
<1>. QED  BY <1>1 DEF Mail

\* A seat outside the transaction sees nothing of its end.
LEMMA Unconcerned ==
  ASSUME NEW R, NEW S, NEW f, NEW s, NEW b, NEW l, NEW h, NEW cuts, NEW cuts2, NEW late1,
         Mail(R, f, s, b, l, h, cuts, late1), ~IsTarget(R, f), ~IsTarget(S, f), f \notin S.acks,
         S.peers[f] = R.peers[f], S.outSeat[f] = R.outSeat[f], R.lastId <= S.lastId,
         R.lastId \in Nat, S.lastId \in Nat
  PROVE  Mail(S, f, s, b, l, h, cuts2, late1)
<1>1. CASE R.peers[f].conn = 0
  BY <1>1 DEF Mail, Absent
<1>2. CASE R.peers[f].conn # 0
  <2>1. PICK g : Life(R, f, s, b, g, l, h, cuts, late1)
    BY <1>2 DEF Mail
  <2>2. Meant(R, f, Final(g), l, h, cuts) /\ Final(g).id \in Nat
    <3>1. g \in Seq(Standing) /\ Len(g) \in 1..Len(g)
      BY <2>1 DEF Life, Trace
    <3>2. Final(g) \in Standing
      BY <3>1 DEF Final
    <3>. QED  BY <2>1, <3>2 DEF Life, Standing
  <2>3. Final(g).stage \in {"Open", "Cut"}
    BY <2>2 DEF Meant
  <2>4. Bound(S.peers[f], S, Final(g), l)
    BY <2>2 DEF Meant, Bound
  <2>5. Meant(S, f, Final(g), l, h, cuts2)
    BY <2>2, <2>3, <2>4 DEF Meant
  <2>6. Life(S, f, s, b, g, l, h, cuts2, late1)
    BY <2>1, <2>5 DEF Life
  <2>. QED  BY <2>6, <1>2 DEF Mail
<1>. QED  BY <1>1, <1>2

LEMMA FinishMail ==
  ASSUME NEW R, Relay(R), Channels(R), NEW reason \in Reasons, reason # "Converged", NEW f \in Seats,
         NEW s, NEW b, NEW l \in Nat, NEW h \in Seq(Entry), NEW cuts, NEW cuts2, NEW late1,
         Mail(R, f, s, b, l, h, cuts, late1), NEW S, S = Finish(R, reason)
  PROVE  Mail(S, f, s, b, l, h, cuts2, late1)
<1>1. CASE R.plan = NoPlan
  <2>1. S = R
    BY <1>1 DEF Finish
  <2>2. ~IsTarget(R, f) /\ R.lastId \in Nat
    BY <1>1 DEF IsTarget, NoPlan, NoTargets, Relay
  <2>3. f \notin R.acks
    BY <2>2 DEF Mail, Absent, Life
  <2>. QED  BY <2>1, <2>2, <2>3, Unconcerned
<1>2. CASE R.plan # NoPlan
  <2>. DEFINE m == ResultOf(R, reason)
  <2>1. /\ S.plan = NoPlan /\ S.snap = NoSnap /\ S.acks = {} /\ S.lastId = R.lastId /\ S.lastId \in Nat
        /\ m \in SeatMessage
        /\ S.peers[f] = IF IsTarget(R, f) /\ reason # "Converged" THEN Shut(R.peers[f]) ELSE R.peers[f]
        /\ S.outSeat[f] = IF IsTarget(R, f) THEN Append(R.outSeat[f], m) ELSE R.outSeat[f]
    <3>1. Finished(R, S, reason)
      BY <1>2, FinishSends
    <3>. QED  BY <3>1 DEF Finished
  <2>. HIDE DEF m
  <2>8. R.lastId \in Nat
    BY DEF Relay
  <2>2. ~IsTarget(S, f)
    BY <2>1 DEF IsTarget, NoPlan, NoTargets
  <2>3. CASE ~IsTarget(R, f)
    BY <2>1, <2>2, <2>3, <2>8, Unconcerned
  <2>4. CASE IsTarget(R, f)
    <3>1. R.peers[f].conn # 0
      BY <2>4 DEF Mail, Absent
    <3>2. PICK g : Life(R, f, s, b, g, l, h, cuts, late1)
      BY <3>1 DEF Mail
    <3>. DEFINE a == Final(g)
                c == [a EXCEPT !.stage = "Cut", !.sitOut = FALSE]
                q == R.outSeat[f]
                P == R.peers[f]
    <3>3. q \in Seq(SeatMessage) /\ Trace(q, g, h) /\ P \in PeerType
      BY <3>2 DEF Life, Channels, Relay
    <3>4. a \in Standing /\ Sane(a, h) /\ \A i \in 1..Len(g) : g[i] \in Standing
      BY <3>3, TraceTyped
    <3>5. Meant(R, f, a, l, h, cuts)
      BY <3>2 DEF Life
    <3>6. a.stage \in {"Planned", "Ended"} /\ a.id = R.plan.id
      BY <3>5, <2>4 DEF Meant
    <3>7. /\ c \in Standing /\ c.stage = "Cut" /\ ~c.sitOut /\ c.bound = a.bound /\ c.id = a.id
          /\ c.phase = a.phase /\ c.floor = a.floor /\ c.top = a.top
      BY <3>4 DEF Standing, Stages
    <3>. HIDE DEF c
    <3>8. Moves(a, m, c, h)
      BY <3>6, <3>7 DEF Moves, Results, ResultOf, m
    <3>9. Sane(c, h)
      BY <3>4, <3>6, <3>7 DEF Sane, Reading
    <3>. HIDE DEF a, q
    <3>10. LET G == Append(g, c)
           IN  /\ Trace(Append(q, m), G, h) /\ Final(G) = c /\ G[1] = g[1]
               /\ Len(G) = Len(g) + 1 /\ Len(g) \in Nat /\ \A i \in 1..Len(g) : G[i] = g[i]
      BY <2>1, <3>3, <3>7, <3>8, <3>9, SentTrace DEF a
    <3>11. PICK G : /\ Trace(Append(q, m), G, h) /\ Final(G) = c /\ G[1] = g[1]
                    /\ Len(G) = Len(g) + 1 /\ Len(g) \in Nat /\ \A i \in 1..Len(g) : G[i] = g[i]
      BY <3>10
    <3>12. (\E i \in 1..Len(G) : G[i].stage = "Open") => \E i \in 1..Len(g) : g[i].stage = "Open"
      BY <3>7, <3>11 DEF Final
    <3>13. /\ S.peers[f].quarantined /\ ~S.peers[f].sitOut /\ S.peers[f].conn = P.conn
           /\ S.peers[f].delivery = P.delivery /\ S.peers[f].floor = P.floor
      BY <2>1, <2>4, <3>3, ShutIs
    <3>14. Bound(S.peers[f], S, c, l)
      BY <2>1, <3>5, <3>7, <3>13 DEF Meant, Bound, a
    <3>15. Meant(S, f, c, l, h, cuts2)
      BY <2>2, <3>7, <3>13, <3>14 DEF Meant
    <3>16. S.outSeat[f] = Append(q, m) /\ f \notin S.acks /\ S.peers[f].conn # 0
      BY <2>1, <2>4, <3>1, <3>13 DEF m, q
    <3>. QED  BY <3>2, <3>11, <3>12, <3>15, <3>16, Sent
  <2>. QED  BY <2>3, <2>4
<1>. QED  BY <1>1, <1>2

-----------------------------------------------------------------------------
(* A seat's mail when an update is delivered.                              *)

LEMMA FollowsFrom ==
  ASSUME NEW h, NEW z \in Nat, NEW l \in Nat, z <= l, Gapless(h, z, l), NEW n \in Nat, Follows(h, l, n)
  PROVE  Follows(h, z, n)
<1>1. l < n /\ Update(h, n) /\ Gapless(h, l, n - 1)
  BY DEF Follows
<1>2. \A u \in z + 1..n - 1 : u \in z + 1..l \/ u \in l + 1..n - 1
  BY <1>1
<1>. QED  BY <1>1, <1>2 DEF Follows, Gapless

LEMMA ChainOn ==
  ASSUME NEW h, NEW t \in Nat, NEW c \in Seq(Record), NEW l \in Nat, Chain(h, t, c, l),
         NEW n \in Nat, Follows(h, l, n), NEW e \in Record, e.n = n
  PROVE  Chain(h, t, Append(c, e), n)
<1>. DEFINE z == IF c = <<>> THEN t ELSE c[Len(c)].n
            d == Append(c, e)
<1>1. \A i \in 1..Len(c) : c[i].n \in Nat
  BY RecordIs
<1>2. z \in Nat /\ z <= l /\ Gapless(h, z, l)
  BY <1>1 DEF Chain
<1>3. Follows(h, z, n) /\ Follows(h, l, n) /\ Update(h, n)
  BY <1>2, FollowsFrom DEF Follows
<1>4. /\ Len(d) = Len(c) + 1 /\ Len(c) \in Nat /\ d[Len(c) + 1] = e /\ d # <<>>
      /\ \A i \in 1..Len(c) : d[i] = c[i]
  OBVIOUS
<1>. HIDE DEF d
<1>5. ASSUME NEW k \in 1..Len(d) PROVE Behind(h, t, d, k)
  <2>1. CASE k \in 1..Len(c)
    <3>1. Behind(h, t, c, k)
      BY <2>1 DEF Chain
    <3>2. k = 1 \/ k - 1 \in 1..Len(c)
      BY <2>1, <1>4
    <3>. QED  BY <3>1, <3>2, <2>1, <1>4, Zenon DEF Behind
  <2>2. CASE k = Len(c) + 1
    <3>1. d[k].n = n
      BY <2>2, <1>4
    <3>2. CASE c = <<>>
      BY <3>1, <3>2, <2>2, <1>3 DEF Behind
    <3>3. CASE c # <<>>
      <4>1. k # 1 /\ k - 1 = Len(c) /\ Len(c) \in 1..Len(c)
        BY <3>3, <2>2, <1>4
      <4>2. d[k - 1].n = z
        BY <4>1, <3>3, <1>4
      <4>. QED  BY <4>1, <4>2, <3>1, <1>3 DEF Behind
    <3>. QED  BY <3>2, <3>3
  <2>. QED  BY <2>1, <2>2, <1>4
<1>6. d[Len(d)].n = n /\ n <= n /\ Gapless(h, n, n)
  BY <1>4 DEF Gapless
<1>. QED  BY <1>4, <1>5, <1>6 DEF Chain, d

LEMMA DeliverMail ==
  ASSUME NEW R, Relay(R), Channels(R), NEW f \in Seats, NEW s, NEW b, NEW l \in Nat, NEW h \in Seq(Entry),
         NEW cuts, NEW cuts2, cuts2 \subseteq cuts, NEW late1, Mail(R, f, s, b, l, h, cuts, late1),
         NEW n \in Nat, Follows(h, l, n), R.peers[f].floor <= l,
         IsTarget(R, f) /\ R.snap # NoSnap /\ R.plan.phase = "Checkpoint" /\ ~R.snap.sitOut =>
            Alike(h, n, R.snap.cut),
         NEW S, S = Deliver(R, n)
  PROVE  Mail(S, f, s, b, n, h, cuts2, late1)
<1>. DEFINE e == Envelope(R, f, n)
            P == R.peers[f]
            q == R.outSeat[f]
<1>1. /\ S.plan = R.plan /\ S.snap = R.snap /\ S.peers = R.peers /\ S.lastId = R.lastId
      /\ S.cont[f] = IF Reaches(R, f, n) /\ Buffered(R, f) THEN Append(R.cont[f], e) ELSE R.cont[f]
  BY Delivers
<1>2. /\ S.acks = R.acks /\ e \in Record
      /\ S.outSeat[f] = IF Sends(R, f, n) THEN Append(q, e) ELSE q
  <2>1. Delivered(R, S, n)
    BY DeliverSends
  <2>. QED  BY <2>1 DEF Delivered
<1>3. e.n = n /\ e.delivery = P.delivery
  BY DEF Envelope
<1>4. q \in Seq(SeatMessage) /\ R.cont[f] \in Seq(Record) /\ R.lastId \in Nat /\ P \in PeerType
  BY DEF Channels, Relay
<1>5. l < n /\ (P.conn # 0 => Reaches(R, f, n))
  BY <1>4 DEF Follows, Reaches, PeerType
<1>6. IsTarget(S, f) <=> IsTarget(R, f)
  BY <1>1 DEF IsTarget
<1>. HIDE DEF e
<1>7. CASE P.conn = 0
  <2>1. Absent(R, f, s, b) /\ ~Reaches(R, f, n)
    BY <1>7 DEF Mail, Reaches
  <2>2. Absent(S, f, s, b)
    BY <2>1, <1>1, <1>2, <1>6 DEF Absent, Sends
  <2>. QED  BY <2>2, <1>7, <1>1 DEF Mail
<1>8. CASE P.conn # 0
  <2>1. PICK g : Life(R, f, s, b, g, l, h, cuts, late1)
    BY <1>8 DEF Mail
  <2>. DEFINE a == Final(g)
  <2>2. Trace(q, g, h) /\ Meant(R, f, a, l, h, cuts)
    BY <2>1 DEF Life
  <2>3. a \in Standing /\ Sane(a, h)
    BY <2>2, <1>4, TraceTyped
  <2>4. S.peers[f].conn # 0
    BY <1>8, <1>1
  <2>5. f \in S.acks => f \in R.acks /\ IsTarget(S, f) /\ Rank(g[1]) = Rank(a)
    BY <2>1, <1>2, <1>6 DEF Life
  <2>6. a.top \in Nat /\ Bound(P, S, a, n) /\ a.top <= l
    BY <2>2, <2>3, <1>1, <1>5 DEF Meant, Bound, Standing
  <2>7. CASE a.stage = "Planned"
    <3>1. IsTarget(R, f) /\ R.snap = NoSnap /\ Waits(P, R.cont[f], a, l, h, cuts)
      BY <2>2, <2>7 DEF Meant
    <3>2. R.plan # NoPlan /\ ~R.snap.sitOut /\ P.quarantined
      BY <3>1 DEF IsTarget, NoPlan, NoTargets, NoSnap, Waits
    <3>3. Buffered(R, f) /\ ~Sends(R, f, n)
      BY <3>1, <3>2 DEF Buffered, Sends
    <3>4. S.cont[f] = Append(R.cont[f], e) /\ S.outSeat[f] = q
      BY <3>3, <1>1, <1>2, <1>5, <1>8
    <3>5. Waits(P, S.cont[f], a, n, h, cuts2)
      <4>1. PICK t \in a.top..l : Chain(h, t, R.cont[f], l) /\ \A x \in cuts : t < x
        BY <3>1 DEF Waits
      <4>2. t \in Nat /\ t \in a.top..n
        BY <2>6, <1>5
      <4>3. Chain(h, t, S.cont[f], n)
        BY <4>1, <4>2, <3>4, <1>2, <1>3, <1>4, ChainOn
      <4>4. \A k \in 1..Len(S.cont[f]) : S.cont[f][k].delivery = P.delivery
        BY <3>1, <3>4, <1>2, <1>3, <1>4 DEF Waits
      <4>. QED  BY <3>1, <4>1, <4>2, <4>3, <4>4 DEF Waits
    <3>6. Meant(S, f, a, n, h, cuts2)
      BY <2>2, <2>6, <2>7, <3>1, <3>5, <1>1, <1>6 DEF Meant
    <3>. QED  BY <2>1, <2>2, <2>4, <2>5, <3>4, <3>6, Sent
  <2>8. CASE a.stage = "Cut" \/ (a.stage \in {"Open", "Ended"} /\ a.sitOut)
    <3>1. P.quarantined /\ ~Buffered(R, f)
      BY <2>2, <2>8 DEF Meant, Buffered
    <3>2. S.cont[f] = R.cont[f] /\ S.outSeat[f] = q
      BY <3>1, <1>1, <1>2 DEF Sends
    <3>3. Meant(S, f, a, n, h, cuts2)
      BY <2>2, <2>6, <2>8, <3>2, <1>1, <1>6 DEF Meant
    <3>. QED  BY <2>1, <2>2, <2>4, <2>5, <3>2, <3>3, Sent
  <2>9. CASE a.stage \in {"Open", "Ended"} /\ ~a.sitOut
    <3>1. ~P.quarantined /\ Gapless(h, a.top, l)
      BY <2>2, <2>9 DEF Meant
    <3>2. S.cont[f] = R.cont[f] /\ S.outSeat[f] = Append(q, e)
      BY <3>1, <1>1, <1>2, <1>5, <1>8 DEF Sends, Buffered
    <3>. DEFINE c == <<e>>
    <3>3. c \in Seq(Record) /\ Len(c) = 1 /\ c[1] = e /\ c # <<>> /\ q \o c = Append(q, e)
      BY <1>2, <1>4, RecordIs, OneMore
    <3>4. /\ Follows(h, a.top, n) /\ a.floor < n /\ e.delivery = a.bound
          /\ a.stage = "Ended" /\ a.phase = "Checkpoint" => Alike(h, n, a.floor)
      <4>1. Follows(h, a.top, n)
        BY <2>6, <3>1, FollowsFrom
      <4>2. a.floor = P.floor /\ a.bound = P.delivery /\ P.floor \in Nat
        BY <2>2, <1>4 DEF Meant, Bound, PeerType
      <4>3. a.floor < n
        BY <4>2, <1>5
      <4>4. a.stage = "Ended" => /\ IsTarget(R, f) /\ R.snap # NoSnap /\ a.phase = R.plan.phase
                                 /\ a.floor = R.snap.cut /\ ~R.snap.sitOut
        BY <2>2, <2>9 DEF Meant
      <4>. QED  BY <4>1, <4>2, <4>3, <4>4, <1>3
    <3>. HIDE DEF c
    <3>5. \A k \in 1..Len(c) : /\ c[k].delivery = a.bound /\ a.floor < c[k].n /\ Behind(h, a.top, c, k)
                               /\ a.stage = "Ended" /\ a.phase = "Checkpoint" => Alike(h, c[k].n, a.floor)
      BY <3>3, <3>4, <1>3 DEF Behind
    <3>6. PICK G : Prolonged(q, c, g, G, h)
      BY <1>4, <2>2, <2>9, <3>3, <3>5, CarriedTrace
    <3>7. /\ Trace(Append(q, e), G, h) /\ Final(G).stage = a.stage /\ Same(a, Final(G)) /\ Final(G).top = n
          /\ G[1] = g[1] /\ Rank(Final(G)) = Rank(a)
      BY <3>3, <3>6, <1>3 DEF Prolonged
    <3>8. (\E i \in 1..Len(G) : G[i].stage = "Open") => \E i \in 1..Len(g) : g[i].stage = "Open"
      BY <3>6 DEF Prolonged
    <3>9. Gapless(h, n, n)
      BY DEF Gapless
    <3>10. Meant(S, f, Final(G), n, h, cuts2)
      <4>1. Bound(P, S, Final(G), n)
        BY <2>6, <3>7 DEF Bound, Same
      <4>. QED  BY <2>2, <2>9, <3>2, <3>7, <3>9, <4>1, <1>1, <1>6 DEF Meant, Same
    <3>. QED  BY <2>1, <2>4, <2>5, <3>2, <3>7, <3>8, <3>10, Sent
  <2>. QED  BY <2>2, <2>7, <2>8, <2>9 DEF Meant
<1>. QED  BY <1>7, <1>8


-----------------------------------------------------------------------------
(* The helpers one after another.                                          *)

\* What the steps of the relay that may end a transaction, but do not converge it, keep.
Passes(R, S) ==
  /\ Relay(S) /\ Channels(S) /\ (S.plan = NoPlan => Clean(S) /\ S.acks = {})
  /\ S.floor = R.floor /\ S.lastId = R.lastId /\ \A f \in Seats : S.peers[f].floor = R.peers[f].floor
  /\ S.outcome = R.outcome \/ S.outcome.reason # "Converged"
  /\ S.plan = NoPlan \/ (S.plan = R.plan /\ S.snap = R.snap /\ S.begin = R.begin /\ S.acks = R.acks)

Everyone(R, s, b, l, h, cuts, late1) == \A f \in Seats : Mail(R, f, s[f], b[f], l, h, cuts, late1)

LEMMA FinishPasses ==
  ASSUME NEW Q, NEW R, Passes(Q, R), NEW reason \in Reasons, reason # "Converged", NEW S, S = Finish(R, reason)
  PROVE  Passes(Q, S) /\ S.plan = NoPlan /\ S.snap = NoSnap /\ S.last = R.last /\ S.cache = R.cache
<1>1. CASE R.plan = NoPlan
  BY <1>1 DEF Finish, Passes, Clean
<1>2. CASE R.plan # NoPlan
  <2>1. Ended(R, S)
    BY <1>2, Ends DEF Passes
  <2>2. Finished(R, S, reason)
    BY <1>2, FinishSends DEF Passes
  <2>3. Relay(S) /\ Clean(S) /\ Channels(S) /\ S.acks = {} /\ S.floor = R.floor /\ S.lastId = R.lastId
        /\ S.last = R.last /\ S.cache = R.cache /\ S.plan = NoPlan /\ S.snap = NoSnap
    BY <2>1, <2>2 DEF Ended, Finished
  <2>4. \A f \in Seats : S.peers[f].floor = R.peers[f].floor
    BY <2>1 DEF Ended
  <2>5. S.outcome.reason # "Converged"
    BY <2>2 DEF Finished
  <2>. QED  BY <2>3, <2>4, <2>5 DEF Passes
<1>. QED  BY <1>1, <1>2

LEMMA DeliverPasses ==
  ASSUME NEW Q, NEW R, Passes(Q, R), NEW n \in Nat, NEW S, S = Deliver(R, n)
  PROVE  Passes(Q, S) /\ S.last = R.last /\ S.cache = R.cache /\ S.changed = R.changed
<1>1. /\ Relay(S)
      /\ S.plan = R.plan /\ S.begin = R.begin /\ S.snap = R.snap /\ S.changed = R.changed
      /\ S.peers = R.peers /\ S.floor = R.floor /\ S.last = R.last /\ S.cache = R.cache
      /\ S.lastId = R.lastId
      /\ \A f \in Seats : S.cont[f] = IF Reaches(R, f, n) /\ Buffered(R, f)
                                      THEN Append(R.cont[f], Envelope(R, f, n)) ELSE R.cont[f]
  BY Delivers DEF Passes
<1>2. Channels(S) /\ S.acks = R.acks /\ S.outcome = R.outcome
  <2>1. Delivered(R, S, n)
    BY DeliverSends DEF Passes
  <2>. QED  BY <2>1 DEF Delivered
<1>3. S.plan = NoPlan => Clean(S) /\ S.acks = {}
  <2>. SUFFICES ASSUME R.plan = NoPlan
                PROVE  S.cont = [f \in Seats |-> <<>>] /\ Clean(R) /\ R.acks = {}
    BY <1>1, <1>2 DEF Clean
  <2>1. Clean(R) /\ R.acks = {}
    BY DEF Passes
  <2>2. \A f \in Seats : S.cont[f] = <<>>
    BY <2>1, <1>1 DEF Clean, Buffered
  <2>3. S.cont \in [Seats -> Seq(Record)]
    BY <1>1 DEF Relay
  <2>. QED  BY <2>1, <2>2, <2>3
<1>. QED  BY <1>1, <1>2, <1>3 DEF Passes

\* The relay's flags and its cache move nobody.
Touched(R, S) ==
  /\ DOMAIN S = RelayFields /\ S.plan = R.plan /\ S.begin = R.begin /\ S.snap = R.snap
  /\ S.cont = R.cont /\ S.peers = R.peers /\ S.floor = R.floor /\ S.lastId = R.lastId
  /\ S.nextConn = R.nextConn /\ S.outHost = R.outHost /\ S.outSeat = R.outSeat /\ S.acks = R.acks
  /\ S.outcome = R.outcome /\ S.changed \in BOOLEAN /\ S.last \in Nat /\ S.cache \in Nat

LEMMA TouchPasses ==
  ASSUME NEW Q, NEW R, Passes(Q, R), NEW S, Touched(R, S)
  PROVE  Passes(Q, S)
BY DEF Passes, Touched, Relay, Channels, Clean

LEMMA TouchAgrees ==
  ASSUME NEW R, NEW S, Relay(R), Touched(R, S), NEW f
  PROVE  Agree(R, S, f)
BY DEF Agree, Touched, Relay

\* Fewer snapshots to come, a later hour, and what the relay forgets or flags.
LEMMA EveryoneGrows ==
  ASSUME NEW h, NEW k, Grows(h, k), History(h), NEW R, NEW S, Relay(R), Channels(R), \A f \in Seats : Agree(R, S, f),
         NEW s \in [Seats -> SeatType], NEW b, NEW l \in Nat, l <= Len(h),
         NEW cuts, NEW cuts2, \A x \in cuts2 : x \in cuts \/ (x \in Nat /\ l < x),
         NEW late1, NEW late2, late1 \subseteq late2, Everyone(R, s, b, l, h, cuts, late1)
  PROVE  Everyone(S, s, b, l, k, cuts2, late2)
<1>. SUFFICES ASSUME NEW f \in Seats
              PROVE  Mail(S, f, s[f], b[f], l, k, cuts2, late2)
  BY DEF Everyone
<1>1. Mail(R, f, s[f], b[f], l, h, cuts, late1) /\ R.outSeat[f] \in Seq(SeatMessage) /\ s[f] \in SeatType
      /\ Agree(R, S, f)
  BY DEF Everyone, Channels
<1>. QED  BY <1>1, MailGrows

LEMMA TouchMail ==
  ASSUME NEW R, NEW S, Relay(R), Channels(R), Touched(R, S), NEW s \in [Seats -> SeatType], NEW b,
         NEW h \in Seq(Entry), History(h), NEW l \in Nat, l <= Len(h), NEW cuts, NEW late1,
         Everyone(R, s, b, l, h, cuts, late1)
  PROVE  Everyone(S, s, b, l, h, cuts, late1)
<1>1. Grows(h, h)
  BY DEF Grows
<1>. QED  BY <1>1, TouchAgrees, EveryoneGrows

LEMMA FinishEveryone ==
  ASSUME NEW R, Relay(R), Channels(R), NEW reason \in Reasons, reason # "Converged",
         NEW s, NEW b, NEW l \in Nat, NEW h \in Seq(Entry), NEW cuts, NEW late1,
         Everyone(R, s, b, l, h, cuts, late1), NEW S, S = Finish(R, reason)
  PROVE  Everyone(S, s, b, l, h, cuts, late1)
<1>. SUFFICES ASSUME NEW f \in Seats
              PROVE  Mail(S, f, s[f], b[f], l, h, cuts, late1)
  BY DEF Everyone
<1>1. Mail(R, f, s[f], b[f], l, h, cuts, late1)
  BY DEF Everyone
<1>. QED  BY <1>1, FinishMail


\* Update n is the next one the relay admits.
Comes(R, h, n) ==
  /\ Passes(R, R) /\ h \in Seq(Entry) /\ History(h) /\ n \in Nat /\ Follows(h, R.last, n) /\ R.last <= Len(h)
  /\ R.floor <= R.last /\ R.begin.cut < n
  /\ \A f \in Seats : R.peers[f].floor <= R.floor
  /\ R.snap # NoSnap => R.begin.cut = R.snap.cut /\ R.snap.cut # 0

LEMMA EnvelopeMail ==
  ASSUME NEW R, NEW n, Comes(R, hist, n), NEW s \in [Seats -> SeatType], NEW b,
         NEW cuts, NEW late1, Everyone(R, s, b, R.last, hist, cuts, late1), NEW S, S = AdmitEnvelope(R, n)
  PROVE  /\ Passes(R, S) /\ Everyone(S, s, b, n, hist, cuts, late1) /\ S.last = n /\ S.cache = n
         /\ S.snap # NoSnap /\ ~S.changed => ~R.changed /\ ~Differs(n, R.snap)
<1>. SUFFICES ASSUME Passes(R, R), hist \in Seq(Entry), History(hist),
                     n \in Nat, Follows(hist, R.last, n), R.last <= Len(hist), R.floor <= R.last,
                     \A f \in Seats : R.peers[f].floor <= R.floor,
                     R.snap # NoSnap => R.begin.cut = R.snap.cut /\ R.snap.cut # 0, R.begin.cut < n
              PROVE  /\ Passes(R, S) /\ Everyone(S, s, b, n, hist, cuts, late1) /\ S.last = n /\ S.cache = n
                     /\ S.snap # NoSnap /\ ~S.changed => ~R.changed /\ ~Differs(n, R.snap)
  BY DEF Comes
<1>. DEFINE l == R.last
            left == IF R.plan # NoPlan /\ hist[n].epoch # R.plan.epoch THEN Finish(R, "RoomChanged") ELSE R
            C == [left EXCEPT !.cache = n, !.last = Larger(left.last, n)]
            D == Disturb(C, n)
            E == IF Overflows(D, n) THEN Finish(D, "Overflow") ELSE D
            T == [C EXCEPT !.changed = TRUE]
<1>1. S = Deliver(E, n)
  BY Zenon DEF AdmitEnvelope, Forward
<1>2. \/ D = C /\ (C.snap = NoSnap \/ n <= C.begin.cut \/ ~Differs(n, C.snap))
      \/ D = Finish(T, "NativeFailed")
      \/ D = T /\ C.plan.phase # "Checkpoint"
  BY Zenon DEF Disturb
<1>3. l \in Nat /\ l < n /\ Relay(R) /\ Channels(R) /\ n \in 1..Len(hist)
  BY DEF Passes, Relay, Follows, Update
<1>4. "RoomChanged" \in Reasons /\ "NativeFailed" \in Reasons /\ "Overflow" \in Reasons
  BY DEF Reasons
<1>5. /\ Passes(R, left) /\ Everyone(left, s, b, l, hist, cuts, late1) /\ left.last = l
      /\ left.snap # NoSnap => left.changed = R.changed
  <2>1. CASE left = R
    BY <2>1
  <2>2. CASE left # R
    <3>1. left = Finish(R, "RoomChanged")
      BY <2>2
    <3>. QED  BY <3>1, <1>3, <1>4, FinishPasses, FinishEveryone
  <2>. QED  BY <2>1, <2>2
<1>. HIDE DEF left
<1>6. Relay(left) /\ Channels(left) /\ DOMAIN left = RelayFields /\ Larger(left.last, n) = n /\ left.changed \in BOOLEAN
  BY <1>3, <1>5 DEF Passes, Relay, Larger
<1>7. Touched(left, C) /\ C.last = n /\ C.cache = n /\ C.changed = left.changed
  <2>1. /\ DOMAIN C = RelayFields /\ C.plan = left.plan /\ C.begin = left.begin /\ C.snap = left.snap
        /\ C.cont = left.cont /\ C.peers = left.peers /\ C.floor = left.floor /\ C.lastId = left.lastId
        /\ C.nextConn = left.nextConn /\ C.outHost = left.outHost /\ C.outSeat = left.outSeat
        /\ C.acks = left.acks /\ C.outcome = left.outcome /\ C.changed = left.changed
        /\ C.cache = n /\ C.last = n
    BY <1>6 DEF RelayFields
  <2>. HIDE DEF C
  <2>. QED  BY <2>1, <1>6 DEF Touched
<1>. HIDE DEF C
<1>8. Passes(R, C) /\ Everyone(C, s, b, l, hist, cuts, late1)
  BY <1>3, <1>5, <1>6, <1>7, TouchPasses, TouchMail
<1>9. Relay(C) /\ Channels(C) /\ DOMAIN C = RelayFields
  BY <1>8 DEF Passes, Relay
<1>10. Touched(C, T) /\ T.last = n /\ T.cache = n /\ T.changed
  <2>1. /\ DOMAIN T = RelayFields /\ T.plan = C.plan /\ T.begin = C.begin /\ T.snap = C.snap
        /\ T.cont = C.cont /\ T.peers = C.peers /\ T.floor = C.floor /\ T.lastId = C.lastId
        /\ T.nextConn = C.nextConn /\ T.outHost = C.outHost /\ T.outSeat = C.outSeat
        /\ T.acks = C.acks /\ T.outcome = C.outcome /\ T.changed = TRUE
        /\ T.cache = C.cache /\ T.last = C.last
    BY <1>9 DEF RelayFields
  <2>. HIDE DEF T
  <2>. QED  BY <2>1, <1>3, <1>7 DEF Touched
<1>. HIDE DEF T
<1>11. Passes(R, T) /\ Everyone(T, s, b, l, hist, cuts, late1) /\ Relay(T) /\ Channels(T)
  <2>1. Passes(R, T) /\ Everyone(T, s, b, l, hist, cuts, late1)
    BY <1>3, <1>8, <1>9, <1>10, TouchPasses, TouchMail
  <2>. QED  BY <2>1 DEF Passes
<1>. HIDE DEF D, E
<1>12. /\ Passes(R, D) /\ Everyone(D, s, b, l, hist, cuts, late1) /\ D.last = n /\ D.cache = n
       /\ D.snap # NoSnap /\ ~D.changed => ~R.changed /\ ~Differs(n, R.snap)
       /\ D.snap # NoSnap /\ D.plan.phase = "Checkpoint" => ~Differs(n, R.snap)
  <2>1. CASE D = C /\ (C.snap = NoSnap \/ n <= C.begin.cut \/ ~Differs(n, C.snap))
    <3>1. C.snap # NoSnap => C.snap = R.snap /\ C.begin = R.begin /\ C.changed = R.changed
      BY <1>5, <1>7, <1>8 DEF Touched, Passes, Clean
    <3>2. R.begin.cut \in Nat
      BY <1>3 DEF Relay
    <3>3. C.snap # NoSnap => ~Differs(n, R.snap)
      BY <2>1, <3>1, <3>2
    <3>. QED  BY <2>1, <1>7, <1>8, <3>1, <3>3
  <2>2. CASE D = Finish(T, "NativeFailed")
    BY <2>2, <1>3, <1>4, <1>10, <1>11, FinishPasses, FinishEveryone
  <2>3. CASE D = T /\ C.plan.phase # "Checkpoint"
    BY <2>3, <1>10, <1>11 DEF Touched
  <2>. QED  BY <1>2, <2>1, <2>2, <2>3
<1>13. /\ Passes(R, E) /\ Everyone(E, s, b, l, hist, cuts, late1) /\ E.last = n /\ E.cache = n
       /\ E.snap # NoSnap /\ ~E.changed => ~R.changed /\ ~Differs(n, R.snap)
       /\ E.snap # NoSnap /\ E.plan.phase = "Checkpoint" => ~Differs(n, R.snap)
  <2>1. CASE E = D
    BY <2>1, <1>12
  <2>2. CASE E # D
    <3>1. E = Finish(D, "Overflow")
      BY <2>2 DEF E
    <3>2. Relay(D) /\ Channels(D)
      BY <1>12 DEF Passes
    <3>. QED  BY <3>1, <3>2, <1>3, <1>4, <1>12, FinishPasses, FinishEveryone
  <2>. QED  BY <2>1, <2>2
<1>14. Passes(R, S) /\ S.last = n /\ S.cache = n /\ S.changed = E.changed
  <2>1. Passes(R, E) /\ E.last = n /\ E.cache = n
    BY <1>13
  <2>2. Passes(R, S) /\ S.last = E.last /\ S.cache = E.cache /\ S.changed = E.changed
    BY <1>1, <2>1, DeliverPasses, SMTT(30)
  <2>. QED  BY <2>1, <2>2
<1>15. S.snap = E.snap
  <2>1. Relay(E)
    BY <1>13 DEF Passes
  <2>. QED  BY <1>1, <2>1, Delivers
<1>16. ASSUME NEW f \in Seats
       PROVE  Mail(S, f, s[f], b[f], n, hist, cuts, late1)
  <2>1. Relay(E) /\ Channels(E) /\ E.peers[f].floor = R.peers[f].floor /\ R.peers[f] \in PeerType /\ R.floor \in Nat
    BY <1>3, <1>13 DEF Passes, Relay
  <2>2. E.peers[f].floor <= l
    BY <2>1, <1>3 DEF PeerType
  <2>3. IsTarget(E, f) /\ E.snap # NoSnap /\ E.plan.phase = "Checkpoint" /\ ~E.snap.sitOut => Alike(hist, n, E.snap.cut)
    <3>. SUFFICES ASSUME E.snap # NoSnap, E.plan.phase = "Checkpoint", ~E.snap.sitOut
                  PROVE  Alike(hist, n, E.snap.cut)
      OBVIOUS
    <3>1. E.snap = R.snap
      BY <1>13 DEF Passes, Clean
    <3>2. ~Differs(n, R.snap) /\ R.snap.cut # 0 /\ n # 0
      BY <1>3, <1>13, <3>1
    <3>. QED  BY <3>1, <3>2 DEF Differs, Alike
  <2>4. Mail(E, f, s[f], b[f], l, hist, cuts, late1)
    BY <1>13 DEF Everyone
  <2>. QED  BY <1>1, <1>3, <2>1, <2>2, <2>3, <2>4, DeliverMail
<1>. QED  BY <1>13, <1>14, <1>15, <1>16 DEF Everyone


-----------------------------------------------------------------------------
(* A seat's mail when a phase begins: its binding and its plan.            *)

\* The fence that a new binding raises, or the same binding again.
Rebound(a, d) == [a EXCEPT !.bound = d, !.stage = IF a.stage = "Ended" THEN "Ended" ELSE "Fenced"]
Planned(a, d, id, phase) == [a EXCEPT !.bound = d, !.stage = "Planned", !.id = id, !.phase = phase, !.sitOut = FALSE]

Fences(a, d, id, phase) ==
  \/ phase = "Bootstrap" /\ a.stage \in {"Open", "Cut"} /\ d = a.bound + 1 /\ a.id < id
  \/ phase = "Checkpoint" /\ a.stage = "Ended" /\ d = a.bound /\ id = a.id /\ a.phase = "Bootstrap"

LEMMA FencesMoves ==
  ASSUME NEW a \in Standing, NEW d \in Nat, NEW id \in Positive, NEW phase \in Phases, NEW h, Sane(a, h),
         Fences(a, d, id, phase), NEW x, x.t = "binding", x.delivery = d,
         NEW y, y.t = "plan", y.id = id, y.phase = phase, y.delivery = d
  PROVE  LET c == Rebound(a, d)
             e == Planned(a, d, id, phase)
         IN  /\ c \in Standing /\ e \in Standing /\ Sane(c, h) /\ Sane(e, h)
             /\ Moves(a, x, c, h) /\ Moves(c, y, e, h) /\ c.stage # "Open"
             /\ e.stage = "Planned" /\ e.bound = d /\ e.id = id /\ e.phase = phase /\ ~e.sitOut
             /\ e.floor = a.floor /\ e.top = a.top
<1>. DEFINE c == Rebound(a, d)
            e == Planned(a, d, id, phase)
<1>1. /\ c \in Standing /\ c.bound = d /\ c.id = a.id /\ c.phase = a.phase /\ c.floor = a.floor /\ c.cut = a.cut
      /\ c.sitOut = a.sitOut /\ c.top = a.top /\ c.stage = IF a.stage = "Ended" THEN "Ended" ELSE "Fenced"
  BY DEF Rebound, Standing, Stages
<1>2. /\ e \in Standing /\ e.bound = d /\ e.id = id /\ e.phase = phase /\ e.floor = a.floor
      /\ ~e.sitOut /\ e.top = a.top /\ e.stage = "Planned"
  BY DEF Planned, Standing, Stages, Positive
<1>. HIDE DEF c, e
<1>3. a.bound \in Nat /\ id # 0 /\ d # 0
  BY DEF Standing, Positive, Fences, Sane
<1>4. Sane(c, h)
  BY <1>1, <1>3 DEF Sane, Reading, Fences
<1>5. Sane(e, h)
  BY <1>2, <1>3 DEF Sane, Reading
<1>6. Moves(a, x, c, h)
  BY <1>1 DEF Moves, Binds, Fences
<1>7. Moves(c, y, e, h)
  BY <1>1, <1>2 DEF Moves, Plans, Fences
<1>. QED  BY <1>1, <1>2, <1>4, <1>5, <1>6, <1>7 DEF c, e

FencedBy(R, S, f, a, x, y) ==
  LET d == S.peers[f].delivery IN
  /\ d \in Nat /\ S.plan.id \in Positive /\ S.plan.phase \in Phases /\ Fences(a, d, S.plan.id, S.plan.phase)
  /\ x \in SeatMessage /\ x.t = "binding" /\ x.delivery = d
  /\ y \in SeatMessage /\ y.t = "plan" /\ y.id = S.plan.id /\ y.phase = S.plan.phase /\ y.delivery = d
  /\ S.outSeat[f] = Append(Append(R.outSeat[f], x), y)
  /\ S.peers[f].quarantined /\ ~S.peers[f].sitOut /\ S.peers[f].conn # 0
  /\ S.peers[f].floor = R.peers[f].floor /\ IsTarget(S, f)
  /\ S.plan.targets[f] = [conn |-> S.peers[f].conn, delivery |-> d]
  /\ S.snap = NoSnap /\ S.cont[f] = <<>> /\ S.acks = {} /\ S.plan.id <= S.lastId

LEMMA PlansMail ==
  ASSUME NEW R, Channels(R), NEW S, NEW f \in Seats, NEW s, NEW b, NEW l \in Nat, NEW h \in Seq(Entry),
         NEW cuts, NEW late1, NEW g, Life(R, f, s, b, g, l, h, cuts, late1),
         NEW x, NEW y, FencedBy(R, S, f, Final(g), x, y)
  PROVE  Mail(S, f, s, b, l, h, {}, late1)
<1>. USE DEF FencedBy
<1>. PICK d, id, phase : d = S.peers[f].delivery /\ id = S.plan.id /\ phase = S.plan.phase
  OBVIOUS
<1>. DEFINE q == R.outSeat[f]
            a == Final(g)
            c == Rebound(a, d)
            e == Planned(a, d, id, phase)
            p == Append(q, x)
            g1 == Append(g, c)
            g2 == Append(g1, e)
<1>1. q \in Seq(SeatMessage) /\ Trace(q, g, h) /\ Meant(R, f, a, l, h, cuts)
  BY DEF Life, Channels
<1>2. a \in Standing /\ Sane(a, h) /\ Len(g) \in Nat
  BY <1>1, TraceTyped
<1>3. /\ c \in Standing /\ e \in Standing /\ Sane(c, h) /\ Sane(e, h)
      /\ Moves(a, x, c, h) /\ Moves(c, y, e, h) /\ c.stage # "Open"
      /\ e.stage = "Planned" /\ e.bound = d /\ e.id = id /\ e.phase = phase /\ ~e.sitOut
      /\ e.floor = a.floor /\ e.top = a.top
  <2>. HIDE DEF a
  <2>. QED  BY <1>2, FencesMoves DEF a
<1>. HIDE DEF a, c, e, q
<1>4. /\ p \in Seq(SeatMessage) /\ Trace(p, g1, h)
      /\ Final(g1) = c /\ g1[1] = g[1] /\ Len(g1) = Len(g) + 1
      /\ \A i \in 1..Len(g) : g1[i] = g[i]
  BY <1>1, <1>3, SentTrace DEF a
<1>. HIDE DEF p, g1
<1>5. /\ Trace(Append(p, y), g2, h)
      /\ Final(g2) = e /\ g2[1] = g1[1] /\ Len(g2) = Len(g1) + 1
      /\ \A i \in 1..Len(g1) : g2[i] = g1[i]
  BY <1>3, <1>4, SentTrace
<1>. HIDE DEF g2
<1>6. g1[Len(g1)] = c /\ g2[Len(g2)] = e
  BY <1>4, <1>5 DEF Final
<1>7. (\E i \in 1..Len(g2) : g2[i].stage = "Open") => \E i \in 1..Len(g) : g[i].stage = "Open"
  <2>. SUFFICES ASSUME NEW i \in 1..Len(g2), g2[i].stage = "Open"
                PROVE  \E j \in 1..Len(g) : g[j].stage = "Open"
    OBVIOUS
  <2>1. i # Len(g2)
    BY <1>3, <1>6
  <2>2. i \in 1..Len(g1)
    BY <2>1, <1>2, <1>4, <1>5
  <2>3. g1[i].stage = "Open"
    BY <2>2, <1>5
  <2>4. i # Len(g1)
    BY <2>3, <1>3, <1>6
  <2>5. i \in 1..Len(g)
    BY <2>2, <2>4, <1>2, <1>4
  <2>. QED  BY <2>3, <2>5, <1>4
<1>8. a.floor = R.peers[f].floor /\ a.top <= l /\ a.top \in Nat
  BY <1>1, <1>2 DEF Meant, Bound, Standing
<1>9. Waits(S.peers[f], S.cont[f], e, l, h, {})
  <2>1. Chain(h, l, <<>>, l)
    BY DEF Chain, Gapless
  <2>2. l \in e.top..l
    BY <1>3, <1>8
  <2>. QED  BY <2>1, <2>2 DEF Waits
<1>10. Bound(S.peers[f], S, e, l)
  BY <1>3, <1>8 DEF Bound
<1>11. Meant(S, f, e, l, h, {})
  BY <1>3, <1>9, <1>10 DEF Meant
<1>. QED  BY <1>4, <1>5, <1>7, <1>11, Sent DEF p, q


LEMMA PhaseMail ==
  ASSUME NEW R, Relay(R), Channels(R), NEW T, Relay(T), T.outSeat = R.outSeat, T.plan.id # 0,
         T.snap = NoSnap, T.acks = {}, R.lastId <= T.lastId, T.plan.id <= T.lastId, NEW f \in Seats,
         NEW s, NEW b, NEW l \in Nat, NEW h \in Seq(Entry), NEW cuts, NEW late1, Mail(R, f, s, b, l, h, cuts, late1),
         T.cont[f] = <<>>, T.peers[f].conn = R.peers[f].conn, T.peers[f].floor = R.peers[f].floor,
         IsTarget(T, f) => /\ T.peers[f].conn # 0
                           /\ T.plan.targets[f] = [conn |-> T.peers[f].conn, delivery |-> T.peers[f].delivery],
         IsTarget(T, f) => \A a \in Standing : Meant(R, f, a, l, h, cuts) =>
                                   Fences(a, T.peers[f].delivery, T.plan.id, T.plan.phase),
         ~IsTarget(T, f) => ~IsTarget(R, f) /\ T.peers[f] = R.peers[f],
         NEW S, S = Publish(Fence(T))
  PROVE  Mail(S, f, s, b, l, h, {}, late1)
<1>. DEFINE x == BindingFor(T, f)
            y == PlanFor(T, f)
            d == T.peers[f].delivery
<1>1. /\ S.plan = T.plan /\ S.snap = T.snap /\ S.cont = T.cont /\ S.lastId = T.lastId
  BY Replans
<1>2. /\ S.acks = T.acks /\ x \in SeatMessage /\ y \in SeatMessage
      /\ S.peers[f] = IF IsTarget(T, f) THEN Shut(T.peers[f]) ELSE T.peers[f]
      /\ S.outSeat[f] = IF IsTarget(T, f) THEN Append(Append(T.outSeat[f], x), y) ELSE T.outSeat[f]
  <2>1. Channels(T)
    BY DEF Channels
  <2>2. Published(T, S)
    BY <2>1, PublishSends
  <2>. QED  BY <2>2 DEF Published
<1>3. T.peers[f] \in PeerType /\ T.lastId \in Nat /\ R.lastId \in Nat /\ T.plan.id \in Positive /\ T.plan.phase \in Phases
  BY DEF Relay, PlanType, Positive
<1>4. x.t = "binding" /\ x.delivery = d /\ d \in Nat
  BY <1>3 DEF BindingFor, PeerType
<1>. HIDE DEF x
<1>5. IsTarget(S, f) <=> IsTarget(T, f)
  BY <1>1 DEF IsTarget
<1>6. CASE ~IsTarget(T, f)
  BY <1>1, <1>2, <1>3, <1>5, <1>6, Unconcerned
<1>7. CASE IsTarget(T, f)
  <2>1. R.peers[f].conn # 0
    BY <1>7
  <2>2. PICK g : Life(R, f, s, b, g, l, h, cuts, late1)
    BY <2>1 DEF Mail
  <2>3. Final(g) \in Standing /\ Meant(R, f, Final(g), l, h, cuts)
    BY <2>2, TraceTyped DEF Life, Channels
  <2>4. Fences(Final(g), d, T.plan.id, T.plan.phase)
    BY <2>3, <1>7
  <2>5. y.t = "plan" /\ y.id = T.plan.id /\ y.phase = T.plan.phase /\ y.delivery = d
    BY <1>7 DEF PlanFor
  <2>. HIDE DEF y
  <2>6. /\ S.peers[f].quarantined /\ ~S.peers[f].sitOut /\ S.peers[f].conn = T.peers[f].conn
        /\ S.peers[f].delivery = d /\ S.peers[f].floor = R.peers[f].floor
    BY <1>2, <1>3, <1>7, ShutIs
  <2>7. S.outSeat[f] = Append(Append(R.outSeat[f], x), y)
    BY <1>2, <1>7
  <2>8. S.plan.targets[f] = [conn |-> S.peers[f].conn, delivery |-> d] /\ S.peers[f].conn # 0
    BY <1>1, <1>7, <2>6
  <2>9. S.snap = NoSnap /\ S.cont[f] = <<>> /\ S.acks = {} /\ S.plan.id <= S.lastId /\ IsTarget(S, f)
        /\ S.plan.id = T.plan.id /\ S.plan.phase = T.plan.phase
    BY <1>1, <1>2, <1>5, <1>7
  <2>. HIDE DEF d
  <2>10. /\ S.peers[f].delivery \in Nat /\ S.plan.id \in Positive /\ S.plan.phase \in Phases
         /\ Fences(Final(g), S.peers[f].delivery, S.plan.id, S.plan.phase)
         /\ x.t = "binding" /\ x.delivery = S.peers[f].delivery
         /\ y.id = S.plan.id /\ y.phase = S.plan.phase /\ y.delivery = S.peers[f].delivery
         /\ S.plan.targets[f] = [conn |-> S.peers[f].conn, delivery |-> S.peers[f].delivery]
    BY <1>3, <1>4, <2>4, <2>5, <2>6, <2>8, <2>9
  <2>11. x \in SeatMessage /\ y \in SeatMessage
    BY <1>2
  <2>12. FencedBy(R, S, f, Final(g), x, y)
    BY <2>5, <2>6, <2>7, <2>8, <2>9, <2>10, <2>11 DEF FencedBy
  <2>. QED  BY <2>2, <2>12, PlansMail
<1>. QED  BY <1>6, <1>7

LEMMA StartMail ==
  ASSUME NEW R, NEW H, NEW q, NEW h, Good(R, H, q, h), Channels(R), NEW m \in RequestType,
         R.plan = NoPlan, R.lastId < m.id, \A f \in m.mask : R.peers[f].conn # 0,
         NEW s, NEW b, NEW l \in Nat, NEW cuts, NEW late1, Everyone(R, s, b, l, h, cuts, late1),
         NEW S, S = Start(R, m)
  PROVE  /\ Everyone(S, s, b, l, h, {}, late1) /\ Channels(S) /\ S.acks = {} /\ S.outcome = R.outcome
         /\ S.plan.id = m.id /\ S.plan.phase = "Bootstrap" /\ S.snap = NoSnap /\ S.floor = R.floor /\ S.last = R.last
         /\ S.cache = R.cache
<1>. DEFINE peers == [f \in Seats |-> IF f \in m.mask THEN [R.peers[f] EXCEPT !.delivery = R.peers[f].delivery + 1]
                                     ELSE R.peers[f]]
            targets == [f \in Seats |-> IF f \in m.mask
                               THEN [conn |-> R.peers[f].conn, delivery |-> R.peers[f].delivery + 1]
                               ELSE NoTarget]
            plan == [id |-> m.id, phase |-> "Bootstrap", epoch |-> m.epoch, targets |-> targets]
            T == [R EXCEPT !.lastId = m.id, !.changed = FALSE, !.begin = NoBegin, !.snap = NoSnap, !.acks = {},
                           !.peers = peers, !.plan = plan]
<1>1. S = Publish(Fence(T))
  BY Zenon DEF Start
<1>2. Relay(R) /\ DOMAIN R = RelayFields /\ Clean(R) /\ R.lastId \in Nat /\ h \in Seq(Entry)
  BY TransactionClean DEF Good, Types, Relay
<1>3. /\ m.id \in Nat /\ m.id # 0 /\ m.epoch \in Nat /\ m.mask \subseteq Seats /\ m.mask # {}
  BY DEF RequestType, Positive
<1>4. ASSUME NEW f \in Seats
      PROVE  /\ peers[f] \in PeerType /\ peers[f].floor = R.peers[f].floor /\ peers[f].conn = R.peers[f].conn
             /\ peers[f].delivery = IF f \in m.mask THEN R.peers[f].delivery + 1 ELSE R.peers[f].delivery
             /\ f \notin m.mask => peers[f] = R.peers[f]
  <2>1. R.peers[f] \in PeerType
    BY <1>2 DEF Relay
  <2>2. R.peers[f].delivery + 1 \in Nat
    BY <2>1 DEF PeerType
  <2>3. CASE f \in m.mask
    BY <2>1, <2>2, <2>3 DEF PeerType
  <2>4. CASE f \notin m.mask
    BY <2>1, <2>4
  <2>. QED  BY <2>3, <2>4
<1>5. ASSUME NEW f \in Seats
      PROVE  /\ targets[f] \in TargetType /\ (targets[f] # NoTarget <=> f \in m.mask)
             /\ f \in m.mask => targets[f] = [conn |-> R.peers[f].conn, delivery |-> R.peers[f].delivery + 1]
  <2>1. R.peers[f].conn \in Nat /\ R.peers[f].delivery + 1 \in Nat /\ R.peers[f].delivery + 1 # 0
    BY <1>2, SMTT(30) DEF Relay, PeerType
  <2>. QED  BY <2>1 DEF TargetType, NoTarget
<1>6. /\ plan \in PlanType /\ plan.targets = targets /\ plan.id = m.id /\ plan.phase = "Bootstrap"
      /\ plan # NoPlan
  <2>1. targets \in [Seats -> TargetType]
    BY <1>5
  <2>. QED  BY <2>1, <1>3 DEF PlanType, Phases, NoPlan
<1>65. peers \in [Seats -> PeerType]
  BY <1>4
<1>. HIDE DEF peers, targets, plan
<1>7. /\ DOMAIN T = RelayFields /\ T.plan = plan /\ T.begin = NoBegin /\ T.snap = NoSnap
      /\ T.changed = FALSE /\ T.cont = R.cont /\ T.peers = peers /\ T.floor = R.floor /\ T.last = R.last
      /\ T.cache = R.cache /\ T.lastId = m.id /\ T.nextConn = R.nextConn /\ T.outHost = R.outHost
      /\ T.outSeat = R.outSeat /\ T.acks = {} /\ T.outcome = R.outcome
  BY <1>2 DEF RelayFields
<1>. HIDE DEF T
<1>8. Relay(T) /\ T.plan.id # 0 /\ Channels(T)
  BY <1>2, <1>3, <1>65, <1>6, <1>7, NothingTyped DEF Relay, Channels
<1>9. /\ S.plan = T.plan /\ S.snap = T.snap /\ S.floor = T.floor /\ S.last = T.last /\ S.cache = T.cache
  BY <1>1, <1>8, Replans
<1>10. Channels(S) /\ S.acks = {} /\ S.outcome = R.outcome
  <2>1. Published(T, S)
    BY <1>1, <1>8, PublishSends
  <2>. QED  BY <2>1, <1>7 DEF Published
<1>11. ASSUME NEW f \in Seats
       PROVE  Mail(S, f, s[f], b[f], l, h, {}, late1)
  <2>1. Mail(R, f, s[f], b[f], l, h, cuts, late1)
    BY DEF Everyone
  <2>2. (IsTarget(T, f) <=> f \in m.mask) /\ ~IsTarget(R, f) /\ T.cont[f] = <<>>
    <3>1. IsTarget(T, f) <=> f \in m.mask
      BY <1>5, <1>6, <1>7, Zenon DEF IsTarget
    <3>2. ~IsTarget(R, f) /\ R.cont[f] = <<>>
      BY <1>2 DEF IsTarget, NoPlan, NoTargets, Clean
    <3>. QED  BY <3>1, <3>2, <1>7
  <2>3. /\ T.peers[f].conn = R.peers[f].conn /\ T.peers[f].floor = R.peers[f].floor
        /\ ~IsTarget(T, f) => T.peers[f] = R.peers[f]
        /\ IsTarget(T, f) => /\ T.peers[f].conn # 0 /\ T.peers[f].delivery = R.peers[f].delivery + 1
                             /\ T.plan.targets[f] = [conn |-> T.peers[f].conn, delivery |-> T.peers[f].delivery]
    BY <1>4, <1>5, <1>6, <1>7, <2>2
  <2>4. IsTarget(T, f) => \A a \in Standing : Meant(R, f, a, l, h, cuts) =>
                                   Fences(a, T.peers[f].delivery, T.plan.id, T.plan.phase)
    <3>. SUFFICES ASSUME IsTarget(T, f), NEW a \in Standing, Meant(R, f, a, l, h, cuts)
                  PROVE  Fences(a, T.peers[f].delivery, m.id, "Bootstrap")
      BY <1>6, <1>7
    <3>1. a.stage \in {"Open", "Cut"} /\ a.bound = R.peers[f].delivery /\ a.id <= R.lastId /\ a.id \in Nat
      BY <2>2 DEF Meant, Bound, Standing
    <3>. QED  BY <3>1, <2>3, <1>2, <1>3 DEF Fences
  <2>5. R.lastId <= T.lastId /\ T.plan.id <= T.lastId
    BY <1>2, <1>3, <1>6, <1>7
  <2>. QED  BY <1>1, <1>2, <1>7, <1>8, <2>1, <2>2, <2>3, <2>4, <2>5, PhaseMail
<1>. QED  BY <1>6, <1>7, <1>9, <1>10, <1>11 DEF Everyone


LEMMA CheckpointMail ==
  ASSUME NEW R, NEW H, NEW q, NEW h, Good(R, H, q, h), Channels(R), R.plan # NoPlan, R.snap # NoSnap, R.changed,
         NEW s, NEW b, NEW l \in Nat, NEW cuts, NEW late1, Everyone(R, s, b, l, h, cuts, late1),
         NEW S, S = Checkpoint(R)
  PROVE  /\ Everyone(S, s, b, l, h, {}, late1) /\ Channels(S) /\ S.acks = {} /\ S.outcome = R.outcome
         /\ S.plan.id = R.plan.id /\ S.plan.phase = "Checkpoint" /\ S.snap = NoSnap /\ S.floor = R.floor
         /\ S.last = R.last /\ S.cache = R.cache /\ R.plan.phase = "Bootstrap"
<1>. DEFINE plan == [R.plan EXCEPT !.phase = "Checkpoint"]
            T == [R EXCEPT !.plan = plan, !.snap = NoSnap, !.acks = {}, !.changed = FALSE]
<1>1. Relay(R) /\ DOMAIN R = RelayFields /\ R.plan \in PlanType /\ h \in Seq(Entry)
  BY DEF Good, Types, Relay
<1>2. S = Publish(Fence(T))
  BY Zenon DEF Checkpoint
<1>3. /\ plan \in PlanType /\ plan.id = R.plan.id /\ plan.phase = "Checkpoint"
      /\ plan.targets = R.plan.targets /\ plan # NoPlan
  BY <1>1 DEF PlanType, Phases, NoPlan
<1>4. R.plan.id \in 1..R.lastId /\ R.plan.phase = "Bootstrap" /\ R.lastId \in Nat
  BY <1>1 DEF Good, Transaction, PlanType, Phases, Relay
<1>. HIDE DEF plan
<1>5. /\ DOMAIN T = RelayFields /\ T.plan = plan /\ T.begin = R.begin /\ T.snap = NoSnap
      /\ T.changed = FALSE /\ T.cont = R.cont /\ T.peers = R.peers /\ T.floor = R.floor /\ T.last = R.last
      /\ T.cache = R.cache /\ T.lastId = R.lastId /\ T.nextConn = R.nextConn /\ T.outHost = R.outHost
      /\ T.outSeat = R.outSeat /\ T.acks = {} /\ T.outcome = R.outcome
  BY <1>1 DEF RelayFields
<1>. HIDE DEF T
<1>6. Relay(T)
  BY <1>1, <1>3, <1>5, NothingTyped DEF Relay
<1>7. T.plan.id # 0 /\ Channels(T)
  BY <1>3, <1>4, <1>5 DEF Channels
<1>8. /\ S.plan = T.plan /\ S.snap = T.snap /\ S.floor = T.floor /\ S.last = T.last /\ S.cache = T.cache
  BY <1>2, <1>6, <1>7, Replans
<1>9. Channels(S) /\ S.acks = {} /\ S.outcome = R.outcome
  <2>1. Published(T, S)
    BY <1>2, <1>6, <1>7, PublishSends
  <2>. QED  BY <2>1, <1>5 DEF Published
<1>10. ASSUME NEW f \in Seats
       PROVE  Mail(S, f, s[f], b[f], l, h, {}, late1)
  <2>1. Mail(R, f, s[f], b[f], l, h, cuts, late1)
    BY DEF Everyone
  <2>2. (IsTarget(T, f) <=> IsTarget(R, f)) /\ T.cont[f] = <<>>
    BY <1>3, <1>5 DEF IsTarget, Good, Transaction, Kept
  <2>3. /\ T.peers[f].conn = R.peers[f].conn /\ T.peers[f].floor = R.peers[f].floor
        /\ ~IsTarget(T, f) => T.peers[f] = R.peers[f] /\ ~IsTarget(R, f)
    BY <1>5, <2>2
  <2>4. IsTarget(R, f) => R.peers[f].conn # 0 /\ R.plan.targets[f] = [conn |-> R.peers[f].conn, delivery |-> R.peers[f].delivery]
    <3>. SUFFICES ASSUME IsTarget(R, f)
                  PROVE  R.peers[f].conn # 0 /\ R.plan.targets[f] = [conn |-> R.peers[f].conn, delivery |-> R.peers[f].delivery]
      OBVIOUS
    <3>1. R.peers[f].conn # 0
      BY <2>1 DEF Mail, Absent
    <3>2. PICK g : Life(R, f, s[f], b[f], g, l, h, cuts, late1)
      BY <2>1, <3>1 DEF Mail
    <3>. QED  BY <3>1, <3>2 DEF Life, Meant
  <2>5. IsTarget(T, f) => /\ T.peers[f].conn # 0
                          /\ T.plan.targets[f] = [conn |-> T.peers[f].conn, delivery |-> T.peers[f].delivery]
    BY <1>3, <1>5, <2>2, <2>4
  <2>6. IsTarget(T, f) => \A a \in Standing : Meant(R, f, a, l, h, cuts) =>
                                   Fences(a, T.peers[f].delivery, T.plan.id, T.plan.phase)
    <3>. SUFFICES ASSUME IsTarget(T, f), NEW a \in Standing, Meant(R, f, a, l, h, cuts)
                  PROVE  Fences(a, R.peers[f].delivery, R.plan.id, "Checkpoint")
      BY <1>3, <1>5
    <3>1. a.stage = "Ended" /\ a.bound = R.peers[f].delivery /\ a.id = R.plan.id /\ a.phase = "Bootstrap"
      BY <2>2, <1>4 DEF Meant, Bound
    <3>. QED  BY <3>1 DEF Fences
  <2>7. R.lastId <= T.lastId /\ T.plan.id <= T.lastId
    BY <1>3, <1>4, <1>5
  <2>. QED  BY <1>1, <1>2, <1>5, <1>6, <1>7, <2>1, <2>2, <2>3, <2>5, <2>6, <2>7, PhaseMail
<1>. QED  BY <1>3, <1>4, <1>5, <1>8, <1>9, <1>10 DEF Everyone


-----------------------------------------------------------------------------
(* A seat's mail when it has answered, and when everyone has.              *)

LEMMA AnswersTail ==
  ASSUME NEW R, NEW f, NEW s, NEW b \in Seq(AckType), b # <<>>, NEW l, NEW h, NEW cuts, NEW late1,
         Mail(R, f, s, b, l, h, cuts, late1)
  PROVE  Mail(R, f, s, Tail(b), l, h, cuts, late1)
<1>1. /\ R.peers[f].conn # 0 /\ Tail(b) \in Seq(AckType) /\ Len(Tail(b)) = Len(b) - 1
      /\ \A i \in 1..Len(Tail(b)) : i + 1 \in 1..Len(b) /\ Tail(b)[i] = b[i + 1]
  BY DEF Mail, Absent
<1>2. PICK g : Life(R, f, s, b, g, l, h, cuts, late1)
  BY <1>1 DEF Mail
<1>3. Answers(Tail(b), s, g[1], h)
  BY <1>1, <1>2 DEF Life, Answers
<1>4. Life(R, f, s, Tail(b), g, l, h, cuts, late1)
  BY <1>2, <1>3 DEF Life
<1>. QED  BY <1>1, <1>4 DEF Mail

LEMMA AckMail ==
  ASSUME NEW R, Relay(R), Channels(R), NEW f \in Seats, NEW s, NEW b \in Seq(AckType), b # <<>>, NEW l, NEW h, NEW cuts, NEW late1,
         Mail(R, f, s, b, l, h, cuts, late1), AckAdmitted(R, f, Head(b)), Head(b).status = "Converged",
         R.snap # NoSnap, NEW S, Touched(R, [S EXCEPT !.acks = R.acks]), S.acks = R.acks \cup {f}, DOMAIN S = RelayFields
  PROVE  Mail(S, f, s, b, l, h, cuts, late1)
<1>. DEFINE m == Head(b)
<1>1. R.peers[f].conn # 0 /\ m = b[1] /\ 1 \in 1..Len(b) /\ m \in AckType
  BY DEF Mail, Absent
<1>2. PICK g : Life(R, f, s, b, g, l, h, cuts, late1)
  BY <1>1 DEF Mail
<1>3. IsTarget(R, f) /\ R.plan.targets[f].delivery = m.delivery /\ m.id = R.plan.id /\ m.phase = R.plan.phase
  BY <1>1 DEF AckAdmitted, IsTarget, NoTarget
<1>4. /\ Trace(R.outSeat[f], g, h) /\ Meant(R, f, Final(g), l, h, cuts) /\ Answers(b, s, g[1], h)
  BY <1>2 DEF Life
<1>5. g[1] \in Standing /\ Final(g) \in Standing /\ Precedes(g[1], Final(g))
  BY <1>4, TraceTyped DEF Channels
<1>6. Final(g).stage = "Ended" /\ Final(g).bound = m.delivery /\ Final(g).phase = m.phase
  BY <1>3, <1>4 DEF Meant, Bound
<1>7. Rank(Final(g)) = AckRank(m)
  BY <1>5, <1>6, RankIs, Levels DEF AckRank
<1>8. /\ AckRank(m) <= Rank(g[1])
      /\ AckRank(m) = Rank(g[1]) => Acked(s, g[1], h)
  BY <1>1, <1>4 DEF Answers
<1>9. Rank(g[1]) = Rank(Final(g)) /\ Acked(s, g[1], h)
  <2>1. Rank(g[1]) \in Nat /\ Rank(Final(g)) \in Nat /\ Rank(g[1]) <= Rank(Final(g))
    BY <1>5, RankIs DEF Precedes
  <2>. HIDE DEF m
  <2>. QED  BY <2>1, <1>7, <1>8
<1>10. /\ S.outSeat = R.outSeat /\ S.peers = R.peers /\ S.plan = R.plan /\ S.snap = R.snap
       /\ S.cont = R.cont /\ S.lastId = R.lastId
  BY DEF Touched, RelayFields
<1>11. Meant(S, f, Final(g), l, h, cuts)
  BY <1>4, <1>10 DEF Meant, IsTarget, Bound
<1>12. Life(S, f, s, b, g, l, h, cuts, late1)
  BY <1>2, <1>3, <1>9, <1>10, <1>11 DEF Life, IsTarget
<1>. QED  BY <1>1, <1>10, <1>12 DEF Mail

LEMMA ConvergedMail ==
  ASSUME NEW R, Relay(R), Channels(R), NEW f \in Seats, NEW s, NEW b, NEW l \in Nat, NEW h \in Seq(Entry),
         NEW cuts, NEW cuts2, NEW late1, Mail(R, f, s, b, l, h, cuts, late1), R.plan # NoPlan,
         IsTarget(R, f) => f \in R.acks /\ R.snap # NoSnap, NEW S, S = Finish(R, "Converged")
  PROVE  Mail(S, f, s, b, l, h, cuts2, late1)
<1>. DEFINE m == ResultOf(R, "Converged")
            q == R.outSeat[f]
            P == R.peers[f]
<1>1. /\ S.plan = NoPlan /\ S.snap = NoSnap /\ S.acks = {} /\ S.lastId = R.lastId /\ S.lastId \in Nat
      /\ m \in SeatMessage /\ S.peers[f] = P
      /\ S.outSeat[f] = IF IsTarget(R, f) THEN Append(q, m) ELSE q
  <2>1. Finished(R, S, "Converged")
    BY FinishSends DEF Reasons
  <2>. QED  BY <2>1 DEF Finished
<1>2. m.t = "result" /\ m.id = R.plan.id /\ m.reason = "Converged"
  BY DEF ResultOf
<1>. HIDE DEF m
<1>3. ~IsTarget(S, f) /\ R.lastId \in Nat
  BY <1>1 DEF IsTarget, NoPlan, NoTargets, Relay
<1>4. CASE ~IsTarget(R, f)
  BY <1>1, <1>3, <1>4, Unconcerned
<1>5. CASE IsTarget(R, f)
  <2>1. P.conn # 0
    BY <1>5 DEF Mail, Absent
  <2>2. PICK g : Life(R, f, s, b, g, l, h, cuts, late1)
    BY <2>1 DEF Mail
  <2>3. q \in Seq(SeatMessage) /\ Trace(q, g, h) /\ Meant(R, f, Final(g), l, h, cuts)
    BY <2>2 DEF Life, Channels
  <2>4. PICK a : a = Final(g)
    OBVIOUS
  <2>5. /\ a \in Standing /\ Sane(a, h) /\ g[1] \in Standing /\ Len(g) \in Nat
        /\ \A i \in 1..Len(g) : g[i] \in Standing /\ Precedes(g[1], g[i]) /\ Precedes(g[i], a)
    BY <2>3, <2>4, TraceTyped
  <2>6. Rank(g[1]) = Rank(a) /\ Acked(s, g[1], h)
    BY <2>2, <2>4, <1>5 DEF Life
  <2>7. \A i \in 1..Len(g) : Rank(g[i]) = Rank(a)
    BY <2>5, <2>6, RankIs DEF Precedes
  <2>8. a.stage = "Ended" /\ a.id = R.plan.id /\ Bound(P, R, a, l) /\ P.quarantined = a.sitOut /\ P.sitOut = a.sitOut
        /\ (~a.sitOut => Gapless(h, a.top, l))
    BY <2>3, <2>4, <1>5 DEF Meant
  <2>. DEFINE c == [a EXCEPT !.stage = "Open"]
              G == Append(g, c)
  <2>9. /\ c \in Standing /\ c.stage = "Open" /\ c.sitOut = a.sitOut /\ c.bound = a.bound /\ c.id = a.id
        /\ c.phase = a.phase /\ c.floor = a.floor /\ c.top = a.top
    BY <2>5 DEF Standing, Stages
  <2>. HIDE DEF c
  <2>10. Moves(a, m, c, h)
    BY <2>8, <2>9, <1>2 DEF Moves, Results
  <2>11. Sane(c, h)
    BY <2>5, <2>8, <2>9 DEF Sane, Reading
  <2>12. Trace(Append(q, m), G, h) /\ Final(G) = c /\ G[1] = g[1]
    BY <2>3, <2>4, <2>7, <2>9, <2>10, <2>11, <1>1, SentTrace
  <2>13. Meant(S, f, c, l, h, cuts2)
    <3>1. Bound(P, S, c, l)
      BY <2>8, <2>9, <1>1 DEF Bound
    <3>. QED  BY <3>1, <2>8, <2>9, <1>1, <1>3 DEF Meant
  <2>14. Certified(s, g[1], h)
    BY <2>6 DEF Acked
  <2>. HIDE DEF G
  <2>. QED  BY <2>1, <2>2, <2>12, <2>13, <2>14, <1>1, <1>5, Sent
<1>. QED  BY <1>4, <1>5


-----------------------------------------------------------------------------
(* The end of a continuation that outlives a snapshot.                     *)

LEMMA Least ==
  ASSUME NEW S, S \subseteq Nat, S # {}
  PROVE  \E x \in S : \A y \in S : x <= y
<1>. DEFINE R == {p \in Nat \X Nat : p[1] < p[2]}
<1>1. IsWellFoundedOn(R, Nat)
  BY NatLessThanWellFounded DEF OpToRel
<1>. HIDE DEF R
<1>2. \E x \in S : \A y \in S : ~(<<y, x>> \in R)
  BY <1>1, WFMin
<1>3. PICK x \in S : \A y \in S : ~(<<y, x>> \in R)
  BY <1>2
<1>4. ASSUME NEW y \in S PROVE x <= y
  <2>1. <<y, x>> \in Nat \X Nat /\ <<y, x>>[1] = y /\ <<y, x>>[2] = x /\ x \in Nat /\ y \in Nat
    OBVIOUS
  <2>2. ~(y < x)
    BY <1>3, <2>1 DEF R
  <2>. QED  BY <2>1, <2>2
<1>. QED  BY <1>4

\* The serials of a continuation rise.
LEMMA ChainRises ==
  ASSUME NEW h, NEW t \in Nat, NEW c \in Seq(Record), NEW l \in Nat, Chain(h, t, c, l)
  PROVE  \A i, j \in 1..Len(c) : i <= j => c[i].n <= c[j].n
<1>1. \A i \in 1..Len(c) : c[i].n \in Nat
  BY RecordIs
<1>2. SUFFICES ASSUME NEW i \in 1..Len(c), NEW j0 \in 1..Len(c), i <= j0, ~(c[i].n <= c[j0].n)
               PROVE  FALSE
  OBVIOUS
<1>. DEFINE S == {j \in 1..Len(c) : i <= j /\ ~(c[i].n <= c[j].n)}
<1>3. PICK j \in S : \A k \in S : j <= k
  <2>1. S \subseteq Nat /\ j0 \in S
    BY <1>2
  <2>. HIDE DEF S
  <2>. QED  BY <2>1, Least
<1>4. j \in 1..Len(c) /\ j # i /\ j - 1 \in 1..Len(c) /\ i <= j - 1 /\ Len(c) \in Nat /\ j # 1
  BY <1>1, <1>3
<1>5. j - 1 \notin S
  <2>. HIDE DEF S
  <2>. QED  BY <1>3, <1>4
<1>6. c[i].n <= c[j - 1].n
  BY <1>4, <1>5
<1>7. c[j - 1].n < c[j].n
  BY <1>4 DEF Chain, Behind, Follows
<1>8. ~(c[i].n <= c[j].n)
  BY <1>3
<1>9. c[i].n \in Nat /\ c[j].n \in Nat /\ c[j - 1].n \in Nat
  BY <1>1, <1>4
<1>10. \A x, y, z \in Nat : x <= y /\ y < z => x <= z
  OBVIOUS
<1>. HIDE DEF S
<1>. QED  BY <1>6, <1>7, <1>8, <1>9, <1>10, Zenon

\* What a snapshot cut after t leaves of it.
Outlives(h, cut, c, d, l) ==
  /\ d \in Seq(Record)
  /\ Chain(h, cut, d, l)
  /\ \A k \in 1..Len(d) : cut < d[k].n /\ \E i \in 1..Len(c) : d[k] = c[i]

LEMMA AfterIs ==
  ASSUME NEW h, NEW t \in Nat, NEW c \in Seq(Record), NEW l \in Nat, Chain(h, t, c, l),
         NEW cut \in Nat, t < cut, cut <= l
  PROVE  Outlives(h, cut, c, After(c, cut), l)
<1>. DEFINE later == {i \in 1..Len(c) : c[i].n > cut}
            first == CHOOSE i \in later : \A j \in later : i <= j
            d == After(c, cut)
            z == IF c = <<>> THEN t ELSE c[Len(c)].n
<1>1. \A i \in 1..Len(c) : c[i].n \in Nat /\ c[i] \in Record
  BY RecordIs
<1>2. z \in Nat /\ z <= l /\ Gapless(h, z, l) /\ Len(c) \in Nat
  BY <1>1 DEF Chain
<1>3. d = IF later = {} THEN <<>> ELSE SubSeq(c, first, Len(c))
  BY DEF After
<1>4. CASE later = {}
  <2>1. d = <<>> /\ z <= cut
    <3>1. c # <<>> => Len(c) \in 1..Len(c)
      BY <1>2
    <3>2. c # <<>> => c[Len(c)].n <= cut
      BY <3>1, <1>1, <1>4
    <3>. QED  BY <3>2, <1>3, <1>4
  <2>. HIDE DEF d, z
  <2>2. Gapless(h, cut, l)
    BY <2>1, <1>2 DEF Gapless
  <2>3. Chain(h, cut, d, l)
    BY <2>1, <2>2 DEF Chain
  <2>. QED  BY <2>1, <2>3 DEF Outlives, d
<1>5. CASE later # {}
  <2>1. first \in later /\ \A j \in later : first <= j
    <3>1. later \subseteq Nat
      OBVIOUS
    <3>. HIDE DEF later
    <3>2. \E i \in later : \A j \in later : i <= j
      BY <3>1, <1>5, Least
    <3>. QED  BY <3>2
  <2>. HIDE DEF first
  <2>2. first \in 1..Len(c) /\ first \in Nat /\ c[first].n > cut /\ d = SubSeq(c, first, Len(c))
    <3>1. d = SubSeq(c, first, Len(c))
      BY <1>3, <1>5, Zenon
    <3>2. first \in 1..Len(c) /\ c[first].n > cut
      BY <2>1
    <3>. QED  BY <3>1, <3>2
  <2>3. /\ d \in Seq(Record) /\ Len(d) = Len(c) - first + 1
        /\ \A k \in 1..Len(d) : k + first - 1 \in 1..Len(c) /\ d[k] = c[k + first - 1] /\ first <= k + first - 1
    <3>. HIDE DEF d
    <3>1. d \in Seq(Record) /\ Len(d) = Len(c) - first + 1
      BY <2>2, <1>2
    <3>2. \A k \in 1..Len(d) : k + first - 1 \in 1..Len(c) /\ first <= k + first - 1
      BY <3>1, <2>2, <1>2
    <3>3. \A k \in 1..Len(d) : d[k] = c[k + first - 1]
      <4>. SUFFICES ASSUME NEW k \in 1..Len(d)
                    PROVE  d[k] = c[k + first - 1]
        OBVIOUS
      <4>1. d[k] = c[first + k - 1]
        BY <3>1, <2>2, <1>2
      <4>2. first + k - 1 = k + first - 1
        BY <2>2
      <4>. QED  BY <4>1, <4>2
    <3>. QED  BY <3>1, <3>2, <3>3
  <2>. HIDE DEF d, later
  <2>4. \A k \in 1..Len(d) : cut < d[k].n /\ \E i \in 1..Len(c) : d[k] = c[i]
    <3>. SUFFICES ASSUME NEW k \in 1..Len(d)
                  PROVE  cut < d[k].n /\ \E i \in 1..Len(c) : d[k] = c[i]
      OBVIOUS
    <3>1. c[first].n <= c[k + first - 1].n
      BY <2>2, <2>3, ChainRises
    <3>2. c[first].n \in Nat /\ c[k + first - 1].n \in Nat
      BY <2>2, <2>3, <1>1
    <3>3. cut < d[k].n
      BY <3>1, <3>2, <2>2, <2>3
    <3>. QED  BY <3>3, <2>3
  <2>5. ASSUME NEW k \in 1..Len(d)
        PROVE  Behind(h, cut, d, k)
    <3>. DEFINE i == k + first - 1
    <3>1. i \in 1..Len(c) /\ d[k] = c[i] /\ Behind(h, t, c, i) /\ k \in Nat /\ k >= 1
      BY <2>3 DEF Chain
    <3>2. CASE k # 1
      <4>1. k - 1 \in 1..Len(d) /\ i # 1 /\ i - 1 = k - 1 + first - 1
        BY <3>1, <3>2, <2>2
      <4>2. d[k - 1] = c[i - 1]
        BY <4>1, <2>3
      <4>. HIDE DEF i
      <4>. QED  BY <3>1, <3>2, <4>1, <4>2 DEF Behind
    <3>3. CASE k = 1
      <4>1. i = first
        BY <3>3, <2>2
      <4>. DEFINE y == IF first = 1 THEN t ELSE c[first - 1].n
      <4>2. Follows(h, y, c[first].n)
        BY <3>1, <4>1 DEF Behind
      <4>3. y \in Nat /\ y <= cut
        <5>1. CASE first = 1
          BY <5>1
        <5>2. CASE first # 1
          <6>1. first - 1 \in 1..Len(c) /\ ~(first <= first - 1)
            BY <5>2, <2>2, <1>2
          <6>2. ~(c[first - 1].n > cut)
            BY <6>1, <2>1 DEF later
          <6>. QED  BY <6>1, <6>2, <5>2, <1>1
        <5>. QED  BY <5>1, <5>2
      <4>. HIDE DEF y, i
      <4>4. c[first].n \in Nat
        BY <2>2, <1>1
      <4>5. Follows(h, cut, c[first].n)
        BY <4>2, <4>3, <4>4, <2>2 DEF Follows, Gapless
      <4>. QED  BY <3>1, <3>3, <4>1, <4>5 DEF Behind
    <3>. QED  BY <3>2, <3>3
  <2>6. d # <<>> /\ d[Len(d)] = c[Len(c)] /\ c # <<>>
    <3>1. Len(d) \in 1..Len(d) /\ Len(d) + first - 1 = Len(c)
      BY <2>2, <2>3, <1>2
    <3>2. d[Len(d)] = c[Len(d) + first - 1]
      BY <3>1, <2>3
    <3>3. Len(d) # 0 /\ Len(c) # 0
      BY <1>2, <2>2, <3>1
    <3>5. Len(<<>>) = 0
      OBVIOUS
    <3>4. d # <<>> /\ c # <<>>
      BY <3>3, <3>5
    <3>. QED  BY <3>1, <3>2, <3>4
  <2>7. Chain(h, cut, d, l)
    BY <2>5, <2>6, <1>2 DEF Chain
  <2>. QED  BY <2>3, <2>4, <2>7 DEF Outlives, d
<1>. QED  BY <1>4, <1>5

LEMMA GaplessOn ==
  ASSUME NEW h, NEW z \in Nat, NEW l \in Nat, NEW k \in Nat, z <= l, l <= k, Gapless(h, z, l), Gapless(h, l, k)
  PROVE  Gapless(h, z, k)
<1>1. \A u \in z + 1..k : u \in z + 1..l \/ u \in l + 1..k
  OBVIOUS
<1>. QED  BY <1>1 DEF Gapless

LEMMA ChainLasts ==
  ASSUME NEW h, NEW t \in Nat, NEW c \in Seq(Record), NEW l \in Nat, Chain(h, t, c, l), NEW k \in Nat, l <= k, Gapless(h, l, k)
  PROVE  Chain(h, t, c, k)
<1>. DEFINE z == IF c = <<>> THEN t ELSE c[Len(c)].n
<1>1. z \in Nat /\ z <= l /\ Gapless(h, z, l)
  <2>1. c # <<>> => Len(c) \in 1..Len(c)
    OBVIOUS
  <2>2. c # <<>> => c[Len(c)].n \in Nat
    BY <2>1, RecordIs
  <2>. QED  BY <2>2 DEF Chain
<1>. HIDE DEF z
<1>2. z <= k /\ Gapless(h, z, k)
  BY <1>1, GaplessOn
<1>. QED  BY <1>2 DEF Chain, z


-----------------------------------------------------------------------------
(* A seat's mail when the relay hands out a snapshot.                      *)

BeginFor(m) == [t |-> "begin", id |-> m.id, phase |-> m.phase, cut |-> m.cut]
EndFor(m) == [t |-> "end", id |-> m.id, phase |-> m.phase, cut |-> m.cut, sitOut |-> m.sitOut]

Handed(R, S, m) ==
  /\ Relay(S) /\ Channels(S) /\ S.plan = R.plan /\ S.begin = R.begin /\ S.snap = R.snap /\ S.lastId = R.lastId
  /\ S.acks = R.acks /\ S.outcome = R.outcome /\ S.changed = R.changed
  /\ S.floor = R.floor /\ S.last = R.last /\ S.cache = R.cache
  /\ BeginFor(m) \in SeatMessage /\ EndFor(m) \in SeatMessage
  /\ \A f \in Seats :
       IF IsTarget(R, f)
       THEN /\ S.peers[f].floor = m.cut /\ S.peers[f].sitOut = m.sitOut
            /\ S.peers[f].quarantined = (m.sitOut /\ R.peers[f].quarantined)
            /\ S.peers[f].conn = R.peers[f].conn /\ S.peers[f].delivery = R.peers[f].delivery
            /\ S.outSeat[f] = Append(Append(R.outSeat[f], BeginFor(m)), EndFor(m))
                              \o IF m.sitOut THEN <<>> ELSE After(R.cont[f], m.cut)
       ELSE S.peers[f] = R.peers[f] /\ S.outSeat[f] = R.outSeat[f] /\ S.cont[f] = R.cont[f]

LEMMA AfterTyped ==
  ASSUME NEW c \in Seq(Record), NEW cut
  PROVE  After(c, cut) \in Seq(Record)
<1>. DEFINE later == {i \in 1..Len(c) : c[i].n > cut}
            first == CHOOSE i \in later : \A j \in later : i <= j
<1>1. After(c, cut) = IF later = {} THEN <<>> ELSE SubSeq(c, first, Len(c))
  BY DEF After
<1>2. CASE later # {}
  <2>1. first \in later
    <3>1. later \subseteq Nat
      OBVIOUS
    <3>. HIDE DEF later
    <3>2. \E i \in later : \A j \in later : i <= j
      BY <3>1, <1>2, Least
    <3>. QED  BY <3>2
  <2>2. first \in 1..Len(c)
    BY <2>1
  <2>. HIDE DEF first, later
  <2>3. SubSeq(c, first, Len(c)) \in Seq(Record)
    BY <2>2
  <2>. QED  BY <1>1, <1>2, <2>3
<1>. QED  BY <1>1, <1>2

LEMMA HandOutSends ==
  ASSUME NEW R, Relay(R), Channels(R), NEW m \in HostMessage, m.t = "end"
  PROVE  Handed(R, HandOut(R, m), m)
<1>. DEFINE cont == [f \in Seats |-> IF IsTarget(R, f) THEN <<>> ELSE R.cont[f]]
            peers == [f \in Seats |-> IF IsTarget(R, f)
                   THEN [R.peers[f] EXCEPT !.floor = m.cut, !.sitOut = m.sitOut,
                                           !.quarantined = m.sitOut /\ R.peers[f].quarantined]
                   ELSE R.peers[f]]
            outSeat == [f \in Seats |-> IF IsTarget(R, f)
                     THEN R.outSeat[f] \o <<BeginFor(m), EndFor(m)>>
                               \o (IF m.sitOut THEN <<>> ELSE After(R.cont[f], m.cut))
                     ELSE R.outSeat[f]]
            T == [R EXCEPT !.cont = cont, !.peers = peers, !.outSeat = outSeat]
<1>. DEFINE S == HandOut(R, m)
<1>1. S = T
  BY Zenon DEF HandOut, BeginFor, EndFor
<1>2. DOMAIN R = RelayFields
  BY DEF Relay
<1>3. m.cut \in Nat /\ m.sitOut \in BOOLEAN /\ m.id \in Nat /\ m.phase \in Phases
  BY DEF HostMessage
<1>4. BeginFor(m) \in SeatMessage /\ EndFor(m) \in SeatMessage
  BY <1>3 DEF BeginFor, EndFor, SeatMessage
<1>5. /\ Relay(S)
      /\ S.plan = R.plan /\ S.begin = R.begin /\ S.snap = R.snap /\ S.changed = R.changed
      /\ S.floor = R.floor /\ S.last = R.last /\ S.cache = R.cache /\ S.lastId = R.lastId
  BY <1>3, HandsOut
<1>6. ASSUME NEW f \in Seats, ~IsTarget(R, f)
      PROVE  peers[f] = R.peers[f] /\ cont[f] = R.cont[f] /\ outSeat[f] = R.outSeat[f]
  BY <1>6
<1>7. ASSUME NEW f \in Seats, IsTarget(R, f)
      PROVE  /\ peers[f].floor = m.cut /\ peers[f].sitOut = m.sitOut
             /\ peers[f].quarantined = (m.sitOut /\ R.peers[f].quarantined)
             /\ peers[f].conn = R.peers[f].conn /\ peers[f].delivery = R.peers[f].delivery
  <2>. DEFINE fenced == m.sitOut /\ R.peers[f].quarantined
              peer == [R.peers[f] EXCEPT !.floor = m.cut, !.sitOut = m.sitOut, !.quarantined = fenced]
  <2>1. peers[f] = peer
    BY <1>7
  <2>2. R.peers[f] \in PeerType
    BY DEF Relay
  <2>. HIDE DEF peers, fenced
  <2>3. /\ peer.floor = m.cut /\ peer.sitOut = m.sitOut /\ peer.quarantined = fenced
        /\ peer.conn = R.peers[f].conn /\ peer.delivery = R.peers[f].delivery
    BY <2>2 DEF PeerType
  <2>. HIDE DEF peer
  <2>. QED  BY <2>1, <2>3, Zenon DEF fenced
<1>8. ASSUME NEW f \in Seats, IsTarget(R, f)
      PROVE  /\ outSeat[f] = Append(Append(R.outSeat[f], BeginFor(m)), EndFor(m))
                              \o IF m.sitOut THEN <<>> ELSE After(R.cont[f], m.cut)
             /\ outSeat[f] \in Seq(SeatMessage)
  <2>1. R.outSeat[f] \in Seq(SeatMessage) /\ R.cont[f] \in Seq(Record)
    BY DEF Channels, Relay
  <2>. DEFINE d == IF m.sitOut THEN <<>> ELSE After(R.cont[f], m.cut)
  <2>2. d \in Seq(SeatMessage)
    <3>1. After(R.cont[f], m.cut) \in Seq(Record)
      BY <2>1, AfterTyped
    <3>2. After(R.cont[f], m.cut) \in Seq(SeatMessage)
      BY <3>1, RecordIs
    <3>. QED  BY <3>2
  <2>3. outSeat[f] = (R.outSeat[f] \o <<BeginFor(m), EndFor(m)>>) \o d
    BY <1>8
  <2>. HIDE DEF outSeat, d
  <2>4. /\ R.outSeat[f] \o <<BeginFor(m), EndFor(m)>> = Append(Append(R.outSeat[f], BeginFor(m)), EndFor(m))
        /\ Append(Append(R.outSeat[f], BeginFor(m)), EndFor(m)) \in Seq(SeatMessage)
    <3>1. PICK q \in Seq(SeatMessage) : q = R.outSeat[f]
      BY <2>1
    <3>2. PICK x \in SeatMessage : x = BeginFor(m)
      BY <1>4
    <3>3. PICK y \in SeatMessage : y = EndFor(m)
      BY <1>4
    <3>4. q \o <<x, y>> = Append(Append(q, x), y) /\ Append(Append(q, x), y) \in Seq(SeatMessage)
      BY TwoMore
    <3>. QED  BY <3>1, <3>2, <3>3, <3>4
  <2>5. Append(Append(R.outSeat[f], BeginFor(m)), EndFor(m)) \o d \in Seq(SeatMessage)
    BY <2>2, <2>4, Joined
  <2>. QED  BY <2>3, <2>4, <2>5, Zenon DEF d
<1>9. outSeat \in [Seats -> Seq(SeatMessage)]
  <2>1. \A f \in Seats : R.outSeat[f] \in Seq(SeatMessage)
    BY DEF Channels
  <2>2. \A f \in Seats : outSeat[f] \in Seq(SeatMessage)
    BY <2>1, <1>6, <1>8, Zenon
  <2>3. outSeat = [f \in Seats |-> outSeat[f]]
    OBVIOUS
  <2>. HIDE DEF outSeat
  <2>. QED  BY <2>2, <2>3
<1>. HIDE DEF cont, peers, outSeat, S
<1>10. /\ S.acks = R.acks /\ S.outcome = R.outcome /\ S.peers = peers /\ S.outSeat = outSeat /\ S.cont = cont
  BY <1>1, <1>2 DEF RelayFields
<1>11. Channels(S)
  BY <1>9, <1>10 DEF Channels
<1>12. \A f \in Seats :
       IF IsTarget(R, f)
       THEN /\ S.peers[f].floor = m.cut /\ S.peers[f].sitOut = m.sitOut
            /\ S.peers[f].quarantined = (m.sitOut /\ R.peers[f].quarantined)
            /\ S.peers[f].conn = R.peers[f].conn /\ S.peers[f].delivery = R.peers[f].delivery
            /\ S.outSeat[f] = Append(Append(R.outSeat[f], BeginFor(m)), EndFor(m))
                              \o IF m.sitOut THEN <<>> ELSE After(R.cont[f], m.cut)
       ELSE S.peers[f] = R.peers[f] /\ S.outSeat[f] = R.outSeat[f] /\ S.cont[f] = R.cont[f]
  BY <1>6, <1>7, <1>8, <1>10, Zenon
<1>. QED  BY <1>4, <1>5, <1>10, <1>11, <1>12, Zenon DEF Handed, S

BegunAt(a, cut) == [a EXCEPT !.stage = "Begun", !.cut = cut]
EndedAt(a, cut, sitOut) ==
  [a EXCEPT !.stage = "Ended", !.cut = cut, !.floor = cut, !.sitOut = sitOut, !.top = IF sitOut THEN a.top ELSE cut]

LEMMA EndsMoves ==
  ASSUME NEW a \in Standing, NEW h, Sane(a, h), a.stage = "Planned", NEW cut \in 1..Len(h), NEW sitOut \in BOOLEAN,
         Len(h) \in Nat, a.floor < cut, a.top < cut, NEW x, x.t = "begin", x.id = a.id, x.phase = a.phase, x.cut = cut,
         NEW y, y.t = "end", y.id = a.id, y.phase = a.phase, y.cut = cut, y.sitOut = sitOut
  PROVE  LET c == BegunAt(a, cut)
             e == EndedAt(a, cut, sitOut)
         IN  /\ c \in Standing /\ e \in Standing /\ Sane(c, h) /\ Sane(e, h)
             /\ Moves(a, x, c, h) /\ Moves(c, y, e, h) /\ c.stage = "Begun"
             /\ e.stage = "Ended" /\ e.bound = a.bound /\ e.id = a.id /\ e.phase = a.phase /\ e.sitOut = sitOut
             /\ e.floor = cut /\ e.top = IF sitOut THEN a.top ELSE cut
<1>. DEFINE c == BegunAt(a, cut)
            e == EndedAt(a, cut, sitOut)
            z == IF sitOut THEN a.top ELSE cut
<1>1. cut \in Nat /\ cut # 0 /\ cut <= Len(h) /\ a.top \in Nat /\ a.floor \in Nat /\ z \in Nat
  BY DEF Standing
<1>2. /\ c \in Standing /\ c.stage = "Begun" /\ Same(a, c) /\ c.cut = cut /\ c.top = a.top
  BY <1>1 DEF BegunAt, Standing, Stages, Same
<1>. HIDE DEF c
<1>3. /\ e \in Standing /\ e.stage = "Ended" /\ e.bound = a.bound /\ e.id = a.id /\ e.phase = a.phase
      /\ e.sitOut = sitOut /\ e.floor = cut /\ e.top = z
  <2>1. EndedAt(a, cut, sitOut) = [a EXCEPT !.stage = "Ended", !.cut = cut, !.floor = cut, !.sitOut = sitOut, !.top = z]
    BY Zenon DEF EndedAt
  <2>. HIDE DEF z
  <2>. QED  BY <1>1, <2>1 DEF Standing, Stages
<1>. HIDE DEF e
<1>4. Sane(c, h)
  BY <1>2, <1>1 DEF Sane, Reading, Same
<1>5. Sane(e, h)
  BY <1>3, <1>1 DEF Sane, Reading, Alike
<1>6. Moves(a, x, c, h)
  BY <1>2 DEF Moves, Begins
<1>7. Moves(c, y, e, h)
  BY <1>2, <1>3 DEF Moves, EndsAt, Same
<1>. QED  BY <1>2, <1>3, <1>4, <1>5, <1>6, <1>7 DEF c, e

\* The snapshot that the relay has been waiting for.
Snapped(R, m, h, l, k) ==
  /\ R.plan # NoPlan /\ R.snap = NoSnap /\ R.acks = {} /\ m.t = "end" /\ m.id = R.plan.id /\ m.phase = R.plan.phase
  /\ m.cut \in 1..Len(h) /\ m.sitOut \in BOOLEAN /\ R.floor < m.cut
  /\ k = Larger(l, m.cut) /\ k \in Nat /\ l <= k /\ m.cut <= k /\ Gapless(h, l, k)
  /\ \A f \in Seats : R.peers[f].floor <= R.floor
  /\ \A f \in Seats : \A i \in 1..Len(R.cont[f]) :
       R.cont[f][i].n > m.cut /\ R.plan.phase = "Checkpoint" /\ ~m.sitOut => Alike(h, R.cont[f][i].n, m.cut)

Took(R, S, f, m) ==
  /\ S.plan = R.plan /\ S.snap = [cut |-> m.cut, sitOut |-> m.sitOut] /\ S.lastId = R.lastId /\ S.acks = R.acks
  /\ BeginFor(m) \in SeatMessage /\ EndFor(m) \in SeatMessage
  /\ IF IsTarget(R, f)
       THEN /\ S.peers[f].floor = m.cut /\ S.peers[f].sitOut = m.sitOut
            /\ S.peers[f].quarantined = (m.sitOut /\ R.peers[f].quarantined)
            /\ S.peers[f].conn = R.peers[f].conn /\ S.peers[f].delivery = R.peers[f].delivery
            /\ S.outSeat[f] = Append(Append(R.outSeat[f], BeginFor(m)), EndFor(m))
                              \o IF m.sitOut THEN <<>> ELSE After(R.cont[f], m.cut)
       ELSE S.peers[f] = R.peers[f] /\ S.outSeat[f] = R.outSeat[f] /\ S.cont[f] = R.cont[f]

LEMMA SnapMail ==
  ASSUME NEW R, Relay(R), Channels(R), NEW f \in Seats, NEW s, NEW b, NEW l \in Nat, NEW h \in Seq(Entry),
         l <= Len(h), NEW m, NEW k, Snapped(R, m, h, l, k), NEW cuts, m.cut \in cuts, NEW cuts2, NEW late1,
         Mail(R, f, s, b, l, h, cuts, late1), NEW S, Took(R, S, f, m)
  PROVE  Mail(S, f, s, b, k, h, cuts2, late1)
<1>. DEFINE P == R.peers[f]
            q == R.outSeat[f]
            cut == m.cut
<1>1. q \in Seq(SeatMessage) /\ P \in PeerType /\ R.cont[f] \in Seq(Record) /\ cut \in Nat /\ cut # 0 /\ Len(h) \in Nat
      /\ R.floor \in Nat /\ S.acks = {} /\ S.snap # NoSnap /\ S.snap.cut = cut /\ S.snap.sitOut = m.sitOut
      /\ cut <= k /\ l <= k /\ k \in Nat
  BY DEF Channels, Relay, Snapped, Took, NoSnap
<1>2. IsTarget(S, f) <=> IsTarget(R, f)
  BY DEF IsTarget, Took
<1>3. CASE P.conn = 0
  <2>1. Absent(R, f, s, b)
    BY <1>3 DEF Mail
  <2>2. S.peers[f] = NoPeer /\ S.outSeat[f] = <<>>
    BY <2>1 DEF Absent, Took
  <2>3. Absent(S, f, s, b) /\ S.peers[f].conn = 0
    BY <1>1, <1>2, <2>1, <2>2 DEF Absent, NoPeer
  <2>. QED  BY <2>3 DEF Mail
<1>4. CASE P.conn # 0
  <2>1. PICK g : Life(R, f, s, b, g, l, h, cuts, late1)
    BY <1>4 DEF Mail
  <2>. PICK a : a = Final(g)
    OBVIOUS
  <2>2. Trace(q, g, h) /\ Meant(R, f, a, l, h, cuts)
    BY <2>1 DEF Life
  <2>3. a \in Standing /\ Sane(a, h) /\ Len(g) \in Nat
    BY <1>1, <2>2, TraceTyped
  <2>4. Bound(P, R, a, l) /\ a.top \in Nat /\ a.top <= l /\ a.floor \in Nat /\ a.bound \in Nat
    BY <2>2, <2>3 DEF Meant, Bound, Standing
  <2>5. CASE ~IsTarget(R, f)
    <3>1. S.peers[f] = P /\ S.outSeat[f] = q /\ S.cont[f] = R.cont[f]
      BY <2>5 DEF Took
    <3>2. Bound(P, S, a, k)
      BY <1>1, <2>4 DEF Bound, Took
    <3>3. Gapless(h, a.top, l) => Gapless(h, a.top, k)
      BY <1>1, <2>4, GaplessOn DEF Snapped
    <3>4. a.stage \in {"Open", "Cut"}
      BY <2>2, <2>5 DEF Meant
    <3>5. Meant(S, f, a, k, h, cuts2)
      BY <2>2, <2>5, <1>2, <3>1, <3>2, <3>3, <3>4 DEF Meant
    <3>6. Life(S, f, s, b, g, k, h, cuts2, late1)
      BY <1>1, <2>1, <3>1, <3>5 DEF Life
    <3>. QED  BY <1>4, <3>1, <3>6 DEF Mail
  <2>6. CASE IsTarget(R, f)
    <3>. DEFINE x == BeginFor(m)
                y == EndFor(m)
                c == BegunAt(a, cut)
                e == EndedAt(a, cut, m.sitOut)
                q1 == Append(q, x)
                q2 == Append(q1, y)
                g1 == Append(g, c)
                g2 == Append(g1, e)
    <3>1. a.stage = "Planned" /\ a.id = R.plan.id /\ a.phase = R.plan.phase /\ Waits(P, R.cont[f], a, l, h, cuts)
          /\ R.plan.targets[f] = [conn |-> P.conn, delivery |-> P.delivery]
      BY <2>2, <2>6 DEF Meant, Snapped
    <3>2. PICK t \in a.top..l : Chain(h, t, R.cont[f], l) /\ t < cut
      BY <3>1 DEF Waits
    <3>3. t \in Nat /\ a.top < cut /\ a.floor < cut
      BY <1>1, <2>4, <3>2, SMTT(30) DEF Bound, Snapped, PeerType
    <3>4. x \in SeatMessage /\ y \in SeatMessage /\ x.t = "begin" /\ x.id = a.id /\ x.phase = a.phase /\ x.cut = cut
          /\ y.t = "end" /\ y.id = a.id /\ y.phase = a.phase /\ y.cut = cut /\ y.sitOut = m.sitOut
      BY <3>1 DEF BeginFor, EndFor, Took, Snapped
    <3>5. cut \in 1..Len(h) /\ m.sitOut \in BOOLEAN
      BY DEF Snapped
    <3>. HIDE DEF x, y, cut
    <3>6. /\ c \in Standing /\ e \in Standing /\ Sane(c, h) /\ Sane(e, h)
          /\ Moves(a, x, c, h) /\ Moves(c, y, e, h) /\ c.stage = "Begun"
          /\ e.stage = "Ended" /\ e.bound = a.bound /\ e.id = a.id /\ e.phase = a.phase /\ e.sitOut = m.sitOut
          /\ e.floor = cut /\ e.top = IF m.sitOut THEN a.top ELSE cut
      BY <1>1, <2>3, <3>1, <3>3, <3>4, <3>5, EndsMoves
    <3>. HIDE DEF c, e
    <3>7. /\ q1 \in Seq(SeatMessage) /\ Trace(q1, g1, h)
          /\ Final(g1) = c /\ g1[1] = g[1] /\ Len(g1) = Len(g) + 1
          /\ \A i \in 1..Len(g) : g1[i] = g[i]
      BY <1>1, <2>2, <3>4, <3>6, SentTrace
    <3>. HIDE DEF q1, g1
    <3>8. /\ q2 \in Seq(SeatMessage) /\ Trace(q2, g2, h)
          /\ Final(g2) = e /\ g2[1] = g1[1] /\ Len(g2) = Len(g1) + 1
          /\ \A i \in 1..Len(g1) : g2[i] = g1[i]
      BY <3>4, <3>6, <3>7, SentTrace
    <3>. HIDE DEF q2, g2
    <3>9. g1[Len(g1)] = c /\ g2[Len(g2)] = e
      BY <3>7, <3>8 DEF Final
    <3>10. (\E i \in 1..Len(g2) : g2[i].stage = "Open") => \E i \in 1..Len(g) : g[i].stage = "Open"
      <4>. SUFFICES ASSUME NEW i \in 1..Len(g2), g2[i].stage = "Open"
                    PROVE  \E j \in 1..Len(g) : g[j].stage = "Open"
        OBVIOUS
      <4>1. i \in 1..Len(g) \/ i = Len(g1) \/ i = Len(g2)
        BY <2>3, <3>7, <3>8
      <4>2. i # Len(g1) /\ i # Len(g2)
        <5>1. i = Len(g1) => g2[i] = g1[i]
          BY <2>3, <3>7, <3>8
        <5>. QED  BY <5>1, <3>6, <3>9
      <4>3. i \in 1..Len(g) /\ g2[i] = g[i]
        BY <2>3, <4>1, <4>2, <3>7, <3>8
      <4>. QED  BY <4>3
    <3>11. /\ S.peers[f].floor = cut /\ S.peers[f].sitOut = m.sitOut /\ S.peers[f].quarantined = m.sitOut
           /\ S.peers[f].conn = P.conn /\ S.peers[f].delivery = P.delivery
           /\ S.outSeat[f] = q2 \o IF m.sitOut THEN <<>> ELSE After(R.cont[f], cut)
      <4>1. P.quarantined
        BY <3>1 DEF Waits
      <4>. QED  BY <4>1, <2>6, <3>5 DEF Took, q2, q1, x, y, cut
    <3>12. ASSUME NEW G, NEW r, r = Final(G), Trace(S.outSeat[f], G, h), G[1] = g2[1], r.stage = "Ended", Same(e, r),
                  r.top <= k, ~m.sitOut => Gapless(h, r.top, k),
                  (\E i \in 1..Len(G) : G[i].stage = "Open") => \E i \in 1..Len(g2) : g2[i].stage = "Open"
           PROVE  Mail(S, f, s, b, k, h, cuts2, late1)
      <4>1. r.bound = P.delivery /\ r.floor = cut /\ r.id = R.plan.id /\ r.phase = R.plan.phase /\ r.sitOut = m.sitOut
            /\ r.id <= R.lastId
        BY <2>4, <3>1, <3>6, <3>12 DEF Same, Bound
      <4>2. Bound(S.peers[f], S, r, k)
        BY <3>11, <3>12, <4>1 DEF Bound, Took
      <4>3. S.plan.targets[f] = [conn |-> S.peers[f].conn, delivery |-> S.peers[f].delivery]
            /\ r.id = S.plan.id /\ r.phase = S.plan.phase
        BY <3>1, <3>11, <4>1 DEF Took
      <4>4. Meant(S, f, r, k, h, cuts2)
        BY <1>1, <1>2, <2>6, <3>11, <3>12, <4>1, <4>2, <4>3 DEF Meant, cut
      <4>5. G[1] = g[1]
        BY <3>7, <3>8, <3>12
      <4>6. f \notin S.acks /\ S.peers[f].conn # 0
        BY <1>1, <1>4, <3>11
      <4>7. Meant(S, f, Final(G), k, h, cuts2) /\ Trace(S.outSeat[f], G, h)
        BY <3>12, <4>4
      <4>8. (\E i \in 1..Len(G) : G[i].stage = "Open") => \E i \in 1..Len(g) : g[i].stage = "Open"
        BY <3>10, <3>12
      <4>. QED  BY <2>1, <4>5, <4>6, <4>7, <4>8, Sent
    <3>13. CASE m.sitOut
      <4>1. S.outSeat[f] = q2
        BY <3>8, <3>11, <3>13
      <4>2. e.top <= k
        BY <1>1, <2>4, <3>6, <3>13
      <4>. QED  BY <3>6, <3>8, <3>12, <3>13, <4>1, <4>2 DEF Same
    <3>14. CASE ~m.sitOut
      <4>. PICK d : d = After(R.cont[f], cut)
        OBVIOUS
      <4>1. Chain(h, t, R.cont[f], k)
        BY <1>1, <3>2, <3>3, ChainLasts DEF Snapped
      <4>2. Outlives(h, cut, R.cont[f], d, k)
        BY <1>1, <3>2, <3>3, <4>1, AfterIs DEF cut
      <4>3. d \in Seq(Record) /\ Chain(h, cut, d, k)
            /\ \A i \in 1..Len(d) : cut < d[i].n /\ \E j \in 1..Len(R.cont[f]) : d[i] = R.cont[f][j]
        BY <4>2 DEF Outlives
      <4>4. ASSUME NEW i \in 1..Len(d)
            PROVE  /\ d[i].delivery = e.bound /\ e.floor < d[i].n /\ Behind(h, e.top, d, i)
                   /\ e.stage = "Ended" /\ e.phase = "Checkpoint" => Alike(h, d[i].n, e.floor)
        <5>1. PICK j \in 1..Len(R.cont[f]) : d[i] = R.cont[f][j]
          BY <4>3
        <5>2. d[i].delivery = e.bound
          BY <5>1, <3>1, <3>6, <2>4 DEF Waits, Bound
        <5>3. d[i].n \in Nat /\ cut < d[i].n /\ Behind(h, cut, d, i)
          BY <4>3, RecordIs DEF Chain
        <5>4. R.plan.phase = "Checkpoint" => Alike(h, d[i].n, cut)
          BY <3>14, <5>1, <5>3, <1>1 DEF Snapped, cut
        <5>. QED  BY <3>1, <3>6, <3>14, <5>2, <5>3, <5>4
      <4>5. \E G : Prolonged(q2, d, g2, G, h)
        <5>1. e = Final(g2) /\ e.stage \in {"Open", "Ended"} /\ ~e.sitOut
          BY <3>6, <3>8, <3>14
        <5>. QED  BY <3>8, <4>3, <4>4, <5>1, CarriedTrace
      <4>6. PICK G : Prolonged(q2, d, g2, G, h)
        BY <4>5
      <4>. PICK r : r = Final(G)
        OBVIOUS
      <4>7. /\ Trace(S.outSeat[f], G, h) /\ r.stage = "Ended" /\ Same(e, r) /\ G[1] = g2[1]
            /\ r.top = IF d = <<>> THEN cut ELSE d[Len(d)].n
            /\ (\E i \in 1..Len(G) : G[i].stage = "Open") => \E i \in 1..Len(g2) : g2[i].stage = "Open"
        BY <4>6, <3>6, <3>8, <3>11, <3>14 DEF Prolonged
      <4>8. r.top <= k /\ Gapless(h, r.top, k)
        BY <4>3, <4>7 DEF Chain
      <4>. QED  BY <3>12, <4>7, <4>8
    <3>. QED  BY <3>13, <3>14
  <2>. QED  BY <2>5, <2>6
<1>. QED  BY <1>3, <1>4

-----------------------------------------------------------------------------
(* The world that a snapshot and the updates after it stand for.           *)

\* Entry n is no news to a seat that holds the snapshot.
Tells(snap, h, n) == (snap.sitOut /\ Boss(h, n)) \/ Alike(h, n, snap.cut)

\* If no update since the cut is news, neither is the world that a later
\* snapshot copies.
LEMMA NewsByUpdates ==
  ASSUME NEW h \in Seq(Entry), History(h), Copies(h), NEW snap, snap.cut \in 1..Len(h), NEW l \in Nat, l <= Len(h),
         \A n \in snap.cut + 1..l : Update(h, n) => Tells(snap, h, n)
  PROVE  \A n \in snap.cut + 1..l : Tells(snap, h, n)
<1>. SUFFICES ASSUME NEW n \in snap.cut + 1..l
              PROVE  Tells(snap, h, n)
  OBVIOUS
<1>. PICK cut : cut = snap.cut
  OBVIOUS
<1>1. n \in 1..Len(h) /\ n \in 0..Len(h) /\ Len(h) \in Nat /\ cut \in Nat /\ cut < n /\ cut # 0 /\ n # 0
  OBVIOUS
<1>. PICK u : u = h[n].at
  OBVIOUS
<1>2. u \in 1..n /\ Update(h, u) /\ h[u] = h[n]
  <2>1. At(h, n) = u
    BY <1>1 DEF At
  <2>2. u \in 1..n /\ Update(h, u)
    BY <1>1, <2>1, AtIs
  <2>. QED  BY <1>1, <2>2 DEF Copies
<1>3. CASE cut < u
  <2>1. u \in cut + 1..l
    BY <1>1, <1>2, <1>3
  <2>2. Tells(snap, h, u)
    BY <2>1, <1>2
  <2>. QED  BY <1>1, <1>2, <2>2 DEF Tells, Boss, Alike
<1>4. CASE ~(cut < u)
  <2>1. h[cut].at = u
    BY <1>1, <1>2, <1>4 DEF History
  <2>2. h[cut] = h[n]
    BY <1>1, <1>2, <2>1 DEF Copies
  <2>. QED  BY <1>1, <2>2 DEF Tells, Alike
<1>. QED  BY <1>3, <1>4

\* A continuation leaves no update out.
LEMMA ChainHolds ==
  ASSUME NEW h, NEW t \in Nat, NEW c \in Seq(Record), NEW l \in Nat, Chain(h, t, c, l),
         NEW u \in Nat, Update(h, u), t < u, u <= l
  PROVE  \E k \in 1..Len(c) : c[k].n = u
<1>1. Len(c) \in Nat /\ \A i \in 1..Len(c) : c[i].n \in Nat
  BY RecordIs
<1>2. h[u].at = u
  BY DEF Update
<1>. DEFINE S == {k \in 1..Len(c) : u <= c[k].n}
<1>3. CASE S = {}
  <2>. DEFINE z == IF c = <<>> THEN t ELSE c[Len(c)].n
  <2>1. z \in Nat /\ z <= l /\ Gapless(h, z, l)
    <3>1. c # <<>> => Len(c) \in 1..Len(c)
      BY <1>1
    <3>. QED  BY <1>1, <3>1 DEF Chain
  <2>2. z < u
    <3>1. CASE c = <<>>
      BY <3>1
    <3>2. CASE c # <<>>
      <4>1. Len(c) \in 1..Len(c)
        BY <1>1, <3>2
      <4>2. ~(u <= c[Len(c)].n)
        BY <4>1, <1>3
      <4>. QED  BY <4>1, <4>2, <3>2, <1>1
    <3>. QED  BY <3>1, <3>2
  <2>. HIDE DEF z
  <2>3. u \in z + 1..l
    BY <2>1, <2>2
  <2>. QED  BY <1>2, <2>1, <2>3 DEF Gapless
<1>4. CASE S # {}
  <2>1. PICK k \in S : \A j \in S : k <= j
    <3>1. S \subseteq Nat
      OBVIOUS
    <3>. HIDE DEF S
    <3>. QED  BY <3>1, <1>4, Least
  <2>2. k \in 1..Len(c) /\ u <= c[k].n /\ k \in Nat /\ c[k].n \in Nat
    BY <1>1, <2>1
  <2>. DEFINE y == IF k = 1 THEN t ELSE c[k - 1].n
  <2>3. Gapless(h, y, c[k].n - 1)
    BY <2>2 DEF Chain, Behind, Follows
  <2>4. y \in Nat /\ y < u
    <3>1. CASE k # 1
      <4>1. k - 1 \in 1..Len(c) /\ ~(k <= k - 1)
        BY <2>2, <1>1, <3>1
      <4>2. ~(u <= c[k - 1].n)
        BY <2>1, <4>1
      <4>. QED  BY <1>1, <3>1, <4>1, <4>2
    <3>2. CASE k = 1
      BY <3>2
    <3>. QED  BY <3>1, <3>2
  <2>. HIDE DEF y, S
  <2>5. ~(u \in y + 1..c[k].n - 1)
    BY <1>2, <2>3 DEF Gapless
  <2>6. u = c[k].n
    BY <2>2, <2>4, <2>5
  <2>. QED  BY <2>2, <2>6
<1>. QED  BY <1>3, <1>4

-----------------------------------------------------------------------------
(* A seat's mail when the relay reads the End of a snapshot.               *)

\* What every step of the relay that does not converge a transaction keeps.
Keeps(R, S, h) ==
  /\ Channels(S) /\ NoNews(S, h, S.last)
  /\ S.last = 0 => S.cache = 0
  /\ \A f \in S.acks : f \in Seats /\ S.snap # NoSnap
  /\ S.outcome = R.outcome \/ S.outcome.reason # "Converged"

LEMMA FinishKeeps ==
  ASSUME NEW R, Relay(R), Channels(R), NEW reason \in Reasons, reason # "Converged", NEW h, R.last = 0 => R.cache = 0,
         NEW Q, R.outcome = Q.outcome, R.plan = NoPlan => R.snap = NoSnap /\ R.acks = {}, NEW S, S = Finish(R, reason)
  PROVE  Keeps(Q, S, h) /\ S.plan = NoPlan
<1>1. CASE R.plan = NoPlan
  BY <1>1 DEF Finish, Keeps, NoNews
<1>2. CASE R.plan # NoPlan
  <2>1. Finished(R, S, reason)
    BY <1>2, FinishSends
  <2>. QED  BY <2>1 DEF Finished, Keeps, NoNews
<1>. QED  BY <1>1, <1>2

\* The updates that overtook a snapshot are in every target's continuation.
LEMMA SnapNews ==
  ASSUME NEW R, Relay(R), hist \in Seq(Entry), History(hist), Copies(hist), NEW m, NEW l \in Nat, l <= Len(hist),
         NEW k, Snapped(R, m, hist, l, k), NEW f \in Seats, IsTarget(R, f), NEW a \in Standing, NEW cuts, m.cut \in cuts,
         Meant(R, f, a, l, hist, cuts), NEW snap, snap = [cut |-> m.cut, sitOut |-> m.sitOut], ~NewsQueued(R, snap)
  PROVE  \A n \in m.cut + 1..k : Tells(snap, hist, n)
<1>1. m.cut \in 1..Len(hist) /\ m.cut \in Nat /\ Len(hist) \in Nat /\ k = Larger(l, m.cut) /\ snap.cut = m.cut
      /\ k \in Nat /\ k <= Len(hist) /\ (k = l \/ k = m.cut)
  BY DEF Snapped, Larger
<1>2. Waits(R.peers[f], R.cont[f], a, l, hist, cuts)
  BY DEF Meant, Snapped
<1>3. PICK t \in a.top..l : Chain(hist, t, R.cont[f], l) /\ t < m.cut
  BY <1>2 DEF Waits
<1>4. t \in Nat /\ R.cont[f] \in Seq(Record)
  BY <1>3 DEF Standing, Relay
<1>5. ASSUME NEW n \in m.cut + 1..k, Update(hist, n)
      PROVE  Tells(snap, hist, n)
  <2>1. n \in Nat /\ t < n /\ n <= l /\ n # 0 /\ m.cut < n
    BY <1>1, <1>3, <1>4, <1>5
  <2>2. PICK i \in 1..Len(R.cont[f]) : R.cont[f][i].n = n
    BY <1>3, <1>4, <1>5, <2>1, ChainHolds
  <2>3. ~Differs(n, snap)
    BY <2>1, <2>2, <1>1 DEF NewsQueued
  <2>. QED  BY <1>1, <2>1, <2>3 DEF Differs, Tells, Boss, Alike
<1>6. \A n \in snap.cut + 1..k : Tells(snap, hist, n)
  BY <1>1, <1>5, NewsByUpdates
<1>. QED  BY <1>1, <1>6

World(R, H, q, h, s, b, cuts, late1) ==
  /\ Good(R, H, q, h) /\ Channels(R) /\ Extra(R, H, q, h, R.last) /\ s \in [Seats -> SeatType]
  /\ Everyone(R, s, b, R.last, h, cuts, late1)

\* What a step of the relay makes of the mail.
Handles(R, S, h, s, b, cuts, late1) ==
  /\ Keeps(R, S, h) /\ Everyone(S, s, b, S.last, h, cuts, late1)
  /\ S.plan = NoPlan \/ S.plan = R.plan

LEMMA WorldIs ==
  ASSUME NEW R, NEW H, NEW q, NEW h, NEW s, NEW b, NEW cuts, NEW late1, World(R, H, q, h, s, b, cuts, late1)
  PROVE  /\ Relay(R) /\ DOMAIN R = RelayFields /\ Channels(R) /\ (R.plan = NoPlan => Clean(R)) /\ History(h) /\ Copies(h)
         /\ h \in Seq(Entry) /\ R.last <= Len(h) /\ R.last \in Nat /\ Len(h) \in Nat /\ R.lastId \in Nat
         /\ R.last = 0 => R.cache = 0
         /\ R.snap = NoSnap => R.acks = {}
         /\ R.plan = NoPlan => R.snap = NoSnap /\ R.acks = {}
         /\ NoNews(R, h, R.last) /\ Grows(h, h) /\ s \in [Seats -> SeatType]
         /\ \A f \in R.acks : f \in Seats /\ R.snap # NoSnap
         /\ Everyone(R, s, b, R.last, h, cuts, late1)
         /\ \A f \in Seats : Mail(R, f, s[f], b[f], R.last, h, cuts, late1)
<1>1. /\ Relay(R) /\ (R.plan = NoPlan => Clean(R)) /\ History(h) /\ h \in Seq(Entry) /\ R.last <= Len(h)
      /\ R.plan = NoPlan => R.snap = NoSnap
  <2>. USE DEF World
  <2>. QED  BY TransactionClean DEF Good, Types, Transaction
<1>2. DOMAIN R = RelayFields /\ R.last \in Nat /\ Len(h) \in Nat /\ R.lastId \in Nat
  BY <1>1 DEF Relay
<1>3. /\ Copies(h) /\ (R.last = 0 => R.cache = 0) /\ NoNews(R, h, R.last)
      /\ \A f \in R.acks : f \in Seats /\ R.snap # NoSnap
  BY DEF World, Extra
<1>4. Grows(h, h)
  BY <1>1, <1>2 DEF Grows
<1>5. Channels(R) /\ s \in [Seats -> SeatType] /\ Everyone(R, s, b, R.last, h, cuts, late1)
  BY DEF World
<1>. QED  BY <1>1, <1>2, <1>3, <1>4, <1>5 DEF Everyone


\* The relay reads the End of a snapshot.
LEMMA EndHandles ==
  ASSUME NEW R, NEW H, NEW q, NEW s, NEW b, NEW cuts, NEW late1, World(R, H, q, hist, s, b, cuts, late1),
         q # <<>>, q[1].t = "end", Partner(R, q[1]) => q[1].cut \in cuts,
         NEW S, S = AdmitEnd(R, q[1]), NEW cuts2, cuts2 \subseteq cuts
  PROVE  /\ Handles(R, S, hist, s, b, cuts2, late1)
         /\ S.floor = R.floor \/ (Partner(R, q[1]) /\ S.floor = Larger(R.floor, q[1].cut))
<1>. SUFFICES ASSUME Good(R, H, q, hist), Channels(R), Extra(R, H, q, hist, R.last), s \in [Seats -> SeatType],
                     Everyone(R, s, b, R.last, hist, cuts, late1)
              PROVE  /\ Keeps(R, S, hist) /\ Everyone(S, s, b, S.last, hist, cuts2, late1)
                     /\ S.plan = NoPlan \/ S.plan = R.plan
                     /\ S.floor = R.floor \/ (Partner(R, q[1]) /\ S.floor = Larger(R.floor, q[1].cut))
  BY DEF World, Handles
<1>. DEFINE m == q[1]
            snap == [cut |-> m.cut, sitOut |-> m.sitOut]
            news == NewsQueued(R, snap)
            held == [R EXCEPT !.snap = snap, !.changed = news]
            cache == IF m.sitOut THEN held.cache ELSE Refresh(R, m.cut)
            floor == Larger(held.floor, m.cut)
            last == Larger(held.last, m.cut)
            T == [held EXCEPT !.cache = cache, !.floor = floor, !.last = last]
<1>1. /\ Relay(R) /\ DOMAIN R = RelayFields /\ (R.plan = NoPlan => Clean(R)) /\ History(hist) /\ Copies(hist)
      /\ hist \in Seq(Entry) /\ R.last <= Len(hist) /\ R.last \in Nat /\ Len(hist) \in Nat
      /\ R.last = 0 => R.cache = 0
      /\ R.snap = NoSnap => R.acks = {}
      /\ NoNews(R, hist, R.last)
      /\ \A f \in R.acks : f \in Seats /\ R.snap # NoSnap
  <2>1. Relay(R) /\ (R.plan = NoPlan => Clean(R)) /\ History(hist) /\ hist \in Seq(Entry) /\ R.last <= Len(hist)
    BY TransactionClean DEF Good, Types, Transaction
  <2>2. DOMAIN R = RelayFields /\ R.last \in Nat /\ Len(hist) \in Nat
    BY <2>1 DEF Relay
  <2>3. /\ Copies(hist) /\ (R.last = 0 => R.cache = 0) /\ NoNews(R, hist, R.last)
        /\ \A f \in R.acks : f \in Seats /\ R.snap # NoSnap
    BY DEF Extra
  <2>. QED  BY <2>1, <2>2, <2>3
<1>2. 1 \in 1..Len(q) /\ m \in HostMessage
  BY DEF Good, Types
<1>3. CASE R.plan = NoPlan \/ m.id # R.plan.id
  <2>1. S = R
    BY <1>3 DEF AdmitEnd
  <2>2. Grows(hist, hist) /\ \A x \in cuts2 : x \in cuts
    BY <1>1 DEF Grows
  <2>3. \A f \in Seats : Agree(R, S, f)
    BY <1>1, <2>1 DEF Agree, Relay
  <2>4. Everyone(S, s, b, R.last, hist, cuts2, late1)
    BY <1>1, <2>2, <2>3, EveryoneGrows
  <2>. QED  BY <1>1, <2>1, <2>4 DEF Keeps
<1>4. CASE ~(R.plan = NoPlan \/ m.id # R.plan.id) /\ (R.begin.cut # m.cut \/ R.begin.phase # m.phase)
  <2>1. S = Finish(R, "InvalidSnapshot") /\ "InvalidSnapshot" \in Reasons
    BY <1>4 DEF AdmitEnd, Reasons
  <2>2. Keeps(R, S, hist) /\ S.plan = NoPlan
    <3>. PICK r : r = "InvalidSnapshot"
      OBVIOUS
    <3>1. S = Finish(R, r) /\ r \in Reasons /\ r # "Converged"
      BY <2>1
    <3>2. R.plan # NoPlan /\ (R.last = 0 => R.cache = 0) /\ Relay(R)
      BY <1>1, <1>4
    <3>. QED  BY <3>1, <3>2, FinishKeeps
  <2>3. S.last = R.last /\ S.floor = R.floor
    BY <1>1, <2>1, Ends DEF Ended
  <2>4. ASSUME NEW f \in Seats PROVE Mail(S, f, s[f], b[f], R.last, hist, cuts2, late1)
    <3>1. Mail(R, f, s[f], b[f], R.last, hist, cuts, late1)
      BY DEF Everyone
    <3>. QED  BY <1>1, <2>1, <3>1, FinishMail
  <2>. QED  BY <2>2, <2>3, <2>4 DEF Everyone
<1>5. CASE R.plan # NoPlan /\ m.id = R.plan.id /\ R.begin.cut = m.cut /\ R.begin.phase = m.phase
  <2>1. Partner(R, m)
    <3>1. ~(R.begin.cut < m.cut)
      BY <1>1, <1>5 DEF Relay
    <3>. QED  BY <1>2, <3>1 DEF Good, Ahead
  <2>2. m.cut \in 1..Len(hist) /\ m.cut \in Nat /\ m.cut # 0 /\ m.sitOut \in BOOLEAN /\ m.t = "end"
    <3>1. m.cut \in 1..Len(hist) /\ m.cut \in Nat /\ m.sitOut \in BOOLEAN
      BY <2>1, HeadEnd
    <3>. QED  BY <2>1, <3>1 DEF Partner
  <2>3. snap \in SnapType /\ snap.cut = m.cut /\ snap.sitOut = m.sitOut /\ news \in BOOLEAN
    BY <2>2 DEF SnapType, NewsQueued
  <2>4. S = IF news /\ R.plan.phase = "Checkpoint" THEN Finish(held, "NativeFailed")
            ELSE HandOut(T, m)
    BY <1>5, Zenon DEF AdmitEnd
  <2>. PICK sn : sn = snap
    OBVIOUS
  <2>. HIDE DEF snap, news
  <2>5. /\ DOMAIN held = RelayFields /\ held.plan = R.plan /\ held.begin = R.begin /\ held.snap = snap
        /\ held.changed = news /\ held.cont = R.cont /\ held.peers = R.peers /\ held.floor = R.floor
        /\ held.last = R.last /\ held.cache = R.cache /\ held.lastId = R.lastId
        /\ held.nextConn = R.nextConn /\ held.outHost = R.outHost /\ held.outSeat = R.outSeat
        /\ held.acks = R.acks /\ held.outcome = R.outcome
    BY <1>1 DEF RelayFields
  <2>. HIDE DEF held
  <2>6. Relay(held) /\ Channels(held)
    BY <1>1, <2>3, <2>5 DEF Relay, Channels
  <2>7. CASE news /\ R.plan.phase = "Checkpoint"
    <3>. PICK r : r = "NativeFailed"
      OBVIOUS
    <3>1. S = Finish(held, r) /\ r \in Reasons /\ r # "Converged"
      BY <2>4, <2>7 DEF Reasons
    <3>. DEFINE Q == Finish(R, r)
    <3>2. Keeps(R, S, hist)
      BY <1>1, <1>5, <2>5, <2>6, <3>1, FinishKeeps
    <3>3. Finished(held, S, r) /\ Finished(R, Q, r)
      BY <1>1, <1>5, <2>5, <2>6, <3>1, FinishSends
    <3>4. S.last = R.last /\ S.floor = R.floor /\ S.plan = NoPlan
      BY <2>5, <3>3 DEF Finished
    <3>5. ASSUME NEW f \in Seats PROVE Mail(S, f, s[f], b[f], R.last, hist, cuts2, late1)
      <4>1. Mail(R, f, s[f], b[f], R.last, hist, cuts, late1)
        BY DEF Everyone
      <4>2. Mail(Q, f, s[f], b[f], R.last, hist, cuts2, late1)
        BY <1>1, <3>1, <4>1, FinishMail
      <4>3. IsTarget(held, f) <=> IsTarget(R, f)
        BY <2>5 DEF IsTarget
      <4>4. /\ S.peers[f] = IF IsTarget(R, f) /\ r # "Converged" THEN Shut(R.peers[f]) ELSE R.peers[f]
            /\ S.outSeat[f] = IF IsTarget(R, f) THEN Append(R.outSeat[f], ResultOf(R, r)) ELSE R.outSeat[f]
            /\ S.cont[f] = <<>>
        BY <2>5, <3>3, <4>3 DEF Finished, ResultOf
      <4>5. /\ Q.peers[f] = IF IsTarget(R, f) /\ r # "Converged" THEN Shut(R.peers[f]) ELSE R.peers[f]
            /\ Q.outSeat[f] = IF IsTarget(R, f) THEN Append(R.outSeat[f], ResultOf(R, r)) ELSE R.outSeat[f]
            /\ Q.cont[f] = <<>>
        BY <3>3 DEF Finished
      <4>. HIDE DEF Q
      <4>6. Agree(Q, S, f)
        <5>1. S.lastId = Q.lastId /\ S.lastId \in Nat /\ S.plan = Q.plan /\ S.snap = Q.snap /\ S.acks = {}
          BY <2>5, <3>3 DEF Finished
        <5>. QED  BY <4>4, <4>5, <5>1 DEF Agree
      <4>7. Relay(Q) /\ Q.outSeat[f] \in Seq(SeatMessage)
        BY <1>1, <3>1, <3>3, Ends DEF Ended, Finished, Channels, Q
      <4>8. Grows(hist, hist)
        BY <1>1 DEF Grows
      <4>. QED  BY <1>1, <4>2, <4>6, <4>7, <4>8, MailGrows
    <3>. QED  BY <3>2, <3>4, <3>5 DEF Everyone
  <2>8. CASE ~(news /\ R.plan.phase = "Checkpoint")
    <3>. PICK k : k = Larger(R.last, m.cut)
      OBVIOUS
    <3>1. k \in Nat /\ R.last <= k /\ m.cut <= k /\ k # 0 /\ k <= Len(hist) /\ (k = R.last \/ k = m.cut)
      BY <1>1, <2>2 DEF Larger
    <3>2. cache = hist[k].at /\ floor = Larger(R.floor, m.cut) /\ last = k
      BY <2>1, <2>5, RebuiltCache
    <3>3. floor \in Nat /\ last \in Nat /\ cache \in Nat
      <4>1. floor \in Nat /\ last \in Nat
        BY <1>1, <2>2, <3>1, <3>2 DEF Relay, Larger
      <4>2. hist[k] \in Entry
        BY <1>1, <3>1
      <4>. QED  BY <3>2, <4>1, <4>2 DEF Entry
    <3>. HIDE DEF cache, floor, last
    <3>4. /\ DOMAIN T = RelayFields /\ T.plan = R.plan /\ T.begin = R.begin /\ T.snap = snap
          /\ T.changed = news /\ T.cont = R.cont /\ T.peers = R.peers /\ T.floor = floor
          /\ T.last = last /\ T.cache = cache /\ T.lastId = R.lastId
          /\ T.nextConn = R.nextConn /\ T.outHost = R.outHost /\ T.outSeat = R.outSeat
          /\ T.acks = R.acks /\ T.outcome = R.outcome
      BY <2>5 DEF RelayFields
    <3>. HIDE DEF T
    <3>5. Relay(T) /\ Channels(T)
      BY <1>1, <2>3, <3>3, <3>4 DEF Relay, Channels
    <3>6. Handed(T, S, m)
      <4>1. S = HandOut(T, m)
        BY <2>4, <2>8
      <4>. QED  BY <1>2, <2>2, <3>5, <4>1, HandOutSends
    <3>7. Snapped(R, m, hist, R.last, k)
      <4>1. R.plan # NoPlan /\ R.snap = NoSnap /\ R.acks = {} /\ m.id = R.plan.id /\ m.phase = R.plan.phase
        BY <1>1, <2>1 DEF Partner
      <4>2. R.floor < m.cut
        BY <1>2, <2>2 DEF Extra, AboveFloor
      <4>3. Gapless(hist, R.last, k)
        <5>. SUFFICES ASSUME NEW u \in R.last + 1..k, hist[u].at = u
                      PROVE  FALSE
          BY DEF Gapless
        <5>1. u \in 1..Len(hist) /\ u \in Nat /\ ~(u <= R.last) /\ u <= k
          BY <1>1, <3>1
        <5>2. PICK i \in 1..Len(Tail(q)) : Tail(q)[i].t = "env" /\ Tail(q)[i].n = u
          BY <2>1, <5>1, HeadEnd
        <5>3. m.cut < u
          BY <2>1, <5>2, HeadEnd
        <5>. QED  BY <1>1, <2>2, <3>1, <5>1, <5>3
      <4>4. \A f \in Seats : R.peers[f].floor <= R.floor
        BY DEF Good, Transaction
      <4>5. ASSUME NEW f \in Seats, NEW i \in 1..Len(R.cont[f]), R.cont[f][i].n > m.cut, R.plan.phase = "Checkpoint", ~m.sitOut
            PROVE  Alike(hist, R.cont[f][i].n, m.cut)
        <5>1. ~news
          BY <2>8, <4>5
        <5>2. R.cont[f][i].n \in Nat
          BY <1>1, RecordIs DEF Relay
        <5>3. ~Differs(R.cont[f][i].n, snap)
          BY <2>3, <4>5, <5>1 DEF news, NewsQueued
        <5>. QED  BY <2>2, <2>3, <4>5, <5>2, <5>3 DEF Differs, Alike
      <4>. QED  BY <2>2, <3>1, <4>1, <4>2, <4>3, <4>4, <4>5 DEF Snapped
    <3>8. ASSUME NEW f \in Seats PROVE Mail(S, f, s[f], b[f], k, hist, cuts2, late1)
      <4>1. Mail(R, f, s[f], b[f], R.last, hist, cuts, late1)
        BY DEF Everyone
      <4>2. IsTarget(T, f) <=> IsTarget(R, f)
        BY <3>4 DEF IsTarget
      <4>3. S.plan = R.plan /\ S.snap = [cut |-> m.cut, sitOut |-> m.sitOut] /\ S.lastId = R.lastId /\ S.acks = R.acks
            /\ BeginFor(m) \in SeatMessage /\ EndFor(m) \in SeatMessage
        BY <3>4, <3>6 DEF Handed, snap
      <4>4. Took(R, S, f, m)
        <5>1. IF IsTarget(R, f)
              THEN /\ S.peers[f].floor = m.cut /\ S.peers[f].sitOut = m.sitOut
                   /\ S.peers[f].quarantined = (m.sitOut /\ R.peers[f].quarantined)
                   /\ S.peers[f].conn = R.peers[f].conn /\ S.peers[f].delivery = R.peers[f].delivery
                   /\ S.outSeat[f] = Append(Append(R.outSeat[f], BeginFor(m)), EndFor(m))
                                     \o IF m.sitOut THEN <<>> ELSE After(R.cont[f], m.cut)
              ELSE S.peers[f] = R.peers[f] /\ S.outSeat[f] = R.outSeat[f] /\ S.cont[f] = R.cont[f]
          <6>1. T.peers = R.peers /\ T.outSeat = R.outSeat /\ T.cont = R.cont
            BY <3>4
          <6>. HIDE DEF m
          <6>. QED  BY <3>6, <4>2, <6>1, Zenon DEF Handed
        <5>. HIDE DEF m
        <5>. QED  BY <4>3, <5>1, Zenon DEF Took
      <4>. QED  BY <1>1, <2>1, <3>7, <4>1, <4>4, SnapMail
    <3>9. S.last = k /\ S.plan = R.plan /\ S.floor = Larger(R.floor, m.cut) /\ S.snap = snap /\ S.changed = news
          /\ S.acks = R.acks /\ S.outcome = R.outcome /\ Channels(S)
      BY <3>2, <3>4, <3>6 DEF Handed
    <3>10. NoNews(S, hist, S.last)
      <4>. SUFFICES ASSUME ~news
                    PROVE  \A n \in m.cut + 1..k : Tells(snap, hist, n)
        BY <2>3, <3>9 DEF NoNews, Tells
      <4>1. PICK f \in Seats : IsTarget(R, f)
        BY <1>5 DEF Good, Transaction
      <4>2. Mail(R, f, s[f], b[f], R.last, hist, cuts, late1) /\ R.peers[f].conn # 0
        BY <4>1 DEF Everyone, Mail, Absent
      <4>3. PICK g : Life(R, f, s[f], b[f], g, R.last, hist, cuts, late1)
        BY <4>2 DEF Mail
      <4>4. Meant(R, f, Final(g), R.last, hist, cuts) /\ Trace(R.outSeat[f], g, hist) /\ R.outSeat[f] \in Seq(SeatMessage)
        BY <4>3 DEF Life, Channels
      <4>5. Final(g) \in Standing
        BY <4>4, TraceTyped
      <4>6. snap = [cut |-> m.cut, sitOut |-> m.sitOut] /\ ~NewsQueued(R, snap)
        BY DEF snap, news
      <4>. QED  BY <1>1, <2>1, <3>7, <4>1, <4>4, <4>5, <4>6, SnapNews
    <3>11. Keeps(R, S, hist)
      <4>1. R.acks = {}
        BY <3>7 DEF Snapped
      <4>. QED  BY <3>1, <3>9, <3>10, <4>1 DEF Keeps
    <3>. QED  BY <2>1, <3>8, <3>9, <3>11 DEF Everyone
  <2>. QED  BY <2>7, <2>8
<1>. QED  BY <1>3, <1>4, <1>5


-----------------------------------------------------------------------------
(* The relay's other steps.                                                *)

\* The seats' channels, the fences and the transaction stay as they are.
Idle(R, S) ==
  /\ S.outSeat = R.outSeat /\ S.peers = R.peers /\ S.plan = R.plan /\ S.snap = R.snap /\ S.cont = R.cont
  /\ S.lastId = R.lastId /\ S.acks = R.acks /\ S.last = R.last /\ S.cache = R.cache /\ S.changed = R.changed
  /\ S.outcome = R.outcome \/ S.outcome.reason # "Converged"

LEMMA IdleHandles ==
  ASSUME NEW R, NEW H, NEW q, NEW h, NEW s, NEW b, NEW cuts, NEW late1, World(R, H, q, h, s, b, cuts, late1),
         NEW S, Idle(R, S), NEW cuts2, cuts2 \subseteq cuts
  PROVE  Handles(R, S, h, s, b, cuts2, late1)
<1>1. /\ Relay(R) /\ Channels(R) /\ History(h) /\ Grows(h, h) /\ R.last <= Len(h) /\ R.last \in Nat /\ R.lastId \in Nat
      /\ s \in [Seats -> SeatType] /\ Everyone(R, s, b, R.last, h, cuts, late1)
      /\ R.last = 0 => R.cache = 0
      /\ NoNews(R, h, R.last)
      /\ \A f \in R.acks : f \in Seats /\ R.snap # NoSnap
  BY WorldIs
<1>2. \A f \in Seats : Agree(R, S, f)
  BY <1>1 DEF Agree, Idle
<1>3. \A x \in cuts2 : x \in cuts
  OBVIOUS
<1>4. Everyone(S, s, b, R.last, h, cuts2, late1)
  BY <1>1, <1>2, <1>3, EveryoneGrows
<1>5. Keeps(R, S, h)
  BY <1>1 DEF Keeps, Idle, NoNews, Channels
<1>. QED  BY <1>4, <1>5 DEF Handles, Idle

LEMMA FinishHandles ==
  ASSUME NEW R, NEW H, NEW q, NEW h, NEW s, NEW b, NEW cuts, NEW late1, World(R, H, q, h, s, b, cuts, late1),
         NEW reason \in Reasons, reason # "Converged", NEW S, S = Finish(R, reason), NEW cuts2
  PROVE  Handles(R, S, h, s, b, cuts2, late1) /\ S.floor = R.floor /\ S.plan = NoPlan
<1>1. /\ Relay(R) /\ Channels(R) /\ (R.plan = NoPlan => Clean(R)) /\ R.last \in Nat /\ h \in Seq(Entry)
      /\ R.last = 0 => R.cache = 0
      /\ R.plan = NoPlan => R.snap = NoSnap /\ R.acks = {}
      /\ \A f \in Seats : Mail(R, f, s[f], b[f], R.last, h, cuts, late1)
  BY WorldIs
<1>2. Keeps(R, S, h) /\ S.plan = NoPlan
  BY <1>1, FinishKeeps
<1>3. S.last = R.last /\ S.floor = R.floor
  BY <1>1, Ends DEF Ended
<1>4. ASSUME NEW f \in Seats PROVE Mail(S, f, s[f], b[f], R.last, h, cuts2, late1)
  BY <1>1, FinishMail
<1>. QED  BY <1>2, <1>3, <1>4 DEF Everyone, Handles

LEMMA BeginHandles ==
  ASSUME NEW R, NEW H, NEW q, NEW s, NEW b, NEW cuts, NEW late1, World(R, H, q, hist, s, b, cuts, late1),
         NEW m, NEW S, S = AdmitBegin(R, m), NEW cuts2, cuts2 \subseteq cuts
  PROVE  Handles(R, S, hist, s, b, cuts2, late1) /\ S.floor = R.floor
<1>. DEFINE begin == [cut |-> m.cut, phase |-> m.phase]
            T == [R EXCEPT !.begin = begin]
<1>1. S = R \/ S = Finish(R, "InvalidSnapshot") \/ S = T
  BY Zenon DEF AdmitBegin
<1>2. DOMAIN R = RelayFields
  BY WorldIs
<1>3. CASE S = Finish(R, "InvalidSnapshot")
  <2>1. "InvalidSnapshot" \in Reasons /\ "InvalidSnapshot" # "Converged"
    BY DEF Reasons
  <2>. QED  BY <1>3, <2>1, FinishHandles
<1>4. CASE S = R \/ S = T
  <2>. HIDE DEF begin
  <2>1. Idle(R, S) /\ S.floor = R.floor
    BY <1>2, <1>4 DEF Idle, RelayFields
  <2>. QED  BY <2>1, IdleHandles
<1>. QED  BY <1>1, <1>3, <1>4

\* The first message is the next update.
LEMMA EnvelopeHandles ==
  ASSUME NEW R, NEW H, NEW q, NEW s, NEW b, NEW cuts, NEW late1, World(R, H, q, hist, s, b, cuts, late1),
         q # <<>>, q[1].t = "env", ~(q[1].n <= SourceFloor(R)),
         NEW S, S = AdmitEnvelope(R, q[1].n), NEW cuts2, cuts2 \subseteq cuts
  PROVE  Handles(R, S, hist, s, b, cuts2, late1) /\ S.floor = R.floor
<1>. PICK n : n = q[1].n
  OBVIOUS
<1>1. /\ Relay(R) /\ Channels(R) /\ (R.plan = NoPlan => Clean(R)) /\ History(hist) /\ Copies(hist) /\ Grows(hist, hist)
      /\ hist \in Seq(Entry) /\ R.last <= Len(hist) /\ R.last \in Nat /\ Len(hist) \in Nat
      /\ R.plan = NoPlan => R.snap = NoSnap /\ R.acks = {}
      /\ NoNews(R, hist, R.last) /\ s \in [Seats -> SeatType]
      /\ \A f \in R.acks : f \in Seats /\ R.snap # NoSnap
      /\ Everyone(R, s, b, R.last, hist, cuts, late1)
  BY WorldIs
<1>2. Good(R, H, q, hist)
  BY DEF World
<1>3. 1 \in 1..Len(q) /\ Len(q) \in Nat /\ q[1] \in HostMessage
  BY <1>2 DEF Good, Types
<1>4. /\ R.floor <= R.last /\ R.begin.cut < n /\ n \in Nat
      /\ \A f \in Seats : R.peers[f].floor <= R.floor
      /\ R.snap # NoSnap => R.begin.cut = R.snap.cut /\ R.snap.cut # 0 /\ R.snap.cut \in 1..Len(hist)
  <2>1. n \in Nat /\ R.floor \in Nat /\ R.begin.cut \in Nat
    BY <1>1, <1>3 DEF HostMessage, Relay
  <2>2. R.begin.cut < n
    BY <2>1 DEF SourceFloor, Larger
  <2>3. /\ R.floor <= R.last /\ \A f \in Seats : R.peers[f].floor <= R.floor
        /\ R.snap # NoSnap => R.begin.cut # 0 /\ R.begin.cut = R.snap.cut
    BY <1>2 DEF Good, Transaction
  <2>4. R.snap # NoSnap => R.begin.cut <= R.last
    BY <1>2 DEF Good, Ahead, Partner
  <2>. QED  BY <1>1, <2>1, <2>2, <2>3, <2>4
<1>5. Follows(hist, R.last, n)
  <2>1. Update(hist, n) /\ R.last < n
    BY <1>2, <1>3 DEF Good, Rising, Ahead
  <2>2. ASSUME NEW u \in R.last + 1..n - 1, hist[u].at = u
        PROVE  FALSE
    <3>1. u \in 1..Len(hist) /\ u \in Nat /\ ~(u <= R.last) /\ u < n /\ n \in Nat
      BY <1>1, <1>4, <2>1 DEF Update
    <3>2. PICK i \in 1..Len(q) : q[i].t = "env" /\ q[i].n = u
      BY <1>2, <2>2, <3>1 DEF Good, Received
    <3>3. i # 1 => q[1].n < q[i].n
      BY <1>2, <1>3, <3>2 DEF Good, Rising, Serial
    <3>. QED  BY <3>1, <3>2, <3>3
  <2>. QED  BY <2>1, <2>2 DEF Follows, Gapless
<1>6. Passes(R, R)
  BY <1>1 DEF Passes
<1>7. /\ Passes(R, S) /\ Everyone(S, s, b, n, hist, cuts, late1) /\ S.last = n /\ S.cache = n
      /\ S.snap # NoSnap /\ ~S.changed => ~R.changed /\ ~Differs(n, R.snap)
  <2>1. Comes(R, hist, n)
    BY <1>1, <1>4, <1>5, <1>6 DEF Comes
  <2>2. S = AdmitEnvelope(R, n) /\ s \in [Seats -> SeatType] /\ Everyone(R, s, b, R.last, hist, cuts, late1)
    BY <1>1
  <2>. QED  BY <2>1, <2>2, EnvelopeMail
<1>8. /\ Relay(S) /\ Channels(S) /\ S.floor = R.floor
      /\ S.plan = NoPlan \/ S.plan = R.plan
  BY <1>7 DEF Passes
<1>9. /\ S.outcome = R.outcome \/ S.outcome.reason # "Converged"
      /\ S.snap # NoSnap => S.snap = R.snap /\ S.acks = R.acks
      /\ S.snap = NoSnap => S.acks = {}
  <2>1. S.plan = NoPlan => S.snap = NoSnap /\ S.acks = {}
    BY <1>7 DEF Passes, Clean
  <2>2. R.snap = NoSnap => R.acks = {}
    BY <1>1
  <2>. QED  BY <1>7, <2>1, <2>2 DEF Passes
<1>10. NoNews(S, hist, n)
  <2>. SUFFICES ASSUME S.snap # NoSnap, ~S.changed
                PROVE  \A u \in R.snap.cut + 1..n : Tells(R.snap, hist, u)
    BY <1>9 DEF NoNews, Tells
  <2>1. ~R.changed /\ ~Differs(n, R.snap) /\ R.snap # NoSnap /\ R.snap.cut \in 1..Len(hist)
    BY <1>4, <1>7, <1>9
  <2>2. n \in 1..Len(hist) /\ n # 0 /\ R.last < n
    BY <1>4, <1>5 DEF Follows, Update
  <2>3. Tells(R.snap, hist, n)
    BY <2>1, <2>2 DEF Differs, Tells, Boss, Alike
  <2>4. ASSUME NEW u \in R.snap.cut + 1..n, Update(hist, u)
        PROVE  Tells(R.snap, hist, u)
    <3>1. u \in R.snap.cut + 1..R.last \/ u \in R.last + 1..n - 1 \/ u = n
      BY <1>1, <1>4, <2>1, <2>2
    <3>2. CASE u \in R.snap.cut + 1..R.last
      BY <1>1, <2>1, <3>2 DEF NoNews, Tells
    <3>3. CASE u \in R.last + 1..n - 1
      BY <1>5, <2>4, <3>3 DEF Follows, Gapless, Update
    <3>. QED  BY <2>3, <3>1, <3>2, <3>3
  <2>. QED  BY <1>1, <1>4, <2>1, <2>2, <2>4, NewsByUpdates
<1>11. Keeps(R, S, hist)
  <2>1. S.last # 0
    BY <1>5, <1>7 DEF Follows, Update
  <2>. QED  BY <1>1, <1>7, <1>8, <1>9, <1>10, <2>1 DEF Keeps
<1>12. Everyone(S, s, b, S.last, hist, cuts2, late1)
  <2>1. \A f \in Seats : Agree(S, S, f)
    BY <1>8 DEF Agree, Relay
  <2>2. \A x \in cuts2 : x \in cuts
    OBVIOUS
  <2>3. n <= Len(hist)
    BY <1>5 DEF Follows, Update
  <2>. QED  BY <1>1, <1>4, <1>7, <1>8, <2>1, <2>2, <2>3, EveryoneGrows
<1>. QED  BY <1>8, <1>11, <1>12 DEF Handles


-----------------------------------------------------------------------------
(* The snapshots that may still come, after a step of the relay or the host. *)

\* Of the transaction that S runs, none that R does not.
Resumed(R, S) == S.plan = NoPlan \/ S.plan = R.plan
Fresh(R, S) ==
  \/ R.lastId < S.plan.id
  \/ S.plan.id = R.plan.id /\ R.plan.phase = "Bootstrap" /\ S.plan.phase = "Checkpoint" /\ S.plan.id # 0

Within(q2, q) == \A i \in 1..Len(q2) : \E j \in 1..Len(q) : q[j] = q2[i]

Kin(H, K) == K.staged = NoSnap \/ (K.staged = H.staged /\ K.plan = H.plan /\ K.phase = H.phase)

LEMMA CutsShrink ==
  ASSUME NEW R, NEW S, Resumed(R, S), NEW H, NEW K, Kin(H, K), NEW q, NEW q2, Within(q2, q)
  PROVE  Cuts(S, K, q2) \subseteq Cuts(R, H, q)
<1>. SUFFICES ASSUME NEW x \in Cuts(S, K, q2)
              PROVE  x \in Cuts(R, H, q)
  OBVIOUS
<1>1. ASSUME NEW id, NEW phase, OfPhase(S, id, phase) PROVE OfPhase(R, id, phase)
  BY <1>1 DEF OfPhase, Resumed
<1>2. CASE \E i \in 1..Len(q2) : q2[i].t = "end" /\ OfPhase(S, q2[i].id, q2[i].phase) /\ x = q2[i].cut
  <2>1. PICK i \in 1..Len(q2) : q2[i].t = "end" /\ OfPhase(S, q2[i].id, q2[i].phase) /\ x = q2[i].cut
    BY <1>2
  <2>2. PICK j \in 1..Len(q) : q[j] = q2[i]
    BY DEF Within
  <2>3. q[j].t = "end" /\ OfPhase(R, q[j].id, q[j].phase) /\ x = q[j].cut
    BY <1>1, <2>1, <2>2
  <2>. QED  BY <2>3 DEF Cuts
<1>3. CASE x = K.staged.cut /\ K.staged # NoSnap /\ OfPhase(S, K.plan, K.phase)
  <2>1. x = H.staged.cut /\ H.staged # NoSnap /\ OfPhase(R, H.plan, H.phase)
    BY <1>1, <1>3 DEF Kin
  <2>. QED  BY <2>1 DEF Cuts
<1>. QED  BY <1>2, <1>3 DEF Cuts

LEMMA FreshCuts ==
  ASSUME NEW R, NEW H, NEW q, NEW h, Good(R, H, q, h), NEW S, S.plan # NoPlan, Fresh(R, S), S.plan.id \in Positive,
         NEW q2, Within(q2, q)
  PROVE  Cuts(S, H, q2) = {}
<1>1. /\ Relay(R) /\ H \in HostType /\ q \in Seq(HostMessage) /\ R.lastId \in Nat /\ S.plan.id \in Nat /\ S.plan.id # 0
      /\ H.plan \in Nat
  BY DEF Good, Types, Relay, Positive, HostType
<1>2. ASSUME NEW id \in Nat, NEW phase, Known(R, id, phase) PROVE ~OfPhase(S, id, phase)
  <2>1. CASE R.lastId < S.plan.id
    <3>1. id <= R.lastId
      BY <1>2 DEF Known
    <3>. QED  BY <1>1, <2>1, <3>1 DEF OfPhase
  <2>2. CASE S.plan.id = R.plan.id /\ R.plan.phase = "Bootstrap" /\ S.plan.phase = "Checkpoint"
    BY <1>2, <2>2 DEF OfPhase, Known
  <2>. QED  BY <2>1, <2>2 DEF Fresh
<1>3. ASSUME NEW i \in 1..Len(q2), q2[i].t = "end" PROVE ~OfPhase(S, q2[i].id, q2[i].phase)
  <2>1. PICK j \in 1..Len(q) : q[j] = q2[i]
    BY DEF Within
  <2>2. q[j].t = "end" /\ Known(R, q[j].id, q[j].phase)
    BY <1>3, <2>1 DEF Good, Begun
  <2>3. q[j].id \in Nat
    BY <1>1, <2>2 DEF HostMessage
  <2>. QED  BY <1>2, <2>1, <2>2, <2>3
<1>4. ~OfPhase(S, H.plan, H.phase)
  <2>1. CASE H.plan = 0
    BY <1>1, <2>1 DEF OfPhase
  <2>2. CASE H.plan # 0
    <3>1. Known(R, H.plan, H.phase)
      BY <2>2 DEF Good, Begun
    <3>. QED  BY <1>1, <1>2, <3>1
  <2>. QED  BY <2>1, <2>2
<1>. QED  BY <1>3, <1>4 DEF Cuts

\* The relay admits a request of the host.
LEMMA RequestHandles ==
  ASSUME NEW R, NEW H, NEW q, NEW h, NEW s, NEW b, NEW late1, World(R, H, q, h, s, b, Cuts(R, H, q), late1),
         NEW m \in RequestType, NEW S, S = AdmitRequest(R, m), NEW q2, Within(q2, q)
  PROVE  Keeps(R, S, h) /\ Everyone(S, s, b, S.last, h, Cuts(S, H, q2), late1) /\ S.floor = R.floor
<1>. DEFINE l == [t |-> "result", id |-> m.id, reason |-> "Busy"]
            outcome == [id |-> m.id, reason |-> "Busy"]
            T == [R EXCEPT !.outcome = outcome, !.outHost = Append(R.outHost, l)]
            cuts == Cuts(R, H, q)
            cuts2 == Cuts(S, H, q2)
<1>1. \/ S = R
      \/ S = T
      \/ /\ S = Start(R, m) /\ R.plan = NoPlan /\ ~(m.id <= R.lastId)
         /\ \A f \in m.mask : R.peers[f].conn # 0
  BY Zenon DEF AdmitRequest
<1>2. Relay(R) /\ DOMAIN R = RelayFields /\ R.lastId \in Nat /\ m.id \in Nat /\ m.id \in Positive
  BY WorldIs DEF RequestType, Positive
<1>3. CASE S = R \/ S = T
  <2>0. outcome.reason # "Converged"
    OBVIOUS
  <2>. HIDE DEF l, outcome, cuts, cuts2
  <2>1. Idle(R, S) /\ S.floor = R.floor
    BY <1>2, <1>3, <2>0 DEF Idle, RelayFields
  <2>2. Resumed(R, S) /\ Kin(H, H)
    BY <2>1 DEF Idle, Resumed, Kin
  <2>3. cuts2 \subseteq cuts
    BY <2>2, CutsShrink DEF cuts, cuts2
  <2>4. World(R, H, q, h, s, b, cuts, late1)
    BY DEF cuts
  <2>5. Handles(R, S, h, s, b, cuts2, late1)
    BY <2>1, <2>3, <2>4, IdleHandles
  <2>. QED  BY <2>1, <2>5 DEF Handles, cuts2
<1>4. CASE /\ S = Start(R, m) /\ R.plan = NoPlan /\ ~(m.id <= R.lastId)
           /\ \A f \in m.mask : R.peers[f].conn # 0
  <2>1. Good(R, H, q, h) /\ Channels(R) /\ Everyone(R, s, b, R.last, h, cuts, late1)
    BY DEF World
  <2>2. R.lastId < m.id /\ R.last \in Nat
    BY <1>2, <1>4 DEF Relay
  <2>. HIDE DEF cuts, cuts2
  <2>3. /\ Everyone(S, s, b, R.last, h, {}, late1) /\ Channels(S) /\ S.acks = {} /\ S.outcome = R.outcome
        /\ S.plan.id = m.id /\ S.plan.phase = "Bootstrap" /\ S.snap = NoSnap /\ S.floor = R.floor /\ S.last = R.last
        /\ S.cache = R.cache
    BY <1>4, <2>1, <2>2, StartMail
  <2>4. Fresh(R, S) /\ S.plan # NoPlan /\ S.plan.id \in Positive
    BY <1>2, <2>2, <2>3 DEF Fresh, NoPlan, Positive
  <2>5. cuts2 = {}
    BY <2>1, <2>4, FreshCuts DEF cuts2
  <2>6. R.last = 0 => R.cache = 0
    BY WorldIs
  <2>7. Keeps(R, S, h)
    BY <2>3, <2>6 DEF Keeps, NoNews
  <2>. QED  BY <2>3, <2>5, <2>7 DEF cuts2
<1>. QED  BY <1>1, <1>3, <1>4

LEMMA EveryoneTail ==
  ASSUME NEW R, NEW s, NEW b \in [Seats -> Seq(AckType)], NEW f \in Seats, b[f] # <<>>, NEW l, NEW h, NEW cuts, NEW late1,
         Everyone(R, s, b, l, h, cuts, late1)
  PROVE  Everyone(R, s, [b EXCEPT ![f] = Tail(b[f])], l, h, cuts, late1)
<1>1. ASSUME NEW g \in Seats PROVE Mail(R, g, s[g], [b EXCEPT ![f] = Tail(b[f])][g], l, h, cuts, late1)
  <2>1. Mail(R, g, s[g], b[g], l, h, cuts, late1)
    BY DEF Everyone
  <2>2. CASE g = f
    <3>1. b[f] \in Seq(AckType) /\ [b EXCEPT ![f] = Tail(b[f])][g] = Tail(b[f])
      BY <2>2
    <3>2. Mail(R, f, s[f], Tail(b[f]), l, h, cuts, late1)
      BY <2>1, <2>2, <3>1, AnswersTail
    <3>. QED  BY <2>2, <3>1, <3>2
  <2>3. CASE g # f
    BY <2>1, <2>3
  <2>. QED  BY <2>2, <2>3
<1>. QED  BY <1>1 DEF Everyone


-----------------------------------------------------------------------------
(* The relay admits an acknowledgement.                                    *)

\* A is the relay that has counted the last acknowledgement and not closed the transaction.
Unanimous(R, A, s, b, h, cuts, late1) ==
  /\ Relay(A) /\ Channels(A) /\ A.plan = R.plan /\ A.snap = R.snap /\ A.peers = R.peers /\ A.outSeat = R.outSeat
  /\ R.plan # NoPlan /\ R.snap # NoSnap /\ ~R.changed
  /\ \A g \in Seats : IsTarget(R, g) => g \in A.acks
  /\ Everyone(A, s, b, R.last, h, cuts, late1)

LEMMA AckHandles ==
  ASSUME NEW R, NEW H, NEW q, NEW h, NEW s, NEW b \in [Seats -> Seq(AckType)], NEW late1,
         World(R, H, q, h, s, b, Cuts(R, H, q), late1), NEW f \in Seats, b[f] # <<>>,
         NEW S, S = AdmitAck(R, f, Head(b[f]))
  PROVE  /\ Keeps(S, S, h) /\ Everyone(S, s, b, S.last, h, Cuts(S, H, q), late1) /\ S.floor = R.floor
         /\ \/ S.outcome = R.outcome
            \/ S.outcome.reason # "Converged"
            \/ \E A : Unanimous(R, A, s, b, h, Cuts(R, H, q), late1)
<1>. DEFINE cuts == Cuts(R, H, q)
            cuts2 == Cuts(S, H, q)
            acks == R.acks \cup {f}
            A == [R EXCEPT !.acks = acks]
            a == Head(b[f])
<1>1. \/ S = R
      \/ S = Finish(R, "NativeFailed")
      \/ /\ S = Checkpoint(R)
         /\ R.plan # NoPlan /\ R.snap # NoSnap /\ R.changed
      \/ /\ AckAdmitted(R, f, a) /\ a.status = "Converged" /\ R.snap # NoSnap /\ ~R.changed /\ R.plan # NoPlan
         /\ \/ S = Finish(A, "Converged") /\ \A g \in Seats : IsTarget(R, g) => g \in A.acks
            \/ S = A
  BY Zenon DEF AdmitAck, AckAdmitted
<1>2. /\ Relay(R) /\ DOMAIN R = RelayFields /\ Channels(R) /\ R.lastId \in Nat /\ R.last \in Nat /\ h \in Seq(Entry)
      /\ (R.plan = NoPlan => Clean(R)) /\ History(h) /\ Grows(h, h) /\ R.last <= Len(h) /\ s \in [Seats -> SeatType]
      /\ NoNews(R, h, R.last)
      /\ R.last = 0 => R.cache = 0
      /\ \A g \in R.acks : g \in Seats /\ R.snap # NoSnap
  BY WorldIs
<1>3. Good(R, H, q, h) /\ Everyone(R, s, b, R.last, h, cuts, late1)
  BY DEF World
<1>4. Within(q, q) /\ Kin(H, H)
  BY DEF Within, Kin
<1>5. World(R, H, q, h, s, b, cuts, late1)
  OBVIOUS
<1>. HIDE DEF cuts, cuts2
<1>6. CASE S = R
  <2>1. Idle(R, S) /\ Resumed(R, S) /\ S.floor = R.floor
    BY <1>2, <1>6 DEF Idle, Resumed
  <2>2. cuts2 \subseteq cuts
    BY <1>4, <2>1, CutsShrink DEF cuts, cuts2
  <2>3. Handles(R, S, h, s, b, cuts2, late1)
    BY <1>5, <2>1, <2>2, IdleHandles
  <2>. QED  BY <1>6, <2>1, <2>3 DEF Handles, Keeps, cuts2
<1>7. CASE S = Finish(R, "NativeFailed")
  <2>1. "NativeFailed" \in Reasons /\ "NativeFailed" # "Converged"
    BY DEF Reasons
  <2>2. Handles(R, S, h, s, b, cuts2, late1) /\ S.floor = R.floor
    BY <1>5, <1>7, <2>1, FinishHandles, SMTT(30)
  <2>. QED  BY <2>2 DEF Handles, Keeps, cuts2
<1>8. CASE S = Checkpoint(R) /\ R.plan # NoPlan /\ R.snap # NoSnap /\ R.changed
  <2>1. /\ Everyone(S, s, b, R.last, h, {}, late1) /\ Channels(S) /\ S.acks = {} /\ S.outcome = R.outcome
        /\ S.plan.id = R.plan.id /\ S.plan.phase = "Checkpoint" /\ S.snap = NoSnap /\ S.floor = R.floor
        /\ S.last = R.last /\ S.cache = R.cache /\ R.plan.phase = "Bootstrap"
    BY <1>2, <1>3, <1>8, CheckpointMail
  <2>2. R.plan.id \in Positive
    BY <1>2, <1>3, <1>8, PositiveId DEF Positive, Relay, PlanType, Good
  <2>3. Fresh(R, S) /\ S.plan # NoPlan /\ S.plan.id \in Positive
    BY <2>1, <2>2 DEF Fresh, NoPlan, Positive
  <2>4. cuts2 = {}
    BY <1>3, <1>4, <2>3, FreshCuts DEF cuts2
  <2>5. Keeps(S, S, h)
    BY <1>2, <2>1 DEF Keeps, NoNews
  <2>. QED  BY <2>1, <2>4, <2>5 DEF cuts2
<1>9. CASE /\ AckAdmitted(R, f, a) /\ a.status = "Converged" /\ R.snap # NoSnap /\ ~R.changed /\ R.plan # NoPlan
           /\ \/ S = Finish(A, "Converged") /\ \A g \in Seats : IsTarget(R, g) => g \in A.acks
              \/ S = A
  <2>. HIDE DEF acks
  <2>1. /\ DOMAIN A = RelayFields /\ A.plan = R.plan /\ A.begin = R.begin /\ A.snap = R.snap /\ A.acks = acks
        /\ A.changed = R.changed /\ A.cont = R.cont /\ A.peers = R.peers /\ A.floor = R.floor /\ A.last = R.last
        /\ A.cache = R.cache /\ A.lastId = R.lastId /\ A.nextConn = R.nextConn /\ A.outHost = R.outHost
        /\ A.outSeat = R.outSeat /\ A.outcome = R.outcome
    BY <1>2 DEF RelayFields
  <2>2. Touched(R, [A EXCEPT !.acks = R.acks])
    BY <1>2, <2>1 DEF Touched, RelayFields, Relay
  <2>. HIDE DEF A
  <2>3. Relay(A) /\ Channels(A)
    BY <1>2, <2>1 DEF Relay, Channels
  <2>4. ASSUME NEW g \in Seats PROVE Mail(A, g, s[g], b[g], R.last, h, cuts, late1)
    <3>1. Mail(R, g, s[g], b[g], R.last, h, cuts, late1)
      BY <1>3 DEF Everyone
    <3>2. CASE g = f
      <4>1. b[f] \in Seq(AckType) /\ A.acks = R.acks \cup {f}
        BY <2>1 DEF acks
      <4>2. Mail(R, f, s[f], b[f], R.last, h, cuts, late1)
        BY <3>1, <3>2
      <4>3. AckAdmitted(R, f, Head(b[f])) /\ Head(b[f]).status = "Converged"
        BY <1>9
      <4>. HIDE DEF a
      <4>4. Mail(A, f, s[f], b[f], R.last, h, cuts, late1)
        BY <1>2, <1>9, <2>1, <2>2, <4>1, <4>2, <4>3, AckMail
      <4>. QED  BY <3>2, <4>4
    <3>3. CASE g # f
      <4>1. Agree(R, A, g)
        BY <1>2, <2>1, <3>3 DEF Agree, acks
      <4>2. R.outSeat[g] \in Seq(SeatMessage) /\ s[g] \in SeatType
        BY <1>2 DEF Channels
      <4>. QED  BY <1>2, <3>1, <4>1, <4>2, MailGrows
    <3>. QED  BY <3>2, <3>3
  <2>5. Everyone(A, s, b, R.last, h, cuts, late1)
    BY <2>4 DEF Everyone
  <2>6. CASE S = A
    <3>1. Resumed(R, S) /\ Grows(h, h)
      BY <1>2, <2>1, <2>6 DEF Resumed
    <3>2. cuts2 \subseteq cuts
      BY <1>4, <3>1, CutsShrink DEF cuts, cuts2
    <3>3. \A x \in cuts2 : x \in cuts
      BY <3>2
    <3>4. \A g \in Seats : Agree(A, A, g)
      BY <1>2, <2>1 DEF Agree
    <3>5. Everyone(S, s, b, R.last, h, cuts2, late1)
      <4>1. /\ R.last \in Nat /\ R.last <= Len(h) /\ Grows(h, h) /\ History(h) /\ late1 \subseteq late1
            /\ s \in [Seats -> SeatType] /\ Relay(A) /\ Channels(A) /\ Everyone(A, s, b, R.last, h, cuts, late1)
        BY <1>2, <2>3, <2>5
      <4>2. Everyone(A, s, b, R.last, h, cuts2, late1)
        BY <3>3, <3>4, <4>1, EveryoneGrows
      <4>. QED  BY <2>6, <4>2
    <3>6. Keeps(S, S, h)
      BY <1>2, <1>9, <2>1, <2>3, <2>6 DEF Keeps, NoNews, acks
    <3>. QED  BY <2>1, <2>6, <3>5, <3>6 DEF cuts2
  <2>7. CASE S = Finish(A, "Converged") /\ \A g \in Seats : IsTarget(R, g) => g \in A.acks
    <3>1. \A g \in Seats : IsTarget(A, g) <=> IsTarget(R, g)
      BY <2>1 DEF IsTarget
    <3>2. "Converged" \in Reasons /\ A.plan # NoPlan
      BY <1>9, <2>1 DEF Reasons
    <3>3. Finished(A, S, "Converged")
      BY <2>3, <2>7, <3>2, FinishSends
    <3>4. ASSUME NEW g \in Seats PROVE Mail(S, g, s[g], b[g], R.last, h, cuts2, late1)
      <4>1. Mail(A, g, s[g], b[g], R.last, h, cuts, late1)
        BY <2>5 DEF Everyone
      <4>2. IsTarget(A, g) => g \in A.acks /\ A.snap # NoSnap
        BY <1>9, <2>1, <2>7, <3>1
      <4>. QED  BY <1>2, <2>3, <2>7, <3>2, <4>1, <4>2, ConvergedMail
    <3>5. S.last = R.last /\ S.floor = R.floor /\ S.cache = R.cache /\ S.acks = {} /\ S.snap = NoSnap /\ Channels(S)
      BY <2>1, <3>3 DEF Finished
    <3>6. Everyone(S, s, b, S.last, h, cuts2, late1)
      BY <3>4, <3>5 DEF Everyone
    <3>7. Keeps(S, S, h)
      BY <1>2, <3>5 DEF Keeps, NoNews
    <3>8. Unanimous(R, A, s, b, h, cuts, late1)
      BY <1>9, <2>1, <2>3, <2>5, <2>7 DEF Unanimous
    <3>. QED  BY <3>5, <3>6, <3>7, <3>8 DEF cuts, cuts2
  <2>. QED  BY <1>9, <2>6, <2>7 DEF A
<1>. QED  BY <1>1, <1>6, <1>7, <1>8, <1>9


-----------------------------------------------------------------------------
(* The relay's actions.                                                    *)

Whole == World(relay, host, toRelay, hist, seat, fromSeat, Cuts(relay, host, toRelay), late.relay)

LEMMA SInvIs == SInv => IInv /\ Whole /\ fromSeat \in [Seats -> Seq(AckType)]
BY DEF SInv, IInv, Whole, World, SeatsTyped, Channels, Everyone

LEMMA IsWhole ==
  ASSUME Whole', (fromSeat \in [Seats -> Seq(AckType)])'
  PROVE  SInv'
BY DEF SInv, IInv, Whole, World, SeatsTyped, Channels, Everyone

LEMMA WorldGoesOn ==
  ASSUME NEW R, NEW H, NEW q, NEW h, NEW s, NEW b, NEW cuts, NEW late1, World(R, H, q, h, s, b, cuts, late1),
         NEW S, NEW q2, Good(S, H, q2, h), q2 = q \/ (q # <<>> /\ q2 = Tail(q)),
         Keeps(S, S, h), NEW s2 \in [Seats -> SeatType], NEW b2, NEW cuts2, Everyone(S, s2, b2, S.last, h, cuts2, late1),
         S.floor = R.floor \/ (q # <<>> /\ q2 = Tail(q) /\ Partner(R, q[1]) /\ S.floor = Larger(R.floor, q[1].cut))
  PROVE  World(S, H, q2, h, s2, b2, cuts2, late1)
<1>1. Good(R, H, q, h) /\ Extra(R, H, q, h, R.last) /\ s \in [Seats -> SeatType]
  BY DEF World
<1>2. Copies(h) /\ AboveFloor(R, H, q) /\ \A i \in 1..Len(q) : q[i].t = "failure" => q[i].reason # "Converged"
  BY <1>1 DEF Extra
<1>3. Within(q2, q)
  <2>1. CASE q2 = q
    BY <2>1 DEF Within
  <2>2. CASE q # <<>> /\ q2 = Tail(q)
    <3>1. \A i \in 1..Len(q2) : i + 1 \in 1..Len(q) /\ q[i + 1] = q2[i]
      BY <1>1, <2>2 DEF Good, Types
    <3>. QED  BY <3>1 DEF Within
  <2>. QED  BY <2>1, <2>2
<1>4. \A i \in 1..Len(q2) : q2[i].t = "failure" => q2[i].reason # "Converged"
  BY <1>2, <1>3 DEF Within
<1>5. CASE S.floor = R.floor
  <2>1. AboveFloor(S, H, q2)
    BY <1>2, <1>3, <1>5 DEF AboveFloor, Within
  <2>. QED  BY <1>1, <1>2, <1>4, <2>1 DEF World, Extra, Keeps
<1>6. CASE q # <<>> /\ q2 = Tail(q) /\ Partner(R, q[1]) /\ S.floor = Larger(R.floor, q[1].cut)
  <2>1. /\ \A i \in 1..Len(q2) : q2[i].t = "end" => q[1].cut < q2[i].cut
        /\ H.staged # NoSnap => q[1].cut < H.staged.cut
    BY <1>1, <1>6, HeadEnd
  <2>2. AboveFloor(S, H, q2)
    BY <1>2, <1>3, <1>6, <2>1 DEF AboveFloor, Within, Larger
  <2>. QED  BY <1>1, <1>2, <1>4, <2>2 DEF World, Extra, Keeps
<1>. QED  BY <1>5, <1>6

\* A step of the relay that reads a message of the host.
LEMMA ReadsOn ==
  ASSUME SInv, NEW type, RelayReceives(type), IInv', Keeps(relay', relay', hist),
         Everyone(relay', seat, fromSeat, relay'.last, hist, Cuts(relay', host, Tail(toRelay)), late.relay),
         relay'.floor = relay.floor \/ (Partner(relay, toRelay[1]) /\ relay'.floor = Larger(relay.floor, toRelay[1].cut)),
         UNCHANGED late
  PROVE  SInv'
<1>1. /\ toRelay # <<>> /\ toRelay' = Tail(toRelay) /\ UNCHANGED <<hist, host, seat, fromSeat, late>>
  BY SInvIs, RelayReceivesGood DEF RelayReceives
<1>2. Good(relay', host, Tail(toRelay), hist)
  BY <1>1 DEF IInv
<1>3. World(relay, host, toRelay, hist, seat, fromSeat, Cuts(relay, host, toRelay), late.relay)
  BY SInvIs DEF Whole
<1>4. World(relay', host, Tail(toRelay), hist, seat, fromSeat, Cuts(relay', host, Tail(toRelay)), late.relay)
  <2>1. seat \in [Seats -> SeatType]
    BY <1>3 DEF World
  <2>. QED  BY <1>1, <1>2, <1>3, <2>1, WorldGoesOn
<1>5. Whole' /\ (fromSeat \in [Seats -> Seq(AckType)])'
  BY <1>1, <1>4, SInvIs DEF Whole
<1>. QED  BY <1>5, IsWhole

LEMMA SettleTail ==
  ASSUME SInv, toRelay # <<>>
  PROVE  Within(Tail(toRelay), toRelay) /\ Kin(host, host) /\ toRelay \in Seq(HostMessage)
<1>1. toRelay \in Seq(HostMessage)
  BY SInvIs DEF IInv, Good, Types
<1>2. \A i \in 1..Len(Tail(toRelay)) : i + 1 \in 1..Len(toRelay) /\ toRelay[i + 1] = Tail(toRelay)[i]
  BY <1>1
<1>. QED  BY <1>1, <1>2 DEF Within, Kin

LEMMA RelayRequestWhole ==
  ASSUME SInv, RelayRequest
  PROVE  SInv'
<1>. DEFINE m == toRelay[1]
<1>1. /\ toRelay # <<>> /\ Head(toRelay) = m /\ m.t = "request" /\ m \in HostMessage
      /\ UNCHANGED late /\ relay' = AdmitRequest(relay, m) /\ RelayReceives("request")
  BY SInvIs, RelayReceivesGood DEF RelayRequest, RelayReceives
<1>2. m \in RequestType
  BY <1>1 DEF HostMessage, RequestType
<1>3. IInv'
  BY SInvIs, RelayRequestGood
<1>. HIDE DEF m
<1>4. World(relay, host, toRelay, hist, seat, fromSeat, Cuts(relay, host, toRelay), late.relay)
  BY SInvIs DEF Whole
<1>5. /\ Keeps(relay, relay', hist) /\ relay'.floor = relay.floor
      /\ Everyone(relay', seat, fromSeat, relay'.last, hist, Cuts(relay', host, Tail(toRelay)), late.relay)
  BY <1>1, <1>2, <1>4, SettleTail, RequestHandles
<1>6. Keeps(relay', relay', hist)
  BY <1>5 DEF Keeps
<1>. QED  BY <1>1, <1>3, <1>5, <1>6, ReadsOn

\* A step that runs no other transaction than the one before.
LEMMA HandlesOn ==
  ASSUME SInv, NEW type, RelayReceives(type), IInv', UNCHANGED late,
         \A cuts2 : cuts2 \subseteq Cuts(relay, host, toRelay) =>
           Handles(relay, relay', hist, seat, fromSeat, cuts2, late.relay),
         relay'.floor = relay.floor \/ (Partner(relay, toRelay[1]) /\ relay'.floor = Larger(relay.floor, toRelay[1].cut))
  PROVE  SInv'
<1>1. toRelay # <<>>
  BY SInvIs, RelayReceivesGood
<1>. DEFINE cuts == Cuts(relay, host, toRelay)
            cuts2 == Cuts(relay', host, Tail(toRelay))
<1>2. Handles(relay, relay', hist, seat, fromSeat, cuts, late.relay)
  OBVIOUS
<1>3. Resumed(relay, relay')
  BY <1>2 DEF Handles, Resumed
<1>4. cuts2 \subseteq cuts
  BY <1>1, <1>3, SettleTail, CutsShrink
<1>5. Handles(relay, relay', hist, seat, fromSeat, cuts2, late.relay)
  BY <1>4
<1>6. Keeps(relay', relay', hist) /\ Everyone(relay', seat, fromSeat, relay'.last, hist, cuts2, late.relay)
  BY <1>5 DEF Handles, Keeps
<1>. QED  BY <1>6, ReadsOn

LEMMA RelayEnvelopeWhole ==
  ASSUME SInv, RelayEnvelope
  PROVE  SInv'
<1>1. /\ toRelay # <<>> /\ Head(toRelay) = toRelay[1] /\ toRelay[1].t = "env" /\ UNCHANGED late
      /\ RelayReceives("env")
  BY SInvIs, RelayReceivesGood DEF RelayEnvelope, RelayReceives
<1>2. relay' = IF toRelay[1].n <= SourceFloor(relay) THEN relay ELSE AdmitEnvelope(relay, toRelay[1].n)
  BY <1>1 DEF RelayEnvelope
<1>3. IInv'
  BY SInvIs, RelayEnvelopeGood
<1>. DEFINE cuts == Cuts(relay, host, toRelay)
<1>4. World(relay, host, toRelay, hist, seat, fromSeat, cuts, late.relay)
  BY SInvIs DEF Whole
<1>. HIDE DEF cuts
<1>5. CASE toRelay[1].n <= SourceFloor(relay)
  <2>1. Idle(relay, relay') /\ relay'.floor = relay.floor
    BY <1>2, <1>5 DEF Idle
  <2>2. ASSUME NEW cuts2, cuts2 \subseteq cuts
        PROVE  Handles(relay, relay', hist, seat, fromSeat, cuts2, late.relay)
    BY <1>4, <2>1, <2>2, IdleHandles
  <2>. QED  BY <1>1, <1>3, <2>1, <2>2, HandlesOn DEF cuts
<1>6. CASE ~(toRelay[1].n <= SourceFloor(relay))
  <2>1. ASSUME NEW cuts2, cuts2 \subseteq cuts
        PROVE  Handles(relay, relay', hist, seat, fromSeat, cuts2, late.relay) /\ relay'.floor = relay.floor
    BY <1>1, <1>2, <1>4, <1>6, <2>1, EnvelopeHandles
  <2>. QED  BY <1>1, <1>3, <2>1, HandlesOn DEF cuts
<1>. QED  BY <1>5, <1>6

LEMMA RelayBeginWhole ==
  ASSUME SInv, RelayBegin
  PROVE  SInv'
<1>1. toRelay # <<>> /\ UNCHANGED late /\ RelayReceives("begin") /\ relay' = AdmitBegin(relay, toRelay[1])
  BY SInvIs, RelayReceivesGood DEF RelayBegin, RelayReceives
<1>2. IInv'
  BY SInvIs, RelayBeginGood
<1>. DEFINE cuts == Cuts(relay, host, toRelay)
<1>3. World(relay, host, toRelay, hist, seat, fromSeat, cuts, late.relay)
  BY SInvIs DEF Whole
<1>. HIDE DEF cuts
<1>4. ASSUME NEW cuts2, cuts2 \subseteq cuts
      PROVE  Handles(relay, relay', hist, seat, fromSeat, cuts2, late.relay) /\ relay'.floor = relay.floor
  BY <1>1, <1>3, <1>4, BeginHandles
<1>. QED  BY <1>1, <1>2, <1>4, HandlesOn DEF cuts

LEMMA RelayEndWhole ==
  ASSUME SInv, RelayEnd
  PROVE  SInv'
<1>1. /\ toRelay # <<>> /\ toRelay[1].t = "end" /\ UNCHANGED late /\ RelayReceives("end")
      /\ relay' = AdmitEnd(relay, toRelay[1]) /\ 1 \in 1..Len(toRelay)
  BY SInvIs, RelayReceivesGood DEF RelayEnd, RelayReceives, IInv, Good, Types
<1>2. IInv'
  BY SInvIs, RelayEndGood
<1>. DEFINE cuts == Cuts(relay, host, toRelay)
<1>3. World(relay, host, toRelay, hist, seat, fromSeat, cuts, late.relay)
  BY SInvIs DEF Whole
<1>4. Partner(relay, toRelay[1]) => toRelay[1].cut \in cuts
  BY <1>1 DEF Partner, Cuts, OfPhase
<1>. HIDE DEF cuts
<1>5. ASSUME NEW cuts2, cuts2 \subseteq cuts
      PROVE  /\ Handles(relay, relay', hist, seat, fromSeat, cuts2, late.relay)
             /\ relay'.floor = relay.floor \/ (Partner(relay, toRelay[1]) /\ relay'.floor = Larger(relay.floor, toRelay[1].cut))
  <2>. PICK R : R = relay
    OBVIOUS
  <2>. PICK q : q = toRelay
    OBVIOUS
  <2>. PICK S : S = relay'
    OBVIOUS
  <2>1. World(R, host, q, hist, seat, fromSeat, cuts, late.relay)
    BY <1>3
  <2>2. q # <<>> /\ q[1].t = "end" /\ (Partner(R, q[1]) => q[1].cut \in cuts) /\ S = AdmitEnd(R, q[1])
    BY <1>1, <1>4
  <2>3. /\ Handles(R, S, hist, seat, fromSeat, cuts2, late.relay)
        /\ S.floor = R.floor \/ (Partner(R, q[1]) /\ S.floor = Larger(R.floor, q[1].cut))
    BY <1>5, <2>1, <2>2, EndHandles
  <2>. QED  BY <2>3
<1>. QED  BY <1>1, <1>2, <1>5, HandlesOn DEF cuts

LEMMA RelayFailureWhole ==
  ASSUME SInv, RelayFailure
  PROVE  SInv'
<1>. DEFINE m == toRelay[1]
<1>1. /\ toRelay # <<>> /\ Head(toRelay) = m /\ m.t = "failure" /\ m \in HostMessage /\ 1 \in 1..Len(toRelay)
      /\ RelayReceives("failure") /\ UNCHANGED late
      /\ relay' = relay \/ relay' = Finish(relay, m.reason)
  BY SInvIs, RelayReceivesGood DEF RelayFailure, RelayReceives, IInv, Good, Types
<1>2. m.reason \in Reasons /\ m.reason # "Converged"
  BY <1>1, SInvIs DEF HostMessage, Whole, World, Extra
<1>3. IInv'
  BY SInvIs, RelayFailureGood
<1>. DEFINE cuts == Cuts(relay, host, toRelay)
<1>4. World(relay, host, toRelay, hist, seat, fromSeat, cuts, late.relay)
  BY SInvIs DEF Whole
<1>. HIDE DEF cuts, m
<1>5. ASSUME NEW cuts2, cuts2 \subseteq cuts
      PROVE  Handles(relay, relay', hist, seat, fromSeat, cuts2, late.relay) /\ relay'.floor = relay.floor
  <2>1. CASE relay' = relay
    <3>1. Idle(relay, relay') /\ relay'.floor = relay.floor
      BY <2>1 DEF Idle
    <3>. QED  BY <1>4, <1>5, <3>1, IdleHandles
  <2>2. CASE relay' = Finish(relay, m.reason)
    BY <1>2, <1>4, <2>2, FinishHandles
  <2>. QED  BY <1>1, <2>1, <2>2
<1>. QED  BY <1>1, <1>3, <1>5, HandlesOn DEF cuts


\* The relay's steps that read nothing of the host's.
LEMMA AloneOn ==
  ASSUME SInv, IInv', UNCHANGED <<hist, host, toRelay, late>>, Keeps(relay', relay', hist),
         (seat \in [Seats -> SeatType])', (fromSeat \in [Seats -> Seq(AckType)])',
         Everyone(relay', seat', fromSeat', relay'.last, hist, Cuts(relay', host, toRelay), late.relay),
         relay'.floor = relay.floor
  PROVE  SInv'
<1>1. World(relay, host, toRelay, hist, seat, fromSeat, Cuts(relay, host, toRelay), late.relay)
  BY SInvIs DEF Whole
<1>2. Good(relay', host, toRelay, hist)
  BY DEF IInv
<1>3. World(relay', host, toRelay, hist, seat', fromSeat', Cuts(relay', host, toRelay), late.relay)
  <2>1. seat' \in [Seats -> SeatType]
    OBVIOUS
  <2>. QED  BY <1>1, <1>2, <2>1, WorldGoesOn
<1>4. Whole'
  BY <1>3 DEF Whole
<1>. QED  BY <1>4, IsWhole

LEMMA RelayDeadlineWhole ==
  ASSUME SInv, RelayDeadline
  PROVE  SInv'
<1>1. relay' = Finish(relay, "Deadline") /\ UNCHANGED <<hist, host, toRelay, seat, fromSeat, late>>
  BY DEF RelayDeadline
<1>2. "Deadline" \in Reasons /\ "Deadline" # "Converged"
  BY DEF Reasons
<1>3. IInv'
  <2>1. Good(relay', host, toRelay, hist)
    BY <1>1, <1>2, SInvIs, FinishGood DEF IInv
  <2>. QED  BY <1>1, <2>1 DEF IInv
<1>. DEFINE cuts2 == Cuts(relay', host, toRelay)
<1>4. World(relay, host, toRelay, hist, seat, fromSeat, Cuts(relay, host, toRelay), late.relay)
      /\ fromSeat \in [Seats -> Seq(AckType)]
  BY SInvIs DEF Whole
<1>5. Handles(relay, relay', hist, seat, fromSeat, cuts2, late.relay) /\ relay'.floor = relay.floor
  BY <1>1, <1>2, <1>4, FinishHandles
<1>6. (seat \in [Seats -> SeatType])' /\ (fromSeat \in [Seats -> Seq(AckType)])'
  BY <1>1, <1>4 DEF World
<1>7. /\ Keeps(relay', relay', hist)
      /\ Everyone(relay', seat', fromSeat', relay'.last, hist, cuts2, late.relay)
  BY <1>1, <1>5 DEF Handles, Keeps
<1>. QED  BY <1>1, <1>3, <1>5, <1>6, <1>7, AloneOn

LEMMA RelayAckGood ==
  ASSUME IInv, NEW f \in Seats, RelayAck(f)
  PROVE  IInv'
<1>1. relay' = AdmitAck(relay, f, Head(fromSeat[f])) /\ UNCHANGED <<hist, host, toRelay>>
  BY DEF RelayAck
<1>2. Good(relay', host, toRelay, hist)
  BY <1>1, AckGood DEF IInv
<1>. QED  BY <1>1, <1>2 DEF IInv

LEMMA RelayAckWhole ==
  ASSUME SInv, NEW f \in Seats, RelayAck(f)
  PROVE  SInv'
<1>1. /\ relay' = AdmitAck(relay, f, Head(fromSeat[f])) /\ UNCHANGED <<hist, host, toRelay, seat, late>>
      /\ fromSeat[f] # <<>> /\ fromSeat' = [fromSeat EXCEPT ![f] = Tail(fromSeat[f])]
  BY DEF RelayAck
<1>2. IInv'
  BY SInvIs, RelayAckGood
<1>. DEFINE cuts2 == Cuts(relay', host, toRelay)
<1>3. World(relay, host, toRelay, hist, seat, fromSeat, Cuts(relay, host, toRelay), late.relay)
      /\ fromSeat \in [Seats -> Seq(AckType)]
  BY SInvIs DEF Whole
<1>4. /\ Keeps(relay', relay', hist) /\ relay'.floor = relay.floor
      /\ Everyone(relay', seat, fromSeat, relay'.last, hist, cuts2, late.relay)
  BY <1>1, <1>3, AckHandles
<1>. HIDE DEF cuts2
<1>5. Everyone(relay', seat, fromSeat', relay'.last, hist, cuts2, late.relay)
  BY <1>1, <1>3, <1>4, EveryoneTail
<1>6. (seat \in [Seats -> SeatType])' /\ (fromSeat \in [Seats -> Seq(AckType)])'
  <2>1. Tail(fromSeat[f]) \in Seq(AckType)
    BY <1>1, <1>3
  <2>. QED  BY <1>1, <1>3, <2>1 DEF World
<1>. QED  BY <1>1, <1>2, <1>4, <1>5, <1>6, AloneOn DEF cuts2

\* A seat that has just joined.
Entered(n) == [Arrival EXCEPT !.bound = 1, !.stage = "Open", !.top = n]

Welcome == [t |-> "binding", delivery |-> 1]
CachedWorld(n, image) == [t |-> "cached", n |-> n, image |-> image, delivery |-> 1]

LEMMA EnteredIs ==
  ASSUME NEW n \in Nat
  PROVE  /\ Entered(n) \in Standing /\ Entered(n).bound = 1 /\ Entered(n).stage = "Open" /\ Entered(n).top = n
         /\ Entered(n).id = 0 /\ Entered(n).floor = 0 /\ ~Entered(n).sitOut /\ Entered(n).phase = "Bootstrap"
BY DEF Entered, Arrival, Standing, Stages, Phases

\* The channel of a seat that has just joined takes it to e.
Greets(q, e, h) == q \in Seq(SeatMessage) /\ \E g : Trace(q, g, h) /\ g[1] = Arrival /\ Final(g) = e

LEMMA Arrives ==
  ASSUME NEW h \in Seq(Entry), NEW l \in Nat, NEW image \in Nat, image # 0 => l \in 1..Len(h) /\ image = h[l].at,
         NEW q, q = IF image = 0 THEN <<Welcome>> ELSE <<Welcome, CachedWorld(l, image)>>
  PROVE  Greets(q, Entered(IF image = 0 THEN 0 ELSE l), h)
<1>. SUFFICES /\ q \in Seq(SeatMessage)
              /\ \E g : Trace(q, g, h) /\ g[1] = Arrival /\ Final(g) = Entered(IF image = 0 THEN 0 ELSE l)
  BY DEF Greets
<1>. DEFINE none == <<>>
            start == <<Arrival>>
<1>1. Arrival \in Standing /\ Rank(Arrival) = 0 /\ Arrival.stage = "New" /\ Arrival.top = 0 /\ Arrival.id = 0
      /\ Arrival.floor = 0 /\ ~Arrival.sitOut /\ Arrival.phase = "Bootstrap" /\ Arrival.bound = 0
  BY ArrivalIs DEF Arrival
<1>2. Len(h) \in Nat
  OBVIOUS
<1>3. Sane(Arrival, h)
  BY <1>1, <1>2 DEF Sane, Reading
<1>4. Welcome \in SeatMessage /\ CachedWorld(l, image) \in SeatMessage
  BY DEF Welcome, CachedWorld, SeatMessage
<1>5. none \in Seq(SeatMessage) /\ Trace(none, start, h) /\ Final(start) = Arrival /\ start[1] = Arrival /\ Len(start) = 1
  <2>1. none \in Seq(SeatMessage) /\ Len(none) = 0 /\ start \in Seq(Standing) /\ Len(start) = 1
        /\ \A i \in 1..1 : start[i] = Arrival
    BY <1>1
  <2>2. Precedes(Arrival, Arrival)
    BY <1>1 DEF Precedes, Same
  <2>. HIDE DEF none, start
  <2>3. \A i \in 1..Len(start) : Sane(start[i], h)
    BY <1>3, <2>1
  <2>4. \A i, j \in 1..Len(start) : i <= j => Precedes(start[i], start[j])
    BY <2>1, <2>2
  <2>5. \A i, j \in 1..Len(start) : start[i].top = start[j].top
    BY <2>1
  <2>. QED  BY <2>1, <2>3, <2>4, <2>5 DEF Trace, Final
<1>6. \A n \in 0..Len(h) : Sane(Entered(n), h)
  BY <1>2, EnteredIs DEF Sane, Reading
<1>7. Moves(Arrival, Welcome, Entered(0), h)
  <2>1. Welcome.t = "binding" /\ Welcome.delivery = 1
    BY DEF Welcome
  <2>. PICK m : m = Welcome
    OBVIOUS
  <2>. PICK a : a = Arrival
    OBVIOUS
  <2>. PICK e : e = Entered(0)
    OBVIOUS
  <2>2. /\ e.bound = 1 /\ e.stage = "Open" /\ e.top = 0 /\ e.id = 0 /\ e.floor = 0 /\ e.sitOut = FALSE
        /\ e.phase = "Bootstrap"
    BY EnteredIs
  <2>3. /\ a.stage = "New" /\ a.top = 0 /\ a.id = 0 /\ a.floor = 0 /\ a.sitOut = FALSE
        /\ a.phase = "Bootstrap"
    BY DEF Arrival
  <2>4. Binds(a, m, e)
    BY <2>1, <2>2, <2>3, Zenon DEF Binds
  <2>. QED  BY <2>1, <2>4 DEF Moves
<1>. DEFINE g1 == Append(start, Entered(0))
            q1 == Append(none, Welcome)
<1>8. q1 \in Seq(SeatMessage) /\ Trace(q1, g1, h) /\ Final(g1) = Entered(0) /\ g1[1] = Arrival
  <2>1. Entered(0) \in Standing /\ Sane(Entered(0), h)
    BY <1>2, <1>6, EnteredIs
  <2>2. \A i \in 1..Len(start) : Rank(start[i]) = Rank(Final(start))
    BY <1>5
  <2>. HIDE DEF start, none
  <2>. QED  BY <1>4, <1>5, <1>7, <2>1, <2>2, SentTrace
<1>9. q1 = <<Welcome>>
  OBVIOUS
<1>10. CASE image = 0
  <2>. HIDE DEF g1, q1
  <2>. QED  BY <1>8, <1>9, <1>10
<1>11. CASE image # 0
  <2>1. Entered(l) \in Standing /\ Sane(Entered(l), h) /\ Entered(0).stage = "Open"
    BY <1>2, <1>6, <1>11, EnteredIs
  <2>2. Moves(Entered(0), CachedWorld(l, image), Entered(l), h)
    <3>. PICK m : m = CachedWorld(l, image)
      OBVIOUS
    <3>. PICK a : a = Entered(0)
      OBVIOUS
    <3>. PICK e : e = Entered(l)
      OBVIOUS
    <3>1. m.t = "cached" /\ m.delivery = 1 /\ m.n = l /\ m.image = image
      BY DEF CachedWorld
    <3>2. /\ e.bound = 1 /\ e.stage = "Open" /\ e.top = l /\ e.id = 0 /\ e.floor = 0 /\ e.sitOut = FALSE
          /\ e.phase = "Bootstrap"
      BY EnteredIs
    <3>3. /\ a.bound = 1 /\ a.stage = "Open" /\ a.top = 0 /\ a.id = 0 /\ a.floor = 0 /\ a.sitOut = FALSE
          /\ a.phase = "Bootstrap"
      BY EnteredIs
    <3>4. Catches(a, m, e, h)
      BY <1>11, <3>1, <3>2, <3>3 DEF Catches, Same
    <3>. QED  BY <3>1, <3>4 DEF Moves
  <2>. DEFINE g2 == Append(g1, Entered(l))
              q2 == Append(q1, CachedWorld(l, image))
  <2>3. q2 = q
    <3>. PICK m : m = CachedWorld(l, image)
      OBVIOUS
    <3>1. q = <<Welcome, m>> /\ q1 = Append(<<>>, Welcome) /\ q2 = Append(q1, m)
      BY <1>11
    <3>. HIDE DEF q1, q2
    <3>. QED  BY <1>4, <3>1, OneMore
  <2>. HIDE DEF g1, q1
  <2>4. q2 \in Seq(SeatMessage) /\ Trace(q2, g2, h) /\ Final(g2) = Entered(l) /\ g2[1] = g1[1]
    BY <1>4, <1>8, <2>1, <2>2, SentTrace
  <2>. HIDE DEF g2, q2
  <2>. QED  BY <1>8, <1>11, <2>3, <2>4
<1>. QED  BY <1>10, <1>11


LEMMA JoinWhole ==
  ASSUME SInv, NEW f \in Seats, Join(f)
  PROVE  SInv'
<1>. DEFINE peer == [NoPeer EXCEPT !.conn = relay.nextConn, !.delivery = 1]
            peers == [relay.peers EXCEPT ![f] = peer]
            q == IF relay.cache = 0 THEN <<Welcome>> ELSE <<Welcome, CachedWorld(relay.last, relay.cache)>>
            cuts == Cuts(relay, host, toRelay)
            S == relay'
            cuts2 == Cuts(S, host, toRelay)
            Q == << [t |-> "binding", delivery |-> 1] >>
                  \o (IF relay.cache = 0 THEN <<>>
                      ELSE << [t |-> "cached", n |-> relay.last, image |-> relay.cache, delivery |-> 1] >>)
            outSeat == [relay.outSeat EXCEPT ![f] = Q]
<1>1. World(relay, host, toRelay, hist, seat, fromSeat, cuts, late.relay) /\ IInv
  BY SInvIs DEF Whole
<1>2. IInv'
  BY <1>1, JoinGood
<1>. PICK H : H = host
  OBVIOUS
<1>3. /\ Relay(relay) /\ DOMAIN relay = RelayFields /\ Channels(relay) /\ History(hist) /\ Grows(hist, hist)
      /\ hist \in Seq(Entry) /\ relay.last <= Len(hist) /\ relay.last \in Nat /\ Len(hist) \in Nat
      /\ relay.last = 0 => relay.cache = 0
      /\ NoNews(relay, hist, relay.last)
      /\ \A g \in relay.acks : g \in Seats /\ relay.snap # NoSnap
      /\ seat \in [Seats -> SeatType]
      /\ \A g \in Seats : Mail(relay, g, seat[g], fromSeat[g], relay.last, hist, cuts, late.relay)
  BY <1>1, WorldIs
<1>. HIDE DEF cuts
<1>4. Absent(relay, f, seat[f], fromSeat[f])
  BY <1>3 DEF Join, Mail
<1>5. Q = q
  <2>. PICK m : m = CachedWorld(relay.last, relay.cache)
    OBVIOUS
  <2>. PICK w : w = Welcome
    OBVIOUS
  <2>1. Q = <<w>> \o (IF relay.cache = 0 THEN <<>> ELSE <<m>>) /\ q = IF relay.cache = 0 THEN <<w>> ELSE <<w, m>>
    BY DEF Welcome, CachedWorld
  <2>2. <<w>> \o <<>> = <<w>> /\ <<w>> \o <<m>> = <<w, m>>
    <3>1. <<>> \in Seq({w, m}) /\ w \in {w, m} /\ m \in {w, m} /\ \A x \in Seq({w, m}) : x \o <<>> = x
      OBVIOUS
    <3>2. /\ <<w>> \in Seq({w, m}) /\ <<w>> = Append(<<>>, w)
          /\ <<w>> \o <<m>> = Append(<<w>>, m) /\ <<w, m>> = Append(Append(<<>>, w), m)
      BY <3>1, OneMore
    <3>. QED  BY <3>1, <3>2
  <2>. HIDE DEF Q, q
  <2>. QED  BY <2>1, <2>2
<1>. HIDE DEF Q
<1>6. /\ peer \in PeerType /\ peer.floor = 0 /\ peer.conn # 0 /\ peer.delivery = 1
      /\ peer.quarantined = FALSE /\ peer.sitOut = FALSE
  BY <1>3 DEF NoPeer, PeerType, Relay, Positive
<1>7. \A g \in Seats : peers[g] = IF g = f THEN peer ELSE relay.peers[g]
  BY <1>3 DEF Relay
<1>8. DOMAIN relay.outSeat = Seats
  BY <1>3 DEF Channels
<1>9. \A g \in Seats : outSeat[g] = IF g = f THEN q ELSE relay.outSeat[g]
  BY <1>5, <1>8
<1>10. UNCHANGED <<hist, host, toRelay, seat, fromSeat, late>>
  BY DEF Join
<1>11. /\ S.plan = relay.plan /\ S.snap = relay.snap /\ S.changed = relay.changed /\ S.cont = relay.cont /\ S.peers = peers
       /\ S.floor = relay.floor /\ S.last = relay.last /\ S.cache = relay.cache /\ S.lastId = relay.lastId
       /\ S.acks = relay.acks /\ S.outcome = relay.outcome /\ S.outSeat = outSeat
  <2>. DEFINE outHost == Append(relay.outHost, Roster(peers))
              next == relay.nextConn + 1
  <2>1. S = [relay EXCEPT !.peers = peers, !.nextConn = next, !.outHost = outHost, !.outSeat = outSeat]
    BY Zenon DEF Join, Q
  <2>. HIDE DEF outSeat, peers, outHost, next
  <2>. QED  BY <1>3, <2>1 DEF RelayFields
<1>12. DOMAIN outSeat = Seats
  BY <1>8
<1>. HIDE DEF peer, peers, outSeat, S
<1>13. relay.cache # 0 => relay.last \in 1..Len(hist) /\ relay.cache = hist[relay.last].at
  BY <1>1, <1>3 DEF IInv, Good, Cached
<1>14. relay.cache \in Nat /\ relay.lastId \in Nat
  BY <1>3 DEF Relay
<1>15. /\ q \in Seq(SeatMessage)
       /\ \E g : Trace(q, g, hist) /\ g[1] = Arrival /\ Final(g) = Entered(IF relay.cache = 0 THEN 0 ELSE relay.last)
  <2>. PICK l : l = relay.last
    OBVIOUS
  <2>. PICK image : image = relay.cache
    OBVIOUS
  <2>1. image # 0 => l \in 1..Len(hist) /\ image = hist[l].at
    BY <1>13
  <2>2. q = IF image = 0 THEN <<Welcome>> ELSE <<Welcome, CachedWorld(l, image)>>
    OBVIOUS
  <2>3. image \in Nat /\ l \in Nat /\ hist \in Seq(Entry)
    BY <1>3, <1>14
  <2>. HIDE DEF q
  <2>4. Greets(q, Entered(IF image = 0 THEN 0 ELSE l), hist)
    BY <2>1, <2>2, <2>3, Arrives
  <2>. QED  BY <2>4 DEF Greets
<1>. HIDE DEF q
<1>16. Channels(S)
  <2>1. outSeat \in [Seats -> Seq(SeatMessage)]
    <3>1. \A g \in Seats : outSeat[g] \in Seq(SeatMessage)
      BY <1>3, <1>9, <1>15 DEF Channels
    <3>. QED  BY <1>12, <3>1 DEF outSeat
  <2>. QED  BY <1>11, <2>1 DEF Channels
<1>17. cuts2 \subseteq cuts
  <2>1. Resumed(relay, S) /\ Kin(host, host) /\ Within(toRelay, toRelay)
    BY <1>11 DEF Resumed, Kin, Within
  <2>. QED  BY <2>1, CutsShrink DEF cuts
<1>. HIDE DEF cuts2
<1>18. Mail(S, f, seat[f], fromSeat[f], relay.last, hist, cuts2, late.relay)
  <2>1. PICK g : Trace(q, g, hist) /\ g[1] = Arrival /\ Final(g) = Entered(IF relay.cache = 0 THEN 0 ELSE relay.last)
    BY <1>15
  <2>. PICK n : n = IF relay.cache = 0 THEN 0 ELSE relay.last
    OBVIOUS
  <2>. PICK e : e = Entered(n)
    OBVIOUS
  <2>2. n \in Nat /\ n <= relay.last /\ Gapless(hist, n, relay.last)
    <3>1. relay.cache = 0 => relay.last = 0
      <4>1. ASSUME relay.last # 0 PROVE relay.cache # 0
        <5>1. relay.cache = hist[relay.last].at /\ relay.last \in 1..Len(hist)
          BY <1>1, <1>3, <4>1 DEF IInv, Good, Cached
        <5>2. 1 <= hist[relay.last].at
          BY <1>3, <5>1 DEF History
        <5>. QED  BY <5>1, <5>2
      <4>. QED  BY <4>1
    <3>2. n = relay.last
      BY <3>1
    <3>. QED  BY <1>3, <3>2 DEF Gapless
  <2>3. /\ e \in Standing /\ e.bound = 1 /\ e.stage = "Open" /\ e.top = n
        /\ e.id = 0 /\ e.floor = 0 /\ e.sitOut = FALSE /\ e.phase = "Bootstrap"
    BY <2>2, EnteredIs DEF Standing
  <2>4. ~IsTarget(S, f) /\ S.peers[f] = peer
    BY <1>4, <1>7, <1>11 DEF Absent, IsTarget
  <2>5. Meant(S, f, e, relay.last, hist, cuts2)
    <3>1. Bound(S.peers[f], S, e, relay.last)
      BY <1>6, <1>11, <1>14, <2>2, <2>3, <2>4 DEF Bound
    <3>. QED  BY <1>6, <2>2, <2>3, <2>4, <3>1 DEF Meant
  <2>6. seat[f] = NewSeat /\ fromSeat[f] = <<>> /\ f \notin S.acks
    BY <1>4, <1>11 DEF Absent
  <2>7. /\ Stands(NewSeat, Arrival, hist, late.relay) /\ Certified(NewSeat, Arrival, hist)
    BY DEF Stands, Certified, Follow, Installed, NewSeat, Arrival, Reading, Alike, At, Shown
  <2>8. Answers(fromSeat[f], seat[f], Arrival, hist)
    BY <2>6 DEF Answers
  <2>9. S.outSeat[f] = q
    BY <1>9, <1>11
  <2>10. g[1] = Arrival /\ Final(g) = e /\ Trace(S.outSeat[f], g, hist)
    BY <2>1, <2>9
  <2>11. Life(S, f, seat[f], fromSeat[f], g, relay.last, hist, cuts2, late.relay)
    BY <2>5, <2>6, <2>7, <2>8, <2>10 DEF Life
  <2>. QED  BY <1>6, <2>4, <2>11 DEF Mail
<1>19. ASSUME NEW g \in Seats, g # f
       PROVE  Mail(S, g, seat[g], fromSeat[g], relay.last, hist, cuts2, late.relay)
  <2>1. Agree(relay, S, g)
    BY <1>7, <1>9, <1>11, <1>14, <1>19 DEF Agree
  <2>2. relay.outSeat[g] \in Seq(SeatMessage) /\ seat[g] \in SeatType
    BY <1>3 DEF Channels
  <2>3. \A x \in cuts2 : x \in cuts
    BY <1>17
  <2>4. Mail(relay, g, seat[g], fromSeat[g], relay.last, hist, cuts, late.relay)
    BY <1>3
  <2>. QED  BY <1>3, <2>1, <2>2, <2>3, <2>4, MailGrows
<1>20. Everyone(S, seat, fromSeat, S.last, hist, cuts2, late.relay)
  BY <1>11, <1>18, <1>19 DEF Everyone
<1>21. Keeps(S, S, hist)
  BY <1>3, <1>11, <1>16 DEF Keeps, NoNews
<1>22. (seat \in [Seats -> SeatType])' /\ (fromSeat \in [Seats -> Seq(AckType)])'
  BY <1>3, <1>10, SInvIs
<1>. QED  BY <1>2, <1>10, <1>11, <1>20, <1>21, <1>22, AloneOn DEF cuts2, S

LEMMA LeaveWhole ==
  ASSUME SInv, NEW f \in Seats, Leave(f)
  PROVE  SInv'
<1>. DEFINE ended == IF IsTarget(relay, f) THEN Finish(relay, "TargetChanged") ELSE relay
            peers == [ended.peers EXCEPT ![f] = NoPeer]
            outSeat == [ended.outSeat EXCEPT ![f] = <<>>]
            cuts == Cuts(relay, host, toRelay)
            S == relay'
            cuts2 == Cuts(S, host, toRelay)
<1>1. World(relay, host, toRelay, hist, seat, fromSeat, cuts, late.relay) /\ IInv
  BY SInvIs DEF Whole
<1>2. IInv'
  BY <1>1, LeaveGood
<1>3. /\ Relay(relay) /\ Channels(relay) /\ History(hist) /\ Grows(hist, hist)
      /\ hist \in Seq(Entry) /\ relay.last <= Len(hist) /\ relay.last \in Nat
      /\ seat \in [Seats -> SeatType]
      /\ \A g \in Seats : Mail(relay, g, seat[g], fromSeat[g], relay.last, hist, cuts, late.relay)
  BY <1>1, WorldIs
<1>. HIDE DEF cuts
<1>4. ASSUME NEW c, c \subseteq cuts
      PROVE  Handles(relay, ended, hist, seat, fromSeat, c, late.relay) /\ ended.floor = relay.floor
  <2>1. CASE ~IsTarget(relay, f)
    <3>1. Idle(relay, ended) /\ ended.floor = relay.floor
      BY <2>1 DEF Idle
    <3>. QED  BY <1>1, <1>4, <3>1, IdleHandles
  <2>2. CASE IsTarget(relay, f)
    <3>1. "TargetChanged" \in Reasons /\ "TargetChanged" # "Converged" /\ ended = Finish(relay, "TargetChanged")
      BY <2>2 DEF Reasons
    <3>. HIDE DEF ended
    <3>. QED  BY <1>1, <3>1, FinishHandles
  <2>. QED  BY <2>1, <2>2
<1>5. Good(ended, host, toRelay, hist)
  BY <1>1, FinishGood DEF IInv, Reasons
<1>6. Relay(ended) /\ DOMAIN ended = RelayFields /\ ended.lastId \in Nat
  BY <1>5 DEF Good, Types, Relay
<1>7. ~IsTarget(ended, f) /\ f \notin ended.acks
  <2>1. CASE ~IsTarget(relay, f)
    <3>1. Mail(relay, f, seat[f], fromSeat[f], relay.last, hist, cuts, late.relay)
      BY <1>3
    <3>2. f \notin relay.acks
      BY <2>1, <3>1 DEF Mail, Absent, Life
    <3>. QED  BY <2>1, <3>2
  <2>2. CASE IsTarget(relay, f)
    <3>1. relay.plan # NoPlan
      BY <2>2 DEF IsTarget, NoPlan, NoTargets
    <3>2. "TargetChanged" \in Reasons /\ ended = Finish(relay, "TargetChanged")
      BY <2>2 DEF Reasons
    <3>. HIDE DEF ended
    <3>3. Finished(relay, ended, "TargetChanged")
      BY <1>3, <3>1, <3>2, FinishSends
    <3>. QED  BY <3>3 DEF Finished, IsTarget, NoPlan, NoTargets
  <2>. QED  BY <2>1, <2>2
<1>8. /\ UNCHANGED <<hist, host, toRelay, late>>
      /\ seat' = [seat EXCEPT ![f] = NewSeat] /\ fromSeat' = [fromSeat EXCEPT ![f] = <<>>]
  BY DEF Leave
<1>9. S = [ended EXCEPT !.peers = peers, !.outHost = Append(ended.outHost, Roster(peers)), !.outSeat = outSeat]
  BY Zenon DEF Leave
<1>. HIDE DEF ended, S
<1>10. Handles(relay, ended, hist, seat, fromSeat, cuts, late.relay) /\ ended.floor = relay.floor
  BY <1>4
<1>11. Channels(ended) /\ Keeps(ended, ended, hist) /\ Resumed(relay, ended)
  BY <1>10 DEF Handles, Keeps, Resumed
<1>12. \A g \in Seats : peers[g] = IF g = f THEN NoPeer ELSE ended.peers[g]
  BY <1>6 DEF Relay
<1>13. /\ \A g \in Seats : outSeat[g] = IF g = f THEN <<>> ELSE ended.outSeat[g]
       /\ outSeat \in [Seats -> Seq(SeatMessage)]
  BY <1>11 DEF Channels
<1>14. /\ S.plan = ended.plan /\ S.snap = ended.snap /\ S.changed = ended.changed /\ S.cont = ended.cont /\ S.peers = peers
       /\ S.floor = ended.floor /\ S.last = ended.last /\ S.cache = ended.cache /\ S.lastId = ended.lastId
       /\ S.acks = ended.acks /\ S.outcome = ended.outcome /\ S.outSeat = outSeat
  <2>. DEFINE outHost == Append(ended.outHost, Roster(peers))
  <2>1. S = [ended EXCEPT !.peers = peers, !.outHost = outHost, !.outSeat = outSeat]
    BY <1>9
  <2>. HIDE DEF outSeat, peers, outHost
  <2>. QED  BY <1>6, <2>1 DEF RelayFields
<1>. HIDE DEF peers, outSeat
<1>15. cuts2 \subseteq cuts
  <2>1. Resumed(relay, S) /\ Kin(host, host) /\ Within(toRelay, toRelay)
    BY <1>11, <1>14 DEF Resumed, Kin, Within
  <2>. QED  BY <2>1, CutsShrink DEF cuts
<1>. HIDE DEF cuts2
<1>16. Everyone(ended, seat, fromSeat, ended.last, hist, cuts2, late.relay)
  BY <1>4, <1>15 DEF Handles
<1>17. ended.last \in Nat /\ ended.last <= Len(hist)
  BY <1>5, <1>6 DEF Good, Transaction, Relay
<1>18. ASSUME NEW g \in Seats PROVE Mail(S, g, seat'[g], fromSeat'[g], ended.last, hist, cuts2, late.relay)
  <2>1. CASE g = f
    <3>1. seat'[f] = NewSeat /\ fromSeat'[f] = <<>>
      BY <1>3, <1>8, SInvIs
    <3>2. Absent(S, f, seat'[f], fromSeat'[f])
      BY <1>7, <1>12, <1>13, <1>14, <3>1 DEF Absent, IsTarget
    <3>3. S.peers[f].conn = 0
      BY <1>12, <1>14 DEF NoPeer
    <3>. QED  BY <2>1, <3>2, <3>3 DEF Mail
  <2>2. CASE g # f
    <3>1. Agree(ended, S, g)
      BY <1>6, <1>12, <1>13, <1>14, <2>2 DEF Agree, Relay
    <3>2. ended.outSeat[g] \in Seq(SeatMessage) /\ seat[g] \in SeatType
      BY <1>3, <1>11 DEF Channels
    <3>3. \A x \in cuts2 : x \in cuts2
      OBVIOUS
    <3>4. Mail(ended, g, seat[g], fromSeat[g], ended.last, hist, cuts2, late.relay)
      BY <1>16 DEF Everyone
    <3>5. Mail(S, g, seat[g], fromSeat[g], ended.last, hist, cuts2, late.relay)
      BY <1>3, <1>6, <1>17, <3>1, <3>2, <3>3, <3>4, MailGrows
    <3>6. seat'[g] = seat[g] /\ fromSeat'[g] = fromSeat[g]
      BY <1>3, <1>8, <2>2, SInvIs
    <3>. QED  BY <3>5, <3>6
  <2>. QED  BY <2>1, <2>2
<1>19. Everyone(S, seat', fromSeat', S.last, hist, cuts2, late.relay)
  BY <1>14, <1>18 DEF Everyone
<1>20. Keeps(S, S, hist)
  BY <1>11, <1>13, <1>14 DEF Keeps, NoNews, Channels
<1>21. (seat \in [Seats -> SeatType])' /\ (fromSeat \in [Seats -> Seq(AckType)])'
  <2>1. NewSeat \in SeatType
    BY DEF NewSeat, SeatType, Phases, NoSnap, SnapType
  <2>2. <<>> \in Seq(AckType)
    OBVIOUS
  <2>. QED  BY <1>3, <1>8, <2>1, <2>2, SInvIs
<1>. QED  BY <1>2, <1>8, <1>10, <1>14, <1>19, <1>20, <1>21, AloneOn DEF cuts2, S


-----------------------------------------------------------------------------
(* The host's actions, and time.                                           *)

Unmoved(R, S) ==
  /\ S.outSeat = R.outSeat /\ S.peers = R.peers /\ S.plan = R.plan /\ S.snap = R.snap /\ S.cont = R.cont
  /\ S.lastId = R.lastId /\ S.acks = R.acks /\ S.last = R.last /\ S.cache = R.cache /\ S.changed = R.changed
  /\ S.floor = R.floor

\* What the host may add: an entry of its history, and the cut of a snapshot above all that was admitted.
Adds(R, H, K, q, p, h, k) ==
  /\ Grows(h, k) /\ Copies(k) /\ AboveFloor(R, K, p)
  /\ \A x \in Cuts(R, K, p) : x \in Cuts(R, H, q) \/ (x \in Nat /\ R.last < x)
  /\ \A i \in 1..Len(p) : p[i].t = "failure" => p[i].reason # "Converged"

LEMMA CutsUnmoved ==
  ASSUME NEW R, NEW S, S.plan = R.plan, NEW H, NEW q
  PROVE  Cuts(S, H, q) = Cuts(R, H, q)
BY DEF Cuts, OfPhase

LEMMA WorldOfHost ==
  ASSUME NEW R, NEW H, NEW q, NEW h, NEW s, NEW b, NEW late1, World(R, H, q, h, s, b, Cuts(R, H, q), late1),
         NEW S, NEW K, NEW p, NEW k, NEW late2, Good(S, K, p, k), Unmoved(R, S), Adds(R, H, K, q, p, h, k),
         late1 \subseteq late2
  PROVE  World(S, K, p, k, s, b, Cuts(S, K, p), late2)
<1>1. Relay(R) /\ Channels(R) /\ History(h) /\ R.last \in Nat /\ R.last <= Len(h) /\ s \in [Seats -> SeatType]
      /\ Everyone(R, s, b, R.last, h, Cuts(R, H, q), late1) /\ R.lastId \in Nat /\ NoNews(R, h, R.last)
      /\ (R.last = 0 => R.cache = 0) /\ \A f \in R.acks : f \in Seats /\ R.snap # NoSnap
  BY WorldIs
<1>2. \A f \in Seats : Agree(R, S, f)
  BY <1>1 DEF Unmoved, Agree
<1>3. Grows(h, k)
  BY DEF Adds
<1>4. Cuts(S, K, p) = Cuts(R, K, p)
  BY CutsUnmoved DEF Unmoved
<1>. DEFINE cuts == Cuts(R, H, q)
            cuts2 == Cuts(S, K, p)
<1>5. \A x \in cuts2 : x \in cuts \/ (x \in Nat /\ R.last < x)
  BY <1>4 DEF Adds
<1>. HIDE DEF cuts, cuts2
<1>6. Everyone(R, s, b, R.last, h, cuts, late1)
  BY <1>1 DEF cuts
<1>7. Everyone(S, s, b, R.last, k, cuts2, late2)
  BY <1>1, <1>2, <1>3, <1>5, <1>6, EveryoneGrows
<1>8. NoNews(S, k, R.last)
  <2>. SUFFICES ASSUME R.snap # NoSnap, ~R.changed, NEW n \in R.snap.cut + 1..R.last
                PROVE  (R.snap.sitOut /\ Boss(k, n)) \/ Alike(k, n, R.snap.cut)
    BY DEF NoNews, Unmoved
  <2>1. R.snap.cut \in Nat /\ R.snap.cut <= R.last
    <3>1. Relay(S) /\ S.begin.cut = S.snap.cut /\ S.begin.cut <= S.last
      BY DEF Good, Types, Transaction, Ahead, Partner, Unmoved
    <3>. QED  BY <3>1, <1>1 DEF Unmoved, Relay, SnapType
  <2>2. n \in 1..Len(h) /\ n \in 0..Len(h) /\ R.snap.cut \in 0..Len(h) /\ Len(h) \in Nat
    BY <1>1, <2>1
  <2>3. (R.snap.sitOut /\ Boss(h, n)) \/ Alike(h, n, R.snap.cut)
    BY <1>1 DEF NoNews
  <2>4. Boss(h, n) => Boss(k, n)
    BY <1>3, <2>2 DEF Grows, Boss
  <2>. QED  BY <1>3, <2>2, <2>3, <2>4, AlikeGrows
<1>9. Channels(S) /\ S.last = R.last
  BY <1>1 DEF Channels, Unmoved
<1>10. Extra(S, K, p, k, S.last)
  <2>1. /\ Copies(k) /\ AboveFloor(S, K, p)
        /\ \A i \in 1..Len(p) : p[i].t = "failure" => p[i].reason # "Converged"
    BY DEF Adds, Unmoved, AboveFloor
  <2>. QED  BY <1>1, <1>8, <2>1 DEF Extra, Unmoved
<1>. QED  BY <1>1, <1>7, <1>9, <1>10 DEF World, cuts2

\* A step that adds nothing to the history, and no snapshot.
LEMMA AddsNothing ==
  ASSUME NEW R, NEW H, NEW K, Kin(H, K), NEW q \in Seq(HostMessage), NEW p, NEW h, NEW m,
         p = q \/ (p = Append(q, m) /\ m.t # "end" /\ (m.t = "failure" => m.reason # "Converged")),
         h \in Seq(Entry), Extra(R, H, q, h, R.last)
  PROVE  Adds(R, H, K, q, p, h, h)
<1>1. /\ Len(q) \in Nat
      /\ \A i \in 1..Len(p) : \/ i \in 1..Len(q) /\ p[i] = q[i]
                              \/ p[i] = m /\ m.t # "end" /\ (m.t = "failure" => m.reason # "Converged")
  <2>1. CASE p = q
    BY <2>1
  <2>2. CASE p = Append(q, m) /\ m.t # "end" /\ (m.t = "failure" => m.reason # "Converged")
    <3>1. Len(p) = Len(q) + 1 /\ \A i \in 1..Len(p) : (i \in 1..Len(q) /\ p[i] = q[i]) \/ p[i] = m
      BY <2>2
    <3>. QED  BY <2>2, <3>1
  <2>. QED  BY <2>1, <2>2
<1>2. Grows(h, h)
  BY DEF Grows
<1>3. AboveFloor(R, K, p)
  BY <1>1 DEF Extra, AboveFloor, Kin
<1>4. ASSUME NEW x \in Cuts(R, K, p) PROVE x \in Cuts(R, H, q)
  <2>1. CASE \E i \in 1..Len(p) : p[i].t = "end" /\ OfPhase(R, p[i].id, p[i].phase) /\ x = p[i].cut
    <3>1. PICK i \in 1..Len(p) : p[i].t = "end" /\ OfPhase(R, p[i].id, p[i].phase) /\ x = p[i].cut
      BY <2>1
    <3>2. i \in 1..Len(q) /\ p[i] = q[i]
      BY <1>1, <3>1
    <3>. QED  BY <3>1, <3>2 DEF Cuts
  <2>2. CASE x = K.staged.cut /\ K.staged # NoSnap /\ OfPhase(R, K.plan, K.phase)
    BY <2>2 DEF Kin, Cuts
  <2>. QED  BY <1>4, <2>1, <2>2 DEF Cuts
<1>5. \A i \in 1..Len(p) : p[i].t = "failure" => p[i].reason # "Converged"
  BY <1>1 DEF Extra
<1>. QED  BY <1>2, <1>3, <1>4, <1>5 DEF Adds, Extra

\* A step of the host or of time.
LEMMA HostOn ==
  ASSUME SInv, IInv', Unmoved(relay, relay'), UNCHANGED <<seat, fromSeat>>, late.relay \subseteq late'.relay,
         Adds(relay, host, host', toRelay, toRelay', hist, hist')
  PROVE  SInv'
<1>1. World(relay, host, toRelay, hist, seat, fromSeat, Cuts(relay, host, toRelay), late.relay)
  BY SInvIs DEF Whole
<1>2. Good(relay', host', toRelay', hist')
  BY DEF IInv
<1>3. World(relay', host', toRelay', hist', seat, fromSeat, Cuts(relay', host', toRelay'), late'.relay)
  BY <1>1, <1>2, WorldOfHost
<1>4. Whole' /\ (fromSeat \in [Seats -> Seq(AckType)])'
  BY <1>3, SInvIs DEF Whole
<1>. QED  BY <1>4, IsWhole

LEMMA QuietOn ==
  ASSUME SInv, IInv', Unmoved(relay, relay'), UNCHANGED <<seat, fromSeat, hist>>, late.relay \subseteq late'.relay,
         Kin(host, host'), NEW m,
         toRelay' = toRelay \/ (toRelay' = Append(toRelay, m) /\ m.t # "end" /\ (m.t = "failure" => m.reason # "Converged"))
  PROVE  SInv'
<1>1. Extra(relay, host, toRelay, hist, relay.last) /\ toRelay \in Seq(HostMessage) /\ hist \in Seq(Entry)
  BY DEF SInv, IInv, Good, Types
<1>2. Adds(relay, host, host', toRelay, toRelay', hist, hist)
  BY <1>1, AddsNothing
<1>. QED  BY <1>2, HostOn


LEMMA HostQuietWhole ==
  ASSUME SInv, NEW mask \in SUBSET Seats, HostRequest(mask) \/ HostCaptureFails \/ HostDeadline
  PROVE  SInv'
<1>. DEFINE m1 == Request(host, mask)
            m2 == [t |-> "failure", id |-> host.plan, reason |-> "CaptureUnavailable"]
            m3 == [t |-> "failure", id |-> HostBusy, reason |-> "HostDeadline"]
<1>1. IInv' /\ host \in HostType
  BY SInvIs, HostRequestGood, HostCaptureFailsGood, HostDeadlineGood DEF IInv, Good, Types
<1>2. /\ m1.t = "request"
      /\ m2.t = "failure" /\ m2.reason # "Converged" /\ m3.t = "failure" /\ m3.reason # "Converged"
  BY DEF Request
<1>3. UNCHANGED <<seat, fromSeat, hist, relay, late>>
  BY DEF HostRequest, HostCaptureFails, HostDeadline
<1>4. Unmoved(relay, relay') /\ late.relay \subseteq late'.relay
  BY <1>3 DEF Unmoved
<1>5. CASE HostRequest(mask)
  <2>1. toRelay' = Append(toRelay, m1) /\ host' = [host EXCEPT !.asked = host.next, !.next = host.next + 1]
    BY <1>5 DEF HostRequest
  <2>2. Kin(host, host')
    BY <1>1, <2>1 DEF Kin, HostType
  <2>3. m1.t # "end" /\ (m1.t = "failure" => m1.reason # "Converged")
    BY <1>2
  <2>. HIDE DEF m1
  <2>. QED  BY <1>1, <1>3, <1>4, <2>1, <2>2, <2>3, QuietOn
<1>6. CASE HostCaptureFails
  <2>1. toRelay' = Append(toRelay, m2) /\ host' = [host EXCEPT !.captured = TRUE]
    BY <1>6 DEF HostCaptureFails
  <2>2. Kin(host, host')
    BY <1>1, <2>1 DEF Kin, HostType
  <2>3. m2.t # "end" /\ (m2.t = "failure" => m2.reason # "Converged")
    BY <1>2
  <2>. HIDE DEF m2
  <2>. QED  BY <1>1, <1>3, <1>4, <2>1, <2>2, <2>3, QuietOn
<1>7. CASE HostDeadline
  <2>1. toRelay' = Append(toRelay, m3)
        /\ host' = [host EXCEPT !.plan = 0, !.asked = 0, !.staged = NoSnap, !.captured = TRUE,
                                !.lastPlan = Larger(host.lastPlan, HostBusy)]
    BY <1>7 DEF HostDeadline
  <2>2. Kin(host, host')
    BY <1>1, <2>1 DEF Kin, HostType
  <2>3. m3.t # "end" /\ (m3.t = "failure" => m3.reason # "Converged")
    BY <1>2
  <2>. HIDE DEF m3
  <2>. QED  BY <1>1, <1>3, <1>4, <2>1, <2>2, <2>3, QuietOn
<1>. QED  BY <1>5, <1>6, <1>7

LEMMA HostReadsWhole ==
  ASSUME SInv, HostRoster \/ HostPlan \/ HostResult
  PROVE  SInv'
<1>1. IInv' /\ host \in HostType /\ Relay(relay) /\ DOMAIN relay = RelayFields
  BY SInvIs, HostRosterGood, HostPlanGood, HostResultGood DEF IInv, Good, Types, Relay
<1>2. /\ relay' = [relay EXCEPT !.outHost = Tail(relay.outHost)]
      /\ UNCHANGED <<seat, fromSeat, hist, late>>
  BY DEF HostRoster, HostPlan, HostResult, HostReceives
<1>3. Unmoved(relay, relay')
  BY <1>1, <1>2 DEF Unmoved, RelayFields
<1>4. toRelay' = toRelay
  BY DEF HostRoster, HostPlan, HostResult
<1>5. Kin(host, host')
  <2>1. CASE HostRoster
    <3>1. host' = [host EXCEPT !.roster = Head(relay.outHost).roster]
      BY <2>1 DEF HostRoster
    <3>. QED  BY <1>1, <3>1 DEF Kin, HostType
  <2>2. CASE HostPlan
    <3>. DEFINE id == Head(relay.outHost).id
                phase == Head(relay.outHost).phase
    <3>1. \/ host' = host
          \/ host' = [host EXCEPT !.plan = id, !.phase = phase, !.lastPlan = id,
                              !.asked = 0, !.captured = FALSE, !.staged = NoSnap]
      BY <2>2 DEF HostPlan
    <3>. HIDE DEF id, phase
    <3>. QED  BY <1>1, <3>1 DEF Kin, HostType
  <2>3. CASE HostResult
    <3>1. \/ host' = host
          \/ host' = [host EXCEPT !.plan = 0, !.asked = 0, !.staged = NoSnap, !.captured = TRUE]
      BY <2>3 DEF HostResult
    <3>. QED  BY <1>1, <3>1 DEF Kin, HostType
  <2>. QED  BY <2>1, <2>2, <2>3
<1>6. late.relay \subseteq late'.relay
  BY <1>2
<1>. QED  BY <1>1, <1>2, <1>3, <1>4, <1>5, <1>6, QuietOn

LEMMA ClockWhole ==
  ASSUME SInv, NEW id \in Requests, HostClock(id) \/ RelayClock(id), late.relay \subseteq late'.relay
  PROVE  SInv'
<1>1. UNCHANGED <<hist, host, toRelay, relay, seat, fromSeat>>
  BY DEF HostClock, RelayClock
<1>2. IInv'
  BY <1>1, SInvIs DEF IInv
<1>3. Unmoved(relay, relay') /\ Kin(host, host')
  BY <1>1 DEF Unmoved, Kin
<1>. QED  BY <1>1, <1>2, <1>3, QuietOn

\* A longer history.
LEMMA Extended ==
  ASSUME NEW h \in Seq(Entry), History(h), NEW e \in Entry, NEW g, g = Append(h, e)
  PROVE  /\ Grows(h, g) /\ Len(g) = Len(h) + 1 /\ g[Len(h) + 1] = e /\ Len(h) \in Nat
         /\ 1..Len(g) = 1..Len(h) \cup {Len(h) + 1}
<1>. QED  BY Appended DEF Grows

LEMMA HostUpdateWhole ==
  ASSUME SInv, NEW v \in Values, NEW e \in 1..MaxEpoch, HostUpdate(v, e)
  PROVE  SInv'
<1>. DEFINE new == Len(hist) + 1
            entry == [at |-> new, epoch |-> e, val |-> v]
            m == [t |-> "env", n |-> new]
            g == Append(hist, entry)
<1>1. /\ hist' = g /\ toRelay' = Append(toRelay, m) /\ UNCHANGED <<host, relay, seat, fromSeat, late>>
  BY DEF HostUpdate
<1>2. IInv' /\ hist \in Seq(Entry) /\ History(hist) /\ toRelay \in Seq(HostMessage)
      /\ Extra(relay, host, toRelay, hist, relay.last)
  BY SInvIs, HostUpdateGood DEF IInv, Good, Types, SInv
<1>3. entry \in Entry /\ entry.at = new /\ m.t = "env" /\ new \in Nat
  BY <1>2 DEF Entry
<1>. HIDE DEF entry, m
<1>4. /\ Grows(hist, g) /\ Len(g) = Len(hist) + 1 /\ g[Len(hist) + 1] = entry
      /\ 1..Len(g) = 1..Len(hist) \cup {Len(hist) + 1} /\ Len(hist) \in Nat
  BY <1>2, <1>3, Extended
<1>. HIDE DEF g
<1>5. Copies(g)
  <2>. SUFFICES ASSUME NEW n \in 1..Len(g) PROVE g[g[n].at] = g[n]
    BY DEF Copies
  <2>1. CASE n = new
    BY <1>3, <1>4, <2>1
  <2>2. CASE n \in 1..Len(hist)
    <3>1. hist[hist[n].at] = hist[n] /\ hist[n].at \in 1..Len(hist)
      <4>1. hist[n].at <= n /\ 1 <= hist[n].at /\ hist[n] \in Entry
        BY <1>2, <2>2 DEF History
      <4>. QED  BY <1>2, <1>4, <2>2, <4>1 DEF Extra, Copies, Entry
    <3>. QED  BY <1>4, <2>2, <3>1 DEF Grows
  <2>. QED  BY <1>4, <2>1, <2>2
<1>6. Kin(host, host)
  BY DEF Kin
<1>7. m.t # "end" /\ (m.t = "failure" => m.reason # "Converged")
  BY <1>3
<1>8. Adds(relay, host, host, toRelay, Append(toRelay, m), hist, hist)
  BY <1>2, <1>6, <1>7, AddsNothing
<1>9. Adds(relay, host, host', toRelay, toRelay', hist, hist')
  BY <1>1, <1>4, <1>5, <1>8 DEF Adds
<1>10. Unmoved(relay, relay') /\ late.relay \subseteq late'.relay
  BY <1>1 DEF Unmoved
<1>. QED  BY <1>1, <1>2, <1>9, <1>10, HostOn

LEMMA HostCaptureWhole ==
  ASSUME SInv, NEW sitOut \in BOOLEAN, HostCapture(sitOut)
  PROVE  SInv'
<1>. DEFINE new == Len(hist) + 1
            entry == hist[Len(hist)]
            g == Append(hist, entry)
            staged == [cut |-> new, sitOut |-> sitOut]
<1>1. /\ hist' = g /\ UNCHANGED <<toRelay, relay, seat, fromSeat, late>>
      /\ host' = [host EXCEPT !.captured = TRUE, !.staged = staged]
  BY DEF HostCapture
<1>2. /\ IInv' /\ hist \in Seq(Entry) /\ History(hist) /\ toRelay \in Seq(HostMessage) /\ host \in HostType
      /\ Extra(relay, host, toRelay, hist, relay.last) /\ Relay(relay) /\ relay.floor \in Nat /\ relay.last \in Nat
      /\ relay.floor <= relay.last /\ relay.last <= Len(hist) /\ Len(hist) \in Nat /\ Len(hist) # 0
  <2>1. IInv /\ IInv' /\ Extra(relay, host, toRelay, hist, relay.last)
    BY SInvIs, HostCaptureGood DEF SInv
  <2>2. /\ hist \in Seq(Entry) /\ History(hist) /\ toRelay \in Seq(HostMessage) /\ host \in HostType
        /\ Relay(relay) /\ relay.floor <= relay.last /\ relay.last <= Len(hist)
    BY <2>1 DEF IInv, Good, Types, Transaction
  <2>3. relay.floor \in Nat /\ relay.last \in Nat /\ Len(hist) \in Nat /\ Len(hist) # 0
    BY <2>2 DEF Relay, History
  <2>. QED  BY <2>1, <2>2, <2>3
<1>3. entry \in Entry /\ new \in Nat
  BY <1>2
<1>. HIDE DEF entry
<1>4. /\ Grows(hist, g) /\ Len(g) = Len(hist) + 1 /\ g[Len(hist) + 1] = entry
      /\ 1..Len(g) = 1..Len(hist) \cup {Len(hist) + 1} /\ Len(hist) \in Nat
  BY <1>2, <1>3, Extended
<1>5. entry = hist[Len(hist)]
  BY DEF entry
<1>. HIDE DEF g
<1>6. \A n \in 1..Len(hist) : hist[hist[n].at] = hist[n] /\ hist[n].at \in 1..Len(hist)
  <2>. SUFFICES ASSUME NEW n \in 1..Len(hist) PROVE hist[hist[n].at] = hist[n] /\ hist[n].at \in 1..Len(hist)
    OBVIOUS
  <2>1. hist[n].at <= n /\ 1 <= hist[n].at /\ hist[n] \in Entry
    BY <1>2 DEF History
  <2>. QED  BY <1>2, <1>4, <2>1 DEF Extra, Copies, Entry
<1>7. Copies(g)
  <2>. SUFFICES ASSUME NEW n \in 1..Len(g) PROVE g[g[n].at] = g[n]
    BY DEF Copies
  <2>1. CASE n = new
    <3>1. Len(hist) \in 1..Len(hist)
      BY <1>2
    <3>. QED  BY <1>4, <1>5, <1>6, <2>1, <3>1 DEF Grows
  <2>2. CASE n \in 1..Len(hist)
    BY <1>4, <1>6, <2>2 DEF Grows
  <2>. QED  BY <1>4, <2>1, <2>2
<1>8. staged.cut = new
  OBVIOUS
<1>. HIDE DEF staged
<1>9. host'.staged = staged
  BY <1>1, <1>2 DEF HostType
<1>10. AboveFloor(relay, host', toRelay)
  BY <1>2, <1>8, <1>9 DEF Extra, AboveFloor
<1>11. ASSUME NEW x \in Cuts(relay, host', toRelay)
       PROVE  x \in Cuts(relay, host, toRelay) \/ (x \in Nat /\ relay.last < x)
  <2>1. x \in Cuts(relay, host, toRelay) \/ x = staged.cut
    BY <1>9, <1>11 DEF Cuts
  <2>. QED  BY <1>2, <1>3, <1>8, <2>1
<1>12. Adds(relay, host, host', toRelay, toRelay', hist, hist')
  BY <1>1, <1>2, <1>4, <1>7, <1>10, <1>11 DEF Adds, Extra
<1>13. Unmoved(relay, relay') /\ late.relay \subseteq late'.relay
  BY <1>1 DEF Unmoved
<1>. QED  BY <1>1, <1>2, <1>12, <1>13, HostOn

LEMMA HostPublishWhole ==
  ASSUME SInv, HostPublish
  PROVE  SInv'
<1>. DEFINE head == [t |-> "begin", id |-> host.plan, phase |-> host.phase, cut |-> host.staged.cut]
            tail == [t |-> "end", id |-> host.plan, phase |-> host.phase, cut |-> host.staged.cut,
                     sitOut |-> host.staged.sitOut]
            p == toRelay \o <<head, tail>>
<1>1. /\ toRelay' = p /\ host' = [host EXCEPT !.staged = NoSnap] /\ UNCHANGED <<hist, relay, seat, fromSeat, late>>
      /\ host.staged # NoSnap
  BY DEF HostPublish
<1>2. /\ IInv' /\ toRelay \in Seq(HostMessage) /\ host \in HostType /\ hist \in Seq(Entry)
      /\ Extra(relay, host, toRelay, hist, relay.last) /\ Len(toRelay) \in Nat
  BY SInvIs, HostPublishGood DEF IInv, Good, Types, SInv
<1>3. /\ head.t = "begin" /\ tail.t = "end" /\ tail.cut = host.staged.cut /\ tail.id = host.plan /\ tail.phase = host.phase
  OBVIOUS
<1>. HIDE DEF head, tail
<1>4. \A i \in 1..Len(p) : (i \in 1..Len(toRelay) /\ p[i] = toRelay[i]) \/ p[i] = head \/ p[i] = tail
  BY <1>2
<1>. HIDE DEF p
<1>5. host'.staged = NoSnap
  BY <1>1, <1>2 DEF HostType
<1>6. AboveFloor(relay, host', p)
  BY <1>1, <1>2, <1>3, <1>4, <1>5 DEF Extra, AboveFloor
<1>7. ASSUME NEW x \in Cuts(relay, host', p) PROVE x \in Cuts(relay, host, toRelay)
  <2>1. PICK i \in 1..Len(p) : p[i].t = "end" /\ OfPhase(relay, p[i].id, p[i].phase) /\ x = p[i].cut
    BY <1>5, <1>7 DEF Cuts
  <2>2. CASE i \in 1..Len(toRelay) /\ p[i] = toRelay[i]
    BY <2>1, <2>2 DEF Cuts
  <2>3. CASE p[i] = tail
    BY <1>1, <1>3, <2>1, <2>3 DEF Cuts
  <2>. QED  BY <1>3, <1>4, <2>1, <2>2, <2>3
<1>8. \A i \in 1..Len(p) : p[i].t = "failure" => p[i].reason # "Converged"
  BY <1>2, <1>3, <1>4 DEF Extra
<1>9. Grows(hist, hist)
  BY <1>2 DEF Grows
<1>10. Adds(relay, host, host', toRelay, toRelay', hist, hist')
  BY <1>1, <1>2, <1>6, <1>7, <1>8, <1>9 DEF Adds, Extra
<1>11. Unmoved(relay, relay') /\ late.relay \subseteq late'.relay
  BY <1>1 DEF Unmoved
<1>. QED  BY <1>1, <1>2, <1>10, <1>11, HostOn


-----------------------------------------------------------------------------
(* What a seat makes of each message.                                      *)

BindTo(s, d, fenced) == [s EXCEPT !.bound = d, !.quarantined = fenced]

Bound1(s, m) ==
  IF m.delivery < s.bound THEN s
  ELSE BindTo(s, m.delivery, s.quarantined \/ (m.delivery # s.bound /\ m.delivery > 1))

Ignores(s, m) == \/ m.delivery # s.bound
                 \/ IF s.plan = 0 THEN m.id <= s.lastPlan
                    ELSE m.id # s.plan \/ m.phase = s.phase \/ m.phase = "Bootstrap"

TakeUp(s, id, phase) ==
  [s EXCEPT !.plan = id, !.phase = phase, !.lastPlan = id, !.header = 0, !.quarantined = TRUE,
            !.native = NoSnap, !.finished = FALSE]

Planned1(s, m) == IF Ignores(s, m) THEN s ELSE TakeUp(s, m.id, m.phase)

Expects(s, m) == s.plan = m.id /\ s.phase = m.phase /\ s.done # <<m.id, m.phase>>

Begun1(s, m) == IF Expects(s, m) THEN [s EXCEPT !.header = m.cut] ELSE s

Ended1(s, m, h) ==
  IF ~Expects(s, m) \/ s.header # m.cut THEN s
  ELSE [s EXCEPT !.floor = m.cut, !.quarantined = FALSE, !.done = <<m.id, m.phase>>, !.header = 0,
                 !.native = [cut |-> m.cut, sitOut |-> m.sitOut],
                 !.image = IF Restores(m) THEN h[m.cut].at ELSE s.image]

Takes(s, m) == m.delivery = s.bound /\ m.n > s.floor /\ ~s.quarantined

Shown1(s, m, n) == IF Takes(s, m) THEN [s EXCEPT !.image = n] ELSE s

Result1(s, m) ==
  IF m.id # s.plan THEN s
  ELSE [s EXCEPT !.plan = 0, !.header = 0, !.native = NoSnap, !.finished = FALSE,
                 !.quarantined = s.quarantined \/ m.reason # "Converged"]

Reads(s, m, t, h) ==
  \/ m.t = "binding" /\ t = Bound1(s, m)
  \/ m.t = "plan" /\ t = Planned1(s, m)
  \/ m.t = "begin" /\ t = Begun1(s, m)
  \/ m.t = "end" /\ t = Ended1(s, m, h)
  \/ m.t = "env" /\ t = Shown1(s, m, m.n)
  \/ m.t = "cached" /\ t = Shown1(s, m, m.image)
  \/ m.t = "result" /\ t = Result1(s, m)

\* A seat that stands at a and reads m, which takes it to b.
Meets(s, a, m, b, h, late1) ==
  /\ s \in SeatType /\ a \in Standing /\ b \in Standing /\ m \in SeatMessage /\ Sane(a, h) /\ Sane(b, h)
  /\ Moves(a, m, b, h) /\ Stands(s, a, h, late1) /\ h \in Seq(Entry) /\ History(h)

Serves(s, a, t, b, h, late1) ==
  /\ t \in SeatType /\ Stands(t, b, h, late1)
  /\ Certified(s, a, h) /\ a.stage \in {"New", "Open", "Ended"} /\ b.stage \in {"Open", "Ended"} => Certified(t, b, h)

LEMMA SeatIs ==
  ASSUME NEW s \in SeatType
  PROVE  /\ s.bound \in Nat /\ s.plan \in Nat /\ s.phase \in Phases /\ s.lastPlan \in Nat /\ s.quarantined \in BOOLEAN
         /\ s.floor \in Nat /\ s.header \in Nat /\ s.done \in Nat \X Phases /\ s.native \in SnapType
         /\ s.finished \in BOOLEAN /\ s.image \in Nat
BY DEF SeatType

LEMMA StandingIs ==
  ASSUME NEW a \in Standing
  PROVE  /\ a.bound \in Nat /\ a.id \in Nat /\ a.phase \in Phases /\ a.stage \in Stages /\ a.floor \in Nat /\ a.cut \in Nat
         /\ a.sitOut \in BOOLEAN /\ a.top \in Nat
BY DEF Standing

IsBound(s, d, z, t) ==
  /\ t \in SeatType /\ t.bound = d /\ t.quarantined = z /\ t.plan = s.plan /\ t.lastPlan = s.lastPlan
  /\ t.floor = s.floor /\ t.image = s.image /\ t.done = s.done

LEMMA SeatBound ==
  ASSUME NEW s, s \in SeatType, NEW d, d \in Nat, NEW z, z \in BOOLEAN
  PROVE  IsBound(s, d, z, BindTo(s, d, z))
BY DEF SeatType, BindTo, IsBound

IsTaken(s, id, phase, t) ==
  /\ t \in SeatType /\ t.plan = id /\ t.phase = phase /\ t.lastPlan = id /\ t.quarantined = TRUE
  /\ t.native = NoSnap /\ t.finished = FALSE /\ t.bound = s.bound /\ t.floor = s.floor /\ t.image = s.image
  /\ t.done = s.done

LEMMA SeatPlanned ==
  ASSUME NEW s, s \in SeatType, NEW id, id \in Nat, NEW phase, phase \in Phases
  PROVE  IsTaken(s, id, phase, TakeUp(s, id, phase))
<1>. DEFINE t == TakeUp(s, id, phase)
<1>1. DOMAIN s = {"bound", "plan", "phase", "lastPlan", "quarantined", "floor", "header", "done", "native", "finished", "image"}
  BY DEF SeatType
<1>2. NoSnap \in SnapType
  BY NothingTyped
<1>3. /\ t.plan = id /\ t.phase = phase /\ t.lastPlan = id /\ t.quarantined = TRUE
      /\ t.native = NoSnap /\ t.finished = FALSE /\ t.bound = s.bound /\ t.floor = s.floor /\ t.image = s.image
      /\ t.done = s.done
  BY <1>1 DEF TakeUp
<1>4. t \in SeatType
  BY <1>2 DEF SeatType, TakeUp
<1>. QED  BY <1>3, <1>4 DEF IsTaken

\* A seat whose own record is unchanged.
LEMMA SameSeat ==
  ASSUME NEW s, NEW a, NEW b, NEW h, NEW late1, Stands(s, a, h, late1), Same(a, b), a.stage = b.stage, a.top = b.top,
         a.stage # "Begun", a.stage # "New"
  PROVE  Stands(s, b, h, late1) /\ (Certified(s, a, h) => Certified(s, b, h))
<1>1. Follow(s, b, late1) /\ Installed(s, b)
  BY DEF Stands, Follow, Installed, Same, Reading
<1>2. Shown(s, a, h) => Shown(s, b, h)
  BY DEF Shown
<1>. QED  BY <1>1, <1>2 DEF Stands, Certified, Same

LEMMA ReadBinding ==
  ASSUME NEW s, NEW a, NEW m, NEW b, NEW h, NEW late1, Meets(s, a, m, b, h, late1), m.t = "binding",
         NEW t, t = Bound1(s, m)
  PROVE  Serves(s, a, t, b, h, late1)
<1>1. Binds(a, m, b) /\ s \in SeatType /\ a \in Standing /\ b \in Standing /\ Sane(a, h) /\ Stands(s, a, h, late1)
  BY DEF Meets, Moves
<1>2. s.bound = a.bound /\ a.bound \in Nat /\ s.quarantined \in BOOLEAN
  BY <1>1, SeatIs, StandingIs DEF Stands
<1>3. CASE a.stage = "New" /\ m.delivery = 1 /\ b.stage = "Open"
  <2>1. s = NewSeat /\ a = Arrival
    BY <1>1, <1>3 DEF Stands, Sane
  <2>2. s.bound = 0 /\ s.quarantined = FALSE /\ s.plan = 0 /\ s.lastPlan = 0 /\ s.floor = 0 /\ s.image = 0
        /\ s.done = <<0, "Bootstrap">>
    BY <2>1 DEF NewSeat
  <2>3. t \in SeatType /\ t.bound = 1 /\ t.plan = 0 /\ t.lastPlan = 0 /\ t.floor = 0 /\ t.image = 0 /\ t.done = <<0, "Bootstrap">>
    <3>. PICK z : z = (s.quarantined \/ (m.delivery # s.bound /\ m.delivery > 1))
      OBVIOUS
    <3>1. ~(m.delivery < s.bound) /\ z \in BOOLEAN
      BY <1>2, <1>3, <2>2
    <3>2. t = BindTo(s, 1, z)
      BY <1>3, <3>1 DEF Bound1
    <3>3. IsBound(s, 1, z, BindTo(s, 1, z))
      BY <1>1, <3>1, SeatBound
    <3>. QED  BY <2>2, <3>2, <3>3 DEF IsBound
  <2>4. b.bound = 1 /\ b.id = 0 /\ b.phase = "Bootstrap" /\ b.floor = 0 /\ b.top = 0 /\ b.stage = "Open"
    BY <1>1, <1>3, <2>1 DEF Binds, Arrival
  <2>5. Follow(t, b, late1)
    BY <2>3, <2>4 DEF Follow, Reading
  <2>6. Installed(t, b)
    BY <2>3, <2>4 DEF Installed
  <2>7. Shown(t, b, h)
    BY <2>3, <2>4 DEF Shown
  <2>8. Certified(t, b, h)
    BY <2>3, <2>4 DEF Certified, Alike, At
  <2>9. Stands(t, b, h, late1)
    BY <2>3, <2>4, <2>5, <2>6, <2>7 DEF Stands
  <2>. QED  BY <2>3, <2>8, <2>9 DEF Serves
<1>4. CASE a.stage \in {"Open", "Cut"} /\ m.delivery = a.bound + 1 /\ b.stage = "Fenced"
  <2>1. a.bound # 0 /\ s.plan = 0
    BY <1>1, <1>4 DEF Sane, Stands, Follow
  <2>2. m.delivery \in Nat /\ ~(m.delivery < s.bound) /\ m.delivery # s.bound /\ m.delivery > 1
    BY <1>2, <1>4, <2>1
  <2>3. t \in SeatType /\ t.bound = m.delivery /\ t.quarantined = TRUE /\ t.plan = 0 /\ t.lastPlan = s.lastPlan
        /\ t.floor = s.floor /\ t.image = s.image /\ t.done = s.done
    <3>. PICK z : z = (s.quarantined \/ (m.delivery # s.bound /\ m.delivery > 1))
      OBVIOUS
    <3>1. z = TRUE /\ z \in BOOLEAN
      BY <2>2
    <3>2. t = BindTo(s, m.delivery, z)
      BY <2>2 DEF Bound1
    <3>3. IsBound(s, m.delivery, z, BindTo(s, m.delivery, z))
      BY <1>1, <2>2, <3>1, SeatBound
    <3>. QED  BY <2>1, <3>1, <3>2, <3>3 DEF IsBound
  <2>4. b.bound = m.delivery /\ b.id = a.id /\ b.phase = a.phase /\ b.floor = a.floor /\ b.top = a.top
    BY <1>1 DEF Binds
  <2>5. Follow(t, b, late1)
    BY <1>4, <2>3, <2>4 DEF Follow, Reading
  <2>6. Installed(t, b)
    BY <1>1, <1>4, <2>3, <2>4 DEF Installed, Stands
  <2>7. Stands(t, b, h, late1)
    BY <1>1, <1>4, <2>3, <2>4, <2>5, <2>6 DEF Stands
  <2>. QED  BY <1>4, <2>3, <2>7 DEF Serves
<1>5. CASE a.stage = "Ended" /\ m.delivery = a.bound /\ a.phase = "Bootstrap" /\ b.stage = "Ended"
  <2>1. t = s
    <3>1. ~(m.delivery < s.bound)
      BY <1>2, <1>5
    <3>. PICK z : z = (s.quarantined \/ (m.delivery # s.bound /\ m.delivery > 1))
      OBVIOUS
    <3>2. z = s.quarantined
      BY <1>2, <1>5
    <3>3. t = BindTo(s, s.bound, s.quarantined)
      BY <1>2, <1>5, <3>1, <3>2 DEF Bound1
    <3>. QED  BY <1>1, <3>3 DEF SeatType, BindTo
  <2>2. Same(a, b) /\ a.top = b.top /\ a.stage = b.stage
    BY <1>1, <1>5 DEF Binds, Same
  <2>3. Stands(s, b, h, late1) /\ (Certified(s, a, h) => Certified(s, b, h))
    BY <1>1, <1>5, <2>2, SameSeat
  <2>. QED  BY <1>1, <2>1, <2>3 DEF Serves
<1>. QED  BY <1>1, <1>3, <1>4, <1>5 DEF Binds

LEMMA ReadPlan ==
  ASSUME NEW s, NEW a, NEW m, NEW b, NEW h, NEW late1, Meets(s, a, m, b, h, late1), m.t = "plan",
         NEW t, t = Planned1(s, m)
  PROVE  Serves(s, a, t, b, h, late1)
<1>1. Plans(a, m, b) /\ s \in SeatType /\ a \in Standing /\ b \in Standing /\ Sane(a, h) /\ Stands(s, a, h, late1)
  BY DEF Meets, Moves
<1>2. m.id \in Nat /\ m.phase \in Phases /\ m.delivery = s.bound
  <2>1. m \in SeatMessage /\ m.t = "plan"
    BY DEF Meets
  <2>2. m.id \in Nat /\ m.phase \in Phases
    BY <2>1 DEF SeatMessage, Record
  <2>. QED  BY <1>1, <2>2 DEF Plans, Stands
<1>3. /\ b.stage = "Planned" /\ b.bound = a.bound /\ b.id = m.id /\ b.phase = m.phase /\ b.floor = a.floor
      /\ ~b.sitOut /\ b.top = a.top
  BY <1>1 DEF Plans
<1>4. a.id \in Nat /\ s.plan \in Nat /\ s.done[1] \in Nat /\ s.lastPlan = a.id
  BY <1>1, SeatIs, StandingIs DEF Stands
<1>5. CASE s.plan = 0 /\ m.phase = "Checkpoint"
  <2>1. a.stage = "Ended" /\ a.id = m.id /\ a.phase = "Bootstrap"
    BY <1>1, <1>5 DEF Plans
  <2>2. t = s /\ s.quarantined /\ a.id \in late1
    BY <1>1, <1>4, <1>5, <2>1 DEF Planned1, Ignores, Stands, Follow, Reading
  <2>3. Follow(s, b, late1)
    BY <1>3, <1>5, <2>1, <2>2 DEF Follow, Reading
  <2>4. Installed(s, b)
    BY <1>1, <1>3, <1>5, <2>1, <2>2 DEF Installed, Stands
  <2>5. Stands(s, b, h, late1)
    BY <1>1, <1>3, <2>1, <2>2, <2>3, <2>4 DEF Stands
  <2>. QED  BY <1>1, <1>3, <2>2, <2>5 DEF Serves
<1>6. CASE ~(s.plan = 0 /\ m.phase = "Checkpoint")
  <2>1. \/ m.phase = "Bootstrap" /\ a.stage = "Fenced" /\ a.id < m.id /\ s.plan = 0
        \/ /\ m.phase = "Checkpoint" /\ a.stage = "Ended" /\ a.id = m.id /\ a.phase = "Bootstrap" /\ s.plan = a.id
           /\ s.plan # 0 /\ s.phase = "Bootstrap"
    BY <1>1, <1>6 DEF Plans, Stands, Follow, Reading
  <2>2. ~Ignores(s, m)
    BY <1>2, <1>4, <2>1 DEF Ignores
  <2>3. t = TakeUp(s, m.id, m.phase)
    BY <2>2 DEF Planned1
  <2>4. /\ t \in SeatType /\ t.plan = m.id /\ t.phase = m.phase /\ t.lastPlan = m.id /\ t.quarantined = TRUE
        /\ t.native = NoSnap /\ t.finished = FALSE /\ t.bound = s.bound /\ t.floor = s.floor /\ t.image = s.image
        /\ t.done = s.done
    <3>1. IsTaken(s, m.id, m.phase, TakeUp(s, m.id, m.phase))
      BY <1>1, <1>2, SeatPlanned
    <3>. QED  BY <2>3, <3>1 DEF IsTaken
  <2>5. m.id # 0 /\ a.id <= m.id
    BY <1>1, <1>2, <1>4, <2>1 DEF Sane, Reading
  <2>6. Follow(t, b, late1)
    BY <1>3, <2>4, <2>5 DEF Follow, Reading
  <2>7. Installed(t, b)
    <3>1. s.done[1] <= a.id
      BY <1>1 DEF Stands, Installed
    <3>2. CASE a.id < m.id
      <4>1. s.done[1] < m.id /\ s.done[1] # m.id
        BY <1>2, <1>4, <3>1, <3>2
      <4>2. s.done # <<m.id, "Bootstrap">> /\ s.done # <<m.id, "Checkpoint">> /\ s.done # <<m.id, m.phase>>
        BY <4>1
      <4>3. s.done[1] <= m.id
        BY <1>2, <1>4, <4>1
      <4>. QED  BY <1>3, <2>4, <4>2, <4>3 DEF Installed
    <3>3. CASE m.phase = "Checkpoint" /\ a.id = m.id /\ a.phase = "Bootstrap"
      BY <1>1, <1>3, <2>4, <3>1, <3>3 DEF Installed, Stands
    <3>. QED  BY <2>1, <3>2, <3>3
  <2>8. Stands(t, b, h, late1)
    BY <1>1, <1>3, <2>4, <2>6, <2>7 DEF Stands
  <2>. QED  BY <1>3, <2>4, <2>8 DEF Serves
<1>. QED  BY <1>5, <1>6

LEMMA ReadBegin ==
  ASSUME NEW s, NEW a, NEW m, NEW b, NEW h, NEW late1, Meets(s, a, m, b, h, late1), m.t = "begin",
         NEW t, t = Begun1(s, m)
  PROVE  Serves(s, a, t, b, h, late1)
<1>1. Begins(a, m, b) /\ s \in SeatType /\ a \in Standing /\ b \in Standing /\ Sane(a, h) /\ Stands(s, a, h, late1)
  BY DEF Meets, Moves
<1>2. m.cut \in Nat
  <2>1. m \in SeatMessage /\ m.t = "begin"
    BY DEF Meets
  <2>. QED  BY <2>1 DEF SeatMessage, Record
<1>3. /\ a.stage = "Planned" /\ b.stage = "Begun" /\ Same(a, b) /\ b.cut = m.cut /\ b.top = a.top /\ a.id # 0
      /\ m.id = a.id /\ m.phase = a.phase /\ s.done # <<a.id, a.phase>> /\ s.quarantined
  BY <1>1 DEF Begins, Sane, Reading, Stands, Installed, Follow
<1>4. /\ t \in SeatType /\ t.plan = s.plan /\ t.phase = s.phase /\ t.lastPlan = s.lastPlan /\ t.quarantined = s.quarantined
      /\ t.native = s.native /\ t.finished = s.finished /\ t.bound = s.bound /\ t.floor = s.floor /\ t.image = s.image
      /\ t.done = s.done
  BY <1>1, <1>2 DEF Begun1, SeatType
<1>5. s.plan # 0 => t.header = m.cut
  <2>. SUFFICES ASSUME s.plan # 0 PROVE t.header = m.cut
    OBVIOUS
  <2>1. Expects(s, m)
    BY <1>1, <1>3 DEF Expects, Stands, Follow, Reading
  <2>. QED  BY <1>1, <2>1 DEF Begun1, SeatType
<1>6. Follow(t, b, late1)
  BY <1>1, <1>3, <1>4, <1>5 DEF Follow, Reading, Stands, Same
<1>7. Installed(t, b)
  BY <1>1, <1>3, <1>4 DEF Installed, Stands, Same
<1>8. Stands(t, b, h, late1)
  BY <1>1, <1>3, <1>4, <1>6, <1>7 DEF Stands, Same
<1>. QED  BY <1>3, <1>4, <1>8 DEF Serves


Install(s, m, image) ==
  [s EXCEPT !.floor = m.cut, !.quarantined = FALSE, !.done = <<m.id, m.phase>>, !.header = 0,
            !.native = [cut |-> m.cut, sitOut |-> m.sitOut], !.image = image]

IsInstalled(s, m, image, t) ==
  /\ t \in SeatType /\ t.floor = m.cut /\ t.quarantined = FALSE /\ t.done = <<m.id, m.phase>>
  /\ t.native = [cut |-> m.cut, sitOut |-> m.sitOut] /\ t.image = image
  /\ t.bound = s.bound /\ t.plan = s.plan /\ t.phase = s.phase /\ t.lastPlan = s.lastPlan /\ t.finished = s.finished

LEMMA SeatInstalled ==
  ASSUME NEW s, s \in SeatType, NEW m, m.cut \in Nat, m.id \in Nat, m.phase \in Phases, m.sitOut \in BOOLEAN,
         NEW image, image \in Nat
  PROVE  IsInstalled(s, m, image, Install(s, m, image))
<1>. DEFINE t == Install(s, m, image)
<1>. PICK native : native = [cut |-> m.cut, sitOut |-> m.sitOut]
  OBVIOUS
<1>. PICK done : done = <<m.id, m.phase>>
  OBVIOUS
<1>1. DOMAIN s = {"bound", "plan", "phase", "lastPlan", "quarantined", "floor", "header", "done", "native", "finished", "image"}
  BY DEF SeatType
<1>2. native \in SnapType /\ done \in Nat \X Phases
  BY DEF SnapType
<1>3. t = [s EXCEPT !.floor = m.cut, !.quarantined = FALSE, !.done = done, !.header = 0, !.native = native, !.image = image]
  BY DEF Install
<1>. HIDE DEF t
<1>4. /\ t.floor = m.cut /\ t.quarantined = FALSE /\ t.done = done /\ t.native = native /\ t.image = image
      /\ t.bound = s.bound /\ t.plan = s.plan /\ t.phase = s.phase /\ t.lastPlan = s.lastPlan /\ t.finished = s.finished
  BY <1>1, <1>3
<1>5. t \in SeatType
  BY <1>2, <1>3 DEF SeatType
<1>. QED  BY <1>4, <1>5 DEF IsInstalled, t

LEMMA ReadEnd ==
  ASSUME NEW s, NEW a, NEW m, NEW b, NEW h, NEW late1, Meets(s, a, m, b, h, late1), m.t = "end",
         NEW t, t = Ended1(s, m, h)
  PROVE  Serves(s, a, t, b, h, late1)
<1>1. EndsAt(a, m, b, h) /\ s \in SeatType /\ a \in Standing /\ b \in Standing /\ Sane(a, h) /\ Stands(s, a, h, late1)
      /\ h \in Seq(Entry) /\ History(h) /\ m \in SeatMessage
  BY DEF Meets, Moves
<1>2. /\ a.stage = "Begun" /\ m.id = a.id /\ m.phase = a.phase /\ m.cut = a.cut /\ m.cut \in 1..Len(h)
      /\ b.stage = "Ended" /\ b.bound = a.bound /\ b.id = a.id /\ b.phase = a.phase
      /\ b.floor = m.cut /\ b.sitOut = m.sitOut /\ b.top = IF m.sitOut THEN a.top ELSE m.cut
      /\ a.floor < m.cut /\ a.top < m.cut /\ a.id # 0
  BY <1>1 DEF EndsAt, Sane, Reading
<1>3. /\ m.cut \in Nat /\ m.id \in Nat /\ m.phase \in Phases /\ m.sitOut \in BOOLEAN /\ a.floor \in Nat /\ a.top \in Nat
      /\ s.floor \in Nat /\ s.image \in Nat /\ m.cut \in 0..Len(h) /\ m.cut # 0
  <2>1. m.sitOut \in BOOLEAN /\ m.cut \in Nat
    BY <1>1 DEF SeatMessage, Record
  <2>. QED  BY <1>1, <1>2, <2>1, SeatIs, StandingIs
<1>4. s.floor <= b.floor /\ s.image <= b.top /\ s.lastPlan = b.id /\ s.bound = b.bound
  BY <1>1, <1>2, <1>3 DEF Stands
<1>5. CASE s.plan = 0
  <2>1. t = s /\ s.quarantined /\ a.id \in late1
    BY <1>1, <1>2, <1>5 DEF Ended1, Expects, Stands, Follow, Reading
  <2>2. Follow(s, b, late1)
    BY <1>2, <1>5, <2>1 DEF Follow, Reading
  <2>3. Installed(s, b)
    BY <1>1, <1>2, <2>1 DEF Installed, Stands
  <2>4. Stands(s, b, h, late1)
    BY <1>1, <1>2, <1>4, <2>1, <2>2, <2>3 DEF Stands
  <2>. QED  BY <1>1, <1>2, <2>1, <2>4 DEF Serves
<1>6. CASE s.plan # 0
  <2>. PICK image : image = IF Restores(m) THEN h[m.cut].at ELSE s.image
    OBVIOUS
  <2>1. /\ s.plan = a.id /\ s.phase = a.phase /\ ~s.finished /\ s.header = a.cut /\ s.done # <<a.id, a.phase>>
    BY <1>1, <1>2, <1>6 DEF Stands, Follow, Reading, Installed
  <2>2. t = Install(s, m, image)
    BY <1>2, <2>1 DEF Ended1, Expects, Install
  <2>3. At(h, m.cut) = h[m.cut].at /\ At(h, m.cut) \in 1..m.cut /\ Update(h, At(h, m.cut)) /\ Gapless(h, At(h, m.cut), m.cut)
    <3>1. At(h, m.cut) = h[m.cut].at
      BY <1>3 DEF At
    <3>. QED  BY <1>1, <1>3, <3>1, AtIs
  <2>4. image \in Nat /\ (image = 0 \/ Update(h, image)) /\ image <= b.top
    <3>1. CASE Restores(m)
      <4>1. image = At(h, m.cut) /\ b.top = m.cut
        BY <1>2, <2>3, <3>1 DEF Restores
      <4>. QED  BY <1>3, <2>3, <4>1
    <3>2. CASE ~Restores(m)
      BY <1>1, <1>3, <1>4, <3>2 DEF Stands
    <3>. QED  BY <3>1, <3>2
  <2>5. IsInstalled(s, m, image, Install(s, m, image))
    BY <1>1, <1>3, <2>4, SeatInstalled
  <2>6. /\ t \in SeatType /\ t.floor = m.cut /\ t.quarantined = FALSE /\ t.done = <<m.id, m.phase>>
        /\ t.native = [cut |-> m.cut, sitOut |-> m.sitOut] /\ t.image = image
        /\ t.bound = s.bound /\ t.plan = s.plan /\ t.phase = s.phase /\ t.lastPlan = s.lastPlan /\ t.finished = s.finished
    BY <2>2, <2>5 DEF IsInstalled
  <2>7. Follow(t, b, late1)
    BY <1>2, <1>6, <2>1, <2>6 DEF Follow, Reading
  <2>8. Installed(t, b)
    <3>1. t.done[1] = a.id /\ (a.phase = "Bootstrap" => t.done # <<a.id, "Checkpoint">>)
      BY <1>2, <2>6
    <3>. QED  BY <1>2, <1>3, <2>6, <3>1 DEF Installed
  <2>9. ~b.sitOut => Shown(t, b, h)
    <3>. SUFFICES ASSUME ~b.sitOut PROVE Shown(t, b, h)
      OBVIOUS
    <3>1. b.top = m.cut
      BY <1>2
    <3>2. CASE m.phase = "Bootstrap"
      <4>1. image = At(h, m.cut)
        BY <1>2, <2>3, <3>2 DEF Restores
      <4>. QED  BY <2>3, <2>6, <3>1, <4>1 DEF Shown, Gapless
    <3>3. CASE m.phase = "Checkpoint"
      <4>1. t.done[2] = "Checkpoint"
        BY <2>6, <3>3
      <4>. QED  BY <1>3, <2>4, <2>6, <3>1, <4>1 DEF Shown
    <3>. QED  BY <1>3, <3>2, <3>3 DEF Phases
  <2>10. Stands(t, b, h, late1)
    BY <1>2, <1>4, <2>4, <2>6, <2>7, <2>8, <2>9 DEF Stands
  <2>. QED  BY <1>2, <2>6, <2>10 DEF Serves
<1>. QED  BY <1>5, <1>6

Shows1(s, n) == [s EXCEPT !.image = n]

IsShowing(s, n, t) ==
  /\ t \in SeatType /\ t.image = n /\ t.bound = s.bound /\ t.plan = s.plan /\ t.phase = s.phase
  /\ t.lastPlan = s.lastPlan /\ t.quarantined = s.quarantined /\ t.floor = s.floor /\ t.header = s.header
  /\ t.done = s.done /\ t.native = s.native /\ t.finished = s.finished

LEMMA SeatShowing ==
  ASSUME NEW s, s \in SeatType, NEW n, n \in Nat
  PROVE  IsShowing(s, n, Shows1(s, n))
<1>. DEFINE t == Shows1(s, n)
<1>1. DOMAIN s = {"bound", "plan", "phase", "lastPlan", "quarantined", "floor", "header", "done", "native", "finished", "image"}
  BY DEF SeatType
<1>2. /\ t.image = n /\ t.bound = s.bound /\ t.plan = s.plan /\ t.phase = s.phase
      /\ t.lastPlan = s.lastPlan /\ t.quarantined = s.quarantined /\ t.floor = s.floor /\ t.header = s.header
      /\ t.done = s.done /\ t.native = s.native /\ t.finished = s.finished
  BY <1>1 DEF Shows1
<1>3. t \in SeatType
  BY DEF SeatType, Shows1
<1>. QED  BY <1>2, <1>3 DEF IsShowing

\* A world of the host that an unfenced seat shows takes it to the standing of that world.
LEMMA ReadWorld ==
  ASSUME NEW s, NEW a, NEW m, NEW b, NEW h, NEW late1, Meets(s, a, m, b, h, late1), NEW n, n = At(h, b.top),
         a.stage \in {"Open", "Ended"}, b.stage = a.stage, Same(a, b), ~a.sitOut, m.delivery = a.bound, a.floor < m.n,
         a.top <= b.top, m.n \in Nat, NEW t, t = Shown1(s, m, n)
  PROVE  Serves(s, a, t, b, h, late1)
<1>1. s \in SeatType /\ a \in Standing /\ b \in Standing /\ Sane(b, h) /\ Stands(s, a, h, late1)
      /\ h \in Seq(Entry) /\ History(h)
  BY DEF Meets
<1>2. /\ a.floor \in Nat /\ a.top \in Nat /\ b.top \in Nat /\ s.floor \in Nat /\ s.image \in Nat /\ b.top \in 0..Len(h)
      /\ s.bound = a.bound /\ s.floor <= a.floor /\ s.image <= a.top /\ s.quarantined \in BOOLEAN /\ ~b.sitOut
  BY <1>1, SeatIs, StandingIs DEF Stands, Sane, Same
<1>3. n \in 0..b.top /\ (n # 0 => Update(h, n)) /\ Gapless(h, n, b.top)
  BY <1>1, <1>2, AtIs
<1>4. CASE s.quarantined
  <2>1. t = s
    BY <1>4 DEF Shown1, Takes
  <2>2. Follow(s, b, late1) /\ Installed(s, b)
    BY <1>1 DEF Stands, Follow, Installed, Same, Reading
  <2>3. Stands(s, b, h, late1)
    BY <1>1, <1>2, <1>4, <2>2 DEF Stands, Same
  <2>. QED  BY <1>1, <1>4, <2>1, <2>3 DEF Serves, Certified
<1>5. CASE ~s.quarantined
  <2>1. Takes(s, m)
    BY <1>2, <1>5 DEF Takes
  <2>2. t = Shows1(s, n)
    BY <2>1 DEF Shown1, Shows1
  <2>3. IsShowing(s, n, Shows1(s, n))
    BY <1>1, <1>3, SeatShowing
  <2>4. /\ t \in SeatType /\ t.image = n /\ t.bound = s.bound /\ t.plan = s.plan /\ t.phase = s.phase
        /\ t.lastPlan = s.lastPlan /\ t.quarantined = s.quarantined /\ t.floor = s.floor /\ t.header = s.header
        /\ t.done = s.done /\ t.native = s.native /\ t.finished = s.finished
    BY <2>2, <2>3 DEF IsShowing
  <2>5. Follow(t, b, late1) /\ Installed(t, b)
    BY <1>1, <2>4 DEF Stands, Follow, Installed, Same, Reading
  <2>6. Shown(t, b, h)
    BY <1>3, <2>4 DEF Shown, Gapless
  <2>7. Stands(t, b, h, late1)
    BY <1>1, <1>2, <1>3, <2>4, <2>5, <2>6 DEF Stands, Same
  <2>8. Certified(t, b, h)
    BY <2>4 DEF Certified, Alike
  <2>. QED  BY <2>4, <2>7, <2>8 DEF Serves
<1>. QED  BY <1>4, <1>5

LEMMA ReadEnvelope ==
  ASSUME NEW s, NEW a, NEW m, NEW b, NEW h, NEW late1, Meets(s, a, m, b, h, late1), m.t = "env",
         NEW t, t = Shown1(s, m, m.n)
  PROVE  Serves(s, a, t, b, h, late1)
<1>1. Carries(a, m, b, h) /\ a \in Standing /\ b \in Standing
  BY DEF Meets, Moves
<1>2. /\ a.stage \in {"Open", "Ended"} /\ ~a.sitOut /\ m.delivery = a.bound /\ a.floor < m.n
      /\ b.stage = a.stage /\ Same(a, b) /\ b.top = m.n /\ a.top < m.n /\ Update(h, m.n)
  BY <1>1 DEF Carries, Follows
<1>3. a.top <= b.top /\ b.top \in Nat
  BY <1>1, <1>2, StandingIs
<1>4. m.n = At(h, b.top)
  BY <1>2 DEF At, Update
<1>. PICK n : n = m.n
  OBVIOUS
<1>5. n = At(h, b.top) /\ m.n \in Nat /\ t = Shown1(s, m, n)
  BY <1>2, <1>3, <1>4
<1>. QED  BY <1>2, <1>3, <1>5, ReadWorld

LEMMA ReadCached ==
  ASSUME NEW s, NEW a, NEW m, NEW b, NEW h, NEW late1, Meets(s, a, m, b, h, late1), m.t = "cached",
         NEW t, t = Shown1(s, m, m.image)
  PROVE  Serves(s, a, t, b, h, late1)
<1>1. Catches(a, m, b, h) /\ a \in Standing /\ b \in Standing
  BY DEF Meets, Moves
<1>2. /\ a.stage = "Open" /\ ~a.sitOut /\ m.delivery = a.bound /\ a.floor < m.n
      /\ b.stage = a.stage /\ Same(a, b) /\ b.top = m.n /\ m.n \in 1..Len(h) /\ m.image = h[m.n].at /\ a.top = 0
  <2>1. /\ a.stage = "Open" /\ a.bound = 1 /\ m.delivery = 1 /\ a.top = 0 /\ a.id = 0 /\ a.floor = 0 /\ ~a.sitOut
        /\ m.n \in 1..Len(h) /\ m.image = h[m.n].at /\ b.stage = a.stage /\ Same(a, b) /\ b.top = m.n
    BY <1>1 DEF Catches
  <2>. QED  BY <2>1
<1>3. a.top <= b.top /\ m.n \in Nat /\ a.stage \in {"Open", "Ended"}
  BY <1>1, <1>2, StandingIs
<1>4. m.image = At(h, b.top)
  BY <1>2 DEF At
<1>. PICK n : n = m.image
  OBVIOUS
<1>5. n = At(h, b.top) /\ t = Shown1(s, m, n)
  BY <1>4
<1>. QED  BY <1>2, <1>3, <1>5, ReadWorld

Retire(s, fenced) ==
  [s EXCEPT !.plan = 0, !.header = 0, !.native = NoSnap, !.finished = FALSE, !.quarantined = fenced]

IsRetired(s, z, t) ==
  /\ t \in SeatType /\ t.image = s.image /\ t.bound = s.bound /\ t.plan = 0 /\ t.phase = s.phase
  /\ t.lastPlan = s.lastPlan /\ t.quarantined = z /\ t.floor = s.floor
  /\ t.done = s.done /\ t.native = NoSnap /\ t.finished = FALSE

LEMMA SeatRetired ==
  ASSUME NEW s, s \in SeatType, NEW z, z \in BOOLEAN
  PROVE  IsRetired(s, z, Retire(s, z))
<1>. DEFINE t == Retire(s, z)
<1>1. DOMAIN s = {"bound", "plan", "phase", "lastPlan", "quarantined", "floor", "header", "done", "native", "finished", "image"}
  BY DEF SeatType
<1>2. /\ t.image = s.image /\ t.bound = s.bound /\ t.plan = 0 /\ t.phase = s.phase
      /\ t.lastPlan = s.lastPlan /\ t.quarantined = z /\ t.floor = s.floor
      /\ t.done = s.done /\ t.native = NoSnap /\ t.finished = FALSE
  BY <1>1 DEF Retire
<1>3. NoSnap \in SnapType
  BY NothingTyped
<1>4. t \in SeatType
  BY <1>3 DEF SeatType, Retire
<1>. QED  BY <1>2, <1>4 DEF IsRetired

LEMMA ReadResult ==
  ASSUME NEW s, NEW a, NEW m, NEW b, NEW h, NEW late1, Meets(s, a, m, b, h, late1), m.t = "result",
         NEW t, t = Result1(s, m)
  PROVE  Serves(s, a, t, b, h, late1)
<1>1. Results(a, m, b) /\ s \in SeatType /\ a \in Standing /\ b \in Standing /\ Sane(a, h) /\ Stands(s, a, h, late1)
  BY DEF Meets, Moves
<1>2. /\ m.id = a.id /\ b.bound = a.bound /\ b.id = a.id /\ b.phase = a.phase /\ b.floor = a.floor /\ b.top = a.top
      /\ a.stage \in {"Planned", "Ended"} /\ a.id # 0 /\ s.quarantined \in BOOLEAN
      /\ m.reason = "Converged" => a.stage = "Ended" /\ b.stage = "Open" /\ b.sitOut = a.sitOut
      /\ m.reason # "Converged" => b.stage = "Cut" /\ ~b.sitOut
  BY <1>1, SeatIs DEF Results, Sane, Reading
<1>3. CASE s.plan = 0
  <2>1. t = s /\ s.quarantined
    BY <1>1, <1>2, <1>3 DEF Result1, Stands, Follow, Reading
  <2>2. Follow(s, b, late1)
    BY <1>2, <1>3, <2>1 DEF Follow, Reading
  <2>3. Installed(s, b)
    BY <1>1, <1>2, <2>1 DEF Installed, Stands
  <2>4. Stands(s, b, h, late1)
    BY <1>1, <1>2, <2>1, <2>2, <2>3 DEF Stands
  <2>. QED  BY <1>1, <2>1, <2>4 DEF Serves, Certified
<1>4. CASE s.plan # 0
  <2>. PICK z : z = (s.quarantined \/ m.reason # "Converged")
    OBVIOUS
  <2>1. s.plan = a.id
    BY <1>1, <1>2, <1>4 DEF Stands, Follow, Reading
  <2>2. t = Retire(s, z)
    BY <1>2, <2>1 DEF Result1, Retire
  <2>3. z \in BOOLEAN
    OBVIOUS
  <2>4. IsRetired(s, z, Retire(s, z))
    BY <1>1, <2>3, SeatRetired
  <2>5. /\ t \in SeatType /\ t.image = s.image /\ t.bound = s.bound /\ t.plan = 0
        /\ t.lastPlan = s.lastPlan /\ t.quarantined = z /\ t.floor = s.floor /\ t.done = s.done
    BY <2>2, <2>4 DEF IsRetired
  <2>6. CASE m.reason = "Converged"
    <3>1. z = s.quarantined /\ b.stage = "Open" /\ a.stage = "Ended" /\ b.sitOut = a.sitOut
      BY <1>2, <2>6
    <3>2. Follow(t, b, late1)
      BY <2>5, <3>1 DEF Follow, Reading
    <3>3. Installed(t, b)
      BY <1>1, <1>2, <2>5, <3>1 DEF Installed, Stands
    <3>4. Shown(s, a, h) => Shown(t, b, h)
      BY <1>2, <2>5 DEF Shown
    <3>5. Stands(t, b, h, late1)
      BY <1>1, <1>2, <2>5, <3>1, <3>2, <3>3, <3>4 DEF Stands
    <3>6. Certified(s, a, h) => Certified(t, b, h)
      BY <1>2, <2>5, <3>1 DEF Certified
    <3>. QED  BY <2>5, <3>5, <3>6 DEF Serves
  <2>7. CASE m.reason # "Converged"
    <3>1. z = TRUE /\ b.stage = "Cut"
      BY <1>2, <2>7
    <3>2. Follow(t, b, late1)
      BY <2>5, <3>1 DEF Follow, Reading
    <3>3. Installed(t, b)
      BY <1>1, <1>2, <2>5, <3>1 DEF Installed, Stands
    <3>5. Stands(t, b, h, late1)
      BY <1>1, <1>2, <2>5, <3>1, <3>2, <3>3 DEF Stands
    <3>. QED  BY <2>5, <3>1, <3>5 DEF Serves
  <2>. QED  BY <2>6, <2>7
<1>. QED  BY <1>3, <1>4

LEMMA ReadsServes ==
  ASSUME NEW s, NEW a, NEW m, NEW b, NEW h, NEW late1, Meets(s, a, m, b, h, late1), NEW t, Reads(s, m, t, h)
  PROVE  Serves(s, a, t, b, h, late1)
BY ReadBinding, ReadPlan, ReadBegin, ReadEnd, ReadEnvelope, ReadCached, ReadResult DEF Reads

\* What a seat has acknowledged it keeps while its rank stays.
LEMMA ReadsAcked ==
  ASSUME NEW s, NEW a, NEW m, NEW b, NEW h, NEW late1, Meets(s, a, m, b, h, late1), NEW t, Reads(s, m, t, h),
         a.stage = b.stage, Same(a, b), Acked(s, a, h)
  PROVE  Acked(t, b, h)
<1>1. Moves(a, m, b, h) /\ s \in SeatType /\ a.stage \in Stages /\ Stands(s, a, h, late1) /\ Sane(a, h) /\ a \in Standing
  BY StandingIs DEF Meets
<1>2. Serves(s, a, t, b, h, late1)
  BY ReadsServes
<1>3. a.stage \in {"Open", "Ended"} /\ m.t \in {"binding", "env", "cached"}
      /\ (m.t = "binding" => a.stage = "Ended" /\ m.delivery = a.bound)
  BY <1>1 DEF Moves, Binds, Plans, Begins, EndsAt, Carries, Catches, Results, Stages
<1>4. Certified(t, b, h)
  BY <1>2, <1>3 DEF Serves, Acked
<1>5. t.done = s.done /\ t.floor = s.floor /\ t.plan = s.plan /\ t.finished = s.finished /\ t.quarantined = s.quarantined
  <2>1. CASE m.t = "binding"
    <3>. PICK z : z = (s.quarantined \/ (m.delivery # s.bound /\ m.delivery > 1))
      OBVIOUS
    <3>1. t = Bound1(s, m)
      BY <2>1 DEF Reads
    <3>2. m.delivery = s.bound /\ s.bound \in Nat /\ s.quarantined \in BOOLEAN
      BY <1>1, <1>3, <2>1, SeatIs DEF Stands
    <3>3. z = s.quarantined /\ t = BindTo(s, s.bound, z)
      BY <3>1, <3>2 DEF Bound1
    <3>4. t = s
      BY <1>1, <3>2, <3>3 DEF BindTo, SeatType
    <3>. QED  BY <3>4
  <2>2. CASE m.t # "binding"
    <3>1. t = s \/ \E n : t = Shows1(s, n)
      BY <1>3, <2>2 DEF Reads, Shown1, Shows1
    <3>. QED  BY <1>1, <3>1 DEF Shows1, SeatType
  <2>. QED  BY <2>1, <2>2
<1>. QED  BY <1>4, <1>5 DEF Acked, Same


\* What is left of the relay's record when a seat has read a message.
Popped(R, S, f) ==
  /\ S.outSeat = [R.outSeat EXCEPT ![f] = Tail(R.outSeat[f])]
  /\ S.peers = R.peers /\ S.plan = R.plan /\ S.snap = R.snap /\ S.cont = R.cont
  /\ S.lastId = R.lastId /\ S.acks = R.acks /\ S.last = R.last /\ S.cache = R.cache /\ S.changed = R.changed
  /\ S.floor = R.floor

\* The trace of a channel whose head m takes the seat from a to c.
StepsOn(q, g, m, a, c, G, h) ==
  /\ Tail(q) \in Seq(SeatMessage) /\ Trace(Tail(q), G, h) /\ m \in SeatMessage /\ a \in Standing /\ c \in Standing
  /\ Sane(a, h) /\ Sane(c, h) /\ Precedes(a, c) /\ Moves(a, m, c, h) /\ Final(G) = Final(g)
  /\ Len(G) \in Nat /\ 1 \in 1..Len(G) /\ 1 \in 1..Len(g) /\ \A i \in 1..Len(G) : i + 1 \in 1..Len(g) /\ G[i] = g[i + 1]
  /\ Precedes(c, Final(g)) /\ Final(g) \in Standing

LEMMA TraceStepsOn ==
  ASSUME NEW q, q \in Seq(SeatMessage), q # <<>>, NEW g, NEW h, Trace(q, g, h),
         NEW m, m = Head(q), NEW a, a = g[1], NEW G, G = Tail(g), NEW c, c = G[1]
  PROVE  StepsOn(q, g, m, a, c, G, h)
<1>1. /\ Tail(q) \in Seq(SeatMessage) /\ Trace(Tail(q), Tail(g), h)
      /\ Head(q) \in SeatMessage /\ g[1] \in Standing /\ Tail(g)[1] \in Standing
      /\ Sane(g[1], h) /\ Sane(Tail(g)[1], h) /\ Precedes(g[1], Tail(g)[1])
      /\ Moves(g[1], Head(q), Tail(g)[1], h) /\ Final(Tail(g)) = Final(g)
      /\ Len(g) \in Nat /\ Len(Tail(g)) = Len(g) - 1
      /\ \A i \in 1..Len(Tail(g)) : i + 1 \in 1..Len(g) /\ Tail(g)[i] = g[i + 1]
      /\ Precedes(Tail(g)[1], Final(g)) /\ Final(g) \in Standing
  BY ReadTrace
<1>2. Len(q) \in Nat /\ Len(q) # 0 /\ Len(g) = Len(q) + 1
  BY DEF Trace
<1>3. Len(G) \in Nat /\ 1 \in 1..Len(G) /\ 1 \in 1..Len(g)
  BY <1>1, <1>2
<1>. QED  BY <1>1, <1>3 DEF StepsOn

LEMMA Between == \A x, y, z \in Nat : x <= y /\ y <= z => x <= z /\ (x = z => x = y /\ y = z)
OBVIOUS

LEMMA AckRankIs == \A m \in AckType : AckRank(m) \in Nat
BY DEF AckType, AckRank

LEMMA ReadMail ==
  ASSUME NEW h \in Seq(Entry), History(h), NEW R, NEW S, NEW f \in Seats, Channels(R), R.outSeat[f] # <<>>, Popped(R, S, f),
         NEW s \in SeatType, NEW b \in Seq(AckType), NEW l, NEW cuts, NEW late1, Mail(R, f, s, b, l, h, cuts, late1),
         NEW t, Reads(s, Head(R.outSeat[f]), t, h)
  PROVE  t \in SeatType /\ Mail(S, f, t, b, l, h, cuts, late1)
<1>. PICK q : q = R.outSeat[f]
  OBVIOUS
<1>. PICK m : m = Head(q)
  OBVIOUS
<1>1. R.peers[f].conn # 0 /\ q \in Seq(SeatMessage) /\ q # <<>> /\ S.outSeat[f] = Tail(q)
  BY DEF Mail, Absent, Channels, Popped
<1>2. PICK g : Life(R, f, s, b, g, l, h, cuts, late1)
  BY <1>1 DEF Mail
<1>. PICK G : G = Tail(g)
  OBVIOUS
<1>. PICK a : a = g[1]
  OBVIOUS
<1>. PICK c : c = G[1]
  OBVIOUS
<1>3. Trace(q, g, h) /\ Stands(s, a, h, late1)
  BY <1>2 DEF Life
<1>4. StepsOn(q, g, m, a, c, G, h)
  BY <1>1, <1>3, TraceStepsOn
<1>5. Meets(s, a, m, c, h, late1) /\ Reads(s, m, t, h)
  BY <1>3, <1>4 DEF Meets, StepsOn
<1>6. Serves(s, a, t, c, h, late1)
  BY <1>5, ReadsServes
<1>7. a.stage = c.stage /\ Same(a, c) /\ Acked(s, a, h) => Acked(t, c, h)
  BY <1>5, ReadsAcked
<1>. PICK ra : ra = Rank(a)
  OBVIOUS
<1>. PICK rc : rc = Rank(c)
  OBVIOUS
<1>. PICK rf : rf = Rank(Final(g))
  OBVIOUS
<1>8. /\ ra \in Nat /\ rc \in Nat /\ rf \in Nat /\ ra <= rc /\ rc <= rf
      /\ ra = rc => a.stage = c.stage /\ Same(a, c)
  BY <1>4, RankIs DEF Precedes, StepsOn
<1>9. (\E i \in 1..Len(G) : G[i].stage = "Open") => Certified(t, c, h)
  <2>. SUFFICES ASSUME NEW i \in 1..Len(G), G[i].stage = "Open" PROVE Certified(t, c, h)
    OBVIOUS
  <2>1. i + 1 \in 1..Len(g) /\ g[i + 1].stage = "Open"
    BY <1>4 DEF StepsOn
  <2>2. Certified(s, a, h)
    BY <1>2, <2>1 DEF Life
  <2>3. 1 \in 1..Len(G) /\ 1 <= i /\ 1 \in 1..Len(g) /\ 1 <= i + 1
    BY <1>4, <2>1 DEF StepsOn
  <2>4. Precedes(c, G[i]) /\ Precedes(a, g[i + 1])
    <3>1. Trace(Tail(q), G, h)
      BY <1>4 DEF StepsOn
    <3>. QED  BY <1>3, <3>1, <2>1, <2>3 DEF Trace
  <2>5. a.stage \in {"New", "Open", "Ended"}
    BY <2>1, <2>4 DEF Precedes, Settled, Arrival
  <2>6. c.stage \in {"Open", "Ended"}
    <3>1. c = Arrival \/ c.stage \in {"Ended", "Open"}
      BY <2>4 DEF Precedes, Settled
    <3>2. c # Arrival
      BY <1>4, SMTT(30) DEF StepsOn, Moves, Binds, Plans, Begins, EndsAt, Carries, Catches, Results, Arrival
    <3>. QED  BY <3>1, <3>2
  <2>. QED  BY <1>6, <2>2, <2>5, <2>6 DEF Serves
<1>10. Answers(b, t, c, h)
  <2>. SUFFICES ASSUME NEW i \in 1..Len(b), b[i].status = "Converged"
                PROVE  AckRank(b[i]) <= rc /\ (AckRank(b[i]) = rc => Acked(t, c, h))
    BY DEF Answers
  <2>. PICK n : n = AckRank(b[i])
    OBVIOUS
  <2>1. n <= ra /\ (n = ra => Acked(s, a, h))
    BY <1>2 DEF Life, Answers
  <2>2. n \in Nat
    <3>1. b[i] \in AckType
      OBVIOUS
    <3>. QED  BY <3>1, AckRankIs
  <2>3. n <= rc /\ (n = rc => ra = rc /\ n = ra)
    BY <1>8, <2>1, <2>2, Between
  <2>. QED  BY <1>7, <1>8, <2>1, <2>3
<1>11. f \in S.acks => IsTarget(S, f) /\ rc = rf /\ Acked(t, c, h)
  <2>. SUFFICES ASSUME f \in S.acks PROVE IsTarget(S, f) /\ rc = rf /\ Acked(t, c, h)
    OBVIOUS
  <2>1. IsTarget(R, f) /\ ra = rf /\ Acked(s, a, h)
    BY <1>2 DEF Life, Popped
  <2>2. ra = rc /\ rc = rf
    <3>1. ra = rf => ra = rc /\ rc = rf
      BY <1>8, Between
    <3>. QED  BY <2>1, <3>1
  <2>. QED  BY <1>7, <1>8, <2>1, <2>2 DEF Popped, IsTarget
<1>12. Meant(S, f, Final(G), l, h, cuts)
  <2>1. Meant(R, f, Final(G), l, h, cuts)
    BY <1>2, <1>4 DEF Life, StepsOn
  <2>2. R.peers = S.peers /\ R.plan = S.plan /\ R.snap = S.snap /\ R.cont = S.cont /\ R.lastId = S.lastId
    BY DEF Popped
  <2>3. IsTarget(R, f) <=> IsTarget(S, f)
    BY <2>2 DEF IsTarget
  <2>. QED  BY <2>1, <2>2, <2>3 DEF Meant, Bound
<1>13. Life(S, f, t, b, G, l, h, cuts, late1)
  <2>1. Trace(S.outSeat[f], G, h) /\ Final(G) = Final(g)
    BY <1>1, <1>4 DEF StepsOn
  <2>. QED  BY <1>6, <1>9, <1>10, <1>11, <1>12, <2>1 DEF Life, Serves
<1>. QED  BY <1>1, <1>6, <1>13 DEF Mail, Serves, Popped

-----------------------------------------------------------------------------
(* The native world of a seat answers, or its deadline passes.             *)

\* A seat that has installed a snapshot and not yet answered.
LEMMA Installing ==
  ASSUME NEW s \in SeatType, NEW a \in Standing, NEW h, Sane(a, h), NEW late1, Stands(s, a, h, late1),
         s.plan # 0, s.native # NoSnap, ~s.finished
  PROVE  /\ a.stage = "Ended" /\ a.id # 0 /\ s.plan = a.id /\ s.phase = a.phase /\ ~s.quarantined
         /\ s.native = [cut |-> a.floor, sitOut |-> a.sitOut] /\ s.done = <<a.id, a.phase>> /\ s.floor = a.floor
<1>1. a.stage # "New"
  BY DEF Stands, NewSeat
<1>2. a.stage = "Ended"
  BY <1>1, StandingIs DEF Stands, Follow, Reading, Stages
<1>. QED  BY <1>2 DEF Stands, Follow, Reading, Sane

ReadsBack(s, h) ==
  \/ s.native.sitOut
  \/ s.image # 0 /\ ~(/\ ~(s.native.sitOut /\ h[s.image].val \in BossRows)
                      /\ \/ h[s.image].val # h[s.native.cut].val \/ h[s.image].epoch # h[s.native.cut].epoch)

LEMMA Observed ==
  ASSUME NEW h \in Seq(Entry), History(h), Copies(h), NEW s \in SeatType, NEW a \in Standing, Sane(a, h), NEW late1,
         Stands(s, a, h, late1), s.plan # 0, s.native # NoSnap, ~s.finished, ReadsBack(s, h)
  PROVE  Certified(s, a, h)
<1>. SUFFICES ASSUME ~a.sitOut PROVE Alike(h, s.image, At(h, a.top))
  BY DEF Certified
<1>1. /\ a.stage = "Ended" /\ a.id # 0 /\ s.plan = a.id /\ s.phase = a.phase /\ ~s.quarantined
      /\ s.native = [cut |-> a.floor, sitOut |-> a.sitOut] /\ s.done = <<a.id, a.phase>> /\ s.floor = a.floor
  BY Installing
<1>2. /\ a.floor # 0 /\ a.floor <= a.top /\ a.top \in Nat /\ a.floor \in Nat /\ a.top <= Len(h) /\ Len(h) \in Nat
      /\ a.phase = "Checkpoint" => Alike(h, a.top, a.floor)
      /\ s.image \in Nat /\ s.image <= a.top /\ (s.image = 0 \/ Update(h, s.image)) /\ a.phase \in Phases
  BY <1>1, SeatIs, StandingIs DEF Sane, Stands
<1>3. s.image # 0 /\ h[s.image].val = h[a.floor].val /\ h[s.image].epoch = h[a.floor].epoch
  <2>1. s.native.sitOut = a.sitOut /\ s.native.cut = a.floor
    BY <1>1
  <2>. QED  BY <2>1 DEF ReadsBack
<1>4. At(h, a.top) \in 1..a.top /\ Update(h, At(h, a.top)) /\ Gapless(h, At(h, a.top), a.top)
  BY <1>2, AtIs
<1>5. CASE a.phase = "Bootstrap"
  <2>1. s.done[2] = "Bootstrap"
    BY <1>1, <1>5
  <2>2. Shown(s, a, h)
    BY <1>1 DEF Stands
  <2>3. \A u \in s.image + 1..a.top : h[u].at # u
    BY <2>1, <2>2 DEF Shown
  <2>4. ~(s.image < At(h, a.top))
    BY <1>2, <1>4, <2>3 DEF Update
  <2>5. ~(At(h, a.top) < s.image)
    BY <1>2, <1>3, <1>4 DEF Update, Gapless
  <2>. QED  BY <1>2, <1>4, <2>4, <2>5 DEF Alike
<1>6. CASE a.phase = "Checkpoint"
  <2>1. h[At(h, a.top)] = h[a.top]
    <3>1. a.top \in 1..Len(h) /\ At(h, a.top) = h[a.top].at
      BY <1>2 DEF At
    <3>. QED  BY <3>1 DEF Copies
  <2>2. Alike(h, a.top, a.floor)
    BY <1>2, <1>6
  <2>. QED  BY <1>2, <1>3, <1>4, <2>1, <2>2 DEF Alike
<1>. QED  BY <1>2, <1>5, <1>6 DEF Phases

\* What a step of the seat's own makes of it.
Acts(s, t, m, h, late1) ==
  \/ /\ s.plan # 0 /\ s.native # NoSnap /\ ~s.finished /\ ReadsBack(s, h)
     /\ m = [t |-> "ack", id |-> s.plan, phase |-> s.phase, delivery |-> s.bound, status |-> "Converged",
             cut |-> s.native.cut]
     /\ t = [s EXCEPT !.finished = TRUE]
  \/ /\ s.plan # 0 /\ s.native # NoSnap /\ ~s.finished
     /\ m = [t |-> "ack", id |-> s.plan, phase |-> s.phase, delivery |-> s.bound, status |-> "Failed",
             cut |-> s.native.cut]
     /\ t = [s EXCEPT !.finished = TRUE, !.quarantined = TRUE]
  \/ /\ s.plan # 0 /\ s.plan \in late1
     /\ m = [t |-> "ack", id |-> s.plan, phase |-> s.phase, delivery |-> s.bound, status |-> "Failed", cut |-> 0]
     /\ t = Retire(s, TRUE)

\* The seat's record and its answer.
Replies(s, a, t, m, h, late1) ==
  /\ t \in SeatType /\ m \in AckType /\ Stands(t, a, h, late1)
  /\ Certified(s, a, h) => Certified(t, a, h)
  /\ Acked(s, a, h) => Acked(t, a, h)
  /\ m.status = "Converged" => AckRank(m) = Rank(a) /\ Acked(t, a, h)

LEMMA ActsReplies ==
  ASSUME NEW h \in Seq(Entry), History(h), Copies(h), NEW s \in SeatType, NEW a \in Standing, Sane(a, h), NEW late1,
         Stands(s, a, h, late1), NEW t, NEW m, Acts(s, t, m, h, late1)
  PROVE  Replies(s, a, t, m, h, late1)
<1>1. /\ DOMAIN s = {"bound", "plan", "phase", "lastPlan", "quarantined", "floor", "header", "done", "native", "finished", "image"}
      /\ s.plan \in Nat /\ s.phase \in Phases /\ s.bound \in Nat /\ s.native \in SnapType /\ s.native.cut \in Nat
      /\ s.bound = a.bound
  BY DEF SeatType, SnapType, Stands
<1>. DEFINE id == s.plan
            phase == s.phase
            delivery == s.bound
            cut == s.native.cut
<1>2. CASE /\ s.plan # 0 /\ s.native # NoSnap /\ ~s.finished /\ ReadsBack(s, h)
           /\ m = [t |-> "ack", id |-> id, phase |-> phase, delivery |-> delivery, status |-> "Converged", cut |-> cut]
           /\ t = [s EXCEPT !.finished = TRUE]
  <2>1. /\ a.stage = "Ended" /\ a.id # 0 /\ s.plan = a.id /\ s.phase = a.phase /\ ~s.quarantined
        /\ s.native = [cut |-> a.floor, sitOut |-> a.sitOut] /\ s.done = <<a.id, a.phase>> /\ s.floor = a.floor
    BY <1>2, Installing
  <2>2. Certified(s, a, h)
    BY <1>2, Observed
  <2>3. /\ t \in SeatType /\ t.image = s.image /\ t.bound = s.bound /\ t.plan = s.plan /\ t.phase = s.phase
        /\ t.lastPlan = s.lastPlan /\ t.quarantined = s.quarantined /\ t.floor = s.floor /\ t.header = s.header
        /\ t.done = s.done /\ t.native = s.native /\ t.finished = TRUE
    BY <1>2 DEF SeatType
  <2>4. Stands(t, a, h, late1)
    <3>1. Follow(t, a, late1) /\ Installed(t, a)
      BY <2>1, <2>3 DEF Stands, Follow, Installed, Reading
    <3>2. Shown(s, a, h) => Shown(t, a, h)
      BY <2>3 DEF Shown
    <3>. QED  BY <2>1, <2>3, <3>1, <3>2 DEF Stands
  <2>5. Certified(t, a, h) /\ Acked(t, a, h)
    BY <2>1, <2>2, <2>3 DEF Certified, Acked
  <2>. HIDE DEF id, phase, delivery, cut
  <2>6. m \in AckType /\ m.status = "Converged" /\ m.delivery = delivery /\ m.phase = phase
    BY <1>1, <1>2 DEF AckType, id, phase, delivery, cut
  <2>7. AckRank(m) = Rank(a)
    <3>1. Rank(a) = 10 * a.bound + (IF a.phase = "Bootstrap" THEN 3 ELSE 6)
      <4>1. a.phase \in Phases
        BY StandingIs
      <4>. QED  BY <2>1, <4>1 DEF Rank, Level, Reading, Phases
    <3>2. m.delivery = a.bound /\ m.phase = a.phase
      BY <1>1, <2>1, <2>6 DEF delivery, phase
    <3>. QED  BY <3>1, <3>2 DEF AckRank
  <2>. QED  BY <2>3, <2>4, <2>5, <2>6, <2>7 DEF Replies
<1>3. CASE /\ s.plan # 0 /\ s.native # NoSnap /\ ~s.finished
           /\ m = [t |-> "ack", id |-> id, phase |-> phase, delivery |-> delivery, status |-> "Failed", cut |-> cut]
           /\ t = [s EXCEPT !.finished = TRUE, !.quarantined = TRUE]
  <2>1. /\ a.stage = "Ended" /\ a.id # 0 /\ s.plan = a.id /\ s.phase = a.phase /\ ~s.quarantined
        /\ s.native = [cut |-> a.floor, sitOut |-> a.sitOut] /\ s.done = <<a.id, a.phase>> /\ s.floor = a.floor
    BY <1>3, Installing
  <2>3. /\ t \in SeatType /\ t.image = s.image /\ t.bound = s.bound /\ t.plan = s.plan /\ t.phase = s.phase
        /\ t.lastPlan = s.lastPlan /\ t.quarantined = TRUE /\ t.floor = s.floor /\ t.header = s.header
        /\ t.done = s.done /\ t.native = s.native /\ t.finished = TRUE
    BY <1>3 DEF SeatType
  <2>4. Stands(t, a, h, late1)
    <3>1. Follow(t, a, late1) /\ Installed(t, a)
      BY <2>1, <2>3 DEF Stands, Follow, Installed, Reading
    <3>. QED  BY <2>1, <2>3, <3>1 DEF Stands
  <2>5. Certified(t, a, h) /\ ~Acked(s, a, h)
    BY <1>3, <2>1, <2>3 DEF Certified, Acked
  <2>. HIDE DEF id, phase, delivery, cut
  <2>6. m \in AckType /\ m.status # "Converged"
    BY <1>1, <1>3 DEF AckType, id, phase, delivery, cut
  <2>. QED  BY <2>3, <2>4, <2>5, <2>6 DEF Replies
<1>4. CASE /\ s.plan # 0 /\ s.plan \in late1
           /\ m = [t |-> "ack", id |-> id, phase |-> phase, delivery |-> delivery, status |-> "Failed", cut |-> 0]
           /\ t = Retire(s, TRUE)
  <2>1. IsRetired(s, TRUE, Retire(s, TRUE))
    BY SeatRetired
  <2>2. /\ t \in SeatType /\ t.image = s.image /\ t.bound = s.bound /\ t.plan = 0
        /\ t.lastPlan = s.lastPlan /\ t.quarantined = TRUE /\ t.floor = s.floor /\ t.done = s.done
    BY <1>4, <2>1 DEF IsRetired
  <2>3. a.stage \in {"Planned", "Begun", "Ended"} /\ s.plan = a.id
    <3>1. a.stage # "New"
      BY <1>4 DEF Stands, NewSeat
    <3>. QED  BY <3>1, <1>4, StandingIs DEF Stands, Follow, Reading, Stages
  <2>4. Stands(t, a, h, late1)
    <3>1. Follow(t, a, late1) /\ Installed(t, a)
      BY <1>4, <2>2, <2>3 DEF Stands, Follow, Installed, Reading
    <3>. QED  BY <2>2, <2>3, <3>1 DEF Stands
  <2>5. Certified(t, a, h) /\ (Acked(s, a, h) => Acked(t, a, h))
    BY <2>2 DEF Certified, Acked
  <2>. HIDE DEF id, phase, delivery, cut
  <2>6. m \in AckType /\ m.status # "Converged"
    BY <1>1, <1>4 DEF AckType, id, phase, delivery
  <2>. QED  BY <2>2, <2>4, <2>5, <2>6 DEF Replies
<1>. QED  BY <1>2, <1>3, <1>4 DEF Acts

LEMMA ActMail ==
  ASSUME NEW h \in Seq(Entry), History(h), Copies(h), NEW R, NEW f \in Seats, Channels(R),
         NEW s \in SeatType, NEW b \in Seq(AckType), NEW l, NEW cuts, NEW late1, Mail(R, f, s, b, l, h, cuts, late1),
         NEW t, NEW m, Acts(s, t, m, h, late1)
  PROVE  t \in SeatType /\ m \in AckType /\ Mail(R, f, t, Append(b, m), l, h, cuts, late1)
<1>. DEFINE b2 == Append(b, m)
<1>1. R.peers[f].conn # 0
  <2>1. s.plan # 0
    BY DEF Acts
  <2>2. s # NewSeat
    BY <2>1 DEF NewSeat
  <2>. QED  BY <2>2 DEF Mail, Absent
<1>2. PICK g : Life(R, f, s, b, g, l, h, cuts, late1)
  BY <1>1 DEF Mail
<1>. DEFINE a == g[1]
<1>3. Trace(R.outSeat[f], g, h) /\ R.outSeat[f] \in Seq(SeatMessage) /\ Stands(s, a, h, late1)
  BY <1>2 DEF Life, Channels
<1>4. a \in Standing /\ Sane(a, h)
  BY <1>3, TraceTyped
<1>. HIDE DEF a
<1>5. Replies(s, a, t, m, h, late1)
  BY <1>3, <1>4, ActsReplies
<1>6. Answers(b2, t, a, h)
  <2>1. \A i \in 1..Len(b2) : (i \in 1..Len(b) /\ b2[i] = b[i]) \/ b2[i] = m
    BY <1>5 DEF Replies
  <2>2. Answers(b, s, a, h)
    BY <1>2 DEF Life, a
  <2>3. Rank(a) \in Nat
    BY <1>4, RankIs
  <2>. HIDE DEF b2
  <2>. QED  BY <1>5, <2>1, <2>2, <2>3 DEF Answers, Replies
<1>. HIDE DEF b2
<1>7. Life(R, f, t, b2, g, l, h, cuts, late1)
  BY <1>2, <1>5, <1>6 DEF Life, Replies, a
<1>. QED  BY <1>1, <1>5, <1>7 DEF Mail, Replies, b2


-----------------------------------------------------------------------------
(* The seats' actions.                                                     *)

\* Everyone but f is as before, f as t and b say.
Only(R, S, f, t, b2, s, s2, b, c2, h, cuts, late1) ==
  /\ \A g \in Seats \ {f} : Agree(R, S, g)
  /\ Mail(S, f, t, b2, R.last, h, cuts, late1)
  /\ s2 = [s EXCEPT ![f] = t]
  /\ \A g \in Seats : c2[g] = IF g = f THEN b2 ELSE b[g]

LEMMA OthersAlone ==
  ASSUME NEW R, NEW H, NEW q, NEW h, NEW s, NEW b, NEW cuts, NEW late1, World(R, H, q, h, s, b, cuts, late1),
         NEW S, NEW f, NEW t, NEW b2, NEW s2, NEW c2, Only(R, S, f, t, b2, s, s2, b, c2, h, cuts, late1)
  PROVE  Everyone(S, s2, c2, R.last, h, cuts, late1)
<1>. USE DEF Only
<1>1. /\ Relay(R) /\ Channels(R) /\ History(h) /\ Grows(h, h) /\ R.last <= Len(h) /\ R.last \in Nat
      /\ s \in [Seats -> SeatType]
      /\ \A g \in Seats : Mail(R, g, s[g], b[g], R.last, h, cuts, late1)
  BY WorldIs
<1>. SUFFICES ASSUME NEW g \in Seats PROVE Mail(S, g, s2[g], c2[g], R.last, h, cuts, late1)
  BY DEF Everyone
<1>2. s2[g] = IF g = f THEN t ELSE s[g]
  BY <1>1
<1>3. CASE g = f
  BY <1>2, <1>3
<1>4. CASE g # f
  <2>1. Agree(R, S, g) /\ Mail(R, g, s[g], b[g], R.last, h, cuts, late1) /\ s[g] \in SeatType
        /\ R.outSeat[g] \in Seq(SeatMessage)
    BY <1>1, <1>4 DEF Channels
  <2>. PICK l : l = R.last
    OBVIOUS
  <2>. PICK x : x = s[g]
    OBVIOUS
  <2>. PICK y : y = b[g]
    OBVIOUS
  <2>2. l \in Nat /\ l <= Len(h) /\ x \in SeatType /\ Mail(R, g, x, y, l, h, cuts, late1)
    BY <1>1, <2>1
  <2>3. Mail(S, g, x, y, l, h, cuts, late1)
    BY <1>1, <2>1, <2>2, MailGrows
  <2>. QED  BY <1>2, <1>4, <2>3
<1>. QED  BY <1>3, <1>4

LEMMA SeatReadsWhole ==
  ASSUME SInv, NEW f \in Seats, NEW type, SeatReceives(f, type), UNCHANGED fromSeat,
         NEW t, seat' = [seat EXCEPT ![f] = t], Reads(seat[f], Head(relay.outSeat[f]), t, hist)
  PROVE  SInv'
<1>. DEFINE S == relay'
            outSeat == [relay.outSeat EXCEPT ![f] = Tail(relay.outSeat[f])]
            cuts == Cuts(relay, host, toRelay)
            cuts2 == Cuts(S, host, toRelay)
<1>1. World(relay, host, toRelay, hist, seat, fromSeat, cuts, late.relay) /\ IInv
      /\ fromSeat \in [Seats -> Seq(AckType)]
  BY SInvIs DEF Whole
<1>. HIDE DEF cuts, cuts2
<1>2. IInv'
  BY <1>1, SeatReceivesGood
<1>3. /\ Relay(relay) /\ DOMAIN relay = RelayFields /\ Channels(relay) /\ History(hist) /\ hist \in Seq(Entry)
      /\ relay.last = 0 => relay.cache = 0
      /\ relay.lastId \in Nat /\ NoNews(relay, hist, relay.last)
      /\ \A g \in relay.acks : g \in Seats /\ relay.snap # NoSnap
      /\ seat \in [Seats -> SeatType]
      /\ \A g \in Seats : Mail(relay, g, seat[g], fromSeat[g], relay.last, hist, cuts, late.relay)
  BY <1>1, WorldIs
<1>4. UNCHANGED <<hist, host, toRelay, fromSeat, late>> /\ relay.outSeat[f] # <<>>
  BY DEF SeatReceives
<1>5. /\ S.plan = relay.plan /\ S.snap = relay.snap /\ S.changed = relay.changed /\ S.cont = relay.cont
      /\ S.peers = relay.peers /\ S.floor = relay.floor /\ S.last = relay.last /\ S.cache = relay.cache
      /\ S.lastId = relay.lastId /\ S.acks = relay.acks /\ S.outcome = relay.outcome /\ S.outSeat = outSeat
  <2>1. S = [relay EXCEPT !.outSeat = outSeat]
    BY DEF SeatReceives
  <2>. HIDE DEF outSeat
  <2>. QED  BY <1>3, <2>1 DEF RelayFields
<1>6. relay.outSeat \in [Seats -> Seq(SeatMessage)] /\ relay.outSeat[f] \in Seq(SeatMessage)
  BY <1>3 DEF Channels
<1>7. Channels(S) /\ Popped(relay, S, f) /\ \A g \in Seats \ {f} : Agree(relay, S, g)
  <2>1. Tail(relay.outSeat[f]) \in Seq(SeatMessage)
    BY <1>4, <1>6
  <2>2. S.outSeat \in [Seats -> Seq(SeatMessage)] /\ \A g \in Seats \ {f} : S.outSeat[g] = relay.outSeat[g]
    BY <1>5, <1>6, <2>1
  <2>3. Popped(relay, S, f)
    BY <1>5 DEF Popped
  <2>4. \A g \in Seats \ {f} : Agree(relay, S, g)
    <3>. HIDE DEF S, outSeat
    <3>. QED  BY <1>3, <1>5, <2>2 DEF Agree
  <2>. QED  BY <2>2, <2>3, <2>4 DEF Channels
<1>. HIDE DEF S, outSeat
<1>8. t \in SeatType /\ Mail(S, f, t, fromSeat[f], relay.last, hist, cuts, late.relay)
  <2>. PICK R : R = relay
    OBVIOUS
  <2>. PICK s : s = seat[f]
    OBVIOUS
  <2>. PICK b : b = fromSeat[f]
    OBVIOUS
  <2>. PICK l : l = relay.last
    OBVIOUS
  <2>. PICK late1 : late1 = late.relay
    OBVIOUS
  <2>1. /\ hist \in Seq(Entry) /\ History(hist) /\ Channels(R) /\ R.outSeat[f] # <<>> /\ Popped(R, S, f)
        /\ s \in SeatType /\ b \in Seq(AckType) /\ Mail(R, f, s, b, l, hist, cuts, late1)
        /\ Reads(s, Head(R.outSeat[f]), t, hist)
    BY <1>1, <1>3, <1>4, <1>7
  <2>2. t \in SeatType /\ Mail(S, f, t, b, l, hist, cuts, late1)
    BY <2>1, ReadMail
  <2>. QED  BY <2>2
<1>9. Everyone(S, seat', fromSeat, relay.last, hist, cuts, late.relay)
  <2>. PICK b : b = fromSeat[f]
    OBVIOUS
  <2>1. Mail(S, f, t, b, relay.last, hist, cuts, late.relay)
    BY <1>8
  <2>2. \A g \in Seats : fromSeat[g] = IF g = f THEN b ELSE fromSeat[g]
    OBVIOUS
  <2>3. seat' = [seat EXCEPT ![f] = t]
    OBVIOUS
  <2>4. Only(relay, S, f, t, b, seat, seat', fromSeat, fromSeat, hist, cuts, late.relay)
    BY <1>7, <2>1, <2>2, <2>3 DEF Only
  <2>. QED  BY <1>1, <2>4, OthersAlone
<1>10. cuts2 = cuts
  BY <1>5, CutsUnmoved DEF cuts, cuts2, S
<1>11. Keeps(S, S, hist)
  BY <1>3, <1>5, <1>7 DEF Keeps, NoNews
<1>12. (seat \in [Seats -> SeatType])' /\ (fromSeat \in [Seats -> Seq(AckType)])'
  BY <1>1, <1>3, <1>4, <1>8
<1>13. Everyone(relay', seat', fromSeat', relay'.last, hist, Cuts(relay', host, toRelay), late.relay)
  BY <1>4, <1>5, <1>9, <1>10 DEF S, cuts2
<1>. QED  BY <1>2, <1>4, <1>5, <1>11, <1>12, <1>13, AloneOn DEF S

LEMMA SeatActsWhole ==
  ASSUME SInv, NEW f \in Seats, UNCHANGED <<hist, host, toRelay, relay, late>>, NEW t, NEW m,
         seat' = [seat EXCEPT ![f] = t], fromSeat' = [fromSeat EXCEPT ![f] = Append(fromSeat[f], m)],
         Acts(seat[f], t, m, hist, late.relay)
  PROVE  SInv'
<1>. DEFINE cuts == Cuts(relay, host, toRelay)
            b2 == Append(fromSeat[f], m)
<1>1. World(relay, host, toRelay, hist, seat, fromSeat, cuts, late.relay) /\ IInv
      /\ fromSeat \in [Seats -> Seq(AckType)]
  BY SInvIs DEF Whole
<1>. HIDE DEF cuts
<1>2. IInv'
  BY <1>1 DEF IInv
<1>3. /\ Relay(relay) /\ DOMAIN relay = RelayFields /\ Channels(relay) /\ History(hist) /\ hist \in Seq(Entry)
      /\ relay.last = 0 => relay.cache = 0
      /\ relay.lastId \in Nat /\ NoNews(relay, hist, relay.last) /\ Copies(hist)
      /\ \A g \in relay.acks : g \in Seats /\ relay.snap # NoSnap
      /\ seat \in [Seats -> SeatType]
      /\ \A g \in Seats : Mail(relay, g, seat[g], fromSeat[g], relay.last, hist, cuts, late.relay)
  BY <1>1, WorldIs
<1>4. t \in SeatType /\ m \in AckType /\ Mail(relay, f, t, b2, relay.last, hist, cuts, late.relay)
  <2>. PICK R : R = relay
    OBVIOUS
  <2>. PICK s : s = seat[f]
    OBVIOUS
  <2>. PICK b : b = fromSeat[f]
    OBVIOUS
  <2>. PICK l : l = relay.last
    OBVIOUS
  <2>. PICK late1 : late1 = late.relay
    OBVIOUS
  <2>1. /\ hist \in Seq(Entry) /\ History(hist) /\ Copies(hist) /\ Channels(R) /\ f \in Seats
        /\ s \in SeatType /\ b \in Seq(AckType) /\ Mail(R, f, s, b, l, hist, cuts, late1)
        /\ Acts(s, t, m, hist, late1)
    BY <1>1, <1>3
  <2>2. t \in SeatType /\ m \in AckType /\ Mail(R, f, t, Append(b, m), l, hist, cuts, late1)
    BY <2>1, ActMail
  <2>. QED  BY <2>2
<1>5. /\ \A g \in Seats : fromSeat'[g] = IF g = f THEN b2 ELSE fromSeat[g]
      /\ \A g \in Seats \ {f} : Agree(relay, relay, g)
  BY <1>1, <1>3 DEF Agree
<1>6. b2 \in Seq(AckType)
  BY <1>1, <1>4
<1>. HIDE DEF b2
<1>7. Everyone(relay, seat', fromSeat', relay.last, hist, cuts, late.relay)
  <2>. PICK c2 : c2 = fromSeat'
    OBVIOUS
  <2>1. \A g \in Seats : c2[g] = IF g = f THEN b2 ELSE fromSeat[g]
    BY <1>5
  <2>. PICK S : S = relay
    OBVIOUS
  <2>2. Mail(S, f, t, b2, relay.last, hist, cuts, late.relay) /\ \A g \in Seats \ {f} : Agree(relay, S, g)
    BY <1>4, <1>5
  <2>3. Only(relay, S, f, t, b2, seat, seat', fromSeat, c2, hist, cuts, late.relay)
    BY <2>1, <2>2 DEF Only
  <2>4. Everyone(S, seat', c2, relay.last, hist, cuts, late.relay)
    BY <1>1, <2>3, OthersAlone
  <2>. QED  BY <2>4
<1>8. Keeps(relay, relay, hist)
  BY <1>3 DEF Keeps
<1>9. (seat \in [Seats -> SeatType])' /\ (fromSeat \in [Seats -> Seq(AckType)])'
  BY <1>1, <1>3, <1>4, <1>6 DEF b2
<1>10. Everyone(relay', seat', fromSeat', relay'.last, hist, Cuts(relay', host, toRelay), late.relay)
  BY <1>7 DEF cuts
<1>. QED  BY <1>2, <1>8, <1>9, <1>10, AloneOn


LEMMA SeatRecord ==
  ASSUME SInv, NEW f \in Seats
  PROVE  seat[f] \in SeatType /\ seat \in [Seats -> SeatType] /\ fromSeat \in [Seats -> Seq(AckType)]
         /\ DOMAIN seat[f] = {"bound", "plan", "phase", "lastPlan", "quarantined", "floor", "header", "done", "native",
                              "finished", "image"}
<1>1. seat \in [Seats -> SeatType] /\ fromSeat \in [Seats -> Seq(AckType)]
  BY DEF SInv, SeatsTyped
<1>2. seat[f] \in SeatType
  BY <1>1
<1>. QED  BY <1>1, <1>2 DEF SeatType

SeatReading(f) ==
  /\ \E type : SeatReceives(f, type)
  /\ UNCHANGED fromSeat
  /\ \E t : seat' = [seat EXCEPT ![f] = t] /\ Reads(seat[f], Head(relay.outSeat[f]), t, hist)

SeatActing(f) ==
  /\ UNCHANGED <<hist, host, toRelay, relay, late>>
  /\ \E t, m : /\ seat' = [seat EXCEPT ![f] = t] /\ fromSeat' = [fromSeat EXCEPT ![f] = Append(fromSeat[f], m)]
              /\ Acts(seat[f], t, m, hist, late.relay)

LEMMA SeatBindingReads ==
  ASSUME SInv, NEW f \in Seats, SeatBinding(f)
  PROVE  SeatReading(f)
<1>. DEFINE m == Head(relay.outSeat[f])
            t == Bound1(seat[f], m)
<1>1. SeatReceives(f, "binding") /\ UNCHANGED fromSeat /\ m.t = "binding"
  BY DEF SeatBinding, SeatReceives
<1>2. seat' = [seat EXCEPT ![f] = t]
  <2>. PICK d : d = m.delivery
    OBVIOUS
  <2>1. seat \in [Seats -> SeatType]
    BY SeatRecord
  <2>2. seat' = IF d < seat[f].bound THEN seat
                ELSE [seat EXCEPT ![f].bound = d, ![f].quarantined = @ \/ (d # seat[f].bound /\ d > 1)]
    BY DEF SeatBinding
  <2>3. t = IF d < seat[f].bound THEN seat[f]
            ELSE [seat[f] EXCEPT !.bound = d, !.quarantined = seat[f].quarantined \/ (d # seat[f].bound /\ d > 1)]
    BY DEF Bound1, BindTo
  <2>. HIDE DEF m, t
  <2>. QED  BY <2>1, <2>2, <2>3
<1>. HIDE DEF t
<1>3. Reads(seat[f], m, t, hist)
  BY <1>1 DEF Reads, t
<1>. QED  BY <1>1, <1>2, <1>3 DEF SeatReading

LEMMA SeatPlanReads ==
  ASSUME SInv, NEW f \in Seats, SeatPlan(f)
  PROVE  SeatReading(f)
<1>. DEFINE m == Head(relay.outSeat[f])
            t == Planned1(seat[f], m)
<1>. HIDE DEF m, t
<1>1. SeatReceives(f, "plan") /\ UNCHANGED fromSeat /\ m.t = "plan"
  <2>1. SeatReceives(f, "plan") /\ UNCHANGED fromSeat
    BY Zenon DEF SeatPlan
  <2>. QED  BY <2>1 DEF SeatReceives, m
<1>2. seat' = [seat EXCEPT ![f] = t]
  <2>. PICK n : n = m
    OBVIOUS
  <2>1. seat \in [Seats -> SeatType]
    BY SeatRecord
  <2>2. seat' = IF Ignores(seat[f], n) THEN seat
                ELSE [seat EXCEPT ![f].plan = n.id, ![f].phase = n.phase, ![f].lastPlan = n.id,
                                  ![f].header = 0, ![f].quarantined = TRUE,
                                  ![f].native = NoSnap, ![f].finished = FALSE]
    BY Zenon DEF SeatPlan, Ignores, m
  <2>3. t = IF Ignores(seat[f], n) THEN seat[f]
            ELSE [seat[f] EXCEPT !.plan = n.id, !.phase = n.phase, !.lastPlan = n.id, !.header = 0, !.quarantined = TRUE,
                                 !.native = NoSnap, !.finished = FALSE]
    BY DEF Planned1, TakeUp, t
  <2>4. CASE Ignores(seat[f], n)
    BY <2>1, <2>2, <2>3, <2>4
  <2>5. CASE ~Ignores(seat[f], n)
    <3>. PICK nothing : nothing = NoSnap
      OBVIOUS
    <3>1. seat' = [seat EXCEPT ![f].plan = n.id, ![f].phase = n.phase, ![f].lastPlan = n.id,
                               ![f].header = 0, ![f].quarantined = TRUE,
                               ![f].native = nothing, ![f].finished = FALSE]
      BY <2>2, <2>5
    <3>2. t = [seat[f] EXCEPT !.plan = n.id, !.phase = n.phase, !.lastPlan = n.id, !.header = 0, !.quarantined = TRUE,
                              !.native = nothing, !.finished = FALSE]
      BY <2>3, <2>5
    <3>. QED  BY <2>1, <3>1, <3>2
  <2>. QED  BY <2>4, <2>5
<1>. HIDE DEF t
<1>3. Reads(seat[f], m, t, hist)
  BY <1>1 DEF Reads, t
<1>4. Reads(seat[f], Head(relay.outSeat[f]), t, hist)
  BY <1>3 DEF m
<1>. QED  BY <1>1, <1>2, <1>4 DEF SeatReading

LEMMA SeatBeginReads ==
  ASSUME SInv, NEW f \in Seats, SeatBegin(f)
  PROVE  SeatReading(f)
<1>. DEFINE m == Head(relay.outSeat[f])
            t == Begun1(seat[f], m)
<1>1. SeatReceives(f, "begin") /\ UNCHANGED fromSeat /\ m.t = "begin"
  BY DEF SeatBegin, SeatReceives
<1>2. seat' = [seat EXCEPT ![f] = t]
  <2>. PICK n : n = m
    OBVIOUS
  <2>1. seat \in [Seats -> SeatType]
    BY SeatRecord
  <2>2. seat' = IF Expects(seat[f], n) THEN [seat EXCEPT ![f].header = n.cut] ELSE seat
    BY DEF SeatBegin, Expected, Expects
  <2>3. t = IF Expects(seat[f], n) THEN [seat[f] EXCEPT !.header = n.cut] ELSE seat[f]
    BY DEF Begun1
  <2>. HIDE DEF m, t
  <2>. QED  BY <2>1, <2>2, <2>3
<1>. HIDE DEF t
<1>3. Reads(seat[f], m, t, hist)
  BY <1>1 DEF Reads, t
<1>. QED  BY <1>1, <1>2, <1>3 DEF SeatReading

LEMMA SeatEndReads ==
  ASSUME SInv, NEW f \in Seats, SeatEnd(f)
  PROVE  SeatReading(f)
<1>. DEFINE m == Head(relay.outSeat[f])
            t == Ended1(seat[f], m, hist)
<1>1. SeatReceives(f, "end") /\ UNCHANGED fromSeat /\ m.t = "end"
  BY DEF SeatEnd, SeatReceives
<1>2. seat' = [seat EXCEPT ![f] = t]
  <2>. PICK n : n = m
    OBVIOUS
  <2>. PICK native : native = [cut |-> n.cut, sitOut |-> n.sitOut]
    OBVIOUS
  <2>. PICK image : image = IF Restores(n) THEN hist[n.cut].at ELSE seat[f].image
    OBVIOUS
  <2>1. seat \in [Seats -> SeatType]
    BY SeatRecord
  <2>2. seat' = IF ~Expects(seat[f], n) \/ seat[f].header # n.cut THEN seat
                ELSE [seat EXCEPT ![f].floor = n.cut, ![f].quarantined = FALSE,
                            ![f].done = <<n.id, n.phase>>, ![f].header = 0,
                            ![f].native = native, ![f].image = image]
    BY DEF SeatEnd, Expected, Expects
  <2>3. t = IF ~Expects(seat[f], n) \/ seat[f].header # n.cut THEN seat[f]
            ELSE [seat[f] EXCEPT !.floor = n.cut, !.quarantined = FALSE, !.done = <<n.id, n.phase>>, !.header = 0,
                                 !.native = native, !.image = image]
    BY DEF Ended1
  <2>. HIDE DEF m, t
  <2>. QED  BY <2>1, <2>2, <2>3
<1>. HIDE DEF t
<1>3. Reads(seat[f], m, t, hist)
  BY <1>1 DEF Reads, t
<1>. QED  BY <1>1, <1>2, <1>3 DEF SeatReading

LEMMA SeatEnvelopeReads ==
  ASSUME SInv, NEW f \in Seats, SeatEnvelope(f)
  PROVE  SeatReading(f)
<1>. DEFINE m == Head(relay.outSeat[f])
            t == Shown1(seat[f], m, m.n)
<1>1. SeatReceives(f, "env") /\ UNCHANGED fromSeat /\ m.t = "env"
  BY DEF SeatEnvelope, SeatReceives
<1>2. seat' = [seat EXCEPT ![f] = t]
  <2>. PICK n : n = m
    OBVIOUS
  <2>1. seat \in [Seats -> SeatType]
    BY SeatRecord
  <2>2. seat' = IF Takes(seat[f], n) THEN [seat EXCEPT ![f].image = n.n] ELSE seat
    BY DEF SeatEnvelope, Admits, Takes
  <2>3. t = IF Takes(seat[f], n) THEN [seat[f] EXCEPT !.image = n.n] ELSE seat[f]
    BY DEF Shown1
  <2>. HIDE DEF m, t
  <2>. QED  BY <2>1, <2>2, <2>3
<1>. HIDE DEF t
<1>3. Reads(seat[f], m, t, hist)
  BY <1>1 DEF Reads, t
<1>. QED  BY <1>1, <1>2, <1>3 DEF SeatReading

LEMMA SeatCachedReads ==
  ASSUME SInv, NEW f \in Seats, SeatCached(f)
  PROVE  SeatReading(f)
<1>. DEFINE m == Head(relay.outSeat[f])
            t == Shown1(seat[f], m, m.image)
<1>1. SeatReceives(f, "cached") /\ UNCHANGED fromSeat /\ m.t = "cached"
  BY DEF SeatCached, SeatReceives
<1>2. seat' = [seat EXCEPT ![f] = t]
  <2>. PICK n : n = m
    OBVIOUS
  <2>1. seat \in [Seats -> SeatType]
    BY SeatRecord
  <2>2. seat' = IF Takes(seat[f], n) THEN [seat EXCEPT ![f].image = n.image] ELSE seat
    BY DEF SeatCached, Admits, Takes
  <2>3. t = IF Takes(seat[f], n) THEN [seat[f] EXCEPT !.image = n.image] ELSE seat[f]
    BY DEF Shown1
  <2>. HIDE DEF m, t
  <2>. QED  BY <2>1, <2>2, <2>3
<1>. HIDE DEF t
<1>3. Reads(seat[f], m, t, hist)
  BY <1>1 DEF Reads, t
<1>. QED  BY <1>1, <1>2, <1>3 DEF SeatReading

LEMMA SeatResultReads ==
  ASSUME SInv, NEW f \in Seats, SeatResult(f)
  PROVE  SeatReading(f)
<1>. DEFINE m == Head(relay.outSeat[f])
            t == Result1(seat[f], m)
<1>1. SeatReceives(f, "result") /\ UNCHANGED fromSeat /\ m.t = "result"
  BY DEF SeatResult, SeatReceives
<1>2. seat' = [seat EXCEPT ![f] = t]
  <2>. PICK n : n = m
    OBVIOUS
  <2>1. seat \in [Seats -> SeatType]
    BY SeatRecord
  <2>2. seat' = IF n.id # seat[f].plan THEN seat
                ELSE [seat EXCEPT ![f].plan = 0, ![f].header = 0, ![f].native = NoSnap, ![f].finished = FALSE,
                                  ![f].quarantined = @ \/ n.reason # "Converged"]
    BY DEF SeatResult
  <2>3. t = IF n.id # seat[f].plan THEN seat[f]
            ELSE [seat[f] EXCEPT !.plan = 0, !.header = 0, !.native = NoSnap, !.finished = FALSE,
                                 !.quarantined = seat[f].quarantined \/ n.reason # "Converged"]
    BY DEF Result1
  <2>. HIDE DEF m, t
  <2>. QED  BY <2>1, <2>2, <2>3
<1>. HIDE DEF t
<1>3. Reads(seat[f], m, t, hist)
  BY <1>1 DEF Reads, t
<1>. QED  BY <1>1, <1>2, <1>3 DEF SeatReading

LEMMA SeatConvergesActs ==
  ASSUME SInv, NEW f \in Seats, SeatConverges(f)
  PROVE  SeatActing(f)
<1>. DEFINE t == [seat[f] EXCEPT !.finished = TRUE]
            m == Ack(f, "Converged", seat[f].native.cut)
<1>1. /\ UNCHANGED <<hist, host, toRelay, relay, late>>
      /\ fromSeat' = [fromSeat EXCEPT ![f] = Append(fromSeat[f], m)]
  BY DEF SeatConverges
<1>2. seat' = [seat EXCEPT ![f] = t]
  BY SeatRecord DEF SeatConverges
<1>. HIDE DEF t, m
<1>3. ReadsBack(seat[f], hist)
  BY DEF SeatConverges, Restored, ReadsBack, Differs
<1>4. Acts(seat[f], t, m, hist, late.relay)
  BY <1>3 DEF SeatConverges, Acts, t, m, Ack
<1>. QED  BY <1>1, <1>2, <1>4 DEF SeatActing

LEMMA SeatFailsActs ==
  ASSUME SInv, NEW f \in Seats, SeatFails(f)
  PROVE  SeatActing(f)
<1>. DEFINE t == [seat[f] EXCEPT !.finished = TRUE, !.quarantined = TRUE]
            m == Ack(f, "Failed", seat[f].native.cut)
<1>1. /\ UNCHANGED <<hist, host, toRelay, relay, late>>
      /\ fromSeat' = [fromSeat EXCEPT ![f] = Append(fromSeat[f], m)]
  BY DEF SeatFails
<1>2. seat' = [seat EXCEPT ![f] = t]
  BY SeatRecord DEF SeatFails
<1>. HIDE DEF t, m
<1>4. Acts(seat[f], t, m, hist, late.relay)
  BY DEF SeatFails, Acts, t, m, Ack
<1>. QED  BY <1>1, <1>2, <1>4 DEF SeatActing

LEMMA SeatDeadlineActs ==
  ASSUME SInv, NEW f \in Seats, SeatDeadline(f)
  PROVE  SeatActing(f)
<1>. DEFINE t == Retire(seat[f], TRUE)
            m == Ack(f, "Failed", 0)
<1>1. /\ UNCHANGED <<hist, host, toRelay, relay, late>>
      /\ fromSeat' = [fromSeat EXCEPT ![f] = Append(fromSeat[f], m)]
  BY DEF SeatDeadline
<1>2. seat' = [seat EXCEPT ![f] = t]
  BY SeatRecord DEF SeatDeadline, Retire
<1>. HIDE DEF t, m
<1>4. Acts(seat[f], t, m, hist, late.relay)
  BY DEF SeatDeadline, Acts, t, m, Ack
<1>. QED  BY <1>1, <1>2, <1>4 DEF SeatActing

LEMMA SeatDoes ==
  ASSUME SInv, SeatNext
  PROVE  \E f \in Seats : SeatReading(f) \/ SeatActing(f)
<1>1. PICK f \in Seats :
        \/ SeatBinding(f) \/ SeatPlan(f) \/ SeatBegin(f) \/ SeatEnd(f) \/ SeatEnvelope(f)
        \/ SeatCached(f) \/ SeatResult(f)
        \/ SeatConverges(f) \/ SeatFails(f) \/ SeatDeadline(f)
  BY DEF SeatNext
<1>2. SeatReading(f) \/ SeatActing(f)
  BY <1>1, SeatBindingReads, SeatPlanReads, SeatBeginReads, SeatEndReads, SeatEnvelopeReads, SeatCachedReads,
     SeatResultReads, SeatConvergesActs, SeatFailsActs, SeatDeadlineActs
<1>. QED  BY <1>2

LEMMA SeatNextWhole ==
  ASSUME SInv, SeatNext
  PROVE  SInv'
<1>1. PICK f \in Seats : SeatReading(f) \/ SeatActing(f)
  BY SeatDoes
<1>2. CASE SeatReading(f)
  <2>1. PICK type : SeatReceives(f, type)
    BY <1>2 DEF SeatReading
  <2>2. PICK t : seat' = [seat EXCEPT ![f] = t] /\ Reads(seat[f], Head(relay.outSeat[f]), t, hist)
    BY <1>2 DEF SeatReading
  <2>. QED  BY <1>2, <2>1, <2>2, SeatReadsWhole DEF SeatReading
<1>3. CASE SeatActing(f)
  <2>1. PICK t, m : /\ seat' = [seat EXCEPT ![f] = t] /\ fromSeat' = [fromSeat EXCEPT ![f] = Append(fromSeat[f], m)]
                    /\ Acts(seat[f], t, m, hist, late.relay)
    BY <1>3 DEF SeatActing
  <2>. QED  BY <1>3, <2>1, SeatActsWhole DEF SeatActing
<1>. QED  BY <1>1, <1>2, <1>3


-----------------------------------------------------------------------------
(* The invariant.                                                          *)

SeatsInv == SInv /\ DOMAIN late = {"host", "relay"}

LEMMA SeatsInit == Init => SeatsInv
<1>. SUFFICES ASSUME Init PROVE SeatsInv
  OBVIOUS
<1>1. IInv
  BY InitGood
<1>2. NewSeat \in SeatType
  BY NothingTyped DEF NewSeat, SeatType, Phases
<1>3. SeatsTyped
  <2>1. seat = [f \in Seats |-> NewSeat] /\ fromSeat = [f \in Seats |-> <<>>] /\ relay.outSeat = [f \in Seats |-> <<>>]
    BY DEF Init
  <2>. QED  BY <1>2, <2>1 DEF SeatsTyped
<1>4. /\ relay.snap = NoSnap /\ relay.floor = 0 /\ relay.last = 0 /\ relay.cache = 0 /\ relay.acks = {}
      /\ relay.plan = NoPlan /\ relay.peers = [f \in Seats |-> NoPeer]
  BY DEF Init
<1>5. host.staged = NoSnap
  BY DEF Init
<1>6. /\ Len(hist) = 1 /\ hist[1].at = 1
  BY DEF Init
<1>7. Len(toRelay) = 1 /\ toRelay[1].t = "env"
  BY DEF Init
<1>8. Extra(relay, host, toRelay, hist, relay.last)
  <2>1. Copies(hist)
    BY <1>6 DEF Copies
  <2>2. AboveFloor(relay, host, toRelay)
    BY <1>5, <1>7 DEF AboveFloor
  <2>3. \A i \in 1..Len(toRelay) : toRelay[i].t # "failure"
    BY <1>7
  <2>. QED  BY <1>4, <2>1, <2>2, <2>3 DEF Extra, NoNews
<1>9. ASSUME NEW f \in Seats
      PROVE  Mail(relay, f, seat[f], fromSeat[f], relay.last, hist, Cuts(relay, host, toRelay), late.relay)
  <2>1. relay.peers[f] = NoPeer /\ relay.outSeat[f] = <<>> /\ seat[f] = NewSeat /\ fromSeat[f] = <<>>
    BY <1>9 DEF Init
  <2>2. NoPeer.conn = 0
    BY DEF NoPeer
  <2>3. ~IsTarget(relay, f)
    BY <1>4 DEF IsTarget, NoPlan, NoTargets, NoTarget
  <2>. QED  BY <1>4, <2>1, <2>2, <2>3 DEF Mail, Absent
<1>10. DOMAIN late = {"host", "relay"}
  BY DEF Init
<1>. QED  BY <1>1, <1>3, <1>8, <1>9, <1>10 DEF SInv, SeatsInv

LEMMA HostNextWhole ==
  ASSUME SInv, HostNext
  PROVE  SInv'
<1>1. ASSUME NEW v \in Values, NEW e \in 1..MaxEpoch, HostUpdate(v, e)
      PROVE  SInv'
  BY <1>1, HostUpdateWhole
<1>2. ASSUME NEW mask \in SUBSET Seats, HostRequest(mask)
      PROVE  SInv'
  BY <1>2, HostQuietWhole
<1>3. ASSUME NEW sitOut \in BOOLEAN, HostCapture(sitOut)
      PROVE  SInv'
  BY <1>3, HostCaptureWhole
<1>4. CASE HostCaptureFails \/ HostDeadline
  <2>1. {} \in SUBSET Seats
    OBVIOUS
  <2>. QED  BY <1>4, <2>1, HostQuietWhole
<1>. QED  BY <1>1, <1>2, <1>3, <1>4, HostPublishWhole, HostReadsWhole DEF HostNext

LEMMA RelayNextWhole ==
  ASSUME SInv, RelayNext
  PROVE  SInv'
<1>1. ASSUME NEW f \in Seats, RelayAck(f) \/ Join(f) \/ Leave(f)
      PROVE  SInv'
  BY <1>1, RelayAckWhole, JoinWhole, LeaveWhole
<1>. QED  BY <1>1, RelayEnvelopeWhole, RelayRequestWhole, RelayBeginWhole, RelayEndWhole,
             RelayFailureWhole, RelayDeadlineWhole DEF RelayNext

\* The transactions whose deadline has passed.
LEMMA LateNext ==
  ASSUME DOMAIN late = {"host", "relay"}, [Next]_vars
  PROVE  DOMAIN late' = {"host", "relay"} /\ late.relay \subseteq late'.relay
<1>1. CASE ClockNext
  <2>1. PICK id \in Requests : HostClock(id) \/ RelayClock(id)
    BY <1>1 DEF ClockNext
  <2>. QED  BY <2>1 DEF HostClock, RelayClock
<1>2. CASE UNCHANGED vars
  BY <1>2 DEF vars
<1>3. CASE HostNext
  <2>1. UNCHANGED late
    BY <1>3, Zenon DEF HostNext, HostUpdate, HostRequest, HostCapture, HostPublish, HostCaptureFails, HostDeadline,
                HostRoster, HostPlan, HostResult, HostReceives
  <2>. QED  BY <2>1
<1>4. CASE RelayNext
  <2>1. UNCHANGED late
    BY <1>4, Zenon DEF RelayNext, RelayEnvelope, RelayRequest, RelayBegin, RelayEnd, RelayFailure, RelayDeadline,
                RelayAck, Join, Leave, RelayReceives
  <2>. QED  BY <2>1
<1>5. CASE SeatNext
  <2>1. PICK f \in Seats :
          \/ SeatBinding(f) \/ SeatPlan(f) \/ SeatBegin(f) \/ SeatEnd(f) \/ SeatEnvelope(f)
          \/ SeatCached(f) \/ SeatResult(f)
          \/ SeatConverges(f) \/ SeatFails(f) \/ SeatDeadline(f)
    BY <1>5 DEF SeatNext
  <2>2. (\E type : SeatReceives(f, type)) \/ UNCHANGED late
    BY <2>1, Zenon DEF SeatBinding, SeatPlan, SeatBegin, SeatEnd, SeatEnvelope, SeatCached, SeatResult,
                SeatConverges, SeatFails, SeatDeadline
  <2>3. UNCHANGED late
    BY <2>2 DEF SeatReceives
  <2>. QED  BY <2>3
<1>. QED  BY <1>1, <1>2, <1>3, <1>4, <1>5 DEF Next

LEMMA SeatsNext == SeatsInv /\ [Next]_vars => SeatsInv'
<1>. SUFFICES ASSUME SeatsInv, [Next]_vars PROVE SeatsInv'
  OBVIOUS
<1>1. SInv /\ DOMAIN late' = {"host", "relay"} /\ late.relay \subseteq late'.relay
  BY LateNext DEF SeatsInv
<1>2. CASE ClockNext
  <2>1. PICK id \in Requests : HostClock(id) \/ RelayClock(id)
    BY <1>2 DEF ClockNext
  <2>2. SInv'
    BY <1>1, <2>1, ClockWhole
  <2>. QED  BY <1>1, <2>2 DEF SeatsInv
<1>3. CASE UNCHANGED vars
  BY <1>3 DEF vars, SeatsInv, SInv, IInv, SeatsTyped
<1>4. CASE HostNext \/ RelayNext \/ SeatNext
  <2>1. SInv'
    BY <1>1, <1>4, HostNextWhole, RelayNextWhole, SeatNextWhole
  <2>. QED  BY <1>1, <2>1 DEF SeatsInv
<1>. QED  BY <1>2, <1>3, <1>4 DEF Next

\* The inductive invariant about the seats: what waits in a seat's channel takes
\* it from where it stands to where the relay means it to be, its answers speak
\* of snapshots it has installed, and an answer the relay has counted is the
\* last thing the seat had to say of a channel with nothing left in it that
\* could change its world.
THEOREM SeatsInvariant == Spec => []SeatsInv
BY SeatsInit, SeatsNext, PTL DEF Spec


-----------------------------------------------------------------------------
(* What the invariant says of the world a seat shows.                      *)

\* A set of numbers up to a bound has a greatest one.
LEMMA Greatest ==
  ASSUME NEW n \in Nat, NEW S, S \subseteq 0..n, S # {}
  PROVE  \E x \in S : \A y \in S : y <= x
<1>. DEFINE T == {n - x : x \in S}
<1>1. T \subseteq Nat /\ T # {}
  <2>1. \A x \in S : n - x \in Nat
    OBVIOUS
  <2>2. PICK x \in S : TRUE
    OBVIOUS
  <2>3. n - x \in T
    BY <2>2
  <2>. QED  BY <2>1, <2>3
<1>. HIDE DEF T
<1>2. PICK t \in T : \A u \in T : t <= u
  BY <1>1, Least
<1>3. PICK x \in S : t = n - x
  BY <1>2 DEF T
<1>4. ASSUME NEW y \in S PROVE y <= x
  <2>1. n - y \in T
    BY DEF T
  <2>2. n - x <= n - y
    BY <1>2, <1>3, <2>1
  <2>. QED  BY <2>2
<1>. QED  BY <1>4

\* Where no update lies between, the world is the same.
LEMMA NothingBetween ==
  ASSUME NEW h \in Seq(Entry), History(h), NEW m \in Nat, NEW n \in Nat, m <= n, n <= Len(h), Gapless(h, m, n)
  PROVE  At(h, m) = At(h, n)
<1>1. Len(h) \in Nat /\ m \in 0..Len(h) /\ n \in 0..Len(h)
  OBVIOUS
<1>. PICK a : a = At(h, m)
  OBVIOUS
<1>. PICK b : b = At(h, n)
  OBVIOUS
<1>2. /\ a \in 0..m /\ b \in 0..n /\ (m # 0 => a \in 1..m /\ Update(h, a)) /\ (n # 0 => b \in 1..n /\ Update(h, b))
      /\ Gapless(h, a, m) /\ Gapless(h, b, n)
  BY <1>1, AtIs
<1>3. CASE n = 0
  BY <1>2, <1>3
<1>4. CASE n # 0
  <2>1. b \in 1..n /\ h[b].at = b
    BY <1>2, <1>4 DEF Update
  <2>2. b <= m
    BY <2>1 DEF Gapless
  <2>3. m # 0 /\ a \in 1..m /\ h[a].at = a
    BY <1>2, <2>1, <2>2 DEF Update
  <2>4. ~(a < b)
    BY <1>2, <2>1, <2>2, <2>3 DEF Gapless
  <2>5. ~(b < a)
    BY <1>2, <2>1, <2>2, <2>3 DEF Gapless
  <2>. QED  BY <2>1, <2>3, <2>4, <2>5
<1>. QED  BY <1>3, <1>4

\* A channel that ends no snapshot brings the seat the world of its last update.
LEMMA DrainsTo ==
  ASSUME NEW f, NEW q \in Seq(SeatMessage), q = relay.outSeat[f], hist \in Seq(Entry), History(hist), NEW g, Trace(q, g, hist),
         \A k \in 1..Len(q) : q[k].t # "end", Alike(hist, seat[f].image, At(hist, g[1].top))
  PROVE  Alike(hist, Destined(f), At(hist, Final(g).top))
<1>. DEFINE news == {i \in 1..Len(q) : News(q[i])}
            last == CHOOSE i \in news : \A j \in news : j <= i
<1>1. Destined(f) = IF news = {} THEN seat[f].image ELSE Shows(q[last])
  BY DEF Destined
<1>2. /\ Len(q) \in Nat /\ Len(g) \in Nat /\ Len(g) = Len(q) + 1 /\ 1 \in 1..Len(g) /\ Len(g) \in 1..Len(g)
      /\ Final(g) = g[Len(g)] /\ g \in Seq(Standing)
      /\ \A i, j \in 1..Len(g) : i <= j /\ g[i].top # g[j].top => \E k \in i..j - 1 : Bears(q[k])
  BY TraceTyped DEF Trace
<1>3. \A k \in 1..Len(q) : Bears(q[k]) <=> k \in news
  BY DEF Bears, News
<1>. HIDE DEF news
<1>4. CASE news = {}
  <2>1. g[1].top = g[Len(g)].top
    <3>1. \A k \in 1..Len(g) - 1 : ~Bears(q[k])
      BY <1>2, <1>3, <1>4
    <3>. PICK z : z = Len(g)
      OBVIOUS
    <3>2. z \in 1..Len(g) /\ 1 \in 1..Len(g) /\ 1 <= z
      BY <1>2
    <3>3. g[1].top # g[z].top => \E k \in 1..z - 1 : Bears(q[k])
      BY <1>2, <3>2
    <3>. QED  BY <3>1, <3>3
  <2>. QED  BY <1>1, <1>2, <1>4, <2>1
<1>5. CASE news # {}
  <2>1. news \subseteq 0..Len(q) /\ news \subseteq 1..Len(q)
    BY <1>2 DEF news
  <2>2. \E x \in news : \A y \in news : y <= x
    BY <1>2, <1>5, <2>1, Greatest
  <2>3. last \in news /\ \A j \in news : j <= last
    BY <2>2
  <2>. HIDE DEF last
  <2>4. last \in 1..Len(q) /\ last + 1 \in 1..Len(g) /\ last \in 1..Len(g)
    BY <1>2, <2>1, <2>3
  <2>5. g[last + 1].top = g[Len(g)].top
    <3>1. ASSUME NEW k \in last + 1..Len(g) - 1 PROVE ~Bears(q[k])
      <4>1. k \in 1..Len(q) /\ ~(k <= last)
        BY <1>2, <2>4
      <4>. QED  BY <1>3, <2>3, <4>1
    <3>2. last + 1 <= Len(g)
      BY <1>2, <2>4
    <3>. QED  BY <1>2, <2>4, <3>1, <3>2
  <2>. PICK m : m = q[last]
    OBVIOUS
  <2>. PICK a : a = g[last]
    OBVIOUS
  <2>. PICK b : b = g[last + 1]
    OBVIOUS
  <2>6. Moves(a, m, b, hist) /\ m.t \in {"env", "cached"}
    <3>1. m.t # "end" /\ Bears(m) /\ Moves(a, m, b, hist)
      BY <1>3, <2>3, <2>4 DEF Trace
    <3>. QED  BY <3>1 DEF Bears
  <2>7. Shows(m) = At(hist, b.top)
    <3>1. CASE m.t = "env"
      <4>1. Follows(hist, a.top, m.n) /\ b.top = m.n
        BY <2>6, <3>1 DEF Moves, Carries
      <4>2. m.n \in 1..Len(hist) /\ hist[m.n].at = m.n /\ m.n # 0
        BY <4>1 DEF Follows, Update
      <4>. QED  BY <3>1, <4>1, <4>2 DEF Shows, At
    <3>2. CASE m.t = "cached"
      <4>1. m.n \in 1..Len(hist) /\ m.image = hist[m.n].at /\ b.top = m.n
        BY <2>6, <3>2 DEF Moves, Catches
      <4>. QED  BY <3>2, <4>1 DEF Shows, At
    <3>. QED  BY <2>6, <3>1, <3>2
  <2>8. Destined(f) = At(hist, Final(g).top)
    BY <1>1, <1>2, <1>5, <2>5, <2>7
  <2>. QED  BY <2>8 DEF Alike
<1>. QED  BY <1>4, <1>5


\* The standing of a seat the relay leaves alone, and of one it has cut off.
LEMMA OpenOrCut ==
  ASSUME SInv, NEW f \in Seats, relay.peers[f].conn # 0
  PROVE  /\ seat[f] \in SeatType /\ relay.outSeat[f] \in Seq(SeatMessage) /\ hist \in Seq(Entry) /\ History(hist)
         /\ relay.last \in Nat /\ relay.last <= Len(hist) /\ relay.cache = At(hist, relay.last)
         /\ \E g, cuts, late1 : Life(relay, f, seat[f], fromSeat[f], g, relay.last, hist, cuts, late1)
<1>. DEFINE cuts == Cuts(relay, host, toRelay)
<1>1. World(relay, host, toRelay, hist, seat, fromSeat, cuts, late.relay) /\ IInv
  BY SInvIs DEF Whole
<1>. HIDE DEF cuts
<1>2. /\ Channels(relay) /\ History(hist) /\ hist \in Seq(Entry) /\ relay.last <= Len(hist) /\ relay.last \in Nat
      /\ relay.last = 0 => relay.cache = 0
      /\ seat \in [Seats -> SeatType]
      /\ Mail(relay, f, seat[f], fromSeat[f], relay.last, hist, cuts, late.relay)
  BY <1>1, WorldIs
<1>3. relay.cache = At(hist, relay.last)
  BY <1>1, <1>2 DEF IInv, Good, Cached, At
<1>4. \E g : Life(relay, f, seat[f], fromSeat[f], g, relay.last, hist, cuts, late.relay)
  BY <1>2 DEF Mail
<1>. QED  BY <1>2, <1>3, <1>4 DEF Channels

\* The relay's fence reaches the seat: it shows no further host update.
LEMMA CutOffKnows == SInv => CutOffSeatsKnow
<1>. SUFFICES ASSUME SInv, NEW f \in Seats, relay.peers[f].quarantined, ~relay.peers[f].sitOut, relay.outSeat[f] = <<>>
              PROVE  seat[f].quarantined
  BY DEF CutOffSeatsKnow
<1>1. CASE relay.peers[f].conn = 0
  <2>1. Mail(relay, f, seat[f], fromSeat[f], relay.last, hist, Cuts(relay, host, toRelay), late.relay)
    BY DEF SInv
  <2>2. relay.peers[f] = NoPeer
    BY <1>1, <2>1 DEF Mail, Absent
  <2>. QED  BY <2>2 DEF NoPeer
<1>2. CASE relay.peers[f].conn # 0
  <2>1. relay.outSeat[f] \in Seq(SeatMessage) /\ \E g, cuts, late1 :
          Life(relay, f, seat[f], fromSeat[f], g, relay.last, hist, cuts, late1)
    BY <1>2, OpenOrCut
  <2>2. PICK g, cuts, late1 : Life(relay, f, seat[f], fromSeat[f], g, relay.last, hist, cuts, late1)
    BY <2>1
  <2>. PICK a : a = Final(g)
    OBVIOUS
  <2>3. g[1] = a
    <3>1. Trace(relay.outSeat[f], g, hist) /\ Len(relay.outSeat[f]) = 0
      BY <2>2 DEF Life
    <3>. QED  BY <3>1 DEF Trace, Final
  <2>4. Meant(relay, f, a, relay.last, hist, cuts) /\ Stands(seat[f], a, hist, late1)
    BY <2>2, <2>3 DEF Life
  <2>5. a.stage \in {"Cut", "Planned"}
    BY <2>4 DEF Meant
  <2>. QED  BY <2>4, <2>5 DEF Stands, Follow, Reading
<1>. QED  BY <1>1, <1>2

\* A seat that neither side fences is on its way to the relay's world.
LEMMA UnfencedMirrors == SInv => UnfencedSeatsMirror
<1>. SUFFICES ASSUME SInv, NEW f \in Seats, relay.peers[f].conn # 0, ~relay.peers[f].quarantined, ~seat[f].quarantined,
                     ~IsTarget(relay, f)
              PROVE  SameWorld(Destined(f), relay.cache)
  BY DEF UnfencedSeatsMirror
<1>. PICK q : q = relay.outSeat[f]
  OBVIOUS
<1>. PICK l : l = relay.last
  OBVIOUS
<1>1. /\ q \in Seq(SeatMessage) /\ hist \in Seq(Entry) /\ History(hist)
      /\ l \in Nat /\ l <= Len(hist) /\ relay.cache = At(hist, l)
  BY OpenOrCut
<1>2. PICK g, cuts, late1 : Life(relay, f, seat[f], fromSeat[f], g, l, hist, cuts, late1)
  BY OpenOrCut
<1>. PICK a : a = g[1]
  OBVIOUS
<1>. PICK z : z = Final(g)
  OBVIOUS
<1>3. Trace(q, g, hist) /\ Meant(relay, f, z, l, hist, cuts)
  BY <1>2 DEF Life
<1>4. /\ Len(g) \in Nat /\ Len(g) = Len(q) + 1 /\ Len(q) \in Nat /\ Len(g) \in 1..Len(g) /\ z = g[Len(g)]
      /\ a \in Standing /\ z \in Standing /\ Precedes(a, z)
      /\ \A i \in 1..Len(g) : Precedes(g[i], z)
  BY <1>1, <1>3, TraceTyped
<1>5. z.stage = "Open" /\ ~z.sitOut /\ Gapless(hist, z.top, l) /\ z.top \in Nat /\ z.top <= l
  <2>1. z.stage = "Open"
    BY <1>3 DEF Meant
  <2>2. z.top \in Nat /\ z.sitOut \in BOOLEAN
    BY <1>4, StandingIs
  <2>. QED  BY <1>3, <2>1, <2>2 DEF Meant, Bound
<1>6. \A i \in 1..Len(g) : g[i] = Arrival \/ Settled(g[i], z)
  BY <1>4, <1>5 DEF Precedes
<1>7. \A k \in 1..Len(q) : q[k].t # "end"
  <2>. SUFFICES ASSUME NEW k \in 1..Len(q), q[k].t = "end" PROVE FALSE
    OBVIOUS
  <2>1. k \in 1..Len(g) /\ g[k].stage = "Begun"
    <3>1. Moves(g[k], q[k], g[k + 1], hist)
      BY <1>3 DEF Trace
    <3>2. g[k].stage = "Begun"
      BY <3>1 DEF Moves, EndsAt
    <3>. QED  BY <1>4, <3>2
  <2>. QED  BY <1>6, <2>1 DEF Settled, Arrival
<1>8. Alike(hist, seat[f].image, At(hist, a.top))
  <2>1. Certified(seat[f], a, hist)
    BY <1>2, <1>4, <1>5 DEF Life
  <2>2. ~a.sitOut
    <3>1. a = Arrival \/ Settled(a, z)
      BY <1>4, <1>5 DEF Precedes
    <3>. QED  BY <1>5, <3>1 DEF Settled, Same, Arrival
  <2>. QED  BY <2>1, <2>2 DEF Certified
<1>9. Alike(hist, Destined(f), At(hist, z.top))
  BY <1>1, <1>3, <1>7, <1>8, DrainsTo
<1>10. At(hist, z.top) = relay.cache
  BY <1>1, <1>5, NothingBetween
<1>. QED  BY <1>9, <1>10 DEF Alike, SameWorld


-----------------------------------------------------------------------------
(* The order in which a seat shows the host's updates.                     *)

InOrder(s, t, h) ==
  t.image # s.image =>
    \/ /\ s.image < t.image
       /\ \A n \in s.image + 1..t.image - 1 : h[n].at # n \/ (n <= s.floor /\ s.done[2] = "Checkpoint")
    \/ /\ t.floor # s.floor \/ s.image = 0
       /\ t.image > s.image

LEMMA EnvelopeInOrder ==
  ASSUME NEW s, NEW a, NEW m, NEW b, NEW h, NEW late1, Meets(s, a, m, b, h, late1), m.t = "env", NEW t, t = Shown1(s, m, m.n)
  PROVE  InOrder(s, t, h)
<1>1. Carries(a, m, b, h) /\ s \in SeatType /\ a \in Standing /\ Stands(s, a, h, late1) /\ h \in Seq(Entry)
  BY DEF Meets, Moves
<1>. SUFFICES ASSUME Takes(s, m), t.image = m.n PROVE InOrder(s, t, h)
  BY <1>1 DEF Shown1, InOrder, SeatType
<1>2. /\ s.image \in Nat /\ a.top \in Nat /\ m.n \in Nat /\ s.image <= a.top /\ a.top < m.n
      /\ Gapless(h, a.top, m.n - 1) /\ Shown(s, a, h)
  <2>1. Len(h) \in Nat /\ m.n \in 1..Len(h)
    BY <1>1 DEF Carries, Follows, Update
  <2>. QED  BY <1>1, <2>1, SeatIs, StandingIs DEF Carries, Follows, Stands, Takes
<1>3. ASSUME NEW n \in s.image + 1..m.n - 1 PROVE h[n].at # n \/ (n <= s.floor /\ s.done[2] = "Checkpoint")
  <2>1. n \in s.image + 1..a.top \/ n \in a.top + 1..m.n - 1
    BY <1>2
  <2>. QED  BY <1>2, <2>1 DEF Shown, Gapless
<1>. QED  BY <1>2, <1>3 DEF InOrder

LEMMA CachedInOrder ==
  ASSUME NEW s, NEW a, NEW m, NEW b, NEW h, NEW late1, Meets(s, a, m, b, h, late1), m.t = "cached", NEW t, t = Shown1(s, m, m.image)
  PROVE  InOrder(s, t, h)
<1>1. Catches(a, m, b, h) /\ s \in SeatType /\ a \in Standing /\ Stands(s, a, h, late1) /\ h \in Seq(Entry) /\ History(h)
  BY DEF Meets, Moves
<1>. SUFFICES ASSUME t.image = m.image PROVE InOrder(s, t, h)
  BY <1>1 DEF Shown1, InOrder, SeatType
<1>2. s.image \in Nat /\ s.image <= 0
  BY <1>1, SeatIs DEF Catches, Stands
<1>3. 1 <= m.image
  BY <1>1 DEF Catches, History
<1>4. m.image \in Nat
  <2>1. m.n \in 1..Len(h) /\ h[m.n] \in Entry
    BY <1>1 DEF Catches
  <2>. QED  BY <1>1, <2>1 DEF Catches, Entry, Positive
<1>. QED  BY <1>2, <1>3, <1>4 DEF InOrder

LEMMA EndInOrder ==
  ASSUME NEW s, NEW a, NEW m, NEW b, NEW h, NEW late1, Meets(s, a, m, b, h, late1), m.t = "end", NEW t, t = Ended1(s, m, h)
  PROVE  InOrder(s, t, h)
<1>1. /\ EndsAt(a, m, b, h) /\ s \in SeatType /\ a \in Standing /\ Sane(a, h) /\ Stands(s, a, h, late1) /\ h \in Seq(Entry)
      /\ History(h)
  BY DEF Meets, Moves
<1>2. /\ s.image \in Nat /\ s.floor \in Nat /\ a.top \in Nat /\ a.floor \in Nat /\ m.cut \in 1..Len(h) /\ m.cut \in Nat
      /\ s.image <= a.top /\ a.top < m.cut /\ s.floor <= a.floor /\ a.floor < m.cut /\ Len(h) \in Nat
      /\ s.image = 0 \/ Update(h, s.image)
  BY <1>1, SeatIs, StandingIs DEF EndsAt, Stands, Sane
<1>. PICK image : image = IF Restores(m) THEN h[m.cut].at ELSE s.image
  OBVIOUS
<1>3. t.image = s.image \/ (t.floor = m.cut /\ t.image = h[m.cut].at)
  <2>. PICK native : native = [cut |-> m.cut, sitOut |-> m.sitOut]
    OBVIOUS
  <2>. PICK done : done = <<m.id, m.phase>>
    OBVIOUS
  <2>1. t = s \/ t = [s EXCEPT !.floor = m.cut, !.quarantined = FALSE, !.done = done, !.header = 0, !.native = native,
                               !.image = image]
    BY DEF Ended1
  <2>. QED  BY <1>1, <2>1 DEF SeatType
<1>. SUFFICES ASSUME t.floor = m.cut, t.image = h[m.cut].at, t.image # s.image PROVE InOrder(s, t, h)
  BY <1>3 DEF InOrder
<1>4. At(h, m.cut) \in 1..m.cut /\ Gapless(h, At(h, m.cut), m.cut) /\ At(h, m.cut) = t.image
  <2>1. m.cut \in 0..Len(h) /\ m.cut # 0
    BY <1>2
  <2>. QED  BY <1>1, <2>1, AtIs DEF At
<1>5. t.image \in Nat /\ 1 <= t.image
  BY <1>2, <1>4
<1>6. ~(t.image < s.image)
  <2>. SUFFICES ASSUME t.image < s.image PROVE FALSE
    OBVIOUS
  <2>. PICK x : x = t.image
    OBVIOUS
  <2>. PICK y : y = s.image
    OBVIOUS
  <2>1. x \in Nat /\ y \in Nat /\ x < y /\ y <= m.cut /\ Gapless(h, x, m.cut)
    BY <1>2, <1>4, <1>5
  <2>2. y # 0 /\ h[y].at = y
    BY <1>2, <2>1 DEF Update
  <2>. QED  BY <1>2, <2>1, <2>2 DEF Gapless
<1>7. t.image > s.image
  BY <1>2, <1>5, <1>6
<1>8. t.floor # s.floor
  BY <1>2
<1>. QED  BY <1>7, <1>8 DEF InOrder

LEMMA ReadsInOrder ==
  ASSUME NEW s, NEW a, NEW m, NEW b, NEW h, NEW late1, Meets(s, a, m, b, h, late1), NEW t, Reads(s, m, t, h)
  PROVE  InOrder(s, t, h)
<1>1. s \in SeatType
  BY DEF Meets
<1>2. CASE m.t = "binding" /\ t = Bound1(s, m)
  <2>. PICK z : z = (s.quarantined \/ (m.delivery # s.bound /\ m.delivery > 1))
    OBVIOUS
  <2>1. t = s \/ t = [s EXCEPT !.bound = m.delivery, !.quarantined = z]
    BY <1>2 DEF Bound1, BindTo
  <2>. QED  BY <1>1, <2>1 DEF InOrder, SeatType
<1>3. CASE m.t = "plan" /\ t = Planned1(s, m)
  <2>1. t = s \/ t = TakeUp(s, m.id, m.phase)
    BY <1>3 DEF Planned1
  <2>. QED  BY <1>1, <2>1 DEF InOrder, SeatType, TakeUp
<1>4. CASE m.t = "begin" /\ t = Begun1(s, m)
  BY <1>1, <1>4 DEF InOrder, SeatType, Begun1
<1>5. CASE m.t = "result" /\ t = Result1(s, m)
  <2>. PICK z : z = (s.quarantined \/ m.reason # "Converged")
    OBVIOUS
  <2>1. t = s \/ t = [s EXCEPT !.plan = 0, !.header = 0, !.native = NoSnap, !.finished = FALSE, !.quarantined = z]
    BY <1>5 DEF Result1
  <2>. QED  BY <1>1, <2>1 DEF InOrder, SeatType
<1>. QED  BY <1>2, <1>3, <1>4, <1>5, EnvelopeInOrder, CachedInOrder, EndInOrder DEF Reads

LEMMA SeatReadsInOrder ==
  ASSUME SInv, NEW f \in Seats, SeatReading(f)
  PROVE  InOrder(seat[f], seat'[f], hist)
<1>. PICK q : q = relay.outSeat[f]
  OBVIOUS
<1>. PICK m : m = Head(q)
  OBVIOUS
<1>1. PICK t : seat' = [seat EXCEPT ![f] = t] /\ Reads(seat[f], m, t, hist)
  BY DEF SeatReading
<1>2. q # <<>> /\ seat'[f] = t /\ seat[f] \in SeatType
  BY <1>1, SeatRecord DEF SeatReading, SeatReceives
<1>3. relay.peers[f].conn # 0
  <2>1. Mail(relay, f, seat[f], fromSeat[f], relay.last, hist, Cuts(relay, host, toRelay), late.relay)
    BY DEF SInv
  <2>. QED  BY <1>2, <2>1 DEF Mail, Absent
<1>4. /\ q \in Seq(SeatMessage) /\ hist \in Seq(Entry) /\ History(hist)
      /\ \E g, cuts, late1 : Life(relay, f, seat[f], fromSeat[f], g, relay.last, hist, cuts, late1)
  BY <1>3, OpenOrCut
<1>5. PICK g, cuts, late1 : Life(relay, f, seat[f], fromSeat[f], g, relay.last, hist, cuts, late1)
  BY <1>4
<1>. PICK a : a = g[1]
  OBVIOUS
<1>. PICK G : G = Tail(g)
  OBVIOUS
<1>. PICK b : b = G[1]
  OBVIOUS
<1>6. Trace(q, g, hist) /\ Stands(seat[f], a, hist, late1)
  BY <1>5 DEF Life
<1>7. StepsOn(q, g, m, a, b, G, hist)
  BY <1>2, <1>4, <1>6, TraceStepsOn
<1>. PICK s : s = seat[f]
  OBVIOUS
<1>8. Meets(s, a, m, b, hist, late1) /\ Reads(s, m, t, hist)
  BY <1>1, <1>2, <1>4, <1>6, <1>7 DEF Meets, StepsOn
<1>9. InOrder(s, t, hist)
  BY <1>8, ReadsInOrder
<1>. QED  BY <1>2, <1>9

\* A step that changes what a seat shows is a message of its own, or its leaving.
LEMMA OnlyReadingShows ==
  ASSUME SeatsInv, [Next]_vars, NEW f \in Seats, seat'[f].image # seat[f].image, relay'.peers[f].conn = relay.peers[f].conn
  PROVE  SeatReading(f)
<1>1. SInv /\ seat \in [Seats -> SeatType] /\ seat[f] \in SeatType
  BY SeatRecord DEF SeatsInv
<1>2. CASE SeatNext
  <2>1. PICK g \in Seats : SeatReading(g) \/ SeatActing(g)
    BY <1>1, <1>2, SeatDoes
  <2>2. CASE g = f /\ SeatActing(f)
    <3>1. PICK t, m : seat' = [seat EXCEPT ![f] = t] /\ Acts(seat[f], t, m, hist, late.relay)
      BY <2>2 DEF SeatActing
    <3>2. t.image = seat[f].image
      BY <1>1, <3>1 DEF Acts, SeatType, Retire
    <3>. QED  BY <1>1, <3>1, <3>2
  <2>3. CASE g # f
    <3>1. \E t : seat' = [seat EXCEPT ![g] = t]
      BY <2>1 DEF SeatReading, SeatActing
    <3>. QED  BY <1>1, <2>3, <3>1
  <2>. QED  BY <2>1, <2>2, <2>3
<1>3. ASSUME NEW g \in Seats, Leave(g) PROVE SeatReading(f)
  <2>1. seat' = [seat EXCEPT ![g] = NewSeat]
    BY <1>3 DEF Leave
  <2>2. g = f
    BY <1>1, <2>1
  <2>3. relay.peers[f].conn # 0
    BY <1>3, <2>2 DEF Leave
  <2>4. relay'.peers[f].conn = 0
    <3>1. Good(relay, host, toRelay, hist)
      BY <1>1 DEF SInv, IInv
    <3>2. IInv'
      BY <1>1, <1>3, LeaveGood DEF SInv
    <3>. DEFINE ended == IF IsTarget(relay, g) THEN Finish(relay, "TargetChanged") ELSE relay
                peers == [ended.peers EXCEPT ![g] = NoPeer]
                outSeat == [ended.outSeat EXCEPT ![g] = <<>>]
                outHost == Append(ended.outHost, Roster(peers))
    <3>3. Good(ended, host, toRelay, hist)
      BY <3>1, FinishGood DEF Reasons
    <3>4. relay' = [ended EXCEPT !.peers = peers, !.outHost = outHost, !.outSeat = outSeat]
      BY <1>3, Zenon DEF Leave
    <3>. HIDE DEF ended, outHost, outSeat
    <3>5. DOMAIN ended = RelayFields /\ ended.peers \in [Seats -> PeerType]
      BY <3>3 DEF Good, Types, Relay
    <3>6. peers[g] = NoPeer
      BY <3>5
    <3>. HIDE DEF peers
    <3>7. relay'.peers = peers
      BY <3>4, <3>5 DEF RelayFields
    <3>. QED  BY <2>2, <3>6, <3>7 DEF NoPeer
  <2>. QED  BY <2>3, <2>4
<1>4. CASE UNCHANGED seat
  BY <1>4
<1>5. CASE HostNext
  <2>1. UNCHANGED seat
    BY <1>5, Zenon DEF HostNext, HostUpdate, HostRequest, HostCapture, HostPublish, HostCaptureFails, HostDeadline,
                HostRoster, HostPlan, HostResult, HostReceives
  <2>. QED  BY <1>4, <2>1
<1>6. CASE RelayNext
  <2>1. UNCHANGED seat \/ \E g \in Seats : Leave(g)
    BY <1>6, Zenon DEF RelayNext, RelayEnvelope, RelayRequest, RelayBegin, RelayEnd, RelayFailure, RelayDeadline,
                RelayAck, Join, RelayReceives
  <2>. QED  BY <1>3, <1>4, <2>1
<1>7. CASE ClockNext
  <2>1. UNCHANGED seat
    BY <1>7, Zenon DEF ClockNext, HostClock, RelayClock
  <2>. QED  BY <1>4, <2>1
<1>. QED  BY <1>2, <1>4, <1>5, <1>6, <1>7 DEF Next, vars


-----------------------------------------------------------------------------
(* What a Converged outcome certifies.                                     *)

\* A target whose acknowledgement the relay has counted.
LEMMA TargetCertified ==
  ASSUME SInv, InTime, relay.plan # NoPlan, relay.snap # NoSnap, NEW f \in Seats, IsTarget(relay, f),
         NEW A, A.plan = relay.plan, A.snap = relay.snap, A.peers = relay.peers, A.outSeat = relay.outSeat, f \in A.acks,
         NEW cuts, Mail(A, f, seat[f], fromSeat[f], relay.last, hist, cuts, late.relay)
  PROVE  Certifies(f)
<1>. PICK s : s = seat[f]
  OBVIOUS
<1>. PICK q : q = relay.outSeat[f]
  OBVIOUS
<1>. PICK l : l = relay.last
  OBVIOUS
<1>. PICK late1 : late1 = late.relay
  OBVIOUS
<1>1. IsTarget(A, f)
  BY DEF IsTarget
<1>2. A.peers[f].conn # 0 /\ relay.peers[f].conn # 0
  BY <1>1 DEF Mail, Absent
<1>3. /\ q \in Seq(SeatMessage) /\ hist \in Seq(Entry) /\ History(hist) /\ s \in SeatType
      /\ l \in Nat /\ l <= Len(hist) /\ relay.cache = At(hist, l)
  BY <1>2, OpenOrCut
<1>4. PICK g : Life(A, f, s, fromSeat[f], g, l, hist, cuts, late1)
  BY <1>2 DEF Mail
<1>. PICK a : a = g[1]
  OBVIOUS
<1>. PICK z : z = Final(g)
  OBVIOUS
<1>5. Trace(q, g, hist) /\ Meant(A, f, z, l, hist, cuts) /\ Stands(s, a, hist, late1) /\ Rank(a) = Rank(z) /\ Acked(s, a, hist)
  BY <1>4 DEF Life
<1>6. /\ Len(g) \in Nat /\ Len(g) = Len(q) + 1 /\ Len(q) \in Nat
      /\ a \in Standing /\ z \in Standing /\ Precedes(a, z)
      /\ \A i \in 1..Len(g) : g[i] \in Standing /\ Precedes(a, g[i]) /\ Precedes(g[i], z)
  BY <1>3, <1>5, TraceTyped
<1>7. /\ z.stage = "Ended" /\ z.id = relay.plan.id /\ z.phase = relay.plan.phase
      /\ z.floor = relay.snap.cut /\ z.sitOut = relay.snap.sitOut
      /\ ~z.sitOut => Gapless(hist, z.top, l)
      /\ z.top <= l
  BY <1>1, <1>5 DEF Meant, Bound
<1>8. a.stage = "Ended" /\ Same(a, z)
  BY <1>5, <1>6, <1>7 DEF Precedes
<1>9. \A i \in 1..Len(g) : g[i].stage = "Ended"
  <2>. SUFFICES ASSUME NEW i \in 1..Len(g) PROVE g[i].stage = "Ended"
    OBVIOUS
  <2>. PICK b : b = g[i]
    OBVIOUS
  <2>. PICK ra : ra = Rank(a)
    OBVIOUS
  <2>. PICK rb : rb = Rank(b)
    OBVIOUS
  <2>. PICK rz : rz = Rank(z)
    OBVIOUS
  <2>1. ra \in Nat /\ rb \in Nat /\ rz \in Nat /\ ra <= rb /\ rb <= rz /\ ra = rz
    BY <1>5, <1>6, RankIs DEF Precedes
  <2>2. ra = rb
    <3>1. ra = rz => ra = rb
      BY <2>1, Between
    <3>. QED  BY <2>1, <3>1
  <2>. QED  BY <1>6, <1>8, <2>2 DEF Precedes
<1>10. relay.begin.cut = relay.snap.cut
  BY DEF SInv, IInv, Good, Transaction
<1>11. s.done = <<relay.plan.id, relay.plan.phase>> /\ s.floor = relay.begin.cut
  BY <1>5, <1>7, <1>8, <1>10 DEF Acked, Same
<1>12. ASSUME ~relay.snap.sitOut PROVE SameWorld(Destined(f), relay.cache)
  <2>1. ~a.sitOut /\ ~z.sitOut
    BY <1>7, <1>8, <1>12 DEF Same
  <2>2. s.plan # 0
    <3>1. a.id \notin late1
      BY <1>7, <1>8 DEF InTime, Same
    <3>. QED  BY <1>5, <1>8, <3>1 DEF Stands, Follow, Reading
  <2>3. Alike(hist, seat[f].image, At(hist, a.top))
    BY <1>5, <2>1, <2>2 DEF Acked, Certified
  <2>4. \A k \in 1..Len(q) : q[k].t # "end"
    <3>. SUFFICES ASSUME NEW k \in 1..Len(q), q[k].t = "end" PROVE FALSE
      OBVIOUS
    <3>1. Moves(g[k], q[k], g[k + 1], hist)
      BY <1>5 DEF Trace
    <3>2. g[k].stage = "Begun"
      BY <3>1 DEF Moves, EndsAt
    <3>3. k \in 1..Len(g)
      BY <1>6
    <3>. QED  BY <1>9, <3>2, <3>3
  <2>5. Alike(hist, Destined(f), At(hist, z.top))
    BY <1>3, <1>5, <2>3, <2>4, DrainsTo
  <2>6. At(hist, z.top) = relay.cache
    <3>1. z.top \in Nat /\ Gapless(hist, z.top, l) /\ z.top <= l
      BY <1>6, <1>7, <2>1, StandingIs
    <3>. QED  BY <1>3, <3>1, NothingBetween
  <2>. QED  BY <2>5, <2>6 DEF Alike, SameWorld
<1>. QED  BY <1>11, <1>12 DEF Certifies

\* No step but the last acknowledgement ends a transaction Converged.
Unconverged == relay'.outcome = relay.outcome \/ relay'.outcome.reason # "Converged"

LEMMA RelayEnds ==
  ASSUME SInv, RelayEnvelope \/ RelayRequest \/ RelayBegin \/ RelayEnd \/ RelayFailure \/ RelayDeadline
  PROVE  Unconverged
<1>. DEFINE cuts == Cuts(relay, host, toRelay)
            m == toRelay[1]
<1>1. World(relay, host, toRelay, hist, seat, fromSeat, cuts, late.relay)
  BY SInvIs DEF Whole
<1>2. {} \subseteq cuts
  OBVIOUS
<1>3. SUFFICES Handles(relay, relay', hist, seat, fromSeat, {}, late.relay) \/ Keeps(relay, relay', hist)
  BY DEF Handles, Keeps, Unconverged
<1>4. CASE RelayRequest
  <2>1. /\ toRelay # <<>> /\ Head(toRelay) = m /\ m.t = "request" /\ m \in HostMessage
        /\ relay' = AdmitRequest(relay, m)
    BY <1>4, SInvIs, RelayReceivesGood DEF RelayRequest, RelayReceives
  <2>2. m \in RequestType
    BY <2>1 DEF HostMessage, RequestType
  <2>. HIDE DEF m
  <2>3. Keeps(relay, relay', hist)
    BY <1>1, <2>1, <2>2, SettleTail, RequestHandles DEF m
  <2>. QED  BY <2>3
<1>5. CASE RelayEnvelope
  <2>1. toRelay # <<>> /\ Head(toRelay) = m /\ m.t = "env"
    BY <1>5, SInvIs, RelayReceivesGood DEF RelayEnvelope, RelayReceives
  <2>. HIDE DEF cuts
  <2>2. relay' = IF toRelay[1].n <= SourceFloor(relay) THEN relay ELSE AdmitEnvelope(relay, toRelay[1].n)
    BY <1>5, <2>1 DEF RelayEnvelope
  <2>3. CASE toRelay[1].n <= SourceFloor(relay)
    <3>1. Idle(relay, relay')
      BY <2>2, <2>3 DEF Idle
    <3>. QED  BY <1>1, <1>2, <3>1, IdleHandles
  <2>4. CASE ~(toRelay[1].n <= SourceFloor(relay))
    BY <1>1, <1>2, <2>1, <2>2, <2>4, EnvelopeHandles
  <2>. QED  BY <2>3, <2>4
<1>6. CASE RelayBegin
  <2>1. toRelay # <<>> /\ relay' = AdmitBegin(relay, toRelay[1])
    BY <1>6, SInvIs, RelayReceivesGood DEF RelayBegin, RelayReceives
  <2>. HIDE DEF cuts
  <2>. QED  BY <1>1, <1>2, <2>1, BeginHandles
<1>7. CASE RelayEnd
  <2>1. toRelay # <<>> /\ toRelay[1].t = "end" /\ relay' = AdmitEnd(relay, toRelay[1]) /\ 1 \in 1..Len(toRelay)
    BY <1>7, SInvIs, RelayReceivesGood DEF RelayEnd, RelayReceives, IInv, Good, Types
  <2>2. Partner(relay, toRelay[1]) => toRelay[1].cut \in cuts
    BY <2>1 DEF Partner, Cuts, OfPhase
  <2>. HIDE DEF cuts
  <2>3. ASSUME NEW cuts2, cuts2 \subseteq cuts
        PROVE  /\ Handles(relay, relay', hist, seat, fromSeat, cuts2, late.relay)
               /\ relay'.floor = relay.floor \/ (Partner(relay, toRelay[1]) /\ relay'.floor = Larger(relay.floor, toRelay[1].cut))
    <3>. PICK R : R = relay
      OBVIOUS
    <3>. PICK q : q = toRelay
      OBVIOUS
    <3>. PICK S : S = relay'
      OBVIOUS
    <3>1. World(R, host, q, hist, seat, fromSeat, cuts, late.relay)
      BY <1>1
    <3>2. q # <<>> /\ q[1].t = "end" /\ (Partner(R, q[1]) => q[1].cut \in cuts) /\ S = AdmitEnd(R, q[1])
      BY <2>1, <2>2
    <3>3. /\ Handles(R, S, hist, seat, fromSeat, cuts2, late.relay)
          /\ S.floor = R.floor \/ (Partner(R, q[1]) /\ S.floor = Larger(R.floor, q[1].cut))
      BY <2>3, <3>1, <3>2, EndHandles
    <3>. QED  BY <3>3
  <2>. QED  BY <1>2, <2>3
<1>8. CASE RelayFailure
  <2>1. /\ toRelay # <<>> /\ m.t = "failure" /\ m \in HostMessage /\ 1 \in 1..Len(toRelay)
        /\ relay' = relay \/ relay' = Finish(relay, m.reason)
    BY <1>8, SInvIs, RelayReceivesGood DEF RelayFailure, RelayReceives, IInv, Good, Types
  <2>2. m.reason \in Reasons /\ m.reason # "Converged"
    BY <2>1, SInvIs DEF HostMessage, Whole, World, Extra
  <2>. HIDE DEF cuts, m
  <2>3. CASE relay' = relay
    <3>1. Idle(relay, relay')
      BY <2>3 DEF Idle
    <3>. QED  BY <1>1, <1>2, <3>1, IdleHandles
  <2>4. CASE relay' = Finish(relay, m.reason)
    BY <1>1, <1>2, <2>2, <2>4, FinishHandles
  <2>. QED  BY <2>1, <2>3, <2>4
<1>9. CASE RelayDeadline
  <2>1. relay' = Finish(relay, "Deadline") /\ "Deadline" \in Reasons /\ "Deadline" # "Converged"
    BY <1>9 DEF RelayDeadline, Reasons
  <2>. HIDE DEF cuts
  <2>. QED  BY <1>1, <1>2, <2>1, FinishHandles
<1>. QED  BY <1>4, <1>5, <1>6, <1>7, <1>8, <1>9


LEMMA SeatsPass ==
  ASSUME SInv, NEW f \in Seats, Join(f) \/ Leave(f)
  PROVE  Unconverged
<1>. DEFINE cuts == Cuts(relay, host, toRelay)
<1>1. World(relay, host, toRelay, hist, seat, fromSeat, cuts, late.relay)
  BY SInvIs DEF Whole
<1>2. DOMAIN relay = RelayFields
  BY <1>1, WorldIs
<1>3. CASE Join(f)
  <2>. DEFINE peers == [relay.peers EXCEPT ![f] = [NoPeer EXCEPT !.conn = relay.nextConn, !.delivery = 1]]
              next == relay.nextConn + 1
              outHost == Append(relay.outHost, Roster(peers))
              Q == << [t |-> "binding", delivery |-> 1] >>
                    \o (IF relay.cache = 0 THEN <<>>
                        ELSE << [t |-> "cached", n |-> relay.last, image |-> relay.cache, delivery |-> 1] >>)
              outSeat == [relay.outSeat EXCEPT ![f] = Q]
  <2>1. relay' = [relay EXCEPT !.peers = peers, !.nextConn = next, !.outHost = outHost, !.outSeat = outSeat]
    BY <1>3, Zenon DEF Join
  <2>. HIDE DEF peers, next, outHost, outSeat
  <2>. QED  BY <1>2, <2>1 DEF Unconverged, RelayFields
<1>4. CASE Leave(f)
  <2>. DEFINE ended == IF IsTarget(relay, f) THEN Finish(relay, "TargetChanged") ELSE relay
              peers == [ended.peers EXCEPT ![f] = NoPeer]
              outSeat == [ended.outSeat EXCEPT ![f] = <<>>]
              outHost == Append(ended.outHost, Roster(peers))
  <2>1. relay' = [ended EXCEPT !.peers = peers, !.outHost = outHost, !.outSeat = outSeat]
    BY <1>4, Zenon DEF Leave
  <2>2. ended.outcome = relay.outcome \/ ended.outcome.reason # "Converged"
    <3>1. CASE IsTarget(relay, f)
      <4>1. "TargetChanged" \in Reasons /\ "TargetChanged" # "Converged" /\ ended = Finish(relay, "TargetChanged")
        BY <3>1 DEF Reasons
      <4>. HIDE DEF ended, cuts
      <4>2. Handles(relay, ended, hist, seat, fromSeat, {}, late.relay)
        BY <1>1, <4>1, FinishHandles
      <4>. QED  BY <4>2 DEF Handles, Keeps
    <3>. QED  BY <3>1
  <2>3. DOMAIN ended = RelayFields
    <3>1. Good(relay, host, toRelay, hist)
      BY DEF SInv, IInv
    <3>2. Good(ended, host, toRelay, hist)
      BY <3>1, FinishGood DEF Reasons
    <3>. QED  BY <3>2 DEF Good, Types, Relay
  <2>. HIDE DEF ended, peers, outHost, outSeat
  <2>. QED  BY <2>1, <2>2, <2>3 DEF Unconverged, RelayFields
<1>. QED  BY <1>3, <1>4

\* No update the relay has admitted since the cut is news to the targets.
LEMMA NothingNew ==
  ASSUME SInv, relay.snap # NoSnap, ~relay.changed, NEW n \in relay.begin.cut + 1..relay.last
  PROVE  ~Differs(n, relay.snap)
<1>1. NoNews(relay, hist, relay.last) /\ relay.begin.cut = relay.snap.cut
  BY DEF SInv, Extra, IInv, Good, Transaction
<1>2. relay.snap.cut \in Nat /\ n # relay.snap.cut
  <2>1. relay.snap \in SnapType
    BY DEF SInv, IInv, Good, Types, Relay
  <2>. QED  BY <1>1, <2>1 DEF SnapType
<1>3. (relay.snap.sitOut /\ Boss(hist, n)) \/ Alike(hist, n, relay.snap.cut)
  BY <1>1 DEF NoNews
<1>. QED  BY <1>2, <1>3 DEF Differs, Boss, Alike

LEMMA AckCertifies ==
  ASSUME SInv, NEW f \in Seats, RelayAck(f), ~Unconverged
  PROVE  /\ \A g \in Seats : IsTarget(relay, g) => Certifies(g)
         /\ \A n \in relay.begin.cut + 1..relay.last : ~Differs(n, relay.snap)
<1>. DEFINE cuts == Cuts(relay, host, toRelay)
<1>1. World(relay, host, toRelay, hist, seat, fromSeat, Cuts(relay, host, toRelay), late.relay)
      /\ fromSeat \in [Seats -> Seq(AckType)]
  BY SInvIs DEF Whole
<1>2. InTime /\ fromSeat[f] # <<>> /\ relay' = AdmitAck(relay, f, Head(fromSeat[f]))
  BY DEF RelayAck
<1>3. \E A : Unanimous(relay, A, seat, fromSeat, hist, cuts, late.relay)
  <2>. PICK S : S = relay'
    OBVIOUS
  <2>1. S = AdmitAck(relay, f, Head(fromSeat[f])) /\ ~(S.outcome = relay.outcome \/ S.outcome.reason # "Converged")
    BY <1>2 DEF Unconverged
  <2>2. /\ Keeps(S, S, hist) /\ Everyone(S, seat, fromSeat, S.last, hist, Cuts(S, host, toRelay), late.relay)
           /\ S.floor = relay.floor
        /\ \/ S.outcome = relay.outcome
           \/ S.outcome.reason # "Converged"
           \/ \E A : Unanimous(relay, A, seat, fromSeat, hist, Cuts(relay, host, toRelay), late.relay)
    BY <1>1, <1>2, <2>1, AckHandles
  <2>. QED  BY <2>1, <2>2
<1>. HIDE DEF cuts
<1>4. PICK A : Unanimous(relay, A, seat, fromSeat, hist, cuts, late.relay)
  BY <1>3
<1>5. ASSUME NEW g \in Seats, IsTarget(relay, g) PROVE Certifies(g)
  <2>1. /\ A.plan = relay.plan /\ A.snap = relay.snap /\ A.peers = relay.peers /\ A.outSeat = relay.outSeat /\ g \in A.acks
        /\ Mail(A, g, seat[g], fromSeat[g], relay.last, hist, cuts, late.relay)
        /\ relay.plan # NoPlan /\ relay.snap # NoSnap
    BY <1>4, <1>5 DEF Unanimous, Everyone
  <2>. QED  BY <1>2, <1>5, <2>1, TargetCertified
<1>. QED  BY <1>4, <1>5, NothingNew DEF Unanimous

LEMMA OutcomeCertified ==
  ASSUME SeatsInv, [Next]_vars, relay'.outcome # relay.outcome, relay'.outcome.reason = "Converged"
  PROVE  /\ \A f \in Seats : IsTarget(relay, f) => Certifies(f)
         /\ \A n \in relay.begin.cut + 1..relay.last : ~Differs(n, relay.snap)
<1>1. SInv /\ ~Unconverged
  BY DEF SeatsInv, Unconverged
<1>2. CASE RelayNext
  <2>1. PICK f \in Seats : RelayAck(f)
    BY <1>1, <1>2, RelayEnds, SeatsPass DEF RelayNext
  <2>. QED  BY <1>1, <2>1, AckCertifies
<1>3. CASE UNCHANGED relay
  BY <1>1, <1>3 DEF Unconverged
<1>4. CASE HostNext
  <2>1. UNCHANGED relay \/ \E type : HostReceives(type)
    BY <1>4, Zenon DEF HostNext, HostUpdate, HostRequest, HostCapture, HostPublish, HostCaptureFails, HostDeadline,
                HostRoster, HostPlan, HostResult
  <2>2. DOMAIN relay = RelayFields
    BY <1>1 DEF SInv, IInv, Good, Types, Relay
  <2>3. Unconverged
    BY <2>1, <2>2 DEF HostReceives, Unconverged, RelayFields
  <2>. QED  BY <1>1, <2>3
<1>5. CASE SeatNext
  <2>1. DOMAIN relay = RelayFields
    BY <1>1 DEF SInv, IInv, Good, Types, Relay
  <2>2. PICK f \in Seats : SeatReading(f) \/ SeatActing(f)
    BY <1>1, <1>5, SeatDoes
  <2>3. Unconverged
    <3>1. CASE SeatReading(f)
      <4>1. relay' = [relay EXCEPT !.outSeat[f] = Tail(relay.outSeat[f])]
        BY <3>1 DEF SeatReading, SeatReceives
      <4>. QED  BY <2>1, <4>1 DEF Unconverged, RelayFields
    <3>2. CASE SeatActing(f)
      BY <3>2 DEF SeatActing, Unconverged
    <3>. QED  BY <2>2, <3>1, <3>2
  <2>. QED  BY <1>1, <2>3
<1>6. CASE ClockNext
  BY <1>3, <1>6, Zenon DEF ClockNext, HostClock, RelayClock
<1>. QED  BY <1>2, <1>3, <1>4, <1>5, <1>6 DEF Next, vars


-----------------------------------------------------------------------------
(* The properties of the seats.                                            *)

\* A seat that neither side fences, outside any transaction of its own, is on
\* its way to the relay's world: whatever was fenced, buffered, replayed, cut
\* off or handed out on the way, the last word in its channel is the host's
\* world as the relay's cache has it.
THEOREM SeatsMirror == Spec => []UnfencedSeatsMirror
<1>1. SeatsInv => UnfencedSeatsMirror
  BY UnfencedMirrors DEF SeatsInv
<1>. QED  BY <1>1, SeatsInvariant, PTL

\* A seat that the relay cuts off knows it once it has drained its channel: it
\* never shows a frozen world as the live one.
THEOREM CutOffIsKnown == Spec => []CutOffSeatsKnow
<1>1. SeatsInv => CutOffSeatsKnow
  BY CutOffKnows DEF SeatsInv
<1>. QED  BY <1>1, SeatsInvariant, PTL

\* A seat applies the host's updates in their order and leaves none out but
\* those that a checkpoint's own cut covers.
THEOREM SeatsApplyInOrder == Spec => AppliesInOrder
<1>. DEFINE Step == \A f \in Seats :
                      seat'[f].image # seat[f].image /\ relay'.peers[f].conn = relay.peers[f].conn =>
                        \/ NoUpdateLost(f, seat[f].image, seat'[f].image)
                        \/ /\ seat'[f].floor # seat[f].floor \/ seat[f].image = 0
                           /\ seat'[f].image > seat[f].image
<1>1. SeatsInv /\ [Next]_vars => Step
  <2>. SUFFICES ASSUME SeatsInv, [Next]_vars, NEW f \in Seats,
                       seat'[f].image # seat[f].image, relay'.peers[f].conn = relay.peers[f].conn
                PROVE  \/ NoUpdateLost(f, seat[f].image, seat'[f].image)
                       \/ /\ seat'[f].floor # seat[f].floor \/ seat[f].image = 0
                          /\ seat'[f].image > seat[f].image
    OBVIOUS
  <2>1. SeatReading(f)
    BY OnlyReadingShows
  <2>2. InOrder(seat[f], seat'[f], hist)
    BY <2>1, SeatReadsInOrder DEF SeatsInv
  <2>. QED  BY <2>2 DEF InOrder, NoUpdateLost, Covered
<1>2. SeatsInv /\ [Next]_vars => [Step]_vars
  BY <1>1
<1>. QED  BY <1>2, SeatsInvariant, PTL DEF Spec, AppliesInOrder

\* A transaction ends Converged only when every one of its targets has
\* installed this phase's snapshot, its world reads like the host's, and no
\* update that the relay has admitted since the cut was news.
THEOREM ConvergedCertifies == Spec => ConvergedIsCertified
<1>. DEFINE Step == relay'.outcome # relay.outcome /\ relay'.outcome.reason = "Converged" =>
                      /\ \A f \in Seats : IsTarget(relay, f) => Certifies(f)
                      /\ \A n \in relay.begin.cut + 1..relay.last : ~Differs(n, relay.snap)
<1>1. SeatsInv /\ [Next]_vars => [Step]_vars
  BY OutcomeCertified
<1>. QED  BY <1>1, SeatsInvariant, PTL DEF Spec, ConvergedIsCertified
=============================================================================
