---------------------------- MODULE WorldResync ----------------------------
(***************************************************************************)
(* The forced world resync: the host's request, the relay's transaction    *)
(* (server/src/SessionHost.cpp), the seats that are fenced, handed a       *)
(* snapshot and certified (common/src/NetworkClient.cpp), and the ordinary *)
(* host world updates that keep flowing through all of it.                 *)
(*                                                                         *)
(* The host's producer numbers everything it publishes with one source     *)
(* serial.  hist is that history: hist[n] is either an update of the world *)
(* or the capture of a snapshot, which takes a serial of its own and       *)
(* carries the world unchanged.  A world image is named by the serial of   *)
(* the update that last wrote it, hist[n].at, so that a lost, duplicated   *)
(* or late update is a different image even when the value is the same.    *)
(*                                                                         *)
(* Connections are reliable and ordered (channel 0 of the transport).  A   *)
(* seat's two channels die with its connection.                            *)
(***************************************************************************)
EXTENDS Naturals, Sequences, FiniteSets

CONSTANTS Seats,            \* the friend seats (slots 1 and 2)
          Values,           \* what the world of a room can look like
          BossRows,         \* updates that touch only the rows of the boss
          MaxSerial,        \* bound on the host's source serials
          MaxEpoch,         \* bound on room epochs
          MaxRequests,      \* bound on resync request ids
          MaxConns,         \* bound on connection ids the relay hands out
          MaxContinuation   \* RESYNC_MAX_CONTINUATION_RECORDS

ASSUME ResyncAssumption ==
    /\ BossRows \subseteq Values /\ Values # {}
    /\ MaxSerial \in Nat \ {0} /\ MaxEpoch \in Nat \ {0} /\ MaxRequests \in Nat
    /\ MaxConns \in Nat /\ MaxContinuation \in Nat

VARIABLES hist,       \* the host's source history
          host,       \* the host's NetworkClient and its producer
          toRelay,    \* host -> relay
          relay,      \* the SessionHost, with its outgoing channels
          seat,       \* each friend's NetworkClient and its consumer
          fromSeat,   \* seat -> relay
          late        \* requests whose fixed deadline has passed

vars == <<hist, host, toRelay, relay, seat, fromSeat, late>>

-----------------------------------------------------------------------------
(* Data.                                                                   *)

Serials  == 1..Len(hist)
Requests == 1..MaxRequests
Phases   == {"Bootstrap", "Checkpoint"}
Reasons  == {"Converged", "Busy", "RoomChanged", "HostDeadline", "Deadline", "TargetChanged",
             "CaptureUnavailable", "NativeFailed", "InvalidSnapshot", "Overflow"}

NoTarget  == [conn |-> 0, delivery |-> 0]
NoTargets == [f \in Seats |-> NoTarget]
NoPlan    == [id |-> 0, phase |-> "Bootstrap", epoch |-> 0, targets |-> NoTargets]
NoBegin   == [cut |-> 0, phase |-> "Bootstrap"]
NoSnap    == [cut |-> 0, sitOut |-> FALSE]
NoPeer    == [conn |-> 0, delivery |-> 0, quarantined |-> FALSE, sitOut |-> FALSE, floor |-> 0]
NewSeat   == [bound |-> 0, plan |-> 0, phase |-> "Bootstrap", lastPlan |-> 0, quarantined |-> FALSE,
              floor |-> 0, header |-> 0, done |-> <<0, "Bootstrap">>, native |-> NoSnap,
              finished |-> FALSE, image |-> 0]

Larger(a, b) == IF a > b THEN a ELSE b

\* Update n is no news to a peer that holds the snapshot of cut.  A sit-out
\* leaves the boss to the host, so the boss's rows are never news.
Differs(n, snap) ==
    /\ ~(snap.sitOut /\ hist[n].val \in BossRows)
    /\ \/ hist[n].val # hist[snap.cut].val
       \/ hist[n].epoch # hist[snap.cut].epoch

-----------------------------------------------------------------------------
(* The relay's helpers, each from relay record to relay record.            *)

IsTarget(R, f) == R.plan.targets[f] # NoTarget

\* finishResync(): the only way a transaction ends.
Finish(R, reason) ==
    IF R.plan = NoPlan THEN R ELSE
    [R EXCEPT !.plan = NoPlan, !.begin = NoBegin, !.snap = NoSnap,
              !.cont = [f \in Seats |-> <<>>], !.acks = {},
              !.outcome = [id |-> R.plan.id, reason |-> reason],
              !.peers = [f \in Seats |->
                  IF IsTarget(R, f) /\ reason # "Converged"
                  THEN [@[f] EXCEPT !.quarantined = TRUE, !.sitOut = FALSE]
                  ELSE @[f]],
              !.outHost = Append(@, [t |-> "result", id |-> R.plan.id, reason |-> reason]),
              !.outSeat = [f \in Seats |->
                  IF IsTarget(R, f)
                  THEN Append(@[f], [t |-> "result", id |-> R.plan.id, reason |-> reason])
                  ELSE @[f]]]

\* publishResyncPlan(): fence every target, then ask the host for a capture.
Publish(R) ==
    [R EXCEPT !.outSeat = [f \in Seats |->
                  IF IsTarget(R, f)
                  THEN @[f] \o << [t |-> "binding", delivery |-> R.peers[f].delivery],
                                  [t |-> "plan", id |-> R.plan.id, phase |-> R.plan.phase,
                                   delivery |-> R.plan.targets[f].delivery] >>
                  ELSE @[f]],
              !.outHost = Append(@, [t |-> "plan", id |-> R.plan.id, phase |-> R.plan.phase])]

\* Raise the fence of every target of the plan.
Fence(R) ==
    [R EXCEPT !.peers = [f \in Seats |->
        IF IsTarget(R, f) THEN [@[f] EXCEPT !.quarantined = TRUE, !.sitOut = FALSE]
        ELSE @[f]]]

\* sendTo() of host material: a fenced target's goes to its continuation.
Buffered(R, f) == /\ R.plan # NoPlan /\ ~R.snap.sitOut
                  /\ IsTarget(R, f) /\ R.peers[f].quarantined

Reaches(R, f, n) == R.peers[f].conn # 0 /\ n > R.peers[f].floor

OverflowsLate(R, n) == \E f \in Seats : /\ Reaches(R, f, n) /\ Buffered(R, f)    \* mutant
                                        /\ Len(R.cont[f]) > MaxContinuation
Overflows(R, n) == \E f \in Seats : /\ Reaches(R, f, n) /\ Buffered(R, f)
                                    /\ Len(R.cont[f]) >= MaxContinuation

Envelope(R, f, n) == [t |-> "env", n |-> n, delivery |-> R.peers[f].delivery]

Deliver(R, n) ==
    [R EXCEPT !.cont = [f \in Seats |->
                  IF Reaches(R, f, n) /\ Buffered(R, f)
                  THEN Append(@[f], Envelope(R, f, n)) ELSE @[f]],
              !.outSeat = [f \in Seats |->
                  IF Reaches(R, f, n) /\ ~Buffered(R, f) /\ ~R.peers[f].quarantined
                  THEN Append(@[f], Envelope(R, f, n)) ELSE @[f]]]

\* forwardToOthers(): an overflowing continuation ends the transaction, and
\* the seats it fences then receive nothing.
Forward(R, n) == IF Overflows(R, n) THEN Deliver(Finish(R, "Overflow"), n) ELSE Deliver(R, n)

\* An admitted host update: the cache, the transaction it disturbs, the peers.
Disturb(R, n) ==
    IF R.snap = NoSnap \/ n <= R.begin.cut \/ ~Differs(n, R.snap) THEN R
    ELSE IF R.plan.phase = "Checkpoint" THEN Finish([R EXCEPT !.changed = TRUE], "NativeFailed")
    ELSE [R EXCEPT !.changed = TRUE]

AdmitEnvelope(R, n) ==
    LET left  == IF R.plan # NoPlan /\ hist[n].epoch # R.plan.epoch
                 THEN Finish(R, "RoomChanged") ELSE R
        cached == [left EXCEPT !.cache = n, !.last = Larger(@, n)]
    IN  Forward(Disturb(cached, n), n)

SourceFloor(R) == Larger(R.floor, R.begin.cut)

\* ResyncRequest.  A stale roster, room or id is refused without an answer.
Stale(R, m) == \/ m.roster # [f \in Seats |-> R.peers[f].conn]
               \/ R.cache = 0
               \/ m.epoch # hist[R.cache].epoch

Start(R, m) ==
    Publish(Fence([R EXCEPT
        !.lastId = m.id, !.changed = FALSE, !.begin = NoBegin, !.snap = NoSnap, !.acks = {},
        !.peers = [f \in Seats |-> IF f \in m.mask
                                   THEN [R.peers[f] EXCEPT !.delivery = R.peers[f].delivery + 1]
                                   ELSE R.peers[f]],
        !.plan = [id |-> m.id, phase |-> "Bootstrap", epoch |-> m.epoch,
                  targets |-> [f \in Seats |-> IF f \in m.mask
                               THEN [conn |-> R.peers[f].conn, delivery |-> R.peers[f].delivery + 1]
                               ELSE NoTarget]]]))

AdmitRequest(R, m) ==
    IF Stale(R, m) THEN R
    ELSE IF R.plan # NoPlan
    THEN IF m.id = R.plan.id THEN R
         ELSE [R EXCEPT !.outcome = [id |-> m.id, reason |-> "Busy"],
                        !.outHost = Append(@, [t |-> "result", id |-> m.id, reason |-> "Busy"])]
    ELSE IF m.id <= R.lastId \/ \E f \in m.mask : R.peers[f].conn = 0 THEN R
    ELSE Start(R, m)

\* ResyncBegin: one snapshot a phase, and a later cut for the checkpoint.
Misplaced(R, m) == \/ m.id # R.plan.id \/ m.phase # R.plan.phase
                   \/ hist[m.cut].epoch # R.plan.epoch

AdmitBegin(R, m) ==
    IF R.plan = NoPlan \/ Misplaced(R, m) THEN R
    ELSE IF R.begin # NoBegin /\ (m.phase = R.begin.phase \/ m.cut <= R.begin.cut)
    THEN Finish(R, "InvalidSnapshot")
    ELSE [R EXCEPT !.begin = [cut |-> m.cut, phase |-> m.phase]]

\* The continuation that outlives the snapshot: its serials rise, so it is the end of it.
AfterLate(queue, cut) ==                                              \* mutant
    LET later == {i \in 1..Len(queue) : queue[i].n > cut + 1}
        first == CHOOSE i \in later : \A j \in later : i <= j
    IN  IF later = {} THEN <<>> ELSE SubSeq(queue, first, Len(queue))
After(queue, cut) ==
    LET later == {i \in 1..Len(queue) : queue[i].n > cut}
        first == CHOOSE i \in later : \A j \in later : i <= j
    IN  IF later = {} THEN <<>> ELSE SubSeq(queue, first, Len(queue))

NewsQueuedIgnored(R, snap) == FALSE                                   \* mutant
NewsQueued(R, snap) == \E f \in Seats : \E i \in 1..Len(R.cont[f]) :
    R.cont[f][i].n > snap.cut /\ Differs(R.cont[f][i].n, snap)

\* refreshResyncCache(): the snapshot, then the first target's continuation.
RefreshForgetful(R, cut) == hist[cut].at                              \* mutant
Refresh(R, cut) ==
    LET first == CHOOSE f \in Seats : IsTarget(R, f)
        queue == R.cont[first]
        later == {i \in 1..Len(queue) : queue[i].n > cut}
        final == CHOOSE i \in later : \A j \in later : j <= i
    IN  IF later = {} THEN hist[cut].at ELSE queue[final].n

\* The snapshot to every target, the fence lowered, the continuation after it.
HandOut(R, m) ==
    [R EXCEPT
        !.cont = [f \in Seats |-> IF IsTarget(R, f) THEN <<>> ELSE @[f]],
        !.peers = [f \in Seats |-> IF IsTarget(R, f)
                   THEN [R.peers[f] EXCEPT !.floor = m.cut, !.sitOut = m.sitOut,
                                           !.quarantined = m.sitOut /\ R.peers[f].quarantined]
                   ELSE R.peers[f]],
        !.outSeat = [f \in Seats |-> IF IsTarget(R, f)
                     THEN @[f] \o << [t |-> "begin", id |-> m.id, phase |-> m.phase, cut |-> m.cut],
                                     [t |-> "end", id |-> m.id, phase |-> m.phase, cut |-> m.cut,
                                      sitOut |-> m.sitOut] >>
                               \o (IF m.sitOut THEN <<>> ELSE After(R.cont[f], m.cut))
                     ELSE @[f]]]

AdmitEnd(R, m) ==
    IF R.plan = NoPlan \/ m.id # R.plan.id THEN R
    ELSE IF R.begin.cut # m.cut \/ R.begin.phase # m.phase THEN Finish(R, "InvalidSnapshot")
    ELSE LET snap == [cut |-> m.cut, sitOut |-> m.sitOut]
             news == NewsQueued(R, snap)
             held == [R EXCEPT !.snap = snap, !.changed = news]
         IN  IF news /\ R.plan.phase = "Checkpoint" THEN Finish(held, "NativeFailed")
             ELSE HandOut([held EXCEPT
                      !.cache = IF m.sitOut THEN @ ELSE Refresh(R, m.cut),
                      !.floor = Larger(@, m.cut),
                      !.last  = Larger(@, m.cut)], m)

\* ResyncAck.  News since the snapshot sends everyone through a checkpoint.
Checkpoint(R) == Publish(Fence([R EXCEPT !.plan.phase = "Checkpoint", !.snap = NoSnap,
                                         !.acks = {}, !.changed = FALSE]))

AckAdmitted(R, f, a) == /\ R.plan # NoPlan /\ a.id = R.plan.id /\ a.phase = R.plan.phase
                        /\ R.plan.targets[f] = [conn |-> R.peers[f].conn, delivery |-> a.delivery]

AdmitAck(R, f, a) ==
    IF ~AckAdmitted(R, f, a) THEN R
    ELSE IF a.status # "Converged" THEN Finish(R, "NativeFailed")
    ELSE IF R.snap = NoSnap \/ a.cut # R.begin.cut THEN R
    ELSE IF R.changed THEN Checkpoint(R)
    ELSE LET acked == [R EXCEPT !.acks = @ \cup {f}]
         IN  IF \A g \in Seats : IsTarget(R, g) => g \in acked.acks
             THEN Finish(acked, "Converged") ELSE acked

-----------------------------------------------------------------------------
(* The host's actions.                                                     *)

HostBusy == IF host.plan # 0 THEN host.plan ELSE host.asked

Init ==
    /\ hist = << [at |-> 1, epoch |-> 1, val |-> CHOOSE v \in Values : TRUE] >>
    /\ host = [plan |-> 0, phase |-> "Bootstrap", asked |-> 0, next |-> 1, lastPlan |-> 0,
               captured |-> TRUE, staged |-> NoSnap, roster |-> [f \in Seats |-> 0]]
    /\ toRelay = << [t |-> "env", n |-> 1] >>
    /\ relay = [plan |-> NoPlan, begin |-> NoBegin, snap |-> NoSnap, changed |-> FALSE,
                acks |-> {}, cont |-> [f \in Seats |-> <<>>], floor |-> 0, last |-> 0, cache |-> 0,
                lastId |-> 0, outcome |-> [id |-> 0, reason |-> "Busy"], nextConn |-> 1,
                peers |-> [f \in Seats |-> NoPeer],
                outHost |-> <<>>, outSeat |-> [f \in Seats |-> <<>>]]
    /\ seat = [f \in Seats |-> NewSeat]
    /\ fromSeat = [f \in Seats |-> <<>>]
    /\ late = [host |-> {}, relay |-> {}]

\* The producer publishes the next update, in this room or in a new one.
HostUpdate(v, e) ==
    /\ Len(hist) < MaxSerial
    /\ LET n == Len(hist) + 1
       IN /\ hist' = Append(hist, [at |-> n, epoch |-> e, val |-> v])
          /\ toRelay' = Append(toRelay, [t |-> "env", n |-> n])
    /\ UNCHANGED <<host, relay, seat, fromSeat, late>>

\* requestWorldResync(): one request at a time, for seats of the host's roster.
Request(h, mask) == [t |-> "request", id |-> h.next, mask |-> mask,
                     epoch |-> hist[Len(hist)].epoch, roster |-> h.roster]

HostRequest(mask) ==
    /\ HostBusy = 0 /\ host.next <= MaxRequests
    /\ mask # {} /\ \A f \in mask : host.roster[f] # 0
    /\ toRelay' = Append(toRelay, Request(host, mask))
    /\ host' = [host EXCEPT !.asked = host.next, !.next = @ + 1]
    /\ UNCHANGED <<hist, relay, seat, fromSeat, late>>

\* CaptureHostResync(): the snapshot takes the next serial.  It leaves a
\* producer tick later, so newer updates can overtake it.
HostCapture(sitOut) ==
    /\ host.plan # 0 /\ ~host.captured /\ Len(hist) < MaxSerial
    /\ hist' = Append(hist, hist[Len(hist)])
    /\ host' = [host EXCEPT !.captured = TRUE,
                            !.staged = [cut |-> Len(hist) + 1, sitOut |-> sitOut]]
    /\ UNCHANGED <<toRelay, relay, seat, fromSeat, late>>

\* sendResyncCapture(): the staged capture leaves as one Begin and one End.
HostPublish ==
    /\ host.plan # 0 /\ host.staged # NoSnap
    /\ LET head == [t |-> "begin", id |-> host.plan, phase |-> host.phase, cut |-> host.staged.cut]
           tail == [t |-> "end", id |-> host.plan, phase |-> host.phase,
                    cut |-> host.staged.cut, sitOut |-> host.staged.sitOut]
       IN toRelay' = toRelay \o <<head, tail>>
    /\ host' = [host EXCEPT !.staged = NoSnap]
    /\ UNCHANGED <<hist, relay, seat, fromSeat, late>>

\* QueueResyncFailure(): no complete capture.  The plan stays until its result.
HostCaptureFails ==
    /\ host.plan # 0 /\ ~host.captured
    /\ toRelay' = Append(toRelay, [t |-> "failure", id |-> host.plan, reason |-> "CaptureUnavailable"])
    /\ host' = [host EXCEPT !.captured = TRUE]
    /\ UNCHANGED <<hist, relay, seat, fromSeat, late>>

\* abortResync(Deadline) on the host: the request's own thirty seconds.
HostDeadlineOfPlan ==                                                 \* mutant
    /\ host.plan # 0 /\ HostBusy \in late.host
    /\ toRelay' = Append(toRelay, [t |-> "failure", id |-> HostBusy, reason |-> "HostDeadline"])
    /\ host' = [host EXCEPT !.plan = 0, !.asked = 0, !.staged = NoSnap, !.captured = TRUE,
                            !.lastPlan = Larger(@, HostBusy)]
    /\ UNCHANGED <<hist, relay, seat, fromSeat, late>>
HostDeadlineForgotten ==                                              \* mutant
    /\ HostBusy # 0 /\ HostBusy \in late.host
    /\ toRelay' = Append(toRelay, [t |-> "failure", id |-> HostBusy, reason |-> "HostDeadline"])
    /\ host' = [host EXCEPT !.plan = 0, !.asked = 0, !.staged = NoSnap, !.captured = TRUE]
    /\ UNCHANGED <<hist, relay, seat, fromSeat, late>>
HostDeadline ==
    /\ HostBusy # 0 /\ HostBusy \in late.host
    /\ toRelay' = Append(toRelay, [t |-> "failure", id |-> HostBusy, reason |-> "HostDeadline"])
    /\ host' = [host EXCEPT !.plan = 0, !.asked = 0, !.staged = NoSnap, !.captured = TRUE,
                            !.lastPlan = Larger(@, HostBusy)]
    /\ UNCHANGED <<hist, relay, seat, fromSeat, late>>

\* The host's handlers check the deadline before anything else.
HostReceives(type) ==
    /\ HostBusy \notin late.host
    /\ relay.outHost # <<>> /\ Head(relay.outHost).t = type
    /\ relay' = [relay EXCEPT !.outHost = Tail(@)]
    /\ UNCHANGED <<hist, seat, fromSeat, late>>

HostRoster ==
    /\ HostReceives("roster")
    /\ host' = [host EXCEPT !.roster = Head(relay.outHost).roster]
    /\ UNCHANGED toRelay

HostPlan ==
    /\ HostReceives("plan") /\ UNCHANGED toRelay
    /\ LET m == Head(relay.outHost)
           ignored == IF host.plan = 0 THEN m.id <= host.lastPlan
                      ELSE m.id # host.plan \/ m.phase = host.phase \/ m.phase = "Bootstrap"
       IN host' = IF ignored THEN host
                  ELSE [host EXCEPT !.plan = m.id, !.phase = m.phase, !.lastPlan = m.id,
                                    !.asked = 0, !.captured = FALSE, !.staged = NoSnap]

HostResult ==
    /\ HostReceives("result") /\ UNCHANGED toRelay
    /\ host' = IF Head(relay.outHost).id = HostBusy
               THEN [host EXCEPT !.plan = 0, !.asked = 0, !.staged = NoSnap, !.captured = TRUE]
               ELSE host

-----------------------------------------------------------------------------
(* The relay's actions.                                                    *)

\* A resync packet is handled only after pumpResync() retired a late plan.
InTime == relay.plan.id \notin late.relay

RelayReceives(type) ==
    /\ toRelay # <<>> /\ Head(toRelay).t = type
    /\ toRelay' = Tail(toRelay)
    /\ UNCHANGED <<hist, host, seat, fromSeat, late>>

RelayEnvelope ==
    /\ RelayReceives("env")
    /\ LET n == Head(toRelay).n
       IN relay' = IF n <= SourceFloor(relay) THEN relay ELSE AdmitEnvelope(relay, n)

RelayRequest == InTime /\ RelayReceives("request") /\ relay' = AdmitRequest(relay, Head(toRelay))

RelayBegin == InTime /\ RelayReceives("begin") /\ relay' = AdmitBegin(relay, Head(toRelay))

RelayEnd == InTime /\ RelayReceives("end") /\ relay' = AdmitEnd(relay, Head(toRelay))

\* ResyncResult from the host: its capture or its deadline failed.
RelayFailure ==
    /\ InTime /\ RelayReceives("failure")
    /\ relay' = IF Head(toRelay).id = relay.plan.id THEN Finish(relay, Head(toRelay).reason)
                ELSE relay

RelayAck(f) ==
    /\ InTime /\ fromSeat[f] # <<>>
    /\ relay' = AdmitAck(relay, f, Head(fromSeat[f]))
    /\ fromSeat' = [fromSeat EXCEPT ![f] = Tail(@)]
    /\ UNCHANGED <<hist, host, toRelay, seat, late>>

\* pumpResync() from tick().
RelayDeadlineOfCapture ==                                             \* mutant
    /\ relay.plan # NoPlan /\ ~InTime /\ relay.snap = NoSnap
    /\ relay' = Finish(relay, "Deadline")
    /\ UNCHANGED <<hist, host, toRelay, seat, fromSeat, late>>
RelayDeadline ==
    /\ relay.plan # NoPlan /\ ~InTime
    /\ relay' = Finish(relay, "Deadline")
    /\ UNCHANGED <<hist, host, toRelay, seat, fromSeat, late>>

Roster(peers) == [t |-> "roster", roster |-> [f \in Seats |-> peers[f].conn]]

\* ClientHello accepted: a fresh connection id, the roster, the cached world.
Join(f) ==
    /\ relay.peers[f].conn = 0 /\ relay.nextConn <= MaxConns
    /\ LET peers == [relay.peers EXCEPT ![f] = [NoPeer EXCEPT !.conn = relay.nextConn, !.delivery = 1]]
       IN relay' = [relay EXCEPT
              !.peers = peers, !.nextConn = @ + 1, !.outHost = Append(@, Roster(peers)),
              !.outSeat[f] = << [t |-> "binding", delivery |-> 1] >>
                  \o (IF relay.cache = 0 THEN <<>>
                      ELSE << [t |-> "cached", n |-> relay.last, image |-> relay.cache, delivery |-> 1] >>)]
    /\ UNCHANGED <<hist, host, toRelay, seat, fromSeat, late>>

\* removePeer() of a seat: disconnect, kick or heartbeat expiry.
Leave(f) ==
    /\ relay.peers[f].conn # 0
    /\ LET ended == IF IsTarget(relay, f) THEN Finish(relay, "TargetChanged") ELSE relay
           peers == [ended.peers EXCEPT ![f] = NoPeer]
       IN relay' = [ended EXCEPT !.peers = peers, !.outHost = Append(@, Roster(peers)),
                                 !.outSeat[f] = <<>>]
    /\ seat' = [seat EXCEPT ![f] = NewSeat]
    /\ fromSeat' = [fromSeat EXCEPT ![f] = <<>>]
    /\ UNCHANGED <<hist, host, toRelay, late>>

-----------------------------------------------------------------------------
(* The seats' actions.                                                     *)

SeatReceives(f, type) ==
    /\ relay.outSeat[f] # <<>> /\ Head(relay.outSeat[f]).t = type
    /\ relay' = [relay EXCEPT !.outSeat[f] = Tail(@)]
    /\ UNCHANGED <<hist, host, toRelay, late>>

\* WorldBinding: a new delivery serial after the first fences the seat.
SeatBinding(f) ==
    /\ SeatReceives(f, "binding")
    /\ LET d == Head(relay.outSeat[f]).delivery
       IN seat' = IF d < seat[f].bound THEN seat
                  ELSE [seat EXCEPT ![f].bound = d,
                                    ![f].quarantined = @ \/ (d # seat[f].bound /\ d > 1)]
    /\ UNCHANGED fromSeat

\* ResyncPlan for this seat's connection and delivery serial.
SeatPlan(f) ==
    /\ SeatReceives(f, "plan")
    /\ LET m == Head(relay.outSeat[f])
           q == seat[f]
           ignored == \/ m.delivery # q.bound
                      \/ IF q.plan = 0 THEN m.id <= q.lastPlan
                         ELSE m.id # q.plan \/ m.phase = q.phase \/ m.phase = "Bootstrap"
       IN seat' = IF ignored THEN seat
                  ELSE [seat EXCEPT ![f].plan = m.id, ![f].phase = m.phase, ![f].lastPlan = m.id,
                                    ![f].header = 0, ![f].quarantined = TRUE,
                                    ![f].native = NoSnap, ![f].finished = FALSE]
    /\ UNCHANGED fromSeat

Expected(f, m) == seat[f].plan = m.id /\ seat[f].phase = m.phase /\ seat[f].done # <<m.id, m.phase>>

SeatBegin(f) ==
    /\ SeatReceives(f, "begin")
    /\ LET m == Head(relay.outSeat[f])
       IN seat' = IF Expected(f, m) THEN [seat EXCEPT ![f].header = m.cut] ELSE seat
    /\ UNCHANGED fromSeat

\* ResyncEnd lowers the seat's own fence.  A bootstrap snapshot replaces the
\* seat's world; a sit-out restores nothing and a checkpoint only observes.
Restores(m) == m.phase = "Bootstrap" /\ ~m.sitOut

SeatEnd(f) ==
    /\ SeatReceives(f, "end")
    /\ LET m == Head(relay.outSeat[f])
       IN seat' = IF ~Expected(f, m) \/ seat[f].header # m.cut THEN seat
                  ELSE [seat EXCEPT ![f].floor = m.cut, ![f].quarantined = FALSE,
                            ![f].done = <<m.id, m.phase>>, ![f].header = 0,
                            ![f].native = [cut |-> m.cut, sitOut |-> m.sitOut],
                            ![f].image = IF Restores(m) THEN hist[m.cut].at ELSE @]
    /\ UNCHANGED fromSeat

\* Host world envelopes, live or replayed from the relay's cache.
Admits(f, m) == m.delivery = seat[f].bound /\ m.n > seat[f].floor /\ ~seat[f].quarantined

SeatEnvelope(f) ==
    /\ SeatReceives(f, "env")
    /\ LET m == Head(relay.outSeat[f])
       IN seat' = IF Admits(f, m) THEN [seat EXCEPT ![f].image = m.n] ELSE seat
    /\ UNCHANGED fromSeat

SeatCached(f) ==
    /\ SeatReceives(f, "cached")
    /\ LET m == Head(relay.outSeat[f])
       IN seat' = IF Admits(f, m) THEN [seat EXCEPT ![f].image = m.image] ELSE seat
    /\ UNCHANGED fromSeat

SeatResultForgiving(f) ==                                             \* mutant
    /\ SeatReceives(f, "result")
    /\ LET m == Head(relay.outSeat[f])
       IN seat' = IF m.id # seat[f].plan THEN seat
                  ELSE [seat EXCEPT ![f].plan = 0, ![f].header = 0, ![f].native = NoSnap,
                                    ![f].finished = FALSE]
    /\ UNCHANGED fromSeat
SeatResult(f) ==
    /\ SeatReceives(f, "result")
    /\ LET m == Head(relay.outSeat[f])
       IN seat' = IF m.id # seat[f].plan THEN seat
                  ELSE [seat EXCEPT ![f].plan = 0, ![f].header = 0, ![f].native = NoSnap,
                                    ![f].finished = FALSE,
                                    ![f].quarantined = @ \/ m.reason # "Converged"]
    /\ UNCHANGED fromSeat

Ack(f, status, cut) == [t |-> "ack", id |-> seat[f].plan, phase |-> seat[f].phase,
                        delivery |-> seat[f].bound, status |-> status, cut |-> cut]

\* QueueNativeAck(Converged): the seat's own world reads back as the snapshot.
RestoredUnread(f) == TRUE                                             \* mutant
Restored(f) == \/ seat[f].native.sitOut
               \/ seat[f].image # 0 /\ ~Differs(seat[f].image, seat[f].native)

SeatConverges(f) ==
    /\ seat[f].plan # 0 /\ seat[f].native # NoSnap /\ ~seat[f].finished /\ Restored(f)
    /\ fromSeat' = [fromSeat EXCEPT ![f] = Append(@, Ack(f, "Converged", seat[f].native.cut))]
    /\ seat' = [seat EXCEPT ![f].finished = TRUE]
    /\ UNCHANGED <<hist, host, toRelay, relay, late>>

\* QueueNativeAck(Failed or Unavailable): the native world refused.
SeatFails(f) ==
    /\ seat[f].plan # 0 /\ seat[f].native # NoSnap /\ ~seat[f].finished
    /\ fromSeat' = [fromSeat EXCEPT ![f] = Append(@, Ack(f, "Failed", seat[f].native.cut))]
    /\ seat' = [seat EXCEPT ![f].finished = TRUE, ![f].quarantined = TRUE]
    /\ UNCHANGED <<hist, host, toRelay, relay, late>>

\* abortResync(Deadline) on a seat.  Its deadline is the remaining time the
\* relay wrote into the plan counted from the plan's arrival: never earlier
\* than the relay's own.
SeatDeadlineOfCapture(f) ==                                           \* mutant
    /\ seat[f].plan # 0 /\ seat[f].native = NoSnap /\ seat[f].plan \in late.relay
    /\ fromSeat' = [fromSeat EXCEPT ![f] = Append(@, Ack(f, "Failed", 0))]
    /\ seat' = [seat EXCEPT ![f].plan = 0, ![f].header = 0, ![f].quarantined = TRUE,
                            ![f].native = NoSnap, ![f].finished = FALSE]
    /\ UNCHANGED <<hist, host, toRelay, relay, late>>
SeatDeadline(f) ==
    /\ seat[f].plan # 0 /\ seat[f].plan \in late.relay
    /\ fromSeat' = [fromSeat EXCEPT ![f] = Append(@, Ack(f, "Failed", 0))]
    /\ seat' = [seat EXCEPT ![f].plan = 0, ![f].header = 0, ![f].quarantined = TRUE,
                            ![f].native = NoSnap, ![f].finished = FALSE]
    /\ UNCHANGED <<hist, host, toRelay, relay, late>>

-----------------------------------------------------------------------------
(* Time: thirty seconds from the request, then from the relay's admission. *)

HostClock(id) ==
    /\ id < host.next /\ id \notin late.host
    /\ \/ HostBusy = id \/ relay.plan.id = id \/ \E f \in Seats : seat[f].plan = id
    /\ late' = [late EXCEPT !.host = @ \cup {id}]
    /\ UNCHANGED <<hist, host, toRelay, relay, seat, fromSeat>>

RelayClock(id) ==
    /\ id <= relay.lastId /\ id \in late.host /\ id \notin late.relay
    /\ relay.plan.id = id \/ \E f \in Seats : seat[f].plan = id
    /\ late' = [late EXCEPT !.relay = @ \cup {id}]
    /\ UNCHANGED <<hist, host, toRelay, relay, seat, fromSeat>>

HostNext ==
    \/ \E v \in Values, e \in 1..MaxEpoch :
          e \in {hist[Len(hist)].epoch, hist[Len(hist)].epoch + 1} /\ HostUpdate(v, e)
    \/ \E mask \in SUBSET Seats : HostRequest(mask)
    \/ \E sitOut \in BOOLEAN : HostCapture(sitOut)
    \/ HostPublish \/ HostCaptureFails \/ HostDeadline
    \/ HostRoster \/ HostPlan \/ HostResult

RelayNext ==
    \/ RelayEnvelope \/ RelayRequest \/ RelayBegin \/ RelayEnd \/ RelayFailure \/ RelayDeadline
    \/ \E f \in Seats : RelayAck(f) \/ Join(f) \/ Leave(f)

SeatNext ==
    \E f \in Seats :
        \/ SeatBinding(f) \/ SeatPlan(f) \/ SeatBegin(f) \/ SeatEnd(f) \/ SeatEnvelope(f)
        \/ SeatCached(f) \/ SeatResult(f)
        \/ SeatConverges(f) \/ SeatFails(f) \/ SeatDeadline(f)

ClockNext == \E id \in Requests : HostClock(id) \/ RelayClock(id)

Next == HostNext \/ RelayNext \/ SeatNext \/ ClockNext

Spec == Init /\ [][Next]_vars

-----------------------------------------------------------------------------
(* Correctness.                                                            *)

Message == [t : {"env"}, n : Serials]
    \cup [t : {"request"}, id : Requests, mask : SUBSET Seats, epoch : 1..MaxEpoch,
          roster : [Seats -> 0..MaxConns]]
    \cup [t : {"begin"}, id : Requests, phase : Phases, cut : Serials]
    \cup [t : {"end"}, id : Requests, phase : Phases, cut : Serials, sitOut : BOOLEAN]
    \cup [t : {"failure"}, id : Requests, reason : Reasons]

\* Every serial the relay and the seats hold is one the host has handed out,
\* and every transaction they speak of is one the host asked for.
TypeOK ==
    /\ hist \in Seq([at : Serials, epoch : 1..MaxEpoch, val : Values]) /\ hist # <<>>
    /\ \A i \in 1..Len(toRelay) : toRelay[i] \in Message
    /\ host.next \in 1..(MaxRequests + 1)
    /\ {host.plan, host.asked, host.lastPlan, relay.lastId, relay.plan.id} \subseteq 0..(host.next - 1)
    /\ {relay.floor, relay.last, relay.cache, relay.begin.cut, relay.snap.cut} \subseteq 0..Len(hist)
    /\ \A f \in Seats :
          /\ relay.peers[f].conn \in 0..(relay.nextConn - 1)
          /\ relay.peers[f].delivery \in 0..(MaxRequests + 1)
          /\ seat[f].bound \in 0..relay.peers[f].delivery
          /\ {seat[f].floor, seat[f].image} \subseteq 0..Len(hist)
          /\ {seat[f].plan, seat[f].lastPlan} \subseteq 0..relay.lastId
          /\ Len(relay.cont[f]) <= MaxContinuation

\* refreshResyncCache() rebuilds the cache from the snapshot and the records
\* that overtook it: the cache a late joiner is caught up from is always the
\* host's world at the last serial the relay has admitted.
CacheIsCurrent == relay.last # 0 => relay.cache = hist[relay.last].at

\* The seat applies the host's updates in their order and leaves none out,
\* whatever is fenced, buffered, replayed or replaced by a snapshot on the
\* way.  Only a checkpoint drops some: those its own cut already covers, which
\* its observation must then find in the seat's world.
Covered(f, n) == n <= seat[f].floor /\ seat[f].done[2] = "Checkpoint"
NoUpdateLost(f, from, to) ==
    /\ from < to
    /\ \A n \in from + 1..to - 1 : hist[n].at # n \/ Covered(f, n)
AppliesInOrder ==
    [][ \A f \in Seats :
          seat'[f].image # seat[f].image /\ relay'.peers[f].conn = relay.peers[f].conn =>
              \/ NoUpdateLost(f, seat[f].image, seat'[f].image)
              \/ /\ seat'[f].floor # seat[f].floor \/ seat[f].image = 0
                 /\ seat'[f].image > seat[f].image ]_vars

\* The world a seat ends up with once it has drained its channel.
News(m) == m.t \in {"env", "cached"} \/ (m.t = "end" /\ Restores(m))
Shows(m) == IF m.t = "env" THEN m.n ELSE IF m.t = "end" THEN hist[m.cut].at ELSE m.image
Destined(f) ==
    LET queue == relay.outSeat[f]
        news  == {i \in 1..Len(queue) : News(queue[i])}
        last  == CHOOSE i \in news : \A j \in news : j <= i
    IN  IF news = {} THEN seat[f].image ELSE Shows(queue[last])

SameWorld(m, n) == \/ m = n
                   \/ m # 0 /\ n # 0 /\ hist[m].val = hist[n].val /\ hist[m].epoch = hist[n].epoch

\* A seat that neither side fences, outside any transaction of its own, is on
\* its way to the relay's world.
UnfencedSeatsMirror ==
    \A f \in Seats :
        relay.peers[f].conn # 0 /\ ~relay.peers[f].quarantined /\ ~seat[f].quarantined /\ ~IsTarget(relay, f)
            => SameWorld(Destined(f), relay.cache)

\* A transaction ends Converged only when every one of its original targets
\* installed this phase's snapshot, its world reads like the host's, and no
\* update the relay admitted since the cut was news.
Certifies(f) == /\ seat[f].done = <<relay.plan.id, relay.plan.phase>> /\ seat[f].floor = relay.begin.cut
                /\ ~relay.snap.sitOut => SameWorld(Destined(f), relay.cache)
ConvergedIsCertified ==
    [][ relay'.outcome # relay.outcome /\ relay'.outcome.reason = "Converged" =>
          /\ \A f \in Seats : IsTarget(relay, f) => Certifies(f)
          /\ \A n \in relay.begin.cut + 1..relay.last : ~Differs(n, relay.snap) ]_vars

\* A seat the relay cuts off, its failed transaction over or not, knows it once
\* it has drained its channel: it shows no further host update and never shows
\* a frozen world as the live one.
CutOffSeatsKnow ==
    \A f \in Seats :
        relay.peers[f].quarantined /\ ~relay.peers[f].sitOut /\ relay.outSeat[f] = <<>>
            => seat[f].quarantined

\* Thirty seconds end every transaction, whoever fell silent: it comes to rest
\* on the relay, on the host (a request the relay never answered included)
\* and on every seat.
Running(id) == HostBusy = id \/ relay.plan.id = id \/ \E f \in Seats : seat[f].plan = id
TransactionsEnd == \A id \in Requests : []<>~Running(id)

=============================================================================
