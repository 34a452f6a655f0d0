--------------------------- MODULE ResyncPolicies ---------------------------
(***************************************************************************)
(* Who asks for a resync.  The host's runtime owns two policies, and       *)
(* nothing else in it submits a request:                                   *)
(*   AutomaticResyncNotice: the relay noticed that a seat shows none of    *)
(*     the room's enemies, and the notice is a hint to recover that seat;  *)
(*   ReturningSeatResync: a peer came back on its seat with a new          *)
(*     connection, and stays "returning" until a recovery converges.       *)
(* Both live on the host's network thread.  They are fed by the callbacks  *)
(* of NetworkClient::tick (roster, notice, terminal result) and pumped     *)
(* once after each tick.                                                   *)
(*                                                                         *)
(* WorldResync gives the transaction; here its free HostRequest is         *)
(* replaced by the policies.  One host session: the host's own connection  *)
(* never changes.                                                          *)
(***************************************************************************)
EXTENDS WorldResync, FiniteSetsExt

CONSTANTS Peers,        \* who may sit on a seat
          Fields,       \* the sets of fields of a notice that ask for a recovery
          MaxNotices,   \* bound on the notices the relay sends
          MaxEvents     \* bound on source serials and notices together

ASSUME PoliciesAssumption ==
    MaxNotices \in Nat /\ MaxEvents \in Nat /\ Peers # {} /\ Fields # {}

VARIABLES policy,     \* the two policies
          owner,      \* whose each connection is, as the roster says it
          told,       \* how many notices the relay has sent
          recovered   \* history: connections a full recovery was certified for

own == <<policy, owner, told, recovered>>
allvars == <<vars, own>>

NoHint   == [fields |-> {}, roster |-> [f \in Seats |-> 0], epoch |-> 0]
NoReturn == [peer |-> "", conn |-> 0, pending |-> FALSE, spent |-> 0, key |-> 0]
NoScope  == [conn |-> 0, epoch |-> 0, tried |-> {}, pending |-> NoHint]

PolicyInit ==
    /\ Init
    /\ policy = [ret |-> [f \in Seats |-> NoReturn], hint |-> [f \in Seats |-> NoScope],
                 drain |-> FALSE, sitOutKey |-> 0]
    /\ owner = [c \in 1..MaxConns |-> ""]
    /\ told = 0
    /\ recovered = {}

-----------------------------------------------------------------------------
(* What a handler works on: the host's client, its channel, the policies.  *)

Now == [host |-> host, out |-> toRelay, pol |-> policy]
Becomes(S) == host' = S.host /\ toRelay' = S.out /\ policy' = S.pol

RoomNow == hist[Len(hist)].epoch
Busy(h) == h.plan # 0 \/ h.asked # 0

\* submitAutomaticResync(): requestWorldResync() for one seat.  The id is used
\* up even when the transport does not take the packet.
Refused(S) == Busy(S.host) \/ S.host.next > MaxRequests
Submit(S, f, sent) ==
    IF Refused(S) THEN S
    ELSE [S EXCEPT !.host.next  = @ + 1,
                   !.host.asked = IF sent THEN S.host.next ELSE 0,
                   !.out        = IF sent THEN Append(@, Request(S.host, {f})) ELSE @]

\* AutomaticResyncNotice::Send.  A failed submission is spent like any other.
Send(S, f, sent) ==
    [Submit(S, f, sent) EXCEPT !.pol.hint[f].tried = @ \cup {S.pol.hint[f].pending.fields},
                               !.pol.hint[f].pending = NoHint]

\* AutomaticResyncNotice::Synchronize.
Outdated(S, hint) == hint # NoHint /\ (hint.roster # S.host.roster \/ hint.epoch # RoomNow)
Synchronize(S) ==
    [S EXCEPT !.pol.hint = [f \in Seats |->
        IF Outdated(S, @[f].pending) THEN [@[f] EXCEPT !.pending = NoHint] ELSE @[f]]]

\* AutomaticResyncNotice::Notice.  A connection's tries are counted per room.
Scope(S, f, epoch) ==
    IF S.pol.hint[f].conn = S.host.roster[f] /\ S.pol.hint[f].epoch = epoch THEN S
    ELSE [S EXCEPT !.pol.hint[f] = [NoScope EXCEPT !.conn = S.host.roster[f], !.epoch = epoch]]

Notice(S, m, sent) ==
    IF S.host.roster[m.seat] = 0 \/ m.epoch # RoomNow THEN S
    ELSE LET scoped == Scope(Synchronize(S), m.seat, m.epoch)
             known  == scoped.pol.hint[m.seat]
             hint   == [fields |-> m.fields, roster |-> S.host.roster, epoch |-> m.epoch]
             kept   == [scoped EXCEPT !.pol.hint[m.seat].pending = hint]
         IN  IF m.fields \in known.tried \/ known.pending.fields = m.fields THEN scoped
             ELSE IF Busy(S.host) THEN kept ELSE Send(kept, m.seat, sent)

\* AutomaticResyncNotice::Pump: drain only after a terminal result.
DrainOne(f, S, sent) ==
    IF S.pol.hint[f].pending = NoHint \/ Busy(S.host) THEN S ELSE Send(S, f, sent)
PumpNotices(S, sent) ==
    LET current == Synchronize(S)
    IN  IF ~S.pol.drain THEN current
        ELSE FoldSet(LAMBDA f, T : DrainOne(f, T, sent), [current EXCEPT !.pol.drain = FALSE], Seats)

\* ReturningSeatResync::ObserveRoster.  The first sight of a peer is no return.
Observe(r, changed, peer, conn) ==
    LET kept == IF changed THEN [r EXCEPT !.key = 0] ELSE r
        new  == [NoReturn EXCEPT !.peer = peer, !.conn = conn]
    IN  IF conn = 0 \/ (r.peer = peer /\ r.conn = conn) THEN kept
        ELSE [new EXCEPT !.pending = (r.peer = peer)]

\* ReturningSeatResync::Pump.  The room's attempt is spent before it is made.
\* ready is what the host's own game allows: a field it can capture, a leader
\* on its feet, no arena for a seat that already sits out in one.
Due(S, r, f) == /\ r.pending /\ S.host.roster[f] # 0 /\ r.key = 0
                /\ RoomNow > r.spent /\ ~Busy(S.host)
PumpReturns(S, sent, ready) ==
    LET due   == {f \in Seats : ready /\ Due(S, S.pol.ret[f], f)}
        first == CHOOSE f \in due : TRUE
    IN  IF due = {} THEN S
        ELSE [Submit(S, first, sent) EXCEPT
                 !.pol.ret[first].spent = RoomNow,
                 !.pol.ret[first].key = IF sent /\ ~Refused(S) THEN S.host.next ELSE 0]

\* Terminal() of both: a sit-out's convergence brings nobody back.
RetireBySitOut(r, key, reason, sitOut) ==                             \* mutant
    IF ~r.pending \/ r.key # key THEN r
    ELSE [r EXCEPT !.key = 0, !.pending = reason # "Converged"]
Retire(r, key, reason, sitOut) ==
    IF ~r.pending \/ r.key # key THEN r
    ELSE [r EXCEPT !.key = 0, !.pending = reason # "Converged" \/ sitOut]
Terminal(pol, key, reason) ==
    [pol EXCEPT !.drain = TRUE,
                !.ret = [f \in Seats |-> Retire(@[f], key, reason, pol.sitOutKey = key)]]

-----------------------------------------------------------------------------
(* The host's loop.                                                        *)

Pump(sent, ready) ==
    /\ Becomes(PumpReturns(PumpNotices(Now, sent), sent, ready))
    /\ UNCHANGED <<hist, relay, seat, fromSeat, late, owner, told, recovered>>

TellRoster ==
    /\ HostRoster
    /\ LET next == Head(relay.outHost).roster
           peer(f) == IF next[f] = 0 THEN "" ELSE owner[next[f]]
       IN policy' = [policy EXCEPT !.ret = [f \in Seats |->
                        Observe(@[f], next # host.roster, peer(f), next[f])]]
    /\ UNCHANGED <<owner, told, recovered>>

TellNotice(sent) ==
    /\ HostReceives("notice")
    /\ Becomes(Notice(Now, Head(relay.outHost), sent))
    /\ UNCHANGED <<owner, told, recovered>>

\* onResyncResult fires for the host's own transaction only.
TellResult ==
    /\ HostResult
    /\ LET m == Head(relay.outHost)
       IN policy' = IF m.id = HostBusy THEN Terminal(policy, m.id, m.reason) ELSE policy
    /\ UNCHANGED <<owner, told, recovered>>

TellDeadline ==
    /\ HostDeadline
    /\ policy' = Terminal(policy, HostBusy, "HostDeadline")
    /\ UNCHANGED <<owner, told, recovered>>

\* sendResyncCapture() remembers which key it answered with a sit-out.
PublishCapture ==
    /\ HostPublish
    /\ policy' = [policy EXCEPT !.sitOutKey = IF host.staged.sitOut THEN host.plan ELSE @]
    /\ UNCHANGED <<owner, told, recovered>>

HasEvents == Len(hist) + told < MaxEvents
HostGoesOn ==
    /\ \/ \E v \in Values, e \in 1..MaxEpoch :
             e \in {RoomNow, RoomNow + 1} /\ HostUpdate(v, e) /\ HasEvents
       \/ \E sitOut \in BOOLEAN : HostCapture(sitOut) /\ HasEvents
       \/ HostCaptureFails \/ HostPlan
    /\ UNCHANGED own

-----------------------------------------------------------------------------
(* The relay, the seats and the clocks.                                    *)

\* compareWithHost(): the hashes of a seat and of the host disagree for long
\* enough.  Hashes are sent beside the world, so when that is, is open.
RelayNotices(f, fields) ==
    /\ told < MaxNotices /\ HasEvents /\ relay.peers[f].conn # 0 /\ relay.last # 0
    /\ relay' = [relay EXCEPT !.outHost = Append(@, [t |-> "notice", seat |-> f, fields |-> fields,
                                                      epoch |-> hist[relay.last].epoch])]
    /\ told' = told + 1
    /\ UNCHANGED <<hist, host, toRelay, seat, fromSeat, late, policy, owner, recovered>>

\* ClientHello of a peer that holds no other seat.  Names are interchangeable:
\* the first to come is always the same one.
Arrive(f, p) ==
    /\ Join(f)
    /\ relay.nextConn = 1 => p = CHOOSE q \in Peers : TRUE
    /\ \A g \in Seats : relay.peers[g].conn # 0 => owner[relay.peers[g].conn] # p
    /\ owner' = [owner EXCEPT ![relay.nextConn] = p]
    /\ UNCHANGED <<policy, told, recovered>>

\* The acknowledgement that certifies everyone is remembered as history.
Certifying == relay'.outcome # relay.outcome /\ relay'.outcome.reason = "Converged"
Acknowledge(f) ==
    /\ RelayAck(f)
    /\ recovered' = IF Certifying /\ ~relay.snap.sitOut
                    THEN recovered \cup {relay.plan.targets[g].conn : g \in {x \in Seats : IsTarget(relay, x)}}
                    ELSE recovered
    /\ UNCHANGED <<policy, owner, told>>

RelayGoesOn ==
    /\ \/ RelayEnvelope \/ RelayRequest \/ RelayBegin \/ RelayEnd \/ RelayFailure \/ RelayDeadline
       \/ \E f \in Seats : Leave(f)
    /\ UNCHANGED own

SeatsGoOn == SeatNext /\ UNCHANGED own
ClocksGoOn == ClockNext /\ UNCHANGED own

PolicyNext ==
    \/ \E sent \in BOOLEAN : TellNotice(sent) \/ \E ready \in BOOLEAN : Pump(sent, ready)
    \/ TellRoster \/ TellResult \/ TellDeadline \/ PublishCapture \/ HostGoesOn
    \/ \E f \in Seats : \/ \E fields \in Fields : RelayNotices(f, fields)
                        \/ \E p \in Peers : Arrive(f, p)
                        \/ Acknowledge(f)
    \/ RelayGoesOn \/ SeatsGoOn \/ ClocksGoOn

PolicySpec == PolicyInit /\ [][PolicyNext]_allvars

\* The clocks run, and each loop's tick() tests its own deadline first.
\* Nothing else is assumed: no message need ever arrive.
Timeouts == \/ TellDeadline
            \/ (RelayDeadline \/ ClockNext \/ \E f \in Seats : SeatDeadline(f)) /\ UNCHANGED own
FairPolicySpec == PolicySpec /\ WF_allvars(Timeouts)

-----------------------------------------------------------------------------
(* Correctness.                                                            *)

\* A returning seat stops being one only when the relay has certified a full
\* recovery, no sit-out, of the very connection it returned on.
ReturnedIsRecovered ==
    \A f \in Seats :
        LET r == policy.ret[f] IN r.spent # 0 /\ ~r.pending => r.conn \in recovered

\* Nobody waits for a transaction that is over: a returning seat that holds a
\* key is the one the host is busy with, and a hint is kept only while the
\* host is busy or the next turn of its loop will submit it.
WaitersAreServed ==
    \A f \in Seats :
        /\ policy.ret[f].key # 0 => HostBusy = policy.ret[f].key
        /\ policy.hint[f].pending # NoHint => HostBusy # 0 \/ policy.drain

=============================================================================
