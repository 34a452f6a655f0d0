--------------------------- MODULE ClientRecovery ---------------------------
(***************************************************************************)
(* The friend runtime's bounded rejoin scheduler                           *)
(* (common/include/kh2coop/ClientRecovery.hpp) together with the loop that *)
(* drives it and the transport it opens and closes                         *)
(* (runtime/src/RuntimeMain.cpp, common/src/NetworkClient.cpp).            *)
(*                                                                         *)
(* The scheduler object is the record r.  It compares clocks only with     *)
(* thresholds, so the absolute times now_, enteredAt_ and episodeAt_ are   *)
(* kept as two ages, both saturating at EpisodeMs, the largest threshold:  *)
(*   r.age = now_ - enteredAt_        time in the present state            *)
(*   r.gap = enteredAt_ - episodeAt_  how late in the episode it began     *)
(* so that now_ - episodeAt_ = r.age + r.gap while an episode runs.        *)
(***************************************************************************)
EXTENDS Naturals, Sequences

CONSTANTS SelfIds,        \* connection identities the relay may hand out
          NoId,           \* the zero identity
          Friend,         \* TRUE when localSlot_ is Friend1 or Friend2
          TransportMs,    \* deadline of a connection attempt
          RosterMs,       \* deadline of the verified roster
          EpisodeMs,      \* budget of one rejoin episode
          StableMs,       \* membership that ends an episode
          RetryDelays     \* wait before each rejoin attempt

ASSUME RecoveryAssumption ==
    /\ NoId \notin SelfIds
    /\ Friend \in BOOLEAN
    /\ TransportMs \in Nat /\ RosterMs \in Nat /\ EpisodeMs \in Nat /\ StableMs \in Nat
    /\ TransportMs <= EpisodeMs /\ RosterMs <= EpisodeMs /\ StableMs <= EpisodeMs
    /\ RetryDelays \in Seq(0..EpisodeMs)

VARIABLES r,            \* the ClientRecovery object
          link,         \* the NetworkClient: no attempt, attempt active, connected
          invalidated,  \* membershipInvalidated: a roster broke the resume pin
          fenced,       \* eventHoldRecoveryRequired
          expired,      \* eventHoldExpiredConnection
          pinned        \* the NetworkClient holds a SessionResumePin

recoveryVars == <<r, link, invalidated, fenced, expired, pinned>>

State == {"Idle", "Connecting", "AwaitingRoster", "Admitted", "RetryWait", "Terminal"}
Link  == {"none", "connecting", "connected"}

\* The reasons on which closed() schedules a retry, and the ones that end it.
RetryReason == {"TransportLost", "PeerIdleTimeout", "HandshakeTimeout",
                "SlotOccupied", "LobbyFull"}
FinalReason == {"Incompatible", "AdmissionRejected", "HostSessionEnded",
                "RelayStopping", "SessionChanged"}

-----------------------------------------------------------------------------
(* The scheduler's operations, each a function from record to record.      *)

Cap(n) == IF n > EpisodeMs THEN EpisodeMs ELSE n

EpisodeOver(q) == q.episode /\ q.gap + q.age >= EpisodeMs

\* Enter state s now: enteredAt_ = now_.
Enter(q, s) == [q EXCEPT !.state = s, !.age = 0,
                         !.gap = IF q.episode THEN Cap(q.gap + q.age) ELSE 0]

\* The membership began while the episode still left it time to become stable.
EarlyEnoughStrict(q) == q.gap + StableMs < EpisodeMs                \* mutant
EarlyEnough(q) == q.gap + StableMs <= EpisodeMs

\* advance(): StableMs of uninterrupted membership ends the episode.
Advance(q) ==
    IF q.episode /\ q.state = "Admitted" /\ q.age >= StableMs /\ EarlyEnough(q)
    THEN [q EXCEPT !.episode = FALSE, !.attempts = 0, !.gap = 0]
    ELSE q

Terminate(q, disconnect) == [q EXCEPT !.state = "Terminal", !.pending = disconnect]

ExhaustedLate(q) == q.attempts > Len(RetryDelays)                   \* mutant
Exhausted(q) == q.attempts >= Len(RetryDelays)

\* failed(): retry within the attempts and the time of the episode, or stop.
Failed(q, disconnect) ==
    LET e == IF q.episode THEN q
             ELSE [q EXCEPT !.episode = TRUE, !.gap = 0, !.age = 0, !.attempts = 0]
    IN  IF ~q.ever \/ ~Friend THEN Terminate(q, disconnect)
        ELSE IF EpisodeOver(e) \/ Exhausted(e) THEN Terminate(e, disconnect)
        ELSE [Enter(e, "RetryWait") EXCEPT !.pending = disconnect]

Unconcerned(q) == q.state \in {"Idle", "Terminal", "RetryWait"}

\* closed(): the transport reported the end of an attempt or a session.
Closed(q, reason, local) ==
    LET a == Advance(q)
    IN  IF Unconcerned(a) THEN a
        ELSE IF ~local /\ reason \in RetryReason THEN Failed(a, FALSE)
        ELSE Terminate(a, FALSE)

\* connected(): the transport is up, the verified roster is not here yet.
Connected(q) ==
    LET a == Advance(q)
    IN  IF a.state # "Connecting" THEN a
        ELSE IF a.age >= TransportMs THEN Failed(a, TRUE)
        ELSE Enter(a, "AwaitingRoster")

\* Verified membership; the episode's budget survives it.
AdmitForgiving(q, self) == [Enter(q, "Admitted") EXCEPT            \* mutant
                               !.self = self, !.ever = TRUE, !.attempts = 0]
Admit(q, self) == [Enter(q, "Admitted") EXCEPT !.self = self, !.ever = TRUE]

\* admitted(): a roster that names this client under identity self.
AdmitRoster(q, self) ==
    LET a == Advance(q)
    IN  IF a.state = "Admitted"
        THEN IF self # a.self THEN Terminate(a, TRUE) ELSE a
        ELSE IF a.state # "AwaitingRoster" THEN a
        ELSE IF a.age >= RosterMs THEN Failed(a, TRUE)
        ELSE IF EpisodeOver(a) THEN Terminate(a, TRUE)
        ELSE IF self = NoId \/ (a.ever /\ self = a.self) THEN Terminate(a, TRUE)
        ELSE Admit(a, self)

RefuseUnlatched(q, reason) == Closed(q, reason, FALSE)              \* mutant

\* rejected(): an explicit refusal, latched before the relay closes the link.
Refuse(q, reason) ==
    IF q.state \notin {"Connecting", "AwaitingRoster", "Admitted"} THEN q
    ELSE [Closed(q, reason, FALSE) EXCEPT !.pending = TRUE]

\* heartbeatExpired(): whether this loss may be retried, for a loss of self.
Rejoins(q, self, matches) ==
    matches /\ q.state = "Admitted" /\ self # NoId /\ self = q.self /\ Friend

\* The attempt has used up the deadline of its present stage.
OverdueTransport(q) == q.state = "Connecting" /\ q.age >= TransportMs   \* mutant
Overdue(q) == \/ q.state = "Connecting" /\ q.age >= TransportMs
              \/ q.state = "AwaitingRoster" /\ q.age >= RosterMs

\* One rejoin attempt; a late tick issues one, never a burst.
AttemptTwice(q) == [Enter(q, "Connecting") EXCEPT !.attempts = @ + 2]    \* mutant
Attempt(q) == [Enter(q, "Connecting") EXCEPT !.attempts = @ + 1]

\* tick(): the action the loop must perform, and the object afterwards.
TickOf(q) ==
    LET a == Advance(q)
        Give(action, next) == [action |-> action, next |-> next]
    IN  IF a.pending THEN Give("Disconnect", [a EXCEPT !.pending = FALSE])
        ELSE IF a.state \in {"Idle", "Terminal"} THEN Give("None", a)
        ELSE IF EpisodeOver(a)
        THEN Give(IF a.state = "RetryWait" THEN "None" ELSE "Disconnect", Terminate(a, FALSE))
        ELSE IF Overdue(a) THEN Give("Disconnect", Failed(a, FALSE))
        ELSE IF a.state = "RetryWait" /\ a.age >= RetryDelays[a.attempts + 1]
        THEN Give("Connect", Attempt(a))
        ELSE Give("None", a)

-----------------------------------------------------------------------------
(* The runtime around the scheduler.                                       *)

RecoveryInit ==
    /\ r = [state |-> "Idle", age |-> 0, gap |-> 0, self |-> NoId, ever |-> FALSE,
            episode |-> FALSE, pending |-> FALSE, attempts |-> 0]
    /\ link = "none" /\ invalidated = FALSE /\ fenced = FALSE
    /\ expired = NoId /\ pinned = FALSE

\* NetworkClient::connect: the attempt becomes active, or it cannot be initiated
\* and the caller reports initiationFailed (q is in state Connecting).
Dial(q) == \/ link' = "connecting" /\ r' = q
           \/ link' = "none" /\ r' = Failed(q, FALSE)

\* The one explicit initial attempt.
Start == /\ r.state = "Idle"
         /\ Dial(Enter(r, "Connecting"))
         /\ UNCHANGED <<invalidated, fenced, expired, pinned>>

\* The transport connects: NetworkClient::onConnect, then the onConnected callback.
TransportUp == /\ link = "connecting"
               /\ link' = "connected"
               /\ r' = Connected(r)
               /\ UNCHANGED <<invalidated, fenced, expired, pinned>>

\* A SessionState that satisfies the resume pin (or the first one, which sets it).
Roster(self) == /\ link = "connected"
                /\ r' = AdmitRoster(r, self)
                /\ UNCHANGED <<link, invalidated, fenced, expired, pinned>>

\* A SessionState of another session, host or seat.  A client that holds the pin
\* closes the session itself; before that the runtime defers the close to its loop.
RosterBreaksPin == /\ link = "connected" /\ r.ever
                   /\ IF pinned
                      THEN /\ link' = "none"
                           /\ r' = Closed(r, "SessionChanged", TRUE)
                           /\ UNCHANGED invalidated
                      ELSE invalidated' = TRUE /\ UNCHANGED <<r, link>>
                   /\ UNCHANGED <<fenced, expired, pinned>>

\* NetworkClient::onDisconnect: the relay or the network ended the attempt.
LinkClosed(reason) == /\ link # "none"
                      /\ link' = "none"
                      /\ r' = Closed(r, reason, FALSE)
                      /\ UNCHANGED <<invalidated, fenced, expired, pinned>>

\* HelloReject; the transport itself is closed by the next loop turn.
\* TransportLost is not an admission verdict: rejected() maps it to a final one.
Refused(reason) ==
    /\ link = "connected"
    /\ r' = Refuse(r, IF reason = "TransportLost" THEN "AdmissionRejected" ELSE reason)
    /\ UNCHANGED <<link, invalidated, fenced, expired, pinned>>

\* serviceEventHoldControl: the native heartbeat of this membership expired.
\* matches: the expired scope agrees with the resume pin.
HeartbeatExpired(matches) ==
    /\ r.state = "Admitted" /\ link = "connected"
    /\ ~fenced /\ expired # r.self
    /\ fenced' = TRUE /\ expired' = r.self
    /\ r' = IF Rejoins(r, r.self, matches) THEN Failed(Advance(r), TRUE)
                                          ELSE Terminate(r, FALSE)
    /\ UNCHANGED <<link, invalidated, pinned>>

\* pulseEventHoldControl: a fresh native baseline re-armed the control.
ControlRestored == /\ fenced /\ r.state = "Admitted"
                   /\ fenced' = FALSE
                   /\ UNCHANGED <<r, link, invalidated, expired, pinned>>

\* One turn of the main loop: the deferred close, tick(), and what tick() asked for.
LoopTick ==
    LET open == IF invalidated THEN "none" ELSE link
        turn == TickOf(IF invalidated THEN Closed(r, "SessionChanged", TRUE) ELSE r)
        next == turn.next
        drop == turn.action = "Disconnect"
                \/ (fenced /\ next.state = "Terminal" /\ open = "connected")
    IN  /\ invalidated' = FALSE
        /\ \/ drop /\ link' = "none" /\ r' = next /\ UNCHANGED pinned
           \/ ~drop /\ turn.action = "None" /\ link' = open /\ r' = next /\ UNCHANGED pinned
           \/ /\ ~drop /\ turn.action = "Connect" /\ open = "none"
              /\ Dial(next) /\ pinned' = TRUE
           \/ /\ ~drop /\ turn.action = "Connect" /\ open # "none"  \* SetResumePin refuses
              /\ link' = open /\ r' = Terminate(next, FALSE) /\ UNCHANGED pinned
        /\ UNCHANGED <<fenced, expired>>

\* The monotonic clock; the cap keeps the ages finite and loses no comparison.
TimePasses == /\ r' = [r EXCEPT !.age = Cap(@ + 1)]
              /\ UNCHANGED <<link, invalidated, fenced, expired, pinned>>

\* The process leaves its loop: shutdown(), then ~NetworkClient.
Exit == /\ r' = Terminate(r, FALSE)
        /\ link' = "none" /\ invalidated' = FALSE
        /\ UNCHANGED <<fenced, expired, pinned>>

RecoveryNext ==
    \/ Start \/ TransportUp \/ RosterBreaksPin \/ ControlRestored
    \/ LoopTick \/ TimePasses \/ Exit
    \/ \E self \in SelfIds \cup {NoId} : Roster(self)
    \/ \E reason \in RetryReason \cup FinalReason : LinkClosed(reason) \/ Refused(reason)
    \/ \E matches \in BOOLEAN : HeartbeatExpired(matches)

RecoverySpec == RecoveryInit /\ [][RecoveryNext]_recoveryVars

\* The loop keeps turning and the clock keeps running; the relay owes nothing.
FairSpec == RecoverySpec /\ WF_recoveryVars(LoopTick) /\ WF_recoveryVars(TimePasses)

-----------------------------------------------------------------------------
Recovery == [state : State, age : 0..EpisodeMs, gap : 0..EpisodeMs,
             self : SelfIds \cup {NoId}, ever : BOOLEAN, episode : BOOLEAN,
             pending : BOOLEAN, attempts : 0..Len(RetryDelays)]

\* Every attempt is counted at most once: the counter stays within the delay table.
TypeOK == /\ r \in Recovery
          /\ link \in Link
          /\ invalidated \in BOOLEAN /\ fenced \in BOOLEAN /\ pinned \in BOOLEAN
          /\ expired \in SelfIds \cup {NoId}

\* A client waits for a retry only inside an episode of an admitted friend with an
\* attempt left: tick() indexes kRetryDelays[attempts_] without a check.
Budgeted(q) == q.state = "RetryWait" =>
                   q.episode /\ q.ever /\ Friend /\ q.attempts < Len(RetryDelays)
RetryBudget == Budgeted(r)

\* The scheduler never loses track of the transport it asked for: it believes in an
\* attempt exactly while there is one, dials only after the old one is closed, and
\* once stopped holds no transport except one it is still about to close.
Follows(q, l, f) ==
    /\ q.state = "Idle" => l = "none" /\ ~q.pending
    /\ q.state = "Connecting" => l = "connecting" /\ ~q.pending
    /\ q.state \in {"AwaitingRoster", "Admitted"} => l = "connected" /\ ~q.pending
    /\ q.state = "RetryWait" /\ l # "none" => q.pending
    /\ q.state = "Terminal" /\ l # "none" => q.pending \/ f
LinkFollowsScheduler == Follows(r, link, fenced)

\* Membership counts when it lasts, and only then: won early enough to become
\* stable it is never ended by the episode's time limit, however late the tick
\* that looks at it; and the attempts are refilled only by StableMs of it, or by
\* the loss that opens a new episode, so that a flapping relay earns nothing.
OnlyStableMembershipCounts ==
    [][/\ LoopTick /\ r.state = "Admitted" /\ r.gap + StableMs <= EpisodeMs /\ ~invalidated
            => r'.state = "Admitted"
       /\ r'.attempts < r.attempts => r.state = "Admitted" /\ r.age >= StableMs]_recoveryVars

\* No attempt hangs: without any help from the relay it ends admitted or stopped.
AttemptsSettle == r.state \in {"Connecting", "AwaitingRoster", "RetryWait"}
                      ~> r.state \in {"Admitted", "Terminal"}
=============================================================================
