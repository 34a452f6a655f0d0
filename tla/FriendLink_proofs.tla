--------------------------- MODULE FriendLink_proofs ---------------------------
(*****************************************************************************)
(* Proofs about a friend's link: the scheduler that keeps it                 *)
(* (ClientRecovery) and the world that reaches the friend's game over it     *)
(* (WorldRelay), for every value of the constants.                           *)
(*                                                                           *)
(* The scheduler.  Its three invariants are inductive together: the attempt  *)
(* counter stays in the delay table only because a client waits with an      *)
(* attempt left, and the transport is dialled only because a client that     *)
(* waits without a pending close has none.  Of the count of attempts a       *)
(* fourth part says that there is none outside an episode, so that the loss  *)
(* that opens one forgives nothing.                                          *)
(*                                                                           *)
(* The world.  Nothing of an earlier session, connection or host is shown to *)
(* a friend because a reset publishes a new generation before anything of    *)
(* the next life is queued and puts its marker in front of it: whatever      *)
(* stands behind the marker of the published generation, and whatever was    *)
(* shown behind it, is of one life (OfLife), and of the present one while    *)
(* the ring is open (FriendInv).                                             *)
(*****************************************************************************)
EXTENDS ClientRecovery, WorldRelay, SequenceTheorems, FiniteSetTheorems,
        WellFoundedInduction, TLAPS

-----------------------------------------------------------------------------
(*                        THE REJOIN SCHEDULER                               *)

\* The part of the invariant that concerns the object alone.
Sound(q) == q \in Recovery /\ Budgeted(q)

IInv == TypeOK /\ RetryBudget /\ LinkFollowsScheduler

-----------------------------------------------------------------------------
(* What the scheduler's operations return.                                 *)

\* The zeros that the operations write are in the ranges of their fields.
LEMMA Ranges ==
    /\ Len(RetryDelays) \in Nat
    /\ 0 \in 0..EpisodeMs
    /\ 0 \in 0..Len(RetryDelays)
    /\ NoId \in SelfIds \cup {NoId}
    BY RecoveryAssumption

\* Enter: only the state and its two ages change.
LEMMA EnterIs ==
    ASSUME NEW q \in Recovery, NEW s \in State
    PROVE  /\ Enter(q, s) \in Recovery
           /\ Enter(q, s).state = s
           /\ Enter(q, s).pending = q.pending
           /\ Enter(q, s).attempts = q.attempts
           /\ Enter(q, s).episode = q.episode
           /\ Enter(q, s).ever = q.ever
<1> DEFINE g == IF q.episode THEN Cap(q.gap + q.age) ELSE 0
<1>1. Cap(q.gap + q.age) \in 0..EpisodeMs
  BY RecoveryAssumption DEF Cap, Recovery
<1>2. g \in 0..EpisodeMs
  BY <1>1, Ranges
<1>3. Enter(q, s) = [q EXCEPT !.state = s, !.age = 0, !.gap = g]
  BY DEF Enter
<1> HIDE DEF g
<1>4. [q EXCEPT !.state = s, !.age = 0, !.gap = g] \in Recovery
  BY <1>2, Ranges DEF Recovery
<1> QED
  BY <1>3, <1>4 DEF Recovery

\* advance() may only end an episode of an admitted client.
LEMMA AdvanceIs ==
    ASSUME NEW q, Sound(q)
    PROVE  /\ Sound(Advance(q))
           /\ Advance(q).state = q.state
           /\ Advance(q).pending = q.pending
<1> DEFINE ended == [q EXCEPT !.episode = FALSE, !.attempts = 0, !.gap = 0]
<1>1. Advance(q) = q \/ (Advance(q) = ended /\ q.state = "Admitted")
  BY DEF Advance
<1>2. ended \in Recovery
  BY Ranges DEF Sound, Recovery
<1>3. ended.state = q.state /\ ended.pending = q.pending
  BY DEF Sound, Recovery
<1> HIDE DEF ended
<1> QED
  BY <1>1, <1>2, <1>3 DEF Sound, Budgeted

\* terminate() stops the object with the close it was asked for.
LEMMA TerminateIs ==
    ASSUME NEW q \in Recovery, NEW d \in BOOLEAN
    PROVE  /\ Sound(Terminate(q, d))
           /\ Terminate(q, d).state = "Terminal"
           /\ Terminate(q, d).pending = d
<1>1. Terminate(q, d) \in Recovery
  BY DEF Terminate, Recovery, State
<1>2. Terminate(q, d).state = "Terminal" /\ Terminate(q, d).pending = d
  BY DEF Terminate, Recovery
<1> QED
  BY <1>1, <1>2 DEF Sound, Budgeted

\* failed() leaves the client waiting within its budget, or stopped.
LEMMA FailedIs ==
    ASSUME NEW q, Sound(q), NEW d \in BOOLEAN
    PROVE  /\ Sound(Failed(q, d))
           /\ Failed(q, d).state \in {"RetryWait", "Terminal"}
           /\ Failed(q, d).pending = d
<1> DEFINE opened == [q EXCEPT !.episode = TRUE, !.gap = 0, !.age = 0, !.attempts = 0]
           e == IF q.episode THEN q ELSE opened
<1>q. q \in Recovery
  BY DEF Sound
<1>1. opened \in Recovery /\ opened.episode /\ opened.ever = q.ever
  BY Ranges DEF Sound, Recovery
<1>2. e \in Recovery /\ e.episode /\ e.ever = q.ever
  BY <1>1, <1>q
<1>3. \/ Failed(q, d) = Terminate(q, d)
      \/ Failed(q, d) = Terminate(e, d)
      \/ /\ Failed(q, d) = [Enter(e, "RetryWait") EXCEPT !.pending = d]
         /\ q.ever /\ Friend /\ ~Exhausted(e)
  BY DEF Failed
<1> HIDE DEF e
<1>4. CASE Failed(q, d) = Terminate(q, d)
  BY <1>4, <1>q, TerminateIs
<1>5. CASE Failed(q, d) = Terminate(e, d)
  BY <1>5, <1>2, TerminateIs
<1>6. CASE /\ Failed(q, d) = [Enter(e, "RetryWait") EXCEPT !.pending = d]
           /\ q.ever /\ Friend /\ ~Exhausted(e)
  <2> DEFINE w == Enter(e, "RetryWait")
  <2>1. /\ w \in Recovery /\ w.state = "RetryWait" /\ w.episode
        /\ w.ever /\ w.attempts = e.attempts
    BY <1>2, <1>6, EnterIs DEF State
  <2>2. e.attempts < Len(RetryDelays)
    BY <1>2, <1>6, Ranges DEF Exhausted, Recovery
  <2> HIDE DEF w
  <2>3. /\ [w EXCEPT !.pending = d] \in Recovery
        /\ [w EXCEPT !.pending = d].state = "RetryWait"
        /\ [w EXCEPT !.pending = d].pending = d
        /\ [w EXCEPT !.pending = d].episode /\ [w EXCEPT !.pending = d].ever
        /\ [w EXCEPT !.pending = d].attempts = e.attempts
    BY <2>1 DEF Recovery
  <2>4. Failed(q, d) = [w EXCEPT !.pending = d]
    BY <1>6 DEF w
  <2> QED
    BY <1>6, <2>2, <2>3, <2>4 DEF Sound, Budgeted
<1> QED
  BY <1>3, <1>4, <1>5, <1>6

\* closed(): the client ignores it, waits or stops, and asks for no close.
LEMMA ClosedIs ==
    ASSUME NEW q, Sound(q), NEW reason, NEW local \in BOOLEAN
    PROVE  /\ Sound(Closed(q, reason, local))
           /\ \/ Unconcerned(q) /\ Closed(q, reason, local).state = q.state
                                /\ Closed(q, reason, local).pending = q.pending
              \/ /\ Closed(q, reason, local).state \in {"RetryWait", "Terminal"}
                 /\ Closed(q, reason, local).pending = FALSE
<1> DEFINE a == Advance(q)
<1>1. Sound(a) /\ a.state = q.state /\ a.pending = q.pending /\ a \in Recovery
  BY AdvanceIs DEF Sound
<1>2. \/ Closed(q, reason, local) = a /\ Unconcerned(a)
      \/ Closed(q, reason, local) = Failed(a, FALSE)
      \/ Closed(q, reason, local) = Terminate(a, FALSE)
  BY DEF Closed
<1> HIDE DEF a
<1> QED
  BY <1>1, <1>2, FailedIs, TerminateIs DEF Unconcerned
\* connected(): from Connecting the client awaits the roster, or gives up and asks
\* for the close of the transport it has.
LEMMA ConnectedIs ==
    ASSUME NEW q, Sound(q)
    PROVE  /\ Sound(Connected(q))
           /\ \/ /\ q.state # "Connecting"
                 /\ Connected(q).state = q.state /\ Connected(q).pending = q.pending
              \/ /\ q.state = "Connecting"
                 /\ Connected(q).state = "AwaitingRoster" /\ Connected(q).pending = q.pending
              \/ Connected(q).state \in {"RetryWait", "Terminal"} /\ Connected(q).pending = TRUE
<1> DEFINE a == Advance(q)
<1>1. Sound(a) /\ a.state = q.state /\ a.pending = q.pending /\ a \in Recovery
  BY AdvanceIs DEF Sound
<1>2. \/ Connected(q) = a /\ a.state # "Connecting"
      \/ Connected(q) = Failed(a, TRUE)
      \/ Connected(q) = Enter(a, "AwaitingRoster") /\ a.state = "Connecting"
  BY DEF Connected
<1>3. /\ Sound(Enter(a, "AwaitingRoster"))
      /\ Enter(a, "AwaitingRoster").state = "AwaitingRoster"
      /\ Enter(a, "AwaitingRoster").pending = a.pending
  BY <1>1, EnterIs DEF Sound, Budgeted, State
<1> HIDE DEF a
<1> QED
  BY <1>1, <1>2, <1>3, FailedIs

\* admitted(): membership, or the close of a transport that cannot give it.
LEMMA AdmitRosterIs ==
    ASSUME NEW q, Sound(q), NEW self \in SelfIds \cup {NoId}
    PROVE  /\ Sound(AdmitRoster(q, self))
           /\ \/ /\ AdmitRoster(q, self).state = q.state
                 /\ AdmitRoster(q, self).pending = q.pending
              \/ /\ q.state = "AwaitingRoster" /\ AdmitRoster(q, self).state = "Admitted"
                 /\ AdmitRoster(q, self).pending = q.pending
              \/ /\ AdmitRoster(q, self).state \in {"RetryWait", "Terminal"}
                 /\ AdmitRoster(q, self).pending = TRUE
<1> DEFINE a == Advance(q)
<1>1. Sound(a) /\ a.state = q.state /\ a.pending = q.pending /\ a \in Recovery
  BY AdvanceIs DEF Sound
<1>2. \/ AdmitRoster(q, self) = a
      \/ AdmitRoster(q, self) = Failed(a, TRUE)
      \/ AdmitRoster(q, self) = Terminate(a, TRUE)
      \/ AdmitRoster(q, self) = Admit(a, self) /\ a.state = "AwaitingRoster"
  BY DEF AdmitRoster
<1> DEFINE w == Enter(a, "Admitted")
<1>3. w \in Recovery /\ w.state = "Admitted" /\ w.pending = a.pending
  BY <1>1, EnterIs DEF State
<1>4. Admit(a, self) = [w EXCEPT !.self = self, !.ever = TRUE]
  BY DEF Admit
<1> HIDE DEF a, w
<1>5. /\ [w EXCEPT !.self = self, !.ever = TRUE] \in Recovery
      /\ [w EXCEPT !.self = self, !.ever = TRUE].state = "Admitted"
      /\ [w EXCEPT !.self = self, !.ever = TRUE].pending = a.pending
  BY <1>3 DEF Recovery
<1>6. /\ Sound(Admit(a, self)) /\ Admit(a, self).state = "Admitted"
      /\ Admit(a, self).pending = a.pending
  BY <1>4, <1>5 DEF Sound, Budgeted
<1> QED
  BY <1>1, <1>2, <1>6, FailedIs, TerminateIs

\* rejected(): ignored, or the close is latched.
LEMMA RefuseIs ==
    ASSUME NEW q, Sound(q), NEW reason
    PROVE  /\ Sound(Refuse(q, reason))
           /\ \/ /\ q.state \notin {"Connecting", "AwaitingRoster", "Admitted"}
                 /\ Refuse(q, reason) = q
              \/ /\ Refuse(q, reason).state \in {"RetryWait", "Terminal"}
                 /\ Refuse(q, reason).pending = TRUE
<1>1. CASE q.state \notin {"Connecting", "AwaitingRoster", "Admitted"}
  BY <1>1 DEF Refuse
<1>2. CASE q.state \in {"Connecting", "AwaitingRoster", "Admitted"}
  <2> DEFINE c == Closed(q, reason, FALSE)
  <2>1. Sound(c) /\ c.state \in {"RetryWait", "Terminal"} /\ c \in Recovery
    BY <1>2, ClosedIs DEF Unconcerned, Sound
  <2>2. Refuse(q, reason) = [c EXCEPT !.pending = TRUE]
    BY <1>2 DEF Refuse
  <2> HIDE DEF c
  <2>3. /\ [c EXCEPT !.pending = TRUE] \in Recovery
        /\ [c EXCEPT !.pending = TRUE].pending = TRUE
        /\ [c EXCEPT !.pending = TRUE].state = c.state
        /\ [c EXCEPT !.pending = TRUE].episode = c.episode
        /\ [c EXCEPT !.pending = TRUE].ever = c.ever
        /\ [c EXCEPT !.pending = TRUE].attempts = c.attempts
    BY <2>1 DEF Recovery
  <2> QED
    BY <2>1, <2>2, <2>3 DEF Sound, Budgeted
<1> QED
  BY <1>1, <1>2

\* tick(): nothing, with a client that is where it was or was already without a
\* transport; a close that is then carried out; or a dial from RetryWait.
LEMMA TickIs ==
    ASSUME NEW q, Sound(q)
    PROVE  /\ Sound(TickOf(q).next)
           /\ \/ /\ TickOf(q).action = "None" /\ q.pending = FALSE
                 /\ TickOf(q).next.pending = FALSE
                 /\ \/ TickOf(q).next.state = q.state
                    \/ q.state = "RetryWait" /\ TickOf(q).next.state = "Terminal"
              \/ /\ TickOf(q).action = "Disconnect" /\ TickOf(q).next.pending = FALSE
                 /\ \/ q.pending = TRUE /\ TickOf(q).next.state = q.state
                    \/ TickOf(q).next.state \in {"RetryWait", "Terminal"}
              \/ /\ TickOf(q).action = "Connect" /\ q.pending = FALSE /\ q.state = "RetryWait"
                 /\ TickOf(q).next.state = "Connecting" /\ TickOf(q).next.pending = FALSE
<1> DEFINE a == Advance(q)
           unlatched == [a EXCEPT !.pending = FALSE]
<1>1. Sound(a) /\ a.state = q.state /\ a.pending = q.pending /\ a \in Recovery
  BY AdvanceIs DEF Sound
<1>2. a.pending \in BOOLEAN
  BY <1>1 DEF Recovery
<1>3. Sound(unlatched) /\ unlatched.state = a.state /\ unlatched.pending = FALSE
  <2>1. /\ unlatched \in Recovery /\ unlatched.state = a.state
        /\ unlatched.episode = a.episode /\ unlatched.ever = a.ever
        /\ unlatched.attempts = a.attempts /\ unlatched.pending = FALSE
    BY <1>1 DEF Recovery
  <2> HIDE DEF a, unlatched
  <2> QED
    BY <1>1, <2>1 DEF Sound, Budgeted
<1>4. CASE a.pending = TRUE
  <2>1. TickOf(q) = [action |-> "Disconnect", next |-> unlatched]
    BY <1>4 DEF TickOf
  <2> HIDE DEF a, unlatched
  <2> QED
    BY <1>1, <1>3, <1>4, <2>1
<1>5. CASE a.pending = FALSE
  <2>1. \/ TickOf(q).action = "None" /\ TickOf(q).next = a
        \/ /\ TickOf(q).action = "None" /\ TickOf(q).next = Terminate(a, FALSE)
           /\ a.state = "RetryWait"
        \/ TickOf(q).action = "Disconnect" /\ TickOf(q).next = Terminate(a, FALSE)
        \/ TickOf(q).action = "Disconnect" /\ TickOf(q).next = Failed(a, FALSE)
        \/ TickOf(q).action = "Connect" /\ TickOf(q).next = Attempt(a) /\ a.state = "RetryWait"
    BY <1>5 DEF TickOf
  <2>2. a.state = "RetryWait" => /\ Sound(Attempt(a)) /\ Attempt(a).state = "Connecting"
                                 /\ Attempt(a).pending = a.pending
    <3> SUFFICES ASSUME a.state = "RetryWait"
                 PROVE  /\ Sound(Attempt(a)) /\ Attempt(a).state = "Connecting"
                        /\ Attempt(a).pending = a.pending
      OBVIOUS
    <3> DEFINE w == Enter(a, "Connecting")
    <3>1. /\ w \in Recovery /\ w.state = "Connecting" /\ w.pending = a.pending
          /\ w.attempts = a.attempts
      BY <1>1, EnterIs DEF State
    <3>2. Attempt(a) = [w EXCEPT !.attempts = w.attempts + 1]
      BY <1>1 DEF Attempt
    <3>3. w.attempts + 1 \in 0..Len(RetryDelays)
      BY <1>1, <3>1, Ranges DEF Sound, Budgeted, Recovery
    <3> HIDE DEF a, w
    <3>4. /\ [w EXCEPT !.attempts = w.attempts + 1] \in Recovery
          /\ [w EXCEPT !.attempts = w.attempts + 1].state = "Connecting"
          /\ [w EXCEPT !.attempts = w.attempts + 1].pending = a.pending
      BY <3>1, <3>3 DEF Recovery
    <3> QED
      BY <3>2, <3>4 DEF Sound, Budgeted
  <2>3. Sound(Terminate(a, FALSE)) /\ Terminate(a, FALSE).state = "Terminal"
        /\ Terminate(a, FALSE).pending = FALSE
    BY <1>1, TerminateIs
  <2>4. Sound(Failed(a, FALSE)) /\ Failed(a, FALSE).state \in {"RetryWait", "Terminal"}
        /\ Failed(a, FALSE).pending = FALSE
    BY <1>1, FailedIs
  <2> HIDE DEF a
  <2>5. CASE TickOf(q).action = "None" /\ TickOf(q).next = a
    BY <1>1, <1>5, <2>5
  <2>6. CASE /\ TickOf(q).action = "None" /\ TickOf(q).next = Terminate(a, FALSE)
             /\ a.state = "RetryWait"
    BY <1>1, <1>5, <2>3, <2>6
  <2>7. CASE TickOf(q).action = "Disconnect" /\ TickOf(q).next = Terminate(a, FALSE)
    BY <2>3, <2>7
  <2>8. CASE TickOf(q).action = "Disconnect" /\ TickOf(q).next = Failed(a, FALSE)
    BY <2>4, <2>8
  <2>9. CASE TickOf(q).action = "Connect" /\ TickOf(q).next = Attempt(a) /\ a.state = "RetryWait"
    BY <1>1, <1>5, <2>2, <2>9
  <2> QED
    BY <2>1, <2>5, <2>6, <2>7, <2>8, <2>9
<1> QED
  BY <1>2, <1>4, <1>5
-----------------------------------------------------------------------------
(* The inductive invariant.                                                *)

\* The process starts idle, with no transport and nothing counted.
LEMMA InitIInv == RecoveryInit => IInv
<1> SUFFICES ASSUME RecoveryInit PROVE IInv
  OBVIOUS
<1>1. r \in Recovery /\ r.state = "Idle"
  BY Ranges DEF RecoveryInit, Recovery, State
<1> QED
  BY <1>1, Ranges DEF RecoveryInit, IInv, TypeOK, RetryBudget, Budgeted, LinkFollowsScheduler, Follows, Link

\* A dial leaves either an attempt under way or a client that accounts for its loss.
LEMMA DialKeeps ==
    ASSUME NEW q, Sound(q), q.state = "Connecting", q.pending = FALSE, Dial(q)
    PROVE  Sound(r') /\ link' \in Link /\ LinkFollowsScheduler'
<1>1. CASE link' = "connecting" /\ r' = q
  BY <1>1 DEF LinkFollowsScheduler, Follows, Link
<1>2. CASE link' = "none" /\ r' = Failed(q, FALSE)
  BY <1>2, FailedIs DEF LinkFollowsScheduler, Follows, Link
<1> QED
  BY <1>1, <1>2 DEF Dial

\* Every step of the runtime keeps the three invariants together.
LEMMA NextIInv == IInv /\ [RecoveryNext]_recoveryVars => IInv'
<1> SUFFICES ASSUME IInv, [RecoveryNext]_recoveryVars
             PROVE  IInv'
  OBVIOUS
<1>s. Sound(r) /\ r \in Recovery
  BY DEF IInv, TypeOK, RetryBudget, Sound
<1>i. ASSUME Sound(r'), link' \in Link, LinkFollowsScheduler', invalidated' \in BOOLEAN,
             fenced' \in BOOLEAN, pinned' \in BOOLEAN, expired' \in SelfIds \cup {NoId}
      PROVE  IInv'
  BY <1>i DEF IInv, TypeOK, RetryBudget, Sound
<1>t. /\ link \in Link /\ invalidated \in BOOLEAN /\ fenced \in BOOLEAN /\ pinned \in BOOLEAN
      /\ expired \in SelfIds \cup {NoId} /\ r.self \in SelfIds \cup {NoId}
  BY DEF IInv, TypeOK, Recovery
<1>l. LinkFollowsScheduler
  BY DEF IInv
<1>1. CASE Start
  <2>1. /\ Sound(Enter(r, "Connecting")) /\ Enter(r, "Connecting").state = "Connecting"
        /\ Enter(r, "Connecting").pending = r.pending
    BY <1>s, EnterIs DEF Sound, Budgeted, State
  <2>2. r.pending = FALSE
    BY <1>1, <1>s, <1>l DEF Start, Recovery, LinkFollowsScheduler, Follows
  <2>3. Sound(r') /\ link' \in Link /\ LinkFollowsScheduler'
    BY <1>1, <2>1, <2>2, DialKeeps DEF Start
  <2> QED
    BY <1>1, <1>i, <1>t, <2>3 DEF Start
<1>2. CASE TransportUp
  <2>1. Sound(r')
    BY <1>2, <1>s, ConnectedIs DEF TransportUp
  <2>2. LinkFollowsScheduler'
    BY <1>2, <1>s, <1>l, ConnectedIs DEF TransportUp, LinkFollowsScheduler, Follows
  <2> QED
    BY <1>2, <1>i, <1>t, <2>1, <2>2 DEF TransportUp, Link
<1>3. ASSUME NEW self \in SelfIds \cup {NoId}, Roster(self)
      PROVE  IInv'
  <2>1. Sound(r')
    BY <1>3, <1>s, AdmitRosterIs DEF Roster
  <2>2. LinkFollowsScheduler'
    BY <1>3, <1>s, <1>l, AdmitRosterIs DEF Roster, LinkFollowsScheduler, Follows
  <2> QED
    BY <1>3, <1>i, <1>t, <2>1, <2>2 DEF Roster
<1>4. CASE RosterBreaksPin
  <2>1. CASE pinned
    <3>1. Sound(r')
      BY <1>4, <2>1, <1>s, ClosedIs DEF RosterBreaksPin
    <3>2. LinkFollowsScheduler'
      BY <1>4, <2>1, <1>s, <1>l, ClosedIs DEF RosterBreaksPin, LinkFollowsScheduler, Follows, Unconcerned
    <3> QED
      BY <1>4, <2>1, <1>i, <1>t, <3>1, <3>2 DEF RosterBreaksPin, Link
  <2>2. CASE ~pinned
    BY <1>4, <2>2, <1>i, <1>s, <1>t, <1>l DEF RosterBreaksPin, LinkFollowsScheduler, Follows
  <2> QED
    BY <2>1, <2>2
<1>5. ASSUME NEW reason, LinkClosed(reason)
      PROVE  IInv'
  <2>1. Sound(r')
    BY <1>5, <1>s, ClosedIs DEF LinkClosed
  <2>2. LinkFollowsScheduler'
    BY <1>5, <1>s, <1>l, ClosedIs DEF LinkClosed, LinkFollowsScheduler, Follows, Unconcerned
  <2> QED
    BY <1>5, <1>i, <1>t, <2>1, <2>2 DEF LinkClosed, Link
<1>6. ASSUME NEW reason, Refused(reason)
      PROVE  IInv'
  <2>1. Sound(r')
    BY <1>6, <1>s, RefuseIs DEF Refused
  <2>2. LinkFollowsScheduler'
    BY <1>6, <1>s, <1>l, RefuseIs DEF Refused, LinkFollowsScheduler, Follows
  <2> QED
    BY <1>6, <1>i, <1>t, <2>1, <2>2 DEF Refused
<1>7. ASSUME NEW matches \in BOOLEAN, HeartbeatExpired(matches)
      PROVE  IInv'
  <2>1. Sound(Failed(Advance(r), TRUE)) /\ Sound(Terminate(r, FALSE))
        /\ Failed(Advance(r), TRUE).state \in {"RetryWait", "Terminal"}
        /\ Failed(Advance(r), TRUE).pending = TRUE
        /\ Terminate(r, FALSE).state = "Terminal"
    BY <1>s, AdvanceIs, FailedIs, TerminateIs
  <2>2. r' = Failed(Advance(r), TRUE) \/ r' = Terminate(r, FALSE)
    BY <1>7 DEF HeartbeatExpired
  <2>3. LinkFollowsScheduler'
    BY <1>7, <2>1, <2>2 DEF HeartbeatExpired, LinkFollowsScheduler, Follows
  <2> QED
    BY <1>7, <1>i, <1>t, <2>1, <2>2, <2>3 DEF HeartbeatExpired
<1>8. CASE ControlRestored
  BY <1>8, <1>i, <1>s, <1>t, <1>l DEF ControlRestored, LinkFollowsScheduler, Follows
<1>9. CASE LoopTick
  <2> DEFINE open == IF invalidated THEN "none" ELSE link
             q    == IF invalidated THEN Closed(r, "SessionChanged", TRUE) ELSE r
             next == TickOf(q).next
             drop == TickOf(q).action = "Disconnect"
                       \/ (fenced /\ next.state = "Terminal" /\ open = "connected")
  <2>1. Sound(q) /\ q.pending \in BOOLEAN /\ open \in Link
    BY <1>s, <1>t, ClosedIs DEF Link, Sound, Recovery
  <2>2. Follows(q, open, fenced)
    <3>1. CASE ~invalidated
      BY <3>1, <1>l DEF LinkFollowsScheduler
    <3>2. CASE invalidated
      <4>1. open = "none"
        BY <3>2
      <4>2. \/ Unconcerned(r) /\ q.state = r.state /\ q.pending = r.pending
            \/ q.state \in {"RetryWait", "Terminal"}
        BY <3>2, <1>s, ClosedIs
      <4> HIDE DEF q, open
      <4> QED
        BY <4>1, <4>2, <1>l, <1>s DEF LinkFollowsScheduler, Follows, Unconcerned, Recovery
    <3> QED
      BY <3>1, <3>2
  <2>3. /\ invalidated' = FALSE /\ fenced' = fenced /\ expired' = expired
        /\ \/ drop /\ link' = "none" /\ r' = next /\ pinned' = pinned
           \/ ~drop /\ TickOf(q).action = "None" /\ link' = open /\ r' = next /\ pinned' = pinned
           \/ TickOf(q).action = "Connect" /\ open = "none" /\ Dial(next) /\ pinned' = TRUE
           \/ TickOf(q).action = "Connect" /\ open # "none"
    BY <1>9 DEF LoopTick
  <2>4. Sound(next)
    BY <2>1, TickIs
  <2> HIDE DEF q, open
  <2>5. CASE drop /\ link' = "none" /\ r' = next /\ pinned' = pinned
    <3>1. /\ next.state # "Connecting"
          /\ next.state \notin {"AwaitingRoster", "Admitted"}
          /\ next.state = "Idle" => next.pending = FALSE
      BY <2>1, <2>2, <2>5, TickIs DEF Follows
    <3> HIDE DEF next
    <3>2. LinkFollowsScheduler'
      BY <2>5, <3>1 DEF LinkFollowsScheduler, Follows
    <3> QED
      BY <1>i, <1>t, <2>3, <2>4, <2>5, <3>2 DEF Link
  <2>6. CASE ~drop /\ TickOf(q).action = "None" /\ link' = open /\ r' = next /\ pinned' = pinned
    <3>1. /\ q.pending = FALSE /\ next.pending = FALSE
          /\ next.state = q.state \/ (q.state = "RetryWait" /\ next.state = "Terminal")
      BY <2>1, <2>6, TickIs
    <3> HIDE DEF next, drop
    <3>2. LinkFollowsScheduler'
      BY <2>2, <2>3, <2>6, <3>1 DEF LinkFollowsScheduler, Follows
    <3> QED
      BY <1>i, <1>t, <2>1, <2>3, <2>4, <2>6, <3>2
  <2>7. CASE TickOf(q).action = "Connect" /\ open = "none" /\ Dial(next) /\ pinned' = TRUE
    <3>1. next.state = "Connecting" /\ next.pending = FALSE
      BY <2>1, <2>7, TickIs
    <3> HIDE DEF next
    <3> QED
      BY <1>i, <1>t, <2>3, <2>4, <2>7, <3>1, DialKeeps
  <2>8. CASE TickOf(q).action = "Connect" /\ open # "none"
    BY <2>1, <2>2, <2>8, TickIs DEF Follows
  <2> QED
    BY <2>3, <2>5, <2>6, <2>7, <2>8
<1>10. CASE TimePasses
  <2>1. Cap(r.age + 1) \in 0..EpisodeMs
    BY <1>s, RecoveryAssumption DEF Cap, Recovery
  <2>2. r' = [r EXCEPT !.age = Cap(r.age + 1)]
    BY <1>10, <1>s DEF TimePasses
  <2>3. /\ r' \in Recovery /\ r'.state = r.state /\ r'.pending = r.pending
        /\ r'.episode = r.episode /\ r'.ever = r.ever /\ r'.attempts = r.attempts
    BY <1>s, <2>1, <2>2 DEF Recovery
  <2>4. Sound(r')
    BY <1>s, <2>3 DEF Sound, Budgeted
  <2>5. LinkFollowsScheduler'
    BY <1>10, <1>l, <2>3 DEF TimePasses, LinkFollowsScheduler, Follows
  <2> QED
    BY <1>10, <1>i, <1>t, <2>4, <2>5 DEF TimePasses
<1>11. CASE Exit
  <2>1. Sound(r') /\ r'.state = "Terminal"
    BY <1>11, <1>s, TerminateIs DEF Exit
  <2>2. LinkFollowsScheduler'
    BY <1>11, <2>1 DEF Exit, LinkFollowsScheduler, Follows
  <2> QED
    BY <1>11, <1>i, <1>t, <2>1, <2>2 DEF Exit, Link
<1>12. CASE UNCHANGED recoveryVars
  BY <1>12, <1>i, <1>s, <1>t, <1>l DEF recoveryVars, LinkFollowsScheduler, Follows
<1> QED
  BY <1>1, <1>2, <1>3, <1>4, <1>5, <1>6, <1>7, <1>8, <1>9, <1>10, <1>11, <1>12 DEF RecoveryNext

-----------------------------------------------------------------------------
(* The theorems.                                                           *)

\* The three invariants of the rejoin scheduler hold together, whatever the relay,
\* the network and the clock do (ClientRecovery.hpp and the loop of RuntimeMain.cpp).
THEOREM Invariance == RecoverySpec => []IInv
  BY InitIInv, NextIInv, PTL DEF RecoverySpec

\* The object, the transport and the runtime's flags keep their types: the attempt
\* counter never leaves the table of delays that tick() indexes with it.
THEOREM TypeCorrect == RecoverySpec => []TypeOK
  BY Invariance, PTL DEF IInv

\* A client waits for a retry only as an admitted friend inside an episode with an
\* attempt left, whatever the deadlines and the table of delays.
THEOREM BudgetKept == RecoverySpec => []RetryBudget
  BY Invariance, PTL DEF IInv

\* The scheduler and the transport agree: no dial over an open transport, no
\* transport left behind by a stopped client.
THEOREM TransportOwned == RecoverySpec => []LinkFollowsScheduler
  BY Invariance, PTL DEF IInv

-----------------------------------------------------------------------------
(* What makes and unmakes the count of attempts.                           *)

\* Attempts are counted inside an episode only.
Counted(q) == ~q.episode => q.attempts = 0

Earned(q) == q.state = "Admitted" /\ q.age >= StableMs

\* From q to p the count is kept, raised, or refilled by stable membership.
Spares(q, p) == p.attempts >= q.attempts \/ Earned(q)

\* A step that leaves the count alone.
LEMMA Unspent ==
    ASSUME NEW q \in Recovery, NEW p, p.attempts = q.attempts
    PROVE  Spares(q, p)
BY DEF Spares, Recovery

\* advance() forgets the attempts of an episode only together with the episode.
LEMMA AdvanceCounts ==
    ASSUME NEW q, Sound(q), Counted(q)
    PROVE  /\ Counted(Advance(q)) /\ Spares(q, Advance(q))
           /\ q.state # "Admitted" => Advance(q) = q
<1> DEFINE ended == [q EXCEPT !.episode = FALSE, !.attempts = 0, !.gap = 0]
<1>1. Advance(q) = q \/ (Advance(q) = ended /\ Earned(q))
  BY DEF Advance, Earned
<1>2. q.state # "Admitted" => Advance(q) = q
  BY DEF Advance
<1>3. ended.attempts = 0
  BY DEF Sound, Recovery
<1>4. q.attempts \in Nat
  BY DEF Sound, Recovery
<1> HIDE DEF ended
<1> QED
  BY <1>1, <1>2, <1>3, <1>4 DEF Counted, Spares

\* Stopping counts nothing.
LEMMA TerminateCounts ==
    ASSUME NEW q \in Recovery, Counted(q), NEW d \in BOOLEAN
    PROVE  Counted(Terminate(q, d)) /\ Terminate(q, d).attempts = q.attempts
BY DEF Terminate, Recovery, Counted

\* The loss that opens an episode finds no attempt to forgive.
LEMMA FailedCounts ==
    ASSUME NEW q, Sound(q), Counted(q), NEW d \in BOOLEAN
    PROVE  Counted(Failed(q, d)) /\ Failed(q, d).attempts = q.attempts
<1> DEFINE opened == [q EXCEPT !.episode = TRUE, !.gap = 0, !.age = 0, !.attempts = 0]
           e == IF q.episode THEN q ELSE opened
<1>q. q \in Recovery
  BY DEF Sound
<1>1. opened \in Recovery /\ opened.episode /\ opened.attempts = 0
  BY Ranges DEF Sound, Recovery
<1>2. e \in Recovery /\ e.episode /\ e.attempts = q.attempts
  BY <1>1, <1>q DEF Counted
<1>3. \/ Failed(q, d) = Terminate(q, d)
      \/ Failed(q, d) = Terminate(e, d)
      \/ Failed(q, d) = [Enter(e, "RetryWait") EXCEPT !.pending = d]
  BY DEF Failed
<1> HIDE DEF e
<1>4. CASE Failed(q, d) = Terminate(q, d)
  BY <1>4, <1>q, TerminateCounts
<1>5. CASE Failed(q, d) = Terminate(e, d)
  BY <1>5, <1>2, TerminateCounts DEF Counted
<1>6. CASE Failed(q, d) = [Enter(e, "RetryWait") EXCEPT !.pending = d]
  <2> DEFINE w == Enter(e, "RetryWait")
  <2>1. w \in Recovery /\ w.episode /\ w.attempts = e.attempts
    BY <1>2, EnterIs DEF State
  <2> HIDE DEF w
  <2>2. [w EXCEPT !.pending = d].episode /\ [w EXCEPT !.pending = d].attempts = e.attempts
    BY <2>1 DEF Recovery
  <2> QED
    BY <1>2, <1>6, <2>2 DEF w, Counted
<1> QED
  BY <1>3, <1>4, <1>5, <1>6

\* A closed link opens an episode or goes on with the one there is.
LEMMA ClosedCounts ==
    ASSUME NEW q, Sound(q), Counted(q), NEW reason, NEW local \in BOOLEAN
    PROVE  /\ Counted(Closed(q, reason, local)) /\ Spares(q, Closed(q, reason, local))
           /\ Closed(q, reason, local).state # "Admitted"
<1> DEFINE a == Advance(q)
<1>1. Sound(a) /\ a \in Recovery
  BY AdvanceIs DEF Sound
<1>2. Counted(a) /\ Spares(q, a)
  BY AdvanceCounts
<1>3. \/ Closed(q, reason, local) = a /\ Unconcerned(a)
      \/ Closed(q, reason, local) = Failed(a, FALSE)
      \/ Closed(q, reason, local) = Terminate(a, FALSE)
  BY DEF Closed
<1> HIDE DEF a
<1>4. /\ Counted(Closed(q, reason, local)) /\ Closed(q, reason, local).attempts = a.attempts
      /\ Closed(q, reason, local).state # "Admitted"
  BY <1>1, <1>2, <1>3, FailedCounts, TerminateCounts, FailedIs, TerminateIs DEF Unconcerned
<1> QED
  BY <1>2, <1>4 DEF Spares

\* The same of a transport that comes up.
LEMMA ConnectedCounts ==
    ASSUME NEW q, Sound(q), Counted(q)
    PROVE  Counted(Connected(q)) /\ Spares(q, Connected(q))
<1> DEFINE a == Advance(q)
<1>1. Sound(a) /\ a \in Recovery
  BY AdvanceIs DEF Sound
<1>2. Counted(a) /\ Spares(q, a)
  BY AdvanceCounts
<1>3. \/ Connected(q) = a
      \/ Connected(q) = Failed(a, TRUE)
      \/ Connected(q) = Enter(a, "AwaitingRoster")
  BY DEF Connected
<1> HIDE DEF a
<1>4. Counted(Enter(a, "AwaitingRoster")) /\ Enter(a, "AwaitingRoster").attempts = a.attempts
  BY <1>1, <1>2, EnterIs DEF Counted, State
<1>5. Counted(Connected(q)) /\ Connected(q).attempts = a.attempts
  BY <1>1, <1>2, <1>3, <1>4, FailedCounts
<1> QED
  BY <1>2, <1>5 DEF Spares

\* The same of a roster.
LEMMA AdmitRosterCounts ==
    ASSUME NEW q, Sound(q), Counted(q), NEW self \in SelfIds \cup {NoId}
    PROVE  Counted(AdmitRoster(q, self)) /\ Spares(q, AdmitRoster(q, self))
<1> DEFINE a == Advance(q)
           w == Enter(a, "Admitted")
<1>1. Sound(a) /\ a \in Recovery
  BY AdvanceIs DEF Sound
<1>2. Counted(a) /\ Spares(q, a)
  BY AdvanceCounts
<1>3. \/ AdmitRoster(q, self) = a
      \/ AdmitRoster(q, self) = Failed(a, TRUE)
      \/ AdmitRoster(q, self) = Terminate(a, TRUE)
      \/ AdmitRoster(q, self) = Admit(a, self)
  BY DEF AdmitRoster
<1>4. w \in Recovery /\ w.attempts = a.attempts /\ w.episode = a.episode
  BY <1>1, EnterIs DEF State
<1>5. Admit(a, self) = [w EXCEPT !.self = self, !.ever = TRUE]
  BY DEF Admit
<1> HIDE DEF a, w
<1>6. Admit(a, self).attempts = a.attempts /\ Admit(a, self).episode = a.episode
  BY <1>4, <1>5 DEF Recovery
<1>7. Counted(Admit(a, self))
  BY <1>2, <1>6 DEF Counted
<1>8. /\ Counted(Failed(a, TRUE)) /\ Failed(a, TRUE).attempts = a.attempts
      /\ Counted(Terminate(a, TRUE)) /\ Terminate(a, TRUE).attempts = a.attempts
  BY <1>1, <1>2, FailedCounts, TerminateCounts
<1>9. Counted(AdmitRoster(q, self)) /\ AdmitRoster(q, self).attempts = a.attempts
  BY <1>2, <1>3, <1>6, <1>7, <1>8
<1> QED
  BY <1>2, <1>9 DEF Spares

\* The same of a refusal.
LEMMA RefuseCounts ==
    ASSUME NEW q, Sound(q), Counted(q), NEW reason
    PROVE  Counted(Refuse(q, reason)) /\ Spares(q, Refuse(q, reason))
<1> DEFINE c == Closed(q, reason, FALSE)
<1>1. Sound(c) /\ c \in Recovery /\ Counted(c) /\ Spares(q, c)
  BY ClosedIs, ClosedCounts DEF Sound
<1>2. Refuse(q, reason) = q \/ Refuse(q, reason) = [c EXCEPT !.pending = TRUE]
  BY DEF Refuse
<1> HIDE DEF c
<1>3. [c EXCEPT !.pending = TRUE].attempts = c.attempts /\ [c EXCEPT !.pending = TRUE].episode = c.episode
  BY <1>1 DEF Recovery
<1>4. Spares(q, q)
  BY Unspent DEF Sound
<1>5. /\ Counted([c EXCEPT !.pending = TRUE])
      /\ Spares(q, [c EXCEPT !.pending = TRUE])
  BY <1>1, <1>3 DEF Counted, Spares
<1> QED
  BY <1>2, <1>4, <1>5

\* tick() keeps a membership that began early enough, and refills nothing that
\* stable membership has not earned.
LEMMA TickCounts ==
    ASSUME NEW q, Sound(q), Counted(q)
    PROVE  /\ Counted(TickOf(q).next) /\ Spares(q, TickOf(q).next)
           /\ q.state = "Admitted" /\ EarlyEnough(q) =>
                TickOf(q).next.state = "Admitted" /\ TickOf(q).action # "Connect"
<1> DEFINE a == Advance(q)
           unlatched == [a EXCEPT !.pending = FALSE]
<1>1. Sound(a) /\ a.state = q.state /\ a \in Recovery
  BY AdvanceIs DEF Sound
<1>2. Counted(a) /\ Spares(q, a)
  BY AdvanceCounts
<1>3. unlatched.attempts = a.attempts /\ unlatched.episode = a.episode /\ unlatched.state = a.state
  BY <1>1 DEF Recovery
<1>4. ASSUME q.state = "Admitted", EarlyEnough(q)
      PROVE  ~EpisodeOver(a)
  <2>1. CASE q.episode /\ q.age >= StableMs
    <3>1. a = [q EXCEPT !.episode = FALSE, !.attempts = 0, !.gap = 0]
      BY <1>4, <2>1 DEF Advance
    <3> HIDE DEF a
    <3>2. a.episode = FALSE
      BY <3>1 DEF Sound, Recovery
    <3> QED
      BY <3>2 DEF EpisodeOver
  <2>2. CASE ~(q.episode /\ q.age >= StableMs)
    <3>1. a = q
      BY <2>2 DEF Advance
    <3>2. q.age \in Nat /\ q.gap \in Nat /\ StableMs \in Nat /\ EpisodeMs \in Nat
      BY RecoveryAssumption DEF Sound, Recovery
    <3> HIDE DEF a
    <3> QED
      BY <1>4, <2>2, <3>1, <3>2 DEF EpisodeOver, EarlyEnough
  <2> QED  BY <2>1, <2>2
<1>5. CASE a.pending
  <2>1. TickOf(q) = [action |-> "Disconnect", next |-> unlatched]
    BY <1>5 DEF TickOf
  <2> HIDE DEF a, unlatched
  <2>2. TickOf(q).next = unlatched /\ TickOf(q).action = "Disconnect"
    BY <2>1
  <2> QED
    BY <1>1, <1>2, <1>3, <2>2 DEF Counted, Spares
<1>6. CASE ~a.pending
  <2>1. /\ \/ TickOf(q).next = a
           \/ TickOf(q).next = Terminate(a, FALSE)
           \/ TickOf(q).next = Failed(a, FALSE)
           \/ TickOf(q).next = Attempt(a) /\ a.state = "RetryWait"
        /\ a.state = "Admitted" /\ ~EpisodeOver(a) => TickOf(q).next = a /\ TickOf(q).action = "None"
    BY <1>6 DEF TickOf, Overdue
  <2>2. ASSUME a.state = "RetryWait"
        PROVE  Counted(Attempt(a)) /\ Attempt(a).attempts = a.attempts + 1
    <3> DEFINE w == Enter(a, "Connecting")
    <3>1. w \in Recovery /\ w.attempts = a.attempts /\ w.episode = a.episode
      BY <1>1, EnterIs DEF State
    <3>2. Attempt(a) = [w EXCEPT !.attempts = w.attempts + 1]
      BY <1>1 DEF Attempt
    <3>3. a.episode
      BY <1>1, <2>2 DEF Sound, Budgeted
    <3> HIDE DEF a, w
    <3>4. /\ [w EXCEPT !.attempts = w.attempts + 1].attempts = w.attempts + 1
          /\ [w EXCEPT !.attempts = w.attempts + 1].episode = w.episode
      BY <3>1 DEF Recovery
    <3> QED
      BY <3>1, <3>2, <3>3, <3>4 DEF Counted
  <2> HIDE DEF a, unlatched
  <2>3. a.attempts \in Nat
    BY <1>1 DEF Recovery
  <2>4. /\ Counted(TickOf(q).next)
        /\ TickOf(q).next.attempts = a.attempts \/ TickOf(q).next.attempts = a.attempts + 1
    BY <1>1, <1>2, <2>1, <2>2, FailedCounts, TerminateCounts
  <2>5. q.attempts \in Nat
    BY DEF Sound, Recovery
  <2> QED
    BY <1>1, <1>2, <1>4, <2>1, <2>3, <2>4, <2>5 DEF Spares
<1> QED
  BY <1>5, <1>6

\* Entering a state counts nothing.
LEMMA EnterCounts ==
    ASSUME NEW q \in Recovery, Counted(q), NEW s \in State
    PROVE  Counted(Enter(q, s)) /\ Enter(q, s).attempts = q.attempts
BY EnterIs DEF Counted

\* Nor does dialling.
LEMMA DialCounts ==
    ASSUME NEW q, Sound(q), Counted(q), Dial(q)
    PROVE  Counted(r') /\ r'.attempts = q.attempts
BY FailedCounts DEF Dial

\* Nothing but stable membership gives an attempt back.
LEMMA NextCounts ==
    ASSUME IInv, Counted(r), [RecoveryNext]_recoveryVars
    PROVE  Counted(r') /\ Spares(r, r')
<1>s. Sound(r) /\ r \in Recovery /\ r.attempts \in Nat
  BY DEF IInv, TypeOK, RetryBudget, Sound, Recovery
<1>1. CASE Start
  <2>1. Sound(Enter(r, "Connecting"))
    BY <1>s, EnterIs DEF Sound, Budgeted, State
  <2>2. Counted(Enter(r, "Connecting")) /\ Enter(r, "Connecting").attempts = r.attempts
    BY <1>s, EnterCounts DEF State
  <2> QED
    BY <1>1, <1>s, <2>1, <2>2, DialCounts DEF Start, Spares
<1>2. CASE TransportUp
  BY <1>2, <1>s, ConnectedCounts DEF TransportUp
<1>3. ASSUME NEW self \in SelfIds \cup {NoId}, Roster(self)
      PROVE  Counted(r') /\ Spares(r, r')
  BY <1>3, <1>s, AdmitRosterCounts DEF Roster
<1>4. CASE RosterBreaksPin
  <2>1. r' = Closed(r, "SessionChanged", TRUE) \/ r' = r
    BY <1>4 DEF RosterBreaksPin
  <2>2. /\ Counted(Closed(r, "SessionChanged", TRUE)) /\ Spares(r, Closed(r, "SessionChanged", TRUE))
        /\ Spares(r, r)
    BY <1>s, ClosedCounts, Unspent
  <2> QED
    BY <2>1, <2>2
<1>5. ASSUME NEW reason, LinkClosed(reason)
      PROVE  Counted(r') /\ Spares(r, r')
  BY <1>5, <1>s, ClosedCounts DEF LinkClosed
<1>6. ASSUME NEW reason, Refused(reason)
      PROVE  Counted(r') /\ Spares(r, r')
  BY <1>6, <1>s, RefuseCounts DEF Refused
<1>7. ASSUME NEW matches \in BOOLEAN, HeartbeatExpired(matches)
      PROVE  Counted(r') /\ Spares(r, r')
  <2>1. r' = Failed(Advance(r), TRUE) \/ r' = Terminate(r, FALSE)
    BY <1>7 DEF HeartbeatExpired
  <2>2. Sound(Advance(r)) /\ Counted(Advance(r)) /\ Spares(r, Advance(r))
    BY <1>s, AdvanceIs, AdvanceCounts
  <2>3. /\ Counted(Failed(Advance(r), TRUE)) /\ Failed(Advance(r), TRUE).attempts = Advance(r).attempts
        /\ Counted(Terminate(r, FALSE)) /\ Terminate(r, FALSE).attempts = r.attempts
    BY <1>s, <2>2, FailedCounts, TerminateCounts
  <2>4. Spares(r, Terminate(r, FALSE))
    BY <1>s, <2>3, Unspent
  <2>5. Spares(r, Failed(Advance(r), TRUE))
    BY <2>2, <2>3 DEF Spares
  <2> QED
    BY <2>1, <2>3, <2>4, <2>5
<1>8. CASE ControlRestored
  BY <1>8, <1>s DEF ControlRestored, Spares
<1>9. CASE LoopTick
  <2> DEFINE q    == IF invalidated THEN Closed(r, "SessionChanged", TRUE) ELSE r
             next == TickOf(q).next
  <2>1. Sound(q) /\ Counted(q) /\ Spares(r, q) /\ (q = r \/ q.state # "Admitted")
    <3>1. /\ Sound(Closed(r, "SessionChanged", TRUE)) /\ Counted(Closed(r, "SessionChanged", TRUE))
          /\ Spares(r, Closed(r, "SessionChanged", TRUE)) /\ Closed(r, "SessionChanged", TRUE).state # "Admitted"
      BY <1>s, ClosedIs, ClosedCounts
    <3>2. Spares(r, r)
      BY <1>s, Unspent
    <3> QED
      BY <1>s, <3>1, <3>2
  <2>2. \/ r' = next
        \/ Dial(next)
        \/ r' = Terminate(next, FALSE)
    BY <1>9 DEF LoopTick
  <2> HIDE DEF q
  <2>3. Sound(next) /\ Counted(next) /\ Spares(q, next)
    BY <2>1, TickIs, TickCounts
  <2> HIDE DEF next
  <2>4. Counted(r') /\ r'.attempts = next.attempts
    BY <2>2, <2>3, DialCounts, TerminateCounts DEF Sound
  <2>5. q.attempts \in Nat /\ next.attempts \in Nat
    BY <2>1, <2>3 DEF Sound, Recovery
  <2> QED
    BY <1>s, <2>1, <2>3, <2>4, <2>5 DEF Spares, Earned
<1>10. CASE TimePasses
  <2>1. r'.attempts = r.attempts /\ r'.episode = r.episode
    BY <1>10, <1>s DEF TimePasses, Recovery
  <2> QED
    BY <1>s, <2>1 DEF Counted, Spares
<1>11. CASE Exit
  <2>1. Counted(Terminate(r, FALSE)) /\ Terminate(r, FALSE).attempts = r.attempts
    BY <1>s, TerminateCounts
  <2> QED
    BY <1>11, <1>s, <2>1, Unspent DEF Exit
<1>12. CASE UNCHANGED recoveryVars
  BY <1>12, <1>s DEF recoveryVars, Spares
<1> QED
  BY <1>1, <1>2, <1>3, <1>4, <1>5, <1>6, <1>7, <1>8, <1>9, <1>10, <1>11, <1>12 DEF RecoveryNext

\* A turn of the loop never ends, by the episode's limit, a membership that began
\* early enough to become stable.
LEMMA TurnKeepsMembership ==
    ASSUME IInv, Counted(r), LoopTick, r.state = "Admitted", r.gap + StableMs <= EpisodeMs, ~invalidated
    PROVE  r'.state = "Admitted"
<1> DEFINE next == TickOf(r).next
<1>1. Sound(r)
  BY DEF IInv, TypeOK, RetryBudget, Sound
<1>2. next.state = "Admitted" /\ TickOf(r).action # "Connect"
  BY <1>1, TickCounts DEF EarlyEnough
<1>3. r' = next
  BY <1>2 DEF LoopTick
<1> QED
  BY <1>2, <1>3

\* However late a tick, membership won in time is kept; and no relay that admits
\* and drops a friend refills its attempts.
THEOREM MembershipEarns == RecoverySpec => OnlyStableMembershipCounts
<1> DEFINE Inv == IInv /\ Counted(r)
<1>1. RecoveryInit => Inv
  BY InitIInv DEF RecoveryInit, Counted
<1>2. Inv /\ [RecoveryNext]_recoveryVars => Inv'
  BY NextIInv, NextCounts DEF Counted
<1>3. Inv /\ [RecoveryNext]_recoveryVars =>
        [/\ LoopTick /\ r.state = "Admitted" /\ r.gap + StableMs <= EpisodeMs /\ ~invalidated
              => r'.state = "Admitted"
         /\ r'.attempts < r.attempts => r.state = "Admitted" /\ r.age >= StableMs]_recoveryVars
  <2> SUFFICES ASSUME Inv, [RecoveryNext]_recoveryVars
               PROVE  /\ LoopTick /\ r.state = "Admitted" /\ r.gap + StableMs <= EpisodeMs /\ ~invalidated
                            => r'.state = "Admitted"
                      /\ r'.attempts < r.attempts => r.state = "Admitted" /\ r.age >= StableMs
    OBVIOUS
  <2>1. IInv /\ IInv'
    BY NextIInv
  <2>2. r.attempts \in Nat /\ r'.attempts \in Nat
    BY <2>1 DEF IInv, TypeOK, Recovery
  <2>3. Spares(r, r')
    BY NextCounts
  <2> QED
    BY <2>2, <2>3, TurnKeepsMembership DEF Spares, Earned
<1> QED
  BY <1>1, <1>2, <1>3, PTL DEF RecoverySpec, OnlyStableMembershipCounts

-----------------------------------------------------------------------------
(*                     THE WORLD A FRIEND IS SHOWN                           *)
--------------------------------------------------------------------------
(* Lists: sequences whose elements are all that is said of them.           *)

IsList(s) == s \in Seq(Range(s))

\* A sequence over any set is a list.
LEMMA ListOf ==
  ASSUME NEW T, NEW s \in Seq(T)
  PROVE  /\ IsList(s)
         /\ Range(s) \subseteq T
         /\ Len(s) \in Nat
         /\ DOMAIN s = 1..Len(s)
         /\ \A k \in 1..Len(s) : s[k] \in Range(s)
         /\ \A x \in Range(s) : \E k \in 1..Len(s) : x = s[k]
BY DEF IsList, Range

\* What a list says of its elements.
LEMMA ListElements ==
  ASSUME NEW s, IsList(s)
  PROVE  /\ Len(s) \in Nat
         /\ DOMAIN s = 1..Len(s)
         /\ \A k \in 1..Len(s) : s[k] \in Range(s)
         /\ \A x \in Range(s) : \E k \in 1..Len(s) : x = s[k]
BY DEF IsList, Range

\* The empty list.
LEMMA ListEmpty == IsList(<<>>) /\ Range(<<>>) = {} /\ Len(<<>>) = 0
BY DEF IsList, Range

\* A list of one element.
LEMMA ListOne == ASSUME NEW x PROVE IsList(<<x>>) /\ Range(<<x>>) = {x} /\ Len(<<x>>) = 1 /\ <<x>>[1] = x
<1>1. <<x>> \in Seq({x})
  OBVIOUS
<1>2. DOMAIN <<x>> = 1..1 /\ <<x>>[1] = x /\ Len(<<x>>) = 1
  OBVIOUS
<1>3. Range(<<x>>) = {x}
  BY <1>2 DEF Range
<1> QED
  BY <1>1, <1>2, <1>3 DEF IsList

\* One element behind a list.
LEMMA ListAppend ==
  ASSUME NEW s, IsList(s), NEW x
  PROVE  /\ IsList(Append(s, x))
         /\ Range(Append(s, x)) = Range(s) \cup {x}
         /\ Len(Append(s, x)) = Len(s) + 1
         /\ \A k \in 1..Len(s) : Append(s, x)[k] = s[k]
         /\ Append(s, x)[Len(s) + 1] = x
<1> DEFINE T == Range(s) \cup {x}
           a == Append(s, x)
<1>0. Len(s) \in Nat /\ DOMAIN s = 1..Len(s)
  BY DEF IsList
<1>1. s \in Seq(T)
  BY SeqMonotonic DEF IsList
<1>2. /\ a \in Seq(T)
      /\ Len(a) = Len(s) + 1
      /\ \A k \in 1..Len(s) : a[k] = s[k]
      /\ a[Len(s) + 1] = x
  BY <1>1
<1>3. DOMAIN a = 1..(Len(s) + 1)
  BY <1>2
<1>4. Range(a) = T
  <2>1. Range(a) \subseteq T
    BY <1>0, <1>2, <1>3 DEF Range
  <2>2. Range(s) \subseteq Range(a)
    BY <1>0, <1>2, <1>3 DEF Range
  <2>3. x \in Range(a)
    BY <1>0, <1>2, <1>3 DEF Range
  <2> QED
    BY <2>1, <2>2, <2>3
<1> QED
  BY <1>2, <1>4 DEF IsList

\* One list behind another.
LEMMA ListConcat ==
  ASSUME NEW s, IsList(s), NEW t, IsList(t)
  PROVE  /\ IsList(s \o t)
         /\ Range(s \o t) = Range(s) \cup Range(t)
         /\ Len(s \o t) = Len(s) + Len(t)
         /\ \A k \in 1..Len(s) : (s \o t)[k] = s[k]
         /\ \A k \in 1..Len(t) : (s \o t)[Len(s) + k] = t[k]
<1> DEFINE T == Range(s) \cup Range(t)
           c == s \o t
<1>0. Len(s) \in Nat /\ DOMAIN s = 1..Len(s) /\ Len(t) \in Nat /\ DOMAIN t = 1..Len(t)
  BY DEF IsList
<1>1. s \in Seq(T) /\ t \in Seq(T)
  BY SeqMonotonic DEF IsList
<1>2. /\ c \in Seq(T)
      /\ Len(c) = Len(s) + Len(t)
      /\ \A k \in 1..(Len(s) + Len(t)) : c[k] = IF k <= Len(s) THEN s[k] ELSE t[k - Len(s)]
  BY <1>1, ConcatProperties
<1>3. DOMAIN c = 1..(Len(s) + Len(t))
  BY <1>2
<1>4. \A k \in 1..Len(s) : c[k] = s[k]
  BY <1>0, <1>2
<1>5. \A k \in 1..Len(t) : c[Len(s) + k] = t[k]
  BY <1>0, <1>2
<1>6. Range(c) = T
  <2>1. Range(c) \subseteq T
    BY <1>2 DEF Range
  <2>2. Range(s) \subseteq Range(c)
    BY <1>0, <1>3, <1>4 DEF Range
  <2>3. ASSUME NEW k \in 1..Len(t)
        PROVE  t[k] \in Range(c)
    <3>1. Len(s) + k \in DOMAIN c
      BY <1>0, <1>3
    <3> QED
      BY <3>1, <1>5 DEF Range
  <2> QED
    BY <2>1, <2>2, <2>3, <1>0 DEF Range
<1> QED
  BY <1>2, <1>4, <1>5, <1>6 DEF IsList

\* A part of a list.
LEMMA ListPart ==
  ASSUME NEW s, IsList(s), NEW m \in Nat \ {0}, NEW n \in 0..Len(s)
  PROVE  /\ IsList(SubSeq(s, m, n))
         /\ Range(SubSeq(s, m, n)) \subseteq Range(s)
         /\ m <= n => Len(SubSeq(s, m, n)) = n - m + 1
         /\ m > n => Len(SubSeq(s, m, n)) = 0
         /\ \A k \in 1..Len(SubSeq(s, m, n)) : SubSeq(s, m, n)[k] = s[m + k - 1]
<1>0. Len(s) \in Nat /\ Len(SubSeq(s, m, n)) \in Nat
  BY DEF IsList
<1>1. SubSeq(s, m, n) \in Seq(Range(s))
  BY DEF IsList
<1>2. Len(SubSeq(s, m, n)) = IF m <= n THEN n - m + 1 ELSE 0
  BY DEF IsList
<1>3. \A k \in 1..Len(SubSeq(s, m, n)) : SubSeq(s, m, n)[k] = s[m + k - 1]
  BY <1>2 DEF IsList
<1>4. IsList(SubSeq(s, m, n)) /\ Range(SubSeq(s, m, n)) \subseteq Range(s)
  BY <1>1, ListOf
<1> QED
  BY <1>0, <1>2, <1>3, <1>4

\* A list without its first element.
LEMMA ListTail ==
  ASSUME NEW s, IsList(s), s # <<>>
  PROVE  /\ IsList(Tail(s))
         /\ Range(Tail(s)) \subseteq Range(s)
         /\ Head(s) \in Range(s)
         /\ Head(s) = s[1]
         /\ Len(Tail(s)) = Len(s) - 1
         /\ Len(s) \in Nat \ {0}
         /\ \A k \in 1..Len(Tail(s)) : Tail(s)[k] = s[k + 1]
<1>1. /\ Tail(s) \in Seq(Range(s))
      /\ Len(Tail(s)) = Len(s) - 1
      /\ Len(s) \in Nat \ {0}
      /\ Head(s) = s[1]
      /\ \A k \in 1..Len(Tail(s)) : Tail(s)[k] = s[k + 1]
  BY DEF IsList
<1>2. s[1] \in Range(s)
  BY <1>1, ListElements
<1> QED
  BY <1>1, <1>2, ListOf

\* One element in front of a list.
LEMMA ListAhead ==
  ASSUME NEW x, NEW s, IsList(s)
  PROVE  IsList(<<x>> \o s) /\ Range(<<x>> \o s) = {x} \cup Range(s)
<1>1. IsList(<<x>>) /\ Range(<<x>>) = {x}
  BY ListOne
<1> QED
  BY <1>1, ListConcat

\* The first n packets of a backlog go behind what the ring holds.
LEMMA HandedOver ==
  ASSUME NEW ring, IsList(ring), NEW backlog, IsList(backlog), NEW n \in 0..Len(backlog)
  PROVE  LET sent == SubSeq(backlog, 1, n)
             all == ring \o sent
         IN  /\ IsList(sent) /\ Range(sent) \subseteq Range(backlog)
             /\ IsList(all) /\ Range(all) = Range(ring) \cup Range(sent)
             /\ Len(all) = Len(ring) + n
             /\ \A k \in 1..Len(ring) : all[k] = ring[k]
             /\ \A k \in 1..n : all[Len(ring) + k] \in Range(sent)
<1> DEFINE sent == SubSeq(backlog, 1, n)
           all == ring \o sent
<1>1. Len(backlog) \in Nat /\ 1 \in Nat \ {0}
  BY ListElements
<1>2. IsList(sent) /\ Range(sent) \subseteq Range(backlog) /\ Len(sent) = n
  <2>1. IsList(sent) /\ Range(sent) \subseteq Range(backlog)
    BY <1>1, ListPart
  <2>2. (1 <= n => Len(sent) = n - 1 + 1) /\ (1 > n => Len(sent) = 0)
    BY <1>1, ListPart
  <2>3. n \in Nat
    BY <1>1
  <2> QED
    BY <2>1, <2>2, <2>3
<1> HIDE DEF sent
<1>3. \A k \in 1..n : sent[k] \in Range(sent)
  BY <1>2, ListElements
<1>4. IsList(all) /\ Range(all) = Range(ring) \cup Range(sent) /\ Len(all) = Len(ring) + Len(sent)
  BY <1>2, ListConcat
<1>5. \A k \in 1..Len(ring) : all[k] = ring[k]
  BY <1>2, ListConcat
<1>6. \A k \in 1..Len(sent) : all[Len(ring) + k] = sent[k]
  BY <1>2, ListConcat
<1> QED
  BY <1>2, <1>3, <1>4, <1>5, <1>6 DEF sent

\* A claim about the prefixes of a list, from the empty one to all of it.
LEMMA Stepwise ==
  ASSUME NEW n \in Nat, NEW S, 0 \in S, \A k \in 0..(n - 1) : k \in S => k + 1 \in S
  PROVE  0..n \subseteq S
<1> DEFINE Missing == (0..n) \ S
           R == {p \in Nat \X Nat : p[1] < p[2]}
<1> SUFFICES ASSUME Missing # {}
             PROVE  FALSE
  OBVIOUS
<1>1. IsWellFoundedOn(R, Nat)
  BY NatLessThanWellFounded DEF OpToRel
<1>2. Missing \subseteq Nat
  OBVIOUS
<1> HIDE DEF R
<1>3. PICK k \in Missing : \A j \in Missing : ~(<<j, k>> \in R)
  BY <1>1, <1>2, WFMin
<1>4. k \in 1..n /\ k \notin S
  BY <1>3
<1>5. <<k - 1, k>> \in R
  BY <1>4 DEF R
<1>6. k - 1 \notin Missing
  BY <1>3, <1>5
<1>7. k - 1 \in S
  BY <1>4, <1>6
<1>8. k - 1 \in 0..(n - 1) /\ (k - 1) + 1 = k
  BY <1>4
<1>9. \A j \in 0..(n - 1) : j \in S => j + 1 \in S
  OBVIOUS
<1> QED
  BY <1>4, <1>7, <1>8, <1>9

\* Unmarked's loop, over the first n packets.
Keeps(kept, s, n) ==
  kept = [k \in 0..n |-> IF k = 0 THEN <<>>
                         ELSE IF s[k].p = "marker" THEN kept[k - 1] ELSE Append(kept[k - 1], s[k])]

\* The loop over the inbox has a value at every length, so that CHOOSE finds it.
LEMMA LoopExists ==
  ASSUME NEW s, IsList(s)
  PROVE  \E kept : Keeps(kept, s, Len(s))
<1> DEFINE S == {n \in Nat : \E kept : Keeps(kept, s, n)}
<1>0. Len(s) \in Nat
  BY ListElements
<1>1. 0 \in S
  <2> DEFINE kept == [k \in 0..0 |-> <<>>]
  <2>1. Keeps(kept, s, 0)
    BY DEF Keeps
  <2> QED
    BY <2>1
<1>2. ASSUME NEW n \in 0..(Len(s) - 1), n \in S
      PROVE  n + 1 \in S
  <2>1. PICK kept : Keeps(kept, s, n)
    BY <1>2
  <2> DEFINE more == [k \in 0..(n + 1) |-> IF k = 0 THEN <<>>
                        ELSE IF s[k].p = "marker" THEN kept[k - 1] ELSE Append(kept[k - 1], s[k])]
  <2>2. n \in Nat
    BY <1>0
  <2>3. \A k \in 0..n : more[k] = kept[k]
    <3> SUFFICES ASSUME NEW k \in 0..n
                 PROVE  more[k] = kept[k]
      OBVIOUS
    <3>1. k \in 0..(n + 1)
      BY <2>2
    <3>2. kept[k] = IF k = 0 THEN <<>>
                    ELSE IF s[k].p = "marker" THEN kept[k - 1] ELSE Append(kept[k - 1], s[k])
      BY <2>1 DEF Keeps
    <3> QED
      BY <3>1, <3>2
  <2>4. \A k \in 0..(n + 1) : k # 0 => k - 1 \in 0..n
    BY <2>2
  <2>5. \A k \in 0..(n + 1) : k # 0 => more[k - 1] = kept[k - 1]
    BY <2>3, <2>4
  <2> DEFINE again == [k \in 0..(n + 1) |-> IF k = 0 THEN <<>>
                        ELSE IF s[k].p = "marker" THEN more[k - 1] ELSE Append(more[k - 1], s[k])]
  <2>6. \A k \in 0..(n + 1) : more[k] = again[k]
    <3> SUFFICES ASSUME NEW k \in 0..(n + 1)
                 PROVE  more[k] = again[k]
      OBVIOUS
    <3>1. k # 0 => more[k - 1] = kept[k - 1]
      BY <2>5
    <3> HIDE DEF more
    <3>2. again[k] = IF k = 0 THEN <<>>
                     ELSE IF s[k].p = "marker" THEN more[k - 1] ELSE Append(more[k - 1], s[k])
      OBVIOUS
    <3>3. more[k] = IF k = 0 THEN <<>>
                     ELSE IF s[k].p = "marker" THEN kept[k - 1] ELSE Append(kept[k - 1], s[k])
      BY DEF more
    <3> QED
      BY <3>1, <3>2, <3>3
  <2>7. more = again
    BY <2>6
  <2>8. Keeps(more, s, n + 1)
    <3> HIDE DEF more
    <3> QED
      BY <2>7 DEF Keeps
  <2> QED
    BY <2>2, <2>8
<1>3. 0..Len(s) \subseteq S
  <2> HIDE DEF S
  <2> QED
    BY <1>0, <1>1, <1>2, Stepwise
<1> QED
  BY <1>0, <1>3

\* Without its markers an inbox keeps packets it held, and no marker.
LEMMA UnmarkedList ==
  ASSUME NEW s, IsList(s)
  PROVE  IsList(Unmarked(s)) /\ Range(Unmarked(s)) \subseteq Range(s)
<1> DEFINE kept == CHOOSE f : Keeps(f, s, Len(s))
           Good(x) == IsList(x) /\ Range(x) \subseteq Range(s)
           S == {n \in 0..Len(s) : Good(kept[n])}
<1>0. Len(s) \in Nat /\ \A k \in 1..Len(s) : s[k] \in Range(s)
  BY ListElements
<1>1. Unmarked(s) = kept[Len(s)]
  BY DEF Unmarked, Keeps
<1>2. Keeps(kept, s, Len(s))
  BY LoopExists
<1> HIDE DEF kept
<1>3. 0 \in S
  <2>1. kept[0] = <<>>
    BY <1>0, <1>2 DEF Keeps
  <2> QED
    BY <1>0, <2>1, ListEmpty
<1>4. ASSUME NEW n \in 0..(Len(s) - 1), n \in S
      PROVE  n + 1 \in S
  <2>1. n + 1 \in 1..Len(s) /\ n + 1 \in 0..Len(s) /\ n + 1 # 0 /\ (n + 1) - 1 = n
    BY <1>0
  <2>2. kept[n + 1] = IF s[n + 1].p = "marker" THEN kept[n] ELSE Append(kept[n], s[n + 1])
    BY <1>2, <2>1 DEF Keeps
  <2>3. Good(kept[n]) /\ s[n + 1] \in Range(s)
    BY <1>0, <1>4, <2>1
  <2>4. Good(Append(kept[n], s[n + 1]))
    BY <2>3, ListAppend
  <2> QED
    BY <2>1, <2>2, <2>3, <2>4
<1>5. 0..Len(s) \subseteq S
  <2> HIDE DEF S
  <2> QED
    BY <1>0, <1>3, <1>4, Stepwise
<1> QED
  BY <1>0, <1>1, <1>5
--------------------------------------------------------------------------
(* What travels, and one friend's path.                                   *)

\* Readings of one room.
IsBody(b) ==
  /\ b.t \in {"room", "hold", "manifest", "hp", "death", "progress"}
  /\ b.t = "hp" => \A i \in DOMAIN b.hp : b.hp[i].epoch = b.epoch

IsPacket(m) == m.p \in {"session", "binding", "world"} /\ (m.p = "world" => IsBody(m.body))

\* What waits for the game: no marker of a generation the header has not published.
Waits(q, gen) ==
  /\ q.p \in {"marker", "world"}
  /\ q.p = "marker" => q.gen \in 0..gen
  /\ q.p = "world" => IsBody(q.body)

NetShape(n) == DOMAIN n = {"wire", "session", "host", "self", "ready", "bound", "epoch", "hpSeq"}
RtShape(rt) == DOMAIN rt = {"session", "host", "self", "bound", "gen", "pin", "open", "over"}
DllShape(d) ==
  DOMAIN d = {"gen", "ordered", "hpFloor", "epoch", "enemies", "hold", "replay", "version", "progress", "seen"}
Shape(g) ==
  /\ DOMAIN g = {"net", "rt", "inbox", "header", "ring", "dll"}
  /\ NetShape(g.net)
  /\ RtShape(g.rt)
  /\ DOMAIN g.header = {"gen", "self", "bound"}
  /\ DllShape(g.dll)

Words(g) ==
  /\ g.header.gen \in Nat
  /\ g.rt.gen \in 0..g.header.gen
  /\ g.dll.gen \in 0..g.header.gen
  /\ g.rt.open \in BOOLEAN

\* The connection and the runtime are of one session.
OneSession(g) == g.net.ready => g.net.session = g.rt.session

Life(g) == <<g.net.wire, g.rt.session>>

InboxOK(g) ==
  /\ IsList(g.inbox)
  /\ \A q \in Range(g.inbox) : Waits(q, g.header.gen) /\ (q.p = "world" => q.life = Life(g))

RingOK(g) == IsList(g.ring) /\ Len(g.ring) <= RingCapacity /\ \A q \in Range(g.ring) : Waits(q, g.header.gen)

\* The marker of the generation the header publishes has been taken.
Bound(g) == g.dll.ordered # 0 /\ g.dll.ordered = g.dll.gen /\ g.dll.gen = g.header.gen

\* The packet at k is behind that marker.
Behind(g, k) == Bound(g) \/ \E j \in 1..(k - 1) : g.ring[j].p = "marker" /\ g.ring[j].gen = g.header.gen

\* What is behind the marker, and what has been shown behind it, is of one life.
OfLife(g, life) ==
  /\ \A k \in 1..Len(g.ring) : g.ring[k].p = "world" /\ Behind(g, k) => g.ring[k].life = life
  /\ Bound(g) => g.dll.seen \subseteq {life}

ViewOK(d) ==
  \A i \in DOMAIN d.enemies : /\ DOMAIN d.enemies[i] = {"hp", "dead"}
                              /\ d.enemies[i].hp # <<>> => d.enemies[i].hp.epoch = d.epoch

\* All but the inbox and the life of what is under way: what a reset needs.
Basis(g) == Shape(g) /\ Words(g) /\ OneSession(g) /\ RingOK(g) /\ ViewOK(g.dll) /\ \E life : OfLife(g, life)

FriendInv(g) == Basis(g) /\ InboxOK(g) /\ (g.rt.open => OfLife(g, Life(g)))

\* A friend that has started and heard nothing.
LEMMA NewFriendOK == FriendInv(NewFriend)
<1> DEFINE g == NewFriend
<1>1. /\ g.net = NoLink /\ g.rt = NewProcess /\ g.inbox = <<>> /\ g.ring = <<>> /\ g.dll = NewGame
      /\ g.header = [gen |-> 0, self |-> 0, bound |-> FALSE]
  BY DEF NewFriend
<1>2. /\ DOMAIN g = {"net", "rt", "inbox", "header", "ring", "dll"}
      /\ NetShape(NoLink) /\ RtShape(NewProcess) /\ DllShape(NewGame)
      /\ DOMAIN g.header = {"gen", "self", "bound"}
  BY DEF NetShape, RtShape, DllShape, NewFriend, NewProcess, NewGame, NoLink
<1> HIDE DEF g
<1>6. Shape(g) /\ Words(g) /\ OneSession(g)
  BY <1>1, <1>2 DEF Shape, Words, OneSession, NewProcess, NewGame, NoLink
<1>3. RingOK(g) /\ InboxOK(g)
  BY <1>1, ListEmpty, FriendAssumption DEF RingOK, InboxOK
<1>4. ViewOK(g.dll)
  BY <1>1 DEF ViewOK, NewGame
<1>5. OfLife(g, Life(g))
  BY <1>1, ListEmpty DEF OfLife, Bound, NewGame
<1> QED
  BY <1>3, <1>4, <1>5, <1>6 DEF FriendInv, Basis, g

\* The part of a friend that a step on its queues leaves alone.
SameBut(g, h) == h.net = g.net /\ h.rt = g.rt /\ h.header = g.header /\ h.dll = g.dll /\ DOMAIN h = DOMAIN g

\* Packets pass from the inbox to the ring in order, as many as it has room for.
LEMMA DeliveredOK ==
  ASSUME NEW g, NEW backlog, Shape(g), FriendInv([g EXCEPT !.inbox = backlog])
  PROVE  FriendInv(Delivered(g, backlog)) /\ SameBut(g, Delivered(g, backlog))
<1> DEFINE b == [g EXCEPT !.inbox = backlog]
           room == RingCapacity - Len(g.ring)
           moved == IF g.rt.open THEN Min({room, Len(backlog)}) ELSE 0
           gone == SubSeq(backlog, 1, moved)
           rest == SubSeq(backlog, moved + 1, Len(backlog))
           h == Delivered(g, backlog)
<1>1. /\ b.net = g.net /\ b.rt = g.rt /\ b.header = g.header /\ b.ring = g.ring /\ b.dll = g.dll
      /\ b.inbox = backlog
  BY DEF Shape
<1>2. /\ h.ring = g.ring \o gone /\ h.inbox = rest
      /\ Shape(h) /\ SameBut(g, h)
  BY DEF Delivered, Shape, SameBut
<1>3. /\ IsList(g.ring) /\ IsList(backlog) /\ Len(g.ring) \in Nat /\ Len(backlog) \in Nat
      /\ room \in Nat
  BY <1>1, ListElements, FriendAssumption DEF FriendInv, Basis, RingOK, InboxOK
<1>4. moved \in 0..Len(backlog) /\ moved <= room
  <2>1. Min({room, Len(backlog)}) \in 0..Len(backlog) /\ Min({room, Len(backlog)}) <= room
    <3>1. \E x \in {room, Len(backlog)} : \A y \in {room, Len(backlog)} : x =< y
      BY <1>3
    <3> QED
      BY <1>3, <3>1 DEF Min
  <2> QED
    BY <1>3, <2>1
<1> HIDE DEF moved
<1>5. /\ IsList(gone) /\ Range(gone) \subseteq Range(backlog) /\ Len(gone) = moved
      /\ moved = 0 \/ g.rt.open
  <2>1. moved = 0 \/ g.rt.open
    BY DEF moved
  <2>0. 1 \in Nat \ {0}
    OBVIOUS
  <2>2. IsList(gone) /\ Range(gone) \subseteq Range(backlog)
    BY <1>3, <1>4, <2>0, ListPart
  <2>3. (1 <= moved => Len(gone) = moved - 1 + 1) /\ (1 > moved => Len(gone) = 0)
    BY <1>3, <1>4, <2>0, ListPart
  <2>4. moved \in Nat
    BY <1>3, <1>4
  <2> QED
    BY <2>1, <2>2, <2>3, <2>4
<1>6. IsList(rest) /\ Range(rest) \subseteq Range(backlog)
  <2>1. moved + 1 \in Nat \ {0} /\ Len(backlog) \in 0..Len(backlog)
    BY <1>3, <1>4
  <2> QED
    BY <1>3, <2>1, ListPart
<1>7. /\ IsList(h.ring) /\ Range(h.ring) = Range(g.ring) \cup Range(gone)
      /\ Len(h.ring) = Len(g.ring) + moved
      /\ \A k \in 1..Len(g.ring) : h.ring[k] = g.ring[k]
      /\ \A k \in 1..moved : h.ring[Len(g.ring) + k] \in Range(gone)
  <2>1. IsList(g.ring)
    BY <1>3
  <2>2. IsList(backlog)
    BY <1>3
  <2>3. moved \in 0..Len(backlog)
    BY <1>4
  <2> DEFINE all == g.ring \o gone
  <2>4. h.ring = all
    BY <1>2
  <2> HIDE DEF moved, h
  <2>5. IsList(all)
    BY <2>1, <2>2, <2>3, HandedOver
  <2>6. Range(all) = Range(g.ring) \cup Range(gone)
    BY <2>1, <2>2, <2>3, HandedOver
  <2>7. Len(all) = Len(g.ring) + moved
    BY <2>1, <2>2, <2>3, HandedOver
  <2>8. \A k \in 1..Len(g.ring) : all[k] = g.ring[k]
    BY <2>1, <2>2, <2>3, HandedOver
  <2>9. \A k \in 1..moved : all[Len(g.ring) + k] \in Range(gone)
    BY <2>1, <2>2, <2>3, HandedOver
  <2> HIDE DEF all, gone
  <2> QED
    BY <2>4, <2>5, <2>6, <2>7, <2>8, <2>9
<1>8. Shape(h) /\ Words(h) /\ OneSession(h) /\ ViewOK(h.dll) /\ RingOK(h)
  <2>1. Words(h) /\ OneSession(h) /\ ViewOK(h.dll)
    BY <1>1, <1>2 DEF FriendInv, Basis, Words, OneSession, SameBut
  <2>2. RingOK(h)
    <3>1. RingOK(b) /\ InboxOK(b)
      BY DEF FriendInv, Basis
    <3>2. Len(h.ring) <= RingCapacity
      BY <1>3, <1>4, <1>7, FriendAssumption
    <3> QED
      BY <1>1, <1>2, <1>5, <1>7, <3>1, <3>2 DEF RingOK, InboxOK, SameBut
  <2> QED
    BY <1>2, <2>1, <2>2 DEF Basis
<1>9. InboxOK(h)
  BY <1>1, <1>2, <1>6 DEF FriendInv, InboxOK, SameBut, Life
<1>10. Life(h) = Life(b) /\ (Bound(h) <=> Bound(b)) /\ h.rt.open = b.rt.open
  BY <1>1, <1>2 DEF Life, Bound, SameBut
<1>11. ASSUME NEW life, OfLife(b, life), g.rt.open => life = Life(b)
       PROVE  OfLife(h, life)
  <2>1. ASSUME NEW k \in 1..Len(h.ring), h.ring[k].p = "world", Behind(h, k)
        PROVE  h.ring[k].life = life
    <3>1. CASE k \in 1..Len(g.ring)
      <4>1. Behind(b, k)
        <5>1. \A j \in 1..(k - 1) : j \in 1..Len(g.ring)
          BY <1>3, <3>1
        <5> QED
          BY <1>1, <1>2, <1>7, <1>10, <2>1, <5>1 DEF Behind, SameBut
      <4> QED
        BY <1>1, <1>7, <1>11, <2>1, <3>1, <4>1 DEF OfLife
    <3>2. CASE k \notin 1..Len(g.ring)
      <4>1. k - Len(g.ring) \in 1..moved /\ k = Len(g.ring) + (k - Len(g.ring))
        BY <1>3, <1>4, <1>7, <3>2
      <4>2. h.ring[k] \in Range(backlog) /\ g.rt.open
        BY <1>3, <1>4, <1>5, <1>7, <4>1
      <4>3. InboxOK(b)
        BY DEF FriendInv
      <4> QED
        BY <1>1, <1>11, <2>1, <4>2, <4>3 DEF InboxOK
    <3> QED
      BY <3>1, <3>2
  <2> QED
    BY <1>1, <1>2, <1>10, <1>11, <2>1 DEF OfLife, SameBut
<1>12. g.rt.open => OfLife(h, Life(h))
  BY <1>1, <1>10, <1>11 DEF FriendInv
<1>13. \E life : OfLife(h, life)
  BY <1>11, <1>12 DEF FriendInv, Basis
<1> QED
  BY <1>1, <1>2, <1>8, <1>9, <1>10, <1>12, <1>13 DEF FriendInv, Basis

\* One packet more waits behind the others.
LEMMA QueuedOK ==
  ASSUME NEW g, NEW packet, FriendInv(g), Waits(packet, g.header.gen),
         packet.p = "world" => packet.life = Life(g)
  PROVE  FriendInv(Queued(g, packet)) /\ SameBut(g, Queued(g, packet))
<1> DEFINE backlog == Append(g.inbox, packet)
           b == [g EXCEPT !.inbox = backlog]
<1>1. /\ b.net = g.net /\ b.rt = g.rt /\ b.header = g.header /\ b.ring = g.ring /\ b.dll = g.dll
      /\ b.inbox = backlog
      /\ Shape(g) /\ Shape(b)
  BY DEF FriendInv, Basis, Shape
<1>2. IsList(backlog) /\ Range(backlog) = Range(g.inbox) \cup {packet}
  BY ListAppend DEF FriendInv, InboxOK
<1> HIDE DEF backlog, b
<1>3. Shape(b) /\ Words(b) /\ OneSession(b) /\ RingOK(b) /\ ViewOK(b.dll)
  BY <1>1 DEF FriendInv, Basis, Words, OneSession, RingOK
<1>4. InboxOK(b)
  BY <1>1, <1>2 DEF FriendInv, InboxOK, Life
<1>5. \A life : OfLife(g, life) => OfLife(b, life)
  BY <1>1 DEF OfLife, Behind, Bound
<1>6. Life(b) = Life(g) /\ b.rt.open = g.rt.open
  BY <1>1 DEF Life
<1>7. FriendInv(b)
  BY <1>3, <1>4, <1>5, <1>6 DEF FriendInv, Basis
<1> QED
  BY <1>1, <1>7, DeliveredOK DEF Queued, backlog, b

\* A reset: what waits goes, and no packet of the ring is behind the marker of the new generation.
LEMMA ResetOK ==
  ASSUME NEW g, Basis(g)
  PROVE  LET h == ResetWorldSession(g)
         IN  FriendInv(h) /\ h.net = g.net /\ h.rt = [g.rt EXCEPT !.gen = h.rt.gen]
<1> DEFINE gen == NextGeneration(g)
           mid == [g EXCEPT !.inbox = <<>>, !.rt.gen = gen, !.header = HeaderAt(g, gen)]
           h == ResetWorldSession(g)
<1>1. /\ mid.net = g.net /\ mid.ring = g.ring /\ mid.dll = g.dll /\ mid.inbox = <<>>
      /\ mid.rt = [g.rt EXCEPT !.gen = gen] /\ mid.header = HeaderAt(g, gen)
  BY DEF Basis, Shape
<1>2. h = Queued(mid, Marker(gen, g.rt.bound))
  BY DEF ResetWorldSession
<1>3. /\ mid.rt.gen = gen /\ mid.rt.open = g.rt.open /\ mid.rt.session = g.rt.session
      /\ RtShape(mid.rt)
  BY <1>1 DEF Basis, Shape, RtShape
<1>4. /\ g.header.gen \in Nat /\ g.dll.gen \in 0..g.header.gen
      /\ g.rt.open => mid.header.gen = g.header.gen + 1 /\ gen = g.header.gen + 1
      /\ ~g.rt.open => mid.header.gen = g.header.gen /\ gen = 0
      /\ DOMAIN mid.header = {"gen", "self", "bound"}
  BY <1>1 DEF Basis, Words, NextGeneration, HeaderAt, Shape
<1>5. Shape(mid)
  BY <1>1, <1>3, <1>4 DEF Basis, Shape
<1> HIDE DEF mid, gen, h
<1>6. Words(mid)
  BY <1>1, <1>3, <1>4 DEF Basis, Words
<1>7. OneSession(mid) /\ ViewOK(mid.dll)
  BY <1>1, <1>3 DEF Basis, OneSession
<1>8. RingOK(mid)
  BY <1>1, <1>4 DEF Basis, RingOK, Waits
<1>9. InboxOK(mid)
  BY <1>1, ListEmpty DEF InboxOK
<1>10. ASSUME g.rt.open, NEW life
       PROVE  OfLife(mid, life)
  <2>1. ~Bound(mid)
    BY <1>1, <1>4, <1>10 DEF Bound
  <2>2. ASSUME NEW k \in 1..Len(mid.ring), Behind(mid, k)
        PROVE  FALSE
    <3>1. PICK j \in 1..(k - 1) : mid.ring[j].p = "marker" /\ mid.ring[j].gen = mid.header.gen
      BY <2>1, <2>2 DEF Behind
    <3>2. Len(g.ring) \in Nat /\ IsList(g.ring)
      BY ListElements DEF Basis, RingOK
    <3>3. j \in 1..Len(g.ring)
      BY <1>1, <2>2, <3>2
    <3>4. g.ring[j] \in Range(g.ring)
      BY <3>2, <3>3, ListElements
    <3> QED
      BY <1>1, <1>4, <1>10, <3>1, <3>4 DEF Basis, RingOK, Waits
  <2> QED
    BY <2>1, <2>2 DEF OfLife
<1>11. ASSUME ~g.rt.open, NEW life, OfLife(g, life)
       PROVE  OfLife(mid, life)
  BY <1>1, <1>4, <1>11 DEF OfLife, Behind, Bound
<1>12. FriendInv(mid)
  BY <1>3, <1>5, <1>6, <1>7, <1>8, <1>9, <1>10, <1>11 DEF FriendInv, Basis
<1>13. Waits(Marker(gen, g.rt.bound), mid.header.gen) /\ Marker(gen, g.rt.bound).p # "world"
  BY <1>4 DEF Waits, Marker
<1>14. FriendInv(h) /\ SameBut(mid, h)
  BY <1>2, <1>12, <1>13, QueuedOK
<1> QED
  BY <1>1, <1>3, <1>14 DEF SameBut, h

\* Without a session: the runtime publishes a new generation that is not bound.
LEMMA RetiredOK ==
  ASSUME NEW g, Shape(g), Words(g), ~g.net.ready, RingOK(g), ViewOK(g.dll), \E life : OfLife(g, life)
  PROVE  LET h == Retired(g)
         IN  FriendInv(h) /\ h.net = g.net /\ h.rt.pin = g.rt.pin
<1> DEFINE u == [g EXCEPT !.rt = Unadmitted(@)]
<1>1. /\ u.net = g.net /\ u.header = g.header /\ u.ring = g.ring /\ u.dll = g.dll
      /\ RtShape(u.rt) /\ u.rt.open = g.rt.open /\ u.rt.pin = g.rt.pin /\ u.rt.gen = 0
      /\ DOMAIN u = DOMAIN g
  BY DEF Shape, RtShape, Unadmitted
<1> HIDE DEF u
<1>2. Basis(u)
  <2>1. \A life : OfLife(g, life) => OfLife(u, life)
    BY <1>1 DEF OfLife, Behind, Bound
  <2>2. Shape(u) /\ OneSession(u) /\ RingOK(u) /\ ViewOK(u.dll)
    BY <1>1 DEF Shape, OneSession, RingOK
  <2>3. Words(u)
    BY <1>1 DEF Words
  <2> QED
    BY <2>1, <2>2, <2>3 DEF Basis
<1>3. FriendInv(ResetWorldSession(u)) /\ ResetWorldSession(u).net = u.net
      /\ ResetWorldSession(u).rt = [u.rt EXCEPT !.gen = ResetWorldSession(u).rt.gen]
  BY <1>2, ResetOK
<1> QED
  BY <1>1, <1>3 DEF Retired, u, RtShape

\* A connection that ends, or begins.
LEMMA ClosedOK ==
  ASSUME NEW g, FriendInv(g), NEW n, NetShape(n), ~n.ready
  PROVE  LET h == Retired([g EXCEPT !.net = n])
         IN  FriendInv(h) /\ h.net = n /\ h.rt.pin = g.rt.pin
<1> DEFINE c == [g EXCEPT !.net = n]
<1>1. /\ c.net = n /\ c.rt = g.rt /\ c.header = g.header /\ c.ring = g.ring /\ c.dll = g.dll
      /\ Shape(c)
  BY DEF FriendInv, Basis, Shape
<1> HIDE DEF c
<1>2. Words(c) /\ ~c.net.ready /\ RingOK(c) /\ ViewOK(c.dll)
  BY <1>1 DEF FriendInv, Basis, Words, RingOK
<1>3. \A life : OfLife(g, life) => OfLife(c, life)
  BY <1>1 DEF OfLife, Behind, Bound
<1>4. \E life : OfLife(c, life)
  BY <1>3 DEF FriendInv, Basis
<1>5. FriendInv(Retired(c)) /\ Retired(c).net = c.net /\ Retired(c).rt.pin = c.rt.pin
  BY <1>1, <1>2, <1>4, RetiredOK
<1> QED
  BY <1>1, <1>5 DEF c

\* The connection ends.
LEMMA HungOK ==
  ASSUME NEW g, FriendInv(g)
  PROVE  FriendInv(Hung(g)) /\ Hung(g).net = NoLink
<1>1. NetShape(NoLink) /\ ~NoLink.ready
  BY DEF NetShape, NoLink
<1> QED
  BY <1>1, ClosedOK DEF Hung

\* A new connection, which nothing has been heard on.
LEMMA DialledOK ==
  ASSUME NEW g, FriendInv(g), NEW wire
  PROVE  FriendInv(Dialled(g, wire))
<1>1. NetShape([NoLink EXCEPT !.wire = wire]) /\ ~[NoLink EXCEPT !.wire = wire].ready
  BY DEF NetShape, NoLink
<1> QED
  BY <1>1, ClosedOK DEF Dialled

\* The marker of the published generation goes in front of all that waits.
LEMMA BindOK ==
  ASSUME NEW g, FriendInv(g)
  PROVE  LET h == BindSessionGeneration(g)
         IN  FriendInv(h) /\ SameBut(g, h)
<1> DEFINE h == BindSessionGeneration(g)
           marker == Marker(g.rt.gen, g.rt.bound)
<1>1. /\ h.net = g.net /\ h.rt = g.rt /\ h.header = g.header /\ h.ring = g.ring /\ h.dll = g.dll
      /\ h.inbox = <<marker>> \o Unmarked(g.inbox)
      /\ Shape(h) /\ SameBut(g, h)
  BY DEF FriendInv, Basis, Shape, BindSessionGeneration, SameBut
<1> HIDE DEF h
<1>2. Shape(h) /\ Words(h) /\ OneSession(h) /\ RingOK(h) /\ ViewOK(h.dll)
  BY <1>1 DEF FriendInv, Basis, Words, OneSession, RingOK
<1>3. \A life : OfLife(g, life) => OfLife(h, life)
  BY <1>1 DEF OfLife, Behind, Bound
<1>4. IsList(h.inbox) /\ Range(h.inbox) \subseteq Range(g.inbox) \cup {marker}
  <2>2. IsList(Unmarked(g.inbox)) /\ Range(Unmarked(g.inbox)) \subseteq Range(g.inbox)
    BY UnmarkedList DEF FriendInv, InboxOK
  <2> QED
    BY <1>1, <2>2, ListAhead
<1>5. Waits(marker, g.header.gen) /\ marker.p # "world"
  BY DEF Waits, Marker, FriendInv, Basis, Words
<1> HIDE DEF marker
<1>6. InboxOK(h)
  BY <1>1, <1>4, <1>5 DEF FriendInv, InboxOK, Life
<1>7. Life(h) = Life(g) /\ h.rt.open = g.rt.open
  BY <1>1 DEF Life
<1>8. FriendInv(h)
  BY <1>2, <1>3, <1>6, <1>7 DEF FriendInv, Basis
<1> QED
  BY <1>1, <1>8 DEF h

\* The mapping opens: nothing is behind the marker of its new generation yet.
LEMMA AttachedOK ==
  ASSUME NEW g, FriendInv(g)
  PROVE  FriendInv(Attached(g)) /\ Attached(g).net = g.net
<1> DEFINE gen == g.header.gen + 1
           open == [g EXCEPT !.rt.open = TRUE]
           mid == [open EXCEPT !.rt.gen = gen, !.header = HeaderAt(open, gen)]
<1>0. open.rt = [g.rt EXCEPT !.open = TRUE] /\ open.rt.open
  BY DEF FriendInv, Basis, Shape, RtShape
<1>1. /\ mid.net = g.net /\ mid.ring = g.ring /\ mid.dll = g.dll /\ mid.inbox = g.inbox
      /\ mid.rt.open /\ mid.rt.gen = gen /\ mid.rt.session = g.rt.session
      /\ mid.header = [gen |-> gen, self |-> open.rt.self, bound |-> open.rt.bound]
      /\ DOMAIN mid = DOMAIN g /\ RtShape(mid.rt)
  BY <1>0 DEF FriendInv, Basis, Shape, RtShape, HeaderAt
<1>2. /\ mid.header.gen = gen /\ DOMAIN mid.header = {"gen", "self", "bound"}
      /\ Shape(mid)
  BY <1>1 DEF FriendInv, Basis, Shape
<1>3. Attached(g) = BindSessionGeneration(mid)
  BY DEF Attached
<1>4. g.header.gen \in Nat /\ g.dll.gen \in 0..g.header.gen /\ gen \in Nat /\ gen > g.header.gen
  BY DEF FriendInv, Basis, Words
<1> HIDE DEF mid, open, gen
<1>5. Words(mid)
  BY <1>1, <1>2, <1>4, mid.rt.open = TRUE DEF Words
<1>6. OneSession(mid) /\ ViewOK(mid.dll)
  BY <1>1 DEF FriendInv, Basis, OneSession
<1>7. \A q : Waits(q, g.header.gen) => Waits(q, gen)
  BY <1>4 DEF Waits
<1>8. RingOK(mid) /\ InboxOK(mid)
  <2>1. Life(mid) = Life(g)
    BY <1>1 DEF Life
  <2> QED
    BY <1>1, <1>2, <1>7, <2>1 DEF FriendInv, Basis, RingOK, InboxOK
<1>9. ASSUME NEW life
      PROVE  OfLife(mid, life)
  <2>1. ~Bound(mid)
    BY <1>1, <1>2, <1>4 DEF Bound
  <2>2. ASSUME NEW k \in 1..Len(mid.ring), Behind(mid, k)
        PROVE  FALSE
    <3>1. PICK j \in 1..(k - 1) : mid.ring[j].p = "marker" /\ mid.ring[j].gen = mid.header.gen
      BY <2>1, <2>2 DEF Behind
    <3>2. Len(g.ring) \in Nat /\ IsList(g.ring)
      BY ListElements DEF FriendInv, Basis, RingOK
    <3>3. j \in 1..Len(g.ring)
      BY <1>1, <2>2, <3>2
    <3>4. g.ring[j] \in Range(g.ring)
      BY <3>2, <3>3, ListElements
    <3> QED
      BY <1>1, <1>2, <1>4, <3>1, <3>4 DEF FriendInv, Basis, RingOK, Waits
  <2> QED
    BY <2>1, <2>2 DEF OfLife
<1>10. FriendInv(mid)
  BY <1>2, <1>5, <1>6, <1>8, <1>9 DEF FriendInv, Basis
<1> QED
  BY <1>1, <1>3, <1>10, BindOK DEF SameBut

--------------------------------------------------------------------------
(* What the friend hears.                                                 *)

\* NetworkClient takes a roster as its own or drops what it knew of another.
LEMMA RosterOK ==
  ASSUME NEW n, NetShape(n), NEW m
  PROVE  LET o == NetRoster(n, m)
         IN  /\ NetShape(o) /\ o.wire = n.wire
             /\ ~IsRoster(m) => ~o.ready
             /\ IsRoster(m) => o.session = m.session
BY DEF NetRoster, NetShape, NoLink

\* A roster: the pin it breaks hangs up, no roster retires, another session or another self resets.
LEMMA SessionStateOK ==
  ASSUME NEW g, FriendInv(g), NEW m
  PROVE  FriendInv(OnSessionState(g, m))
<1> DEFINE n == NetRoster(g.net, m)
           h == [g EXCEPT !.net = NetRoster(@, m)]
<1>1. /\ h.net = n /\ h.rt = g.rt /\ h.header = g.header /\ h.ring = g.ring /\ h.dll = g.dll
      /\ h.inbox = g.inbox
      /\ NetShape(n) /\ n.wire = g.net.wire
      /\ ~IsRoster(m) => ~n.ready
      /\ IsRoster(m) => n.session = m.session
      /\ Shape(h)
  BY RosterOK DEF FriendInv, Basis, Shape
<1> HIDE DEF h, n
<1>2. Words(h) /\ RingOK(h) /\ ViewOK(h.dll)
  BY <1>1 DEF FriendInv, Basis, Words, RingOK
<1>3. \A life : OfLife(g, life) => OfLife(h, life)
  BY <1>1 DEF OfLife, Behind, Bound
<1>4. \E life : OfLife(h, life)
  BY <1>3 DEF FriendInv, Basis
<1>5. CASE ~MatchesPin(g, m)
  <2>1. FriendInv(Hung(g))
    BY HungOK
  <2> DEFINE x == Hung(g)
             y == [x EXCEPT !.rt.over = TRUE]
  <2>2. /\ y.net = x.net /\ y.header = x.header /\ y.ring = x.ring /\ y.dll = x.dll /\ y.inbox = x.inbox
        /\ RtShape(y.rt) /\ y.rt.open = x.rt.open /\ y.rt.gen = x.rt.gen /\ y.rt.session = x.rt.session
        /\ Shape(y)
    BY <2>1 DEF FriendInv, Basis, Shape, RtShape
  <2> HIDE DEF x, y
  <2>3. Words(y) /\ RingOK(y) /\ ViewOK(y.dll) /\ OneSession(y) /\ InboxOK(y)
    BY <2>1, <2>2 DEF FriendInv, Basis, Words, RingOK, OneSession, InboxOK, Life, x
  <2>4. \A life : OfLife(x, life) => OfLife(y, life)
    BY <2>2 DEF OfLife, Behind, Bound
  <2>5. Life(y) = Life(x)
    BY <2>2 DEF Life
  <2>6. FriendInv(y)
    BY <2>1, <2>2, <2>3, <2>4, <2>5 DEF FriendInv, Basis, x
  <2> QED
    BY <1>5, <2>6 DEF OnSessionState, x, y
<1>6. CASE MatchesPin(g, m) /\ ~IsRoster(m)
  <2>1. FriendInv(Retired(h))
    BY <1>1, <1>2, <1>4, <1>6, RetiredOK
  <2> QED
    BY <1>6, <2>1 DEF OnSessionState, h
<1>7. CASE MatchesPin(g, m) /\ IsRoster(m)
  <2> DEFINE p == [h EXCEPT !.rt.pin = <<m.session, m.host>>]
             q == [p EXCEPT !.rt.session = m.session, !.rt.host = m.host, !.rt.self = m.self, !.rt.bound = FALSE]
  <2>1. /\ p.net = n /\ p.header = g.header /\ p.ring = g.ring /\ p.dll = g.dll /\ p.inbox = g.inbox
        /\ p.rt.open = g.rt.open /\ p.rt.gen = g.rt.gen /\ p.rt.session = g.rt.session
        /\ Shape(p) /\ RtShape(p.rt)
    BY <1>1 DEF Shape, RtShape
  <2>2. /\ q.net = n /\ q.header = g.header /\ q.ring = g.ring /\ q.dll = g.dll /\ q.inbox = g.inbox
        /\ q.rt.open = g.rt.open /\ q.rt.gen = g.rt.gen /\ q.rt.session = m.session
        /\ Shape(q)
    BY <2>1 DEF Shape, RtShape
  <2>3. OnSessionState(g, m) = IF Unchanged(h, m) THEN p ELSE ResetWorldSession(q)
    BY <1>7 DEF OnSessionState, Admitted, h
  <2> HIDE DEF p, q
  <2>4. CASE Unchanged(h, m)
    <3>1. g.rt.session = m.session
      BY <1>1, <2>4 DEF Unchanged
    <3>2. Words(p) /\ RingOK(p) /\ ViewOK(p.dll)
      BY <2>1 DEF FriendInv, Basis, Words, RingOK
    <3>3. OneSession(p) /\ Life(p) = Life(g)
      BY <1>1, <1>7, <2>1, <3>1 DEF OneSession, Life
    <3>4. InboxOK(p)
      BY <2>1, <3>3 DEF FriendInv, InboxOK
    <3>5. \A life : OfLife(g, life) => OfLife(p, life)
      BY <2>1 DEF OfLife, Behind, Bound
    <3>6. FriendInv(p)
      BY <2>1, <3>2, <3>3, <3>4, <3>5 DEF FriendInv, Basis
    <3> QED
      BY <2>3, <2>4, <3>6
  <2>5. CASE ~Unchanged(h, m)
    <3>1. Words(q) /\ RingOK(q) /\ ViewOK(q.dll)
      BY <2>2 DEF FriendInv, Basis, Words, RingOK
    <3>2. OneSession(q)
      BY <1>1, <1>7, <2>2 DEF OneSession
    <3>3. \A life : OfLife(g, life) => OfLife(q, life)
      BY <2>2 DEF OfLife, Behind, Bound
    <3>4. Basis(q)
      BY <2>2, <3>1, <3>2, <3>3 DEF FriendInv, Basis
    <3> QED
      BY <2>3, <2>5, <3>4, ResetOK
  <2> QED
    BY <2>4, <2>5
<1> QED
  BY <1>5, <1>6, <1>7

\* The binding of the world the roster named, once.
LEMMA WorldBindingOK ==
  ASSUME NEW g, FriendInv(g), NEW m
  PROVE  FriendInv(OnWorldBinding(g, m))
<1> DEFINE Bindable(h) == /\ DOMAIN h = DOMAIN g /\ h.ring = g.ring /\ h.dll = g.dll /\ h.inbox = g.inbox
                          /\ NetShape(h.net) /\ RtShape(h.rt) /\ DOMAIN h.header = DOMAIN g.header
                          /\ h.header.gen = g.header.gen
                          /\ h.net.ready = g.net.ready /\ h.net.session = g.net.session /\ h.net.wire = g.net.wire
                          /\ h.rt.open = g.rt.open /\ h.rt.gen = g.rt.gen /\ h.rt.session = g.rt.session
<1>1. ASSUME NEW h, Bindable(h)
      PROVE  FriendInv(h)
  <2>1. Shape(h) /\ Words(h) /\ OneSession(h) /\ ViewOK(h.dll)
    BY <1>1 DEF FriendInv, Basis, Shape, Words, OneSession
  <2>2. RingOK(h) /\ InboxOK(h) /\ Life(h) = Life(g)
    BY <1>1 DEF FriendInv, Basis, RingOK, InboxOK, Life
  <2>3. \A life : OfLife(g, life) => OfLife(h, life)
    BY <1>1 DEF OfLife, Behind, Bound
  <2> QED
    BY <1>1, <2>1, <2>2, <2>3 DEF FriendInv, Basis
<1> DEFINE a == [g EXCEPT !.net.bound = TRUE]
           b == [g EXCEPT !.net.bound = TRUE, !.rt.bound = TRUE]
           c == [b EXCEPT !.header.bound = TRUE]
<1>2. Bindable(a) /\ Bindable(b)
  BY DEF FriendInv, Basis, Shape, NetShape, RtShape
<1>3. Bindable(c)
  <2> HIDE DEF b
  <2>1. DOMAIN b = DOMAIN g /\ DOMAIN b.header = DOMAIN g.header /\ Shape(g)
    BY <1>2 DEF FriendInv, Basis
  <2> QED
    BY <1>2, <2>1 DEF Shape
<1> HIDE DEF Bindable, a, b, c
<1>4. FriendInv(a) /\ FriendInv(b) /\ FriendInv(c)
  BY <1>1, <1>2, <1>3
<1>5. FriendInv(BindSessionGeneration(c))
  BY <1>4, BindOK
<1> QED
  BY <1>4, <1>5 DEF OnWorldBinding, a, b, c

\* An envelope of the session the friend is in, of the link it has.
LEMMA WorldEnvelopeOK ==
  ASSUME NEW g, FriendInv(g), NEW m, m.p = "world", IsBody(m.body), NEW reliable
  PROVE  FriendInv(OnWorldEnvelope(g, m, reliable))
<1> DEFINE b == m.body
           n == CASE b.t = "room" -> [g.net EXCEPT !.epoch = b.epoch]
                  [] b.t = "hp"   -> [g.net EXCEPT !.hpSeq = b.seq]
                  [] OTHER        -> g.net
           packet == [p |-> "world", self |-> m.self, life |-> <<g.net.wire, m.session>>, body |-> b]
           h == [g EXCEPT !.net = n]
<1> SUFFICES ASSUME NetAdmits(g.net, m)
             PROVE  FriendInv(Queued(h, packet))
  BY DEF OnWorldEnvelope
<1>1. NetShape(n) /\ n.wire = g.net.wire /\ n.session = g.net.session /\ n.ready = g.net.ready
  BY DEF FriendInv, Basis, Shape, NetShape
<1> HIDE DEF n
<1>2. /\ h.net = n /\ h.rt = g.rt /\ h.header = g.header /\ h.ring = g.ring /\ h.dll = g.dll
      /\ h.inbox = g.inbox /\ Shape(h)
  BY <1>1 DEF FriendInv, Basis, Shape
<1> HIDE DEF h
<1>3. Words(h) /\ RingOK(h) /\ ViewOK(h.dll) /\ OneSession(h) /\ Life(h) = Life(g)
  BY <1>1, <1>2 DEF FriendInv, Basis, Words, RingOK, OneSession, Life
<1>4. InboxOK(h)
  BY <1>2, <1>3 DEF FriendInv, InboxOK
<1>5. \A life : OfLife(g, life) => OfLife(h, life)
  BY <1>2 DEF OfLife, Behind, Bound
<1>6. FriendInv(h)
  BY <1>2, <1>3, <1>4, <1>5 DEF FriendInv, Basis
<1>7. packet.life = Life(h)
  <2>1. g.net.ready /\ m.session = g.net.session
    BY DEF NetAdmits
  <2>2. m.session = g.rt.session
    BY <2>1 DEF FriendInv, Basis, OneSession
  <2> QED
    BY <1>3, <2>2 DEF Life
<1>8. Waits(packet, h.header.gen)
  BY DEF Waits
<1> QED
  BY <1>6, <1>7, <1>8, QueuedOK

\* A packet of the connection, whatever its kind.
LEMMA HeardOK ==
  ASSUME NEW g, FriendInv(g), NEW m, IsPacket(m), NEW reliable
  PROVE  FriendInv(Heard(g, m, reliable))
BY SessionStateOK, WorldBindingOK, WorldEnvelopeOK DEF Heard, IsPacket

--------------------------------------------------------------------------
(* What the game shows.                                                   *)

\* The generation words of the view, and what it has seen, are the packet's handler's alone.
LEMMA ShownOK ==
  ASSUME NEW d, DllShape(d), ViewOK(d), NEW b, IsBody(b), NEW safe
  PROVE  LET e == Shown(d, b, safe)
         IN  /\ DllShape(e) /\ ViewOK(e)
             /\ e.gen = d.gen /\ e.ordered = d.ordered /\ e.seen = d.seen
<1>1. CASE b.t = "progress"
  BY <1>1 DEF Shown, OnProgress, DllShape, ViewOK
<1>2. CASE b.t = "room"
  <2> DEFINE e == Enters(d, b.epoch)
  <2>1. DllShape(e) /\ e.enemies = <<>> /\ e.gen = d.gen /\ e.ordered = d.ordered /\ e.seen = d.seen
    BY DEF Enters, DllShape
  <2>2. ViewOK(e)
    BY <2>1 DEF ViewOK
  <2> HIDE DEF e
  <2>3. LET k == [d EXCEPT !.replay = "Closed"]
        IN  DllShape(k) /\ ViewOK(k) /\ k.gen = d.gen /\ k.ordered = d.ordered /\ k.seen = d.seen
    BY DEF DllShape, ViewOK
  <2> QED
    BY <1>2, <2>1, <2>2, <2>3 DEF Shown, OnRoom, e
<1>3. CASE b.t \notin {"progress", "room"} /\ b.epoch # d.epoch
  BY <1>3 DEF Shown
<1>4. CASE b.t = "hold" /\ b.epoch = d.epoch
  BY <1>4 DEF Shown, ShownInRoom, DllShape, ViewOK
<1>5. CASE b.t = "manifest" /\ b.epoch = d.epoch
  BY <1>5 DEF Shown, ShownInRoom, OnManifest, DllShape, ViewOK, Unknown
<1>6. CASE b.t = "hp" /\ b.epoch = d.epoch
  <2>1. \A i \in DOMAIN b.hp : b.hp[i].epoch = d.epoch
    BY <1>6 DEF IsBody
  <2> QED
    BY <1>6, <2>1 DEF Shown, ShownInRoom, OnHp, DllShape, ViewOK
<1>7. CASE b.t = "death" /\ b.epoch = d.epoch
  BY <1>7 DEF Shown, ShownInRoom, OnDeath, DllShape, ViewOK
<1> QED
  BY <1>1, <1>2, <1>3, <1>4, <1>5, <1>6, <1>7 DEF IsBody

\* A frame without packets: the view of another generation goes.
LEMMA CheckedOK ==
  ASSUME NEW g, FriendInv(g)
  PROVE  FriendInv(Checked(g))
<1> DEFINE h == Checked(g)
<1> SUFFICES ASSUME g.header.gen # g.dll.gen
             PROVE  FriendInv(h)
  BY DEF Checked
<1>1. /\ h.net = g.net /\ h.rt = g.rt /\ h.header = g.header /\ h.ring = g.ring /\ h.inbox = g.inbox
      /\ h.dll = [NewGame EXCEPT !.gen = g.header.gen]
      /\ DOMAIN h = DOMAIN g
  BY DEF FriendInv, Basis, Shape, Checked
<1>2. DllShape(h.dll) /\ ViewOK(h.dll) /\ h.dll.ordered = 0 /\ h.dll.gen = g.header.gen
  BY <1>1 DEF DllShape, ViewOK, NewGame
<1> HIDE DEF h
<1>3. Shape(h) /\ Words(h) /\ OneSession(h) /\ RingOK(h)
  BY <1>1, <1>2 DEF FriendInv, Basis, Shape, Words, OneSession, RingOK
<1>4. InboxOK(h) /\ Life(h) = Life(g)
  BY <1>1 DEF FriendInv, InboxOK, Life
<1>5. \A life : OfLife(g, life) => OfLife(h, life)
  BY <1>1, <1>2 DEF OfLife, Behind, Bound
<1> QED
  BY <1>1, <1>2, <1>3, <1>4, <1>5 DEF FriendInv, Basis

\* One packet of the ring.  The marker of the published generation begins a view; a packet is shown only behind it.
LEMMA ConsumedOK ==
  ASSUME NEW f, FriendInv(f), f.ring # <<>>, NEW safe
  PROVE  FriendInv(Consumed(f, safe))
<1> DEFINE popped == [f EXCEPT !.ring = Tail(@)]
           g == Checked(popped)
           m == Head(f.ring)
           h == Consumed(f, safe)
<1>1. /\ popped.net = f.net /\ popped.rt = f.rt /\ popped.header = f.header /\ popped.inbox = f.inbox
      /\ popped.ring = Tail(f.ring) /\ popped.dll = f.dll /\ DOMAIN popped = DOMAIN f
  BY DEF FriendInv, Basis, Shape
<1>2. /\ g.net = f.net /\ g.rt = f.rt /\ g.header = f.header /\ g.inbox = f.inbox
      /\ g.ring = Tail(f.ring) /\ DOMAIN g = DOMAIN f
      /\ g.dll = IF f.header.gen = f.dll.gen THEN f.dll ELSE [NewGame EXCEPT !.gen = f.header.gen]
  <2> HIDE DEF popped
  <2> QED
    BY <1>1 DEF Checked, FriendInv, Basis, Shape
<1>3. /\ DllShape(g.dll) /\ ViewOK(g.dll) /\ g.dll.gen = f.header.gen
      /\ f.header.gen # f.dll.gen => g.dll.ordered = 0
  <2>1. DllShape(f.dll) /\ ViewOK(f.dll)
    BY DEF FriendInv, Basis, Shape
  <2>2. LET d == [NewGame EXCEPT !.gen = f.header.gen]
        IN  DllShape(d) /\ ViewOK(d) /\ d.gen = f.header.gen /\ d.ordered = 0
    BY DEF DllShape, ViewOK, NewGame
  <2> QED
    BY <1>2, <2>1, <2>2
<1>4. h = IF m.p = "marker" THEN OnMarker(g, m) ELSE OnEnvelope(g, m, safe)
  BY DEF Consumed
<1> HIDE DEF popped, g
<1>5. /\ IsList(f.ring) /\ Len(f.ring) \in Nat \ {0}
      /\ IsList(g.ring) /\ Range(g.ring) \subseteq Range(f.ring)
      /\ m \in Range(f.ring) /\ m = f.ring[1]
      /\ Len(g.ring) = Len(f.ring) - 1
      /\ \A k \in 1..Len(g.ring) : g.ring[k] = f.ring[k + 1]
  <2>1. IsList(f.ring)
    BY DEF FriendInv, Basis, RingOK
  <2> QED
    BY <1>2, <2>1, ListTail
<1>6. Waits(m, f.header.gen)
  BY <1>5 DEF FriendInv, Basis, RingOK
<1> HIDE DEF m
<1> DEFINE Kept(x) == /\ x.net = g.net /\ x.rt = g.rt /\ x.header = g.header /\ x.inbox = g.inbox
                      /\ x.ring = g.ring /\ DOMAIN x = DOMAIN g
<1>7. ASSUME NEW x, Kept(x), DllShape(x.dll), ViewOK(x.dll), x.dll.gen = f.header.gen,
             \A life : OfLife(f, life) => OfLife(x, life)
      PROVE  FriendInv(x)
  <2>1. Shape(x) /\ Words(x) /\ OneSession(x)
    BY <1>2, <1>7 DEF FriendInv, Basis, Shape, Words, OneSession
  <2>2. Len(x.ring) <= RingCapacity
    BY <1>5, <1>7, FriendAssumption DEF FriendInv, Basis, RingOK
  <2>3. RingOK(x)
    BY <1>5, <1>7, <1>2, <2>2 DEF FriendInv, Basis, RingOK
  <2>4. InboxOK(x) /\ Life(x) = Life(f) /\ x.rt.open = f.rt.open
    BY <1>2, <1>7 DEF FriendInv, InboxOK, Life
  <2> QED
    BY <1>7, <2>1, <2>3, <2>4 DEF FriendInv, Basis
\* A packet of what is left of the ring was one further back.
<1>8. ASSUME NEW x, Kept(x), NEW k \in 1..Len(x.ring),
             \E j \in 1..(k - 1) : x.ring[j].p = "marker" /\ x.ring[j].gen = x.header.gen
      PROVE  k + 1 \in 1..Len(f.ring) /\ f.ring[k + 1] = x.ring[k] /\ Behind(f, k + 1)
  <2>1. PICK j \in 1..(k - 1) : x.ring[j].p = "marker" /\ x.ring[j].gen = x.header.gen
    BY <1>8
  <2>2. j \in 1..Len(g.ring) /\ j + 1 \in 1..((k + 1) - 1) /\ k \in 1..Len(g.ring) /\ k + 1 \in 1..Len(f.ring)
    BY <1>5, <1>8, <2>1
  <2>3. f.ring[j + 1].p = "marker" /\ f.ring[j + 1].gen = f.header.gen /\ f.ring[k + 1] = x.ring[k]
    BY <1>2, <1>5, <1>8, <2>1, <2>2
  <2> QED
    BY <2>2, <2>3 DEF Behind
<1>9. CASE m.p = "marker"
  <2> DEFINE x == OnMarker(g, m)
  <2>1. /\ Kept(x)
        /\ x.dll = [NoView(g.dll) EXCEPT
                      !.ordered = IF m.gen = g.header.gen /\ m.bound /\ g.header.bound THEN m.gen ELSE 0]
    BY <1>2 DEF OnMarker, FriendInv, Basis, Shape
  <2>2. /\ DllShape(x.dll) /\ ViewOK(x.dll) /\ x.dll.gen = f.header.gen /\ x.dll.seen = {}
        /\ x.dll.ordered # 0 => m.gen = g.header.gen
    <3> DEFINE v == NoView(g.dll)
               ordered == IF m.gen = g.header.gen /\ m.bound /\ g.header.bound THEN m.gen ELSE 0
    <3>0. x.dll = [v EXCEPT !.ordered = ordered] /\ (ordered # 0 => m.gen = g.header.gen)
      BY <2>1
    <3> HIDE DEF x, ordered
    <3>1. DllShape(v) /\ v.enemies = <<>> /\ v.seen = {} /\ v.gen = f.header.gen
      BY <1>3 DEF DllShape, NoView
    <3> HIDE DEF v
    <3>2. \A o : LET d == [v EXCEPT !.ordered = o]
                 IN  DllShape(d) /\ d.enemies = <<>> /\ d.seen = {} /\ d.gen = f.header.gen /\ d.ordered = o
      BY <3>1 DEF DllShape
    <3>3. \A d : d.enemies = <<>> => ViewOK(d)
      BY DEF ViewOK
    <3>4. /\ DllShape(x.dll) /\ x.dll.enemies = <<>> /\ x.dll.seen = {} /\ x.dll.gen = f.header.gen
          /\ x.dll.ordered = ordered
      BY <3>0, <3>2
    <3> QED
      BY <3>0, <3>3, <3>4
  <2> HIDE DEF x
  <2>3. ASSUME NEW life, OfLife(f, life)
        PROVE  OfLife(x, life)
    <3>1. ASSUME NEW k \in 1..Len(x.ring), x.ring[k].p = "world", Behind(x, k)
          PROVE  x.ring[k].life = life
      <4>1. CASE Bound(x)
        <5>1. m.gen = f.header.gen
          BY <1>2, <2>2, <4>1 DEF Bound
        <5>2. k + 1 \in 1..Len(f.ring) /\ f.ring[k + 1] = x.ring[k] /\ 1 \in 1..((k + 1) - 1)
          BY <1>5, <2>1, <3>1
        <5>3. Behind(f, k + 1)
          BY <1>5, <1>9, <5>1, <5>2 DEF Behind
        <5> QED
          BY <2>3, <3>1, <5>2, <5>3 DEF OfLife
      <4>2. CASE ~Bound(x)
        <5>1. k + 1 \in 1..Len(f.ring) /\ f.ring[k + 1] = x.ring[k] /\ Behind(f, k + 1)
          BY <1>8, <2>1, <3>1, <4>2 DEF Behind
        <5> QED
          BY <2>3, <3>1, <5>1 DEF OfLife
      <4> QED
        BY <4>1, <4>2
    <3> QED
      BY <2>2, <3>1 DEF OfLife
  <2> QED
    BY <1>4, <1>7, <1>9, <2>1, <2>2, <2>3 DEF x
<1>10. CASE m.p = "world"
  <2> DEFINE shown == Shown(g.dll, m.body, safe)
             x == OnEnvelope(g, m, safe)
             after == [g EXCEPT !.dll = IF shown = g.dll THEN shown ELSE [shown EXCEPT !.seen = @ \cup {m.life}]]
  <2>1. /\ DllShape(shown) /\ ViewOK(shown)
        /\ shown.gen = g.dll.gen /\ shown.ordered = g.dll.ordered /\ shown.seen = g.dll.seen
    BY <1>3, <1>6, <1>10, ShownOK DEF Waits
  <2> HIDE DEF shown
  <2>2. /\ Kept(after)
        /\ after.dll = IF shown = g.dll THEN shown ELSE [shown EXCEPT !.seen = @ \cup {m.life}]
    BY <1>2 DEF FriendInv, Basis, Shape
  <2>3. /\ DllShape(after.dll) /\ ViewOK(after.dll) /\ after.dll.gen = f.header.gen
        /\ after.dll.ordered = g.dll.ordered /\ after.dll.seen \subseteq g.dll.seen \cup {m.life}
    BY <1>3, <2>1, <2>2 DEF DllShape, ViewOK
  <2>4. x = g \/ (Armed(g) /\ x = after)
    BY DEF OnEnvelope, shown
  <2>5. Kept(g)
    OBVIOUS
  <2> HIDE DEF x, after
  <2>6. /\ Kept(x) /\ DllShape(x.dll) /\ ViewOK(x.dll) /\ x.dll.gen = f.header.gen /\ x.dll.ordered = g.dll.ordered
        /\ x.dll.seen = g.dll.seen \/ (Armed(g) /\ x.dll.seen \subseteq g.dll.seen \cup {m.life})
    BY <1>3, <2>2, <2>3, <2>4, <2>5
  <2>7. Bound(x) => Bound(f) /\ g.dll = f.dll
    BY <1>2, <1>3, <2>6 DEF Bound
  <2>8. Armed(g) => Bound(x)
    BY <1>3, <2>6, <1>2 DEF Armed, Bound
  <2>9. ASSUME NEW life, OfLife(f, life)
        PROVE  OfLife(x, life)
    <3>1. ASSUME NEW k \in 1..Len(x.ring), x.ring[k].p = "world", Behind(x, k)
          PROVE  x.ring[k].life = life
      <4>1. CASE Bound(x)
        <5>1. k + 1 \in 1..Len(f.ring) /\ f.ring[k + 1] = x.ring[k] /\ Behind(f, k + 1)
          BY <1>5, <2>6, <2>7, <3>1, <4>1 DEF Behind
        <5> QED
          BY <2>9, <3>1, <5>1 DEF OfLife
      <4>2. CASE ~Bound(x)
        <5>1. k + 1 \in 1..Len(f.ring) /\ f.ring[k + 1] = x.ring[k] /\ Behind(f, k + 1)
          BY <1>8, <2>6, <3>1, <4>2 DEF Behind
        <5> QED
          BY <2>9, <3>1, <5>1 DEF OfLife
      <4> QED
        BY <4>1, <4>2
    <3>2. ASSUME Bound(x)
          PROVE  x.dll.seen \subseteq {life}
      <4>1. f.dll.seen \subseteq {life}
        BY <2>7, <2>9, <3>2 DEF OfLife
      <4>2. m.life = life
        <5>1. 1 \in 1..Len(f.ring) /\ Behind(f, 1)
          BY <1>5, <2>7, <3>2 DEF Behind
        <5> QED
          BY <1>5, <1>10, <2>9, <5>1 DEF OfLife
      <4> QED
        BY <2>6, <2>7, <3>2, <4>1, <4>2
    <3> QED
      BY <3>1, <3>2 DEF OfLife
  <2> QED
    BY <1>4, <1>7, <1>10, <2>6, <2>9 DEF x
<1> QED
  BY <1>6, <1>9, <1>10 DEF Waits

\* The replay of a room is the view's own affair.
LEMMA ReplayOK ==
  ASSUME NEW g, FriendInv(g), NEW word
  PROVE  FriendInv([g EXCEPT !.dll.replay = word])
<1> DEFINE h == [g EXCEPT !.dll.replay = word]
<1>1. /\ h.net = g.net /\ h.rt = g.rt /\ h.header = g.header /\ h.ring = g.ring /\ h.inbox = g.inbox
      /\ h.dll = [g.dll EXCEPT !.replay = word]
      /\ DOMAIN h = DOMAIN g
  BY DEF FriendInv, Basis, Shape
<1>2. /\ DllShape(h.dll) /\ ViewOK(h.dll) /\ h.dll.ordered = g.dll.ordered /\ h.dll.gen = g.dll.gen
      /\ h.dll.seen = g.dll.seen
  BY <1>1 DEF FriendInv, Basis, Shape, DllShape, ViewOK
<1> HIDE DEF h
<1>3. Shape(h) /\ Words(h) /\ OneSession(h) /\ RingOK(h)
  BY <1>1, <1>2 DEF FriendInv, Basis, Shape, Words, OneSession, RingOK
<1>4. InboxOK(h) /\ Life(h) = Life(g)
  BY <1>1 DEF FriendInv, InboxOK, Life
<1>5. \A life : OfLife(g, life) => OfLife(h, life)
  BY <1>1, <1>2 DEF OfLife, Behind, Bound
<1>6. FriendInv(h)
  BY <1>1, <1>2, <1>3, <1>4, <1>5 DEF FriendInv, Basis
<1> QED
  BY <1>6 DEF h

\* The wait between two passes flushes the inbox as it stands.
LEMMA UntouchedOK ==
  ASSUME NEW g, FriendInv(g)
  PROVE  FriendInv([g EXCEPT !.inbox = g.inbox])
<1> DEFINE h == [g EXCEPT !.inbox = g.inbox]
<1>1. /\ h.net = g.net /\ h.rt = g.rt /\ h.header = g.header /\ h.ring = g.ring /\ h.inbox = g.inbox
      /\ h.dll = g.dll /\ DOMAIN h = DOMAIN g
  BY DEF FriendInv, Basis, Shape
<1> HIDE DEF h
<1>2. Shape(h) /\ Words(h) /\ OneSession(h) /\ RingOK(h) /\ ViewOK(h.dll)
  BY <1>1 DEF FriendInv, Basis, Shape, Words, OneSession, RingOK
<1>3. InboxOK(h) /\ Life(h) = Life(g)
  BY <1>1 DEF FriendInv, InboxOK, Life
<1>4. \A life : OfLife(g, life) => OfLife(h, life)
  BY <1>1 DEF OfLife, Behind, Bound
<1>5. FriendInv(h)
  BY <1>1, <1>2, <1>3, <1>4 DEF FriendInv, Basis
<1> QED
  BY <1>5 DEF h

\* The runtime ends and another begins: what waited, and the connection, end with it.
LEMMA NewRuntimeOK ==
  ASSUME NEW g, FriendInv(g)
  PROVE  FriendInv([g EXCEPT !.net = NoLink, !.rt = NewProcess, !.inbox = <<>>])
<1> DEFINE h == [g EXCEPT !.net = NoLink, !.rt = NewProcess, !.inbox = <<>>]
<1>1. /\ h.net = NoLink /\ h.rt = NewProcess /\ h.header = g.header /\ h.ring = g.ring /\ h.inbox = <<>>
      /\ h.dll = g.dll
      /\ DOMAIN h = DOMAIN g
  BY DEF FriendInv, Basis, Shape
<1> HIDE DEF h
<1>2. NetShape(h.net) /\ RtShape(h.rt) /\ ~h.net.ready /\ ~h.rt.open /\ h.rt.open \in BOOLEAN /\ h.rt.gen = 0
  BY <1>1 DEF NetShape, RtShape, NoLink, NewProcess
<1>3. Shape(h) /\ Words(h) /\ OneSession(h) /\ RingOK(h) /\ ViewOK(h.dll)
  BY <1>1, <1>2 DEF FriendInv, Basis, Shape, Words, OneSession, RingOK
<1>4. InboxOK(h)
  BY <1>1, ListEmpty DEF InboxOK
<1>5. \A life : OfLife(g, life) => OfLife(h, life)
  BY <1>1 DEF OfLife, Behind, Bound
<1>6. FriendInv(h)
  BY <1>1, <1>2, <1>3, <1>4, <1>5 DEF FriendInv, Basis
<1> QED
  BY <1>6 DEF h

\* What the invariant says of a game that is armed.
LEMMA ArmedIsCurrent ==
  ASSUME NEW g, FriendInv(g), g.rt.open, Armed(g)
  PROVE  g.dll.seen \subseteq {<<g.net.wire, g.rt.session>>}
BY DEF FriendInv, OfLife, Armed, Bound, Life

--------------------------------------------------------------------------
(* The relay's cache.                                                     *)

\* Readings are kept for the room at hand, and only beside its own population.
CacheInv(c) ==
  /\ DOMAIN c = {"room", "hold", "manifest", "hp", "hpSeq", "dead", "progress", "version"}
  /\ DOMAIN c.manifest = {"epoch", "replace", "ids"}
  /\ IsFiniteSet(c.dead)
  /\ \A i \in DOMAIN c.hp : c.hp[i].epoch = c.room /\ c.manifest.epoch = c.room

\* A relay that has taken nothing keeps nothing.
LEMMA EmptyCacheOK == CacheInv(EmptyCache)
<1>1. /\ EmptyCache.dead = {} /\ EmptyCache.hp = <<>> /\ EmptyCache.manifest = NoManifest
      /\ DOMAIN EmptyCache = {"room", "hold", "manifest", "hp", "hpSeq", "dead", "progress", "version"}
  BY DEF EmptyCache
<1>2. IsFiniteSet({})
  BY FS_EmptySet
<1>3. DOMAIN NoManifest = {"epoch", "replace", "ids"}
  BY DEF NoManifest
<1> QED
  BY <1>1, <1>2, <1>3 DEF CacheInv

\* A host that leaves takes its world out of the cache.
LEMMA HostGoneOK ==
  ASSUME NEW c, CacheInv(c), NEW campaign
  PROVE  CacheInv(HostGone(c, campaign))
<1>1. \A v : LET e == [EmptyCache EXCEPT !.version = v]
             IN  /\ e.dead = EmptyCache.dead /\ e.hp = EmptyCache.hp /\ e.manifest = EmptyCache.manifest
                 /\ e.room = EmptyCache.room /\ DOMAIN e = DOMAIN EmptyCache
  BY DEF EmptyCache
<1> QED
  BY <1>1, EmptyCacheOK DEF HostGone, CacheInv

\* A new host numbers its samples from the beginning.
LEMMA NewIncarnationOK ==
  ASSUME NEW c, CacheInv(c)
  PROVE  CacheInv(NewIncarnation(c))
BY DEF NewIncarnation, CacheInv

\* Whatever the cache takes is a body of the room the cache is of.
LEMMA TookOK ==
  ASSUME NEW c, CacheInv(c), NEW m, IsBody(m), Admits(c, m)
  PROVE  CacheInv(Took(c, m))
<1>1. CASE m.t = "room"
  <2> DEFINE e == [Cleared(c) EXCEPT !.room = m.epoch]
  <2>1. /\ DOMAIN e = DOMAIN c /\ e.dead = {} /\ e.hp = <<>> /\ e.manifest = NoManifest
    BY DEF Cleared, CacheInv
  <2>2. DOMAIN NoManifest = {"epoch", "replace", "ids"}
    BY DEF NoManifest
  <2> HIDE DEF e
  <2>3. CacheInv(e)
    BY <2>1, <2>2, FS_EmptySet DEF CacheInv
  <2> QED
    BY <1>1, <2>3 DEF Took, e
<1>2. CASE m.t = "hold"
  BY <1>2 DEF Took, CacheInv
<1>3. CASE m.t = "manifest"
  <2>1. m.epoch = c.room
    BY <1>3 DEF Admits, OfRoom
  <2>2. CASE m.replace \/ m.epoch # c.manifest.epoch
    <3> DEFINE e == [c EXCEPT !.manifest = [epoch |-> m.epoch, replace |-> m.replace, ids |-> m.ids],
                              !.hp = <<>>, !.dead = {}]
    <3>1. /\ DOMAIN e = DOMAIN c /\ e.dead = {} /\ e.hp = <<>> /\ DOMAIN e.manifest = {"epoch", "replace", "ids"}
      BY DEF CacheInv
    <3> HIDE DEF e
    <3>2. CacheInv(e)
      BY <3>1, FS_EmptySet DEF CacheInv
    <3> QED
      BY <1>3, <2>2, <3>2 DEF Took, Populated, e
  <2>3. CASE ~(m.replace \/ m.epoch # c.manifest.epoch)
    <3> DEFINE e == [c EXCEPT !.manifest.ids = @ \cup m.ids]
    <3>1. /\ DOMAIN e = DOMAIN c /\ e.dead = c.dead /\ e.hp = c.hp /\ DOMAIN e.manifest = DOMAIN c.manifest
          /\ e.manifest.epoch = c.manifest.epoch /\ e.room = c.room
      BY DEF CacheInv
    <3> HIDE DEF e
    <3>2. CacheInv(e)
      BY <3>1 DEF CacheInv
    <3> QED
      BY <1>3, <2>3, <3>2 DEF Took, Populated, e
  <2> QED
    BY <2>2, <2>3
<1>4. CASE m.t = "hp"
  <2>1. m.epoch = c.room /\ c.manifest.epoch = c.room
    BY <1>4 DEF Admits, OfManifest, OfRoom
  <2> DEFINE hp == [i \in DOMAIN c.hp \cup DOMAIN m.hp |-> IF i \in DOMAIN m.hp THEN m.hp[i] ELSE c.hp[i]]
             e == Sampled(c, m)
  <2>2. \A i \in DOMAIN hp : hp[i].epoch = c.room
    BY <1>4, <2>1 DEF CacheInv, IsBody
  <2> HIDE DEF hp
  <2>3. /\ DOMAIN e = DOMAIN c /\ e.dead = c.dead /\ e.hp = hp /\ e.manifest = c.manifest /\ e.room = c.room
    BY DEF CacheInv, Sampled, hp
  <2> HIDE DEF e
  <2>4. CacheInv(e)
    BY <2>1, <2>2, <2>3 DEF CacheInv
  <2> QED
    BY <1>4, <2>4 DEF Took, e
<1>5. CASE m.t = "death"
  <2> DEFINE e == [c EXCEPT !.dead = @ \cup {m.id}]
  <2>1. /\ DOMAIN e = DOMAIN c /\ e.dead = c.dead \cup {m.id} /\ e.hp = c.hp /\ e.manifest = c.manifest
        /\ e.room = c.room
    BY DEF CacheInv
  <2>2. IsFiniteSet(e.dead)
    BY <2>1, FS_AddElement DEF CacheInv
  <2> HIDE DEF e
  <2>3. CacheInv(e)
    BY <2>1, <2>2 DEF CacheInv
  <2> QED
    BY <1>5, <2>3 DEF Took, e
<1>6. CASE m.t = "progress"
  BY <1>6 DEF Took, CacheInv
<1> QED
  BY <1>1, <1>2, <1>3, <1>4, <1>5, <1>6 DEF IsBody

IsBodies(s) == IsList(s) /\ \A b \in Range(s) : IsBody(b)

\* At most one body.
LEMMA OnlyOK ==
  ASSUME NEW condition, NEW b, condition => IsBody(b)
  PROVE  IsBodies(Only(condition, b))
BY ListEmpty, ListOne DEF IsBodies, Only

\* Bodies behind bodies.
LEMMA BodiesConcat ==
  ASSUME NEW s, IsBodies(s), NEW u, IsBodies(u)
  PROVE  IsBodies(s \o u)
<1>1. IsList(s \o u) /\ Range(s \o u) = Range(s) \cup Range(u)
  BY ListConcat DEF IsBodies
<1> QED
  BY <1>1 DEF IsBodies

\* The deaths kept are replayed as deaths of the manifest's room.
LEMMA DeathsOK ==
  ASSUME NEW c, CacheInv(c)
  PROVE  IsBodies(DeathsOf(c))
<1> DEFINE n == Cardinality(c.dead)
           death(k) == [t |-> "death", epoch |-> c.manifest.epoch, id |-> InOrder(c.dead)[k]]
           T == {death(k) : k \in 1..n}
           s == DeathsOf(c)
<1>1. n \in Nat
  BY FS_CardinalityType DEF CacheInv
<1>2. s = [k \in 1..n |-> death(k)]
  BY DEF DeathsOf
<1> HIDE DEF n, s
<1>3. s \in Seq(T)
  <2>1. s \in [1..n -> T]
    BY <1>2
  <2> HIDE DEF T
  <2> QED
    BY <1>1, <2>1
<1>4. \A b \in T : IsBody(b)
  BY DEF IsBody
<1> HIDE DEF T
<1>5. IsList(s) /\ Range(s) \subseteq T
  BY <1>3, ListOf
<1> QED
  BY <1>4, <1>5 DEF IsBodies, s

\* All that is replayed is a body that a friend understands.
LEMMA WorldStateOK ==
  ASSUME NEW c, CacheInv(c)
  PROVE  IsBodies(WorldState(c))
<1> DEFINE room == <<[t |-> "room", epoch |-> c.room]>>
           hold == Only(c.hold # "None", [t |-> "hold", epoch |-> c.room, active |-> c.hold = "On"])
           manifest == Only(HasPopulation(c),
                            [t |-> "manifest", epoch |-> c.manifest.epoch, replace |-> TRUE, ids |-> c.manifest.ids])
           hp == Only(c.hp # <<>>, [t |-> "hp", epoch |-> c.manifest.epoch, seq |-> c.hpSeq, hp |-> c.hp])
           progress == Only(c.progress # {}, [t |-> "progress", version |-> c.version, full |-> TRUE, spans |-> c.progress])
<1>1. IsBodies(room)
  <2>1. IsBody([t |-> "room", epoch |-> c.room])
    BY DEF IsBody
  <2> QED
    BY <2>1, ListOne DEF IsBodies
<1>2. IsBodies(hold)
  <2>1. IsBody([t |-> "hold", epoch |-> c.room, active |-> c.hold = "On"])
    BY DEF IsBody
  <2> QED
    BY <2>1, OnlyOK
<1>3. IsBodies(manifest)
  <2>1. IsBody([t |-> "manifest", epoch |-> c.manifest.epoch, replace |-> TRUE, ids |-> c.manifest.ids])
    BY DEF IsBody
  <2> QED
    BY <2>1, OnlyOK
<1>4. IsBodies(hp)
  <2>1. IsBody([t |-> "hp", epoch |-> c.manifest.epoch, seq |-> c.hpSeq, hp |-> c.hp])
    BY DEF IsBody, CacheInv
  <2> QED
    BY <2>1, OnlyOK
<1>5. IsBodies(progress)
  <2>1. IsBody([t |-> "progress", version |-> c.version, full |-> TRUE, spans |-> c.progress])
    BY DEF IsBody
  <2> QED
    BY <2>1, OnlyOK
<1>6. IsBodies(DeathsOf(c))
  BY DeathsOK
<1>7. WorldState(c) = progress \o (IF c.room = NoRoom THEN <<>>
                                   ELSE room \o hold \o manifest \o hp \o DeathsOf(c))
  BY DEF WorldState, RoomState
<1> HIDE DEF room, hold, manifest, hp, progress
<1>8. IsBodies(room \o hold)
  BY <1>1, <1>2, BodiesConcat
<1>9. IsBodies(room \o hold \o manifest)
  BY <1>3, <1>8, BodiesConcat
<1>10. IsBodies(room \o hold \o manifest \o hp)
  BY <1>4, <1>9, BodiesConcat
<1>11. IsBodies(room \o hold \o manifest \o hp \o DeathsOf(c))
  BY <1>6, <1>10, BodiesConcat
<1>12. IsBodies(<<>>)
  BY ListEmpty DEF IsBodies
<1> QED
  BY <1>5, <1>7, <1>11, <1>12, BodiesConcat

--------------------------------------------------------------------------
(* The links.                                                             *)

Packets(s) == IsList(s) /\ \A m \in Range(s) : IsPacket(m)

Links(d) == DOMAIN d = Friends /\ \A f \in Friends : Packets(d[f])

\* An empty link.
LEMMA NoPackets == Packets(<<>>)
BY ListEmpty DEF Packets

\* One packet more under way.
LEMMA PacketsAppend ==
  ASSUME NEW s, Packets(s), NEW m, IsPacket(m)
  PROVE  Packets(Append(s, m))
<1>1. IsList(Append(s, m)) /\ Range(Append(s, m)) = Range(s) \cup {m}
  BY ListAppend DEF Packets
<1> QED
  BY <1>1 DEF Packets

\* Several packets more under way.
LEMMA PacketsConcat ==
  ASSUME NEW s, Packets(s), NEW u, Packets(u)
  PROVE  Packets(s \o u)
<1>1. IsList(s \o u) /\ Range(s \o u) = Range(s) \cup Range(u)
  BY ListConcat DEF Packets
<1> QED
  BY <1>1 DEF Packets

\* The first packet arrives.
LEMMA PacketsTail ==
  ASSUME NEW s, Packets(s), s # <<>>
  PROVE  Packets(Tail(s)) /\ IsPacket(Head(s))
BY ListTail DEF Packets

\* What announces the session is a packet.
LEMMA RosterPackets ==
  ASSUME NEW rly, NEW s, NEW f, NEW condition
  PROVE  /\ IsPacket(SessionPacket(rly, s, f))
         /\ Packets(Only(condition, BindingPacket(rly, s, f)))
         /\ Packets(<<SessionPacket(rly, s, f)>>)
<1>1. IsPacket(SessionPacket(rly, s, f)) /\ IsPacket(BindingPacket(rly, s, f))
  BY DEF IsPacket, SessionPacket, BindingPacket
<1> QED
  BY <1>1, ListEmpty, ListOne DEF Packets, Only

\* A body scoped to a seat is a packet.
LEMMA ScopedPacket ==
  ASSUME NEW rly, NEW s, NEW f, NEW b, IsBody(b)
  PROVE  IsPacket(Scoped(rly, s, f, b))
BY DEF IsPacket, Scoped

\* Every verified seat is told the session and its host.
LEMMA AnnouncedOK ==
  ASSUME NEW rly, NEW s, NEW d, Links(d)
  PROVE  Links(Announced(rly, s, d))
<1>1. ASSUME NEW f \in Friends
      PROVE  Packets(Append(d[f], SessionPacket(rly, s, f)) \o Only(rly.host # 0, BindingPacket(rly, s, f)))
  <2>1. Packets(Append(d[f], SessionPacket(rly, s, f)))
    BY RosterPackets, PacketsAppend DEF Links
  <2> QED
    BY <2>1, RosterPackets, PacketsConcat
<1>2. DOMAIN Announced(rly, s, d) = Friends
  BY DEF Announced
<1>3. \A f \in Friends : Announced(rly, s, d)[f] =
         IF ~Linked(s, f) THEN d[f]
         ELSE Append(d[f], SessionPacket(rly, s, f)) \o Only(rly.host # 0, BindingPacket(rly, s, f))
  BY DEF Announced
<1> QED
  BY <1>1, <1>2, <1>3 DEF Links

\* The cache, scoped to one seat.
LEMMA ScopedWorldOK ==
  ASSUME NEW c, CacheInv(c), NEW rly, NEW s, NEW f
  PROVE  Packets([k \in 1..Len(WorldState(c)) |-> Scoped(rly, s, f, WorldState(c)[k])])
<1> DEFINE w == WorldState(c)
           packet(k) == Scoped(rly, s, f, w[k])
           all == [k \in 1..Len(w) |-> packet(k)]
           T == {packet(k) : k \in 1..Len(w)}
<1>1. Len(w) \in Nat /\ \A k \in 1..Len(w) : IsBody(w[k])
  BY WorldStateOK, ListElements DEF IsBodies
<1>2. \A m \in T : IsPacket(m)
  BY <1>1, ScopedPacket
<1>3. all \in Seq(T)
  <2>1. all \in [1..Len(w) -> T]
    OBVIOUS
  <2> HIDE DEF T, all, w
  <2> QED
    BY <1>1, <2>1
<1> HIDE DEF T, all
<1>4. IsList(all) /\ Range(all) \subseteq T
  BY <1>3, ListOf
<1>5. Packets(all)
  BY <1>2, <1>4 DEF Packets
<1> QED
  BY <1>5 DEF all

--------------------------------------------------------------------------
(* The invariant of the whole.                                            *)

WorldInv ==
  /\ CacheInv(cache)
  /\ IsBodies(hostOut)
  /\ \A b \in hostHp : IsBody(b)
  /\ Links(down)
  /\ DOMAIN hpDown = Friends /\ \A f \in Friends : \A m \in hpDown[f] : IsPacket(m)
  /\ DOMAIN friend = Friends /\ \A f \in Friends : FriendInv(friend[f])

\* Everything begins unconnected.
LEMMA WorldInit == Init => WorldInv
<1> SUFFICES ASSUME Init
             PROVE  WorldInv
  OBVIOUS
<1>1. IsBodies(hostOut)
  BY ListEmpty DEF Init, IsBodies
<1>2. Links(down)
  BY NoPackets DEF Init, Links
<1> QED
  BY <1>1, <1>2, EmptyCacheOK, NewFriendOK DEF Init, WorldInv

\* What the host publishes is a body, and a body sent is a body.
LEMMA PublishOK ==
  ASSUME WorldInv, NEW b, IsBody(b), Publishes(b)
  PROVE  WorldInv'
<1>1. IsBodies(hostOut')
  <2>1. hostOut' = Append(hostOut, b)
    BY DEF Publishes
  <2>2. IsList(Append(hostOut, b)) /\ Range(Append(hostOut, b)) = Range(hostOut) \cup {b}
    BY ListAppend DEF WorldInv, IsBodies
  <2> QED
    BY <2>1, <2>2 DEF WorldInv, IsBodies
<1>2. UNCHANGED <<cache, hostHp, friend, down, hpDown>>
  BY DEF Publishes
<1> QED
  BY <1>1, <1>2 DEF WorldInv

\* The host only adds bodies to what the relay will take.
LEMMA HostStepOK ==
  ASSUME WorldInv, HostNext
  PROVE  WorldInv'
<1>1. ASSUME NEW fresh \in BOOLEAN, HostJoins(fresh)
      PROVE  WorldInv'
  <2>1. CacheInv(cache')
    BY <1>1, NewIncarnationOK DEF HostJoins, WorldInv
  <2>2. Links(down')
    BY <1>1, AnnouncedOK DEF HostJoins, WorldInv
  <2>3. UNCHANGED <<hostOut, hostHp, friend, hpDown>>
    BY <1>1 DEF HostJoins
  <2> QED
    BY <2>1, <2>2, <2>3 DEF WorldInv
<1>2. ASSUME HostLeaves
      PROVE  WorldInv'
  <2>1. CacheInv(cache')
    BY <1>2, HostGoneOK DEF HostLeaves, WorldInv
  <2>2. Links(down')
    BY <1>2, AnnouncedOK DEF HostLeaves, WorldInv
  <2>3. hostOut' = <<>> /\ hostHp' = {} /\ UNCHANGED <<friend, hpDown>>
    BY <1>2 DEF HostLeaves
  <2>4. IsBodies(hostOut')
    BY <2>3, ListEmpty DEF IsBodies
  <2> QED
    BY <2>1, <2>2, <2>3, <2>4 DEF WorldInv
<1>3. ASSUME HostSaves
      PROVE  WorldInv'
  BY <1>3, PublishOK DEF HostSaves, IsBody
<1>4. ASSUME NEW load \in BOOLEAN, HostArrives(load)
      PROVE  WorldInv'
  BY <1>4, PublishOK DEF HostArrives, IsBody
<1>5. ASSUME NEW born \in BOOLEAN, HostPopulates(born)
      PROVE  WorldInv'
  BY <1>5, PublishOK DEF HostPopulates, IsBody
<1>6. ASSUME NEW id \in host.announced, HostBuries(id)
      PROVE  WorldInv'
  BY <1>6, PublishOK DEF HostBuries, IsBody
<1>7. ASSUME HostHolds
      PROVE  WorldInv'
  BY <1>7, PublishOK DEF HostHolds, IsBody
<1>8. ASSUME HostSamples
      PROVE  WorldInv'
  <2>1. \A b \in hostHp' : IsBody(b)
    BY <1>8 DEF HostSamples, WorldInv, IsBody
  <2>2. UNCHANGED <<cache, hostOut, friend, down, hpDown>>
    BY <1>8 DEF HostSamples
  <2> QED
    BY <2>1, <2>2 DEF WorldInv
<1> QED
  BY <1>1, <1>2, <1>3, <1>4, <1>5, <1>6, <1>7, <1>8 DEF HostNext

\* The relay puts packets on the links and bodies in its cache, and leaves the friends alone.
LEMMA RelayStepOK ==
  ASSUME WorldInv, RelayNext
  PROVE  WorldInv'
<1>1. ASSUME RelayRestarts
      PROVE  WorldInv'
  <2>1. /\ cache' = EmptyCache /\ hostOut' = <<>> /\ hostHp' = {}
        /\ UNCHANGED <<friend, down, hpDown>>
    BY <1>1 DEF RelayRestarts
  <2>2. IsBodies(hostOut')
    BY <2>1, ListEmpty DEF IsBodies
  <2> QED
    BY <2>1, <2>2, EmptyCacheOK DEF WorldInv
<1>2. ASSUME RelayTakes
      PROVE  WorldInv'
  <2> DEFINE m == Head(hostOut)
  <2>1. hostOut # <<>> /\ IsList(hostOut) /\ \A b \in Range(hostOut) : IsBody(b)
    BY <1>2 DEF RelayTakes, WorldInv, IsBodies
  <2>2. IsBody(m) /\ IsList(Tail(hostOut)) /\ Range(Tail(hostOut)) \subseteq Range(hostOut)
    BY <2>1, ListTail
  <2>3. IsBodies(hostOut')
    BY <1>2, <2>1, <2>2 DEF RelayTakes, IsBodies
  <2>4. CacheInv(cache')
    BY <1>2, <2>2, TookOK DEF RelayTakes, WorldInv
  <2>5. Links(Forwarded(m))
    <3>1. \A f \in Friends : Packets(down[f]) /\ Packets(Append(down[f], Scoped(relay, seat, f, m)))
      BY <2>2, ScopedPacket, PacketsAppend DEF WorldInv, Links
    <3>2. DOMAIN Forwarded(m) = Friends
      BY DEF Forwarded
    <3>3. \A f \in Friends : Forwarded(m)[f] = IF Linked(seat, f) THEN Append(down[f], Scoped(relay, seat, f, m)) ELSE down[f]
      BY DEF Forwarded
    <3> QED
      BY <3>1, <3>2, <3>3 DEF Links
  <2>6. Links(down')
    BY <1>2, <2>5 DEF RelayTakes, WorldInv
  <2>7. UNCHANGED <<hostHp, friend, hpDown>>
    BY <1>2 DEF RelayTakes
  <2> QED
    BY <2>3, <2>4, <2>6, <2>7 DEF WorldInv
<1>3. ASSUME NEW m \in hostHp, RelaySamples(m)
      PROVE  WorldInv'
  <2>1. IsBody(m)
    BY DEF WorldInv
  <2>2. CacheInv(cache')
    BY <1>3, <2>1, TookOK DEF RelaySamples, WorldInv
  <2>3. DOMAIN hpDown' = Friends /\ \A f \in Friends : \A x \in hpDown'[f] : IsPacket(x)
    <3>1. \A f \in Friends : IsPacket(Scoped(relay, seat, f, m))
      BY <2>1, ScopedPacket
    <3> QED
      BY <1>3, <3>1 DEF RelaySamples, WorldInv
  <2>4. (\A b \in hostHp' : IsBody(b)) /\ UNCHANGED <<hostOut, friend, down>>
    BY <1>3 DEF RelaySamples, WorldInv
  <2> QED
    BY <2>2, <2>3, <2>4 DEF WorldInv
<1>4. ASSUME NEW m \in hostHp, SampleLost(m)
      PROVE  WorldInv'
  BY <1>4 DEF SampleLost, WorldInv
<1>5. ASSUME NEW f \in Friends, RelayReplays(f)
      PROVE  WorldInv'
  <2>1. Packets(Replayed(f, down[f]))
    BY ScopedWorldOK, PacketsConcat DEF Replayed, WorldInv, Links
  <2>2. Links([down EXCEPT ![f] = Replayed(f, @)])
    BY <2>1 DEF WorldInv, Links
  <2>3. Links(down')
    BY <1>5, <2>2 DEF RelayReplays, WorldInv
  <2>4. UNCHANGED <<cache, hostOut, hostHp, friend, hpDown>>
    BY <1>5 DEF RelayReplays
  <2> QED
    BY <2>3, <2>4 DEF WorldInv
<1>6. ASSUME NEW f \in Friends, SeatGone(f)
      PROVE  WorldInv'
  <2>1. Links(down')
    BY <1>6, AnnouncedOK DEF SeatGone, WorldInv
  <2>2. UNCHANGED <<cache, hostOut, hostHp, friend, hpDown>>
    BY <1>6 DEF SeatGone
  <2> QED
    BY <2>1, <2>2 DEF WorldInv
<1> QED
  BY <1>1, <1>2, <1>3, <1>4, <1>5, <1>6 DEF RelayNext

\* A step of one friend: its record, and its own links.
LEMMA FriendChangeOK ==
  ASSUME WorldInv, NEW f \in Friends, NEW g, FriendInv(g),
         friend' = [friend EXCEPT ![f] = g],
         UNCHANGED <<cache, hostOut, hostHp>>,
         Links(down'),
         DOMAIN hpDown' = Friends, \A x \in Friends : \A m \in hpDown'[x] : IsPacket(m)
  PROVE  WorldInv'
<1>1. DOMAIN friend' = Friends /\ \A x \in Friends : FriendInv(friend'[x])
  BY DEF WorldInv
<1> QED
  BY <1>1 DEF WorldInv

\* Every step of a friend's connection, runtime and game.
LEMMA FriendNextOK ==
  ASSUME WorldInv, FriendNext
  PROVE  WorldInv'
<1> SUFFICES ASSUME NEW f \in Friends,
                    \/ DialRelay(f) \/ LinkLost(f) \/ NewRuntime(f) \/ FriendHears(f)
                    \/ \E m \in hpDown[f] : FriendHearsSample(f, m) \/ FriendMissesSample(f, m)
                    \/ Attach(f) \/ Flush(f)
                    \/ \E safe \in BOOLEAN : GameConsumes(f, safe)
                    \/ GameChecks(f) \/ GameAsks(f) \/ GameAbandons(f)
             PROVE  WorldInv'
  BY DEF FriendNext
<1> DEFINE g == friend[f]
<1>0. /\ FriendInv(g) /\ Links(down) /\ Packets(down[f])
      /\ DOMAIN hpDown = Friends /\ \A x \in Friends : \A m \in hpDown[x] : IsPacket(m)
  BY DEF WorldInv, Links
<1>a. Links([down EXCEPT ![f] = <<>>])
  BY <1>0, NoPackets DEF Links
<1>b. /\ DOMAIN [hpDown EXCEPT ![f] = {}] = Friends
      /\ \A x \in Friends : \A m \in [hpDown EXCEPT ![f] = {}][x] : IsPacket(m)
  BY <1>0
<1>1. ASSUME DialRelay(f)
      PROVE  WorldInv'
  <2> DEFINE wire == left.dials[f]
             s == [seat EXCEPT ![f] = [conn |-> relay.next, wire |-> wire, replayed |-> 0]]
             world == [k \in 1..Len(WorldState(cache)) |-> Scoped(relay, s, f, WorldState(cache)[k])]
             others == Announced(relay, [s EXCEPT ![f] = Empty], down)
             mine == <<SessionPacket(relay, s, f)>> \o Only(HostOn, BindingPacket(relay, s, f)) \o world
  <2>1. /\ friend' = [friend EXCEPT ![f] = Dialled(g, wire)]
        /\ down' = [others EXCEPT ![f] = mine]
        /\ hpDown' = [hpDown EXCEPT ![f] = {}]
        /\ UNCHANGED <<cache, hostOut, hostHp>>
    BY <1>1 DEF DialRelay
  <2>2. Links(others)
    BY <1>0, AnnouncedOK
  <2>3. Packets(mine)
    <3>1. Packets(world)
      BY ScopedWorldOK DEF WorldInv
    <3>2. Packets(<<SessionPacket(relay, s, f)>> \o Only(HostOn, BindingPacket(relay, s, f)))
      BY RosterPackets, PacketsConcat
    <3> HIDE DEF world
    <3> QED
      BY <3>1, <3>2, PacketsConcat
  <2> HIDE DEF others, mine, s, world
  <2>4. Links(down')
    BY <2>1, <2>2, <2>3 DEF Links
  <2>5. FriendInv(Dialled(g, wire))
    BY <1>0, DialledOK
  <2> HIDE DEF wire
  <2> QED
    BY <1>b, <2>1, <2>4, <2>5, FriendChangeOK
<1>2. ASSUME LinkLost(f)
      PROVE  WorldInv'
  <2>1. FriendInv(Hung(g))
    BY <1>0, HungOK
  <2>2. /\ friend' = [friend EXCEPT ![f] = Hung(g)]
        /\ down' = [down EXCEPT ![f] = <<>>] /\ hpDown' = [hpDown EXCEPT ![f] = {}]
        /\ UNCHANGED <<cache, hostOut, hostHp>>
    BY <1>2 DEF LinkLost
  <2> QED
    BY <1>a, <1>b, <2>1, <2>2, FriendChangeOK
<1>3. ASSUME NewRuntime(f)
      PROVE  WorldInv'
  <2> DEFINE h == [g EXCEPT !.net = NoLink, !.rt = NewProcess, !.inbox = <<>>]
  <2>1. FriendInv(h)
    BY <1>0, NewRuntimeOK
  <2>2. /\ friend' = [friend EXCEPT ![f] = h]
        /\ down' = [down EXCEPT ![f] = <<>>] /\ hpDown' = [hpDown EXCEPT ![f] = {}]
        /\ UNCHANGED <<cache, hostOut, hostHp>>
    BY <1>3 DEF NewRuntime
  <2> HIDE DEF h
  <2> QED
    BY <1>a, <1>b, <2>1, <2>2, FriendChangeOK
<1>4. ASSUME FriendHears(f)
      PROVE  WorldInv'
  <2> DEFINE h == Heard(g, Head(down[f]), TRUE)
             cut == h.net.wire = 0
  <2>1. /\ friend' = [friend EXCEPT ![f] = h]
        /\ down[f] # <<>>
        /\ down' = [down EXCEPT ![f] = IF cut THEN <<>> ELSE Tail(@)]
        /\ hpDown' = [hpDown EXCEPT ![f] = IF cut THEN {} ELSE @]
        /\ UNCHANGED <<cache, hostOut, hostHp>>
    BY <1>4 DEF FriendHears, FriendStep
  <2>2. IsPacket(Head(down[f])) /\ Packets(Tail(down[f]))
    BY <1>0, <2>1, PacketsTail
  <2>3. FriendInv(h)
    BY <1>0, <2>2, HeardOK
  <2> HIDE DEF h
  <2>4. Links(down')
    BY <1>0, <2>1, <2>2, NoPackets DEF Links
  <2>5. DOMAIN hpDown' = Friends /\ \A x \in Friends : \A m \in hpDown'[x] : IsPacket(m)
    BY <1>0, <2>1
  <2> QED
    BY <2>1, <2>3, <2>4, <2>5, FriendChangeOK
<1>5. ASSUME NEW m \in hpDown[f], FriendHearsSample(f, m)
      PROVE  WorldInv'
  <2>1. FriendInv(Heard(g, m, FALSE))
    BY <1>0, HeardOK
  <2>2. /\ friend' = [friend EXCEPT ![f] = Heard(g, m, FALSE)]
        /\ hpDown' = [hpDown EXCEPT ![f] = @ \ {m}]
        /\ UNCHANGED <<cache, hostOut, hostHp, down>>
    BY <1>5 DEF FriendHearsSample, FriendStep
  <2>3. Links(down') /\ DOMAIN hpDown' = Friends /\ \A x \in Friends : \A y \in hpDown'[x] : IsPacket(y)
    BY <1>0, <2>2
  <2> QED
    BY <2>1, <2>2, <2>3, FriendChangeOK
<1>6. ASSUME NEW m \in hpDown[f], FriendMissesSample(f, m)
      PROVE  WorldInv'
  <2>1. /\ hpDown' = [hpDown EXCEPT ![f] = @ \ {m}]
        /\ UNCHANGED <<cache, hostOut, hostHp, down, friend>>
    BY <1>6 DEF FriendMissesSample
  <2> QED
    BY <2>1 DEF WorldInv
<1> DEFINE Mine(h) == /\ friend' = [friend EXCEPT ![f] = h]
                      /\ UNCHANGED <<cache, hostOut, hostHp, down, hpDown>>
<1>c. ASSUME NEW h, FriendInv(h), Mine(h)
      PROVE  WorldInv'
  <2>1. Links(down') /\ DOMAIN hpDown' = Friends /\ \A x \in Friends : \A m \in hpDown'[x] : IsPacket(m)
    BY <1>0, <1>c
  <2> QED
    BY <1>c, <2>1, FriendChangeOK
<1>7. ASSUME Attach(f)
      PROVE  WorldInv'
  <2>1. FriendInv(Attached(g)) /\ Mine(Attached(g))
    BY <1>0, <1>7, AttachedOK DEF Attach, FriendStep
  <2> QED
    BY <1>c, <2>1
<1>8. ASSUME Flush(f)
      PROVE  WorldInv'
  <2>1. Mine(Delivered(g, g.inbox))
    BY <1>8 DEF Flush, FriendStep
  <2>2. FriendInv([g EXCEPT !.inbox = g.inbox])
    BY <1>0, UntouchedOK
  <2>3. Shape(g)
    BY <1>0 DEF FriendInv, Basis
  <2>4. FriendInv(Delivered(g, g.inbox))
    BY <2>2, <2>3, DeliveredOK
  <2> QED
    BY <1>c, <2>1, <2>4
<1>9. ASSUME NEW safe \in BOOLEAN, GameConsumes(f, safe)
      PROVE  WorldInv'
  <2>1. FriendInv(Consumed(g, safe)) /\ Mine(Consumed(g, safe))
    BY <1>0, <1>9, ConsumedOK DEF GameConsumes, FriendStep
  <2> QED
    BY <1>c, <2>1
<1>10. ASSUME GameChecks(f)
       PROVE  WorldInv'
  <2>1. FriendInv(Checked(g)) /\ Mine(Checked(g))
    BY <1>0, <1>10, CheckedOK DEF GameChecks, FriendStep
  <2> QED
    BY <1>c, <2>1
<1>11. ASSUME GameAsks(f)
       PROVE  WorldInv'
  <2>1. FriendInv([g EXCEPT !.dll.replay = "Awaiting"]) /\ Mine([g EXCEPT !.dll.replay = "Awaiting"])
    BY <1>0, <1>11, ReplayOK DEF GameAsks, FriendStep
  <2> QED
    BY <1>c, <2>1
<1>12. ASSUME GameAbandons(f)
       PROVE  WorldInv'
  <2>1. FriendInv([g EXCEPT !.dll.replay = "Closed"]) /\ Mine([g EXCEPT !.dll.replay = "Closed"])
    BY <1>0, <1>12, ReplayOK DEF GameAbandons, FriendStep
  <2> QED
    BY <1>c, <2>1
<1> QED
  BY <1>1, <1>2, <1>3, <1>4, <1>5, <1>6, <1>7, <1>8, <1>9, <1>10, <1>11, <1>12

\* What is queued, under way and shown: every packet the runtime handed to the game carries
\* a generation the header has published, what stands behind the marker of that generation
\* is of one life of the connection, and an enemy's sample is of the room it is shown in
\* (WorldPump.hpp, EnemySync.cpp, SessionHost.cpp).
THEOREM WorldInvariant == Spec => []WorldInv
<1>1. ASSUME WorldInv, [Next]_vars
      PROVE  WorldInv'
  <2>1. CASE UNCHANGED vars
    BY <1>1, <2>1 DEF vars, WorldInv
  <2>2. CASE HostNext
    BY <1>1, <2>2, HostStepOK
  <2>3. CASE RelayNext
    BY <1>1, <2>3, RelayStepOK
  <2>4. CASE FriendNext
    BY <1>1, <2>4, FriendNextOK
  <2> QED
    BY <1>1, <2>1, <2>2, <2>3, <2>4 DEF Next
<1> QED
  BY <1>1, WorldInit, PTL DEF Spec

\* Which leaves nothing of another life to see.
LEMMA WorldSafe == WorldInv => NothingOfAnotherLife
<1> SUFFICES ASSUME WorldInv
             PROVE  NothingOfAnotherLife
  OBVIOUS
<1>1. OfThisSession
  BY ArmedIsCurrent DEF WorldInv, OfThisSession
<1>2. HpOfThisRoom
  BY DEF WorldInv, CacheInv, FriendInv, Basis, ViewOK, HpOfThisRoom
<1> QED
  BY <1>1, <1>2 DEF NothingOfAnotherLife

\* A friend is never shown anything of another session or connection than its own, nor a
\* sample of another room than the one it stands in: the session generation that the runtime
\* publishes and the marker it queues keep packets of an earlier life out of the game
\* (WorldPump.hpp resetWorldSession, EnemySync.cpp receivePackets), for any number of
\* friends, enemies, rooms and reconnections.
THEOREM NoOtherLife == Spec => []NothingOfAnotherLife
BY WorldInvariant, WorldSafe, PTL

=============================================================================
