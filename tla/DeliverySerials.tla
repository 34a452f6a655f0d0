-------------------------- MODULE DeliverySerials --------------------------
(***************************************************************************)
(* Who admits whose envelopes.  Every connection has a delivery serial, 1  *)
(* when it joins and one more with every resync that fences it.  The relay *)
(* stamps nothing: a seat writes its own connection and serial into its    *)
(* envelopes, the relay refuses any other serial than its own, and every   *)
(* receiver compares with the serial it has heard for that connection.     *)
(*                                                                         *)
(* WorldResync holds the transaction itself; here only its fences and the  *)
(* plans that announce serials are kept, and each friend both sends and    *)
(* listens.  The host listens like a friend that is never a target.        *)
(***************************************************************************)
EXTENDS Naturals, Sequences, FiniteSets

CONSTANTS Friends,    \* the friend seats
          Host,       \* the host's seat
          Listeners,  \* the seats whose mail is followed
          Speakers,   \* the friends whose envelopes are followed
          MaxConns,   \* bound on connection ids
          MaxPlans,   \* bound on transactions
          MaxSends    \* bound on envelopes on their way from and to anyone

ASSUME SerialsAssumption ==
    /\ Host \notin Friends /\ Listeners \subseteq Friends \cup {Host}
    /\ Speakers \subseteq Friends \cap Listeners
    /\ MaxConns \in Nat /\ MaxPlans \in Nat /\ MaxSends \in Nat

VARIABLES relay,   \* the SessionHost: its peers, its transaction
          seat,    \* every NetworkClient
          wire,    \* friend -> relay
          out,     \* relay -> everyone
          announced \* history: who could hear of a connection's serial, by the next connection id

vars == <<relay, seat, wire, out, announced>>

NoTargets == [f \in Friends |-> 0]     \* no friend is a target; otherwise its new serial
NoPeer    == [conn |-> 0, serial |-> 1, fenced |-> FALSE]

\* heard[f] is the serial the seat expects of friend f's envelopes.
NewSeat == [bound |-> 1, fenced |-> FALSE, plan |-> 0,
            roster |-> [f \in Friends |-> 0], heard |-> [f \in Friends |-> 1]]

Verified(p) == p = Host \/ relay.peers[p].conn # 0
Conns(peers) == [f \in Friends |-> peers[f].conn]

\* m goes to every verified peer of `to'.
Tell(to, m) == [p \in Listeners |-> IF p \in to /\ Verified(p) THEN Append(out[p], m) ELSE out[p]]

Init ==
    /\ relay = [peers |-> [f \in Friends |-> NoPeer], nextConn |-> 1, lastId |-> 0,
                targets |-> NoTargets, handed |-> FALSE]
    /\ seat = [p \in Listeners |-> NewSeat]
    /\ wire = [f \in Friends |-> <<>>]
    /\ out  = [p \in Listeners |-> <<>>]
    /\ announced = [c \in 1..MaxConns |-> [s \in 2..MaxPlans + 1 |-> 0]]

-----------------------------------------------------------------------------
(* The relay.                                                              *)

Active == relay.targets # NoTargets
Targets == {f \in Friends : relay.targets[f] # 0}

\* ClientHello accepted, and the session state to everyone.
Join(f) ==
    /\ relay.peers[f].conn = 0 /\ relay.nextConn <= MaxConns
    /\ LET peers == [relay.peers EXCEPT ![f] = [NoPeer EXCEPT !.conn = relay.nextConn]]
           m == [t |-> "roster", conns |-> Conns(peers)]
       IN /\ relay' = [relay EXCEPT !.peers = peers, !.nextConn = @ + 1]
          /\ out' = [p \in Listeners |-> IF p = f THEN <<m>> ELSE Tell(Listeners, m)[p]]
    /\ UNCHANGED <<seat, wire, announced>>

Fenced(peers, targets) == [g \in Friends |->
    IF targets[g] # 0 THEN [peers[g] EXCEPT !.fenced = TRUE] ELSE peers[g]]

Result(converged) == [t |-> "result", id |-> relay.lastId, converged |-> converged]

\* removePeer(): a target that leaves fails the transaction for all of them.
Leave(f) ==
    /\ relay.peers[f].conn # 0
    /\ LET ends  == relay.targets[f] # 0
           kept  == IF ends THEN Fenced(relay.peers, relay.targets) ELSE relay.peers
           peers == [kept EXCEPT ![f] = NoPeer]
           told  == IF ends THEN Tell(Targets \cup {Host}, Result(FALSE)) ELSE out
           m     == [t |-> "roster", conns |-> Conns(peers)]
       IN /\ relay' = [relay EXCEPT !.peers = peers,
                                    !.targets = IF ends THEN NoTargets ELSE @,
                                    !.handed = IF ends THEN FALSE ELSE @]
          /\ out' = [p \in Listeners |->
                        IF p = f THEN <<>>
                        ELSE IF Verified(p) THEN Append(told[p], m) ELSE <<>>]
    /\ seat' = [seat EXCEPT ![f] = NewSeat]
    /\ wire' = [wire EXCEPT ![f] = <<>>]
    /\ UNCHANGED announced

\* A request admitted: new serials, raised fences, and the plan published.
Plan(targets, id) == [t |-> "plan", id |-> id, serials |-> targets,
                      conns |-> Conns(relay.peers)]
StartForTargets(mask) ==                                              \* mutant
    /\ ~Active /\ relay.lastId < MaxPlans
    /\ mask # {} /\ \A f \in mask : relay.peers[f].conn # 0
    /\ LET targets == [f \in Friends |-> IF f \in mask THEN relay.peers[f].serial + 1 ELSE 0]
           peers == [f \in Friends |-> IF f \in mask
                       THEN [relay.peers[f] EXCEPT !.serial = @ + 1, !.fenced = TRUE]
                       ELSE relay.peers[f]]
       IN /\ relay' = [relay EXCEPT !.peers = peers, !.targets = targets, !.handed = FALSE,
                                    !.lastId = @ + 1]
          /\ announced' = [c \in DOMAIN announced |-> [s \in DOMAIN announced[c] |->
                 IF \E f \in mask : relay.peers[f].conn = c /\ targets[f] = s
                 THEN relay.nextConn ELSE announced[c][s]]]
          /\ out' = Tell(mask \cup {Host}, Plan(targets, relay.lastId + 1))
    /\ UNCHANGED <<seat, wire>>
Start(mask) ==
    /\ ~Active /\ relay.lastId < MaxPlans
    /\ mask # {} /\ \A f \in mask : relay.peers[f].conn # 0
    /\ LET targets == [f \in Friends |-> IF f \in mask THEN relay.peers[f].serial + 1 ELSE 0]
           peers == [f \in Friends |-> IF f \in mask
                       THEN [relay.peers[f] EXCEPT !.serial = @ + 1, !.fenced = TRUE]
                       ELSE relay.peers[f]]
       IN /\ relay' = [relay EXCEPT !.peers = peers, !.targets = targets, !.handed = FALSE,
                                    !.lastId = @ + 1]
          /\ announced' = [c \in DOMAIN announced |-> [s \in DOMAIN announced[c] |->
                 IF \E f \in mask : relay.peers[f].conn = c /\ targets[f] = s
                 THEN relay.nextConn ELSE announced[c][s]]]
          /\ out' = Tell(Listeners, Plan(targets, relay.lastId + 1))
    /\ UNCHANGED <<seat, wire>>

\* The complete snapshot to every target, and their fences lowered.
HandOut ==
    /\ Active /\ ~relay.handed
    /\ relay' = [relay EXCEPT !.handed = TRUE,
                              !.peers = [f \in Friends |-> IF f \in Targets
                                  THEN [@[f] EXCEPT !.fenced = FALSE] ELSE @[f]]]
    /\ out' = Tell(Targets, [t |-> "end", id |-> relay.lastId])
    /\ UNCHANGED <<seat, wire, announced>>

\* finishResync() for any reason: a snapshot has been acknowledged or not.
End(converged) ==
    /\ Active /\ (converged => relay.handed)
    /\ relay' = [relay EXCEPT !.targets = NoTargets, !.handed = FALSE,
                              !.peers = IF converged THEN @ ELSE Fenced(@, relay.targets)]
    /\ out' = Tell(Targets \cup {Host}, Result(converged))
    /\ UNCHANGED <<seat, wire, announced>>

\* A friend's envelope: its own connection, the current serial, no fence.
Admitted(f, m) == m.conn = relay.peers[f].conn /\ m.serial = relay.peers[f].serial
                  /\ ~relay.peers[f].fenced

Forward(f) ==
    /\ wire[f] # <<>>
    /\ LET m == Head(wire[f])
           receivers == {p \in Listeners \ {f} : p = Host \/ ~relay.peers[p].fenced}
       IN out' = IF Admitted(f, m) THEN Tell(receivers, m) ELSE out
    /\ wire' = [wire EXCEPT ![f] = Tail(@)]
    /\ UNCHANGED <<relay, seat, announced>>

-----------------------------------------------------------------------------
(* The seats.                                                              *)

Receives(p, type) ==
    /\ out[p] # <<>> /\ Head(out[p]).t = type
    /\ out' = [out EXCEPT ![p] = Tail(@)]
    /\ UNCHANGED <<relay, wire, announced>>

\* updateAvatarRoster(): a new connection in a slot starts at serial 1 again.
SeatRoster(p) ==
    /\ Receives(p, "roster")
    /\ LET conns == Head(out[p]).conns
       IN seat' = [seat EXCEPT ![p].roster = conns,
                     ![p].heard = [f \in Friends |->
                         IF conns[f] # seat[p].roster[f] THEN 1 ELSE @[f]]]

\* WorldBinding and ResyncPlan for a target; the plan for the host; a notice
\* for everyone else, which only raises, and only for current connections.
Raised(q, m) == [f \in Friends |->
    IF m.serials[f] > q.heard[f] /\ m.conns[f] = q.roster[f] THEN m.serials[f] ELSE q.heard[f]]
Announced(q, m) == [f \in Friends |-> IF m.serials[f] # 0 THEN m.serials[f] ELSE q.heard[f]]

SeatPlan(p) ==
    /\ Receives(p, "plan")
    /\ LET m == Head(out[p])
           selected == p = Host \/ m.serials[p] # 0
       IN seat' = [seat EXCEPT ![p] =
              IF ~selected THEN [@ EXCEPT !.heard = Raised(seat[p], m)]
              ELSE IF p = Host THEN [@ EXCEPT !.heard = Announced(seat[p], m), !.plan = m.id]
              ELSE [@ EXCEPT !.heard = Announced(seat[p], m), !.plan = m.id,
                             !.bound = m.serials[p], !.fenced = TRUE]]

SeatEnd(p) ==
    /\ Receives(p, "end")
    /\ seat' = IF Head(out[p]).id = seat[p].plan THEN [seat EXCEPT ![p].fenced = FALSE] ELSE seat

SeatResult(p) ==
    /\ Receives(p, "result")
    /\ seat' = IF Head(out[p]).id # seat[p].plan THEN seat
               ELSE [seat EXCEPT ![p].plan = 0,
                                 ![p].fenced = @ \/ (p # Host /\ ~Head(out[p]).converged)]

\* At most MaxSends envelopes are on their way from or to anyone.
Envelopes(p) == Len(SelectSeq(out[p], LAMBDA m : m.t = "env"))

\* sendNativeWorld(): a friend's own traffic, under the serial it is bound to.
Send(f) ==
    /\ relay.peers[f].conn # 0 /\ seat[f].roster[f] = relay.peers[f].conn
    /\ ~seat[f].fenced /\ \A p \in Listeners : Len(wire[f]) + Envelopes(p) < MaxSends
    /\ wire' = [wire EXCEPT ![f] = Append(@, [t |-> "env", from |-> f, conn |-> seat[f].roster[f],
                                              serial |-> seat[f].bound])]
    /\ UNCHANGED <<relay, seat, out, announced>>

\* An envelope reaches the seat's world or is dropped; neither changes what
\* the seat knows.
SeatEnvelope(p) == Receives(p, "env") /\ UNCHANGED seat

Next ==
    \/ \E mask \in SUBSET Friends : Start(mask)
    \/ HandOut
    \/ \E converged \in BOOLEAN : End(converged)
    \/ \E f \in Friends : Join(f) \/ Leave(f)
    \/ \E f \in Speakers : Forward(f) \/ Send(f)
    \/ \E p \in Listeners : SeatRoster(p) \/ SeatPlan(p) \/ SeatEnd(p) \/ SeatResult(p)
                           \/ SeatEnvelope(p)

Spec == Init /\ [][Next]_vars

-----------------------------------------------------------------------------
(* Correctness.                                                            *)

\* The envelope a seat is about to read comes from a connection of its roster
\* under the very serial it expects.
Recognised(p) ==
    out[p] # <<>> /\ Head(out[p]).t = "env" =>
        LET m == Head(out[p])
        IN  m.conn = seat[p].roster[m.from] /\ m.serial = seat[p].heard[m.from]

\* A seat that was there when a serial was announced never refuses an envelope
\* under it for its source: the roster, the plan and the notice always arrive
\* before what they admit and after what they retire.
Present(p, m) == p = Host \/ m.serial = 1 \/ relay.peers[p].conn < announced[m.conn][m.serial]
PresentSeatsRecognise ==
    \A p \in Listeners :
        out[p] # <<>> /\ Head(out[p]).t = "env" /\ Present(p, Head(out[p])) => Recognised(p)

\* NetworkClient.cpp:1064 of every seat outside a plan: it must admit the
\* targets' later envelopes.  A seat that joins after the plan was published
\* starts at serial 1 and is told nothing.
OutsidersRecognise == \A p \in Listeners : Recognised(p)

=============================================================================
