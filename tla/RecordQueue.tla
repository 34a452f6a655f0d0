---------------------------- MODULE RecordQueue ----------------------------
(***************************************************************************)
(* What a PacketRing promises its two users: records come out whole, once, *)
(* in the order they were accepted.  Room, refusal and memory are the       *)
(* ring's own business: the queue only says what happened.                  *)
(***************************************************************************)
EXTENDS Sequences

CONSTANT Record

VARIABLES
  queue,   \* accepted records that have not come out yet
  got      \* the record that came out last, or Nothing

CONSTANT Nothing

Init == queue = <<>> /\ got = Nothing

Accept == \E r \in Record : queue' = Append(queue, r) /\ UNCHANGED got

Deliver ==
  /\ queue # <<>>
  /\ got' = Head(queue)
  /\ queue' = Tail(queue)

Next == Accept \/ Deliver

Spec == Init /\ [][Next]_<<queue, got>>
=============================================================================
