----------------------------- MODULE PacketRing -----------------------------
(***************************************************************************)
(* PacketRing.hpp: a lock-free ring of variable-length records in shared    *)
(* memory between the injected DLL and the runtime.  One producer writes     *)
(* head, one consumer writes tail; both are byte counts modulo the width of  *)
(* their word.  Every access to the shared memory is a step of its own, so   *)
(* the two sides interleave anywhere between them.                           *)
(*                                                                           *)
(* Memory is a function from word offset to word.  A word is a pair: the     *)
(* number it reads as, and 0 for a length word or the index of a payload     *)
(* word.  A payload is named by a number, so that stale payload read as a    *)
(* length gives some length, as in the code.                                 *)
(***************************************************************************)
EXTENDS Integers, Sequences

CONSTANTS
  Cap,       \* data bytes of the ring (WORLD_RING_BYTES in both bridges)
  Width,     \* byte counters count modulo this (2^32 in the code)
  Bodies,    \* payloads, named by positive numbers
  Sizes      \* byte lengths a caller may push

ASSUME CapAssumption ==
  /\ Cap \in Nat \ {0} /\ Cap % 8 = 0
  /\ Width \in Nat /\ Width >= 2 * Cap /\ Width % Cap = 0
  /\ Bodies \subseteq Nat \ {0} /\ Sizes \subseteq Nat \ {0}

VARIABLES
  hdr,        \* PacketRingHeader: head, tail, dropped (modulo 2 here)
  data,       \* the ring's words
  producer,   \* where push() stands, and its locals
  consumer,   \* where pop() stands, and its locals
  got         \* the record pop() returned last

ringVars == <<hdr, data, producer, consumer, got>>

-----------------------------------------------------------------------------
Pad(n) == ((n + 3) \div 4) * 4

Need(n) == 4 + Pad(n)

LengthWord(n) == <<n, 0>>

WrapMark == LengthWord(0)

Rec(body, n) == [len |-> n, words |-> [k \in 1..(Pad(n) \div 4) |-> <<body, k>>]]

Record == {Rec(b, n) : b \in Bodies, n \in Sizes}

Nothing == [len |-> 0, words |-> <<>>]

WordAt(pos) == data[pos \div 4]

Used == (hdr.head - hdr.tail) % Width

KeptOneWordMore(n) == n <= Cap \div 2     \* mutant: the length word forgotten

\* The records WorldInbox keeps for another try when the ring refuses them.
\* Every other caller, and an unreliable record, is dropped.
KeptForRetry(n) == n <= (Cap \div 2) - 4

NotPushing == [pc |-> "idle", item |-> Nothing, keep |-> FALSE, pos |-> 0, done |-> 0, next |-> 0]

NotPopping == [pc |-> "idle", tail |-> 0, seen |-> 0, out |-> Nothing]

RingInit ==
  /\ hdr = [head |-> 0, tail |-> 0, dropped |-> 0]
  /\ data = [i \in 0..(Cap \div 4 - 1) |-> WrapMark]
  /\ producer = NotPushing
  /\ consumer = NotPopping
  /\ got = Nothing

-----------------------------------------------------------------------------
(* push() *)

Offer ==
  /\ producer.pc = "idle"
  /\ \E b \in Bodies, n \in Sizes, keep \in BOOLEAN :
       /\ keep => KeptForRetry(n)
       /\ producer' = [producer EXCEPT !.pc = "try", !.item = Rec(b, n), !.keep = keep]
  /\ UNCHANGED <<hdr, data, consumer, got>>

\* The bytes left before the end of the memory, when the record cannot
\* start there.
Skip(n) ==
  LET pos == hdr.head % Cap
  IN  IF pos + Need(n) > Cap THEN Cap - pos ELSE 0

TooLong(n) == Need(n) > Cap \div 2

FitsWithoutGap(n) == Used + Need(n) <= Cap   \* mutant: the gap not counted

Fits(n) == Used + Skip(n) + Need(n) <= Cap

Drop ==
  /\ hdr' = [hdr EXCEPT !.dropped = (@ + 1) % 2]
  /\ UNCHANGED <<data, consumer, got>>

RefuseTooLong ==
  /\ producer.pc = "try" /\ TooLong(producer.item.len)
  /\ producer' = IF producer.keep THEN producer ELSE NotPushing
  /\ Drop

RefuseFull ==
  /\ producer.pc = "try"
  /\ ~TooLong(producer.item.len) /\ ~Fits(producer.item.len)
  /\ producer' = IF producer.keep THEN producer ELSE NotPushing
  /\ Drop

Reserve ==
  LET n == producer.item.len
  IN  /\ producer.pc = "try"
      /\ ~TooLong(n) /\ Fits(n)
      /\ producer' =
           [producer EXCEPT
              !.pc = IF Skip(n) > 0 THEN "mark" ELSE "length",
              !.pos = hdr.head % Cap,
              !.next = (hdr.head + Skip(n) + Need(n)) % Width]
      /\ UNCHANGED <<hdr, data, consumer, got>>

Mark ==
  /\ producer.pc = "mark"
  /\ data' = [data EXCEPT ![producer.pos \div 4] = WrapMark]
  /\ producer' = [producer EXCEPT !.pc = "length", !.pos = 0]
  /\ UNCHANGED <<hdr, consumer, got>>

WriteLengthPublishing ==      \* mutant: head is published before the payload
  /\ producer.pc = "length"
  /\ data' = [data EXCEPT ![producer.pos \div 4] = LengthWord(producer.item.len)]
  /\ hdr' = [hdr EXCEPT !.head = producer.next]
  /\ producer' = [producer EXCEPT !.pc = "copy"]
  /\ UNCHANGED <<consumer, got>>

WriteLength ==
  /\ producer.pc = "length"
  /\ data' = [data EXCEPT ![producer.pos \div 4] = LengthWord(producer.item.len)]
  /\ producer' = [producer EXCEPT !.pc = "copy"]
  /\ UNCHANGED <<hdr, consumer, got>>

\* memcpy, a word at a time.
WriteWord ==
  LET k == producer.done + 1
  IN  /\ producer.pc = "copy"
      /\ data' = [data EXCEPT ![producer.pos \div 4 + k] = producer.item.words[k]]
      /\ producer' = [producer EXCEPT
                        !.done = k,
                        !.pc = IF k = Len(producer.item.words) THEN "publish" ELSE "copy"]
      /\ UNCHANGED <<hdr, consumer, got>>

Publish ==
  /\ producer.pc = "publish"
  /\ hdr' = [hdr EXCEPT !.head = producer.next]
  /\ producer' = NotPushing
  /\ UNCHANGED <<data, consumer, got>>

-----------------------------------------------------------------------------
(* pop() *)

\* The two counters are read first; an empty ring ends the call at once.
Look ==
  /\ consumer.pc = "idle" /\ hdr.head # hdr.tail
  /\ consumer' = [consumer EXCEPT !.pc = "peek", !.tail = hdr.tail, !.seen = hdr.head]
  /\ UNCHANGED <<hdr, data, producer, got>>

AtMark == LET pos == consumer.tail % Cap IN Cap - pos < 4 \/ WordAt(pos)[1] = 0

PastGap == (consumer.tail + (Cap - (consumer.tail % Cap))) % Width

Peek ==
  /\ consumer.pc = "peek"
  /\ IF AtMark /\ PastGap = consumer.seen
       THEN /\ hdr' = [hdr EXCEPT !.tail = PastGap]
            /\ consumer' = NotPopping
       ELSE /\ consumer' = [consumer EXCEPT !.pc = "length",
                                            !.tail = IF AtMark THEN PastGap ELSE @]
            /\ UNCHANGED hdr
  /\ UNCHANGED <<data, producer, got>>

ReadLength ==
  /\ consumer.pc = "length"
  /\ consumer' = [consumer EXCEPT !.pc = "copy",
                                  !.out.len = WordAt(consumer.tail % Cap)[1]]
  /\ UNCHANGED <<hdr, data, producer, got>>

ReadWord ==
  LET k == Len(consumer.out.words) + 1
  IN  /\ consumer.pc = "copy"
      /\ consumer' = [consumer EXCEPT
                        !.out.words = Append(@, WordAt((consumer.tail % Cap) + 4 * k)),
                        !.pc = IF 4 * k >= consumer.out.len THEN "release" ELSE "copy"]
      /\ UNCHANGED <<hdr, data, producer, got>>

Release ==
  /\ consumer.pc = "release"
  /\ hdr' = [hdr EXCEPT !.tail = (consumer.tail + Need(consumer.out.len)) % Width]
  /\ got' = consumer.out
  /\ consumer' = NotPopping
  /\ UNCHANGED <<data, producer>>

-----------------------------------------------------------------------------
Push == RefuseTooLong \/ RefuseFull \/ Reserve \/ Mark \/ WriteLength \/ WriteWord \/ Publish

Pop == Look \/ Peek \/ ReadLength \/ ReadWord \/ Release

RingNext == Offer \/ Push \/ Pop

RingSpec == RingInit /\ [][RingNext]_ringVars

(***************************************************************************)
(* Both sides are called from loops that keep running: the runtime's tick   *)
(* flushes and drains, the game's frame hook drains and sends.  Nothing      *)
(* obliges a caller to offer another record.                                 *)
(***************************************************************************)
RingFairSpec == RingSpec /\ WF_ringVars(Push) /\ WF_ringVars(Pop)

-----------------------------------------------------------------------------
(* Between two positions of the ring there are records and gaps.  Torn is   *)
(* what pop() must never meet with left bytes to go: a record that is not   *)
(* all there or does not end within the memory, or a gap with nothing       *)
(* behind it.                                                               *)
Torn(n, pos, left) ==
  IF n = 0 THEN Cap - pos >= left ELSE Need(n) > left \/ pos + Need(n) > Cap

RecordAt(words, pos) ==
  LET n == words[pos \div 4][1]
  IN  [len |-> n, words |-> [k \in 1..(Pad(n) \div 4) |-> words[pos \div 4 + k]]]

(* The records in the last left bytes below head, as calls of pop() that    *)
(* began there would return them if the producer stopped here.              *)
Reading(words, head) ==
  LET from[left \in 0..Cap] ==
        LET pos == (head - left) % Cap
            n == words[pos \div 4][1]
        IN  IF left = 0 THEN <<>>
            ELSE IF Torn(n, pos, left) THEN <<Nothing>>
            ELSE IF n = 0 THEN from[left - (Cap - pos)]
            ELSE <<RecordAt(words, pos)>> \o from[left - Need(n)]
  IN  from

Unread == Reading(data, hdr.head)[Used]

(* Types, with the bound the whole ring rests on: never more than Cap bytes *)
(* between tail and head, gaps included.                                    *)
RingTypeOK ==
  /\ hdr \in [head : 0..(Width - 1), tail : 0..(Width - 1), dropped : 0..1]
  /\ data \in [0..(Cap \div 4 - 1) -> Nat \X Nat]
  /\ producer.pc \in {"idle", "try", "mark", "length", "copy", "publish"}
  /\ producer.item \in Record \cup {Nothing}
  /\ consumer.pc \in {"idle", "peek", "length", "copy", "release"}
  /\ got \in Record \cup {Nothing}
  /\ Used <= Cap

(* Behind the lock-free counters the ring is a queue: records come out      *)
(* whole, once and in order, wherever the other side stands (push(), pop(), *)
(* and the header comment of PacketRing.hpp).                               *)
Queue == INSTANCE RecordQueue WITH queue <- Unread

RefinesQueue == Queue!Spec

(* WorldInbox keeps a refused record at the head of its queue and tries it   *)
(* again before anything newer: that record goes through in the end, so it  *)
(* never blocks the session behind it.                                      *)
KeptRecordGoesThrough ==
  (producer.pc = "try" /\ producer.keep) ~> (producer.pc = "publish" /\ producer.keep)
=============================================================================
