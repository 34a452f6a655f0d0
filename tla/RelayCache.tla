----------------------------- MODULE RelayCache -----------------------------
(***************************************************************************)
(* SessionHost.cpp: what the relay keeps of the host's world, and what it     *)
(* replays of it to a seat that was not there.  A cache is a record; every    *)
(* operator below returns the one the handler leaves.                         *)
(*                                                                           *)
(* A room is its epoch.  An HP value is named by the sample it was read in,   *)
(* [epoch, seq].  Progress is the set of versions whose bytes are merged; a   *)
(* full update of version v carries 1..v.                                     *)
(***************************************************************************)
EXTENDS Integers, FiniteSets, Sequences, Functions, SequencesExt

NoRoom == 0

NoManifest == [epoch |-> 0, replace |-> FALSE, ids |-> {}]

EmptyCache == [room |-> NoRoom, hold |-> "None", manifest |-> NoManifest, hp |-> <<>>, hpSeq |-> 0,
               dead |-> {}, progress |-> {}, version |-> 0]


Cleared(c) == [c EXCEPT !.hold = "None", !.manifest = NoManifest, !.hp = <<>>, !.dead = {}]

\* What remains when the host's connection goes: the version word alone, and in a co-op campaign not that.
HostGone(c, campaign) == [EmptyCache EXCEPT !.version = IF campaign THEN 0 ELSE c.version]

\* A Player hello opens a world incarnation: its HP sequence starts again.
NewIncarnation(c) == [c EXCEPT !.hpSeq = 0]

OfRoom(c, m) == c.room # NoRoom /\ m.epoch = c.room

OfManifest(c, m) == OfRoom(c, m) /\ m.epoch = c.manifest.epoch

AdmitsRelabelled(c, m) ==    \* mutant: a sample is taken for the room at hand
  CASE m.t = "hold" \/ m.t = "manifest" -> OfRoom(c, m)
    [] m.t = "death"                    -> OfManifest(c, m)
    [] m.t = "hp"                       -> c.room # NoRoom /\ m.seq > c.hpSeq
    [] OTHER                            -> TRUE

Admits(c, m) ==
  CASE m.t = "hold" \/ m.t = "manifest" -> OfRoom(c, m)
    [] m.t = "death"                    -> OfManifest(c, m)
    [] m.t = "hp"                       -> OfManifest(c, m) /\ m.seq > c.hpSeq
    [] OTHER                            -> TRUE

Populated(c, m) ==
  IF m.replace \/ m.epoch # c.manifest.epoch
    THEN [c EXCEPT !.manifest = [epoch |-> m.epoch, replace |-> m.replace, ids |-> m.ids], !.hp = <<>>, !.dead = {}]
    ELSE [c EXCEPT !.manifest.ids = @ \cup m.ids]

SampledKeepsFirst(c, m) ==    \* mutant: an entry once kept is not replaced
  [c EXCEPT !.hpSeq = m.seq,
            !.hp = [i \in DOMAIN c.hp \cup DOMAIN m.hp |-> IF i \in DOMAIN c.hp THEN c.hp[i] ELSE m.hp[i]]]

\* The sample's entries over those kept: an enemy the sample leaves out keeps its last value.
Sampled(c, m) ==
  [c EXCEPT !.hpSeq = m.seq,
            !.hp = [i \in DOMAIN c.hp \cup DOMAIN m.hp |-> IF i \in DOMAIN m.hp THEN m.hp[i] ELSE c.hp[i]]]

TookKeepsDeaths(c, m) ==    \* mutant: a death is forwarded and not kept
  CASE m.t = "room"     -> [Cleared(c) EXCEPT !.room = m.epoch]
    [] m.t = "hold"     -> [c EXCEPT !.hold = IF m.active THEN "On" ELSE "Off"]
    [] m.t = "manifest" -> Populated(c, m)
    [] m.t = "hp"       -> Sampled(c, m)
    [] m.t = "death"    -> c
    [] m.t = "progress" -> [c EXCEPT !.progress = (IF m.full THEN {} ELSE @) \cup m.spans, !.version = m.version]

Took(c, m) ==
  CASE m.t = "room"     -> [Cleared(c) EXCEPT !.room = m.epoch]
    [] m.t = "hold"     -> [c EXCEPT !.hold = IF m.active THEN "On" ELSE "Off"]
    [] m.t = "manifest" -> Populated(c, m)
    [] m.t = "hp"       -> Sampled(c, m)
    [] m.t = "death"    -> [c EXCEPT !.dead = @ \cup {m.id}]
    [] m.t = "progress" -> [c EXCEPT !.progress = (IF m.full THEN {} ELSE @) \cup m.spans, !.version = m.version]

--------------------------------------------------------------------------
Only(condition, message) == IF condition THEN <<message>> ELSE <<>>

\* An append of nothing must not pass for a complete, empty room.
HasPopulation(c) == c.manifest.ids # {} \/ (c.manifest.replace /\ c.manifest.epoch # 0 /\ c.manifest.epoch = c.room)

InOrder(ids) == SetToSortSeq(ids, <)

DeathsOf(c) == [k \in 1..Cardinality(c.dead) |-> [t |-> "death", epoch |-> c.manifest.epoch, id |-> InOrder(c.dead)[k]]]

RoomState(c) ==
  <<[t |-> "room", epoch |-> c.room]>>
  \o Only(c.hold # "None", [t |-> "hold", epoch |-> c.room, active |-> c.hold = "On"])
  \o Only(HasPopulation(c), [t |-> "manifest", epoch |-> c.manifest.epoch, replace |-> TRUE, ids |-> c.manifest.ids])
  \o Only(c.hp # <<>>, [t |-> "hp", epoch |-> c.manifest.epoch, seq |-> c.hpSeq, hp |-> c.hp])
  \o DeathsOf(c)

WorldState(c) ==
  Only(c.progress # {}, [t |-> "progress", version |-> c.version, full |-> TRUE, spans |-> c.progress])
  \o (IF c.room = NoRoom THEN <<>> ELSE RoomState(c))
=============================================================================
