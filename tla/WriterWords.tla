----------------------------- MODULE WriterWords -----------------------------
(***************************************************************************)
(* The words of the WorldBridge mapping that say which runtime writes it    *)
(* (WorldBridge.hpp): session generation, writer incarnation and PID,        *)
(* heartbeat, and the terminal receipt.  Runtimes come and go; each store    *)
(* and each load is a step, and a runtime may die between any two of them.   *)
(*                                                                           *)
(* Runtimes are numbered in the order they start, and a runtime's number is   *)
(* its incarnation (its process creation time).  PIDs may be recycled.        *)
(***************************************************************************)
EXTENDS Integers, Sequences

CONSTANTS
  Last,      \* runtimes 1..Last may start
  Pid,       \* their process IDs, Pid[r]
  Nameless,  \* runtimes that cannot read their own creation time
  MaxGen     \* bound on the session generation

Runtimes == 1..Last

ASSUME WordsAssumption ==
  /\ Last \in Nat \ {0} /\ MaxGen \in Nat
  /\ Pid \in [Runtimes -> Nat \ {0}] /\ Nameless \subseteq Runtimes

VARIABLES
  mem,       \* the shared words
  rt         \* where each runtime stands

Incarnation(r) == IF r \in Nameless THEN 0 ELSE r

NoReceipt == <<0, 0>>

Unarmed == [gen |-> 0, inc |-> 0, pid |-> 0, beat |-> 0,
            term |-> NoReceipt, termInc |-> 0]

NotStarted == [pc |-> "off", tick |-> 0, seen |-> 0, opened |-> FALSE]

WordsInit ==
  /\ mem = Unarmed
  /\ rt = [r \in Runtimes |-> NotStarted]

Alive(r) == rt[r].pc \notin {"off", "dead"}

\* The mapping has one writer: a runtime with a successor starts nothing new.
Current(r) == \A s \in Runtimes : s > r => rt[s].pc = "off"

\* Runtime r stands at `from' and goes on at `to'.
Goes(r, from, to) == rt[r].pc = from /\ rt' = [rt EXCEPT ![r].pc = to]

Store(word, value) == mem' = [mem EXCEPT ![word] = value]

-----------------------------------------------------------------------------
(* Attaching: the first tick with an open mapping. *)

Start(r) ==
  /\ \A s \in 1..(r - 1) : rt[s].pc # "off"
  /\ \A s \in Runtimes : Alive(s) => Pid[s] # Pid[r]
  /\ Goes(r, "off", "clear")
  /\ UNCHANGED mem

ClearThenAdvance(r) ==                 \* mutant: the generation is opened before the first pulse
  /\ Goes(r, "clear", "advance")
  /\ Store("term", NoReceipt)

ClearTerminal(r) ==
  /\ Goes(r, "clear", "pulse")
  /\ Store("term", NoReceipt)

\* The generation an attached runtime opens is its own from here on.
Opens(r) ==
  /\ Current(r) /\ mem.gen < MaxGen
  /\ mem' = [mem EXCEPT !.gen = @ + 1]
  /\ rt' = [rt EXCEPT ![r].pc = "run", ![r].opened = TRUE]

Advance(r) == rt[r].pc = "advance" /\ Opens(r)

-----------------------------------------------------------------------------
(* PulseRuntimeWriter: the tick is read, then three stores in this order. *)

BeginPulse(r) == Current(r) /\ Goes(r, "run", "pulse") /\ UNCHANGED mem

TakeTick(r, now) ==
  /\ rt[r].pc = "pulse"
  /\ rt' = [rt EXCEPT ![r].pc = "inc", ![r].tick = now]
  /\ UNCHANGED mem

StoreFreshness(r) ==                   \* mutant: the heartbeat goes out with the incarnation
  /\ Goes(r, "inc", "pid")
  /\ mem' = [mem EXCEPT !.inc = Incarnation(r), !.beat = rt[r].tick]

StoreIncarnation(r) ==
  /\ Goes(r, "inc", "pid")
  /\ Store("inc", Incarnation(r))

StorePid(r) == Goes(r, "pid", "beat") /\ Store("pid", Pid[r])

StoreBeat(r) ==
  /\ rt[r].pc = "beat"
  /\ rt' = [rt EXCEPT ![r].pc = IF rt[r].opened THEN "run" ELSE "advance", ![r].tick = 0]
  /\ mem' = [mem EXCEPT !.beat = rt[r].tick]

-----------------------------------------------------------------------------
(* The main loop: a new session, and the receipt while networking is over. *)

NewSession(r) == rt[r].pc = "run" /\ Opens(r)

\* PublishNetworkTerminal of a runtime that knows its incarnation.
LoadGeneration(r) ==
  /\ Current(r) /\ rt[r].pc = "run" /\ Incarnation(r) # 0
  /\ rt' = [rt EXCEPT ![r].pc = "compare", ![r].seen = mem.gen]
  /\ UNCHANGED mem

Packed(r) == <<Pid[r], rt[r].seen>>

CompareReceipt(r) ==
  /\ Goes(r, "compare", IF mem.term = Packed(r) THEN "compareInc" ELSE "erase")
  /\ UNCHANGED mem

CompareIncarnation(r) ==
  /\ Goes(r, "compareInc", IF mem.termInc = Incarnation(r) THEN "run" ELSE "erase")
  /\ UNCHANGED mem

EraseReceipt(r) == Goes(r, "erase", "stamp") /\ Store("term", NoReceipt)

StampReceipt(r) == Goes(r, "stamp", "commit") /\ Store("termInc", Incarnation(r))

CommitReceipt(r) == Goes(r, "commit", "run") /\ Store("term", Packed(r))

\* PublishNetworkTerminal of a runtime that does not: it retires any receipt.
RetireReceipt(r) ==
  /\ Current(r) /\ Incarnation(r) = 0
  /\ Goes(r, "run", "run")
  /\ Store("term", NoReceipt)

Die(r) ==
  /\ Alive(r)
  /\ rt' = [rt EXCEPT ![r].pc = "dead"]
  /\ UNCHANGED mem

WriteTerminal(r) ==
  \/ LoadGeneration(r) \/ CompareReceipt(r) \/ CompareIncarnation(r)
  \/ EraseReceipt(r) \/ StampReceipt(r) \/ CommitReceipt(r) \/ RetireReceipt(r)

RuntimeStep(r, now) ==
  \/ Start(r) \/ ClearTerminal(r) \/ Advance(r)
  \/ BeginPulse(r) \/ TakeTick(r, now) \/ StoreIncarnation(r) \/ StorePid(r) \/ StoreBeat(r)
  \/ NewSession(r) \/ Die(r)

-----------------------------------------------------------------------------
(* ReadWriter: seven loads.  The view counts when identity and generation   *)
(* read the same before and after the heartbeat.                            *)
ViewScript == <<"gen", "inc", "pid", "beat", "pid", "inc", "gen">>
=============================================================================
