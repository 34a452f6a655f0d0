----------------------------- MODULE WriterLease -----------------------------
(***************************************************************************)
(* RuntimeWriterLive(): threads of the game ask whether the mapping's writer *)
(* is alive (EnemySync.cpp), through one RuntimeWriterLease that retires a    *)
(* session generation for good once its writer went silent or changed PID.    *)
(*                                                                           *)
(* A call is a writer view (seven loads), the clock, the lease's two words    *)
(* and a second view; other threads and the runtimes step in between.  The    *)
(* CAS loops on the lease's words each take effect in one step: the load that *)
(* decides, or the exchange that succeeds.  Generations do not wrap.          *)
(***************************************************************************)
EXTENDS WriterWords, FiniteSets

CONSTANTS
  Thread,     \* threads of the game that call RuntimeWriterLive
  Timeout,    \* RuntimeWriterLease::TimeoutMs in ticks of the model's clock
  MaxNow      \* bound on the clock

ASSUME LeaseAssumption == Timeout \in Nat /\ MaxNow \in Nat

VARIABLES
  call,       \* each thread's call
  lease,      \* retired_ and binding_
  now,        \* GetTickCount
  died,       \* history: when each runtime died
  late        \* history: a pulse or a call took longer than it should, or
              \* a runtime attached before its predecessor was gone

leaseVars == <<call, lease, now, died, late>>
vars == <<mem, rt, leaseVars>>

NoBinding == <<0, 0>>

View == [gen |-> 0, inc |-> 0, pid |-> 0, beat |-> 0]

Idle == [pc |-> "view", done |-> 0, view |-> View, gen |-> 0, pid |-> 0, beat |-> 0,
         clock |-> 0,
         floor |-> 0]     \* history: what was retired when the call began

Init ==
  /\ WordsInit
  /\ call = [t \in Thread |-> Idle]
  /\ lease = [retired |-> 0, binding |-> NoBinding]
  /\ now = 0
  /\ died = [r \in Runtimes |-> 0]
  /\ late = FALSE

-----------------------------------------------------------------------------
(* The two views of a call.  A call that answers no leaves nothing behind:   *)
(* its thread is as if it had not asked.                                     *)

Set(t, record) == call' = [call EXCEPT ![t] = record]

Viewing(t) == call[t].pc \in {"view", "second"}

Word(t) == ViewScript[call[t].done + 1]

\* Loads 1 to 4 fill the view, ...
Fill(t) ==
  LET c == call[t]
  IN  /\ Viewing(t) /\ c.done < 4
      /\ Set(t, [c EXCEPT !.done = @ + 1, !.view[Word(t)] = mem[Word(t)],
                         !.floor = IF c = Idle THEN lease.retired ELSE @])
      /\ UNCHANGED lease

\* ... the last three have to repeat it.
Repeat(t) ==
  LET c == call[t]
  IN  /\ Viewing(t) /\ c.done \in 4..(Len(ViewScript) - 1)
      /\ \/ mem[Word(t)] = c.view[Word(t)] /\ Set(t, [c EXCEPT !.done = @ + 1])
         \/ mem[Word(t)] # c.view[Word(t)] /\ Set(t, Idle)
      /\ UNCHANGED lease

Viewed(t) == Viewing(t) /\ call[t].done = Len(ViewScript)

\* Called with an expectedGeneration that is not the one viewed.
OtherGeneration(t) ==
  /\ Viewed(t) /\ call[t].pc = "view"
  /\ Set(t, Idle)
  /\ UNCHANGED lease

ReadClock(t) ==
  LET c == call[t]
  IN  /\ Viewed(t) /\ c.pc = "view"
      /\ Set(t, [c EXCEPT !.pc = "check", !.clock = now, !.done = 0, !.view = View,
                          !.gen = c.view.gen, !.pid = c.view.pid, !.beat = c.view.beat])
      /\ UNCHANGED lease

Confirm(t) ==
  LET c == call[t]
      confirmed == c.view.gen = c.gen /\ c.view.pid = c.pid
  IN  /\ Viewed(t) /\ c.pc = "second"
      /\ \/ confirmed /\ Set(t, [c EXCEPT !.pc = "yes", !.view = View])
         \/ ~confirmed /\ Set(t, Idle)
      /\ UNCHANGED lease

-----------------------------------------------------------------------------
(* RuntimeWriterLease::Available *)

Fresh(c) == c.pid # 0 /\ c.clock - c.beat <= Timeout

NeverTombstoned(c) == FALSE            \* mutant: retired_ is not looked at

Tombstoned(c) == c.gen # 0 /\ c.gen <= lease.retired

\* The tombstone, and the calls that need no binding.
CheckRetired(t) ==
  LET c == call[t]
      GoTo(pc) == Set(t, [c EXCEPT !.pc = pc])
  IN  /\ c.pc = "check"
      /\ \/ c.gen = 0 /\ (c.pid = 0 \/ Fresh(c)) /\ GoTo("second")
         \/ c.gen = 0 /\ ~(c.pid = 0 \/ Fresh(c)) /\ Set(t, Idle)
         \/ c.gen # 0 /\ Tombstoned(c) /\ Set(t, Idle)
         \/ c.gen # 0 /\ ~Tombstoned(c) /\ c.pid # 0 /\ GoTo("bind")
         \/ c.gen # 0 /\ ~Tombstoned(c) /\ c.pid = 0 /\ GoTo("retire")
      /\ UNCHANGED lease

BindingAdmits(c) ==
  lease.binding[1] < c.gen \/ lease.binding = <<c.gen, c.pid>>

Bind(t) ==
  LET c == call[t]
  IN  /\ c.pc = "bind"
      /\ \/ BindingAdmits(c) /\ Fresh(c) /\ Set(t, [c EXCEPT !.pc = "second"])
         \/ ~(BindingAdmits(c) /\ Fresh(c)) /\ Set(t, [c EXCEPT !.pc = "retire"])
      /\ lease' = [lease EXCEPT !.binding = IF BindingAdmits(c) THEN <<c.gen, c.pid>> ELSE @]

RetireNext(t) ==                       \* mutant: the generation after is retired too
  /\ call[t].pc = "retire"
  /\ Set(t, Idle)
  /\ lease' = [lease EXCEPT !.retired = call[t].gen + 1]

Retire(t) ==
  LET c == call[t]
  IN  /\ c.pc = "retire"
      /\ Set(t, Idle)
      /\ lease' = [lease EXCEPT !.retired = IF c.gen > @ THEN c.gen ELSE @]

AskAgain(t) ==
  /\ call[t].pc = "yes"
  /\ Set(t, Idle)
  /\ UNCHANGED lease

RuntimeWriterLive(t) ==
  /\ \/ Fill(t) \/ Repeat(t) \/ OtherGeneration(t) \/ ReadClock(t)
     \/ CheckRetired(t) \/ Bind(t) \/ Retire(t) \/ Confirm(t) \/ AskAgain(t)
  /\ UNCHANGED <<mem, rt, now, died, late>>

-----------------------------------------------------------------------------
Runtime ==
  /\ \E r \in Runtimes : RuntimeStep(r, now)
  /\ died' = [r \in Runtimes |->
               IF rt'[r].pc = "dead" /\ rt[r].pc # "dead" THEN now ELSE died[r]]
  /\ late' = (late \/ \E r, s \in Runtimes : r # s /\ Alive(r)' /\ Alive(s)')
  /\ UNCHANGED <<call, lease, now>>

\* Past the heartbeat load and before the clock read.
Suspended(t) == call[t].pc = "view" /\ call[t].done >= 4

\* From the tick of its first pulse on, and the newest tick it has to show.
Attached(r) == Alive(r) /\ (rt[r].opened \/ rt[r].pc \notin {"clear", "pulse"})

Shown(r) == IF rt[r].opened \/ rt[r].pc = "advance" THEN mem.beat ELSE rt[r].tick

\* Punctual: an attached runtime shows a tick within Timeout, and no call is
\* suspended between its heartbeat load and its clock read.
Punctual ==
  /\ \A r \in Runtimes : Attached(r) => now + 1 - Shown(r) <= Timeout
  /\ \A t \in Thread : ~Suspended(t)

Tick ==
  /\ now < MaxNow
  /\ now' = now + 1
  /\ late' = (late \/ ~Punctual)
  /\ UNCHANGED <<mem, rt, call, lease, died>>

Next == (\E t \in Thread : RuntimeWriterLive(t)) \/ Runtime \/ Tick

Spec == Init /\ [][Next]_vars

-----------------------------------------------------------------------------
TypeOK ==
  /\ lease.retired \in 0..mem.gen /\ lease.binding \in (0..mem.gen) \X Nat
  /\ mem.gen \in 0..MaxGen /\ mem.beat \in 0..now /\ now \in 0..MaxNow
  /\ \A t \in Thread :
       /\ call[t].pc \in {"view", "check", "bind", "retire", "second", "yes"}
       /\ call[t].done \in 0..Len(ViewScript)
       /\ call[t].clock \in 0..now

Answered(t) == call[t].pc = "yes"

(* Once a generation is retired, no call that begins later finds it live,    *)
(* even if its writer pulses again and whichever thread was late with an      *)
(* older view (Available).                                                    *)
RetiredForGood ==
  \A t \in Thread : Answered(t) /\ call[t].gen # 0 => call[t].gen > call[t].floor

(* Two threads that find the same generation live agree on who writes it.    *)
OneWriterPerGeneration ==
  \A t, u \in Thread :
    Answered(t) /\ Answered(u) /\ call[t].gen = call[u].gen /\ call[t].gen # 0
      => call[t].pid = call[u].pid

(* A writer found live was alive no longer than Timeout before the call read *)
(* the clock: the heartbeat of a successor never passes for its own           *)
(* (WritePulse publishes identity before freshness).                          *)
LiveIsRecent ==
  \A t \in Thread : Answered(t) /\ call[t].pid # 0 =>
    \E r \in Runtimes : /\ Pid[r] = call[t].pid /\ rt[r].pc # "off"
                        /\ rt[r].pc = "dead" => call[t].clock - died[r] <= Timeout

(* A punctual runtime keeps the generation it opened: nothing a predecessor   *)
(* left in the words, however long ago it died, retires it (the attach order   *)
(* of RuntimeMain.cpp: the pulse before AdvanceSessionGeneration).             *)
PunctualKeepsLease ==
  ~late => \A r \in Runtimes : Alive(r) /\ rt[r].opened => lease.retired < mem.gen
=============================================================================
