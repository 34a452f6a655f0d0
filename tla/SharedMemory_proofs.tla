----------------------- MODULE SharedMemory_proofs -----------------------
(***************************************************************************)
(* Proofs about the memory a runtime and the injected DLL share: the writer   *)
(* words, which runtime may be trusted and whether it ended, and the rings    *)
(* that carry the packets.                                                    *)
(*                                                                           *)
(* The writer lease is proved about for any number of threads, runtimes,      *)
(* process IDs, generations and any timeout: recycled PIDs, overlapping and   *)
(* unpunctual runtimes and suspended calls included.                          *)
(*                                                                           *)
(* The argument: retired_ and the bound generation only grow.  A call that    *)
(* got past the tombstone carries a generation above what was retired when    *)
(* it began; a call that got past the binding carries the PID now bound, or   *)
(* its generation is below the bound one and can be bound by nobody again.    *)
(***************************************************************************)
EXTENDS WriterLease, TerminalReceipt, PacketRing,
        TLAPS, NaturalsInduction, WellFoundedInduction, SequenceTheorems

ViewType == [gen : Nat, inc : Nat, pid : Nat, beat : Nat]

CallType ==
  [pc : {"view", "check", "bind", "retire", "second", "yes"}, done : 0..7,
   view : ViewType, gen : Nat, pid : Nat, beat : Nat, clock : Nat, floor : Nat]

RuntimePC ==
  {"off", "clear", "pulse", "inc", "pid", "beat", "advance", "run", "dead",
   "compare", "compareInc", "erase", "stamp", "commit"}

RuntimeType == [pc : RuntimePC, tick : Nat, seen : Nat, opened : BOOLEAN]

MemType == [gen : Nat, inc : Nat, pid : Nat, beat : Nat,
            term : Nat \X Nat, termInc : Nat]

WordsOK ==
  /\ mem \in MemType /\ mem.gen <= MaxGen /\ mem.beat <= now
  /\ rt \in [Runtimes -> RuntimeType]
  /\ \A r \in Runtimes : rt[r].tick <= now
  /\ now \in 0..MaxNow

LeaseOK ==
  /\ lease \in [retired : Nat, binding : Nat \X Nat]
  /\ lease.retired <= mem.gen /\ lease.binding[1] <= mem.gen

\* A call never carries what has not happened, and above the tombstone it
\* carries a generation that was not retired when it began.
CallOK(c) ==
  /\ c.view.gen <= mem.gen /\ c.gen <= mem.gen /\ c.clock <= now
  /\ c.floor <= lease.retired
  /\ c.pc \in {"bind", "second", "yes"} /\ c.gen # 0 => c.floor < c.gen

\* A call past the binding.
Bound(c) == c.pc \in {"second", "yes"} /\ c.gen # 0

BindingKept(c) ==
  Bound(c) => c.gen < lease.binding[1] \/ lease.binding = <<c.gen, c.pid>>

Agree(c, d) == Bound(c) /\ Bound(d) /\ c.gen = d.gen => c.pid = d.pid

IInv ==
  /\ WordsOK
  /\ LeaseOK
  /\ call \in [Thread -> CallType]
  /\ \A t \in Thread : CallOK(call[t]) /\ BindingKept(call[t])
  /\ \A t, u \in Thread : Agree(call[t], call[u])

-----------------------------------------------------------------------------
LEMMA Constants ==
    /\ Last \in Nat \ {0} /\ MaxGen \in Nat /\ MaxNow \in Nat
    /\ Pid \in [Runtimes -> Nat \ {0}]
    /\ \A r \in Runtimes : r \in Nat /\ Incarnation(r) \in Nat
    BY WordsAssumption, LeaseAssumption DEF Runtimes, Incarnation

LEMMA IdleIs ==
    /\ Idle \in CallType
    /\ Idle.pc = "view" /\ Idle.gen = 0 /\ Idle.view.gen = 0
    /\ Idle.clock = 0 /\ Idle.floor = 0
    BY DEF Idle, View, CallType, ViewType

LEMMA ViewScriptIs ==
    /\ Len(ViewScript) = 7
    /\ ViewScript[1] = "gen" /\ ViewScript[2] = "inc"
    /\ ViewScript[3] = "pid" /\ ViewScript[4] = "beat"
    BY DEF ViewScript

LEMMA InitIInv == Init => IInv
<1> SUFFICES ASSUME Init PROVE IInv
  OBVIOUS
<1>1. WordsOK
  <2>1. mem \in MemType /\ mem.gen = 0 /\ mem.beat = 0
    BY DEF Init, WordsInit, Unarmed, NoReceipt, MemType
  <2>2. NotStarted \in RuntimeType /\ NotStarted.tick = 0
    BY DEF NotStarted, RuntimeType, RuntimePC
  <2>3. rt \in [Runtimes -> RuntimeType] /\ \A r \in Runtimes : rt[r].tick = 0
    BY <2>2 DEF Init, WordsInit
  <2> QED
    BY <2>1, <2>3, Constants DEF Init, WordsOK
<1>2. LeaseOK
  BY DEF Init, WordsInit, Unarmed, NoBinding, LeaseOK
<1>3. call \in [Thread -> CallType] /\ \A t \in Thread : call[t] = Idle
  BY IdleIs DEF Init
<1>4. mem.gen = 0 /\ lease.retired = 0 /\ now = 0
  BY DEF Init, WordsInit, Unarmed
<1>5. CallOK(Idle) /\ ~Bound(Idle)
  BY <1>4, IdleIs DEF CallOK, Bound
<1> QED
  BY <1>1, <1>2, <1>3, <1>5 DEF IInv, BindingKept, Agree

-----------------------------------------------------------------------------
(* What a step of one thread has to show about the call it leaves. *)

Replaces(t, d) ==
  /\ call' = [call EXCEPT ![t] = d]
  /\ UNCHANGED <<mem, rt, now>>

LEMMA OneCall ==
    ASSUME IInv, NEW t \in Thread, NEW d \in CallType, Replaces(t, d),
           LeaseOK', lease.retired <= lease'.retired,
           lease'.binding = lease.binding \/ lease.binding[1] < lease'.binding[1],
           CallOK(d)', BindingKept(d)',
           \A u \in Thread : Agree(d, call[u])
    PROVE  IInv'
<1>1. WordsOK'
  BY DEF IInv, Replaces, WordsOK
<1>2. call' \in [Thread -> CallType]
  BY DEF IInv, Replaces
<1>3. call'[t] = d /\ \A u \in Thread \ {t} : call'[u] = call[u]
  BY DEF IInv, Replaces
<1>4. ASSUME NEW u \in Thread PROVE CallOK(call[u])' /\ BindingKept(call[u])'
  <2>1. CASE u = t
    BY <2>1, <1>3
  <2>2. CASE u # t
    <3>1. CallOK(call[u]) /\ BindingKept(call[u]) /\ call[u] \in CallType
      BY DEF IInv
    <3>2. CallOK(call[u])'
      <4>1. call[u].floor \in Nat /\ lease.retired \in Nat /\ lease'.retired \in Nat
        BY <3>1 DEF CallType, IInv, LeaseOK
      <4>2. call'[u] = call[u]
        BY <2>2, <1>3
      <4> QED
        BY <3>1, <4>1, <4>2 DEF CallOK, Replaces
    <3>3. BindingKept(call[u])'
      <4>1. call[u].gen \in Nat /\ lease.binding \in Nat \X Nat /\ lease'.binding \in Nat \X Nat
        BY <3>1 DEF CallType, IInv, LeaseOK
      <4>2. call'[u] = call[u]
        BY <2>2, <1>3
      <4> QED
        BY <3>1, <4>1, <4>2 DEF BindingKept, Bound
    <3> QED
      BY <2>2, <1>3, <3>2, <3>3
  <2> QED
    BY <2>1, <2>2
<1>5. ASSUME NEW u \in Thread, NEW v \in Thread PROVE Agree(call'[u], call'[v])
  BY <1>3 DEF IInv, Agree
<1> QED
  BY <1>1, <1>2, <1>4, <1>5 DEF IInv

\* A call that is over leaves its thread idle.
LEMMA OverIsFine ==
    ASSUME IInv, NEW t \in Thread, Replaces(t, Idle), LeaseOK',
           lease.retired <= lease'.retired, lease'.binding = lease.binding
    PROVE  IInv'
<1> SUFFICES ASSUME NEW d \in CallType, d = Idle PROVE IInv'
  BY IdleIs
<1>1. CallOK(d)' /\ ~Bound(d)
  BY IdleIs DEF CallOK, Bound, IInv, LeaseOK, WordsOK, MemType, Replaces
<1>2. BindingKept(d)' /\ \A u \in Thread : Agree(d, call[u])
  BY <1>1 DEF BindingKept, Agree, Bound
<1> QED
  BY <1>1, <1>2, OneCall

-----------------------------------------------------------------------------
(* The steps of a call. *)

LEMMA CallIs ==
    ASSUME IInv, NEW t \in Thread
    PROVE  /\ call[t] \in CallType /\ call[t].view \in ViewType
           /\ CallOK(call[t]) /\ BindingKept(call[t])
           /\ \A u \in Thread : Agree(call[t], call[u])
           /\ mem.gen \in Nat /\ mem.inc \in Nat /\ mem.pid \in Nat /\ mem.beat \in Nat
           /\ lease.retired \in Nat /\ now \in Nat
    BY Constants DEF IInv, CallType, WordsOK, MemType, LeaseOK

\* A step that leaves the lease alone and moves the call to d.
LEMMA LeaseUntouched ==
    ASSUME IInv, NEW t \in Thread, NEW d \in CallType, Replaces(t, d), UNCHANGED lease,
           CallOK(d), BindingKept(d), \A u \in Thread : Agree(d, call[u])
    PROVE  IInv'
<1>1. LeaseOK' /\ lease.retired <= lease'.retired
  BY DEF IInv, LeaseOK, Replaces
<1>2. CallOK(d)' /\ BindingKept(d)'
  BY DEF CallOK, BindingKept, Replaces
<1> QED
  BY <1>1, <1>2, OneCall

\* A call that is over and left the lease alone.
LEMMA OverUntouched ==
    ASSUME IInv, NEW t \in Thread, Replaces(t, Idle), UNCHANGED lease
    PROVE  IInv'
<1>1. LeaseOK' /\ lease.retired <= lease'.retired /\ lease'.binding = lease.binding
  BY DEF IInv, LeaseOK, Replaces
<1> QED
  BY <1>1, OverIsFine

\* A call that only goes on to pc.
LEMMA GoesOn ==
    ASSUME NEW c \in CallType, NEW d,
           NEW pc \in {"bind", "retire", "second"}, d = [c EXCEPT !.pc = pc]
    PROVE  /\ d \in CallType
           /\ d.pc = pc /\ d.gen = c.gen /\ d.pid = c.pid /\ d.clock = c.clock
           /\ d.view = c.view /\ d.floor = c.floor
    BY DEF CallType

LEMMA FillStep ==
    ASSUME IInv, NEW t \in Thread, Fill(t), UNCHANGED <<mem, rt, now>>
    PROVE  IInv'
<1> SUFFICES ASSUME NEW c, c = call[t],
                    NEW w, w = Word(t),
                    NEW k, k = c.done + 1,
                    NEW v, v = [c.view EXCEPT ![w] = mem[w]],
                    NEW n, n = IF c = Idle THEN lease.retired ELSE c.floor,
                    NEW d, d = [c EXCEPT !.done = k, !.view = v, !.floor = n]
             PROVE  IInv'
  OBVIOUS
<1>1. c \in CallType /\ c.done \in {0, 1, 2, 3}
  BY CallIs DEF Fill, CallType
<1>2. w \in {"gen", "inc", "pid", "beat"}
  BY <1>1, ViewScriptIs DEF Word
<1>3. Replaces(t, d) /\ UNCHANGED lease
  BY <1>1 DEF Fill, Set, Replaces, CallType
<1>4. mem[w] \in Nat
  BY <1>2, CallIs
<1>5. v \in ViewType /\ v.gen <= mem.gen
  BY <1>2, <1>4, CallIs DEF ViewType, CallOK
<1>6. n \in Nat /\ n <= lease.retired /\ k \in 0..7
  BY <1>1, CallIs DEF CallOK, CallType
<1>7. /\ d \in CallType
      /\ d.pc = c.pc /\ d.gen = c.gen /\ d.pid = c.pid /\ d.clock = c.clock
      /\ d.view = v /\ d.floor = n
  BY <1>1, <1>5, <1>6 DEF CallType
<1>8. c = Idle => c.pc = "view"
  BY IdleIs
<1>9. CallOK(d)
  BY <1>5, <1>6, <1>7, <1>8, CallIs DEF CallOK
<1>10. BindingKept(d) /\ \A u \in Thread : Agree(d, call[u])
  BY <1>7, CallIs DEF BindingKept, Bound, Agree
<1> QED
  BY <1>3, <1>7, <1>9, <1>10, LeaseUntouched

LEMMA RepeatStep ==
    ASSUME IInv, NEW t \in Thread, Repeat(t), UNCHANGED <<mem, rt, now>>
    PROVE  IInv'
<1> DEFINE c == call[t]
           d == [c EXCEPT !.done = c.done + 1]
<1>1. c \in CallType /\ c.done \in 4..6
  BY CallIs, ViewScriptIs DEF Repeat
<1>2. Replaces(t, d) \/ Replaces(t, Idle)
  BY DEF Repeat, Set, Replaces
<1>3. UNCHANGED lease
  BY DEF Repeat
<1>4. /\ d \in CallType
      /\ d.pc = c.pc /\ d.gen = c.gen /\ d.pid = c.pid /\ d.clock = c.clock
      /\ d.view = c.view /\ d.floor = c.floor
  BY <1>1 DEF CallType
<1>5. CallOK(d) /\ BindingKept(d) /\ \A u \in Thread : Agree(d, call[u])
  BY <1>4, CallIs DEF CallOK, BindingKept, Bound, Agree
<1> HIDE DEF d
<1> QED
  BY <1>2, <1>3, <1>4, <1>5, LeaseUntouched, OverUntouched

LEMMA OverStep ==
    ASSUME IInv, NEW t \in Thread, OtherGeneration(t) \/ AskAgain(t), UNCHANGED <<mem, rt, now>>
    PROVE  IInv'
<1>1. Replaces(t, Idle) /\ UNCHANGED lease
  BY DEF OtherGeneration, AskAgain, Set, Replaces
<1> QED
  BY <1>1, OverUntouched

LEMMA ReadClockStep ==
    ASSUME IInv, NEW t \in Thread, ReadClock(t), UNCHANGED <<mem, rt, now>>
    PROVE  IInv'
<1> SUFFICES ASSUME NEW c, c = call[t],
                    NEW k, k = 0, NEW v, v = View, NEW x, x = now,
                    NEW g, g = c.view.gen, NEW p, p = c.view.pid, NEW b, b = c.view.beat,
                    NEW d, d = [c EXCEPT !.pc = "check", !.clock = x, !.done = k, !.view = v,
                                         !.gen = g, !.pid = p, !.beat = b]
             PROVE  IInv'
  OBVIOUS
<1>1. Replaces(t, d) /\ UNCHANGED lease
  BY DEF ReadClock, Set, Replaces
<1>2. v \in ViewType /\ v.gen = 0
  BY DEF View, ViewType
<1>3. /\ g \in Nat /\ p \in Nat /\ b \in Nat /\ x \in Nat /\ k \in 0..7
      /\ c \in CallType
  BY CallIs DEF ViewType
<1>4. /\ d \in CallType
      /\ d.pc = "check" /\ d.gen = g /\ d.clock = x
      /\ d.view = v /\ d.floor = c.floor
  BY <1>2, <1>3 DEF CallType
<1>5. CallOK(d) /\ ~Bound(d)
  BY <1>2, <1>3, <1>4, CallIs DEF CallOK, Bound
<1> QED
  BY <1>1, <1>4, <1>5, LeaseUntouched DEF BindingKept, Agree

LEMMA ConfirmStep ==
    ASSUME IInv, NEW t \in Thread, Confirm(t), UNCHANGED <<mem, rt, now>>
    PROVE  IInv'
<1> DEFINE c == call[t]
           d == [c EXCEPT !.pc = "yes", !.view = View]
<1>1. c.pc = "second" /\ UNCHANGED lease
  BY DEF Confirm
<1>2. Replaces(t, d) \/ Replaces(t, Idle)
  BY DEF Confirm, Set, Replaces
<1>3. View \in ViewType /\ View.gen = 0
  BY DEF View, ViewType
<1>4. /\ d \in CallType
      /\ d.pc = "yes" /\ d.gen = c.gen /\ d.pid = c.pid /\ d.clock = c.clock
      /\ d.view = View /\ d.floor = c.floor
  BY <1>3, CallIs DEF CallType
<1>5. CallOK(d)
  BY <1>1, <1>3, <1>4, CallIs DEF CallOK
<1>6. BindingKept(d) /\ \A u \in Thread : Agree(d, call[u])
  BY <1>1, <1>4, CallIs DEF BindingKept, Bound, Agree
<1> HIDE DEF d
<1> QED
  BY <1>1, <1>2, <1>4, <1>5, <1>6, LeaseUntouched, OverUntouched

LEMMA CheckRetiredStep ==
    ASSUME IInv, NEW t \in Thread, CheckRetired(t), UNCHANGED <<mem, rt, now>>
    PROVE  IInv'
<1> DEFINE c == call[t]
           D(pc) == [c EXCEPT !.pc = pc]
<1>1. UNCHANGED lease
  BY DEF CheckRetired
<1>2. c.gen \in Nat /\ c.floor \in Nat /\ lease.retired \in Nat
  BY CallIs DEF CallType
<1>3. \/ Replaces(t, Idle)
      \/ c.gen = 0 /\ Replaces(t, D("second"))
      \/ c.gen > lease.retired /\ Replaces(t, D("bind"))
      \/ Replaces(t, D("retire"))
  BY <1>2 DEF CheckRetired, Tombstoned, Set, Replaces
<1>4. ASSUME NEW pc \in {"bind", "retire", "second"}, NEW d, d = D(pc), Replaces(t, d),
             pc = "second" => c.gen = 0, pc = "bind" => c.gen > lease.retired
      PROVE  IInv'
  <2>1. /\ d \in CallType
        /\ d.pc = pc /\ d.gen = c.gen /\ d.pid = c.pid /\ d.clock = c.clock
        /\ d.view = c.view /\ d.floor = c.floor
    BY <1>4, CallIs, GoesOn
  <2>2. CallOK(d) /\ ~Bound(d)
    BY <1>2, <1>4, <2>1, CallIs DEF CallOK, Bound
  <2> QED
    BY <1>1, <1>4, <2>1, <2>2, LeaseUntouched DEF BindingKept, Agree
<1> QED
  BY <1>1, <1>3, <1>4, OverUntouched

LEMMA BindStep ==
    ASSUME IInv, NEW t \in Thread, Bind(t), UNCHANGED <<mem, rt, now>>
    PROVE  IInv'
<1> DEFINE c == call[t]
           D(pc) == [c EXCEPT !.pc = pc]
<1>1. /\ c.pc = "bind" /\ c.gen \in Nat /\ c.pid \in Nat
      /\ lease \in [retired : Nat, binding : Nat \X Nat]
  BY CallIs DEF Bind, CallType, IInv, LeaseOK
<1>2. /\ lease'.retired = lease.retired
      /\ lease'.binding = IF BindingAdmits(c) THEN <<c.gen, c.pid>> ELSE lease.binding
      /\ lease' \in [retired : Nat, binding : Nat \X Nat]
  BY <1>1 DEF Bind
<1>3. LeaseOK'
  BY <1>1, <1>2, CallIs DEF LeaseOK, IInv, CallOK
<1>4. lease'.binding = lease.binding \/ lease.binding[1] < lease'.binding[1]
  BY <1>1, <1>2 DEF BindingAdmits
<1>5. ASSUME NEW pc \in {"retire", "second"}, NEW d, d = D(pc), Replaces(t, d),
             pc = "second" => BindingAdmits(c)
      PROVE  IInv'
  <2>1. /\ d \in CallType
        /\ d.pc = pc /\ d.gen = c.gen /\ d.pid = c.pid /\ d.clock = c.clock
        /\ d.view = c.view /\ d.floor = c.floor
    BY <1>5, CallIs, GoesOn
  <2>3. CallOK(d)'
    BY <1>1, <1>2, <1>5, <2>1, CallIs DEF CallOK, Replaces
  <2>4. BindingKept(d)'
    BY <1>2, <1>5, <2>1 DEF BindingKept, Bound
  <2>5. ASSUME NEW u \in Thread PROVE Agree(d, call[u])
    <3>1. BindingKept(call[u]) /\ call[u].gen \in Nat
      BY CallIs DEF CallType
    <3> QED
      BY <1>1, <1>5, <2>1, <3>1 DEF Agree, BindingKept, Bound, BindingAdmits
  <2> QED
    BY <1>1, <1>2, <1>3, <1>4, <1>5, <2>1, <2>3, <2>4, <2>5, OneCall
<1> QED
  BY <1>5 DEF Bind, Set, Replaces

LEMMA RetireStep ==
    ASSUME IInv, NEW t \in Thread, Retire(t), UNCHANGED <<mem, rt, now>>
    PROVE  IInv'
<1>1. Replaces(t, Idle)
  BY DEF Retire, Set, Replaces
<1>2. /\ lease \in [retired : Nat, binding : Nat \X Nat]
      /\ call[t].gen \in Nat /\ call[t].gen <= mem.gen
  BY CallIs DEF IInv, LeaseOK, CallType, CallOK
<1>3. /\ lease' \in [retired : Nat, binding : Nat \X Nat]
      /\ lease'.binding = lease.binding
      /\ lease'.retired = IF call[t].gen > lease.retired THEN call[t].gen ELSE lease.retired
  BY <1>2 DEF Retire
<1>4. LeaseOK' /\ lease.retired <= lease'.retired
  BY <1>2, <1>3 DEF LeaseOK, IInv
<1> QED
  BY <1>1, <1>3, <1>4, OverIsFine

LEMMA CallStep ==
    ASSUME IInv, NEW t \in Thread, RuntimeWriterLive(t)
    PROVE  IInv'
    BY FillStep, RepeatStep, OverStep, ReadClockStep, CheckRetiredStep, BindStep,
       RetireStep, ConfirmStep DEF RuntimeWriterLive

-----------------------------------------------------------------------------
(* The steps of the runtimes and of the clock. *)

\* What a runtime's step leaves of the words: they keep their types, the
\* generation never goes back, and no tick is ahead of the clock.
MemMoves(m) == m \in MemType /\ mem.gen <= m.gen /\ m.gen <= MaxGen /\ m.beat <= now

LEMMA GoesOnAt ==
    ASSUME WordsOK, NEW r \in Runtimes, NEW from, NEW to \in RuntimePC, Goes(r, from, to)
    PROVE  /\ rt' \in [Runtimes -> RuntimeType]
           /\ \A s \in Runtimes : rt'[s].tick <= now
    BY DEF WordsOK, Goes, RuntimeType

LEMMA RuntimeStepMoves ==
    ASSUME WordsOK, NEW r \in Runtimes, RuntimeStep(r, now)
    PROVE  /\ MemMoves(mem')
           /\ rt' \in [Runtimes -> RuntimeType]
           /\ \A s \in Runtimes : rt'[s].tick <= now
<1>0. /\ mem \in MemType /\ MemMoves(mem)
      /\ rt[r] \in RuntimeType /\ rt[r].tick <= now /\ now \in Nat /\ MaxGen \in Nat
      /\ Pid[r] \in Nat /\ r \in Nat /\ Incarnation(r) \in Nat
  BY Constants DEF WordsOK, MemType, MemMoves
<1>1. CASE Start(r)
  BY <1>0, <1>1, GoesOnAt DEF Start, RuntimePC
<1>2. CASE ClearTerminal(r)
  <2>1. MemMoves(mem')
    BY <1>0, <1>2 DEF ClearTerminal, Store, NoReceipt, MemMoves, MemType
  <2> QED
    BY <1>2, <2>1, GoesOnAt DEF ClearTerminal, RuntimePC
<1>3. CASE Opens(r)
  <2>1. MemMoves(mem')
    BY <1>0, <1>3 DEF Opens, MemMoves, MemType
  <2> QED
    BY <1>3, <2>1 DEF Opens, WordsOK, RuntimeType, RuntimePC
<1>4. CASE BeginPulse(r)
  BY <1>0, <1>4, GoesOnAt DEF BeginPulse, RuntimePC
<1>5. CASE TakeTick(r, now)
  <2>1. "inc" \in RuntimePC /\ UNCHANGED mem
    BY <1>5 DEF TakeTick, RuntimePC
  <2>2. rt'[r] \in RuntimeType /\ rt'[r].tick = now
    BY <1>0, <1>5, <2>1 DEF TakeTick, WordsOK, RuntimeType
  <2>3. rt' = [rt EXCEPT ![r] = rt'[r]]
    BY <1>5 DEF TakeTick, WordsOK
  <2> QED
    BY <1>0, <2>1, <2>2, <2>3 DEF WordsOK
<1>6. CASE StoreIncarnation(r)
  <2>1. MemMoves(mem')
    BY <1>0, <1>6 DEF StoreIncarnation, Store, MemMoves, MemType
  <2> QED
    BY <1>6, <2>1, GoesOnAt DEF StoreIncarnation, RuntimePC
<1>7. CASE StorePid(r)
  <2>1. MemMoves(mem')
    BY <1>0, <1>7 DEF StorePid, Store, MemMoves, MemType
  <2> QED
    BY <1>7, <2>1, GoesOnAt DEF StorePid, RuntimePC
<1>8. CASE StoreBeat(r)
  <2>1. MemMoves(mem')
    BY <1>0, <1>8 DEF StoreBeat, MemMoves, MemType, RuntimeType
  <2>2. SUFFICES ASSUME NEW pc \in RuntimePC, NEW z \in Nat, z = 0,
                        rt' = [rt EXCEPT ![r].pc = pc, ![r].tick = z]
                 PROVE  /\ rt' \in [Runtimes -> RuntimeType]
                        /\ \A s \in Runtimes : rt'[s].tick <= now
    BY <1>8, <2>1 DEF StoreBeat, RuntimePC
  <2>3. rt'[r] \in RuntimeType /\ rt'[r].tick <= now
    <3>1. rt'[r] = [rt[r] EXCEPT !.pc = pc, !.tick = z]
      BY <2>2 DEF WordsOK
    <3>2. /\ [rt[r] EXCEPT !.pc = pc, !.tick = z] \in RuntimeType
          /\ [rt[r] EXCEPT !.pc = pc, !.tick = z].tick = z
      BY <1>0, <2>2 DEF RuntimeType
    <3>3. z <= now
      BY <1>0, <2>2
    <3> QED
      BY <3>1, <3>2, <3>3, Zenon
  <2>4. rt' = [rt EXCEPT ![r] = rt'[r]]
    BY <2>2 DEF WordsOK
  <2> QED
    BY <2>3, <2>4 DEF WordsOK
<1>9. CASE Die(r)
  BY <1>0, <1>9 DEF Die, WordsOK, RuntimeType, RuntimePC
<1> QED
  BY <1>1, <1>2, <1>3, <1>4, <1>5, <1>6, <1>7, <1>8, <1>9 DEF RuntimeStep, Advance, NewSession

\* Neither a runtime nor the clock can spoil what a call knows.
LEMMA OthersStep ==
    ASSUME IInv, UNCHANGED <<call, lease>>, WordsOK', mem.gen <= mem'.gen, now <= now'
    PROVE  IInv'
<1>1. mem.gen \in Nat /\ mem'.gen \in Nat /\ now \in Nat /\ now' \in Nat
  BY Constants DEF IInv, WordsOK, MemType
<1>2. LeaseOK'
  BY <1>1 DEF IInv, LeaseOK
<1>3. ASSUME NEW t \in Thread PROVE CallOK(call[t])' /\ BindingKept(call[t])'
  <2>1. /\ call[t] \in CallType /\ call[t].view \in ViewType
        /\ CallOK(call[t]) /\ BindingKept(call[t])
    BY CallIs
  <2>2. call[t].view.gen \in Nat /\ call[t].gen \in Nat /\ call[t].clock \in Nat
    BY <2>1 DEF CallType, ViewType
  <2> QED
    BY <1>1, <2>1, <2>2 DEF CallOK, BindingKept
<1> QED
  BY <1>2, <1>3 DEF IInv

LEMMA NextIInv == IInv /\ [Next]_vars => IInv'
<1> SUFFICES ASSUME IInv, [Next]_vars PROVE IInv'
  OBVIOUS
<1>1. CASE \E t \in Thread : RuntimeWriterLive(t)
  BY <1>1, CallStep
<1>2. CASE Runtime
  <2>1. PICK r \in Runtimes : RuntimeStep(r, now)
    BY <1>2 DEF Runtime
  <2>2. WordsOK' /\ mem.gen <= mem'.gen
    BY <1>2, <2>1, RuntimeStepMoves DEF Runtime, MemMoves, WordsOK, IInv
  <2>3. now \in Nat
    BY DEF IInv, WordsOK
  <2> QED
    BY <1>2, <2>2, <2>3, OthersStep DEF Runtime
<1>3. CASE Tick
  <2>1. /\ mem \in MemType /\ rt \in [Runtimes -> RuntimeType]
        /\ now \in Nat /\ MaxNow \in Nat
    BY Constants DEF IInv, WordsOK
  <2>2. WordsOK' /\ mem.gen <= mem'.gen /\ now <= now'
    BY <1>3, <2>1 DEF Tick, WordsOK, IInv, MemType, RuntimeType
  <2> QED
    BY <1>3, <2>2, OthersStep DEF Tick
<1>4. CASE UNCHANGED vars
  BY <1>4, OthersStep DEF vars, leaseVars, IInv, WordsOK, MemType
<1> QED
  BY <1>1, <1>2, <1>3, <1>4 DEF Next

THEOREM Inductive == Spec => []IInv
  BY InitIInv, NextIInv, PTL DEF Spec

(* The words and the lease keep their types: no call carries a generation    *)
(* that was never opened or a clock reading ahead of the clock, and no        *)
(* generation is bound or retired before it was opened (AdvanceSessionGeneration, *)
(* RuntimeWriterLease::Available).                                            *)
THEOREM TypeCorrect == Spec => []TypeOK
<1>1. IInv => TypeOK
  <2> SUFFICES ASSUME IInv PROVE TypeOK
    OBVIOUS
  <2>1. mem.gen \in 0..MaxGen /\ mem.beat \in 0..now /\ now \in 0..MaxNow
    BY Constants DEF IInv, WordsOK, MemType
  <2>2. lease.retired \in 0..mem.gen /\ lease.binding \in (0..mem.gen) \X Nat
    <3>1. lease.retired \in 0..mem.gen
      BY <2>1 DEF IInv, LeaseOK
    <3>2. lease.binding \in Nat \X Nat /\ lease.binding[1] \in 0..mem.gen
      BY <2>1 DEF IInv, LeaseOK
    <3> QED
      BY <3>1, <3>2
  <2>3. ASSUME NEW t \in Thread
        PROVE  /\ call[t].pc \in {"view", "check", "bind", "retire", "second", "yes"}
               /\ call[t].done \in 0..Len(ViewScript)
               /\ call[t].clock \in 0..now
    BY <2>1, CallIs, ViewScriptIs DEF CallType, CallOK
  <2> QED
    BY <2>1, <2>2, <2>3 DEF TypeOK
<1> QED
  BY <1>1, Inductive, PTL

(* A generation that was retired before a call began is never found live by  *)
(* that call, however the threads interleave and whatever its writer does     *)
(* afterwards (RuntimeWriterLive, RuntimeWriterLease::Available).             *)
THEOREM RetirementIsFinal == Spec => []RetiredForGood
<1>1. IInv => RetiredForGood
  <2> SUFFICES ASSUME IInv, NEW t \in Thread, Answered(t), call[t].gen # 0
               PROVE  call[t].gen > call[t].floor
    BY DEF RetiredForGood
  <2> QED
    BY CallIs DEF Answered, CallOK, CallType
<1> QED
  BY <1>1, Inductive, PTL

(* Two threads that found one generation live found one writer for it,       *)
(* whichever PIDs the runtimes had (RuntimeWriterLease::Available).           *)
THEOREM BindingIsUnique == Spec => []OneWriterPerGeneration
<1>1. IInv => OneWriterPerGeneration
  BY DEF IInv, OneWriterPerGeneration, Answered, Agree, Bound
<1> QED
  BY <1>1, Inductive, PTL

-----------------------------------------------------------------------------
(* The lease and time: a writer found live was alive within the timeout, and *)
(* a punctual one keeps the generation it opened.  Whoever's PID is in the    *)
(* words lives, or died no earlier than any tick that is in the words or      *)
(* about to be stored there, because the PID goes out before the heartbeat.   *)
(* And while everybody is punctual only one runtime is alive, so that a view  *)
(* of the generation it opened shows its PID and a heartbeat no older than    *)
(* the timeout.                                                               *)

\* A runtime with this PID lives, or died no earlier than this tick.
Vouched(pid, beat) ==
  \E r \in Runtimes : /\ Pid[r] = pid /\ rt[r].pc # "off"
                      /\ rt[r].pc = "dead" => beat <= died[r]

WordsVouched ==
  mem.pid # 0 =>
    /\ Vouched(mem.pid, mem.beat)
    /\ \A r \in Runtimes : rt[r].pc = "beat" => Vouched(mem.pid, rt[r].tick)

\* What the loads of a view have shown.
ViewVouched(c) ==
  /\ c.view.beat <= now
  /\ c.done = 4 /\ mem.pid # 0 => Vouched(mem.pid, c.view.beat)
  /\ c.done >= 5 /\ c.view.pid # 0 => Vouched(c.view.pid, c.view.beat)

\* What a call carries past its first view.
CallVouched(c) ==
  /\ c.beat <= now
  /\ c.pc # "view" /\ c.pid # 0 => Vouched(c.pid, c.beat)
  /\ c.pc \in {"second", "yes"} /\ c.pid # 0 => c.clock - c.beat <= Timeout

TInv ==
  /\ IInv
  /\ died \in [Runtimes -> Nat]
  /\ WordsVouched
  /\ \A t \in Thread : ViewVouched(call[t]) /\ CallVouched(call[t])

\* While everybody is punctual: the one runtime that is alive, ...
WriterOK(r) ==
  /\ rt[r].opened \/ rt[r].pc \in {"beat", "advance"} => mem.pid = Pid[r]
  /\ rt[r].opened /\ rt[r].pc \in {"inc", "pid", "beat"} => mem.beat <= rt[r].tick
  /\ Attached(r) => now - Shown(r) <= Timeout

\* ... the lease once it has opened its generation, ...
LeaseKept(r) ==
  /\ lease.retired < mem.gen
  /\ lease.binding[1] < mem.gen \/ lease.binding = <<mem.gen, Pid[r]>>

\* ... and the calls that view or carry that generation.
CallKept(c, r) ==
  /\ c.gen = mem.gen =>
       /\ c.pc \in {"check", "bind"} => c.pid = Pid[r] /\ c.clock - c.beat <= Timeout
       /\ c.pc # "retire"
  /\ c.view.gen = mem.gen =>
       /\ c.done >= 3 => c.view.pid = Pid[r]
       /\ c.pc = "view" /\ c.done >= 4 => now - c.view.beat <= Timeout

\* Who has opened a generation.
OpenedOK ==
  \A r \in Runtimes : /\ rt[r].opened => rt[r].pc # "off" /\ mem.gen > 0
                      /\ rt[r].pc = "run" => rt[r].opened

Alone == \A r, s \in Runtimes : Alive(r) /\ Alive(s) => r = s

PInv ==
  /\ TInv /\ OpenedOK /\ late \in BOOLEAN
  /\ ~late =>
       /\ Alone
       /\ \A r \in Runtimes : Alive(r) =>
            /\ WriterOK(r)
            /\ rt[r].opened => LeaseKept(r) /\ \A t \in Thread : CallKept(call[t], r)

-----------------------------------------------------------------------------
(* What a step of a runtime does. *)

Move(a, b) ==
  \/ a = "off" /\ b = "clear"
  \/ a = "clear" /\ b = "pulse"
  \/ a = "pulse" /\ b = "inc"
  \/ a = "inc" /\ b = "pid"
  \/ a = "pid" /\ b = "beat"
  \/ a = "beat" /\ b \in {"advance", "run"}
  \/ a = "advance" /\ b = "run"
  \/ a = "run" /\ b \in {"pulse", "run"}
  \/ a \notin {"off", "dead"} /\ b = "dead"

OpensIt(r) ==
  /\ rt[r].pc \in {"advance", "run"} /\ rt'[r].pc = "run"
  /\ mem'.gen = mem.gen + 1 /\ rt'[r].opened

Steps(r) ==
  /\ rt' \in [Runtimes -> RuntimeType] /\ mem' \in MemType
  /\ \A s \in Runtimes \ {r} : rt'[s] = rt[s]
  /\ Move(rt[r].pc, rt'[r].pc)
  /\ rt'[r].pc = "inc" => rt'[r].tick = now
  /\ rt'[r].pc \in {"pid", "beat"} => rt'[r].tick = rt[r].tick
  /\ mem'.pid = IF rt[r].pc = "pid" /\ rt'[r].pc = "beat" THEN Pid[r] ELSE mem.pid
  /\ mem'.beat = IF rt[r].pc = "beat" /\ rt'[r].pc # "dead" THEN rt[r].tick ELSE mem.beat
  /\ OpensIt(r) \/ (mem'.gen = mem.gen /\ rt'[r].opened = rt[r].opened)
  /\ rt'[r].pc = "run" => rt'[r].opened

LEMMA GoesIs ==
    ASSUME WordsOK, NEW r \in Runtimes, NEW a, NEW b \in RuntimePC, Goes(r, a, b)
    PROVE  /\ rt[r].pc = a /\ rt'[r].pc = b
           /\ rt' \in [Runtimes -> RuntimeType]
           /\ \A s \in Runtimes \ {r} : rt'[s] = rt[s]
           /\ rt'[r].opened = rt[r].opened /\ rt'[r].tick = rt[r].tick
<1>1. rt[r] \in RuntimeType
  BY DEF WordsOK
<1>2. rt' = [rt EXCEPT ![r] = [rt[r] EXCEPT !.pc = b]] /\ rt[r].pc = a
  BY DEF Goes
<1>3. /\ [rt[r] EXCEPT !.pc = b] \in RuntimeType
      /\ [rt[r] EXCEPT !.pc = b].pc = b
      /\ [rt[r] EXCEPT !.pc = b].opened = rt[r].opened
      /\ [rt[r] EXCEPT !.pc = b].tick = rt[r].tick
  BY <1>1 DEF RuntimeType
<1> QED
  BY <1>2, <1>3 DEF WordsOK

LEMMA StoreIs ==
    ASSUME WordsOK, NEW w \in {"inc", "pid", "beat"}, NEW v \in Nat, Store(w, v)
    PROVE  /\ mem' \in MemType /\ mem'.gen = mem.gen
           /\ mem'.pid = IF w = "pid" THEN v ELSE mem.pid
           /\ mem'.beat = IF w = "beat" THEN v ELSE mem.beat
    BY DEF WordsOK, Store, MemType

LEMMA AttachIs ==
    ASSUME WordsOK, NEW r \in Runtimes, Start(r) \/ ClearTerminal(r) \/ BeginPulse(r)
    PROVE  Steps(r)
<1> USE DEF Steps, Move
<1>1. CASE Start(r) \/ BeginPulse(r)
  BY <1>1, GoesIs DEF Start, BeginPulse, RuntimePC, WordsOK
<1>2. CASE ClearTerminal(r)
  <2>1. mem' \in MemType /\ mem'.gen = mem.gen /\ mem'.pid = mem.pid /\ mem'.beat = mem.beat
    BY <1>2 DEF ClearTerminal, Store, NoReceipt, WordsOK, MemType
  <2> QED
    BY <1>2, <2>1, GoesIs DEF ClearTerminal, RuntimePC
<1> QED
  BY <1>1, <1>2

LEMMA OpensIs ==
    ASSUME WordsOK, NEW r \in Runtimes, Opens(r), rt[r].pc \in {"advance", "run"}
    PROVE  Steps(r)
<1>1. rt[r] \in RuntimeType /\ mem \in MemType
  BY DEF WordsOK
<1> DEFINE q == [rt[r] EXCEPT !.pc = "run", !.opened = TRUE]
<1>2. q \in RuntimeType /\ q.pc = "run" /\ q.opened
  BY <1>1 DEF RuntimeType, RuntimePC
<1>3. rt' = [rt EXCEPT ![r] = q] /\ mem' = [mem EXCEPT !.gen = mem.gen + 1]
  BY <1>1 DEF Opens, WordsOK, RuntimeType
<1> HIDE DEF q
<1>4. /\ mem' \in MemType /\ mem'.gen = mem.gen + 1
      /\ mem'.pid = mem.pid /\ mem'.beat = mem.beat
  BY <1>1, <1>3 DEF MemType
<1>5. rt' \in [Runtimes -> RuntimeType] /\ rt'[r] = q /\ \A s \in Runtimes \ {r} : rt'[s] = rt[s]
  BY <1>2, <1>3 DEF WordsOK
<1> QED
  BY <1>2, <1>4, <1>5 DEF Steps, Move, OpensIt

LEMMA PulseIs ==
    ASSUME WordsOK, NEW r \in Runtimes,
           TakeTick(r, now) \/ StoreIncarnation(r) \/ StorePid(r) \/ StoreBeat(r)
    PROVE  Steps(r)
<1> USE DEF Steps, Move
<1>0. rt[r] \in RuntimeType /\ mem \in MemType /\ now \in Nat
  BY DEF WordsOK
<1>1. CASE TakeTick(r, now)
  <2> DEFINE q == [rt[r] EXCEPT !.pc = "inc", !.tick = now]
  <2>1. q \in RuntimeType /\ q.pc = "inc" /\ q.opened = rt[r].opened /\ q.tick = now
    BY <1>0 DEF RuntimeType, RuntimePC
  <2>2. rt' = [rt EXCEPT ![r] = q] /\ rt[r].pc = "pulse" /\ UNCHANGED mem
    BY <1>1 DEF TakeTick
  <2> HIDE DEF q
  <2> QED
    BY <2>1, <2>2 DEF WordsOK
<1>2. CASE StoreIncarnation(r)
  BY <1>2, GoesIs, StoreIs, Constants DEF StoreIncarnation, RuntimePC
<1>3. CASE StorePid(r)
  BY <1>3, GoesIs, StoreIs, Constants DEF StorePid, RuntimePC
<1>4. CASE StoreBeat(r)
  <2> DEFINE b == IF rt[r].opened THEN "run" ELSE "advance"
             q == [rt[r] EXCEPT !.pc = b, !.tick = 0]
  <2>1. q \in RuntimeType /\ q.pc = b /\ q.opened = rt[r].opened
    BY <1>0 DEF RuntimeType, RuntimePC
  <2>2. /\ rt' = [rt EXCEPT ![r] = q] /\ rt[r].pc = "beat"
        /\ mem' = [mem EXCEPT !.beat = rt[r].tick]
    BY <1>4 DEF StoreBeat
  <2> HIDE DEF q
  <2>3. rt' \in [Runtimes -> RuntimeType] /\ rt'[r] = q /\ \A s \in Runtimes \ {r} : rt'[s] = rt[s]
    BY <2>1, <2>2 DEF WordsOK
  <2>4. /\ mem' \in MemType /\ mem'.gen = mem.gen /\ mem'.pid = mem.pid
        /\ mem'.beat = rt[r].tick
    BY <1>0, <2>2 DEF MemType, RuntimeType
  <2> QED
    BY <2>1, <2>2, <2>3, <2>4
<1> QED
  BY <1>1, <1>2, <1>3, <1>4

LEMMA RuntimeIs ==
    ASSUME WordsOK, NEW r \in Runtimes, RuntimeStep(r, now)
    PROVE  Steps(r)
<1>1. CASE Die(r)
  <2>1. rt[r] \in RuntimeType
    BY DEF WordsOK
  <2> DEFINE q == [rt[r] EXCEPT !.pc = "dead"]
  <2>2. q \in RuntimeType /\ q.pc = "dead" /\ q.opened = rt[r].opened
    BY <2>1 DEF RuntimeType, RuntimePC
  <2>3. rt' = [rt EXCEPT ![r] = q] /\ rt[r].pc \notin {"off", "dead"} /\ UNCHANGED mem
    BY <1>1 DEF Die, Alive
  <2> HIDE DEF q
  <2> QED
    BY <2>2, <2>3 DEF WordsOK, Steps, Move
<1> QED
  BY <1>1, AttachIs, OpensIs, PulseIs DEF RuntimeStep, Advance, NewSession

\* No step of a runtime takes a voucher away.
LEMMA StillVouched ==
    ASSUME WordsOK, died \in [Runtimes -> Nat], Runtime, NEW r \in Runtimes, Steps(r),
           NEW p, NEW b \in Nat, b <= now, Vouched(p, b)
    PROVE  Vouched(p, b)'
<1> PICK s \in Runtimes : Pid[s] = p /\ rt[s].pc # "off" /\ (rt[s].pc = "dead" => b <= died[s])
  BY DEF Vouched
<1>1. died'[s] = IF rt'[s].pc = "dead" /\ rt[s].pc # "dead" THEN now ELSE died[s]
  BY DEF Runtime
<1>2. rt'[s].pc # "off" /\ (rt[s].pc = "dead" => rt'[s].pc = "dead")
  BY DEF Steps, Move
<1> QED
  BY <1>1, <1>2 DEF Vouched

\* The runtime whose pulse put its PID into the words is alive.
LEMMA OwnVoucher ==
    ASSUME NEW r \in Runtimes, rt'[r].pc \notin {"off", "dead"}, NEW b
    PROVE  Vouched(Pid[r], b)'
    BY DEF Vouched

-----------------------------------------------------------------------------
(* Vouchers: the runtimes and the clock. *)

LEMMA TypesAre ==
    ASSUME IInv
    PROVE  /\ WordsOK /\ mem \in MemType /\ now \in Nat /\ mem.beat <= now
           /\ mem.gen \in Nat /\ mem.pid \in Nat /\ mem.beat \in Nat
           /\ \A r \in Runtimes : rt[r] \in RuntimeType /\ rt[r].tick \in Nat /\ rt[r].tick <= now
           /\ \A t \in Thread :
                /\ call[t] \in CallType /\ call[t].view \in ViewType
                /\ call[t].view.beat \in Nat /\ call[t].view.pid \in Nat /\ call[t].view.gen \in Nat
                /\ call[t].beat \in Nat /\ call[t].pid \in Nat /\ call[t].gen \in Nat
                /\ call[t].clock \in Nat /\ call[t].done \in 0..7
    BY Constants DEF IInv, WordsOK, MemType, RuntimeType, CallType, ViewType

LEMMA RuntimeVouched ==
    ASSUME TInv, Runtime, NEW r \in Runtimes, Steps(r)
    PROVE  /\ died' \in [Runtimes -> Nat]
           /\ WordsVouched'
           /\ \A t \in Thread : ViewVouched(call[t])' /\ CallVouched(call[t])'
<1>0. IInv /\ WordsOK /\ died \in [Runtimes -> Nat] /\ now \in Nat /\ UNCHANGED <<call, now>>
  BY TypesAre DEF TInv, Runtime
<1>1. died' \in [Runtimes -> Nat]
  BY <1>0 DEF Runtime
<1>2. ASSUME NEW p, NEW b \in Nat, b <= now, Vouched(p, b) PROVE Vouched(p, b)'
  BY <1>0, <1>2, StillVouched
<1>3. CASE rt[r].pc = "pid" /\ rt'[r].pc = "beat"
  <2>1. mem'.pid = Pid[r] /\ \A b : Vouched(Pid[r], b)'
    BY <1>3, OwnVoucher DEF Steps
  <2>2. WordsVouched'
    BY <2>1 DEF WordsVouched
  <2>3. ASSUME NEW t \in Thread PROVE ViewVouched(call[t])' /\ CallVouched(call[t])'
    BY <1>0, <1>2, <2>1, TypesAre DEF TInv, ViewVouched, CallVouched
  <2> QED
    BY <1>1, <2>2, <2>3
<1>4. CASE ~(rt[r].pc = "pid" /\ rt'[r].pc = "beat")
  <2>1. mem'.pid = mem.pid
    BY <1>4 DEF Steps
  <2>2. \A s \in Runtimes : rt'[s].pc = "beat" => rt'[s] = rt[s]
    BY <1>4 DEF Steps, Move
  <2>3. ASSUME NEW b \in {mem'.beat} \cup {rt'[s].tick : s \in {x \in Runtimes : rt'[x].pc = "beat"}},
               mem.pid # 0
        PROVE  Vouched(mem.pid, b) /\ b \in Nat /\ b <= now
    <3>1. CASE b \in {mem.beat, rt[r].tick} /\ (b = mem.beat \/ rt[r].pc = "beat")
      BY <1>0, <2>3, <3>1, TypesAre DEF TInv, WordsVouched
    <3>2. CASE \E s \in Runtimes : rt'[s].pc = "beat" /\ b = rt'[s].tick
      BY <1>0, <2>2, <2>3, <3>2, TypesAre DEF TInv, WordsVouched
    <3> QED
      BY <2>3, <3>1, <3>2 DEF Steps
  <2>4. ASSUME NEW b \in {mem'.beat} \cup {rt'[s].tick : s \in {x \in Runtimes : rt'[x].pc = "beat"}},
               NEW p, p = mem'.pid, p # 0
        PROVE  Vouched(p, b)'
    BY <1>2, <2>1, <2>3, <2>4
  <2>5. WordsVouched'
    BY <2>4 DEF WordsVouched, Vouched
  <2>6. ASSUME NEW t \in Thread PROVE ViewVouched(call[t])' /\ CallVouched(call[t])'
    BY <1>0, <1>2, <2>1, TypesAre DEF TInv, ViewVouched, CallVouched
  <2> QED
    BY <1>1, <2>5, <2>6
<1> QED
  BY <1>3, <1>4

LEMMA SameVouchers ==
    ASSUME UNCHANGED <<rt, died>>, NEW p, NEW b
    PROVE  Vouched(p, b)' <=> Vouched(p, b)
    BY DEF Vouched

LEMMA QuietVouched ==
    ASSUME TInv, UNCHANGED <<mem, rt, died, call>>, now' \in Nat, now <= now'
    PROVE  /\ died' \in [Runtimes -> Nat]
           /\ WordsVouched'
           /\ \A t \in Thread : ViewVouched(call[t])' /\ CallVouched(call[t])'
<1>1. \A p, b : Vouched(p, b)' <=> Vouched(p, b)
  BY SameVouchers
<1>2. WordsVouched'
  BY <1>1 DEF TInv, WordsVouched
<1>3. ASSUME NEW t \in Thread PROVE ViewVouched(call[t])' /\ CallVouched(call[t])'
  BY <1>1, TypesAre DEF TInv, ViewVouched, CallVouched
<1> QED
  BY <1>2, <1>3 DEF TInv

-----------------------------------------------------------------------------
(* What a step of a call does to it: c becomes d. *)

Loaded(c, d) ==
  /\ c.done \in 0..3 /\ d.done = c.done + 1
  /\ d.view.gen = IF c.done = 0 THEN mem.gen ELSE c.view.gen
  /\ d.view.pid = IF c.done = 2 THEN mem.pid ELSE c.view.pid
  /\ d.view.beat = IF c.done = 3 THEN mem.beat ELSE c.view.beat
  /\ d.pc = c.pc /\ d.gen = c.gen /\ d.pid = c.pid /\ d.beat = c.beat /\ d.clock = c.clock

Repeated(c, d) ==
  /\ c.done \in 4..6 /\ d.done = c.done + 1 /\ d.view = c.view
  /\ c.done = 4 => mem.pid = c.view.pid
  /\ d.pc = c.pc /\ d.gen = c.gen /\ d.pid = c.pid /\ d.beat = c.beat /\ d.clock = c.clock

Clocked(c, d) ==
  /\ c.done = 7 /\ c.pc = "view" /\ d.pc = "check" /\ d.done = 0 /\ d.view = View
  /\ d.gen = c.view.gen /\ d.pid = c.view.pid /\ d.beat = c.view.beat /\ d.clock = now

\* A call that goes on past its first view, and what the lease says to it.
Admitted(c, d) ==
  \/ /\ c.pc = "check" /\ UNCHANGED lease
     /\ \/ d.pc = "second" /\ (c.pid = 0 \/ Fresh(c))
        \/ d.pc = "bind"
        \/ d.pc = "retire" /\ c.pid = 0
  \/ /\ c.pc = "bind" /\ d.pc = "second" /\ Fresh(c) /\ BindingAdmits(c)
     /\ lease'.retired = lease.retired /\ lease'.binding = <<c.gen, c.pid>>
  \/ /\ c.pc = "bind" /\ d.pc = "retire" /\ BindingAdmits(c) /\ ~Fresh(c)
     /\ lease'.retired = lease.retired /\ lease'.binding = <<c.gen, c.pid>>
  \/ /\ c.pc = "bind" /\ d.pc = "retire" /\ ~BindingAdmits(c)
     /\ UNCHANGED lease
  \/ c.pc = "second" /\ d.pc = "yes" /\ UNCHANGED lease

GoneOn(c, d) ==
  /\ Admitted(c, d)
  /\ d.done = c.done /\ (d.view = c.view \/ (c.done = 7 /\ d.view = View))
  /\ d.gen = c.gen /\ d.pid = c.pid /\ d.beat = c.beat /\ d.clock = c.clock

Ended(c, d) ==
  /\ d = Idle
  /\ UNCHANGED lease \/
     (c.pc = "retire" /\ lease'.binding = lease.binding
      /\ lease'.retired = IF c.gen > lease.retired THEN c.gen ELSE lease.retired)

CallMoves(t) ==
  LET c == call[t]
      d == call'[t]
  IN  \/ (Loaded(c, d) \/ Repeated(c, d) \/ Clocked(c, d)) /\ UNCHANGED lease
      \/ GoneOn(c, d) \/ Ended(c, d)

LEMMA ScriptEnd == ViewScript[5] = "pid"
    BY DEF ViewScript

LEMMA SetIs ==
    ASSUME IInv, NEW t \in Thread, NEW d, Set(t, d)
    PROVE  call'[t] = d
    BY DEF IInv, Set

LEMMA ViewMoves ==
    ASSUME IInv, NEW t \in Thread, Fill(t) \/ Repeat(t) \/ ReadClock(t)
    PROVE  CallMoves(t)
<1> DEFINE c == call[t]
<1>0. c \in CallType /\ c.view \in ViewType /\ c.done \in 0..7
  BY TypesAre
<1>1. CASE Fill(t)
  <2> SUFFICES ASSUME NEW w, w = Word(t),
                      NEW k, k = c.done + 1,
                      NEW v, v = [c.view EXCEPT ![w] = mem[w]],
                      NEW n, n = IF c = Idle THEN lease.retired ELSE c.floor,
                      NEW d, d = [c EXCEPT !.done = k, !.view = v, !.floor = n]
               PROVE  CallMoves(t)
    OBVIOUS
  <2>1. c.done \in 0..3 /\ UNCHANGED lease /\ Set(t, d)
    BY <1>0, <1>1 DEF Fill
  <2>2. call'[t] = d
    BY <2>1, SetIs
  <2>3. /\ d.done = k /\ d.view = v /\ d.pc = c.pc /\ d.gen = c.gen /\ d.pid = c.pid
        /\ d.beat = c.beat /\ d.clock = c.clock
    BY <1>0 DEF CallType
  <2>4. w = IF c.done = 0 THEN "gen" ELSE IF c.done = 1 THEN "inc" ELSE IF c.done = 2 THEN "pid" ELSE "beat"
    BY <2>1, ViewScriptIs DEF Word
  <2>5. /\ v.gen = IF w = "gen" THEN mem.gen ELSE c.view.gen
        /\ v.pid = IF w = "pid" THEN mem.pid ELSE c.view.pid
        /\ v.beat = IF w = "beat" THEN mem.beat ELSE c.view.beat
    BY <1>0, <2>4 DEF ViewType
  <2> QED
    BY <2>1, <2>2, <2>3, <2>4, <2>5 DEF CallMoves, Loaded
<1>2. CASE Repeat(t)
  <2> DEFINE d == [c EXCEPT !.done = c.done + 1]
  <2>1. c.done \in 4..6 /\ UNCHANGED lease
    BY <1>0, <1>2, ViewScriptIs DEF Repeat
  <2>2. (mem[Word(t)] = c.view[Word(t)] /\ call'[t] = d) \/ call'[t] = Idle
    BY <1>2, SetIs DEF Repeat
  <2>3. /\ d.done = c.done + 1 /\ d.view = c.view /\ d.pc = c.pc /\ d.gen = c.gen /\ d.pid = c.pid
        /\ d.beat = c.beat /\ d.clock = c.clock
    BY <1>0 DEF CallType
  <2> HIDE DEF d
  <2>4. c.done = 4 => Word(t) = "pid"
    BY ScriptEnd DEF Word
  <2> QED
    BY <2>1, <2>2, <2>3, <2>4 DEF CallMoves, Repeated, Ended
<1>3. CASE ReadClock(t)
  <2> DEFINE d == [c EXCEPT !.pc = "check", !.clock = now, !.done = 0, !.view = View,
                            !.gen = c.view.gen, !.pid = c.view.pid, !.beat = c.view.beat]
  <2>1. call'[t] = d /\ c.pc = "view" /\ c.done = 7 /\ UNCHANGED lease
    BY <1>3, SetIs, ViewScriptIs DEF ReadClock, Viewed
  <2>2. /\ d.pc = "check" /\ d.done = 0 /\ d.view = View /\ d.gen = c.view.gen
        /\ d.pid = c.view.pid /\ d.beat = c.view.beat /\ d.clock = now
    BY <1>0 DEF CallType
  <2> HIDE DEF d
  <2> QED
    BY <2>1, <2>2 DEF CallMoves, Clocked
<1> QED
  BY <1>1, <1>2, <1>3

LEMMA LeaseMoves ==
    ASSUME IInv, NEW t \in Thread,
           \/ OtherGeneration(t) \/ CheckRetired(t) \/ Bind(t)
           \/ Retire(t) \/ Confirm(t) \/ AskAgain(t)
    PROVE  CallMoves(t)
<1> DEFINE c == call[t]
<1>0. c \in CallType /\ lease \in [retired : Nat, binding : Nat \X Nat]
  BY TypesAre DEF IInv, LeaseOK
<1>1. CASE OtherGeneration(t) \/ AskAgain(t)
  BY <1>1, SetIs DEF OtherGeneration, AskAgain, CallMoves, Ended
<1>2. ASSUME NEW pc, Set(t, [c EXCEPT !.pc = pc])
      PROVE  /\ call'[t].pc = pc /\ call'[t].done = c.done /\ call'[t].view = c.view
             /\ call'[t].gen = c.gen /\ call'[t].pid = c.pid /\ call'[t].beat = c.beat
             /\ call'[t].clock = c.clock
  <2> DEFINE d == [c EXCEPT !.pc = pc]
  <2>1. call'[t] = d
    BY <1>2, SetIs
  <2>2. /\ d.pc = pc /\ d.done = c.done /\ d.view = c.view
        /\ d.gen = c.gen /\ d.pid = c.pid /\ d.beat = c.beat /\ d.clock = c.clock
    BY <1>0 DEF CallType
  <2> HIDE DEF d
  <2> QED
    BY <2>1, <2>2
<1>3. CASE CheckRetired(t)
  <2>1. c.pc = "check" /\ UNCHANGED lease
    BY <1>3 DEF CheckRetired
  <2>2. \/ Set(t, Idle)
        \/ Set(t, [c EXCEPT !.pc = "second"]) /\ (c.pid = 0 \/ Fresh(c))
        \/ Set(t, [c EXCEPT !.pc = "bind"])
        \/ Set(t, [c EXCEPT !.pc = "retire"]) /\ c.pid = 0
    BY <1>3 DEF CheckRetired
  <2> QED
    BY <1>2, <2>1, <2>2, SetIs DEF CallMoves, Ended, GoneOn, Admitted
<1>4. CASE Bind(t)
  <2>1. /\ c.pc = "bind"
        /\ lease' = [lease EXCEPT !.binding = IF BindingAdmits(c) THEN <<c.gen, c.pid>> ELSE lease.binding]
    BY <1>4 DEF Bind
  <2>2. \/ BindingAdmits(c) /\ Fresh(c) /\ Set(t, [c EXCEPT !.pc = "second"])
        \/ ~(BindingAdmits(c) /\ Fresh(c)) /\ Set(t, [c EXCEPT !.pc = "retire"])
    BY <1>4 DEF Bind
  <2>3. BindingAdmits(c) => lease'.retired = lease.retired /\ lease'.binding = <<c.gen, c.pid>>
    BY <1>0, <2>1
  <2>4. ~BindingAdmits(c) => lease' = lease
    BY <1>0, <2>1
  <2> QED
    BY <1>2, <2>1, <2>2, <2>3, <2>4 DEF CallMoves, GoneOn, Admitted
<1>5. CASE Retire(t)
  BY <1>0, <1>5, SetIs DEF Retire, CallMoves, Ended
<1>6. CASE Confirm(t)
  <2> DEFINE d == [c EXCEPT !.pc = "yes", !.view = View]
  <2>1. c.pc = "second" /\ c.done = 7 /\ UNCHANGED lease /\ (call'[t] = d \/ call'[t] = Idle)
    BY <1>6, SetIs, ViewScriptIs DEF Confirm, Viewed
  <2>2. /\ d.pc = "yes" /\ d.done = c.done /\ d.view = View
        /\ d.gen = c.gen /\ d.pid = c.pid /\ d.beat = c.beat /\ d.clock = c.clock
    BY <1>0 DEF CallType
  <2> HIDE DEF d
  <2> QED
    BY <2>1, <2>2 DEF CallMoves, Ended, GoneOn, Admitted
<1> QED
  BY <1>1, <1>3, <1>4, <1>5, <1>6

LEMMA CallIsMoved ==
    ASSUME IInv, NEW t \in Thread, RuntimeWriterLive(t)
    PROVE  /\ CallMoves(t)
           /\ \A u \in Thread \ {t} : call'[u] = call[u]
           /\ UNCHANGED <<mem, rt, now, died, late>>
<1>1. \E d : Set(t, d)
  BY DEF RuntimeWriterLive, Fill, Repeat, OtherGeneration, ReadClock, CheckRetired, Bind,
         Retire, Confirm, AskAgain
<1>2. \A u \in Thread \ {t} : call'[u] = call[u]
  BY <1>1 DEF Set, IInv
<1> QED
  BY <1>2, ViewMoves, LeaseMoves DEF RuntimeWriterLive

-----------------------------------------------------------------------------
(* Vouchers: the calls. *)

LEMMA CallVouchedStep ==
    ASSUME TInv, NEW t \in Thread, RuntimeWriterLive(t)
    PROVE  /\ died' \in [Runtimes -> Nat]
           /\ WordsVouched'
           /\ \A u \in Thread : ViewVouched(call[u])' /\ CallVouched(call[u])'
<1> SUFFICES ASSUME NEW c, c = call[t], NEW d, d = call'[t]
             PROVE  /\ died' \in [Runtimes -> Nat]
                    /\ WordsVouched'
                    /\ \A u \in Thread : ViewVouched(call[u])' /\ CallVouched(call[u])'
  OBVIOUS
<1>0. IInv /\ UNCHANGED <<mem, rt, now, died>>
  BY CallIsMoved DEF TInv
<1>1. \A p, b : Vouched(p, b)' <=> Vouched(p, b)
  BY <1>0, SameVouchers
<1>2. died' \in [Runtimes -> Nat] /\ WordsVouched'
  BY <1>0, <1>1 DEF TInv, WordsVouched
<1>3. /\ ViewVouched(c) /\ CallVouched(c)
      /\ c.view.beat \in Nat /\ c.view.pid \in Nat /\ c.beat \in Nat /\ c.pid \in Nat
      /\ c.clock \in Nat /\ now \in Nat /\ c.done \in 0..7 /\ mem.beat \in Nat /\ mem.beat <= now
  BY <1>0, TypesAre DEF TInv
<1>4. View.beat = 0 /\ View.pid = 0 /\ Idle.view = View /\ Idle.beat = 0 /\ Idle.pid = 0
      /\ Idle.done = 0 /\ Idle.pc = "view"
  BY DEF View, Idle
<1>5. ViewVouched(d) /\ CallVouched(d)
  <2>1. CASE Loaded(c, d)
    <3>1. c.done = 3 /\ mem.pid # 0 => Vouched(mem.pid, mem.beat)
      BY DEF TInv, WordsVouched
    <3> QED
      BY <1>3, <2>1, <3>1 DEF Loaded, ViewVouched, CallVouched
  <2>2. CASE Repeated(c, d)
    BY <1>3, <2>2 DEF Repeated, ViewVouched, CallVouched
  <2>3. CASE Clocked(c, d)
    BY <1>3, <1>4, <2>3 DEF Clocked, ViewVouched, CallVouched
  <2>4. CASE GoneOn(c, d)
    <3>1. ViewVouched(d)
      BY <1>3, <1>4, <2>4 DEF GoneOn, ViewVouched
    <3>2. CallVouched(d)
      BY <1>3, <2>4 DEF GoneOn, Admitted, Fresh, CallVouched
    <3> QED
      BY <3>1, <3>2
  <2>5. CASE Ended(c, d)
    BY <1>3, <1>4, <2>5 DEF Ended, ViewVouched, CallVouched
  <2> QED
    BY <1>0, <2>1, <2>2, <2>3, <2>4, <2>5, CallIsMoved DEF CallMoves
<1>6. ASSUME NEW e, ViewVouched(e), CallVouched(e) PROVE ViewVouched(e)' /\ CallVouched(e)'
  BY <1>0, <1>1, <1>6 DEF ViewVouched, CallVouched
<1>7. ASSUME NEW u \in Thread, NEW e, e = call'[u] PROVE ViewVouched(e)' /\ CallVouched(e)'
  <2>1. ViewVouched(e) /\ CallVouched(e)
    BY <1>0, <1>5, <1>7, CallIsMoved DEF TInv
  <2> QED
    BY <1>6, <2>1
<1> QED
  BY <1>2, <1>7 DEF ViewVouched, CallVouched

LEMMA InitTInv == Init => TInv
<1> SUFFICES ASSUME Init PROVE TInv
  OBVIOUS
<1>1. IInv /\ died \in [Runtimes -> Nat] /\ mem.pid = 0 /\ now = 0
  BY InitIInv DEF Init, WordsInit, Unarmed
<1>2. WordsVouched
  BY <1>1 DEF WordsVouched
<1>3. ASSUME NEW t \in Thread PROVE ViewVouched(call[t]) /\ CallVouched(call[t])
  <2>1. call[t] = Idle
    BY DEF Init
  <2> QED
    BY <1>1, <2>1 DEF Idle, View, ViewVouched, CallVouched
<1> QED
  BY <1>1, <1>2, <1>3 DEF TInv

LEMMA NextTInv == TInv /\ [Next]_vars => TInv'
<1> SUFFICES ASSUME TInv, [Next]_vars PROVE TInv'
  OBVIOUS
<1>0. IInv /\ IInv'
  BY NextIInv DEF TInv
<1>1. CASE \E t \in Thread : RuntimeWriterLive(t)
  BY <1>0, <1>1, CallVouchedStep DEF TInv
<1>2. CASE Runtime
  <2> PICK r \in Runtimes : RuntimeStep(r, now)
    BY <1>2 DEF Runtime
  <2>1. Steps(r)
    BY <1>0, TypesAre, RuntimeIs
  <2> QED
    BY <1>0, <1>2, <2>1, RuntimeVouched DEF TInv
<1>3. CASE Tick \/ UNCHANGED vars
  <2>1. UNCHANGED <<mem, rt, died, call>> /\ now' \in Nat /\ now <= now'
    BY <1>0, <1>3, TypesAre DEF Tick, vars, leaseVars
  <2> QED
    BY <1>0, <2>1, QuietVouched DEF TInv
<1> QED
  BY <1>1, <1>2, <1>3 DEF Next

(* Vouchers stand for every PID and tick in the words, the views and the calls *)
(* (WritePulse, ReadWriter).                                                   *)
THEOREM TimesInductive == Spec => []TInv
  BY InitTInv, NextTInv, PTL DEF Spec

(* A writer found live was alive no longer than Timeout before the call read  *)
(* the clock, for any timeout and however long the call itself was suspended   *)
(* (RuntimeWriterLive, ReadWriter, WritePulse).                                *)
THEOREM LiveWasAlive == Spec => []LiveIsRecent
<1>1. TInv => LiveIsRecent
  <2> SUFFICES ASSUME TInv, NEW t \in Thread, Answered(t), call[t].pid # 0
               PROVE  \E r \in Runtimes : /\ Pid[r] = call[t].pid /\ rt[r].pc # "off"
                                          /\ rt[r].pc = "dead" => call[t].clock - died[r] <= Timeout
    BY DEF LiveIsRecent
  <2>1. /\ Vouched(call[t].pid, call[t].beat) /\ call[t].clock - call[t].beat <= Timeout
        /\ call[t].clock \in Nat /\ call[t].beat \in Nat /\ died \in [Runtimes -> Nat]
    BY TypesAre DEF TInv, CallVouched, Answered
  <2> PICK r \in Runtimes : Pid[r] = call[t].pid /\ rt[r].pc # "off"
                            /\ (rt[r].pc = "dead" => call[t].beat <= died[r])
    BY <2>1 DEF Vouched
  <2>2. died[r] \in Nat /\ Timeout \in Nat
    BY <2>1, LeaseAssumption
  <2> QED
    BY <2>1, <2>2
<1> QED
  BY <1>1, TimesInductive, PTL

-----------------------------------------------------------------------------
(* The punctual runtime: the steps of the runtimes. *)

\* What PInv says of the runtimes, the lease and the calls while nobody is late.
Kept ==
  /\ Alone
  /\ \A r \in Runtimes : Alive(r) =>
       /\ WriterOK(r)
       /\ rt[r].opened => LeaseKept(r) /\ \A t \in Thread : CallKept(call[t], r)

LEMMA OpenedStep ==
    ASSUME TInv, OpenedOK, NEW r \in Runtimes, Steps(r)
    PROVE  OpenedOK'
<1>1. mem.gen \in Nat /\ mem'.gen >= mem.gen /\ (OpensIt(r) => mem'.gen > 0)
  BY TypesAre DEF TInv, Steps, OpensIt
<1>2. ASSUME NEW s \in Runtimes, s # r
      PROVE  /\ rt'[s].opened => rt'[s].pc # "off" /\ mem'.gen > 0
             /\ rt'[s].pc = "run" => rt'[s].opened
  <2>1. rt'[s] = rt[s] /\ mem'.gen \in Nat
    BY <1>2 DEF Steps, MemType
  <2> QED
    BY <1>1, <2>1 DEF OpenedOK
<1>3. /\ rt'[r].opened => rt'[r].pc # "off" /\ mem'.gen > 0
      /\ rt'[r].pc = "run" => rt'[r].opened
  BY <1>1 DEF OpenedOK, Steps, OpensIt, Move
<1> QED
  BY <1>2, <1>3 DEF OpenedOK

\* The one that is alive keeps its PID and a fresh tick in the words.
LEMMA WriterStep ==
    ASSUME TInv, OpenedOK, NEW r \in Runtimes, Steps(r), UNCHANGED now,
           rt[r].pc # "off" => WriterOK(r), Alive(r)'
    PROVE  WriterOK(r)'
<1>0. /\ now \in Nat /\ Timeout \in Nat /\ mem.beat \in Nat /\ mem.beat <= now
      /\ rt[r].tick \in Nat /\ rt[r].tick <= now /\ rt'[r].tick \in Nat /\ mem'.beat \in Nat
  BY TypesAre, LeaseAssumption DEF TInv, Steps, RuntimeType, MemType
<1>1. rt'[r].opened \/ rt'[r].pc \in {"beat", "advance"} => mem'.pid = Pid[r]
  BY DEF Steps, Move, OpensIt, OpenedOK, WriterOK, Alive
<1>2. rt'[r].opened /\ rt'[r].pc \in {"inc", "pid", "beat"} => mem'.beat <= rt'[r].tick
  BY <1>0 DEF Steps, Move, OpensIt, OpenedOK, WriterOK, Alive
<1>3. ASSUME Attached(r)' PROVE now' - Shown(r)' <= Timeout
  <2>1. CASE rt'[r].pc = "inc"
    BY <1>0, <1>3, <2>1 DEF Steps, Move, OpensIt, OpenedOK, WriterOK, Alive, Attached, Shown
  <2>2. CASE rt'[r].pc \in {"pid", "beat"}
    BY <1>0, <1>3, <2>2 DEF Steps, Move, OpensIt, OpenedOK, WriterOK, Alive, Attached, Shown
  <2>3. CASE rt[r].pc = "beat"
    BY <1>0, <1>3, <2>3 DEF Steps, Move, OpensIt, OpenedOK, WriterOK, Alive, Attached, Shown
  <2>4. CASE rt[r].pc \in {"advance", "run"}
    BY <1>0, <1>3, <2>4 DEF Steps, Move, OpensIt, OpenedOK, WriterOK, Alive, Attached, Shown
  <2>5. CASE rt'[r].pc \in {"clear", "pulse"} /\ rt[r].pc # "run"
    BY <1>0, <1>3, <2>5 DEF Steps, Move, OpensIt, OpenedOK, WriterOK, Alive, Attached, Shown
  <2> QED
    BY <2>1, <2>2, <2>3, <2>4, <2>5 DEF Steps, Move, Alive
<1> QED
  BY <1>1, <1>2, <1>3 DEF WriterOK

LEMMA RuntimeKept ==
    ASSUME TInv, OpenedOK, Kept, Runtime, NEW r \in Runtimes, Steps(r), ~late'
    PROVE  Kept'
<1>0. /\ IInv /\ UNCHANGED <<call, lease, now>>
      /\ \A s, x \in Runtimes : Alive(s)' /\ Alive(x)' => s = x
  BY DEF TInv, Runtime
<1>1. SUFFICES ASSUME NEW s \in Runtimes, Alive(s)'
               PROVE  /\ WriterOK(s)'
                      /\ rt'[s].opened => LeaseKept(s)' /\ \A t \in Thread : CallKept(call[t], s)'
  BY <1>0 DEF Kept, Alone
<1>2. CASE s # r
  <2>1. rt'[s] = rt[s] /\ ~Alive(r)' /\ Alive(s)
    BY <1>0, <1>1, <1>2 DEF Steps, Alive
  <2>2. rt[r].pc # "off" => FALSE
    BY <1>2, <2>1 DEF Kept, Alone, Alive, Steps, Move
  <2>3. rt[r].pc = "off" => FALSE
    BY <2>1 DEF Steps, Move, Alive
  <2> QED
    BY <2>2, <2>3
<1>3. CASE s = r
  <2>1. rt[r].pc \notin {"off"} => Alive(r)
    BY <1>1, <1>3 DEF Steps, Move, Alive
  <2>2. WriterOK(r)'
    BY <1>0, <1>1, <1>3, <2>1, WriterStep DEF Kept
  <2>3. ASSUME rt'[r].opened PROVE LeaseKept(r)' /\ \A t \in Thread : CallKept(call[t], r)'
    <3>0. /\ mem.gen \in Nat
          /\ lease.retired \in Nat /\ lease.retired <= mem.gen
          /\ lease.binding \in Nat \X Nat /\ lease.binding[1] <= mem.gen
      BY <1>0, TypesAre DEF IInv, LeaseOK
    <3>1. CASE OpensIt(r)
      <4>1. LeaseKept(r)'
        BY <1>0, <3>0, <3>1 DEF LeaseKept, OpensIt
      <4>2. ASSUME NEW t \in Thread PROVE CallKept(call[t], r)'
        <5>1. /\ call[t].gen \in Nat /\ call[t].gen <= mem.gen
              /\ call[t].view.gen \in Nat /\ call[t].view.gen <= mem.gen
          BY <1>0, TypesAre DEF IInv, CallOK
        <5> QED
          BY <1>0, <3>0, <3>1, <5>1 DEF CallKept, OpensIt
      <4> QED
        BY <4>1, <4>2
    <3>2. CASE mem'.gen = mem.gen /\ rt'[r].opened = rt[r].opened
      <4>1. Alive(r) /\ rt[r].opened
        BY <2>1, <2>3, <3>2 DEF OpenedOK
      <4>2. LeaseKept(r) /\ \A t \in Thread : CallKept(call[t], r)
        BY <4>1 DEF Kept
      <4> QED
        BY <1>0, <3>2, <4>2 DEF LeaseKept, CallKept
    <3> QED
      BY <3>1, <3>2 DEF Steps
  <2> QED
    BY <1>3, <2>2, <2>3
<1> QED
  BY <1>2, <1>3

LEMMA TickKept ==
    ASSUME TInv, Kept, Tick, ~late'
    PROVE  Kept'
<1>0. /\ IInv /\ UNCHANGED <<mem, rt, call, lease>> /\ Punctual
      /\ now \in Nat /\ now' = now + 1
  BY TypesAre DEF TInv, Tick
<1>1. Alone' /\ \A r \in Runtimes : (Alive(r)' <=> Alive(r)) /\ (Attached(r)' <=> Attached(r)) /\ Shown(r)' = Shown(r)
  BY <1>0 DEF Kept, Alone, Alive, Attached, Shown
<1>2. ASSUME NEW r \in Runtimes, Alive(r) PROVE WriterOK(r)'
  <2>1. WriterOK(r)
    BY <1>2 DEF Kept
  <2>2. Attached(r)' => now' - Shown(r)' <= Timeout
    <3>1. Shown(r) \in Nat /\ Timeout \in Nat
      BY <1>0, TypesAre, LeaseAssumption DEF Shown
    <3> QED
      BY <1>0, <1>1, <3>1 DEF Punctual
  <2> QED
    BY <1>0, <2>1, <2>2 DEF WriterOK
<1>3. ASSUME NEW r \in Runtimes, Alive(r), rt[r].opened
      PROVE  LeaseKept(r)' /\ \A t \in Thread : CallKept(call[t], r)'
  <2>1. LeaseKept(r) /\ \A t \in Thread : CallKept(call[t], r)
    BY <1>3 DEF Kept
  <2>2. LeaseKept(r)'
    BY <1>0, <2>1 DEF LeaseKept
  <2>3. ASSUME NEW t \in Thread PROVE CallKept(call[t], r)'
    BY <1>0, <2>1 DEF CallKept, Punctual, Suspended
  <2> QED
    BY <2>2, <2>3
<1> QED
  BY <1>0, <1>1, <1>2, <1>3 DEF Kept

-----------------------------------------------------------------------------
(* The punctual runtime: the calls. *)

\* The call of one thread, seen from the runtime that opened the generation.
LEMMA CallKeptStep ==
    ASSUME TInv, OpenedOK, Kept, NEW t \in Thread, RuntimeWriterLive(t),
           NEW r \in Runtimes, Alive(r), rt[r].opened
    PROVE  LeaseKept(r)' /\ CallKept(call[t], r)'
<1> SUFFICES ASSUME NEW c, c = call[t], NEW d, d = call'[t]
             PROVE  LeaseKept(r)' /\ CallKept(d, r)'
  BY DEF CallKept
<1>0. /\ IInv /\ UNCHANGED <<mem, rt, now>>
      /\ LeaseKept(r) /\ CallKept(c, r) /\ WriterOK(r)
      /\ mem.gen \in Nat /\ mem.gen > 0 /\ now \in Nat /\ Timeout \in Nat /\ Pid[r] # 0
  BY CallIsMoved, TypesAre, LeaseAssumption, Constants DEF TInv, Kept, OpenedOK
<1>1. /\ c.gen \in Nat /\ c.gen <= mem.gen /\ c.view.gen \in Nat /\ c.view.gen <= mem.gen
      /\ c.done \in 0..7 /\ c.clock \in Nat /\ c.beat \in Nat /\ mem.beat \in Nat
      /\ lease.retired \in Nat /\ lease.binding \in Nat \X Nat
  BY <1>0, TypesAre DEF IInv, CallOK, LeaseOK
<1>2. mem.pid = Pid[r] /\ now - mem.beat <= Timeout
  BY <1>0 DEF WriterOK, Attached, Shown
<1>3. View.gen = 0 /\ Idle.view = View /\ Idle.done = 0 /\ Idle.pc = "view" /\ Idle.gen = 0
  BY DEF View, Idle
<1>4. CASE Loaded(c, d) /\ UNCHANGED lease
  <2>1. LeaseKept(r)'
    BY <1>0, <1>4 DEF LeaseKept
  <2>2. CallKept(d, r)
    BY <1>0, <1>1, <1>2, <1>4 DEF Loaded, CallKept
  <2> QED
    BY <1>0, <2>1, <2>2 DEF CallKept
<1>5. CASE Repeated(c, d) /\ UNCHANGED lease
  <2>1. LeaseKept(r)'
    BY <1>0, <1>5 DEF LeaseKept
  <2>2. CallKept(d, r)
    BY <1>0, <1>1, <1>5 DEF Repeated, CallKept
  <2> QED
    BY <1>0, <2>1, <2>2 DEF CallKept
<1>6. CASE Clocked(c, d) /\ UNCHANGED lease
  <2>1. LeaseKept(r)'
    BY <1>0, <1>6 DEF LeaseKept
  <2>2. CallKept(d, r)
    BY <1>0, <1>1, <1>3, <1>6 DEF Clocked, CallKept
  <2> QED
    BY <1>0, <2>1, <2>2 DEF CallKept
<1>7. CASE GoneOn(c, d)
  <2>1. c.pc \in {"check", "bind", "second"} /\ d.pc \in {"second", "bind", "retire", "yes"}
    BY <1>7 DEF GoneOn, Admitted
  <2>2. c.gen = mem.gen => d.pc # "retire"
    BY <1>0, <1>1, <1>7 DEF GoneOn, Admitted, CallKept, LeaseKept, BindingAdmits, Fresh
  <2>3. CallKept(d, r)
    BY <1>0, <1>1, <1>3, <1>7, <2>1, <2>2 DEF GoneOn, Admitted, CallKept
  <2>4. LeaseKept(r)'
    BY <1>0, <1>1, <1>7 DEF GoneOn, Admitted, CallKept, LeaseKept
  <2> QED
    BY <1>0, <2>3, <2>4 DEF CallKept
<1>8. CASE Ended(c, d)
  <2>1. LeaseKept(r)'
    BY <1>0, <1>1, <1>8 DEF Ended, CallKept, LeaseKept
  <2>2. CallKept(d, r)
    BY <1>0, <1>3, <1>8 DEF Ended, CallKept
  <2> QED
    BY <1>0, <2>1, <2>2 DEF CallKept
<1> QED
  BY <1>0, <1>4, <1>5, <1>6, <1>7, <1>8, CallIsMoved DEF CallMoves

LEMMA CallsKept ==
    ASSUME TInv, OpenedOK, Kept, NEW t \in Thread, RuntimeWriterLive(t)
    PROVE  Kept'
<1>0. IInv /\ UNCHANGED <<mem, rt, now>> /\ \A u \in Thread \ {t} : call'[u] = call[u]
  BY CallIsMoved DEF TInv
<1>1. Alone' /\ \A r \in Runtimes : Alive(r)' <=> Alive(r)
  BY <1>0 DEF Kept, Alone, Alive
<1>2. ASSUME NEW r \in Runtimes, Alive(r) PROVE WriterOK(r)'
  BY <1>0, <1>2 DEF Kept, WriterOK, Attached, Shown, Alive
<1>3. ASSUME NEW r \in Runtimes, Alive(r), rt[r].opened
      PROVE  LeaseKept(r)' /\ \A u \in Thread : CallKept(call[u], r)'
  <2>1. LeaseKept(r)' /\ CallKept(call[t], r)'
    BY <1>3, CallKeptStep
  <2>2. ASSUME NEW u \in Thread, u # t PROVE CallKept(call[u], r)'
    BY <1>0, <1>3, <2>2 DEF Kept, CallKept
  <2> QED
    BY <2>1, <2>2
<1> QED
  BY <1>0, <1>1, <1>2, <1>3 DEF Kept

-----------------------------------------------------------------------------
LEMMA InitPInv == Init => PInv
<1> SUFFICES ASSUME Init PROVE PInv
  OBVIOUS
<1>1. \A r \in Runtimes : rt[r].pc = "off" /\ ~rt[r].opened
  BY DEF Init, WordsInit, NotStarted
<1>2. OpenedOK /\ Alone /\ \A r \in Runtimes : ~Alive(r)
  BY <1>1 DEF OpenedOK, Alone, Alive
<1> QED
  BY <1>2, InitTInv DEF PInv, Init

LEMMA NextPInv == PInv /\ [Next]_vars => PInv'
<1> SUFFICES ASSUME PInv, [Next]_vars PROVE PInv'
  OBVIOUS
<1>0. TInv /\ TInv' /\ IInv /\ OpenedOK /\ late \in BOOLEAN /\ (~late => Kept)
  BY NextTInv DEF PInv, TInv, Kept
<1> SUFFICES OpenedOK' /\ late' \in BOOLEAN /\ (~late' => Kept')
  BY <1>0 DEF PInv, Kept
<1>1. CASE \E t \in Thread : RuntimeWriterLive(t)
  <2> PICK t \in Thread : RuntimeWriterLive(t)
    BY <1>1
  <2>1. UNCHANGED <<mem, rt, late>>
    BY <1>0, CallIsMoved
  <2>2. OpenedOK' /\ late' \in BOOLEAN
    BY <1>0, <2>1 DEF OpenedOK
  <2> QED
    BY <1>0, <2>1, <2>2, CallsKept
<1>2. CASE Runtime
  <2> PICK r \in Runtimes : RuntimeStep(r, now)
    BY <1>2 DEF Runtime
  <2>1. Steps(r)
    BY <1>0, TypesAre, RuntimeIs
  <2>2. late' \in BOOLEAN /\ (~late' => ~late)
    BY <1>0, <1>2 DEF Runtime
  <2> QED
    BY <1>0, <1>2, <2>1, <2>2, OpenedStep, RuntimeKept
<1>3. CASE Tick
  <2>1. late' \in BOOLEAN /\ (~late' => ~late) /\ UNCHANGED <<mem, rt>>
    BY <1>0, <1>3 DEF Tick
  <2> QED
    BY <1>0, <1>3, <2>1, TickKept DEF OpenedOK
<1>4. CASE UNCHANGED vars
  BY <1>0, <1>4 DEF vars, leaseVars, OpenedOK, Kept, Alone, Alive, WriterOK, Attached, Shown,
                    LeaseKept, CallKept
<1> QED
  BY <1>1, <1>2, <1>3, <1>4 DEF Next

(* A punctual runtime keeps the generation it opened, for any number of        *)
(* predecessors and threads: nothing left in the words retires it (the attach   *)
(* order of RuntimeMain.cpp, RuntimeWriterLease::Available).                    *)
THEOREM PunctualIsKept == Spec => []PunctualKeepsLease
<1>1. PInv => PunctualKeepsLease
  BY DEF PInv, LeaseKept, PunctualKeepsLease
<1>2. Spec => []PInv
  BY InitPInv, NextPInv, PTL DEF Spec
<1> QED
  BY <1>1, <1>2, PTL

-----------------------------------------------------------------------------
(***************************************************************************)
(* Proof that a terminal receipt is never misread, for any number of         *)
(* runtimes, any PIDs (recycled ones included), runtimes that overlap and die *)
(* between any two stores, and any number of generations.                    *)
(*                                                                           *)
(* The argument: only the newest runtime opens generations, so the present    *)
(* one has an owner, and a receipt for it was committed by that owner, behind *)
(* the owner's own stamp.  An incarnation found between the two loads of the   *)
(* receipt is therefore the owner's, or that of a predecessor that stamped    *)
(* late; and such a predecessor can never announce itself again, so that the  *)
(* second writer view does not find its incarnation any more.                 *)
(***************************************************************************)

Writing == {"compare", "compareInc", "erase", "stamp", "commit"}

KeyType == [gen : Nat, inc : Nat, pid : Nat]

ReaderType == [done : Nat, key : KeyType, answer : {"none", "no", "yes"}]

\* The runtime that opened the present generation.
Owner(r) == rt[r].opened /\ \A s \in Runtimes : s > r => ~rt[s].opened

Pulsed(r) == rt[r].opened \/ rt[r].pc \in {"pid", "beat", "advance"}

Superseded(r) == \E s \in Runtimes : s > r /\ rt[s].pc # "off"

\* Past its last stamp, and past the last time it announces itself.
Gone(r) ==
  /\ Superseded(r) /\ mem.inc # r
  /\ rt[r].pc \in {"commit", "run", "dead"}

Types ==
  /\ mem \in MemType
  /\ rt \in [Runtimes -> RuntimeType]
  /\ reader \in ReaderType
  /\ ended \subseteq Runtimes \X Nat

\* A runtime that writes a receipt is known by name, and owns the generation it
\* has read for as long as that is the present one.
RuntimeOK(r) ==
  /\ rt[r].pc = "off" => ~rt[r].opened
  /\ rt[r].pc \in {"run"} \cup Writing => rt[r].opened
  /\ rt[r].pc \in Writing =>
       /\ Incarnation(r) # 0 /\ rt[r].seen <= mem.gen
       /\ rt[r].seen = mem.gen => Owner(r)

EndedOK ==
  /\ \A e \in ended : Incarnation(e[1]) # 0 /\ e[2] <= mem.gen
  /\ mem.term[2] <= mem.gen
  /\ mem.term[1] # 0 /\ mem.term[2] = mem.gen =>
       \E r \in Runtimes : Owner(r) /\ Pid[r] = mem.term[1] /\ <<r, mem.gen>> \in ended

\* Who announced itself after a successor had, never stamps a receipt again.
LateAnnouncement ==
  \A r, s \in Runtimes :
    s > r /\ Pulsed(s) /\ mem.inc = r =>
      rt[r].pc \in {"pid", "beat", "advance", "run", "dead"}

\* The owner has stamped a receipt for the present generation.
HasStamped(r) == <<r, mem.gen>> \in ended \/ (rt[r].pc = "commit" /\ rt[r].seen = mem.gen)

LateStamp ==
  /\ mem.termInc # 0 => mem.termInc \in Runtimes /\ rt[mem.termInc].opened
  /\ \A r, s \in Runtimes :
       s > r /\ Owner(s) /\ HasStamped(s) /\ mem.termInc = r => Gone(r)

\* What the loads of a call have shown so far, if the generation still stands.
ShownReceipt(q) ==
  \E r \in Runtimes :
    /\ Owner(r) /\ Pid[r] = q.key.pid /\ <<r, q.key.gen>> \in ended
    /\ q.done >= 9 => q.key.inc = r \/ (q.key.inc \in Runtimes /\ Gone(q.key.inc))
    /\ q.done >= 12 => q.key.inc = r

ReaderOK ==
  /\ reader.key.gen <= mem.gen
  /\ Pending => reader.done < 17
  /\ Pending /\ reader.done >= 2 => reader.key.inc # 0
  /\ Pending /\ reader.done >= 3 => reader.key.pid # 0
  /\ Pending /\ reader.done >= 8 /\ reader.key.gen = mem.gen => ShownReceipt(reader)

ReceiptInv ==
  /\ Types
  /\ \A r \in Runtimes : RuntimeOK(r)
  /\ EndedOK /\ LateAnnouncement /\ LateStamp
  /\ ReaderOK /\ YesWasTrue

-----------------------------------------------------------------------------
LEMMA WordsConstants ==
    /\ Last \in Nat \ {0} /\ MaxGen \in Nat
    /\ Pid \in [Runtimes -> Nat \ {0}]
    /\ \A r \in Runtimes : r \in Nat \ {0} /\ Incarnation(r) \in {0, r}
    BY WordsAssumption DEF Runtimes, Incarnation

\* The loads that the argument speaks of.
LEMMA Loads ==
    /\ Len(Script) = 17
    /\ Script[1] = "gen" /\ Script[2] = "inc" /\ Script[3] = "pid"
    /\ Script[8] = "term" /\ Script[9] = "termInc"
    /\ Script[12] = "inc" /\ Script[17] = "gen"
<1> DEFINE receipt == <<"term", "termInc", "term">>
           S == {"gen", "inc", "pid", "beat", "term", "termInc"}
<1>1. ViewScript \in Seq(S) /\ receipt \in Seq(S) /\ Len(ViewScript) = 7 /\ Len(receipt) = 3
  BY DEF ViewScript
<1>2. /\ ViewScript[1] = "gen" /\ ViewScript[2] = "inc" /\ ViewScript[3] = "pid"
      /\ ViewScript[7] = "gen"
      /\ receipt[1] = "term" /\ receipt[2] = "termInc"
  BY DEF ViewScript
<1> DEFINE front == ViewScript \o receipt
<1> HIDE DEF receipt, S
<1>3. /\ front \in Seq(S) /\ Len(front) = 7 + 3
      /\ \A i \in 1..7 + 3 : front[i] = IF i <= 7 THEN ViewScript[i] ELSE receipt[i - 7]
  <2>1. /\ front \in Seq(S)
        /\ Len(front) = Len(ViewScript) + Len(receipt)
        /\ \A i \in 1..(Len(ViewScript) + Len(receipt)) :
             front[i] = IF i <= Len(ViewScript) THEN ViewScript[i] ELSE receipt[i - Len(ViewScript)]
    BY <1>1, ConcatProperties, Zenon
  <2> QED
    BY <1>1, <2>1
<1>4. Script = front \o ViewScript
  BY DEF Script, receipt
<1> HIDE DEF front
<1>5. /\ Len(Script) = 10 + 7
      /\ \A i \in 1..10 + 7 : Script[i] = IF i <= 10 THEN front[i] ELSE ViewScript[i - 10]
  <2>1. /\ Len(Script) = Len(front) + Len(ViewScript)
        /\ \A i \in 1..(Len(front) + Len(ViewScript)) :
             Script[i] = IF i <= Len(front) THEN front[i] ELSE ViewScript[i - Len(front)]
    BY <1>1, <1>3, <1>4, ConcatProperties, Zenon
  <2> QED
    BY <1>1, <1>3, <2>1
<1>6. front[1] = "gen" /\ front[2] = "inc" /\ front[3] = "pid" /\ front[8] = "term" /\ front[9] = "termInc"
  BY <1>2, <1>3
<1> QED
  BY <1>2, <1>5, <1>6

LEMMA InitReceiptInv == ReceiptInit => ReceiptInv
<1> SUFFICES ASSUME ReceiptInit PROVE ReceiptInv
  OBVIOUS
<1>1. mem = Unarmed /\ Unarmed \in MemType
  BY DEF ReceiptInit, WordsInit, Unarmed, NoReceipt, MemType
<1>2. NotStarted \in RuntimeType /\ NotStarted.pc = "off" /\ ~NotStarted.opened
  BY DEF NotStarted, RuntimeType, RuntimePC, Writing
<1>3. rt \in [Runtimes -> RuntimeType] /\ \A r \in Runtimes : rt[r] = NotStarted
  BY <1>2 DEF ReceiptInit, WordsInit
<1>4. reader = Asking /\ Asking \in ReaderType /\ ended = {}
  BY DEF ReceiptInit, Asking, Key, ReaderType, KeyType
<1>5. Types
  BY <1>1, <1>3, <1>4 DEF Types
<1>6. \A r \in Runtimes : RuntimeOK(r) /\ ~Pulsed(r) /\ ~Owner(r)
  BY <1>2, <1>3 DEF RuntimeOK, Pulsed, Owner, Writing
<1>7. EndedOK /\ LateAnnouncement /\ LateStamp
  BY <1>1, <1>4, <1>6, WordsConstants
  DEF EndedOK, LateAnnouncement, LateStamp, Unarmed, NoReceipt
<1>8. ReaderOK /\ YesWasTrue
  BY <1>1, <1>4 DEF ReaderOK, YesWasTrue, Asking, Key, Pending, Unarmed
<1> QED
  BY <1>5, <1>6, <1>7, <1>8 DEF ReceiptInv

-----------------------------------------------------------------------------
(* Steps of a runtime that open no generation. *)

Moving(a, b) ==
  \/ a = "off" /\ b = "clear"
  \/ a = "clear" /\ b = "pulse"
  \/ a = "pulse" /\ b = "inc"
  \/ a = "inc" /\ b = "pid"
  \/ a = "pid" /\ b = "beat"
  \/ a = "beat" /\ b \in {"advance", "run"}
  \/ a = "run" /\ b \in {"pulse", "run", "compare"}
  \/ a = "compare" /\ b \in {"compareInc", "erase"}
  \/ a = "compareInc" /\ b \in {"run", "erase"}
  \/ a = "erase" /\ b = "stamp"
  \/ a = "stamp" /\ b = "commit"
  \/ a = "commit" /\ b = "run"
  \/ a \notin {"off", "dead"} /\ b = "dead"

Commits(r) == rt[r].pc = "commit" /\ rt'[r].pc = "run"

\* Where runtime r goes, ...
Walks(r) ==
  /\ rt' \in [Runtimes -> RuntimeType]
  /\ \A s \in Runtimes \ {r} : rt'[s] = rt[s]
  /\ rt'[r].opened = rt[r].opened
  /\ Moving(rt[r].pc, rt'[r].pc)
  /\ rt[r].pc = "run" /\ rt'[r].pc # "dead" => Current(r)
  /\ rt'[r].pc = "compare" => rt'[r].seen = mem.gen /\ Incarnation(r) # 0
  /\ rt'[r].pc \in Writing \ {"compare"} => rt'[r].seen = rt[r].seen
  /\ rt[r].pc = "beat" /\ rt'[r].pc = "run" => rt[r].opened

\* ... and what it stores on the way.
Stores(r) ==
  /\ mem' \in MemType
  /\ mem'.gen = mem.gen
  /\ mem'.inc = IF rt[r].pc = "inc" /\ rt'[r].pc = "pid" THEN Incarnation(r) ELSE mem.inc
  /\ mem'.termInc = IF rt[r].pc = "stamp" /\ rt'[r].pc = "commit" THEN Incarnation(r)
                    ELSE mem.termInc
  /\ mem'.term \in {mem.term, NoReceipt} \/ (Commits(r) /\ mem'.term = <<Pid[r], rt[r].seen>>)

Records(r) ==
  /\ ended' = ended \cup (IF Commits(r) /\ rt[r].seen = mem.gen THEN {<<r, mem.gen>>} ELSE {})
  /\ UNCHANGED reader

LEMMA GoesTo ==
    ASSUME Types, NEW r \in Runtimes, NEW a, NEW b \in RuntimePC, Goes(r, a, b)
    PROVE  /\ rt[r].pc = a /\ rt'[r].pc = b
           /\ rt' \in [Runtimes -> RuntimeType]
           /\ \A s \in Runtimes \ {r} : rt'[s] = rt[s]
           /\ rt'[r].opened = rt[r].opened /\ rt'[r].seen = rt[r].seen
<1>1. rt[r] \in RuntimeType
  BY DEF Types
<1>2. rt' = [rt EXCEPT ![r] = [rt[r] EXCEPT !.pc = b]] /\ rt[r].pc = a
  BY DEF Goes
<1>3. /\ [rt[r] EXCEPT !.pc = b] \in RuntimeType
      /\ [rt[r] EXCEPT !.pc = b].pc = b
      /\ [rt[r] EXCEPT !.pc = b].opened = rt[r].opened
      /\ [rt[r] EXCEPT !.pc = b].seen = rt[r].seen
  BY <1>1 DEF RuntimeType
<1> QED
  BY <1>2, <1>3 DEF Types

LEMMA StoreTo ==
    ASSUME Types, NEW w \in {"inc", "pid", "beat", "termInc"}, NEW v \in Nat, Store(w, v)
    PROVE  /\ mem' \in MemType /\ mem'.gen = mem.gen /\ mem'.term = mem.term
           /\ mem'.inc = IF w = "inc" THEN v ELSE mem.inc
           /\ mem'.termInc = IF w = "termInc" THEN v ELSE mem.termInc
    BY DEF Types, Store, MemType

LEMMA StoreTermIs ==
    ASSUME Types, NEW v \in Nat \X Nat, Store("term", v)
    PROVE  /\ mem' \in MemType /\ mem'.gen = mem.gen /\ mem'.term = v
           /\ mem'.inc = mem.inc /\ mem'.termInc = mem.termInc
    BY DEF Types, Store, MemType

LEMMA AttachWalks ==
    ASSUME Types, NEW r \in Runtimes, Start(r) \/ ClearTerminal(r)
    PROVE  Walks(r) /\ Stores(r) /\ ~Commits(r)
<1> USE DEF Walks, Stores, Commits, Moving, Writing
<1>1. CASE Start(r)
  BY <1>1, GoesTo DEF Start, RuntimePC, Types
<1>2. CASE ClearTerminal(r)
  <2>1. NoReceipt \in Nat \X Nat
    BY DEF NoReceipt
  <2> QED
    BY <1>2, <2>1, GoesTo, StoreTermIs DEF ClearTerminal, RuntimePC
<1> QED
  BY <1>1, <1>2

LEMMA PulseWalks ==
    ASSUME Types, NEW r \in Runtimes,
           BeginPulse(r) \/ TakeTick(r, 0) \/ StoreIncarnation(r) \/ StorePid(r) \/ StoreBeat(r)
    PROVE  Walks(r) /\ Stores(r) /\ ~Commits(r)
<1> USE DEF Walks, Stores, Commits, Moving, Writing
<1>1. CASE BeginPulse(r)
  BY <1>1, GoesTo DEF BeginPulse, RuntimePC, Types
<1>2. CASE TakeTick(r, 0)
  <2>1. rt[r] \in RuntimeType
    BY DEF Types
  <2> DEFINE q == [rt[r] EXCEPT !.pc = "inc", !.tick = 0]
  <2>2. q \in RuntimeType /\ q.pc = "inc" /\ q.opened = rt[r].opened
    BY <2>1 DEF RuntimeType, RuntimePC
  <2>3. rt' = [rt EXCEPT ![r] = q] /\ rt[r].pc = "pulse" /\ UNCHANGED mem
    BY <1>2 DEF TakeTick
  <2> HIDE DEF q
  <2> QED
    BY <2>2, <2>3 DEF Types
<1>3. CASE StoreIncarnation(r)
  BY <1>3, GoesTo, StoreTo, WordsConstants DEF StoreIncarnation, RuntimePC
<1>4. CASE StorePid(r)
  BY <1>4, GoesTo, StoreTo, WordsConstants DEF StorePid, RuntimePC
<1>5. CASE StoreBeat(r)
  <2>1. rt[r] \in RuntimeType /\ mem \in MemType
    BY DEF Types
  <2> DEFINE b == IF rt[r].opened THEN "run" ELSE "advance"
             q == [rt[r] EXCEPT !.pc = b, !.tick = 0]
  <2>2. q \in RuntimeType /\ q.pc = b /\ q.opened = rt[r].opened
    BY <2>1 DEF RuntimeType, RuntimePC
  <2>3. /\ rt' = [rt EXCEPT ![r] = q] /\ rt[r].pc = "beat"
        /\ mem' = [mem EXCEPT !.beat = rt[r].tick]
    BY <1>5 DEF StoreBeat
  <2> HIDE DEF q
  <2>4. rt' \in [Runtimes -> RuntimeType] /\ rt'[r] = q /\ \A s \in Runtimes \ {r} : rt'[s] = rt[s]
    BY <2>2, <2>3 DEF Types
  <2>5. /\ mem' \in MemType /\ mem'.gen = mem.gen /\ mem'.inc = mem.inc
        /\ mem'.termInc = mem.termInc /\ mem'.term = mem.term
    BY <2>1, <2>3 DEF MemType, RuntimeType
  <2> QED
    BY <2>2, <2>3, <2>4, <2>5
<1> QED
  BY <1>1, <1>2, <1>3, <1>4, <1>5

LEMMA ReceiptIs ==
    ASSUME Types, NEW r \in Runtimes, WriteTerminal(r) \/ Die(r)
    PROVE  Walks(r) /\ Stores(r) /\ (Commits(r) => CommitReceipt(r))
<1> USE DEF Walks, Stores, Commits, Moving, Writing
<1>0. NoReceipt \in Nat \X Nat
  BY DEF NoReceipt
<1>1. CASE LoadGeneration(r)
  <2>1. rt[r] \in RuntimeType /\ mem.gen \in Nat
    BY DEF Types, MemType
  <2> DEFINE q == [rt[r] EXCEPT !.pc = "compare", !.seen = mem.gen]
  <2>2. q \in RuntimeType /\ q.pc = "compare" /\ q.seen = mem.gen /\ q.opened = rt[r].opened
    BY <2>1 DEF RuntimeType, RuntimePC
  <2>3. /\ rt' = [rt EXCEPT ![r] = q] /\ rt[r].pc = "run" /\ UNCHANGED mem
        /\ Current(r) /\ Incarnation(r) # 0
    BY <1>1 DEF LoadGeneration
  <2> HIDE DEF q
  <2> QED
    BY <2>2, <2>3 DEF Types
<1>2. CASE CompareReceipt(r) \/ CompareIncarnation(r)
  <2> DEFINE b == IF mem.term = Packed(r) THEN "compareInc" ELSE "erase"
             d == IF mem.termInc = Incarnation(r) THEN "run" ELSE "erase"
  <2>1. b \in {"compareInc", "erase"} /\ d \in {"run", "erase"}
    OBVIOUS
  <2>2. (Goes(r, "compare", b) \/ Goes(r, "compareInc", d)) /\ UNCHANGED mem
    BY <1>2 DEF CompareReceipt, CompareIncarnation
  <2> HIDE DEF b, d
  <2> QED
    BY <2>1, <2>2, GoesTo DEF RuntimePC, Types
<1>3. CASE EraseReceipt(r)
  BY <1>0, <1>3, GoesTo, StoreTermIs DEF EraseReceipt, RuntimePC
<1>4. CASE StampReceipt(r)
  BY <1>4, GoesTo, StoreTo, WordsConstants DEF StampReceipt, RuntimePC
<1>5. CASE CommitReceipt(r)
  <2>1. Packed(r) \in Nat \X Nat /\ Packed(r) = <<Pid[r], rt[r].seen>>
    BY WordsConstants DEF Packed, Types, RuntimeType
  <2> QED
    BY <1>5, <2>1, GoesTo, StoreTermIs DEF CommitReceipt, RuntimePC
<1>6. CASE RetireReceipt(r)
  BY <1>0, <1>6, GoesTo, StoreTermIs DEF RetireReceipt, RuntimePC
<1>7. CASE Die(r)
  <2>1. Goes(r, rt[r].pc, "dead") /\ rt[r].pc \notin {"off", "dead"} /\ UNCHANGED mem
    BY <1>7 DEF Die, Alive, Goes
  <2> QED
    BY <2>1, GoesTo DEF RuntimePC, Types
<1> QED
  BY <1>1, <1>2, <1>3, <1>4, <1>5, <1>6, <1>7 DEF WriteTerminal

\* A runtime's step either opens a generation or walks, stores and records.
LEMMA StoresAre ==
    ASSUME Types, RuntimeStores
    PROVE  \E r \in Runtimes :
             \/ Walks(r) /\ Stores(r) /\ Records(r)
             \/ Opens(r) /\ rt[r].pc \in {"advance", "run"} /\ UNCHANGED <<reader, ended>>
<1> PICK r \in Runtimes : RuntimeStep(r, 0) \/ WriteTerminal(r)
  BY DEF RuntimeStores
<1>1. ended' = ended \cup {<<s, mem.gen>> : s \in {u \in Runtimes : Ends(u)}} /\ UNCHANGED reader
  BY DEF RuntimeStores
<1>2. \A s \in Runtimes \ {r} : rt'[s] = rt[s] => ~Ends(s)
  BY DEF Ends
<1>3. CASE Advance(r) \/ NewSession(r)
  <2>1. Opens(r) /\ rt[r].pc \in {"advance", "run"}
    BY <1>3 DEF Advance, NewSession
  <2>2. rt'[r].pc = "run" /\ \A s \in Runtimes \ {r} : rt'[s] = rt[s]
    BY <2>1 DEF Opens, Types, RuntimeType
  <2>3. \A s \in Runtimes : ~Ends(s)
    BY <1>2, <2>1, <2>2 DEF Ends
  <2> QED
    BY <1>1, <2>1, <2>3
<1>4. CASE Walks(r) /\ Stores(r)
  <2>1. \A s \in Runtimes : Ends(s) <=> s = r /\ Commits(r) /\ rt[r].seen = mem.gen
    BY <1>2, <1>4 DEF Walks, Ends, Commits
  <2> QED
    BY <1>1, <1>4, <2>1 DEF Records
<1> QED
  BY <1>3, <1>4, AttachWalks, PulseWalks, ReceiptIs DEF RuntimeStep

-----------------------------------------------------------------------------
(* A walk keeps the invariant. *)

LEMMA WalkTypes ==
    ASSUME ReceiptInv, NEW r \in Runtimes, Walks(r), Stores(r), Records(r)
    PROVE  /\ Types'
           /\ \A s \in Runtimes : rt'[s].opened = rt[s].opened
           /\ \A s \in Runtimes : rt[s].pc # "off" => rt'[s].pc # "off"
           /\ \A s \in Runtimes : Owner(s)' <=> Owner(s)
<1>1. Types'
  BY DEF ReceiptInv, Types, Walks, Stores, Records, MemType
<1>2. \A s \in Runtimes : rt'[s].opened = rt[s].opened
  BY DEF Walks
<1>3. \A s \in Runtimes : rt[s].pc # "off" => rt'[s].pc # "off"
  BY DEF Walks, Moving
<1>4. \A s \in Runtimes : Owner(s)' <=> Owner(s)
  BY <1>2 DEF Owner
<1> QED
  BY <1>1, <1>2, <1>3, <1>4

LEMMA WalkGone ==
    ASSUME ReceiptInv, NEW r \in Runtimes, Walks(r), Stores(r), Records(r),
           NEW i \in Runtimes, Gone(i)
    PROVE  Gone(i)'
<1>1. Superseded(i)'
  BY WalkTypes DEF Gone, Superseded
<1>2. ~Current(i)
  BY DEF Gone, Superseded, Current
<1>3. rt'[i].pc \in {"commit", "run", "dead"}
  BY <1>2 DEF Gone, Walks, Moving
<1>4. mem'.inc # i
  BY WordsConstants DEF Gone, Stores
<1> QED
  BY <1>1, <1>3, <1>4 DEF Gone

LEMMA WalkRuntimes ==
    ASSUME ReceiptInv, NEW r \in Runtimes, Walks(r), Stores(r), Records(r)
    PROVE  \A s \in Runtimes : RuntimeOK(s)'
<1>1. ASSUME NEW s \in Runtimes \ {r} PROVE RuntimeOK(s)'
  BY WalkTypes DEF ReceiptInv, RuntimeOK, Walks, Stores
<1>2. RuntimeOK(r)'
  <2>1. RuntimeOK(r) /\ mem.gen \in Nat /\ rt[r] \in RuntimeType /\ rt'[r] \in RuntimeType
    BY DEF ReceiptInv, Types, MemType, Walks
  <2>2. rt'[r].pc # "off"
    BY DEF Walks, Moving
  <2>3. rt'[r].pc \in {"run"} \cup Writing => rt'[r].opened
    BY <2>1 DEF RuntimeOK, Walks, Moving, Writing
  <2>4. CASE rt'[r].pc = "compare"
    <3>1. Current(r) /\ Incarnation(r) # 0 /\ rt'[r].seen = mem.gen /\ rt[r].opened
      BY <2>1, <2>4 DEF Walks, Moving, RuntimeOK
    <3>2. Owner(r)
      BY <3>1 DEF Current, Owner, ReceiptInv, RuntimeOK
    <3> QED
      BY <2>1, <2>2, <2>3, <3>1, <3>2, WalkTypes DEF RuntimeOK, Stores
  <2>5. CASE rt'[r].pc \in Writing \ {"compare"}
    <3>1. rt[r].pc \in Writing /\ rt'[r].seen = rt[r].seen
      BY <2>5 DEF Walks, Moving, Writing
    <3> QED
      BY <2>1, <2>2, <2>3, <3>1, WalkTypes DEF RuntimeOK, Stores
  <2> QED
    BY <2>2, <2>3, <2>4, <2>5 DEF RuntimeOK, Writing
<1> QED
  BY <1>1, <1>2

LEMMA WalkEnded ==
    ASSUME ReceiptInv, NEW r \in Runtimes, Walks(r), Stores(r), Records(r)
    PROVE  EndedOK'
<1>1. /\ mem.gen \in Nat /\ mem'.gen = mem.gen /\ ended \subseteq ended'
      /\ mem.term \in Nat \X Nat /\ rt[r] \in RuntimeType
      /\ Pid[r] \in Nat \ {0}
  BY WordsConstants DEF ReceiptInv, Types, MemType, Stores, Records
<1>2. Commits(r) => /\ Incarnation(r) # 0 /\ rt[r].seen <= mem.gen
                    /\ rt[r].seen = mem.gen => Owner(r)
  BY DEF ReceiptInv, RuntimeOK, Commits, Writing
<1>3. ASSUME NEW e \in ended' PROVE Incarnation(e[1]) # 0 /\ e[2] <= mem.gen
  BY <1>1, <1>2, <1>3 DEF ReceiptInv, EndedOK, Records
<1>4. mem'.term[2] <= mem.gen
  BY <1>1, <1>2 DEF ReceiptInv, EndedOK, Stores, NoReceipt, RuntimeType
<1>5. ASSUME mem'.term[1] # 0, mem'.term[2] = mem.gen
      PROVE  \E s \in Runtimes : /\ Owner(s) /\ Pid[s] = mem'.term[1]
                                 /\ <<s, mem.gen>> \in ended'
  <2>1. CASE mem'.term = mem.term
    BY <1>1, <1>5, <2>1 DEF ReceiptInv, EndedOK
  <2>2. CASE mem'.term = NoReceipt
    BY <1>5, <2>2 DEF NoReceipt
  <2>3. CASE Commits(r) /\ mem'.term = <<Pid[r], rt[r].seen>>
    <3>1. rt[r].seen = mem.gen /\ Pid[r] = mem'.term[1]
      BY <1>5, <2>3
    <3>2. Owner(r) /\ <<r, mem.gen>> \in ended'
      BY <1>2, <2>3, <3>1 DEF Records
    <3> QED
      BY <3>1, <3>2
  <2> QED
    BY <2>1, <2>2, <2>3 DEF Stores
<1> QED
  BY <1>1, <1>3, <1>4, <1>5, WalkTypes DEF EndedOK

LEMMA WalkAnnouncement ==
    ASSUME ReceiptInv, NEW r \in Runtimes, Walks(r), Stores(r), Records(r)
    PROVE  LateAnnouncement'
<1> SUFFICES ASSUME NEW i \in Runtimes, NEW s \in Runtimes, s > i, Pulsed(s)', mem'.inc = i
             PROVE  rt'[i].pc \in {"pid", "beat", "advance", "run", "dead"}
  BY DEF LateAnnouncement
<1>1. i \in Nat \ {0} /\ r \in Nat \ {0} /\ s \in Nat \ {0} /\ Incarnation(r) \in {0, r}
  BY WordsConstants
<1>2. CASE rt[r].pc = "inc" /\ rt'[r].pc = "pid"
  BY <1>1, <1>2 DEF Stores
<1>3. CASE ~(rt[r].pc = "inc" /\ rt'[r].pc = "pid")
  <2>1. mem.inc = i
    BY <1>3 DEF Stores
  <2>2. Pulsed(s)
    BY <1>3 DEF Pulsed, Walks, Moving, ReceiptInv, RuntimeOK, Writing
  <2>3. rt[i].pc \in {"pid", "beat", "advance", "run", "dead"}
    BY <2>1, <2>2 DEF ReceiptInv, LateAnnouncement
  <2>4. ~Current(i)
    BY <2>2 DEF Pulsed, Current, ReceiptInv, RuntimeOK
  <2> QED
    BY <2>3, <2>4 DEF Walks, Moving
<1> QED
  BY <1>2, <1>3

LEMMA WalkStamp ==
    ASSUME ReceiptInv, NEW r \in Runtimes, Walks(r), Stores(r), Records(r)
    PROVE  LateStamp'
<1>1. /\ mem'.gen = mem.gen /\ mem.gen \in Nat
      /\ \A i \in Runtimes : i \in Nat \ {0} /\ Incarnation(i) \in {0, i}
  BY WordsConstants DEF ReceiptInv, Types, MemType, Stores
<1> DEFINE stamps == rt[r].pc = "stamp" /\ rt'[r].pc = "commit"
<1>2. stamps => rt[r].opened /\ mem'.termInc = r
  BY <1>1 DEF ReceiptInv, RuntimeOK, Writing, Stores
<1>3. ~stamps => mem'.termInc = mem.termInc
  BY DEF Stores
<1>4. mem'.termInc # 0 => mem'.termInc \in Runtimes /\ rt'[mem'.termInc].opened
  BY <1>2, <1>3, WalkTypes DEF ReceiptInv, LateStamp
<1>5. ASSUME NEW i \in Runtimes, NEW s \in Runtimes, s > i, Owner(s)', HasStamped(s)',
             mem'.termInc = i
      PROVE  Gone(i)'
  <2>1. Owner(s)
    BY <1>5, WalkTypes
  <2>2. CASE stamps
    <3>1. r = i /\ rt[i].pc = "stamp" /\ rt'[i].pc = "commit"
      BY <1>2, <1>5, <2>2
    <3>2. Superseded(i)'
      BY <1>5, <2>1, WalkTypes DEF Superseded, Owner, ReceiptInv, RuntimeOK
    <3>3. mem.inc # i
      BY <1>5, <2>1, <3>1 DEF ReceiptInv, LateAnnouncement, Pulsed, Owner
    <3>4. mem'.inc = mem.inc
      BY <3>1 DEF Stores
    <3> QED
      BY <3>1, <3>2, <3>3, <3>4 DEF Gone
  <2>3. CASE ~stamps
    <3>1. HasStamped(s)
      <4>1. CASE <<s, mem.gen>> \in ended' \ ended
        BY <4>1 DEF Records, HasStamped, Commits
      <4>2. CASE rt'[s].pc = "commit" /\ rt'[s].seen = mem.gen
        <5>1. CASE s = r
          BY <2>3, <4>2, <5>1 DEF Walks, Moving
        <5>2. CASE s # r
          BY <4>2, <5>2 DEF Walks, HasStamped
        <5> QED
          BY <5>1, <5>2
      <4> QED
        BY <1>1, <1>5, <4>1, <4>2 DEF HasStamped
    <3>2. Gone(i)
      BY <1>3, <1>5, <2>1, <2>3, <3>1 DEF ReceiptInv, LateStamp
    <3> QED
      BY <3>2, WalkGone
  <2> QED
    BY <2>2, <2>3
<1> HIDE DEF stamps
<1> QED
  BY <1>4, <1>5 DEF LateStamp

LEMMA WalkReader ==
    ASSUME ReceiptInv, NEW r \in Runtimes, Walks(r), Stores(r), Records(r)
    PROVE  ReaderOK' /\ YesWasTrue'
<1>1. reader' = reader /\ ended \subseteq ended' /\ mem'.gen = mem.gen
  BY DEF Records, Stores
<1>2. ShownReceipt(reader) => ShownReceipt(reader)'
  BY <1>1, WalkTypes, WalkGone DEF ShownReceipt
<1>3. ReaderOK'
  BY <1>1, <1>2 DEF ReceiptInv, ReaderOK, Pending
<1>4. YesWasTrue'
  BY <1>1 DEF ReceiptInv, YesWasTrue
<1> QED
  BY <1>3, <1>4

LEMMA WalkStep ==
    ASSUME ReceiptInv, NEW r \in Runtimes, Walks(r), Stores(r), Records(r)
    PROVE  ReceiptInv'
    BY WalkTypes, WalkRuntimes, WalkEnded, WalkAnnouncement, WalkStamp, WalkReader DEF ReceiptInv

-----------------------------------------------------------------------------
(* A new generation: what was true of the last one binds nobody. *)

LEMMA OpensTo ==
    ASSUME ReceiptInv, NEW r \in Runtimes, Opens(r), rt[r].pc \in {"advance", "run"}
    PROVE  /\ rt' \in [Runtimes -> RuntimeType]
           /\ \A s \in Runtimes \ {r} : rt'[s] = rt[s]
           /\ rt'[r].pc = "run" /\ rt'[r].opened
           /\ mem' \in MemType /\ mem'.gen = mem.gen + 1 /\ mem'.inc = mem.inc
           /\ mem'.term = mem.term /\ mem'.termInc = mem.termInc
           /\ Current(r)
<1>1. rt[r] \in RuntimeType /\ mem \in MemType
  BY DEF ReceiptInv, Types
<1> DEFINE q == [rt[r] EXCEPT !.pc = "run", !.opened = TRUE]
<1>2. q \in RuntimeType /\ q.pc = "run" /\ q.opened
  BY <1>1 DEF RuntimeType, RuntimePC
<1>3. rt' = [rt EXCEPT ![r] = q] /\ mem' = [mem EXCEPT !.gen = mem.gen + 1] /\ Current(r)
  BY <1>1 DEF Opens, ReceiptInv, Types, RuntimeType
<1> HIDE DEF q
<1>4. /\ mem' \in MemType /\ mem'.gen = mem.gen + 1 /\ mem'.inc = mem.inc
      /\ mem'.term = mem.term /\ mem'.termInc = mem.termInc
  BY <1>1, <1>3 DEF MemType
<1> QED
  BY <1>2, <1>3, <1>4 DEF ReceiptInv, Types

LEMMA OpensStep ==
    ASSUME ReceiptInv, NEW r \in Runtimes, Opens(r), rt[r].pc \in {"advance", "run"},
           UNCHANGED <<reader, ended>>
    PROVE  ReceiptInv'
<1>1. mem.gen \in Nat /\ mem.term \in Nat \X Nat /\ reader.key.gen \in Nat /\ reader.key.gen <= mem.gen
  BY DEF ReceiptInv, Types, MemType, ReaderType, KeyType, ReaderOK
<1>2. Types'
  BY OpensTo DEF ReceiptInv, Types
<1>3. ASSUME NEW s \in Runtimes PROVE RuntimeOK(s)'
  <2>1. CASE s = r
    BY <2>1, OpensTo DEF RuntimeOK, Writing
  <2>2. CASE s # r
    <3>1. rt'[s] = rt[s] /\ RuntimeOK(s) /\ rt[s].seen \in Nat
      BY <2>2, OpensTo DEF ReceiptInv, Types, RuntimeType
    <3> QED
      BY <1>1, <3>1, OpensTo DEF RuntimeOK
  <2> QED
    BY <2>1, <2>2
<1>4. EndedOK'
  <2>1. \A e \in ended : e[2] \in Nat /\ e[2] <= mem.gen /\ Incarnation(e[1]) # 0
    BY DEF ReceiptInv, EndedOK, Types
  <2>2. mem.term[2] \in Nat /\ mem.term[2] <= mem.gen
    BY <1>1 DEF ReceiptInv, EndedOK
  <2> QED
    BY <1>1, <2>1, <2>2, OpensTo DEF EndedOK
<1>5. LateAnnouncement'
  <2> SUFFICES ASSUME NEW i \in Runtimes, NEW s \in Runtimes, s > i, Pulsed(s)', mem'.inc = i
               PROVE  rt'[i].pc \in {"pid", "beat", "advance", "run", "dead"}
    BY DEF LateAnnouncement
  <2>1. Pulsed(s)
    BY OpensTo DEF Pulsed, ReceiptInv, RuntimeOK
  <2> QED
    BY <2>1, OpensTo DEF ReceiptInv, LateAnnouncement
<1>6. LateStamp'
  <2>1. ASSUME NEW s \in Runtimes PROVE ~HasStamped(s)'
    <3>1. <<s, mem.gen + 1>> \notin ended
      BY <1>1 DEF ReceiptInv, EndedOK
    <3>2. rt'[s].pc = "commit" => rt'[s] = rt[s] /\ rt[s].seen <= mem.gen /\ rt[s].seen \in Nat
      BY OpensTo DEF ReceiptInv, RuntimeOK, Writing, Types, RuntimeType
    <3> QED
      BY <1>1, <3>1, <3>2, OpensTo DEF HasStamped
  <2>2. mem'.termInc # 0 => mem'.termInc \in Runtimes /\ rt'[mem'.termInc].opened
    BY OpensTo DEF ReceiptInv, LateStamp
  <2> QED
    BY <2>1, <2>2 DEF LateStamp
<1>7. ReaderOK'
  <2>1. reader'.key.gen < mem'.gen
    BY <1>1, OpensTo
  <2> QED
    BY <1>1, <2>1, OpensTo DEF ReceiptInv, ReaderOK, Pending
<1>8. YesWasTrue'
  BY DEF ReceiptInv, YesWasTrue
<1> QED
  BY <1>2, <1>3, <1>4, <1>5, <1>6, <1>7, <1>8 DEF ReceiptInv

-----------------------------------------------------------------------------
(* The reader's loads. *)

\* What a load leaves of the runtimes' part.
LEMMA LoadKeeps ==
    ASSUME ReceiptInv, UNCHANGED <<mem, rt, ended>>, reader' \in ReaderType, ReaderOK', YesWasTrue'
    PROVE  ReceiptInv'
<1>1. Types'
  BY DEF ReceiptInv, Types
<1>2. \A r \in Runtimes : Owner(r)' = Owner(r) /\ Gone(r)' = Gone(r) /\ Pulsed(r)' = Pulsed(r)
                          /\ HasStamped(r)' = HasStamped(r)
  BY DEF Owner, Gone, Pulsed, Superseded, HasStamped
<1>3. \A r \in Runtimes : RuntimeOK(r)'
  BY <1>2 DEF ReceiptInv, RuntimeOK
<1>4. EndedOK' /\ LateAnnouncement' /\ LateStamp'
  BY <1>2 DEF ReceiptInv, EndedOK, LateAnnouncement, LateStamp
<1> QED
  BY <1>1, <1>3, <1>4 DEF ReceiptInv

\* What a load leaves in the reader: `v' is the key, `a' the answer so far.
LEMMA LoadIs ==
    ASSUME reader \in ReaderType, NEW d \in Nat, NEW v \in KeyType, NEW a \in {"none", "no", "yes"},
           reader' = [reader EXCEPT !.done = d, !.key = v, !.answer = a]
    PROVE  /\ reader' \in ReaderType
           /\ reader'.done = d /\ reader'.key = v /\ reader'.answer = a
    BY DEF ReaderType

LEMMA AnswerIs ==
    ASSUME reader \in ReaderType, NEW d \in Nat, NEW a \in {"none", "no", "yes"},
           reader' = [reader EXCEPT !.done = d, !.answer = a]
    PROVE  /\ reader' \in ReaderType
           /\ reader'.done = d /\ reader'.key = reader.key /\ reader'.answer = a
    BY DEF ReaderType

\* The three loads that capture the key.
LEMMA CaptureIs ==
    ASSUME reader \in ReaderType, Capture
    PROVE  /\ reader.answer = "none" /\ reader.done \in {0, 1, 2}
           /\ reader.done = 0 =>
                reader' = [reader EXCEPT !.done = 1, !.key = [reader.key EXCEPT !.gen = mem.gen],
                                         !.answer = "none"]
           /\ reader.done = 1 =>
                reader' = [reader EXCEPT !.done = 2, !.key = [reader.key EXCEPT !.inc = mem.inc],
                                         !.answer = IF mem.inc = 0 THEN "no" ELSE "none"]
           /\ reader.done = 2 =>
                reader' = [reader EXCEPT !.done = 3, !.key = [reader.key EXCEPT !.pid = mem.pid],
                                         !.answer = IF mem.pid = 0 THEN "no" ELSE "none"]
<1>1. reader.answer = "none" /\ reader.done \in {0, 1, 2}
  BY DEF Capture, Pending, Step, ReaderType
<1>2. CASE reader.done = 0
  <2>1. Step = 1 /\ Script[Step] = "gen"
    BY <1>2, Loads DEF Step
  <2>2. reader' = [reader EXCEPT !.done = 1, !.key["gen"] = mem.gen, !.answer = "none"]
    BY <1>1, <2>1, Zenon DEF Capture
  <2>3. reader' = [reader EXCEPT !.done = 1, !.key = [reader.key EXCEPT !.gen = mem.gen],
                                 !.answer = "none"]
    BY <2>2
  <2>4. reader.done # 1 /\ reader.done # 2
    BY <1>2
  <2> QED
    BY <1>1, <2>3, <2>4, Zenon
<1>3. CASE reader.done = 1
  <2>1. Step = 2 /\ Script[Step] = "inc"
    BY <1>3, Loads DEF Step
  <2>2. reader' = [reader EXCEPT !.done = 2, !.key["inc"] = mem.inc,
                                 !.answer = IF mem.inc = 0 THEN "no" ELSE "none"]
    BY <1>1, <2>1, Zenon DEF Capture
  <2>3. reader' = [reader EXCEPT !.done = 2, !.key = [reader.key EXCEPT !.inc = mem.inc],
                                 !.answer = IF mem.inc = 0 THEN "no" ELSE "none"]
    BY <2>2
  <2>4. reader.done # 0 /\ reader.done # 2
    BY <1>3
  <2> QED
    BY <1>1, <2>3, <2>4, Zenon
<1>4. CASE reader.done = 2
  <2>1. Step = 3 /\ Script[Step] = "pid"
    BY <1>4, Loads DEF Step
  <2>2. reader' = [reader EXCEPT !.done = 3, !.key["pid"] = mem.pid,
                                 !.answer = IF mem.pid = 0 THEN "no" ELSE "none"]
    BY <1>1, <2>1, Zenon DEF Capture
  <2>3. reader' = [reader EXCEPT !.done = 3, !.key = [reader.key EXCEPT !.pid = mem.pid],
                                 !.answer = IF mem.pid = 0 THEN "no" ELSE "none"]
    BY <2>2
  <2>4. reader.done # 0 /\ reader.done # 1
    BY <1>4
  <2> QED
    BY <1>1, <2>3, <2>4, Zenon
<1> QED
  BY <1>1, <1>2, <1>3, <1>4

LEMMA CaptureStep ==
    ASSUME ReceiptInv, Capture, UNCHANGED <<mem, rt, ended>>
    PROVE  ReceiptInv'
<1>1. /\ reader \in ReaderType /\ reader.key \in KeyType /\ reader.answer = "none"
      /\ reader.done \in {0, 1, 2}
      /\ mem.gen \in Nat /\ mem.inc \in Nat /\ mem.pid \in Nat
  BY CaptureIs DEF ReceiptInv, Types, ReaderType, MemType
<1>2. ASSUME reader' \in ReaderType, reader'.done \in {1, 2, 3}, reader'.answer \in {"none", "no"},
             reader'.key.gen <= mem.gen,
             reader'.answer = "none" /\ reader'.done >= 2 => reader'.key.inc # 0,
             reader'.answer = "none" /\ reader'.done >= 3 => reader'.key.pid # 0
      PROVE  ReceiptInv'
  <2>1. ReaderOK'
    BY <1>1, <1>2 DEF ReaderOK, Pending
  <2>2. YesWasTrue'
    BY <1>2 DEF YesWasTrue
  <2> QED
    BY <1>2, <2>1, <2>2, LoadKeeps
<1>3. CASE reader.done = 0
  <2> DEFINE v == [reader.key EXCEPT !.gen = mem.gen]
  <2>1. v \in KeyType /\ v.gen = mem.gen
    BY <1>1 DEF KeyType
  <2>2. reader' = [reader EXCEPT !.done = 1, !.key = v, !.answer = "none"]
    BY <1>1, <1>3, CaptureIs, Zenon
  <2> HIDE DEF v
  <2>3. 1 \in Nat /\ "none" \in {"none", "no", "yes"}
    OBVIOUS
  <2>4. reader' \in ReaderType /\ reader'.done = 1 /\ reader'.key = v /\ reader'.answer = "none"
    BY <1>1, <2>1, <2>2, <2>3, LoadIs, Zenon
  <2> QED
    BY <1>1, <1>2, <2>1, <2>4
<1>4. CASE reader.done = 1
  <2> DEFINE a == IF mem.inc = 0 THEN "no" ELSE "none"
             v == [reader.key EXCEPT !.inc = mem.inc]
  <2>1. v \in KeyType /\ v.gen = reader.key.gen /\ v.inc = mem.inc
    BY <1>1 DEF KeyType
  <2>2. v.gen <= mem.gen /\ (a = "none" => v.inc # 0) /\ a \in {"none", "no"}
    BY <2>1 DEF ReceiptInv, ReaderOK
  <2>3. reader' = [reader EXCEPT !.done = 2, !.key = v, !.answer = a]
    BY <1>1, <1>4, CaptureIs, Zenon
  <2> HIDE DEF v, a
  <2>4. 2 \in Nat /\ a \in {"none", "no", "yes"}
    BY <2>2
  <2>5. reader' \in ReaderType /\ reader'.done = 2 /\ reader'.key = v /\ reader'.answer = a
    BY <1>1, <2>1, <2>3, <2>4, LoadIs, Zenon
  <2> QED
    BY <1>2, <2>1, <2>2, <2>5
<1>5. CASE reader.done = 2
  <2> DEFINE a == IF mem.pid = 0 THEN "no" ELSE "none"
             v == [reader.key EXCEPT !.pid = mem.pid]
  <2>1. v \in KeyType /\ v.gen = reader.key.gen /\ v.inc = reader.key.inc /\ v.pid = mem.pid
    BY <1>1 DEF KeyType
  <2>2. v.gen <= mem.gen /\ v.inc # 0 /\ (a = "none" => v.pid # 0) /\ a \in {"none", "no"}
    BY <1>1, <1>5, <2>1 DEF ReceiptInv, ReaderOK, Pending
  <2>3. reader' = [reader EXCEPT !.done = 3, !.key = v, !.answer = a]
    BY <1>1, <1>5, CaptureIs, Zenon
  <2> HIDE DEF v, a
  <2>4. 3 \in Nat /\ a \in {"none", "no", "yes"}
    BY <2>2
  <2>5. reader' \in ReaderType /\ reader'.done = 3 /\ reader'.key = v /\ reader'.answer = a
    BY <1>1, <2>1, <2>3, <2>4, LoadIs, Zenon
  <2> QED
    BY <1>2, <2>1, <2>2, <2>5
<1> QED
  BY <1>1, <1>3, <1>4, <1>5

\* One more load that agrees shows what it was made for.
LEMMA AgreeingLoad ==
    ASSUME ReceiptInv, Pending, reader.done \in 3..16, Agrees(Script[reader.done + 1]),
           reader.done >= 7, reader.key.gen = mem.gen
    PROVE  \E r \in Runtimes :
             /\ Owner(r) /\ Pid[r] = reader.key.pid /\ <<r, reader.key.gen>> \in ended
             /\ reader.done + 1 >= 9 =>
                  reader.key.inc = r \/ (reader.key.inc \in Runtimes /\ Gone(reader.key.inc))
             /\ reader.done + 1 >= 12 => reader.key.inc = r
<1> DEFINE k == reader.key
<1>1. k.inc # 0 /\ k.pid # 0 /\ k \in KeyType
  BY DEF ReceiptInv, ReaderOK, Types, ReaderType
<1>2. CASE reader.done = 7
  <2>1. mem.term = <<k.pid, k.gen>>
    BY <1>2, Loads DEF Agrees
  <2> QED
    BY <1>1, <1>2, <2>1 DEF ReceiptInv, EndedOK
<1>3. CASE reader.done >= 8
  <2> PICK r \in Runtimes :
        /\ Owner(r) /\ Pid[r] = k.pid /\ <<r, k.gen>> \in ended
        /\ reader.done >= 9 => k.inc = r \/ (k.inc \in Runtimes /\ Gone(k.inc))
        /\ reader.done >= 12 => k.inc = r
    BY <1>3 DEF ReceiptInv, ReaderOK, ShownReceipt
  <2>1. CASE reader.done = 8
    <3>1. mem.termInc = k.inc
      BY <2>1, Loads DEF Agrees
    <3>2. k.inc \in Runtimes /\ rt[k.inc].opened
      BY <1>1, <3>1 DEF ReceiptInv, LateStamp
    <3>3. ~(k.inc > r)
      BY <3>2 DEF Owner
    <3>4. CASE k.inc = r
      BY <2>1, <3>4
    <3>5. CASE r > k.inc
      BY <2>1, <3>1, <3>2, <3>5 DEF ReceiptInv, LateStamp, HasStamped
    <3>6. k.inc \in Nat /\ r \in Nat
      BY <3>2, WordsConstants
    <3> QED
      BY <3>3, <3>4, <3>5, <3>6
  <2>2. CASE reader.done = 11
    <3>1. mem.inc = k.inc
      BY <2>2, Loads DEF Agrees
    <3> QED
      BY <2>2, <3>1 DEF Gone
  <2>3. CASE reader.done \in {9, 10, 12, 13, 14, 15, 16}
    BY <2>3
  <2> QED
    BY <1>3, <2>1, <2>2, <2>3
<1>4. reader.done = 7 \/ reader.done >= 8
  OBVIOUS
<1> QED
  BY <1>2, <1>3, <1>4

LEMMA CompareStep ==
    ASSUME ReceiptInv, Compare, UNCHANGED <<mem, rt, ended>>
    PROVE  ReceiptInv'
<1> SUFFICES ASSUME NEW d, d = reader.done + 1, NEW ok, ok = Agrees(Script[d]),
                    NEW a, a = IF ~ok THEN "no" ELSE IF d = 17 THEN "yes" ELSE "none"
             PROVE  ReceiptInv'
  OBVIOUS
<1>1. /\ reader \in ReaderType /\ d \in 4..17 /\ reader.done \in 3..16 /\ Pending /\ reader.answer = "none"
      /\ mem.gen \in Nat /\ reader.key \in KeyType /\ reader.key.gen <= mem.gen
  BY DEF ReceiptInv, Types, ReaderType, MemType, Compare, Step, Pending, ReaderOK
<1>2. reader' = [reader EXCEPT !.done = d, !.answer = a]
  <2>1. Step = d /\ Len(Script) = 17
    BY Loads DEF Step
  <2>2. a = IF ~Agrees(Script[d]) THEN "no" ELSE IF d = 17 THEN "yes" ELSE "none"
    BY Zenon
  <2>3. reader' = [reader EXCEPT !.done = d,
                     !.answer = IF ~Agrees(Script[d]) THEN "no" ELSE IF d = 17 THEN "yes" ELSE "none"]
    BY <1>1, <2>1, Zenon DEF Compare
  <2> QED
    BY <2>2, <2>3, Zenon
<1>3. a \in {"none", "no", "yes"} /\ (a = "none" => d < 17) /\ (a # "no" => ok) /\ (a = "yes" => d = 17)
  BY <1>1
<1>4. reader' \in ReaderType /\ reader'.done = d /\ reader'.key = reader.key /\ reader'.answer = a
  <2>1. d \in Nat
    BY <1>1
  <2> QED
    BY <1>1, <1>2, <1>3, <2>1, AnswerIs
<1>5. ASSUME ok, d >= 8, reader.key.gen = mem.gen
      PROVE  \E r \in Runtimes :
               /\ Owner(r) /\ Pid[r] = reader.key.pid /\ <<r, reader.key.gen>> \in ended
               /\ d >= 9 => reader.key.inc = r \/ (reader.key.inc \in Runtimes /\ Gone(reader.key.inc))
               /\ d >= 12 => reader.key.inc = r
  BY <1>1, <1>5, AgreeingLoad
<1>6. ReaderOK'
  <2>1. a = "none" /\ d >= 8 /\ reader.key.gen = mem.gen => ShownReceipt(reader)'
    <3>1. \A r \in Runtimes : (Owner(r)' <=> Owner(r)) /\ (Gone(r)' <=> Gone(r))
      BY DEF Owner, Gone, Superseded
    <3> QED
      BY <1>3, <1>4, <1>5, <3>1 DEF ShownReceipt
  <2> QED
    BY <1>1, <1>3, <1>4, <2>1 DEF ReaderOK, Pending, ReceiptInv
<1>7. YesWasTrue'
  <2> SUFFICES ASSUME a = "yes"
               PROVE  \E r \in Runtimes : /\ Pid[r] = reader.key.pid /\ Incarnation(r) = reader.key.inc
                                          /\ <<r, reader.key.gen>> \in ended
    BY <1>4 DEF YesWasTrue
  <2>1. ok /\ d = 17 /\ d >= 8 /\ d >= 12
    BY <1>3
  <2>2. reader.key.gen = mem.gen
    BY <2>1, Loads DEF Agrees
  <2> PICK r \in Runtimes : /\ Pid[r] = reader.key.pid /\ <<r, reader.key.gen>> \in ended
                            /\ reader.key.inc = r
    BY <1>5, <2>1, <2>2
  <2>3. Incarnation(r) # 0
    BY DEF ReceiptInv, EndedOK
  <2> QED
    BY <2>3, WordsConstants
<1> QED
  BY <1>4, <1>6, <1>7, LoadKeeps

LEMMA AskAgainStep ==
    ASSUME ReceiptInv, CallAgain, UNCHANGED <<mem, rt, ended>>
    PROVE  ReceiptInv'
<1>1. /\ reader' \in ReaderType /\ reader'.done = 0 /\ reader'.key.gen = 0 /\ reader'.answer = "none"
      /\ mem.gen \in Nat
  BY DEF CallAgain, Asking, Key, ReaderType, KeyType, ReceiptInv, Types, MemType
<1>2. ReaderOK' /\ YesWasTrue'
  BY <1>1 DEF ReaderOK, YesWasTrue, Pending
<1> QED
  BY <1>1, <1>2, LoadKeeps

-----------------------------------------------------------------------------
LEMMA NextReceiptInv == ReceiptInv /\ [ReceiptNext]_receiptVars => ReceiptInv'
<1> SUFFICES ASSUME ReceiptInv, [ReceiptNext]_receiptVars PROVE ReceiptInv'
  OBVIOUS
<1>1. CASE NetworkTerminal
  BY <1>1, CaptureStep, CompareStep, AskAgainStep DEF NetworkTerminal
<1>2. CASE RuntimeStores
  BY <1>2, StoresAre, WalkStep, OpensStep DEF ReceiptInv
<1>3. CASE UNCHANGED receiptVars
  <2>1. reader' \in ReaderType /\ UNCHANGED <<mem, rt, ended, reader>>
    BY <1>3 DEF receiptVars, ReceiptInv, Types
  <2>2. ShownReceipt(reader)' <=> ShownReceipt(reader)
    BY <2>1 DEF ShownReceipt, Owner, Gone, Superseded
  <2>3. ReaderOK' /\ YesWasTrue'
    BY <2>1, <2>2 DEF ReceiptInv, ReaderOK, Pending, YesWasTrue
  <2> QED
    BY <2>1, <2>3, LoadKeeps
<1> QED
  BY <1>1, <1>2, <1>3 DEF ReceiptNext

\* The invariant behind the receipt holds for any runtimes, PIDs and generations.
THEOREM ReceiptInvariant == ReceiptSpec => []ReceiptInv
<1> QED
  BY InitReceiptInv, NextReceiptInv, PTL DEF ReceiptSpec

\* ReadTerminal: a yes names a runtime that ended for good under the generation
\* the call found current, whatever overlaps, dies or is recycled.
THEOREM ReceiptIsTrue == ReceiptSpec => []YesWasTrue
<1>1. ReceiptInv => YesWasTrue
  BY DEF ReceiptInv
<1> QED
  BY <1>1, ReceiptInvariant, PTL

-----------------------------------------------------------------------------
(***************************************************************************)
(* PacketRing, for any capacity, width of the counters, payloads and sizes.  *)
(*                                                                           *)
(* The counters wrap, the memory wraps, and stale payload may read as a       *)
(* length, so everything rests on what Reading says of the bytes below head:  *)
(* first that it is well defined (each record or gap takes some of what is    *)
(* left), then that it depends on the words below head only (Frame), that it  *)
(* does not change when the head moves on (Appends), and that every word the  *)
(* producer writes before it publishes lies outside of it (WriteIsOutside).   *)
(* The invariant adds where each side stands: the producer's room is still    *)
(* free and the words it has written are there; the consumer stands at the    *)
(* first unread record and what it has copied is a prefix of it.              *)
(***************************************************************************)

(* Remainders. *)

\* Division with remainder.
LEMMA DivMod ==
    ASSUME NEW a \in Int, NEW n \in Nat \ {0}
    PROVE  /\ (a % n) \in 0..(n - 1)
           /\ (a \div n) \in Int
           /\ a = (a \div n) * n + (a % n)
  OBVIOUS

\* The remainder is the only number below n that leaves a multiple of n.
LEMMA ModIs ==
    ASSUME NEW q \in Int, NEW n \in Nat \ {0}, NEW r \in 0..(n - 1)
    PROVE  (q * n + r) % n = r
  OBVIOUS

\* Multiples of n add.
LEMMA Scaled ==
    ASSUME NEW i \in Int, NEW j \in Int, NEW n \in Int
    PROVE  i * n + j * n = (i + j) * n
  OBVIOUS

\* A multiple of n does not change the remainder.
LEMMA ModShift ==
    ASSUME NEW a \in Int, NEW k \in Int, NEW n \in Nat \ {0}
    PROVE  (a + k * n) % n = (a % n)
<1> DEFINE q == a \div n
           r == a % n
<1>1. q \in Int /\ r \in 0..(n - 1) /\ a = q * n + r
  BY DivMod
<1>2. (q + k) \in Int /\ q * n + k * n = (q + k) * n
  BY <1>1, Scaled
<1>h. (q * n) \in Int /\ (k * n) \in Int /\ ((q + k) * n) \in Int
  BY <1>1
<1>3. a + k * n = (q + k) * n + r
  <2> HIDE DEF q, r
  <2> QED
    BY <1>1, <1>2, <1>h
<1>4. ((q + k) * n + r) % n = r
  <2> HIDE DEF q, r
  <2> QED
    BY <1>1, <1>2, ModIs
<1> QED
  BY <1>3, <1>4

\* Counting modulo a multiple of n does not change the remainder by n.
LEMMA ModSub ==
    ASSUME NEW a \in Int, NEW b \in Int, NEW n \in Nat \ {0}, NEW m \in Nat \ {0}, (m % n) = 0
    PROVE  ((a % m) + b) % n = (a + b) % n
<1> DEFINE q == a \div m
           r == a % m
           j == m \div n
<1>1. q \in Int /\ r \in 0..(m - 1) /\ a = q * m + r
  BY DivMod
<1>2. j \in Int /\ m = j * n
  BY DivMod
<1> HIDE DEF q, r, j
<1>3. q * m = (q * j) * n /\ (q * j) \in Int
  BY <1>1, <1>2
<1>h. (q * m) \in Int /\ ((q * j) * n) \in Int
  BY <1>1, <1>2
<1>4. a + b = (r + b) + (q * j) * n
  BY <1>1, <1>3, <1>h
<1>5. ((r + b) + (q * j) * n) % n = (r + b) % n
  BY <1>1, <1>3, ModShift
<1> QED
  BY <1>4, <1>5 DEF r

\* n leaves nothing of itself.
LEMMA ModSelf ==
    ASSUME NEW n \in Nat \ {0}
    PROVE  (n % n) = 0
<1>1. (1 * n + 0) % n = 0
  BY ModIs, 1 \in Int, 0 \in 0..(n - 1), Zenon
<1>2. 1 * n + 0 = n
  OBVIOUS
<1> QED
  BY <1>1, <1>2

\* A number below n is its own remainder.
LEMMA ModSmall ==
    ASSUME NEW n \in Nat \ {0}, NEW r \in 0..(n - 1)
    PROVE  (r % n) = r
  BY ModIs, r = 0 * n + r

(* The least of a non-empty set of naturals. *)
LEMMA Least ==
    ASSUME NEW T \in SUBSET Nat, T # {}
    PROVE  \E m \in T : \A k \in 0..(m - 1) : k \notin T
<1>1. PICK m \in T : \A y \in T : ~ (<<y, m>> \in OpToRel(<, Nat))
  BY NatLessThanWellFounded, WFMin
<1>2. ASSUME NEW k \in 0..(m - 1), k \in T PROVE FALSE
  <2>1. <<k, m>> \in OpToRel(<, Nat)
    BY <1>2 DEF OpToRel
  <2> QED
    BY <2>1, <1>1, <1>2
<1> QED
  BY <1>2

-----------------------------------------------------------------------------
\* The ring's words, and what is read at a position.
Memory == [0..(Cap \div 4 - 1) -> Nat \X Nat]

Pos(head, left) == (head - left) % Cap

Length(words, pos) == words[pos \div 4][1]

\* What Reading says of left, given what it says of less.
ReadingStep(g, words, head, left) ==
  LET pos == Pos(head, left)
      n == Length(words, pos)
  IN  IF left = 0 THEN <<>>
      ELSE IF Torn(n, pos, left) THEN <<Nothing>>
      ELSE IF n = 0 THEN g[left - (Cap - pos)]
      ELSE <<RecordAt(words, pos)>> \o g[left - Need(n)]

\* What a record takes: whole words, the length and the padding included.
LEMMA PadFacts ==
    ASSUME NEW n \in Nat
    PROVE  /\ Pad(n) \in Nat /\ Need(n) \in Nat /\ (Pad(n) \div 4) \in Nat
           /\ Need(n) >= 4
           /\ Pad(n) = 4 * (Pad(n) \div 4)
           /\ Need(n) = 4 + 4 * (Pad(n) \div 4)
           /\ Pad(n) >= n
           /\ Pad(n) < n + 4
           /\ n > 0 => (Pad(n) \div 4) >= 1
  BY DEF Pad, Need

\* The capacity in bytes, words and halves.
LEMMA CapFacts ==
    /\ Cap \in Nat \ {0} /\ Width \in Nat \ {0} /\ Width >= 2 * Cap
    /\ (Width % Cap) = 0
    /\ Cap >= 8
    /\ (Cap \div 4) \in Nat /\ Cap = 4 * (Cap \div 4)
    /\ (Cap \div 2) \in Nat /\ Cap = 2 * (Cap \div 2)
<1>1. Cap \in Nat \ {0} /\ (Cap % 8) = 0 /\ Width \in Nat /\ Width >= 2 * Cap /\ (Width % Cap) = 0
  BY CapAssumption
<1> QED
  BY <1>1

\* Every position lies in the memory.
LEMMA PosFacts ==
    ASSUME NEW head \in Int, NEW left \in Int
    PROVE  Pos(head, left) \in 0..(Cap - 1)
  BY CapFacts, DivMod, head - left \in Int DEF Pos

\* Every position holds a word, and a word reads as a length.
LEMMA LengthFacts ==
    ASSUME NEW words \in Memory, NEW pos \in 0..(Cap - 1)
    PROVE  (pos \div 4) \in 0..(Cap \div 4 - 1) /\ words[pos \div 4] \in Nat \X Nat /\ Length(words, pos) \in Nat
<1>1. (pos \div 4) \in 0..(Cap \div 4 - 1)
  BY CapFacts
<1>2. words[pos \div 4] \in Nat \X Nat
  BY <1>1 DEF Memory
<1>3. Length(words, pos) \in Nat
  BY <1>2 DEF Length
<1> QED
  BY <1>1, <1>2, <1>3

\* What is read first takes some of what is left, and no more.
LEMMA Smaller ==
    ASSUME NEW n \in Nat, NEW pos \in 0..(Cap - 1), NEW left \in Nat \ {0}, ~Torn(n, pos, left)
    PROVE  /\ n = 0 => (Cap - pos) \in 1..(left - 1) /\ (left - (Cap - pos)) \in 0..(left - 1)
           /\ n # 0 => Need(n) \in 4..left /\ (left - Need(n)) \in 0..(left - 1) /\ pos + Need(n) <= Cap
<1>1. CASE n = 0
  BY <1>1, CapFacts DEF Torn
<1>2. CASE n # 0
  <2>1. Need(n) \in Nat /\ Need(n) >= 4
    BY PadFacts
  <2>2. ~(Need(n) > left) /\ ~(pos + Need(n) > Cap)
    BY <1>2 DEF Torn
  <2> QED
    BY <1>2, <2>1, <2>2, CapFacts
<1> QED
  BY <1>1, <1>2

\* That looks only at what is read of less.
LEMMA StepLooksBelow ==
    ASSUME NEW words \in Memory, NEW head \in Int, NEW left \in Nat, NEW g, NEW h,
           \A k \in 0..(left - 1) : g[k] = h[k]
    PROVE  ReadingStep(g, words, head, left) = ReadingStep(h, words, head, left)
<1> DEFINE pos == Pos(head, left)
           n == Length(words, pos)
<1>1. pos \in 0..(Cap - 1)
  BY PosFacts
<1>2. n \in Nat
  BY <1>1, LengthFacts
<1>3. CASE left = 0 \/ Torn(n, pos, left)
  BY <1>3 DEF ReadingStep
<1>4. CASE left # 0 /\ ~Torn(n, pos, left) /\ n = 0
  <2> HIDE DEF pos, n
  <2>1. g[left - (Cap - pos)] = h[left - (Cap - pos)]
    BY <1>1, <1>2, <1>4, Smaller
  <2> QED
    BY <1>4, <2>1 DEF ReadingStep, pos, n
<1>5. CASE left # 0 /\ ~Torn(n, pos, left) /\ n # 0
  <2> HIDE DEF pos, n
  <2>1. g[left - Need(n)] = h[left - Need(n)]
    BY <1>1, <1>2, <1>5, Smaller
  <2> QED
    BY <1>5, <2>1 DEF ReadingStep, pos, n
<1> QED
  BY <1>3, <1>4, <1>5

\* The equation has a solution, up to any bound.
LEMMA Solvable ==
    ASSUME NEW words \in Memory, NEW head \in Int
    PROVE  \A m \in Nat : \E g : g = [left \in 0..m |-> ReadingStep(g, words, head, left)]
<1> DEFINE Has(m) == \E g : g = [left \in 0..m |-> ReadingStep(g, words, head, left)]
           T == {m \in Nat : ~Has(m)}
<1>1. SUFFICES ASSUME T # {} PROVE FALSE
  OBVIOUS
<1>2. PICK m \in T : \A k \in 0..(m - 1) : k \notin T
  <2> HIDE DEF T
  <2>1. T \in SUBSET Nat
    BY DEF T
  <2> QED
    BY <1>1, <2>1, Least
<1>3. \E g : \A left \in 0..(m - 1) : g[left] = ReadingStep(g, words, head, left)
  <2>1. CASE m = 0
    BY <2>1
  <2>2. CASE m # 0
    <3>1. m - 1 \in 0..(m - 1) /\ m - 1 \in Nat
      BY <2>2, <1>2
    <3>2. Has(m - 1)
      BY <3>1, <1>2
    <3> QED
      BY <3>2
  <2> QED
    BY <2>1, <2>2
<1>4. PICK g : \A left \in 0..(m - 1) : g[left] = ReadingStep(g, words, head, left)
  BY <1>3
<1> DEFINE h == [left \in 0..m |-> IF left < m THEN g[left] ELSE ReadingStep(g, words, head, m)]
<1>5. m \in Nat /\ ~Has(m)
  BY <1>2
<1>6. \A k \in 0..(m - 1) : g[k] = h[k]
  BY <1>5
<1>7. ASSUME NEW left \in 0..m PROVE h[left] = ReadingStep(h, words, head, left)
  <2> HIDE DEF h
  <2>1. \A k \in 0..(left - 1) : g[k] = h[k]
    BY <1>5, <1>6
  <2>2. ReadingStep(g, words, head, left) = ReadingStep(h, words, head, left)
    BY <2>1, StepLooksBelow, left \in Nat
  <2>3. CASE left < m
    <3>1. h[left] = g[left] /\ left \in 0..(m - 1)
      BY <2>3, <1>5 DEF h
    <3> QED
      BY <3>1, <1>4, <2>2
  <2>4. CASE left = m
    <3>1. h[left] = ReadingStep(g, words, head, left)
      BY <2>4, <1>5 DEF h
    <3> QED
      BY <3>1, <2>2
  <2> QED
    BY <2>3, <2>4, <1>5
<1>8. h = [left \in 0..m |-> ReadingStep(h, words, head, left)]
  <2>1. h = [left \in 0..m |-> h[left]]
    OBVIOUS
  <2> HIDE DEF h
  <2> QED
    BY <2>1, <1>7
<1> QED
  BY <1>5, <1>8

\* What Reading is, one record or gap at a time.
LEMMA Unfolds ==
    ASSUME NEW words \in Memory, NEW head \in Int, NEW left \in 0..Cap
    PROVE  Reading(words, head)[left] = ReadingStep(Reading(words, head), words, head, left)
<1>1. PICK g : g = [k \in 0..Cap |-> ReadingStep(g, words, head, k)]
  BY Solvable, CapFacts
<1>2. Reading(words, head) = [k \in 0..Cap |-> ReadingStep(Reading(words, head), words, head, k)]
  BY <1>1, Zenon DEF Reading, ReadingStep, Pos, Length
<1> QED
  BY <1>2

-----------------------------------------------------------------------------
LEMMA ModAdd ==
    ASSUME NEW a \in Int, NEW b \in Int, NEW n \in Nat \ {0}
    PROVE  ((a % n) + b) % n = (a + b) % n
<1>1. (n % n) = 0
  BY ModSelf, Zenon
<1> QED
  BY <1>1, ModSub

\* The counters' width is a multiple of the capacity: positions survive the wrap.
LEMMA ModWord ==
    ASSUME NEW a \in Int, NEW b \in Int
    PROVE  ((a % Width) + b) % Cap = (a + b) % Cap
<1>1. Width \in Nat \ {0} /\ Cap \in Nat \ {0} /\ (Width % Cap) = 0
  BY CapFacts
<1> QED
  BY <1>1, ModSub, ZenonT(40)

\* Within the memory a position moves with what is left.
LEMMA PosPlus ==
    ASSUME NEW head \in Int, NEW left \in Int, NEW c \in Nat, Pos(head, left) + c < Cap
    PROVE  Pos(head, left - c) = Pos(head, left) + c
<1>1. Pos(head, left) \in 0..(Cap - 1) /\ Cap \in Nat \ {0}
  BY PosFacts, CapFacts
<1>2. (((head - left) % Cap) + c) % Cap = ((head - left) + c) % Cap
  <2> DEFINE a == head - left
  <2>1. a \in Int /\ c \in Int /\ Cap \in Nat \ {0}
    BY <1>1
  <2> HIDE DEF a
  <2>2. ((a % Cap) + c) % Cap = (a + c) % Cap
    BY <2>1, ModAdd, Zenon
  <2> QED
    BY <2>2 DEF a
<1>3. (Pos(head, left) + c) % Cap = Pos(head, left) + c
  BY <1>1, ModSmall
<1>4. (head - left) + c = head - (left - c)
  OBVIOUS
<1> QED
  BY <1>2, <1>3, <1>4 DEF Pos

\* Behind a gap the reading begins again at 0.
LEMMA PosPastGap ==
    ASSUME NEW head \in Int, NEW left \in Int
    PROVE  Pos(head, left - (Cap - Pos(head, left))) = 0
<1> DEFINE pos == Pos(head, left)
<1>1. pos \in 0..(Cap - 1) /\ Cap \in Nat \ {0}
  BY PosFacts, CapFacts
<1>2. (((head - left) % Cap) + (Cap - pos)) % Cap = ((head - left) + (Cap - pos)) % Cap
  <2> DEFINE a == head - left
             b == Cap - pos
  <2>1. a \in Int /\ b \in Int
    BY <1>1
  <2> HIDE DEF a, b
  <2>2. ((a % Cap) + b) % Cap = (a + b) % Cap
    BY <1>1, <2>1, ModAdd
  <2> QED
    BY <2>2 DEF a, b
<1>3. (head - left) % Cap = pos
  BY DEF Pos
<1> HIDE DEF pos
<1>4. pos + (Cap - pos) = 1 * Cap + 0
  BY <1>1
<1>5. (pos + (Cap - pos)) % Cap = 0
  BY <1>1, <1>4, ModIs
<1>6. (head - left) + (Cap - pos) = head - (left - (Cap - pos))
  BY <1>1
<1>7. ((head - left) + (Cap - pos)) % Cap = 0
  BY <1>2, <1>3, <1>5
<1> QED
  BY <1>6, <1>7 DEF Pos, pos

\* The head may be reduced to its word, and what lies below it moves away as it advances.
LEMMA PosAdvance ==
    ASSUME NEW head \in Int, NEW c \in Int, NEW left \in Int
    PROVE  Pos((head + c) % Width, left + c) = Pos(head, left)
<1>1. (((head + c) % Width) + (0 - (left + c))) % Cap = ((head + c) + (0 - (left + c))) % Cap
  <2> DEFINE a == head + c
             b == 0 - (left + c)
  <2>1. a \in Int /\ b \in Int
    OBVIOUS
  <2> HIDE DEF a, b
  <2>2. ((a % Width) + b) % Cap = (a + b) % Cap
    BY <2>1, ModWord, Zenon
  <2> QED
    BY <2>2 DEF a, b
<1>2. (head + c) + (0 - (left + c)) = head - left
  OBVIOUS
<1>3. (head + c) % Width \in Int
  BY DivMod, CapFacts
<1>4. ((head + c) % Width) + (0 - (left + c)) = ((head + c) % Width) - (left + c)
  BY <1>3
<1> QED
  BY <1>1, <1>2, <1>4 DEF Pos

Item == [len : Nat, words : Seq(Nat \X Nat)]

\* What is read at a position has as many words as its length asks for.
LEMMA RecordAtIsItem ==
    ASSUME NEW words \in Memory, NEW pos \in 0..(Cap - 1), pos + Need(Length(words, pos)) <= Cap
    PROVE  /\ RecordAt(words, pos) \in Item
           /\ RecordAt(words, pos).len = Length(words, pos)
           /\ Len(RecordAt(words, pos).words) = Pad(Length(words, pos)) \div 4
           /\ \A k \in 1..(Pad(Length(words, pos)) \div 4) :
                /\ pos \div 4 + k \in 0..(Cap \div 4 - 1)
                /\ RecordAt(words, pos).words[k] = words[pos \div 4 + k]
                /\ words[pos \div 4 + k] \in Nat \X Nat
<1> DEFINE n == Length(words, pos)
           z == Pad(n) \div 4
           q == [k \in 1..z |-> words[pos \div 4 + k]]
<1>1. n \in Nat /\ z \in Nat /\ Need(n) = 4 + 4 * z
  BY LengthFacts, PadFacts
<1>2. pos + Need(n) <= Cap
  OBVIOUS
<1>3. RecordAt(words, pos) = [len |-> n, words |-> q]
  BY DEF RecordAt, Length
<1> HIDE DEF n
<1>4. \A k \in 1..z : pos \div 4 + k \in 0..(Cap \div 4 - 1) /\ words[pos \div 4 + k] \in Nat \X Nat
  <2> HIDE DEF z, q
  <2>1. \A k \in 1..z : pos \div 4 + k \in 0..(Cap \div 4 - 1)
    BY <1>1, <1>2, CapFacts
  <2> QED
    BY <2>1 DEF Memory
<1>5. q \in Seq(Nat \X Nat) /\ Len(q) = z /\ \A k \in 1..z : q[k] = words[pos \div 4 + k]
  <2>1. \A k \in 1..z : words[pos \div 4 + k] \in Nat \X Nat
    BY <1>4
  <2> HIDE DEF z
  <2> QED
    BY <1>1, <2>1
<1> HIDE DEF q
<1> QED
  BY <1>1, <1>3, <1>4, <1>5 DEF Item, n

\* A record, its words in order.
LEMMA RecordFacts ==
    ASSUME NEW r \in Record
    PROVE  /\ r \in Item /\ r.len \in Nat \ {0}
           /\ Len(r.words) = Pad(r.len) \div 4 /\ (Pad(r.len) \div 4) \in Nat \ {0}
           /\ r.words \in Seq(Nat \X Nat)
           /\ r = [len |-> r.len, words |-> r.words]
<1>1. PICK b \in Bodies, n \in Sizes : r = Rec(b, n)
  BY DEF Record
<1>2. b \in Nat /\ n \in Nat \ {0}
  BY CapAssumption
<1> DEFINE z == Pad(n) \div 4
           q == [k \in 1..z |-> <<b, k>>]
<1>3. z \in Nat \ {0}
  BY <1>2, PadFacts
<1>4. r = [len |-> n, words |-> q]
  BY <1>1 DEF Rec
<1>5. q \in Seq(Nat \X Nat) /\ Len(q) = z
  <2> HIDE DEF z
  <2> QED
    BY <1>2, <1>3
<1> HIDE DEF q, z
<1>6. r.len = n /\ r.words = q
  BY <1>4
<1> QED
  BY <1>2, <1>3, <1>4, <1>5, <1>6 DEF Item, z

\* Before pop() has copied anything.
LEMMA NothingIsItem == Nothing \in Item
  BY DEF Nothing, Item

\* Every reading is a sequence of items.
LEMMA ReadsItems ==
    ASSUME NEW words \in Memory, NEW head \in Int
    PROVE  \A left \in 0..Cap : Reading(words, head)[left] \in Seq(Item)
<1> DEFINE R == Reading(words, head)
           T == {left \in 0..Cap : R[left] \notin Seq(Item)}
<1>1. SUFFICES ASSUME T # {} PROVE FALSE
  OBVIOUS
<1>2. PICK left \in T : \A k \in 0..(left - 1) : k \notin T
  <2> HIDE DEF T
  <2>1. T \in SUBSET Nat
    BY CapFacts DEF T
  <2> QED
    BY <1>1, <2>1, Least
<1>3. left \in 0..Cap /\ R[left] \notin Seq(Item)
  BY <1>2
<1>4. \A k \in 0..(left - 1) : R[k] \in Seq(Item)
  BY <1>2, <1>3, CapFacts
<1> DEFINE pos == Pos(head, left)
           n == Length(words, pos)
<1>5. pos \in 0..(Cap - 1) /\ n \in Nat
  <2>1. pos \in 0..(Cap - 1)
    BY PosFacts, <1>3, CapFacts
  <2> HIDE DEF pos
  <2> QED
    BY <2>1, LengthFacts
<1>6. R[left] = ReadingStep(R, words, head, left)
  BY <1>3, Unfolds
<1> HIDE DEF T, R
<1>7. CASE left = 0
  BY <1>7, <1>6, <1>3 DEF ReadingStep
<1>8. CASE left # 0 /\ Torn(n, pos, left)
  <2>1. R[left] = <<Nothing>>
    BY <1>8, <1>6 DEF ReadingStep
  <2> QED
    BY <2>1, <1>3, NothingIsItem
<1>9. CASE left # 0 /\ ~Torn(n, pos, left) /\ n = 0
  <2>1. R[left] = R[left - (Cap - pos)]
    BY <1>9, <1>6 DEF ReadingStep
  <2>2. left - (Cap - pos) \in 0..(left - 1)
    <3> HIDE DEF pos, n
    <3> QED
      BY <1>9, <1>5, <1>3, Smaller
  <2> QED
    BY <2>1, <2>2, <1>4, <1>3
<1>10. CASE left # 0 /\ ~Torn(n, pos, left) /\ n # 0
  <2>1. R[left] = <<RecordAt(words, pos)>> \o R[left - Need(n)]
    BY <1>10, <1>6 DEF ReadingStep
  <2>2. left - Need(n) \in 0..(left - 1) /\ pos + Need(n) <= Cap
    <3> HIDE DEF pos, n
    <3> QED
      BY <1>10, <1>5, <1>3, Smaller
  <2>3. RecordAt(words, pos) \in Item
    BY <1>5, <2>2, RecordAtIsItem
  <2>4. R[left - Need(n)] \in Seq(Item)
    BY <2>2, <1>4
  <2> HIDE DEF pos, n
  <2>5. <<RecordAt(words, pos)>> \o R[left - Need(n)] \in Seq(Item)
    BY <2>3, <2>4
  <2> QED
    BY <2>1, <2>5, <1>3
<1> QED
  BY <1>7, <1>8, <1>9, <1>10

-----------------------------------------------------------------------------
\* The words that lie in the last left bytes below head.
AgreeBelow(words, other, head, left) ==
  \A j \in 1..left : words[Pos(head, j) \div 4] = other[Pos(head, j) \div 4]

\* Positions below the head.
LEMMA PosIn ==
    ASSUME NEW head \in Int, NEW left \in 0..Cap
    PROVE  Pos(head, left) \in 0..(Cap - 1)
  BY PosFacts, CapFacts, left \in Int

\* Lengths below the head.
LEMMA LengthIn ==
    ASSUME NEW words \in Memory, NEW head \in Int, NEW left \in 0..Cap
    PROVE  Length(words, Pos(head, left)) \in Nat
  BY PosIn, LengthFacts

\* A record lies within what is left.
LEMMA RecordLiesBelow ==
    ASSUME NEW head \in Int, NEW left \in 1..Cap, NEW n \in Nat, n # 0, ~Torn(n, Pos(head, left), left),
           NEW k \in 0..(Pad(n) \div 4)
    PROVE  /\ left - 4 * k \in 1..left
           /\ Pos(head, left) \div 4 + k = Pos(head, left - 4 * k) \div 4
<1> DEFINE pos == Pos(head, left)
<1>1. pos \in 0..(Cap - 1) /\ Cap \in Nat /\ left \in Int
  BY PosIn, CapFacts
<1>2. Need(n) \in 4..left /\ pos + Need(n) <= Cap
  BY <1>1, Smaller, CapFacts
<1>3. (Pad(n) \div 4) \in Nat /\ Need(n) = 4 + 4 * (Pad(n) \div 4)
  BY PadFacts
<1>4. k \in Nat /\ 4 * k \in Nat /\ 4 * k <= left - 4 /\ pos + 4 * k < Cap
  <2> HIDE DEF pos
  <2> QED
    BY <1>1, <1>2, <1>3
<1>5. Pos(head, left - 4 * k) = pos + 4 * k
  BY <1>1, <1>4, PosPlus
<1> HIDE DEF pos
<1>6. (pos + 4 * k) \div 4 = pos \div 4 + k
  BY <1>1, <1>4
<1> QED
  BY <1>1, <1>4, <1>5, <1>6 DEF pos

\* Memories that agree on those words read alike.
LEMMA Frame ==
    ASSUME NEW words \in Memory, NEW other \in Memory, NEW head \in Int
    PROVE  \A left \in 0..Cap : AgreeBelow(words, other, head, left) =>
             Reading(words, head)[left] = Reading(other, head)[left]
<1> DEFINE R == Reading(words, head)
           S == Reading(other, head)
           T == {left \in 0..Cap : AgreeBelow(words, other, head, left) /\ R[left] # S[left]}
<1>1. SUFFICES ASSUME T # {} PROVE FALSE
  OBVIOUS
<1>2. PICK left \in T : \A k \in 0..(left - 1) : k \notin T
  <2> HIDE DEF T
  <2>1. T \in SUBSET Nat
    BY CapFacts DEF T
  <2> QED
    BY <1>1, <2>1, Least
<1>3. left \in 0..Cap /\ AgreeBelow(words, other, head, left) /\ R[left] # S[left]
  BY <1>2
<1>4. \A k \in 0..(left - 1) : R[k] = S[k]
  <2> TAKE k \in 0..(left - 1)
  <2>1. k \in 0..Cap /\ \A j \in 1..k : j \in 1..left
    BY <1>3, CapFacts
  <2>2. AgreeBelow(words, other, head, k)
    BY <2>1, <1>3 DEF AgreeBelow
  <2> QED
    BY <2>1, <2>2, <1>2
<1> DEFINE pos == Pos(head, left)
           n == Length(words, pos)
<1>5. pos \in 0..(Cap - 1) /\ n \in Nat
  BY PosIn, LengthIn, <1>3
<1>6. R[left] = ReadingStep(R, words, head, left) /\ S[left] = ReadingStep(S, other, head, left)
  BY <1>3, Unfolds
<1> HIDE DEF T, R, S
<1>7. CASE left = 0
  BY <1>7, <1>6, <1>3 DEF ReadingStep
<1>b. CASE left # 0
  <2>1. left \in 1..Cap
    BY <1>b, <1>3, CapFacts
  <2>2. Length(other, pos) = n
    BY <2>1, <1>3 DEF AgreeBelow, Length
  <2>8. CASE Torn(n, pos, left)
    BY <2>8, <2>2, <1>6, <1>3 DEF ReadingStep
  <2>9. CASE ~Torn(n, pos, left) /\ n = 0
    <3>1. R[left] = R[left - (Cap - pos)] /\ S[left] = S[left - (Cap - pos)]
      BY <2>9, <1>b, <2>2, <1>6 DEF ReadingStep
    <3>2. left - (Cap - pos) \in 0..(left - 1)
      <4> HIDE DEF pos, n
      <4> QED
        BY <2>9, <1>5, <2>1, Smaller, CapFacts
    <3> QED
      BY <3>1, <3>2, <1>4, <1>3
  <2>10. CASE ~Torn(n, pos, left) /\ n # 0
    <3>1. R[left] = <<RecordAt(words, pos)>> \o R[left - Need(n)] /\ S[left] = <<RecordAt(other, pos)>> \o S[left - Need(n)]
      BY <2>10, <1>b, <2>2, <1>6 DEF ReadingStep
    <3>2. left - Need(n) \in 0..(left - 1) /\ pos + Need(n) <= Cap
      <4> HIDE DEF pos, n
      <4> QED
        BY <2>10, <1>5, <2>1, Smaller, CapFacts
    <3>3. \A k \in 1..(Pad(n) \div 4) : words[pos \div 4 + k] = other[pos \div 4 + k]
      <4> TAKE k \in 1..(Pad(n) \div 4)
      <4>1. k \in 0..(Pad(n) \div 4)
        BY PadFacts, <1>5
      <4>2. left - 4 * k \in 1..left /\ pos \div 4 + k = Pos(head, left - 4 * k) \div 4
        BY <4>1, <2>1, <2>10, <1>5, RecordLiesBelow
      <4> QED
        BY <4>2, <1>3 DEF AgreeBelow
    <3>4. RecordAt(words, pos) = RecordAt(other, pos)
      BY <3>3, <2>2 DEF RecordAt, Length
    <3> QED
      BY <3>1, <3>2, <3>4, <1>4, <1>3
  <2> QED
    BY <2>8, <2>9, <2>10
<1> QED
  BY <1>7, <1>b

\* The first thing in a sound reading.
LEMMA First ==
    ASSUME NEW words \in Memory, NEW head \in Int, NEW left \in 1..Cap, Reading(words, head)[left] \in Seq(Record)
    PROVE  LET pos == Pos(head, left)
               n == Length(words, pos)
               R == Reading(words, head)
           IN  /\ pos \in 0..(Cap - 1) /\ n \in Nat
               /\ ~Torn(n, pos, left)
               /\ n = 0 => /\ left - (Cap - pos) \in 1..(left - 1)
                           /\ R[left] = R[left - (Cap - pos)]
                           /\ Pos(head, left - (Cap - pos)) = 0
                           /\ Length(words, 0) # 0
               /\ n # 0 => /\ pos + Need(n) <= Cap /\ left - Need(n) \in 0..(left - 1)
                           /\ RecordAt(words, pos) \in Record
                           /\ R[left - Need(n)] \in Seq(Record)
                           /\ R[left] = <<RecordAt(words, pos)>> \o R[left - Need(n)]
<1> DEFINE pos == Pos(head, left)
           n == Length(words, pos)
           R == Reading(words, head)
<1>1. left \in 0..Cap /\ left \in Nat /\ left # 0
  BY CapFacts
<1>2. pos \in 0..(Cap - 1) /\ n \in Nat
  BY <1>1, PosIn, LengthIn
<1>3. R[left] = ReadingStep(R, words, head, left)
  BY <1>1, Unfolds
<1>4. \A k \in 0..Cap : R[k] \in Seq(Item)
  BY ReadsItems
<1>5. Nothing \notin Record
  BY RecordFacts DEF Nothing
<1>6. ~Torn(n, pos, left)
  <2>1. SUFFICES ASSUME Torn(n, pos, left) PROVE FALSE
    OBVIOUS
  <2>2. R[left] = <<Nothing>>
    BY <2>1, <1>1, <1>3 DEF ReadingStep
  <2> HIDE DEF R
  <2>3. R[left] \in Seq(Record)
    BY DEF R
  <2> QED
    BY <2>2, <2>3, <1>5
<1>7. ASSUME n = 0
      PROVE  /\ left - (Cap - pos) \in 1..(left - 1)
             /\ R[left] = R[left - (Cap - pos)]
             /\ Pos(head, left - (Cap - pos)) = 0
             /\ Length(words, 0) # 0
  <2> DEFINE m == left - (Cap - pos)
  <2>1. m \in 1..(left - 1)
    <3> HIDE DEF pos, n
    <3> QED
      BY <1>1, <1>2, <1>6, <1>7, Smaller, CapFacts
  <2>2. R[left] = R[m]
    BY <1>1, <1>3, <1>6, <1>7 DEF ReadingStep
  <2>3. Pos(head, m) = 0
    BY PosPastGap, <1>1
  <2>4. m \in 0..Cap
    <3> HIDE DEF m
    <3> QED
      BY <2>1, <1>1, CapFacts
  <2>5. R[m] = ReadingStep(R, words, head, m)
    BY <2>4, Unfolds
  <2>6. ASSUME Length(words, 0) = 0 PROVE FALSE
    <3>1. Torn(0, 0, m)
      <4> HIDE DEF m
      <4> QED
        BY <2>4, CapFacts DEF Torn
    <3>2. R[m] = <<Nothing>>
      <4> HIDE DEF m, R
      <4> QED
        BY <2>1, <2>3, <2>5, <2>6, <3>1, <1>1 DEF ReadingStep
    <3> HIDE DEF R, m
    <3>3. R[left] \in Seq(Record)
      BY DEF R
    <3> QED
      BY <2>2, <3>2, <3>3, <1>5
  <2> QED
    BY <2>1, <2>2, <2>3, <2>6
<1>8. ASSUME n # 0
      PROVE  /\ pos + Need(n) <= Cap /\ left - Need(n) \in 0..(left - 1)
             /\ RecordAt(words, pos) \in Record
             /\ R[left - Need(n)] \in Seq(Record)
             /\ R[left] = <<RecordAt(words, pos)>> \o R[left - Need(n)]
  <2>1. R[left] = <<RecordAt(words, pos)>> \o R[left - Need(n)]
    BY <1>1, <1>3, <1>6, <1>8 DEF ReadingStep
  <2>2. left - Need(n) \in 0..(left - 1) /\ pos + Need(n) <= Cap
    <3> HIDE DEF pos, n
    <3> QED
      BY <1>1, <1>2, <1>6, <1>8, Smaller
  <2>3. R[left - Need(n)] \in Seq(Item)
    BY <2>2, <1>1, <1>4, CapFacts
  <2>4. RecordAt(words, pos) \in Item
    BY <1>2, <2>2, RecordAtIsItem
  <2>5. R[left] \in Seq(Record)
    OBVIOUS
  <2> DEFINE r == RecordAt(words, pos)
             s == R[left - Need(n)]
             q == R[left]
  <2>6. r \in Item /\ s \in Seq(Item) /\ q \in Seq(Record) /\ q = <<r>> \o s
    BY <2>1, <2>3, <2>4, <2>5
  <2>7. r \in Record /\ s \in Seq(Record)
    <3> HIDE DEF r, s, q
    <3>1. Len(q) = 1 + Len(s) /\ q[1] = r /\ \A i \in 1..Len(s) : q[i + 1] = s[i]
      BY <2>6
    <3>2. \A i \in 1..Len(q) : q[i] \in Record
      BY <2>6
    <3>3. Len(s) \in Nat
      BY <2>6
    <3>4. r \in Record
      BY <3>1, <3>2, <3>3
    <3>5. \A i \in 1..Len(s) : s[i] \in Record
      BY <3>1, <3>2, <3>3
    <3>6. s = [i \in 1..Len(s) |-> s[i]]
      BY <2>6
    <3> QED
      BY <3>3, <3>4, <3>5, <3>6
  <2> QED
    BY <2>1, <2>2, <2>7
<1> QED
  BY <1>2, <1>6, <1>7, <1>8

-----------------------------------------------------------------------------
\* Appending commutes with a first element.
LEMMA ConcatAppend ==
    ASSUME NEW S, NEW x \in S, NEW y \in S, NEW s \in Seq(S)
    PROVE  <<x>> \o Append(s, y) = Append(<<x>> \o s, y)
<1>1. Append(s, y) = s \o <<y>>
  BY AppendIsConcat
<1>2. <<x>> \in Seq(S) /\ <<y>> \in Seq(S) /\ <<x>> \o s \in Seq(S)
  OBVIOUS
<1>3. <<x>> \o (s \o <<y>>) = (<<x>> \o s) \o <<y>>
  BY <1>2, ConcatAssociative
<1>4. Append(<<x>> \o s, y) = (<<x>> \o s) \o <<y>>
  BY <1>2, AppendIsConcat
<1> QED
  BY <1>1, <1>3, <1>4

\* A sequence with a first element, taken apart.
LEMMA FrontFacts ==
    ASSUME NEW S, NEW x \in S, NEW s \in Seq(S)
    PROVE  /\ <<x>> \o s \in Seq(S) /\ <<x>> \o s # <<>>
           /\ Head(<<x>> \o s) = x /\ Tail(<<x>> \o s) = s
<1> DEFINE q == <<x>> \o s
<1>1. q \in Seq(S) /\ Len(q) = 1 + Len(s) /\ q[1] = x /\ \A i \in 1..Len(s) : q[i + 1] = s[i]
  OBVIOUS
<1>2. Len(s) \in Nat /\ s = [i \in 1..Len(s) |-> s[i]]
  OBVIOUS
<1> HIDE DEF q
<1>3. q # <<>> /\ Head(q) = x
  BY <1>1, <1>2
<1>4. Tail(q) \in Seq(S) /\ Len(Tail(q)) = Len(s) /\ \A i \in 1..Len(s) : Tail(q)[i] = s[i]
  BY <1>1, <1>2, <1>3
<1>5. Tail(q) = s
  BY <1>4, SeqEqual
<1> QED
  BY <1>1, <1>3, <1>5 DEF q

\* A record that is published comes last; what was read before stays as it was.
LEMMA Appends ==
    ASSUME NEW words \in Memory, NEW head \in Int, NEW c \in Nat, NEW r \in Record,
           Reading(words, (head + c) % Width)[c] = <<r>>
    PROVE  \A left \in Nat :
             left + c <= Cap /\ Reading(words, head)[left] \in Seq(Record) =>
               Reading(words, (head + c) % Width)[left + c] = Append(Reading(words, head)[left], r)
<1> DEFINE ahead == (head + c) % Width
           R == Reading(words, head)
           S == Reading(words, ahead)
           T == {left \in Nat : left + c <= Cap /\ R[left] \in Seq(Record) /\ S[left + c] # Append(R[left], r)}
<1>1. SUFFICES ASSUME T # {} PROVE FALSE
  OBVIOUS
<1>2. PICK left \in T : \A k \in 0..(left - 1) : k \notin T
  <2> HIDE DEF T
  <2>1. T \in SUBSET Nat
    BY DEF T
  <2> QED
    BY <1>1, <2>1, Least
<1>3. left \in Nat /\ left + c <= Cap /\ R[left] \in Seq(Record) /\ S[left + c] # Append(R[left], r)
  BY <1>2
<1>4. \A k \in 0..(left - 1) : R[k] \in Seq(Record) => S[k + c] = Append(R[k], r)
  <2> TAKE k \in 0..(left - 1)
  <2>1. k \in Nat /\ k + c <= Cap
    BY <1>3, CapFacts
  <2>2. k \notin T
    BY <1>2
  <2> HIDE DEF R, S
  <2> QED
    BY <2>1, <2>2
<1>5. S[c] = <<r>> /\ ahead \in Int
  BY DivMod, CapFacts, head + c \in Int
<1> HIDE DEF T
<1>6. CASE left = 0
  <2>1. R[0] = ReadingStep(R, words, head, 0)
    BY Unfolds, CapFacts
  <2>2. R[0] = <<>>
    BY <2>1 DEF ReadingStep
  <2> HIDE DEF R, S, ahead
  <2>3. Append(<<>>, r) = <<r>> /\ 0 + c = c
    OBVIOUS
  <2> QED
    BY <1>6, <2>2, <2>3, <1>3, <1>5
<1>7. CASE left # 0
  <2> DEFINE pos == Pos(head, left)
             n == Length(words, pos)
  <2>1. left \in 1..Cap /\ left + c \in 0..Cap /\ left + c # 0
    BY <1>7, <1>3, CapFacts
  <2>2. /\ pos \in 0..(Cap - 1) /\ n \in Nat
        /\ ~Torn(n, pos, left)
        /\ n = 0 => /\ left - (Cap - pos) \in 1..(left - 1)
                    /\ R[left] = R[left - (Cap - pos)]
        /\ n # 0 => /\ left - Need(n) \in 0..(left - 1)
                    /\ pos + Need(n) <= Cap
                    /\ RecordAt(words, pos) \in Record
                    /\ R[left - Need(n)] \in Seq(Record)
                    /\ R[left] = <<RecordAt(words, pos)>> \o R[left - Need(n)]
    BY <2>1, <1>3, First
  <2>3. Pos(ahead, left + c) = pos
    <3>1. c \in Int /\ left \in Int
      BY <1>3
    <3> QED
      BY <3>1, PosAdvance, Zenon
  <2>4. S[left + c] = ReadingStep(S, words, ahead, left + c)
    BY <2>1, <1>5, Unfolds
  <2>l. Length(words, Pos(ahead, left + c)) = n
    BY <2>3
  <2> HIDE DEF R, S, ahead, pos, n
  <2>5. ~Torn(n, pos, left + c)
    <3>1. Need(n) \in Nat
      BY <2>2, PadFacts
    <3>2. CASE n = 0
      BY <3>2, <2>2, <1>3, CapFacts
        DEF Torn
    <3>3. CASE n # 0
      <4>1. ~(Need(n) > left) /\ ~(pos + Need(n) > Cap)
        BY <3>3, <2>2 DEF Torn
      <4> QED
        BY <3>1, <3>3, <4>1, <1>3 DEF Torn
    <3> QED
      BY <3>2, <3>3
  <2> DEFINE all == left + c
  <2>t. all # 0 /\ ~Torn(n, pos, all) /\ Pos(ahead, all) = pos /\ Length(words, pos) = n /\ S[all] = ReadingStep(S, words, ahead, all)
    BY <2>1, <2>3, <2>l, <2>4, <2>5
  <2> HIDE DEF all
  <2>6. CASE n = 0
    <3> DEFINE m == left - (Cap - pos)
    <3>1. S[all] = S[all - (Cap - pos)]
      BY <2>t, <2>6 DEF ReadingStep
    <3>2. m \in 0..(left - 1) /\ R[left] = R[m]
      BY <2>1, <2>2, <2>6
    <3>3. all - (Cap - pos) = m + c
      BY <2>2, <1>3, CapFacts DEF all
    <3> HIDE DEF m
    <3> QED
      BY <3>1, <3>2, <3>3, <1>3, <1>4 DEF all
  <2>7. CASE n # 0
    <3> DEFINE m == left - Need(n)
               x == RecordAt(words, pos)
    <3>1. S[all] = <<x>> \o S[all - Need(n)]
      BY <2>t, <2>7 DEF ReadingStep
    <3>2. m \in 0..(left - 1) /\ x \in Record /\ R[m] \in Seq(Record) /\ R[left] = <<x>> \o R[m]
      BY <2>2, <2>7
    <3>n. Need(n) \in Nat
      BY <2>2, PadFacts
    <3>3. all - Need(n) = m + c
      BY <3>n, <1>3 DEF all
    <3>4. S[m + c] = Append(R[m], r)
      BY <3>2, <1>4
    <3> HIDE DEF m, x
    <3>5. <<x>> \o Append(R[m], r) = Append(<<x>> \o R[m], r)
      BY <3>2, ConcatAppend
    <3> QED
      BY <3>1, <3>2, <3>3, <3>4, <3>5, <1>3 DEF all
  <2> QED
    BY <2>6, <2>7
<1> QED
  BY <1>6, <1>7, <1>3

-----------------------------------------------------------------------------
\* The same for a counter that is subtracted.
LEMMA ModSubNeg ==
    ASSUME NEW a \in Int, NEW b \in Int, NEW n \in Nat \ {0}, NEW m \in Nat \ {0}, (m % n) = 0
    PROVE  (b - (a % m)) % n = (b - a) % n
<1> DEFINE q == a \div m
           r == a % m
           j == m \div n
<1>1. q \in Int /\ r \in 0..(m - 1) /\ a = q * m + r
  BY DivMod
<1>2. j \in Int /\ m = j * n
  BY DivMod
<1> HIDE DEF q, r, j
<1>3. q * m = (q * j) * n /\ (q * j) \in Int
  BY <1>1, <1>2
<1>h. (q * m) \in Int /\ ((q * j) * n) \in Int
  BY <1>1, <1>2
<1>4. b - r = (b - a) + (q * j) * n
  BY <1>1, <1>3, <1>h
<1>5. ((b - a) + (q * j) * n) % n = (b - a) % n
  <2>1. b - a \in Int
    OBVIOUS
  <2> QED
    BY <2>1, <1>3, ModShift
<1> QED
  BY <1>4, <1>5 DEF r

\* A counter reduced to its word may be subtracted.
LEMMA ModWordNeg ==
    ASSUME NEW a \in Int, NEW b \in Int
    PROVE  /\ (b - (a % Width)) % Cap = (b - a) % Cap
           /\ (b - (a % Width)) % Width = (b - a) % Width
<1>1. Width \in Nat \ {0} /\ Cap \in Nat \ {0} /\ (Width % Cap) = 0
  BY CapFacts
<1>2. (Width % Width) = 0
  BY <1>1, ModSelf, Zenon
<1>3. (b - (a % Width)) % Cap = (b - a) % Cap
  BY <1>1, ModSubNeg, ZenonT(40)
<1>4. (b - (a % Width)) % Width = (b - a) % Width
  BY <1>1, <1>2, ModSubNeg, ZenonT(40)
<1> QED
  BY <1>3, <1>4

\* The two counters and the bytes between them.
Counter == 0..(Width - 1)

Between(head, tail) == (head - tail) % Width

\* The distance of two counters, and where the tail stands.
LEMMA BetweenFacts ==
    ASSUME NEW head \in Counter, NEW tail \in Counter
    PROVE  /\ Between(head, tail) \in Counter
           /\ Between(head, head) = 0
           /\ Pos(head, Between(head, tail)) = tail % Cap
           /\ (tail % Cap) \in 0..(Cap - 1)
           /\ Between(head, tail) = 0 => head = tail
<1> DEFINE a == head - tail
<1>1. a \in Int /\ head \in Int /\ tail \in Int /\ Width \in Nat \ {0} /\ Cap \in Nat \ {0} /\ (Width % Cap) = 0
  BY CapFacts DEF Counter
<1>2. Between(head, tail) \in Counter
  BY <1>1, DivMod DEF Between, Counter
<1>3. Between(head, head) = 0
  <2>1. head - head = 0 * Width + 0
    BY <1>1
  <2> QED
    BY <2>1, <1>1, ModIs DEF Between
<1>4. Pos(head, Between(head, tail)) = tail % Cap
  <2>1. head - a = tail
    BY <1>1
  <2> HIDE DEF a
  <2>2. (head - (a % Width)) % Cap = (head - a) % Cap
    BY <1>1, ModWordNeg, Zenon
  <2>3. Between(head, tail) = a % Width
    BY DEF a, Between
  <2> QED
    BY <2>1, <2>2, <2>3 DEF Pos
<1>5. (tail % Cap) \in 0..(Cap - 1)
  BY <1>1, DivMod
<1>6. ASSUME Between(head, tail) = 0 PROVE head = tail
  <2>1. CASE a >= 0
    <3>1. a \in 0..(Width - 1)
      BY <2>1, <1>1 DEF Counter
    <3> HIDE DEF a
    <3>2. (a % Width) = a
      BY <3>1, <1>1, ModSmall
    <3> QED
      BY <3>2, <1>6, <1>1 DEF Between, a
  <2>2. CASE a < 0
    <3>1. a + Width \in 0..(Width - 1) /\ a = (0 - 1) * Width + (a + Width)
      BY <2>2, <1>1 DEF Counter
    <3> DEFINE b == a + Width
    <3>2. b # 0
      BY <1>1 DEF Counter
    <3>3. b \in 0..(Width - 1) /\ a = (0 - 1) * Width + b
      BY <3>1
    <3> HIDE DEF b
    <3>4. ((0 - 1) * Width + b) % Width = b
      BY <3>3, <1>1, ModIs, (0 - 1) \in Int
    <3>5. (a % Width) = b
      BY <3>3, <3>4
    <3> QED
      BY <3>2, <3>5, <1>6 DEF Between
  <2> QED
    BY <1>1, <2>1, <2>2
<1> QED
  BY <1>2, <1>3, <1>4, <1>5, <1>6

\* The head moves on: there is that much more below it.
LEMMA HeadMoves ==
    ASSUME NEW head \in Counter, NEW tail \in Counter, NEW c \in Nat, Between(head, tail) + c < Width
    PROVE  /\ (head + c) % Width \in Counter
           /\ Between((head + c) % Width, tail) = Between(head, tail) + c
<1>1. head \in Int /\ tail \in Int /\ Width \in Nat \ {0} /\ c \in Int
  BY CapFacts DEF Counter
<1> DEFINE a == head + c
           b == 0 - tail
           d == head - tail
<1>2. a \in Int /\ b \in Int /\ d \in Int /\ a + b = d + c
  BY <1>1
<1>3. (a % Width) \in Counter
  <2> HIDE DEF a
  <2> QED
    BY <1>1, <1>2, DivMod DEF Counter
<1>m. (a % Width) + b = (a % Width) - tail
  <2>1. (a % Width) \in Int
    BY <1>1, <1>3 DEF Counter
  <2> HIDE DEF a
  <2> QED
    BY <1>1, <2>1
<1>4. Between(head, tail) = d % Width /\ Between(head, tail) \in Counter
  BY BetweenFacts DEF Between
<1> HIDE DEF a, b, d
<1>5. ((a % Width) + b) % Width = (a + b) % Width
  BY <1>1, <1>2, ModAdd, Zenon
<1>6. ((d % Width) + c) % Width = (d + c) % Width
  BY <1>1, <1>2, ModAdd, Zenon
<1>7. (Between(head, tail) + c) % Width = Between(head, tail) + c
  <2>1. Between(head, tail) + c \in 0..(Width - 1)
    BY <1>1, <1>4 DEF Counter
  <2> QED
    BY <2>1, <1>1, ModSmall
<1>8. ((a % Width) - tail) % Width = Between(head, tail) + c
  BY <1>2, <1>m, <1>4, <1>5, <1>6, <1>7
<1> QED
  BY <1>3, <1>8 DEF Between, a

\* The tail moves on: there is that much less.
LEMMA TailMoves ==
    ASSUME NEW head \in Counter, NEW tail \in Counter, NEW c \in 0..Between(head, tail)
    PROVE  /\ (tail + c) % Width \in Counter
           /\ Between(head, (tail + c) % Width) = Between(head, tail) - c
<1>0. Between(head, tail) \in Counter
  BY BetweenFacts
<1>1. head \in Int /\ tail \in Int /\ Width \in Nat \ {0} /\ c \in Int
  BY <1>0, CapFacts DEF Counter
<1> DEFINE a == tail + c
           d == head - tail
           e == 0 - c
<1>2. a \in Int /\ d \in Int /\ e \in Int /\ head - a = d + e
  BY <1>1
<1>3. (a % Width) \in Counter
  BY <1>1, <1>2, DivMod DEF Counter
<1>4. Between(head, tail) = d % Width
  BY DEF Between
<1>7. ((d % Width) + e) % Width = Between(head, tail) - c
  <2>1. (d % Width) + e = Between(head, tail) - c /\ Between(head, tail) - c \in 0..(Width - 1)
    BY <1>0, <1>1, <1>4 DEF Counter
  <2> HIDE DEF d, e
  <2> QED
    BY <2>1, <1>1, ModSmall
<1> HIDE DEF a, d, e
<1>5. (head - (a % Width)) % Width = (head - a) % Width
  BY <1>1, <1>2, ModWordNeg, Zenon
<1>6. ((d % Width) + e) % Width = (d + e) % Width
  BY <1>1, <1>2, ModAdd, Zenon
<1>8. (head - (a % Width)) % Width = Between(head, tail) - c
  BY <1>2, <1>5, <1>6, <1>7
<1> QED
  BY <1>3, <1>8 DEF Between, a

\* Counters wrap between words.
LEMMA WidthAligned == (Width % 4) = 0
<1> DEFINE j == Width \div Cap
           i == Cap \div 4
<1>1. j \in Int /\ Width = j * Cap + (Width % Cap)
  BY DivMod, CapFacts
<1>2. i \in Int /\ Cap = 4 * i
  BY CapFacts
<1>3. Width = j * Cap
  BY <1>1, CapFacts
<1> HIDE DEF i, j
<1>4. j * Cap = (j * i) * 4 + 0 /\ (j * i) \in Int
  BY <1>1, <1>2
<1>5. ((j * i) * 4 + 0) % 4 = 0
  BY <1>4, ModIs
<1> QED
  BY <1>3, <1>4, <1>5

\* A counter that moves by whole words stays at a word.
LEMMA AlignedMove ==
    ASSUME NEW x \in Counter, NEW c \in Nat, (x % 4) = 0, (c % 4) = 0
    PROVE  ((x + c) % Width) % 4 = 0
<1> DEFINE a == x + c
<1>1. a \in Int /\ (a % 4) = 0 /\ Width \in Nat \ {0}
  BY CapFacts DEF Counter
<1> HIDE DEF a
<1>2. ((a % Width) + 0) % 4 = (a + 0) % 4
  BY <1>1, ModSub, WidthAligned, 4 \in Nat \ {0}, 0 \in Int, Zenon
<1>3. (a % Width) \in Int
  BY <1>1, DivMod
<1>4. ((a % Width) + 0) % 4 = (a % Width) % 4
  BY <1>3
<1> QED
  BY <1>1, <1>2, <1>4 DEF a

\* A counter at a word stands at a word of the memory.
LEMMA AlignedPos ==
    ASSUME NEW x \in Counter, (x % 4) = 0
    PROVE  (x % Cap) % 4 = 0
<1>1. x \in Int /\ Cap \in Nat \ {0} /\ (Cap % 4) = 0
  BY CapFacts DEF Counter
<1>2. ((x % Cap) + 0) % 4 = (x + 0) % 4
  BY <1>1, ModSub, 4 \in Nat \ {0}, 0 \in Int, Zenon
<1>3. (x % Cap) \in Int
  BY <1>1, DivMod
<1>4. ((x % Cap) + 0) % 4 = (x % Cap) % 4
  BY <1>3
<1> QED
  BY <1>1, <1>2, <1>4

-----------------------------------------------------------------------------
(* What the producer writes lies above the head, and so outside of what the *)
(* consumer may read.                                                       *)
LEMMA AboveIsOutside ==
    ASSUME NEW head \in Int, NEW used \in Nat, NEW s \in Nat, NEW j \in 1..used,
           used + s + 4 <= Cap, NEW w \in 0..(Cap - 1), w = Pos(head, 0 - s), (w % 4) = 0
    PROVE  Pos(head, j) \div 4 # w \div 4
<1> DEFINE p == Pos(head, j)
<1>0. Cap \in Nat \ {0} /\ (Cap % 4) = 0
  BY CapFacts
<1>1. SUFFICES ASSUME p \div 4 = w \div 4 PROVE FALSE
  OBVIOUS
<1>2. p \in 0..(Cap - 1)
  BY PosFacts, j \in Int
<1> DEFINE r == p - w
<1>3. r \in 0..3 /\ p = w + r
  <2> HIDE DEF p
  <2> QED
    BY <1>1, <1>2
<1> HIDE DEF r
<1>4. w + r < Cap
  <2> HIDE DEF p
  <2>1. p < Cap
    BY <1>2, <1>0
  <2>2. w + r = p
    BY <1>3
  <2> QED
    BY <2>1, <2>2
<1>5. Pos(head, (0 - s) - r) = w + r
  <2>1. (0 - s) \in Int /\ r \in Nat
    BY <1>3
  <2> QED
    BY <2>1, <1>4, PosPlus
<1> DEFINE a == head - j
           b == head - ((0 - s) - r)
           c == s + r + j
<1>6. a \in Int /\ b \in Int /\ c \in 0..(Cap - 1) /\ c # 0 /\ b = a + c
  BY <1>3, <1>0
<1>7. (a % Cap) = (b % Cap)
  BY <1>5, <1>3 DEF Pos
<1> HIDE DEF a, b, c
<1>8. c = ((b \div Cap) - (a \div Cap)) * Cap + 0
  <2>1. a = (a \div Cap) * Cap + (a % Cap) /\ (a \div Cap) \in Int /\ (a % Cap) \in 0..(Cap - 1)
    BY <1>0, <1>6, DivMod, Zenon
  <2>b. b = (b \div Cap) * Cap + (b % Cap) /\ (b \div Cap) \in Int
    BY <1>0, <1>6, DivMod, Zenon
  <2> DEFINE x == a \div Cap
             y == b \div Cap
             m == a % Cap
  <2>2. a = x * Cap + m /\ b = y * Cap + m /\ x \in Int /\ y \in Int /\ m \in Int
    BY <2>1, <2>b, <1>7
  <2> HIDE DEF x, y, m
  <2>3. c = (y - x) * Cap + 0
    BY <2>2, <1>6, <1>0
  <2> QED
    BY <2>3 DEF x, y
<1>9. (c % Cap) = 0
  <2> DEFINE z == (b \div Cap) - (a \div Cap)
  <2>1. z \in Int /\ c = z * Cap + 0
    BY <1>8, <1>0, <1>6, DivMod
  <2> HIDE DEF z
  <2>2. (z * Cap + 0) % Cap = 0
    BY <2>1, <1>0, ModIs
  <2> QED
    BY <2>1, <2>2
<1>10. (c % Cap) = c
  BY <1>0, <1>6, ModSmall
<1> QED
  BY <1>6, <1>9, <1>10

\* A word that no reading below head meets.
Outside(i, head, used) == \A j \in 1..used : Pos(head, j) \div 4 # i

Written(words, i, v) == [words EXCEPT ![i] = v]

SameReading(words, other, head, used) ==
  /\ \A left \in 0..used : Reading(other, head)[left] = Reading(words, head)[left]
  /\ \A left \in 1..used : other[Pos(head, left) \div 4] = words[Pos(head, left) \div 4]

\* A word written outside of what may be read leaves every reading as it was.
LEMMA WriteKeeps ==
    ASSUME NEW words \in Memory, NEW head \in Int, NEW used \in 0..Cap,
           NEW i \in 0..(Cap \div 4 - 1), Outside(i, head, used), NEW v \in Nat \X Nat,
           NEW other, other = Written(words, i, v)
    PROVE  other \in Memory /\ SameReading(words, other, head, used)
<1>0. other = [words EXCEPT ![i] = v]
  BY DEF Written
<1>1. other \in Memory
  BY <1>0 DEF Memory
<1>2. \A left \in 1..used : other[Pos(head, left) \div 4] = words[Pos(head, left) \div 4]
  <2> TAKE left \in 1..used
  <2>1. Pos(head, left) \div 4 # i
    BY DEF Outside
  <2>2. left \in 0..Cap
    BY CapFacts
  <2>3. Pos(head, left) \in 0..(Cap - 1)
    BY <2>2, PosIn
  <2>4. Pos(head, left) \div 4 \in 0..(Cap \div 4 - 1)
    BY <2>3, LengthFacts
  <2> QED
    BY <1>0, <2>1, <2>4 DEF Memory
<1>3. ASSUME NEW left \in 0..used PROVE Reading(other, head)[left] = Reading(words, head)[left]
  <2>1. left \in 0..Cap /\ \A j \in 1..left : j \in 1..used
    BY CapFacts
  <2>2. AgreeBelow(other, words, head, left)
    BY <2>1, <1>2 DEF AgreeBelow
  <2> QED
    BY <2>1, <2>2, <1>1, Frame
<1> QED
  BY <1>1, <1>2, <1>3 DEF SameReading

-----------------------------------------------------------------------------
(* What the record being written reserves: z bytes of gap and Need(n).       *)
GapBefore(head, n) == IF (head % Cap) + Need(n) > Cap THEN Cap - (head % Cap) ELSE 0

StartOf(head, n) == IF GapBefore(head, n) = 0 THEN head % Cap ELSE 0

\* The gap lies within the memory, and a record that fits lies behind it.
LEMMA GapFacts ==
    ASSUME NEW head \in Counter, (head % 4) = 0, NEW n \in Nat, Need(n) <= Cap \div 2
    PROVE  LET z == GapBefore(head, n)
               p == StartOf(head, n)
           IN  /\ z \in Nat /\ (z % 4) = 0
               /\ p \in 0..(Cap - 1) /\ (p % 4) = 0 /\ p + Need(n) <= Cap
               /\ p = Pos(head, 0 - z)
               /\ (head % Cap) = Pos(head, 0)
               /\ (head % Cap) \in 0..(Cap - 1) /\ ((head % Cap) % 4) = 0
               /\ z # 0 => z = Cap - (head % Cap) /\ p = 0 /\ (head % Cap) + Need(n) > Cap
               /\ z = 0 => p = head % Cap
<1> DEFINE z == GapBefore(head, n)
           p == StartOf(head, n)
           h == head % Cap
<1>0. Cap \in Nat \ {0} /\ (Cap % 4) = 0 /\ head \in Int /\ Need(n) \in Nat /\ Need(n) <= Cap /\ Need(n) >= 4
  BY CapFacts, PadFacts DEF Counter
<1>1. h \in 0..(Cap - 1) /\ (h % 4) = 0
  BY <1>0, DivMod, AlignedPos
<1>2. h = Pos(head, 0)
  BY <1>0, head - 0 = head DEF Pos
<1>3. z = IF h + Need(n) > Cap THEN Cap - h ELSE 0
  BY DEF GapBefore
<1>4. p = IF z = 0 THEN h ELSE 0
  BY DEF StartOf
<1> HIDE DEF z, p, h
<1>5. z \in Nat /\ (z % 4) = 0
  BY <1>0, <1>1, <1>3
<1>6. p \in 0..(Cap - 1) /\ (p % 4) = 0 /\ p + Need(n) <= Cap
  BY <1>0, <1>1, <1>3, <1>4
<1>7. z # 0 => z = Cap - h /\ p = 0 /\ h + Need(n) > Cap
  BY <1>0, <1>1, <1>3, <1>4
<1>8. p = Pos(head, 0 - z)
  <2>1. CASE z = 0
    BY <2>1, <1>2, <1>4
  <2>2. CASE z # 0
    <3>1. Pos(head, 0 - (Cap - Pos(head, 0))) = 0
      BY <1>0, PosPastGap
    <3> QED
      BY <3>1, <2>2, <1>2, <1>7
  <2> QED
    BY <2>1, <2>2
<1> QED
  BY <1>1, <1>2, <1>4, <1>5, <1>6, <1>7, <1>8 DEF z, p, h

\* Every word of the record being written lies outside of what may be read.
LEMMA WriteIsOutside ==
    ASSUME NEW head \in Counter, (head % 4) = 0, NEW n \in Nat, Need(n) <= Cap \div 2,
           NEW used \in Nat, used + GapBefore(head, n) + Need(n) <= Cap, NEW k \in 0..(Pad(n) \div 4)
    PROVE  LET i == StartOf(head, n) \div 4 + k
           IN  i \in 0..(Cap \div 4 - 1) /\ Outside(i, head, used)
<1> DEFINE z == GapBefore(head, n)
           p == StartOf(head, n)
<1>0. Cap \in Nat \ {0} /\ Cap = 4 * (Cap \div 4) /\ (Cap \div 4) \in Nat /\ head \in Int
  BY CapFacts DEF Counter
<1>1. z \in Nat /\ (z % 4) = 0 /\ p \in 0..(Cap - 1) /\ (p % 4) = 0 /\ p + Need(n) <= Cap /\ p = Pos(head, 0 - z)
  BY GapFacts
<1>2. Need(n) = 4 + 4 * (Pad(n) \div 4) /\ (Pad(n) \div 4) \in Nat
  BY PadFacts
<1>u. used + z + Need(n) <= Cap
  OBVIOUS
<1> HIDE DEF z, p
<1> DEFINE w == p + 4 * k
           s == z + 4 * k
<1>3. w \in 0..(Cap - 1) /\ (w % 4) = 0 /\ w \div 4 = p \div 4 + k /\ p \div 4 + k \in 0..(Cap \div 4 - 1)
  BY <1>0, <1>1, <1>2
<1>4. s \in Nat /\ used + s + 4 <= Cap /\ 4 * k \in Nat
  BY <1>0, <1>1, <1>2, <1>u
<1>5. w = Pos(head, 0 - s)
  <2>1. (0 - z) \in Int /\ Pos(head, 0 - z) + 4 * k < Cap
    BY <1>1, <1>3, <1>0
  <2>2. Pos(head, (0 - z) - 4 * k) = Pos(head, 0 - z) + 4 * k
    BY <2>1, <1>4, <1>0, PosPlus
  <2>3. (0 - z) - 4 * k = 0 - s
    BY <1>1, <1>4
  <2> QED
    BY <2>2, <2>3, <1>1
<1> HIDE DEF w, s
<1>6. ASSUME NEW j \in 1..used PROVE Pos(head, j) \div 4 # w \div 4
  BY <1>0, <1>3, <1>4, <1>5, AboveIsOutside
<1> QED
  BY <1>3, <1>6 DEF Outside, p

\* The gap's mark.
LEMMA MarkIsOutside ==
    ASSUME NEW head \in Counter, (head % 4) = 0, NEW used \in Nat, used + 4 <= Cap
    PROVE  LET i == (head % Cap) \div 4
           IN  i \in 0..(Cap \div 4 - 1) /\ Outside(i, head, used)
<1> DEFINE w == head % Cap
<1>0. Cap \in Nat \ {0} /\ Cap = 4 * (Cap \div 4) /\ (Cap \div 4) \in Nat /\ head \in Int
  BY CapFacts DEF Counter
<1>1. w \in 0..(Cap - 1) /\ (w % 4) = 0
  BY <1>0, DivMod, AlignedPos
<1>2. w = Pos(head, 0 - 0)
  BY <1>0, head - 0 = head DEF Pos
<1> HIDE DEF w
<1>3. w \div 4 \in 0..(Cap \div 4 - 1)
  BY <1>0, <1>1
<1>4. ASSUME NEW j \in 1..used PROVE Pos(head, j) \div 4 # w \div 4
  <2>1. 0 \in Nat /\ used + 0 + 4 <= Cap
    OBVIOUS
  <2> QED
    BY <2>1, <1>0, <1>1, <1>2, AboveIsOutside
<1> QED
  BY <1>3, <1>4 DEF Outside, w

\* What was written, read from the head it is published under.
LEMMA Published ==
    ASSUME NEW words \in Memory, NEW head \in Counter, (head % 4) = 0, NEW r \in Record, Need(r.len) <= Cap \div 2,
           GapBefore(head, r.len) # 0 => words[(head % Cap) \div 4][1] = 0,
           words[StartOf(head, r.len) \div 4] = LengthWord(r.len),
           \A k \in 1..(Pad(r.len) \div 4) : words[StartOf(head, r.len) \div 4 + k] = r.words[k]
    PROVE  LET c == GapBefore(head, r.len) + Need(r.len)
           IN  c <= Cap => Reading(words, (head + c) % Width)[c] = <<r>>
<1> DEFINE n == r.len
           z == GapBefore(head, n)
           p == StartOf(head, n)
           c == z + Need(n)
           ahead == (head + c) % Width
           R == Reading(words, ahead)
<1>1. SUFFICES ASSUME c <= Cap PROVE R[c] = <<r>>
  OBVIOUS
<1>2. r \in Item /\ n \in Nat \ {0} /\ Len(r.words) = Pad(n) \div 4 /\ r.words \in Seq(Nat \X Nat) /\ r = [len |-> n, words |-> r.words]
  BY RecordFacts
<1>3. Need(n) \in Nat /\ Need(n) >= 4 /\ (Pad(n) \div 4) \in Nat
  BY <1>2, PadFacts
<1>4. /\ z \in Nat /\ p \in 0..(Cap - 1) /\ p + Need(n) <= Cap /\ p = Pos(head, 0 - z)
      /\ (head % Cap) = Pos(head, 0) /\ (head % Cap) \in 0..(Cap - 1)
      /\ z # 0 => z = Cap - (head % Cap) /\ p = 0
  BY <1>2, GapFacts
<1>5. head \in Int /\ Cap \in Nat \ {0}
  BY CapFacts DEF Counter
<1>w. words[p \div 4] = LengthWord(n) /\ (\A k \in 1..(Pad(n) \div 4) : words[p \div 4 + k] = r.words[k])
      /\ (z # 0 => words[(head % Cap) \div 4][1] = 0)
  OBVIOUS
<1>a. ahead \in Int
  <2>1. c \in Int
    BY <1>3, <1>4
  <2> HIDE DEF c
  <2>2. head + c \in Int
    BY <2>1, <1>5
  <2> QED
    <3> DEFINE b == head + c
    <3>1. Width \in Nat \ {0} /\ b \in Int
      BY <2>2, CapFacts
    <3> HIDE DEF b
    <3>2. (b % Width) \in 0..(Width - 1)
      BY <3>1, DivMod, Zenon
    <3>3. (b % Width) \in Int
      BY <3>1, <3>2
    <3> QED
      BY <3>3 DEF b
<1> HIDE DEF n, z, p
<1>6. c \in 0..Cap /\ Need(n) \in 0..Cap /\ 0 \in 0..Cap /\ c \in Int
  BY <1>1, <1>3, <1>4, <1>5
<1>7. Pos(ahead, c) = Pos(head, 0)
  <2>1. Pos((head + c) % Width, 0 + c) = Pos(head, 0)
    BY <1>5, <1>6, 0 \in Int, PosAdvance, ZenonT(40)
  <2>2. 0 + c = c
    BY <1>6
  <2> QED
    BY <2>1, <2>2
<1>8. Pos(ahead, Need(n)) = p
  <2>1. 0 - z \in Int /\ (0 - z) + c = Need(n)
    BY <1>3, <1>4
  <2>2. Pos((head + c) % Width, (0 - z) + c) = Pos(head, 0 - z)
    BY <1>5, <1>6, <2>1, PosAdvance, Zenon
  <2> QED
    BY <2>1, <2>2, <1>4
<1> HIDE DEF c, ahead
<1>9. R[0] = <<>>
  <2>1. R[0] = ReadingStep(R, words, ahead, 0)
    BY <1>6, <1>a, Unfolds
  <2> QED
    BY <2>1 DEF ReadingStep
<1>10. R[Need(n)] = <<r>>
  <2>1. R[Need(n)] = ReadingStep(R, words, ahead, Need(n))
    BY <1>6, <1>a, Unfolds
  <2>2. Length(words, p) = n
    BY <1>w DEF Length, LengthWord
  <2>3. ~Torn(n, p, Need(n)) /\ Need(n) # 0 /\ n # 0 /\ Need(n) - Need(n) = 0
    <3>1. n # 0 /\ Need(n) # 0 /\ Need(n) - Need(n) = 0 /\ ~(Need(n) > Need(n))
      BY <1>2, <1>3
    <3>2. ~(p + Need(n) > Cap)
      BY <1>3, <1>4, <1>5
    <3> QED
      BY <3>1, <3>2 DEF Torn
  <2>4. RecordAt(words, p) = r
    <3>1. RecordAt(words, p) = [len |-> n, words |-> [k \in 1..(Pad(n) \div 4) |-> words[p \div 4 + k]]]
      BY <2>2 DEF RecordAt, Length
    <3>2. [k \in 1..(Pad(n) \div 4) |-> words[p \div 4 + k]] = [k \in 1..(Pad(n) \div 4) |-> r.words[k]]
      BY <1>w
    <3>3. [k \in 1..(Pad(n) \div 4) |-> r.words[k]] = r.words
      BY <1>2
    <3> QED
      BY <3>1, <3>2, <3>3, <1>2
  <2> HIDE DEF R
  <2>5. R[Need(n)] = <<RecordAt(words, p)>> \o R[0]
    BY <2>1, <2>2, <2>3, <1>8 DEF ReadingStep
  <2>6. <<r>> \o <<>> = <<r>>
    OBVIOUS
  <2> QED
    BY <2>4, <2>5, <2>6, <1>9
<1>11. CASE z = 0
  BY <1>11, <1>10, <1>3 DEF c
<1>12. CASE z # 0
  <2>1. R[c] = ReadingStep(R, words, ahead, c)
    BY <1>6, <1>a, Unfolds
  <2> DEFINE h == head % Cap
  <2>2. Length(words, h) = 0 /\ Pos(ahead, c) = h /\ z = Cap - h /\ h \in 0..(Cap - 1)
    BY <1>12, <1>w, <1>7, <1>4 DEF Length
  <2> HIDE DEF R, h
  <2>3. ~Torn(0, h, c) /\ c # 0 /\ c - (Cap - h) = Need(n)
    BY <2>2, <1>3, <1>4, <1>5 DEF c, Torn
  <2>4. R[c] = R[Need(n)]
    BY <2>1, <2>2, <2>3 DEF ReadingStep
  <2> QED
    BY <2>4, <1>10
<1> QED
  BY <1>11, <1>12

-----------------------------------------------------------------------------
(* The inductive invariant. *)

ProducerSteps == {"idle", "try", "mark", "length", "copy", "publish"}

ConsumerSteps == {"idle", "peek", "length", "copy", "release"}

RingTypes ==
  /\ hdr \in [head : Counter, tail : Counter, dropped : 0..1]
  /\ (hdr.head % 4) = 0 /\ (hdr.tail % 4) = 0
  /\ data \in Memory
  /\ producer \in [pc : ProducerSteps, item : Record \cup {Nothing}, keep : BOOLEAN, pos : Nat, done : Nat, next : Nat]
  /\ consumer \in [pc : ConsumerSteps, tail : Counter, seen : Counter, out : Item]
  /\ got \in Record \cup {Nothing}

\* Never more than the memory holds, and nothing but whole records in it.
Sound == Used <= Cap /\ Unread \in Seq(Record)

\* What the producer reserved is still free, and its place is above the head.
Reserved ==
  LET n == producer.item.len IN
  producer.pc \in {"mark", "length", "copy", "publish"} =>
    /\ ~TooLong(n) /\ Fits(n)
    /\ producer.next = (hdr.head + Skip(n) + Need(n)) % Width
    /\ producer.pc = "mark" => Skip(n) # 0 /\ producer.pos = hdr.head % Cap
    /\ producer.pc # "mark" => /\ producer.pos = StartOf(hdr.head, n)
                               /\ Skip(n) # 0 => data[(hdr.head % Cap) \div 4][1] = 0

\* What it has written there so far.
Copied ==
  LET n == producer.item.len IN
  /\ producer.pc # "idle" => producer.item \in Record
  /\ producer.pc \in {"copy", "publish"} =>
       /\ data[producer.pos \div 4] = LengthWord(n)
       /\ \A k \in 1..producer.done : data[producer.pos \div 4 + k] = producer.item.words[k]
  /\ producer.pc = "copy" => producer.done < Pad(n) \div 4
  /\ producer.pc = "publish" => producer.done = Pad(n) \div 4
  /\ producer.pc \notin {"copy", "publish"} => producer.done = 0

Left == Between(hdr.head, consumer.tail)

\* Where the consumer reads there is the first unread record, and stays.
Reads ==
  /\ consumer.pc # "idle" => Used # 0
  /\ consumer.pc = "peek" => consumer.tail = hdr.tail
  /\ consumer.pc \in {"length", "copy", "release"} =>
       /\ (consumer.tail % 4) = 0 /\ Left \in 1..Used
       /\ Length(data, consumer.tail % Cap) # 0
       /\ Reading(data, hdr.head)[Left] = Unread

\* What it has read of that record so far.
Taken ==
  LET r == Head(Unread)
      k == Len(consumer.out.words)
  IN  /\ consumer.pc \in {"idle", "peek", "length"} => consumer.out = Nothing
      /\ consumer.pc \in {"copy", "release"} =>
           /\ consumer.out.len = r.len
           /\ k <= Len(r.words)
           /\ \A i \in 1..k : consumer.out.words[i] = r.words[i]
           /\ consumer.pc = "copy" => k < Len(r.words)
           /\ consumer.pc = "release" => k = Len(r.words)

RingInv == RingTypes /\ Sound /\ Reserved /\ Copied /\ Reads /\ Taken

-----------------------------------------------------------------------------
\* Used is the distance of the two counters.
LEMMA UsedIs == Used = Between(hdr.head, hdr.tail)
  BY DEF Used, Between

\* Skip is the gap before the head.
LEMMA SkipIs == ASSUME NEW n PROVE Skip(n) = GapBefore(hdr.head, n)
  BY DEF Skip, GapBefore

\* The counters, in range.
LEMMA HdrFacts ==
    ASSUME RingTypes, Sound
    PROVE  /\ hdr.head \in Counter /\ hdr.tail \in Counter
           /\ hdr.head \in Int /\ hdr.tail \in Int
           /\ Used \in 0..Cap
           /\ Pos(hdr.head, Used) = hdr.tail % Cap
<1>1. hdr.head \in Counter /\ hdr.tail \in Counter
  BY DEF RingTypes
<1>2. Used \in Counter /\ Pos(hdr.head, Used) = hdr.tail % Cap
  BY <1>1, UsedIs, BetweenFacts
<1> QED
  BY <1>1, <1>2, CapFacts DEF Counter, Sound

\* The record the consumer stands at.
LEMMA StandsAt ==
    ASSUME RingTypes, Sound, Reads, consumer.pc \in {"length", "copy", "release"}
    PROVE  LET pos == consumer.tail % Cap
               n == Length(data, pos)
               r == Head(Unread)
           IN  /\ pos \in 0..(Cap - 1) /\ n \in Nat \ {0}
               /\ pos = Pos(hdr.head, Left) /\ Left \in 1..Used
               /\ Unread # <<>>
               /\ r \in Record /\ r = RecordAt(data, pos) /\ r.len = n
               /\ pos + Need(n) <= Cap
               /\ Need(n) \in 0..Left
               /\ Tail(Unread) = Reading(data, hdr.head)[Left - Need(n)]
               /\ Tail(Unread) \in Seq(Record)
<1> DEFINE pos == consumer.tail % Cap
           n == Length(data, pos)
           R == Reading(data, hdr.head)
<1>1. /\ hdr.head \in Counter /\ hdr.head \in Int /\ Used \in 0..Cap /\ consumer.tail \in Counter /\ data \in Memory
      /\ Left \in 1..Used /\ n # 0 /\ R[Left] = Unread /\ Unread \in Seq(Record)
  BY HdrFacts DEF RingTypes, Reads, Sound
<1>2. pos = Pos(hdr.head, Left) /\ pos \in 0..(Cap - 1)
  BY <1>1, BetweenFacts DEF Left
<1>3. Left \in 1..Cap
  BY <1>1, CapFacts
<1>4. R[Left] \in Seq(Record)
  BY <1>1
<1>5. /\ n \in Nat
      /\ pos + Need(n) <= Cap /\ Left - Need(n) \in 0..(Left - 1)
      /\ RecordAt(data, pos) \in Record
      /\ R[Left - Need(n)] \in Seq(Record)
      /\ R[Left] = <<RecordAt(data, pos)>> \o R[Left - Need(n)]
  <2> DEFINE h == hdr.head
             l == Left
             p == Pos(h, l)
             m == Length(data, p)
  <2>1. h \in Int /\ l \in 1..Cap /\ Reading(data, h)[l] \in Seq(Record) /\ data \in Memory /\ p = pos /\ m = n /\ m # 0
    BY <1>1, <1>2, <1>3, <1>4
  <2> HIDE DEF h, l
  <2>2. /\ m \in Nat
        /\ p + Need(m) <= Cap /\ l - Need(m) \in 0..(l - 1)
        /\ RecordAt(data, p) \in Record
        /\ Reading(data, h)[l - Need(m)] \in Seq(Record)
        /\ Reading(data, h)[l] = <<RecordAt(data, p)>> \o Reading(data, h)[l - Need(m)]
    BY <2>1, First
  <2> HIDE DEF p, m, pos, n
  <2> QED
    BY <2>1, <2>2 DEF h, l
<1>6. RecordAt(data, pos).len = n
  BY <1>1, <1>2, <1>5, RecordAtIsItem
<1> DEFINE s == R[Left - Need(n)]
           x == RecordAt(data, pos)
<1>7. x \in Record /\ s \in Seq(Record) /\ Unread = <<x>> \o s
  BY <1>1, <1>5
<1> HIDE DEF s, x
<1>8. Unread # <<>> /\ Head(Unread) = x /\ Tail(Unread) = s
  BY <1>7, FrontFacts
<1>9. Need(n) \in 0..Left
  <2>1. Need(n) \in Nat
    BY <1>5, PadFacts
  <2> HIDE DEF n, s, pos
  <2> QED
    BY <2>1, <1>5, <1>3
<1> QED
  BY <1>1, <1>2, <1>5, <1>6, <1>7, <1>8, <1>9 DEF s, x

-----------------------------------------------------------------------------
\* Neither counter nor memory changes: nothing that is read of them does.
LEMMA SameMemory ==
    ASSUME hdr'.head = hdr.head, hdr'.tail = hdr.tail, data' = data
    PROVE  /\ Used' = Used /\ Unread' = Unread
           /\ Sound => Sound'
           /\ consumer' = consumer /\ Reads => Reads'
           /\ consumer' = consumer /\ Taken => Taken'
<1>1. Used' = Used
  BY DEF Used
<1>2. Unread' = Unread
  BY <1>1 DEF Unread
<1>3. Sound => Sound'
  BY <1>1, <1>2 DEF Sound
<1>4. ASSUME consumer' = consumer, Reads PROVE Reads'
  BY <1>1, <1>2, <1>4 DEF Reads, Left
<1>5. ASSUME consumer' = consumer, Taken PROVE Taken'
  BY <1>2, <1>5 DEF Taken
<1> QED
  BY <1>1, <1>2, <1>3, <1>4, <1>5

\* A word is written where nothing may be read.
LEMMA WriteStep ==
    ASSUME RingTypes, Sound, Reads, Taken,
           NEW i \in 0..(Cap \div 4 - 1), Outside(i, hdr.head, Used), NEW v \in Nat \X Nat,
           data' = Written(data, i, v), hdr' = hdr, consumer' = consumer
    PROVE  data' \in Memory /\ Used' = Used /\ Unread' = Unread /\ Sound' /\ Reads' /\ Taken'
<1>1. hdr.head \in Counter /\ hdr.head \in Int /\ Used \in 0..Cap /\ data \in Memory
  BY HdrFacts DEF RingTypes
<1>2. /\ data' \in Memory
      /\ \A left \in 0..Used : Reading(data', hdr.head)[left] = Reading(data, hdr.head)[left]
      /\ \A left \in 1..Used : data'[Pos(hdr.head, left) \div 4] = data[Pos(hdr.head, left) \div 4]
  <2> DEFINE h == hdr.head
             u == Used
  <2>1. h \in Int /\ u \in 0..Cap /\ data \in Memory /\ Outside(i, h, u) /\ data' = Written(data, i, v)
    BY <1>1
  <2> HIDE DEF h, u
  <2>2. data' \in Memory /\ SameReading(data, data', h, u)
    BY <2>1, WriteKeeps, Zenon
  <2> QED
    BY <2>2, Zenon DEF h, u, SameReading
<1>3. Used' = Used
  BY DEF Used
<1>4. Unread' = Unread
  <2>1. Used \in 0..Used
    BY <1>1
  <2>2. Unread' = Reading(data', hdr.head)[Used]
    BY <1>3 DEF Unread
  <2> QED
    BY <2>1, <2>2, <1>2 DEF Unread
<1>5. Sound'
  BY <1>3, <1>4 DEF Sound
<1>6. Reads'
  <2>1. ASSUME consumer.pc \in {"length", "copy", "release"}
        PROVE  Left' \in 1..Used' /\ Length(data, consumer.tail % Cap)' # 0 /\ (Reading(data, hdr.head)[Left])' = Unread'
    <3>1. Left' = Left /\ Left \in 1..Used /\ Left \in 0..Used
      BY <2>1, <1>1 DEF Reads, Left
    <3>2. consumer.tail % Cap = Pos(hdr.head, Left)
      BY <2>1, StandsAt
    <3>3. Length(data', consumer.tail % Cap) = Length(data, consumer.tail % Cap)
      BY <3>1, <3>2, <1>2 DEF Length
    <3>4. Reading(data', hdr.head)[Left] = Unread
      BY <3>1, <1>2, <2>1 DEF Reads
    <3>5. Length(data, consumer.tail % Cap) # 0
      BY <2>1 DEF Reads
    <3> QED
      BY <3>1, <3>3, <3>4, <3>5, <1>3, <1>4
  <2> QED
    BY <2>1, <1>3 DEF Reads
<1>7. Taken'
  BY <1>4 DEF Taken
<1> QED
  BY <1>2, <1>3, <1>4, <1>5, <1>6, <1>7

-----------------------------------------------------------------------------
(* push() *)

Still == Unread' = Unread /\ got' = got

\* Offer keeps the invariant.
LEMMA OfferKeeps ==
    ASSUME RingInv, Offer
    PROVE  RingInv' /\ Still
<1> PICK b \in Bodies, n \in Sizes, keep \in BOOLEAN :
      producer' = [producer EXCEPT !.pc = "try", !.item = Rec(b, n), !.keep = keep]
  BY DEF Offer
<1>1. producer.pc = "idle" /\ hdr' = hdr /\ data' = data /\ consumer' = consumer /\ got' = got
  BY DEF Offer
<1> DEFINE r == Rec(b, n)
<1>2. r \in Record
  BY DEF Record
<1> HIDE DEF r
<1>3. producer' = [producer EXCEPT !.pc = "try", !.item = r, !.keep = keep]
  BY DEF r
<1>4. RingTypes'
  BY <1>1, <1>2, <1>3 DEF RingInv, RingTypes, ProducerSteps
<1>5. producer'.pc = "try" /\ producer'.item = r /\ producer'.done = producer.done
  BY <1>3 DEF RingInv, RingTypes
<1>6. Sound' /\ Reads' /\ Taken' /\ Unread' = Unread
  BY <1>1, SameMemory DEF RingInv
<1>7. Reserved'
  BY <1>5 DEF Reserved
<1>8. Copied'
  BY <1>1, <1>2, <1>5 DEF RingInv, Copied
<1> QED
  BY <1>1, <1>4, <1>6, <1>7, <1>8 DEF RingInv, Still

\* So do the refusals.
LEMMA RefuseKeeps ==
    ASSUME RingInv, RefuseTooLong \/ RefuseFull
    PROVE  RingInv' /\ Still
<1>1. /\ producer.pc = "try" /\ data' = data /\ consumer' = consumer /\ got' = got
      /\ producer' = producer \/ producer' = NotPushing
      /\ hdr' = [hdr EXCEPT !.dropped = (@ + 1) % 2]
  BY DEF RefuseTooLong, RefuseFull, Drop
<1>2. hdr'.head = hdr.head /\ hdr'.tail = hdr.tail /\ hdr' \in [head : Counter, tail : Counter, dropped : 0..1]
  BY <1>1 DEF RingInv, RingTypes
<1>3. RingTypes'
  <2>1. NotPushing \in [pc : ProducerSteps, item : Record \cup {Nothing}, keep : BOOLEAN, pos : Nat, done : Nat, next : Nat]
    BY DEF NotPushing, ProducerSteps
  <2> QED
    BY <1>1, <1>2, <2>1 DEF RingInv, RingTypes
<1>4. Sound' /\ Reads' /\ Taken' /\ Unread' = Unread
  BY <1>1, <1>2, SameMemory DEF RingInv
<1>5. (producer'.pc = "try" /\ producer' = producer) \/ (producer'.pc = "idle" /\ producer'.done = 0)
  BY <1>1 DEF NotPushing
<1>6. Reserved'
  BY <1>5 DEF Reserved
<1>7. Copied'
  BY <1>1, <1>5 DEF RingInv, Copied
<1> QED
  BY <1>1, <1>3, <1>4, <1>6, <1>7 DEF RingInv, Still

\* The record being pushed.
LEMMA ItemFacts ==
    ASSUME RingInv, producer.pc # "idle", ~TooLong(producer.item.len)
    PROVE  LET n == producer.item.len
               h == hdr.head % Cap
           IN  /\ producer.item \in Record
               /\ n \in Nat \ {0} /\ Need(n) \in Nat /\ Need(n) >= 4 /\ Need(n) <= Cap \div 2
               /\ Len(producer.item.words) = Pad(n) \div 4 /\ (Pad(n) \div 4) \in Nat \ {0}
               /\ hdr.head \in Counter /\ (hdr.head % 4) = 0 /\ Used \in 0..Cap
               /\ Skip(n) = GapBefore(hdr.head, n) /\ Skip(n) \in Nat
               /\ StartOf(hdr.head, n) \in 0..(Cap - 1)
               /\ h \in 0..(Cap - 1)
<1> DEFINE n == producer.item.len
<1>1. producer.item \in Record
  BY DEF RingInv, Copied
<1>2. n \in Nat \ {0} /\ Len(producer.item.words) = Pad(n) \div 4 /\ (Pad(n) \div 4) \in Nat \ {0}
  BY <1>1, RecordFacts
<1>3. Need(n) \in Nat /\ Need(n) >= 4
  BY <1>2, PadFacts
<1>4. Need(n) <= Cap \div 2
  <2>1. ~(Need(n) > Cap \div 2)
    BY DEF TooLong
  <2> HIDE DEF n
  <2> QED
    BY <2>1, <1>3, CapFacts
<1>5. hdr.head \in Counter /\ (hdr.head % 4) = 0 /\ Used \in 0..Cap
  BY HdrFacts DEF RingInv, RingTypes
<1>6. Skip(n) = GapBefore(hdr.head, n)
  BY SkipIs
<1> DEFINE head == hdr.head
<1>8. head \in Counter /\ (head % 4) = 0 /\ n \in Nat /\ Need(n) <= Cap \div 2
  BY <1>2, <1>4, <1>5
<1> HIDE DEF n, head
<1>7. GapBefore(head, n) \in Nat /\ StartOf(head, n) \in 0..(Cap - 1) /\ (head % Cap) \in 0..(Cap - 1)
  BY <1>8, GapFacts
<1> QED
  BY <1>1, <1>2, <1>3, <1>4, <1>5, <1>6, <1>7 DEF n, head

\* Reserve takes only what is free.
LEMMA ReserveKeeps ==
    ASSUME RingInv, Reserve
    PROVE  RingInv' /\ Still
<1> DEFINE n == producer.item.len
           pc == IF Skip(n) > 0 THEN "mark" ELSE "length"
           next == (hdr.head + Skip(n) + Need(n)) % Width
<1>1. /\ producer.pc = "try" /\ hdr' = hdr /\ data' = data /\ consumer' = consumer /\ got' = got
      /\ ~TooLong(n) /\ Fits(n)
      /\ producer' = [producer EXCEPT !.pc = pc, !.pos = hdr.head % Cap, !.next = next]
  BY DEF Reserve
<1>2. /\ n \in Nat \ {0} /\ Need(n) \in Nat /\ Need(n) <= Cap \div 2
      /\ hdr.head \in Counter /\ (hdr.head % 4) = 0
      /\ Skip(n) = GapBefore(hdr.head, n) /\ Skip(n) \in Nat
      /\ (hdr.head % Cap) \in 0..(Cap - 1)
  BY <1>1, ItemFacts
<1>3. next \in Nat
  <2> DEFINE a == hdr.head + Skip(n) + Need(n)
  <2>1. a \in Int
    BY <1>2, CapFacts DEF Counter
  <2> HIDE DEF a
  <2>2. Width \in Nat \ {0}
    BY CapFacts
  <2>3. (a % Width) \in 0..(Width - 1)
    BY <2>1, <2>2, DivMod
  <2>4. (a % Width) \in Nat
    BY <2>2, <2>3
  <2> QED
    BY <2>4 DEF a
<1>4. (hdr.head % Cap) \in Nat
  BY <1>2, CapFacts
<1>5. producer \in [pc : ProducerSteps, item : Record \cup {Nothing}, keep : BOOLEAN, pos : Nat, done : Nat, next : Nat]
  BY DEF RingInv, RingTypes
<1> DEFINE h == hdr.head % Cap
<1>6. /\ producer' \in [pc : ProducerSteps, item : Record \cup {Nothing}, keep : BOOLEAN, pos : Nat, done : Nat, next : Nat]
      /\ producer'.pc = pc /\ producer'.pos = h /\ producer'.next = next /\ producer'.item = producer.item
      /\ producer'.done = producer.done
  <2>1. pc \in ProducerSteps /\ h \in Nat /\ next \in Nat /\ producer' = [producer EXCEPT !.pc = pc, !.pos = h, !.next = next]
    BY <1>1, <1>3, <1>4 DEF ProducerSteps
  <2> HIDE DEF pc, h, next
  <2> QED
    BY <2>1, <1>5
<1> HIDE DEF next
<1>7. RingTypes'
  BY <1>1, <1>6 DEF RingInv, RingTypes
<1>8. Sound' /\ Reads' /\ Taken' /\ Unread' = Unread
  BY <1>1, SameMemory DEF RingInv
<1>9. producer'.item.len = n /\ ~TooLong(n)' /\ Fits(n)' /\ Skip(n)' = Skip(n)
  BY <1>1, <1>6 DEF TooLong, Fits, Skip, Used
<1>10. Skip(n) = 0 => h = StartOf(hdr.head, n)
  BY <1>2 DEF StartOf
<1>11. Reserved'
  <2>1. pc = "mark" => Skip(n) # 0
    BY <1>2
  <2>2. pc # "mark" => Skip(n) = 0
    BY <1>2
  <2>3. producer'.next = (hdr.head + Skip(n) + Need(n)) % Width
    BY <1>6 DEF next
  <2> HIDE DEF pc
  <2> QED
    BY <1>1, <1>6, <1>9, <1>10, <2>1, <2>2, <2>3 DEF Reserved
<1>12. Copied'
  <2>1. pc \in {"mark", "length"}
    OBVIOUS
  <2> HIDE DEF pc
  <2> QED
    BY <2>1, <1>1, <1>6 DEF RingInv, Copied
<1> QED
  BY <1>1, <1>7, <1>8, <1>11, <1>12 DEF RingInv, Still

\* What the producer keeps between its steps.
ProducerRecord ==
  [pc : ProducerSteps, item : Record \cup {Nothing}, keep : BOOLEAN, pos : Nat, done : Nat, next : Nat]

\* A producer that reserved room: where its words go.
LEMMA Reserving ==
    ASSUME RingInv, producer.pc \in {"mark", "length", "copy", "publish"}
    PROVE  LET n == producer.item.len
               h == hdr.head % Cap
           IN  /\ producer.item \in Record
               /\ n \in Nat \ {0} /\ Need(n) \in Nat /\ Need(n) >= 4 /\ Need(n) <= Cap \div 2
               /\ Len(producer.item.words) = Pad(n) \div 4 /\ (Pad(n) \div 4) \in Nat \ {0}
               /\ hdr.head \in Counter /\ (hdr.head % 4) = 0 /\ Used \in 0..Cap
               /\ Skip(n) = GapBefore(hdr.head, n) /\ Skip(n) \in Nat
               /\ Used + Skip(n) + Need(n) <= Cap
               /\ h \in 0..(Cap - 1)
               /\ \A k \in 0..(Pad(n) \div 4) :
                    /\ StartOf(hdr.head, n) \div 4 + k \in 0..(Cap \div 4 - 1)
                    /\ Outside(StartOf(hdr.head, n) \div 4 + k, hdr.head, Used)
               /\ h \div 4 \in 0..(Cap \div 4 - 1) /\ Outside(h \div 4, hdr.head, Used)
<1> DEFINE n == producer.item.len
           head == hdr.head
           u == Used
           z == Skip(n)
<1>1. ~TooLong(n) /\ Fits(n) /\ producer.pc # "idle"
  BY DEF RingInv, Reserved
<1>2. /\ producer.item \in Record
      /\ n \in Nat \ {0} /\ Need(n) \in Nat /\ Need(n) >= 4 /\ Need(n) <= Cap \div 2
      /\ Len(producer.item.words) = Pad(n) \div 4 /\ (Pad(n) \div 4) \in Nat \ {0}
      /\ head \in Counter /\ (head % 4) = 0 /\ u \in 0..Cap
      /\ z = GapBefore(head, n) /\ z \in Nat
      /\ (head % Cap) \in 0..(Cap - 1)
  BY <1>1, ItemFacts
<1>3. u + z + Need(n) <= Cap
  BY <1>1 DEF Fits
<1> HIDE DEF n, head, u, z
<1>4. u \in Nat /\ n \in Nat
  BY <1>2
<1>5. u + GapBefore(head, n) + Need(n) <= Cap
  BY <1>2, <1>3
<1>6. \A k \in 0..(Pad(n) \div 4) :
        /\ StartOf(head, n) \div 4 + k \in 0..(Cap \div 4 - 1)
        /\ Outside(StartOf(head, n) \div 4 + k, head, u)
  BY <1>2, <1>4, <1>5, WriteIsOutside
<1>7. u + 4 <= Cap
  BY <1>2, <1>3, <1>4, CapFacts
<1>8. (head % Cap) \div 4 \in 0..(Cap \div 4 - 1) /\ Outside((head % Cap) \div 4, head, u)
  BY <1>2, <1>4, <1>7, MarkIsOutside
<1> QED
  BY <1>2, <1>3, <1>6, <1>8 DEF n, head, u, z

\* The reservation outlives what does not touch it.
LEMMA ReservedStays ==
    ASSUME RingInv, producer.pc \in {"mark", "length", "copy", "publish"}, producer'.pc \in {"length", "copy", "publish"},
           producer'.item = producer.item, producer'.next = producer.next,
           producer'.pos = StartOf(hdr.head, producer.item.len),
           hdr' = hdr,
           Skip(producer.item.len) # 0 => data'[(hdr.head % Cap) \div 4][1] = 0
    PROVE  Reserved'
<1> DEFINE n == producer.item.len
<1>1. Used' = Used /\ Skip(n)' = Skip(n) /\ TooLong(n)' = TooLong(n) /\ Fits(n)' = Fits(n) /\ producer'.item.len = n
  BY DEF Used, Skip, TooLong, Fits
<1>2. ~TooLong(n) /\ Fits(n) /\ producer.next = (hdr.head + Skip(n) + Need(n)) % Width
  BY DEF RingInv, Reserved
<1> QED
  BY <1>1, <1>2 DEF Reserved

\* The mark goes into the gap.
LEMMA MarkKeeps ==
    ASSUME RingInv, Mark
    PROVE  RingInv' /\ Still
<1> DEFINE n == producer.item.len
           i == (hdr.head % Cap) \div 4
<1>1. /\ producer.pc = "mark" /\ hdr' = hdr /\ consumer' = consumer /\ got' = got
      /\ producer' = [producer EXCEPT !.pc = "length", !.pos = 0]
      /\ data' = [data EXCEPT ![producer.pos \div 4] = WrapMark]
  BY DEF Mark
<1>2. producer.pos = hdr.head % Cap /\ Skip(n) # 0
  BY <1>1 DEF RingInv, Reserved
<1>3. /\ hdr.head \in Counter /\ (hdr.head % 4) = 0 /\ Need(n) <= Cap \div 2 /\ n \in Nat
      /\ Skip(n) = GapBefore(hdr.head, n)
      /\ i \in 0..(Cap \div 4 - 1) /\ Outside(i, hdr.head, Used)
  BY <1>1, Reserving
<1>4. WrapMark \in Nat \X Nat /\ WrapMark[1] = 0
  BY DEF WrapMark, LengthWord
<1>5. data' = Written(data, i, WrapMark)
  BY <1>1, <1>2 DEF Written
<1>6. data' \in Memory /\ Used' = Used /\ Unread' = Unread /\ Sound' /\ Reads' /\ Taken'
  BY <1>1, <1>3, <1>4, <1>5, WriteStep DEF RingInv
<1>7. /\ producer' \in ProducerRecord /\ producer'.pc = "length" /\ producer'.pos = 0 /\ producer'.item = producer.item
      /\ producer'.next = producer.next /\ producer'.done = producer.done
  BY <1>1 DEF RingInv, RingTypes, ProducerSteps, ProducerRecord
<1>8. RingTypes'
  BY <1>1, <1>6, <1>7 DEF RingInv, RingTypes, ProducerRecord
<1>9. StartOf(hdr.head, n) = 0
  BY <1>2, <1>3 DEF StartOf
<1>10. data'[i][1] = 0
  <2>1. data \in Memory
    BY DEF RingInv, RingTypes
  <2> HIDE DEF i
  <2> QED
    BY <2>1, <1>3, <1>4, <1>5 DEF Written, Memory
<1>11. Reserved'
  BY <1>1, <1>7, <1>9, <1>10, ReservedStays
<1>12. Copied'
  BY <1>1, <1>7 DEF RingInv, Copied
<1> QED
  BY <1>1, <1>6, <1>8, <1>11, <1>12 DEF RingInv, Still

\* The length goes behind the gap.
LEMMA WriteLengthKeeps ==
    ASSUME RingInv, WriteLength
    PROVE  RingInv' /\ Still
<1> DEFINE n == producer.item.len
           p == StartOf(hdr.head, n)
           i == p \div 4
           g == (hdr.head % Cap) \div 4
<1>1. /\ producer.pc = "length" /\ hdr' = hdr /\ consumer' = consumer /\ got' = got
      /\ producer' = [producer EXCEPT !.pc = "copy"]
      /\ data' = [data EXCEPT ![producer.pos \div 4] = LengthWord(n)]
  BY DEF WriteLength
<1>2. producer.pos = p /\ (Skip(n) # 0 => data[g][1] = 0)
  BY <1>1 DEF RingInv, Reserved
<1>3. /\ hdr.head \in Counter /\ (hdr.head % 4) = 0 /\ Need(n) <= Cap \div 2 /\ n \in Nat
      /\ Skip(n) = GapBefore(hdr.head, n) /\ (Pad(n) \div 4) \in Nat \ {0}
      /\ g \in 0..(Cap \div 4 - 1)
      /\ \A k \in 0..(Pad(n) \div 4) : p \div 4 + k \in 0..(Cap \div 4 - 1) /\ Outside(p \div 4 + k, hdr.head, Used)
  BY <1>1, Reserving
<1>p. p \in Int
  <2>1. p \in 0..(Cap - 1)
    BY <1>3, GapFacts
  <2> HIDE DEF p
  <2> QED
    BY <2>1, CapFacts
<1>i. i \in 0..(Cap \div 4 - 1) /\ Outside(i, hdr.head, Used)
  <2>1. 0 \in 0..(Pad(n) \div 4)
    BY <1>3
  <2>2. i + 0 = i
    BY <1>p
  <2> HIDE DEF p
  <2> QED
    BY <2>1, <2>2, <1>3
<1>4. LengthWord(n) \in Nat \X Nat
  BY <1>3 DEF LengthWord
<1>5. data' = Written(data, i, LengthWord(n))
  BY <1>1, <1>2 DEF Written
<1>6. data' \in Memory /\ Used' = Used /\ Unread' = Unread /\ Sound' /\ Reads' /\ Taken'
  BY <1>1, <1>i, <1>4, <1>5, WriteStep DEF RingInv
<1>7. /\ producer' \in ProducerRecord /\ producer'.pc = "copy" /\ producer'.pos = producer.pos /\ producer'.item = producer.item
      /\ producer'.next = producer.next /\ producer'.done = producer.done
  BY <1>1 DEF RingInv, RingTypes, ProducerSteps, ProducerRecord
<1>8. RingTypes'
  BY <1>1, <1>6, <1>7 DEF RingInv, RingTypes, ProducerRecord
<1>9. data \in Memory /\ data'[i] = LengthWord(n) /\ \A k \in 0..(Cap \div 4 - 1) : k # i => data'[k] = data[k]
  <2>1. data \in Memory
    BY DEF RingInv, RingTypes
  <2> HIDE DEF i
  <2> QED
    BY <2>1, <1>i, <1>5 DEF Written, Memory
<1>10. ASSUME Skip(n) # 0 PROVE data'[g][1] = 0
  <2>1. g # i
    <3> DEFINE h == hdr.head % Cap
    <3>1. p = 0 /\ h + Need(n) > Cap /\ h \in 0..(Cap - 1)
      BY <1>3, <1>10, GapFacts
    <3>2. Need(n) \in Nat
      BY <1>3, PadFacts
    <3> HIDE DEF p, h
    <3>3. h >= 4
      BY <3>1, <3>2, <1>3, CapFacts
    <3>4. h \div 4 # 0
      BY <3>1, <3>3
    <3> QED
      BY <3>1, <3>4 DEF h
  <2> QED
    BY <2>1, <1>2, <1>3, <1>9, <1>10
<1>11. Reserved'
  BY <1>1, <1>2, <1>7, <1>10, ReservedStays
<1>12. Copied'
  <2>1. producer.done = 0 /\ producer.item \in Record
    BY <1>1 DEF RingInv, Copied
  <2>2. 0 < Pad(n) \div 4
    BY <1>3
  <2>3. data'[producer.pos \div 4] = LengthWord(n)
    BY <1>2, <1>9
  <2> QED
    BY <2>1, <2>2, <2>3, <1>7 DEF Copied
<1> QED
  BY <1>1, <1>6, <1>8, <1>11, <1>12 DEF RingInv, Still

\* Each word goes behind the last.
LEMMA WriteWordKeeps ==
    ASSUME RingInv, WriteWord
    PROVE  RingInv' /\ Still
<1> DEFINE n == producer.item.len
           p == StartOf(hdr.head, n)
           k == producer.done + 1
           i == p \div 4 + k
           g == (hdr.head % Cap) \div 4
           z == Pad(n) \div 4
           pc == IF k = Len(producer.item.words) THEN "publish" ELSE "copy"
           v == producer.item.words[k]
<1>1. /\ producer.pc = "copy" /\ hdr' = hdr /\ consumer' = consumer /\ got' = got
      /\ producer' = [producer EXCEPT !.done = k, !.pc = pc]
      /\ data' = [data EXCEPT ![producer.pos \div 4 + k] = v]
  BY DEF WriteWord
<1>2. producer.pos = p /\ (Skip(n) # 0 => data[g][1] = 0)
  BY <1>1 DEF RingInv, Reserved
<1>3. /\ hdr.head \in Counter /\ (hdr.head % 4) = 0 /\ Need(n) <= Cap \div 2 /\ n \in Nat
      /\ Skip(n) = GapBefore(hdr.head, n) /\ z \in Nat \ {0} /\ producer.item \in Record
      /\ Len(producer.item.words) = z
      /\ g \in 0..(Cap \div 4 - 1)
      /\ \A j \in 0..z : p \div 4 + j \in 0..(Cap \div 4 - 1) /\ Outside(p \div 4 + j, hdr.head, Used)
  BY <1>1, Reserving
<1>d. /\ producer.done < z /\ producer.done \in Nat
      /\ data[p \div 4] = LengthWord(n) /\ \A j \in 1..producer.done : data[p \div 4 + j] = producer.item.words[j]
  BY <1>1, <1>2 DEF RingInv, RingTypes, Copied
<1>k. k \in 1..z /\ k \in 0..z
  <2> HIDE DEF z
  <2> QED
    BY <1>d, <1>3
<1>p. p \div 4 \in Int
  <2>1. p \in 0..(Cap - 1)
    BY <1>3, GapFacts
  <2> HIDE DEF p
  <2> QED
    BY <2>1, CapFacts
<1>i. i \in 0..(Cap \div 4 - 1) /\ Outside(i, hdr.head, Used)
  BY <1>k, <1>3
<1>4. v \in Nat \X Nat
  <2>1. producer.item.words \in Seq(Nat \X Nat)
    BY <1>3, RecordFacts
  <2> HIDE DEF z, k
  <2> QED
    BY <2>1, <1>k, <1>3
<1>5. data' = Written(data, i, v)
  BY <1>1, <1>2 DEF Written
<1>6. data' \in Memory /\ Used' = Used /\ Unread' = Unread /\ Sound' /\ Reads' /\ Taken'
  <2> HIDE DEF i, v
  <2> QED
    BY <1>1, <1>i, <1>4, <1>5, WriteStep DEF RingInv
<1>7. /\ producer' \in ProducerRecord /\ producer'.pc = pc /\ producer'.pos = producer.pos /\ producer'.item = producer.item
      /\ producer'.next = producer.next /\ producer'.done = k
  <2>1. pc \in ProducerSteps /\ k \in Nat /\ producer \in ProducerRecord
    BY <1>d DEF ProducerSteps, RingInv, RingTypes, ProducerRecord
  <2> HIDE DEF pc, k
  <2> QED
    BY <1>1, <2>1 DEF ProducerRecord
<1>8. RingTypes'
  BY <1>1, <1>6, <1>7 DEF RingInv, RingTypes, ProducerRecord
<1>9. data \in Memory /\ data'[i] = v /\ \A j \in 0..(Cap \div 4 - 1) : j # i => data'[j] = data[j]
  <2>1. data \in Memory
    BY DEF RingInv, RingTypes
  <2> HIDE DEF i, v
  <2> QED
    BY <2>1, <1>i, <1>5 DEF Written, Memory
<1>10. ASSUME Skip(n) # 0 PROVE data'[g][1] = 0
  <2>1. g # i
    <3> DEFINE h == hdr.head % Cap
    <3>1. p = 0 /\ h + Need(n) > Cap /\ h \in 0..(Cap - 1)
      BY <1>3, <1>10, GapFacts
    <3>2. Need(n) \in Nat /\ Need(n) = 4 + 4 * z /\ z \in Nat
      BY <1>3, PadFacts
    <3>i. i = k
      <4> HIDE DEF k, p
      <4> QED
        BY <3>1, <1>k
    <3> HIDE DEF p, h, k, z, i
    <3>3. h >= Need(n)
      BY <3>1, <3>2, <1>3, CapFacts
    <3>4. h \div 4 >= 1 + z
      BY <3>1, <3>2, <3>3
    <3>5. h \div 4 # k
      BY <3>1, <3>2, <3>4, <1>k
    <3> QED
      BY <3>i, <3>5 DEF h
  <2> HIDE DEF i, g
  <2> QED
    BY <2>1, <1>2, <1>3, <1>9, <1>10
<1>11. Reserved'
  <2>1. pc \in {"length", "copy", "publish"}
    OBVIOUS
  <2> HIDE DEF pc, k, i
  <2> QED
    BY <2>1, <1>1, <1>2, <1>7, <1>10, ReservedStays
<1>12. Copied'
  <2>1. pc = "copy" => k < z
    <3> HIDE DEF k, z
    <3> QED
      BY <1>k, <1>3
  <2>2. pc = "publish" => k = z
    BY <1>3
  <2>b. pc \in {"copy", "publish"}
    OBVIOUS
  <2>3. data'[p \div 4] = LengthWord(n)
    <3>1. p \div 4 # i
      <4> HIDE DEF k
      <4> QED
        BY <1>p, <1>k
    <3>2. p \div 4 \in 0..(Cap \div 4 - 1)
      <4>1. 0 \in 0..z /\ p \div 4 + 0 = p \div 4
        BY <1>3, <1>p
      <4> HIDE DEF z, p
      <4> QED
        BY <4>1, <1>3
    <3> HIDE DEF i, p
    <3> QED
      BY <3>1, <3>2, <1>9, <1>d
  <2>4. ASSUME NEW j \in 1..k PROVE data'[p \div 4 + j] = producer.item.words[j]
    <3>1. CASE j = k
      BY <3>1, <1>9
    <3>2. CASE j # k
      <4>1. j \in 1..producer.done /\ j \in 0..z
        <5>1. producer.done \in Nat /\ z \in Nat /\ producer.done < z
          BY <1>d, <1>3
        <5> HIDE DEF z
        <5> QED
          BY <3>2, <5>1
      <4>2. p \div 4 + j # i
        <5> HIDE DEF k, p
        <5> QED
          BY <3>2, <1>p, <1>k
      <4>3. p \div 4 + j \in 0..(Cap \div 4 - 1)
        BY <4>1, <1>3
      <4> HIDE DEF i, p, k
      <4> QED
        BY <4>1, <4>2, <4>3, <1>9, <1>d
    <3> QED
      BY <3>1, <3>2
  <2> HIDE DEF pc, k, i, p
  <2>5. \A j \in 1..producer'.done : data'[producer'.pos \div 4 + j] = producer'.item.words[j]
    BY <2>4, <1>7, <1>2
  <2>6. data'[producer'.pos \div 4] = LengthWord(producer'.item.len)
    BY <2>3, <1>7, <1>2
  <2> QED
    BY <2>1, <2>2, <2>b, <2>5, <2>6, <1>7, <1>3 DEF Copied
<1> QED
  BY <1>1, <1>6, <1>8, <1>11, <1>12 DEF RingInv, Still

\* The first of a queue stays the first.
LEMMA HeadOfAppend ==
    ASSUME NEW S, NEW q \in Seq(S), q # <<>>, NEW x \in S
    PROVE  Head(Append(q, x)) = Head(q)
  BY HeadTailAppend

\* Publishing appends the record to the unread ones, wherever the consumer stands.
LEMMA PublishKeeps ==
    ASSUME RingInv, Publish
    PROVE  RingInv' /\ producer.item \in Record /\ Unread' = Append(Unread, producer.item) /\ got' = got
<1> DEFINE r == producer.item
           n == r.len
           head == hdr.head
           c == GapBefore(head, n) + Need(n)
           ahead == (head + c) % Width
<1>1. /\ producer.pc = "publish" /\ data' = data /\ consumer' = consumer /\ got' = got
      /\ producer' = NotPushing
      /\ hdr' = [hdr EXCEPT !.head = producer.next]
  BY DEF Publish
<1>2. /\ producer.pos = StartOf(head, n) /\ (Skip(n) # 0 => data[(head % Cap) \div 4][1] = 0)
      /\ producer.next = (head + Skip(n) + Need(n)) % Width
  BY <1>1 DEF RingInv, Reserved
<1>3. /\ r \in Record /\ head \in Counter /\ (head % 4) = 0 /\ n \in Nat
      /\ Need(n) \in Nat /\ Need(n) >= 4 /\ Need(n) <= Cap \div 2
      /\ Skip(n) = GapBefore(head, n) /\ Skip(n) \in Nat
      /\ Used \in 0..Cap /\ Used + Skip(n) + Need(n) <= Cap
  BY <1>1, Reserving
<1>4. /\ data[producer.pos \div 4] = LengthWord(n)
      /\ \A k \in 1..(Pad(n) \div 4) : data[producer.pos \div 4 + k] = r.words[k]
  BY <1>1 DEF RingInv, Copied
<1>5. data \in Memory /\ Unread \in Seq(Record) /\ hdr.tail \in Counter /\ consumer.tail \in Counter
  BY DEF RingInv, RingTypes, Sound
<1> HIDE DEF r, n, head
<1>6. c \in Nat /\ c <= Cap /\ Used + c <= Cap /\ (c % 4) = 0 /\ head \in Int
  <2>1. (GapBefore(head, n) % 4) = 0
    BY <1>3, GapFacts
  <2>2. (Need(n) % 4) = 0
    BY <1>3, PadFacts
  <2> QED
    BY <2>1, <2>2, <1>3, CapFacts DEF Counter
<1>7. Reading(data, ahead)[c] = <<r>>
  <2>1. GapBefore(head, n) # 0 => data[(head % Cap) \div 4][1] = 0
    BY <1>2, <1>3
  <2>2. data[StartOf(head, n) \div 4] = LengthWord(n)
    BY <1>2, <1>4
  <2>3. \A k \in 1..(Pad(n) \div 4) : data[StartOf(head, n) \div 4 + k] = r.words[k]
    BY <1>2, <1>4
  <2> QED
    <3>1. Need(r.len) <= Cap \div 2
      BY <1>3 DEF n
    <3>2. c <= Cap => Reading(data, ahead)[c] = <<r>>
      BY <2>1, <2>2, <2>3, <3>1, <1>3, <1>5, Published, Zenon DEF n
    <3> QED
      BY <3>2, <1>6
<1>8. producer.next = ahead
  <2>1. head + Skip(n) + Need(n) = head + c
    BY <1>3, <1>6
  <2> QED
    BY <2>1, <1>2
<1> HIDE DEF c, ahead
<1>9. \A left \in Nat : left + c <= Cap /\ Reading(data, head)[left] \in Seq(Record) =>
        Reading(data, ahead)[left + c] = Append(Reading(data, head)[left], r)
  BY <1>3, <1>5, <1>6, <1>7, Appends, ZenonT(40) DEF ahead
<1>10. hdr'.head = ahead /\ hdr'.tail = hdr.tail /\ hdr'.dropped = hdr.dropped
  BY <1>1, <1>8 DEF RingInv, RingTypes
<1>11. Used = Between(head, hdr.tail)
  BY UsedIs DEF head
<1>12. ahead \in Counter /\ Used' = Used + c
  <2>1. Between(head, hdr.tail) + c < Width
    BY <1>6, <1>11, <1>3, CapFacts
  <2>2. ahead \in Counter /\ Between(ahead, hdr.tail) = Used + c
    BY <2>1, <1>3, <1>5, <1>6, <1>11, HeadMoves DEF ahead
  <2>3. Used' = Between(ahead, hdr.tail)
    BY <1>10 DEF Used, Between
  <2> QED
    BY <2>2, <2>3
<1>13. Unread' = Append(Unread, r)
  <2>1. Unread' = Reading(data, ahead)[Used + c]
    BY <1>1, <1>10, <1>12 DEF Unread
  <2>2. Unread = Reading(data, head)[Used]
    BY DEF Unread, head
  <2>3. Used \in Nat
    BY <1>3
  <2> QED
    BY <2>1, <2>2, <2>3, <1>5, <1>6, <1>9
<1>14. Sound'
  <2>1. Append(Unread, r) \in Seq(Record)
    BY <1>3, <1>5
  <2> QED
    BY <2>1, <1>6, <1>12, <1>13 DEF Sound
<1>15. (ahead % 4) = 0
  BY <1>3, <1>6, AlignedMove DEF ahead
<1>16. RingTypes'
  <2>1. NotPushing \in [pc : ProducerSteps, item : Record \cup {Nothing}, keep : BOOLEAN, pos : Nat, done : Nat, next : Nat]
    BY DEF NotPushing, ProducerSteps
  <2>2. hdr' \in [head : Counter, tail : Counter, dropped : 0..1]
    BY <1>1, <1>8, <1>12 DEF RingInv, RingTypes
  <2> QED
    BY <1>1, <1>10, <1>15, <2>1, <2>2 DEF RingInv, RingTypes
<1>17. producer'.pc = "idle" /\ producer'.done = 0
  BY <1>1 DEF NotPushing
<1>18. Reserved' /\ Copied'
  BY <1>17 DEF Reserved, Copied
<1>19. ASSUME consumer.pc \in {"length", "copy", "release"}
       PROVE  Left' \in 1..Used' /\ (Reading(data, hdr.head)[Left])' = Unread' /\ Head(Unread') = Head(Unread)
  <2>1. Left \in 1..Used /\ Reading(data, head)[Left] = Unread /\ Unread # <<>>
    BY <1>19, StandsAt DEF RingInv, Reads, head
  <2>2. Left = Between(head, consumer.tail)
    BY DEF Left, head
  <2>3. Left \in Nat /\ Left <= Used /\ Left # 0
    BY <2>1, <1>3
  <2>4. Between(head, consumer.tail) + c < Width
    BY <2>2, <2>3, <1>3, <1>6, CapFacts
  <2>5. Between(ahead, consumer.tail) = Left + c
    BY <2>2, <2>4, <1>3, <1>5, <1>6, HeadMoves DEF ahead
  <2>6. Left' = Left + c
    BY <2>5, <1>1, <1>10 DEF Left
  <2>7. Left + c <= Cap /\ Left + c \in 1..(Used + c)
    <3>1. Used \in Nat /\ Cap \in Nat /\ c \in Nat /\ Used + c <= Cap
      BY <1>3, <1>6, CapFacts
    <3> QED
      BY <2>3, <3>1
  <2>8. Reading(data, ahead)[Left + c] = Append(Unread, r)
    BY <2>1, <2>3, <2>7, <1>5, <1>9
  <2>9. (Reading(data, hdr.head)[Left])' = Reading(data, ahead)[Left + c]
    BY <2>6, <1>1, <1>10
  <2>10. Head(Append(Unread, r)) = Head(Unread)
    BY <2>1, <1>3, <1>5, HeadOfAppend
  <2> QED
    BY <2>6, <2>7, <2>8, <2>9, <2>10, <1>12, <1>13
<1>20. Reads'
  <2>1. consumer.pc # "idle" => Used' # 0
    BY <1>3, <1>6, <1>12 DEF RingInv, Reads
  <2>2. consumer.pc = "peek" => consumer'.tail = hdr'.tail
    BY <1>1, <1>10 DEF RingInv, Reads
  <2>3. ASSUME consumer.pc \in {"length", "copy", "release"} PROVE Length(data, consumer.tail % Cap)' # 0
    <3>1. Length(data, consumer.tail % Cap) # 0
      BY <2>3 DEF RingInv, Reads
    <3> QED
      BY <3>1, <1>1
  <2>4. consumer.pc \in {"length", "copy", "release"} => (consumer'.tail % 4) = 0
    BY <1>1 DEF RingInv, Reads
  <2> QED
    BY <2>1, <2>2, <2>3, <2>4, <1>1, <1>19 DEF Reads
<1>21. Taken'
  BY <1>1, <1>19 DEF RingInv, Taken
<1> QED
  BY <1>1, <1>3, <1>13, <1>14, <1>16, <1>18, <1>20, <1>21 DEF RingInv, r

-----------------------------------------------------------------------------
(* pop() *)

ConsumerRecord == [pc : ConsumerSteps, tail : Counter, seen : Counter, out : Item]

\* The producer's side of the invariant does not depend on the consumer, but
\* that it only frees room.
LEMMA ProducerUndisturbed ==
    ASSUME RingInv, producer' = producer, data' = data, hdr'.head = hdr.head, Used' \in Nat, Used' <= Used
    PROVE  Reserved' /\ Copied'
<1> DEFINE n == producer.item.len
<1>1. Copied'
  BY DEF RingInv, Copied
<1>2. Skip(n)' = Skip(n) /\ TooLong(n)' = TooLong(n)
  BY DEF Skip, TooLong
<1>3. ASSUME producer.pc \in {"mark", "length", "copy", "publish"} PROVE Fits(n)'
  <2>1. /\ Skip(n) \in Nat /\ Need(n) \in Nat /\ Used \in 0..Cap /\ Used + Skip(n) + Need(n) <= Cap
    BY <1>3, Reserving
  <2>2. Used' + Skip(n) + Need(n) <= Cap
    <3> DEFINE a == Used
               b == Used'
               s == Skip(n) + Need(n)
    <3>1. a \in Nat /\ b \in Nat /\ b <= a /\ s \in Nat /\ a + s <= Cap /\ Cap \in Nat
      BY <2>1, CapFacts
    <3>2. b + s <= Cap
      <4> HIDE DEF a, b, s
      <4> QED
        BY <3>1
    <3> QED
      BY <3>1, <3>2, <2>1
  <2>3. Fits(n)' = (Used' + Skip(n)' + Need(n)' <= Cap)
    BY DEF Fits
  <2>4. Need(n)' = Need(n)
    OBVIOUS
  <2> QED
    BY <2>2, <2>3, <2>4, <1>2
<1>4. Reserved'
  BY <1>2, <1>3 DEF RingInv, Reserved
<1> QED
  BY <1>1, <1>4

\* The consumer looks at a ring that is not empty.
LEMMA LookKeeps ==
    ASSUME RingInv, Look
    PROVE  RingInv' /\ Still
<1>1. /\ consumer.pc = "idle" /\ hdr.head # hdr.tail /\ hdr' = hdr /\ data' = data /\ producer' = producer /\ got' = got
      /\ consumer' = [consumer EXCEPT !.pc = "peek", !.tail = hdr.tail, !.seen = hdr.head]
  BY DEF Look
<1>2. hdr.head \in Counter /\ hdr.tail \in Counter /\ Used \in 0..Cap
  BY HdrFacts DEF RingInv
<1>3. /\ consumer' \in ConsumerRecord /\ consumer'.pc = "peek" /\ consumer'.tail = hdr.tail
      /\ consumer'.out = consumer.out
  BY <1>1, <1>2 DEF RingInv, RingTypes, ConsumerRecord, ConsumerSteps
<1>4. RingTypes'
  BY <1>1, <1>3 DEF RingInv, RingTypes, ConsumerRecord
<1>5. Used' = Used /\ Unread' = Unread /\ Sound'
  BY <1>1, SameMemory DEF RingInv
<1>6. Used # 0
  BY <1>1, <1>2, UsedIs, BetweenFacts
<1>7. Reads'
  BY <1>1, <1>3, <1>5, <1>6 DEF Reads
<1>8. Taken'
  BY <1>1, <1>3 DEF RingInv, Taken
<1>9. Reserved' /\ Copied'
  BY <1>1, <1>2, <1>5, ProducerUndisturbed
<1> QED
  BY <1>1, <1>4, <1>5, <1>7, <1>8, <1>9 DEF RingInv, Still

\* The consumer about to look at the first word.
LEMMA Peeking ==
    ASSUME RingInv, consumer.pc = "peek"
    PROVE  LET pos == consumer.tail % Cap
               n == Length(data, pos)
               m == Used - (Cap - pos)
           IN  /\ pos \in 0..(Cap - 1) /\ (pos % 4) = 0 /\ consumer.tail = hdr.tail /\ Used \in 1..Cap
               /\ AtMark <=> n = 0
               /\ AtMark => /\ m \in 1..Used
                            /\ PastGap \in Counter /\ (PastGap % 4) = 0
                            /\ Between(hdr.head, PastGap) = m
                            /\ Reading(data, hdr.head)[m] = Unread
                            /\ (PastGap % Cap) = 0
                            /\ Length(data, 0) # 0
<1> DEFINE pos == consumer.tail % Cap
           n == Length(data, pos)
           m == Used - (Cap - pos)
           R == Reading(data, hdr.head)
           gap == Cap - pos
<1>1. consumer.tail = hdr.tail /\ Used # 0 /\ (hdr.tail % 4) = 0 /\ data \in Memory /\ Unread \in Seq(Record)
  BY DEF RingInv, Reads, RingTypes, Sound
<1>2. hdr.head \in Counter /\ hdr.tail \in Counter /\ hdr.head \in Int /\ Used \in 0..Cap /\ Pos(hdr.head, Used) = hdr.tail % Cap
  BY HdrFacts DEF RingInv
<1>3. Used \in 1..Cap
  BY <1>1, <1>2, CapFacts
<1>4. pos \in 0..(Cap - 1) /\ (pos % 4) = 0 /\ pos = Pos(hdr.head, Used)
  BY <1>1, <1>2, AlignedPos, BetweenFacts
<1>5. Cap - pos >= 4 /\ gap \in Nat /\ (gap % 4) = 0
  <2> HIDE DEF pos
  <2> QED
    BY <1>4, CapFacts
<1>6. AtMark <=> n = 0
  <2>1. ~(Cap - pos < 4)
    <3> HIDE DEF pos
    <3> QED
      BY <1>4, <1>5, CapFacts
  <2>2. AtMark <=> (Cap - pos < 4 \/ n = 0)
    BY DEF AtMark, WordAt, Length
  <2> QED
    BY <2>1, <2>2
<1>7. Unread = R[Used]
  BY DEF Unread
<1>8. ASSUME n = 0
      PROVE  /\ m \in 1..(Used - 1) /\ R[Used] = R[m] /\ Pos(hdr.head, m) = 0 /\ Length(data, 0) # 0
  <2> DEFINE h == hdr.head
             u == Used
             p == Pos(h, u)
  <2>1. h \in Int /\ u \in 1..Cap /\ data \in Memory /\ Reading(data, h)[u] \in Seq(Record) /\ p = pos /\ Length(data, p) = 0
    BY <1>1, <1>2, <1>3, <1>4, <1>7, <1>8
  <2> HIDE DEF h, u
  <2>2. /\ u - (Cap - p) \in 1..(u - 1)
        /\ Reading(data, h)[u] = Reading(data, h)[u - (Cap - p)]
        /\ Pos(h, u - (Cap - p)) = 0
        /\ Length(data, 0) # 0
    BY <2>1, First
  <2>3. p = pos
    BY <2>1
  <2> HIDE DEF p, pos
  <2> QED
    BY <2>2, <2>3 DEF h, u
<1>9. ASSUME n = 0
      PROVE  /\ m \in 1..Used /\ PastGap \in Counter /\ (PastGap % 4) = 0
             /\ Between(hdr.head, PastGap) = m /\ (PastGap % Cap) = 0
  <2>1. PastGap = (hdr.tail + gap) % Width
    BY <1>1 DEF PastGap
  <2>2. Used = Between(hdr.head, hdr.tail)
    BY UsedIs
  <2>3. gap \in 0..Used /\ m = Used - gap /\ m \in 1..Used
    <3>1. Used - gap \in 1..(Used - 1)
      BY <1>8, <1>9
    <3> HIDE DEF gap
    <3>2. gap \in 0..Used
      BY <3>1, <1>3, <1>5, CapFacts
    <3>3. Used - gap \in 1..Used
      BY <3>1, <1>3, <1>5, CapFacts
    <3> QED
      BY <3>2, <3>3 DEF gap
  <2> HIDE DEF gap, m
  <2>4. PastGap \in Counter /\ Between(hdr.head, PastGap) = m
    BY <2>1, <2>2, <2>3, <1>2, TailMoves
  <2>5. (PastGap % 4) = 0
    BY <2>1, <1>1, <1>2, <1>5, AlignedMove
  <2>6. Pos(hdr.head, m) = PastGap % Cap
    BY <2>4, <1>2, BetweenFacts
  <2>7. Pos(hdr.head, m) = 0
    BY <1>8, <1>9
  <2> QED
    BY <2>3, <2>4, <2>5, <2>6, <2>7
<1> HIDE DEF pos, n, m, R
<1>10. pos \in 0..(Cap - 1) /\ (pos % 4) = 0 /\ consumer.tail = hdr.tail /\ Used \in 1..Cap
  BY <1>1, <1>3, <1>4
<1> QED
  BY <1>10, <1>6, <1>7, <1>8, <1>9 DEF pos, n, m, R

\* Passing a gap skips no record.
LEMMA PeekKeeps ==
    ASSUME RingInv, Peek
    PROVE  RingInv' /\ Still
<1> DEFINE pos == consumer.tail % Cap
           m == Used - (Cap - pos)
<1>1. consumer.pc = "peek" /\ data' = data /\ producer' = producer /\ got' = got
  BY DEF Peek
<1>2. /\ pos \in 0..(Cap - 1) /\ consumer.tail = hdr.tail /\ Used \in 1..Cap
      /\ AtMark <=> Length(data, pos) = 0
      /\ AtMark => /\ m \in 1..Used
                   /\ PastGap \in Counter /\ (PastGap % 4) = 0
                   /\ Between(hdr.head, PastGap) = m
                   /\ Reading(data, hdr.head)[m] = Unread
                   /\ (PastGap % Cap) = 0
                   /\ Length(data, 0) # 0
  BY <1>1, Peeking
<1>3. Used \in Nat /\ Used <= Cap
  BY <1>2, CapFacts
<1>o. consumer.out = Nothing /\ consumer \in ConsumerRecord
  BY <1>1 DEF RingInv, Taken, RingTypes, ConsumerRecord
<1> HIDE DEF m
<1>4. CASE AtMark /\ PastGap = consumer.seen
  <2>1. hdr' = [hdr EXCEPT !.tail = PastGap] /\ consumer' = NotPopping
    BY <1>4 DEF Peek
  <2>2. hdr'.head = hdr.head /\ hdr'.tail = PastGap /\ hdr' \in [head : Counter, tail : Counter, dropped : 0..1]
    BY <2>1, <1>2, <1>4 DEF RingInv, RingTypes
  <2>3. NotPopping \in ConsumerRecord /\ NotPopping.pc = "idle" /\ NotPopping.out = Nothing
    BY CapFacts, NothingIsItem DEF NotPopping, ConsumerRecord, ConsumerSteps, Counter
  <2>4. RingTypes'
    BY <1>1, <1>2, <1>4, <2>1, <2>2, <2>3 DEF RingInv, RingTypes, ConsumerRecord
  <2>5. Used' = m
    BY <2>2, <1>2, <1>4 DEF Used, Between
  <2>6. m \in Nat /\ m <= Used
    BY <1>2, <1>3, <1>4
  <2>7. Unread' = Unread
    BY <2>2, <2>5, <1>1, <1>2, <1>4 DEF Unread
  <2>8. Sound'
    <3>1. m <= Cap
      BY <2>6, <1>3, CapFacts
    <3> QED
      BY <3>1, <2>5, <2>7 DEF RingInv, Sound
  <2>9. Reads' /\ Taken'
    BY <2>1, <2>3 DEF Reads, Taken
  <2>10. Reserved' /\ Copied'
    BY <1>1, <2>2, <2>5, <2>6, ProducerUndisturbed
  <2> QED
    BY <1>1, <2>4, <2>7, <2>8, <2>9, <2>10 DEF RingInv, Still
<1>5. CASE ~(AtMark /\ PastGap = consumer.seen)
  <2> DEFINE t == IF AtMark THEN PastGap ELSE consumer.tail
  <2>1. hdr' = hdr /\ consumer' = [consumer EXCEPT !.pc = "length", !.tail = t]
    BY <1>5 DEF Peek
  <2>2. t \in Counter
    BY <1>2 DEF RingInv, RingTypes
  <2>a. (t % 4) = 0
    BY <1>2 DEF RingInv, RingTypes
  <2>3. Between(hdr.head, t) \in 1..Used /\ Reading(data, hdr.head)[Between(hdr.head, t)] = Unread /\ Length(data, t % Cap) # 0
    <3>1. CASE AtMark
      BY <3>1, <1>2
    <3>2. CASE ~AtMark
      <4>1. t = hdr.tail /\ t % Cap = pos
        BY <3>2, <1>2
      <4>2. Between(hdr.head, t) = Used
        BY <4>1, UsedIs
      <4>3. Used \in 1..Used
        BY <1>2
      <4> QED
        BY <4>1, <4>2, <4>3, <3>2, <1>2 DEF Unread
    <3> QED
      BY <3>1, <3>2
  <2> HIDE DEF t
  <2>4. consumer' \in ConsumerRecord /\ consumer'.pc = "length" /\ consumer'.tail = t /\ consumer'.out = Nothing
    BY <2>1, <2>2, <1>o DEF ConsumerRecord, ConsumerSteps
  <2>5. RingTypes'
    BY <1>1, <2>1, <2>4 DEF RingInv, RingTypes, ConsumerRecord
  <2>6. Used' = Used /\ Unread' = Unread /\ Sound'
    BY <1>1, <2>1, SameMemory DEF RingInv
  <2>7. Reads'
    <3>1. Left' = Between(hdr.head, t)
      BY <2>1, <2>4 DEF Left
    <3> QED
      BY <3>1, <2>a, <2>1, <2>3, <2>4, <2>6, <1>1, <1>2 DEF Reads
  <2>8. Taken'
    BY <2>4 DEF Taken
  <2>9. Reserved' /\ Copied'
    BY <1>1, <1>3, <2>1, <2>6, ProducerUndisturbed
  <2> QED
    BY <1>1, <2>5, <2>6, <2>7, <2>8, <2>9 DEF RingInv, Still
<1> QED
  BY <1>4, <1>5

\* The length read is that of the first unread record.
LEMMA ReadLengthKeeps ==
    ASSUME RingInv, ReadLength
    PROVE  RingInv' /\ Still
<1> DEFINE pos == consumer.tail % Cap
           n == Length(data, pos)
           r == Head(Unread)
<1>1. /\ consumer.pc = "length" /\ hdr' = hdr /\ data' = data /\ producer' = producer /\ got' = got
      /\ consumer' = [consumer EXCEPT !.pc = "copy", !.out.len = n]
  BY DEF ReadLength, WordAt, Length
<1>2. n \in Nat /\ r \in Record /\ r.len = n
  BY <1>1, StandsAt DEF RingInv
<1>3. consumer.out = Nothing /\ consumer \in ConsumerRecord
  BY <1>1 DEF RingInv, Taken, RingTypes, ConsumerRecord
<1> DEFINE e == [consumer.out EXCEPT !.len = n]
<1>4. consumer' = [consumer EXCEPT !.pc = "copy", !.out = e]
  <2> HIDE DEF n
  <2> QED
    BY <1>1, <1>3 DEF ConsumerRecord
<1>5. e = [len |-> n, words |-> <<>>]
  <2> HIDE DEF n
  <2> QED
    BY <1>3 DEF Nothing
<1> HIDE DEF e, n
<1>6. e \in Item /\ e.len = n /\ e.words = <<>>
  BY <1>5, <1>2 DEF Item
<1>7. consumer' \in ConsumerRecord /\ consumer'.pc = "copy" /\ consumer'.tail = consumer.tail /\ consumer'.out = e
  BY <1>3, <1>4, <1>6 DEF ConsumerRecord, ConsumerSteps
<1>8. RingTypes'
  BY <1>1, <1>7 DEF RingInv, RingTypes, ConsumerRecord
<1>9. Used' = Used /\ Unread' = Unread /\ Sound'
  BY <1>1, SameMemory DEF RingInv
<1>10. Reads'
  BY <1>1, <1>7, <1>9 DEF RingInv, Reads, Left
<1>11. Taken'
  <2>1. Len(r.words) \in Nat \ {0}
    BY <1>2, RecordFacts
  <2>2. Len(<<>>) = 0
    OBVIOUS
  <2> QED
    BY <2>1, <2>2, <1>2, <1>6, <1>7, <1>9 DEF Taken
<1>12. Used \in Nat
  BY HdrFacts DEF RingInv
<1>13. Reserved' /\ Copied'
  BY <1>1, <1>9, <1>12, ProducerUndisturbed
<1> QED
  BY <1>1, <1>8, <1>9, <1>10, <1>11, <1>13 DEF RingInv, Still

\* Each word read is the next of that record.
LEMMA ReadWordKeeps ==
    ASSUME RingInv, ReadWord
    PROVE  RingInv' /\ Still
<1> DEFINE pos == consumer.tail % Cap
           n == Length(data, pos)
           r == Head(Unread)
           z == Pad(n) \div 4
           q == consumer.out.words
           k == Len(q) + 1
           w == data[(pos + 4 * k) \div 4]
           pc == IF 4 * k >= consumer.out.len THEN "release" ELSE "copy"
           s == Append(q, w)
<1>1. /\ consumer.pc = "copy" /\ hdr' = hdr /\ data' = data /\ producer' = producer /\ got' = got
      /\ consumer' = [consumer EXCEPT !.out.words = s, !.pc = pc]
  BY DEF ReadWord, WordAt
<1>2. /\ pos \in 0..(Cap - 1) /\ n \in Nat \ {0} /\ r \in Record /\ r = RecordAt(data, pos) /\ r.len = n
      /\ pos + Need(n) <= Cap
  BY <1>1, StandsAt DEF RingInv
<1>3. consumer \in ConsumerRecord /\ data \in Memory
  BY DEF RingInv, RingTypes, ConsumerRecord
<1>4. /\ consumer.out.len = n /\ Len(q) < Len(r.words)
      /\ \A i \in 1..Len(q) : q[i] = r.words[i]
  BY <1>1, <1>2 DEF RingInv, Taken
<1>5. /\ Len(r.words) = z
      /\ \A j \in 1..z : r.words[j] = data[pos \div 4 + j] /\ data[pos \div 4 + j] \in Nat \X Nat
  BY <1>2, <1>3, RecordAtIsItem
<1>6. z \in Nat /\ Pad(n) = 4 * z /\ Pad(n) >= n /\ Pad(n) < n + 4
  BY <1>2, PadFacts
<1>7. q \in Seq(Nat \X Nat) /\ Len(q) \in Nat /\ consumer.out \in Item
  BY <1>3 DEF ConsumerRecord, Item
<1>k. k \in 1..z /\ Len(q) < z /\ k = Len(q) + 1
  <2> HIDE DEF z, q
  <2> QED
    BY <1>4, <1>5, <1>6, <1>7
<1>p. (pos + 4 * k) \div 4 = pos \div 4 + k
  <2> HIDE DEF pos, k, z
  <2>1. pos \in Int /\ k \in Int
    <3>1. pos \in Int
      BY <1>2, CapFacts
    <3>2. k \in Int
      BY <1>k, <1>6
    <3> QED
      BY <3>1, <3>2
  <2> QED
    BY <2>1
<1>w. w = r.words[k] /\ w \in Nat \X Nat
  <2> HIDE DEF pos, k, z, r
  <2> QED
    BY <1>k, <1>p, <1>5
<1> DEFINE e == [consumer.out EXCEPT !.words = s]
<1> HIDE DEF w, pos, n, r, z, k
<1>8. s \in Seq(Nat \X Nat) /\ Len(s) = k /\ \A i \in 1..k : s[i] = r.words[i]
  <2>1. s \in Seq(Nat \X Nat) /\ Len(s) = Len(q) + 1 /\ s[Len(q) + 1] = w /\ \A i \in 1..Len(q) : s[i] = q[i]
    <3> HIDE DEF q
    <3> QED
      BY <1>7, <1>w
  <2> HIDE DEF s, q
  <2>2. ASSUME NEW i \in 1..k PROVE s[i] = r.words[i]
    <3>1. CASE i = k
      BY <3>1, <2>1, <1>w, <1>k
    <3>2. CASE i # k
      <4>1. i \in 1..Len(q)
        BY <3>2, <1>k, <1>7, <1>6
      <4> QED
        BY <4>1, <2>1, <1>4
    <3> QED
      BY <3>1, <3>2
  <2> QED
    BY <2>1, <2>2, <1>k
<1> HIDE DEF s
<1>9. consumer' = [consumer EXCEPT !.out = e, !.pc = pc]
  <2> HIDE DEF pc
  <2> QED
    BY <1>1, <1>3 DEF ConsumerRecord
<1>10. e \in Item /\ e.len = n /\ e.words = s
  BY <1>4, <1>7, <1>8 DEF Item
<1> HIDE DEF e
<1>11. pc \in ConsumerSteps /\ pc \in {"copy", "release"}
  BY DEF ConsumerSteps
<1>12. pc = "copy" => k < z
  <2>1. pc = "copy" => 4 * k < n
    BY <1>2, <1>4, <1>k, <1>6
  <2> HIDE DEF pc
  <2> QED
    BY <2>1, <1>2, <1>6, <1>k
<1>13. pc = "release" => k = z
  <2>1. pc = "release" => 4 * k >= n
    BY <1>4
  <2> HIDE DEF pc
  <2> QED
    BY <2>1, <1>2, <1>6, <1>k
<1> HIDE DEF pc
<1>14. consumer' \in ConsumerRecord /\ consumer'.pc = pc /\ consumer'.tail = consumer.tail /\ consumer'.out = e
  BY <1>3, <1>9, <1>10, <1>11 DEF ConsumerRecord
<1>15. RingTypes'
  BY <1>1, <1>14 DEF RingInv, RingTypes, ConsumerRecord
<1>16. Used' = Used /\ Unread' = Unread /\ Sound'
  BY <1>1, SameMemory DEF RingInv
<1>17. Reads'
  BY <1>1, <1>11, <1>14, <1>16 DEF RingInv, Reads, Left
<1>18. Taken'
  <2>1. Head(Unread)' = r
    BY <1>16 DEF r
  <2>2. r.len = n /\ k <= Len(r.words) /\ Len(r.words) = z
    BY <1>2, <1>5, <1>6, <1>k
  <2> QED
    BY <2>1, <2>2, <1>8, <1>10, <1>11, <1>12, <1>13, <1>14 DEF Taken
<1>19. Used \in Nat
  BY HdrFacts DEF RingInv
<1>20. Reserved' /\ Copied'
  BY <1>1, <1>16, <1>19, ProducerUndisturbed
<1> QED
  BY <1>1, <1>15, <1>16, <1>17, <1>18, <1>20 DEF RingInv, Still

\* Releasing takes the first record off, and it is the one returned.
LEMMA ReleaseKeeps ==
    ASSUME RingInv, Release
    PROVE  RingInv' /\ Unread # <<>> /\ got' = Head(Unread) /\ Unread' = Tail(Unread)
<1> DEFINE pos == consumer.tail % Cap
           n == Length(data, pos)
           r == Head(Unread)
           t == (consumer.tail + Need(n)) % Width
<1>1. /\ consumer.pc = "release" /\ data' = data /\ producer' = producer
      /\ hdr' = [hdr EXCEPT !.tail = (consumer.tail + Need(consumer.out.len)) % Width]
      /\ got' = consumer.out /\ consumer' = NotPopping
  BY DEF Release
<1>2. /\ n \in Nat \ {0} /\ r \in Record /\ r.len = n /\ Unread # <<>>
      /\ Left \in 1..Used /\ Need(n) \in 0..Left
      /\ Tail(Unread) = Reading(data, hdr.head)[Left - Need(n)]
      /\ Tail(Unread) \in Seq(Record)
  BY <1>1, StandsAt DEF RingInv
<1>3. /\ consumer.out.len = n /\ Len(consumer.out.words) = Len(r.words)
      /\ \A i \in 1..Len(r.words) : consumer.out.words[i] = r.words[i]
  BY <1>1, <1>2 DEF RingInv, Taken
<1>4. hdr.head \in Counter /\ consumer.tail \in Counter /\ consumer.out \in Item /\ Used \in 0..Cap
      /\ Left = Between(hdr.head, consumer.tail)
  BY HdrFacts DEF RingInv, RingTypes, Left
<1> HIDE DEF pos, n, r
<1>5. consumer.out = r
  <2> DEFINE a == consumer.out.words
             b == r.words
  <2>1. a \in Seq(Nat \X Nat) /\ b \in Seq(Nat \X Nat) /\ r = [len |-> r.len, words |-> b]
    BY <1>2, <1>4, RecordFacts DEF Item
  <2>2. consumer.out = [len |-> consumer.out.len, words |-> a]
    BY <1>4 DEF Item
  <2>3. Len(a) = Len(b) /\ \A i \in 1..Len(b) : a[i] = b[i]
    BY <1>3
  <2> HIDE DEF a, b
  <2>4. a = b
    BY <2>1, <2>3, SeqEqual
  <2> QED
    BY <2>1, <2>2, <2>4, <1>2, <1>3
<1>6. hdr' = [hdr EXCEPT !.tail = t]
  BY <1>1, <1>3
<1>7. t \in Counter /\ Between(hdr.head, t) = Left - Need(n)
  <2>1. Need(n) \in 0..Between(hdr.head, consumer.tail)
    BY <1>2, <1>4
  <2> DEFINE c == Need(n)
  <2>2. c \in 0..Between(hdr.head, consumer.tail)
    BY <2>1
  <2> HIDE DEF c
  <2>3. (consumer.tail + c) % Width \in Counter /\ Between(hdr.head, (consumer.tail + c) % Width) = Between(hdr.head, consumer.tail) - c
    BY <2>2, <1>4, TailMoves
  <2> QED
    BY <2>3, <1>4 DEF c
<1> HIDE DEF t
<1>8. hdr'.head = hdr.head /\ hdr'.tail = t /\ hdr' \in [head : Counter, tail : Counter, dropped : 0..1]
  BY <1>6, <1>7 DEF RingInv, RingTypes
<1>9. Used' = Left - Need(n)
  BY <1>7, <1>8 DEF Used, Between
<1>10. Unread' = Tail(Unread)
  BY <1>1, <1>2, <1>8, <1>9 DEF Unread
<1>11. Used' \in Nat /\ Used' <= Used /\ Used' <= Cap
  <2> DEFINE u == Used
             c == Need(n)
             l == Left
  <2>1. u \in 0..Cap /\ l \in 1..u /\ c \in 0..l /\ Cap \in Nat
    BY <1>2, <1>4, CapFacts
  <2> HIDE DEF u, c, l
  <2>2. l - c \in Nat /\ l - c <= u /\ l - c <= Cap
    BY <2>1
  <2> QED
    BY <2>2, <1>9 DEF u, c, l
<1>12. (t % 4) = 0
  <2> DEFINE c == Need(n)
             a == consumer.tail
  <2>1. (a % 4) = 0 /\ a \in Counter
    BY <1>1, <1>4 DEF RingInv, Reads
  <2>2. c \in Nat /\ (c % 4) = 0
    <3> DEFINE z == Pad(n) \div 4
    <3>1. z \in Nat /\ c = 4 + 4 * z
      BY <1>2, PadFacts
    <3> HIDE DEF z, c
    <3> QED
      BY <3>1
  <2>3. t = (a + c) % Width
    BY DEF t
  <2> HIDE DEF a, c
  <2> QED
    BY <2>1, <2>2, <2>3, AlignedMove
<1>13. /\ NotPopping \in ConsumerRecord /\ NotPopping.pc = "idle" /\ NotPopping.out = Nothing
  BY CapFacts, NothingIsItem DEF NotPopping, ConsumerRecord, ConsumerSteps, Counter
<1>14. got' \in Record /\ got' = Head(Unread)
  BY <1>1, <1>2, <1>5 DEF r
<1>15. RingTypes'
  BY <1>1, <1>8, <1>12, <1>13, <1>14 DEF RingInv, RingTypes, ConsumerRecord
<1>16. Sound'
  BY <1>2, <1>10, <1>11 DEF Sound
<1>17. Reads' /\ Taken'
  BY <1>1, <1>13 DEF Reads, Taken
<1>18. Reserved' /\ Copied'
  BY <1>1, <1>8, <1>11, ProducerUndisturbed
<1> QED
  BY <1>2, <1>10, <1>14, <1>15, <1>16, <1>17, <1>18 DEF RingInv

-----------------------------------------------------------------------------
\* At first the ring is empty.
LEMMA InitInv ==
    ASSUME RingInit
    PROVE  RingInv /\ Unread = <<>> /\ got = Nothing
<1>1. /\ hdr = [head |-> 0, tail |-> 0, dropped |-> 0]
      /\ data = [i \in 0..(Cap \div 4 - 1) |-> WrapMark]
      /\ producer = NotPushing /\ consumer = NotPopping /\ got = Nothing
  BY DEF RingInit
<1>2. 0 \in Counter /\ Cap \in Nat \ {0}
  BY CapFacts DEF Counter
<1>3. data \in Memory
  BY <1>1 DEF Memory, WrapMark, LengthWord
<1>4. Used = 0
  BY <1>1, <1>2, UsedIs, BetweenFacts
<1>5. Unread = <<>>
  <2>1. 0 \in 0..Cap /\ hdr.head \in Int
    BY <1>1, <1>2
  <2>2. Reading(data, hdr.head)[0] = ReadingStep(Reading(data, hdr.head), data, hdr.head, 0)
    BY <2>1, <1>3, Unfolds
  <2> QED
    BY <2>2, <1>4 DEF Unread, ReadingStep
<1>6. RingTypes
  <2>1. NotPushing \in [pc : ProducerSteps, item : Record \cup {Nothing}, keep : BOOLEAN, pos : Nat, done : Nat, next : Nat]
    BY DEF NotPushing, ProducerSteps
  <2>2. NotPopping \in ConsumerRecord
    BY <1>2, NothingIsItem DEF NotPopping, ConsumerRecord, ConsumerSteps
  <2>3. (0 % 4) = 0
    OBVIOUS
  <2> QED
    BY <1>1, <1>2, <1>3, <2>1, <2>2, <2>3 DEF RingTypes, ConsumerRecord
<1>7. Sound
  BY <1>2, <1>4, <1>5 DEF Sound
<1>8. Reserved /\ Copied
  BY <1>1 DEF Reserved, Copied, NotPushing
<1>9. Reads /\ Taken
  BY <1>1 DEF Reads, Taken, NotPopping
<1> QED
  BY <1>1, <1>5, <1>6, <1>7, <1>8, <1>9 DEF RingInv

\* Every step keeps the invariant, and is a step of the queue or none.
LEMMA NextKeeps ==
    ASSUME RingInv, [RingNext]_ringVars
    PROVE  RingInv' /\ (Queue!Next \/ UNCHANGED <<Unread, got>>)
<1>1. CASE Publish
  <2>1. RingInv' /\ producer.item \in Record /\ Unread' = Append(Unread, producer.item) /\ got' = got
    BY <1>1, PublishKeeps
  <2> QED
    BY <2>1 DEF Queue!Next, Queue!Accept
<1>2. CASE Release
  <2>1. RingInv' /\ Unread # <<>> /\ got' = Head(Unread) /\ Unread' = Tail(Unread)
    BY <1>2, ReleaseKeeps
  <2> QED
    BY <2>1 DEF Queue!Next, Queue!Deliver
<1>3. CASE UNCHANGED ringVars
  <2>1. hdr' = hdr /\ data' = data /\ producer' = producer /\ consumer' = consumer /\ got' = got
    BY <1>3 DEF ringVars
  <2>2. Unread' = Unread /\ Sound' /\ Reads' /\ Taken'
    BY <2>1, SameMemory DEF RingInv
  <2>3. RingTypes' /\ Copied'
    BY <2>1 DEF RingInv, RingTypes, Copied
  <2>4. Reserved'
    BY <2>1 DEF RingInv, Reserved, TooLong, Fits, Used, Skip
  <2> QED
    BY <2>1, <2>2, <2>3, <2>4 DEF RingInv
<1>4. ASSUME RingInv' /\ Still PROVE RingInv' /\ UNCHANGED <<Unread, got>>
  BY <1>4 DEF Still
<1>5. CASE Offer
  BY <1>5, <1>4, OfferKeeps
<1>6. CASE RefuseTooLong \/ RefuseFull
  BY <1>6, <1>4, RefuseKeeps
<1>7. CASE Reserve
  BY <1>7, <1>4, ReserveKeeps
<1>8. CASE Mark
  BY <1>8, <1>4, MarkKeeps
<1>9. CASE WriteLength
  BY <1>9, <1>4, WriteLengthKeeps
<1>10. CASE WriteWord
  BY <1>10, <1>4, WriteWordKeeps
<1>11. CASE Look
  BY <1>11, <1>4, LookKeeps
<1>12. CASE Peek
  BY <1>12, <1>4, PeekKeeps
<1>13. CASE ReadLength
  BY <1>13, <1>4, ReadLengthKeeps
<1>14. CASE ReadWord
  BY <1>14, <1>4, ReadWordKeeps
<1> QED
  BY <1>1, <1>2, <1>3, <1>5, <1>6, <1>7, <1>8, <1>9, <1>10, <1>11, <1>12, <1>13, <1>14 DEF RingNext, Push, Pop

\* The invariant includes the types.
LEMMA InvTypes == RingInv => RingTypeOK
  BY HdrFacts DEF RingInv, RingTypes, Sound, RingTypeOK, Counter, Memory, ProducerSteps, ConsumerSteps

(* The invariant holds in every state of any ring. *)
THEOREM RingInvariant == RingSpec => []RingInv
<1>1. RingInit => RingInv
  BY InitInv
<1>2. RingInv /\ [RingNext]_ringVars => RingInv'
  BY NextKeeps
<1> QED
  BY <1>1, <1>2, PTL DEF RingSpec

(* The shared words and both sides' locals keep their types, and there are   *)
(* never more than Cap bytes between tail and head, gaps included, so the     *)
(* producer never overtakes the consumer (PacketRing::push).                  *)
THEOREM RingTypeSafety == RingSpec => []RingTypeOK
  BY RingInvariant, InvTypes, PTL

(* The ring is a queue of whole records: what pop() returns is the oldest    *)
(* record push() accepted and pop() has not returned, word for word, for any  *)
(* capacity, records and interleaving of the two sides, counters that wrap    *)
(* included (PacketRing::push, PacketRing::pop).                              *)
THEOREM RingIsAQueue == RingSpec => RefinesQueue
<1>1. RingInit => Queue!Init
  BY InitInv DEF Queue!Init
<1>2. RingInv /\ [RingNext]_ringVars => [Queue!Next]_<<Unread, got>>
  BY NextKeeps
<1> QED
  BY <1>1, <1>2, RingInvariant, PTL DEF RingSpec, RefinesQueue, Queue!Spec
=============================================================================
