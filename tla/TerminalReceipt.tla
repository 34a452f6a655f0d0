--------------------------- MODULE TerminalReceipt ---------------------------
(***************************************************************************)
(* NetworkTerminal(): the injected DLL asks whether the current runtime's    *)
(* networking has stopped for good, which ends the session for the game.     *)
(* ReadTerminal loads the receipt between two writer views; runtimes may      *)
(* overlap, die half-way through a receipt and reuse each other's PIDs.       *)
(*                                                                           *)
(* The first view captures a key.  Every later load has to agree with it, so  *)
(* the call is a walk along a script: one load that disagrees makes the       *)
(* answer no, whatever the code still loads before it says so.                *)
(***************************************************************************)
EXTENDS WriterWords

VARIABLES
  reader,    \* the DLL's call: the loads done, the key captured, the answer
  ended      \* history: the runtimes that committed a receipt while the
             \* generation they had read was current, with that generation

receiptVars == <<mem, rt, reader, ended>>

Key == [gen |-> 0, inc |-> 0, pid |-> 0]

Asking == [done |-> 0, key |-> Key, answer |-> "none"]

ReceiptInit ==
  /\ WordsInit
  /\ reader = Asking
  /\ ended = {}

OneView == ViewScript \o <<"term", "termInc", "term">>     \* mutant: no second view

Script == ViewScript \o <<"term", "termInc", "term">> \o ViewScript

Step == reader.done + 1

Pending == reader.answer = "none"

Capture ==
  LET word == Script[Step]
  IN  /\ Pending /\ Step <= 3
      /\ reader' = [reader EXCEPT
                      !.done = Step,
                      !.key[word] = mem[word],
                      !.answer = IF word # "gen" /\ mem[word] = 0 THEN "no" ELSE @]

Agrees(word) ==
  CASE word = "beat" -> TRUE
    [] word = "term" -> mem.term = <<reader.key.pid, reader.key.gen>>
    [] word = "termInc" -> mem.termInc = reader.key.inc
    [] OTHER -> mem[word] = reader.key[word]

Compare ==
  /\ Pending /\ Step > 3
  /\ reader' = [reader EXCEPT
                  !.done = Step,
                  !.answer = IF ~Agrees(Script[Step]) THEN "no"
                             ELSE IF Step = Len(Script) THEN "yes" ELSE @]

CallAgain ==
  /\ ~Pending
  /\ reader' = Asking

NetworkTerminal ==
  /\ Capture \/ Compare \/ CallAgain
  /\ UNCHANGED <<mem, rt, ended>>

\* The step that puts a receipt for the present generation into the words.
Ends(r) == rt[r].pc = "commit" /\ rt'[r].pc = "run" /\ rt[r].seen = mem.gen

RuntimeStores ==
  /\ \E r \in Runtimes : RuntimeStep(r, 0) \/ WriteTerminal(r)
  /\ ended' = ended \cup {<<r, mem.gen>> : r \in {s \in Runtimes : Ends(s)}}
  /\ UNCHANGED reader

ReceiptNext == NetworkTerminal \/ RuntimeStores

ReceiptSpec == ReceiptInit /\ [][ReceiptNext]_receiptVars

-----------------------------------------------------------------------------
(* A call that answers yes names, by its PID and incarnation, a runtime that  *)
(* ended for good under the generation the call found current: no mixture of *)
(* two runtimes' stores, of two generations or of two incarnations behind    *)
(* one PID passes for a receipt (ReadTerminal).                              *)
YesWasTrue ==
  reader.answer = "yes" =>
    \E r \in Runtimes : /\ Pid[r] = reader.key.pid /\ Incarnation(r) = reader.key.inc
                        /\ <<r, reader.key.gen>> \in ended
=============================================================================
