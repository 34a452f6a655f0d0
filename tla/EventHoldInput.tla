--------------------------- MODULE EventHoldInput ---------------------------
(***************************************************************************)
(* EventHoldInputState.hpp: what a hold does to the friend's own input, from *)
(* the Start press that opens its pause to the one that closes it, and the   *)
(* service that closes a pause whose hold failed when its lifetime expired.  *)
(* Times are the ticks that remain; UnwindStepMs is one tick.                *)
(***************************************************************************)
EXTENDS Integers

CONSTANTS
  OpenTicks,       \* the pause must be open this long after its Start
  ReleaseTicks,    \* ReleaseTimeoutMs
  UnwindPresses    \* presses tried to close the pause

ASSUME InputAssumption == {OpenTicks, ReleaseTicks, UnwindPresses} \subseteq Nat \ {0}

Phases == {"Idle", "OpenRelease", "Opening", "Paused", "CloseRelease", "Closing",
           "OwnerWait", "ReleaseBoundary", "Complete", "Failed"}

Menus == {"closed", "pause", "page"}   \* "pause": the menu the hold's Start opened

Unset == -1

NoHold ==
  [phase |-> "Idle", owned |-> FALSE, wake |-> FALSE, follow |-> FALSE, press |-> FALSE,
   open |-> 0, release |-> Unset, due |-> FALSE, unwound |-> 0, failedOwned |-> FALSE]

Holding(i) == i.phase \notin {"Idle", "Complete", "Failed"}

OwnedPauseOpen(i) == i.owned /\ i.phase \in {"Paused", "CloseRelease", "Closing"}

\* What nothing reads again is forgotten.
Complete == [NoHold EXCEPT !.phase = "Complete"]

Fail(i) ==
  [NoHold EXCEPT !.phase = "Failed",
                 !.failedOwned = IF i.phase = "Failed" THEN i.failedOwned ELSE OwnedPauseOpen(i)]

CanAcquire(i, s) == ~Holding(i) /\ s.healthy /\ s.safe

Acquire == [NoHold EXCEPT !.phase = "OpenRelease", !.open = OpenTicks, !.press = TRUE]

Wake(i) == [i EXCEPT !.wake = TRUE]

FollowScene(i) == [i EXCEPT !.wake = TRUE, !.follow = TRUE]

ReleaseUntimed(i) == i    \* mutant: a release sets no deadline

ReleaseReceived(i) == [i EXCEPT !.release = ReleaseTicks]

Supersede(i) == IF i.phase \in {"OwnerWait", "ReleaseBoundary"} THEN Complete ELSE i

-----------------------------------------------------------------------------
(* One Tick() of a hold on a sample: the next state, and whether the         *)
(* callback's input is overlaid.  A step that fails overlays nothing.        *)

StepOpening(i, s) ==
  IF s.menu = "pause" THEN [i EXCEPT !.owned = TRUE, !.phase = "Paused", !.open = 0]
  ELSE IF s.menu = "page" \/ i.open = 0 THEN Fail(i)
  ELSE i

StepPaused(i, s) ==
  IF ~i.owned \/ s.menu # "pause" THEN Fail(i)
  ELSE IF i.wake THEN [i EXCEPT !.phase = "CloseRelease", !.due = FALSE, !.unwound = 0]
  ELSE i

StepClosing(i, s) ==
  IF s.menu = "closed" THEN [i EXCEPT !.owned = FALSE, !.phase = "OwnerWait", !.due = FALSE]
  ELSE IF i.unwound = 0 /\ s.menu # "pause" THEN Fail(i)
  ELSE IF ~i.due THEN i
  ELSE IF i.unwound >= UnwindPresses THEN Fail(i)
  ELSE [i EXCEPT !.unwound = @ + 1, !.due = FALSE, !.phase = "CloseRelease"]

StepOwnerWait(i, s) ==
  IF s.menu # "closed" THEN Fail(i)
  ELSE IF i.follow THEN Complete
  ELSE IF s.ownerReleased THEN [i EXCEPT !.phase = "ReleaseBoundary"]
  ELSE IF i.release = 0 THEN Complete
  ELSE i

StepReleaseBoundary(i, s) ==
  IF s.menu # "closed" \/ ~s.ownerReleased THEN Fail(i) ELSE Complete

Step(i, s) ==
  IF ~Holding(i) THEN i
  ELSE IF ~s.healthy THEN Fail(i)
  ELSE IF i.press THEN [i EXCEPT !.press = FALSE]
  ELSE CASE i.phase = "OpenRelease"     -> [i EXCEPT !.phase = "Opening"]
         [] i.phase = "Opening"         -> StepOpening(i, s)
         [] i.phase = "Paused"          -> StepPaused(i, s)
         [] i.phase = "CloseRelease"    -> [i EXCEPT !.phase = "Closing"]
         [] i.phase = "Closing"         -> StepClosing(i, s)
         [] i.phase = "OwnerWait"       -> StepOwnerWait(i, s)
         [] i.phase = "ReleaseBoundary" -> StepReleaseBoundary(i, s)

Neutral(i, s) == Holding(i) /\ Step(i, s).phase # "Failed"

Aged(i) ==
  [i EXCEPT !.open = IF @ > 0 THEN @ - 1 ELSE @,
            !.release = IF @ > 0 THEN @ - 1 ELSE @,
            !.due = i.phase \in {"CloseRelease", "Closing"}]

-----------------------------------------------------------------------------
(* OrphanedPause.  A changed event state or context, or a sample that cannot *)
(* be read, counts as another page.                                          *)

NoOrphan == [armed |-> FALSE, handled |-> FALSE, release |-> FALSE, presses |-> 0, due |-> FALSE]

OrphanOver == [NoOrphan EXCEPT !.handled = TRUE]

ArmOrphan(menu) == [OrphanOver EXCEPT !.armed = menu = "pause"]

StepOrphan(o, menu) ==
  IF menu # "pause" THEN OrphanOver
  ELSE IF o.release THEN [o EXCEPT !.release = FALSE]
  ELSE IF o.presses > 0 /\ ~o.due THEN o
  ELSE IF o.presses > UnwindPresses THEN OrphanOver
  ELSE [o EXCEPT !.presses = @ + 1, !.due = FALSE, !.release = TRUE]
=============================================================================
