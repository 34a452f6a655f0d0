------------------------- MODULE MCCombatAdmission -------------------------
(* Instances of CombatAdmission for TLC: how much may happen, one record per  *)
(* story.                                                                    *)
EXTENDS CombatAdmission

Story(party, transitions, events, sessions, returners) ==
  [party |-> party, transitions |-> transitions, events |-> events, sessions |-> sessions,
   conns |-> [s \in Seats |-> IF s \in returners THEN 2 ELSE IF s \in party THEN 1 ELSE 0]]

\* Two friends, one of whom returns; one who returns while the fight is entered
\* again, while a second event runs in the room, or while the host changes its
\* session; and one who meets an event in either of two fights.
Parties ==
  {Story({1, 2}, 2, 0, 1, {1}), Story({1}, 3, 0, 1, {1}), Story({1}, 2, 1, 1, {1}),
   Story({1}, 2, 0, 2, {1}), Story({1}, 3, 1, 1, {})}
=============================================================================
