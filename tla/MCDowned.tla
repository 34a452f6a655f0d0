---------------------------- MODULE MCDowned ----------------------------
(* An instance of Downed for TLC: the host and one friend.                   *)
EXTENDS Downed

CONSTANTS h, f

MCFriends == {f}

\* The host's game loads its own room again, then another.
MCPlace == <<1, 1, 2>>

Story(hostHits, friendHits, events, wins, rooms, sessions, partner, savepoint) ==
  [hits |-> [s \in Seats |-> IF s = Host THEN hostHits ELSE friendHits], events |-> events, lost |-> 0,
   wins |-> wins, rooms |-> rooms, sessions |-> sessions, partner |-> partner, savepoint |-> savepoint]

MCStories ==
  { \* the encounter won during the friend's cutscene, and the host moves on
    Story(0, 1, {<<f, "cutscene">>}, 1, 1, 0, FALSE, FALSE),
    \* both down: the host takes the game over and loads the room again
    Story(1, 1, {}, 0, 1, 0, FALSE, FALSE),
    \* the host wins while it is down itself, in an event
    Story(1, 1, {<<h, "camera">>}, 1, 0, 0, FALSE, FALSE),
    \* another session before the receipt is used
    Story(0, 1, {<<f, "camera">>}, 1, 0, 1, TRUE, FALSE),
    \* the friend down twice, with a victory, a partner and a save point
    Story(0, 2, {<<f, "camera">>}, 1, 0, 0, TRUE, TRUE),
    \* the host sits out two rooms
    Story(1, 0, {}, 0, 2, 0, TRUE, FALSE),
    \* the friend's poses are lost for a while
    [Story(0, 1, {}, 1, 0, 0, TRUE, FALSE) EXCEPT !.lost = 1]}

=============================================================================
