CONSTANTS
  h = h
  f = f
  Host = h
  Friends <- MCFriends
  Place <- MCPlace
  Attempts = 1
  MaxEpisode = 2
  Stories <- MCStories
SPECIFICATION Spec
INVARIANT RisesForItsOwnDowning RequestsAreUnspent
PROPERTY ReturnIsHonoured
CHECK_DEADLOCK FALSE
