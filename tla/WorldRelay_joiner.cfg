SPECIFICATION Spec
CONSTANTS
  Friends = {f1}
  Settings <- Stories
  Backlog = 1
  RingCapacity = 1
INVARIANT CaughtUp
INVARIANT NothingOfAnotherLife
PROPERTY HpNeverGoesBack
CHECK_DEADLOCK FALSE
