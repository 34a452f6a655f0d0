CONSTANTS
  OpenTicks = 1
  ReleaseTicks = 1
  UnwindPresses = 1
  Capacity = 2
  SourceCapacity = 4
  TimeoutTicks = 1
  OwnerCapacity = 2
  RosterTicks = 1
  MaxFacts = 3
  MaxLifetimes = 2
SPECIFICATION FairSpec
INVARIANT TypeOK  NoFactSkipped
PROPERTY ReturnIsEarned InputGivenBack
CHECK_DEADLOCK FALSE
