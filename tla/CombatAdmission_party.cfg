CONSTANTS
  Seats = {1, 2}
  DeadlineTicks = 1
  Stories <- Parties
SPECIFICATION FairSpec
INVARIANT TypeOK ArrivedIsEarned ReleaseIsWhole
PROPERTY FirstDecisionStands FreesOnlyItsOwn HoldsEnd
CHECK_DEADLOCK FALSE
