SPECIFICATION FairSpec
CONSTANTS
    SelfIds = {s1, s2}
    NoId = none
    Friend = TRUE
    TransportMs = 2
    RosterMs = 2
    EpisodeMs = 12
    StableMs = 3
    RetryDelays <- MCDelays
INVARIANTS TypeOK RetryBudget LinkFollowsScheduler
PROPERTIES OnlyStableMembershipCounts AttemptsSettle
