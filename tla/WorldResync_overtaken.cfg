SPECIFICATION Spec
CONSTANTS
    Seats = {f1}
    Values = {"a", "b"}
    BossRows = {"b"}
    MaxSerial = 5
    MaxEpoch = 1
    MaxRequests = 1
    MaxConns = 2
    MaxContinuation = 1
INVARIANTS TypeOK UnfencedSeatsMirror CacheIsCurrent
PROPERTIES AppliesInOrder ConvergedIsCertified
CHECK_DEADLOCK FALSE
