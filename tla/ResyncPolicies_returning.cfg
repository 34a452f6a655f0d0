SPECIFICATION FairPolicySpec
CONSTANTS
    Seats = {f1}
    Values = {"a"}
    BossRows = {}
    MaxSerial = 3
    MaxEpoch = 2
    MaxRequests = 2
    MaxConns = 2
    MaxContinuation = 1
    Peers = {"p", "q"}
    Fields <- OneField
    MaxNotices = 2
    MaxEvents = 3
INVARIANTS ReturnedIsRecovered WaitersAreServed CutOffSeatsKnow
PROPERTIES TransactionsEnd
CHECK_DEADLOCK FALSE
