SPECIFICATION Spec
CONSTANTS
    Friends = {f1, f2}
    Host = host
    Listeners = {f1, f2}
    Speakers = {f1}
    MaxConns = 2
    MaxPlans = 1
    MaxSends = 2
INVARIANTS OutsidersRecognise
CHECK_DEADLOCK FALSE
