SPECIFICATION Spec
CONSTANTS
    Friends = {f1, f2}
    Host = host
    Listeners = {f1, f2, host}
    Speakers = {f1}
    MaxConns = 2
    MaxPlans = 2
    MaxSends = 2
INVARIANT PresentSeatsRecognise
CHECK_DEADLOCK FALSE
