SPECIFICATION Spec
CONSTANTS
    Predictors = {c1}
    NoOwner = NoOwner
    m1 = m1
    Matches = {m1}
    Messages <- AllKinds
    ConnectAttempts = 2
    MaxTopic = 2
    MaxFaults <- NoFaults
INVARIANT RunningTotalComplete
CHECK_DEADLOCK FALSE
