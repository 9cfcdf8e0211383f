SPECIFICATION FairSpec
CONSTANTS
    Predictors = {c1, c2}
    NoOwner = NoOwner
    m1 = m1
    Matches = {m1}
    Messages <- ShotOrOther
    ConnectAttempts = 2
    MaxTopic = 2
    MaxFaults <- SomeFaults
INVARIANTS TypeOK CommittedIsHandled RepeatsBounded SettledIsNewest
PROPERTY EventuallyHandled
CHECK_DEADLOCK FALSE
