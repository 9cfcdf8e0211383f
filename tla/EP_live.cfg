SPECIFICATION FairSpec
CONSTANTS
    Consumers = {c1}
    NoOwner = NoOwner
    e1 = e1
    e2 = e2
    m1 = m1
    m2 = m2
    EventIds = {e1}
    NoId = NoId
    Matches = {m1}
    Malformed = Malformed
    Messages <- WithMalformed
    MaxTopic = 2
    MaxFaults <- LiveFaults
PROPERTY EventuallyCommitted
INVARIANT MalformedAccountedFor
CHECK_DEADLOCK FALSE
