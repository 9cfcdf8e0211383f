SPECIFICATION Spec
CONSTANTS
    Consumers = {c1, c2}
    NoOwner = NoOwner
    e1 = e1
    e2 = e2
    m1 = m1
    m2 = m2
    EventIds = {e1, e2}
    NoId = NoId
    Matches = {m1}
    Malformed = Malformed
    Messages <- TwoOfAMatch
    MaxTopic = 2
    MaxFaults <- TwoReplicas
SYMMETRY Symmetry
INVARIANT TypeOK
INVARIANT CountedOnce
INVARIANT DedupeInv
INVARIANT CommittedIsSettled
INVARIANT CommitInv
CHECK_DEADLOCK FALSE
