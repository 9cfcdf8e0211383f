SPECIFICATION ReadSpec
CONSTANTS
    Consumers = {c1}
    NoOwner = NoOwner
    e1 = e1
    e2 = e2
    m1 = m1
    m2 = m2
    EventIds = {e1, e2}
    NoId = NoId
    Matches = {m1}
    Malformed = Malformed
    Messages <- WithLegacy
    MaxTopic = 2
    MaxFaults <- Readable
    Clients = {k1}
INVARIANTS ReadTypeOK ShownStays ListedIsReadable PublishedNeverShrinks FeedInv
SYMMETRY Symmetry
PROPERTY FeedSpec
CHECK_DEADLOCK FALSE
