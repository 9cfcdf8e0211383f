SPECIFICATION Spec
CONSTANTS
    Consumers = {c1}
    NoOwner = NoOwner
    e1 = e1
    e2 = e2
    m1 = m1
    m2 = m2
    EventIds = {e1, e2}
    NoId = NoId
    Matches = {m1}
    Malformed = Malformed
    Messages <- WithLegacy
    MaxTopic = 2
    MaxFaults <- OneReplica
SYMMETRY Symmetry
INVARIANTS LossWindow ProcessedIsCounted MemoryIsAhead FeedLosesOnlyTheDead
PROPERTY ListedSnapshotNeverShrinks
CHECK_DEADLOCK FALSE
