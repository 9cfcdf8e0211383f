SPECIFICATION SimSpec
CONSTANTS
    A = A
    B = B
    Teams = {A, B}
    NoTeam = NoTeam
    homeTeam = A
    awayTeam = B
    Events <- MCEvents
    MaxEvents = 3
    matchMinutes = 2
    halfTimeMinute = 1
    MaxPerMinute = 2
    MaxPosted = 3
    MaxAstray = 1
    MaxRecounted = 1
INVARIANTS TypeOK CountersMatchHistory TeamsFromHistory OrderIrrelevantForCounters
INVARIANT ConsequencesHaveCauses
CHECK_DEADLOCK FALSE
