SPECIFICATION FairSpec
CONSTANTS
    NumEvents = 2
    ClientEvents = {client}
    MaxTries = 1
    Partitions = 1
    MaxFaults <- SomeFaults
INVARIANTS TypeOK AcceptedIsOnTopic CopiesBounded SentInOrder FreshIdsBounded
PROPERTY SimulationEnds
CHECK_DEADLOCK FALSE
