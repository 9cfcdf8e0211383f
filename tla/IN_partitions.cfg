SPECIFICATION Spec
CONSTANTS
    NumEvents = 2
    ClientEvents = {}
    MaxTries = 1
    Partitions = 2
    MaxFaults <- NoFaults
INVARIANT OnePartitionPerMatch
CHECK_DEADLOCK FALSE
