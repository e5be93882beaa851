CONSTANTS
    Runs = {r1}
    Consumers = {c1, c2}
    MaxEntries = 2
    PendingCount = 1
    MaxFaults = 1
SPECIFICATION FairSpec
CHECK_DEADLOCK FALSE
PROPERTIES
    AtLeastOnce
