CONSTANTS
    Requests = {g1, g2, g3}
    NodeOf <- OwnNode
    Concurrency = 2
SPECIFICATION FairSpec
INVARIANTS
    QueueInv
    ConcurrencyBounded
    PeakRecorded
PROPERTIES
    ImplementsNodeSubmitter
    SubmitsReturn
CHECK_DEADLOCK FALSE
