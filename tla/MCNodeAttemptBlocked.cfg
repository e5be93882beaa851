CONSTANTS
    Requests = {g1, g2}
    NodeOf <- OwnNode
    Concurrency = 1
SPECIFICATION Spec
INVARIANTS
    BlockedMeansWaiting
CHECK_DEADLOCK FALSE
