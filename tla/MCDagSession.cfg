CONSTANTS
    a = a
    b = b
    c = c
    Nodes = {a, b, c}
    Start = Start
    Deps <- RootsAndDependant
SPECIFICATION Spec
INVARIANTS
    JobsFollowDeps
    SessionInv
    NothingDropped
PROPERTIES
    StatusMovesForward
CHECK_DEADLOCK FALSE
