CONSTANTS
    a = a
    b = b
    c = c
    Nodes = {a, b, c}
    Start = Start
    Deps <- RootsAndDependant
SPECIFICATION Spec
INVARIANTS
    HeldHasNoJob
CHECK_DEADLOCK FALSE
