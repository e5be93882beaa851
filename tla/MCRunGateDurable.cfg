CONSTANTS
    Runs = {r1}
    Admissions = {a1, a2}
    Supervised = {}
SPECIFICATION Spec
INVARIANTS
    DurableBeforeRun
