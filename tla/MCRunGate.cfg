CONSTANTS
    Runs = {r1}
    Admissions = {a1, a2, a3}
    Supervised = {r1}
SPECIFICATION Spec
SYMMETRY Symmetry
INVARIANTS
    RecordBeforeRun
    ExecutedRunsAtRest
    TerminalRecordsAreTrue
    GateInv
PROPERTIES
    DurableLifecycle
