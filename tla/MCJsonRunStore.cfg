CONSTANTS
    Runs = {r1, r2}
SPECIFICATION Spec
SYMMETRY RunSymmetry
INVARIANTS
    TypeOK
    FileAlwaysWhole
    CallInProgress
PROPERTIES
    ImplementsRunStore
