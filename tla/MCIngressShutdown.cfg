CONSTANTS
    Runs = {r1}
    Admissions <- MCEntries
    Supervised = {}
    MaxEntries = 2
    Flags <- MCFlags
SPECIFICATION FairDispatchSpec
PROPERTIES
    ContextDoneExits
CHECK_DEADLOCK FALSE
