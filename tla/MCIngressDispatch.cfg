CONSTANTS
    Runs = {r1, r2}
    Admissions <- MCEntries
    Supervised = {}
    MaxEntries = 2
    Flags <- MCFlags
SPECIFICATION FairDispatchSpec
INVARIANTS
    DispatchTypeOK
    InFlightBounded
    SlotsOwned
    AckedSurvives
    StoreInv
    AckedRunsSucceeded
    LimitsKept
PROPERTIES
    EntriesAreTaken
    DrainsAndExits
