SPECIFICATION FairSpec
CONSTANTS
    Executions = {"e1", "e2"}
    Fan = 2
    Spread = 1
    NameLimit = 7
    MaxFaults <- MCMaxFaults
    Plan <- Catalogue
    CallerDeadlineOnly <- LongPipelines
    Workloads <- MCWorkloads
INVARIANTS
    PipelinesInv
    FailureStopsDependants
    RunsAreExclusive
    ReportsAreOwn
    InputsAreThere
    FailuresHaveACause
PROPERTIES
    FinishedMeansDone
    ExecutionsEnd
CHECK_DEADLOCK FALSE
