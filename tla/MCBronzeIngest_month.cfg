SPECIFICATION Spec
CONSTANTS
    ingest = ingest
    cli = cli
    Writers <- OneCaller
    Scheduled <- Nobody
    NumDays = 1
    NumDatasets = 2
    Windows <- LookbackOnly
    MaxWorkers = 2
    MaxRevisions = 1
    MaxFaults = 1
    MaxRuns = 1
INVARIANTS
    ShortSliceIsFailed
CHECK_DEADLOCK FALSE
