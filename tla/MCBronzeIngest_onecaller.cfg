SPECIFICATION Spec
CONSTANTS
    ingest = ingest
    cli = cli
    Writers <- OneCaller
    Scheduled <- OnlyIngest
    NumDays = 2
    NumDatasets = 2
    Windows <- AnyDays
    MaxWorkers = 2
    MaxRevisions = 2
    MaxFaults = 1
    MaxRuns = 1
INVARIANTS
    WrittenPairsMatch
PROPERTIES
    BronzeNeverGoesBack
