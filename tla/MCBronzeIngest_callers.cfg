SPECIFICATION FairSpec
CONSTANTS
    ingest = ingest
    cli = cli
    Writers <- BothCallers
    Scheduled <- OnlyIngest
    NumDays = 2
    NumDatasets = 1
    Windows <- LookbackAndCli
    MaxWorkers = 1
    MaxRevisions = 2
    MaxFaults = 1
    MaxRuns = 1
INVARIANTS
    TypeOK
    ManifestNeverAheadOfData
    WrittenMeansBacked
PROPERTIES
    LookbackConverges
