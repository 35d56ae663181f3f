SPECIFICATION FairDqSpec
CONSTANTS
    dag = dag
    backfill = backfill
    NumDays = 2
    MonthOf <- OneMonth
    Jobs <- BothJobs
    Daily = dag
    Windows <- SomeWindows
    Contents <- ThreeContents
    MaxChanges = 2
    MaxManual = 1
    MaxFaults = 1
    Audited <- PastTail
    MaxTries = 2
    MaxAudits = 2
INVARIANTS
    PipelineTypeOK
    NoRowIsLost
    CertifiedBatchConserved
PROPERTIES
    MirrorsBronze
    VerdictIsOfThisRun
    SilverConverges
