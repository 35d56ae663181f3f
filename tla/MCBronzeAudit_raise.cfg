SPECIFICATION AuditSpec
CONSTANTS
    audit = audit
    cli = cli
    Auditor = audit
    Writers <- Callers
    Scheduled <- AuditOnly
    NumDays = 2
    NumDatasets = 1
    Windows <- AuditWindows
    MaxWorkers = 2
    MaxRevisions = 1
    MaxFaults = 1
    MaxRuns = 1
INVARIANTS
    UnfilledGapRaises
