SPECIFICATION FairAuditSpec
CONSTANTS
    audit = audit
    cli = cli
    Auditor = audit
    Writers <- Callers
    Scheduled <- AuditOnly
    NumDays = 3
    NumDatasets = 1
    Windows <- AuditWindows
    MaxWorkers = 1
    MaxRevisions = 1
    MaxFaults = 1
    MaxRuns = 1
INVARIANTS
    AuditTypeOK
    RecoveredOrEmpty
PROPERTIES
    AuditIsACaller
    GapsClose
