SPECIFICATION FairSpec
CONSTANTS
    NumTables = 5
    Role <- Kinds
    Reads <- KindReads
    GateReads <- KindGates
    NumChunks <- KindChunks
    Counted <- AllButServiceType
    Drifted <- OnlyTheFact
    Selections <- Onlys
    MaxVersions = 2
    MaxBuilds = 2
    MaxFaults = 2
    Overlap = FALSE
INVARIANTS
    TypeOK
    OneGeneration
    GreenMeansWhole
    RebuildRepairs
    VersionsKept
    BacktestsCoverForecasts
PROPERTIES
    BuildEnds
CHECK_DEADLOCK FALSE
