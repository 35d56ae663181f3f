SPECIFICATION Spec
CONSTANTS
    NumTables = 2
    Role <- TwoKinds
    Reads <- TwoReads
    GateReads <- TwoGates
    NumChunks <- TwoChunks
    Counted <- OnlyTheFact
    Drifted = {1}
    Selections <- TwoOnlys
    MaxVersions = 0
    MaxBuilds = 2
    MaxFaults = 1
    Overlap = TRUE
INVARIANTS
    GreenTogetherMeansComplete
CHECK_DEADLOCK FALSE
