SPECIFICATION FairSpec
CONSTANTS
    NumStatic = 1
    Skippable = {"static", "311"}
    NumWindows <- FullPlan
    Pids = {1, 2, 3, 4}
    ReusePids = FALSE
    MaxFaults = 1
    MaxSignals = 2
    MaxKills = 1
INVARIANTS
    TypeOK
    CheckpointMeansRan
    OneMessagePerRun
    FailureIsTold
    SuccessPingIsHonest
PROPERTIES
    PlanCompletes
