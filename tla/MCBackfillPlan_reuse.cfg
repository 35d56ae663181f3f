SPECIFICATION Spec
CONSTANTS
    NumStatic = 1
    Skippable = {"311"}
    NumWindows <- SmallPlan
    Pids = {1, 2}
    ReusePids = TRUE
    MaxFaults = 1
    MaxSignals = 1
    MaxKills = 0
INVARIANTS
    FailureIsTold
