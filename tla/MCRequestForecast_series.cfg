SPECIFICATION Spec
CONSTANTS
    Rules <- MCRules
    Target <- MCTarget
    Units = {1, 2}
    Cm = {0, 1, 3}
    NumDays = 7
    Winter = {1, 2, 3, 5, 6, 7}
    Grain = 2
    Horizon = 3
    PastDays = 1
    Lookback = 3
    MaxLead = 3
    MinHours = 23
    FullDay = 24
    ShortDay = 12
    SeasonLength = 3
    EraStart = 4
INVARIANTS
    SegmentationsAgree
    OutlookReplaysArchive
    NothingLeaksBack
\* The archive ends with the last day of the bound.
CHECK_DEADLOCK FALSE
