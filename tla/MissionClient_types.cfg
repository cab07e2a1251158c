\* A mission download, then a fence download.
CONSTANTS
    Ops = {o1, o2}
    Systems = {v1}
    Types = {mission, fence}
    Mission = mission
    Plans <- MCPlans
    MaxAttempts = 2
    MaxFlight = 2
    OneAtATime = TRUE
    V1 = FALSE
    None = None
SPECIFICATION Spec
SYMMETRY Symmetry
INVARIANTS DownloadedIsHeld
CHECK_DEADLOCK FALSE
