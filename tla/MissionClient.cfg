\* Two transfers, one after the other, each message sent at most twice.
CONSTANTS
    Ops = {o1, o2}
    Systems = {v1}
    Types = {mission}
    Mission = mission
    Plans <- MCPlans
    MaxAttempts = 2
    MaxFlight = 2
    OneAtATime = TRUE
    V1 = FALSE
    None = None
SPECIFICATION Spec
SYMMETRY Symmetry
INVARIANTS TypeOK DownloadedIsHeld VerifiedUploadIsHeld
CHECK_DEADLOCK FALSE
