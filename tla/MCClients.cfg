\* Two overlapping calls, to two vehicles: of one command, resent once; of mission
\* transfers; of fetches and writes of parameters, which one vehicle adds to.
CONSTANTS
    Parts = {"command", "mission", "param"}
    Ops = {o1, o2}
    Systems = {v1, v2}
    Components = {autopilot}
    Commands = {mode}
    ModeCommand = mode
    MaxAttempts = 2
    MaxAcks = 2
    Types = {mission}
    Mission = mission
    Plans <- TwoPlans
    MissionSystems = {v1, v2}
    MissionAttempts = 1
    MissionFlight = 2
    OneAtATime = FALSE
    V1 = FALSE
    ParamSystems = {v1, v2}
    List <- TwoNames
    Values = {x, y}
    Initial <- Different
    SetMaxAttempts = 1
    MaxStallRounds = 0
    Growing = TRUE
    MaxChanges = 0
    ParamFlight = 2
    None = None
    n1 = n1
    n2 = n2
    a = a
SPECIFICATION MCSpec
SYMMETRY Symmetry
INVARIANTS
    TypeOK
    TransmissionsBoundedAndAddressed
    TimersMatchPending
    TimeoutMeansExhausted
    ConfirmedWasHeld
PROPERTIES
    SettledForever
    TransfersStayApart
CHECK_DEADLOCK FALSE
