\* Two vehicles and two commands; two fence transfers that compete for the replies
\* of one MAVLink 1 vehicle; calls to a vehicle that adds a parameter meanwhile.  No symmetry under liveness.
CONSTANTS
    Parts = {"command", "mission", "param"}
    Ops = {o1, o2}
    Systems = {v1, v2}
    Components = {autopilot}
    Commands = {arm, mode}
    ModeCommand = mode
    MaxAttempts = 1
    MaxAcks = 2
    Types = {fence}
    Mission = mission
    Plans <- TwoPlans
    MissionSystems = {v1}
    MissionAttempts = 2
    MissionFlight = 1
    OneAtATime = FALSE
    V1 = TRUE
    ParamSystems = {v1}
    List <- TwoNames
    Values = {x, y}
    Initial <- Different
    SetMaxAttempts = 1
    MaxStallRounds = 0
    Growing = TRUE
    MaxChanges = 0
    ParamFlight = 2
    None = None
    n1 = n1
    n2 = n2
    a = a
SPECIFICATION MCFairSpec
INVARIANTS
    ResolvedWasAccepted
PROPERTIES
    ImplementsOneShotCalls
    EveryClientCallEnds
CHECK_DEADLOCK FALSE
