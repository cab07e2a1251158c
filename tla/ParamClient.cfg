\* Two overlapping calls, two parameters.
CONSTANTS
    Ops = {o1, o2}
    Systems = {v1}
    List <- TwoNames
    Values = {x, y}
    Initial <- Different
    SetMaxAttempts = 2
    MaxStallRounds = 1
    Growing = TRUE
    MaxChanges = 1
    MaxFlight = 2
    None = None
SPECIFICATION Spec
SYMMETRY Symmetry
INVARIANTS TypeOK SteadyFetchIsComplete BookkeepingIsTrue
CHECK_DEADLOCK FALSE
