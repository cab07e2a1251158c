\* A fetch while the vehicle enables parameters.
CONSTANTS
    Ops = {o1}
    Systems = {v1}
    List <- ThreeNames
    Values = {x, y}
    Initial <- Different
    SetMaxAttempts = 2
    MaxStallRounds = 1
    Growing = TRUE
    MaxChanges = 0
    MaxFlight = 2
    None = None
SPECIFICATION Spec
SYMMETRY Symmetry
INVARIANTS FetchIsComplete
CHECK_DEADLOCK FALSE
