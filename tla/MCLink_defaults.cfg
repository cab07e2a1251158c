\* One websocket link.
CONSTANTS
    Kinds = {"websocket"}
    MaxTransports = 1
    MaxSends = 0
    MaxQueue = 1
SPECIFICATION Spec
INVARIANTS DefaultSetIsRequested
CHECK_DEADLOCK FALSE
