\* Two transports of any kind, one after the other.
CONSTANTS
    Kinds = {"serial", "websocket", "replay"}
    MaxTransports = 2
    MaxSends = 1
    MaxQueue = 1
SPECIFICATION FairSpec
INVARIANTS TypeOK SentOnThisLink DevicesAreLetGo ShownIsTrue
PROPERTIES CallsEndUnlessStuck
CHECK_DEADLOCK FALSE
