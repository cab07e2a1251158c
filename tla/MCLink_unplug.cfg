\* Two serial ports, one after the other.
CONSTANTS
    Kinds = {"serial"}
    MaxTransports = 2
    MaxSends = 0
    MaxQueue = 2
SPECIFICATION FairSpec
PROPERTIES CallsEnd
CHECK_DEADLOCK FALSE
