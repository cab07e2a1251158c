SPECIFICATION Spec
CONSTANTS
    t1 = t1
    t2 = t2
    source = source
    o1 = o1
    Saturation = 3
    BluetoothOpens = 2
    BluetoothCloses = 2
    PeerOpens = 2
    PortOpens = 3
    PortCloses = 2
    Tlogs <- SomeTlogs
    MaxSeeks = 2
    FirstFrames <- FramesHeardFirst
    FrameJumps <- Jumps
    FrameLimit = 4
CHECK_DEADLOCK FALSE
INVARIANTS
    TypeOK
    LinksAreHonest
    FramesAreKept
PROPERTIES
    ImplementsTransport
    LinksRecover
    ForwardingServes
    CallersAreServed
    SettingsAreKept
