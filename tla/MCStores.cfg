SPECIFICATION Spec
CONSTANTS
    c1 = c1
    c2 = c2
    SecretIds = {1, 2}
    SecretCalls = {c1, c2}
    MaxVaults = 2
    MaxPages = 1
    MapSources = {1, 2}
    MapIds <- OneIdEach
    MapTilesSeen = {1, 2}
    MapEntries = 1
    MapImages = 1
    MapLoading = {c1, c2}
    MapChanges = 1
    MapSweepings = 1
    ExtObjects = 2
    ExtSlots = {c1, c2}
    ExtCalls = 2
    PermCalls = {c1, c2}
    PermEntries = 1
    PermEdits = 2
    PermIds = 2
    FileNames = {c1, c2}
    FileSizes = {2, 4}
    FilesListed = 2
    FileBytes = 3
    FileCalls = 3
    FileCloses = 1
    MotorCount = 2
    MotorTries = 2
    MotorCalls = 2
    MotorLink = 2
    SetupFaces = 2
    SetupWrites = 2
    SetupRuns = 3
    SetupMounts = 2
    EditNames = {1, 2}
    EditVehicles = {1, 2}
    EditCalls = 3
    EditCount = 1
    EditSwitches = 1
    EditChanges = 1
    EditMounts = 1
    PlanRoutes = {"r1", "r2"}
    NoRoute = "none"
    PlanTransfers = 2
    PlanLoads = 1
    PlanEdits = 1
    PlanMounts = 1
    LogOpenings = 3
    LogRecents = 2
    LogMounts = 2
    PadVehicles = {1, 2}
    PadButtons = {"b1"}
    PadInterval = 2
    PadTime = 2
    CalOps = {c1, c2}
    CalVehicles = {1, 2}
    CalFaces = 2
    CalChanges = 1
    AlertSources <- ThreeSources
    AlertLimit = 1
    AlertMessages = 3
    AlertTime = 1
    AlertEvents = 1
SYMMETRY Symmetry
CHECK_DEADLOCK FALSE
INVARIANTS
    TypeOK
    SecretsAreKept
    CachesAreCurrent
    ExtensionsAreHeld
    AlertsAreTold
PROPERTIES
    
    ScreensAreCurrent
    VehicleIsLetGo
