SPECIFICATION Spec
CONSTANTS
    Owner = app
    Scanners = {web}
    AppModes = {"STA", "AP", "APSTA"}
    Ssids = {home}
    RetryCount = 2
    Callbacks = {"sta_disconnect"}
    ScanBuffer = 1
    MaxQueue = 1
    InitMayFail = TRUE
    ConnectMayFail = TRUE
INVARIANTS
    TypeOK
    BackendsMatchStatus
    NetifsMatchMode
    NoConnectionWithoutLoop
    ScanTableValid
    HandlersHaveGroup
    TruthfulWhileRetrying
    ShownUntilRetried
PROPERTIES
    GivenUpStaysDown
    NoStaleEvents
CHECK_DEADLOCK TRUE
