SPECIFICATION Spec
CONSTANTS
    Owner = app
    Scanners = {}
    AppModes = {"STA", "APSTA"}
    Ssids = {home}
    RetryCount = 1
    Callbacks = {}
    ScanBuffer = 1
    MaxQueue = 1
    InitMayFail = TRUE
    ConnectMayFail = FALSE
PROPERTY DeinitFreesAll
CHECK_DEADLOCK FALSE
