SPECIFICATION FairSpec
CONSTANTS
    Owner = app
    Scanners = {web}
    AppModes = {"STA"}
    Ssids = {home}
    RetryCount = 1
    Callbacks = {"sta_disconnect"}
    ScanBuffer = 1
    MaxQueue = 1
    InitMayFail = FALSE
    ConnectMayFail = TRUE
PROPERTIES
    LossHandled
    CallsReturn
    DeinitFreesAll
