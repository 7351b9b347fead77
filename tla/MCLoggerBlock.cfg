SPECIFICATION Spec
CONSTANTS
    Writers = {sampler}
    Accepter = accepter
    Clients = {c1, c2, c3}
    MaxFiles = 2
    MaxSockets = 3
    SetupMayFail = FALSE
    PeerMayLeave = TRUE
    NoFile = null
INVARIANT NeverWaitsForItself
CHECK_DEADLOCK FALSE
