SPECIFICATION Spec
CONSTANTS
    Writers = {sampler}
    Accepter = accepter
    Clients = {c1, c2, c3}
    MaxFiles = 2
    MaxSockets = 5
    SetupMayFail = FALSE
    PeerMayLeave = FALSE
    NoFile = null
INVARIANT NeverWritesToNull
CHECK_DEADLOCK FALSE
