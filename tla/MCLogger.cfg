SPECIFICATION FairSpec
CONSTANTS
    Writers = {sampler, web}
    Accepter = accepter
    Clients = {c1, c2, c3, c4}
    MaxFiles = 2
    MaxSockets = 4
    SetupMayFail = TRUE
    PeerMayLeave = TRUE
    NoFile = null
INVARIANTS
    TypeOK
    TableInStep
    NullNeedsFullTable
PROPERTIES
    ClientKept
    MessagesWhole
    LoggingReturns
CHECK_DEADLOCK FALSE
