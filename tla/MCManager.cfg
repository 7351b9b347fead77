SPECIFICATION FairSpec
CONSTANTS
    Creds = {home, office, cafe, lab}
    LongSsids = {cafe}
    LongPasswords = {lab}
    None = none
    InitMayFail = TRUE
    FlashMayFail = TRUE
    MaxCrashes = 2
INVARIANTS
    TypeOK
    PortalOnlyAfterTrying
PROPERTIES
    StoreImplemented
    BootTerminates
    RestartFollows
CHECK_DEADLOCK FALSE
