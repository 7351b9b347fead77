SPECIFICATION Spec
CONSTANTS
    app = app
    event = event
    Tasks = {app, event}
    IdOf <- OwnSlot
    Exceptions = {"e1", "e2"}
    MaxDepth = 2
    Returners = {event}
INVARIANTS
    JumpsHome
    CatchSeesOwnThrow
PROPERTY FramesImplementBlocks
CHECK_DEADLOCK TRUE
