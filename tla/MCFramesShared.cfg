SPECIFICATION Spec
CONSTANTS
    app = app
    event = event
    Tasks = {app, event}
    IdOf <- SharedSlot
    Exceptions = {"e1"}
    MaxDepth = 2
    Returners = {}
INVARIANT JumpsHome
CHECK_DEADLOCK FALSE
