SPECIFICATION FairSpec
CONSTANTS
    QueueCapacity = 0
    EventKinds <- AllKinds
    DataLens = {2}
    MaxEvents = 2
    MsgLens = {2}
    BufLen = 1
    MaxMsgs = 1
    MaxWindow = 1
    ExitStatuses = {s0}
    ExitSignals = {}
    InactivityTimeout = FALSE
PROPERTIES EndReturns CancelReturns ImplementsSession
CHECK_DEADLOCK FALSE
