SPECIFICATION FairSpec
CONSTANTS
    QueueCapacity = 0
    EventKinds <- AllKinds
    DataLens = {2}
    MaxEvents = 1
    MsgLens = {1}
    BufLen = 1
    MaxMsgs = 1
    MaxWindow = 1
    ExitStatuses = {s0}
    ExitSignals = {}
    InactivityTimeout = FALSE
PROPERTY CancelStopsOutputPump
CHECK_DEADLOCK FALSE
