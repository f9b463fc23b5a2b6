SPECIFICATION FairSpec
CONSTANTS
    QueueCapacity = 0
    EventKinds <- AllKinds
    DataLens = {0, 2}
    MaxEvents = 2
    MsgLens = {2}
    BufLen = 1
    MaxMsgs = 2
    MaxWindow = 1
    ExitStatuses = {s0, s1}
    ExitSignals = {term}
    InactivityTimeout = TRUE
INVARIANTS WireDiscipline InputAccounting OkIsComplete ChannelReleased
PROPERTIES QuietAfterReturn
CHECK_DEADLOCK FALSE
