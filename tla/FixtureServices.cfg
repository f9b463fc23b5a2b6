SPECIFICATION Spec
CONSTANTS
    Root <- MCRoot
    Tree <- MCTree
    Disk <- MCDisk
    MaxLinks = 2
    Chans = {c1}
    MaxPending = 2
    MaxShells = 2
    Targets <- MCTargets
    Entries <- MCEntries
    Offered = {"d", "s", "new"}
    MaxDepth = 3
    MaxSize = 1
    Bytes = {0, 1}
    MaxLines = 3
    MaxHandles = 2
    MaxLength = 1
    MaxRequests = 3
    Clients = {e1, e2}
INVARIANTS
    ChannelDiscipline SandboxHolds ScpSinkOkMeansStored ScpSourceOkMirrors
    EchoThreadsOwned
PROPERTY EchoStopEndsAll
CHECK_DEADLOCK FALSE
