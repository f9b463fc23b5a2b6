SPECIFICATION FairSpec
CONSTANTS
    Channels = {c1, c2}
    BindHost = "localhost"
    Hosts = {"localhost", "other"}
    RequestedPort = 0
    ServerPorts = {0, 9000, 65536}
    ClaimedPorts = {0, 9000, 65536}
    MaxCalls = 1
INVARIANTS TerminalMeansDrained HandleMeansUnjoined AcceptedOnlyBound NoLostWakeup
PROPERTY ShutdownReturns
CHECK_DEADLOCK FALSE
