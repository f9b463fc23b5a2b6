SPECIFICATION ForwardsSpec
CONSTANTS
    Forwards = {f1, f2}
    Links = {l1, l2}
    Addresses = {"localhost", "127.0.0.1", "192.0.2.1"}
    Ports = {0, 2222, 65536}
    FreePorts = {2222}
INVARIANTS NoOrphanListener BridgesFollow
PROPERTY SessionEndEndsAll
CHECK_DEADLOCK FALSE
