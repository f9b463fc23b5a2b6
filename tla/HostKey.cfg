SPECIFICATION Spec
CONSTANTS
    Conns = {c1, c2}
    Hosts = {"ours", "other"}
    Keys <- ThreeKeys
    Algorithm <- KeyAlgorithm
    InitialFiles <- GivenFiles
    DefaultFiles <- UserFiles
    Parallel = 1
INVARIANTS StoredIsKnown
PROPERTIES ChangedNeverAccepted
CHECK_DEADLOCK FALSE
