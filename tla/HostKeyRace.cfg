SPECIFICATION Spec
CONSTANTS
    Conns = {c1, c2}
    Hosts = {"ours"}
    Keys <- ThreeKeys
    Algorithm <- KeyAlgorithm
    InitialFiles <- EmptyFiles
    DefaultFiles <- EmptyFiles
    Parallel = 2
PROPERTIES RecordedKeyOnly
CHECK_DEADLOCK FALSE
