SPECIFICATION FairSpec
CONSTANTS
    Sessions = {s1, s2}
    Kids = {k1, k2}
    Panics = TRUE
INVARIANTS StopOkMeansDrained NoTaskForgotten
PROPERTIES StopReturns
CHECK_DEADLOCK FALSE
