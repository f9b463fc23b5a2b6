SPECIFICATION FairSpec
CONSTANTS
    Guards = {g1, g2}
    Failures = 1
INVARIANTS NoChildLost ResultTruthful
PROPERTIES CallsReturn DeferredReaped
CHECK_DEADLOCK FALSE
