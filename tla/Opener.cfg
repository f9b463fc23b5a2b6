SPECIFICATION FairSpec
CONSTANTS
    MaxIdentities = 3
INVARIANTS PhasesTruthful CancelledBeforeCall ForwardCleanedUp
PROPERTIES CallEnds
CHECK_DEADLOCK FALSE
