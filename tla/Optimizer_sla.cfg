SPECIFICATION Spec
CONSTANTS
    Threshold = 4
    SlaFactor = 1
    Loads = {0, 3, 40}
    ScalingCap = 3
    BatchingCap = 16
    Alpha = 4
    Beta = 1
    Gamma = 0
    Setups <- LargeBatches
INVARIANTS
    MeetsSla
CHECK_DEADLOCK FALSE
