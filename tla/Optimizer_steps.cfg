SPECIFICATION Spec
CONSTANTS
    Threshold = 4
    SlaFactor = 1
    Loads = {0, 3, 40}
    ScalingCap = 3
    BatchingCap = 4
    Alpha = 4
    Beta = 1
    Gamma = 0
    Setups <- MCSetups
INVARIANTS
    BaseAllocationRule
    SustainsLoad
    Memoryless
    NumbersOfConfig
CHECK_DEADLOCK FALSE
