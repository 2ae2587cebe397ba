SPECIFICATION Spec
CONSTANTS
    MaxBatchSize = 4
    MaxBatchTime = 4
    LastTick = 10
PROPERTIES
    EveryBatchGetsWindow
CHECK_DEADLOCK FALSE
