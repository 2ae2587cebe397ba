SPECIFICATION FairSpec
CONSTANTS
    Requests = {r1, r2}
    MaxBatchSize = 2
    FaultSets = {{"cancel"}}
PROPERTIES
    StayingClientAnswered
CHECK_DEADLOCK FALSE
