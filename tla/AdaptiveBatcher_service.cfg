SPECIFICATION FairSpec
CONSTANTS
    Requests = {1, 2, 3, 4, 5}
    MaxBatchSize = 2
    FaultSets = {{"cancel", "merge", "omit", "predict"}, {"cancel", "merge", "predict"},
                 {"omit", "predict"}, {"cancel"}}
ACTION_CONSTRAINT InTurn
INVARIANTS
    HeldOnce
    ArrivalOrder
    NoLostWakeup
    NoStrandedRequest
    QueueIsServed
PROPERTIES
    DroppedMeansAnswered
    EveryRequestAdmitted
    ImplementsService
CHECK_DEADLOCK FALSE
