SPECIFICATION FairSpec
CONSTANTS
    NumWorkers = 2
    Requests = {r1, r2}
    MaxUpdates = 3
    Faults = {"cancel", "load"}
INVARIANTS
    NothingLost
    ServedEverywhere
    NotFoundMeansUnloaded
    NoModelLeftBehind
PROPERTIES
    EveryRequestAnswered
    EveryUpdateEnds
CHECK_DEADLOCK FALSE
