SPECIFICATION Spec
CONSTANTS
    n1 = n1
    n2 = n2
    small = small
    large = large
    Nodes = {n1, n2}
    Variants = {small, large}
    Sizes = {1, 2}
    Batches = {1, 2, 4}
    InitialConfig <- MCInitialConfig
    Candidates <- MCCandidates
    CentralQueue = TRUE
    FaultSets <- MCConflicts
    MaxSteps <- MCTwoSteps
INVARIANTS
    FailureMeansUnchanged
CHECK_DEADLOCK FALSE
