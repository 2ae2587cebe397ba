SPECIFICATION FairSpec
CONSTANTS
    n1 = n1
    n2 = n2
    small = small
    large = large
    Nodes = {n1, n2}
    Variants = {small, large}
    Sizes = {1, 2}
    Batches = {1, 2, 4}
    InitialConfig <- MCInitialConfig
    Candidates <- MCCandidates
    CentralQueue = TRUE
    FaultSets <- MCFaultSets
    MaxSteps <- MCMaxSteps
INVARIANTS
    SuccessMeansApplied
    PipelineMoves
    OrderlyEnd
PROPERTIES
    ReportedConfigRuns
    ChangeEnds
    EndsWithPipeline
CHECK_DEADLOCK FALSE
