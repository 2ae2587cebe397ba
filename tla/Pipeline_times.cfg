SPECIFICATION Spec
CONSTANTS
    Requests = {r1, r2, r3}
    NumStages = 2
    DropLimit = 2
    LastTick = 2
    Setups <- MCSetups
SYMMETRY RequestSymmetry
INVARIANTS
    TimesSurvive
    OwnTimes
    DropLimitKept
CHECK_DEADLOCK FALSE
