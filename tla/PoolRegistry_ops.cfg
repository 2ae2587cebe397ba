SPECIFICATION Spec
CONSTANTS
    Models = {a, b, c}
    Envs = {"e"}
    MaxOps = 4
    Faults = {"load", "extract", "hook"}
SYMMETRY ModelSymmetry
INVARIANTS
    ServedWhereLoaded
    WholeEnvironment
    PoolsTracked
CHECK_DEADLOCK FALSE
