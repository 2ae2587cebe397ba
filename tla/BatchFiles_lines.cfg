SPECIFICATION FairSpec
CONSTANT Setups <- MCSetups
    Convertible <- MCConvertible
INVARIANTS
    WrittenOnce
    NothingVanishes
    OwnAnswer
    OwnParameters
PROPERTY
    Ends
CHECK_DEADLOCK FALSE
