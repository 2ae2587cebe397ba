SPECIFICATION Spec
CONSTANTS
    Clients = {1, 2}
    Versions = {0, 1, 2}
    Ids = {1, 2, 3}
    Uses <- MCUses
INVARIANTS
    UnloadFindsModel
    KeepsItsWord
    DefaultIsRegistered
    NotReadyMeansLoading
    MirrorsRepository
CHECK_DEADLOCK FALSE
