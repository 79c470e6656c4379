SPECIFICATION FairSpec
CONSTANTS
    o1 = o1
    o2 = o2
    r1 = r1
    Ops = {o1, o2}
    Recoverers = {r1, r2}
    Nobody = Nobody
    Scenarios <- MCScenarios
    MaxTroubles = 2
INVARIANTS FilesMatchRows Undoable OthersUndisturbed
PROPERTIES RecoverySettles
CHECK_DEADLOCK FALSE
