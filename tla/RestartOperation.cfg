SPECIFICATION FairSpec
CONSTANTS
    o1 = o1
    o2 = o2
    r1 = r1
    r2 = r2
    Jobs = {1, 2}
    Ops = {o1, o2}
    Recoverers = {r1, r2}
    Nobody = Nobody
    Worker = Worker
    MaxGeneration = 1
    Scenarios <- MCScenarios
INVARIANTS OutputIntact NoMutualWait
PROPERTIES ImplementsAtomic Settled
CHECK_DEADLOCK FALSE
