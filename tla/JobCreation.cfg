SPECIFICATION FairSpec
CONSTANTS
    c1 = c1
    c2 = c2
    c3 = c3
    k1 = k1
    k2 = k2
    Creators = {c1, c2, c3}
    Keys = {k1, k2}
    NoKey = NoKey
    Nobody = Nobody
    Scenarios <- MCScenarios
    MaxId = 5
    MaxTroubles = 2
INVARIANTS DirectoriesMatchRows OneJobPerKey
PROPERTIES CreatorsEnd
CHECK_DEADLOCK FALSE
