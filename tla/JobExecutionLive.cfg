SPECIFICATION FairSpec
CONSTANTS
    Jobs = {j1}
    Sessions = {s1, s2}
    Nobody = Nobody
    MaxGeneration = 2
    MaxExecutions = 4
    MaxCancels = 1
    FalseSuspicion = FALSE
    NodeCalls = {}
PROPERTIES SessionEnds
CHECK_DEADLOCK FALSE
