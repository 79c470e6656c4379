SPECIFICATION Spec
CONSTANTS
    Jobs = {j1, j2}
    Sessions = {s1, s2}
    Nobody = Nobody
    MaxGeneration = 2
    MaxExecutions = 4
    MaxCancels = 1
    FalseSuspicion = TRUE
    NodeCalls = {s2}
INVARIANTS LeaseOwnership FenceProtectsGeneration OutputMatchesRow ReservationLifecycle
PROPERTIES RowsMoveForward ExitServedRestarts
CHECK_DEADLOCK FALSE
SYMMETRY JobSymmetry
CONSTRAINT Explored
