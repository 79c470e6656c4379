SPECIFICATION FairSpec
CONSTANTS
    first = first
    second = second
    plain = plain
    group = group
    Requests = {first, second, plain}
    Priority <- MixedPriority
    Weight <- UnitWeight
    Group <- OneGroup
    NoGroup = NoGroup
    Droppable = {plain}
    Callers = {close}
    Closers = {close}
    Writers = {w1, w2}
    Nobody = Nobody
    MaxBatch = 3
    SliceRows = 2
    ClaimRows = 3
    HeapMargin = 0
INVARIANTS LaneSafe SubmissionOrder
PROPERTIES ImplementsService RequestsEnd
CHECK_DEADLOCK FALSE
