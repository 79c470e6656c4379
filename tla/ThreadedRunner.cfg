SPECIFICATION FairSpec
CONSTANTS
    a = a
    b = b
    Jobs <- TwoJobs
    Threads = {t1, t2, t3}
    Limits = {1, 2, 3}
    MaxChanges = 1
    PullSize = 2
    Burst = 2
    Kinds = {"snapshot", "live"}
    Failing = {b}
    LoadFails = TRUE
    LimitFails = TRUE
INVARIANTS Delivers
PROPERTIES ThreadsEnd
CHECK_DEADLOCK FALSE
