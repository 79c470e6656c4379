SPECIFICATION FairSpec
CONSTANTS
    Jobs = {"a", "b", "c", "t"}
    Api = {"a", "b", "c"}
    Timed = {"c", "t"}
    Reporting = {"t"}
    Workloads = {{"a", "b"}, {"c"}, {"t"}}
    Lanes = {1, 2}
    NodeLimits = {1, 3}
    ApiLimits = {2, 3}
    Foreign = 1
    Attempts <- RetryTimed
    MaxRestarts = 1
    MaxCheckpoints = 2
    MaxFaults = 1
    MaxPauses = 1
    MaxChanges = 1
    MaxTrouble <- Mishaps
    None = None
INVARIANTS CapacityExact NoFalseTimeout
PROPERTIES ControllersReturn
CHECK_DEADLOCK FALSE
