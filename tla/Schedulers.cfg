SPECIFICATION FairSpec
CONSTANTS
    Nodes <- MCNodes
    Edges <- MCEdges
    AutoEdges <- MCAuto
    WaitFor <- MCWaitFor
    Resident = {"a", "b", "c", "d", "e"}
    Preclaiming = {"a", "b", "c"}
    Rank <- MCRank
    Limit <- MCLimit
    PumpSize = 1
    PumpCap = 2
    Budget = 3
    Jobs <- MCJobs
    Home <- MCHome
    Produces <- MCProduces
    Requests <- MCRequests
    Failing = {"a2", "c2", "d2"}
    Lost = {"c1"}
    Broken = {"c"}
    MaxPauses = 1
INVARIANTS NoFalseQuiescence NoFalseDeadlock UnitsAccounted
PROPERTIES DagEnds
CHECK_DEADLOCK FALSE
