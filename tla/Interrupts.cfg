SPECIFICATION FairSpec
CONSTANTS
    Comps <- MCComps
    Pred <- ChainPred
    Main = "main"
    Children = {"a", "b"}
    Scope <- ChainScope
    Target <- MCTarget
    Override = {"a", "b"}
    Jobs = {"p1", "t1", "t2", "u1"}
    Home <- MCHome
    Queued = {"p1", "t1", "u1"}
    Feeds <- MCFeeds
    Failing = {"u1"}
    Mortal = {"main"}
    MaxRestarts = 1
    None = None
INVARIANTS PausedStandStill ScopeAccounted
PROPERTIES FrozenInput AllGoesOn
CHECK_DEADLOCK FALSE
