SPECIFICATION FairSpec
CONSTANTS
    r1 = r1
    r2 = r2
    r3 = r3
    p1 = p1
    p2 = p2
    p3 = p3
    p4 = p4
    h1 = h1
    h2 = h2
    Tokens = {r1, r2}
    Projects = {p1}
    Handlers = {h1}
    Params <- OneConfig
    OverProvision = 1
    LockCapacity = 1
    MaxClock = 1
    Faults = {"kubetest2", "abandon"}
    None = None
CHECK_DEADLOCK FALSE
INVARIANTS NoProjectLeak GivenStaysTaken
PROPERTIES PoolChecked CreationResolved ReadyClusterServed
