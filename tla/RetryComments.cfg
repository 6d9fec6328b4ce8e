SPECIFICATION Spec
CONSTANTS
    j1 = j1
    j2 = j2
    h1 = h1
    h2 = h2
    None = None
    Jobs = {j1, j2}
    Handlers = {h1, h2}
    MaxRetries = 2
    Faults = {"delete", "create", "restart"}
    MaxCommit = 2
    MaxComments = 3
INVARIANTS
    RetryTriggeredOnce
    RecordTruthful
    UndisturbedBounded
PROPERTIES
    BlockedForGood
SYMMETRY Symmetry
CHECK_DEADLOCK FALSE
