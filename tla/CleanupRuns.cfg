CONSTANTS
    Stored <- MCStored
    Tagged <- MCTagged
    OptionSets <- MCOptionSets
    Forbidden <- MCForbidden
    ConcurrentOperations = 2
    Faults = {"new", "list", "delete", "operation", "crash"}
    Others = {"delete", "push"}
    None = None
SPECIFICATION FairSpec
INVARIANTS
    ErrorsBounded
    CleanIfNoErrors
    CountBounded
PROPERTIES
    RunsEnd
CHECK_DEADLOCK FALSE
