SPECIFICATION FairSpec
CONSTANTS
    None = None
    Faults = {"list", "edit", "state", "create", "comment", "label", "unlabel", "crash"}
    People = {"close", "reopen"}
    MaxIssues = 2
    MaxReopen = 1
    MaxListed = 6
INVARIANTS
    NeverMalformed
    TrackedWhenClean
    ClosedAfterTwoBuilds
PROPERTIES
    FlakyTracked
    PassedSettles
CHECK_DEADLOCK FALSE
