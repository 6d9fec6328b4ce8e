SPECIFICATION Spec
CONSTANTS
    serving = serving
    eventing = eventing
    pull = pull
    TestA = TestA
    TestASub = TestASub
    TestB = TestB
    api = api
    net = net
    JobConfigs <- MCJobConfigs
    Pull = pull
    PullRepo = serving
    ParentOf <- MCParentOf
    AllTests <- MCTests
    Contents <- MCContents
    buildsCount = 2
    maxAge = 1
    ReadError = ReadError
    Faults = {"list", "read", "write", "post", "github", "kill"}
    EarlyBuilds <- MCEarly
    MaxBuilds <- MCMax
    MaxRuns = 1
    MaxDay = 1
INVARIANTS RetryJustified SuccessIsComplete OldBuildsForgotten ReporterGoesOn
CHECK_DEADLOCK FALSE
