SPECIFICATION Spec
CONSTANTS
    serving = serving
    eventing = eventing
    pull = pull
    TestA = TestA
    TestASub = TestASub
    TestB = TestB
    api = api
    net = net
    JobConfigs <- MCJobConfigs
    Pull = pull
    PullRepo = serving
    ParentOf <- MCParentOf
    AllTests <- MCTests
    Contents <- MCContents
    buildsCount = 2
    maxAge = 1
    ReadError = ReadError
    Faults = {}
    EarlyBuilds <- MCSubtests
    MaxBuilds <- MCNone
    MaxRuns = 1
    MaxDay = 0
INVARIANT FlakyIsRetried
CHECK_DEADLOCK FALSE
