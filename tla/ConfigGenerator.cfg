CONSTANTS
    Configs <- MCConfigs
    Branches <- MCBranches
    majorMinor <- MCMajorMinor
    mainBranchRepos <- MCMain
    customJobnames <- MCCustomJobs
    jobNameFilter <- NoName
    timeoutOverride = 0
SPECIFICATION Spec
INVARIANTS JobsDistinct GroupsMatchJobs UpgradeKeepsNewest RunsApart OutputGrouped
CHECK_DEADLOCK FALSE
