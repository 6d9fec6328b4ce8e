CONSTANTS
    Machines = {m1}
    JobName <- MCJobName
    ResourceName <- MCResourceName
    Commands <- MCCommands
    Pool = {"boskos"}
    Projects = {"boskos", "mine"}
    Regions <- MCRegions
    Names = {"kinfra-e2e-cls"}
    protectedProjects = {"knative-tests"}
    protectedClusters = {"knative-prow"}
    RegionEnv = ""
    BackupRegionsEnv <- MCBackup
    OthersClusters <- MCOthers
    Faults = {"others", "client", "create", "get", "poll", "delete", "meta", "gcloud", "release", "kubectl", "up", "operation", "interrupt"}
    None = None
SPECIFICATION FairSpec
INVARIANTS
    LeaseCoversUse
    OneCluster
    EnvironmentAgrees
PROPERTIES
    CommandsEnd
CHECK_DEADLOCK FALSE
