---------------------------- MODULE E2eClusters ----------------------------
(***************************************************************************)
(* GKE clusters for end-to-end tests: kntest cluster gke create, get and    *)
(* delete, and kntest kubetest2 gke, run one after the other on a machine   *)
(* of a developer or in the pod of a Prow job.  The machines share GKE and  *)
(* the projects of Boskos; a machine keeps its kubeconfig, its gcloud       *)
(* configuration and metadata.json between commands.  An action is one call *)
(* to Boskos, to GKE, or of kubectl, gcloud or kubetest2.                   *)
(***************************************************************************)
EXTENDS Integers, Sequences, FiniteSets

CONSTANTS
    Machines,           \* the machines; each runs one command at a time
    JobName,            \* JOB_NAME of each machine: the owner in Boskos
    Commands,           \* the commands that are run on Prow, and elsewhere
    Pool,               \* the projects of Boskos
    Projects,           \* all projects
    Regions,            \* all regions
    Names,              \* all names of clusters
    ResourceName,       \* the name that getResourceName makes on each machine
    protectedProjects, protectedClusters,
    RegionEnv,          \* E2E_CLUSTER_REGION, or ""
    BackupRegionsEnv,   \* E2E_CLUSTER_BACKUP_REGIONS
    OthersClusters,     \* the clusters that others create and delete
    Faults,             \* what may go wrong, see Fails
    None

defaultGKERegion        == "us-central1"
defaultGKEBackupRegions == <<"us-west1", "us-east1">>
defaultGKEMinNodes      == 1
defaultGKEMaxNodes      == 3

\* GKERequest as the flags give it.  addons: whether all of them are known.
Requests == [project : Projects \cup {""}, name : Names \cup {""},
             region : Regions \cup {""}, backup : Seq(Regions), zone : {"", "a"},
             minNodes : Int, maxNodes : Int, version : {"", "latest", "1.20"},
             channel : {"", "rapid"}, addons : BOOLEAN, save : BOOLEAN]

ASSUME E2eAssumption ==
    /\ JobName \in [Machines -> STRING]
    /\ ResourceName \in [Machines -> Names]
    /\ Commands \in [BOOLEAN ->
                       SUBSET [cmd : {"create", "get", "delete", "kubetest2"}, req : Requests]]
    /\ \A c \in Commands[TRUE] \cup Commands[FALSE] : c.cmd = "kubetest2" => c.req.region # ""
    /\ OthersClusters \subseteq [project : Projects \ Pool, location : Seq(STRING), name : Names]
    /\ Pool \subseteq Projects /\ "" \notin Projects \cup Names \cup Regions
    /\ RegionEnv \in Regions \cup {""} /\ BackupRegionsEnv \in Seq(Regions)
    /\ defaultGKERegion \in Regions /\ defaultGKEBackupRegions \in Seq(Regions)

VARIABLES
    boskos,    \* the state of each project of the pool, and whose it is
    gke,       \* the status of each cluster there may be
    creator,   \* history: the machine that created it
    job,       \* the command that a machine runs, or the last one that it ran
    env        \* what stays on a machine: kubeconfig, gcloud and metadata.json

vars == <<boskos, gke, creator, job, env>>

-----------------------------------------------------------------------------
(* Types.                                                                  *)

\* "us-central1" or "us-central1-a".
GetClusterLocation(region, zone) == IF zone = "" THEN <<region>> ELSE <<region, zone>>
RegionZoneFromLoc(location) ==
    [region |-> location[1], zone |-> IF Len(location) > 1 THEN location[2] ELSE ""]

Locations == UNION {{GetClusterLocation(r, ""), GetClusterLocation(r, "a")} : r \in Regions}
Clusters  == [project : Projects, location : Locations, name : Names]
ASSUME NoneAssumption == None \notin Machines \cup Clusters

Statuses  == {"none", "PROVISIONING", "RUNNING", "ERROR", "STOPPING"}

\* The commands rest at "idle".  create: "boskos" to "wait" to "got", or "undo";
\* then "meta", "auth", "project".  get: "check", and the same end.  delete:
\* "check", "recheck", "delete", "waitDelete", "release", "unset".
Pcs == {"idle", "boskos", "prepare", "look", "create", "wait", "got", "undo",
        "check", "recheck", "delete", "waitDelete", "release", "unset",
        "meta", "auth", "project", "up", "save"}

\* r counts the attempts of one poll; made: history, what was created for this command;
\* undone: history, none of its deletions of half created clusters failed.
Job == [pc : Pcs, cmd : {"none", "create", "get", "delete", "kubetest2"}, req : Requests,
        isBoskos : BOOLEAN, Project : Projects \cup {""}, Cluster : Clusters \cup {None},
        regions : Seq(Regions), r : 0..2, ok : BOOLEAN,
        made : SUBSET Clusters, undone : BOOLEAN]

\* prow: PROW_JOB_ID is set.  context: None stands for every one that is not of GKE.
\* meta: the cluster that all keys of metadata.json tell of.  broken: it cannot be read,
\* after a crash in the middle of a write.
Env == [prow : BOOLEAN, context : Clusters \cup {None}, project : Projects \cup {""},
        meta : Clusters \cup {None}, broken : BOOLEAN]

\* JOB_NAME, or that of another job.
Owners == {JobName[m] : m \in Machines} \cup {"", "other"}

\* The type invariant.
TypeOK ==
    /\ boskos \in [Pool -> [state : {"free", "busy", "dirty"}, owner : Owners,
                            holder : Machines \cup {None}]]
    /\ gke \in [Clusters -> Statuses]
    /\ creator \in [Clusters -> Machines \cup {None}]
    /\ job \in [Machines -> Job]
    /\ env \in [Machines -> Env]

Rest == [pc |-> "idle", cmd |-> "none",
         req |-> [project |-> "", name |-> "", region |-> "", backup |-> <<>>, zone |-> "",
                  minNodes |-> 0, maxNodes |-> 0, version |-> "", channel |-> "",
                  addons |-> TRUE, save |-> FALSE],
         isBoskos |-> FALSE, Project |-> "", Cluster |-> None, regions |-> <<>>,
         r |-> 0, ok |-> FALSE, made |-> {}, undone |-> TRUE]

Fresh(prow) == [prow |-> prow, context |-> None, project |-> "", meta |-> None,
                broken |-> FALSE]
Free   == [state |-> "free", owner |-> "", holder |-> None]

Init ==
    /\ boskos = [p \in Pool |-> Free]
    /\ gke = [c \in Clusters |-> "none"]
    /\ creator = [c \in Clusters |-> None]
    /\ job = [m \in Machines |-> Rest]
    /\ \E prow \in SUBSET Machines : env = [m \in Machines |-> Fresh(m \in prow)]

IsProw(m) == env[m].prow

-----------------------------------------------------------------------------
(* Steps of a command.                                                     *)

Fails(what) == what \in Faults

Goto(m, pc)  == job' = [job EXCEPT ![m].pc = pc]
\* An error is returned up to log.Fatal.
End(j, ok)   == [j EXCEPT !.pc = "idle", !.ok = ok, !.regions = <<>>, !.r = 0]
Exit(m)      == job' = [job EXCEPT ![m] = End(job[m], FALSE)]
Succeed(m)   == job' = [job EXCEPT ![m] = End(job[m], TRUE)]

cloud == <<boskos, gke, creator>>

-----------------------------------------------------------------------------
(* Setup.                                                                  *)

\* A version that is looked up with gcloud is empty if gcloud fails silently.
resolveGKEVersion(version) ==
    IF version = "latest" THEN {"1.20"} \cup (IF Fails("gcloud") THEN {""} ELSE {})
    ELSE {version}

\* What Setup makes of a request: the defaults.  Default backup regions are for those
\* who did not choose a region, and a zone has none.
Setup(r) ==
    LET min == IF r.minNodes = 0 THEN defaultGKEMinNodes ELSE r.minNodes
        max == IF r.maxNodes # 0 THEN r.maxNodes
               ELSE IF min > defaultGKEMaxNodes THEN min ELSE defaultGKEMaxNodes
        env0 == IF BackupRegionsEnv # <<>> THEN BackupRegionsEnv ELSE defaultGKEBackupRegions
    IN {[r EXCEPT !.minNodes = min, !.maxNodes = max, !.version = v,
           !.region = IF @ # "" THEN @ ELSE IF RegionEnv # "" THEN RegionEnv
                      ELSE defaultGKERegion,
           !.backup = IF r.zone # "" THEN <<>>
                      ELSE IF @ = <<>> /\ r.region = "" THEN env0 ELSE @] :
          v \in resolveGKEVersion(r.version)}

\* Acquire's list of regions: the region is not among the backup regions again.
RegionsOf(r) ==
    LET others[n \in 0..Len(r.backup)] ==
            IF n = 0 THEN <<>>
            ELSE IF r.backup[n] = r.region THEN others[n - 1]
            ELSE Append(others[n - 1], r.backup[n])
    IN <<r.region>> \o others[Len(r.backup)]

\* NewCreateClusterRequest returns an error, or GetAddonsConfig panics.
BadRequest(r) ==
    \/ r.minNodes <= 0
    \/ r.minNodes > r.maxNodes
    \/ r.version # "" /\ r.channel # ""
    \/ ~r.addons

\* A command starts.  get and delete set SkipCreation.
Start(m) ==
    /\ job[m].pc = "idle"
    /\ \E c \in Commands[IsProw(m)] : \E r \in Setup(c.req) :
          /\ c.cmd # "kubetest2"
          /\ job' = [job EXCEPT ![m] =
                [Rest EXCEPT !.cmd = c.cmd, !.req = r, !.Project = r.project,
                             !.isBoskos = r.project = "" /\ IsProw(m),
                             !.pc = IF c.cmd # "create" THEN "check"
                                    ELSE IF r.project = "" /\ IsProw(m) THEN "boskos"
                                    ELSE "prepare"]]
    /\ UNCHANGED <<cloud, env>>

-----------------------------------------------------------------------------
(* Acquire, if a cluster is to be created.                                 *)

\* AcquireGKEProject waits for a project to be free.
AcquireProject(m) ==
    /\ job[m].pc = "boskos"
    /\ \E p \in Pool :
          /\ boskos[p].state = "free"
          /\ boskos' = [boskos EXCEPT ![p] =
                          [state |-> "busy", owner |-> JobName[m], holder |-> m]]
          /\ job' = [job EXCEPT ![m].pc = "prepare", ![m].Project = p]
    /\ UNCHANGED <<gke, creator, env>>

\* It has waited for two hours, or its request fails.
AcquireProjectFails(m) ==
    /\ job[m].pc = "boskos"
    /\ Exit(m)
    /\ UNCHANGED <<cloud, env>>

\* A cluster without a name gets that of the machine.
Named(m, r) == IF r.name # "" THEN r ELSE [r EXCEPT !.name = ResourceName[m]]

Protected(project, cluster) ==
    \/ project \in protectedProjects
    \/ cluster # None /\ cluster.name \in protectedClusters

\* Everything up to the loop over the regions.
Prepare(m) ==
    /\ job[m].pc = "prepare"
    /\ LET j == job[m]
           r == Named(m, j.req)
       IN IF j.Project = "" \/ Protected(j.Project, None) \/ BadRequest(r)
          THEN Exit(m)
          ELSE job' = [job EXCEPT ![m] = [j EXCEPT !.pc = "look", !.regions = RegionsOf(r),
                                          !.req = [r EXCEPT !.project = j.Project]]]
    /\ UNCHANGED <<cloud, env>>

\* No client for GKE, or no name of the repository.
PrepareFails(m) ==
    /\ job[m].pc = "prepare" /\ Fails("client")
    /\ Exit(m)
    /\ UNCHANGED <<cloud, env>>

\* The cluster in the region of this round.
Target(m) ==
    [project |-> job[m].Project, name |-> job[m].req.name,
     location |-> GetClusterLocation(Head(job[m].regions), job[m].req.zone)]

\* acquire has a cluster; Create goes on.
Acquired(m, c) ==
    job' = [job EXCEPT ![m] = [job[m] EXCEPT !.Project = c.project, !.Cluster = c, !.r = 0,
                               !.pc = IF job[m].pc = "recheck" THEN "delete"
                                      ELSE IF job[m].cmd = "delete" THEN "recheck"
                                      ELSE IF job[m].req.save THEN "meta" ELSE "auth"]]

\* GetCluster, whose error counts as no cluster: a running one is used.
Look(m) ==
    /\ job[m].pc = "look"
    /\ \/ gke[Target(m)] = "RUNNING" /\ Acquired(m, Target(m))
       \/ (gke[Target(m)] # "RUNNING" \/ Fails("get")) /\ Goto(m, "create")
    /\ UNCHANGED <<cloud, env>>

\* The next region, or the last error is returned.
NextRegion(m) ==
    IF Len(job[m].regions) = 1 THEN Exit(m)
    ELSE job' = [job EXCEPT ![m] = [job[m] EXCEPT !.pc = "look", !.r = 0,
                                                  !.regions = Tail(job[m].regions)]]

\* Mutant: the half created cluster of the last region is forgotten.
CreationErrorLast(m) ==
    IF IsProw(m) \/ Len(job[m].regions) = 1 THEN NextRegion(m)
    ELSE job' = [job EXCEPT ![m] = [job[m] EXCEPT !.pc = "undo", !.r = 0]]

\* An error during cluster creation: any error tries the next region, which
\* needsRetryCreation only changes the message for.
CreationError(m) ==
    IF IsProw(m) THEN NextRegion(m)
    ELSE job' = [job EXCEPT ![m] = [job[m] EXCEPT !.pc = "undo", !.r = 0]]

\* CreateClusterAsync.
CreateCluster(m) ==
    /\ job[m].pc = "create"
    /\ gke[Target(m)] = "none"
    /\ gke' = [gke EXCEPT ![Target(m)] = "PROVISIONING"]
    /\ creator' = [creator EXCEPT ![Target(m)] = m]
    /\ job' = [job EXCEPT ![m] = [job[m] EXCEPT !.pc = "wait",
                                                  !.made = job[m].made \cup {Target(m)}]]
    /\ UNCHANGED <<boskos, env>>

\* The cluster exists, or GKE refuses to create it.
CreateClusterFails(m) ==
    /\ job[m].pc = "create"
    /\ gke[Target(m)] # "none" \/ Fails("create")
    /\ CreationError(m)
    /\ UNCHANGED <<cloud, env>>

-----------------------------------------------------------------------------
(* Wait, for the creation of Target or the deletion of Cluster.            *)

OperationDone(m) ==
    IF job[m].pc = "wait" THEN gke[Target(m)] # "PROVISIONING"
    ELSE gke[job[m].Cluster] # "STOPPING"

\* Wait returns: an operation that is done counts as good, whatever its error.
WaitReturns(m, error) ==
    IF job[m].pc = "wait"
    THEN IF error THEN CreationError(m)
         ELSE job' = [job EXCEPT ![m] = [job[m] EXCEPT !.pc = "got", !.r = 0]]
    ELSE IF error THEN Exit(m)
         ELSE job' = [job EXCEPT ![m] = [job[m] EXCEPT !.pc = "unset", !.r = 0]]

Waiting(m) == job[m].pc \in {"wait", "waitDelete"}

Poll(m) ==
    /\ Waiting(m)
    /\ IF OperationDone(m) THEN WaitReturns(m, FALSE)
       ELSE job' = [job EXCEPT ![m].r = 0]
    /\ UNCHANGED <<cloud, env>>

\* GetOperation fails or has an unexpected status: three attempts.
PollFails(m) ==
    /\ Waiting(m) /\ Fails("poll")
    /\ IF job[m].r < 2 THEN job' = [job EXCEPT ![m].r = job[m].r + 1] ELSE WaitReturns(m, TRUE)
    /\ UNCHANGED <<cloud, env>>

\* Mutant: the timer starts again with every tick.
TimeoutNever(m) == FALSE /\ job[m].r = 0 /\ UNCHANGED vars

\* The timer is ready, and maybe the ticker, too.
Timeout(m) ==
    /\ Waiting(m) /\ job[m].r = 0
    /\ WaitReturns(m, TRUE)
    /\ UNCHANGED <<cloud, env>>

\* The cluster that was created, in whatever status.
GetCreated(m) ==
    /\ job[m].pc = "got"
    /\ \/ gke[Target(m)] # "none" /\ Acquired(m, Target(m))
       \/ (gke[Target(m)] = "none" \/ Fails("get")) /\ CreationError(m)
    /\ UNCHANGED <<cloud, env>>

\* GKE takes a request to delete c.
Delete(c) == gke' = [gke EXCEPT ![c] = "STOPPING"]
Deletable(c) == gke[c] \in {"PROVISIONING", "RUNNING", "ERROR"}

\* DeleteClusterAsync of what was half created; nobody looks at the result.
Undo(m) ==
    /\ job[m].pc = "undo"
    /\ Deletable(Target(m))
    /\ Delete(Target(m))
    /\ NextRegion(m)
    /\ UNCHANGED <<boskos, creator, env>>

UndoFails(m) ==
    /\ job[m].pc = "undo"
    /\ ~Deletable(Target(m)) \/ Fails("delete")
    /\ LET j == [job[m] EXCEPT !.undone = job[m].undone /\ ~Deletable(Target(m))] IN
       job' = [job EXCEPT ![m] =
                 IF Len(j.regions) = 1 THEN End(j, FALSE)
                 ELSE [j EXCEPT !.pc = "look", !.regions = Tail(j.regions)]]
    /\ UNCHANGED <<cloud, env>>

-----------------------------------------------------------------------------
(* Create, after acquire.                                                  *)

\* Mutant: it stops after the keys that fail.
SetMetaSome(m) ==
    /\ job[m].pc = "meta" /\ ~env[m].broken
    /\ LET c == job[m].Cluster IN
       \/ env[m].meta # c /\ env' = [env EXCEPT ![m].meta = None] /\ Goto(m, "auth")
       \/ env' = [env EXCEPT ![m].meta = c] /\ Goto(m, "auth")
    /\ UNCHANGED cloud

\* metautil.Set for some of the keys, or for the last of them: the file is read, and
\* written.
SetMeta(m) ==
    /\ job[m].pc = "meta" /\ ~env[m].broken
    /\ LET c == job[m].Cluster IN
       \/ env[m].meta # c /\ env' = [env EXCEPT ![m].meta = None] /\ UNCHANGED job
       \/ env' = [env EXCEPT ![m].meta = c] /\ Goto(m, "auth")
    /\ UNCHANGED cloud

SetMetaFails(m) ==
    /\ job[m].pc = "meta"
    /\ env[m].broken \/ Fails("meta")
    /\ Exit(m)
    /\ UNCHANGED <<cloud, env>>

\* gcloud container clusters get-credentials.
GetCredentials(m) ==
    /\ job[m].pc = "auth" /\ gke[job[m].Cluster] # "none"
    /\ env' = [env EXCEPT ![m].context = job[m].Cluster]
    /\ Goto(m, "project")
    /\ UNCHANGED cloud

\* gcloud config set project.
SetProject(m) ==
    /\ job[m].pc = "project"
    /\ env' = [env EXCEPT ![m].project = job[m].Project]
    /\ Succeed(m)
    /\ UNCHANGED cloud

GcloudFails(m) ==
    /\ \/ job[m].pc \in {"auth", "project"} /\ Fails("gcloud")
       \/ job[m].pc = "auth" /\ gke[job[m].Cluster] = "none"
    /\ Exit(m)
    /\ UNCHANGED <<cloud, env>>

-----------------------------------------------------------------------------
(* Acquire of an existing cluster, and Delete.                             *)

\* The context is a cluster of GKE, the request names no other project and no other
\* cluster, and nothing is protected.
Usable(m) ==
    LET c == env[m].context
        r == job[m].req
    IN /\ c \in Clusters
       /\ r.project \in {"", c.project} /\ r.name \in {"", c.name}
       /\ gke[c] # "none"
       /\ ~Protected(c.project, c)

\* checkEnvironment finds the cluster of the current context.  The location is split
\* and put together again.
CheckEnvironment(m) ==
    /\ job[m].pc \in {"check", "recheck"}
    /\ Usable(m)
    /\ LET c == env[m].context
           l == RegionZoneFromLoc(c.location)
       IN Acquired(m, [c EXCEPT !.location = GetClusterLocation(l.region, l.zone)])
    /\ UNCHANGED <<cloud, env>>

\* It does not.  Whether the project of gcloud is found then makes no difference.
CheckEnvironmentFails(m) ==
    /\ job[m].pc \in {"check", "recheck"}
    /\ ~Usable(m) \/ Fails("get")
    /\ Exit(m)
    /\ UNCHANGED <<cloud, env>>

\* Mutant: the project is released although the cluster could not be deleted.
DeleteClusterIgnoringErrors(m) ==
    /\ job[m].pc = "delete"
    /\ IF Deletable(job[m].Cluster) /\ ~Fails("delete")
       THEN Delete(job[m].Cluster) ELSE UNCHANGED gke
    /\ Goto(m, IF job[m].isBoskos THEN "release" ELSE "waitDelete")
    /\ UNCHANGED <<boskos, creator, env>>

\* DeleteClusterAsync.  Only with Boskos nobody waits for it.
DeleteCluster(m) ==
    /\ job[m].pc = "delete"
    /\ Deletable(job[m].Cluster)
    /\ Delete(job[m].Cluster)
    /\ Goto(m, IF job[m].isBoskos THEN "release" ELSE "waitDelete")
    /\ UNCHANGED <<boskos, creator, env>>

DeleteClusterFails(m) ==
    /\ job[m].pc = "delete"
    /\ ~Deletable(job[m].Cluster) \/ Fails("delete")
    /\ Exit(m)
    /\ UNCHANGED <<cloud, env>>

\* Boskos lets only the owner release a project.
Owned(m, p) == p \in Pool /\ boskos[p].state = "busy" /\ boskos[p].owner = JobName[m]

ReleaseProject(m) ==
    /\ job[m].pc = "release"
    /\ Owned(m, job[m].Project)
    /\ boskos' = [boskos EXCEPT ![job[m].Project] = [Free EXCEPT !.state = "dirty"]]
    /\ Goto(m, "unset")
    /\ UNCHANGED <<gke, creator, env>>

ReleaseProjectFails(m) ==
    /\ job[m].pc = "release"
    /\ ~Owned(m, job[m].Project) \/ Fails("release")
    /\ Exit(m)
    /\ UNCHANGED <<cloud, env>>

\* kubectl config unset, with best effort.
UnsetContext(m) ==
    /\ job[m].pc = "unset"
    /\ \/ env' = [env EXCEPT ![m].context = None]
       \/ Fails("kubectl") /\ UNCHANGED env
    /\ Succeed(m)
    /\ UNCHANGED cloud

-----------------------------------------------------------------------------
(* kubetest2.                                                              *)

\* Run, up to the loop over the regions, where the first may be among the others.
StartKubetest2(m) ==
    /\ job[m].pc = "idle"
    /\ \E c \in Commands[IsProw(m)] :
          /\ c.cmd = "kubetest2"
          /\ IsProw(m) \/ c.req.project # ""
          /\ job' = [job EXCEPT ![m] =
                [Rest EXCEPT !.cmd = c.cmd, !.req = Named(m, c.req), !.Project = c.req.project,
                             !.pc = "up", !.regions = <<c.req.region>> \o c.req.backup]]
    /\ UNCHANGED <<cloud, env>>

\* Where kubetest2 works: it gets a project from Boskos for each run.
UpProjects(m) ==
    IF job[m].req.project # "" THEN {job[m].req.project}
    ELSE {p \in Pool : boskos[p].state = "free"}

\* With --project it does not ask Boskos.
InUse(p, m) ==
    boskos' = IF job[m].req.project # "" THEN boskos
              ELSE [boskos EXCEPT ![p] = [state |-> "busy", owner |-> JobName[m], holder |-> m]]

\* kubetest2 creates the cluster, and the tests pass.
Up(m) ==
    /\ job[m].pc = "up"
    /\ \E p \in UpProjects(m) :
       LET c == [Target(m) EXCEPT !.project = p]
           j == [job[m] EXCEPT !.Project = p, !.Cluster = c, !.made = job[m].made \cup {c}]
       IN /\ gke[c] = "none"
          /\ gke' = [gke EXCEPT ![c] = "RUNNING"]
          /\ creator' = [creator EXCEPT ![c] = m]
          /\ InUse(p, m)
          /\ env' = [env EXCEPT ![m].context = c, ![m].project = p]
          /\ job' = [job EXCEPT ![m] =
                       IF IsProw(m) /\ j.req.save THEN [j EXCEPT !.pc = "save"]
                       ELSE End(j, TRUE)]

\* kubetest2 fails before, while or after it creates the cluster; the tests may have
\* failed, too.  Only what it has printed decides whether the next region is tried.
UpFails(m) ==
    /\ job[m].pc = "up" /\ Fails("up")
    /\ \/ UNCHANGED cloud
       \/ \E p \in UpProjects(m), s \in {"none", "RUNNING", "ERROR"} :
          LET c == [Target(m) EXCEPT !.project = p] IN
             /\ gke[c] = "none"
             /\ gke' = [gke EXCEPT ![c] = s]
             /\ creator' = [creator EXCEPT ![c] = m]
             /\ InUse(p, m)
    /\ \/ Len(job[m].regions) > 1 /\ job' = [job EXCEPT ![m].regions = Tail(job[m].regions)]
       \/ Exit(m)
    /\ UNCHANGED env

\* saveMetaData, with best effort.
SaveMeta(m) ==
    /\ job[m].pc = "save"
    /\ \/ /\ ~env[m].broken
          /\ env' = [env EXCEPT ![m].meta = job[m].Cluster]
       \/ (env[m].broken \/ Fails("meta")) /\ UNCHANGED env
    /\ Succeed(m)
    /\ UNCHANGED cloud

-----------------------------------------------------------------------------
(* GKE, Boskos and the machines.                                           *)

Provisioned(c) ==
    /\ gke[c] = "PROVISIONING"
    /\ \E s \in {"RUNNING"} \cup (IF Fails("operation") THEN {"ERROR"} ELSE {}) :
          gke' = [gke EXCEPT ![c] = s]
    /\ UNCHANGED <<boskos, creator, job, env>>

Deleted(c) ==
    /\ gke[c] = "STOPPING"
    /\ \/ gke' = [gke EXCEPT ![c] = "none"] /\ creator' = [creator EXCEPT ![c] = None]
       \/ Fails("operation") /\ gke' = [gke EXCEPT ![c] = "ERROR"] /\ UNCHANGED creator
    /\ UNCHANGED <<boskos, job, env>>

\* The reaper takes the projects of pods that are gone.
Reap(p) ==
    /\ boskos[p].state = "busy" /\ boskos[p].holder = None
    /\ boskos' = [boskos EXCEPT ![p] = [Free EXCEPT !.state = "dirty"]]
    /\ UNCHANGED <<gke, creator, job, env>>

\* The janitor empties a project.
Clean(p) ==
    /\ boskos[p].state = "dirty"
    /\ boskos' = [boskos EXCEPT ![p] = Free]
    /\ gke' = [c \in Clusters |-> IF c.project = p THEN "none" ELSE gke[c]]
    /\ creator' = [c \in Clusters |-> IF c.project = p THEN None ELSE creator[c]]
    /\ UNCHANGED <<job, env>>

\* A pod ends, in the middle of a command or not, and the next one starts.
PodEnds(m) ==
    /\ IsProw(m)
    /\ job' = [job EXCEPT ![m] = Rest]
    /\ env' = [env EXCEPT ![m] = Fresh(TRUE)]
    /\ boskos' = [p \in Pool |->
                    IF boskos[p].holder = m THEN [boskos[p] EXCEPT !.holder = None]
                    ELSE boskos[p]]
    /\ UNCHANGED <<gke, creator>>

\* A command is interrupted.
Interrupt(m) ==
    /\ ~IsProw(m) /\ Fails("interrupt")
    /\ job[m].pc # "idle"
    /\ job' = [job EXCEPT ![m] = Rest]
    /\ env' = IF job[m].pc = "meta" THEN [env EXCEPT ![m].broken = TRUE] ELSE env
    /\ UNCHANGED cloud

\* Other developers and other jobs: they take a project, or create or delete a cluster
\* of the same name.
Others(c) ==
    /\ Fails("others")
    /\ \/ gke[c] = "none" /\ gke' = [gke EXCEPT ![c] = "PROVISIONING"]
       \/ Deletable(c) /\ Delete(c)
    /\ UNCHANGED <<boskos, creator, job, env>>

OthersAcquire(p) ==
    /\ Fails("others")
    /\ boskos[p].state = "free"
    /\ boskos' = [boskos EXCEPT ![p] = [state |-> "busy", owner |-> "other", holder |-> None]]
    /\ UNCHANGED <<gke, creator, job, env>>

-----------------------------------------------------------------------------

Command(m) ==
    \/ AcquireProject(m) \/ AcquireProjectFails(m) \/ Prepare(m) \/ PrepareFails(m)
    \/ Look(m) \/ CreateCluster(m) \/ CreateClusterFails(m)
    \/ Poll(m) \/ PollFails(m) \/ Timeout(m) \/ GetCreated(m) \/ Undo(m) \/ UndoFails(m)
    \/ SetMeta(m) \/ SetMetaFails(m) \/ GetCredentials(m) \/ SetProject(m) \/ GcloudFails(m)
    \/ CheckEnvironment(m) \/ CheckEnvironmentFails(m)
    \/ DeleteCluster(m) \/ DeleteClusterFails(m)
    \/ ReleaseProject(m) \/ ReleaseProjectFails(m) \/ UnsetContext(m)
    \/ Up(m) \/ UpFails(m) \/ SaveMeta(m)

Next ==
    \/ \E m \in Machines : \/ Start(m) \/ StartKubetest2(m) \/ Command(m)
                           \/ PodEnds(m) \/ Interrupt(m)
    \/ \E c \in Clusters : Provisioned(c) \/ Deleted(c)
    \/ \E c \in OthersClusters : Others(c)
    \/ \E p \in Pool : Reap(p) \/ Clean(p) \/ OthersAcquire(p)

Spec == Init /\ [][Next]_vars

\* A command goes on, and a timer that is ready is not passed over for ever.  GKE may
\* take as long as it likes.
FairSpec == /\ Spec
            /\ \A m \in Machines : WF_vars(Command(m)) /\ SF_vars(Timeout(m))

-----------------------------------------------------------------------------
(* Properties.                                                             *)

\* A pod whose kubeconfig points to a cluster that it has created in a project of
\* Boskos, and that runs, still has the project: a deletion that fails must not give
\* it to somebody else, nor may a restart.
LeaseCoversUse ==
    \A m \in Machines : LET c == env[m].context IN
        /\ IsProw(m) /\ c \in Clusters
        /\ c.project \in Pool /\ creator[c] = m /\ gke[c] = "RUNNING"
        => boskos[c.project].state = "busy" /\ boskos[c.project].holder = m

\* When a developer's create has returned, whether with a cluster or with an error, it
\* has not left another one that it has created in one of the regions, if the requests
\* to delete what was half created were taken.
OneCluster ==
    \A m \in Machines :
        /\ ~IsProw(m) /\ job[m].pc = "idle" /\ job[m].undone
        /\ job[m].cmd = "create"
        => \A c \in job[m].made \ {job[m].Cluster} :
              creator[c] = m => gke[c] \notin {"PROVISIONING", "RUNNING"}

\* After create or get has succeeded, kubeconfig, gcloud and metadata.json tell of the
\* same cluster, whatever failed or was interrupted before.
EnvironmentAgrees ==
    \A m \in Machines :
        /\ job[m].pc = "idle" /\ job[m].ok
        /\ job[m].cmd \in {"create", "get"}
        => LET c == job[m].Cluster IN
           /\ env[m].context = c
           /\ env[m].project = c.project
           /\ job[m].req.save => env[m].meta = c

\* Every command ends, whatever GKE and Boskos do.
CommandsEnd == \A m \in Machines : job[m].pc # "idle" ~> job[m].pc = "idle"

=============================================================================
