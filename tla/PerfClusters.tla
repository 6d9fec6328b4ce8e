---------------------------- MODULE PerfClusters ----------------------------
(***************************************************************************)
(* The clusters of performance tests: pkg/clustermanager/perf-tests.  Prow  *)
(* jobs recreate, reconcile or delete the clusters of a repository's        *)
(* benchmarks: a job lists the clusters, reads the benchmarks, and runs one *)
(* goroutine for each cluster and each benchmark without one.  Jobs may     *)
(* overlap, fail and be killed; the benchmarks may change meanwhile.        *)
(***************************************************************************)
EXTENDS Integers, Sequences, FiniteSets

CONSTANTS
    Jobs,          \* Prow jobs for repo, each run again and again
    Flags,         \* the sets of --recreate, --reconcile, --delete they are run with
    Environments,  \* the values of --gke-environment they are run with
    repo,          \* the repository
    Names,         \* all names of clusters, <<repository, benchmark>>
    Files,         \* what cluster.yaml may say: functions from some fields to values
    Others,        \* clusters of other repositories, by name and location
    ChangesDuringJobs,  \* whether the benchmarks may change while a job runs
    Killed,        \* whether jobs may be killed
    Quota,         \* how many clusters GKE lets there be in the project
    Absent

\* "us-central1" or "us-central1-a", as for clusters of end-to-end tests.
IsRegional(location) == Len(location) = 1

defaultConfig == [location |-> <<"us-central1">>, nodes |-> 1, type |-> "e2-standard-4"]

ASSUME PerfAssumption ==
    /\ IsFiniteSet(Names) /\ IsFiniteSet(Files)
    /\ Flags \subseteq SUBSET {"recreate", "reconcile", "delete"}
    /\ Names \subseteq STRING \X STRING
    /\ \A f \in Files : DOMAIN f \subseteq DOMAIN defaultConfig
    /\ \A f \in Files : "nodes" \in DOMAIN f => f["nodes"] \in Int

VARIABLES
    gke,         \* the clusters of the project, by name and location
    benchmarks,  \* the benchmarks in the repository and their cluster.yaml
    job,         \* the jobs
    epoch        \* history, see Epoch

vars == <<gke, benchmarks, job, epoch>>

retryTimes == 3

-----------------------------------------------------------------------------
(* Benchmarks and their configurations.                                    *)

\* A missing or malformed file is the empty function: the defaults stay.
clusterConfigForBenchmark(file) ==
    [x \in DOMAIN defaultConfig |-> IF x \in DOMAIN file THEN file[x] ELSE defaultConfig[x]]

\* Mutant: the clusters of every repository belong to it.
BelongsToAll(name) == TRUE

clusterBelongsToRepo(name) == name[1] = repo

clusterNameForBenchmark(b) == <<repo, b>>

benchmarkClusters(bs) ==
    [n \in {clusterNameForBenchmark(b) : b \in DOMAIN bs} |-> clusterConfigForBenchmark(bs[n[2]])]

BenchmarkNames == {n[2] : n \in {m \in Names : clusterBelongsToRepo(m)}}

Configs == {clusterConfigForBenchmark(f) : f \in Files \cup {<<>>}}

Locations == {c.location : c \in Configs}

Keys == Names \X Locations

ASSUME OthersAssumption == \A k \in Others : k \in Keys /\ k[1][1] # repo

\* What GKE tells of a cluster.  CurrentNodeCount counts the nodes of all zones.
ClusterOf(c, status) ==
    [status |-> status, type |-> c.type,
     CurrentNodeCount |-> IF IsRegional(c.location) THEN 3 * c.nodes ELSE c.nodes]

\* NewCreateClusterRequest refuses the configuration.
BadRequest(c) == c.nodes <= 0 \/ c.type = ""

\* An environment is one of four names or a https URL.
ServiceEndpoint(environment) ==
    IF environment \in {"test", "staging", "staging2", "prod", "https://host/"}
    THEN environment ELSE Absent

-----------------------------------------------------------------------------
(* Types.                                                                  *)

Busy == {"PROVISIONING", "STOPPING"}

Statuses == Busy \cup {"RUNNING", "ERROR"}

ASSUME AbsentAssumption ==
    Absent \notin Configs \cup UNION {{ClusterOf(c, s) : c \in Configs} : s \in Statuses}

\* A goroutine.  "cleanup": it deletes what a failed creation may have left.
\* tries, dtries: the failed calls of the creation, of the deletion.
Task == [pc : {"delete", "waitDelete", "create", "waitCreate", "get", "cleanup",
               "waitCleanup", "end"},
         at : Keys, config : Configs \cup {Absent}, tries : 0..retryTimes,
         dtries : 0..retryTimes, err : BOOLEAN]

Job == [pc : {"idle", "list", "read", "work"}, op : {"recreate", "reconcile", "delete"},
        clusters : Seq(Keys), seen : [Keys -> {Absent} \cup UNION {
                   {ClusterOf(c, s) : c \in Configs} : s \in Statuses}],
        tasks : Seq(Task)]

\* The jobs since all were idle.  clean: no job has failed or was killed, the benchmarks
\* are the same and every job is to bring about the same; matched: the clusters were as
\* configured from the beginning; failed: the names of clusters of which GKE has ended an
\* operation with an error.  The last two are dropped with the first.
Epoch == [clean : {"no", "config", "empty"}, matched : BOOLEAN, failed : SUBSET Names]

\* The type invariant.
TypeOK ==
    /\ gke \in [Keys -> {Absent} \cup UNION {{ClusterOf(c, s) : c \in Configs} : s \in Statuses}]
    /\ \E bs \in SUBSET BenchmarkNames : benchmarks \in [bs -> Files \cup {<<>>}]
    /\ job \in [Jobs -> Job]
    /\ epoch \in Epoch

NotClean == [clean |-> "no", matched |-> FALSE, failed |-> {}]

Rest == [pc |-> "idle", op |-> "delete", clusters |-> <<>>, seen |-> [k \in Keys |-> Absent],
         tasks |-> <<>>]

Init ==
    /\ gke = [k \in Keys |-> IF k \in Others THEN ClusterOf(defaultConfig, "RUNNING") ELSE Absent]
    /\ \E bs \in SUBSET BenchmarkNames : benchmarks = [b \in bs |-> <<>>]
    /\ job = [j \in Jobs |-> Rest]
    /\ epoch = NotClean

-----------------------------------------------------------------------------
(* The state of the clusters.                                              *)

Status(k) == IF gke[k] = Absent THEN "NONE" ELSE gke[k].status

Mine == {k \in Keys : gke[k] # Absent /\ clusterBelongsToRepo(k[1])}

\* Nothing is under way, and no benchmark has two clusters.
Settled == /\ \A k \in Mine : Status(k) \notin Busy
           /\ \A k, l \in Mine : k[1] = l[1] => k = l

\* Every benchmark has its cluster, of its size and in its place, and there are no others,
\* leaving aside the clusters with these names.
ConfiguredBut(names) ==
    LET cs   == benchmarkClusters(benchmarks)
        mine == {k \in Mine : k[1] \notin names}
    IN  /\ mine = {<<n, cs[n].location>> : n \in DOMAIN cs \ names}
        /\ \A k \in mine : gke[k].CurrentNodeCount = ClusterOf(cs[k[1]], "").CurrentNodeCount

AsConfigured == ConfiguredBut({})

AllIdle == \A j \in Jobs : job[j].pc = "idle"

Unclean == epoch' = NotClean

-----------------------------------------------------------------------------
(* A job.                                                                  *)

\* What a job of op is to bring about.
Goal(op) == IF op = "delete" THEN "empty" ELSE "config"

\* main: exactly one operation, and an environment with an endpoint.
Start(j, flags, environment) ==
    /\ job[j].pc = "idle" /\ Cardinality(flags) = 1 /\ ServiceEndpoint(environment) # Absent
    /\ LET op == CHOOSE o \in flags : TRUE
       IN  /\ job' = [job EXCEPT ![j] = [Rest EXCEPT !.pc = "list", !.op = op]]
           /\ epoch' = IF AllIdle /\ Settled
                       THEN [clean |-> Goal(op), failed |-> {},
                             matched |-> op = "reconcile" /\ AsConfigured]
                       ELSE IF ~AllIdle /\ epoch.clean = Goal(op)
                       THEN [epoch EXCEPT !.matched = @ /\ op = "reconcile"]
                       ELSE NotClean
    /\ UNCHANGED <<gke, benchmarks>>

\* listClustersForRepo.  GKE lists the clusters in any order.
List(j) ==
    /\ job[j].pc = "list"
    /\ \E s \in [1..Cardinality(Mine) -> Mine] :
          /\ \A k \in Mine : \E i \in DOMAIN s : s[i] = k
          /\ job' = [job EXCEPT ![j].pc = "read", ![j].clusters = s,
                        ![j].seen = [k \in Keys |-> IF k \in Mine THEN gke[k] ELSE Absent]]
    /\ UNCHANGED <<gke, benchmarks, epoch>>

\* Mutant: the nodes of all zones are compared.
NodesOfAllZones(cluster, location) == cluster.CurrentNodeCount

\* The node count per zone, which the configuration gives.
NodesPerZone(cluster, location) ==
    IF IsRegional(location) THEN cluster.CurrentNodeCount \div 3 ELSE cluster.CurrentNodeCount

\* handleExistingClusterHelper: skip a cluster another job works on, and keep it when
\* the configuration has not changed.  c: its configuration, or Absent.
Unchanged(op, cluster, location, c) ==
    \/ op # "delete" /\ cluster.status \in Busy
    \/ /\ op = "reconcile" /\ c # Absent
       /\ NodesPerZone(cluster, location) = c.nodes /\ location = c.location

Goroutine(pc, at, c) ==
    [pc |-> pc, at |-> at, config |-> c, tries |-> 0, dtries |-> 0, err |-> FALSE]

\* The goroutine of the i-th listed cluster.  Of clusters with one name the first takes
\* the configuration: it is removed from the map.
ExistingTask(op, s, i, seen, cs) ==
    LET name == s[i][1]
        mine == name \in DOMAIN cs /\ \A h \in 1..(i - 1) : s[h][1] # name
        c    == IF mine THEN cs[name] ELSE Absent
    IN  IF Unchanged(op, seen[s[i]], s[i][2], c)
        THEN Goroutine("end", s[i], Absent)
        ELSE Goroutine("delete", s[i], IF op = "delete" THEN Absent ELSE c)

\* The goroutine of a benchmark without a cluster.
NewTask(op, name, c) == Goroutine(IF op = "delete" THEN "end" ELSE "create", <<name, c.location>>, c)

\* processClusters, once the clusters are listed: read the benchmarks, start the goroutines.
Read(j) ==
    /\ job[j].pc = "read"
    /\ LET s    == job[j].clusters
           cs   == benchmarkClusters(benchmarks)
           rest == DOMAIN cs \ {s[i][1] : i \in DOMAIN s}
       IN  \E order \in [1..Cardinality(rest) -> rest] :
              /\ \A n \in rest : \E i \in DOMAIN order : order[i] = n
              /\ job' = [job EXCEPT ![j].pc = "work", ![j].clusters = <<>>,
                            ![j].seen = Rest.seen,
                            ![j].tasks =
                              [i \in DOMAIN s |-> ExistingTask(job[j].op, s, i, job[j].seen, cs)]
                              \o [i \in DOMAIN order |->
                                    NewTask(job[j].op, order[i], cs[order[i]])]]
    /\ UNCHANGED <<gke, benchmarks, epoch>>

\* Listing the clusters or the benchmarks fails: the job fails.
Fails(j) ==
    /\ job[j].pc \in {"list", "read"}
    /\ job' = [job EXCEPT ![j] = Rest]
    /\ Unclean /\ UNCHANGED <<gke, benchmarks>>

\* wg.Wait is over: the errors are combined, and the job fails if there are any.
Finish(j) ==
    /\ job[j].pc = "work" /\ \A i \in DOMAIN job[j].tasks : job[j].tasks[i].pc = "end"
    /\ job' = [job EXCEPT ![j] = Rest]
    /\ IF \E i \in DOMAIN job[j].tasks : job[j].tasks[i].err THEN Unclean ELSE UNCHANGED epoch
    /\ UNCHANGED <<gke, benchmarks>>

-----------------------------------------------------------------------------
(* A goroutine.                                                            *)

At(j, i, pcs) == job[j].pc = "work" /\ i \in DOMAIN job[j].tasks /\ job[j].tasks[i].pc \in pcs

Become(j, i, t) == job' = [job EXCEPT ![j].tasks[i] = t]

Go(j, i, pc) == Become(j, i, [job[j].tasks[i] EXCEPT !.pc = pc])

\* The goroutine ends, with or without an error.
Ended(t, err) == [t EXCEPT !.pc = "end", !.config = Absent, !.tries = 0, !.dtries = 0,
                           !.err = err]

\* Mutant: the error of the last try is dropped.
RetryLosingError(t) == IF t.tries < retryTimes THEN [t EXCEPT !.pc = "create", !.dtries = 0]
                                               ELSE Ended(t, FALSE)

\* The creation is to be tried again, or given up.
Retry(t) == IF t.tries < retryTimes THEN [t EXCEPT !.pc = "create", !.dtries = 0]
                                    ELSE Ended(t, TRUE)

\* A cluster that is there and on which nothing is under way can be deleted.
Deletable(k) == Status(k) \notin {"NONE"} \cup Busy

\* DeleteCluster: GKE accepts the call.
Delete(j, i) ==
    /\ At(j, i, {"delete", "cleanup"})
    /\ LET t == job[j].tasks[i]
       IN  /\ Deletable(t.at)
           /\ gke' = [gke EXCEPT ![t.at].status = "STOPPING"]
           /\ Go(j, i, IF t.pc = "delete" THEN "waitDelete" ELSE "waitCleanup")
    /\ UNCHANGED <<benchmarks, epoch>>

\* The deletion is done: create the cluster anew, if there is a configuration.
Created(t, c) == IF BadRequest(c) THEN Ended(t, TRUE) ELSE [t EXCEPT !.pc = "create",
                     !.at = <<t.at[1], c.location>>, !.dtries = 0]

AfterDelete(t) == IF t.config = Absent THEN Ended(t, FALSE) ELSE Created(t, t.config)

Deleted(j, i) ==
    /\ At(j, i, {"waitDelete", "waitCleanup"})
    /\ LET t == job[j].tasks[i]
       IN  /\ Status(t.at) # "STOPPING"
           /\ Become(j, i, IF t.pc = "waitDelete" THEN AfterDelete(t) ELSE Retry(t))
    /\ UNCHANGED <<gke, benchmarks, epoch>>

\* Mutant: the deletion is tried until it succeeds.
DeleteAgainForever(t) ==
    [t EXCEPT !.pc = IF @ \in {"delete", "waitDelete"} THEN "delete" ELSE "cleanup"]

\* deleteClusterWithRetries after a failed call: three tries; in createClusterWithRetries
\* the deletion is for the best, and no error follows from it.
DeleteAgain(t) ==
    IF t.dtries + 1 < retryTimes
    THEN [t EXCEPT !.dtries = @ + 1, !.pc = IF @ \in {"delete", "waitDelete"} THEN "delete"
                                                                            ELSE "cleanup"]
    ELSE IF t.pc \in {"delete", "waitDelete"} THEN Ended(t, TRUE)
    ELSE Retry(t)

\* GKE refuses the call, or the call or the wait for its operation fails.
DeleteFails(j, i) ==
    /\ At(j, i, {"delete", "waitDelete", "cleanup", "waitCleanup"})
    /\ Become(j, i, DeleteAgain(job[j].tasks[i]))
    /\ UNCHANGED <<gke, benchmarks, epoch>>

\* CreateCluster: GKE accepts the call.
Create(j, i) ==
    /\ At(j, i, {"create"})
    /\ LET t == job[j].tasks[i]
       IN  /\ gke[t.at] = Absent /\ ~BadRequest(t.config)
           /\ Cardinality({k \in Keys : gke[k] # Absent}) < Quota
           /\ gke' = [gke EXCEPT ![t.at] = ClusterOf(t.config, "PROVISIONING")]
           /\ Go(j, i, "waitCreate")
    /\ UNCHANGED <<benchmarks, epoch>>

\* The operation is done: whatever the cluster became of it, the creation has succeeded.
CreateDone(j, i) ==
    /\ At(j, i, {"waitCreate"})
    /\ LET t == job[j].tasks[i]
       IN  /\ Status(t.at) # "PROVISIONING"
           /\ Become(j, i, Ended(t, FALSE))
    /\ UNCHANGED <<gke, benchmarks, epoch>>

\* The call or the wait for its operation fails, or the request is not valid.
CreateFails(j, i) ==
    /\ At(j, i, {"create", "waitCreate"})
    /\ LET t == job[j].tasks[i]
       IN  Become(j, i, IF BadRequest(t.config) THEN Ended(t, TRUE)
                        ELSE [t EXCEPT !.pc = "get", !.tries = @ + 1])
    /\ UNCHANGED <<gke, benchmarks, epoch>>

\* GetCluster after a failed creation: a cluster that is there is deleted first.  When
\* the call fails it is taken for absent.
GetAfterFailure(j, i) ==
    /\ At(j, i, {"get"})
    /\ LET t == job[j].tasks[i]
       IN  \/ gke[t.at] # Absent /\ Go(j, i, "cleanup")
           \/ Become(j, i, Retry(t))
    /\ UNCHANGED <<gke, benchmarks, epoch>>

-----------------------------------------------------------------------------
(* The environment.                                                        *)

\* GKE finishes what is under way.
Provisioned(k) ==
    /\ Status(k) = "PROVISIONING"
    /\ gke' = [gke EXCEPT ![k].status = "RUNNING"]
    /\ UNCHANGED <<benchmarks, job, epoch>>

Stopped(k) ==
    /\ Status(k) = "STOPPING"
    /\ gke' = [gke EXCEPT ![k] = Absent]
    /\ UNCHANGED <<benchmarks, job, epoch>>

\* The operation ends with an error, and the cluster is there, also if it was to be
\* deleted.  gke.Wait takes this for a success as well: the operation is DONE.
OperationFails(k) ==
    /\ Status(k) \in Busy
    /\ gke' = [gke EXCEPT ![k].status = "ERROR"]
    /\ epoch' = IF epoch.clean = "no" THEN NotClean
                ELSE [epoch EXCEPT !.failed = @ \cup {k[1]}]
    /\ UNCHANGED <<benchmarks, job>>

\* Someone adds, changes, or removes a benchmark.
ChangeBenchmark(b) ==
    /\ ChangesDuringJobs \/ AllIdle
    /\ \/ \E f \in Files \cup {<<>>} :
             benchmarks' = [x \in DOMAIN benchmarks \cup {b} |->
                              IF x = b THEN f ELSE benchmarks[x]]
       \/ benchmarks' = [x \in DOMAIN benchmarks \ {b} |-> benchmarks[x]]
    /\ benchmarks' # benchmarks
    /\ Unclean /\ UNCHANGED <<gke, job>>

\* The pod of a job is killed.
Kill(j) ==
    /\ Killed /\ job[j].pc # "idle"
    /\ job' = [job EXCEPT ![j] = Rest]
    /\ Unclean /\ UNCHANGED <<gke, benchmarks>>

-----------------------------------------------------------------------------
Step(j) ==
    \/ List(j) \/ Read(j) \/ Fails(j) \/ Finish(j)
    \/ \E i \in DOMAIN job[j].tasks :
          \/ Delete(j, i) \/ Deleted(j, i) \/ DeleteFails(j, i)
          \/ Create(j, i) \/ CreateDone(j, i) \/ CreateFails(j, i) \/ GetAfterFailure(j, i)

Gke(k) == Provisioned(k) \/ Stopped(k) \/ OperationFails(k)

Next ==
    \/ \E j \in Jobs :
          \/ \E f \in Flags, e \in Environments : Start(j, f, e)
          \/ Step(j) \/ Kill(j)
    \/ \E k \in Keys : Gke(k)
    \/ \E b \in BenchmarkNames : ChangeBenchmark(b)

Spec == Init /\ [][Next]_vars

\* Goroutines run, and calls return.  GKE need not finish anything: Wait has a timeout.
FairSpec == Spec /\ \A j \in Jobs : WF_vars(Step(j))

-----------------------------------------------------------------------------
(* Properties.                                                             *)

\* When all jobs have ended, none with an error, and neither they nor the benchmarks
\* were in each other's way, every benchmark has its cluster and there are no others;
\* after deletions no cluster of the repository is left (cluster.go:76, 88, 107).  This
\* is not so of a name for which GKE has ended an operation with an error: Wait takes
\* that for a success (wait.go:57), the jobs report nothing, and the cluster may be in
\* ERROR, left over, or missing.  The clusters of all other names are as they are to be.
ReconciledIfNoErrors ==
    AllIdle => /\ epoch.clean = "config" => ConfiguredBut(epoch.failed)
               /\ epoch.clean = "empty" => \A k \in Mine : k[1] \in epoch.failed

\* Reconciling touches no cluster whose benchmark is unchanged (cluster.go:91): with the
\* clusters as configured at the beginning, they are at every moment.
KeptIfUnchanged == epoch.clean = "config" /\ epoch.matched => AsConfigured

\* No job changes a cluster of another repository in the same project (benchmark.go:141).
OthersKept == [][\A k \in Others : gke'[k] = gke[k]]_vars

\* Every job ends, whatever fails: no retry is endless and no goroutine is left waiting.
JobsEnd == \A j \in Jobs : job[j].pc # "idle" ~> job[j].pc = "idle"

=============================================================================
