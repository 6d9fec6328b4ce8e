------------------------- MODULE PerfClusters_proofs -------------------------
(***************************************************************************)
(* What holds of the clusters of performance tests for any jobs, names,    *)
(* benchmarks and flags, whatever fails or is killed.                      *)
(***************************************************************************)
EXTENDS PerfClusters, SequenceTheorems, FiniteSetTheorems, TLAPS

-----------------------------------------------------------------------------
(* Names and configurations.                                               *)

\* Where the clusters of the repository may be.
OwnKeys == {k \in Keys : clusterBelongsToRepo(k[1])}

\* What GKE may tell of a cluster.  Absent as a configuration never occurs; the
\* argument does not need to know.
Seen == {Absent} \cup
        UNION {{ClusterOf(c, s) : c \in Configs \cup {defaultConfig, Absent}} : s \in Statuses}

LEMMA SeenCluster ==
  ASSUME NEW x \in Seen, x # Absent, NEW s \in Statuses
  PROVE  /\ [x EXCEPT !.status = s] \in Seen
         /\ [x EXCEPT !.status = s].status = s
<1>1. PICK t \in Statuses, c \in Configs \cup {defaultConfig, Absent} : x = ClusterOf(c, t)
  BY DEF Seen
<1>2. [x EXCEPT !.status = s] = ClusterOf(c, s)
  BY <1>1 DEF ClusterOf
<1>3. ClusterOf(c, s) \in Seen
  BY DEF Seen
<1>4. ClusterOf(c, s).status = s
  BY DEF ClusterOf
<1>5. QED
  BY <1>2, <1>3, <1>4

LEMMA ConfigType ==
  /\ \A f \in Files \cup {<<>>} : clusterConfigForBenchmark(f) \in Configs
  /\ \A c \in Configs : c.location \in Locations
BY DEF Configs, Locations

\* Names and files are finite sets, so the clusters can be listed.
LEMMA KeysFinite == IsFiniteSet(Keys)
<1> DEFINE files == Files \cup {<<>>}
           f == [x \in files |-> clusterConfigForBenchmark(x)]
           g == [c \in Configs |-> c.location]
<1>1. IsFiniteSet(files)
  BY PerfAssumption, FS_AddElement
<1>2. f \in Surjection(files, Configs)
  <2> HIDE DEF files
  <2>1. Configs = {clusterConfigForBenchmark(x) : x \in files}
    BY DEF Configs, files
  <2>2. QED
    BY <2>1 DEF Surjection
<1>3. IsFiniteSet(Configs)
  BY <1>1, <1>2, FS_Surjection
<1>4. g \in Surjection(Configs, Locations)
  BY DEF Surjection, Locations
<1>5. IsFiniteSet(Locations)
  BY <1>3, <1>4, FS_Surjection
<1>6. QED
  BY <1>5, PerfAssumption, FS_Product DEF Keys

\* A benchmark's cluster has a name of the repository.
LEMMA BenchmarkName ==
  ASSUME NEW b \in BenchmarkNames
  PROVE  /\ clusterNameForBenchmark(b) \in Names
         /\ clusterBelongsToRepo(clusterNameForBenchmark(b))
         /\ clusterNameForBenchmark(b)[2] = b
<1>1. PICK n \in Names : clusterBelongsToRepo(n) /\ b = n[2]
  BY DEF BenchmarkNames
<1>2. n \in STRING \X STRING
  BY PerfAssumption
<1>3. n = <<repo, b>>
  BY <1>1, <1>2 DEF clusterBelongsToRepo
<1>4. QED
  BY <1>1, <1>3 DEF clusterNameForBenchmark, clusterBelongsToRepo

-----------------------------------------------------------------------------
(* The invariant: the jobs know of clusters of the repository only.        *)

\* A goroutine that works on a cluster of the repository.
TaskPcs == {"delete", "waitDelete", "create", "waitCreate", "get", "cleanup",
            "waitCleanup", "end"}

OwnTask == [pc : TaskPcs, at : OwnKeys, config : Configs \cup {Absent}, tries : Nat,
            dtries : Nat, err : BOOLEAN]

JobPcs == {"idle", "list", "read", "work"}

\* A job that has listed clusters of the repository and works on such ones.
OwnJob == [pc : JobPcs, op : {"recreate", "reconcile", "delete"},
           clusters : Seq(OwnKeys), seen : [Keys -> Seen], tasks : Seq(OwnTask)]

OwnInv ==
    /\ gke \in [Keys -> Seen]
    /\ \E bs \in SUBSET BenchmarkNames : benchmarks \in [bs -> Files \cup {<<>>}]
    /\ job \in [Jobs -> OwnJob]

\* The clusters of other repositories run, as they did at the beginning.
OthersRun == \A k \in Others : gke[k] = ClusterOf(defaultConfig, "RUNNING")

LEMMA RestType == Rest \in OwnJob
<1>1. <<>> \in Seq(OwnKeys) /\ <<>> \in Seq(OwnTask)
  OBVIOUS
<1> DEFINE seen == [k \in Keys |-> Absent]
<1>2. seen \in [Keys -> Seen]
  BY DEF Seen
<1>3. Rest = [pc |-> "idle", op |-> "delete", clusters |-> <<>>, seen |-> seen,
              tasks |-> <<>>]
  BY DEF Rest
<1> HIDE DEF seen
<1>4. QED
  BY <1>1, <1>2, <1>3 DEF OwnJob, JobPcs

LEMMA InitOwn == Init => OwnInv /\ OthersRun
<1> SUFFICES ASSUME Init
             PROVE  OwnInv /\ OthersRun
  OBVIOUS
<1>1. ClusterOf(defaultConfig, "RUNNING") \in Seen /\ Absent \in Seen
  BY DEF Seen, Statuses
<1>2. gke \in [Keys -> Seen]
  BY <1>1 DEF Init
<1>3. \E bs \in SUBSET BenchmarkNames : benchmarks \in [bs -> Files \cup {<<>>}]
  BY DEF Init
<1>4. job \in [Jobs -> OwnJob]
  <2> DEFINE e == Rest
  <2>1. e \in OwnJob /\ job = [j \in Jobs |-> e]
    BY RestType DEF Init
  <2> HIDE DEF e
  <2>2. QED
    BY <2>1
<1>5. OthersRun
  BY OthersAssumption DEF Init, OthersRun
<1>6. QED
  BY <1>2, <1>3, <1>4, <1>5 DEF OwnInv

\* A step that changes the status of a cluster that is not another repository's, or
\* removes it.
LEMMA OthersStay ==
  ASSUME OwnInv, OthersRun, NEW k \in Keys, NEW x, k \notin Others,
         gke' = [gke EXCEPT ![k] = x]
  PROVE  OthersRun' /\ \A o \in Others : gke'[o] = gke[o]
BY OthersAssumption DEF OwnInv, OthersRun

LEMMA OwnNotOthers == \A k \in OwnKeys : k \in Keys /\ k \notin Others
BY OthersAssumption DEF OwnKeys, clusterBelongsToRepo

\* A step of goroutine i of job j.
LEMMA BecomeType ==
  ASSUME OwnInv, NEW j \in Jobs, NEW i, NEW t \in OwnTask,
         i \in DOMAIN job[j].tasks, Become(j, i, t)
  PROVE  job' \in [Jobs -> OwnJob]
<1>1. job[j] \in OwnJob /\ job[j].tasks \in Seq(OwnTask)
  BY DEF OwnInv, OwnJob
<1>2. [job[j].tasks EXCEPT ![i] = t] \in Seq(OwnTask)
  BY <1>1
<1> DEFINE ts == [job[j].tasks EXCEPT ![i] = t]
<1>3. job' = [job EXCEPT ![j] = [job[j] EXCEPT !.tasks = ts]]
  BY <1>1 DEF Become, OwnInv
<1> HIDE DEF ts
<1>4. [job[j] EXCEPT !.tasks = ts] \in OwnJob
  BY <1>1, <1>2 DEF OwnJob, ts
<1>5. QED
  BY <1>3, <1>4 DEF OwnInv

\* What a step must keep, and what it may not do.
Kept == OwnInv' /\ OthersRun' /\ \A o \in Others : gke'[o] = gke[o]

\* A step that leaves the clusters and the benchmarks alone.
LEMMA JobStep ==
  ASSUME OwnInv, OthersRun, gke' = gke, benchmarks' = benchmarks,
         job' \in [Jobs -> OwnJob]
  PROVE  Kept
BY DEF Kept, OwnInv, OthersRun

-----------------------------------------------------------------------------
(* The goroutines stay with the repository.                                *)

LEMMA EndedType ==
  ASSUME NEW t \in OwnTask, NEW err \in BOOLEAN
  PROVE  Ended(t, err) \in OwnTask
BY DEF Ended, OwnTask, TaskPcs

LEMMA RetryType ==
  ASSUME NEW t \in OwnTask
  PROVE  Retry(t) \in OwnTask
<1>1. [t EXCEPT !.pc = "create", !.dtries = 0] \in OwnTask
  BY DEF OwnTask, TaskPcs
<1>2. QED
  BY <1>1, EndedType DEF Retry

\* Only the location of a cluster changes with its configuration.
LEMMA AfterDeleteType ==
  ASSUME NEW t \in OwnTask
  PROVE  AfterDelete(t) \in OwnTask
<1>1. CASE t.config = Absent
  BY <1>1, EndedType DEF AfterDelete
<1>2. CASE t.config # Absent
  <2> DEFINE c == t.config
             at == <<t.at[1], c.location>>
  <2>1. c \in Configs /\ t.at \in OwnKeys
    BY <1>2 DEF OwnTask
  <2>2. at \in OwnKeys
    BY <2>1, ConfigType DEF OwnKeys, Keys
  <2> HIDE DEF at
  <2>3. [t EXCEPT !.pc = "create", !.at = at, !.dtries = 0] \in OwnTask
    BY <2>2 DEF OwnTask, TaskPcs
  <2>4. AfterDelete(t) \in {Ended(t, TRUE), [t EXCEPT !.pc = "create", !.at = at, !.dtries = 0]}
    BY <1>2 DEF AfterDelete, Created, at
  <2>5. QED
    BY <2>3, <2>4, EndedType
<1>3. QED
  BY <1>1, <1>2

LEMMA DeleteAgainType ==
  ASSUME NEW t \in OwnTask
  PROVE  DeleteAgain(t) \in OwnTask
<1> DEFINE pc == IF t.pc \in {"delete", "waitDelete"} THEN "delete" ELSE "cleanup"
           n == t.dtries + 1
           again == [t EXCEPT !.dtries = n, !.pc = pc]
<1>1. pc \in TaskPcs /\ n \in Nat
  BY DEF TaskPcs, OwnTask
<1>2. again \in OwnTask
  <2> HIDE DEF pc, n
  <2>1. QED
    BY <1>1 DEF OwnTask
<1>3. DeleteAgain(t) \in {again, Ended(t, TRUE), Retry(t)}
  BY DEF DeleteAgain
<1>4. QED
  BY <1>2, <1>3, EndedType, RetryType

LEMMA TaskType ==
  ASSUME OwnInv, NEW j \in Jobs, NEW i, NEW pcs, At(j, i, pcs)
  PROVE  /\ i \in DOMAIN job[j].tasks
         /\ job[j].tasks[i] \in OwnTask
         /\ job[j].tasks[i].at \in OwnKeys
<1>1. /\ job[j].tasks \in Seq(OwnTask)
      /\ i \in DOMAIN job[j].tasks
  BY DEF OwnInv, OwnJob, At
<1>2. job[j].tasks[i] \in OwnTask
  BY <1>1
<1>3. QED
  BY <1>1, <1>2 DEF OwnTask

\* A goroutine that only moves on.
LEMMA TaskStep ==
  ASSUME OwnInv, OthersRun, NEW j \in Jobs, NEW i, NEW pcs, At(j, i, pcs),
         NEW t \in OwnTask, Become(j, i, t), gke' = gke, benchmarks' = benchmarks
  PROVE  Kept
BY TaskType, BecomeType, JobStep

\* A goroutine that moves on and changes the cluster it is about.
LEMMA ClusterStep ==
  ASSUME OwnInv, OthersRun, NEW j \in Jobs, NEW i, NEW pcs, At(j, i, pcs),
         \E t \in OwnTask : Become(j, i, t), benchmarks' = benchmarks,
         \E x \in Seen : gke' = [gke EXCEPT ![job[j].tasks[i].at] = x]
  PROVE  Kept
<1>1. PICK k \in OwnKeys : k = job[j].tasks[i].at
  BY TaskType
<1>2. k \in Keys /\ k \notin Others
  BY OwnNotOthers
<1>3. OthersRun' /\ \A o \in Others : gke'[o] = gke[o]
  BY <1>1, <1>2, OthersStay
<1>4. gke' \in [Keys -> Seen]
  BY <1>1, <1>2 DEF OwnInv
<1>5. job' \in [Jobs -> OwnJob]
  BY TaskType, BecomeType
<1>6. QED
  BY <1>3, <1>4, <1>5 DEF Kept, OwnInv

LEMMA TaskKept ==
  ASSUME OwnInv, OthersRun, NEW j \in Jobs, NEW i,
         \/ Delete(j, i) \/ Deleted(j, i) \/ DeleteFails(j, i)
         \/ Create(j, i) \/ CreateDone(j, i) \/ CreateFails(j, i)
         \/ GetAfterFailure(j, i)
  PROVE  Kept
<1> DEFINE t == job[j].tasks[i]
<1>1. ASSUME NEW pcs, At(j, i, pcs)
      PROVE  t \in OwnTask /\ t.at \in Keys
  BY <1>1, TaskType, OwnNotOthers
<1>2. ASSUME NEW pcs, At(j, i, pcs), NEW pc \in TaskPcs
      PROVE  [t EXCEPT !.pc = pc] \in OwnTask
  BY <1>1, <1>2 DEF OwnTask
<1> HIDE DEF t
<1>3. CASE Delete(j, i)
  <2>1. /\ At(j, i, {"delete", "cleanup"}) /\ Deletable(t.at)
        /\ gke' = [gke EXCEPT ![t.at].status = "STOPPING"]
        /\ benchmarks' = benchmarks
        /\ \E pc \in {"waitDelete", "waitCleanup"} : Become(j, i, [t EXCEPT !.pc = pc])
    BY <1>3 DEF Delete, Go, t
  <2>2. PICK pc \in TaskPcs : Become(j, i, [t EXCEPT !.pc = pc])
    BY <2>1 DEF TaskPcs
  <2>3. gke[t.at] # Absent /\ gke[t.at] \in Seen
    BY <1>1, <2>1 DEF Deletable, Status, OwnInv
  <2>4. [gke[t.at] EXCEPT !.status = "STOPPING"] \in Seen
    BY <2>3, SeenCluster DEF Statuses, Busy
  <2>5. PICK x \in Seen : gke' = [gke EXCEPT ![t.at] = x]
    BY <2>1, <2>4
  <2>6. [t EXCEPT !.pc = pc] \in OwnTask
    BY <1>2, <2>1
  <2>7. \E y \in Seen : gke' = [gke EXCEPT ![job[j].tasks[i].at] = y]
    BY <2>5 DEF t
  <2>8. \E u \in OwnTask : Become(j, i, u)
    BY <2>2, <2>6
  <2>9. QED
    BY <2>1, <2>7, <2>8, ClusterStep
<1>4. CASE Deleted(j, i)
  <2>1. /\ At(j, i, {"waitDelete", "waitCleanup"})
        /\ gke' = gke /\ benchmarks' = benchmarks
        /\ Become(j, i, AfterDelete(t)) \/ Become(j, i, Retry(t))
    BY <1>4 DEF Deleted, t
  <2>2. AfterDelete(t) \in OwnTask /\ Retry(t) \in OwnTask
    BY <1>1, <2>1, AfterDeleteType, RetryType
  <2>3. QED
    BY <2>1, <2>2, TaskStep
<1>5. CASE DeleteFails(j, i)
  <2>1. /\ At(j, i, {"delete", "waitDelete", "cleanup", "waitCleanup"})
        /\ gke' = gke /\ benchmarks' = benchmarks
        /\ Become(j, i, DeleteAgain(t))
    BY <1>5 DEF DeleteFails, t
  <2>2. DeleteAgain(t) \in OwnTask
    BY <1>1, <2>1, DeleteAgainType
  <2>3. QED
    BY <2>1, <2>2, TaskStep
<1>6. CASE Create(j, i)
  <2>1. /\ At(j, i, {"create"}) /\ benchmarks' = benchmarks
        /\ gke' = [gke EXCEPT ![t.at] = ClusterOf(t.config, "PROVISIONING")]
        /\ Become(j, i, [t EXCEPT !.pc = "waitCreate"])
        /\ gke[t.at] = Absent
    BY <1>6 DEF Create, Go, t
  <2>2. t \in OwnTask /\ [t EXCEPT !.pc = "waitCreate"] \in OwnTask
    BY <1>1, <1>2, <2>1 DEF TaskPcs
  <2>3. ClusterOf(t.config, "PROVISIONING") \in Seen
    <3>1. t.config \in Configs \cup {Absent}
      BY <2>2 DEF OwnTask
    <3>2. QED
      BY <3>1 DEF Seen, Statuses, Busy
  <2>4. PICK x \in Seen : gke' = [gke EXCEPT ![t.at] = x]
    BY <2>1, <2>3
  <2>5. \E y \in Seen : gke' = [gke EXCEPT ![job[j].tasks[i].at] = y]
    BY <2>4 DEF t
  <2>6. \E u \in OwnTask : Become(j, i, u)
    BY <2>1, <2>2
  <2>7. QED
    BY <2>1, <2>5, <2>6, ClusterStep
<1>7. CASE CreateDone(j, i)
  <2>1. /\ At(j, i, {"waitCreate"}) /\ gke' = gke /\ benchmarks' = benchmarks
        /\ Become(j, i, Ended(t, FALSE))
    BY <1>7 DEF CreateDone, t
  <2>2. Ended(t, FALSE) \in OwnTask
    BY <1>1, <2>1, EndedType
  <2>3. QED
    BY <2>1, <2>2, TaskStep
<1>8. CASE CreateFails(j, i)
  <2> DEFINE n == t.tries + 1
             tried == [t EXCEPT !.pc = "get", !.tries = n]
  <2>1. /\ At(j, i, {"create", "waitCreate"}) /\ gke' = gke /\ benchmarks' = benchmarks
        /\ Become(j, i, Ended(t, TRUE)) \/ Become(j, i, tried)
    BY <1>8 DEF CreateFails, t
  <2>2. Ended(t, TRUE) \in OwnTask
    BY <1>1, <2>1, EndedType
  <2>3. tried \in OwnTask
    <3>1. n \in Nat /\ t \in OwnTask
      BY <1>1, <2>1 DEF OwnTask
    <3> HIDE DEF n
    <3>2. QED
      BY <3>1 DEF OwnTask, TaskPcs
  <2>4. QED
    BY <2>1, <2>2, <2>3, TaskStep
<1>9. CASE GetAfterFailure(j, i)
  <2>1. /\ At(j, i, {"get"}) /\ gke' = gke /\ benchmarks' = benchmarks
        /\ Become(j, i, [t EXCEPT !.pc = "cleanup"]) \/ Become(j, i, Retry(t))
    BY <1>9 DEF GetAfterFailure, Go, t
  <2>2. [t EXCEPT !.pc = "cleanup"] \in OwnTask /\ Retry(t) \in OwnTask
    BY <1>1, <1>2, <2>1, RetryType DEF TaskPcs
  <2>3. QED
    BY <2>1, <2>2, TaskStep
<1>10. QED
  BY <1>3, <1>4, <1>5, <1>6, <1>7, <1>8, <1>9

-----------------------------------------------------------------------------
(* The steps of a job and of the environment.                              *)

\* A job becomes another record.
LEMMA JobType ==
  ASSUME OwnInv, OthersRun, NEW j \in Jobs, NEW x \in OwnJob,
         job' = [job EXCEPT ![j] = x], gke' = gke, benchmarks' = benchmarks
  PROVE  Kept
<1>1. job' \in [Jobs -> OwnJob]
  BY DEF OwnInv
<1>2. QED
  BY <1>1, JobStep

LEMMA StartKept ==
  ASSUME OwnInv, OthersRun, NEW j \in Jobs, NEW f \in Flags, NEW e, Start(j, f, e)
  PROVE  Kept
<1> DEFINE op == CHOOSE o \in f : TRUE
           started == [Rest EXCEPT !.pc = "list", !.op = op]
<1>1. op \in {"recreate", "reconcile", "delete"}
  <2>1. f # {}
    BY FS_EmptySet DEF Start
  <2>2. op \in f
    BY <2>1
  <2>3. QED
    BY <2>2, PerfAssumption
<1>2. job' = [job EXCEPT ![j] = started] /\ gke' = gke /\ benchmarks' = benchmarks
  BY DEF Start
<1> HIDE DEF op
<1>3. started \in OwnJob
  BY <1>1, RestType DEF OwnJob, JobPcs
<1> HIDE DEF started
<1>4. QED
  BY <1>2, <1>3, JobType

\* The list names clusters of the repository.
LEMMA ListKept ==
  ASSUME OwnInv, OthersRun, NEW j \in Jobs, List(j)
  PROVE  Kept
<1> DEFINE seen == [k \in Keys |-> IF k \in Mine THEN gke[k] ELSE Absent]
<1>1. PICK s \in [1..Cardinality(Mine) -> Mine] :
        job' = [job EXCEPT ![j].pc = "read", ![j].clusters = s, ![j].seen = seen]
  BY DEF List
<1>2. Mine \in SUBSET Keys /\ Mine \subseteq OwnKeys
  BY DEF Mine, OwnKeys
<1>3. Cardinality(Mine) \in Nat
  BY <1>2, KeysFinite, FS_Subset, FS_CardinalityType
<1>4. s \in Seq(OwnKeys)
  BY <1>2, <1>3
<1>5. seen \in [Keys -> Seen]
  BY DEF OwnInv, Seen
<1>6. job[j] \in OwnJob
  BY DEF OwnInv
<1> HIDE DEF seen
<1>7. [job[j] EXCEPT !.pc = "read", !.clusters = s, !.seen = seen] \in OwnJob
  BY <1>4, <1>5, <1>6 DEF OwnJob, JobPcs
<1>8. job' = [job EXCEPT ![j] = [job[j] EXCEPT !.pc = "read", !.clusters = s, !.seen = seen]]
  BY <1>1 DEF OwnInv
<1>9. gke' = gke /\ benchmarks' = benchmarks
  BY DEF List
<1> DEFINE x == [job[j] EXCEPT !.pc = "read", !.clusters = s, !.seen = seen]
<1>10. x \in OwnJob /\ job' = [job EXCEPT ![j] = x]
  BY <1>7, <1>8
<1> HIDE DEF x
<1>11. QED
  BY <1>9, <1>10, JobType

\* The configurations are those of benchmarks of the repository.
LEMMA ConfigsOfBenchmarks ==
  ASSUME OwnInv, NEW n \in DOMAIN benchmarkClusters(benchmarks)
  PROVE  /\ n \in Names /\ clusterBelongsToRepo(n)
         /\ benchmarkClusters(benchmarks)[n] \in Configs
<1>1. PICK bs \in SUBSET BenchmarkNames : benchmarks \in [bs -> Files \cup {<<>>}]
  BY DEF OwnInv
<1>2. DOMAIN benchmarks = bs
  BY <1>1
<1>3. PICK b \in bs : n = clusterNameForBenchmark(b)
  BY <1>2 DEF benchmarkClusters
<1>4. n \in Names /\ clusterBelongsToRepo(n) /\ n[2] = b
  BY <1>1, <1>3, BenchmarkName
<1>5. benchmarkClusters(benchmarks)[n] = clusterConfigForBenchmark(benchmarks[b])
  BY <1>4 DEF benchmarkClusters
<1>6. benchmarks[b] \in Files \cup {<<>>}
  BY <1>1
<1>7. QED
  BY <1>4, <1>5, <1>6, ConfigType

LEMMA GoroutineType ==
  ASSUME NEW pc \in TaskPcs, NEW at \in OwnKeys, NEW c \in Configs \cup {Absent}
  PROVE  Goroutine(pc, at, c) \in OwnTask
BY DEF Goroutine, OwnTask

\* The goroutines that a job starts, for the listed clusters and for the other
\* benchmarks, are about clusters of the repository.
LEMMA ReadKept ==
  ASSUME OwnInv, OthersRun, NEW j \in Jobs, Read(j)
  PROVE  Kept
<1> DEFINE s == job[j].clusters
           op == job[j].op
           seen == job[j].seen
           cs == benchmarkClusters(benchmarks)
           rest == DOMAIN cs \ {s[i][1] : i \in DOMAIN s}
           a == [i \in DOMAIN s |-> ExistingTask(op, s, i, seen, cs)]
<1>1. PICK order \in [1..Cardinality(rest) -> rest] :
        job' = [job EXCEPT ![j].pc = "work", ![j].clusters = <<>>,
                           ![j].seen = Rest.seen,
                           ![j].tasks = a \o [i \in DOMAIN order |->
                                                NewTask(op, order[i], cs[order[i]])]]
  BY DEF Read
<1> DEFINE b == [i \in DOMAIN order |-> NewTask(op, order[i], cs[order[i]])]
<1>2. job[j] \in OwnJob /\ s \in Seq(OwnKeys)
  BY DEF OwnInv, OwnJob
<1>3. \A n \in DOMAIN cs : n \in Names /\ clusterBelongsToRepo(n) /\ cs[n] \in Configs
  BY ConfigsOfBenchmarks
<1>4. Cardinality(rest) \in Nat
  <2>1. rest \in SUBSET Names
    BY <1>3
  <2> HIDE DEF rest
  <2>2. QED
    BY <2>1, PerfAssumption, FS_Subset, FS_CardinalityType
<1> HIDE DEF cs
<1>5. ASSUME NEW i \in DOMAIN s
      PROVE  ExistingTask(op, s, i, seen, cs) \in OwnTask
  <2> DEFINE name == s[i][1]
             mine == name \in DOMAIN cs /\ \A h \in 1..(i - 1) : s[h][1] # name
             c    == IF mine THEN cs[name] ELSE Absent
             d    == IF op = "delete" THEN Absent ELSE c
  <2>1. s[i] \in OwnKeys
    BY <1>2, <1>5
  <2>2. d \in Configs \cup {Absent}
    BY <1>3
  <2>3. ExistingTask(op, s, i, seen, cs) \in
           {Goroutine("end", s[i], Absent), Goroutine("delete", s[i], d)}
    BY DEF ExistingTask
  <2> HIDE DEF d
  <2>4. QED
    BY <2>1, <2>2, <2>3, GoroutineType DEF TaskPcs
<1>6. a \in Seq(OwnTask)
  BY <1>2, <1>5
<1>7. ASSUME NEW n \in rest
      PROVE  NewTask(op, n, cs[n]) \in OwnTask
  <2>1. n \in Names /\ clusterBelongsToRepo(n) /\ cs[n] \in Configs
    BY <1>3
  <2>2. <<n, cs[n].location>> \in OwnKeys
    BY <2>1, ConfigType DEF OwnKeys, Keys
  <2>3. QED
    BY <2>1, <2>2, GoroutineType DEF NewTask, TaskPcs
<1> HIDE DEF rest
<1>8. b \in Seq(OwnTask)
  BY <1>4, <1>7
<1> HIDE DEF a, b
<1>9. a \o b \in Seq(OwnTask)
  BY <1>6, <1>8, ConcatProperties
<1> DEFINE x == [job[j] EXCEPT !.pc = "work", !.clusters = <<>>, !.seen = Rest.seen,
                               !.tasks = a \o b]
<1>10. job' = [job EXCEPT ![j] = x]
  BY <1>1 DEF OwnInv, b
<1>11. x \in OwnJob
  <2> DEFINE ts == a \o b
             no == Rest.seen
  <2>1. no \in [Keys -> Seen] /\ <<>> \in Seq(OwnKeys) /\ ts \in Seq(OwnTask)
    BY <1>9, RestType DEF OwnJob
  <2> HIDE DEF ts, no
  <2>2. [job[j] EXCEPT !.pc = "work", !.clusters = <<>>, !.seen = no, !.tasks = ts]
          \in OwnJob
    BY <1>2, <2>1 DEF OwnJob, JobPcs
  <2>3. QED
    BY <2>2 DEF ts, no
<1> HIDE DEF x
<1>12. gke' = gke /\ benchmarks' = benchmarks
  BY DEF Read
<1>13. QED
  BY <1>10, <1>11, <1>12, JobType

\* GKE finishes only what is under way, and the clusters of others are not.
LEMMA GkeKept ==
  ASSUME OwnInv, OthersRun, NEW k \in Keys, Gke(k)
  PROVE  Kept
<1>1. Status(k) \in Busy
  BY DEF Gke, Stopped, Provisioned, OperationFails, Busy
<1>2. k \notin Others
  BY <1>1, OthersAssumption DEF OthersRun, Status, ClusterOf, Busy
<1>3. gke[k] # Absent /\ gke[k] \in Seen
  BY <1>1 DEF Status, Busy, OwnInv
<1>4. /\ Absent \in Seen
      /\ \A t \in {"RUNNING", "ERROR"} : [gke[k] EXCEPT !.status = t] \in Seen
  BY <1>3, SeenCluster DEF Seen, Statuses
<1>5. /\ \E x \in Seen : gke' = [gke EXCEPT ![k] = x]
      /\ job' = job /\ benchmarks' = benchmarks
  BY <1>4 DEF Gke, Stopped, Provisioned, OperationFails
<1>6. PICK x \in Seen : gke' = [gke EXCEPT ![k] = x]
  BY <1>5
<1>7. OthersRun' /\ \A o \in Others : gke'[o] = gke[o]
  BY <1>2, <1>6, OthersStay
<1>8. gke' \in [Keys -> Seen]
  BY <1>6 DEF OwnInv
<1>9. QED
  BY <1>5, <1>7, <1>8 DEF Kept, OwnInv

LEMMA ChangeKept ==
  ASSUME OwnInv, OthersRun, NEW b \in BenchmarkNames, ChangeBenchmark(b)
  PROVE  Kept
<1>1. PICK bs \in SUBSET BenchmarkNames : benchmarks \in [bs -> Files \cup {<<>>}]
  BY DEF OwnInv
<1>2. \E cs \in SUBSET BenchmarkNames : benchmarks' \in [cs -> Files \cup {<<>>}]
  <2>1. CASE \E f \in Files \cup {<<>>} :
               benchmarks' = [x \in DOMAIN benchmarks \cup {b} |->
                                IF x = b THEN f ELSE benchmarks[x]]
    <3>1. benchmarks' \in [bs \cup {b} -> Files \cup {<<>>}]
      BY <1>1, <2>1
    <3>2. bs \cup {b} \in SUBSET BenchmarkNames
      OBVIOUS
    <3>3. QED
      BY <3>1, <3>2
  <2>2. CASE benchmarks' = [x \in DOMAIN benchmarks \ {b} |-> benchmarks[x]]
    <3>1. benchmarks' \in [bs \ {b} -> Files \cup {<<>>}]
      BY <1>1, <2>2
    <3>2. bs \ {b} \in SUBSET BenchmarkNames
      OBVIOUS
    <3>3. QED
      BY <3>1, <3>2
  <2>3. QED
    BY <2>1, <2>2 DEF ChangeBenchmark
<1>3. gke' = gke /\ job' = job
  BY DEF ChangeBenchmark
<1>4. QED
  BY <1>2, <1>3 DEF Kept, OwnInv, OthersRun

LEMMA NextKept ==
  ASSUME OwnInv, OthersRun, [Next]_vars
  PROVE  Kept
<1>1. CASE UNCHANGED vars
  <2>1. gke' = gke /\ benchmarks' = benchmarks /\ job' = job
    BY <1>1 DEF vars
  <2>2. job' \in [Jobs -> OwnJob]
    BY <2>1 DEF OwnInv
  <2>3. QED
    BY <2>1, <2>2, JobStep
<1>2. ASSUME NEW j \in Jobs, Fails(j) \/ Finish(j) \/ Kill(j)
      PROVE  Kept
  <2>1. job' = [job EXCEPT ![j] = Rest] /\ gke' = gke /\ benchmarks' = benchmarks
    BY <1>2 DEF Fails, Finish, Kill
  <2>2. QED
    BY <2>1, RestType, JobType
<1>3. ASSUME NEW j \in Jobs, Step(j)
      PROVE  Kept
  BY <1>2, <1>3, ListKept, ReadKept, TaskKept DEF Step
<1>4. QED
  BY <1>1, <1>2, <1>3, StartKept, GkeKept, ChangeKept DEF Next

LEMMA OwnInvariant == Spec => [](OwnInv /\ OthersRun)
<1>1. OwnInv /\ OthersRun /\ [Next]_vars => (OwnInv /\ OthersRun)'
  BY NextKept DEF Kept
<1>2. QED
  BY <1>1, InitOwn, PTL DEF Spec

\* No job changes or deletes a cluster of another repository in the same project,
\* whatever the benchmarks are called, whichever calls fail, and however jobs overlap.
THEOREM OthersSafe == Spec => OthersKept
<1>1. OwnInv /\ OthersRun /\ [Next]_vars => [\A k \in Others : gke'[k] = gke[k]]_vars
  BY NextKept DEF Kept
<1>2. QED
  BY <1>1, OwnInvariant, PTL DEF Spec, OthersKept

-----------------------------------------------------------------------------
(* The invariant of clean jobs: every benchmark has what it wants, or      *)
(* somebody is still at it.                                                *)

\* What holds of every job: a cluster has been made from some configuration, in its place.
Placed(k) == \E c \in Configs, s \in Statuses : c.location = k[2] /\ gke[k] = ClusterOf(c, s)

PlacedTask(t) == t.pc \notin {"delete", "waitDelete", "end"} =>
                    t.config \in Configs /\ t.at[2] = t.config.location

PlacedInv ==
    /\ epoch \in Epoch
    /\ \A k \in Mine : Placed(k)
    /\ \A j \in Jobs : /\ job[j].pc # "work" => DOMAIN job[j].tasks = {}
                       /\ \A i \in DOMAIN job[j].tasks : PlacedTask(job[j].tasks[i])

\* What clean jobs are to bring about.
Wanted == IF epoch.clean = "empty" THEN <<>> ELSE benchmarkClusters(benchmarks)

WantedConfig(n) == IF n \in DOMAIN Wanted THEN Wanted[n] ELSE Absent

\* A cluster is in its place, and has its nodes.
InPlace(k) == k[1] \in DOMAIN Wanted /\ k[2] = Wanted[k[1]].location

Sized(k) == gke[k].CurrentNodeCount = ClusterOf(Wanted[k[1]], "").CurrentNodeCount

OwnNames == {n \in Names : clusterBelongsToRepo(n)}

\* The names for which every operation has ended well: of the others nothing is claimed.
Intact == OwnNames \ epoch.failed

AtHome(n) == \A k \in Mine : k[1] = n => InPlace(k)

Right(n) ==
    /\ AtHome(n)
    /\ n \in DOMAIN Wanted =>
          LET k == <<n, Wanted[n].location>>
          IN  k \in Mine /\ Status(k) # "STOPPING" /\ Sized(k)

StayTask(t, n, k) ==
    t.pc # "end" /\ t.at[1] = n => t.at = k /\ t.pc \in {"delete", "waitDelete"}

\* The one cluster of a benchmark is still where it must not stay: everybody who knows of
\* the benchmark knows of this cluster, and nobody creates another one.
Stays(n, k) ==
    /\ k \in Mine /\ k[1] = n /\ ~InPlace(k)
    /\ \A l \in Mine : l[1] = n => l = k
    /\ \A j \in Jobs :
          /\ job[j].pc = "read" =>
                /\ \E i \in DOMAIN job[j].clusters : job[j].clusters[i] = k
                /\ \A i \in DOMAIN job[j].clusters :
                      job[j].clusters[i][1] = n => job[j].clusters[i] = k
          /\ \A i \in DOMAIN job[j].tasks : StayTask(job[j].tasks[i], n, k)

\* A goroutine is at a benchmark, or will make its job fail.  Who waits for a cluster to be
\* created does not count: it takes whatever it finds then.
Trying(t, n) == t.err \/ (t.at[1] = n /\ t.pc \notin {"waitCreate", "end"})

Tried(n) == \E j \in Jobs : \E i \in DOMAIN job[j].tasks : Trying(job[j].tasks[i], n)

\* A job that has listed the clusters will start such a goroutine.
Pending(j, n) ==
    /\ job[j].pc = "read"
    /\ LET s == job[j].clusters
       IN  \/ /\ \A i \in DOMAIN s : s[i][1] # n
              /\ n \in DOMAIN Wanted
           \/ \E i \in DOMAIN s :
                 s[i][1] = n /\ ~Unchanged(job[j].op, job[j].seen[s[i]], s[i][2], WantedConfig(n))

CleanTask(t) ==
    t.pc # "end" =>
        /\ ~t.err
        /\ t.at[1] \in Intact =>
              /\ t.config = WantedConfig(t.at[1])
              /\ t.pc \notin {"delete", "waitDelete"} => InPlace(t.at)
              /\ t.pc = "waitDelete" /\ ~InPlace(t.at) => Status(t.at) \in {"NONE", "STOPPING"}

CleanJob(j) ==
    /\ job[j].pc # "idle" => Goal(job[j].op) = epoch.clean
    /\ \A i \in DOMAIN job[j].tasks : CleanTask(job[j].tasks[i])
    /\ job[j].pc = "read" => \A h, i \in DOMAIN job[j].clusters :
          /\ job[j].clusters[h][1] = job[j].clusters[i][1]
          /\ job[j].clusters[h][1] \in Intact
          => h = i

CleanCluster(k) ==
    /\ Status(k) = "PROVISIONING" => InPlace(k) /\ Sized(k)
    /\ Status(k) = "STOPPING" => Tried(k[1])

Found(n) == AtHome(n) \/ \E k \in Keys : Stays(n, k)

Cared(n) == Right(n) \/ Tried(n) \/ \E j \in Jobs : job[j].pc = "list" \/ Pending(j, n)

ReconcileInv ==
    epoch.clean # "no" =>
        /\ \A j \in Jobs : CleanJob(j)
        /\ \A k \in Mine : k[1] \in Intact => CleanCluster(k)
        /\ \A n \in Intact : Found(n) /\ Cared(n)

-----------------------------------------------------------------------------
(* The invariant of jobs that reconcile what is as configured.             *)

KeptJob(j) ==
    LET cs == benchmarkClusters(benchmarks)
        s  == job[j].clusters
    IN  /\ job[j].pc # "idle" => job[j].op = "reconcile"
        /\ \A i \in DOMAIN job[j].tasks : job[j].tasks[i].pc = "end"
        /\ job[j].pc = "read" =>
              /\ \A h, i \in DOMAIN s : s[h][1] = s[i][1] => h = i
              /\ \A n \in DOMAIN cs : \E i \in DOMAIN s : s[i][1] = n
              /\ \A i \in DOMAIN s :
                    /\ s[i][1] \in DOMAIN cs
                    /\ Unchanged("reconcile", job[j].seen[s[i]], s[i][2], cs[s[i][1]])

KeptInv ==
    epoch.clean = "config" /\ epoch.matched =>
        /\ AsConfigured
        /\ \A k \in Mine : Status(k) # "STOPPING"
        /\ \A j \in Jobs : KeptJob(j)


-----------------------------------------------------------------------------
(* Clusters and what is wanted.                                            *)

LEMMA ConfigNodes == \A c \in Configs : c.nodes \in Int /\ c # Absent
<1>1. ASSUME NEW f \in Files \cup {<<>>}
      PROVE  clusterConfigForBenchmark(f).nodes \in Int
  <2> DEFINE d == defaultConfig
  <2>1. "nodes" \in DOMAIN d /\ d["nodes"] = 1
    BY DEF defaultConfig
  <2> HIDE DEF d
  <2>2. clusterConfigForBenchmark(f) =
          [x \in DOMAIN d |-> IF x \in DOMAIN f THEN f[x] ELSE d[x]]
    BY DEF clusterConfigForBenchmark, d
  <2>3. clusterConfigForBenchmark(f)["nodes"] = IF "nodes" \in DOMAIN f THEN f["nodes"] ELSE 1
    BY <2>1, <2>2
  <2>4. "nodes" \in DOMAIN f => f["nodes"] \in Int
    BY PerfAssumption
  <2> QED
    BY <2>3, <2>4
<1> QED
  BY <1>1, AbsentAssumption DEF Configs

LEMMA ClusterPresent ==
  ASSUME NEW c \in Configs, NEW s \in Statuses
  PROVE  /\ ClusterOf(c, s) # Absent /\ ClusterOf(c, s).status = s
         /\ ClusterOf(c, s).CurrentNodeCount = ClusterOf(c, "").CurrentNodeCount
  BY AbsentAssumption DEF ClusterOf

LEMMA KeyFacts ==
  /\ \A k \in OwnKeys : k \in Keys /\ k[1] \in OwnNames /\ k = <<k[1], k[2]>> /\ k[2] \in Locations
  /\ \A n \in OwnNames, l \in Locations : <<n, l>> \in OwnKeys
  BY DEF OwnKeys, Keys, OwnNames

LEMMA MineFacts ==
  ASSUME OwnInv
  PROVE  /\ \A k \in Mine : /\ k \in OwnKeys /\ gke[k] # Absent /\ Status(k) = gke[k].status
                            /\ Status(k) \in Statuses
         /\ \A k \in OwnKeys : k \notin Mine => gke[k] = Absent /\ Status(k) = "NONE"
<1>1. ASSUME NEW k \in Mine
      PROVE  k \in OwnKeys /\ gke[k] # Absent /\ Status(k) = gke[k].status /\ Status(k) \in Statuses
  <2>1. k \in OwnKeys /\ gke[k] # Absent /\ gke[k] \in Seen
    BY DEF Mine, OwnKeys, OwnInv
  <2>2. gke[k].status \in Statuses
    BY <2>1 DEF Seen, ClusterOf
  <2> QED
    BY <2>1, <2>2 DEF Status
<1> QED
  BY <1>1 DEF Mine, OwnKeys, Status

LEMMA WantedFacts ==
  ASSUME OwnInv, NEW n \in DOMAIN Wanted
  PROVE  /\ n \in OwnNames /\ Wanted[n] \in Configs /\ WantedConfig(n) = Wanted[n]
         /\ WantedConfig(n) # Absent /\ Wanted[n].location \in Locations
<1>1. epoch.clean # "empty" /\ Wanted = benchmarkClusters(benchmarks)
  BY DEF Wanted
<1>2. n \in Names /\ clusterBelongsToRepo(n) /\ Wanted[n] \in Configs
  BY <1>1, ConfigsOfBenchmarks
<1> QED
  BY <1>2, ConfigNodes, ConfigType DEF OwnNames, WantedConfig

LEMMA SameWanted ==
  ASSUME epoch'.clean = epoch.clean, benchmarks' = benchmarks
  PROVE  /\ Wanted' = Wanted /\ \A n : WantedConfig(n)' = WantedConfig(n)
         /\ \A k : InPlace(k)' <=> InPlace(k)
<1>1. Wanted' = Wanted
  BY DEF Wanted
<1> QED
  BY <1>1 DEF WantedConfig, InPlace

LEMMA SameClusters ==
  ASSUME epoch'.clean = epoch.clean, benchmarks' = benchmarks, gke' = gke
  PROVE  /\ Mine' = Mine /\ \A k : Status(k)' = Status(k) /\ (Sized(k)' <=> Sized(k))
         /\ \A n : (AtHome(n)' <=> AtHome(n)) /\ (Right(n)' <=> Right(n))
<1>1. Mine' = Mine /\ Wanted' = Wanted /\ \A k : InPlace(k)' <=> InPlace(k)
  BY SameWanted DEF Mine
<1>2. \A k : Status(k)' = Status(k) /\ (Sized(k)' <=> Sized(k))
  BY <1>1 DEF Status, Sized
<1>3. \A n : AtHome(n)' <=> AtHome(n)
  BY <1>1 DEF AtHome
<1> QED
  BY <1>1, <1>2, <1>3 DEF Right

-----------------------------------------------------------------------------
(* What a goroutine becomes.                                               *)

\* Goroutine i of job j becomes u, and nothing else changes in any job.
Frame(j, i, u) ==
    /\ \A h \in Jobs : /\ job'[h].pc = job[h].pc /\ job'[h].op = job[h].op
                       /\ job'[h].clusters = job[h].clusters /\ job'[h].seen = job[h].seen
                       /\ DOMAIN job'[h].tasks = DOMAIN job[h].tasks
    /\ \A h \in Jobs : \A g \in DOMAIN job[h].tasks :
          job'[h].tasks[g] = IF h = j /\ g = i THEN u ELSE job[h].tasks[g]

LEMMA BecomeFrame ==
  ASSUME OwnInv, NEW j \in Jobs, NEW i \in DOMAIN job[j].tasks, NEW u, Become(j, i, u)
  PROVE  Frame(j, i, u)
<1>1. job[j] \in OwnJob /\ job[j].tasks \in Seq(OwnTask)
  BY DEF OwnInv, OwnJob
<1> DEFINE ts == [job[j].tasks EXCEPT ![i] = u]
           x  == [job[j] EXCEPT !.tasks = ts]
<1>2. job' = [job EXCEPT ![j] = x]
  BY <1>1 DEF Become, OwnInv
<1>3. /\ DOMAIN ts = DOMAIN job[j].tasks
      /\ \A g \in DOMAIN job[j].tasks : ts[g] = IF g = i THEN u ELSE job[j].tasks[g]
  BY <1>1
<1> HIDE DEF ts
<1>4. /\ x.pc = job[j].pc /\ x.op = job[j].op /\ x.clusters = job[j].clusters
      /\ x.seen = job[j].seen /\ x.tasks = ts
  BY <1>1 DEF OwnJob
<1> HIDE DEF x
<1>5. \A h \in Jobs : job'[h] = IF h = j THEN x ELSE job[h]
  BY <1>2 DEF OwnInv
<1> QED
  BY <1>3, <1>4, <1>5 DEF Frame

LEMMA EndedFacts ==
  ASSUME NEW t \in OwnTask, NEW err \in BOOLEAN
  PROVE  Ended(t, err).pc = "end" /\ Ended(t, err).err = err
  BY DEF Ended, OwnTask

\* u is at the same cluster as t.
SameAt(t, u) == u.at = t.at /\ u.config = t.config /\ u.err = t.err

Failed(u) == u.pc = "end" /\ u.err

LEMMA GoFacts ==
  ASSUME NEW t \in OwnTask, NEW pc
  PROVE  [t EXCEPT !.pc = pc].pc = pc /\ SameAt(t, [t EXCEPT !.pc = pc])
  BY DEF OwnTask, SameAt

LEMMA RetryFacts ==
  ASSUME NEW t \in OwnTask
  PROVE  Failed(Retry(t)) \/ (Retry(t).pc = "create" /\ SameAt(t, Retry(t)))
<1>1. CASE t.tries < retryTimes
  BY <1>1 DEF Retry, SameAt, OwnTask
<1>2. CASE ~(t.tries < retryTimes)
  BY <1>2, EndedFacts DEF Retry, Failed
<1> QED
  BY <1>1, <1>2

LEMMA DeleteAgainFacts ==
  ASSUME NEW t \in OwnTask
  PROVE  LET u == DeleteAgain(t) IN
         \/ Failed(u)
         \/ SameAt(t, u) /\ IF t.pc \in {"delete", "waitDelete"} THEN u.pc = "delete"
                                                               ELSE u.pc \in {"cleanup", "create"}
<1>1. CASE t.dtries + 1 < retryTimes
  <2> DEFINE pc == IF t.pc \in {"delete", "waitDelete"} THEN "delete" ELSE "cleanup"
             n  == t.dtries + 1
             u  == [t EXCEPT !.dtries = n, !.pc = pc]
  <2>1. DeleteAgain(t) = u
    BY <1>1 DEF DeleteAgain
  <2> HIDE DEF pc, n
  <2>2. SameAt(t, u) /\ u.pc = pc
    BY DEF SameAt, OwnTask
  <2> HIDE DEF u
  <2> QED
    BY <2>1, <2>2 DEF pc
<1>2. CASE ~(t.dtries + 1 < retryTimes)
  BY <1>2, EndedFacts, RetryFacts DEF DeleteAgain, Failed
<1> QED
  BY <1>1, <1>2

LEMMA AfterDeleteFacts ==
  ASSUME NEW t \in OwnTask
  PROVE  LET u == AfterDelete(t) IN
         \/ t.config = Absent /\ u.pc = "end" /\ ~u.err
         \/ t.config # Absent /\ Failed(u)
         \/ /\ t.config # Absent /\ u.pc = "create" /\ u.err = t.err /\ u.config = t.config
            /\ u.at = <<t.at[1], t.config.location>>
<1>1. CASE t.config = Absent
  BY <1>1, EndedFacts DEF AfterDelete
<1>2. CASE t.config # Absent /\ BadRequest(t.config)
  BY <1>2, EndedFacts DEF AfterDelete, Created, Failed
<1>3. CASE t.config # Absent /\ ~BadRequest(t.config)
  <2> DEFINE at == <<t.at[1], t.config.location>>
             u  == [t EXCEPT !.pc = "create", !.at = at, !.dtries = 0]
  <2>1. AfterDelete(t) = u
    BY <1>3 DEF AfterDelete, Created
  <2> HIDE DEF at
  <2>2. u.pc = "create" /\ u.err = t.err /\ u.config = t.config /\ u.at = at
    BY DEF OwnTask
  <2> HIDE DEF u
  <2> QED
    BY <1>3, <2>1, <2>2 DEF at
<1> QED
  BY <1>1, <1>2, <1>3

-----------------------------------------------------------------------------
(* The steps of a goroutine, by what becomes of it.                        *)

\* It goes on at the same cluster.
GoesOn(t, u) ==
    /\ SameAt(t, u)
    /\ IF t.pc \in {"delete", "waitDelete"} THEN u.pc = "delete"
                                            ELSE u.pc \in {"create", "get", "cleanup"}

\* It has done what it was to do.
Done(t, u) ==
    /\ u.pc = "end" /\ ~u.err
    /\ \/ t.pc = "waitCreate"
       \/ t.pc = "waitDelete" /\ t.config = Absent /\ Status(t.at) # "STOPPING"

\* It has deleted the cluster, and creates it where it is to be.
Recreates(t, u) ==
    /\ t.pc = "waitDelete" /\ t.config # Absent /\ Status(t.at) # "STOPPING"
    /\ u.pc = "create" /\ u.err = t.err /\ u.config = t.config
    /\ u.at = <<t.at[1], t.config.location>>

Moves(t, u) == t.pc # "end" /\ (Failed(u) \/ GoesOn(t, u) \/ Done(t, u) \/ Recreates(t, u))

LEMMA MovesFacts ==
  ASSUME OwnInv, NEW j \in Jobs, NEW i,
         \/ Deleted(j, i) \/ DeleteFails(j, i) \/ CreateDone(j, i) \/ CreateFails(j, i)
         \/ GetAfterFailure(j, i)
  PROVE  /\ gke' = gke /\ benchmarks' = benchmarks /\ epoch' = epoch
         /\ i \in DOMAIN job[j].tasks /\ job[j].tasks[i] \in OwnTask
         /\ \E u : Moves(job[j].tasks[i], u) /\ Become(j, i, u)
<1> DEFINE t == job[j].tasks[i]
<1>1. /\ gke' = gke /\ benchmarks' = benchmarks /\ epoch' = epoch
      /\ \E pcs : At(j, i, pcs)
  BY DEF Deleted, DeleteFails, CreateDone, CreateFails, GetAfterFailure
<1>2. i \in DOMAIN job[j].tasks /\ t \in OwnTask
  BY <1>1, TaskType
<1> SUFFICES \E u : Moves(t, u) /\ Become(j, i, u)
  BY <1>1, <1>2
<1>3. CASE Deleted(j, i)
  <2>1. /\ t.pc \in {"waitDelete", "waitCleanup"} /\ Status(t.at) # "STOPPING"
        /\ Become(j, i, IF t.pc = "waitDelete" THEN AfterDelete(t) ELSE Retry(t))
    BY <1>3 DEF Deleted, At
  <2> HIDE DEF t
  <2>2. CASE t.pc = "waitDelete"
    BY <1>2, <2>1, <2>2, AfterDeleteFacts DEF Moves, Done, Recreates
  <2>3. CASE t.pc = "waitCleanup"
    BY <1>2, <2>1, <2>3, RetryFacts DEF Moves, GoesOn
  <2> QED
    BY <2>1, <2>2, <2>3
<1>4. CASE DeleteFails(j, i)
  <2>1. t.pc \in {"delete", "waitDelete", "cleanup", "waitCleanup"} /\ Become(j, i, DeleteAgain(t))
    BY <1>4 DEF DeleteFails, At
  <2> HIDE DEF t
  <2> QED
    BY <1>2, <2>1, DeleteAgainFacts DEF Moves, GoesOn
<1>5. CASE CreateDone(j, i)
  <2>1. t.pc = "waitCreate" /\ Become(j, i, Ended(t, FALSE))
    BY <1>5 DEF CreateDone, At
  <2> HIDE DEF t
  <2> QED
    BY <1>2, <2>1, EndedFacts DEF Moves, Done
<1>6. CASE CreateFails(j, i)
  <2> DEFINE n == t.tries + 1
             u == [t EXCEPT !.pc = "get", !.tries = n]
  <2>1. t.pc \in {"create", "waitCreate"} /\ (Become(j, i, Ended(t, TRUE)) \/ Become(j, i, u))
    BY <1>6 DEF CreateFails, At
  <2> HIDE DEF t, n
  <2>2. u.pc = "get" /\ SameAt(t, u)
    BY <1>2 DEF OwnTask, SameAt
  <2> HIDE DEF u
  <2> QED
    BY <1>2, <2>1, <2>2, EndedFacts DEF Moves, GoesOn, Failed
<1>7. CASE GetAfterFailure(j, i)
  <2> DEFINE u == [t EXCEPT !.pc = "cleanup"]
  <2>1. t.pc = "get" /\ (Become(j, i, u) \/ Become(j, i, Retry(t)))
    BY <1>7 DEF GetAfterFailure, At, Go
  <2> HIDE DEF t
  <2>2. u.pc = "cleanup" /\ SameAt(t, u)
    BY <1>2, GoFacts
  <2> HIDE DEF u
  <2> QED
    BY <1>2, <2>1, <2>2, RetryFacts DEF Moves, GoesOn
<1> QED
  BY <1>3, <1>4, <1>5, <1>6, <1>7

\* A deletion or a creation that GKE accepts.
LEMMA DeleteFacts ==
  ASSUME OwnInv, NEW j \in Jobs, NEW i, Delete(j, i)
  PROVE  LET t == job[j].tasks[i] IN
         /\ i \in DOMAIN job[j].tasks /\ t \in OwnTask /\ t.at \in Mine
         /\ t.pc \in {"delete", "cleanup"}
         /\ gke' = [gke EXCEPT ![t.at].status = "STOPPING"]
         /\ benchmarks' = benchmarks /\ epoch' = epoch
         /\ \E u : /\ SameAt(t, u) /\ Become(j, i, u)
                   /\ u.pc = IF t.pc = "delete" THEN "waitDelete" ELSE "waitCleanup"
<1> DEFINE t == job[j].tasks[i]
           pc == IF t.pc = "delete" THEN "waitDelete" ELSE "waitCleanup"
           u == [t EXCEPT !.pc = pc]
<1>1. /\ At(j, i, {"delete", "cleanup"}) /\ t.pc \in {"delete", "cleanup"} /\ Deletable(t.at)
      /\ gke' = [gke EXCEPT ![t.at].status = "STOPPING"]
      /\ benchmarks' = benchmarks /\ epoch' = epoch /\ Become(j, i, u)
  BY DEF Delete, At, Go
<1>2. i \in DOMAIN job[j].tasks /\ t \in OwnTask /\ t.at \in OwnKeys
  BY <1>1, TaskType
<1> HIDE DEF t
<1>3. t.at \in Mine
  BY <1>1, <1>2, MineFacts DEF Deletable
<1> HIDE DEF pc
<1>4. u.pc = pc /\ SameAt(t, u)
  BY <1>2, GoFacts
<1> HIDE DEF u
<1> QED
  BY <1>1, <1>2, <1>3, <1>4 DEF t, pc

LEMMA CreateFacts ==
  ASSUME OwnInv, NEW j \in Jobs, NEW i, Create(j, i)
  PROVE  LET t == job[j].tasks[i] IN
         /\ i \in DOMAIN job[j].tasks /\ t \in OwnTask /\ t.at \in OwnKeys /\ t.at \notin Mine
         /\ t.pc = "create"
         /\ gke' = [gke EXCEPT ![t.at] = ClusterOf(t.config, "PROVISIONING")]
         /\ benchmarks' = benchmarks /\ epoch' = epoch
         /\ \E u : SameAt(t, u) /\ Become(j, i, u) /\ u.pc = "waitCreate"
<1> DEFINE t == job[j].tasks[i]
           u == [t EXCEPT !.pc = "waitCreate"]
<1>1. /\ At(j, i, {"create"}) /\ t.pc = "create" /\ gke[t.at] = Absent
      /\ gke' = [gke EXCEPT ![t.at] = ClusterOf(t.config, "PROVISIONING")]
      /\ benchmarks' = benchmarks /\ epoch' = epoch /\ Become(j, i, u)
  BY DEF Create, At, Go
<1>2. i \in DOMAIN job[j].tasks /\ t \in OwnTask /\ t.at \in OwnKeys
  BY <1>1, TaskType
<1> HIDE DEF t
<1>3. t.at \notin Mine
  BY <1>1 DEF Mine
<1>4. u.pc = "waitCreate" /\ SameAt(t, u)
  BY <1>2, GoFacts
<1> HIDE DEF u
<1> QED
  BY <1>1, <1>2, <1>3, <1>4 DEF t

-----------------------------------------------------------------------------
(* What GKE has after a step.                                              *)

\* A cluster of the repository gets another status.
LEMMA StatusStep ==
  ASSUME OwnInv, PlacedInv, NEW k \in Mine, NEW s \in Statuses, benchmarks' = benchmarks,
         gke' = [gke EXCEPT ![k].status = s]
  PROVE  /\ Mine' = Mine /\ Status(k)' = s
         /\ \A l \in OwnKeys : l # k => Status(l)' = Status(l) /\ gke'[l] = gke[l]
         /\ \A l \in Mine : Placed(l)'
         /\ epoch'.clean = epoch.clean => \A l \in Mine : Sized(l)' <=> Sized(l)
         /\ \A l \in Mine : gke'[l].CurrentNodeCount = gke[l].CurrentNodeCount
<1>1. k \in Keys /\ gke[k] # Absent /\ clusterBelongsToRepo(k[1]) /\ Mine \subseteq OwnKeys
  BY DEF Mine, OwnKeys
<1>2. PICK c \in Configs, r \in Statuses : c.location = k[2] /\ gke[k] = ClusterOf(c, r)
  BY DEF PlacedInv, Placed
<1>3. [gke[k] EXCEPT !.status = s] = ClusterOf(c, s)
  BY <1>2 DEF ClusterOf
<1>4. /\ ClusterOf(c, s) # Absent /\ ClusterOf(c, s).status = s
      /\ ClusterOf(c, s).CurrentNodeCount = gke[k].CurrentNodeCount
  <2>1. ClusterOf(c, r).CurrentNodeCount = ClusterOf(c, "").CurrentNodeCount
    BY ClusterPresent
  <2> QED
    BY <1>2, <2>1, ClusterPresent
<1>5. \A l \in Keys : gke'[l] = IF l = k THEN ClusterOf(c, s) ELSE gke[l]
  BY <1>1, <1>3 DEF OwnInv
<1>6. Mine' = Mine
  BY <1>1, <1>4, <1>5 DEF Mine
<1>7. Status(k)' = s
  BY <1>1, <1>4, <1>5 DEF Status
<1>8. \A l \in OwnKeys : l # k => Status(l)' = Status(l) /\ gke'[l] = gke[l]
  BY <1>5 DEF Status, OwnKeys
<1>9. epoch'.clean = epoch.clean => \A l \in Mine : Sized(l)' <=> Sized(l)
  BY <1>1, <1>4, <1>5, SameWanted DEF Sized, OwnKeys
<1>10. \A l \in Mine : Placed(l)'
  BY <1>1, <1>2, <1>5 DEF PlacedInv, Placed, OwnKeys
<1>11. \A l \in Mine : gke'[l].CurrentNodeCount = gke[l].CurrentNodeCount
  BY <1>1, <1>4, <1>5 DEF OwnKeys
<1> QED
  BY <1>6, <1>7, <1>8, <1>9, <1>10, <1>11

\* A cluster is gone.
LEMMA GoneStep ==
  ASSUME OwnInv, PlacedInv, NEW k \in Mine, gke' = [gke EXCEPT ![k] = Absent],
         benchmarks' = benchmarks, epoch'.clean = epoch.clean
  PROVE  /\ Mine' = Mine \ {k} /\ Status(k)' = "NONE"
         /\ \A l \in OwnKeys : l # k => Status(l)' = Status(l) /\ gke'[l] = gke[l]
         /\ \A l \in Mine' : (Sized(l)' <=> Sized(l)) /\ Placed(l)'
<1>1. k \in Keys /\ Mine \subseteq OwnKeys
  BY DEF Mine, OwnKeys
<1>2. \A l \in Keys : gke'[l] = IF l = k THEN Absent ELSE gke[l]
  BY <1>1 DEF OwnInv
<1>3. Mine' = Mine \ {k} /\ Status(k)' = "NONE"
  BY <1>1, <1>2 DEF Mine, Status
<1>4. \A l \in OwnKeys : l # k => Status(l)' = Status(l) /\ gke'[l] = gke[l]
  BY <1>2 DEF Status, OwnKeys
<1>5. \A l \in Mine' : (Sized(l)' <=> Sized(l)) /\ Placed(l)'
  BY <1>1, <1>2, <1>3, SameWanted DEF Sized, OwnKeys, PlacedInv, Placed
<1> QED
  BY <1>3, <1>4, <1>5

\* A cluster is created.
LEMMA NewStep ==
  ASSUME OwnInv, PlacedInv, NEW k \in OwnKeys, k \notin Mine, NEW c \in Configs,
         c.location = k[2], benchmarks' = benchmarks, epoch'.clean = epoch.clean,
         gke' = [gke EXCEPT ![k] = ClusterOf(c, "PROVISIONING")]
  PROVE  /\ Mine' = Mine \cup {k} /\ Status(k)' = "PROVISIONING"
         /\ \A l \in OwnKeys : l # k => Status(l)' = Status(l) /\ gke'[l] = gke[l]
         /\ \A l \in Mine : Sized(l)' <=> Sized(l)
         /\ \A l \in Mine' : Placed(l)'
         /\ gke'[k].CurrentNodeCount = ClusterOf(c, "").CurrentNodeCount
<1>1. k \in Keys /\ Mine \subseteq OwnKeys /\ "PROVISIONING" \in Statuses
  BY DEF Mine, OwnKeys, Statuses, Busy
<1> DEFINE new == ClusterOf(c, "PROVISIONING")
<1>2. /\ new # Absent /\ new.status = "PROVISIONING"
      /\ new.CurrentNodeCount = ClusterOf(c, "").CurrentNodeCount
  BY <1>1, ClusterPresent
<1>3. \A l \in Keys : gke'[l] = IF l = k THEN new ELSE gke[l]
  BY <1>1 DEF OwnInv
<1>4. Mine' = Mine \cup {k} /\ Status(k)' = "PROVISIONING"
  <2> HIDE DEF new
  <2> QED
    BY <1>1, <1>2, <1>3 DEF Mine, Status, OwnKeys
<1>5. \A l \in OwnKeys : l # k => Status(l)' = Status(l) /\ gke'[l] = gke[l]
  BY <1>3 DEF Status, OwnKeys
<1>6. \A l \in Mine : Sized(l)' <=> Sized(l)
  BY <1>1, <1>3, SameWanted DEF Sized, OwnKeys
<1>7. \A l \in Mine' : Placed(l)'
  BY <1>1, <1>3, <1>4 DEF OwnKeys, PlacedInv, Placed
<1> QED
  BY <1>1, <1>2, <1>3, <1>4, <1>5, <1>6, <1>7

-----------------------------------------------------------------------------
(* What every job keeps.                                                   *)

\* Job j becomes x, and the others stay as they are.
LEMMA JobAt ==
  ASSUME OwnInv, NEW j \in Jobs, NEW x, job' = [job EXCEPT ![j] = x]
  PROVE  \A h \in Jobs : job'[h] = IF h = j THEN x ELSE job[h]
  BY DEF OwnInv

\* The jobs that are not at work have no goroutines.
LEMMA NoTasks ==
  ASSUME PlacedInv, NEW j \in Jobs, job[j].pc # "work"
  PROVE  DOMAIN job[j].tasks = {}
  BY DEF PlacedInv

LEMMA RestFacts == Rest.pc = "idle" /\ DOMAIN Rest.tasks = {}
  BY DEF Rest

\* What Start makes of a job.
LEMMA StartFacts ==
  ASSUME OwnInv, PlacedInv, NEW j \in Jobs, NEW f \in Flags, NEW e, Start(j, f, e)
  PROVE  \E op \in {"recreate", "reconcile", "delete"} :
         /\ job[j].pc = "idle" /\ gke' = gke /\ benchmarks' = benchmarks
         /\ job'[j].pc = "list" /\ job'[j].op = op /\ DOMAIN job'[j].tasks = {}
         /\ \A h \in Jobs \ {j} : job'[h] = job[h]
         /\ IF AllIdle
            THEN epoch'.clean # "no" =>
                    /\ Settled /\ epoch'.clean = Goal(op)
                    /\ epoch'.matched = (op = "reconcile" /\ AsConfigured)
            ELSE epoch'.clean # "no" =>
                    /\ epoch.clean = Goal(op) /\ epoch'.clean = epoch.clean
                    /\ epoch'.failed = epoch.failed
                    /\ epoch'.matched = (epoch.matched /\ op = "reconcile")
         /\ epoch' \in Epoch
<1> DEFINE op == CHOOSE o \in f : TRUE
           x  == [Rest EXCEPT !.pc = "list", !.op = op]
           a  == [clean |-> Goal(op), failed |-> {}, matched |-> op = "reconcile" /\ AsConfigured]
           b  == [epoch EXCEPT !.matched = @ /\ op = "reconcile"]
<1>1. op \in {"recreate", "reconcile", "delete"}
  <2>1. f # {}
    BY FS_EmptySet DEF Start
  <2>2. op \in f
    BY <2>1
  <2> QED
    BY <2>2, PerfAssumption
<1>2. /\ job[j].pc = "idle" /\ gke' = gke /\ benchmarks' = benchmarks
      /\ job' = [job EXCEPT ![j] = x]
      /\ epoch' = IF AllIdle /\ Settled THEN a
                  ELSE IF ~AllIdle /\ epoch.clean = Goal(op) THEN b ELSE NotClean
  BY DEF Start
<1> HIDE DEF op
<1>3. x.pc = "list" /\ x.op = op /\ DOMAIN x.tasks = {}
  BY DEF Rest
<1> HIDE DEF x
<1>4. /\ job'[j].pc = "list" /\ job'[j].op = op /\ DOMAIN job'[j].tasks = {}
      /\ \A h \in Jobs \ {j} : job'[h] = job[h]
  <2>1. \A h \in Jobs : job'[h] = IF h = j THEN x ELSE job[h]
    BY <1>2, JobAt
  <2> QED
    BY <1>3, <2>1
<1>5. Goal(op) \in {"config", "empty"}
  BY DEF Goal
<1>6. epoch \in Epoch
  BY DEF PlacedInv
<1>7. a \in Epoch /\ b \in Epoch /\ NotClean \in Epoch
  BY <1>5, <1>6 DEF Epoch, NotClean
<1>8. /\ a.clean = Goal(op) /\ a.matched = (op = "reconcile" /\ AsConfigured)
      /\ b.clean = epoch.clean /\ b.failed = epoch.failed
      /\ b.matched = (epoch.matched /\ op = "reconcile") /\ NotClean.clean = "no"
  BY <1>6 DEF Epoch, NotClean
<1> HIDE DEF a, b
<1>9. epoch' \in Epoch
  BY <1>2, <1>7
<1>10. IF AllIdle
       THEN epoch'.clean # "no" =>
               /\ Settled /\ epoch'.clean = Goal(op)
               /\ epoch'.matched = (op = "reconcile" /\ AsConfigured)
       ELSE epoch'.clean # "no" =>
               /\ epoch.clean = Goal(op) /\ epoch'.clean = epoch.clean
               /\ epoch'.failed = epoch.failed
               /\ epoch'.matched = (epoch.matched /\ op = "reconcile")
  BY <1>2, <1>8
<1> QED
  BY <1>1, <1>2, <1>4, <1>9, <1>10

\* A list of the clusters, each once.
LEMMA ListFacts ==
  ASSUME OwnInv, PlacedInv, NEW j \in Jobs, List(j)
  PROVE  \E s \in [1..Cardinality(Mine) -> Mine] :
         /\ \A k \in Mine : \E i \in DOMAIN s : s[i] = k
         /\ \A h, i \in DOMAIN s : s[h] = s[i] => h = i
         /\ job[j].pc = "list" /\ gke' = gke /\ benchmarks' = benchmarks /\ epoch' = epoch
         /\ job'[j].pc = "read" /\ job'[j].op = job[j].op /\ DOMAIN job'[j].tasks = {}
         /\ job'[j].clusters = s /\ \A k \in Mine : job'[j].seen[k] = gke[k]
         /\ \A h \in Jobs \ {j} : job'[h] = job[h]
<1> DEFINE seen == [k \in Keys |-> IF k \in Mine THEN gke[k] ELSE Absent]
<1>1. PICK s \in [1..Cardinality(Mine) -> Mine] :
        /\ \A k \in Mine : \E i \in DOMAIN s : s[i] = k
        /\ job' = [job EXCEPT ![j].pc = "read", ![j].clusters = s, ![j].seen = seen]
  BY DEF List
<1>2. Mine \in SUBSET Keys
  BY DEF Mine
<1>3. IsFiniteSet(Mine) /\ Cardinality(Mine) \in Nat
  BY <1>2, KeysFinite, FS_Subset, FS_CardinalityType
<1>4. \A h, i \in DOMAIN s : s[h] = s[i] => h = i
  <2> DEFINE n == Cardinality(Mine)
  <2>1. s \in Surjection(1..n, Mine)
    BY <1>1 DEF Surjection
  <2>2. IsFiniteSet(1..n) /\ Cardinality(1..n) = n
    BY <1>3, FS_Interval
  <2>3. s \in Injection(1..n, Mine)
    BY <2>1, <2>2, FS_SurjSameCardinalityImpliesInj
  <2> QED
    BY <1>1, <2>3 DEF Injection, IsInjective
<1> DEFINE x == [job[j] EXCEPT !.pc = "read", !.clusters = s, !.seen = seen]
<1>5. job' = [job EXCEPT ![j] = x]
  BY <1>1 DEF OwnInv
<1>6. job[j] \in OwnJob
  BY DEF OwnInv
<1>7. job[j].pc = "list" /\ gke' = gke /\ benchmarks' = benchmarks /\ epoch' = epoch
  BY DEF List
<1>8. DOMAIN job[j].tasks = {}
  BY <1>7, NoTasks
<1>9. \A k \in Mine : seen[k] = gke[k]
  BY <1>2
<1> HIDE DEF seen
<1>10. /\ x.pc = "read" /\ x.op = job[j].op /\ x.clusters = s /\ x.seen = seen
       /\ x.tasks = job[j].tasks
  BY <1>6 DEF OwnJob
<1> HIDE DEF x
<1>11. \A h \in Jobs : job'[h] = IF h = j THEN x ELSE job[h]
  BY <1>5, JobAt
<1>12. /\ job'[j].pc = "read" /\ job'[j].op = job[j].op /\ DOMAIN job'[j].tasks = {}
       /\ job'[j].clusters = s /\ \A k \in Mine : job'[j].seen[k] = gke[k]
       /\ \A h \in Jobs \ {j} : job'[h] = job[h]
  BY <1>8, <1>9, <1>10, <1>11
<1> WITNESS s \in [1..Cardinality(Mine) -> Mine]
<1> QED
  BY <1>1, <1>4, <1>7, <1>12

LEMMA GoroutineFacts ==
  ASSUME NEW pc, NEW at, NEW c
  PROVE  LET t == Goroutine(pc, at, c) IN t.pc = pc /\ t.at = at /\ t.config = c /\ ~t.err
  BY DEF Goroutine

\* The goroutines that Read starts: one for each listed cluster, and one for each
\* benchmark that is not among their names.
LEMMA ReadFacts ==
  ASSUME OwnInv, NEW j \in Jobs, Read(j)
  PROVE  LET s    == job[j].clusters
             op   == job[j].op
             cs   == benchmarkClusters(benchmarks)
             rest == DOMAIN cs \ {s[i][1] : i \in DOMAIN s}
             ts   == job'[j].tasks
         IN  /\ job[j].pc = "read" /\ gke' = gke /\ benchmarks' = benchmarks /\ epoch' = epoch
             /\ job'[j].pc = "work" /\ job'[j].op = op /\ s \in Seq(OwnKeys)
             /\ \A h \in Jobs \ {j} : job'[h] = job[h]
             /\ \A g \in DOMAIN ts :
                   \/ \E i \in DOMAIN s : ts[g] = ExistingTask(op, s, i, job[j].seen, cs)
                   \/ \E n \in rest : ts[g] = NewTask(op, n, cs[n])
             /\ \A i \in DOMAIN s : \E g \in DOMAIN ts :
                   ts[g] = ExistingTask(op, s, i, job[j].seen, cs)
             /\ \A n \in rest : \E g \in DOMAIN ts : ts[g] = NewTask(op, n, cs[n])
<1> DEFINE s == job[j].clusters
           op == job[j].op
           seen == job[j].seen
           cs == benchmarkClusters(benchmarks)
           rest == DOMAIN cs \ {s[i][1] : i \in DOMAIN s}
           a == [i \in DOMAIN s |-> ExistingTask(op, s, i, seen, cs)]
<1>1. PICK order \in [1..Cardinality(rest) -> rest] :
        /\ \A n \in rest : \E i \in DOMAIN order : order[i] = n
        /\ job' = [job EXCEPT ![j].pc = "work", ![j].clusters = <<>>,
                           ![j].seen = Rest.seen,
                           ![j].tasks = a \o [i \in DOMAIN order |->
                                                NewTask(op, order[i], cs[order[i]])]]
  BY DEF Read
<1> DEFINE b == [i \in DOMAIN order |-> NewTask(op, order[i], cs[order[i]])]
           ts == a \o b
           x == [job[j] EXCEPT !.pc = "work", !.clusters = <<>>, !.seen = Rest.seen,
                               !.tasks = ts]
<1>2. job[j] \in OwnJob /\ s \in Seq(OwnKeys)
  BY DEF OwnInv, OwnJob
<1>3. Cardinality(rest) \in Nat
  <2>1. rest \in SUBSET Names
    BY ConfigsOfBenchmarks
  <2> HIDE DEF rest
  <2> QED
    BY <2>1, PerfAssumption, FS_Subset, FS_CardinalityType
<1>4. job' = [job EXCEPT ![j] = x]
  BY <1>1 DEF OwnInv
<1>5. job[j].pc = "read" /\ gke' = gke /\ benchmarks' = benchmarks /\ epoch' = epoch
  BY DEF Read
<1> HIDE DEF rest, cs
<1>6. /\ DOMAIN s = 1..Len(s) /\ Len(s) \in Nat
      /\ \A i \in DOMAIN s : a[i] = ExistingTask(op, s, i, seen, cs)
      /\ a \in Seq({a[i] : i \in DOMAIN s}) /\ Len(a) = Len(s)
  <2>1. DOMAIN s = 1..Len(s) /\ Len(s) \in Nat
    BY <1>2
  <2>2. DOMAIN a = 1..Len(s) /\ \A i \in DOMAIN s : a[i] = ExistingTask(op, s, i, seen, cs)
    BY <2>1
  <2> HIDE DEF a
  <2>3. a \in [1..Len(s) -> {a[i] : i \in DOMAIN s}]
    BY <2>1, <2>2 DEF a
  <2> QED
    BY <2>1, <2>2, <2>3
<1> DEFINE m == Cardinality(rest)
<1>7. /\ DOMAIN order = 1..m /\ m \in Nat
      /\ \A i \in 1..m : b[i] = NewTask(op, order[i], cs[order[i]])
      /\ b \in Seq({b[i] : i \in 1..m}) /\ Len(b) = m
  <2>1. DOMAIN order = 1..m /\ m \in Nat
    BY <1>1, <1>3
  <2>2. DOMAIN b = 1..m /\ \A i \in 1..m : b[i] = NewTask(op, order[i], cs[order[i]])
    BY <2>1
  <2>3. b \in [1..m -> {b[i] : i \in 1..m}]
    BY <2>1, <2>2
  <2> HIDE DEF b, m
  <2> QED
    BY <2>1, <2>2, <2>3
<1> HIDE DEF a, b, m
<1>8. /\ DOMAIN ts = 1..(Len(s) + m)
      /\ \A g \in 1..Len(s) : ts[g] = a[g]
      /\ \A g \in 1..m : ts[Len(s) + g] = b[g]
  <2> DEFINE R == {a[i] : i \in DOMAIN s} \cup {b[i] : i \in 1..m}
  <2>1. a \in Seq(R) /\ b \in Seq(R)
    BY <1>6, <1>7
  <2> HIDE DEF R
  <2>2. /\ ts \in Seq(R) /\ Len(ts) = Len(a) + Len(b)
        /\ \A g \in 1..(Len(a) + Len(b)) :
              ts[g] = IF g <= Len(a) THEN a[g] ELSE b[g - Len(a)]
    BY <2>1, ConcatProperties
  <2> DEFINE p == Len(s)
  <2>3. p \in Nat /\ m \in Nat /\ Len(a) = p /\ Len(b) = m
    BY <1>6, <1>7
  <2> HIDE DEF p, ts
  <2>4. /\ \A g \in 1..p : g \in 1..(p + m) /\ g <= p
        /\ \A g \in 1..m : p + g \in 1..(p + m) /\ ~(p + g <= p) /\ (p + g) - p = g
    BY <2>3
  <2>5. DOMAIN ts = 1..(p + m)
    BY <2>2, <2>3
  <2>6. /\ \A g \in 1..p : ts[g] = a[g]
        /\ \A g \in 1..m : ts[p + g] = b[g]
    BY <2>2, <2>3, <2>4
  <2> QED
    BY <2>5, <2>6 DEF p
<1> HIDE DEF ts
<1>9. /\ x.pc = "work" /\ x.op = op /\ x.tasks = ts
  BY <1>2 DEF OwnJob
<1> HIDE DEF x
<1>10. /\ job'[j].pc = "work" /\ job'[j].op = op /\ job'[j].tasks = ts
       /\ \A h \in Jobs \ {j} : job'[h] = job[h]
  <2>1. \A h \in Jobs : job'[h] = IF h = j THEN x ELSE job[h]
    BY <1>4, JobAt
  <2> QED
    BY <1>9, <2>1
<1>11. ASSUME NEW g \in DOMAIN ts
       PROVE  \/ \E i \in DOMAIN s : ts[g] = ExistingTask(op, s, i, seen, cs)
              \/ \E n \in rest : ts[g] = NewTask(op, n, cs[n])
  <2>1. CASE g \in 1..Len(s)
    BY <1>6, <1>8, <2>1
  <2>2. CASE g \notin 1..Len(s)
    <3> DEFINE h == g - Len(s)
    <3>1. h \in 1..m /\ g = Len(s) + h
      <4> DEFINE p == Len(s)
      <4>1. p \in Nat /\ m \in Nat /\ g \in 1..(p + m) /\ g \notin 1..p /\ h = g - p
        BY <1>6, <1>7, <1>8, <1>11, <2>2
      <4> HIDE DEF p, h
      <4>2. h \in 1..m /\ g = p + h
        BY <4>1
      <4> QED
        BY <4>2 DEF p
    <3> HIDE DEF h
    <3>2. order[h] \in rest /\ ts[g] = NewTask(op, order[h], cs[order[h]])
      BY <1>1, <1>7, <1>8, <3>1
    <3> QED
      BY <3>2
  <2> QED
    BY <2>1, <2>2
<1>12. ASSUME NEW i \in DOMAIN s
       PROVE  \E g \in DOMAIN ts : ts[g] = ExistingTask(op, s, i, seen, cs)
  <2>1. i \in DOMAIN ts
    BY <1>6, <1>7, <1>8
  <2> QED
    BY <1>6, <1>8, <2>1
<1>13. ASSUME NEW n \in rest
       PROVE  \E g \in DOMAIN ts : ts[g] = NewTask(op, n, cs[n])
  <2>1. PICK h \in 1..m : order[h] = n
    BY <1>1, <1>7
  <2>2. Len(s) + h \in DOMAIN ts
    BY <1>6, <1>7, <1>8
  <2> QED
    BY <1>7, <1>8, <2>1, <2>2
<1> QED
  BY <1>2, <1>5, <1>10, <1>11, <1>12, <1>13 DEF rest, cs

LEMMA UncleanFacts ==
  ASSUME Unclean
  PROVE  epoch' \in Epoch /\ epoch'.clean = "no"
  BY DEF Unclean, NotClean, Epoch

\* An operation on a cluster of this name has ended with an error.
Harms(n) == epoch' = IF epoch.clean = "no" THEN NotClean
                     ELSE [epoch EXCEPT !.failed = @ \cup {n}]

LEMMA HarmsFacts ==
  ASSUME PlacedInv, NEW n \in Names, Harms(n)
  PROVE  /\ epoch' \in Epoch /\ epoch'.clean = epoch.clean
         /\ epoch.clean # "no" => /\ epoch'.matched = epoch.matched
                                  /\ epoch'.failed = epoch.failed \cup {n}
  BY DEF PlacedInv, Harms, NotClean, Epoch

\* GKE finishes something of this repository, or of another one.
LEMMA GkeFacts ==
  ASSUME OwnInv, NEW k \in Keys, Gke(k)
  PROVE  /\ job' = job /\ benchmarks' = benchmarks
         /\ \/ /\ k \in Mine /\ Status(k) = "STOPPING" /\ epoch' = epoch
               /\ gke' = [gke EXCEPT ![k] = Absent]
            \/ /\ k \in Mine /\ Status(k) = "PROVISIONING" /\ epoch' = epoch
               /\ gke' = [gke EXCEPT ![k].status = "RUNNING"]
            \/ /\ k \in Mine /\ Status(k) \in Busy /\ Harms(k[1])
               /\ gke' = [gke EXCEPT ![k].status = "ERROR"]
            \/ /\ \A l \in OwnKeys : gke'[l] = gke[l]
               /\ epoch' = epoch \/ Harms(k[1])
<1>1. job' = job /\ benchmarks' = benchmarks
  BY DEF Gke, Stopped, Provisioned, OperationFails
<1>2. Status(k) \in Busy /\ (epoch' = epoch \/ Harms(k[1]))
  BY DEF Gke, Stopped, Provisioned, OperationFails, Busy, Harms
<1>3. CASE k \in OwnKeys
  <2>1. k \in Mine
    BY <1>2, <1>3, MineFacts DEF Busy
  <2> QED
    BY <1>1, <1>2, <2>1 DEF Gke, Stopped, Provisioned, OperationFails, Harms
<1>4. CASE k \notin OwnKeys
  <2>1. \A l \in OwnKeys : gke'[l] = gke[l]
    BY <1>4 DEF Gke, Stopped, Provisioned, OperationFails, OwnInv, OwnKeys
  <2> QED
    BY <1>1, <1>2, <2>1
<1> QED
  BY <1>3, <1>4

\* Clusters of other repositories do not matter.
LEMMA SameOwn ==
  ASSUME OwnInv, \A l \in OwnKeys : gke'[l] = gke[l]
  PROVE  /\ Mine' = Mine
         /\ \A l \in OwnKeys : Status(l)' = Status(l)
         /\ \A l \in Mine : Placed(l)' <=> Placed(l)
<1>1. Mine' = Mine
  BY DEF Mine, OwnKeys
<1>2. \A l \in OwnKeys : Status(l)' = Status(l)
  BY DEF Status
<1>3. \A l \in Mine : l \in OwnKeys
  BY DEF Mine, OwnKeys
<1>4. \A l \in Mine : Placed(l)' <=> Placed(l)
  BY <1>3 DEF Placed
<1> QED
  BY <1>1, <1>2, <1>4

\* The configurations of the benchmarks' clusters are no surprise to the goroutines.
TasksPlaced ==
    \A j \in Jobs : /\ job[j].pc # "work" => DOMAIN job[j].tasks = {}
                    /\ \A i \in DOMAIN job[j].tasks : PlacedTask(job[j].tasks[i])

LEMMA PlacedFrame ==
  ASSUME PlacedInv, NEW j \in Jobs, NEW i \in DOMAIN job[j].tasks, NEW u, Frame(j, i, u),
         PlacedTask(u)
  PROVE  TasksPlaced'
<1>1. ASSUME NEW h \in Jobs, job'[h].pc # "work"
      PROVE  DOMAIN job'[h].tasks = {}
  BY <1>1 DEF PlacedInv, Frame
<1>2. ASSUME NEW h \in Jobs, NEW g \in DOMAIN job'[h].tasks
      PROVE  PlacedTask(job'[h].tasks[g])
  <2>1. g \in DOMAIN job[h].tasks
    BY <1>2 DEF Frame
  <2>2. job'[h].tasks[g] = IF h = j /\ g = i THEN u ELSE job[h].tasks[g]
    BY <2>1 DEF Frame
  <2>3. PlacedTask(job[h].tasks[g])
    BY <2>1 DEF PlacedInv
  <2> QED
    BY <2>2, <2>3
<1> QED
  BY <1>1, <1>2 DEF TasksPlaced

\* Only job j has other goroutines.
LEMMA PlacedJob ==
  ASSUME PlacedInv, NEW j \in Jobs, \A h \in Jobs \ {j} : job'[h] = job[h],
         job'[j].pc # "work" => DOMAIN job'[j].tasks = {},
         \A i \in DOMAIN job'[j].tasks : PlacedTask(job'[j].tasks[i])
  PROVE  TasksPlaced'
<1>1. ASSUME NEW h \in Jobs
      PROVE  /\ job'[h].pc # "work" => DOMAIN job'[h].tasks = {}
             /\ \A g \in DOMAIN job'[h].tasks : PlacedTask(job'[h].tasks[g])
  <2>1. CASE h = j
    BY <2>1
  <2>2. CASE h # j
    <3>1. job'[h] = job[h]
      BY <2>2
    <3> QED
      BY <3>1 DEF PlacedInv
  <2> QED
    BY <2>1, <2>2
<1> QED
  BY <1>1 DEF TasksPlaced

LEMMA InitPlaced == Init => PlacedInv
<1> SUFFICES ASSUME Init
             PROVE  PlacedInv
  OBVIOUS
<1>1. epoch \in Epoch
  BY DEF Init, Epoch, NotClean
<1>2. Mine = {}
  BY OthersAssumption DEF Init, Mine, clusterBelongsToRepo
<1>3. \A j \in Jobs : job[j] = Rest
  BY DEF Init
<1> QED
  BY <1>1, <1>2, <1>3, RestFacts DEF PlacedInv

\* The goroutine of a listed cluster, and of one whose name no earlier one has.
LEMMA ExistingPc ==
  ASSUME NEW op, NEW s, NEW i, NEW seen, NEW cs
  PROVE  LET t == ExistingTask(op, s, i, seen, cs)
         IN  t.pc \in {"end", "delete"} /\ t.at = s[i] /\ ~t.err
<1> DEFINE name == s[i][1]
           mine == name \in DOMAIN cs /\ \A h \in 1..(i - 1) : s[h][1] # name
           c    == IF mine THEN cs[name] ELSE Absent
           d    == IF op = "delete" THEN Absent ELSE c
<1>1. ExistingTask(op, s, i, seen, cs) \in
        {Goroutine("end", s[i], Absent), Goroutine("delete", s[i], d)}
  BY DEF ExistingTask
<1> HIDE DEF d
<1> QED
  BY <1>1, GoroutineFacts

LEMMA ExistingFacts ==
  ASSUME NEW op, NEW s, NEW i, NEW seen, NEW cs, \A h \in 1..(i - 1) : s[h][1] # s[i][1]
  PROVE  LET t == ExistingTask(op, s, i, seen, cs)
             c == IF s[i][1] \in DOMAIN cs THEN cs[s[i][1]] ELSE Absent
         IN  /\ t.at = s[i] /\ ~t.err
             /\ IF Unchanged(op, seen[s[i]], s[i][2], c) THEN t.pc = "end"
                ELSE t.pc = "delete" /\ t.config = IF op = "delete" THEN Absent ELSE c
<1> DEFINE c == IF s[i][1] \in DOMAIN cs THEN cs[s[i][1]] ELSE Absent
           d == IF op = "delete" THEN Absent ELSE c
           t == ExistingTask(op, s, i, seen, cs)
<1>1. t = IF Unchanged(op, seen[s[i]], s[i][2], c)
          THEN Goroutine("end", s[i], Absent) ELSE Goroutine("delete", s[i], d)
  BY DEF ExistingTask
<1> HIDE DEF t, d, c
<1>2. /\ t.at = s[i] /\ ~t.err
      /\ IF Unchanged(op, seen[s[i]], s[i][2], c) THEN t.pc = "end"
         ELSE t.pc = "delete" /\ t.config = d
  BY <1>1, GoroutineFacts
<1> QED
  BY <1>2 DEF t, d, c

LEMMA PlacedTaskStep ==
  ASSUME OwnInv, PlacedInv, NEW j \in Jobs, NEW i \in DOMAIN job[j].tasks,
         \/ Delete(j, i) \/ Deleted(j, i) \/ DeleteFails(j, i)
         \/ Create(j, i) \/ CreateDone(j, i) \/ CreateFails(j, i)
         \/ GetAfterFailure(j, i)
  PROVE  PlacedInv'
<1> DEFINE t == job[j].tasks[i]
<1>1. PlacedTask(t) /\ epoch \in Epoch /\ \A k \in Mine : Placed(k)
  BY DEF PlacedInv
<1>2. CASE Delete(j, i)
  <2>1. PICK u : SameAt(t, u) /\ Become(j, i, u) /\
                 u.pc = IF t.pc = "delete" THEN "waitDelete" ELSE "waitCleanup"
    BY <1>2, DeleteFacts
  <2>2. /\ t.at \in Mine /\ t.pc \in {"delete", "cleanup"} /\ epoch' = epoch
        /\ gke' = [gke EXCEPT ![t.at].status = "STOPPING"] /\ benchmarks' = benchmarks
    BY <1>2, DeleteFacts
  <2> HIDE DEF t
  <2>3. PlacedTask(u)
    BY <1>1, <2>1, <2>2 DEF PlacedTask, SameAt
  <2>4. TasksPlaced'
    BY <2>1, <2>3, BecomeFrame, PlacedFrame
  <2>5. "STOPPING" \in Statuses
    BY DEF Statuses, Busy
  <2>6. Mine' = Mine /\ \A l \in Mine : Placed(l)'
    BY <2>2, <2>5, StatusStep
  <2> QED
    BY <1>1, <2>2, <2>4, <2>6 DEF PlacedInv, TasksPlaced
<1>3. CASE Create(j, i)
  <2>1. PICK u : SameAt(t, u) /\ Become(j, i, u) /\ u.pc = "waitCreate"
    BY <1>3, CreateFacts
  <2>2. /\ t.at \in OwnKeys /\ t.at \notin Mine /\ t.pc = "create" /\ epoch' = epoch
        /\ gke' = [gke EXCEPT ![t.at] = ClusterOf(t.config, "PROVISIONING")]
        /\ benchmarks' = benchmarks
    BY <1>3, CreateFacts
  <2> HIDE DEF t
  <2>3. PlacedTask(u) /\ t.config \in Configs /\ t.config.location = t.at[2]
    BY <1>1, <2>1, <2>2 DEF PlacedTask, SameAt
  <2>4. TasksPlaced'
    BY <2>1, <2>3, BecomeFrame, PlacedFrame
  <2>5. \A l \in Mine' : Placed(l)'
    BY <2>2, <2>3, NewStep
  <2> QED
    BY <1>1, <2>2, <2>4, <2>5 DEF PlacedInv, TasksPlaced
<1>4. CASE ~Delete(j, i) /\ ~Create(j, i)
  <2>1. PICK u : Moves(t, u) /\ Become(j, i, u)
    BY <1>4, MovesFacts
  <2>2. gke' = gke /\ epoch' = epoch /\ t \in OwnTask
    BY <1>4, MovesFacts
  <2> HIDE DEF t
  <2>3. PlacedTask(u)
    <3>1. CASE Failed(u) \/ Done(t, u)
      BY <3>1 DEF Failed, Done, PlacedTask
    <3>2. CASE GoesOn(t, u)
      BY <1>1, <2>1, <3>2 DEF GoesOn, PlacedTask, SameAt, Moves
    <3>3. CASE Recreates(t, u)
      <4>1. t.config \in Configs
        BY <2>2, <3>3 DEF Recreates, OwnTask
      <4> QED
        BY <3>3, <4>1 DEF Recreates, PlacedTask
    <3> QED
      BY <2>1, <3>1, <3>2, <3>3 DEF Moves
  <2>4. TasksPlaced'
    BY <2>1, <2>3, BecomeFrame, PlacedFrame
  <2>5. Mine' = Mine /\ \A l \in Mine : Placed(l)'
    BY <1>1, <2>2, SameOwn
  <2> QED
    BY <1>1, <2>2, <2>4, <2>5 DEF PlacedInv, TasksPlaced
<1> QED
  BY <1>2, <1>3, <1>4

LEMMA PlacedStep ==
  ASSUME OwnInv, PlacedInv, [Next]_vars
  PROVE  PlacedInv'
<1>1. epoch \in Epoch /\ (\A k \in Mine : Placed(k)) /\ TasksPlaced
  BY DEF PlacedInv, TasksPlaced
<1>2. ASSUME gke' = gke, epoch' \in Epoch, TasksPlaced'
      PROVE  PlacedInv'
  <2>1. Mine' = Mine /\ \A l \in Mine : Placed(l)'
    BY <1>1, <1>2, SameOwn
  <2> QED
    BY <1>2, <2>1 DEF PlacedInv, TasksPlaced
<1>3. CASE UNCHANGED vars
  BY <1>1, <1>2, <1>3 DEF vars, TasksPlaced
<1>4. ASSUME NEW j \in Jobs, NEW f \in Flags, NEW e, Start(j, f, e)
      PROVE  PlacedInv'
  BY <1>2, <1>4, StartFacts, PlacedJob
<1>5. ASSUME NEW j \in Jobs, List(j)
      PROVE  PlacedInv'
  BY <1>1, <1>2, <1>5, ListFacts, PlacedJob
<1>6. ASSUME NEW j \in Jobs, Read(j)
      PROVE  PlacedInv'
  <2> DEFINE s == job[j].clusters
             cs == benchmarkClusters(benchmarks)
             rest == DOMAIN cs \ {s[i][1] : i \in DOMAIN s}
             ts == job'[j].tasks
  <2>1. /\ job'[j].pc = "work" /\ gke' = gke /\ epoch' = epoch
        /\ \A h \in Jobs \ {j} : job'[h] = job[h]
    BY <1>6, ReadFacts
  <2>2. ASSUME NEW g \in DOMAIN ts
        PROVE  PlacedTask(ts[g])
    <3>1. CASE \E i \in DOMAIN s : ts[g] = ExistingTask(job[j].op, s, i, job[j].seen, cs)
      BY <3>1, ExistingPc DEF PlacedTask
    <3>2. CASE \E n \in rest : ts[g] = NewTask(job[j].op, n, cs[n])
      <4>1. PICK n \in rest : ts[g] = NewTask(job[j].op, n, cs[n])
        BY <3>2
      <4>2. cs[n] \in Configs
        BY ConfigsOfBenchmarks
      <4> DEFINE t == NewTask(job[j].op, n, cs[n])
      <4>3. t.at = <<n, cs[n].location>> /\ t.config = cs[n]
        BY GoroutineFacts DEF NewTask
      <4> HIDE DEF t
      <4>4. PlacedTask(t)
        BY <4>2, <4>3 DEF PlacedTask
      <4> QED
        BY <4>1, <4>4 DEF t
    <3> QED
      BY <1>6, <3>1, <3>2, ReadFacts
  <2> QED
    BY <1>1, <1>2, <2>1, <2>2, PlacedJob
<1>7. ASSUME NEW j \in Jobs, Fails(j) \/ Finish(j) \/ Kill(j)
      PROVE  PlacedInv'
  <2>1. /\ job' = [job EXCEPT ![j] = Rest] /\ gke' = gke
        /\ Unclean \/ epoch' = epoch
    BY <1>7 DEF Fails, Finish, Kill
  <2>2. \A h \in Jobs : job'[h] = IF h = j THEN Rest ELSE job[h]
    BY <2>1, JobAt
  <2>3. TasksPlaced'
    BY <2>2, RestFacts, PlacedJob
  <2>4. epoch' \in Epoch
    BY <1>1, <2>1, UncleanFacts
  <2> QED
    BY <1>2, <2>1, <2>3, <2>4
<1>8. ASSUME NEW k \in Keys, Gke(k)
      PROVE  PlacedInv'
  <2>1. job' = job /\ benchmarks' = benchmarks /\ TasksPlaced'
    BY <1>1, <1>8, GkeFacts DEF TasksPlaced
  <2>2. "RUNNING" \in Statuses /\ "ERROR" \in Statuses /\ k[1] \in Names
    BY DEF Statuses, Keys
  <2>4. epoch' \in Epoch
    <3>1. epoch' = epoch \/ Harms(k[1])
      BY <1>8, GkeFacts
    <3> QED
      BY <1>1, <2>2, <3>1, HarmsFacts
  <2>3. \A l \in Mine' : Placed(l)'
    <3>1. CASE k \in Mine /\ gke' = [gke EXCEPT ![k] = Absent] /\ epoch' = epoch
      BY <2>1, <3>1, GoneStep
    <3>2. CASE \E s \in {"RUNNING", "ERROR"} : k \in Mine /\ gke' = [gke EXCEPT ![k].status = s]
      BY <2>1, <2>2, <3>2, StatusStep
    <3>3. CASE \A l \in OwnKeys : gke'[l] = gke[l]
      BY <1>1, <3>3, SameOwn
    <3> QED
      BY <1>8, <3>1, <3>2, <3>3, GkeFacts
  <2> QED
    BY <2>1, <2>3, <2>4 DEF PlacedInv, TasksPlaced
<1>9. ASSUME NEW b \in BenchmarkNames, ChangeBenchmark(b)
      PROVE  PlacedInv'
  <2>1. gke' = gke /\ job' = job /\ Unclean
    BY <1>9 DEF ChangeBenchmark
  <2> QED
    BY <1>1, <1>2, <2>1, UncleanFacts DEF TasksPlaced
<1> QED
  BY <1>3, <1>4, <1>5, <1>6, <1>7, <1>8, <1>9, PlacedTaskStep DEF Next, Step

-----------------------------------------------------------------------------
(* Clean jobs bring about what is wanted, or go on.                        *)

\* A benchmark that is as it is to be has no cluster that is being deleted.
LEMMA RightFacts ==
  ASSUME NEW n, Right(n), NEW k \in Mine, k[1] = n, k = <<k[1], k[2]>>
  PROVE  InPlace(k) /\ Status(k) # "STOPPING"
<1>1. InPlace(k)
  BY DEF Right, AtHome
<1> QED
  BY <1>1 DEF Right, InPlace

\* Clusters with an intact name have different names.
LEMMA NamesDistinct ==
  ASSUME OwnInv, \A n \in Intact : Found(n)
  PROVE  \A k, l \in Mine : k[1] = l[1] /\ k[1] \in Intact => k = l
<1> SUFFICES ASSUME NEW k \in Mine, NEW l \in Mine, k[1] = l[1], k[1] \in Intact
             PROVE  k = l
  OBVIOUS
<1>1. k = <<k[1], k[2]>> /\ l = <<l[1], l[2]>>
  BY MineFacts, KeyFacts
<1>2. CASE AtHome(k[1])
  BY <1>1, <1>2 DEF AtHome, InPlace
<1>3. CASE \E m \in Keys : Stays(k[1], m)
  BY <1>3 DEF Stays
<1> QED
  BY <1>1, <1>2, <1>3 DEF Found

\* A step after which the jobs are clean as before: what it must keep.
LEMMA CleanStep ==
  ASSUME OwnInv, OwnInv', ReconcileInv, epoch'.clean = epoch.clean, epoch.clean # "no",
         benchmarks' = benchmarks, Intact' \subseteq Intact,
         \A h \in Jobs : CleanJob(h)',
         \A h \in Jobs : job[h].pc \in {"list", "read"} =>
            /\ job'[h].pc = job[h].pc /\ job'[h].op = job[h].op
            /\ job'[h].clusters = job[h].clusters /\ job'[h].seen = job[h].seen,
         \A n \in Intact' : Tried(n) => Tried(n)' \/ Right(n)',
         \A n \in Intact' : AtHome(n) => AtHome(n)',
         \A n \in Intact', k \in Keys : Stays(n, k) => AtHome(n)' \/ Stays(n, k)',
         \A n \in Intact' : Right(n) => Right(n)' \/ Tried(n)',
         \A k \in Mine' : k[1] \in Intact' =>
            /\ Status(k)' = "PROVISIONING" => InPlace(k) /\ Sized(k)'
            /\ Status(k)' = "STOPPING" =>
                  Tried(k[1])' \/ (k \in Mine /\ Status(k) = "STOPPING")
  PROVE  ReconcileInv'
<1>1. /\ Wanted' = Wanted /\ \A n : WantedConfig(n)' = WantedConfig(n)
      /\ \A k : InPlace(k)' <=> InPlace(k)
  BY SameWanted
<1>2. ASSUME NEW k \in Mine', k[1] \in Intact'
      PROVE  CleanCluster(k)'
  <2>1. k \in OwnKeys /\ k[1] \in Intact /\ k = <<k[1], k[2]>>
    BY <1>2, KeyFacts DEF Mine, OwnKeys
  <2>2. ASSUME Status(k)' = "STOPPING", k \in Mine, Status(k) = "STOPPING"
        PROVE  Tried(k[1])'
    <3>1. Tried(k[1])
      BY <2>1, <2>2 DEF ReconcileInv, CleanCluster
    <3>2. ASSUME Right(k[1])'
          PROVE  FALSE
      BY <2>1, <2>2, <3>2 DEF Right, AtHome, InPlace
    <3> QED
      BY <1>2, <3>1, <3>2
  <2> QED
    BY <1>1, <1>2, <2>2 DEF CleanCluster
<1>3. ASSUME NEW n \in Intact'
      PROVE  Found(n)'
  BY DEF ReconcileInv, Found
<1>4. ASSUME NEW n \in Intact', NEW h \in Jobs, job[h].pc = "list" \/ Pending(h, n)
      PROVE  job'[h].pc = "list" \/ Pending(h, n)'
  <2>1. CASE job[h].pc = "list"
    BY <2>1
  <2>2. CASE Pending(h, n)
    <3>1. /\ job[h].pc = "read" /\ job'[h].pc = "read" /\ job'[h].op = job[h].op
          /\ job'[h].clusters = job[h].clusters /\ job'[h].seen = job[h].seen
      BY <2>2 DEF Pending
    <3>2. WantedConfig(n)' = WantedConfig(n) /\ DOMAIN Wanted' = DOMAIN Wanted
      BY <1>1
    <3>3. Pending(h, n)'
      BY <2>2, <3>1, <3>2 DEF Pending
    <3> QED
      BY <3>3
  <2> QED
    BY <1>4, <2>1, <2>2
<1>5. ASSUME NEW n \in Intact'
      PROVE  Cared(n)'
  <2>1. Right(n) \/ Tried(n) \/ \E h \in Jobs : job[h].pc = "list" \/ Pending(h, n)
    BY DEF ReconcileInv, Cared
  <2> QED
    BY <1>4, <2>1 DEF Cared
<1> QED
  BY <1>2, <1>3, <1>5 DEF ReconcileInv

-----------------------------------------------------------------------------
(* The steps of a goroutine.                                               *)

\* Goroutine i of job j becomes u: what is to be shown.
LEMMA CleanFrame ==
  ASSUME OwnInv, OwnInv', PlacedInv, ReconcileInv, epoch' = epoch, epoch.clean # "no",
         benchmarks' = benchmarks,
         NEW j \in Jobs, NEW i \in DOMAIN job[j].tasks, NEW t, t = job[j].tasks[i],
         NEW u, Frame(j, i, u), t.pc # "end",
         CleanTask(u)',
         \A k \in OwnKeys : k[1] \in Intact /\ Status(k) \in {"NONE", "STOPPING"} /\ ~InPlace(k) =>
                               Status(k)' \in {"NONE", "STOPPING"},
         \A n \in Intact : Trying(t, n) => Trying(u, n) \/ Right(n)',
         \A n \in Intact : AtHome(n) => AtHome(n)',
         \A n \in Intact, k \in Keys : Stays(n, k) =>
            AtHome(n)' \/ (StayTask(u, n, k) /\ k \in Mine' /\ \A l \in Mine' : l[1] = n => l = k),
         \A n \in Intact : Right(n) => Right(n)' \/ Trying(u, n),
         \A k \in Mine' : k[1] \in Intact =>
            /\ Status(k)' = "PROVISIONING" => InPlace(k) /\ Sized(k)'
            /\ Status(k)' = "STOPPING" =>
                  Trying(u, k[1]) \/ (k \in Mine /\ Status(k) = "STOPPING")
  PROVE  ReconcileInv'
<1>0. epoch'.clean = epoch.clean /\ Intact' = Intact
  BY DEF Intact, OwnNames
<1>1. /\ Wanted' = Wanted /\ \A n : WantedConfig(n)' = WantedConfig(n)
      /\ \A k : InPlace(k)' <=> InPlace(k)
  BY <1>0, SameWanted
<1>2. /\ \A h \in Jobs : /\ job'[h].pc = job[h].pc /\ job'[h].op = job[h].op
                         /\ job'[h].clusters = job[h].clusters /\ job'[h].seen = job[h].seen
                         /\ DOMAIN job'[h].tasks = DOMAIN job[h].tasks
      /\ \A h \in Jobs : \A g \in DOMAIN job[h].tasks :
            job'[h].tasks[g] = IF h = j /\ g = i THEN u ELSE job[h].tasks[g]
  BY DEF Frame
<1>3. ASSUME NEW h \in Jobs, NEW g \in DOMAIN job[h].tasks, NEW w, w = job'[h].tasks[g]
      PROVE  CleanTask(w)'
  <2>1. CASE h = j /\ g = i
    <3>1. w = u
      BY <1>2, <1>3, <2>1
    <3> QED
      BY <3>1
  <2>2. CASE ~(h = j /\ g = i)
    <3>1. w = job[h].tasks[g]
      BY <1>2, <1>3, <2>2
    <3>2. w \in OwnTask
      BY <3>1 DEF OwnInv, OwnJob
    <3>3. CleanTask(w) /\ w.at \in OwnKeys
      BY <3>1, <3>2 DEF ReconcileInv, CleanJob, OwnTask
    <3> QED
      BY <1>0, <1>1, <3>3 DEF CleanTask
  <2> QED
    BY <2>1, <2>2
<1>4. ASSUME NEW h \in Jobs
      PROVE  CleanJob(h)'
  <2>1. ASSUME NEW g \in DOMAIN job'[h].tasks
        PROVE  CleanTask(job[h].tasks[g])'
    <3>1. g \in DOMAIN job[h].tasks
      BY <1>2, <2>1
    <3>2. PICK w : w = job'[h].tasks[g]
      OBVIOUS
    <3>3. CleanTask(w)'
      BY <1>3, <3>1, <3>2
    <3> QED
      BY <3>2, <3>3 DEF CleanTask
  <2>2. /\ job[h].pc # "idle" => Goal(job[h].op) = epoch.clean
        /\ job[h].pc = "read" => \A a, b \in DOMAIN job[h].clusters :
              job[h].clusters[a][1] = job[h].clusters[b][1] /\ job[h].clusters[a][1] \in Intact
              => a = b
    BY DEF ReconcileInv, CleanJob
  <2>3. /\ job'[h].pc = job[h].pc /\ job'[h].op = job[h].op
        /\ job'[h].clusters = job[h].clusters
    BY <1>2
  <2> QED
    BY <1>0, <2>1, <2>2, <2>3 DEF CleanJob
<1>5. ASSUME NEW n \in Intact, Trying(u, n)
      PROVE  Tried(n)'
  <2>1. job'[j].tasks[i] = u /\ i \in DOMAIN job'[j].tasks
    BY <1>2
  <2> QED
    BY <1>5, <2>1 DEF Tried
<1>6. ASSUME NEW n \in Intact, Tried(n)
      PROVE  Tried(n)' \/ Right(n)'
  <2>1. PICK h \in Jobs : \E g \in DOMAIN job[h].tasks : Trying(job[h].tasks[g], n)
    BY <1>6 DEF Tried
  <2>2. PICK g \in DOMAIN job[h].tasks : Trying(job[h].tasks[g], n)
    BY <2>1
  <2>3. CASE h = j /\ g = i
    BY <1>5, <2>2, <2>3
  <2>4. CASE ~(h = j /\ g = i)
    <3>1. job'[h].tasks[g] = job[h].tasks[g] /\ g \in DOMAIN job'[h].tasks
      BY <1>2, <2>4
    <3> QED
      BY <2>2, <3>1 DEF Tried
  <2> QED
    BY <2>3, <2>4
<1>7. ASSUME NEW n \in Intact, NEW k \in Keys, Stays(n, k), ~AtHome(n)'
      PROVE  Stays(n, k)'
  <2>1. /\ StayTask(u, n, k) /\ k \in Mine' /\ \A l \in Mine' : l[1] = n => l = k
        /\ k[1] = n /\ ~InPlace(k)'
    BY <1>1, <1>7 DEF Stays
  <2>2. ASSUME NEW h \in Jobs
        PROVE  /\ job'[h].pc = "read" =>
                    /\ \E g \in DOMAIN job'[h].clusters : job'[h].clusters[g] = k
                    /\ \A g \in DOMAIN job'[h].clusters :
                          job'[h].clusters[g][1] = n => job'[h].clusters[g] = k
               /\ \A g \in DOMAIN job'[h].tasks : StayTask(job'[h].tasks[g], n, k)
    BY <1>2, <1>7, <2>1 DEF Stays
  <2> QED
    BY <2>1, <2>2 DEF Stays
<1>8. ASSUME NEW k \in Mine', k[1] \in Intact
      PROVE  /\ Status(k)' = "PROVISIONING" => InPlace(k) /\ Sized(k)'
             /\ Status(k)' = "STOPPING" => Tried(k[1])' \/ (k \in Mine /\ Status(k) = "STOPPING")
  BY <1>5, <1>8
<1>9. \A h \in Jobs : job[h].pc \in {"list", "read"} =>
            /\ job'[h].pc = job[h].pc /\ job'[h].op = job[h].op
            /\ job'[h].clusters = job[h].clusters /\ job'[h].seen = job[h].seen
  BY <1>2
<1>10. /\ \A n \in Intact : Tried(n) => Tried(n)' \/ Right(n)'
       /\ \A n \in Intact, k \in Keys : Stays(n, k) => AtHome(n)' \/ Stays(n, k)'
       /\ \A n \in Intact : Right(n) => Right(n)' \/ Tried(n)'
  BY <1>5, <1>6, <1>7
<1> QED
  BY <1>0, <1>4, <1>8, <1>9, <1>10, CleanStep

\* A cluster that has not changed.
LEMMA SameCluster ==
  ASSUME epoch'.clean = epoch.clean, benchmarks' = benchmarks, NEW l \in Keys, gke'[l] = gke[l]
  PROVE  (l \in Mine' <=> l \in Mine) /\ Status(l)' = Status(l) /\ (Sized(l)' <=> Sized(l))
<1>1. l \in Mine' <=> l \in Mine
  BY DEF Mine
<1>2. Status(l)' = Status(l)
  BY DEF Status
<1>3. Sized(l)' <=> Sized(l)
  BY SameWanted DEF Sized
<1> QED
  BY <1>1, <1>2, <1>3

\* Only clusters of other names have changed.
LEMMA SameName ==
  ASSUME OwnInv, epoch'.clean = epoch.clean, benchmarks' = benchmarks, NEW n,
         \A l \in OwnKeys : l[1] = n => gke'[l] = gke[l]
  PROVE  (AtHome(n)' <=> AtHome(n)) /\ (Right(n)' <=> Right(n))
<1>1. Wanted' = Wanted /\ \A k : InPlace(k)' <=> InPlace(k)
  BY SameWanted
<1>2. \A l : l \in Mine \/ l \in Mine' => l \in OwnKeys
  BY DEF Mine, OwnKeys
<1>3. ASSUME NEW l \in OwnKeys, l[1] = n
      PROVE  (l \in Mine' <=> l \in Mine) /\ Status(l)' = Status(l) /\ (Sized(l)' <=> Sized(l))
  BY <1>3, KeyFacts, SameCluster
<1>4. AtHome(n)' <=> AtHome(n)
  BY <1>1, <1>2, <1>3 DEF AtHome
<1>5. Right(n)' <=> Right(n)
  <2>1. CASE n \in DOMAIN Wanted
    <3>1. PICK k : k = <<n, Wanted[n].location>>
      OBVIOUS
    <3>2. k \in OwnKeys /\ k[1] = n
      BY <2>1, <3>1, WantedFacts, KeyFacts
    <3>3. (k \in Mine' <=> k \in Mine) /\ Status(k)' = Status(k) /\ (Sized(k)' <=> Sized(k))
      BY <1>3, <3>2
    <3> QED
      BY <1>1, <1>4, <3>1, <3>3 DEF Right
  <2>2. CASE n \notin DOMAIN Wanted
    BY <1>1, <1>4, <2>2 DEF Right
  <2> QED
    BY <2>1, <2>2
<1> QED
  BY <1>4, <1>5

\* Nothing is claimed of the name the goroutine works at, and it stays at that name.
LEMMA HarmedClean ==
  ASSUME OwnInv, OwnInv', PlacedInv, ReconcileInv, epoch' = epoch, epoch.clean # "no",
         benchmarks' = benchmarks,
         NEW j \in Jobs, NEW i \in DOMAIN job[j].tasks, NEW t, t = job[j].tasks[i],
         NEW u, Frame(j, i, u), t.pc # "end", t.at[1] \notin Intact,
         u.pc = "end" \/ (u.err = t.err /\ u.at[1] = t.at[1]),
         \A l \in OwnKeys : l[1] # t.at[1] => gke'[l] = gke[l]
  PROVE  ReconcileInv'
<1>1. CleanTask(t) /\ epoch'.clean = epoch.clean /\ Intact' = Intact
  BY DEF ReconcileInv, CleanJob, Intact, OwnNames
<1>2. ~t.err
  BY <1>1 DEF CleanTask
<1>3. CleanTask(u)'
  BY <1>1, <1>2 DEF CleanTask
<1>4. \A n \in Intact : ~Trying(t, n)
  BY <1>2 DEF Trying
<1>5. ASSUME NEW n \in Intact
      PROVE  (AtHome(n)' <=> AtHome(n)) /\ (Right(n)' <=> Right(n))
  <2>1. \A l \in OwnKeys : l[1] = n => gke'[l] = gke[l]
    BY <1>5
  <2> QED
    BY <1>1, <2>1, SameName
<1>6. ASSUME NEW l \in OwnKeys, l[1] \in Intact
      PROVE  /\ l \in Mine' <=> l \in Mine
             /\ Status(l)' = Status(l)
             /\ Sized(l)' <=> Sized(l)
  BY <1>1, <1>6, KeyFacts, SameCluster
<1>7. \A l : l \in Mine \/ l \in Mine' => l \in OwnKeys
  BY DEF Mine, OwnKeys
<1>8. ASSUME NEW n \in Intact, NEW k \in Keys, Stays(n, k)
      PROVE  StayTask(u, n, k) /\ k \in Mine' /\ \A l \in Mine' : l[1] = n => l = k
  <2>1. StayTask(u, n, k)
    BY <1>8 DEF StayTask
  <2>2. k \in Mine /\ k[1] = n /\ \A l \in Mine : l[1] = n => l = k
    BY <1>8 DEF Stays
  <2>3. k \in Mine'
    BY <1>6, <1>7, <2>2
  <2>4. ASSUME NEW l \in Mine', l[1] = n
        PROVE  l = k
    BY <1>6, <1>7, <2>2, <2>4
  <2> QED
    BY <2>1, <2>3, <2>4
<1>9. \A k \in OwnKeys : k[1] \in Intact => Status(k)' = Status(k)
  BY <1>6
<1>10. ASSUME NEW k \in Mine', k[1] \in Intact
       PROVE  /\ Status(k)' = "PROVISIONING" => InPlace(k) /\ Sized(k)'
              /\ Status(k)' = "STOPPING" => k \in Mine /\ Status(k) = "STOPPING"
  <2>1. k \in OwnKeys /\ k \in Mine /\ Status(k)' = Status(k) /\ (Sized(k)' <=> Sized(k))
    BY <1>6, <1>7, <1>10
  <2> QED
    BY <1>10, <2>1 DEF ReconcileInv, CleanCluster
<1> QED
  BY <1>3, <1>4, <1>5, <1>8, <1>9, <1>10, CleanFrame

LEMMA MovesClean ==
  ASSUME OwnInv, OwnInv', PlacedInv, ReconcileInv, epoch.clean # "no",
         NEW j \in Jobs, NEW i \in DOMAIN job[j].tasks, NEW t, t = job[j].tasks[i], t \in OwnTask,
         t.at[1] \in Intact, NEW u, Frame(j, i, u), Moves(t, u),
         gke' = gke, benchmarks' = benchmarks, epoch' = epoch
  PROVE  ReconcileInv'
<1>1. /\ Wanted' = Wanted /\ \A n : WantedConfig(n)' = WantedConfig(n)
      /\ \A k : InPlace(k)' <=> InPlace(k)
  BY SameWanted
<1>2. /\ Mine' = Mine /\ \A k : Status(k)' = Status(k) /\ (Sized(k)' <=> Sized(k))
      /\ \A n : (AtHome(n)' <=> AtHome(n)) /\ (Right(n)' <=> Right(n))
  BY SameClusters
<1>3. CleanTask(t) /\ t.pc # "end" /\ t.at \in OwnKeys /\ t.at[1] \in OwnNames
  BY KeyFacts DEF ReconcileInv, CleanJob, Moves, OwnTask
<1>. Intact' = Intact
  BY DEF Intact, OwnNames
<1>4. CASE Failed(u)
  <2>1. CleanTask(u)'
    BY <1>4 DEF Failed, CleanTask
  <2>2. \A n : Trying(u, n)
    BY <1>4 DEF Failed, Trying
  <2>3. \A n, k : StayTask(u, n, k)
    BY <1>4 DEF Failed, StayTask
  <2>4. \A k \in Mine' : k[1] \in Intact /\ Status(k)' = "PROVISIONING" => InPlace(k) /\ Sized(k)'
    BY <1>2 DEF ReconcileInv, CleanCluster
  <2>5. \A n, k : Stays(n, k) => k \in Mine' /\ \A l \in Mine' : l[1] = n => l = k
    BY <1>2 DEF Stays
  <2> QED
    BY <1>2, <1>3, <2>1, <2>2, <2>3, <2>4, <2>5, CleanFrame
<1>5. CASE ~Failed(u)
  <2>1. \A n, k : Stays(n, k) => /\ StayTask(t, n, k)
                                 /\ k \in Mine' /\ \A l \in Mine' : l[1] = n => l = k
    BY <1>2 DEF Stays
  <2>2. \A n : Trying(t, n) => t.at[1] = n /\ t.pc # "waitCreate"
    BY <1>3 DEF Trying, CleanTask
  \* Who has deleted a cluster knows that it is gone.
  <2>3. ASSUME t.pc = "waitDelete", Status(t.at) # "STOPPING"
        PROVE  AtHome(t.at[1])
    <3>1. ASSUME NEW k \in Keys, Stays(t.at[1], k)
          PROVE  FALSE
      <4>1. t.at = k /\ k \in Mine /\ ~InPlace(k)
        BY <1>3, <2>1, <3>1 DEF StayTask, Stays
      <4>2. Status(k) \in {"NONE", "STOPPING"} /\ Status(k) \in Statuses
        BY <1>3, <2>3, <4>1, MineFacts DEF CleanTask
      <4> QED
        BY <2>3, <4>1, <4>2 DEF Statuses, Busy
    <3> QED
      BY <1>3, <3>1 DEF ReconcileInv, Found
  <2>4. \A k \in Mine' : k[1] \in Intact /\ Status(k)' = "PROVISIONING" => InPlace(k) /\ Sized(k)'
    BY <1>2 DEF ReconcileInv, CleanCluster
  <2>5. CASE GoesOn(t, u)
    <3>1. CleanTask(u)'
      BY <1>1, <1>3, <2>5 DEF GoesOn, CleanTask, SameAt
    <3>2. \A n : Trying(t, n) => Trying(u, n)
      BY <2>2, <2>5 DEF GoesOn, SameAt, Trying
    <3>3. \A n, k : StayTask(t, n, k) => StayTask(u, n, k)
      BY <1>3, <2>5 DEF GoesOn, SameAt, StayTask
    <3> QED
      BY <1>2, <1>3, <2>1, <2>4, <3>1, <3>2, <3>3, CleanFrame
  <2>6. CASE Done(t, u)
    <3>1. CleanTask(u)'
      BY <2>6 DEF Done, CleanTask
    <3>2. ASSUME NEW n, Trying(t, n)
          PROVE  Right(n)
      <4>1. t.at[1] = n /\ t.pc = "waitDelete" /\ t.config = Absent /\ Status(t.at) # "STOPPING"
        BY <2>2, <2>6, <3>2 DEF Done
      <4>2. AtHome(n) /\ WantedConfig(n) = Absent
        BY <1>3, <2>3, <4>1 DEF CleanTask
      <4>3. n \notin DOMAIN Wanted
        BY <4>2, WantedFacts
      <4> QED
        BY <4>2, <4>3 DEF Right
    <3>3. \A n, k : StayTask(u, n, k)
      BY <2>6 DEF Done, StayTask
    <3> QED
      BY <1>2, <1>3, <2>1, <2>4, <3>1, <3>2, <3>3, CleanFrame
  <2>7. CASE Recreates(t, u)
    <3>1. /\ t.pc = "waitDelete" /\ t.config # Absent /\ Status(t.at) # "STOPPING"
          /\ u.pc = "create" /\ u.err = t.err /\ u.config = t.config
          /\ u.at = <<t.at[1], t.config.location>>
      BY <2>7 DEF Recreates
    <3>2. ~t.err /\ t.config = WantedConfig(t.at[1])
      BY <1>3 DEF CleanTask
    <3>3. t.at[1] \in DOMAIN Wanted /\ t.config = Wanted[t.at[1]]
      BY <3>1, <3>2 DEF WantedConfig
    <3>4. u.at[1] = t.at[1] /\ u.at[2] = t.config.location
      BY <3>1
    <3>5. InPlace(u.at) /\ u.config = WantedConfig(u.at[1])
      BY <3>1, <3>2, <3>3, <3>4 DEF InPlace
    <3>6. CleanTask(u)'
      BY <1>1, <3>1, <3>2, <3>5 DEF CleanTask
    <3>7. \A n : Trying(t, n) => Trying(u, n)
      BY <2>2, <3>1, <3>4 DEF Trying
    <3>8. ASSUME NEW n \in Intact, NEW k \in Keys, Stays(n, k), ~AtHome(n)'
          PROVE  StayTask(u, n, k)
      <4>1. n # t.at[1]
        BY <1>2, <2>3, <3>1, <3>8
      <4> QED
        BY <3>4, <4>1 DEF StayTask
    <3> QED
      BY <1>2, <1>3, <2>1, <2>4, <3>6, <3>7, <3>8, CleanFrame
  <2> QED
    BY <1>5, <2>5, <2>6, <2>7 DEF Moves
<1> QED
  BY <1>4, <1>5

LEMMA DeleteClean ==
  ASSUME OwnInv, OwnInv', PlacedInv, ReconcileInv, epoch.clean # "no",
         NEW j \in Jobs, NEW i, Delete(j, i), job[j].tasks[i].at[1] \in Intact
  PROVE  ReconcileInv'
<1>1. PICK t : t = job[j].tasks[i]
  OBVIOUS
<1>2. /\ i \in DOMAIN job[j].tasks /\ t \in OwnTask /\ t.at \in Mine
      /\ t.pc \in {"delete", "cleanup"}
      /\ gke' = [gke EXCEPT ![t.at].status = "STOPPING"]
      /\ benchmarks' = benchmarks /\ epoch' = epoch
  BY <1>1, DeleteFacts
<1>3. PICK u : /\ SameAt(t, u) /\ Become(j, i, u)
               /\ u.pc = IF t.pc = "delete" THEN "waitDelete" ELSE "waitCleanup"
  BY <1>1, DeleteFacts
<1>4. Frame(j, i, u)
  BY <1>2, <1>3, BecomeFrame
<1>5. /\ Wanted' = Wanted /\ \A n : WantedConfig(n)' = WantedConfig(n)
      /\ \A k : InPlace(k)' <=> InPlace(k)
  BY <1>2, SameWanted
<1>. Intact' = Intact
  BY <1>2 DEF Intact, OwnNames
<1>6. CleanTask(t) /\ t.pc # "end" /\ t.at \in OwnKeys /\ t.at[1] \in Intact
  BY <1>1, <1>2, KeyFacts DEF ReconcileInv, CleanJob, OwnTask
<1>7. "STOPPING" \in Statuses
  BY DEF Statuses, Busy
<1>8. /\ Mine' = Mine /\ Status(t.at)' = "STOPPING"
      /\ \A l \in OwnKeys : l # t.at => Status(l)' = Status(l)
      /\ \A l \in Mine : Sized(l)' <=> Sized(l)
  <2>1. epoch'.clean = epoch.clean
    BY <1>2
  <2> QED
    BY <1>2, <1>7, <2>1, StatusStep
<1>9. \A n : AtHome(n)' <=> AtHome(n)
  BY <1>5, <1>8 DEF AtHome
<1>10. CleanTask(u)'
  BY <1>2, <1>3, <1>5, <1>6, <1>8 DEF CleanTask, SameAt
<1>11. \A n : Trying(t, n) => Trying(u, n)
  BY <1>2, <1>3, <1>6 DEF Trying, SameAt, CleanTask
<1>12. Trying(u, t.at[1])
  BY <1>2, <1>3 DEF Trying, SameAt
<1>13. ASSUME NEW n, NEW k, Stays(n, k)
       PROVE  StayTask(u, n, k) /\ k \in Mine' /\ \A l \in Mine' : l[1] = n => l = k
  <2>1. StayTask(t, n, k)
    BY <1>1, <1>2, <1>13 DEF Stays
  <2>2. StayTask(u, n, k)
    BY <1>2, <1>3, <2>1 DEF StayTask, SameAt
  <2> QED
    BY <1>8, <1>13, <2>2 DEF Stays
<1>14. ASSUME NEW n \in Intact, Right(n), n # t.at[1]
       PROVE  Right(n)'
  <2>1. CASE n \notin DOMAIN Wanted
    BY <1>5, <1>9, <1>14, <2>1 DEF Right
  <2>2. CASE n \in DOMAIN Wanted
    <3>0. PICK k : k = <<n, Wanted[n].location>>
      OBVIOUS
    <3>1. k \in Mine /\ Status(k) # "STOPPING" /\ Sized(k) /\ AtHome(n)
      BY <1>14, <2>2, <3>0 DEF Right
    <3>2. k # t.at /\ k \in OwnKeys
      BY <1>14, <3>0, <3>1, MineFacts
    <3>3. Status(k)' = Status(k) /\ Sized(k)' /\ k \in Mine'
      BY <1>8, <3>1, <3>2
    <3> QED
      BY <1>5, <1>9, <3>0, <3>1, <3>3 DEF Right
  <2> QED
    BY <2>1, <2>2
<1>15. ASSUME NEW k \in Mine', k[1] \in Intact
       PROVE  /\ Status(k)' = "PROVISIONING" => InPlace(k) /\ Sized(k)'
              /\ Status(k)' = "STOPPING" =>
                    Trying(u, k[1]) \/ (k \in Mine /\ Status(k) = "STOPPING")
  <2>1. k \in OwnKeys /\ k \in Mine
    BY <1>8, MineFacts
  <2>2. CASE k = t.at
    BY <1>8, <1>12, <2>2
  <2>3. CASE k # t.at
    BY <1>8, <1>15, <2>1, <2>3 DEF ReconcileInv, CleanCluster
  <2> QED
    BY <2>2, <2>3
<1>16. \A k \in OwnKeys : Status(k) \in {"NONE", "STOPPING"} => Status(k)' \in {"NONE", "STOPPING"}
  BY <1>8
<1> QED
  BY <1>1, <1>2, <1>4, <1>6, <1>9, <1>10, <1>11, <1>12, <1>13, <1>14, <1>15, <1>16, CleanFrame

LEMMA CreateClean ==
  ASSUME OwnInv, OwnInv', PlacedInv, ReconcileInv, epoch.clean # "no",
         NEW j \in Jobs, NEW i, Create(j, i), job[j].tasks[i].at[1] \in Intact
  PROVE  ReconcileInv'
<1>1. PICK t : t = job[j].tasks[i]
  OBVIOUS
<1>2. /\ i \in DOMAIN job[j].tasks /\ t \in OwnTask /\ t.at \in OwnKeys /\ t.at \notin Mine
      /\ t.pc = "create"
      /\ gke' = [gke EXCEPT ![t.at] = ClusterOf(t.config, "PROVISIONING")]
      /\ benchmarks' = benchmarks /\ epoch' = epoch
  BY <1>1, CreateFacts
<1>3. PICK u : SameAt(t, u) /\ Become(j, i, u) /\ u.pc = "waitCreate"
  BY <1>1, CreateFacts
<1>4. Frame(j, i, u)
  BY <1>2, <1>3, BecomeFrame
<1>5. /\ Wanted' = Wanted /\ \A n : WantedConfig(n)' = WantedConfig(n)
      /\ \A k : InPlace(k)' <=> InPlace(k)
  BY <1>2, SameWanted
<1>. Intact' = Intact
  BY <1>2 DEF Intact, OwnNames
<1>6. CleanTask(t) /\ t.at[1] \in Intact /\ t.at = <<t.at[1], t.at[2]>>
  BY <1>1, <1>2, KeyFacts DEF ReconcileInv, CleanJob
<1>7. PICK n \in Intact : n = t.at[1]
  BY <1>6
<1>8. /\ n \in DOMAIN Wanted /\ t.config = Wanted[n] /\ t.at = <<n, Wanted[n].location>>
      /\ t.config \in Configs /\ t.config.location = t.at[2] /\ InPlace(t.at) /\ ~t.err
  <2>1. ~t.err /\ InPlace(t.at) /\ t.config = WantedConfig(n)
    BY <1>2, <1>6, <1>7 DEF CleanTask
  <2>2. n \in DOMAIN Wanted /\ t.at[2] = Wanted[n].location
    BY <1>7, <2>1 DEF InPlace
  <2> QED
    BY <1>6, <1>7, <2>1, <2>2, WantedFacts
<1>9. /\ Mine' = Mine \cup {t.at} /\ Status(t.at)' = "PROVISIONING"
      /\ \A l \in OwnKeys : l # t.at => Status(l)' = Status(l)
      /\ \A l \in Mine : Sized(l)' <=> Sized(l)
      /\ gke'[t.at].CurrentNodeCount = ClusterOf(t.config, "").CurrentNodeCount
  BY <1>2, <1>8, NewStep
<1>10. \A m : AtHome(m) => AtHome(m)'
  BY <1>5, <1>8, <1>9 DEF AtHome
<1>11. ASSUME NEW k, Stays(n, k)
       PROVE  FALSE
  BY <1>1, <1>2, <1>7, <1>11 DEF Stays, StayTask
<1>12. Sized(t.at)'
  BY <1>5, <1>7, <1>8, <1>9 DEF Sized
<1>13. Right(n)'
  <2>1. AtHome(n)'
    BY <1>10, <1>11 DEF ReconcileInv, Found
  <2>2. t.at \in Mine'
    BY <1>9
  <2>3. PICK k : k = t.at
    OBVIOUS
  <2>4. k \in Mine' /\ Status(k)' # "STOPPING" /\ Sized(k)' /\ k = <<n, Wanted[n].location>>
    BY <1>8, <1>9, <1>12, <2>2, <2>3
  <2> QED
    BY <1>5, <2>1, <2>4 DEF Right
<1>14. CleanTask(u)'
  BY <1>2, <1>3, <1>5, <1>6, <1>8 DEF CleanTask, SameAt
<1>15. \A m : Trying(t, m) => m = n
  BY <1>7, <1>8 DEF Trying
<1>16. ASSUME NEW m, NEW k, Stays(m, k)
       PROVE  StayTask(u, m, k) /\ k \in Mine' /\ \A l \in Mine' : l[1] = m => l = k
  <2>1. m # n
    BY <1>11, <1>16
  <2>2. StayTask(u, m, k)
    BY <1>3, <1>7, <2>1 DEF StayTask, SameAt
  <2> QED
    BY <1>7, <1>9, <1>16, <2>1, <2>2 DEF Stays
<1>17. ASSUME NEW m \in Intact, Right(m)
       PROVE  Right(m)'
  <2>1. CASE m \notin DOMAIN Wanted
    BY <1>5, <1>10, <1>17, <2>1 DEF Right
  <2>2. CASE m \in DOMAIN Wanted
    <3>0. PICK k : k = <<m, Wanted[m].location>>
      OBVIOUS
    <3>1. k \in Mine /\ Status(k) # "STOPPING" /\ Sized(k) /\ AtHome(m)
      BY <1>17, <2>2, <3>0 DEF Right
    <3>2. k # t.at /\ k \in OwnKeys
      BY <1>2, <3>1, MineFacts
    <3>3. Status(k)' = Status(k) /\ Sized(k)' /\ k \in Mine'
      BY <1>9, <3>1, <3>2
    <3> QED
      BY <1>5, <1>10, <3>0, <3>1, <3>3 DEF Right
  <2> QED
    BY <2>1, <2>2
<1>18. ASSUME NEW k \in Mine', k[1] \in Intact
       PROVE  /\ Status(k)' = "PROVISIONING" => InPlace(k) /\ Sized(k)'
              /\ Status(k)' = "STOPPING" =>
                    Trying(u, k[1]) \/ (k \in Mine /\ Status(k) = "STOPPING")
  <2>1. CASE k = t.at
    BY <1>8, <1>9, <1>12, <2>1
  <2>2. CASE k # t.at
    <3>1. k \in OwnKeys /\ k \in Mine
      BY <1>9, <2>2, MineFacts
    <3> QED
      BY <1>9, <1>18, <2>2, <3>1 DEF ReconcileInv, CleanCluster
  <2> QED
    BY <2>1, <2>2
<1>19. \A k \in OwnKeys : Status(k) \in {"NONE", "STOPPING"} /\ ~InPlace(k) =>
                              Status(k)' \in {"NONE", "STOPPING"}
  BY <1>8, <1>9
<1> QED
  BY <1>1, <1>2, <1>4, <1>10, <1>13, <1>14, <1>15, <1>16, <1>17, <1>18, <1>19, CleanFrame

-----------------------------------------------------------------------------
(* The other steps.                                                        *)

\* No goroutine moves: what is to be shown when GKE finishes something.
LEMMA GkeClean ==
  ASSUME OwnInv, OwnInv', PlacedInv, ReconcileInv, epoch.clean # "no", epoch'.clean # "no",
         NEW k \in Keys, Gke(k)
  PROVE  ReconcileInv'
<1>1. /\ job' = job /\ benchmarks' = benchmarks /\ epoch'.clean = epoch.clean
      /\ Intact' \subseteq Intact
      /\ Harms(k[1]) => k[1] \notin Intact'
      /\ epoch' = epoch => Intact' = Intact
  <2>1. job' = job /\ benchmarks' = benchmarks /\ (epoch' = epoch \/ Harms(k[1]))
    BY GkeFacts
  <2>2. k[1] \in Names /\ OwnNames' = OwnNames
    BY DEF Keys, OwnNames
  <2>3. Harms(k[1]) => epoch'.clean = epoch.clean /\ epoch'.failed = epoch.failed \cup {k[1]}
    BY <2>2, HarmsFacts
  <2> QED
    BY <2>1, <2>2, <2>3 DEF Intact
<1>2. /\ Wanted' = Wanted /\ \A n : WantedConfig(n)' = WantedConfig(n)
      /\ \A l : InPlace(l)' <=> InPlace(l)
  BY <1>1, SameWanted
<1>3. ASSUME \A l \in OwnKeys : l[1] \in Intact' =>
                /\ Status(l) = "STOPPING" => Status(l)' \in {"NONE", "STOPPING"}
                /\ Status(l) = "NONE" => Status(l)' = "NONE"
      PROVE  \A h \in Jobs : CleanJob(h)'
  <2>1. ASSUME NEW h \in Jobs, NEW g \in DOMAIN job[h].tasks, NEW w, w = job[h].tasks[g]
        PROVE  CleanTask(w)'
    <3>1. w \in OwnTask
      BY <2>1 DEF OwnInv, OwnJob
    <3>2. CleanTask(w) /\ w.at \in OwnKeys
      BY <2>1, <3>1 DEF ReconcileInv, CleanJob, OwnTask
    <3> QED
      BY <1>1, <1>2, <1>3, <3>2 DEF CleanTask
  <2>2. ASSUME NEW h \in Jobs
        PROVE  CleanJob(h)'
    <3>1. ASSUME NEW g \in DOMAIN job[h].tasks
          PROVE  CleanTask(job[h].tasks[g])'
      <4>1. PICK w : w = job[h].tasks[g]
        OBVIOUS
      <4>2. CleanTask(w)'
        BY <2>1, <4>1
      <4> QED
        BY <1>1, <4>1, <4>2 DEF CleanTask
    <3>2. /\ job[h].pc # "idle" => Goal(job[h].op) = epoch.clean
          /\ job[h].pc = "read" => \A a, b \in DOMAIN job[h].clusters :
                job[h].clusters[a][1] = job[h].clusters[b][1] /\ job[h].clusters[a][1] \in Intact
                => a = b
      BY DEF ReconcileInv, CleanJob
    <3> QED
      BY <1>1, <3>1, <3>2 DEF CleanJob
  <2> QED
    BY <2>2
<1>4. \A n : Tried(n)' <=> Tried(n)
  BY <1>1 DEF Tried
<1>5. ASSUME Mine' \subseteq Mine
      PROVE  /\ \A n : AtHome(n) => AtHome(n)'
             /\ \A n, m : Stays(n, m) /\ m \in Mine' => Stays(n, m)'
             /\ \A n, m : Stays(n, m) /\ m \notin Mine' => AtHome(n)'
  <2>1. \A n : AtHome(n) => AtHome(n)'
    BY <1>2, <1>5 DEF AtHome
  <2>2. \A n, m : Stays(n, m) /\ m \in Mine' => Stays(n, m)'
    BY <1>1, <1>2, <1>5 DEF Stays
  <2>3. \A n, m : Stays(n, m) /\ m \notin Mine' => AtHome(n)'
    BY <1>5 DEF Stays, AtHome
  <2> QED
    BY <2>1, <2>2, <2>3
<1>6. CASE /\ k \in Mine /\ Status(k) = "STOPPING" /\ gke' = [gke EXCEPT ![k] = Absent]
           /\ epoch' = epoch
  <2>1. /\ Mine' = Mine \ {k} /\ Status(k)' = "NONE"
        /\ \A l \in OwnKeys : l # k => Status(l)' = Status(l)
        /\ \A l \in Mine' : Sized(l)' <=> Sized(l)
    BY <1>1, <1>6, GoneStep
  <2>2. \A h \in Jobs : CleanJob(h)'
    BY <1>3, <1>6, <2>1
  <2>3. ASSUME NEW n \in Intact', Right(n)
        PROVE  Right(n)'
    <3>1. CASE n \notin DOMAIN Wanted
      BY <1>2, <1>5, <2>1, <2>3, <3>1 DEF Right
    <3>2. CASE n \in DOMAIN Wanted
      <4>1. PICK l : l = <<n, Wanted[n].location>>
        OBVIOUS
      <4>2. l \in Mine /\ Status(l) # "STOPPING" /\ Sized(l) /\ AtHome(n)
        BY <2>3, <3>2, <4>1 DEF Right
      <4>3. l # k /\ l \in OwnKeys
        BY <1>6, <4>2, MineFacts
      <4>4. Status(l)' = Status(l) /\ Sized(l)' /\ l \in Mine' /\ AtHome(n)'
        BY <1>5, <2>1, <4>2, <4>3
      <4> QED
        BY <1>2, <4>1, <4>2, <4>4 DEF Right
    <3> QED
      BY <3>1, <3>2
  <2>4. ASSUME NEW l \in Mine', l[1] \in Intact'
        PROVE  /\ Status(l)' = "PROVISIONING" => InPlace(l) /\ Sized(l)'
               /\ Status(l)' = "STOPPING" =>
                     Tried(l[1])' \/ (l \in Mine /\ Status(l) = "STOPPING")
    <3>1. l \in Mine /\ l \in OwnKeys /\ l # k
      BY <2>1, MineFacts
    <3>2. l[1] \in Intact
      BY <1>1, <2>4
    <3> QED
      BY <2>1, <3>1, <3>2 DEF ReconcileInv, CleanCluster
  <2>5. /\ \A n : AtHome(n) => AtHome(n)'
        /\ \A n, m : Stays(n, m) => AtHome(n)' \/ Stays(n, m)'
    BY <1>5, <2>1
  <2> QED
    BY <1>1, <1>4, <2>2, <2>3, <2>4, <2>5, CleanStep
<1>7. CASE /\ k \in Mine /\ Status(k) = "PROVISIONING"
           /\ gke' = [gke EXCEPT ![k].status = "RUNNING"] /\ epoch' = epoch
  <2>1. /\ Mine' = Mine /\ Status(k)' = "RUNNING"
        /\ \A l \in OwnKeys : l # k => Status(l)' = Status(l)
        /\ \A l \in Mine : Sized(l)' <=> Sized(l)
    <3>1. "RUNNING" \in Statuses
      BY DEF Statuses
    <3> QED
      BY <1>1, <1>7, <3>1, StatusStep
  <2>2. \A h \in Jobs : CleanJob(h)'
    BY <1>3, <1>7, <2>1
  <2>3. ASSUME NEW n \in Intact', Right(n)
        PROVE  Right(n)'
    <3>1. CASE n \notin DOMAIN Wanted
      BY <1>2, <1>5, <2>1, <2>3, <3>1 DEF Right
    <3>2. CASE n \in DOMAIN Wanted
      <4>1. PICK l : l = <<n, Wanted[n].location>>
        OBVIOUS
      <4>2. l \in Mine /\ Status(l) # "STOPPING" /\ Sized(l) /\ AtHome(n)
        BY <2>3, <3>2, <4>1 DEF Right
      <4>3. l \in OwnKeys
        BY <4>2, MineFacts
      <4>4. Status(l)' # "STOPPING" /\ Sized(l)' /\ l \in Mine' /\ AtHome(n)'
        BY <1>5, <2>1, <4>2, <4>3
      <4> QED
        BY <1>2, <4>1, <4>4 DEF Right
    <3> QED
      BY <3>1, <3>2
  <2>4. ASSUME NEW l \in Mine', l[1] \in Intact'
        PROVE  /\ Status(l)' = "PROVISIONING" => InPlace(l) /\ Sized(l)'
               /\ Status(l)' = "STOPPING" =>
                     Tried(l[1])' \/ (l \in Mine /\ Status(l) = "STOPPING")
    <3>1. l \in Mine /\ l \in OwnKeys
      BY <2>1, MineFacts
    <3>2. l[1] \in Intact
      BY <1>1, <2>4
    <3> QED
      BY <2>1, <3>1, <3>2 DEF ReconcileInv, CleanCluster
  <2>5. /\ \A n : AtHome(n) => AtHome(n)'
        /\ \A n, m : Stays(n, m) => AtHome(n)' \/ Stays(n, m)'
    <3>1. \A n, m : Stays(n, m) => m \in Mine
      BY DEF Stays
    <3> QED
      BY <1>5, <2>1, <3>1
  <2> QED
    BY <1>1, <1>4, <2>2, <2>3, <2>4, <2>5, CleanStep
<1>8. CASE \A l \in OwnKeys : gke'[l] = gke[l]
  <2>1. /\ Mine' = Mine /\ \A l \in OwnKeys : Status(l)' = Status(l)
        /\ \A l \in Mine : l \in OwnKeys
    BY <1>8, SameOwn, MineFacts
  <2>2. \A h \in Jobs : CleanJob(h)'
    BY <1>3, <2>1
  <2>3. \A l \in Mine : Sized(l)' <=> Sized(l)
    BY <1>2, <1>8, <2>1 DEF Sized
  <2>4. ASSUME NEW n \in Intact', Right(n)
        PROVE  Right(n)'
    <3>1. CASE n \notin DOMAIN Wanted
      BY <1>2, <1>5, <2>1, <2>4, <3>1 DEF Right
    <3>2. CASE n \in DOMAIN Wanted
      <4>1. PICK l : l = <<n, Wanted[n].location>>
        OBVIOUS
      <4>2. l \in Mine /\ Status(l) # "STOPPING" /\ Sized(l) /\ AtHome(n)
        BY <2>4, <3>2, <4>1 DEF Right
      <4>3. Status(l)' # "STOPPING" /\ Sized(l)' /\ l \in Mine' /\ AtHome(n)'
        BY <1>5, <2>1, <2>3, <4>2
      <4> QED
        BY <1>2, <4>1, <4>3 DEF Right
    <3> QED
      BY <3>1, <3>2
  <2>5. ASSUME NEW l \in Mine', l[1] \in Intact'
        PROVE  /\ Status(l)' = "PROVISIONING" => InPlace(l) /\ Sized(l)'
               /\ Status(l)' = "STOPPING" =>
                     Tried(l[1])' \/ (l \in Mine /\ Status(l) = "STOPPING")
    BY <1>1, <2>1, <2>3, <2>5 DEF ReconcileInv, CleanCluster
  <2>6. /\ \A n : AtHome(n) => AtHome(n)'
        /\ \A n, m : Stays(n, m) => AtHome(n)' \/ Stays(n, m)'
    <3>1. \A n, m : Stays(n, m) => m \in Mine
      BY DEF Stays
    <3> QED
      BY <1>5, <2>1, <3>1
  <2> QED
    BY <1>1, <1>4, <2>2, <2>4, <2>5, <2>6, CleanStep
\* Of the name of a failed operation nothing is claimed any more.
<1>9. CASE /\ k \in Mine /\ Status(k) \in Busy /\ Harms(k[1])
           /\ gke' = [gke EXCEPT ![k].status = "ERROR"]
  <2>1. /\ Mine' = Mine
        /\ \A l \in OwnKeys : l # k => Status(l)' = Status(l)
        /\ \A l \in Mine : Sized(l)' <=> Sized(l)
    <3>1. "ERROR" \in Statuses
      BY DEF Statuses
    <3> QED
      BY <1>1, <1>9, <3>1, StatusStep
  <2>2. k[1] \notin Intact'
    BY <1>1, <1>9
  <2>3. \A h \in Jobs : CleanJob(h)'
    <3>1. \A l \in OwnKeys : l[1] \in Intact' => Status(l)' = Status(l)
      BY <2>1, <2>2
    <3> QED
      BY <1>3, <3>1
  <2>4. ASSUME NEW n \in Intact', Right(n)
        PROVE  Right(n)'
    <3>1. \A l \in OwnKeys : l[1] = n => gke'[l] = gke[l]
      BY <1>9, <2>2 DEF OwnInv, OwnKeys
    <3> QED
      BY <1>1, <2>4, <3>1, SameName
  <2>5. ASSUME NEW l \in Mine', l[1] \in Intact'
        PROVE  /\ Status(l)' = "PROVISIONING" => InPlace(l) /\ Sized(l)'
               /\ Status(l)' = "STOPPING" =>
                     Tried(l[1])' \/ (l \in Mine /\ Status(l) = "STOPPING")
    <3>1. l \in Mine /\ l \in OwnKeys /\ l # k /\ l[1] \in Intact
      BY <1>1, <2>1, <2>2, <2>5, MineFacts
    <3> QED
      BY <2>1, <3>1 DEF ReconcileInv, CleanCluster
  <2>6. /\ \A n : AtHome(n) => AtHome(n)'
        /\ \A n, m : Stays(n, m) => AtHome(n)' \/ Stays(n, m)'
    <3>1. \A n, m : Stays(n, m) => m \in Mine
      BY DEF Stays
    <3> QED
      BY <1>5, <2>1, <3>1
  <2> QED
    BY <1>1, <1>4, <2>3, <2>4, <2>5, <2>6, CleanStep
<1> QED
  BY <1>6, <1>7, <1>8, <1>9, GkeFacts

\* When the first job starts, all are idle: a benchmark with a cluster elsewhere has that
\* one only.
LEMMA StartClean ==
  ASSUME OwnInv, OwnInv', PlacedInv, ReconcileInv, epoch'.clean # "no",
         NEW j \in Jobs, NEW f \in Flags, NEW e, Start(j, f, e)
  PROVE  ReconcileInv'
<1>1. PICK op \in {"recreate", "reconcile", "delete"} :
         /\ job[j].pc = "idle" /\ gke' = gke /\ benchmarks' = benchmarks
         /\ job'[j].pc = "list" /\ job'[j].op = op /\ DOMAIN job'[j].tasks = {}
         /\ \A h \in Jobs \ {j} : job'[h] = job[h]
         /\ IF AllIdle
            THEN epoch'.clean # "no" =>
                    /\ Settled /\ epoch'.clean = Goal(op)
                    /\ epoch'.matched = (op = "reconcile" /\ AsConfigured)
            ELSE epoch'.clean # "no" =>
                    /\ epoch.clean = Goal(op) /\ epoch'.clean = epoch.clean
                    /\ epoch'.failed = epoch.failed
                    /\ epoch'.matched = (epoch.matched /\ op = "reconcile")
  BY StartFacts
<1>2. DOMAIN job[j].tasks = {}
  BY <1>1, NoTasks
<1>3. CASE AllIdle
  <2>1. Settled /\ epoch'.clean = Goal(op) /\ Mine' = Mine /\ \A k : Status(k)' = Status(k)
    BY <1>1, <1>3 DEF Mine, Status
  <2>2. \A h \in Jobs : DOMAIN job'[h].tasks = {} /\ job'[h].pc # "read"
                        /\ (job'[h].pc # "idle" => h = j)
    BY <1>1, <1>3, NoTasks DEF AllIdle
  <2>3. \A h \in Jobs : CleanJob(h)'
    BY <1>1, <2>1, <2>2 DEF CleanJob
  <2>4. \A k \in Mine' : CleanCluster(k)'
    BY <2>1 DEF Settled, CleanCluster, Busy
  <2>. \A n \in Intact' : n \in OwnNames
    BY DEF Intact, OwnNames
  <2>5. ASSUME NEW n \in OwnNames
        PROVE  Found(n)'
    <3>1. CASE \A k \in Mine' : k[1] = n => InPlace(k)'
      BY <3>1 DEF Found, AtHome
    <3>2. CASE ~(\A k \in Mine' : k[1] = n => InPlace(k)')
      <4>1. PICK k \in Mine' : k[1] = n /\ ~InPlace(k)'
        BY <3>2
      <4>2. k \in Keys /\ \A l \in Mine' : l[1] = n => l = k
        BY <2>1, <4>1 DEF Settled, Mine
      <4>3. Stays(n, k)'
        BY <2>2, <4>1, <4>2 DEF Stays
      <4> QED
        BY <4>2, <4>3 DEF Found
    <3> QED
      BY <3>1, <3>2
  <2>6. \A n \in OwnNames : Cared(n)'
    BY <1>1 DEF Cared
  <2> QED
    BY <2>3, <2>4, <2>5, <2>6 DEF ReconcileInv
<1>4. CASE ~AllIdle
  <2>1. epoch'.clean = epoch.clean /\ epoch.clean = Goal(op) /\ epoch.clean # "no"
    BY <1>1, <1>4
  <2>. Intact' = Intact
    BY <1>1, <1>4 DEF Intact, OwnNames
  <2>2. /\ Wanted' = Wanted /\ \A n : WantedConfig(n)' = WantedConfig(n)
        /\ \A k : InPlace(k)' <=> InPlace(k)
    BY <1>1, <2>1, SameWanted
  <2>3. /\ Mine' = Mine /\ \A k : Status(k)' = Status(k) /\ (Sized(k)' <=> Sized(k))
        /\ \A n : (AtHome(n)' <=> AtHome(n)) /\ (Right(n)' <=> Right(n))
    BY <1>1, <2>1, SameClusters
  <2>4. ASSUME NEW h \in Jobs
        PROVE  CleanJob(h)'
    <3>1. CASE h = j
      BY <1>1, <2>1, <3>1 DEF CleanJob
    <3>2. CASE h # j
      <4>1. job'[h] = job[h] /\ CleanJob(h)
        BY <1>1, <2>1, <3>2 DEF ReconcileInv
      <4>2. ASSUME NEW g \in DOMAIN job[h].tasks
            PROVE  CleanTask(job[h].tasks[g])'
        BY <2>2, <2>3, <4>1 DEF CleanJob, CleanTask
      <4> QED
        BY <2>1, <4>1, <4>2 DEF CleanJob
    <3> QED
      BY <3>1, <3>2
  <2>5. \A n : Tried(n) => Tried(n)'
    BY <1>1, <1>2 DEF Tried
  <2>6. \A k \in Mine' : k[1] \in Intact => CleanCluster(k)'
    BY <2>1, <2>2, <2>3, <2>5 DEF ReconcileInv, CleanCluster
  <2>7. ASSUME NEW n, NEW k, Stays(n, k)
        PROVE  Stays(n, k)'
    <3>1. k \in Mine' /\ k[1] = n /\ ~InPlace(k)' /\ \A l \in Mine' : l[1] = n => l = k
      BY <2>2, <2>3, <2>7 DEF Stays
    <3>2. ASSUME NEW h \in Jobs
          PROVE  /\ job'[h].pc = "read" =>
                      /\ \E g \in DOMAIN job'[h].clusters : job'[h].clusters[g] = k
                      /\ \A g \in DOMAIN job'[h].clusters :
                            job'[h].clusters[g][1] = n => job'[h].clusters[g] = k
                 /\ \A g \in DOMAIN job'[h].tasks : StayTask(job'[h].tasks[g], n, k)
      <4>1. CASE h = j
        BY <1>1, <4>1
      <4>2. CASE h # j
        <5>1. job'[h] = job[h]
          BY <1>1, <4>2
        <5> QED
          BY <2>7, <5>1 DEF Stays
      <4> QED
        BY <4>1, <4>2
    <3> QED
      BY <3>1, <3>2 DEF Stays
  <2>8. \A n \in Intact : Found(n)'
    BY <2>1, <2>3, <2>7 DEF ReconcileInv, Found
  <2>9. \A n \in Intact : Cared(n)'
    BY <1>1 DEF Cared
  <2> QED
    BY <2>3, <2>4, <2>6, <2>8, <2>9 DEF ReconcileInv
<1> QED
  BY <1>3, <1>4

\* The count per zone is that of the configuration exactly when the counts of all zones are.
LEMMA NodesFacts ==
  ASSUME NEW k \in Mine, Placed(k), NEW c \in Configs, c.location = k[2]
  PROVE  NodesPerZone(gke[k], k[2]) = c.nodes <=>
            gke[k].CurrentNodeCount = ClusterOf(c, "").CurrentNodeCount
<1>1. PICK d \in Configs, r \in Statuses : d.location = k[2] /\ gke[k] = ClusterOf(d, r)
  BY DEF Placed
<1>2. c.nodes \in Int /\ d.nodes \in Int
  BY ConfigNodes
<1>3. /\ gke[k].CurrentNodeCount = IF IsRegional(k[2]) THEN 3 * d.nodes ELSE d.nodes
      /\ ClusterOf(c, "").CurrentNodeCount = IF IsRegional(k[2]) THEN 3 * c.nodes ELSE c.nodes
  BY <1>1 DEF ClusterOf
<1> DEFINE m == d.nodes
           n == c.nodes
<1>4. m \in Int /\ n \in Int
  BY <1>2
<1>5. NodesPerZone(gke[k], k[2]) =
        IF IsRegional(k[2]) THEN gke[k].CurrentNodeCount \div 3 ELSE gke[k].CurrentNodeCount
  BY DEF NodesPerZone
<1> HIDE DEF m, n
<1>6. (3 * m) \div 3 = m /\ (3 * m = 3 * n <=> m = n)
  BY <1>4
<1>7. NodesPerZone(gke[k], k[2]) = m
  BY <1>3, <1>5, <1>6 DEF m
<1>8. gke[k].CurrentNodeCount = ClusterOf(c, "").CurrentNodeCount <=> m = n
  BY <1>3, <1>6 DEF m, n
<1> QED
  BY <1>7, <1>8 DEF n

LEMMA ListClean ==
  ASSUME OwnInv, OwnInv', PlacedInv, ReconcileInv, epoch.clean # "no",
         NEW j \in Jobs, List(j)
  PROVE  ReconcileInv'
<1>1. PICK s \in [1..Cardinality(Mine) -> Mine] :
         /\ \A k \in Mine : \E i \in DOMAIN s : s[i] = k
         /\ \A h, i \in DOMAIN s : s[h] = s[i] => h = i
         /\ job[j].pc = "list" /\ gke' = gke /\ benchmarks' = benchmarks /\ epoch' = epoch
         /\ job'[j].pc = "read" /\ job'[j].op = job[j].op /\ DOMAIN job'[j].tasks = {}
         /\ job'[j].clusters = s /\ \A k \in Mine : job'[j].seen[k] = gke[k]
         /\ \A h \in Jobs \ {j} : job'[h] = job[h]
  BY ListFacts
<1>. Intact' = Intact
  BY <1>1 DEF Intact, OwnNames
<1>2. /\ Wanted' = Wanted /\ \A n : WantedConfig(n)' = WantedConfig(n)
      /\ \A k : InPlace(k)' <=> InPlace(k)
  BY <1>1, SameWanted
<1>3. /\ Mine' = Mine /\ \A k : Status(k)' = Status(k) /\ (Sized(k)' <=> Sized(k))
      /\ \A n : (AtHome(n)' <=> AtHome(n)) /\ (Right(n)' <=> Right(n))
  BY <1>1, SameClusters
<1>4. DOMAIN job[j].tasks = {}
  BY <1>1, NoTasks
<1>5. \A n : Tried(n) => Tried(n)'
  BY <1>1, <1>4 DEF Tried
<1>6. \A k, l \in Mine : k[1] = l[1] /\ k[1] \in Intact => k = l
  BY NamesDistinct DEF ReconcileInv
<1>7. ASSUME NEW h \in Jobs
      PROVE  CleanJob(h)'
  <2>1. CASE h = j
    <3>1. Goal(job[j].op) = epoch.clean
      BY <1>1 DEF ReconcileInv, CleanJob
    <3>2. \A a, b \in DOMAIN s : s[a][1] = s[b][1] /\ s[a][1] \in Intact => a = b
      BY <1>1, <1>6
    <3> QED
      BY <1>1, <2>1, <3>1, <3>2 DEF CleanJob
  <2>2. CASE h # j
    <3>1. job'[h] = job[h] /\ CleanJob(h)
      BY <1>1, <2>2 DEF ReconcileInv
    <3>2. ASSUME NEW g \in DOMAIN job[h].tasks
          PROVE  CleanTask(job[h].tasks[g])'
      BY <1>2, <1>3, <3>1 DEF CleanJob, CleanTask
    <3> QED
      BY <1>1, <3>1, <3>2 DEF CleanJob
  <2> QED
    BY <2>1, <2>2
<1>8. \A k \in Mine' : k[1] \in Intact => CleanCluster(k)'
  BY <1>2, <1>3, <1>5 DEF ReconcileInv, CleanCluster
<1>9. ASSUME NEW n, NEW k, Stays(n, k)
      PROVE  Stays(n, k)'
  <2>1. k \in Mine /\ k[1] = n /\ ~InPlace(k) /\ \A l \in Mine : l[1] = n => l = k
    BY <1>9 DEF Stays
  <2>2. ASSUME NEW h \in Jobs
        PROVE  /\ job'[h].pc = "read" =>
                    /\ \E g \in DOMAIN job'[h].clusters : job'[h].clusters[g] = k
                    /\ \A g \in DOMAIN job'[h].clusters :
                          job'[h].clusters[g][1] = n => job'[h].clusters[g] = k
               /\ \A g \in DOMAIN job'[h].tasks : StayTask(job'[h].tasks[g], n, k)
    <3>1. CASE h = j
      <4>1. \E g \in DOMAIN s : s[g] = k
        BY <1>1, <2>1
      <4>2. \A g \in DOMAIN s : s[g][1] = n => s[g] = k
        BY <2>1
      <4> QED
        BY <1>1, <3>1, <4>1, <4>2
    <3>2. CASE h # j
      <4>1. job'[h] = job[h]
        BY <1>1, <3>2
      <4> QED
        BY <1>9, <4>1 DEF Stays
    <3> QED
      BY <3>1, <3>2
  <2> QED
    BY <1>2, <1>3, <2>1, <2>2 DEF Stays
<1>10. \A n \in Intact : Found(n)'
  BY <1>3, <1>9 DEF ReconcileInv, Found
\* What the list shows: the cluster is right, somebody is at it, or this job will be.
<1>11. ASSUME NEW n \in Intact
       PROVE  Right(n) \/ Tried(n) \/ Pending(j, n)'
  <2>1. CASE \A k \in Mine : k[1] # n
    <3>1. CASE n \in DOMAIN Wanted
      <4>1. \A i \in DOMAIN s : s[i][1] # n
        BY <2>1
      <4> QED
        BY <1>1, <1>2, <3>1, <4>1 DEF Pending
    <3>2. CASE n \notin DOMAIN Wanted
      BY <2>1, <3>2 DEF Right, AtHome
    <3> QED
      BY <3>1, <3>2
  <2>2. CASE ~(\A k \in Mine : k[1] # n)
    <3>1. PICK k \in Mine : k[1] = n
      BY <2>2
    <3>2. PICK i \in DOMAIN s : s[i] = k
      BY <1>1
    <3>3. CASE ~Unchanged(job[j].op, gke[k], k[2], WantedConfig(n))
      <4>1. ~Unchanged(job'[j].op, job'[j].seen[s[i]], s[i][2], WantedConfig(n))
        BY <1>1, <3>2, <3>3
      <4> QED
        BY <1>1, <1>2, <3>1, <3>2, <4>1 DEF Pending
    <3>4. CASE Unchanged(job[j].op, gke[k], k[2], WantedConfig(n))
      <4>1. k \in OwnKeys /\ k = <<k[1], k[2]>> /\ Status(k) = gke[k].status
        BY MineFacts, KeyFacts
      <4>2. ASSUME InPlace(k), Sized(k), Status(k) # "STOPPING"
            PROVE  Right(n)
        <5>1. AtHome(n)
          BY <1>6, <3>1, <4>2 DEF AtHome
        <5>2. k = <<n, Wanted[n].location>>
          BY <3>1, <4>1, <4>2 DEF InPlace
        <5> QED
          BY <4>2, <5>1, <5>2 DEF Right
      <4>3. CASE Status(k) = "STOPPING"
        BY <3>1, <4>3 DEF ReconcileInv, CleanCluster
      <4>4. CASE Status(k) = "PROVISIONING"
        <5>1. InPlace(k) /\ Sized(k)
          BY <3>1, <4>4 DEF ReconcileInv, CleanCluster
        <5> QED
          BY <4>2, <4>4, <5>1
      <4>5. CASE Status(k) \notin Busy
        <5>1. /\ WantedConfig(n) # Absent
              /\ NodesPerZone(gke[k], k[2]) = WantedConfig(n).nodes
              /\ k[2] = WantedConfig(n).location
          BY <3>4, <4>1, <4>5 DEF Unchanged
        <5>2. n \in DOMAIN Wanted /\ WantedConfig(n) = Wanted[n] /\ Wanted[n] \in Configs
          BY <5>1, WantedFacts DEF WantedConfig
        <5>3. Placed(k)
          BY DEF PlacedInv
        <5>4. Sized(k)
          BY <3>1, <5>1, <5>2, <5>3, NodesFacts DEF Sized
        <5>5. InPlace(k)
          BY <3>1, <5>1, <5>2 DEF InPlace
        <5> QED
          BY <4>2, <4>5, <5>4, <5>5 DEF Busy
      <4> QED
        BY <4>3, <4>4, <4>5 DEF Busy
    <3> QED
      BY <3>3, <3>4
  <2> QED
    BY <2>1, <2>2
<1>12. \A n \in Intact : Cared(n)'
  BY <1>3, <1>5, <1>11 DEF Cared
<1> QED
  BY <1>7, <1>8, <1>10, <1>12 DEF ReconcileInv

LEMMA NewFacts ==
  ASSUME NEW op, NEW n, NEW c
  PROVE  LET t == NewTask(op, n, c) IN
         /\ t.at = <<n, c.location>> /\ t.config = c /\ ~t.err
         /\ t.pc = IF op = "delete" THEN "end" ELSE "create"
  BY GoroutineFacts DEF NewTask

LEMMA ReadClean ==
  ASSUME OwnInv, OwnInv', PlacedInv, ReconcileInv, epoch.clean # "no",
         NEW j \in Jobs, Read(j)
  PROVE  ReconcileInv'
<1> DEFINE s    == job[j].clusters
           op   == job[j].op
           cs   == benchmarkClusters(benchmarks)
           rest == DOMAIN cs \ {s[i][1] : i \in DOMAIN s}
           ts   == job'[j].tasks
           seen == job[j].seen
<1>1. /\ job[j].pc = "read" /\ gke' = gke /\ benchmarks' = benchmarks /\ epoch' = epoch
      /\ job'[j].pc = "work" /\ job'[j].op = op /\ s \in Seq(OwnKeys)
      /\ \A h \in Jobs \ {j} : job'[h] = job[h]
  BY ReadFacts
<1>2. /\ \A g \in DOMAIN ts : \/ \E i \in DOMAIN s : ts[g] = ExistingTask(op, s, i, seen, cs)
                              \/ \E n \in rest : ts[g] = NewTask(op, n, cs[n])
      /\ \A i \in DOMAIN s : \E g \in DOMAIN ts : ts[g] = ExistingTask(op, s, i, seen, cs)
      /\ \A n \in rest : \E g \in DOMAIN ts : ts[g] = NewTask(op, n, cs[n])
  BY ReadFacts
<1>. Intact' = Intact
  BY <1>1 DEF Intact, OwnNames
<1>3. /\ Wanted' = Wanted /\ \A n : WantedConfig(n)' = WantedConfig(n)
      /\ \A k : InPlace(k)' <=> InPlace(k)
  BY <1>1, SameWanted
<1>4. /\ Mine' = Mine /\ \A k : Status(k)' = Status(k) /\ (Sized(k)' <=> Sized(k))
      /\ \A n : (AtHome(n)' <=> AtHome(n)) /\ (Right(n)' <=> Right(n))
  BY <1>1, SameClusters
<1>5. DOMAIN job[j].tasks = {}
  BY <1>1, NoTasks
<1>6. \A n : Tried(n) => Tried(n)'
  BY <1>1, <1>5 DEF Tried
<1>7. /\ Goal(op) = epoch.clean
      /\ \A h, i \in DOMAIN s : s[h][1] = s[i][1] /\ s[h][1] \in Intact => h = i
  BY <1>1 DEF ReconcileInv, CleanJob
<1>8. /\ op = "delete" => Wanted = <<>>
      /\ op # "delete" => Wanted = cs
  BY <1>7 DEF Goal, Wanted
<1> HIDE DEF cs
<1>9. ASSUME NEW i \in DOMAIN s, s[i][1] \in Intact
      PROVE  LET t == ExistingTask(op, s, i, seen, cs)
                 c == WantedConfig(s[i][1])
             IN  /\ t.at = s[i] /\ ~t.err
                 /\ IF Unchanged(op, seen[s[i]], s[i][2], c) THEN t.pc = "end"
                    ELSE t.pc = "delete" /\ t.config = c
  <2> DEFINE c == IF s[i][1] \in DOMAIN cs THEN cs[s[i][1]] ELSE Absent
             t == ExistingTask(op, s, i, seen, cs)
  <2>1. \A h \in 1..(i - 1) : s[h][1] # s[i][1]
    <3> SUFFICES ASSUME NEW h \in 1..(i - 1), s[h][1] = s[i][1]
                 PROVE  FALSE
      OBVIOUS
    <3>1. i \in 1..Len(s) /\ Len(s) \in Nat /\ DOMAIN s = 1..Len(s)
      BY <1>1
    <3>2. PICK p \in Nat : p = Len(s)
      BY <3>1
    <3>3. i \in 1..p /\ h \in 1..(i - 1)
      BY <3>1, <3>2
    <3>4. h \in 1..p /\ h # i
      BY <3>3
    <3> QED
      BY <1>7, <1>9, <3>1, <3>2, <3>3, <3>4
  <2>2. /\ t.at = s[i] /\ ~t.err
        /\ IF Unchanged(op, seen[s[i]], s[i][2], c) THEN t.pc = "end"
           ELSE t.pc = "delete" /\ t.config = IF op = "delete" THEN Absent ELSE c
    BY <2>1, ExistingFacts
  <2> HIDE DEF t
  <2>3. CASE op = "delete"
    <3>1. WantedConfig(s[i][1]) = Absent
      BY <1>8, <2>3 DEF WantedConfig
    <3>2. \A d : ~Unchanged(op, seen[s[i]], s[i][2], d)
      BY <2>3 DEF Unchanged
    <3> QED
      BY <2>2, <2>3, <3>1, <3>2 DEF t
  <2>4. CASE op # "delete"
    <3>1. WantedConfig(s[i][1]) = c
      BY <1>8, <2>4 DEF WantedConfig
    <3> QED
      BY <2>2, <2>4, <3>1 DEF t
  <2> QED
    BY <2>3, <2>4
<1>10. ASSUME NEW n \in rest
       PROVE  LET t == NewTask(op, n, cs[n])
              IN  /\ t.at[1] = n /\ ~t.err /\ t.pc \in {"end", "create"}
                  /\ t.pc = "create" <=> n \in DOMAIN Wanted
                  /\ t.pc # "end" => t.config = WantedConfig(n) /\ InPlace(t.at)
  <2> DEFINE t == NewTask(op, n, cs[n])
  <2>1. /\ t.at = <<n, cs[n].location>> /\ t.config = cs[n] /\ ~t.err
        /\ t.pc = IF op = "delete" THEN "end" ELSE "create"
    BY NewFacts
  <2> HIDE DEF t
  <2>2. n \in DOMAIN cs /\ t.at[1] = n /\ t.at[2] = cs[n].location
    BY <2>1
  <2>3. CASE op = "delete"
    <3>1. n \notin DOMAIN Wanted /\ t.pc = "end"
      BY <1>8, <2>1, <2>3
    <3> QED
      BY <2>1, <2>2, <3>1 DEF t
  <2>4. CASE op # "delete"
    <3>1. n \in DOMAIN Wanted /\ t.pc = "create" /\ WantedConfig(n) = cs[n] /\ InPlace(t.at)
      BY <1>8, <2>1, <2>2, <2>4 DEF WantedConfig, InPlace
    <3> QED
      BY <2>1, <2>2, <3>1 DEF t
  <2> QED
    BY <2>3, <2>4
<1> HIDE DEF rest
<1>11. ASSUME NEW g \in DOMAIN ts
       PROVE  /\ CleanTask(ts[g])
              /\ \A n \in Intact : \A k : Stays(n, k) => StayTask(ts[g], n, k)
  <2>1. PICK t : t = ts[g]
    OBVIOUS
  <2>2. CASE \E i \in DOMAIN s : t = ExistingTask(op, s, i, seen, cs)
    <3>1. PICK i \in DOMAIN s : t = ExistingTask(op, s, i, seen, cs)
      BY <2>2
    <3>2. /\ t.at = s[i] /\ ~t.err /\ t.pc \in {"delete", "end"}
          /\ t.pc = "delete" /\ s[i][1] \in Intact => t.config = WantedConfig(s[i][1])
      BY <1>9, <3>1, ExistingPc
    <3>3. CleanTask(t)
      BY <3>2 DEF CleanTask
    <3>4. ASSUME NEW n \in Intact, NEW k, Stays(n, k)
          PROVE  StayTask(t, n, k)
      <4>1. s[i][1] = n => s[i] = k
        BY <1>1, <3>4 DEF Stays
      <4> QED
        BY <3>2, <4>1 DEF StayTask
    <3> QED
      BY <2>1, <3>3, <3>4
  <2>3. CASE \E n \in rest : t = NewTask(op, n, cs[n])
    <3>1. PICK n \in rest : t = NewTask(op, n, cs[n])
      BY <2>3
    <3>2. /\ t.at[1] = n /\ ~t.err /\ t.pc \in {"end", "create"}
          /\ t.pc # "end" => t.config = WantedConfig(n) /\ InPlace(t.at)
      BY <1>10, <3>1
    <3>3. CleanTask(t)
      BY <3>2 DEF CleanTask
    <3>4. ASSUME NEW m \in Intact, NEW k, Stays(m, k)
          PROVE  StayTask(t, m, k)
      <4>1. PICK i \in DOMAIN s : s[i] = k
        BY <1>1, <3>4 DEF Stays
      <4>2. k[1] = m /\ n # k[1]
        BY <3>4, <4>1 DEF Stays, rest
      <4> QED
        BY <3>2, <4>2 DEF StayTask
    <3> QED
      BY <2>1, <3>3, <3>4
  <2> QED
    BY <1>2, <2>1, <2>2, <2>3
<1>12. ASSUME NEW h \in Jobs
       PROVE  CleanJob(h)'
  <2>1. CASE h = j
    <3>1. ASSUME NEW g \in DOMAIN ts
          PROVE  CleanTask(job[j].tasks[g])'
      <4>1. PICK t : t = ts[g]
        OBVIOUS
      <4>2. CleanTask(t)
        BY <1>11, <3>1, <4>1
      <4>3. CleanTask(t)'
        BY <1>3, <1>4, <4>2 DEF CleanTask
      <4> QED
        BY <4>1, <4>3 DEF CleanTask
    <3> QED
      BY <1>1, <1>7, <2>1, <3>1 DEF CleanJob
  <2>2. CASE h # j
    <3>1. job'[h] = job[h] /\ CleanJob(h)
      BY <1>1, <2>2 DEF ReconcileInv
    <3>2. ASSUME NEW g \in DOMAIN job[h].tasks
          PROVE  CleanTask(job[h].tasks[g])'
      BY <1>3, <1>4, <3>1 DEF CleanJob, CleanTask
    <3> QED
      BY <1>1, <3>1, <3>2 DEF CleanJob
  <2> QED
    BY <2>1, <2>2
<1>13. \A k \in Mine' : k[1] \in Intact => CleanCluster(k)'
  BY <1>3, <1>4, <1>6 DEF ReconcileInv, CleanCluster
<1>14. ASSUME NEW n \in Intact, NEW k, Stays(n, k)
       PROVE  Stays(n, k)'
  <2>1. k \in Mine /\ k[1] = n /\ ~InPlace(k) /\ \A l \in Mine : l[1] = n => l = k
    BY <1>14 DEF Stays
  <2>2. ASSUME NEW h \in Jobs
        PROVE  /\ job'[h].pc = "read" =>
                    /\ \E g \in DOMAIN job'[h].clusters : job'[h].clusters[g] = k
                    /\ \A g \in DOMAIN job'[h].clusters :
                          job'[h].clusters[g][1] = n => job'[h].clusters[g] = k
               /\ \A g \in DOMAIN job'[h].tasks : StayTask(job'[h].tasks[g], n, k)
    <3>1. CASE h = j
      BY <1>1, <1>11, <1>14, <3>1
    <3>2. CASE h # j
      <4>1. job'[h] = job[h]
        BY <1>1, <3>2
      <4> QED
        BY <1>14, <4>1 DEF Stays
    <3> QED
      BY <3>1, <3>2
  <2> QED
    BY <1>3, <1>4, <2>1, <2>2 DEF Stays
<1>15. \A n \in Intact : Found(n)'
  BY <1>4, <1>14 DEF ReconcileInv, Found
\* Whoever was to be cared for is.
<1>16. ASSUME NEW n \in Intact, Pending(j, n)
       PROVE  Tried(n)'
  <2>1. CASE (\A i \in DOMAIN s : s[i][1] # n) /\ n \in DOMAIN Wanted
    <3>1. n \in rest
      BY <1>8, <2>1 DEF rest
    <3>2. PICK g \in DOMAIN ts : ts[g] = NewTask(op, n, cs[n])
      BY <1>2, <3>1
    <3>3. ts[g].at[1] = n /\ ts[g].pc = "create"
      BY <1>10, <2>1, <3>1, <3>2
    <3>4. Trying(ts[g], n)
      BY <3>3 DEF Trying
    <3> QED
      BY <3>4 DEF Tried
  <2>2. CASE \E i \in DOMAIN s : s[i][1] = n /\ ~Unchanged(op, seen[s[i]], s[i][2], WantedConfig(n))
    <3>1. PICK i \in DOMAIN s :
            s[i][1] = n /\ ~Unchanged(op, seen[s[i]], s[i][2], WantedConfig(n))
      BY <2>2
    <3>2. PICK g \in DOMAIN ts : ts[g] = ExistingTask(op, s, i, seen, cs)
      BY <1>2
    <3>3. ts[g].at[1] = n /\ ts[g].pc = "delete"
      BY <1>9, <3>1, <3>2
    <3>4. Trying(ts[g], n)
      BY <3>3 DEF Trying
    <3> QED
      BY <3>4 DEF Tried
  <2> QED
    BY <1>16, <2>1, <2>2 DEF Pending
<1>17. ASSUME NEW n \in Intact
       PROVE  Cared(n)'
  <2>1. CASE Right(n) \/ Tried(n)
    BY <1>4, <1>6, <2>1 DEF Cared
  <2>2. CASE \E h \in Jobs : job[h].pc = "list" \/ Pending(h, n)
    <3>1. PICK h \in Jobs : job[h].pc = "list" \/ Pending(h, n)
      BY <2>2
    <3>2. CASE h = j
      BY <1>1, <1>16, <3>1, <3>2 DEF Cared
    <3>3. CASE h # j
      <4>1. job'[h] = job[h]
        BY <1>1, <3>3
      <4>2. DOMAIN Wanted' = DOMAIN Wanted /\ WantedConfig(n)' = WantedConfig(n)
        BY <1>3
      <4>3. job'[h].pc = "list" \/ Pending(h, n)'
        BY <3>1, <4>1, <4>2 DEF Pending
      <4> QED
        BY <4>3 DEF Cared
    <3> QED
      BY <3>2, <3>3
  <2> QED
    BY <2>1, <2>2 DEF ReconcileInv, Cared
<1> QED
  BY <1>12, <1>13, <1>15, <1>17 DEF ReconcileInv

LEMMA FinishClean ==
  ASSUME OwnInv, OwnInv', PlacedInv, ReconcileInv, epoch.clean # "no", epoch'.clean # "no",
         NEW j \in Jobs, Finish(j)
  PROVE  ReconcileInv'
<1>1. /\ job' = [job EXCEPT ![j] = Rest] /\ gke' = gke /\ benchmarks' = benchmarks
      /\ job[j].pc = "work" /\ epoch' = epoch
      /\ \A g \in DOMAIN job[j].tasks : job[j].tasks[g].pc = "end" /\ ~job[j].tasks[g].err
  BY UncleanFacts DEF Finish
<1>2. \A h \in Jobs : job'[h] = IF h = j THEN Rest ELSE job[h]
  <2>1. job' = [job EXCEPT ![j] = Rest]
    BY <1>1
  <2> HIDE <1>1
  <2> QED
    BY <2>1, JobAt
<1>3. job'[j].pc = "idle" /\ DOMAIN job'[j].tasks = {} /\ \A h \in Jobs \ {j} : job'[h] = job[h]
  BY <1>2, RestFacts
<1>. Intact' = Intact
  BY <1>1 DEF Intact, OwnNames
<1>4. /\ Wanted' = Wanted /\ \A n : WantedConfig(n)' = WantedConfig(n)
      /\ \A k : InPlace(k)' <=> InPlace(k)
  BY <1>1, SameWanted
<1>5. /\ Mine' = Mine /\ \A k : Status(k)' = Status(k) /\ (Sized(k)' <=> Sized(k))
      /\ \A n : (AtHome(n)' <=> AtHome(n)) /\ (Right(n)' <=> Right(n))
  BY <1>1, SameClusters
<1>6. ASSUME NEW h \in Jobs
      PROVE  CleanJob(h)'
  <2>1. CASE h = j
    BY <1>3, <2>1 DEF CleanJob
  <2>2. CASE h # j
    <3>1. job'[h] = job[h] /\ CleanJob(h)
      BY <1>3, <2>2 DEF ReconcileInv
    <3>2. ASSUME NEW g \in DOMAIN job[h].tasks
          PROVE  CleanTask(job[h].tasks[g])'
      BY <1>4, <1>5, <3>1 DEF CleanJob, CleanTask
    <3> QED
      BY <1>1, <3>1, <3>2 DEF CleanJob
  <2> QED
    BY <2>1, <2>2
<1>7. ASSUME NEW n, Tried(n)
      PROVE  Tried(n)'
  <2>1. PICK h \in Jobs : \E g \in DOMAIN job[h].tasks : Trying(job[h].tasks[g], n)
    BY <1>7 DEF Tried
  <2>2. h # j
    BY <1>1, <2>1 DEF Trying
  <2>3. job'[h] = job[h]
    BY <1>3, <2>2
  <2> QED
    BY <2>1, <2>3 DEF Tried
<1>8. ASSUME NEW n, NEW k, Stays(n, k)
      PROVE  Stays(n, k)'
  <2>1. k \in Mine /\ k[1] = n /\ ~InPlace(k) /\ \A l \in Mine : l[1] = n => l = k
    BY <1>8 DEF Stays
  <2>2. ASSUME NEW h \in Jobs
        PROVE  /\ job'[h].pc = "read" =>
                    /\ \E g \in DOMAIN job'[h].clusters : job'[h].clusters[g] = k
                    /\ \A g \in DOMAIN job'[h].clusters :
                          job'[h].clusters[g][1] = n => job'[h].clusters[g] = k
               /\ \A g \in DOMAIN job'[h].tasks : StayTask(job'[h].tasks[g], n, k)
    <3>1. CASE h = j
      BY <1>3, <3>1
    <3>2. CASE h # j
      <4>1. job'[h] = job[h]
        BY <1>3, <3>2
      <4> QED
        BY <1>8, <4>1 DEF Stays
    <3> QED
      BY <3>1, <3>2
  <2> QED
    BY <1>4, <1>5, <2>1, <2>2 DEF Stays
<1>9. \A h \in Jobs : job[h].pc \in {"list", "read"} => job'[h] = job[h]
  BY <1>1, <1>3
<1>10. \A k \in Mine' : k[1] \in Intact =>
          /\ Status(k)' = "PROVISIONING" => InPlace(k) /\ Sized(k)'
          /\ Status(k)' = "STOPPING" => Tried(k[1])' \/ (k \in Mine /\ Status(k) = "STOPPING")
  BY <1>5 DEF ReconcileInv, CleanCluster
<1> QED
  BY <1>1, <1>5, <1>6, <1>7, <1>8, <1>9, <1>10, CleanStep

LEMMA InitClean == Init => ReconcileInv
  BY DEF Init, NotClean, ReconcileInv

LEMMA ReconcileStep ==
  ASSUME OwnInv, OwnInv', OthersRun, PlacedInv, ReconcileInv, [Next]_vars
  PROVE  ReconcileInv'
<1> SUFFICES ASSUME epoch'.clean # "no"
             PROVE  ReconcileInv'
  BY DEF ReconcileInv
<1>1. CASE UNCHANGED vars
  <2>1. job' = job /\ gke' = gke /\ benchmarks' = benchmarks /\ epoch' = epoch
    BY <1>1 DEF vars
  <2>2. epoch.clean # "no"
    BY <2>1
  <2>3. /\ Wanted' = Wanted /\ \A n : WantedConfig(n)' = WantedConfig(n)
        /\ \A k : InPlace(k)' <=> InPlace(k)
    BY <2>1, SameWanted
  <2>. Intact' = Intact
    BY <2>1 DEF Intact, OwnNames
  <2>4. /\ Mine' = Mine /\ \A k : Status(k)' = Status(k) /\ (Sized(k)' <=> Sized(k))
        /\ \A n : (AtHome(n)' <=> AtHome(n)) /\ (Right(n)' <=> Right(n))
    BY <2>1, SameClusters
  <2>5. ASSUME NEW h \in Jobs
        PROVE  CleanJob(h)'
    <3>1. CleanJob(h)
      BY <2>2 DEF ReconcileInv
    <3>2. ASSUME NEW g \in DOMAIN job[h].tasks
          PROVE  CleanTask(job[h].tasks[g])'
      BY <2>1, <2>3, <2>4, <3>1 DEF CleanJob, CleanTask
    <3> QED
      BY <2>1, <3>1, <3>2 DEF CleanJob
  <2>6. \A n : Tried(n)' <=> Tried(n)
    BY <2>1 DEF Tried
  <2>7. \A n, k : Stays(n, k) => Stays(n, k)'
    BY <2>1, <2>3, <2>4 DEF Stays
  <2>8. \A k \in Mine' : k[1] \in Intact =>
          /\ Status(k)' = "PROVISIONING" => InPlace(k) /\ Sized(k)'
          /\ Status(k)' = "STOPPING" => Tried(k[1])' \/ (k \in Mine /\ Status(k) = "STOPPING")
    BY <2>2, <2>4 DEF ReconcileInv, CleanCluster
  <2> QED
    BY <2>1, <2>2, <2>4, <2>5, <2>6, <2>7, <2>8, CleanStep
<1>2. ASSUME NEW j \in Jobs, NEW f \in Flags, NEW e, Start(j, f, e)
      PROVE  ReconcileInv'
  BY <1>2, StartClean
<1>3. ASSUME NEW j \in Jobs, Fails(j) \/ Kill(j)
      PROVE  FALSE
  BY <1>3, UncleanFacts DEF Fails, Kill
<1>4. ASSUME NEW j \in Jobs, List(j) \/ Read(j) \/ Finish(j)
      PROVE  ReconcileInv'
  <2>1. epoch.clean # "no"
    BY <1>4, UncleanFacts DEF List, Read, Finish
  <2> QED
    BY <1>4, <2>1, ListClean, ReadClean, FinishClean
<1>5. ASSUME NEW j \in Jobs, NEW i \in DOMAIN job[j].tasks,
             \/ Delete(j, i) \/ Deleted(j, i) \/ DeleteFails(j, i)
             \/ Create(j, i) \/ CreateDone(j, i) \/ CreateFails(j, i) \/ GetAfterFailure(j, i)
      PROVE  ReconcileInv'
  <2>1. epoch.clean # "no"
    BY <1>5 DEF Delete, Deleted, DeleteFails, Create, CreateDone, CreateFails, GetAfterFailure
  <2>2. CASE Delete(j, i) \/ Create(j, i)
    <3>1. PICK t : t = job[j].tasks[i]
      OBVIOUS
    <3>2. CASE t.at[1] \in Intact
      BY <2>1, <2>2, <3>1, <3>2, DeleteClean, CreateClean
    <3>3. CASE t.at[1] \notin Intact
      <4>1. /\ t.pc # "end" /\ t \in OwnTask /\ benchmarks' = benchmarks /\ epoch' = epoch
            /\ \A l \in OwnKeys : l # t.at => gke'[l] = gke[l]
            /\ \E u : SameAt(t, u) /\ Become(j, i, u)
        <5>1. CASE Delete(j, i)
          <6>1. /\ t \in OwnTask /\ t.pc \in {"delete", "cleanup"}
                /\ gke' = [gke EXCEPT ![t.at].status = "STOPPING"]
                /\ benchmarks' = benchmarks /\ epoch' = epoch
                /\ \E u : SameAt(t, u) /\ Become(j, i, u)
            BY <3>1, <5>1, DeleteFacts
          <6> QED
            BY <6>1 DEF OwnInv, OwnKeys
        <5>2. CASE Create(j, i)
          BY <3>1, <5>2, CreateFacts DEF OwnInv, OwnKeys
        <5> QED
          BY <2>2, <5>1, <5>2
      <4>2. PICK u : SameAt(t, u) /\ Become(j, i, u)
        BY <4>1
      <4>3. Frame(j, i, u)
        BY <4>2, BecomeFrame
      <4>4. u.err = t.err /\ u.at[1] = t.at[1]
        BY <4>2 DEF SameAt
      <4> QED
        BY <2>1, <3>1, <3>3, <4>1, <4>3, <4>4, HarmedClean
    <3> QED
      BY <3>2, <3>3
  <2>3. CASE ~(Delete(j, i) \/ Create(j, i))
    <3>1. /\ gke' = gke /\ benchmarks' = benchmarks /\ epoch' = epoch
          /\ job[j].tasks[i] \in OwnTask
          /\ \E u : Moves(job[j].tasks[i], u) /\ Become(j, i, u)
      BY <1>5, <2>3, MovesFacts
    <3>2. PICK u : Moves(job[j].tasks[i], u) /\ Become(j, i, u)
      BY <3>1
    <3>3. Frame(j, i, u)
      BY <3>2, BecomeFrame
    <3>4. PICK t : t = job[j].tasks[i]
      OBVIOUS
    <3>5. t \in OwnTask /\ Moves(t, u)
      BY <3>1, <3>2, <3>4
    <3>6. CASE t.at[1] \in Intact
      BY <2>1, <3>1, <3>3, <3>4, <3>5, <3>6, MovesClean
    <3>7. CASE t.at[1] \notin Intact
      <4>1. t.pc # "end" /\ (u.pc = "end" \/ (u.err = t.err /\ u.at[1] = t.at[1]))
        BY <3>5 DEF Moves, Failed, GoesOn, Done, Recreates, SameAt
      <4> QED
        BY <2>1, <3>1, <3>3, <3>4, <3>7, <4>1, HarmedClean
    <3> QED
      BY <3>6, <3>7
  <2> QED
    BY <2>2, <2>3
<1>6. ASSUME NEW k \in Keys, Gke(k)
      PROVE  ReconcileInv'
  <2>1. epoch.clean # "no"
    <3>1. (epoch' = epoch \/ Harms(k[1])) /\ k[1] \in Names
      BY <1>6, GkeFacts DEF Keys
    <3> QED
      BY <3>1, HarmsFacts
  <2> QED
    BY <1>6, <2>1, GkeClean
<1>7. ASSUME NEW b \in BenchmarkNames, ChangeBenchmark(b)
      PROVE  FALSE
  BY <1>7, UncleanFacts DEF ChangeBenchmark
<1> QED
  BY <1>1, <1>2, <1>3, <1>4, <1>5, <1>6, <1>7 DEF Next, Step

LEMMA ReconcileInvariant == Spec => [](OwnInv /\ OthersRun /\ PlacedInv /\ ReconcileInv)
<1>1. Init => OwnInv /\ OthersRun /\ PlacedInv /\ ReconcileInv
  BY InitOwn, InitPlaced, InitClean
<1>2. OwnInv /\ OthersRun /\ PlacedInv /\ ReconcileInv /\ [Next]_vars
        => (OwnInv /\ OthersRun /\ PlacedInv /\ ReconcileInv)'
  BY NextKept, PlacedStep, ReconcileStep DEF Kept
<1> QED
  BY <1>1, <1>2, PTL DEF Spec

\* When all jobs have ended nobody is at anything: everything is as it is to be.
LEMMA ReconcileDone ==
  ASSUME OwnInv, PlacedInv, ReconcileInv
  PROVE  ReconciledIfNoErrors
<1> SUFFICES ASSUME AllIdle, epoch.clean # "no"
             PROVE  /\ epoch.clean = "config" => ConfiguredBut(epoch.failed)
                    /\ epoch.clean = "empty" => \A k \in Mine : k[1] \in epoch.failed
  BY DEF ReconciledIfNoErrors
<1>1. \A j \in Jobs : job[j].pc = "idle" /\ DOMAIN job[j].tasks = {}
  BY NoTasks DEF AllIdle
<1>2. ASSUME NEW n \in Intact
      PROVE  Right(n)
  BY <1>1 DEF ReconcileInv, Cared, Tried, Pending
<1>3. ASSUME NEW k \in Mine, k[1] \notin epoch.failed
      PROVE  InPlace(k) /\ k[1] \in Intact /\ k = <<k[1], k[2]>>
  <2>1. k[1] \in Intact /\ k = <<k[1], k[2]>>
    BY <1>3, MineFacts, KeyFacts DEF Intact
  <2> QED
    BY <1>2, <2>1, RightFacts
<1>4. CASE epoch.clean = "empty"
  <2>1. Wanted = <<>>
    BY <1>4 DEF Wanted
  <2> QED
    BY <1>3, <1>4, <2>1 DEF InPlace
<1>5. CASE epoch.clean = "config"
  <2> DEFINE cs   == benchmarkClusters(benchmarks)
             mine == {k \in Mine : k[1] \notin epoch.failed}
  <2>1. Wanted = cs
    BY <1>5 DEF Wanted
  <2> HIDE DEF cs
  <2>2. ASSUME NEW n \in DOMAIN cs \ epoch.failed
        PROVE  <<n, cs[n].location>> \in mine /\ Sized(<<n, cs[n].location>>)
    <3>1. n \in Intact
      BY <2>1, WantedFacts DEF Intact
    <3>2. PICK k : k = <<n, cs[n].location>>
      OBVIOUS
    <3>3. k \in Mine /\ Sized(k) /\ k[1] = n
      BY <1>2, <2>1, <3>1, <3>2 DEF Right
    <3> QED
      BY <3>2, <3>3
  <2>3. ASSUME NEW k \in mine
        PROVE  /\ k[1] \in DOMAIN cs \ epoch.failed /\ k = <<k[1], cs[k[1]].location>>
               /\ gke[k].CurrentNodeCount = ClusterOf(cs[k[1]], "").CurrentNodeCount
    <3>1. k[1] \in DOMAIN cs \ epoch.failed /\ k = <<k[1], cs[k[1]].location>>
      BY <1>3, <2>1 DEF InPlace
    <3>2. Sized(k)
      BY <2>2, <3>1
    <3> QED
      BY <2>1, <3>1, <3>2 DEF Sized
  <2> HIDE DEF mine
  <2>4. mine = {<<n, cs[n].location>> : n \in DOMAIN cs \ epoch.failed}
    BY <2>2, <2>3
  <2>5. ConfiguredBut(epoch.failed)
    BY <2>3, <2>4 DEF ConfiguredBut, cs, mine
  <2> QED
    BY <1>5, <2>5
<1>6. epoch.clean \in {"config", "empty"}
  BY DEF PlacedInv, Epoch
<1> QED
  BY <1>4, <1>5, <1>6

\* When all jobs have ended, none with an error, and none was killed or met a change of the
\* benchmarks, every benchmark has its cluster, of its size and in its place, and there are
\* no others; after deletions there is none.  Left aside are the names for which GKE has
\* ended an operation with an error, which Wait takes for a success.  This holds of any
\* number of jobs at once, recreating and reconciling, for any benchmarks and any calls
\* that failed and were retried.
THEOREM ReconcileSafe == Spec => []ReconciledIfNoErrors
<1>1. OwnInv /\ OthersRun /\ PlacedInv /\ ReconcileInv => ReconciledIfNoErrors
  BY ReconcileDone
<1> QED
  BY <1>1, ReconcileInvariant, PTL

-----------------------------------------------------------------------------
(* Reconciling what is as configured.                                      *)

LEMMA ConfiguredFacts ==
  ASSUME OwnInv, AsConfigured
  PROVE  LET cs == benchmarkClusters(benchmarks) IN
         /\ \A k \in Mine : /\ k[1] \in DOMAIN cs /\ k[2] = cs[k[1]].location
                            /\ cs[k[1]] \in Configs
                            /\ gke[k].CurrentNodeCount = ClusterOf(cs[k[1]], "").CurrentNodeCount
         /\ \A k, l \in Mine : k[1] = l[1] => k = l
         /\ \A n \in DOMAIN cs : \E k \in Mine : k[1] = n
<1> DEFINE cs == benchmarkClusters(benchmarks)
<1>1. /\ Mine = {<<n, cs[n].location>> : n \in DOMAIN cs}
      /\ \A k \in Mine : gke[k].CurrentNodeCount = ClusterOf(cs[k[1]], "").CurrentNodeCount
  <2>1. {k \in Mine : k[1] \notin {}} = Mine /\ DOMAIN cs \ {} = DOMAIN cs
    OBVIOUS
  <2> QED
    BY <2>1 DEF AsConfigured, ConfiguredBut
<1>2. \A n \in DOMAIN cs : cs[n] \in Configs
  BY ConfigsOfBenchmarks
<1> HIDE DEF cs
<1>3. \A k \in Mine : k[1] \in DOMAIN cs /\ k[2] = cs[k[1]].location /\ k = <<k[1], k[2]>>
  <2> TAKE k \in Mine
  <2>1. PICK n \in DOMAIN cs : k = <<n, cs[n].location>>
    BY <1>1
  <2>2. k[1] = n /\ k[2] = cs[n].location
    BY <2>1
  <2> QED
    BY <2>1, <2>2
<1>4. \A k, l \in Mine : k[1] = l[1] => k = l
  BY <1>3
<1>5. \A n \in DOMAIN cs : \E k \in Mine : k[1] = n
  <2> TAKE n \in DOMAIN cs
  <2>1. PICK k : k = <<n, cs[n].location>>
    OBVIOUS
  <2>2. k \in Mine /\ k[1] = n
    BY <1>1, <2>1
  <2> QED
    BY <2>2
<1> QED
  BY <1>1, <1>2, <1>3, <1>4, <1>5 DEF cs

LEMMA StillConfigured ==
  ASSUME AsConfigured, benchmarks' = benchmarks, Mine' = Mine,
         \A k \in Mine : gke'[k].CurrentNodeCount = gke[k].CurrentNodeCount
  PROVE  AsConfigured'
<1>1. benchmarkClusters(benchmarks)' = benchmarkClusters(benchmarks)
  OBVIOUS
<1> QED
  BY <1>1 DEF AsConfigured, ConfiguredBut

\* A cluster as configured is not touched.
LEMMA UnchangedFacts ==
  ASSUME OwnInv, PlacedInv, AsConfigured, NEW k \in Mine
  PROVE  Unchanged("reconcile", gke[k], k[2], benchmarkClusters(benchmarks)[k[1]])
<1> DEFINE c == benchmarkClusters(benchmarks)[k[1]]
<1>1. /\ c \in Configs /\ c.location = k[2]
      /\ gke[k].CurrentNodeCount = ClusterOf(c, "").CurrentNodeCount
  BY ConfiguredFacts
<1>2. Placed(k)
  BY DEF PlacedInv
<1> HIDE DEF c
<1>3. NodesPerZone(gke[k], k[2]) = c.nodes /\ c # Absent
  BY <1>1, <1>2, NodesFacts, ConfigNodes
<1>4. Unchanged("reconcile", gke[k], k[2], c)
  BY <1>1, <1>3 DEF Unchanged
<1> QED
  BY <1>4 DEF c

\* A job that has no goroutines and has not listed the clusters is a kept one.
LEMMA KeptIdle ==
  ASSUME NEW j \in Jobs, job'[j].pc # "read", DOMAIN job'[j].tasks = {},
         job'[j].pc # "idle" => job'[j].op = "reconcile"
  PROVE  KeptJob(j)'
  BY DEF KeptJob

LEMMA KeptSame ==
  ASSUME NEW j \in Jobs, KeptJob(j), job'[j] = job[j], benchmarks' = benchmarks
  PROVE  KeptJob(j)'
<1>1. benchmarkClusters(benchmarks)' = benchmarkClusters(benchmarks)
  OBVIOUS
<1> QED
  BY <1>1 DEF KeptJob

LEMMA KeptStart ==
  ASSUME OwnInv, PlacedInv, KeptInv, epoch'.clean = "config", epoch'.matched,
         NEW j \in Jobs, NEW f \in Flags, NEW e, Start(j, f, e)
  PROVE  KeptInv'
<1>1. PICK op \in {"recreate", "reconcile", "delete"} :
         /\ job[j].pc = "idle" /\ gke' = gke /\ benchmarks' = benchmarks
         /\ job'[j].pc = "list" /\ job'[j].op = op /\ DOMAIN job'[j].tasks = {}
         /\ \A h \in Jobs \ {j} : job'[h] = job[h]
         /\ IF AllIdle
            THEN epoch'.clean # "no" =>
                    /\ Settled /\ epoch'.clean = Goal(op)
                    /\ epoch'.matched = (op = "reconcile" /\ AsConfigured)
            ELSE epoch'.clean # "no" =>
                    /\ epoch.clean = Goal(op) /\ epoch'.clean = epoch.clean
                    /\ epoch'.failed = epoch.failed
                    /\ epoch'.matched = (epoch.matched /\ op = "reconcile")
  BY StartFacts
<1>2. op = "reconcile"
  BY <1>1
<1>3. AsConfigured /\ (\A k \in Mine : Status(k) # "STOPPING")
      /\ \A h \in Jobs \ {j} : KeptJob(h)'
  <2>1. CASE AllIdle
    <3>1. Settled /\ AsConfigured
      BY <1>1, <2>1
    <3>2. \A h \in Jobs \ {j} : job'[h].pc = "idle" /\ DOMAIN job'[h].tasks = {}
      BY <1>1, <2>1, NoTasks DEF AllIdle
    <3>3. \A h \in Jobs \ {j} : KeptJob(h)'
      BY <3>2, KeptIdle
    <3> QED
      BY <3>1, <3>3 DEF Settled, Busy
  <2>2. CASE ~AllIdle
    <3>1. epoch.clean = "config" /\ epoch.matched
      BY <1>1, <2>2
    <3>2. AsConfigured /\ (\A k \in Mine : Status(k) # "STOPPING") /\ \A h \in Jobs : KeptJob(h)
      BY <3>1 DEF KeptInv
    <3> QED
      BY <1>1, <3>2, KeptSame
  <2> QED
    BY <2>1, <2>2
<1>4. KeptJob(j)'
  BY <1>1, <1>2, KeptIdle
<1>5. Mine' = Mine /\ \A k : Status(k)' = Status(k)
  BY <1>1 DEF Mine, Status
<1>6. AsConfigured'
  BY <1>1, <1>3, <1>5, StillConfigured
<1> QED
  BY <1>3, <1>4, <1>5, <1>6 DEF KeptInv

\* The steps of a clean epoch that has been matched from the beginning.
LEMMA KeptStep ==
  ASSUME OwnInv, PlacedInv, KeptInv, [Next]_vars
  PROVE  KeptInv'
<1> SUFFICES ASSUME epoch'.clean = "config", epoch'.matched
             PROVE  KeptInv'
  BY DEF KeptInv
<1> DEFINE cs == benchmarkClusters(benchmarks)
           Before == epoch.clean = "config" /\ epoch.matched
<1>1. Before => /\ AsConfigured /\ (\A k \in Mine : Status(k) # "STOPPING")
                /\ \A j \in Jobs : KeptJob(j)
  BY DEF KeptInv
<1>2. epoch' = epoch => Before
  OBVIOUS
<1>3. ~Unclean
  BY UncleanFacts
<1>4. ASSUME Before, gke' = gke, benchmarks' = benchmarks, \A h \in Jobs : KeptJob(h)'
      PROVE  KeptInv'
  <2>1. Mine' = Mine /\ \A k : Status(k)' = Status(k)
    BY <1>4 DEF Mine, Status
  <2>2. AsConfigured'
    BY <1>1, <1>4, <2>1, StillConfigured
  <2> QED
    BY <1>1, <1>4, <2>1, <2>2 DEF KeptInv
<1>5. CASE UNCHANGED vars
  <2>1. Before /\ gke' = gke /\ benchmarks' = benchmarks /\ job' = job
    BY <1>2, <1>5 DEF vars
  <2>2. \A h \in Jobs : KeptJob(h)'
    BY <1>1, <2>1, KeptSame
  <2> QED
    BY <1>4, <2>1, <2>2
<1>6. ASSUME NEW j \in Jobs, List(j)
      PROVE  KeptInv'
  <2>1. PICK s \in [1..Cardinality(Mine) -> Mine] :
         /\ \A k \in Mine : \E i \in DOMAIN s : s[i] = k
         /\ \A h, i \in DOMAIN s : s[h] = s[i] => h = i
         /\ job[j].pc = "list" /\ gke' = gke /\ benchmarks' = benchmarks /\ epoch' = epoch
         /\ job'[j].pc = "read" /\ job'[j].op = job[j].op /\ DOMAIN job'[j].tasks = {}
         /\ job'[j].clusters = s /\ \A k \in Mine : job'[j].seen[k] = gke[k]
         /\ \A h \in Jobs \ {j} : job'[h] = job[h]
    BY <1>6, ListFacts
  <2>2. Before /\ AsConfigured /\ KeptJob(j)
    BY <1>1, <1>2, <2>1
  <2>3. KeptJob(j)'
    <3>1. job[j].op = "reconcile"
      BY <2>1, <2>2 DEF KeptJob
    <3>2. /\ \A h, i \in DOMAIN s : s[h][1] = s[i][1] => h = i
          /\ \A n \in DOMAIN cs : \E i \in DOMAIN s : s[i][1] = n
          /\ \A i \in DOMAIN s : s[i] \in Mine /\ s[i][1] \in DOMAIN cs
      <4>1. /\ \A k \in Mine : k[1] \in DOMAIN cs
            /\ \A k, l \in Mine : k[1] = l[1] => k = l
            /\ \A n \in DOMAIN cs : \E k \in Mine : k[1] = n
        BY <2>2, ConfiguredFacts
      <4>2. \A i \in DOMAIN s : s[i] \in Mine
        BY <2>1
      <4> HIDE DEF cs
      <4>3. \A n \in DOMAIN cs : \E i \in DOMAIN s : s[i][1] = n
        BY <2>1, <4>1
      <4> QED
        BY <2>1, <4>1, <4>2, <4>3
    <3>3. \A i \in DOMAIN s :
             Unchanged("reconcile", job'[j].seen[s[i]], s[i][2], cs[s[i][1]])
      BY <2>1, <2>2, <3>2, UnchangedFacts
    <3>4. benchmarkClusters(benchmarks)' = cs
      BY <2>1
    <3> HIDE DEF cs
    <3> QED
      BY <2>1, <3>1, <3>2, <3>3, <3>4 DEF KeptJob
  <2>4. \A h \in Jobs : KeptJob(h)'
    BY <1>1, <2>1, <2>2, <2>3, KeptSame
  <2> QED
    BY <1>4, <2>1, <2>2, <2>4
<1>7. ASSUME NEW j \in Jobs, Read(j)
      PROVE  KeptInv'
  <2> DEFINE s    == job[j].clusters
             rest == DOMAIN cs \ {s[i][1] : i \in DOMAIN s}
             ts   == job'[j].tasks
             seen == job[j].seen
  <2>1. /\ job[j].pc = "read" /\ gke' = gke /\ benchmarks' = benchmarks /\ epoch' = epoch
        /\ job'[j].pc = "work" /\ job'[j].op = job[j].op /\ s \in Seq(OwnKeys)
        /\ \A h \in Jobs \ {j} : job'[h] = job[h]
        /\ \A g \in DOMAIN ts :
              \/ \E i \in DOMAIN s : ts[g] = ExistingTask(job[j].op, s, i, seen, cs)
              \/ \E n \in rest : ts[g] = NewTask(job[j].op, n, cs[n])
    BY <1>7, ReadFacts
  <2>2. Before /\ KeptJob(j)
    BY <1>1, <1>2, <2>1
  <2>3. /\ job[j].op = "reconcile"
        /\ \A h, i \in DOMAIN s : s[h][1] = s[i][1] => h = i
        /\ \A n \in DOMAIN cs : \E i \in DOMAIN s : s[i][1] = n
        /\ \A i \in DOMAIN s : /\ s[i][1] \in DOMAIN cs
                               /\ Unchanged("reconcile", seen[s[i]], s[i][2], cs[s[i][1]])
    BY <2>1, <2>2 DEF KeptJob
  <2>4. rest = {}
    BY <2>3
  <2>5. ASSUME NEW g \in DOMAIN ts
        PROVE  ts[g].pc = "end"
    <3>1. PICK i \in DOMAIN s : ts[g] = ExistingTask(job[j].op, s, i, seen, cs)
      BY <2>1, <2>4
    <3>2. \A h \in 1..(i - 1) : s[h][1] # s[i][1]
      <4> SUFFICES ASSUME NEW h \in 1..(i - 1), s[h][1] = s[i][1]
                   PROVE  FALSE
        OBVIOUS
      <4>1. i \in 1..Len(s) /\ Len(s) \in Nat /\ DOMAIN s = 1..Len(s)
        BY <2>1
      <4>2. PICK p \in Nat : p = Len(s)
        BY <4>1
      <4>3. i \in 1..p /\ h \in 1..(i - 1)
        BY <4>1, <4>2
      <4>4. h \in 1..p /\ h # i
        BY <4>3
      <4> QED
        BY <2>3, <4>1, <4>2, <4>4
    <3> HIDE DEF cs
    <3>3. Unchanged(job[j].op, seen[s[i]], s[i][2],
                    IF s[i][1] \in DOMAIN cs THEN cs[s[i][1]] ELSE Absent)
      BY <2>3
    <3> QED
      BY <3>1, <3>2, <3>3, ExistingFacts
  <2>6. KeptJob(j)'
    BY <2>1, <2>3, <2>5 DEF KeptJob
  <2>7. \A h \in Jobs : KeptJob(h)'
    BY <1>1, <2>1, <2>2, <2>6, KeptSame
  <2> QED
    BY <1>4, <2>1, <2>2, <2>7
<1>8. ASSUME NEW j \in Jobs, Fails(j) \/ Kill(j)
      PROVE  FALSE
  BY <1>3, <1>8 DEF Fails, Kill
<1>9. ASSUME NEW j \in Jobs, Finish(j)
      PROVE  KeptInv'
  <2>1. /\ job' = [job EXCEPT ![j] = Rest] /\ gke' = gke /\ benchmarks' = benchmarks
        /\ epoch' = epoch
    BY <1>3, <1>9 DEF Finish
  <2>2. \A h \in Jobs : job'[h] = IF h = j THEN Rest ELSE job[h]
    BY <2>1 DEF OwnInv
  <2>3. KeptJob(j)'
    BY <2>2, RestFacts, KeptIdle
  <2>4. \A h \in Jobs : KeptJob(h)'
    BY <1>1, <1>2, <2>1, <2>2, <2>3, KeptSame
  <2> QED
    BY <1>2, <1>4, <2>1, <2>4
\* Nobody is at work.
<1>10. ASSUME NEW j \in Jobs, NEW i \in DOMAIN job[j].tasks,
              \/ Delete(j, i) \/ Deleted(j, i) \/ DeleteFails(j, i)
              \/ Create(j, i) \/ CreateDone(j, i) \/ CreateFails(j, i) \/ GetAfterFailure(j, i)
       PROVE  FALSE
  <2>1. Before
    BY <1>2, <1>10 DEF Delete, Deleted, DeleteFails, Create, CreateDone, CreateFails,
                       GetAfterFailure
  <2>2. job[j].tasks[i].pc = "end"
    BY <1>1, <2>1 DEF KeptJob
  <2> QED
    BY <1>10, <2>2 DEF Delete, Deleted, DeleteFails, Create, CreateDone, CreateFails,
                       GetAfterFailure, At
<1>11. ASSUME NEW k \in Keys, Gke(k)
       PROVE  KeptInv'
  <2>1. job' = job /\ benchmarks' = benchmarks /\ Before
    <3>1. k[1] \in Names
      BY DEF Keys
    <3>2. job' = job /\ benchmarks' = benchmarks /\ (epoch' = epoch \/ Harms(k[1]))
      BY <1>11, GkeFacts
    <3>3. CASE Harms(k[1])
      <4>1. epoch'.clean = epoch.clean /\ epoch'.matched = epoch.matched
        BY <3>1, <3>3, HarmsFacts
      <4> QED
        BY <3>2, <4>1
    <3> QED
      BY <1>2, <3>2, <3>3
  <2>2. Before /\ AsConfigured /\ (\A l \in Mine : Status(l) # "STOPPING")
        /\ \A h \in Jobs : KeptJob(h)'
    BY <1>1, <1>2, <2>1, KeptSame
  <2>3. /\ Mine' = Mine /\ \A l \in Mine : Status(l)' # "STOPPING"
        /\ \A l \in Mine : gke'[l].CurrentNodeCount = gke[l].CurrentNodeCount
    <3>1. ~(k \in Mine /\ Status(k) = "STOPPING")
      BY <2>2
    <3>2. CASE \E r \in {"RUNNING", "ERROR"} : k \in Mine /\ gke' = [gke EXCEPT ![k].status = r]
      <4>1. PICK r \in {"RUNNING", "ERROR"} : k \in Mine /\ gke' = [gke EXCEPT ![k].status = r]
        BY <3>2
      <4>2. r \in Statuses
        BY <4>1 DEF Statuses
      <4>3. /\ Mine' = Mine /\ Status(k)' = r
            /\ \A l \in OwnKeys : l # k => Status(l)' = Status(l)
            /\ \A l \in Mine : gke'[l].CurrentNodeCount = gke[l].CurrentNodeCount
        BY <2>1, <4>1, <4>2, StatusStep
      <4> QED
        BY <2>2, <4>1, <4>3, MineFacts
    <3>3. CASE \A l \in OwnKeys : gke'[l] = gke[l]
      <4>1. /\ Mine' = Mine /\ \A l \in OwnKeys : Status(l)' = Status(l)
        BY <3>3, SameOwn
      <4>2. \A l \in Mine : l \in OwnKeys
        BY MineFacts
      <4> QED
        BY <2>2, <3>3, <4>1, <4>2
    <3> QED
      BY <1>11, <3>1, <3>2, <3>3, GkeFacts
  <2>4. AsConfigured'
    BY <2>1, <2>2, <2>3, StillConfigured
  <2> QED
    BY <2>2, <2>3, <2>4 DEF KeptInv
<1>12. ASSUME NEW b \in BenchmarkNames, ChangeBenchmark(b)
       PROVE  FALSE
  BY <1>3, <1>12 DEF ChangeBenchmark
<1>13. ASSUME NEW j \in Jobs, NEW f \in Flags, NEW e, Start(j, f, e)
       PROVE  KeptInv'
  BY <1>13, KeptStart
<1> QED
  BY <1>5, <1>6, <1>7, <1>8, <1>9, <1>10, <1>11, <1>12, <1>13 DEF Next, Step

\* Reconciling touches no cluster of a benchmark that is unchanged: with the clusters as
\* configured when the first of the jobs starts, they are at every moment.
THEOREM KeptSafe == Spec => []KeptIfUnchanged
<1>1. Init => KeptInv
  BY DEF Init, NotClean, KeptInv
<1>2. OwnInv /\ PlacedInv /\ KeptInv /\ [Next]_vars => KeptInv'
  BY KeptStep
<1>3. KeptInv => KeptIfUnchanged
  BY DEF KeptInv, KeptIfUnchanged
<1> QED
  BY <1>1, <1>2, <1>3, ReconcileInvariant, PTL DEF Spec

=============================================================================
