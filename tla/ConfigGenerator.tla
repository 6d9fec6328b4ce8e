-------------------------- MODULE ConfigGenerator --------------------------
(***************************************************************************)
(* config-generator: from one file that lists the jobs of every repository  *)
(* it writes the Prow jobs, the dashboards of the Kubernetes TestGrid, and  *)
(* the TestGrid configuration.  An action is one call of a generator for an *)
(* entry of the file, in the order of main; the jobs, the repositories and  *)
(* the metadata of TestGrid that the calls share are the variables.         *)
(*                                                                         *)
(* A name is the sequence of the words its hyphens separate, so that names  *)
(* collide here exactly when they do there; names are in lower case.        *)
(***************************************************************************)
EXTENDS Integers, Sequences, FiniteSets, SequencesExt

CONSTANTS
    Configs,           \* the files
    Branches,          \* the release branches each repository may have, by repository
    majorMinor,        \* the numbers of each version: <<0, 20>> of "0.20"
    mainBranchRepos,   \* repositories whose default branch is main
    customJobnames,    \* jobs written by hand
    jobNameFilter,     \* --job-filter, or <<>>
    timeoutOverride    \* --timeout-override, or 0

Versions == DOMAIN majorMinor

\* An entry of a job's configuration: on, text and num hold what getBool, getString and
\* getInt return of its value, or the words of its key.
Entry == [key : STRING, on : BOOLEAN, text : Seq(STRING), num : Int]

\* The jobs of a repository in one section of the file.
Section == [repo : [org : Seq(STRING), name : Seq(STRING)], jobs : Seq(Seq(Entry))]

ASSUME GeneratorAssumption ==
    /\ Configs \subseteq [presubmits : Seq(Section), periodics : Seq(Section)]
    /\ majorMinor \in [Versions -> Nat \X Nat] /\ "" \notin Versions
    /\ \A v, w \in Versions : majorMinor[v] = majorMinor[w] => v = w
    /\ timeoutOverride \in Nat /\ customJobnames \in Seq(Seq(STRING))

VARIABLES
    pc,            \* the phase of main
    upgraded,      \* history: the file before --upgrade-release-branches, and what it saw
    file,          \* the configuration file
    todo,          \* the calls of this phase that are left
    repositories,  \* the list of repositories, one for each presubmit job
    output,        \* the lines of the Prow job configuration: headings and jobs
    jobs,          \* the jobs among them
    metaData,      \* the metadata of TestGrid and the coverage map
    grid           \* the configurations of both TestGrids

vars == <<pc, upgraded, file, todo, repositories, output, jobs, metaData, grid>>

-----------------------------------------------------------------------------
(* The release branches of the file.                                       *)

maxReleaseBranches == 4

\* versionComp(v, w) > 0.
Newer(v, w) ==
    LET a == majorMinor[v]
        b == majorMinor[w]
    IN  a[1] > b[1] \/ (a[1] = b[1] /\ a[2] > b[2])

\* filterLatest: the newest of the branches release-X.Y, or "".
filterLatest(vs) ==
    IF vs = {} THEN "" ELSE CHOOSE v \in vs : \A w \in vs \ {v} : Newer(v, w)

Has(job, key) == \E i \in DOMAIN job : job[i].key = key

\* The last entry counts: they are read one after the other.
ValueOf(job, key) == job[CHOOSE i \in DOMAIN job :
                            job[i].key = key /\ \A k \in (i + 1)..Len(job) : job[k].key # key]

ReleaseOf(job) == IF Has(job, "release") THEN ValueOf(job, "release").text[1] ELSE ""

\* getBranch: the version of a job of this kind, "branch-ci" or "dot-release", or "".
getBranch(job, kind) ==
    IF Has(job, kind) /\ (kind = "branch-ci" \/ ~Has(job, "branch-ci")) THEN ReleaseOf(job) ELSE ""

\* The versions of the jobs of a kind.
VersionsOf(js, kind) == {getBranch(js[i], kind) : i \in DOMAIN js} \ {""}

\* The jobs of newer versions of a kind, at i: the versions before v in the sorted list.
NewerThan(js, kind, v) ==
    {i \in DOMAIN js : getBranch(js[i], kind) # "" /\ Newer(getBranch(js[i], kind), v)}

WithRelease(job, v) ==
    [i \in DOMAIN job |-> IF job[i].key = "release" THEN [job[i] EXCEPT !.text = <<v>>] ELSE job[i]]

\* Mutant: the oldest branch is counted as if the latest were in the list already.
updateConfigForJobKeepingOne(js, kind, latest) ==
    LET updated(job) ==
            LET v == getBranch(job, kind)
            IN  IF v = "" THEN <<job>>
                ELSE IF Cardinality(NewerThan(js, kind, v)) >= maxReleaseBranches THEN <<>>
                ELSE IF NewerThan(js, kind, v) = {} THEN <<job, WithRelease(job, latest)>>
                ELSE <<job>>
    IN  FlattenSeq([i \in DOMAIN js |-> updated(js[i])])

\* updateConfigForJob: jobs of versions older than the oldest to support, the third of the
\* list, are dropped, and those of the first are copied for the latest.
updateConfigForJob(js, kind, latest) ==
    LET updated(job) ==
            LET v == getBranch(job, kind)
            IN  IF v = "" THEN <<job>>
                ELSE IF Cardinality(NewerThan(js, kind, v)) >= maxReleaseBranches - 1 THEN <<>>
                ELSE IF NewerThan(js, kind, v) = {} THEN <<job, WithRelease(job, latest)>>
                ELSE <<job>>
    IN  FlattenSeq([i \in DOMAIN js |-> updated(js[i])])

UpdateKind(js, kind, latest) ==
    LET vs == VersionsOf(js, kind)
    IN  IF vs = {} \/ latest \in vs THEN js ELSE updateConfigForJob(js, kind, latest)

\* getReposMap for one repository.
UpgradeRepo(js, latest) ==
    IF latest = "" THEN js
    ELSE UpdateKind(UpdateKind(js, "branch-ci", latest), "dot-release", latest)

\* upgradeReleaseBranchesTemplate: all sections but presubmits.
upgradeReleaseBranchesTemplate(c, released) ==
    LET ps == c.periodics
        upgrade(s) == [s EXCEPT !.jobs = UpgradeRepo(s.jobs, filterLatest(released[s.repo]))]
    IN  [c EXCEPT !.periodics = [i \in DOMAIN ps |-> upgrade(ps[i])]]

-----------------------------------------------------------------------------
(* The parts of a job.                                                     *)

\* newbaseProwJobTemplateData.
newbase(repo) ==
    [repo |-> repo, branch |-> IF repo \in mainBranchRepos THEN "main" ELSE "master",
     timeout |-> 50, account |-> "test-account", command |-> "", args |-> <<>>,
     image |-> "stable", volumes |-> <<>>, env |-> <<>>, monitor |-> FALSE,
     needsMonitor |-> FALSE, alwaysRun |-> TRUE, optional |-> FALSE, threshold |-> 0,
     fatal |-> FALSE]

RepoNameForJob(repo) == repo.org \o repo.name

addVolumeToJob(b, name) == [b EXCEPT !.volumes = Append(@, name)]

addEnvToJob(b, key) == [b EXCEPT !.env = Append(@, key)]

setupDockerInDockerForJob(b) ==
    addEnvToJob([b EXCEPT !.volumes = @ \o <<"docker-graph", "modules", "cgroup">>],
                "DOCKER_IN_DOCKER_ENABLED")

addMonitoringPubsubLabelsToJob(b) == [b EXCEPT !.monitor = TRUE]

\* The credentials of the service account, if it has one.
ConfigureAccount(b) ==
    IF b.account = "" THEN b ELSE addVolumeToJob(b, b.account)

AccountEnv(b) ==
    IF b.account = "" THEN b
    ELSE addEnvToJob(addEnvToJob(b, "GOOGLE_APPLICATION_CREDENTIALS"), "E2E_CLUSTER_REGION")

\* One entry of parseBasicJobConfigOverrides; an unknown one is fatal.
Override(b, e) ==
    CASE e.key = "timeout"       -> [b EXCEPT !.timeout = e.num]
      [] e.key = "args"          -> [b EXCEPT !.args = e.text]
      [] e.key = "command"       -> [b EXCEPT !.command = e.text[1]]
      [] e.key = "needs-monitor" -> [b EXCEPT !.needsMonitor = e.on]
      [] e.key = "needs-dind"    -> IF e.on THEN setupDockerInDockerForJob(b) ELSE b
      [] e.key = "always-run"    -> [b EXCEPT !.alwaysRun = e.on]
      [] e.key = "optional"      -> [b EXCEPT !.optional = e.on]
      [] e.key = "env-vars"      -> IF e.on THEN addEnvToJob(b, e.text[1])
                                            ELSE [b EXCEPT !.fatal = TRUE]
      [] e.key \in {"skip_branches", "branches", "performance", "resources",
                    "reporter_config"} -> b
      [] OTHER                   -> [b EXCEPT !.fatal = TRUE]

\* parseBasicJobConfigOverrides, for the entries that the caller has not taken itself.
parseBasicJobConfigOverrides(b, job, own) ==
    LET c == FoldLeft(LAMBDA x, e : IF e.key \in own THEN x ELSE Override(x, e), b, job)
    IN  IF timeoutOverride > 0 THEN [c EXCEPT !.timeout = timeoutOverride] ELSE c

\* An entry "performance" is set for all entries of repositories with that name so far.
SetPerformance(rs, repo, job) ==
    IF ~Has(job, "performance") THEN rs
    ELSE [i \in DOMAIN rs |->
            IF rs[i].repo.name = repo.name
            THEN [rs[i] EXCEPT !.EnablePerformanceTests = ValueOf(job, "performance").on]
            ELSE rs[i]]

\* The times of a day at which a job runs, and whether on one day of the week only.  All
\* runs of a job start at the same minute of the hour, a hash of its name.
Cron(hours, weekly) == [hours |-> hours, weekly |-> weekly]

NoCron == Cron({}, FALSE)

getUTCtime(i) == IF i + 7 > 23 THEN i + 7 - 24 ELSE i + 7

\* Mutant: the five minutes are forgotten.
HoursApartExact(timeout) == (timeout \div 60) + 1

\* At least five minutes between runs, when the day is a multiple of these hours.
HoursApart(timeout) == ((timeout + 5) \div 60) + 1

generateCron(type, repo, timeout) ==
    CASE type \in {"continuous", "custom-job", "auto-release"} ->
             Cron({h \in 0..23 : h % HoursApart(timeout) = 0}, FALSE)
      [] type = "branch-ci"   -> Cron({getUTCtime(1)}, FALSE)
      [] type = "nightly"     -> Cron({getUTCtime(2)}, FALSE)
      [] type = "dot-release" ->
             Cron({getUTCtime(IF Last(repo.name) = "operator" /\ Len(repo.name) > 1
                              THEN 12 ELSE 2)}, TRUE)
      [] OTHER                -> NoCron

\* getTestgroupExtras: when TestGrid alerts, after so many failures or stale for so many
\* hours; or the metric it shows.
getTestgroupExtras(released, key) ==
    CASE key = "continuous"   -> IF released THEN {"3 failures"} ELSE {"stale 3"}
      [] key = "dot-release"  -> {"1 failure", "stale 170"}
      [] key \in {"auto-release", "nightly"} -> {"1 failure"}
      [] key = "test-coverage" -> {"coverage"}
      [] OTHER -> {"stale 3"}

\* The annotations name a dashboard and a tab of it, and repeat the alerts.
Annotations(dashboard, tab, extras) == [dashboard |-> dashboard, tab |-> tab, extras |-> extras]

NoAnnotations == Annotations(<<>>, <<>>, {})

Job(kind, name, b, cron, annotations) ==
    [kind |-> kind, name |-> name, base |-> b, cron |-> cron, annotations |-> annotations]

-----------------------------------------------------------------------------
(* The output.                                                             *)

Line(what, title, repo, name) == [what |-> what, title |-> title, repo |-> repo, name |-> name]

NoRepo == [org |-> <<>>, name |-> <<>>]

\* Mutant: that a repository had a heading in another section counts.
HasHeadingAnywhere(lines, title, repo) ==
    \E i \in DOMAIN lines : /\ lines[i].what # "job" /\ lines[i].repo = repo
                             /\ repo = NoRepo => lines[i].title = title

HasHeading(lines, title, repo) ==
    \E i \in DOMAIN lines : lines[i].what # "job" /\ lines[i].title = title /\ lines[i].repo = repo

\* executeJobTemplate: the heading of the section and of the repository, if they have not
\* been written before, and the job.
executeJobTemplate(lines, title, repo, groupByRepo, name) ==
    IF jobNameFilter # <<>> /\ jobNameFilter # name THEN lines
    ELSE LET l1 == IF HasHeading(lines, title, NoRepo) THEN lines
                   ELSE Append(lines, Line("section", title, NoRepo, <<>>))
             l2 == IF ~groupByRepo \/ HasHeading(l1, title, repo) THEN l1
                   ELSE Append(l1, Line("repo", title, repo, <<>>))
         IN  Append(l2, Line("job", title, repo, name))

\* Several jobs, one after the other; grouped are the indices of those with groupByRepo.
WriteAll(title, repo, js, grouped) ==
    /\ output' = FoldLeft(LAMBDA ls, i : executeJobTemplate(ls, title, repo, i \in grouped,
                                                            js[i].name),
                          output, [i \in DOMAIN js |-> i])
    /\ jobs' = FoldLeft(LAMBDA s, j : IF jobNameFilter \in {<<>>, j.name} THEN Append(s, j) ELSE s,
                        jobs, js)

-----------------------------------------------------------------------------
(* The presubmit jobs.                                                     *)

\* generatePresubmit reads its own entries.
PresubmitKeys == {"build-tests", "unit-tests", "integration-tests", "go-coverage",
                  "custom-test", "go-coverage-threshold", "repo-settings", "run-if-changed"}

PresubmitEntry(d, e) ==
    IF d.return THEN d
    ELSE CASE e.key \in {"build-tests", "unit-tests", "integration-tests"} ->
                LET b == addVolumeToJob(d.base, "repoview-token")
                IN  [d EXCEPT !.return = ~e.on, !.suffix = e.text,
                              !.base = [b EXCEPT !.args = IF b.args = <<>> THEN e.text ELSE b.args]]
           [] e.key = "go-coverage" ->
                [d EXCEPT !.return = ~e.on, !.suffix = <<"go", "coverage">>, !.coverage = TRUE,
                          !.base = [addVolumeToJob(@, "covbot-token") EXCEPT !.account = ""]]
           [] e.key = "custom-test" -> [d EXCEPT !.suffix = e.text]
           [] e.key = "go-coverage-threshold" -> [d EXCEPT !.base.threshold = e.num]
           [] e.key = "repo-settings" -> [d EXCEPT !.generate = FALSE]
           [] OTHER -> d

Presubmit(repo, job) ==
    FoldLeft(PresubmitEntry,
             [return |-> FALSE, generate |-> TRUE, coverage |-> FALSE, suffix |-> <<>>,
              base |-> [newbase(repo) EXCEPT !.command = "presubmit-script", !.threshold = 50]],
             job)

\* The coverage of this repository has jobs of its own for debugging.
Debugged(name) == name = <<"knative", "serving", "go", "coverage">>

PresubmitJobs(d, repo, job) ==
    LET b  == parseBasicJobConfigOverrides(d.base, job, PresubmitKeys)
        e  == AccountEnv(b)
        c  == IF b.needsMonitor THEN addMonitoringPubsubLabelsToJob(e) ELSE e
        name == RepoNameForJob(repo) \o d.suffix
        j  == Job("presubmit", <<"pull">> \o name, ConfigureAccount(c), NoCron, NoAnnotations)
    IN  IF ~Debugged(name) THEN <<j>>
        ELSE <<j, [j EXCEPT !.name = Append(@, "dev"), !.base.alwaysRun = FALSE,
                            !.base.image = "coverage-dev"]>>

\* A call that ends in logFatalf ends the program.
Fatal == pc' = "failed" /\ UNCHANGED <<upgraded, file, todo, repositories, output, jobs,
                                       metaData, grid>>

repositoryData(repo, coverage, threshold) ==
    [repo |-> repo, EnableGoCoverage |-> coverage, GoCoverageThreshold |-> threshold,
     EnablePerformanceTests |-> FALSE, Processed |-> FALSE]

generatePresubmit(repo, job) ==
    LET d  == Presubmit(repo, job)
        js == PresubmitJobs(d, repo, job)
        data == repositoryData(repo, d.coverage, d.base.threshold)
    IN  \/ d.return /\ UNCHANGED <<repositories, output, jobs>>
        \/ /\ ~d.return
           /\ repositories' = SetPerformance(Append(repositories, data), repo, job)
           /\ IF d.generate THEN WriteAll("presubmits", repo, js, DOMAIN js)
                            ELSE UNCHANGED <<output, jobs>>

PresubmitFatal(repo, job) ==
    LET d == Presubmit(repo, job)
    IN  ~d.return /\ parseBasicJobConfigOverrides(d.base, job, PresubmitKeys).fatal

-----------------------------------------------------------------------------
(* The periodic jobs.                                                      *)

PeriodicKeys == {"continuous", "nightly", "branch-ci", "dot-release", "auto-release",
                 "custom-job", "cron", "release"}

\* What each type of job sets.
PeriodicType(d, e) ==
    LET b == [d.base EXCEPT !.timeout = 180]
        t == [d EXCEPT !.return = ~e.on, !.type = e.key]
    IN  CASE e.key = "continuous" ->
                 [t EXCEPT !.suffix = <<"continuous">>, !.continuous = TRUE,
                           !.base = [b EXCEPT !.command = "presubmit-script",
                                              !.args = <<"--all-tests">>]]
          [] e.key = "branch-ci" ->
                 [t EXCEPT !.suffix = <<"continuous">>, !.continuous = TRUE,
                           !.base = [setupDockerInDockerForJob(b) EXCEPT
                                       !.command = "release-script", !.args = <<"--nopublish">>]]
          [] e.key = "nightly" ->
                 [t EXCEPT !.suffix = <<"nightly", "release">>,
                           !.base = [b EXCEPT !.command = "release-script",
                                       !.args = <<"--publish">>, !.account = "nightly-account"]]
          [] OTHER ->
                 [t EXCEPT !.suffix = e.text,
                           !.base = [addVolumeToJob(IF d.base.repo.org = <<"knative">> THEN b
                                                    ELSE addEnvToJob(b, "ORG_NAME"), "hub-token")
                                       EXCEPT !.command = "release-script",
                                              !.args = <<"--" , e.key>>,
                                              !.account = "release-account"]]

\* Mutant: the name of the job does not tell the release.
ReleaseUnnamed(d, v) ==
    [d EXCEPT !.base.branch = v, !.base.args = IF d.type = "dot-release" THEN Append(@, v) ELSE @]

\* A job for a release branch, of which v is the version.
Release(d, v) ==
    [d EXCEPT !.suffix = <<v>> \o @, !.base.branch = v,
              !.base.args = IF d.type = "dot-release" THEN Append(@, v) ELSE @]

\* One entry of generatePeriodic; the annotations are made anew after each entry it knows.
PeriodicEntry(d, e) ==
    IF d.return \/ e.key \notin PeriodicKeys THEN d
    ELSE LET f == CASE e.key = "cron" -> [d EXCEPT !.cron = Cron({e.num}, FALSE)]
                    [] e.key = "release" -> Release(d, e.text[1])
                    [] e.key = "custom-job" -> [d EXCEPT !.type = e.key, !.suffix = e.text,
                                                         !.base.timeout = 120]
                    [] OTHER -> PeriodicType(d, e)
             repo == d.base.repo
         IN  [f EXCEPT !.annotations = Annotations(repo.org \o repo.name,
                                                   RepoNameForJob(repo) \o f.suffix,
                                                   getTestgroupExtras(FALSE, e.key))]

Periodic(repo, job) ==
    FoldLeft(PeriodicEntry,
             [return |-> FALSE, type |-> "", suffix |-> <<>>, continuous |-> FALSE,
              cron |-> NoCron, annotations |-> NoAnnotations, base |-> newbase(repo)], job)

PeriodicBase(d, job) == parseBasicJobConfigOverrides(d.base, job, PeriodicKeys)

PeriodicCron(d, b) ==
    IF d.cron # NoCron THEN d.cron ELSE generateCron(d.type, d.base.repo, b.timeout)

\* The copy of a job that tests the next image.
betaDashboard == <<"knative", "prow", "tests">>
Beta(name) == name \o <<"beta", "prow", "tests">>

BetaOf(j, cron) ==
    [j EXCEPT !.name = Beta(@), !.base.image = "beta", !.cron = cron,
              !.annotations.dashboard = betaDashboard, !.annotations.tab = Beta(@)]

PeriodicJobs(d, repo, job) ==
    LET b == PeriodicBase(d, job)
        c == IF b.branch = "master" THEN AccountEnv(b) ELSE addEnvToJob(AccountEnv(b), "PULL_BASE_REF")
        j == Job("periodic", <<"ci">> \o RepoNameForJob(repo) \o d.suffix, ConfigureAccount(c),
                 PeriodicCron(d, b), d.annotations)
    IN  IF ~d.continuous THEN <<j>>
        ELSE <<j, BetaOf(j, Cron({getUTCtime(1), getUTCtime(4)} \cup
                                 (IF d.type = "continuous" THEN {getUTCtime(15)} ELSE {}), FALSE))>>

\* metaData, with the coverage map that belongs to it.
NewTestGridMetaData ==
    [md |-> <<>>, projNames |-> <<>>, repoNames |-> <<>>, nonAligned |-> <<>>, coverage |-> {}]

AddNonAlignedTest(m, t) == [m EXCEPT !.nonAligned = Append(@, t)]

\* The test group of a beta job, on a dashboard of its own.
NonAligned(group, dashboard, tab, name) ==
    [DashboardGroup |-> group, DashboardName |-> dashboard, HumanTabName |-> tab,
     CIJobName |-> name]

BetaTest(js) == NonAligned(<<"prow", "tests">>, <<"beta", "prow", "tests">>, js[1].name, js[2].name)

generatePeriodic(repo, job) ==
    LET d  == Periodic(repo, job)
        js == PeriodicJobs(d, repo, job)
    IN  \/ d.return /\ UNCHANGED <<repositories, output, jobs, metaData>>
        \/ /\ ~d.return
           /\ repositories' = SetPerformance(repositories, repo, job)
           /\ WriteAll("periodics", repo, js, {})
           /\ metaData' = IF Len(js) = 1 THEN metaData
                          ELSE AddNonAlignedTest(metaData, BetaTest(js))

\* No cron string, or nothing to run.
PeriodicFatal(repo, job) ==
    LET d == Periodic(repo, job)
        b == PeriodicBase(d, job)
    IN  ~d.return /\ \/ b.fatal \/ PeriodicCron(d, b) = NoCron
                     \/ b.args = <<>> /\ b.command = ""

\* generateGoCoveragePeriodic: for the first entry of the repository with coverage, if any.
CoverageEntries(repo) == {i \in DOMAIN repositories :
                            repositories[i].repo = repo /\ repositories[i].EnableGoCoverage}

generateGoCoveragePeriodic(repo) ==
    IF CoverageEntries(repo) = {} THEN UNCHANGED <<repositories, output, jobs, metaData>>
    ELSE LET i == CHOOSE k \in CoverageEntries(repo) : \A h \in CoverageEntries(repo) : k <= h
             name == RepoNameForJob(repo) \o <<"go", "coverage">>
             b == [addMonitoringPubsubLabelsToJob(newbase(repo)) EXCEPT
                     !.command = "runner.sh", !.args = <<"coverage">>, !.account = "",
                     !.threshold = repositories[i].GoCoverageThreshold]
             \* The metric is given under a name that the annotations do not know.
             j == Job("periodic", <<"ci">> \o name, b, Cron({1}, FALSE),
                      Annotations(repo.org \o repo.name, name, {}))
             js == <<j, BetaOf(j, Cron({getUTCtime(0)}, FALSE))>>
         IN  /\ repositories' = [repositories EXCEPT ![i].Processed = TRUE]
             /\ WriteAll("periodics", repo, js, {})
             /\ metaData' = AddNonAlignedTest(metaData, BetaTest(js))

-----------------------------------------------------------------------------
(* Jobs of performance clusters, and postsubmit jobs.                      *)

perfClusterBaseProwJob(repo) ==
    [addMonitoringPubsubLabelsToJob(addVolumeToJob(newbase(repo), "performance-test")) EXCEPT
       !.command = "performance-tests.sh",
       !.env = <<"GOOGLE_APPLICATION_CREDENTIALS", "GITHUB_TOKEN", "SLACK_READ_TOKEN",
                 "SLACK_WRITE_TOKEN">>]

perfClusterPeriodicJob(repo, suffix, cron) ==
    Job("perf", <<"ci">> \o RepoNameForJob(repo) \o suffix, perfClusterBaseProwJob(repo), cron,
        NoAnnotations)

generatePerfClusterUpdatePeriodicJobs(repo) ==
    WriteAll("periodics", repo,
             <<perfClusterPeriodicJob(repo, <<"recreate", "clusters">>, Cron({7}, FALSE)),
               perfClusterPeriodicJob(repo, <<"update", "clusters">>, Cron(0..23, FALSE))>>,
             {})

GoCoveragePostsubmits(repo) ==
    LET name == <<"post">> \o RepoNameForJob(repo) \o <<"go", "coverage">>
        j    == Job("postsubmit", name, ConfigureAccount(newbase(repo)), NoCron, NoAnnotations)
    IN  IF ~Debugged(Tail(name)) THEN <<j>>
        ELSE <<j, [j EXCEPT !.name = Append(@, "dev"), !.base.image = "coverage-dev"]>>

PerfPostsubmits(repo) ==
    <<Job("postsubmit", <<"post">> \o RepoNameForJob(repo) \o <<"reconcile", "clusters">>,
          perfClusterBaseProwJob(repo), NoCron, NoAnnotations)>>

\* Only the debugging job is written without the heading of its repository.
generatePostsubmits(data) ==
    LET cs == IF data.EnableGoCoverage THEN GoCoveragePostsubmits(data.repo) ELSE <<>>
        ps == IF data.EnablePerformanceTests THEN PerfPostsubmits(data.repo) ELSE <<>>
    IN  WriteAll("postsubmits", data.repo, cs \o ps,
                 {i \in DOMAIN (cs \o ps) : i # 2 \/ Len(cs) # 2})

-----------------------------------------------------------------------------
(* The metadata of TestGrid.                                               *)

\* A project is an organization, or an organization and a version.
isReleased(proj) == Len(proj) > 1 /\ Last(proj) \in Versions

\* TestGridMetaData.Get: the project is created when it is missing.
Get(m, proj) == [m EXCEPT !.projNames = IF Contains(@, proj) THEN @ ELSE Append(@, proj)]

\* JobDetailMap.EnsureExists and Add.
EnsureExists(m, proj, repoName) ==
    IF \E x \in ToSet(m.md) : x.proj = proj /\ x.repo = repoName THEN m
    ELSE [m EXCEPT !.md = Append(@, [proj |-> proj, repo |-> repoName, jobs |-> <<>>])]

Add(m, proj, repoName, job) ==
    LET n == EnsureExists(m, proj, repoName)
        added(x) == IF x.proj = proj /\ x.repo = repoName
                    THEN [x EXCEPT !.jobs = Append(@, job)] ELSE x
    IN  [n EXCEPT !.md = [i \in DOMAIN n.md |-> added(n.md[i])]]

EnsureRepo(m, proj, repoName) ==
    LET n == EnsureExists(Get(m, proj), proj, repoName)
    IN  [n EXCEPT !.repoNames = IF Contains(@, repoName) THEN @ ELSE Append(@, repoName)]

\* The job that collectMetaData sees in a configuration, or <<>>: the last type that is on.
JobName(job) ==
    FoldLeft(LAMBDA n, e :
               CASE e.key \in {"continuous", "dot-release", "auto-release", "performance",
                               "nightly", "webhook-apicoverage"} ->
                       IF e.on THEN (IF e.key \in {"continuous", "nightly"} THEN <<e.key>> ELSE e.text)
                               ELSE n
                 [] e.key = "branch-ci"  -> IF e.on THEN <<"continuous">> ELSE <<>>
                 [] e.key = "custom-job" -> e.text
                 [] OTHER -> n,
             <<>>, job)

\* Mutant: jobs of release branches are kept with the others.
ProjectUnversioned(repo, job) == repo.org

\* The project a job belongs to.
ProjectOf(repo, job) ==
    IF JobName(job) # <<>> /\ ReleaseOf(job) # "" THEN Append(repo.org, ReleaseOf(job)) ELSE repo.org

CollectJob(m, repo, job) ==
    LET p == ProjectOf(repo, job)
    IN  IF JobName(job) = <<>> THEN m ELSE Add(Get(m, p), p, repo.name, JobName(job))

\* updateTestCoverageJobDataIfNeeded: it takes the project of the last job.
UpdateCoverage(m, repo, js) ==
    IF repo.name \notin m.coverage THEN m
    ELSE [Add(m, IF js = <<>> THEN repo.org ELSE ProjectOf(repo, Last(js)), repo.name,
              <<"test", "coverage">>) EXCEPT !.coverage = @ \ {repo.name}]

\* collectMetaData for one repository.
collectMetaData(r) ==
    metaData' = UpdateCoverage(FoldLeft(LAMBDA m, job : CollectJob(m, r.repo, job),
                                        EnsureRepo(metaData, r.repo.org, r.repo.name), r.jobs),
                               r.repo, r.jobs)

\* The first entry of go coverage in a job counts here.
CoverageOn(job) ==
    \E i \in DOMAIN job : /\ job[i].key = "go-coverage" /\ job[i].on
                          /\ \A k \in 1..(i - 1) : job[k].key # "go-coverage"

\* parseGoCoverageMap: the repositories whose last presubmit job of go coverage is on.  Of
\* repositories with the same name the last one in the file counts.
parseGoCoverageMap(c) ==
    {c.presubmits[i].repo.name : i \in {k \in DOMAIN c.presubmits :
        LET js == c.presubmits[k].jobs
            of == {h \in DOMAIN js : Has(js[h], "go-coverage")}
        IN  /\ \A h \in (k + 1)..Len(c.presubmits) :
                  c.presubmits[h].repo.name # c.presubmits[k].repo.name
            /\ \E h \in of : (\A g \in of : g <= h) /\ CoverageOn(js[h])}}

\* addRemainingTestCoverageJobs: with the first project, whichever it is.
addRemainingTestCoverageJobs(m) ==
    FoldSet(LAMBDA n, x : Add(x, m.projNames[1], n, <<"test", "coverage">>), m, m.coverage)

\* addCustomJobsTestgrid.
addCustomJobsTestgrid(m) ==
    FoldLeft(LAMBDA n, job : AddNonAlignedTest(n, NonAligned(<<"maintenance">>, <<"utilities">>,
                                                             job, job)),
             m, customJobnames)

-----------------------------------------------------------------------------
(* The configuration of TestGrid.                                          *)

\* buildProjRepoStr: the version of a released project comes after the repository.
buildProjRepoStr(proj, repoName) ==
    IF isReleased(proj) THEN Front(proj) \o repoName \o <<Last(proj)>> ELSE proj \o repoName

getTestGroupName(projRepo, job) ==
    <<"ci">> \o projRepo \o (IF job = <<"nightly">> THEN <<"nightly", "release">> ELSE job)

\* The directory of the logs of a test group: the name of a job.
getGcsLogDir(projRepo, job) ==
    IF job = <<"test", "coverage">> THEN <<"ci">> \o projRepo \o <<"go", "coverage">>
                                    ELSE getTestGroupName(projRepo, job)

\* generateTestGridSection goes through the projects, and in each through the repositories
\* of the list: one of neither list is left out.
Aligned(m) == [x \in {y \in ToSet(m.md) : Contains(m.projNames, y.proj)
                                         /\ Contains(m.repoNames, y.repo)} |-> ToSet(x.jobs)]

\* The type a name of a job stands for.
KeyOf(j) == CASE j = <<"continuous">> -> "continuous"
              [] j = <<"nightly">> -> "nightly"
              [] j = <<"dot", "release">> -> "dot-release"
              [] j = <<"auto", "release">> -> "auto-release"
              [] j = <<"test", "coverage">> -> "test-coverage"
              [] OTHER -> "custom"

generateTestGroups(m) ==
    (UNION {{[name |-> getTestGroupName(buildProjRepoStr(x.proj, x.repo), j),
             dir  |-> getGcsLogDir(buildProjRepoStr(x.proj, x.repo), j),
             extras |-> getTestgroupExtras(isReleased(x.proj), KeyOf(j))] : j \in Aligned(m)[x]} :
              x \in DOMAIN Aligned(m)})
    \cup {[name |-> t.CIJobName, dir |-> t.CIJobName, extras |-> {}] : t \in ToSet(m.nonAligned)}

\* generateDashboard, generateDashboardsForReleases, generateNonAlignedDashboards.
DashboardOf(x) == IF isReleased(x.proj) THEN x.proj ELSE x.repo

\* Conformance is a filtered view of the continuous tab.
TabsOf(x, j) ==
    IF isReleased(x.proj) THEN {x.repo \o j}
    ELSE IF j = <<"test", "coverage">> THEN {<<"coverage">>}
    ELSE IF j = <<"continuous">> /\ x.proj \o x.repo = <<"knative", "serving">>
         THEN {j, <<"conformance">>} ELSE {j}

generateTabs(m) ==
    (UNION {UNION {{[dashboard |-> DashboardOf(x), tab |-> t,
                    group |-> getTestGroupName(buildProjRepoStr(x.proj, x.repo), j)] :
                   t \in TabsOf(x, j)} : j \in Aligned(m)[x]} : x \in DOMAIN Aligned(m)})
    \cup {[dashboard |-> t.DashboardName, tab |-> t.HumanTabName, group |-> t.CIJobName] :
             t \in ToSet(m.nonAligned)}

\* generateDashboardGroups, generateNonAlignedDashboardGroups.
generateDashboardGroups(m) ==
    {[name |-> p, dashboards |-> {x.repo : x \in {y \in DOMAIN Aligned(m) : y.proj = p}}] :
        p \in {q \in ToSet(m.projNames) : ~isReleased(q)}}
    \cup {[name |-> g, dashboards |-> {t.DashboardName : t \in
              {u \in ToSet(m.nonAligned) : u.DashboardGroup = g}}] :
            g \in {t.DashboardGroup : t \in ToSet(m.nonAligned)}}

\* generateK8sTestgrid: the dashboards of the Kubernetes TestGrid.
generateK8sTestgrid(c) ==
    {c.periodics[i].repo.org \o c.periodics[i].repo.name : i \in DOMAIN c.periodics}
    \cup {betaDashboard}

-----------------------------------------------------------------------------
(* main.                                                                   *)

NoGrid == [groups |-> {}, tabs |-> {}, dashboards |-> {}, k8s |-> {}]

Init ==
    /\ pc = "start"
    /\ file \in Configs
    /\ upgraded = [is |-> FALSE, from |-> file, latest |-> <<>>]
    /\ todo = <<>> /\ repositories = <<>> /\ output = <<>> /\ jobs = <<>>
    /\ metaData = NewTestGridMetaData
    /\ grid = NoGrid

\* What parseSection calls: every job of every repository, in their order; after the
\* periodic jobs of a repository its coverage job.
Calls(section, finalize) ==
    FlattenSeq([i \in DOMAIN section |->
        [k \in DOMAIN section[i].jobs |->
            [call |-> "job", repo |-> section[i].repo, job |-> section[i].jobs[k]]]
        \o (IF finalize THEN <<[call |-> "coverage", repo |-> section[i].repo, job |-> <<>>]>>
                        ELSE <<>>)])

\* A call for each of these entries of the list of repositories.
Entries(call, wanted) ==
    FlattenSeq([i \in DOMAIN repositories |->
        IF i \in wanted THEN <<[call |-> call, repo |-> repositories[i].repo, i |-> i]>>
                        ELSE <<>>])

Unchanged == UNCHANGED <<upgraded, file, grid>>

\* --upgrade-release-branches writes the file with the branches GitHub has.
Upgrade(released) ==
    /\ pc = "start" /\ ~upgraded.is
    /\ file' = upgradeReleaseBranchesTemplate(file, released)
    /\ upgraded' = [is |-> TRUE, from |-> file,
                    latest |-> [r \in DOMAIN released |-> filterLatest(released[r])]]
    /\ UNCHANGED <<pc, todo, repositories, output, jobs, metaData, grid>>

\* Listing the branches of a repository, or those of an organization, fails.
GitHubFails == pc = "start" /\ Fatal

ReadConfig ==
    /\ pc = "start"
    /\ pc' = "presubmits" /\ todo' = Calls(file.presubmits, FALSE)
    /\ UNCHANGED <<repositories, output, jobs, metaData>> /\ Unchanged

Done1 == todo' = Tail(todo) /\ UNCHANGED pc /\ Unchanged

PresubmitCall ==
    /\ pc = "presubmits" /\ todo # <<>>
    /\ LET c == Head(todo) IN
          IF PresubmitFatal(c.repo, c.job) THEN Fatal
          ELSE generatePresubmit(c.repo, c.job) /\ UNCHANGED metaData /\ Done1

PeriodicCall ==
    /\ pc = "periodics" /\ todo # <<>>
    /\ LET c == Head(todo)
       IN  CASE c.call = "coverage" -> generateGoCoveragePeriodic(c.repo) /\ Done1
             [] PeriodicFatal(c.repo, c.job) -> Fatal
             [] OTHER -> generatePeriodic(c.repo, c.job) /\ Done1

\* The repositories with coverage that have no periodic jobs.
CoverageCall ==
    /\ pc = "coverage" /\ todo # <<>>
    /\ generateGoCoveragePeriodic(Head(todo).repo) /\ Done1

PerfCall ==
    /\ pc = "perf" /\ todo # <<>>
    /\ generatePerfClusterUpdatePeriodicJobs(Head(todo).repo)
    /\ UNCHANGED <<repositories, metaData>> /\ Done1

PostsubmitCall ==
    /\ pc = "postsubmits" /\ todo # <<>>
    /\ generatePostsubmits(repositories[Head(todo).i])
    /\ UNCHANGED <<repositories, metaData>> /\ Done1

CollectCall ==
    /\ pc = "metadata" /\ todo # <<>>
    /\ collectMetaData(Head(todo))
    /\ UNCHANGED <<repositories, output, jobs>> /\ Done1

\* The next phase, when the calls of the last are done.
NextPhase(from, to, calls) ==
    /\ pc = from /\ todo = <<>>
    /\ pc' = to /\ todo' = calls
    /\ UNCHANGED <<repositories, output, jobs>> /\ Unchanged

WithCoverage    == {i \in DOMAIN repositories : repositories[i].EnableGoCoverage}
WithPerformance == {i \in DOMAIN repositories : repositories[i].EnablePerformanceTests}

Phases ==
    /\ UNCHANGED metaData
    /\ \/ NextPhase("presubmits", "periodics", Calls(file.periodics, TRUE))
       \/ NextPhase("periodics", "coverage",
                    Entries("coverage", {i \in WithCoverage : ~repositories[i].Processed}))
       \/ NextPhase("coverage", "perf", Entries("perf", WithPerformance))
       \/ NextPhase("perf", "postsubmits", Entries("post", WithCoverage \cup WithPerformance))

\* The dashboards of the Kubernetes TestGrid.  Without a periodic job in knative there is
\* no set to put those of the beta jobs into.
K8sTestgrid ==
    /\ pc = "postsubmits" /\ todo = <<>>
    /\ IF \E i \in DOMAIN file.periodics : file.periodics[i].repo.org = <<"knative">>
       THEN /\ grid' = [grid EXCEPT !.k8s = generateK8sTestgrid(file)]
            /\ metaData' = [metaData EXCEPT !.coverage = parseGoCoverageMap(file)]
            /\ pc' = "metadata" /\ todo' = file.periodics
            /\ UNCHANGED <<upgraded, file, repositories, output, jobs>>
       ELSE Fatal

\* The three sections of the TestGrid configuration.
Testgrid ==
    /\ pc = "metadata" /\ todo = <<>>
    /\ LET m == addCustomJobsTestgrid(addRemainingTestCoverageJobs(metaData))
       IN  /\ metaData' = m
           /\ grid' = [grid EXCEPT !.groups = generateTestGroups(m), !.tabs = generateTabs(m),
                                   !.dashboards = generateDashboardGroups(m)]
    /\ pc' = "done"
    /\ UNCHANGED <<upgraded, file, todo, repositories, output, jobs>>

Next ==
    \/ \E released \in Branches : Upgrade(released)
    \/ GitHubFails \/ ReadConfig
    \/ PresubmitCall \/ PeriodicCall \/ CoverageCall \/ PerfCall \/ PostsubmitCall
    \/ Phases \/ K8sTestgrid \/ CollectCall \/ Testgrid

Spec == Init /\ [][Next]_vars

-----------------------------------------------------------------------------
(* Properties.                                                             *)

Types == {"continuous", "branch-ci", "nightly", "dot-release", "auto-release", "custom-job"}

Jobs(section) == UNION {ToSet(section[i].jobs) : i \in DOMAIN section}

\* The type of a job comes before its release and cron.
InOrder(c) == \A job \in Jobs(c.periodics) : \A i, k \in DOMAIN job :
                 job[i].key \in Types /\ job[k].key \in {"release", "cron"} => i < k

\* performance is said in the first presubmit entry of a repository.
SettingsFirst(c) == \A i \in DOMAIN c.presubmits : \A k \in DOMAIN c.presubmits[i].jobs :
                       Has(c.presubmits[i].jobs[k], "performance") => k = 1

\* The timeouts of the files are not negative.
TimeoutsNatural ==
    \A c \in Configs : \A job \in Jobs(c.periodics) : \A i \in DOMAIN job :
        job[i].key = "timeout" => job[i].num \in Nat

\* Every repository has a name, and its presubmit jobs are in one place.
ReposDistinct ==
    \A c \in Configs : \A i, k \in DOMAIN c.presubmits :
        /\ c.presubmits[i].repo # NoRepo
        /\ i # k => c.presubmits[i].repo # c.presubmits[k].repo

\* The versions in the files have numbers, and a repository has one job of a kind for a
\* version.
VersionsKnown ==
    \A c \in Configs : \A i \in DOMAIN c.periodics : \A kind \in {"branch-ci", "dot-release"} :
        LET js == c.periodics[i].jobs
        IN  /\ VersionsOf(js, kind) \subseteq Versions
            /\ \A k, l \in DOMAIN js :
                 getBranch(js[k], kind) = getBranch(js[l], kind) /\ getBranch(js[k], kind) # ""
                     => k = l

\* GitHub is asked for the branches of every repository of the file.
BranchesListed ==
    \A released \in Branches : \A c \in Configs : \A i \in DOMAIN c.periodics :
        c.periodics[i].repo \in DOMAIN released

\* GitHub has finitely many of them, and their versions have numbers.
BranchesNumbered ==
    \A released \in Branches : \A r \in DOMAIN released :
        IsFiniteSet(released[r]) /\ released[r] \subseteq Versions

\* The entries of a job that have one of these keys.
With(job, keys) == {i \in DOMAIN job : job[i].key \in keys}

\* A periodic job has one type and at most one release, of a version that has numbers, and
\* no type that only the second pass knows.  A custom job is not named as the others are.
PeriodicSensible(job) ==
    /\ \E i \in DOMAIN job : With(job, Types) = {i}
    /\ \A i, k \in With(job, {"release"}) : i = k /\ job[i].text[1] \in Versions
    /\ With(job, {"performance", "webhook-apicoverage"}) = {}
    /\ \A i \in With(job, {"dot-release", "auto-release", "custom-job"}) :
          job[i].text \notin {<<>>, <<"nightly">>, <<"test", "coverage">>}

\* A repository has at most one presubmit job of go coverage, which is of no other type.
PresubmitsSensible(js) ==
    \A i \in DOMAIN js : Has(js[i], "go-coverage") =>
        /\ \E k \in DOMAIN js[i] :
              With(js[i], {"build-tests", "unit-tests", "integration-tests", "go-coverage"}) = {k}
        /\ \A h \in DOMAIN js : Has(js[h], "go-coverage") => h = i

\* In the files a name means one repository, listed once in each section; the name of an
\* organization does not end in a version.
FileSensible(c) ==
    /\ \A i \in DOMAIN c.periodics : LET s == c.periodics[i] IN
          /\ s.repo.org # <<>> /\ ~isReleased(s.repo.org)
          /\ \A k \in DOMAIN s.jobs : PeriodicSensible(s.jobs[k])
          /\ \A k \in DOMAIN c.periodics : c.periodics[k].repo.name = s.repo.name => k = i
          /\ \A k \in DOMAIN c.presubmits : c.presubmits[k].repo.name = s.repo.name =>
                                              c.presubmits[k].repo = s.repo
    /\ \A i \in DOMAIN c.presubmits : LET s == c.presubmits[i] IN
          /\ PresubmitsSensible(s.jobs)
          /\ \A k \in DOMAIN c.presubmits : c.presubmits[k].repo.name = s.repo.name => k = i

FilesSensible == \A c \in Configs : FileSensible(c)

HasCoverage(repo) == \E i \in DOMAIN jobs : jobs[i].base.repo = repo
                                             /\ jobs[i].name[1] = "ci" /\ Last(jobs[i].name) = "coverage"

\* A repository with coverage has periodic jobs, the last of them on the default branch.
CoverageAfterMain ==
    \A i \in DOMAIN jobs : HasCoverage(jobs[i].base.repo) =>
        \E k \in DOMAIN file.periodics :
            /\ file.periodics[k].repo = jobs[i].base.repo
            /\ ReleaseOf(Last(file.periodics[k].jobs)) = ""

\* No two jobs have the same name, which Prow requires: neither two generated from
\* different entries or for different versions, nor a job and a copy of one
\* (main.go:517, where the name is the key of the filter).
JobsDistinct ==
    InOrder(file) /\ SettingsFirst(file) =>
        \A i, k \in DOMAIN jobs : i # k => jobs[i].name # jobs[k].name

\* The test groups and the periodic jobs, which two passes over the file make by rules of
\* their own, agree: every group reads the logs of a job, and every job has a group,
\* and every tab shows a group (testgrid_config.go:235).
GroupsMatchJobs ==
    pc = "done" /\ InOrder(file) /\ CoverageAfterMain /\ jobNameFilter = <<>> =>
        /\ {g.dir : g \in grid.groups} =
             {jobs[i].name : i \in {k \in DOMAIN jobs : jobs[k].kind = "periodic"}}
             \cup ToSet(customJobnames)
        /\ \A t \in grid.tabs : \E g \in grid.groups : g.name = t.group
        /\ \A i \in DOMAIN jobs : jobs[i].kind = "periodic" =>
                jobs[i].annotations.dashboard \in grid.k8s

\* After an upgrade there are at most four versions of each kind, the latest among them;
\* the versions dropped are older than those kept, and upgrading again changes nothing
\* (udpaterelease.go:125).
UpgradeKeepsNewest ==
    upgraded.is =>
        /\ upgradeReleaseBranchesTemplate(file, [r \in DOMAIN upgraded.latest |->
               {upgraded.latest[r]} \ {""}]) = file
        /\ \A i \in DOMAIN file.periodics : \A kind \in {"branch-ci", "dot-release"} :
             LET old    == VersionsOf(upgraded.from.periodics[i].jobs, kind)
                 new    == VersionsOf(file.periodics[i].jobs, kind)
                 latest == upgraded.latest[file.periodics[i].repo]
             IN  old # new =>
                   /\ latest \in new /\ Cardinality(new) <= maxReleaseBranches
                   /\ new \subseteq old \cup {latest}
                   /\ \A v \in old \ new, w \in new \ {latest} : Newer(w, v)
                   /\ Cardinality(new) = maxReleaseBranches \/ old \subseteq new

\* generateCron leaves at least five minutes between two runs of a job: "Allow at least 5
\* minutes between runs" (periodic_config.go:89), if the hours divide the day.
RunsApart ==
    \A i \in DOMAIN jobs : LET j == jobs[i] IN
        j.kind = "periodic" /\ j.base.image = "stable" /\ Cardinality(j.cron.hours) > 1
        /\ 24 % HoursApart(j.base.timeout) = 0 =>
            \A g, h \in j.cron.hours : g # h => ((h - g + 24) % 24) * 60 >= j.base.timeout + 5

\* A job is written under the headings of its section and of its repository, which are
\* written once: YAML takes the last of two equal keys (main.go:520).
OutputGrouped ==
    jobNameFilter = <<>> =>
        /\ \A i, k \in DOMAIN output : output[i].what # "job" /\ output[i] = output[k] => i = k
        /\ \A i \in DOMAIN output : LET l == output[i] IN
             LET before(what) == {k \in 1..(i - 1) : output[k].what = what}
                 last(what)   == output[CHOOSE k \in before(what) : \A h \in before(what) : h <= k]
             IN  l.what = "job" => /\ before("section") # {} /\ last("section").title = l.title
                                   /\ l.title # "periodics" =>
                                        before("repo") # {} /\ last("repo").repo = l.repo

=============================================================================
