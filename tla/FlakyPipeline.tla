--------------------------- MODULE FlakyPipeline ---------------------------
(***************************************************************************)
(* From the results of tests to a retry.  Prow leaves the results of builds *)
(* in GCS; flaky-test-reporter reads those of the continuous jobs, writes   *)
(* for every repository a report of its flaky tests, and tells Slack;       *)
(* flaky-test-retryer compares the tests that failed in a pull request with *)
(* the report.  What the reporter writes on GitHub is in Reporter, and the  *)
(* comments of the retryer are in Retryer.                                  *)
(*                                                                         *)
(* An action is a visit to GCS, GitHub or Slack, or one step of a goroutine *)
(* between two accesses to memory it shares.                                *)
(***************************************************************************)
EXTENDS Integers, Sequences, FiniteSets, SequencesExt

CONSTANTS
    JobConfigs,    \* config.yaml: name, repository and Slack channels of each job
    Pull, PullRepo,\* the presubmit job of a pull request, and its repository
    ParentOf,      \* the test a subtest belongs to, by subtest
    AllTests,      \* all tests and subtests
    Contents,      \* the junit files a new build of each job may leave
    buildsCount,   \* --build-count
    maxAge,        \* days until a report is outdated, 4 in the code
    Faults,        \* which calls may fail
    ReadError,     \* what a failed read returns
    EarlyBuilds,   \* the files of the builds there may be at first, by job
    MaxBuilds,     \* bound: builds of each job
    MaxRuns,       \* bound: runs of the reporter
    MaxDay         \* bound: days

Configs  == DOMAIN JobConfigs
JobNames == {JobConfigs[i].name : i \in Configs} \cup {Pull}
AllRepos == {JobConfigs[i].repo : i \in Configs}

\* A file is no XML, or empty, or a suite with the result of each of its tests.
NoResults == [t \in {} |-> "passed"]
Suite     == [kind : {"suite"},
              results : UNION {[T -> {"passed", "failed", "skipped"}] : T \in SUBSET AllTests}]
File      == [kind : {"broken", "empty"}, results : {NoResults}] \cup Suite

\* The repository that stands for all of them: "" in the code.
AllRepositories == "all"

ASSUME PipelineAssumption ==
    /\ Len(JobConfigs) \in Nat /\ Configs = 1..Len(JobConfigs)
    /\ \A i \in Configs : IsFiniteSet(JobConfigs[i].channels)
    /\ Contents \in [JobNames -> SUBSET Seq(File)]
    /\ \A c \in EarlyBuilds : c \in [JobNames -> Seq(Seq(File))]
    /\ MaxBuilds \in [JobNames -> Nat]
    /\ Pull \notin {JobConfigs[i].name : i \in Configs}
    /\ PullRepo \in AllRepos /\ AllRepositories \notin AllRepos
    /\ buildsCount \in Nat \ {0} /\ maxAge \in Nat \ {0}
    /\ Faults \subseteq {"list", "read", "write", "post", "github", "kill"}

VARIABLES
    day,       \* the day it is
    builds,    \* the builds of each job, in the order of their numbers
    recorder,  \* the builds of the job that records results
    rep,       \* the process of the reporter
    ret        \* a goroutine of the retryer

vars == <<day, builds, recorder, rep, ret>>

Fails(call) == call \in Faults

-----------------------------------------------------------------------------
(* Types.                                                                  *)

Channels  == UNION {JobConfigs[i].channels : i \in Configs}
Reports   == [repo : AllRepos, flaky : SUBSET AllTests]
RepoDatas == [job : Configs, builds : Nat, passed : SUBSET AllTests, failed : SUBSET AllTests,
              finished : SUBSET Nat]
Errors    == [len : Nat, array : Nat]
Tasks     == [pc : {"none", "run", "append", "send", "done"}, errs : Errors,
              left : SUBSET {"len", "array"}]
Processes == [pc : {"idle", "collect", "scan", "json", "github", "notify", "slack", "end", "exit"},
              skipReport : BOOLEAN, next : Nat, ids : Seq(Nat), rd : RepoDatas,
              data : Seq(RepoDatas), jobErr : BOOLEAN, jsonErr : BOOLEAN, ghErr : BOOLEAN,
              slackErr : BOOLEAN, dir : SUBSET Reports, issues : BOOLEAN,
              posted : SUBSET [channel : Channels, job : Configs], k : Nat,
              work : [AllRepos \cup Channels -> Tasks],
              errs : Errors, sent : Nat, missed : BOOLEAN, code : 0..2,
              without : SUBSET Configs, runs : Nat]

\* The type invariant.
TypeOK ==
    /\ day \in Nat
    /\ builds \in [JobNames -> Seq([files : Seq(File), done : SUBSET {"artifacts", "finished"}])]
    /\ recorder \in Seq([day : Nat, reports : SUBSET Reports])
    /\ rep \in Processes
    /\ ret \in [pc : {"idle", "tests", "flaky", "post"}, failed : SUBSET AllTests,
                outliers : SUBSET AllTests]

-----------------------------------------------------------------------------
(* Prow and GCS.                                                           *)

\* A build has been started; done tells what it has uploaded since.
Build(files, done) == [files |-> files, done |-> done]

Tests(f) == DOMAIN f.results

\* GetTestStatus.
With(f, status) == {t \in Tests(f) : f.results[t] = status}

\* A list of what is stored under a path, or nil with an error.
NoList == <<>>

ListChildren(names) == {names} \cup (IF Fails("list") THEN {NoList} ELSE {})

\* What is read from an object, or an error.
ReadObject(contents) == {contents} \cup (IF Fails("read") THEN {ReadError} ELSE {})

\* Exists, of the path of a job: there are builds.  An error counts as no.
PathExists(j) == {builds[j] # <<>>} \cup (IF Fails("list") THEN {FALSE} ELSE {})

\* GetBuildIDs and GetArtifacts drop the error of the list.
GetBuildIDs(j) == ListChildren([n \in DOMAIN builds[j] |-> n])

GetArtifacts(b) == ListChildren(IF "artifacts" \in b.done THEN b.files ELSE <<>>)

\* latest-build.txt is written when a build starts.
GetLatestBuildNumber(bs) == ReadObject(Len(bs))

\* Whether started.json, or finished.json, can be read: an error counts as no.
HasTime(exists) == IF exists THEN {o # ReadError : o \in ReadObject(TRUE)} ELSE {FALSE}

NewBuild(b) == [start : HasTime(TRUE), finish : HasTime("finished" \in b.done)]

Has(files, kind) == \E f \in ToSet(files) : f.kind = kind

Suites(files) == {f \in ToSet(files) : f.kind = "suite"}

StartBuild(j) ==
    /\ Len(builds[j]) < MaxBuilds[j]
    /\ \E files \in Contents[j] : 
          builds' = [builds EXCEPT ![j] = Append(builds[j], Build(files, {}))]
    /\ UNCHANGED <<day, recorder, rep, ret>>

\* The files are uploaded in any order.
UploadBuild(j) ==
    /\ \E n \in DOMAIN builds[j], what \in {"artifacts", "finished"} :
          /\ what \notin builds[j][n].done
          /\ builds' = [builds EXCEPT ![j][n].done = builds[j][n].done \cup {what}]
    /\ UNCHANGED <<day, recorder, rep, ret>>

DayPasses == day < MaxDay /\ day' = day + 1 /\ UNCHANGED <<builds, recorder, rep, ret>>

-----------------------------------------------------------------------------
(* The results of a job.                                                   *)

\* RepoData.  Of the builds with a result of a test, only whether there is one counts.
\* finished is history: the builds that had finished when the job was opened.
RepoData(i, finished) ==
    [job |-> i, builds |-> 0, passed |-> {}, failed |-> {}, finished |-> finished]

\* filterOutParentTests.
filterOutParentTests(cases) == cases \ {ParentOf[t] : t \in cases \cap DOMAIN ParentOf}

CasesWith(f, status) == filterOutParentTests(Tests(f)) \cap With(f, status)

\* For each of the suites of a build.
addSuiteToRepoData(rd, suites) ==
    [rd EXCEPT !.passed = rd.passed \cup UNION {CasesWith(f, "passed") : f \in suites},
               !.failed = rd.failed \cup UNION {CasesWith(f, "failed") : f \in suites}]

\* Mutant: a test that never passes counts.
getFailedTestsOf(rd) == rd.failed

isFlaky(rd, t) == t \in rd.failed /\ t \in rd.passed

getFlakyTests(rd) == {t \in rd.failed \cup rd.passed : isFlaky(rd, t)}

\* getFlakyTestSet: of one repository, over all of its jobs.
getFlakyTestSet(data, repo) ==
    UNION {getFlakyTests(data[k]) : k \in {h \in DOMAIN data : JobConfigs[data[h].job].repo = repo}}

-----------------------------------------------------------------------------
(* The reporter: collecting results.                                       *)

\* A slice of errors: its length and how many errors its array holds.
NoErrs == [len |-> 0, array |-> 0]

Task(pc, errs, left) == [pc |-> pc, errs |-> errs, left |-> left]

\* A goroutine for each task.
Go(tasks) == [t \in AllRepos \cup Channels |->
                Task(IF t \in tasks THEN "run" ELSE "none", NoErrs, {})]
NoTasks   == Go({})

Process == [pc |-> "collect", skipReport |-> TRUE, next |-> 1, ids |-> <<>>, rd |-> RepoData(1, {}),
            data |-> <<>>, jobErr |-> FALSE, jsonErr |-> FALSE, ghErr |-> FALSE,
            slackErr |-> FALSE, dir |-> {}, issues |-> FALSE, posted |-> {}, k |-> 0,
            work |-> NoTasks, errs |-> NoErrs, sent |-> 0, missed |-> FALSE, code |-> 0,
            without |-> {}, runs |-> 0]

Idle(runs) == [Process EXCEPT !.pc = "idle", !.runs = runs]

\* Prow starts the reporter: with --skip-report it records results every hour, and once a
\* day it reports them.
Start ==
    /\ rep.pc = "idle" /\ rep.runs < MaxRuns
    /\ \E skip \in BOOLEAN :
          /\ rep' = [Process EXCEPT !.skipReport = skip, !.runs = rep.runs + 1]
          /\ recorder' = IF skip THEN Append(recorder, [day |-> day, reports |-> {}]) ELSE recorder
    /\ UNCHANGED <<day, builds, ret>>

ReporterStep == UNCHANGED <<day, builds, recorder, ret>>

\* log.Fatalf, a panic, or the end of main.
Exits(r, code) == rep' = [r EXCEPT !.pc = "exit", !.code = code]

NextJob(r) == [r EXCEPT !.pc = "collect", !.next = r.next + 1, !.ids = <<>>]

\* Mutant: the oldest builds come first.
LatestFirstUnsorted(ids) == ids

\* The numbers of the builds, sorted in reverse.
LatestFirst(ids) == Reverse(ids)

\* collectTestResultsForRepo, up to its loop.  missed is history, and says that a list or a
\* time of a finished build was not read; so is without, of jobs without a finished build.
OpenJob ==
    /\ rep.pc = "collect" /\ rep.next \in Configs
    /\ LET j    == JobConfigs[rep.next].name
           done == {n \in DOMAIN builds[j] : "finished" \in builds[j][n].done}
       IN  \E exists \in PathExists(j), ids \in GetBuildIDs(j) :
              rep' = IF exists
                     THEN [rep EXCEPT !.pc = "scan", !.rd = RepoData(rep.next, done),
                                      !.ids = LatestFirst(ids), !.missed = rep.missed \/ ids = NoList]
                     ELSE NextJob([rep EXCEPT !.jobErr = TRUE])
    /\ ReporterStep

\* getCombinedResultsForBuild: the files of a build, or an error if one cannot be read.
getCombinedResultsForBuild(b) ==
    UNION {IF files = <<>> THEN {files}
           ELSE IF Has(files, "broken") THEN {ReadError} ELSE ReadObject(files) :
           files \in GetArtifacts(b)}

\* The results of one build: nothing is taken from a job with an error.
TakeResults(b) ==
    \E files \in getCombinedResultsForBuild(b) :
        rep' = IF files = ReadError THEN NextJob([rep EXCEPT !.jobErr = TRUE])
               ELSE [rep EXCEPT !.ids = Tail(rep.ids),
                                !.rd = addSuiteToRepoData([rep.rd EXCEPT !.builds = rep.rd.builds + 1],
                                                          Suites(files))]

\* getLatestFinishedBuilds looks at the next build, the newest first.
LookAtBuild ==
    /\ rep.pc = "scan" /\ rep.ids # <<>> /\ rep.rd.builds < buildsCount
    /\ LET b == builds[JobConfigs[rep.next].name][Head(rep.ids)]
       IN  \E build \in NewBuild(b) :
              \/ /\ ~build.finish
                 /\ rep' = [rep EXCEPT !.ids = Tail(rep.ids),
                                        !.missed = rep.missed \/ "finished" \in b.done]
              \/ build.finish /\ ~build.start /\ Exits(rep, 1)
              \/ build.finish /\ build.start /\ TakeResults(b)
    /\ ReporterStep

\* The data of a job are kept as an artifact, too.
createArtifactForRepo ==
    \/ rep' = NextJob([rep EXCEPT !.data = Append(rep.data, rep.rd)])
    \/ Fails("write") /\ Exits(rep, 1)

\* A job without builds is left out.
CloseJob ==
    /\ rep.pc = "scan" /\ (rep.ids = <<>> \/ rep.rd.builds = buildsCount)
    /\ \/ rep.rd.builds > 0 /\ createArtifactForRepo
       \/ /\ rep.rd.builds = 0
          /\ rep' = NextJob([rep EXCEPT !.without =
                               IF rep.rd.finished = {} THEN rep.without \cup {rep.next}
                               ELSE rep.without])
    /\ ReporterStep

-----------------------------------------------------------------------------
(* The reporter: the goroutines that write the reports, one for each        *)
(* repository, and those that post to Slack, one for each channel of a job. *)
(* Their errors go to a slice that no lock protects.                        *)

\* Mutant: a channel without a buffer, which nobody receives from.
Unbuffered == 0

\* make(chan bool, n).
Buffer == Cardinality({t \in DOMAIN rep.work : rep.work[t].pc # "none"})

StartReports ==
    /\ rep.pc = "collect" /\ rep.next \notin Configs
    /\ rep' = [rep EXCEPT !.pc = "json", !.errs = NoErrs, !.sent = 0,
                           !.work = Go({JobConfigs[rep.data[k].job].repo : k \in DOMAIN rep.data})]
    /\ ReporterStep

\* A report is written to the directory of artifacts, in which there is none at first.
CreateReport(repo) ==
    [rep EXCEPT !.dir = rep.dir \cup {[repo |-> repo, flaky |-> getFlakyTestSet(rep.data, repo)]}]

\* createSlackMessageForRepo: what is told to a channel.
Message(channel) == [channel |-> channel, job |-> rep.data[rep.k].job]

PostToSlack(channel) == [rep EXCEPT !.posted = rep.posted \cup {Message(channel)}]

Effect(t) == IF rep.pc = "json" THEN CreateReport(t) ELSE PostToSlack(t)

\* The call succeeds, or append reads the slice.  If its length and its array are of
\* different writes, it copies errors that are not there.
Call(t) ==
    /\ rep.work[t].pc = "run"
    /\ \/ rep' = [Effect(t) EXCEPT !.work[t].pc = "send"]
       \/ /\ Fails(IF rep.pc = "json" THEN "write" ELSE "post")
          /\ IF rep.errs.len > rep.errs.array THEN Exits(rep, 2)
             ELSE LET n == rep.errs.len + 1
                  IN  rep' = [rep EXCEPT !.work[t] =
                                Task("append", [len |-> n, array |-> n], {"len", "array"})]

\* The slice is written back in two steps.
WriteErrs(t) ==
    /\ rep.work[t].pc = "append"
    /\ \E field \in rep.work[t].left :
          LET left == rep.work[t].left \ {field} IN
          rep' = [rep EXCEPT !.errs[field] = rep.work[t].errs[field],
                             !.work[t] = [rep.work[t] EXCEPT !.left = left,
                                            !.pc = IF left = {} THEN "send" ELSE "append"]]

Send(t) ==
    /\ rep.work[t].pc = "send" /\ rep.sent < Buffer
    /\ rep' = [rep EXCEPT !.sent = rep.sent + 1, !.work[t].pc = "done"]

Goroutine(t) == (Call(t) \/ WriteErrs(t) \/ Send(t)) /\ ReporterStep

Goroutines == rep.pc \in {"json", "slack"} /\ \E t \in DOMAIN rep.work : Goroutine(t)

\* wg.Wait.
AllDone == \A t \in DOMAIN rep.work : rep.work[t].pc \in {"none", "done"}

\* Mutant: an error counts only if another one follows.
SomeErrMore(errs) == errs.len > 1

\* CombineErrors.
SomeErr(errs) == errs.len > 0

\* What CombineErrors reads beyond the array may crash it.
Torn == rep.errs.len > rep.errs.array

ReportsWritten ==
    /\ rep.pc = "json" /\ AllDone
    /\ \/ rep' = [rep EXCEPT !.jsonErr = SomeErr(rep.errs), !.work = NoTasks,
                             !.pc = IF rep.skipReport THEN "end" ELSE "github"]
       \/ Torn /\ Exits(rep, 2)
    /\ ReporterStep

\* githubOperations: whether an issue is found or created.  The error of one that cannot be
\* created or updated is logged and dropped.  Setup may fail, and without the list of the
\* issues processGithubIssues ends the process.
GitHub ==
    /\ rep.pc = "github"
    /\ \/ \E issues \in BOOLEAN : rep' = [rep EXCEPT !.issues = issues, !.pc = "notify"]
       \/ Fails("github") /\ rep' = [rep EXCEPT !.ghErr = TRUE, !.pc = "notify"]
       \/ Fails("github") /\ Exits(rep, 1)
    /\ ReporterStep

\* slackOperations: nothing on a weekend, nor without issues.
Notify ==
    /\ rep.pc = "notify"
    /\ \/ rep' = [rep EXCEPT !.pc = "end", !.issues = FALSE]  \* a weekend
       \/ ~rep.issues /\ rep' = [rep EXCEPT !.pc = "end"]
       \/ rep.issues /\ Fails("post") /\ rep' = [rep EXCEPT !.pc = "end", !.slackErr = TRUE]
       \/ rep.issues /\ rep' = [rep EXCEPT !.pc = "slack", !.errs = NoErrs]
    /\ ReporterStep

\* sendSlackNotifications: one job after the other.
NextMessages ==
    /\ rep.pc = "slack" /\ AllDone
    /\ IF rep.k < Len(rep.data)
       THEN rep' = [rep EXCEPT !.work = Go(JobConfigs[rep.data[rep.k + 1].job].channels),
                               !.k = rep.k + 1, !.sent = 0]
       ELSE \/ rep' = [rep EXCEPT !.slackErr = SomeErr(rep.errs), !.work = NoTasks, !.pc = "end"]
            \/ Torn /\ Exits(rep, 2)
    /\ ReporterStep

ExitCode == IF rep.jobErr \/ rep.jsonErr \/ rep.ghErr \/ rep.slackErr THEN 1 ELSE 0

End == rep.pc = "end" /\ Exits(rep, ExitCode) /\ ReporterStep

\* Prow uploads what is in the directory of artifacts, however the process ended.
UploadReports ==
    /\ rep.pc = "exit"
    /\ rep' = Idle(rep.runs)
    /\ recorder' = IF rep.skipReport THEN [recorder EXCEPT ![Len(recorder)].reports = rep.dir]
                                     ELSE recorder
    /\ UNCHANGED <<day, builds, ret>>

\* The pod is gone, and nothing is uploaded.
Kill == Fails("kill") /\ rep.pc # "idle" /\ rep' = Idle(rep.runs) /\ ReporterStep

-----------------------------------------------------------------------------
(* The retryer.                                                            *)

Handler == [pc |-> "idle", failed |-> {}, outliers |-> {}]

RetryerStep == UNCHANGED <<day, builds, recorder, rep>>

\* getReportPaths: the reports of a build for a repository, or for all.  No repository has
\* a name that another one's ends with.
getReportPaths(n, repo) ==
    {r \in recorder[n].reports : repo \in {AllRepositories, r.repo}}

\* getLatestValidBuild: the latest build whatever its age, or the newest with a report, if
\* it is not outdated; 0 is an error.  A build whose list or time cannot be read is skipped.
NoBuild == 0

getLatestValidBuild(repo) ==
    LET with  == {n \in DOMAIN recorder : getReportPaths(n, repo) # {}}
        seen  == IF Fails("list") \/ Fails("read") THEN with ELSE {n \in with : \A m \in with : m <= n}
        valid == {n \in seen : \/ n \in GetLatestBuildNumber(recorder)
                               \/ day - recorder[n].day < maxAge}
    IN  valid \cup (IF valid = {} \/ Fails("list") \/ Fails("read") THEN {NoBuild} ELSE {})

\* GetFlakyTestReport: the reports it may find, none if there is an error.
GetFlakyTestReport(repo) ==
    {IF n = NoBuild THEN {} ELSE getReportPaths(n, repo) : n \in getLatestValidBuild(repo)}

GetReportRepos == {{r.repo : r \in reports} : reports \in GetFlakyTestReport(AllRepositories)}

\* GetFlakyTests wants exactly one report.
GetFlakyTests(repo) ==
    {IF Cardinality(reports) = 1 THEN (CHOOSE r \in reports : TRUE).flaky ELSE ReadError :
        reports \in GetFlakyTestReport(repo)}

\* IsSupported asks whether the repository is reported on.
IsSupported == \E repos \in GetReportRepos : PullRepo \in repos

\* A failed build of the pull request is announced.
Receive ==
    /\ ret.pc = "idle" /\ \E n \in DOMAIN builds[Pull] : "finished" \in builds[Pull][n].done
    /\ IsSupported
    /\ ret' = [Handler EXCEPT !.pc = "tests"]
    /\ RetryerStep

\* GetCombinedResultsForBuild is a copy, but an empty file is an error in it.
GetCombinedResultsForBuild(b) ==
    {IF files # ReadError /\ Has(files, "empty") THEN ReadError ELSE files :
        files \in getCombinedResultsForBuild(b)}

\* getFailedTests reads the latest build, whatever build was announced.
GetFailedTests ==
    /\ ret.pc = "tests"
    /\ \E latest \in GetLatestBuildNumber(builds[Pull]) :
          IF latest = ReadError THEN ret' = Handler
          ELSE \E files \in GetCombinedResultsForBuild(builds[Pull][latest]) :
             LET failed == IF files = ReadError THEN {}
                           ELSE UNION {With(f, "failed") : f \in ToSet(files)}
             IN  ret' = IF failed = {} THEN Handler ELSE [ret EXCEPT !.pc = "flaky", !.failed = failed]
    /\ RetryerStep

getNonFlakyTests(failed, flaky) == failed \ flaky

\* With the outliers the comment is posted.
Compare ==
    /\ ret.pc = "flaky"
    /\ \E flaky \in GetFlakyTests(PullRepo) :
          ret' = IF flaky = ReadError THEN Handler
                 ELSE [ret EXCEPT !.pc = "post", !.outliers = getNonFlakyTests(ret.failed, flaky)]
    /\ RetryerStep

\* PostComment: "/test" if there are no outliers.
Post == ret.pc = "post" /\ ret' = Handler /\ RetryerStep

-----------------------------------------------------------------------------
(* The specification.                                                      *)

\* The report of an earlier run, when there were only these builds.
EarlierReport(bs) ==
    LET name(i)  == JobConfigs[i].name
        files(i) == UNION {ToSet(b.files) : b \in ToSet(bs[name(i)])}
        read     == {i \in Configs : /\ Len(bs[name(i)]) \in 1..buildsCount
                                     /\ \A f \in files(i) : f.kind # "broken"}
        data     == [i \in read |-> addSuiteToRepoData(RepoData(i, {}),
                                                       {f \in files(i) : f.kind = "suite"})]
    IN  [day |-> 0, reports |-> {[repo |-> JobConfigs[i].repo,
            flaky |-> getFlakyTestSet(data, JobConfigs[i].repo)] : i \in read}]

Init ==
    /\ day = 0
    /\ \E c \in EarlyBuilds :
          builds = [j \in JobNames |-> [n \in DOMAIN c[j] |-> Build(c[j][n], {"artifacts", "finished"})]]
    /\ recorder \in {<<>>, <<EarlierReport(builds)>>}
    /\ rep = Idle(0)
    /\ ret = Handler

ReporterNext ==
    \/ OpenJob \/ LookAtBuild \/ CloseJob \/ StartReports \/ Goroutines \/ ReportsWritten
    \/ GitHub \/ Notify \/ NextMessages \/ End \/ UploadReports

Next ==
    \/ \E j \in JobNames : StartBuild(j) \/ UploadBuild(j)
    \/ DayPasses \/ Start \/ ReporterNext \/ Kill
    \/ Receive \/ GetFailedTests \/ Compare \/ Post

Spec == Init /\ [][Next]_vars

-----------------------------------------------------------------------------
(* Properties.                                                             *)

\* The tests with a status in some finished build of a job, parents of subtests aside.
Seen(i, status) ==
    UNION {UNION {CasesWith(f, status) : f \in ToSet(b.files)} :
        b \in {c \in ToSet(builds[JobConfigs[i].name]) : "finished" \in c.done}}

\* A job is retried only if each of its failed tests has both passed and failed in finished
\* builds of one continuous job of the repository (log_parser.go:163): whatever the
\* reporter missed, however its reports are spread over builds of its own, and whenever
\* they come and go while the retryer looks.
RetryJustified ==
    ret.pc = "post" /\ ret.outliers = {} =>
        /\ ret.failed # {}
        /\ \A t \in ret.failed : \E i \in Configs :
              JobConfigs[i].repo = PullRepo /\ t \in Seen(i, "failed") \cap Seen(i, "passed")

\* If the reporter succeeds, every repository that was collected has its report, every
\* channel of every such job has been told if GitHub has shown or accepted an issue (and it
\* is no weekend), and every job that has builds was collected, unless a list or time was
\* hidden from it (missed): of errors of writing and posting, of which the goroutines may
\* lose some in a slice without a lock, one is left to fail the job (main.go:115).  It says
\* nothing of the errors of single issues, which processGithubIssues only logs
\* (github_issue.go:562): the job succeeds, and if no issue is left nobody is told.
SuccessIsComplete ==
    rep.pc = "exit" /\ rep.code = 0 =>
        /\ \A k \in DOMAIN rep.data : LET c == JobConfigs[rep.data[k].job] IN
              /\ \E r \in rep.dir : r.repo = c.repo /\ getFlakyTests(rep.data[k]) \subseteq r.flaky
              /\ rep.issues => \A channel \in c.channels :
                    [channel |-> channel, job |-> rep.data[k].job] \in rep.posted
        /\ ~rep.missed => \A i \in Configs :
              i \in rep.without \/ \E k \in DOMAIN rep.data : rep.data[k].job = i

\* Old failures are forgotten: unless a list, or the time of a finished build, was hidden
\* from the reporter (missed), a test counts as failed or passed only for a build such that
\* fewer than buildsCount newer builds had finished when the job was opened, which takes the
\* numbers of builds to grow ("assumption that build IDs are always incremental integers",
\* result.go:272), although builds start and finish while the reporter looks.
OldBuildsForgotten ==
    ~rep.missed => \A k \in DOMAIN rep.data :
        LET rd  == rep.data[k]
            new == {n \in DOMAIN builds[JobConfigs[rd.job].name] :
                      Cardinality({m \in rd.finished : m > n}) < buildsCount}
        IN  \A status \in {"passed", "failed"} :
               (IF status = "passed" THEN rd.passed ELSE rd.failed) \subseteq
                  UNION {UNION {With(f, status) :
                            f \in ToSet(builds[JobConfigs[rd.job].name][n].files)} : n \in new}

\* A goroutine has finished, or has a step to take.
GoesOn(t) ==
    \/ rep.work[t].pc \in {"none", "run", "done"}
    \/ rep.work[t].pc = "append" /\ rep.work[t].left # {}
    \/ rep.work[t].pc = "send" /\ rep.sent < Buffer

\* The reporter goes on until it ends: no goroutine ever waits for room in its channel, from
\* which nobody receives, and so main does not wait for ever for it (json_reporter.go:49).
ReporterGoesOn == rep.pc \in {"json", "slack"} => \A t \in DOMAIN rep.work : GoesOn(t)

\* "If all failed tests are flaky, post a GitHub comment containing /test" (README.md:37 of
\* the retryer), where "a test is considered flaky if it failed in some but not all runs".
FlakyIsRetried ==
    ret.pc = "post" /\ (\A t \in ret.failed : \E i \in Configs :
        /\ JobConfigs[i].repo = PullRepo
        /\ \A status \in {"failed", "passed"} : \E b \in ToSet(builds[JobConfigs[i].name]) :
              \E f \in ToSet(b.files) : t \in With(f, status))
    => ret.outliers = {}

=============================================================================
