# Verification of knative/test-infra

This directory holds TLA+ models of the stateful parts of `knative/test-infra`,
the TLC configurations that check them on small instances, and proofs that
TLAPS checks for every instance. A definition names, in `PROJECT.json` under
`map`, the lines of source it stands for.

## The system

The repository is a collection of programs around Prow, the CI system of
Knative. Those that keep state, talk to each other or run concurrently:

| Component | State it keeps | Operations | What is hard | What makes it correct | Module |
| --- | --- | --- | --- | --- | --- |
| **DKCM** `tools/dkcm/mainservice` | `chanLock`, a WaitGroup per pool check, the locals of its goroutines | `/request-cluster`, `/get-cluster`, `/clean-cluster`; `checkPoolCap`, `CreateCluster` | every request, check and creation is a goroutine; all of them read and write two tables call by call; creations take up to two hours; the process may restart | a project belongs to one cluster at a time and is returned once; a cluster that was given is not given again; the pool stays bounded; whoever waits is served | `Dkcm`, `ProjectLease` |
| **Clerk** `tools/dkcm/clerk`, `pkg/mysql` | MySQL tables `Clusters` and `Requests` | one query or statement per method | errors after the change was made, counts that read 0 on an error, updates without a condition | rows go through their statuses in order | `Dkcm` |
| **Boskos client** `pkg/clustermanager/e2e-tests/boskos` | none; Boskos keeps free, busy, dirty per project | acquire (waits up to two hours), release | a release is not tied to the lease it ends | nobody releases a project that has been leased again | `Dkcm`, `E2eClusters` |
| **kubetest2 wrapper** `pkg/clustermanager/kubetest2` | none | `Run`, over a list of regions | which errors are retried | one cluster in the end, or an error | `E2eClusters` |
| **flaky-test-retryer** `tools/flaky-test-retryer` | one comment per pull request, with a counter per job | Pub/Sub message, `HandleJob`, `PostComment` | one goroutine per message, at-least-once delivery, read-delete-create on GitHub | a job is retried at most three times, and is retried when all failures are flaky | `Retryer`, `FlakyPipeline` |
| **flaky-test-reporter** `tools/flaky-test-reporter` | tracking issues and their comments on GitHub; reports in GCS | scan of builds, reports, Slack; create, update, close, reopen issues | several issues for one test, partial failures, goroutines that share slices | one open issue per flaky test; nothing is lost silently | `Reporter`, `FlakyPipeline` |
| **cleanup** `tools/cleanup` | a semaphore, an error channel, a counter | `Delete` over projects | early stop after the first error, others at work on the same projects | bounded parallelism, every error reported, nothing old left | `Cleanup` |
| **E2E cluster manager** `pkg/clustermanager/e2e-tests/gke`, `pkg/gke` | the cluster and project of one test run; kubeconfig, gcloud, `metadata.json` | `create`, `get`, `delete`, `Wait` | retries over regions, timeout against completion, commands cut off | no cluster left behind, no project given away in use | `E2eClusters` |
| **Perf-test cluster manager** `pkg/clustermanager/perf-tests` | GKE clusters against benchmark configurations | recreate, reconcile, delete | a goroutine per cluster, creations that fail half-way, overlapping jobs | the clusters end up as configured | `PerfClusters` |
| **config-generator** `tools/config-generator` | one configuration file in, three out | presubmits, periodics, coverage, TestGrid, release branches | lists that several passes share, names put together by rules in different places | the files agree with each other | `ConfigGenerator` |
| **GitHub, Prow, GCS, Slack, command helpers** `pkg/...` | none | I/O | rate limits, pagination, lists with dropped errors | errors are returned | `FlakyPipeline` in part |
| **prow-jobs-syncer, coverage, buoy, gomod, git** | files | text and version computations | version order | pure functions | none |
| **scripts, images, config** | files | shell and YAML | external tools | | none |

They interact as follows. A Prow job calls DKCM over HTTP; DKCM calls MySQL,
Boskos and kubetest2, and the Boskos janitor recycles what DKCM releases. Prow
publishes job results on Pub/Sub; the retryer reads them, asks GCS for the
failed tests and for the report that the reporter wrote, and answers with a
GitHub comment that makes Prow run the job again. The cluster managers share
Boskos with DKCM.

`PROJECT.json` lists all of it under `components`, and under `hazards` what is
hard to test, line by line.

## Plan

Each part has one module, an `MC` module with its instance where the constants
are more than a few values, a `.cfg` per question, and a `_proofs` module where
something is proved.

1. **DKCM** (done): `Dkcm`, its abstract specification `ProjectLease`, the
   instances `MCDkcm`, the proofs `Dkcm_proofs`.
2. **Retryer** (done): the comment protocol, `Retryer`, `MCRetryer`,
   `Retryer_proofs`.
3. **Reporter** (done but for the bulk issue): the life of the issues of a test
   over many scans, `Reporter`, `MCReporter`, `Reporter_proofs`.
4. **Cleanup** (done): `Cleanup`, `MCCleanup`, `Cleanup_proofs`.
5. **Cluster managers** (done): `E2eClusters` composes the Boskos client, the GKE
   operations, the kubetest2 wrapper and the machine; `PerfClusters` has the
   performance tests. `E2eClusters_proofs`, `PerfClusters_proofs`.
6. **Flaky pipeline** (done): `FlakyPipeline` composes Prow's builds in GCS, the
   collecting half of the reporter and the comparing half of the retryer;
   `FlakyPipeline_proofs`.
7. **Config generator** (done but for the text of jobs): `ConfigGenerator`,
   `MCConfigGenerator`, `ConfigGenerator_proofs`.

Left to do: the abstract specification of a Boskos user that returns every project it acquires, once,
with DKCM and the E2E cluster manager shown to implement it as far as they do; the bulk
issue of the reporter; the coverage summary and `BestRefFor` against reference
definitions.

## DKCM

### State and actions

| In the model | In the code |
| --- | --- |
| `request[r]` | the row of table `Requests` with access token `r`: whether it is there, `RequestTime`, `ClusterID` (`None` is 0) |
| `cluster[k]` | the row of table `Clusters` that creation `k` inserts: `Status` (`"gone"` is no row) and `ProjectID` |
| `project[p]` | what Boskos has on record for `p` |
| `lock` | the number of messages in `chanLock` |
| `checker[r]`, `wg[r]` | the `checkPoolCap` goroutine started by request `r`, its `numAvail`, and its WaitGroup |
| `creator[k]` | a `CreateCluster` goroutine and its project; `k = <<r, i>>` is the `i`-th one that the check of request `r` starts |
| `handler[h]` | the goroutine that serves a `/get-cluster` or `/clean-cluster` call, with its locals |
| `job[r]`, `given[r]` | the Prow job behind request `r` and the cluster it was told to use |

One action is one call to MySQL, Boskos or kubetest2 with the local code up to
the next call, since that is where goroutines meet:

* `/request-cluster`: `ReceiveRequest`, `InsertRequest`;
* `checkPoolCap`: `Lock`, `CountReady`, `CountWIP`, `Unlock`;
* `CreateCluster`: `AcquireProject` or `AcquireFails`, `InsertCluster`, then
  `MarkReady`, or `MarkFailed` and `ReleaseFailed`;
* `/get-cluster`: `Poll`, `RankRequest`, `CountAvail`, `CheckAvail`,
  `GetCluster`, `UpdateRequest`, `UpdateCluster`;
* `/clean-cluster`: `Clean`, `CleanGet`, `CleanCheck`, `CleanDelete`,
  `CleanRelease`;
* around the server: `Tick`, `Abandon`, `Janitor`, `Restart`.

`Faults` names the kinds of call that may fail. A failing write or release may
have taken effect or not (`Outcomes`): the error may be a lost answer. A failing
count reads 0, as in `CheckNumStatus`.

`LockCapacity` is 0 in the code: `chanLock` is made without a buffer. Then no
`checkPoolCap` gets past its first statement (run `DkcmNoLock`) and nothing else
can happen. The other runs give it the capacity 1 that a lock needs, which is
what the comment at its declaration says it is. The theorems hold for both.

### What is left out

Names, zones and node types are one value per request, `Params`. `nameCluster`
and `DefaultClusterName`, log texts and HTTP status codes are not modelled. The
mix-up of columns in `ListClusters` is not either, as nothing calls it.
`kubetest2.Run` is a single step. The two hours after which Boskos gives up on an
acquire are `AcquireFails`, at any time.

### Abstract specification

`ProjectLease` is what DKCM promises about a project: it is leased, carries one
cluster that is created, waits, is used and goes away, and is returned when no
row records it. `Dkcm!life` reads that stage off Boskos and the table, and
`ImplementsLease` says that each step of DKCM is a step of `ProjectLease` or
none.

### Runs

| Run | Instance | What it shows |
| --- | --- | --- |
| `DkcmFaults` | 2 requests, 2 projects, 2 handlers, one spare cluster; reads, writes, acquires, releases, kubetest2 fail, the server restarts | `LeaseExclusive`, `StatusLifecycle` and the refinement `ImplementsLease` |
| `DkcmLive` | 2 requests, 1 project, 1 handler, one spare cluster, two times; creations fail, jobs go away; fair | `PoolChecked`, `CreationResolved`, `ReadyClusterServed`; the safety properties `NoProjectLeak`, `GivenStaysTaken` |
| `DkcmTwoPolls` | 2 requests, 2 projects, 2 handlers; no fault | violates `FirstComeFirstServed` |
| `DkcmNoLock` | capacity 0, no fault, fair | violates `PoolChecked` |

The bounds are small but reach what matters. Two requests and two handlers
make every pair of calls race; both creators of `DkcmFaults` compete for two
projects, one of which is on its way through the janitor while the other is
used again. `DkcmLive` has one project, so that a creation may have to wait, with the lock,
until the other job's cluster has been cleaned, and one handler, so that its property is
about polls that come one after the other. Two clock values give requests that
precede each other and requests that tie. Projects, tokens and handlers are
interchangeable, so `DkcmFaults` uses symmetry; the fair runs do not.
Deadlock is not checked: when all jobs are done the system rests.

`DkcmTwoPolls` is what the server does under ordinary load. `FirstComeFirstServed` says what
`clerk.go:300` promises: a poll is answered with an available cluster, and there are more
of those than requests that came first. But the rank, the count, the Ready row and its UPDATE are
separate queries, and net/http serves polls concurrently: two of them pick
the only Ready row before either marks it, and two jobs run on one cluster. The order of requests
is not kept either, even with one handler, once the clock has two values: `RequestTime` is taken
before the INSERT, so an earlier request may appear after a later one was ranked. What
does hold for any number of polls is `GivenStaysTaken`: after the answer nobody finds the cluster
Ready again, so that jobs only share it if their polls overlap.

Changing a constant shows what the passing runs rest on. `"acquire"` among the faults of
`DkcmLive` violates `PoolChecked`: `CreateCluster` returns before `wg.Done()`. `"restart"` violates
`CreationResolved`: a row whose creation was cut off stays WIP. `ReadyClusterServed` names its
own exemption: the row of a job that went away keeps its rank, because nothing calls
`ClearTimeOut`, and those ranked behind it may wait for ever. `NoProjectLeak` is about calls that
succeed: if a release fails, `/clean-cluster` has already deleted the row, and a
second try, which the answer asks for, finds none, so that the project stays
leased. And that every request is served is not even stated: the pool is only filled
when a request arrives, so the last ones may wait for ever.

### Fairness

The liveness properties assume that goroutines are scheduled and that MySQL,
Boskos and kubetest2 return (weak fairness of every goroutine's steps), that the
janitor runs, and that a job polls until it has a cluster and cleans it up
afterwards. Polls and cleans are strongly fair since the bounded set of handlers
is the instance's: in the server every connection has a goroutine. No new
request has to arrive, and nothing forces a creation to fail.

### Proofs

`Dkcm_proofs` proves, for all finite or infinite sets of projects and handlers,
any finite set of tokens, any over-provision, both capacities and every set of
faults:

* `TypeCorrect`: `TypeOK` is an invariant. It needs that creators are finite,
  as counts are natural numbers (`CreatorsFinite`, `CountType`, `RankType`).
* `LeaseSafe`: `LeaseExclusive` is an invariant. It is not inductive. Releasing
  a project keeps it only if the one who releases knows that no row records the
  project, and a row may be inserted only for a project that nobody else is
  about to insert or release. `LeaseInv` adds just that: how rows follow their
  creators (`RowsFollowCreators`), which clusters requests and handlers may name
  (`OnlyHandedOut`), and that whoever is about to insert or release a project
  holds it alone (`HoldersExclusive`). The DELETE of a clean is where it
  matters: `checkAffected` lets one of several cleans go on, and only this one
  becomes a holder.
* `AssignedSafe`: `AssignedClusterCreated`, from the same invariant.

`StartedOnce` is a second small invariant: a request starts its goroutines once,
so the loop in `checkPoolCap` never restarts one that is running. One lemma per
action shows that the step keeps `LeaseInv`; `NextLease` puts them together.

From `LeaseInv` follow, for the same constants:

* `LifecycleSafe`: `StatusLifecycle`, and `LeaseRefined`: `ImplementsLease`. `StepEffect` says
  of every step which row or project it changes, and what the invariant knows of
  it; `LifeRead` that the stage `life` gives a project depends only on its record in
  Boskos and on the one live row that `LeaseExclusive` allows it.
* `NothingLeaks`: `NoProjectLeak`, with the goroutines that hold a project between
  two calls counted in.

It also proves what counting is needed for:

* `PoolSafe`: `PoolBounded`. The two counts of `checkPoolCap` are separate queries, and
  clusters change between them. By `LockInv` only one check is between them, and it keeps
  `chanLock` while goroutines that it has started have not inserted their rows (the
  WaitGroup is at least their number). `PoolInv` has the numbers: at most
  `DefaultOverProvision` in the making, at most twice that in the pool, and between
  the queries at most that many beyond what the first one has counted.
  No run checks `PoolBounded`, since it takes three requests to exceed the bound.
* `GivenSafe`: `GivenStaysTaken`, when writes do not fail. A row whose creation is over never
  returns to Ready (`DoneKept`), and a poll answers with a row that it has just marked, or that a clean
  has removed meanwhile (`GivenInv`).

Only model-checked: liveness, which the prover cannot do.

## Retryer

### State and actions

The retryer keeps nothing in memory between messages. How often each job was
retried is written in one comment on the pull request, which every goroutine
reads, deletes and creates anew. Pull requests share nothing, so `Retryer`
models one of them.

| In the model | In the code |
| --- | --- |
| `handler[h]` | a `HandleJob` goroutine: the job and commit of its message, whether some failed test is not known as flaky, the comment it has read, the one it is about to post |
| `comments` | the retryer's comments on the pull request: identifier, commit (`testIdentifierPattern`), the counter of each job (`entry.retries`; a job without a row has 0, as `PostComment` gives it). `NoCommit` is a comment in the legacy format |
| `created` | the source of GitHub's comment identifiers |
| `root` in a comment, `retests`, `disturbed` | history: the comment that this one goes back to, the `/test` commands posted, and whether one of the events below has happened |

* `Receive`: `Listen` spawns a goroutine. Prow and Pub/Sub may deliver the failure
  of any job on any commit, late, twice or never.
* `GetTests`: `HandleJob` up to `PostComment`, that is reads only, and every
  early return. It looks at the latest build, whichever that is, so that its
  outcome is free.
* `ListComments`: `getOldComment`, then the choice of the counters to go on from
  (`TakesOver`) and the new comment (`BuildNewComment`).
* `DeleteComment`, `CreateComment`: the two writes. A DELETE of a comment that is gone
  is an error; one that took effect may still answer with an error.
* `Restart`: the deployment replaces the process.

Left out: the links of the table rows (`addLink` keeps all of them, whatever its
comment says of three; nothing else depends on it), the wording, the dry run,
comments of other users, and messages that `IsSupported` drops.

### What holds, and what does not

Call a *thread* the comments that take over each other's counters. Whatever
goroutines, redeliveries, failures and restarts there are, within a thread each
retry is triggered once (`RetryTriggeredOnce`), the comment tells the truth about
all jobs (`RecordTruthful`), and a push starts a new thread (`RetriesPerCommit`).
Nothing coordinates the goroutines but GitHub: of those that have read the
same comment, one gets its DELETE through, and the others return.

What is not protected is the time between DELETE and create, in which there is no
comment. `disturbed` records that it has mattered: a goroutine listed the
comments in that time; the create after a DELETE never came (failed create, lost
answer, restart); or a goroutine found a comment of a later commit than its
own, which it replaces. As long as none of these happens, a job is retried at
most `maxRetries` times per commit (`UndisturbedBounded`) and there is one comment
(`UndisturbedSingle`). Two comments are the end: `getOldComment` then fails for
every message (`BlockedForGood`).

| Run | Instance | What it shows |
| --- | --- | --- |
| `RetryComments` | 2 jobs, 2 goroutines at a time, 2 retries, 2 commits, 3 comments created; deletes and creates fail, restarts | `RetryTriggeredOnce`, `RecordTruthful`, `UndisturbedBounded`, `BlockedForGood` |

The tool's README says that a job is retried "atmost 3 times". Without the condition
that nothing disturbed it this is false, and no fault is needed: a goroutine that
lists the comments between another's DELETE and create finds none, and starts to
count again.

Three comments are enough for a thread of three, for two threads on one commit
and for a return to an older commit; two retries are reached and refused. With
more goroutines no new pair of steps meets. Deadlock is not checked: when
`MaxComments` is reached, goroutines that would post wait for ever in the
instance. Nothing is claimed about liveness: a message that fails is not tried
again, by design.

### Proofs

`Retryer_proofs` proves, for any sets of jobs and goroutines, any number of
commits, `MaxRetries` up to 9 (`entriesRegex` reads one digit) and every set of
faults, all properties that `RetryComments` checks, and the invariants they follow
from:

* `TypeCorrect`: `TypeOK`. A counter is only incremented below `maxRetries`, by a
  goroutine that knows its job.
* `ThreadSafe`: `ThreadInv`, which contains the three properties of threads
  (`TriggeredOnce`, `Truthful`). They are not inductive, since what a goroutine will
  post was computed from a comment that others may replace meanwhile. The
  strengthening says that this is still right *if the comment it read is still
  there* (`ReadIsCurrent`), and that whoever has deleted a comment is alone in going
  on from it (`SuccessorAlone`); with identifiers that are never used twice
  (`IDsFresh`) the DELETE takes one to the other.
* `BoundedIfUndisturbed`, `SingleIfUndisturbed`: from `UndisturbedInv`, by which
  there is then one line of comments, from the first commit to the last, and every
  retry of a commit is in one thread, where `TriggeredOnce` makes their numbers an
  injection into `1 .. MaxRetries`.
* `BlockedStays`: `BlockedForGood`.

## Reporter

### State and actions

The reporter keeps everything on GitHub: for each flaky test an issue with
`flakyLabel`, and in it one comment that it edits after every scan and that tells
the latest result. Tests share nothing but the scan that handles them in turn, as
no two jobs of one repository track issues, so `Reporter` models one test.

| In the model | In the code |
| --- | --- |
| `issue[i]` | the `i`-th issue that was created for the test: open or closed, closed before `timeConsiderOld` or not, labelled or not; what its comment tells (`reLatestStatusRegex`) and whether it is about the latest builds |
| `result` | what the latest builds say: flaky, passed, or something that nothing acts on. The last includes that `flakyRateAboveThreshold` makes the scan open one bulk issue instead, which does not concern the test's own |
| `scan.pc`, `.todo`, `.appended`, `.id`, `.target` | how far the scan is; the test's entry in `issuesMap`, less what is done; the issues whose history is already in the variable `comment`; the issue in work, and the state it is to get |
| `reopened`, `passes`, `scan.clean` | history, for the properties |

* `StartNew`, `StartAgain`: a run of the Prow job, for new builds or for the same
  ones once more.
* `ListIssues`, `ListAnother`: `getFlakyIssues`. After each repository it lists,
  it goes through the issues of all repositories so far, so that a test meets its
  selection once or more often. `Kept` is what that leaves, `Panics` that it does
  not return.
* `ProcessTest`, `UpdateIssue` (`SkipIssue`, `LeaveClosed`, `EditComment`,
  `EditFails`), `CloseOrReopen`: `processGithubIssuesForRepo` and `updateIssue`, one
  step for each write.
* `CreateIssue`, `CreateComment`, `AddLabel`, `RemoveLabel`, `CloseInvalid`:
  `createNewIssue` with its clean-up.
* `Finish`, `Crash`: the end of the process. `PersonCloses`, `PersonReopens`: at
  any time, also between the reading of an issue and its update.
  `MonthPasses`: only between scans, since `timeConsiderOld` is computed at start.

A write that fails may have taken effect. GitHub lists issues newest first, its
default. The removal loop shares its slice with the one it ranges over; rather
than the slices, the model has what becomes of the issues (`Remaining`,
`OutOfRange`), and `LoopAsModelled` in `MCReporter` compares that with the loop, as it
is written, for all lists of up to six issues.

Whether an issue already has the data of the current builds is decided by a
substring, and `comment` gets longer with the history of each issue that is
updated. An issue whose turn comes after another may therefore be updated again
with the same builds. As the model has no histories, it then allows both
(`MayContain`, `MayLack`).

### What holds, and what does not

* Whatever call fails in `createNewIssue`, no issue is left that the next run
  stops on (`NeverMalformed`). An issue without the label may be left, open for
  ever, if a crash or a lost answer hits its creation.
* Beyond one, at most as many issues are tracked as people have reopened
  (`TrackedBounded`, proved).
* An undisturbed scan tracks a flaky test (`TrackedWhenClean`), and whatever
  disturbs scans, a test that stays flaky is tracked again and again
  (`FlakyTracked`). It may take new builds: a scan that edited a comment and then
  failed to reopen its issue is not made up for by starting it again, as the
  comment "already contains data".
* An issue is closed after two different builds in which the test passed
  (`ClosedAfterTwoBuilds`), but for the second issue of a scan, which may be told
  of the same builds twice. The two need not be the latest ones, as the closing
  comment says: builds without a result are not recorded.
* The issues of a test that keeps passing get closed (`PassedSettles`), unless
  `getFlakyIssues` panics, which it then does in every run and for all tests.
* `getFlakyIssues` does not keep the issues that its comment says
  (`github_issue.go:419`): of closed ones it keeps the oldest, beside an open one it
  keeps every second of closed ones in a row, and it panics when the oldest of
  several closed ones is the last in the list. `LoopAsModelled` computes this.

| Run | Instance | What it shows |
| --- | --- | --- |
| `ReporterScans` | 2 issues, 1 reopening, every call fails, crashes; fair | `NeverMalformed`, `TrackedWhenClean`, `ClosedAfterTwoBuilds`, `FlakyTracked`, `PassedSettles` |

Two issues are one that is worked on and one that fails or is touched
meanwhile. The removal loop needs three to panic; what it does to longer lists is
in `LoopAsModelled`, up to six, and the proofs hold for any number of issues. When
`MaxIssues` are created, nothing can be in the instance, and `FlakyTracked` asks for
no more (`Full`). Deadlock is not checked, as an instance that is full may rest in
`CreateIssue`.

Fairness: new builds come again and again, and of infinitely many attempts at a
call one succeeds (strong fairness, issue by issue); the scan goes on (weak
fairness). People, failures and crashes are not restricted: they may go on for
ever.

### Proofs

`Reporter_proofs` proves all safety properties of `ReporterScans`, and
`TrackedBounded`, for any number of issues and reopenings and every set of faults. `ScanInv` is the inductive
invariant. It holds what a scan relies on when it writes: that issues it has read
stay tracked while it runs (`WritesWell`), that a comment which tells of a pass has
counted a build (`PassesCounted`), that there is room for an issue that is about to
be labelled (`RoomForNew`), and how a clean scan knows the issues as they are
(`CleanScanTracks`). `RoomForNew` needs that selecting issues never leaves none of
some (`KeptSome`): a test with a closed issue would get another. For a test all of
whose issues are closed this rests on there being an oldest (`OldestSome`), by the
well-foundedness of the natural numbers. One lemma per action follows.

The liveness properties stay with TLC, and so does `LoopAsModelled`, an induction
over the loop.

## Cleanup

One run after the other of the tool: options, the choice of projects, a deleter for
images and then one for clusters, each with the parallel `Delete`.

| In the model | In the code |
| --- | --- |
| `run` | the process: how far `cleanup` is, the deleters that are left, the selected projects |
| `worker[i]` | the goroutine of `Delete` for the `i`-th project: where it is, the repositories left to list, what it has listed, its count |
| `concurrency`, `errorChan`, `count` | what is in the two channels, and the counter |
| `stored`, `tag` | the images and clusters of all projects, and which image has each tag |
| `gone` | history: what this `Delete` has deleted |
| `undone` | history: the clusters whose DELETE operation has ended with an error during this `Delete` |

`Enter` and `Leave` are the semaphore, `CheckErrors` the look at the error channel,
`List`, `DeleteTag`, `DeleteItem` and their failures one call each to GCR or GKE, `SendError`
the end of a failing invocation. `OthersDelete` and `Push` are people at
work on the same projects: they delete, and move a tag to another image. A deletion
that fails may have taken effect. A crash ends the process anywhere.
`DeleteItemUndone` is a DELETE operation that GKE ends with an error: `gke.Wait` looks at
the status of an operation only, which is `DONE` (`pkg/gke/wait.go:57`), so that the
cluster is counted, no error is reported, and the cluster is still there.

The run `CleanupRuns` has three projects, or one that is listed twice, and two concurrent
operations; every option that the tool refuses is among the command lines.
`ErrorsBounded` is the "prevents a large build-up of failed requests" of the code;
`CleanIfNoErrors` is that nothing old is left when no error is reported, but for the
clusters in `undone`; `CountBounded` that the tool tells of no more deletions than what is
gone and the operations in `undone`; `RunsEnd` that every run ends. That `Delete` may end
without an error, tell of a deletion and leave an old cluster is thus what the code does,
and both properties say so: without `undone` they are violated as soon as an operation
ends with an error. With two operations, three projects are one that fails, one that
is admitted before it is known and one that must not start. Fairness: goroutines are
scheduled and calls return. Deadlock is not checked, as the tool need not be started
again; `RunsEnd` covers goroutines that hang.

Of the dry run, only that it deletes nothing is modelled.

### Proofs

`Cleanup_proofs` proves, for any resources, any command lines, any number of concurrent
operations and every fault:

* `TypeCorrect`: `TypeOK`.
* `ErrorsSafe`: `ErrorsBounded`. That an error is in the channel stops only those who look
  after it was sent; whoever has looked before may still fail. `ErrorsInv` counts both: the
  errors sent and the goroutines that may still send one are together at most the places
  of the semaphore, since the latter hold a place each, and get there only while no error
  is in the channel.
* `CleanSafe`: `CleanIfNoErrors`. By `CleanInv`, while no error has been sent, whatever is old
  and selected is ahead of the goroutine of its project, in a list that is not read yet
  or among what is to be deleted, or that goroutine is about to send an error (`Ahead`),
  or it is a cluster in `undone`.
* `CountSafe`: `CountBounded`. The counter and the counts of the goroutines would have to
  be summed up; instead, each item that is gone, and each operation in `undone`, is given
  to one goroutine, or to the counter (`CountInv`), so that each of them counts at most what it was given (`Covers`). A
  goroutine that adds to the counter hands its items over.

Only model-checked: `RunsEnd`.

## Clusters of end-to-end tests

`E2eClusters` composes `kntest cluster gke create`, `get`, `delete` and
`kntest kubetest2 gke` on one machine: the pod of a Prow job, or a developer's computer.

| In the model | In the code |
| --- | --- |
| `job[m]` | the command that runs, its request after `Setup`, the project, the regions left, and whether it has succeeded |
| `env[m]` | what stays on the machine: the context in kubeconfig, the project of gcloud, and `metadata.json`, which an interruption may leave half written (`broken`) |
| `boskos[p]`, `gke[c]` | the lease of each project; the status of each cluster there may be |
| `creator`, `job[m].made`, `.undone` | history: who created a cluster, what this command created, and whether its deletions went through |

A command is a sequence of calls to Boskos, GKE, gcloud, kubectl and kubetest2; each may
fail. `Poll`, `PollFails` and `Timeout` are `Wait`: the poll that finds the operation done, up
to three failing ones, and the timer. GKE goes on in the meantime, or not
(`Provisioned`, `Deleted`); a deletion by others is part of it. A pod may end at any step
(`PodEnds`; the reaper then takes its project), a developer's command may be interrupted.

The run `E2eClusters` checks that a pod does not use a project that it has given back
(`LeaseCoversUse`), that a developer's create leaves one cluster, however many
regions it has tried (`OneCluster`), that the three places that tell which cluster is
used agree after a success (`EnvironmentAgrees`), and that every command ends
(`CommandsEnd`). One machine is enough as the code of two machines shares only GKE and
Boskos, and others who use these are in the instance. Two regions are one to fail and
one to go on with; the third one is there for the defaults. Fairness: a command goes on,
and `select` does not pass over a timer that is ready for ever. GKE and Boskos need not
answer well, nor finish.

What the code does beside that, and the model with it:

* A creation whose operation is DONE with an error is taken for a success
  (`wait.go`), and `needsRetryCreation` affects only a log line (`gke.go:138`): every
  error is retried.
* A cluster of that name that others have is deleted after a failed creation, although the
  comment at `gke.go:119` says half created ones are (`Undo`).
* A cluster that `Acquire` finds running is used without `ensureProtected`.
* If the request is not valid, the Boskos project that was acquired for it is kept until the
  pod ends.
* `IsCI` and `IsProw` look at different environment variables; the model has one.
* `boskos.go:37` tells another duration of `defaultWaitDuration` than its value.

### Proofs

`E2eClusters_proofs` proves the three invariants of the run, for any number of machines,
pods and others mixed, any requests, regions and projects, and every set of faults:

* `TypeCorrect` and `EnvironmentSafe`: `TypeOK` and `EnvironmentAgrees`, from `IInv`. It says
  what a command has at each of its steps (`ShapeOK`), and which of kubeconfig, gcloud and
  metadata.json it has written by then (`EnvOK`). That the list of regions consists of regions
  after duplicates were filtered out is a fact about a loop, proved from its least
  counterexample instead of by induction (`RegionsOfType`).
* `OneSafe`: `OneCluster`. By `OneInv`, unless a deletion failed, whatever a developer's
  command has created is being deleted or in ERROR, but for the cluster of this round and
  the one that is returned (`Current`). It also has to be there still, as long as it counts
  as made by this command: otherwise someone else might create it anew.
* `LeaseSafe`: `LeaseCoversUse`. By `LeaseInv`, a pod holds its project from the acquire to
  the release (`PlaceOK`); it releases only the project of its context, whose cluster it has
  deleted; and it holds the project of its context, if the cluster is there (`CoverOK`).

`LeaseSafe` has two conditions. `ProjectsApart`: nobody asks for a project of Boskos by its
name. `PodsApart`: two pods do not have one `JOB_NAME`, or `kubectl config unset` does not
fail. The source says why, where a project is released (`ReleaseGKEProject` in `boskos.go`):
Boskos knows an owner by the name of its job only. If the `unset` after a deletion fails, the
context stays; another `delete` then deletes the cluster that a second pod has created in that
project meanwhile, and releases the project, in the name that they share, when the second
pod has ended and a third one of that name uses it. TLC finds this with two pods of one
name (`LeaseCoversUse` is violated) and finds nothing with two names and a failing kubectl
(5.5 million states), or with one name and no such failure (3.5 million).

## Clusters of performance tests

`PerfClusters` has Prow jobs that recreate, reconcile or delete the clusters of one
repository's benchmarks, beside other repositories in the same project.

| In the model | In the code |
| --- | --- |
| `job[j]` | a run of the tool: what it has listed, and `tasks`, its goroutines: one for each listed cluster and one for each benchmark without any, with the counters of both retry loops |
| `gke[k]`, `benchmarks` | the clusters, by name and location; the benchmarks and what their `cluster.yaml` says |
| `epoch` | history: whether the jobs since the last rest had one goal and nothing was in their way, and the names for which GKE has ended an operation with an error |

`List` and `Read` are `processClusters` up to the goroutines; `Delete` to `GetAfterFailure` are the
steps of one, with the retried creation that first deletes what a failed one has left.
GKE refuses calls for clusters it is at work on. It ends an operation with success
(`Provisioned`, `Stopped`) or with an error (`OperationFails`), after which the cluster is there,
also if it was to be deleted. `gke.Wait` returns nil for both, since the operation is DONE
(`wait.go:57`), so `Deleted` and `CreateDone` go on after either.

In the run `PerfClusters` two jobs overlap over one benchmark whose size and zone
change, one cluster of another repository exists, calls and operations fail at will and pods are
killed. `ReconciledIfNoErrors` is what the comments of the operations promise, leaving aside the
names for which GKE has ended an operation with an error (`epoch.failed`): jobs
report nothing of it and leave a cluster in ERROR, or one that was to be deleted, or, when
another cannot be created, none. Without that exemption the property is violated. `KeptIfUnchanged` that reconciling does not touch an unchanged cluster, which rests on the
node count of regional clusters being divided by their three zones; `OthersKept` and
`JobsEnd`. Fairness: goroutines run and
calls return. GKE need not finish anything: `Wait` has a time-out.

`Quota` is the number of clusters the project may have. The value 2 of the run, one beside the other
repository's, is a bound of the instance: a benchmark has one cluster at a time in it, so that a
duplicate in a second location, which an error of `GetCluster` or of a deletion may lead to, is left to
the proof, which holds for every `Quota`.

Benchmarks change between jobs only (`ChangesDuringJobs = FALSE`). Otherwise two jobs can
see two configurations of one benchmark, and duplicates of its cluster that they create in two
places may end with one too few. Further, and modelled: a cluster in
ERROR whose size is right is kept; one that a killed job left PROVISIONING is
skipped; the machine type is not compared (`cluster.go:92`). A `cluster.yaml` with a wrong
type is partly applied, while the warning says that the default is used; the model's
files have some of the fields, or none.

### Proofs

`PerfClusters_proofs` proves the safety properties of the run, for any names, benchmarks and
flags, any number of jobs, and whatever fails or is killed. It assumes that names and files
are finite, that a file has integers for node counts (negative ones are among them), that
the others have other names, and that `Absent` is not a configuration (`PerfAssumption`,
`OthersAssumption`, `AbsentAssumption`).

* `OthersSafe`: `OthersKept`. By `OwnInv`, all that a job has listed or works on belongs to the
  repository: a listed cluster because `clusterBelongsToRepo` has let it through, a created
  one by the name it is given.
* `ReconcileSafe`: `ReconciledIfNoErrors`. The difficulty is that jobs overlap: one may skip
  what another is at work on. `ReconcileInv` says of every name whose operations have ended well
  (`Intact`), as long as nothing was in the way, that it is cared for (`Cared`): its cluster is right; or a goroutine is about to
  change that, or will make its job fail; or a job has yet to list the clusters, or has listed
  them and will start such a goroutine (`Pending`). What a job has listed may be outdated by
  the time it starts its goroutines, and a cluster in a second place would then escape all of
  them. `Found` excludes it: the clusters of a benchmark are where they must be, or a single one
  stays elsewhere, all who know of the benchmark know of that one, and nobody creates another
  (`Stays`). And what is being created will be right (`CleanCluster`). When all jobs are idle,
  only `Right` remains. By `PlacedInv`, clusters of the repository were made from some
  configuration, in its location.
* `KeptSafe`: `KeptIfUnchanged`. By `KeptInv`, a job that reconciles has listed every benchmark's
  cluster once and finds each unchanged, whence all its goroutines end at once.
  For regional clusters this is `(3 * n) \div 3 = n`.

`clusterConfigForBenchmark` overrides the default field by field in one function, for the
prover's sake.

Only model-checked: `JobsEnd`. `TypeOK` bounds retries as well and documents the states;
the proofs use `OwnInv` for types.

## Flaky pipeline

`FlakyPipeline` follows a test result from the builds that Prow leaves in GCS to the `/test`
that the retryer posts.

| In the model | In the code |
| --- | --- |
| `builds[j]` | the builds of a job, in the order of their numbers: their junit files, and whether `artifacts` and `finished.json` are uploaded |
| `rep` | the process of the reporter: the `RepoData` collected, the job and builds in work, the goroutines that write reports or post to Slack, the slice of errors as its length and its array, the reports and messages so far |
| `recorder` | the builds of the reporter's own job, which hold its reports, by day |
| `ret` | a goroutine of the retryer: the tests that failed in the pull request, the flaky ones, the outliers |

`OpenJob`, `LookAtBuild`, `CloseJob` are `collectTestResultsForRepo`. Its lists drop their errors
(`prow.go:226`, `290`), and so do the actions (`NoList`, `missed`). `Call`,
`WriteErrs` and `Send` are the goroutines of `writeFlakyTestsToJSON` and of
`sendSlackNotifications`: they append to one slice without a lock, so that an append reads
the length and the array at one moment and writes them back in two; an append from a
torn slice, or reading it to its end, may crash. `GetFailedTests`, `Compare` and `Post` are
`HandleJob` as far as the results go (its comment is in `Retryer`).

`GitHub` is `githubOperations` with `processGithubIssues`, in one step (the issues are in
`Reporter`). Three things may come of it: `Setup` fails, and the job does after Slack;
`getFlakyIssues` fails, and `log.Fatalf` ends the process before Slack; or it returns, with
or without an issue that was found or created. In the last case the errors of
`processGithubIssuesForRepo`, of issues that could not be created or updated, are in the
log and nowhere else (`github_issue.go:562`-`581`): the function returns nil. `main.go:90` says of
errors of GitHub operations that the job should fail after Slack; this one does
not, and if the issue was the only one, nobody is told. So `SuccessIsComplete` speaks of the issues
that GitHub has shown or accepted, and says nothing of the others.

| Run | Instance | What it shows |
| --- | --- | --- |
| `FlakyPipeline` | two continuous jobs with up to 3 and 1 builds, a pull request with 1, three histories, `buildsCount` 2, one run of the reporter, one day that makes an old report outdated; every call fails, the process is killed | `RetryJustified`, `SuccessIsComplete`, `OldBuildsForgotten`, `ReporterGoesOn` |
| `FlakySubtests` | one history, no fault | violates `FlakyIsRetried` |

A retry is justified by results, whatever was missed (`RetryJustified`); a reporter that
succeeds has written every report and posted every message it had to, in spite of the torn
slices, since of several errors of goroutines one always remains (`SuccessIsComplete`, which
leaves out the errors of single issues); it uses the latest builds (`OldBuildsForgotten`); and its
channels have room for all goroutines (`ReporterGoesOn`). Three builds are one more than are
read; two channels and two repositories give two goroutines that tear the slice. A
second run would start from a report as the histories already do.

A build uploads its junit files at once, before or after its `finished.json`. That the
retryer sees only some of them is not modelled: `RetryJustified` speaks of the failed tests
it has seen, and says nothing of files that came later.

### Proofs

`FlakyPipeline_proofs` proves all safety properties of the run, for any jobs, junit files,
histories and numbers of builds, runs and days, and every set of faults. It assumes of the
configurations what `PipelineAssumption` says, and that no repository has a name that
another one's ends with, as the module's `getReportPaths` does.

* `TypeCorrect`: `TypeOK`, from `Shaped`, which adds that the scan only looks at builds that are
  there (`ScanShape`), and that goroutines and messages are about data that is (`WorkShape`,
  `PullShape`).
* `RetriesJustified`: `RetryJustified`. Every result in the reporter's data is that of a finished
  build of its job (`DataInv`), so every test of a report, in the directory of the reporter or under a
  build of the recorder, has passed and failed in such builds (`ReportsInv`), and so has every
  test that the retryer does not count as an outlier (`RetryInv`). Builds are never taken back.
* `OldForgotten`: `OldBuildsForgotten`. The builds that a scan has counted are at least as many
  as the finished ones that are newer than what is left to look at (`RecentInv`): builds that
  start during the scan are newer than all that it will look at, and it does not look at them.
* `SuccessComplete`: `SuccessIsComplete`, in four parts. Every job that was passed has data, or
  had no finished build in a list that was read (`CollectInv`). Every repository with data has its
  report (`ReportedInv`), every channel has its message (`ToldInv`), or its goroutine is still
  at work, or there is an error. And an error is not lost for good in the slice that
  goroutines append to without a lock (`ErrorsInv`): whoever writes the length writes one of
  at least 1, because the length it read plus its own error is; so a race of appends may
  lose errors, but never the last one.

* `NobodyWaits`: `ReporterGoesOn`. The property speaks of each goroutine's guards: each has
  finished or has a step to take, so none waits, which is more than that one of them goes on.
  A channel gets a message only from a goroutine that then ends, so its messages are as many as
  the goroutines that have ended, fewer than the `Buffer`, the number of all of them, while one has
  not (`ChannelInv`). The number of channels of a job is finite, as `PipelineAssumption` says.

The violated run: `filterOutParentTests` keeps the parents of subtests out of the report,
but the retryer's copy of that code does not, so a pull request that only failed in a
flaky subtest is not retried, which its README promises.

Further divergences that the model has: an empty junit file is an error for the retryer and none
for the reporter; a failed read of `started.json` of a finished build ends the reporter
(`LookAtBuild`); after a listing failure a report is missing without an error, which is
what `missed` is about; the newest report is used whatever its age (`jsonreport.go:145`),
others only for `maxAge` days; report paths are matched by their suffix. The dry run is not
modelled, nor is the threshold above which a bulk issue is opened.

## Config generator

`ConfigGenerator` runs `main` over one configuration file: optionally the upgrade of release
branches, then the generators in their order. An action is one call of a generator for one
entry; the variables are what the calls share.

| In the model | In the code |
| --- | --- |
| `file`, `todo`, `pc` | the parsed file, and the calls that are left in the phase |
| `repositories`, `metaData` | the global list of repositories; `TestGridMetaData` and the map of coverage jobs |
| `output`, `jobs` | the headings and jobs in the order they are written |
| `grid` | the Kubernetes TestGrid and the sections of the TestGrid configuration |

A name is the sequence of the words between its hyphens, so that names which are put together
differently collide where strings would. An entry of the file is its key with what
`getBool`, `getString` and `getInt` make of its value; a value of a wrong type, which ends the program, is
left out, and so are the text of templates, resources, volumes and arguments.

The run goes over all files with two of thirteen kinds of periodic jobs, six lists of
presubmit jobs, up to five release branches of each kind, and four states of the branches
on GitHub. `JobsDistinct`: no two jobs have one name. `GroupsMatchJobs`: the second pass, which makes
TestGrid's groups, agrees with the jobs that the first made. `UpgradeKeepsNewest`: of the release
branches the newest stay, and another upgrade changes nothing. `RunsApart`: the cron of a job leaves
five minutes after its timeout. `OutputGrouped`: headings are written once, each job under its own.
The program has no loops beyond its input, so every behaviour ends, and deadlock is not checked.

Three preconditions say what the files must look like, and what happens otherwise:

* `InOrder`: the type of a job before its `release` and `cron`, since keys are handled
  in the order of the file.
* `SettingsFirst`: `performance` in the first entry of a repository.
* `CoverageAfterMain`: a repository with coverage has periodic jobs, the last of them on the
  default branch. One without gets no group (`addRemainingTestCoverageJobs` uses the first
  project name for its tabs), and one that ends in a release gets a group for a job that does not exist.

Also met while modelling, each too small for a run of its own: hours that do not divide 24
make a cron start too early at midnight; `goCoverageMap` is keyed by the repository without its organization;
without a periodic job in `knative` a map is nil and the program panics; `needs-dind` on a
`branch-ci` job adds its volumes twice; `short-text-metric` is a key that
`generateProwJobAnnotations` does not know; `buildProjRepoStr` trims a set of characters
where a suffix is meant; under `--job-filter` a postsubmit can be written without the heading of
its repository; and an entry for a release replaces the alerts of a job
(`periodic_config.go:225`), so that a dot release is annotated as stale after 3 hours in
`config/prod/prow/jobs/config.yaml:6444` where its group has 170.

### Proofs

`ConfigGenerator_proofs` proves four properties for all files, branches, filters and overrides:

* `RunsApartSafe`: `RunsApart`. The hypothesis `TimeoutsNatural` is that the file gives no negative
  timeout, with which `generateCron` could divide by zero.
* `OutputGroupedSafe`: `OutputGrouped`. The hypothesis `ReposDistinct` is that every repository has a
  name and its presubmit jobs are in one place; of a repository listed twice, with another one between,
  the later jobs would come after the other one's heading, since the heading is not repeated.
* `UpgradeSafe`: `UpgradeKeepsNewest`. The hypotheses are `VersionsKnown`, that the versions in
  the file have a major and a minor number and a repository has one job of a kind for each (with two
  jobs of the latest versions, one would be copied and the other dropped), and `BranchesListed`,
  that GitHub is asked for the branches of every repository of the file, as `getReposMap` does.
* `GroupsSafe`: `GroupsMatchJobs`, with what that property itself supposes of a file (above). The
  hypotheses are `BranchesListed`; `BranchesNumbered`, that GitHub has finitely many branches, with numbers;
  and `FilesSensible`. In a sensible file a name means one repository, listed once in a section, since
  the second pass knows a repository by its name alone; a periodic job has one type, since the first
  pass takes the last one and the second the last that is on; it has at most one `release`, of a
  version with numbers; it is not of the types `performance` and `webhook-apicoverage`, which only the
  second pass knows, nor a custom job called `nightly` or `test-coverage`, whose directory follows
  another rule; a repository has at most one job of go coverage, of no other type; and an organization is not
  called like a release. All of it holds of `config/prod/prow/config_knative.yaml`.

`MCConfigGenerator` assumes these hypotheses of its files, so that TLC evaluates them.

The generators loop over entries, jobs and calls, of which a file has any number. The loops are
folds, which the library defines by a recursive function on sets of indices. `LoopExists` shows that
there is such a function, `RoundByRound` that it takes one step after the other, and `AllRounds`
that what holds before the first step and is kept by each holds at the end: otherwise there
were a first step after which it does not hold, since the natural numbers are
well-founded. So no induction theorem with an operator as parameter is needed.
`FlattenType` and `TogetherFlatten` do the same for the lists of calls.

* `ApartInv`: the entries of `file` and of the calls in `todo` have natural timeouts (`FileUpgrade`: also
  after the upgrade has copied and dropped jobs), and every job in `jobs` holds `Apart`.
  `PeriodicApart` is the core: after all entries and overrides the job has the timeout from which
  `generateCron` computed its hours, unless `cron` names the hour; `CronApart` and `HoursOfDay` that
  multiples of a divisor of 24 which is long enough are far enough apart, also over midnight.
* `GroupedInv`: the output so far is grouped; the heading of the phase's section, once written, is the last
  of its kind; and a repository whose heading is written and which has calls left has the last heading
  of a repository, and its calls come first (`HeadingsOpen`). For the postsubmit jobs that needs
  the list `repositories`, which the presubmit calls append to and two kinds of calls update in
  place, to keep the entries of a repository `Together`, and in step with the calls that are left (`After`).
  `AppendGrouped` says what one line may do, `TemplateGrouped` what `executeJobTemplate` makes of that.
* `UpgradeInv`: `from` is a file of `Configs`, and what `file` holds is its upgrade. The sorted list is
  not needed for that: a job is dropped if three or more are newer (`NewerThan`) and copied if none is. There is
  a newest version (`Extreme`, since there are finitely many jobs), whose job is copied, so the latest
  is there afterwards. Those that stay have fewer than three that are newer, which counts them:
  the versions up to the oldest that stays are at most three (`Injects`), and the latest is the fourth.
* `GroupsInv`: `UpgradeInv`, from which the file is a sensible one also after an upgrade (`FileGood`), and
  what each phase has done (`Stage`). The first pass: every periodic job is that of an entry, of the coverage
  of a repository that has it, or a copy with a test group of its own (`JobFrom`); every entry whose call is gone
  has its job (`PeriodicsLeft`), and so has every repository with coverage (`PresubmitsLeft` puts it
  in the list, `CoveragesLeft` takes it from there). The second pass: after `k` sections the metadata
  holds what the first `k` say (`MetaUpTo`), each detail under a project and a repository that
  `generateTestGridSection` goes through (`Aligns`). The two meet in `SameName`: whatever
  else a job has, the name that the entries give it is the directory of the group that the second
  pass gives it, since a sensible job has one entry of a type and one of a release and all others
  leave both alone; `MapIs`, that the coverage map and the list name the same repositories; and `GroupsDone`.

## Not modelled

* **prow-jobs-syncer**: one sequential run of git commands that ends in creating or
  updating a pull request; there is no state of its own.
* **Coverage tool**: a computation over one profile with unit tests of its own; its percentages
  are sums that a model would repeat.
* **Module and release tools** (buoy, gomod, git): sequential commands; `BestRefFor` is a pure
  function with a table of tests.
* **GitHub, GCS, Slack and shell helpers**: what the modelled tools do with them is a call that
  succeeds or fails. Their own loops (pagination, waiting for the rate limit) have no state
  that others see.
* **Scripts, images, Prow configuration**: shell, containers and data for other programs.
* In modelled parts: `ListClusters`, `ListRequests` and `ClearTimeOut` of the clerk, which nothing
  calls; dry runs; the bulk issue of the reporter; the text of comments, issues and jobs.

Out of the prover's reach, and checked by TLC only:

* all liveness properties;
* `LoopAsModelled`, an induction over data;
* `JobsDistinct`, which holds of the files of the run and not of all: nothing in the code keeps a file from
  listing a job twice, and names put together from words differ only if nobody calls a custom job
  like another job's type and release.

Every other safety property of a passing run is a theorem.
