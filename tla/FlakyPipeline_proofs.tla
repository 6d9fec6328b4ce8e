----------------------- MODULE FlakyPipeline_proofs -----------------------
(***************************************************************************)
(* What holds of the reporter and the retryer for any jobs, files, numbers  *)
(* of builds, runs and days, and every set of faults.                       *)
(***************************************************************************)
EXTENDS FlakyPipeline, FiniteSetTheorems, TLAPS

-----------------------------------------------------------------------------
(* Jobs, files and results.                                                *)

LEMMA JobFacts ==
  /\ \A i \in Configs : JobConfigs[i].name \in JobNames /\ JobConfigs[i].repo \in AllRepos
                        /\ JobConfigs[i].channels \subseteq Channels
  /\ Pull \in JobNames
  /\ Configs = 1..Len(JobConfigs) /\ Len(JobConfigs) \in Nat
  BY PipelineAssumption DEF JobNames, AllRepos, Channels

LEMMA FileFacts ==
  ASSUME NEW f \in File
  PROVE  /\ Tests(f) \subseteq AllTests
         /\ \A status : With(f, status) \subseteq Tests(f)
         /\ \A status : CasesWith(f, status) \subseteq With(f, status)
<1>1. CASE f \in Suite
  <2>1. f.results \in UNION {[T -> {"passed", "failed", "skipped"}] : T \in SUBSET AllTests}
    BY <1>1 DEF Suite
  <2>2. PICK T \in SUBSET AllTests : f.results \in [T -> {"passed", "failed", "skipped"}]
    BY <2>1
  <2>3. Tests(f) = T
    BY <2>2 DEF Tests
  <2>4. QED
    BY <2>3 DEF With, CasesWith
<1>2. CASE f.results = NoResults
  BY <1>2 DEF Tests, With, CasesWith, NoResults
<1>3. QED
  BY <1>1, <1>2 DEF File

LEMMA FilesFacts ==
  ASSUME NEW files \in Seq(File)
  PROVE  ToSet(files) \subseteq File /\ Suites(files) \subseteq ToSet(files)
  BY DEF ToSet, Suites

LEMMA RepoDataType ==
  ASSUME NEW i \in Configs, NEW finished \in SUBSET Nat
  PROVE  RepoData(i, finished) \in RepoDatas
  BY DEF RepoData, RepoDatas

LEMMA AddFacts ==
  ASSUME NEW rd \in RepoDatas, NEW suites \in SUBSET File
  PROVE  LET after == addSuiteToRepoData(rd, suites) IN
         /\ after \in RepoDatas
         /\ after.job = rd.job /\ after.builds = rd.builds /\ after.finished = rd.finished
         /\ after.passed = rd.passed \cup UNION {CasesWith(f, "passed") : f \in suites}
         /\ after.failed = rd.failed \cup UNION {CasesWith(f, "failed") : f \in suites}
<1>1. \A status : UNION {CasesWith(f, status) : f \in suites} \subseteq AllTests
  BY FileFacts
<1>2. rd.passed \cup UNION {CasesWith(f, "passed") : f \in suites} \in SUBSET AllTests
  BY <1>1 DEF RepoDatas
<1>3. rd.failed \cup UNION {CasesWith(f, "failed") : f \in suites} \in SUBSET AllTests
  BY <1>1 DEF RepoDatas
<1> QED
  BY <1>2, <1>3 DEF addSuiteToRepoData, RepoDatas

LEMMA FlakySetType ==
  ASSUME NEW data, NEW D, \A k \in D : data[k] \in RepoDatas, DOMAIN data = D, NEW repo
  PROVE  getFlakyTestSet(data, repo) \in SUBSET AllTests
<1>1. \A k \in D : getFlakyTests(data[k]) \subseteq AllTests
  BY DEF getFlakyTests, RepoDatas
<1> QED
  BY <1>1 DEF getFlakyTestSet

LEMMA GoType ==
  ASSUME NEW tasks
  PROVE  /\ Go(tasks) \in [AllRepos \cup Channels -> Tasks]
         /\ \A t \in AllRepos \cup Channels :
              Go(tasks)[t] = Task(IF t \in tasks THEN "run" ELSE "none", NoErrs, {})
  BY DEF Go, Task, Tasks, NoErrs, Errors

LEMMA GoTasks ==
  ASSUME NEW tasks, NEW t \in AllRepos \cup Channels
  PROVE  Go(tasks)[t].pc = IF t \in tasks THEN "run" ELSE "none"
<1>1. Go(tasks)[t] = Task(IF t \in tasks THEN "run" ELSE "none", NoErrs, {})
  BY DEF Go
<1>2. \A x, y, z : Task(x, y, z).pc = x
  BY DEF Task
<1> QED
  BY <1>1, <1>2

LEMMA ReportersFacts ==
  /\ Process \in Processes
  /\ \A n \in Nat : Idle(n) \in Processes
  /\ Handler \in [pc : {"idle", "tests", "flaky", "post"}, failed : SUBSET AllTests,
                  outliers : SUBSET AllTests]
<1>1. 1 \in Configs
  BY PipelineAssumption DEF AllRepos
<1>2. RepoData(1, {}) \in RepoDatas
  BY <1>1, RepoDataType
<1>3. NoTasks \in [AllRepos \cup Channels -> Tasks] /\ NoErrs \in Errors
  BY GoType DEF NoTasks, NoErrs, Errors
<1>4. <<>> \in Seq(Nat) /\ <<>> \in Seq(RepoDatas)
  OBVIOUS
<1>5. Process \in Processes
  BY <1>2, <1>3, <1>4 DEF Process, Processes
<1>6. \A n \in Nat : [Process EXCEPT !.pc = "idle", !.runs = n] \in Processes
  BY <1>5 DEF Processes
<1>7. \A n \in Nat : Idle(n) \in Processes
  BY <1>6 DEF Idle
<1> QED
  BY <1>5, <1>7 DEF Handler

-----------------------------------------------------------------------------
(* The shape of a state.                                                   *)

\* A job is read from the builds there were when it was opened, the latest one first.
ScanShape ==
    rep.pc = "scan" =>
        LET bs == builds[JobConfigs[rep.next].name] IN
        /\ rep.next \in Configs /\ rep.rd.job = rep.next
        /\ Len(rep.ids) <= Len(bs)
        /\ \A x \in DOMAIN rep.ids : rep.ids[x] = Len(rep.ids) + 1 - x
        /\ rep.rd.builds <= buildsCount
        /\ \A n \in rep.rd.finished : n \in DOMAIN bs /\ "finished" \in bs[n].done

\* The goroutines are those of repositories, or of the channels of one job.
WorkShape ==
    /\ rep.pc \in {"collect", "scan", "github", "notify"} => rep.work = NoTasks
    /\ rep.pc \in {"collect", "scan", "json", "github", "notify"} => rep.k = 0
    /\ rep.pc = "json" =>
          \A t \in AllRepos \cup Channels : rep.work[t].pc # "none" => t \in AllRepos
    /\ rep.pc = "slack" =>
          /\ rep.k <= Len(rep.data)
          /\ \A t \in AllRepos \cup Channels :
                rep.work[t].pc # "none" =>
                    rep.k # 0 /\ t \in JobConfigs[rep.data[rep.k].job].channels

PullShape == ret.pc # "idle" => builds[Pull] # <<>>

Shaped == TypeOK /\ ScanShape /\ WorkShape /\ PullShape

\* Builds stay, and so do their files.
Grows ==
    \A j \in JobNames :
        /\ Len(builds[j]) <= Len(builds'[j])
        /\ \A n \in DOMAIN builds[j] :
              /\ n \in DOMAIN builds'[j]
              /\ builds'[j][n].files = builds[j][n].files
              /\ builds[j][n].done \subseteq builds'[j][n].done

-----------------------------------------------------------------------------
(* Types: Prow and GCS.                                                    *)

BuildRecords == [files : Seq(File), done : SUBSET {"artifacts", "finished"}]

LEMMA BuildFacts ==
  ASSUME TypeOK, NEW j \in JobNames
  PROVE  /\ builds[j] \in Seq(BuildRecords)
         /\ Len(builds[j]) \in Nat /\ DOMAIN builds[j] = 1..Len(builds[j])
         /\ \A n \in DOMAIN builds[j] : builds[j][n] \in BuildRecords
<1>1. builds[j] \in Seq(BuildRecords)
  BY DEF TypeOK, BuildRecords
<1> QED
  BY <1>1

LEMMA WorldGrows ==
  ASSUME TypeOK, \/ \E j \in JobNames : StartBuild(j) \/ UploadBuild(j)
                 \/ UNCHANGED builds
  PROVE  /\ builds' \in [JobNames -> Seq(BuildRecords)]
         /\ Grows
<1>0. builds \in [JobNames -> Seq(BuildRecords)]
  BY DEF TypeOK, BuildRecords
<1>1. ASSUME NEW j \in JobNames, StartBuild(j)
      PROVE  builds' \in [JobNames -> Seq(BuildRecords)] /\ Grows
  <2>1. PICK files \in Contents[j] : builds' = [builds EXCEPT ![j] = Append(builds[j], Build(files, {}))]
    BY <1>1 DEF StartBuild
  <2>2. Build(files, {}) \in BuildRecords
    BY PipelineAssumption DEF Build, BuildRecords
  <2>3. builds[j] \in Seq(BuildRecords)
    BY BuildFacts
  <2> DEFINE after == Append(builds[j], Build(files, {}))
  <2>4. /\ after \in Seq(BuildRecords)
        /\ Len(after) = Len(builds[j]) + 1
        /\ \A n \in DOMAIN builds[j] : n \in DOMAIN after /\ after[n] = builds[j][n]
    BY <2>2, <2>3
  <2>5. builds' = [builds EXCEPT ![j] = after]
    BY <2>1
  <2> HIDE DEF after
  <2>6. builds' \in [JobNames -> Seq(BuildRecords)]
    BY <1>0, <2>4, <2>5
  <2>7. ASSUME NEW i \in JobNames
        PROVE  /\ Len(builds[i]) <= Len(builds'[i])
               /\ \A n \in DOMAIN builds[i] : n \in DOMAIN builds'[i] /\ builds'[i][n] = builds[i][n]
    <3>1. CASE i = j
      BY <1>0, <2>4, <2>5, <3>1, BuildFacts
    <3>2. CASE i # j
      BY <1>0, <2>5, <3>2, BuildFacts
    <3> QED
      BY <3>1, <3>2
  <2> QED
    BY <2>6, <2>7 DEF Grows
<1>2. ASSUME NEW j \in JobNames, UploadBuild(j)
      PROVE  builds' \in [JobNames -> Seq(BuildRecords)] /\ Grows
  <2>1. PICK n \in DOMAIN builds[j], what \in {"artifacts", "finished"} :
               builds' = [builds EXCEPT ![j][n].done = builds[j][n].done \cup {what}]
    BY <1>2 DEF UploadBuild
  <2> DEFINE b == [builds[j][n] EXCEPT !.done = builds[j][n].done \cup {what}]
             after == [builds[j] EXCEPT ![n] = b]
  <2>2. builds[j][n] \in BuildRecords /\ builds[j] \in Seq(BuildRecords)
    BY BuildFacts
  <2>3. b \in BuildRecords /\ b.files = builds[j][n].files /\ builds[j][n].done \subseteq b.done
    BY <2>2 DEF BuildRecords
  <2>4. builds' = [builds EXCEPT ![j] = after]
    BY <2>1
  <2> HIDE DEF b
  <2>5. /\ after \in Seq(BuildRecords) /\ Len(after) = Len(builds[j])
        /\ DOMAIN after = DOMAIN builds[j] /\ after[n] = b
        /\ \A x \in DOMAIN builds[j] : x # n => after[x] = builds[j][x]
    BY <2>2, <2>3
  <2> HIDE DEF after
  <2>6. builds' \in [JobNames -> Seq(BuildRecords)]
    BY <1>0, <2>4, <2>5
  <2>7. ASSUME NEW i \in JobNames
        PROVE  /\ Len(builds[i]) <= Len(builds'[i])
               /\ \A x \in DOMAIN builds[i] :
                     /\ x \in DOMAIN builds'[i]
                     /\ builds'[i][x].files = builds[i][x].files
                     /\ builds[i][x].done \subseteq builds'[i][x].done
    <3>1. CASE i = j
      <4>1. builds'[i] = after
        BY <1>0, <2>4, <3>1
      <4> QED
        BY <2>3, <2>5, <3>1, <4>1, BuildFacts
    <3>2. CASE i # j
      BY <1>0, <2>4, <3>2, BuildFacts
    <3> QED
      BY <3>1, <3>2
  <2> QED
    BY <2>6, <2>7 DEF Grows
<1>3. CASE UNCHANGED builds
  BY <1>0, <1>3, BuildFacts DEF Grows
<1> QED
  BY <1>1, <1>2, <1>3

\* The results of a build, or an error.
LEMMA CombinedType ==
  ASSUME NEW b \in BuildRecords, NEW files \in getCombinedResultsForBuild(b)
  PROVE  files = ReadError \/ (files \in Seq(File) /\ files \in {b.files, <<>>})
<1>1. PICK listed \in GetArtifacts(b) : files \in {listed, ReadError}
  BY DEF getCombinedResultsForBuild, ReadObject
<1>2. listed \in {b.files, <<>>}
  BY <1>1 DEF GetArtifacts, ListChildren, NoList
<1>3. b.files \in Seq(File) /\ <<>> \in Seq(File)
  BY DEF BuildRecords
<1>4. listed \in Seq(File)
  BY <1>2, <1>3
<1>5. CASE files = listed
  BY <1>2, <1>4, <1>5
<1> QED
  BY <1>1, <1>5

-----------------------------------------------------------------------------
(* Types: the reporter.                                                    *)

\* A field of the process changes type by itself.
LEMMA StartType ==
  ASSUME TypeOK, Start
  PROVE  rep' \in Processes /\ recorder' \in Seq([day : Nat, reports : SUBSET Reports])
<1>1. PICK skip \in BOOLEAN :
         /\ rep' = [Process EXCEPT !.skipReport = skip, !.runs = rep.runs + 1]
         /\ recorder' = IF skip THEN Append(recorder, [day |-> day, reports |-> {}]) ELSE recorder
  BY DEF Start
<1>2. rep.runs + 1 \in Nat
  BY DEF TypeOK, Processes
<1>3. rep' \in Processes
  BY <1>1, <1>2, ReportersFacts DEF Processes
<1>4. [day |-> day, reports |-> {}] \in [day : Nat, reports : SUBSET Reports]
  BY DEF TypeOK
<1>5. recorder \in Seq([day : Nat, reports : SUBSET Reports])
  BY DEF TypeOK
<1> DEFINE R == [day : Nat, reports : SUBSET Reports]
           run == [day |-> day, reports |-> {}]
<1>6. run \in R /\ recorder \in Seq(R)
  BY <1>4, <1>5
<1> HIDE DEF R, run
<1>7. Append(recorder, run) \in Seq(R)
  BY <1>6
<1>8. recorder' \in Seq(R)
  BY <1>1, <1>6, <1>7 DEF run
<1> QED
  BY <1>3, <1>8 DEF R

LEMMA ExitType ==
  ASSUME NEW r \in Processes, NEW code \in 0..2, Exits(r, code)
  PROVE  /\ rep' \in Processes
         /\ rep'.pc = "exit" /\ rep'.code = code
  BY DEF Exits, Processes

LEMMA NextJobType ==
  ASSUME NEW r \in Processes
  PROVE  /\ NextJob(r) \in Processes
         /\ NextJob(r).pc = "collect" /\ NextJob(r).next = r.next + 1
<1>1. r.next + 1 \in Nat /\ <<>> \in Seq(Nat)
  BY DEF Processes
<1> DEFINE next == r.next + 1
           none == <<>>
<1>2. NextJob(r) = [r EXCEPT !.pc = "collect", !.next = next, !.ids = none]
  BY DEF NextJob
<1>3. next \in Nat /\ none \in Seq(Nat)
  BY <1>1
<1> HIDE DEF next, none
<1>4. NextJob(r) \in Processes /\ NextJob(r).pc = "collect" /\ NextJob(r).next = next
  BY <1>2, <1>3 DEF Processes
<1> QED
  BY <1>4 DEF next

LEMMA OpenType ==
  ASSUME TypeOK, OpenJob
  PROVE  rep' \in Processes
<1> DEFINE j    == JobConfigs[rep.next].name
           done == {n \in DOMAIN builds[j] : "finished" \in builds[j][n].done}
<1>1. rep.next \in Configs /\ j \in JobNames
  BY JobFacts DEF OpenJob
<1>2. PICK exists \in PathExists(j), ids \in GetBuildIDs(j) :
         rep' = IF exists
                THEN [rep EXCEPT !.pc = "scan", !.rd = RepoData(rep.next, done),
                                 !.ids = LatestFirst(ids), !.missed = rep.missed \/ ids = NoList]
                ELSE NextJob([rep EXCEPT !.jobErr = TRUE])
  BY DEF OpenJob
<1>3. done \in SUBSET Nat
  BY <1>1, BuildFacts
<1>4. RepoData(rep.next, done) \in RepoDatas
  BY <1>1, <1>3, RepoDataType
<1>5. ids \in Seq(Nat)
  <2>1. [n \in DOMAIN builds[j] |-> n] \in Seq(Nat) /\ <<>> \in Seq(Nat)
    BY <1>1, BuildFacts
  <2>2. ids = [n \in DOMAIN builds[j] |-> n] \/ ids = <<>>
    BY DEF GetBuildIDs, ListChildren, NoList
  <2> QED
    BY <2>1, <2>2
<1>6. LatestFirst(ids) \in Seq(Nat)
  BY <1>5 DEF LatestFirst, Reverse
<1>7. CASE exists
  <2> DEFINE rd == RepoData(rep.next, done)
             latest == LatestFirst(ids)
             missed == rep.missed \/ ids = NoList
  <2>1. rep' = [rep EXCEPT !.pc = "scan", !.rd = rd, !.ids = latest, !.missed = missed]
    BY <1>2, <1>7
  <2>2. missed \in BOOLEAN /\ rd \in RepoDatas /\ latest \in Seq(Nat)
    BY <1>4, <1>6
  <2> HIDE DEF rd, latest, missed
  <2> QED
    BY <2>1, <2>2 DEF TypeOK, Processes
<1>8. CASE ~exists
  <2>1. [rep EXCEPT !.jobErr = TRUE] \in Processes
    BY DEF TypeOK, Processes
  <2> QED
    BY <1>2, <1>8, <2>1, NextJobType
<1> QED
  BY <1>7, <1>8

\* The build that is looked at.
LEMMA HeadFacts ==
  ASSUME TypeOK, ScanShape, rep.pc = "scan", rep.ids # <<>>
  PROVE  LET j == JobConfigs[rep.next].name
             h == Head(rep.ids)
         IN  /\ rep.next \in Configs /\ j \in JobNames
             /\ h = Len(rep.ids) /\ h \in DOMAIN builds[j] /\ builds[j][h] \in BuildRecords
             /\ rep.ids \in Seq(Nat) /\ Tail(rep.ids) \in Seq(Nat) /\ Len(Tail(rep.ids)) = h - 1
             /\ \A x \in DOMAIN Tail(rep.ids) : Tail(rep.ids)[x] = h - x
<1>1. rep.ids \in Seq(Nat)
  BY DEF TypeOK, Processes
<1>2. rep.next \in Configs /\ JobConfigs[rep.next].name \in JobNames
  BY JobFacts DEF ScanShape
<1>3. \A x \in DOMAIN rep.ids : rep.ids[x] = Len(rep.ids) + 1 - x
  BY DEF ScanShape
<1>4. Head(rep.ids) = Len(rep.ids)
  BY <1>1, <1>3
<1>5. Len(rep.ids) \in DOMAIN builds[JobConfigs[rep.next].name]
  BY <1>1, <1>2, BuildFacts DEF ScanShape
<1>6. /\ Tail(rep.ids) \in Seq(Nat) /\ Len(Tail(rep.ids)) = Len(rep.ids) - 1
      /\ \A x \in DOMAIN Tail(rep.ids) : x + 1 \in DOMAIN rep.ids /\ Tail(rep.ids)[x] = rep.ids[x + 1]
  BY <1>1
<1>7. \A x \in DOMAIN Tail(rep.ids) : Tail(rep.ids)[x] = Len(rep.ids) - x
  BY <1>1, <1>3, <1>6
<1> QED
  BY <1>1, <1>2, <1>4, <1>5, <1>6, <1>7, BuildFacts

\* What a look at a build does.
Skipped(b) ==
    rep' = [rep EXCEPT !.ids = Tail(rep.ids), !.missed = rep.missed \/ "finished" \in b.done]

Taken(b, files) ==
    rep' = [rep EXCEPT !.ids = Tail(rep.ids),
                       !.rd = addSuiteToRepoData([rep.rd EXCEPT !.builds = rep.rd.builds + 1],
                                                 Suites(files))]

LEMMA LookCases ==
  ASSUME LookAtBuild
  PROVE  LET b == builds[JobConfigs[rep.next].name][Head(rep.ids)] IN
         \/ Skipped(b)
         \/ Exits(rep, 1)
         \/ rep' = NextJob([rep EXCEPT !.jobErr = TRUE])
         \/ /\ "finished" \in b.done
            /\ \E files \in getCombinedResultsForBuild(b) : files # ReadError /\ Taken(b, files)
  BY DEF LookAtBuild, TakeResults, Skipped, Taken, NewBuild, HasTime

LEMMA LookType ==
  ASSUME TypeOK, ScanShape, LookAtBuild
  PROVE  rep' \in Processes
<1> DEFINE b == builds[JobConfigs[rep.next].name][Head(rep.ids)]
<1>0. rep.pc = "scan" /\ rep.ids # <<>> /\ rep \in Processes /\ rep.rd \in RepoDatas
  BY DEF LookAtBuild, TypeOK, Processes
<1>1. b \in BuildRecords /\ Tail(rep.ids) \in Seq(Nat)
  BY <1>0, HeadFacts
<1>2. CASE Skipped(b)
  <2> DEFINE missed == rep.missed \/ "finished" \in b.done
  <2>1. missed \in BOOLEAN
    OBVIOUS
  <2>2. rep' = [rep EXCEPT !.ids = Tail(rep.ids), !.missed = missed]
    BY <1>2 DEF Skipped
  <2> HIDE DEF missed
  <2> QED
    BY <1>0, <1>1, <2>1, <2>2 DEF Processes
<1>3. CASE Exits(rep, 1)
  BY <1>0, <1>3, ExitType
<1>4. CASE rep' = NextJob([rep EXCEPT !.jobErr = TRUE])
  <2>1. [rep EXCEPT !.jobErr = TRUE] \in Processes
    BY <1>0 DEF Processes
  <2> QED
    BY <1>4, <2>1, NextJobType
<1>5. ASSUME NEW files \in getCombinedResultsForBuild(b), files # ReadError, Taken(b, files)
      PROVE  rep' \in Processes
  <2>1. files \in Seq(File)
    BY <1>1, <1>5, CombinedType
  <2> DEFINE rd == addSuiteToRepoData([rep.rd EXCEPT !.builds = rep.rd.builds + 1], Suites(files))
  <2>2. [rep.rd EXCEPT !.builds = rep.rd.builds + 1] \in RepoDatas
    BY <1>0 DEF RepoDatas
  <2>3. Suites(files) \in SUBSET File
    BY <2>1, FilesFacts
  <2>4. rd \in RepoDatas
    BY <2>2, <2>3, AddFacts
  <2>5. rep' = [rep EXCEPT !.ids = Tail(rep.ids), !.rd = rd]
    BY <1>5 DEF Taken
  <2> HIDE DEF rd
  <2> QED
    BY <1>0, <1>1, <2>4, <2>5 DEF Processes
<1> QED
  BY <1>2, <1>3, <1>4, <1>5, LookCases

LEMMA CloseType ==
  ASSUME TypeOK, CloseJob, rep.next \in Configs
  PROVE  rep' \in Processes
<1>0. rep \in Processes /\ rep.rd \in RepoDatas
  BY DEF TypeOK, Processes
<1>1. CASE Exits(rep, 1)
  BY <1>0, <1>1, ExitType
<1>2. CASE rep' = NextJob([rep EXCEPT !.data = Append(rep.data, rep.rd)])
  <2>1. Append(rep.data, rep.rd) \in Seq(RepoDatas)
    BY <1>0 DEF Processes
  <2>2. [rep EXCEPT !.data = Append(rep.data, rep.rd)] \in Processes
    BY <1>0, <2>1 DEF Processes
  <2> QED
    BY <1>2, <2>2, NextJobType
<1> DEFINE without == IF rep.rd.finished = {} THEN rep.without \cup {rep.next} ELSE rep.without
<1>3. CASE rep' = NextJob([rep EXCEPT !.without = without])
  <2>1. without \in SUBSET Configs
    BY <1>0 DEF Processes
  <2> HIDE DEF without
  <2>2. [rep EXCEPT !.without = without] \in Processes
    BY <1>0, <2>1 DEF Processes
  <2> QED
    BY <1>3, <2>2, NextJobType
<1> QED
  BY <1>1, <1>2, <1>3 DEF CloseJob, createArtifactForRepo

LEMMA StartReportsType ==
  ASSUME TypeOK, StartReports
  PROVE  rep' \in Processes
<1> DEFINE tasks == {JobConfigs[rep.data[k].job].repo : k \in DOMAIN rep.data}
           work == Go(tasks)
<1>1. work \in [AllRepos \cup Channels -> Tasks]
  BY GoType
<1>2. rep' = [rep EXCEPT !.pc = "json", !.errs = NoErrs, !.sent = 0, !.work = work]
  BY DEF StartReports
<1>3. NoErrs \in Errors
  BY DEF NoErrs, Errors
<1> HIDE DEF work, tasks
<1> QED
  BY <1>1, <1>2, <1>3 DEF TypeOK, Processes

\* What a goroutine does when its call succeeds.
LEMMA EffectFacts ==
  ASSUME TypeOK, WorkShape, rep.pc \in {"json", "slack"},
         NEW t \in AllRepos \cup Channels, rep.work[t].pc # "none"
  PROVE  /\ Effect(t) \in Processes
         /\ rep.pc = "json" =>
              Effect(t) = [rep EXCEPT !.dir = rep.dir \cup
                             {[repo |-> t, flaky |-> getFlakyTestSet(rep.data, t)]}]
         /\ rep.pc = "slack" =>
              Effect(t) = [rep EXCEPT !.posted = rep.posted \cup {Message(t)}]
<1>0. rep \in Processes /\ rep.data \in Seq(RepoDatas)
  BY DEF TypeOK, Processes
<1>1. CASE rep.pc = "json"
  <2>1. t \in AllRepos
    BY <1>1 DEF WorkShape
  <2>2. getFlakyTestSet(rep.data, t) \in SUBSET AllTests
    BY <1>0, FlakySetType
  <2>3. rep.dir \cup {[repo |-> t, flaky |-> getFlakyTestSet(rep.data, t)]} \in SUBSET Reports
    BY <1>0, <2>1, <2>2 DEF Processes, Reports
  <2> DEFINE dir == rep.dir \cup {[repo |-> t, flaky |-> getFlakyTestSet(rep.data, t)]}
  <2>4. Effect(t) = [rep EXCEPT !.dir = dir]
    BY <1>1 DEF Effect, CreateReport
  <2> HIDE DEF dir
  <2>5. [rep EXCEPT !.dir = dir] \in Processes
    BY <1>0, <2>3 DEF Processes, dir
  <2> QED
    BY <1>1, <2>4, <2>5 DEF dir
<1>2. CASE rep.pc = "slack"
  <2>1. rep.k # 0 /\ rep.k <= Len(rep.data) /\ t \in JobConfigs[rep.data[rep.k].job].channels
    BY <1>2 DEF WorkShape
  <2>2. rep.k \in Nat
    BY <1>0 DEF Processes
  <2>3. rep.data[rep.k] \in RepoDatas
    BY <1>0, <2>1, <2>2
  <2>4. rep.data[rep.k].job \in Configs
    BY <2>3 DEF RepoDatas
  <2>5. Message(t) \in [channel : Channels, job : Configs]
    BY <2>1, <2>4, JobFacts DEF Message
  <2> DEFINE posted == rep.posted \cup {Message(t)}
  <2>6. posted \in SUBSET [channel : Channels, job : Configs]
    BY <1>0, <2>5 DEF Processes
  <2>7. Effect(t) = [rep EXCEPT !.posted = posted]
    BY <1>2 DEF Effect, PostToSlack
  <2> HIDE DEF posted
  <2>8. [rep EXCEPT !.posted = posted] \in Processes
    BY <1>0, <2>6 DEF Processes
  <2> QED
    BY <1>2, <2>7, <2>8 DEF posted
<1> QED
  BY <1>1, <1>2

\* The cases of a call.
Succeeds(t) == rep' = [Effect(t) EXCEPT !.work[t].pc = "send"]

Appends(t) ==
    LET n == rep.errs.len + 1
    IN  rep' = [rep EXCEPT !.work[t] = Task("append", [len |-> n, array |-> n], {"len", "array"})]

LEMMA CallCases ==
  ASSUME NEW t, Call(t)
  PROVE  rep.work[t].pc = "run" /\ (Succeeds(t) \/ Exits(rep, 2) \/ Appends(t))
  BY DEF Call, Succeeds, Appends

\* A goroutine changes its own task.
WorkSet(r, t, task) == rep' = [r EXCEPT !.work = [r.work EXCEPT ![t] = task]]

LEMMA WorkSetFacts ==
  ASSUME NEW r \in Processes, NEW t \in AllRepos \cup Channels, NEW task \in Tasks,
         WorkSet(r, t, task)
  PROVE  /\ rep' \in Processes
         /\ rep'.work[t] = task
         /\ \A u \in AllRepos \cup Channels : u # t => rep'.work[u] = r.work[u]
<1> DEFINE work == [r.work EXCEPT ![t] = task]
<1>1. /\ work \in [AllRepos \cup Channels -> Tasks]
      /\ work[t] = task
      /\ \A u \in AllRepos \cup Channels : u # t => work[u] = r.work[u]
  BY DEF Processes
<1>2. rep' = [r EXCEPT !.work = work]
  BY DEF WorkSet
<1> HIDE DEF work
<1>3. rep' \in Processes /\ rep'.work = work
  BY <1>1, <1>2 DEF Processes
<1> QED
  BY <1>1, <1>3

LEMMA SucceedsStep ==
  ASSUME TypeOK, WorkShape, rep.pc \in {"json", "slack"},
         NEW t \in AllRepos \cup Channels, rep.work[t].pc = "run", Succeeds(t)
  PROVE  /\ WorkSet(Effect(t), t, [rep.work[t] EXCEPT !.pc = "send"])
         /\ Effect(t).work = rep.work
         /\ [rep.work[t] EXCEPT !.pc = "send"] \in Tasks
<1>0. rep \in Processes /\ Effect(t) \in Processes
  BY EffectFacts DEF TypeOK
<1>1. Effect(t).work = rep.work
  <2>1. \A x : [rep EXCEPT !.dir = x].work = rep.work /\ [rep EXCEPT !.posted = x].work = rep.work
    BY <1>0 DEF Processes
  <2> QED
    BY <2>1 DEF Effect, CreateReport, PostToSlack
<1>2. rep.work[t] \in Tasks
  BY DEF TypeOK, Processes
<1>3. [rep.work[t] EXCEPT !.pc = "send"] \in Tasks
  BY <1>2 DEF Tasks
<1>4. rep' = [Effect(t) EXCEPT !.work = [rep.work EXCEPT ![t] = [rep.work[t] EXCEPT !.pc = "send"]]]
  BY <1>1 DEF Succeeds
<1> QED
  BY <1>0, <1>1, <1>3, <1>4 DEF WorkSet

LEMMA AppendsStep ==
  ASSUME TypeOK, NEW t \in AllRepos \cup Channels, Appends(t)
  PROVE  LET n == rep.errs.len + 1
             task == Task("append", [len |-> n, array |-> n], {"len", "array"})
         IN  n \in Nat /\ n >= 1 /\ task \in Tasks /\ WorkSet(rep, t, task)
<1>1. rep.errs.len \in Nat
  BY DEF TypeOK, Processes, Errors
<1>2. Task("append", [len |-> rep.errs.len + 1, array |-> rep.errs.len + 1], {"len", "array"}) \in Tasks
  BY <1>1 DEF Task, Tasks, Errors
<1> QED
  BY <1>1, <1>2 DEF Appends, WorkSet

LEMMA WriteStep ==
  ASSUME TypeOK, NEW t \in AllRepos \cup Channels, WriteErrs(t)
  PROVE  \E field \in rep.work[t].left :
            LET left == rep.work[t].left \ {field}
                errs == [rep.errs EXCEPT ![field] = rep.work[t].errs[field]]
                task == [rep.work[t] EXCEPT !.left = left,
                                            !.pc = IF left = {} THEN "send" ELSE "append"]
            IN  /\ errs \in Errors /\ task \in Tasks
                /\ WorkSet([rep EXCEPT !.errs = errs], t, task)
                /\ [rep EXCEPT !.errs = errs] \in Processes
<1>1. PICK field \in rep.work[t].left :
         LET left == rep.work[t].left \ {field} IN
         rep' = [rep EXCEPT !.errs[field] = rep.work[t].errs[field],
                            !.work[t] = [rep.work[t] EXCEPT !.left = left,
                                           !.pc = IF left = {} THEN "send" ELSE "append"]]
  BY DEF WriteErrs
<1> DEFINE left == rep.work[t].left \ {field}
           errs == [rep.errs EXCEPT ![field] = rep.work[t].errs[field]]
           task == [rep.work[t] EXCEPT !.left = left,
                                       !.pc = IF left = {} THEN "send" ELSE "append"]
<1>2. rep.work[t] \in Tasks /\ rep.errs \in Errors /\ rep \in Processes
  BY DEF TypeOK, Processes
<1>3. errs \in Errors
  BY <1>2 DEF Tasks, Errors
<1>4. task \in Tasks
  BY <1>2 DEF Tasks
<1>5. rep' = [rep EXCEPT !.errs = errs, !.work = [rep.work EXCEPT ![t] = task]]
  BY <1>1
<1> HIDE DEF errs, task
<1>6. [rep EXCEPT !.errs = errs] \in Processes /\ [rep EXCEPT !.errs = errs].work = rep.work
  BY <1>2, <1>3 DEF Processes
<1>7. rep' = [[rep EXCEPT !.errs = errs] EXCEPT !.work = [rep.work EXCEPT ![t] = task]]
  BY <1>2, <1>5 DEF Processes
<1>8. WorkSet([rep EXCEPT !.errs = errs], t, task)
  BY <1>6, <1>7 DEF WorkSet
<1> QED
  BY <1>3, <1>4, <1>6, <1>8 DEF errs, task

LEMMA SendStep ==
  ASSUME TypeOK, NEW t \in AllRepos \cup Channels, Send(t)
  PROVE  LET task == [rep.work[t] EXCEPT !.pc = "done"] IN
         /\ task \in Tasks
         /\ WorkSet([rep EXCEPT !.sent = rep.sent + 1], t, task)
         /\ [rep EXCEPT !.sent = rep.sent + 1] \in Processes
<1> DEFINE task == [rep.work[t] EXCEPT !.pc = "done"]
<1>1. rep.work[t] \in Tasks /\ rep \in Processes /\ rep.sent + 1 \in Nat
  BY DEF TypeOK, Processes
<1>2. task \in Tasks
  BY <1>1 DEF Tasks
<1>3. rep' = [rep EXCEPT !.sent = rep.sent + 1, !.work = [rep.work EXCEPT ![t] = task]]
  BY DEF Send
<1> HIDE DEF task
<1>4. [rep EXCEPT !.sent = rep.sent + 1] \in Processes /\ [rep EXCEPT !.sent = rep.sent + 1].work = rep.work
  BY <1>1 DEF Processes
<1>5. rep' = [[rep EXCEPT !.sent = rep.sent + 1] EXCEPT !.work = [rep.work EXCEPT ![t] = task]]
  BY <1>1, <1>3 DEF Processes
<1> QED
  BY <1>2, <1>4, <1>5 DEF WorkSet, task

\* The four steps of a goroutine.
LEMMA GoroutineCases ==
  ASSUME TypeOK, Goroutines
  PROVE  /\ rep.pc \in {"json", "slack"} /\ ReporterStep
         /\ \E t \in AllRepos \cup Channels :
              \/ rep.work[t].pc = "run" /\ (Succeeds(t) \/ Exits(rep, 2) \/ Appends(t))
              \/ rep.work[t].pc = "append" /\ WriteErrs(t)
              \/ rep.work[t].pc = "send" /\ Send(t)
<1>1. DOMAIN rep.work = AllRepos \cup Channels
  BY DEF TypeOK, Processes
<1> QED
  BY <1>1, CallCases DEF Goroutines, Goroutine, WriteErrs, Send

LEMMA GoroutineType ==
  ASSUME TypeOK, WorkShape, Goroutines
  PROVE  rep' \in Processes
<1>1. PICK t \in AllRepos \cup Channels :
         \/ rep.work[t].pc = "run" /\ (Succeeds(t) \/ Exits(rep, 2) \/ Appends(t))
         \/ rep.work[t].pc = "append" /\ WriteErrs(t)
         \/ rep.work[t].pc = "send" /\ Send(t)
  BY GoroutineCases
<1>2. rep \in Processes /\ rep.pc \in {"json", "slack"}
  BY GoroutineCases DEF TypeOK
<1>3. CASE rep.work[t].pc = "run" /\ Succeeds(t)
  <2>1. Effect(t) \in Processes
    BY <1>2, <1>3, EffectFacts
  <2> QED
    BY <1>2, <1>3, <2>1, SucceedsStep, WorkSetFacts
<1>4. CASE Exits(rep, 2)
  BY <1>2, <1>4, ExitType
<1>5. CASE Appends(t)
  BY <1>2, <1>5, AppendsStep, WorkSetFacts
<1>6. CASE WriteErrs(t)
  BY <1>6, WriteStep, WorkSetFacts
<1>7. CASE Send(t)
  BY <1>7, SendStep, WorkSetFacts
<1> QED
  BY <1>1, <1>3, <1>4, <1>5, <1>6, <1>7

LEMMA WrittenType ==
  ASSUME TypeOK, ReportsWritten
  PROVE  rep' \in Processes
<1>0. rep \in Processes /\ NoTasks \in [AllRepos \cup Channels -> Tasks]
  BY GoType DEF TypeOK, NoTasks
<1> DEFINE err == SomeErr(rep.errs)
           pc  == IF rep.skipReport THEN "end" ELSE "github"
<1>1. err \in BOOLEAN /\ pc \in {"end", "github"}
  BY DEF SomeErr
<1>2. CASE rep' = [rep EXCEPT !.jsonErr = err, !.work = NoTasks, !.pc = pc]
  <2> HIDE DEF err, pc
  <2> QED
    BY <1>0, <1>1, <1>2 DEF Processes
<1>3. CASE Exits(rep, 2)
  BY <1>0, <1>3, ExitType
<1> QED
  BY <1>2, <1>3 DEF ReportsWritten

LEMMA GitHubType ==
  ASSUME TypeOK, GitHub
  PROVE  rep' \in Processes
<1>0. rep \in Processes
  BY DEF TypeOK
<1>1. ASSUME NEW issues \in BOOLEAN, rep' = [rep EXCEPT !.issues = issues, !.pc = "notify"]
      PROVE  rep' \in Processes
  <2> QED
    BY <1>0, <1>1 DEF Processes
<1>2. CASE rep' = [rep EXCEPT !.ghErr = TRUE, !.pc = "notify"]
  BY <1>0, <1>2 DEF Processes
<1>3. CASE Exits(rep, 1)
  BY <1>0, <1>3, ExitType
<1> QED
  BY <1>1, <1>2, <1>3 DEF GitHub

LEMMA NotifyType ==
  ASSUME TypeOK, Notify
  PROVE  rep' \in Processes
<1>0. rep \in Processes /\ NoErrs \in Errors
  BY DEF TypeOK, NoErrs, Errors
<1>1. CASE rep' = [rep EXCEPT !.pc = "end", !.issues = FALSE]
  BY <1>0, <1>1 DEF Processes
<1>2. CASE rep' = [rep EXCEPT !.pc = "end"]
  BY <1>0, <1>2 DEF Processes
<1>3. CASE rep' = [rep EXCEPT !.pc = "end", !.slackErr = TRUE]
  BY <1>0, <1>3 DEF Processes
<1>4. CASE rep' = [rep EXCEPT !.pc = "slack", !.errs = NoErrs]
  BY <1>0, <1>4 DEF Processes
<1> QED
  BY <1>1, <1>2, <1>3, <1>4 DEF Notify

\* The messages of the next job are sent, or there is none left.
MessagesOf(k) == rep' = [rep EXCEPT !.work = Go(JobConfigs[rep.data[k].job].channels),
                                    !.k = k, !.sent = 0]
AllSent == rep' = [rep EXCEPT !.slackErr = SomeErr(rep.errs), !.work = NoTasks, !.pc = "end"]

LEMMA MessagesCases ==
  ASSUME NextMessages
  PROVE  /\ rep.pc = "slack" /\ AllDone
         /\ \/ rep.k < Len(rep.data) /\ MessagesOf(rep.k + 1)
            \/ ~(rep.k < Len(rep.data)) /\ (AllSent \/ Exits(rep, 2))
  BY DEF NextMessages, MessagesOf, AllSent

LEMMA MessagesType ==
  ASSUME TypeOK, NextMessages
  PROVE  rep' \in Processes
<1>0. rep \in Processes /\ NoTasks \in [AllRepos \cup Channels -> Tasks]
  BY GoType DEF TypeOK, NoTasks
<1>1. CASE MessagesOf(rep.k + 1)
  <2> DEFINE work == Go(JobConfigs[rep.data[rep.k + 1].job].channels)
             k    == rep.k + 1
  <2>1. k \in Nat /\ work \in [AllRepos \cup Channels -> Tasks]
    BY <1>0, GoType DEF Processes
  <2>2. rep' = [rep EXCEPT !.work = work, !.k = k, !.sent = 0]
    BY <1>1 DEF MessagesOf
  <2> HIDE DEF work, k
  <2> QED
    BY <1>0, <2>1, <2>2 DEF Processes
<1>2. CASE AllSent
  <2> DEFINE err == SomeErr(rep.errs)
  <2>1. err \in BOOLEAN
    BY DEF SomeErr
  <2>2. rep' = [rep EXCEPT !.slackErr = err, !.work = NoTasks, !.pc = "end"]
    BY <1>2 DEF AllSent
  <2> HIDE DEF err
  <2> QED
    BY <1>0, <2>1, <2>2 DEF Processes
<1>3. CASE Exits(rep, 2)
  BY <1>0, <1>3, ExitType
<1> QED
  BY <1>1, <1>2, <1>3, MessagesCases

LEMMA EndType ==
  ASSUME TypeOK, End
  PROVE  rep' \in Processes
<1>1. ExitCode \in 0..2
  BY DEF ExitCode
<1> QED
  BY <1>1, ExitType DEF End, TypeOK

LEMMA UploadType ==
  ASSUME TypeOK, UploadReports
  PROVE  /\ rep' \in Processes
         /\ recorder' \in Seq([day : Nat, reports : SUBSET Reports])
         /\ DOMAIN recorder' = DOMAIN recorder
         /\ \A n \in DOMAIN recorder : recorder'[n].reports \in {recorder[n].reports, rep.dir}
<1>0. rep \in Processes /\ recorder \in Seq([day : Nat, reports : SUBSET Reports])
  BY DEF TypeOK
<1>1. rep' \in Processes
  BY <1>0, ReportersFacts DEF UploadReports, Processes
<1>2. CASE rep.skipReport
  <2> DEFINE last == Len(recorder)
             run  == [recorder[last] EXCEPT !.reports = rep.dir]
  <2>1. recorder' = [recorder EXCEPT ![last] = run]
    BY <1>2 DEF UploadReports
  <2>2. CASE last \in DOMAIN recorder
    <3>0. \A R, s : s \in Seq(R) => \A n \in DOMAIN s : s[n] \in R
      OBVIOUS
    <3>1. recorder[last] \in [day : Nat, reports : SUBSET Reports]
      BY <1>0, <2>2, <3>0
    <3>2. run \in [day : Nat, reports : SUBSET Reports] /\ run.reports = rep.dir
      BY <1>0, <3>1 DEF Processes
    <3> HIDE DEF run
    <3> QED
      BY <1>0, <1>1, <2>1, <2>2, <3>2
  <2>3. CASE last \notin DOMAIN recorder
    <3>1. recorder' = recorder
      BY <1>0, <2>1, <2>3
    <3> QED
      BY <1>0, <1>1, <3>1
  <2> QED
    BY <2>2, <2>3
<1>3. CASE ~rep.skipReport
  BY <1>0, <1>1, <1>3 DEF UploadReports
<1> QED
  BY <1>2, <1>3

LEMMA KillType ==
  ASSUME TypeOK, Kill
  PROVE  rep' \in Processes
  BY ReportersFacts DEF Kill, TypeOK, Processes

-----------------------------------------------------------------------------
(* Types: the retryer.                                                     *)

Handlers == [pc : {"idle", "tests", "flaky", "post"}, failed : SUBSET AllTests,
             outliers : SUBSET AllTests]

\* What a retryer may read as the flaky tests of a repository.
LEMMA FlakyTestsRead ==
  ASSUME TypeOK, NEW repo \in AllRepos, NEW flaky \in GetFlakyTests(repo), flaky # ReadError
  PROVE  \E n \in DOMAIN recorder : \E r \in recorder[n].reports : r.repo = repo /\ flaky = r.flaky
<1>1. PICK reports \in GetFlakyTestReport(repo) :
         Cardinality(reports) = 1 /\ flaky = (CHOOSE r \in reports : TRUE).flaky
  BY DEF GetFlakyTests
<1>2. reports # {}
  BY <1>1, FS_EmptySet
<1>3. PICK n \in getLatestValidBuild(repo) :
         n # NoBuild /\ reports = getReportPaths(n, repo)
  BY <1>1, <1>2 DEF GetFlakyTestReport
<1>4. n \in DOMAIN recorder
  BY <1>3 DEF getLatestValidBuild
<1>5. \A r \in reports : r \in recorder[n].reports /\ r.repo = repo
  BY <1>3, PipelineAssumption DEF getReportPaths
<1> QED
  BY <1>1, <1>2, <1>4, <1>5

\* The latest build of the pull request, and what failed in it.
LEMMA FailedTestsRead ==
  ASSUME TypeOK, PullShape, GetFailedTests
  PROVE  \/ ret' = Handler
         \/ \E failed \in SUBSET AllTests :
              failed # {} /\ ret' = [ret EXCEPT !.pc = "flaky", !.failed = failed]
<1>1. PICK latest \in GetLatestBuildNumber(builds[Pull]) :
         \/ latest = ReadError /\ ret' = Handler
         \/ /\ latest # ReadError
            /\ \E files \in GetCombinedResultsForBuild(builds[Pull][latest]) :
                 LET failed == IF files = ReadError THEN {}
                               ELSE UNION {With(f, "failed") : f \in ToSet(files)}
                 IN  ret' = IF failed = {} THEN Handler
                            ELSE [ret EXCEPT !.pc = "flaky", !.failed = failed]
  BY DEF GetFailedTests
<1>2. CASE latest # ReadError
  <2>1. latest = Len(builds[Pull])
    BY <1>2 DEF GetLatestBuildNumber, ReadObject
  <2>2. builds[Pull] # <<>>
    BY DEF PullShape, GetFailedTests
  <2>3. builds[Pull][latest] \in BuildRecords
    BY <2>1, <2>2, BuildFacts, JobFacts
  <2>4. PICK files \in GetCombinedResultsForBuild(builds[Pull][latest]) :
          LET failed == IF files = ReadError THEN {}
                        ELSE UNION {With(f, "failed") : f \in ToSet(files)}
          IN  ret' = IF failed = {} THEN Handler
                     ELSE [ret EXCEPT !.pc = "flaky", !.failed = failed]
    BY <1>1, <1>2
  <2>5. files = ReadError \/ files \in getCombinedResultsForBuild(builds[Pull][latest])
    BY DEF GetCombinedResultsForBuild
  <2>6. files = ReadError \/ files \in Seq(File)
    BY <2>3, <2>5, CombinedType
  <2> DEFINE failed == IF files = ReadError THEN {} ELSE UNION {With(f, "failed") : f \in ToSet(files)}
  <2>7. failed \in SUBSET AllTests
    BY <2>6, FilesFacts, FileFacts
  <2> QED
    BY <2>4, <2>7
<1> QED
  BY <1>1, <1>2

LEMMA RetType ==
  ASSUME TypeOK, PullShape, Receive \/ GetFailedTests \/ Compare \/ Post
  PROVE  ret' \in Handlers /\ PullShape'
<1>0. ret \in Handlers /\ Handler \in Handlers /\ UNCHANGED builds
  BY ReportersFacts DEF TypeOK, Handlers, Receive, GetFailedTests, Compare, Post, RetryerStep
<1>1. CASE Receive
  <2>1. builds[Pull] # <<>>
    BY <1>1, JobFacts, BuildFacts DEF Receive
  <2>2. ret' = [Handler EXCEPT !.pc = "tests"]
    BY <1>1 DEF Receive
  <2> QED
    BY <1>0, <2>1, <2>2 DEF Handlers, PullShape
<1>2. CASE GetFailedTests
  <2>1. builds[Pull] # <<>>
    BY <1>2 DEF PullShape, GetFailedTests
  <2>2. CASE ret' = Handler
    BY <1>0, <2>1, <2>2 DEF PullShape
  <2>3. ASSUME NEW failed \in SUBSET AllTests,
               ret' = [ret EXCEPT !.pc = "flaky", !.failed = failed]
        PROVE  ret' \in Handlers
    BY <1>0, <2>3 DEF Handlers
  <2> QED
    BY <1>0, <1>2, <2>1, <2>2, <2>3, FailedTestsRead DEF PullShape
<1>3. CASE Compare
  <2>1. builds[Pull] # <<>>
    BY <1>3 DEF PullShape, Compare
  <2>2. \/ ret' = Handler
        \/ \E flaky : ret' = [ret EXCEPT !.pc = "post", !.outliers = getNonFlakyTests(ret.failed, flaky)]
    BY <1>3 DEF Compare
  <2>3. \A flaky : getNonFlakyTests(ret.failed, flaky) \in SUBSET AllTests
    BY <1>0 DEF Handlers, getNonFlakyTests
  <2>4. \A x \in SUBSET AllTests : [ret EXCEPT !.pc = "post", !.outliers = x] \in Handlers
    BY <1>0 DEF Handlers
  <2>5. ret' \in Handlers
    BY <1>0, <2>2, <2>3, <2>4
  <2> QED
    BY <1>0, <2>1, <2>5 DEF PullShape
<1>4. CASE Post
  BY <1>0, <1>4 DEF Post, PullShape, Handler
<1> QED
  BY <1>1, <1>2, <1>3, <1>4

-----------------------------------------------------------------------------
(* The steps.                                                              *)

LaterStep ==
    StartReports \/ Goroutines \/ ReportsWritten \/ GitHub \/ Notify \/ NextMessages \/ End

WorldStep ==
    \/ \E j \in JobNames : StartBuild(j) \/ UploadBuild(j)
    \/ DayPasses

RetStep == Receive \/ GetFailedTests \/ Compare \/ Post

LEMMA NextCases ==
  ASSUME [Next]_vars
  PROVE  \/ WorldStep \/ RetStep \/ UNCHANGED vars
         \/ Start \/ OpenJob \/ LookAtBuild \/ CloseJob \/ LaterStep \/ UploadReports \/ Kill
  BY DEF Next, ReporterNext, LaterStep, WorldStep, RetStep

\* What a step of one process leaves alone.
LEMMA OthersSame ==
  /\ WorldStep \/ UNCHANGED vars => UNCHANGED <<recorder, rep, ret>>
  /\ RetStep => UNCHANGED <<day, builds, recorder, rep>>
  /\ OpenJob \/ LookAtBuild \/ CloseJob \/ LaterStep \/ Kill =>
        UNCHANGED <<day, builds, recorder, ret>>
  /\ Start \/ UploadReports => UNCHANGED <<day, builds, ret>>
  BY DEF WorldStep, StartBuild, UploadBuild, DayPasses, RetStep, Receive, GetFailedTests, Compare,
         Post, RetryerStep, OpenJob, LookAtBuild, CloseJob, LaterStep, Kill, ReporterStep,
         StartReports, Goroutines, Goroutine, ReportsWritten, GitHub, Notify, NextMessages, End,
         Start, UploadReports, vars

LEMMA CloseNext ==
  ASSUME Shaped, CloseJob
  PROVE  rep.next \in Configs
  BY DEF CloseJob, Shaped, ScanShape

LEMMA StepTypes ==
  ASSUME Shaped, [Next]_vars
  PROVE  TypeOK' /\ Grows
<1>0. /\ TypeOK /\ ScanShape /\ WorkShape /\ PullShape /\ rep \in Processes
      /\ ret \in Handlers /\ day \in Nat
      /\ builds \in [JobNames -> Seq(BuildRecords)]
      /\ recorder \in Seq([day : Nat, reports : SUBSET Reports])
  BY DEF Shaped, TypeOK, Handlers, BuildRecords
<1>1. /\ builds' \in [JobNames -> Seq(BuildRecords)]
      /\ Grows
  <2>1. CASE WorldStep
    BY <1>0, <2>1, WorldGrows DEF WorldStep, DayPasses
  <2>2. CASE ~WorldStep
    <3>1. UNCHANGED builds
      BY <2>2, NextCases, OthersSame DEF vars
    <3> QED
      BY <1>0, <3>1, WorldGrows
  <2> QED
    BY <2>1, <2>2
<1>2. day' \in Nat
  <2>1. CASE WorldStep
    BY <1>0, <2>1 DEF WorldStep, StartBuild, UploadBuild, DayPasses
  <2> QED
    BY <1>0, <2>1, NextCases, OthersSame DEF vars
<1>3. ret' \in Handlers
  BY <1>0, NextCases, OthersSame, RetType DEF RetStep, vars
<1>4. recorder' \in Seq([day : Nat, reports : SUBSET Reports])
  BY <1>0, NextCases, OthersSame, StartType, UploadType DEF vars
<1>5. rep' \in Processes
  <2>1. CASE WorldStep \/ RetStep \/ UNCHANGED vars
    BY <1>0, <2>1, OthersSame DEF vars
  <2>2. CASE LaterStep
    BY <1>0, <2>2, StartReportsType, GoroutineType, WrittenType, GitHubType, NotifyType,
       MessagesType, EndType DEF LaterStep
  <2> QED
    BY <1>0, <2>1, <2>2, NextCases, StartType, OpenType, LookType, CloseType, CloseNext,
       UploadType, KillType
<1> QED
  BY <1>1, <1>2, <1>3, <1>4, <1>5 DEF TypeOK, Handlers, BuildRecords

-----------------------------------------------------------------------------
(* The steps of the reporter, field by field.                              *)

\* A run begins, or none is under way.
LEMMA FreshFacts ==
  ASSUME TypeOK, Start \/ UploadReports \/ Kill
  PROVE  /\ rep'.pc \in {"idle", "collect"} /\ rep'.next = 1 /\ rep'.data = <<>> /\ rep'.k = 0
         /\ rep'.work = NoTasks /\ rep'.dir = {} /\ ~rep'.issues
<1>1. rep.runs \in Nat /\ rep.runs + 1 \in Nat
  BY DEF TypeOK, Processes
<1>2. \A y : LET r == Idle(y) IN
         /\ r.pc = "idle" /\ r.next = 1 /\ r.data = <<>> /\ r.k = 0
         /\ r.work = NoTasks /\ r.dir = {} /\ ~r.issues
  BY DEF Process, Idle
<1>3. CASE Start
  <2>1. PICK skip \in BOOLEAN : rep' = [Process EXCEPT !.skipReport = skip, !.runs = rep.runs + 1]
    BY <1>3 DEF Start
  <2> QED
    BY <2>1 DEF Process
<1>4. CASE UploadReports \/ Kill
  <2>1. rep' = Idle(rep.runs)
    BY <1>4 DEF UploadReports, Kill
  <2> QED
    BY <1>2, <2>1
<1> QED
  BY <1>3, <1>4

\* The reporter gives up a job or goes on with the next one: what it has collected stays.
SkipJob(r) ==
    /\ rep'.pc = "collect" /\ rep'.next = r.next + 1
    /\ rep'.data = r.data /\ rep'.missed = r.missed /\ rep'.jobErr = r.jobErr
    /\ rep'.without = r.without /\ rep'.k = r.k /\ rep'.work = r.work /\ rep'.dir = r.dir
    /\ rep'.issues = r.issues

LEMMA SkipFacts ==
  ASSUME NEW r \in Processes, rep' = NextJob(r)
  PROVE  SkipJob(r)
<1> DEFINE next == r.next + 1
           none == <<>>
<1>1. rep' = [r EXCEPT !.pc = "collect", !.next = next, !.ids = none]
  BY DEF NextJob
<1> HIDE DEF none
<1> QED
  BY <1>1 DEF Processes, SkipJob

LEMMA ErrorFacts ==
  ASSUME NEW r \in Processes
  PROVE  LET e == [r EXCEPT !.jobErr = TRUE] IN
         /\ e \in Processes /\ e.jobErr = TRUE
         /\ e.next = r.next /\ e.data = r.data /\ e.missed = r.missed /\ e.without = r.without
         /\ e.k = r.k /\ e.work = r.work /\ e.dir = r.dir /\ e.issues = r.issues
  BY DEF Processes

LEMMA ExitFacts ==
  ASSUME NEW r \in Processes, NEW code, Exits(r, code)
  PROVE  /\ rep'.pc = "exit" /\ rep'.code = code /\ rep'.next = r.next /\ rep'.data = r.data
         /\ rep'.missed = r.missed /\ rep'.jobErr = r.jobErr /\ rep'.without = r.without
         /\ rep'.dir = r.dir /\ rep'.jsonErr = r.jsonErr /\ rep'.slackErr = r.slackErr
         /\ rep'.issues = r.issues /\ rep'.posted = r.posted
  BY DEF Exits, Processes

\* The finished builds of the job that is opened.
Done(j) == {n \in DOMAIN builds[j] : "finished" \in builds[j][n].done}

\* A job is opened: its builds are read, or none are.
Opened ==
    LET bs == builds[JobConfigs[rep.next].name] IN
    /\ rep'.pc = "scan" /\ rep'.next = rep.next
    /\ rep'.rd = RepoData(rep.next, Done(JobConfigs[rep.next].name))
    /\ Len(rep'.ids) <= Len(bs)
    /\ \A x \in DOMAIN rep'.ids : rep'.ids[x] = Len(rep'.ids) + 1 - x
    /\ ~rep'.missed => ~rep.missed /\ Len(rep'.ids) = Len(bs)
    /\ rep'.data = rep.data /\ rep'.jobErr = rep.jobErr /\ rep'.without = rep.without
    /\ rep'.k = rep.k /\ rep'.work = rep.work /\ rep'.dir = rep.dir /\ rep'.issues = rep.issues

LEMMA DownFacts ==
  ASSUME NEW n \in Nat, NEW s, s = [x \in 1..n |-> n + 1 - x]
  PROVE  Len(s) = n /\ DOMAIN s = 1..n /\ \A x \in DOMAIN s : s[x] = Len(s) + 1 - x
  OBVIOUS

LEMMA OpenFacts ==
  ASSUME TypeOK, OpenJob
  PROVE  /\ rep.next \in Configs /\ rep.pc = "collect"
         /\ Opened \/ SkipJob([rep EXCEPT !.jobErr = TRUE])
<1> DEFINE j == JobConfigs[rep.next].name
<1>0. rep \in Processes /\ rep.next \in Configs /\ j \in JobNames /\ rep.pc = "collect"
  BY JobFacts DEF OpenJob, TypeOK
<1>1. PICK exists \in PathExists(j), ids \in GetBuildIDs(j) :
         rep' = IF exists
                THEN [rep EXCEPT !.pc = "scan", !.rd = RepoData(rep.next, Done(j)),
                                 !.ids = LatestFirst(ids), !.missed = rep.missed \/ ids = NoList]
                ELSE NextJob([rep EXCEPT !.jobErr = TRUE])
  BY DEF OpenJob, Done
<1>2. CASE exists
  <2> DEFINE rd == RepoData(rep.next, Done(j))
             latest == LatestFirst(ids)
             missed == rep.missed \/ ids = NoList
  <2>1. rep' = [rep EXCEPT !.pc = "scan", !.rd = rd, !.ids = latest, !.missed = missed]
    BY <1>1, <1>2
  <2>2. \/ ids = NoList /\ latest = <<>>
        \/ ids = [n \in DOMAIN builds[j] |-> n]
    BY DEF GetBuildIDs, ListChildren, LatestFirst, Reverse, NoList
  <2>3. Len(builds[j]) \in Nat /\ DOMAIN builds[j] = 1..Len(builds[j])
    BY <1>0, BuildFacts
  <2>4. /\ Len(latest) <= Len(builds[j])
        /\ \A x \in DOMAIN latest : latest[x] = Len(latest) + 1 - x
        /\ ~missed => ~rep.missed /\ Len(latest) = Len(builds[j])
    <3>1. CASE ids = [n \in DOMAIN builds[j] |-> n]
      <4>1. ids \in Seq(Nat) /\ Len(ids) = Len(builds[j])
        BY <2>3, <3>1
      <4>2. latest = [x \in 1..Len(builds[j]) |-> Len(builds[j]) + 1 - x]
        <5>1. \A x \in 1..Len(builds[j]) : (Len(builds[j]) - x) + 1 \in DOMAIN builds[j]
                                             /\ (Len(builds[j]) - x) + 1 = Len(builds[j]) + 1 - x
          BY <2>3
        <5>2. latest = [x \in 1..Len(builds[j]) |-> ids[(Len(builds[j]) - x) + 1]]
          BY <4>1 DEF LatestFirst, Reverse
        <5>3. \A x \in 1..Len(builds[j]) : ids[(Len(builds[j]) - x) + 1] = Len(builds[j]) + 1 - x
          BY <3>1, <5>1
        <5> QED
          BY <5>2, <5>3
      <4> HIDE DEF latest
      <4>3. /\ Len(latest) = Len(builds[j]) /\ DOMAIN latest = 1..Len(builds[j])
            /\ \A x \in DOMAIN latest : latest[x] = Len(latest) + 1 - x
        BY <2>3, <4>2, DownFacts
      <4> QED
        BY <2>3, <4>3
    <3>2. CASE ids = NoList /\ latest = <<>>
      BY <2>3, <3>2
    <3> QED
      BY <2>2, <3>1, <3>2
  <2> HIDE DEF rd, latest, missed
  <2>5. /\ rep'.pc = "scan" /\ rep'.next = rep.next /\ rep'.rd = rd /\ rep'.ids = latest
        /\ rep'.missed = missed
        /\ rep'.data = rep.data /\ rep'.jobErr = rep.jobErr /\ rep'.without = rep.without
        /\ rep'.k = rep.k /\ rep'.work = rep.work /\ rep'.dir = rep.dir /\ rep'.issues = rep.issues
    BY <1>0, <2>1 DEF Processes
  <2>6. Opened
    BY <2>4, <2>5 DEF Opened, rd
  <2> QED
    BY <1>0, <2>6
<1>3. CASE ~exists
  BY <1>0, <1>1, <1>3, ErrorFacts, SkipFacts
<1> QED
  BY <1>2, <1>3

\* The next build is looked at; its results are added, or it is left out.
Looked(h, rd) ==
    /\ rep'.pc = "scan" /\ rep'.next = rep.next /\ rep'.rd = rd
    /\ rep'.ids \in Seq(Nat) /\ Len(rep'.ids) = h - 1
    /\ \A x \in DOMAIN rep'.ids : rep'.ids[x] = h - x
    /\ rep'.data = rep.data /\ rep'.jobErr = rep.jobErr /\ rep'.without = rep.without
    /\ rep'.k = rep.k /\ rep'.work = rep.work /\ rep'.dir = rep.dir /\ rep'.issues = rep.issues

LEMMA LookFacts ==
  ASSUME Shaped, LookAtBuild
  PROVE  LET h == Len(rep.ids)
             b == builds[JobConfigs[rep.next].name][h]
         IN  /\ rep.pc = "scan" /\ rep.next \in Configs /\ h \in Nat \ {0}
             /\ h \in DOMAIN builds[JobConfigs[rep.next].name] /\ b \in BuildRecords
             /\ rep.rd.builds < buildsCount
             /\ \/ Exits(rep, 1)
                \/ SkipJob([rep EXCEPT !.jobErr = TRUE])
                \/ Looked(h, rep.rd) /\ rep'.missed = (rep.missed \/ "finished" \in b.done)
                \/ \E files \in Seq(File) :
                      /\ files \in {b.files, <<>>} /\ "finished" \in b.done
                      /\ Looked(h, addSuiteToRepoData([rep.rd EXCEPT !.builds = rep.rd.builds + 1],
                                                      Suites(files)))
                      /\ rep'.missed = rep.missed
<1> DEFINE h == Len(rep.ids)
           b == builds[JobConfigs[rep.next].name][h]
<1>0. TypeOK /\ ScanShape /\ rep \in Processes /\ rep.pc = "scan" /\ rep.ids # <<>>
      /\ rep.rd.builds < buildsCount
  BY DEF Shaped, TypeOK, LookAtBuild
<1>1. /\ rep.next \in Configs /\ h = Head(rep.ids)
      /\ h \in DOMAIN builds[JobConfigs[rep.next].name] /\ b \in BuildRecords
      /\ rep.ids \in Seq(Nat) /\ Tail(rep.ids) \in Seq(Nat) /\ Len(Tail(rep.ids)) = h - 1
      /\ \A x \in DOMAIN Tail(rep.ids) : Tail(rep.ids)[x] = h - x
  BY <1>0, HeadFacts
<1>2. h \in Nat \ {0}
  BY <1>0, <1>1
<1>3. CASE Skipped(b)
  <2> DEFINE missed == rep.missed \/ "finished" \in b.done
             ids == Tail(rep.ids)
  <2>1. rep' = [rep EXCEPT !.ids = ids, !.missed = missed]
    BY <1>3 DEF Skipped
  <2>2. ids \in Seq(Nat) /\ Len(ids) = h - 1 /\ \A x \in DOMAIN ids : ids[x] = h - x
    BY <1>1
  <2> HIDE DEF missed, ids, h, b
  <2>3. /\ rep'.pc = "scan" /\ rep'.next = rep.next /\ rep'.rd = rep.rd
        /\ rep'.ids = ids /\ rep'.missed = missed
        /\ rep'.data = rep.data /\ rep'.jobErr = rep.jobErr /\ rep'.without = rep.without
        /\ rep'.k = rep.k /\ rep'.work = rep.work /\ rep'.dir = rep.dir /\ rep'.issues = rep.issues
    BY <1>0, <2>1 DEF Processes
  <2>4. Looked(h, rep.rd) /\ rep'.missed = (rep.missed \/ "finished" \in b.done)
    BY <2>2, <2>3 DEF Looked, missed
  <2> QED
    BY <1>0, <1>1, <1>2, <2>4 DEF h, b
<1>4. CASE rep' = NextJob([rep EXCEPT !.jobErr = TRUE])
  BY <1>0, <1>1, <1>2, <1>4, ErrorFacts, SkipFacts
<1>5. ASSUME NEW files \in getCombinedResultsForBuild(b), files # ReadError, Taken(b, files),
             "finished" \in b.done
      PROVE  \E f \in Seq(File) :
                /\ f \in {b.files, <<>>} /\ "finished" \in b.done
                /\ Looked(h, addSuiteToRepoData([rep.rd EXCEPT !.builds = rep.rd.builds + 1],
                                                Suites(f)))
                /\ rep'.missed = rep.missed
  <2>1. files \in Seq(File) /\ files \in {b.files, <<>>}
    BY <1>1, <1>5, CombinedType
  <2> DEFINE rd == addSuiteToRepoData([rep.rd EXCEPT !.builds = rep.rd.builds + 1], Suites(files))
             ids == Tail(rep.ids)
  <2>2. rep' = [rep EXCEPT !.ids = ids, !.rd = rd]
    BY <1>5 DEF Taken
  <2>3. ids \in Seq(Nat) /\ Len(ids) = h - 1 /\ \A x \in DOMAIN ids : ids[x] = h - x
    BY <1>1
  <2> HIDE DEF rd, ids, h
  <2>4. /\ rep'.pc = "scan" /\ rep'.next = rep.next /\ rep'.rd = rd
        /\ rep'.ids = ids /\ rep'.missed = rep.missed
        /\ rep'.data = rep.data /\ rep'.jobErr = rep.jobErr /\ rep'.without = rep.without
        /\ rep'.k = rep.k /\ rep'.work = rep.work /\ rep'.dir = rep.dir /\ rep'.issues = rep.issues
    BY <1>0, <2>2 DEF Processes
  <2>5. Looked(h, rd) /\ rep'.missed = rep.missed
    BY <2>3, <2>4 DEF Looked
  <2> QED
    BY <1>5, <2>1, <2>5 DEF rd
<1>6. Skipped(b) \/ Exits(rep, 1) \/ rep' = NextJob([rep EXCEPT !.jobErr = TRUE])
      \/ /\ "finished" \in b.done
         /\ \E files \in getCombinedResultsForBuild(b) : files # ReadError /\ Taken(b, files)
  BY <1>1, LookCases
<1> HIDE DEF h, b
<1> QED
  BY <1>0, <1>1, <1>2, <1>3, <1>4, <1>5, <1>6 DEF h, b

\* A job is closed.
Closed(data, without) ==
    /\ rep'.pc = "collect" /\ rep'.next = rep.next + 1
    /\ rep'.data = data /\ rep'.without = without
    /\ rep'.missed = rep.missed /\ rep'.jobErr = rep.jobErr
    /\ rep'.k = rep.k /\ rep'.work = rep.work /\ rep'.dir = rep.dir /\ rep'.issues = rep.issues

LEMMA CloseFacts ==
  ASSUME Shaped, CloseJob
  PROVE  /\ rep.pc = "scan" /\ rep.next \in Configs
         /\ rep.ids = <<>> \/ rep.rd.builds = buildsCount
         /\ \/ Exits(rep, 1)
            \/ rep.rd.builds > 0 /\ Closed(Append(rep.data, rep.rd), rep.without)
            \/ rep.rd.builds = 0 /\ Closed(rep.data, IF rep.rd.finished = {}
                                                     THEN rep.without \cup {rep.next}
                                                     ELSE rep.without)
<1>0. rep \in Processes /\ rep.rd \in RepoDatas /\ rep.next \in Configs
  BY CloseNext DEF Shaped, TypeOK, Processes
<1>1. CASE rep.rd.builds > 0 /\ rep' = NextJob([rep EXCEPT !.data = Append(rep.data, rep.rd)])
  <2> DEFINE data == Append(rep.data, rep.rd)
             r    == [rep EXCEPT !.data = data]
  <2>1. data \in Seq(RepoDatas)
    BY <1>0 DEF Processes
  <2> HIDE DEF data
  <2>2. /\ r \in Processes
        /\ r.next = rep.next /\ r.data = data /\ r.without = rep.without /\ r.missed = rep.missed
        /\ r.jobErr = rep.jobErr /\ r.k = rep.k /\ r.work = rep.work /\ r.dir = rep.dir
        /\ r.issues = rep.issues
    BY <1>0, <2>1 DEF Processes
  <2>3. rep' = NextJob(r)
    BY <1>1 DEF data
  <2> HIDE DEF r
  <2>4. Closed(data, rep.without)
    BY <2>2, <2>3, SkipFacts DEF SkipJob, Closed
  <2> QED
    BY <1>0, <1>1, <2>4 DEF data, CloseJob
<1> DEFINE without == IF rep.rd.finished = {} THEN rep.without \cup {rep.next} ELSE rep.without
<1>2. CASE rep.rd.builds = 0 /\ rep' = NextJob([rep EXCEPT !.without = without])
  <2> DEFINE r == [rep EXCEPT !.without = without]
  <2>1. without \in SUBSET Configs
    BY <1>0 DEF Processes
  <2> HIDE DEF without
  <2>2. /\ r \in Processes
        /\ r.next = rep.next /\ r.data = rep.data /\ r.without = without /\ r.missed = rep.missed
        /\ r.jobErr = rep.jobErr /\ r.k = rep.k /\ r.work = rep.work /\ r.dir = rep.dir
        /\ r.issues = rep.issues
    BY <1>0, <2>1 DEF Processes
  <2>3. rep' = NextJob(r)
    BY <1>2
  <2> HIDE DEF r
  <2>4. Closed(rep.data, without)
    BY <2>2, <2>3, SkipFacts DEF SkipJob, Closed
  <2> QED
    BY <1>0, <1>2, <2>4 DEF without, CloseJob
<1> QED
  BY <1>0, <1>1, <1>2 DEF CloseJob, createArtifactForRepo

-----------------------------------------------------------------------------
(* The steps of the goroutines, field by field.                            *)

GoFrame ==
    /\ rep'.pc = rep.pc /\ rep'.next = rep.next /\ rep'.data = rep.data
    /\ rep'.missed = rep.missed /\ rep'.jobErr = rep.jobErr /\ rep'.without = rep.without
    /\ rep'.k = rep.k /\ rep'.issues = rep.issues /\ rep'.jsonErr = rep.jsonErr
    /\ rep'.slackErr = rep.slackErr

OthersWork(t) == \A u \in AllRepos \cup Channels : u # t => rep'.work[u] = rep.work[u]

\* A report is written, or a message is posted.
GoSucceeds(t) ==
    /\ rep.work[t].pc = "run" /\ rep'.work[t].pc = "send" /\ rep'.errs = rep.errs
    /\ rep'.sent = rep.sent
    /\ rep.dir \subseteq rep'.dir /\ rep.posted \subseteq rep'.posted
    /\ rep.pc = "json" =>
          rep'.dir = rep.dir \cup {[repo |-> t, flaky |-> getFlakyTestSet(rep.data, t)]}
    /\ rep.pc = "slack" => rep'.dir = rep.dir /\ Message(t) \in rep'.posted

\* The slice of errors is read.
GoAppends(t) ==
    /\ rep.work[t].pc = "run" /\ rep'.errs = rep.errs /\ rep'.sent = rep.sent
    /\ rep'.work[t].pc = "append" /\ rep'.work[t].errs.len >= 1 /\ "len" \in rep'.work[t].left
    /\ rep'.dir = rep.dir /\ rep'.posted = rep.posted

\* A part of it is written back.
GoWrites(t) ==
    /\ rep.work[t].pc = "append" /\ rep'.work[t].errs = rep.work[t].errs
    /\ rep'.sent = rep.sent
    /\ \E field \in rep.work[t].left :
          /\ rep'.work[t].left = rep.work[t].left \ {field}
          /\ rep'.work[t].pc = IF rep'.work[t].left = {} THEN "send" ELSE "append"
          /\ rep'.errs.len = IF field = "len" THEN rep.work[t].errs.len ELSE rep.errs.len
    /\ rep'.dir = rep.dir /\ rep'.posted = rep.posted

GoSends(t) ==
    /\ rep.work[t].pc = "send" /\ rep'.work[t].pc = "done" /\ rep'.errs = rep.errs
    /\ rep'.sent = rep.sent + 1
    /\ rep'.dir = rep.dir /\ rep'.posted = rep.posted

\* The work apart, a process stays as it is.
LEMMA WorkSetFrame ==
  ASSUME NEW r \in Processes, NEW t, NEW task, WorkSet(r, t, task)
  PROVE  /\ rep'.pc = r.pc /\ rep'.next = r.next /\ rep'.data = r.data
         /\ rep'.missed = r.missed /\ rep'.jobErr = r.jobErr /\ rep'.without = r.without
         /\ rep'.k = r.k /\ rep'.issues = r.issues /\ rep'.jsonErr = r.jsonErr
         /\ rep'.slackErr = r.slackErr
         /\ rep'.errs = r.errs /\ rep'.dir = r.dir /\ rep'.posted = r.posted /\ rep'.sent = r.sent
<1> DEFINE work == [r.work EXCEPT ![t] = task]
<1>1. rep' = [r EXCEPT !.work = work]
  BY DEF WorkSet
<1> HIDE DEF work
<1> QED
  BY <1>1 DEF Processes

Like(r) ==
    /\ r \in Processes /\ r.work = rep.work
    /\ r.pc = rep.pc /\ r.next = rep.next /\ r.data = rep.data
    /\ r.missed = rep.missed /\ r.jobErr = rep.jobErr /\ r.without = rep.without
    /\ r.k = rep.k /\ r.issues = rep.issues /\ r.jsonErr = rep.jsonErr
    /\ r.slackErr = rep.slackErr

LEMMA EffectFrame ==
  ASSUME TypeOK, WorkShape, rep.pc \in {"json", "slack"},
         NEW t \in AllRepos \cup Channels, rep.work[t].pc # "none"
  PROVE  /\ Like(Effect(t)) /\ Effect(t).errs = rep.errs /\ Effect(t).sent = rep.sent
         /\ rep.dir \subseteq Effect(t).dir /\ rep.posted \subseteq Effect(t).posted
         /\ rep.pc = "json" =>
              Effect(t).dir = rep.dir \cup {[repo |-> t, flaky |-> getFlakyTestSet(rep.data, t)]}
         /\ rep.pc = "slack" => Effect(t).dir = rep.dir /\ Message(t) \in Effect(t).posted
<1>0. rep \in Processes /\ Effect(t) \in Processes
  BY EffectFacts DEF TypeOK
<1>1. CASE rep.pc = "json"
  <2> DEFINE dir == rep.dir \cup {[repo |-> t, flaky |-> getFlakyTestSet(rep.data, t)]}
  <2>1. Effect(t) = [rep EXCEPT !.dir = dir]
    BY <1>1, EffectFacts
  <2> HIDE DEF dir
  <2>2. /\ Like(Effect(t)) /\ Effect(t).errs = rep.errs /\ Effect(t).sent = rep.sent
        /\ Effect(t).dir = dir /\ Effect(t).posted = rep.posted
    BY <1>0, <2>1 DEF Processes, Like
  <2> QED
    BY <1>1, <2>2 DEF dir
<1>2. CASE rep.pc = "slack"
  <2> DEFINE posted == rep.posted \cup {Message(t)}
  <2>1. Effect(t) = [rep EXCEPT !.posted = posted]
    BY <1>2, EffectFacts
  <2> HIDE DEF posted
  <2>2. /\ Like(Effect(t)) /\ Effect(t).errs = rep.errs /\ Effect(t).sent = rep.sent
        /\ Effect(t).dir = rep.dir /\ Effect(t).posted = posted
    BY <1>0, <2>1 DEF Processes, Like
  <2> QED
    BY <1>2, <2>2 DEF posted
<1> QED
  BY <1>1, <1>2

LEMMA GoroutineFacts ==
  ASSUME TypeOK, WorkShape, Goroutines
  PROVE  /\ rep.pc \in {"json", "slack"}
         /\ \/ Exits(rep, 2)
            \/ \E t \in AllRepos \cup Channels :
                  /\ GoFrame /\ OthersWork(t)
                  /\ GoSucceeds(t) \/ GoAppends(t) \/ GoWrites(t) \/ GoSends(t)
<1>1. PICK t \in AllRepos \cup Channels :
         \/ rep.work[t].pc = "run" /\ (Succeeds(t) \/ Exits(rep, 2) \/ Appends(t))
         \/ rep.work[t].pc = "append" /\ WriteErrs(t)
         \/ rep.work[t].pc = "send" /\ Send(t)
  BY GoroutineCases
<1>2. rep \in Processes /\ rep.pc \in {"json", "slack"} /\ rep.work[t] \in Tasks
      /\ rep.errs \in Errors
  BY GoroutineCases DEF TypeOK, Processes
<1>3. ASSUME NEW r, Like(r), NEW task \in Tasks, WorkSet(r, t, task)
      PROVE  /\ GoFrame /\ OthersWork(t) /\ rep'.work[t] = task
             /\ rep'.errs = r.errs /\ rep'.dir = r.dir /\ rep'.posted = r.posted
             /\ rep'.sent = r.sent
  BY <1>3, WorkSetFacts, WorkSetFrame DEF Like, GoFrame, OthersWork
<1>4. CASE rep.work[t].pc = "run" /\ Succeeds(t)
  <2> DEFINE task == [rep.work[t] EXCEPT !.pc = "send"]
  <2>1. task.pc = "send"
    BY <1>2 DEF Tasks
  <2>2. WorkSet(Effect(t), t, task) /\ task \in Tasks
    BY <1>2, <1>4, SucceedsStep
  <2>3. Like(Effect(t))
    BY <1>2, <1>4, EffectFrame
  <2>4. /\ GoFrame /\ OthersWork(t) /\ rep'.work[t].pc = "send"
        /\ rep'.errs = Effect(t).errs /\ rep'.dir = Effect(t).dir
        /\ rep'.posted = Effect(t).posted /\ rep'.sent = Effect(t).sent
    BY <1>3, <2>1, <2>2, <2>3
  <2>5. GoSucceeds(t)
    BY <1>2, <1>4, <2>4, EffectFrame DEF GoSucceeds
  <2> QED
    BY <1>2, <2>4, <2>5
<1>5. CASE Exits(rep, 2)
  BY <1>2, <1>5
<1>6. CASE rep.work[t].pc = "run" /\ Appends(t)
  <2> DEFINE n    == rep.errs.len + 1
             task == Task("append", [len |-> n, array |-> n], {"len", "array"})
  <2>1. n >= 1 /\ task \in Tasks /\ WorkSet(rep, t, task)
    BY <1>6, AppendsStep
  <2>2. task.pc = "append" /\ task.errs.len = n /\ "len" \in task.left
    BY DEF Task
  <2>3. Like(rep)
    BY <1>2 DEF Like
  <2>4. /\ GoFrame /\ OthersWork(t) /\ rep'.work[t] = task
        /\ rep'.errs = rep.errs /\ rep'.dir = rep.dir /\ rep'.posted = rep.posted
        /\ rep'.sent = rep.sent
    BY <1>3, <2>1, <2>3
  <2>5. GoAppends(t)
    BY <1>6, <2>1, <2>2, <2>4 DEF GoAppends
  <2> QED
    BY <1>2, <2>4, <2>5
<1>7. CASE rep.work[t].pc = "append" /\ WriteErrs(t)
  <2>1. PICK field \in rep.work[t].left :
            LET left == rep.work[t].left \ {field}
                errs == [rep.errs EXCEPT ![field] = rep.work[t].errs[field]]
                task == [rep.work[t] EXCEPT !.left = left,
                                            !.pc = IF left = {} THEN "send" ELSE "append"]
            IN  /\ errs \in Errors /\ task \in Tasks
                /\ WorkSet([rep EXCEPT !.errs = errs], t, task)
                /\ [rep EXCEPT !.errs = errs] \in Processes
    BY <1>7, WriteStep
  <2> DEFINE left == rep.work[t].left \ {field}
             errs == [rep.errs EXCEPT ![field] = rep.work[t].errs[field]]
             task == [rep.work[t] EXCEPT !.left = left,
                                         !.pc = IF left = {} THEN "send" ELSE "append"]
  <2>2. /\ task.left = left /\ task.pc = (IF left = {} THEN "send" ELSE "append")
        /\ task.errs = rep.work[t].errs
    BY <1>2 DEF Tasks
  <2>3. field \in {"len", "array"}
    BY <1>2 DEF Tasks
  <2>4. errs.len = IF field = "len" THEN rep.work[t].errs.len ELSE rep.errs.len
    BY <1>2, <2>3 DEF Errors
  <2> HIDE DEF errs
  <2>5. /\ Like([rep EXCEPT !.errs = errs]) /\ [rep EXCEPT !.errs = errs].errs = errs
        /\ [rep EXCEPT !.errs = errs].dir = rep.dir /\ [rep EXCEPT !.errs = errs].posted = rep.posted
        /\ [rep EXCEPT !.errs = errs].sent = rep.sent
    BY <1>2, <2>1 DEF Like, Processes, errs
  <2>6. task \in Tasks /\ WorkSet([rep EXCEPT !.errs = errs], t, task)
    BY <2>1 DEF errs
  <2>7. /\ GoFrame /\ OthersWork(t) /\ rep'.work[t] = task
        /\ rep'.errs = errs /\ rep'.dir = rep.dir /\ rep'.posted = rep.posted
        /\ rep'.sent = rep.sent
    BY <1>3, <2>5, <2>6
  <2> HIDE DEF task
  <2>8. GoWrites(t)
    BY <1>7, <2>2, <2>4, <2>7 DEF GoWrites
  <2> QED
    BY <1>2, <2>7, <2>8
<1>8. CASE rep.work[t].pc = "send" /\ Send(t)
  <2> DEFINE task == [rep.work[t] EXCEPT !.pc = "done"]
             sent == rep.sent + 1
             r    == [rep EXCEPT !.sent = sent]
  <2>1. task \in Tasks /\ WorkSet(r, t, task) /\ r \in Processes
    BY <1>8, SendStep
  <2>2. task.pc = "done"
    BY <1>2 DEF Tasks
  <2> HIDE DEF sent
  <2>3. Like(r) /\ r.errs = rep.errs /\ r.dir = rep.dir /\ r.posted = rep.posted /\ r.sent = sent
    BY <1>2, <2>1 DEF Like, Processes
  <2> HIDE DEF r
  <2>4. /\ GoFrame /\ OthersWork(t) /\ rep'.work[t] = task
        /\ rep'.errs = rep.errs /\ rep'.dir = rep.dir /\ rep'.posted = rep.posted
        /\ rep'.sent = sent
    BY <1>3, <2>1, <2>3
  <2>5. GoSends(t)
    BY <1>8, <2>2, <2>4 DEF GoSends, sent
  <2> QED
    BY <1>2, <2>4, <2>5
<1> QED
  BY <1>1, <1>4, <1>5, <1>6, <1>7, <1>8

-----------------------------------------------------------------------------
(* The steps of main once the results are collected, field by field.       *)

Static ==
    /\ rep'.next = rep.next /\ rep'.data = rep.data /\ rep'.missed = rep.missed
    /\ rep'.jobErr = rep.jobErr /\ rep'.without = rep.without

Repos(data) == {JobConfigs[data[k].job].repo : k \in DOMAIN data}

LEMMA StartReportsFacts ==
  ASSUME TypeOK, StartReports
  PROVE  /\ rep.pc = "collect" /\ rep.next \notin Configs /\ rep'.pc = "json" /\ Static
         /\ rep'.sent = 0
         /\ rep'.work = Go(Repos(rep.data)) /\ rep'.k = rep.k
         /\ rep'.issues = rep.issues /\ rep'.dir = rep.dir
<1> DEFINE work == Go(Repos(rep.data))
<1>1. rep' = [rep EXCEPT !.pc = "json", !.errs = NoErrs, !.sent = 0, !.work = work]
  BY DEF StartReports, Repos
<1> HIDE DEF work
<1>2. /\ rep'.pc = "json" /\ Static /\ rep'.work = work /\ rep'.k = rep.k /\ rep'.sent = 0
      /\ rep'.issues = rep.issues /\ rep'.dir = rep.dir
  BY <1>1 DEF TypeOK, Processes, Static
<1> QED
  BY <1>2 DEF work, StartReports

LEMMA WrittenFacts ==
  ASSUME TypeOK, ReportsWritten
  PROVE  /\ rep.pc = "json" /\ AllDone
         /\ \/ Exits(rep, 2)
            \/ /\ rep'.pc \in {"end", "github"} /\ Static
               /\ rep'.jsonErr = SomeErr(rep.errs) /\ rep'.work = NoTasks /\ rep'.k = rep.k
               /\ rep'.issues = rep.issues /\ rep'.dir = rep.dir
<1> DEFINE err == SomeErr(rep.errs)
           pc  == IF rep.skipReport THEN "end" ELSE "github"
<1>1. CASE rep' = [rep EXCEPT !.jsonErr = err, !.work = NoTasks, !.pc = pc]
  <2>1. pc \in {"end", "github"}
    OBVIOUS
  <2> HIDE DEF err, pc
  <2>2. /\ rep'.pc = pc /\ Static /\ rep'.jsonErr = err /\ rep'.work = NoTasks
        /\ rep'.k = rep.k /\ rep'.issues = rep.issues /\ rep'.dir = rep.dir
    BY <1>1 DEF TypeOK, Processes, Static
  <2> QED
    BY <2>1, <2>2 DEF err, ReportsWritten
<1> QED
  BY <1>1 DEF ReportsWritten

LEMMA GitHubFacts ==
  ASSUME TypeOK, GitHub
  PROVE  /\ rep.pc = "github"
         /\ \/ Exits(rep, 1)
            \/ /\ rep'.pc = "notify" /\ Static
               /\ rep'.jsonErr = rep.jsonErr /\ rep'.work = rep.work /\ rep'.k = rep.k
               /\ rep'.dir = rep.dir
<1>0. rep \in Processes
  BY DEF TypeOK
<1>1. CASE \E issues \in BOOLEAN : rep' = [rep EXCEPT !.issues = issues, !.pc = "notify"]
  BY <1>0, <1>1 DEF GitHub, Processes, Static
<1>2. CASE rep' = [rep EXCEPT !.ghErr = TRUE, !.pc = "notify"]
  BY <1>0, <1>2 DEF GitHub, Processes, Static
<1> QED
  BY <1>1, <1>2 DEF GitHub

LEMMA NotifyFacts ==
  ASSUME TypeOK, Notify
  PROVE  /\ rep.pc = "notify" /\ Static
         /\ rep'.jsonErr = rep.jsonErr /\ rep'.work = rep.work /\ rep'.k = rep.k
         /\ rep'.dir = rep.dir
         /\ \/ rep'.pc = "end" /\ (~rep'.issues \/ rep'.slackErr)
            \/ rep'.pc = "slack"
<1>0. rep \in Processes /\ rep.pc = "notify"
  BY DEF TypeOK, Notify
<1>1. CASE rep' = [rep EXCEPT !.pc = "end", !.issues = FALSE]
  BY <1>0, <1>1 DEF Processes, Static
<1>2. CASE ~rep.issues /\ rep' = [rep EXCEPT !.pc = "end"]
  BY <1>0, <1>2 DEF Processes, Static
<1>3. CASE rep' = [rep EXCEPT !.pc = "end", !.slackErr = TRUE]
  BY <1>0, <1>3 DEF Processes, Static
<1>4. CASE rep' = [rep EXCEPT !.pc = "slack", !.errs = NoErrs]
  BY <1>0, <1>4 DEF Processes, Static
<1> QED
  BY <1>1, <1>2, <1>3, <1>4 DEF Notify

LEMMA MessagesFacts ==
  ASSUME TypeOK, NextMessages
  PROVE  /\ rep.pc = "slack" /\ AllDone
         /\ \/ Exits(rep, 2)
            \/ /\ rep.k < Len(rep.data) /\ rep'.pc = "slack" /\ Static
               /\ rep'.work = Go(JobConfigs[rep.data[rep.k + 1].job].channels)
               /\ rep'.k = rep.k + 1 /\ rep'.errs = rep.errs /\ rep'.sent = 0
               /\ rep'.issues = rep.issues /\ rep'.posted = rep.posted
               /\ rep'.dir = rep.dir /\ rep'.jsonErr = rep.jsonErr
            \/ /\ ~(rep.k < Len(rep.data)) /\ rep'.pc = "end" /\ Static
               /\ rep'.slackErr = SomeErr(rep.errs)
               /\ rep'.issues = rep.issues /\ rep'.posted = rep.posted
               /\ rep'.dir = rep.dir /\ rep'.jsonErr = rep.jsonErr
<1>0. rep \in Processes
  BY DEF TypeOK
<1>1. CASE rep.k < Len(rep.data) /\ MessagesOf(rep.k + 1)
  <2> DEFINE work == Go(JobConfigs[rep.data[rep.k + 1].job].channels)
             k    == rep.k + 1
  <2>1. rep' = [rep EXCEPT !.work = work, !.k = k, !.sent = 0]
    BY <1>1 DEF MessagesOf
  <2> HIDE DEF work, k
  <2>2. /\ rep'.pc = rep.pc /\ Static /\ rep'.work = work /\ rep'.k = k /\ rep'.errs = rep.errs
        /\ rep'.sent = 0
        /\ rep'.issues = rep.issues /\ rep'.posted = rep.posted
        /\ rep'.dir = rep.dir /\ rep'.jsonErr = rep.jsonErr
    BY <1>0, <2>1 DEF Processes, Static
  <2> QED
    BY <1>1, <2>2, MessagesCases DEF work, k
<1>2. CASE ~(rep.k < Len(rep.data)) /\ AllSent
  <2> DEFINE err == SomeErr(rep.errs)
  <2>1. rep' = [rep EXCEPT !.slackErr = err, !.work = NoTasks, !.pc = "end"]
    BY <1>2 DEF AllSent
  <2> HIDE DEF err
  <2>2. /\ rep'.pc = "end" /\ Static /\ rep'.slackErr = err
        /\ rep'.issues = rep.issues /\ rep'.posted = rep.posted
        /\ rep'.dir = rep.dir /\ rep'.jsonErr = rep.jsonErr
    BY <1>0, <2>1 DEF Processes, Static
  <2> QED
    BY <1>2, <2>2, MessagesCases DEF err
<1> QED
  BY <1>1, <1>2, MessagesCases

\* The process ends with 0 only if there was no error.
LEMMA EndFacts ==
  ASSUME TypeOK, End
  PROVE  /\ rep.pc = "end" /\ Exits(rep, ExitCode)
         /\ ExitCode = 0 => ~rep.jobErr /\ ~rep.jsonErr /\ ~rep.slackErr
  BY DEF End, ExitCode

\* None of these steps changes what has been collected.
LEMMA LaterFacts ==
  ASSUME TypeOK, WorkShape, LaterStep
  PROVE  /\ rep.pc \in {"collect", "json", "github", "notify", "slack", "end"} /\ Static
         /\ rep.pc = "collect" => rep.next \notin Configs
         /\ rep'.pc \in {"json", "github", "notify", "slack", "end", "exit"}
         /\ rep'.pc = "exit" /\ rep'.code = 0 => rep.pc = "end" /\ ~rep.jobErr
<1>0. rep \in Processes
  BY DEF TypeOK
<1>1. ASSUME NEW code, Exits(rep, code)
      PROVE  Static /\ rep'.pc = "exit" /\ rep'.code = code
  BY <1>0, <1>1, ExitFacts DEF Static
<1>2. CASE StartReports
  BY <1>2, StartReportsFacts
<1>3. CASE Goroutines
  BY <1>1, <1>3, GoroutineFacts DEF GoFrame, Static
<1>4. CASE ReportsWritten
  BY <1>1, <1>4, WrittenFacts
<1>5. CASE GitHub
  BY <1>1, <1>5, GitHubFacts
<1>6. CASE Notify
  BY <1>6, NotifyFacts
<1>7. CASE NextMessages
  BY <1>1, <1>7, MessagesFacts
<1>8. CASE End
  BY <1>1, <1>8, EndFacts
<1> QED
  BY <1>2, <1>3, <1>4, <1>5, <1>6, <1>7, <1>8 DEF LaterStep

-----------------------------------------------------------------------------
(* The shape is kept.                                                      *)

LEMMA ScanKept ==
  ASSUME Shaped, [Next]_vars, TypeOK', Grows
  PROVE  ScanShape'
<1>0. TypeOK /\ ScanShape /\ WorkShape /\ rep \in Processes /\ rep' \in Processes
  BY DEF Shaped, TypeOK
<1>1. CASE UNCHANGED rep
  <2> SUFFICES ASSUME rep.pc = "scan"
      PROVE  LET bs == builds'[JobConfigs[rep.next].name] IN
             /\ rep.next \in Configs /\ rep.rd.job = rep.next
             /\ Len(rep.ids) <= Len(bs)
             /\ \A x \in DOMAIN rep.ids : rep.ids[x] = Len(rep.ids) + 1 - x
             /\ rep.rd.builds <= buildsCount
             /\ \A n \in rep.rd.finished : n \in DOMAIN bs /\ "finished" \in bs[n].done
    BY <1>1 DEF ScanShape
  <2> DEFINE j == JobConfigs[rep.next].name
  <2>1. j \in JobNames /\ rep.next \in Configs
    BY <1>0, JobFacts DEF ScanShape
  <2>2. /\ Len(builds[j]) \in Nat /\ Len(builds'[j]) \in Nat /\ Len(rep.ids) \in Nat
    <3>1. rep.ids \in Seq(Nat)
      BY <1>0 DEF Processes
    <3>2. builds'[j] \in Seq(BuildRecords)
      BY <2>1 DEF TypeOK, BuildRecords
    <3>3. Len(builds[j]) \in Nat
      BY <1>0, <2>1, BuildFacts
    <3> QED
      BY <3>1, <3>2, <3>3
  <2>3. Len(builds[j]) <= Len(builds'[j])
    BY <2>1 DEF Grows
  <2>4. Len(rep.ids) <= Len(builds'[j])
    BY <1>0, <2>2, <2>3 DEF ScanShape
  <2>5. \A n \in rep.rd.finished : n \in DOMAIN builds'[j] /\ "finished" \in builds'[j][n].done
    BY <1>0, <2>1 DEF ScanShape, Grows
  <2> QED
    BY <1>0, <2>1, <2>4, <2>5 DEF ScanShape
<1>2. ASSUME UNCHANGED builds, NEW rd \in RepoDatas, rep'.rd = rd, rep'.pc = "scan",
             rep'.next = rep.next, rep.next \in Configs, rd.job = rep.next, rd.builds <= buildsCount,
             \A n \in rd.finished : /\ n \in DOMAIN builds[JobConfigs[rep.next].name]
                                    /\ "finished" \in builds[JobConfigs[rep.next].name][n].done,
             Len(rep'.ids) <= Len(builds[JobConfigs[rep.next].name]),
             \A x \in DOMAIN rep'.ids : rep'.ids[x] = Len(rep'.ids) + 1 - x
      PROVE  ScanShape'
  BY <1>2 DEF ScanShape
<1>3. CASE OpenJob
  <2>1. rep.next \in Configs /\ (Opened \/ SkipJob([rep EXCEPT !.jobErr = TRUE])) /\ UNCHANGED builds
    BY <1>0, <1>3, OpenFacts, OthersSame
  <2>2. CASE Opened
    <3> DEFINE rd == RepoData(rep.next, Done(JobConfigs[rep.next].name))
    <3>1. rd \in RepoDatas /\ rep'.rd = rd
      BY <1>0, <2>2 DEF Opened, Processes
    <3>2. rd.job = rep.next /\ rd.builds = 0 /\ rd.finished = Done(JobConfigs[rep.next].name)
      BY DEF RepoData
    <3>3. 0 <= buildsCount
      BY PipelineAssumption
    <3> HIDE DEF rd
    <3> QED
      BY <1>2, <2>1, <2>2, <3>1, <3>2, <3>3 DEF Opened, Done
  <2>3. CASE SkipJob([rep EXCEPT !.jobErr = TRUE])
    BY <2>3 DEF SkipJob, ScanShape
  <2> QED
    BY <2>1, <2>2, <2>3
<1>4. CASE LookAtBuild
  <2> DEFINE h == Len(rep.ids)
             j == JobConfigs[rep.next].name
             b == builds[j][h]
  <2>0. /\ UNCHANGED builds /\ rep.pc = "scan" /\ rep.next \in Configs /\ h \in Nat \ {0}
        /\ rep.rd.builds < buildsCount /\ rep.rd \in RepoDatas /\ rep.rd.builds \in Nat
        /\ h <= Len(builds[j]) /\ Len(builds[j]) \in Nat
    <3>1. UNCHANGED builds /\ rep.pc = "scan" /\ rep.next \in Configs /\ h \in Nat \ {0}
          /\ rep.rd.builds < buildsCount
      BY <1>4, LookFacts, OthersSame
    <3>2. rep.rd \in RepoDatas /\ rep.rd.builds \in Nat
      BY <1>0 DEF Processes, RepoDatas
    <3> QED
      BY <1>0, <3>1, <3>2, BuildFacts, JobFacts DEF ScanShape
  <2>1. ASSUME NEW rd \in RepoDatas, Looked(h, rd), rd.job = rep.rd.job,
               rd.builds <= buildsCount, rd.finished = rep.rd.finished
        PROVE  ScanShape'
    <3>1. Len(rep'.ids) = h - 1 /\ h - 1 <= Len(builds[j])
          /\ \A x \in DOMAIN rep'.ids : rep'.ids[x] = h - x
      BY <2>0, <2>1 DEF Looked
    <3>2. \A x \in DOMAIN rep'.ids : rep'.ids[x] = Len(rep'.ids) + 1 - x
      <4>1. \A x \in DOMAIN rep'.ids : x \in Nat /\ h - x = (h - 1) + 1 - x
        BY <2>0, <2>1 DEF Looked
      <4> QED
        BY <3>1, <4>1
    <3>3. rd.job = rep.next
          /\ \A n \in rd.finished : n \in DOMAIN builds[j] /\ "finished" \in builds[j][n].done
      BY <1>0, <2>0, <2>1 DEF ScanShape
    <3>4. rep'.rd = rd /\ rep'.pc = "scan" /\ rep'.next = rep.next
      BY <2>1 DEF Looked
    <3>5. Len(rep'.ids) <= Len(builds[j])
      BY <3>1
    <3> QED
      BY <1>2, <2>0, <2>1, <3>2, <3>3, <3>4, <3>5
  <2>2. \/ Exits(rep, 1)
        \/ SkipJob([rep EXCEPT !.jobErr = TRUE])
        \/ Looked(h, rep.rd)
        \/ \E files \in Seq(File) :
              Looked(h, addSuiteToRepoData([rep.rd EXCEPT !.builds = rep.rd.builds + 1],
                                           Suites(files)))
    BY <1>4, LookFacts
  <2>3. CASE Looked(h, rep.rd)
    <3>1. buildsCount \in Nat
      BY PipelineAssumption
    <3>2. rep.rd.builds <= buildsCount
      BY <2>0, <3>1
    <3> QED
      BY <2>0, <2>1, <2>3, <3>2
  <2>4. ASSUME NEW files \in Seq(File),
               Looked(h, addSuiteToRepoData([rep.rd EXCEPT !.builds = rep.rd.builds + 1],
                                            Suites(files)))
        PROVE  ScanShape'
    <3> DEFINE before == [rep.rd EXCEPT !.builds = rep.rd.builds + 1]
               after  == addSuiteToRepoData(before, Suites(files))
    <3>1. /\ before \in RepoDatas /\ before.job = rep.rd.job
          /\ before.builds = rep.rd.builds + 1 /\ before.finished = rep.rd.finished
      BY <2>0 DEF RepoDatas
    <3> HIDE DEF before
    <3>2. Suites(files) \in SUBSET File
      BY FilesFacts
    <3>3. /\ after \in RepoDatas /\ after.job = rep.rd.job
          /\ after.builds = rep.rd.builds + 1 /\ after.finished = rep.rd.finished
      BY <3>1, <3>2, AddFacts
    <3>4. Looked(h, after)
      BY <2>4 DEF before
    <3>5. rep.rd.builds + 1 <= buildsCount
      BY <2>0, PipelineAssumption
    <3> HIDE DEF after
    <3> QED
      BY <2>1, <3>3, <3>4, <3>5
  <2>5. CASE Exits(rep, 1) \/ SkipJob([rep EXCEPT !.jobErr = TRUE])
    <3>1. rep'.pc # "scan"
      BY <1>0, <2>5, ExitFacts DEF SkipJob
    <3> QED
      BY <3>1 DEF ScanShape
  <2> HIDE DEF h, j, b
  <2> QED
    BY <2>2, <2>3, <2>4, <2>5
<1>5. CASE CloseJob \/ LaterStep \/ Start \/ UploadReports \/ Kill
  <2>1. rep'.pc # "scan"
    BY <1>0, <1>5, CloseFacts, ExitFacts, LaterFacts, FreshFacts DEF Closed
  <2> QED
    BY <2>1 DEF ScanShape
<1> QED
  BY <1>1, <1>3, <1>4, <1>5, NextCases, OthersSame DEF vars

LEMMA WorkKept ==
  ASSUME Shaped, [Next]_vars, TypeOK'
  PROVE  WorkShape'
<1>0. /\ TypeOK /\ WorkShape /\ rep \in Processes /\ rep' \in Processes
      /\ \A t \in AllRepos \cup Channels : rep.work[t] \in Tasks
      /\ rep.k \in Nat /\ rep.data \in Seq(RepoDatas) /\ Len(rep.data) \in Nat
  <2>1. TypeOK /\ WorkShape /\ rep \in Processes /\ rep' \in Processes
    BY DEF Shaped, TypeOK
  <2>2. rep.k \in Nat /\ rep.data \in Seq(RepoDatas) /\ rep.work \in [AllRepos \cup Channels -> Tasks]
    BY <2>1 DEF Processes
  <2>3. Len(rep.data) \in Nat
    BY <2>2
  <2> QED
    BY <2>1, <2>2, <2>3
<1>1. \A t \in AllRepos \cup Channels : NoTasks[t].pc = "none"
  BY GoTasks DEF NoTasks
<1>2. ASSUME NEW tasks
      PROVE  \A t \in AllRepos \cup Channels : Go(tasks)[t].pc # "none" => t \in tasks
  BY GoTasks
<1>3. CASE rep'.pc \in {"collect", "scan"} /\ rep'.work = NoTasks /\ rep'.k = 0
  BY <1>3 DEF WorkShape
<1>4. CASE rep'.pc \in {"end", "exit", "idle"}
  BY <1>4 DEF WorkShape
<1>5. CASE UNCHANGED rep
  BY <1>0, <1>5 DEF WorkShape
<1>6. CASE OpenJob
  <2>1. rep.pc = "collect" /\ rep.work = NoTasks /\ rep.k = 0
    BY <1>0, <1>6, OpenFacts DEF WorkShape
  <2>2. CASE Opened
    BY <1>3, <2>1, <2>2 DEF Opened
  <2>3. CASE SkipJob([rep EXCEPT !.jobErr = TRUE])
    BY <1>0, <1>3, <2>1, <2>3, ErrorFacts DEF SkipJob
  <2> QED
    BY <1>0, <1>6, <2>2, <2>3, OpenFacts
<1>7. CASE LookAtBuild
  <2>1. rep.pc = "scan" /\ rep.work = NoTasks /\ rep.k = 0
    BY <1>0, <1>7, LookFacts DEF WorkShape
  <2>2. ASSUME NEW h, NEW rd, Looked(h, rd)
        PROVE  rep'.pc = "scan" /\ rep'.work = NoTasks /\ rep'.k = 0
    BY <2>1, <2>2 DEF Looked
  <2>3. CASE SkipJob([rep EXCEPT !.jobErr = TRUE])
    BY <1>0, <1>3, <2>1, <2>3, ErrorFacts DEF SkipJob
  <2>4. CASE Exits(rep, 1)
    BY <1>0, <1>4, <2>4, ExitFacts
  <2> QED
    BY <1>3, <1>7, <2>2, <2>3, <2>4, LookFacts
<1>8. CASE CloseJob
  <2>1. rep.pc = "scan" /\ rep.work = NoTasks /\ rep.k = 0
    BY <1>0, <1>8, CloseFacts DEF WorkShape
  <2>2. CASE Exits(rep, 1)
    BY <1>0, <1>4, <2>2, ExitFacts
  <2> QED
    BY <1>3, <1>8, <2>1, <2>2, CloseFacts DEF Closed
<1>9. CASE Start \/ UploadReports \/ Kill
  BY <1>0, <1>9, FreshFacts DEF WorkShape
<1>10. CASE StartReports
  <2>1. rep'.pc = "json" /\ rep'.k = 0 /\ rep'.work = Go(Repos(rep.data))
    BY <1>0, <1>10, StartReportsFacts DEF WorkShape
  <2>2. Repos(rep.data) \subseteq AllRepos
    <3>1. \A k \in DOMAIN rep.data : rep.data[k] \in RepoDatas
      BY <1>0
    <3>2. \A k \in DOMAIN rep.data : rep.data[k].job \in Configs
      BY <3>1 DEF RepoDatas
    <3> QED
      BY <3>2, JobFacts DEF Repos
  <2> QED
    BY <1>2, <2>1, <2>2 DEF WorkShape
<1>11. CASE Goroutines
  <2>1. CASE Exits(rep, 2)
    BY <1>0, <1>4, <2>1, ExitFacts
  <2>2. ASSUME NEW t \in AllRepos \cup Channels, GoFrame, OthersWork(t),
               GoSucceeds(t) \/ GoAppends(t) \/ GoWrites(t) \/ GoSends(t)
        PROVE  WorkShape'
    <3>1. rep.work[t].pc # "none"
      BY <2>2 DEF GoSucceeds, GoAppends, GoWrites, GoSends
    <3>2. \A u \in AllRepos \cup Channels : rep'.work[u].pc # "none" => rep.work[u].pc # "none"
      BY <2>2, <3>1 DEF OthersWork
    <3>3. rep'.pc \in {"json", "slack"} /\ rep'.pc = rep.pc /\ rep'.k = rep.k /\ rep'.data = rep.data
      BY <1>0, <1>11, <2>2, GoroutineFacts DEF GoFrame
    <3> QED
      BY <1>0, <3>2, <3>3 DEF WorkShape
  <2> QED
    BY <1>0, <1>11, <2>1, <2>2, GoroutineFacts
<1>12. CASE ReportsWritten
  <2>1. CASE Exits(rep, 2)
    BY <1>0, <1>4, <2>1, ExitFacts
  <2> QED
    BY <1>0, <1>12, <2>1, WrittenFacts DEF WorkShape
<1>13. CASE GitHub
  <2>1. CASE Exits(rep, 1)
    BY <1>0, <1>4, <2>1, ExitFacts
  <2> QED
    BY <1>0, <1>13, <2>1, GitHubFacts DEF WorkShape
<1>14. CASE Notify
  <2>1. /\ rep.work = NoTasks /\ rep.k = 0 /\ rep'.work = NoTasks /\ rep'.k = 0
        /\ rep'.pc \in {"end", "slack"} /\ rep'.data = rep.data
    BY <1>0, <1>14, NotifyFacts DEF WorkShape, Static
  <2> QED
    BY <1>0, <1>1, <2>1 DEF WorkShape
<1>15. CASE NextMessages
  <2>1. CASE Exits(rep, 2) \/ rep'.pc = "end"
    BY <1>0, <1>4, <2>1, ExitFacts
  <2>2. CASE /\ rep.k < Len(rep.data) /\ rep'.pc = "slack" /\ Static
             /\ rep'.work = Go(JobConfigs[rep.data[rep.k + 1].job].channels)
             /\ rep'.k = rep.k + 1
    <3>1. rep.k + 1 # 0 /\ rep.k + 1 <= Len(rep.data)
      BY <1>0, <2>2
    <3> QED
      BY <1>2, <2>2, <3>1 DEF WorkShape, Static
  <2> QED
    BY <1>0, <1>15, <2>1, <2>2, MessagesFacts
<1>16. CASE End
  BY <1>0, <1>4, <1>16, EndFacts, ExitFacts
<1> QED
  BY <1>5, <1>6, <1>7, <1>8, <1>9, <1>10, <1>11, <1>12, <1>13, <1>14, <1>15, <1>16,
     NextCases, OthersSame DEF LaterStep, vars

-----------------------------------------------------------------------------
(* The initial states, and the type invariant.                             *)

LEMMA FlakySetFacts ==
  ASSUME NEW data, NEW repo, NEW t \in getFlakyTestSet(data, repo)
  PROVE  \E k \in DOMAIN data : /\ JobConfigs[data[k].job].repo = repo
                                /\ t \in data[k].failed /\ t \in data[k].passed
  BY DEF getFlakyTestSet, getFlakyTests, isFlaky

\* An earlier run reports a test only if it has passed and failed.
LEMMA EarlierFacts ==
  ASSUME NEW bs \in [JobNames -> Seq(BuildRecords)]
  PROVE  /\ EarlierReport(bs) \in [day : Nat, reports : SUBSET Reports]
         /\ \A r \in EarlierReport(bs).reports : \A t \in r.flaky : \E i \in Configs :
              /\ JobConfigs[i].repo = r.repo
              /\ \A status \in {"passed", "failed"} :
                    \E b \in ToSet(bs[JobConfigs[i].name]) : \E f \in ToSet(b.files) :
                       t \in CasesWith(f, status)
<1> DEFINE name(i)   == JobConfigs[i].name
           files(i)  == UNION {ToSet(b.files) : b \in ToSet(bs[name(i)])}
           read      == {i \in Configs : /\ Len(bs[name(i)]) \in 1..buildsCount
                                         /\ \A f \in files(i) : f.kind # "broken"}
           suites(i) == {f \in files(i) : f.kind = "suite"}
           data      == [i \in read |-> addSuiteToRepoData(RepoData(i, {}), suites(i))]
           report(i) == [repo |-> JobConfigs[i].repo,
                         flaky |-> getFlakyTestSet(data, JobConfigs[i].repo)]
<1>1. EarlierReport(bs) = [day |-> 0, reports |-> {report(i) : i \in read}]
  BY DEF EarlierReport
<1>2. ASSUME NEW i \in read
      PROVE  /\ i \in Configs /\ data[i] \in RepoDatas /\ data[i].job = i
             /\ data[i].passed = UNION {CasesWith(f, "passed") : f \in suites(i)}
             /\ data[i].failed = UNION {CasesWith(f, "failed") : f \in suites(i)}
  <2>1. i \in Configs /\ bs[name(i)] \in Seq(BuildRecords)
    BY <1>2, JobFacts
  <2>2. ToSet(bs[name(i)]) \subseteq BuildRecords
    BY <2>1 DEF ToSet
  <2>3. \A b \in BuildRecords : ToSet(b.files) \subseteq File
    BY FilesFacts DEF BuildRecords
  <2>4. suites(i) \in SUBSET File
    BY <2>2, <2>3
  <2>5. RepoData(i, {}) \in RepoDatas
    BY <2>1, RepoDataType
  <2>6. RepoData(i, {}).job = i /\ RepoData(i, {}).passed = {} /\ RepoData(i, {}).failed = {}
    BY DEF RepoData
  <2>7. data[i] = addSuiteToRepoData(RepoData(i, {}), suites(i))
    BY <1>2
  <2> HIDE DEF suites, data, read
  <2> QED
    BY <2>1, <2>4, <2>5, <2>6, <2>7, AddFacts
<1>3. DOMAIN data = read
  OBVIOUS
<1>4. ASSUME NEW i \in read
      PROVE  report(i) \in Reports
  <2>1. getFlakyTestSet(data, JobConfigs[i].repo) \in SUBSET AllTests
    BY <1>2, <1>3, FlakySetType
  <2>2. JobConfigs[i].repo \in AllRepos
    BY <1>2, <1>4, JobFacts
  <2> QED
    BY <2>1, <2>2 DEF Reports
<1>5. ASSUME NEW i \in read, NEW t \in report(i).flaky
      PROVE  \E k \in Configs :
                /\ JobConfigs[k].repo = report(i).repo
                /\ \A status \in {"passed", "failed"} :
                      \E b \in ToSet(bs[name(k)]) : \E f \in ToSet(b.files) :
                         t \in CasesWith(f, status)
  <2>1. PICK k \in DOMAIN data : /\ JobConfigs[data[k].job].repo = JobConfigs[i].repo
                                 /\ t \in data[k].failed /\ t \in data[k].passed
    <3>1. t \in getFlakyTestSet(data, JobConfigs[i].repo)
      BY <1>5
    <3> HIDE DEF data
    <3> QED
      BY <3>1, FlakySetFacts
  <2>2. k \in Configs /\ data[k].job = k
        /\ t \in UNION {CasesWith(f, "passed") : f \in suites(k)}
        /\ t \in UNION {CasesWith(f, "failed") : f \in suites(k)}
    BY <1>2, <1>3, <2>1
  <2>3. \A f \in suites(k) : \E b \in ToSet(bs[name(k)]) : f \in ToSet(b.files)
    OBVIOUS
  <2>4. \A status \in {"passed", "failed"} : \E f \in suites(k) : t \in CasesWith(f, status)
    BY <2>2
  <2> HIDE DEF suites, data
  <2> QED
    BY <2>1, <2>2, <2>3, <2>4
<1> HIDE DEF report, read
<1>6. EarlierReport(bs) \in [day : Nat, reports : SUBSET Reports]
  BY <1>1, <1>4
<1>7. EarlierReport(bs).reports = {report(i) : i \in read}
  BY <1>1
<1> QED
  BY <1>5, <1>6, <1>7

LEMMA InitBuilds ==
  ASSUME Init
  PROVE  /\ builds \in [JobNames -> Seq(BuildRecords)]
         /\ \A j \in JobNames : \A b \in ToSet(builds[j]) : "finished" \in b.done
<1>1. PICK c \in EarlyBuilds :
         builds = [j \in JobNames |-> [n \in DOMAIN c[j] |-> Build(c[j][n], {"artifacts", "finished"})]]
  BY DEF Init
<1>2. c \in [JobNames -> Seq(Seq(File))]
  BY PipelineAssumption
<1>3. ASSUME NEW j \in JobNames
      PROVE  builds[j] \in Seq(BuildRecords) /\ \A b \in ToSet(builds[j]) : "finished" \in b.done
  <2>1. c[j] \in Seq(Seq(File))
    BY <1>2
  <2>2. \A n \in DOMAIN c[j] : c[j][n] \in Seq(File)
    BY <2>1
  <2>3. \A n \in DOMAIN c[j] : /\ Build(c[j][n], {"artifacts", "finished"}) \in BuildRecords
                               /\ "finished" \in Build(c[j][n], {"artifacts", "finished"}).done
    BY <2>2 DEF Build, BuildRecords
  <2>4. builds[j] = [n \in DOMAIN c[j] |-> Build(c[j][n], {"artifacts", "finished"})]
    BY <1>1
  <2>5. DOMAIN c[j] = 1..Len(c[j]) /\ Len(c[j]) \in Nat
    BY <2>1
  <2>6. builds[j] \in Seq(BuildRecords)
    BY <2>3, <2>4, <2>5
  <2>7. \A b \in ToSet(builds[j]) : "finished" \in b.done
    BY <2>3, <2>4 DEF ToSet
  <2> QED
    BY <2>6, <2>7
<1> QED
  BY <1>1, <1>3

LEMMA InitShaped == Init => Shaped
<1> SUFFICES ASSUME Init PROVE Shaped
  OBVIOUS
<1>1. builds \in [JobNames -> Seq(BuildRecords)]
  BY InitBuilds
<1>2. recorder \in Seq([day : Nat, reports : SUBSET Reports])
  <2> DEFINE early == EarlierReport(builds)
             R     == [day : Nat, reports : SUBSET Reports]
  <2>1. early \in R
    BY <1>1, EarlierFacts
  <2>2. recorder \in {<<>>, <<early>>}
    BY DEF Init
  <2> HIDE DEF early, R
  <2>3. recorder \in Seq(R)
    <3>1. <<early>> \in Seq(R) /\ <<>> \in Seq(R)
      BY <2>1
    <3> QED
      BY <2>2, <3>1
  <2> QED
    BY <2>3 DEF R
<1>3. rep \in Processes /\ ret \in Handlers /\ day \in Nat
  BY ReportersFacts DEF Init, Handlers
<1>4. TypeOK
  BY <1>1, <1>2, <1>3 DEF TypeOK, BuildRecords, Handlers
<1>5. rep.pc = "idle" /\ ret.pc = "idle"
  BY DEF Init, Idle, Process, Handler
<1> QED
  BY <1>4, <1>5 DEF Shaped, ScanShape, WorkShape, PullShape

LEMMA PullKept ==
  ASSUME Shaped, [Next]_vars, TypeOK', Grows
  PROVE  PullShape'
<1>1. CASE RetStep
  BY <1>1, RetType DEF Shaped, RetStep
<1>2. CASE UNCHANGED ret
  <2>1. builds[Pull] # <<>> => builds'[Pull] # <<>>
    BY JobFacts, BuildFacts DEF Grows, Shaped
  <2> QED
    BY <1>2, <2>1 DEF Shaped, PullShape
<1> QED
  BY <1>1, <1>2, NextCases, OthersSame DEF vars

LEMMA ShapedInvariant == Spec => []Shaped
<1>1. Init => Shaped
  BY InitShaped
<1>2. Shaped /\ [Next]_vars => Shaped'
  BY StepTypes, ScanKept, WorkKept, PullKept DEF Shaped
<1> QED
  BY <1>1, <1>2, PTL DEF Spec

\* Every variable has its type: no build, task or message is looked at that is not there,
\* however the steps of Prow, of the reporter with its goroutines, and of the retryer
\* are interleaved.
THEOREM TypeCorrect == Spec => []TypeOK
<1>1. Shaped => TypeOK
  BY DEF Shaped
<1> QED
  BY <1>1, ShapedInvariant, PTL

-----------------------------------------------------------------------------
(* What is known of the results.                                           *)

\* A test has had a status in a finished build of a job.
LEMMA SeenFacts ==
  ASSUME NEW i, NEW status, NEW t
  PROVE  t \in Seen(i, status) <=>
            \E n \in DOMAIN builds[JobConfigs[i].name] :
               LET b == builds[JobConfigs[i].name][n] IN
               "finished" \in b.done /\ \E f \in ToSet(b.files) : t \in CasesWith(f, status)
  BY DEF Seen, ToSet

LEMMA SeenGrows ==
  ASSUME Grows, NEW i \in Configs, NEW status
  PROVE  Seen(i, status) \subseteq Seen(i, status)'
<1> DEFINE j == JobConfigs[i].name
<1>1. j \in JobNames
  BY JobFacts
<1> SUFFICES ASSUME NEW t \in Seen(i, status) PROVE t \in Seen(i, status)'
  OBVIOUS
<1>2. PICK n \in DOMAIN builds[j] : /\ "finished" \in builds[j][n].done
                                    /\ \E f \in ToSet(builds[j][n].files) : t \in CasesWith(f, status)
  BY SeenFacts
<1>3. /\ n \in DOMAIN builds'[j] /\ "finished" \in builds'[j][n].done
      /\ \E f \in ToSet(builds'[j][n].files) : t \in CasesWith(f, status)
  BY <1>1, <1>2 DEF Grows
<1> QED
  BY <1>3 DEF Seen, ToSet

\* A test has had a status in a build that is new enough to count.
InNew(rd, n) == Cardinality({m \in rd.finished : m > n}) < buildsCount

SeenInNew(rd, status, t) ==
    \E n \in DOMAIN builds[JobConfigs[rd.job].name] :
       InNew(rd, n) /\ \E f \in ToSet(builds[JobConfigs[rd.job].name][n].files) : t \in With(f, status)

LEMMA SeenInNewGrows ==
  ASSUME Grows, NEW rd, rd.job \in Configs, NEW status, NEW t, SeenInNew(rd, status, t)
  PROVE  SeenInNew(rd, status, t)'
  BY JobFacts DEF Grows, SeenInNew

\* All that the data of a job say has been seen in finished builds.
Backed(rd) == rd.passed \subseteq Seen(rd.job, "passed") /\ rd.failed \subseteq Seen(rd.job, "failed")

\* And in new ones.
Recent(rd) ==
    /\ \A t \in rd.passed : SeenInNew(rd, "passed", t)
    /\ \A t \in rd.failed : SeenInNew(rd, "failed", t)

DataInv ==
    /\ \A k \in DOMAIN rep.data : Backed(rep.data[k])
    /\ rep.pc = "scan" => Backed(rep.rd)

\* Of the finished builds that are newer than those yet to be looked at, none was left out.
RecentInv ==
    ~rep.missed =>
        /\ \A k \in DOMAIN rep.data : Recent(rep.data[k])
        /\ rep.pc = "scan" =>
              /\ Recent(rep.rd)
              /\ Cardinality({m \in rep.rd.finished : m > Len(rep.ids)}) <= rep.rd.builds

LEMMA BackedGrows ==
  ASSUME Grows, NEW rd \in RepoDatas, Backed(rd)
  PROVE  Backed(rd)'
<1>1. rd.job \in Configs
  BY DEF RepoDatas
<1>2. /\ Seen(rd.job, "passed") \subseteq Seen(rd.job, "passed")'
      /\ Seen(rd.job, "failed") \subseteq Seen(rd.job, "failed")'
  BY <1>1, SeenGrows
<1> QED
  BY <1>2 DEF Backed

LEMMA RecentGrows ==
  ASSUME Grows, NEW rd \in RepoDatas, Recent(rd)
  PROVE  Recent(rd)'
<1>1. rd.job \in Configs
  BY DEF RepoDatas
<1> QED
  BY <1>1, SeenInNewGrows DEF Recent

LEMMA DataTypes ==
  ASSUME TypeOK
  PROVE  /\ rep.rd \in RepoDatas /\ rep.data \in Seq(RepoDatas)
         /\ \A k \in DOMAIN rep.data : rep.data[k] \in RepoDatas
<1>1. rep.rd \in RepoDatas /\ rep.data \in Seq(RepoDatas)
  BY DEF TypeOK, Processes
<1> QED
  BY <1>1

\* The results of a finished build are added.
LEMMA TakenBacked ==
  ASSUME Shaped, NEW h \in DOMAIN builds[JobConfigs[rep.next].name], rep.pc = "scan",
         "finished" \in builds[JobConfigs[rep.next].name][h].done,
         NEW files \in Seq(File), files \in {builds[JobConfigs[rep.next].name][h].files, <<>>},
         Backed(rep.rd)
  PROVE  LET after == addSuiteToRepoData([rep.rd EXCEPT !.builds = rep.rd.builds + 1], Suites(files))
         IN  /\ after \in RepoDatas /\ Backed(after)
             /\ after.job = rep.rd.job /\ after.builds = rep.rd.builds + 1
             /\ after.finished = rep.rd.finished
             /\ Recent(rep.rd) /\ InNew(rep.rd, h) => Recent(after)
<1> DEFINE before == [rep.rd EXCEPT !.builds = rep.rd.builds + 1]
           after  == addSuiteToRepoData(before, Suites(files))
           j      == JobConfigs[rep.next].name
<1>0. rep.rd \in RepoDatas /\ rep.next \in Configs /\ rep.rd.job = rep.next
  BY DataTypes DEF Shaped, ScanShape
<1>1. /\ before \in RepoDatas /\ before.job = rep.rd.job
      /\ before.builds = rep.rd.builds + 1 /\ before.finished = rep.rd.finished
      /\ before.passed = rep.rd.passed /\ before.failed = rep.rd.failed
  BY <1>0 DEF RepoDatas
<1>2. Suites(files) \in SUBSET File /\ Suites(files) \subseteq ToSet(files)
  BY FilesFacts
<1> HIDE DEF before
<1>3. /\ after \in RepoDatas /\ after.job = rep.next
      /\ after.builds = rep.rd.builds + 1 /\ after.finished = rep.rd.finished
      /\ after.passed = rep.rd.passed \cup UNION {CasesWith(f, "passed") : f \in Suites(files)}
      /\ after.failed = rep.rd.failed \cup UNION {CasesWith(f, "failed") : f \in Suites(files)}
  BY <1>0, <1>1, <1>2, AddFacts
<1> HIDE DEF after
<1>4. \A f \in Suites(files) : f \in ToSet(builds[j][h].files)
  BY <1>2 DEF ToSet
<1>5. ASSUME NEW f \in Suites(files), NEW status, NEW t \in CasesWith(f, status)
      PROVE  /\ t \in Seen(rep.next, status)
             /\ t \in With(f, status) /\ f \in ToSet(builds[j][h].files)
  BY <1>2, <1>4, <1>5, FileFacts, SeenFacts
<1>6. Backed(after)
  BY <1>0, <1>3, <1>5 DEF Backed
<1>7. ASSUME Recent(rep.rd), InNew(rep.rd, h)
      PROVE  Recent(after)
  <2>1. InNew(after, h)
    BY <1>3, <1>7 DEF InNew
  <2>2. \A status, t : SeenInNew(rep.rd, status, t) => SeenInNew(after, status, t)
    BY <1>0, <1>3 DEF SeenInNew, InNew
  <2>3. ASSUME NEW f \in Suites(files), NEW status, NEW t \in CasesWith(f, status)
        PROVE  SeenInNew(after, status, t)
    BY <1>3, <1>5, <2>1, <2>3 DEF SeenInNew
  <2> QED
    BY <1>3, <1>7, <2>2, <2>3 DEF Recent
<1> QED
  BY <1>0, <1>1, <1>3, <1>6, <1>7 DEF after, before

LEMMA DataKept ==
  ASSUME Shaped, DataInv, [Next]_vars, TypeOK', Grows
  PROVE  DataInv'
<1>0. TypeOK /\ WorkShape
  BY DEF Shaped
<1>1. rep.rd \in RepoDatas /\ rep.data \in Seq(RepoDatas)
      /\ \A k \in DOMAIN rep.data : rep.data[k] \in RepoDatas
  BY <1>0, DataTypes
<1>2. \A k \in DOMAIN rep.data : Backed(rep.data[k])
  BY DEF DataInv
<1>3. ASSUME NEW rd \in RepoDatas, Backed(rd), NEW k \in DOMAIN rep'.data, rep'.data[k] = rd
      PROVE  Backed(rep.data[k])'
  <2>1. Backed(rd)'
    BY <1>3, BackedGrows
  <2> QED
    BY <1>3, <2>1 DEF Backed, Seen
<1>4. CASE rep'.data = rep.data
  <2>1. \A k \in DOMAIN rep'.data : Backed(rep.data[k])'
    BY <1>1, <1>2, <1>3, <1>4
  <2>2. ASSUME rep'.pc = "scan" PROVE Backed(rep.rd)'
    <3>1. ASSUME NEW rd \in RepoDatas, Backed(rd), rep'.rd = rd
          PROVE  Backed(rep.rd)'
      <4>1. Backed(rd)'
        BY <3>1, BackedGrows
      <4> QED
        BY <3>1, <4>1 DEF Backed, Seen
    <3>2. CASE UNCHANGED rep
      BY <1>1, <2>2, <3>1, <3>2 DEF DataInv
    <3>3. CASE OpenJob
      <4>1. rep.next \in Configs /\ Opened
        BY <1>0, <2>2, <3>3, OpenFacts DEF SkipJob
      <4>2. rep'.rd = RepoData(rep.next, Done(JobConfigs[rep.next].name)) /\ rep'.rd \in RepoDatas
        BY <4>1 DEF Opened, TypeOK, Processes
      <4>3. Backed(rep'.rd)
        BY <4>2 DEF Backed, RepoData
      <4> DEFINE rd == RepoData(rep.next, Done(JobConfigs[rep.next].name))
      <4>4. rd \in RepoDatas /\ Backed(rd) /\ rep'.rd = rd
        BY <4>2, <4>3
      <4> HIDE DEF rd
      <4> QED
        BY <3>1, <4>4
    <3>4. CASE LookAtBuild
      <4> DEFINE h == Len(rep.ids)
                 b == builds[JobConfigs[rep.next].name][h]
      <4>1. rep.pc = "scan" /\ h \in DOMAIN builds[JobConfigs[rep.next].name] /\ Backed(rep.rd)
        BY <3>4, LookFacts DEF DataInv
      <4>2. CASE Looked(h, rep.rd)
        BY <1>1, <3>1, <4>1, <4>2 DEF Looked
      <4>3. ASSUME NEW files \in Seq(File), files \in {b.files, <<>>}, "finished" \in b.done,
                   Looked(h, addSuiteToRepoData([rep.rd EXCEPT !.builds = rep.rd.builds + 1],
                                                Suites(files)))
            PROVE  Backed(rep.rd)'
        <5> DEFINE after == addSuiteToRepoData([rep.rd EXCEPT !.builds = rep.rd.builds + 1],
                                               Suites(files))
        <5>1. after \in RepoDatas /\ Backed(after)
          BY <4>1, <4>3, TakenBacked
        <5>2. rep'.rd = after
          BY <4>3 DEF Looked
        <5> HIDE DEF after
        <5> QED
          BY <3>1, <5>1, <5>2
      <4>4. ~Exits(rep, 1) /\ ~SkipJob([rep EXCEPT !.jobErr = TRUE])
        BY <1>0, <2>2, ExitFacts DEF SkipJob, TypeOK
      <4> QED
        BY <3>4, <4>2, <4>3, <4>4, LookFacts
    <3>5. ~CloseJob /\ ~LaterStep /\ ~Start /\ ~UploadReports /\ ~Kill
      BY <1>0, <2>2, CloseFacts, ExitFacts, LaterFacts, FreshFacts DEF Closed, TypeOK
    <3> QED
      BY <3>2, <3>3, <3>4, <3>5, NextCases, OthersSame DEF vars
  <2> QED
    BY <2>1, <2>2 DEF DataInv
<1>5. CASE CloseJob /\ rep.pc = "scan" /\ Closed(Append(rep.data, rep.rd), rep.without)
  <2>1. rep'.data = Append(rep.data, rep.rd) /\ rep'.pc # "scan" /\ Backed(rep.rd)
    BY <1>5 DEF Closed, DataInv
  <2>2. \A k \in DOMAIN rep'.data :
           \/ k \in DOMAIN rep.data /\ rep'.data[k] = rep.data[k]
           \/ rep'.data[k] = rep.rd
    BY <1>1, <2>1
  <2>3. \A k \in DOMAIN rep'.data : Backed(rep.data[k])'
    BY <1>1, <1>2, <1>3, <2>1, <2>2
  <2> QED
    BY <2>1, <2>3 DEF DataInv
<1>6. CASE Start \/ UploadReports \/ Kill
  BY <1>0, <1>6, FreshFacts DEF DataInv
<1>7. \/ rep'.data = rep.data \/ Start \/ UploadReports \/ Kill
      \/ CloseJob /\ rep.pc = "scan" /\ Closed(Append(rep.data, rep.rd), rep.without)
  <2>1. CASE OpenJob
    <3>1. [rep EXCEPT !.jobErr = TRUE].data = rep.data
      BY <1>0, ErrorFacts DEF TypeOK
    <3> QED
      BY <1>0, <2>1, <3>1, OpenFacts DEF Opened, SkipJob
  <2>2. CASE LookAtBuild
    <3>1. [rep EXCEPT !.jobErr = TRUE].data = rep.data
      BY <1>0, ErrorFacts DEF TypeOK
    <3>2. \A h, rd : Looked(h, rd) => rep'.data = rep.data
      BY DEF Looked
    <3>3. Exits(rep, 1) => rep'.data = rep.data
      BY <1>0, ExitFacts DEF TypeOK
    <3> QED
      BY <2>2, <3>1, <3>2, <3>3, LookFacts DEF SkipJob
  <2>3. CASE CloseJob
    BY <1>0, <2>3, CloseFacts, ExitFacts DEF Closed, TypeOK
  <2>4. CASE LaterStep
    BY <1>0, <2>4, LaterFacts DEF Static
  <2> QED
    BY <2>1, <2>2, <2>3, <2>4, NextCases, OthersSame DEF vars
<1> QED
  BY <1>4, <1>5, <1>6, <1>7

LEMMA DataInvariant == Spec => []DataInv
<1>1. Init => DataInv
  BY DEF Init, Idle, Process, DataInv
<1>2. Shaped /\ Shaped' /\ DataInv /\ [Next]_vars => DataInv'
  BY StepTypes, DataKept
<1> QED
  BY <1>1, <1>2, ShapedInvariant, PTL DEF Spec

-----------------------------------------------------------------------------
(* Old builds are forgotten.                                               *)

\* The finished builds newer than some build are those that were, and that one.
LEMMA NewerFacts ==
  ASSUME NEW finished \in SUBSET Nat, IsFiniteSet(finished), NEW h \in Nat \ {0}
  PROVE  LET newer(n) == {m \in finished : m > n} IN
         /\ Cardinality(newer(h)) \in Nat /\ Cardinality(newer(h - 1)) \in Nat
         /\ Cardinality(newer(h - 1)) <= Cardinality(newer(h)) + 1
         /\ h \notin finished => newer(h - 1) = newer(h)
<1> DEFINE newer(n) == {m \in finished : m > n}
<1>1. IsFiniteSet(newer(h)) /\ IsFiniteSet(newer(h - 1))
  BY FS_Subset
<1>2. Cardinality(newer(h)) \in Nat /\ Cardinality(newer(h - 1)) \in Nat
  BY <1>1, FS_CardinalityType
<1>0. \A m \in finished : (m > h - 1) <=> (m > h \/ m = h)
  OBVIOUS
<1>3. newer(h - 1) \subseteq newer(h) \cup {h}
  BY <1>0, Zenon
<1>4. h \notin finished => newer(h - 1) = newer(h)
  BY <1>0, Zenon
<1> HIDE DEF newer
<1>5. /\ IsFiniteSet(newer(h) \cup {h})
      /\ Cardinality(newer(h) \cup {h}) \in {Cardinality(newer(h)), Cardinality(newer(h)) + 1}
  BY <1>1, FS_AddElement
<1>6. Cardinality(newer(h - 1)) <= Cardinality(newer(h) \cup {h})
  BY <1>3, <1>5, FS_Subset
<1>7. Cardinality(newer(h - 1)) <= Cardinality(newer(h)) + 1
  BY <1>2, <1>5, <1>6
<1> QED
  BY <1>2, <1>4, <1>7 DEF newer

LEMMA RecentKept ==
  ASSUME Shaped, DataInv, RecentInv, [Next]_vars, TypeOK', Grows
  PROVE  RecentInv'
<1> SUFFICES ASSUME ~rep'.missed
    PROVE  /\ \A k \in DOMAIN rep'.data : Recent(rep.data[k])'
           /\ rep'.pc = "scan" =>
                /\ Recent(rep.rd)'
                /\ Cardinality({m \in rep'.rd.finished : m > Len(rep'.ids)}) <= rep'.rd.builds
  BY DEF RecentInv
<1>0. TypeOK /\ WorkShape /\ ScanShape /\ rep \in Processes
  BY DEF Shaped, TypeOK
<1>1. rep.rd \in RepoDatas /\ rep.data \in Seq(RepoDatas)
      /\ \A k \in DOMAIN rep.data : rep.data[k] \in RepoDatas
  BY <1>0, DataTypes
<1>2. ASSUME NEW rd \in RepoDatas, Recent(rd), NEW k \in DOMAIN rep'.data, rep'.data[k] = rd
      PROVE  Recent(rep.data[k])'
  <2>1. Recent(rd)'
    BY <1>2, RecentGrows
  <2> QED
    BY <1>2, <2>1 DEF Recent, SeenInNew, InNew
<1>3. ASSUME NEW rd \in RepoDatas, Recent(rd), rep'.rd = rd
      PROVE  Recent(rep.rd)'
  <2>1. Recent(rd)'
    BY <1>3, RecentGrows
  <2> QED
    BY <1>3, <2>1 DEF Recent, SeenInNew, InNew
<1>4. ASSUME rep'.data = rep.data, ~rep.missed
      PROVE  \A k \in DOMAIN rep'.data : Recent(rep.data[k])'
  BY <1>1, <1>2, <1>4 DEF RecentInv
<1>5. CASE UNCHANGED rep
  <2>1. /\ \A k \in DOMAIN rep'.data : Recent(rep.data[k])'
        /\ ~rep.missed
    BY <1>4, <1>5
  <2>2. ASSUME rep'.pc = "scan"
        PROVE  /\ Recent(rep.rd)'
               /\ Cardinality({m \in rep'.rd.finished : m > Len(rep'.ids)}) <= rep'.rd.builds
    BY <1>1, <1>3, <1>5, <2>1, <2>2 DEF RecentInv
  <2> QED
    BY <2>1, <2>2
<1>6. CASE OpenJob
  <2>1. CASE Opened
    <3> DEFINE j  == JobConfigs[rep.next].name
               rd == RepoData(rep.next, Done(j))
    <3>1. /\ rep'.rd = rd /\ rd \in RepoDatas /\ ~rep.missed
          /\ Len(rep'.ids) = Len(builds[j]) /\ rep'.data = rep.data
      BY <2>1 DEF Opened, TypeOK, Processes
    <3>2. /\ rd.passed = {} /\ rd.failed = {} /\ rd.builds = 0 /\ rd.finished = Done(j)
      BY DEF RepoData
    <3>3. Recent(rd)
      BY <3>2 DEF Recent
    <3>4. j \in JobNames
      BY <1>0, <1>6, OpenFacts, JobFacts
    <3>5. {m \in Done(j) : m > Len(builds[j])} = {}
      BY <1>0, <3>4, BuildFacts DEF Done
    <3> HIDE DEF rd, j
    <3>6. {m \in rep'.rd.finished : m > Len(rep'.ids)} = {} /\ rep'.rd.builds = 0
      BY <3>1, <3>2, <3>5
    <3>7. Cardinality({m \in rep'.rd.finished : m > Len(rep'.ids)}) = 0
      BY <3>6, FS_EmptySet
    <3> QED
      BY <1>3, <1>4, <3>1, <3>3, <3>6, <3>7
  <2>2. CASE SkipJob([rep EXCEPT !.jobErr = TRUE])
    <3>1. rep'.data = rep.data /\ ~rep.missed /\ rep'.pc = "collect"
      BY <1>0, <2>2, ErrorFacts DEF SkipJob
    <3> QED
      BY <1>4, <3>1
  <2> QED
    BY <1>0, <1>6, <2>1, <2>2, OpenFacts
<1>7. CASE LookAtBuild
  <2> DEFINE h == Len(rep.ids)
             j == JobConfigs[rep.next].name
             b == builds[j][h]
             finished == rep.rd.finished
             newer(n) == {m \in finished : m > n}
  <2>1. /\ rep.pc = "scan" /\ h \in Nat \ {0} /\ h \in DOMAIN builds[j] /\ Backed(rep.rd)
        /\ rep.rd.builds < buildsCount /\ rep.rd.builds \in Nat /\ j \in JobNames
    <3>1. /\ rep.pc = "scan" /\ h \in Nat \ {0} /\ h \in DOMAIN builds[j]
          /\ rep.rd.builds < buildsCount /\ rep.next \in Configs
      BY <1>7, LookFacts
    <3> QED
      BY <1>1, <3>1, JobFacts DEF DataInv, RepoDatas
  <2>2. \A n \in finished : n \in DOMAIN builds[j] /\ "finished" \in builds[j][n].done
    BY <1>0, <2>1 DEF ScanShape
  <2>3. finished \in SUBSET Nat /\ IsFiniteSet(finished)
    <3>1. finished \in SUBSET (1..Len(builds[j])) /\ Len(builds[j]) \in Nat
      BY <1>0, <2>1, <2>2, BuildFacts
    <3>2. IsFiniteSet(1..Len(builds[j]))
      BY <3>1, FS_Interval
    <3> QED
      BY <3>1, <3>2, FS_Subset
  <2>4. /\ Cardinality(newer(h)) \in Nat /\ Cardinality(newer(h - 1)) \in Nat
        /\ Cardinality(newer(h - 1)) <= Cardinality(newer(h)) + 1
        /\ h \notin finished => newer(h - 1) = newer(h)
    BY <2>1, <2>3, NewerFacts
  <2>5. ~rep.missed => Recent(rep.rd) /\ Cardinality(newer(h)) <= rep.rd.builds
    BY <2>1 DEF RecentInv
  <2>6. CASE Looked(h, rep.rd) /\ rep'.missed = (rep.missed \/ "finished" \in b.done)
    <3>1. ~rep.missed /\ h \notin finished
      BY <2>2, <2>6
    <3>2. rep'.data = rep.data /\ rep'.rd = rep.rd /\ Len(rep'.ids) = h - 1
      BY <2>6 DEF Looked
    <3>3. Cardinality({m \in rep'.rd.finished : m > Len(rep'.ids)}) <= rep'.rd.builds
      BY <2>4, <2>5, <3>1, <3>2
    <3> QED
      BY <1>1, <1>3, <1>4, <2>5, <3>1, <3>2, <3>3
  <2>7. ASSUME NEW files \in Seq(File), files \in {b.files, <<>>}, "finished" \in b.done,
               Looked(h, addSuiteToRepoData([rep.rd EXCEPT !.builds = rep.rd.builds + 1],
                                            Suites(files))),
               rep'.missed = rep.missed
        PROVE  /\ \A k \in DOMAIN rep'.data : Recent(rep.data[k])'
               /\ Recent(rep.rd)'
               /\ Cardinality({m \in rep'.rd.finished : m > Len(rep'.ids)}) <= rep'.rd.builds
    <3> DEFINE after == addSuiteToRepoData([rep.rd EXCEPT !.builds = rep.rd.builds + 1],
                                           Suites(files))
    <3>1. InNew(rep.rd, h)
      <4>1. Cardinality(newer(h)) <= rep.rd.builds
        BY <2>5, <2>7
      <4>2. Cardinality(newer(h)) < buildsCount
        BY <2>1, <2>4, <4>1, PipelineAssumption
      <4> QED
        BY <4>2 DEF InNew
    <3>2. /\ after \in RepoDatas /\ Recent(after) /\ after.builds = rep.rd.builds + 1
          /\ after.finished = finished
      BY <2>1, <2>5, <2>7, <3>1, TakenBacked
    <3>3. rep'.rd = after /\ rep'.data = rep.data /\ Len(rep'.ids) = h - 1
      BY <2>7 DEF Looked
    <3> HIDE DEF after
    <3>4. Cardinality(newer(h - 1)) <= rep.rd.builds + 1
      BY <2>1, <2>4, <2>5, <2>7
    <3>5. Cardinality({m \in rep'.rd.finished : m > Len(rep'.ids)}) <= rep'.rd.builds
      BY <3>2, <3>3, <3>4
    <3> QED
      BY <1>3, <1>4, <2>7, <3>2, <3>3, <3>5
  <2>8. CASE Exits(rep, 1) \/ SkipJob([rep EXCEPT !.jobErr = TRUE])
    <3>1. rep'.data = rep.data /\ ~rep.missed /\ rep'.pc # "scan"
      BY <1>0, <2>8, ErrorFacts, ExitFacts DEF SkipJob
    <3> QED
      BY <1>4, <3>1
  <2> HIDE DEF h, j, b, finished, newer
  <2>9. \/ Exits(rep, 1) \/ SkipJob([rep EXCEPT !.jobErr = TRUE])
        \/ Looked(h, rep.rd) /\ rep'.missed = (rep.missed \/ "finished" \in b.done)
        \/ \E files \in Seq(File) :
              /\ files \in {b.files, <<>>} /\ "finished" \in b.done
              /\ Looked(h, addSuiteToRepoData([rep.rd EXCEPT !.builds = rep.rd.builds + 1],
                                              Suites(files)))
              /\ rep'.missed = rep.missed
    BY <1>7, LookFacts DEF h, b, j
  <2> QED
    BY <2>6, <2>7, <2>8, <2>9
<1>8. CASE CloseJob
  <2>1. CASE Closed(Append(rep.data, rep.rd), rep.without) /\ rep.pc = "scan"
    <3>1. rep'.data = Append(rep.data, rep.rd) /\ rep'.pc # "scan" /\ Recent(rep.rd) /\ ~rep.missed
      BY <2>1 DEF Closed, RecentInv
    <3>2. \A k \in DOMAIN rep'.data :
             \/ k \in DOMAIN rep.data /\ rep'.data[k] = rep.data[k]
             \/ rep'.data[k] = rep.rd
      BY <1>1, <3>1
    <3>3. \A k \in DOMAIN rep.data : Recent(rep.data[k])
      BY <3>1 DEF RecentInv
    <3> QED
      BY <1>1, <1>2, <3>1, <3>2, <3>3
  <2>2. CASE rep'.data = rep.data /\ ~rep.missed /\ rep'.pc # "scan"
    BY <1>4, <2>2
  <2> QED
    BY <1>0, <1>8, <2>1, <2>2, CloseFacts, ExitFacts DEF Closed
<1>9. CASE LaterStep
  <2>1. rep'.data = rep.data /\ ~rep.missed /\ rep'.pc # "scan"
    BY <1>0, <1>9, LaterFacts DEF Static
  <2> QED
    BY <1>4, <2>1
<1>10. CASE Start \/ UploadReports \/ Kill
  BY <1>0, <1>10, FreshFacts
<1> QED
  BY <1>5, <1>6, <1>7, <1>8, <1>9, <1>10, NextCases, OthersSame DEF vars

\* Old failures are forgotten: a test counts only for a build such that fewer than
\* buildsCount newer ones had finished, whatever starts and finishes while the reporter
\* looks at one build after the other.  The builds it has counted are at least as many as
\* the finished ones that are newer than what is left to look at.
THEOREM OldForgotten == Spec => []OldBuildsForgotten
<1>1. Init => RecentInv
  BY DEF Init, Idle, Process, RecentInv
<1>2. Shaped /\ Shaped' /\ DataInv /\ RecentInv /\ [Next]_vars => RecentInv'
  BY StepTypes, RecentKept
<1>3. RecentInv => OldBuildsForgotten
  <2> SUFFICES ASSUME RecentInv, ~rep.missed, NEW k \in DOMAIN rep.data
      PROVE  LET rd  == rep.data[k]
                 new == {n \in DOMAIN builds[JobConfigs[rd.job].name] :
                           Cardinality({m \in rd.finished : m > n}) < buildsCount}
             IN  \A status \in {"passed", "failed"} :
                   (IF status = "passed" THEN rd.passed ELSE rd.failed) \subseteq
                      UNION {UNION {With(f, status) :
                                f \in ToSet(builds[JobConfigs[rd.job].name][n].files)} : n \in new}
    BY DEF OldBuildsForgotten
  <2>1. Recent(rep.data[k])
    BY DEF RecentInv
  <2> DEFINE rd  == rep.data[k]
             new == {n \in DOMAIN builds[JobConfigs[rd.job].name] :
                       Cardinality({m \in rd.finished : m > n}) < buildsCount}
  <2>2. ASSUME NEW status, NEW t, SeenInNew(rd, status, t)
        PROVE  t \in UNION {UNION {With(f, status) :
                                f \in ToSet(builds[JobConfigs[rd.job].name][n].files)} : n \in new}
    <3> DEFINE tests(n) == UNION {With(f, status) :
                                    f \in ToSet(builds[JobConfigs[rd.job].name][n].files)}
    <3>1. PICK n \in new : \E f \in ToSet(builds[JobConfigs[rd.job].name][n].files) : t \in With(f, status)
      BY <2>2 DEF SeenInNew, InNew
    <3>2. t \in tests(n)
      BY <3>1
    <3> HIDE DEF tests, new
    <3>3. t \in UNION {tests(x) : x \in new}
      BY <3>1, <3>2
    <3> QED
      BY <3>3 DEF tests
  <2> HIDE DEF new
  <2> QED
    BY <2>1, <2>2 DEF Recent, new
<1> QED
  BY <1>1, <1>2, <1>3, ShapedInvariant, DataInvariant, PTL DEF Spec

-----------------------------------------------------------------------------
(* A retry is justified.                                                   *)

Justified(repo, t) ==
    \E i \in Configs : JobConfigs[i].repo = repo /\ t \in Seen(i, "failed") /\ t \in Seen(i, "passed")

\* The tests of a report have passed and failed, wherever the report is.
Fair(r) == \A t \in r.flaky : Justified(r.repo, t)

ReportsInv ==
    /\ \A n \in DOMAIN recorder : \A r \in recorder[n].reports : Fair(r)
    /\ \A r \in rep.dir : Fair(r)

\* So have the failed tests of the pull request that are no outliers.
RetryInv ==
    /\ ret.pc \in {"flaky", "post"} => ret.failed # {}
    /\ ret.pc = "post" => \A t \in ret.failed \ ret.outliers : Justified(PullRepo, t)

LEMMA JustifiedGrows ==
  ASSUME Grows, NEW repo, NEW t, Justified(repo, t)
  PROVE  Justified(repo, t)'
<1>1. PICK i \in Configs : JobConfigs[i].repo = repo /\ t \in Seen(i, "failed") /\ t \in Seen(i, "passed")
  BY DEF Justified
<1>2. t \in Seen(i, "failed")' /\ t \in Seen(i, "passed")'
  BY <1>1, SeenGrows
<1> QED
  BY <1>1, <1>2 DEF Justified

LEMMA FairGrows ==
  ASSUME Grows, NEW r, Fair(r)
  PROVE  Fair(r)'
  BY JustifiedGrows DEF Fair

\* What the reporter writes is fair.
LEMMA NewFair ==
  ASSUME Shaped, DataInv, NEW repo
  PROVE  Fair([repo |-> repo, flaky |-> getFlakyTestSet(rep.data, repo)])
<1>1. ASSUME NEW t \in getFlakyTestSet(rep.data, repo)
      PROVE  Justified(repo, t)
  <2>1. PICK k \in DOMAIN rep.data : /\ JobConfigs[rep.data[k].job].repo = repo
                                     /\ t \in rep.data[k].failed /\ t \in rep.data[k].passed
    BY FlakySetFacts
  <2>2. Backed(rep.data[k]) /\ rep.data[k] \in RepoDatas
    BY DataTypes DEF DataInv, Shaped
  <2>3. rep.data[k].job \in Configs
    BY <2>2 DEF RepoDatas
  <2> QED
    BY <2>1, <2>2, <2>3 DEF Backed, Justified
<1> QED
  BY <1>1 DEF Fair

\* A report comes to the directory from a goroutine only.
LEMMA DirFair ==
  ASSUME Shaped, DataInv, ReportsInv, [Next]_vars
  PROVE  \A r \in rep'.dir : Fair(r)
<1>0. TypeOK /\ WorkShape /\ rep \in Processes
  BY DEF Shaped, TypeOK
<1>1. \A r \in rep.dir : Fair(r)
  BY DEF ReportsInv
<1>2. CASE rep'.dir = rep.dir \/ rep'.dir = {}
  BY <1>1, <1>2
<1>3. \A code : Exits(rep, code) => rep'.dir = rep.dir
  BY <1>0, ExitFacts
<1>4. SkipJob([rep EXCEPT !.jobErr = TRUE]) => rep'.dir = rep.dir
  BY <1>0, ErrorFacts DEF SkipJob
<1>5. CASE OpenJob
  BY <1>0, <1>2, <1>4, <1>5, OpenFacts DEF Opened
<1>6. CASE LookAtBuild
  <2>1. \A h, rd : Looked(h, rd) => rep'.dir = rep.dir
    BY DEF Looked
  <2> QED
    BY <1>2, <1>3, <1>4, <1>6, <2>1, LookFacts
<1>7. CASE CloseJob
  BY <1>2, <1>3, <1>7, CloseFacts DEF Closed
<1>8. CASE Goroutines
  <2>1. CASE Exits(rep, 2)
    BY <1>2, <1>3, <2>1
  <2>2. ASSUME NEW t \in AllRepos \cup Channels,
               GoSucceeds(t) \/ GoAppends(t) \/ GoWrites(t) \/ GoSends(t)
        PROVE  \A r \in rep'.dir : Fair(r)
    <3>1. \/ rep'.dir = rep.dir
          \/ rep'.dir = rep.dir \cup {[repo |-> t, flaky |-> getFlakyTestSet(rep.data, t)]}
      BY <1>0, <1>8, <2>2, GoroutineFacts DEF GoSucceeds, GoAppends, GoWrites, GoSends
    <3> QED
      BY <1>1, <3>1, NewFair
  <2> QED
    BY <1>0, <1>8, <2>1, <2>2, GoroutineFacts
<1>9. CASE LaterStep /\ ~Goroutines
  BY <1>0, <1>2, <1>3, <1>9, StartReportsFacts, WrittenFacts, GitHubFacts, NotifyFacts,
     MessagesFacts, EndFacts DEF LaterStep
<1>10. CASE Start \/ UploadReports \/ Kill
  BY <1>0, <1>2, <1>10, FreshFacts
<1> QED
  BY <1>2, <1>5, <1>6, <1>7, <1>8, <1>9, <1>10, NextCases, OthersSame DEF vars

LEMMA ReportsKept ==
  ASSUME Shaped, DataInv, ReportsInv, [Next]_vars, TypeOK', Grows
  PROVE  ReportsInv'
<1>0. TypeOK /\ recorder \in Seq([day : Nat, reports : SUBSET Reports])
  BY DEF Shaped, TypeOK
<1>1. ASSUME NEW r \in rep'.dir
      PROVE  Fair(r)'
  BY <1>1, DirFair, FairGrows
<1>2. ASSUME NEW n \in DOMAIN recorder', NEW r \in recorder'[n].reports
      PROVE  Fair(r)
  <2>1. CASE UNCHANGED recorder
    BY <1>2, <2>1 DEF ReportsInv
  <2>2. CASE Start
    <3> DEFINE run == [day |-> day, reports |-> {}]
    <3>1. \/ recorder' = Append(recorder, run)
          \/ recorder' = recorder
      BY <2>2 DEF Start
    <3>2. run.reports = {}
      OBVIOUS
    <3> HIDE DEF run
    <3>3. \/ n \in DOMAIN recorder /\ recorder'[n] = recorder[n]
          \/ recorder'[n] = run
      BY <1>0, <1>2, <3>1
    <3> QED
      BY <1>2, <3>2, <3>3 DEF ReportsInv
  <2>3. CASE UploadReports
    <3>1. n \in DOMAIN recorder /\ recorder'[n].reports \in {recorder[n].reports, rep.dir}
      BY <1>0, <1>2, <2>3, UploadType
    <3> QED
      BY <1>2, <3>1 DEF ReportsInv
  <2> QED
    BY <2>1, <2>2, <2>3, NextCases, OthersSame DEF vars
<1>3. \A n \in DOMAIN recorder' : \A r \in recorder'[n].reports : Fair(r)'
  BY <1>2, FairGrows
<1>4. (\A r \in rep.dir : Fair(r))'
  BY <1>1
<1>5. (\A n \in DOMAIN recorder : \A r \in recorder[n].reports : Fair(r))'
  BY <1>3
<1> QED
  BY <1>4, <1>5 DEF ReportsInv

LEMMA RetryKept ==
  ASSUME Shaped, ReportsInv, RetryInv, [Next]_vars, TypeOK', Grows
  PROVE  RetryInv'
<1>0. TypeOK /\ PullShape /\ ret \in Handlers
  BY DEF Shaped, TypeOK, Handlers
<1>1. CASE UNCHANGED ret
  <2>1. \A t : Justified(PullRepo, t) => Justified(PullRepo, t)'
    BY JustifiedGrows
  <2> QED
    BY <1>1, <2>1 DEF RetryInv, Justified
<1>2. ret' = Handler => RetryInv'
  BY DEF RetryInv, Handler
<1>3. CASE Receive
  BY <1>3 DEF Receive, RetryInv, Handler
<1>4. CASE GetFailedTests
  <2>1. ASSUME NEW failed \in SUBSET AllTests, failed # {},
               ret' = [ret EXCEPT !.pc = "flaky", !.failed = failed]
        PROVE  RetryInv'
    BY <1>0, <2>1 DEF Handlers, RetryInv
  <2> QED
    BY <1>0, <1>2, <1>4, <2>1, FailedTestsRead
<1>5. CASE Compare
  <2>1. ret.failed # {} /\ UNCHANGED builds
    BY <1>5 DEF Compare, RetryInv, RetryerStep
  <2>2. ASSUME NEW flaky \in GetFlakyTests(PullRepo), flaky # ReadError,
               ret' = [ret EXCEPT !.pc = "post", !.outliers = getNonFlakyTests(ret.failed, flaky)]
        PROVE  RetryInv'
    <3> DEFINE outliers == getNonFlakyTests(ret.failed, flaky)
    <3>1. PICK n \in DOMAIN recorder : \E r \in recorder[n].reports :
               r.repo = PullRepo /\ flaky = r.flaky
      BY <1>0, <2>2, FlakyTestsRead, PipelineAssumption
    <3>2. \A t \in flaky : Justified(PullRepo, t)
      BY <3>1 DEF ReportsInv, Fair
    <3>3. \A t \in ret.failed \ outliers : t \in flaky
      BY DEF getNonFlakyTests
    <3> HIDE DEF outliers
    <3>4. ret' = [ret EXCEPT !.pc = "post", !.outliers = outliers]
      BY <2>2 DEF outliers
    <3>5. ret'.failed = ret.failed /\ ret'.outliers = outliers
      BY <1>0, <3>4 DEF Handlers
    <3>6. \A t \in ret'.failed \ ret'.outliers : Justified(PullRepo, t)'
      BY <3>2, <3>3, <3>5, JustifiedGrows
    <3> QED
      BY <2>1, <3>5, <3>6 DEF RetryInv
  <2>3. ret' = Handler
        \/ \E flaky \in GetFlakyTests(PullRepo) : flaky # ReadError
             /\ ret' = [ret EXCEPT !.pc = "post", !.outliers = getNonFlakyTests(ret.failed, flaky)]
    BY <1>5 DEF Compare
  <2> QED
    BY <1>2, <2>2, <2>3
<1>6. CASE Post
  BY <1>2, <1>6 DEF Post
<1> QED
  BY <1>1, <1>3, <1>4, <1>5, <1>6, NextCases, OthersSame DEF RetStep, vars

LEMMA InitReports == Init => ReportsInv /\ RetryInv
<1> SUFFICES ASSUME Init PROVE ReportsInv /\ RetryInv
  OBVIOUS
<1>1. /\ builds \in [JobNames -> Seq(BuildRecords)]
      /\ \A j \in JobNames : \A b \in ToSet(builds[j]) : "finished" \in b.done
  BY InitBuilds
<1>2. ASSUME NEW r \in EarlierReport(builds).reports, NEW t \in r.flaky
      PROVE  Justified(r.repo, t)
  <2>1. PICK i \in Configs :
              /\ JobConfigs[i].repo = r.repo
              /\ \A status \in {"passed", "failed"} :
                    \E b \in ToSet(builds[JobConfigs[i].name]) : \E f \in ToSet(b.files) :
                       t \in CasesWith(f, status)
    BY <1>1, <1>2, EarlierFacts
  <2>2. JobConfigs[i].name \in JobNames
    BY JobFacts
  <2>3. \A status \in {"passed", "failed"} : t \in Seen(i, status)
    BY <1>1, <2>1, <2>2 DEF Seen
  <2> QED
    BY <2>1, <2>3 DEF Justified
<1>3. recorder \in {<<>>, <<EarlierReport(builds)>>}
  BY DEF Init
<1>4. \A n \in DOMAIN recorder : recorder[n] = EarlierReport(builds)
  BY <1>3
<1>5. rep.dir = {} /\ ret.pc = "idle"
  BY DEF Init, Idle, Process, Handler
<1> QED
  BY <1>2, <1>4, <1>5 DEF ReportsInv, RetryInv, Fair

\* A job is retried only if each of its failed tests has both passed and failed in finished
\* builds of one continuous job of the repository: every report there is, in the directory
\* of the reporter or under a build of the recorder, names such tests only, whatever
\* was not read; builds and their results stay, so that it remains true.
THEOREM RetriesJustified == Spec => []RetryJustified
<1>1. Init => ReportsInv /\ RetryInv
  BY InitReports
<1>2. Shaped /\ DataInv /\ ReportsInv /\ RetryInv /\ [Next]_vars => ReportsInv' /\ RetryInv'
  BY StepTypes, ReportsKept, RetryKept
<1>3. RetryInv => RetryJustified
  BY DEF RetryInv, RetryJustified, Justified
<1> QED
  BY <1>1, <1>2, <1>3, ShapedInvariant, DataInvariant, PTL DEF Spec

-----------------------------------------------------------------------------
(* A success is complete: the results.                                     *)

Succeeded == rep.pc = "exit" /\ rep.code = 0

CollectInv ==
    /\ rep.next >= 1
    /\ rep.pc \in {"json", "github", "notify", "slack", "end"} => rep.next \notin Configs
    /\ Succeeded => rep.next \notin Configs /\ ~rep.jobErr
    /\ ~rep.missed /\ ~rep.jobErr =>
          \A i \in Configs : i < rep.next =>
              i \in rep.without \/ \E k \in DOMAIN rep.data : rep.data[k].job = i

\* A job without results in builds that were all read has no finished build.
LEMMA NothingFinished ==
  ASSUME Shaped, RecentInv, rep.pc = "scan", ~rep.missed, rep.rd.builds = 0,
         rep.ids = <<>> \/ rep.rd.builds = buildsCount
  PROVE  rep.rd.finished = {}
<1> DEFINE finished == rep.rd.finished
           j == JobConfigs[rep.next].name
<1>1. rep.ids = <<>> /\ Len(rep.ids) = 0
  BY PipelineAssumption
<1>2. j \in JobNames /\ \A n \in finished : n \in DOMAIN builds[j]
  BY JobFacts DEF Shaped, ScanShape
<1>3. finished \in SUBSET (1..Len(builds[j])) /\ Len(builds[j]) \in Nat
  BY <1>2, BuildFacts DEF Shaped
<1>4. IsFiniteSet(finished)
  <2>1. IsFiniteSet(1..Len(builds[j]))
    BY <1>3, FS_Interval
  <2> QED
    BY <1>3, <2>1, FS_Subset
<1>5. {m \in finished : m > Len(rep.ids)} = finished
  BY <1>1, <1>3
<1>6. Cardinality(finished) <= 0
  BY <1>5 DEF RecentInv
<1>7. Cardinality(finished) \in Nat
  BY <1>4, FS_CardinalityType
<1>8. Cardinality(finished) = 0
  BY <1>6, <1>7
<1> HIDE DEF finished
<1>9. finished = {}
  BY <1>4, <1>8, FS_EmptySet
<1> QED
  BY <1>9 DEF finished

LEMMA CollectKept ==
  ASSUME Shaped, RecentInv, CollectInv, [Next]_vars, TypeOK'
  PROVE  CollectInv'
<1>0. TypeOK /\ WorkShape /\ rep \in Processes /\ rep.next \in Nat /\ rep.next >= 1
  BY DEF Shaped, TypeOK, Processes, CollectInv
<1>1. CASE UNCHANGED rep
  BY <1>1 DEF CollectInv, Succeeded
<1>2. ASSUME rep'.pc \in {"collect", "scan"}, rep'.jobErr = TRUE, rep'.next = rep.next + 1
      PROVE  CollectInv'
  BY <1>0, <1>2 DEF CollectInv, Succeeded
<1>3. ASSUME rep'.pc \in {"collect", "scan"}, rep'.next = rep.next, rep'.data = rep.data,
             rep'.without = rep.without, rep'.jobErr = rep.jobErr, ~rep'.missed => ~rep.missed
      PROVE  CollectInv'
  BY <1>3 DEF CollectInv, Succeeded
<1>4. ASSUME NEW code \in {1, 2}, Exits(rep, code)
      PROVE  CollectInv'
  <2>1. /\ rep'.pc = "exit" /\ rep'.code # 0 /\ rep'.next = rep.next /\ rep'.data = rep.data
        /\ rep'.missed = rep.missed /\ rep'.jobErr = rep.jobErr /\ rep'.without = rep.without
    BY <1>0, <1>4, ExitFacts
  <2> QED
    BY <2>1 DEF CollectInv, Succeeded
<1>5. SkipJob([rep EXCEPT !.jobErr = TRUE]) => CollectInv'
  BY <1>0, <1>2, ErrorFacts DEF SkipJob
<1>6. CASE OpenJob
  BY <1>0, <1>3, <1>5, <1>6, OpenFacts DEF Opened
<1>7. CASE LookAtBuild
  <2>1. ASSUME NEW h, NEW rd, Looked(h, rd), ~rep'.missed => ~rep.missed
        PROVE  CollectInv'
    BY <1>3, <2>1 DEF Looked
  <2> QED
    BY <1>4, <1>5, <1>7, <2>1, LookFacts
<1>8. CASE CloseJob
  <2>1. rep.pc = "scan" /\ rep.next \in Configs /\ rep.rd.job = rep.next
        /\ (rep.ids = <<>> \/ rep.rd.builds = buildsCount)
    BY <1>8, CloseFacts DEF Shaped, ScanShape
  <2>2. ASSUME NEW data, NEW without, Closed(data, without),
               ~rep.missed => \A i \in Configs :
                  \/ i = rep.next
                  \/ i \in rep.without
                  \/ \E k \in DOMAIN rep.data : rep.data[k].job = i
                  => i \in without \/ \E k \in DOMAIN data : data[k].job = i
        PROVE  CollectInv'
    <3>1. \A i \in Configs : i < rep.next + 1 => i = rep.next \/ i < rep.next
      BY <1>0, JobFacts
    <3>2. /\ rep'.pc = "collect" /\ rep'.next = rep.next + 1 /\ rep'.data = data
          /\ rep'.without = without /\ rep'.missed = rep.missed /\ rep'.jobErr = rep.jobErr
      BY <2>2 DEF Closed
    <3>3. rep'.next >= 1
      BY <1>0, <3>2
    <3>4. ASSUME ~rep'.missed, ~rep'.jobErr, NEW i \in Configs, i < rep'.next
          PROVE  i \in without \/ \E k \in DOMAIN data : data[k].job = i
      BY <2>2, <3>1, <3>2, <3>4 DEF CollectInv
    <3> QED
      BY <3>2, <3>3, <3>4 DEF CollectInv, Succeeded
  <2>3. CASE Closed(Append(rep.data, rep.rd), rep.without)
    <3> DEFINE data == Append(rep.data, rep.rd)
    <3>1. /\ \A k \in DOMAIN rep.data : k \in DOMAIN data /\ data[k] = rep.data[k]
          /\ Len(rep.data) + 1 \in DOMAIN data /\ data[Len(rep.data) + 1] = rep.rd
      BY <1>0, DataTypes
    <3> HIDE DEF data
    <3>2. Closed(data, rep.without)
      BY <2>3 DEF data
    <3> QED
      BY <2>1, <2>2, <3>1, <3>2
  <2>4. CASE rep.rd.builds = 0 /\ Closed(rep.data, IF rep.rd.finished = {}
                                                   THEN rep.without \cup {rep.next}
                                                   ELSE rep.without)
    <3>1. ~rep.missed => rep.rd.finished = {}
      BY <2>1, <2>4, NothingFinished
    <3> DEFINE without == IF rep.rd.finished = {} THEN rep.without \cup {rep.next} ELSE rep.without
    <3>2. rep.without \subseteq without /\ (~rep.missed => rep.next \in without)
      BY <3>1
    <3>3. Closed(rep.data, without)
      BY <2>4
    <3> HIDE DEF without
    <3> QED
      BY <2>2, <3>2, <3>3
  <2> QED
    BY <1>4, <1>8, <2>3, <2>4, CloseFacts
<1>9. CASE LaterStep
  <2>1. /\ rep'.next = rep.next /\ rep'.data = rep.data /\ rep'.missed = rep.missed
        /\ rep'.jobErr = rep.jobErr /\ rep'.without = rep.without
        /\ rep.next \notin Configs
        /\ rep'.pc = "exit" /\ rep'.code = 0 => ~rep.jobErr
    BY <1>0, <1>9, LaterFacts DEF Static, CollectInv
  <2> QED
    BY <2>1 DEF CollectInv, Succeeded
<1>10. CASE Start \/ UploadReports \/ Kill
  <2>1. rep'.pc \in {"idle", "collect"} /\ rep'.next = 1
    BY <1>0, <1>10, FreshFacts
  <2>2. \A i \in Configs : ~(i < 1)
    BY JobFacts
  <2> QED
    BY <2>1, <2>2 DEF CollectInv, Succeeded
<1> QED
  BY <1>1, <1>6, <1>7, <1>8, <1>9, <1>10, NextCases, OthersSame DEF vars

-----------------------------------------------------------------------------
(* A success is complete: the errors.                                      *)

\* An error is in the slice once its length has been written, and stays there, because
\* whatever another goroutine writes is the length of a slice with an error.
ErrorKept(t) ==
    rep.work[t].pc = "append" =>
        rep.work[t].errs.len >= 1 /\ ("len" \notin rep.work[t].left => rep.errs.len >= 1)

ErrorsInv == rep.pc \in {"json", "slack"} => \A t \in AllRepos \cup Channels : ErrorKept(t)

Over(t) == rep.work[t].pc \in {"send", "done"}

LEMMA ErrorSteps ==
  ASSUME TypeOK, TypeOK', NEW t \in AllRepos \cup Channels, OthersWork(t),
         GoSucceeds(t) \/ GoAppends(t) \/ GoWrites(t) \/ GoSends(t),
         \A u \in AllRepos \cup Channels : ErrorKept(u)
  PROVE  /\ \A u \in AllRepos \cup Channels : ErrorKept(u)'
         /\ rep.errs.len >= 1 => rep'.errs.len >= 1
         /\ \A u \in AllRepos \cup Channels :
               Over(u)' => Over(u) \/ rep'.errs.len >= 1 \/ (u = t /\ GoSucceeds(t))
<1>1. /\ rep.work[t] \in Tasks /\ rep'.work[t] \in Tasks
      /\ rep.errs.len \in Nat /\ rep'.errs.len \in Nat /\ rep.work[t].errs.len \in Nat
  <2>1. rep.work[t] \in Tasks /\ rep'.work[t] \in Tasks /\ rep.errs \in Errors /\ rep'.errs \in Errors
    BY DEF TypeOK, Processes
  <2>2. rep.work[t].errs \in Errors
    BY <2>1 DEF Tasks
  <2> QED
    BY <2>1, <2>2 DEF Errors
<1>2. CASE GoSucceeds(t)
  BY <1>2 DEF GoSucceeds, OthersWork, ErrorKept, Over
<1>3. CASE GoAppends(t)
  BY <1>3 DEF GoAppends, OthersWork, ErrorKept, Over
<1>4. CASE GoSends(t)
  BY <1>4 DEF GoSends, OthersWork, ErrorKept, Over
<1>5. CASE GoWrites(t)
  <2>1. PICK field \in rep.work[t].left :
          /\ rep'.work[t].left = rep.work[t].left \ {field}
          /\ rep'.work[t].pc = IF rep'.work[t].left = {} THEN "send" ELSE "append"
          /\ rep'.errs.len = IF field = "len" THEN rep.work[t].errs.len ELSE rep.errs.len
    BY <1>5 DEF GoWrites
  <2>2. /\ rep.work[t].pc = "append" /\ rep'.work[t].errs = rep.work[t].errs
        /\ rep.work[t].errs.len >= 1
        /\ "len" \notin rep.work[t].left => rep.errs.len >= 1
    BY <1>5 DEF GoWrites, ErrorKept
  <2>3. rep.errs.len >= 1 => rep'.errs.len >= 1
    BY <1>1, <2>1, <2>2
  <2>4. "len" \notin rep'.work[t].left => rep'.errs.len >= 1
    BY <1>1, <2>1, <2>2
  <2>5. ErrorKept(t)'
    BY <2>2, <2>4 DEF ErrorKept
  <2>6. \A u \in AllRepos \cup Channels : u # t => ErrorKept(u)' /\ (Over(u)' => Over(u))
    BY <2>3 DEF ErrorKept, OthersWork, Over
  <2>7. Over(t)' => rep'.errs.len >= 1
    BY <2>1, <2>4 DEF Over
  <2> QED
    BY <2>3, <2>5, <2>6, <2>7
<1> QED
  BY <1>2, <1>3, <1>4, <1>5

LEMMA ErrorsKept ==
  ASSUME Shaped, ErrorsInv, [Next]_vars, TypeOK'
  PROVE  ErrorsInv'
<1>0. TypeOK /\ WorkShape /\ rep \in Processes
  BY DEF Shaped, TypeOK
<1>1. CASE UNCHANGED rep
  BY <1>1 DEF ErrorsInv, ErrorKept
<1>2. CASE rep'.pc \notin {"json", "slack"}
  BY <1>2 DEF ErrorsInv
<1>3. ASSUME NEW tasks, rep'.work = Go(tasks)
      PROVE  ErrorsInv'
  <2>1. \A t \in AllRepos \cup Channels : rep'.work[t].pc # "append"
    BY <1>3, GoTasks
  <2> QED
    BY <2>1 DEF ErrorsInv, ErrorKept
<1>4. \A code : Exits(rep, code) => rep'.pc \notin {"json", "slack"}
  BY <1>0, ExitFacts
<1>5. CASE OpenJob \/ LookAtBuild \/ CloseJob \/ Start \/ UploadReports \/ Kill
  BY <1>0, <1>2, <1>4, <1>5, OpenFacts, LookFacts, CloseFacts, FreshFacts
  DEF Opened, SkipJob, Looked, Closed
<1>6. CASE StartReports
  BY <1>0, <1>3, <1>6, StartReportsFacts
<1>7. CASE Goroutines
  <2>1. CASE Exits(rep, 2)
    BY <1>2, <1>4, <2>1
  <2>2. ASSUME NEW t \in AllRepos \cup Channels, GoFrame, OthersWork(t),
               GoSucceeds(t) \/ GoAppends(t) \/ GoWrites(t) \/ GoSends(t)
        PROVE  ErrorsInv'
    <3>1. \A u \in AllRepos \cup Channels : ErrorKept(u)
      BY <1>0, <1>7, GoroutineFacts DEF ErrorsInv
    <3>2. \A u \in AllRepos \cup Channels : ErrorKept(u)'
      BY <1>0, <2>2, <3>1, ErrorSteps
    <3> QED
      BY <3>2 DEF ErrorsInv
  <2> QED
    BY <1>0, <1>7, <2>1, <2>2, GoroutineFacts
<1>8. CASE ReportsWritten \/ GitHub \/ End
  BY <1>0, <1>2, <1>4, <1>8, WrittenFacts, GitHubFacts, EndFacts
<1>9. CASE Notify
  <2>1. rep'.work = NoTasks
    BY <1>0, <1>9, NotifyFacts DEF WorkShape
  <2> QED
    BY <1>3, <2>1 DEF NoTasks
<1>10. CASE NextMessages
  BY <1>0, <1>2, <1>3, <1>4, <1>10, MessagesFacts
<1> QED
  BY <1>1, <1>5, <1>6, <1>7, <1>8, <1>9, <1>10, NextCases, OthersSame DEF LaterStep, vars

LEMMA EarlySteps ==
  ASSUME Shaped, OpenJob \/ LookAtBuild \/ CloseJob \/ Start \/ UploadReports \/ Kill
  PROVE  /\ rep'.pc \in {"idle", "collect", "scan"} \/ (rep'.pc = "exit" /\ rep'.code # 0)
         /\ rep'.pc \in {"collect", "scan"} =>
               ~rep'.issues \/ (rep.pc \in {"collect", "scan"} /\ rep'.issues = rep.issues)
<1>0. TypeOK /\ rep \in Processes
  BY DEF Shaped, TypeOK
<1> DEFINE goal == /\ rep'.pc \in {"idle", "collect", "scan"} \/ (rep'.pc = "exit" /\ rep'.code # 0)
                   /\ rep'.pc \in {"collect", "scan"} =>
                         ~rep'.issues \/ (rep.pc \in {"collect", "scan"} /\ rep'.issues = rep.issues)
<1>1. ASSUME Exits(rep, 1)
      PROVE  goal
  BY <1>0, <1>1, ExitFacts
<1>2. ASSUME rep.pc \in {"collect", "scan"}, SkipJob([rep EXCEPT !.jobErr = TRUE])
      PROVE  goal
  <2>1. [rep EXCEPT !.jobErr = TRUE].issues = rep.issues
    BY <1>0 DEF Processes
  <2> QED
    BY <1>2, <2>1 DEF SkipJob
<1>3. CASE OpenJob
  <2>1. rep.pc = "collect" /\ (Opened \/ SkipJob([rep EXCEPT !.jobErr = TRUE]))
    BY <1>0, <1>3, OpenFacts
  <2>2. CASE Opened
    <3>1. rep'.pc = "scan" /\ rep'.issues = rep.issues
      BY <2>2 DEF Opened
    <3> QED
      BY <2>1, <3>1
  <2> QED
    BY <1>2, <2>1, <2>2
<1>4. CASE LookAtBuild
  <2>1. /\ rep.pc = "scan"
        /\ \/ Exits(rep, 1) \/ SkipJob([rep EXCEPT !.jobErr = TRUE]) \/ \E h, rd : Looked(h, rd)
    BY <1>4, LookFacts
  <2>2. ASSUME NEW h, NEW rd, Looked(h, rd)
        PROVE  goal
    BY <2>1, <2>2 DEF Looked
  <2> QED
    BY <1>1, <1>2, <2>1, <2>2
<1>5. CASE CloseJob
  <2>1. /\ rep.pc = "scan"
        /\ Exits(rep, 1) \/ \E data, without : Closed(data, without)
    BY <1>5, CloseFacts
  <2>2. ASSUME NEW data, NEW without, Closed(data, without)
        PROVE  goal
    BY <2>1, <2>2 DEF Closed
  <2> QED
    BY <1>1, <2>1, <2>2
<1>6. CASE Start \/ UploadReports \/ Kill
  BY <1>0, <1>6, FreshFacts
<1> QED
  BY <1>3, <1>4, <1>5, <1>6

-----------------------------------------------------------------------------
(* A success is complete: the reports.                                     *)

RepoOf(k) == JobConfigs[rep.data[k].job].repo

Reported(k) ==
    \E r \in rep.dir : r.repo = RepoOf(k) /\ getFlakyTests(rep.data[k]) \subseteq r.flaky

ReportedInv ==
    /\ rep.pc = "json" => \A k \in DOMAIN rep.data :
          /\ rep.work[RepoOf(k)].pc # "none"
          /\ Over(RepoOf(k)) => Reported(k) \/ rep.errs.len >= 1
    /\ rep.pc \in {"github", "notify", "slack", "end"} \/ Succeeded =>
          rep.jsonErr \/ \A k \in DOMAIN rep.data : Reported(k)
    /\ Succeeded => ~rep.jsonErr /\ ~rep.slackErr

LEMMA RepoOfType ==
  ASSUME TypeOK, NEW k \in DOMAIN rep.data
  PROVE  RepoOf(k) \in AllRepos /\ rep.data[k].job \in Configs
<1>1. rep.data[k] \in RepoDatas
  BY DataTypes
<1>2. rep.data[k].job \in Configs
  BY <1>1 DEF RepoDatas
<1> QED
  BY <1>2, JobFacts DEF RepoOf

LEMMA ReportedStays ==
  ASSUME rep'.data = rep.data, rep.dir \subseteq rep'.dir, NEW k, Reported(k)
  PROVE  Reported(k)'
  BY DEF Reported, RepoOf

LEMMA ReportedKept ==
  ASSUME Shaped, ErrorsInv, ReportedInv, [Next]_vars, TypeOK'
  PROVE  ReportedInv'
<1>0. TypeOK /\ WorkShape /\ rep \in Processes
  BY DEF Shaped, TypeOK
<1>1. CASE UNCHANGED rep
  BY <1>1 DEF ReportedInv, Reported, RepoOf, Over, Succeeded
<1>2. CASE rep'.pc \in {"idle", "collect", "scan"} \/ (rep'.pc = "exit" /\ rep'.code # 0)
  BY <1>2 DEF ReportedInv, Succeeded
<1>3. \A code : Exits(rep, code) => rep'.pc = "exit" /\ rep'.code = code
  BY <1>0, ExitFacts
<1>4. CASE OpenJob \/ LookAtBuild \/ CloseJob \/ Start \/ UploadReports \/ Kill
  BY <1>2, <1>4, EarlySteps
<1>5. CASE StartReports
  <2>1. rep'.pc = "json" /\ rep'.work = Go(Repos(rep.data)) /\ rep'.data = rep.data
    BY <1>0, <1>5, StartReportsFacts DEF Static
  <2>2. ASSUME NEW k \in DOMAIN rep.data
        PROVE  Go(Repos(rep.data))[RepoOf(k)].pc = "run"
    <3>1. RepoOf(k) \in Repos(rep.data) /\ RepoOf(k) \in AllRepos
      BY <1>0, RepoOfType DEF Repos, RepoOf
    <3> QED
      BY <3>1, GoTasks
  <2>3. \A k \in DOMAIN rep'.data : rep'.work[RepoOf(k)'].pc = "run"
    BY <2>1, <2>2 DEF RepoOf
  <2> QED
    BY <2>1, <2>3 DEF ReportedInv, Over, Succeeded
<1>6. CASE Goroutines
  <2>1. CASE Exits(rep, 2)
    BY <1>2, <1>3, <2>1
  <2>2. ASSUME NEW t \in AllRepos \cup Channels, GoFrame, OthersWork(t),
               GoSucceeds(t) \/ GoAppends(t) \/ GoWrites(t) \/ GoSends(t)
        PROVE  ReportedInv'
    <3>1. /\ rep.pc \in {"json", "slack"} /\ rep'.pc = rep.pc /\ rep'.data = rep.data
          /\ rep'.jsonErr = rep.jsonErr
      BY <1>0, <1>6, <2>2, GoroutineFacts DEF GoFrame
    <3>2. rep.dir \subseteq rep'.dir
      BY <2>2 DEF GoSucceeds, GoAppends, GoWrites, GoSends
    <3>3. \A u \in AllRepos \cup Channels : ErrorKept(u)
      BY <3>1 DEF ErrorsInv
    <3>4. /\ rep.errs.len >= 1 => rep'.errs.len >= 1
          /\ \A u \in AllRepos \cup Channels :
               Over(u)' => Over(u) \/ rep'.errs.len >= 1 \/ (u = t /\ GoSucceeds(t))
      BY <1>0, <2>2, <3>3, ErrorSteps
    <3>5. \A k : Reported(k) => Reported(k)'
      BY <3>1, <3>2, ReportedStays
    <3>6. CASE rep.pc = "json"
      <4>1. ASSUME NEW k \in DOMAIN rep.data
            PROVE  /\ rep'.work[RepoOf(k)].pc # "none"
                   /\ Over(RepoOf(k))' => Reported(k)' \/ rep'.errs.len >= 1
        <5>0. RepoOf(k) \in AllRepos \cup Channels /\ RepoOf(k)' = RepoOf(k)
          BY <1>0, <3>1, RepoOfType DEF RepoOf
        <5>1. rep'.work[RepoOf(k)].pc # "none"
          <6>1. CASE RepoOf(k) = t
            <7>1. rep'.work[t].pc # "none"
              BY <2>2 DEF GoSucceeds, GoAppends, GoWrites, GoSends
            <7> QED
              BY <6>1, <7>1
          <6>2. CASE RepoOf(k) # t
            BY <2>2, <3>6, <5>0, <6>2 DEF OthersWork, ReportedInv
          <6> QED
            BY <6>1, <6>2
        <5>2. CASE RepoOf(k) = t /\ GoSucceeds(t)
          <6> DEFINE r == [repo |-> t, flaky |-> getFlakyTestSet(rep.data, t)]
          <6>1. r \in rep'.dir
            BY <3>6, <5>2 DEF GoSucceeds
          <6>2. getFlakyTests(rep.data[k]) \subseteq getFlakyTestSet(rep.data, t)
            BY <5>2 DEF getFlakyTestSet, RepoOf
          <6>3. r.repo = RepoOf(k)' /\ getFlakyTests(rep'.data[k]) \subseteq r.flaky
            BY <3>1, <5>0, <5>2, <6>2
          <6>4. Reported(k)'
            BY <6>1, <6>3 DEF Reported
          <6> QED
            BY <5>1, <6>4
        <5>3. CASE ~(RepoOf(k) = t /\ GoSucceeds(t))
          <6>1. Over(RepoOf(k))' => Over(RepoOf(k)) \/ rep'.errs.len >= 1
            BY <3>4, <5>0, <5>3 DEF Over
          <6>2. Over(RepoOf(k)) => Reported(k) \/ rep.errs.len >= 1
            BY <3>6 DEF ReportedInv
          <6> QED
            BY <3>4, <3>5, <5>1, <6>1, <6>2
        <5> QED
          BY <5>2, <5>3
      <4>2. \A k \in DOMAIN rep'.data : RepoOf(k)' = RepoOf(k)
        BY <3>1 DEF RepoOf
      <4> QED
        BY <3>1, <3>6, <4>1, <4>2 DEF ReportedInv, Succeeded, Over
    <3>7. CASE rep.pc = "slack"
      BY <3>1, <3>5, <3>7 DEF ReportedInv, Succeeded
    <3> QED
      BY <3>1, <3>6, <3>7
  <2> QED
    BY <1>0, <1>6, <2>1, <2>2, GoroutineFacts
<1>7. CASE ReportsWritten
  <2>1. CASE Exits(rep, 2)
    BY <1>2, <1>3, <2>1
  <2>2. CASE /\ rep'.pc \in {"end", "github"} /\ Static
             /\ rep'.jsonErr = SomeErr(rep.errs) /\ rep'.dir = rep.dir
    <3>1. ASSUME ~rep'.jsonErr, NEW k \in DOMAIN rep.data
          PROVE  Reported(k)'
      <4>1. RepoOf(k) \in AllRepos \cup Channels /\ rep.pc = "json" /\ AllDone
        BY <1>0, <1>7, RepoOfType, WrittenFacts
      <4>2. rep.work[RepoOf(k)].pc \in {"none", "done"}
        BY <1>0, <4>1 DEF AllDone, Processes
      <4>3. Reported(k) \/ rep.errs.len >= 1
        BY <4>1, <4>2 DEF ReportedInv, Over
      <4>4. rep.errs.len \in Nat /\ ~(rep.errs.len > 0)
        BY <1>0, <2>2, <3>1 DEF SomeErr, Processes, Errors
      <4>5. Reported(k)
        BY <4>3, <4>4
      <4> QED
        BY <2>2, <4>5, ReportedStays DEF Static
    <3> QED
      BY <2>2, <3>1 DEF ReportedInv, Succeeded, Static
  <2> QED
    BY <1>0, <1>7, <2>1, <2>2, WrittenFacts
<1>8. ASSUME rep.pc \in {"github", "notify", "slack"}, rep'.data = rep.data,
             rep'.dir = rep.dir, rep'.jsonErr = rep.jsonErr,
             rep'.pc \in {"notify", "slack", "end"}
      PROVE  ReportedInv'
  <2>1. \A k : Reported(k) => Reported(k)'
    BY <1>8, ReportedStays
  <2> QED
    BY <1>8, <2>1 DEF ReportedInv, Succeeded
<1>9. CASE GitHub \/ Notify
  <2>1. CASE Exits(rep, 1)
    BY <1>2, <1>3, <2>1
  <2> QED
    BY <1>0, <1>8, <1>9, <2>1, GitHubFacts, NotifyFacts DEF Static
<1>10. CASE NextMessages
  BY <1>0, <1>2, <1>3, <1>8, <1>10, MessagesFacts DEF Static
<1>11. CASE End
  <2>1. /\ rep.pc = "end" /\ rep'.pc = "exit" /\ rep'.code = ExitCode
        /\ rep'.data = rep.data /\ rep'.dir = rep.dir
        /\ rep'.jsonErr = rep.jsonErr /\ rep'.slackErr = rep.slackErr
        /\ ExitCode = 0 => ~rep.jobErr /\ ~rep.jsonErr /\ ~rep.slackErr
    BY <1>0, <1>11, EndFacts, ExitFacts
  <2>2. \A k : Reported(k) => Reported(k)'
    BY <2>1, ReportedStays
  <2> QED
    BY <2>1, <2>2 DEF ReportedInv, Succeeded
<1> QED
  BY <1>1, <1>4, <1>5, <1>6, <1>7, <1>9, <1>10, <1>11, NextCases, OthersSame DEF LaterStep, vars

-----------------------------------------------------------------------------
(* A success is complete: what Slack is told.                              *)

ChannelsOf(k) == JobConfigs[rep.data[k].job].channels

Told(k, channel) == [channel |-> channel, job |-> rep.data[k].job] \in rep.posted

ToldAll(k) == \A channel \in ChannelsOf(k) : Told(k, channel)

ToldInv ==
    /\ rep.pc \in {"collect", "scan", "json"} => ~rep.issues
    /\ rep.pc = "slack" =>
          /\ \A q \in DOMAIN rep.data : q < rep.k => ToldAll(q) \/ rep.errs.len >= 1
          /\ rep.k # 0 => \A channel \in ChannelsOf(rep.k) :
                /\ rep.work[channel].pc # "none"
                /\ Over(channel) => Told(rep.k, channel) \/ rep.errs.len >= 1
    /\ rep.pc = "end" \/ Succeeded =>
          rep.slackErr \/ ~rep.issues \/ \A q \in DOMAIN rep.data : ToldAll(q)

LEMMA ToldStays ==
  ASSUME rep'.data = rep.data, rep.posted \subseteq rep'.posted, NEW k, ToldAll(k)
  PROVE  ToldAll(k)'
  BY DEF ToldAll, Told, ChannelsOf

LEMMA ChannelsType ==
  ASSUME TypeOK, NEW k \in DOMAIN rep.data
  PROVE  ChannelsOf(k) \subseteq Channels
  BY RepoOfType, JobFacts DEF ChannelsOf

\* Of the jobs up to the one whose goroutines are over, each has been told, or has failed.
LEMMA ToldUpTo ==
  ASSUME TypeOK, WorkShape, ToldInv, rep.pc = "slack", AllDone,
         NEW q \in DOMAIN rep.data, q <= rep.k
  PROVE  ToldAll(q) \/ rep.errs.len >= 1
<1>0. DOMAIN rep.data = 1..Len(rep.data) /\ Len(rep.data) \in Nat /\ rep.k \in Nat
  BY DEF TypeOK, Processes
<1>1. CASE q < rep.k
  BY <1>1 DEF ToldInv
<1>2. CASE q = rep.k
  <2>1. rep.k # 0
    BY <1>0, <1>2
  <2>2. ASSUME NEW channel \in ChannelsOf(q)
        PROVE  Told(q, channel) \/ rep.errs.len >= 1
    <3>1. channel \in AllRepos \cup Channels
      BY ChannelsType
    <3>2. rep.work[channel].pc \in {"none", "done"}
      BY <3>1 DEF AllDone, TypeOK, Processes
    <3>3. Over(channel)
      BY <1>2, <2>1, <3>2 DEF ToldInv, Over
    <3> QED
      BY <1>2, <2>1, <3>3 DEF ToldInv
  <2> QED
    BY <2>2 DEF ToldAll
<1> QED
  BY <1>0, <1>1, <1>2

LEMMA ToldKept ==
  ASSUME Shaped, ErrorsInv, ToldInv, [Next]_vars, TypeOK'
  PROVE  ToldInv'
<1>0. TypeOK /\ WorkShape /\ rep \in Processes
  BY DEF Shaped, TypeOK
<1>1. CASE UNCHANGED rep
  BY <1>1 DEF ToldInv, ToldAll, Told, ChannelsOf, Over, Succeeded
<1>2. CASE rep'.pc \in {"idle", "github", "notify"} \/ (rep'.pc = "exit" /\ rep'.code # 0)
  BY <1>2 DEF ToldInv, Succeeded
<1>3. \A code : Exits(rep, code) => rep'.pc = "exit" /\ rep'.code = code
  BY <1>0, ExitFacts
<1>4. CASE OpenJob \/ LookAtBuild \/ CloseJob \/ Start \/ UploadReports \/ Kill
  <2>1. CASE rep'.pc \in {"collect", "scan"}
    <3>1. ~rep'.issues
      BY <1>4, <2>1, EarlySteps DEF ToldInv
    <3> QED
      BY <2>1, <3>1 DEF ToldInv, Succeeded
  <2> QED
    BY <1>2, <1>4, <2>1, EarlySteps
<1>5. CASE StartReports
  <2>1. rep.pc = "collect" /\ rep'.pc = "json" /\ rep'.issues = rep.issues
    BY <1>0, <1>5, StartReportsFacts
  <2> QED
    BY <2>1 DEF ToldInv, Succeeded
<1>6. CASE Goroutines
  <2>1. CASE Exits(rep, 2)
    BY <1>2, <1>3, <2>1
  <2>2. ASSUME NEW t \in AllRepos \cup Channels, GoFrame, OthersWork(t),
               GoSucceeds(t) \/ GoAppends(t) \/ GoWrites(t) \/ GoSends(t)
        PROVE  ToldInv'
    <3>1. /\ rep.pc \in {"json", "slack"} /\ rep'.pc = rep.pc /\ rep'.data = rep.data
          /\ rep'.k = rep.k /\ rep'.issues = rep.issues
      BY <1>0, <1>6, <2>2, GoroutineFacts DEF GoFrame
    <3>2. rep.posted \subseteq rep'.posted
      BY <2>2 DEF GoSucceeds, GoAppends, GoWrites, GoSends
    <3>3. \A u \in AllRepos \cup Channels : ErrorKept(u)
      BY <3>1 DEF ErrorsInv
    <3>4. /\ rep.errs.len >= 1 => rep'.errs.len >= 1
          /\ \A u \in AllRepos \cup Channels :
               Over(u)' => Over(u) \/ rep'.errs.len >= 1 \/ (u = t /\ GoSucceeds(t))
      BY <1>0, <2>2, <3>3, ErrorSteps
    <3>5. \A q : ToldAll(q) => ToldAll(q)'
      BY <3>1, <3>2, ToldStays
    <3>6. CASE rep.pc = "json"
      BY <3>1, <3>6 DEF ToldInv, Succeeded
    <3>7. CASE rep.pc = "slack"
      <4>1. ASSUME NEW q \in DOMAIN rep.data, q < rep.k
            PROVE  ToldAll(q)' \/ rep'.errs.len >= 1
        BY <3>4, <3>5, <3>7, <4>1 DEF ToldInv
      <4>2. ASSUME rep.k # 0, NEW channel \in ChannelsOf(rep.k)
            PROVE  /\ rep'.work[channel].pc # "none"
                   /\ Over(channel)' => Told(rep.k, channel)' \/ rep'.errs.len >= 1
        <5>0. rep.k \in DOMAIN rep.data
          BY <1>0, <3>7, <4>2 DEF WorkShape, Processes
        <5>1. channel \in AllRepos \cup Channels
          BY <1>0, <4>2, <5>0, ChannelsType
        <5>2. rep'.work[channel].pc # "none"
          <6>1. CASE channel = t
            <7>1. rep'.work[t].pc # "none"
              BY <2>2 DEF GoSucceeds, GoAppends, GoWrites, GoSends
            <7> QED
              BY <6>1, <7>1
          <6>2. CASE channel # t
            BY <2>2, <3>7, <4>2, <5>1, <6>2 DEF OthersWork, ToldInv
          <6> QED
            BY <6>1, <6>2
        <5>3. Told(rep.k, channel) => Told(rep.k, channel)'
          BY <3>1, <3>2 DEF Told
        <5>4. CASE channel = t /\ GoSucceeds(t)
          <6>1. Message(t) \in rep'.posted
            BY <3>7, <5>4 DEF GoSucceeds
          <6>2. Told(rep.k, channel)'
            BY <3>1, <5>4, <6>1 DEF Told, Message
          <6> QED
            BY <5>2, <6>2
        <5>5. CASE ~(channel = t /\ GoSucceeds(t))
          <6>1. Over(channel)' => Over(channel) \/ rep'.errs.len >= 1
            BY <3>4, <5>1, <5>5
          <6>2. Over(channel) => Told(rep.k, channel) \/ rep.errs.len >= 1
            BY <3>7, <4>2 DEF ToldInv
          <6> QED
            BY <3>4, <5>2, <5>3, <6>1, <6>2
        <5> QED
          BY <5>4, <5>5
      <4>3. ChannelsOf(rep.k)' = ChannelsOf(rep.k)
        BY <3>1 DEF ChannelsOf
      <4>4. \A channel : Told(rep.k, channel)' <=> [channel |-> channel, job |-> rep.data[rep.k].job] \in rep'.posted
        BY <3>1 DEF Told
      <4> QED
        BY <3>1, <3>7, <4>1, <4>2, <4>3, <4>4 DEF ToldInv, Succeeded
    <3> QED
      BY <3>1, <3>6, <3>7
  <2> QED
    BY <1>0, <1>6, <2>1, <2>2, GoroutineFacts
<1>7. CASE ReportsWritten
  <2>1. CASE Exits(rep, 2)
    BY <1>2, <1>3, <2>1
  <2>2. CASE rep'.pc = "end" /\ rep'.issues = rep.issues
    <3>1. ~rep'.issues
      BY <1>0, <1>7, <2>2, WrittenFacts DEF ToldInv
    <3> QED
      BY <2>2, <3>1 DEF ToldInv, Succeeded
  <2> QED
    BY <1>0, <1>2, <1>7, <2>1, <2>2, WrittenFacts
<1>8. CASE GitHub
  BY <1>0, <1>2, <1>3, <1>8, GitHubFacts
<1>9. CASE Notify
  <2>1. CASE rep'.pc = "end" /\ (~rep'.issues \/ rep'.slackErr)
    BY <2>1 DEF ToldInv, Succeeded
  <2>2. CASE rep'.pc = "slack"
    <3>1. rep'.k = 0 /\ rep'.data = rep.data
      BY <1>0, <1>9, NotifyFacts DEF WorkShape, Static
    <3>2. \A q \in DOMAIN rep'.data : ~(q < rep'.k)
      BY <1>0, <3>1 DEF Processes
    <3> QED
      BY <2>2, <3>1, <3>2 DEF ToldInv, Succeeded
  <2> QED
    BY <1>0, <1>9, <2>1, <2>2, NotifyFacts
<1>10. CASE NextMessages
  <2>0. rep.pc = "slack" /\ AllDone
    BY <1>0, <1>10, MessagesFacts
  <2>1. CASE Exits(rep, 2)
    BY <1>2, <1>3, <2>1
  <2>2. CASE /\ rep.k < Len(rep.data) /\ rep'.pc = "slack" /\ rep'.data = rep.data
             /\ rep'.work = Go(JobConfigs[rep.data[rep.k + 1].job].channels)
             /\ rep'.k = rep.k + 1 /\ rep'.errs = rep.errs /\ rep'.posted = rep.posted
    <3>0. /\ DOMAIN rep.data = 1..Len(rep.data) /\ Len(rep.data) \in Nat /\ rep.k \in Nat
          /\ rep.k + 1 \in DOMAIN rep.data
      BY <1>0, <2>2 DEF Processes
    <3>1. ASSUME NEW q \in DOMAIN rep.data, q < rep.k + 1
          PROVE  ToldAll(q)' \/ rep'.errs.len >= 1
      <4>1. q <= rep.k
        BY <3>0, <3>1
      <4> QED
        BY <1>0, <2>0, <2>2, <4>1, ToldUpTo, ToldStays
    <3>2. ASSUME NEW channel \in ChannelsOf(rep.k + 1)
          PROVE  rep'.work[channel].pc = "run"
      <4>1. channel \in AllRepos \cup Channels
        BY <1>0, <3>0, ChannelsType
      <4> QED
        BY <2>2, <3>2, <4>1, GoTasks DEF ChannelsOf
    <3>3. ChannelsOf(rep.k)' = ChannelsOf(rep.k + 1)
      BY <2>2 DEF ChannelsOf
    <3> QED
      BY <2>2, <3>1, <3>2, <3>3 DEF ToldInv, Over, Succeeded
  <2>3. CASE /\ ~(rep.k < Len(rep.data)) /\ rep'.pc = "end" /\ rep'.data = rep.data
             /\ rep'.slackErr = SomeErr(rep.errs) /\ rep'.posted = rep.posted
    <3>1. ASSUME ~rep'.slackErr, NEW q \in DOMAIN rep.data
          PROVE  ToldAll(q)'
      <4>1. q <= rep.k
        BY <1>0, <2>3 DEF Processes
      <4>2. rep.errs.len \in Nat /\ ~(rep.errs.len > 0)
        BY <1>0, <2>3, <3>1 DEF SomeErr, Processes, Errors
      <4>3. ToldAll(q)
        BY <1>0, <2>0, <4>1, <4>2, ToldUpTo
      <4> QED
        BY <2>3, <4>3, ToldStays
    <3> QED
      BY <2>3, <3>1 DEF ToldInv, Succeeded
  <2> QED
    BY <1>0, <1>10, <2>1, <2>2, <2>3, MessagesFacts DEF Static
<1>11. CASE End
  <2>1. /\ rep.pc = "end" /\ rep'.pc = "exit"
        /\ rep'.data = rep.data /\ rep'.posted = rep.posted
        /\ rep'.issues = rep.issues /\ rep'.slackErr = rep.slackErr
    BY <1>0, <1>11, EndFacts, ExitFacts
  <2>2. \A q : ToldAll(q) => ToldAll(q)'
    BY <2>1, ToldStays
  <2> QED
    BY <2>1, <2>2 DEF ToldInv, Succeeded
<1> QED
  BY <1>1, <1>4, <1>5, <1>6, <1>7, <1>8, <1>9, <1>10, <1>11, NextCases, OthersSame DEF LaterStep, vars

-----------------------------------------------------------------------------
(* A success is complete.                                                  *)

SuccessInv == CollectInv /\ ErrorsInv /\ ReportedInv /\ ToldInv

LEMMA SuccessInit == Init => SuccessInv
<1> SUFFICES ASSUME Init
    PROVE  SuccessInv
  OBVIOUS
<1>1. rep.pc = "idle" /\ rep.next = 1
  BY DEF Init, Idle, Process
<1>2. \A i \in Configs : ~(i < rep.next)
  BY <1>1, JobFacts
<1> QED
  BY <1>1, <1>2 DEF SuccessInv, CollectInv, ErrorsInv, ReportedInv, ToldInv, Succeeded

LEMMA WhenSucceeded ==
  ASSUME TypeOK, SuccessInv
  PROVE  SuccessIsComplete
<1> SUFFICES ASSUME rep.pc = "exit", rep.code = 0
    PROVE  /\ \A k \in DOMAIN rep.data : LET c == JobConfigs[rep.data[k].job] IN
                /\ \E r \in rep.dir : r.repo = c.repo /\ getFlakyTests(rep.data[k]) \subseteq r.flaky
                /\ rep.issues => \A channel \in c.channels :
                      [channel |-> channel, job |-> rep.data[k].job] \in rep.posted
           /\ ~rep.missed => \A i \in Configs :
                i \in rep.without \/ \E k \in DOMAIN rep.data : rep.data[k].job = i
  BY DEF SuccessIsComplete
<1>0. Succeeded
  BY DEF Succeeded
<1>1. ~rep.jsonErr /\ ~rep.slackErr /\ \A k \in DOMAIN rep.data : Reported(k)
  BY <1>0 DEF SuccessInv, ReportedInv
<1>2. rep.issues => \A k \in DOMAIN rep.data : ToldAll(k)
  BY <1>0, <1>1 DEF SuccessInv, ToldInv
<1>3. ASSUME ~rep.missed, NEW i \in Configs
      PROVE  i \in rep.without \/ \E k \in DOMAIN rep.data : rep.data[k].job = i
  <2>1. rep.next \notin Configs /\ ~rep.jobErr /\ rep.next >= 1
    BY <1>0 DEF SuccessInv, CollectInv
  <2>2. rep.next \in Nat
    BY DEF TypeOK, Processes
  <2>3. i < rep.next
    BY <2>1, <2>2, JobFacts
  <2> QED
    BY <1>3, <2>1, <2>3 DEF SuccessInv, CollectInv
<1>4. ASSUME NEW k \in DOMAIN rep.data
      PROVE  LET c == JobConfigs[rep.data[k].job] IN
             /\ \E r \in rep.dir : r.repo = c.repo /\ getFlakyTests(rep.data[k]) \subseteq r.flaky
             /\ rep.issues => \A channel \in c.channels :
                   [channel |-> channel, job |-> rep.data[k].job] \in rep.posted
  BY <1>1, <1>2 DEF Reported, RepoOf, ToldAll, Told, ChannelsOf
<1> QED
  BY <1>3, <1>4

\* If the reporter succeeds, every collected repository has its report and every channel has
\* been told of the issues that GitHub has shown or accepted, and every job with builds has
\* been collected unless a read was hidden, for however many goroutines that append to one
\* slice without a lock.  The errors of single issues are not among the errors that count.
THEOREM SuccessComplete == Spec => []SuccessIsComplete
<1>1. Init => RecentInv /\ SuccessInv
  BY SuccessInit DEF Init, Idle, Process, RecentInv
<1>2. Shaped /\ Shaped' /\ DataInv /\ RecentInv /\ SuccessInv /\ [Next]_vars =>
        RecentInv' /\ SuccessInv'
  BY StepTypes, RecentKept, CollectKept, ErrorsKept, ReportedKept, ToldKept DEF SuccessInv
<1>3. Shaped /\ SuccessInv => SuccessIsComplete
  BY WhenSucceeded DEF Shaped
<1> QED
  BY <1>1, <1>2, <1>3, ShapedInvariant, DataInvariant, PTL DEF Spec

-----------------------------------------------------------------------------
(* The channels of the goroutines.                                         *)

Going    == {t \in AllRepos \cup Channels : rep.work[t].pc # "none"}
Finished == {t \in AllRepos \cup Channels : rep.work[t].pc = "done"}

\* There are as many messages in the channel as goroutines that have finished.
ChannelInv ==
    rep.pc \in {"json", "slack"} =>
        /\ IsFiniteSet(Going)
        /\ Going # {} => rep.sent = Cardinality(Finished)
        /\ \A t \in AllRepos \cup Channels : rep.work[t].pc = "append" => rep.work[t].left # {}

\* Who has not finished has room.
LEMMA FewerFinished ==
  ASSUME NEW S, IsFiniteSet(S), NEW T \in SUBSET S, NEW x \in S, x \notin T
  PROVE  IsFiniteSet(T) /\ Cardinality(T) \in Nat /\ Cardinality(T) < Cardinality(S)
<1>1. IsFiniteSet(T) /\ Cardinality(T) <= Cardinality(S) /\ Cardinality(S) # Cardinality(T)
  BY FS_Subset
<1>2. Cardinality(S) \in Nat /\ Cardinality(T) \in Nat
  BY <1>1, FS_CardinalityType
<1> QED
  BY <1>1, <1>2

LEMMA HaveRoom ==
  ASSUME TypeOK, ChannelInv
  PROVE  ReporterGoesOn
<1> SUFFICES ASSUME rep.pc \in {"json", "slack"}, NEW t \in DOMAIN rep.work
    PROVE  GoesOn(t)
  BY DEF ReporterGoesOn
<1>1. DOMAIN rep.work = AllRepos \cup Channels /\ rep.work[t] \in Tasks
  BY DEF TypeOK, Processes
<1>2. rep.work[t].pc \in {"none", "run", "append", "send", "done"}
  BY <1>1 DEF Tasks
<1>3. CASE rep.work[t].pc = "send"
  <2>1. t \in Going /\ t \notin Finished /\ Finished \subseteq Going
    BY <1>1, <1>3 DEF Going, Finished
  <2>2. IsFiniteSet(Going) /\ rep.sent = Cardinality(Finished)
    BY <2>1 DEF ChannelInv
  <2>3. Buffer = Cardinality(Going)
    BY <1>1 DEF Buffer, Going
  <2>4. rep.sent < Buffer
    BY <2>1, <2>2, <2>3, FewerFinished
  <2> QED
    BY <1>3, <2>4 DEF GoesOn
<1> QED
  BY <1>1, <1>2, <1>3 DEF GoesOn, ChannelInv

LEMMA ReposFinite ==
  ASSUME TypeOK
  PROVE  IsFiniteSet(Repos(rep.data))
<1>1. rep.data \in Seq(RepoDatas)
  BY DEF TypeOK, Processes
<1>2. DOMAIN rep.data = 1..Len(rep.data) /\ Len(rep.data) \in Nat
  BY <1>1
<1>3. IsFiniteSet(1..Len(rep.data))
  <2>1. 1 \in Int /\ Len(rep.data) \in Int
    BY <1>2
  <2> QED
    BY <2>1, FS_Interval
<1> DEFINE f == [k \in 1..Len(rep.data) |-> JobConfigs[rep.data[k].job].repo]
<1>4. Repos(rep.data) = {f[k] : k \in 1..Len(rep.data)}
  BY <1>2 DEF Repos
<1>5. \A k \in 1..Len(rep.data) : f[k] \in Repos(rep.data)
  BY <1>4
<1>6. f \in Surjection(1..Len(rep.data), Repos(rep.data))
  BY <1>4, <1>5 DEF Surjection
<1> QED
  BY <1>3, <1>6, FS_Surjection

\* Nobody has sent anything at first.
LEMMA FreshChannel ==
  ASSUME NEW tasks, IsFiniteSet(tasks), rep'.work = Go(tasks), tasks = {} \/ rep'.sent = 0
  PROVE  ChannelInv'
<1>1. Going' = tasks \cap (AllRepos \cup Channels)
  BY GoTasks DEF Going
<1>2. Finished' = {} /\ \A t \in AllRepos \cup Channels : rep'.work[t].pc # "append"
  BY GoTasks DEF Finished
<1>3. IsFiniteSet(Going') /\ Cardinality(Finished') = 0
  <2>1. Going' \in SUBSET tasks
    BY <1>1
  <2>2. IsFiniteSet(Going')
    BY <2>1, FS_Subset
  <2> QED
    BY <1>2, <2>2, FS_EmptySet
<1>4. Going' # {} => rep'.sent = 0
  BY <1>1
<1> QED
  BY <1>2, <1>3, <1>4 DEF ChannelInv

LEMMA ChannelSteps ==
  ASSUME TypeOK, TypeOK', ChannelInv, rep.pc \in {"json", "slack"},
         NEW t \in AllRepos \cup Channels, OthersWork(t),
         GoSucceeds(t) \/ GoAppends(t) \/ GoWrites(t) \/ GoSends(t)
  PROVE  ChannelInv'
<1>1. /\ rep.work[t].pc \in {"run", "append", "send"}
      /\ rep'.work[t].pc \in {"append", "send", "done"}
  BY DEF GoSucceeds, GoAppends, GoWrites, GoSends
<1>2. Going' = Going /\ t \in Going /\ t \notin Finished
  BY <1>1 DEF OthersWork, Going, Finished
<1>3. IsFiniteSet(Going) /\ rep.sent = Cardinality(Finished)
  BY <1>2 DEF ChannelInv
<1>4. \A u \in AllRepos \cup Channels : rep'.work[u].pc = "append" => rep'.work[u].left # {}
  <2>1. rep'.work[t].pc = "append" => rep'.work[t].left # {}
    BY DEF GoSucceeds, GoAppends, GoWrites, GoSends
  <2> QED
    BY <2>1 DEF ChannelInv, OthersWork
<1>5. IsFiniteSet(Finished)
  <2>1. Finished \in SUBSET Going
    BY DEF Going, Finished
  <2> QED
    BY <1>3, <2>1, FS_Subset
<1>6. rep'.sent = Cardinality(Finished')
  <2>1. CASE GoSends(t)
    <3>1. Finished' = Finished \cup {t} /\ rep'.sent = rep.sent + 1
      BY <2>1 DEF GoSends, OthersWork, Finished
    <3> QED
      BY <1>2, <1>3, <1>5, <3>1, FS_AddElement
  <2>2. CASE ~GoSends(t)
    <3>1. rep'.work[t].pc # "done" /\ rep'.sent = rep.sent
      BY <2>2 DEF GoSucceeds, GoAppends, GoWrites
    <3>2. Finished' = Finished
      BY <1>2, <3>1 DEF OthersWork, Finished
    <3> QED
      BY <1>3, <3>1, <3>2
  <2> QED
    BY <2>1, <2>2
<1> QED
  BY <1>2, <1>3, <1>4, <1>6 DEF ChannelInv

LEMMA ChannelKept ==
  ASSUME Shaped, ChannelInv, [Next]_vars, TypeOK'
  PROVE  ChannelInv'
<1>0. TypeOK /\ WorkShape /\ rep \in Processes
  BY DEF Shaped, TypeOK
<1>1. CASE UNCHANGED rep
  BY <1>1 DEF ChannelInv, Going, Finished
<1>2. CASE rep'.pc \notin {"json", "slack"}
  BY <1>2 DEF ChannelInv
<1>3. \A code : Exits(rep, code) => rep'.pc \notin {"json", "slack"}
  BY <1>0, ExitFacts
<1>4. CASE OpenJob \/ LookAtBuild \/ CloseJob \/ Start \/ UploadReports \/ Kill
  BY <1>0, <1>2, <1>3, <1>4, OpenFacts, LookFacts, CloseFacts, FreshFacts
  DEF Opened, SkipJob, Looked, Closed
<1>5. CASE StartReports
  BY <1>0, <1>5, StartReportsFacts, ReposFinite, FreshChannel
<1>6. CASE Goroutines
  BY <1>0, <1>2, <1>3, <1>6, GoroutineFacts, ChannelSteps
<1>7. CASE ReportsWritten \/ GitHub \/ End
  BY <1>0, <1>2, <1>3, <1>7, WrittenFacts, GitHubFacts, EndFacts
<1>8. CASE Notify
  <2>1. rep'.work = Go({})
    BY <1>0, <1>8, NotifyFacts DEF WorkShape, NoTasks
  <2> QED
    BY <2>1, FreshChannel, FS_EmptySet
<1>9. CASE NextMessages
  <2>1. CASE rep.k < Len(rep.data) /\ rep'.work = Go(JobConfigs[rep.data[rep.k + 1].job].channels)
             /\ rep'.sent = 0
    <3>1. rep.data \in Seq(RepoDatas) /\ rep.k \in Nat
      BY <1>0 DEF Processes
    <3>2. rep.k + 1 \in DOMAIN rep.data
      BY <2>1, <3>1
    <3>3. rep.data[rep.k + 1] \in RepoDatas
      BY <3>1, <3>2
    <3>4. IsFiniteSet(JobConfigs[rep.data[rep.k + 1].job].channels)
      BY <3>3, PipelineAssumption DEF RepoDatas
    <3> QED
      BY <2>1, <3>4, FreshChannel
  <2> QED
    BY <1>0, <1>2, <1>3, <1>9, <2>1, MessagesFacts
<1> QED
  BY <1>1, <1>4, <1>5, <1>6, <1>7, <1>8, <1>9, NextCases, OthersSame DEF LaterStep, vars

\* No goroutine of the reporter ever waits for room in its channel, whatever fails and however
\* many repositories and channels there are.
THEOREM NobodyWaits == Spec => []ReporterGoesOn
<1>1. Init => ChannelInv
  BY DEF Init, Idle, Process, ChannelInv
<1>2. Shaped /\ Shaped' /\ ChannelInv /\ [Next]_vars => ChannelInv'
  BY ChannelKept DEF Shaped
<1>3. Shaped /\ ChannelInv => ReporterGoesOn
  BY HaveRoom DEF Shaped
<1> QED
  BY <1>1, <1>2, <1>3, ShapedInvariant, PTL DEF Spec
=============================================================================
