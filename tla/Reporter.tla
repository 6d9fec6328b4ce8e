------------------------------ MODULE Reporter ------------------------------
(***************************************************************************)
(* flaky-test-reporter and the GitHub issues that track one test, over any  *)
(* number of scans.  Tests share nothing but the scan that handles them one *)
(* after the other, so one is enough.  A scan reads the issues of the test  *)
(* at once, since none of its own writes come in between, and makes one     *)
(* write per step.  Prow starts one scan at a time; people may close and    *)
(* reopen issues while it runs.                                             *)
(***************************************************************************)
EXTENDS Integers, FiniteSets

CONSTANTS
    Faults,     \* which calls to GitHub may fail, and "crash"
    People,     \* what people do to issues: "close", "reopen"
    MaxIssues,  \* bound: issues created for the test
    MaxReopen,  \* bound: issues reopened by people
    None

Calls == {"list", "edit", "state", "create", "comment", "label", "unlabel"}

ASSUME ReporterAssumption ==
    /\ Faults \subseteq Calls \cup {"crash"}
    /\ People \subseteq {"close", "reopen"}
    /\ MaxIssues \in Nat \ {0}
    /\ MaxReopen \in Nat
    /\ None \notin Nat \cup {"Flaky", "Passed", "Ignored", "open", "closed"}

VARIABLES
    issue,     \* the issues on GitHub, in the order of their creation
    result,    \* what the latest builds say of the test
    scan,      \* the scan that runs, if any
    reopened,  \* history: how many issues people have reopened
    passes     \* history: see Edited

vars == <<issue, result, scan, reopened, passes>>

-----------------------------------------------------------------------------
(* Types.                                                                  *)

IDs == 1 .. MaxIssues

\* label is flakyLabel, old says that it was closed before timeConsiderOld,
\* status is the latest status that the auto comment tells, None if there is no
\* auto comment, and current says that it is about the latest builds.
FlakyIssue == [state : {"none", "open", "closed"}, old : BOOLEAN,
               label : BOOLEAN, status : {None, "Flaky", "Passed"},
               current : BOOLEAN]

\* The test is flaky (isFlaky), has passed (isPassed), or neither, which nothing
\* acts on.  In the last case it may also be one of so many flaky tests that the
\* scan opens an issue of its own for all of them instead.
Results == {"Flaky", "Passed", "Ignored"}

\* An issue as getFlakyIssues has read it.
Read == [id : IDs, state : {"open", "closed"}]

\* todo are the issues to update; appended those whose histories the comment has
\* got; id and target are the issue in work and the state that it is to get.  clean
\* is history: these builds have not been scanned before, no call of the scan has
\* failed, and nobody has closed or reopened an issue since it began.
Scan == [pc : {"idle", "list", "listed", "update", "state", "create", "comment",
               "label", "unlabel", "close", "done"},
         todo : SUBSET Read, appended : SUBSET IDs,
         id : IDs \cup {None}, target : {"open", "closed", None},
         clean : BOOLEAN]

\* The type invariant of the issues, the builds and the scan.
TypeOK ==
    /\ issue \in [IDs -> FlakyIssue]
    /\ result \in Results \cup {None}
    /\ scan \in Scan
    /\ reopened \in Nat
    /\ passes \in [IDs -> 0 .. 2]

NoIssue == [state |-> "none", old |-> FALSE, label |-> FALSE, status |-> None,
            current |-> FALSE]
Idle    == [pc |-> "idle", todo |-> {}, appended |-> {}, id |-> None,
            target |-> None, clean |-> FALSE]

Init ==
    /\ issue = [i \in IDs |-> NoIssue]
    /\ result = None
    /\ scan = Idle
    /\ reopened = 0
    /\ passes = [i \in IDs |-> 0]

-----------------------------------------------------------------------------
(* The builds, and the start of a scan.                                    *)

\* There is a new build since the last scan.
StartNew ==
    /\ scan.pc = "idle"
    /\ result' \in Results
    /\ issue' = [i \in IDs |-> [issue[i] EXCEPT !.current = FALSE]]
    /\ scan' = [Idle EXCEPT !.pc = "list", !.clean = TRUE]
    /\ UNCHANGED <<reopened, passes>>

\* There is none, or the last scan failed and somebody starts it again.
StartAgain ==
    /\ scan.pc = "idle" /\ result # None
    /\ scan' = [Idle EXCEPT !.pc = "list"]
    /\ UNCHANGED <<issue, result, reopened, passes>>

-----------------------------------------------------------------------------
(* getFlakyIssues.                                                         *)

Labelled == {i \in IDs : issue[i].label}
Open     == {i \in Labelled : issue[i].state = "open"}

\* What githubToFlakyIssue does not leave out: it ignores what was closed long ago.
Tracked  == {i \in Labelled : ~(issue[i].state = "closed" /\ issue[i].old)}

AsRead(I) == {[id |-> i, state |-> issue[i].state] : i \in I}

In(X, state) == {x \in X : x.state = state}
Newest(X)    == {x \in X : \A y \in X : y.id <= x.id}
Oldest(X)    == {x \in X : \A y \in X : x.id <= y.id}

\* When some issues X of the test are open, the closed ones are removed, by a loop
\* over the slice that they are removed from.  GitHub lists the newest first.  A
\* removal moves the next issue to where the loop has just been, so that of closed
\* issues in a row every second stays.  The last issue moves too and is met again
\* behind the end of the slice: if it is closed, this second removal is out of range
\* and panics.
InARow(x, X)  == {y \in In(X, "closed") :
                    x.id <= y.id /\ \A z \in In(X, "open") : ~(x.id <= z.id /\ z.id <= y.id)}
Remaining(X)  == {x \in X : x.state = "open" \/ Cardinality(InARow(x, X)) % 2 = 0}
OutOfRange(X) == Cardinality(In(X, "closed")) > 1 /\ Oldest(X) \subseteq In(X, "closed")

Mixed(X)  == In(X, "open") # {} /\ In(X, "closed") # {}
Panics(X) == Mixed(X) /\ OutOfRange(X)

\* Which of the issues X of the test are left to update.
Kept(X) == IF Mixed(X) THEN Remaining(X)
           ELSE IF In(X, "open") # {} THEN X ELSE Oldest(X)

\* Without an auto comment an issue stops the whole run.
Malformed == \E i \in Tracked : issue[i].status = None

Exit == scan' = Idle

\* The issue repository of the test is listed.
ListIssues ==
    /\ scan.pc = "list"
    /\ \/ /\ Malformed \/ Panics(AsRead(Tracked)) \/ "list" \in Faults
          /\ Exit
       \/ /\ ~Malformed /\ ~Panics(AsRead(Tracked))
          /\ scan' = [scan EXCEPT !.pc = "listed", !.todo = Kept(AsRead(Tracked))]
    /\ UNCHANGED <<issue, result, reopened, passes>>

\* After each further repository the issues of all that were listed before are
\* gone through again.
ListAnother ==
    /\ scan.pc = "listed"
    /\ \/ /\ Panics(scan.todo) \/ "list" \in Faults
          /\ Exit
       \/ /\ ~Panics(scan.todo)
          /\ scan' = [scan EXCEPT !.todo = Kept(@)]
    /\ UNCHANGED <<issue, result, reopened, passes>>

\* Where processGithubIssuesForRepo goes with the test.
Branch ==
    CASE result = "Ignored" -> "done"
      [] result # "Ignored" /\ scan.todo # {} -> "update"
      [] result = "Flaky"   /\ scan.todo = {} -> "create"
      [] result = "Passed"  /\ scan.todo = {} -> "done"

ProcessTest ==
    /\ scan.pc = "listed"
    /\ scan' = [scan EXCEPT !.pc = Branch]
    /\ UNCHANGED <<issue, result, reopened, passes>>

-----------------------------------------------------------------------------
(* updateIssue.                                                            *)

\* Mutant: the comment is not looked at for the current builds.
MayLackAlways(i) == TRUE

\* Whether the auto comment of issue i may contain, or lack, the new comment.  It is
\* made longer by the history of each issue before, and then a comment that is about
\* these builds may or may not contain it.
MayContain(i) == issue[i].current
MayLack(i)    == ~issue[i].current \/ scan.appended # {}

\* Mutant: that a test has passed is not written down.
EditsFlakyOnly(x) == result = "Flaky"

\* A passed test leaves a closed issue alone.
Edits(x) == result = "Flaky" \/ x.state = "open"

\* Mutant: closed issues stay closed.
TargetNoReopen(x) ==
    CASE result = "Passed" /\ x.state = "open"
            /\ issue[x.id].status = "Passed" -> "closed"
      [] OTHER -> None

\* The state that an issue is to get, if another than it had when it was read.
Target(x) ==
    CASE result = "Passed" /\ x.state = "open"
            /\ issue[x.id].status = "Passed" -> "closed"
      [] result = "Flaky" /\ x.state = "closed" -> "open"
      [] OTHER -> None

\* EditComment has taken effect.  passes[i] counts, up to 2, the builds with which
\* it was told that the test has passed, since it was last told to be flaky.
Edited(i) ==
    /\ issue' = [issue EXCEPT ![i].status = result, ![i].current = TRUE]
    /\ passes' = [passes EXCEPT ![i] =
                     IF result = "Flaky" THEN 0
                     ELSE IF issue[i].current \/ @ = 2 THEN @ ELSE @ + 1]

NotEdited == UNCHANGED <<issue, passes>>

SkipIssue(x) ==
    /\ MayContain(x.id)
    /\ scan' = [scan EXCEPT !.todo = @ \ {x}]
    /\ NotEdited

Append(x) == [scan EXCEPT !.todo = @ \ {x}, !.appended = @ \cup {x.id}]

LeaveClosed(x) ==
    /\ MayLack(x.id) /\ ~Edits(x)
    /\ scan' = Append(x)
    /\ NotEdited

EditComment(x) ==
    LET target == Target(x) IN
    /\ MayLack(x.id) /\ Edits(x)
    /\ scan' = [Append(x) EXCEPT !.pc = IF target = None THEN "update" ELSE "state",
                                 !.id = IF target = None THEN None ELSE x.id,
                                 !.target = target]
    /\ Edited(x.id)

EditFails(x) ==
    /\ "edit" \in Faults /\ MayLack(x.id) /\ Edits(x)
    /\ scan' = [Append(x) EXCEPT !.clean = FALSE]
    /\ NotEdited \/ Edited(x.id)

UpdateIssue(x) ==
    /\ scan.pc = "update" /\ x \in Newest(scan.todo)
    /\ SkipIssue(x) \/ LeaveClosed(x) \/ EditComment(x) \/ EditFails(x)
    /\ UNCHANGED <<result, reopened>>

\* GitHub closes or reopens issue i, if it is not so already.
SetState(i, state) ==
    issue' = IF issue[i].state = state THEN issue
             ELSE [issue EXCEPT ![i].state = state, ![i].old = FALSE]

CloseOrReopen(failed) ==
    /\ scan.pc = "state" /\ (failed => "state" \in Faults)
    /\ \/ SetState(scan.id, scan.target)
       \/ failed /\ UNCHANGED issue
    /\ scan' = [scan EXCEPT !.pc = "update", !.id = None, !.target = None,
                            !.clean = @ /\ ~failed]
    /\ UNCHANGED <<result, reopened, passes>>

-----------------------------------------------------------------------------
(* createNewIssue.                                                         *)

New(i) == issue[i].state = "none" /\ \A j \in IDs : j < i => issue[j].state # "none"

\* An issue of which the answer is lost stays as it is.
CreateIssue(i, failed) ==
    /\ scan.pc = "create" /\ New(i) /\ (failed => "create" \in Faults)
    /\ \/ issue' = [issue EXCEPT ![i].state = "open"]
       \/ failed /\ UNCHANGED issue
    /\ scan' = IF failed THEN [scan EXCEPT !.pc = "done", !.clean = FALSE]
               ELSE [scan EXCEPT !.pc = "comment", !.id = i]
    /\ UNCHANGED <<result, reopened, passes>>

\* Mutant: the label is added whether or not there is a comment.
CreateCommentUnchecked(failed) ==
    /\ scan.pc = "comment" /\ (failed => "comment" \in Faults)
    /\ \/ issue' = [issue EXCEPT ![scan.id].status = "Flaky",
                                ![scan.id].current = TRUE]
       \/ failed /\ UNCHANGED issue
    /\ scan' = [scan EXCEPT !.pc = "label", !.clean = @ /\ ~failed]
    /\ UNCHANGED <<result, reopened, passes>>

CreateComment(failed) ==
    /\ scan.pc = "comment" /\ (failed => "comment" \in Faults)
    /\ \/ issue' = [issue EXCEPT ![scan.id].status = "Flaky",
                                ![scan.id].current = TRUE]
       \/ failed /\ UNCHANGED issue
    /\ scan' = [scan EXCEPT !.pc = IF failed THEN "unlabel" ELSE "label",
                            !.clean = @ /\ ~failed]
    /\ UNCHANGED <<result, reopened, passes>>

AddLabel(failed) ==
    /\ scan.pc = "label" /\ (failed => "label" \in Faults)
    /\ \/ issue' = [issue EXCEPT ![scan.id].label = TRUE]
       \/ failed /\ UNCHANGED issue
    /\ scan' = IF failed THEN [scan EXCEPT !.pc = "unlabel", !.clean = FALSE]
               ELSE [scan EXCEPT !.pc = "done", !.id = None]
    /\ UNCHANGED <<result, reopened, passes>>

\* Whether or not the label is there and can be removed, the issue is closed next.
RemoveLabel ==
    /\ scan.pc = "unlabel"
    /\ \/ issue' = [issue EXCEPT ![scan.id].label = FALSE]
       \/ "unlabel" \in Faults /\ UNCHANGED issue
    /\ scan' = [scan EXCEPT !.pc = "close"]
    /\ UNCHANGED <<result, reopened, passes>>

CloseInvalid ==
    /\ scan.pc = "close"
    /\ \/ SetState(scan.id, "closed")
       \/ "state" \in Faults /\ UNCHANGED issue
    /\ scan' = [scan EXCEPT !.pc = "done", !.id = None]
    /\ UNCHANGED <<result, reopened, passes>>

-----------------------------------------------------------------------------
(* The end of a scan, and the world around it.                             *)

Finished == scan.pc = "done" \/ (scan.pc = "update" /\ scan.todo = {})

Finish ==
    /\ Finished
    /\ Exit
    /\ UNCHANGED <<issue, result, reopened, passes>>

\* The pod of the Prow job is lost.
Crash ==
    /\ "crash" \in Faults /\ scan.pc # "idle"
    /\ Exit
    /\ UNCHANGED <<issue, result, reopened, passes>>

MeetPeople == scan' = [scan EXCEPT !.clean = FALSE]

PersonCloses(i) ==
    /\ "close" \in People /\ issue[i].state = "open"
    /\ SetState(i, "closed")
    /\ MeetPeople
    /\ UNCHANGED <<result, reopened, passes>>

PersonReopens(i) ==
    /\ "reopen" \in People /\ reopened < MaxReopen /\ issue[i].state = "closed"
    /\ SetState(i, "open")
    /\ reopened' = reopened + 1
    /\ MeetPeople
    /\ UNCHANGED <<result, passes>>

\* daysConsiderOld later.  timeConsiderOld is computed once, when a scan starts.
MonthPasses ==
    /\ scan.pc = "idle"
    /\ issue' = [i \in IDs |->
                    [issue[i] EXCEPT !.old = issue[i].state = "closed"]]
    /\ UNCHANGED <<result, scan, reopened, passes>>

CreateNewIssue ==
    \/ \E failed \in BOOLEAN :
          \/ \E i \in IDs : CreateIssue(i, failed)
          \/ CreateComment(failed) \/ AddLabel(failed)
    \/ RemoveLabel \/ CloseInvalid

Next ==
    \/ StartNew \/ StartAgain
    \/ ListIssues \/ ListAnother \/ ProcessTest
    \/ \E x \in scan.todo : UpdateIssue(x)
    \/ \E failed \in BOOLEAN : CloseOrReopen(failed)
    \/ CreateNewIssue
    \/ Finish \/ Crash \/ MonthPasses
    \/ \E i \in IDs : PersonCloses(i) \/ PersonReopens(i)

Spec == Init /\ [][Next]_vars

\* There are new builds from time to time, and no call fails for ever.  Nothing is
\* asked of people, nor of failures and crashes, however often they occur.
Fairness ==
    /\ SF_vars(StartNew)
    /\ SF_vars(ListIssues /\ scan'.pc # "idle") /\ SF_vars(ProcessTest)
    /\ WF_vars(\/ \E x \in scan.todo : UpdateIssue(x)
               \/ RemoveLabel \/ CloseInvalid \/ Finish)
    /\ \A i \in IDs :
          /\ SF_vars(\E x \in scan.todo : x.id = i /\ UpdateIssue(x) /\ EditComment(x))
          /\ SF_vars(scan.id = i /\ CloseOrReopen(FALSE))
    /\ SF_vars(\E i \in IDs : CreateIssue(i, FALSE))
    /\ SF_vars(CreateComment(FALSE)) /\ SF_vars(AddLabel(FALSE))

FairSpec == Spec /\ Fairness

-----------------------------------------------------------------------------
(* Properties.                                                             *)

\* The reporter never leaves an issue that its own next scan chokes on: whatever
\* fails in createNewIssue, the label comes after the comment.
NeverMalformed == \A i \in Labelled : issue[i].status # None

\* The pool of issues stays small: beyond the first, an issue is tracked only if
\* people have reopened one that was forgotten.
TrackedBounded == Cardinality(Tracked) <= 1 + reopened

\* A scan of new builds that finds the test flaky and ends without an error leaves
\* an open issue that says so, unless somebody touched the issues meanwhile.
TrackedWhenClean ==
    Finished /\ scan.clean /\ result = "Flaky"
    => \E i \in Open : issue[i].status = "Flaky" /\ issue[i].current

\* The scan is about to close issue i because the test has passed.
Closes(i) == scan.pc = "state" /\ scan.id = i /\ scan.target = "closed"

\* It does so only after two different builds in which the test has passed, with
\* no flaky one recorded between: starting a scan again counts for nothing, unless
\* the comment has got the history of another issue before.  Builds in which the
\* test failed for good may well lie between, since nothing records them.
ClosedAfterTwoBuilds ==
    \A i \in IDs : Closes(i) => passes[i] = 2 \/ \E j \in scan.appended : j # i

Full == \A i \in IDs : issue[i].state # "none"

\* A test that stays flaky has an open issue again and again, whatever people and
\* failures do to it.
FlakyTracked ==
    <>[](result = "Flaky") => []<>(Open # {} \/ Full)

\* The issues of a test that keeps passing get closed, if getFlakyIssues gets that
\* far.
PassedSettles ==
    <>[](result = "Passed") => <>[](Open = {} \/ Panics(AsRead(Tracked)))

-----------------------------------------------------------------------------
(* The inductive invariant, for the proofs.                                *)

\* What a scan may take for granted at each of its writes.  The issues that it
\* works on stay tracked, as no month passes meanwhile.
WritesWell ==
    /\ scan.pc # "idle" => result # None
    /\ scan.pc \in {"update", "state"} => result \in {"Flaky", "Passed"}
    /\ scan.pc \in {"create", "comment", "label", "unlabel", "close"} =>
          result = "Flaky" /\ scan.todo = {}
    /\ scan.pc = "idle" => scan.todo = {}
    /\ \A i \in Labelled : issue[i].state # "none"
    /\ \A x \in scan.todo :
          /\ x.id \in Tracked \ scan.appended
          /\ \A y \in scan.todo : x.id = y.id => x = y
    /\ scan.pc \in {"list", "listed"} => scan.appended = {}
    /\ scan.pc = "state" =>
          /\ scan.id \in Tracked \cap scan.appended
          /\ scan.target = IF result = "Flaky" THEN "open" ELSE "closed"
    /\ scan.pc \in {"comment", "label", "unlabel", "close"} =>
          scan.id \in IDs /\ issue[scan.id].state # "none"
    /\ scan.pc = "label" => issue[scan.id].status # None

\* A comment about the latest builds tells what they say, and one that tells of a
\* pass has counted one.
PassesCounted ==
    /\ \A i \in IDs : issue[i].current => issue[i].status = result
    /\ \A i \in IDs : issue[i].status = "Passed" => passes[i] > 0
    /\ ClosedAfterTwoBuilds

\* A new issue may be added only when there was none to update.
MayBeAdded    ==
    IF \/ scan.pc \in {"create", "comment", "label"}
       \/ scan.pc = "listed" /\ scan.todo = {}
    THEN 1 ELSE 0
RoomForNew    == Cardinality(Tracked) + MayBeAdded <= 1 + reopened

TellsFlaky(i) == issue[i].status = "Flaky" /\ issue[i].current

\* A clean scan knows the issues as they are, and if the test is flaky it has an
\* issue left to update or has made sure that an open one says so.
CleanScanTracks ==
    scan.clean =>
        /\ scan.pc \notin {"unlabel", "close"}
        /\ scan.pc \in {"list", "listed"} => \A i \in IDs : ~issue[i].current
        /\ \A x \in scan.todo : /\ issue[x.id].state = x.state
                                /\ ~issue[x.id].current
        /\ result = "Flaky" =>
              /\ scan.pc = "update" =>
                    scan.todo # {} \/ \E i \in Open : TellsFlaky(i)
              /\ scan.pc = "state" => TellsFlaky(scan.id)
              /\ scan.pc \in {"comment", "label"} => issue[scan.id].state = "open"
              /\ scan.pc = "label" => TellsFlaky(scan.id)
              /\ scan.pc = "done" => \E i \in Open : TellsFlaky(i)

\* All of it together.
ScanInv ==
    /\ NeverMalformed /\ WritesWell /\ PassesCounted /\ RoomForNew
    /\ CleanScanTracks

=============================================================================
