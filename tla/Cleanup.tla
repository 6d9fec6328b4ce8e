------------------------------ MODULE Cleanup ------------------------------
(***************************************************************************)
(* The cleanup tool: one run after the other, each deleting old images and  *)
(* then old clusters.  Delete starts a goroutine per project; a channel     *)
(* with ConcurrentOperations places admits them, and once an error is in    *)
(* errorChan the others return without doing anything.  An action is one    *)
(* call to GCR or GKE, or one operation on a channel.                       *)
(***************************************************************************)
EXTENDS Integers, Sequences, FiniteSets

CONSTANTS
    Stored,                \* the images and clusters there are to begin with
    Tagged,                \* the image of each tag to begin with, or None
    OptionSets,            \* the command lines the tool is started with
    ConcurrentOperations,  \* --concurrent-operations
    Forbidden,             \* the projects that the deleter of each kind refuses
    Faults,                \* which of "new", "list", "delete", "operation", "crash" happen
    Others,                \* what others do meanwhile: "delete", "push"
    None

Kinds == {"image", "cluster"}
Tags  == DOMAIN Tagged

\* An image or a cluster; a cluster has no repository.  old says that it is older
\* than the tool keeps its kind.
Resource == [kind : Kinds, project : STRING, repo : STRING, id : Nat, old : BOOLEAN]

\* A command line: --project; whether --project-resource-yaml is given, and the
\* names found in its files, or None if a file or the expression is bad; which
\* kinds are not kept forever; --dry-run; whether --gcr ends in gcr.io.
Options == [project : Seq(STRING), given : BOOLEAN, files : Seq(STRING) \cup {None},
            kinds : SUBSET Kinds, dryRun : BOOLEAN, registry : BOOLEAN]

ASSUME CleanupAssumption ==
    /\ ConcurrentOperations \in Nat \ {0}
    /\ Stored \subseteq Resource
    /\ IsFiniteSet(Stored)
    /\ Tagged \in [Tags -> Stored \cup {None}]
    /\ OptionSets \subseteq Options
    /\ None \notin Stored \cup [item : Stored, tags : SUBSET Tags]
    /\ Forbidden \in [Kinds -> SUBSET STRING]

VARIABLES
    run,          \* the process: how far cleanup is, for which command line
    worker,       \* the goroutines of Delete, one for each name in projects
    concurrency,  \* len(concurrencyChan)
    errorChan,    \* the goroutines whose errors were sent
    count,        \* the counter of Delete
    stored, tag,  \* what is in GCR and GKE
    gone,         \* history: what was deleted since Delete was called
    undone        \* history: the clusters whose DELETE operation has ended with an
                  \* error since then, in this order

vars  == <<run, worker, concurrency, errorChan, count, stored, tag, gone, undone>>
cloud == <<stored, tag, gone, undone>>

-----------------------------------------------------------------------------
(* Types.                                                                  *)

\* "queued": blocked on concurrencyChan.  "admitted": about to look at errorChan.
\* "list", "delete": in DeleteResources.  "send": about to send its error.
\* "leave": about to receive from concurrencyChan.
WorkerStates == {"queued", "admitted", "list", "delete", "send", "leave", "done"}

\* An image or a cluster with the tags that it was listed with.
Listed == [item : Stored, tags : SUBSET Tags]

\* The root of a registry, and the repositories below it.
Repositories == {"root"} \cup {x.repo : x \in Stored}

\* repos are left to list; todo is left of what was listed as old; now is being
\* deleted.
Worker == [pc : WorkerStates, repos : SUBSET Repositories, todo : SUBSET Listed,
           now : Listed \cup {None}, count : Nat]

Run == [pc : {"idle", "new", "delete"}, kinds : Seq(Kinds), projects : Seq(STRING),
        dryRun : BOOLEAN]

Workers == DOMAIN run.projects
Kind    == Head(run.kinds)

\* The type invariant.
TypeOK ==
    /\ run \in Run
    /\ (run.pc = "idle") = (run.kinds = <<>>)
    /\ worker \in [Workers -> Worker]
    /\ \A i \in Workers : worker[i].pc = "delete" => worker[i].now # None
    /\ concurrency \in Int
    /\ errorChan \in Seq(Workers)
    /\ count \in Nat
    /\ stored \subseteq Stored
    /\ gone \subseteq Stored
    /\ undone \in Seq({x \in Stored : x.kind = "cluster"})
    /\ tag \in [Tags -> Stored \cup {None}]

Idle == [pc |-> "idle", kinds |-> <<>>, projects |-> <<>>, dryRun |-> FALSE]

Queued == [pc |-> "queued", repos |-> {}, todo |-> {}, now |-> None, count |-> 0]

Init ==
    /\ run = Idle
    /\ worker = <<>>
    /\ concurrency = 0
    /\ errorChan = <<>>
    /\ count = 0
    /\ stored = Stored
    /\ tag = Tagged
    /\ gone = {}
    /\ undone = <<>>

-----------------------------------------------------------------------------
(* cleanup.                                                                *)

\* What selectProjects returns, or None for an error.  Names that are given or found
\* twice stay in the list twice.
selectProjects(o) ==
    IF (o.project = <<>>) = ~o.given THEN None
    ELSE IF ~o.given THEN o.project
    ELSE IF o.files = <<>> THEN None
    ELSE o.files

\* The kinds of deleters to be made, in their order.
Deleters(o) ==
    (IF "image" \in o.kinds THEN <<"image">> ELSE <<>>)
      \o (IF "cluster" \in o.kinds THEN <<"cluster">> ELSE <<>>)

\* The variables of Delete are made anew.
Fresh ==
    /\ concurrency' = 0
    /\ errorChan' = <<>>
    /\ count' = 0
    /\ gone' = {}
    /\ undone' = <<>>
    /\ UNCHANGED <<stored, tag>>

\* The process ends, whatever goroutines there are.
Exit == run' = Idle /\ worker' = <<>> /\ Fresh

\* The tool is started with something to do; otherwise it returns at once.
Start ==
    /\ run.pc = "idle"
    /\ \E o \in OptionSets :
          /\ o.registry
          /\ selectProjects(o) # None
          /\ Deleters(o) # <<>>
          /\ run' = [pc |-> "new", kinds |-> Deleters(o),
                     projects |-> selectProjects(o), dryRun |-> o.dryRun]
          /\ worker' = [i \in DOMAIN selectProjects(o) |-> Queued]
    /\ Fresh

\* NewImageDeleter or NewGkeClusterDeleter, and the call of Delete.
NewDeleter ==
    /\ run.pc = "new"
    /\ run' = [run EXCEPT !.pc = "delete"]
    /\ UNCHANGED <<worker, concurrency, errorChan, count, cloud>>

\* The deleter cannot be made: cleanup returns, also if another kind is left.
NewDeleterFails ==
    /\ run.pc = "new"
    /\ "new" \in Faults
    /\ Exit

\* wg.Wait returns, errors and count are shown, and cleanup goes on with the clusters,
\* whatever the errors of the images were.
Return ==
    /\ run.pc = "delete"
    /\ \A i \in Workers : worker[i].pc = "done"
    /\ IF Tail(run.kinds) = <<>>
       THEN Exit
       ELSE /\ run' = [run EXCEPT !.pc = "new", !.kinds = Tail(@)]
            /\ worker' = [i \in Workers |-> Queued]
            /\ Fresh

Crash ==
    /\ "crash" \in Faults
    /\ run.pc # "idle"
    /\ Exit

-----------------------------------------------------------------------------
(* Delete.                                                                 *)

Working(i, pc) == run.pc = "delete" /\ worker[i].pc = pc

\* The send to concurrencyChan.
Enter(i) ==
    /\ Working(i, "queued")
    /\ concurrency < ConcurrentOperations
    /\ concurrency' = concurrency + 1
    /\ worker' = [worker EXCEPT ![i].pc = "admitted"]
    /\ UNCHANGED <<run, errorChan, count, cloud>>

\* The root of a project's registry and the repositories below it; clusters are all
\* in one list.
Repos(kind, project) ==
    {"root"} \cup {x.repo : x \in {y \in Stored : y.kind = kind /\ y.project = project}}

\* Mutant: the error of another goroutine is not looked at.
CheckErrorsNot(i) ==
    /\ Working(i, "admitted")
    /\ worker' =
          IF run.projects[i] \in Forbidden[Kind]
          THEN [worker EXCEPT ![i].pc = "send"]
          ELSE [worker EXCEPT ![i].pc = "list",
                              ![i].repos = Repos(Kind, run.projects[i])]
    /\ UNCHANGED <<run, concurrency, errorChan, count, cloud>>

\* "Do not process if previous invocations failed".  A forbidden project fails before
\* anything is listed.
CheckErrors(i) ==
    /\ Working(i, "admitted")
    /\ worker' =
          IF errorChan # <<>> THEN [worker EXCEPT ![i].pc = "leave"]
          ELSE IF run.projects[i] \in Forbidden[Kind]
          THEN [worker EXCEPT ![i].pc = "send"]
          ELSE [worker EXCEPT ![i].pc = "list",
                              ![i].repos = Repos(Kind, run.projects[i])]
    /\ UNCHANGED <<run, concurrency, errorChan, count, cloud>>

\* DeleteResources is left, and the counter updated.
Leaving(i, pc, c) ==
    /\ worker' = [worker EXCEPT ![i] = [Queued EXCEPT !.pc = pc]]
    /\ count' = count + c

\* It returns an error, and what it has counted.  That of the images is evaluated in
\* the statement that also calls the walk which counts: Go leaves the order open.
ReturnsError(i) ==
    \E c \in {worker[i].count} \cup (IF Kind = "image" THEN {0} ELSE {}) :
        Leaving(i, "send", c)

ReturnsCount(i) ==
    /\ Working(i, "list")
    /\ worker[i].repos = {}
    /\ \E c \in {worker[i].count} \cup (IF Kind = "image" THEN {0} ELSE {}) :
          Leaving(i, "leave", c)
    /\ UNCHANGED <<run, concurrency, errorChan, cloud>>

\* errorChan has a place for every project.
SendError(i) ==
    /\ Working(i, "send")
    /\ Len(errorChan) < Len(run.projects)
    /\ errorChan' = Append(errorChan, i)
    /\ worker' = [worker EXCEPT ![i].pc = "leave"]
    /\ UNCHANGED <<run, concurrency, count, cloud>>

\* Mutant: a place is only given back if there was no error.
LeaveKeeping(i) ==
    /\ Working(i, "leave")
    /\ concurrency' = IF errorChan = <<>> THEN concurrency - 1 ELSE concurrency
    /\ worker' = [worker EXCEPT ![i].pc = "done"]
    /\ UNCHANGED <<run, errorChan, count, cloud>>

\* The receive from concurrencyChan, and wg.Done.
Leave(i) ==
    /\ Working(i, "leave")
    /\ concurrency' = concurrency - 1
    /\ worker' = [worker EXCEPT ![i].pc = "done"]
    /\ UNCHANGED <<run, errorChan, count, cloud>>

-----------------------------------------------------------------------------
(* DeleteResources.                                                        *)

\* What is old of the next list.  A dry run deletes none of it.
Old(i, repo) ==
    {[item |-> x, tags |-> {t \in Tags : tag[t] = x}] :
        x \in {y \in stored : /\ ~run.dryRun /\ y.old
                              /\ y.kind = Kind /\ y.repo = repo
                              /\ y.project = run.projects[i]}}

\* Goroutine i goes on with todo: the states it may be in then.
GoesOn(i, w, todo) ==
    IF todo = {} THEN {[w EXCEPT !.pc = "list", !.now = None, !.todo = {}]}
    ELSE {[w EXCEPT !.pc = "delete", !.now = x, !.todo = todo \ {x}] : x \in todo}

\* ListClustersInProject, or the walk to the next repository.
List(i) ==
    /\ Working(i, "list")
    /\ \E repo \in worker[i].repos :
          \E w \in GoesOn(i, [worker[i] EXCEPT !.repos = @ \ {repo}], Old(i, repo)) :
             worker' = [worker EXCEPT ![i] = w]
    /\ UNCHANGED <<run, concurrency, errorChan, count, cloud>>

\* Mutant: a list that cannot be read is taken for an empty one.
ListFailsSilently(i) ==
    /\ Working(i, "list")
    /\ worker[i].repos # {}
    /\ "list" \in Faults
    /\ Leaving(i, "leave", worker[i].count)
    /\ UNCHANGED <<run, concurrency, errorChan, cloud>>

\* A list cannot be read, or has no tags.
ListFails(i) ==
    /\ Working(i, "list")
    /\ worker[i].repos # {}
    /\ "list" \in Faults
    /\ ReturnsError(i)
    /\ UNCHANGED <<run, concurrency, errorChan, cloud>>

\* The tags that the image was listed with are deleted first, by name.  A tag that
\* was moved meanwhile is taken from the image that has it now.
DeleteTag(i) ==
    /\ Working(i, "delete")
    /\ \E t \in worker[i].now.tags :
          /\ tag[t] # None
          /\ tag' = [tag EXCEPT ![t] = None]
          /\ worker' = [worker EXCEPT ![i].now.tags = @ \ {t}]
    /\ UNCHANGED <<run, concurrency, errorChan, count, stored, gone, undone>>

\* An image that has a tag cannot be deleted.
Deletable(x) == x \in stored /\ \A t \in Tags : tag[t] # x

\* Mutant: what is to be deleted is counted before.
DeleteItemCounting(i) ==
    /\ Working(i, "delete")
    /\ worker[i].now.tags = {}
    /\ LET x == worker[i].now.item IN
       \E w \in GoesOn(i, [worker[i] EXCEPT !.count = @ + 1], worker[i].todo) :
          /\ stored' = stored \ {x}
          /\ gone' = gone \cup (IF Deletable(x) THEN {x} ELSE {})
          /\ worker' = [worker EXCEPT ![i] = w]
    /\ UNCHANGED <<run, concurrency, errorChan, count, tag, undone>>

\* The image is deleted; or the DELETE operation of the cluster ends without an error.
DeleteItem(i) ==
    /\ Working(i, "delete")
    /\ worker[i].now.tags = {}
    /\ LET x == worker[i].now.item IN
       /\ Deletable(x)
       /\ stored' = stored \ {x}
       /\ gone' = gone \cup {x}
       /\ \E w \in GoesOn(i, [worker[i] EXCEPT !.count = @ + 1], worker[i].todo) :
             worker' = [worker EXCEPT ![i] = w]
    /\ UNCHANGED <<run, concurrency, errorChan, count, tag, undone>>

\* The DELETE operation of a cluster ends with an error, and the cluster is still
\* there.  gke.Wait looks at the status of the operation only, which is DONE, so that
\* DeleteCluster returns no error and the cluster is counted.
DeleteItemUndone(i) ==
    /\ "operation" \in Faults
    /\ Working(i, "delete")
    /\ LET x == worker[i].now.item IN
       /\ x.kind = "cluster" /\ x \in stored
       /\ undone' = Append(undone, x)
       /\ \E w \in GoesOn(i, [worker[i] EXCEPT !.count = @ + 1], worker[i].todo) :
             worker' = [worker EXCEPT ![i] = w]
    /\ UNCHANGED <<run, concurrency, errorChan, count, stored, tag, gone>>

\* A deletion fails: the tag or the item is not there any more, the image has got
\* another tag, or for some other reason, after which it may be gone nevertheless.
\* Waiting for a cluster may time out, for instance.
DeleteFails(i) ==
    /\ Working(i, "delete")
    /\ ReturnsError(i)
    /\ LET now == worker[i].now IN
       \/ /\ \/ \E t \in now.tags : tag[t] = None
             \/ now.tags = {} /\ ~Deletable(now.item)
             \/ "delete" \in Faults
          /\ UNCHANGED cloud
       \/ /\ "delete" \in Faults
          /\ \E t \in now.tags : tag' = [tag EXCEPT ![t] = None]
          /\ UNCHANGED <<stored, gone, undone>>
       \/ /\ "delete" \in Faults
          /\ now.tags = {} /\ Deletable(now.item)
          /\ stored' = stored \ {now.item}
          /\ gone' = gone \cup {now.item}
          /\ UNCHANGED <<tag, undone>>
    /\ UNCHANGED <<run, concurrency, errorChan>>

-----------------------------------------------------------------------------
(* What others do with the same projects.                                  *)

OthersDelete(x) ==
    /\ "delete" \in Others
    /\ x \in stored
    /\ stored' = stored \ {x}
    /\ tag' = [t \in Tags |-> IF tag[t] = x THEN None ELSE tag[t]]
    /\ UNCHANGED <<run, worker, concurrency, errorChan, count, gone, undone>>

\* A tag is pushed to another image of its repository.
Push(t, x) ==
    /\ "push" \in Others
    /\ x \in stored
    /\ x.kind = "image" /\ x.project = t.project /\ x.repo = t.repo
    /\ tag' = [tag EXCEPT ![t] = x]
    /\ UNCHANGED <<run, worker, concurrency, errorChan, count, stored, gone, undone>>

-----------------------------------------------------------------------------

WorkerStep(i) ==
    \/ Enter(i) \/ CheckErrors(i) \/ List(i) \/ ListFails(i)
    \/ DeleteTag(i) \/ DeleteItem(i) \/ DeleteItemUndone(i) \/ DeleteFails(i)
    \/ ReturnsCount(i) \/ SendError(i) \/ Leave(i)

Main == NewDeleter \/ NewDeleterFails \/ Return

Next ==
    \/ Start \/ Main \/ Crash
    \/ \E i \in Workers : WorkerStep(i)
    \/ \E x \in Stored : OthersDelete(x)
    \/ \E t \in Tags, x \in Stored : Push(t, x)

Spec == Init /\ [][Next]_vars

\* Goroutines are scheduled and calls return; no call has to succeed, and the tool
\* need not be started.
FairSpec == Spec /\ WF_vars(Main) /\ WF_vars(\E i \in Workers : WorkerStep(i))

-----------------------------------------------------------------------------
(* Properties.                                                             *)

\* However many projects fail at the same time, Delete makes at most
\* ConcurrentOperations failing invocations: what "prevents a large build-up of
\* failed requests".
ErrorsBounded == Len(errorChan) <= ConcurrentOperations

Undone(x) == \E n \in DOMAIN undone : undone[n] = x

\* If Delete ends without an error, nothing that is old is left in the projects
\* that were selected, also if others have deleted and pushed meanwhile; of the
\* clusters, nothing but those whose DELETE operation has ended with an error.
\* Delete does not notice these: Wait takes every operation that is DONE for a
\* success (wait.go:57), and so they are left in silence.
CleanIfNoErrors ==
    /\ run.pc = "delete" /\ ~run.dryRun
    /\ \A i \in Workers : worker[i].pc = "done"
    /\ errorChan = <<>>
    => \A x \in stored, i \in Workers :
          x.old /\ x.kind = Kind /\ x.project = run.projects[i] => Undone(x)

\* Delete claims to have deleted what is gone, and beyond that no more than it was
\* told of DELETE operations that had ended with an error, also if a project is
\* listed twice and two goroutines work on the same images or clusters.
CountBounded == count <= Cardinality(gone) + Len(undone)

\* What ErrorsBounded rests on: who is between the send to concurrencyChan and the receive
\* from it has a place there, and of the places at most so many as are not used for an error
\* that was sent are held by goroutines that may still send one.
Inside == {i \in Workers : worker[i].pc \notin {"queued", "done"}}
Trying == {i \in Workers : worker[i].pc \in {"list", "delete", "send"}}

ErrorsInv ==
    /\ concurrency = Cardinality(Inside) /\ concurrency <= ConcurrentOperations
    /\ Len(errorChan) + Cardinality(Trying) <= ConcurrentOperations

\* What CleanIfNoErrors rests on: while no error has been sent, an old image or cluster of a
\* selected project is still to be listed, or has been listed and is still to be deleted,
\* or the goroutine of its project is about to send an error, or its DELETE operation
\* has ended with one.
Ahead(w, x) ==
    \/ w.pc \in {"queued", "admitted", "send"}
    \/ w.pc \in {"list", "delete"} /\ x.repo \in w.repos
    \/ w.pc = "delete" /\ \E l \in w.todo \cup {w.now} : l.item = x

CleanInv ==
    run.pc # "idle" /\ ~run.dryRun /\ errorChan = <<>> =>
        \A i \in Workers, x \in stored :
            x.old /\ x.kind = Kind /\ x.project = run.projects[i] =>
                Ahead(worker[i], x) \/ Undone(x)

\* What CountBounded rests on: everything that is gone, and every operation that has ended
\* with an error, can be given to the goroutine that counts it, or to the counter of Delete,
\* so that none has counted more than it was given.
Counter == 0

Answered == {<<"gone", x>> : x \in gone} \cup {<<"undone", n>> : n \in DOMAIN undone}

Given(own, c) == {a \in Answered : own[a] = c}

Covers(own) ==
    /\ \A i \in Workers : worker[i].count <= Cardinality(Given(own, i))
    /\ count <= Cardinality(Given(own, Counter))

CountInv ==
    /\ gone \cap stored = {}
    /\ \E own \in [Answered -> Workers \cup {Counter}] : Covers(own)

\* Every run ends: each goroutine gets its turn, and no send blocks for ever.
RunsEnd == run.pc # "idle" ~> run.pc = "idle"

=============================================================================
