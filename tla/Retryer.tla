------------------------------ MODULE Retryer ------------------------------
(***************************************************************************)
(* flaky-test-retryer on one pull request: the goroutines that Listen       *)
(* spawns for the messages of failed jobs, and the one GitHub comment in    *)
(* which they keep how often each job was retried.  Pull requests share     *)
(* nothing, so one is enough.  An action is one call to Pub/Sub, GCS or     *)
(* GitHub with the local code up to the next call.                          *)
(***************************************************************************)
EXTENDS Integers, FiniteSets

CONSTANTS
    Jobs,        \* the presubmit jobs of the pull request
    Handlers,    \* slots for HandleJob goroutines
    MaxRetries,  \* maxRetries, 3 in the code
    Faults,      \* which calls may fail halfway, and "restart"
    MaxCommit,   \* bound: commits pushed to the pull request
    MaxComments, \* bound: comments created
    None

\* entriesRegex reads counters of one digit.
ASSUME RetryerAssumption ==
    /\ MaxRetries \in 0 .. 9
    /\ Faults \subseteq {"delete", "create", "restart"}
    /\ MaxCommit \in Nat \ {0}
    /\ MaxComments \in Nat
    /\ None \notin Jobs \cup Int

VARIABLES
    handler,    \* the HandleJob goroutines
    comments,   \* the retryer's comments on the pull request
    created,    \* how many it has created so far
    retests,    \* history: each "/test" command posted
    disturbed   \* history: see Undisturbed at the end

vars == <<handler, comments, created, retests, disturbed>>

githubVars == <<comments, created, retests>>

-----------------------------------------------------------------------------
(* Types.                                                                  *)

\* A comment left by a version that did not write the commit into it.
NoCommit == 0
Commits  == 1 .. MaxCommit
IDs      == Nat

Counters == [Jobs -> 0 .. MaxRetries]
Zero     == [j \in Jobs |-> 0]

\* root is history: the comment that this one goes back to, each having
\* taken over the counters of the one it replaced.
Comment == [id : IDs, sha : {NoCommit} \cup Commits, root : IDs,
            retries : Counters]
Retest  == [id : IDs, root : IDs, sha : Commits, job : Jobs,
            n : 1 .. MaxRetries]

HandlerStates == {"idle", "tests", "list", "delete", "create"}

\* old is the comment to replace; root, retries and retry are the comment to
\* post.
HandleJob == [pc : HandlerStates, job : Jobs \cup {None},
              sha : Commits \cup {None}, outliers : BOOLEAN,
              old : IDs \cup {None}, root : IDs \cup {None},
              retries : Counters, retry : BOOLEAN]

\* The type invariant of the comments and the goroutines.
TypeOK ==
    /\ handler \in [Handlers -> HandleJob]
    /\ comments \subseteq Comment
    /\ created \in Nat
    /\ retests \subseteq Retest
    /\ disturbed \in BOOLEAN

Idle == [pc |-> "idle", job |-> None, sha |-> None, outliers |-> FALSE,
         old |-> None, root |-> None, retries |-> Zero, retry |-> FALSE]

Init ==
    /\ handler = [h \in Handlers |-> Idle]
    /\ comments \in {{}, {[id |-> 0, sha |-> NoCommit, root |-> 0,
                           retries |-> Zero]}}
    /\ created = 0
    /\ retests = {}
    /\ disturbed = FALSE

-----------------------------------------------------------------------------
(* Listen and HandleJob.                                                   *)

Return(h) == handler' = [handler EXCEPT ![h] = Idle]

\* The message of a failed job on some commit.  Pub/Sub may deliver it late, again
\* or, as it is acknowledged when the goroutine has started, never; Prow may send
\* any number of them, as people run jobs again too.  Those that IsSupported drops
\* leave no trace.
Receive(h) ==
    /\ handler[h].pc = "idle"
    /\ \E j \in Jobs, sha \in Commits :
          handler' = [handler EXCEPT ![h].pc = "tests", ![h].job = j,
                                     ![h].sha = sha]
    /\ UNCHANGED <<githubVars, disturbed>>

\* HandleJob up to PostComment: the failed tests of the latest build, whatever
\* build that is by now, and whether there are outliers that the reporter does
\* not know as flaky.  HandleJob returns if no test failed, if the pull request
\* is not open, or if GitHub or GCS cannot be read.
GetTests(h) ==
    /\ handler[h].pc = "tests"
    /\ \/ \E outliers \in BOOLEAN :
             handler' = [handler EXCEPT ![h].pc = "list",
                                        ![h].outliers = outliers]
       \/ Return(h)
    /\ UNCHANGED <<githubVars, disturbed>>

\* Mutant: the counters are never read back.
TakesOverNone(h, c) == FALSE

\* The counters to go on from are those of the old comment if it is about the
\* same commit.
TakesOver(h, c) == c.sha = handler[h].sha

\* Mutant: the new comment has no rows for the other jobs.
BuildNewCommentOwnRow(h, oldID, root, old) ==
    LET j     == handler[h].job
        retry == old[j] < MaxRetries /\ ~handler[h].outliers
    IN  handler' = [handler EXCEPT
           ![h].pc       = IF oldID = None THEN "create" ELSE "delete",
           ![h].outliers = FALSE,
           ![h].old      = oldID,
           ![h].root     = root,
           ![h].retry    = retry,
           ![h].retries  = [Zero EXCEPT ![j] = IF retry THEN old[j] + 1
                                                        ELSE old[j]]]

\* buildNewComment and buildRetryString on the counters old of a comment that
\* goes back to root: whether the job is retried, and the new counters.
BuildNewComment(h, oldID, root, old) ==
    LET j     == handler[h].job
        retry == old[j] < MaxRetries /\ ~handler[h].outliers
    IN  handler' = [handler EXCEPT
           ![h].pc       = IF oldID = None THEN "create" ELSE "delete",
           ![h].outliers = FALSE,
           ![h].old      = oldID,
           ![h].root     = root,
           ![h].retry    = retry,
           ![h].retries  = IF retry THEN [old EXCEPT ![j] = @ + 1] ELSE old]

\* Another goroutine has taken the comment away and not put its own there yet.
Replacing(h) == \E g \in Handlers \ {h} : handler[g].pc = "create"

\* Mutant: the first of several comments is taken.
ListCommentsFirst(h) ==
    /\ handler[h].pc = "list"
    /\ \/ comments = {} /\ BuildNewComment(h, None, None, Zero)
       \/ \E c \in comments :
             IF TakesOver(h, c)
             THEN BuildNewComment(h, c.id, c.root, c.retries)
             ELSE BuildNewComment(h, c.id, None, Zero)
       \/ Return(h)
    /\ disturbed' = (disturbed \/ Replacing(h)
                       \/ \E c \in comments : c.sha > handler[h].sha)
    /\ UNCHANGED githubVars

\* getOldComment and the rest of PostComment up to the next call.  It returns if
\* the comments cannot be read, and always if there are two of them.
ListComments(h) ==
    /\ handler[h].pc = "list"
    /\ \/ comments = {} /\ BuildNewComment(h, None, None, Zero)
       \/ \E c \in comments :
             /\ comments = {c}
             /\ IF TakesOver(h, c)
                THEN BuildNewComment(h, c.id, c.root, c.retries)
                ELSE BuildNewComment(h, c.id, None, Zero)
       \/ Return(h)
    /\ disturbed' = (disturbed \/ Replacing(h)
                       \/ \E c \in comments : c.sha > handler[h].sha)
    /\ UNCHANGED githubVars

\* Mutant: the error of a DELETE is ignored.
DeleteCommentIgnored(h) ==
    /\ handler[h].pc = "delete"
    /\ comments' = {c \in comments : c.id # handler[h].old}
    /\ handler' = [handler EXCEPT ![h].pc = "create"]
    /\ UNCHANGED <<created, retests, disturbed>>

\* A comment can be deleted once: whoever comes second gets an error.  The
\* answer to a DELETE that took effect may be lost.
DeleteComment(h) ==
    LET old == {c \in comments : c.id = handler[h].old} IN
    /\ handler[h].pc = "delete"
    /\ \/ /\ old # {}
          /\ comments' = comments \ old
          /\ handler' = [handler EXCEPT ![h].pc = "create"]
          /\ UNCHANGED disturbed
       \/ /\ old = {} \/ "delete" \in Faults
          /\ Return(h)
          /\ UNCHANGED <<comments, disturbed>>
       \/ /\ old # {} /\ "delete" \in Faults
          /\ Return(h)
          /\ comments' = comments \ old
          /\ disturbed' = TRUE
    /\ UNCHANGED <<created, retests>>

\* What the comment of h would be.
NewComment(h) ==
    LET id == created + 1
    IN  [id |-> id, sha |-> handler[h].sha,
         root |-> IF handler[h].root = None THEN id ELSE handler[h].root,
         retries |-> handler[h].retries]

\* Its "/test" line, if it has one, starts the job in Prow.
Commands(h) ==
    LET c == NewComment(h)
        j == handler[h].job
    IN  IF handler[h].retry
        THEN {[id |-> c.id, root |-> c.root, sha |-> c.sha, job |-> j,
               n |-> c.retries[j]]}
        ELSE {}

CreateComment(h) ==
    /\ handler[h].pc = "create"
    /\ \/ /\ created < MaxComments
          /\ created' = created + 1
          /\ comments' = comments \cup {NewComment(h)}
          /\ retests' = retests \cup Commands(h)
          /\ UNCHANGED disturbed
       \/ /\ "create" \in Faults
          /\ disturbed' = (disturbed \/ handler[h].old # None)
          /\ UNCHANGED githubVars
    /\ Return(h)

\* The process is replaced.  What was acknowledged is not delivered again.
Restart ==
    /\ "restart" \in Faults
    /\ handler' = [h \in Handlers |-> Idle]
    /\ disturbed' = (disturbed \/ \E h \in Handlers :
                        handler[h].pc = "create" /\ handler[h].old # None)
    /\ UNCHANGED githubVars

Next ==
    \/ Restart
    \/ \E h \in Handlers :
          \/ Receive(h) \/ GetTests(h)
          \/ ListComments(h) \/ DeleteComment(h) \/ CreateComment(h)

Spec == Init /\ [][Next]_vars

-----------------------------------------------------------------------------
(* Properties.                                                             *)

\* The "/test" commands for job j on commit sha.
RetestsOf(sha, j) == {r \in retests : r.sha = sha /\ r.job = j}

\* The retries of j that comments going back to root have counted.
Numbers(root, j) == {r.n : r \in {x \in retests : x.root = root /\ x.job = j}}

\* Among the comments that take over each other's counters, the k-th retry of a
\* job is triggered once, whatever goroutines and failures there are: a DELETE
\* succeeds for one of those who have read the same counters.
RetryTriggeredOnce ==
    \A x, y \in retests :
        x.root = y.root /\ x.job = y.job /\ x.n = y.n => x.id = y.id

\* A comment on GitHub records just the retries triggered by the comments it goes
\* back to, those of other jobs included.
RecordTruthful ==
    \A c \in comments, j \in Jobs : Numbers(c.root, j) = 1 .. c.retries[j]

\* A push gives every job its retries anew: counters never pass from the comments
\* of one commit to those of another.
RetriesPerCommit ==
    \A x, y \in retests : x.root = y.root => x.sha = y.sha

\* disturbed is FALSE as long as none of these has happened: a goroutine has
\* listed the comments while another was about to post one, or found a comment of
\* a later commit than its own; a comment was deleted and then, after a lost
\* answer, a failed create or a restart, not replaced.
Undisturbed == ~disturbed

\* Nothing but such a disturbance lets a job be retried more than maxRetries times
\* on a commit.  Redelivered messages, failing reads and concurrent goroutines do
\* not.
UndisturbedBounded ==
    Undisturbed =>
        \A sha \in Commits, j \in Jobs : Cardinality(RetestsOf(sha, j)) <= MaxRetries

\* Nor does anything else leave two comments, after which getOldComment fails.
UndisturbedSingle == Undisturbed => Cardinality(comments) <= 1

\* Nobody is past getOldComment, and it fails for everybody.
Blocked ==
    /\ Cardinality(comments) > 1
    /\ \A h \in Handlers : handler[h].pc \notin {"delete", "create"}

\* Once there are two comments and the goroutines that read earlier are gone, the
\* retryer never again posts or deletes anything on the pull request: only a
\* person can help.
BlockedForGood == [][Blocked => Blocked' /\ UNCHANGED githubVars]_vars

-----------------------------------------------------------------------------
(* Inductive invariants, for the proofs.                                   *)

\* The comment that h has read and is about to delete, if it is still there.
OldComment(h) == {c \in comments : c.id = handler[h].old}

\* What the counter of j was when h read it.
CountedBefore(h, j) ==
    IF handler[h].retry /\ j = handler[h].job THEN handler[h].retries[j] - 1
                                              ELSE handler[h].retries[j]

\* Identifiers are not used twice.
IDsFresh ==
    /\ \A c \in comments : c.id <= created /\ c.root <= created
    /\ \A r \in retests : r.id <= created /\ r.root <= created
    /\ \A h \in Handlers :
          /\ handler[h].old # None => handler[h].old <= created
          /\ handler[h].root # None => handler[h].root <= created
    /\ \A c, d \in comments : c.id = d.id \/ c.root = d.root => c = d

\* A goroutine that is about to post knows the job and the commit, and starts at 0
\* unless it goes on from a comment.
PostingWell ==
    \A h \in Handlers : handler[h].pc \in {"delete", "create"} =>
        /\ handler[h].job \in Jobs /\ handler[h].sha \in Commits
        /\ handler[h].retry => handler[h].retries[handler[h].job] > 0
        /\ handler[h].root = None => \A j \in Jobs : CountedBefore(h, j) = 0

\* As long as the comment it has read is there, its counters are still right.
ReadIsCurrent ==
    \A h \in Handlers : handler[h].pc = "delete" =>
        /\ handler[h].old # None
        /\ \A c \in OldComment(h) : handler[h].root # None =>
              /\ c.root = handler[h].root /\ c.sha = handler[h].sha
              /\ \A j \in Jobs : CountedBefore(h, j) = c.retries[j]

\* Who has deleted a comment is alone in going on from it.
SuccessorAlone ==
    \A h \in Handlers : handler[h].pc = "create" /\ handler[h].root # None =>
        /\ \A c \in comments : c.root # handler[h].root
        /\ \A g \in Handlers : handler[g].pc = "create"
                               /\ handler[g].root = handler[h].root => g = h
        /\ \A r \in retests : r.root = handler[h].root => r.sha = handler[h].sha
        /\ \A j \in Jobs :
              Numbers(handler[h].root, j) = 1 .. CountedBefore(h, j)

\* The retries triggered by a comment and those before it are of its commit.
CommentOfCommit ==
    \A c \in comments, r \in retests : r.root = c.root => r.sha = c.sha

\* Of the comments that take over each other's counters, one at a time is on
\* GitHub or about to be posted, and it carries the truth.  This is inductive and
\* contains RetryTriggeredOnce, RecordTruthful and RetriesPerCommit.
ThreadInv ==
    /\ IDsFresh /\ PostingWell /\ ReadIsCurrent /\ SuccessorAlone
    /\ CommentOfCommit
    /\ RetryTriggeredOnce /\ RecordTruthful /\ RetriesPerCommit

\* Without a disturbance there is one line of comments, from the first commit to
\* the last, with one goroutine at a time between DELETE and create.
UndisturbedInv ==
    Undisturbed =>
        /\ \A c, d \in comments : c = d
        /\ \A h \in Handlers : handler[h].pc = "create" =>
              /\ comments = {}
              /\ \A g \in Handlers : handler[g].pc = "create" => g = h
              /\ handler[h].old = None => retests = {}
              /\ \A r \in retests : r.sha <= handler[h].sha
              /\ \A r \in retests : r.sha = handler[h].sha =>
                                        r.root = handler[h].root
        /\ \A h \in Handlers : handler[h].pc = "delete" =>
              \A c \in OldComment(h) :
                 /\ c.sha <= handler[h].sha
                 /\ handler[h].root = None => c.sha < handler[h].sha
        /\ \A c \in comments, r \in retests :
              r.sha <= c.sha /\ (r.sha = c.sha => r.root = c.root)
        /\ \/ comments # {} \/ retests = {}
           \/ \E h \in Handlers : handler[h].pc = "create"
        /\ \A x, y \in retests : x.sha = y.sha => x.root = y.root

=============================================================================
