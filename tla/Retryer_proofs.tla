--------------------------- MODULE Retryer_proofs ---------------------------
(***************************************************************************)
(* What holds of the retryer for any jobs, commits and goroutines, any      *)
(* number of retries and every set of faults.                               *)
(***************************************************************************)
EXTENDS Retryer, FiniteSetTheorems, TLAPS

-----------------------------------------------------------------------------
(* Types.                                                                  *)

\* No job has been retried in a fresh table.
LEMMA ZeroType == Zero \in Counters
  BY RetryerAssumption DEF Zero, Counters

\* An idle goroutine has locals of the right types.
LEMMA IdleType == Idle \in HandleJob
  BY ZeroType DEF Idle, HandleJob, HandlerStates

\* buildNewComment keeps counters within 0 .. maxRetries.
LEMMA BuildType ==
  ASSUME TypeOK, NEW h \in Handlers, handler[h].job \in Jobs,
         NEW oldID \in IDs \cup {None}, NEW root \in IDs \cup {None},
         NEW old \in Counters, BuildNewComment(h, oldID, root, old)
  PROVE  handler' \in [Handlers -> HandleJob]
<1> DEFINE j     == handler[h].job
           retry == old[j] < MaxRetries /\ ~handler[h].outliers
           new   == IF retry THEN [old EXCEPT ![j] = @ + 1] ELSE old
<1>1. new \in Counters
  BY RetryerAssumption DEF Counters
<1>2. retry \in BOOLEAN
  OBVIOUS
<1> HIDE DEF new, retry
<1>3. handler' = [handler EXCEPT
           ![h].pc       = IF oldID = None THEN "create" ELSE "delete",
           ![h].outliers = FALSE,
           ![h].old      = oldID,
           ![h].root     = root,
           ![h].retry    = retry,
           ![h].retries  = new]
  BY DEF BuildNewComment, new, retry
<1> DEFINE pc    == IF oldID = None THEN "create" ELSE "delete"
           local == [handler[h] EXCEPT !.pc = pc, !.outliers = FALSE,
                       !.old = oldID, !.root = root, !.retry = retry,
                       !.retries = new]
<1>4. local \in HandleJob
  <2>1. handler[h] \in HandleJob
    BY DEF TypeOK
  <2>2. pc \in HandlerStates
    BY DEF HandlerStates
  <2> HIDE DEF pc
  <2>3. QED
    BY <1>1, <1>2, <2>1, <2>2 DEF HandleJob
<1>5. handler' = [handler EXCEPT ![h] = local]
  BY <1>3
<1> HIDE DEF local
<1>6. QED
  BY <1>4, <1>5 DEF TypeOK

\* A goroutine past IsSupported knows its job and commit.
KnowsJob ==
    \A h \in Handlers : handler[h].pc # "idle" =>
        handler[h].job \in Jobs /\ handler[h].sha \in Commits

\* What a goroutine about to post may say.
RetryCounted ==
    \A h \in Handlers : handler[h].pc \in {"delete", "create"} /\ handler[h].retry =>
        handler[h].retries[handler[h].job] > 0

TypeInv == TypeOK /\ KnowsJob /\ RetryCounted

LEMMA TypeInit == Init => TypeInv
<1> SUFFICES ASSUME Init PROVE TypeInv
  OBVIOUS
<1>1. handler \in [Handlers -> HandleJob]
  BY IdleType DEF Init
<1>2. comments \subseteq Comment
  BY ZeroType DEF Init, Comment, IDs, NoCommit
<1>3. QED
  BY <1>1, <1>2 DEF Init, TypeInv, TypeOK, KnowsJob, RetryCounted, Idle

LEMMA TypeReceive ==
  ASSUME TypeInv, NEW h \in Handlers, Receive(h)
  PROVE  TypeInv'
<1>1. PICK j \in Jobs, sha \in Commits :
        handler' = [handler EXCEPT ![h].pc = "tests", ![h].job = j, ![h].sha = sha]
  BY DEF Receive
<1> DEFINE local == [handler[h] EXCEPT !.pc = "tests", !.job = j, !.sha = sha]
<1>2. handler[h] \in HandleJob
  BY DEF TypeInv, TypeOK
<1>3. /\ local \in HandleJob
      /\ local.pc = "tests" /\ local.job = j /\ local.sha = sha
  BY <1>2 DEF HandleJob, HandlerStates
<1>4. handler' = [handler EXCEPT ![h] = local]
  BY <1>1
<1> HIDE DEF local
<1>5. TypeOK'
  BY <1>3, <1>4 DEF TypeInv, TypeOK, Receive, githubVars
<1>6. KnowsJob' /\ RetryCounted'
  BY <1>3, <1>4 DEF TypeInv, TypeOK, KnowsJob, RetryCounted
<1>7. QED
  BY <1>5, <1>6 DEF TypeInv

LEMMA ReturnType ==
  ASSUME TypeInv, NEW h \in Handlers, Return(h)
  PROVE  handler' \in [Handlers -> HandleJob] /\ KnowsJob' /\ RetryCounted'
<1>1. handler' \in [Handlers -> HandleJob]
  BY IdleType DEF TypeInv, TypeOK, Return
<1>2. \A g \in Handlers : handler'[g] = handler[g] \/ handler'[g] = Idle
  BY DEF TypeInv, TypeOK, Return
<1>3. QED
  BY <1>1, <1>2 DEF TypeInv, KnowsJob, RetryCounted, Idle

LEMMA TypeGetTests ==
  ASSUME TypeInv, NEW h \in Handlers, GetTests(h)
  PROVE  TypeInv'
<1>1. CASE Return(h)
  BY <1>1, ReturnType DEF GetTests, TypeInv, TypeOK, githubVars
<1>2. ASSUME NEW outliers \in BOOLEAN,
             handler' = [handler EXCEPT ![h].pc = "list", ![h].outliers = outliers]
      PROVE  TypeInv'
  <2> DEFINE local == [handler[h] EXCEPT !.pc = "list", !.outliers = outliers]
  <2>1. handler[h] \in HandleJob
    BY DEF TypeInv, TypeOK
  <2>2. /\ local \in HandleJob /\ local.pc = "list"
        /\ local.job = handler[h].job /\ local.sha = handler[h].sha
    BY <2>1 DEF HandleJob, HandlerStates
  <2>3. handler' = [handler EXCEPT ![h] = local]
    BY <1>2
  <2> HIDE DEF local
  <2>4. TypeOK'
    BY <2>2, <2>3 DEF TypeInv, TypeOK, GetTests, githubVars
  <2>5. KnowsJob' /\ RetryCounted'
    BY <2>2, <2>3 DEF TypeInv, TypeOK, GetTests, KnowsJob, RetryCounted
  <2>6. QED
    BY <2>4, <2>5 DEF TypeInv
<1>3. QED
  BY <1>1, <1>2 DEF GetTests

\* After getOldComment a goroutine either returns or has built a comment from the
\* counters of one it goes on from, or from nothing.
LEMMA BuildKnows ==
  ASSUME TypeInv, NEW h \in Handlers, handler[h].pc = "list",
         NEW oldID \in IDs \cup {None}, NEW root \in IDs \cup {None},
         NEW old \in Counters, BuildNewComment(h, oldID, root, old)
  PROVE  /\ handler' \in [Handlers -> HandleJob]
         /\ KnowsJob' /\ RetryCounted'
<1> DEFINE j     == handler[h].job
           retry == old[j] < MaxRetries /\ ~handler[h].outliers
           new   == IF retry THEN [old EXCEPT ![j] = @ + 1] ELSE old
<1>1. j \in Jobs /\ handler[h].sha \in Commits
  BY DEF TypeInv, KnowsJob
<1>2. handler' \in [Handlers -> HandleJob]
  BY <1>1, BuildType DEF TypeInv
<1>3. retry => new[j] > 0
  BY <1>1, RetryerAssumption DEF Counters
<1>4. retry \in BOOLEAN /\ new \in Counters
  BY <1>1, RetryerAssumption DEF Counters
<1> HIDE DEF new, retry
<1>5. handler' = [handler EXCEPT
           ![h].pc       = IF oldID = None THEN "create" ELSE "delete",
           ![h].outliers = FALSE,
           ![h].old      = oldID,
           ![h].root     = root,
           ![h].retry    = retry,
           ![h].retries  = new]
  BY DEF BuildNewComment, new, retry
<1>6. \A g \in Handlers \ {h} : handler'[g] = handler[g]
  BY <1>5 DEF TypeInv, TypeOK
<1>7. /\ handler'[h].job = j /\ handler'[h].sha = handler[h].sha
      /\ handler'[h].retry = retry /\ handler'[h].retries = new
  BY <1>5 DEF TypeInv, TypeOK, HandleJob
<1>8. KnowsJob'
  BY <1>1, <1>6, <1>7 DEF TypeInv, KnowsJob
<1>9. RetryCounted'
  BY <1>3, <1>6, <1>7 DEF TypeInv, RetryCounted
<1>10. QED
  BY <1>2, <1>8, <1>9

LEMMA TypeListComments ==
  ASSUME TypeInv, NEW h \in Handlers, ListComments(h)
  PROVE  TypeInv'
<1>1. handler' \in [Handlers -> HandleJob] /\ KnowsJob' /\ RetryCounted'
  <2>1. CASE BuildNewComment(h, None, None, Zero)
    BY <2>1, BuildKnows, ZeroType DEF ListComments
  <2>2. ASSUME NEW c \in comments, BuildNewComment(h, c.id, c.root, c.retries)
        PROVE  handler' \in [Handlers -> HandleJob] /\ KnowsJob' /\ RetryCounted'
    <3>1. c.id \in IDs /\ c.root \in IDs /\ c.retries \in Counters
      BY DEF TypeInv, TypeOK, Comment
    <3>2. QED
      BY <2>2, <3>1, BuildKnows DEF ListComments
  <2>3. ASSUME NEW c \in comments, BuildNewComment(h, c.id, None, Zero)
        PROVE  handler' \in [Handlers -> HandleJob] /\ KnowsJob' /\ RetryCounted'
    <3>1. c.id \in IDs
      BY DEF TypeInv, TypeOK, Comment
    <3>2. QED
      BY <2>3, <3>1, ZeroType, BuildKnows DEF ListComments
  <2>4. CASE Return(h)
    BY <2>4, ReturnType
  <2>5. QED
    BY <2>1, <2>2, <2>3, <2>4 DEF ListComments
<1>2. disturbed' \in BOOLEAN
  BY DEF ListComments, TypeInv, TypeOK
<1>3. QED
  BY <1>1, <1>2 DEF ListComments, TypeInv, TypeOK, githubVars

LEMMA TypeDeleteComment ==
  ASSUME TypeInv, NEW h \in Handlers, DeleteComment(h)
  PROVE  TypeInv'
<1>1. comments' \subseteq Comment /\ disturbed' \in BOOLEAN
  BY DEF DeleteComment, TypeInv, TypeOK
<1>2. CASE Return(h)
  BY <1>1, <1>2, ReturnType DEF DeleteComment, TypeInv, TypeOK
<1>3. CASE handler' = [handler EXCEPT ![h].pc = "create"]
  <2>1. handler' \in [Handlers -> HandleJob]
    BY <1>3 DEF TypeInv, TypeOK, HandleJob, HandlerStates
  <2>2. KnowsJob' /\ RetryCounted'
    BY <1>3 DEF DeleteComment, TypeInv, TypeOK, HandleJob, KnowsJob, RetryCounted
  <2>3. QED
    BY <1>1, <2>1, <2>2 DEF DeleteComment, TypeInv, TypeOK
<1>4. QED
  BY <1>2, <1>3 DEF DeleteComment

\* A comment, and the "/test" in it, has the right type.
LEMMA NewCommentType ==
  ASSUME TypeInv, NEW h \in Handlers, handler[h].pc = "create"
  PROVE  NewComment(h) \in Comment /\ Commands(h) \subseteq Retest
<1>1. /\ handler[h].job \in Jobs /\ handler[h].sha \in Commits
      /\ handler[h].retries \in Counters
      /\ handler[h].root \in IDs \cup {None}
      /\ created + 1 \in IDs
  BY DEF TypeInv, TypeOK, KnowsJob, HandleJob, IDs
<1>2. NewComment(h) \in Comment
  BY <1>1 DEF NewComment, Comment
<1>3. handler[h].retry => handler[h].retries[handler[h].job] \in 1 .. MaxRetries
  BY <1>1, RetryerAssumption DEF TypeInv, RetryCounted, Counters
<1>4. Commands(h) \subseteq Retest
  <2>1. CASE ~handler[h].retry
    BY <2>1 DEF Commands
  <2>2. CASE handler[h].retry
    BY <1>1, <1>3, <2>2 DEF Commands, NewComment, Retest
  <2>3. QED
    BY <2>1, <2>2
<1>5. QED
  BY <1>2, <1>4

LEMMA TypeCreateComment ==
  ASSUME TypeInv, NEW h \in Handlers, CreateComment(h)
  PROVE  TypeInv'
<1>1. handler' \in [Handlers -> HandleJob] /\ KnowsJob' /\ RetryCounted'
  BY ReturnType DEF CreateComment
<1>2. NewComment(h) \in Comment /\ Commands(h) \subseteq Retest
  BY NewCommentType DEF CreateComment
<1>3. /\ comments' \subseteq Comment /\ retests' \subseteq Retest
      /\ created' \in Nat /\ disturbed' \in BOOLEAN
  <2>1. CASE UNCHANGED githubVars
    BY <2>1 DEF CreateComment, TypeInv, TypeOK, githubVars
  <2>2. CASE /\ created' = created + 1
             /\ comments' = comments \cup {NewComment(h)}
             /\ retests' = retests \cup Commands(h)
             /\ UNCHANGED disturbed
    BY <1>2, <2>2 DEF TypeInv, TypeOK
  <2>3. QED
    BY <2>1, <2>2 DEF CreateComment
<1>4. QED
  BY <1>1, <1>3 DEF TypeInv, TypeOK

LEMMA TypeRestart == TypeInv /\ Restart => TypeInv'
<1> SUFFICES ASSUME TypeInv, Restart PROVE TypeInv'
  OBVIOUS
<1>1. handler' \in [Handlers -> HandleJob]
  BY IdleType DEF Restart
<1>2. \A h \in Handlers : handler'[h] = Idle
  BY DEF Restart
<1>3. disturbed' \in BOOLEAN
  BY DEF Restart, TypeInv, TypeOK
<1>4. QED
  BY <1>1, <1>2, <1>3 DEF Restart, TypeInv, TypeOK, githubVars, KnowsJob,
       RetryCounted, Idle

LEMMA TypeNext == TypeInv /\ [Next]_vars => TypeInv'
<1> SUFFICES ASSUME TypeInv, [Next]_vars PROVE TypeInv'
  OBVIOUS
<1>1. CASE UNCHANGED vars
  BY <1>1 DEF vars, TypeInv, TypeOK, KnowsJob, RetryCounted
<1>2. CASE Restart
  BY <1>2, TypeRestart
<1>3. ASSUME NEW h \in Handlers, Receive(h) PROVE TypeInv'
  BY <1>3, TypeReceive
<1>4. ASSUME NEW h \in Handlers, GetTests(h) PROVE TypeInv'
  BY <1>4, TypeGetTests
<1>5. ASSUME NEW h \in Handlers, ListComments(h) PROVE TypeInv'
  BY <1>5, TypeListComments
<1>6. ASSUME NEW h \in Handlers, DeleteComment(h) PROVE TypeInv'
  BY <1>6, TypeDeleteComment
<1>7. ASSUME NEW h \in Handlers, CreateComment(h) PROVE TypeInv'
  BY <1>7, TypeCreateComment
<1>8. QED
  BY <1>1, <1>2, <1>3, <1>4, <1>5, <1>6, <1>7 DEF Next

LEMMA TypeInvariant == Spec => []TypeInv
  BY TypeInit, TypeNext, PTL DEF Spec

\* Types are right, in particular no counter ever exceeds maxRetries: from the
\* comment, where counters are read back, through buildRetryString.
THEOREM TypeCorrect == Spec => []TypeOK
<1>1. TypeInv => TypeOK
  BY DEF TypeInv
<1>2. QED
  BY <1>1, TypeInvariant, PTL

-----------------------------------------------------------------------------
(* Comments that go on from each other.                                    *)

IInv == TypeInv /\ ThreadInv /\ UndisturbedInv

LEMMA IInit == Init => ThreadInv /\ UndisturbedInv
<1> SUFFICES ASSUME Init PROVE ThreadInv /\ UndisturbedInv
  OBVIOUS
<1>1. \A h \in Handlers : handler[h].pc = "idle" /\ handler[h].old = None
                          /\ handler[h].root = None
  BY DEF Init, Idle
<1>2. /\ retests = {} /\ created = 0
      /\ \A c, d \in comments : c = d
      /\ \A c \in comments : c.id = 0 /\ c.root = 0 /\ c.retries = Zero
  BY DEF Init
<1>3. IDsFresh
  BY <1>1, <1>2 DEF IDsFresh
<1>4. PostingWell /\ ReadIsCurrent /\ SuccessorAlone
  BY <1>1 DEF PostingWell, ReadIsCurrent, SuccessorAlone
<1>5. RecordTruthful
  <2>1. \A c \in comments, j \in Jobs : c.retries[j] = 0
    BY <1>2 DEF Zero
  <2>2. \A root, j : Numbers(root, j) = {}
    BY <1>2 DEF Numbers
  <2>3. 1 .. 0 = {}
    OBVIOUS
  <2>4. QED
    BY <2>1, <2>2, <2>3 DEF RecordTruthful
<1>6. CommentOfCommit /\ RetryTriggeredOnce /\ RetriesPerCommit
  BY <1>2 DEF CommentOfCommit, RetryTriggeredOnce, RetriesPerCommit
<1>7. UndisturbedInv
  BY <1>1, <1>2 DEF UndisturbedInv
<1>8. QED
  BY <1>3, <1>4, <1>5, <1>6, <1>7 DEF ThreadInv

\* Nothing is lost while nothing happens on GitHub and goroutines only return or
\* come no further than "list": the counters are in the comments.
LEMMA ThreadKeeps ==
  ASSUME ThreadInv, UNCHANGED githubVars,
         \A g \in Handlers :
            \/ handler'[g] = handler[g]
            \/ /\ handler'[g].pc \notin {"delete", "create"}
               /\ handler'[g].old \in {None, handler[g].old}
               /\ handler'[g].root \in {None, handler[g].root}
  PROVE  ThreadInv'
<1>1. comments' = comments /\ created' = created /\ retests' = retests
  BY DEF githubVars
<1>2. \A root, j : Numbers(root, j)' = Numbers(root, j)
  BY <1>1 DEF Numbers
<1>3. \A g \in Handlers : handler'[g].pc \in {"delete", "create"} =>
                            handler'[g] = handler[g]
  OBVIOUS
<1>4. \A g \in Handlers : handler'[g] = handler[g] =>
        \A j : CountedBefore(g, j)' = CountedBefore(g, j)
  BY DEF CountedBefore
<1>5. IDsFresh'
  BY <1>1 DEF ThreadInv, IDsFresh
<1>6. PostingWell'
  BY <1>3, <1>4 DEF ThreadInv, PostingWell
<1>7. ReadIsCurrent'
  <2>1. \A g \in Handlers : handler'[g] = handler[g] => OldComment(g)' = OldComment(g)
    BY <1>1 DEF OldComment
  <2>2. QED
    BY <1>3, <1>4, <2>1 DEF ThreadInv, ReadIsCurrent
<1>8. SuccessorAlone'
  BY <1>1, <1>2, <1>3, <1>4 DEF ThreadInv, SuccessorAlone
<1>9. (/\ CommentOfCommit /\ RetryTriggeredOnce /\ RecordTruthful
       /\ RetriesPerCommit)'
  BY <1>1, <1>2 DEF ThreadInv, CommentOfCommit, RetryTriggeredOnce, RecordTruthful,
       RetriesPerCommit
<1>10. QED
  BY <1>5, <1>6, <1>7, <1>8, <1>9 DEF ThreadInv

\* Nor does that disturb anything, unless a goroutine returns between DELETE and
\* create.
LEMMA UndisturbedKeeps ==
  ASSUME UndisturbedInv, UNCHANGED githubVars, ~disturbed' => ~disturbed,
         \A g \in Handlers :
            \/ handler'[g] = handler[g]
            \/ /\ handler'[g].pc \notin {"delete", "create"}
               /\ ~disturbed' /\ handler[g].pc = "create" => handler[g].old = None
  PROVE  UndisturbedInv'
<1> SUFFICES ASSUME Undisturbed' PROVE UndisturbedInv'
  BY DEF UndisturbedInv
<1>1. comments' = comments /\ retests' = retests
  BY DEF githubVars
<1>2. Undisturbed
  BY DEF Undisturbed
<1>3. \A g \in Handlers : handler'[g].pc \in {"delete", "create"} =>
                            handler'[g] = handler[g]
  OBVIOUS
<1>4. \A g \in Handlers : handler'[g] = handler[g] => OldComment(g)' = OldComment(g)
  BY <1>1 DEF OldComment
<1>5. \A h \in Handlers : handler'[h].pc = "create" =>
              /\ comments' = {}
              /\ \A g \in Handlers : handler'[g].pc = "create" => g = h
              /\ handler'[h].old = None => retests' = {}
              /\ \A r \in retests' : r.sha <= handler'[h].sha
              /\ \A r \in retests' : r.sha = handler'[h].sha =>
                                         r.root = handler'[h].root
  BY <1>1, <1>2, <1>3 DEF UndisturbedInv
<1>6. \A h \in Handlers : handler'[h].pc = "delete" =>
              \A c \in OldComment(h)' :
                 /\ c.sha <= handler'[h].sha
                 /\ handler'[h].root = None => c.sha < handler'[h].sha
  BY <1>2, <1>3, <1>4 DEF UndisturbedInv
<1>7. \/ comments' # {} \/ retests' = {}
      \/ \E h \in Handlers : handler'[h].pc = "create"
  <2>1. ASSUME NEW h \in Handlers, handler[h].pc = "create"
        PROVE  retests' = {} \/ handler'[h].pc = "create"
    <3>1. CASE handler'[h] = handler[h]
      BY <2>1, <3>1
    <3>2. CASE handler[h].old = None
      BY <1>1, <1>2, <2>1, <3>2 DEF UndisturbedInv
    <3>3. QED
      BY <2>1, <3>1, <3>2 DEF Undisturbed
  <2>2. QED
    BY <1>1, <1>2, <2>1 DEF UndisturbedInv
<1>8. (\A c, d \in comments : c = d)' /\ (\A x, y \in retests : x.sha = y.sha => x.root = y.root)'
      /\ (\A c \in comments, r \in retests :
              r.sha <= c.sha /\ (r.sha = c.sha => r.root = c.root))'
  BY <1>1, <1>2 DEF UndisturbedInv
<1>9. QED
  BY <1>5, <1>6, <1>7, <1>8 DEF UndisturbedInv

\* The actions of the two lemmas above.
LEMMA ReturnKeeps ==
  ASSUME IInv, NEW h \in Handlers, Return(h), UNCHANGED githubVars,
         ~disturbed' => ~disturbed,
         ~disturbed' /\ handler[h].pc = "create" => handler[h].old = None
  PROVE  ThreadInv' /\ UndisturbedInv'
<1>1. \A g \in Handlers \ {h} : handler'[g] = handler[g]
  BY DEF IInv, TypeInv, TypeOK, Return
<1>2. handler'[h] = Idle
  BY DEF IInv, TypeInv, TypeOK, Return
<1>3. ThreadInv'
  BY <1>1, <1>2, ThreadKeeps DEF IInv, Idle
<1>4. UndisturbedInv'
  BY <1>1, <1>2, UndisturbedKeeps DEF IInv, Idle
<1>5. QED
  BY <1>3, <1>4

LEMMA RestartKeeps == IInv /\ Restart => ThreadInv' /\ UndisturbedInv'
<1> SUFFICES ASSUME IInv, Restart PROVE ThreadInv' /\ UndisturbedInv'
  OBVIOUS
<1>1. \A g \in Handlers : handler'[g] = Idle
  BY DEF Restart
<1>2. ThreadInv'
  BY <1>1, ThreadKeeps DEF IInv, Idle, Restart
<1>3. \A g \in Handlers : ~disturbed' /\ handler[g].pc = "create" => handler[g].old = None
  BY DEF Restart
<1>4. ~disturbed' => ~disturbed
  BY DEF Restart
<1>5. UndisturbedInv'
  BY <1>1, <1>3, <1>4, UndisturbedKeeps DEF IInv, Idle, Restart
<1>6. QED
  BY <1>2, <1>5

LEMMA ReceiveKeeps ==
  ASSUME IInv, NEW h \in Handlers, Receive(h)
  PROVE  ThreadInv' /\ UndisturbedInv'
<1>1. \A g \in Handlers \ {h} : handler'[g] = handler[g]
  BY DEF IInv, TypeInv, TypeOK, Receive
<1>2. /\ handler'[h].pc = "tests"
      /\ handler'[h].old = handler[h].old /\ handler'[h].root = handler[h].root
  BY DEF IInv, TypeInv, TypeOK, HandleJob, Receive
<1>3. ThreadInv'
  BY <1>1, <1>2, ThreadKeeps DEF IInv, Receive
<1>4. UndisturbedInv'
  BY <1>1, <1>2, UndisturbedKeeps DEF IInv, Receive
<1>5. QED
  BY <1>3, <1>4

LEMMA GetTestsKeeps ==
  ASSUME IInv, NEW h \in Handlers, GetTests(h)
  PROVE  ThreadInv' /\ UndisturbedInv'
<1>1. CASE Return(h)
  BY <1>1, ReturnKeeps DEF GetTests
<1>2. ASSUME NEW outliers \in BOOLEAN,
             handler' = [handler EXCEPT ![h].pc = "list", ![h].outliers = outliers]
      PROVE  ThreadInv' /\ UndisturbedInv'
  <2>1. \A g \in Handlers \ {h} : handler'[g] = handler[g]
    BY <1>2 DEF IInv, TypeInv, TypeOK
  <2>2. /\ handler'[h].pc = "list"
        /\ handler'[h].old = handler[h].old /\ handler'[h].root = handler[h].root
    BY <1>2 DEF IInv, TypeInv, TypeOK, HandleJob
  <2>3. ThreadInv'
    BY <2>1, <2>2, ThreadKeeps DEF IInv, GetTests
  <2>4. UndisturbedInv'
    BY <2>1, <2>2, UndisturbedKeeps DEF IInv, GetTests
  <2>5. QED
    BY <2>3, <2>4
<1>3. QED
  BY <1>1, <1>2 DEF GetTests

-----------------------------------------------------------------------------
(* PostComment.                                                            *)

\* What buildNewComment leaves in the goroutine's locals.
LEMMA Built ==
  ASSUME TypeInv, NEW h \in Handlers, handler[h].pc = "list",
         NEW oldID \in IDs \cup {None}, NEW root \in IDs \cup {None},
         NEW old \in Counters, BuildNewComment(h, oldID, root, old)
  PROVE  /\ \A g \in Handlers \ {h} : handler'[g] = handler[g]
         /\ handler'[h].pc = IF oldID = None THEN "create" ELSE "delete"
         /\ handler'[h].job \in Jobs /\ handler'[h].sha \in Commits
         /\ handler'[h].sha = handler[h].sha
         /\ handler'[h].old = oldID /\ handler'[h].root = root
         /\ handler'[h].retry => handler'[h].retries[handler'[h].job] > 0
         /\ \A j \in Jobs : CountedBefore(h, j)' = old[j]
<1> DEFINE j     == handler[h].job
           retry == old[j] < MaxRetries /\ ~handler[h].outliers
           new   == IF retry THEN [old EXCEPT ![j] = @ + 1] ELSE old
<1>1. j \in Jobs /\ handler[h].sha \in Commits
  BY DEF TypeInv, KnowsJob
<1>2. /\ retry => new[j] > 0
      /\ \A k \in Jobs : (IF retry /\ k = j THEN new[k] - 1 ELSE new[k]) = old[k]
  BY <1>1, RetryerAssumption DEF Counters
<1> HIDE DEF new, retry
<1>3. handler' = [handler EXCEPT
           ![h].pc       = IF oldID = None THEN "create" ELSE "delete",
           ![h].outliers = FALSE,
           ![h].old      = oldID,
           ![h].root     = root,
           ![h].retry    = retry,
           ![h].retries  = new]
  BY DEF BuildNewComment, new, retry
<1>4. \A g \in Handlers \ {h} : handler'[g] = handler[g]
  BY <1>3 DEF TypeInv, TypeOK
<1>5. /\ handler'[h].pc = IF oldID = None THEN "create" ELSE "delete"
      /\ handler'[h].job = j /\ handler'[h].sha = handler[h].sha
      /\ handler'[h].old = oldID /\ handler'[h].root = root
      /\ handler'[h].retry = retry /\ handler'[h].retries = new
  BY <1>3 DEF TypeInv, TypeOK, HandleJob
<1>6. \A k \in Jobs : CountedBefore(h, k)' = old[k]
  BY <1>2, <1>5 DEF CountedBefore
<1>7. QED
  BY <1>1, <1>2, <1>4, <1>5, <1>6

\* With no comment to go on from, or with one that it has read, a goroutine that
\* has built its comment is no obstacle to the others.
LEMMA BuiltThread ==
  ASSUME IInv, UNCHANGED githubVars, NEW h \in Handlers,
         \A g \in Handlers \ {h} : handler'[g] = handler[g],
         handler'[h].job \in Jobs, handler'[h].sha \in Commits,
         handler'[h].retry => handler'[h].retries[handler'[h].job] > 0,
         handler'[h].pc = "create" => handler'[h].root = None /\ handler'[h].old = None,
         handler'[h].pc = "delete" => handler'[h].old # None,
         handler'[h].old # None => handler'[h].old <= created,
         handler'[h].root = None => \A j \in Jobs : CountedBefore(h, j)' = 0,
         handler'[h].root # None =>
            /\ handler'[h].root <= created
            /\ \A c \in OldComment(h)' :
                  /\ c.root = handler'[h].root /\ c.sha = handler'[h].sha
                  /\ \A j \in Jobs : CountedBefore(h, j)' = c.retries[j]
  PROVE  ThreadInv'
<1>1. comments' = comments /\ created' = created /\ retests' = retests
  BY DEF githubVars
<1>2. \A root, j : Numbers(root, j)' = Numbers(root, j)
  BY <1>1 DEF Numbers
<1>3. \A g \in Handlers \ {h} : \A j : CountedBefore(g, j)' = CountedBefore(g, j)
  BY DEF CountedBefore
<1>4. \A g \in Handlers \ {h} : OldComment(g)' = OldComment(g)
  BY <1>1 DEF OldComment
<1>5. IDsFresh'
  BY <1>1 DEF IInv, ThreadInv, IDsFresh
<1>6. PostingWell'
  BY <1>3 DEF IInv, ThreadInv, PostingWell
<1>7. ReadIsCurrent'
  BY <1>3, <1>4 DEF IInv, ThreadInv, ReadIsCurrent
<1>8. SuccessorAlone'
  BY <1>1, <1>2, <1>3 DEF IInv, ThreadInv, SuccessorAlone
<1>9. (/\ CommentOfCommit /\ RetryTriggeredOnce /\ RecordTruthful
       /\ RetriesPerCommit)'
  BY <1>1, <1>2 DEF IInv, ThreadInv, CommentOfCommit, RetryTriggeredOnce,
       RecordTruthful, RetriesPerCommit
<1>10. QED
  BY <1>5, <1>6, <1>7, <1>8, <1>9 DEF ThreadInv

\* Who lists the comments while nobody is replacing them, and finds none of a later
\* commit, sees all there is to see.
LEMMA BuiltUndisturbed ==
  ASSUME IInv, UNCHANGED githubVars, NEW h \in Handlers,
         \A g \in Handlers \ {h} : handler'[g] = handler[g],
         handler[h].pc = "list",
         ~disturbed' => ~disturbed /\ ~Replacing(h),
         handler'[h].pc = "create" => comments = {},
         ~disturbed' /\ handler'[h].pc = "delete" =>
            \A c \in OldComment(h)' :
               /\ c.sha <= handler'[h].sha
               /\ handler'[h].root = None => c.sha < handler'[h].sha
  PROVE  UndisturbedInv'
<1> SUFFICES ASSUME Undisturbed' PROVE UndisturbedInv'
  BY DEF UndisturbedInv
<1>1. comments' = comments /\ retests' = retests
  BY DEF githubVars
<1>2. Undisturbed /\ ~Replacing(h)
  BY DEF Undisturbed
<1>3. \A g \in Handlers : handler[g].pc # "create"
  BY <1>2 DEF Replacing
<1>4. comments = {} => retests = {}
  BY <1>2, <1>3 DEF IInv, UndisturbedInv
<1>5. \A g \in Handlers : handler'[g].pc = "create" => g = h /\ comments' = {} /\ retests' = {}
  BY <1>1, <1>3, <1>4
<1>6. \A g \in Handlers \ {h} : OldComment(g)' = OldComment(g)
  BY <1>1 DEF OldComment
<1>7. \A g \in Handlers : handler'[g].pc = "delete" =>
              \A c \in OldComment(g)' :
                 /\ c.sha <= handler'[g].sha
                 /\ handler'[g].root = None => c.sha < handler'[g].sha
  BY <1>2, <1>6 DEF IInv, UndisturbedInv, Undisturbed
<1>8. /\ \A c, d \in comments' : c = d
      /\ \A x, y \in retests' : x.sha = y.sha => x.root = y.root
      /\ \A c \in comments', r \in retests' :
            r.sha <= c.sha /\ (r.sha = c.sha => r.root = c.root)
      /\ comments' # {} \/ retests' = {}
  BY <1>1, <1>2, <1>4 DEF IInv, UndisturbedInv
<1>9. QED
  BY <1>5, <1>7, <1>8 DEF UndisturbedInv

LEMMA ListCommentsKeeps ==
  ASSUME IInv, NEW h \in Handlers, ListComments(h)
  PROVE  ThreadInv' /\ UndisturbedInv'
<1>1. /\ TypeInv /\ handler[h].pc = "list" /\ UNCHANGED githubVars
      /\ ~disturbed' => /\ ~disturbed /\ ~Replacing(h)
                        /\ \A c \in comments : ~(c.sha > handler[h].sha)
  BY DEF IInv, ListComments
<1>2. comments' = comments
  BY <1>1 DEF githubVars
<1>3. /\ \A c \in comments :
            c.id \in Nat /\ c.root \in Nat /\ c.retries \in Counters /\ c.sha \in Nat
      /\ handler[h].sha \in Nat
  <2>1. \A c \in comments : c \in Comment
    BY <1>1 DEF TypeInv, TypeOK
  <2>2. Commits \subseteq Nat /\ NoCommit \in Nat
    BY DEF Commits, NoCommit
  <2>3. handler[h].sha \in Commits
    BY <1>1 DEF TypeInv, KnowsJob
  <2>4. QED
    BY <2>1, <2>2, <2>3 DEF Comment, IDs
<1>4. \A c \in comments :
         c.id <= created /\ c.root <= created /\ c.id # None /\ c.root # None
  BY <1>3, RetryerAssumption DEF IInv, ThreadInv, IDsFresh
<1>5. CASE comments = {} /\ BuildNewComment(h, None, None, Zero)
  <2>1. /\ \A g \in Handlers \ {h} : handler'[g] = handler[g]
        /\ handler'[h].pc = "create"
        /\ handler'[h].job \in Jobs /\ handler'[h].sha \in Commits
        /\ handler'[h].old = None /\ handler'[h].root = None
        /\ handler'[h].retry => handler'[h].retries[handler'[h].job] > 0
        /\ \A j \in Jobs : CountedBefore(h, j)' = Zero[j]
    <3>1. None \in IDs \cup {None} /\ Zero \in Counters
      BY ZeroType
    <3>2. BuildNewComment(h, None, None, Zero)
      BY <1>5
    <3>3. QED
      BY <1>1, <3>1, <3>2, Built
  <2>2. \A j \in Jobs : CountedBefore(h, j)' = 0
    BY <2>1 DEF Zero
  <2>3. ThreadInv'
    BY <1>1, <2>1, <2>2, BuiltThread
  <2>4. UndisturbedInv'
    BY <1>1, <1>5, <2>1, BuiltUndisturbed
  <2>5. QED
    BY <2>3, <2>4
<1>6. ASSUME NEW c \in comments, comments = {c}, TakesOver(h, c),
             BuildNewComment(h, c.id, c.root, c.retries)
      PROVE  ThreadInv' /\ UndisturbedInv'
  <2>1. /\ \A g \in Handlers \ {h} : handler'[g] = handler[g]
        /\ handler'[h].pc = "delete"
        /\ handler'[h].job \in Jobs /\ handler'[h].sha \in Commits
        /\ handler'[h].sha = handler[h].sha
        /\ handler'[h].old = c.id /\ handler'[h].root = c.root
        /\ handler'[h].retry => handler'[h].retries[handler'[h].job] > 0
        /\ \A j \in Jobs : CountedBefore(h, j)' = c.retries[j]
    <3>1. /\ c.id \in IDs \cup {None} /\ c.root \in IDs \cup {None}
          /\ c.retries \in Counters
      BY <1>3 DEF IDs
    <3>2. BuildNewComment(h, c.id, c.root, c.retries)
      BY <1>6
    <3> DEFINE id == c.id  root == c.root  old == c.retries
    <3> HIDE DEF id, root, old
    <3>3. /\ id \in IDs \cup {None} /\ root \in IDs \cup {None}
          /\ old \in Counters /\ BuildNewComment(h, id, root, old)
      BY <3>1, <3>2 DEF id, root, old
    <3>4. /\ \A g \in Handlers \ {h} : handler'[g] = handler[g]
          /\ handler'[h].pc = IF id = None THEN "create" ELSE "delete"
          /\ handler'[h].job \in Jobs /\ handler'[h].sha \in Commits
          /\ handler'[h].sha = handler[h].sha
          /\ handler'[h].old = id /\ handler'[h].root = root
          /\ handler'[h].retry => handler'[h].retries[handler'[h].job] > 0
          /\ \A j \in Jobs : CountedBefore(h, j)' = old[j]
      BY <1>1, <3>3, Built
    <3>5. id # None
      BY <1>4 DEF id
    <3>6. QED
      BY <3>4, <3>5 DEF id, root, old
  <2>2. OldComment(h)' \subseteq {c}
    BY <1>2, <1>6 DEF OldComment
  <2>3. c.sha = handler'[h].sha
    BY <1>6, <2>1 DEF TakesOver
  <2>4. ThreadInv'
    BY <1>1, <1>4, <2>1, <2>2, <2>3, BuiltThread
  <2>5. UndisturbedInv'
    <3>1. \A d \in OldComment(h)' : d.sha <= handler'[h].sha
      BY <1>3, <2>2, <2>3
    <3>2. handler'[h].root # None
      BY <1>4, <2>1
    <3>3. QED
      BY <1>1, <2>1, <3>1, <3>2, BuiltUndisturbed
  <2>6. QED
    BY <2>4, <2>5
<1>7. ASSUME NEW c \in comments, comments = {c}, ~TakesOver(h, c),
             BuildNewComment(h, c.id, None, Zero)
      PROVE  ThreadInv' /\ UndisturbedInv'
  <2>1. /\ \A g \in Handlers \ {h} : handler'[g] = handler[g]
        /\ handler'[h].pc = "delete"
        /\ handler'[h].job \in Jobs /\ handler'[h].sha \in Commits
        /\ handler'[h].sha = handler[h].sha
        /\ handler'[h].old = c.id /\ handler'[h].root = None
        /\ handler'[h].retry => handler'[h].retries[handler'[h].job] > 0
        /\ \A j \in Jobs : CountedBefore(h, j)' = Zero[j]
    <3>1. c.id \in IDs \cup {None} /\ None \in IDs \cup {None} /\ Zero \in Counters
      BY <1>3, ZeroType DEF IDs
    <3>2. BuildNewComment(h, c.id, None, Zero)
      BY <1>7
    <3>3. c.id # None
      BY <1>4
    <3>4. QED
      BY <1>1, <3>1, <3>2, <3>3, Built
  <2>2. \A j \in Jobs : CountedBefore(h, j)' = 0
    BY <2>1 DEF Zero
  <2>3. OldComment(h)' \subseteq {c}
    BY <1>2, <1>7 DEF OldComment
  <2>4. ThreadInv'
    BY <1>1, <1>4, <2>1, <2>2, BuiltThread
  <2>5. ~disturbed' => c.sha < handler'[h].sha
    BY <1>1, <1>3, <1>7, <2>1 DEF TakesOver
  <2>6. ~disturbed' => \A d \in OldComment(h)' :
                          d.sha <= handler'[h].sha /\ d.sha < handler'[h].sha
    BY <1>3, <2>1, <2>3, <2>5
  <2>7. UndisturbedInv'
    BY <1>1, <2>1, <2>6, BuiltUndisturbed
  <2>8. QED
    BY <2>4, <2>7
<1>8. CASE Return(h)
  BY <1>1, <1>8, ReturnKeeps
<1>9. QED
  BY <1>5, <1>6, <1>7, <1>8 DEF ListComments

\* The DELETE picks one of those who have read the comment.
LEMMA DeleteCommentKeeps ==
  ASSUME IInv, NEW h \in Handlers, DeleteComment(h)
  PROVE  ThreadInv' /\ UndisturbedInv'
<1>1. /\ handler[h].pc = "delete"
      /\ created' = created /\ retests' = retests
      /\ handler[h].old # None
  BY DEF DeleteComment, IInv, ThreadInv, ReadIsCurrent
<1>2. CASE Return(h) /\ UNCHANGED <<comments, disturbed>>
  BY <1>1, <1>2, ReturnKeeps DEF githubVars
<1>3. CASE /\ Return(h) /\ comments' = comments \ OldComment(h) /\ disturbed' = TRUE
  <2>1. \A g \in Handlers : handler'[g] = handler[g] \/ handler'[g] = Idle
    BY <1>3 DEF IInv, TypeInv, TypeOK, Return
  <2>2. \A root, j : Numbers(root, j)' = Numbers(root, j)
    BY <1>1 DEF Numbers
  <2>3. \A g \in Handlers : handler'[g].pc \in {"delete", "create"} =>
                              handler'[g] = handler[g]
    BY <2>1 DEF Idle
  <2>4. \A g \in Handlers : \A j : handler'[g] = handler[g] =>
                                 CountedBefore(g, j)' = CountedBefore(g, j)
    BY DEF CountedBefore
  <2>5. comments' \subseteq comments
    BY <1>3
  <2>6. IDsFresh'
    BY <1>1, <2>1, <2>5 DEF IInv, ThreadInv, IDsFresh, Idle
  <2>7. PostingWell'
    BY <2>3, <2>4 DEF IInv, ThreadInv, PostingWell
  <2>8. ReadIsCurrent'
    <3>1. \A g \in Handlers : handler'[g] = handler[g] =>
                                OldComment(g)' \subseteq OldComment(g)
      BY <2>5 DEF OldComment
    <3>2. QED
      BY <2>3, <2>4, <3>1 DEF IInv, ThreadInv, ReadIsCurrent
  <2>9. SuccessorAlone'
    BY <1>1, <2>2, <2>3, <2>4, <2>5 DEF IInv, ThreadInv, SuccessorAlone
  <2>10. (/\ CommentOfCommit /\ RetryTriggeredOnce /\ RecordTruthful
          /\ RetriesPerCommit)'
    BY <1>1, <2>2, <2>5 DEF IInv, ThreadInv, CommentOfCommit, RetryTriggeredOnce,
         RecordTruthful, RetriesPerCommit
  <2>11. UndisturbedInv'
    BY <1>3 DEF UndisturbedInv, Undisturbed
  <2>12. QED
    BY <2>6, <2>7, <2>8, <2>9, <2>10, <2>11 DEF ThreadInv
<1>4. ASSUME NEW c \in OldComment(h), comments' = comments \ OldComment(h),
             handler' = [handler EXCEPT ![h].pc = "create"], UNCHANGED disturbed
      PROVE  ThreadInv' /\ UndisturbedInv'
  <2>1. /\ \A g \in Handlers \ {h} : handler'[g] = handler[g]
        /\ handler'[h].pc = "create"
        /\ handler'[h].job = handler[h].job /\ handler'[h].sha = handler[h].sha
        /\ handler'[h].old = handler[h].old /\ handler'[h].root = handler[h].root
        /\ handler'[h].retry = handler[h].retry
        /\ handler'[h].retries = handler[h].retries
    BY <1>4 DEF IInv, TypeInv, TypeOK, HandleJob
  <2>2. \A root, j : Numbers(root, j)' = Numbers(root, j)
    BY <1>1 DEF Numbers
  <2>3. \A g \in Handlers : \A j : CountedBefore(g, j)' = CountedBefore(g, j)
    BY <2>1 DEF CountedBefore
  <2>4. /\ comments' \subseteq comments
        /\ c \in comments /\ c.id = handler[h].old /\ c \notin comments'
    BY <1>4 DEF OldComment
  <2>5. /\ c.sha \in Nat /\ handler[h].sha \in Nat
        /\ \A r \in retests : r.sha \in Nat /\ r.root # None
    <3>1. c \in Comment /\ Commits \subseteq Nat /\ NoCommit \in Nat
      BY <2>4 DEF IInv, TypeInv, TypeOK, Commits, NoCommit
    <3>2. handler[h].sha \in Commits
      BY <1>1 DEF IInv, TypeInv, KnowsJob
    <3>3. \A r \in retests : r \in Retest
      BY DEF IInv, TypeInv, TypeOK
    <3>4. c.sha \in Nat
      BY <3>1 DEF Comment
    <3>5. None \notin Nat
      BY RetryerAssumption
    <3>6. \A r \in retests : r.sha \in Nat /\ r.root # None
      BY <3>1, <3>3, <3>5 DEF Retest, IDs
    <3>7. QED
      BY <3>1, <3>2, <3>4, <3>6
  <2>6. IDsFresh'
    BY <1>1, <2>1, <2>4 DEF IInv, ThreadInv, IDsFresh
  <2>7. PostingWell'
    BY <1>1, <2>1, <2>3 DEF IInv, ThreadInv, PostingWell
  <2>8. ReadIsCurrent'
    <3>1. \A g \in Handlers : OldComment(g)' \subseteq OldComment(g)
      BY <2>1, <2>4 DEF OldComment
    <3>2. QED
      BY <2>1, <2>3, <3>1 DEF IInv, ThreadInv, ReadIsCurrent
  <2>9. SuccessorAlone'
    <3>1. handler[h].root # None =>
            /\ c.root = handler[h].root /\ c.sha = handler[h].sha
            /\ \A j \in Jobs : CountedBefore(h, j) = c.retries[j]
      BY <1>1, <1>4 DEF IInv, ThreadInv, ReadIsCurrent
    <3>2. handler[h].root # None =>
            /\ \A d \in comments' : d.root # handler[h].root
            /\ \A g \in Handlers : handler[g].pc = "create" =>
                                      handler[g].root # handler[h].root
            /\ \A r \in retests : r.root = handler[h].root => r.sha = handler[h].sha
            /\ \A j \in Jobs :
                  Numbers(handler[h].root, j) = 1 .. CountedBefore(h, j)
      <4>1. \A d \in comments' : d.root # c.root
        BY <2>4 DEF IInv, ThreadInv, IDsFresh
      <4>2. \A g \in Handlers : handler[g].pc = "create" /\ handler[g].root # None =>
                                  handler[g].root # c.root
        BY <2>4 DEF IInv, ThreadInv, SuccessorAlone
      <4>3. \A r \in retests : r.root = c.root => r.sha = c.sha
        BY <2>4 DEF IInv, ThreadInv, CommentOfCommit
      <4>4. \A j \in Jobs : Numbers(c.root, j) = 1 .. c.retries[j]
        BY <2>4 DEF IInv, ThreadInv, RecordTruthful
      <4>5. QED
        BY <3>1, <4>1, <4>2, <4>3, <4>4
    <3>3. QED
      BY <1>1, <2>1, <2>2, <2>3, <2>4, <3>2 DEF IInv, ThreadInv, SuccessorAlone
  <2>10. (/\ CommentOfCommit /\ RetryTriggeredOnce /\ RecordTruthful
          /\ RetriesPerCommit)'
    BY <1>1, <2>2, <2>4 DEF IInv, ThreadInv, CommentOfCommit, RetryTriggeredOnce,
         RecordTruthful, RetriesPerCommit
  <2>11. UndisturbedInv'
    <3> SUFFICES ASSUME Undisturbed' PROVE UndisturbedInv'
      BY DEF UndisturbedInv
    <3>1. Undisturbed
      BY <1>4 DEF Undisturbed
    <3>2. comments' = {}
      BY <2>4, <3>1 DEF IInv, UndisturbedInv
    <3>3. \A g \in Handlers : handler[g].pc # "create"
      BY <2>4, <3>1 DEF IInv, UndisturbedInv
    <3>4. /\ c.sha <= handler[h].sha
          /\ handler[h].root = None => c.sha < handler[h].sha
          /\ handler[h].root # None => c.root = handler[h].root
      BY <1>1, <1>4, <3>1 DEF IInv, UndisturbedInv, ThreadInv, ReadIsCurrent
    <3>5. \A r \in retests : r.sha <= c.sha /\ (r.sha = c.sha => r.root = c.root)
      BY <2>4, <3>1 DEF IInv, UndisturbedInv
    <3>6. \A r \in retests : /\ r.sha <= handler[h].sha
                             /\ r.sha = handler[h].sha => r.root = handler[h].root
      BY <2>5, <3>4, <3>5
    <3>7. \A g \in Handlers : OldComment(g)' = {}
      BY <3>2 DEF OldComment
    <3>8. \A x, y \in retests : x.sha = y.sha => x.root = y.root
      BY <3>1 DEF IInv, UndisturbedInv
    <3>9. QED
      BY <1>1, <2>1, <3>2, <3>3, <3>6, <3>7, <3>8 DEF UndisturbedInv
  <2>12. QED
    BY <2>6, <2>7, <2>8, <2>9, <2>10, <2>11 DEF ThreadInv
<1>5. QED
  BY <1>2, <1>3, <1>4 DEF DeleteComment, OldComment

\* The identifier of a new comment is nobody else's, and the retry it triggers is
\* the next one after those that the comment before it has counted.
LEMMA CreateCommentKeeps ==
  ASSUME IInv, NEW h \in Handlers, CreateComment(h)
  PROVE  ThreadInv' /\ UndisturbedInv'
<1>1. handler[h].pc = "create" /\ Return(h)
  BY DEF CreateComment
<1>2. CASE UNCHANGED githubVars /\ disturbed' = (disturbed \/ handler[h].old # None)
  BY <1>1, <1>2, ReturnKeeps
<1>3. CASE /\ created' = created + 1
           /\ comments' = comments \cup {NewComment(h)}
           /\ retests' = retests \cup Commands(h)
           /\ UNCHANGED disturbed
  <2> DEFINE id   == created + 1
             new  == NewComment(h)
             job  == handler[h].job
             root == handler[h].root
             fresh(j) == {r.n : r \in {x \in Commands(h) : x.root = new.root /\ x.job = j}}
  <2>1. /\ \A g \in Handlers \ {h} : handler'[g] = handler[g]
        /\ handler'[h] = Idle
    BY <1>1 DEF IInv, TypeInv, TypeOK, Return
  <2>2. \A g \in Handlers : handler'[g].pc \in {"delete", "create"} =>
                              g # h /\ handler'[g] = handler[g]
    BY <2>1 DEF Idle
  <2>3. /\ created \in Nat /\ id \in Nat /\ id > created /\ None \notin Nat
        /\ job \in Jobs /\ handler[h].sha \in Commits
        /\ root \in Nat \cup {None}
        /\ handler[h].retry \in BOOLEAN
        /\ handler[h].retries \in Counters
    BY <1>1, RetryerAssumption
       DEF IInv, TypeInv, TypeOK, KnowsJob, HandleJob, IDs
  <2>4. /\ new.id = id /\ new.sha = handler[h].sha
        /\ new.root = IF root = None THEN id ELSE root
        /\ new.retries = handler[h].retries
    BY DEF NewComment
  <2>5. \A r \in Commands(h) :
           /\ handler[h].retry
           /\ r.id = id /\ r.root = new.root /\ r.sha = handler[h].sha
           /\ r.job = job /\ r.n = handler[h].retries[job]
    BY DEF Commands, NewComment
  <2>6. handler[h].retry => Commands(h) # {}
    BY DEF Commands
  <2>7. /\ \A c \in comments :
              c.id \in Nat /\ c.root \in Nat /\ c.id <= created /\ c.root <= created
        /\ \A r \in retests :
              r.id \in Nat /\ r.root \in Nat /\ r.id <= created /\ r.root <= created
        /\ root # None => root <= created
    <3>1. /\ \A c \in comments : c \in Comment
          /\ \A r \in retests : r \in Retest
      BY DEF IInv, TypeInv, TypeOK
    <3>2. QED
      BY <3>1 DEF IInv, ThreadInv, IDsFresh, Comment, Retest, IDs
  <2> HIDE DEF id, new, job, root
  <2>8. /\ \A c \in comments : c.id # new.id /\ c.root # new.root
        /\ \A r \in retests : r.id # new.id
    <3>1. root # None => \A c \in comments : c.root # root
      BY <1>1 DEF IInv, ThreadInv, SuccessorAlone, root
    <3>2. QED
      BY <2>3, <2>4, <2>7, <3>1
  <2>9. \A g \in Handlers : \A j : handler'[g] = handler[g] =>
                                 CountedBefore(g, j)' = CountedBefore(g, j)
    BY DEF CountedBefore
  <2>10. IDsFresh'
    <3>1. \A c \in comments' : c.id <= created' /\ c.root <= created'
      BY <1>3, <2>3, <2>4, <2>7 DEF new, id
    <3>2. \A r \in retests' : r.id <= created' /\ r.root <= created'
      BY <1>3, <2>3, <2>4, <2>5, <2>7 DEF id
    <3>3. \A c, d \in comments' : c.id = d.id \/ c.root = d.root => c = d
      BY <1>3, <2>8 DEF IInv, ThreadInv, IDsFresh, new
    <3>4. \A g \in Handlers :
            /\ handler'[g].old # None => handler'[g].old <= created'
            /\ handler'[g].root # None => handler'[g].root <= created'
      <4>1. \A g \in Handlers : handler[g] \in HandleJob
        BY DEF IInv, TypeInv, TypeOK
      <4>2. \A g \in Handlers :
              /\ handler[g].old # None => handler[g].old \in Nat /\ handler[g].old <= created
              /\ handler[g].root # None => handler[g].root \in Nat /\ handler[g].root <= created
        BY <4>1 DEF IInv, ThreadInv, IDsFresh, HandleJob, IDs
      <4>3. QED
        BY <1>3, <2>1, <2>3, <4>2 DEF Idle
    <3>5. QED
      BY <3>1, <3>2, <3>3, <3>4 DEF IDsFresh
  <2>11. PostingWell'
    BY <2>2, <2>9 DEF IInv, ThreadInv, PostingWell
  <2>12. ReadIsCurrent'
    <3>1. \A g \in Handlers : handler[g].pc = "delete" => handler[g].old # new.id
      <4>1. \A g \in Handlers : handler[g].pc = "delete" =>
               handler[g].old # None /\ handler[g].old <= created
        BY DEF IInv, ThreadInv, ReadIsCurrent, IDsFresh
      <4>2. \A g \in Handlers : handler[g].old \in Nat \cup {None}
        BY DEF IInv, TypeInv, TypeOK, HandleJob, IDs
      <4>3. QED
        BY <2>3, <2>4, <4>1, <4>2
    <3>2. \A g \in Handlers \ {h} : handler[g].pc = "delete" =>
                                     OldComment(g)' = OldComment(g)
      BY <1>3, <2>1, <3>1 DEF OldComment, new
    <3>3. QED
      BY <2>2, <2>9, <3>2 DEF IInv, ThreadInv, ReadIsCurrent
  <2>13. \A t, j : t # new.root => Numbers(t, j)' = Numbers(t, j)
    BY <1>3, <2>5 DEF Numbers
  <2>14. SuccessorAlone'
    <3> SUFFICES ASSUME NEW g \in Handlers, handler'[g].pc = "create", handler'[g].root # None
                 PROVE  /\ \A c \in comments' : c.root # handler'[g].root
                        /\ \A k \in Handlers : handler'[k].pc = "create"
                               /\ handler'[k].root = handler'[g].root => k = g
                        /\ \A r \in retests' : r.root = handler'[g].root =>
                                                r.sha = handler'[g].sha
                        /\ \A j \in Jobs :
                              Numbers(handler[g].root, j)' = 1 .. CountedBefore(g, j)'
      BY DEF SuccessorAlone
    <3>1. g # h /\ handler'[g] = handler[g]
      BY <2>2
    <3>2. handler[g].root # new.root
      <4>1. handler[g].root \in Nat /\ handler[g].root <= created
        <5>1. handler[g].root \in Nat \cup {None}
          BY DEF IInv, TypeInv, TypeOK, HandleJob, IDs
        <5>2. QED
          BY <3>1, <5>1 DEF IInv, ThreadInv, IDsFresh
      <4>2. root # None => handler[g].root # root
        BY <1>1, <3>1 DEF IInv, ThreadInv, SuccessorAlone, root
      <4>3. QED
        BY <2>3, <2>4, <4>1, <4>2
    <3>3. \A c \in comments' : c.root # handler[g].root
      BY <1>3, <3>1, <3>2 DEF IInv, ThreadInv, SuccessorAlone, new
    <3>4. \A k \in Handlers : handler'[k].pc = "create"
                               /\ handler'[k].root = handler'[g].root => k = g
      BY <2>2, <3>1 DEF IInv, ThreadInv, SuccessorAlone
    <3>5. \A r \in retests' : r.root = handler[g].root => r.sha = handler[g].sha
      BY <1>3, <2>5, <3>1, <3>2 DEF IInv, ThreadInv, SuccessorAlone
    <3>6. \A j \in Jobs : Numbers(handler[g].root, j)' = 1 .. CountedBefore(g, j)'
      <4>1. \A j \in Jobs : Numbers(handler[g].root, j) = 1 .. CountedBefore(g, j)
        BY <3>1 DEF IInv, ThreadInv, SuccessorAlone
      <4>2. \A t, j : t = handler[g].root => Numbers(t, j)' = Numbers(t, j)
        BY <2>13, <3>2
      <4>3. \A t, j : t = handler[g].root => Numbers(handler[g].root, j)' = Numbers(t, j)'
        BY <3>1 DEF Numbers
      <4>4. QED
        BY <2>9, <3>1, <4>1, <4>2, <4>3
    <3>7. QED
      BY <3>1, <3>3, <3>4, <3>5, <3>6
  <2>15. \A r \in retests : r.root = new.root => r.sha = handler[h].sha
    <3>1. CASE root = None
      BY <2>3, <2>4, <2>7, <3>1
    <3>2. CASE root # None
      BY <1>1, <2>4, <3>2 DEF IInv, ThreadInv, SuccessorAlone, root
    <3>3. QED
      BY <3>1, <3>2
  <2>16. \A j \in Jobs : Numbers(new.root, j) = 1 .. CountedBefore(h, j)
    <3>1. CASE root = None
      <4>1. \A j \in Jobs : CountedBefore(h, j) = 0
        BY <1>1, <3>1 DEF IInv, ThreadInv, PostingWell, root
      <4>2. \A j : Numbers(new.root, j) = {}
        BY <2>3, <2>4, <2>7, <3>1 DEF Numbers
      <4>3. 1 .. 0 = {}
        OBVIOUS
      <4>4. QED
        BY <4>1, <4>2, <4>3
    <3>2. CASE root # None
      BY <1>1, <2>4, <3>2 DEF IInv, ThreadInv, SuccessorAlone, root
    <3>3. QED
      BY <3>1, <3>2
  <2>17. CommentOfCommit'
    BY <1>3, <2>4, <2>5, <2>8, <2>15 DEF IInv, ThreadInv, CommentOfCommit, new
  <2>18. RetriesPerCommit'
    BY <1>3, <2>5, <2>15 DEF IInv, ThreadInv, RetriesPerCommit
  <2>19. RetryTriggeredOnce'
    <3>1. \A x \in retests, y \in Commands(h) :
             ~(x.root = y.root /\ x.job = y.job /\ x.n = y.n)
      <4> SUFFICES ASSUME NEW x \in retests, NEW y \in Commands(h),
                          x.root = y.root, x.job = y.job, x.n = y.n
                   PROVE  FALSE
        OBVIOUS
      <4>1. /\ handler[h].retry /\ x.root = new.root /\ x.job = job
            /\ x.n = handler[h].retries[job]
        BY <2>5
      <4>2. x.n \in Numbers(new.root, job)
        BY <4>1 DEF Numbers
      <4>3. x.n \in 1 .. (handler[h].retries[job] - 1)
        BY <2>3, <2>16, <4>1, <4>2 DEF CountedBefore, job
      <4>4. handler[h].retries[job] \in Nat
        BY <2>3, RetryerAssumption DEF Counters
      <4>5. QED
        BY <4>1, <4>3, <4>4
    <3>2. \A x, y \in Commands(h) : x.id = y.id
      BY <2>5
    <3>3. \A x, y \in retests : x.root = y.root /\ x.job = y.job /\ x.n = y.n => x.id = y.id
      BY DEF IInv, ThreadInv, RetryTriggeredOnce
    <3>4. QED
      BY <1>3, <3>1, <3>2, <3>3 DEF RetryTriggeredOnce
  <2>20. RecordTruthful'
    <3>1. \A c \in comments, j \in Jobs : Numbers(c.root, j)' = 1 .. c.retries[j]
      BY <2>8, <2>13 DEF IInv, ThreadInv, RecordTruthful
    <3>2. ASSUME NEW j \in Jobs, NEW t, t = new.root
          PROVE  Numbers(t, j)' = 1 .. new.retries[j]
      <4>1. Numbers(t, j)' = Numbers(t, j) \cup fresh(j)
        BY <1>3, <3>2 DEF Numbers
      <4>2. handler[h].retries[j] \in Nat
        BY <2>3, RetryerAssumption DEF Counters
      <4>3. CASE handler[h].retry /\ j = job
        <5>1. fresh(j) = {handler[h].retries[j]}
          BY <2>5, <2>6, <4>3
        <5>2. handler[h].retries[j] > 0
          BY <1>1, <4>3 DEF IInv, ThreadInv, PostingWell, job
        <5>3. CountedBefore(h, j) = handler[h].retries[j] - 1
          BY <4>3 DEF CountedBefore, job
        <5>4. \A n \in Nat : n > 0 => (1 .. (n - 1)) \cup {n} = 1 .. n
          OBVIOUS
        <5>5. Numbers(t, j) = 1 .. (handler[h].retries[j] - 1)
          BY <2>16, <3>2, <5>3
        <5>6. Numbers(t, j)' = 1 .. handler[h].retries[j]
          BY <4>1, <4>2, <5>1, <5>2, <5>4, <5>5
        <5>7. QED
          BY <2>4, <5>6
      <4>4. CASE ~(handler[h].retry /\ j = job)
        <5>1. fresh(j) = {}
          BY <2>5, <4>4
        <5>2. CountedBefore(h, j) = handler[h].retries[j]
          BY <4>4 DEF CountedBefore, job
        <5>3. QED
          BY <2>4, <2>16, <3>2, <4>1, <5>1, <5>2
      <4>5. QED
        BY <4>3, <4>4
    <3>3. comments' = comments \cup {new}
      BY <1>3 DEF new
    <3>4. \A c \in comments', j \in Jobs : Numbers(c.root, j)' = 1 .. c.retries[j]
      BY <3>1, <3>2, <3>3
    <3>5. QED
      BY <3>4 DEF RecordTruthful
  <2>21. UndisturbedInv'
    <3> SUFFICES ASSUME Undisturbed' PROVE UndisturbedInv'
      BY DEF UndisturbedInv
    <3>1. Undisturbed
      BY <1>3 DEF Undisturbed
    <3>2. /\ comments = {}
          /\ \A g \in Handlers : handler[g].pc = "create" => g = h
          /\ \A r \in retests : /\ r.sha <= handler[h].sha
                                /\ r.sha = handler[h].sha => r.root = root
      BY <1>1, <3>1 DEF IInv, UndisturbedInv, root
    <3>3. comments' = {new}
      BY <1>3, <3>2 DEF new
    <3>4. \A g \in Handlers : handler'[g].pc # "create"
      BY <2>2, <3>2
    <3>5. \A r \in retests : r.sha = handler[h].sha => r.root = new.root
      <4>1. \A r \in retests : r.sha = handler[h].sha => r.root = root /\ r.root \in Nat
        BY <2>7, <3>2
      <4>2. root \in Nat => new.root = root
        BY <2>3, <2>4
      <4>3. QED
        BY <4>1, <4>2
    <3>6. \A r \in retests' : r.sha <= new.sha /\ (r.sha = new.sha => r.root = new.root)
      <4>1. handler[h].sha <= handler[h].sha
        BY <2>3 DEF Commits
      <4>2. new.sha = handler[h].sha
        BY <2>4
      <4>3. \A r \in retests : r.sha <= new.sha /\ (r.sha = new.sha => r.root = new.root)
        BY <3>2, <3>5, <4>2
      <4>4. \A r \in Commands(h) : r.sha <= new.sha /\ r.root = new.root
        BY <2>5, <4>1, <4>2
      <4>5. QED
        BY <1>3, <4>3, <4>4
    <3>7. \A x, y \in retests' : x.sha = y.sha => x.root = y.root
      <4>1. \A x, y \in retests : x.sha = y.sha => x.root = y.root
        BY <3>1 DEF IInv, UndisturbedInv
      <4>2. QED
        BY <1>3, <2>5, <3>5, <4>1
    <3>8. \A g \in Handlers : handler'[g].pc = "delete" => OldComment(g)' = {}
      <4>1. \A g \in Handlers : handler[g].pc = "delete" => handler[g].old # new.id
        <5>1. \A g \in Handlers : handler[g].pc = "delete" =>
                 handler[g].old # None /\ handler[g].old <= created
          BY DEF IInv, ThreadInv, ReadIsCurrent, IDsFresh
        <5>2. \A g \in Handlers : handler[g].old \in Nat \cup {None}
          BY DEF IInv, TypeInv, TypeOK, HandleJob, IDs
        <5>3. QED
          BY <2>3, <2>4, <5>1, <5>2
      <4>2. QED
        BY <2>2, <3>3, <4>1 DEF OldComment
    <3>9. QED
      BY <3>3, <3>4, <3>6, <3>7, <3>8 DEF UndisturbedInv
  <2>22. QED
    BY <2>10, <2>11, <2>12, <2>14, <2>17, <2>18, <2>19, <2>20, <2>21 DEF ThreadInv
<1>4. QED
  BY <1>2, <1>3 DEF CreateComment

LEMMA IInvNext == IInv /\ [Next]_vars => IInv'
<1> SUFFICES ASSUME IInv, [Next]_vars PROVE IInv'
  OBVIOUS
<1>1. TypeInv'
  BY TypeNext DEF IInv
<1>2. ThreadInv' /\ UndisturbedInv'
  <2>1. CASE UNCHANGED vars
    <3>1. UNCHANGED githubVars /\ \A g \in Handlers : handler'[g] = handler[g]
      BY <2>1 DEF vars, githubVars
    <3>2. ~disturbed' => ~disturbed
      BY <2>1 DEF vars
    <3>3. QED
      BY <3>1, <3>2, ThreadKeeps, UndisturbedKeeps DEF IInv
  <2>2. CASE Restart
    BY <2>2, RestartKeeps
  <2>3. ASSUME NEW h \in Handlers, Receive(h) PROVE ThreadInv' /\ UndisturbedInv'
    BY <2>3, ReceiveKeeps
  <2>4. ASSUME NEW h \in Handlers, GetTests(h) PROVE ThreadInv' /\ UndisturbedInv'
    BY <2>4, GetTestsKeeps
  <2>5. ASSUME NEW h \in Handlers, ListComments(h) PROVE ThreadInv' /\ UndisturbedInv'
    BY <2>5, ListCommentsKeeps
  <2>6. ASSUME NEW h \in Handlers, DeleteComment(h) PROVE ThreadInv' /\ UndisturbedInv'
    BY <2>6, DeleteCommentKeeps
  <2>7. ASSUME NEW h \in Handlers, CreateComment(h) PROVE ThreadInv' /\ UndisturbedInv'
    BY <2>7, CreateCommentKeeps
  <2>8. QED
    BY <2>1, <2>2, <2>3, <2>4, <2>5, <2>6, <2>7 DEF Next
<1>3. QED
  BY <1>1, <1>2 DEF IInv

LEMMA IInvInvariant == Spec => []IInv
<1>1. Init => IInv
  BY TypeInit, IInit DEF IInv
<1>2. QED
  BY <1>1, IInvNext, PTL DEF Spec

\* Of the comments that take over each other's counters one at a time is on GitHub
\* or about to be posted, however many goroutines read it and whatever fails.
THEOREM ThreadSafe == Spec => []ThreadInv
<1>1. IInv => ThreadInv
  BY DEF IInv
<1>2. QED
  BY <1>1, IInvInvariant, PTL

\* So the k-th retry of a job is triggered once per line of comments: the DELETE in
\* PostComment decides between those who have read the same counters.
THEOREM TriggeredOnce == Spec => []RetryTriggeredOnce
<1>1. ThreadInv => RetryTriggeredOnce
  BY DEF ThreadInv
<1>2. QED
  BY <1>1, ThreadSafe, PTL

\* And what a comment says of the retries before it, for its own job and for the
\* others, is true.
THEOREM Truthful == Spec => []RecordTruthful
<1>1. ThreadInv => RecordTruthful
  BY DEF ThreadInv
<1>2. QED
  BY <1>1, ThreadSafe, PTL

-----------------------------------------------------------------------------
(* "reruns them atmost 3 times".                                           *)

\* Without a disturbance a retry is known by its commit, its job and its number.
LEMMA RetestNumbered ==
  ASSUME IInv, Undisturbed, NEW x \in retests, NEW y \in retests,
         x.sha = y.sha, x.job = y.job, x.n = y.n
  PROVE  x = y
<1>1. x.root = y.root
  BY DEF IInv, UndisturbedInv
<1>2. x.id = y.id
  BY <1>1 DEF IInv, ThreadInv, RetryTriggeredOnce
<1>3. x \in Retest /\ y \in Retest
  BY DEF IInv, TypeInv, TypeOK
<1>4. QED
  BY <1>1, <1>2, <1>3 DEF Retest

\* So there are at most maxRetries of them.
LEMMA BoundedStep == IInv => UndisturbedBounded
<1> SUFFICES ASSUME IInv, Undisturbed, NEW sha \in Commits, NEW j \in Jobs
             PROVE  Cardinality(RetestsOf(sha, j)) <= MaxRetries
  BY DEF UndisturbedBounded
<1> DEFINE S == RetestsOf(sha, j)
           T == 1 .. MaxRetries
           f == [r \in S |-> r.n]
<1>1. \A r \in S : r \in retests /\ r.sha = sha /\ r.job = j /\ r.n \in T
  BY DEF IInv, TypeInv, TypeOK, Retest, RetestsOf
<1>2. \A x, y \in S : x.n = y.n => x = y
  BY <1>1, RetestNumbered
<1> HIDE DEF S
<1>3. IsFiniteSet(T) /\ Cardinality(T) = MaxRetries
  <2>1. MaxRetries \in Nat
    BY RetryerAssumption
  <2>2. Cardinality(T) = IF 1 > MaxRetries THEN 0 ELSE MaxRetries - 1 + 1
    BY <2>1, FS_Interval
  <2>3. QED
    BY <2>1, <2>2, FS_Interval
<1>4. f \in Injection(S, T)
  BY <1>1, <1>2 DEF Injection, IsInjective
<1>5. Cardinality(S) <= Cardinality(T)
  BY <1>3, <1>4, FS_Injection
<1>6. QED
  BY <1>3, <1>5 DEF S

\* A job is retried more than maxRetries times on a commit only after one of the
\* disturbances that the model names, all of which the code allows.
THEOREM BoundedIfUndisturbed == Spec => []UndisturbedBounded
  BY BoundedStep, IInvInvariant, PTL

\* The same goes for a second comment.
THEOREM SingleIfUndisturbed == Spec => []UndisturbedSingle
<1>1. IInv => UndisturbedSingle
  <2> SUFFICES ASSUME IInv, Undisturbed PROVE Cardinality(comments) <= 1
    BY DEF UndisturbedSingle
  <2>1. \A c, d \in comments : c = d
    BY DEF IInv, UndisturbedInv
  <2>2. CASE comments = {}
    BY <2>2, FS_EmptySet
  <2>3. CASE comments # {}
    <3>1. PICK c \in comments : comments = {c}
      BY <2>1, <2>3
    <3>2. QED
      BY <3>1, FS_Singleton
  <2>4. QED
    BY <2>2, <2>3
<1>2. QED
  BY <1>1, IInvInvariant, PTL

\* Once there are two comments and nobody has read an earlier state, the retryer
\* changes nothing on the pull request any more.
THEOREM BlockedStays == Spec => BlockedForGood
<1>1. TypeInv /\ [Next]_vars => [Blocked => Blocked' /\ UNCHANGED githubVars]_vars
  <2> SUFFICES ASSUME TypeInv, Next, Blocked
               PROVE  Blocked' /\ UNCHANGED githubVars
    OBVIOUS
  <2>1. comments # {} /\ \A c : comments # {c}
    <3>1. Cardinality(comments) > 1
      BY DEF Blocked
    <3>2. comments # {}
      BY <3>1, FS_EmptySet
    <3>3. ASSUME NEW c, comments = {c} PROVE FALSE
      <4>1. Cardinality({c}) = 1
        BY FS_Singleton
      <4>2. QED
        BY <3>1, <3>3, <4>1
    <3>4. QED
      BY <3>2, <3>3
  <2>2. ASSUME UNCHANGED githubVars,
               \A g \in Handlers : handler'[g] = handler[g]
                                 \/ handler'[g].pc \notin {"delete", "create"}
        PROVE  Blocked'
    BY <2>2 DEF Blocked, githubVars
  <2>3. ASSUME NEW h \in Handlers, Return(h), UNCHANGED githubVars
        PROVE  Blocked'
    <3>1. \A g \in Handlers : handler'[g] = handler[g] \/ handler'[g] = Idle
      BY <2>3 DEF TypeInv, TypeOK, Return
    <3>2. QED
      BY <2>2, <2>3, <3>1 DEF Idle
  <2>4. CASE Restart
    BY <2>2, <2>4 DEF Restart, Idle
  <2>5. ASSUME NEW h \in Handlers, Receive(h) PROVE Blocked' /\ UNCHANGED githubVars
    <3>1. \A g \in Handlers : handler'[g] = handler[g] \/ handler'[g].pc = "tests"
      BY <2>5 DEF TypeInv, TypeOK, HandleJob, Receive
    <3>2. QED
      BY <2>2, <2>5, <3>1 DEF Receive
  <2>6. ASSUME NEW h \in Handlers, GetTests(h) PROVE Blocked' /\ UNCHANGED githubVars
    <3>1. CASE Return(h)
      BY <2>3, <2>6, <3>1 DEF GetTests
    <3>2. CASE ~Return(h)
      <4>1. \A g \in Handlers : handler'[g] = handler[g] \/ handler'[g].pc = "list"
        BY <2>6, <3>2 DEF TypeInv, TypeOK, HandleJob, GetTests
      <4>2. QED
        BY <2>2, <2>6, <4>1 DEF GetTests
    <3>3. QED
      BY <3>1, <3>2
  <2>7. ASSUME NEW h \in Handlers, ListComments(h) PROVE Blocked' /\ UNCHANGED githubVars
    <3>1. Return(h) /\ UNCHANGED githubVars
      BY <2>1, <2>7 DEF ListComments
    <3>2. QED
      BY <2>3, <3>1
  <2>8. ASSUME NEW h \in Handlers, DeleteComment(h) \/ CreateComment(h) PROVE FALSE
    BY <2>8 DEF Blocked, DeleteComment, CreateComment
  <2>9. QED
    BY <2>4, <2>5, <2>6, <2>7, <2>8 DEF Next
<1>2. QED
  BY <1>1, TypeInvariant, PTL DEF Spec, BlockedForGood

=============================================================================
