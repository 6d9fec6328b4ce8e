--------------------------- MODULE Cleanup_proofs ---------------------------
(***************************************************************************)
(* What holds of the cleanup tool for any projects and resources, any       *)
(* number of concurrent operations, every fault and whatever others do.     *)
(***************************************************************************)
EXTENDS Cleanup, FiniteSetTheorems, TLAPS

-----------------------------------------------------------------------------
(* Types.                                                                  *)

\* The deleters are a sequence of kinds.
LEMMA DeletersType == ASSUME NEW o PROVE Deleters(o) \in Seq(Kinds)
<1> DEFINE a == IF "image" \in o.kinds THEN <<"image">> ELSE <<>>
           b == IF "cluster" \in o.kinds THEN <<"cluster">> ELSE <<>>
<1>1. <<>> \in Seq(Kinds) /\ <<"image">> \in Seq(Kinds) /\ <<"cluster">> \in Seq(Kinds)
  BY "image" \in Kinds, "cluster" \in Kinds DEF Kinds
<1>2. a \o b \in Seq(Kinds)
  <2>1. a \in Seq(Kinds) /\ b \in Seq(Kinds)
    BY <1>1
  <2>2. QED
    BY <2>1
<1>3. QED
  BY <1>2 DEF Deleters

\* A selection is a list of names.
LEMMA SelectionType ==
  ASSUME NEW o \in OptionSets, selectProjects(o) # None
  PROVE  selectProjects(o) \in Seq(STRING)
<1>1. o \in Options
  BY CleanupAssumption
<1>2. o.project \in Seq(STRING) /\ o.files \in Seq(STRING) \cup {None}
  BY <1>1 DEF Options
<1>3. QED
  BY <1>2 DEF selectProjects

\* What a goroutine may be: when it deletes, it knows what.
Good(w) == w \in Worker /\ (w.pc = "delete" => w.now # None)

\* A goroutine that has not begun, or that is past DeleteResources.
LEMMA QueuedType ==
  /\ Good(Queued)
  /\ \A pc \in WorkerStates \ {"delete"} : Good([Queued EXCEPT !.pc = pc])
  BY DEF Queued, Worker, WorkerStates, Listed, Good

\* An idle process has no goroutines.
LEMMA IdleType ==
  /\ Idle \in Run
  /\ Idle.kinds = <<>> /\ Idle.pc = "idle" /\ Idle.projects = <<>>
  /\ <<>> \in [DOMAIN Idle.projects -> Worker]
  /\ <<>> \in Seq(DOMAIN Idle.projects)
<1>1. Idle \in Run /\ Idle.kinds = <<>> /\ Idle.pc = "idle" /\ Idle.projects = <<>>
  BY DEF Idle, Run
<1>2. DOMAIN <<>> = {}
  OBVIOUS
<1>3. <<>> \in [{} -> Worker]
  BY <1>2
<1>4. QED
  BY <1>1, <1>2, <1>3

\* The conjuncts of TypeOK about goroutines.
GoodWorkers ==
    /\ worker \in [Workers -> Worker]
    /\ \A i \in Workers : worker[i].pc = "delete" => worker[i].now # None

\* One goroutine changes, and the process does not.
LEMMA WorkerChanges ==
  ASSUME TypeOK, run' = run, NEW i \in Workers, NEW w, Good(w),
         worker' = [worker EXCEPT ![i] = w]
  PROVE  GoodWorkers'
  BY DEF TypeOK, Workers, Good, GoodWorkers

\* The process ends.
LEMMA ExitType == ASSUME TypeOK, Exit PROVE TypeOK'
<1>1. run' \in Run /\ run'.pc = "idle" /\ run'.kinds = <<>>
  BY IdleType DEF Exit
<1>2. worker' \in [Workers' -> Worker] /\ errorChan' \in Seq(Workers')
  BY IdleType DEF Exit, Fresh, Workers
<1>3. QED
  BY <1>1, <1>2 DEF Exit, Fresh, TypeOK

\* GoesOn leaves the goroutine with the rest of what it has listed.
LEMMA GoesOnType ==
  ASSUME NEW i, NEW w \in Worker, NEW todo \in SUBSET Listed,
         NEW v \in GoesOn(i, w, todo)
  PROVE  Good(v)
<1>1. CASE todo = {}
  BY <1>1 DEF GoesOn, Worker, WorkerStates, Good
<1>2. CASE todo # {}
  <2>1. PICK x \in todo : v = [w EXCEPT !.pc = "delete", !.now = x, !.todo = todo \ {x}]
    BY <1>2 DEF GoesOn
  <2>2. x # None
    BY CleanupAssumption DEF Listed
  <2>3. QED
    BY <2>1, <2>2 DEF Worker, WorkerStates, Good
<1>3. QED
  BY <1>1, <1>2

\* One step of a goroutine keeps the types.
LEMMA WorkerType ==
  ASSUME TypeOK, NEW i \in Workers, WorkerStep(i)
  PROVE  TypeOK'
<1> USE CleanupAssumption
<1>1. worker[i] \in Worker
  BY DEF TypeOK
<1>2. run' = run /\ Workers' = Workers
  BY DEF WorkerStep, Enter, CheckErrors, List, ListFails, DeleteTag,
         DeleteItem, DeleteItemUndone, DeleteFails, ReturnsCount, SendError, Leave, Workers
<1>3. SUFFICES /\ GoodWorkers'
               /\ concurrency' \in Int
               /\ errorChan' \in Seq(Workers)
               /\ count' \in Nat
               /\ stored' \subseteq Stored
               /\ gone' \subseteq Stored
               /\ undone' \in Seq({x \in Stored : x.kind = "cluster"})
               /\ tag' \in [Tags -> Stored \cup {None}]
  BY <1>2 DEF TypeOK, GoodWorkers
<1>4. ASSUME NEW pc \in WorkerStates \ {"delete"}
      PROVE  Good([worker[i] EXCEPT !.pc = pc])
  BY <1>1 DEF Worker, Good
<1>5. CASE Enter(i)
  <2>1. worker' = [worker EXCEPT ![i] = [worker[i] EXCEPT !.pc = "admitted"]]
    BY <1>5 DEF Enter
  <2>2. GoodWorkers'
    BY <1>2, <1>4, <2>1, WorkerChanges DEF WorkerStates
  <2>3. QED
    BY <1>5, <2>2 DEF Enter, TypeOK, cloud
<1>6. CASE CheckErrors(i)
  <2> DEFINE w == IF errorChan # <<>> THEN [worker[i] EXCEPT !.pc = "leave"]
                  ELSE IF run.projects[i] \in Forbidden[Kind]
                  THEN [worker[i] EXCEPT !.pc = "send"]
                  ELSE [worker[i] EXCEPT !.pc = "list",
                                         !.repos = Repos(Kind, run.projects[i])]
  <2>1. worker' = [worker EXCEPT ![i] = w]
    BY <1>6 DEF CheckErrors
  <2>2. Repos(Kind, run.projects[i]) \subseteq Repositories
    BY DEF Repos, Repositories
  <2>3. Good(w)
    BY <1>1, <1>4, <2>2 DEF Worker, WorkerStates, Good
  <2>4. GoodWorkers'
    BY <1>2, <2>1, <2>3, WorkerChanges
  <2>5. QED
    BY <1>6, <2>4 DEF CheckErrors, TypeOK, cloud
<1>7. CASE List(i)
  <2>1. PICK repo \in worker[i].repos :
          \E w \in GoesOn(i, [worker[i] EXCEPT !.repos = @ \ {repo}], Old(i, repo)) :
             worker' = [worker EXCEPT ![i] = w]
    BY <1>7 DEF List
  <2>2. PICK w \in GoesOn(i, [worker[i] EXCEPT !.repos = @ \ {repo}], Old(i, repo)) :
             worker' = [worker EXCEPT ![i] = w]
    BY <2>1
  <2>3. [worker[i] EXCEPT !.repos = @ \ {repo}] \in Worker
    BY <1>1 DEF Worker
  <2>4. Old(i, repo) \in SUBSET Listed
    BY DEF Old, Listed, TypeOK
  <2>5. Good(w)
    BY <2>3, <2>4, GoesOnType
  <2>6. GoodWorkers'
    BY <1>2, <2>2, <2>5, WorkerChanges
  <2>7. QED
    BY <1>7, <2>6 DEF List, TypeOK, cloud
<1>8. ASSUME NEW pc \in WorkerStates \ {"delete"}, NEW c \in Nat, Leaving(i, pc, c)
      PROVE  GoodWorkers' /\ count' \in Nat
  <2>1. worker' = [worker EXCEPT ![i] = [Queued EXCEPT !.pc = pc]]
    BY <1>8 DEF Leaving
  <2>2. Good([Queued EXCEPT !.pc = pc])
    BY QueuedType
  <2>3. GoodWorkers'
    BY <1>2, <2>1, <2>2, WorkerChanges
  <2>4. QED
    BY <1>8, <2>3 DEF Leaving, TypeOK
<1>9. ASSUME ReturnsError(i)
      PROVE  GoodWorkers' /\ count' \in Nat
  <2>1. PICK c \in Nat : Leaving(i, "send", c)
    BY <1>1, <1>9 DEF ReturnsError, Worker
  <2>2. QED
    BY <1>8, <2>1 DEF WorkerStates
<1>10. CASE ListFails(i)
  BY <1>9, <1>10 DEF ListFails, TypeOK, cloud
<1>11. CASE DeleteTag(i)
  <2>1. worker[i].now \in Listed
    BY <1>1, <1>11 DEF DeleteTag, Working, TypeOK, Worker
  <2>2. PICK t \in worker[i].now.tags :
            /\ tag[t] # None
            /\ tag' = [tag EXCEPT ![t] = None]
            /\ worker' = [worker EXCEPT ![i].now.tags = @ \ {t}]
    BY <1>11 DEF DeleteTag
  <2> DEFINE n == [worker[i].now EXCEPT !.tags = @ \ {t}]
             w == [worker[i] EXCEPT !.now = n]
  <2>3. worker' = [worker EXCEPT ![i] = w]
    BY <2>2
  <2>4. n \in Listed
    BY <2>1 DEF Listed
  <2>5. n # None
    BY <2>4 DEF Listed
  <2> HIDE DEF n
  <2>6. Good(w)
    BY <1>1, <2>4, <2>5 DEF Worker, Good
  <2>7. GoodWorkers'
    BY <1>2, <2>3, <2>6, WorkerChanges
  <2>8. tag' \in [Tags -> Stored \cup {None}]
    BY <2>2 DEF TypeOK
  <2>9. QED
    BY <1>11, <2>7, <2>8 DEF DeleteTag, TypeOK
<1>12. CASE DeleteItem(i)
  <2>1. PICK w \in GoesOn(i, [worker[i] EXCEPT !.count = @ + 1], worker[i].todo) :
             worker' = [worker EXCEPT ![i] = w]
    BY <1>12 DEF DeleteItem
  <2>2. [worker[i] EXCEPT !.count = @ + 1] \in Worker /\ worker[i].todo \in SUBSET Listed
    BY <1>1 DEF Worker
  <2>3. Good(w)
    BY <2>2, GoesOnType
  <2>4. GoodWorkers'
    BY <1>2, <2>1, <2>3, WorkerChanges
  <2>5. QED
    BY <1>12, <2>4 DEF DeleteItem, TypeOK, Deletable
<1>17. CASE DeleteItemUndone(i)
  <2> DEFINE x == worker[i].now.item
  <2>1. PICK w \in GoesOn(i, [worker[i] EXCEPT !.count = @ + 1], worker[i].todo) :
             worker' = [worker EXCEPT ![i] = w]
    BY <1>17 DEF DeleteItemUndone
  <2>2. [worker[i] EXCEPT !.count = @ + 1] \in Worker /\ worker[i].todo \in SUBSET Listed
    BY <1>1 DEF Worker
  <2>3. Good(w)
    BY <2>2, GoesOnType
  <2>4. GoodWorkers'
    BY <1>2, <2>1, <2>3, WorkerChanges
  <2>5. x \in Stored /\ x.kind = "cluster" /\ undone' = Append(undone, x)
    BY <1>17 DEF DeleteItemUndone, TypeOK
  <2> HIDE DEF x
  <2>6. undone' \in Seq({y \in Stored : y.kind = "cluster"})
    BY <2>5 DEF TypeOK
  <2>7. QED
    BY <1>17, <2>4, <2>6 DEF DeleteItemUndone, TypeOK
<1>13. CASE DeleteFails(i)
  <2>1. stored' \subseteq Stored /\ gone' \subseteq Stored
    BY <1>13 DEF DeleteFails, TypeOK, Deletable, cloud
  <2>2. tag' \in [Tags -> Stored \cup {None}]
    BY <1>13 DEF DeleteFails, TypeOK, cloud
  <2>3. undone' = undone
    BY <1>13 DEF DeleteFails, cloud
  <2>4. undone' \in Seq({x \in Stored : x.kind = "cluster"})
    BY <2>3 DEF TypeOK
  <2>5. /\ run' = run /\ concurrency' = concurrency /\ errorChan' = errorChan
        /\ concurrency \in Int /\ run \in Run /\ errorChan \in Seq(Workers)
        /\ (run.pc = "idle") = (run.kinds = <<>>)
    BY <1>13 DEF DeleteFails, TypeOK
  <2>6. errorChan' \in Seq(Workers')
    BY <2>5 DEF Workers
  <2>7. GoodWorkers' /\ count' \in Nat
    BY <1>9, <1>13 DEF DeleteFails
  <2> HIDE DEF GoodWorkers
  <2>8. QED
    BY <2>1, <2>2, <2>4, <2>5, <2>6, <2>7 DEF TypeOK, GoodWorkers
<1>14. CASE ReturnsCount(i)
  <2>1. PICK c \in Nat : Leaving(i, "leave", c)
    BY <1>1, <1>14 DEF ReturnsCount, Worker
  <2>2. GoodWorkers' /\ count' \in Nat
    BY <1>8, <2>1 DEF WorkerStates
  <2>3. QED
    BY <1>14, <2>2 DEF ReturnsCount, TypeOK, cloud
<1>15. CASE SendError(i)
  <2>1. worker' = [worker EXCEPT ![i] = [worker[i] EXCEPT !.pc = "leave"]]
    BY <1>15 DEF SendError
  <2>2. GoodWorkers'
    BY <1>2, <1>4, <2>1, WorkerChanges DEF WorkerStates
  <2>3. errorChan' \in Seq(Workers)
    BY <1>15 DEF SendError, TypeOK
  <2>4. QED
    BY <1>15, <2>2, <2>3 DEF SendError, TypeOK, cloud
<1>16. CASE Leave(i)
  <2>1. worker' = [worker EXCEPT ![i] = [worker[i] EXCEPT !.pc = "done"]]
    BY <1>16 DEF Leave
  <2>2. GoodWorkers'
    BY <1>2, <1>4, <2>1, WorkerChanges DEF WorkerStates
  <2>3. QED
    BY <1>16, <2>2 DEF Leave, TypeOK, cloud
<1>18. QED
  BY <1>5, <1>6, <1>7, <1>10, <1>11, <1>12, <1>13, <1>14, <1>15, <1>16, <1>17 DEF WorkerStep

\* Every other step keeps the types.
LEMMA NextType == ASSUME TypeOK, [Next]_vars PROVE TypeOK'
<1> USE CleanupAssumption
<1>1. ASSUME NEW w, w = [i \in Workers |-> Queued]
      PROVE  w \in [Workers -> Worker] /\ \A i \in Workers : w[i].pc # "delete"
  <2>1. Queued \in Worker /\ Queued.pc # "delete"
    BY QueuedType DEF Good, Queued
  <2>2. QED
    BY <1>1, <2>1
<1>2. CASE Start
  <2>1. PICK o \in OptionSets :
          /\ selectProjects(o) # None
          /\ Deleters(o) # <<>>
          /\ run' = [pc |-> "new", kinds |-> Deleters(o),
                     projects |-> selectProjects(o), dryRun |-> o.dryRun]
          /\ worker' = [i \in DOMAIN selectProjects(o) |-> Queued]
    BY <1>2 DEF Start
  <2>2. run' \in Run /\ run'.pc # "idle" /\ run'.kinds # <<>>
    BY <2>1, DeletersType, SelectionType DEF Run, Options
  <2>3. Workers' = DOMAIN selectProjects(o)
    BY <2>1 DEF Workers
  <2>4. Queued \in Worker /\ Queued.pc # "delete"
    BY QueuedType DEF Good, Queued
  <2>5. /\ worker' \in [Workers' -> Worker]
        /\ \A i \in Workers' : worker'[i].pc # "delete"
    BY <2>1, <2>3, <2>4
  <2>6. errorChan' \in Seq(Workers')
    <3>1. errorChan' = <<>>
      BY <1>2 DEF Start, Fresh
    <3>2. QED
      BY <3>1
  <2>7. QED
    BY <1>2, <2>2, <2>5, <2>6 DEF Start, Fresh, TypeOK
<1>3. CASE NewDeleter
  <2>1. run' \in Run /\ run'.pc # "idle" /\ run'.kinds = run.kinds /\ Workers' = Workers
    BY <1>3 DEF NewDeleter, TypeOK, Run, Workers
  <2>2. run.kinds # <<>>
    BY <1>3 DEF NewDeleter, TypeOK
  <2>3. QED
    BY <1>3, <2>1, <2>2 DEF NewDeleter, TypeOK, cloud
<1>4. CASE NewDeleterFails \/ Crash
  BY <1>4, ExitType DEF NewDeleterFails, Crash
<1>5. CASE Return
  <2>1. CASE Tail(run.kinds) = <<>>
    BY <1>5, <2>1, ExitType DEF Return
  <2>2. CASE Tail(run.kinds) # <<>>
    <3>1. run.kinds \in Seq(Kinds) /\ run.kinds # <<>> /\ run \in Run
      BY <1>5 DEF Return, TypeOK, Run
    <3>2. Tail(run.kinds) \in Seq(Kinds)
      BY <3>1
    <3>3. run' = [run EXCEPT !.pc = "new", !.kinds = Tail(@)]
      BY <1>5, <2>2 DEF Return
    <3>4. run' \in Run /\ run'.pc # "idle" /\ run'.kinds # <<>> /\ Workers' = Workers
      BY <2>2, <3>1, <3>2, <3>3 DEF Run, Workers
    <3>5. /\ worker' \in [Workers' -> Worker]
          /\ \A i \in Workers' : worker'[i].pc # "delete"
      BY <1>1, <1>5, <2>2, <3>4 DEF Return
    <3>6. errorChan' \in Seq(Workers') /\ concurrency' \in Int /\ count' \in Nat
      BY <1>5, <2>2 DEF Return, Fresh
    <3>7. QED
      BY <1>5, <2>2, <3>4, <3>5, <3>6 DEF Return, Fresh, TypeOK
  <2>3. QED
    BY <2>1, <2>2
<1>6. CASE \E i \in Workers : WorkerStep(i)
  BY <1>6, WorkerType
<1>7. CASE \E x \in Stored : OthersDelete(x)
  BY <1>7 DEF OthersDelete, TypeOK, Workers
<1>8. CASE \E t \in Tags, x \in Stored : Push(t, x)
  BY <1>8 DEF Push, TypeOK, Workers
<1>9. CASE UNCHANGED vars
  BY <1>9 DEF vars, TypeOK, Workers
<1>10. QED
  BY <1>2, <1>3, <1>4, <1>5, <1>6, <1>7, <1>8, <1>9 DEF Next, Main

\* Nothing runs to begin with.
LEMMA InitType == Init => TypeOK
  BY IdleType, CleanupAssumption DEF Init, TypeOK, Workers

\* TypeOK is an invariant, whatever the command lines, the resources and the faults
\* are.
THEOREM TypeCorrect == Spec => []TypeOK
<1>1. Init => TypeOK
  BY InitType
<1>2. TypeOK /\ [Next]_vars => TypeOK'
  BY NextType
<1>3. QED
  BY <1>1, <1>2, PTL DEF Spec

-----------------------------------------------------------------------------
(* Errors.                                                                 *)

\* There are finitely many goroutines, and so in every set of them.
LEMMA FiniteSets ==
  ASSUME TypeOK
  PROVE  /\ IsFiniteSet(Inside) /\ IsFiniteSet(Trying)
         /\ Cardinality(Inside) \in Nat /\ Cardinality(Trying) \in Nat
<1>1. run.projects \in Seq(STRING)
  BY DEF TypeOK, Run
<1>2. Workers = 1 .. Len(run.projects)
  BY <1>1 DEF Workers
<1>3. IsFiniteSet(Workers)
  BY <1>1, <1>2, FS_Interval
<1>4. Inside \in SUBSET Workers /\ Trying \in SUBSET Workers
  BY DEF Inside, Trying
<1>5. IsFiniteSet(Inside) /\ IsFiniteSet(Trying)
  BY <1>3, <1>4, FS_Subset
<1>6. QED
  BY <1>5, FS_CardinalityType

\* What one goroutine changes about both sets.
LEMMA SetsChange ==
  ASSUME TypeOK, run' = run, NEW i \in Workers, NEW w, worker' = [worker EXCEPT ![i] = w]
  PROVE  /\ i \in Inside /\ w.pc \notin {"queued", "done"} => Inside' = Inside
         /\ i \notin Inside /\ w.pc \notin {"queued", "done"} => Inside' = Inside \cup {i}
         /\ w.pc \in {"queued", "done"} => Inside' = Inside \ {i}
         /\ (i \in Trying <=> w.pc \in {"list", "delete", "send"}) => Trying' = Trying
         /\ w.pc \notin {"list", "delete", "send"} => Trying' = Trying \ {i}
<1>1. Workers' = Workers /\ worker'[i] = w
      /\ \A j \in Workers \ {i} : worker'[j] = worker[j]
  BY DEF Workers, TypeOK
<1>2. QED
  BY <1>1 DEF Inside, Trying

\* No goroutine has begun.
LEMMA NoneInside ==
  ASSUME worker' = [i \in Workers' |-> Queued], concurrency' = 0, errorChan' = <<>>
  PROVE  ErrorsInv'
<1>1. Inside' = {} /\ Trying' = {}
  BY DEF Inside, Trying, Queued
<1>2. Cardinality(Inside') = 0 /\ Cardinality(Trying') = 0
  BY <1>1, FS_EmptySet
<1>3. Len(errorChan') = 0
  BY DEF ErrorsInv
<1>4. QED
  BY <1>2, <1>3, CleanupAssumption DEF ErrorsInv

\* The process ends.
LEMMA ExitErrors == ASSUME Exit PROVE ErrorsInv'
<1>1. Workers' = {}
  BY IdleType DEF Exit, Workers
<1>2. worker' = [i \in Workers' |-> Queued]
  BY <1>1 DEF Exit
<1>3. QED
  BY <1>2, NoneInside DEF Exit, Fresh

\* GoesOn leaves it in one of two places.
LEMMA GoesOnTrying ==
  ASSUME NEW i, NEW u \in Worker, NEW todo, NEW w \in GoesOn(i, u, todo)
  PROVE  w.pc \in {"list", "delete"}
<1>1. CASE todo = {}
  BY <1>1 DEF GoesOn, Worker
<1>2. CASE todo # {}
  BY <1>2 DEF GoesOn, Worker
<1>3. QED
  BY <1>1, <1>2

\* A step of a goroutine keeps ErrorsInv: it is admitted only if there is a place, tries
\* only if no error has been sent, and sends at most one.
LEMMA WorkerErrors ==
  ASSUME TypeOK, ErrorsInv, NEW i \in Workers, WorkerStep(i)
  PROVE  ErrorsInv'
<1> USE CleanupAssumption
<1>1. worker[i] \in Worker /\ errorChan \in Seq(Workers) /\ Len(errorChan) \in Nat
  BY DEF TypeOK
<1>2. run' = run
  BY DEF WorkerStep, Enter, CheckErrors, List, ListFails, DeleteTag,
         DeleteItem, DeleteItemUndone, DeleteFails, ReturnsCount, SendError, Leave
<1>3. /\ IsFiniteSet(Inside) /\ IsFiniteSet(Trying)
      /\ Cardinality(Inside) \in Nat /\ Cardinality(Trying) \in Nat
  BY FiniteSets
<1>4. CASE Enter(i)
  <2> DEFINE w == [worker[i] EXCEPT !.pc = "admitted"]
  <2>1. worker' = [worker EXCEPT ![i] = w] /\ w.pc = "admitted"
    BY <1>1, <1>4 DEF Enter, Worker
  <2> HIDE DEF w
  <2>2. i \notin Inside /\ i \notin Trying
    BY <1>4 DEF Enter, Working, Inside, Trying
  <2>3. Inside' = Inside \cup {i} /\ Trying' = Trying
    BY <1>1, <1>2, <2>1, <2>2, SetsChange
  <2>4. Cardinality(Inside') = Cardinality(Inside) + 1
    BY <1>3, <2>2, <2>3, FS_AddElement
  <2>5. QED
    BY <1>3, <1>4, <2>3, <2>4 DEF Enter, ErrorsInv
<1>5. CASE CheckErrors(i)
  <2>1. i \in Inside /\ i \notin Trying /\ UNCHANGED <<concurrency, errorChan>>
    BY <1>5 DEF CheckErrors, Working, Inside, Trying
  <2>2. CASE errorChan # <<>>
    <3> DEFINE w == [worker[i] EXCEPT !.pc = "leave"]
    <3>1. worker' = [worker EXCEPT ![i] = w] /\ w.pc = "leave"
      BY <1>1, <1>5, <2>2 DEF CheckErrors, Worker
    <3> HIDE DEF w
    <3>2. Inside' = Inside /\ Trying' = Trying
      BY <1>1, <1>2, <2>1, <3>1, SetsChange
    <3>3. QED
      BY <2>1, <3>2 DEF ErrorsInv
  <2>3. CASE errorChan = <<>>
    <3> DEFINE w == IF run.projects[i] \in Forbidden[Kind]
                    THEN [worker[i] EXCEPT !.pc = "send"]
                    ELSE [worker[i] EXCEPT !.pc = "list",
                                           !.repos = Repos(Kind, run.projects[i])]
    <3>1. worker' = [worker EXCEPT ![i] = w]
      BY <1>5, <2>3 DEF CheckErrors
    <3>2. w.pc \in {"send", "list"}
      BY <1>1 DEF Worker
    <3>3. Inside' = Inside
      <4> HIDE DEF w
      <4> QED
        BY <1>2, <2>1, <3>1, <3>2, SetsChange
    <3>4. Trying' \in SUBSET (Inside')
      BY DEF Trying, Inside
    <3>5. Cardinality(Trying') <= Cardinality(Inside)
      BY <1>3, <3>3, <3>4, FS_Subset
    <3>6. Cardinality(Trying') \in Nat
      BY <1>3, <3>3, <3>4, FS_Subset, FS_CardinalityType
    <3>7. Len(errorChan') = 0
      BY <2>1, <2>3
    <3>8. QED
      BY <1>3, <2>1, <3>3, <3>5, <3>6, <3>7 DEF ErrorsInv
  <2>4. QED
    BY <2>2, <2>3
<1>6. CASE List(i)
  <2>1. PICK repo \in worker[i].repos :
          \E w \in GoesOn(i, [worker[i] EXCEPT !.repos = @ \ {repo}], Old(i, repo)) :
             worker' = [worker EXCEPT ![i] = w]
    BY <1>6 DEF List
  <2>2. PICK w \in GoesOn(i, [worker[i] EXCEPT !.repos = @ \ {repo}], Old(i, repo)) :
             worker' = [worker EXCEPT ![i] = w]
    BY <2>1
  <2>3. [worker[i] EXCEPT !.repos = @ \ {repo}] \in Worker
    BY <1>1 DEF Worker
  <2>4. w.pc \in {"list", "delete"}
    BY <2>3, GoesOnTrying
  <2>5. i \in Inside /\ i \in Trying
    BY <1>6 DEF List, Working, Inside, Trying
  <2>6. Inside' = Inside /\ Trying' = Trying
    BY <1>2, <2>2, <2>4, <2>5, SetsChange
  <2>7. QED
    BY <1>6, <2>6 DEF List, ErrorsInv
<1>7. ASSUME worker[i].pc \in {"list", "delete"}, concurrency' = concurrency,
             errorChan' = errorChan, ReturnsError(i)
      PROVE  ErrorsInv'
  <2> DEFINE w == [Queued EXCEPT !.pc = "send"]
  <2>1. worker' = [worker EXCEPT ![i] = w] /\ w.pc = "send"
    BY <1>7 DEF ReturnsError, Leaving, Queued
  <2> HIDE DEF w
  <2>2. i \in Inside /\ i \in Trying
    BY <1>7 DEF Inside, Trying
  <2>3. Inside' = Inside /\ Trying' = Trying
    BY <1>2, <2>1, <2>2, SetsChange
  <2>4. QED
    BY <1>7, <2>3 DEF ErrorsInv
<1>8. CASE ListFails(i)
  BY <1>7, <1>8 DEF ListFails, Working
<1>9. CASE DeleteTag(i)
  <2>1. PICK t : worker' = [worker EXCEPT ![i].now.tags = @ \ {t}]
    BY <1>9 DEF DeleteTag
  <2> DEFINE w == [worker[i] EXCEPT !.now.tags = @ \ {t}]
  <2>2. worker' = [worker EXCEPT ![i] = w] /\ w.pc = worker[i].pc
    BY <1>1, <2>1 DEF Worker
  <2> HIDE DEF w
  <2>3. i \in Inside /\ i \in Trying /\ worker[i].pc = "delete"
    BY <1>9 DEF DeleteTag, Working, Inside, Trying
  <2>4. Inside' = Inside /\ Trying' = Trying
    BY <1>2, <2>2, <2>3, SetsChange
  <2>5. QED
    BY <1>9, <2>4 DEF DeleteTag, ErrorsInv
<1>10. CASE DeleteItem(i)
  <2>1. PICK w \in GoesOn(i, [worker[i] EXCEPT !.count = @ + 1], worker[i].todo) :
             worker' = [worker EXCEPT ![i] = w]
    BY <1>10 DEF DeleteItem
  <2>2. [worker[i] EXCEPT !.count = @ + 1] \in Worker
    BY <1>1 DEF Worker
  <2>3. w.pc \in {"list", "delete"}
    BY <2>2, GoesOnTrying
  <2>4. i \in Inside /\ i \in Trying
    BY <1>10 DEF DeleteItem, Working, Inside, Trying
  <2>5. Inside' = Inside /\ Trying' = Trying
    BY <1>2, <2>1, <2>3, <2>4, SetsChange
  <2>6. QED
    BY <1>10, <2>5 DEF DeleteItem, ErrorsInv
<1>15. CASE DeleteItemUndone(i)
  <2>1. PICK w \in GoesOn(i, [worker[i] EXCEPT !.count = @ + 1], worker[i].todo) :
             worker' = [worker EXCEPT ![i] = w]
    BY <1>15 DEF DeleteItemUndone
  <2>2. [worker[i] EXCEPT !.count = @ + 1] \in Worker
    BY <1>1 DEF Worker
  <2>3. w.pc \in {"list", "delete"}
    BY <2>2, GoesOnTrying
  <2>4. i \in Inside /\ i \in Trying
    BY <1>15 DEF DeleteItemUndone, Working, Inside, Trying
  <2>5. Inside' = Inside /\ Trying' = Trying
    BY <1>2, <2>1, <2>3, <2>4, SetsChange
  <2>6. QED
    BY <1>15, <2>5 DEF DeleteItemUndone, ErrorsInv
<1>11. CASE DeleteFails(i)
  BY <1>7, <1>11 DEF DeleteFails, Working
<1>12. CASE ReturnsCount(i)
  <2> DEFINE w == [Queued EXCEPT !.pc = "leave"]
  <2>1. worker' = [worker EXCEPT ![i] = w] /\ w.pc = "leave"
    BY <1>12 DEF ReturnsCount, Leaving, Queued
  <2> HIDE DEF w
  <2>2. i \in Inside /\ i \in Trying
    BY <1>12 DEF ReturnsCount, Working, Inside, Trying
  <2>3. Inside' = Inside /\ Trying' = Trying \ {i}
    BY <1>2, <2>1, <2>2, SetsChange
  <2>4. Cardinality(Trying') = Cardinality(Trying) - 1
    BY <1>3, <2>2, <2>3, FS_RemoveElement
  <2>5. QED
    BY <1>1, <1>3, <1>12, <2>3, <2>4 DEF ReturnsCount, ErrorsInv
<1>13. CASE SendError(i)
  <2> DEFINE w == [worker[i] EXCEPT !.pc = "leave"]
  <2>1. worker' = [worker EXCEPT ![i] = w] /\ w.pc = "leave"
    BY <1>1, <1>13 DEF SendError, Worker
  <2> HIDE DEF w
  <2>2. i \in Inside /\ i \in Trying
    BY <1>13 DEF SendError, Working, Inside, Trying
  <2>3. Inside' = Inside /\ Trying' = Trying \ {i}
    BY <1>1, <1>2, <2>1, <2>2, SetsChange
  <2>4. Cardinality(Trying') = Cardinality(Trying) - 1
    BY <1>3, <2>2, <2>3, FS_RemoveElement
  <2>5. Len(errorChan') = Len(errorChan) + 1
    BY <1>1, <1>13 DEF SendError
  <2>6. QED
    BY <1>1, <1>3, <1>13, <2>3, <2>4, <2>5 DEF SendError, ErrorsInv
<1>14. CASE Leave(i)
  <2> DEFINE w == [worker[i] EXCEPT !.pc = "done"]
  <2>1. worker' = [worker EXCEPT ![i] = w] /\ w.pc = "done"
    BY <1>1, <1>14 DEF Leave, Worker
  <2> HIDE DEF w
  <2>2. i \in Inside /\ i \notin Trying
    BY <1>14 DEF Leave, Working, Inside, Trying
  <2>3. Inside' = Inside \ {i} /\ Trying' = Trying
    BY <1>1, <1>2, <2>1, <2>2, SetsChange
  <2>4. Cardinality(Inside') = Cardinality(Inside) - 1
    BY <1>3, <2>2, <2>3, FS_RemoveElement
  <2>5. QED
    BY <1>3, <1>14, <2>3, <2>4 DEF Leave, ErrorsInv
<1>16. QED
  BY <1>4, <1>5, <1>6, <1>8, <1>9, <1>10, <1>11, <1>12, <1>13, <1>14, <1>15 DEF WorkerStep

\* So does every other step: it leaves the goroutines alone, or starts them anew.
LEMMA NextErrors == ASSUME TypeOK, ErrorsInv, [Next]_vars PROVE ErrorsInv'
<1>1. CASE Start
  <2>1. worker' = [i \in Workers' |-> Queued]
    BY <1>1 DEF Start, Workers
  <2>2. QED
    BY <1>1, <2>1, NoneInside DEF Start, Fresh
<1>2. CASE NewDeleterFails \/ Crash
  BY <1>2, ExitErrors DEF NewDeleterFails, Crash
<1>3. CASE Return
  <2>1. CASE Exit
    BY <2>1, ExitErrors
  <2>2. CASE Tail(run.kinds) # <<>>
    <3>1. run' = [run EXCEPT !.pc = "new", !.kinds = Tail(@)]
      BY <1>3, <2>2 DEF Return
    <3>2. Workers' = Workers
      BY <3>1 DEF TypeOK, Run, Workers
    <3>3. QED
      BY <1>3, <2>2, <3>2, NoneInside DEF Return, Fresh
  <2>3. QED
    BY <1>3, <2>1, <2>2 DEF Return
<1>4. ASSUME UNCHANGED <<worker, concurrency, errorChan>>, run'.projects = run.projects
      PROVE  ErrorsInv'
  <2>1. Inside' = Inside /\ Trying' = Trying
    BY <1>4 DEF Inside, Trying, Workers
  <2>2. QED
    BY <1>4, <2>1 DEF ErrorsInv
<1>5. CASE NewDeleter
  BY <1>4, <1>5 DEF NewDeleter, TypeOK, Run
<1>6. CASE (\E x \in Stored : OthersDelete(x)) \/ (\E t \in Tags, x \in Stored : Push(t, x))
  BY <1>4, <1>6 DEF OthersDelete, Push
<1>7. CASE UNCHANGED vars
  BY <1>4, <1>7 DEF vars
<1>8. CASE \E i \in Workers : WorkerStep(i)
  BY <1>8, WorkerErrors
<1>9. QED
  BY <1>1, <1>2, <1>3, <1>5, <1>6, <1>7, <1>8 DEF Next, Main

\* However many projects there are, at most ConcurrentOperations invocations fail.
THEOREM ErrorsSafe == Spec => []ErrorsBounded
<1>1. Init => ErrorsInv
  <2> SUFFICES ASSUME Init PROVE ErrorsInv
    OBVIOUS
  <2>1. Inside = {} /\ Trying = {}
    BY IdleType DEF Init, Inside, Trying, Workers
  <2>2. Cardinality(Inside) = 0 /\ Cardinality(Trying) = 0
    BY <2>1, FS_EmptySet
  <2>3. Len(errorChan) = 0
    BY DEF Init
  <2>4. QED
    BY <2>2, <2>3, CleanupAssumption DEF Init, ErrorsInv
<1>2. TypeOK /\ ErrorsInv /\ [Next]_vars => ErrorsInv'
  BY NextErrors
<1>3. TypeOK /\ ErrorsInv => ErrorsBounded
  <2> SUFFICES ASSUME TypeOK, ErrorsInv PROVE ErrorsBounded
    OBVIOUS
  <2>1. Cardinality(Trying) \in Nat /\ Len(errorChan) \in Nat
    BY FiniteSets DEF TypeOK
  <2>2. QED
    BY <2>1, CleanupAssumption DEF ErrorsInv, ErrorsBounded
<1>4. QED
  BY <1>1, <1>2, <1>3, TypeCorrect, PTL DEF Spec

-----------------------------------------------------------------------------
(* What is left.                                                           *)

\* An old image or cluster of the project of goroutine i.
Selected(i, x) == x.old /\ x.kind = Kind /\ x.project = run.projects[i]

\* What has been undone stays so, with one more or without.
LEMMA UndoneStays ==
  ASSUME TypeOK, undone' = undone \/ \E y \in Stored : undone' = Append(undone, y), NEW x,
         Undone(x)
  PROVE  Undone(x)'
<1>1. undone \in Seq(Stored)
  BY DEF TypeOK
<1>2. PICK n \in DOMAIN undone : undone[n] = x
  BY DEF Undone
<1>3. n \in DOMAIN undone' /\ undone'[n] = x
  BY <1>1, <1>2
<1>4. QED
  BY <1>3 DEF Undone

\* One goroutine changes, nothing new is stored, and no error is taken back.
LEMMA OthersAhead ==
  ASSUME TypeOK, CleanInv, run' = run, stored' \subseteq stored,
         errorChan' = <<>> => errorChan = <<>>,
         undone' = undone \/ \E y \in Stored : undone' = Append(undone, y),
         NEW i \in Workers, NEW w, worker' = [worker EXCEPT ![i] = w],
         \A x \in stored' : errorChan' = <<>> /\ Selected(i, x) /\ Ahead(worker[i], x)
                               => Ahead(w, x) \/ Undone(x)'
  PROVE  CleanInv'
<1>1. SUFFICES ASSUME run.pc # "idle", ~run.dryRun, errorChan' = <<>>,
                      NEW j \in Workers, NEW x \in stored', Selected(j, x)
               PROVE  Ahead(worker'[j], x) \/ Undone(x)'
  BY DEF CleanInv, Selected, Workers, Kind, Ahead
<1>2. Ahead(worker[j], x) \/ Undone(x)'
  <2>1. Ahead(worker[j], x) \/ Undone(x)
    BY <1>1 DEF CleanInv, Selected
  <2>2. QED
    BY <2>1, UndoneStays
<1>3. CASE j = i
  <2>1. worker'[i] = w
    BY DEF TypeOK
  <2>2. QED
    BY <1>1, <1>2, <1>3, <2>1
<1>4. CASE j # i
  <2>1. worker'[j] = worker[j]
    BY <1>4 DEF TypeOK
  <2>2. QED
    BY <1>2, <2>1
<1>5. QED
  BY <1>3, <1>4

\* A goroutine that has not come to its lists, or is about to send an error.
LEMMA AheadByPlace ==
  ASSUME NEW w, w.pc \in {"queued", "admitted", "send"}, NEW x
  PROVE  Ahead(w, x)
  BY DEF Ahead

\* What GoesOn is given to do is ahead, and so are the lists that are left.
LEMMA GoesOnAhead ==
  ASSUME NEW i, NEW u \in Worker, NEW todo, NEW w \in GoesOn(i, u, todo), NEW x,
         x.repo \in u.repos \/ \E l \in todo : l.item = x
  PROVE  Ahead(w, x)
<1>1. CASE todo = {}
  <2>1. w.pc = "list" /\ w.repos = u.repos
    BY <1>1 DEF GoesOn, Worker
  <2>2. QED
    BY <1>1, <2>1 DEF Ahead
<1>2. CASE todo # {}
  <2>1. PICK l \in todo : w = [u EXCEPT !.pc = "delete", !.now = l, !.todo = todo \ {l}]
    BY <1>2 DEF GoesOn
  <2>2. w.pc = "delete" /\ w.repos = u.repos /\ w.now = l /\ w.todo = todo \ {l}
    BY <2>1 DEF Worker
  <2>3. QED
    BY <2>2 DEF Ahead
<1>3. QED
  BY <1>1, <1>2

\* DeleteResources is left with an error.
LEMMA ErrorAhead ==
  ASSUME TypeOK, CleanInv, run' = run, stored' \subseteq stored, errorChan' = errorChan,
         undone' = undone,
         NEW i \in Workers, ReturnsError(i)
  PROVE  CleanInv'
<1> DEFINE w == [Queued EXCEPT !.pc = "send"]
<1>1. worker' = [worker EXCEPT ![i] = w] /\ w.pc = "send"
  BY DEF ReturnsError, Leaving, Queued
<1> HIDE DEF w
<1>2. \A x \in stored' : Ahead(w, x)
  BY <1>1, AheadByPlace
<1>3. QED
  BY <1>1, <1>2, OthersAhead

\* A step of a goroutine keeps CleanInv: what it takes off its lists it has deleted, or
\* it sends an error.
LEMMA WorkerClean ==
  ASSUME TypeOK, CleanInv, NEW i \in Workers, WorkerStep(i)
  PROVE  CleanInv'
<1>1. worker[i] \in Worker /\ stored \subseteq Stored
  BY DEF TypeOK
<1>2. run' = run
  BY DEF WorkerStep, Enter, CheckErrors, List, ListFails, DeleteTag,
         DeleteItem, DeleteItemUndone, DeleteFails, ReturnsCount, SendError, Leave
<1>3. CASE Enter(i)
  <2> DEFINE w == [worker[i] EXCEPT !.pc = "admitted"]
  <2>1. /\ worker' = [worker EXCEPT ![i] = w] /\ w.pc = "admitted"
        /\ stored' = stored /\ errorChan' = errorChan /\ undone' = undone
    BY <1>1, <1>3 DEF Enter, Worker, cloud
  <2> HIDE DEF w
  <2>2. \A x \in stored' : Ahead(w, x)
    BY <2>1, AheadByPlace
  <2>3. QED
    BY <1>2, <2>1, <2>2, OthersAhead
<1>4. CASE CheckErrors(i)
  <2> DEFINE w == IF errorChan # <<>> THEN [worker[i] EXCEPT !.pc = "leave"]
                  ELSE IF run.projects[i] \in Forbidden[Kind]
                  THEN [worker[i] EXCEPT !.pc = "send"]
                  ELSE [worker[i] EXCEPT !.pc = "list",
                                         !.repos = Repos(Kind, run.projects[i])]
  <2>1. /\ worker' = [worker EXCEPT ![i] = w]
        /\ stored' = stored /\ errorChan' = errorChan /\ undone' = undone
    BY <1>4 DEF CheckErrors, cloud
  <2>2. CASE errorChan # <<>>
    BY <1>2, <2>1, <2>2, OthersAhead
  <2>3. CASE errorChan = <<>> /\ run.projects[i] \in Forbidden[Kind]
    <3>1. w.pc = "send"
      BY <1>1, <2>3 DEF Worker
    <3> HIDE DEF w
    <3>2. \A x \in stored' : Ahead(w, x)
      BY <3>1, AheadByPlace
    <3>3. QED
      BY <1>2, <2>1, <2>3, <3>2, OthersAhead
  <2>4. CASE errorChan = <<>> /\ run.projects[i] \notin Forbidden[Kind]
    <3>1. w.pc = "list" /\ w.repos = Repos(Kind, run.projects[i])
      BY <1>1, <2>4 DEF Worker
    <3> HIDE DEF w
    <3>2. ASSUME NEW x \in stored, Selected(i, x)
          PROVE  Ahead(w, x)
      <4>1. x.repo \in Repos(Kind, run.projects[i])
        BY <1>1, <3>2 DEF Repos, Selected
      <4>2. QED
        BY <3>1, <4>1 DEF Ahead
    <3>3. QED
      BY <1>2, <2>1, <2>4, <3>2, OthersAhead
  <2>5. QED
    BY <2>2, <2>3, <2>4
<1>5. CASE List(i)
  <2>1. PICK repo \in worker[i].repos :
          \E w \in GoesOn(i, [worker[i] EXCEPT !.repos = @ \ {repo}], Old(i, repo)) :
             worker' = [worker EXCEPT ![i] = w]
    BY <1>5 DEF List
  <2> DEFINE u == [worker[i] EXCEPT !.repos = @ \ {repo}]
  <2>2. PICK w \in GoesOn(i, u, Old(i, repo)) : worker' = [worker EXCEPT ![i] = w]
    BY <2>1
  <2>3. u \in Worker /\ u.repos = worker[i].repos \ {repo}
    BY <1>1 DEF Worker
  <2> HIDE DEF u
  <2>4. stored' = stored /\ errorChan' = errorChan /\ undone' = undone /\ worker[i].pc = "list"
    BY <1>5 DEF List, Working, cloud
  <2>5. ASSUME NEW x \in stored, Selected(i, x), Ahead(worker[i], x), ~run.dryRun
        PROVE  Ahead(w, x)
    <3>1. x.repo \in worker[i].repos
      BY <2>4, <2>5 DEF Ahead
    <3>2. CASE x.repo = repo
      <4> DEFINE l == [item |-> x, tags |-> {t \in Tags : tag[t] = x}]
      <4>1. l \in Old(i, repo) /\ l.item = x
        BY <2>5, <3>2 DEF Old, Selected
      <4>2. QED
        BY <2>2, <2>3, <4>1, GoesOnAhead
    <3>3. CASE x.repo # repo
      BY <2>2, <2>3, <3>1, <3>3, GoesOnAhead
    <3>4. QED
      BY <3>2, <3>3
  <2>6. CASE run.dryRun
    BY <1>2, <2>6 DEF CleanInv
  <2>7. QED
    BY <1>2, <2>2, <2>4, <2>5, <2>6, OthersAhead
<1>6. CASE ListFails(i)
  BY <1>2, <1>6, ErrorAhead DEF ListFails, cloud
<1>7. CASE DeleteTag(i)
  <2>1. PICK t : worker' = [worker EXCEPT ![i].now.tags = @ \ {t}]
    BY <1>7 DEF DeleteTag
  <2> DEFINE w == [worker[i] EXCEPT !.now.tags = @ \ {t}]
  <2>2. worker[i].pc = "delete" /\ worker[i].now \in Listed
    BY <1>1, <1>7 DEF DeleteTag, Working, TypeOK, Worker
  <2>3. /\ worker' = [worker EXCEPT ![i] = w]
        /\ w.pc = "delete" /\ w.repos = worker[i].repos /\ w.todo = worker[i].todo
        /\ w.now.item = worker[i].now.item
    BY <1>1, <2>1, <2>2 DEF Worker, Listed
  <2> HIDE DEF w
  <2>4. \A x \in stored : Ahead(worker[i], x) => Ahead(w, x)
    BY <2>2, <2>3 DEF Ahead
  <2>5. stored' = stored /\ errorChan' = errorChan /\ undone' = undone
    BY <1>7 DEF DeleteTag
  <2>6. QED
    BY <1>2, <2>3, <2>4, <2>5, OthersAhead
<1>8. CASE DeleteItem(i)
  <2> DEFINE u == [worker[i] EXCEPT !.count = @ + 1]
  <2>1. PICK w \in GoesOn(i, u, worker[i].todo) : worker' = [worker EXCEPT ![i] = w]
    BY <1>8 DEF DeleteItem
  <2>2. u \in Worker /\ u.repos = worker[i].repos
    BY <1>1 DEF Worker
  <2> HIDE DEF u
  <2>3. /\ worker[i].pc = "delete" /\ errorChan' = errorChan /\ undone' = undone
        /\ stored' = stored \ {worker[i].now.item}
    BY <1>8 DEF DeleteItem, Working
  <2>4. ASSUME NEW x \in stored', Ahead(worker[i], x)
        PROVE  Ahead(w, x)
    <3>1. x # worker[i].now.item
      BY <2>3
    <3>2. x.repo \in u.repos \/ \E l \in worker[i].todo : l.item = x
      BY <2>2, <2>3, <2>4, <3>1 DEF Ahead
    <3>3. QED
      BY <2>1, <2>2, <3>2, GoesOnAhead
  <2>5. QED
    BY <1>2, <2>1, <2>3, <2>4, OthersAhead
<1>13. CASE DeleteItemUndone(i)
  <2> DEFINE u == [worker[i] EXCEPT !.count = @ + 1]
             y == worker[i].now.item
  <2>1. PICK w \in GoesOn(i, u, worker[i].todo) : worker' = [worker EXCEPT ![i] = w]
    BY <1>13 DEF DeleteItemUndone
  <2>2. u \in Worker /\ u.repos = worker[i].repos
    BY <1>1 DEF Worker
  <2>3. /\ worker[i].pc = "delete" /\ errorChan' = errorChan /\ stored' = stored
        /\ y \in Stored /\ undone' = Append(undone, y)
    BY <1>1, <1>13 DEF DeleteItemUndone, Working
  <2> HIDE DEF u
  <2>4. ASSUME NEW x \in stored', Ahead(worker[i], x)
        PROVE  Ahead(w, x) \/ Undone(x)'
    <3>1. CASE x = y
      <4>1. undone \in Seq(Stored)
        BY DEF TypeOK
      <4> HIDE DEF y
      <4>2. Len(undone) + 1 \in DOMAIN undone' /\ undone'[Len(undone) + 1] = x
        BY <2>3, <3>1, <4>1
      <4>3. QED
        BY <4>2 DEF Undone
    <3>2. CASE x # y
      <4>1. x.repo \in u.repos \/ \E l \in worker[i].todo : l.item = x
        BY <2>2, <2>3, <2>4, <3>2 DEF Ahead
      <4>2. QED
        BY <2>1, <2>2, <4>1, GoesOnAhead
    <3>3. QED
      BY <3>1, <3>2
  <2>5. QED
    BY <1>2, <2>1, <2>3, <2>4, OthersAhead
<1>9. CASE DeleteFails(i)
  <2>1. stored' \subseteq stored /\ undone' = undone
    BY <1>9 DEF DeleteFails, cloud
  <2>2. QED
    BY <1>2, <1>9, <2>1, ErrorAhead DEF DeleteFails
<1>10. CASE ReturnsCount(i)
  <2>1. PICK w : worker' = [worker EXCEPT ![i] = w]
    BY <1>10 DEF ReturnsCount, Leaving
  <2>2. \A x \in stored : ~Ahead(worker[i], x)
    BY <1>10 DEF ReturnsCount, Working, Ahead
  <2>3. stored' = stored /\ errorChan' = errorChan /\ undone' = undone
    BY <1>10 DEF ReturnsCount, cloud
  <2>4. QED
    BY <1>2, <2>1, <2>2, <2>3, OthersAhead
<1>11. CASE SendError(i)
  <2>1. errorChan \in Seq(Workers)
    BY DEF TypeOK
  <2>2. errorChan' = Append(errorChan, i)
    BY <1>11 DEF SendError
  <2>3. errorChan' # <<>>
    BY <2>1, <2>2
  <2>4. QED
    BY <2>3 DEF CleanInv
<1>12. CASE Leave(i)
  <2>1. PICK w : worker' = [worker EXCEPT ![i] = w]
    BY <1>12 DEF Leave
  <2>2. \A x \in stored : ~Ahead(worker[i], x)
    BY <1>12 DEF Leave, Working, Ahead
  <2>3. stored' = stored /\ errorChan' = errorChan /\ undone' = undone
    BY <1>12 DEF Leave, cloud
  <2>4. QED
    BY <1>2, <2>1, <2>2, <2>3, OthersAhead
<1>14. QED
  BY <1>3, <1>4, <1>5, <1>6, <1>7, <1>8, <1>9, <1>10, <1>11, <1>12, <1>13 DEF WorkerStep

\* So does every other step.
LEMMA NextClean == ASSUME TypeOK, CleanInv, [Next]_vars PROVE CleanInv'
<1>1. ASSUME worker' = [i \in Workers' |-> Queued] PROVE CleanInv'
  <2>1. \A i \in Workers' : worker'[i].pc = "queued"
    BY <1>1 DEF Queued
  <2>2. QED
    BY <2>1 DEF CleanInv, Ahead
<1>2. ASSUME Exit PROVE CleanInv'
  BY <1>2, IdleType DEF Exit, CleanInv
<1>3. CASE Start
  BY <1>1, <1>3 DEF Start, Workers
<1>4. CASE NewDeleterFails \/ Crash
  BY <1>2, <1>4 DEF NewDeleterFails, Crash
<1>5. CASE Return
  <2>1. CASE Tail(run.kinds) # <<>>
    <3>1. run' = [run EXCEPT !.pc = "new", !.kinds = Tail(@)]
      BY <1>5, <2>1 DEF Return
    <3>2. Workers' = Workers
      BY <3>1 DEF TypeOK, Run, Workers
    <3>3. QED
      BY <1>1, <1>5, <2>1, <3>2 DEF Return
  <2>2. QED
    BY <1>2, <1>5, <2>1 DEF Return
<1>6. ASSUME worker' = worker, errorChan' = errorChan, stored' \subseteq stored,
             undone' = undone, run.pc # "idle", run'.projects = run.projects, run'.kinds = run.kinds,
             run'.dryRun = run.dryRun
      PROVE  CleanInv'
  BY <1>6 DEF CleanInv, Workers, Kind, Ahead, Undone
<1>7. CASE NewDeleter
  BY <1>6, <1>7 DEF NewDeleter, cloud, TypeOK, Run
<1>8. CASE /\ run' = run /\ worker' = worker /\ errorChan' = errorChan
           /\ stored' \subseteq stored /\ undone' = undone
  BY <1>6, <1>8 DEF CleanInv
<1>9. CASE (\E x \in Stored : OthersDelete(x)) \/ (\E t \in Tags, x \in Stored : Push(t, x))
  BY <1>8, <1>9 DEF OthersDelete, Push
<1>10. CASE UNCHANGED vars
  BY <1>8, <1>10 DEF vars
<1>11. CASE \E i \in Workers : WorkerStep(i)
  BY <1>11, WorkerClean
<1>12. QED
  BY <1>3, <1>4, <1>5, <1>7, <1>9, <1>10, <1>11 DEF Next, Main

\* When Delete ends without an error, nothing old is left of what was selected, but for
\* clusters whose DELETE operation has ended with an error that Wait does not look at.
THEOREM CleanSafe == Spec => []CleanIfNoErrors
<1>1. Init => CleanInv
  BY IdleType DEF Init, CleanInv
<1>2. TypeOK /\ CleanInv /\ [Next]_vars => CleanInv'
  BY NextClean
<1>3. CleanInv => CleanIfNoErrors
  <2> SUFFICES ASSUME CleanInv, run.pc = "delete", ~run.dryRun, errorChan = <<>>,
                      \A i \in Workers : worker[i].pc = "done",
                      NEW x \in stored, NEW i \in Workers,
                      x.old /\ x.kind = Kind /\ x.project = run.projects[i]
               PROVE  Undone(x)
    BY DEF CleanIfNoErrors
  <2>1. Ahead(worker[i], x) \/ Undone(x)
    BY DEF CleanInv
  <2>2. QED
    BY <2>1 DEF Ahead
<1>4. QED
  BY <1>1, <1>2, <1>3, TypeCorrect, PTL DEF Spec

-----------------------------------------------------------------------------
(* The counter.                                                            *)

\* As many answers as there are things gone and operations undone.
LEMMA TaggedCount ==
  ASSUME NEW g \in SUBSET Stored, NEW u \in Seq(Stored),
         NEW both, both = {<<"gone", x>> : x \in g} \cup {<<"undone", n>> : n \in DOMAIN u}
  PROVE  /\ IsFiniteSet(both)
         /\ Cardinality(both) <= Cardinality(g) + Len(u)
         /\ Cardinality(g) \in Nat /\ Len(u) \in Nat
<1> DEFINE G == {<<"gone", x>> : x \in g}
           D == DOMAIN u
           U == {<<"undone", n>> : n \in D}
<1>1. IsFiniteSet(g) /\ Cardinality(g) \in Nat
  BY CleanupAssumption, FS_Subset, FS_CardinalityType
<1>2. Len(u) \in Nat /\ IsFiniteSet(D) /\ Cardinality(D) = Len(u)
  <2>1. Len(u) \in Nat /\ D = 1 .. Len(u)
    OBVIOUS
  <2> HIDE DEF D
  <2>2. IsFiniteSet(1 .. Len(u)) /\ Cardinality(1 .. Len(u)) = Len(u)
    <3> DEFINE l == Len(u)
    <3>1. l \in Nat
      BY <2>1
    <3> HIDE DEF l
    <3>2. IsFiniteSet(1 .. l) /\ Cardinality(1 .. l) = IF 1 > l THEN 0 ELSE l - 1 + 1
      BY <3>1, FS_Interval
    <3>3. Cardinality(1 .. l) = l
      BY <3>1, <3>2
    <3> QED
      BY <3>2, <3>3 DEF l
  <2>3. QED
    BY <2>1, <2>2
<1>3. IsFiniteSet(G) /\ Cardinality(G) <= Cardinality(g)
  <2> DEFINE f == [x \in g |-> <<"gone", x>>]
  <2>1. f \in Surjection(g, G)
    BY DEF Surjection
  <2> HIDE DEF f, G
  <2>2. QED
    BY <1>1, <2>1, FS_Surjection
<1>4. both = G \cup U
  OBVIOUS
<1> HIDE DEF D
<1>5. IsFiniteSet(U) /\ Cardinality(U) <= Len(u)
  <2> DEFINE f == [n \in D |-> <<"undone", n>>]
  <2>1. f \in Surjection(D, U)
    BY DEF Surjection
  <2> HIDE DEF f, U
  <2>2. QED
    BY <1>2, <2>1, FS_Surjection
<1> HIDE DEF G, U
<1>6. /\ IsFiniteSet(G \cup U)
      /\ Cardinality(G \cup U) = Cardinality(G) + Cardinality(U) - Cardinality(G \cap U)
  BY <1>3, <1>5, FS_Union
<1>7. Cardinality(G) \in Nat /\ Cardinality(U) \in Nat /\ Cardinality(G \cap U) \in Nat
  <2>1. IsFiniteSet(G \cap U)
    BY <1>3, FS_Subset
  <2>2. QED
    BY <1>3, <1>5, <2>1, FS_CardinalityType
<1>8. Cardinality(G \cup U) <= Cardinality(g) + Len(u)
  <2> DEFINE cG == Cardinality(G)
             cU == Cardinality(U)
             cB == Cardinality(G \cap U)
             cg == Cardinality(g)
             l == Len(u)
  <2>1. /\ cG \in Nat /\ cU \in Nat /\ cB \in Nat /\ cg \in Nat /\ l \in Nat
        /\ cG <= cg /\ cU <= l /\ Cardinality(G \cup U) = cG + cU - cB
    BY <1>1, <1>2, <1>3, <1>5, <1>6, <1>7
  <2> HIDE DEF cG, cU, cB, cg, l
  <2>2. Cardinality(G \cup U) <= cg + l
    BY <2>1
  <2>3. QED
    BY <2>2 DEF cg, l
<1>9. QED
  BY <1>1, <1>2, <1>4, <1>6, <1>8

LEMMA AnsweredCount ==
  ASSUME TypeOK
  PROVE  /\ IsFiniteSet(Answered)
         /\ Cardinality(Answered) <= Cardinality(gone) + Len(undone)
         /\ Cardinality(gone) \in Nat /\ Len(undone) \in Nat
<1>1. gone \in SUBSET Stored /\ undone \in Seq(Stored)
  BY DEF TypeOK
<1>2. QED
  BY <1>1, TaggedCount DEF Answered

LEMMA GivenFacts ==
  ASSUME TypeOK
  PROVE  /\ Workers = 1 .. Len(run.projects) /\ Counter \notin Workers
         /\ \A own, c : /\ IsFiniteSet(Given(own, c))
                        /\ Cardinality(Given(own, c)) \in Nat
<1>1. ASSUME NEW own, NEW c
      PROVE  IsFiniteSet(Given(own, c)) /\ Cardinality(Given(own, c)) \in Nat
  <2>1. Given(own, c) \in SUBSET Answered
    BY DEF Given
  <2> QED
    BY <2>1, AnsweredCount, FS_Subset, FS_CardinalityType
<1>2. Workers = 1 .. Len(run.projects) /\ Len(run.projects) \in Nat
  BY DEF TypeOK, Run, Workers
<1> QED
  BY <1>1, <1>2 DEF Counter

\* Nothing has been counted.
LEMMA NoneCounted ==
  ASSUME worker' = [i \in Workers' |-> Queued], gone' = {}, undone' = <<>>, count' = 0
  PROVE  CountInv'
<1> DEFINE own == [x \in {} |-> Counter]
<1>1. Answered' = {}
  BY DEF Answered
<1>2. own \in [Answered' -> Workers' \cup {Counter}] /\ gone' \cap stored' = {}
  BY <1>1
<1>3. \A c : Given(own, c)' = {}
  BY <1>1 DEF Given
<1> HIDE DEF own
<1>4. \A c : Cardinality(Given(own, c)') = 0
  BY <1>3, FS_EmptySet
<1>5. \A i \in Workers' : worker'[i].count = 0
  BY DEF Queued
<1>6. Covers(own)'
  BY <1>4, <1>5 DEF Covers
<1> QED
  BY <1>2, <1>6 DEF CountInv

\* Nothing more is counted, and nothing more is gone.
LEMMA SameCounted ==
  ASSUME CountInv, Workers' = Workers, gone' = gone, undone' = undone, count' = count,
         stored' \subseteq stored,
         \A i \in Workers : worker'[i].count = worker[i].count
  PROVE  CountInv'
<1>1. PICK own \in [Answered -> Workers \cup {Counter}] : Covers(own)
  BY DEF CountInv
<1>2. Answered' = Answered
  BY DEF Answered
<1>3. \A c : Given(own, c)' = Given(own, c)
  BY <1>2 DEF Given
<1>4. \A i \in Workers : worker'[i].count <= Cardinality(Given(own, i)')
  BY <1>1, <1>3 DEF Covers
<1>5. count' <= Cardinality(Given(own, Counter)')
  BY <1>1, <1>3 DEF Covers
<1>6. Covers(own)'
  BY <1>4, <1>5 DEF Covers
<1> QED
  BY <1>1, <1>2, <1>6 DEF CountInv

\* What a goroutine deletes, or is told of, is given to it.
LEMMA OneMore ==
  ASSUME TypeOK, CountInv, Workers' = Workers, NEW i \in Workers, NEW a,
         a \notin Answered, Answered' = Answered \cup {a}, gone' \cap stored' = {},
         count' = count, worker'[i].count = worker[i].count + 1,
         \A j \in Workers \ {i} : worker'[j] = worker[j]
  PROVE  CountInv'
<1>1. PICK own \in [Answered -> Workers \cup {Counter}] : Covers(own)
  BY DEF CountInv
<1>2. PICK new \in [Answered' -> Workers' \cup {Counter}] :
             \A y \in Answered' : new[y] = IF y = a THEN i ELSE own[y]
  <2> DEFINE f == [y \in Answered' |-> IF y = a THEN i ELSE own[y]]
  <2>1. f \in [Answered' -> Workers' \cup {Counter}]
    BY <1>1
  <2> QED
    BY <2>1
<1>3. Given(new, i)' = Given(own, i) \cup {a} /\ a \notin Given(own, i)
  BY <1>2 DEF Given
<1>4. \A c : c # i => Given(new, c)' = Given(own, c)
  BY <1>2 DEF Given
<1>5. Cardinality(Given(new, i)') = Cardinality(Given(own, i)) + 1
  BY <1>3, GivenFacts, FS_AddElement
<1>6. worker[i].count \in Nat /\ worker[i].count <= Cardinality(Given(own, i))
  BY <1>1 DEF TypeOK, Worker, Covers
<1>7. worker'[i].count <= Cardinality(Given(new, i)')
  BY <1>5, <1>6, GivenFacts
<1>8. Covers(new)'
  BY <1>1, <1>4, <1>7, GivenFacts DEF Covers
<1> QED
  BY <1>2, <1>8 DEF CountInv

\* A goroutine hands over what it has counted, or less; more may be gone than it counts.
LEMMA HandsOver ==
  ASSUME TypeOK, TypeOK', CountInv, Workers' = Workers, NEW i \in Workers,
         NEW c \in 0 .. worker[i].count, NEW more, more \cap Answered = {},
         Answered' = Answered \cup more, gone' \cap stored' = {},
         count' = count + c, worker'[i].count = 0,
         \A j \in Workers \ {i} : worker'[j] = worker[j]
  PROVE  CountInv'
<1>1. PICK own \in [Answered -> Workers \cup {Counter}] : Covers(own)
  BY DEF CountInv
<1> DEFINE sum == Given(own, Counter) \cup Given(own, i)
<1>2. PICK new \in [Answered' -> Workers' \cup {Counter}] :
             \A y \in Answered' : new[y] = IF y \in more \/ own[y] = i THEN Counter ELSE own[y]
  <2> DEFINE f == [y \in Answered' |-> IF y \in more \/ own[y] = i THEN Counter ELSE own[y]]
  <2>1. f \in [Answered' -> Workers' \cup {Counter}]
    BY <1>1
  <2> QED
    BY <2>1
<1>3. sum \subseteq Given(new, Counter)'
  BY <1>2 DEF Given
<1>4. \A j \in Workers : j # i => Given(new, j)' = Given(own, j)
  BY <1>2, GivenFacts DEF Given
<1>5. /\ IsFiniteSet(Given(new, Counter)') /\ Cardinality(Given(new, Counter)') \in Nat
      /\ Cardinality(Given(new, i)') \in Nat
  <2>1. Given(new, Counter)' \in SUBSET Answered' /\ Given(new, i)' \in SUBSET Answered'
    BY DEF Given
  <2>2. IsFiniteSet(Answered')
    <3>1. gone' \in SUBSET Stored /\ undone' \in Seq(Stored)
      BY DEF TypeOK
    <3> QED
      BY <3>1, TaggedCount DEF Answered
  <2> QED
    BY <2>1, <2>2, FS_Subset, FS_CardinalityType
<1>6. Given(own, Counter) \cap Given(own, i) = {}
  BY GivenFacts DEF Given
<1>7. Cardinality(sum) = Cardinality(Given(own, Counter)) + Cardinality(Given(own, i))
  <2> DEFINE S == Given(own, Counter)
             T == Given(own, i)
  <2>1. IsFiniteSet(S) /\ IsFiniteSet(T) /\ Cardinality(S) \in Nat /\ Cardinality(T) \in Nat
    BY GivenFacts
  <2>2. S \cap T = {}
    BY <1>6
  <2> HIDE DEF S, T
  <2>3. Cardinality(S \cup T) = Cardinality(S) + Cardinality(T) - Cardinality(S \cap T)
    BY <2>1, FS_Union
  <2>4. Cardinality(S \cap T) = 0
    BY <2>2, FS_EmptySet
  <2>5. Cardinality(S \cup T) = Cardinality(S) + Cardinality(T)
    BY <2>1, <2>3, <2>4
  <2> QED
    BY <2>5 DEF S, T
<1>8. Cardinality(sum) <= Cardinality(Given(new, Counter)')
  <2>1. sum \in SUBSET (Given(new, Counter)')
    BY <1>3
  <2> HIDE DEF sum
  <2> QED
    BY <1>5, <2>1, FS_Subset
<1>9. /\ worker[i].count \in Nat /\ count \in Nat
      /\ worker[i].count <= Cardinality(Given(own, i))
      /\ count <= Cardinality(Given(own, Counter))
  BY <1>1 DEF TypeOK, Worker, Covers
<1>10. count' <= Cardinality(Given(new, Counter)')
  <2> HIDE DEF sum
  <2> QED
    BY <1>5, <1>7, <1>8, <1>9, GivenFacts
<1>11. ASSUME NEW j \in Workers
       PROVE  worker'[j].count <= Cardinality(Given(new, j)')
  <2>1. CASE j = i
    BY <1>5, <2>1
  <2>2. CASE j # i
    BY <1>1, <1>4, <2>2 DEF Covers
  <2> QED
    BY <2>1, <2>2
<1>12. Covers(new)'
  BY <1>10, <1>11 DEF Covers
<1> QED
  BY <1>2, <1>12 DEF CountInv

\* A step of a goroutine counts what it deletes at most once, also if two goroutines work on
\* the same images.
LEMMA WorkerCounts ==
  ASSUME TypeOK, TypeOK', CountInv, NEW i \in Workers, WorkerStep(i)
  PROVE  CountInv'
<1>1. worker \in [Workers -> Worker] /\ worker[i] \in Worker /\ worker[i].count \in Nat
  BY DEF TypeOK, Worker
<1>2. run' = run /\ Workers' = Workers
  BY DEF WorkerStep, Enter, CheckErrors, List, ListFails, DeleteTag,
         DeleteItem, DeleteItemUndone, DeleteFails, ReturnsCount, SendError, Leave, Workers
<1>3. ASSUME NEW w, worker' = [worker EXCEPT ![i] = w], w.count = worker[i].count,
             UNCHANGED <<count, stored, gone, undone>>
      PROVE  CountInv'
  BY <1>1, <1>2, <1>3, SameCounted
<1>4. ASSUME NEW pc, NEW c \in {worker[i].count, 0}, Leaving(i, pc, c),
             NEW more \in SUBSET stored, gone' = gone \cup more, stored' = stored \ more,
             undone' = undone
      PROVE  CountInv'
  <2>1. worker'[i].count = 0 /\ \A j \in Workers \ {i} : worker'[j] = worker[j]
    BY <1>1, <1>4 DEF Leaving, Queued
  <2>2. count' = count + c /\ c \in 0 .. worker[i].count
    BY <1>1, <1>4 DEF Leaving
  <2>3. gone \cap stored = {}
    BY DEF CountInv
  <2>4. /\ Answered' = Answered \cup {<<"gone", x>> : x \in more}
        /\ {<<"gone", x>> : x \in more} \cap Answered = {}
    BY <1>4, <2>3 DEF Answered
  <2>5. gone' \cap stored' = {}
    BY <1>4, <2>3
  <2> QED
    BY <1>2, <2>1, <2>2, <2>4, <2>5, HandsOver
<1>5. ASSUME ReturnsError(i), NEW more \in SUBSET stored, gone' = gone \cup more,
             stored' = stored \ more, undone' = undone
      PROVE  CountInv'
  <2>1. PICK c \in {worker[i].count, 0} : Leaving(i, "send", c)
    BY <1>5 DEF ReturnsError
  <2> QED
    BY <1>4, <1>5, <2>1
<1>6. CASE Enter(i)
  <2> DEFINE w == [worker[i] EXCEPT !.pc = "admitted"]
  <2>1. worker' = [worker EXCEPT ![i] = w] /\ w.count = worker[i].count
    BY <1>1, <1>6 DEF Enter, Worker
  <2> QED
    BY <1>3, <1>6, <2>1 DEF Enter, cloud
<1>7. CASE CheckErrors(i)
  <2> DEFINE w == IF errorChan # <<>> THEN [worker[i] EXCEPT !.pc = "leave"]
                  ELSE IF run.projects[i] \in Forbidden[Kind]
                  THEN [worker[i] EXCEPT !.pc = "send"]
                  ELSE [worker[i] EXCEPT !.pc = "list",
                                         !.repos = Repos(Kind, run.projects[i])]
  <2>1. worker' = [worker EXCEPT ![i] = w]
    BY <1>7 DEF CheckErrors
  <2>2. w.count = worker[i].count
    BY <1>1 DEF Worker
  <2> HIDE DEF w
  <2> QED
    BY <1>3, <1>7, <2>1, <2>2 DEF CheckErrors, cloud
<1>8. ASSUME NEW u \in Worker, NEW todo, NEW w \in GoesOn(i, u, todo)
      PROVE  w.count = u.count
  <2>1. CASE todo = {}
    BY <1>8, <2>1 DEF GoesOn, Worker
  <2>2. CASE todo # {}
    BY <1>8, <2>2 DEF GoesOn, Worker
  <2> QED
    BY <2>1, <2>2
<1>9. CASE List(i)
  <2>1. PICK repo \in worker[i].repos :
          \E w \in GoesOn(i, [worker[i] EXCEPT !.repos = @ \ {repo}], Old(i, repo)) :
             worker' = [worker EXCEPT ![i] = w]
    BY <1>9 DEF List
  <2> DEFINE u == [worker[i] EXCEPT !.repos = @ \ {repo}]
  <2>2. u \in Worker /\ u.count = worker[i].count
    BY <1>1 DEF Worker
  <2>3. PICK w \in GoesOn(i, u, Old(i, repo)) : worker' = [worker EXCEPT ![i] = w]
    BY <2>1
  <2> HIDE DEF u
  <2>4. w.count = worker[i].count
    BY <1>8, <2>2
  <2> QED
    BY <1>3, <1>9, <2>3, <2>4 DEF List, cloud
<1>10. CASE ListFails(i)
  <2>1. gone' = gone \cup {} /\ stored' = stored \ {} /\ undone' = undone
    BY <1>10 DEF ListFails, cloud
  <2> QED
    BY <1>5, <1>10, <2>1 DEF ListFails
<1>11. CASE DeleteTag(i)
  <2>1. PICK t : worker' = [worker EXCEPT ![i].now.tags = @ \ {t}]
    BY <1>11 DEF DeleteTag
  <2> DEFINE w == [worker[i] EXCEPT !.now.tags = @ \ {t}]
  <2>2. worker' = [worker EXCEPT ![i] = w] /\ w.count = worker[i].count
    BY <1>1, <2>1 DEF Worker
  <2> HIDE DEF w
  <2> QED
    BY <1>3, <1>11, <2>2 DEF DeleteTag
<1>12. CASE DeleteItem(i)
  <2> DEFINE x == worker[i].now.item
             u == [worker[i] EXCEPT !.count = @ + 1]
  <2>1. /\ x \in stored /\ stored' = stored \ {x} /\ gone' = gone \cup {x}
        /\ count' = count /\ undone' = undone
    BY <1>12 DEF DeleteItem, Deletable
  <2>2. PICK w \in GoesOn(i, u, worker[i].todo) : worker' = [worker EXCEPT ![i] = w]
    BY <1>12 DEF DeleteItem
  <2>3. u \in Worker /\ u.count = worker[i].count + 1
    BY <1>1 DEF Worker
  <2> HIDE DEF u, x
  <2>4. w.count = worker[i].count + 1
    BY <1>8, <2>3
  <2>5. worker'[i].count = worker[i].count + 1 /\ \A j \in Workers \ {i} : worker'[j] = worker[j]
    BY <1>1, <2>2, <2>4
  <2>6. gone \cap stored = {}
    BY DEF CountInv
  <2>7. /\ <<"gone", x>> \notin Answered /\ Answered' = Answered \cup {<<"gone", x>>}
        /\ gone' \cap stored' = {}
    BY <2>1, <2>6 DEF Answered
  <2> QED
    BY <1>2, <2>1, <2>5, <2>7, OneMore
<1>17. CASE DeleteItemUndone(i)
  <2> DEFINE x == worker[i].now.item
             u == [worker[i] EXCEPT !.count = @ + 1]
             n == Len(undone) + 1
  <2>1. x \in Stored /\ undone' = Append(undone, x) /\ UNCHANGED <<stored, gone, count>>
    BY <1>17 DEF DeleteItemUndone, TypeOK
  <2>2. PICK w \in GoesOn(i, u, worker[i].todo) : worker' = [worker EXCEPT ![i] = w]
    BY <1>17 DEF DeleteItemUndone
  <2>3. u \in Worker /\ u.count = worker[i].count + 1
    BY <1>1 DEF Worker
  <2> HIDE DEF u, x
  <2>4. w.count = worker[i].count + 1
    BY <1>8, <2>3
  <2>5. worker'[i].count = worker[i].count + 1 /\ \A j \in Workers \ {i} : worker'[j] = worker[j]
    BY <1>1, <2>2, <2>4
  <2>6. DOMAIN undone' = DOMAIN undone \cup {n} /\ n \notin DOMAIN undone
    <3>1. undone \in Seq(Stored) /\ Len(undone) \in Nat /\ DOMAIN undone = 1 .. Len(undone)
      BY DEF TypeOK
    <3>2. DOMAIN undone' = 1 .. Len(undone) + 1
      BY <2>1, <3>1
    <3> QED
      BY <3>1, <3>2
  <2> HIDE DEF n
  <2>7. <<"undone", n>> \notin Answered /\ Answered' = Answered \cup {<<"undone", n>>}
    BY <2>1, <2>6 DEF Answered
  <2>8. gone' \cap stored' = {}
    BY <2>1 DEF CountInv
  <2> QED
    BY <1>2, <2>1, <2>5, <2>7, <2>8, OneMore
<1>13. CASE DeleteFails(i)
  <2> DEFINE x == worker[i].now.item
  <2>1. CASE UNCHANGED <<stored, gone, undone>>
    <3>1. gone' = gone \cup {} /\ stored' = stored \ {} /\ undone' = undone
      BY <2>1
    <3> QED
      BY <1>5, <1>13, <3>1 DEF DeleteFails
  <2>2. CASE /\ x \in stored /\ stored' = stored \ {x} /\ gone' = gone \cup {x}
             /\ undone' = undone
    BY <1>5, <1>13, <2>2 DEF DeleteFails
  <2> QED
    BY <1>13, <2>1, <2>2 DEF DeleteFails, cloud, Deletable
<1>14. CASE ReturnsCount(i)
  <2>1. PICK c \in {worker[i].count, 0} : Leaving(i, "leave", c)
    BY <1>14 DEF ReturnsCount
  <2>2. gone' = gone \cup {} /\ stored' = stored \ {} /\ undone' = undone
    BY <1>14 DEF ReturnsCount, cloud
  <2> QED
    BY <1>4, <2>1, <2>2
<1>15. CASE SendError(i)
  <2> DEFINE w == [worker[i] EXCEPT !.pc = "leave"]
  <2>1. worker' = [worker EXCEPT ![i] = w] /\ w.count = worker[i].count
    BY <1>1, <1>15 DEF SendError, Worker
  <2> HIDE DEF w
  <2> QED
    BY <1>3, <1>15, <2>1 DEF SendError, cloud
<1>16. CASE Leave(i)
  <2> DEFINE w == [worker[i] EXCEPT !.pc = "done"]
  <2>1. worker' = [worker EXCEPT ![i] = w] /\ w.count = worker[i].count
    BY <1>1, <1>16 DEF Leave, Worker
  <2> HIDE DEF w
  <2> QED
    BY <1>3, <1>16, <2>1 DEF Leave, cloud
<1> QED
  BY <1>6, <1>7, <1>9, <1>10, <1>11, <1>12, <1>13, <1>14, <1>15, <1>16,
     <1>17 DEF WorkerStep

LEMMA NextCounts == ASSUME TypeOK, TypeOK', CountInv, [Next]_vars PROVE CountInv'
<1>1. CASE Start
  <2>1. worker' = [i \in Workers' |-> Queued]
    BY <1>1 DEF Start, Workers
  <2> QED
    BY <1>1, <2>1, NoneCounted DEF Start, Fresh
<1>2. CASE Exit
  <2>1. worker' = [i \in Workers' |-> Queued]
    BY <1>2, IdleType DEF Exit, Workers
  <2> QED
    BY <1>2, <2>1, NoneCounted DEF Exit, Fresh
<1>3. CASE Return /\ Tail(run.kinds) # <<>>
  <2>1. run' = [run EXCEPT !.pc = "new", !.kinds = Tail(@)]
    BY <1>3 DEF Return
  <2>2. Workers' = Workers
    BY <2>1 DEF TypeOK, Run, Workers
  <2> QED
    BY <1>3, <2>2, NoneCounted DEF Return, Fresh
<1>4. ASSUME UNCHANGED <<worker, count, gone, undone>>, run'.projects = run.projects,
             stored' \subseteq stored
      PROVE  CountInv'
  BY <1>4, SameCounted DEF Workers
<1>5. CASE NewDeleter
  BY <1>4, <1>5 DEF NewDeleter, cloud, TypeOK, Run
<1>6. CASE (\E x \in Stored : OthersDelete(x)) \/ (\E t \in Tags, x \in Stored : Push(t, x))
  BY <1>4, <1>6 DEF OthersDelete, Push
<1>7. CASE UNCHANGED vars
  BY <1>4, <1>7 DEF vars
<1>8. CASE \E i \in Workers : WorkerStep(i)
  BY <1>8, WorkerCounts
<1> QED
  BY <1>1, <1>2, <1>3, <1>5, <1>6, <1>7, <1>8 DEF Next, Main, NewDeleterFails, Crash, Return

\* Delete never claims to have deleted more than is gone and than DELETE operations have
\* ended with an error, for any number of goroutines, and if some of them work on the same
\* project.
THEOREM CountSafe == Spec => []CountBounded
<1>1. Init => CountInv
  <2> SUFFICES ASSUME Init PROVE CountInv
    OBVIOUS
  <2> DEFINE own == [x \in {} |-> Counter]
  <2>1. Answered = {}
    BY DEF Init, Answered
  <2>2. own \in [Answered -> Workers \cup {Counter}] /\ gone \cap stored = {} /\ Workers = {}
    BY <2>1, IdleType DEF Init, Workers
  <2>3. Given(own, Counter) = {}
    BY <2>1 DEF Given
  <2>4. Covers(own)
    BY <2>2, <2>3, FS_EmptySet DEF Covers, Init
  <2> QED
    BY <2>2, <2>4 DEF CountInv
<1>2. TypeOK /\ TypeOK' /\ CountInv /\ [Next]_vars => CountInv'
  BY NextCounts
<1>3. TypeOK /\ CountInv => CountBounded
  <2> SUFFICES ASSUME TypeOK, CountInv PROVE CountBounded
    OBVIOUS
  <2>1. PICK own \in [Answered -> Workers \cup {Counter}] : Covers(own)
    BY DEF CountInv
  <2>2. Given(own, Counter) \in SUBSET Answered
    BY DEF Given
  <2>3. Cardinality(Given(own, Counter)) <= Cardinality(Answered) /\ Cardinality(Answered) \in Nat
    BY <2>2, AnsweredCount, FS_Subset, FS_CardinalityType
  <2> QED
    BY <2>1, <2>3, GivenFacts, AnsweredCount DEF Covers, CountBounded, TypeOK
<1> QED
  BY <1>1, <1>2, <1>3, TypeCorrect, PTL DEF Spec

=============================================================================
