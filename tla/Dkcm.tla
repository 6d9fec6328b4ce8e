-------------------------------- MODULE Dkcm --------------------------------
(***************************************************************************)
(* DKCM keeps a pool of ready-made GKE clusters for Prow jobs.  A job      *)
(* posts to /request-cluster and gets a token, polls /get-cluster with it  *)
(* until a cluster is ready, and at the end calls /clean-cluster.  The     *)
(* server keeps two MySQL tables (Clusters and Requests), takes GCP        *)
(* projects from Boskos and creates clusters with kubetest2.               *)
(*                                                                         *)
(* Every HTTP request runs in a goroutine of its own, and every new        *)
(* request also starts a checkPoolCap goroutine, which starts CreateCluster*)
(* goroutines.  They interleave at every database and Boskos call, so one  *)
(* action here is one call together with the local code that follows it.   *)
(*                                                                         *)
(* A Clusters row is named by the CreateCluster goroutine that inserts it: *)
(* AUTO_INCREMENT never gives two inserts the same ID and nothing compares *)
(* IDs.  A Requests row is named by its access token.                      *)
(***************************************************************************)
EXTENDS Integers, FiniteSets

CONSTANTS
    Tokens,         \* access tokens: one per POST to /request-cluster
    Params,         \* Params[r]: the ClusterParams that request r asks for
    Projects,       \* the GCP projects that Boskos manages
    Handlers,       \* goroutines that serve /get-cluster and /clean-cluster
    OverProvision,  \* DefaultOverProvision
    LockCapacity,   \* the capacity of chanLock: 0 in the code, 1 for a lock
    MaxClock,       \* the last value of the clock that stamps RequestTime
    Faults,         \* the kinds of call that may fail
    None            \* no cluster, no project, no token

FaultKinds ==
    {"count",       \* SELECT COUNT(*) fails: CheckNumStatus returns 0
     "read",        \* any other SELECT fails
     "write",       \* an INSERT, UPDATE or DELETE returns an error
     "acquire",     \* AcquireGKEProject returns an error
     "release",     \* ReleaseGKEProject returns an error
     "kubetest2",   \* kubetest2.Run returns an error
     "reply",       \* the answer to a poll is lost
     "abandon",     \* a Prow job goes away before it has a cluster
     "restart"}     \* the server process restarts

ASSUME TokensAssumption == IsFiniteSet(Tokens)
ASSUME OverProvisionAssumption == OverProvision \in Nat
ASSUME LockAssumption == LockCapacity \in {0, 1}
ASSUME ClockAssumption == MaxClock \in Nat
ASSUME FaultsAssumption == Faults \subseteq FaultKinds

\* The CreateCluster goroutines that checkPoolCap for request r can start.
Creators == Tokens \X (1 .. OverProvision)

ASSUME NoneAssumption == None \notin Tokens \cup Projects \cup Creators

VARIABLES
    clock,      \* time.Now() in the resolution of a MySQL timestamp
    job,        \* job[r]: where the Prow job with token r is
    given,      \* given[r]: the cluster that the job was told to use
    request,    \* the Requests table
    cluster,    \* the Clusters table
    project,    \* the Boskos state of each project
    lock,       \* the number of messages in chanLock
    checker,    \* the checkPoolCap goroutine of each request
    wg,         \* wg[r]: the WaitGroup counter of that goroutine
    creator,    \* the CreateCluster goroutines
    handler     \* the goroutines of /get-cluster and /clean-cluster

vars == <<clock, job, given, request, cluster, project, lock, checker, wg,
          creator, handler>>

jobVars  == <<clock, job, given>>
poolVars == <<lock, checker, wg>>

-----------------------------------------------------------------------------
(* Types.                                                                  *)

\* None is Requests.ClusterID = 0.
ClusterIDs == Creators \cup {None}

\* "gone": not inserted yet or deleted.  The project of a deleted row stays
\* in the record; no action reads it.
Statuses == {"gone", "WIP", "Ready", "In Use", "Failed"}

\* The rows whose project DKCM still owes to Boskos.
LiveStatuses == {"WIP", "Ready", "In Use"}

JobStates     == {"start", "posting", "waiting", "running", "cleaning", "quit"}
CheckerStates == {"none", "lock", "countReady", "countWIP", "wait", "done"}
CreatorStates == {"none", "acquire", "insert", "run", "release", "done"}
HandlerStates == {"idle",
                  "rank", "count", "avail", "get", "updRequest", "updCluster",
                  "clnGet", "clnCheck", "clnDelete", "clnRelease"}

RequestRow   == [inserted : BOOLEAN, time : Nat, clusterID : ClusterIDs]
ClusterRow   == [status : Statuses, proj : Projects \cup {None}]
CheckerLocal == [pc : CheckerStates, avail : Nat]
CreatorLocal == [pc : CreatorStates, proj : Projects \cup {None}]
HandlerLocal == [pc : HandlerStates, token : Tokens \cup {None}, rank : Nat,
                 avail : Nat, cid : ClusterIDs, proj : Projects \cup {None}]

\* The type invariant of the tables, of Boskos and of every goroutine's locals.
TypeOK ==
    /\ clock \in Nat
    /\ job \in [Tokens -> JobStates]
    /\ given \in [Tokens -> ClusterIDs]
    /\ request \in [Tokens -> RequestRow]
    /\ cluster \in [Creators -> ClusterRow]
    /\ project \in [Projects -> {"free", "busy", "dirty"}]
    /\ lock \in 0 .. LockCapacity
    /\ checker \in [Tokens -> CheckerLocal]
    /\ wg \in [Tokens -> Int]
    /\ creator \in [Creators -> CreatorLocal]
    /\ handler \in [Handlers -> HandlerLocal]

IdleHandler == [pc |-> "idle", token |-> None, rank |-> 0, avail |-> 0,
                cid |-> None, proj |-> None]

Init ==
    /\ clock = 0
    /\ job = [r \in Tokens |-> "start"]
    /\ given = [r \in Tokens |-> None]
    /\ request = [r \in Tokens |->
                    [inserted |-> FALSE, time |-> 0, clusterID |-> None]]
    /\ cluster = [k \in Creators |-> [status |-> "gone", proj |-> None]]
    /\ project = [p \in Projects |-> "free"]
    /\ lock = 0
    /\ checker = [r \in Tokens |-> [pc |-> "none", avail |-> 0]]
    /\ wg = [r \in Tokens |-> 0]
    /\ creator = [k \in Creators |-> [pc |-> "none", proj |-> None]]
    /\ handler = [h \in Handlers |-> IdleHandler]

-----------------------------------------------------------------------------
(* Calls and queries.                                                      *)

\* What a call that changes something outside may come to.  An error does not
\* say whether the change was made: the answer may be what was lost.
Outcomes(kind) ==
    {[ok |-> TRUE, applied |-> TRUE]}
        \cup (IF kind \in Faults THEN [ok : {FALSE}, applied : BOOLEAN] ELSE {})

\* The rows of the Clusters table with r's parameters and status s.
RowsWith(r, s) ==
    {k \in Creators : cluster[k].status = s /\ Params[k[1]] = Params[r]}

\* CheckNumStatus: the count, or 0 when the query fails.
CheckNumStatus(r, s) ==
    {Cardinality(RowsWith(r, s))} \cup (IF "count" \in Faults THEN {0} ELSE {})

\* The requests of r's configuration that have no cluster yet.
Unassigned(r) ==
    {q \in Tokens : /\ request[q].inserted
                    /\ request[q].clusterID = None
                    /\ Params[q] = Params[r]}

\* MaxInt64, the rank of a request that the ranking does not list.  No count
\* reaches it; it is written 0, and ranks are compared with 1 .. count.
Unranked == 0

\* PriorityRanking: RANK() OVER (ORDER BY RequestTime), so ties share a rank.
PriorityRanking(r) ==
    LET rank == 1 + Cardinality({q \in Unassigned(r) :
                                    request[q].time < request[r].time})
    IN  {IF r \in Unassigned(r) THEN rank ELSE Unranked}
            \cup (IF "read" \in Faults THEN {Unranked} ELSE {})

-----------------------------------------------------------------------------
(* /request-cluster.                                                       *)

Tick ==
    /\ clock < MaxClock
    /\ clock' = clock + 1
    /\ UNCHANGED <<job, given, request, cluster, project, lock, checker, wg,
                   creator, handler>>

\* handleNewClusterRequest up to the INSERT: time.Now() is taken here, so rows
\* need not be inserted in the order of their RequestTime.
ReceiveRequest(r) ==
    /\ job[r] = "start"
    /\ job' = [job EXCEPT ![r] = "posting"]
    /\ request' = [request EXCEPT ![r].time = clock]
    /\ UNCHANGED <<clock, given, cluster, project, poolVars, creator, handler>>

\* InsertRequest and the rest of the handler.  On an error the job has no
\* token, whether the row was inserted or not; else checkPoolCap is started.
InsertRequest(r) ==
    /\ job[r] = "posting"
    /\ \E o \in Outcomes("write") :
         /\ request' = [request EXCEPT ![r].inserted = o.applied]
         /\ job' = [job EXCEPT ![r] = IF o.ok THEN "waiting" ELSE "quit"]
         /\ checker' = IF o.ok THEN [checker EXCEPT ![r].pc = "lock"]
                               ELSE checker
    /\ UNCHANGED <<clock, given, cluster, project, lock, wg, creator, handler>>

\* A Prow job that is aborted or times out while it has no cluster.
Abandon(r) ==
    /\ "abandon" \in Faults
    /\ job[r] = "waiting"
    /\ job' = [job EXCEPT ![r] = "quit"]
    /\ UNCHANGED <<clock, given, request, cluster, project, poolVars, creator,
                   handler>>

-----------------------------------------------------------------------------
(* checkPoolCap.                                                           *)

\* chanLock <- struct{}{}.  The only receive is in Unlock, after the receiver's
\* own send, so on a channel of capacity 0 a send never finds a receiver.
Lock(r) ==
    /\ checker[r].pc = "lock"
    /\ lock < LockCapacity
    /\ lock' = lock + 1
    /\ checker' = [checker EXCEPT ![r].pc = "countReady"]
    /\ UNCHANGED <<jobVars, request, cluster, project, wg, creator, handler>>

CountReady(r) ==
    /\ checker[r].pc = "countReady"
    /\ \E n \in CheckNumStatus(r, "Ready") :
         checker' = [checker EXCEPT ![r] = [pc |-> "countWIP", avail |-> n]]
    /\ UNCHANGED <<jobVars, request, cluster, project, lock, wg, creator, handler>>

\* The second count, and the loop that starts one CreateCluster per missing
\* cluster; the WaitGroup is raised once for each.
CountWIP(r) ==
    /\ checker[r].pc = "countWIP"
    /\ \E n \in CheckNumStatus(r, "WIP") :
         LET missing == OverProvision - checker[r].avail - n
             started == {k \in Creators : k[1] = r /\ k[2] <= missing}
         IN  /\ creator' = [k \in Creators |->
                              IF k \in started
                              THEN [creator[k] EXCEPT !.pc = "acquire"]
                              ELSE creator[k]]
             /\ wg' = [wg EXCEPT ![r] = IF missing > 0 THEN missing ELSE 0]
    /\ checker' = [checker EXCEPT ![r].pc = "wait"]
    /\ UNCHANGED <<jobVars, request, cluster, project, lock, handler>>

\* Mutant: the message stays in chanLock.
UnlockForgotten(r) ==
    /\ checker[r].pc = "wait"
    /\ wg[r] = 0
    /\ checker' = [checker EXCEPT ![r].pc = "done"]
    /\ UNCHANGED <<jobVars, request, cluster, project, lock, wg, creator, handler>>

\* wg.Wait() and <-chanLock.
Unlock(r) ==
    /\ checker[r].pc = "wait"
    /\ wg[r] = 0
    /\ lock > 0
    /\ lock' = lock - 1
    /\ checker' = [checker EXCEPT ![r].pc = "done"]
    /\ UNCHANGED <<jobVars, request, cluster, project, wg, creator, handler>>

-----------------------------------------------------------------------------
(* CreateCluster.                                                          *)

\* AcquireGKEProject waits until Boskos has a free project and leases it.
AcquireProject(k) ==
    /\ creator[k].pc = "acquire"
    /\ \E p \in Projects :
         /\ project[p] = "free"
         /\ project' = [project EXCEPT ![p] = "busy"]
         /\ creator' = [creator EXCEPT ![k] = [pc |-> "insert", proj |-> p]]
    /\ UNCHANGED <<jobVars, request, cluster, poolVars, handler>>

\* AcquireGKEProject fails, after two hours or on a Boskos error: the goroutine
\* returns before wg.Done().  The lease may have been granted all the same.
AcquireFails(k) ==
    /\ "acquire" \in Faults
    /\ creator[k].pc = "acquire"
    /\ creator' = [creator EXCEPT ![k].pc = "done"]
    /\ \/ UNCHANGED project
       \/ \E p \in Projects : /\ project[p] = "free"
                              /\ project' = [project EXCEPT ![p] = "busy"]
    /\ UNCHANGED <<jobVars, request, cluster, poolVars, handler>>

\* InsertCluster, whose Status is WIP by default, and wg.Done().  On an error
\* the goroutine returns and keeps the project.
InsertCluster(k) ==
    /\ creator[k].pc = "insert"
    /\ \E o \in Outcomes("write") :
         /\ cluster' = IF o.applied
                       THEN [cluster EXCEPT ![k] =
                               [status |-> "WIP", proj |-> creator[k].proj]]
                       ELSE cluster
         /\ creator' = [creator EXCEPT ![k].pc = IF o.ok THEN "run" ELSE "done"]
    /\ wg' = [wg EXCEPT ![k[1]] = @ - 1]
    /\ UNCHANGED <<jobVars, request, project, lock, checker, handler>>

\* Mutant: the row is written even if it is gone.
PutStatus(k, s) == [cluster EXCEPT ![k].status = s]

\* UPDATE Clusters SET Status = s WHERE ID = k: no row, no effect.
SetStatus(k, s) ==
    [cluster EXCEPT ![k].status = IF @ = "gone" THEN @ ELSE s]

\* kubetest2.Run succeeds and the row is set to Ready; an error is only logged.
MarkReady(k) ==
    /\ creator[k].pc = "run"
    /\ \E o \in Outcomes("write") :
         cluster' = IF o.applied THEN SetStatus(k, "Ready") ELSE cluster
    /\ creator' = [creator EXCEPT ![k].pc = "done"]
    /\ UNCHANGED <<jobVars, request, project, poolVars, handler>>

\* Mutant: the goroutine returns before it releases the project.
MarkFailedReturns(k) ==
    /\ "kubetest2" \in Faults
    /\ creator[k].pc = "run"
    /\ cluster' = SetStatus(k, "Failed")
    /\ creator' = [creator EXCEPT ![k].pc = "done"]
    /\ UNCHANGED <<jobVars, request, project, poolVars, handler>>

\* Mutant: the row is left as it is.
MarkFailedSkipped(k) ==
    /\ "kubetest2" \in Faults
    /\ creator[k].pc = "run"
    /\ creator' = [creator EXCEPT ![k].pc = "release"]
    /\ UNCHANGED <<jobVars, request, cluster, project, poolVars, handler>>

\* kubetest2.Run fails and the row is set to Failed; an error of the UPDATE
\* ends the goroutine before it releases the project.
MarkFailed(k) ==
    /\ "kubetest2" \in Faults
    /\ creator[k].pc = "run"
    /\ \E o \in Outcomes("write") :
         /\ cluster' = IF o.applied THEN SetStatus(k, "Failed") ELSE cluster
         /\ creator' = [creator EXCEPT ![k].pc = IF o.ok THEN "release" ELSE "done"]
    /\ UNCHANGED <<jobVars, request, project, poolVars, handler>>

\* ReleaseGKEProject: Boskos lets the owner of a lease make the project dirty.
Released(p) ==
    [project EXCEPT ![p] = IF @ = "busy" THEN "dirty" ELSE @]

ReleaseFailed(k) ==
    /\ creator[k].pc = "release"
    /\ \E o \in Outcomes("release") :
         project' = IF o.applied THEN Released(creator[k].proj) ELSE project
    /\ creator' = [creator EXCEPT ![k].pc = "done"]
    /\ UNCHANGED <<jobVars, request, cluster, poolVars, handler>>

\* External: the Boskos janitor cleans a dirty project.
Janitor(p) ==
    /\ project[p] = "dirty"
    /\ project' = [project EXCEPT ![p] = "free"]
    /\ UNCHANGED <<jobVars, request, cluster, poolVars, creator, handler>>

-----------------------------------------------------------------------------
(* /get-cluster: AssignCluster.                                            *)

\* The handler h answers its client and ends.
Answer(h) == handler' = [handler EXCEPT ![h] = IdleHandler]

\* GetRequest.  A poll whose GetRequest fails changes nothing.  A job may poll
\* again while an earlier poll of its own is still running.
Poll(h, r) ==
    /\ handler[h].pc = "idle"
    /\ job[r] = "waiting"
    /\ handler' = [handler EXCEPT ![h] = [@ EXCEPT !.pc = "rank", !.token = r]]
    /\ UNCHANGED <<jobVars, request, cluster, project, poolVars, creator>>

RankRequest(h) ==
    /\ handler[h].pc = "rank"
    /\ \E n \in PriorityRanking(handler[h].token) :
         handler' = [handler EXCEPT ![h] = [@ EXCEPT !.pc = "count", !.rank = n]]
    /\ UNCHANGED <<jobVars, request, cluster, project, poolVars, creator>>

CountAvail(h) ==
    /\ handler[h].pc = "count"
    /\ \E n \in CheckNumStatus(handler[h].token, "Ready") :
         handler' = [handler EXCEPT ![h] = [@ EXCEPT !.pc = "avail", !.avail = n]]
    /\ UNCHANGED <<jobVars, request, cluster, project, poolVars, creator>>

\* Mutant: ranking < numAvail.
CheckAvailStrict(h) ==
    LET r == handler[h].token IN
    /\ handler[h].pc = "avail"
    /\ \/ \E k \in RowsWith(r, "Ready") :
            /\ handler[h].rank \in 1 .. handler[h].avail - 1
            /\ handler' = [handler EXCEPT ![h] = [@ EXCEPT !.pc = "get", !.cid = k]]
       \/ /\ \/ handler[h].rank \notin 1 .. handler[h].avail - 1
             \/ RowsWith(r, "Ready") = {}
          /\ Answer(h)
    /\ UNCHANGED <<jobVars, request, cluster, project, poolVars, creator>>

\* CheckAvail picks a Ready row of the configuration; the query has no ORDER
\* BY.  The job is turned down unless there is one and its rank is within the
\* number of clusters counted before.
CheckAvail(h) ==
    LET r == handler[h].token IN
    /\ handler[h].pc = "avail"
    /\ \/ \E k \in RowsWith(r, "Ready") :
            /\ handler[h].rank \in 1 .. handler[h].avail
            /\ handler' = [handler EXCEPT ![h] = [@ EXCEPT !.pc = "get", !.cid = k]]
       \/ /\ \/ handler[h].rank \notin 1 .. handler[h].avail
             \/ RowsWith(r, "Ready") = {}
             \/ "read" \in Faults
          /\ Answer(h)
    /\ UNCHANGED <<jobVars, request, cluster, project, poolVars, creator>>

\* GetCluster, which fails when the row is gone.
GetCluster(h) ==
    /\ handler[h].pc = "get"
    /\ \/ /\ cluster[handler[h].cid].status # "gone"
          /\ handler' = [handler EXCEPT ![h].pc = "updRequest"]
       \/ /\ \/ cluster[handler[h].cid].status = "gone"
             \/ "read" \in Faults
          /\ Answer(h)
    /\ UNCHANGED <<jobVars, request, cluster, project, poolVars, creator>>

\* UPDATE Requests SET ClusterID; its error is ignored.
UpdateRequest(h) ==
    /\ handler[h].pc = "updRequest"
    /\ handler' = [handler EXCEPT ![h].pc = "updCluster"]
    /\ \E o \in Outcomes("write") :
         request' = IF o.applied
                    THEN [request EXCEPT ![handler[h].token].clusterID =
                                            handler[h].cid]
                    ELSE request
    /\ UNCHANGED <<jobVars, cluster, project, poolVars, creator>>

\* Mutant: the row stays Ready.
UpdateClusterSkipped(h) ==
    LET r == handler[h].token IN
    /\ handler[h].pc = "updCluster"
    /\ job[r] = "waiting"
    /\ job' = [job EXCEPT ![r] = "running"]
    /\ given' = [given EXCEPT ![r] = handler[h].cid]
    /\ Answer(h)
    /\ UNCHANGED <<clock, request, cluster, project, poolVars, creator>>

\* UPDATE Clusters SET Status = 'In Use'; its error is ignored.  The answer
\* tells the job which cluster it has, if the job is still there to hear it.
UpdateCluster(h) ==
    LET r == handler[h].token IN
    /\ handler[h].pc = "updCluster"
    /\ \E o \in Outcomes("write") :
         cluster' = IF o.applied THEN SetStatus(handler[h].cid, "In Use")
                                 ELSE cluster
    /\ \/ /\ job[r] = "waiting"
          /\ job' = [job EXCEPT ![r] = "running"]
          /\ given' = [given EXCEPT ![r] = handler[h].cid]
       \/ /\ job[r] # "waiting" \/ "reply" \in Faults
          /\ UNCHANGED <<job, given>>
    /\ Answer(h)
    /\ UNCHANGED <<clock, request, project, poolVars, creator>>

-----------------------------------------------------------------------------
(* /clean-cluster: handleCleanCluster.                                     *)

\* GetRequest: the cluster that the request's row has now.  A job that is done
\* may ask more than once, as the error messages of the handler suggest.
Clean(h, r) ==
    /\ handler[h].pc = "idle"
    /\ job[r] \in {"running", "cleaning"}
    /\ job' = [job EXCEPT ![r] = "cleaning"]
    /\ handler' = [handler EXCEPT ![h] =
                    [@ EXCEPT !.pc = "clnGet", !.token = r,
                              !.cid = request[r].clusterID]]
    /\ UNCHANGED <<clock, given, request, cluster, project, poolVars, creator>>

RowExists(k) == k # None /\ cluster[k].status # "gone"

\* GetCluster: from here on the handler knows the project.
CleanGet(h) ==
    /\ handler[h].pc = "clnGet"
    /\ \/ /\ RowExists(handler[h].cid)
          /\ handler' = [handler EXCEPT ![h] =
                    [@ EXCEPT !.pc = "clnCheck",
                              !.proj = cluster[handler[h].cid].proj]]
       \/ /\ ~RowExists(handler[h].cid) \/ "read" \in Faults
          /\ Answer(h)
    /\ UNCHANGED <<jobVars, request, cluster, project, poolVars, creator>>

\* DeleteCluster first reads the row once more.
CleanCheck(h) ==
    /\ handler[h].pc = "clnCheck"
    /\ \/ /\ RowExists(handler[h].cid)
          /\ handler' = [handler EXCEPT ![h].pc = "clnDelete"]
       \/ /\ ~RowExists(handler[h].cid) \/ "read" \in Faults
          /\ Answer(h)
    /\ UNCHANGED <<jobVars, request, cluster, project, poolVars, creator>>

\* Mutant: no checkAffected.
CleanDeleteUnchecked(h) ==
    /\ handler[h].pc = "clnDelete"
    /\ cluster' = [cluster EXCEPT ![handler[h].cid].status = "gone"]
    /\ handler' = [handler EXCEPT ![h].pc = "clnRelease"]
    /\ UNCHANGED <<jobVars, request, project, poolVars, creator>>

\* DELETE FROM Clusters, and checkAffected: exactly one row must have gone.
CleanDelete(h) ==
    /\ handler[h].pc = "clnDelete"
    /\ \E o \in Outcomes("write") :
         /\ cluster' = IF o.applied
                       THEN [cluster EXCEPT ![handler[h].cid].status = "gone"]
                       ELSE cluster
         /\ IF o.ok /\ RowExists(handler[h].cid)
            THEN handler' = [handler EXCEPT ![h].pc = "clnRelease"]
            ELSE Answer(h)
    /\ UNCHANGED <<jobVars, request, project, poolVars, creator>>

\* ReleaseGKEProject; its error tells the client to try again.
CleanRelease(h) ==
    /\ handler[h].pc = "clnRelease"
    /\ \E o \in Outcomes("release") :
         project' = IF o.applied THEN Released(handler[h].proj) ELSE project
    /\ Answer(h)
    /\ UNCHANGED <<jobVars, request, cluster, poolVars, creator>>

-----------------------------------------------------------------------------
(* The server process dies and starts again: the goroutines and chanLock   *)
(* are lost, the tables and Boskos are not.  Start reads neither table.    *)

Restart ==
    /\ "restart" \in Faults
    /\ lock' = 0
    /\ wg' = [r \in Tokens |-> 0]
    /\ checker' = [r \in Tokens |->
                     IF checker[r].pc = "none" THEN checker[r]
                     ELSE [checker[r] EXCEPT !.pc = "done"]]
    /\ creator' = [k \in Creators |->
                     IF creator[k].pc = "none" THEN creator[k]
                     ELSE [creator[k] EXCEPT !.pc = "done"]]
    /\ handler' = [h \in Handlers |-> IdleHandler]
    /\ job' = [r \in Tokens |-> IF job[r] = "posting" THEN "quit" ELSE job[r]]
    /\ UNCHANGED <<clock, given, request, cluster, project>>

-----------------------------------------------------------------------------
CheckPoolCap(r) == Lock(r) \/ CountReady(r) \/ CountWIP(r) \/ Unlock(r)

CreateCluster(k) ==
    \/ AcquireProject(k) \/ AcquireFails(k) \/ InsertCluster(k)
    \/ MarkReady(k) \/ MarkFailed(k) \/ ReleaseFailed(k)

AssignCluster(h) ==
    \/ RankRequest(h) \/ CountAvail(h) \/ CheckAvail(h) \/ GetCluster(h)
    \/ UpdateRequest(h) \/ UpdateCluster(h)

CleanCluster(h) ==
    CleanGet(h) \/ CleanCheck(h) \/ CleanDelete(h) \/ CleanRelease(h)

Next ==
    \/ Tick
    \/ Restart
    \/ \E r \in Tokens : \/ ReceiveRequest(r) \/ InsertRequest(r) \/ Abandon(r)
                         \/ CheckPoolCap(r)
                         \/ \E h \in Handlers : Poll(h, r) \/ Clean(h, r)
    \/ \E k \in Creators : CreateCluster(k)
    \/ \E h \in Handlers : AssignCluster(h) \/ CleanCluster(h)
    \/ \E p \in Projects : Janitor(p)

Spec == Init /\ [][Next]_vars

\* Goroutines are scheduled, kubetest2 and every other call return, the janitor
\* runs, and a Prow job polls until it has a cluster and then cleans it.  Polls
\* and cleans are strongly fair because Handlers is the bound's and not the
\* server's: there every connection has its own goroutine.  Requests need not
\* arrive, and kubetest2 may fail whenever it can.
Fairness ==
    /\ \A r \in Tokens : /\ WF_vars(CheckPoolCap(r))
                         /\ WF_vars(InsertRequest(r))
                         /\ SF_vars(\E h \in Handlers : Poll(h, r))
                         /\ SF_vars(\E h \in Handlers : Clean(h, r))
    /\ \A k \in Creators : WF_vars(CreateCluster(k))
    /\ \A h \in Handlers : WF_vars(AssignCluster(h)) /\ WF_vars(CleanCluster(h))
    /\ \A p \in Projects : WF_vars(Janitor(p))

FairSpec == Spec /\ Fairness

-----------------------------------------------------------------------------
(* Safety.                                                                 *)

\* A project that a live row records is leased to DKCM, and no two live rows
\* record the same project: nobody returns to Boskos the project of a cluster
\* that is being created, waits in the pool or is in use.
LeaseExclusive ==
    \A k \in Creators : cluster[k].status \in LiveStatuses =>
        /\ cluster[k].proj \in Projects
        /\ project[cluster[k].proj] = "busy"
        /\ \A l \in Creators \ {k} :
              cluster[l].status \in LiveStatuses =>
                  cluster[l].proj # cluster[k].proj

\* No request is ever assigned a cluster whose creation has not succeeded.
AssignedClusterCreated ==
    \A r \in Tokens : request[r].clusterID # None =>
        cluster[request[r].clusterID].status \in {"Ready", "In Use", "gone"}

\* A cluster that a request may name: its creation is over and succeeded.
Handed(k) ==
    /\ k \in Creators
    /\ creator[k].pc = "done"
    /\ cluster[k].status \in {"Ready", "In Use", "gone"}

\* How a row and the goroutine that creates it move together.
RowsFollowCreators ==
    \A k \in Creators :
        /\ creator[k].pc \in {"none", "acquire", "insert"} =>
               cluster[k].status = "gone"
        /\ creator[k].pc = "run" => /\ cluster[k].status = "WIP"
                                    /\ cluster[k].proj = creator[k].proj
        /\ creator[k].pc = "release" => cluster[k].status = "Failed"
        /\ cluster[k].status \in {"Ready", "In Use"} => creator[k].pc = "done"

\* Requests and handlers name handed-out clusters only, and a clean that is
\* about to delete a row knows that row's project.
OnlyHandedOut ==
    /\ \A r \in Tokens :
         request[r].clusterID # None => Handed(request[r].clusterID)
    /\ \A h \in Handlers :
         /\ handler[h].pc \in {"get", "updRequest", "updCluster",
                               "clnCheck", "clnDelete"} => Handed(handler[h].cid)
         /\ handler[h].pc = "clnGet" /\ handler[h].cid # None =>
                Handed(handler[h].cid)
         /\ handler[h].pc \in {"clnCheck", "clnDelete"} =>
                handler[h].proj = cluster[handler[h].cid].proj

\* Project p is leased, and no live row records it.
Unrecorded(p) ==
    /\ p \in Projects
    /\ project[p] = "busy"
    /\ \A l \in Creators : cluster[l].status \in LiveStatuses =>
                               cluster[l].proj # p

\* A goroutine that is about to insert or to release a project is the only one
\* that may do anything with it.
HoldersExclusive ==
    /\ \A k \in Creators : creator[k].pc \in {"insert", "release"} =>
         /\ Unrecorded(creator[k].proj)
         /\ \A l \in Creators \ {k} : creator[l].pc \in {"insert", "release"} =>
                                          creator[l].proj # creator[k].proj
         /\ \A h \in Handlers : handler[h].pc = "clnRelease" =>
                                    handler[h].proj # creator[k].proj
    /\ \A h \in Handlers : handler[h].pc = "clnRelease" =>
         /\ Unrecorded(handler[h].proj)
         /\ \A g \in Handlers \ {h} : handler[g].pc = "clnRelease" =>
                                          handler[g].proj # handler[h].proj

\* The inductive invariant behind LeaseExclusive and AssignedClusterCreated:
\* whoever may release a project holds it alone.
LeaseInv ==
    /\ LeaseExclusive
    /\ RowsFollowCreators
    /\ OnlyHandedOut
    /\ HoldersExclusive

\* A request is checked once: no CreateCluster of its checkPoolCap exists
\* before the counts, so the loop that starts them disturbs none.
StartedOnce ==
    /\ \A r \in Tokens : job[r] \in {"start", "posting"} => checker[r].pc = "none"
    /\ \A k \in Creators : creator[k].pc # "none" =>
                               checker[k[1]].pc \in {"wait", "done"}

\* The goroutines that have not reached wg.Done().
Pending(r) == {k \in Creators : /\ creator[k].pc \in {"acquire", "insert"}
                                /\ Params[k[1]] = Params[r]}

\* Ready clusters and clusters in the making stay within twice
\* DefaultOverProvision.  Once that number is not enough: the two counts of
\* checkPoolCap are separate queries, and a cluster that becomes Ready between
\* them is in neither.
PoolBounded ==
    "count" \notin Faults =>
        \A r \in Tokens :
            Cardinality(RowsWith(r, "Ready")) + Cardinality(RowsWith(r, "WIP"))
                + Cardinality(Pending(r)) <= 2 * OverProvision

\* Someone in the server is about to use or to release project p.
Held(p) ==
    \/ \E k \in Creators : /\ creator[k].pc \in {"insert", "release"}
                           /\ creator[k].proj = p
    \/ \E h \in Handlers : /\ handler[h].pc = "clnRelease"
                           /\ handler[h].proj = p

\* As long as the server stays up and its writes to MySQL and its calls to
\* Boskos succeed, every leased project is recorded by a live row or in the
\* hands of a goroutine: failed creations and concurrent cleans leak nothing.
NoProjectLeak ==
    Faults \cap {"write", "acquire", "release", "restart"} = {} =>
        \A p \in Projects : project[p] = "busy" =>
            \/ Held(p)
            \/ \E k \in Creators : /\ cluster[k].status \in LiveStatuses
                                   /\ cluster[k].proj = p

\* What a row may go through: a cluster that was handed out or removed is never
\* seen as ready again, though the UPDATEs name no earlier status.
StatusStep(old, new) ==
    \/ new = old
    \/ <<old, new>> \in {<<"gone", "WIP">>, <<"WIP", "Ready">>,
                         <<"WIP", "Failed">>, <<"Ready", "In Use">>,
                         <<"Ready", "gone">>, <<"In Use", "gone">>}

StatusLifecycle ==
    [][\A k \in Creators : StatusStep(cluster[k].status, cluster'[k].status)]_vars

\* clerk.go:300, "available clusters are always assigned to the requests that
\* come first": the cluster that a poll answers with is available, and there are
\* more available clusters than requests of the configuration that came before
\* and still have none.
FirstComeFirstServed ==
    [][\A r \in Tokens : job[r] = "waiting" /\ job'[r] = "running" =>
         /\ given'[r] \in RowsWith(r, "Ready")
         /\ Cardinality({q \in Unassigned(r) :
                             request[q].time < request[r].time})
                < Cardinality(RowsWith(r, "Ready"))]_vars

\* With writes that do not fail, a cluster that a running job was told to use is
\* never Ready again, though MarkReady and UpdateCluster name no earlier status:
\* a poll that looks for a Ready row after the answer cannot give it to a second
\* job.  (One that looked before the answer can: see FirstComeFirstServed.)
GivenStaysTaken ==
    "write" \notin Faults =>
        \A r \in Tokens : job[r] = "running" =>
            /\ given[r] \in Creators
            /\ cluster[given[r]].status \in {"In Use", "gone"}

-----------------------------------------------------------------------------
(* Refinement: DKCM implements ProjectLease.                               *)

\* Some row with status s records project p.
Recorded(p, s) ==
    \E k \in Creators : cluster[k].status = s /\ cluster[k].proj = p

\* The stage of a project, from Boskos and from the Clusters table.
life ==
    [p \in Projects |->
        CASE project[p] # "busy"    -> project[p]
          [] Recorded(p, "WIP")     -> "WIP"
          [] Recorded(p, "Ready")   -> "Ready"
          [] Recorded(p, "In Use")  -> "In Use"
          [] OTHER                  -> "leased"]

Lease == INSTANCE ProjectLease WITH life <- life

\* Every step of DKCM moves at most one project, and along its life: a project
\* with a recorded cluster is never dirty, and gets no second one.
ImplementsLease == Lease!Spec

-----------------------------------------------------------------------------
(* Liveness.                                                               *)

\* A new request leads to a look at the pool.
PoolChecked ==
    \A r \in Tokens : checker[r].pc = "lock" ~> checker[r].pc = "countReady"

\* No cluster stays in the making for ever.
CreationResolved ==
    \A k \in Creators : cluster[k].status = "WIP" ~> cluster[k].status # "WIP"

\* A job that waits while its configuration has a Ready cluster is answered, or
\* the clusters go to others, or a job that has gone away is still ranked before
\* it: nothing calls ClearTimeOut, so such a row may keep the others off for ever.
ReadyClusterServed ==
    \A r \in Tokens :
        job[r] = "waiting" /\ RowsWith(r, "Ready") # {}
            ~> \/ job[r] # "waiting"
               \/ RowsWith(r, "Ready") = {}
               \/ \E q \in Unassigned(r) : job[q] = "quit"

=============================================================================
