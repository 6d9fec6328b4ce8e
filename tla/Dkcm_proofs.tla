----------------------------- MODULE Dkcm_proofs -----------------------------
(***************************************************************************)
(* What holds of DKCM for any number of requests, projects and handlers,   *)
(* any over-provision, either capacity of chanLock and any set of faults:  *)
(* types, the lease of a project, the life of a row, the refinement of     *)
(* ProjectLease, the bounds of the pool, and, when polls come one at a     *)
(* time, the assignment of clusters.                                       *)
(***************************************************************************)
EXTENDS Dkcm, FiniteSetTheorems, TLAPS

-----------------------------------------------------------------------------
(* The queries return numbers.                                             *)

\* There are finitely many CreateCluster goroutines, so rows can be counted.
LEMMA CreatorsFinite == IsFiniteSet(Creators)
<1>1. IsFiniteSet(1 .. OverProvision)
  BY OverProvisionAssumption, FS_Interval
<1>2. QED
  BY <1>1, TokensAssumption, FS_Product DEF Creators

\* CheckNumStatus returns a natural number.
LEMMA CountType ==
  ASSUME NEW r, NEW s, NEW n \in CheckNumStatus(r, s)
  PROVE  n \in Nat
<1>1. RowsWith(r, s) \in SUBSET Creators
  BY DEF RowsWith
<1>2. Cardinality(RowsWith(r, s)) \in Nat
  BY <1>1, CreatorsFinite, FS_Subset, FS_CardinalityType
<1>3. QED
  BY <1>2 DEF CheckNumStatus

\* PriorityRanking returns a natural number, 0 for an unranked request.
LEMMA RankType ==
  ASSUME NEW r, NEW n \in PriorityRanking(r)
  PROVE  n \in Nat
<1> DEFINE Earlier == {q \in Unassigned(r) : request[q].time < request[r].time}
<1>1. Earlier \in SUBSET Tokens
  BY DEF Unassigned
<1>2. Cardinality(Earlier) \in Nat
  BY <1>1, TokensAssumption, FS_Subset, FS_CardinalityType
<1> HIDE DEF Earlier
<1>3. n \in {IF r \in Unassigned(r) THEN 1 + Cardinality(Earlier) ELSE Unranked}
             \cup (IF "read" \in Faults THEN {Unranked} ELSE {})
  BY DEF PriorityRanking, Earlier
<1>4. QED
  BY <1>2, <1>3 DEF Unranked

\* The outcome of a call is a pair of Booleans.
LEMMA OutcomeType ==
  ASSUME NEW kind, NEW o \in Outcomes(kind)
  PROVE  o.ok \in BOOLEAN /\ o.applied \in BOOLEAN /\ (o.ok => o.applied)
<1>1. CASE o = [ok |-> TRUE, applied |-> TRUE]
  BY <1>1
<1>2. CASE o \in [ok : {FALSE}, applied : BOOLEAN]
  <2>1. o.ok = FALSE
    BY <1>2
  <2>2. o.applied \in BOOLEAN
    BY <1>2
  <2>3. QED
    BY <2>1, <2>2
<1>3. o = [ok |-> TRUE, applied |-> TRUE] \/ o \in [ok : {FALSE}, applied : BOOLEAN]
  BY DEF Outcomes
<1>4. QED
  BY <1>1, <1>2, <1>3

\* A row whose status is set stays a row.
LEMMA SetStatusType ==
  ASSUME cluster \in [Creators -> ClusterRow], NEW k, NEW s \in Statuses
  PROVE  SetStatus(k, s) \in [Creators -> ClusterRow]
BY DEF SetStatus, ClusterRow

-----------------------------------------------------------------------------
(* Type correctness.                                                       *)

LEMMA InitType == Init => TypeOK
BY NoneAssumption, LockAssumption
   DEF Init, TypeOK, IdleHandler, JobStates, ClusterIDs, RequestRow, ClusterRow,
       CheckerLocal, CreatorLocal, HandlerLocal, Statuses, CheckerStates,
       CreatorStates, HandlerStates

\* Every action preserves the types.  Each step looks at what one part of the
\* server writes; the rest of the state is unchanged.
LEMMA NextType == TypeOK /\ [Next]_vars => TypeOK'
<1> SUFFICES ASSUME TypeOK, [Next]_vars
             PROVE  TypeOK'
  OBVIOUS
<1> USE DEF TypeOK
<1>1. CASE Tick
  BY <1>1, ClockAssumption DEF Tick
<1>2. CASE Restart
  <2>1. checker' \in [Tokens -> CheckerLocal]
    BY <1>2 DEF Restart, CheckerLocal, CheckerStates
  <2>2. creator' \in [Creators -> CreatorLocal]
    BY <1>2 DEF Restart, CreatorLocal, CreatorStates
  <2>3. handler' \in [Handlers -> HandlerLocal]
    BY <1>2 DEF Restart, HandlerLocal, HandlerStates, IdleHandler, ClusterIDs
  <2>4. job' \in [Tokens -> JobStates]
    BY <1>2 DEF Restart, JobStates
  <2>5. wg' \in [Tokens -> Int] /\ lock' \in 0 .. LockCapacity
    BY <1>2, LockAssumption DEF Restart
  <2>6. QED
    BY <1>2, <2>1, <2>2, <2>3, <2>4, <2>5 DEF Restart
<1>3. ASSUME NEW r \in Tokens, ReceiveRequest(r)
      PROVE  TypeOK'
  BY <1>3 DEF ReceiveRequest, poolVars, JobStates, RequestRow
<1>4. ASSUME NEW r \in Tokens, InsertRequest(r)
      PROVE  TypeOK'
  <2>1. PICK o \in Outcomes("write") :
          /\ request' = [request EXCEPT ![r].inserted = o.applied]
          /\ job' = [job EXCEPT ![r] = IF o.ok THEN "waiting" ELSE "quit"]
          /\ checker' = IF o.ok THEN [checker EXCEPT ![r].pc = "lock"]
                                ELSE checker
    BY <1>4 DEF InsertRequest
  <2>2. o.applied \in BOOLEAN
    BY OutcomeType
  <2>3. request' \in [Tokens -> RequestRow]
    BY <2>1, <2>2 DEF RequestRow
  <2>4. job' \in [Tokens -> JobStates] /\ checker' \in [Tokens -> CheckerLocal]
    BY <2>1 DEF JobStates, CheckerLocal, CheckerStates
  <2>5. QED
    BY <1>4, <2>3, <2>4 DEF InsertRequest
<1>5. ASSUME NEW r \in Tokens, Abandon(r)
      PROVE  TypeOK'
  BY <1>5 DEF Abandon, poolVars, JobStates
<1>6. ASSUME NEW r \in Tokens, CheckPoolCap(r)
      PROVE  TypeOK'
  <2>1. CASE Lock(r)
    BY <2>1, LockAssumption DEF Lock, jobVars, CheckerLocal, CheckerStates
  <2>2. CASE CountReady(r)
    BY <2>2, CountType DEF CountReady, jobVars, CheckerLocal, CheckerStates
  <2>3. CASE CountWIP(r)
    <3>1. PICK n \in CheckNumStatus(r, "WIP") :
            LET missing == OverProvision - checker[r].avail - n
                started == {k \in Creators : k[1] = r /\ k[2] <= missing}
            IN  /\ creator' = [k \in Creators |->
                                 IF k \in started
                                 THEN [creator[k] EXCEPT !.pc = "acquire"]
                                 ELSE creator[k]]
                /\ wg' = [wg EXCEPT ![r] = IF missing > 0 THEN missing ELSE 0]
      BY <2>3 DEF CountWIP
    <3>2. OverProvision - checker[r].avail - n \in Int
      BY OverProvisionAssumption, CountType DEF CheckerLocal
    <3>3. wg' \in [Tokens -> Int]
      BY <3>1, <3>2
    <3>4. creator' \in [Creators -> CreatorLocal]
      BY <3>1 DEF CreatorLocal, CreatorStates
    <3>5. checker' \in [Tokens -> CheckerLocal]
      BY <2>3 DEF CountWIP, CheckerLocal, CheckerStates
    <3>6. QED
      BY <2>3, <3>3, <3>4, <3>5 DEF CountWIP, jobVars
  <2>4. CASE Unlock(r)
    BY <2>4, LockAssumption DEF Unlock, jobVars, CheckerLocal, CheckerStates
  <2>5. QED
    BY <1>6, <2>1, <2>2, <2>3, <2>4 DEF CheckPoolCap
<1>7. ASSUME NEW k \in Creators, CreateCluster(k)
      PROVE  TypeOK'
  <2> USE DEF CreatorLocal, CreatorStates
  <2>1. CASE AcquireProject(k)
    BY <2>1 DEF AcquireProject, jobVars, poolVars
  <2>2. CASE AcquireFails(k)
    BY <2>2 DEF AcquireFails, jobVars, poolVars
  <2>3. CASE InsertCluster(k)
    <3>1. wg' \in [Tokens -> Int]
      <4>1. wg' = [wg EXCEPT ![k[1]] = wg[k[1]] - 1]
        BY <2>3 DEF InsertCluster
      <4>2. k[1] \in Tokens
        BY DEF Creators
      <4>3. QED
        BY <4>1, <4>2
    <3>2. cluster' \in [Creators -> ClusterRow]
      <4>1. [status |-> "WIP", proj |-> creator[k].proj] \in ClusterRow
        BY DEF ClusterRow, Statuses
      <4>2. cluster' = cluster \/ cluster' =
              [cluster EXCEPT ![k] = [status |-> "WIP", proj |-> creator[k].proj]]
        BY <2>3 DEF InsertCluster
      <4>3. QED
        BY <4>1, <4>2
    <3>3. creator' \in [Creators -> CreatorLocal]
      BY <2>3 DEF InsertCluster
    <3>4. QED
      BY <2>3, <3>1, <3>2, <3>3 DEF InsertCluster, jobVars
  <2>4. CASE MarkReady(k)
    <3>1. cluster' \in [Creators -> ClusterRow]
      <4>1. SetStatus(k, "Ready") \in [Creators -> ClusterRow]
        BY SetStatusType DEF Statuses
      <4>2. cluster' = cluster \/ cluster' = SetStatus(k, "Ready")
        BY <2>4 DEF MarkReady
      <4>3. QED
        BY <4>1, <4>2
    <3>2. QED
      BY <2>4, <3>1 DEF MarkReady, jobVars, poolVars
  <2>5. CASE MarkFailed(k)
    <3>1. cluster' \in [Creators -> ClusterRow]
      <4>1. SetStatus(k, "Failed") \in [Creators -> ClusterRow]
        BY SetStatusType DEF Statuses
      <4>2. cluster' = cluster \/ cluster' = SetStatus(k, "Failed")
        BY <2>5 DEF MarkFailed
      <4>3. QED
        BY <4>1, <4>2
    <3>2. QED
      BY <2>5, <3>1 DEF MarkFailed, jobVars, poolVars
  <2>6. CASE ReleaseFailed(k)
    BY <2>6 DEF ReleaseFailed, Released, jobVars, poolVars
  <2>7. QED
    BY <1>7, <2>1, <2>2, <2>3, <2>4, <2>5, <2>6 DEF CreateCluster
<1>8. ASSUME NEW h \in Handlers, Answer(h)
      PROVE  handler' \in [Handlers -> HandlerLocal]
  BY <1>8 DEF Answer, IdleHandler, HandlerLocal, HandlerStates, ClusterIDs
<1>9. ASSUME NEW h \in Handlers, AssignCluster(h)
      PROVE  TypeOK'
  <2> USE DEF HandlerLocal, HandlerStates
  <2>1. CASE RankRequest(h)
    <3>1. PICK n \in PriorityRanking(handler[h].token) :
            handler' = [handler EXCEPT ![h] = [@ EXCEPT !.pc = "count", !.rank = n]]
      BY <2>1 DEF RankRequest
    <3>2. n \in Nat
      BY RankType
    <3>3. handler' \in [Handlers -> HandlerLocal]
      BY <3>1, <3>2
    <3>4. QED
      BY <2>1, <3>3 DEF RankRequest, jobVars, poolVars
  <2>2. CASE CountAvail(h)
    <3>1. PICK n \in CheckNumStatus(handler[h].token, "Ready") :
            handler' = [handler EXCEPT ![h] = [@ EXCEPT !.pc = "avail", !.avail = n]]
      BY <2>2 DEF CountAvail
    <3>2. n \in Nat
      BY CountType
    <3>3. handler' \in [Handlers -> HandlerLocal]
      BY <3>1, <3>2
    <3>4. QED
      BY <2>2, <3>3 DEF CountAvail, jobVars, poolVars
  <2>3. CASE CheckAvail(h)
    <3>1. RowsWith(handler[h].token, "Ready") \subseteq ClusterIDs
      BY DEF RowsWith, ClusterIDs
    <3>2. handler' \in [Handlers -> HandlerLocal]
      <4>1. ASSUME NEW c \in ClusterIDs,
                   handler' = [handler EXCEPT ![h] =
                                 [@ EXCEPT !.pc = "get", !.cid = c]]
            PROVE  handler' \in [Handlers -> HandlerLocal]
        BY <4>1
      <4>2. QED
        BY <2>3, <3>1, <4>1, <1>8 DEF CheckAvail
    <3>3. QED
      BY <2>3, <3>2 DEF CheckAvail, jobVars, poolVars
  <2>4. CASE GetCluster(h)
    <3>1. handler' \in [Handlers -> HandlerLocal]
      BY <2>4, <1>8 DEF GetCluster
    <3>2. QED
      BY <2>4, <3>1 DEF GetCluster, jobVars, poolVars
  <2>5. CASE UpdateRequest(h)
    <3>1. request' = request \/ request' =
            [request EXCEPT ![handler[h].token].clusterID = handler[h].cid]
      BY <2>5 DEF UpdateRequest
    <3>2. request' \in [Tokens -> RequestRow]
      <4>1. handler[h].cid \in ClusterIDs
        OBVIOUS
      <4>2. CASE handler[h].token \in Tokens
        <5>1. [request[handler[h].token] EXCEPT !.clusterID = handler[h].cid]
                \in RequestRow
          BY <4>1, <4>2 DEF RequestRow
        <5>2. QED
          BY <3>1, <4>2, <5>1
      <4>3. CASE handler[h].token \notin Tokens
        BY <3>1, <4>3
      <4>4. QED
        BY <4>2, <4>3
    <3>3. handler' \in [Handlers -> HandlerLocal]
      BY <2>5 DEF UpdateRequest
    <3>4. QED
      BY <2>5, <3>2, <3>3 DEF UpdateRequest, jobVars, poolVars
  <2>6. CASE UpdateCluster(h)
    <3>1. cluster' \in [Creators -> ClusterRow]
      <4>1. SetStatus(handler[h].cid, "In Use") \in [Creators -> ClusterRow]
        BY SetStatusType DEF Statuses
      <4>2. cluster' = cluster \/ cluster' = SetStatus(handler[h].cid, "In Use")
        BY <2>6 DEF UpdateCluster
      <4>3. QED
        BY <4>1, <4>2
    <3>2. job' \in [Tokens -> JobStates] /\ given' \in [Tokens -> ClusterIDs]
      BY <2>6 DEF UpdateCluster, JobStates
    <3>3. handler' \in [Handlers -> HandlerLocal]
      BY <2>6, <1>8 DEF UpdateCluster
    <3>4. QED
      BY <2>6, <3>1, <3>2, <3>3 DEF UpdateCluster, poolVars
  <2>7. QED
    BY <1>9, <2>1, <2>2, <2>3, <2>4, <2>5, <2>6 DEF AssignCluster
<1>10. ASSUME NEW h \in Handlers, CleanCluster(h)
       PROVE  TypeOK'
  <2>1. handler' \in [Handlers -> HandlerLocal]
    <3> USE <1>8 DEF HandlerLocal, HandlerStates
    <3>1. CASE CleanGet(h)
      <4>1. CASE handler' = [handler EXCEPT ![h] =
                    [@ EXCEPT !.pc = "clnCheck",
                              !.proj = cluster[handler[h].cid].proj]]
                 /\ RowExists(handler[h].cid)
        <5>1. handler[h].cid \in Creators
          BY <4>1 DEF RowExists, ClusterIDs
        <5>2. cluster[handler[h].cid].proj \in Projects \cup {None}
          BY <5>1 DEF ClusterRow
        <5>3. QED
          BY <4>1, <5>2
      <4>2. QED
        BY <3>1, <4>1 DEF CleanGet
    <3>2. CASE CleanCheck(h)
      BY <3>2 DEF CleanCheck
    <3>3. CASE CleanDelete(h)
      BY <3>3 DEF CleanDelete
    <3>4. CASE CleanRelease(h)
      BY <3>4 DEF CleanRelease
    <3>5. QED
      BY <1>10, <3>1, <3>2, <3>3, <3>4 DEF CleanCluster
  <2>2. cluster' \in [Creators -> ClusterRow]
    <3>1. cluster' = cluster \/ cluster' =
            [cluster EXCEPT ![handler[h].cid].status = "gone"]
      BY <1>10 DEF CleanCluster, CleanGet, CleanCheck, CleanDelete, CleanRelease
    <3>2. QED
      <4>1. CASE handler[h].cid \in Creators
        <5>1. [cluster[handler[h].cid] EXCEPT !.status = "gone"] \in ClusterRow
          BY <4>1 DEF ClusterRow, Statuses
        <5>2. QED
          BY <3>1, <4>1, <5>1
      <4>2. CASE handler[h].cid \notin Creators
        BY <3>1, <4>2
      <4>3. QED
        BY <4>1, <4>2
  <2>3. project' \in [Projects -> {"free", "busy", "dirty"}]
    BY <1>10 DEF CleanCluster, CleanGet, CleanCheck, CleanDelete, CleanRelease,
                 Released
  <2>4. QED
    BY <1>10, <2>1, <2>2, <2>3
       DEF CleanCluster, CleanGet, CleanCheck, CleanDelete, CleanRelease,
           jobVars, poolVars
<1>11. ASSUME NEW r \in Tokens, NEW h \in Handlers, Poll(h, r) \/ Clean(h, r)
       PROVE  TypeOK'
  <2> USE DEF HandlerLocal, HandlerStates
  <2>1. CASE Poll(h, r)
    <3>1. handler' = [handler EXCEPT ![h] = [@ EXCEPT !.pc = "rank", !.token = r]]
      BY <2>1 DEF Poll
    <3>2. handler' \in [Handlers -> HandlerLocal]
      BY <3>1
    <3>3. QED
      BY <2>1, <3>2 DEF Poll, jobVars, poolVars
  <2>2. CASE Clean(h, r)
    <3>1. request[r].clusterID \in ClusterIDs
      BY DEF RequestRow
    <3>2. handler' \in [Handlers -> HandlerLocal]
      <4>1. handler' = [handler EXCEPT ![h] =
                    [@ EXCEPT !.pc = "clnGet", !.token = r,
                              !.cid = request[r].clusterID]]
        BY <2>2 DEF Clean
      <4>2. QED
        BY <3>1, <4>1
    <3>3. job' \in [Tokens -> JobStates]
      BY <2>2 DEF Clean, JobStates
    <3>4. QED
      BY <2>2, <3>2, <3>3 DEF Clean, poolVars
  <2>3. QED
    BY <1>11, <2>1, <2>2
<1>12. ASSUME NEW p \in Projects, Janitor(p)
       PROVE  TypeOK'
  BY <1>12 DEF Janitor, jobVars, poolVars
<1>13. CASE UNCHANGED vars
  BY <1>13 DEF vars
<1>14. QED
  BY <1>1, <1>2, <1>3, <1>4, <1>5, <1>6, <1>7, <1>9, <1>10, <1>11, <1>12, <1>13
     DEF Next

\* The tables, Boskos and the goroutines' locals keep their types.
THEOREM TypeCorrect == Spec => []TypeOK
<1>1. QED
  BY InitType, NextType, PTL DEF Spec

-----------------------------------------------------------------------------
(* Nobody returns the project of a recorded cluster.                       *)

LEMMA InitLease == Init => LeaseInv
<1> SUFFICES ASSUME Init
             PROVE  LeaseInv
  OBVIOUS
<1>1. /\ \A k \in Creators : cluster[k].status = "gone" /\ creator[k].pc = "none"
      /\ \A h \in Handlers : handler[h].pc = "idle"
      /\ \A r \in Tokens : request[r].clusterID = None
  BY DEF Init, IdleHandler
<1>2. LeaseExclusive
  BY <1>1 DEF LeaseExclusive, LiveStatuses
<1>3. RowsFollowCreators
  BY <1>1 DEF RowsFollowCreators
<1>4. OnlyHandedOut
  BY <1>1 DEF OnlyHandedOut
<1>5. HoldersExclusive
  BY <1>1 DEF HoldersExclusive
<1>6. QED
  BY <1>2, <1>3, <1>4, <1>5 DEF LeaseInv

\* The parts of the state that LeaseInv reads.
leaseVars == <<request, cluster, project, creator, handler>>

LEMMA UnchangedLease ==
  ASSUME LeaseInv, UNCHANGED leaseVars
  PROVE  LeaseInv'
BY DEF leaseVars, LeaseInv, LeaseExclusive, RowsFollowCreators, OnlyHandedOut,
       HoldersExclusive, Unrecorded, Handed

\* No goroutine becomes a holder, and what was unrecorded stays so.
LEMMA HoldersLease ==
  ASSUME LeaseInv,
         \A q \in Projects : Unrecorded(q) => Unrecorded(q)',
         \A k \in Creators : creator'[k].pc \in {"insert", "release"} =>
                                /\ creator[k].pc \in {"insert", "release"}
                                /\ creator'[k].proj = creator[k].proj,
         \A h \in Handlers : handler'[h].pc = "clnRelease" =>
                                /\ handler[h].pc = "clnRelease"
                                /\ handler'[h].proj = handler[h].proj
  PROVE  HoldersExclusive'
<1>1. ASSUME NEW k \in Creators, creator'[k].pc \in {"insert", "release"}
      PROVE  Unrecorded(creator[k].proj)'
  <2>1. PICK q \in Projects : q = creator[k].proj /\ Unrecorded(q)
    BY <1>1 DEF LeaseInv, HoldersExclusive, Unrecorded
  <2>2. Unrecorded(q)' /\ creator'[k].proj = q
    BY <1>1, <2>1
  <2>3. QED
    BY <2>2 DEF Unrecorded
<1>2. ASSUME NEW h \in Handlers, handler'[h].pc = "clnRelease"
      PROVE  Unrecorded(handler[h].proj)'
  <2>1. PICK q \in Projects : q = handler[h].proj /\ Unrecorded(q)
    BY <1>2 DEF LeaseInv, HoldersExclusive, Unrecorded
  <2>2. Unrecorded(q)' /\ handler'[h].proj = q
    BY <1>2, <2>1
  <2>3. QED
    BY <2>2 DEF Unrecorded
<1>3. QED
  BY <1>1, <1>2 DEF LeaseInv, HoldersExclusive

\* Neither rows nor projects nor the holders of projects change: the requests
\* and the handlers may, as long as they name handed-out clusters.
LEMMA NamesLease ==
  ASSUME LeaseInv, OnlyHandedOut', UNCHANGED <<cluster, project, creator>>,
         \A h \in Handlers : handler'[h].pc = "clnRelease" =>
                                /\ handler[h].pc = "clnRelease"
                                /\ handler'[h].proj = handler[h].proj
  PROVE  LeaseInv'
<1>1. LeaseExclusive' /\ RowsFollowCreators'
  BY DEF LeaseInv, LeaseExclusive, RowsFollowCreators
<1>2. HoldersExclusive'
  BY DEF LeaseInv, HoldersExclusive, Unrecorded
<1>3. QED
  BY <1>1, <1>2 DEF LeaseInv

LEMMA AcquireLease ==
  ASSUME TypeOK, LeaseInv, NEW k \in Creators, AcquireProject(k)
  PROVE  LeaseInv'
<1>1. PICK p \in Projects :
        /\ project[p] = "free"
        /\ project' = [project EXCEPT ![p] = "busy"]
        /\ creator' = [creator EXCEPT ![k] = [pc |-> "insert", proj |-> p]]
  BY DEF AcquireProject
<1>2. UNCHANGED <<cluster, handler, request>> /\ creator[k].pc = "acquire"
  BY DEF AcquireProject, jobVars, poolVars
<1>3. /\ creator'[k].pc = "insert" /\ creator'[k].proj = p
      /\ \A l \in Creators \ {k} : creator'[l] = creator[l]
  BY <1>1 DEF TypeOK
<1>4. /\ project'[p] = "busy"
      /\ \A q \in Projects : project'[q] = "busy" \/ project'[q] = project[q]
  BY <1>1 DEF TypeOK
<1>5. LeaseExclusive'
  BY <1>2, <1>4 DEF LeaseInv, LeaseExclusive
<1>6. RowsFollowCreators'
  BY <1>2, <1>3 DEF LeaseInv, RowsFollowCreators
<1>7. OnlyHandedOut'
  BY <1>2, <1>3 DEF LeaseInv, OnlyHandedOut, Handed
<1>8. Unrecorded(p)'
  BY <1>1, <1>2, <1>4 DEF LeaseInv, LeaseExclusive, Unrecorded
<1>9. \A q \in Projects : Unrecorded(q) => Unrecorded(q)' /\ q # p
  BY <1>1, <1>2, <1>4 DEF Unrecorded
<1>10. HoldersExclusive'
  BY <1>2, <1>3, <1>8, <1>9 DEF LeaseInv, HoldersExclusive, Unrecorded
<1>11. QED
  BY <1>5, <1>6, <1>7, <1>10 DEF LeaseInv

LEMMA AcquireFailsLease ==
  ASSUME TypeOK, LeaseInv, NEW k \in Creators, AcquireFails(k)
  PROVE  LeaseInv'
<1>1. UNCHANGED <<cluster, handler, request>> /\ creator[k].pc = "acquire"
  BY DEF AcquireFails, jobVars, poolVars
<1>2. /\ creator'[k].pc = "done"
      /\ \A l \in Creators \ {k} : creator'[l] = creator[l]
  BY DEF AcquireFails, TypeOK, CreatorLocal
<1>3. \A q \in Projects : project'[q] = "busy" \/ project'[q] = project[q]
  BY DEF AcquireFails, TypeOK
<1>4. LeaseExclusive'
  BY <1>1, <1>3 DEF LeaseInv, LeaseExclusive
<1>5. RowsFollowCreators'
  BY <1>1, <1>2 DEF LeaseInv, RowsFollowCreators
<1>6. OnlyHandedOut'
  BY <1>1, <1>2 DEF LeaseInv, OnlyHandedOut, Handed
<1>7. \A q \in Projects : Unrecorded(q) => Unrecorded(q)'
  BY <1>1, <1>3 DEF Unrecorded
<1>8. HoldersExclusive'
  BY <1>1, <1>2, <1>7 DEF LeaseInv, HoldersExclusive, Unrecorded
<1>9. QED
  BY <1>4, <1>5, <1>6, <1>8 DEF LeaseInv

LEMMA InsertLease ==
  ASSUME TypeOK, LeaseInv, NEW k \in Creators, InsertCluster(k)
  PROVE  LeaseInv'
<1> DEFINE p == creator[k].proj
<1>1. UNCHANGED <<project, handler, request>> /\ creator[k].pc = "insert"
  BY DEF InsertCluster, jobVars
<1>2. /\ creator'[k].pc \in {"run", "done"} /\ creator'[k].proj = p
      /\ \A l \in Creators \ {k} : creator'[l] = creator[l]
  BY DEF InsertCluster, TypeOK, CreatorLocal
<1>3. /\ \A l \in Creators \ {k} : cluster'[l] = cluster[l]
      /\ \/ cluster'[k] = cluster[k] /\ creator'[k].pc = "done"
         \/ cluster'[k].status = "WIP" /\ cluster'[k].proj = p
  <2>1. PICK o \in Outcomes("write") :
          /\ cluster' = IF o.applied
                        THEN [cluster EXCEPT ![k] =
                                [status |-> "WIP", proj |-> creator[k].proj]]
                        ELSE cluster
          /\ creator' = [creator EXCEPT ![k].pc = IF o.ok THEN "run" ELSE "done"]
    BY DEF InsertCluster
  <2>2. o.ok \in BOOLEAN /\ o.applied \in BOOLEAN /\ (o.ok => o.applied)
    BY OutcomeType
  <2>3. CASE o.applied
    BY <2>1, <2>3 DEF TypeOK
  <2>4. CASE ~o.applied
    BY <2>1, <2>2, <2>4 DEF TypeOK, CreatorLocal
  <2>5. QED
    BY <2>3, <2>4
<1>4. /\ Unrecorded(p) /\ cluster[k].status = "gone"
      /\ \A l \in Creators \ {k} : creator[l].pc \in {"insert", "release"} =>
                                       creator[l].proj # p
      /\ \A h \in Handlers : handler[h].pc = "clnRelease" => handler[h].proj # p
  BY <1>1 DEF LeaseInv, HoldersExclusive, RowsFollowCreators
<1> HIDE DEF p
<1>5. LeaseExclusive'
  <2>1. ASSUME NEW l \in Creators, cluster'[l].status \in LiveStatuses
        PROVE  \/ l # k /\ cluster'[l] = cluster[l]
               \/ l = k /\ cluster'[k].proj = p
    BY <1>3, <1>4, <2>1 DEF LiveStatuses
  <2>2. ASSUME NEW l \in Creators, cluster'[l].status \in LiveStatuses
        PROVE  cluster'[l].proj \in Projects /\ project'[cluster'[l].proj] = "busy"
    BY <1>1, <1>4, <2>1, <2>2 DEF LeaseInv, LeaseExclusive, Unrecorded
  <2>3. ASSUME NEW l \in Creators, cluster'[l].status \in LiveStatuses,
               NEW m \in Creators \ {l}, cluster'[m].status \in LiveStatuses
        PROVE  cluster'[m].proj # cluster'[l].proj
    BY <1>4, <2>1, <2>3 DEF LeaseInv, LeaseExclusive, Unrecorded
  <2>4. QED
    BY <2>2, <2>3 DEF LeaseExclusive
<1>6. RowsFollowCreators'
  BY <1>2, <1>3, <1>4 DEF LeaseInv, RowsFollowCreators
<1>7. OnlyHandedOut'
  BY <1>1, <1>2, <1>3 DEF LeaseInv, OnlyHandedOut, Handed
<1>8. \A q \in Projects : Unrecorded(q) /\ q # p => Unrecorded(q)'
  BY <1>1, <1>3 DEF Unrecorded
<1>9. HoldersExclusive'
  BY <1>1, <1>2, <1>4, <1>8 DEF LeaseInv, HoldersExclusive, Unrecorded
<1>10. QED
  BY <1>5, <1>6, <1>7, <1>9 DEF LeaseInv

\* Only the status of row k changes, and not to a live status that it did not
\* have before; no holder appears.
LEMMA StatusLease ==
  ASSUME LeaseInv, NEW k \in Creators,
         \A l \in Creators \ {k} : cluster'[l] = cluster[l],
         cluster'[k].proj = cluster[k].proj,
         cluster'[k].status \in LiveStatuses => cluster[k].status \in LiveStatuses,
         UNCHANGED project
  PROVE  /\ LeaseExclusive'
         /\ \A q \in Projects : Unrecorded(q) => Unrecorded(q)'
<1>1. \A l \in Creators : /\ cluster'[l].proj = cluster[l].proj
                          /\ cluster'[l].status \in LiveStatuses =>
                                 cluster[l].status \in LiveStatuses
  OBVIOUS
<1>2. LeaseExclusive'
  BY <1>1 DEF LeaseInv, LeaseExclusive
<1>3. QED
  BY <1>1, <1>2 DEF Unrecorded

\* What an UPDATE of the status of an existing row does.
LEMMA SetStatusEffect ==
  ASSUME TypeOK, NEW k \in Creators, NEW s,
         cluster' = cluster \/ cluster' = SetStatus(k, s)
  PROVE  /\ \A l \in Creators \ {k} : cluster'[l] = cluster[l]
         /\ cluster'[k].proj = cluster[k].proj
         /\ \/ cluster'[k].status = cluster[k].status
            \/ cluster'[k].status = s /\ cluster[k].status # "gone"
BY DEF SetStatus, TypeOK, ClusterRow

LEMMA MarkReadyLease ==
  ASSUME TypeOK, LeaseInv, NEW k \in Creators, MarkReady(k)
  PROVE  LeaseInv'
<1>1. UNCHANGED <<project, handler, request>> /\ creator[k].pc = "run"
  BY DEF MarkReady, jobVars, poolVars
<1>2. /\ creator'[k].pc = "done"
      /\ \A l \in Creators \ {k} : creator'[l] = creator[l]
  BY DEF MarkReady, TypeOK, CreatorLocal
<1>3. /\ \A l \in Creators \ {k} : cluster'[l] = cluster[l]
      /\ cluster'[k].proj = cluster[k].proj
      /\ cluster[k].status = "WIP"
      /\ cluster'[k].status \in {"WIP", "Ready"}
  <2>1. cluster' = cluster \/ cluster' = SetStatus(k, "Ready")
    BY DEF MarkReady
  <2>2. QED
    BY <1>1, <2>1, SetStatusEffect DEF LeaseInv, RowsFollowCreators
<1>4. /\ LeaseExclusive'
      /\ \A q \in Projects : Unrecorded(q) => Unrecorded(q)'
  BY <1>1, <1>3, StatusLease DEF LiveStatuses
<1>5. RowsFollowCreators'
  BY <1>2, <1>3 DEF LeaseInv, RowsFollowCreators
<1>6. OnlyHandedOut'
  BY <1>1, <1>2, <1>3 DEF LeaseInv, OnlyHandedOut, Handed
<1>7. HoldersExclusive'
  BY <1>1, <1>2, <1>4 DEF LeaseInv, HoldersExclusive, Unrecorded
<1>8. QED
  BY <1>4, <1>5, <1>6, <1>7 DEF LeaseInv

LEMMA MarkFailedLease ==
  ASSUME TypeOK, LeaseInv, NEW k \in Creators, MarkFailed(k)
  PROVE  LeaseInv'
<1>1. /\ UNCHANGED <<project, handler, request>> /\ creator[k].pc = "run"
      /\ cluster[k].status = "WIP" /\ cluster[k].proj = creator[k].proj
  BY DEF MarkFailed, jobVars, poolVars, LeaseInv, RowsFollowCreators
<1>2. /\ creator'[k].pc \in {"release", "done"}
      /\ creator'[k].proj = creator[k].proj
      /\ \A l \in Creators \ {k} : creator'[l] = creator[l]
  BY DEF MarkFailed, TypeOK, CreatorLocal
<1>3. /\ \A l \in Creators \ {k} : cluster'[l] = cluster[l]
      /\ cluster'[k].proj = cluster[k].proj
      /\ cluster'[k].status \in {"WIP", "Failed"}
      /\ creator'[k].pc = "release" => cluster'[k].status = "Failed"
  <2>1. PICK o \in Outcomes("write") :
          /\ cluster' = IF o.applied THEN SetStatus(k, "Failed") ELSE cluster
          /\ creator' = [creator EXCEPT ![k].pc = IF o.ok THEN "release" ELSE "done"]
    BY DEF MarkFailed
  <2>2. o.ok \in BOOLEAN /\ o.applied \in BOOLEAN /\ (o.ok => o.applied)
    BY OutcomeType
  <2>3. CASE o.applied
    <3>1. cluster' = SetStatus(k, "Failed")
      BY <2>1, <2>3
    <3>2. cluster'[k].status = "Failed"
      BY <1>1, <3>1 DEF SetStatus, TypeOK, ClusterRow
    <3>3. QED
      BY <3>1, <3>2, SetStatusEffect
  <2>4. CASE ~o.applied
    <3>1. cluster' = cluster /\ ~o.ok
      BY <2>1, <2>2, <2>4
    <3>2. creator'[k].pc = "done"
      BY <2>1, <3>1 DEF TypeOK, CreatorLocal
    <3>3. QED
      BY <1>1, <3>1, <3>2
  <2>5. QED
    BY <2>2, <2>3, <2>4
<1>4. /\ LeaseExclusive'
      /\ \A q \in Projects : Unrecorded(q) => Unrecorded(q)'
  BY <1>1, <1>3, StatusLease DEF LiveStatuses
<1>5. RowsFollowCreators'
  BY <1>2, <1>3 DEF LeaseInv, RowsFollowCreators
<1>6. OnlyHandedOut'
  BY <1>1, <1>2, <1>3 DEF LeaseInv, OnlyHandedOut, Handed
<1>7. PICK p \in Projects : p = creator[k].proj
  BY <1>1 DEF LeaseInv, LeaseExclusive, LiveStatuses
<1>8. /\ ~Unrecorded(p) /\ project[p] = "busy"
      /\ \A l \in Creators \ {k} : cluster[l].status \in LiveStatuses =>
                                       cluster[l].proj # p
  BY <1>1, <1>7 DEF LeaseInv, LeaseExclusive, Unrecorded, LiveStatuses
<1>9. creator'[k].pc = "release" => Unrecorded(p)'
  <2>1. SUFFICES ASSUME creator'[k].pc = "release"
                 PROVE  Unrecorded(p)'
    OBVIOUS
  <2>2. cluster'[k].status \notin LiveStatuses
    BY <1>3, <2>1 DEF LiveStatuses
  <2>3. \A l \in Creators : cluster'[l].status \in LiveStatuses =>
                                cluster'[l].proj # p
    BY <1>3, <1>8, <2>2
  <2>4. QED
    BY <1>1, <1>8, <2>3 DEF Unrecorded
<1>10. /\ \A l \in Creators : creator[l].pc \in {"insert", "release"} =>
                                  creator[l].proj # p
       /\ \A h \in Handlers : handler[h].pc = "clnRelease" => handler[h].proj # p
  BY <1>8 DEF LeaseInv, HoldersExclusive
<1>11. HoldersExclusive'
  BY <1>1, <1>2, <1>4, <1>7, <1>9, <1>10
     DEF LeaseInv, HoldersExclusive, Unrecorded
<1>12. QED
  BY <1>4, <1>5, <1>6, <1>11 DEF LeaseInv

\* Project p is released by its only holder, who keeps nothing.
LEMMA ReleasedProject ==
  ASSUME TypeOK, LeaseInv, NEW p \in Projects, Unrecorded(p),
         UNCHANGED cluster, project' = project \/ project' = Released(p)
  PROVE  /\ LeaseExclusive'
         /\ \A q \in Projects \ {p} : Unrecorded(q) => Unrecorded(q)'
<1>1. \A q \in Projects \ {p} : project'[q] = project[q]
  BY DEF Released, TypeOK
<1>2. \A l \in Creators : cluster[l].status \in LiveStatuses =>
                              cluster[l].proj \in Projects \ {p}
  BY DEF Unrecorded, LeaseInv, LeaseExclusive
<1>3. LeaseExclusive'
  BY <1>1, <1>2 DEF LeaseInv, LeaseExclusive
<1>4. QED
  BY <1>1, <1>3 DEF Unrecorded

LEMMA ReleaseFailedLease ==
  ASSUME TypeOK, LeaseInv, NEW k \in Creators, ReleaseFailed(k)
  PROVE  LeaseInv'
<1> DEFINE p == creator[k].proj
<1>1. /\ UNCHANGED <<cluster, handler, request>> /\ creator[k].pc = "release"
      /\ project' = project \/ project' = Released(p)
  BY DEF ReleaseFailed, jobVars, poolVars
<1>2. /\ creator'[k].pc = "done"
      /\ \A l \in Creators \ {k} : creator'[l] = creator[l]
  BY DEF ReleaseFailed, TypeOK, CreatorLocal
<1>3. /\ Unrecorded(p) /\ p \in Projects
      /\ \A l \in Creators \ {k} : creator[l].pc \in {"insert", "release"} =>
                                       creator[l].proj # p
      /\ \A h \in Handlers : handler[h].pc = "clnRelease" => handler[h].proj # p
  BY <1>1 DEF LeaseInv, HoldersExclusive, Unrecorded
<1> HIDE DEF p
<1>4. /\ LeaseExclusive'
      /\ \A q \in Projects \ {p} : Unrecorded(q) => Unrecorded(q)'
  BY <1>1, <1>3, ReleasedProject
<1>5. RowsFollowCreators'
  BY <1>1, <1>2 DEF LeaseInv, RowsFollowCreators
<1>6. OnlyHandedOut'
  BY <1>1, <1>2 DEF LeaseInv, OnlyHandedOut, Handed
<1>7. HoldersExclusive'
  BY <1>1, <1>2, <1>3, <1>4 DEF LeaseInv, HoldersExclusive, Unrecorded
<1>8. QED
  BY <1>4, <1>5, <1>6, <1>7 DEF LeaseInv

LEMMA JanitorLease ==
  ASSUME TypeOK, LeaseInv, NEW p \in Projects, Janitor(p)
  PROVE  LeaseInv'
<1>1. /\ UNCHANGED <<cluster, handler, request, creator>>
      /\ \A q \in Projects : project[q] = "busy" => project'[q] = "busy"
  BY DEF Janitor, jobVars, poolVars, TypeOK
<1>2. LeaseExclusive'
  BY <1>1 DEF LeaseInv, LeaseExclusive
<1>3. RowsFollowCreators' /\ OnlyHandedOut'
  BY <1>1 DEF LeaseInv, RowsFollowCreators, OnlyHandedOut, Handed
<1>4. HoldersExclusive'
  BY <1>1 DEF LeaseInv, HoldersExclusive, Unrecorded
<1>5. QED
  BY <1>2, <1>3, <1>4 DEF LeaseInv

\* A handler moves on, or answers, without touching rows or projects.
LEMMA HandlerLease ==
  ASSUME TypeOK, LeaseInv, NEW h \in Handlers,
         UNCHANGED <<cluster, project, creator>>,
         \A r \in Tokens : request'[r].clusterID # None =>
                               Handed(request'[r].clusterID),
         \A g \in Handlers \ {h} : handler'[g] = handler[g],
         handler'[h].pc # "clnRelease",
         handler'[h].pc \in {"get", "updRequest", "updCluster",
                             "clnCheck", "clnDelete"} => Handed(handler'[h].cid),
         handler'[h].pc = "clnGet" /\ handler'[h].cid # None =>
             Handed(handler'[h].cid),
         handler'[h].pc \in {"clnCheck", "clnDelete"} =>
             handler'[h].proj = cluster[handler'[h].cid].proj
  PROVE  LeaseInv'
<1>1. \A k : Handed(k)' <=> Handed(k)
  BY DEF Handed
<1>2. OnlyHandedOut'
  BY <1>1 DEF LeaseInv, OnlyHandedOut
<1>3. QED
  BY <1>2, NamesLease

LEMMA AnswerEffect ==
  ASSUME TypeOK, NEW h \in Handlers, Answer(h)
  PROVE  /\ handler'[h].pc = "idle"
         /\ \A g \in Handlers \ {h} : handler'[g] = handler[g]
BY DEF Answer, IdleHandler, TypeOK

LEMMA AssignLease ==
  ASSUME TypeOK, LeaseInv, NEW h \in Handlers, AssignCluster(h)
  PROVE  LeaseInv'
<1>1. \A r \in Tokens : request[r].clusterID # None => Handed(request[r].clusterID)
  BY DEF LeaseInv, OnlyHandedOut
<1>2. CASE RankRequest(h)
  <2>1. /\ handler'[h].pc = "count"
        /\ \A g \in Handlers \ {h} : handler'[g] = handler[g]
    BY <1>2 DEF RankRequest, TypeOK, HandlerLocal
  <2>2. UNCHANGED <<cluster, project, creator, request>>
    BY <1>2 DEF RankRequest, jobVars, poolVars
  <2>3. QED
    BY <1>1, <2>1, <2>2, HandlerLease
<1>3. CASE CountAvail(h)
  <2>1. /\ handler'[h].pc = "avail"
        /\ \A g \in Handlers \ {h} : handler'[g] = handler[g]
    BY <1>3 DEF CountAvail, TypeOK, HandlerLocal
  <2>2. UNCHANGED <<cluster, project, creator, request>>
    BY <1>3 DEF CountAvail, jobVars, poolVars
  <2>3. QED
    BY <1>1, <2>1, <2>2, HandlerLease
<1>4. CASE CheckAvail(h)
  <2>1. UNCHANGED <<cluster, project, creator, request>>
    BY <1>4 DEF CheckAvail, jobVars, poolVars
  <2>2. CASE Answer(h)
    BY <1>1, <2>1, <2>2, AnswerEffect, HandlerLease
  <2>3. ASSUME NEW k \in RowsWith(handler[h].token, "Ready"),
               handler' = [handler EXCEPT ![h] = [@ EXCEPT !.pc = "get", !.cid = k]]
        PROVE  LeaseInv'
    <3>1. /\ handler'[h].pc = "get" /\ handler'[h].cid = k
          /\ \A g \in Handlers \ {h} : handler'[g] = handler[g]
      BY <2>3 DEF TypeOK, HandlerLocal
    <3>2. Handed(k)
      BY DEF RowsWith, Handed, LeaseInv, RowsFollowCreators
    <3>3. QED
      BY <1>1, <2>1, <3>1, <3>2, HandlerLease
  <2>4. QED
    BY <1>4, <2>2, <2>3 DEF CheckAvail
<1>5. CASE GetCluster(h)
  <2>1. UNCHANGED <<cluster, project, creator, request>> /\ handler[h].pc = "get"
    BY <1>5 DEF GetCluster, jobVars, poolVars
  <2>2. CASE Answer(h)
    BY <1>1, <2>1, <2>2, AnswerEffect, HandlerLease
  <2>3. CASE handler' = [handler EXCEPT ![h].pc = "updRequest"]
    <3>1. /\ handler'[h].pc = "updRequest" /\ handler'[h].cid = handler[h].cid
          /\ \A g \in Handlers \ {h} : handler'[g] = handler[g]
      BY <2>3 DEF TypeOK, HandlerLocal
    <3>2. Handed(handler[h].cid)
      BY <2>1 DEF LeaseInv, OnlyHandedOut
    <3>3. QED
      BY <1>1, <2>1, <3>1, <3>2, HandlerLease
  <2>4. QED
    BY <1>5, <2>2, <2>3 DEF GetCluster
<1>6. CASE UpdateRequest(h)
  <2>1. UNCHANGED <<cluster, project, creator>> /\ handler[h].pc = "updRequest"
    BY <1>6 DEF UpdateRequest, jobVars, poolVars
  <2>2. /\ handler'[h].pc = "updCluster" /\ handler'[h].cid = handler[h].cid
        /\ \A g \in Handlers \ {h} : handler'[g] = handler[g]
    BY <1>6 DEF UpdateRequest, TypeOK, HandlerLocal
  <2>3. Handed(handler[h].cid)
    BY <2>1 DEF LeaseInv, OnlyHandedOut
  <2>4. \A r \in Tokens : \/ request'[r].clusterID = request[r].clusterID
                          \/ request'[r].clusterID = handler[h].cid
    <3>1. request' = request \/ request' =
            [request EXCEPT ![handler[h].token].clusterID = handler[h].cid]
      BY <1>6 DEF UpdateRequest
    <3>2. QED
      BY <3>1 DEF TypeOK, RequestRow
  <2>5. QED
    BY <1>1, <2>1, <2>2, <2>3, <2>4, HandlerLease
<1>7. CASE UpdateCluster(h)
  <2> DEFINE k == handler[h].cid
  <2>1. /\ UNCHANGED <<project, creator, request>>
        /\ handler[h].pc = "updCluster"
        /\ cluster' = cluster \/ cluster' = SetStatus(k, "In Use")
    BY <1>7 DEF UpdateCluster, poolVars
  <2>2. /\ handler'[h].pc = "idle"
        /\ \A g \in Handlers \ {h} : handler'[g] = handler[g]
    BY <1>7, AnswerEffect DEF UpdateCluster
  <2>3. Handed(k) /\ k \in Creators
    BY <2>1 DEF LeaseInv, OnlyHandedOut, Handed
  <2> HIDE DEF k
  <2>4. /\ \A l \in Creators \ {k} : cluster'[l] = cluster[l]
        /\ cluster'[k].proj = cluster[k].proj
        /\ cluster'[k].status \in {"Ready", "In Use", "gone"}
        /\ cluster'[k].status = cluster[k].status \/ cluster[k].status # "gone"
    BY <2>1, <2>3, SetStatusEffect DEF Handed
  <2>5. /\ LeaseExclusive'
        /\ \A q \in Projects : Unrecorded(q) => Unrecorded(q)'
    BY <2>1, <2>3, <2>4, StatusLease DEF LiveStatuses, Handed
  <2>6. RowsFollowCreators'
    BY <2>1, <2>3, <2>4 DEF LeaseInv, RowsFollowCreators, Handed
  <2>7. \A l : Handed(l) => Handed(l)' /\ cluster'[l].proj = cluster[l].proj
    BY <2>1, <2>4 DEF Handed
  <2>8. OnlyHandedOut'
    BY <2>1, <2>2, <2>7 DEF LeaseInv, OnlyHandedOut
  <2>9. HoldersExclusive'
    BY <2>1, <2>2, <2>5, HoldersLease
  <2>10. QED
    BY <2>5, <2>6, <2>8, <2>9 DEF LeaseInv
<1>8. QED
  BY <1>2, <1>3, <1>4, <1>5, <1>6, <1>7 DEF AssignCluster

LEMMA CleanLease ==
  ASSUME TypeOK, LeaseInv, NEW h \in Handlers, CleanCluster(h)
  PROVE  LeaseInv'
<1>1. \A r \in Tokens : request[r].clusterID # None => Handed(request[r].clusterID)
  BY DEF LeaseInv, OnlyHandedOut
<1>2. CASE CleanGet(h)
  <2>1. UNCHANGED <<cluster, project, creator, request>> /\ handler[h].pc = "clnGet"
    BY <1>2 DEF CleanGet, jobVars, poolVars
  <2>2. CASE Answer(h)
    BY <1>1, <2>1, <2>2, AnswerEffect, HandlerLease
  <2>3. CASE /\ RowExists(handler[h].cid)
             /\ handler' = [handler EXCEPT ![h] =
                              [@ EXCEPT !.pc = "clnCheck",
                                        !.proj = cluster[handler[h].cid].proj]]
    <3>1. /\ handler'[h].pc = "clnCheck" /\ handler'[h].cid = handler[h].cid
          /\ handler'[h].proj = cluster[handler[h].cid].proj
          /\ \A g \in Handlers \ {h} : handler'[g] = handler[g]
      BY <2>3 DEF TypeOK, HandlerLocal
    <3>2. Handed(handler[h].cid)
      BY <2>1, <2>3 DEF LeaseInv, OnlyHandedOut, RowExists
    <3>3. QED
      BY <1>1, <2>1, <3>1, <3>2, HandlerLease
  <2>4. QED
    BY <1>2, <2>2, <2>3 DEF CleanGet
<1>3. CASE CleanCheck(h)
  <2>1. UNCHANGED <<cluster, project, creator, request>> /\ handler[h].pc = "clnCheck"
    BY <1>3 DEF CleanCheck, jobVars, poolVars
  <2>2. CASE Answer(h)
    BY <1>1, <2>1, <2>2, AnswerEffect, HandlerLease
  <2>3. CASE handler' = [handler EXCEPT ![h].pc = "clnDelete"]
    <3>1. /\ handler'[h].pc = "clnDelete" /\ handler'[h].cid = handler[h].cid
          /\ handler'[h].proj = handler[h].proj
          /\ \A g \in Handlers \ {h} : handler'[g] = handler[g]
      BY <2>3 DEF TypeOK, HandlerLocal
    <3>2. /\ Handed(handler[h].cid)
          /\ handler[h].proj = cluster[handler[h].cid].proj
      BY <2>1 DEF LeaseInv, OnlyHandedOut
    <3>3. QED
      BY <1>1, <2>1, <3>1, <3>2, HandlerLease
  <2>4. QED
    BY <1>3, <2>2, <2>3 DEF CleanCheck
<1>4. CASE CleanDelete(h)
  <2> DEFINE k == handler[h].cid
  <2>1. PICK o \in Outcomes("write") :
          /\ cluster' = IF o.applied
                        THEN [cluster EXCEPT ![k].status = "gone"]
                        ELSE cluster
          /\ IF o.ok /\ RowExists(k)
             THEN handler' = [handler EXCEPT ![h].pc = "clnRelease"]
             ELSE Answer(h)
    BY <1>4 DEF CleanDelete
  <2>2. UNCHANGED <<project, creator, request>> /\ handler[h].pc = "clnDelete"
    BY <1>4 DEF CleanDelete, jobVars, poolVars
  <2>3. /\ Handed(k) /\ k \in Creators
        /\ handler[h].proj = cluster[k].proj
    BY <2>2 DEF LeaseInv, OnlyHandedOut, Handed
  <2> HIDE DEF k
  <2>4. /\ \A l \in Creators \ {k} : cluster'[l] = cluster[l]
        /\ cluster'[k].proj = cluster[k].proj
        /\ cluster'[k].status = cluster[k].status \/ cluster'[k].status = "gone"
    BY <2>1, <2>3 DEF TypeOK, ClusterRow
  <2>5. \A g \in Handlers \ {h} : handler'[g] = handler[g]
    BY <2>1, AnswerEffect DEF TypeOK
  <2>6. \/ handler'[h].pc = "idle"
        \/ /\ handler'[h].pc = "clnRelease"
           /\ handler'[h].proj = cluster[k].proj
           /\ cluster[k].status \in {"Ready", "In Use"}
           /\ cluster'[k].status = "gone"
    <3>1. CASE o.ok /\ RowExists(k)
      <4>1. o.applied
        BY <3>1, OutcomeType
      <4>2. cluster'[k].status = "gone"
        BY <2>1, <2>3, <4>1 DEF TypeOK, ClusterRow
      <4>3. handler'[h].pc = "clnRelease" /\ handler'[h].proj = handler[h].proj
        BY <2>1, <3>1 DEF TypeOK, HandlerLocal
      <4>4. QED
        BY <2>3, <3>1, <4>2, <4>3 DEF Handed, RowExists
    <3>2. CASE ~(o.ok /\ RowExists(k))
      BY <2>1, <3>2, AnswerEffect
    <3>3. QED
      BY <3>1, <3>2
  <2>7. /\ LeaseExclusive'
        /\ \A q \in Projects : Unrecorded(q) => Unrecorded(q)'
    BY <2>2, <2>3, <2>4, StatusLease DEF LiveStatuses
  <2>8. RowsFollowCreators'
    BY <2>2, <2>3, <2>4 DEF LeaseInv, RowsFollowCreators, Handed
  <2>9. \A l : Handed(l) => Handed(l)' /\ cluster'[l].proj = cluster[l].proj
    BY <2>2, <2>4 DEF Handed
  <2>10. OnlyHandedOut'
    <3>1. \A g \in Handlers : \/ handler'[g] = handler[g]
                              \/ handler'[g].pc \in {"idle", "clnRelease"}
      BY <2>5, <2>6
    <3>2. QED
      BY <2>2, <2>9, <3>1 DEF LeaseInv, OnlyHandedOut
  <2>11. PICK p \in Projects \cup {None} : p = cluster[k].proj
    BY <2>3 DEF TypeOK, ClusterRow
  <2>12. handler'[h].pc = "clnRelease" => /\ handler'[h].proj = p
                                          /\ ~Unrecorded(p)
                                          /\ Unrecorded(p)'
    <3>1. SUFFICES ASSUME handler'[h].pc = "clnRelease"
                   PROVE  /\ handler'[h].proj = p
                          /\ ~Unrecorded(p)
                          /\ Unrecorded(p)'
      OBVIOUS
    <3>2. /\ handler'[h].proj = p
          /\ cluster[k].status \in LiveStatuses
          /\ cluster'[k].status = "gone"
      BY <2>6, <2>11, <3>1 DEF LiveStatuses
    <3>3. /\ p \in Projects
          /\ project[p] = "busy"
          /\ \A l \in Creators \ {k} : cluster[l].status \in LiveStatuses =>
                                           cluster[l].proj # p
      BY <2>3, <2>11, <3>2 DEF LeaseInv, LeaseExclusive
    <3>4. Unrecorded(p)'
      BY <2>2, <2>4, <3>2, <3>3 DEF Unrecorded, LiveStatuses
    <3>5. ~Unrecorded(p)
      BY <2>3, <2>11, <3>2 DEF Unrecorded
    <3>6. QED
      BY <3>2, <3>4, <3>5
  <2>13. /\ \A l \in Creators : creator[l].pc \in {"insert", "release"} =>
                                    Unrecorded(creator[l].proj)
         /\ \A g \in Handlers : handler[g].pc = "clnRelease" =>
                                    Unrecorded(handler[g].proj)
    BY DEF LeaseInv, HoldersExclusive
  <2>14. HoldersExclusive'
    <3>1. ASSUME NEW l \in Creators, creator'[l].pc \in {"insert", "release"}
          PROVE  /\ Unrecorded(creator[l].proj)'
                 /\ \A m \in Creators \ {l} :
                      creator'[m].pc \in {"insert", "release"} =>
                          creator'[m].proj # creator'[l].proj
                 /\ \A g \in Handlers : handler'[g].pc = "clnRelease" =>
                                            handler'[g].proj # creator'[l].proj
      BY <2>2, <2>5, <2>7, <2>12, <2>13, <3>1
         DEF LeaseInv, HoldersExclusive, Unrecorded
    <3>2. ASSUME NEW g \in Handlers, handler'[g].pc = "clnRelease"
          PROVE  /\ Unrecorded(handler[g].proj)'
                 /\ \A i \in Handlers \ {g} : handler'[i].pc = "clnRelease" =>
                                                  handler'[i].proj # handler'[g].proj
      BY <2>2, <2>5, <2>7, <2>12, <2>13, <3>2
         DEF LeaseInv, HoldersExclusive, Unrecorded
    <3>3. QED
      BY <3>1, <3>2 DEF HoldersExclusive
  <2>15. QED
    BY <2>7, <2>8, <2>10, <2>14 DEF LeaseInv
<1>5. CASE CleanRelease(h)
  <2> DEFINE p == handler[h].proj
  <2>1. /\ UNCHANGED <<cluster, creator, request>> /\ handler[h].pc = "clnRelease"
        /\ project' = project \/ project' = Released(p)
    BY <1>5 DEF CleanRelease, jobVars, poolVars
  <2>2. /\ handler'[h].pc = "idle"
        /\ \A g \in Handlers \ {h} : handler'[g] = handler[g]
    BY <1>5, AnswerEffect DEF CleanRelease
  <2>3. /\ Unrecorded(p) /\ p \in Projects
        /\ \A l \in Creators : creator[l].pc \in {"insert", "release"} =>
                                   creator[l].proj # p
        /\ \A g \in Handlers \ {h} : handler[g].pc = "clnRelease" =>
                                         handler[g].proj # p
    BY <2>1 DEF LeaseInv, HoldersExclusive, Unrecorded
  <2> HIDE DEF p
  <2>4. /\ LeaseExclusive'
        /\ \A q \in Projects \ {p} : Unrecorded(q) => Unrecorded(q)'
    BY <2>1, <2>3, ReleasedProject
  <2>5. RowsFollowCreators' /\ OnlyHandedOut'
    <3>1. RowsFollowCreators'
      BY <2>1 DEF LeaseInv, RowsFollowCreators
    <3>2. \A g \in Handlers : \/ handler'[g] = handler[g]
                              \/ handler'[g].pc = "idle"
      BY <2>2
    <3>3. OnlyHandedOut'
      BY <2>1, <3>2 DEF LeaseInv, OnlyHandedOut, Handed
    <3>4. QED
      BY <3>1, <3>3
  <2>6. HoldersExclusive'
    BY <2>1, <2>2, <2>3, <2>4 DEF LeaseInv, HoldersExclusive, Unrecorded
  <2>7. QED
    BY <2>4, <2>5, <2>6 DEF LeaseInv
<1>6. QED
  BY <1>2, <1>3, <1>4, <1>5 DEF CleanCluster

LEMMA RestartLease ==
  ASSUME TypeOK, LeaseInv, Restart
  PROVE  LeaseInv'
<1>1. UNCHANGED <<request, cluster, project>>
  BY DEF Restart
<1>2. \A k \in Creators :
        \/ creator'[k].pc = "done"
        \/ creator[k].pc = "none" /\ creator'[k].pc = "none"
  BY DEF Restart, TypeOK, CreatorLocal
<1>3. \A h \in Handlers : handler'[h].pc = "idle"
  BY DEF Restart, IdleHandler
<1>4. LeaseExclusive'
  BY <1>1 DEF LeaseInv, LeaseExclusive
<1>5. RowsFollowCreators'
  BY <1>1, <1>2 DEF LeaseInv, RowsFollowCreators
<1>6. OnlyHandedOut'
  BY <1>1, <1>2, <1>3 DEF LeaseInv, OnlyHandedOut, Handed
<1>7. HoldersExclusive'
  BY <1>2, <1>3 DEF HoldersExclusive
<1>8. QED
  BY <1>4, <1>5, <1>6, <1>7 DEF LeaseInv

\* The steps outside checkPoolCap leave its goroutines alone.
LEMMA UnchangedStarted ==
  ASSUME StartedOnce, UNCHANGED checker,
         \A k \in Creators : creator'[k].pc # "none" => creator[k].pc # "none",
         \A r \in Tokens : job'[r] \in {"start", "posting"} =>
                              job[r] \in {"start", "posting"}
  PROVE  StartedOnce'
BY DEF StartedOnce

LEMMA NextStarted ==
  ASSUME TypeOK, StartedOnce, [Next]_vars
  PROVE  StartedOnce'
<1>1. CASE Tick
  BY <1>1, UnchangedStarted DEF Tick
<1>2. CASE Restart
  <2>1. \A r \in Tokens : /\ job'[r] \in {"start", "posting"} => job[r] = "start"
                          /\ checker[r].pc = "none" => checker'[r].pc = "none"
                          /\ checker[r].pc # "none" => checker'[r].pc = "done"
    BY <1>2 DEF Restart, TypeOK, CheckerLocal
  <2>2. \A k \in Creators : creator'[k].pc # "none" => creator[k].pc # "none"
    BY <1>2 DEF Restart, TypeOK, CreatorLocal
  <2>3. \A k \in Creators : k[1] \in Tokens
    BY DEF Creators
  <2>4. QED
    BY <2>1, <2>2, <2>3 DEF StartedOnce
<1>3. ASSUME NEW r \in Tokens, ReceiveRequest(r)
      PROVE  StartedOnce'
  BY <1>3 DEF ReceiveRequest, poolVars, StartedOnce, TypeOK
<1>4. ASSUME NEW r \in Tokens, InsertRequest(r)
      PROVE  StartedOnce'
  <2>1. /\ job[r] = "posting" /\ UNCHANGED creator
        /\ \/ job'[r] = "quit" /\ checker' = checker
           \/ job'[r] = "waiting" /\ checker' = [checker EXCEPT ![r].pc = "lock"]
        /\ \A q \in Tokens \ {r} : job'[q] = job[q]
    BY <1>4 DEF InsertRequest, TypeOK
  <2>2. /\ checker[r].pc = "none"
        /\ \A q \in Tokens \ {r} : checker'[q] = checker[q]
    BY <2>1 DEF StartedOnce, TypeOK
  <2>3. \A k \in Creators : k[1] \in Tokens
    BY DEF Creators
  <2>4. QED
    BY <2>1, <2>2, <2>3 DEF StartedOnce
<1>5. ASSUME NEW r \in Tokens, Abandon(r)
      PROVE  StartedOnce'
  BY <1>5, UnchangedStarted DEF Abandon, poolVars, TypeOK
<1>6. ASSUME NEW r \in Tokens, CheckPoolCap(r)
      PROVE  StartedOnce'
  <2>1. /\ UNCHANGED job
        /\ checker[r].pc # "none"
        /\ \A q \in Tokens \ {r} : checker'[q] = checker[q]
        /\ checker[r].pc \in {"wait", "done"} => checker'[r].pc \in {"wait", "done"}
    BY <1>6 DEF CheckPoolCap, Lock, CountReady, CountWIP, Unlock, jobVars, TypeOK,
                CheckerLocal
  <2>2. \A k \in Creators : \/ creator'[k] = creator[k]
                            \/ k[1] = r /\ checker'[r].pc = "wait"
    BY <1>6 DEF CheckPoolCap, Lock, CountReady, CountWIP, Unlock, TypeOK,
                CheckerLocal
  <2>3. QED
    BY <2>1, <2>2 DEF StartedOnce, Creators
<1>7. ASSUME NEW k \in Creators, CreateCluster(k)
      PROVE  StartedOnce'
  <2>1. /\ UNCHANGED <<job, checker>> /\ creator[k].pc # "none"
        /\ \A l \in Creators \ {k} : creator'[l] = creator[l]
    BY <1>7 DEF CreateCluster, AcquireProject, AcquireFails, InsertCluster,
                MarkReady, MarkFailed, ReleaseFailed, jobVars, poolVars, TypeOK
  <2>2. QED
    BY <2>1, UnchangedStarted
<1>8. ASSUME NEW h \in Handlers, AssignCluster(h) \/ CleanCluster(h)
      PROVE  StartedOnce'
  <2>1. /\ UNCHANGED <<checker, creator>>
        /\ \A r \in Tokens : job'[r] = job[r] \/ job'[r] = "running"
    BY <1>8 DEF AssignCluster, CleanCluster, RankRequest, CountAvail, CheckAvail,
                GetCluster, UpdateRequest, UpdateCluster, CleanGet, CleanCheck,
                CleanDelete, CleanRelease, jobVars, poolVars, TypeOK
  <2>2. QED
    BY <2>1, UnchangedStarted
<1>9. ASSUME NEW r \in Tokens, NEW h \in Handlers, Poll(h, r) \/ Clean(h, r)
      PROVE  StartedOnce'
  <2>1. /\ UNCHANGED <<checker, creator>>
        /\ \A q \in Tokens : job'[q] = job[q] \/ job'[q] = "cleaning"
    BY <1>9 DEF Poll, Clean, jobVars, poolVars, TypeOK
  <2>2. QED
    BY <2>1, UnchangedStarted
<1>10. ASSUME NEW p \in Projects, Janitor(p)
       PROVE  StartedOnce'
  BY <1>10, UnchangedStarted DEF Janitor, jobVars, poolVars
<1>11. CASE UNCHANGED vars
  BY <1>11, UnchangedStarted DEF vars
<1>12. QED
  BY <1>1, <1>2, <1>3, <1>4, <1>5, <1>6, <1>7, <1>8, <1>9, <1>10, <1>11 DEF Next

\* checkPoolCap: the goroutines it starts have no row and no project yet.
LEMMA CheckLease ==
  ASSUME TypeOK, StartedOnce, LeaseInv, NEW r \in Tokens, CheckPoolCap(r)
  PROVE  LeaseInv'
<1>1. UNCHANGED <<request, cluster, project, handler>>
  BY DEF CheckPoolCap, Lock, CountReady, CountWIP, Unlock, jobVars
<1>2. \A k \in Creators :
         \/ creator'[k] = creator[k]
         \/ creator[k].pc = "none" /\ creator'[k].pc = "acquire"
  <2>1. CASE CountWIP(r)
    <3>1. \A k \in Creators : k[1] = r => creator[k].pc = "none"
      BY <2>1 DEF CountWIP, StartedOnce
    <3>2. QED
      BY <2>1, <3>1 DEF CountWIP, TypeOK, CreatorLocal
  <2>2. CASE ~CountWIP(r)
    BY <2>2 DEF CheckPoolCap, Lock, CountReady, Unlock
  <2>3. QED
    BY <2>1, <2>2
<1>3. LeaseExclusive' /\ RowsFollowCreators'
  BY <1>1, <1>2 DEF LeaseInv, LeaseExclusive, RowsFollowCreators
<1>4. OnlyHandedOut'
  BY <1>1, <1>2 DEF LeaseInv, OnlyHandedOut, Handed
<1>5. HoldersExclusive'
  <2>1. \A q \in Projects : Unrecorded(q) => Unrecorded(q)'
    BY <1>1 DEF Unrecorded
  <2>2. QED
    BY <1>1, <1>2, <2>1, HoldersLease
<1>6. QED
  BY <1>3, <1>4, <1>5 DEF LeaseInv

\* The requests keep their clusters and no row, project or holder changes.
LEMMA RequestLease ==
  ASSUME LeaseInv, UNCHANGED <<cluster, project, creator, handler>>,
         \A r \in Tokens : request'[r].clusterID = request[r].clusterID
  PROVE  LeaseInv'
<1>1. OnlyHandedOut'
  BY DEF LeaseInv, OnlyHandedOut, Handed
<1>2. QED
  BY <1>1, NamesLease

LEMMA NextLease ==
  ASSUME TypeOK, StartedOnce, LeaseInv, [Next]_vars
  PROVE  LeaseInv'
<1>1. ASSUME NEW r \in Tokens, ReceiveRequest(r) \/ InsertRequest(r)
      PROVE  LeaseInv'
  <2>1. /\ UNCHANGED <<cluster, project, creator, handler>>
        /\ \A q \in Tokens : request'[q].clusterID = request[q].clusterID
    BY <1>1 DEF ReceiveRequest, InsertRequest, TypeOK, RequestRow
  <2>2. QED
    BY <2>1, RequestLease
<1>2. ASSUME NEW r \in Tokens, NEW h \in Handlers, Poll(h, r)
      PROVE  LeaseInv'
  <2>1. /\ UNCHANGED <<cluster, project, creator, request>>
        /\ handler'[h].pc = "rank"
        /\ \A g \in Handlers \ {h} : handler'[g] = handler[g]
    BY <1>2 DEF Poll, jobVars, poolVars, TypeOK, HandlerLocal
  <2>2. QED
    BY <2>1, HandlerLease DEF LeaseInv, OnlyHandedOut
<1>3. ASSUME NEW r \in Tokens, NEW h \in Handlers, Clean(h, r)
      PROVE  LeaseInv'
  <2>1. /\ UNCHANGED <<cluster, project, creator, request>>
        /\ handler'[h].pc = "clnGet" /\ handler'[h].cid = request[r].clusterID
        /\ \A g \in Handlers \ {h} : handler'[g] = handler[g]
    BY <1>3 DEF Clean, poolVars, TypeOK, HandlerLocal
  <2>2. QED
    BY <2>1, HandlerLease DEF LeaseInv, OnlyHandedOut
<1>4. ASSUME Tick \/ (\E r \in Tokens : Abandon(r)) \/ UNCHANGED vars
      PROVE  LeaseInv'
  BY <1>4, UnchangedLease DEF Tick, Abandon, vars, leaseVars
<1>5. ASSUME NEW k \in Creators, CreateCluster(k)
      PROVE  LeaseInv'
  BY <1>5, AcquireLease, AcquireFailsLease, InsertLease, MarkReadyLease,
     MarkFailedLease, ReleaseFailedLease DEF CreateCluster
<1>6. QED
  BY <1>1, <1>2, <1>3, <1>4, <1>5, CheckLease, AssignLease, CleanLease,
     JanitorLease, RestartLease DEF Next

LEMMA LeaseInvariant == Spec => [](StartedOnce /\ LeaseInv)
<1>1. Init => StartedOnce
  BY DEF Init, StartedOnce
<1>2. QED
  BY <1>1, InitLease, NextStarted, NextLease, TypeCorrect, PTL DEF Spec

\* A project with a recorded cluster stays leased to DKCM, and to one row only.
THEOREM LeaseSafe == Spec => []LeaseExclusive
<1>1. LeaseInv => LeaseExclusive
  BY DEF LeaseInv
<1>2. QED
  BY <1>1, LeaseInvariant, PTL

\* No request is ever assigned a cluster whose creation has not succeeded.
THEOREM AssignedSafe == Spec => []AssignedClusterCreated
<1>1. LeaseInv => AssignedClusterCreated
  BY DEF LeaseInv, OnlyHandedOut, Handed, AssignedClusterCreated
<1>2. QED
  BY <1>1, LeaseInvariant, PTL

-----------------------------------------------------------------------------
(* The effect of a step on the rows and on the projects.                   *)

\* Row k goes from one status to another and keeps its project.
RowMoves(k, from, to) ==
    /\ cluster[k].status = from
    /\ cluster' = [cluster EXCEPT ![k].status = to]

RowStep(k) ==
    \/ RowMoves(k, "WIP", "Ready") \/ RowMoves(k, "WIP", "Failed")
    \/ RowMoves(k, "Ready", "In Use")
    \/ RowMoves(k, "Ready", "gone") \/ RowMoves(k, "In Use", "gone")

RowInserted(k, p) ==
    /\ cluster[k].status = "gone"
    /\ Unrecorded(p)
    /\ cluster' = [cluster EXCEPT ![k] = [status |-> "WIP", proj |-> p]]

ProjectMoves(p, from, to) ==
    /\ project[p] = from
    /\ project' = [project EXCEPT ![p] = to]

ProjectStep(p) ==
    \/ ProjectMoves(p, "free", "busy")
    \/ Unrecorded(p) /\ ProjectMoves(p, "busy", "dirty")
    \/ ProjectMoves(p, "dirty", "free")

StepEffect ==
    \/ project' = project /\ cluster' = cluster
    \/ cluster' = cluster /\ \E p \in Projects : ProjectStep(p)
    \/ /\ project' = project
       /\ \/ \E k \in Creators : RowStep(k)
          \/ \E k \in Creators, p \in Projects : RowInserted(k, p)

\* An UPDATE or a DELETE of a row that is there or not.
LEMMA SetStatusMoves ==
  ASSUME TypeOK, NEW k \in Creators, NEW s, cluster' = SetStatus(k, s)
  PROVE  cluster' = cluster \/ RowMoves(k, cluster[k].status, s)
<1>1. CASE cluster[k].status = "gone"
  BY <1>1 DEF SetStatus, TypeOK, ClusterRow
<1>2. CASE cluster[k].status # "gone"
  BY <1>2 DEF SetStatus, TypeOK, ClusterRow, RowMoves
<1>3. QED
  BY <1>1, <1>2

LEMMA SameStatus ==
  ASSUME TypeOK, NEW k \in Creators, RowMoves(k, cluster[k].status, cluster[k].status)
  PROVE  cluster' = cluster
BY DEF RowMoves, TypeOK, ClusterRow

\* Boskos takes back a project that DKCM has leased.
LEMMA ReleasedEffect ==
  ASSUME TypeOK, NEW p \in Projects, Unrecorded(p),
         cluster' = cluster, project' = project \/ project' = Released(p)
  PROVE  StepEffect
<1>1. CASE project' = project
  BY <1>1 DEF StepEffect
<1>2. CASE project' = Released(p)
  <2>1. project[p] = "busy"
    BY DEF Unrecorded
  <2>2. ProjectMoves(p, "busy", "dirty")
    BY <1>2, <2>1 DEF Released, ProjectMoves
  <2>3. QED
    BY <2>2 DEF StepEffect, ProjectStep
<1>3. QED
  BY <1>1, <1>2

LEMMA CreateEffect ==
  ASSUME TypeOK, LeaseInv, NEW k \in Creators, CreateCluster(k)
  PROVE  StepEffect
<1>1. CASE AcquireProject(k) \/ AcquireFails(k)
  <2>1. /\ cluster' = cluster
        /\ \/ project' = project
           \/ \E p \in Projects : /\ project[p] = "free"
                                  /\ project' = [project EXCEPT ![p] = "busy"]
    BY <1>1 DEF AcquireProject, AcquireFails
  <2>2. QED
    BY <2>1 DEF StepEffect, ProjectStep, ProjectMoves
<1>2. CASE InsertCluster(k)
  <2>1. /\ project' = project /\ creator[k].pc = "insert"
        /\ \/ cluster' = cluster
           \/ cluster' = [cluster EXCEPT ![k] =
                            [status |-> "WIP", proj |-> creator[k].proj]]
    BY <1>2 DEF InsertCluster
  <2>2. Unrecorded(creator[k].proj) /\ cluster[k].status = "gone"
    BY <2>1 DEF LeaseInv, HoldersExclusive, RowsFollowCreators
  <2>3. PICK p \in Projects : p = creator[k].proj
    BY <2>2 DEF Unrecorded
  <2>4. CASE cluster' # cluster
    <3>1. RowInserted(k, p)
      BY <2>1, <2>2, <2>3, <2>4 DEF RowInserted
    <3>2. QED
      BY <2>1, <3>1 DEF StepEffect
  <2>5. QED
    BY <2>1, <2>4 DEF StepEffect
<1>3. CASE MarkReady(k) \/ MarkFailed(k)
  <2>1. /\ project' = project /\ creator[k].pc = "run"
        /\ \/ cluster' = cluster
           \/ cluster' = SetStatus(k, "Ready")
           \/ cluster' = SetStatus(k, "Failed")
    BY <1>3 DEF MarkReady, MarkFailed
  <2>2. cluster[k].status = "WIP"
    BY <2>1 DEF LeaseInv, RowsFollowCreators
  <2>3. cluster' = cluster \/ RowMoves(k, "WIP", "Ready") \/ RowMoves(k, "WIP", "Failed")
    BY <2>1, <2>2, SetStatusMoves
  <2>4. QED
    BY <2>1, <2>3 DEF StepEffect, RowStep
<1>4. CASE ReleaseFailed(k)
  <2>1. /\ cluster' = cluster /\ creator[k].pc = "release"
        /\ project' = project \/ project' = Released(creator[k].proj)
    BY <1>4 DEF ReleaseFailed
  <2>2. Unrecorded(creator[k].proj)
    BY <2>1 DEF LeaseInv, HoldersExclusive
  <2>3. PICK p \in Projects : p = creator[k].proj
    BY <2>2 DEF Unrecorded
  <2>4. QED
    BY <2>1, <2>2, <2>3, ReleasedEffect
<1>5. QED
  BY <1>1, <1>2, <1>3, <1>4 DEF CreateCluster

LEMMA AssignEffect ==
  ASSUME TypeOK, LeaseInv, NEW h \in Handlers, AssignCluster(h)
  PROVE  StepEffect
<1>1. CASE UpdateCluster(h)
  <2> DEFINE k == handler[h].cid
  <2>1. /\ project' = project /\ handler[h].pc = "updCluster"
        /\ cluster' = cluster \/ cluster' = SetStatus(k, "In Use")
    BY <1>1 DEF UpdateCluster
  <2>2. k \in Creators /\ cluster[k].status \in {"Ready", "In Use", "gone"}
    BY <2>1 DEF LeaseInv, OnlyHandedOut, Handed
  <2> HIDE DEF k
  <2>3. cluster' = cluster \/ RowMoves(k, cluster[k].status, "In Use")
    BY <2>1, <2>2, SetStatusMoves
  <2>4. cluster[k].status = "gone" => cluster' = cluster
    BY <2>1, <2>2 DEF SetStatus, TypeOK, ClusterRow
  <2>5. cluster' = cluster \/ RowMoves(k, "Ready", "In Use")
    BY <2>2, <2>3, <2>4, SameStatus
  <2>6. QED
    BY <2>1, <2>2, <2>5 DEF StepEffect, RowStep
<1>2. CASE ~UpdateCluster(h)
  BY <1>2 DEF AssignCluster, RankRequest, CountAvail, CheckAvail, GetCluster,
              UpdateRequest, StepEffect
<1>3. QED
  BY <1>1, <1>2

LEMMA CleanEffect ==
  ASSUME TypeOK, LeaseInv, NEW h \in Handlers, CleanCluster(h)
  PROVE  StepEffect
<1>1. CASE CleanGet(h) \/ CleanCheck(h)
  BY <1>1 DEF CleanGet, CleanCheck, StepEffect
<1>2. CASE CleanDelete(h)
  <2> DEFINE k == handler[h].cid
  <2>1. /\ project' = project /\ handler[h].pc = "clnDelete"
        /\ cluster' = cluster \/ cluster' = [cluster EXCEPT ![k].status = "gone"]
    BY <1>2 DEF CleanDelete
  <2>2. k \in Creators /\ cluster[k].status \in {"Ready", "In Use", "gone"}
    BY <2>1 DEF LeaseInv, OnlyHandedOut, Handed
  <2> HIDE DEF k
  <2>3. cluster' = cluster \/ RowMoves(k, cluster[k].status, "gone")
    BY <2>1 DEF RowMoves
  <2>4. \/ cluster' = cluster
        \/ RowMoves(k, "Ready", "gone") \/ RowMoves(k, "In Use", "gone")
    BY <2>2, <2>3, SameStatus
  <2>5. QED
    BY <2>1, <2>2, <2>4 DEF StepEffect, RowStep
<1>3. CASE CleanRelease(h)
  <2>1. /\ cluster' = cluster /\ handler[h].pc = "clnRelease"
        /\ project' = project \/ project' = Released(handler[h].proj)
    BY <1>3 DEF CleanRelease
  <2>2. Unrecorded(handler[h].proj)
    BY <2>1 DEF LeaseInv, HoldersExclusive
  <2>3. PICK p \in Projects : p = handler[h].proj
    BY <2>2 DEF Unrecorded
  <2>4. QED
    BY <2>1, <2>2, <2>3, ReleasedEffect
<1>4. QED
  BY <1>1, <1>2, <1>3 DEF CleanCluster

LEMMA NextEffect ==
  ASSUME TypeOK, LeaseInv, [Next]_vars
  PROVE  StepEffect
<1>1. ASSUME \/ Tick \/ Restart \/ UNCHANGED vars
             \/ \E r \in Tokens :
                  \/ ReceiveRequest(r) \/ InsertRequest(r) \/ Abandon(r)
                  \/ CheckPoolCap(r)
                  \/ \E h \in Handlers : Poll(h, r) \/ Clean(h, r)
      PROVE  StepEffect
  BY <1>1 DEF Tick, Restart, vars, ReceiveRequest, InsertRequest, Abandon,
              CheckPoolCap, Lock, CountReady, CountWIP, Unlock, Poll, Clean,
              StepEffect
<1>2. ASSUME NEW p \in Projects, Janitor(p)
      PROVE  StepEffect
  <2>1. cluster' = cluster /\ ProjectMoves(p, "dirty", "free")
    BY <1>2 DEF Janitor, ProjectMoves
  <2>2. QED
    BY <2>1 DEF StepEffect, ProjectStep
<1>3. QED
  BY <1>1, <1>2, CreateEffect, AssignEffect, CleanEffect DEF Next

-----------------------------------------------------------------------------
(* The life of a row.                                                      *)

LEMMA EffectLifecycle ==
  ASSUME TypeOK, StepEffect, NEW k \in Creators
  PROVE  StatusStep(cluster[k].status, cluster'[k].status)
<1>1. CASE cluster' = cluster
  BY <1>1 DEF StatusStep
<1>2. ASSUME NEW l \in Creators, RowStep(l)
      PROVE  StatusStep(cluster[k].status, cluster'[k].status)
  <2>1. CASE k = l
    BY <1>2, <2>1 DEF RowStep, RowMoves, StatusStep, TypeOK, ClusterRow
  <2>2. CASE k # l
    BY <1>2, <2>2 DEF RowStep, RowMoves, StatusStep, TypeOK
  <2>3. QED
    BY <2>1, <2>2
<1>3. ASSUME NEW l \in Creators, NEW p \in Projects, RowInserted(l, p)
      PROVE  StatusStep(cluster[k].status, cluster'[k].status)
  BY <1>3 DEF RowInserted, StatusStep, TypeOK
<1>4. QED
  BY <1>1, <1>2, <1>3 DEF StepEffect

\* A row is inserted as WIP and only moves on from there: what was handed out,
\* has failed or was removed is never ready again, although the UPDATEs of
\* CreateCluster and AssignCluster name no earlier status.
THEOREM LifecycleSafe == Spec => StatusLifecycle
<1>1. TypeOK /\ LeaseInv /\ [Next]_vars =>
        [\A k \in Creators : StatusStep(cluster[k].status, cluster'[k].status)]_vars
  BY NextEffect, EffectLifecycle
<1>2. QED
  BY <1>1, TypeCorrect, LeaseInvariant, PTL DEF Spec, StatusLifecycle

-----------------------------------------------------------------------------
(* The refinement of ProjectLease.                                         *)

\* What life is, read from Boskos and from the rows.
LifeRead ==
    /\ life = [p \in Projects |-> life[p]]
    /\ \A p \in Projects :
         /\ project[p] # "busy" => life[p] = project[p]
         /\ Unrecorded(p) => life[p] = "leased"
    /\ \A k \in Creators : cluster[k].status \in LiveStatuses =>
                               life[cluster[k].proj] = cluster[k].status

LEMMA LifeReadNow == LeaseExclusive => LifeRead
<1> SUFFICES ASSUME LeaseExclusive
             PROVE  LifeRead
  OBVIOUS
<1>1. life = [p \in Projects |-> life[p]]
  <2> DEFINE Stage(p) == CASE project[p] # "busy"    -> project[p]
                           [] Recorded(p, "WIP")     -> "WIP"
                           [] Recorded(p, "Ready")   -> "Ready"
                           [] Recorded(p, "In Use")  -> "In Use"
                           [] OTHER                  -> "leased"
  <2>1. life = [p \in Projects |-> Stage(p)]
    BY DEF life
  <2> HIDE DEF Stage
  <2>2. QED
    BY <2>1
<1>2. ASSUME NEW p \in Projects, project[p] # "busy"
      PROVE  life[p] = project[p]
  <2>1. \A s \in LiveStatuses : ~Recorded(p, s)
    BY <1>2 DEF Recorded, LeaseExclusive
  <2>2. QED
    BY <1>2, <2>1 DEF life, LiveStatuses
<1>3. ASSUME NEW p \in Projects, Unrecorded(p)
      PROVE  life[p] = "leased"
  <2>1. project[p] = "busy" /\ \A s \in LiveStatuses : ~Recorded(p, s)
    BY <1>3 DEF Recorded, Unrecorded
  <2>2. QED
    BY <2>1 DEF life, LiveStatuses
<1>4. ASSUME NEW k \in Creators, cluster[k].status \in LiveStatuses
      PROVE  life[cluster[k].proj] = cluster[k].status
  <2>1. PICK p \in Projects : p = cluster[k].proj /\ project[p] = "busy"
    BY <1>4 DEF LeaseExclusive
  <2>2. \A s \in LiveStatuses : Recorded(p, s) <=> cluster[k].status = s
    BY <1>4, <2>1 DEF Recorded, LeaseExclusive
  <2>3. life[p] = cluster[k].status
    BY <1>4, <2>1, <2>2 DEF life, LiveStatuses
  <2>4. QED
    BY <2>1, <2>3
<1>5. QED
  BY <1>1, <1>2, <1>3, <1>4 DEF LifeRead

\* The same of the state after a step.
LEMMA LifeReadNext == LeaseExclusive' => LifeRead'
BY LifeReadNow, PTL

\* A project whose Boskos state and whose live rows stay the same stays where
\* it is.
LEMMA LifeSame ==
  ASSUME LeaseExclusive, LeaseExclusive',
         NEW p \in Projects, project'[p] = project[p],
         \A k \in Creators :
            \/ cluster'[k] = cluster[k]
            \/ /\ cluster[k].status \in LiveStatuses => cluster[k].proj # p
               /\ cluster'[k].status \in LiveStatuses => cluster'[k].proj # p
  PROVE  life'[p] = life[p]
<1>1. LifeRead /\ LifeRead'
  BY LifeReadNow, LifeReadNext
<1>2. CASE project[p] # "busy"
  BY <1>1, <1>2 DEF LifeRead
<1>3. ASSUME NEW k \in Creators, cluster[k].status \in LiveStatuses,
             cluster[k].proj = p
      PROVE  life'[p] = life[p]
  <2>1. cluster'[k] = cluster[k]
    BY <1>3
  <2>2. QED
    BY <1>1, <1>3, <2>1 DEF LifeRead
<1>4. CASE /\ project[p] = "busy"
           /\ \A k \in Creators : cluster[k].status \in LiveStatuses =>
                                      cluster[k].proj # p
  <2>1. Unrecorded(p) /\ Unrecorded(p)'
    BY <1>4 DEF Unrecorded
  <2>2. QED
    BY <1>1, <2>1 DEF LifeRead
<1>5. QED
  BY <1>2, <1>3, <1>4

\* A step that moves the life of project p only.
LEMMA LifeMoves ==
  ASSUME LeaseExclusive, LeaseExclusive',
         NEW p \in Projects, NEW from, NEW to,
         life[p] = from, life'[p] = to,
         \A q \in Projects \ {p} : life'[q] = life[q]
  PROVE  Lease!Becomes(p, from, to)
<1>1. /\ life = [q \in Projects |-> life[q]]
      /\ life' = [q \in Projects |-> life'[q]]
  BY LifeReadNow, LifeReadNext DEF LifeRead
<1>2. life' = [life EXCEPT ![p] = to]
  BY <1>1
<1>3. QED
  BY <1>2 DEF Lease!Becomes

\* A step of Boskos moves one project between its states and "leased".
LEMMA ProjectRefines ==
  ASSUME TypeOK, LeaseExclusive, LeaseExclusive', cluster' = cluster,
         NEW p \in Projects, ProjectStep(p)
  PROVE  Lease!Next
<1>1. LifeRead /\ LifeRead'
  BY LifeReadNow, LifeReadNext
<1>2. \A q \in Projects \ {p} : life'[q] = life[q]
  BY LifeSame DEF ProjectStep, ProjectMoves, TypeOK
<1>3. CASE ProjectMoves(p, "free", "busy")
  <2>1. project[p] = "free" /\ project'[p] = "busy"
    BY <1>3 DEF ProjectMoves, TypeOK
  <2>2. Unrecorded(p)'
    BY <2>1 DEF Unrecorded, LeaseExclusive
  <2>3. life[p] = "free" /\ life'[p] = "leased"
    BY <1>1, <2>1, <2>2 DEF LifeRead
  <2>4. Lease!Becomes(p, "free", "leased")
    BY <1>2, <2>3, LifeMoves
  <2>5. QED
    BY <2>4 DEF Lease!Next, Lease!Lease
<1>4. CASE Unrecorded(p) /\ ProjectMoves(p, "busy", "dirty")
  <2>1. project'[p] = "dirty"
    BY <1>4 DEF ProjectMoves, TypeOK
  <2>2. life[p] = "leased" /\ life'[p] = "dirty"
    BY <1>1, <1>4, <2>1 DEF LifeRead
  <2>3. Lease!Becomes(p, "leased", "dirty")
    BY <1>2, <2>2, LifeMoves
  <2>4. QED
    BY <2>3 DEF Lease!Next, Lease!Return
<1>5. CASE ProjectMoves(p, "dirty", "free")
  <2>1. project[p] = "dirty" /\ project'[p] = "free"
    BY <1>5 DEF ProjectMoves, TypeOK
  <2>2. life[p] = "dirty" /\ life'[p] = "free"
    BY <1>1, <2>1 DEF LifeRead
  <2>3. Lease!Becomes(p, "dirty", "free")
    BY <1>2, <2>2, LifeMoves
  <2>4. QED
    BY <2>3 DEF Lease!Next, Lease!Recycle
<1>6. QED
  BY <1>3, <1>4, <1>5 DEF ProjectStep

\* A new row takes a leased project that no row records.
LEMMA InsertRefines ==
  ASSUME TypeOK, LeaseExclusive, LeaseExclusive', project' = project,
         NEW k \in Creators, NEW p \in Projects, RowInserted(k, p)
  PROVE  Lease!Next
<1>1. /\ cluster'[k].status = "WIP" /\ cluster'[k].proj = p
      /\ cluster[k].status = "gone"
      /\ \A l \in Creators \ {k} : cluster'[l] = cluster[l]
  BY DEF RowInserted, TypeOK
<1>2. life[p] = "leased"
  BY LifeReadNow DEF RowInserted, LifeRead
<1>3. life'[p] = "WIP"
  BY <1>1, LifeReadNext DEF LifeRead, LiveStatuses
<1>4. ASSUME NEW q \in Projects \ {p}
      PROVE  life'[q] = life[q]
  BY <1>1, LifeSame DEF LiveStatuses
<1>5. Lease!Becomes(p, "leased", "WIP")
  BY <1>2, <1>3, <1>4, LifeMoves
<1>6. QED
  BY <1>5 DEF Lease!Next, Lease!Record

\* A row that moves on takes its project along, or leaves it leased.
LEMMA RowRefines ==
  ASSUME TypeOK, LeaseExclusive, LeaseExclusive', project' = project,
         NEW k \in Creators, RowStep(k)
  PROVE  Lease!Next
<1>1. /\ cluster[k].status \in LiveStatuses
      /\ cluster'[k].proj = cluster[k].proj
      /\ \A l \in Creators \ {k} : cluster'[l] = cluster[l]
  BY DEF RowStep, RowMoves, TypeOK, ClusterRow, LiveStatuses
<1>2. \/ cluster[k].status = "WIP" /\ cluster'[k].status = "Ready"
      \/ cluster[k].status = "Ready" /\ cluster'[k].status = "In Use"
      \/ cluster'[k].status \in {"Failed", "gone"}
  BY DEF RowStep, RowMoves, TypeOK, ClusterRow
<1>3. PICK p \in Projects :
        /\ p = cluster[k].proj /\ project[p] = "busy"
        /\ \A l \in Creators \ {k} : cluster[l].status \in LiveStatuses =>
                                         cluster[l].proj # p
  BY <1>1 DEF LeaseExclusive
<1>4. LifeRead /\ LifeRead' /\ life[p] = cluster[k].status
  BY <1>1, <1>3, LifeReadNow, LifeReadNext DEF LifeRead
<1>5. ASSUME NEW q \in Projects \ {p}
      PROVE  life'[q] = life[q]
  BY <1>1, <1>3, LifeSame
<1>6. CASE cluster'[k].status \in LiveStatuses
  <2>1. life'[p] = cluster'[k].status
    BY <1>1, <1>3, <1>4, <1>6 DEF LifeRead
  <2>2. \/ life[p] = "WIP" /\ life'[p] = "Ready"
        \/ life[p] = "Ready" /\ life'[p] = "In Use"
    BY <1>2, <1>4, <1>6, <2>1 DEF LiveStatuses
  <2>3. Lease!Becomes(p, "WIP", "Ready") \/ Lease!Becomes(p, "Ready", "In Use")
    BY <1>5, <2>2, LifeMoves
  <2>4. QED
    BY <2>3 DEF Lease!Next, Lease!Finish, Lease!HandOut
<1>7. CASE cluster'[k].status \notin LiveStatuses
  <2>1. Unrecorded(p)'
    BY <1>1, <1>3, <1>7 DEF Unrecorded
  <2>2. life'[p] = "leased" /\ life[p] \in {"WIP", "Ready", "In Use"}
    BY <1>1, <1>4, <2>1 DEF LifeRead, LiveStatuses
  <2>3. Lease!Becomes(p, life[p], "leased")
    BY <1>5, <2>2, LifeMoves
  <2>4. \E s \in {"WIP", "Ready", "In Use"} : Lease!Becomes(p, s, "leased")
    BY <2>2, <2>3
  <2>5. QED
    BY <2>4 DEF Lease!Next, Lease!Forget
<1>8. QED
  BY <1>6, <1>7

LEMMA InitRefines ==
  ASSUME Init
  PROVE  Lease!Init
<1>1. LifeRead
  BY InitLease, LifeReadNow DEF LeaseInv
<1>2. \A p \in Projects : life[p] = "free"
  BY <1>1 DEF Init, LifeRead
<1>3. QED
  BY <1>1, <1>2 DEF Lease!Init, LifeRead

LEMMA NextRefines ==
  ASSUME TypeOK, LeaseInv, LeaseInv', [Next]_vars
  PROVE  [Lease!Next]_life
<1>1. StepEffect /\ LeaseExclusive /\ LeaseExclusive'
  BY NextEffect DEF LeaseInv
<1>2. CASE project' = project /\ cluster' = cluster
  <2>1. life' = life
    BY <1>2 DEF life, Recorded
  <2>2. QED
    BY <2>1
<1>3. CASE cluster' = cluster /\ \E p \in Projects : ProjectStep(p)
  BY <1>1, <1>3, ProjectRefines
<1>4. CASE project' = project /\ \E k \in Creators : RowStep(k)
  BY <1>1, <1>4, RowRefines
<1>5. CASE project' = project /\ \E k \in Creators, p \in Projects : RowInserted(k, p)
  BY <1>1, <1>5, InsertRefines
<1>6. QED
  BY <1>1, <1>2, <1>3, <1>4, <1>5 DEF StepEffect

\* DKCM implements ProjectLease: whatever fails and however the requests
\* interleave, every step takes at most one project one stage further.
THEOREM LeaseRefined == Spec => ImplementsLease
<1>1. Init => Lease!Init
  BY InitRefines
<1>2. TypeOK /\ LeaseInv /\ LeaseInv' /\ [Next]_vars => [Lease!Next]_life
  BY NextRefines
<1>3. QED
  BY <1>1, <1>2, TypeCorrect, LeaseInvariant, PTL DEF Spec, ImplementsLease, Lease!Spec

-----------------------------------------------------------------------------
(* No leased project is lost.                                              *)

LeakFaults == {"write", "acquire", "release", "restart"}

\* A live row records project p.
Kept(p) == \E k \in Creators : cluster[k].status \in LiveStatuses /\ cluster[k].proj = p

AllKept == \A p \in Projects : project[p] = "busy" => Held(p) \/ Kept(p)

\* Without the fault a call does what it should.
LEMMA NoFault ==
  ASSUME NEW kind, kind \notin Faults, NEW o \in Outcomes(kind)
  PROVE  o.ok = TRUE /\ o.applied = TRUE
BY DEF Outcomes

\* No holder and no row lets go of its project.
LEMMA KeepsAll ==
  ASSUME AllKept,
         \A p \in Projects : project'[p] = "busy" => project[p] = "busy",
         \A k \in Creators : creator[k].pc \in {"insert", "release"} =>
                                 creator'[k] = creator[k],
         \A k \in Creators : cluster[k].status \in LiveStatuses =>
                                 /\ cluster'[k].status \in LiveStatuses
                                 /\ cluster'[k].proj = cluster[k].proj,
         \A h \in Handlers : handler[h].pc = "clnRelease" =>
                                 handler'[h] = handler[h]
  PROVE  AllKept'
<1> SUFFICES ASSUME NEW p \in Projects, project'[p] = "busy"
             PROVE  Held(p)' \/ Kept(p)'
  BY DEF AllKept
<1>1. Held(p) \/ Kept(p)
  BY DEF AllKept
<1>2. CASE Held(p)
  BY <1>2 DEF Held
<1>3. CASE Kept(p)
  BY <1>3 DEF Kept
<1>4. QED
  BY <1>1, <1>2, <1>3

LEMMA CreateKeeps ==
  ASSUME TypeOK, LeaseInv, AllKept, LeakFaults \cap Faults = {},
         NEW k \in Creators, CreateCluster(k)
  PROVE  AllKept'
<1> SUFFICES ASSUME NEW p \in Projects, project'[p] = "busy"
             PROVE  Held(p)' \/ Kept(p)'
  BY DEF AllKept
<1>1. \A l \in Creators \ {k} : creator'[l] = creator[l]
  BY DEF CreateCluster, AcquireProject, AcquireFails, InsertCluster, MarkReady,
         MarkFailed, ReleaseFailed, TypeOK
<1>2. CASE AcquireProject(k)
  <2>1. PICK q \in Projects :
          /\ project' = [project EXCEPT ![q] = "busy"]
          /\ creator' = [creator EXCEPT ![k] = [pc |-> "insert", proj |-> q]]
    BY <1>2 DEF AcquireProject
  <2>2. cluster' = cluster /\ handler' = handler /\ creator[k].pc = "acquire"
    BY <1>2 DEF AcquireProject
  <2>3. creator'[k].pc = "insert" /\ creator'[k].proj = q
    BY <2>1 DEF TypeOK
  <2>4. CASE p = q
    BY <2>3, <2>4 DEF Held
  <2>5. CASE p # q
    <3>1. Held(p) \/ Kept(p)
      BY <2>1, <2>5 DEF AllKept, TypeOK
    <3>2. QED
      BY <1>1, <2>2, <3>1 DEF Held, Kept
  <2>6. QED
    BY <2>4, <2>5
<1>3. CASE AcquireFails(k)
  BY <1>3 DEF AcquireFails, LeakFaults
<1>4. CASE InsertCluster(k)
  <2>1. PICK o \in Outcomes("write") :
          /\ cluster' = IF o.applied
                        THEN [cluster EXCEPT ![k] =
                                [status |-> "WIP", proj |-> creator[k].proj]]
                        ELSE cluster
          /\ creator' = [creator EXCEPT ![k].pc = IF o.ok THEN "run" ELSE "done"]
    BY <1>4 DEF InsertCluster
  <2>2. o.applied = TRUE
    BY NoFault DEF LeakFaults
  <2>3. /\ cluster'[k].status = "WIP" /\ cluster'[k].proj = creator[k].proj
        /\ \A l \in Creators \ {k} : cluster'[l] = cluster[l]
    BY <2>1, <2>2 DEF TypeOK
  <2>4. /\ project' = project /\ handler' = handler
        /\ cluster[k].status = "gone"
    BY <1>4 DEF InsertCluster, LeaseInv, RowsFollowCreators
  <2>5. Held(p) \/ Kept(p)
    BY <2>4 DEF AllKept
  <2>6. CASE creator[k].proj = p
    BY <2>3, <2>6 DEF Kept, LiveStatuses
  <2>7. CASE creator[k].proj # p
    BY <1>1, <2>3, <2>4, <2>5, <2>7 DEF Held, Kept, LiveStatuses
  <2>8. QED
    BY <2>6, <2>7
<1>5. CASE MarkReady(k)
  <2>1. /\ project' = project /\ handler' = handler /\ creator[k].pc = "run"
        /\ cluster' = cluster \/ cluster' = SetStatus(k, "Ready")
    BY <1>5 DEF MarkReady
  <2>2. cluster[k].status = "WIP"
    BY <2>1 DEF LeaseInv, RowsFollowCreators
  <2>3. \A l \in Creators : cluster[l].status \in LiveStatuses =>
                                /\ cluster'[l].status \in LiveStatuses
                                /\ cluster'[l].proj = cluster[l].proj
    BY <2>1, <2>2, SetStatusEffect DEF LiveStatuses
  <2>4. AllKept'
    BY <1>1, <2>1, <2>3, KeepsAll
  <2>5. QED
    BY <2>4 DEF AllKept
<1>6. CASE MarkFailed(k)
  <2>1. PICK o \in Outcomes("write") :
          /\ cluster' = IF o.applied THEN SetStatus(k, "Failed") ELSE cluster
          /\ creator' = [creator EXCEPT ![k].pc = IF o.ok THEN "release" ELSE "done"]
    BY <1>6 DEF MarkFailed
  <2>2. o.ok = TRUE
    BY NoFault DEF LeakFaults
  <2>3. /\ project' = project /\ handler' = handler /\ creator[k].pc = "run"
        /\ cluster[k].proj = creator[k].proj
    BY <1>6 DEF MarkFailed, LeaseInv, RowsFollowCreators
  <2>4. creator'[k].pc = "release" /\ creator'[k].proj = cluster[k].proj
    BY <2>1, <2>2, <2>3 DEF TypeOK, CreatorLocal
  <2>5. \A l \in Creators \ {k} : cluster'[l] = cluster[l]
    BY <2>1, SetStatusEffect
  <2>6. Held(p) \/ Kept(p)
    BY <2>3 DEF AllKept
  <2>7. CASE cluster[k].proj = p
    BY <2>4, <2>7 DEF Held
  <2>8. CASE cluster[k].proj # p
    BY <1>1, <2>3, <2>5, <2>6, <2>8 DEF Held, Kept
  <2>9. QED
    BY <2>7, <2>8
<1>7. CASE ReleaseFailed(k)
  <2>1. PICK o \in Outcomes("release") :
          project' = IF o.applied THEN Released(creator[k].proj) ELSE project
    BY <1>7 DEF ReleaseFailed
  <2>2. /\ cluster' = cluster /\ handler' = handler /\ creator[k].pc = "release"
        /\ project' = Released(creator[k].proj)
    BY <1>7, <2>1, NoFault DEF ReleaseFailed, LeakFaults
  <2>3. creator[k].proj # p /\ project[p] = "busy"
    BY <2>2 DEF Released, TypeOK
  <2>4. Held(p) \/ Kept(p)
    BY <2>3 DEF AllKept
  <2>5. QED
    BY <1>1, <2>2, <2>3, <2>4 DEF Held, Kept
<1>8. QED
  BY <1>2, <1>3, <1>4, <1>5, <1>6, <1>7 DEF CreateCluster

LEMMA AssignKeeps ==
  ASSUME TypeOK, LeaseInv, AllKept, NEW h \in Handlers, AssignCluster(h)
  PROVE  AllKept'
<1>1. /\ project' = project /\ creator' = creator
      /\ handler[h].pc # "clnRelease"
    BY DEF AssignCluster, RankRequest, CountAvail, CheckAvail, GetCluster,
           UpdateRequest, UpdateCluster
<1>2. \A g \in Handlers \ {h} : handler'[g] = handler[g]
  BY AnswerEffect DEF AssignCluster, RankRequest, CountAvail, CheckAvail,
     GetCluster, UpdateRequest, UpdateCluster, TypeOK
<1>3. \A k \in Creators : cluster[k].status \in LiveStatuses =>
                              /\ cluster'[k].status \in LiveStatuses
                              /\ cluster'[k].proj = cluster[k].proj
  <2>1. CASE UpdateCluster(h)
    <3>1. /\ handler[h].pc = "updCluster"
          /\ \/ cluster' = cluster
             \/ cluster' = SetStatus(handler[h].cid, "In Use")
      BY <2>1 DEF UpdateCluster
    <3>2. handler[h].cid \in Creators
      BY <3>1 DEF LeaseInv, OnlyHandedOut, Handed
    <3>3. QED
      BY <3>1, <3>2, SetStatusEffect DEF LiveStatuses
  <2>2. CASE ~UpdateCluster(h)
    BY <2>2 DEF AssignCluster, RankRequest, CountAvail, CheckAvail, GetCluster,
                UpdateRequest
  <2>3. QED
    BY <2>1, <2>2
<1>4. QED
  BY <1>1, <1>2, <1>3, KeepsAll

LEMMA CleanKeeps ==
  ASSUME TypeOK, LeaseInv, AllKept, LeakFaults \cap Faults = {},
         NEW h \in Handlers, CleanCluster(h)
  PROVE  AllKept'
<1> SUFFICES ASSUME NEW p \in Projects, project'[p] = "busy"
             PROVE  Held(p)' \/ Kept(p)'
  BY DEF AllKept
<1>1. \A g \in Handlers \ {h} : handler'[g] = handler[g]
  BY AnswerEffect DEF CleanCluster, CleanGet, CleanCheck, CleanDelete,
     CleanRelease, TypeOK
<1>2. CASE CleanGet(h) \/ CleanCheck(h)
  <2>1. /\ project' = project /\ creator' = creator /\ cluster' = cluster
        /\ handler[h].pc # "clnRelease"
    BY <1>2 DEF CleanGet, CleanCheck
  <2>2. AllKept'
    BY <1>1, <2>1, KeepsAll
  <2>3. QED
    BY <2>2 DEF AllKept
<1>3. CASE CleanDelete(h)
  <2> DEFINE k == handler[h].cid
  <2>1. PICK o \in Outcomes("write") :
          /\ cluster' = IF o.applied
                        THEN [cluster EXCEPT ![k].status = "gone"]
                        ELSE cluster
          /\ IF o.ok /\ RowExists(k)
             THEN handler' = [handler EXCEPT ![h].pc = "clnRelease"]
             ELSE Answer(h)
    BY <1>3 DEF CleanDelete
  <2>2. /\ project' = project /\ creator' = creator
        /\ handler[h].pc = "clnDelete" /\ o.ok = TRUE
    BY <1>3, NoFault DEF CleanDelete, LeakFaults
  <2>3. /\ Handed(k) /\ k \in Creators /\ k # None
        /\ handler[h].proj = cluster[k].proj
    BY <2>2, NoneAssumption DEF LeaseInv, OnlyHandedOut, Handed
  <2> HIDE DEF k
  <2>4. \A l \in Creators \ {k} : cluster'[l] = cluster[l]
    BY <2>1 DEF TypeOK
  <2>5. Held(p) \/ Kept(p)
    BY <2>2 DEF AllKept
  <2>6. CASE cluster[k].status = "gone" \/ cluster[k].proj # p
    <3>1. Kept(p) => Kept(p)'
      BY <2>4, <2>6 DEF Kept, LiveStatuses
    <3>2. Held(p) => Held(p)'
      BY <1>1, <2>2 DEF Held
    <3>3. QED
      BY <2>5, <3>1, <3>2
  <2>7. CASE cluster[k].status # "gone" /\ cluster[k].proj = p
    <3>1. handler' = [handler EXCEPT ![h].pc = "clnRelease"]
      BY <2>1, <2>2, <2>3, <2>7 DEF RowExists
    <3>2. handler'[h].pc = "clnRelease" /\ handler'[h].proj = p
      BY <2>3, <2>7, <3>1 DEF TypeOK, HandlerLocal
    <3>3. QED
      BY <3>2 DEF Held
  <2>8. QED
    BY <2>6, <2>7
<1>4. CASE CleanRelease(h)
  <2>1. PICK o \in Outcomes("release") :
          project' = IF o.applied THEN Released(handler[h].proj) ELSE project
    BY <1>4 DEF CleanRelease
  <2>2. /\ cluster' = cluster /\ creator' = creator
        /\ project' = Released(handler[h].proj)
    BY <1>4, <2>1, NoFault DEF CleanRelease, LeakFaults
  <2>3. handler[h].proj # p /\ project[p] = "busy"
    BY <2>2 DEF Released, TypeOK
  <2>4. Held(p) \/ Kept(p)
    BY <2>3 DEF AllKept
  <2>5. QED
    BY <1>1, <2>2, <2>3, <2>4 DEF Held, Kept
<1>5. QED
  BY <1>2, <1>3, <1>4 DEF CleanCluster

LEMMA NextKeeps ==
  ASSUME TypeOK, StartedOnce, LeaseInv, AllKept, LeakFaults \cap Faults = {},
         [Next]_vars
  PROVE  AllKept'
<1>1. ASSUME \/ Tick \/ UNCHANGED vars
             \/ \E r \in Tokens : ReceiveRequest(r) \/ InsertRequest(r) \/ Abandon(r)
      PROVE  AllKept'
  <2>1. /\ project' = project /\ cluster' = cluster
        /\ creator' = creator /\ handler' = handler
    BY <1>1 DEF Tick, vars, ReceiveRequest, InsertRequest, Abandon
  <2>2. QED
    BY <2>1, KeepsAll
<1>2. ASSUME NEW r \in Tokens, NEW h \in Handlers, Poll(h, r) \/ Clean(h, r)
      PROVE  AllKept'
  <2>1. /\ project' = project /\ cluster' = cluster /\ creator' = creator
        /\ handler[h].pc = "idle"
        /\ \A g \in Handlers \ {h} : handler'[g] = handler[g]
    BY <1>2 DEF Poll, Clean, TypeOK
  <2>2. QED
    BY <2>1, KeepsAll
<1>3. ASSUME NEW r \in Tokens, CheckPoolCap(r)
      PROVE  AllKept'
  <2>1. /\ project' = project /\ cluster' = cluster /\ handler' = handler
    BY <1>3 DEF CheckPoolCap, Lock, CountReady, CountWIP, Unlock
  <2>2. \A k \in Creators : creator[k].pc \in {"insert", "release"} =>
                                creator'[k] = creator[k]
    <3>1. CASE CountWIP(r)
      <4>1. \A k \in Creators : k[1] = r => creator[k].pc = "none"
        BY <3>1 DEF CountWIP, StartedOnce
      <4>2. QED
        BY <3>1, <4>1 DEF CountWIP
    <3>2. CASE ~CountWIP(r)
      BY <1>3, <3>2 DEF CheckPoolCap, Lock, CountReady, Unlock
    <3>3. QED
      BY <3>1, <3>2
  <2>3. QED
    BY <2>1, <2>2, KeepsAll
<1>4. ASSUME NEW p \in Projects, Janitor(p)
      PROVE  AllKept'
  <2>1. /\ cluster' = cluster /\ creator' = creator /\ handler' = handler
        /\ \A q \in Projects : project'[q] = "busy" => project[q] = "busy"
    BY <1>4 DEF Janitor, TypeOK
  <2>2. QED
    BY <2>1, KeepsAll
<1>5. CASE Restart
  BY <1>5 DEF Restart, LeakFaults
<1>6. QED
  BY <1>1, <1>2, <1>3, <1>4, <1>5, CreateKeeps, AssignKeeps, CleanKeeps DEF Next

\* As long as the server stays up and its writes and its Boskos calls succeed,
\* failed creations, lost counts and reads, and concurrent cleans of one cluster
\* lose no project, however many there are.
THEOREM NothingLeaks == Spec => []NoProjectLeak
<1>1. CASE LeakFaults \cap Faults = {}
  <2>1. Init => AllKept
    BY DEF Init, AllKept
  <2>2. TypeOK /\ StartedOnce /\ LeaseInv /\ AllKept /\ [Next]_vars => AllKept'
    BY <1>1, NextKeeps
  <2>3. AllKept => NoProjectLeak
    BY DEF AllKept, Kept, NoProjectLeak
  <2>4. QED
    BY <2>1, <2>2, <2>3, TypeCorrect, LeaseInvariant, PTL DEF Spec
<1>2. CASE LeakFaults \cap Faults # {}
  <2>1. NoProjectLeak
    BY <1>2 DEF LeakFaults, NoProjectLeak
  <2>2. QED
    BY <2>1, PTL
<1>3. QED
  BY <1>1, <1>2

-----------------------------------------------------------------------------
(* Counting.                                                               *)

LEMMA CountMonotone ==
  ASSUME NEW T \in SUBSET Creators, NEW S \in SUBSET T
  PROVE  /\ IsFiniteSet(S) /\ IsFiniteSet(T)
         /\ Cardinality(S) \in Nat /\ Cardinality(T) \in Nat
         /\ Cardinality(S) <= Cardinality(T)
<1>1. IsFiniteSet(T)
  BY CreatorsFinite, FS_Subset
<1>2. IsFiniteSet(S) /\ Cardinality(S) <= Cardinality(T)
  BY <1>1, FS_Subset
<1>3. QED
  BY <1>1, <1>2, FS_CardinalityType

LEMMA CountUnion ==
  ASSUME NEW S \in SUBSET Creators, NEW T \in SUBSET Creators
  PROVE  /\ Cardinality(S \cup T) <= Cardinality(S) + Cardinality(T)
         /\ S \cap T = {} => Cardinality(S \cup T) = Cardinality(S) + Cardinality(T)
<1>1. IsFiniteSet(S) /\ IsFiniteSet(T)
  BY CountMonotone
<1>2. /\ Cardinality(S) \in Nat /\ Cardinality(T) \in Nat
      /\ Cardinality(S \cap T) \in Nat
  <2>1. S \cap T \in SUBSET S
    OBVIOUS
  <2>2. QED
    BY <2>1, CountMonotone
<1>3. Cardinality(S \cup T) = Cardinality(S) + Cardinality(T) - Cardinality(S \cap T)
  BY <1>1, FS_Union
<1>4. S \cap T = {} => Cardinality(S \cap T) = 0
  BY FS_EmptySet
<1>5. QED
  BY <1>2, <1>3, <1>4

\* The goroutines that the loop of checkPoolCap starts for n missing clusters.
Started(r, n) == {k \in Creators : k[1] = r /\ k[2] <= n}

LEMMA StartedCount ==
  ASSUME NEW r \in Tokens, NEW n \in Int
  PROVE  /\ Started(r, n) \in SUBSET Creators
         /\ Cardinality(Started(r, n)) <= IF n > 0 THEN n ELSE 0
<1> DEFINE m == IF n > OverProvision THEN OverProvision ELSE n
           f == [i \in 1 .. m |-> <<r, i>>]
<1>1. f \in Surjection(1 .. m, Started(r, n))
  <2>1. \A i \in 1 .. m : <<r, i>> \in Started(r, n)
    BY OverProvisionAssumption DEF Started, Creators
  <2>2. \A k \in Started(r, n) : k[2] \in 1 .. m /\ k = f[k[2]]
    BY OverProvisionAssumption DEF Started, Creators
  <2>3. QED
    BY <2>1, <2>2 DEF Surjection
<1>2. m \in Int
  BY OverProvisionAssumption
<1>3. IsFiniteSet(1 .. m) /\ Cardinality(1 .. m) = IF 1 > m THEN 0 ELSE m - 1 + 1
  <2> HIDE DEF m
  <2>1. QED
    BY <1>2, FS_Interval
<1>4. Cardinality(Started(r, n)) <= Cardinality(1 .. m)
  BY <1>1, <1>3, FS_Surjection
<1>5. Started(r, n) \in SUBSET Creators
  BY DEF Started
<1>6. Cardinality(Started(r, n)) \in Nat
  BY <1>5, CountMonotone
<1>7. QED
  BY <1>2, <1>3, <1>4, <1>5, <1>6, OverProvisionAssumption

-----------------------------------------------------------------------------
(* One check at a time.                                                    *)

\* The goroutines of request r that have not reached wg.Done().
PendingOf(r) == {k \in Creators : /\ creator[k].pc \in {"acquire", "insert"}
                                  /\ k[1] = r}

Critical == {"countReady", "countWIP", "wait"}

\* Only one check is between its send to chanLock and its receive, and it stays
\* there while goroutines that it has started are before wg.Done().
LockInv ==
    /\ \A r \in Tokens : checker[r].pc \in Critical =>
          /\ lock = 1
          /\ \A q \in Tokens \ {r} : checker[q].pc \notin Critical
    /\ \A r \in Tokens : Cardinality(PendingOf(r)) <= wg[r]
    /\ \A k \in Creators : creator[k].pc \in {"acquire", "insert"} =>
          checker[k[1]].pc = "wait"

\* The goroutines and the counters at most make progress towards wg.Done().
LEMMA PendingSubset ==
  ASSUME NEW r,
         \A k \in Creators : creator'[k].pc \in {"acquire", "insert"} =>
                                creator[k].pc \in {"acquire", "insert"}
  PROVE  PendingOf(r)' \in SUBSET PendingOf(r)
BY DEF PendingOf

LEMMA PendingCount ==
  ASSUME NEW r
  PROVE  /\ PendingOf(r) \in SUBSET Creators
         /\ IsFiniteSet(PendingOf(r)) /\ Cardinality(PendingOf(r)) \in Nat
<1>1. PendingOf(r) \in SUBSET Creators
  BY DEF PendingOf
<1>2. QED
  BY <1>1, CountMonotone

LEMMA QuietLock ==
  ASSUME TypeOK, LockInv, UNCHANGED <<lock, wg, checker>>,
         \A k \in Creators : creator'[k].pc \in {"acquire", "insert"} =>
                                creator[k].pc \in {"acquire", "insert"}
  PROVE  LockInv'
<1>1. ASSUME NEW r \in Tokens
      PROVE  Cardinality(PendingOf(r)') <= wg[r]
  <2>1. PendingOf(r)' \in SUBSET PendingOf(r)
    BY PendingSubset
  <2>2. PendingOf(r) \in SUBSET Creators
    BY PendingCount
  <2>3. /\ Cardinality(PendingOf(r)') <= Cardinality(PendingOf(r))
        /\ Cardinality(PendingOf(r)') \in Nat /\ Cardinality(PendingOf(r)) \in Nat
    BY <2>1, <2>2, CountMonotone
  <2>4. Cardinality(PendingOf(r)) <= wg[r] /\ wg[r] \in Int
    BY DEF LockInv, TypeOK
  <2>5. QED
    BY <2>3, <2>4
<1>2. QED
  BY <1>1 DEF LockInv

LEMMA InsertLock ==
  ASSUME TypeOK, LockInv, NEW k \in Creators, InsertCluster(k)
  PROVE  LockInv'
<1> DEFINE r == k[1]
<1>1. /\ UNCHANGED <<lock, checker>> /\ creator[k].pc = "insert"
      /\ creator'[k].pc \in {"run", "done"}
      /\ \A l \in Creators \ {k} : creator'[l] = creator[l]
  BY DEF InsertCluster, TypeOK, CreatorLocal
<1>2. r \in Tokens
  BY DEF Creators
<1>3. wg' = [wg EXCEPT ![r] = @ - 1]
  BY DEF InsertCluster
<1>4. wg'[r] = wg[r] - 1 /\ \A q \in Tokens \ {r} : wg'[q] = wg[q]
  BY <1>2, <1>3 DEF TypeOK
<1>5. PendingOf(r)' = PendingOf(r) \ {k} /\ k \in PendingOf(r)
  BY <1>1 DEF PendingOf
<1>6. Cardinality(PendingOf(r)') = Cardinality(PendingOf(r)) - 1
  BY <1>5, PendingCount, FS_RemoveElement
<1>7. \A q \in Tokens \ {r} : PendingOf(q)' = PendingOf(q)
  BY <1>1 DEF PendingOf
<1>8. ASSUME NEW q \in Tokens
      PROVE  Cardinality(PendingOf(q)') <= wg'[q]
  <2>1. CASE q = r
    <3>1. Cardinality(PendingOf(r)) <= wg[r] /\ wg[r] \in Int
      BY <1>2 DEF LockInv, TypeOK
    <3>2. Cardinality(PendingOf(r)) \in Nat
      BY PendingCount
    <3>3. QED
      BY <1>4, <1>6, <2>1, <3>1, <3>2
  <2>2. CASE q # r
    BY <1>4, <1>7, <2>2 DEF LockInv
  <2>3. QED
    BY <2>1, <2>2
<1>9. \A l \in Creators : creator'[l].pc \in {"acquire", "insert"} =>
                              creator[l].pc \in {"acquire", "insert"}
  BY <1>1
<1>10. QED
  BY <1>1, <1>8, <1>9 DEF LockInv

LEMMA CreateLock ==
  ASSUME TypeOK, LockInv, NEW k \in Creators, CreateCluster(k)
  PROVE  LockInv'
<1>1. CASE InsertCluster(k)
  BY <1>1, InsertLock
<1>2. CASE ~InsertCluster(k)
  <2>1. UNCHANGED <<lock, wg, checker>>
    BY <1>2 DEF CreateCluster, AcquireProject, AcquireFails, MarkReady, MarkFailed,
                ReleaseFailed, poolVars
  <2>2. /\ \A l \in Creators \ {k} : creator'[l] = creator[l]
        /\ creator'[k].pc \in {"acquire", "insert"} => creator[k].pc = "acquire"
    BY <1>2 DEF CreateCluster, AcquireProject, AcquireFails, MarkReady, MarkFailed,
                ReleaseFailed, TypeOK, CreatorLocal
  <2>3. QED
    BY <2>1, <2>2, QuietLock
<1>3. QED
  BY <1>1, <1>2

\* Before the second count no goroutine of any check is before wg.Done().
LEMMA NonePending ==
  ASSUME LockInv, NEW r \in Tokens, checker[r].pc \in {"countReady", "countWIP"}
  PROVE  \A k \in Creators : creator[k].pc \notin {"acquire", "insert"}
<1>1. \A k \in Creators : k[1] \in Tokens
  BY DEF Creators
<1>2. QED
  BY <1>1 DEF LockInv, Critical

\* The effect of the second count.
LEMMA CountWIPEffect ==
  ASSUME TypeOK, StartedOnce, LockInv, NEW r \in Tokens, CountWIP(r)
  PROVE  \E n \in CheckNumStatus(r, "WIP") :
            LET missing == OverProvision - checker[r].avail - n IN
            /\ missing \in Int
            /\ wg' = [wg EXCEPT ![r] = IF missing > 0 THEN missing ELSE 0]
            /\ \A k \in Creators : creator'[k].pc \in {"acquire", "insert"} <=>
                                      k \in Started(r, missing)
<1>1. PICK n \in CheckNumStatus(r, "WIP") :
         LET missing == OverProvision - checker[r].avail - n
             started == {k \in Creators : k[1] = r /\ k[2] <= missing}
         IN  /\ creator' = [k \in Creators |->
                              IF k \in started
                              THEN [creator[k] EXCEPT !.pc = "acquire"]
                              ELSE creator[k]]
             /\ wg' = [wg EXCEPT ![r] = IF missing > 0 THEN missing ELSE 0]
  BY DEF CountWIP
<1> DEFINE missing == OverProvision - checker[r].avail - n
<1>2. n \in Nat
  BY CountType
<1>3. missing \in Int
  BY <1>2, OverProvisionAssumption DEF TypeOK, CheckerLocal
<1>4. \A k \in Creators : creator'[k].pc = IF k \in Started(r, missing)
                                            THEN "acquire" ELSE creator[k].pc
  BY <1>1 DEF Started, TypeOK, CreatorLocal
<1>5. \A k \in Creators : creator[k].pc \notin {"acquire", "insert"}
  BY NonePending DEF CountWIP
<1>6. QED
  BY <1>1, <1>3, <1>4, <1>5

LEMMA CountWIPLock ==
  ASSUME TypeOK, StartedOnce, LockInv, NEW r \in Tokens, CountWIP(r)
  PROVE  LockInv'
<1>1. PICK n \in CheckNumStatus(r, "WIP") :
            LET missing == OverProvision - checker[r].avail - n IN
            /\ missing \in Int
            /\ wg' = [wg EXCEPT ![r] = IF missing > 0 THEN missing ELSE 0]
            /\ \A k \in Creators : creator'[k].pc \in {"acquire", "insert"} <=>
                                      k \in Started(r, missing)
  BY CountWIPEffect
<1> DEFINE missing == OverProvision - checker[r].avail - n
<1>2. /\ lock' = lock /\ checker[r].pc = "countWIP" /\ checker'[r].pc = "wait"
      /\ \A q \in Tokens \ {r} : checker'[q] = checker[q]
  BY DEF CountWIP, TypeOK, CheckerLocal
<1>3. ASSUME NEW q \in Tokens
      PROVE  Cardinality(PendingOf(q)') <= wg'[q]
  <2>1. CASE q = r
    <3>1. PendingOf(r)' = Started(r, missing)
      BY <1>1 DEF PendingOf, Started
    <3>2. Cardinality(Started(r, missing)) <= IF missing > 0 THEN missing ELSE 0
      BY <1>1, StartedCount
    <3>3. wg'[r] = IF missing > 0 THEN missing ELSE 0
      BY <1>1 DEF TypeOK
    <3>4. QED
      BY <2>1, <3>1, <3>2, <3>3
  <2>2. CASE q # r
    <3>1. PendingOf(q)' = {}
      BY <1>1, <2>2 DEF PendingOf, Started
    <3>2. PendingOf(q) = {}
      BY <1>2, NonePending DEF PendingOf
    <3>3. wg'[q] = wg[q]
      BY <1>1, <2>2 DEF TypeOK
    <3>4. QED
      BY <3>1, <3>2, <3>3 DEF LockInv
  <2>3. QED
    BY <2>1, <2>2
<1>4. \A k \in Creators : creator'[k].pc \in {"acquire", "insert"} => k[1] = r
  BY <1>1 DEF Started
<1>5. QED
  BY <1>2, <1>3, <1>4 DEF LockInv, Critical

LEMMA CheckLock ==
  ASSUME TypeOK, StartedOnce, LockInv, NEW r \in Tokens, CheckPoolCap(r)
  PROVE  LockInv'
<1>1. CASE CountWIP(r)
  BY <1>1, CountWIPLock
<1>2. CASE Lock(r) \/ CountReady(r) \/ Unlock(r)
  <2>1. UNCHANGED <<wg, creator>>
    BY <1>2 DEF Lock, CountReady, Unlock
  <2>2. \A q \in Tokens \ {r} : checker'[q] = checker[q]
    BY <1>2 DEF Lock, CountReady, Unlock, TypeOK
  <2>3. \A q \in Tokens : PendingOf(q)' = PendingOf(q)
    BY <2>1 DEF PendingOf
  <2>4. \A k \in Creators : k[1] \in Tokens
    BY DEF Creators
  <2>5. CASE Lock(r)
    <3>1. checker[r].pc = "lock" /\ checker'[r].pc = "countReady"
      BY <2>5 DEF Lock, TypeOK, CheckerLocal
    <3>2. lock = 0 /\ lock' = 1
      BY <2>5, LockAssumption DEF Lock, TypeOK
    <3>3. \A q \in Tokens : checker[q].pc \notin Critical
      BY <3>2 DEF LockInv
    <3>4. QED
      BY <2>1, <2>2, <2>3, <2>4, <3>1, <3>2, <3>3 DEF LockInv, Critical
  <2>6. CASE CountReady(r)
    <3>1. checker[r].pc = "countReady" /\ checker'[r].pc = "countWIP" /\ lock' = lock
      BY <2>6 DEF CountReady, TypeOK, CheckerLocal
    <3>2. QED
      BY <2>1, <2>2, <2>3, <2>4, <3>1 DEF LockInv, Critical
  <2>7. CASE Unlock(r)
    <3>1. checker[r].pc = "wait" /\ checker'[r].pc = "done" /\ wg[r] = 0
      BY <2>7 DEF Unlock, TypeOK, CheckerLocal
    <3>2. Cardinality(PendingOf(r)) <= 0
      BY <3>1 DEF LockInv
    <3>3. PendingOf(r) = {}
      BY <3>2, PendingCount, FS_EmptySet
    <3>4. \A q \in Tokens : checker'[q].pc \notin Critical
      BY <2>2, <3>1 DEF LockInv, Critical
    <3>5. QED
      BY <2>1, <2>2, <2>3, <2>4, <3>1, <3>3, <3>4 DEF LockInv, Critical, PendingOf
  <2>8. QED
    BY <1>2, <2>5, <2>6, <2>7
<1>3. QED
  BY <1>1, <1>2 DEF CheckPoolCap

LEMMA RestartLock ==
  ASSUME TypeOK, LockInv, Restart
  PROVE  LockInv'
<1>1. \A r \in Tokens : checker'[r].pc \in {"none", "done"} /\ wg'[r] = 0
  BY DEF Restart, TypeOK, CheckerLocal
<1>2. \A k \in Creators : creator'[k].pc \in {"none", "done"}
  BY DEF Restart, TypeOK, CreatorLocal
<1>3. \A r \in Tokens : PendingOf(r)' = {}
  BY <1>2 DEF PendingOf
<1>4. \A r \in Tokens : Cardinality(PendingOf(r)') <= wg'[r]
  BY <1>1, <1>3, FS_EmptySet
<1>5. QED
  BY <1>1, <1>2, <1>4 DEF LockInv, Critical

LEMMA NextLock ==
  ASSUME TypeOK, StartedOnce, LockInv, [Next]_vars
  PROVE  LockInv'
<1>1. ASSUME NEW r \in Tokens, InsertRequest(r)
      PROVE  LockInv'
  <2>1. /\ UNCHANGED <<lock, wg, creator>> /\ job[r] = "posting"
        /\ checker' = checker \/ checker' = [checker EXCEPT ![r].pc = "lock"]
    BY <1>1 DEF InsertRequest
  <2>2. /\ checker[r].pc = "none"
        /\ checker'[r].pc \in {"none", "lock"}
        /\ \A q \in Tokens \ {r} : checker'[q] = checker[q]
    BY <2>1 DEF StartedOnce, TypeOK, CheckerLocal
  <2>3. \A q \in Tokens : PendingOf(q)' = PendingOf(q)
    BY <2>1 DEF PendingOf
  <2>4. \A k \in Creators : k[1] \in Tokens
    BY DEF Creators
  <2>5. QED
    BY <2>1, <2>2, <2>3, <2>4 DEF LockInv, Critical
<1>2. ASSUME \/ Tick \/ UNCHANGED vars
             \/ \E r \in Tokens : \/ ReceiveRequest(r) \/ Abandon(r)
                                  \/ \E h \in Handlers : Poll(h, r) \/ Clean(h, r)
             \/ \E h \in Handlers : AssignCluster(h) \/ CleanCluster(h)
             \/ \E p \in Projects : Janitor(p)
      PROVE  LockInv'
  <2>1. UNCHANGED <<lock, wg, checker, creator>>
    BY <1>2 DEF Tick, vars, ReceiveRequest, Abandon, Poll, Clean, Janitor, poolVars,
                AssignCluster, CleanCluster, RankRequest, CountAvail, CheckAvail,
                GetCluster, UpdateRequest, UpdateCluster, CleanGet, CleanCheck,
                CleanDelete, CleanRelease
  <2>2. QED
    BY <2>1, QuietLock
<1>3. QED
  BY <1>1, <1>2, CheckLock, CreateLock, RestartLock DEF Next

LEMMA LockInvariant == Spec => []LockInv
<1>1. Init => LockInv
  <2> SUFFICES ASSUME Init PROVE LockInv
    OBVIOUS
  <2>1. \A r \in Tokens : checker[r].pc = "none" /\ wg[r] = 0
    BY DEF Init
  <2>2. \A k \in Creators : creator[k].pc = "none"
    BY DEF Init
  <2>3. \A r \in Tokens : PendingOf(r) = {}
    BY <2>2 DEF PendingOf
  <2>4. \A r \in Tokens : Cardinality(PendingOf(r)) <= wg[r]
    <3>1. \A r \in Tokens : Cardinality(PendingOf(r)) = 0
      BY <2>3, FS_EmptySet
    <3>2. QED
      BY <2>1, <3>1
  <2>5. QED
    BY <2>1, <2>2, <2>4 DEF LockInv, Critical
<1>2. QED
  BY <1>1, NextLock, TypeCorrect, LeaseInvariant, PTL DEF Spec

-----------------------------------------------------------------------------
(* The bounds.                                                             *)

\* The clusters of r's configuration that are being made, and the whole pool.
Making(r) == RowsWith(r, "WIP") \cup Pending(r)
Pool(r)   == RowsWith(r, "Ready") \cup Making(r)

\* A cluster that becomes Ready between the two counts of a check is in neither.
\* The clusters in the making bound how many these are.
PoolInv ==
    \A r \in Tokens :
        /\ Cardinality(Making(r)) <= OverProvision
        /\ Cardinality(Pool(r)) <= 2 * OverProvision
        /\ checker[r].pc = "countWIP" =>
               Cardinality(Pool(r)) <= checker[r].avail + OverProvision

LEMMA PoolCounts ==
  ASSUME NEW r
  PROVE  /\ Pool(r) \in SUBSET Creators /\ Making(r) \in SUBSET Creators
         /\ RowsWith(r, "Ready") \in SUBSET Creators
         /\ RowsWith(r, "WIP") \in SUBSET Creators
         /\ Pending(r) \in SUBSET Creators
         /\ Cardinality(Pool(r)) \in Nat /\ Cardinality(Making(r)) \in Nat
         /\ Cardinality(RowsWith(r, "Ready")) \in Nat
         /\ Cardinality(RowsWith(r, "WIP")) \in Nat
         /\ Cardinality(Pending(r)) \in Nat
<1>1. /\ Pool(r) \in SUBSET Creators /\ Making(r) \in SUBSET Creators
      /\ RowsWith(r, "Ready") \in SUBSET Creators
      /\ RowsWith(r, "WIP") \in SUBSET Creators
      /\ Pending(r) \in SUBSET Creators
  BY DEF Pool, Making, RowsWith, Pending
<1>2. QED
  BY <1>1, CountMonotone

\* A row in the making is inserted by a goroutine that was before wg.Done().
LEMMA NewRows ==
  ASSUME TypeOK, LeaseInv, [Next]_vars, NEW k \in Creators
  PROVE  /\ cluster'[k].status = "Ready" => cluster[k].status \in {"Ready", "WIP"}
         /\ cluster'[k].status = "WIP" =>
               cluster[k].status = "WIP" \/ creator[k].pc = "insert"
<1>1. StatusStep(cluster[k].status, cluster'[k].status)
  BY NextEffect, EffectLifecycle
<1>2. ASSUME cluster'[k].status = "WIP", cluster[k].status # "WIP"
      PROVE  creator[k].pc = "insert"
  <2>1. ASSUME NEW l \in Creators, CreateCluster(l)
        PROVE  creator[k].pc = "insert"
    <3>1. CASE InsertCluster(l)
      <4>1. creator[l].pc = "insert" /\ \A i \in Creators \ {l} : cluster'[i] = cluster[i]
        BY <3>1 DEF InsertCluster, TypeOK
      <4>2. QED
        BY <1>2, <4>1
    <3>2. CASE MarkReady(l)
      <4>1. cluster' = cluster \/ cluster' = SetStatus(l, "Ready")
        BY <3>2 DEF MarkReady
      <4>2. QED
        BY <1>2, <4>1, SetStatusEffect
    <3>3. CASE MarkFailed(l)
      <4>1. cluster' = cluster \/ cluster' = SetStatus(l, "Failed")
        BY <3>3 DEF MarkFailed
      <4>2. QED
        BY <1>2, <4>1, SetStatusEffect
    <3>4. CASE AcquireProject(l) \/ AcquireFails(l) \/ ReleaseFailed(l)
      BY <1>2, <3>4 DEF AcquireProject, AcquireFails, ReleaseFailed
    <3>5. QED
      BY <2>1, <3>1, <3>2, <3>3, <3>4 DEF CreateCluster
  <2>2. ASSUME NEW h \in Handlers, AssignCluster(h) \/ CleanCluster(h)
        PROVE  FALSE
    <3>1. CASE UpdateCluster(h)
      <4>1. PICK l \in Creators : cluster' = cluster \/ cluster' = SetStatus(l, "In Use")
        BY <3>1 DEF UpdateCluster, LeaseInv, OnlyHandedOut, Handed
      <4>2. /\ \A i \in Creators \ {l} : cluster'[i] = cluster[i]
            /\ cluster'[l].status \in {cluster[l].status, "In Use"}
        BY <4>1, SetStatusEffect
      <4>3. QED
        BY <1>2, <4>2
    <3>2. CASE CleanDelete(h)
      <4>1. cluster' = cluster
            \/ cluster' = [cluster EXCEPT ![handler[h].cid].status = "gone"]
        BY <3>2 DEF CleanDelete
      <4>2. QED
        BY <1>2, <4>1 DEF TypeOK, ClusterRow
    <3>3. CASE ~UpdateCluster(h) /\ ~CleanDelete(h)
      BY <1>2, <2>2, <3>3 DEF AssignCluster, CleanCluster, RankRequest, CountAvail,
         CheckAvail, GetCluster, UpdateRequest, CleanGet, CleanCheck, CleanRelease
    <3>4. QED
      BY <3>1, <3>2, <3>3
  <2>3. CASE \/ Tick \/ Restart \/ UNCHANGED vars
             \/ \E r \in Tokens :
                  \/ ReceiveRequest(r) \/ InsertRequest(r) \/ Abandon(r)
                  \/ CheckPoolCap(r)
                  \/ \E h \in Handlers : Poll(h, r) \/ Clean(h, r)
             \/ \E p \in Projects : Janitor(p)
    BY <1>2, <2>3 DEF Tick, Restart, vars, ReceiveRequest, InsertRequest, Abandon,
       CheckPoolCap, Lock, CountReady, CountWIP, Unlock, Poll, Clean, Janitor
  <2>4. QED
    BY <2>1, <2>2, <2>3 DEF Next
<1>3. QED
  BY <1>1, <1>2 DEF StatusStep

\* No goroutine comes before wg.Done().
NoneStarted ==
    \A k \in Creators : creator'[k].pc \in {"acquire", "insert"} =>
                            creator[k].pc \in {"acquire", "insert"}

LEMMA PoolShrinks ==
  ASSUME TypeOK, LeaseInv, [Next]_vars, NoneStarted, NEW r
  PROVE  /\ Making(r)' \in SUBSET Making(r)
         /\ Pool(r)' \in SUBSET Pool(r)
BY NewRows DEF NoneStarted, Making, Pool, Pending, RowsWith

LEMMA QuietPool ==
  ASSUME TypeOK, LeaseInv, [Next]_vars, NoneStarted, PoolInv,
         \A r \in Tokens : checker'[r].pc = "countWIP" => checker'[r] = checker[r]
  PROVE  PoolInv'
<1> SUFFICES ASSUME NEW r \in Tokens
             PROVE  /\ Cardinality(Making(r)') <= OverProvision
                    /\ Cardinality(Pool(r)') <= 2 * OverProvision
                    /\ checker'[r].pc = "countWIP" =>
                          Cardinality(Pool(r)') <= checker'[r].avail + OverProvision
  BY DEF PoolInv
<1>1. Making(r)' \in SUBSET Making(r) /\ Pool(r)' \in SUBSET Pool(r)
  BY PoolShrinks
<1>2. /\ Cardinality(Making(r)') <= Cardinality(Making(r))
      /\ Cardinality(Pool(r)') <= Cardinality(Pool(r))
      /\ Cardinality(Making(r)') \in Nat /\ Cardinality(Pool(r)') \in Nat
  BY <1>1, PoolCounts, CountMonotone
<1>3. Cardinality(Making(r)) \in Nat /\ Cardinality(Pool(r)) \in Nat
  BY PoolCounts
<1>4. checker[r].avail \in Nat
  BY DEF TypeOK, CheckerLocal
<1>5. QED
  BY <1>2, <1>3, <1>4, OverProvisionAssumption DEF PoolInv

LEMMA CountReadyPool ==
  ASSUME TypeOK, LeaseInv, PoolInv, "count" \notin Faults,
         NEW r \in Tokens, CountReady(r)
  PROVE  PoolInv'
<1>1. /\ UNCHANGED <<cluster, creator>>
      /\ checker'[r] = [pc |-> "countWIP", avail |-> Cardinality(RowsWith(r, "Ready"))]
      /\ \A q \in Tokens \ {r} : checker'[q] = checker[q]
  BY DEF CountReady, CheckNumStatus, TypeOK
<1>2. \A q \in Tokens : Making(q)' = Making(q) /\ Pool(q)' = Pool(q)
  BY <1>1 DEF Making, Pool, Pending, RowsWith
<1>3. Cardinality(Pool(r)) <= Cardinality(RowsWith(r, "Ready")) + OverProvision
  <2>1. Cardinality(Pool(r)) <= Cardinality(RowsWith(r, "Ready")) + Cardinality(Making(r))
    BY PoolCounts, CountUnion DEF Pool
  <2>2. Cardinality(Making(r)) <= OverProvision
    BY DEF PoolInv
  <2>3. QED
    BY <2>1, <2>2, PoolCounts, OverProvisionAssumption
<1>4. QED
  BY <1>1, <1>2, <1>3 DEF PoolInv

LEMMA CountWIPPool ==
  ASSUME TypeOK, StartedOnce, LockInv, PoolInv, "count" \notin Faults,
         NEW r \in Tokens, CountWIP(r)
  PROVE  PoolInv'
<1>1. PICK n \in CheckNumStatus(r, "WIP") :
            LET missing == OverProvision - checker[r].avail - n IN
            /\ missing \in Int
            /\ wg' = [wg EXCEPT ![r] = IF missing > 0 THEN missing ELSE 0]
            /\ \A k \in Creators : creator'[k].pc \in {"acquire", "insert"} <=>
                                      k \in Started(r, missing)
  BY CountWIPEffect
<1> DEFINE missing == OverProvision - checker[r].avail - n
           S == Started(r, missing)
<1>2. /\ cluster' = cluster /\ checker[r].pc = "countWIP" /\ checker'[r].pc = "wait"
      /\ \A q \in Tokens \ {r} : checker'[q] = checker[q]
  BY DEF CountWIP, TypeOK, CheckerLocal
<1>3. n = Cardinality(RowsWith(r, "WIP")) /\ n \in Nat
  BY PoolCounts DEF CheckNumStatus
<1>4. \A k \in Creators : creator[k].pc \notin {"acquire", "insert"}
  BY <1>2, NonePending
<1>5. \A q : Pending(q) = {}
  BY <1>4 DEF Pending
<1>6. /\ S \in SUBSET Creators
      /\ Cardinality(S) <= IF missing > 0 THEN missing ELSE 0
      /\ Cardinality(S) \in Nat
  BY <1>1, StartedCount, CountMonotone
<1>7. checker[r].avail \in Nat
  BY DEF TypeOK, CheckerLocal
<1>8. \A q \in Tokens \ {r} : checker[q].pc # "countWIP"
  BY <1>2 DEF LockInv, Critical
<1>9. ASSUME NEW q \in Tokens
      PROVE  /\ Cardinality(Making(q)') <= OverProvision
             /\ Cardinality(Pool(q)') <= 2 * OverProvision
  <2>1. CASE Params[q] = Params[r]
    <3>1. /\ Making(q)' = RowsWith(r, "WIP") \cup S
          /\ Pool(q)' = Pool(r) \cup S
      BY <1>1, <1>2, <1>5, <2>1 DEF Making, Pool, Pending, RowsWith, Started
    <3>2. /\ Cardinality(Making(q)') <= n + Cardinality(S)
          /\ Cardinality(Pool(q)') <= Cardinality(Pool(r)) + Cardinality(S)
      BY <1>3, <1>6, <3>1, PoolCounts, CountUnion
    <3>3. /\ Cardinality(Making(q)') \in Nat /\ Cardinality(Pool(q)') \in Nat
      <4>1. Making(q)' \in SUBSET Creators /\ Pool(q)' \in SUBSET Creators
        BY <1>6, <3>1, PoolCounts
      <4>2. QED
        BY <4>1, CountMonotone
    <3>4. /\ n <= OverProvision
          /\ Cardinality(Pool(r)) <= 2 * OverProvision
          /\ Cardinality(Pool(r)) <= checker[r].avail + OverProvision
          /\ Cardinality(Pool(r)) \in Nat
      <4>1. RowsWith(r, "WIP") \in SUBSET Making(r)
        BY DEF Making
      <4>2. n <= Cardinality(Making(r))
        BY <1>3, <4>1, PoolCounts, CountMonotone
      <4>3. QED
        BY <1>2, <1>3, <4>2, PoolCounts, OverProvisionAssumption DEF PoolInv
    <3>5. QED
      BY <1>3, <1>6, <1>7, <3>2, <3>3, <3>4, OverProvisionAssumption
  <2>2. CASE Params[q] # Params[r]
    <3>1. Making(q)' = Making(q) /\ Pool(q)' = Pool(q)
      BY <1>1, <1>2, <1>5, <2>2 DEF Making, Pool, Pending, RowsWith, Started
    <3>2. QED
      BY <3>1 DEF PoolInv
  <2>3. QED
    BY <2>1, <2>2
<1>10. QED
  BY <1>2, <1>8, <1>9 DEF PoolInv

LEMMA NextPool ==
  ASSUME TypeOK, StartedOnce, LeaseInv, LockInv, PoolInv, [Next]_vars,
         "count" \notin Faults
  PROVE  PoolInv'
<1>1. ASSUME NEW r \in Tokens, CheckPoolCap(r)
      PROVE  PoolInv'
  <2>1. CASE Lock(r) \/ Unlock(r)
    <3>1. /\ UNCHANGED creator
          /\ checker'[r].pc \in {"countReady", "done"}
          /\ \A q \in Tokens \ {r} : checker'[q] = checker[q]
      BY <2>1 DEF Lock, Unlock, TypeOK, CheckerLocal
    <3>2. NoneStarted /\ \A q \in Tokens : checker'[q].pc = "countWIP" =>
                                               checker'[q] = checker[q]
      BY <3>1 DEF NoneStarted
    <3>3. QED
      BY <3>2, QuietPool
  <2>2. QED
    BY <1>1, <2>1, CountReadyPool, CountWIPPool DEF CheckPoolCap
<1>2. ASSUME NEW k \in Creators, CreateCluster(k)
      PROVE  PoolInv'
  <2>1. /\ UNCHANGED checker
        /\ \A l \in Creators \ {k} : creator'[l] = creator[l]
        /\ creator'[k].pc \in {"acquire", "insert"} => creator[k].pc = "acquire"
    BY <1>2 DEF CreateCluster, AcquireProject, AcquireFails, InsertCluster, MarkReady,
                MarkFailed, ReleaseFailed, poolVars, TypeOK, CreatorLocal
  <2>2. NoneStarted
    BY <2>1 DEF NoneStarted
  <2>3. QED
    BY <2>1, <2>2, QuietPool
<1>3. CASE Restart
  <2>1. /\ \A k \in Creators : creator'[k].pc \in {"none", "done"}
        /\ \A r \in Tokens : checker'[r].pc \in {"none", "done"}
    BY <1>3 DEF Restart, TypeOK, CreatorLocal, CheckerLocal
  <2>2. NoneStarted /\ \A r \in Tokens : checker'[r].pc # "countWIP"
    BY <2>1 DEF NoneStarted
  <2>3. QED
    BY <2>2, QuietPool
<1>4. ASSUME NEW r \in Tokens, InsertRequest(r)
      PROVE  PoolInv'
  <2>1. /\ UNCHANGED creator
        /\ checker' = checker \/ checker' = [checker EXCEPT ![r].pc = "lock"]
    BY <1>4 DEF InsertRequest
  <2>2. /\ NoneStarted
        /\ \A q \in Tokens : checker'[q].pc = "countWIP" => checker'[q] = checker[q]
    BY <2>1 DEF NoneStarted, TypeOK, CheckerLocal
  <2>3. QED
    BY <2>2, QuietPool
<1>5. ASSUME \/ Tick \/ UNCHANGED vars
             \/ \E r \in Tokens : \/ ReceiveRequest(r) \/ Abandon(r)
                                  \/ \E h \in Handlers : Poll(h, r) \/ Clean(h, r)
             \/ \E h \in Handlers : AssignCluster(h) \/ CleanCluster(h)
             \/ \E p \in Projects : Janitor(p)
      PROVE  PoolInv'
  <2>1. UNCHANGED <<checker, creator>>
    BY <1>5 DEF Tick, vars, ReceiveRequest, Abandon, Poll, Clean, Janitor, poolVars,
                AssignCluster, CleanCluster, RankRequest, CountAvail, CheckAvail,
                GetCluster, UpdateRequest, UpdateCluster, CleanGet, CleanCheck,
                CleanDelete, CleanRelease
  <2>2. QED
    BY <2>1, QuietPool DEF NoneStarted
<1>6. QED
  BY <1>1, <1>2, <1>3, <1>4, <1>5 DEF Next

LEMMA InitPool == Init => PoolInv
<1> SUFFICES ASSUME Init PROVE PoolInv
  OBVIOUS
<1>1. \A k \in Creators : cluster[k].status = "gone" /\ creator[k].pc = "none"
  BY DEF Init
<1>2. \A r \in Tokens : checker[r].pc = "none"
  BY DEF Init
<1>3. \A r : Pool(r) = {} /\ Making(r) = {}
  BY <1>1 DEF Pool, Making, RowsWith, Pending
<1>4. QED
  BY <1>2, <1>3, FS_EmptySet, OverProvisionAssumption DEF PoolInv

\* However many requests there are, whatever else fails, and although the two counts
\* of checkPoolCap are separate queries: at most twice DefaultOverProvision clusters
\* of a configuration are Ready or in the making.
THEOREM PoolSafe == Spec => []PoolBounded
<1> DEFINE Counted == "count" \notin Faults => PoolInv
<1>1. Init => Counted
  BY InitPool
<1>2. TypeOK /\ StartedOnce /\ LeaseInv /\ LockInv /\ Counted /\ [Next]_vars => Counted'
  BY NextPool
<1>3. LeaseInv /\ Counted => PoolBounded
  <2> SUFFICES ASSUME LeaseInv, PoolInv, NEW r \in Tokens
               PROVE  Cardinality(RowsWith(r, "Ready")) + Cardinality(RowsWith(r, "WIP"))
                        + Cardinality(Pending(r)) <= 2 * OverProvision
    BY DEF PoolBounded
  <2>1. /\ RowsWith(r, "WIP") \cap Pending(r) = {}
        /\ RowsWith(r, "Ready") \cap Making(r) = {}
    BY DEF RowsWith, Making, Pending, LeaseInv, RowsFollowCreators
  <2>2. /\ Cardinality(Making(r)) =
              Cardinality(RowsWith(r, "WIP")) + Cardinality(Pending(r))
        /\ Cardinality(Pool(r)) =
              Cardinality(RowsWith(r, "Ready")) + Cardinality(Making(r))
    BY <2>1, PoolCounts, CountUnion DEF Making, Pool
  <2>3. QED
    BY <2>2, PoolCounts, OverProvisionAssumption DEF PoolInv
<1>4. QED
  BY <1>1, <1>2, <1>3, TypeCorrect, LeaseInvariant, LockInvariant, PTL DEF Spec

-----------------------------------------------------------------------------
(* The clusters of running jobs.                                           *)

\* The cluster of a running job exists or has existed, and no poll will find it Ready.
GivenInv ==
    \A r \in Tokens : job[r] = "running" =>
        /\ given[r] \in Creators
        /\ creator[given[r]].pc = "done"
        /\ cluster[given[r]].status \in {"In Use", "gone"}

\* A row of a creation that is over does not come back.
DoneKept ==
    \A k \in Creators : creator[k].pc = "done" =>
        /\ creator'[k].pc = "done"
        /\ cluster[k].status \in {"In Use", "gone"} =>
              cluster'[k].status \in {"In Use", "gone"}

LEMMA NextDone ==
  ASSUME TypeOK, StartedOnce, LeaseInv, LockInv, [Next]_vars
  PROVE  DoneKept
<1> SUFFICES ASSUME NEW k \in Creators, creator[k].pc = "done"
             PROVE  /\ creator'[k].pc = "done"
                    /\ cluster[k].status \in {"In Use", "gone"} =>
                          cluster'[k].status \in {"In Use", "gone"}
  BY DEF DoneKept
<1>1. cluster[k].status \in {"In Use", "gone"} => cluster'[k].status \in {"In Use", "gone"}
  <2>1. StatusStep(cluster[k].status, cluster'[k].status)
    BY NextEffect, EffectLifecycle
  <2>2. cluster'[k].status = "WIP" => cluster[k].status = "WIP"
    BY NewRows
  <2>3. QED
    BY <2>1, <2>2 DEF StatusStep
<1>2. creator'[k].pc = "done"
  <2>1. ASSUME NEW r \in Tokens, CheckPoolCap(r)
        PROVE  creator'[k].pc = "done"
    <3>1. CASE CountWIP(r)
      <4>1. \A l \in Creators : l[1] = r => creator[l].pc = "none"
        BY <3>1 DEF CountWIP, StartedOnce
      <4>2. k[1] # r
        BY <4>1
      <4>3. QED
        BY <3>1, <4>2 DEF CountWIP
    <3>2. CASE ~CountWIP(r)
      BY <2>1, <3>2 DEF CheckPoolCap, Lock, CountReady, Unlock
    <3>3. QED
      BY <3>1, <3>2
  <2>2. ASSUME NEW l \in Creators, CreateCluster(l)
        PROVE  creator'[k].pc = "done"
    <3>1. creator[l].pc # "done" /\ \A i \in Creators \ {l} : creator'[i] = creator[i]
      BY <2>2 DEF CreateCluster, AcquireProject, AcquireFails, InsertCluster, MarkReady,
         MarkFailed, ReleaseFailed, TypeOK
    <3>2. QED
      BY <3>1
  <2>3. CASE Restart
    BY <2>3 DEF Restart, TypeOK, CreatorLocal
  <2>4. ASSUME \/ Tick \/ UNCHANGED vars
               \/ \E r \in Tokens : \/ ReceiveRequest(r) \/ InsertRequest(r) \/ Abandon(r)
                                    \/ \E h \in Handlers : Poll(h, r) \/ Clean(h, r)
               \/ \E h \in Handlers : AssignCluster(h) \/ CleanCluster(h)
               \/ \E p \in Projects : Janitor(p)
        PROVE  creator' = creator
    BY <2>4 DEF Tick, vars, ReceiveRequest, InsertRequest, Abandon, Poll, Clean, Janitor,
       AssignCluster, CleanCluster, RankRequest, CountAvail, CheckAvail, GetCluster,
       UpdateRequest, UpdateCluster, CleanGet, CleanCheck, CleanDelete, CleanRelease
  <2>5. QED
    BY <2>1, <2>2, <2>3, <2>4 DEF Next
<1>3. QED
  BY <1>1, <1>2

\* No job starts to run.
LEMMA QuietGiven ==
  ASSUME GivenInv, DoneKept, UNCHANGED given,
         \A r \in Tokens : job'[r] = "running" => job[r] = "running"
  PROVE  GivenInv'
BY DEF GivenInv, DoneKept

\* A poll answers with a cluster that it has just marked, unless a clean has removed it.
LEMMA UpdateClusterGiven ==
  ASSUME TypeOK, LeaseInv, GivenInv, DoneKept, "write" \notin Faults,
         NEW h \in Handlers, UpdateCluster(h)
  PROVE  GivenInv'
<1> DEFINE c == handler[h].cid
           t == handler[h].token
<1>1. /\ handler[h].pc = "updCluster" /\ UNCHANGED creator
      /\ c \in Creators /\ creator[c].pc = "done"
      /\ cluster[c].status \in {"Ready", "In Use", "gone"}
  BY DEF UpdateCluster, LeaseInv, OnlyHandedOut, Handed
<1>2. cluster'[c].status \in {"In Use", "gone"}
  <2>1. cluster' = SetStatus(c, "In Use")
    BY NoFault DEF UpdateCluster
  <2>2. QED
    BY <1>1, <2>1 DEF SetStatus, TypeOK, ClusterRow
<1>3. CASE job' = job /\ given' = given
  BY <1>3, QuietGiven
<1>4. CASE ~(job' = job /\ given' = given)
  <2>1. /\ job' = [job EXCEPT ![t] = "running"]
        /\ given' = [given EXCEPT ![t] = c]
    BY <1>4 DEF UpdateCluster
  <2>2. \A r \in Tokens \ {t} : job'[r] = job[r] /\ given'[r] = given[r]
    BY <2>1 DEF TypeOK
  <2>3. t \in Tokens => given'[t] = c
    BY <2>1 DEF TypeOK
  <2>4. ASSUME NEW r \in Tokens, job'[r] = "running"
        PROVE  /\ given'[r] \in Creators
               /\ creator'[given'[r]].pc = "done"
               /\ cluster'[given'[r]].status \in {"In Use", "gone"}
    <3>1. CASE r = t
      BY <1>1, <1>2, <2>3, <3>1
    <3>2. CASE r # t
      <4>1. given'[r] = given[r] /\ job[r] = "running"
        BY <2>2, <2>4, <3>2
      <4>2. QED
        BY <4>1 DEF GivenInv, DoneKept
    <3>3. QED
      BY <3>1, <3>2
  <2>5. QED
    BY <2>4 DEF GivenInv
<1>5. QED
  BY <1>3, <1>4

LEMMA NextGiven ==
  ASSUME TypeOK, StartedOnce, LeaseInv, LockInv, GivenInv, "write" \notin Faults,
         [Next]_vars
  PROVE  GivenInv'
<1>1. DoneKept
  BY NextDone
<1>2. ASSUME NEW h \in Handlers, UpdateCluster(h)
      PROVE  GivenInv'
  BY <1>1, <1>2, UpdateClusterGiven
<1>3. CASE \A h \in Handlers : ~UpdateCluster(h)
  <2>1. given' = given /\ \A q \in Tokens : job'[q] = "running" => job[q] = "running"
    <3>1. ASSUME NEW r \in Tokens,
                 \/ ReceiveRequest(r) \/ InsertRequest(r) \/ Abandon(r) \/ CheckPoolCap(r)
                 \/ \E h \in Handlers : Poll(h, r) \/ Clean(h, r)
          PROVE  given' = given /\ \A q \in Tokens : job'[q] = "running" => job[q] = "running"
      BY <3>1 DEF ReceiveRequest, InsertRequest, Abandon, Poll, Clean, CheckPoolCap, Lock,
         CountReady, CountWIP, Unlock, jobVars, TypeOK
    <3>2. ASSUME \/ \E k \in Creators : CreateCluster(k)
                 \/ \E h \in Handlers : AssignCluster(h) \/ CleanCluster(h)
                 \/ \E p \in Projects : Janitor(p)
                 \/ Tick \/ UNCHANGED vars
          PROVE  given' = given /\ job' = job
      BY <1>3, <3>2 DEF CreateCluster, AcquireProject, AcquireFails, InsertCluster, MarkReady,
         MarkFailed, ReleaseFailed, AssignCluster, RankRequest, CountAvail, CheckAvail,
         GetCluster, UpdateRequest, CleanCluster, CleanGet, CleanCheck, CleanDelete,
         CleanRelease, Janitor, Tick, vars, jobVars
    <3>3. CASE Restart
      BY <3>3 DEF Restart
    <3>4. QED
      BY <3>1, <3>2, <3>3 DEF Next
  <2>2. QED
    BY <1>1, <2>1, QuietGiven
<1>4. QED
  BY <1>2, <1>3

\* For any number of jobs and of polls and cleans at a time, and any faults but failing
\* writes: the cluster that a running job was told to use is never Ready again.
THEOREM GivenSafe == Spec => []GivenStaysTaken
<1> DEFINE Inv == "write" \notin Faults => GivenInv
<1>1. Init => Inv
  BY DEF Init, GivenInv
<1>2. TypeOK /\ StartedOnce /\ LeaseInv /\ LockInv /\ Inv /\ [Next]_vars => Inv'
  BY NextGiven
<1>3. Inv => GivenStaysTaken
  BY DEF GivenInv, GivenStaysTaken
<1>4. QED
  BY <1>1, <1>2, <1>3, TypeCorrect, LeaseInvariant, LockInvariant, PTL DEF Spec

=============================================================================
