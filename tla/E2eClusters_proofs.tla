------------------------- MODULE E2eClusters_proofs -------------------------
(***************************************************************************)
(* What commands leave behind on a machine, in GKE and in Boskos, for any  *)
(* machines, requests, regions and projects, whatever fails or is          *)
(* interrupted.                                                            *)
(***************************************************************************)
EXTENDS E2eClusters, SequenceTheorems, WellFoundedInduction, TLAPS

-----------------------------------------------------------------------------
(* Regions.                                                                *)

\* A set of natural numbers has a smallest element.
LEMMA SmallestOf ==
  ASSUME NEW T \in SUBSET Nat, T # {}
  PROVE  \E n \in T : \A k \in T : n <= k
<1>1. PICK n \in T : \A k \in T : ~(<<k, n>> \in OpToRel(<, Nat))
  BY NatLessThanWellFounded, WFMin, Zenon
<1>2. \A k \in T : ~(k < n)
  BY <1>1, Zenon DEF OpToRel
<1>3. QED
  BY <1>2

\* One round of the loop over the backup regions: f[n] is what is left of the first n.
Filtered(r, f, n) ==
    IF n = 0 THEN <<>>
    ELSE IF r.backup[n] = r.region THEN f[n - 1]
    ELSE Append(f[n - 1], r.backup[n])

\* The loop over the backup regions leaves a list of regions.  A smallest number of
\* rounds for which it does not would contradict the round before.
LEMMA RegionsOfType ==
  ASSUME NEW S, NEW r, r.backup \in Seq(S), r.region \in S
  PROVE  RegionsOf(r) \in Seq(S) /\ RegionsOf(r) # <<>>
<1> DEFINE N == Len(r.backup)
           Rounds(k) == \E g : g = [n \in 0..k |-> Filtered(r, g, n)]
           f == CHOOSE g : g = [n \in 0..N |-> Filtered(r, g, n)]
<1>1. N \in Nat
  OBVIOUS
<1>2. \A k \in Nat : Rounds(k)
  <2> DEFINE T == {k \in Nat : ~Rounds(k)}
  <2> SUFFICES ASSUME T # {} PROVE FALSE
    OBVIOUS
  <2>1. PICK k \in T : \A l \in T : k <= l
    <3> HIDE DEF T
    <3>1. T \in SUBSET Nat
      BY DEF T
    <3>2. QED
      BY <3>1, SmallestOf
  <2>2. k # 0
    <3>1. [n \in 0..0 |-> <<>>] = [n \in 0..0 |-> Filtered(r, [i \in 0..0 |-> <<>>], n)]
      BY DEF Filtered
    <3>2. Rounds(0)
      BY <3>1
    <3>3. QED
      BY <3>2
  <2>3. k \in Nat /\ k - 1 \in Nat /\ Rounds(k - 1)
    <3>1. k \in Nat /\ k - 1 \in Nat /\ ~(k <= k - 1)
      BY <2>2
    <3>2. k - 1 \notin T
      BY <2>1, <3>1
    <3>3. QED
      BY <3>1, <3>2
  <2>4. PICK g : g = [n \in 0..(k - 1) |-> Filtered(r, g, n)]
    BY <2>3
  <2> DEFINE h == [n \in 0..k |-> Filtered(r, g, n)]
  <2>5. ASSUME NEW n \in 0..k, n # 0
        PROVE  h[n - 1] = g[n - 1]
    <3>1. n - 1 \in 0..(k - 1) /\ n - 1 \in 0..k
      BY <2>3, <2>5
    <3>2. g[n - 1] = Filtered(r, g, n - 1)
      BY <2>4, <3>1
    <3>3. QED
      BY <3>1, <3>2
  <2>6. \A n \in 0..k : Filtered(r, g, n) = Filtered(r, h, n)
    BY <2>5 DEF Filtered
  <2>7. Rounds(k)
    BY <2>6
  <2>8. QED
    BY <2>7
<1>3. f = [n \in 0..N |-> Filtered(r, f, n)]
  BY <1>1, <1>2
<1>4. RegionsOf(r) = <<r.region>> \o f[N]
  BY DEF RegionsOf, Filtered
<1> HIDE DEF f
<1>5. \A n \in 0..N : f[n] \in Seq(S)
  <2> DEFINE T == {k \in 0..N : f[k] \notin Seq(S)}
  <2> SUFFICES ASSUME T # {} PROVE FALSE
    OBVIOUS
  <2>1. PICK k \in T : \A l \in T : k <= l
    <3> HIDE DEF T
    <3>1. T \in SUBSET Nat
      BY <1>1 DEF T
    <3>2. QED
      BY <3>1, SmallestOf
  <2>2. f[k] = Filtered(r, f, k)
    BY <1>3
  <2>3. k # 0
    <3>1. f[k] \notin Seq(S) /\ <<>> \in Seq(S)
      OBVIOUS
    <3>2. QED
      BY <2>2, <3>1 DEF Filtered
  <2>4. k - 1 \in 0..N /\ ~(k <= k - 1)
    BY <1>1, <2>3
  <2>5. f[k - 1] \in Seq(S) /\ r.backup[k] \in S
    BY <1>1, <2>1, <2>3, <2>4
  <2>6. Filtered(r, f, k) \in Seq(S)
    <3> DEFINE t == f[k - 1]
    <3> HIDE DEF t
    <3>1. t \in Seq(S)
      BY <2>5 DEF t
    <3>2. Filtered(r, f, k) = IF r.backup[k] = r.region THEN t ELSE Append(t, r.backup[k])
      BY <2>3 DEF Filtered, t
    <3>3. QED
      BY <2>5, <3>1, <3>2
  <2>7. QED
    BY <2>2, <2>6
<1>6. QED
  <2>1. f[N] \in Seq(S)
    BY <1>1, <1>5
  <2> HIDE DEF N
  <2>2. <<r.region>> \in Seq(S)
    OBVIOUS
  <2>3. QED
    BY <1>4, <2>1, <2>2

\* A location is a region, or a region and a zone: it is split and put together again.
LEMMA LocationType ==
  ASSUME NEW region \in Regions, NEW zone \in {"", "a"}
  PROVE  GetClusterLocation(region, zone) \in Locations
<1>1. GetClusterLocation(region, zone)
        \in {GetClusterLocation(region, ""), GetClusterLocation(region, "a")}
  OBVIOUS
<1>2. QED
  BY <1>1, Zenon DEF Locations

LEMMA LocationAgain ==
  ASSUME NEW l \in Locations
  PROVE  GetClusterLocation(RegionZoneFromLoc(l).region, RegionZoneFromLoc(l).zone) = l
<1>1. PICK region \in Regions :
        l \in {GetClusterLocation(region, ""), GetClusterLocation(region, "a")}
  BY Zenon DEF Locations
<1>2. CASE l = GetClusterLocation(region, "")
  <2>1. l = <<region>>
    BY <1>2 DEF GetClusterLocation
  <2>2. l[1] = region /\ Len(l) = 1
    BY <2>1
  <2>3. RegionZoneFromLoc(l).region = region /\ RegionZoneFromLoc(l).zone = ""
    BY <2>2 DEF RegionZoneFromLoc
  <2>4. QED
    BY <1>2, <2>3
<1>3. CASE l = GetClusterLocation(region, "a")
  <2>1. l = <<region, "a">>
    BY <1>3 DEF GetClusterLocation
  <2>2. l[1] = region /\ l[2] = "a" /\ Len(l) = 2
    BY <2>1
  <2>3. RegionZoneFromLoc(l).region = region /\ RegionZoneFromLoc(l).zone = "a"
    BY <2>2 DEF RegionZoneFromLoc
  <2>4. QED
    BY <1>3, <2>3
<1>4. QED
  BY <1>1, <1>2, <1>3

-----------------------------------------------------------------------------
(* Requests.                                                               *)

\* The defaults are of the types of what the flags give, and there is a region.
LEMMA SetupType ==
  ASSUME NEW q \in Requests, NEW r \in Setup(q)
  PROVE  r \in Requests /\ r.region \in Regions /\ r.project = q.project
<1>1. PICK v \in resolveGKEVersion(q.version) :
        \E min, max, b, g :
            /\ min \in Int /\ max \in Int /\ b \in Seq(Regions) /\ g \in Regions
            /\ r = [q EXCEPT !.minNodes = min, !.maxNodes = max, !.version = v,
                             !.region = g, !.backup = b]
  <2> DEFINE min == IF q.minNodes = 0 THEN defaultGKEMinNodes ELSE q.minNodes
             max == IF q.maxNodes # 0 THEN q.maxNodes
                    ELSE IF min > defaultGKEMaxNodes THEN min ELSE defaultGKEMaxNodes
             env0 == IF BackupRegionsEnv # <<>> THEN BackupRegionsEnv
                     ELSE defaultGKEBackupRegions
             g == IF q.region # "" THEN q.region ELSE IF RegionEnv # "" THEN RegionEnv
                  ELSE defaultGKERegion
             b == IF q.zone # "" THEN <<>>
                  ELSE IF q.backup = <<>> /\ q.region = "" THEN env0 ELSE q.backup
  <2>1. PICK v \in resolveGKEVersion(q.version) :
          r = [q EXCEPT !.minNodes = min, !.maxNodes = max, !.version = v,
                        !.region = g, !.backup = b]
    BY Zenon DEF Setup
  <2>2. q.region \in Regions \cup {""} /\ q.backup \in Seq(Regions)
    BY DEF Requests
  <2>3. g \in Regions
    BY <2>2, E2eAssumption
  <2>4. b \in Seq(Regions)
    <3>1. <<>> \in Seq(Regions)
      OBVIOUS
    <3>2. env0 \in Seq(Regions)
      BY E2eAssumption
    <3> HIDE DEF env0
    <3>3. QED
      BY <2>2, <3>1, <3>2
  <2>5. min \in Int /\ max \in Int
    <3>1. q.minNodes \in Int /\ q.maxNodes \in Int
      BY DEF Requests
    <3>2. defaultGKEMinNodes \in Int /\ defaultGKEMaxNodes \in Int
      BY DEF defaultGKEMinNodes, defaultGKEMaxNodes
    <3>3. QED
      BY <3>1, <3>2, Zenon
  <2> HIDE DEF min, max, g, b
  <2>6. QED
    BY <2>1, <2>3, <2>4, <2>5
<1>2. v \in {"", "latest", "1.20"}
  BY DEF resolveGKEVersion, Requests
<1>3. QED
  BY <1>1, <1>2 DEF Requests

\* With its name and its project a request is one still.
LEMMA NamedType ==
  ASSUME NEW m \in Machines, NEW q \in Requests
  PROVE  /\ Named(m, q) \in Requests /\ Named(m, q).name \in Names
         /\ Named(m, q).region = q.region /\ Named(m, q).project = q.project
         /\ \A p \in Projects : [Named(m, q) EXCEPT !.project = p] \in Requests
<1>1. ResourceName[m] \in Names
  BY E2eAssumption
<1>2. QED
  BY <1>1, E2eAssumption DEF Named, Requests

-----------------------------------------------------------------------------
(* Invariants.                                                             *)

\* Where a command has a region, and a project and a name for its cluster.
Looping == {"look", "create", "wait", "got", "undo"}

\* Where it has a cluster.
Ending   == {"meta", "auth", "project"}
Deleting == {"recheck", "delete", "waitDelete", "release", "unset"}

\* A command has what its step needs.
ShapeOK(m) ==
    LET j == job[m] IN
    /\ j.pc \in {"boskos", "prepare"} => j.cmd = "create" /\ j.req.region \in Regions
    /\ j.pc \in Looping \cup {"boskos", "prepare"} => j.Cluster = None
    /\ j.pc \in Looping => /\ j.cmd = "create"
                           /\ j.Project \in Projects /\ j.req.name \in Names
                           /\ j.regions # <<>>
    /\ j.pc \in Ending => j.Cluster \in Clusters /\ j.Project = j.Cluster.project
                          /\ j.cmd \in {"create", "get"}
    /\ j.pc \in Deleting => j.Cluster \in Clusters /\ j.Project = j.Cluster.project
                            /\ j.cmd = "delete"
    /\ j.pc = "check" => j.cmd \in {"get", "delete"}
    /\ j.pc = "up" => j.req.name \in Names /\ j.regions # <<>>
    /\ j.pc = "save" => j.Cluster \in Clusters
    /\ j.pc \in {"up", "save"} => j.cmd = "kubetest2"
    /\ j.isBoskos => IsProw(m)
    /\ j.pc = "release" => j.isBoskos

\* The kubeconfig, the project of gcloud and metadata.json are written one after the
\* other, and none of them by any other step of the command.
EnvOK(m) ==
    LET j == job[m]
        e == env[m]
    IN  /\ j.pc \in {"auth", "project"} => (j.req.save => e.meta = j.Cluster)
        /\ j.pc = "project" => e.context = j.Cluster
        /\ j.pc = "idle" /\ j.ok /\ j.cmd \in {"create", "get"} =>
              /\ e.context = j.Cluster
              /\ e.project = j.Cluster.project
              /\ j.req.save => e.meta = j.Cluster

\* The first inductive invariant.
IInv == TypeOK /\ \A m \in Machines : ShapeOK(m) /\ EnvOK(m)

-----------------------------------------------------------------------------
(* What a step does to the command of a machine.                           *)

\* The command of m goes on, and nobody else's.
Other(m) == /\ job' \in [Machines -> Job]
            /\ \A n \in Machines : n # m => job'[n] = job[n]

\* It is still the same request, with the same project and the same clusters.
Same(m) == /\ Other(m)
           /\ job'[m].cmd = job[m].cmd
           /\ job'[m].req = job[m].req
           /\ job'[m].isBoskos = job[m].isBoskos
           /\ job'[m].Project = job[m].Project
           /\ job'[m].Cluster = job[m].Cluster
           /\ job'[m].made = job[m].made

Kept(m) == Same(m) /\ job'[m].undone = job[m].undone

Went(m, pc)  == Kept(m) /\ job'[m].pc = pc /\ job'[m].regions = job[m].regions
Ended(m, ok) == Kept(m) /\ job'[m].pc = "idle" /\ job'[m].ok = ok

\* The next round of the loop over the regions, or its end.
Next1(m)     == \/ job'[m].pc = "look" /\ job'[m].regions # <<>>
                \/ job'[m].pc = "idle" /\ ~job'[m].ok
NextRound(m) == Kept(m) /\ Next1(m)

\* An error during cluster creation.
Failed(m) == \/ IsProw(m) /\ NextRound(m)
             \/ ~IsProw(m) /\ Went(m, "undo")

\* The job of one machine is replaced.
LEMMA JobChanges ==
  ASSUME TypeOK, NEW m \in Machines, NEW j \in Job, job' = [job EXCEPT ![m] = j]
  PROVE  Other(m) /\ job'[m] = j
BY DEF TypeOK, Other

LEMMA GotoStep ==
  ASSUME TypeOK, NEW m \in Machines, NEW pc \in Pcs, Goto(m, pc)
  PROVE  Went(m, pc)
<1> DEFINE j == [job[m] EXCEPT !.pc = pc]
<1>1. job[m] \in Job
  BY DEF TypeOK
<1>2. j \in Job
  BY <1>1 DEF Job
<1>3. job' = [job EXCEPT ![m] = j]
  BY DEF Goto, TypeOK
<1> HIDE DEF j
<1>4. Other(m) /\ job'[m] = j
  BY <1>2, <1>3, JobChanges
<1>5. QED
  BY <1>1, <1>4 DEF j, Went, Kept, Same, Job

\* A poll that starts anew, and no regions.
LEMMA Zero == 0 \in 0..2 /\ <<>> \in Seq(Regions)
OBVIOUS

LEMMA EndType ==
  ASSUME NEW j \in Job, NEW ok \in BOOLEAN
  PROVE  End(j, ok) \in Job
BY Zero DEF End, Job, Pcs

LEMMA EndFields ==
  ASSUME NEW j \in Job, NEW ok \in BOOLEAN
  PROVE  /\ End(j, ok).cmd = j.cmd /\ End(j, ok).req = j.req
         /\ End(j, ok).isBoskos = j.isBoskos /\ End(j, ok).Project = j.Project
         /\ End(j, ok).Cluster = j.Cluster /\ End(j, ok).made = j.made
         /\ End(j, ok).undone = j.undone
         /\ End(j, ok).pc = "idle" /\ End(j, ok).ok = ok
BY DEF End, Job

LEMMA EndStep ==
  ASSUME TypeOK, NEW m \in Machines, NEW ok \in BOOLEAN,
         job' = [job EXCEPT ![m] = End(job[m], ok)]
  PROVE  Ended(m, ok)
<1>1. job[m] \in Job
  BY DEF TypeOK
<1>2. Other(m) /\ job'[m] = End(job[m], ok)
  BY <1>1, EndType, JobChanges
<1>3. QED
  BY <1>1, <1>2, EndFields DEF Ended, Kept, Same

LEMMA ExitStep ==
  ASSUME TypeOK, NEW m \in Machines, Exit(m)
  PROVE  Ended(m, FALSE)
BY EndStep DEF Exit

LEMMA SucceedStep ==
  ASSUME TypeOK, NEW m \in Machines, Succeed(m)
  PROVE  Ended(m, TRUE)
BY EndStep DEF Succeed

\* The rest of the regions, when there is more than one.
LEMMA TailType ==
  ASSUME NEW s \in Seq(Regions), s # <<>>, Len(s) # 1
  PROVE  Tail(s) \in Seq(Regions) /\ Tail(s) # <<>>
<1>1. Len(s) \in Nat \ {0}
  BY EmptySeq
<1>2. Tail(s) \in Seq(Regions) /\ Len(Tail(s)) = Len(s) - 1
  BY HeadTailProperties
<1>3. Len(Tail(s)) # 0
  BY <1>1, <1>2
<1>4. QED
  BY <1>2, <1>3, EmptySeq

LEMMA NextRegionStep ==
  ASSUME TypeOK, NEW m \in Machines, job[m].regions # <<>>, NextRegion(m)
  PROVE  NextRound(m)
<1>1. job[m] \in Job
  BY DEF TypeOK
<1>2. CASE Exit(m)
  BY <1>2, ExitStep DEF Ended, NextRound, Next1
<1>3. CASE Len(job[m].regions) # 1
  <2> DEFINE j == [job[m] EXCEPT !.pc = "look", !.r = 0, !.regions = Tail(job[m].regions)]
  <2>1. Tail(job[m].regions) \in Seq(Regions) /\ Tail(job[m].regions) # <<>>
    BY <1>1, <1>3, TailType DEF Job
  <2>2. j \in Job
    BY <1>1, <2>1, Zero DEF Job, Pcs
  <2>3. job' = [job EXCEPT ![m] = j]
    BY <1>3 DEF NextRegion
  <2> HIDE DEF j
  <2>4. Other(m) /\ job'[m] = j
    BY <2>2, <2>3, JobChanges
  <2>5. QED
    BY <1>1, <2>1, <2>4 DEF j, NextRound, Next1, Kept, Same, Job
<1>4. QED
  BY <1>2, <1>3 DEF NextRegion

LEMMA CreationErrorStep ==
  ASSUME TypeOK, NEW m \in Machines, job[m].regions # <<>>, CreationError(m)
  PROVE  Failed(m)
<1>1. job[m] \in Job
  BY DEF TypeOK
<1>2. CASE IsProw(m)
  BY <1>2, NextRegionStep DEF CreationError, Failed
<1>3. CASE ~IsProw(m)
  <2> DEFINE j == [job[m] EXCEPT !.pc = "undo", !.r = 0]
  <2>1. j \in Job
    BY <1>1, Zero DEF Job, Pcs
  <2>2. job' = [job EXCEPT ![m] = j]
    BY <1>3 DEF CreationError
  <2> HIDE DEF j
  <2>3. Other(m) /\ job'[m] = j
    BY <2>1, <2>2, JobChanges
  <2>4. QED
    BY <1>1, <1>3, <2>3 DEF j, Failed, Went, Kept, Same, Job
<1>5. QED
  BY <1>2, <1>3

\* What is asked of GKE in a round.
LEMMA TargetType ==
  ASSUME TypeOK, NEW m \in Machines, ShapeOK(m), job[m].pc \in Looping
  PROVE  /\ Target(m) \in Clusters
         /\ Target(m).project = job[m].Project
<1>1. /\ job[m].Project \in Projects /\ job[m].req.name \in Names
      /\ job[m].regions # <<>> /\ job[m].regions \in Seq(Regions)
      /\ job[m].req.zone \in {"", "a"}
  BY DEF TypeOK, ShapeOK, Job, Requests
<1>2. Head(job[m].regions) \in Regions
  BY <1>1, HeadTailProperties
<1>3. GetClusterLocation(Head(job[m].regions), job[m].req.zone) \in Locations
  BY <1>1, <1>2, LocationType
<1>4. QED
  BY <1>1, <1>3 DEF Target, Clusters

\* acquire has a cluster: Create writes metadata.json first, Delete checks again.
Found(m, c) == /\ Other(m)
               /\ job'[m].cmd = job[m].cmd
               /\ job'[m].req = job[m].req
               /\ job'[m].isBoskos = job[m].isBoskos
               /\ job'[m].made = job[m].made
               /\ job'[m].undone = job[m].undone
               /\ job'[m].Cluster = c
               /\ job'[m].Project = c.project
               /\ \/ job[m].pc = "recheck" /\ job'[m].pc = "delete"
                  \/ job[m].pc # "recheck" /\ job[m].cmd = "delete" /\ job'[m].pc = "recheck"
                  \/ job[m].pc # "recheck" /\ job[m].cmd # "delete" /\ job'[m].pc = "meta"
                  \/ /\ job[m].pc # "recheck" /\ job[m].cmd # "delete" /\ job'[m].pc = "auth"
                     /\ ~job[m].req.save

LEMMA AcquiredStep ==
  ASSUME TypeOK, NEW m \in Machines, NEW c \in Clusters, Acquired(m, c)
  PROVE  Found(m, c)
<1> DEFINE pc == IF job[m].pc = "recheck" THEN "delete"
                 ELSE IF job[m].cmd = "delete" THEN "recheck"
                 ELSE IF job[m].req.save THEN "meta" ELSE "auth"
           j == [job[m] EXCEPT !.Project = c.project, !.Cluster = c, !.r = 0, !.pc = pc]
<1>1. job[m] \in Job /\ c.project \in Projects
  BY DEF TypeOK, Clusters
<1>2. pc \in Pcs
  BY DEF Pcs
<1>3. job' = [job EXCEPT ![m] = j]
  BY DEF Acquired
<1> HIDE DEF pc
<1>4. j \in Job
  BY <1>1, <1>2, Zero DEF Job
<1>5. /\ j.cmd = job[m].cmd /\ j.req = job[m].req /\ j.isBoskos = job[m].isBoskos
      /\ j.made = job[m].made /\ j.undone = job[m].undone
      /\ j.Cluster = c /\ j.Project = c.project /\ j.pc = pc
  BY <1>1 DEF Job
<1> HIDE DEF j
<1>6. Other(m) /\ job'[m] = j
  BY <1>3, <1>4, JobChanges
<1>7. QED
  BY <1>5, <1>6 DEF Found, pc

-----------------------------------------------------------------------------
(* The steps that change nothing but the command of the machine.           *)

still == <<boskos, gke, creator, env>>

\* log.Fatal, outside of the loop over the regions.
GivesUp(m) == job[m].pc \notin Looping \cup {"unset"} /\ Ended(m, FALSE)

\* A call of this round fails.
Tries(m) == job[m].pc \in {"create", "wait", "got"} /\ Failed(m)

Advances(m) == \/ job[m].pc = "look" /\ Went(m, "create")
               \/ job[m].pc = "wait" /\ (Went(m, "wait") \/ Went(m, "got"))
               \/ job[m].pc = "waitDelete" /\ (Went(m, "waitDelete") \/ Went(m, "unset"))

\* There is a cluster: that of the round, or that of the context.
Finds(m) == \E c \in Clusters :
                /\ Found(m, c)
                /\ \/ job[m].pc \in {"look", "got"} /\ c = Target(m) /\ gke[c] # "none"
                   \/ /\ job[m].pc \in {"check", "recheck"} /\ c = env[m].context
                      /\ job[m].req.project \in {"", c.project}

\* The loop over the regions begins.
Begins(m) == /\ Other(m)
             /\ job[m].pc = "prepare" /\ job'[m].pc = "look"
             /\ job'[m].cmd = job[m].cmd
             /\ job'[m].isBoskos = job[m].isBoskos
             /\ job'[m].Project = job[m].Project /\ job[m].Project \in Projects
             /\ job'[m].Cluster = job[m].Cluster
             /\ job'[m].made = job[m].made
             /\ job'[m].undone = job[m].undone
             /\ job'[m].req.name \in Names
             /\ job'[m].regions # <<>>

Quiet(m) == /\ UNCHANGED still
            /\ GivesUp(m) \/ Tries(m) \/ Advances(m) \/ Finds(m) \/ Begins(m)

\* The defaults are complete, so the loop has a list of regions.
LEMMA PrepareStep ==
  ASSUME IInv, NEW m \in Machines, Prepare(m)
  PROVE  GivesUp(m) \/ Begins(m)
<1> DEFINE r == Named(m, job[m].req)
           j == [job[m] EXCEPT !.pc = "look", !.regions = RegionsOf(r),
                               !.req = [r EXCEPT !.project = job[m].Project]]
<1>1. /\ TypeOK /\ job[m] \in Job /\ job[m].req \in Requests /\ job[m].pc = "prepare"
      /\ job[m].req.region \in Regions /\ job[m].Project \in Projects \cup {""}
  BY DEF IInv, TypeOK, ShapeOK, Prepare, Job
<1>2. CASE Exit(m)
  BY <1>1, <1>2, ExitStep DEF GivesUp, Looping
<1>3. CASE job[m].Project # "" /\ job' = [job EXCEPT ![m] = j]
  <2>1. job[m].Project \in Projects
    BY <1>1, <1>3
  <2>2. /\ r \in Requests /\ r.name \in Names /\ r.region \in Regions
        /\ [r EXCEPT !.project = job[m].Project] \in Requests
    BY <1>1, <2>1, NamedType
  <2>3. [r EXCEPT !.project = job[m].Project].name = r.name
    BY <2>2 DEF Requests
  <2>4. r.backup \in Seq(Regions)
    BY <2>2 DEF Requests
  <2>5. RegionsOf(r) \in Seq(Regions) /\ RegionsOf(r) # <<>>
    BY <2>2, <2>4, RegionsOfType
  <2> HIDE DEF r
  <2>6. j \in Job
    BY <1>1, <2>2, <2>5 DEF Job, Pcs
  <2>7. /\ j.cmd = job[m].cmd /\ j.isBoskos = job[m].isBoskos /\ j.pc = "look"
        /\ j.made = job[m].made /\ j.undone = job[m].undone /\ j.regions # <<>>
        /\ j.Cluster = job[m].Cluster /\ j.Project = job[m].Project /\ j.req.name \in Names
    BY <1>1, <2>2, <2>3, <2>5 DEF Job
  <2> HIDE DEF j
  <2>8. Other(m) /\ job'[m] = j
    BY <1>1, <1>3, <2>6, JobChanges
  <2>9. QED
    BY <1>1, <2>1, <2>7, <2>8 DEF Begins
<1>4. QED
  BY <1>2, <1>3, Zenon DEF Prepare

\* WaitReturns: the round goes on or fails, or so does the deletion.
LEMMA WaitReturnsStep ==
  ASSUME IInv, NEW m \in Machines, NEW e \in BOOLEAN, Waiting(m), WaitReturns(m, e)
  PROVE  GivesUp(m) \/ Tries(m) \/ Advances(m)
<1>1. TypeOK /\ job[m] \in Job
  BY DEF IInv, TypeOK
<1>2. CASE e
  <2>1. CASE job[m].pc = "wait"
    <3>1. job[m].regions # <<>>
      BY <2>1 DEF IInv, ShapeOK, Looping
    <3>2. QED
      BY <1>1, <1>2, <2>1, <3>1, CreationErrorStep DEF WaitReturns, Tries
  <2>2. CASE job[m].pc # "wait"
    BY <1>1, <1>2, <2>2, ExitStep DEF WaitReturns, Waiting, GivesUp, Looping
  <2>3. QED
    BY <2>1, <2>2
<1>3. CASE ~e
  <2> DEFINE pc == IF job[m].pc = "wait" THEN "got" ELSE "unset"
             j == [job[m] EXCEPT !.pc = pc, !.r = 0]
  <2>1. job' = [job EXCEPT ![m] = j]
    BY <1>3 DEF WaitReturns
  <2>2. j \in Job
    BY <1>1, Zero DEF Job, Pcs
  <2>3. /\ j.cmd = job[m].cmd /\ j.isBoskos = job[m].isBoskos /\ j.pc = pc
        /\ j.made = job[m].made /\ j.undone = job[m].undone /\ j.regions = job[m].regions
        /\ j.Cluster = job[m].Cluster /\ j.Project = job[m].Project /\ j.req = job[m].req
    BY <1>1 DEF Job
  <2> HIDE DEF j
  <2>4. Other(m) /\ job'[m] = j
    BY <1>1, <2>1, <2>2, JobChanges
  <2>5. Went(m, pc)
    BY <2>3, <2>4 DEF Went, Kept, Same
  <2>6. QED
    BY <2>5 DEF Advances, Waiting
<1>4. QED
  BY <1>2, <1>3

\* Only the attempts are counted.
LEMMA PollsOn ==
  ASSUME IInv, NEW m \in Machines, Waiting(m), NEW r \in 0..2,
         job' = [job EXCEPT ![m].r = r]
  PROVE  Advances(m)
<1> DEFINE j == [job[m] EXCEPT !.r = r]
<1>1. TypeOK /\ job[m] \in Job
  BY DEF IInv, TypeOK
<1>2. j \in Job
  BY <1>1 DEF Job
<1>3. job' = [job EXCEPT ![m] = j]
  BY <1>1 DEF TypeOK
<1>4. /\ j.cmd = job[m].cmd /\ j.isBoskos = job[m].isBoskos /\ j.pc = job[m].pc
      /\ j.made = job[m].made /\ j.undone = job[m].undone /\ j.regions = job[m].regions
      /\ j.Cluster = job[m].Cluster /\ j.Project = job[m].Project /\ j.req = job[m].req
  BY <1>1 DEF Job
<1> HIDE DEF j
<1>5. Other(m) /\ job'[m] = j
  BY <1>1, <1>2, <1>3, JobChanges
<1>6. Went(m, job[m].pc)
  BY <1>4, <1>5 DEF Went, Kept, Same
<1>7. QED
  BY <1>6 DEF Advances, Waiting

LEMMA PollStep ==
  ASSUME IInv, NEW m \in Machines, Poll(m) \/ PollFails(m) \/ Timeout(m)
  PROVE  GivesUp(m) \/ Tries(m) \/ Advances(m)
<1>1. CASE Poll(m)
  BY <1>1, Zero, WaitReturnsStep, PollsOn DEF Poll
<1>2. CASE PollFails(m)
  <2>1. Waiting(m)
    BY <1>2 DEF PollFails
  <2>2. CASE WaitReturns(m, TRUE)
    BY <2>1, <2>2, WaitReturnsStep
  <2>3. CASE job[m].r < 2 /\ job' = [job EXCEPT ![m].r = job[m].r + 1]
    <3>1. job[m].r \in 0..2
      BY DEF IInv, TypeOK, Job
    <3>2. job[m].r + 1 \in 0..2
      BY <2>3, <3>1
    <3>3. QED
      BY <2>1, <2>3, <3>2, PollsOn
  <2>4. QED
    BY <1>2, <2>2, <2>3 DEF PollFails
<1>3. CASE Timeout(m)
  BY <1>3, WaitReturnsStep DEF Timeout
<1>4. QED
  BY <1>1, <1>2, <1>3

\* checkEnvironment finds the cluster of the context.
LEMMA CheckStep ==
  ASSUME IInv, NEW m \in Machines, CheckEnvironment(m)
  PROVE  Finds(m)
<1> DEFINE c == env[m].context
           l == RegionZoneFromLoc(c.location)
<1>1. /\ TypeOK /\ c \in Clusters /\ job[m].pc \in {"check", "recheck"}
      /\ job[m].req.project \in {"", c.project}
  BY DEF IInv, CheckEnvironment, Usable
<1>2. GetClusterLocation(l.region, l.zone) = c.location
  BY <1>1, LocationAgain DEF Clusters
<1>3. [c EXCEPT !.location = GetClusterLocation(l.region, l.zone)] = c
  BY <1>1, <1>2 DEF Clusters
<1>4. Acquired(m, c)
  BY <1>3 DEF CheckEnvironment
<1>5. Found(m, c)
  BY <1>1, <1>4, AcquiredStep
<1>6. QED
  BY <1>1, <1>5 DEF Finds

\* GetCluster finds the cluster of the round, or not.
LEMMA LookStep ==
  ASSUME IInv, NEW m \in Machines, Look(m) \/ GetCreated(m)
  PROVE  Tries(m) \/ Advances(m) \/ Finds(m)
<1>1. TypeOK /\ ShapeOK(m) /\ job[m].pc \in {"look", "got"} /\ job[m].pc \in Looping
  BY DEF IInv, Look, GetCreated, Looping
<1>2. Target(m) \in Clusters /\ job[m].regions # <<>>
  BY <1>1, TargetType DEF ShapeOK
<1>3. CASE gke[Target(m)] # "none" /\ Acquired(m, Target(m))
  BY <1>1, <1>2, <1>3, AcquiredStep DEF Finds
<1>4. CASE job[m].pc = "look" /\ Goto(m, "create")
  BY <1>1, <1>4, GotoStep DEF Advances, Pcs
<1>5. CASE job[m].pc = "got" /\ CreationError(m)
  BY <1>1, <1>2, <1>5, CreationErrorStep DEF Tries
<1>6. QED
  BY <1>3, <1>4, <1>5 DEF Look, GetCreated

LEMMA QuietStep ==
  ASSUME IInv, NEW m \in Machines,
         \/ AcquireProjectFails(m) \/ Prepare(m) \/ PrepareFails(m)
         \/ Look(m) \/ CreateClusterFails(m) \/ Poll(m) \/ PollFails(m) \/ Timeout(m)
         \/ GetCreated(m) \/ SetMetaFails(m) \/ GcloudFails(m)
         \/ CheckEnvironment(m) \/ CheckEnvironmentFails(m)
         \/ DeleteClusterFails(m) \/ ReleaseProjectFails(m)
  PROVE  Quiet(m)
<1>1. TypeOK
  BY DEF IInv
<1>2. UNCHANGED still
  BY DEF AcquireProjectFails, Prepare, PrepareFails, Look, CreateClusterFails, Poll,
         PollFails, Timeout, GetCreated, SetMetaFails, GcloudFails, CheckEnvironment,
         CheckEnvironmentFails, DeleteClusterFails, ReleaseProjectFails, cloud, still
<1>3. CASE CreateClusterFails(m)
  <2>1. job[m].regions # <<>> /\ job[m].pc = "create" /\ CreationError(m)
    BY <1>3 DEF CreateClusterFails, IInv, ShapeOK, Looping
  <2>2. QED
    BY <1>1, <1>2, <2>1, CreationErrorStep DEF Tries, Quiet
<1>4. CASE \/ AcquireProjectFails(m) \/ PrepareFails(m) \/ SetMetaFails(m) \/ GcloudFails(m)
           \/ CheckEnvironmentFails(m) \/ DeleteClusterFails(m) \/ ReleaseProjectFails(m)
  <2>1. Exit(m) /\ job[m].pc \notin Looping \cup {"unset"}
    BY <1>4 DEF Looping, AcquireProjectFails, PrepareFails, SetMetaFails, GcloudFails,
                CheckEnvironmentFails, DeleteClusterFails, ReleaseProjectFails
  <2>2. QED
    BY <1>1, <1>2, <2>1, ExitStep DEF GivesUp, Quiet
<1>5. QED
  BY <1>2, <1>3, <1>4, PrepareStep, LookStep, PollStep, CheckStep DEF Quiet

-----------------------------------------------------------------------------
(* The other steps.                                                        *)

\* What stays on the machines of others is unchanged, and a pod stays a pod.
Apart(m) == /\ env' \in [Machines -> Env]
            /\ \A n \in Machines : n # m => env'[n] = env[n]
            /\ IsProw(m)' = IsProw(m)

\* The parts of the types that are shared.
CloudType ==
    /\ boskos \in [Pool -> [state : {"free", "busy", "dirty"}, owner : Owners,
                            holder : Machines \cup {None}]]
    /\ gke \in [Clusters -> Statuses]
    /\ creator \in [Clusters -> Machines \cup {None}]

\* It is enough to look at the machine whose command goes on.
LEMMA OneMachine ==
  ASSUME IInv, NEW m \in Machines, Other(m), Apart(m), CloudType',
         (ShapeOK(m) /\ EnvOK(m))'
  PROVE  IInv'
<1>1. TypeOK'
  BY DEF IInv, TypeOK, CloudType, Other, Apart
<1>2. ASSUME NEW n \in Machines, n # m
      PROVE  (ShapeOK(n) /\ EnvOK(n))'
  <2>1. job'[n] = job[n] /\ env'[n] = env[n] /\ ShapeOK(n) /\ EnvOK(n)
    BY <1>2 DEF IInv, Other, Apart
  <2>2. QED
    BY <2>1 DEF ShapeOK, EnvOK, IsProw
<1>3. QED
  BY <1>1, <1>2 DEF IInv

LEMMA EnvSame ==
  ASSUME IInv, NEW m \in Machines, UNCHANGED env
  PROVE  Apart(m)
BY DEF IInv, TypeOK, Apart, IsProw

LEMMA EnvChanges ==
  ASSUME IInv, NEW m \in Machines, NEW e \in Env, e.prow = env[m].prow,
         env' = [env EXCEPT ![m] = e]
  PROVE  Apart(m) /\ env'[m] = e
BY DEF IInv, TypeOK, Apart, IsProw

LEMMA CloudSame ==
  ASSUME IInv, UNCHANGED cloud
  PROVE  CloudType'
BY DEF IInv, TypeOK, CloudType, cloud

\* What the command of m is, before a step.
LEMMA JobType ==
  ASSUME IInv, NEW m \in Machines
  PROVE  /\ TypeOK /\ ShapeOK(m) /\ EnvOK(m) /\ job[m] \in Job /\ env[m] \in Env
         /\ job[m].pc \in Pcs /\ job[m].Project \in Projects \cup {""}
         /\ job[m].regions \in Seq(Regions) /\ job[m].req \in Requests
         /\ job[m].made \in SUBSET Clusters
BY DEF IInv, TypeOK, Job

LEMMA IQuiet ==
  ASSUME IInv, NEW m \in Machines, Quiet(m)
  PROVE  IInv'
<1>1. Apart(m) /\ CloudType'
  BY EnvSame, CloudSame DEF Quiet, still, cloud
<1>2. env' = env /\ ShapeOK(m) /\ EnvOK(m)
  BY DEF Quiet, still, IInv
<1>3. CASE GivesUp(m)
  BY <1>1, <1>2, <1>3, OneMachine
     DEF GivesUp, Ended, Kept, Same, ShapeOK, EnvOK, Looping, Ending, Deleting, IsProw
<1>4. CASE Tries(m)
  <2>1. Other(m) /\ (ShapeOK(m) /\ EnvOK(m))'
    BY <1>2, <1>4 DEF Tries, Failed, NextRound, Next1, Went, Kept, Same, ShapeOK, EnvOK,
                      Looping, Ending, Deleting, IsProw
  <2>2. QED
    BY <1>1, <2>1, OneMachine
<1>5. CASE Advances(m)
  <2>1. Other(m) /\ (ShapeOK(m) /\ EnvOK(m))'
    BY <1>2, <1>5 DEF Advances, Went, Kept, Same, ShapeOK, EnvOK,
                      Looping, Ending, Deleting, IsProw
  <2>2. QED
    BY <1>1, <2>1, OneMachine
<1>6. CASE Finds(m)
  <2>1. PICK c \in Clusters :
          /\ Found(m, c)
          /\ job[m].pc \in {"look", "got", "check", "recheck"}
    BY <1>6 DEF Finds
  <2>2. (ShapeOK(m) /\ EnvOK(m))'
    BY <1>2, <2>1 DEF Found, ShapeOK, EnvOK, Looping, Ending, Deleting, IsProw
  <2>3. QED
    BY <1>1, <2>1, <2>2, OneMachine DEF Found
<1>7. CASE Begins(m)
  <2>1. Other(m) /\ (ShapeOK(m) /\ EnvOK(m))'
    BY <1>2, <1>7 DEF Begins, ShapeOK, EnvOK, Looping, Ending, Deleting, IsProw
  <2>2. QED
    BY <1>1, <2>1, OneMachine
<1>8. QED
  BY <1>3, <1>4, <1>5, <1>6, <1>7 DEF Quiet

\* AcquireProject: the project is from Boskos.
LEMMA AcquireStep ==
  ASSUME IInv, NEW m \in Machines, AcquireProject(m)
  PROVE  /\ Other(m) /\ job[m].pc = "boskos" /\ job'[m].pc = "prepare"
         /\ job'[m].cmd = job[m].cmd /\ job'[m].req = job[m].req
         /\ job'[m].isBoskos = job[m].isBoskos
         /\ job'[m].Cluster = job[m].Cluster /\ job'[m].made = job[m].made
         /\ job'[m].undone = job[m].undone
         /\ job'[m].Project \in Pool
         /\ boskos[job'[m].Project].state = "free"
         /\ boskos' = [boskos EXCEPT ![job'[m].Project] =
                         [state |-> "busy", owner |-> JobName[m], holder |-> m]]
<1>1. PICK p \in Pool :
          /\ boskos[p].state = "free"
          /\ boskos' = [boskos EXCEPT ![p] =
                          [state |-> "busy", owner |-> JobName[m], holder |-> m]]
          /\ job' = [job EXCEPT ![m].pc = "prepare", ![m].Project = p]
  BY DEF AcquireProject
<1> DEFINE j == [job[m] EXCEPT !.pc = "prepare", !.Project = p]
<1>2. TypeOK /\ job[m] \in Job /\ p \in Projects
  BY JobType, E2eAssumption
<1>3. j \in Job
  BY <1>2 DEF Job, Pcs
<1>4. job' = [job EXCEPT ![m] = j]
  BY <1>1, <1>2 DEF TypeOK
<1>5. /\ j.cmd = job[m].cmd /\ j.req = job[m].req /\ j.isBoskos = job[m].isBoskos
      /\ j.Cluster = job[m].Cluster /\ j.made = job[m].made /\ j.undone = job[m].undone
      /\ j.pc = "prepare" /\ j.Project = p
  BY <1>2 DEF Job
<1> HIDE DEF j
<1>6. Other(m) /\ job'[m] = j
  BY <1>2, <1>3, <1>4, JobChanges
<1>7. QED
  BY <1>1, <1>5, <1>6 DEF AcquireProject

\* A project becomes busy, dirty or free.
LEMMA BoskosType ==
  ASSUME IInv, NEW p, NEW m \in Machines \cup {None}, NEW s \in {"free", "busy", "dirty"},
         NEW o \in Owners,
         boskos' = [boskos EXCEPT ![p] = [state |-> s, owner |-> o, holder |-> m]]
  PROVE  boskos' \in [Pool -> [state : {"free", "busy", "dirty"}, owner : Owners,
                               holder : Machines \cup {None}]]
BY DEF IInv, TypeOK

LEMMA NameType == ASSUME NEW m \in Machines PROVE JobName[m] \in Owners
BY DEF Owners

LEMMA IAcquireProject ==
  ASSUME IInv, NEW m \in Machines, AcquireProject(m)
  PROVE  IInv'
<1>1. Apart(m) /\ UNCHANGED <<gke, creator, env>>
  BY EnvSame DEF AcquireProject
<1>2. boskos' \in [Pool -> [state : {"free", "busy", "dirty"}, owner : Owners,
                            holder : Machines \cup {None}]]
  <2>1. PICK p : boskos' = [boskos EXCEPT ![p] =
                              [state |-> "busy", owner |-> JobName[m], holder |-> m]]
    BY AcquireStep
  <2>2. QED
    BY <2>1, NameType DEF IInv, TypeOK
<1>3. CloudType'
  BY <1>1, <1>2 DEF CloudType, IInv, TypeOK
<1>4. ShapeOK(m) /\ EnvOK(m)
  BY JobType
<1>5. (ShapeOK(m) /\ EnvOK(m))'
  BY <1>1, <1>4, AcquireStep DEF ShapeOK, EnvOK, Looping, Ending, Deleting, IsProw
<1>6. QED
  BY <1>1, <1>3, <1>5, AcquireStep, OneMachine

\* CreateCluster: GKE creates the cluster of the round.
LEMMA CreateStep ==
  ASSUME IInv, NEW m \in Machines, CreateCluster(m)
  PROVE  /\ Other(m) /\ job[m].pc = "create" /\ job'[m].pc = "wait"
         /\ job'[m].cmd = job[m].cmd /\ job'[m].req = job[m].req
         /\ job'[m].isBoskos = job[m].isBoskos /\ job'[m].Project = job[m].Project
         /\ job'[m].Cluster = job[m].Cluster /\ job'[m].undone = job[m].undone
         /\ job'[m].regions = job[m].regions
         /\ job'[m].made = job[m].made \cup {Target(m)}
         /\ Target(m) \in Clusters /\ Target(m).project = job[m].Project
         /\ gke[Target(m)] = "none"
         /\ gke' = [gke EXCEPT ![Target(m)] = "PROVISIONING"]
         /\ creator' = [creator EXCEPT ![Target(m)] = m]
<1> DEFINE j == [job[m] EXCEPT !.pc = "wait", !.made = job[m].made \cup {Target(m)}]
<1>1. TypeOK /\ job[m] \in Job /\ ShapeOK(m) /\ job[m].pc = "create"
  BY JobType DEF CreateCluster
<1>2. Target(m) \in Clusters /\ Target(m).project = job[m].Project
  BY <1>1, TargetType DEF Looping
<1>3. j \in Job
  BY <1>1, <1>2 DEF Job, Pcs
<1>4. job' = [job EXCEPT ![m] = j]
  BY DEF CreateCluster
<1>5. /\ j.cmd = job[m].cmd /\ j.req = job[m].req /\ j.isBoskos = job[m].isBoskos
      /\ j.Cluster = job[m].Cluster /\ j.undone = job[m].undone
      /\ j.Project = job[m].Project /\ j.regions = job[m].regions
      /\ j.pc = "wait" /\ j.made = job[m].made \cup {Target(m)}
  BY <1>1 DEF Job
<1> HIDE DEF j
<1>6. Other(m) /\ job'[m] = j
  BY <1>1, <1>3, <1>4, JobChanges
<1>7. QED
  BY <1>1, <1>2, <1>5, <1>6 DEF CreateCluster

LEMMA ICreateCluster ==
  ASSUME IInv, NEW m \in Machines, CreateCluster(m)
  PROVE  IInv'
<1>1. Apart(m) /\ UNCHANGED <<boskos, env>>
  BY EnvSame DEF CreateCluster
<1>2. CloudType'
  BY <1>1, CreateStep DEF CloudType, IInv, TypeOK, Statuses
<1>3. ShapeOK(m) /\ EnvOK(m)
  BY JobType
<1>4. (ShapeOK(m) /\ EnvOK(m))'
  BY <1>1, <1>3, CreateStep DEF ShapeOK, EnvOK, Looping, Ending, Deleting, IsProw
<1>5. QED
  BY <1>1, <1>2, <1>4, CreateStep, OneMachine

\* GKE takes a deletion.
LEMMA DeleteType ==
  ASSUME IInv, NEW c \in Clusters, Delete(c), UNCHANGED <<boskos, creator>>
  PROVE  CloudType'
BY DEF IInv, TypeOK, CloudType, Delete, Statuses

\* What was half created is being deleted, and the next round begins.
LEMMA UndoStep ==
  ASSUME IInv, NEW m \in Machines, Undo(m)
  PROVE  /\ NextRound(m) /\ job[m].pc = "undo"
         /\ Target(m) \in Clusters
         /\ gke' = [gke EXCEPT ![Target(m)] = "STOPPING"]
         /\ UNCHANGED <<boskos, creator, env>>
<1>1. TypeOK /\ ShapeOK(m) /\ job[m].pc = "undo" /\ job[m].pc \in Looping
  BY JobType DEF Undo, Looping
<1>2. job[m].regions # <<>>
  BY <1>1 DEF ShapeOK
<1>3. QED
  BY <1>1, <1>2, TargetType, NextRegionStep DEF Undo, Delete

\* Or it is not deleted.
LEMMA UndoFailsStep ==
  ASSUME IInv, NEW m \in Machines, UndoFails(m)
  PROVE  /\ Same(m) /\ Next1(m) /\ job[m].pc = "undo"
         /\ job'[m].undone => job[m].undone /\ ~Deletable(Target(m))
         /\ UNCHANGED still
<1> DEFINE j == [job[m] EXCEPT !.undone = job[m].undone /\ ~Deletable(Target(m))]
           k == [j EXCEPT !.pc = "look", !.regions = Tail(j.regions)]
<1>1. /\ TypeOK /\ ShapeOK(m) /\ job[m].pc = "undo" /\ job[m].regions # <<>>
      /\ job[m] \in Job
  BY JobType DEF UndoFails, ShapeOK, Looping
<1>2. (job[m].undone /\ ~Deletable(Target(m))) \in BOOLEAN
  OBVIOUS
<1>3. j \in Job
  BY <1>1, <1>2 DEF Job
<1>4. /\ j.cmd = job[m].cmd /\ j.req = job[m].req /\ j.isBoskos = job[m].isBoskos
      /\ j.Cluster = job[m].Cluster /\ j.made = job[m].made
      /\ j.Project = job[m].Project /\ j.regions = job[m].regions
  BY <1>1 DEF Job
<1>5. j.undone <=> job[m].undone /\ ~Deletable(Target(m))
  BY <1>1 DEF Job
<1>6. UNCHANGED still /\ job' = [job EXCEPT ![m] = IF Len(j.regions) = 1
                                                    THEN End(j, FALSE) ELSE k]
  BY DEF UndoFails, cloud, still
<1> HIDE DEF j
<1>7. CASE Len(j.regions) = 1
  <2>1. Other(m) /\ job'[m] = End(j, FALSE)
    BY <1>1, <1>3, <1>6, <1>7, EndType, JobChanges
  <2> DEFINE e == End(j, FALSE)
  <2>2. /\ e.cmd = j.cmd /\ e.req = j.req /\ e.isBoskos = j.isBoskos
        /\ e.Cluster = j.Cluster /\ e.made = j.made /\ e.Project = j.Project
        /\ e.undone = j.undone /\ e.pc = "idle" /\ e.ok = FALSE
    BY <1>3, EndFields
  <2> HIDE DEF e
  <2>3. Same(m) /\ Next1(m)
    BY <1>4, <2>1, <2>2 DEF e, Same, Next1
  <2>4. QED
    BY <1>1, <1>5, <1>6, <2>1, <2>2, <2>3 DEF e
<1>8. CASE Len(j.regions) # 1
  <2>1. Tail(j.regions) \in Seq(Regions) /\ Tail(j.regions) # <<>>
    BY <1>1, <1>3, <1>4, <1>8, TailType DEF Job
  <2>2. k \in Job
    BY <1>3, <2>1 DEF Job, Pcs
  <2>3. /\ k.cmd = j.cmd /\ k.req = j.req /\ k.isBoskos = j.isBoskos
        /\ k.Cluster = j.Cluster /\ k.made = j.made /\ k.Project = j.Project
        /\ k.undone = j.undone /\ k.pc = "look" /\ k.regions # <<>>
    BY <1>3, <2>1 DEF Job
  <2> HIDE DEF k
  <2>4. Other(m) /\ job'[m] = k
    BY <1>1, <1>6, <1>8, <2>2, JobChanges
  <2>5. QED
    BY <1>1, <1>4, <1>5, <1>6, <2>3, <2>4 DEF Same, Next1
<1>9. QED
  BY <1>7, <1>8

LEMMA IUndo ==
  ASSUME IInv, NEW m \in Machines, Undo(m) \/ UndoFails(m)
  PROVE  IInv'
<1>1. Apart(m) /\ CloudType' /\ UNCHANGED env
  <2>1. CASE Undo(m)
    BY <2>1, UndoStep, EnvSame, DeleteType DEF Delete
  <2>2. CASE UndoFails(m)
    BY <2>2, UndoFailsStep, EnvSame, CloudSame DEF still, cloud
  <2>3. QED
    BY <2>1, <2>2
<1>2. ShapeOK(m) /\ EnvOK(m) /\ job[m].pc = "undo" /\ Same(m) /\ Next1(m)
  BY JobType, UndoStep, UndoFailsStep DEF NextRound, Kept
<1>3. (ShapeOK(m) /\ EnvOK(m))'
  BY <1>1, <1>2 DEF Same, Next1, ShapeOK, EnvOK, Looping, Ending, Deleting, IsProw
<1>4. QED
  BY <1>1, <1>2, <1>3, OneMachine DEF Same

\* metadata.json is written, key by key.
LEMMA SetMetaStep ==
  ASSUME IInv, NEW m \in Machines, SetMeta(m)
  PROVE  /\ Apart(m) /\ UNCHANGED cloud
         /\ job[m].pc = "meta"
         /\ env'[m].context = env[m].context /\ env'[m].project = env[m].project
         /\ \/ Went(m, "meta")
            \/ Went(m, "auth") /\ env'[m].meta = job[m].Cluster
<1>1. /\ TypeOK /\ ShapeOK(m) /\ env[m] \in Env /\ job[m].pc = "meta"
      /\ job[m].Cluster \in Clusters /\ UNCHANGED cloud
  BY JobType DEF SetMeta, ShapeOK, Ending
<1>2. ASSUME NEW c \in Clusters \cup {None}, env' = [env EXCEPT ![m].meta = c]
      PROVE  /\ Apart(m) /\ env'[m].meta = c
             /\ env'[m].context = env[m].context /\ env'[m].project = env[m].project
  <2> DEFINE e == [env[m] EXCEPT !.meta = c]
  <2>1. e \in Env /\ e.prow = env[m].prow /\ e.meta = c
        /\ e.context = env[m].context /\ e.project = env[m].project
    BY <1>1 DEF Env
  <2>2. env' = [env EXCEPT ![m] = e]
    BY <1>1, <1>2 DEF TypeOK
  <2> HIDE DEF e
  <2>3. QED
    BY <2>1, <2>2, EnvChanges
<1>3. CASE env' = [env EXCEPT ![m].meta = None] /\ UNCHANGED job
  <2>1. Went(m, "meta")
    BY <1>1, <1>3 DEF TypeOK, Went, Kept, Same, Other
  <2>2. QED
    BY <1>1, <1>2, <1>3, <2>1
<1>4. CASE env' = [env EXCEPT ![m].meta = job[m].Cluster] /\ Goto(m, "auth")
  <2>1. Went(m, "auth")
    BY <1>1, <1>4, GotoStep DEF Pcs
  <2>2. QED
    BY <1>1, <1>2, <1>4, <2>1
<1>5. QED
  BY <1>3, <1>4 DEF SetMeta

LEMMA ISetMeta ==
  ASSUME IInv, NEW m \in Machines, SetMeta(m)
  PROVE  IInv'
<1>1. ShapeOK(m) /\ EnvOK(m)
  BY JobType
<1>2. Other(m) /\ (ShapeOK(m) /\ EnvOK(m))'
  BY <1>1, SetMetaStep DEF Went, Kept, Same, ShapeOK, EnvOK, Looping, Ending, Deleting,
                           IsProw, Apart
<1>3. QED
  BY <1>2, SetMetaStep, CloudSame, OneMachine

\* The context becomes that of the cluster.
LEMMA GetCredentialsStep ==
  ASSUME IInv, NEW m \in Machines, GetCredentials(m)
  PROVE  /\ Apart(m) /\ UNCHANGED cloud
         /\ job[m].pc = "auth" /\ Went(m, "project")
         /\ job[m].Cluster \in Clusters
         /\ env'[m].context = job[m].Cluster
         /\ env'[m].meta = env[m].meta /\ env'[m].project = env[m].project
<1> DEFINE e == [env[m] EXCEPT !.context = job[m].Cluster]
<1>1. TypeOK /\ ShapeOK(m) /\ env[m] \in Env /\ job[m].pc = "auth"
      /\ job[m].Cluster \in Clusters
  BY JobType DEF GetCredentials, ShapeOK, Ending
<1>2. e \in Env /\ e.prow = env[m].prow /\ e.meta = env[m].meta
      /\ e.context = job[m].Cluster /\ e.project = env[m].project
  BY <1>1 DEF Env
<1>3. env' = [env EXCEPT ![m] = e]
  BY <1>1 DEF TypeOK, GetCredentials
<1> HIDE DEF e
<1>4. Apart(m) /\ env'[m] = e
  BY <1>2, <1>3, EnvChanges
<1>5. Went(m, "project")
  BY <1>1, GotoStep DEF GetCredentials, Pcs
<1>6. QED
  BY <1>1, <1>2, <1>4, <1>5 DEF GetCredentials

\* And the project of gcloud its project.
LEMMA SetProjectStep ==
  ASSUME IInv, NEW m \in Machines, SetProject(m)
  PROVE  /\ Apart(m) /\ UNCHANGED cloud
         /\ job[m].pc = "project" /\ Ended(m, TRUE)
         /\ env'[m].project = job[m].Project
         /\ env'[m].meta = env[m].meta /\ env'[m].context = env[m].context
<1> DEFINE e == [env[m] EXCEPT !.project = job[m].Project]
<1>1. TypeOK /\ env[m] \in Env /\ job[m].Project \in Projects \cup {""}
  BY JobType
<1>2. e \in Env /\ e.prow = env[m].prow /\ e.meta = env[m].meta
      /\ e.project = job[m].Project /\ e.context = env[m].context
  BY <1>1 DEF Env
<1>3. env' = [env EXCEPT ![m] = e]
  BY <1>1 DEF TypeOK, SetProject
<1> HIDE DEF e
<1>4. Apart(m) /\ env'[m] = e
  BY <1>2, <1>3, EnvChanges
<1>5. QED
  BY <1>1, <1>2, <1>4, SucceedStep DEF SetProject

LEMMA ISetProject ==
  ASSUME IInv, NEW m \in Machines, GetCredentials(m) \/ SetProject(m)
  PROVE  IInv'
<1>1. ShapeOK(m) /\ EnvOK(m)
  BY JobType
<1>2. CASE GetCredentials(m)
  <2>1. Other(m) /\ (ShapeOK(m) /\ EnvOK(m))'
    BY <1>1, <1>2, GetCredentialsStep
       DEF Went, Kept, Same, ShapeOK, EnvOK, Looping, Ending, Deleting, IsProw, Apart
  <2>2. QED
    BY <1>2, <2>1, GetCredentialsStep, CloudSame, OneMachine
<1>3. CASE SetProject(m)
  <2>1. Other(m) /\ (ShapeOK(m) /\ EnvOK(m))'
    BY <1>1, <1>3, SetProjectStep
       DEF Ended, Kept, Same, ShapeOK, EnvOK, Looping, Ending, Deleting, IsProw, Apart
  <2>2. QED
    BY <1>3, <2>1, SetProjectStep, CloudSame, OneMachine
<1>4. QED
  BY <1>2, <1>3

\* DeleteCluster, the release of its project and the end of its context.
LEMMA DeletingStep ==
  ASSUME IInv, NEW m \in Machines, DeleteCluster(m)
  PROVE  /\ job[m].pc = "delete"
         /\ Went(m, IF job[m].isBoskos THEN "release" ELSE "waitDelete")
         /\ job[m].Cluster \in Clusters
         /\ gke' = [gke EXCEPT ![job[m].Cluster] = "STOPPING"]
         /\ UNCHANGED <<boskos, creator, env>>
BY JobType, GotoStep DEF DeleteCluster, Delete, ShapeOK, Deleting, Pcs

LEMMA ReleaseStep ==
  ASSUME IInv, NEW m \in Machines, ReleaseProject(m)
  PROVE  /\ job[m].pc = "release" /\ Went(m, "unset")
         /\ Owned(m, job[m].Project)
         /\ boskos' \in [Pool -> [state : {"free", "busy", "dirty"}, owner : Owners,
                                  holder : Machines \cup {None}]]
         /\ boskos'[job[m].Project].holder = None
         /\ \A p \in Pool : p # job[m].Project => boskos'[p] = boskos[p]
         /\ UNCHANGED <<gke, creator, env>>
<1>1. TypeOK /\ job[m].Project \in Pool /\ Went(m, "unset")
  BY JobType, GotoStep DEF ReleaseProject, Owned, Pcs
<1> DEFINE d == [Free EXCEPT !.state = "dirty"]
<1>2. /\ d \in [state : {"free", "busy", "dirty"}, owner : Owners, holder : Machines \cup {None}]
      /\ d.holder = None
  BY DEF Free, Owners
<1>3. boskos' = [boskos EXCEPT ![job[m].Project] = d]
  BY DEF ReleaseProject
<1> HIDE DEF d
<1>4. QED
  BY <1>1, <1>2, <1>3 DEF ReleaseProject, TypeOK

LEMMA UnsetStep ==
  ASSUME IInv, NEW m \in Machines, UnsetContext(m)
  PROVE  /\ job[m].pc = "unset" /\ Ended(m, TRUE) /\ Apart(m) /\ UNCHANGED cloud
         /\ \/ env'[m].context = None
            \/ Fails("kubectl") /\ env' = env
<1>1. TypeOK /\ env[m] \in Env
  BY JobType
<1>2. job[m].pc = "unset" /\ Ended(m, TRUE) /\ UNCHANGED cloud
  BY <1>1, SucceedStep DEF UnsetContext
<1>3. CASE env' = [env EXCEPT ![m].context = None]
  <2> DEFINE e == [env[m] EXCEPT !.context = None]
  <2>1. e \in Env /\ e.prow = env[m].prow /\ e.context = None
    BY <1>1 DEF Env
  <2>2. env' = [env EXCEPT ![m] = e]
    BY <1>1, <1>3 DEF TypeOK
  <2> HIDE DEF e
  <2>3. QED
    BY <1>2, <2>1, <2>2, EnvChanges
<1>4. CASE Fails("kubectl") /\ UNCHANGED env
  BY <1>2, <1>4, EnvSame
<1>5. QED
  BY <1>3, <1>4 DEF UnsetContext

LEMMA IDelete ==
  ASSUME IInv, NEW m \in Machines,
         DeleteCluster(m) \/ ReleaseProject(m) \/ UnsetContext(m)
  PROVE  IInv'
<1>1. ShapeOK(m) /\ EnvOK(m)
  BY JobType
<1>2. CASE DeleteCluster(m)
  <2>1. Other(m) /\ (ShapeOK(m) /\ EnvOK(m))'
    BY <1>1, <1>2, DeletingStep
       DEF Went, Kept, Same, ShapeOK, EnvOK, Looping, Ending, Deleting, IsProw
  <2>2. CloudType' /\ Apart(m)
    BY <1>2, DeletingStep, DeleteType, EnvSame DEF Delete
  <2>3. QED
    BY <2>1, <2>2, OneMachine
<1>3. CASE ReleaseProject(m)
  <2>1. Other(m) /\ (ShapeOK(m) /\ EnvOK(m))'
    BY <1>1, <1>3, ReleaseStep
       DEF Went, Kept, Same, ShapeOK, EnvOK, Looping, Ending, Deleting, IsProw
  <2>2. CloudType' /\ Apart(m)
    BY <1>3, ReleaseStep, EnvSame DEF IInv, TypeOK, CloudType
  <2>3. QED
    BY <2>1, <2>2, OneMachine
<1>4. CASE UnsetContext(m)
  <2>1. Other(m) /\ (ShapeOK(m) /\ EnvOK(m))'
    BY <1>1, <1>4, UnsetStep
       DEF Ended, Kept, Same, ShapeOK, EnvOK, Looping, Ending, Deleting, IsProw, Apart
  <2>2. QED
    BY <1>4, <2>1, UnsetStep, CloudSame, OneMachine
<1>5. QED
  BY <1>2, <1>3, <1>4

\* Where kubetest2 creates its cluster.
UpTarget(m, p) == [Target(m) EXCEPT !.project = p]

LEMMA UpTargetType ==
  ASSUME IInv, NEW m \in Machines, job[m].pc = "up", NEW p \in UpProjects(m)
  PROVE  /\ p \in Projects
         /\ UpTarget(m, p) \in Clusters /\ UpTarget(m, p).project = p
         /\ \/ p = job[m].req.project
            \/ job[m].req.project = "" /\ p \in Pool /\ boskos[p].state = "free"
<1>1. /\ job[m] \in Job /\ job[m].req.name \in Names /\ job[m].regions # <<>>
      /\ job[m].regions \in Seq(Regions) /\ job[m].req \in Requests
  BY JobType DEF ShapeOK
<1>2. job[m].req.zone \in {"", "a"} /\ job[m].req.project \in Projects \cup {""}
  BY <1>1 DEF Requests
<1>3. Head(job[m].regions) \in Regions
  BY <1>1, HeadTailProperties
<1>4. GetClusterLocation(Head(job[m].regions), job[m].req.zone) \in Locations
  BY <1>2, <1>3, LocationType
<1>5. /\ p \in Projects
      /\ \/ p = job[m].req.project
         \/ job[m].req.project = "" /\ p \in Pool /\ boskos[p].state = "free"
  BY <1>2, E2eAssumption DEF UpProjects
<1>6. QED
  BY <1>1, <1>4, <1>5 DEF UpTarget, Target, Clusters

\* kubetest2 has a project to itself, unless it is told which one to use.
Taken(m, p) ==
    \/ job[m].req.project = p /\ boskos' = boskos
    \/ /\ p \in Pool /\ boskos[p].state = "free"
       /\ boskos' = [boskos EXCEPT ![p] = [state |-> "busy", owner |-> JobName[m], holder |-> m]]

LEMMA UpStep ==
  ASSUME IInv, NEW m \in Machines, Up(m)
  PROVE  \E p \in Projects : \E c \in Clusters :
           /\ c.project = p /\ Taken(m, p) /\ gke[c] = "none"
           /\ gke' = [gke EXCEPT ![c] = "RUNNING"]
           /\ creator' = [creator EXCEPT ![c] = m]
           /\ Apart(m) /\ env'[m].context = c
           /\ Other(m)
           /\ job[m].pc = "up" /\ job'[m].pc \in {"save", "idle"}
           /\ job'[m].cmd = job[m].cmd /\ job'[m].req = job[m].req
           /\ job'[m].isBoskos = job[m].isBoskos
           /\ job'[m].Cluster = c /\ job'[m].Project = p
<1>1. job[m].pc = "up" /\ TypeOK /\ job[m] \in Job /\ env[m] \in Env
  BY JobType DEF Up
<1> DEFINE J(p) == [job[m] EXCEPT !.Project = p, !.Cluster = UpTarget(m, p),
                                  !.made = job[m].made \cup {UpTarget(m, p)}]
           S(p) == [J(p) EXCEPT !.pc = "save"]
           E(p) == [env[m] EXCEPT !.context = UpTarget(m, p), !.project = p]
<1>2. PICK p \in UpProjects(m) :
        /\ gke[UpTarget(m, p)] = "none"
        /\ gke' = [gke EXCEPT ![UpTarget(m, p)] = "RUNNING"]
        /\ creator' = [creator EXCEPT ![UpTarget(m, p)] = m]
        /\ InUse(p, m)
        /\ env' = [env EXCEPT ![m].context = UpTarget(m, p), ![m].project = p]
        /\ job' = [job EXCEPT ![m] = IF IsProw(m) /\ J(p).req.save THEN S(p)
                                     ELSE End(J(p), TRUE)]
  BY Zenon DEF Up, UpTarget
<1>3. /\ p \in Projects
      /\ UpTarget(m, p) \in Clusters /\ UpTarget(m, p).project = p
      /\ \/ p = job[m].req.project
         \/ job[m].req.project = "" /\ p \in Pool /\ boskos[p].state = "free"
  BY <1>1, UpTargetType
<1>4. E(p) \in Env /\ E(p).prow = env[m].prow /\ E(p).context = UpTarget(m, p)
  BY <1>1, <1>3 DEF Env
<1>5. env' = [env EXCEPT ![m] = E(p)]
  BY <1>1, <1>2 DEF TypeOK
<1> HIDE DEF E
<1>6. Apart(m) /\ env'[m] = E(p)
  BY <1>4, <1>5, EnvChanges
<1>7. J(p) \in Job
  BY <1>1, <1>3 DEF Job
<1>8. /\ J(p).cmd = job[m].cmd /\ J(p).req = job[m].req /\ J(p).isBoskos = job[m].isBoskos
      /\ J(p).Cluster = UpTarget(m, p) /\ J(p).Project = p
  BY <1>1 DEF Job
<1> HIDE DEF J
<1>9. S(p) \in Job
  BY <1>7 DEF Job, Pcs
<1>10. /\ S(p).cmd = J(p).cmd /\ S(p).req = J(p).req /\ S(p).isBoskos = J(p).isBoskos
       /\ S(p).Cluster = J(p).Cluster /\ S(p).Project = J(p).Project /\ S(p).pc = "save"
  BY <1>7 DEF Job
<1> HIDE DEF S
<1>11. PICK j \in {S(p), End(J(p), TRUE)} : job' = [job EXCEPT ![m] = j]
  BY <1>2
<1> DEFINE e == End(J(p), TRUE)
<1>12. /\ e \in Job /\ e.cmd = J(p).cmd /\ e.req = J(p).req /\ e.isBoskos = J(p).isBoskos
       /\ e.Cluster = J(p).Cluster /\ e.Project = J(p).Project /\ e.pc = "idle"
  BY <1>7, EndType, EndFields
<1> HIDE DEF e
<1>13. /\ j \in Job /\ j.cmd = job[m].cmd /\ j.req = job[m].req
       /\ j.isBoskos = job[m].isBoskos
       /\ j.Cluster = UpTarget(m, p) /\ j.Project = p /\ j.pc \in {"save", "idle"}
  BY <1>8, <1>9, <1>10, <1>11, <1>12 DEF e
<1>14. Other(m) /\ job'[m] = j
  BY <1>1, <1>11, <1>13, JobChanges
<1>15. Taken(m, p)
  BY <1>2, <1>3, E2eAssumption DEF InUse, Taken
<1>16. QED
  BY <1>1, <1>2, <1>3, <1>4, <1>6, <1>13, <1>14, <1>15

LEMMA IUp ==
  ASSUME IInv, NEW m \in Machines, Up(m)
  PROVE  IInv'
<1>1. PICK p \in Projects, c \in Clusters :
           /\ c.project = p /\ Taken(m, p)
           /\ gke' = [gke EXCEPT ![c] = "RUNNING"]
           /\ creator' = [creator EXCEPT ![c] = m]
           /\ Apart(m) /\ env'[m].context = c
           /\ Other(m)
           /\ job[m].pc = "up" /\ job'[m].pc \in {"save", "idle"}
           /\ job'[m].cmd = job[m].cmd /\ job'[m].isBoskos = job[m].isBoskos
           /\ job'[m].Cluster = c
  BY UpStep
<1>2. ShapeOK(m) /\ EnvOK(m)
  BY JobType
<1>3. (ShapeOK(m) /\ EnvOK(m))'
  BY <1>1, <1>2 DEF ShapeOK, EnvOK, Looping, Ending, Deleting, IsProw, Apart
<1>4. CloudType'
  <2>1. boskos' \in [Pool -> [state : {"free", "busy", "dirty"}, owner : Owners,
                              holder : Machines \cup {None}]]
    BY <1>1, NameType DEF Taken, IInv, TypeOK
  <2>2. QED
    BY <1>1, <2>1 DEF CloudType, IInv, TypeOK, Statuses
<1>5. QED
  BY <1>1, <1>3, <1>4, OneMachine

\* kubetest2 fails: there may be a cluster nobody knows of.
LEMMA UpFailsStep ==
  ASSUME IInv, NEW m \in Machines, UpFails(m)
  PROVE  /\ Kept(m) /\ job[m].pc = "up" /\ UNCHANGED env
         /\ \/ job'[m].pc = "up" /\ job'[m].regions # <<>>
            \/ job'[m].pc = "idle" /\ ~job'[m].ok
         /\ \/ UNCHANGED cloud
            \/ \E p \in Projects, c \in Clusters, s \in {"none", "RUNNING", "ERROR"} :
                 /\ c.project = p /\ Taken(m, p) /\ gke[c] = "none"
                 /\ gke' = [gke EXCEPT ![c] = s]
                 /\ creator' = [creator EXCEPT ![c] = m]
<1>1. job[m].pc = "up" /\ TypeOK /\ job[m] \in Job /\ UNCHANGED env
  BY JobType DEF UpFails
<1>2. /\ Kept(m)
      /\ \/ job'[m].pc = "up" /\ job'[m].regions # <<>>
         \/ job'[m].pc = "idle" /\ ~job'[m].ok
  <2>1. CASE Exit(m)
    BY <1>1, <2>1, ExitStep DEF Ended
  <2>2. CASE Len(job[m].regions) > 1 /\ job' = [job EXCEPT ![m].regions = Tail(job[m].regions)]
    <3> DEFINE j == [job[m] EXCEPT !.regions = Tail(job[m].regions)]
    <3>1. job[m].regions \in Seq(Regions) /\ job[m].regions # <<>>
      BY <1>1, JobType DEF ShapeOK
    <3>2. Tail(job[m].regions) \in Seq(Regions) /\ Tail(job[m].regions) # <<>>
      <4> DEFINE n == Len(job[m].regions)
      <4>1. n > 1
        BY <2>2, Zenon
      <4>2. n \in Nat
        BY <3>1
      <4> HIDE DEF n
      <4>3. n # 1
        BY <4>1, <4>2
      <4>4. QED
        BY <3>1, <4>3, TailType DEF n
    <3>3. j \in Job
      BY <1>1, <3>2 DEF Job
    <3>4. /\ j.cmd = job[m].cmd /\ j.isBoskos = job[m].isBoskos /\ j.pc = job[m].pc
          /\ j.made = job[m].made /\ j.undone = job[m].undone /\ j.regions # <<>>
          /\ j.Cluster = job[m].Cluster /\ j.Project = job[m].Project /\ j.req = job[m].req
      BY <1>1, <3>2 DEF Job
    <3>5. job' = [job EXCEPT ![m] = j]
      BY <1>1, <2>2 DEF TypeOK
    <3> HIDE DEF j
    <3>6. Other(m) /\ job'[m] = j
      BY <1>1, <3>3, <3>5, JobChanges
    <3>7. QED
      BY <1>1, <3>4, <3>6 DEF Kept, Same
  <2>3. QED
    BY <2>1, <2>2 DEF UpFails
<1>3. ASSUME NEW p \in UpProjects(m), NEW s \in {"none", "RUNNING", "ERROR"},
             gke[UpTarget(m, p)] = "none",
             gke' = [gke EXCEPT ![UpTarget(m, p)] = s],
             creator' = [creator EXCEPT ![UpTarget(m, p)] = m],
             InUse(p, m)
      PROVE  \E q \in Projects, c \in Clusters, t \in {"none", "RUNNING", "ERROR"} :
                 /\ c.project = q /\ Taken(m, q) /\ gke[c] = "none"
                 /\ gke' = [gke EXCEPT ![c] = t]
                 /\ creator' = [creator EXCEPT ![c] = m]
  <2>1. /\ p \in Projects
        /\ UpTarget(m, p) \in Clusters /\ UpTarget(m, p).project = p
        /\ \/ p = job[m].req.project
           \/ job[m].req.project = "" /\ p \in Pool /\ boskos[p].state = "free"
    BY <1>1, UpTargetType
  <2>2. Taken(m, p)
    BY <1>3, <2>1, E2eAssumption DEF InUse, Taken
  <2>3. QED
    BY <1>3, <2>1, <2>2
<1>4. \/ UNCHANGED cloud
      \/ \E p \in UpProjects(m), s \in {"none", "RUNNING", "ERROR"} :
             /\ gke[UpTarget(m, p)] = "none"
             /\ gke' = [gke EXCEPT ![UpTarget(m, p)] = s]
             /\ creator' = [creator EXCEPT ![UpTarget(m, p)] = m]
             /\ InUse(p, m)
  BY Zenon DEF UpFails, UpTarget
<1>5. QED
  BY <1>1, <1>2, <1>3, <1>4

LEMMA IUpFails ==
  ASSUME IInv, NEW m \in Machines, UpFails(m)
  PROVE  IInv'
<1>1. Apart(m) /\ Other(m) /\ UNCHANGED env
  BY UpFailsStep, EnvSame DEF Kept, Same
<1>2. ShapeOK(m) /\ EnvOK(m)
  BY JobType
<1>3. (ShapeOK(m) /\ EnvOK(m))'
  BY <1>1, <1>2, UpFailsStep
     DEF Kept, Same, ShapeOK, EnvOK, Looping, Ending, Deleting, IsProw
<1>4. CloudType'
  <2>1. CASE UNCHANGED cloud
    BY <2>1, CloudSame
  <2>2. CASE ~UNCHANGED cloud
    <3>1. PICK p \in Projects, c \in Clusters, s \in {"none", "RUNNING", "ERROR"} :
               /\ Taken(m, p)
               /\ gke' = [gke EXCEPT ![c] = s]
               /\ creator' = [creator EXCEPT ![c] = m]
      BY <2>2, UpFailsStep
    <3>2. boskos' \in [Pool -> [state : {"free", "busy", "dirty"}, owner : Owners,
                                holder : Machines \cup {None}]]
      BY <3>1, NameType DEF Taken, IInv, TypeOK
    <3>3. QED
      BY <3>1, <3>2 DEF CloudType, IInv, TypeOK, Statuses
  <2>3. QED
    BY <2>1, <2>2
<1>5. QED
  BY <1>1, <1>3, <1>4, OneMachine

\* saveMetaData, after kubetest2.
LEMMA SaveMetaStep ==
  ASSUME IInv, NEW m \in Machines, SaveMeta(m)
  PROVE  /\ job[m].pc = "save" /\ Ended(m, TRUE) /\ UNCHANGED cloud /\ Apart(m)
         /\ env'[m].context = env[m].context
<1>1. /\ TypeOK /\ env[m] \in Env /\ job[m].pc = "save" /\ job[m].Cluster \in Clusters
      /\ UNCHANGED cloud
  BY JobType DEF SaveMeta, ShapeOK
<1>2. Ended(m, TRUE)
  BY <1>1, SucceedStep DEF SaveMeta
<1>3. CASE env' = [env EXCEPT ![m].meta = job[m].Cluster]
  <2> DEFINE e == [env[m] EXCEPT !.meta = job[m].Cluster]
  <2>1. e \in Env /\ e.prow = env[m].prow /\ e.context = env[m].context
    BY <1>1 DEF Env
  <2>2. env' = [env EXCEPT ![m] = e]
    BY <1>1, <1>3 DEF TypeOK
  <2> HIDE DEF e
  <2>3. QED
    BY <1>1, <1>2, <2>1, <2>2, EnvChanges
<1>4. CASE UNCHANGED env
  BY <1>1, <1>2, <1>4, EnvSame
<1>5. QED
  BY <1>3, <1>4 DEF SaveMeta

LEMMA ISaveMeta ==
  ASSUME IInv, NEW m \in Machines, SaveMeta(m)
  PROVE  IInv'
<1>1. ShapeOK(m) /\ EnvOK(m)
  BY JobType
<1>2. Other(m) /\ (ShapeOK(m) /\ EnvOK(m))'
  BY <1>1, SaveMetaStep DEF Ended, Kept, Same, ShapeOK, EnvOK, Looping, Ending, Deleting,
                           IsProw, Apart
<1>3. QED
  BY <1>2, SaveMetaStep, CloudSame, OneMachine

\* A machine that rests.
LEMMA RestType ==
  /\ Rest \in Job /\ Rest.pc = "idle" /\ Rest.ok = FALSE /\ Rest.cmd = "none"
  /\ Rest.isBoskos = FALSE /\ Rest.made = {}
BY Zero DEF Rest, Job, Pcs, Requests

\* The command c, whose request has become r.
StartAs(m, c, r) ==
    /\ c.cmd # "kubetest2"
    /\ job' = [job EXCEPT ![m] =
          [Rest EXCEPT !.cmd = c.cmd, !.req = r, !.Project = r.project,
                       !.isBoskos = r.project = "" /\ IsProw(m),
                       !.pc = IF c.cmd # "create" THEN "check"
                              ELSE IF r.project = "" /\ IsProw(m) THEN "boskos"
                              ELSE "prepare"]]

\* A command starts: nothing has been created for it.
LEMMA StartStep ==
  ASSUME IInv, NEW m \in Machines, Start(m)
  PROVE  /\ Other(m) /\ UNCHANGED still
         /\ job'[m].made = {} /\ job'[m].Cluster = None
         /\ job'[m].req.region \in Regions
         /\ \E c \in Commands[IsProw(m)] :
               job'[m].Project = c.req.project /\ job'[m].req.project = c.req.project
         /\ \/ job'[m].pc = "check" /\ job'[m].cmd \in {"get", "delete"}
            \/ job'[m].pc = "prepare" /\ job'[m].cmd = "create"
            \/ job'[m].pc = "boskos" /\ job'[m].cmd = "create"
         /\ job'[m].isBoskos => IsProw(m)
<1>1. PICK c \in Commands[IsProw(m)] : \E r \in Setup(c.req) : StartAs(m, c, r)
  BY DEF Start, StartAs
<1>2. PICK r \in Setup(c.req) :
        /\ c.cmd # "kubetest2"
        /\ job' = [job EXCEPT ![m] =
              [Rest EXCEPT !.cmd = c.cmd, !.req = r, !.Project = r.project,
                           !.isBoskos = r.project = "" /\ IsProw(m),
                           !.pc = IF c.cmd # "create" THEN "check"
                                  ELSE IF r.project = "" /\ IsProw(m) THEN "boskos"
                                  ELSE "prepare"]]
  BY <1>1 DEF StartAs
<1>3. IsProw(m) \in BOOLEAN /\ TypeOK
  BY DEF IInv, TypeOK, Env, IsProw
<1>4. c \in [cmd : {"create", "get", "delete", "kubetest2"}, req : Requests]
  BY <1>3, E2eAssumption
<1>5. /\ r \in Requests /\ r.region \in Regions /\ r.project = c.req.project
      /\ r.project \in Projects \cup {""}
  <2>1. c.req \in Requests
    BY <1>4
  <2>2. QED
    BY <2>1, SetupType DEF Requests
<1> DEFINE b == r.project = "" /\ IsProw(m)
           pc == IF c.cmd # "create" THEN "check" ELSE IF b THEN "boskos" ELSE "prepare"
           j == [Rest EXCEPT !.cmd = c.cmd, !.req = r, !.Project = r.project,
                             !.isBoskos = b, !.pc = pc]
<1>6. job' = [job EXCEPT ![m] = j]
  BY <1>2
<1>7. b \in BOOLEAN /\ (b => IsProw(m))
  OBVIOUS
<1>8. /\ pc \in Pcs
      /\ \/ pc = "check" /\ c.cmd \in {"get", "delete"}
         \/ pc \in {"prepare", "boskos"} /\ c.cmd = "create"
  BY <1>2, <1>4 DEF Pcs
<1> HIDE DEF b, pc
<1>9. j \in Job
  BY <1>4, <1>5, <1>7, <1>8, RestType DEF Job
<1>10. /\ j.made = {} /\ j.Cluster = None /\ j.req = r /\ j.Project = r.project
      /\ j.pc = pc /\ j.cmd = c.cmd /\ j.isBoskos = b
  BY RestType DEF Rest
<1> HIDE DEF j
<1>11. Other(m) /\ job'[m] = j
  BY <1>3, <1>6, <1>9, JobChanges
<1>12. UNCHANGED still
  BY DEF Start, still, cloud
<1>13. QED
  BY <1>5, <1>7, <1>8, <1>10, <1>11, <1>12

LEMMA ConsType ==
  ASSUME NEW x \in Regions, NEW s \in Seq(Regions)
  PROVE  <<x>> \o s \in Seq(Regions) /\ <<x>> \o s # <<>>
<1>1. <<x>> \in Seq(Regions)
  OBVIOUS
<1>2. QED
  BY <1>1

LEMMA StartKubetest2Step ==
  ASSUME IInv, NEW m \in Machines, StartKubetest2(m)
  PROVE  /\ Other(m) /\ UNCHANGED still
         /\ job'[m].isBoskos = FALSE
         /\ job'[m].pc = "up" /\ job'[m].cmd = "kubetest2"
         /\ job'[m].req.name \in Names /\ job'[m].regions # <<>>
         /\ \E c \in Commands[IsProw(m)] : job'[m].req.project = c.req.project
<1>1. PICK c \in Commands[IsProw(m)] :
          /\ c.cmd = "kubetest2"
          /\ job' = [job EXCEPT ![m] =
                [Rest EXCEPT !.cmd = c.cmd, !.req = Named(m, c.req), !.Project = c.req.project,
                             !.pc = "up", !.regions = <<c.req.region>> \o c.req.backup]]
  BY DEF StartKubetest2
<1>2. IsProw(m) \in BOOLEAN /\ TypeOK
  BY DEF IInv, TypeOK, Env, IsProw
<1>3. c \in [cmd : {"create", "get", "delete", "kubetest2"}, req : Requests]
  BY <1>2, E2eAssumption
<1>4. c.req \in Requests /\ c.req.region # ""
  BY <1>1, <1>2, <1>3, E2eAssumption
<1>5. /\ c.req.region \in Regions /\ c.req.backup \in Seq(Regions)
      /\ c.req.project \in Projects \cup {""}
  BY <1>4 DEF Requests
<1> DEFINE s == <<c.req.region>> \o c.req.backup
           r == Named(m, c.req)
<1>6. s \in Seq(Regions) /\ s # <<>>
  BY <1>5, ConsType
<1>7. r \in Requests /\ r.name \in Names /\ r.project = c.req.project
  BY <1>4, NamedType
<1> HIDE DEF s, r
<1> DEFINE j == [Rest EXCEPT !.cmd = c.cmd, !.req = r, !.Project = c.req.project,
                             !.pc = "up", !.regions = s]
<1>8. j \in Job
  BY <1>3, <1>5, <1>6, <1>7, RestType DEF Job, Pcs
<1>9. /\ j.req = r /\ j.regions = s /\ j.pc = "up" /\ j.cmd = "kubetest2"
      /\ j.isBoskos = FALSE
  BY <1>1, RestType DEF Rest
<1>10. job' = [job EXCEPT ![m] = j]
  BY <1>1 DEF s, r
<1> HIDE DEF j
<1>11. Other(m) /\ job'[m] = j
  BY <1>2, <1>8, <1>10, JobChanges
<1>12. UNCHANGED still
  BY DEF StartKubetest2, still, cloud
<1>13. QED
  BY <1>6, <1>7, <1>9, <1>11, <1>12

LEMMA IStart ==
  ASSUME IInv, NEW m \in Machines, Start(m) \/ StartKubetest2(m)
  PROVE  IInv'
<1>1. UNCHANGED still /\ Other(m)
  BY StartStep, StartKubetest2Step
<1>2. Apart(m) /\ CloudType' /\ UNCHANGED env
  BY <1>1, EnvSame, CloudSame DEF still, cloud
<1>3. (ShapeOK(m) /\ EnvOK(m))'
  BY <1>2, StartStep, StartKubetest2Step
     DEF ShapeOK, EnvOK, Looping, Ending, Deleting, IsProw
<1>4. QED
  BY <1>1, <1>2, <1>3, OneMachine

-----------------------------------------------------------------------------
(* GKE, Boskos and the machines.                                           *)

\* Nothing on a machine changes.
LEMMA Elsewhere ==
  ASSUME IInv, UNCHANGED <<job, env>>, CloudType'
  PROVE  IInv'
<1>1. TypeOK'
  BY DEF IInv, TypeOK, CloudType
<1>2. ASSUME NEW n \in Machines
      PROVE  (ShapeOK(n) /\ EnvOK(n))'
  BY DEF IInv, ShapeOK, EnvOK, IsProw
<1>3. QED
  BY <1>1, <1>2 DEF IInv

LEMMA IClouds ==
  ASSUME IInv,
         \/ \E c \in Clusters : Provisioned(c) \/ Deleted(c)
         \/ \E c \in OthersClusters : Others(c)
         \/ \E p \in Pool : Reap(p) \/ Clean(p) \/ OthersAcquire(p)
  PROVE  IInv'
<1> DEFINE d == [Free EXCEPT !.state = "dirty"]
           o == [state |-> "busy", owner |-> "other", holder |-> None]
<1>1. UNCHANGED <<job, env>>
  BY DEF Provisioned, Deleted, Others, Reap, Clean, OthersAcquire
<1>2. /\ d \in [state : {"free", "busy", "dirty"}, owner : Owners, holder : Machines \cup {None}]
      /\ o \in [state : {"free", "busy", "dirty"}, owner : Owners, holder : Machines \cup {None}]
      /\ Free \in [state : {"free", "busy", "dirty"}, owner : Owners,
                   holder : Machines \cup {None}]
  BY DEF Free, Owners
<1> HIDE DEF d, o
<1>3. ASSUME NEW p \in Pool, Reap(p) \/ Clean(p) \/ OthersAcquire(p)
      PROVE  CloudType'
  <2>1. boskos' \in [Pool -> [state : {"free", "busy", "dirty"}, owner : Owners,
                              holder : Machines \cup {None}]]
    BY <1>2, <1>3 DEF Reap, Clean, OthersAcquire, d, o, IInv, TypeOK
  <2>2. gke' \in [Clusters -> Statuses]
    BY <1>3 DEF Reap, Clean, OthersAcquire, IInv, TypeOK, Statuses
  <2>3. creator' \in [Clusters -> Machines \cup {None}]
    BY <1>3 DEF Reap, Clean, OthersAcquire, IInv, TypeOK
  <2>4. QED
    BY <2>1, <2>2, <2>3 DEF CloudType
<1>4. ASSUME NEW c \in Clusters, Provisioned(c) \/ Deleted(c)
      PROVE  CloudType'
  <2>1. boskos' = boskos /\ creator' \in [Clusters -> Machines \cup {None}]
    BY <1>4 DEF Provisioned, Deleted, IInv, TypeOK
  <2>2. gke' \in [Clusters -> Statuses]
    BY <1>4 DEF Provisioned, Deleted, IInv, TypeOK, Statuses
  <2>3. QED
    BY <2>1, <2>2 DEF CloudType, IInv, TypeOK
<1>5. ASSUME NEW c, Others(c)
      PROVE  CloudType'
  BY <1>5 DEF Others, Delete, IInv, TypeOK, CloudType, Statuses
<1>6. CloudType'
  BY <1>3, <1>4, <1>5
<1>7. QED
  BY <1>1, <1>6, Elsewhere

\* A pod ends: the next one knows nothing.
LEMMA IPodEnds ==
  ASSUME IInv, NEW m \in Machines, PodEnds(m)
  PROVE  IInv'
<1>1. Other(m) /\ job'[m] = Rest
  BY RestType, JobChanges DEF IInv, PodEnds
<1>2. Fresh(TRUE) \in Env /\ Fresh(TRUE).prow = TRUE
  BY DEF Fresh, Env
<1>3. Apart(m)
  <2>1. env[m].prow = TRUE
    BY DEF PodEnds, IsProw, IInv, TypeOK, Env
  <2>2. QED
    BY <1>2, <2>1, EnvChanges DEF PodEnds
<1>4. CloudType'
  <2>1. boskos' \in [Pool -> [state : {"free", "busy", "dirty"}, owner : Owners,
                              holder : Machines \cup {None}]]
    BY DEF PodEnds, IInv, TypeOK
  <2>2. QED
    BY <2>1 DEF PodEnds, CloudType, IInv, TypeOK
<1>5. (ShapeOK(m) /\ EnvOK(m))'
  BY <1>1, RestType DEF ShapeOK, EnvOK, Looping, Ending, Deleting
<1>6. QED
  BY <1>1, <1>3, <1>4, <1>5, OneMachine

LEMMA IInterrupt ==
  ASSUME IInv, NEW m \in Machines, Interrupt(m)
  PROVE  IInv'
<1>1. Other(m) /\ job'[m] = Rest
  BY RestType, JobChanges DEF IInv, Interrupt
<1>2. Apart(m)
  <2>1. CASE UNCHANGED env
    BY <2>1, EnvSame
  <2>2. CASE env' = [env EXCEPT ![m].broken = TRUE]
    <3> DEFINE e == [env[m] EXCEPT !.broken = TRUE]
    <3>1. e \in Env /\ e.prow = env[m].prow
      BY JobType DEF Env
    <3>2. env' = [env EXCEPT ![m] = e]
      BY <2>2 DEF IInv, TypeOK
    <3> HIDE DEF e
    <3>3. QED
      BY <3>1, <3>2, EnvChanges
  <2>3. QED
    BY <2>1, <2>2 DEF Interrupt
<1>3. CloudType'
  BY CloudSame DEF Interrupt
<1>4. (ShapeOK(m) /\ EnvOK(m))'
  BY <1>1, RestType DEF ShapeOK, EnvOK, Looping, Ending, Deleting
<1>5. QED
  BY <1>1, <1>2, <1>3, <1>4, OneMachine

LEMMA IInit == Init => IInv
<1> SUFFICES ASSUME Init PROVE IInv
  OBVIOUS
<1>1. boskos \in [Pool -> [state : {"free", "busy", "dirty"}, owner : Owners,
                           holder : Machines \cup {None}]]
  BY DEF Init, Free, Owners
<1>2. gke \in [Clusters -> Statuses] /\ creator \in [Clusters -> Machines \cup {None}]
  BY DEF Init, Statuses
<1>3. job \in [Machines -> Job] /\ \A m \in Machines : job[m] = Rest
  BY RestType DEF Init
<1>4. env \in [Machines -> Env]
  <2>1. \A b \in BOOLEAN : Fresh(b) \in Env
    BY DEF Fresh, Env
  <2>2. PICK prow \in SUBSET Machines : env = [m \in Machines |-> Fresh(m \in prow)]
    BY DEF Init
  <2>3. \A m \in Machines : Fresh(m \in prow) \in Env
    <3>1. \A m : (m \in prow) \in BOOLEAN
      OBVIOUS
    <3>2. QED
      BY <2>1, <3>1, Zenon
  <2>4. QED
    BY <2>2, <2>3
<1>5. \A m \in Machines : ShapeOK(m) /\ EnvOK(m)
  BY <1>3, RestType DEF ShapeOK, EnvOK, Looping, Ending, Deleting
<1>6. QED
  BY <1>1, <1>2, <1>3, <1>4, <1>5 DEF IInv, TypeOK

LEMMA INext == IInv /\ [Next]_vars => IInv'
<1> SUFFICES ASSUME IInv, [Next]_vars PROVE IInv'
  OBVIOUS
<1>1. ASSUME NEW m \in Machines, Command(m)
      PROVE  IInv'
  <2>1. CASE Quiet(m)
    BY <2>1, IQuiet
  <2>2. CASE ~Quiet(m)
    BY <1>1, <2>2, QuietStep, IAcquireProject, ICreateCluster, IUndo, ISetMeta, ISetProject,
       IDelete, IUp, IUpFails, ISaveMeta DEF Command
  <2>3. QED
    BY <2>1, <2>2
<1>2. ASSUME NEW m \in Machines,
             Start(m) \/ StartKubetest2(m) \/ PodEnds(m) \/ Interrupt(m)
      PROVE  IInv'
  BY <1>2, IStart, IPodEnds, IInterrupt
<1>3. CASE UNCHANGED vars
  BY <1>3, Elsewhere DEF vars, IInv, TypeOK, CloudType
<1>4. QED
  BY <1>1, <1>2, <1>3, IClouds DEF Next

LEMMA IInvariant == Spec => []IInv
BY IInit, INext, PTL DEF Spec

\* The type invariant.
THEOREM TypeCorrect == Spec => []TypeOK
BY IInvariant, PTL DEF IInv

\* After create or get has succeeded, kubeconfig, gcloud and metadata.json tell of the
\* same cluster: they are written one after the other, and whatever fails in between or
\* interrupts the command, the command does not succeed.
THEOREM EnvironmentSafe == Spec => []EnvironmentAgrees
<1>1. IInv => EnvironmentAgrees
  BY DEF IInv, EnvOK, EnvironmentAgrees
<1>2. QED
  BY <1>1, IInvariant, PTL

-----------------------------------------------------------------------------
(* At most one cluster is left.                                            *)

Step(m) == Command(m) \/ Start(m) \/ StartKubetest2(m) \/ PodEnds(m) \/ Interrupt(m)

\* A step of one machine, as the others see it.
LEMMA StepOfOne ==
  ASSUME IInv, NEW m \in Machines, Step(m)
  PROVE  Other(m) /\ Apart(m)
<1>1. CASE Quiet(m)
  <2>1. Other(m)
    BY <1>1 DEF Quiet, GivesUp, Ended, Tries, Failed, NextRound, Advances, Went, Kept, Same,
                Finds, Found, Begins
  <2>2. QED
    BY <1>1, <2>1, EnvSame DEF Quiet, still
<1>2. CASE Start(m) \/ StartKubetest2(m)
  BY <1>2, StartStep, StartKubetest2Step, EnvSame DEF still
<1>3. CASE AcquireProject(m) \/ CreateCluster(m)
  BY <1>3, AcquireStep, CreateStep, EnvSame DEF AcquireProject, CreateCluster
<1>4. CASE Undo(m) \/ UndoFails(m)
  BY <1>4, UndoStep, UndoFailsStep, EnvSame DEF NextRound, Kept, Same, still
<1>5. CASE SetMeta(m) \/ GetCredentials(m) \/ SetProject(m)
  BY <1>5, SetMetaStep, GetCredentialsStep, SetProjectStep DEF Went, Ended, Kept, Same
<1>6. CASE DeleteCluster(m) \/ ReleaseProject(m) \/ UnsetContext(m)
  BY <1>6, DeletingStep, ReleaseStep, UnsetStep, EnvSame DEF Went, Ended, Kept, Same
<1>7. CASE Up(m) \/ UpFails(m) \/ SaveMeta(m)
  BY <1>7, UpStep, UpFailsStep, SaveMetaStep, EnvSame DEF Ended, Kept, Same
<1>8. CASE PodEnds(m)
  <2>1. Other(m)
    BY <1>8, RestType, JobChanges DEF IInv, PodEnds
  <2>2. Fresh(TRUE) \in Env /\ Fresh(TRUE).prow = TRUE
    BY DEF Fresh, Env
  <2>3. env[m].prow = TRUE
    BY <1>8 DEF PodEnds, IsProw, IInv, TypeOK, Env
  <2>4. Apart(m)
    BY <1>8, <2>2, <2>3, EnvChanges DEF PodEnds
  <2>5. QED
    BY <2>1, <2>4
<1>9. CASE Interrupt(m)
  <2>1. Other(m)
    BY <1>9, RestType, JobChanges DEF IInv, Interrupt
  <2>2. Apart(m)
    <3>1. CASE UNCHANGED env
      BY <3>1, EnvSame
    <3>2. CASE env' = [env EXCEPT ![m].broken = TRUE]
      <4> DEFINE e == [env[m] EXCEPT !.broken = TRUE]
      <4>1. e \in Env /\ e.prow = env[m].prow
        BY JobType DEF Env
      <4>2. env' = [env EXCEPT ![m] = e]
        BY <3>2 DEF IInv, TypeOK
      <4> HIDE DEF e
      <4>3. QED
        BY <4>1, <4>2, EnvChanges
    <3>3. QED
      BY <1>9, <3>1, <3>2 DEF Interrupt
  <2>3. QED
    BY <2>1, <2>2
<1>10. QED
  BY <1>1, <1>2, <1>3, <1>4, <1>5, <1>6, <1>7, <1>8, <1>9, QuietStep DEF Step, Command

\* The clusters that n did not create in a step are those it had created before: they
\* come to an end, and do not come back.
Keeps(n, c) ==
    creator'[c] = n =>
        /\ creator[c] = n
        /\ gke[c] # "none" => /\ gke'[c] # "none"
                              /\ gke'[c] \in {"PROVISIONING", "RUNNING"}
                                   => gke[c] \in {"PROVISIONING", "RUNNING"}
        /\ c.project \in Pool /\ gke[c] = "none" => gke'[c] = "none"

Creates(n) == CreateCluster(n) \/ Up(n) \/ UpFails(n)

\* GKE, Boskos, other developers and other jobs.
World == \/ \E c \in Clusters : Provisioned(c) \/ Deleted(c)
         \/ \E c \in OthersClusters : Others(c)
         \/ \E p \in Pool : Reap(p) \/ Clean(p) \/ OthersAcquire(p)

LEMMA WorldKeeps ==
  ASSUME IInv, World, NEW n \in Machines, NEW c \in Clusters
  PROVE  Keeps(n, c)
<1>1. /\ gke \in [Clusters -> Statuses] /\ creator \in [Clusters -> Machines \cup {None}]
      /\ None # n
  BY NoneAssumption DEF IInv, TypeOK
<1>2. ASSUME NEW d \in Clusters, Provisioned(d) \/ Deleted(d)
      PROVE  Keeps(n, c)
  BY <1>1, <1>2 DEF Provisioned, Deleted, Keeps
<1>3. ASSUME NEW d \in OthersClusters, Others(d)
      PROVE  Keeps(n, c)
  <2>1. d.project \notin Pool
    BY E2eAssumption
  <2>2. QED
    BY <1>1, <1>3, <2>1 DEF Others, Delete, Deletable, Keeps
<1>4. ASSUME NEW p \in Pool, Clean(p)
      PROVE  Keeps(n, c)
  BY <1>1, <1>4 DEF Clean, Keeps
<1>5. ASSUME NEW p \in Pool, Reap(p) \/ OthersAcquire(p)
      PROVE  Keeps(n, c)
  BY <1>5 DEF Reap, OthersAcquire, Keeps
<1>6. QED
  BY <1>2, <1>3, <1>4, <1>5 DEF World

LEMMA StepKeeps ==
  ASSUME IInv, NEW m \in Machines, Step(m),
         NEW n \in Machines, NEW c \in Clusters, n # m \/ ~Creates(m)
  PROVE  Keeps(n, c)
<1>1. /\ gke \in [Clusters -> Statuses] /\ creator \in [Clusters -> Machines \cup {None}]
      /\ None # n
  BY NoneAssumption DEF IInv, TypeOK
<1>2. CASE UNCHANGED <<gke, creator>>
  BY <1>2 DEF Keeps
<1>3. CASE Creates(m)
  <2>1. CASE CreateCluster(m)
    BY <1>1, <1>3, <2>1, CreateStep DEF Keeps
  <2>2. CASE Up(m)
    <3>1. PICK d \in Clusters : /\ gke[d] = "none"
                                /\ gke' = [gke EXCEPT ![d] = "RUNNING"]
                                /\ creator' = [creator EXCEPT ![d] = m]
      BY <2>2, UpStep
    <3>2. QED
      BY <1>1, <1>3, <3>1 DEF Keeps
  <2>3. CASE UpFails(m) /\ ~UNCHANGED <<gke, creator>>
    <3>1. PICK d \in Clusters, s \in {"none", "RUNNING", "ERROR"} :
                                /\ gke[d] = "none"
                                /\ gke' = [gke EXCEPT ![d] = s]
                                /\ creator' = [creator EXCEPT ![d] = m]
      BY <2>3, UpFailsStep DEF cloud
    <3>2. QED
      BY <1>1, <1>3, <3>1 DEF Keeps
  <2>4. QED
    BY <1>2, <1>3, <2>1, <2>2, <2>3 DEF Creates
<1>4. CASE Undo(m) \/ DeleteCluster(m)
  <2>1. PICK d \in Clusters : gke[d] # "none" /\ gke' = [gke EXCEPT ![d] = "STOPPING"]
    BY <1>4, UndoStep, DeletingStep DEF Undo, DeleteCluster, Deletable
  <2>2. creator' = creator
    BY <1>4 DEF Undo, DeleteCluster
  <2>3. QED
    BY <1>1, <2>1, <2>2 DEF Keeps
<1>5. CASE Quiet(m)
  BY <1>2, <1>5 DEF Quiet, still
<1>6. CASE \/ Start(m) \/ StartKubetest2(m) \/ PodEnds(m) \/ Interrupt(m)
           \/ AcquireProject(m) \/ UndoFails(m) \/ SetMeta(m) \/ GetCredentials(m)
           \/ SetProject(m) \/ ReleaseProject(m) \/ UnsetContext(m) \/ SaveMeta(m)
  BY <1>2, <1>6 DEF Start, StartKubetest2, PodEnds, Interrupt, AcquireProject, UndoFails,
                    SetMeta, GetCredentials, SetProject, ReleaseProject, UnsetContext,
                    SaveMeta, cloud
<1>7. QED
  BY <1>3, <1>4, <1>5, <1>6, QuietStep DEF Step, Command, Creates

LEMMA NextSteps ==
  ASSUME [Next]_vars
  PROVE  (\E m \in Machines : Step(m)) \/ World \/ UNCHANGED vars
BY DEF Next, Step, World

LEMMA WorldStill ==
  ASSUME World \/ UNCHANGED vars
  PROVE  UNCHANGED <<job, env>>
BY DEF World, vars, Provisioned, Deleted, Others, Reap, Clean, OthersAcquire

\* A machine is a pod or it is not.
LEMMA ProwKept ==
  ASSUME IInv, [Next]_vars, NEW n \in Machines
  PROVE  IsProw(n)' = IsProw(n)
<1>1. ASSUME NEW m \in Machines, Step(m)
      PROVE  IsProw(n)' = IsProw(n)
  <2>1. Apart(m)
    BY <1>1, StepOfOne
  <2>2. QED
    BY <2>1 DEF Apart, IsProw
<1>2. CASE UNCHANGED env
  BY <1>2 DEF IsProw
<1>3. QED
  BY <1>1, <1>2, NextSteps, WorldStill

\* What a developer's command has created is being deleted or in ERROR, but for the cluster
\* of this round and the one that is returned: it is there, so nobody creates it anew.
Current(m, c) == \/ job[m].pc \in {"wait", "got", "undo"} /\ c = Target(m)
                 \/ c = job[m].Cluster

OneOK(m) ==
    ~IsProw(m) /\ job[m].cmd = "create" /\ job[m].undone =>
        \A c \in job[m].made : creator[c] = m =>
            /\ gke[c] # "none"
            /\ gke[c] \in {"PROVISIONING", "RUNNING"} => Current(m, c)

OneInv == IInv /\ \A m \in Machines : OneOK(m)

\* Steps of others.
LEMMA OneElsewhere ==
  ASSUME OneInv, [Next]_vars, NEW m \in Machines, job'[m] = job[m],
         \A c \in Clusters : Keeps(m, c)
  PROVE  OneOK(m)'
<1>1. IsProw(m)' = IsProw(m) /\ OneOK(m) /\ job[m].made \in SUBSET Clusters
  BY ProwKept, JobType DEF OneInv
<1>2. \A c \in job[m].made : Keeps(m, c)
  BY <1>1
<1>3. \A c : Current(m, c)' <=> Current(m, c)
  BY DEF Current, Target
<1>4. QED
  BY <1>1, <1>2, <1>3 DEF OneOK, Keeps

\* The command goes on with the same clusters, and GKE stays as it is.
LEMMA OneSame ==
  ASSUME NEW m \in Machines, OneOK(m), IsProw(m)' = IsProw(m), Same(m),
         job'[m].undone => job[m].undone,
         UNCHANGED <<gke, creator>>,
         ~IsProw(m) /\ job[m].cmd = "create" /\ job[m].undone =>
             \A c \in job[m].made :
                 Current(m, c) /\ gke[c] \in {"PROVISIONING", "RUNNING"} => Current(m, c)'
  PROVE  OneOK(m)'
BY DEF OneOK, Same

LEMMA OneQuiet ==
  ASSUME OneInv, NEW m \in Machines, Quiet(m), IsProw(m)' = IsProw(m)
  PROVE  OneOK(m)'
<1>1. OneOK(m) /\ ShapeOK(m) /\ UNCHANGED <<gke, creator>>
  BY JobType DEF OneInv, Quiet, still
<1>2. CASE GivesUp(m)
  BY <1>1, <1>2, OneSame DEF GivesUp, Ended, Kept, Same, Current, Looping
<1>3. CASE Tries(m)
  <2>1. CASE IsProw(m)
    BY <2>1 DEF OneOK
  <2>2. CASE ~IsProw(m)
    <3>1. Went(m, "undo") /\ job[m].pc \in {"create", "wait", "got"}
      BY <1>3, <2>2 DEF Tries, Failed
    <3>2. Target(m)' = Target(m)
      BY <3>1 DEF Went, Kept, Same, Target
    <3>3. QED
      BY <1>1, <3>1, <3>2, OneSame DEF Went, Kept, Same, Current
  <2>3. QED
    BY <2>1, <2>2
<1>4. CASE Advances(m)
  <2>1. Kept(m) /\ job'[m].regions = job[m].regions
    BY <1>4 DEF Advances, Went
  <2>2. Target(m)' = Target(m)
    BY <2>1 DEF Kept, Same, Target
  <2>3. QED
    BY <1>1, <1>4, <2>1, <2>2, OneSame DEF Advances, Went, Kept, Same, Current
<1>5. CASE Finds(m)
  <2>1. PICK c \in Clusters :
          /\ Found(m, c)
          /\ \/ job[m].pc \in {"look", "got"} /\ c = Target(m)
             \/ job[m].pc \in {"check", "recheck"}
    BY <1>5 DEF Finds
  <2>2. CASE job[m].pc \in {"look", "got"} /\ c = Target(m)
    <3>1. job[m].Cluster = None
      BY <1>1, <2>2 DEF ShapeOK, Looping
    <3>2. \A x \in job[m].made : x \in Clusters /\ x # None
      BY JobType, NoneAssumption DEF OneInv
    <3>3. \A x \in job[m].made : Current(m, x) => Current(m, x)'
      BY <2>1, <2>2, <3>1, <3>2 DEF Found, Current
    <3>4. QED
      BY <1>1, <2>1, <3>3 DEF OneOK, Found
  <2>3. CASE job[m].pc \in {"check", "recheck"}
    <3>1. job[m].cmd # "create"
      BY <1>1, <2>3 DEF ShapeOK, Deleting
    <3>2. QED
      BY <2>1, <3>1 DEF OneOK, Found
  <2>4. QED
    BY <2>1, <2>2, <2>3
<1>6. CASE Begins(m)
  BY <1>1, <1>6 DEF Begins, OneOK, Current
<1>7. QED
  BY <1>2, <1>3, <1>4, <1>5, <1>6 DEF Quiet

\* CreateCluster: what was created before is not live at this point.
LEMMA OneCreate ==
  ASSUME OneInv, NEW m \in Machines, CreateCluster(m), IsProw(m)' = IsProw(m)
  PROVE  OneOK(m)'
<1>1. OneOK(m) /\ ShapeOK(m) /\ IInv /\ job[m].made \in SUBSET Clusters
  BY JobType DEF OneInv
<1>2. Target(m)' = Target(m) /\ job[m].Cluster = None /\ None \notin Clusters
  BY <1>1, CreateStep, NoneAssumption DEF Target, ShapeOK, Looping
<1>3. /\ gke' = [gke EXCEPT ![Target(m)] = "PROVISIONING"] /\ gke \in [Clusters -> Statuses]
      /\ creator' = [creator EXCEPT ![Target(m)] = m] /\ Target(m) \in Clusters
      /\ creator \in [Clusters -> Machines \cup {None}]
  BY <1>1, CreateStep DEF IInv, TypeOK
<1>4. SUFFICES ASSUME ~IsProw(m), job[m].cmd = "create", job[m].undone,
                      NEW c \in job[m].made \cup {Target(m)}, creator'[c] = m
               PROVE  /\ gke'[c] # "none"
                      /\ gke'[c] \in {"PROVISIONING", "RUNNING"} => Current(m, c)'
  BY <1>1, CreateStep DEF OneOK
<1>5. CASE c = Target(m)
  BY <1>1, <1>2, <1>3, <1>5, CreateStep DEF Current
<1>6. CASE c # Target(m)
  <2>1. c \in job[m].made /\ creator[c] = m /\ gke'[c] = gke[c] /\ c # None
    BY <1>1, <1>2, <1>3, <1>4, <1>6
  <2>2. gke[c] # "none" /\ (gke[c] \in {"PROVISIONING", "RUNNING"} => Current(m, c))
    BY <1>1, <1>4, <2>1 DEF OneOK
  <2>3. ~Current(m, c)
    BY <1>1, <1>2, <2>1, CreateStep DEF Current
  <2>4. QED
    BY <2>1, <2>2, <2>3
<1>7. QED
  BY <1>5, <1>6

LEMMA OneUndo ==
  ASSUME OneInv, NEW m \in Machines, Undo(m), IsProw(m)' = IsProw(m)
  PROVE  OneOK(m)'
<1>1. OneOK(m) /\ ShapeOK(m) /\ IInv /\ job[m].made \in SUBSET Clusters
  BY JobType DEF OneInv
<1>2. /\ gke' = [gke EXCEPT ![Target(m)] = "STOPPING"] /\ gke \in [Clusters -> Statuses]
      /\ UNCHANGED creator /\ Kept(m) /\ job[m].pc = "undo"
  BY <1>1, UndoStep DEF IInv, TypeOK, NextRound
<1>3. SUFFICES ASSUME ~IsProw(m), job[m].cmd = "create", job[m].undone,
                      NEW c \in job[m].made, creator[c] = m
               PROVE  /\ gke'[c] # "none"
                      /\ gke'[c] \in {"PROVISIONING", "RUNNING"} => Current(m, c)'
  BY <1>1, <1>2 DEF OneOK, Kept, Same
<1>4. gke[c] # "none" /\ (gke[c] \in {"PROVISIONING", "RUNNING"} => Current(m, c))
  BY <1>1, <1>3 DEF OneOK
<1>5. CASE c = Target(m)
  BY <1>1, <1>2, <1>5
<1>6. CASE c # Target(m)
  <2>1. gke'[c] = gke[c]
    BY <1>2, <1>6
  <2>2. Current(m, c) => Current(m, c)'
    BY <1>2, <1>6 DEF Current, Kept, Same
  <2>3. QED
    BY <1>4, <2>1, <2>2
<1>7. QED
  BY <1>5, <1>6

LEMMA OneUndoFails ==
  ASSUME OneInv, NEW m \in Machines, UndoFails(m), IsProw(m)' = IsProw(m)
  PROVE  OneOK(m)'
<1>1. OneOK(m)
  BY DEF OneInv
<1>2. /\ Same(m) /\ job[m].pc = "undo" /\ UNCHANGED <<gke, creator>>
      /\ job'[m].undone => job[m].undone /\ ~Deletable(Target(m))
  BY UndoFailsStep DEF OneInv, still
<1>3. SUFFICES ASSUME ~IsProw(m), job[m].cmd = "create", job'[m].undone,
                      NEW c \in job[m].made, creator[c] = m
               PROVE  /\ gke[c] # "none"
                      /\ gke[c] \in {"PROVISIONING", "RUNNING"} => Current(m, c)'
  BY <1>2 DEF OneOK, Same
<1>4. gke[c] # "none" /\ (gke[c] \in {"PROVISIONING", "RUNNING"} => Current(m, c))
  BY <1>1, <1>2, <1>3 DEF OneOK
<1>5. gke[c] \in {"PROVISIONING", "RUNNING"} => c # Target(m)
  BY <1>2, <1>3 DEF Deletable
<1>6. QED
  BY <1>2, <1>4, <1>5 DEF Current, Same

\* Its other commands are no creates, or have created nothing yet.
LEMMA OneStep ==
  ASSUME OneInv, [Next]_vars, NEW m \in Machines, Step(m)
  PROVE  OneOK(m)'
<1>1. OneOK(m) /\ ShapeOK(m) /\ IInv /\ IsProw(m)' = IsProw(m)
  BY ProwKept DEF OneInv, IInv
<1>2. CASE Start(m) \/ StartKubetest2(m)
  BY <1>1, <1>2, StartStep, StartKubetest2Step DEF OneOK
<1>3. CASE PodEnds(m) \/ Interrupt(m)
  <2>1. job'[m] = Rest
    BY <1>1, <1>3 DEF PodEnds, Interrupt, IInv, TypeOK
  <2>2. QED
    BY <2>1, RestType DEF OneOK
<1>4. CASE AcquireProject(m)
  <2>1. /\ UNCHANGED <<gke, creator>> /\ job[m].pc = "boskos"
        /\ job'[m].Cluster = job[m].Cluster /\ job'[m].made = job[m].made
        /\ job'[m].cmd = job[m].cmd /\ job'[m].undone = job[m].undone
    BY <1>1, <1>4, AcquireStep DEF AcquireProject
  <2>2. \A c : Current(m, c) => Current(m, c)'
    BY <2>1 DEF Current
  <2>3. QED
    BY <1>1, <2>1, <2>2 DEF OneOK
<1>5. CASE SetMeta(m) \/ GetCredentials(m) \/ SetProject(m)
  <2>1. /\ Kept(m) /\ job[m].pc \in {"meta", "auth", "project"}
        /\ UNCHANGED <<gke, creator>>
    BY <1>1, <1>5, SetMetaStep, GetCredentialsStep, SetProjectStep DEF Went, Ended, cloud
  <2>2. /\ Same(m) /\ (job'[m].undone => job[m].undone)
        /\ \A c : Current(m, c) => Current(m, c)'
    BY <2>1 DEF Kept, Same, Current
  <2>3. QED
    BY <1>1, <2>1, <2>2, OneSame
<1>6. CASE DeleteCluster(m) \/ ReleaseProject(m) \/ UnsetContext(m)
  <2>1. Same(m) /\ job[m].pc \in {"delete", "release", "unset"}
    BY <1>1, <1>6, DeletingStep, ReleaseStep, UnsetStep DEF Went, Ended, Kept
  <2>2. QED
    BY <1>1, <2>1 DEF OneOK, Same, ShapeOK, Deleting
<1>7. CASE Up(m) \/ UpFails(m) \/ SaveMeta(m)
  <2>1. job'[m].cmd = job[m].cmd /\ job[m].pc \in {"up", "save"}
    BY <1>1, <1>7, UpStep, UpFailsStep, SaveMetaStep DEF Ended, Kept, Same
  <2>2. QED
    BY <1>1, <2>1 DEF OneOK, ShapeOK
<1>8. QED
  BY <1>1, <1>2, <1>3, <1>4, <1>5, <1>6, <1>7, QuietStep, OneQuiet, OneCreate, OneUndo,
     OneUndoFails DEF Step, Command

LEMMA OneNext == OneInv /\ [Next]_vars => OneInv'
<1> SUFFICES ASSUME OneInv, [Next]_vars PROVE OneInv'
  OBVIOUS
<1>1. IInv /\ IInv'
  BY INext DEF OneInv
<1>2. ASSUME NEW m \in Machines, NEW n \in Machines, Step(m)
      PROVE  OneOK(n)'
  <2>1. CASE n = m
    BY <1>2, <2>1, OneStep
  <2>2. CASE n # m
    BY <1>1, <1>2, <2>2, StepOfOne, StepKeeps, OneElsewhere DEF Other
  <2>3. QED
    BY <2>1, <2>2
<1>3. ASSUME NEW n \in Machines, World \/ UNCHANGED vars
      PROVE  OneOK(n)'
  <2>1. job' = job
    BY <1>3, WorldStill
  <2>2. \A c \in Clusters : Keeps(n, c)
    BY <1>1, <1>3, WorldKeeps DEF vars, Keeps
  <2>3. QED
    BY <2>1, <2>2, OneElsewhere
<1>4. QED
  BY <1>1, <1>2, <1>3, NextSteps DEF OneInv

LEMMA OneInvariant == Spec => []OneInv
<1>1. Init => \A m \in Machines : OneOK(m)
  BY RestType DEF Init, OneOK
<1>2. Init => OneInv
  BY <1>1, IInit DEF OneInv
<1>3. QED
  BY <1>2, OneNext, PTL DEF Spec

\* When a developer's create has returned, it has not left another cluster that it has
\* created in one of the regions: whatever goes wrong in a round, the cluster of this round
\* is deleted before the next one.
THEOREM OneSafe == Spec => []OneCluster
<1>1. OneInv => OneCluster
  <2> SUFFICES ASSUME OneInv, NEW m \in Machines, ~IsProw(m), job[m].pc = "idle",
                      job[m].undone, job[m].cmd = "create",
                      NEW c \in job[m].made \ {job[m].Cluster}, creator[c] = m
               PROVE  gke[c] \notin {"PROVISIONING", "RUNNING"}
    BY DEF OneCluster
  <2>1. gke[c] \in {"PROVISIONING", "RUNNING"} => Current(m, c)
    BY DEF OneInv, OneOK
  <2>2. ~Current(m, c)
    BY DEF Current
  <2>3. QED
    BY <2>1, <2>2
<1>2. QED
  BY <1>1, OneInvariant, PTL

-----------------------------------------------------------------------------
(* The lease of a pod.                                                     *)

\* A project is held by the pod that acquired it, in the name of its job.
Holds(m, p) == boskos[p].state = "busy" /\ boskos[p].holder = m

OwnerOK == \A m \in Machines, p \in Pool :
              boskos[p].holder = m => boskos[p].state = "busy" /\ boskos[p].owner = JobName[m]

\* A cluster that m has created, and that is or will be running.
Live(m, c) == creator[c] = m /\ gke[c] \in {"PROVISIONING", "RUNNING"}

\* A pod holds the project it creates clusters in, until it has released it; it releases
\* only the project of its context, whose cluster it has deleted.
PlaceOK(m) ==
    LET j == job[m]
        c == env[m].context
    IN  /\ j.pc \in Looping \cup {"prepare"} /\ j.Project \in Pool => Holds(m, j.Project)
        /\ j.pc \in Ending /\ j.Project \in Pool => j.Cluster = c \/ Holds(m, j.Project)
        /\ j.pc \in Deleting => j.Cluster = c
        /\ j.pc = "release" /\ j.Project \in Pool => ~Live(m, j.Cluster)
        /\ j.pc = "up" => j.req.project \notin Pool

\* It holds the project of its context, if the cluster is there.
CoverOK(m) ==
    LET c == env[m].context
    IN  c \in Clusters /\ c.project \in Pool /\ Live(m, c) => Holds(m, c.project)

\* If the context is reset whenever its cluster is deleted, it holds that project in any
\* case, and so it cannot release the project of somebody else.
ContextOK(m) ==
    LET c == env[m].context
    IN  job[m].pc # "unset" /\ c \in Clusters /\ c.project \in Pool => Holds(m, c.project)

LeaseOK(m) == IsProw(m) => /\ PlaceOK(m) /\ CoverOK(m)
                           /\ ~Fails("kubectl") => ContextOK(m)

LeaseInv == IInv /\ OwnerOK /\ \A m \in Machines : LeaseOK(m)

\* Those who ask for a project by its name do not ask for one of Boskos.
ProjectsApart == \A c \in Commands[TRUE] : c.req.project \notin Pool

\* Boskos can tell the pods apart, or a pod forgets the cluster that it has deleted.
PodsApart == \/ \A m, n \in Machines : JobName[m] = JobName[n] => m = n
             \/ ~Fails("kubectl")

\* What a step may do to Boskos.
Acquires(m, p) ==
    /\ p \in Pool /\ boskos[p].state = "free"
    /\ boskos' = [boskos EXCEPT ![p] = [state |-> "busy", owner |-> JobName[m], holder |-> m]]

LEMMA BoskosStep ==
  ASSUME IInv, NEW m \in Machines, Step(m)
  PROVE  \/ boskos' = boskos
         \/ \E p \in Pool : Acquires(m, p)
         \/ ReleaseProject(m)
         \/ PodEnds(m)
<1>1. CASE Quiet(m)
  BY <1>1 DEF Quiet, still
<1>2. CASE AcquireProject(m)
  BY <1>2 DEF AcquireProject, Acquires
<1>3. CASE Up(m)
  BY <1>3, UpStep DEF Taken, Acquires
<1>4. CASE UpFails(m)
  BY <1>4, UpFailsStep DEF Taken, Acquires, cloud
<1>5. CASE \/ Start(m) \/ StartKubetest2(m) \/ Interrupt(m)
           \/ CreateCluster(m) \/ Undo(m) \/ UndoFails(m) \/ SetMeta(m) \/ GetCredentials(m)
           \/ SetProject(m) \/ DeleteCluster(m) \/ UnsetContext(m) \/ SaveMeta(m)
  BY <1>5 DEF Start, StartKubetest2, Interrupt, CreateCluster, Undo, UndoFails, SetMeta,
              GetCredentials, SetProject, DeleteCluster, UnsetContext, SaveMeta, cloud
<1>6. QED
  BY <1>1, <1>2, <1>3, <1>4, <1>5, QuietStep DEF Step, Command

BoskosShape ==
    /\ boskos \in [Pool -> [state : {"free", "busy", "dirty"}, owner : Owners,
                            holder : Machines \cup {None}]]
    /\ None \notin Machines

LEMMA BoskosShaped == IInv => BoskosShape
BY NoneAssumption DEF IInv, TypeOK, BoskosShape

\* The reaper, the janitor and others change one project, which no pod holds then; it was
\* not held before.
LEMMA WorldBoskos ==
  ASSUME IInv, World \/ UNCHANGED vars
  PROVE  \/ boskos' = boskos
         \/ \E p \in Pool : \E b :
               /\ boskos' = [boskos EXCEPT ![p] = b] /\ b.holder = None
               /\ boskos[p].holder = None \/ boskos[p].state # "busy"
<1> DEFINE d == [Free EXCEPT !.state = "dirty"]
           o == [state |-> "busy", owner |-> "other", holder |-> None]
<1>1. d.holder = None /\ o.holder = None /\ Free.holder = None
  BY DEF Free
<1>2. ASSUME NEW p \in Pool, Reap(p)
      PROVE  boskos' = [boskos EXCEPT ![p] = d] /\ boskos[p].holder = None
  BY <1>2 DEF Reap
<1>3. ASSUME NEW p \in Pool, Clean(p)
      PROVE  boskos' = [boskos EXCEPT ![p] = Free] /\ boskos[p].state # "busy"
  BY <1>3 DEF Clean
<1>4. ASSUME NEW p \in Pool, OthersAcquire(p)
      PROVE  boskos' = [boskos EXCEPT ![p] = o] /\ boskos[p].state # "busy"
  BY <1>4 DEF OthersAcquire
<1> HIDE DEF d, o
<1>5. ASSUME NEW p \in Pool, Reap(p) \/ Clean(p) \/ OthersAcquire(p)
      PROVE  \E b : /\ boskos' = [boskos EXCEPT ![p] = b] /\ b.holder = None
                    /\ boskos[p].holder = None \/ boskos[p].state # "busy"
  BY <1>1, <1>2, <1>3, <1>4, <1>5
<1>6. CASE \E p \in Pool : Reap(p) \/ Clean(p) \/ OthersAcquire(p)
  BY <1>5, <1>6
<1>7. CASE boskos' = boskos
  BY <1>7
<1>8. QED
  BY <1>6, <1>7 DEF World, vars, Provisioned, Deleted, Others

\* Only the pod that holds a project is its owner.
LEMMA OwnerNext ==
  ASSUME IInv, OwnerOK, [Next]_vars
  PROVE  OwnerOK'
<1>1. BoskosShape
  BY BoskosShaped
<1>2. ASSUME NEW m \in Machines, Step(m)
      PROVE  OwnerOK'
  <2>1. CASE boskos' = boskos
    BY <2>1 DEF OwnerOK
  <2>2. CASE \E p \in Pool : Acquires(m, p)
    BY <1>1, <2>2 DEF OwnerOK, Acquires, BoskosShape
  <2>3. CASE ReleaseProject(m)
    BY <1>1, <1>2, <2>3, ReleaseStep DEF OwnerOK, BoskosShape
  <2>4. CASE PodEnds(m)
    BY <1>1, <2>4 DEF OwnerOK, PodEnds, BoskosShape
  <2>5. QED
    BY <1>2, <2>1, <2>2, <2>3, <2>4, BoskosStep
<1>3. CASE World \/ UNCHANGED vars
  <2>1. CASE boskos' = boskos
    BY <2>1 DEF OwnerOK
  <2>2. CASE boskos' # boskos
    <3>1. PICK p \in Pool : \E b : boskos' = [boskos EXCEPT ![p] = b] /\ b.holder = None
      BY <1>3, <2>2, WorldBoskos
    <3>2. PICK b : boskos' = [boskos EXCEPT ![p] = b] /\ b.holder = None
      BY <3>1
    <3>3. QED
      BY <1>1, <3>2 DEF OwnerOK, BoskosShape
  <2>3. QED
    BY <2>1, <2>2
<1>4. QED
  BY <1>2, <1>3, NextSteps

\* A pod releases no project that another one holds: with a name of its own it could not,
\* and otherwise its context would be of that project, so that it held it, too.
LEMMA ReleasesOwn ==
  ASSUME LeaseInv, PodsApart, NEW m \in Machines, ReleaseProject(m),
         NEW n \in Machines, Holds(n, job[m].Project)
  PROVE  n = m
<1> SUFFICES ASSUME n # m PROVE FALSE
  OBVIOUS
<1>1. ShapeOK(m) /\ LeaseOK(m) /\ OwnerOK /\ IInv
  BY DEF LeaseInv, IInv
<1>2. job[m].pc = "release" /\ Owned(m, job[m].Project)
  BY <1>1, ReleaseStep
<1>3. /\ IsProw(m) /\ job[m].Cluster \in Clusters
      /\ job[m].Project = job[m].Cluster.project /\ job[m].Project \in Pool
  BY <1>1, <1>2 DEF ShapeOK, Deleting, Owned
<1>4. JobName[m] = JobName[n]
  BY <1>1, <1>2, <1>3 DEF Owned, OwnerOK, Holds
<1>5. PlaceOK(m) /\ ContextOK(m)
  BY <1>1, <1>3, <1>4 DEF PodsApart, LeaseOK
<1>6. env[m].context = job[m].Cluster
  BY <1>2, <1>5 DEF PlaceOK, Deleting
<1>7. Holds(m, job[m].Project)
  BY <1>2, <1>3, <1>5, <1>6 DEF ContextOK
<1>8. QED
  BY <1>7 DEF Holds

\* A pod goes on holding its projects, while others acquire and release theirs.
LEMMA HoldsKept ==
  ASSUME LeaseInv, PodsApart, NEW m \in Machines, Step(m),
         NEW n \in Machines, n # m \/ ~(ReleaseProject(m) \/ PodEnds(m)),
         NEW p \in Pool, Holds(n, p)
  PROVE  Holds(n, p)'
<1>1. BoskosShape /\ IInv
  BY BoskosShaped DEF LeaseInv
<1>2. CASE boskos' = boskos
  BY <1>2 DEF Holds
<1>3. CASE \E q \in Pool : Acquires(m, q)
  BY <1>1, <1>3 DEF Holds, Acquires, BoskosShape
<1>4. CASE ReleaseProject(m)
  <2>1. p # job[m].Project
    BY <1>4, ReleasesOwn
  <2>2. QED
    BY <1>1, <1>4, <2>1, ReleaseStep DEF Holds
<1>5. CASE PodEnds(m)
  BY <1>1, <1>5 DEF Holds, PodEnds, BoskosShape
<1>6. QED
  BY <1>1, <1>2, <1>3, <1>4, <1>5, BoskosStep

LEMMA HoldsInWorld ==
  ASSUME LeaseInv, World \/ UNCHANGED vars, NEW n \in Machines, NEW p \in Pool, Holds(n, p)
  PROVE  Holds(n, p)'
<1>1. BoskosShape /\ IInv
  BY BoskosShaped DEF LeaseInv
<1>2. CASE boskos' = boskos
  BY <1>2 DEF Holds
<1>3. CASE boskos' # boskos
  <2>1. PICK q \in Pool : \E b : /\ boskos' = [boskos EXCEPT ![q] = b]
                                 /\ boskos[q].holder = None \/ boskos[q].state # "busy"
    BY <1>1, <1>3, WorldBoskos
  <2>2. PICK b : boskos' = [boskos EXCEPT ![q] = b]
    BY <2>1
  <2>3. q # p
    BY <1>1, <2>1 DEF Holds, BoskosShape
  <2>4. QED
    BY <1>1, <2>2, <2>3 DEF Holds, BoskosShape
<1>4. QED
  BY <1>2, <1>3

\* Nothing that n has created in a project of Boskos comes back.
LEMMA LiveKept ==
  ASSUME NEW n, NEW c \in Clusters, c.project \in Pool, Keeps(n, c), Live(n, c)'
  PROVE  Live(n, c)
BY DEF Keeps, Live

\* What is held and what is live, when a step neither releases nor creates anything of m.
Steady(m) ==
    /\ \A p \in Pool : Holds(m, p) => Holds(m, p)'
    /\ \A c \in Clusters : c.project \in Pool => (Live(m, c)' => Live(m, c))

\* The steps of others leave a pod its lease.
LEMMA LeaseElsewhere ==
  ASSUME IInv, NEW n \in Machines, LeaseOK(n), Steady(n),
         job'[n] = job[n], env'[n] = env[n]
  PROVE  LeaseOK(n)'
<1>1. IsProw(n)' = IsProw(n) /\ ShapeOK(n)
  BY DEF IsProw, IInv
<1>2. ASSUME PlaceOK(n)
      PROVE  PlaceOK(n)'
  <2>1. job[n].pc = "release" /\ job[n].Project \in Pool
          => job[n].Cluster \in Clusters /\ job[n].Cluster.project \in Pool
    BY <1>1 DEF ShapeOK, Deleting
  <2>2. QED
    BY <1>2, <2>1 DEF PlaceOK, Steady
<1>3. ASSUME CoverOK(n)
      PROVE  CoverOK(n)'
  BY <1>3 DEF CoverOK, Steady
<1>4. ASSUME ContextOK(n)
      PROVE  ContextOK(n)'
  BY <1>4 DEF ContextOK, Steady
<1>5. QED
  BY <1>1, <1>2, <1>3, <1>4 DEF LeaseOK

\* While its kubeconfig stays as it is, so does what covers it.
LEMMA CoverSteady ==
  ASSUME NEW m \in Machines, Steady(m), CoverOK(m), env'[m].context = env[m].context
  PROVE  CoverOK(m)' /\ (ContextOK(m) /\ job[m].pc # "unset" => ContextOK(m)')
BY DEF CoverOK, ContextOK, Steady

\* For a step of m itself it is enough to look at its command, and at how it covers its
\* kubeconfig.
LEMMA LeaseOwn ==
  ASSUME NEW m \in Machines, Apart(m), PlaceOK(m)', CoverOK(m)',
         ~Fails("kubectl") => ContextOK(m)'
  PROVE  LeaseOK(m)'
BY DEF LeaseOK

\* Most steps of m leave its kubeconfig alone.
LEMMA LeaseSteady ==
  ASSUME NEW m \in Machines, IsProw(m), LeaseOK(m), Apart(m), Steady(m),
         env'[m].context = env[m].context, job[m].pc # "unset", PlaceOK(m)'
  PROVE  LeaseOK(m)'
<1>1. CoverOK(m) /\ (~Fails("kubectl") => ContextOK(m))
  BY DEF LeaseOK
<1>2. QED
  BY <1>1, CoverSteady, LeaseOwn

\* The steps that change nothing but the command.
LEMMA LeaseQuiet ==
  ASSUME IInv, NEW m \in Machines, IsProw(m), LeaseOK(m), Steady(m), Quiet(m)
  PROVE  LeaseOK(m)'
<1>1. /\ PlaceOK(m) /\ ShapeOK(m) /\ UNCHANGED <<boskos, gke, creator, env>> /\ Apart(m)
  BY EnvSame DEF LeaseOK, IInv, Quiet, still
<1>2. PlaceOK(m)' /\ job[m].pc # "unset"
  <2>1. CASE GivesUp(m)
    BY <2>1 DEF GivesUp, Ended, PlaceOK, Looping, Ending, Deleting
  <2>2. CASE Tries(m)
    BY <1>1, <2>2 DEF Tries, Failed, NextRound, Next1, Kept, Same, PlaceOK, Holds,
                      Looping, Ending, Deleting
  <2>3. CASE Advances(m)
    BY <1>1, <2>3 DEF Advances, Went, Kept, Same, PlaceOK, Holds, Looping, Ending, Deleting
  <2>4. CASE Finds(m)
    <3>1. PICK c \in Clusters :
            /\ Found(m, c)
            /\ \/ job[m].pc \in {"look", "got"} /\ c = Target(m)
               \/ job[m].pc \in {"check", "recheck"} /\ c = env[m].context
      BY <2>4 DEF Finds
    <3>2. CASE job[m].pc \in {"look", "got"} /\ c = Target(m)
      <4>1. c.project = job[m].Project /\ job[m].cmd = "create"
        BY <1>1, <3>2, TargetType DEF IInv, ShapeOK, Looping
      <4>2. job'[m].pc \in {"meta", "auth"} /\ job'[m].Project = job[m].Project
        BY <3>1, <3>2, <4>1 DEF Found
      <4>3. QED
        BY <1>1, <3>2, <4>2 DEF PlaceOK, Holds, Looping, Ending, Deleting
    <3>3. CASE job[m].pc \in {"check", "recheck"} /\ c = env[m].context
      <4>1. job'[m].pc \in {"delete", "recheck", "meta", "auth"} /\ job'[m].Cluster = c
        BY <3>1 DEF Found
      <4>2. QED
        BY <1>1, <3>3, <4>1 DEF PlaceOK, Looping, Ending, Deleting
    <3>4. QED
      BY <3>1, <3>2, <3>3
  <2>5. CASE Begins(m)
    BY <1>1, <2>5 DEF Begins, PlaceOK, Holds, Looping, Ending, Deleting
  <2>6. QED
    BY <2>1, <2>2, <2>3, <2>4, <2>5 DEF Quiet
<1>3. QED
  BY <1>1, <1>2, LeaseSteady

\* A pod starts a command: it names no project of Boskos.
LEMMA LeaseStart ==
  ASSUME ProjectsApart, IInv, NEW m \in Machines, IsProw(m), LeaseOK(m), Steady(m),
         Start(m) \/ StartKubetest2(m)
  PROVE  LeaseOK(m)'
<1>1. IsProw(m) = TRUE /\ ShapeOK(m) /\ job[m].pc = "idle"
  BY DEF IInv, TypeOK, Env, IsProw, Start, StartKubetest2
<1>2. Apart(m) /\ env' = env
  BY StartStep, StartKubetest2Step, EnvSame DEF still
<1>3. PlaceOK(m)'
  <2>1. CASE Start(m)
    <3>1. job'[m].pc \in {"check", "prepare", "boskos"} /\ job'[m].Project \notin Pool
      BY <1>1, <2>1, StartStep DEF ProjectsApart
    <3>2. QED
      BY <3>1 DEF PlaceOK, Looping, Ending, Deleting
  <2>2. CASE StartKubetest2(m)
    <3>1. job'[m].pc = "up" /\ job'[m].req.project \notin Pool
      BY <1>1, <2>2, StartKubetest2Step DEF ProjectsApart
    <3>2. QED
      BY <3>1 DEF PlaceOK, Looping, Ending, Deleting
  <2>3. QED
    BY <2>1, <2>2
<1>4. QED
  BY <1>1, <1>2, <1>3, LeaseSteady

LEMMA LeasePodEnds ==
  ASSUME IInv, NEW m \in Machines, PodEnds(m)
  PROVE  LeaseOK(m)'
<1>1. job'[m].pc = "idle" /\ env'[m].context = None
  BY RestType DEF PodEnds, IInv, TypeOK, Fresh
<1>2. QED
  BY <1>1, NoneAssumption DEF LeaseOK, PlaceOK, CoverOK, ContextOK, Looping, Ending, Deleting

\* AcquireProject, and the cluster that is created in the project.
LEMMA LeaseAcquire ==
  ASSUME IInv, NEW m \in Machines, IsProw(m), LeaseOK(m), Steady(m), AcquireProject(m)
  PROVE  LeaseOK(m)'
<1>1. Apart(m) /\ env' = env
  BY EnvSame DEF AcquireProject
<1>2. PICK p \in Pool :
        /\ job'[m].Project = p /\ job'[m].pc = "prepare"
        /\ boskos' = [boskos EXCEPT ![p] =
                        [state |-> "busy", owner |-> JobName[m], holder |-> m]]
  BY AcquireStep
<1>3. PlaceOK(m)'
  <2>1. Holds(m, p)'
    BY <1>2, BoskosShaped DEF Holds, BoskosShape
  <2>2. QED
    BY <1>2, <2>1 DEF PlaceOK, Looping, Ending, Deleting
<1>4. QED
  BY <1>1, <1>3, AcquireStep, LeaseSteady

LEMMA LeaseCreate ==
  ASSUME IInv, NEW m \in Machines, IsProw(m), LeaseOK(m), CreateCluster(m)
  PROVE  LeaseOK(m)'
<1>1. /\ PlaceOK(m) /\ CoverOK(m) /\ (~Fails("kubectl") => ContextOK(m))
      /\ Apart(m) /\ env' = env /\ boskos' = boskos
  BY EnvSame DEF LeaseOK, CreateCluster
<1>2. /\ job[m].pc = "create" /\ job'[m].pc = "wait" /\ job'[m].Project = job[m].Project
      /\ Target(m).project = job[m].Project
      /\ gke' = [gke EXCEPT ![Target(m)] = "PROVISIONING"]
      /\ creator' = [creator EXCEPT ![Target(m)] = m]
  BY CreateStep
<1>3. job[m].Project \in Pool => Holds(m, job[m].Project)
  BY <1>1, <1>2 DEF PlaceOK, Looping
<1>4. PlaceOK(m)'
  BY <1>1, <1>2, <1>3 DEF PlaceOK, Holds, Looping, Ending, Deleting
<1>5. CoverOK(m)'
  <2> DEFINE c == env[m].context
  <2>1. CASE c = Target(m)
    BY <1>1, <1>2, <1>3, <2>1 DEF CoverOK, Holds
  <2>2. CASE c # Target(m)
    <3>1. c \in Clusters => (Live(m, c)' => Live(m, c))
      <4>1. gke \in [Clusters -> Statuses] /\ creator \in [Clusters -> Machines \cup {None}]
        BY DEF IInv, TypeOK
      <4>2. gke'[c] = gke[c] /\ creator'[c] = creator[c]
        BY <1>2, <2>2, <4>1
      <4>3. Live(m, c)' => creator'[c] = m /\ gke'[c] \in {"PROVISIONING", "RUNNING"}
        BY <1>1 DEF Live
      <4>4. QED
        BY <1>1, <4>2, <4>3 DEF Live
    <3>2. QED
      BY <1>1, <3>1 DEF CoverOK, Holds
  <2>3. QED
    BY <2>1, <2>2
<1>6. ContextOK(m) => ContextOK(m)'
  BY <1>1, <1>2 DEF ContextOK, Holds
<1>7. QED
  BY <1>1, <1>4, <1>5, <1>6, LeaseOwn

\* A pod that creates a cluster by itself does not undo it: these are steps of developers,
\* or change nothing for it.
LEMMA LeaseUndo ==
  ASSUME IInv, NEW m \in Machines, IsProw(m), LeaseOK(m), Steady(m), Undo(m) \/ UndoFails(m)
  PROVE  LeaseOK(m)'
<1>1. Apart(m) /\ env' = env /\ boskos' = boskos /\ PlaceOK(m)
  BY EnvSame DEF Undo, UndoFails, cloud, LeaseOK
<1>2. Same(m) /\ Next1(m) /\ job[m].pc = "undo"
  BY UndoStep, UndoFailsStep DEF NextRound, Kept
<1>3. PlaceOK(m)'
  BY <1>1, <1>2 DEF Same, Next1, PlaceOK, Holds, Looping, Ending, Deleting
<1>4. QED
  BY <1>1, <1>2, <1>3, LeaseSteady

\* Create ends with the kubeconfig of the cluster that it has found, in a project that the
\* pod holds.
LEMMA LeaseEnding ==
  ASSUME IInv, NEW m \in Machines, IsProw(m), LeaseOK(m), Steady(m),
         SetMeta(m) \/ SetProject(m) \/ SaveMeta(m)
  PROVE  LeaseOK(m)'
<1>1. /\ Apart(m) /\ boskos' = boskos /\ PlaceOK(m)
      /\ env'[m].context = env[m].context /\ job[m].pc # "unset"
  BY SetMetaStep, SetProjectStep, SaveMetaStep DEF LeaseOK, cloud
<1>2. \/ job'[m].pc = "idle"
      \/ /\ job[m].pc \in Ending /\ job'[m].pc \in Ending
         /\ job'[m].Project = job[m].Project /\ job'[m].Cluster = job[m].Cluster
  BY SetMetaStep, SetProjectStep, SaveMetaStep DEF Went, Ended, Kept, Same, Ending
<1>3. PlaceOK(m)'
  BY <1>1, <1>2 DEF PlaceOK, Holds, Looping, Ending, Deleting
<1>4. QED
  BY <1>1, <1>3, LeaseSteady

LEMMA LeaseGetCredentials ==
  ASSUME IInv, NEW m \in Machines, IsProw(m), LeaseOK(m), GetCredentials(m)
  PROVE  LeaseOK(m)'
<1>1. /\ PlaceOK(m) /\ CoverOK(m) /\ (~Fails("kubectl") => ContextOK(m)) /\ ShapeOK(m)
  BY DEF LeaseOK, IInv
<1>2. /\ Apart(m) /\ UNCHANGED <<boskos, gke, creator>>
      /\ env'[m].context = job[m].Cluster /\ job[m].Cluster \in Clusters
      /\ job[m].pc = "auth" /\ job'[m].pc = "project"
      /\ job'[m].Project = job[m].Project /\ job'[m].Cluster = job[m].Cluster
      /\ job[m].Project = job[m].Cluster.project
  BY <1>1, GetCredentialsStep DEF Went, Kept, Same, cloud, ShapeOK, Ending
<1>3. job[m].Project \in Pool => job[m].Cluster = env[m].context \/ Holds(m, job[m].Project)
  BY <1>1, <1>2 DEF PlaceOK, Ending
<1>4. PlaceOK(m)'
  BY <1>2 DEF PlaceOK, Looping, Ending, Deleting
<1>5. CoverOK(m)'
  BY <1>1, <1>2, <1>3 DEF CoverOK, Holds, Live
<1>6. ContextOK(m) => ContextOK(m)'
  BY <1>2, <1>3 DEF ContextOK, Holds
<1>7. QED
  BY <1>1, <1>2, <1>4, <1>5, <1>6, LeaseOwn

\* It releases the project of its context when the cluster is no longer live.
LEMMA LeaseDelete ==
  ASSUME IInv, NEW m \in Machines, IsProw(m), LeaseOK(m), Steady(m), DeleteCluster(m)
  PROVE  LeaseOK(m)'
<1>1. PlaceOK(m) /\ Apart(m) /\ gke \in [Clusters -> Statuses]
  BY DeletingStep, EnvSame DEF LeaseOK, IInv, TypeOK
<1>2. /\ job[m].pc = "delete" /\ job'[m].pc \in {"release", "waitDelete"}
      /\ job'[m].Cluster = job[m].Cluster /\ job[m].Cluster \in Clusters
      /\ gke'[job[m].Cluster] = "STOPPING" /\ env' = env
  BY <1>1, DeletingStep DEF Went, Kept, Same
<1>3. PlaceOK(m)'
  BY <1>1, <1>2 DEF PlaceOK, Live, Looping, Ending, Deleting
<1>4. QED
  BY <1>1, <1>2, <1>3, LeaseSteady

LEMMA LeaseRelease ==
  ASSUME IInv, NEW m \in Machines, IsProw(m), LeaseOK(m), ReleaseProject(m)
  PROVE  LeaseOK(m)'
<1>1. PlaceOK(m) /\ CoverOK(m) /\ Apart(m) /\ ShapeOK(m)
  BY ReleaseStep, EnvSame DEF LeaseOK, IInv
<1>2. /\ job[m].pc = "release" /\ job'[m].pc = "unset" /\ UNCHANGED <<gke, creator, env>>
      /\ job'[m].Cluster = job[m].Cluster
      /\ job[m].Project \in Pool /\ job[m].Project = job[m].Cluster.project
  BY <1>1, ReleaseStep DEF Went, Kept, Same, Owned, ShapeOK, Deleting
<1>3. env[m].context = job[m].Cluster /\ ~Live(m, job[m].Cluster)
  BY <1>1, <1>2 DEF PlaceOK, Deleting
<1>4. PlaceOK(m)'
  BY <1>2, <1>3 DEF PlaceOK, Looping, Ending, Deleting
<1>5. CoverOK(m)' /\ ContextOK(m)'
  BY <1>2, <1>3 DEF CoverOK, ContextOK, Live
<1>6. QED
  BY <1>1, <1>4, <1>5, LeaseOwn

LEMMA LeaseUnset ==
  ASSUME IInv, NEW m \in Machines, IsProw(m), LeaseOK(m), UnsetContext(m)
  PROVE  LeaseOK(m)'
<1>1. /\ CoverOK(m) /\ Apart(m) /\ job'[m].pc = "idle" /\ UNCHANGED <<boskos, gke, creator>>
      /\ \/ env'[m].context = None
         \/ Fails("kubectl") /\ env' = env
  BY UnsetStep DEF LeaseOK, Ended, cloud
<1>2. PlaceOK(m)'
  BY <1>1 DEF PlaceOK, Looping, Ending, Deleting
<1>3. CoverOK(m)' /\ (~Fails("kubectl") => ContextOK(m)')
  BY <1>1, NoneAssumption DEF CoverOK, ContextOK, Holds, Live
<1>4. QED
  BY <1>1, <1>2, <1>3, LeaseOwn

\* kubetest2 acquires the project it creates its cluster in.
LEMMA LeaseUp ==
  ASSUME IInv, NEW m \in Machines, IsProw(m), LeaseOK(m), Up(m)
  PROVE  LeaseOK(m)'
<1>1. PlaceOK(m) /\ BoskosShape
  BY BoskosShaped DEF LeaseOK
<1>2. PICK p \in Projects, c \in Clusters :
           /\ c.project = p /\ Taken(m, p) /\ Apart(m) /\ env'[m].context = c
           /\ job[m].pc = "up" /\ job'[m].pc \in {"save", "idle"}
  BY UpStep
<1>3. p \in Pool => Holds(m, p)'
  BY <1>1, <1>2 DEF PlaceOK, Taken, Holds, BoskosShape
<1>4. PlaceOK(m)'
  BY <1>2 DEF PlaceOK, Looping, Ending, Deleting
<1>5. CoverOK(m)' /\ ContextOK(m)'
  BY <1>2, <1>3 DEF CoverOK, ContextOK, Holds
<1>6. QED
  BY <1>2, <1>4, <1>5, LeaseOwn

\* A cluster that it leaves behind is in a project that it has acquired, too.
LEMMA LeaseUpFails ==
  ASSUME IInv, NEW m \in Machines, IsProw(m), LeaseOK(m), UpFails(m),
         \A p \in Pool : Holds(m, p) => Holds(m, p)'
  PROVE  LeaseOK(m)'
<1>1. /\ PlaceOK(m) /\ CoverOK(m) /\ (~Fails("kubectl") => ContextOK(m))
      /\ Apart(m) /\ env' = env /\ BoskosShape
      /\ gke \in [Clusters -> Statuses] /\ creator \in [Clusters -> Machines \cup {None}]
  BY UpFailsStep, EnvSame, BoskosShaped DEF LeaseOK, IInv, TypeOK
<1>2. /\ job[m].pc = "up" /\ job'[m].pc \in {"up", "idle"} /\ job'[m].req = job[m].req
  BY UpFailsStep DEF Kept, Same
<1>3. PlaceOK(m)'
  BY <1>1, <1>2 DEF PlaceOK, Looping, Ending, Deleting
<1>4. CoverOK(m)'
  <2> DEFINE c == env[m].context
  <2>1. CASE UNCHANGED cloud
    BY <1>1, <2>1 DEF CoverOK, Live, Holds, cloud
  <2>2. CASE ~UNCHANGED cloud
    <3>1. PICK p \in Projects, d \in Clusters, s \in {"none", "RUNNING", "ERROR"} :
               /\ d.project = p /\ Taken(m, p)
               /\ gke' = [gke EXCEPT ![d] = s]
               /\ creator' = [creator EXCEPT ![d] = m]
      BY <2>2, UpFailsStep
    <3>2. CASE c = d
      <4>1. p \in Pool => Holds(m, p)'
        BY <1>1, <1>2, <3>1 DEF PlaceOK, Taken, Holds, BoskosShape
      <4>2. QED
        BY <1>1, <3>1, <3>2, <4>1 DEF CoverOK, Holds
    <3>3. CASE c # d
      <4>1. gke'[c] = gke[c] /\ creator'[c] = creator[c]
        BY <1>1, <3>1, <3>3
      <4>2. Live(m, c)' => creator'[c] = m /\ gke'[c] \in {"PROVISIONING", "RUNNING"}
        BY <1>1 DEF Live
      <4>3. Live(m, c)' => Live(m, c)
        BY <4>1, <4>2 DEF Live
      <4>4. QED
        BY <1>1, <4>3 DEF CoverOK
    <3>4. QED
      BY <3>2, <3>3
  <2>3. QED
    BY <2>1, <2>2
<1>5. ContextOK(m) => ContextOK(m)'
  BY <1>1, <1>2 DEF ContextOK
<1>6. QED
  BY <1>1, <1>3, <1>4, <1>5, LeaseOwn

\* What a step of m leaves to n.
LEMMA StepSteady ==
  ASSUME LeaseInv, PodsApart, NEW m \in Machines, Step(m), NEW n \in Machines,
         n # m \/ ~(ReleaseProject(m) \/ PodEnds(m) \/ Creates(m))
  PROVE  Steady(n)
<1>1. \A p \in Pool : Holds(n, p) => Holds(n, p)'
  BY HoldsKept
<1>2. \A c \in Clusters : c.project \in Pool => (Live(n, c)' => Live(n, c))
  BY StepKeeps, LiveKept DEF LeaseInv
<1>3. QED
  BY <1>1, <1>2 DEF Steady

LEMMA LeaseStep ==
  ASSUME ProjectsApart, PodsApart, LeaseInv, NEW m \in Machines, Step(m)
  PROVE  LeaseOK(m)'
<1>1. IInv /\ LeaseOK(m) /\ Apart(m)
  BY StepOfOne DEF LeaseInv
<1>2. CASE ~IsProw(m)
  BY <1>1, <1>2 DEF LeaseOK, Apart
<1>3. CASE IsProw(m) /\ PodEnds(m)
  BY <1>1, <1>3, LeasePodEnds
<1>4. CASE IsProw(m) /\ ReleaseProject(m)
  BY <1>1, <1>4, LeaseRelease
<1>5. CASE IsProw(m) /\ Creates(m) /\ ~PodEnds(m)
  <2>1. CASE CreateCluster(m)
    BY <1>1, <1>5, <2>1, LeaseCreate
  <2>2. CASE Up(m)
    BY <1>1, <1>5, <2>2, LeaseUp
  <2>3. CASE UpFails(m)
    <3>1. ~(ReleaseProject(m) \/ PodEnds(m))
      BY <1>5, <2>3 DEF UpFails, ReleaseProject
    <3>2. \A p \in Pool : Holds(m, p) => Holds(m, p)'
      BY <3>1, HoldsKept
    <3>3. QED
      BY <1>1, <1>5, <2>3, <3>2, LeaseUpFails
  <2>4. QED
    BY <1>5, <2>1, <2>2, <2>3 DEF Creates
<1>6. CASE IsProw(m) /\ ~(ReleaseProject(m) \/ PodEnds(m) \/ Creates(m))
  <2>1. Steady(m)
    BY <1>6, StepSteady
  <2>2. CASE Quiet(m)
    BY <1>1, <1>6, <2>1, <2>2, LeaseQuiet
  <2>3. CASE Start(m) \/ StartKubetest2(m)
    BY <1>1, <1>6, <2>1, <2>3, LeaseStart
  <2>4. CASE AcquireProject(m)
    BY <1>1, <1>6, <2>1, <2>4, LeaseAcquire
  <2>5. CASE Undo(m) \/ UndoFails(m)
    BY <1>1, <1>6, <2>1, <2>5, LeaseUndo
  <2>6. CASE SetMeta(m) \/ SetProject(m) \/ SaveMeta(m)
    BY <1>1, <1>6, <2>1, <2>6, LeaseEnding
  <2>7. CASE GetCredentials(m)
    BY <1>1, <1>6, <2>7, LeaseGetCredentials
  <2>8. CASE DeleteCluster(m)
    BY <1>1, <1>6, <2>1, <2>8, LeaseDelete
  <2>9. CASE UnsetContext(m)
    BY <1>1, <1>6, <2>9, LeaseUnset
  <2>10. ~Interrupt(m)
    BY <1>6 DEF Interrupt
  <2>11. QED
    BY <1>1, <1>6, <2>2, <2>3, <2>4, <2>5, <2>6, <2>7, <2>8, <2>9, <2>10, QuietStep
       DEF Step, Command, Creates
<1>7. QED
  BY <1>2, <1>3, <1>4, <1>5, <1>6

LEMMA LeaseNext ==
  ASSUME ProjectsApart, PodsApart, LeaseInv, [Next]_vars
  PROVE  LeaseInv'
<1>1. IInv /\ IInv' /\ OwnerOK'
  BY INext, OwnerNext DEF LeaseInv
<1>2. ASSUME NEW m \in Machines, NEW n \in Machines, Step(m)
      PROVE  LeaseOK(n)'
  <2>1. CASE n = m
    BY <1>2, <2>1, LeaseStep
  <2>2. CASE n # m
    <3>1. job'[n] = job[n] /\ env'[n] = env[n]
      BY <1>1, <1>2, <2>2, StepOfOne DEF Other, Apart
    <3>2. Steady(n) /\ LeaseOK(n)
      BY <1>2, <2>2, StepSteady DEF LeaseInv
    <3>3. QED
      BY <1>1, <3>1, <3>2, LeaseElsewhere
  <2>3. QED
    BY <2>1, <2>2
<1>3. ASSUME NEW n \in Machines, World \/ UNCHANGED vars
      PROVE  LeaseOK(n)'
  <2>1. job' = job /\ env' = env
    BY <1>3, WorldStill
  <2>2. \A c \in Clusters : Keeps(n, c)
    BY <1>1, <1>3, WorldKeeps DEF vars, Keeps
  <2>3. Steady(n)
    BY <1>3, <2>2, HoldsInWorld, LiveKept DEF Steady
  <2>4. QED
    BY <1>1, <2>1, <2>3, LeaseElsewhere DEF LeaseInv
<1>4. QED
  BY <1>1, <1>2, <1>3, NextSteps DEF LeaseInv

LEMMA LeaseInit == Init => LeaseInv
<1> SUFFICES ASSUME Init PROVE LeaseInv
  OBVIOUS
<1>1. OwnerOK
  BY NoneAssumption DEF Init, OwnerOK, Free
<1>2. ASSUME NEW m \in Machines
      PROVE  LeaseOK(m)
  <2>1. PICK prow \in SUBSET Machines : env = [n \in Machines |-> Fresh(n \in prow)]
    BY DEF Init
  <2>2. job[m].pc = "idle" /\ env[m].context = None
    BY <2>1, RestType DEF Init, Fresh
  <2>3. QED
    BY <2>2, NoneAssumption DEF LeaseOK, PlaceOK, CoverOK, ContextOK, Looping, Ending, Deleting
<1>3. QED
  BY <1>1, <1>2, IInit DEF LeaseInv

\* A pod whose kubeconfig points to a cluster that it has created in a project of Boskos,
\* and that runs, still has the project.  Two conditions are needed: nobody asks for a
\* project of Boskos by its name, and Boskos can tell the pods apart, or a pod never keeps
\* the kubeconfig of a cluster that it has deleted.
THEOREM LeaseSafe ==
  ASSUME ProjectsApart, PodsApart
  PROVE  Spec => []LeaseCoversUse
<1>1. LeaseInv => LeaseCoversUse
  BY DEF LeaseInv, LeaseOK, CoverOK, LeaseCoversUse, Live, Holds
<1>2. LeaseInv /\ [Next]_vars => LeaseInv'
  BY LeaseNext
<1>3. QED
  BY <1>1, <1>2, LeaseInit, PTL DEF Spec
=============================================================================
