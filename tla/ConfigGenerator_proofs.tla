----------------------- MODULE ConfigGenerator_proofs -----------------------
(***************************************************************************)
(* What holds of the generated files for any configuration file, versions, *)
(* branches, filter and timeouts.                                          *)
(***************************************************************************)
EXTENDS ConfigGenerator, FiniteSetTheorems, WellFoundedInduction, TLAPS

-----------------------------------------------------------------------------
(* Loops.  What holds after no round, and after a round if it did before,  *)
(* holds after all: there is no first round after which it does not.       *)

LEMMA AllRounds ==
  ASSUME NEW n \in Nat, NEW T, 0 \in T, \A k \in 1..n : k - 1 \in T => k \in T
  PROVE  n \in T
<1> DEFINE U == {k \in 0..n : k \notin T}
<1> SUFFICES ASSUME U # {} PROVE FALSE
  OBVIOUS
<1>1. U \in SUBSET Nat
  OBVIOUS
<1>2. PICK k \in U : \A l \in U : ~(<<l, k>> \in OpToRel(<, Nat))
  <2> HIDE DEF U
  <2> QED
    BY <1>1, NatLessThanWellFounded, WFMin, Zenon
<1>3. k \in Nat /\ k # 0 /\ k - 1 \in Nat /\ k - 1 < k
  OBVIOUS
<1>4. k - 1 \notin U
  BY <1>2, <1>3 DEF OpToRel
<1> QED
  BY <1>3, <1>4

LEMMA SeqOfPart ==
  ASSUME NEW A, NEW B, NEW s \in Seq(A), \A k \in 1..Len(s) : s[k] \in B
  PROVE  s \in Seq(B)
<1>1. Len(s) \in Nat /\ s = [k \in 1..Len(s) |-> s[k]]
  OBVIOUS
<1> QED
  BY <1>1

LEMMA MaxOfUpTo ==
  ASSUME NEW k \in Nat, NEW S \in SUBSET (1..k), k \in S
  PROVE  Max(S) = k
<1>1. \A x \in S : (\A y \in S : x >= y) => x = k
  OBVIOUS
<1>2. \A y \in S : k >= y
  OBVIOUS
<1> QED
  BY <1>1, <1>2 DEF Max

\* The name of a job that the second pass has seen after an entry.
NameEntry(n, e) ==
    CASE e.key \in {"continuous", "dot-release", "auto-release", "performance",
                    "nightly", "webhook-apicoverage"} ->
            IF e.on THEN (IF e.key \in {"continuous", "nightly"} THEN <<e.key>> ELSE e.text)
                    ELSE n
      [] e.key = "branch-ci"  -> IF e.on THEN <<"continuous">> ELSE <<>>
      [] e.key = "custom-job" -> e.text
      [] OTHER -> n

\* The loops of this module: over the entries of a job, for its type and for its
\* overrides, over the jobs to be written, and over those of the second pass.
Step(f, x, e) ==
    CASE f.loop = "type"     -> PeriodicEntry(x, e)
      [] f.loop = "presubmit" -> PresubmitEntry(x, e)
      [] f.loop = "name"     -> NameEntry(x, e)
      [] f.loop = "collect"  -> CollectJob(x, f.repo, e)
      [] f.loop = "custom"   -> AddNonAlignedTest(x, NonAligned(<<"maintenance">>,
                                                                <<"utilities">>, e, e))
      [] f.loop = "override" -> IF e.key \in f.own THEN x ELSE Override(x, e)
      [] f.loop = "output"   -> executeJobTemplate(x, f.title, f.repo, e \in f.grouped, f.js[e].name)
      [] OTHER               -> IF jobNameFilter \in {<<>>, e.name} THEN Append(x, e) ELSE x

\* A function g tells for every set of indices what the loop over them computes.
Looped(f, base, s, g) ==
    g = [S \in SUBSET DOMAIN s |->
            IF S = {} THEN base ELSE Step(f, g[S \ {Max(S)}], s[Max(S)])]

LEMMA LoopExists ==
  ASSUME NEW f, NEW base, NEW s, NEW n \in Nat, DOMAIN s = 1..n
  PROVE  \E g : Looped(f, base, s, g)
<1> DEFINE Def(g, S) == IF S = {} THEN base ELSE Step(f, g[S \ {Max(S)}], s[Max(S)])
           T == {k \in Nat : \E g : g = [S \in SUBSET (1..k) |-> Def(g, S)]}
<1>1. 0 \in T
  <2> DEFINE g == [S \in SUBSET (1..0) |-> base]
  <2>1. g = [S \in SUBSET (1..0) |-> Def(g, S)]
    OBVIOUS
  <2> QED
    BY <2>1
<1>2. ASSUME NEW k \in 1..n, k - 1 \in T
      PROVE  k \in T
  <2>1. PICK g : g = [S \in SUBSET (1..(k - 1)) |-> Def(g, S)]
    BY <1>2
  <2> DEFINE h == [S \in SUBSET (1..k) |->
                     IF k \in S THEN Step(f, g[S \ {k}], s[k]) ELSE g[S]]
  <2>2. ASSUME NEW S \in SUBSET (1..k)
        PROVE  h[S] = Def(h, S)
    <3>1. CASE k \in S
      <4>1. Max(S) = k
        BY <3>1, MaxOfUpTo
      <4>2. h[S \ {k}] = g[S \ {k}]
        OBVIOUS
      <4> QED
        BY <3>1, <4>1, <4>2
    <3>2. CASE k \notin S
      <4>1. S \in SUBSET (1..(k - 1))
        BY <3>2
      <4>2. h[S] = g[S] /\ g[S] = Def(g, S)
        BY <2>1, <3>2, <4>1
      <4>3. S \ {Max(S)} \in SUBSET (1..(k - 1)) /\ k \notin S \ {Max(S)}
        BY <3>2, <4>1
      <4>4. h[S \ {Max(S)}] = g[S \ {Max(S)}]
        BY <4>3
      <4> QED
        BY <4>2, <4>4
    <3> QED
      BY <3>1, <3>2
  <2>3. h = [S \in SUBSET (1..k) |-> Def(h, S)]
    <3> HIDE DEF Def
    <3> QED
      BY <2>2
  <2>4. \E g1 : g1 = [S \in SUBSET (1..k) |-> Def(g1, S)]
    <3> HIDE DEF Def, h
    <3> QED
      BY <2>3
  <2>5. k \in Nat
    OBVIOUS
  <2> QED
    BY <2>4, <2>5
<1>3. n \in T
  <2> HIDE DEF T
  <2> QED
    BY <1>1, <1>2, AllRounds
<1> QED
  BY <1>3 DEF Looped

\* It tells for the first k indices what k rounds compute.
LEMMA RoundByRound ==
  ASSUME NEW f, NEW base, NEW s, NEW n \in Nat, DOMAIN s = 1..n,
         NEW g, Looped(f, base, s, g)
  PROVE  /\ g[1..0] = base
         /\ \A k \in 1..n : g[1..k] = Step(f, g[1..(k - 1)], s[k])
<1>1. g[1..0] = base
  <2>1. 1..0 = {}
    OBVIOUS
  <2> QED
    BY <2>1 DEF Looped
<1>2. ASSUME NEW k \in 1..n
      PROVE  g[1..k] = Step(f, g[1..(k - 1)], s[k])
  <2>1. 1..k \in SUBSET DOMAIN s /\ 1..k # {} /\ k \in 1..k /\ k \in Nat
    <3>1. k \in Nat /\ 1 <= k /\ k <= n
      OBVIOUS
    <3>2. k \in 1..k /\ \A i \in 1..k : i \in 1..n
      BY <3>1
    <3> QED
      BY <3>1, <3>2
  <2>2. Max(1..k) = k
    BY <2>1, MaxOfUpTo
  <2>3. (1..k) \ {k} = 1..(k - 1)
    OBVIOUS
  <2>4. g[1..k] = Step(f, g[(1..k) \ {Max(1..k)}], s[Max(1..k)])
    BY <2>1 DEF Looped
  <2> QED
    BY <2>2, <2>3, <2>4
<1> QED
  BY <1>1, <1>2

\* Lists one after the other.
Chained(ss, g, i) == IF i = 1 THEN ss[i] ELSE g[i - 1] \o ss[i]

LEMMA ChainExists ==
  ASSUME NEW ss, NEW n \in Nat
  PROVE  \E g : g = [i \in 1..n |-> Chained(ss, g, i)]
<1> DEFINE T == {k \in Nat : \E g : g = [i \in 1..k |-> Chained(ss, g, i)]}
<1>1. 0 \in T
  <2> DEFINE g == [i \in 1..0 |-> <<>>]
  <2>1. g = [i \in 1..0 |-> Chained(ss, g, i)]
    OBVIOUS
  <2> QED
    BY <2>1
<1>2. ASSUME NEW k \in 1..n, k - 1 \in T
      PROVE  k \in T
  <2>1. PICK g : g = [i \in 1..(k - 1) |-> Chained(ss, g, i)]
    BY <1>2
  <2> DEFINE h == [i \in 1..k |-> Chained(ss, g, i)]
  <2>2. ASSUME NEW i \in 1..k
        PROVE  Chained(ss, g, i) = Chained(ss, h, i)
    <3>1. CASE i = 1
      BY <3>1 DEF Chained
    <3>2. CASE i # 1
      <4>1. i - 1 \in 1..(k - 1) /\ i - 1 \in 1..k
        BY <3>2
      <4>2. g[i - 1] = Chained(ss, g, i - 1)
        BY <2>1, <4>1
      <4>3. h[i - 1] = g[i - 1]
        BY <4>1, <4>2
      <4> QED
        BY <3>2, <4>3 DEF Chained
    <3> QED
      BY <3>1, <3>2
  <2>3. h = [i \in 1..k |-> Chained(ss, h, i)]
    BY <2>2
  <2>4. \E g1 : g1 = [i \in 1..k |-> Chained(ss, g1, i)]
    <3> HIDE DEF h
    <3> QED
      BY <2>3
  <2>5. k \in Nat
    OBVIOUS
  <2> QED
    BY <2>4, <2>5
<1>3. n \in T
  <2> HIDE DEF T
  <2> QED
    BY <1>1, <1>2, AllRounds
<1> QED
  BY <1>3

LEMMA FlattenType ==
  ASSUME NEW S, NEW ss \in Seq(Seq(S))
  PROVE  FlattenSeq(ss) \in Seq(S)
<1> DEFINE n == Len(ss)
           g == CHOOSE h : h = [i \in 1..n |-> Chained(ss, h, i)]
<1>1. n \in Nat /\ \A i \in 1..n : ss[i] \in Seq(S)
  OBVIOUS
<1>2. g = [i \in 1..n |-> Chained(ss, g, i)]
  BY <1>1, ChainExists
<1>3. CASE n = 0
  <2>1. FlattenSeq(ss) = ss /\ ss = <<>>
    BY <1>3 DEF FlattenSeq
  <2> QED
    BY <2>1
<1>4. CASE n # 0
  <2>1. FlattenSeq(ss) = g[n]
    BY <1>4 DEF FlattenSeq, Chained
  <2> HIDE DEF g
  <2> DEFINE T == {k \in 0..n : k = 0 \/ g[k] \in Seq(S)}
  <2>2. 0 \in T
    BY <1>1
  <2>3. ASSUME NEW k \in 1..n, k - 1 \in T
        PROVE  k \in T
    <3>1. g[k] = Chained(ss, g, k)
      BY <1>2
    <3>2. CASE k = 1
      BY <1>1, <3>1, <3>2 DEF Chained
    <3>3. CASE k # 1
      <4>1. g[k - 1] \in Seq(S) /\ ss[k] \in Seq(S)
        BY <1>1, <2>3, <3>3
      <4>2. g[k] = g[k - 1] \o ss[k]
        BY <3>1, <3>3 DEF Chained
      <4>3. g[k] \in Seq(S)
        BY <4>1, <4>2
      <4> QED
        BY <1>1, <4>3
    <3> QED
      BY <3>2, <3>3
  <2>4. n \in T
    <3> HIDE DEF T
    <3> QED
      BY <1>1, <2>2, <2>3, AllRounds
  <2> QED
    BY <1>4, <2>1, <2>4
<1> QED
  BY <1>3, <1>4

-----------------------------------------------------------------------------
(* Files.  An upgrade writes the latest version into copies of jobs.       *)

Latests == {filterLatest(b[r]) : b \in Branches, r \in [org : Seq(STRING), name : Seq(STRING)]}

\* An entry in which a timeout is not negative.
TimedEntry == {e \in [key : STRING, on : BOOLEAN, num : Int,
                      text : Seq(STRING) \cup {<<v>> : v \in Latests}] :
                  e.key = "timeout" => e.num \in Nat}

TimedJob == Seq(TimedEntry)

TimedSection == [repo : [org : Seq(STRING), name : Seq(STRING)], jobs : Seq(TimedJob)]

FileInv ==
    /\ DOMAIN file = {"presubmits", "periodics"}
    /\ file.periodics \in Seq(TimedSection)

LEMMA ReleaseTimed ==
  ASSUME NEW job \in TimedJob, NEW v \in Latests
  PROVE  WithRelease(job, v) \in TimedJob
<1>1. ASSUME NEW i \in DOMAIN job
      PROVE  (IF job[i].key = "release" THEN [job[i] EXCEPT !.text = <<v>>] ELSE job[i]) \in TimedEntry
  <2>1. job[i] \in TimedEntry
    BY <1>1 DEF TimedJob
  <2>2. <<v>> \in {<<w>> : w \in Latests}
    OBVIOUS
  <2> QED
    BY <2>1, <2>2 DEF TimedEntry
<1>2. DOMAIN job = 1..Len(job) /\ Len(job) \in Nat
  BY DEF TimedJob
<1> QED
  BY <1>1, <1>2 DEF WithRelease, TimedJob

LEMMA UpdateTimed ==
  ASSUME NEW js \in Seq(TimedJob), NEW kind, NEW v \in Latests
  PROVE  UpdateKind(js, kind, v) \in Seq(TimedJob)
<1> DEFINE updated(job) ==
               LET w == getBranch(job, kind)
               IN  IF w = "" THEN <<job>>
                   ELSE IF Cardinality(NewerThan(js, kind, w)) >= maxReleaseBranches - 1 THEN <<>>
                   ELSE IF NewerThan(js, kind, w) = {} THEN <<job, WithRelease(job, v)>>
                   ELSE <<job>>
           ss == [i \in DOMAIN js |-> updated(js[i])]
<1>1. ASSUME NEW job \in TimedJob
      PROVE  updated(job) \in Seq(TimedJob)
  <2>1. WithRelease(job, v) \in TimedJob
    BY ReleaseTimed
  <2>2. <<job>> \in Seq(TimedJob) /\ <<>> \in Seq(TimedJob) /\ <<job, WithRelease(job, v)>> \in Seq(TimedJob)
    BY <2>1
  <2> QED
    BY <2>2
<1>2. ss \in Seq(Seq(TimedJob))
  <2> HIDE DEF updated
  <2>1. DOMAIN js = 1..Len(js) /\ Len(js) \in Nat /\ \A i \in DOMAIN js : js[i] \in TimedJob
    OBVIOUS
  <2> QED
    BY <1>1, <2>1
<1>3. updateConfigForJob(js, kind, v) = FlattenSeq(ss)
  BY DEF updateConfigForJob
<1>4. updateConfigForJob(js, kind, v) \in Seq(TimedJob)
  <2> HIDE DEF ss
  <2> QED
    BY <1>2, <1>3, FlattenType
<1> QED
  BY <1>4 DEF UpdateKind

LEMMA FileInit ==
  ASSUME TimeoutsNatural, Init
  PROVE  FileInv
<1>1. file \in [presubmits : Seq(Section), periodics : Seq(Section)] /\ file \in Configs
  BY GeneratorAssumption DEF Init
<1>2. ASSUME NEW i \in DOMAIN file.periodics
      PROVE  file.periodics[i] \in TimedSection
  <2> DEFINE s == file.periodics[i]
  <2>1. s \in Section
    BY <1>1
  <2>2. ASSUME NEW job \in ToSet(s.jobs)
        PROVE  job \in TimedJob
    <3>1. job \in Seq(Entry)
      BY <2>1, <2>2 DEF Section, ToSet
    <3>2. job \in Jobs(file.periodics)
      BY <1>2, <2>2 DEF Jobs
    <3>3. ASSUME NEW k \in DOMAIN job
          PROVE  job[k] \in TimedEntry
      <4>1. job[k] \in Entry /\ (job[k].key = "timeout" => job[k].num \in Nat)
        BY <1>1, <3>1, <3>2, <3>3 DEF TimeoutsNatural
      <4> QED
        BY <4>1 DEF Entry, TimedEntry
    <3>4. DOMAIN job = 1..Len(job) /\ Len(job) \in Nat /\ job = [k \in 1..Len(job) |-> job[k]]
      BY <3>1
    <3> QED
      BY <3>3, <3>4 DEF TimedJob
  <2>3. s.jobs \in Seq(TimedJob)
    <3>1. s.jobs \in Seq(Seq(Entry))
      BY <2>1 DEF Section
    <3>2. \A k \in 1..Len(s.jobs) : s.jobs[k] \in TimedJob
      BY <2>2, <3>1 DEF ToSet
    <3> QED
      BY <3>1, <3>2, SeqOfPart
  <2> QED
    BY <2>1, <2>3 DEF Section, TimedSection
<1>3. file.periodics \in Seq(TimedSection)
  <2>1. file.periodics \in Seq(Section)
    BY <1>1
  <2> QED
    BY <1>2, <2>1
<1> QED
  BY <1>1, <1>3 DEF FileInv

LEMMA FileUpgrade ==
  ASSUME FileInv, NEW released \in Branches, Upgrade(released)
  PROVE  FileInv'
<1> DEFINE ps == file.periodics
           new(i) == [ps[i] EXCEPT !.jobs = UpgradeRepo(ps[i].jobs, filterLatest(released[ps[i].repo]))]
<1>1. ps \in Seq(TimedSection)
  BY DEF FileInv
<1>2. file' = [file EXCEPT !.periodics = [i \in DOMAIN ps |-> new(i)]]
  <2>1. file' = upgradeReleaseBranchesTemplate(file, released)
    BY DEF Upgrade
  <2> QED
    BY <2>1 DEF upgradeReleaseBranchesTemplate
<1>3. ASSUME NEW i \in DOMAIN ps
      PROVE  new(i) \in TimedSection
  <2>1. ps[i] \in TimedSection
    BY <1>1
  <2> DEFINE v == filterLatest(released[ps[i].repo])
             js == ps[i].jobs
  <2>2. v \in Latests
    BY <2>1 DEF Latests, TimedSection
  <2>3. js \in Seq(TimedJob)
    BY <2>1 DEF TimedSection
  <2>4. UpgradeRepo(js, v) \in Seq(TimedJob)
    <3> HIDE DEF js, v
    <3>1. UpdateKind(js, "branch-ci", v) \in Seq(TimedJob)
      BY <2>2, <2>3, UpdateTimed
    <3>2. UpdateKind(UpdateKind(js, "branch-ci", v), "dot-release", v) \in Seq(TimedJob)
      BY <2>2, <3>1, UpdateTimed
    <3> QED
      BY <2>3, <3>2 DEF UpgradeRepo
  <2> QED
    BY <2>1, <2>4 DEF TimedSection
<1>4. [i \in DOMAIN ps |-> new(i)] \in Seq(TimedSection)
  <2> HIDE DEF new
  <2>1. DOMAIN ps = 1..Len(ps) /\ Len(ps) \in Nat
    BY <1>1
  <2> QED
    BY <1>3, <2>1
<1> QED
  BY <1>2, <1>4 DEF FileInv

-----------------------------------------------------------------------------
(* The parts of a job.                                                     *)

\* A job has a timeout and an image.
TimedBase(b) == {"timeout", "image"} \subseteq DOMAIN b /\ b.timeout \in Nat

LEMMA PartsTimed ==
  ASSUME NEW b, TimedBase(b), NEW x
  PROVE  /\ TimedBase(addVolumeToJob(b, x)) /\ TimedBase(addEnvToJob(b, x))
         /\ TimedBase(setupDockerInDockerForJob(b))
         /\ addVolumeToJob(b, x).timeout = b.timeout /\ addEnvToJob(b, x).timeout = b.timeout
  BY DEF TimedBase, addVolumeToJob, addEnvToJob, setupDockerInDockerForJob

LEMMA OverrideTimed ==
  ASSUME NEW b, TimedBase(b), NEW e \in TimedEntry
  PROVE  TimedBase(Override(b, e))
<1>1. e.key = "timeout" => e.num \in Nat
  BY DEF TimedEntry
<1>2. TimedBase(setupDockerInDockerForJob(b)) /\ TimedBase(addEnvToJob(b, e.text[1]))
  BY PartsTimed
<1>3. TimedBase([b EXCEPT !.args = e.text]) /\ TimedBase([b EXCEPT !.command = e.text[1]])
      /\ TimedBase([b EXCEPT !.needsMonitor = e.on]) /\ TimedBase([b EXCEPT !.alwaysRun = e.on])
      /\ TimedBase([b EXCEPT !.optional = e.on]) /\ TimedBase([b EXCEPT !.fatal = TRUE])
  BY DEF TimedBase
<1>4. e.key = "timeout" => TimedBase([b EXCEPT !.timeout = e.num])
  BY <1>1 DEF TimedBase
<1> QED
  BY <1>2, <1>3, <1>4 DEF Override

LEMMA OverridesTimed ==
  ASSUME NEW b, TimedBase(b), NEW job \in TimedJob, NEW own
  PROVE  TimedBase(parseBasicJobConfigOverrides(b, job, own))
<1> DEFINE n == Len(job)
           f == [loop |-> "override", own |-> own]
           g == CHOOSE h : h = [S \in SUBSET DOMAIN job |->
                    IF S = {} THEN b
                    ELSE IF job[Max(S)].key \in own THEN h[S \ {Max(S)}]
                    ELSE Override(h[S \ {Max(S)}], job[Max(S)])]
           c == FoldLeft(LAMBDA x, e : IF e.key \in own THEN x ELSE Override(x, e), b, job)
<1>1. n \in Nat /\ DOMAIN job = 1..n /\ \A k \in 1..n : job[k] \in TimedEntry
  BY DEF TimedJob
<1>2. \A x, e : Step(f, x, e) = IF e.key \in own THEN x ELSE Override(x, e)
  BY DEF Step
<1>3. Looped(f, b, job, g)
  <2>1. \E h : Looped(f, b, job, h)
    BY <1>1, LoopExists
  <2>2. \E h : h = [S \in SUBSET DOMAIN job |->
                      IF S = {} THEN b
                      ELSE IF job[Max(S)].key \in own THEN h[S \ {Max(S)}]
                      ELSE Override(h[S \ {Max(S)}], job[Max(S)])]
    <3> HIDE DEF f
    <3> QED
      BY <1>2, <2>1 DEF Looped
  <2>3. g = [S \in SUBSET DOMAIN job |->
               IF S = {} THEN b
               ELSE IF job[Max(S)].key \in own THEN g[S \ {Max(S)}]
               ELSE Override(g[S \ {Max(S)}], job[Max(S)])]
    BY <2>2
  <2> HIDE DEF g, f
  <2> DEFINE before(S) == g[S \ {Max(S)}]
             e(S) == job[Max(S)]
  <2>4. ASSUME NEW S \in SUBSET DOMAIN job
        PROVE  (IF e(S).key \in own THEN before(S) ELSE Override(before(S), e(S)))
               = Step(f, before(S), e(S))
    <3> HIDE DEF before, e
    <3> QED
      BY <1>2
  <2>5. g = [S \in SUBSET DOMAIN job |-> IF S = {} THEN b ELSE Step(f, before(S), e(S))]
    <3>1. g = [S \in SUBSET DOMAIN job |->
                 IF S = {} THEN b
                 ELSE IF e(S).key \in own THEN before(S) ELSE Override(before(S), e(S))]
      BY <2>3
    <3> HIDE DEF before, e
    <3> QED
      BY <2>4, <3>1, Zenon
  <2> QED
    BY <2>5 DEF Looped
<1>4. c = g[1..n]
  BY <1>1 DEF FoldLeft, MapThenFoldSet
<1> HIDE DEF g, f, n
<1>5. g[1..0] = b /\ \A k \in 1..n : g[1..k] = Step(f, g[1..(k - 1)], job[k])
  BY <1>1, <1>3, RoundByRound
<1>6. TimedBase(c)
  <2> DEFINE T == {k \in 0..n : TimedBase(g[1..k])}
  <2>1. 0 \in T
    BY <1>1, <1>5
  <2>2. ASSUME NEW k \in 1..n, k - 1 \in T
        PROVE  k \in T
    <3>1. TimedBase(g[1..(k - 1)]) /\ job[k] \in TimedEntry
      BY <1>1, <2>2
    <3>2. TimedBase(g[1..k])
      BY <1>2, <1>5, <3>1, OverrideTimed
    <3> QED
      BY <1>1, <3>2
  <2>3. n \in T
    <3> HIDE DEF T
    <3> QED
      BY <1>1, <2>1, <2>2, AllRounds
  <2> QED
    BY <1>4, <2>3
<1>7. TimedBase([c EXCEPT !.timeout = timeoutOverride])
  <2> HIDE DEF c
  <2> QED
    BY <1>6, GeneratorAssumption DEF TimedBase
<1> QED
  BY <1>6, <1>7 DEF parseBasicJobConfigOverrides

\* What the entries of a job say of its times: it has a timeout, and none or one hour.
Described(d) ==
    /\ {"base", "cron"} \subseteq DOMAIN d
    /\ d.cron = NoCron \/ \E h : d.cron = Cron({h}, FALSE)
    /\ TimedBase(d.base)

LEMMA TypeDescribed ==
  ASSUME NEW d, Described(d), NEW e
  PROVE  Described(PeriodicType(d, e))
<1> DEFINE b == [d.base EXCEPT !.timeout = 180]
           t == [d EXCEPT !.return = ~e.on, !.type = e.key]
<1>1. TimedBase(b)
  BY DEF Described, TimedBase
<1>2. {"base", "cron"} \subseteq DOMAIN t /\ t.cron = d.cron
  BY DEF Described
<1> HIDE DEF b, t
<1>3. ASSUME NEW c, TimedBase(c), NEW x, NEW y, NEW z
      PROVE  /\ TimedBase([c EXCEPT !.command = x, !.args = y])
             /\ TimedBase([c EXCEPT !.command = x, !.args = y, !.account = z])
  BY <1>3 DEF TimedBase
<1>4. ASSUME NEW c, TimedBase(c), NEW x, NEW y
      PROVE  /\ Described([t EXCEPT !.suffix = x, !.continuous = y, !.base = c])
             /\ Described([t EXCEPT !.suffix = x, !.base = c])
  BY <1>2, <1>4 DEF Described
<1>5. TimedBase(setupDockerInDockerForJob(b)) /\ TimedBase(addEnvToJob(b, "ORG_NAME"))
  BY <1>1, PartsTimed
<1>6. TimedBase(addVolumeToJob(b, "hub-token"))
      /\ TimedBase(addVolumeToJob(addEnvToJob(b, "ORG_NAME"), "hub-token"))
  BY <1>1, <1>5, PartsTimed
<1>7. CASE e.key = "continuous"
  <2> DEFINE c == [b EXCEPT !.command = "presubmit-script", !.args = <<"--all-tests">>]
  <2>1. TimedBase(c)
    BY <1>1, <1>3
  <2>2. PeriodicType(d, e) =
          [t EXCEPT !.suffix = <<"continuous">>, !.continuous = TRUE, !.base = c]
    BY <1>7 DEF PeriodicType, b, t
  <2> HIDE DEF c
  <2>4. Described([t EXCEPT !.suffix = <<"continuous">>, !.continuous = TRUE, !.base = c])
    BY <1>4, <2>1
  <2> QED
    BY <2>2, <2>4
<1>8. CASE e.key = "branch-ci"
  <2> DEFINE c == [setupDockerInDockerForJob(b) EXCEPT !.command = "release-script",
                                                       !.args = <<"--nopublish">>]
  <2>1. TimedBase(c)
    BY <1>3, <1>5
  <2>2. PeriodicType(d, e) =
          [t EXCEPT !.suffix = <<"continuous">>, !.continuous = TRUE, !.base = c]
    BY <1>8 DEF PeriodicType, b, t
  <2> HIDE DEF c
  <2>4. Described([t EXCEPT !.suffix = <<"continuous">>, !.continuous = TRUE, !.base = c])
    BY <1>4, <2>1
  <2> QED
    BY <2>2, <2>4
<1>9. CASE e.key = "nightly"
  <2> DEFINE c == [b EXCEPT !.command = "release-script", !.args = <<"--publish">>,
                            !.account = "nightly-account"]
  <2>1. TimedBase(c)
    BY <1>1, <1>3
  <2>2. PeriodicType(d, e) = [t EXCEPT !.suffix = <<"nightly", "release">>, !.base = c]
    BY <1>9 DEF PeriodicType, b, t
  <2> HIDE DEF c
  <2>4. Described([t EXCEPT !.suffix = <<"nightly", "release">>, !.base = c])
    BY <1>4, <2>1
  <2> QED
    BY <2>2, <2>4
<1>10. CASE e.key \notin {"continuous", "branch-ci", "nightly"}
  <2> DEFINE o == addVolumeToJob(IF d.base.repo.org = <<"knative">> THEN b
                                 ELSE addEnvToJob(b, "ORG_NAME"), "hub-token")
             c == [o EXCEPT !.command = "release-script", !.args = <<"--" , e.key>>,
                            !.account = "release-account"]
  <2>1. TimedBase(o)
    BY <1>6
  <2>2. TimedBase(c)
    <3> HIDE DEF o
    <3> QED
      BY <1>3, <2>1
  <2>3. PeriodicType(d, e) = [t EXCEPT !.suffix = e.text, !.base = c]
    BY <1>10 DEF PeriodicType, b, t
  <2> HIDE DEF c
  <2>4. Described([t EXCEPT !.suffix = e.text, !.base = c])
    BY <1>4, <2>2
  <2> QED
    BY <2>3, <2>4
<1> QED
  BY <1>7, <1>8, <1>9, <1>10

LEMMA EntryDescribed ==
  ASSUME NEW d, Described(d), NEW e \in TimedEntry
  PROVE  Described(PeriodicEntry(d, e))
<1> DEFINE f == CASE e.key = "cron" -> [d EXCEPT !.cron = Cron({e.num}, FALSE)]
                  [] e.key = "release" -> Release(d, e.text[1])
                  [] e.key = "custom-job" -> [d EXCEPT !.type = e.key, !.suffix = e.text,
                                                       !.base.timeout = 120]
                  [] OTHER -> PeriodicType(d, e)
<1>1. Described([d EXCEPT !.cron = Cron({e.num}, FALSE)])
  BY DEF Described
<1>2. Described(Release(d, e.text[1]))
  <2>1. \A x, y : TimedBase([d.base EXCEPT !.branch = x, !.args = y])
    BY DEF Described, TimedBase
  <2> DEFINE args == IF d.type = "dot-release" THEN Append(d.base.args, e.text[1]) ELSE d.base.args
             r == Release(d, e.text[1])
  <2>2. {"base", "cron"} \subseteq DOMAIN r /\ r.cron = d.cron
    BY DEF Release, Described
  <2>3. "branch" \in DOMAIN d.base \/ "branch" \notin DOMAIN d.base
    OBVIOUS
  <2>4. TimedBase(r.base)
    BY DEF Release, Described, TimedBase
  <2> QED
    BY <2>2, <2>4 DEF Described
<1>3. Described([d EXCEPT !.type = e.key, !.suffix = e.text, !.base.timeout = 120])
  BY DEF Described, TimedBase
<1>4. Described(f)
  BY <1>1, <1>2, <1>3, TypeDescribed
<1> HIDE DEF f
<1>5. \A x : Described([f EXCEPT !.annotations = x])
  BY <1>4 DEF Described
<1>6. PeriodicEntry(d, e) = d \/ \E x : PeriodicEntry(d, e) = [f EXCEPT !.annotations = x]
  BY DEF PeriodicEntry, f
<1> QED
  BY <1>5, <1>6

LEMMA PeriodicDescribed ==
  ASSUME NEW repo, NEW job \in TimedJob
  PROVE  Described(Periodic(repo, job))
<1> DEFINE n == Len(job)
           f == [loop |-> "type"]
           d == [return |-> FALSE, type |-> "", suffix |-> <<>>, continuous |-> FALSE,
                 cron |-> NoCron, annotations |-> NoAnnotations, base |-> newbase(repo)]
           g == CHOOSE h : h = [S \in SUBSET DOMAIN job |->
                    IF S = {} THEN d ELSE PeriodicEntry(h[S \ {Max(S)}], job[Max(S)])]
<1>1. n \in Nat /\ DOMAIN job = 1..n /\ \A k \in 1..n : job[k] \in TimedEntry
  BY DEF TimedJob
<1>2. \A x, e : Step(f, x, e) = PeriodicEntry(x, e)
  BY DEF Step
<1>3. Described(d)
  BY DEF Described, TimedBase, newbase
<1>4. Periodic(repo, job) = g[1..n]
  BY <1>1 DEF Periodic, FoldLeft, MapThenFoldSet
<1> HIDE DEF d, f, n
<1>5. Looped(f, d, job, g)
  <2>1. \E h : Looped(f, d, job, h)
    BY <1>1, LoopExists
  <2>2. \E h : h = [S \in SUBSET DOMAIN job |->
                      IF S = {} THEN d ELSE PeriodicEntry(h[S \ {Max(S)}], job[Max(S)])]
    BY <1>2, <2>1 DEF Looped
  <2>3. g = [S \in SUBSET DOMAIN job |->
               IF S = {} THEN d ELSE PeriodicEntry(g[S \ {Max(S)}], job[Max(S)])]
    BY <2>2
  <2> HIDE DEF g
  <2> QED
    BY <1>2, <2>3 DEF Looped
<1> HIDE DEF g
<1>6. g[1..0] = d /\ \A k \in 1..n : g[1..k] = PeriodicEntry(g[1..(k - 1)], job[k])
  BY <1>1, <1>2, <1>5, RoundByRound
<1> DEFINE T == {k \in 0..n : Described(g[1..k])}
<1>7. 0 \in T
  BY <1>1, <1>3, <1>6
<1>8. ASSUME NEW k \in 1..n, k - 1 \in T
      PROVE  k \in T
  <2>1. Described(g[1..(k - 1)]) /\ job[k] \in TimedEntry
    BY <1>1, <1>8
  <2>2. Described(g[1..k])
    BY <1>6, <2>1, EntryDescribed
  <2> QED
    BY <1>1, <2>2
<1>9. n \in T
  <2> HIDE DEF T
  <2> QED
    BY <1>1, <1>7, <1>8, AllRounds
<1> QED
  BY <1>4, <1>9

-----------------------------------------------------------------------------
(* The times of a job.                                                     *)

\* RunsApart of one job.
Apart(j) ==
    j.kind = "periodic" /\ j.base.image = "stable" /\ Cardinality(j.cron.hours) > 1
    /\ 24 % HoursApart(j.base.timeout) = 0 =>
        \A g, h \in j.cron.hours : g # h => ((h - g + 24) % 24) * 60 >= j.base.timeout + 5

\* The hours of a day that are multiples of a divisor of 24.
LEMMA HoursOfDay ==
  ASSUME NEW n \in Nat, n > 0, 24 % n = 0,
         NEW g \in 0..23, NEW h \in 0..23, g % n = 0, h % n = 0, g # h
  PROVE  (h - g + 24) % 24 >= n
<1>1. n <= 24
  OBVIOUS
<1>2. n \in {1, 2, 3, 4, 6, 8, 12, 24}
  BY <1>1
<1>3. CASE n = 1
  BY <1>3
<1>4. CASE n = 2
  BY <1>4
<1>5. CASE n = 3
  BY <1>5
<1>6. CASE n = 4
  BY <1>6
<1>7. CASE n = 6
  BY <1>7
<1>8. CASE n = 8
  BY <1>8
<1>9. CASE n = 12
  BY <1>9
<1>10. CASE n = 24
  BY <1>10
<1> QED
  BY <1>2, <1>3, <1>4, <1>5, <1>6, <1>7, <1>8, <1>9, <1>10

LEMMA OneHour == \A h, w : Cardinality(Cron({h}, w).hours) = 1
  BY FS_Singleton DEF Cron

LEMMA CronApart ==
  ASSUME NEW type, NEW repo, NEW timeout \in Nat,
         Cardinality(generateCron(type, repo, timeout).hours) > 1,
         24 % HoursApart(timeout) = 0,
         NEW g \in generateCron(type, repo, timeout).hours,
         NEW h \in generateCron(type, repo, timeout).hours, g # h
  PROVE  ((h - g + 24) % 24) * 60 >= timeout + 5
<1> DEFINE n == HoursApart(timeout)
<1>1. type \in {"continuous", "custom-job", "auto-release"}
  <2>1. Cardinality(NoCron.hours) = 0
    BY FS_EmptySet DEF NoCron, Cron
  <2>2. \A x, w : Cardinality(Cron({x}, w).hours) = 1
    BY OneHour
  <2>3. \/ type \in {"continuous", "custom-job", "auto-release"}
        \/ generateCron(type, repo, timeout) = NoCron
        \/ \E x, w : generateCron(type, repo, timeout) = Cron({x}, w)
    BY DEF generateCron
  <2>4. generateCron(type, repo, timeout) # NoCron
    BY <2>1
  <2>5. ASSUME NEW x, NEW w, generateCron(type, repo, timeout) = Cron({x}, w)
        PROVE  FALSE
    <3>1. Cardinality(generateCron(type, repo, timeout).hours) = 1
      BY <2>2, <2>5, Zenon
    <3> QED
      BY <3>1
  <2> QED
    BY <2>3, <2>4, <2>5
<1>2. g \in 0..23 /\ h \in 0..23 /\ g % n = 0 /\ h % n = 0
  BY <1>1 DEF generateCron, Cron
<1>3. n \in Nat /\ n > 0 /\ n * 60 >= timeout + 5 /\ 24 % n = 0
  BY DEF HoursApart
<1> HIDE DEF n
<1>4. (h - g + 24) % 24 >= n /\ (h - g + 24) % 24 \in Nat
  <2>1. (h - g + 24) % 24 >= n
    BY <1>2, <1>3, HoursOfDay
  <2>2. (h - g + 24) % 24 \in Nat
    BY <1>2
  <2> QED
    BY <2>1, <2>2
<1> QED
  BY <1>3, <1>4

-----------------------------------------------------------------------------
(* The jobs that are written.                                              *)

\* A list of jobs, each of which holds RunsApart.
JobsApart(js) == \E S : js \in Seq(S) /\ \A j \in S : Apart(j)

LEMMA OtherKindApart ==
  ASSUME NEW j, j.kind # "periodic" \/ j.base.image # "stable"
  PROVE  Apart(j)
  BY DEF Apart

LEMMA BetaApart ==
  ASSUME NEW j, {"base", "kind"} \subseteq DOMAIN j, "image" \in DOMAIN j.base, NEW cron
  PROVE  Apart(BetaOf(j, cron))
<1>1. BetaOf(j, cron).base.image = "beta"
  BY DEF BetaOf
<1> QED
  BY <1>1, OtherKindApart

LEMMA JobsOf ==
  ASSUME NEW S, \A j \in S : Apart(j), NEW js \in Seq(S)
  PROVE  JobsApart(js)
  BY DEF JobsApart

LEMMA OneJob ==
  ASSUME NEW j, Apart(j)
  PROVE  JobsApart(<<j>>)
<1>1. <<j>> \in Seq({j})
  OBVIOUS
<1>2. \A x \in {j} : Apart(x)
  OBVIOUS
<1> QED
  BY <1>1, <1>2, JobsOf

LEMMA TwoJobs ==
  ASSUME NEW i, NEW j, Apart(i), Apart(j)
  PROVE  JobsApart(<<i, j>>)
<1>1. <<i, j>> \in Seq({i, j})
  OBVIOUS
<1>2. \A x \in {i, j} : Apart(x)
  OBVIOUS
<1> QED
  BY <1>1, <1>2, JobsOf

LEMMA MoreJobs ==
  ASSUME NEW is, NEW js, JobsApart(is), JobsApart(js)
  PROVE  JobsApart(is \o js)
<1>1. PICK S : is \in Seq(S) /\ \A j \in S : Apart(j)
  BY DEF JobsApart
<1>2. PICK T : js \in Seq(T) /\ \A j \in T : Apart(j)
  BY DEF JobsApart
<1>3. is \in Seq(S \cup T) /\ js \in Seq(S \cup T)
  BY <1>1, <1>2
<1>4. is \o js \in Seq(S \cup T)
  BY <1>3
<1> QED
  BY <1>1, <1>2, <1>4 DEF JobsApart

LEMMA WriteApart ==
  ASSUME NEW title, NEW repo, NEW js, NEW grouped, WriteAll(title, repo, js, grouped),
         JobsApart(jobs), JobsApart(js)
  PROVE  JobsApart(jobs')
<1>1. PICK S : jobs \in Seq(S) /\ \A j \in S : Apart(j)
  BY DEF JobsApart
<1>2. PICK R : js \in Seq(R) /\ \A j \in R : Apart(j)
  BY DEF JobsApart
<1> DEFINE n == Len(js)
           f == [loop |-> "write"]
           U == S \cup R
           g == CHOOSE h : h = [T \in SUBSET DOMAIN js |->
                    IF T = {} THEN jobs
                    ELSE IF jobNameFilter \in {<<>>, js[Max(T)].name}
                         THEN Append(h[T \ {Max(T)}], js[Max(T)]) ELSE h[T \ {Max(T)}]]
<1>3. n \in Nat /\ DOMAIN js = 1..n /\ \A k \in 1..n : js[k] \in R
  BY <1>2
<1>4. \A x, e : Step(f, x, e) = IF jobNameFilter \in {<<>>, e.name} THEN Append(x, e) ELSE x
  BY DEF Step
<1>5. jobs' = g[1..n]
  BY <1>3 DEF WriteAll, FoldLeft, MapThenFoldSet
<1> HIDE DEF f, n
<1>6. Looped(f, jobs, js, g)
  <2>1. \E h : Looped(f, jobs, js, h)
    BY <1>3, LoopExists
  <2>2. \E h : h = [T \in SUBSET DOMAIN js |->
                      IF T = {} THEN jobs
                      ELSE IF jobNameFilter \in {<<>>, js[Max(T)].name}
                           THEN Append(h[T \ {Max(T)}], js[Max(T)]) ELSE h[T \ {Max(T)}]]
    <3>1. PICK h : Looped(f, jobs, js, h)
      BY <2>1
    <3> DEFINE before(T) == h[T \ {Max(T)}]
               e(T) == js[Max(T)]
               body(T) == IF T = {} THEN jobs
                          ELSE IF jobNameFilter \in {<<>>, e(T).name} THEN Append(before(T), e(T))
                                                                     ELSE before(T)
    <3>2. ASSUME NEW T \in SUBSET DOMAIN js
          PROVE  body(T) = IF T = {} THEN jobs ELSE Step(f, before(T), e(T))
      <4> HIDE DEF before, e
      <4> QED
        BY <1>4
    <3>3. h = [T \in SUBSET DOMAIN js |-> IF T = {} THEN jobs ELSE Step(f, before(T), e(T))]
      BY <3>1 DEF Looped
    <3>4. h = [T \in SUBSET DOMAIN js |-> body(T)]
      <4> HIDE DEF before, e, body
      <4> QED
        BY <3>2, <3>3, Zenon
    <3> QED
      BY <3>4
  <2>3. g = [T \in SUBSET DOMAIN js |->
               IF T = {} THEN jobs
               ELSE IF jobNameFilter \in {<<>>, js[Max(T)].name}
                    THEN Append(g[T \ {Max(T)}], js[Max(T)]) ELSE g[T \ {Max(T)}]]
    BY <2>2
  <2> HIDE DEF g
  <2> DEFINE before(T) == g[T \ {Max(T)}]
             e(T) == js[Max(T)]
  <2>4. ASSUME NEW T \in SUBSET DOMAIN js
        PROVE  (IF jobNameFilter \in {<<>>, e(T).name} THEN Append(before(T), e(T)) ELSE before(T))
               = Step(f, before(T), e(T))
    <3> HIDE DEF before, e
    <3> QED
      BY <1>4
  <2>5. g = [T \in SUBSET DOMAIN js |-> IF T = {} THEN jobs ELSE Step(f, before(T), e(T))]
    <3>1. g = [T \in SUBSET DOMAIN js |->
                 IF T = {} THEN jobs
                 ELSE IF jobNameFilter \in {<<>>, e(T).name} THEN Append(before(T), e(T))
                                                             ELSE before(T)]
      BY <2>3
    <3> HIDE DEF before, e
    <3> QED
      BY <2>4, <3>1, Zenon
  <2> QED
    BY <2>5 DEF Looped
<1> HIDE DEF g
<1>7. g[1..0] = jobs /\ \A k \in 1..n : g[1..k] = Step(f, g[1..(k - 1)], js[k])
  BY <1>3, <1>6, RoundByRound
<1> DEFINE T == {k \in 0..n : g[1..k] \in Seq(U)}
<1>8. 0 \in T
  BY <1>1, <1>3, <1>7
<1>9. ASSUME NEW k \in 1..n, k - 1 \in T
      PROVE  k \in T
  <2>1. g[1..(k - 1)] \in Seq(U) /\ js[k] \in U
    BY <1>3, <1>9
  <2>2. Append(g[1..(k - 1)], js[k]) \in Seq(U)
    BY <2>1
  <2>3. g[1..k] \in Seq(U)
    BY <1>4, <1>7, <2>1, <2>2
  <2> QED
    BY <1>3, <2>3
<1>10. n \in T
  <2> HIDE DEF T
  <2> QED
    BY <1>3, <1>8, <1>9, AllRounds
<1>11. jobs' \in Seq(U) /\ \A j \in U : Apart(j)
  BY <1>1, <1>2, <1>5, <1>10
<1> QED
  BY <1>11 DEF JobsApart

\* The jobs of an entry: the time between two runs follows from the timeout, unless the
\* entry says when it runs.
LEMMA PeriodicApart ==
  ASSUME NEW repo, NEW job \in TimedJob
  PROVE  JobsApart(PeriodicJobs(Periodic(repo, job), repo, job))
<1> DEFINE d == Periodic(repo, job)
           b == PeriodicBase(d, job)
           c == IF b.branch = "master" THEN AccountEnv(b)
                ELSE addEnvToJob(AccountEnv(b), "PULL_BASE_REF")
           cron == PeriodicCron(d, b)
           j == Job("periodic", <<"ci">> \o RepoNameForJob(repo) \o d.suffix, ConfigureAccount(c),
                    cron, d.annotations)
<1>1. Described(d)
  BY PeriodicDescribed
<1> HIDE DEF d
<1>2. TimedBase(b)
  BY <1>1, OverridesTimed DEF PeriodicBase, Described
<1> HIDE DEF b
<1>3. TimedBase(ConfigureAccount(c)) /\ ConfigureAccount(c).timeout = b.timeout
  <2>1. \A x, y : TimedBase(addEnvToJob(addEnvToJob(b, x), y))
                  /\ addEnvToJob(addEnvToJob(b, x), y).timeout = b.timeout
    BY <1>2, PartsTimed
  <2>2. TimedBase(AccountEnv(b)) /\ AccountEnv(b).timeout = b.timeout
    BY <1>2, <2>1 DEF AccountEnv
  <2>3. TimedBase(c) /\ c.timeout = b.timeout
    BY <2>2, PartsTimed
  <2> HIDE DEF c
  <2> QED
    BY <2>3, PartsTimed DEF ConfigureAccount
<1> HIDE DEF c, cron
<1>4. /\ j.kind = "periodic" /\ j.base = ConfigureAccount(c) /\ j.cron = cron
      /\ {"base", "kind"} \subseteq DOMAIN j
  BY DEF Job
<1> HIDE DEF j
<1>5. Apart(j)
  <2> SUFFICES ASSUME Cardinality(cron.hours) > 1, 24 % HoursApart(b.timeout) = 0,
                      NEW g \in cron.hours, NEW h \in cron.hours, g # h
               PROVE  ((h - g + 24) % 24) * 60 >= b.timeout + 5
    BY <1>3, <1>4 DEF Apart
  <2>1. cron = generateCron(d.type, d.base.repo, b.timeout)
    <3>1. CASE d.cron = NoCron
      BY <3>1 DEF PeriodicCron, cron
    <3>2. CASE d.cron # NoCron
      <4>1. cron = d.cron
        BY <3>2 DEF PeriodicCron, cron
      <4>2. PICK x : d.cron = Cron({x}, FALSE)
        BY <1>1, <3>2 DEF Described
      <4>3. Cardinality(cron.hours) = 1
        BY <4>1, <4>2, OneHour, Zenon
      <4> QED
        BY <4>3
    <3> QED
      BY <3>1, <3>2
  <2>2. b.timeout \in Nat
    BY <1>2 DEF TimedBase
  <2> DEFINE t == b.timeout
             type == d.type
             r == d.base.repo
  <2>3. cron = generateCron(type, r, t) /\ t \in Nat /\ 24 % HoursApart(t) = 0
    BY <2>1, <2>2
  <2> HIDE DEF t, type, r
  <2>4. ((h - g + 24) % 24) * 60 >= t + 5
    BY <2>3, CronApart
  <2> QED
    BY <2>4 DEF t
<1>6. \A x : Apart(BetaOf(j, x))
  BY <1>3, <1>4, BetaApart DEF TimedBase
<1>7. \/ PeriodicJobs(d, repo, job) = <<j>>
      \/ \E x : PeriodicJobs(d, repo, job) = <<j, BetaOf(j, x)>>
  BY DEF PeriodicJobs, j, c, cron, b
<1>8. JobsApart(PeriodicJobs(d, repo, job))
  BY <1>5, <1>6, <1>7, OneJob, TwoJobs
<1> QED
  BY <1>8 DEF d

\* The jobs of the other generators are of another kind, or run once a day.
LEMMA OtherJobsApart ==
  ASSUME NEW name, NEW b, NEW cron, NEW annotations, NEW kind, kind # "periodic"
  PROVE  Apart(Job(kind, name, b, cron, annotations))
<1>1. Job(kind, name, b, cron, annotations).kind = kind
  BY DEF Job
<1> QED
  BY <1>1, OtherKindApart

LEMMA PresubmitApart ==
  ASSUME NEW d, NEW repo, NEW job
  PROVE  JobsApart(PresubmitJobs(d, repo, job))
<1> DEFINE b == parseBasicJobConfigOverrides(d.base, job, PresubmitKeys)
           e == AccountEnv(b)
           c == IF b.needsMonitor THEN addMonitoringPubsubLabelsToJob(e) ELSE e
           j == Job("presubmit", <<"pull">> \o (RepoNameForJob(repo) \o d.suffix),
                    ConfigureAccount(c), NoCron, NoAnnotations)
           dev == [j EXCEPT !.name = Append(@, "dev"), !.base.alwaysRun = FALSE,
                            !.base.image = "coverage-dev"]
<1>1. PresubmitJobs(d, repo, job) \in {<<j>>, <<j, dev>>}
  BY DEF PresubmitJobs
<1>2. j.kind = "presubmit" /\ "kind" \in DOMAIN j
  BY DEF Job
<1>3. dev.kind = "presubmit"
  <2> HIDE DEF j
  <2> QED
    BY <1>2
<1> HIDE DEF j, dev
<1>4. Apart(j) /\ Apart(dev)
  BY <1>2, <1>3, OtherKindApart
<1> QED
  BY <1>1, <1>4, OneJob, TwoJobs

LEMMA CoverageApart ==
  ASSUME NEW repo, generateGoCoveragePeriodic(repo), JobsApart(jobs)
  PROVE  JobsApart(jobs')
<1>1. CASE CoverageEntries(repo) = {}
  BY <1>1 DEF generateGoCoveragePeriodic
<1>2. CASE CoverageEntries(repo) # {}
  <2> DEFINE i == CHOOSE k \in CoverageEntries(repo) : \A h \in CoverageEntries(repo) : k <= h
             name == RepoNameForJob(repo) \o <<"go", "coverage">>
             b == [addMonitoringPubsubLabelsToJob(newbase(repo)) EXCEPT
                     !.command = "runner.sh", !.args = <<"coverage">>, !.account = "",
                     !.threshold = repositories[i].GoCoverageThreshold]
             j == Job("periodic", <<"ci">> \o name, b, Cron({1}, FALSE),
                      Annotations(repo.org \o repo.name, name, {}))
             js == <<j, BetaOf(j, Cron({getUTCtime(0)}, FALSE))>>
  <2>1. WriteAll("periodics", repo, js, {})
    BY <1>2 DEF generateGoCoveragePeriodic
  <2>2. "image" \in DOMAIN b
    BY DEF newbase, addMonitoringPubsubLabelsToJob
  <2> HIDE DEF b
  <2>3. {"base", "kind"} \subseteq DOMAIN j /\ j.base = b /\ j.cron = Cron({1}, FALSE)
    BY DEF Job
  <2> HIDE DEF j
  <2>4. Cardinality(j.cron.hours) = 1
    BY <2>3, OneHour, Zenon
  <2>5. Apart(j)
    BY <2>4 DEF Apart
  <2>6. \A x : Apart(BetaOf(j, x))
    BY <2>2, <2>3, BetaApart
  <2>7. JobsApart(js)
    BY <2>5, <2>6, TwoJobs
  <2> HIDE DEF js
  <2> QED
    BY <2>1, <2>7, WriteApart
<1> QED
  BY <1>1, <1>2

LEMMA PerfApart ==
  ASSUME NEW repo, generatePerfClusterUpdatePeriodicJobs(repo), JobsApart(jobs)
  PROVE  JobsApart(jobs')
<1> DEFINE i == perfClusterPeriodicJob(repo, <<"recreate", "clusters">>, Cron({7}, FALSE))
           j == perfClusterPeriodicJob(repo, <<"update", "clusters">>, Cron(0..23, FALSE))
<1>1. WriteAll("periodics", repo, <<i, j>>, {})
  BY DEF generatePerfClusterUpdatePeriodicJobs
<1>2. Apart(i) /\ Apart(j)
  BY OtherJobsApart DEF perfClusterPeriodicJob
<1> HIDE DEF i, j
<1>3. JobsApart(<<i, j>>)
  BY <1>2, TwoJobs
<1> QED
  BY <1>1, <1>3, WriteApart

LEMMA PostsubmitJobs ==
  ASSUME NEW data, generatePostsubmits(data)
  PROVE  \E js, grouped : /\ WriteAll("postsubmits", data.repo, js, grouped)
                          /\ JobsApart(js)
                          /\ js # <<>> => 1 \in grouped
<1> DEFINE cs == IF data.EnableGoCoverage THEN GoCoveragePostsubmits(data.repo) ELSE <<>>
           ps == IF data.EnablePerformanceTests THEN PerfPostsubmits(data.repo) ELSE <<>>
           repo == data.repo
<1>1. JobsApart(<<>>)
  <2>1. <<>> \in Seq({}) /\ \A j \in {} : Apart(j)
    OBVIOUS
  <2> QED
    BY <2>1, JobsOf
<1>2. JobsApart(GoCoveragePostsubmits(repo))
  <2> DEFINE name == <<"post">> \o RepoNameForJob(repo) \o <<"go", "coverage">>
             j == Job("postsubmit", name, ConfigureAccount(newbase(repo)), NoCron, NoAnnotations)
             dev == [j EXCEPT !.name = Append(@, "dev"), !.base.image = "coverage-dev"]
  <2> HIDE DEF repo
  <2>1. GoCoveragePostsubmits(repo) \in {<<j>>, <<j, dev>>}
    BY DEF GoCoveragePostsubmits
  <2>2. j.kind = "postsubmit" /\ "kind" \in DOMAIN j
    BY DEF Job
  <2>3. dev.kind = "postsubmit"
    <3> HIDE DEF j
    <3> QED
      BY <2>2
  <2> HIDE DEF j, dev
  <2>4. Apart(j) /\ Apart(dev)
    BY <2>2, <2>3, OtherKindApart
  <2> QED
    BY <2>1, <2>4, OneJob, TwoJobs
<1>3. JobsApart(PerfPostsubmits(repo))
  <2> DEFINE name == <<"post">> \o RepoNameForJob(repo) \o <<"reconcile", "clusters">>
             j == Job("postsubmit", name, perfClusterBaseProwJob(repo), NoCron, NoAnnotations)
  <2> HIDE DEF repo
  <2>1. PerfPostsubmits(repo) = <<j>>
    BY DEF PerfPostsubmits
  <2>2. Apart(j)
    BY OtherJobsApart
  <2> HIDE DEF j
  <2> QED
    BY <2>1, <2>2, OneJob
<1>4. JobsApart(cs) /\ JobsApart(ps)
  BY <1>1, <1>2, <1>3
<1> DEFINE js == cs \o ps
           grouped == {i \in DOMAIN js : i # 2 \/ Len(cs) # 2}
<1>5. WriteAll("postsubmits", repo, js, grouped)
  BY DEF generatePostsubmits
<1> HIDE DEF cs, ps
<1>6. JobsApart(js)
  BY <1>4, MoreJobs
<1>7. js # <<>> => 1 \in grouped
  <2>1. PICK S : js \in Seq(S)
    BY <1>6 DEF JobsApart
  <2> HIDE DEF js
  <2>2. js # <<>> => 1 \in DOMAIN js
    BY <2>1
  <2> QED
    BY <2>2
<1> HIDE DEF js, grouped
<1> QED
  BY <1>5, <1>6, <1>7

LEMMA PostsubmitApart ==
  ASSUME NEW data, generatePostsubmits(data), JobsApart(jobs)
  PROVE  JobsApart(jobs')
<1>1. PICK js, grouped : WriteAll("postsubmits", data.repo, js, grouped) /\ JobsApart(js)
  BY PostsubmitJobs
<1> QED
  BY <1>1, WriteApart

-----------------------------------------------------------------------------
(* The calls of the generators.                                            *)

TimedCall == [call : {"job", "coverage"}, repo : [org : Seq(STRING), name : Seq(STRING)],
              job : TimedJob]

LEMMA CallsTimed ==
  ASSUME NEW section \in Seq(TimedSection)
  PROVE  Calls(section, TRUE) \in Seq(TimedCall)
<1> DEFINE calls(i) == [k \in DOMAIN section[i].jobs |->
                          [call |-> "job", repo |-> section[i].repo, job |-> section[i].jobs[k]]]
           last(i)  == <<[call |-> "coverage", repo |-> section[i].repo, job |-> <<>>]>>
           ss       == [i \in DOMAIN section |-> calls(i) \o last(i)]
<1>1. Calls(section, TRUE) = FlattenSeq(ss)
  BY DEF Calls
<1>2. ASSUME NEW i \in DOMAIN section
      PROVE  calls(i) \o last(i) \in Seq(TimedCall)
  <2>1. section[i] \in TimedSection
    OBVIOUS
  <2> DEFINE repo == section[i].repo
             js == section[i].jobs
  <2>2. repo \in [org : Seq(STRING), name : Seq(STRING)] /\ js \in Seq(TimedJob)
    BY <2>1 DEF TimedSection
  <2>3. <<>> \in TimedJob
    BY DEF TimedJob
  <2> HIDE DEF repo, js
  <2>4. [call |-> "coverage", repo |-> repo, job |-> <<>>] \in TimedCall
    BY <2>2, <2>3 DEF TimedCall
  <2>5. \A k \in DOMAIN js : [call |-> "job", repo |-> repo, job |-> js[k]] \in TimedCall
    BY <2>2 DEF TimedCall
  <2>6. DOMAIN js = 1..Len(js) /\ Len(js) \in Nat
    BY <2>2
  <2>7. [k \in DOMAIN js |-> [call |-> "job", repo |-> repo, job |-> js[k]]] \in Seq(TimedCall)
    BY <2>5, <2>6
  <2>8. <<[call |-> "coverage", repo |-> repo, job |-> <<>>]>> \in Seq(TimedCall)
    BY <2>4
  <2> QED
    BY <2>7, <2>8 DEF repo, js
<1>3. ss \in Seq(Seq(TimedCall))
  <2> HIDE DEF calls, last
  <2>1. DOMAIN section = 1..Len(section) /\ Len(section) \in Nat
    OBVIOUS
  <2> QED
    BY <1>2, <2>1
<1> HIDE DEF ss
<1> QED
  BY <1>1, <1>3, FlattenType

\* The file and the calls of the periodic jobs have timeouts that are not negative, and
\* every job written so far holds RunsApart.
ApartInv ==
    /\ FileInv
    /\ pc = "periodics" => todo \in Seq(TimedCall)
    /\ JobsApart(jobs)

LEMMA ApartInit ==
  ASSUME TimeoutsNatural, Init
  PROVE  ApartInv
<1>1. JobsApart(<<>>)
  <2>1. <<>> \in Seq({}) /\ \A j \in {} : Apart(j)
    OBVIOUS
  <2> QED
    BY <2>1, JobsOf
<1>2. FileInv
  BY FileInit
<1>3. jobs = <<>> /\ pc = "start"
  BY DEF Init
<1> QED
  BY <1>1, <1>2, <1>3 DEF ApartInv

LEMMA ApartNext ==
  ASSUME ApartInv, [Next]_vars
  PROVE  ApartInv'
<1> USE DEF ApartInv
<1>1. ASSUME NEW released \in Branches, Upgrade(released) PROVE ApartInv'
  <2>1. FileInv'
    BY <1>1, FileUpgrade
  <2>2. UNCHANGED <<pc, todo, jobs>>
    BY <1>1 DEF Upgrade
  <2> QED
    BY <2>1, <2>2
<1>2. ASSUME Fatal PROVE ApartInv'
  BY <1>2 DEF Fatal, FileInv
<1>3. CASE ReadConfig
  BY <1>3 DEF ReadConfig, Unchanged, FileInv
<1>4. CASE PresubmitCall
  <2> DEFINE c == Head(todo)
  <2>1. CASE PresubmitFatal(c.repo, c.job)
    BY <1>2, <1>4, <2>1 DEF PresubmitCall
  <2>2. CASE ~PresubmitFatal(c.repo, c.job)
    <3>1. generatePresubmit(c.repo, c.job) /\ Done1 /\ pc = "presubmits"
      BY <1>4, <2>2 DEF PresubmitCall
    <3>2. UNCHANGED jobs
          \/ \E d, grouped : WriteAll("presubmits", c.repo, PresubmitJobs(d, c.repo, c.job), grouped)
      BY <3>1 DEF generatePresubmit
    <3>3. JobsApart(jobs')
      <4> HIDE DEF c
      <4> QED
        BY <3>2, PresubmitApart, WriteApart
    <3> QED
      BY <3>1, <3>3 DEF Done1, Unchanged, FileInv
  <2> QED
    BY <2>1, <2>2
<1>5. CASE PeriodicCall
  <2> DEFINE c == Head(todo)
  <2>1. pc = "periodics" /\ todo \in Seq(TimedCall) /\ todo # <<>>
    BY <1>5 DEF PeriodicCall
  <2>2. c \in TimedCall /\ Tail(todo) \in Seq(TimedCall)
    BY <2>1
  <2> HIDE DEF c
  <2>3. \/ generateGoCoveragePeriodic(c.repo) /\ Done1
        \/ Fatal
        \/ generatePeriodic(c.repo, c.job) /\ Done1
    BY <1>5 DEF PeriodicCall, c
  <2>4. ASSUME Done1, JobsApart(jobs') PROVE ApartInv'
    BY <2>1, <2>2, <2>4 DEF Done1, Unchanged, FileInv
  <2>5. CASE generateGoCoveragePeriodic(c.repo) /\ Done1
    BY <2>4, <2>5, CoverageApart
  <2>6. CASE generatePeriodic(c.repo, c.job) /\ Done1
    <3>1. UNCHANGED jobs
          \/ WriteAll("periodics", c.repo, PeriodicJobs(Periodic(c.repo, c.job), c.repo, c.job), {})
      BY <2>6 DEF generatePeriodic
    <3>2. c.job \in TimedJob
      BY <2>2 DEF TimedCall
    <3>3. JobsApart(PeriodicJobs(Periodic(c.repo, c.job), c.repo, c.job))
      BY <3>2, PeriodicApart
    <3>4. JobsApart(jobs')
      BY <3>1, <3>3, WriteApart
    <3> QED
      BY <2>4, <2>6, <3>4
  <2> QED
    BY <1>2, <2>3, <2>5, <2>6
<1>6. ASSUME Done1, pc # "periodics", JobsApart(jobs') PROVE ApartInv'
  BY <1>6 DEF Done1, Unchanged, FileInv
<1>7. CASE CoverageCall
  BY <1>6, <1>7, CoverageApart DEF CoverageCall
<1>8. CASE PerfCall
  BY <1>6, <1>8, PerfApart DEF PerfCall
<1>9. CASE PostsubmitCall
  BY <1>6, <1>9, PostsubmitApart DEF PostsubmitCall
<1>10. CASE Phases
  <2>1. UNCHANGED <<file, jobs>>
    BY <1>10 DEF Phases, NextPhase, Unchanged
  <2>2. pc' = "periodics" => todo' = Calls(file.periodics, TRUE)
    BY <1>10 DEF Phases, NextPhase
  <2>3. Calls(file.periodics, TRUE) \in Seq(TimedCall)
    BY CallsTimed DEF FileInv
  <2> QED
    BY <2>1, <2>2, <2>3 DEF FileInv
<1>11. CASE K8sTestgrid
  BY <1>2, <1>11 DEF K8sTestgrid, FileInv
<1>12. CASE CollectCall
  BY <1>6, <1>12 DEF CollectCall
<1>13. CASE Testgrid
  BY <1>13 DEF Testgrid, FileInv
<1>14. CASE UNCHANGED vars
  BY <1>14 DEF vars, FileInv
<1> QED
  BY <1>1, <1>2, <1>3, <1>4, <1>5, <1>7, <1>8, <1>9, <1>10, <1>11, <1>12, <1>13, <1>14
  DEF Next, GitHubFails

\* Two runs of a generated job are at least as far apart as its timeout and five minutes,
\* whatever the files, branches and filters: generateCron (periodic_config.go:89), if the
\* timeouts of the files are not negative and the hours divide the day.
THEOREM RunsApartSafe ==
  ASSUME TimeoutsNatural
  PROVE  Spec => []RunsApart
<1>1. Init => ApartInv
  BY ApartInit
<1>2. ApartInv /\ [Next]_vars => ApartInv'
  BY ApartNext
<1>3. ApartInv => RunsApart
  <2> SUFFICES ASSUME ApartInv, NEW i \in DOMAIN jobs
               PROVE  Apart(jobs[i])
    BY DEF RunsApart, Apart
  <2>1. PICK S : jobs \in Seq(S) /\ \A j \in S : Apart(j)
    BY DEF ApartInv, JobsApart
  <2>2. jobs[i] \in S
    BY <2>1
  <2> QED
    BY <2>1, <2>2
<1> QED
  BY <1>1, <1>2, <1>3, PTL DEF Spec

-----------------------------------------------------------------------------
(* The output.                                                             *)

IsLine(l) ==
    /\ l.what \in {"section", "repo", "job"}
    /\ l.what = "section" => l.repo = NoRepo
    /\ l.what = "repo" => l.repo # NoRepo

Lines(ls) == \E S : ls \in Seq(S) /\ \A l \in S : IsLine(l)

\* Headings are told apart by what they are headings of.
SameLine(l, m) == l.what = m.what /\ l.title = m.title /\ l.repo = m.repo

\* Line k is the last of its kind among the first n.
LastOf(ls, n, what, k) ==
    k \in 1..n /\ ls[k].what = what /\ \A h \in (k + 1)..n : ls[h].what # what

\* Line i, if it is a job, is under the headings of its section and repository.
JobUnder(ls, i) ==
    ls[i].what = "job" =>
        /\ \E k : LastOf(ls, i - 1, "section", k) /\ ls[k].title = ls[i].title
        /\ ls[i].title # "periodics" =>
              \E k : LastOf(ls, i - 1, "repo", k) /\ ls[k].repo = ls[i].repo

Grouped(ls) ==
    /\ Lines(ls)
    /\ \A i, k \in DOMAIN ls : ls[i].what # "job" /\ SameLine(ls[i], ls[k]) => i = k
    /\ \A i \in DOMAIN ls : JobUnder(ls, i)

\* If a section or a repository has a heading, no other one has followed.
SectionOpen(ls, title) ==
    \A k \in DOMAIN ls : ls[k].what = "section" /\ ls[k].title = title =>
        LastOf(ls, Len(ls), "section", k)

RepoOpen(ls, title, repo) ==
    \A k \in DOMAIN ls : ls[k].what = "repo" /\ ls[k].title = title /\ ls[k].repo = repo =>
        LastOf(ls, Len(ls), "repo", k)

Open(ls, title, repo) ==
    SectionOpen(ls, title) /\ (title # "periodics" => RepoOpen(ls, title, repo))

HasSection(ls, title) == \E k \in DOMAIN ls : ls[k].what = "section" /\ ls[k].title = title

HasRepo(ls, title, repo) ==
    \E k \in DOMAIN ls : ls[k].what = "repo" /\ ls[k].title = title /\ ls[k].repo = repo

\* The lines that come after ls are of this section and repository.
Added(ls, new, title, repo) ==
    /\ Len(ls) \in Nat /\ Len(new) \in Nat /\ Len(ls) <= Len(new)
    /\ DOMAIN ls = 1..Len(ls) /\ DOMAIN new = 1..Len(new)
    /\ \A k \in 1..Len(ls) : new[k] = ls[k]
    /\ \A k \in (Len(ls) + 1)..Len(new) :
          new[k].title = title /\ (new[k].what = "repo" => new[k].repo = repo)

LEMMA AppendLine ==
  ASSUME NEW ls, Lines(ls), NEW l, IsLine(l)
  PROVE  /\ Lines(Append(ls, l))
         /\ Len(ls) \in Nat /\ DOMAIN ls = 1..Len(ls)
         /\ Len(Append(ls, l)) = Len(ls) + 1 /\ DOMAIN Append(ls, l) = 1..(Len(ls) + 1)
         /\ \A k \in 1..Len(ls) : Append(ls, l)[k] = ls[k]
         /\ Append(ls, l)[Len(ls) + 1] = l
<1>1. PICK S : ls \in Seq(S) /\ \A m \in S : IsLine(m)
  BY DEF Lines
<1> DEFINE R == S \cup {l}
<1>2. ls \in Seq(R) /\ l \in R /\ \A m \in R : IsLine(m)
  BY <1>1
<1> HIDE DEF R
<1>3. Append(ls, l) \in Seq(R)
  BY <1>2
<1>4. Lines(Append(ls, l))
  BY <1>2, <1>3 DEF Lines
<1> QED
  BY <1>2, <1>4

LEMMA LinesAre ==
  ASSUME NEW ls, Lines(ls)
  PROVE  Len(ls) \in Nat /\ DOMAIN ls = 1..Len(ls) /\ \A k \in DOMAIN ls : IsLine(ls[k])
<1>1. PICK S : ls \in Seq(S) /\ \A m \in S : IsLine(m)
  BY DEF Lines
<1> QED
  BY <1>1

\* A line that is written under the headings of its section and repository.
LEMMA AppendGrouped ==
  ASSUME NEW ls, NEW title, NEW repo, Grouped(ls), Open(ls, title, repo),
         NEW l, IsLine(l), l.title = title, l.what = "repo" => l.repo = repo,
         l.what # "job" => \A k \in DOMAIN ls : ~SameLine(ls[k], l),
         l.what = "job" => /\ l.repo = repo /\ HasSection(ls, title)
                           /\ title # "periodics" => HasRepo(ls, title, repo)
  PROVE  /\ Grouped(Append(ls, l)) /\ Open(Append(ls, l), title, repo)
         /\ Added(ls, Append(ls, l), title, repo)
         /\ HasSection(ls, title) \/ l.what = "section" => HasSection(Append(ls, l), title)
         /\ HasRepo(ls, title, repo) \/ l.what = "repo" => HasRepo(Append(ls, l), title, repo)
<1> DEFINE new == Append(ls, l)
           n == Len(ls)
<1>1. /\ Lines(new) /\ n \in Nat /\ DOMAIN ls = 1..n
      /\ Len(new) = n + 1 /\ DOMAIN new = 1..(n + 1)
      /\ \A k \in 1..n : new[k] = ls[k]
      /\ new[n + 1] = l
  BY AppendLine DEF Grouped
<1>2. \A k \in 1..n : IsLine(ls[k])
  BY <1>1, LinesAre DEF Grouped
<1> HIDE DEF new, n
<1>3. ASSUME NEW i \in 1..(n + 1), NEW k \in 1..(n + 1), new[i].what # "job", SameLine(new[i], new[k])
      PROVE  i = k
  <2>1. i \in 1..n \/ i = n + 1
    BY <1>1
  <2>2. k \in 1..n \/ k = n + 1
    BY <1>1
  <2>3. CASE i \in 1..n /\ k \in 1..n
    BY <1>1, <1>3, <2>3 DEF Grouped
  <2>4. CASE i \in 1..n /\ k = n + 1
    BY <1>1, <1>3, <2>4 DEF SameLine
  <2>5. CASE k \in 1..n /\ i = n + 1
    BY <1>1, <1>3, <2>5 DEF SameLine
  <2> QED
    BY <2>1, <2>2, <2>3, <2>4, <2>5
<1>4. ASSUME NEW m \in 0..n, NEW what, NEW k, LastOf(ls, m, what, k)
      PROVE  LastOf(new, m, what, k) /\ new[k] = ls[k]
  BY <1>1, <1>4 DEF LastOf
<1>5. ASSUME NEW i \in 1..(n + 1)
      PROVE  JobUnder(new, i)
  <2>1. CASE i \in 1..n
    <3>1. JobUnder(ls, i) /\ new[i] = ls[i] /\ i - 1 \in 0..n
      BY <1>1, <2>1 DEF Grouped
    <3> QED
      BY <1>4, <3>1 DEF JobUnder
  <2>2. CASE i = n + 1 /\ l.what = "job"
    <3>1. PICK k \in 1..n : ls[k].what = "section" /\ ls[k].title = title
      BY <1>1, <2>2 DEF HasSection
    <3>2. LastOf(new, n, "section", k) /\ new[k].title = title
      BY <1>1, <1>4, <3>1 DEF Open, SectionOpen, n
    <3>3. ASSUME title # "periodics"
          PROVE  \E h : LastOf(new, n, "repo", h) /\ new[h].repo = repo
      <4>1. PICK h \in 1..n : ls[h].what = "repo" /\ ls[h].title = title /\ ls[h].repo = repo
        BY <1>1, <2>2, <3>3 DEF HasRepo
      <4>2. LastOf(ls, n, "repo", h)
        BY <1>1, <3>3, <4>1 DEF Open, RepoOpen, n
      <4> QED
        BY <1>1, <1>4, <4>1, <4>2
    <3>4. i - 1 = n /\ new[i] = l
      BY <1>1, <2>2
    <3> QED
      BY <2>2, <3>2, <3>3, <3>4 DEF JobUnder
  <2>3. CASE i = n + 1 /\ l.what # "job"
    BY <1>1, <2>3 DEF JobUnder
  <2> QED
    BY <1>1, <2>1, <2>2, <2>3
<1>6. Grouped(new)
  BY <1>1, <1>3, <1>5 DEF Grouped
<1>7. ASSUME NEW what, NEW k \in 1..n, LastOf(ls, n, what, k), l.what # what
      PROVE  LastOf(new, n + 1, what, k)
  <2>1. ASSUME NEW h \in (k + 1)..(n + 1)
        PROVE  new[h].what # what
    <3>1. h \in (k + 1)..n \/ h = n + 1
      BY <1>1
    <3> QED
      BY <1>1, <1>7, <3>1 DEF LastOf
  <2> QED
    BY <1>1, <1>7, <2>1 DEF LastOf
<1>8. SectionOpen(new, title)
  <2> SUFFICES ASSUME NEW k \in 1..(n + 1), new[k].what = "section", new[k].title = title
               PROVE  LastOf(new, n + 1, "section", k)
    BY <1>1 DEF SectionOpen
  <2>1. CASE k = n + 1
    BY <1>1, <2>1 DEF LastOf
  <2>2. CASE k \in 1..n
    <3>1. LastOf(ls, n, "section", k) /\ ls[k].repo = NoRepo
      BY <1>1, <1>2, <2>2 DEF Open, SectionOpen, IsLine, n
    <3>2. l.what # "section"
      BY <1>1, <2>2, <3>1 DEF SameLine, IsLine
    <3> QED
      BY <1>7, <2>2, <3>1, <3>2
  <2> QED
    BY <1>1, <2>1, <2>2
<1>9. ASSUME title # "periodics"
      PROVE  RepoOpen(new, title, repo)
  <2> SUFFICES ASSUME NEW k \in 1..(n + 1), new[k].what = "repo", new[k].title = title,
                      new[k].repo = repo
               PROVE  LastOf(new, n + 1, "repo", k)
    BY <1>1 DEF RepoOpen
  <2>1. CASE k = n + 1
    BY <1>1, <2>1 DEF LastOf
  <2>2. CASE k \in 1..n
    <3>1. LastOf(ls, n, "repo", k)
      BY <1>1, <1>9, <2>2 DEF Open, RepoOpen, n
    <3>2. l.what # "repo"
      BY <1>1, <2>2, <3>1 DEF SameLine
    <3> QED
      BY <1>7, <2>2, <3>1, <3>2
  <2> QED
    BY <1>1, <2>1, <2>2
<1>10. Added(ls, new, title, repo)
  <2>1. \A k \in (n + 1)..(n + 1) : k = n + 1
    BY <1>1
  <2> QED
    BY <1>1, <2>1 DEF Added, n
<1>11. HasSection(ls, title) \/ l.what = "section" => HasSection(new, title)
  BY <1>1 DEF HasSection
<1>12. HasRepo(ls, title, repo) \/ l.what = "repo" => HasRepo(new, title, repo)
  BY <1>1 DEF HasRepo
<1> QED
  BY <1>6, <1>8, <1>9, <1>10, <1>11, <1>12 DEF Open, new

LEMMA AddedMore ==
  ASSUME NEW title, NEW repo, NEW l1, NEW l2, NEW l3,
         Added(l1, l2, title, repo), Added(l2, l3, title, repo)
  PROVE  Added(l1, l3, title, repo)
<1>1. ASSUME NEW k \in (Len(l1) + 1)..Len(l3)
      PROVE  l3[k].title = title /\ (l3[k].what = "repo" => l3[k].repo = repo)
  <2>1. CASE k <= Len(l2)
    <3>1. k \in (Len(l1) + 1)..Len(l2) /\ k \in 1..Len(l2)
      BY <2>1 DEF Added
    <3> QED
      BY <3>1 DEF Added
  <2>2. CASE k > Len(l2)
    <3>1. k \in (Len(l2) + 1)..Len(l3)
      BY <2>2 DEF Added
    <3> QED
      BY <3>1 DEF Added
  <2> QED
    BY <2>1, <2>2 DEF Added
<1>2. \A k \in 1..Len(l1) : l3[k] = l1[k]
  <2> SUFFICES ASSUME NEW k \in 1..Len(l1) PROVE l3[k] = l1[k]
    OBVIOUS
  <2>1. k \in 1..Len(l2)
    BY DEF Added
  <2> QED
    BY <2>1 DEF Added
<1> QED
  BY <1>1, <1>2 DEF Added

LEMMA TemplateGrouped ==
  ASSUME jobNameFilter = <<>>,
         NEW ls, NEW title, NEW repo, NEW name, Grouped(ls), Open(ls, title, repo),
         NEW groupByRepo \in BOOLEAN, groupByRepo => repo # NoRepo,
         title # "periodics" /\ ~groupByRepo => HasRepo(ls, title, repo)
  PROVE  LET new == executeJobTemplate(ls, title, repo, groupByRepo, name)
         IN  /\ Grouped(new) /\ Open(new, title, repo) /\ Added(ls, new, title, repo)
             /\ title # "periodics" => HasRepo(new, title, repo)
<1> DEFINE section == Line("section", title, NoRepo, <<>>)
           heading == Line("repo", title, repo, <<>>)
           line    == Line("job", title, repo, name)
           l1 == IF HasHeading(ls, title, NoRepo) THEN ls ELSE Append(ls, section)
           l2 == IF ~groupByRepo \/ HasHeading(l1, title, repo) THEN l1 ELSE Append(l1, heading)
           new == Append(l2, line)
<1>1. executeJobTemplate(ls, title, repo, groupByRepo, name) = new
  BY DEF executeJobTemplate
<1>2. /\ section.what = "section" /\ section.title = title /\ section.repo = NoRepo
      /\ heading.what = "repo" /\ heading.title = title /\ heading.repo = repo
      /\ line.what = "job" /\ line.title = title /\ line.repo = repo
  BY DEF Line
<1>3. ASSUME NEW l, Grouped(l)
      PROVE  Added(l, l, title, repo)
  BY <1>3, LinesAre DEF Added, Grouped
<1> HIDE DEF section, heading, line
<1>4. /\ Grouped(l1) /\ Open(l1, title, repo) /\ Added(ls, l1, title, repo)
      /\ HasSection(l1, title)
      /\ HasRepo(ls, title, repo) => HasRepo(l1, title, repo)
  <2>1. CASE HasHeading(ls, title, NoRepo)
    <3>1. HasSection(ls, title)
      BY <2>1, LinesAre DEF HasHeading, HasSection, Grouped, IsLine
    <3> QED
      BY <1>3, <2>1, <3>1
  <2>2. CASE ~HasHeading(ls, title, NoRepo)
    <3>1. \A k \in DOMAIN ls : ~SameLine(ls[k], section)
      BY <1>2, <2>2 DEF HasHeading, SameLine
    <3>2. IsLine(section)
      BY <1>2 DEF IsLine
    <3>3. l1 = Append(ls, section)
      BY <2>2
    <3> HIDE DEF l1
    <3> QED
      BY <1>2, <3>1, <3>2, <3>3, AppendGrouped
  <2> QED
    BY <2>1, <2>2
<1> HIDE DEF l1
<1>5. /\ Grouped(l2) /\ Open(l2, title, repo) /\ Added(l1, l2, title, repo)
      /\ HasSection(l2, title)
      /\ title # "periodics" => HasRepo(l2, title, repo)
  <2>1. CASE ~groupByRepo
    <3>1. l2 = l1
      BY <2>1
    <3> HIDE DEF l2
    <3> QED
      BY <1>3, <1>4, <2>1, <3>1
  <2>2. CASE groupByRepo /\ HasHeading(l1, title, repo)
    <3>1. l2 = l1
      BY <2>2
    <3>2. HasRepo(l1, title, repo)
      BY <1>4, <2>2, LinesAre DEF HasHeading, HasRepo, Grouped, IsLine
    <3> HIDE DEF l2
    <3> QED
      BY <1>3, <1>4, <3>1, <3>2
  <2>3. CASE groupByRepo /\ ~HasHeading(l1, title, repo)
    <3>1. \A k \in DOMAIN l1 : ~SameLine(l1[k], heading)
      BY <1>2, <2>3 DEF HasHeading, SameLine
    <3>2. IsLine(heading)
      BY <1>2, <2>3 DEF IsLine
    <3>3. l2 = Append(l1, heading)
      BY <2>3
    <3> HIDE DEF l2
    <3> QED
      BY <1>2, <1>4, <3>1, <3>2, <3>3, AppendGrouped
  <2> QED
    BY <2>1, <2>2, <2>3
<1> HIDE DEF l2
<1>6. /\ Grouped(new) /\ Open(new, title, repo) /\ Added(l2, new, title, repo)
      /\ title # "periodics" => HasRepo(new, title, repo)
  <2>1. IsLine(line)
    BY <1>2 DEF IsLine
  <2> QED
    BY <1>2, <1>5, <2>1, AppendGrouped
<1>7. Added(ls, new, title, repo)
  <2> HIDE DEF new
  <2> QED
    BY <1>4, <1>5, <1>6, AddedMore
<1> QED
  BY <1>1, <1>6, <1>7

\* All jobs of one call.
LEMMA WriteGrouped ==
  ASSUME jobNameFilter = <<>>,
         NEW title, NEW repo, NEW R, NEW js \in Seq(R), NEW grouped,
         WriteAll(title, repo, js, grouped),
         Grouped(output), Open(output, title, repo),
         IF title = "periodics" THEN grouped = {}
         ELSE repo # NoRepo /\ (js # <<>> => 1 \in grouped)
  PROVE  Grouped(output') /\ Open(output', title, repo) /\ Added(output, output', title, repo)
<1> DEFINE n == Len(js)
           s == [i \in DOMAIN js |-> i]
           f == [loop |-> "output", title |-> title, repo |-> repo, grouped |-> grouped, js |-> js]
           g == CHOOSE h : h = [T \in SUBSET DOMAIN s |->
                    IF T = {} THEN output
                    ELSE executeJobTemplate(h[T \ {Max(T)}], title, repo, s[Max(T)] \in grouped,
                                            js[s[Max(T)]].name)]
<1>1. n \in Nat /\ DOMAIN s = 1..n /\ \A k \in 1..n : s[k] = k
  OBVIOUS
<1>2. \A x, e : Step(f, x, e) = executeJobTemplate(x, title, repo, e \in grouped, js[e].name)
  BY DEF Step
<1>3. output' = g[1..n]
  BY <1>1 DEF WriteAll, FoldLeft, MapThenFoldSet
<1>4. n > 0 => js # <<>>
  OBVIOUS
<1> HIDE DEF f, n, s
<1>5. Looped(f, output, s, g)
  <2>1. \E h : Looped(f, output, s, h)
    BY <1>1, LoopExists
  <2> DEFINE body(h, T) == executeJobTemplate(h[T \ {Max(T)}], title, repo, s[Max(T)] \in grouped,
                                              js[s[Max(T)]].name)
  <2>2. \A h, T : body(h, T) = Step(f, h[T \ {Max(T)}], s[Max(T)])
    BY <1>2, Zenon
  <2>3. \E h : h = [T \in SUBSET DOMAIN s |-> IF T = {} THEN output ELSE body(h, T)]
    <3> HIDE DEF body
    <3> QED
      BY <2>1, <2>2 DEF Looped
  <2>4. g = [T \in SUBSET DOMAIN s |-> IF T = {} THEN output ELSE body(g, T)]
    BY <2>3, Zenon
  <2> HIDE DEF g, body
  <2> QED
    BY <2>2, <2>4 DEF Looped
<1> HIDE DEF g
<1>6. /\ g[1..0] = output
      /\ \A k \in 1..n : g[1..k] = executeJobTemplate(g[1..(k - 1)], title, repo, k \in grouped,
                                                      js[k].name)
  <2>0. n \in Nat /\ DOMAIN s = 1..n
    BY <1>1
  <2>1. g[1..0] = output /\ \A k \in 1..n : g[1..k] = Step(f, g[1..(k - 1)], s[k])
    BY <1>5, <2>0, RoundByRound
  <2> QED
    BY <1>1, <1>2, <2>1, Zenon
<1> DEFINE Good(k, ls) == /\ Grouped(ls) /\ Open(ls, title, repo) /\ Added(output, ls, title, repo)
                          /\ k > 0 /\ title # "periodics" => HasRepo(ls, title, repo)
           T == {k \in 0..n : Good(k, g[1..k])}
<1>7. 0 \in T
  <2>1. Added(output, output, title, repo)
    BY LinesAre DEF Added, Grouped
  <2> QED
    BY <1>1, <1>6, <2>1
<1>8. ASSUME NEW k \in 1..n, k - 1 \in T
      PROVE  k \in T
  <2> DEFINE ls == g[1..(k - 1)]
             new == g[1..k]
             name == js[k].name
  <2>1. Good(k - 1, ls)
    BY <1>8
  <2>2. new = executeJobTemplate(ls, title, repo, k \in grouped, name)
    BY <1>6
  <2>3. (k \in grouped) \in BOOLEAN
    OBVIOUS
  <2>4. k \in grouped => repo # NoRepo
    OBVIOUS
  <2>5. title # "periodics" /\ k \notin grouped => HasRepo(ls, title, repo)
    <3>1. CASE k = 1
      BY <1>1, <1>4, <3>1
    <3>2. CASE k # 1
      <4>1. k - 1 > 0
        BY <1>1, <3>2
      <4> QED
        BY <2>1, <4>1
    <3> QED
      BY <3>1, <3>2
  <2> HIDE DEF ls, new, name
  <2>6. /\ Grouped(new) /\ Open(new, title, repo) /\ Added(ls, new, title, repo)
        /\ title # "periodics" => HasRepo(new, title, repo)
    BY <2>1, <2>2, <2>3, <2>4, <2>5, TemplateGrouped
  <2>7. Added(output, new, title, repo)
    BY <2>1, <2>6, AddedMore
  <2>8. Good(k, new)
    BY <2>6, <2>7
  <2> QED
    BY <1>1, <2>8 DEF new
<1>9. n \in T
  <2> HIDE DEF T
  <2> QED
    BY <1>1, <1>7, <1>8, AllRounds
<1> QED
  BY <1>3, <1>9

-----------------------------------------------------------------------------
(* Lists of repositories in which those of one repository are together.    *)

ListOfRepos(s) == \E S : s \in Seq(S) /\ \A x \in S : "repo" \in DOMAIN x /\ x.repo # NoRepo

Together(s) ==
    \A i, j, k \in DOMAIN s : i < j /\ j < k /\ s[i].repo = s[k].repo => s[j].repo = s[i].repo

\* The calls of a repository in the list follow its last entry in the list, and come first.
After(s, calls) ==
    \A i \in DOMAIN s, k \in DOMAIN calls : s[i].repo = calls[k].repo =>
        /\ \A h \in DOMAIN s : h > i => s[h].repo = s[i].repo
        /\ \A h \in DOMAIN calls : h < k => calls[h].repo = s[i].repo

\* The calls of a repository with a heading come first, and no other heading has followed.
HeadingsOpen(ls, title, calls) ==
    \A i \in DOMAIN ls, k \in DOMAIN calls :
        ls[i].what = "repo" /\ ls[i].title = title /\ ls[i].repo = calls[k].repo =>
            /\ LastOf(ls, Len(ls), "repo", i)
            /\ \A h \in DOMAIN calls : h < k => calls[h].repo = ls[i].repo

LEMMA ListFacts ==
  ASSUME NEW s, ListOfRepos(s)
  PROVE  /\ Len(s) \in Nat /\ DOMAIN s = 1..Len(s)
         /\ \A i \in DOMAIN s : "repo" \in DOMAIN s[i] /\ s[i].repo # NoRepo
         /\ s # <<>> => /\ ListOfRepos(Tail(s)) /\ Head(s) = s[1] /\ 1 \in DOMAIN s
                        /\ DOMAIN Tail(s) = 1..(Len(s) - 1)
                        /\ \A i \in DOMAIN Tail(s) : Tail(s)[i] = s[i + 1] /\ i + 1 \in DOMAIN s
<1>1. PICK S : s \in Seq(S) /\ \A x \in S : "repo" \in DOMAIN x /\ x.repo # NoRepo
  BY DEF ListOfRepos
<1>2. s # <<>> => Tail(s) \in Seq(S)
  BY <1>1
<1>3. s # <<>> => ListOfRepos(Tail(s))
  BY <1>1, <1>2 DEF ListOfRepos
<1> QED
  BY <1>1, <1>3

LEMMA ListOf ==
  ASSUME NEW n \in Nat, NEW s, s = [i \in 1..n |-> s[i]],
         \A i \in 1..n : "repo" \in DOMAIN s[i] /\ s[i].repo # NoRepo
  PROVE  ListOfRepos(s)
<1> DEFINE S == {s[i] : i \in 1..n}
<1>1. \A x \in S : "repo" \in DOMAIN x /\ x.repo # NoRepo
  OBVIOUS
<1>2. s \in Seq(S)
  <2>1. \A i \in 1..n : s[i] \in S
    OBVIOUS
  <2> HIDE DEF S
  <2> QED
    BY <2>1
<1> HIDE DEF S
<1> QED
  BY <1>1, <1>2 DEF ListOfRepos

\* Lists one after the other keep repositories together if they are together in the list
\* of their repositories.
LEMMA TogetherFlatten ==
  ASSUME NEW S, NEW ss \in Seq(Seq(S)), NEW r,
         \A i \in DOMAIN ss : \A k \in DOMAIN ss[i] : ss[i][k].repo = r[i],
         \A i, j, k \in DOMAIN ss : i < j /\ j < k /\ r[i] = r[k] => r[j] = r[i]
  PROVE  Together(FlattenSeq(ss))
<1> DEFINE n == Len(ss)
           g == CHOOSE h : h = [i \in 1..n |-> Chained(ss, h, i)]
<1>1. n \in Nat /\ DOMAIN ss = 1..n /\ \A i \in 1..n : ss[i] \in Seq(S)
  OBVIOUS
<1>2. g = [i \in 1..n |-> Chained(ss, g, i)]
  BY <1>1, ChainExists
<1>5. \A a, b, c \in 1..n : a <= b /\ b <= c /\ r[a] = r[c] => r[b] = r[a]
  <2> SUFFICES ASSUME NEW a \in 1..n, NEW b \in 1..n, NEW c \in 1..n,
                      a <= b, b <= c, r[a] = r[c], a # b, b # c
               PROVE  r[b] = r[a]
    OBVIOUS
  <2>1. a < b /\ b < c
    OBVIOUS
  <2> QED
    BY <1>1, <2>1
<1>3. CASE n = 0
  <2>1. FlattenSeq(ss) = ss /\ ss = <<>>
    BY <1>3 DEF FlattenSeq
  <2> QED
    BY <2>1 DEF Together
<1>4. CASE n # 0
  <2>1. FlattenSeq(ss) = g[n]
    BY <1>4 DEF FlattenSeq, Chained
  <2> HIDE DEF g, n
  <2> DEFINE Ordered(s, k, m) ==
               /\ s \in Seq(S) /\ m \in [1..Len(s) -> 1..k]
               /\ \A a \in 1..Len(s) : s[a].repo = r[m[a]]
               /\ \A a, b \in 1..Len(s) : a < b => m[a] <= m[b]
             T == {k \in 0..n : k = 0 \/ \E m : Ordered(g[k], k, m)}
  <2> HIDE DEF Ordered, T
  <2>2. 0 \in T
    BY <1>1 DEF T
  <2>3. ASSUME NEW k \in 1..n, k - 1 \in T
        PROVE  k \in T
    <3>0. n \in Nat
      BY <1>1
    <3>1. g[k] = Chained(ss, g, k) /\ k \in Nat /\ k >= 1
      <4>1. g[k] = Chained(ss, g, k)
        BY <1>2, Zenon
      <4> QED
        BY <3>0, <4>1
    <3>2. ss[k] \in Seq(S) /\ \A a \in 1..Len(ss[k]) : ss[k][a].repo = r[k]
      <4>1. ss[k] \in Seq(S) /\ k \in DOMAIN ss
        BY <1>1, Zenon
      <4>2. DOMAIN ss[k] = 1..Len(ss[k])
        BY <4>1
      <4> QED
        BY <4>1, <4>2, Zenon
    <3>3. CASE k = 1
      <4> DEFINE m == [a \in 1..Len(ss[k]) |-> k]
      <4>1. Ordered(ss[k], k, m)
        BY <3>1, <3>2 DEF Ordered
      <4>2. g[k] = ss[k]
        BY <3>1, <3>3 DEF Chained
      <4>3. \E p : Ordered(g[k], k, p)
        BY <4>1, <4>2
      <4> QED
        BY <1>1, <4>3 DEF T
    <3>4. CASE k # 1
      <4> DEFINE s == g[k - 1]
                 t == ss[k]
                 new == s \o t
      <4>1. g[k] = new
        BY <3>1, <3>4 DEF Chained
      <4>2. PICK p : Ordered(s, k - 1, p)
        BY <2>3, <3>1, <3>4 DEF T
      <4> DEFINE m == [a \in 1..Len(new) |-> IF a <= Len(s) THEN p[a] ELSE k]
      <4>3. /\ s \in Seq(S) /\ p \in [1..Len(s) -> 1..(k - 1)]
            /\ \A a \in 1..Len(s) : s[a].repo = r[p[a]]
            /\ \A a, b \in 1..Len(s) : a < b => p[a] <= p[b]
        BY <4>2 DEF Ordered
      <4>4. t \in Seq(S) /\ \A a \in 1..Len(t) : t[a].repo = r[k]
        BY <3>2
      <4> HIDE DEF s, t
      <4>10. /\ new \in Seq(S)
             /\ Len(s) \in Nat /\ Len(t) \in Nat /\ Len(new) = Len(s) + Len(t)
             /\ \A a \in 1..Len(new) : new[a] = IF a <= Len(s) THEN s[a] ELSE t[a - Len(s)]
        BY <4>3, <4>4
      <4> HIDE DEF new
      <4>5. m \in [1..Len(new) -> 1..k]
        <5> SUFFICES ASSUME NEW a \in 1..Len(new)
                     PROVE  (IF a <= Len(s) THEN p[a] ELSE k) \in 1..k
          OBVIOUS
        <5>0. a <= Len(s) => a \in 1..Len(s)
          BY <4>10
        <5>1. a <= Len(s) => a \in 1..Len(s) /\ p[a] \in 1..(k - 1)
          BY <4>3, <5>0
        <5> QED
          BY <3>1, <5>1
      <4>6. ASSUME NEW a \in 1..Len(new)
            PROVE  new[a].repo = r[m[a]]
        <5>1. CASE a <= Len(s)
          <6>1. a \in 1..Len(s)
            BY <4>10, <5>1
          <6>2. new[a] = s[a] /\ m[a] = p[a]
            BY <4>10, <5>1
          <6> QED
            BY <4>3, <6>1, <6>2
        <5>2. CASE ~(a <= Len(s))
          <6>1. a - Len(s) \in 1..Len(t)
            BY <4>10, <5>2
          <6>2. new[a] = t[a - Len(s)] /\ m[a] = k
            BY <4>10, <5>2
          <6> QED
            BY <4>4, <6>1, <6>2
        <5> QED
          BY <5>1, <5>2
      <4>7. ASSUME NEW a \in 1..Len(new), NEW b \in 1..Len(new), a < b
            PROVE  m[a] <= m[b]
        <5>0. a <= Len(s) => a \in 1..Len(s)
          BY <4>10
        <5>1. a <= Len(s) => a \in 1..Len(s) /\ p[a] \in 1..(k - 1)
          BY <4>3, <5>0
        <5>2. b <= Len(s) => b \in 1..Len(s)
          BY <4>3, <4>10
        <5>3. CASE b <= Len(s)
          BY <4>3, <4>4, <4>10, <4>7, <5>1, <5>2, <5>3
        <5>4. CASE b > Len(s)
          BY <3>1, <4>3, <4>10, <5>1, <5>4
        <5> QED
          BY <4>3, <4>10, <5>3, <5>4
      <4>8. Ordered(new, k, m)
        <5> HIDE DEF m
        <5> QED
          BY <4>3, <4>10, <4>5, <4>6, <4>7 DEF Ordered
      <4>9. \E q : Ordered(g[k], k, q)
        BY <4>1, <4>8
      <4> QED
        BY <1>1, <4>9 DEF T
    <3> QED
      BY <3>3, <3>4
  <2>4. n \in T
    BY <1>1, <2>2, <2>3, AllRounds
  <2>5. PICK m : Ordered(g[n], n, m)
    BY <1>4, <2>4 DEF T
  <2> DEFINE s == g[n]
  <2>6. /\ s \in Seq(S) /\ DOMAIN s = 1..Len(s) /\ m \in [1..Len(s) -> 1..n]
        /\ \A a \in 1..Len(s) : s[a].repo = r[m[a]]
        /\ \A a, b \in 1..Len(s) : a < b => m[a] <= m[b]
    BY <2>5 DEF Ordered
  <2> HIDE DEF s
  <2>7. ASSUME NEW i \in 1..Len(s), NEW j \in 1..Len(s), NEW k \in 1..Len(s),
               i < j, j < k, s[i].repo = s[k].repo
        PROVE  s[j].repo = s[i].repo
    <3>1. m[i] \in 1..n /\ m[j] \in 1..n /\ m[k] \in 1..n /\ m[i] <= m[j] /\ m[j] <= m[k]
      BY <2>6, <2>7
    <3>2. r[m[i]] = r[m[k]]
      BY <2>6, <2>7
    <3>3. r[m[j]] = r[m[i]]
      BY <1>5, <3>1, <3>2
    <3> QED
      BY <2>6, <3>3
  <2>8. Together(s)
    BY <2>6, <2>7 DEF Together
  <2> QED
    BY <2>1, <2>8 DEF s
<1> QED
  BY <1>3, <1>4

\* Changes of the list that leave its repositories where they are.
SameRepos(rs, new) ==
    /\ new = [i \in DOMAIN rs |-> new[i]]
    /\ \A i \in DOMAIN rs : "repo" \in DOMAIN new[i] /\ new[i].repo = rs[i].repo

LEMMA SameKept ==
  ASSUME NEW rs, NEW new, ListOfRepos(rs), Together(rs), SameRepos(rs, new)
  PROVE  ListOfRepos(new) /\ Together(new) /\ \A calls : After(rs, calls) => After(new, calls)
<1>1. Len(rs) \in Nat /\ DOMAIN rs = 1..Len(rs) /\ \A i \in DOMAIN rs : rs[i].repo # NoRepo
  BY ListFacts
<1>2. DOMAIN new = DOMAIN rs
  BY DEF SameRepos
<1>3. ListOfRepos(new)
  BY <1>1, ListOf DEF SameRepos
<1>4. Together(new)
  BY <1>2 DEF Together, SameRepos
<1>5. ASSUME NEW calls, After(rs, calls)
      PROVE  After(new, calls)
  BY <1>2, <1>5 DEF After, SameRepos
<1> QED
  BY <1>3, <1>4, <1>5

LEMMA PerformanceSame ==
  ASSUME NEW rs, ListOfRepos(rs), NEW repo, NEW job
  PROVE  SameRepos(rs, SetPerformance(rs, repo, job))
<1>1. PICK S : rs \in Seq(S) /\ \A x \in S : "repo" \in DOMAIN x
  BY DEF ListOfRepos
<1>2. rs = [i \in DOMAIN rs |-> rs[i]] /\ \A i \in DOMAIN rs : "repo" \in DOMAIN rs[i]
  BY <1>1
<1>3. CASE ~Has(job, "performance")
  BY <1>2, <1>3 DEF SetPerformance, SameRepos
<1>4. CASE Has(job, "performance")
  <2> DEFINE v == ValueOf(job, "performance").on
             new == [i \in DOMAIN rs |->
                       IF rs[i].repo.name = repo.name
                       THEN [rs[i] EXCEPT !.EnablePerformanceTests = v] ELSE rs[i]]
  <2>1. SetPerformance(rs, repo, job) = new
    BY <1>4 DEF SetPerformance
  <2> HIDE DEF v
  <2>2. \A i \in DOMAIN rs : "repo" \in DOMAIN new[i] /\ new[i].repo = rs[i].repo
    BY <1>2
  <2>3. new = [i \in DOMAIN rs |-> new[i]]
    OBVIOUS
  <2> HIDE DEF new
  <2> QED
    BY <2>1, <2>2, <2>3 DEF SameRepos
<1> QED
  BY <1>3, <1>4

LEMMA CoverageSame ==
  ASSUME NEW repo, generateGoCoveragePeriodic(repo), ListOfRepos(repositories)
  PROVE  SameRepos(repositories, repositories')
<1>1. PICK S : repositories \in Seq(S) /\ \A x \in S : "repo" \in DOMAIN x
  BY DEF ListOfRepos
<1>2. /\ repositories = [i \in DOMAIN repositories |-> repositories[i]]
      /\ \A i \in DOMAIN repositories : "repo" \in DOMAIN repositories[i]
  BY <1>1
<1>3. repositories' = repositories \/ \E i : repositories' = [repositories EXCEPT ![i].Processed = TRUE]
  BY DEF generateGoCoveragePeriodic
<1>4. CASE repositories' = repositories
  BY <1>2, <1>4 DEF SameRepos
<1>5. ASSUME NEW i, repositories' = [repositories EXCEPT ![i].Processed = TRUE]
      PROVE  SameRepos(repositories, repositories')
  <2> DEFINE new == [repositories EXCEPT ![i].Processed = TRUE]
  <2>1. \A k \in DOMAIN repositories : "repo" \in DOMAIN new[k] /\ new[k].repo = repositories[k].repo
    BY <1>2
  <2>2. new = [k \in DOMAIN repositories |-> new[k]]
    OBVIOUS
  <2> HIDE DEF new
  <2>3. SameRepos(repositories, new)
    BY <2>1, <2>2 DEF SameRepos
  <2> QED
    BY <1>5, <2>3 DEF new
<1> QED
  BY <1>3, <1>4, <1>5

\* The repository of the next call is entered.
LEMMA AppendKept ==
  ASSUME NEW rs, NEW calls, ListOfRepos(rs), Together(rs), ListOfRepos(calls), Together(calls),
         After(rs, calls), calls # <<>>,
         NEW data, "repo" \in DOMAIN data, data.repo = Head(calls).repo
  PROVE  /\ ListOfRepos(Append(rs, data)) /\ Together(Append(rs, data))
         /\ After(Append(rs, data), Tail(calls))
<1> DEFINE new == Append(rs, data)
           n == Len(rs)
           rest == Tail(calls)
<1>1. /\ Len(calls) \in Nat /\ DOMAIN calls = 1..Len(calls) /\ 1 \in DOMAIN calls
      /\ Head(calls) = calls[1] /\ calls[1].repo # NoRepo
      /\ DOMAIN rest = 1..(Len(calls) - 1)
      /\ \A i \in DOMAIN rest : rest[i] = calls[i + 1] /\ i + 1 \in DOMAIN calls
  BY ListFacts
<1>2. PICK S : rs \in Seq(S) /\ \A x \in S : "repo" \in DOMAIN x /\ x.repo # NoRepo
  BY DEF ListOfRepos
<1> DEFINE R == S \cup {data}
<1>3. rs \in Seq(R) /\ data \in R /\ \A x \in R : "repo" \in DOMAIN x /\ x.repo # NoRepo
  BY <1>1, <1>2
<1> HIDE DEF R, rest
<1>4. /\ n \in Nat /\ DOMAIN rs = 1..n /\ new \in Seq(R) /\ DOMAIN new = 1..(n + 1)
      /\ \A i \in 1..n : new[i] = rs[i]
      /\ new[n + 1] = data
  BY <1>3
<1>5. ListOfRepos(new)
  BY <1>3, <1>4 DEF ListOfRepos
<1> HIDE DEF new, n
<1>6. ASSUME NEW i \in 1..n, rs[i].repo = data.repo
      PROVE  \A h \in 1..n : h > i => rs[h].repo = rs[i].repo
  BY <1>1, <1>4, <1>6 DEF After
<1>7. ASSUME NEW i \in 1..(n + 1), NEW j \in 1..(n + 1), NEW k \in 1..(n + 1),
             i < j, j < k, new[i].repo = new[k].repo
      PROVE  new[j].repo = new[i].repo
  <2>1. i \in 1..n /\ j \in 1..n
    BY <1>4, <1>7
  <2>2. k \in 1..n \/ k = n + 1
    BY <1>4
  <2>3. CASE k \in 1..n
    BY <1>4, <1>7, <2>1, <2>3 DEF Together
  <2>4. CASE k = n + 1
    BY <1>4, <1>6, <1>7, <2>1, <2>4
  <2> QED
    BY <2>2, <2>3, <2>4
<1>8. Together(new)
  BY <1>4, <1>7 DEF Together
<1>9. ASSUME NEW i \in 1..(n + 1), NEW k \in DOMAIN rest, new[i].repo = rest[k].repo
      PROVE  /\ \A h \in 1..(n + 1) : h > i => new[h].repo = new[i].repo
             /\ \A h \in DOMAIN rest : h < k => rest[h].repo = new[i].repo
  <2>0. rest[k] = calls[k + 1] /\ k + 1 \in DOMAIN calls /\ k \in 1..(Len(calls) - 1)
    BY <1>1
  <2>1. CASE i \in 1..n
    <3>1. rs[i].repo = calls[k + 1].repo
      BY <1>4, <1>9, <2>0, <2>1
    <3>2. /\ \A h \in 1..n : h > i => rs[h].repo = rs[i].repo
          /\ \A h \in DOMAIN calls : h < k + 1 => calls[h].repo = rs[i].repo
      BY <1>4, <2>0, <2>1, <3>1 DEF After
    <3>3. calls[1].repo = rs[i].repo
      BY <1>1, <2>0, <3>2
    <3>4. ASSUME NEW h \in 1..(n + 1), h > i
          PROVE  new[h].repo = new[i].repo
      <4>1. CASE h \in 1..n
        BY <1>4, <2>1, <3>2, <3>4, <4>1
      <4>2. CASE h = n + 1
        BY <1>1, <1>4, <2>1, <3>3, <4>2
      <4> QED
        BY <1>4, <4>1, <4>2
    <3>5. \A h \in DOMAIN rest : h < k => rest[h].repo = new[i].repo
      BY <1>1, <1>4, <2>0, <2>1, <3>2
    <3> QED
      BY <3>4, <3>5
  <2>2. CASE i = n + 1
    <3>1. calls[1].repo = calls[k + 1].repo
      BY <1>1, <1>4, <1>9, <2>0, <2>2
    <3>2. \A h \in DOMAIN rest : h < k => rest[h].repo = calls[1].repo
      <4> SUFFICES ASSUME NEW h \in DOMAIN rest, h < k PROVE calls[h + 1].repo = calls[1].repo
        BY <1>1
      <4>1. 1 < h + 1 /\ h + 1 < k + 1 /\ h + 1 \in DOMAIN calls
        BY <1>1, <2>0
      <4> QED
        BY <1>1, <2>0, <3>1, <4>1 DEF Together
    <3> QED
      BY <1>1, <1>4, <2>2, <3>2
  <2> QED
    BY <1>4, <2>1, <2>2
<1>10. After(new, rest)
  BY <1>4, <1>9 DEF After
<1> QED
  BY <1>5, <1>8, <1>10 DEF new, rest

\* What is left of the calls.
LEMMA TailKept ==
  ASSUME NEW calls, ListOfRepos(calls), Together(calls), calls # <<>>
  PROVE  /\ ListOfRepos(Tail(calls)) /\ Together(Tail(calls))
         /\ \A rs : After(rs, calls) => After(rs, Tail(calls))
         /\ \A ls, title : HeadingsOpen(ls, title, calls) => HeadingsOpen(ls, title, Tail(calls))
<1> DEFINE rest == Tail(calls)
<1>1. /\ Len(calls) \in Nat /\ DOMAIN calls = 1..Len(calls) /\ ListOfRepos(rest)
      /\ DOMAIN rest = 1..(Len(calls) - 1)
      /\ \A i \in DOMAIN rest : rest[i] = calls[i + 1] /\ i + 1 \in DOMAIN calls
  BY ListFacts
<1> HIDE DEF rest
<1>2. \A i, k \in DOMAIN rest : i < k => i + 1 < k + 1
  BY <1>1
<1>3. Together(rest)
  BY <1>1, <1>2 DEF Together
<1>4. ASSUME NEW rs, After(rs, calls)
      PROVE  After(rs, rest)
  BY <1>1, <1>2, <1>4 DEF After
<1>5. ASSUME NEW ls, NEW title, HeadingsOpen(ls, title, calls)
      PROVE  HeadingsOpen(ls, title, rest)
  BY <1>1, <1>2, <1>5 DEF HeadingsOpen
<1> QED
  BY <1>1, <1>3, <1>4, <1>5 DEF rest

LEMMA HeadingsKept ==
  ASSUME NEW calls, ListOfRepos(calls), Together(calls), calls # <<>>,
         NEW ls, NEW new, NEW title, HeadingsOpen(ls, title, calls),
         Added(ls, new, title, Head(calls).repo), RepoOpen(new, title, Head(calls).repo)
  PROVE  HeadingsOpen(new, title, Tail(calls))
<1> DEFINE rest == Tail(calls)
<1>1. /\ Len(calls) \in Nat /\ DOMAIN calls = 1..Len(calls) /\ 1 \in DOMAIN calls
      /\ Head(calls) = calls[1]
      /\ DOMAIN rest = 1..(Len(calls) - 1)
      /\ \A i \in DOMAIN rest : rest[i] = calls[i + 1] /\ i + 1 \in DOMAIN calls
  BY ListFacts
<1> HIDE DEF rest
<1>2. SUFFICES ASSUME NEW i \in DOMAIN new, NEW k \in DOMAIN rest,
                      new[i].what = "repo", new[i].title = title, new[i].repo = rest[k].repo
               PROVE  /\ LastOf(new, Len(new), "repo", i)
                      /\ \A h \in DOMAIN rest : h < k => rest[h].repo = new[i].repo
  BY DEF HeadingsOpen, rest
<1>3. rest[k] = calls[k + 1] /\ k + 1 \in DOMAIN calls /\ k \in 1..(Len(calls) - 1)
  BY <1>1
<1>4. new[i].repo = calls[1].repo
  <2>1. CASE i \in DOMAIN ls
    <3>1. new[i] = ls[i]
      BY <2>1 DEF Added
    <3>2. \A h \in DOMAIN calls : h < k + 1 => calls[h].repo = ls[i].repo
      BY <1>2, <1>3, <2>1, <3>1 DEF HeadingsOpen
    <3> QED
      BY <1>1, <1>3, <3>1, <3>2
  <2>2. CASE i \notin DOMAIN ls
    <3>1. i \in (Len(ls) + 1)..Len(new)
      BY <2>2 DEF Added
    <3> QED
      BY <1>1, <1>2, <3>1 DEF Added
  <2> QED
    BY <2>1, <2>2
<1>5. LastOf(new, Len(new), "repo", i)
  BY <1>1, <1>2, <1>4 DEF RepoOpen
<1>6. ASSUME NEW h \in DOMAIN rest, h < k
      PROVE  rest[h].repo = new[i].repo
  <2>1. 1 < h + 1 /\ h + 1 < k + 1 /\ h + 1 \in DOMAIN calls /\ rest[h] = calls[h + 1]
    BY <1>1, <1>3, <1>6
  <2>2. calls[1].repo = calls[k + 1].repo
    BY <1>2, <1>3, <1>4
  <2> QED
    BY <1>1, <1>3, <1>4, <2>1, <2>2 DEF Together
<1> QED
  BY <1>5, <1>6

-----------------------------------------------------------------------------
(* The headings, call by call.                                             *)

LEMMA CallsTogether ==
  ASSUME ReposDistinct, NEW c \in Configs
  PROVE  ListOfRepos(Calls(c.presubmits, FALSE)) /\ Together(Calls(c.presubmits, FALSE))
<1> DEFINE section  == c.presubmits
           S        == [call : {"job"}, repo : {section[i].repo : i \in DOMAIN section},
                        job : Seq(Entry)]
           calls(i) == [k \in DOMAIN section[i].jobs |->
                          [call |-> "job", repo |-> section[i].repo, job |-> section[i].jobs[k]]]
           ss       == [i \in DOMAIN section |-> calls(i) \o <<>>]
           r        == [i \in DOMAIN section |-> section[i].repo]
<1>1. section \in Seq(Section)
  BY GeneratorAssumption
<1>2. /\ \A i \in DOMAIN section : section[i].repo # NoRepo
      /\ \A i, k \in DOMAIN section : i # k => section[i].repo # section[k].repo
  BY DEF ReposDistinct
<1>3. Calls(section, FALSE) = FlattenSeq(ss)
  BY DEF Calls
<1> HIDE DEF section
<1>4. \A x \in S : "repo" \in DOMAIN x /\ x.repo # NoRepo
  BY <1>2
<1>5. ASSUME NEW i \in DOMAIN section
      PROVE  calls(i) \o <<>> \in Seq(S) /\ \A k \in DOMAIN (calls(i) \o <<>>) :
                                               (calls(i) \o <<>>)[k].repo = section[i].repo
  <2> DEFINE js == section[i].jobs
             repo == section[i].repo
             cs == [k \in DOMAIN js |-> [call |-> "job", repo |-> repo, job |-> js[k]]]
  <2>0. section[i] \in Section
    BY <1>1
  <2>1. js \in Seq(Seq(Entry)) /\ repo \in {section[k].repo : k \in DOMAIN section}
    BY <2>0 DEF Section
  <2> HIDE DEF js, repo
  <2>2. \A k \in DOMAIN js : [call |-> "job", repo |-> repo, job |-> js[k]] \in S
    BY <2>1
  <2> HIDE DEF S
  <2>3. cs \in Seq(S)
    <3>1. DOMAIN js = 1..Len(js) /\ Len(js) \in Nat
      BY <2>1
    <3> QED
      BY <2>2, <3>1
  <2>4. \A k \in DOMAIN cs : cs[k].repo = repo
    OBVIOUS
  <2> HIDE DEF cs
  <2>5. cs \o <<>> = cs
    BY <2>3
  <2> QED
    BY <2>3, <2>4, <2>5 DEF cs, js, repo
<1>6. ss \in Seq(Seq(S)) /\ \A i \in DOMAIN ss : \A k \in DOMAIN ss[i] : ss[i][k].repo = r[i]
  <2> HIDE DEF calls, S
  <2>1. DOMAIN section = 1..Len(section) /\ Len(section) \in Nat
    BY <1>1
  <2> QED
    BY <1>5, <2>1
<1>7. \A i, j, k \in DOMAIN ss : i < j /\ j < k /\ r[i] = r[k] => r[j] = r[i]
  <2>1. DOMAIN ss = DOMAIN section /\ \A i \in DOMAIN section : r[i] = section[i].repo /\ i \in Int
    BY <1>1
  <2> HIDE DEF ss, r
  <2> QED
    BY <1>2, <2>1
<1> HIDE DEF ss, S, r
<1>8. FlattenSeq(ss) \in Seq(S) /\ Together(FlattenSeq(ss))
  BY <1>6, <1>7, FlattenType, TogetherFlatten
<1>9. ListOfRepos(FlattenSeq(ss))
  BY <1>4, <1>8 DEF ListOfRepos
<1> QED
  BY <1>3, <1>8, <1>9 DEF section

PostCalls(rs) == {[call |-> "post", repo |-> rs[i].repo, i |-> i] : i \in DOMAIN rs}

LEMMA EntriesTogether ==
  ASSUME ListOfRepos(repositories), Together(repositories), NEW wanted
  PROVE  Entries("post", wanted) \in Seq(PostCalls(repositories))
         /\ Together(Entries("post", wanted))
<1> DEFINE S == PostCalls(repositories)
           entry(i) == [call |-> "post", repo |-> repositories[i].repo, i |-> i]
           one(i) == IF i \in wanted THEN <<entry(i)>> ELSE <<>>
           ss == [i \in DOMAIN repositories |-> one(i)]
           r == [i \in DOMAIN repositories |-> repositories[i].repo]
<1>1. Len(repositories) \in Nat /\ DOMAIN repositories = 1..Len(repositories)
  BY ListFacts
<1>2. Entries("post", wanted) = FlattenSeq(ss)
  BY DEF Entries
<1>3. ASSUME NEW i \in DOMAIN repositories
      PROVE  one(i) \in Seq(S) /\ \A k \in DOMAIN one(i) : one(i)[k].repo = repositories[i].repo
  <2>1. entry(i) \in S /\ entry(i).repo = repositories[i].repo
    BY DEF PostCalls
  <2> HIDE DEF entry, S
  <2> QED
    BY <2>1
<1>4. ss \in Seq(Seq(S)) /\ \A i \in DOMAIN ss : \A k \in DOMAIN ss[i] : ss[i][k].repo = r[i]
  <2> HIDE DEF one, S
  <2> QED
    BY <1>1, <1>3
<1>5. \A i, j, k \in DOMAIN ss : i < j /\ j < k /\ r[i] = r[k] => r[j] = r[i]
  <2>1. DOMAIN ss = DOMAIN repositories /\ \A i \in DOMAIN repositories : r[i] = repositories[i].repo
    OBVIOUS
  <2> HIDE DEF ss, r
  <2> QED
    BY <2>1 DEF Together
<1> HIDE DEF ss, S, r
<1>6. FlattenSeq(ss) \in Seq(S) /\ Together(FlattenSeq(ss))
  BY <1>4, <1>5, FlattenType, TogetherFlatten
<1> QED
  BY <1>2, <1>6 DEF S

LEMMA PostCallsAre ==
  ASSUME NEW rs, ListOfRepos(rs), NEW calls \in Seq(PostCalls(rs))
  PROVE  ListOfRepos(calls) /\ \A k \in DOMAIN calls : rs[calls[k].i].repo = calls[k].repo
<1>1. \A x \in PostCalls(rs) : "repo" \in DOMAIN x /\ x.repo # NoRepo /\ rs[x.i].repo = x.repo
  BY ListFacts DEF PostCalls
<1>2. \A k \in DOMAIN calls : calls[k] \in PostCalls(rs)
  OBVIOUS
<1>3. ListOfRepos(calls)
  BY <1>1 DEF ListOfRepos
<1> QED
  BY <1>1, <1>2, <1>3

TitlesIn(ls, titles) == \A k \in DOMAIN ls : ls[k].title \in titles

\* In the sections of a repository's jobs: the calls that are left find the headings open.
CallsOpen(ls, title, calls) ==
    ListOfRepos(calls) /\ Together(calls) /\ HeadingsOpen(ls, title, calls)

GroupedInv ==
    /\ DOMAIN file = {"presubmits", "periodics"} /\ \E c \in Configs : file.presubmits = c.presubmits
    /\ Grouped(output)
    /\ ListOfRepos(repositories) /\ Together(repositories)
    /\ pc = "start" => output = <<>> /\ repositories = <<>>
    /\ pc = "presubmits" =>
          /\ TitlesIn(output, {"presubmits"}) /\ SectionOpen(output, "presubmits")
          /\ CallsOpen(output, "presubmits", todo) /\ After(repositories, todo)
    /\ pc \in {"periodics", "coverage", "perf"} =>
          TitlesIn(output, {"presubmits", "periodics"}) /\ SectionOpen(output, "periodics")
    /\ pc = "postsubmits" =>
          /\ SectionOpen(output, "postsubmits")
          /\ todo \in Seq(PostCalls(repositories)) /\ CallsOpen(output, "postsubmits", todo)

\* A section that has no line yet is open.
LEMMA NewSection ==
  ASSUME NEW ls, NEW titles, NEW title, TitlesIn(ls, titles), title \notin titles, NEW calls
  PROVE  SectionOpen(ls, title) /\ HeadingsOpen(ls, title, calls)
  BY DEF TitlesIn, SectionOpen, HeadingsOpen

LEMMA AddedTitles ==
  ASSUME NEW ls, NEW new, NEW titles, NEW title \in titles, NEW repo, TitlesIn(ls, titles),
         Added(ls, new, title, repo)
  PROVE  TitlesIn(new, titles)
<1> SUFFICES ASSUME NEW k \in DOMAIN new PROVE new[k].title \in titles
  BY DEF TitlesIn
<1>1. CASE k \in 1..Len(ls)
  BY <1>1 DEF Added, TitlesIn
<1>2. CASE k \notin 1..Len(ls)
  <2>1. k \in (Len(ls) + 1)..Len(new)
    BY <1>2 DEF Added
  <2> QED
    BY <2>1 DEF Added
<1> QED
  BY <1>1, <1>2

\* One or two jobs of one call.
LEMMA WriteSome ==
  ASSUME jobNameFilter = <<>>,
         NEW title, NEW repo, NEW js, NEW grouped, WriteAll(title, repo, js, grouped),
         \E i, j : js \in {<<i>>, <<i, j>>},
         Grouped(output), Open(output, title, repo),
         IF title = "periodics" THEN grouped = {} ELSE repo # NoRepo /\ 1 \in grouped
  PROVE  Grouped(output') /\ Open(output', title, repo) /\ Added(output, output', title, repo)
<1>1. PICK i, j : js \in {<<i>>, <<i, j>>}
  OBVIOUS
<1>2. js \in Seq({i, j})
  <2>1. <<i>> \in Seq({i, j}) /\ <<i, j>> \in Seq({i, j})
    OBVIOUS
  <2> QED
    BY <1>1, <2>1
<1> QED
  BY <1>2, WriteGrouped

LEMMA GroupedInit ==
  ASSUME Init
  PROVE  GroupedInv
<1>1. output = <<>> /\ repositories = <<>> /\ pc = "start" /\ file \in Configs
  BY DEF Init
<1>2. DOMAIN file = {"presubmits", "periodics"}
  BY <1>1, GeneratorAssumption
<1>3. Grouped(<<>>) /\ ListOfRepos(<<>>) /\ Together(<<>>)
  <2>1. <<>> \in Seq({}) /\ DOMAIN <<>> = {}
    OBVIOUS
  <2>2. Lines(<<>>)
    <3>1. \A l \in {} : IsLine(l)
      OBVIOUS
    <3> QED
      BY <2>1, <3>1, Zenon DEF Lines
  <2>3. ListOfRepos(<<>>)
    <3>1. \A x \in {} : "repo" \in DOMAIN x /\ x.repo # NoRepo
      OBVIOUS
    <3> QED
      BY <2>1, <3>1, Zenon DEF ListOfRepos
  <2> QED
    BY <2>1, <2>2, <2>3 DEF Grouped, Together
<1> QED
  BY <1>1, <1>2, <1>3 DEF GroupedInv

\* A presubmit entry: its repository is entered, and its jobs are written.
LEMMA PresubmitGrouped ==
  ASSUME jobNameFilter = <<>>, GroupedInv, PresubmitCall
  PROVE  GroupedInv'
<1> DEFINE c == Head(todo)
           rest == Tail(todo)
<1>1. pc = "presubmits" /\ todo # <<>>
  BY DEF PresubmitCall
<1>2. /\ TitlesIn(output, {"presubmits"}) /\ SectionOpen(output, "presubmits")
      /\ ListOfRepos(todo) /\ Together(todo) /\ HeadingsOpen(output, "presubmits", todo)
      /\ After(repositories, todo) /\ ListOfRepos(repositories) /\ Together(repositories)
      /\ Grouped(output)
  BY <1>1 DEF GroupedInv, CallsOpen
<1>3. c = todo[1] /\ 1 \in DOMAIN todo /\ DOMAIN todo = 1..Len(todo) /\ c.repo # NoRepo
  BY <1>1, <1>2, ListFacts
<1>4. CASE Fatal
  BY <1>4 DEF GroupedInv, Fatal
<1>5. ASSUME generatePresubmit(c.repo, c.job), Done1
      PROVE  GroupedInv'
  <2>1. pc' = "presubmits" /\ todo' = rest /\ file' = file
    BY <1>1, <1>5 DEF Done1, Unchanged
  <2> DEFINE d == Presubmit(c.repo, c.job)
             js == PresubmitJobs(d, c.repo, c.job)
             data == repositoryData(c.repo, d.coverage, d.base.threshold)
  <2>2. \/ UNCHANGED <<repositories, output>>
        \/ /\ repositories' = SetPerformance(Append(repositories, data), c.repo, c.job)
           /\ UNCHANGED output \/ WriteAll("presubmits", c.repo, js, DOMAIN js)
    BY <1>5 DEF generatePresubmit
  <2>3. ListOfRepos(repositories') /\ Together(repositories') /\ After(repositories', rest)
    <3>1. CASE UNCHANGED repositories
      BY <1>1, <1>2, <3>1, TailKept
    <3>2. CASE repositories' = SetPerformance(Append(repositories, data), c.repo, c.job)
      <4> DEFINE rs == Append(repositories, data)
      <4>1. "repo" \in DOMAIN data /\ data.repo = c.repo
        BY DEF repositoryData
      <4> HIDE DEF data
      <4>2. ListOfRepos(rs) /\ Together(rs) /\ After(rs, rest)
        BY <1>1, <1>2, <4>1, AppendKept
      <4> HIDE DEF rs
      <4>3. SameRepos(rs, SetPerformance(rs, c.repo, c.job))
        BY <4>2, PerformanceSame
      <4> QED
        BY <3>2, <4>2, <4>3, SameKept DEF rs
    <3> QED
      BY <2>2, <3>1, <3>2
  <2>4. /\ Grouped(output') /\ TitlesIn(output', {"presubmits"})
        /\ SectionOpen(output', "presubmits") /\ HeadingsOpen(output', "presubmits", rest)
    <3>1. CASE UNCHANGED output
      BY <1>1, <1>2, <3>1, TailKept
    <3>2. CASE WriteAll("presubmits", c.repo, js, DOMAIN js)
      <4>1. RepoOpen(output, "presubmits", c.repo)
        BY <1>2, <1>3 DEF HeadingsOpen, RepoOpen
      <4>2. \E i, j : js \in {<<i>>, <<i, j>>}
        BY DEF PresubmitJobs
      <4>3. 1 \in DOMAIN js
        BY <4>2
      <4> HIDE DEF js
      <4>4. /\ Grouped(output') /\ Open(output', "presubmits", c.repo)
            /\ Added(output, output', "presubmits", c.repo)
        BY <1>2, <1>3, <3>2, <4>1, <4>2, <4>3, WriteSome DEF Open
      <4>5. TitlesIn(output', {"presubmits"})
        BY <1>2, <4>4, AddedTitles
      <4>6. HeadingsOpen(output', "presubmits", rest)
        BY <1>1, <1>2, <4>4, HeadingsKept DEF Open
      <4> QED
        BY <4>4, <4>5, <4>6 DEF Open
    <3> QED
      BY <2>2, <3>1, <3>2
  <2>5. ListOfRepos(rest) /\ Together(rest)
    BY <1>1, <1>2, TailKept
  <2> QED
    BY <2>1, <2>3, <2>4, <2>5 DEF GroupedInv, CallsOpen
<1> QED
  BY <1>4, <1>5 DEF PresubmitCall

\* A periodic job, also one of coverage or of clusters, is written without the heading of
\* its repository.
LEMMA PeriodicsGrouped ==
  ASSUME jobNameFilter = <<>>, GroupedInv, pc \in {"periodics", "coverage", "perf"}, Done1,
         UNCHANGED repositories \/ SameRepos(repositories, repositories'),
         \/ UNCHANGED output
         \/ \E repo, js : WriteAll("periodics", repo, js, {}) /\ \E i, j : js \in {<<i>>, <<i, j>>}
  PROVE  GroupedInv'
<1>1. UNCHANGED <<pc, file>>
  BY DEF Done1, Unchanged
<1>2. ListOfRepos(repositories') /\ Together(repositories')
  BY SameKept DEF GroupedInv
<1>3. /\ Grouped(output') /\ TitlesIn(output', {"presubmits", "periodics"})
      /\ SectionOpen(output', "periodics")
  <2>1. CASE UNCHANGED output
    BY <2>1 DEF GroupedInv
  <2>2. ASSUME NEW repo, NEW js, WriteAll("periodics", repo, js, {}),
               \E i, j : js \in {<<i>>, <<i, j>>}
        PROVE  /\ Grouped(output') /\ TitlesIn(output', {"presubmits", "periodics"})
               /\ SectionOpen(output', "periodics")
    <3>1. /\ Grouped(output') /\ Open(output', "periodics", repo)
          /\ Added(output, output', "periodics", repo)
      BY <2>2, WriteSome DEF GroupedInv, Open
    <3>2. TitlesIn(output', {"presubmits", "periodics"})
      BY <3>1, AddedTitles DEF GroupedInv
    <3> QED
      BY <3>1, <3>2 DEF Open
  <2> QED
    BY <2>1, <2>2
<1> QED
  BY <1>1, <1>2, <1>3 DEF GroupedInv

LEMMA PostsubmitGrouped ==
  ASSUME jobNameFilter = <<>>, GroupedInv, PostsubmitCall
  PROVE  GroupedInv'
<1> DEFINE c == Head(todo)
           rest == Tail(todo)
<1>1. /\ pc = "postsubmits" /\ todo # <<>>
      /\ generatePostsubmits(repositories[c.i])
      /\ UNCHANGED <<pc, file, repositories>> /\ todo' = rest
  BY DEF PostsubmitCall, Done1, Unchanged
<1>2. /\ SectionOpen(output, "postsubmits") /\ todo \in Seq(PostCalls(repositories))
      /\ ListOfRepos(todo) /\ Together(todo) /\ HeadingsOpen(output, "postsubmits", todo)
      /\ ListOfRepos(repositories) /\ Together(repositories) /\ Grouped(output)
  BY <1>1 DEF GroupedInv, CallsOpen
<1>3. c = todo[1] /\ 1 \in DOMAIN todo /\ c.repo # NoRepo
  BY <1>1, <1>2, ListFacts
<1>4. repositories[c.i].repo = c.repo
  BY <1>2, <1>3, PostCallsAre
<1>5. RepoOpen(output, "postsubmits", c.repo)
  BY <1>2, <1>3 DEF HeadingsOpen, RepoOpen
<1>6. PICK js, grouped : /\ WriteAll("postsubmits", c.repo, js, grouped)
                         /\ JobsApart(js) /\ (js # <<>> => 1 \in grouped)
  BY <1>1, <1>4, PostsubmitJobs
<1>7. PICK R : js \in Seq(R)
  BY <1>6 DEF JobsApart
<1>8. /\ Grouped(output') /\ Open(output', "postsubmits", c.repo)
      /\ Added(output, output', "postsubmits", c.repo)
  BY <1>2, <1>3, <1>5, <1>6, <1>7, WriteGrouped DEF Open
<1>9. HeadingsOpen(output', "postsubmits", rest)
  BY <1>1, <1>2, <1>8, HeadingsKept DEF Open
<1>10. ListOfRepos(rest) /\ Together(rest) /\ rest \in Seq(PostCalls(repositories))
  BY <1>1, <1>2, TailKept
<1> QED
  BY <1>1, <1>2, <1>8, <1>9, <1>10 DEF GroupedInv, CallsOpen, Open

LEMMA GroupedNext ==
  ASSUME jobNameFilter = <<>>, ReposDistinct, GroupedInv, [Next]_vars
  PROVE  GroupedInv'
<1>1. ASSUME NEW released \in Branches, Upgrade(released) PROVE GroupedInv'
  <2>1. UNCHANGED <<pc, todo, repositories, output>> /\ pc = "start"
    BY <1>1 DEF Upgrade
  <2>2. DOMAIN file' = DOMAIN file /\ file'.presubmits = file.presubmits
    <3>1. \E x : file' = [file EXCEPT !.periodics = x]
      BY <1>1 DEF Upgrade, upgradeReleaseBranchesTemplate
    <3> QED
      BY <3>1 DEF GroupedInv
  <2> QED
    BY <2>1, <2>2 DEF GroupedInv
<1>2. ASSUME Fatal PROVE GroupedInv'
  BY <1>2 DEF Fatal, GroupedInv
<1>3. CASE ReadConfig
  <2>1. /\ pc = "start" /\ pc' = "presubmits" /\ todo' = Calls(file.presubmits, FALSE)
        /\ UNCHANGED <<repositories, output, file>>
    BY <1>3 DEF ReadConfig, Unchanged
  <2>2. ListOfRepos(todo') /\ Together(todo')
    BY <2>1, CallsTogether DEF GroupedInv
  <2>3. output = <<>> /\ repositories = <<>>
    BY <2>1 DEF GroupedInv
  <2>4. /\ TitlesIn(<<>>, {"presubmits"}) /\ SectionOpen(<<>>, "presubmits")
        /\ HeadingsOpen(<<>>, "presubmits", todo') /\ After(<<>>, todo')
    BY DEF TitlesIn, SectionOpen, HeadingsOpen, After
  <2> QED
    BY <2>1, <2>2, <2>3, <2>4 DEF GroupedInv, CallsOpen
<1>4. CASE PresubmitCall
  BY <1>4, PresubmitGrouped
<1>5. ASSUME NEW repo, generateGoCoveragePeriodic(repo), Done1, pc \in {"periodics", "coverage"}
      PROVE  GroupedInv'
  <2>1. SameRepos(repositories, repositories')
    BY <1>5, CoverageSame DEF GroupedInv
  <2>2. \/ UNCHANGED output
        \/ \E r, js : WriteAll("periodics", r, js, {}) /\ \E i, j : js \in {<<i>>, <<i, j>>}
    BY <1>5 DEF generateGoCoveragePeriodic
  <2> QED
    BY <1>5, <2>1, <2>2, PeriodicsGrouped
<1>6. CASE PeriodicCall
  <2> DEFINE c == Head(todo)
  <2>1. pc = "periodics"
    BY <1>6 DEF PeriodicCall
  <2>2. \/ generateGoCoveragePeriodic(c.repo) /\ Done1
        \/ Fatal
        \/ generatePeriodic(c.repo, c.job) /\ Done1
    BY <1>6 DEF PeriodicCall
  <2> HIDE DEF c
  <2>3. CASE generatePeriodic(c.repo, c.job) /\ Done1
    <3> DEFINE js == PeriodicJobs(Periodic(c.repo, c.job), c.repo, c.job)
    <3>1. \/ UNCHANGED <<repositories, output>>
          \/ /\ repositories' = SetPerformance(repositories, c.repo, c.job)
             /\ WriteAll("periodics", c.repo, js, {})
      BY <2>3 DEF generatePeriodic
    <3>2. \E i, j : js \in {<<i>>, <<i, j>>}
      BY DEF PeriodicJobs
    <3> HIDE DEF js
    <3>3. SameRepos(repositories, SetPerformance(repositories, c.repo, c.job))
      BY PerformanceSame DEF GroupedInv
    <3>4. UNCHANGED repositories \/ SameRepos(repositories, repositories')
      BY <3>1, <3>3
    <3>5. \/ UNCHANGED output
          \/ \E r, ks : WriteAll("periodics", r, ks, {}) /\ \E i, j : ks \in {<<i>>, <<i, j>>}
      BY <3>1, <3>2
    <3> QED
      BY <2>1, <2>3, <3>4, <3>5, PeriodicsGrouped
  <2> QED
    BY <1>2, <1>5, <2>1, <2>2, <2>3
<1>7. CASE CoverageCall
  BY <1>5, <1>7 DEF CoverageCall
<1>8. CASE PerfCall
  <2>1. pc = "perf" /\ Done1 /\ UNCHANGED repositories
    BY <1>8 DEF PerfCall
  <2>2. \E r, js : WriteAll("periodics", r, js, {}) /\ \E i, j : js \in {<<i>>, <<i, j>>}
    BY <1>8 DEF PerfCall, generatePerfClusterUpdatePeriodicJobs
  <2> QED
    BY <2>1, <2>2, PeriodicsGrouped
<1>9. CASE PostsubmitCall
  BY <1>9, PostsubmitGrouped
<1>10. CASE Phases
  <2>1. UNCHANGED <<file, repositories, output>>
    BY <1>10 DEF Phases, NextPhase, Unchanged
  <2>2. CASE pc = "presubmits" /\ pc' = "periodics"
    <3>1. TitlesIn(output, {"presubmits"})
      BY <2>2 DEF GroupedInv
    <3>2. TitlesIn(output, {"presubmits", "periodics"})
      BY <3>1 DEF TitlesIn
    <3>3. SectionOpen(output, "periodics")
      BY <3>1, NewSection
    <3> QED
      BY <2>1, <2>2, <3>2, <3>3 DEF GroupedInv
  <2>3. CASE pc \in {"periodics", "coverage"} /\ pc' \in {"coverage", "perf"}
    BY <2>1, <2>3 DEF GroupedInv
  <2>4. CASE pc = "perf" /\ pc' = "postsubmits"
    <3>1. todo' = Entries("post", WithCoverage \cup WithPerformance)
      BY <1>10, <2>4 DEF Phases, NextPhase
    <3>2. todo' \in Seq(PostCalls(repositories)) /\ Together(todo')
      BY <3>1, EntriesTogether DEF GroupedInv
    <3>3. ListOfRepos(todo')
      BY <3>2, PostCallsAre DEF GroupedInv
    <3>4. TitlesIn(output, {"presubmits", "periodics"})
      BY <2>4 DEF GroupedInv
    <3>5. SectionOpen(output, "postsubmits") /\ HeadingsOpen(output, "postsubmits", todo')
      BY <3>4, NewSection
    <3> QED
      BY <2>1, <2>4, <3>2, <3>3, <3>5 DEF GroupedInv, CallsOpen
  <2>5. \/ pc = "presubmits" /\ pc' = "periodics"
        \/ pc \in {"periodics", "coverage"} /\ pc' \in {"coverage", "perf"}
        \/ pc = "perf" /\ pc' = "postsubmits"
    BY <1>10 DEF Phases, NextPhase
  <2> QED
    BY <2>2, <2>3, <2>4, <2>5
<1>11. CASE K8sTestgrid
  BY <1>2, <1>11 DEF K8sTestgrid, GroupedInv
<1>12. CASE CollectCall
  BY <1>12 DEF CollectCall, Done1, Unchanged, GroupedInv
<1>13. CASE Testgrid
  BY <1>13 DEF Testgrid, GroupedInv
<1>14. CASE UNCHANGED vars
  BY <1>14 DEF vars, GroupedInv, CallsOpen
<1> QED
  BY <1>1, <1>2, <1>3, <1>4, <1>6, <1>7, <1>8, <1>9, <1>10, <1>11, <1>12, <1>13, <1>14
  DEF Next, GitHubFails

\* A filter leaves out jobs with their headings.
HeadingsInv == jobNameFilter = <<>> => GroupedInv

\* Every heading is written once, and every job under those of its section and of its
\* repository, whatever the files, branches and overrides (main.go:520), if the file
\* has the presubmit jobs of a repository in one place.
THEOREM OutputGroupedSafe ==
  ASSUME ReposDistinct
  PROVE  Spec => []OutputGrouped
<1>1. Init => HeadingsInv
  BY GroupedInit DEF HeadingsInv
<1>2. HeadingsInv /\ [Next]_vars => HeadingsInv'
  BY GroupedNext DEF HeadingsInv
<1>3. HeadingsInv => OutputGrouped
  <2> SUFFICES ASSUME jobNameFilter = <<>>, GroupedInv PROVE OutputGrouped
    BY DEF OutputGrouped, HeadingsInv
  <2>1. Grouped(output)
    BY DEF GroupedInv
  <2>2. ASSUME NEW i \in DOMAIN output, NEW k \in DOMAIN output,
               output[i].what # "job", output[i] = output[k]
        PROVE  i = k
    BY <2>1, <2>2 DEF Grouped, SameLine
  <2>3. ASSUME NEW i \in DOMAIN output, output[i].what = "job"
        PROVE  LET l == output[i]
                   before(what) == {k \in 1..(i - 1) : output[k].what = what}
                   last(what)   == output[CHOOSE k \in before(what) : \A h \in before(what) : h <= k]
               IN  /\ before("section") # {} /\ last("section").title = l.title
                   /\ l.title # "periodics" => before("repo") # {} /\ last("repo").repo = l.repo
    <3> DEFINE before(what) == {k \in 1..(i - 1) : output[k].what = what}
               last(what)   == output[CHOOSE k \in before(what) : \A h \in before(what) : h <= k]
    <3>1. ASSUME NEW what, NEW k, LastOf(output, i - 1, what, k)
          PROVE  before(what) # {} /\ last(what) = output[k]
      <4>1. i \in Nat
        BY <2>1, LinesAre DEF Grouped
      <4>2. k \in before(what)
        BY <3>1 DEF LastOf
      <4>3. ASSUME NEW h \in before(what) PROVE h <= k
        BY <3>1, <4>1 DEF LastOf
      <4>4. ASSUME NEW m \in before(what), \A h \in before(what) : h <= m PROVE m = k
        <5>1. k <= m /\ m <= k
          BY <4>2, <4>3, <4>4
        <5> QED
          BY <4>1, <4>2, <5>1
      <4> DEFINE S == before(what)
      <4>5. k \in S /\ (\A h \in S : h <= k) /\ \A m \in S : (\A h \in S : h <= m) => m = k
        BY <4>2, <4>3, <4>4
      <4> HIDE DEF S
      <4>6. (CHOOSE m \in S : \A h \in S : h <= m) = k
        BY <4>5
      <4> QED
        BY <4>2, <4>6 DEF S
    <3> HIDE DEF before, last
    <3>2. JobUnder(output, i)
      BY <2>1 DEF Grouped
    <3>3. before("section") # {} /\ last("section").title = output[i].title
      BY <2>3, <3>1, <3>2 DEF JobUnder
    <3>4. output[i].title # "periodics" => before("repo") # {} /\ last("repo").repo = output[i].repo
      BY <2>3, <3>1, <3>2 DEF JobUnder
    <3> QED
      BY <3>3, <3>4 DEF before, last
  <2> QED
    BY <2>2, <2>3 DEF OutputGrouped
<1> QED
  BY <1>1, <1>2, <1>3, PTL DEF Spec

-----------------------------------------------------------------------------
(* The upgrade of the release branches.  The jobs of an updated list come    *)
(* from jobs of the list, so that its versions are those kept and the latest; *)
(* at most three versions have at most two newer ones.                        *)

\* Where an element of lists one after the other comes from: every element of every list
\* is in one place of the whole.
Origin(ss, s, m, a, b) ==
    /\ Len(s) \in Nat /\ DOMAIN s = 1..Len(s)
    /\ a \in [1..Len(s) -> 1..m] /\ b \in [1..Len(s) -> Nat]
    /\ \A p \in 1..Len(s) : b[p] \in 1..Len(ss[a[p]]) /\ s[p] = ss[a[p]][b[p]]
    /\ \A p, q \in 1..Len(s) : a[p] = a[q] /\ b[p] = b[q] => p = q
    /\ \A i \in 1..m : \A k \in 1..Len(ss[i]) : \E p \in 1..Len(s) : a[p] = i /\ b[p] = k

LEMMA FlattenOrigin ==
  ASSUME NEW S, NEW ss \in Seq(Seq(S))
  PROVE  \E a, b : Origin(ss, FlattenSeq(ss), Len(ss), a, b)
<1> DEFINE n == Len(ss)
           g == CHOOSE h : h = [i \in 1..n |-> Chained(ss, h, i)]
<1>1. n \in Nat /\ DOMAIN ss = 1..n /\ \A i \in 1..n : ss[i] \in Seq(S)
  OBVIOUS
<1>2. g = [i \in 1..n |-> Chained(ss, g, i)]
  BY <1>1, ChainExists
<1>3. \E a, b : Origin(ss, FlattenSeq(ss), n, a, b)
  <2>1. CASE n = 0
    <3>1. FlattenSeq(ss) = <<>>
      <4>1. FlattenSeq(ss) = ss /\ ss = <<>>
        BY <2>1 DEF FlattenSeq
      <4> QED
        BY <4>1
    <3> DEFINE e == [p \in 1..0 |-> 0]
    <3>2. Len(<<>>) = 0 /\ <<>> \in Seq(S) /\ 1..0 = {}
      OBVIOUS
    <3>3. Origin(ss, <<>>, 0, e, e)
      BY <3>2 DEF Origin
    <3> QED
      BY <2>1, <3>1, <3>3
  <2>2. CASE n # 0
    <3>1. FlattenSeq(ss) = g[n]
      BY <2>2 DEF FlattenSeq, Chained
    <3> HIDE DEF g, n
    <3> DEFINE T == {k \in 0..n : k = 0 \/ \E a, b : Origin(ss, g[k], k, a, b)}
    <3> HIDE DEF T
    <3>2. 0 \in T
      BY <1>1 DEF T
    <3>3. ASSUME NEW k \in 1..n, k - 1 \in T
          PROVE  k \in T
      <4>1. g[k] = Chained(ss, g, k) /\ k \in Nat /\ k >= 1 /\ n \in Nat
        <5>1. g[k] = Chained(ss, g, k)
          BY <1>2, Zenon
        <5> QED
          BY <1>1, <5>1
      <4>2. ss[k] \in Seq(S) /\ Len(ss[k]) \in Nat
        <5>1. ss[k] \in Seq(S)
          BY <1>1, Zenon
        <5> QED
          BY <5>1
      <4>3. CASE k = 1
        <5> DEFINE s == ss[1]
                   a == [p \in 1..Len(s) |-> 1]
                   b == [p \in 1..Len(s) |-> p]
        <5>1. g[k] = s /\ s \in Seq(S) /\ Len(s) \in Nat /\ DOMAIN s = 1..Len(s)
          BY <4>1, <4>2, <4>3 DEF Chained
        <5>2. a \in [1..Len(s) -> 1..1] /\ b \in [1..Len(s) -> Nat]
          BY <5>1
        <5>3. \A p \in 1..Len(s) : a[p] = 1 /\ b[p] = p
          OBVIOUS
        <5>4. 1..1 = {1}
          OBVIOUS
        <5> HIDE DEF a, b, s
        <5>5. Origin(ss, s, 1, a, b)
          <6>1. \A p \in 1..Len(s) : b[p] \in 1..Len(ss[a[p]]) /\ s[p] = ss[a[p]][b[p]]
            BY <5>3 DEF s
          <6>2. \A p, q \in 1..Len(s) : a[p] = a[q] /\ b[p] = b[q] => p = q
            BY <5>3
          <6>3. \A i \in 1..1 : \A l \in 1..Len(ss[i]) : \E p \in 1..Len(s) : a[p] = i /\ b[p] = l
            BY <5>3, <5>4 DEF s
          <6> QED
            BY <5>1, <5>2, <6>1, <6>2, <6>3 DEF Origin
        <5>6. \E x, y : Origin(ss, g[k], k, x, y)
          BY <4>3, <5>1, <5>5
        <5> QED
          BY <4>1, <5>6 DEF T
      <4>4. CASE k # 1
        <5> DEFINE s == g[k - 1]
                   t == ss[k]
                   new == s \o t
        <5>1. g[k] = new
          BY <4>1, <4>4 DEF Chained
        <5>2. PICK c, d : Origin(ss, s, k - 1, c, d)
          BY <3>3, <4>1, <4>4 DEF T
        <5> HIDE DEF s, t
        <5>3. Len(s) \in Nat /\ Len(t) \in Nat /\ DOMAIN s = 1..Len(s) /\ DOMAIN t = 1..Len(t)
          BY <4>2, <5>2 DEF Origin, t
        <5>4. /\ DOMAIN new = 1..Len(new) /\ Len(new) = Len(s) + Len(t) /\ Len(new) \in Nat
              /\ \A p \in 1..Len(s) : p \in 1..Len(new) /\ new[p] = s[p]
              /\ \A p \in 1..Len(t) : Len(s) + p \in 1..Len(new) /\ new[Len(s) + p] = t[p]
          BY <5>3
        <5> DEFINE a == [p \in 1..Len(new) |-> IF p <= Len(s) THEN c[p] ELSE k]
                   b == [p \in 1..Len(new) |-> IF p <= Len(s) THEN d[p] ELSE p - Len(s)]
        <5>5. ASSUME NEW p \in 1..Len(new)
              PROVE  /\ p \in 1..Len(s) => a[p] = c[p] /\ b[p] = d[p]
                     /\ p \notin 1..Len(s) => /\ a[p] = k /\ b[p] = p - Len(s)
                                              /\ p - Len(s) \in 1..Len(t)
                                              /\ p = Len(s) + (p - Len(s))
          <6> HIDE DEF new
          <6> QED
            BY <5>3, <5>4
        <5> HIDE DEF a, b, new
        <5>6. ASSUME NEW p \in 1..Len(s)
              PROVE  c[p] \in 1..(k - 1) /\ c[p] \in 1..k /\ c[p] # k /\ d[p] \in Nat
          <6>1. c[p] \in 1..(k - 1) /\ d[p] \in Nat
            BY <5>2 DEF Origin
          <6> QED
            BY <4>1, <6>1
        <5>7. ASSUME NEW p \in 1..Len(new)
              PROVE  /\ a[p] \in 1..k /\ b[p] \in Nat
                     /\ b[p] \in 1..Len(ss[a[p]]) /\ new[p] = ss[a[p]][b[p]]
          <6>1. CASE p \in 1..Len(s)
            <7>1. d[p] \in 1..Len(ss[c[p]]) /\ s[p] = ss[c[p]][d[p]]
              BY <5>2, <6>1 DEF Origin
            <7> QED
              BY <5>4, <5>5, <5>6, <6>1, <7>1
          <6>2. CASE p \notin 1..Len(s)
            <7>1. a[p] = k /\ b[p] = p - Len(s) /\ b[p] \in 1..Len(t)
              BY <5>5, <6>2
            <7>2. new[p] = t[p - Len(s)]
              BY <5>4, <5>5, <6>2
            <7> QED
              BY <4>1, <7>1, <7>2 DEF t
          <6> QED
            BY <6>1, <6>2
        <5>8. ASSUME NEW p \in 1..Len(new), NEW q \in 1..Len(new), a[p] = a[q], b[p] = b[q]
              PROVE  p = q
          <6>1. CASE p \in 1..Len(s) /\ q \in 1..Len(s)
            BY <5>2, <5>5, <5>8, <6>1 DEF Origin
          <6>2. CASE p \notin 1..Len(s) /\ q \notin 1..Len(s)
            <7>1. p - Len(s) = q - Len(s)
              BY <5>5, <5>8, <6>2
            <7> QED
              BY <5>3, <7>1
          <6>3. CASE p \in 1..Len(s) /\ q \notin 1..Len(s)
            BY <5>5, <5>6, <5>8, <6>3
          <6>4. CASE p \notin 1..Len(s) /\ q \in 1..Len(s)
            BY <5>5, <5>6, <5>8, <6>4
          <6> QED
            BY <6>1, <6>2, <6>3, <6>4
        <5>9. ASSUME NEW i \in 1..k, NEW l \in 1..Len(ss[i])
              PROVE  \E p \in 1..Len(new) : a[p] = i /\ b[p] = l
          <6>1. CASE i = k
            <7>1. l \in 1..Len(t) /\ l \in Nat
              BY <6>1 DEF t
            <7>2. Len(s) + l \in 1..Len(new) /\ Len(s) + l \notin 1..Len(s) /\ Len(s) + l - Len(s) = l
              BY <5>3, <5>4, <7>1
            <7>3. a[Len(s) + l] = k /\ b[Len(s) + l] = l
              BY <5>5, <7>2
            <7> QED
              BY <6>1, <7>2, <7>3
          <6>2. CASE i # k
            <7>1. i \in 1..(k - 1)
              BY <4>1, <6>2
            <7>2. PICK p \in 1..Len(s) : c[p] = i /\ d[p] = l
              BY <5>2, <7>1 DEF Origin
            <7>3. p \in 1..Len(new) /\ a[p] = i /\ b[p] = l
              BY <5>4, <5>5, <7>2
            <7> QED
              BY <7>3
          <6> QED
            BY <6>1, <6>2
        <5>10. Origin(ss, new, k, a, b)
          <6>1. a \in [1..Len(new) -> 1..k] /\ b \in [1..Len(new) -> Nat]
            <7>1. a = [p \in 1..Len(new) |-> a[p]] /\ b = [p \in 1..Len(new) |-> b[p]]
              BY DEF a, b
            <7> QED
              BY <5>7, <7>1
          <6> QED
            BY <5>4, <5>7, <5>8, <5>9, <6>1, Zenon DEF Origin
        <5>11. \E x, y : Origin(ss, g[k], k, x, y)
          BY <5>1, <5>10
        <5> QED
          BY <4>1, <5>11 DEF T
      <4> QED
        BY <4>3, <4>4
    <3>4. n \in T
      BY <1>1, <3>2, <3>3, AllRounds
    <3> QED
      BY <2>2, <3>1, <3>4 DEF T
  <2> QED
    BY <2>1, <2>2
<1> QED
  BY <1>3

\* A finite set has an element that no other precedes.
LEMMA Extreme ==
  ASSUME NEW S, IsFiniteSet(S), S # {}, NEW R,
         \A x \in S : <<x, x>> \notin R,
         \A x, y, z \in S : <<x, y>> \in R /\ <<y, z>> \in R => <<x, z>> \in R
  PROVE  \E v \in S : \A w \in S : <<w, v>> \notin R
<1> DEFINE before(v) == {w \in S : <<w, v>> \in R}
           N == {Cardinality(before(v)) : v \in S}
<1>1. ASSUME NEW v \in S
      PROVE  IsFiniteSet(before(v)) /\ Cardinality(before(v)) \in Nat
  <2>1. before(v) \subseteq S
    OBVIOUS
  <2> QED
    BY <2>1, FS_Subset, FS_CardinalityType
<1> HIDE DEF before
<1>2. N \subseteq Nat /\ N # {}
  BY <1>1
<1>3. PICK m \in N : \A k \in N : ~(<<k, m>> \in OpToRel(<, Nat))
  <2> HIDE DEF N
  <2> QED
    BY <1>2, NatLessThanWellFounded, WFMin, Zenon
<1>4. PICK v \in S : m = Cardinality(before(v))
  OBVIOUS
<1>5. ASSUME NEW w \in S, <<w, v>> \in R
      PROVE  FALSE
  <2>1. before(w) \subseteq before(v) /\ before(w) # before(v)
    BY <1>5 DEF before
  <2>2. Cardinality(before(w)) < Cardinality(before(v))
    BY <1>1, <2>1, FS_Subset
  <2>3. Cardinality(before(w)) \in N /\ Cardinality(before(w)) \in Nat /\ m \in Nat
    BY <1>1, <1>2
  <2> QED
    BY <1>3, <1>4, <2>2, <2>3 DEF OpToRel
<1> QED
  BY <1>5

Kinds == {"branch-ci", "dot-release"}

LEMMA NewerOrder ==
  /\ \A v \in Versions : ~Newer(v, v)
  /\ \A u, v, w \in Versions : Newer(u, v) /\ Newer(v, w) => Newer(u, w)
  /\ \A v, w \in Versions : v = w \/ Newer(v, w) \/ Newer(w, v)
<1>1. ASSUME NEW v \in Versions
      PROVE  /\ majorMinor[v] = <<majorMinor[v][1], majorMinor[v][2]>>
             /\ majorMinor[v][1] \in Nat /\ majorMinor[v][2] \in Nat
  <2>1. majorMinor[v] \in Nat \X Nat
    BY GeneratorAssumption
  <2> QED
    BY <2>1
<1>2. ASSUME NEW v \in Versions, NEW w \in Versions,
             majorMinor[v][1] = majorMinor[w][1], majorMinor[v][2] = majorMinor[w][2]
      PROVE  v = w
  <2>1. majorMinor[v] = majorMinor[w]
    BY <1>1, <1>2
  <2> QED
    BY <2>1, GeneratorAssumption
<1>3. \A v \in Versions : ~Newer(v, v)
  BY <1>1 DEF Newer
<1>4. \A u, v, w \in Versions : Newer(u, v) /\ Newer(v, w) => Newer(u, w)
  <2> TAKE u, v, w \in Versions
  <2> QED
    BY <1>1 DEF Newer
<1>5. \A v, w \in Versions : v = w \/ Newer(v, w) \/ Newer(w, v)
  <2> TAKE v, w \in Versions
  <2> QED
    BY <1>1, <1>2 DEF Newer
<1> QED
  BY <1>3, <1>4, <1>5

LEMMA LastEntry ==
  ASSUME NEW T, NEW job \in Seq(T), NEW key, Has(job, key)
  PROVE  \E i \in DOMAIN job :
            job[i].key = key /\ \A k \in (i + 1)..Len(job) : job[k].key # key
<1> DEFINE S == {i \in DOMAIN job : job[i].key = key}
           R == {p \in Int \X Int : p[1] > p[2]}
<1>1. DOMAIN job = 1..Len(job) /\ Len(job) \in Nat /\ S \subseteq 1..Len(job) /\ S \subseteq Int
  OBVIOUS
<1>2. IsFiniteSet(S) /\ S # {}
  <2>1. IsFiniteSet(1..Len(job))
    BY <1>1, FS_Interval
  <2> QED
    BY <1>1, <2>1, FS_Subset DEF Has
<1>3. \A x, y \in Int : <<x, y>> \in R <=> x > y
  OBVIOUS
<1>4. PICK i \in S : \A k \in S : <<k, i>> \notin R
  <2> HIDE DEF S, R
  <2>1. /\ \A x \in S : <<x, x>> \notin R
        /\ \A x, y, z \in S : <<x, y>> \in R /\ <<y, z>> \in R => <<x, z>> \in R
    BY <1>1, <1>3
  <2> QED
    BY <1>2, <2>1, Extreme
<1>5. ASSUME NEW k \in (i + 1)..Len(job)
      PROVE  job[k].key # key
  <2>1. k \in 1..Len(job) /\ k > i /\ i \in Int /\ k \in Int
    BY <1>1
  <2>2. k \notin S
    <3> HIDE DEF S, R
    <3> QED
      BY <1>3, <1>4, <2>1
  <2> QED
    BY <1>1, <2>1, <2>2
<1> QED
  BY <1>5

LEMMA SeqFacts ==
  ASSUME NEW T, NEW s \in Seq(T)
  PROVE  DOMAIN s = 1..Len(s) /\ Len(s) \in Nat /\ \A i \in DOMAIN s : s[i] \in T
  OBVIOUS

LEMMA ListIs ==
  ASSUME NEW T, NEW n \in Nat, NEW s, s = [i \in 1..n |-> s[i]], \A i \in 1..n : s[i] \in T
  PROVE  s \in Seq(T) /\ Len(s) = n
<1>1. s \in [1..n -> T]
  BY Zenon
<1> QED
  BY <1>1

\* An entry of a file, or of a copy of a job for the latest version.
JobEntry(latest) == [key : STRING, on : BOOLEAN, text : Seq(STRING) \cup {<<latest>>}, num : Int]

LEMMA ReleaseWritten ==
  ASSUME NEW latest, NEW job \in Seq(JobEntry(latest)),
         NEW kind \in Kinds, getBranch(job, kind) # ""
  PROVE  /\ WithRelease(job, latest) \in Seq(JobEntry(latest))
         /\ getBranch(WithRelease(job, latest), kind) = latest
         /\ \A other \in Kinds \ {kind} : /\ getBranch(job, other) = ""
                                           /\ getBranch(WithRelease(job, latest), other) = ""
<1> DEFINE new == WithRelease(job, latest)
<1>1. DOMAIN job = 1..Len(job) /\ Len(job) \in Nat /\ \A i \in DOMAIN job : job[i] \in JobEntry(latest)
  BY SeqFacts
<1>2. /\ DOMAIN new = DOMAIN job
      /\ \A i \in DOMAIN job : new[i] = IF job[i].key = "release" THEN [job[i] EXCEPT !.text = <<latest>>]
                                                                  ELSE job[i]
  BY DEF WithRelease
<1>3. ASSUME NEW i \in DOMAIN job
      PROVE  /\ new[i] \in JobEntry(latest) /\ new[i].key = job[i].key
             /\ job[i].key = "release" => new[i].text = <<latest>>
  <2>1. job[i] \in JobEntry(latest)
    BY <1>1
  <2> HIDE DEF new
  <2> QED
    BY <1>2, <2>1 DEF JobEntry
<1>4. new \in Seq(JobEntry(latest)) /\ Len(new) = Len(job)
  <2> DEFINE n == Len(job)
  <2>1. new = [i \in 1..n |-> new[i]]
    BY <1>1, <1>2 DEF WithRelease
  <2>2. \A i \in 1..n : new[i] \in JobEntry(latest)
    BY <1>1, <1>3
  <2>3. n \in Nat
    BY <1>1
  <2> HIDE DEF new, n
  <2>4. new \in Seq(JobEntry(latest)) /\ Len(new) = n
    BY <2>1, <2>2, <2>3, ListIs
  <2> QED
    BY <2>4 DEF n
<1> HIDE DEF new
<1>5. \A key : Has(new, key) <=> Has(job, key)
  BY <1>2, <1>3 DEF Has
<1>6. Has(job, "release") /\ Has(job, kind) /\ (kind = "branch-ci" \/ ~Has(job, "branch-ci"))
  BY DEF getBranch, ReleaseOf
<1>7. ValueOf(new, "release").text = <<latest>>
  <2>1. \E i \in DOMAIN new : new[i].key = "release" /\ \A k \in (i + 1)..Len(new) : new[k].key # "release"
    BY <1>4, <1>5, <1>6, LastEntry
  <2> DEFINE i == CHOOSE x \in DOMAIN new :
                     new[x].key = "release" /\ \A k \in (x + 1)..Len(new) : new[k].key # "release"
  <2>2. i \in DOMAIN new /\ new[i].key = "release"
    BY <2>1
  <2>3. ValueOf(new, "release") = new[i]
    BY DEF ValueOf
  <2> HIDE DEF i
  <2> QED
    BY <1>2, <1>3, <2>2, <2>3
<1>8. ReleaseOf(new) = latest
  <2>1. Has(new, "release")
    BY <1>5, <1>6, Zenon
  <2>2. <<latest>>[1] = latest
    OBVIOUS
  <2> QED
    BY <1>7, <2>1, <2>2, Zenon DEF ReleaseOf
<1>9. getBranch(new, kind) = latest
  BY <1>5, <1>6, <1>8 DEF getBranch
<1>10. ASSUME NEW other \in Kinds \ {kind}
       PROVE  getBranch(job, other) = "" /\ getBranch(new, other) = ""
  <2>1. Has(new, "branch-ci") <=> Has(job, "branch-ci")
    BY <1>5, Zenon
  <2>2. CASE kind = "branch-ci"
    <3>1. other = "dot-release" /\ Has(job, "branch-ci")
      BY <1>6, <1>10, <2>2 DEF Kinds
    <3> QED
      BY <2>1, <3>1 DEF getBranch
  <2>3. CASE kind = "dot-release"
    <3>1. other = "branch-ci" /\ ~Has(job, "branch-ci")
      BY <1>6, <1>10, <2>3 DEF Kinds
    <3> QED
      BY <2>1, <3>1 DEF getBranch
  <2> QED
    BY <2>2, <2>3 DEF Kinds
<1> QED
  BY <1>4, <1>9, <1>10 DEF new

LEMMA ShortLists ==
  ASSUME NEW x, NEW y
  PROVE  /\ DOMAIN <<x>> = {1} /\ <<x>>[1] = x /\ DOMAIN <<>> = {}
         /\ DOMAIN <<x, y>> = {1, 2} /\ <<x, y>>[1] = x /\ <<x, y>>[2] = y
         /\ \A J : x \in J => <<x>> \in Seq(J) /\ <<>> \in Seq(J)
         /\ \A J : x \in J /\ y \in J => <<x, y>> \in Seq(J)
  OBVIOUS

JobList(latest) == Seq(Seq(JobEntry(latest)))

\* No two jobs of a kind are for the same version.
Once(js, kind) ==
    \A k, l \in DOMAIN js :
        getBranch(js[k], kind) = getBranch(js[l], kind) /\ getBranch(js[k], kind) # "" => k = l

\* What updateConfigForJob makes of a job.
Updated(js, kind, latest, job) ==
    LET v == getBranch(job, kind)
    IN  IF v = "" THEN <<job>>
        ELSE IF Cardinality(NewerThan(js, kind, v)) >= maxReleaseBranches - 1 THEN <<>>
        ELSE IF NewerThan(js, kind, v) = {} THEN <<job, WithRelease(job, latest)>>
        ELSE <<job>>

\* A list after an update: where its jobs come from.
UpdatedFrom(js, kind, latest, new, a, b) ==
    /\ new \in JobList(latest) /\ DOMAIN new = 1..Len(new)
    /\ \A p \in DOMAIN new : /\ a[p] \in DOMAIN js /\ b[p] \in DOMAIN Updated(js, kind, latest, js[a[p]])
                             /\ new[p] = Updated(js, kind, latest, js[a[p]])[b[p]]
    /\ \A p, q \in DOMAIN new : a[p] = a[q] /\ b[p] = b[q] => p = q
    /\ \A i \in DOMAIN js : \A k \in DOMAIN Updated(js, kind, latest, js[i]) :
         \E p \in DOMAIN new : a[p] = i /\ b[p] = k

LEMMA UpdateOrigin ==
  ASSUME NEW latest, NEW js \in JobList(latest), NEW kind \in Kinds
  PROVE  \E a, b : UpdatedFrom(js, kind, latest, updateConfigForJob(js, kind, latest), a, b)
<1> DEFINE ss == [i \in DOMAIN js |-> Updated(js, kind, latest, js[i])]
           J == Seq(JobEntry(latest))
<1>1. updateConfigForJob(js, kind, latest) = FlattenSeq(ss)
  BY DEF updateConfigForJob, Updated
<1>2. DOMAIN js = 1..Len(js) /\ Len(js) \in Nat /\ \A i \in DOMAIN js : js[i] \in J
  BY SeqFacts DEF JobList
<1>3. ASSUME NEW i \in DOMAIN js
      PROVE  ss[i] \in Seq(J)
  <2>1. js[i] \in J
    BY <1>2
  <2>2. getBranch(js[i], kind) # "" => WithRelease(js[i], latest) \in J
    BY <2>1, ReleaseWritten
  <2>3. ss[i] = Updated(js, kind, latest, js[i])
    OBVIOUS
  <2> HIDE DEF J, ss
  <2>4. <<js[i]>> \in Seq(J) /\ <<>> \in Seq(J)
        /\ (getBranch(js[i], kind) # "" => <<js[i], WithRelease(js[i], latest)>> \in Seq(J))
    BY <2>1, <2>2, ShortLists, Zenon
  <2> QED
    BY <2>3, <2>4 DEF Updated
<1>4. ss \in Seq(Seq(J)) /\ Len(ss) = Len(js) /\ DOMAIN ss = DOMAIN js
  <2> DEFINE n == Len(js)
  <2>1. ss = [i \in 1..n |-> ss[i]] /\ n \in Nat /\ \A i \in 1..n : ss[i] \in Seq(J)
    BY <1>2, <1>3
  <2>2. DOMAIN ss = DOMAIN js
    OBVIOUS
  <2> HIDE DEF J, ss, n
  <2>3. ss \in Seq(Seq(J)) /\ Len(ss) = n
    BY <2>1, ListIs
  <2> QED
    BY <2>2, <2>3 DEF n
<1>5. \A i \in DOMAIN js : ss[i] = Updated(js, kind, latest, js[i])
  OBVIOUS
<1> HIDE DEF ss, J
<1>6. PICK a, b : Origin(ss, FlattenSeq(ss), Len(ss), a, b)
  BY <1>4, FlattenOrigin
<1>7. FlattenSeq(ss) \in Seq(J)
  BY <1>4, FlattenType
<1>8. \A i \in DOMAIN js : DOMAIN ss[i] = 1..Len(ss[i])
  BY <1>3
<1> DEFINE new == FlattenSeq(ss)
<1>9. new \in JobList(latest) /\ DOMAIN new = 1..Len(new)
  BY <1>7, SeqFacts DEF J, JobList
<1> HIDE DEF new
<1>10. Origin(ss, new, Len(js), a, b)
  BY <1>4, <1>6 DEF new
<1>11. \A p \in DOMAIN new : /\ a[p] \in DOMAIN js /\ b[p] \in DOMAIN ss[a[p]]
                             /\ new[p] = ss[a[p]][b[p]]
  BY <1>2, <1>8, <1>10 DEF Origin
<1>12. \A p, q \in DOMAIN new : a[p] = a[q] /\ b[p] = b[q] => p = q
  BY <1>10 DEF Origin
<1>13. \A i \in DOMAIN js : \A k \in DOMAIN ss[i] : \E p \in DOMAIN new : a[p] = i /\ b[p] = k
  <2> SUFFICES ASSUME NEW i \in DOMAIN js, NEW k \in DOMAIN ss[i]
               PROVE  \E p \in DOMAIN new : a[p] = i /\ b[p] = k
    OBVIOUS
  <2>1. i \in 1..Len(js) /\ k \in 1..Len(ss[i])
    BY <1>2, <1>8
  <2>2. \E p \in 1..Len(new) : a[p] = i /\ b[p] = k
    BY <1>10, <2>1, Zenon DEF Origin
  <2> QED
    BY <1>9, <2>2, Zenon
<1>14. UpdatedFrom(js, kind, latest, new, a, b)
  BY <1>5, <1>9, <1>11, <1>12, <1>13 DEF UpdatedFrom
<1> QED
  BY <1>1, <1>14 DEF new

LEMMA NewerFinite ==
  ASSUME NEW T, NEW js \in Seq(T), NEW kind, NEW v
  PROVE  /\ IsFiniteSet(NewerThan(js, kind, v)) /\ Cardinality(NewerThan(js, kind, v)) \in Nat
         /\ NewerThan(js, kind, v) = {} <=> Cardinality(NewerThan(js, kind, v)) = 0
<1>1. DOMAIN js = 1..Len(js) /\ Len(js) \in Nat
  OBVIOUS
<1>2. IsFiniteSet(DOMAIN js) /\ NewerThan(js, kind, v) \subseteq DOMAIN js
  <2>1. IsFiniteSet(1..Len(js))
    BY <1>1, FS_Interval
  <2> QED
    BY <1>1, <2>1 DEF NewerThan
<1> QED
  BY <1>2, FS_Subset, FS_CardinalityType, FS_EmptySet

\* An update keeps the versions of the other kind, each once.
LEMMA OtherKept ==
  ASSUME NEW latest, NEW js \in JobList(latest), NEW kind \in Kinds, NEW other \in Kinds \ {kind}
  PROVE  LET new == updateConfigForJob(js, kind, latest)
         IN  /\ new \in JobList(latest)
             /\ VersionsOf(new, other) = VersionsOf(js, other)
             /\ Once(js, other) => Once(new, other)
<1> DEFINE new == updateConfigForJob(js, kind, latest)
           ver(job) == getBranch(job, other)
<1>1. PICK a, b : UpdatedFrom(js, kind, latest, new, a, b)
  BY UpdateOrigin
<1> HIDE DEF new
<1>2. new \in JobList(latest)
  BY <1>1 DEF UpdatedFrom
<1>3. ASSUME NEW i \in DOMAIN js
      PROVE  /\ ver(js[i]) # "" => Updated(js, kind, latest, js[i]) = <<js[i]>>
             /\ \A k \in DOMAIN Updated(js, kind, latest, js[i]) :
                  ver(Updated(js, kind, latest, js[i])[k]) = ver(js[i])
  <2>1. js[i] \in Seq(JobEntry(latest))
    BY SeqFacts DEF JobList
  <2>2. getBranch(js[i], kind) # "" => ver(js[i]) = "" /\ ver(WithRelease(js[i], latest)) = ""
    <3> SUFFICES ASSUME getBranch(js[i], kind) # ""
                 PROVE  getBranch(js[i], other) = "" /\ getBranch(WithRelease(js[i], latest), other) = ""
      OBVIOUS
    <3> HIDE DEF ver
    <3>1. \A x \in Kinds \ {kind} : /\ getBranch(js[i], x) = ""
                                    /\ getBranch(WithRelease(js[i], latest), x) = ""
      BY <2>1, ReleaseWritten
    <3> QED
      BY <3>1, Zenon
  <2> DEFINE x == js[i]
             y == WithRelease(js[i], latest)
  <2>3. Updated(js, kind, latest, x) \in {<<x>>, <<>>} \/
            (getBranch(x, kind) # "" /\ Updated(js, kind, latest, x) = <<x, y>>)
    BY DEF Updated
  <2>4. getBranch(x, kind) = "" => Updated(js, kind, latest, x) = <<x>>
    BY DEF Updated
  <2> HIDE DEF ver, y
  <2> HIDE DEF x
  <2>5. /\ DOMAIN <<x>> = {1} /\ <<x>>[1] = x /\ DOMAIN <<>> = {}
        /\ DOMAIN <<x, y>> = {1, 2} /\ <<x, y>>[1] = x /\ <<x, y>>[2] = y
    BY ShortLists
  <2>6. getBranch(x, kind) # "" => ver(x) = "" /\ ver(y) = ""
    BY <2>2 DEF x, y
  <2>7. /\ ver(x) # "" => Updated(js, kind, latest, x) = <<x>>
        /\ \A k \in DOMAIN Updated(js, kind, latest, x) : ver(Updated(js, kind, latest, x)[k]) = ver(x)
    <3>1. CASE Updated(js, kind, latest, x) = <<x>>
      BY <2>5, <3>1
    <3>2. CASE getBranch(x, kind) # "" /\ Updated(js, kind, latest, x) = <<>>
      BY <2>5, <2>6, <3>2
    <3>3. CASE getBranch(x, kind) # "" /\ Updated(js, kind, latest, x) = <<x, y>>
      <4>1. \A k \in {1, 2} : <<x, y>>[k] = x \/ <<x, y>>[k] = y
        BY <2>5
      <4> QED
        BY <2>5, <2>6, <3>3, <4>1
    <3> QED
      BY <2>3, <2>4, <3>1, <3>2, <3>3
  <2> QED
    BY <2>7 DEF x
<1>4. ASSUME NEW p \in DOMAIN new
      PROVE  a[p] \in DOMAIN js /\ ver(new[p]) = ver(js[a[p]])
  <2>1. /\ a[p] \in DOMAIN js /\ b[p] \in DOMAIN Updated(js, kind, latest, js[a[p]])
        /\ new[p] = Updated(js, kind, latest, js[a[p]])[b[p]]
    BY <1>1, Zenon DEF UpdatedFrom
  <2>2. ver(Updated(js, kind, latest, js[a[p]])[b[p]]) = ver(js[a[p]])
    BY <1>3, <2>1, Zenon
  <2> QED
    BY <2>1, <2>2, Zenon
<1>5. ASSUME NEW i \in DOMAIN js, ver(js[i]) # ""
      PROVE  \E p \in DOMAIN new : a[p] = i
  <2>1. DOMAIN <<js[i]>> = {1}
    BY ShortLists
  <2>2. 1 \in DOMAIN Updated(js, kind, latest, js[i])
    BY <1>3, <1>5, <2>1
  <2> QED
    BY <1>1, <2>2 DEF UpdatedFrom
<1>6. VersionsOf(new, other) = VersionsOf(js, other)
  <2>1. ASSUME NEW v \in VersionsOf(new, other)
        PROVE  v \in VersionsOf(js, other)
    BY <1>4, <2>1 DEF VersionsOf
  <2>2. ASSUME NEW v \in VersionsOf(js, other)
        PROVE  v \in VersionsOf(new, other)
    <3>1. PICK i \in DOMAIN js : v = ver(js[i]) /\ v # ""
      BY <2>2 DEF VersionsOf
    <3>2. PICK p \in DOMAIN new : a[p] = i
      BY <1>5, <3>1, Zenon
    <3>3. ver(new[p]) = v
      BY <1>4, <3>1, <3>2, Zenon
    <3> QED
      BY <3>1, <3>3 DEF VersionsOf
  <2> QED
    BY <2>1, <2>2
<1>7. ASSUME Once(js, other)
      PROVE  Once(new, other)
  <2> SUFFICES ASSUME NEW p \in DOMAIN new, NEW q \in DOMAIN new,
                      ver(new[p]) = ver(new[q]), ver(new[p]) # ""
               PROVE  p = q
    BY DEF Once
  <2>1. a[p] = a[q]
    BY <1>4, <1>7 DEF Once
  <2>2. ver(js[a[p]]) # "" /\ a[p] \in DOMAIN js
    BY <1>4
  <2>3. Updated(js, kind, latest, js[a[p]]) = <<js[a[p]]>>
    BY <1>3, <2>2
  <2>4. DOMAIN <<js[a[p]]>> = {1}
    BY ShortLists
  <2>5. b[p] = 1 /\ b[q] = 1
    <3>1. b[p] \in DOMAIN Updated(js, kind, latest, js[a[p]]) /\ b[q] \in DOMAIN Updated(js, kind, latest, js[a[p]])
      BY <1>1, <2>1, Zenon DEF UpdatedFrom
    <3> QED
      BY <2>3, <2>4, <3>1
  <2> QED
    BY <1>1, <2>1, <2>5 DEF UpdatedFrom
<1> QED
  BY <1>2, <1>6, <1>7 DEF new

LEMMA Injects ==
  ASSUME NEW S, NEW T, IsFiniteSet(T), NEW f \in [S -> T],
         \A x, y \in S : f[x] = f[y] => x = y
  PROVE  IsFiniteSet(S) /\ Cardinality(S) <= Cardinality(T)
<1>1. f \in Injection(S, T)
  BY DEF Injection, IsInjective
<1> QED
  BY <1>1, FS_Injection

LEMMA FourBranches == maxReleaseBranches = 4 /\ maxReleaseBranches - 1 = 3 /\ 3 \in Nat /\ 0 < 3
  BY DEF maxReleaseBranches

LEMMA LessOrNot == \A c, m \in Nat : c < m <=> ~(c >= m)
  OBVIOUS

\* The versions of a kind after an update of that kind: those with at most two newer
\* ones, and the latest.
LEMMA OwnVersions ==
  ASSUME NEW latest, latest # "", NEW js \in JobList(latest), NEW kind \in Kinds
  PROVE  LET new == updateConfigForJob(js, kind, latest)
             kept == {v \in VersionsOf(js, kind) :
                         Cardinality(NewerThan(js, kind, v)) < maxReleaseBranches - 1}
         IN  /\ new \in JobList(latest)
             /\ kept \subseteq VersionsOf(new, kind)
             /\ VersionsOf(new, kind) \subseteq kept \cup {latest}
             /\ \A v \in VersionsOf(js, kind) : NewerThan(js, kind, v) = {} =>
                    latest \in VersionsOf(new, kind)
<1> DEFINE new == updateConfigForJob(js, kind, latest)
           ver(job) == getBranch(job, kind)
           Few(v) == Cardinality(NewerThan(js, kind, v)) < maxReleaseBranches - 1
           upd(i) == Updated(js, kind, latest, js[i])
<1>1. PICK a, b : UpdatedFrom(js, kind, latest, new, a, b)
  BY UpdateOrigin
<1> HIDE DEF new
<1>2. new \in JobList(latest)
  BY <1>1 DEF UpdatedFrom
<1>3. /\ \A p \in DOMAIN new : /\ a[p] \in DOMAIN js /\ b[p] \in DOMAIN upd(a[p])
                               /\ new[p] = upd(a[p])[b[p]]
      /\ \A i \in DOMAIN js : \A k \in DOMAIN upd(i) : \E p \in DOMAIN new : new[p] = upd(i)[k]
  <2>1. \A p \in DOMAIN new : /\ a[p] \in DOMAIN js /\ b[p] \in DOMAIN upd(a[p])
                               /\ new[p] = upd(a[p])[b[p]]
    BY <1>1, Zenon DEF UpdatedFrom
  <2>2. \A i \in DOMAIN js : \A k \in DOMAIN upd(i) : \E p \in DOMAIN new : a[p] = i /\ b[p] = k
    BY <1>1, Zenon DEF UpdatedFrom
  <2> HIDE DEF upd
  <2>3. ASSUME NEW i \in DOMAIN js, NEW k \in DOMAIN upd(i)
        PROVE  \E p \in DOMAIN new : new[p] = upd(i)[k]
    <3>1. PICK p \in DOMAIN new : a[p] = i /\ b[p] = k
      BY <2>2, Zenon
    <3> QED
      BY <2>1, <3>1
  <2> QED
    BY <2>1, <2>3, Zenon
<1>4. ASSUME NEW i \in DOMAIN js
      PROVE  /\ ver(js[i]) = "" => upd(i) = <<js[i]>>
             /\ ver(js[i]) # "" => ver(WithRelease(js[i], latest)) = latest
             /\ ver(js[i]) # "" /\ ~Few(ver(js[i])) => upd(i) = <<>>
             /\ ver(js[i]) # "" /\ Few(ver(js[i])) =>
                  upd(i) = IF NewerThan(js, kind, ver(js[i])) = {}
                           THEN <<js[i], WithRelease(js[i], latest)>> ELSE <<js[i]>>
  <2>1. js[i] \in Seq(JobEntry(latest))
    BY SeqFacts DEF JobList
  <2>2. ver(js[i]) # "" => ver(WithRelease(js[i], latest)) = latest
    BY <2>1, ReleaseWritten
  <2>3. Cardinality(NewerThan(js, kind, ver(js[i]))) \in Nat /\ maxReleaseBranches - 1 \in Nat
    <3>1. js \in Seq(Seq(JobEntry(latest)))
      BY DEF JobList
    <3>2. maxReleaseBranches - 1 \in Nat
      BY FourBranches, Zenon
    <3> QED
      BY <3>1, <3>2, NewerFinite
  <2> DEFINE c == Cardinality(NewerThan(js, kind, ver(js[i])))
             m == maxReleaseBranches - 1
  <2>4. Few(ver(js[i])) <=> ~(c >= m)
    <3>1. c \in Nat /\ m \in Nat
      BY <2>3
    <3>2. Few(ver(js[i])) <=> c < m
      OBVIOUS
    <3> QED
      BY <3>1, <3>2, LessOrNot, Zenon
  <2> HIDE DEF Few
  <2> QED
    BY <2>2, <2>4 DEF Updated
<1> HIDE DEF upd
<1>5. ASSUME NEW p \in DOMAIN new, ver(new[p]) # ""
      PROVE  \/ ver(new[p]) = latest
             \/ (ver(new[p]) \in VersionsOf(js, kind) /\ Few(ver(new[p])))
  <2> DEFINE i == a[p]
             x == js[i]
             y == WithRelease(x, latest)
  <2>1. i \in DOMAIN js /\ b[p] \in DOMAIN upd(i) /\ new[p] = upd(i)[b[p]]
    BY <1>3
  <2>2. /\ ver(x) = "" => upd(i) = <<x>>
        /\ ver(x) # "" => ver(y) = latest
        /\ ver(x) # "" /\ ~Few(ver(x)) => upd(i) = <<>>
        /\ ver(x) # "" /\ Few(ver(x)) => upd(i) \in {<<x, y>>, <<x>>}
    <3>1. /\ ver(x) = "" => upd(i) = <<x>>
          /\ ver(x) # "" => ver(y) = latest
          /\ ver(x) # "" /\ ~Few(ver(x)) => upd(i) = <<>>
      BY <1>4, <2>1
    <3>2. ver(x) # "" /\ Few(ver(x)) =>
                  upd(i) = IF NewerThan(js, kind, ver(x)) = {} THEN <<x, y>> ELSE <<x>>
      BY <1>4, <2>1
    <3> HIDE DEF ver, Few, y, x, i
    <3> QED
      BY <3>1, <3>2
  <2>3. ver(x) # "" => ver(x) \in VersionsOf(js, kind)
    BY <2>1 DEF VersionsOf
  <2> HIDE DEF x, y, ver, Few, i
  <2>4. /\ DOMAIN <<x>> = {1} /\ <<x>>[1] = x /\ DOMAIN <<>> = {}
        /\ DOMAIN <<x, y>> = {1, 2} /\ <<x, y>>[1] = x /\ <<x, y>>[2] = y
    BY ShortLists
  <2>5. (new[p] = x /\ Few(ver(x))) \/ (new[p] = y /\ ver(x) # "") \/ (new[p] = x /\ ver(x) = "")
    <3>1. CASE ver(x) = ""
      BY <2>1, <2>2, <2>4, <3>1
    <3>2. CASE ver(x) # "" /\ ~Few(ver(x))
      BY <2>1, <2>2, <2>4, <3>2
    <3>3. CASE ver(x) # "" /\ Few(ver(x))
      <4>1. CASE upd(i) = <<x>>
        BY <2>1, <2>4, <3>3, <4>1
      <4>2. CASE upd(i) = <<x, y>>
        <5>1. b[p] = 1 \/ b[p] = 2
          BY <2>1, <2>4, <4>2
        <5> QED
          BY <2>1, <2>4, <3>3, <4>2, <5>1
      <4> QED
        BY <2>2, <3>3, <4>1, <4>2
    <3> QED
      BY <3>1, <3>2, <3>3
  <2> QED
    BY <1>5, <2>2, <2>3, <2>5
<1>6. ASSUME NEW i \in DOMAIN js, ver(js[i]) # "", Few(ver(js[i]))
      PROVE  /\ \E p \in DOMAIN new : new[p] = js[i]
             /\ NewerThan(js, kind, ver(js[i])) = {} =>
                   \E p \in DOMAIN new : ver(new[p]) = latest
  <2> DEFINE x == js[i]
             y == WithRelease(x, latest)
  <2>1. /\ ver(y) = latest
        /\ upd(i) = IF NewerThan(js, kind, ver(x)) = {} THEN <<x, y>> ELSE <<x>>
    BY <1>4, <1>6
  <2>2. \A k \in DOMAIN upd(i) : \E p \in DOMAIN new : new[p] = upd(i)[k]
    BY <1>3
  <2> HIDE DEF x, y, ver, Few
  <2>3. /\ DOMAIN <<x>> = {1} /\ <<x>>[1] = x /\ DOMAIN <<>> = {}
        /\ DOMAIN <<x, y>> = {1, 2} /\ <<x, y>>[1] = x /\ <<x, y>>[2] = y
    BY ShortLists
  <2>4. 1 \in DOMAIN upd(i) /\ upd(i)[1] = x
    BY <2>1, <2>3
  <2>5. NewerThan(js, kind, ver(x)) = {} => 2 \in DOMAIN upd(i) /\ upd(i)[2] = y
    BY <2>1, <2>3
  <2>6. \E p \in DOMAIN new : new[p] = x
    BY <2>2, <2>4
  <2>7. NewerThan(js, kind, ver(x)) = {} => \E p \in DOMAIN new : ver(new[p]) = latest
    BY <2>1, <2>2, <2>5
  <2> QED
    BY <2>6, <2>7 DEF x
<1>7. ASSUME NEW v \in VersionsOf(js, kind)
      PROVE  \E i \in DOMAIN js : v = ver(js[i]) /\ v # ""
  BY <1>7 DEF VersionsOf
<1>8. \A p \in DOMAIN new : ver(new[p]) # "" => ver(new[p]) \in VersionsOf(new, kind)
  BY DEF VersionsOf
<1>9. \A v \in VersionsOf(new, kind) : \E p \in DOMAIN new : v = ver(new[p]) /\ v # ""
  BY DEF VersionsOf
<1>10. ASSUME NEW v \in VersionsOf(js, kind), Few(v)
       PROVE  /\ v \in VersionsOf(new, kind)
              /\ NewerThan(js, kind, v) = {} => latest \in VersionsOf(new, kind)
  <2>1. PICK i \in DOMAIN js : v = ver(js[i]) /\ v # ""
    BY <1>7
  <2> HIDE DEF Few, ver
  <2>2. PICK p \in DOMAIN new : new[p] = js[i]
    BY <1>6, <1>10, <2>1
  <2>3. v \in VersionsOf(new, kind)
    BY <1>8, <2>1, <2>2
  <2>4. NewerThan(js, kind, v) = {} => \E q \in DOMAIN new : ver(new[q]) = latest
    BY <1>6, <1>10, <2>1
  <2> QED
    BY <1>8, <2>3, <2>4
<1>11. \A v : NewerThan(js, kind, v) = {} => Few(v)
  <2>1. Cardinality({}) < maxReleaseBranches - 1
    BY FS_EmptySet, FourBranches, Zenon
  <2> SUFFICES ASSUME NEW v, NewerThan(js, kind, v) = {}
               PROVE  Few(v)
    OBVIOUS
  <2> QED
    BY <2>1
<1>12. \A v \in VersionsOf(js, kind) : NewerThan(js, kind, v) = {} => latest \in VersionsOf(new, kind)
  <2> HIDE DEF Few
  <2> QED
    BY <1>10, <1>11
<1>13. \A v \in VersionsOf(new, kind) : v = latest \/ (v \in VersionsOf(js, kind) /\ Few(v))
  <2> HIDE DEF Few, ver
  <2> QED
    BY <1>5, <1>9
<1> QED
  BY <1>2, <1>10, <1>12, <1>13 DEF new

\* What an upgrade may do to the versions of a kind.
Keeps(old, new, latest) ==
    old # new =>
      /\ latest \in new /\ Cardinality(new) <= maxReleaseBranches
      /\ new \subseteq old \cup {latest}
      /\ \A v \in old \ new, w \in new \ {latest} : Newer(w, v)
      /\ Cardinality(new) = maxReleaseBranches \/ old \subseteq new

\* The index of a job for each version.
LEMMA IndexOf ==
  ASSUME NEW latest, NEW js \in JobList(latest), NEW kind
  PROVE  \E f : /\ f \in [VersionsOf(js, kind) -> DOMAIN js]
                /\ \A v \in VersionsOf(js, kind) : getBranch(js[f[v]], kind) = v /\ v # ""
<1> DEFINE old == VersionsOf(js, kind)
           f == [v \in old |-> CHOOSE i \in DOMAIN js : getBranch(js[i], kind) = v]
<1>1. ASSUME NEW v \in old
      PROVE  f[v] \in DOMAIN js /\ getBranch(js[f[v]], kind) = v /\ v # ""
  <2>1. v # "" /\ \E i \in DOMAIN js : getBranch(js[i], kind) = v
    BY DEF VersionsOf
  <2>2. f[v] = CHOOSE i \in DOMAIN js : getBranch(js[i], kind) = v
    OBVIOUS
  <2> HIDE DEF f
  <2> QED
    BY <2>1, <2>2
<1>2. f \in [old -> DOMAIN js]
  <2>1. f = [v \in old |-> f[v]]
    OBVIOUS
  <2> HIDE DEF f, old
  <2> QED
    BY <1>1, <2>1
<1> HIDE DEF f
<1> QED
  BY <1>1, <1>2

LEMMA VersionsFinite ==
  ASSUME NEW latest, NEW js \in JobList(latest), NEW kind
  PROVE  IsFiniteSet(VersionsOf(js, kind)) /\ IsFiniteSet(DOMAIN js)
<1>1. IsFiniteSet(DOMAIN js)
  <2>1. DOMAIN js = 1..Len(js) /\ Len(js) \in Nat
    BY SeqFacts DEF JobList
  <2> QED
    BY <2>1, FS_Interval
<1>2. PICK f : /\ f \in [VersionsOf(js, kind) -> DOMAIN js]
               /\ \A v \in VersionsOf(js, kind) : getBranch(js[f[v]], kind) = v /\ v # ""
  BY IndexOf
<1>3. \A v, w \in VersionsOf(js, kind) : f[v] = f[w] => v = w
  BY <1>2
<1> QED
  BY <1>1, <1>2, <1>3, Injects

\* At most three versions have at most two newer ones; if others have more, exactly three.
LEMMA KeptVersions ==
  ASSUME NEW latest, NEW js \in JobList(latest), NEW kind,
         VersionsOf(js, kind) \subseteq Versions
  PROVE  LET old  == VersionsOf(js, kind)
             kept == {v \in old : Cardinality(NewerThan(js, kind, v)) < maxReleaseBranches - 1}
         IN  /\ IsFiniteSet(kept) /\ Cardinality(kept) <= 3
             /\ Once(js, kind) /\ ~(old \subseteq kept) => Cardinality(kept) = 3
             /\ \A v \in old \ kept, w \in kept : Newer(w, v)
             /\ old # {} => \E v \in old : NewerThan(js, kind, v) = {}
<1> DEFINE old  == VersionsOf(js, kind)
           ver(i) == getBranch(js[i], kind)
           num(v) == Cardinality(NewerThan(js, kind, v))
           kept == {v \in old : num(v) < maxReleaseBranches - 1}
           R == {p \in Versions \X Versions : Newer(p[1], p[2])}
           B == {p \in Versions \X Versions : Newer(p[2], p[1])}
<1>1. IsFiniteSet(old) /\ IsFiniteSet(kept) /\ Cardinality(kept) \in Nat
  <2>1. IsFiniteSet(old) /\ kept \subseteq old
    BY VersionsFinite
  <2> QED
    BY <2>1, FS_Subset, FS_CardinalityType
<1>2. \A v : IsFiniteSet(NewerThan(js, kind, v)) /\ num(v) \in Nat
  BY NewerFinite DEF JobList
<1>3. \A v \in old : v \in kept <=> num(v) < 3
  BY FourBranches, Zenon
<1>4. /\ \A x, y \in Versions : <<x, y>> \in R <=> Newer(x, y)
      /\ \A x, y \in Versions : <<x, y>> \in B <=> Newer(y, x)
  OBVIOUS
<1>5. PICK f : /\ f \in [old -> DOMAIN js]
               /\ \A v \in old : ver(f[v]) = v /\ v # ""
  BY IndexOf
<1>6. \A i, v : i \in NewerThan(js, kind, v) <=> i \in DOMAIN js /\ ver(i) \in old /\ Newer(ver(i), v)
  BY DEF NewerThan, VersionsOf
<1>7. /\ old \subseteq Versions /\ kept \subseteq old
      /\ \A x \in old : ~Newer(x, x)
      /\ \A x, y, z \in old : Newer(x, y) /\ Newer(y, z) => Newer(x, z)
      /\ \A x, y \in old : x = y \/ Newer(x, y) \/ Newer(y, x)
  BY NewerOrder
<1> HIDE DEF old, num, kept, R, B
<1>8. ASSUME NEW S, S \subseteq old, S # {}
      PROVE  /\ \E v \in S : \A w \in S : ~Newer(w, v)
             /\ \E v \in S : \A w \in S : ~Newer(v, w)
  <2>1. IsFiniteSet(S) /\ S \subseteq Versions
    BY <1>1, <1>7, <1>8, FS_Subset
  <2>2. \E v \in S : \A w \in S : <<w, v>> \notin R
    <3>1. /\ \A x \in S : <<x, x>> \notin R
          /\ \A x, y, z \in S : <<x, y>> \in R /\ <<y, z>> \in R => <<x, z>> \in R
      BY <1>4, <1>7, <1>8
    <3> QED
      BY <1>8, <2>1, <3>1, Extreme
  <2>3. \E v \in S : \A w \in S : <<w, v>> \notin B
    <3>1. /\ \A x \in S : <<x, x>> \notin B
          /\ \A x, y, z \in S : <<x, y>> \in B /\ <<y, z>> \in B => <<x, z>> \in B
      BY <1>4, <1>7, <1>8
    <3> QED
      BY <1>8, <2>1, <3>1, Extreme
  <2> QED
    BY <1>4, <2>1, <2>2, <2>3
<1>9. \A v \in old \ kept, w \in kept : Newer(w, v)
  <2> SUFFICES ASSUME NEW v \in old \ kept, NEW w \in kept, ~Newer(w, v)
               PROVE  FALSE
    OBVIOUS
  <2>1. Newer(v, w) /\ v \in old /\ w \in old
    BY <1>7
  <2>2. NewerThan(js, kind, v) \subseteq NewerThan(js, kind, w)
    BY <1>6, <1>7, <2>1
  <2>3. num(v) <= num(w)
    BY <1>2, <2>2, FS_Subset DEF num
  <2> QED
    BY <1>2, <1>3, <2>1, <2>3
<1>10. Cardinality(kept) <= 3
  <2>1. CASE kept = {}
    BY <2>1, FS_EmptySet
  <2>2. CASE kept # {}
    <3>1. PICK m \in kept : \A w \in kept : ~Newer(m, w)
      BY <1>7, <1>8, <2>2
    <3> DEFINE others == kept \ {m}
               h == [w \in others |-> f[w]]
    <3>2. \A w \in others : Newer(w, m) /\ w \in old /\ m \in old
      BY <1>7, <3>1
    <3>3. \A w \in others : h[w] \in NewerThan(js, kind, m) /\ ver(h[w]) = w
      BY <1>5, <1>6, <3>2
    <3>4. Cardinality(others) = Cardinality(kept) - 1
      BY <1>1, FS_RemoveElement
    <3>5. h \in [others -> NewerThan(js, kind, m)]
      <4>1. h = [w \in others |-> h[w]]
        OBVIOUS
      <4> HIDE DEF h, others
      <4> QED
        BY <3>3, <4>1
    <3> HIDE DEF h, others
    <3>6. \A x, y \in others : h[x] = h[y] => x = y
      BY <3>3
    <3>7. IsFiniteSet(others) /\ Cardinality(others) <= num(m)
      BY <1>2, <3>5, <3>6, Injects DEF num
    <3> QED
      BY <1>1, <1>2, <1>3, <1>7, <3>4, <3>7, FS_CardinalityType
  <2> QED
    BY <2>1, <2>2
<1>11. ASSUME Once(js, kind), ~(old \subseteq kept)
       PROVE  Cardinality(kept) = 3
  <2> DEFINE dropped == old \ kept
  <2>1. PICK d \in dropped : \A w \in dropped : ~Newer(w, d)
    <3>1. dropped \subseteq old /\ dropped # {}
      BY <1>11
    <3> QED
      BY <1>8, <3>1
  <2> DEFINE N == NewerThan(js, kind, d)
             h == [i \in N |-> ver(i)]
  <2>2. \A i \in N : h[i] \in kept /\ i \in DOMAIN js /\ h[i] = ver(i) /\ h[i] # ""
    BY <1>5, <1>6, <1>7, <2>1
  <2>3. h \in [N -> kept]
    <3>1. h = [i \in N |-> h[i]]
      OBVIOUS
    <3> HIDE DEF h, N
    <3> QED
      BY <2>2, <3>1
  <2> HIDE DEF h, N
  <2>4. \A x, y \in N : h[x] = h[y] => x = y
    BY <1>11, <2>2 DEF Once
  <2>5. Cardinality(N) <= Cardinality(kept)
    BY <1>1, <2>3, <2>4, Injects
  <2>6. Cardinality(N) \in Nat /\ ~(Cardinality(N) < 3)
    BY <1>2, <1>3, <2>1 DEF N, num
  <2> QED
    BY <1>1, <1>10, <2>5, <2>6
<1>12. ASSUME old # {}
       PROVE  \E v \in old : NewerThan(js, kind, v) = {}
  <2>1. PICK v \in old : \A w \in old : ~Newer(w, v)
    BY <1>8, <1>12
  <2> QED
    BY <1>6, <2>1
<1> QED
  BY <1>1, <1>9, <1>10, <1>11, <1>12 DEF old, kept, num

LEMMA OneMore == \A n \in Nat : (n <= 3 => n + 1 <= 4) /\ (n = 3 => n + 1 = 4)
  OBVIOUS

LEMMA UpdateKeeps ==
  ASSUME NEW latest, latest # "", NEW js \in JobList(latest), NEW kind \in Kinds,
         VersionsOf(js, kind) \subseteq Versions, Once(js, kind)
  PROVE  LET new == UpdateKind(js, kind, latest)
         IN  /\ new \in JobList(latest)
             /\ Keeps(VersionsOf(js, kind), VersionsOf(new, kind), latest)
             /\ VersionsOf(new, kind) = {} \/ latest \in VersionsOf(new, kind)
<1> DEFINE old  == VersionsOf(js, kind)
           kept == {v \in old : Cardinality(NewerThan(js, kind, v)) < maxReleaseBranches - 1}
           upd  == updateConfigForJob(js, kind, latest)
           new  == VersionsOf(upd, kind)
<1>1. CASE old = {} \/ latest \in old
  <2>1. UpdateKind(js, kind, latest) = js
    BY <1>1 DEF UpdateKind
  <2> QED
    BY <1>1, <2>1 DEF Keeps
<1>2. CASE ~(old = {} \/ latest \in old)
  <2>1. UpdateKind(js, kind, latest) = upd
    BY <1>2 DEF UpdateKind
  <2>2. /\ upd \in JobList(latest) /\ kept \subseteq new /\ new \subseteq kept \cup {latest}
        /\ \A v \in old : NewerThan(js, kind, v) = {} => latest \in new
    BY OwnVersions
  <2>3. /\ IsFiniteSet(kept) /\ Cardinality(kept) <= 3
        /\ ~(old \subseteq kept) => Cardinality(kept) = 3
        /\ \A v \in old \ kept, w \in kept : Newer(w, v)
        /\ old # {} => \E v \in old : NewerThan(js, kind, v) = {}
    BY KeptVersions
  <2>4. kept \subseteq old
    OBVIOUS
  <2> HIDE DEF old, kept, upd, new
  <2>5. latest \in new /\ new = kept \cup {latest} /\ latest \notin kept
    BY <1>2, <2>2, <2>3, <2>4
  <2>6. Cardinality(new) = Cardinality(kept) + 1 /\ Cardinality(kept) \in Nat
    BY <2>3, <2>5, FS_AddElement, FS_CardinalityType
  <2>7. Keeps(old, new, latest)
    <3>1. Cardinality(new) <= maxReleaseBranches
      BY <2>3, <2>6, FourBranches, OneMore, Zenon
    <3>2. \A v \in old \ new, w \in new \ {latest} : Newer(w, v)
      BY <2>3, <2>5
    <3>3. Cardinality(new) = maxReleaseBranches \/ old \subseteq new
      <4>1. kept \subseteq new
        BY <2>5
      <4>2. CASE old \subseteq kept
        BY <4>1, <4>2
      <4>3. CASE ~(old \subseteq kept)
        BY <2>3, <2>6, <4>3, FourBranches, OneMore, Zenon
      <4> QED
        BY <4>2, <4>3
    <3> QED
      BY <2>4, <2>5, <3>1, <3>2, <3>3 DEF Keeps
  <2> QED
    BY <2>1, <2>2, <2>5, <2>7 DEF old, new, upd
<1> QED
  BY <1>1, <1>2

LEMMA UpdateOther ==
  ASSUME NEW latest, NEW js \in JobList(latest), NEW kind \in Kinds, NEW other \in Kinds \ {kind}
  PROVE  LET new == UpdateKind(js, kind, latest)
         IN  /\ VersionsOf(new, other) = VersionsOf(js, other)
             /\ Once(js, other) => Once(new, other)
<1>1. UpdateKind(js, kind, latest) \in {js, updateConfigForJob(js, kind, latest)}
  BY DEF UpdateKind
<1> QED
  BY <1>1, OtherKept

LEMMA FileJobs ==
  ASSUME NEW js \in Seq(Seq(Entry)), NEW latest
  PROVE  js \in JobList(latest)
<1>1. \A e \in Entry : e \in JobEntry(latest)
  BY DEF Entry, JobEntry
<1>2. ASSUME NEW k \in 1..Len(js)
      PROVE  js[k] \in Seq(JobEntry(latest))
  <2>1. js[k] \in Seq(Entry)
    BY SeqFacts
  <2>2. \A i \in 1..Len(js[k]) : js[k][i] \in JobEntry(latest)
    BY <1>1, <2>1, SeqFacts
  <2> QED
    BY <2>1, <2>2, SeqOfPart
<1> QED
  BY <1>2, SeqOfPart DEF JobList

\* What an upgrade does to the jobs of a repository.
LEMMA RepoKeeps ==
  ASSUME NEW js \in Seq(Seq(Entry)), NEW latest,
         \A kind \in Kinds : VersionsOf(js, kind) \subseteq Versions /\ Once(js, kind)
  PROVE  LET new == UpgradeRepo(js, latest)
         IN  /\ \A kind \in Kinds : Keeps(VersionsOf(js, kind), VersionsOf(new, kind), latest)
             /\ UpgradeRepo(new, latest) = new
<1>1. CASE latest = ""
  BY <1>1 DEF UpgradeRepo, Keeps
<1>2. CASE latest # ""
  <2> DEFINE mid == UpdateKind(js, "branch-ci", latest)
             new == UpdateKind(mid, "dot-release", latest)
  <2>1. UpgradeRepo(js, latest) = new
    BY <1>2 DEF UpgradeRepo
  <2>2. "branch-ci" \in Kinds /\ "dot-release" \in Kinds /\ "branch-ci" # "dot-release"
        /\ \A kind \in Kinds : kind = "branch-ci" \/ kind = "dot-release"
    BY DEF Kinds
  <2>3. js \in JobList(latest)
    BY FileJobs
  <2>4. /\ mid \in JobList(latest)
        /\ Keeps(VersionsOf(js, "branch-ci"), VersionsOf(mid, "branch-ci"), latest)
        /\ VersionsOf(mid, "branch-ci") = {} \/ latest \in VersionsOf(mid, "branch-ci")
    BY <1>2, <2>2, <2>3, UpdateKeeps
  <2>5. VersionsOf(mid, "dot-release") = VersionsOf(js, "dot-release") /\ Once(mid, "dot-release")
    BY <2>2, <2>3, UpdateOther
  <2> HIDE DEF mid
  <2>6. /\ Keeps(VersionsOf(mid, "dot-release"), VersionsOf(new, "dot-release"), latest)
        /\ VersionsOf(new, "dot-release") = {} \/ latest \in VersionsOf(new, "dot-release")
    <3>1. VersionsOf(mid, "dot-release") \subseteq Versions
      BY <2>2, <2>5
    <3> QED
      BY <1>2, <2>2, <2>4, <2>5, <3>1, UpdateKeeps
  <2>7. VersionsOf(new, "branch-ci") = VersionsOf(mid, "branch-ci")
    BY <2>2, <2>4, UpdateOther
  <2> HIDE DEF new
  <2>8. \A kind \in Kinds : UpdateKind(new, kind, latest) = new
    BY <2>2, <2>4, <2>6, <2>7 DEF UpdateKind
  <2>9. UpgradeRepo(new, latest) = new
    BY <1>2, <2>2, <2>8 DEF UpgradeRepo
  <2>10. \A kind \in Kinds : Keeps(VersionsOf(js, kind), VersionsOf(new, kind), latest)
    BY <2>2, <2>4, <2>5, <2>6, <2>7
  <2> QED
    BY <2>1, <2>9, <2>10
<1> QED
  BY <1>1, <1>2

LEMMA OneLatest == \A v : filterLatest({v} \ {""}) = v
<1> SUFFICES ASSUME NEW v PROVE filterLatest({v} \ {""}) = v
  OBVIOUS
<1>1. CASE v = ""
  BY <1>1 DEF filterLatest
<1>2. CASE v # ""
  <2>1. {v} \ {""} = {v} /\ {v} # {}
    BY <1>2
  <2>2. (CHOOSE x \in {v} : \A w \in {v} \ {x} : Newer(x, w)) = v
    OBVIOUS
  <2> QED
    BY <2>1, <2>2 DEF filterLatest
<1> QED
  BY <1>1, <1>2

\* The file before an upgrade, and after it what was made of the one before.
UpgradeInv ==
    /\ ~upgraded.is => file \in Configs
    /\ upgraded.is =>
         /\ upgraded.from \in Configs
         /\ \E released \in Branches :
              /\ file = upgradeReleaseBranchesTemplate(upgraded.from, released)
              /\ upgraded.latest = [r \in DOMAIN released |-> filterLatest(released[r])]

LEMMA UpgradeInit ==
  ASSUME Init
  PROVE  UpgradeInv
  BY DEF Init, UpgradeInv

LEMMA OnlyUpgrade ==
  ASSUME [Next]_vars, ~(\E released \in Branches : Upgrade(released))
  PROVE  UNCHANGED <<upgraded, file>>
<1>1. CASE UNCHANGED vars
  BY <1>1 DEF vars
<1>2. CASE GitHubFails
  BY <1>2 DEF GitHubFails, Fatal
<1>3. CASE ReadConfig
  BY <1>3 DEF ReadConfig, Unchanged
<1>4. CASE PresubmitCall
  BY <1>4 DEF PresubmitCall, Fatal, Done1, Unchanged
<1>5. CASE PeriodicCall
  <2>1. Fatal \/ Done1
    BY <1>5 DEF PeriodicCall
  <2> QED
    BY <2>1 DEF Fatal, Done1, Unchanged
<1>6. CASE CoverageCall
  BY <1>6 DEF CoverageCall, Done1, Unchanged
<1>7. CASE PerfCall
  BY <1>7 DEF PerfCall, Done1, Unchanged
<1>8. CASE PostsubmitCall
  BY <1>8 DEF PostsubmitCall, Done1, Unchanged
<1>9. CASE Phases
  BY <1>9 DEF Phases, NextPhase, Unchanged
<1>10. CASE K8sTestgrid
  BY <1>10 DEF K8sTestgrid, Fatal
<1>11. CASE CollectCall
  BY <1>11 DEF CollectCall, Done1, Unchanged
<1>12. CASE Testgrid
  BY <1>12 DEF Testgrid
<1> QED
  BY <1>1, <1>2, <1>3, <1>4, <1>5, <1>6, <1>7, <1>8, <1>9, <1>10, <1>11, <1>12 DEF Next

LEMMA UpgradeNext ==
  ASSUME UpgradeInv, [Next]_vars
  PROVE  UpgradeInv'
<1>1. ASSUME NEW released \in Branches, Upgrade(released)
      PROVE  UpgradeInv'
  BY <1>1 DEF Upgrade, UpgradeInv
<1>2. CASE ~(\E released \in Branches : Upgrade(released))
  BY <1>2, OnlyUpgrade DEF UpgradeInv
<1> QED
  BY <1>1, <1>2

LEMMA UpgradeInvKeeps ==
  ASSUME VersionsKnown, BranchesListed, UpgradeInv
  PROVE  UpgradeKeepsNewest
<1> SUFFICES ASSUME upgraded.is
             PROVE  /\ upgradeReleaseBranchesTemplate(file, [r \in DOMAIN upgraded.latest |->
                           {upgraded.latest[r]} \ {""}]) = file
                    /\ \A i \in DOMAIN file.periodics : \A kind \in Kinds :
                          Keeps(VersionsOf(upgraded.from.periodics[i].jobs, kind),
                                VersionsOf(file.periodics[i].jobs, kind),
                                upgraded.latest[file.periodics[i].repo])
  BY DEF UpgradeKeepsNewest, Keeps, Kinds
<1> DEFINE from == upgraded.from
           ps == from.periodics
<1>1. PICK released \in Branches :
         /\ file = upgradeReleaseBranchesTemplate(from, released)
         /\ upgraded.latest = [r \in DOMAIN released |-> filterLatest(released[r])]
  BY DEF UpgradeInv
<1> DEFINE latest(i) == filterLatest(released[ps[i].repo])
           new(i) == [ps[i] EXCEPT !.jobs = UpgradeRepo(ps[i].jobs, latest(i))]
           qs == [i \in DOMAIN ps |-> new(i)]
<1>2. from \in [presubmits : Seq(Section), periodics : Seq(Section)] /\ from \in Configs
  BY GeneratorAssumption DEF UpgradeInv
<1>3. file = [from EXCEPT !.periodics = qs]
  BY <1>1 DEF upgradeReleaseBranchesTemplate
<1>4. file = [presubmits |-> from.presubmits, periodics |-> qs]
  <2> HIDE DEF qs
  <2>1. from = [presubmits |-> from.presubmits, periodics |-> from.periodics]
    BY <1>2
  <2> HIDE DEF from
  <2> QED
    BY <1>3, <2>1
<1>5. file.periodics = qs /\ DOMAIN qs = DOMAIN ps
  <2>1. DOMAIN qs = DOMAIN ps
    OBVIOUS
  <2> HIDE DEF qs, from
  <2> QED
    BY <1>4, <2>1
<1>6. ASSUME NEW i \in DOMAIN ps
      PROVE  /\ ps[i] \in Section /\ ps[i].repo \in DOMAIN released
             /\ qs[i] = [repo |-> ps[i].repo, jobs |-> UpgradeRepo(ps[i].jobs, latest(i))]
             /\ \A kind \in Kinds : Keeps(VersionsOf(ps[i].jobs, kind),
                                          VersionsOf(UpgradeRepo(ps[i].jobs, latest(i)), kind), latest(i))
             /\ UpgradeRepo(UpgradeRepo(ps[i].jobs, latest(i)), latest(i))
                  = UpgradeRepo(ps[i].jobs, latest(i))
  <2>1. ps[i] \in Section
    <3>1. ps \in Seq(Section)
      BY <1>2
    <3> HIDE DEF ps
    <3> QED
      BY <3>1, SeqFacts
  <2>2. ps[i].repo \in DOMAIN released
    BY <1>2 DEF BranchesListed
  <2>3. \A kind \in Kinds : VersionsOf(ps[i].jobs, kind) \subseteq Versions /\ Once(ps[i].jobs, kind)
    BY <1>2 DEF VersionsKnown, Kinds, Once
  <2> DEFINE s == ps[i]
             l == latest(i)
  <2>4. qs[i] = [s EXCEPT !.jobs = UpgradeRepo(s.jobs, l)]
    OBVIOUS
  <2> HIDE DEF s, l, qs
  <2>5. s = [repo |-> s.repo, jobs |-> s.jobs] /\ s.jobs \in Seq(Seq(Entry))
    BY <2>1 DEF Section, s
  <2>6. qs[i] = [repo |-> s.repo, jobs |-> UpgradeRepo(s.jobs, l)]
    BY <2>4, <2>5
  <2>7. /\ \A kind \in Kinds : Keeps(VersionsOf(s.jobs, kind), VersionsOf(UpgradeRepo(s.jobs, l), kind), l)
        /\ UpgradeRepo(UpgradeRepo(s.jobs, l), l) = UpgradeRepo(s.jobs, l)
    <3>1. \A kind \in Kinds : VersionsOf(s.jobs, kind) \subseteq Versions /\ Once(s.jobs, kind)
      BY <2>3 DEF s
    <3> QED
      BY <2>5, <3>1, RepoKeeps
  <2> QED
    BY <2>1, <2>2, <2>6, <2>7 DEF s, l
<1>7. ASSUME NEW i \in DOMAIN ps
      PROVE  /\ qs[i].repo = ps[i].repo /\ qs[i].jobs = UpgradeRepo(ps[i].jobs, latest(i))
             /\ upgraded.latest[qs[i].repo] = latest(i)
  <2>1. qs[i] = [repo |-> ps[i].repo, jobs |-> UpgradeRepo(ps[i].jobs, latest(i))]
    BY <1>6
  <2> HIDE DEF qs
  <2>2. qs[i].repo = ps[i].repo /\ qs[i].jobs = UpgradeRepo(ps[i].jobs, latest(i))
    BY <2>1
  <2>3. upgraded.latest[ps[i].repo] = latest(i)
    BY <1>1, <1>6
  <2> QED
    BY <2>2, <2>3
<1> DEFINE named == [r \in DOMAIN upgraded.latest |-> {upgraded.latest[r]} \ {""}]
           again(i) == [qs[i] EXCEPT !.jobs = UpgradeRepo(qs[i].jobs, filterLatest(named[qs[i].repo]))]
<1>8. ASSUME NEW i \in DOMAIN ps
      PROVE  again(i) = qs[i]
  <2>1. qs[i].repo \in DOMAIN upgraded.latest
    BY <1>1, <1>6, <1>7
  <2>2. filterLatest(named[qs[i].repo]) = latest(i)
    BY <1>7, <2>1, OneLatest
  <2>3. UpgradeRepo(qs[i].jobs, latest(i)) = qs[i].jobs
    BY <1>6, <1>7
  <2> DEFINE q == qs[i]
             l == filterLatest(named[qs[i].repo])
  <2>4. UpgradeRepo(q.jobs, l) = q.jobs
    BY <2>2, <2>3
  <2>5. \E x, y : q = [repo |-> x, jobs |-> y]
    BY <1>6
  <2> HIDE DEF q, l
  <2>6. [q EXCEPT !.jobs = UpgradeRepo(q.jobs, l)] = q
    BY <2>4, <2>5
  <2> QED
    BY <2>6 DEF q, l
<1>9. upgradeReleaseBranchesTemplate(file, named) = file
  <2>1. upgradeReleaseBranchesTemplate(file, named) =
           [file EXCEPT !.periodics = [i \in DOMAIN qs |-> again(i)]]
    BY <1>5 DEF upgradeReleaseBranchesTemplate
  <2>2. [i \in DOMAIN qs |-> again(i)] = qs
    <3>1. \A i \in DOMAIN qs : again(i) = qs[i]
      BY <1>5, <1>8
    <3>2. qs = [i \in DOMAIN qs |-> qs[i]]
      OBVIOUS
    <3> HIDE DEF again, qs
    <3> QED
      BY <3>1, <3>2
  <2> HIDE DEF again, qs, from, named
  <2>3. [file EXCEPT !.periodics = qs] = file
    BY <1>4, <1>5
  <2> QED
    BY <2>1, <2>2, <2>3
<1>10. ASSUME NEW i \in DOMAIN file.periodics, NEW kind \in Kinds
       PROVE  Keeps(VersionsOf(from.periodics[i].jobs, kind), VersionsOf(file.periodics[i].jobs, kind),
                    upgraded.latest[file.periodics[i].repo])
  <2>1. i \in DOMAIN ps /\ file.periodics[i] = qs[i]
    BY <1>5, <1>10
  <2>2. /\ qs[i].jobs = UpgradeRepo(ps[i].jobs, latest(i)) /\ upgraded.latest[qs[i].repo] = latest(i)
        /\ Keeps(VersionsOf(ps[i].jobs, kind), VersionsOf(UpgradeRepo(ps[i].jobs, latest(i)), kind), latest(i))
    <3> HIDE DEF qs, ps, latest
    <3> QED
      BY <1>6, <1>7, <2>1
  <2> DEFINE l == latest(i)
             p == ps[i]
             q == qs[i]
  <2>3. /\ q.jobs = UpgradeRepo(p.jobs, l) /\ upgraded.latest[q.repo] = l
        /\ Keeps(VersionsOf(p.jobs, kind), VersionsOf(UpgradeRepo(p.jobs, l), kind), l)
    BY <2>2
  <2>4. file.periodics[i] = q /\ from.periodics[i] = p
    BY <2>1
  <2> HIDE DEF l, p, q, from
  <2> QED
    BY <2>3, <2>4
<1> QED
  BY <1>9, <1>10 DEF named

\* An upgrade of the file leaves at most four versions of a kind in a repository, the latest
\* among them, drops only versions older than those it keeps, and is done once: updateConfigForJob
\* (udpaterelease.go:125), for any file whose versions have numbers and come once, and any
\* branches on GitHub.
THEOREM UpgradeSafe ==
  ASSUME VersionsKnown, BranchesListed
  PROVE  Spec => []UpgradeKeepsNewest
<1>1. Init => UpgradeInv
  BY UpgradeInit
<1>2. UpgradeInv /\ [Next]_vars => UpgradeInv'
  BY UpgradeNext
<1>3. UpgradeInv => UpgradeKeepsNewest
  BY UpgradeInvKeeps
<1> QED
  BY <1>1, <1>2, <1>3, PTL DEF Spec

\* What a loop over a list computes, round by round.
Rounds(f, base, s, x) == x[0] = base /\ \A k \in 1..Len(s) : x[k] = Step(f, x[k - 1], s[k])

LEMMA LoopRounds ==
  ASSUME NEW f, NEW base, NEW T, NEW s \in Seq(T), NEW g, Looped(f, base, s, g)
  PROVE  \E x : Rounds(f, base, s, x) /\ x[Len(s)] = g[1..Len(s)]
<1> DEFINE n == Len(s)
           x == [k \in 0..n |-> g[1..k]]
<1>1. n \in Nat /\ DOMAIN s = 1..n
  OBVIOUS
<1>2. g[1..0] = base /\ \A k \in 1..n : g[1..k] = Step(f, g[1..(k - 1)], s[k])
  <2> HIDE DEF n
  <2> QED
    BY <1>1, RoundByRound
<1>3. \A k \in 1..n : k \in 0..n /\ k - 1 \in 0..n
  BY <1>1
<1>4. x[0] = g[1..0] /\ x[n] = g[1..n] /\ \A k \in 0..n : x[k] = g[1..k]
  BY <1>1
<1> HIDE DEF x
<1>5. \A k \in 1..n : x[k] = Step(f, x[k - 1], s[k])
  BY <1>2, <1>3, <1>4, Zenon
<1> QED
  BY <1>2, <1>4, <1>5 DEF Rounds

\* The rounds in which the entries of a job are read.
PeriodicAs(repo, job) ==
    \E x : /\ x[0] = [return |-> FALSE, type |-> "", suffix |-> <<>>, continuous |-> FALSE,
                      cron |-> NoCron, annotations |-> NoAnnotations, base |-> newbase(repo)]
           /\ \A k \in 1..Len(job) : x[k] = PeriodicEntry(x[k - 1], job[k])
           /\ Periodic(repo, job) = x[Len(job)]

LEMMA PeriodicRounds ==
  ASSUME NEW repo, NEW T, NEW job \in Seq(T)
  PROVE  PeriodicAs(repo, job)
<1> DEFINE n == Len(job)
           f == [loop |-> "type"]
           d == [return |-> FALSE, type |-> "", suffix |-> <<>>, continuous |-> FALSE,
                 cron |-> NoCron, annotations |-> NoAnnotations, base |-> newbase(repo)]
           g == CHOOSE h : h = [S \in SUBSET DOMAIN job |->
                    IF S = {} THEN d ELSE PeriodicEntry(h[S \ {Max(S)}], job[Max(S)])]
<1>1. n \in Nat /\ DOMAIN job = 1..n
  OBVIOUS
<1>2. \A x, e : Step(f, x, e) = PeriodicEntry(x, e)
  BY DEF Step
<1>3. Periodic(repo, job) = g[1..n]
  BY <1>1 DEF Periodic, FoldLeft, MapThenFoldSet
<1> HIDE DEF d, f, n
<1>4. Looped(f, d, job, g)
  <2>1. \E h : Looped(f, d, job, h)
    BY <1>1, LoopExists
  <2> DEFINE body(h, S) == PeriodicEntry(h[S \ {Max(S)}], job[Max(S)])
  <2>2. \A h, S : body(h, S) = Step(f, h[S \ {Max(S)}], job[Max(S)])
    BY <1>2, Zenon
  <2>3. \E h : h = [S \in SUBSET DOMAIN job |-> IF S = {} THEN d ELSE body(h, S)]
    <3> HIDE DEF body
    <3> QED
      BY <2>1, <2>2 DEF Looped
  <2>4. g = [S \in SUBSET DOMAIN job |-> IF S = {} THEN d ELSE body(g, S)]
    BY <2>3, Zenon
  <2> HIDE DEF g, body
  <2> QED
    BY <2>2, <2>4 DEF Looped
<1> HIDE DEF g
<1>5. PICK x : Rounds(f, d, job, x) /\ x[n] = g[1..n]
  BY <1>4, LoopRounds DEF n
<1>6. x[0] = d /\ \A k \in 1..n : x[k] = PeriodicEntry(x[k - 1], job[k])
  BY <1>2, <1>5, Zenon DEF Rounds, n
<1> QED
  BY <1>3, <1>5, <1>6, Zenon DEF PeriodicAs, d, n

\* The same for its name in the second pass.
NameAs(job) ==
    \E x : /\ x[0] = <<>>
           /\ \A k \in 1..Len(job) : x[k] = NameEntry(x[k - 1], job[k])
           /\ JobName(job) = x[Len(job)]

LEMMA NameRounds ==
  ASSUME NEW T, NEW job \in Seq(T)
  PROVE  NameAs(job)
<1> DEFINE n == Len(job)
           f == [loop |-> "name"]
           g == CHOOSE h : h = [S \in SUBSET DOMAIN job |->
                    IF S = {} THEN <<>> ELSE NameEntry(h[S \ {Max(S)}], job[Max(S)])]
<1>1. n \in Nat /\ DOMAIN job = 1..n
  OBVIOUS
<1>2. \A x, e : Step(f, x, e) = NameEntry(x, e)
  BY DEF Step
<1>3. JobName(job) = g[1..n]
  BY <1>1 DEF JobName, FoldLeft, MapThenFoldSet, NameEntry
<1> HIDE DEF f, n
<1>4. Looped(f, <<>>, job, g)
  <2>1. \E h : Looped(f, <<>>, job, h)
    BY <1>1, LoopExists
  <2> DEFINE body(h, S) == NameEntry(h[S \ {Max(S)}], job[Max(S)])
  <2>2. \A h, S : body(h, S) = Step(f, h[S \ {Max(S)}], job[Max(S)])
    BY <1>2, Zenon
  <2>3. \E h : h = [S \in SUBSET DOMAIN job |-> IF S = {} THEN <<>> ELSE body(h, S)]
    <3> HIDE DEF body
    <3> QED
      BY <2>1, <2>2 DEF Looped
  <2>4. g = [S \in SUBSET DOMAIN job |-> IF S = {} THEN <<>> ELSE body(g, S)]
    BY <2>3, Zenon
  <2> HIDE DEF g, body
  <2> QED
    BY <2>2, <2>4 DEF Looped
<1> HIDE DEF g
<1>5. PICK x : Rounds(f, <<>>, job, x) /\ x[n] = g[1..n]
  BY <1>4, LoopRounds DEF n
<1>6. x[0] = <<>> /\ \A k \in 1..n : x[k] = NameEntry(x[k - 1], job[k])
  BY <1>2, <1>5, Zenon DEF Rounds, n
<1> QED
  BY <1>3, <1>5, <1>6, Zenon DEF NameAs, n

PresubmitStart(repo) ==
    [return |-> FALSE, generate |-> TRUE, coverage |-> FALSE, suffix |-> <<>>,
     base |-> [newbase(repo) EXCEPT !.command = "presubmit-script", !.threshold = 50]]

LEMMA PresubmitRounds ==
  ASSUME NEW repo, NEW T, NEW job \in Seq(T)
  PROVE  \E x : /\ x[0] = PresubmitStart(repo)
                /\ \A k \in 1..Len(job) : x[k] = PresubmitEntry(x[k - 1], job[k])
                /\ Presubmit(repo, job) = x[Len(job)]
<1> DEFINE n == Len(job)
           f == [loop |-> "presubmit"]
           d == PresubmitStart(repo)
           g == CHOOSE h : h = [S \in SUBSET DOMAIN job |->
                    IF S = {} THEN d ELSE PresubmitEntry(h[S \ {Max(S)}], job[Max(S)])]
<1>1. n \in Nat /\ DOMAIN job = 1..n
  OBVIOUS
<1>2. \A x, e : Step(f, x, e) = PresubmitEntry(x, e)
  BY DEF Step
<1>3. Presubmit(repo, job) = g[1..n]
  BY <1>1 DEF Presubmit, PresubmitStart, FoldLeft, MapThenFoldSet
<1> HIDE DEF d, f, n
<1>4. Looped(f, d, job, g)
  <2>1. \E h : Looped(f, d, job, h)
    BY <1>1, LoopExists
  <2> DEFINE body(h, S) == PresubmitEntry(h[S \ {Max(S)}], job[Max(S)])
  <2>2. \A h, S : body(h, S) = Step(f, h[S \ {Max(S)}], job[Max(S)])
    BY <1>2, Zenon
  <2>3. \E h : h = [S \in SUBSET DOMAIN job |-> IF S = {} THEN d ELSE body(h, S)]
    <3> HIDE DEF body
    <3> QED
      BY <2>1, <2>2 DEF Looped
  <2>4. g = [S \in SUBSET DOMAIN job |-> IF S = {} THEN d ELSE body(g, S)]
    BY <2>3, Zenon
  <2> HIDE DEF g, body
  <2> QED
    BY <2>2, <2>4 DEF Looped
<1> HIDE DEF g
<1>5. PICK x : Rounds(f, d, job, x) /\ x[n] = g[1..n]
  BY <1>4, LoopRounds DEF n
<1>6. x[0] = d /\ \A k \in 1..n : x[k] = PresubmitEntry(x[k - 1], job[k])
  BY <1>2, <1>5, Zenon DEF Rounds, n
<1> QED
  BY <1>3, <1>5, <1>6, Zenon DEF d, n

\* The jobs of a repository in the second pass.
Collected(m, repo, js) == FoldLeft(LAMBDA y, job : CollectJob(y, repo, job), m, js)

\* The rounds in which its jobs are collected.
CollectedAs(m, repo, js) ==
    \E x : /\ x[0] = m
           /\ \A k \in 1..Len(js) : x[k] = CollectJob(x[k - 1], repo, js[k])
           /\ Collected(m, repo, js) = x[Len(js)]

LEMMA CollectRounds ==
  ASSUME NEW m, NEW repo, NEW T, NEW js \in Seq(T)
  PROVE  CollectedAs(m, repo, js)
<1> DEFINE n == Len(js)
           f == [loop |-> "collect", repo |-> repo]
           g == CHOOSE h : h = [S \in SUBSET DOMAIN js |->
                    IF S = {} THEN m ELSE CollectJob(h[S \ {Max(S)}], repo, js[Max(S)])]
<1>1. n \in Nat /\ DOMAIN js = 1..n
  OBVIOUS
<1>2. \A x, e : Step(f, x, e) = CollectJob(x, repo, e)
  BY DEF Step
<1>3. Collected(m, repo, js) = g[1..n]
  BY <1>1 DEF Collected, FoldLeft, MapThenFoldSet
<1> HIDE DEF f, n
<1>4. Looped(f, m, js, g)
  <2>1. \E h : Looped(f, m, js, h)
    BY <1>1, LoopExists
  <2> DEFINE body(h, S) == CollectJob(h[S \ {Max(S)}], repo, js[Max(S)])
  <2>2. \A h, S : body(h, S) = Step(f, h[S \ {Max(S)}], js[Max(S)])
    BY <1>2, Zenon
  <2>3. \E h : h = [S \in SUBSET DOMAIN js |-> IF S = {} THEN m ELSE body(h, S)]
    <3> HIDE DEF body
    <3> QED
      BY <2>1, <2>2 DEF Looped
  <2>4. g = [S \in SUBSET DOMAIN js |-> IF S = {} THEN m ELSE body(g, S)]
    BY <2>3, Zenon
  <2> HIDE DEF g, body
  <2> QED
    BY <2>2, <2>4 DEF Looped
<1> HIDE DEF g
<1>5. PICK x : Rounds(f, m, js, x) /\ x[n] = g[1..n]
  BY <1>4, LoopRounds DEF n
<1>6. x[0] = m /\ \A k \in 1..n : x[k] = CollectJob(x[k - 1], repo, js[k])
  BY <1>2, <1>5, Zenon DEF Rounds, n
<1> QED
  BY <1>3, <1>5, <1>6, Zenon DEF CollectedAs, n

\* The jobs written by hand.
CustomAs(m) ==
    \E x : /\ x[0] = m
           /\ \A k \in 1..Len(customJobnames) :
                x[k] = AddNonAlignedTest(x[k - 1], NonAligned(<<"maintenance">>,
                           <<"utilities">>, customJobnames[k], customJobnames[k]))
           /\ addCustomJobsTestgrid(m) = x[Len(customJobnames)]

LEMMA CustomRounds ==
  ASSUME NEW m, NEW T, customJobnames \in Seq(T)
  PROVE  CustomAs(m)
<1> DEFINE s == customJobnames
           n == Len(s)
           f == [loop |-> "custom"]
           Op(x, e) == AddNonAlignedTest(x, NonAligned(<<"maintenance">>, <<"utilities">>, e, e))
           g == CHOOSE h : h = [S \in SUBSET DOMAIN s |->
                    IF S = {} THEN m ELSE Op(h[S \ {Max(S)}], s[Max(S)])]
<1>1. n \in Nat /\ DOMAIN s = 1..n /\ s \in Seq(T)
  OBVIOUS
<1>2. \A x, e : Step(f, x, e) = Op(x, e)
  BY DEF Step
<1>3. addCustomJobsTestgrid(m) = g[1..n]
  BY <1>1 DEF addCustomJobsTestgrid, FoldLeft, MapThenFoldSet
<1> HIDE DEF f, n, s, Op
<1>4. Looped(f, m, s, g)
  <2>1. \E h : Looped(f, m, s, h)
    BY <1>1, LoopExists
  <2> DEFINE body(h, S) == Op(h[S \ {Max(S)}], s[Max(S)])
  <2>2. \A h, S : body(h, S) = Step(f, h[S \ {Max(S)}], s[Max(S)])
    BY <1>2, Zenon
  <2>3. \E h : h = [S \in SUBSET DOMAIN s |-> IF S = {} THEN m ELSE body(h, S)]
    <3> HIDE DEF body
    <3> QED
      BY <2>1, <2>2 DEF Looped
  <2>4. g = [S \in SUBSET DOMAIN s |-> IF S = {} THEN m ELSE body(g, S)]
    BY <2>3, Zenon
  <2> HIDE DEF g, body
  <2> QED
    BY <2>2, <2>4 DEF Looped
<1> HIDE DEF g
<1>5. PICK x : Rounds(f, m, s, x) /\ x[n] = g[1..n]
  BY <1>1, <1>4, LoopRounds DEF n
<1>6. x[0] = m /\ \A k \in 1..n : x[k] = Op(x[k - 1], s[k])
  BY <1>2, <1>5, Zenon DEF Rounds, n
<1> QED
  BY <1>3, <1>5, <1>6, Zenon DEF CustomAs, n, s, Op

\* The jobs of a call.
LEMMA WriteRounds ==
  ASSUME NEW title, NEW repo, NEW R, NEW js \in Seq(R), NEW grouped,
         WriteAll(title, repo, js, grouped)
  PROVE  \E x : /\ x[0] = jobs
                /\ \A k \in 1..Len(js) :
                     x[k] = IF jobNameFilter \in {<<>>, js[k].name} THEN Append(x[k - 1], js[k])
                                                                   ELSE x[k - 1]
                /\ jobs' = x[Len(js)]
<1> DEFINE n == Len(js)
           f == [loop |-> "write"]
           Op(x, e) == IF jobNameFilter \in {<<>>, e.name} THEN Append(x, e) ELSE x
           g == CHOOSE h : h = [S \in SUBSET DOMAIN js |->
                    IF S = {} THEN jobs ELSE Op(h[S \ {Max(S)}], js[Max(S)])]
<1>1. n \in Nat /\ DOMAIN js = 1..n
  OBVIOUS
<1>2. \A x, e : Step(f, x, e) = Op(x, e)
  BY DEF Step
<1>3. jobs' = g[1..n]
  BY <1>1 DEF WriteAll, FoldLeft, MapThenFoldSet
<1> HIDE DEF f, n, Op
<1>4. Looped(f, jobs, js, g)
  <2>1. \E h : Looped(f, jobs, js, h)
    BY <1>1, LoopExists
  <2> DEFINE body(h, S) == Op(h[S \ {Max(S)}], js[Max(S)])
  <2>2. \A h, S : body(h, S) = Step(f, h[S \ {Max(S)}], js[Max(S)])
    BY <1>2, Zenon
  <2>3. \E h : h = [S \in SUBSET DOMAIN js |-> IF S = {} THEN jobs ELSE body(h, S)]
    <3> HIDE DEF body
    <3> QED
      BY <2>1, <2>2 DEF Looped
  <2>4. g = [S \in SUBSET DOMAIN js |-> IF S = {} THEN jobs ELSE body(g, S)]
    BY <2>3, Zenon
  <2> HIDE DEF g, body
  <2> QED
    BY <2>2, <2>4 DEF Looped
<1> HIDE DEF g
<1>5. PICK x : Rounds(f, jobs, js, x) /\ x[n] = g[1..n]
  BY <1>4, LoopRounds DEF n
<1>6. x[0] = jobs /\ \A k \in 1..n : x[k] = Op(x[k - 1], js[k])
  BY <1>2, <1>5, Zenon DEF Rounds, n
<1> QED
  BY <1>3, <1>5, <1>6, Zenon DEF n, Op

LEMMA AppendAdds ==
  ASSUME NEW T, NEW s \in Seq(T), NEW e \in T
  PROVE  Append(s, e) \in Seq(T) /\ ToSet(Append(s, e)) = ToSet(s) \cup {e}
<1>1. /\ Append(s, e) \in Seq(T) /\ DOMAIN Append(s, e) = 1..(Len(s) + 1)
      /\ Append(s, e)[Len(s) + 1] = e /\ \A i \in 1..Len(s) : Append(s, e)[i] = s[i]
      /\ DOMAIN s = 1..Len(s) /\ Len(s) \in Nat
  OBVIOUS
<1>2. 1..(Len(s) + 1) = (1..Len(s)) \cup {Len(s) + 1}
  BY <1>1
<1> QED
  BY <1>1, <1>2 DEF ToSet

\* Without a filter all of them are written.
LEMMA WriteAdds ==
  ASSUME jobNameFilter = <<>>, NEW title, NEW repo, NEW S, jobs \in Seq(S),
         NEW R, NEW js \in Seq(R), NEW grouped, WriteAll(title, repo, js, grouped)
  PROVE  jobs' \in Seq(S \cup R) /\ ToSet(jobs') = ToSet(jobs) \cup ToSet(js)
<1> DEFINE n == Len(js)
           U == S \cup R
<1>1. PICK x : /\ x[0] = jobs
               /\ \A k \in 1..n : x[k] = IF jobNameFilter \in {<<>>, js[k].name}
                                         THEN Append(x[k - 1], js[k]) ELSE x[k - 1]
               /\ jobs' = x[n]
  BY WriteRounds
<1>2. n \in Nat /\ DOMAIN js = 1..n /\ \A k \in 1..n : js[k] \in U
  OBVIOUS
<1>3. \A k \in 1..n : x[k] = Append(x[k - 1], js[k])
  BY <1>1
<1>4. jobs \in Seq(U)
  OBVIOUS
<1> HIDE DEF n, U
<1> DEFINE T == {k \in 0..n : /\ x[k] \in Seq(U)
                              /\ ToSet(x[k]) = ToSet(jobs) \cup {js[i] : i \in 1..k}}
<1>5. 0 \in T
  BY <1>1, <1>2, <1>4
<1>6. ASSUME NEW k \in 1..n, k - 1 \in T
      PROVE  k \in T
  <2> DEFINE y == x[k - 1]
  <2>1. y \in Seq(U) /\ ToSet(y) = ToSet(jobs) \cup {js[i] : i \in 1..(k - 1)} /\ x[k] = Append(y, js[k])
    BY <1>3, <1>6
  <2> HIDE DEF y
  <2>2. x[k] \in Seq(U) /\ ToSet(x[k]) = ToSet(y) \cup {js[k]}
    BY <1>2, <2>1, AppendAdds
  <2>3. 1..k = (1..(k - 1)) \cup {k}
    OBVIOUS
  <2>4. ToSet(x[k]) = ToSet(jobs) \cup {js[i] : i \in 1..k}
    BY <2>1, <2>2, <2>3
  <2> QED
    BY <1>2, <2>2, <2>4
<1>7. n \in T
  <2> HIDE DEF T
  <2> QED
    BY <1>2, <1>5, <1>6, AllRounds
<1>8. ToSet(js) = {js[i] : i \in 1..n}
  BY <1>2 DEF ToSet
<1> QED
  BY <1>1, <1>7, <1>8 DEF U

-----------------------------------------------------------------------------
(* The name of a periodic job, and the group that the second pass makes for it. *)

\* Words, with those of the generator; the versions are among them.
Word == STRING \cup Versions \cup {"ci", "continuous", "nightly", "release", "go", "coverage", "beta",
                                    "prow", "tests", "test", "knative"}

Repo == [org : Seq(STRING), name : Seq(STRING)]

JobLine == [key : STRING, on : BOOLEAN, text : Seq(Word), num : Int]

SensibleJob == {job \in Seq(JobLine) : PeriodicSensible(job)}

\* The entry at i is the type of the job.
TypeAt(job, i) == i \in DOMAIN job /\ With(job, Types) = {i}

TypeFirst(job) == \A i, k \in DOMAIN job :
                     job[i].key \in Types /\ job[k].key \in {"release", "cron"} => i < k

\* An entry that turns its type off.
Off(e) == ~e.on /\ e.key # "custom-job"

\* What the first pass and the second call a type.
TypeSuffix(e) ==
    CASE e.key \in {"continuous", "branch-ci"} -> <<"continuous">>
      [] e.key = "nightly" -> <<"nightly", "release">>
      [] OTHER -> e.text

TypeName(e) ==
    CASE e.key \in {"continuous", "branch-ci"} -> <<"continuous">>
      [] e.key = "nightly" -> <<"nightly">>
      [] OTHER -> e.text

LEMMA TypeKeys ==
  /\ Types \subseteq PeriodicKeys
  /\ PeriodicKeys \ Types = {"cron", "release"}
  /\ {"dot-release", "auto-release", "custom-job", "nightly", "continuous", "branch-ci"} = Types
  BY DEF Types, PeriodicKeys

LEMMA SensibleFacts ==
  ASSUME NEW job \in SensibleJob
  PROVE  /\ Len(job) \in Nat /\ DOMAIN job = 1..Len(job)
         /\ \A i \in DOMAIN job : job[i] \in JobLine
         /\ \E i \in DOMAIN job : TypeAt(job, i)
         /\ \A i, k \in DOMAIN job :
              job[i].key = "release" /\ job[k].key = "release" =>
                  i = k /\ job[i].text[1] \in Versions
         /\ \A i \in DOMAIN job :
              /\ job[i].key \notin {"performance", "webhook-apicoverage"}
              /\ job[i].key \in {"dot-release", "auto-release", "custom-job"} =>
                    job[i].text \notin {<<>>, <<"nightly">>, <<"test", "coverage">>}
  BY DEF SensibleJob, PeriodicSensible, TypeAt, With

\* The second pass sees the type.
LEMMA NameOfJob ==
  ASSUME NEW job \in SensibleJob, NEW t, TypeAt(job, t)
  PROVE  JobName(job) = IF Off(job[t]) THEN <<>> ELSE TypeName(job[t])
<1> DEFINE n == Len(job)
           name == IF Off(job[t]) THEN <<>> ELSE TypeName(job[t])
<1>1. PICK x : /\ x[0] = <<>> /\ \A k \in 1..n : x[k] = NameEntry(x[k - 1], job[k])
               /\ JobName(job) = x[n]
  <2>1. job \in Seq(JobLine)
    BY DEF SensibleJob
  <2>2. NameAs(job)
    BY <2>1, NameRounds
  <2> QED
    BY <2>2 DEF NameAs
<1>2. n \in Nat /\ DOMAIN job = 1..n /\ t \in 1..n /\ \A i \in 1..n : job[i].on \in BOOLEAN
  BY SensibleFacts DEF TypeAt, JobLine
<1>3. NameEntry(<<>>, job[t]) = name
  <2>1. job[t].key \in {"dot-release", "auto-release", "custom-job", "nightly", "continuous", "branch-ci"}
    BY TypeKeys DEF TypeAt, With
  <2> QED
    BY <1>2, <2>1 DEF NameEntry, TypeName, Off
<1>4. ASSUME NEW i \in 1..n, i # t, NEW y
      PROVE  NameEntry(y, job[i]) = y
  <2>1. job[i].key \notin {"dot-release", "auto-release", "custom-job", "nightly", "continuous", "branch-ci"}
    BY <1>2, <1>4, TypeKeys DEF TypeAt, With
  <2>2. job[i].key \notin {"performance", "webhook-apicoverage"}
    BY <1>2, SensibleFacts
  <2> QED
    BY <2>1, <2>2 DEF NameEntry
<1> HIDE DEF n, name
<1> DEFINE T == {k \in 0..n : x[k] = IF k < t THEN <<>> ELSE name}
<1>5. 0 \in T
  BY <1>1, <1>2
<1>6. ASSUME NEW k \in 1..n, k - 1 \in T
      PROVE  k \in T
  <2>1. CASE k < t
    <3>1. x[k - 1] = <<>> /\ k # t
      BY <1>2, <1>6, <2>1
    <3>2. x[k] = <<>>
      BY <1>1, <1>4, <3>1
    <3> QED
      BY <1>2, <2>1, <3>2
  <2>2. CASE k = t
    <3>1. x[k - 1] = <<>>
      BY <1>2, <1>6, <2>2
    <3>2. x[k] = name
      BY <1>1, <1>3, <2>2, <3>1
    <3> QED
      BY <1>2, <2>2, <3>2
  <2>3. CASE k > t
    <3>1. x[k - 1] = name /\ k # t
      BY <1>2, <1>6, <2>3
    <3>2. x[k] = name
      BY <1>1, <1>4, <3>1
    <3> QED
      BY <1>2, <2>3, <3>2
  <2> QED
    BY <1>2, <2>1, <2>2, <2>3
<1>7. n \in T
  <2> HIDE DEF T
  <2> QED
    BY <1>2, <1>5, <1>6, AllRounds
<1> QED
  BY <1>1, <1>2, <1>7 DEF name

\* What the first pass has for a job of the repository.
PeriodicShape(d, repo) ==
    /\ {"return", "type", "suffix", "continuous", "cron", "annotations", "base"} \subseteq DOMAIN d
    /\ "repo" \in DOMAIN d.base /\ d.base.repo = repo

Dashboard(repo) == repo.org \o repo.name

Shown(a, repo) == "dashboard" \in DOMAIN a /\ a.dashboard = Dashboard(repo)

LEMMA TypeMeans ==
  ASSUME NEW repo, NEW d, PeriodicShape(d, repo), NEW e \in JobLine,
         e.key \in Types \ {"custom-job"}
  PROVE  LET f == PeriodicType(d, e)
         IN  PeriodicShape(f, repo) /\ f.return = Off(e) /\ f.suffix = TypeSuffix(e)
<1> DEFINE b == [d.base EXCEPT !.timeout = 180]
           t == [d EXCEPT !.return = ~e.on, !.type = e.key]
           Based(x) == "repo" \in DOMAIN x /\ x.repo = repo
<1>1. Based(b)
  BY DEF PeriodicShape
<1>2. PeriodicShape(t, repo) /\ t.return = ~e.on
  BY DEF PeriodicShape
<1>3. Off(e) = ~e.on
  BY DEF Off
<1> HIDE DEF b, t
<1>4. CASE e.key = "continuous"
  <2>1. \A x, y : Based([b EXCEPT !.command = x, !.args = y])
    BY <1>1
  <2>2. PeriodicType(d, e) = [t EXCEPT !.suffix = <<"continuous">>, !.continuous = TRUE,
                           !.base = [b EXCEPT !.command = "presubmit-script",
                                              !.args = <<"--all-tests">>]]
    BY <1>4 DEF PeriodicType, t, b
  <2> QED
    BY <1>2, <1>3, <1>4, <2>1, <2>2 DEF PeriodicShape, TypeSuffix
<1>5. CASE e.key = "branch-ci"
  <2>1. Based(setupDockerInDockerForJob(b))
    BY <1>1 DEF setupDockerInDockerForJob, addEnvToJob
  <2>2. \A x, y : Based([setupDockerInDockerForJob(b) EXCEPT !.command = x, !.args = y])
    BY <2>1
  <2>3. PeriodicType(d, e) = [t EXCEPT !.suffix = <<"continuous">>, !.continuous = TRUE,
                           !.base = [setupDockerInDockerForJob(b) EXCEPT
                                       !.command = "release-script", !.args = <<"--nopublish">>]]
    BY <1>5 DEF PeriodicType, t, b
  <2> QED
    BY <1>2, <1>3, <1>5, <2>2, <2>3 DEF PeriodicShape, TypeSuffix
<1>6. CASE e.key = "nightly"
  <2>1. \A x, y, z : Based([b EXCEPT !.command = x, !.args = y, !.account = z])
    BY <1>1
  <2>2. PeriodicType(d, e) = [t EXCEPT !.suffix = <<"nightly", "release">>,
                           !.base = [b EXCEPT !.command = "release-script",
                                       !.args = <<"--publish">>, !.account = "nightly-account"]]
    BY <1>6 DEF PeriodicType, t, b
  <2> QED
    BY <1>2, <1>3, <1>6, <2>1, <2>2 DEF PeriodicShape, TypeSuffix
<1>7. CASE e.key \in {"dot-release", "auto-release"}
  <2> DEFINE c == addVolumeToJob(IF d.base.repo.org = <<"knative">> THEN b
                                 ELSE addEnvToJob(b, "ORG_NAME"), "hub-token")
  <2>1. Based(c)
    BY <1>1 DEF addVolumeToJob, addEnvToJob
  <2>2. PeriodicType(d, e) = [t EXCEPT !.suffix = e.text,
                           !.base = [c EXCEPT !.command = "release-script",
                                              !.args = <<"--" , e.key>>,
                                              !.account = "release-account"]]
    BY <1>7 DEF PeriodicType, t, b
  <2> HIDE DEF c
  <2>3. \A x, y, z : Based([c EXCEPT !.command = x, !.args = y, !.account = z])
    BY <2>1
  <2> QED
    BY <1>2, <1>3, <1>7, <2>2, <2>3 DEF PeriodicShape, TypeSuffix
<1> QED
  BY <1>4, <1>5, <1>6, <1>7, TypeKeys

\* What an entry means for a job that has not been turned off.
LEMMA EntryMeans ==
  ASSUME NEW repo, NEW d, PeriodicShape(d, repo), d.return = FALSE, NEW e \in JobLine
  PROVE  LET f == PeriodicEntry(d, e)
         IN  /\ e.key \notin PeriodicKeys => f = d
             /\ PeriodicShape(f, repo)
             /\ e.key \in PeriodicKeys => Shown(f.annotations, repo)
             /\ f.return = (e.key \in Types /\ Off(e))
             /\ e.key \in Types => f.suffix = TypeSuffix(e)
             /\ e.key = "release" => f.suffix = <<e.text[1]>> \o d.suffix
             /\ e.key \notin Types \cup {"release"} => f.suffix = d.suffix
<1> DEFINE g == CASE e.key = "cron" -> [d EXCEPT !.cron = Cron({e.num}, FALSE)]
                  [] e.key = "release" -> Release(d, e.text[1])
                  [] e.key = "custom-job" -> [d EXCEPT !.type = e.key, !.suffix = e.text,
                                                       !.base.timeout = 120]
                  [] OTHER -> PeriodicType(d, e)
           f == PeriodicEntry(d, e)
           Good(y) == /\ PeriodicShape(y, repo)
                      /\ y.return = (e.key \in Types /\ Off(e))
                      /\ e.key \in Types => y.suffix = TypeSuffix(e)
                      /\ e.key = "release" => y.suffix = <<e.text[1]>> \o d.suffix
                      /\ e.key \notin Types \cup {"release"} => y.suffix = d.suffix
<1>1. CASE e.key \notin PeriodicKeys
  <2>1. f = d /\ e.key \notin Types \cup {"release"}
    BY <1>1, TypeKeys DEF PeriodicEntry, PeriodicKeys
  <2> QED
    BY <1>1, <2>1
<1>2. CASE e.key \in PeriodicKeys
  <2>1. f = [g EXCEPT !.annotations = Annotations(repo.org \o repo.name,
                                                  RepoNameForJob(repo) \o g.suffix,
                                                  getTestgroupExtras(FALSE, e.key))]
    BY <1>2 DEF PeriodicEntry, PeriodicShape
  <2>2. Good(g)
    <3>1. CASE e.key = "cron"
      <4>1. e.key \notin Types \cup {"release"}
        BY <3>1 DEF Types
      <4>2. g = [d EXCEPT !.cron = Cron({e.num}, FALSE)]
        BY <3>1
      <4> QED
        BY <4>1, <4>2 DEF PeriodicShape
    <3>2. CASE e.key = "release"
      <4>1. e.key \notin Types
        BY <3>2 DEF Types
      <4>2. g = Release(d, e.text[1])
        BY <3>2
      <4> DEFINE args == IF d.type = "dot-release" THEN Append(d.base.args, e.text[1])
                                                   ELSE d.base.args
      <4>3. Release(d, e.text[1]) = [d EXCEPT !.suffix = <<e.text[1]>> \o @,
                                              !.base = [@ EXCEPT !.branch = e.text[1], !.args = args]]
        BY DEF Release, PeriodicShape
      <4> HIDE DEF g, args
      <4>4. \A x, y : "repo" \in DOMAIN [d.base EXCEPT !.branch = x, !.args = y]
                      /\ [d.base EXCEPT !.branch = x, !.args = y].repo = repo
        BY DEF PeriodicShape
      <4> QED
        BY <3>2, <4>1, <4>2, <4>3, <4>4 DEF PeriodicShape
    <3>3. CASE e.key = "custom-job"
      <4>1. e.key \in Types /\ ~Off(e) /\ TypeSuffix(e) = e.text
        BY <3>3 DEF Types, Off, TypeSuffix
      <4>2. g = [d EXCEPT !.type = e.key, !.suffix = e.text, !.base.timeout = 120]
        BY <3>3
      <4>3. e.key # "release"
        BY <3>3
      <4> HIDE DEF g
      <4> QED
        BY <4>1, <4>2, <4>3 DEF PeriodicShape
    <3>4. CASE e.key \in Types \ {"custom-job"}
      <4>1. e.key \notin {"cron", "release", "custom-job"}
        BY <3>4, TypeKeys
      <4>2. g = PeriodicType(d, e)
        BY <4>1
      <4> HIDE DEF g
      <4>3. /\ PeriodicShape(g, repo) /\ g.return = Off(e) /\ g.suffix = TypeSuffix(e)
        BY <3>4, <4>2, TypeMeans
      <4>4. e.key \in Types /\ (e.key \in Types /\ Off(e)) = Off(e)
        BY <3>4 DEF Off
      <4> QED
        BY <4>1, <4>3, <4>4
    <3> QED
      BY <1>2, <3>1, <3>2, <3>3, <3>4, TypeKeys
  <2> HIDE DEF g, f
  <2>3. \A x : Good([g EXCEPT !.annotations = x]) /\ [g EXCEPT !.annotations = x].annotations = x
    BY <2>2 DEF PeriodicShape
  <2> DEFINE note == Annotations(repo.org \o repo.name, RepoNameForJob(repo) \o g.suffix,
                                 getTestgroupExtras(FALSE, e.key))
  <2>4. Shown(note, repo)
    BY DEF Annotations, Dashboard, Shown
  <2> HIDE DEF note
  <2>5. f = [g EXCEPT !.annotations = note]
    BY <2>1 DEF note
  <2>6. Good(f) /\ f.annotations = note
    BY <2>3, <2>5
  <2> QED
    BY <1>2, <2>4, <2>6 DEF f
<1> QED
  BY <1>1, <1>2

LEMMA ReleaseIs ==
  ASSUME NEW job \in SensibleJob
  PROVE  /\ \A r \in DOMAIN job : job[r].key = "release" =>
              Has(job, "release") /\ ReleaseOf(job) = job[r].text[1] /\ ReleaseOf(job) \in Versions
         /\ (\A r \in DOMAIN job : job[r].key # "release") =>
              ~Has(job, "release") /\ ReleaseOf(job) = ""
<1>1. ASSUME NEW r \in DOMAIN job, job[r].key = "release"
      PROVE  Has(job, "release") /\ ReleaseOf(job) = job[r].text[1] /\ ReleaseOf(job) \in Versions
  <2>1. Has(job, "release")
    BY <1>1 DEF Has
  <2> DEFINE P(i) == job[i].key = "release" /\ \A k \in (i + 1)..Len(job) : job[k].key # "release"
             i == CHOOSE h \in DOMAIN job : P(h)
  <2>2. i \in DOMAIN job /\ P(i)
    <3>1. \E h \in DOMAIN job : P(h)
      <4>1. job \in Seq(JobLine)
        BY DEF SensibleJob
      <4> QED
        BY <2>1, <4>1, LastEntry
    <3> QED
      BY <3>1, Zenon
  <2>3. i = r
    <3> HIDE DEF i
    <3> QED
      BY <1>1, <2>2, SensibleFacts
  <2>4. ValueOf(job, "release") = job[i]
    BY DEF ValueOf
  <2> HIDE DEF i
  <2> QED
    BY <1>1, <2>1, <2>3, <2>4, SensibleFacts DEF ReleaseOf
<1>2. ASSUME \A r \in DOMAIN job : job[r].key # "release"
      PROVE  ~Has(job, "release") /\ ReleaseOf(job) = ""
  BY <1>2 DEF Has, ReleaseOf
<1> QED
  BY <1>1, <1>2

\* What the first pass makes of a job whose type comes first.
LEMMA PeriodicOfJob ==
  ASSUME NEW repo, NEW job \in SensibleJob, NEW t, TypeAt(job, t), TypeFirst(job)
  PROVE  LET d == Periodic(repo, job)
         IN  /\ d.return = Off(job[t])
             /\ ~Off(job[t]) =>
                  /\ Shown(d.annotations, repo)
                  /\ d.suffix = IF Has(job, "release") THEN <<ReleaseOf(job)>> \o TypeSuffix(job[t])
                                                       ELSE TypeSuffix(job[t])
<1> DEFINE n == Len(job)
           suffix == TypeSuffix(job[t])
           off == Off(job[t])
           d0 == [return |-> FALSE, type |-> "", suffix |-> <<>>, continuous |-> FALSE,
                  cron |-> NoCron, annotations |-> NoAnnotations, base |-> newbase(repo)]
<1>1. PICK x : /\ x[0] = d0
               /\ \A k \in 1..n : x[k] = PeriodicEntry(x[k - 1], job[k])
               /\ Periodic(repo, job) = x[n]
  <2>1. job \in Seq(JobLine)
    BY DEF SensibleJob
  <2>2. PeriodicAs(repo, job)
    BY <2>1, PeriodicRounds
  <2> QED
    BY <2>2 DEF PeriodicAs
<1>2. n \in Nat /\ DOMAIN job = 1..n /\ t \in 1..n /\ \A i \in 1..n : job[i] \in JobLine
  BY SensibleFacts DEF TypeAt
<1>3. \A k \in 1..n : job[k].key \in Types <=> k = t
  BY <1>2 DEF TypeAt, With
<1>4. \A k \in 1..n : job[k].key \in {"release", "cron"} => t < k
  BY <1>2, <1>3 DEF TypeFirst
<1>5. \A k \in 1..n : k < t => job[k].key \notin PeriodicKeys
  <2> SUFFICES ASSUME NEW k \in 1..n, k < t PROVE job[k].key \notin PeriodicKeys
    OBVIOUS
  <2>1. job[k].key \notin Types /\ job[k].key \notin {"release", "cron"}
    BY <1>2, <1>3, <1>4
  <2> QED
    BY <2>1, TypeKeys
<1>6. PeriodicShape(d0, repo) /\ d0.return = FALSE /\ d0.suffix = <<>>
  BY DEF PeriodicShape, newbase
<1> HIDE DEF n, d0, suffix
<1> DEFINE Done(k, d) == /\ PeriodicShape(d, repo) /\ d.return = FALSE
                         /\ Shown(d.annotations, repo)
                         /\ \A r \in 1..k : job[r].key = "release" =>
                              d.suffix = <<job[r].text[1]>> \o suffix
                         /\ (\A r \in 1..k : job[r].key # "release") => d.suffix = suffix
           P(k, d) == /\ k < t => PeriodicShape(d, repo) /\ d.return = FALSE /\ d.suffix = <<>>
                      /\ k >= t /\ off => d.return = TRUE
                      /\ k >= t /\ ~off => Done(k, d)
           T == {k \in 0..n : P(k, x[k])}
<1>7. 0 \in T
  BY <1>1, <1>2, <1>6
<1>8. ASSUME NEW k \in 1..n, k - 1 \in T
      PROVE  k \in T
  <2> DEFINE d == x[k - 1]
             f == x[k]
             e == job[k]
  <2>1. P(k - 1, d) /\ f = PeriodicEntry(d, e)
    BY <1>1, <1>8
  <2>2. e \in JobLine /\ k \in Nat /\ t \in Nat
    BY <1>2
  <2> HIDE DEF d, f
  <2>3. CASE k < t
    <3>1. PeriodicShape(d, repo) /\ d.return = FALSE /\ d.suffix = <<>>
      BY <2>1, <2>2, <2>3
    <3>2. f = d
      BY <1>5, <2>1, <2>2, <2>3, <3>1, EntryMeans
    <3> QED
      BY <1>2, <2>2, <2>3, <3>1, <3>2 DEF f
  <2>4. CASE k = t
    <3>1. PeriodicShape(d, repo) /\ d.return = FALSE
      BY <2>1, <2>2, <2>4
    <3>2. e.key \in Types /\ e.key \in PeriodicKeys
      BY <1>3, <2>4, TypeKeys
    <3>3. /\ PeriodicShape(f, repo) /\ Shown(f.annotations, repo)
          /\ f.return = (e.key \in Types /\ Off(e)) /\ f.suffix = TypeSuffix(e)
      <4>1. f = PeriodicEntry(d, e) /\ e \in JobLine
        BY <2>1, <2>2
      <4>2. PeriodicShape(f, repo)
        BY <3>1, <4>1, EntryMeans
      <4>4. Shown(f.annotations, repo)
        BY <3>1, <3>2, <4>1, EntryMeans, Zenon
      <4>5. f.suffix = TypeSuffix(e)
        <5>1. PeriodicEntry(d, e).suffix = TypeSuffix(e)
          <6>1. e \in JobLine /\ e.key \in Types
            BY <3>2, <4>1
          <6> HIDE DEF e
          <6> QED
            BY <3>1, <6>1, EntryMeans
        <5> QED
          BY <4>1, <5>1
      <4>3. f.return = (e.key \in Types /\ Off(e))
        BY <3>1, <4>1, EntryMeans
      <4> QED
        BY <4>2, <4>3, <4>4, <4>5
    <3>4. f.return = off
      BY <2>4, <3>2, <3>3 DEF Off
    <3>5. \A r \in 1..k : job[r].key # "release"
      BY <1>2, <1>4, <2>4
    <3>6. off => f.return = TRUE
      BY <3>4
    <3>7. ~off => Done(k, f)
      <4> SUFFICES ASSUME ~off PROVE Done(k, f)
        OBVIOUS
      <4>1. f.return = FALSE
        BY <3>4 DEF Off
      <4> QED
        BY <2>4, <3>3, <3>5, <4>1 DEF suffix
    <3> HIDE DEF Done
    <3> QED
      BY <1>2, <2>2, <2>4, <3>6, <3>7 DEF f
  <2>5. CASE k > t /\ off
    <3>1. d.return = TRUE
      BY <2>1, <2>2, <2>5
    <3>2. f = d
      BY <2>1, <3>1 DEF PeriodicEntry
    <3> QED
      BY <1>2, <2>2, <2>5, <3>1, <3>2 DEF f
  <2>6. CASE k > t /\ ~off
    <3>1. Done(k - 1, d)
      BY <2>1, <2>2, <2>6
    <3>2. e.key \notin Types
      BY <1>2, <1>3, <2>6
    <3>3. /\ e.key \notin PeriodicKeys => f = d
          /\ PeriodicShape(f, repo)
          /\ e.key \in PeriodicKeys => Shown(f.annotations, repo)
          /\ f.return = FALSE
          /\ e.key = "release" => f.suffix = <<e.text[1]>> \o d.suffix
          /\ e.key # "release" => f.suffix = d.suffix
      BY <2>1, <2>2, <3>1, <3>2, EntryMeans
    <3>4. Shown(f.annotations, repo)
      BY <3>1, <3>3
    <3>5. \A r \in 1..k : r = k \/ r \in 1..(k - 1)
      BY <2>2
    <3>6. CASE e.key = "release"
      <4>1. \A r \in 1..(k - 1) : r \in 1..n /\ r # k
        BY <1>2, <2>2
      <4>2. \A r \in 1..(k - 1) : job[r].key # "release"
        BY <1>2, <3>6, <4>1, SensibleFacts
      <4>3. d.suffix = suffix
        BY <3>1, <4>2
      <4>4. Done(k, f)
        BY <3>3, <3>4, <3>5, <3>6, <4>2, <4>3
      <4> HIDE DEF Done
      <4> QED
        BY <1>2, <2>2, <2>6, <4>4 DEF f
    <3>7. CASE e.key # "release"
      <4>1. Done(k, f)
        BY <3>1, <3>3, <3>4, <3>5, <3>7
      <4> HIDE DEF Done
      <4> QED
        BY <1>2, <2>2, <2>6, <4>1 DEF f
    <3> QED
      BY <3>6, <3>7
  <2>7. k < t \/ k = t \/ k > t
    BY <2>2
  <2> HIDE DEF T
  <2> QED
    BY <2>3, <2>4, <2>5, <2>6, <2>7
<1>9. n \in T
  <2> HIDE DEF T
  <2> QED
    BY <1>2, <1>7, <1>8, AllRounds
<1> DEFINE d == x[n]
<1>10. P(n, d) /\ n >= t
  BY <1>2, <1>9
<1> HIDE DEF d
<1>11. d.return = off
  BY <1>10 DEF Off
<1>12. ASSUME ~off
       PROVE  /\ Shown(d.annotations, repo)
              /\ d.suffix = IF Has(job, "release") THEN <<ReleaseOf(job)>> \o suffix ELSE suffix
  <2>1. Done(n, d)
    BY <1>10, <1>12
  <2>2. CASE \A r \in 1..n : job[r].key # "release"
    BY <1>2, <2>1, <2>2, ReleaseIs
  <2>3. ASSUME NEW r \in 1..n, job[r].key = "release"
        PROVE  Has(job, "release") /\ d.suffix = <<ReleaseOf(job)>> \o suffix
    BY <1>2, <2>1, <2>3, ReleaseIs
  <2> QED
    BY <2>1, <2>2, <2>3
<1> QED
  BY <1>1, <1>11, <1>12 DEF suffix, d

LEMMA SeqWider ==
  ASSUME NEW A, NEW B, A \subseteq B
  PROVE  \A s \in Seq(A) : s \in Seq(B)
<1> SUFFICES ASSUME NEW s \in Seq(A) PROVE s \in Seq(B)
  OBVIOUS
<1>1. \A k \in 1..Len(s) : s[k] \in B
  OBVIOUS
<1> QED
  BY <1>1, SeqOfPart

\* The directory of the group that the second pass makes for a job is the name that the
\* first pass gives it; and both pass over the jobs that are turned off.
LEMMA SameName ==
  ASSUME NEW repo \in Repo, repo.org # <<>>, ~isReleased(repo.org),
         NEW job \in SensibleJob, TypeFirst(job)
  PROVE  LET d == Periodic(repo, job)
         IN  /\ d.return \in BOOLEAN
             /\ d.return <=> JobName(job) = <<>>
             /\ ~d.return =>
                  /\ Shown(d.annotations, repo)
                  /\ getGcsLogDir(buildProjRepoStr(ProjectOf(repo, job), repo.name), JobName(job))
                       = <<"ci">> \o RepoNameForJob(repo) \o d.suffix
<1>1. PICK t \in DOMAIN job : TypeAt(job, t)
  BY SensibleFacts
<1> DEFINE d == Periodic(repo, job)
           e == job[t]
           name == TypeName(e)
           suffix == TypeSuffix(e)
           proj == ProjectOf(repo, job)
           v == ReleaseOf(job)
           T == Word
           ci == <<"ci">>
<1>2. JobName(job) = IF Off(e) THEN <<>> ELSE name
  BY <1>1, NameOfJob
<1>3. /\ d.return = Off(e)
      /\ ~Off(e) => /\ Shown(d.annotations, repo)
                    /\ d.suffix = IF Has(job, "release") THEN <<v>> \o suffix ELSE suffix
  BY <1>1, PeriodicOfJob
<1>4. e \in JobLine /\ e.text \in Seq(T)
  BY <1>1, SensibleFacts DEF JobLine
<1>5. /\ name # <<>> /\ name # <<"test", "coverage">>
      /\ (IF name = <<"nightly">> THEN <<"nightly", "release">> ELSE name) = suffix
  <2>1. e.key \in {"dot-release", "auto-release", "custom-job", "nightly", "continuous", "branch-ci"}
    BY <1>1, TypeKeys DEF TypeAt, With
  <2>2. /\ <<"continuous">> # <<"nightly">> /\ <<"nightly">> # <<>> /\ <<"continuous">> # <<>>
        /\ <<"continuous">> # <<"test", "coverage">> /\ <<"nightly">> # <<"test", "coverage">>
    OBVIOUS
  <2>3. CASE e.key \in {"continuous", "branch-ci"}
    BY <2>2, <2>3 DEF TypeName, TypeSuffix
  <2>4. CASE e.key = "nightly"
    BY <2>2, <2>4 DEF TypeName, TypeSuffix
  <2>5. CASE e.key \in {"dot-release", "auto-release", "custom-job"}
    <3>1. e.text \notin {<<>>, <<"nightly">>, <<"test", "coverage">>}
      BY <1>1, <2>5, SensibleFacts
    <3> QED
      BY <2>5, <3>1 DEF TypeName, TypeSuffix
  <2> QED
    BY <2>1, <2>3, <2>4, <2>5
<1>6. suffix \in Seq(T) /\ repo.org \in Seq(T) /\ repo.name \in Seq(T) /\ ci \in Seq(T)
  <2>1. /\ <<"continuous">> \in Seq(T) /\ <<"nightly", "release">> \in Seq(T)
        /\ <<"ci">> \in Seq(T)
    <3>1. {"continuous", "nightly", "release", "ci"} \subseteq T
      BY DEF Word
    <3> HIDE DEF T
    <3> QED
      BY <3>1
  <2>2. STRING \subseteq T
    BY DEF Word
  <2>3. \A s \in Seq(STRING) : s \in Seq(T)
    BY <2>2, SeqWider
  <2> HIDE DEF T
  <2> QED
    BY <1>4, <2>1, <2>2, <2>3 DEF TypeSuffix, Repo
<1> HIDE DEF d, e, name, suffix, T, ci
<1>7. (d.return \in BOOLEAN) /\ (d.return <=> JobName(job) = <<>>)
  BY <1>2, <1>3, <1>5 DEF Off
<1>8. ASSUME ~Off(e)
      PROVE  getGcsLogDir(buildProjRepoStr(proj, repo.name), JobName(job))
                = ci \o RepoNameForJob(repo) \o d.suffix
  <2>1. JobName(job) = name
    BY <1>2, <1>8
  <2>2. \A r : getGcsLogDir(r, name) = ci \o r \o suffix
    BY <1>5 DEF getGcsLogDir, getTestGroupName, ci
  <2>3. CASE Has(job, "release")
    <3>1. v \in Versions /\ v # ""
      <4>1. PICK r \in DOMAIN job : job[r].key = "release"
        BY <2>3 DEF Has
      <4>2. v \in Versions
        BY <4>1, ReleaseIs
      <4> QED
        BY <4>2, GeneratorAssumption DEF Versions
    <3>2. proj = Append(repo.org, v)
      BY <1>5, <2>1, <3>1 DEF ProjectOf
    <3> HIDE DEF proj, v
    <3>3. v \in T
      BY <3>1 DEF T, Word
    <3>4. Len(proj) > 1 /\ Last(proj) = v /\ Front(proj) = repo.org
      <4>1. Len(repo.org) \in Nat /\ Len(repo.org) > 0 /\ Len(proj) = Len(repo.org) + 1
        BY <1>6, <3>2, <3>3
      <4>2. proj[Len(proj)] = v
        BY <1>6, <3>2, <3>3, <4>1
      <4>3. SubSeq(proj, 1, Len(proj) - 1) = repo.org
        BY <1>6, <3>2, <3>3, <4>1
      <4> QED
        BY <4>1, <4>2, <4>3 DEF Last, Front
    <3>5. buildProjRepoStr(proj, repo.name) = repo.org \o repo.name \o <<v>>
      BY <3>1, <3>4 DEF buildProjRepoStr, isReleased
    <3>6. d.suffix = <<v>> \o suffix /\ <<v>> \in Seq(T)
      BY <1>3, <1>8, <2>3, <3>3
    <3> DEFINE r == repo.org \o repo.name
    <3>7. r \in Seq(T) /\ RepoNameForJob(repo) = r
      BY <1>6 DEF RepoNameForJob
    <3> HIDE DEF r
    <3>8. (ci \o (r \o <<v>>)) \o suffix = (ci \o r) \o (<<v>> \o suffix)
      <4>1. ci \in Seq(T)
        BY <1>6
      <4>2. r \in Seq(T)
        BY <3>7
      <4>3. <<v>> \in Seq(T)
        BY <3>6
      <4>4. suffix \in Seq(T)
        BY <1>6
      <4> QED
        BY <4>1, <4>2, <4>3, <4>4
    <3> QED
      BY <2>1, <2>2, <3>5, <3>6, <3>7, <3>8 DEF r
  <2>4. CASE ~Has(job, "release")
    <3>1. v = ""
      BY <2>4 DEF ReleaseOf
    <3>2. proj = repo.org
      BY <3>1 DEF ProjectOf
    <3>3. buildProjRepoStr(proj, repo.name) = RepoNameForJob(repo)
      BY <3>2 DEF buildProjRepoStr, RepoNameForJob
    <3> QED
      BY <1>3, <1>8, <2>1, <2>2, <2>4, <3>3
  <2> QED
    BY <2>3, <2>4
<1> QED
  BY <1>3, <1>7, <1>8 DEF d, ci

SensibleSection == [repo : Repo, jobs : Seq(SensibleJob)]

GoodFile(c) ==
    /\ c \in [presubmits : Seq(Section), periodics : Seq(SensibleSection)]
    /\ FileSensible(c)

LEMMA LatestKnown ==
  ASSUME NEW S, S \subseteq Versions, IsFiniteSet(S)
  PROVE  filterLatest(S) = "" \/ filterLatest(S) \in Versions
<1>1. CASE S = {}
  BY <1>1 DEF filterLatest
<1>2. CASE S # {}
  <2> DEFINE R == {p \in Versions \X Versions : Newer(p[1], p[2])}
  <2>1. \A x, y \in S : <<x, y>> \in R <=> Newer(x, y)
    OBVIOUS
  <2> HIDE DEF R
  <2>2. PICK v \in S : \A w \in S : <<w, v>> \notin R
    <3>1. /\ \A x \in S : <<x, x>> \notin R
          /\ \A x, y, z \in S : <<x, y>> \in R /\ <<y, z>> \in R => <<x, z>> \in R
      BY <2>1, NewerOrder
    <3> QED
      BY <1>2, <3>1, Extreme
  <2>3. \A w \in S \ {v} : Newer(v, w)
    BY <2>1, <2>2, NewerOrder
  <2>4. (CHOOSE x \in S : \A w \in S \ {x} : Newer(x, w)) \in S
    BY <2>3
  <2> QED
    BY <1>2, <2>4 DEF filterLatest
<1> QED
  BY <1>1, <1>2

LEMMA ReleaseSensible ==
  ASSUME NEW job \in SensibleJob, NEW v \in Versions
  PROVE  WithRelease(job, v) \in SensibleJob
<1> DEFINE new == WithRelease(job, v)
           n == Len(job)
<1>1. n \in Nat /\ DOMAIN job = 1..n /\ \A i \in 1..n : job[i] \in JobLine
  BY SensibleFacts
<1>2. /\ DOMAIN new = DOMAIN job /\ new = [i \in 1..n |-> new[i]]
      /\ \A i \in 1..n : new[i] = IF job[i].key = "release" THEN [job[i] EXCEPT !.text = <<v>>]
                                                            ELSE job[i]
  BY <1>1 DEF WithRelease
<1>3. ASSUME NEW i \in 1..n
      PROVE  /\ new[i] \in JobLine /\ new[i].key = job[i].key
             /\ job[i].key = "release" => new[i].text[1] \in Versions
             /\ job[i].key # "release" => new[i] = job[i]
  <2>1. job[i] \in JobLine
    BY <1>1
  <2>2. <<v>> \in Seq(Word) /\ <<v>>[1] = v
    <3>1. v \in Word
      BY DEF Word
    <3> HIDE DEF Word
    <3> QED
      BY <3>1
  <2> HIDE DEF new
  <2> QED
    BY <1>2, <2>1, <2>2 DEF JobLine
<1>4. new \in Seq(JobLine)
  <2> HIDE DEF new, n
  <2> QED
    BY <1>1, <1>2, <1>3, ListIs
<1> HIDE DEF new, n
<1>5. \A keys : With(new, keys) = With(job, keys)
  BY <1>1, <1>2, <1>3 DEF With
<1>6. \A i \in DOMAIN job : i \in 1..n
  BY <1>1
<1>7. PeriodicSensible(job)
  BY DEF SensibleJob
<1>8. PeriodicSensible(new)
  <2>1. \E i \in DOMAIN new : With(new, Types) = {i}
    BY <1>2, <1>5, <1>7 DEF PeriodicSensible
  <2>2. \A i, k \in With(new, {"release"}) : i = k /\ new[i].text[1] \in Versions
    <3>1. \A i \in With(job, {"release"}) : i \in 1..n /\ job[i].key = "release"
      BY <1>1 DEF With
    <3> QED
      BY <1>3, <1>5, <1>7, <3>1 DEF PeriodicSensible
  <2>3. With(new, {"performance", "webhook-apicoverage"}) = {}
    BY <1>5, <1>7 DEF PeriodicSensible
  <2>4. \A i \in With(new, {"dot-release", "auto-release", "custom-job"}) :
          new[i].text \notin {<<>>, <<"nightly">>, <<"test", "coverage">>}
    <3>1. \A i \in With(job, {"dot-release", "auto-release", "custom-job"}) :
             i \in 1..n /\ job[i].key # "release"
      BY <1>1 DEF With
    <3>2. \A i \in With(job, {"dot-release", "auto-release", "custom-job"}) : new[i] = job[i]
      BY <1>3, <3>1
    <3> QED
      BY <1>5, <1>7, <3>2 DEF PeriodicSensible
  <2> QED
    BY <2>1, <2>2, <2>3, <2>4 DEF PeriodicSensible
<1> QED
  BY <1>4, <1>8 DEF SensibleJob, new

\* An update adds only copies for the latest version.
LEMMA UpdateOfKind ==
  ASSUME NEW J, NEW js \in Seq(J), NEW kind, NEW v, \A job \in J : WithRelease(job, v) \in J
  PROVE  UpdateKind(js, kind, v) \in Seq(J)
<1> DEFINE ss == [i \in DOMAIN js |-> Updated(js, kind, v, js[i])]
           n == Len(js)
<1>1. DOMAIN js = 1..n /\ n \in Nat /\ \A i \in 1..n : js[i] \in J
  BY SeqFacts
<1>2. ASSUME NEW i \in 1..n
      PROVE  ss[i] \in Seq(J)
  <2>1. ss[i] = Updated(js, kind, v, js[i])
    BY <1>1
  <2>2. js[i] \in J /\ WithRelease(js[i], v) \in J
    BY <1>1
  <2> HIDE DEF ss
  <2>3. <<js[i]>> \in Seq(J) /\ <<>> \in Seq(J) /\ <<js[i], WithRelease(js[i], v)>> \in Seq(J)
    BY <2>2, ShortLists, Zenon
  <2> QED
    BY <2>1, <2>3 DEF Updated
<1>3. ss \in Seq(Seq(J))
  <2>1. ss = [i \in 1..n |-> ss[i]]
    BY <1>1
  <2> HIDE DEF ss, n
  <2> QED
    BY <1>1, <1>2, <2>1, ListIs
<1>4. updateConfigForJob(js, kind, v) = FlattenSeq(ss)
  BY DEF updateConfigForJob, Updated
<1> HIDE DEF ss
<1>5. updateConfigForJob(js, kind, v) \in Seq(J)
  BY <1>3, <1>4, FlattenType
<1> QED
  BY <1>5 DEF UpdateKind

LEMMA ConfigGood ==
  ASSUME FilesSensible, NEW c \in Configs
  PROVE  GoodFile(c)
<1>1. c \in [presubmits : Seq(Section), periodics : Seq(Section)] /\ FileSensible(c)
  BY GeneratorAssumption DEF FilesSensible
<1>2. \A s \in Seq(STRING) : s \in Seq(Word)
  BY SeqWider DEF Word
<1>3. \A e \in Entry : e \in JobLine
  BY <1>2 DEF Entry, JobLine
<1>4. \A job \in Seq(Entry) : job \in Seq(JobLine)
  BY <1>3, SeqWider
<1>5. ASSUME NEW i \in 1..Len(c.periodics)
      PROVE  c.periodics[i] \in SensibleSection
  <2> DEFINE s == c.periodics[i]
  <2>1. s \in Section /\ i \in DOMAIN c.periodics
    BY <1>1
  <2>2. s.jobs \in Seq(Seq(Entry))
    BY <2>1 DEF Section
  <2>3. \A k \in DOMAIN s.jobs : PeriodicSensible(s.jobs[k])
    BY <1>1, <2>1 DEF FileSensible
  <2> HIDE DEF s
  <2>4. \A k \in 1..Len(s.jobs) : s.jobs[k] \in SensibleJob
    BY <1>4, <2>2, <2>3 DEF SensibleJob
  <2>5. s.jobs \in Seq(SensibleJob)
    BY <2>2, <2>4, SeqOfPart
  <2>6. s \in SensibleSection
    BY <2>1, <2>5 DEF Section, SensibleSection, Repo
  <2> QED
    BY <2>6 DEF s
<1>6. c.periodics \in Seq(SensibleSection)
  <2>1. c.periodics \in Seq(Section)
    BY <1>1
  <2> QED
    BY <1>5, <2>1, SeqOfPart
<1> QED
  BY <1>1, <1>6 DEF GoodFile

LEMMA UpgradeRepoGood ==
  ASSUME NEW js \in Seq(SensibleJob), NEW v, v = "" \/ v \in Versions
  PROVE  UpgradeRepo(js, v) \in Seq(SensibleJob)
<1>1. CASE v = ""
  BY <1>1 DEF UpgradeRepo
<1>2. CASE v \in Versions
  <2>1. \A job \in SensibleJob : WithRelease(job, v) \in SensibleJob
    BY <1>2, ReleaseSensible
  <2>2. UpdateKind(js, "branch-ci", v) \in Seq(SensibleJob)
    BY <2>1, UpdateOfKind
  <2>3. UpdateKind(UpdateKind(js, "branch-ci", v), "dot-release", v) \in Seq(SensibleJob)
    BY <2>1, <2>2, UpdateOfKind
  <2> QED
    BY <2>3 DEF UpgradeRepo
<1> QED
  BY <1>1, <1>2

FileParts(qs, ps) ==
    /\ \A i \in DOMAIN ps : ps[i].repo.org # <<>> /\ ~isReleased(ps[i].repo.org)
    /\ \A i \in DOMAIN ps : \A k \in DOMAIN ps[i].jobs : PeriodicSensible(ps[i].jobs[k])
    /\ \A i, k \in DOMAIN ps : ps[k].repo.name = ps[i].repo.name => k = i
    /\ \A i \in DOMAIN ps, k \in DOMAIN qs :
          qs[k].repo.name = ps[i].repo.name => qs[k].repo = ps[i].repo
    /\ \A i \in DOMAIN qs : PresubmitsSensible(qs[i].jobs)
    /\ \A i, k \in DOMAIN qs : qs[k].repo.name = qs[i].repo.name => k = i

LEMMA FilePartsAre == \A c : FileSensible(c) <=> FileParts(c.presubmits, c.periodics)
  BY DEF FileSensible, FileParts

LEMMA UpgradedGood ==
  ASSUME BranchesListed, BranchesNumbered, FilesSensible,
         NEW c \in Configs, NEW released \in Branches
  PROVE  GoodFile(upgradeReleaseBranchesTemplate(c, released))
<1> DEFINE ps == c.periodics
           n == Len(ps)
           latest(i) == filterLatest(released[ps[i].repo])
           new(i) == [ps[i] EXCEPT !.jobs = UpgradeRepo(ps[i].jobs, latest(i))]
           qs == [i \in DOMAIN ps |-> new(i)]
           d == [presubmits |-> c.presubmits, periodics |-> qs]
<1>1. GoodFile(c)
  BY ConfigGood
<1>2. ps \in Seq(SensibleSection) /\ n \in Nat /\ DOMAIN ps = 1..n /\ \A i \in 1..n : ps[i] \in SensibleSection
  <2>1. ps \in Seq(SensibleSection)
    BY <1>1 DEF GoodFile
  <2> QED
    BY <2>1
<1>3. upgradeReleaseBranchesTemplate(c, released) = d
  <2>1. upgradeReleaseBranchesTemplate(c, released) = [c EXCEPT !.periodics = qs]
    BY DEF upgradeReleaseBranchesTemplate
  <2>2. c = [presubmits |-> c.presubmits, periodics |-> c.periodics]
    BY <1>1 DEF GoodFile
  <2> HIDE DEF qs
  <2> QED
    BY <2>1, <2>2
<1>4. ASSUME NEW i \in 1..n
      PROVE  /\ qs[i] = [repo |-> ps[i].repo, jobs |-> UpgradeRepo(ps[i].jobs, latest(i))]
             /\ UpgradeRepo(ps[i].jobs, latest(i)) \in Seq(SensibleJob)
  <2>1. ps[i].repo \in DOMAIN released
    BY <1>2 DEF BranchesListed
  <2>2. latest(i) = "" \/ latest(i) \in Versions
    BY <2>1, LatestKnown DEF BranchesNumbered
  <2> DEFINE s == ps[i]
             l == latest(i)
  <2>3. s \in SensibleSection
    BY <1>2
  <2>4. qs[i] = [s EXCEPT !.jobs = UpgradeRepo(s.jobs, l)]
    BY <1>2
  <2> HIDE DEF s, l, qs
  <2>5. s = [repo |-> s.repo, jobs |-> s.jobs] /\ s.jobs \in Seq(SensibleJob)
    BY <2>3 DEF SensibleSection
  <2>6. qs[i] = [repo |-> s.repo, jobs |-> UpgradeRepo(s.jobs, l)]
    BY <2>4, <2>5
  <2>7. UpgradeRepo(s.jobs, l) \in Seq(SensibleJob)
    BY <2>2, <2>5, UpgradeRepoGood DEF l
  <2> QED
    BY <2>6, <2>7 DEF s, l
<1>5. DOMAIN qs = 1..n /\ qs = [i \in 1..n |-> qs[i]]
  BY <1>2
<1> HIDE DEF qs, latest
<1>6. ASSUME NEW i \in 1..n
      PROVE  qs[i] \in SensibleSection /\ qs[i].repo = ps[i].repo /\ qs[i].jobs \in Seq(SensibleJob)
  <2>1. ps[i].repo \in Repo
    BY <1>2 DEF SensibleSection
  <2> DEFINE x == ps[i].repo
             y == UpgradeRepo(ps[i].jobs, latest(i))
  <2>2. qs[i] = [repo |-> x, jobs |-> y] /\ y \in Seq(SensibleJob) /\ x \in Repo
    BY <1>4, <2>1
  <2> HIDE DEF x, y
  <2>3. qs[i] \in SensibleSection /\ qs[i].repo = x /\ qs[i].jobs \in Seq(SensibleJob)
    BY <2>2 DEF SensibleSection
  <2> QED
    BY <2>3 DEF x
<1>7. qs \in Seq(SensibleSection)
  <2> HIDE DEF n
  <2> QED
    BY <1>2, <1>5, <1>6, ListIs
<1>8. d \in [presubmits : Seq(Section), periodics : Seq(SensibleSection)]
  BY <1>1, <1>7 DEF GoodFile
<1>9. d.presubmits = c.presubmits /\ d.periodics = qs
  OBVIOUS
<1> HIDE DEF d
<1>10. FileSensible(d)
  <2>1. FileParts(c.presubmits, ps)
    BY <1>1, FilePartsAre DEF GoodFile
  <2>2. ASSUME NEW i \in 1..n, NEW k \in DOMAIN qs[i].jobs
        PROVE  PeriodicSensible(qs[i].jobs[k])
    <3>1. qs[i].jobs[k] \in SensibleJob
      BY <1>6
    <3> QED
      BY <3>1 DEF SensibleJob
  <2>3. FileParts(c.presubmits, qs)
    <3>1. DOMAIN qs = 1..n /\ DOMAIN ps = 1..n /\ \A i \in 1..n : qs[i].repo = ps[i].repo
      BY <1>2, <1>5, <1>6
    <3>2. \A i \in 1..n : \A k \in DOMAIN qs[i].jobs : PeriodicSensible(qs[i].jobs[k])
      BY <2>2
    <3> HIDE DEF ps, n
    <3> QED
      BY <2>1, <3>1, <3>2 DEF FileParts
  <2> QED
    BY <1>9, <2>3, FilePartsAre
<1> QED
  BY <1>3, <1>8, <1>10 DEF GoodFile

LEMMA FileGood ==
  ASSUME BranchesListed, BranchesNumbered, FilesSensible, UpgradeInv
  PROVE  GoodFile(file)
  BY ConfigGood, UpgradedGood DEF UpgradeInv

\* A presubmit job of the coverage of its repository.
Covers(repo, job) == Presubmit(repo, job).return = FALSE /\ Presubmit(repo, job).coverage = TRUE

PresubmitTypes == {"build-tests", "unit-tests", "integration-tests", "go-coverage"}

PresubmitShape(d) == {"return", "generate", "coverage", "suffix", "base"} \subseteq DOMAIN d

LEMMA PresubmitMeans ==
  ASSUME NEW d, PresubmitShape(d), d.return \in BOOLEAN, NEW e \in Entry
  PROVE  LET f == PresubmitEntry(d, e)
         IN  /\ PresubmitShape(f)
             /\ d.return = TRUE => f = d
             /\ d.return = FALSE =>
                  /\ f.return = (e.key \in PresubmitTypes /\ ~e.on)
                  /\ e.key # "go-coverage" => f.coverage = d.coverage
                  /\ e.key = "go-coverage" => f.coverage = TRUE
<1> DEFINE f == PresubmitEntry(d, e)
           Good(g) == /\ PresubmitShape(g) /\ g.return = (e.key \in PresubmitTypes /\ ~e.on)
                      /\ e.key # "go-coverage" => g.coverage = d.coverage
                      /\ e.key = "go-coverage" => g.coverage = TRUE
<1>1. d.return = TRUE => f = d
  BY DEF PresubmitEntry
<1>2. ASSUME d.return = FALSE
      PROVE  Good(f)
  <2>1. CASE e.key \in PresubmitTypes \ {"go-coverage"}
    <3> DEFINE b == addVolumeToJob(d.base, "repoview-token")
               base == [b EXCEPT !.args = IF b.args = <<>> THEN e.text ELSE b.args]
    <3>1. f = [d EXCEPT !.return = ~e.on, !.suffix = e.text, !.base = base]
      BY <1>2, <2>1 DEF PresubmitEntry, PresubmitTypes
    <3>2. e.key # "go-coverage" /\ e.key \in PresubmitTypes
      BY <2>1
    <3> HIDE DEF base, f
    <3> QED
      BY <3>1, <3>2 DEF PresubmitShape
  <2>2. CASE e.key = "go-coverage"
    <3> DEFINE base == [addVolumeToJob(d.base, "covbot-token") EXCEPT !.account = ""]
    <3>1. f = [d EXCEPT !.return = ~e.on, !.suffix = <<"go", "coverage">>, !.coverage = TRUE,
                        !.base = base]
      BY <1>2, <2>2 DEF PresubmitEntry
    <3>2. e.key \in PresubmitTypes
      BY <2>2 DEF PresubmitTypes
    <3> HIDE DEF base, f
    <3> QED
      BY <2>2, <3>1, <3>2 DEF PresubmitShape
  <2>3. CASE e.key \notin PresubmitTypes
    <3>1. f \in {[d EXCEPT !.suffix = e.text], [d EXCEPT !.base.threshold = e.num],
                 [d EXCEPT !.generate = FALSE], d}
      BY <1>2, <2>3 DEF PresubmitEntry, PresubmitTypes
    <3>2. e.key # "go-coverage"
      BY <2>3 DEF PresubmitTypes
    <3>3. \A g \in {[d EXCEPT !.suffix = e.text], [d EXCEPT !.base.threshold = e.num],
                    [d EXCEPT !.generate = FALSE], d} :
            PresubmitShape(g) /\ g.return = FALSE /\ g.coverage = d.coverage
      BY <1>2 DEF PresubmitShape
    <3> HIDE DEF f
    <3> QED
      BY <2>3, <3>1, <3>2, <3>3
  <2> QED
    BY <2>1, <2>2, <2>3
<1> HIDE DEF f
<1>3. /\ PresubmitShape(f)
      /\ d.return = FALSE =>
                  /\ f.return = (e.key \in PresubmitTypes /\ ~e.on)
                  /\ e.key # "go-coverage" => f.coverage = d.coverage
                  /\ e.key = "go-coverage" => f.coverage = TRUE
  BY <1>1, <1>2
<1> QED
  BY <1>1, <1>3 DEF f

\* A job covers its repository if its only type is go-coverage, and is on.
LEMMA CoversIs ==
  ASSUME NEW repo, NEW job \in Seq(Entry),
         Has(job, "go-coverage") => \E k \in DOMAIN job : With(job, PresubmitTypes) = {k}
  PROVE  Covers(repo, job) <=> \E t \in DOMAIN job : job[t].key = "go-coverage" /\ job[t].on
<1> DEFINE n == Len(job)
           d0 == PresubmitStart(repo)
<1>1. PICK x : /\ x[0] = d0 /\ \A k \in 1..n : x[k] = PresubmitEntry(x[k - 1], job[k])
               /\ Presubmit(repo, job) = x[n]
  <2> HIDE DEF n
  <2>1. \E x : /\ x[0] = d0 /\ \A k \in 1..Len(job) : x[k] = PresubmitEntry(x[k - 1], job[k])
               /\ Presubmit(repo, job) = x[Len(job)]
    BY PresubmitRounds, Zenon
  <2> QED
    BY <2>1, Zenon DEF n
<1>2. n \in Nat /\ DOMAIN job = 1..n /\ \A i \in 1..n : job[i] \in Entry
  OBVIOUS
<1>3. PresubmitShape(d0) /\ d0.return = FALSE /\ d0.coverage = FALSE
  BY DEF PresubmitShape, PresubmitStart
<1> HIDE DEF d0, n
<1>4. CASE ~Has(job, "go-coverage")
  <2>1. \A k \in 1..n : job[k].key # "go-coverage"
    BY <1>2, <1>4 DEF Has
  <2> DEFINE T == {k \in 0..n : PresubmitShape(x[k]) /\ x[k].return \in BOOLEAN /\ x[k].coverage = FALSE}
  <2>2. 0 \in T
    <3>1. PresubmitShape(x[0]) /\ x[0].return \in BOOLEAN /\ x[0].coverage = FALSE
      BY <1>1, <1>3
    <3> QED
      BY <1>2, <3>1
  <2>3. ASSUME NEW k \in 1..n, k - 1 \in T
        PROVE  k \in T
    <3> DEFINE d == x[k - 1]
    <3>1. PresubmitShape(d) /\ d.return \in BOOLEAN /\ d.coverage = FALSE
      BY <2>3
    <3>2. x[k] = PresubmitEntry(d, job[k]) /\ job[k] \in Entry /\ job[k].key # "go-coverage"
      BY <1>1, <1>2, <2>1
    <3> HIDE DEF d
    <3>3. PresubmitShape(x[k]) /\ x[k].return \in BOOLEAN /\ x[k].coverage = FALSE
      BY <3>1, <3>2, PresubmitMeans
    <3> QED
      BY <1>2, <3>3
  <2>4. n \in T
    <3> HIDE DEF T
    <3> QED
      BY <1>2, <2>2, <2>3, AllRounds
  <2>5. Presubmit(repo, job).coverage = FALSE
    BY <1>1, <2>4
  <2> QED
    BY <1>2, <2>1, <2>5 DEF Covers
<1>5. CASE Has(job, "go-coverage")
  <2>1. PICK t \in 1..n : /\ job[t].key = "go-coverage"
                          /\ \A k \in 1..n : job[k].key \in PresubmitTypes => k = t
    <3>1. PICK t \in DOMAIN job : With(job, PresubmitTypes) = {t}
      BY <1>5
    <3>2. \A k \in DOMAIN job : job[k].key \in PresubmitTypes <=> k = t
      BY <3>1 DEF With
    <3>3. PICK g \in DOMAIN job : job[g].key = "go-coverage"
      BY <1>5 DEF Has
    <3>4. g = t
      BY <3>2, <3>3 DEF PresubmitTypes
    <3> QED
      BY <1>2, <3>2, <3>3, <3>4
  <2>2. job[t].on \in BOOLEAN /\ "go-coverage" \in PresubmitTypes
    BY <1>2 DEF Entry, PresubmitTypes
  <2> DEFINE P(k, d) == /\ PresubmitShape(d)
                        /\ k < t => d.return = FALSE /\ d.coverage = FALSE
                        /\ k >= t /\ job[t].on = TRUE => d.return = FALSE /\ d.coverage = TRUE
                        /\ k >= t /\ job[t].on = FALSE => d.return = TRUE
             T == {k \in 0..n : P(k, x[k])}
  <2>3. 0 \in T
    BY <1>1, <1>2, <1>3
  <2>4. ASSUME NEW k \in 1..n, k - 1 \in T
        PROVE  k \in T
    <3> DEFINE d == x[k - 1]
               f == x[k]
    <3>1. P(k - 1, d) /\ f = PresubmitEntry(d, job[k]) /\ job[k] \in Entry /\ k \in Nat /\ t \in Nat
      BY <1>1, <1>2, <2>4
    <3> HIDE DEF d, f
    <3>2. PresubmitShape(f) /\ d.return \in BOOLEAN
      <4>1. k - 1 < t \/ (k - 1 >= t /\ (job[t].on = TRUE \/ job[t].on = FALSE))
        BY <2>2, <3>1
      <4>2. d.return = TRUE \/ d.return = FALSE
        BY <3>1, <4>1, Zenon
      <4>3. PresubmitShape(d) /\ d.return \in BOOLEAN
        BY <3>1, <4>2
      <4> QED
        BY <3>1, <4>3, PresubmitMeans
    <3>3. CASE k < t
      <4>1. d.return = FALSE /\ d.coverage = FALSE /\ job[k].key \notin PresubmitTypes
        BY <2>1, <3>1, <3>3
      <4>2. f.return = FALSE /\ f.coverage = FALSE
        BY <2>2, <3>1, <3>2, <4>1, PresubmitMeans
      <4> QED
        BY <3>1, <3>2, <3>3, <4>2 DEF f
    <3>4. CASE k = t
      <4>1. d.return = FALSE
        BY <3>1, <3>4
      <4>2. f.return = ~job[t].on /\ f.return \in BOOLEAN /\ f.coverage = TRUE
        BY <2>1, <2>2, <3>1, <3>2, <3>4, <4>1, PresubmitMeans
      <4> QED
        BY <2>2, <3>1, <3>2, <3>4, <4>2 DEF f
    <3>5. CASE k > t /\ job[t].on = TRUE
      <4>1. d.return = FALSE /\ d.coverage = TRUE /\ job[k].key \notin PresubmitTypes
        BY <2>1, <3>1, <3>5
      <4>2. f.return = FALSE /\ f.coverage = TRUE
        BY <2>2, <3>1, <3>2, <4>1, PresubmitMeans
      <4> QED
        BY <3>1, <3>2, <3>5, <4>2 DEF f
    <3>6. CASE k > t /\ job[t].on = FALSE
      <4>1. d.return = TRUE
        BY <3>1, <3>6
      <4>2. f = d
        BY <3>1, <4>1, PresubmitMeans
      <4> QED
        BY <3>1, <3>2, <3>6, <4>1, <4>2 DEF f
    <3>7. k < t \/ k = t \/ (k > t /\ job[t].on = TRUE) \/ (k > t /\ job[t].on = FALSE)
      BY <2>2, <3>1
    <3> HIDE DEF T
    <3> QED
      BY <3>3, <3>4, <3>5, <3>6, <3>7, Zenon
  <2>5. n \in T
    <3> HIDE DEF T
    <3> QED
      BY <1>2, <2>3, <2>4, AllRounds
  <2>6. P(n, x[n]) /\ n >= t
    BY <1>2, <2>5
  <2>7. Covers(repo, job) <=> job[t].on
    BY <1>1, <2>2, <2>6 DEF Covers
  <2>8. \A k \in 1..n : job[k].key = "go-coverage" => k = t
    BY <2>1, <2>2
  <2> QED
    BY <1>2, <2>1, <2>7, <2>8
<1> QED
  BY <1>4, <1>5

\* A repository of the file that a presubmit job covers.
Covered(c, repo) ==
    \E k \in DOMAIN c.presubmits :
        /\ c.presubmits[k].repo = repo
        /\ \E h \in DOMAIN c.presubmits[k].jobs : Covers(repo, c.presubmits[k].jobs[h])

\* The coverage map has the names of those repositories.
LEMMA MapIs ==
  ASSUME NEW c, GoodFile(c)
  PROVE  parseGoCoverageMap(c) =
            {c.presubmits[i].repo.name : i \in {k \in DOMAIN c.presubmits : Covered(c, c.presubmits[k].repo)}}
<1> DEFINE qs == c.presubmits
           js(k) == qs[k].jobs
           of(k) == {h \in DOMAIN js(k) : Has(js(k)[h], "go-coverage")}
           last(k) == \A h \in (k + 1)..Len(qs) : qs[h].repo.name # qs[k].repo.name
           on(k) == \E h \in of(k) : (\A g \in of(k) : g <= h) /\ CoverageOn(js(k)[h])
<1>1. /\ qs \in Seq(Section) /\ FileParts(qs, c.periodics)
      /\ Len(qs) \in Nat /\ DOMAIN qs = 1..Len(qs) /\ \A k \in DOMAIN qs : qs[k] \in Section
  <2>1. qs \in Seq(Section)
    BY DEF GoodFile
  <2> QED
    BY <2>1, FilePartsAre DEF GoodFile
<1>2. parseGoCoverageMap(c) = {qs[i].repo.name : i \in {k \in DOMAIN qs : last(k) /\ on(k)}}
  BY DEF parseGoCoverageMap
<1> HIDE DEF qs
<1>3. ASSUME NEW k \in DOMAIN qs
      PROVE  last(k)
  <2>1. \A h \in (k + 1)..Len(qs) : h \in DOMAIN qs /\ h # k
    BY <1>1
  <2> QED
    BY <1>1, <2>1 DEF FileParts
<1>4. ASSUME NEW k \in DOMAIN qs
      PROVE  on(k) <=> Covered(c, qs[k].repo)
  <2> DEFINE s == js(k)
  <2>1. s \in Seq(Seq(Entry)) /\ PresubmitsSensible(s)
    BY <1>1 DEF FileParts, Section
  <2>2. Len(s) \in Nat /\ DOMAIN s = 1..Len(s) /\ \A h \in DOMAIN s : s[h] \in Seq(Entry)
    BY <2>1, SeqFacts
  <2>3. \A h \in DOMAIN s : Has(s[h], "go-coverage") =>
           /\ \E i \in DOMAIN s[h] : With(s[h], PresubmitTypes) = {i}
           /\ \A g \in DOMAIN s : Has(s[g], "go-coverage") => g = h
    BY <2>1 DEF PresubmitsSensible, PresubmitTypes
  <2>4. Covered(c, qs[k].repo) <=> \E h \in DOMAIN s : Covers(qs[k].repo, s[h])
    <3>1. \A i \in DOMAIN qs : qs[i].repo = qs[k].repo => i = k
      BY <1>1 DEF FileParts
    <3> QED
      BY <3>1 DEF Covered, qs
  <2>5. ASSUME NEW h \in DOMAIN s
        PROVE  Covers(qs[k].repo, s[h]) <=> h \in of(k) /\ CoverageOn(s[h])
    <3> DEFINE job == s[h]
    <3>1. job \in Seq(Entry) /\ (Has(job, "go-coverage") => \E i \in DOMAIN job : With(job, PresubmitTypes) = {i})
      BY <2>2, <2>3
    <3>2. h \in of(k) <=> Has(job, "go-coverage")
      OBVIOUS
    <3> HIDE DEF job, s, of
    <3>3. Covers(qs[k].repo, job) <=> \E t \in DOMAIN job : job[t].key = "go-coverage" /\ job[t].on
      BY <3>1, CoversIs
    <3>4. CoverageOn(job) => Has(job, "go-coverage")
      BY DEF CoverageOn, Has
    <3>5. ASSUME NEW t \in DOMAIN job, job[t].key = "go-coverage", job[t].on
          PROVE  CoverageOn(job) /\ Has(job, "go-coverage")
      <4>1. Has(job, "go-coverage")
        BY <3>5 DEF Has
      <4>2. PICK i \in DOMAIN job : With(job, PresubmitTypes) = {i}
        BY <3>1, <4>1
      <4>3. \A l \in DOMAIN job : job[l].key = "go-coverage" => l = t
        BY <3>5, <4>2 DEF With, PresubmitTypes
      <4>4. \A l \in 1..(t - 1) : l \in DOMAIN job /\ l # t
        BY <3>1
      <4> QED
        BY <3>5, <4>1, <4>3, <4>4 DEF CoverageOn
    <3>6. CoverageOn(job) => \E t \in DOMAIN job : job[t].key = "go-coverage" /\ job[t].on
      BY DEF CoverageOn
    <3> QED
      BY <3>2, <3>3, <3>4, <3>5, <3>6 DEF job
  <2>6. \A h \in of(k) : \A g \in of(k) : g <= h
    <3>1. \A h, g \in of(k) : g = h /\ h \in Nat
      BY <2>2, <2>3
    <3> HIDE DEF of
    <3> QED
      BY <3>1
  <2>7. \A h \in of(k) : h \in DOMAIN s
    OBVIOUS
  <2>8. on(k) <=> \E h \in of(k) : CoverageOn(s[h])
    BY <2>6
  <2> HIDE DEF of, on, s
  <2> QED
    BY <2>4, <2>5, <2>7, <2>8
<1>5. {k \in DOMAIN qs : last(k) /\ on(k)} = {k \in DOMAIN qs : Covered(c, qs[k].repo)}
  <2> HIDE DEF last, on
  <2> QED
    BY <1>3, <1>4
<1> HIDE DEF last, on
<1> QED
  BY <1>2, <1>5 DEF qs

-----------------------------------------------------------------------------
(* The periodic jobs that the first pass has made.                          *)

PeriodicOnes(s) == {j \in ToSet(s) : j.kind = "periodic"}

NamesOf(s) == {j.name : j \in PeriodicOnes(s)}

\* The jobs that have a test group of their own.
TestNames(m) == {t.CIJobName : t \in ToSet(m.nonAligned)}

NameOf(repo, job) == <<"ci">> \o RepoNameForJob(repo) \o Periodic(repo, job).suffix

CovName(repo) == <<"ci">> \o (RepoNameForJob(repo) \o <<"go", "coverage">>)

Made(s, repo, job) == Periodic(repo, job).return = TRUE \/ NameOf(repo, job) \in NamesOf(s)

CovMade(s, repo) == \E j \in PeriodicOnes(s) : j.base.repo = repo /\ j.name = CovName(repo)

\* Where a periodic job comes from: it is a copy, made for a job of the file, or for coverage.
JobFrom(c, m, j) ==
    \/ j.name \in TestNames(m) /\ j.annotations.dashboard = betaDashboard
    \/ \E i \in DOMAIN c.periodics : \E k \in DOMAIN c.periodics[i].jobs :
         LET r == c.periodics[i].repo
             x == c.periodics[i].jobs[k]
         IN  /\ Periodic(r, x).return = FALSE
             /\ j.name = NameOf(r, x) /\ j.annotations.dashboard = Dashboard(r)
    \/ /\ Covered(c, j.base.repo)
       /\ j.name = CovName(j.base.repo) /\ j.annotations.dashboard = Dashboard(j.base.repo)

MetaShape(m) ==
    /\ {"md", "projNames", "repoNames", "nonAligned", "coverage"} \subseteq DOMAIN m
    /\ \E N : m.nonAligned \in Seq(N)

\* Two states of the metadata that differ in those test groups.
SameDetails(m, n) ==
    n.md = m.md /\ n.projNames = m.projNames /\ n.repoNames = m.repoNames /\ n.coverage = m.coverage

IsList(s) == \E S : s \in Seq(S)

JobsInv(c, s, m) ==
    /\ IsList(s) /\ MetaShape(m)
    /\ \A j \in PeriodicOnes(s) : JobFrom(c, m, j)
    /\ TestNames(m) \subseteq NamesOf(s)

LEMMA MoreTests ==
  ASSUME NEW m, MetaShape(m), NEW t
  PROVE  /\ MetaShape(AddNonAlignedTest(m, t)) /\ SameDetails(m, AddNonAlignedTest(m, t))
         /\ TestNames(AddNonAlignedTest(m, t)) = TestNames(m) \cup {t.CIJobName}
<1> DEFINE n == AddNonAlignedTest(m, t)
<1>1. /\ DOMAIN n = DOMAIN m /\ n.nonAligned = Append(m.nonAligned, t) /\ SameDetails(m, n)
  BY DEF MetaShape, AddNonAlignedTest, SameDetails
<1>2. PICK N : m.nonAligned \in Seq(N)
  BY DEF MetaShape
<1> DEFINE U == N \cup {t}
<1>3. \A x \in N : x \in U
  OBVIOUS
<1>4. m.nonAligned \in Seq(U) /\ t \in U
  <2>1. t \in U
    OBVIOUS
  <2> HIDE DEF U
  <2> QED
    BY <1>2, <1>3, <2>1, SeqWider
<1> HIDE DEF n, U
<1>5. n.nonAligned \in Seq(U) /\ ToSet(n.nonAligned) = ToSet(m.nonAligned) \cup {t}
  BY <1>1, <1>4, AppendAdds
<1>6. MetaShape(n)
  BY <1>1, <1>5 DEF MetaShape
<1>7. TestNames(n) = TestNames(m) \cup {t.CIJobName}
  BY <1>5 DEF TestNames
<1> QED
  BY <1>1, <1>6, <1>7 DEF n

\* What holds of a job holds when there are more of them.
LEMMA MoreJobsMade ==
  ASSUME NEW s, NEW new, PeriodicOnes(s) \subseteq PeriodicOnes(new)
  PROVE  /\ NamesOf(s) \subseteq NamesOf(new)
         /\ \A repo, job : Made(s, repo, job) => Made(new, repo, job)
         /\ \A repo : CovMade(s, repo) => CovMade(new, repo)
<1>1. NamesOf(s) \subseteq NamesOf(new)
  BY DEF NamesOf
<1>2. \A repo : CovMade(s, repo) => CovMade(new, repo)
  BY DEF CovMade
<1> QED
  BY <1>1, <1>2 DEF Made

LEMMA MoreFrom ==
  ASSUME NEW c, NEW m, NEW n, TestNames(m) \subseteq TestNames(n), NEW j, JobFrom(c, m, j)
  PROVE  JobFrom(c, n, j)
  BY DEF JobFrom

\* Some jobs more.
LEMMA WriteMore ==
  ASSUME jobNameFilter = <<>>, IsList(jobs), NEW title, NEW repo, NEW R, NEW js \in Seq(R),
         NEW grouped, WriteAll(title, repo, js, grouped)
  PROVE  /\ IsList(jobs')
         /\ PeriodicOnes(jobs') = PeriodicOnes(jobs) \cup {j \in ToSet(js) : j.kind = "periodic"}
<1>1. PICK S : jobs \in Seq(S)
  BY DEF IsList
<1>2. jobs' \in Seq(S \cup R) /\ ToSet(jobs') = ToSet(jobs) \cup ToSet(js)
  BY <1>1, WriteAdds
<1>3. IsList(jobs')
  BY <1>2 DEF IsList
<1> QED
  BY <1>2, <1>3 DEF PeriodicOnes

\* A job of a repository.
JobOf(j, repo, name) ==
    /\ {"kind", "name", "base", "cron", "annotations"} \subseteq DOMAIN j
    /\ j.kind = "periodic" /\ j.name = name /\ Shown(j.annotations, repo)

\* The copy of a job: it is one too, on the dashboard of the copies.
LEMMA CopyIs ==
  ASSUME NEW j, NEW repo, NEW name, JobOf(j, repo, name), NEW cron
  PROVE  /\ BetaOf(j, cron).kind = "periodic"
         /\ BetaOf(j, cron).annotations.dashboard = betaDashboard
<1> DEFINE a == [j.annotations EXCEPT !.dashboard = betaDashboard]
<1>1. a.dashboard = betaDashboard /\ "dashboard" \in DOMAIN a
  BY DEF JobOf, Shown
<1> HIDE DEF a
<1>2. \A x : [a EXCEPT !.tab = x].dashboard = betaDashboard
  BY <1>1
<1>3. BetaOf(j, cron).kind = "periodic"
  BY DEF BetaOf, JobOf
<1>4. BetaOf(j, cron).annotations.dashboard = betaDashboard
  BY DEF BetaOf, JobOf, Shown
<1> QED
  BY <1>3, <1>4

\* A job and its copy, or the job alone, are written.
LEMMA WritePair ==
  ASSUME jobNameFilter = <<>>, NEW c, JobsInv(c, jobs, metaData), NEW repo, NEW name,
         NEW j, JobOf(j, repo, name), JobFrom(c, metaData, j), NEW cron, NEW js,
         \/ js = <<j>> /\ metaData' = metaData
         \/ js = <<j, BetaOf(j, cron)>> /\ metaData' = AddNonAlignedTest(metaData, BetaTest(js)),
         NEW title, WriteAll(title, repo, js, {})
  PROVE  /\ JobsInv(c, jobs', metaData') /\ SameDetails(metaData, metaData')
         /\ PeriodicOnes(jobs) \subseteq PeriodicOnes(jobs') /\ j \in PeriodicOnes(jobs')
<1>1. CASE js = <<j>> /\ metaData' = metaData
  <2>1. js \in Seq({j}) /\ ToSet(js) = {j}
    BY <1>1 DEF ToSet
  <2>2. IsList(jobs') /\ PeriodicOnes(jobs') = PeriodicOnes(jobs) \cup {j}
    <3>1. {x \in ToSet(js) : x.kind = "periodic"} = {j}
      BY <2>1 DEF JobOf
    <3> QED
      BY <2>1, <3>1, WriteMore DEF JobsInv
  <2>3. NamesOf(jobs) \subseteq NamesOf(jobs')
    BY <2>2, MoreJobsMade
  <2> QED
    BY <1>1, <2>2, <2>3 DEF JobsInv, SameDetails
<1>2. CASE js = <<j, BetaOf(j, cron)>> /\ metaData' = AddNonAlignedTest(metaData, BetaTest(js))
  <2> DEFINE b == BetaOf(j, cron)
  <2>1. b.kind = "periodic" /\ b.annotations.dashboard = betaDashboard
    BY CopyIs
  <2> HIDE DEF b
  <2>2. js = <<j, b>>
    BY <1>2 DEF b
  <2>3. js \in Seq({j, b}) /\ ToSet(js) = {j, b} /\ js[2] = b
    BY <2>2 DEF ToSet
  <2>4. IsList(jobs') /\ PeriodicOnes(jobs') = PeriodicOnes(jobs) \cup {j, b}
    <3>1. {x \in ToSet(js) : x.kind = "periodic"} = {j, b}
      BY <2>1, <2>3 DEF JobOf
    <3> QED
      BY <2>3, <3>1, WriteMore DEF JobsInv
  <2>5. BetaTest(js).CIJobName = b.name
    BY <2>3 DEF BetaTest, NonAligned
  <2>6. /\ MetaShape(metaData') /\ SameDetails(metaData, metaData')
        /\ TestNames(metaData') = TestNames(metaData) \cup {b.name}
    BY <1>2, <2>5, MoreTests DEF JobsInv
  <2>7. NamesOf(jobs) \subseteq NamesOf(jobs') /\ b.name \in NamesOf(jobs')
    BY <2>4 DEF NamesOf
  <2>8. ASSUME NEW x \in PeriodicOnes(jobs')
        PROVE  JobFrom(c, metaData', x)
    <3>1. CASE x = b
      BY <2>1, <2>6, <3>1 DEF JobFrom
    <3>2. CASE x # b
      <4>1. JobFrom(c, metaData, x)
        BY <2>4, <3>2 DEF JobsInv
      <4> QED
        BY <2>6, <4>1, MoreFrom
    <3> QED
      BY <3>1, <3>2
  <2>9. TestNames(metaData') \subseteq NamesOf(jobs')
    BY <2>6, <2>7 DEF JobsInv
  <2> QED
    BY <2>4, <2>6, <2>8, <2>9 DEF JobsInv
<1> QED
  BY <1>1, <1>2

-----------------------------------------------------------------------------
(* The entries of the list of repositories.                                 *)

EntryShape(x) == /\ {"repo", "EnableGoCoverage", "EnablePerformanceTests", "Processed"} \subseteq DOMAIN x
                 /\ x.EnableGoCoverage \in BOOLEAN /\ x.Processed \in BOOLEAN

\* Coverage is asked for by a job of the file; an entry that has been processed has its job.
EntryFrom(c, s, x) == /\ EntryShape(x)
                      /\ x.EnableGoCoverage => Covered(c, x.repo)
                      /\ x.Processed => CovMade(s, x.repo)

ReposInv(c, s, rs) == IsList(rs) /\ \A i \in DOMAIN rs : EntryFrom(c, s, rs[i])

Listed(rs, repo) == \E i \in DOMAIN rs : rs[i].repo = repo /\ rs[i].EnableGoCoverage

SameEntry(x, y) == EntryShape(y) /\ y.repo = x.repo /\ y.EnableGoCoverage = x.EnableGoCoverage

\* The same repositories, and what has been processed.
SameEntries(rs, new) ==
    IsList(new) /\ DOMAIN new = DOMAIN rs /\ \A i \in DOMAIN rs : SameEntry(rs[i], new[i])

LEMMA ListIsOne ==
  ASSUME NEW n \in Nat, NEW s, s = [i \in 1..n |-> s[i]]
  PROVE  IsList(s)
<1> DEFINE S == {s[i] : i \in 1..n}
<1>1. \A i \in 1..n : s[i] \in S
  OBVIOUS
<1> HIDE DEF S
<1>2. s \in Seq(S)
  BY <1>1, ListIs
<1> QED
  BY <1>2 DEF IsList

LEMMA ListHas ==
  ASSUME NEW s, IsList(s)
  PROVE  /\ Len(s) \in Nat /\ DOMAIN s = 1..Len(s) /\ s = [i \in 1..Len(s) |-> s[i]]
         /\ ToSet(s) = {s[i] : i \in DOMAIN s}
         /\ s # <<>> => /\ IsList(Tail(s)) /\ Head(s) \in ToSet(s)
                        /\ ToSet(s) = {Head(s)} \cup ToSet(Tail(s))
         /\ s = <<>> => ToSet(s) = {}
<1>1. PICK S : s \in Seq(S)
  BY DEF IsList
<1>2. s # <<>> => /\ Tail(s) \in Seq(S) /\ Head(s) = s[1] /\ Len(s) > 0
                  /\ DOMAIN Tail(s) = 1..(Len(s) - 1)
                  /\ \A i \in 1..(Len(s) - 1) : Tail(s)[i] = s[i + 1]
  BY <1>1
<1>3. Len(s) \in Nat /\ DOMAIN s = 1..Len(s) /\ s = [i \in 1..Len(s) |-> s[i]]
  BY <1>1
<1>4. ASSUME s # <<>>
      PROVE  /\ IsList(Tail(s)) /\ Head(s) \in ToSet(s)
             /\ ToSet(s) = {Head(s)} \cup ToSet(Tail(s))
  <2>1. IsList(Tail(s))
    BY <1>2, <1>4 DEF IsList
  <2>2. \A i \in 1..Len(s) : i = 1 \/ (i - 1 \in 1..(Len(s) - 1) /\ (i - 1) + 1 = i)
    BY <1>3
  <2>3. \A i \in 1..(Len(s) - 1) : i + 1 \in 1..Len(s)
    BY <1>3
  <2>4. 1 \in 1..Len(s)
    BY <1>2, <1>3, <1>4
  <2>5. ASSUME NEW x \in ToSet(s)
        PROVE  x \in {Head(s)} \cup ToSet(Tail(s))
    <3>1. PICK i \in 1..Len(s) : x = s[i]
      BY <1>3 DEF ToSet
    <3>2. CASE i = 1
      BY <1>2, <1>4, <3>1, <3>2
    <3>3. CASE i # 1
      <4>1. i - 1 \in 1..(Len(s) - 1) /\ Tail(s)[i - 1] = x
        BY <1>2, <1>4, <2>2, <3>1, <3>3
      <4> QED
        BY <1>2, <1>4, <4>1 DEF ToSet
    <3> QED
      BY <3>2, <3>3
  <2>6. ASSUME NEW x \in ToSet(Tail(s))
        PROVE  x \in ToSet(s)
    <3>1. PICK i \in 1..(Len(s) - 1) : x = Tail(s)[i]
      BY <1>2, <1>4 DEF ToSet
    <3>2. x = s[i + 1] /\ i + 1 \in DOMAIN s
      BY <1>2, <1>3, <1>4, <2>3, <3>1
    <3> QED
      BY <3>2 DEF ToSet
  <2>7. Head(s) \in ToSet(s)
    BY <1>2, <1>3, <1>4, <2>4 DEF ToSet
  <2> QED
    BY <2>1, <2>5, <2>6, <2>7
<1>5. ToSet(s) = {s[i] : i \in DOMAIN s}
  BY DEF ToSet
<1>6. ASSUME s = <<>>
      PROVE  ToSet(s) = {}
  <2>1. DOMAIN s = {}
    BY <1>6
  <2> QED
    BY <1>5, <2>1
<1> QED
  BY <1>3, <1>4, <1>5, <1>6

LEMMA EntriesKept ==
  ASSUME NEW c, NEW s, NEW new, PeriodicOnes(s) \subseteq PeriodicOnes(new),
         NEW rs, ReposInv(c, s, rs), NEW ts, SameEntries(rs, ts),
         \A i \in DOMAIN rs : ts[i].Processed => rs[i].Processed \/ CovMade(new, rs[i].repo)
  PROVE  ReposInv(c, new, ts) /\ \A repo : Listed(rs, repo) <=> Listed(ts, repo)
<1>1. \A repo : CovMade(s, repo) => CovMade(new, repo)
  BY MoreJobsMade
<1>2. ASSUME NEW i \in DOMAIN ts
      PROVE  EntryFrom(c, new, ts[i])
  <2>1. i \in DOMAIN rs /\ SameEntry(rs[i], ts[i]) /\ EntryFrom(c, s, rs[i])
    BY DEF SameEntries, ReposInv
  <2> QED
    BY <1>1, <2>1 DEF SameEntry, EntryFrom
<1>3. \A repo : Listed(rs, repo) <=> Listed(ts, repo)
  BY DEF SameEntries, SameEntry, Listed
<1> QED
  BY <1>2, <1>3 DEF ReposInv, SameEntries

LEMMA PerformanceKept ==
  ASSUME NEW rs, IsList(rs), \A i \in DOMAIN rs : EntryShape(rs[i]), NEW repo, NEW job
  PROVE  /\ SameEntries(rs, SetPerformance(rs, repo, job))
         /\ \A i \in DOMAIN rs : SetPerformance(rs, repo, job)[i].Processed = rs[i].Processed
<1>1. Len(rs) \in Nat /\ DOMAIN rs = 1..Len(rs)
  BY ListHas
<1>2. CASE ~Has(job, "performance")
  BY <1>2 DEF SetPerformance, SameEntries, SameEntry
<1>3. CASE Has(job, "performance")
  <2> DEFINE v == ValueOf(job, "performance").on
             new == [i \in DOMAIN rs |->
                       IF rs[i].repo.name = repo.name
                       THEN [rs[i] EXCEPT !.EnablePerformanceTests = v] ELSE rs[i]]
             n == Len(rs)
  <2>1. SetPerformance(rs, repo, job) = new
    BY <1>3 DEF SetPerformance
  <2>2. DOMAIN new = DOMAIN rs /\ new = [i \in 1..n |-> new[i]]
    BY <1>1
  <2> HIDE DEF v
  <2>3. ASSUME NEW i \in DOMAIN rs
        PROVE  SameEntry(rs[i], new[i]) /\ new[i].Processed = rs[i].Processed
    <3> DEFINE x == rs[i]
               y == [x EXCEPT !.EnablePerformanceTests = v]
    <3>1. new[i] = y \/ new[i] = x
      OBVIOUS
    <3>2. EntryShape(x)
      OBVIOUS
    <3> HIDE DEF x, new
    <3>3. SameEntry(x, y) /\ y.Processed = x.Processed
      BY <3>2 DEF SameEntry, EntryShape
    <3>4. SameEntry(x, x)
      BY <3>2 DEF SameEntry
    <3> HIDE DEF y
    <3>5. SameEntry(x, new[i]) /\ new[i].Processed = x.Processed
      BY <3>1, <3>3, <3>4
    <3> QED
      BY <3>5 DEF x
  <2> HIDE DEF new
  <2>4. IsList(new)
    BY <1>1, <2>2, ListIsOne DEF n
  <2> QED
    BY <2>1, <2>2, <2>3, <2>4 DEF SameEntries
<1> QED
  BY <1>2, <1>3

\* The state of the first pass.
MadeInv(c, s, m, rs) == JobsInv(c, s, m) /\ ReposInv(c, s, rs)

\* A step of it takes nothing back.
MadeMore(s, new, m, n, rs, ts) ==
    /\ PeriodicOnes(s) \subseteq PeriodicOnes(new) /\ SameDetails(m, n)
    /\ \A repo : Listed(rs, repo) => Listed(ts, repo)

\* A job of the file.
JobIn(c, repo, job) ==
    \E i \in DOMAIN c.periodics :
        c.periodics[i].repo = repo /\ \E k \in DOMAIN c.periodics[i].jobs : c.periodics[i].jobs[k] = job

LEMMA JobInFacts ==
  ASSUME NEW c, GoodFile(c), InOrder(c), NEW repo, NEW job, JobIn(c, repo, job)
  PROVE  /\ repo \in Repo /\ repo.org # <<>> /\ ~isReleased(repo.org)
         /\ job \in SensibleJob /\ TypeFirst(job)
<1>1. PICK i \in DOMAIN c.periodics : /\ c.periodics[i].repo = repo
                                      /\ \E k \in DOMAIN c.periodics[i].jobs : c.periodics[i].jobs[k] = job
  BY DEF JobIn
<1> DEFINE s == c.periodics[i]
<1>2. s \in SensibleSection /\ s.repo = repo /\ s.repo.org # <<>> /\ ~isReleased(s.repo.org)
  <2>1. c.periodics \in Seq(SensibleSection) /\ FileParts(c.presubmits, c.periodics)
    BY FilePartsAre DEF GoodFile
  <2> QED
    BY <1>1, <2>1 DEF FileParts
<1>3. PICK k \in DOMAIN s.jobs : s.jobs[k] = job
  BY <1>1
<1>4. s.jobs \in Seq(SensibleJob) /\ s.repo \in Repo
  BY <1>2 DEF SensibleSection
<1>5. job \in SensibleJob
  <2> HIDE DEF s
  <2> QED
    BY <1>3, <1>4
<1>6. job \in Jobs(c.periodics)
  BY <1>1, <1>3 DEF Jobs, ToSet
<1>7. TypeFirst(job)
  BY <1>6 DEF InOrder, TypeFirst
<1> QED
  BY <1>2, <1>4, <1>5, <1>7

LEMMA PeriodicAdds ==
  ASSUME jobNameFilter = <<>>, NEW c, GoodFile(c), InOrder(c),
         MadeInv(c, jobs, metaData, repositories), NEW repo, NEW job, JobIn(c, repo, job),
         generatePeriodic(repo, job)
  PROVE  /\ MadeInv(c, jobs', metaData', repositories')
         /\ MadeMore(jobs, jobs', metaData, metaData', repositories, repositories')
         /\ Made(jobs', repo, job)
<1> DEFINE d == Periodic(repo, job)
           name == NameOf(repo, job)
           js == PeriodicJobs(d, repo, job)
<1>1. /\ d.return \in BOOLEAN
      /\ ~d.return => Shown(d.annotations, repo)
  BY JobInFacts, SameName
<1>2. CASE d.return = TRUE
  <2>1. UNCHANGED <<repositories, output, jobs, metaData>>
    BY <1>2 DEF generatePeriodic
  <2> QED
    BY <1>2, <2>1 DEF MadeInv, MadeMore, Made, SameDetails
<1>3. CASE d.return = FALSE
  <2>1. /\ repositories' = SetPerformance(repositories, repo, job)
        /\ WriteAll("periodics", repo, js, {})
        /\ metaData' = IF Len(js) = 1 THEN metaData ELSE AddNonAlignedTest(metaData, BetaTest(js))
    BY <1>3 DEF generatePeriodic
  <2>2. PICK j, cron : /\ j.kind = "periodic" /\ j.name = name /\ j.annotations = d.annotations
                       /\ {"kind", "name", "base", "cron", "annotations"} \subseteq DOMAIN j
                       /\ js = <<j>> \/ js = <<j, BetaOf(j, cron)>>
    <3> DEFINE b == PeriodicBase(d, job)
               e == IF b.branch = "master" THEN AccountEnv(b)
                                           ELSE addEnvToJob(AccountEnv(b), "PULL_BASE_REF")
               j == Job("periodic", <<"ci">> \o RepoNameForJob(repo) \o d.suffix,
                        ConfigureAccount(e), PeriodicCron(d, b), d.annotations)
               cron == Cron({getUTCtime(1), getUTCtime(4)} \cup
                            (IF d.type = "continuous" THEN {getUTCtime(15)} ELSE {}), FALSE)
    <3>1. js = <<j>> \/ js = <<j, BetaOf(j, cron)>>
      BY DEF PeriodicJobs
    <3>2. /\ j.kind = "periodic" /\ j.name = name /\ j.annotations = d.annotations
          /\ {"kind", "name", "base", "cron", "annotations"} \subseteq DOMAIN j
      BY DEF Job, NameOf
    <3> HIDE DEF j, cron, js, name
    <3> QED
      BY <3>1, <3>2
  <2>3. JobOf(j, repo, name)
    BY <1>1, <1>3, <2>2 DEF JobOf
  <2>4. JobFrom(c, metaData, j)
    <3>1. j.annotations.dashboard = Dashboard(repo)
      BY <2>3 DEF JobOf, Shown
    <3> QED
      BY <1>3, <2>2, <3>1 DEF JobFrom, JobIn
  <2> HIDE DEF js, name, d
  <2>5. \/ js = <<j>> /\ metaData' = metaData
        \/ js = <<j, BetaOf(j, cron)>> /\ metaData' = AddNonAlignedTest(metaData, BetaTest(js))
    <3>1. Len(<<j>>) = 1 /\ Len(<<j, BetaOf(j, cron)>>) = 2
      OBVIOUS
    <3> QED
      BY <2>1, <2>2, <3>1
  <2>6. /\ JobsInv(c, jobs', metaData') /\ SameDetails(metaData, metaData')
        /\ PeriodicOnes(jobs) \subseteq PeriodicOnes(jobs') /\ j \in PeriodicOnes(jobs')
    BY <2>1, <2>3, <2>4, <2>5, WritePair DEF MadeInv
  <2>7. /\ SameEntries(repositories, repositories')
        /\ \A i \in DOMAIN repositories : repositories'[i].Processed = repositories[i].Processed
    <3>1. IsList(repositories) /\ \A i \in DOMAIN repositories : EntryShape(repositories[i])
      BY DEF MadeInv, ReposInv, EntryFrom
    <3> QED
      BY <2>1, <3>1, PerformanceKept
  <2>8. /\ ReposInv(c, jobs', repositories')
        /\ \A r : Listed(repositories, r) <=> Listed(repositories', r)
    BY <2>6, <2>7, EntriesKept DEF MadeInv
  <2>9. name \in NamesOf(jobs')
    BY <2>2, <2>6 DEF NamesOf
  <2> QED
    BY <2>6, <2>8, <2>9 DEF MadeInv, MadeMore, Made, name
<1> QED
  BY <1>1, <1>2, <1>3

LEMMA FirstOf ==
  ASSUME NEW n \in Nat, NEW S, S \subseteq 1..n, S # {}
  PROVE  \E i \in S : \A h \in S : i <= h
<1> DEFINE R == {p \in Nat \X Nat : p[1] < p[2]}
<1>1. \A x, y \in S : <<x, y>> \in R <=> x < y
  OBVIOUS
<1>2. IsFiniteSet(S)
  <2>1. IsFiniteSet(1..n)
    BY FS_Interval
  <2> QED
    BY <2>1, FS_Subset
<1>3. \A x, y, z \in S : x < y /\ y < z => x < z
  OBVIOUS
<1>4. \A x \in S : ~(x < x)
  OBVIOUS
<1> HIDE DEF R
<1>5. \A x \in S : <<x, x>> \notin R
  BY <1>1, <1>4
<1>6. \A x, y, z \in S : <<x, y>> \in R /\ <<y, z>> \in R => <<x, z>> \in R
  BY <1>1, <1>3
<1>7. PICK v \in S : \A w \in S : <<w, v>> \notin R
  BY <1>2, <1>5, <1>6, Extreme
<1>8. \A w \in S : ~(w < v)
  BY <1>1, <1>7
<1> QED
  BY <1>8

LEMMA ProcessedIs ==
  ASSUME NEW rs, IsList(rs), \A k \in DOMAIN rs : EntryShape(rs[k]), NEW i \in DOMAIN rs
  PROVE  LET new == [rs EXCEPT ![i].Processed = TRUE]
         IN  /\ SameEntries(rs, new)
             /\ \A k \in DOMAIN rs : k # i => new[k].Processed = rs[k].Processed
<1> DEFINE new == [rs EXCEPT ![i].Processed = TRUE]
           n == Len(rs)
           x == rs[i]
           y == [x EXCEPT !.Processed = TRUE]
<1>1. n \in Nat /\ DOMAIN rs = 1..n /\ rs = [k \in 1..n |-> rs[k]]
  BY ListHas
<1>2. /\ DOMAIN new = 1..n /\ new = [k \in 1..n |-> new[k]]
      /\ new[i] = y /\ \A k \in DOMAIN rs : k # i => new[k] = rs[k]
  BY <1>1
<1>3. EntryShape(x)
  OBVIOUS
<1> HIDE DEF new, x
<1>4. SameEntry(x, y)
  BY <1>3 DEF SameEntry, EntryShape
<1>5. \A k \in DOMAIN rs : SameEntry(rs[k], rs[k])
  BY DEF SameEntry
<1> HIDE DEF y
<1>6. \A k \in DOMAIN rs : SameEntry(rs[k], new[k])
  BY <1>2, <1>4, <1>5 DEF x
<1>7. IsList(new)
  BY <1>1, <1>2, ListIsOne
<1>8. SameEntries(rs, new) /\ \A k \in DOMAIN rs : k # i => new[k].Processed = rs[k].Processed
  BY <1>1, <1>2, <1>6, <1>7 DEF SameEntries
<1> QED
  BY <1>8 DEF new

LEMMA CoverageAdds ==
  ASSUME jobNameFilter = <<>>, NEW c, MadeInv(c, jobs, metaData, repositories),
         NEW repo, generateGoCoveragePeriodic(repo)
  PROVE  /\ MadeInv(c, jobs', metaData', repositories')
         /\ MadeMore(jobs, jobs', metaData, metaData', repositories, repositories')
         /\ Listed(repositories, repo) => CovMade(jobs', repo)
         /\ \A r : Listed(repositories, r) <=> Listed(repositories', r)
         /\ DOMAIN repositories' = DOMAIN repositories
         /\ \A k \in DOMAIN repositories : SameEntry(repositories[k], repositories'[k])
<1>1. /\ IsList(repositories) /\ \A i \in DOMAIN repositories : EntryShape(repositories[i])
      /\ Len(repositories) \in Nat /\ DOMAIN repositories = 1..Len(repositories)
  BY ListHas DEF MadeInv, ReposInv, EntryFrom
<1>2. CASE CoverageEntries(repo) = {}
  <2>1. UNCHANGED <<repositories, output, jobs, metaData>>
    BY <1>2 DEF generateGoCoveragePeriodic
  <2>2. ~Listed(repositories, repo)
    BY <1>2 DEF CoverageEntries, Listed
  <2>3. \A k \in DOMAIN repositories : SameEntry(repositories[k], repositories[k])
    BY <1>1 DEF SameEntry
  <2> QED
    BY <2>1, <2>2, <2>3 DEF MadeInv, MadeMore, SameDetails
<1>3. CASE CoverageEntries(repo) # {}
  <2> DEFINE P(k) == k \in CoverageEntries(repo) /\ \A h \in CoverageEntries(repo) : k <= h
             i == CHOOSE k \in CoverageEntries(repo) : \A h \in CoverageEntries(repo) : k <= h
             name == RepoNameForJob(repo) \o <<"go", "coverage">>
             b == [addMonitoringPubsubLabelsToJob(newbase(repo)) EXCEPT
                     !.command = "runner.sh", !.args = <<"coverage">>, !.account = "",
                     !.threshold = repositories[i].GoCoverageThreshold]
             a == Annotations(repo.org \o repo.name, name, {})
             j == Job("periodic", <<"ci">> \o name, b, Cron({1}, FALSE), a)
             cron == Cron({getUTCtime(0)}, FALSE)
             js == <<j, BetaOf(j, cron)>>
  <2>1. /\ repositories' = [repositories EXCEPT ![i].Processed = TRUE]
        /\ WriteAll("periodics", repo, js, {})
        /\ metaData' = AddNonAlignedTest(metaData, BetaTest(js))
    BY <1>3 DEF generateGoCoveragePeriodic
  <2>2. i \in CoverageEntries(repo)
    <3>1. \E k \in CoverageEntries(repo) : \A h \in CoverageEntries(repo) : k <= h
      <4>1. CoverageEntries(repo) \subseteq 1..Len(repositories)
        BY <1>1 DEF CoverageEntries
      <4> QED
        BY <1>1, <1>3, <4>1, FirstOf
    <3> QED
      BY <3>1, Zenon
  <2>3. "repo" \in DOMAIN b /\ b.repo = repo
    BY DEF newbase, addMonitoringPubsubLabelsToJob
  <2>4. Shown(a, repo)
    BY DEF Annotations, Shown, Dashboard
  <2> HIDE DEF i, b, a
  <2>5. /\ {"kind", "name", "base", "cron", "annotations"} \subseteq DOMAIN j
        /\ j.kind = "periodic" /\ j.name = CovName(repo) /\ j.annotations = a /\ j.base = b
    BY DEF Job, CovName
  <2> HIDE DEF j, cron
  <2>6. i \in DOMAIN repositories /\ repositories[i].repo = repo /\ repositories[i].EnableGoCoverage
    BY <2>2 DEF CoverageEntries
  <2>7. Covered(c, repo)
    BY <2>6 DEF MadeInv, ReposInv, EntryFrom
  <2>8. JobOf(j, repo, CovName(repo))
    BY <2>4, <2>5 DEF JobOf
  <2>9. JobFrom(c, metaData, j)
    BY <2>3, <2>4, <2>5, <2>7 DEF JobFrom, Shown
  <2> HIDE DEF js
  <2>10. js = <<j, BetaOf(j, cron)>>
    BY DEF js
  <2>11. /\ JobsInv(c, jobs', metaData') /\ SameDetails(metaData, metaData')
         /\ PeriodicOnes(jobs) \subseteq PeriodicOnes(jobs') /\ j \in PeriodicOnes(jobs')
    BY <2>1, <2>8, <2>9, <2>10, WritePair DEF MadeInv
  <2>12. CovMade(jobs', repo)
    BY <2>3, <2>5, <2>11 DEF CovMade
  <2>13. /\ SameEntries(repositories, repositories')
         /\ \A k \in DOMAIN repositories : k # i => repositories'[k].Processed = repositories[k].Processed
    BY <1>1, <2>1, <2>6, ProcessedIs
  <2>14. \A k \in DOMAIN repositories : repositories'[k].Processed =>
            repositories[k].Processed \/ CovMade(jobs', repositories[k].repo)
    BY <2>6, <2>12, <2>13
  <2>15. /\ ReposInv(c, jobs', repositories')
         /\ \A r : Listed(repositories, r) <=> Listed(repositories', r)
    <3>1. ReposInv(c, jobs, repositories)
      BY DEF MadeInv
    <3>2. \A k \in DOMAIN repositories : repositories'[k].Processed =>
             repositories[k].Processed \/ CovMade(jobs', repositories[k].repo)
      BY <2>14
    <3> QED
      BY <2>11, <2>13, <3>1, <3>2, EntriesKept
  <2>16. DOMAIN repositories' = DOMAIN repositories
         /\ \A k \in DOMAIN repositories : SameEntry(repositories[k], repositories'[k])
    BY <2>13 DEF SameEntries
  <2> QED
    BY <2>11, <2>12, <2>15, <2>16 DEF MadeInv, MadeMore
<1> QED
  BY <1>2, <1>3

LEMMA PresubmitBooleans ==
  ASSUME NEW repo, NEW job \in Seq(Entry)
  PROVE  Presubmit(repo, job).return \in BOOLEAN /\ Presubmit(repo, job).coverage \in BOOLEAN
<1> DEFINE n == Len(job)
           d0 == PresubmitStart(repo)
<1>1. PICK x : /\ x[0] = d0 /\ \A k \in 1..n : x[k] = PresubmitEntry(x[k - 1], job[k])
               /\ Presubmit(repo, job) = x[n]
  <2>1. \E x : /\ x[0] = PresubmitStart(repo)
               /\ \A k \in 1..Len(job) : x[k] = PresubmitEntry(x[k - 1], job[k])
               /\ Presubmit(repo, job) = x[Len(job)]
    BY PresubmitRounds, Zenon
  <2> QED
    BY <2>1, Zenon DEF n
<1>2. n \in Nat /\ DOMAIN job = 1..n /\ \A i \in 1..n : job[i] \in Entry
  OBVIOUS
<1>3. PresubmitShape(d0) /\ d0.return = FALSE /\ d0.coverage = FALSE
  BY DEF PresubmitShape, PresubmitStart
<1> HIDE DEF d0, n
<1> DEFINE P(d) == PresubmitShape(d) /\ d.return \in BOOLEAN /\ d.coverage \in BOOLEAN
           T == {k \in 0..n : P(x[k])}
<1>4. P(d0)
  BY <1>3
<1>5. ASSUME NEW d, NEW e \in Entry, P(d)
      PROVE  P(PresubmitEntry(d, e))
  <2> DEFINE f == PresubmitEntry(d, e)
             off == e.key \in PresubmitTypes /\ ~e.on
  <2>1. CASE d.return = TRUE
    <3>1. f = d
      BY <1>5, <2>1, PresubmitMeans
    <3> QED
      BY <1>5, <3>1
  <2>2. CASE d.return = FALSE
    <3>1. /\ PresubmitShape(f) /\ f.return = off
          /\ e.key # "go-coverage" => f.coverage = d.coverage
          /\ e.key = "go-coverage" => f.coverage = TRUE
      BY <1>5, <2>2, PresubmitMeans
    <3>2. off \in BOOLEAN
      OBVIOUS
    <3> HIDE DEF f, off
    <3>3. f.return \in BOOLEAN
      BY <3>1, <3>2
    <3>4. f.coverage \in BOOLEAN
      BY <1>5, <3>1
    <3> QED
      BY <3>1, <3>3, <3>4 DEF f
  <2> QED
    BY <1>5, <2>1, <2>2
<1> HIDE DEF P
<1>6. 0 \in T
  BY <1>1, <1>2, <1>4
<1>7. ASSUME NEW k \in 1..n, k - 1 \in T
      PROVE  k \in T
  <2>1. P(x[k - 1]) /\ job[k] \in Entry /\ x[k] = PresubmitEntry(x[k - 1], job[k])
    BY <1>1, <1>2, <1>7
  <2>2. P(x[k])
    BY <1>5, <2>1
  <2> QED
    BY <1>2, <2>2
<1>8. n \in T
  <2> HIDE DEF T
  <2> QED
    BY <1>2, <1>6, <1>7, AllRounds
<1> QED
  BY <1>1, <1>8 DEF P

\* A presubmit job of the file.
PresubmitIn(c, repo, job) ==
    \E i \in DOMAIN c.presubmits :
        c.presubmits[i].repo = repo /\ \E k \in DOMAIN c.presubmits[i].jobs : c.presubmits[i].jobs[k] = job

LEMMA PresubmitOf ==
  ASSUME NEW c, GoodFile(c), NEW repo, NEW job, PresubmitIn(c, repo, job)
  PROVE  job \in Seq(Entry) /\ (Covers(repo, job) => Covered(c, repo))
<1>1. PICK i \in DOMAIN c.presubmits : /\ c.presubmits[i].repo = repo
                                       /\ \E k \in DOMAIN c.presubmits[i].jobs : c.presubmits[i].jobs[k] = job
  BY DEF PresubmitIn
<1>2. c.presubmits[i].jobs \in Seq(Seq(Entry))
  <2>1. c.presubmits \in Seq(Section)
    BY DEF GoodFile
  <2>2. c.presubmits[i] \in Section
    BY <2>1
  <2> QED
    BY <2>2 DEF Section
<1>3. job \in Seq(Entry)
  BY <1>1, <1>2
<1> QED
  BY <1>1, <1>3 DEF Covered

\* Jobs that are not periodic.
OtherJobs(js) == \E R : js \in Seq(R) /\ \A j \in R : j.kind # "periodic"

LEMMA PresubmitsOther ==
  ASSUME NEW d, NEW repo, NEW job
  PROVE  OtherJobs(PresubmitJobs(d, repo, job))
<1> DEFINE b == parseBasicJobConfigOverrides(d.base, job, PresubmitKeys)
           e == AccountEnv(b)
           c == IF b.needsMonitor THEN addMonitoringPubsubLabelsToJob(e) ELSE e
           j == Job("presubmit", <<"pull">> \o (RepoNameForJob(repo) \o d.suffix),
                    ConfigureAccount(c), NoCron, NoAnnotations)
           dev == [j EXCEPT !.name = Append(@, "dev"), !.base.alwaysRun = FALSE,
                            !.base.image = "coverage-dev"]
<1>1. PresubmitJobs(d, repo, job) \in {<<j>>, <<j, dev>>}
  BY DEF PresubmitJobs
<1>2. j.kind = "presubmit" /\ "kind" \in DOMAIN j
  BY DEF Job
<1>3. dev.kind = "presubmit"
  <2> HIDE DEF j
  <2> QED
    BY <1>2
<1> HIDE DEF j, dev
<1>4. <<j>> \in Seq({j, dev}) /\ <<j, dev>> \in Seq({j, dev})
  OBVIOUS
<1>5. \A x \in {j, dev} : x.kind # "periodic"
  BY <1>2, <1>3
<1>6. PresubmitJobs(d, repo, job) \in Seq({j, dev})
  BY <1>1, <1>4
<1> QED
  BY <1>5, <1>6 DEF OtherJobs

LEMMA OtherWritten ==
  ASSUME jobNameFilter = <<>>, NEW c, NEW m, JobsInv(c, jobs, m),
         NEW title, NEW repo, NEW js, OtherJobs(js), NEW grouped, WriteAll(title, repo, js, grouped)
  PROVE  PeriodicOnes(jobs') = PeriodicOnes(jobs) /\ JobsInv(c, jobs', m)
<1>1. PICK R : js \in Seq(R) /\ \A j \in R : j.kind # "periodic"
  BY DEF OtherJobs
<1>2. \A j \in ToSet(js) : j.kind # "periodic"
  <2>1. \A j \in ToSet(js) : j \in R
    BY <1>1 DEF ToSet
  <2> QED
    BY <1>1, <2>1
<1>3. IsList(jobs') /\ PeriodicOnes(jobs') = PeriodicOnes(jobs)
  <2>1. {j \in ToSet(js) : j.kind = "periodic"} = {}
    BY <1>2
  <2> QED
    BY <1>1, <2>1, WriteMore DEF JobsInv
<1>4. NamesOf(jobs') = NamesOf(jobs)
  BY <1>3 DEF NamesOf
<1> QED
  BY <1>3, <1>4 DEF JobsInv

\* One entry more.
LEMMA OneEntryMore ==
  ASSUME NEW c, NEW s, NEW rs, ReposInv(c, s, rs), NEW x, EntryFrom(c, s, x)
  PROVE  /\ ReposInv(c, s, Append(rs, x))
         /\ \A repo : Listed(rs, repo) => Listed(Append(rs, x), repo)
         /\ x.EnableGoCoverage => Listed(Append(rs, x), x.repo)
<1>1. PICK S : rs \in Seq(S)
  BY DEF ReposInv, IsList
<1> DEFINE U == S \cup {x}
           new == Append(rs, x)
           n == Len(rs)
<1>2. rs \in Seq(U)
  <2>1. S \subseteq U
    OBVIOUS
  <2> HIDE DEF U
  <2> QED
    BY <1>1, <2>1, SeqWider
<1>3. x \in U
  OBVIOUS
<1> HIDE DEF U
<1>4. /\ new \in Seq(U) /\ n \in Nat /\ DOMAIN rs = 1..n /\ DOMAIN new = 1..(n + 1)
      /\ new[n + 1] = x /\ \A i \in 1..n : new[i] = rs[i]
  BY <1>2, <1>3
<1>5. 1..(n + 1) = (1..n) \cup {n + 1}
  BY <1>4
<1> HIDE DEF new, n
<1>6. \A i \in DOMAIN new : EntryFrom(c, s, new[i])
  BY <1>4, <1>5 DEF ReposInv
<1>7. IsList(new)
  BY <1>4 DEF IsList
<1>8. /\ \A repo : Listed(rs, repo) => Listed(new, repo)
      /\ x.EnableGoCoverage => Listed(new, x.repo)
  BY <1>4, <1>5 DEF Listed
<1> QED
  BY <1>6, <1>7, <1>8 DEF ReposInv, new

LEMMA PresubmitAdds ==
  ASSUME jobNameFilter = <<>>, NEW c, GoodFile(c), NEW m, MadeInv(c, jobs, m, repositories),
         NEW repo, NEW job, PresubmitIn(c, repo, job), generatePresubmit(repo, job)
  PROVE  /\ MadeInv(c, jobs', m, repositories')
         /\ MadeMore(jobs, jobs', m, m, repositories, repositories')
         /\ Covers(repo, job) => Listed(repositories', repo)
<1> DEFINE d == Presubmit(repo, job)
           js == PresubmitJobs(d, repo, job)
           data == repositoryData(repo, d.coverage, d.base.threshold)
           more == Append(repositories, data)
<1>1. /\ d.return \in BOOLEAN /\ d.coverage \in BOOLEAN
      /\ Covers(repo, job) <=> d.return = FALSE /\ d.coverage = TRUE
      /\ Covers(repo, job) => Covered(c, repo)
  BY PresubmitOf, PresubmitBooleans DEF Covers
<1>2. CASE d.return = TRUE
  <2>1. UNCHANGED <<repositories, output, jobs>>
    BY <1>2 DEF generatePresubmit
  <2> QED
    BY <1>1, <1>2, <2>1 DEF MadeInv, MadeMore, SameDetails
<1>3. CASE d.return = FALSE
  <2>1. /\ repositories' = SetPerformance(more, repo, job)
        /\ WriteAll("presubmits", repo, js, DOMAIN js) \/ UNCHANGED <<output, jobs>>
    BY <1>3 DEF generatePresubmit
  <2>2. /\ EntryShape(data) /\ data.repo = repo /\ data.EnableGoCoverage = d.coverage
        /\ data.Processed = FALSE
    BY <1>1 DEF repositoryData, EntryShape
  <2>3. OtherJobs(js)
    BY PresubmitsOther
  <2> HIDE DEF js, data, d
  <2>4. PeriodicOnes(jobs') = PeriodicOnes(jobs) /\ JobsInv(c, jobs', m)
    BY <2>1, <2>3, OtherWritten DEF MadeInv
  <2>5. EntryFrom(c, jobs, data)
    BY <1>1, <1>3, <2>2 DEF EntryFrom
  <2>6. /\ ReposInv(c, jobs, more)
        /\ \A r : Listed(repositories, r) => Listed(more, r)
        /\ data.EnableGoCoverage => Listed(more, repo)
    BY <2>2, <2>5, OneEntryMore DEF MadeInv
  <2> HIDE DEF more
  <2>7. /\ SameEntries(more, repositories')
        /\ \A i \in DOMAIN more : repositories'[i].Processed = more[i].Processed
    <3>1. IsList(more) /\ \A i \in DOMAIN more : EntryShape(more[i])
      BY <2>6 DEF ReposInv, EntryFrom
    <3> QED
      BY <2>1, <3>1, PerformanceKept
  <2>8. /\ ReposInv(c, jobs', repositories')
        /\ \A r : Listed(more, r) <=> Listed(repositories', r)
    BY <2>4, <2>6, <2>7, EntriesKept
  <2> QED
    BY <1>1, <2>2, <2>4, <2>6, <2>8 DEF MadeInv, MadeMore, SameDetails
<1> QED
  BY <1>1, <1>2, <1>3

LEMMA OtherIs ==
  ASSUME NEW R, \A j \in R : j.kind # "periodic", NEW js \in Seq(R)
  PROVE  OtherJobs(js)
  BY DEF OtherJobs

LEMMA PerfOther ==
  ASSUME jobNameFilter = <<>>, NEW c, NEW m, JobsInv(c, jobs, m),
         NEW repo, generatePerfClusterUpdatePeriodicJobs(repo)
  PROVE  PeriodicOnes(jobs') = PeriodicOnes(jobs) /\ JobsInv(c, jobs', m)
<1> DEFINE i == perfClusterPeriodicJob(repo, <<"recreate", "clusters">>, Cron({7}, FALSE))
           j == perfClusterPeriodicJob(repo, <<"update", "clusters">>, Cron(0..23, FALSE))
<1>1. WriteAll("periodics", repo, <<i, j>>, {})
  BY DEF generatePerfClusterUpdatePeriodicJobs
<1>2. i.kind = "perf" /\ j.kind = "perf"
  BY DEF perfClusterPeriodicJob, Job
<1> HIDE DEF i, j
<1>3. OtherJobs(<<i, j>>)
  <2>1. <<i, j>> \in Seq({i, j}) /\ \A x \in {i, j} : x.kind # "periodic"
    BY <1>2
  <2> QED
    BY <2>1, OtherIs
<1> QED
  BY <1>1, <1>3, OtherWritten

LEMMA OtherMore ==
  ASSUME NEW js, OtherJobs(js), NEW ks, OtherJobs(ks)
  PROVE  OtherJobs(js \o ks)
<1>1. PICK R : js \in Seq(R) /\ \A j \in R : j.kind # "periodic"
  BY DEF OtherJobs
<1>2. PICK S : ks \in Seq(S) /\ \A j \in S : j.kind # "periodic"
  BY DEF OtherJobs
<1> DEFINE U == R \cup S
<1>3. /\ R \subseteq U /\ S \subseteq U /\ \A j \in U : j.kind # "periodic"
  BY <1>1, <1>2
<1> HIDE DEF U
<1>4. js \in Seq(U) /\ ks \in Seq(U)
  BY <1>1, <1>2, <1>3, SeqWider
<1>5. js \o ks \in Seq(U)
  BY <1>4
<1> QED
  BY <1>3, <1>5 DEF OtherJobs

LEMMA PostsubmitOther ==
  ASSUME jobNameFilter = <<>>, NEW c, NEW m, JobsInv(c, jobs, m),
         NEW data, generatePostsubmits(data)
  PROVE  PeriodicOnes(jobs') = PeriodicOnes(jobs) /\ JobsInv(c, jobs', m)
<1> DEFINE cs == IF data.EnableGoCoverage THEN GoCoveragePostsubmits(data.repo) ELSE <<>>
           ps == IF data.EnablePerformanceTests THEN PerfPostsubmits(data.repo) ELSE <<>>
           repo == data.repo
<1>1. OtherJobs(<<>>)
  <2> DEFINE none == {}
  <2>1. <<>> \in Seq(none) /\ \A j \in none : j.kind # "periodic"
    OBVIOUS
  <2> HIDE DEF none
  <2> QED
    BY <2>1, OtherIs
<1>2. OtherJobs(GoCoveragePostsubmits(repo))
  <2> DEFINE name == <<"post">> \o RepoNameForJob(repo) \o <<"go", "coverage">>
             j == Job("postsubmit", name, ConfigureAccount(newbase(repo)), NoCron, NoAnnotations)
             dev == [j EXCEPT !.name = Append(@, "dev"), !.base.image = "coverage-dev"]
  <2> HIDE DEF repo
  <2>1. GoCoveragePostsubmits(repo) \in {<<j>>, <<j, dev>>}
    BY DEF GoCoveragePostsubmits
  <2>2. j.kind = "postsubmit" /\ "kind" \in DOMAIN j
    BY DEF Job
  <2>3. dev.kind = "postsubmit"
    <3> HIDE DEF j
    <3> QED
      BY <2>2
  <2> HIDE DEF j, dev
  <2>4. \A x \in {j, dev} : x.kind # "periodic"
    BY <2>2, <2>3
  <2>5. <<j>> \in Seq({j, dev}) /\ <<j, dev>> \in Seq({j, dev})
    OBVIOUS
  <2>6. GoCoveragePostsubmits(repo) \in Seq({j, dev})
    BY <2>1, <2>5
  <2> QED
    BY <2>4, <2>6 DEF OtherJobs
<1>3. OtherJobs(PerfPostsubmits(repo))
  <2> DEFINE name == <<"post">> \o RepoNameForJob(repo) \o <<"reconcile", "clusters">>
             j == Job("postsubmit", name, perfClusterBaseProwJob(repo), NoCron, NoAnnotations)
  <2> HIDE DEF repo
  <2>1. PerfPostsubmits(repo) = <<j>> /\ j.kind # "periodic"
    BY DEF PerfPostsubmits, Job
  <2> HIDE DEF j
  <2>2. PerfPostsubmits(repo) \in Seq({j}) /\ \A x \in {j} : x.kind # "periodic"
    BY <2>1
  <2> QED
    BY <2>2 DEF OtherJobs
<1>4. OtherJobs(cs) /\ OtherJobs(ps)
  BY <1>1, <1>2, <1>3
<1> DEFINE js == cs \o ps
           grouped == {i \in DOMAIN js : i # 2 \/ Len(cs) # 2}
<1>5. WriteAll("postsubmits", repo, js, grouped)
  BY DEF generatePostsubmits
<1> HIDE DEF cs, ps
<1>6. OtherJobs(js)
  BY <1>4, OtherMore
<1> HIDE DEF js, grouped
<1> QED
  BY <1>5, <1>6, OtherWritten

-----------------------------------------------------------------------------
(* The calls.                                                              *)

LEMMA ConcatHas ==
  ASSUME NEW S, NEW s \in Seq(S), NEW t \in Seq(S)
  PROVE  s \o t \in Seq(S) /\ ToSet(s \o t) = ToSet(s) \cup ToSet(t)
<1> DEFINE m == Len(s)
           n == Len(t)
           u == s \o t
<1>1. /\ u \in Seq(S) /\ m \in Nat /\ n \in Nat
      /\ DOMAIN s = 1..m /\ DOMAIN t = 1..n /\ DOMAIN u = 1..(m + n)
      /\ \A i \in 1..(m + n) : u[i] = IF i <= m THEN s[i] ELSE t[i - m]
  OBVIOUS
<1> HIDE DEF m, n, u
<1>2. \A i \in 1..m : i \in 1..(m + n) /\ i <= m
  BY <1>1
<1>3. \A i \in 1..n : i + m \in 1..(m + n) /\ ~(i + m <= m) /\ (i + m) - m = i
  BY <1>1
<1>4. \A i \in 1..(m + n) : i <= m => i \in 1..m
  BY <1>1
<1>5. \A i \in 1..(m + n) : ~(i <= m) => i - m \in 1..n
  BY <1>1
<1>6. ASSUME NEW x \in ToSet(u)
      PROVE  x \in ToSet(s) \cup ToSet(t)
  BY <1>1, <1>4, <1>5 DEF ToSet
<1>7. \A i \in 1..n : u[i + m] = t[i]
  BY <1>1, <1>3
<1>8. ASSUME NEW x \in ToSet(s) \cup ToSet(t)
      PROVE  x \in ToSet(u)
  <2>1. CASE x \in ToSet(s)
    <3>1. PICK i \in 1..m : x = s[i]
      BY <1>1, <2>1 DEF ToSet
    <3>2. i \in DOMAIN u /\ u[i] = x
      BY <1>1, <1>2, <3>1
    <3> QED
      BY <3>2 DEF ToSet
  <2>2. CASE x \in ToSet(t)
    <3>1. PICK i \in 1..n : x = t[i]
      BY <1>1, <2>2 DEF ToSet
    <3>2. i + m \in DOMAIN u /\ u[i + m] = x
      BY <1>1, <1>3, <1>7, <3>1
    <3> QED
      BY <3>2 DEF ToSet
  <2> QED
    BY <2>1, <2>2
<1> QED
  BY <1>1, <1>6, <1>8 DEF u

LEMMA FlattenHas ==
  ASSUME NEW S, NEW ss \in Seq(Seq(S))
  PROVE  /\ FlattenSeq(ss) \in Seq(S)
         /\ \A x : x \in ToSet(FlattenSeq(ss)) <=> \E i \in DOMAIN ss : x \in ToSet(ss[i])
<1> DEFINE s == FlattenSeq(ss)
           n == Len(ss)
<1>1. s \in Seq(S)
  BY FlattenType
<1>2. PICK a, b : Origin(ss, s, n, a, b)
  BY FlattenOrigin
<1>3. DOMAIN ss = 1..n /\ \A i \in 1..n : ss[i] \in Seq(S) /\ DOMAIN ss[i] = 1..Len(ss[i])
  OBVIOUS
<1> HIDE DEF s, n
<1>4. ASSUME NEW x \in ToSet(s)
      PROVE  \E i \in DOMAIN ss : x \in ToSet(ss[i])
  <2>1. PICK p \in 1..Len(s) : x = s[p]
    BY <1>2 DEF ToSet, Origin
  <2>2. a[p] \in 1..n /\ b[p] \in 1..Len(ss[a[p]]) /\ x = ss[a[p]][b[p]]
    BY <1>2, <2>1 DEF Origin
  <2>3. x \in ToSet(ss[a[p]])
    BY <1>3, <2>2 DEF ToSet
  <2> QED
    BY <1>3, <2>2, <2>3
<1>5. ASSUME NEW i \in DOMAIN ss, NEW x \in ToSet(ss[i])
      PROVE  x \in ToSet(s)
  <2>1. PICK k \in 1..Len(ss[i]) : x = ss[i][k]
    BY <1>3 DEF ToSet
  <2>2. PICK p \in 1..Len(s) : a[p] = i /\ b[p] = k
    BY <1>2, <1>3, <2>1 DEF Origin
  <2>3. s[p] = x /\ p \in DOMAIN s
    BY <1>2, <2>1, <2>2 DEF Origin
  <2> QED
    BY <2>3 DEF ToSet
<1> QED
  BY <1>1, <1>4, <1>5 DEF s

JobCall(repo, job) == [call |-> "job", repo |-> repo, job |-> job]

CovCall(repo) == [call |-> "coverage", repo |-> repo, job |-> <<>>]

LEMMA CallsAre ==
  ASSUME NEW section, IsList(section), \A i \in DOMAIN section : IsList(section[i].jobs),
         NEW finalize \in BOOLEAN
  PROVE  LET calls == Calls(section, finalize)
         IN  /\ IsList(calls)
             /\ \A x \in ToSet(calls) : \E i \in DOMAIN section :
                  \/ x = CovCall(section[i].repo) /\ finalize
                  \/ \E k \in DOMAIN section[i].jobs : x = JobCall(section[i].repo, section[i].jobs[k])
             /\ \A i \in DOMAIN section : \A k \in DOMAIN section[i].jobs :
                  JobCall(section[i].repo, section[i].jobs[k]) \in ToSet(calls)
<1> DEFINE repo(i) == section[i].repo
           js(i) == section[i].jobs
           own(i) == {JobCall(repo(i), js(i)[k]) : k \in DOMAIN js(i)}
           S == (UNION {own(i) : i \in DOMAIN section}) \cup {CovCall(repo(i)) : i \in DOMAIN section}
           list(i) == [k \in DOMAIN js(i) |->
                         [call |-> "job", repo |-> repo(i), job |-> js(i)[k]]]
           last(i) == IF finalize THEN <<[call |-> "coverage", repo |-> repo(i), job |-> <<>>]>> ELSE <<>>
           ss == [i \in DOMAIN section |-> list(i) \o last(i)]
<1>1. Calls(section, finalize) = FlattenSeq(ss)
  BY DEF Calls
<1>2. ASSUME NEW i \in DOMAIN section
      PROVE  /\ list(i) \o last(i) \in Seq(S)
             /\ ToSet(list(i) \o last(i)) = own(i) \cup (IF finalize THEN {CovCall(repo(i))} ELSE {})
  <2> DEFINE n == Len(js(i))
             r == repo(i)
             s == js(i)
             a == [k \in DOMAIN s |-> JobCall(r, s[k])]
             b == IF finalize THEN <<CovCall(r)>> ELSE <<>>
  <2>1. a = list(i) /\ b = last(i)
    BY DEF JobCall, CovCall
  <2>2. own(i) \subseteq S /\ CovCall(r) \in S /\ own(i) = {a[k] : k \in DOMAIN a}
    OBVIOUS
  <2>3. n \in Nat /\ DOMAIN s = 1..n
    BY ListHas
  <2>4. a = [k \in 1..n |-> a[k]] /\ \A k \in 1..n : a[k] \in own(i)
    BY <2>3
  <2> HIDE DEF S, r, own
  <2>5. a \in Seq(S) /\ ToSet(a) = own(i)
    <3>1. \A k \in 1..n : a[k] \in S
      BY <2>2, <2>4
    <3>2. ToSet(a) = {a[k] : k \in DOMAIN a}
      BY DEF ToSet
    <3> HIDE DEF a, n
    <3> QED
      BY <2>2, <2>3, <2>4, <3>1, <3>2, ListIs
  <2>6. b \in Seq(S) /\ ToSet(b) = IF finalize THEN {CovCall(r)} ELSE {}
    <3>1. <<CovCall(r)>> \in Seq(S) /\ <<>> \in Seq(S)
      BY <2>2
    <3>2. ToSet(<<CovCall(r)>>) = {CovCall(r)} /\ ToSet(<<>>) = {}
      BY DEF ToSet
    <3> QED
      BY <3>1, <3>2
  <2> HIDE DEF a, b
  <2>7. a \o b \in Seq(S) /\ ToSet(a \o b) = ToSet(a) \cup ToSet(b)
    BY <2>5, <2>6, ConcatHas
  <2> QED
    BY <2>1, <2>5, <2>6, <2>7, Zenon DEF r
<1>3. /\ DOMAIN ss = DOMAIN section
      /\ \A i \in DOMAIN section : ss[i] \in Seq(S)
            /\ ToSet(ss[i]) = own(i) \cup (IF finalize THEN {CovCall(repo(i))} ELSE {})
  BY <1>2, Zenon
<1>4. Len(section) \in Nat /\ DOMAIN section = 1..Len(section) /\ ss = [i \in 1..Len(section) |-> ss[i]]
  BY ListHas
<1> HIDE DEF ss, S
<1>5. ss \in Seq(Seq(S))
  BY <1>3, <1>4, ListIs
<1>6. /\ FlattenSeq(ss) \in Seq(S)
      /\ \A x : x \in ToSet(FlattenSeq(ss)) <=> \E i \in DOMAIN ss : x \in ToSet(ss[i])
  BY <1>5, FlattenHas
<1> DEFINE calls == Calls(section, finalize)
<1>7. IsList(calls)
  BY <1>1, <1>6 DEF IsList
<1>8. \A x : x \in ToSet(calls) <=> \E i \in DOMAIN section : x \in ToSet(ss[i])
  BY <1>1, <1>3, <1>6
<1> HIDE DEF calls
<1>9. ASSUME NEW x \in ToSet(calls)
      PROVE  \E i \in DOMAIN section :
                  \/ x = CovCall(section[i].repo) /\ finalize
                  \/ \E k \in DOMAIN section[i].jobs : x = JobCall(section[i].repo, section[i].jobs[k])
  <2>1. PICK i \in DOMAIN section : x \in own(i) \cup (IF finalize THEN {CovCall(repo(i))} ELSE {})
    BY <1>3, <1>8
  <2> QED
    BY <2>1
<1>10. ASSUME NEW i \in DOMAIN section, NEW k \in DOMAIN section[i].jobs
       PROVE  JobCall(section[i].repo, section[i].jobs[k]) \in ToSet(calls)
  <2>1. JobCall(section[i].repo, section[i].jobs[k]) \in own(i)
    OBVIOUS
  <2> HIDE DEF own
  <2> QED
    BY <1>3, <1>8, <2>1
<1> QED
  BY <1>7, <1>9, <1>10 DEF calls

LEMMA EntriesAre ==
  ASSUME IsList(repositories), NEW call, NEW wanted
  PROVE  /\ IsList(Entries(call, wanted))
         /\ \A i \in DOMAIN repositories : i \in wanted =>
              \E x \in ToSet(Entries(call, wanted)) : x.repo = repositories[i].repo
<1> DEFINE entry(i) == [call |-> call, repo |-> repositories[i].repo, i |-> i]
           S == {entry(i) : i \in DOMAIN repositories}
           one(i) == IF i \in wanted THEN <<entry(i)>> ELSE <<>>
           ss == [i \in DOMAIN repositories |-> one(i)]
<1>1. Len(repositories) \in Nat /\ DOMAIN repositories = 1..Len(repositories)
  BY ListHas
<1>2. Entries(call, wanted) = FlattenSeq(ss)
  BY DEF Entries
<1>3. ASSUME NEW i \in DOMAIN repositories
      PROVE  one(i) \in Seq(S) /\ (i \in wanted => entry(i) \in ToSet(one(i)))
  <2>1. entry(i) \in S
    OBVIOUS
  <2> HIDE DEF entry, S
  <2>2. entry(i) \in ToSet(<<entry(i)>>)
    BY DEF ToSet
  <2> QED
    BY <2>1, <2>2
<1>4. /\ DOMAIN ss = DOMAIN repositories /\ ss = [i \in 1..Len(repositories) |-> ss[i]]
      /\ \A i \in DOMAIN repositories : ss[i] \in Seq(S) /\ (i \in wanted => entry(i) \in ToSet(ss[i]))
  <2> HIDE DEF one, entry, S
  <2> QED
    BY <1>1, <1>3
<1> HIDE DEF ss, S
<1>5. ss \in Seq(Seq(S))
  BY <1>1, <1>4, ListIs
<1>6. /\ FlattenSeq(ss) \in Seq(S)
      /\ \A x : x \in ToSet(FlattenSeq(ss)) <=> \E i \in DOMAIN ss : x \in ToSet(ss[i])
  BY <1>5, FlattenHas
<1>7. \A i \in DOMAIN repositories : i \in wanted =>
         entry(i) \in ToSet(Entries(call, wanted)) /\ entry(i).repo = repositories[i].repo
  BY <1>2, <1>4, <1>6
<1>8. IsList(Entries(call, wanted))
  BY <1>2, <1>6 DEF IsList
<1> QED
  BY <1>7, <1>8

-----------------------------------------------------------------------------
(* The metadata.                                                           *)

Item(x) == {"proj", "repo", "jobs"} \subseteq DOMAIN x /\ IsList(x.jobs)

Detailed(m) ==
    /\ MetaShape(m) /\ IsList(m.md) /\ IsList(m.projNames) /\ IsList(m.repoNames)
    /\ \A x \in ToSet(m.md) : Item(x)

\* The job j of the repository r in the project p is in the metadata.
HasDetail(m, p, r, j) == \E x \in ToSet(m.md) : x.proj = p /\ x.repo = r /\ j \in ToSet(x.jobs)

HasItem(m, p, r) == \E x \in ToSet(m.md) : x.proj = p /\ x.repo = r

\* All of it is seen by the passes over the projects and the repositories.
Aligns(m) == \A p, r : HasItem(m, p, r) => p \in ToSet(m.projNames) /\ r \in ToSet(m.repoNames)

\* Two states of the metadata that differ in the jobs.
SameLists(m, n) == n.projNames = m.projNames /\ n.repoNames = m.repoNames
                   /\ n.nonAligned = m.nonAligned /\ n.coverage = m.coverage

LEMMA AppendList ==
  ASSUME NEW s, IsList(s), NEW e
  PROVE  IsList(Append(s, e)) /\ ToSet(Append(s, e)) = ToSet(s) \cup {e}
<1>1. PICK S : s \in Seq(S)
  BY DEF IsList
<1> DEFINE U == S \cup {e}
<1>2. S \subseteq U /\ e \in U
  OBVIOUS
<1> HIDE DEF U
<1>3. s \in Seq(U)
  BY <1>1, <1>2, SeqWider
<1>4. Append(s, e) \in Seq(U) /\ ToSet(Append(s, e)) = ToSet(s) \cup {e}
  BY <1>2, <1>3, AppendAdds
<1> QED
  BY <1>4 DEF IsList

LEMMA ListContains ==
  ASSUME NEW s, IsList(s), NEW e
  PROVE  Contains(s, e) <=> e \in ToSet(s)
<1>1. DOMAIN s = 1..Len(s)
  BY ListHas
<1> QED
  BY <1>1 DEF Contains, ToSet

LEMMA ShapeIs == \A m, n : DOMAIN n = DOMAIN m /\ n.nonAligned = m.nonAligned =>
                             (MetaShape(m) => MetaShape(n))
  BY DEF MetaShape

LEMMA EnsureMeans ==
  ASSUME NEW m, Detailed(m), NEW p, NEW r
  PROVE  LET n == EnsureExists(m, p, r)
         IN  /\ Detailed(n) /\ SameLists(m, n) /\ HasItem(n, p, r)
             /\ \A a, b : HasItem(n, a, b) => HasItem(m, a, b) \/ (a = p /\ b = r)
             /\ \A a, b, j : HasDetail(n, a, b, j) <=> HasDetail(m, a, b, j)
<1> DEFINE n == EnsureExists(m, p, r)
           x == [proj |-> p, repo |-> r, jobs |-> <<>>]
<1>1. CASE HasItem(m, p, r)
  <2>1. n = m
    BY <1>1 DEF EnsureExists, HasItem
  <2> HIDE DEF n
  <2>2. SameLists(m, n)
    BY <2>1 DEF SameLists
  <2>3. HasItem(n, p, r)
    BY <1>1, <2>1
  <2> QED
    BY <2>1, <2>2, <2>3 DEF n
<1>2. CASE ~HasItem(m, p, r)
  <2>1. n = [m EXCEPT !.md = Append(@, x)]
    BY <1>2 DEF EnsureExists, HasItem
  <2>2. DOMAIN n = DOMAIN m /\ n.md = Append(m.md, x) /\ SameLists(m, n)
    BY <2>1 DEF Detailed, MetaShape, SameLists
  <2>3. Item(x) /\ x.proj = p /\ x.repo = r /\ ToSet(x.jobs) = {}
    <3>1. IsList(<<>>) /\ ToSet(<<>>) = {}
      <4>1. <<>> \in Seq(STRING) /\ DOMAIN <<>> = {}
        OBVIOUS
      <4> QED
        BY <4>1 DEF IsList, ToSet
    <3> QED
      BY <3>1 DEF Item
  <2> HIDE DEF n, x
  <2>4. IsList(n.md) /\ ToSet(n.md) = ToSet(m.md) \cup {x}
    BY <2>2, AppendList DEF Detailed
  <2>5. MetaShape(n)
    BY <2>2, ShapeIs DEF SameLists, Detailed
  <2>6. Detailed(n)
    BY <2>2, <2>3, <2>4, <2>5 DEF SameLists, Detailed
  <2>7. HasItem(n, p, r) /\ \A a, b : HasItem(n, a, b) => HasItem(m, a, b) \/ (a = p /\ b = r)
    BY <2>3, <2>4 DEF HasItem
  <2>8. \A a, b, j : HasDetail(n, a, b, j) <=> HasDetail(m, a, b, j)
    BY <2>3, <2>4 DEF HasDetail
  <2> QED
    BY <2>2, <2>6, <2>7, <2>8 DEF n
<1> QED
  BY <1>1, <1>2

LEMMA AddMeans ==
  ASSUME NEW m, Detailed(m), NEW p, NEW r, NEW job
  PROVE  LET n == Add(m, p, r, job)
         IN  /\ Detailed(n) /\ SameLists(m, n)
             /\ \A a, b : HasItem(n, a, b) => HasItem(m, a, b) \/ (a = p /\ b = r)
             /\ \A a, b, j : HasDetail(n, a, b, j) <=>
                  HasDetail(m, a, b, j) \/ (a = p /\ b = r /\ j = job)
<1> DEFINE e == EnsureExists(m, p, r)
           added(x) == IF x.proj = p /\ x.repo = r THEN [x EXCEPT !.jobs = Append(@, job)] ELSE x
           md == [i \in DOMAIN e.md |-> added(e.md[i])]
           n == Add(m, p, r, job)
<1>1. /\ Detailed(e) /\ SameLists(m, e) /\ HasItem(e, p, r)
      /\ \A a, b : HasItem(e, a, b) => HasItem(m, a, b) \/ (a = p /\ b = r)
      /\ \A a, b, j : HasDetail(e, a, b, j) <=> HasDetail(m, a, b, j)
  BY EnsureMeans
<1>2. n = [e EXCEPT !.md = md]
  BY DEF Add
<1> HIDE DEF e
<1>3. DOMAIN n = DOMAIN e /\ n.md = md /\ SameLists(e, n)
  BY <1>1, <1>2 DEF Detailed, MetaShape, SameLists
<1>4. ASSUME NEW x, Item(x)
      PROVE  /\ Item(added(x)) /\ added(x).proj = x.proj /\ added(x).repo = x.repo
             /\ ToSet(added(x).jobs) = ToSet(x.jobs) \cup
                  (IF x.proj = p /\ x.repo = r THEN {job} ELSE {})
  <2> DEFINE y == [x EXCEPT !.jobs = Append(@, job)]
  <2>1. DOMAIN y = DOMAIN x /\ y.proj = x.proj /\ y.repo = x.repo /\ y.jobs = Append(x.jobs, job)
    BY <1>4 DEF Item
  <2>2. IsList(Append(x.jobs, job)) /\ ToSet(Append(x.jobs, job)) = ToSet(x.jobs) \cup {job}
    BY <1>4, AppendList DEF Item
  <2>3. Item(y) /\ ToSet(y.jobs) = ToSet(x.jobs) \cup {job}
    BY <1>4, <2>1, <2>2 DEF Item
  <2>4. added(x) = IF x.proj = p /\ x.repo = r THEN y ELSE x
    OBVIOUS
  <2> HIDE DEF y, added
  <2> QED
    BY <1>4, <2>1, <2>3, <2>4
<1>5. /\ Len(e.md) \in Nat /\ DOMAIN e.md = 1..Len(e.md) /\ ToSet(e.md) = {e.md[i] : i \in DOMAIN e.md}
      /\ \A i \in DOMAIN e.md : Item(e.md[i])
  BY <1>1, ListHas DEF Detailed
<1>6. DOMAIN md = DOMAIN e.md /\ \A i \in DOMAIN e.md : md[i] = added(e.md[i])
  OBVIOUS
<1>7. md = [i \in 1..Len(e.md) |-> md[i]]
  BY <1>5
<1> HIDE DEF n, md, added
<1>8. IsList(md) /\ ToSet(md) = {added(x) : x \in ToSet(e.md)}
  <2>1. IsList(md)
    BY <1>5, <1>7, ListIsOne
  <2>2. ToSet(md) = {md[i] : i \in DOMAIN md}
    BY DEF ToSet
  <2> QED
    BY <1>5, <1>6, <2>1, <2>2
<1>9. \A x \in ToSet(e.md) : Item(x)
  BY <1>1 DEF Detailed
<1>10. Detailed(n)
  <2>1. MetaShape(n)
    BY <1>1, <1>3, ShapeIs DEF SameLists, Detailed
  <2> QED
    BY <1>1, <1>3, <1>4, <1>8, <1>9, <2>1 DEF SameLists, Detailed
<1>11. SameLists(m, n)
  BY <1>1, <1>3 DEF SameLists
<1>12. \A a, b : HasItem(n, a, b) <=> HasItem(e, a, b)
  BY <1>3, <1>4, <1>8, <1>9 DEF HasItem
<1>13. ASSUME NEW a, NEW b, NEW j
       PROVE  HasDetail(n, a, b, j) <=> HasDetail(e, a, b, j) \/ (a = p /\ b = r /\ j = job)
  <2>1. ASSUME HasDetail(n, a, b, j)
        PROVE  HasDetail(e, a, b, j) \/ (a = p /\ b = r /\ j = job)
    <3>1. PICK x \in ToSet(e.md) : added(x).proj = a /\ added(x).repo = b /\ j \in ToSet(added(x).jobs)
      BY <1>3, <1>8, <2>1 DEF HasDetail
    <3>2. /\ x.proj = a /\ x.repo = b
          /\ j \in ToSet(x.jobs) \cup (IF x.proj = p /\ x.repo = r THEN {job} ELSE {})
      BY <1>4, <1>9, <3>1
    <3> QED
      BY <3>2 DEF HasDetail
  <2>2. ASSUME HasDetail(e, a, b, j)
        PROVE  HasDetail(n, a, b, j)
    <3>1. PICK x \in ToSet(e.md) : x.proj = a /\ x.repo = b /\ j \in ToSet(x.jobs)
      BY <2>2 DEF HasDetail
    <3>2. added(x).proj = a /\ added(x).repo = b /\ j \in ToSet(added(x).jobs)
      BY <1>4, <1>9, <3>1
    <3> QED
      BY <1>3, <1>8, <3>1, <3>2 DEF HasDetail
  <2>3. ASSUME a = p, b = r, j = job
        PROVE  HasDetail(n, a, b, j)
    <3>1. PICK x \in ToSet(e.md) : x.proj = p /\ x.repo = r
      BY <1>1 DEF HasItem
    <3>2. added(x).proj = p /\ added(x).repo = r /\ job \in ToSet(added(x).jobs)
      BY <1>4, <1>9, <3>1
    <3> QED
      BY <1>3, <1>8, <2>3, <3>1, <3>2 DEF HasDetail
  <2> QED
    BY <2>1, <2>2, <2>3
<1>14. \A a, b : HasItem(n, a, b) => HasItem(m, a, b) \/ (a = p /\ b = r)
  BY <1>1, <1>12
<1>15. \A a, b, j : HasDetail(n, a, b, j) <=> HasDetail(m, a, b, j) \/ (a = p /\ b = r /\ j = job)
  BY <1>1, <1>13
<1> QED
  BY <1>10, <1>11, <1>14, <1>15 DEF n

LEMMA GetMeans ==
  ASSUME NEW m, Detailed(m), NEW p
  PROVE  LET n == Get(m, p)
         IN  /\ Detailed(n) /\ n.md = m.md /\ n.repoNames = m.repoNames
             /\ n.nonAligned = m.nonAligned /\ n.coverage = m.coverage
             /\ ToSet(n.projNames) = ToSet(m.projNames) \cup {p}
<1> DEFINE s == IF Contains(m.projNames, p) THEN m.projNames ELSE Append(m.projNames, p)
           n == Get(m, p)
<1>1. IsList(s) /\ ToSet(s) = ToSet(m.projNames) \cup {p}
  <2>1. IsList(m.projNames)
    BY DEF Detailed
  <2> QED
    BY <2>1, AppendList, ListContains
<1>2. n = [m EXCEPT !.projNames = s]
  BY DEF Get
<1> HIDE DEF s
<1>3. /\ DOMAIN n = DOMAIN m /\ n.projNames = s /\ n.md = m.md /\ n.repoNames = m.repoNames
      /\ n.nonAligned = m.nonAligned /\ n.coverage = m.coverage
  BY <1>2 DEF Detailed, MetaShape
<1> HIDE DEF n
<1>4. Detailed(n)
  <2>1. MetaShape(n)
    BY <1>3, ShapeIs DEF Detailed
  <2> QED
    BY <1>1, <1>3, <2>1 DEF Detailed
<1> QED
  BY <1>1, <1>3, <1>4 DEF n

\* What one repository has in the metadata.
JobDetail(repo, job, p, r, j) == JobName(job) # <<>> /\ p = ProjectOf(repo, job) /\ r = repo.name /\ j = JobName(job)

CoverageProject(repo, js) == IF js = <<>> THEN repo.org ELSE ProjectOf(repo, Last(js))

TestCoverage == <<"test", "coverage">>

SectionDetail(s, map, p, r, j) ==
    \/ \E k \in DOMAIN s.jobs : JobDetail(s.repo, s.jobs[k], p, r, j)
    \/ s.repo.name \in map /\ p = CoverageProject(s.repo, s.jobs) /\ r = s.repo.name /\ j = TestCoverage

LEMMA EnsureRepoMeans ==
  ASSUME NEW m, Detailed(m), Aligns(m), NEW p, NEW r
  PROVE  LET n == EnsureRepo(m, p, r)
         IN  /\ Detailed(n) /\ Aligns(n) /\ n.nonAligned = m.nonAligned /\ n.coverage = m.coverage
             /\ p \in ToSet(n.projNames) /\ r \in ToSet(n.repoNames)
             /\ \A a, b, j : HasDetail(n, a, b, j) <=> HasDetail(m, a, b, j)
<1> DEFINE g == Get(m, p)
           e == EnsureExists(g, p, r)
           s == IF Contains(e.repoNames, r) THEN e.repoNames ELSE Append(e.repoNames, r)
           n == EnsureRepo(m, p, r)
<1>1. /\ Detailed(g) /\ g.md = m.md /\ g.repoNames = m.repoNames
      /\ g.nonAligned = m.nonAligned /\ g.coverage = m.coverage
      /\ ToSet(g.projNames) = ToSet(m.projNames) \cup {p}
  BY GetMeans
<1>2. /\ Detailed(e) /\ SameLists(g, e)
      /\ \A a, b : HasItem(e, a, b) => HasItem(g, a, b) \/ (a = p /\ b = r)
      /\ \A a, b, j : HasDetail(e, a, b, j) <=> HasDetail(g, a, b, j)
  <2> HIDE DEF g
  <2> QED
    BY <1>1, EnsureMeans
<1>3. n = [e EXCEPT !.repoNames = s]
  BY DEF EnsureRepo
<1> HIDE DEF e, g
<1>4. IsList(s) /\ ToSet(s) = ToSet(e.repoNames) \cup {r}
  <2>1. IsList(e.repoNames)
    BY <1>2 DEF Detailed
  <2> QED
    BY <2>1, AppendList, ListContains
<1> HIDE DEF s
<1>5. /\ DOMAIN n = DOMAIN e /\ n.repoNames = s /\ n.md = e.md /\ n.projNames = e.projNames
      /\ n.nonAligned = e.nonAligned /\ n.coverage = e.coverage
  BY <1>2, <1>3 DEF Detailed, MetaShape
<1> HIDE DEF n
<1>6. Detailed(n)
  <2>1. MetaShape(n)
    BY <1>2, <1>5, ShapeIs DEF Detailed
  <2> QED
    BY <1>2, <1>4, <1>5, <2>1 DEF Detailed
<1>7. \A a, b, j : HasDetail(n, a, b, j) <=> HasDetail(m, a, b, j)
  BY <1>1, <1>2, <1>5 DEF HasDetail
<1>8. ASSUME NEW a, NEW b, HasItem(n, a, b)
      PROVE  a \in ToSet(n.projNames) /\ b \in ToSet(n.repoNames)
  <2>1. HasItem(m, a, b) \/ (a = p /\ b = r)
    BY <1>1, <1>2, <1>5, <1>8 DEF HasItem
  <2>2. ToSet(n.projNames) = ToSet(m.projNames) \cup {p} /\ ToSet(n.repoNames) = ToSet(m.repoNames) \cup {r}
    BY <1>1, <1>2, <1>4, <1>5 DEF SameLists
  <2> QED
    BY <2>1, <2>2 DEF Aligns
<1>9. p \in ToSet(n.projNames) /\ r \in ToSet(n.repoNames)
  BY <1>1, <1>2, <1>4, <1>5 DEF SameLists
<1>10. n.nonAligned = m.nonAligned /\ n.coverage = m.coverage
  BY <1>1, <1>2, <1>5 DEF SameLists
<1> QED
  BY <1>6, <1>7, <1>8, <1>9, <1>10 DEF Aligns, n

LEMMA AddAligned ==
  ASSUME NEW m, Detailed(m), Aligns(m), NEW p \in ToSet(m.projNames), NEW r \in ToSet(m.repoNames), NEW job
  PROVE  Aligns(Add(m, p, r, job))
<1> DEFINE n == Add(m, p, r, job)
<1>1. SameLists(m, n) /\ \A a, b : HasItem(n, a, b) => HasItem(m, a, b) \/ (a = p /\ b = r)
  BY AddMeans
<1> HIDE DEF n
<1>2. Aligns(n)
  BY <1>1 DEF SameLists, Aligns
<1> QED
  BY <1>2 DEF n

LEMMA CollectMeans ==
  ASSUME NEW m, Detailed(m), Aligns(m), NEW repo, repo.org \in ToSet(m.projNames),
         repo.name \in ToSet(m.repoNames), NEW job
  PROVE  LET n == CollectJob(m, repo, job)
         IN  /\ Detailed(n) /\ Aligns(n) /\ n.nonAligned = m.nonAligned /\ n.coverage = m.coverage
             /\ ToSet(m.projNames) \subseteq ToSet(n.projNames) /\ n.repoNames = m.repoNames
             /\ ProjectOf(repo, job) \in ToSet(n.projNames)
             /\ \A a, b, j : HasDetail(n, a, b, j) <=> HasDetail(m, a, b, j) \/ JobDetail(repo, job, a, b, j)
<1> DEFINE n == CollectJob(m, repo, job)
           p == ProjectOf(repo, job)
<1>1. CASE JobName(job) = <<>>
  <2>1. n = m /\ p = repo.org
    BY <1>1 DEF CollectJob, ProjectOf
  <2>2. \A a, b, j : ~JobDetail(repo, job, a, b, j)
    BY <1>1 DEF JobDetail
  <2> HIDE DEF n, p
  <2> QED
    BY <2>1, <2>2 DEF n, p
<1>2. CASE JobName(job) # <<>>
  <2> DEFINE g == Get(m, p)
             name == JobName(job)
             r == repo.name
             e == Add(g, p, r, name)
  <2>1. n = e
    BY <1>2 DEF CollectJob
  <2>2. /\ Detailed(g) /\ g.md = m.md /\ g.repoNames = m.repoNames
        /\ g.nonAligned = m.nonAligned /\ g.coverage = m.coverage
        /\ ToSet(g.projNames) = ToSet(m.projNames) \cup {p}
    BY GetMeans
  <2>3. \A a, b, j : JobDetail(repo, job, a, b, j) <=> a = p /\ b = r /\ j = name
    BY <1>2 DEF JobDetail
  <2> HIDE DEF g, p, name, n, r
  <2>4. Aligns(g)
    BY <2>2 DEF Aligns, HasItem
  <2>5. /\ Detailed(e) /\ SameLists(g, e)
        /\ \A a, b, j : HasDetail(e, a, b, j) <=> HasDetail(g, a, b, j) \/ (a = p /\ b = r /\ j = name)
    BY <2>2, AddMeans
  <2>6. Aligns(e)
    BY <2>2, <2>4, AddAligned DEF r
  <2> HIDE DEF e
  <2>7. \A a, b, j : HasDetail(e, a, b, j) <=> HasDetail(m, a, b, j) \/ JobDetail(repo, job, a, b, j)
    <3>1. \A a, b, j : HasDetail(g, a, b, j) <=> HasDetail(m, a, b, j)
      BY <2>2 DEF HasDetail
    <3> QED
      BY <2>3, <2>5, <3>1
  <2>8. /\ e.nonAligned = m.nonAligned /\ e.coverage = m.coverage
        /\ ToSet(m.projNames) \subseteq ToSet(e.projNames) /\ e.repoNames = m.repoNames
        /\ p \in ToSet(e.projNames)
    BY <2>2, <2>5 DEF SameLists
  <2> QED
    BY <2>1, <2>5, <2>6, <2>7, <2>8 DEF n, p
<1> QED
  BY <1>1, <1>2

LEMMA UpdateMeans ==
  ASSUME NEW m, Detailed(m), Aligns(m), NEW repo, NEW js, repo.name \in ToSet(m.repoNames),
         CoverageProject(repo, js) \in ToSet(m.projNames)
  PROVE  LET n == UpdateCoverage(m, repo, js)
         IN  /\ Detailed(n) /\ Aligns(n) /\ n.nonAligned = m.nonAligned
             /\ n.coverage = m.coverage \ {repo.name}
             /\ \A a, b, j : HasDetail(n, a, b, j) <=>
                  \/ HasDetail(m, a, b, j)
                  \/ repo.name \in m.coverage /\ a = CoverageProject(repo, js) /\ b = repo.name
                        /\ j = TestCoverage
<1> DEFINE n == UpdateCoverage(m, repo, js)
           p == CoverageProject(repo, js)
           r == repo.name
           e == Add(m, p, r, TestCoverage)
<1>1. CASE r \notin m.coverage
  <2>1. n = m
    BY <1>1 DEF UpdateCoverage
  <2>2. m.coverage \ {r} = m.coverage
    BY <1>1
  <2> HIDE DEF n
  <2> QED
    BY <1>1, <2>1, <2>2 DEF n
<1>2. CASE r \in m.coverage
  <2>1. n = [e EXCEPT !.coverage = e.coverage \ {r}]
    BY <1>2 DEF UpdateCoverage, CoverageProject, TestCoverage
  <2>2. /\ Detailed(e) /\ SameLists(m, e)
        /\ \A a, b, j : HasDetail(e, a, b, j) <=> HasDetail(m, a, b, j) \/ (a = p /\ b = r /\ j = TestCoverage)
    BY AddMeans
  <2>3. Aligns(e)
    BY AddAligned
  <2> HIDE DEF e, p
  <2>4. /\ DOMAIN n = DOMAIN e /\ n.coverage = m.coverage \ {r} /\ n.md = e.md
        /\ n.projNames = e.projNames /\ n.repoNames = e.repoNames /\ n.nonAligned = e.nonAligned
    BY <2>1, <2>2 DEF Detailed, MetaShape, SameLists
  <2> HIDE DEF n, r
  <2>5. Detailed(n) /\ Aligns(n)
    <3>1. MetaShape(n)
      BY <2>2, <2>4, ShapeIs DEF Detailed
    <3> QED
      BY <2>2, <2>3, <2>4, <3>1 DEF Detailed, Aligns, HasItem
  <2>6. \A a, b, j : HasDetail(n, a, b, j) <=> HasDetail(m, a, b, j) \/ (a = p /\ b = r /\ j = TestCoverage)
    <3>1. \A a, b, j : HasDetail(n, a, b, j) <=> HasDetail(e, a, b, j)
      BY <2>4 DEF HasDetail
    <3> QED
      BY <2>2, <3>1 DEF r
  <2> QED
    BY <1>2, <2>2, <2>4, <2>5, <2>6 DEF SameLists, n, p, r
<1> QED
  BY <1>1, <1>2

LEMMA SectionCollected ==
  ASSUME Detailed(metaData), Aligns(metaData), NEW s, IsList(s.jobs), collectMetaData(s)
  PROVE  /\ Detailed(metaData') /\ Aligns(metaData') /\ metaData'.nonAligned = metaData.nonAligned
         /\ metaData'.coverage = metaData.coverage \ {s.repo.name}
         /\ \A a, b, j : HasDetail(metaData', a, b, j) <=>
              HasDetail(metaData, a, b, j) \/ SectionDetail(s, metaData.coverage, a, b, j)
<1> DEFINE m == metaData
           repo == s.repo
           js == s.jobs
           n == Len(js)
           m0 == EnsureRepo(m, repo.org, repo.name)
<1>1. PICK T : js \in Seq(T)
  BY DEF IsList
<1>2. PICK x : /\ x[0] = m0 /\ \A k \in 1..n : x[k] = CollectJob(x[k - 1], repo, js[k])
               /\ Collected(m0, repo, js) = x[n]
  <2> HIDE DEF m0, repo, js
  <2>1. CollectedAs(m0, repo, js)
    BY <1>1, CollectRounds
  <2> QED
    BY <2>1, Zenon DEF CollectedAs, n
<1>3. metaData' = UpdateCoverage(x[n], repo, js)
  <2>1. metaData' = UpdateCoverage(Collected(m0, repo, js), repo, js)
    BY DEF collectMetaData, Collected
  <2> QED
    BY <1>2, <2>1
<1>4. /\ Detailed(m0) /\ Aligns(m0) /\ m0.nonAligned = m.nonAligned /\ m0.coverage = m.coverage
      /\ repo.org \in ToSet(m0.projNames) /\ repo.name \in ToSet(m0.repoNames)
      /\ \A a, b, j : HasDetail(m0, a, b, j) <=> HasDetail(m, a, b, j)
  BY EnsureRepoMeans
<1>5. n \in Nat /\ DOMAIN js = 1..n
  BY <1>1
<1> HIDE DEF m0, n, m, repo, js
<1> DEFINE P(k, y) ==
             /\ Detailed(y) /\ Aligns(y) /\ y.nonAligned = m.nonAligned /\ y.coverage = m.coverage
             /\ repo.org \in ToSet(y.projNames) /\ repo.name \in ToSet(y.repoNames)
             /\ k \in 1..n => ProjectOf(repo, js[k]) \in ToSet(y.projNames)
             /\ \A a, b, j : HasDetail(y, a, b, j) <=>
                  HasDetail(m, a, b, j) \/ \E h \in 1..k : JobDetail(repo, js[h], a, b, j)
           R == {k \in 0..n : P(k, x[k])}
<1>6. 0 \in R
  <2>1. 0 \notin 1..n /\ 1..0 = {}
    BY <1>5
  <2>2. P(0, m0)
    BY <1>4, <2>1
  <2> HIDE DEF P
  <2> QED
    BY <1>2, <1>5, <2>2
<1>7. ASSUME NEW k \in 1..n, k - 1 \in R
      PROVE  k \in R
  <2> DEFINE y == x[k - 1]
             z == CollectJob(y, repo, js[k])
  <2>1. P(k - 1, y) /\ x[k] = z
    BY <1>2, <1>7
  <2> HIDE DEF y
  <2>2. /\ Detailed(z) /\ Aligns(z) /\ z.nonAligned = y.nonAligned /\ z.coverage = y.coverage
        /\ ToSet(y.projNames) \subseteq ToSet(z.projNames) /\ z.repoNames = y.repoNames
        /\ ProjectOf(repo, js[k]) \in ToSet(z.projNames)
        /\ \A a, b, j : HasDetail(z, a, b, j) <=> HasDetail(y, a, b, j) \/ JobDetail(repo, js[k], a, b, j)
    BY <2>1, CollectMeans
  <2> HIDE DEF z
  <2>3. 1..k = (1..(k - 1)) \cup {k}
    BY <1>5
  <2>4. \A a, b, j : HasDetail(z, a, b, j) <=>
           HasDetail(m, a, b, j) \/ \E h \in 1..k : JobDetail(repo, js[h], a, b, j)
    BY <2>1, <2>2, <2>3
  <2>5. P(k, z)
    BY <2>1, <2>2, <2>4
  <2> HIDE DEF P
  <2> QED
    BY <1>5, <2>1, <2>5
<1>8. P(n, x[n])
  <2>1. n \in R
    <3> HIDE DEF R
    <3> QED
      BY <1>5, <1>6, <1>7, AllRounds
  <2> HIDE DEF P
  <2> QED
    BY <2>1
<1> DEFINE y == x[n]
<1>9. CoverageProject(repo, js) \in ToSet(y.projNames)
  <2>1. CASE js = <<>>
    BY <1>8, <2>1 DEF CoverageProject
  <2>2. CASE js # <<>>
    <3>1. n \in 1..n
      BY <1>1, <1>5, <2>2 DEF n
    <3>2. Last(js) = js[n]
      BY DEF Last, n
    <3> QED
      BY <1>8, <2>2, <3>1, <3>2 DEF CoverageProject
  <2> QED
    BY <2>1, <2>2
<1>10. /\ Detailed(y) /\ Aligns(y) /\ y.nonAligned = m.nonAligned /\ y.coverage = m.coverage
       /\ repo.name \in ToSet(y.repoNames)
       /\ \A a, b, j : HasDetail(y, a, b, j) <=>
            HasDetail(m, a, b, j) \/ \E h \in DOMAIN js : JobDetail(repo, js[h], a, b, j)
  BY <1>5, <1>8
<1> HIDE DEF P, R, y
<1>11. metaData' = UpdateCoverage(y, repo, js)
  BY <1>3 DEF y
<1> DEFINE z == UpdateCoverage(y, repo, js)
<1>12. /\ Detailed(z) /\ Aligns(z) /\ z.nonAligned = y.nonAligned
       /\ z.coverage = y.coverage \ {repo.name}
       /\ \A a, b, j : HasDetail(z, a, b, j) <=>
            \/ HasDetail(y, a, b, j)
            \/ repo.name \in y.coverage /\ a = CoverageProject(repo, js) /\ b = repo.name /\ j = TestCoverage
  BY <1>9, <1>10, UpdateMeans
<1> HIDE DEF z
<1>13. \A a, b, j : HasDetail(z, a, b, j) <=> HasDetail(m, a, b, j) \/ SectionDetail(s, m.coverage, a, b, j)
  BY <1>10, <1>12 DEF SectionDetail, repo, js
<1> QED
  BY <1>10, <1>11, <1>12, <1>13 DEF z, m, repo

-----------------------------------------------------------------------------
(* The configuration of TestGrid.                                          *)

LEMMA NoRemaining ==
  ASSUME NEW m, m.coverage = {}
  PROVE  addRemainingTestCoverageJobs(m) = m
<1> DEFINE Op(n, x) == Add(x, m.projNames[1], n, <<"test", "coverage">>)
           next(h, s) == Op(CHOOSE e \in s : TRUE, h[s \ {CHOOSE e \in s : TRUE}])
           f == CHOOSE h : h = [s \in SUBSET m.coverage |-> IF s = {} THEN m ELSE next(h, s)]
<1>1. addRemainingTestCoverageJobs(m) = f[m.coverage]
  BY DEF addRemainingTestCoverageJobs, FoldSet, MapThenFoldSet
<1> HIDE DEF next
<1>2. \E h : h = [s \in SUBSET m.coverage |-> IF s = {} THEN m ELSE next(h, s)]
  <2> DEFINE h == [s \in SUBSET m.coverage |-> m]
  <2>1. h = [s \in SUBSET m.coverage |-> IF s = {} THEN m ELSE next(h, s)]
    <3>1. \A s \in SUBSET m.coverage : s = {}
      OBVIOUS
    <3> QED
      BY <3>1
  <2> HIDE DEF h
  <2> QED
    BY <2>1
<1>3. f = [s \in SUBSET m.coverage |-> IF s = {} THEN m ELSE next(f, s)]
  BY <1>2, Zenon
<1> HIDE DEF f
<1>4. m.coverage \in SUBSET m.coverage
  OBVIOUS
<1>5. f[m.coverage] = m
  BY <1>3, <1>4
<1> QED
  BY <1>1, <1>5

LEMMA CustomMeans ==
  ASSUME NEW m, MetaShape(m)
  PROVE  LET n == addCustomJobsTestgrid(m)
         IN  /\ MetaShape(n) /\ SameDetails(m, n)
             /\ TestNames(n) = TestNames(m) \cup ToSet(customJobnames)
<1> DEFINE s == customJobnames
           n == Len(s)
           t(k) == NonAligned(<<"maintenance">>, <<"utilities">>, s[k], s[k])
<1>1. customJobnames \in Seq(Seq(STRING))
  BY GeneratorAssumption
<1>2. PICK x : /\ x[0] = m
               /\ \A k \in 1..n : x[k] = AddNonAlignedTest(x[k - 1], t(k))
               /\ addCustomJobsTestgrid(m) = x[n]
  <2>1. CustomAs(m)
    BY <1>1, CustomRounds
  <2> QED
    BY <2>1 DEF CustomAs
<1>3. n \in Nat /\ DOMAIN s = 1..n /\ ToSet(s) = {s[k] : k \in 1..n}
  BY <1>1 DEF ToSet
<1>4. \A k \in 1..n : t(k).CIJobName = s[k]
  BY DEF NonAligned
<1> HIDE DEF n, s, t
<1> DEFINE P(k, y) == /\ MetaShape(y) /\ SameDetails(m, y)
                      /\ TestNames(y) = TestNames(m) \cup {s[i] : i \in 1..k}
           R == {k \in 0..n : P(k, x[k])}
<1>5. 0 \in R
  <2>1. 1..0 = {}
    OBVIOUS
  <2>2. P(0, m)
    BY <2>1 DEF SameDetails
  <2> HIDE DEF P
  <2> QED
    BY <1>2, <1>3, <2>2
<1>6. ASSUME NEW k \in 1..n, k - 1 \in R
      PROVE  k \in R
  <2> DEFINE y == x[k - 1]
             z == AddNonAlignedTest(y, t(k))
  <2>1. P(k - 1, y) /\ x[k] = z
    BY <1>2, <1>6
  <2> HIDE DEF y
  <2>2. /\ MetaShape(z) /\ SameDetails(y, z)
        /\ TestNames(z) = TestNames(y) \cup {s[k]}
    BY <1>4, <2>1, MoreTests
  <2> HIDE DEF z
  <2>3. 1..k = (1..(k - 1)) \cup {k}
    BY <1>3
  <2>4. TestNames(z) = TestNames(m) \cup {s[i] : i \in 1..k}
    BY <2>1, <2>2, <2>3
  <2>5. P(k, z)
    BY <2>1, <2>2, <2>4 DEF SameDetails
  <2> HIDE DEF P
  <2> QED
    BY <1>3, <2>1, <2>5
<1>7. n \in R
  <2> HIDE DEF R
  <2> QED
    BY <1>3, <1>5, <1>6, AllRounds
<1> QED
  BY <1>2, <1>3, <1>7 DEF s

LEMMA AlignedIs ==
  ASSUME NEW m, Detailed(m), Aligns(m)
  PROVE  /\ DOMAIN Aligned(m) = ToSet(m.md)
         /\ \A x \in ToSet(m.md) : Aligned(m)[x] = ToSet(x.jobs)
<1> DEFINE S == {y \in ToSet(m.md) : Contains(m.projNames, y.proj) /\ Contains(m.repoNames, y.repo)}
<1>1. Aligned(m) = [x \in S |-> ToSet(x.jobs)]
  BY DEF Aligned
<1>2. \A y \in ToSet(m.md) : y.proj \in ToSet(m.projNames) /\ y.repo \in ToSet(m.repoNames)
  BY DEF Aligns, HasItem
<1>3. \A y : /\ Contains(m.projNames, y) <=> y \in ToSet(m.projNames)
             /\ Contains(m.repoNames, y) <=> y \in ToSet(m.repoNames)
  BY ListContains DEF Detailed
<1>4. S = ToSet(m.md)
  BY <1>2, <1>3
<1> HIDE DEF S
<1> QED
  BY <1>1, <1>4

GroupOf(x, j) == [name |-> getTestGroupName(buildProjRepoStr(x.proj, x.repo), j),
                  dir  |-> getGcsLogDir(buildProjRepoStr(x.proj, x.repo), j),
                  extras |-> getTestgroupExtras(isReleased(x.proj), KeyOf(j))]

OtherGroup(t) == [name |-> t.CIJobName, dir |-> t.CIJobName, extras |-> {}]

AlignedGroups(m) == UNION {{GroupOf(x, j) : j \in Aligned(m)[x]} : x \in DOMAIN Aligned(m)}

LEMMA GroupsAre ==
  ASSUME NEW m
  PROVE  /\ \A g : g \in generateTestGroups(m) <=>
              \/ \E x \in DOMAIN Aligned(m) : \E j \in Aligned(m)[x] : g = GroupOf(x, j)
              \/ \E t \in ToSet(m.nonAligned) : g = OtherGroup(t)
         /\ \A x, j : /\ GroupOf(x, j).name = getTestGroupName(buildProjRepoStr(x.proj, x.repo), j)
                      /\ GroupOf(x, j).dir = getGcsLogDir(buildProjRepoStr(x.proj, x.repo), j)
         /\ \A t : OtherGroup(t).name = t.CIJobName /\ OtherGroup(t).dir = t.CIJobName
<1>1. generateTestGroups(m) = AlignedGroups(m) \cup {OtherGroup(t) : t \in ToSet(m.nonAligned)}
  BY Zenon DEF generateTestGroups, AlignedGroups, GroupOf, OtherGroup
<1>2. \A g : g \in AlignedGroups(m) <=>
         \E x \in DOMAIN Aligned(m) : \E j \in Aligned(m)[x] : g = GroupOf(x, j)
  BY DEF AlignedGroups
<1>3. \A x, j : /\ GroupOf(x, j).name = getTestGroupName(buildProjRepoStr(x.proj, x.repo), j)
                /\ GroupOf(x, j).dir = getGcsLogDir(buildProjRepoStr(x.proj, x.repo), j)
  BY DEF GroupOf
<1>4. \A t : OtherGroup(t).name = t.CIJobName /\ OtherGroup(t).dir = t.CIJobName
  BY DEF OtherGroup
<1> QED
  BY <1>1, <1>2, <1>3, <1>4

\* The directories of the test groups.
LEMMA GroupDirs ==
  ASSUME NEW m, Detailed(m), Aligns(m)
  PROVE  \A y : (\E g \in generateTestGroups(m) : y = g.dir) <=>
            \/ \E p, r, j : HasDetail(m, p, r, j) /\ y = getGcsLogDir(buildProjRepoStr(p, r), j)
            \/ y \in TestNames(m)
<1> DEFINE group(x, j) == GroupOf(x, j)
           other(t) == OtherGroup(t)
           A == {g \in generateTestGroups(m) :
                   \E x \in ToSet(m.md) : \E j \in ToSet(x.jobs) : g = group(x, j)}
           B == {g \in generateTestGroups(m) : \E t \in ToSet(m.nonAligned) : g = other(t)}
<1>1. /\ generateTestGroups(m) = A \cup B
      /\ \A g : g \in A <=> \E x \in ToSet(m.md) : \E j \in ToSet(x.jobs) : g = group(x, j)
      /\ \A g : g \in B <=> \E t \in ToSet(m.nonAligned) : g = other(t)
  <2>1. \A g : g \in generateTestGroups(m) <=>
              \/ \E x \in ToSet(m.md) : \E j \in ToSet(x.jobs) : g = group(x, j)
              \/ \E t \in ToSet(m.nonAligned) : g = other(t)
    BY GroupsAre, AlignedIs
  <2> HIDE DEF group, other
  <2> QED
    BY <2>1
<1>2. \A x, j : group(x, j).dir = getGcsLogDir(buildProjRepoStr(x.proj, x.repo), j)
  BY GroupsAre
<1>3. \A t : other(t).dir = t.CIJobName
  BY GroupsAre
<1> HIDE DEF group, other
<1>4. \A g : g \in A <=> \E x \in ToSet(m.md) : \E j \in ToSet(x.jobs) : g = group(x, j)
  BY <1>1
<1>5. \A g : g \in B <=> \E t \in ToSet(m.nonAligned) : g = other(t)
  BY <1>1
<1> HIDE DEF A, B
<1>6. \A y : (\E g \in A : y = g.dir) <=>
         \E p, r, j : HasDetail(m, p, r, j) /\ y = getGcsLogDir(buildProjRepoStr(p, r), j)
  <2>1. ASSUME NEW g \in A
        PROVE  \E p, r, j : HasDetail(m, p, r, j) /\ g.dir = getGcsLogDir(buildProjRepoStr(p, r), j)
    <3>1. PICK x \in ToSet(m.md) : \E j \in ToSet(x.jobs) : g = group(x, j)
      BY <1>4
    <3>2. PICK j \in ToSet(x.jobs) : g = group(x, j)
      BY <3>1
    <3>3. HasDetail(m, x.proj, x.repo, j)
      BY <3>2 DEF HasDetail
    <3> QED
      BY <1>2, <3>2, <3>3
  <2>2. ASSUME NEW p, NEW r, NEW j, HasDetail(m, p, r, j)
        PROVE  \E g \in A : getGcsLogDir(buildProjRepoStr(p, r), j) = g.dir
    <3>1. PICK x \in ToSet(m.md) : x.proj = p /\ x.repo = r /\ j \in ToSet(x.jobs)
      BY <2>2 DEF HasDetail
    <3>2. group(x, j) \in A /\ group(x, j).dir = getGcsLogDir(buildProjRepoStr(p, r), j)
      BY <1>2, <1>4, <3>1
    <3> QED
      BY <3>2
  <2> QED
    BY <2>1, <2>2
<1>7. \A y : (\E g \in B : y = g.dir) <=> y \in TestNames(m)
  <2>1. \A y : y \in TestNames(m) <=> \E t \in ToSet(m.nonAligned) : y = t.CIJobName
    BY DEF TestNames
  <2> QED
    BY <1>3, <1>5, <2>1
<1> QED
  BY <1>1, <1>6, <1>7

\* Every tab shows a group.
LEMMA TabsShown ==
  ASSUME NEW m, NEW t \in generateTabs(m)
  PROVE  \E g \in generateTestGroups(m) : g.name = t.group
<1> DEFINE named(x, j) == getTestGroupName(buildProjRepoStr(x.proj, x.repo), j)
<1>1. \A x \in DOMAIN Aligned(m) : \A j \in Aligned(m)[x] :
         GroupOf(x, j) \in generateTestGroups(m) /\ GroupOf(x, j).name = named(x, j)
  BY GroupsAre
<1>2. \A u \in ToSet(m.nonAligned) :
         OtherGroup(u) \in generateTestGroups(m) /\ OtherGroup(u).name = u.CIJobName
  BY GroupsAre
<1>3. \/ \E x \in DOMAIN Aligned(m) : \E j \in Aligned(m)[x] : t.group = named(x, j)
      \/ \E u \in ToSet(m.nonAligned) : t.group = u.CIJobName
  <2> DEFINE tab(x, j, l) == [dashboard |-> DashboardOf(x), tab |-> l, group |-> named(x, j)]
             other(u) == [dashboard |-> u.DashboardName, tab |-> u.HumanTabName, group |-> u.CIJobName]
  <2>1. generateTabs(m) =
           (UNION {UNION {{tab(x, j, l) : l \in TabsOf(x, j)} : j \in Aligned(m)[x]} : x \in DOMAIN Aligned(m)})
           \cup {other(u) : u \in ToSet(m.nonAligned)}
    BY DEF generateTabs
  <2>2. (\A x, j, l : tab(x, j, l).group = named(x, j)) /\ \A u : other(u).group = u.CIJobName
    OBVIOUS
  <2> HIDE DEF tab, other, named
  <2> DEFINE A == UNION {UNION {{tab(x, j, l) : l \in TabsOf(x, j)} : j \in Aligned(m)[x]} :
                        x \in DOMAIN Aligned(m)}
  <2>3. t \in A \/ \E u \in ToSet(m.nonAligned) : t = other(u)
    <3> HIDE DEF A
    <3> QED
      BY <2>1 DEF A
  <2>4. ASSUME t \in A
        PROVE  \E x \in DOMAIN Aligned(m) : \E j \in Aligned(m)[x] : \E l \in TabsOf(x, j) : t = tab(x, j, l)
    <3> DEFINE C(x) == UNION {{tab(x, j, l) : l \in TabsOf(x, j)} : j \in Aligned(m)[x]}
    <3>1. PICK x \in DOMAIN Aligned(m) : t \in C(x)
      BY <2>4
    <3>2. PICK j \in Aligned(m)[x] : t \in {tab(x, j, l) : l \in TabsOf(x, j)}
      BY <3>1
    <3> QED
      BY <3>2
  <2> QED
    BY <2>2, <2>3, <2>4
<1> QED
  BY <1>1, <1>2, <1>3

AllMade(c, s) == \A repo, job : JobIn(c, repo, job) => Made(s, repo, job)

CoveragesMade(c, s) == \A repo : Covered(c, repo) => CovMade(s, repo)

\* The metadata has the jobs of the first k sections.
MetaUpTo(c, m, k) ==
    /\ Detailed(m) /\ Aligns(m)
    /\ \A p, r, j : HasDetail(m, p, r, j) <=>
         \E i \in 1..k : SectionDetail(c.periodics[i], parseGoCoverageMap(c), p, r, j)
    /\ m.coverage = parseGoCoverageMap(c) \ {c.periodics[i].repo.name : i \in 1..k}

LEMMA CovNameIs ==
  ASSUME NEW repo \in Repo
  PROVE  CovName(repo)[1] = "ci" /\ Last(CovName(repo)) = "coverage"
<1> DEFINE b == RepoNameForJob(repo)
<1>1. b \in Seq(STRING)
  BY DEF Repo, RepoNameForJob
<1>2. STRING \subseteq Word
  BY DEF Word
<1>3. b \in Seq(Word)
  BY <1>1, <1>2, SeqWider
<1>4. <<"ci">> \in Seq(Word) /\ <<"go", "coverage">> \in Seq(Word)
  BY DEF Word
<1> HIDE DEF b
<1> DEFINE c == b \o <<"go", "coverage">>
           n == Len(b)
<1>5. c \in Seq(Word) /\ n \in Nat /\ Len(c) = n + 2 /\ c[n + 2] = "coverage"
  BY <1>3, <1>4
<1> HIDE DEF c, n
<1> DEFINE d == <<"ci">> \o c
<1>6. Len(d) = n + 3 /\ d[1] = "ci" /\ d[n + 3] = c[n + 2]
  BY <1>4, <1>5
<1>7. d = CovName(repo)
  BY DEF c, b, CovName
<1> HIDE DEF d
<1>8. Last(d) = d[Len(d)]
  BY DEF Last
<1> QED
  BY <1>5, <1>6, <1>7, <1>8

\* A repository with coverage has periodic jobs, the last of them not of a release.
LEMMA CoverageIn ==
  ASSUME GoodFile(file), CoveragesMade(file, jobs), IsList(jobs), CoverageAfterMain,
         NEW repo, Covered(file, repo)
  PROVE  \E i \in DOMAIN file.periodics :
            file.periodics[i].repo = repo /\ CoverageProject(repo, file.periodics[i].jobs) = repo.org
<1>1. repo \in Repo
  <2>1. PICK k \in DOMAIN file.presubmits : file.presubmits[k].repo = repo
    BY DEF Covered
  <2>2. file.presubmits \in Seq(Section)
    BY DEF GoodFile
  <2>3. file.presubmits[k] \in Section
    BY <2>2
  <2> QED
    BY <2>1, <2>3 DEF Section, Repo
<1>2. PICK j \in PeriodicOnes(jobs) : j.base.repo = repo /\ j.name = CovName(repo)
  BY DEF CoveragesMade, CovMade
<1>3. PICK i \in DOMAIN jobs : jobs[i] = j
  BY ListHas DEF PeriodicOnes
<1>4. HasCoverage(repo)
  BY <1>1, <1>2, <1>3, CovNameIs DEF HasCoverage
<1>5. PICK k \in DOMAIN file.periodics :
         file.periodics[k].repo = repo /\ ReleaseOf(Last(file.periodics[k].jobs)) = ""
  BY <1>2, <1>3, <1>4 DEF CoverageAfterMain
<1>6. CoverageProject(repo, file.periodics[k].jobs) = repo.org
  BY <1>5 DEF CoverageProject, ProjectOf
<1> QED
  BY <1>5, <1>6

\* The directory of the group of coverage is the name of that job.
LEMMA CoverageDir ==
  ASSUME NEW repo \in Repo, ~isReleased(repo.org)
  PROVE  getGcsLogDir(buildProjRepoStr(repo.org, repo.name), TestCoverage) = CovName(repo)
<1> DEFINE b == RepoNameForJob(repo)
           ci == <<"ci">>
           go == <<"go", "coverage">>
<1>1. buildProjRepoStr(repo.org, repo.name) = b
  BY DEF buildProjRepoStr, RepoNameForJob
<1>2. b \in Seq(Word)
  <2>1. STRING \subseteq Word
    BY DEF Word
  <2>2. b \in Seq(STRING)
    BY DEF Repo, RepoNameForJob
  <2> HIDE DEF b
  <2> QED
    BY <2>1, <2>2, SeqWider
<1>3. ci \in Seq(Word) /\ go \in Seq(Word)
  BY DEF Word
<1>4. getGcsLogDir(b, TestCoverage) = (ci \o b) \o go
  BY DEF getGcsLogDir, TestCoverage
<1>5. CovName(repo) = ci \o (b \o go)
  BY DEF CovName
<1> HIDE DEF b, ci, go
<1>6. (ci \o b) \o go = ci \o (b \o go)
  BY <1>2, <1>3
<1> QED
  BY <1>1, <1>4, <1>5, <1>6

DirOf(p, r, j) == getGcsLogDir(buildProjRepoStr(p, r), j)

\* The directories of the jobs in the metadata are the names of the jobs of the file and of
\* its coverage jobs.
DirsMatch(c, m) ==
    /\ \A p, r, j : HasDetail(m, p, r, j) =>
         \/ \E repo, job : /\ JobIn(c, repo, job) /\ Periodic(repo, job).return = FALSE
                           /\ DirOf(p, r, j) = NameOf(repo, job)
         \/ \E repo : Covered(c, repo) /\ DirOf(p, r, j) = CovName(repo)
    /\ \A repo, job : JobIn(c, repo, job) /\ Periodic(repo, job).return = FALSE =>
         \E p, r, j : HasDetail(m, p, r, j) /\ DirOf(p, r, j) = NameOf(repo, job)
    /\ \A repo : Covered(c, repo) =>
         \E p, r, j : HasDetail(m, p, r, j) /\ DirOf(p, r, j) = CovName(repo)

LEMMA DetailDirs ==
  ASSUME GoodFile(file), InOrder(file), CoveragesMade(file, jobs), IsList(jobs), CoverageAfterMain,
         NEW m, MetaUpTo(file, m, Len(file.periodics))
  PROVE  m.coverage = {} /\ DirsMatch(file, m)
<1> DEFINE ps == file.periodics
           qs == file.presubmits
           map == parseGoCoverageMap(file)
           dir(p, r, j) == DirOf(p, r, j)
<1>1. /\ ps \in Seq(SensibleSection) /\ FileParts(qs, ps) /\ DOMAIN ps = 1..Len(ps)
      /\ map = {qs[i].repo.name : i \in {k \in DOMAIN qs : Covered(file, qs[k].repo)}}
  <2>1. ps \in Seq(SensibleSection) /\ FileParts(qs, ps)
    BY FilePartsAre DEF GoodFile
  <2> QED
    BY <2>1, MapIs
<1>2. \A i \in DOMAIN ps : ps[i] \in SensibleSection /\ ps[i].repo \in Repo /\ ~isReleased(ps[i].repo.org)
  <2>1. \A i \in DOMAIN ps : ps[i] \in SensibleSection
    BY <1>1
  <2> QED
    BY <1>1, <2>1 DEF SensibleSection, FileParts
<1>3. \A p, r, j : HasDetail(m, p, r, j) <=> \E i \in DOMAIN ps : SectionDetail(ps[i], map, p, r, j)
  BY <1>1 DEF MetaUpTo
<1>4. m.coverage = map \ {ps[i].repo.name : i \in DOMAIN ps}
  BY <1>1 DEF MetaUpTo
<1>5. \A repo : Covered(file, repo) =>
         \E i \in DOMAIN ps : ps[i].repo = repo /\ CoverageProject(repo, ps[i].jobs) = repo.org
  BY CoverageIn
<1>6. \A repo, job : JobIn(file, repo, job) <=>
         \E i \in DOMAIN ps : ps[i].repo = repo /\ \E k \in DOMAIN ps[i].jobs : ps[i].jobs[k] = job
  BY DEF JobIn
<1>7. \A repo : Covered(file, repo) => \E k \in DOMAIN qs : qs[k].repo = repo
  BY DEF Covered
<1> HIDE DEF ps, qs, map
<1>8. m.coverage = {}
  <2>1. ASSUME NEW x \in map
        PROVE  x \in {ps[i].repo.name : i \in DOMAIN ps}
    BY <1>1, <1>5
  <2> QED
    BY <1>4, <2>1
<1>9. ASSUME NEW repo, NEW job, JobIn(file, repo, job)
      PROVE  /\ Periodic(repo, job).return \in BOOLEAN
             /\ Periodic(repo, job).return <=> JobName(job) = <<>>
             /\ ~Periodic(repo, job).return =>
                   dir(ProjectOf(repo, job), repo.name, JobName(job)) = NameOf(repo, job)
  <2>1. /\ repo \in Repo /\ repo.org # <<>> /\ ~isReleased(repo.org)
        /\ job \in SensibleJob /\ TypeFirst(job)
    BY <1>9, JobInFacts
  <2> QED
    BY <2>1, SameName DEF NameOf, DirOf
<1>10. \A repo : Covered(file, repo) => dir(repo.org, repo.name, TestCoverage) = CovName(repo)
  BY <1>2, <1>5, CoverageDir DEF DirOf
<1> HIDE DEF dir
<1>11. ASSUME NEW p, NEW r, NEW j, HasDetail(m, p, r, j)
       PROVE  \/ \E repo, job : /\ JobIn(file, repo, job) /\ Periodic(repo, job).return = FALSE
                                /\ dir(p, r, j) = NameOf(repo, job)
              \/ \E repo : Covered(file, repo) /\ dir(p, r, j) = CovName(repo)
  <2>1. PICK i \in DOMAIN ps : SectionDetail(ps[i], map, p, r, j)
    BY <1>3, <1>11
  <2> DEFINE s == ps[i]
  <2>2. CASE \E k \in DOMAIN s.jobs : JobDetail(s.repo, s.jobs[k], p, r, j)
    <3>1. PICK k \in DOMAIN s.jobs : JobDetail(s.repo, s.jobs[k], p, r, j)
      BY <2>2
    <3> DEFINE repo == s.repo
               job == s.jobs[k]
    <3>2. JobIn(file, repo, job)
      BY <1>6, <3>1
    <3> HIDE DEF repo, job
    <3>3. JobName(job) # <<>> /\ p = ProjectOf(repo, job) /\ r = repo.name /\ j = JobName(job)
      BY <3>1 DEF JobDetail, repo, job
    <3>4. Periodic(repo, job).return = FALSE
      BY <1>9, <3>2, <3>3
    <3>5. dir(p, r, j) = NameOf(repo, job)
      BY <1>9, <3>2, <3>3, <3>4
    <3> QED
      BY <3>2, <3>4, <3>5
  <2>3. CASE s.repo.name \in map /\ p = CoverageProject(s.repo, s.jobs) /\ r = s.repo.name /\ j = TestCoverage
    <3>1. PICK k \in DOMAIN qs : Covered(file, qs[k].repo) /\ qs[k].repo.name = s.repo.name
      BY <1>1, <2>3
    <3>2. qs[k].repo = s.repo
      BY <1>1, <3>1 DEF FileParts
    <3>3. PICK h \in DOMAIN ps : ps[h].repo = s.repo /\ CoverageProject(s.repo, ps[h].jobs) = s.repo.org
      BY <1>5, <3>1, <3>2
    <3>4. h = i
      BY <1>1, <3>3 DEF FileParts
    <3>5. p = s.repo.org
      BY <2>3, <3>3, <3>4
    <3> QED
      BY <1>10, <2>3, <3>1, <3>2, <3>5
  <2> QED
    BY <2>1, <2>2, <2>3 DEF SectionDetail
<1>12. ASSUME NEW repo, NEW job, JobIn(file, repo, job), Periodic(repo, job).return = FALSE
       PROVE  \E p, r, j : HasDetail(m, p, r, j) /\ dir(p, r, j) = NameOf(repo, job)
  <2> DEFINE p == ProjectOf(repo, job)
             j == JobName(job)
  <2>1. dir(p, repo.name, j) = NameOf(repo, job) /\ j # <<>>
    BY <1>9, <1>12
  <2>2. JobDetail(repo, job, p, repo.name, j)
    BY <2>1 DEF JobDetail
  <2>3. HasDetail(m, p, repo.name, j)
    BY <1>3, <1>6, <1>12, <2>2 DEF SectionDetail
  <2> QED
    BY <2>1, <2>3
<1>13. ASSUME NEW repo, Covered(file, repo)
       PROVE  \E p, r, j : HasDetail(m, p, r, j) /\ dir(p, r, j) = CovName(repo)
  <2>1. PICK i \in DOMAIN ps : ps[i].repo = repo /\ CoverageProject(repo, ps[i].jobs) = repo.org
    BY <1>5, <1>13
  <2>2. repo.name \in map
    BY <1>1, <1>7, <1>13
  <2>3. SectionDetail(ps[i], map, repo.org, repo.name, TestCoverage)
    BY <2>1, <2>2 DEF SectionDetail
  <2>4. HasDetail(m, repo.org, repo.name, TestCoverage)
    BY <1>3, <2>3
  <2> QED
    BY <1>10, <1>13, <2>4
<1> QED
  BY <1>8, <1>11, <1>12, <1>13 DEF dir, DirsMatch

LEMMA GroupsDone ==
  ASSUME GoodFile(file), InOrder(file), JobsInv(file, jobs, metaData), AllMade(file, jobs),
         CoveragesMade(file, jobs), CoverageAfterMain, MetaUpTo(file, metaData, Len(file.periodics)),
         NEW n, n = addCustomJobsTestgrid(addRemainingTestCoverageJobs(metaData))
  PROVE  {g.dir : g \in generateTestGroups(n)} = NamesOf(jobs) \cup ToSet(customJobnames)
<1> DEFINE m == metaData
           dir(p, r, j) == DirOf(p, r, j)
<1>1. /\ m.coverage = {}
      /\ \A p, r, j : HasDetail(m, p, r, j) =>
              \/ \E repo, job : /\ JobIn(file, repo, job) /\ Periodic(repo, job).return = FALSE
                                /\ dir(p, r, j) = NameOf(repo, job)
              \/ \E repo : Covered(file, repo) /\ dir(p, r, j) = CovName(repo)
      /\ \A repo, job : JobIn(file, repo, job) /\ Periodic(repo, job).return = FALSE =>
              \E p, r, j : HasDetail(m, p, r, j) /\ dir(p, r, j) = NameOf(repo, job)
      /\ \A repo : Covered(file, repo) =>
              \E p, r, j : HasDetail(m, p, r, j) /\ dir(p, r, j) = CovName(repo)
  <2>1. IsList(jobs)
    BY DEF JobsInv
  <2> QED
    <3>1. m.coverage = {} /\ DirsMatch(file, m)
      BY <2>1, DetailDirs
    <3> QED
      BY <3>1 DEF DirsMatch
<1>2. /\ Detailed(m) /\ Aligns(m)
  BY DEF MetaUpTo
<1>3. n = addCustomJobsTestgrid(m)
  BY <1>1, NoRemaining
<1>4. MetaShape(n) /\ SameDetails(m, n) /\ TestNames(n) = TestNames(m) \cup ToSet(customJobnames)
  BY <1>2, <1>3, CustomMeans DEF Detailed
<1>5. Detailed(n) /\ Aligns(n) /\ \A p, r, j : HasDetail(n, p, r, j) <=> HasDetail(m, p, r, j)
  BY <1>2, <1>4 DEF Detailed, Aligns, HasDetail, HasItem, SameDetails
<1> HIDE DEF m, dir
<1>6. \A y : (\E g \in generateTestGroups(n) : y = g.dir) <=>
         \/ \E p, r, j : HasDetail(m, p, r, j) /\ y = dir(p, r, j)
         \/ y \in TestNames(m) \/ y \in ToSet(customJobnames)
  BY <1>4, <1>5, GroupDirs DEF dir, DirOf
<1>7. /\ \A j \in PeriodicOnes(jobs) : JobFrom(file, m, j)
      /\ TestNames(m) \subseteq NamesOf(jobs)
  BY DEF JobsInv, m
<1>8. \A j \in PeriodicOnes(jobs) :
         \/ j.name \in TestNames(m)
         \/ \E repo, job : /\ JobIn(file, repo, job) /\ Periodic(repo, job).return = FALSE
                           /\ j.name = NameOf(repo, job)
         \/ \E repo : Covered(file, repo) /\ j.name = CovName(repo)
  BY <1>7 DEF JobFrom, JobIn
<1>9. ASSUME NEW y, \E g \in generateTestGroups(n) : y = g.dir
      PROVE  y \in NamesOf(jobs) \cup ToSet(customJobnames)
  <2>1. CASE \E p, r, j : HasDetail(m, p, r, j) /\ y = dir(p, r, j)
    <3>1. \/ \E repo, job : /\ JobIn(file, repo, job) /\ Periodic(repo, job).return = FALSE
                            /\ y = NameOf(repo, job)
          \/ \E repo : Covered(file, repo) /\ y = CovName(repo)
      BY <1>1, <2>1
    <3>2. ASSUME NEW repo, NEW job, JobIn(file, repo, job), Periodic(repo, job).return = FALSE
          PROVE  NameOf(repo, job) \in NamesOf(jobs)
      BY <3>2 DEF AllMade, Made
    <3>3. ASSUME NEW repo, Covered(file, repo)
          PROVE  CovName(repo) \in NamesOf(jobs)
      BY <3>3 DEF CoveragesMade, CovMade, NamesOf
    <3> QED
      BY <3>1, <3>2, <3>3
  <2> QED
    BY <1>6, <1>7, <1>9, <2>1
<1>10. ASSUME NEW y \in NamesOf(jobs)
       PROVE  \E g \in generateTestGroups(n) : y = g.dir
  <2>1. PICK j \in PeriodicOnes(jobs) : y = j.name
    BY DEF NamesOf
  <2>2. CASE y \in TestNames(m)
    BY <1>6, <2>2
  <2>3. ASSUME NEW repo, NEW job, JobIn(file, repo, job), Periodic(repo, job).return = FALSE,
               y = NameOf(repo, job)
        PROVE  \E g \in generateTestGroups(n) : y = g.dir
    <3>1. \E p, r, k : HasDetail(m, p, r, k) /\ dir(p, r, k) = y
      BY <1>1, <2>3
    <3> QED
      BY <1>6, <3>1
  <2>4. ASSUME NEW repo, Covered(file, repo), y = CovName(repo)
        PROVE  \E g \in generateTestGroups(n) : y = g.dir
    <3>1. \E p, r, k : HasDetail(m, p, r, k) /\ dir(p, r, k) = y
      BY <1>1, <2>4
    <3> QED
      BY <1>6, <3>1
  <2>5. \/ y \in TestNames(m)
        \/ \E repo, job : /\ JobIn(file, repo, job) /\ Periodic(repo, job).return = FALSE
                          /\ y = NameOf(repo, job)
        \/ \E repo : Covered(file, repo) /\ y = CovName(repo)
    BY <1>8, <2>1
  <2> QED
    BY <2>2, <2>3, <2>4, <2>5
<1>11. \A y \in ToSet(customJobnames) : \E g \in generateTestGroups(n) : y = g.dir
  BY <1>6
<1> QED
  BY <1>9, <1>10, <1>11

-----------------------------------------------------------------------------
(* What the phases of main have done.                                       *)

FirstPass == {"presubmits", "periodics", "coverage", "perf", "postsubmits"}

NoDetails(m) == m.md = <<>> /\ m.projNames = <<>> /\ m.repoNames = <<>> /\ m.coverage = {}

\* A repository is in the list when its job of coverage has been seen, or will be.
PresubmitsLeft(c, t, rs) ==
    /\ \A x \in ToSet(t) : \E repo, job : x = JobCall(repo, job) /\ PresubmitIn(c, repo, job)
    /\ \A repo, job : PresubmitIn(c, repo, job) /\ Covers(repo, job) =>
                         Listed(rs, repo) \/ JobCall(repo, job) \in ToSet(t)

\* A job has been made, or will be.
PeriodicsLeft(c, t, s) ==
    /\ \A x \in ToSet(t) : x.call = "coverage" \/ \E repo, job : x = JobCall(repo, job) /\ JobIn(c, repo, job)
    /\ \A repo, job : JobIn(c, repo, job) => Made(s, repo, job) \/ JobCall(repo, job) \in ToSet(t)

AllListed(c, rs) == \A repo : Covered(c, repo) => Listed(rs, repo)

CoveragesLeft(t, rs, s) ==
    \A i \in DOMAIN rs : rs[i].EnableGoCoverage =>
        CovMade(s, rs[i].repo) \/ \E x \in ToSet(t) : x.repo = rs[i].repo

\* The sections after the k-th are left.
SectionsLeft(c, t, m) ==
    \E k \in 0..Len(c.periodics) :
        t = SubSeq(c.periodics, k + 1, Len(c.periodics)) /\ MetaUpTo(c, m, k)

Stage(p, c, t, rs, s, m, k8s) ==
    /\ p \in FirstPass => MadeInv(c, s, m, rs) /\ NoDetails(m) /\ IsList(t)
    /\ p = "presubmits" => PresubmitsLeft(c, t, rs)
    /\ p \in {"periodics", "coverage"} => AllListed(c, rs)
    /\ p = "periodics" => PeriodicsLeft(c, t, s)
    /\ p \in {"coverage", "perf", "postsubmits", "metadata"} => AllMade(c, s)
    /\ p = "coverage" => CoveragesLeft(t, rs, s)
    /\ p \in {"perf", "postsubmits", "metadata"} => CoveragesMade(c, s)
    /\ p = "metadata" => JobsInv(c, s, m) /\ SectionsLeft(c, t, m) /\ k8s = generateK8sTestgrid(c)

StageNow == Stage(pc, file, todo, repositories, jobs, metaData, grid.k8s)

LEMMA FailedStage ==
  ASSUME Fatal
  PROVE  StageNow'
  BY DEF Fatal, StageNow, Stage, FirstPass

LEMMA NextStage ==
  ASSUME StageNow, UNCHANGED <<pc, file, todo, repositories, jobs, metaData, grid>>
  PROVE  StageNow'
  BY DEF StageNow

LEMMA MoreLeft ==
  ASSUME NEW s, NEW new, NEW m, NEW n, NEW rs, NEW ts, MadeMore(s, new, m, n, rs, ts)
  PROVE  /\ NoDetails(m) => NoDetails(n)
         /\ \A repo, job : Made(s, repo, job) => Made(new, repo, job)
         /\ \A repo : CovMade(s, repo) => CovMade(new, repo)
         /\ \A repo : Listed(rs, repo) => Listed(ts, repo)
<1>1. /\ \A repo, job : Made(s, repo, job) => Made(new, repo, job)
      /\ \A repo : CovMade(s, repo) => CovMade(new, repo)
  BY MoreJobsMade DEF MadeMore
<1> QED
  BY <1>1 DEF MadeMore, NoDetails, SameDetails

LEMMA PresubmitStage ==
  ASSUME jobNameFilter = <<>>, GoodFile(file), StageNow, PresubmitCall
  PROVE  StageNow'
<1> DEFINE x == Head(todo)
<1>1. pc = "presubmits" /\ todo # <<>>
  BY DEF PresubmitCall
<1>2. CASE PresubmitFatal(x.repo, x.job)
  <2>1. Fatal
    BY <1>2 DEF PresubmitCall
  <2> QED
    BY <2>1, FailedStage
<1>3. CASE ~PresubmitFatal(x.repo, x.job)
  <2>1. /\ generatePresubmit(x.repo, x.job)
        /\ todo' = Tail(todo) /\ UNCHANGED <<pc, file, metaData>>
    BY <1>3 DEF PresubmitCall, Done1, Unchanged
  <2>2. /\ MadeInv(file, jobs, metaData, repositories) /\ NoDetails(metaData) /\ IsList(todo)
        /\ PresubmitsLeft(file, todo, repositories)
    BY <1>1 DEF StageNow, Stage, FirstPass
  <2>3. /\ IsList(Tail(todo)) /\ x \in ToSet(todo) /\ ToSet(todo) = {x} \cup ToSet(Tail(todo))
    BY <1>1, <2>2, ListHas
  <2>4. PICK repo : \E job : x = JobCall(repo, job) /\ PresubmitIn(file, repo, job)
    BY <2>2, <2>3 DEF PresubmitsLeft
  <2>5. PICK job : x = JobCall(repo, job) /\ PresubmitIn(file, repo, job)
    BY <2>4
  <2>6. x.repo = repo /\ x.job = job
    BY <2>5 DEF JobCall
  <2> HIDE DEF x
  <2>7. generatePresubmit(repo, job)
    BY <2>1, <2>6
  <2>8. /\ MadeInv(file, jobs', metaData, repositories')
        /\ MadeMore(jobs, jobs', metaData, metaData, repositories, repositories')
        /\ Covers(repo, job) => Listed(repositories', repo)
    BY <2>2, <2>5, <2>7, PresubmitAdds
  <2>9. \A r : Listed(repositories, r) => Listed(repositories', r)
    BY <2>8 DEF MadeMore
  <2>10. PresubmitsLeft(file, todo', repositories')
    <3>1. \A y \in ToSet(todo') : \E r, j : y = JobCall(r, j) /\ PresubmitIn(file, r, j)
      BY <2>1, <2>2, <2>3 DEF PresubmitsLeft
    <3>2. ASSUME NEW r, NEW j, PresubmitIn(file, r, j), Covers(r, j)
          PROVE  Listed(repositories', r) \/ JobCall(r, j) \in ToSet(todo')
      <4>1. Listed(repositories, r) \/ JobCall(r, j) \in ToSet(todo)
        BY <2>2, <3>2 DEF PresubmitsLeft
      <4>2. CASE JobCall(r, j) = x
        <5>1. r = repo /\ j = job
          BY <2>5, <4>2 DEF JobCall
        <5> QED
          BY <2>8, <3>2, <5>1
      <4> QED
        BY <2>1, <2>3, <2>9, <4>1, <4>2
    <3> QED
      BY <3>1, <3>2 DEF PresubmitsLeft
  <2>11. pc' = "presubmits" /\ file' = file /\ metaData' = metaData /\ IsList(todo')
    BY <1>1, <2>1, <2>3
  <2>12. Stage(pc', file, todo', repositories', jobs', metaData', grid'.k8s)
    BY <2>2, <2>8, <2>10, <2>11 DEF Stage, FirstPass
  <2> QED
    BY <2>11, <2>12 DEF StageNow
<1> QED
  BY <1>2, <1>3

LEMMA PeriodicStage ==
  ASSUME jobNameFilter = <<>>, GoodFile(file), InOrder(file), StageNow, PeriodicCall
  PROVE  StageNow'
<1> DEFINE x == Head(todo)
<1>1. pc = "periodics" /\ todo # <<>>
  BY DEF PeriodicCall
<1>2. /\ MadeInv(file, jobs, metaData, repositories) /\ NoDetails(metaData) /\ IsList(todo)
      /\ AllListed(file, repositories) /\ PeriodicsLeft(file, todo, jobs)
  BY <1>1 DEF StageNow, Stage, FirstPass
<1>3. /\ IsList(Tail(todo)) /\ x \in ToSet(todo) /\ ToSet(todo) = {x} \cup ToSet(Tail(todo))
  BY <1>1, <1>2, ListHas
<1>4. Fatal \/ (generateGoCoveragePeriodic(x.repo) /\ x.call = "coverage" /\ Done1)
            \/ (generatePeriodic(x.repo, x.job) /\ x.call # "coverage" /\ Done1)
  BY DEF PeriodicCall
<1>5. CASE Fatal
  BY <1>5, FailedStage
<1>6. ASSUME Done1, MadeInv(file, jobs', metaData', repositories'),
             MadeMore(jobs, jobs', metaData, metaData', repositories, repositories'),
             \A repo, job : JobIn(file, repo, job) /\ x = JobCall(repo, job) => Made(jobs', repo, job)
      PROVE  StageNow'
  <2>1. todo' = Tail(todo) /\ pc' = "periodics" /\ file' = file
    BY <1>1, <1>6 DEF Done1, Unchanged
  <2>2. /\ NoDetails(metaData')
        /\ \A repo, job : Made(jobs, repo, job) => Made(jobs', repo, job)
        /\ \A repo : Listed(repositories, repo) => Listed(repositories', repo)
    BY <1>2, <1>6, MoreLeft
  <2>3. AllListed(file, repositories')
    BY <1>2, <2>2 DEF AllListed
  <2> HIDE DEF x
  <2>4. PeriodicsLeft(file, todo', jobs')
    <3>1. \A y \in ToSet(todo') : y.call = "coverage" \/ \E r, j : y = JobCall(r, j) /\ JobIn(file, r, j)
      BY <1>2, <1>3, <2>1 DEF PeriodicsLeft
    <3>2. ASSUME NEW r, NEW j, JobIn(file, r, j)
          PROVE  Made(jobs', r, j) \/ JobCall(r, j) \in ToSet(todo')
      <4>1. Made(jobs, r, j) \/ JobCall(r, j) \in ToSet(todo)
        BY <1>2, <3>2 DEF PeriodicsLeft
      <4>2. JobCall(r, j) \in ToSet(todo) => JobCall(r, j) = x \/ JobCall(r, j) \in ToSet(todo')
        BY <1>3, <2>1
      <4> QED
        BY <1>6, <2>2, <3>2, <4>1, <4>2
    <3> QED
      BY <3>1, <3>2 DEF PeriodicsLeft
  <2>5. IsList(todo')
    BY <1>3, <2>1
  <2>6. Stage(pc', file, todo', repositories', jobs', metaData', grid'.k8s)
    BY <1>6, <2>1, <2>2, <2>3, <2>4, <2>5 DEF Stage, FirstPass
  <2> QED
    BY <2>1, <2>6 DEF StageNow
<1>7. CASE generateGoCoveragePeriodic(x.repo) /\ x.call = "coverage" /\ Done1
  <2> DEFINE repo == x.repo
  <2>1. \A r, j : x # JobCall(r, j)
    BY <1>7 DEF JobCall
  <2>2. generateGoCoveragePeriodic(repo)
    BY <1>7
  <2> HIDE DEF x, repo
  <2>3. /\ MadeInv(file, jobs', metaData', repositories')
        /\ MadeMore(jobs, jobs', metaData, metaData', repositories, repositories')
    BY <1>2, <2>2, CoverageAdds
  <2> QED
    BY <1>6, <1>7, <2>1, <2>3
<1>8. CASE generatePeriodic(x.repo, x.job) /\ x.call # "coverage" /\ Done1
  <2>1. PICK repo : \E job : x = JobCall(repo, job) /\ JobIn(file, repo, job)
    BY <1>2, <1>3, <1>8 DEF PeriodicsLeft
  <2>2. PICK job : x = JobCall(repo, job) /\ JobIn(file, repo, job)
    BY <2>1
  <2>3. x.repo = repo /\ x.job = job
    BY <2>2 DEF JobCall
  <2> HIDE DEF x
  <2>4. generatePeriodic(repo, job)
    BY <1>8, <2>3
  <2>5. /\ MadeInv(file, jobs', metaData', repositories')
        /\ MadeMore(jobs, jobs', metaData, metaData', repositories, repositories')
        /\ Made(jobs', repo, job)
    BY <1>2, <2>2, <2>4, PeriodicAdds
  <2>6. \A r, j : x = JobCall(r, j) => r = repo /\ j = job
    BY <2>2 DEF JobCall
  <2>7. \A r, j : JobIn(file, r, j) /\ x = JobCall(r, j) => Made(jobs', r, j)
    BY <2>5, <2>6
  <2> QED
    BY <1>6, <1>8, <2>5, <2>7
<1> QED
  BY <1>4, <1>5, <1>7, <1>8

LEMMA CoverageStage ==
  ASSUME jobNameFilter = <<>>, StageNow, CoverageCall
  PROVE  StageNow'
<1> DEFINE x == Head(todo)
           repo == x.repo
<1>1. /\ pc = "coverage" /\ todo # <<>> /\ generateGoCoveragePeriodic(repo)
      /\ todo' = Tail(todo) /\ pc' = "coverage" /\ file' = file
  BY DEF CoverageCall, Done1, Unchanged
<1>2. /\ MadeInv(file, jobs, metaData, repositories) /\ NoDetails(metaData) /\ IsList(todo)
      /\ AllListed(file, repositories) /\ AllMade(file, jobs) /\ CoveragesLeft(todo, repositories, jobs)
  BY <1>1 DEF StageNow, Stage, FirstPass
<1>3. /\ IsList(Tail(todo)) /\ ToSet(todo) = {x} \cup ToSet(Tail(todo))
  BY <1>1, <1>2, ListHas
<1>4. /\ MadeInv(file, jobs', metaData', repositories')
      /\ MadeMore(jobs, jobs', metaData, metaData', repositories, repositories')
      /\ Listed(repositories, repo) => CovMade(jobs', repo)
      /\ DOMAIN repositories' = DOMAIN repositories
      /\ \A k \in DOMAIN repositories : SameEntry(repositories[k], repositories'[k])
  <2> HIDE DEF repo
  <2> QED
    BY <1>1, <1>2, CoverageAdds
<1>5. /\ NoDetails(metaData')
      /\ \A r, j : Made(jobs, r, j) => Made(jobs', r, j)
      /\ \A r : CovMade(jobs, r) => CovMade(jobs', r)
      /\ \A r : Listed(repositories, r) => Listed(repositories', r)
  BY <1>2, <1>4, MoreLeft
<1>6. AllListed(file, repositories') /\ AllMade(file, jobs')
  BY <1>2, <1>5 DEF AllListed, AllMade
<1>7. ASSUME NEW i \in DOMAIN repositories', repositories'[i].EnableGoCoverage
      PROVE  CovMade(jobs', repositories'[i].repo) \/ \E y \in ToSet(todo') : y.repo = repositories'[i].repo
  <2>1. /\ i \in DOMAIN repositories /\ repositories[i].EnableGoCoverage
        /\ repositories'[i].repo = repositories[i].repo
    BY <1>4, <1>7 DEF SameEntry
  <2>2. CovMade(jobs, repositories[i].repo) \/ \E y \in ToSet(todo) : y.repo = repositories[i].repo
    BY <1>2, <2>1 DEF CoveragesLeft
  <2>3. CASE repositories[i].repo = repo
    <3>1. Listed(repositories, repo)
      BY <2>1, <2>3 DEF Listed
    <3> QED
      BY <1>4, <2>1, <2>3, <3>1
  <2>4. CASE repositories[i].repo # repo
    <3>1. \A y \in ToSet(todo) : y.repo = repositories[i].repo => y \in ToSet(todo')
      BY <1>1, <1>3, <2>4
    <3> QED
      BY <1>5, <2>1, <2>2, <3>1
  <2> QED
    BY <2>3, <2>4
<1>8. CoveragesLeft(todo', repositories', jobs')
  BY <1>7 DEF CoveragesLeft
<1>9. IsList(todo')
  BY <1>1, <1>3
<1>10. Stage(pc', file, todo', repositories', jobs', metaData', grid'.k8s)
  BY <1>1, <1>4, <1>5, <1>6, <1>8, <1>9 DEF Stage, FirstPass
<1> QED
  BY <1>1, <1>10 DEF StageNow

LEMMA OtherStage ==
  ASSUME jobNameFilter = <<>>, StageNow, PerfCall \/ PostsubmitCall
  PROVE  StageNow'
<1> DEFINE x == Head(todo)
           data == repositories[x.i]
<1>1. /\ pc \in {"perf", "postsubmits"} /\ todo # <<>>
      /\ generatePerfClusterUpdatePeriodicJobs(x.repo) \/ generatePostsubmits(data)
      /\ todo' = Tail(todo) /\ UNCHANGED <<pc, file, repositories, metaData>>
  BY DEF PerfCall, PostsubmitCall, Done1, Unchanged
<1>2. /\ MadeInv(file, jobs, metaData, repositories) /\ NoDetails(metaData) /\ IsList(todo)
      /\ AllMade(file, jobs) /\ CoveragesMade(file, jobs)
  BY <1>1 DEF StageNow, Stage, FirstPass
<1>3. IsList(Tail(todo))
  BY <1>1, <1>2, ListHas
<1>4. PeriodicOnes(jobs') = PeriodicOnes(jobs) /\ JobsInv(file, jobs', metaData)
  <2>1. JobsInv(file, jobs, metaData)
    BY <1>2 DEF MadeInv
  <2> DEFINE repo == x.repo
  <2>2. generatePerfClusterUpdatePeriodicJobs(repo) \/ generatePostsubmits(data)
    BY <1>1
  <2> HIDE DEF repo, data
  <2> QED
    BY <2>1, <2>2, PerfOther, PostsubmitOther
<1>5. ReposInv(file, jobs', repositories)
  <2>1. \A r : CovMade(jobs, r) => CovMade(jobs', r)
    BY <1>4 DEF CovMade
  <2> QED
    BY <1>2, <2>1 DEF MadeInv, ReposInv, EntryFrom
<1>6. AllMade(file, jobs') /\ CoveragesMade(file, jobs')
  BY <1>2, <1>4 DEF AllMade, CoveragesMade, Made, NamesOf, CovMade
<1>7. Stage(pc, file, Tail(todo), repositories, jobs', metaData, grid'.k8s)
  BY <1>1, <1>2, <1>3, <1>4, <1>5, <1>6 DEF Stage, FirstPass, MadeInv
<1> QED
  BY <1>1, <1>7 DEF StageNow

\* The sections of a good file, as the calls need them.
LEMMA SectionLists ==
  ASSUME NEW c, GoodFile(c)
  PROVE  /\ IsList(c.presubmits) /\ \A i \in DOMAIN c.presubmits : IsList(c.presubmits[i].jobs)
         /\ IsList(c.periodics) /\ \A i \in DOMAIN c.periodics : IsList(c.periodics[i].jobs)
<1>1. c.presubmits \in Seq(Section) /\ c.periodics \in Seq(SensibleSection)
  BY DEF GoodFile
<1>2. /\ \A i \in DOMAIN c.presubmits : c.presubmits[i] \in Section
      /\ \A i \in DOMAIN c.periodics : c.periodics[i] \in SensibleSection
  BY <1>1
<1> QED
  BY <1>1, <1>2 DEF IsList, Section, SensibleSection

LEMMA ReadStage ==
  ASSUME GoodFile(file), ReadConfig, jobs = <<>>, repositories = <<>>, metaData = NewTestGridMetaData
  PROVE  StageNow'
<1> DEFINE qs == file.presubmits
           calls == Calls(qs, FALSE)
<1>1. /\ pc' = "presubmits" /\ todo' = calls
      /\ UNCHANGED <<file, repositories, jobs, metaData>>
  BY DEF ReadConfig, Unchanged
<1>2. /\ IsList(calls)
      /\ \A x \in ToSet(calls) : \E i \in DOMAIN qs : \E k \in DOMAIN qs[i].jobs :
             x = JobCall(qs[i].repo, qs[i].jobs[k])
      /\ \A i \in DOMAIN qs : \A k \in DOMAIN qs[i].jobs :
             JobCall(qs[i].repo, qs[i].jobs[k]) \in ToSet(calls)
  <2>1. IsList(qs) /\ \A i \in DOMAIN qs : IsList(qs[i].jobs)
    BY SectionLists
  <2> HIDE DEF qs
  <2> QED
    BY <2>1, CallsAre
<1>3. \A r, j : PresubmitIn(file, r, j) <=>
         \E i \in DOMAIN qs : qs[i].repo = r /\ \E k \in DOMAIN qs[i].jobs : qs[i].jobs[k] = j
  BY DEF PresubmitIn
<1> HIDE DEF calls, qs
<1>4. PresubmitsLeft(file, calls, repositories)
  <2>1. ASSUME NEW x \in ToSet(calls)
        PROVE  \E r, j : x = JobCall(r, j) /\ PresubmitIn(file, r, j)
    <3>1. PICK i \in DOMAIN qs : \E k \in DOMAIN qs[i].jobs : x = JobCall(qs[i].repo, qs[i].jobs[k])
      BY <1>2
    <3>2. PICK k \in DOMAIN qs[i].jobs : x = JobCall(qs[i].repo, qs[i].jobs[k])
      BY <3>1
    <3>3. PresubmitIn(file, qs[i].repo, qs[i].jobs[k])
      BY <1>3
    <3> QED
      BY <3>2, <3>3
  <2>2. \A r, j : PresubmitIn(file, r, j) => JobCall(r, j) \in ToSet(calls)
    BY <1>2, <1>3
  <2> QED
    BY <2>1, <2>2 DEF PresubmitsLeft
<1>5. MadeInv(file, jobs, metaData, repositories) /\ NoDetails(metaData)
  <2>1. IsList(<<>>)
    <3> DEFINE none == {}
    <3>1. <<>> \in Seq(none)
      OBVIOUS
    <3> HIDE DEF none
    <3> QED
      BY <3>1 DEF IsList
  <2>2. DOMAIN repositories = {} /\ ToSet(jobs) = {} /\ metaData.nonAligned = <<>>
        /\ ToSet(metaData.nonAligned) = {}
    BY <2>1, ListHas DEF NewTestGridMetaData
  <2>3. NoDetails(metaData) /\ DOMAIN metaData = {"md", "projNames", "repoNames", "nonAligned", "coverage"}
    BY DEF NewTestGridMetaData, NoDetails
  <2>4. ReposInv(file, jobs, repositories)
    BY <2>1, <2>2 DEF ReposInv
  <2>5. MetaShape(metaData)
    BY <2>1, <2>2, <2>3 DEF MetaShape, IsList
  <2>6. PeriodicOnes(jobs) = {} /\ TestNames(metaData) = {}
    BY <2>2 DEF PeriodicOnes, TestNames
  <2> QED
    BY <2>1, <2>3, <2>4, <2>5, <2>6 DEF MadeInv, JobsInv
<1>6. Stage("presubmits", file, calls, repositories, jobs, metaData, grid'.k8s)
  BY <1>2, <1>4, <1>5 DEF Stage, FirstPass
<1> QED
  BY <1>1, <1>6 DEF StageNow

LEMMA PhaseStage ==
  ASSUME GoodFile(file), StageNow, Phases
  PROVE  StageNow'
<1> DEFINE kept == UNCHANGED <<file, repositories, jobs, metaData>>
           done == {i \in WithCoverage : ~repositories[i].Processed}
<1>0. ToSet(<<>>) = {}
  BY DEF ToSet
<1>1. /\ kept /\ todo = <<>>
      /\ \/ /\ pc = "presubmits" /\ pc' = "periodics" /\ todo' = Calls(file.periodics, TRUE)
         \/ /\ pc = "periodics" /\ pc' = "coverage" /\ todo' = Entries("coverage", done)
         \/ /\ pc = "coverage" /\ pc' = "perf" /\ todo' = Entries("perf", WithPerformance)
         \/ /\ pc = "perf" /\ pc' = "postsubmits"
            /\ todo' = Entries("post", WithCoverage \cup WithPerformance)
  BY DEF Phases, NextPhase, Unchanged
<1>2. MadeInv(file, jobs, metaData, repositories) /\ NoDetails(metaData)
  BY <1>1 DEF StageNow, Stage, FirstPass
<1>3. /\ IsList(repositories) /\ \A i \in DOMAIN repositories : EntryFrom(file, jobs, repositories[i])
  BY <1>2 DEF MadeInv, ReposInv
<1>4. \A call, wanted : IsList(Entries(call, wanted))
  BY <1>3, EntriesAre
<1>5. CASE pc = "presubmits" /\ pc' = "periodics" /\ todo' = Calls(file.periodics, TRUE)
  <2> DEFINE ps == file.periodics
             calls == Calls(ps, TRUE)
  <2>1. PresubmitsLeft(file, todo, repositories)
    BY <1>5 DEF StageNow, Stage
  <2>2. AllListed(file, repositories)
    <3>1. ASSUME NEW repo, Covered(file, repo)
          PROVE  Listed(repositories, repo)
      <4>1. PICK k \in DOMAIN file.presubmits : /\ file.presubmits[k].repo = repo
              /\ \E h \in DOMAIN file.presubmits[k].jobs : Covers(repo, file.presubmits[k].jobs[h])
        BY <3>1 DEF Covered
      <4>2. PICK h \in DOMAIN file.presubmits[k].jobs : Covers(repo, file.presubmits[k].jobs[h])
        BY <4>1
      <4>3. PresubmitIn(file, repo, file.presubmits[k].jobs[h])
        BY <4>1 DEF PresubmitIn
      <4> QED
        BY <1>0, <1>1, <2>1, <4>2, <4>3 DEF PresubmitsLeft
    <3> QED
      BY <3>1 DEF AllListed
  <2>3. /\ IsList(calls)
        /\ \A x \in ToSet(calls) : \E i \in DOMAIN ps :
             \/ x = CovCall(ps[i].repo)
             \/ \E k \in DOMAIN ps[i].jobs : x = JobCall(ps[i].repo, ps[i].jobs[k])
        /\ \A i \in DOMAIN ps : \A k \in DOMAIN ps[i].jobs :
             JobCall(ps[i].repo, ps[i].jobs[k]) \in ToSet(calls)
    <3>1. IsList(ps) /\ \A i \in DOMAIN ps : IsList(ps[i].jobs)
      BY SectionLists
    <3> HIDE DEF ps
    <3> QED
      BY <3>1, CallsAre
  <2>4. \A r, j : JobIn(file, r, j) <=>
         \E i \in DOMAIN ps : ps[i].repo = r /\ \E k \in DOMAIN ps[i].jobs : ps[i].jobs[k] = j
    BY DEF JobIn
  <2> HIDE DEF calls, ps
  <2>5. PeriodicsLeft(file, calls, jobs)
    <3>1. ASSUME NEW x \in ToSet(calls)
          PROVE  x.call = "coverage" \/ \E r, j : x = JobCall(r, j) /\ JobIn(file, r, j)
      <4>1. PICK i \in DOMAIN ps : \/ x = CovCall(ps[i].repo)
                                   \/ \E k \in DOMAIN ps[i].jobs : x = JobCall(ps[i].repo, ps[i].jobs[k])
        BY <2>3
      <4>2. CASE x = CovCall(ps[i].repo)
        BY <4>2 DEF CovCall
      <4>3. ASSUME NEW k \in DOMAIN ps[i].jobs, x = JobCall(ps[i].repo, ps[i].jobs[k])
            PROVE  \E r, j : x = JobCall(r, j) /\ JobIn(file, r, j)
        <5>1. JobIn(file, ps[i].repo, ps[i].jobs[k])
          BY <2>4
        <5> QED
          BY <4>3, <5>1
      <4> QED
        BY <4>1, <4>2, <4>3
    <3>2. \A r, j : JobIn(file, r, j) => JobCall(r, j) \in ToSet(calls)
      BY <2>3, <2>4
    <3> QED
      BY <3>1, <3>2 DEF PeriodicsLeft
  <2>6. Stage("periodics", file, calls, repositories, jobs, metaData, grid'.k8s)
    BY <1>2, <2>2, <2>3, <2>5 DEF Stage, FirstPass
  <2>7. todo' = calls
    BY <1>5 DEF calls, ps
  <2> QED
    BY <1>1, <1>5, <2>6, <2>7 DEF StageNow
<1>6. CASE pc = "periodics" /\ pc' = "coverage" /\ todo' = Entries("coverage", done)
  <2>1. PeriodicsLeft(file, todo, jobs) /\ AllListed(file, repositories)
    BY <1>6 DEF StageNow, Stage
  <2>2. AllMade(file, jobs)
    BY <1>0, <1>1, <2>1 DEF PeriodicsLeft, AllMade
  <2>3. CoveragesLeft(todo', repositories, jobs)
    <3>1. ASSUME NEW i \in DOMAIN repositories, repositories[i].EnableGoCoverage
          PROVE  CovMade(jobs, repositories[i].repo) \/ \E x \in ToSet(todo') : x.repo = repositories[i].repo
      <4>1. CASE repositories[i].Processed
        BY <1>3, <4>1 DEF EntryFrom
      <4>2. CASE ~repositories[i].Processed
        <5>1. i \in done
          BY <3>1, <4>2 DEF WithCoverage
        <5> HIDE DEF done
        <5> QED
          BY <1>3, <1>6, <5>1, EntriesAre
      <4> QED
        BY <4>1, <4>2
    <3> QED
      BY <3>1 DEF CoveragesLeft
  <2>4. IsList(todo')
    BY <1>4, <1>6
  <2>5. Stage("coverage", file, todo', repositories, jobs, metaData, grid'.k8s)
    BY <1>2, <2>1, <2>2, <2>3, <2>4 DEF Stage, FirstPass
  <2> QED
    BY <1>1, <1>6, <2>5 DEF StageNow
<1>7. CASE pc = "coverage" /\ pc' = "perf" /\ todo' = Entries("perf", WithPerformance)
  <2>1. CoveragesLeft(todo, repositories, jobs) /\ AllListed(file, repositories) /\ AllMade(file, jobs)
    BY <1>7 DEF StageNow, Stage
  <2>2. CoveragesMade(file, jobs)
    BY <1>0, <1>1, <2>1 DEF CoveragesLeft, AllListed, Listed, CoveragesMade
  <2>3. IsList(todo')
    BY <1>4, <1>7
  <2>4. Stage("perf", file, todo', repositories, jobs, metaData, grid'.k8s)
    BY <1>2, <2>1, <2>2, <2>3 DEF Stage, FirstPass
  <2> QED
    BY <1>1, <1>7, <2>4 DEF StageNow
<1>8. CASE pc = "perf" /\ pc' = "postsubmits" /\ todo' = Entries("post", WithCoverage \cup WithPerformance)
  <2>1. CoveragesMade(file, jobs) /\ AllMade(file, jobs)
    BY <1>8 DEF StageNow, Stage
  <2>2. IsList(todo')
    BY <1>4, <1>8
  <2>3. Stage("postsubmits", file, todo', repositories, jobs, metaData, grid'.k8s)
    BY <1>2, <2>1, <2>2 DEF Stage, FirstPass
  <2> QED
    BY <1>1, <1>8, <2>3 DEF StageNow
<1> QED
  BY <1>1, <1>5, <1>6, <1>7, <1>8

LEMMA EmptyList == IsList(<<>>) /\ ToSet(<<>>) = {}
<1> DEFINE none == {}
<1>1. <<>> \in Seq(none)
  OBVIOUS
<1> HIDE DEF none
<1>2. IsList(<<>>)
  BY <1>1 DEF IsList
<1> QED
  BY <1>2, ListHas

GridShape(g) == {"groups", "tabs", "k8s"} \subseteq DOMAIN g

LEMMA K8sStage ==
  ASSUME GoodFile(file), StageNow, GridShape(grid), K8sTestgrid
  PROVE  StageNow'
<1> DEFINE ps == file.periodics
           map == parseGoCoverageMap(file)
           n == [metaData EXCEPT !.coverage = map]
           shown == generateK8sTestgrid(file)
           there == \E i \in DOMAIN file.periodics : file.periodics[i].repo.org = <<"knative">>
<1>1. CASE ~there
  BY <1>1, FailedStage DEF K8sTestgrid
<1>2. CASE there
  <2>1. /\ pc = "postsubmits" /\ pc' = "metadata" /\ todo' = ps /\ metaData' = n
        /\ grid' = [grid EXCEPT !.k8s = shown] /\ UNCHANGED <<file, repositories, jobs>>
    BY <1>2 DEF K8sTestgrid
  <2> HIDE DEF map
  <2>2. /\ JobsInv(file, jobs, metaData) /\ NoDetails(metaData)
        /\ AllMade(file, jobs) /\ CoveragesMade(file, jobs)
    BY <2>1 DEF StageNow, Stage, FirstPass, MadeInv
  <2>3. MetaShape(metaData)
    BY <2>2 DEF JobsInv
  <2>4. /\ DOMAIN n = DOMAIN metaData /\ n.nonAligned = metaData.nonAligned /\ n.coverage = map
        /\ n.md = <<>> /\ n.projNames = <<>> /\ n.repoNames = <<>>
    BY <2>2, <2>3 DEF MetaShape, NoDetails
  <2> HIDE DEF n
  <2>5. MetaShape(n) /\ TestNames(n) = TestNames(metaData)
    BY <2>3, <2>4 DEF MetaShape, TestNames
  <2>6. JobsInv(file, jobs, n)
    BY <2>2, <2>5, MoreFrom DEF JobsInv
  <2>7. Detailed(n) /\ Aligns(n) /\ \A p, r, j : ~HasDetail(n, p, r, j)
    BY <2>4, <2>5, EmptyList DEF Detailed, Aligns, HasItem, HasDetail
  <2>8. 1..0 = {}
    OBVIOUS
  <2>9. MetaUpTo(file, n, 0)
    BY <2>4, <2>7, <2>8 DEF MetaUpTo, map
  <2>10. ps \in Seq(SensibleSection)
    BY DEF GoodFile
  <2> HIDE DEF ps
  <2>11. Len(ps) \in Nat /\ ps = SubSeq(ps, 0 + 1, Len(ps))
    BY <2>10
  <2>12. SectionsLeft(file, ps, n)
    BY <2>9, <2>11 DEF SectionsLeft, ps
  <2>13. grid'.k8s = shown
    <3> HIDE DEF shown
    <3> QED
      BY <2>1 DEF GridShape
  <2> HIDE DEF shown
  <2>14. Stage("metadata", file, ps, repositories, jobs, n, shown)
    BY <2>2, <2>6, <2>12 DEF Stage, FirstPass, shown
  <2> QED
    BY <2>1, <2>13, <2>14 DEF StageNow
<1> QED
  BY <1>1, <1>2

\* The list without its first k elements, when there are more.
LEMMA RestIs ==
  ASSUME NEW S, NEW s \in Seq(S), NEW k \in Nat, k < Len(s)
  PROVE  LET t == SubSeq(s, k + 1, Len(s))
         IN  /\ t # <<>> /\ Head(t) = s[k + 1] /\ Tail(t) = SubSeq(s, (k + 1) + 1, Len(s))
<1> DEFINE t == SubSeq(s, k + 1, Len(s))
           u == SubSeq(s, (k + 1) + 1, Len(s))
<1>0. Len(s) \in Nat
  OBVIOUS
<1>1. t \in Seq(S) /\ u \in Seq(S)
  OBVIOUS
<1>2. Len(t) = Len(s) - k
  BY <1>0
<1>3. Len(u) = Len(s) - (k + 1)
  BY <1>0
<1>4. \A i \in 1..Len(t) : t[i] = s[k + i]
  BY <1>0, <1>2
<1>5. \A i \in 1..Len(u) : u[i] = s[(k + 1) + i]
  BY <1>0, <1>3
<1> HIDE DEF t, u
<1>6. t # <<>> /\ Head(t) = s[k + 1]
  BY <1>0, <1>1, <1>2, <1>4
<1>7. Tail(t) = u
  <2> DEFINE v == Tail(t)
             n == Len(u)
  <2>1. v \in Seq(S) /\ Len(v) = Len(t) - 1 /\ \A i \in 1..Len(v) : v[i] = t[i + 1]
    BY <1>1, <1>6
  <2>2. n \in Nat /\ Len(v) = n
    BY <1>0, <1>2, <1>3, <1>1, <2>1
  <2>3. \A i \in 1..n : i + 1 \in 1..Len(t) /\ k + (i + 1) = (k + 1) + i
    BY <1>0, <1>2, <1>3
  <2>4. \A i \in 1..n : v[i] = u[i]
    BY <1>4, <1>5, <2>1, <2>2, <2>3
  <2> HIDE DEF v
  <2>5. v = [i \in 1..n |-> v[i]] /\ u = [i \in 1..n |-> u[i]]
    BY <1>1, <2>1, <2>2
  <2> QED
    BY <2>4, <2>5 DEF v
<1> QED
  BY <1>6, <1>7 DEF t, u

LEMMA CollectStage ==
  ASSUME GoodFile(file), StageNow, CollectCall
  PROVE  StageNow'
<1> DEFINE ps == file.periodics
           l == Len(ps)
           map == parseGoCoverageMap(file)
           x == Head(todo)
<1>1. /\ pc = "metadata" /\ pc' = "metadata" /\ todo # <<>> /\ collectMetaData(x)
      /\ todo' = Tail(todo) /\ UNCHANGED <<file, repositories, jobs, grid>>
  BY DEF CollectCall, Done1, Unchanged
<1>2. /\ AllMade(file, jobs) /\ CoveragesMade(file, jobs) /\ JobsInv(file, jobs, metaData)
      /\ SectionsLeft(file, todo, metaData) /\ grid.k8s = generateK8sTestgrid(file)
  BY <1>1 DEF StageNow, Stage
<1>3. PICK k \in 0..l : todo = SubSeq(ps, k + 1, l) /\ MetaUpTo(file, metaData, k)
  BY <1>2 DEF SectionsLeft
<1>4. ps \in Seq(SensibleSection) /\ FileParts(file.presubmits, ps)
  BY FilePartsAre DEF GoodFile
<1>5. l \in Nat /\ DOMAIN ps = 1..l
  BY <1>4
<1>6. \A i \in DOMAIN ps : IsList(ps[i].jobs)
  BY SectionLists
<1>7. \A i, h \in 1..l : ps[h].repo.name = ps[i].repo.name => h = i
  BY <1>4, <1>5 DEF FileParts
<1> HIDE DEF ps, l
<1>8. k < l /\ x = ps[k + 1] /\ Tail(todo) = SubSeq(ps, (k + 1) + 1, l)
  <2>1. k \in Nat /\ k <= l
    BY <1>5
  <2>2. k < l
    <3>1. CASE k = l
      <4>1. SubSeq(ps, k + 1, l) = <<>>
        BY <1>4, <1>5, <3>1 DEF l
      <4> QED
        BY <1>1, <1>3, <4>1
    <3> QED
      BY <1>5, <2>1, <3>1
  <2> QED
    BY <1>3, <1>4, <2>1, <2>2, RestIs DEF l
<1>9. k + 1 \in 0..l /\ k + 1 \in 1..l /\ 1..(k + 1) = (1..k) \cup {k + 1} /\ k + 1 \notin 1..k
      /\ 1..k \subseteq 1..l
  BY <1>5, <1>8
<1> DEFINE s == ps[k + 1]
           names(m) == {ps[i].repo.name : i \in 1..m}
<1>10. /\ Detailed(metaData) /\ Aligns(metaData)
       /\ \A p, r, j : HasDetail(metaData, p, r, j) <=> \E i \in 1..k : SectionDetail(ps[i], map, p, r, j)
       /\ metaData.coverage = map \ names(k)
  BY <1>3 DEF MetaUpTo, ps
<1>11. /\ Detailed(metaData') /\ Aligns(metaData') /\ metaData'.nonAligned = metaData.nonAligned
       /\ metaData'.coverage = metaData.coverage \ {s.repo.name}
       /\ \A p, r, j : HasDetail(metaData', p, r, j) <=>
              HasDetail(metaData, p, r, j) \/ SectionDetail(s, metaData.coverage, p, r, j)
  <2>1. IsList(s.jobs) /\ collectMetaData(s)
    BY <1>1, <1>5, <1>6, <1>8, <1>9
  <2> HIDE DEF s
  <2> QED
    BY <1>10, <2>1, SectionCollected
<1> HIDE DEF map
<1>12. s.repo.name \in metaData.coverage <=> s.repo.name \in map
  <2>1. s.repo.name \notin names(k)
    BY <1>7, <1>9
  <2> QED
    BY <1>10, <2>1
<1>13. \A p, r, j : SectionDetail(s, metaData.coverage, p, r, j) <=> SectionDetail(s, map, p, r, j)
  <2> HIDE DEF s
  <2> QED
    BY <1>12 DEF SectionDetail
<1>14. \A p, r, j : HasDetail(metaData', p, r, j) <=> \E i \in 1..(k + 1) : SectionDetail(ps[i], map, p, r, j)
  BY <1>9, <1>10, <1>11, <1>13
<1>15. metaData'.coverage = map \ names(k + 1)
  <2>1. names(k + 1) = names(k) \cup {s.repo.name}
    BY <1>9
  <2> HIDE DEF names, s
  <2> QED
    BY <1>10, <1>11, <2>1
<1>16. MetaUpTo(file, metaData', k + 1)
  BY <1>11, <1>14, <1>15 DEF MetaUpTo, ps, map
<1>17. SectionsLeft(file, Tail(todo), metaData')
  BY <1>8, <1>9, <1>16 DEF SectionsLeft, ps, l
<1>18. JobsInv(file, jobs, metaData')
  <2>1. MetaShape(metaData') /\ TestNames(metaData') = TestNames(metaData)
    BY <1>11 DEF Detailed, TestNames
  <2> QED
    BY <1>2, <2>1, MoreFrom DEF JobsInv
<1>19. Stage("metadata", file, Tail(todo), repositories, jobs, metaData', grid.k8s)
  BY <1>2, <1>17, <1>18 DEF Stage, FirstPass
<1> QED
  BY <1>1, <1>19 DEF StageNow

LEMMA GroupsMade ==
  ASSUME jobNameFilter = <<>>, GoodFile(file), InOrder(file), StageNow, GridShape(grid), Testgrid
  PROVE  GroupsMatchJobs'
<1> DEFINE n == addCustomJobsTestgrid(addRemainingTestCoverageJobs(metaData))
           groups == generateTestGroups(n)
           tabs == generateTabs(n)
           boards == generateDashboardGroups(n)
           shown == generateK8sTestgrid(file)
<1>1. /\ pc = "metadata" /\ todo = <<>> /\ UNCHANGED <<file, jobs>>
      /\ grid' = [grid EXCEPT !.groups = groups, !.tabs = tabs, !.dashboards = boards]
  BY DEF Testgrid
<1>2. /\ AllMade(file, jobs) /\ CoveragesMade(file, jobs) /\ JobsInv(file, jobs, metaData)
      /\ SectionsLeft(file, todo, metaData) /\ grid.k8s = shown
  BY <1>1 DEF StageNow, Stage
<1>3. MetaUpTo(file, metaData, Len(file.periodics))
  <2> DEFINE ps == file.periodics
             l == Len(ps)
  <2>1. PICK k \in 0..l : todo = SubSeq(ps, k + 1, l) /\ MetaUpTo(file, metaData, k)
    BY <1>2 DEF SectionsLeft
  <2>2. ps \in Seq(SensibleSection)
    BY DEF GoodFile
  <2> HIDE DEF ps
  <2>3. l \in Nat
    BY <2>2
  <2>4. k = l
    <3>1. ASSUME k < l
          PROVE  FALSE
      <4>1. SubSeq(ps, k + 1, l) # <<>>
        BY <2>2, <2>3, <3>1, RestIs
      <4> QED
        BY <1>1, <2>1, <4>1
    <3> QED
      BY <2>3, <3>1
  <2> QED
    BY <2>1, <2>4 DEF ps
<1> HIDE DEF groups, tabs, boards, shown, n
<1>4. grid'.groups = groups /\ grid'.tabs = tabs /\ grid'.k8s = shown
  BY <1>1, <1>2 DEF GridShape
<1>5. ASSUME CoverageAfterMain
      PROVE  {g.dir : g \in groups} =
                {jobs[i].name : i \in {k \in DOMAIN jobs : jobs[k].kind = "periodic"}} \cup ToSet(customJobnames)
  <2>1. {g.dir : g \in groups} = NamesOf(jobs) \cup ToSet(customJobnames)
    <3>1. n = addCustomJobsTestgrid(addRemainingTestCoverageJobs(metaData))
      BY DEF n
    <3> QED
      BY <1>2, <1>3, <1>5, <3>1, GroupsDone DEF groups
  <2>2. NamesOf(jobs) = {jobs[i].name : i \in {k \in DOMAIN jobs : jobs[k].kind = "periodic"}}
    <3>1. ToSet(jobs) = {jobs[i] : i \in DOMAIN jobs}
      BY DEF ToSet
    <3> QED
      BY <3>1 DEF NamesOf, PeriodicOnes
  <2> QED
    BY <2>1, <2>2
<1>6. \A t \in tabs : \E g \in groups : g.name = t.group
  BY TabsShown DEF tabs, groups
<1>7. ASSUME CoverageAfterMain, NEW i \in DOMAIN jobs, jobs[i].kind = "periodic"
      PROVE  jobs[i].annotations.dashboard \in shown
  <2> DEFINE j == jobs[i]
             ps == file.periodics
             board == j.annotations.dashboard
  <2>1. shown = {ps[h].repo.org \o ps[h].repo.name : h \in DOMAIN ps} \cup {betaDashboard}
    BY DEF shown, generateK8sTestgrid
  <2>2. j \in PeriodicOnes(jobs)
    BY <1>7 DEF PeriodicOnes, ToSet
  <2>3. JobFrom(file, metaData, j)
    BY <1>2, <2>2 DEF JobsInv
  <2>4. \A h \in DOMAIN ps : Dashboard(ps[h].repo) \in shown
    BY <2>1 DEF Dashboard
  <2>5. \/ board = betaDashboard
        \/ \E h \in DOMAIN ps : board = Dashboard(ps[h].repo)
        \/ Covered(file, j.base.repo) /\ board = Dashboard(j.base.repo)
    BY <2>3 DEF JobFrom
  <2> HIDE DEF board
  <2>6. ASSUME board = betaDashboard
        PROVE  board \in shown
    BY <2>1, <2>6
  <2>7. ASSUME \E h \in DOMAIN ps : board = Dashboard(ps[h].repo)
        PROVE  board \in shown
    BY <2>4, <2>7
  <2>8. ASSUME Covered(file, j.base.repo) /\ board = Dashboard(j.base.repo)
        PROVE  board \in shown
    <3> DEFINE repo == j.base.repo
    <3>1. IsList(jobs) /\ Covered(file, repo) /\ board = Dashboard(repo)
      BY <1>2, <2>8 DEF JobsInv
    <3> HIDE DEF repo
    <3>2. \E h \in DOMAIN ps : ps[h].repo = repo
      BY <1>2, <1>7, <3>1, CoverageIn
    <3> QED
      BY <2>4, <3>1, <3>2
  <2>9. board \in shown
    BY <2>5, <2>6, <2>7, <2>8
  <2> QED
    BY <2>9 DEF board, j
<1>8. CoverageAfterMain' => CoverageAfterMain
  BY <1>1 DEF CoverageAfterMain, HasCoverage
<1> QED
  BY <1>1, <1>4, <1>5, <1>6, <1>7, <1>8 DEF GroupsMatchJobs

\* Nothing has been made before the file is read.
NothingMade ==
    pc = "start" => jobs = <<>> /\ repositories = <<>> /\ metaData = NewTestGridMetaData

GroupsInv ==
    /\ UpgradeInv /\ NothingMade /\ GridShape(grid) /\ GroupsMatchJobs
    /\ jobNameFilter = <<>> /\ InOrder(file) => StageNow

LEMMA GroupsInit ==
  ASSUME Init
  PROVE  GroupsInv
<1>1. pc = "start"
  BY DEF Init
<1>2. UpgradeInv
  BY UpgradeInit
<1>3. NothingMade /\ GridShape(grid)
  BY DEF Init, NothingMade, GridShape, NoGrid
<1>4. GroupsMatchJobs
  BY <1>1 DEF GroupsMatchJobs
<1>5. StageNow
  BY <1>1 DEF StageNow, Stage, FirstPass
<1> QED
  BY <1>2, <1>3, <1>4, <1>5 DEF GroupsInv

\* A step between the reading of the file and the end.
Middle ==
    \/ GitHubFails \/ ReadConfig
    \/ PresubmitCall \/ PeriodicCall \/ CoverageCall \/ PerfCall \/ PostsubmitCall
    \/ Phases \/ K8sTestgrid \/ CollectCall

LEMMA MiddleKeeps ==
  ASSUME Middle
  PROVE  pc' \notin {"start", "done"} /\ file' = file /\ (GridShape(grid) => GridShape(grid'))
<1>1. CASE GitHubFails
  BY <1>1 DEF GitHubFails, Fatal
<1>2. CASE ReadConfig
  BY <1>2 DEF ReadConfig, Unchanged
<1>3. CASE PresubmitCall
  BY <1>3 DEF PresubmitCall, Fatal, Done1, Unchanged
<1>4. CASE PeriodicCall
  <2>1. pc = "periodics" /\ (Fatal \/ Done1)
    BY <1>4 DEF PeriodicCall
  <2> QED
    BY <2>1 DEF Fatal, Done1, Unchanged
<1>5. CASE CoverageCall
  BY <1>5 DEF CoverageCall, Done1, Unchanged
<1>6. CASE PerfCall
  BY <1>6 DEF PerfCall, Done1, Unchanged
<1>7. CASE PostsubmitCall
  BY <1>7 DEF PostsubmitCall, Done1, Unchanged
<1>8. CASE Phases
  BY <1>8 DEF Phases, NextPhase, Unchanged
<1>9. CASE K8sTestgrid
  <2>1. \/ Fatal
        \/ pc' = "metadata" /\ file' = file /\ grid' = [grid EXCEPT !.k8s = generateK8sTestgrid(file)]
    BY <1>9 DEF K8sTestgrid
  <2> QED
    BY <2>1 DEF Fatal, GridShape
<1>10. CASE CollectCall
  BY <1>10 DEF CollectCall, Done1, Unchanged
<1> QED
  BY <1>1, <1>2, <1>3, <1>4, <1>5, <1>6, <1>7, <1>8, <1>9, <1>10 DEF Middle

LEMMA MiddleStage ==
  ASSUME jobNameFilter = <<>>, GoodFile(file), InOrder(file), GroupsInv, Middle
  PROVE  StageNow'
<1>1. StageNow /\ NothingMade /\ GridShape(grid)
  BY DEF GroupsInv
<1>2. CASE GitHubFails
  BY <1>2, FailedStage DEF GitHubFails
<1>3. CASE ReadConfig
  BY <1>1, <1>3, ReadStage DEF NothingMade, ReadConfig
<1>4. CASE PresubmitCall
  BY <1>1, <1>4, PresubmitStage
<1>5. CASE PeriodicCall
  BY <1>1, <1>5, PeriodicStage
<1>6. CASE CoverageCall
  BY <1>1, <1>6, CoverageStage
<1>7. CASE PerfCall \/ PostsubmitCall
  BY <1>1, <1>7, OtherStage
<1>8. CASE Phases
  BY <1>1, <1>8, PhaseStage
<1>9. CASE K8sTestgrid
  BY <1>1, <1>9, K8sStage
<1>10. CASE CollectCall
  BY <1>1, <1>10, CollectStage
<1> QED
  BY <1>2, <1>3, <1>4, <1>5, <1>6, <1>7, <1>8, <1>9, <1>10 DEF Middle

LEMMA GroupsNext ==
  ASSUME FilesSensible, BranchesListed, BranchesNumbered, GroupsInv, [Next]_vars
  PROVE  GroupsInv'
<1>1. UpgradeInv' /\ GoodFile(file)
  <2>1. UpgradeInv
    BY DEF GroupsInv
  <2> QED
    BY <2>1, UpgradeNext, FileGood
<1>2. NothingMade /\ GridShape(grid) /\ GroupsMatchJobs /\ (jobNameFilter = <<>> /\ InOrder(file) => StageNow)
  BY DEF GroupsInv
<1>3. ASSUME UNCHANGED vars
      PROVE  GroupsInv'
  <2>1. /\ UNCHANGED <<pc, file, todo, repositories, jobs, metaData, grid>>
    BY <1>3 DEF vars
  <2>2. NothingMade' /\ GridShape(grid')
    BY <1>2, <2>1 DEF NothingMade
  <2>3. GroupsMatchJobs'
    BY <1>2, <2>1 DEF GroupsMatchJobs, CoverageAfterMain, HasCoverage
  <2>4. jobNameFilter = <<>> /\ InOrder(file') => StageNow'
    BY <1>2, <2>1, NextStage
  <2> QED
    BY <1>1, <2>2, <2>3, <2>4 DEF GroupsInv
<1>4. ASSUME NEW released \in Branches, Upgrade(released)
      PROVE  GroupsInv'
  <2>1. pc = "start" /\ pc' = "start" /\ UNCHANGED <<repositories, jobs, metaData, grid>>
    BY <1>4 DEF Upgrade
  <2>2. NothingMade' /\ GridShape(grid')
    BY <1>2, <2>1 DEF NothingMade
  <2>3. GroupsMatchJobs'
    BY <2>1 DEF GroupsMatchJobs
  <2>4. StageNow'
    BY <2>1 DEF StageNow, Stage, FirstPass
  <2> QED
    BY <1>1, <2>2, <2>3, <2>4 DEF GroupsInv
<1>5. CASE Middle
  <2>1. pc' \notin {"start", "done"} /\ file' = file /\ GridShape(grid')
    BY <1>2, <1>5, MiddleKeeps
  <2>2. NothingMade' /\ GroupsMatchJobs'
    BY <2>1 DEF NothingMade, GroupsMatchJobs
  <2>3. jobNameFilter = <<>> /\ InOrder(file') => StageNow'
    BY <1>1, <1>5, <2>1, MiddleStage
  <2> QED
    BY <1>1, <2>1, <2>2, <2>3 DEF GroupsInv
<1>6. CASE Testgrid
  <2>1. pc' = "done" /\ file' = file
    BY <1>6 DEF Testgrid
  <2>2. NothingMade' /\ StageNow'
    BY <2>1 DEF NothingMade, StageNow, Stage, FirstPass
  <2>3. GridShape(grid')
    BY <1>2, <1>6 DEF Testgrid, GridShape
  <2>4. GroupsMatchJobs'
    <3>1. CASE jobNameFilter = <<>> /\ InOrder(file)
      BY <1>1, <1>2, <1>6, <3>1, GroupsMade
    <3>2. CASE ~(jobNameFilter = <<>> /\ InOrder(file))
      BY <2>1, <3>2 DEF GroupsMatchJobs
    <3> QED
      BY <3>1, <3>2
  <2> QED
    BY <1>1, <2>2, <2>3, <2>4 DEF GroupsInv
<1> QED
  BY <1>3, <1>4, <1>5, <1>6 DEF Next, Middle

\* The two passes over the file agree: when the generator is done, every test group reads the
\* logs of a periodic job, every such job has a test group and is on a dashboard of the
\* Kubernetes TestGrid, and every tab shows a test group (testgrid_config.go:235), for any file
\* in which a name means one repository and a job has one type, whatever the branches of
\* GitHub that it was upgraded to.
THEOREM GroupsSafe ==
  ASSUME FilesSensible, BranchesListed, BranchesNumbered
  PROVE  Spec => []GroupsMatchJobs
<1>1. Init => GroupsInv
  BY GroupsInit
<1>2. GroupsInv /\ [Next]_vars => GroupsInv'
  BY GroupsNext
<1>3. GroupsInv => GroupsMatchJobs
  BY DEF GroupsInv
<1> QED
  BY <1>1, <1>2, <1>3, PTL DEF Spec

=============================================================================
