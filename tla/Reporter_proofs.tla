-------------------------- MODULE Reporter_proofs --------------------------
(***************************************************************************)
(* What holds of the reporter for any number of issues and of people's      *)
(* reopenings, and for every set of faults.                                 *)
(***************************************************************************)
EXTENDS Reporter, FiniteSetTheorems, WellFoundedInduction, TLAPS

-----------------------------------------------------------------------------
(* getFlakyIssues keeps an issue if there is one.                          *)

\* A set of natural numbers has a smallest element.
LEMMA SmallestOf ==
  ASSUME NEW S \in SUBSET Nat, S # {}
  PROVE  \E m \in S : \A k \in S : m <= k
<1>1. PICK m \in S : \A k \in S : ~(<<k, m>> \in OpToRel(<, Nat))
  BY NatLessThanWellFounded, WFMin, Zenon
<1>2. \A k \in S : ~(k < m)
  BY <1>1, Zenon DEF OpToRel
<1>3. QED
  BY <1>2

\* Of some issues one is the oldest.
LEMMA OldestSome ==
  ASSUME NEW X \in SUBSET Read, X # {}
  PROVE  Oldest(X) # {}
<1> DEFINE S == {x.id : x \in X}
<1>1. S \in SUBSET Nat /\ S # {}
  BY ReporterAssumption DEF Read, IDs
<1> HIDE DEF S
<1>2. PICK m \in S : \A k \in S : m <= k
  BY <1>1, SmallestOf
<1>3. PICK x \in X : x.id = m
  BY DEF S
<1>4. \A y \in X : x.id <= y.id
  BY <1>2, <1>3 DEF S
<1>5. QED
  BY <1>4 DEF Oldest

\* However many issues there are and whichever are closed, the removal loop and the
\* sort leave at least one to update.
LEMMA KeptSome ==
  ASSUME NEW X \in SUBSET Read
  PROVE  /\ Kept(X) \in SUBSET X
         /\ X # {} => Kept(X) # {}
<1>1. CASE Mixed(X)
  BY <1>1 DEF Kept, Mixed, Remaining, In
<1>2. CASE ~Mixed(X) /\ In(X, "open") # {}
  BY <1>2 DEF Kept, In
<1>3. CASE ~Mixed(X) /\ In(X, "open") = {}
  BY <1>3, OldestSome DEF Kept, Oldest
<1>4. QED
  BY <1>1, <1>2, <1>3

-----------------------------------------------------------------------------
(* The issues that are tracked.                                            *)

LEMMA TrackedFinite ==
  /\ Tracked \in SUBSET IDs
  /\ IsFiniteSet(Tracked)
  /\ Cardinality(Tracked) \in Nat
<1>1. Tracked \in SUBSET IDs
  BY DEF Tracked, Labelled
<1>2. IsFiniteSet(IDs)
  BY ReporterAssumption, FS_Interval DEF IDs
<1>3. IsFiniteSet(Tracked)
  BY <1>1, <1>2, FS_Subset
<1>4. QED
  BY <1>1, <1>3, FS_CardinalityType

\* No issue comes to be tracked, and no more than before may be added.
LEMMA RoomKept ==
  ASSUME TypeOK, RoomForNew, Tracked' \in SUBSET Tracked,
         MayBeAdded' <= MayBeAdded, UNCHANGED reopened
  PROVE  RoomForNew'
<1>1. /\ Cardinality(Tracked') \in Nat
      /\ Cardinality(Tracked') <= Cardinality(Tracked)
  BY TrackedFinite, FS_Subset, FS_CardinalityType
<1>2. MayBeAdded \in {0, 1} /\ MayBeAdded' \in {0, 1}
  BY DEF MayBeAdded
<1>3. Cardinality(Tracked) + MayBeAdded <= 1 + reopened
  BY DEF RoomForNew
<1>4. Cardinality(Tracked') + MayBeAdded' <= 1 + reopened'
  BY <1>1, <1>2, <1>3, TrackedFinite DEF TypeOK
<1>5. QED
  BY <1>4 DEF RoomForNew

\* An issue comes to be tracked, which was about to be added or was reopened.
LEMMA RoomUsed ==
  ASSUME TypeOK, RoomForNew, NEW i, Tracked' \in SUBSET (Tracked \cup {i}),
         reopened' \in Nat,
         MayBeAdded' + 1 + reopened <= MayBeAdded + reopened'
  PROVE  RoomForNew'
<1> DEFINE T == Tracked \cup {i}
<1>1. /\ IsFiniteSet(T) /\ Cardinality(T) \in Nat
      /\ Cardinality(T) <= Cardinality(Tracked) + 1
  BY TrackedFinite, FS_AddElement
<1>2. /\ Cardinality(Tracked') \in Nat
      /\ Cardinality(Tracked') <= Cardinality(T)
  BY <1>1, FS_Subset, FS_CardinalityType
<1> HIDE DEF T
<1>3. MayBeAdded \in {0, 1} /\ MayBeAdded' \in {0, 1}
  BY DEF MayBeAdded
<1>4. Cardinality(Tracked) + MayBeAdded <= 1 + reopened
  BY DEF RoomForNew
<1>5. /\ Cardinality(Tracked) \in Nat
      /\ Cardinality(Tracked') <= Cardinality(Tracked) + 1
  BY <1>1, <1>2, TrackedFinite
<1>6. reopened \in Nat
  BY DEF TypeOK
<1>7. \A c, d, r, s \in Nat, m, n \in {0, 1} :
        d <= c + 1 /\ c + m <= 1 + r /\ n + 1 + r <= m + s => d + n <= 1 + s
  OBVIOUS
<1>8. Cardinality(Tracked') + MayBeAdded' <= 1 + reopened'
  BY <1>2, <1>3, <1>4, <1>5, <1>6, <1>7
<1>9. QED
  BY <1>8 DEF RoomForNew

\* While GitHub does not change, neither do the sets of issues.
LEMMA SameIssues ==
  ASSUME UNCHANGED issue
  PROVE  /\ Labelled' = Labelled /\ Open' = Open /\ Tracked' = Tracked
         /\ \A i \in IDs : TellsFlaky(i)' = TellsFlaky(i)
<1>1. Labelled' = Labelled
  BY DEF Labelled
<1>2. Open' = Open /\ Tracked' = Tracked
  BY <1>1 DEF Open, Tracked
<1>3. \A i \in IDs : TellsFlaky(i)' = TellsFlaky(i)
  BY DEF TellsFlaky
<1>4. QED
  BY <1>1, <1>2, <1>3

-----------------------------------------------------------------------------
(* The inductive invariant, action by action.                              *)

IInv == TypeOK /\ ScanInv

LEMMA IdleType == Idle \in Scan /\ Idle.todo = {} /\ Idle.pc = "idle" /\ ~Idle.clean
  BY DEF Idle, Scan

LEMMA IInit == Init => IInv
<1> SUFFICES ASSUME Init PROVE IInv
  OBVIOUS
<1>1. TypeOK
  BY IdleType DEF Init, TypeOK, NoIssue, FlakyIssue
<1>2. Labelled = {} /\ Tracked = {}
  BY DEF Init, NoIssue, Labelled, Tracked
<1>3. NeverMalformed
  BY <1>2 DEF NeverMalformed
<1>4. WritesWell
  BY <1>2, IdleType DEF Init, WritesWell
<1>5. PassesCounted
  BY IdleType, ReporterAssumption DEF Init, NoIssue, PassesCounted,
     ClosedAfterTwoBuilds, Closes
<1>6. RoomForNew
  BY <1>2, FS_EmptySet, IdleType DEF Init, RoomForNew, MayBeAdded
<1>7. CleanScanTracks
  BY IdleType DEF Init, CleanScanTracks
<1>8. QED
  BY <1>1, <1>3, <1>4, <1>5, <1>6, <1>7 DEF IInv, ScanInv

\* The reporter stops, for whatever reason.
LEMMA IExit ==
  ASSUME IInv, Exit, UNCHANGED <<issue, result, reopened, passes>>
  PROVE  IInv'
<1>1. scan' = Idle
  BY DEF Exit
<1>2. TypeOK'
  BY <1>1, IdleType DEF IInv, TypeOK
<1>3. NeverMalformed'
  BY SameIssues DEF IInv, ScanInv, NeverMalformed
<1>4. WritesWell' /\ CleanScanTracks'
  BY <1>1, IdleType, SameIssues DEF IInv, ScanInv, WritesWell, CleanScanTracks
<1>5. PassesCounted'
  BY <1>1, IdleType DEF IInv, ScanInv, PassesCounted, ClosedAfterTwoBuilds, Closes
<1>6. RoomForNew'
  <2>1. MayBeAdded' <= MayBeAdded
    BY <1>1, IdleType DEF MayBeAdded
  <2>2. QED
    BY <2>1, SameIssues, RoomKept DEF IInv, ScanInv
<1>7. QED
  BY <1>2, <1>3, <1>4, <1>5, <1>6 DEF IInv, ScanInv

\* A scan begins; only a comment may no longer be about the latest builds.
LEMMA IStart ==
  ASSUME IInv, StartNew \/ StartAgain
  PROVE  IInv'
<1>0. StartNew \/ UNCHANGED <<issue, result>>
  BY DEF StartAgain
<1>1. /\ scan' \in Scan
      /\ scan'.pc = "list" /\ scan'.todo = {} /\ scan'.appended = {}
      /\ scan'.clean => StartNew
      /\ result' \in Results
  BY ReporterAssumption DEF StartNew, StartAgain, Idle, Scan, IInv, TypeOK
<1>2. /\ issue' \in [IDs -> FlakyIssue]
      /\ \A i \in IDs : /\ issue'[i].label = issue[i].label
                        /\ issue'[i].state = issue[i].state
                        /\ issue'[i].old = issue[i].old
                        /\ issue'[i].status = issue[i].status
                        /\ StartNew => ~issue'[i].current
  <2>1. issue \in [IDs -> FlakyIssue]
    BY DEF IInv, TypeOK
  <2>2. CASE StartAgain
    <3>1. issue' = issue /\ ~StartNew
      BY <2>2 DEF StartAgain, StartNew, Idle
    <3>2. QED
      BY <2>1, <3>1
  <2>3. CASE StartNew
    BY <2>1, <2>3 DEF StartNew, FlakyIssue
  <2>4. QED
    BY <2>2, <2>3
<1>3. /\ scan.pc = "idle" /\ result' \in Results \cup {None}
      /\ UNCHANGED <<reopened, passes>>
  BY DEF StartNew, StartAgain, IInv, TypeOK
<1>4. Labelled' = Labelled /\ Tracked' = Tracked
  BY <1>2 DEF Labelled, Tracked
<1>5. TypeOK'
  BY <1>1, <1>2, <1>3 DEF IInv, TypeOK
<1>6. NeverMalformed'
  BY <1>2, <1>4 DEF IInv, ScanInv, NeverMalformed, Labelled
<1>7. WritesWell'
  BY <1>1, <1>2, <1>4, ReporterAssumption DEF IInv, ScanInv, WritesWell, Labelled,
     Results
<1>8. PassesCounted'
  BY <1>0, <1>1, <1>2, <1>3 DEF IInv, ScanInv, PassesCounted, ClosedAfterTwoBuilds,
     Closes
<1>9. RoomForNew'
  <2>1. MayBeAdded' <= MayBeAdded
    BY <1>1, <1>3 DEF MayBeAdded
  <2>2. QED
    BY <1>3, <1>4, <2>1, RoomKept DEF IInv, ScanInv
<1>10. CleanScanTracks'
  BY <1>1, <1>2 DEF CleanScanTracks
<1>11. QED
  BY <1>5, <1>6, <1>7, <1>8, <1>9, <1>10 DEF IInv, ScanInv

\* The issues of a test, as they are listed.
LEMMA AsReadType ==
  ASSUME TypeOK,
         \A i \in Labelled : issue[i].state # "none"
  PROVE  AsRead(Tracked) \in SUBSET Read
  BY DEF AsRead, Read, TypeOK, FlakyIssue, Tracked, Labelled

\* What is listed for the test is what of it is tracked, or the oldest issue, but
\* never nothing of something.
LEMMA IListIssues ==
  ASSUME IInv, ListIssues
  PROVE  IInv'
<1>1. CASE Exit
  BY <1>1, IExit DEF ListIssues
<1> DEFINE K == Kept(AsRead(Tracked))
<1>2. CASE scan' = [scan EXCEPT !.pc = "listed", !.todo = K]
  <2>1. /\ AsRead(Tracked) \in SUBSET Read
        /\ Tracked # {} => AsRead(Tracked) # {}
        /\ \A x \in AsRead(Tracked) : x.id \in Tracked /\ x.state = issue[x.id].state
        /\ \A x, y \in AsRead(Tracked) : x.id = y.id => x = y
    <3>1. AsRead(Tracked) \in SUBSET Read
      BY AsReadType DEF IInv, ScanInv, WritesWell
    <3>2. \A i \in Tracked : [id |-> i, state |-> issue[i].state] \in AsRead(Tracked)
      BY DEF AsRead
    <3>3. \A x \in AsRead(Tracked) : x.id \in Tracked /\ x.state = issue[x.id].state
      BY DEF AsRead
    <3>4. \A x, y \in AsRead(Tracked) : x.id = y.id => x = y
      BY DEF AsRead
    <3>5. QED
      BY <3>1, <3>2, <3>3, <3>4
  <2>2. /\ K \in SUBSET AsRead(Tracked)
        /\ Tracked # {} => K # {}
    BY <2>1, KeptSome
  <2> HIDE DEF K
  <2>3. /\ scan \in Scan /\ scan.pc = "list"
        /\ UNCHANGED <<issue, result, reopened, passes>>
    BY DEF ListIssues, IInv, TypeOK
  <2>4. /\ scan' \in Scan /\ scan'.pc = "listed" /\ scan'.todo = K
        /\ scan'.clean = scan.clean /\ scan'.appended = scan.appended
    BY <1>2, <2>1, <2>2, <2>3 DEF Scan
  <2>5. TypeOK'
    BY <2>3, <2>4 DEF IInv, TypeOK
  <2>6. NeverMalformed'
    BY <2>3, SameIssues DEF IInv, ScanInv, NeverMalformed
  <2>7. WritesWell'
    BY <2>1, <2>2, <2>3, <2>4, SameIssues DEF IInv, ScanInv, WritesWell
  <2>8. PassesCounted'
    BY <2>3, <2>4 DEF IInv, ScanInv, PassesCounted, ClosedAfterTwoBuilds, Closes
  <2>9. RoomForNew'
    <3>1. CASE Tracked = {}
      <4>1. Cardinality(Tracked') = 0
        BY <2>3, <3>1, SameIssues, FS_EmptySet
      <4>2. MayBeAdded' \in {0, 1} /\ reopened' \in Nat
        BY <2>3 DEF MayBeAdded, IInv, TypeOK
      <4>3. QED
        <5>1. \A m \in {0, 1}, r \in Nat : 0 + m <= 1 + r
          OBVIOUS
        <5>2. QED
          BY <4>1, <4>2, <5>1 DEF RoomForNew
    <3>2. CASE Tracked # {}
      <4>1. MayBeAdded' <= MayBeAdded
        BY <2>2, <2>3, <2>4, <3>2 DEF MayBeAdded
      <4>2. QED
        BY <2>3, <4>1, SameIssues, RoomKept DEF IInv, ScanInv
    <3>3. QED
      BY <3>1, <3>2
  <2>10. CleanScanTracks'
    BY <2>1, <2>2, <2>3, <2>4 DEF IInv, ScanInv, CleanScanTracks, Tracked, Labelled
  <2>11. QED
    BY <2>5, <2>6, <2>7, <2>8, <2>9, <2>10 DEF IInv, ScanInv
<1>3. QED
  BY <1>1, <1>2 DEF ListIssues

LEMMA IListAnother ==
  ASSUME IInv, ListAnother
  PROVE  IInv'
<1>1. CASE Exit
  BY <1>1, IExit DEF ListAnother
<1> DEFINE K == Kept(scan.todo)
<1>2. CASE scan' = [scan EXCEPT !.todo = K]
  <2>1. /\ scan \in Scan /\ scan.pc = "listed"
        /\ UNCHANGED <<issue, result, reopened, passes>>
    BY DEF ListAnother, IInv, TypeOK
  <2>2. /\ K \in SUBSET scan.todo
        /\ scan.todo # {} => K # {}
    BY <2>1, KeptSome DEF Scan
  <2> HIDE DEF K
  <2>3. /\ scan' \in Scan /\ scan'.pc = "listed" /\ scan'.todo = K
        /\ scan'.clean = scan.clean /\ scan'.appended = scan.appended
    BY <1>2, <2>1, <2>2 DEF Scan
  <2>4. TypeOK'
    BY <2>1, <2>3 DEF IInv, TypeOK
  <2>5. NeverMalformed'
    BY <2>1, SameIssues DEF IInv, ScanInv, NeverMalformed
  <2>6. WritesWell'
    BY <2>1, <2>2, <2>3, SameIssues DEF IInv, ScanInv, WritesWell
  <2>7. PassesCounted'
    BY <2>1, <2>3 DEF IInv, ScanInv, PassesCounted, ClosedAfterTwoBuilds, Closes
  <2>8. RoomForNew'
    <3>1. MayBeAdded' <= MayBeAdded
      BY <2>1, <2>2, <2>3 DEF MayBeAdded
    <3>2. QED
      BY <2>1, <3>1, SameIssues, RoomKept DEF IInv, ScanInv
  <2>9. CleanScanTracks'
    BY <2>1, <2>2, <2>3 DEF IInv, ScanInv, CleanScanTracks
  <2>10. QED
    BY <2>4, <2>5, <2>6, <2>7, <2>8, <2>9 DEF IInv, ScanInv
<1>3. QED
  BY <1>1, <1>2 DEF ListAnother

\* A flaky test that has no issue gets one, and any other a turn of updates.
LEMMA IProcessTest ==
  ASSUME IInv, ProcessTest
  PROVE  IInv'
<1>1. /\ scan \in Scan /\ scan.pc = "listed"
      /\ scan' = [scan EXCEPT !.pc = Branch]
      /\ UNCHANGED <<issue, result, reopened, passes>>
      /\ result \in Results
  BY DEF ProcessTest, IInv, TypeOK, ScanInv, WritesWell
<1>2. /\ Branch \in {"update", "create", "done"}
      /\ Branch = "update" => result \in {"Flaky", "Passed"} /\ scan.todo # {}
      /\ Branch = "create" => result = "Flaky" /\ scan.todo = {}
      /\ Branch = "done" => result # "Flaky"
  BY <1>1 DEF Branch, Results
<1>3. /\ scan' \in Scan /\ scan'.pc = Branch /\ scan'.todo = scan.todo
      /\ scan'.clean = scan.clean /\ scan'.appended = scan.appended
  BY <1>1, <1>2 DEF Scan
<1>4. TypeOK'
  BY <1>1, <1>3 DEF IInv, TypeOK
<1>5. NeverMalformed'
  BY <1>1, SameIssues DEF IInv, ScanInv, NeverMalformed
<1>6. WritesWell'
  BY <1>1, <1>2, <1>3, SameIssues DEF IInv, ScanInv, WritesWell
<1>7. PassesCounted'
  BY <1>1, <1>2, <1>3 DEF IInv, ScanInv, PassesCounted, ClosedAfterTwoBuilds, Closes
<1>8. RoomForNew'
  <2>1. MayBeAdded' <= MayBeAdded
    BY <1>1, <1>2, <1>3 DEF MayBeAdded
  <2>2. QED
    BY <1>1, <2>1, SameIssues, RoomKept DEF IInv, ScanInv
<1>9. CleanScanTracks'
  BY <1>1, <1>2, <1>3 DEF IInv, ScanInv, CleanScanTracks
<1>10. QED
  BY <1>4, <1>5, <1>6, <1>7, <1>8, <1>9 DEF IInv, ScanInv

-----------------------------------------------------------------------------
(* Updates.                                                                *)

\* An update changes no state of an issue, and only an issue with a comment.
LEMMA EditedIssues ==
  ASSUME IInv, NEW i \in Tracked, Edited(i), result \in {"Flaky", "Passed"}
  PROVE  /\ issue' \in [IDs -> FlakyIssue] /\ passes' \in [IDs -> 0 .. 2]
         /\ Labelled' = Labelled /\ Tracked' = Tracked /\ Open' = Open
         /\ \A j \in IDs : issue'[j].state = issue[j].state
         /\ \A j \in IDs \ {i} : issue'[j] = issue[j] /\ passes'[j] = passes[j]
         /\ issue'[i].status = result /\ issue'[i].current
         /\ result = "Passed" => passes'[i] > 0
         /\ result = "Passed" /\ issue[i].status = "Passed" /\ ~issue[i].current =>
               passes'[i] = 2
<1>1. /\ issue \in [IDs -> FlakyIssue] /\ passes \in [IDs -> 0 .. 2]
      /\ i \in IDs
      /\ issue[i].status = "Passed" => passes[i] > 0
      /\ issue[i].current => issue[i].status = result
  BY DEF IInv, TypeOK, Tracked, Labelled, ScanInv, PassesCounted
<1> DEFINE edited == [issue[i] EXCEPT !.status = result, !.current = TRUE]
           count  == IF result = "Flaky" THEN 0
                     ELSE IF issue[i].current \/ passes[i] = 2 THEN passes[i]
                     ELSE passes[i] + 1
<1>2. /\ issue' = [issue EXCEPT ![i] = edited]
      /\ passes' = [passes EXCEPT ![i] = count]
  BY <1>1 DEF Edited
<1>3. /\ edited \in FlakyIssue
      /\ edited.state = issue[i].state /\ edited.old = issue[i].old
      /\ edited.label = issue[i].label
      /\ edited.status = result /\ edited.current
  BY <1>1 DEF FlakyIssue
<1>4. /\ count \in 0 .. 2
      /\ result = "Passed" /\ issue[i].status = "Passed" /\ ~issue[i].current =>
            count = 2
  BY <1>1
<1>5. result = "Passed" => count > 0
  BY <1>1
<1> HIDE DEF edited, count
<1>6. /\ issue' \in [IDs -> FlakyIssue] /\ passes' \in [IDs -> 0 .. 2]
      /\ \A j \in IDs \ {i} : issue'[j] = issue[j] /\ passes'[j] = passes[j]
      /\ issue'[i] = edited /\ passes'[i] = count
  BY <1>1, <1>2, <1>3, <1>4
<1>7. /\ \A j \in IDs : /\ issue'[j].state = issue[j].state
                        /\ issue'[j].old = issue[j].old
                        /\ issue'[j].label = issue[j].label
  BY <1>3, <1>6
<1>8. Labelled' = Labelled /\ Tracked' = Tracked /\ Open' = Open
  BY <1>7 DEF Labelled, Tracked, Open
<1>9. QED
  BY <1>3, <1>4, <1>5, <1>6, <1>7, <1>8

\* An issue is done with, and its history in the comment.
LEMMA AppendType ==
  ASSUME scan \in Scan, NEW x \in Read
  PROVE  /\ Append(x) \in Scan
         /\ Append(x).pc = scan.pc /\ Append(x).clean = scan.clean
         /\ Append(x).todo = scan.todo \ {x}
         /\ Append(x).appended = scan.appended \cup {x.id}
  BY DEF Append, Scan, Read

\* An issue that is passed over, or a closed one of a test that has passed.
LEMMA IPassOver ==
  ASSUME IInv, NEW x \in scan.todo, scan.pc = "update",
         SkipIssue(x) \/ LeaveClosed(x), UNCHANGED <<result, reopened>>
  PROVE  IInv'
<1>1. /\ scan \in Scan /\ UNCHANGED <<issue, passes>>
      /\ scan' = [scan EXCEPT !.todo = @ \ {x}] \/ scan' = Append(x)
      /\ scan.clean => result # "Flaky"
  BY DEF SkipIssue, LeaveClosed, NotEdited, IInv, TypeOK, ScanInv, CleanScanTracks,
     MayContain, Edits
<1>2. /\ x \in Read /\ x.id \in IDs
  BY <1>1 DEF Scan, Read
<1>3. /\ scan' \in Scan /\ scan'.pc = "update" /\ scan'.todo = scan.todo \ {x}
      /\ scan'.clean = scan.clean
      /\ scan'.appended \in SUBSET (scan.appended \cup {x.id})
  BY <1>1, <1>2, AppendType DEF Scan
<1>4. TypeOK'
  BY <1>1, <1>3 DEF IInv, TypeOK
<1>5. NeverMalformed'
  BY <1>1, SameIssues DEF IInv, ScanInv, NeverMalformed
<1>6. WritesWell'
  <2>1. \A y \in scan'.todo : y.id # x.id
    BY <1>3 DEF IInv, ScanInv, WritesWell
  <2>2. QED
    BY <1>1, <1>3, <2>1, SameIssues DEF IInv, ScanInv, WritesWell
<1>7. PassesCounted'
  BY <1>1, <1>3 DEF IInv, ScanInv, PassesCounted, ClosedAfterTwoBuilds, Closes
<1>8. RoomForNew'
  <2>1. MayBeAdded' <= MayBeAdded
    BY <1>3 DEF MayBeAdded
  <2>2. QED
    BY <1>1, <2>1, SameIssues, RoomKept DEF IInv, ScanInv
<1>9. CleanScanTracks'
  BY <1>1, <1>3 DEF IInv, ScanInv, CleanScanTracks
<1>10. QED
  BY <1>4, <1>5, <1>6, <1>7, <1>8, <1>9 DEF IInv, ScanInv

\* An edit that is reported to have failed, whether or not it has.
LEMMA IEditFails ==
  ASSUME IInv, NEW x \in scan.todo, scan.pc = "update",
         EditFails(x), UNCHANGED <<result, reopened>>
  PROVE  IInv'
<1>1. /\ scan \in Scan /\ x \in Read /\ x.id \in Tracked /\ x.id \in IDs
      /\ result \in {"Flaky", "Passed"}
      /\ scan' = [Append(x) EXCEPT !.clean = FALSE]
      /\ UNCHANGED <<issue, passes>> \/ Edited(x.id)
  BY DEF EditFails, NotEdited, IInv, TypeOK, ScanInv, WritesWell, Scan, Read
<1>2. /\ scan' \in Scan /\ scan'.pc = "update" /\ scan'.todo = scan.todo \ {x}
      /\ ~scan'.clean
      /\ scan'.appended = scan.appended \cup {x.id}
  <2>1. scan.pc = "update"
    OBVIOUS
  <2>2. QED
    BY <1>1, <2>1, AppendType DEF Scan
<1>3. /\ issue' \in [IDs -> FlakyIssue] /\ passes' \in [IDs -> 0 .. 2]
      /\ Labelled' = Labelled /\ Tracked' = Tracked
      /\ \A j \in IDs : /\ issue'[j].state = issue[j].state
                        /\ \/ issue'[j] = issue[j] /\ passes'[j] = passes[j]
                           \/ /\ issue'[j].status = result
                              /\ result = "Passed" => passes'[j] > 0
  <2>1. CASE UNCHANGED <<issue, passes>>
    BY <2>1, SameIssues DEF IInv, TypeOK
  <2>2. CASE Edited(x.id)
    BY <1>1, <2>2, EditedIssues
  <2>3. QED
    BY <1>1, <2>1, <2>2
<1>4. TypeOK'
  BY <1>2, <1>3 DEF IInv, TypeOK
<1>5. NeverMalformed'
  BY <1>1, <1>3, ReporterAssumption DEF IInv, ScanInv, NeverMalformed, Labelled
<1>6. WritesWell'
  <2>1. \A y \in scan'.todo : y.id # x.id
    BY <1>2 DEF IInv, ScanInv, WritesWell
  <2>2. QED
    BY <1>1, <1>2, <1>3, <2>1 DEF IInv, ScanInv, WritesWell, Labelled
<1>7. PassesCounted'
  BY <1>1, <1>2, <1>3 DEF IInv, ScanInv, PassesCounted, ClosedAfterTwoBuilds, Closes
<1>8. RoomForNew'
  <2>1. MayBeAdded' <= MayBeAdded
    BY <1>2 DEF MayBeAdded
  <2>2. QED
    BY <1>3, <2>1, RoomKept DEF IInv, ScanInv
<1>9. CleanScanTracks'
  BY <1>2 DEF CleanScanTracks
<1>10. QED
  BY <1>4, <1>5, <1>6, <1>7, <1>8, <1>9 DEF IInv, ScanInv

\* The edit of an issue in its turn.
LEMMA IEditComment ==
  ASSUME IInv, NEW x \in scan.todo, scan.pc = "update",
         EditComment(x), UNCHANGED <<result, reopened>>
  PROVE  IInv'
<1> DEFINE t  == Target(x)
           pc == IF t = None THEN "update" ELSE "state"
           id == IF t = None THEN None ELSE x.id
<1>1. /\ scan \in Scan /\ x \in Read /\ x.id \in Tracked /\ x.id \in IDs
      /\ result \in {"Flaky", "Passed"}
      /\ scan' = [Append(x) EXCEPT !.pc = pc, !.id = id, !.target = t]
      /\ Edited(x.id)
      /\ x.id \notin scan.appended
      /\ \A y \in scan.todo \ {x} : y.id # x.id
  BY DEF EditComment, IInv, TypeOK, ScanInv, WritesWell, Scan, Read
<1>2. /\ t \in {"open", "closed", None}
      /\ t = None /\ result = "Flaky" => x.state = "open"
      /\ t # None => t = IF result = "Flaky" THEN "open" ELSE "closed"
      /\ t = "closed" => result = "Passed" /\ issue[x.id].status = "Passed"
  BY <1>1, ReporterAssumption DEF Target, Read
<1>3. Append(x) \in Scan /\ Append(x).todo = scan.todo \ {x}
      /\ Append(x).clean = scan.clean
      /\ Append(x).appended = scan.appended \cup {x.id}
  BY <1>1, AppendType
<1>4. pc \in {"update", "state"} /\ id \in IDs \cup {None}
  BY <1>1
<1> HIDE DEF t
<1>5. /\ scan' \in Scan /\ scan'.todo = scan.todo \ {x}
      /\ scan'.pc = pc /\ scan'.id = id /\ scan'.target = t
      /\ scan'.clean = scan.clean
      /\ scan'.appended = scan.appended \cup {x.id}
  BY <1>1, <1>2, <1>3, <1>4 DEF Scan
<1>6. /\ issue' \in [IDs -> FlakyIssue] /\ passes' \in [IDs -> 0 .. 2]
      /\ Labelled' = Labelled /\ Tracked' = Tracked /\ Open' = Open
      /\ \A j \in IDs : issue'[j].state = issue[j].state
      /\ \A j \in IDs \ {x.id} : issue'[j] = issue[j] /\ passes'[j] = passes[j]
      /\ issue'[x.id].status = result /\ issue'[x.id].current
      /\ result = "Passed" => passes'[x.id] > 0
      /\ result = "Passed" /\ issue[x.id].status = "Passed"
            /\ ~issue[x.id].current => passes'[x.id] = 2
  BY <1>1, EditedIssues
<1>7. TypeOK'
  BY <1>5, <1>6 DEF IInv, TypeOK
<1>8. NeverMalformed'
  BY <1>1, <1>6, ReporterAssumption DEF IInv, ScanInv, NeverMalformed, Labelled
<1>9. WritesWell'
  BY <1>1, <1>2, <1>5, <1>6 DEF IInv, ScanInv, WritesWell, Labelled
<1>10. PassesCounted'
  <2>1. ~issue[x.id].current \/ scan.appended # {}
    BY DEF EditComment, MayLack
  <2>2. ClosedAfterTwoBuilds'
    <3>1. SUFFICES ASSUME scan'.pc = "state", scan'.target = "closed"
                   PROVE  passes'[x.id] = 2 \/ \E j \in scan'.appended : j # x.id
      BY <1>1, <1>5, ReporterAssumption DEF ClosedAfterTwoBuilds, Closes
    <3>2. result = "Passed" /\ issue[x.id].status = "Passed"
      BY <1>2, <1>5, <3>1
    <3>3. QED
      BY <1>1, <1>5, <1>6, <2>1, <3>2
  <2>3. QED
    BY <1>1, <1>6, <2>2 DEF IInv, ScanInv, PassesCounted
<1>11. RoomForNew'
  <2>1. MayBeAdded' <= MayBeAdded
    BY <1>5, <1>4 DEF MayBeAdded
  <2>2. QED
    BY <1>6, <2>1, RoomKept DEF IInv, ScanInv
<1>12. CleanScanTracks'
  <2>1. SUFFICES ASSUME scan.clean PROVE CleanScanTracks'
    BY <1>5 DEF CleanScanTracks
  <2>2. \A y \in scan.todo : issue[y.id].state = y.state /\ ~issue[y.id].current
    BY <2>1 DEF IInv, ScanInv, CleanScanTracks
  <2>3. \A y \in scan'.todo : issue'[y.id].state = y.state /\ ~issue'[y.id].current
    <3>1. \A y \in scan'.todo : y.id \in IDs \ {x.id}
      BY <1>1, <1>5 DEF Scan, Read
    <3>2. QED
      BY <1>5, <1>6, <2>2, <3>1
  <2>4. result = "Flaky" => TellsFlaky(x.id)'
    BY <1>6 DEF TellsFlaky
  <2>5. t = None /\ result = "Flaky" => x.id \in Open'
    BY <1>1, <1>2, <1>6, <2>2 DEF Open, Tracked
  <2>6. QED
    BY <1>5, <2>3, <2>4, <2>5, ReporterAssumption DEF CleanScanTracks
<1>13. QED
  BY <1>7, <1>8, <1>9, <1>10, <1>11, <1>12 DEF IInv, ScanInv

\* Closing or reopening an issue leaves what identifies it, and nothing that was
\* tracked is lost.
LEMMA SetStateIssues ==
  ASSUME TypeOK, NEW i \in IDs, issue[i].state # "none",
         NEW state \in {"open", "closed"},
         SetState(i, state) \/ UNCHANGED issue
  PROVE  /\ issue' \in [IDs -> FlakyIssue]
         /\ \A j \in IDs : /\ issue'[j].label = issue[j].label
                           /\ issue'[j].status = issue[j].status
                           /\ issue'[j].current = issue[j].current
                           /\ issue'[j].state = "none" <=> issue[j].state = "none"
                           /\ j # i => issue'[j] = issue[j]
         /\ SetState(i, state) => issue'[i].state = state
         /\ Labelled' = Labelled
         /\ Tracked \in SUBSET Tracked' /\ Tracked' \in SUBSET (Tracked \cup {i})
         /\ i \in Tracked \/ state = "closed" => Tracked' = Tracked
<1> DEFINE set == [issue[i] EXCEPT !.state = state, !.old = FALSE]
<1>1. /\ issue \in [IDs -> FlakyIssue]
      /\ issue[i].state \in {"open", "closed"}
  BY DEF TypeOK, FlakyIssue
<1>2. /\ set \in FlakyIssue
      /\ set.state = state /\ ~set.old /\ set.label = issue[i].label
      /\ set.status = issue[i].status /\ set.current = issue[i].current
  BY <1>1 DEF FlakyIssue
<1>3. \/ UNCHANGED issue /\ (SetState(i, state) => issue[i].state = state)
      \/ issue' = [issue EXCEPT ![i] = set] /\ issue[i].state # state
  BY DEF SetState
<1> HIDE DEF set
<1>4. CASE UNCHANGED issue /\ (SetState(i, state) => issue[i].state = state)
  BY <1>1, <1>4, SameIssues
<1>5. CASE issue' = [issue EXCEPT ![i] = set] /\ issue[i].state # state
  <2>1. /\ issue' \in [IDs -> FlakyIssue]
        /\ issue'[i] = set
        /\ \A j \in IDs \ {i} : issue'[j] = issue[j]
    BY <1>1, <1>2, <1>5
  <2>2. \A j \in IDs : /\ issue'[j].label = issue[j].label
                       /\ issue'[j].status = issue[j].status
                       /\ issue'[j].current = issue[j].current
                       /\ issue'[j].state = "none" <=> issue[j].state = "none"
    BY <1>1, <1>2, <2>1
  <2>3. Labelled' = Labelled
    BY <2>2 DEF Labelled
  <2>4. /\ \A j \in IDs \ {i} : j \in Tracked' <=> j \in Tracked
        /\ i \in Tracked' <=> i \in Labelled
    BY <1>2, <2>1, <2>3 DEF Tracked, Labelled
  <2>5. state = "closed" => (i \in Tracked <=> i \in Labelled)
    BY <1>1, <1>5 DEF Tracked
  <2>6. /\ Tracked \in SUBSET Labelled /\ Tracked \in SUBSET IDs
        /\ Tracked' \in SUBSET IDs
    BY DEF Tracked, Labelled
  <2>7. /\ Tracked \in SUBSET Tracked' /\ Tracked' \in SUBSET (Tracked \cup {i})
        /\ i \in Tracked \/ state = "closed" => Tracked' = Tracked
    BY <2>4, <2>5, <2>6
  <2>8. QED
    BY <1>2, <2>1, <2>2, <2>3, <2>7
<1>6. QED
  BY <1>3, <1>4, <1>5

\* The issue in work is closed or reopened.
LEMMA ICloseOrReopen ==
  ASSUME IInv, NEW failed \in BOOLEAN, CloseOrReopen(failed), NEW i, i = scan.id
  PROVE  IInv'
<1>1. /\ scan \in Scan /\ scan.pc = "state"
      /\ i \in Tracked /\ i \in IDs /\ i \in scan.appended
      /\ scan.target = IF result = "Flaky" THEN "open" ELSE "closed"
      /\ issue[i].state # "none"
      /\ result \in {"Flaky", "Passed"}
      /\ UNCHANGED <<result, reopened, passes>>
  BY DEF CloseOrReopen, IInv, TypeOK, ScanInv, WritesWell, Tracked, Labelled
<1>2. /\ SetState(i, scan.target) \/ UNCHANGED issue
      /\ ~failed => SetState(i, scan.target)
      /\ scan' = [scan EXCEPT !.pc = "update", !.id = None, !.target = None,
                              !.clean = @ /\ ~failed]
  BY DEF CloseOrReopen
<1>3. /\ scan' \in Scan /\ scan'.pc = "update" /\ scan'.todo = scan.todo
      /\ scan'.appended = scan.appended
      /\ scan'.clean => scan.clean /\ ~failed
  BY <1>1, <1>2 DEF Scan
<1>4. /\ issue' \in [IDs -> FlakyIssue]
      /\ \A j \in IDs : /\ issue'[j].label = issue[j].label
                        /\ issue'[j].status = issue[j].status
                        /\ issue'[j].current = issue[j].current
                        /\ issue'[j].state = "none" <=> issue[j].state = "none"
                        /\ j # i => issue'[j] = issue[j]
      /\ ~failed => issue'[i].state = scan.target
      /\ Labelled' = Labelled /\ Tracked' = Tracked
  BY <1>1, <1>2, SetStateIssues DEF IInv
<1>5. TypeOK'
  BY <1>1, <1>3, <1>4 DEF IInv, TypeOK
<1>6. NeverMalformed'
  BY <1>4 DEF IInv, ScanInv, NeverMalformed, Labelled
<1>7. WritesWell'
  BY <1>1, <1>3, <1>4 DEF IInv, ScanInv, WritesWell, Labelled
<1>8. PassesCounted'
  BY <1>1, <1>3, <1>4 DEF IInv, ScanInv, PassesCounted, ClosedAfterTwoBuilds, Closes
<1>9. RoomForNew'
  <2>1. MayBeAdded' <= MayBeAdded
    BY <1>3 DEF MayBeAdded
  <2>2. QED
    BY <1>1, <1>4, <2>1, RoomKept DEF IInv, ScanInv
<1>10. CleanScanTracks'
  <2>1. SUFFICES ASSUME scan'.clean PROVE CleanScanTracks'
    BY DEF CleanScanTracks
  <2>2. \A y \in scan.todo : /\ y.id \in IDs \ {i}
                             /\ issue[y.id].state = y.state /\ ~issue[y.id].current
    BY <1>1, <1>3, <2>1 DEF IInv, ScanInv, WritesWell, CleanScanTracks, Scan, Read
  <2>3. result = "Flaky" => TellsFlaky(i)
    BY <1>1, <1>3, <2>1 DEF IInv, ScanInv, CleanScanTracks
  <2>4. result = "Flaky" => TellsFlaky(i)' /\ i \in Open'
    BY <1>1, <1>3, <1>4, <2>1, <2>3 DEF TellsFlaky, Open, Tracked
  <2>5. \A y \in scan'.todo : issue'[y.id].state = y.state /\ ~issue'[y.id].current
    BY <1>3, <1>4, <2>2
  <2>6. QED
    BY <1>1, <1>3, <2>4, <2>5 DEF CleanScanTracks
<1>11. QED
  BY <1>5, <1>6, <1>7, <1>8, <1>9, <1>10 DEF IInv, ScanInv

-----------------------------------------------------------------------------
(* A new issue.                                                            *)

LEMMA ICreateIssue ==
  ASSUME IInv, NEW i \in IDs, NEW failed \in BOOLEAN, CreateIssue(i, failed)
  PROVE  IInv'
<1>1. /\ scan \in Scan /\ scan.pc = "create" /\ issue \in [IDs -> FlakyIssue]
      /\ result = "Flaky" /\ scan.todo = {}
      /\ i \notin Labelled
      /\ UNCHANGED <<result, reopened, passes>>
  BY DEF CreateIssue, New, IInv, TypeOK, ScanInv, WritesWell
<1>2. /\ issue' = [issue EXCEPT ![i].state = "open"] \/ (failed /\ issue' = issue)
      /\ scan' = IF failed THEN [scan EXCEPT !.pc = "done", !.clean = FALSE]
                 ELSE [scan EXCEPT !.pc = "comment", !.id = i]
  BY DEF CreateIssue
<1>3. /\ issue' \in [IDs -> FlakyIssue]
      /\ \A j \in IDs : /\ issue'[j].label = issue[j].label
                        /\ issue'[j].status = issue[j].status
                        /\ issue'[j].current = issue[j].current
                        /\ j # i => issue'[j] = issue[j]
      /\ ~failed => issue'[i].state = "open"
  BY <1>1, <1>2 DEF FlakyIssue
<1>4. /\ scan' \in Scan /\ scan'.todo = {}
      /\ failed => scan'.pc = "done" /\ ~scan'.clean
      /\ ~failed => scan'.pc = "comment" /\ scan'.id = i /\ scan'.clean = scan.clean
  BY <1>1, <1>2 DEF Scan
<1>5. Labelled' = Labelled
  BY <1>3 DEF Labelled
<1>6. Tracked' = Tracked
  BY <1>1, <1>3, <1>5 DEF Tracked, Labelled
<1>7. TypeOK'
  BY <1>1, <1>3, <1>4 DEF IInv, TypeOK
<1>8. NeverMalformed'
  BY <1>3, <1>5 DEF IInv, ScanInv, NeverMalformed, Labelled
<1>9. WritesWell'
  BY <1>1, <1>3, <1>4, <1>5, ReporterAssumption DEF IInv, ScanInv, WritesWell, Labelled
<1>10. PassesCounted'
  BY <1>1, <1>3, <1>4 DEF IInv, ScanInv, PassesCounted, ClosedAfterTwoBuilds, Closes
<1>11. RoomForNew'
  <2>1. MayBeAdded' <= MayBeAdded
    BY <1>1, <1>4 DEF MayBeAdded
  <2>2. QED
    BY <1>1, <1>6, <2>1, RoomKept DEF IInv, ScanInv
<1>12. CleanScanTracks'
  BY <1>3, <1>4 DEF CleanScanTracks
<1>13. QED
  BY <1>7, <1>8, <1>9, <1>10, <1>11, <1>12 DEF IInv, ScanInv

LEMMA ICreateComment ==
  ASSUME IInv, NEW failed \in BOOLEAN, CreateComment(failed), NEW i, i = scan.id
  PROVE  IInv'
<1>1. /\ scan \in Scan /\ scan.pc = "comment" /\ issue \in [IDs -> FlakyIssue]
      /\ result = "Flaky" /\ scan.todo = {}
      /\ i \in IDs /\ issue[i].state # "none"
      /\ scan.clean => issue[i].state = "open"
      /\ UNCHANGED <<result, reopened, passes>>
  BY DEF CreateComment, IInv, TypeOK, ScanInv, WritesWell, CleanScanTracks
<1>2. /\ \/ issue' = [issue EXCEPT ![i].status = "Flaky", ![i].current = TRUE]
         \/ failed /\ issue' = issue
      /\ scan' = [scan EXCEPT !.pc = IF failed THEN "unlabel" ELSE "label",
                              !.clean = @ /\ ~failed]
  BY DEF CreateComment
<1>3. /\ issue' \in [IDs -> FlakyIssue]
      /\ \A j \in IDs : /\ issue'[j].label = issue[j].label
                        /\ issue'[j].state = issue[j].state
                        /\ issue'[j].old = issue[j].old
                        /\ j # i => issue'[j] = issue[j]
      /\ ~failed => issue'[i].status = "Flaky" /\ issue'[i].current
      /\ \/ issue'[i] = issue[i]
         \/ issue'[i].status = "Flaky" /\ issue'[i].current
  BY <1>1, <1>2 DEF FlakyIssue
<1>4. /\ scan' \in Scan /\ scan'.todo = {} /\ scan'.id = i
      /\ failed => scan'.pc = "unlabel"
      /\ ~failed => scan'.pc = "label"
      /\ scan'.clean => scan.clean /\ ~failed
  BY <1>1, <1>2 DEF Scan
<1>5. Labelled' = Labelled /\ Tracked' = Tracked
  BY <1>3 DEF Tracked, Labelled
<1>6. TypeOK'
  BY <1>1, <1>3, <1>4 DEF IInv, TypeOK
<1>7. NeverMalformed'
  BY <1>3, <1>5, ReporterAssumption DEF IInv, ScanInv, NeverMalformed, Labelled
<1>8. WritesWell'
  BY <1>1, <1>3, <1>4, <1>5, ReporterAssumption DEF IInv, ScanInv, WritesWell, Labelled
<1>9. PassesCounted'
  BY <1>1, <1>3, <1>4 DEF IInv, ScanInv, PassesCounted, ClosedAfterTwoBuilds, Closes
<1>10. RoomForNew'
  <2>1. MayBeAdded' <= MayBeAdded
    BY <1>1, <1>4 DEF MayBeAdded
  <2>2. QED
    BY <1>1, <1>5, <2>1, RoomKept DEF IInv, ScanInv
<1>11. CleanScanTracks'
  BY <1>1, <1>3, <1>4 DEF CleanScanTracks, TellsFlaky
<1>12. QED
  BY <1>6, <1>7, <1>8, <1>9, <1>10, <1>11 DEF IInv, ScanInv

\* The label is added or removed.
LEMMA LabelSet ==
  ASSUME issue \in [IDs -> FlakyIssue], NEW i \in IDs, NEW label \in BOOLEAN,
         issue' = [issue EXCEPT ![i].label = label] \/ issue' = issue
  PROVE  /\ issue' \in [IDs -> FlakyIssue]
         /\ \A j \in IDs : /\ issue'[j].status = issue[j].status
                           /\ issue'[j].current = issue[j].current
                           /\ issue'[j].state = issue[j].state
                           /\ issue'[j].old = issue[j].old
                           /\ j # i => issue'[j] = issue[j]
         /\ issue'[i].label \in {label, issue[i].label}
         /\ issue' = [issue EXCEPT ![i].label = label] => issue'[i].label = label
<1> DEFINE new == [issue[i] EXCEPT !.label = label]
<1>1. issue[i] \in FlakyIssue
  OBVIOUS
<1>2. /\ new \in FlakyIssue /\ new.label = label
      /\ new.state = issue[i].state /\ new.old = issue[i].old
      /\ new.status = issue[i].status /\ new.current = issue[i].current
  BY <1>1 DEF FlakyIssue
<1>3. issue' = [issue EXCEPT ![i] = new] \/ issue' = issue
  OBVIOUS
<1> HIDE DEF new
<1>4. issue' = [issue EXCEPT ![i].label = label] => issue' = [issue EXCEPT ![i] = new]
  BY DEF new
<1>5. CASE issue' = [issue EXCEPT ![i] = new]
  BY <1>2, <1>5
<1>6. CASE issue' = issue /\ issue' # [issue EXCEPT ![i] = new]
  BY <1>4, <1>6
<1>7. QED
  BY <1>3, <1>5, <1>6

\* The label, which makes an issue one that is tracked, is added to the one for
\* which there is room.
LEMMA IAddLabel ==
  ASSUME IInv, NEW failed \in BOOLEAN, AddLabel(failed), NEW i, i = scan.id
  PROVE  IInv'
<1>1. /\ scan \in Scan /\ scan.pc = "label" /\ issue \in [IDs -> FlakyIssue]
      /\ result = "Flaky" /\ scan.todo = {}
      /\ i \in IDs /\ issue[i].state # "none" /\ issue[i].status # None
      /\ scan.clean => issue[i].state = "open" /\ TellsFlaky(i)
      /\ UNCHANGED <<result, reopened, passes>>
  BY DEF AddLabel, IInv, TypeOK, ScanInv, WritesWell, CleanScanTracks
<1>2. /\ issue' = [issue EXCEPT ![i].label = TRUE] \/ (failed /\ issue' = issue)
      /\ scan' = IF failed THEN [scan EXCEPT !.pc = "unlabel", !.clean = FALSE]
                 ELSE [scan EXCEPT !.pc = "done", !.id = None]
  BY DEF AddLabel
<1>3. /\ issue' \in [IDs -> FlakyIssue]
      /\ \A j \in IDs : /\ issue'[j].status = issue[j].status
                        /\ issue'[j].current = issue[j].current
                        /\ issue'[j].state = issue[j].state
                        /\ issue'[j].old = issue[j].old
                        /\ j # i => issue'[j] = issue[j]
      /\ ~failed => issue'[i].label
  BY <1>1, <1>2, LabelSet
<1>4. /\ scan' \in Scan /\ scan'.todo = {}
      /\ failed => scan'.pc = "unlabel" /\ ~scan'.clean /\ scan'.id = i
      /\ ~failed => scan'.pc = "done" /\ scan'.clean = scan.clean
  BY <1>1, <1>2 DEF Scan
<1>5. Labelled' \in SUBSET (Labelled \cup {i})
  BY <1>3 DEF Labelled
<1>6. Tracked' \in SUBSET (Tracked \cup {i})
  BY <1>3, <1>5 DEF Tracked, Labelled
<1>7. TypeOK'
  BY <1>1, <1>3, <1>4 DEF IInv, TypeOK
<1>8. NeverMalformed'
  BY <1>1, <1>3, <1>5 DEF IInv, ScanInv, NeverMalformed, Labelled
<1>9. WritesWell'
  BY <1>1, <1>3, <1>4, <1>5, ReporterAssumption DEF IInv, ScanInv, WritesWell, Labelled
<1>10. PassesCounted'
  BY <1>1, <1>3, <1>4 DEF IInv, ScanInv, PassesCounted, ClosedAfterTwoBuilds, Closes
<1>11. RoomForNew'
  <2>1. MayBeAdded' = 0 /\ MayBeAdded = 1
    BY <1>1, <1>4 DEF MayBeAdded
  <2>2. reopened \in Nat
    BY DEF IInv, TypeOK
  <2>3. reopened' \in Nat /\ MayBeAdded' + 1 + reopened <= MayBeAdded + reopened'
    BY <1>1, <2>1, <2>2
  <2>4. QED
    BY <1>6, <2>3, RoomUsed DEF IInv, ScanInv
<1>12. CleanScanTracks'
  BY <1>1, <1>3, <1>4 DEF CleanScanTracks, TellsFlaky, Open, Labelled
<1>13. QED
  BY <1>7, <1>8, <1>9, <1>10, <1>11, <1>12 DEF IInv, ScanInv

\* The label of an invalid issue is removed, if it has one.
LEMMA IRemoveLabel ==
  ASSUME IInv, RemoveLabel, NEW i, i = scan.id
  PROVE  IInv'
<1>1. /\ scan \in Scan /\ scan.pc = "unlabel" /\ issue \in [IDs -> FlakyIssue]
      /\ result = "Flaky" /\ scan.todo = {} /\ ~scan.clean
      /\ i \in IDs /\ issue[i].state # "none"
      /\ UNCHANGED <<result, reopened, passes>>
  BY DEF RemoveLabel, IInv, TypeOK, ScanInv, WritesWell, CleanScanTracks
<1>2. /\ issue' = [issue EXCEPT ![i].label = FALSE] \/ issue' = issue
      /\ scan' = [scan EXCEPT !.pc = "close"]
  BY DEF RemoveLabel
<1>3. /\ issue' \in [IDs -> FlakyIssue]
      /\ \A j \in IDs : /\ issue'[j].status = issue[j].status
                        /\ issue'[j].current = issue[j].current
                        /\ issue'[j].state = issue[j].state
                        /\ issue'[j].old = issue[j].old
                        /\ issue'[j].label => issue[j].label
  BY <1>1, <1>2, LabelSet
<1>4. /\ scan' \in Scan /\ scan'.todo = {} /\ scan'.pc = "close" /\ ~scan'.clean
      /\ scan'.id = i
  BY <1>1, <1>2 DEF Scan
<1>5. Labelled' \in SUBSET Labelled /\ Tracked' \in SUBSET Tracked
  BY <1>3 DEF Tracked, Labelled
<1>6. TypeOK'
  BY <1>1, <1>3, <1>4 DEF IInv, TypeOK
<1>7. NeverMalformed'
  BY <1>3, <1>5 DEF IInv, ScanInv, NeverMalformed, Labelled
<1>8. WritesWell'
  BY <1>1, <1>3, <1>4, <1>5, ReporterAssumption DEF IInv, ScanInv, WritesWell, Labelled
<1>9. PassesCounted'
  BY <1>1, <1>3, <1>4 DEF IInv, ScanInv, PassesCounted, ClosedAfterTwoBuilds, Closes
<1>10. RoomForNew'
  <2>1. MayBeAdded' <= MayBeAdded
    BY <1>1, <1>4 DEF MayBeAdded
  <2>2. QED
    BY <1>1, <1>5, <2>1, RoomKept DEF IInv, ScanInv
<1>11. CleanScanTracks'
  BY <1>4 DEF CleanScanTracks
<1>12. QED
  BY <1>6, <1>7, <1>8, <1>9, <1>10, <1>11 DEF IInv, ScanInv

LEMMA ICloseInvalid ==
  ASSUME IInv, CloseInvalid, NEW i, i = scan.id
  PROVE  IInv'
<1>1. /\ scan \in Scan /\ scan.pc = "close"
      /\ scan.todo = {} /\ ~scan.clean /\ result # None
      /\ i \in IDs /\ issue[i].state # "none"
      /\ UNCHANGED <<result, reopened, passes>>
  BY DEF CloseInvalid, IInv, TypeOK, ScanInv, WritesWell, CleanScanTracks
<1>2. /\ SetState(i, "closed") \/ UNCHANGED issue
      /\ scan' = [scan EXCEPT !.pc = "done", !.id = None]
  BY DEF CloseInvalid
<1>3. /\ scan' \in Scan /\ scan'.todo = {} /\ scan'.pc = "done" /\ ~scan'.clean
  BY <1>1, <1>2 DEF Scan
<1>4. /\ issue' \in [IDs -> FlakyIssue]
      /\ \A j \in IDs : /\ issue'[j].label = issue[j].label
                        /\ issue'[j].status = issue[j].status
                        /\ issue'[j].current = issue[j].current
                        /\ issue'[j].state = "none" <=> issue[j].state = "none"
      /\ Labelled' = Labelled /\ Tracked' = Tracked
  BY <1>1, <1>2, SetStateIssues DEF IInv
<1>5. TypeOK'
  BY <1>1, <1>3, <1>4 DEF IInv, TypeOK
<1>6. NeverMalformed'
  BY <1>4 DEF IInv, ScanInv, NeverMalformed, Labelled
<1>7. WritesWell'
  BY <1>1, <1>3, <1>4 DEF IInv, ScanInv, WritesWell, Labelled
<1>8. PassesCounted'
  BY <1>1, <1>3, <1>4 DEF IInv, ScanInv, PassesCounted, ClosedAfterTwoBuilds, Closes
<1>9. RoomForNew'
  <2>1. MayBeAdded' <= MayBeAdded
    BY <1>1, <1>3 DEF MayBeAdded
  <2>2. QED
    BY <1>1, <1>4, <2>1, RoomKept DEF IInv, ScanInv
<1>10. CleanScanTracks'
  BY <1>3 DEF CleanScanTracks
<1>11. QED
  BY <1>5, <1>6, <1>7, <1>8, <1>9, <1>10 DEF IInv, ScanInv

-----------------------------------------------------------------------------
(* The world around it, and every step.                                    *)

LEMMA IMonthPasses ==
  ASSUME IInv, MonthPasses
  PROVE  IInv'
<1>1. /\ scan.pc = "idle" /\ scan.todo = {}
      /\ UNCHANGED <<result, scan, reopened, passes>>
  BY DEF MonthPasses, IInv, ScanInv, WritesWell
<1>2. /\ issue' \in [IDs -> FlakyIssue]
      /\ \A j \in IDs : /\ issue'[j].label = issue[j].label
                        /\ issue'[j].status = issue[j].status
                        /\ issue'[j].current = issue[j].current
                        /\ issue'[j].state = issue[j].state
                        /\ issue'[j].old = (issue[j].state = "closed")
  BY DEF MonthPasses, IInv, TypeOK, FlakyIssue
<1>3. Labelled' = Labelled /\ Tracked' \in SUBSET Tracked
  BY <1>2 DEF Labelled, Tracked
<1>4. TypeOK'
  BY <1>1, <1>2 DEF IInv, TypeOK
<1>5. NeverMalformed'
  BY <1>2, <1>3 DEF IInv, ScanInv, NeverMalformed, Labelled
<1>6. WritesWell'
  BY <1>1, <1>2, <1>3 DEF IInv, ScanInv, WritesWell, Labelled
<1>7. PassesCounted'
  BY <1>1, <1>2 DEF IInv, ScanInv, PassesCounted, ClosedAfterTwoBuilds, Closes
<1>8. RoomForNew'
  <2>1. MayBeAdded' <= MayBeAdded
    BY <1>1 DEF MayBeAdded
  <2>2. QED
    BY <1>1, <1>3, <2>1, RoomKept DEF IInv, ScanInv
<1>9. CleanScanTracks'
  BY <1>1 DEF CleanScanTracks
<1>10. QED
  BY <1>4, <1>5, <1>6, <1>7, <1>8, <1>9 DEF IInv, ScanInv

\* Whatever people do, a scan goes on with what it has read.
LEMMA IPeople ==
  ASSUME IInv, NEW i \in IDs, PersonCloses(i) \/ PersonReopens(i)
  PROVE  IInv'
<1>1. /\ scan \in Scan /\ scan' = [scan EXCEPT !.clean = FALSE]
      /\ UNCHANGED <<result, passes>>
  BY DEF PersonCloses, PersonReopens, MeetPeople, IInv, TypeOK
<1>2. /\ scan' \in Scan /\ scan'.pc = scan.pc /\ scan'.todo = scan.todo
      /\ scan'.appended = scan.appended /\ scan'.id = scan.id
      /\ scan'.target = scan.target /\ ~scan'.clean
  BY <1>1 DEF Scan
<1>3. /\ issue' \in [IDs -> FlakyIssue]
      /\ \A j \in IDs : /\ issue'[j].label = issue[j].label
                        /\ issue'[j].status = issue[j].status
                        /\ issue'[j].current = issue[j].current
                        /\ issue'[j].state = "none" <=> issue[j].state = "none"
      /\ Labelled' = Labelled /\ Tracked \in SUBSET Tracked'
      /\ Tracked' \in SUBSET (Tracked \cup {i})
      /\ PersonCloses(i) => Tracked' = Tracked
  <2>1. CASE PersonCloses(i)
    BY <2>1, SetStateIssues DEF PersonCloses, IInv
  <2>2. CASE PersonReopens(i) /\ ~PersonCloses(i)
    BY <2>2, SetStateIssues DEF PersonReopens, IInv
  <2>3. QED
    BY <2>1, <2>2
<1>4. TypeOK'
  <2>1. reopened' \in Nat
    BY DEF PersonCloses, PersonReopens, IInv, TypeOK
  <2>2. QED
    BY <1>1, <1>2, <1>3, <2>1 DEF IInv, TypeOK
<1>5. NeverMalformed'
  BY <1>3 DEF IInv, ScanInv, NeverMalformed, Labelled
<1>6. WritesWell'
  BY <1>1, <1>2, <1>3 DEF IInv, ScanInv, WritesWell, Labelled
<1>7. PassesCounted'
  BY <1>1, <1>2, <1>3 DEF IInv, ScanInv, PassesCounted, ClosedAfterTwoBuilds, Closes
<1>8. RoomForNew'
  <2>1. MayBeAdded' = MayBeAdded
    BY <1>2 DEF MayBeAdded
  <2>2. MayBeAdded \in {0, 1} /\ reopened \in Nat
    BY DEF MayBeAdded, IInv, TypeOK
  <2>3. CASE PersonCloses(i)
    <3>1. UNCHANGED reopened /\ Tracked' \in SUBSET Tracked
      BY <1>3, <2>3 DEF PersonCloses
    <3>2. QED
      BY <2>1, <2>2, <3>1, RoomKept DEF IInv, ScanInv
  <2>4. CASE PersonReopens(i)
    <3>1. reopened' = reopened + 1
      BY <2>4 DEF PersonReopens
    <3>2. /\ reopened' \in Nat
          /\ MayBeAdded' + 1 + reopened <= MayBeAdded + reopened'
      BY <2>1, <2>2, <3>1
    <3>3. QED
      BY <1>3, <3>2, RoomUsed DEF IInv, ScanInv
  <2>5. QED
    BY <2>3, <2>4
<1>9. CleanScanTracks'
  BY <1>2 DEF CleanScanTracks
<1>10. QED
  BY <1>4, <1>5, <1>6, <1>7, <1>8, <1>9 DEF IInv, ScanInv

LEMMA INext == IInv /\ [Next]_vars => IInv'
<1> SUFFICES ASSUME IInv, [Next]_vars PROVE IInv'
  OBVIOUS
<1>1. CASE UNCHANGED vars
  <2>1. UNCHANGED <<issue, result, scan, reopened, passes>>
    BY <1>1 DEF vars
  <2>2. TypeOK' /\ PassesCounted' /\ NeverMalformed' /\ WritesWell'
    BY <2>1, SameIssues DEF IInv, ScanInv, TypeOK, PassesCounted, NeverMalformed,
       WritesWell, ClosedAfterTwoBuilds, Closes
  <2>3. RoomForNew'
    BY <2>1, SameIssues DEF IInv, ScanInv, RoomForNew, MayBeAdded
  <2>4. CleanScanTracks'
    BY <2>1 DEF IInv, ScanInv, CleanScanTracks, TellsFlaky, Open, Labelled
  <2>5. QED
    BY <2>2, <2>3, <2>4 DEF IInv, ScanInv
<1>2. CASE StartNew \/ StartAgain
  BY <1>2, IStart
<1>3. CASE ListIssues \/ ListAnother \/ ProcessTest
  BY <1>3, IListIssues, IListAnother, IProcessTest
<1>4. ASSUME NEW x \in scan.todo, UpdateIssue(x) PROVE IInv'
  <2>1. scan.pc = "update" /\ UNCHANGED <<result, reopened>>
    BY <1>4 DEF UpdateIssue
  <2>2. CASE SkipIssue(x) \/ LeaveClosed(x)
    BY <2>1, <2>2, IPassOver
  <2>3. CASE EditComment(x)
    BY <2>1, <2>3, IEditComment
  <2>4. CASE EditFails(x)
    BY <2>1, <2>4, IEditFails
  <2>5. QED
    BY <1>4, <2>2, <2>3, <2>4 DEF UpdateIssue
<1>5. ASSUME NEW failed \in BOOLEAN, CloseOrReopen(failed) PROVE IInv'
  BY <1>5, ICloseOrReopen
<1>6. CASE CreateNewIssue
  BY <1>6, ICreateIssue, ICreateComment, IAddLabel, IRemoveLabel, ICloseInvalid
     DEF CreateNewIssue
<1>7. CASE Finish \/ Crash
  BY <1>7, IExit DEF Finish, Crash
<1>8. CASE MonthPasses
  BY <1>8, IMonthPasses
<1>9. ASSUME NEW i \in IDs, PersonCloses(i) \/ PersonReopens(i) PROVE IInv'
  BY <1>9, IPeople
<1>10. QED
  BY <1>1, <1>2, <1>3, <1>4, <1>5, <1>6, <1>7, <1>8, <1>9 DEF Next

LEMMA IInvariant == Spec => []IInv
  BY IInit, INext, PTL DEF Spec

-----------------------------------------------------------------------------
(* Theorems.                                                               *)

\* The issues, the builds and the scan have their types.
THEOREM TypeCorrect == Spec => []TypeOK
<1>1. IInv => TypeOK
  BY DEF IInv
<1>2. QED
  BY <1>1, IInvariant, PTL

\* All that a scan takes for granted at its writes holds.
THEOREM ScanSafe == Spec => []ScanInv
<1>1. IInv => ScanInv
  BY DEF IInv
<1>2. QED
  BY <1>1, IInvariant, PTL

\* No failure in createNewIssue, and no crash, leaves an issue that makes the
\* next run stop in getFlakyIssues.
THEOREM NoneMalformed == Spec => []NeverMalformed
<1>1. ScanInv => NeverMalformed
  BY DEF ScanInv
<1>2. QED
  BY <1>1, ScanSafe, PTL

\* At most one issue more is tracked than people have reopened.
THEOREM FewTracked == Spec => []TrackedBounded
<1>1. IInv => TrackedBounded
  <2> SUFFICES ASSUME IInv PROVE TrackedBounded
    OBVIOUS
  <2>1. /\ Cardinality(Tracked) + MayBeAdded <= 1 + reopened
        /\ MayBeAdded \in {0, 1} /\ reopened \in Nat
    BY DEF IInv, ScanInv, RoomForNew, MayBeAdded, TypeOK
  <2>2. Cardinality(Tracked) \in Nat
    BY TrackedFinite
  <2>3. \A c, r \in Nat, m \in {0, 1} : c + m <= 1 + r => c <= 1 + r
    OBVIOUS
  <2>4. QED
    BY <2>1, <2>2, <2>3 DEF TrackedBounded
<1>2. QED
  BY <1>1, IInvariant, PTL

\* A flaky test is tracked after every undisturbed scan of new builds.
THEOREM TrackedByCleanScan == Spec => []TrackedWhenClean
<1>1. ScanInv => TrackedWhenClean
  BY DEF ScanInv, CleanScanTracks, TrackedWhenClean, Finished, TellsFlaky
<1>2. QED
  BY <1>1, ScanSafe, PTL

\* An issue is closed only after two different builds in which the test passed,
\* but for issues that share a scan.
THEOREM ClosedAfterTwo == Spec => []ClosedAfterTwoBuilds
<1>1. ScanInv => ClosedAfterTwoBuilds
  BY DEF ScanInv, PassesCounted
<1>2. QED
  BY <1>1, ScanSafe, PTL

=============================================================================
