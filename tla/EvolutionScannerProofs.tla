------------------------ MODULE EvolutionScannerProofs ------------------------
(***************************************************************************)
(* Proofs about EvolutionScanner, for every set of findings, every length  *)
(* of the history and any number of faults: an issue is closed on evidence, *)
(* none is created for a finding that has one, the drift watch takes no     *)
(* finding for a ghost that the tick accounted for, and no audit comment is *)
(* posted twice without a failed call.                                      *)
(***************************************************************************)
EXTENDS EvolutionScanner, ListProofs, FiniteSetTheorems

Fields == {"found", "failed", "peeled", "deduped", "listed", "closed", "todo", "issued",
           "limited", "touched", "hurt", "made", "ghFailed", "visit", "ready"}

\* The records are records; the fields that the proof is about are typed.
TickShape ==
    /\ tick = [x \in Fields |-> tick[x]]
    /\ tick.found \in SUBSET Keys
    /\ present \in SUBSET Keys

HistShape ==
    /\ hist = [x \in {"snapshots", "resolved"} |-> hist[x]]
    /\ cache = [x \in {"snapshots", "resolved"} |-> cache[x]]
    /\ hist.snapshots \in Seq(SUBSET Keys)
    /\ cache.snapshots \in Seq(SUBSET Keys)
    /\ unseen \in [Keys -> 0 .. Grace]

IssueShape == issues \in Seq(Issue)
VisitShape == tick.visit \subseteq Ids /\ \A e \in tick.listed : e.id \in Ids

\* The saved snapshots never show a finding absent for longer than it was.
Saved ==
    \A k \in Keys : \A n \in 0 .. Grace :
        AbsentFor(cache.snapshots, k, n) => n <= unseen[k]

\* The job's snapshots are those it restored, and after update_history one more.
Appended == Newest(Append(cache.snapshots, tick.found))
Restored ==
    /\ pc \in {"fetch", "process", "fallback"} => hist.snapshots = cache.snapshots
    /\ pc \in {"list", "close", "drift", "finish"} => hist.snapshots = Appended

\* What is ready to close is neither protected nor waiting for its fix, although
\* Linear is not asked again.
Ready ==
    pc = "drift" => \A i \in tick.visit \cap tick.ready : ~Protected(i) /\ FixMerged(i)

ScanInv == TickShape /\ HistShape /\ IssueShape /\ VisitShape /\ Saved /\ Restored /\ Ready

(***************************************************************************)
(* The history.                                                            *)
(***************************************************************************)
\* Both histories keep the newest entries, in their order.
LEMMA NewestLemma ==
    ASSUME SnapshotLimit \in Nat \ {0}, NEW S, NEW s \in Seq(S)
    PROVE  /\ Newest(s) \in Seq(S)
           /\ Len(Newest(s)) <= Len(s)
           /\ Len(s) > 0 => Len(Newest(s)) > 0
           /\ \A m \in 1 .. Len(Newest(s)) :
                 /\ m + (Len(s) - Len(Newest(s))) \in 1 .. Len(s)
                 /\ Newest(s)[m] = s[m + (Len(s) - Len(Newest(s)))]
<1>1. CASE Len(s) > SnapshotLimit
    <2> DEFINE d == Len(s) - SnapshotLimit
    <2>1. d \in Nat /\ d + 1 \in 1 .. Len(s)
        BY <1>1
    <2>2. Newest(s) = SubSeq(s, d + 1, Len(s))
        BY <1>1 DEF Newest, Drop
    <2>3. SubSeq(s, d + 1, Len(s)) \in Seq(S) /\ Len(SubSeq(s, d + 1, Len(s))) = SnapshotLimit
        BY <2>1
    <2>4. \A m \in 1 .. SnapshotLimit : SubSeq(s, d + 1, Len(s))[m] = s[m + d]
        BY <2>1
    <2> QED
        BY <1>1, <2>2, <2>3, <2>4
<1>2. CASE ~(Len(s) > SnapshotLimit)
    <2>1. Newest(s) = SubSeq(s, 1, Len(s))
        BY <1>2 DEF Newest, Drop
    <2>2. SubSeq(s, 1, Len(s)) = s
        OBVIOUS
    <2>3. Newest(s) = s
        BY <2>1, <2>2
    <2>4. Len(s) \in Nat /\ \A m \in 1 .. Len(s) : m + (Len(s) - Len(s)) = m
        OBVIOUS
    <2> QED
        BY <2>3, <2>4
<1> QED
    BY <1>1, <1>2

\* A finding absent from the newest n snapshots is absent from the tick that was
\* recorded last and from the n - 1 before it.
LEMMA AbsentLemma ==
    ASSUME SnapshotLimit \in Nat \ {0}, NEW S, NEW s \in Seq(S), NEW f \in S, NEW k,
           NEW n \in Nat \ {0}, AbsentFor(Newest(Append(s, f)), k, n)
    PROVE  k \notin f /\ AbsentFor(s, k, n - 1)
<1> DEFINE t == Append(s, f)
           r == Newest(t)
<1>1. t \in Seq(S) /\ Len(t) = Len(s) + 1 /\ t[Len(t)] = f
    OBVIOUS
<1>2. \A m \in 1 .. Len(s) : t[m] = s[m]
    OBVIOUS
<1> HIDE DEF t
<1>3. /\ r \in Seq(S) /\ Len(r) <= Len(t) /\ Len(r) > 0
      /\ \A m \in 1 .. Len(r) : r[m] = t[m + (Len(t) - Len(r))]
    BY <1>1, NewestLemma
<1>4. n <= Len(r) /\ \A m \in Len(r) - n + 1 .. Len(r) : k \notin r[m]
    BY DEF AbsentFor, t
<1> HIDE DEF r
<1>5. Len(r) \in Nat /\ Len(t) \in Nat /\ Len(s) \in Nat
    BY <1>1, <1>3
<1>6. ASSUME NEW j \in Len(t) - n + 1 .. Len(t) PROVE k \notin t[j]
    <2> DEFINE m == j - (Len(t) - Len(r))
    <2>1. m \in Len(r) - n + 1 .. Len(r) /\ m \in 1 .. Len(r)
        BY <1>3, <1>4, <1>5, <1>6
    <2>2. m + (Len(t) - Len(r)) = j
        BY <1>5, <1>6
    <2> QED
        BY <1>3, <1>4, <2>1, <2>2
<1>7. k \notin f
    <2>1. Len(t) \in Len(t) - n + 1 .. Len(t)
        BY <1>5
    <2> QED
        BY <1>1, <1>6, <2>1
<1>8. ASSUME NEW j \in Len(s) - (n - 1) + 1 .. Len(s) PROVE k \notin s[j]
    <2>1. j \in Len(t) - n + 1 .. Len(t) /\ j \in 1 .. Len(s)
        BY <1>1, <1>3, <1>4, <1>5, <1>8
    <2> QED
        BY <1>2, <1>6, <2>1
<1>9. n - 1 <= Len(s)
    BY <1>1, <1>3, <1>4, <1>5
<1> QED
    BY <1>7, <1>8, <1>9 DEF AbsentFor

\* The same, of sets of findings.
LEMMA AbsentSnapshotsLemma ==
    ASSUME SnapshotLimit \in Nat \ {0}, NEW s \in Seq(SUBSET Keys), NEW f \in SUBSET Keys,
           NEW k, NEW n \in Nat \ {0}, AbsentFor(Newest(Append(s, f)), k, n)
    PROVE  k \notin f /\ AbsentFor(s, k, n - 1)
<1> DEFINE S == SUBSET Keys
<1>1. s \in Seq(S) /\ f \in S
    OBVIOUS
<1> HIDE DEF S
<1> QED
    BY <1>1, AbsentLemma

\* update_history records the tick in the snapshots.
LEMMA UpdateLemma ==
    ASSUME NEW h, NEW found, NEW failed
    PROVE  /\ UpdateHistory(h, found, failed).snapshots = Newest(Append(h.snapshots, found))
           /\ UpdateHistory(h, found, failed) =
                 [x \in {"snapshots", "resolved"} |-> UpdateHistory(h, found, failed)[x]]
BY DEF UpdateHistory

(***************************************************************************)
(* The steps.                                                              *)
(***************************************************************************)
\* What update_history leaves is a history again.
LEMMA RecordLemma ==
    ASSUME ScannerConstants, TickShape, HistShape
    PROVE  Newest(Append(hist.snapshots, tick.found)) \in Seq(SUBSET Keys)
<1>1. SnapshotLimit \in Nat \ {0}
    BY DEF ScannerConstants
<1>2. Append(hist.snapshots, tick.found) \in Seq(SUBSET Keys)
    BY DEF TickShape, HistShape
<1> QED
    BY <1>1, <1>2, NewestLemma

LEMMA TickShapeStep == ASSUME TickShape, [Next]_vars PROVE TickShape'
<1> USE DEF TickShape, Fields
<1>1. ASSUME NEW P \in SUBSET Keys, Commit(P) PROVE TickShape'
    BY <1>1 DEF Commit, Move
<1>2. ASSUME NEW i \in Ids, UserCloses(i) PROVE TickShape'
    BY <1>2 DEF UserCloses, Move, Touched
<1>3. ASSUME NEW i \in Ids, UserReopens(i) PROVE TickShape'
    BY <1>3 DEF UserReopens, Move, Touched
<1>4. ASSUME NEW i \in Ids, LinearReopens(i) PROVE TickShape'
    BY <1>4 DEF LinearReopens, Touched
<1>5. ASSUME NEW i \in Ids, FixMerges(i) PROVE TickShape'
    BY <1>5 DEF FixMerges
<1>6. ASSUME NEW i \in Ids, LeavesWindow(i) PROVE TickShape'
    BY <1>6 DEF LeavesWindow
<1>7. ASSUME NEW i \in Ids, NEW age \in {"72h", "7d"}, GrowsOld(i, age) PROVE TickShape'
    BY <1>7 DEF GrowsOld, Move
<1>8. CASE LoseHistory
    BY <1>8 DEF LoseHistory, Move, NoHistory
<1>9. CASE Killed
    BY <1>9 DEF Killed, Idle, NoHistory
<1>10. ASSUME NEW F \in SUBSET Categories, Observe(F) PROVE TickShape'
    BY <1>10 DEF Observe, Reported, Idle
<1>11. CASE GetOpenIssues
    BY <1>11 DEF GetOpenIssues
<1>12. CASE GetOpenIssuesFails
    BY <1>12 DEF GetOpenIssuesFails
<1>13. ASSUME NEW i \in Ids, ReopenClosedIssue(i) PROVE TickShape'
    BY <1>13 DEF ReopenClosedIssue, InProcess, ToNext
<1>14. CASE ReopenFails
    BY <1>14 DEF ReopenFails, InProcess
<1>15. CASE SuppressChurn
    BY <1>15 DEF SuppressChurn, InProcess, ToNext
<1>16. CASE SkipDuplicate
    BY <1>16 DEF SkipDuplicate, ToNext
<1>17. ASSUME NEW k \in Keys, CreateIssue(k) PROVE TickShape'
    BY <1>17 DEF CreateIssue, MayCreate, InProcess, ToNext, NewIssue
<1>18. ASSUME NEW k \in Keys, CreateIssueFails(k) PROVE TickShape'
    BY <1>18 DEF CreateIssueFails, MayCreate, InProcess, ToNext, NewIssue
<1>19. CASE Record
    BY <1>19 DEF Record, Idle, NoHistory, Mark
<1>20. CASE ListOrphans
    BY <1>20 DEF ListOrphans
<1>21. CASE CloseResolved
    BY <1>21 DEF CloseResolved, Visited, Closed
<1>22. CASE KeepOpen
    BY <1>22 DEF KeepOpen, Visited
<1>23. ASSUME NEW F \in SUBSET Ids, ClassifyOrphans(F) PROVE TickShape'
    BY <1>23 DEF ClassifyOrphans
<1>24. CASE BudgetExhausted
    BY <1>24 DEF BudgetExhausted
<1>25. CASE CloseOrphan
    BY <1>25 DEF CloseOrphan, Drifting, Visited, Closed
<1>26. CASE CommentBlocked
    BY <1>26 DEF CommentBlocked, Drifting, Visited, Mark
<1>27. CASE LeaveOrphan
    BY <1>27 DEF LeaveOrphan, Drifting, Visited
<1>28. CASE DriftDone
    BY <1>28 DEF DriftDone
<1>29. CASE Finish
    BY <1>29 DEF Finish, Mark, Idle, NoHistory, Seen
<1>30. CASE UNCHANGED vars
    BY <1>30 DEF vars
<1> QED
    BY <1>1, <1>2, <1>3, <1>4, <1>5, <1>6, <1>7, <1>8, <1>9, <1>10,
       <1>11, <1>12, <1>13, <1>14, <1>15, <1>16, <1>17, <1>18, <1>19, <1>20,
       <1>21, <1>22, <1>23, <1>24, <1>25, <1>26, <1>27, <1>28, <1>29, <1>30
    DEF Next, TickStep, Others

LEMMA HistShapeStep ==
    ASSUME ScannerConstants, TickShape, HistShape, [Next]_vars PROVE HistShape'
<1> USE DEF TickShape, HistShape
<1>1. ASSUME NEW P \in SUBSET Keys, Commit(P) PROVE HistShape'
    BY <1>1 DEF Commit, Move
<1>2. ASSUME NEW i \in Ids, UserCloses(i) PROVE HistShape'
    BY <1>2 DEF UserCloses, Move, Touched
<1>3. ASSUME NEW i \in Ids, UserReopens(i) PROVE HistShape'
    BY <1>3 DEF UserReopens, Move, Touched
<1>4. ASSUME NEW i \in Ids, LinearReopens(i) PROVE HistShape'
    BY <1>4 DEF LinearReopens, Touched
<1>5. ASSUME NEW i \in Ids, FixMerges(i) PROVE HistShape'
    BY <1>5 DEF FixMerges
<1>6. ASSUME NEW i \in Ids, LeavesWindow(i) PROVE HistShape'
    BY <1>6 DEF LeavesWindow
<1>7. ASSUME NEW i \in Ids, NEW age \in {"72h", "7d"}, GrowsOld(i, age) PROVE HistShape'
    BY <1>7 DEF GrowsOld, Move
<1>8. CASE LoseHistory
    BY <1>8 DEF LoseHistory, Move, NoHistory
<1>9. CASE Killed
    BY <1>9 DEF Killed, Idle, NoHistory
<1>10. ASSUME NEW F \in SUBSET Categories, Observe(F) PROVE HistShape'
    BY <1>10 DEF Observe, Idle
<1>11. CASE GetOpenIssues
    BY <1>11 DEF GetOpenIssues
<1>12. CASE GetOpenIssuesFails
    BY <1>12 DEF GetOpenIssuesFails
<1>13. ASSUME NEW i \in Ids, ReopenClosedIssue(i) PROVE HistShape'
    BY <1>13 DEF ReopenClosedIssue, InProcess, ToNext
<1>14. CASE ReopenFails
    BY <1>14 DEF ReopenFails, InProcess
<1>15. CASE SuppressChurn
    BY <1>15 DEF SuppressChurn, InProcess, ToNext
<1>16. CASE SkipDuplicate
    BY <1>16 DEF SkipDuplicate, ToNext
<1>17. ASSUME NEW k \in Keys, CreateIssue(k) PROVE HistShape'
    BY <1>17 DEF CreateIssue, MayCreate, InProcess, ToNext, NewIssue
<1>18. ASSUME NEW k \in Keys, CreateIssueFails(k) PROVE HistShape'
    BY <1>18 DEF CreateIssueFails, MayCreate, InProcess, ToNext, NewIssue
<1>19. CASE Record
    <2>1. hist' = NoHistory \/ hist' = UpdateHistory(hist, tick.found, tick.failed)
        BY <1>19 DEF Record
    <2>2. CASE hist' = NoHistory
        <3>1. hist' = [x \in {"snapshots", "resolved"} |-> hist'[x]] /\ hist'.snapshots = <<>>
            BY <2>2 DEF NoHistory
        <3>2. UNCHANGED <<cache, unseen>>
            BY <1>19 DEF Record
        <3> QED
            BY <3>1, <3>2
    <2>3. CASE hist' = UpdateHistory(hist, tick.found, tick.failed)
        <3>1. hist'.snapshots = Newest(Append(hist.snapshots, tick.found))
            BY <2>3, UpdateLemma
        <3>2. Append(hist.snapshots, tick.found) \in Seq(SUBSET Keys)
            OBVIOUS
        <3>3. hist'.snapshots \in Seq(SUBSET Keys)
            <4>1. Newest(Append(hist.snapshots, tick.found)) \in Seq(SUBSET Keys)
                BY RecordLemma
            <4> QED
                BY <3>1, <4>1
        <3>4. hist' = [x \in {"snapshots", "resolved"} |-> hist'[x]]
            <4> DEFINE u == UpdateHistory(hist, tick.found, tick.failed)
            <4>1. u = [x \in {"snapshots", "resolved"} |-> u[x]]
                BY DEF UpdateHistory
            <4> HIDE DEF u
            <4>2. hist' = u
                BY <2>3 DEF u
            <4> QED
                BY <4>1, <4>2
        <3> QED
            BY <1>19, <3>3, <3>4 DEF Record
    <2> QED
        BY <2>1, <2>2, <2>3
<1>20. CASE ListOrphans
    BY <1>20 DEF ListOrphans
<1>21. CASE CloseResolved
    BY <1>21 DEF CloseResolved, Visited, Closed
<1>22. CASE KeepOpen
    BY <1>22 DEF KeepOpen, Visited
<1>23. ASSUME NEW F \in SUBSET Ids, ClassifyOrphans(F) PROVE HistShape'
    BY <1>23 DEF ClassifyOrphans
<1>24. CASE BudgetExhausted
    BY <1>24 DEF BudgetExhausted
<1>25. CASE CloseOrphan
    BY <1>25 DEF CloseOrphan, Drifting, Visited, Closed
<1>26. CASE CommentBlocked
    BY <1>26 DEF CommentBlocked, Drifting, Visited, Mark
<1>27. CASE LeaveOrphan
    BY <1>27 DEF LeaveOrphan, Drifting, Visited
<1>28. CASE DriftDone
    BY <1>28 DEF DriftDone
<1>29. CASE Finish
    BY <1>29 DEF Finish, NoHistory, Seen, ScannerConstants
<1>30. CASE UNCHANGED vars
    BY <1>30 DEF vars
<1> QED
    BY <1>1, <1>2, <1>3, <1>4, <1>5, <1>6, <1>7, <1>8, <1>9, <1>10,
       <1>11, <1>12, <1>13, <1>14, <1>15, <1>16, <1>17, <1>18, <1>19, <1>20,
       <1>21, <1>22, <1>23, <1>24, <1>25, <1>26, <1>27, <1>28, <1>29, <1>30
    DEF Next, TickStep, Others

\* No step removes an issue, changes its key or undoes the merge of its fix.
Kept ==
    \A i \in Ids :
        /\ i \in Ids'
        /\ issues'[i].key = issues[i].key
        /\ FixMerged(i) => issues'[i].evidence # "linked"

\* One issue is edited.
LEMMA EditLemma ==
    ASSUME IssueShape, NEW i \in Ids, NEW new \in Issue, new.key = issues[i].key,
           FixMerged(i) => new.evidence # "linked",
           issues' = [issues EXCEPT ![i] = new]
    PROVE  IssueShape' /\ Kept
<1>1. issues' \in Seq(Issue) /\ Len(issues') = Len(issues)
    BY DEF IssueShape, Ids
<1>2. \A j \in Ids : issues'[j] = IF j = i THEN new ELSE issues[j]
    BY DEF IssueShape, Ids
<1> QED
    BY <1>1, <1>2 DEF IssueShape, Kept, Ids, FixMerged

LEMMA FlagLemma ==
    ASSUME IssueShape, NEW i \in Ids, NEW o \in BOOLEAN, NEW r \in BOOLEAN,
           issues' = [issues EXCEPT ![i].open = o, ![i].recent = r]
    PROVE  IssueShape' /\ Kept
<1> DEFINE new == [issues[i] EXCEPT !.open = o, !.recent = r]
<1>1. issues[i] \in Issue
    BY DEF IssueShape, Ids
<1>2. new \in Issue /\ new.key = issues[i].key /\ new.evidence = issues[i].evidence
    BY <1>1 DEF Issue
<1>3. issues' = [issues EXCEPT ![i] = new]
    OBVIOUS
<1> QED
    BY <1>2, <1>3, EditLemma DEF FixMerged

LEMMA MarkLemma ==
    ASSUME IssueShape, NEW I, NEW m \in {"isolated", "blocked", "advised"}, Mark(I, m)
    PROVE  IssueShape' /\ Kept
<1>1. \A j \in Ids : issues[j] \in Issue
    BY DEF IssueShape, Ids
<1>2. \A j \in Ids : LET new == [issues[j] EXCEPT !.marks = @ \cup {m}]
                     IN  new \in Issue /\ new.key = issues[j].key /\ new.evidence = issues[j].evidence
    BY <1>1 DEF Issue
<1>3. \A j \in Ids : issues'[j] = IF j \in I THEN [issues[j] EXCEPT !.marks = @ \cup {m}] ELSE issues[j]
    BY DEF Mark
<1>4. issues' = [j \in Ids |-> issues'[j]]
    BY <1>3 DEF Mark
<1>5. issues' \in Seq(Issue) /\ Len(issues') = Len(issues)
    BY <1>1, <1>2, <1>3, <1>4 DEF IssueShape, Ids
<1>6. ASSUME NEW j \in Ids
      PROVE  issues'[j].key = issues[j].key /\ issues'[j].evidence = issues[j].evidence
    <2>1. CASE j \in I
        BY <1>2, <1>3, <2>1
    <2>2. CASE j \notin I
        BY <1>3, <2>2
    <2> QED
        BY <2>1, <2>2
<1> QED
    BY <1>5, <1>6 DEF IssueShape, Kept, Ids, FixMerged

LEMMA NewLemma ==
    ASSUME IssueShape, NEW k \in Keys, NEW e \in {"none", "linked"},
           issues' = Append(issues, NewIssue(k, e))
    PROVE  IssueShape' /\ Kept
<1>1. NewIssue(k, e) \in Issue
    BY DEF NewIssue, Issue, Evidence
<1> QED
    BY <1>1 DEF IssueShape, Kept, Ids, FixMerged

LEMMA SameLemma == ASSUME IssueShape, UNCHANGED issues PROVE IssueShape' /\ Kept
BY DEF IssueShape, Kept, Ids, FixMerged

LEMMA IssueShapeStep ==
    ASSUME IssueShape, VisitShape, [Next]_vars PROVE IssueShape' /\ Kept
<1>1. ASSUME NEW P \in SUBSET Keys, Commit(P) PROVE IssueShape' /\ Kept
    BY <1>1, SameLemma DEF Commit, github
<1>2. ASSUME NEW i \in Ids, UserCloses(i) PROVE IssueShape' /\ Kept
    BY <1>2, FlagLemma DEF UserCloses
<1>3. ASSUME NEW i \in Ids, UserReopens(i) PROVE IssueShape' /\ Kept
    BY <1>3, FlagLemma DEF UserReopens
<1>4. ASSUME NEW i \in Ids, LinearReopens(i) PROVE IssueShape' /\ Kept
    BY <1>4, FlagLemma DEF LinearReopens
<1>5. ASSUME NEW i \in Ids, FixMerges(i) PROVE IssueShape' /\ Kept
    <2>1. issues' = [issues EXCEPT ![i] = [issues[i] EXCEPT !.evidence = "merged"]]
        BY <1>5 DEF FixMerges
    <2>2. issues[i] \in Issue
        BY DEF IssueShape, Ids
    <2>3. /\ [issues[i] EXCEPT !.evidence = "merged"] \in Issue
          /\ [issues[i] EXCEPT !.evidence = "merged"].key = issues[i].key
          /\ [issues[i] EXCEPT !.evidence = "merged"].evidence # "linked"
        BY <2>2 DEF Issue, Evidence
    <2> QED
        BY <2>1, <2>3, EditLemma
<1>6. ASSUME NEW i \in Ids, LeavesWindow(i) PROVE IssueShape' /\ Kept
    <2>1. issues' = [issues EXCEPT ![i] = [issues[i] EXCEPT !.recent = FALSE]]
        BY <1>6 DEF LeavesWindow
    <2>2. issues[i] \in Issue
        BY DEF IssueShape, Ids
    <2>3. /\ [issues[i] EXCEPT !.recent = FALSE] \in Issue
          /\ [issues[i] EXCEPT !.recent = FALSE].key = issues[i].key
          /\ [issues[i] EXCEPT !.recent = FALSE].evidence = issues[i].evidence
        BY <2>2 DEF Issue, Evidence
    <2> QED
        BY <2>1, <2>3, EditLemma DEF FixMerged
<1>7. ASSUME NEW i \in Ids, NEW age \in {"72h", "7d"}, GrowsOld(i, age) PROVE IssueShape' /\ Kept
    <2>1. issues' = [issues EXCEPT ![i] = [issues[i] EXCEPT !.age = age]]
        BY <1>7 DEF GrowsOld
    <2>2. issues[i] \in Issue
        BY DEF IssueShape, Ids
    <2>3. /\ [issues[i] EXCEPT !.age = age] \in Issue
          /\ [issues[i] EXCEPT !.age = age].key = issues[i].key
          /\ [issues[i] EXCEPT !.age = age].evidence = issues[i].evidence
        BY <2>2 DEF Issue, Evidence
    <2> QED
        BY <2>1, <2>3, EditLemma DEF FixMerged
<1>8. CASE LoseHistory
    BY <1>8, SameLemma DEF LoseHistory, github
<1>9. CASE Killed
    BY <1>9, SameLemma DEF Killed, github
<1>10. ASSUME NEW F \in SUBSET Categories, Observe(F) PROVE IssueShape' /\ Kept
    BY <1>10, SameLemma DEF Observe, github
<1>11. CASE GetOpenIssues
    BY <1>11, SameLemma DEF GetOpenIssues, github
<1>12. CASE GetOpenIssuesFails
    BY <1>12, SameLemma DEF GetOpenIssuesFails, github
<1>13. ASSUME NEW i \in Ids, ReopenClosedIssue(i) PROVE IssueShape' /\ Kept
    BY <1>13, FlagLemma DEF ReopenClosedIssue
<1>14. CASE ReopenFails
    <2>1. CASE UNCHANGED issues
        BY <2>1, SameLemma
    <2>2. ASSUME NEW i \in Ids, issues' = [issues EXCEPT ![i].open = TRUE, ![i].recent = FALSE]
          PROVE  IssueShape' /\ Kept
        BY <2>2, FlagLemma
    <2> QED
        BY <1>14, <2>1, <2>2 DEF ReopenFails, IdsOf
<1>15. CASE SuppressChurn
    BY <1>15, SameLemma DEF SuppressChurn, github
<1>16. CASE SkipDuplicate
    BY <1>16, SameLemma DEF SkipDuplicate, github
<1>17. ASSUME NEW k \in Keys, CreateIssue(k) PROVE IssueShape' /\ Kept
    BY <1>17, NewLemma DEF CreateIssue
<1>18. ASSUME NEW k \in Keys, CreateIssueFails(k) PROVE IssueShape' /\ Kept
    BY <1>18, NewLemma, SameLemma DEF CreateIssueFails
<1>19. CASE Record
    BY <1>19, MarkLemma, SameLemma DEF Record
<1>20. CASE ListOrphans
    BY <1>20, SameLemma DEF ListOrphans, github
<1>21. CASE CloseResolved
    <2>1. PICK i \in Ids : Closed(i)
        BY <1>21 DEF CloseResolved, VisitShape
    <2> QED
        BY <2>1, FlagLemma DEF Closed
<1>22. CASE KeepOpen
    BY <1>22, SameLemma DEF KeepOpen, github
<1>23. ASSUME NEW F \in SUBSET Ids, ClassifyOrphans(F) PROVE IssueShape' /\ Kept
    BY <1>23, SameLemma DEF ClassifyOrphans, github
<1>24. CASE BudgetExhausted
    BY <1>24, SameLemma DEF BudgetExhausted, github
<1>25. CASE CloseOrphan
    BY <1>25, FlagLemma DEF CloseOrphan, Closed, VisitShape
<1>26. CASE CommentBlocked
    BY <1>26, MarkLemma DEF CommentBlocked
<1>27. CASE LeaveOrphan
    BY <1>27, SameLemma DEF LeaveOrphan, github
<1>28. CASE DriftDone
    BY <1>28, SameLemma DEF DriftDone, github
<1>29. CASE Finish
    BY <1>29, MarkLemma, SameLemma DEF Finish
<1>30. CASE UNCHANGED vars
    BY <1>30, SameLemma DEF vars
<1> QED
    BY <1>1, <1>2, <1>3, <1>4, <1>5, <1>6, <1>7, <1>8, <1>9, <1>10,
       <1>11, <1>12, <1>13, <1>14, <1>15, <1>16, <1>17, <1>18, <1>19, <1>20,
       <1>21, <1>22, <1>23, <1>24, <1>25, <1>26, <1>27, <1>28, <1>29, <1>30
    DEF Next, TickStep, Others

\* The lists that the two closing paths visit hold issues.
LEMMA VisitStep ==
    ASSUME TickShape, IssueShape, VisitShape, [Next]_vars PROVE VisitShape'
<1>1. Kept
    BY IssueShapeStep
<1>2. ASSUME NEW P \in SUBSET Keys, Commit(P) PROVE VisitShape'
    BY <1>2, <1>1 DEF Commit, Move, Kept, VisitShape, TickShape, Fields
<1>3. ASSUME NEW i \in Ids, UserCloses(i) PROVE VisitShape'
    BY <1>3, <1>1 DEF UserCloses, Move, Touched, Kept, VisitShape, TickShape, Fields
<1>4. ASSUME NEW i \in Ids, UserReopens(i) PROVE VisitShape'
    BY <1>4, <1>1 DEF UserReopens, Move, Touched, Kept, VisitShape, TickShape, Fields
<1>5. ASSUME NEW i \in Ids, LinearReopens(i) PROVE VisitShape'
    BY <1>5, <1>1 DEF LinearReopens, Touched, Kept, VisitShape, TickShape, Fields
<1>6. ASSUME NEW i \in Ids, FixMerges(i) PROVE VisitShape'
    BY <1>6, <1>1 DEF FixMerges, Kept, VisitShape, TickShape, Fields
<1>7. ASSUME NEW i \in Ids, LeavesWindow(i) PROVE VisitShape'
    BY <1>7, <1>1 DEF LeavesWindow, Kept, VisitShape, TickShape, Fields
<1>8. ASSUME NEW i \in Ids, NEW age \in {"72h", "7d"}, GrowsOld(i, age) PROVE VisitShape'
    BY <1>8, <1>1 DEF GrowsOld, Move, Kept, VisitShape, TickShape, Fields
<1>9. CASE LoseHistory
    BY <1>9, <1>1 DEF LoseHistory, Move, NoHistory, Kept, VisitShape, TickShape, Fields
<1>10. CASE Killed
    BY <1>10, <1>1 DEF Killed, Idle, NoHistory, Kept, VisitShape, TickShape, Fields
<1>11. ASSUME NEW F \in SUBSET Categories, Observe(F) PROVE VisitShape'
    BY <1>11, <1>1 DEF Observe, Idle, Kept, VisitShape, TickShape, Fields
<1>12. CASE GetOpenIssues
    BY <1>12, <1>1 DEF GetOpenIssues, Kept, VisitShape, TickShape, Fields, github, Ids, OpenIds
<1>13. CASE GetOpenIssuesFails
    BY <1>13, <1>1 DEF GetOpenIssuesFails, Kept, VisitShape, TickShape, Fields
<1>14. ASSUME NEW i \in Ids, ReopenClosedIssue(i) PROVE VisitShape'
    BY <1>14, <1>1 DEF ReopenClosedIssue, InProcess, ToNext, Kept, VisitShape, TickShape, Fields
<1>15. CASE ReopenFails
    BY <1>15, <1>1 DEF ReopenFails, InProcess, Kept, VisitShape, TickShape, Fields
<1>16. CASE SuppressChurn
    BY <1>16, <1>1 DEF SuppressChurn, InProcess, ToNext, Kept, VisitShape, TickShape, Fields
<1>17. CASE SkipDuplicate
    BY <1>17, <1>1 DEF SkipDuplicate, ToNext, Kept, VisitShape, TickShape, Fields
<1>18. ASSUME NEW k \in Keys, CreateIssue(k) PROVE VisitShape'
    BY <1>18, <1>1 DEF CreateIssue, MayCreate, InProcess, ToNext, NewIssue, Kept, VisitShape, TickShape, Fields
<1>19. ASSUME NEW k \in Keys, CreateIssueFails(k) PROVE VisitShape'
    BY <1>19, <1>1 DEF CreateIssueFails, MayCreate, InProcess, ToNext, NewIssue, Kept, VisitShape, TickShape, Fields
<1>20. CASE Record
    BY <1>20, <1>1 DEF Record, Idle, NoHistory, Mark, Kept, VisitShape, TickShape, Fields
<1>21. CASE ListOrphans
    BY <1>21, <1>1 DEF ListOrphans, Kept, VisitShape, TickShape, Fields, github, Ids, OpenIds
<1>22. CASE CloseResolved
    BY <1>22, <1>1 DEF CloseResolved, Visited, Closed, Kept, VisitShape, TickShape, Fields
<1>23. CASE KeepOpen
    BY <1>23, <1>1 DEF KeepOpen, Visited, Kept, VisitShape, TickShape, Fields
<1>24. ASSUME NEW F \in SUBSET Ids, ClassifyOrphans(F) PROVE VisitShape'
    BY <1>24, <1>1 DEF ClassifyOrphans, Kept, VisitShape, TickShape, Fields, github, Ids
<1>25. CASE BudgetExhausted
    BY <1>25, <1>1 DEF BudgetExhausted, Kept, VisitShape, TickShape, Fields
<1>26. CASE CloseOrphan
    BY <1>26, <1>1 DEF CloseOrphan, Drifting, Visited, Closed, Kept, VisitShape, TickShape, Fields
<1>27. CASE CommentBlocked
    BY <1>27, <1>1 DEF CommentBlocked, Drifting, Visited, Mark, Kept, VisitShape, TickShape, Fields
<1>28. CASE LeaveOrphan
    BY <1>28, <1>1 DEF LeaveOrphan, Drifting, Visited, Kept, VisitShape, TickShape, Fields
<1>29. CASE DriftDone
    BY <1>29, <1>1 DEF DriftDone, Kept, VisitShape, TickShape, Fields
<1>30. CASE Finish
    BY <1>30, <1>1 DEF Finish, Mark, Idle, NoHistory, Seen, Kept, VisitShape, TickShape, Fields
<1>31. CASE UNCHANGED vars
    BY <1>31, <1>1 DEF vars, Kept, VisitShape, Ids
<1> QED
    BY <1>2, <1>3, <1>4, <1>5, <1>6, <1>7, <1>8, <1>9, <1>10, <1>11,
       <1>12, <1>13, <1>14, <1>15, <1>16, <1>17, <1>18, <1>19, <1>20, <1>21,
       <1>22, <1>23, <1>24, <1>25, <1>26, <1>27, <1>28, <1>29, <1>30, <1>31
    DEF Next, TickStep, Others

\* A finding that the saved snapshots lack was unseen as long.
LEMMA SavedStep ==
    ASSUME ScannerConstants, TickShape, HistShape, Saved, Restored, [Next]_vars PROVE Saved'
<1>1. ASSUME NEW P \in SUBSET Keys, Commit(P) PROVE Saved'
    BY <1>1 DEF Commit, Saved
<1>2. ASSUME NEW i \in Ids, UserCloses(i) PROVE Saved'
    BY <1>2 DEF UserCloses, Saved
<1>3. ASSUME NEW i \in Ids, UserReopens(i) PROVE Saved'
    BY <1>3 DEF UserReopens, Saved
<1>4. ASSUME NEW i \in Ids, LinearReopens(i) PROVE Saved'
    BY <1>4 DEF LinearReopens, Saved
<1>5. ASSUME NEW i \in Ids, FixMerges(i) PROVE Saved'
    BY <1>5 DEF FixMerges, Saved
<1>6. ASSUME NEW i \in Ids, LeavesWindow(i) PROVE Saved'
    BY <1>6 DEF LeavesWindow, Saved
<1>7. ASSUME NEW i \in Ids, NEW age \in {"72h", "7d"}, GrowsOld(i, age) PROVE Saved'
    BY <1>7 DEF GrowsOld, Saved
<1>8. CASE LoseHistory
    <2>1. cache'.snapshots = <<>>
        BY <1>8 DEF LoseHistory, NoHistory
    <2>2. \A k \in Keys : unseen'[k] \in 0 .. Grace
        BY <1>8 DEF LoseHistory, HistShape
    <2>3. \A k \in Keys, n \in 0 .. Grace : AbsentFor(<<>>, k, n) => n <= 0
        BY DEF AbsentFor, ScannerConstants
    <2> QED
        BY <2>1, <2>2, <2>3 DEF Saved, ScannerConstants
<1>9. CASE Killed
    BY <1>9 DEF Killed, Saved
<1>10. ASSUME NEW F \in SUBSET Categories, Observe(F) PROVE Saved'
    BY <1>10 DEF Observe, Saved
<1>11. CASE GetOpenIssues
    BY <1>11 DEF GetOpenIssues, Saved
<1>12. CASE GetOpenIssuesFails
    BY <1>12 DEF GetOpenIssuesFails, Saved
<1>13. ASSUME NEW i \in Ids, ReopenClosedIssue(i) PROVE Saved'
    BY <1>13 DEF ReopenClosedIssue, Saved
<1>14. CASE ReopenFails
    BY <1>14 DEF ReopenFails, Saved
<1>15. CASE SuppressChurn
    BY <1>15 DEF SuppressChurn, Saved
<1>16. CASE SkipDuplicate
    BY <1>16 DEF SkipDuplicate, Saved
<1>17. ASSUME NEW k \in Keys, CreateIssue(k) PROVE Saved'
    BY <1>17 DEF CreateIssue, Saved
<1>18. ASSUME NEW k \in Keys, CreateIssueFails(k) PROVE Saved'
    BY <1>18 DEF CreateIssueFails, Saved
<1>19. CASE Record
    BY <1>19 DEF Record, Saved
<1>20. CASE ListOrphans
    BY <1>20 DEF ListOrphans, Saved
<1>21. CASE CloseResolved
    BY <1>21 DEF CloseResolved, Saved
<1>22. CASE KeepOpen
    BY <1>22 DEF KeepOpen, Saved
<1>23. ASSUME NEW F \in SUBSET Ids, ClassifyOrphans(F) PROVE Saved'
    BY <1>23 DEF ClassifyOrphans, Saved
<1>24. CASE BudgetExhausted
    BY <1>24 DEF BudgetExhausted, Saved
<1>25. CASE CloseOrphan
    BY <1>25 DEF CloseOrphan, Drifting, Saved
<1>26. CASE CommentBlocked
    BY <1>26 DEF CommentBlocked, Drifting, Saved
<1>27. CASE LeaveOrphan
    BY <1>27 DEF LeaveOrphan, Drifting, Saved
<1>28. CASE DriftDone
    BY <1>28 DEF DriftDone, Saved
<1>29. CASE Finish
    <2> SUFFICES ASSUME NEW k \in Keys, NEW n \in 0 .. Grace, AbsentFor(cache'.snapshots, k, n)
                 PROVE  n <= unseen'[k]
        BY DEF Saved
    <2>1. cache'.snapshots = Appended
        BY <1>29 DEF Finish, Restored
    <2>2. unseen'[k] = IF k \in tick.found THEN 0 ELSE IF unseen[k] < Grace THEN unseen[k] + 1 ELSE Grace
        BY <1>29 DEF Finish, Seen
    <2>3. Grace \in Nat /\ SnapshotLimit \in Nat \ {0} /\ unseen[k] \in 0 .. Grace
        BY DEF ScannerConstants, HistShape
    <2>4. CASE n = 0
        BY <2>2, <2>3, <2>4
    <2>5. CASE n # 0
        <3>1. n \in Nat \ {0} /\ n - 1 \in 0 .. Grace
            BY <2>3, <2>5
        <3>2. k \notin tick.found /\ AbsentFor(cache.snapshots, k, n - 1)
            <4>1. cache.snapshots \in Seq(SUBSET Keys) /\ tick.found \in SUBSET Keys
                BY DEF HistShape, TickShape
            <4>2. AbsentFor(Newest(Append(cache.snapshots, tick.found)), k, n)
                BY <2>1 DEF Appended
            <4>3. SnapshotLimit \in Nat \ {0}
                BY <2>3
            <4> DEFINE s == cache.snapshots
                       f == tick.found
            <4>4. s \in Seq(SUBSET Keys) /\ f \in SUBSET Keys /\ AbsentFor(Newest(Append(s, f)), k, n)
                BY <4>1, <4>2
            <4> HIDE DEF s, f
            <4>5. k \notin f /\ AbsentFor(s, k, n - 1)
                BY <3>1, <4>3, <4>4, AbsentSnapshotsLemma
            <4> QED
                BY <4>5 DEF s, f
        <3>3. n - 1 <= unseen[k]
            BY <3>1, <3>2 DEF Saved
        <3> QED
            BY <2>2, <2>3, <3>1, <3>2, <3>3
    <2> QED
        BY <2>4, <2>5
<1>30. CASE UNCHANGED vars
    BY <1>30 DEF vars, Saved
<1> QED
    BY <1>1, <1>2, <1>3, <1>4, <1>5, <1>6, <1>7, <1>8, <1>9, <1>10,
       <1>11, <1>12, <1>13, <1>14, <1>15, <1>16, <1>17, <1>18, <1>19, <1>20,
       <1>21, <1>22, <1>23, <1>24, <1>25, <1>26, <1>27, <1>28, <1>29, <1>30
    DEF Next, TickStep, Others

\* The job works on the history it restored, and appends one snapshot to it.
LEMMA RestoredStep ==
    ASSUME ScannerConstants, TickShape, HistShape, Restored, [Next]_vars PROVE Restored'
<1>1. ASSUME NEW P \in SUBSET Keys, Commit(P) PROVE Restored'
    BY <1>1 DEF Commit, Move, Restored, Appended, TickShape, HistShape, Fields
<1>2. ASSUME NEW i \in Ids, UserCloses(i) PROVE Restored'
    BY <1>2 DEF UserCloses, Move, Touched, Restored, Appended, TickShape, HistShape, Fields
<1>3. ASSUME NEW i \in Ids, UserReopens(i) PROVE Restored'
    BY <1>3 DEF UserReopens, Move, Touched, Restored, Appended, TickShape, HistShape, Fields
<1>4. ASSUME NEW i \in Ids, LinearReopens(i) PROVE Restored'
    BY <1>4 DEF LinearReopens, Touched, Restored, Appended, TickShape, HistShape, Fields
<1>5. ASSUME NEW i \in Ids, FixMerges(i) PROVE Restored'
    BY <1>5 DEF FixMerges, Restored, Appended, TickShape, HistShape, Fields
<1>6. ASSUME NEW i \in Ids, LeavesWindow(i) PROVE Restored'
    BY <1>6 DEF LeavesWindow, Restored, Appended, TickShape, HistShape, Fields
<1>7. ASSUME NEW i \in Ids, NEW age \in {"72h", "7d"}, GrowsOld(i, age) PROVE Restored'
    BY <1>7 DEF GrowsOld, Move, Restored, Appended, TickShape, HistShape, Fields
<1>8. CASE LoseHistory
    BY <1>8 DEF LoseHistory, Move, NoHistory, Restored, Appended, TickShape, HistShape, Fields
<1>9. CASE Killed
    BY <1>9 DEF Killed, Idle, NoHistory, Restored, Appended, TickShape, HistShape, Fields
<1>10. ASSUME NEW F \in SUBSET Categories, Observe(F) PROVE Restored'
    BY <1>10 DEF Observe, Idle, Restored, Appended, TickShape, HistShape, Fields
<1>11. CASE GetOpenIssues
    BY <1>11 DEF GetOpenIssues, Restored, Appended, TickShape, HistShape, Fields
<1>12. CASE GetOpenIssuesFails
    BY <1>12 DEF GetOpenIssuesFails, Restored, Appended, TickShape, HistShape, Fields
<1>13. ASSUME NEW i \in Ids, ReopenClosedIssue(i) PROVE Restored'
    BY <1>13 DEF ReopenClosedIssue, InProcess, ToNext, Restored, Appended, TickShape, HistShape, Fields
<1>14. CASE ReopenFails
    BY <1>14 DEF ReopenFails, InProcess, Restored, Appended, TickShape, HistShape, Fields
<1>15. CASE SuppressChurn
    BY <1>15 DEF SuppressChurn, InProcess, ToNext, Restored, Appended, TickShape, HistShape, Fields
<1>16. CASE SkipDuplicate
    BY <1>16 DEF SkipDuplicate, ToNext, Restored, Appended, TickShape, HistShape, Fields
<1>17. ASSUME NEW k \in Keys, CreateIssue(k) PROVE Restored'
    BY <1>17 DEF CreateIssue, MayCreate, InProcess, ToNext, NewIssue, Restored, Appended, TickShape, HistShape, Fields
<1>18. ASSUME NEW k \in Keys, CreateIssueFails(k) PROVE Restored'
    BY <1>18 DEF CreateIssueFails, MayCreate, InProcess, ToNext, NewIssue, Restored, Appended, TickShape, HistShape, Fields
<1>19. CASE Record
    <2>1. CASE EndsRed
        BY <1>19, <2>1 DEF Record, Restored
    <2>2. CASE ~EndsRed
        <3>1. hist' = UpdateHistory(hist, tick.found, tick.failed) /\ tick' = tick /\ cache' = cache
            BY <1>19, <2>2 DEF Record
        <3>2. hist'.snapshots = Newest(Append(hist.snapshots, tick.found))
            BY <3>1 DEF UpdateHistory
        <3>3. hist.snapshots = cache.snapshots /\ pc' = "list"
            BY <1>19, <2>2 DEF Record, Restored
        <3> QED
            BY <3>1, <3>2, <3>3 DEF Restored, Appended
    <2> QED
        BY <2>1, <2>2
<1>20. CASE ListOrphans
    BY <1>20 DEF ListOrphans, Restored, Appended, TickShape, HistShape, Fields
<1>21. CASE CloseResolved
    BY <1>21 DEF CloseResolved, Visited, Closed, Restored, Appended, TickShape, HistShape, Fields
<1>22. CASE KeepOpen
    BY <1>22 DEF KeepOpen, Visited, Restored, Appended, TickShape, HistShape, Fields
<1>23. ASSUME NEW F \in SUBSET Ids, ClassifyOrphans(F) PROVE Restored'
    BY <1>23 DEF ClassifyOrphans, Restored, Appended, TickShape, HistShape, Fields
<1>24. CASE BudgetExhausted
    BY <1>24 DEF BudgetExhausted, Restored, Appended, TickShape, HistShape, Fields
<1>25. CASE CloseOrphan
    BY <1>25 DEF CloseOrphan, Drifting, Visited, Closed, Restored, Appended, TickShape, HistShape, Fields
<1>26. CASE CommentBlocked
    BY <1>26 DEF CommentBlocked, Drifting, Visited, Mark, Restored, Appended, TickShape, HistShape, Fields
<1>27. CASE LeaveOrphan
    BY <1>27 DEF LeaveOrphan, Drifting, Visited, Restored, Appended, TickShape, HistShape, Fields
<1>28. CASE DriftDone
    BY <1>28 DEF DriftDone, Restored, Appended, TickShape, HistShape, Fields
<1>29. CASE Finish
    BY <1>29 DEF Finish, Mark, Idle, NoHistory, Seen, Restored, Appended, TickShape, HistShape, Fields
<1>30. CASE UNCHANGED vars
    BY <1>30 DEF vars, Restored, Appended
<1> QED
    BY <1>1, <1>2, <1>3, <1>4, <1>5, <1>6, <1>7, <1>8, <1>9, <1>10,
       <1>11, <1>12, <1>13, <1>14, <1>15, <1>16, <1>17, <1>18, <1>19, <1>20,
       <1>21, <1>22, <1>23, <1>24, <1>25, <1>26, <1>27, <1>28, <1>29, <1>30
    DEF Next, TickStep, Others

\* What was ready to close stays so while the job works through the list.
LEMMA ReadyStep ==
    ASSUME TickShape, IssueShape, VisitShape, Ready, [Next]_vars PROVE Ready'
<1>1. Kept
    BY IssueShapeStep
<1>2. ASSUME NEW P \in SUBSET Keys, Commit(P) PROVE Ready'
    BY <1>2, <1>1 DEF Commit, Move, Ready, Kept, Protected, FixMerged, VisitShape, TickShape, Fields
<1>3. ASSUME NEW i \in Ids, UserCloses(i) PROVE Ready'
    BY <1>3, <1>1 DEF UserCloses, Move, Touched, Ready, Kept, Protected, FixMerged, VisitShape, TickShape, Fields
<1>4. ASSUME NEW i \in Ids, UserReopens(i) PROVE Ready'
    BY <1>4, <1>1 DEF UserReopens, Move, Touched, Ready, Kept, Protected, FixMerged, VisitShape, TickShape, Fields
<1>5. ASSUME NEW i \in Ids, LinearReopens(i) PROVE Ready'
    BY <1>5, <1>1 DEF LinearReopens, Touched, Ready, Kept, Protected, FixMerged, VisitShape, TickShape, Fields
<1>6. ASSUME NEW i \in Ids, FixMerges(i) PROVE Ready'
    BY <1>6, <1>1 DEF FixMerges, Ready, Kept, Protected, FixMerged, VisitShape, TickShape, Fields
<1>7. ASSUME NEW i \in Ids, LeavesWindow(i) PROVE Ready'
    BY <1>7, <1>1 DEF LeavesWindow, Ready, Kept, Protected, FixMerged, VisitShape, TickShape, Fields
<1>8. ASSUME NEW i \in Ids, NEW age \in {"72h", "7d"}, GrowsOld(i, age) PROVE Ready'
    BY <1>8, <1>1 DEF GrowsOld, Move, Ready, Kept, Protected, FixMerged, VisitShape, TickShape, Fields
<1>9. CASE LoseHistory
    BY <1>9, <1>1 DEF LoseHistory, Move, NoHistory, Ready, Kept, Protected, FixMerged, VisitShape, TickShape, Fields
<1>10. CASE Killed
    BY <1>10, <1>1 DEF Killed, Idle, NoHistory, Ready, Kept, Protected, FixMerged, VisitShape, TickShape, Fields
<1>11. ASSUME NEW F \in SUBSET Categories, Observe(F) PROVE Ready'
    BY <1>11, <1>1 DEF Observe, Idle, Ready, Kept, Protected, FixMerged, VisitShape, TickShape, Fields
<1>12. CASE GetOpenIssues
    BY <1>12, <1>1 DEF GetOpenIssues, Ready, Kept, Protected, FixMerged, VisitShape, TickShape, Fields
<1>13. CASE GetOpenIssuesFails
    BY <1>13, <1>1 DEF GetOpenIssuesFails, Ready, Kept, Protected, FixMerged, VisitShape, TickShape, Fields
<1>14. ASSUME NEW i \in Ids, ReopenClosedIssue(i) PROVE Ready'
    BY <1>14, <1>1 DEF ReopenClosedIssue, InProcess, ToNext, Ready, Kept, Protected, FixMerged, VisitShape, TickShape, Fields
<1>15. CASE ReopenFails
    BY <1>15, <1>1 DEF ReopenFails, InProcess, Ready, Kept, Protected, FixMerged, VisitShape, TickShape, Fields
<1>16. CASE SuppressChurn
    BY <1>16, <1>1 DEF SuppressChurn, InProcess, ToNext, Ready, Kept, Protected, FixMerged, VisitShape, TickShape, Fields
<1>17. CASE SkipDuplicate
    BY <1>17, <1>1 DEF SkipDuplicate, ToNext, Ready, Kept, Protected, FixMerged, VisitShape, TickShape, Fields
<1>18. ASSUME NEW k \in Keys, CreateIssue(k) PROVE Ready'
    BY <1>18, <1>1 DEF CreateIssue, MayCreate, InProcess, ToNext, NewIssue, Ready, Kept, Protected, FixMerged, VisitShape, TickShape, Fields
<1>19. ASSUME NEW k \in Keys, CreateIssueFails(k) PROVE Ready'
    BY <1>19, <1>1 DEF CreateIssueFails, MayCreate, InProcess, ToNext, NewIssue, Ready, Kept, Protected, FixMerged, VisitShape, TickShape, Fields
<1>20. CASE Record
    BY <1>20, <1>1 DEF Record, Idle, NoHistory, Mark, Ready, Kept, Protected, FixMerged, VisitShape, TickShape, Fields
<1>21. CASE ListOrphans
    BY <1>21, <1>1 DEF ListOrphans, Ready, Kept, Protected, FixMerged, VisitShape, TickShape, Fields
<1>22. CASE CloseResolved
    BY <1>22, <1>1 DEF CloseResolved, Visited, Closed, Ready, Kept, Protected, FixMerged, VisitShape, TickShape, Fields
<1>23. CASE KeepOpen
    BY <1>23, <1>1 DEF KeepOpen, Visited, Ready, Kept, Protected, FixMerged, VisitShape, TickShape, Fields
<1>24. ASSUME NEW F \in SUBSET Ids, ClassifyOrphans(F) PROVE Ready'
    BY <1>24 DEF ClassifyOrphans, Ready, Protected, FixMerged, TickShape, Fields, github
<1>25. CASE BudgetExhausted
    BY <1>25, <1>1 DEF BudgetExhausted, Ready, Kept, Protected, FixMerged, VisitShape, TickShape, Fields
<1>26. CASE CloseOrphan
    BY <1>26, <1>1 DEF CloseOrphan, Drifting, Visited, Closed, Ready, Kept, Protected, FixMerged, VisitShape, TickShape, Fields
<1>27. CASE CommentBlocked
    BY <1>27, <1>1 DEF CommentBlocked, Drifting, Visited, Mark, Ready, Kept, Protected, FixMerged, VisitShape, TickShape, Fields
<1>28. CASE LeaveOrphan
    BY <1>28, <1>1 DEF LeaveOrphan, Drifting, Visited, Ready, Kept, Protected, FixMerged, VisitShape, TickShape, Fields
<1>29. CASE DriftDone
    BY <1>29, <1>1 DEF DriftDone, Ready, Kept, Protected, FixMerged, VisitShape, TickShape, Fields
<1>30. CASE Finish
    BY <1>30, <1>1 DEF Finish, Mark, Idle, NoHistory, Seen, Ready, Kept, Protected, FixMerged, VisitShape, TickShape, Fields
<1>31. CASE UNCHANGED vars
    BY <1>31 DEF vars, Ready, Protected, FixMerged
<1> QED
    BY <1>2, <1>3, <1>4, <1>5, <1>6, <1>7, <1>8, <1>9, <1>10, <1>11,
       <1>12, <1>13, <1>14, <1>15, <1>16, <1>17, <1>18, <1>19, <1>20, <1>21,
       <1>22, <1>23, <1>24, <1>25, <1>26, <1>27, <1>28, <1>29, <1>30, <1>31
    DEF Next, TickStep, Others

(***************************************************************************)
(* The theorem.                                                            *)
(***************************************************************************)
LEMMA ScanInit == ASSUME ScannerConstants, Init PROVE ScanInv
<1>1. TickShape
    BY DEF Init, Idle, TickShape, Fields
<1>2. HistShape
    BY DEF Init, NoHistory, HistShape, ScannerConstants
<1>3. IssueShape /\ VisitShape
    BY DEF Init, Idle, IssueShape, VisitShape
<1>4. Saved
    <2>1. \A k \in Keys, n \in 0 .. Grace : AbsentFor(<<>>, k, n) => n <= 0
        BY DEF AbsentFor, ScannerConstants
    <2> QED
        BY <2>1 DEF Init, NoHistory, Saved
<1>5. Restored /\ Ready
    BY DEF Init, Restored, Ready
<1> QED
    BY <1>1, <1>2, <1>3, <1>4, <1>5 DEF ScanInv

LEMMA ScanInvStep == ASSUME ScannerConstants, ScanInv, [Next]_vars PROVE ScanInv'
<1> USE DEF ScanInv
<1>1. TickShape'
    BY TickShapeStep
<1>2. HistShape'
    BY HistShapeStep
<1>3. IssueShape' /\ VisitShape'
    BY IssueShapeStep, VisitStep
<1>4. Saved' /\ Restored' /\ Ready'
    BY SavedStep, RestoredStep, ReadyStep
<1> QED
    BY <1>1, <1>2, <1>3, <1>4

LEMMA ScanInvariant == ASSUME ScannerConstants PROVE Spec => []ScanInv
<1>1. Init => ScanInv
    BY ScanInit
<1>2. ScanInv /\ [Next]_vars => ScanInv'
    BY ScanInvStep
<1> QED
    BY <1>1, <1>2, PTL DEF Spec

\* The step of the closing loops that the property is about.
Shuts(i) == issues[i].open /\ i \in tick.visit \ tick'.visit /\ ~issues'[i].open
OnEvidence(i) ==
    /\ unseen[issues[i].key] + 1 >= Grace
    /\ Category[issues[i].key] \notin tick.failed \cup {SelfAudit}
    /\ issues[i].evidence # "linked"

\* Only the two loops shut an issue that they visit.
LEMMA ShutsLemma ==
    ASSUME ScanInv, [Next]_vars, NEW j \in Ids, Shuts(j)
    PROVE  CloseResolved \/ CloseOrphan
<1> SUFFICES ASSUME ~CloseResolved, ~CloseOrphan PROVE FALSE
    OBVIOUS
<1> USE DEF Shuts
<1>1. issues[j] \in Issue /\ j \in 1 .. Len(issues) /\ DOMAIN issues = 1 .. Len(issues)
    BY DEF ScanInv, IssueShape, Ids
<1>2. ASSUME NEW P \in SUBSET Keys, Commit(P) PROVE FALSE
    BY <1>2 DEF Commit, github
<1>3. ASSUME NEW i \in Ids, UserCloses(i) PROVE FALSE
    BY <1>3, <1>1 DEF UserCloses, Touched, ScanInv, IssueShape, TickShape, Fields, Issue, Ids, github
<1>4. ASSUME NEW i \in Ids, UserReopens(i) PROVE FALSE
    BY <1>4, <1>1 DEF UserReopens, ScanInv, IssueShape, TickShape, Fields, Issue, Ids, github
<1>5. ASSUME NEW i \in Ids, LinearReopens(i) PROVE FALSE
    BY <1>5, <1>1 DEF LinearReopens, ScanInv, IssueShape, TickShape, Fields, Issue, Ids, github
<1>6. ASSUME NEW i \in Ids, FixMerges(i) PROVE FALSE
    BY <1>6, <1>1 DEF FixMerges, ScanInv, IssueShape, TickShape, Fields, Issue, Ids, github
<1>7. ASSUME NEW i \in Ids, LeavesWindow(i) PROVE FALSE
    BY <1>7, <1>1 DEF LeavesWindow, ScanInv, IssueShape, TickShape, Fields, Issue, Ids, github
<1>8. ASSUME NEW i \in Ids, NEW age \in {"72h", "7d"}, GrowsOld(i, age) PROVE FALSE
    BY <1>8, <1>1 DEF GrowsOld, ScanInv, IssueShape, TickShape, Fields, Issue, Ids, github
<1>9. ASSUME LoseHistory PROVE FALSE
    BY <1>9 DEF LoseHistory, github
<1>10. ASSUME Killed PROVE FALSE
    BY <1>10 DEF Killed, github
<1>11. ASSUME NEW F \in SUBSET Categories, Observe(F) PROVE FALSE
    BY <1>11 DEF Observe, github
<1>12. ASSUME GetOpenIssues PROVE FALSE
    BY <1>12 DEF GetOpenIssues, github
<1>13. ASSUME GetOpenIssuesFails PROVE FALSE
    BY <1>13 DEF GetOpenIssuesFails, github
<1>14. ASSUME NEW i \in Ids, ReopenClosedIssue(i) PROVE FALSE
    BY <1>14, <1>1 DEF ReopenClosedIssue, ScanInv, IssueShape, TickShape, Fields, Issue, Ids, github
<1>15. ASSUME ReopenFails PROVE FALSE
    BY <1>15, <1>1 DEF ReopenFails, ScanInv, IssueShape, TickShape, Fields, Issue, Ids, github
<1>16. ASSUME SuppressChurn PROVE FALSE
    BY <1>16 DEF SuppressChurn, github
<1>17. ASSUME SkipDuplicate PROVE FALSE
    BY <1>17 DEF SkipDuplicate, github
<1>18. ASSUME NEW k \in Keys, CreateIssue(k) PROVE FALSE
    BY <1>18, <1>1 DEF CreateIssue, ScanInv, IssueShape, TickShape, Fields, Issue, Ids, github
<1>19. ASSUME NEW k \in Keys, CreateIssueFails(k) PROVE FALSE
    BY <1>19, <1>1 DEF CreateIssueFails, ScanInv, IssueShape, TickShape, Fields, Issue, Ids, github
<1>20. ASSUME Record PROVE FALSE
    BY <1>20, <1>1 DEF Record, Mark, ScanInv, IssueShape, TickShape, Fields, Issue, Ids, github
<1>21. ASSUME ListOrphans PROVE FALSE
    BY <1>21 DEF ListOrphans, github
<1>22. ASSUME KeepOpen PROVE FALSE
    BY <1>22 DEF KeepOpen, github
<1>23. ASSUME NEW F \in SUBSET Ids, ClassifyOrphans(F) PROVE FALSE
    BY <1>23 DEF ClassifyOrphans, github
<1>24. ASSUME BudgetExhausted PROVE FALSE
    BY <1>24 DEF BudgetExhausted, github
<1>25. ASSUME CommentBlocked PROVE FALSE
    BY <1>25, <1>1 DEF CommentBlocked, Mark, ScanInv, IssueShape, TickShape, Fields, Issue, Ids, github
<1>26. ASSUME LeaveOrphan PROVE FALSE
    BY <1>26 DEF LeaveOrphan, github
<1>27. ASSUME DriftDone PROVE FALSE
    BY <1>27 DEF DriftDone, github
<1>28. ASSUME Finish PROVE FALSE
    BY <1>28, <1>1 DEF Finish, Mark, ScanInv, IssueShape, TickShape, Fields, Issue, Ids, github
<1>29. ASSUME UNCHANGED vars PROVE FALSE
    BY <1>29 DEF vars
<1> QED
    BY <1>2, <1>3, <1>4, <1>5, <1>6, <1>7, <1>8, <1>9, <1>10, <1>11,
       <1>12, <1>13, <1>14, <1>15, <1>16, <1>17, <1>18, <1>19, <1>20, <1>21,
       <1>22, <1>23, <1>24, <1>25, <1>26, <1>27, <1>28, <1>29
    DEF Next, TickStep, Others

\* Three ticks in a row that did not see the finding are in the history.
LEMMA GraceLemma ==
    ASSUME ScannerConstants, ScanInv, pc \in {"close", "drift"},
           NEW i \in Ids, ~GraceDeferred(i)
    PROVE  unseen[issues[i].key] + 1 >= Grace
<1> DEFINE k == issues[i].key
<1>1. k \in Keys
    <2>1. issues[i] \in Issue
        BY DEF ScanInv, IssueShape, Ids
    <2> QED
        BY <2>1 DEF Issue
<1>2. AbsentFor(Newest(Append(cache.snapshots, tick.found)), k, Grace)
    BY DEF GraceDeferred, ScanInv, Restored, Appended
<1> HIDE DEF k
<1>3. SnapshotLimit \in Nat \ {0} /\ Grace \in Nat \ {0} /\ unseen[k] \in 0 .. Grace
    BY <1>1 DEF ScannerConstants, ScanInv, HistShape
<1>4. cache.snapshots \in Seq(SUBSET Keys) /\ tick.found \in SUBSET Keys
    BY DEF ScanInv, HistShape, TickShape
<1>5. AbsentFor(cache.snapshots, k, Grace - 1)
    BY <1>2, <1>3, <1>4, AbsentSnapshotsLemma
<1>6. Grace - 1 \in 0 .. Grace
    BY <1>3
<1>7. Grace - 1 <= unseen[k]
    BY <1>1, <1>5, <1>6 DEF ScanInv, Saved
<1> QED
    BY <1>3, <1>7 DEF k

LEMMA EvidenceStep ==
    ASSUME ScannerConstants, ScanInv, [Next]_vars, NEW j \in Ids, Shuts(j)
    PROVE  OnEvidence(j)
<1>1. CASE CloseResolved
    <2>1. PICK i \in tick.visit : /\ ~Protected(i) /\ ~GraceDeferred(i) /\ FixMerged(i)
                                  /\ Closed(i) /\ Visited(i)
        BY <1>1 DEF CloseResolved
    <2>2. i = j /\ pc = "close"
        BY <1>1, <2>1 DEF CloseResolved, Closed, Visited, Shuts, ScanInv, TickShape, Fields
    <2>3. unseen[issues[j].key] + 1 >= Grace
        BY <2>1, <2>2, GraceLemma
    <2> QED
        BY <2>1, <2>2, <2>3 DEF OnEvidence, Protected, FixMerged
<1>2. CASE CloseOrphan
    <2>1. PICK i \in tick.visit : /\ pc = "drift" /\ Visited(i)
                                  /\ i \in tick.ready /\ ~GraceDeferred(i) /\ Closed(i)
        BY <1>2 DEF CloseOrphan, Drifting
    <2>2. i = j
        BY <2>1 DEF Closed, Visited, Shuts, ScanInv, TickShape, Fields
    <2>3. unseen[issues[j].key] + 1 >= Grace
        BY <2>1, <2>2, GraceLemma
    <2>4. ~Protected(j) /\ FixMerged(j)
        BY <2>1, <2>2 DEF ScanInv, Ready
    <2> QED
        BY <2>3, <2>4 DEF OnEvidence, Protected, FixMerged
<1> QED
    BY <1>1, <1>2, ShutsLemma

\* The scanner closes an issue only when the finding was absent from three
\* recorded ticks in a row, its tool answered and its fix was merged, whatever
\* happened to the history in between (auto_close_resolved, _should_skip_close
\* and execute_orphan_classifications).
THEOREM IssuesCloseOnEvidence == ASSUME ScannerConstants PROVE Spec => ClosedOnEvidence
<1>1. ScanInv /\ [Next]_vars =>
          [\A i \in Ids :
              (issues[i].open /\ i \in tick.visit \ tick'.visit /\ ~issues'[i].open) =>
                  /\ unseen[issues[i].key] + 1 >= Grace
                  /\ Category[issues[i].key] \notin tick.failed \cup {SelfAudit}
                  /\ issues[i].evidence # "linked"]_vars
    <2> SUFFICES ASSUME ScanInv, [Next]_vars, NEW i \in Ids, Shuts(i) PROVE OnEvidence(i)
        BY DEF Shuts, OnEvidence
    <2> QED
        BY EvidenceStep
<1> QED
    BY <1>1, ScanInvariant, PTL DEF Spec, ClosedOnEvidence


(***************************************************************************)
(* The lists that a tick works through.                                    *)
(***************************************************************************)
LEMMA OrderLemma ==
    ASSUME ScannerConstants
    PROVE  Order \in Seq(Keys) /\ Elements(Order) = Keys
BY DEF ScannerConstants, Elements

\* The findings that the open and the recently closed issues may not swallow.
ToPeel(h) == {k \in Keys : k \in ResolvedKeys(h) /\ Category[k] # DailyAudit}

LEMMA PeeledLemma ==
    ASSUME ScannerConstants, NEW h, NEW found \in SUBSET Keys
    PROVE  /\ Peeled(h, found) \in Seq(Keys)
           /\ Elements(Peeled(h, found)) = found \cap ToPeel(h)
           /\ Distinct(Order) => Distinct(Peeled(h, found))
<1> DEFINE T == {k \in found : /\ SeverityNow(h, k) = "critical"
                               /\ k \in ResolvedKeys(h)
                               /\ Category[k] # DailyAudit}
<1>1. T = found \cap ToPeel(h)
    BY DEF SeverityNow, ToPeel
<1>2. Peeled(h, found) = Select(Order, T)
    BY DEF Peeled
<1> HIDE DEF T
<1>3. T \subseteq Keys
    BY <1>1
<1> QED
    BY <1>1, <1>2, <1>3, OrderLemma, SelectLemma

\* Sorting keeps every finding, once.
LEMMA SortLemma ==
    ASSUME ScannerConstants, NEW h, NEW s \in Seq(Keys)
    PROVE  /\ SortBySeverity(h, s) \in Seq(Keys)
           /\ Elements(SortBySeverity(h, s)) = Elements(s)
           /\ Distinct(s) => Distinct(SortBySeverity(h, s))
<1> DEFINE K(severity) == {k \in Keys : SeverityNow(h, k) = severity}
           c == Select(s, K("critical"))
           w == Select(s, K("warning"))
           i == Select(s, K("info"))
<1>1. /\ c \in Seq(Keys) /\ Elements(c) = Elements(s) \cap K("critical")
      /\ Distinct(s) => Distinct(c)
    BY SelectLemma
<1>2. /\ w \in Seq(Keys) /\ Elements(w) = Elements(s) \cap K("warning")
      /\ Distinct(s) => Distinct(w)
    BY SelectLemma
<1>3. /\ i \in Seq(Keys) /\ Elements(i) = Elements(s) \cap K("info")
      /\ Distinct(s) => Distinct(i)
    BY SelectLemma
<1>4. SortBySeverity(h, s) = (c \o w) \o i
    BY DEF SortBySeverity
<1>5. Keys = K("critical") \cup K("warning") \cup K("info")
    BY DEF ScannerConstants, SeverityNow, Severities
<1>6. /\ K("critical") \cap K("warning") = {}
      /\ (K("critical") \cup K("warning")) \cap K("info") = {}
    OBVIOUS
<1>7. Elements(s) \subseteq Keys
    BY DEF Elements
<1> HIDE DEF K, c, w, i
<1>8. /\ c \o w \in Seq(Keys) /\ Elements(c \o w) = Elements(c) \cup Elements(w)
      /\ Distinct(s) => Distinct(c \o w)
    BY <1>1, <1>2, <1>6, ConcatLemma
<1>9. /\ (c \o w) \o i \in Seq(Keys)
      /\ Elements((c \o w) \o i) = Elements(c \o w) \cup Elements(i)
      /\ Distinct(s) => Distinct((c \o w) \o i)
    <2>1. Elements(c \o w) \cap Elements(i) = {}
        BY <1>1, <1>2, <1>3, <1>6, <1>8
    <2>2. /\ (c \o w) \o i \in Seq(Keys)
          /\ Elements((c \o w) \o i) = Elements((c \o w)) \cup Elements(i)
          /\ (Distinct((c \o w)) /\ Distinct(i) /\ Elements((c \o w)) \cap Elements(i) = {})
                => Distinct((c \o w) \o i)
        BY <1>3, <1>8, ConcatLemma
    <2> QED
        BY <1>3, <1>8, <2>1, <2>2
<1>10. Elements((c \o w) \o i) = Elements(s)
    BY <1>1, <1>2, <1>3, <1>5, <1>7, <1>8, <1>9
<1> QED
    BY <1>4, <1>9, <1>10

LEMMA DeduplicateLemma ==
    ASSUME ScannerConstants, NEW h, NEW found \in SUBSET Keys, NEW known
    PROVE  /\ Deduplicate(h, found, known) \in Seq(Keys)
           /\ Elements(Deduplicate(h, found, known)) = (found \ known) \ ToPeel(h)
           /\ Distinct(Order) => Distinct(Deduplicate(h, found, known))
<1> DEFINE T == {k \in found \ known : ~(k \in ResolvedKeys(h) /\ Category[k] # DailyAudit)}
           s == Select(Order, T)
<1>1. T = (found \ known) \ ToPeel(h)
    BY DEF ToPeel
<1>2. Deduplicate(h, found, known) = SortBySeverity(h, s)
    BY DEF Deduplicate
<1>3. /\ s \in Seq(Keys) /\ Elements(s) = Elements(Order) \cap T
      /\ Distinct(Order) => Distinct(s)
    BY OrderLemma, SelectLemma
<1> HIDE DEF T, s
<1>4. Elements(s) = T
    BY <1>1, <1>3, OrderLemma
<1> QED
    BY <1>1, <1>2, <1>3, <1>4, SortLemma

LEMMA PoolLemma ==
    ASSUME ScannerConstants, NEW s \in Seq(Keys), NEW p \in Pools
    PROVE  /\ Pool(s, p) \in Seq(Keys)
           /\ Elements(Pool(s, p)) = {k \in Elements(s) : PoolOf(k) = p}
           /\ Distinct(s) => Distinct(Pool(s, p))
           /\ Take(Pool(s, p), Quota[p]) \in Seq(Keys)
           /\ Elements(Take(Pool(s, p), Quota[p])) \cup Elements(Drop(Pool(s, p), Quota[p]))
                 = Elements(Pool(s, p))
           /\ Distinct(s) => Distinct(Take(Pool(s, p), Quota[p]))
<1> DEFINE T == {k \in Keys : PoolOf(k) = p}
           t == Pool(s, p)
<1>1. /\ t \in Seq(Keys) /\ Elements(t) = Elements(s) \cap T
      /\ Distinct(s) => Distinct(t)
    BY SelectLemma DEF Pool
<1>2. Elements(s) \cap T = {k \in Elements(s) : PoolOf(k) = p}
    BY DEF Elements
<1>3. Quota[p] \in Nat
    BY DEF ScannerConstants
<1> HIDE DEF T, t
<1>4. /\ Take(t, Quota[p]) \in Seq(Keys)
      /\ Elements(Take(t, Quota[p])) \cup Elements(Drop(t, Quota[p])) = Elements(t)
      /\ Distinct(t) => Distinct(Take(t, Quota[p]))
    BY <1>1, <1>3, TakeDropLemma
<1> QED
    BY <1>1, <1>2, <1>4 DEF t

\* Every finding left after deduplication is worked on or deferred by a quota,
\* unless the daily audit reports it itself; none is worked on twice.
LEMMA WorkListLemma ==
    ASSUME ScannerConstants, NEW peeled \in Seq(Keys), NEW deduped \in Seq(Keys)
    PROVE  /\ WorkList(peeled, deduped) \in Seq(Keys)
           /\ Elements(WorkList(peeled, deduped)) \subseteq Elements(peeled) \cup Elements(deduped)
           /\ \A k \in Elements(peeled) \cup Elements(deduped) :
                 \/ Category[k] = DailyAudit
                 \/ k \in Elements(WorkList(peeled, deduped))
                 \/ k \in QuotaDeferredKeys(peeled, deduped)
           /\ (Distinct(peeled) /\ Distinct(deduped) /\ Elements(peeled) \cap Elements(deduped) = {})
                 => Distinct(WorkList(peeled, deduped))
<1> DEFINE Disjoint == Distinct(peeled) /\ Distinct(deduped) /\ Elements(peeled) \cap Elements(deduped) = {}
           a == Take(peeled, Quota["regular"])
           r == Take(Pool(deduped, "regular"), Quota["regular"])
           u == Take(Pool(deduped, "self_audit"), Quota["self_audit"])
           c == Take(Pool(deduped, "code_hygiene"), Quota["code_hygiene"])
           Of(p) == {k \in Elements(deduped) : PoolOf(k) = p}
<1>1. WorkList(peeled, deduped) = ((a \o r) \o u) \o c
    BY DEF WorkList
<1>2. "regular" \in Pools /\ "self_audit" \in Pools /\ "code_hygiene" \in Pools
    BY DEF Pools
<1>3. /\ a \in Seq(Keys)
      /\ Elements(a) \cup Elements(Drop(peeled, Quota["regular"])) = Elements(peeled)
      /\ Disjoint => Distinct(a)
    <2>1. Quota["regular"] \in Nat
        BY <1>2 DEF ScannerConstants
    <2> QED
        BY <2>1, TakeDropLemma
<1>4. /\ r \in Seq(Keys)
      /\ Disjoint => Distinct(r)
      /\ Elements(r) \cup Elements(Drop(Pool(deduped, "regular"), Quota["regular"])) = Of("regular")
    BY <1>2, PoolLemma
<1>5. /\ u \in Seq(Keys)
      /\ Disjoint => Distinct(u)
      /\ Elements(u) \cup Elements(Drop(Pool(deduped, "self_audit"), Quota["self_audit"]))
            = Of("self_audit")
    BY <1>2, PoolLemma
<1>6. /\ c \in Seq(Keys)
      /\ Disjoint => Distinct(c)
      /\ Elements(c) \cup Elements(Drop(Pool(deduped, "code_hygiene"), Quota["code_hygiene"]))
            = Of("code_hygiene")
    BY <1>2, PoolLemma
<1>7. /\ Of("regular") \cap Of("self_audit") = {}
      /\ (Of("regular") \cup Of("self_audit")) \cap Of("code_hygiene") = {}
      /\ Of("regular") \cup Of("self_audit") \cup Of("code_hygiene") \subseteq Elements(deduped)
    OBVIOUS
<1>8. \A k : Category[k] = DailyAudit \/ PoolOf(k) \in {"regular", "self_audit", "code_hygiene"}
    BY DEF PoolOf
<1>9. \A p \in Pools : Elements(Drop(Pool(deduped, p), Quota[p]))
                          \subseteq QuotaDeferredKeys(peeled, deduped)
    BY DEF QuotaDeferredKeys
<1>10. Elements(Drop(peeled, Quota["regular"])) \subseteq QuotaDeferredKeys(peeled, deduped)
    BY DEF QuotaDeferredKeys
<1>11. \A k \in Elements(deduped) : k \in Of(PoolOf(k))
    OBVIOUS
<1> HIDE DEF a, r, u, c, Of, Disjoint
<1>12. /\ a \o r \in Seq(Keys) /\ Elements(a \o r) = Elements(a) \cup Elements(r)
       /\ Disjoint => Distinct(a \o r)
    <2>1. Disjoint => Elements(a) \cap Elements(r) = {}
        BY <1>3, <1>4, <1>7 DEF Disjoint
    <2>2. a \in Seq(Keys) /\ r \in Seq(Keys)
        BY <1>3, <1>4
    <2>3. /\ a \o r \in Seq(Keys)
          /\ Elements(a \o r) = Elements(a) \cup Elements(r)
          /\ (Distinct(a) /\ Distinct(r) /\ Elements(a) \cap Elements(r) = {})
                => Distinct(a \o r)
        BY <2>2, ConcatLemma
    <2> QED
        BY <1>3, <1>4, <2>1, <2>3
<1>13. /\ (a \o r) \o u \in Seq(Keys)
       /\ Elements((a \o r) \o u) = Elements(a) \cup Elements(r) \cup Elements(u)
       /\ Disjoint => Distinct((a \o r) \o u)
    <2>1. Disjoint => Elements(a \o r) \cap Elements(u) = {}
        BY <1>3, <1>4, <1>5, <1>7, <1>12 DEF Disjoint
    <2>2. a \o r \in Seq(Keys) /\ u \in Seq(Keys)
        BY <1>5, <1>12
    <2>3. /\ (a \o r) \o u \in Seq(Keys)
          /\ Elements((a \o r) \o u) = Elements((a \o r)) \cup Elements(u)
          /\ (Distinct((a \o r)) /\ Distinct(u) /\ Elements((a \o r)) \cap Elements(u) = {})
                => Distinct((a \o r) \o u)
        BY <2>2, ConcatLemma
    <2> QED
        BY <1>5, <1>12, <2>1, <2>3
<1>14. /\ ((a \o r) \o u) \o c \in Seq(Keys)
       /\ Elements(((a \o r) \o u) \o c)
             = Elements(a) \cup Elements(r) \cup Elements(u) \cup Elements(c)
       /\ Disjoint => Distinct(((a \o r) \o u) \o c)
    <2>1. Disjoint => Elements((a \o r) \o u) \cap Elements(c) = {}
        BY <1>3, <1>4, <1>5, <1>6, <1>7, <1>13 DEF Disjoint
    <2>2. (a \o r) \o u \in Seq(Keys) /\ c \in Seq(Keys)
        BY <1>6, <1>13
    <2>3. /\ ((a \o r) \o u) \o c \in Seq(Keys)
          /\ Elements(((a \o r) \o u) \o c) = Elements(((a \o r) \o u)) \cup Elements(c)
          /\ (Distinct(((a \o r) \o u)) /\ Distinct(c) /\ Elements(((a \o r) \o u)) \cap Elements(c) = {})
                => Distinct(((a \o r) \o u) \o c)
        BY <2>2, ConcatLemma
    <2> QED
        BY <1>6, <1>13, <2>1, <2>3
<1> DEFINE all == Elements(WorkList(peeled, deduped))
           later == QuotaDeferredKeys(peeled, deduped)
<1>15. all = Elements(a) \cup Elements(r) \cup Elements(u) \cup Elements(c)
    BY <1>1, <1>14
<1>16. /\ Elements(peeled) \subseteq all \cup later
       /\ Of("regular") \cup Of("self_audit") \cup Of("code_hygiene") \subseteq all \cup later
    BY <1>2, <1>3, <1>4, <1>5, <1>6, <1>9, <1>10, <1>15
<1>17. all \subseteq Elements(peeled) \cup Elements(deduped)
    BY <1>3, <1>4, <1>5, <1>6, <1>7, <1>15
<1> HIDE DEF all, later
<1>18. ASSUME NEW k \in Elements(peeled) \cup Elements(deduped)
       PROVE  Category[k] = DailyAudit \/ k \in all \/ k \in later
    BY <1>8, <1>11, <1>16
<1> QED
    BY <1>1, <1>14, <1>17, <1>18 DEF all, later, Disjoint

(***************************************************************************)
(* Types.                                                                  *)
(***************************************************************************)
Counters ==
    /\ present \in SUBSET Keys
    /\ spam \in Nat /\ moves \in 0 .. MaxMoves /\ faults \in 0 .. MaxFaults
    /\ spam <= faults

LEMMA CategoriesLemma ==
    ASSUME ScannerConstants
    PROVE  \A F \in SUBSET Categories : Cardinality(F) \in Nat
<1>1. Category \in Surjection(Keys, Categories)
    BY DEF ScannerConstants, Categories, Surjection
<1>2. IsFiniteSet(Categories)
    BY <1>1, FS_Surjection DEF ScannerConstants
<1> QED
    BY <1>2, FS_Subset, FS_CardinalityType

LEMMA CountersStep ==
    ASSUME ScannerConstants, Counters, [Next]_vars PROVE Counters'
<1> USE DEF Counters, ScannerConstants
<1>1. ASSUME NEW P \in SUBSET Keys, Commit(P) PROVE Counters'
    BY <1>1 DEF Commit, Move, github
<1>2. ASSUME NEW i \in Ids, UserCloses(i) PROVE Counters'
    BY <1>2 DEF UserCloses, Move, github
<1>3. ASSUME NEW i \in Ids, UserReopens(i) PROVE Counters'
    BY <1>3 DEF UserReopens, Move, github
<1>4. ASSUME NEW i \in Ids, LinearReopens(i) PROVE Counters'
    BY <1>4 DEF LinearReopens, github
<1>5. ASSUME NEW i \in Ids, FixMerges(i) PROVE Counters'
    BY <1>5 DEF FixMerges, github
<1>6. ASSUME NEW i \in Ids, LeavesWindow(i) PROVE Counters'
    BY <1>6 DEF LeavesWindow, github
<1>7. ASSUME NEW i \in Ids, NEW age \in {"72h", "7d"}, GrowsOld(i, age) PROVE Counters'
    BY <1>7 DEF GrowsOld, Move, github
<1>8. CASE LoseHistory
    BY <1>8 DEF LoseHistory, Move, github
<1>9. CASE Killed
    BY <1>9 DEF Killed, Fault, github
<1>10. ASSUME NEW F \in SUBSET Categories, Observe(F) PROVE Counters'
    <2>1. Cardinality(F) \in Nat
        BY CategoriesLemma
    <2>2. faults' \in 0 .. MaxFaults /\ faults <= faults'
        BY <1>10, <2>1 DEF Observe
    <2> QED
        BY <1>10, <2>2 DEF Observe, github
<1>11. CASE GetOpenIssues
    BY <1>11 DEF GetOpenIssues, github
<1>12. CASE GetOpenIssuesFails
    BY <1>12 DEF GetOpenIssuesFails, Fault, github
<1>13. ASSUME NEW i \in Ids, ReopenClosedIssue(i) PROVE Counters'
    BY <1>13 DEF ReopenClosedIssue, Fault, NoFault, github
<1>14. CASE ReopenFails
    BY <1>14 DEF ReopenFails, Fault, NoFault, github
<1>15. CASE SuppressChurn
    BY <1>15 DEF SuppressChurn, github
<1>16. CASE SkipDuplicate
    BY <1>16 DEF SkipDuplicate, github
<1>17. ASSUME NEW k \in Keys, CreateIssue(k) PROVE Counters'
    BY <1>17 DEF CreateIssue, github
<1>18. ASSUME NEW k \in Keys, CreateIssueFails(k) PROVE Counters'
    BY <1>18 DEF CreateIssueFails, Fault, github
<1>19. CASE Record
    BY <1>19 DEF Record, Fault, NoFault, github
<1>20. CASE ListOrphans
    BY <1>20 DEF ListOrphans, Fault, NoFault, github
<1>21. CASE CloseResolved
    BY <1>21 DEF CloseResolved, github
<1>22. CASE KeepOpen
    BY <1>22 DEF KeepOpen, Fault, NoFault, github
<1>23. ASSUME NEW F \in SUBSET Ids, ClassifyOrphans(F) PROVE Counters'
    BY <1>23 DEF ClassifyOrphans, Fault, NoFault, github
<1>24. CASE BudgetExhausted
    BY <1>24 DEF BudgetExhausted, Fault, github
<1>25. CASE CloseOrphan
    BY <1>25 DEF CloseOrphan, Drifting, github
<1>26. CASE CommentBlocked
    BY <1>26 DEF CommentBlocked, Drifting, Fault, NoFault, github
<1>27. CASE LeaveOrphan
    BY <1>27 DEF LeaveOrphan, Drifting, Fault, NoFault, github
<1>28. CASE DriftDone
    BY <1>28 DEF DriftDone, github
<1>29. CASE Finish
    BY <1>29 DEF Finish, Fault, NoFault, github
<1>30. CASE UNCHANGED vars
    BY <1>30 DEF vars, github
<1> QED
    BY <1>1, <1>2, <1>3, <1>4, <1>5, <1>6, <1>7, <1>8, <1>9, <1>10,
       <1>11, <1>12, <1>13, <1>14, <1>15, <1>16, <1>17, <1>18, <1>19, <1>20,
       <1>21, <1>22, <1>23, <1>24, <1>25, <1>26, <1>27, <1>28, <1>29, <1>30
    DEF Next, TickStep, Others

HistoryType ==
    /\ cache \in History /\ hist \in History
    /\ Len(cache.snapshots) <= SnapshotLimit /\ Len(cache.resolved) <= SnapshotLimit
    /\ Len(hist.snapshots) <= SnapshotLimit /\ Len(hist.resolved) <= SnapshotLimit
    /\ unseen \in [Keys -> 0 .. Grace]

\* Both lists stay within snapshot_limit.
LEMMA NewestLenLemma ==
    ASSUME SnapshotLimit \in Nat \ {0}, NEW S, NEW s \in Seq(S)
    PROVE  Len(Newest(s)) <= SnapshotLimit
<1>1. CASE Len(s) > SnapshotLimit
    BY <1>1 DEF Newest, Drop
<1>2. CASE ~(Len(s) > SnapshotLimit)
    BY <1>2 DEF Newest, Drop
<1> QED
    BY <1>1, <1>2

\* The first resolved entry of a key is there.
LEMMA EntryLemma ==
    ASSUME NEW h \in History, NEW k \in ResolvedKeys(h)
    PROVE  EntryOf(h, k) \in DOMAIN h.resolved /\ h.resolved[EntryOf(h, k)].key = k
<1> DEFINE T == {n \in DOMAIN h.resolved : h.resolved[n].key = k}
<1>1. T \subseteq Nat /\ T # {}
    BY DEF History, ResolvedKeys
<1>2. PICK m \in T : \A n \in T : m <= n
    <2> HIDE DEF T
    <2> QED
        BY <1>1, LeastNatural
<1>3. /\ m \in DOMAIN h.resolved /\ h.resolved[m].key = k
      /\ \A n \in DOMAIN h.resolved : h.resolved[n].key = k => m <= n
    BY <1>2
<1> QED
    BY <1>3 DEF EntryOf

LEMMA UpdateTypeLemma ==
    ASSUME ScannerConstants, NEW h \in History, NEW found \in SUBSET Keys, NEW failed
    PROVE  /\ UpdateHistory(h, found, failed) \in History
           /\ Len(UpdateHistory(h, found, failed).snapshots) <= SnapshotLimit
           /\ Len(UpdateHistory(h, found, failed).resolved) <= SnapshotLimit
<1> DEFINE last == IF h.snapshots = <<>> THEN {} ELSE h.snapshots[Len(h.snapshots)]
           gone == Select(Order, {k \in last \ found : Category[k] \notin failed})
           new == [n \in DOMAIN gone |-> [key |-> gone[n], reopens |-> 0]]
           S == SUBSET Keys
<1>1. SnapshotLimit \in Nat \ {0} /\ 0 \in 0 .. ReopenLimit
    BY DEF ScannerConstants
<1>2. h.snapshots \in Seq(S) /\ h.resolved \in Seq(ResolvedEntry)
    BY DEF History
<1>3. Append(h.snapshots, found) \in Seq(S)
    BY <1>2
<1>4. gone \in Seq(Keys)
    BY OrderLemma, SelectLemma
<1>5. new \in Seq(ResolvedEntry)
    <2>1. \A n \in DOMAIN gone : gone[n] \in Keys
        BY <1>4
    <2> HIDE DEF gone
    <2>2. \A n \in DOMAIN gone : [key |-> gone[n], reopens |-> 0] \in ResolvedEntry
        BY <1>1, <2>1 DEF ResolvedEntry
    <2>3. DOMAIN gone = 1 .. Len(gone) /\ Len(gone) \in Nat
        BY <1>4
    <2> QED
        BY <2>2, <2>3
<1>6. h.resolved \o new \in Seq(ResolvedEntry)
    <2> HIDE DEF new
    <2> QED
        BY <1>2, <1>5
<1>7. UpdateHistory(h, found, failed) =
        [snapshots |-> Newest(Append(h.snapshots, found)), resolved |-> Newest(h.resolved \o new)]
    BY DEF UpdateHistory
<1> HIDE DEF new, S
<1>8. Newest(Append(h.snapshots, found)) \in Seq(S) /\ Newest(h.resolved \o new) \in Seq(ResolvedEntry)
    BY <1>1, <1>3, <1>6, NewestLemma
<1>9. Len(Newest(Append(h.snapshots, found))) <= SnapshotLimit /\ Len(Newest(h.resolved \o new)) <= SnapshotLimit
    BY <1>1, <1>3, <1>6, NewestLenLemma
<1> QED
    BY <1>7, <1>8, <1>9 DEF History, S

LEMMA NoHistoryLemma ==
    ASSUME ScannerConstants
    PROVE  NoHistory \in History /\ Len(NoHistory.snapshots) = 0 /\ Len(NoHistory.resolved) = 0
BY DEF NoHistory, History

LEMMA BumpLemma ==
    ASSUME ScannerConstants, NEW x \in ResolvedEntry, ~(x.reopens >= ReopenLimit)
    PROVE  /\ [x EXCEPT !.reopens = @ + 1] \in ResolvedEntry
           /\ [x EXCEPT !.reopens = @ + 1].key = x.key
<1>1. ReopenLimit \in Nat
    BY DEF ScannerConstants
<1>2. x.reopens + 1 \in 0 .. ReopenLimit
    BY <1>1 DEF ResolvedEntry
<1> QED
    BY <1>2 DEF ResolvedEntry

\* Counting a reopen keeps the count within the limit.
LEMMA CountLemma ==
    ASSUME ScannerConstants, NEW h \in History, NEW k \in ResolvedKeys(h), ~ReopenLimitReached(h, k),
           NEW g, g = [h EXCEPT !.resolved[EntryOf(h, k)].reopens = @ + 1]
    PROVE  /\ g \in History
           /\ Len(g.snapshots) = Len(h.snapshots) /\ Len(g.resolved) = Len(h.resolved)
           /\ g.snapshots = h.snapshots
           /\ ResolvedKeys(g) = ResolvedKeys(h)
<1> DEFINE e == EntryOf(h, k)
           r == h.resolved
           new == [r[e] EXCEPT !.reopens = @ + 1]
           q == [r EXCEPT ![e] = new]
<1>1. e \in DOMAIN r /\ r \in Seq(ResolvedEntry) /\ h.snapshots \in Seq(SUBSET Keys)
    BY EntryLemma DEF History
<1>2. r[e] \in ResolvedEntry /\ ~(r[e].reopens >= ReopenLimit)
    BY <1>1 DEF ReopenLimitReached
<1>3. new \in ResolvedEntry /\ new.key = r[e].key
    BY <1>2, BumpLemma
<1>4. g = [h EXCEPT !.resolved = q]
    OBVIOUS
<1>5. g = [snapshots |-> h.snapshots, resolved |-> q]
    BY <1>4 DEF History
<1> HIDE DEF e, r, new
<1>6. q \in Seq(ResolvedEntry) /\ Len(q) = Len(r) /\ DOMAIN q = DOMAIN r
    BY <1>1, <1>3
<1>7. \A n \in DOMAIN r : q[n].key = r[n].key
    BY <1>1, <1>3
<1> HIDE DEF q
<1>8. ResolvedKeys(g) = ResolvedKeys(h)
    BY <1>5, <1>6, <1>7 DEF ResolvedKeys, r
<1> QED
    <2>1. h.snapshots \in Seq(SUBSET Keys)
        BY <1>1
    <2>2. g.snapshots = h.snapshots /\ g.resolved = q
        BY <1>5
    <2>3. g \in History
        <3> DEFINE a == h.snapshots
                   A == Seq(SUBSET Keys)
                   R == Seq(ResolvedEntry)
        <3>1. a \in A /\ q \in R /\ g = [snapshots |-> a, resolved |-> q]
            BY <1>5, <1>6, <2>1
        <3>2. History = [snapshots : A, resolved : R]
            BY DEF History
        <3> HIDE DEF a, A, R
        <3> QED
            BY <3>1, <3>2
    <2> QED
        BY <1>6, <1>8, <2>2, <2>3 DEF r

LEMMA HistoryTypeStep ==
    ASSUME ScannerConstants, HistoryType, tick.found \in SUBSET Keys, [Next]_vars
    PROVE  HistoryType'
<1> USE DEF HistoryType
<1>1. ASSUME NEW P \in SUBSET Keys, Commit(P) PROVE HistoryType'
    BY <1>1 DEF Commit
<1>2. ASSUME NEW i \in Ids, UserCloses(i) PROVE HistoryType'
    BY <1>2 DEF UserCloses
<1>3. ASSUME NEW i \in Ids, UserReopens(i) PROVE HistoryType'
    BY <1>3 DEF UserReopens
<1>4. ASSUME NEW i \in Ids, LinearReopens(i) PROVE HistoryType'
    BY <1>4 DEF LinearReopens
<1>5. ASSUME NEW i \in Ids, FixMerges(i) PROVE HistoryType'
    BY <1>5 DEF FixMerges
<1>6. ASSUME NEW i \in Ids, LeavesWindow(i) PROVE HistoryType'
    BY <1>6 DEF LeavesWindow
<1>7. ASSUME NEW i \in Ids, NEW age \in {"72h", "7d"}, GrowsOld(i, age) PROVE HistoryType'
    BY <1>7 DEF GrowsOld
<1>8. CASE LoseHistory
    BY <1>8, NoHistoryLemma DEF LoseHistory, ScannerConstants
<1>9. CASE Killed
    BY <1>9, NoHistoryLemma DEF Killed, ScannerConstants
<1>10. ASSUME NEW F \in SUBSET Categories, Observe(F) PROVE HistoryType'
    BY <1>10 DEF Observe
<1>11. CASE GetOpenIssues
    BY <1>11 DEF GetOpenIssues
<1>12. CASE GetOpenIssuesFails
    BY <1>12 DEF GetOpenIssuesFails
<1>13. ASSUME NEW i \in Ids, ReopenClosedIssue(i) PROVE HistoryType'
    <2>1. CASE UNCHANGED hist
        BY <1>13, <2>1 DEF ReopenClosedIssue
    <2>2. CASE hist' = [hist EXCEPT !.resolved[EntryOf(hist, Current)].reopens = @ + 1]
        <3>1. Current \in ResolvedKeys(hist) /\ ~ReopenLimitReached(hist, Current)
            BY <1>13 DEF ReopenClosedIssue, Regression
        <3>2. /\ hist' \in History
              /\ Len(hist'.snapshots) = Len(hist.snapshots)
              /\ Len(hist'.resolved) = Len(hist.resolved)
            <4> DEFINE c == Current
            <4>1. /\ hist \in History /\ c \in ResolvedKeys(hist) /\ ~ReopenLimitReached(hist, c)
                  /\ hist' = [hist EXCEPT !.resolved[EntryOf(hist, c)].reopens = @ + 1]
                BY <2>2, <3>1
            <4> HIDE DEF c
            <4> QED
                BY <4>1, CountLemma
        <3> QED
            BY <1>13, <3>2 DEF ReopenClosedIssue
    <2>3. UNCHANGED hist \/ hist' = [hist EXCEPT !.resolved[EntryOf(hist, Current)].reopens = @ + 1]
        BY <1>13 DEF ReopenClosedIssue
    <2> QED
        BY <2>1, <2>2, <2>3
<1>14. CASE ReopenFails
    BY <1>14 DEF ReopenFails
<1>15. CASE SuppressChurn
    BY <1>15 DEF SuppressChurn
<1>16. CASE SkipDuplicate
    BY <1>16 DEF SkipDuplicate
<1>17. ASSUME NEW k \in Keys, CreateIssue(k) PROVE HistoryType'
    BY <1>17 DEF CreateIssue
<1>18. ASSUME NEW k \in Keys, CreateIssueFails(k) PROVE HistoryType'
    BY <1>18 DEF CreateIssueFails
<1>19. CASE Record
    <2>1. CASE hist' = NoHistory
        BY <1>19, <2>1, NoHistoryLemma DEF Record, ScannerConstants
    <2>2. CASE hist' = UpdateHistory(hist, tick.found, tick.failed)
        BY <1>19, <2>2, UpdateTypeLemma DEF Record
    <2> QED
        BY <1>19, <2>1, <2>2 DEF Record
<1>20. CASE ListOrphans
    BY <1>20 DEF ListOrphans
<1>21. CASE CloseResolved
    BY <1>21 DEF CloseResolved
<1>22. CASE KeepOpen
    BY <1>22 DEF KeepOpen
<1>23. ASSUME NEW F \in SUBSET Ids, ClassifyOrphans(F) PROVE HistoryType'
    BY <1>23 DEF ClassifyOrphans
<1>24. CASE BudgetExhausted
    BY <1>24 DEF BudgetExhausted
<1>25. CASE CloseOrphan
    BY <1>25 DEF CloseOrphan, Drifting
<1>26. CASE CommentBlocked
    BY <1>26 DEF CommentBlocked, Drifting
<1>27. CASE LeaveOrphan
    BY <1>27 DEF LeaveOrphan, Drifting
<1>28. CASE DriftDone
    BY <1>28 DEF DriftDone
<1>29. CASE Finish
    <2>1. unseen' \in [Keys -> 0 .. Grace]
        BY <1>29 DEF Finish, Seen, ScannerConstants
    <2> QED
        BY <1>29, <2>1, NoHistoryLemma DEF Finish, ScannerConstants
<1>30. CASE UNCHANGED vars
    BY <1>30 DEF vars
<1> QED
    BY <1>1, <1>2, <1>3, <1>4, <1>5, <1>6, <1>7, <1>8, <1>9, <1>10,
       <1>11, <1>12, <1>13, <1>14, <1>15, <1>16, <1>17, <1>18, <1>19, <1>20,
       <1>21, <1>22, <1>23, <1>24, <1>25, <1>26, <1>27, <1>28, <1>29, <1>30
    DEF Next, TickStep, Others

Bounded == Len(issues) <= MaxIssues

LEMMA SameIdsLemma == ASSUME IssueShape, IssueShape', Ids' = Ids, Bounded PROVE Bounded'
<1>1. Ids = 1 .. Len(issues) /\ Ids' = 1 .. Len(issues') /\ Len(issues) \in Nat /\ Len(issues') \in Nat
    BY DEF IssueShape, Ids
<1>2. Len(issues') = Len(issues)
    BY <1>1
<1> QED
    BY <1>2 DEF Bounded

LEMMA BoundedStep ==
    ASSUME ScannerConstants, IssueShape, VisitShape, Bounded, [Next]_vars PROVE Bounded'
<1>1. IssueShape'
    BY IssueShapeStep
<1> USE DEF Ids
<1>2. ASSUME NEW P \in SUBSET Keys, Commit(P) PROVE Bounded'
    BY <1>2 DEF Commit, github, Bounded
<1>3. ASSUME NEW i \in Ids, UserCloses(i) PROVE Bounded'
    BY <1>3, <1>1, SameIdsLemma DEF UserCloses
<1>4. ASSUME NEW i \in Ids, UserReopens(i) PROVE Bounded'
    BY <1>4, <1>1, SameIdsLemma DEF UserReopens
<1>5. ASSUME NEW i \in Ids, LinearReopens(i) PROVE Bounded'
    BY <1>5, <1>1, SameIdsLemma DEF LinearReopens
<1>6. ASSUME NEW i \in Ids, FixMerges(i) PROVE Bounded'
    BY <1>6, <1>1, SameIdsLemma DEF FixMerges
<1>7. ASSUME NEW i \in Ids, LeavesWindow(i) PROVE Bounded'
    BY <1>7, <1>1, SameIdsLemma DEF LeavesWindow
<1>8. ASSUME NEW i \in Ids, NEW age \in {"72h", "7d"}, GrowsOld(i, age) PROVE Bounded'
    BY <1>8, <1>1, SameIdsLemma DEF GrowsOld
<1>9. CASE LoseHistory
    BY <1>9 DEF LoseHistory, github, Bounded
<1>10. CASE Killed
    BY <1>10 DEF Killed, github, Bounded
<1>11. ASSUME NEW F \in SUBSET Categories, Observe(F) PROVE Bounded'
    BY <1>11 DEF Observe, github, Bounded
<1>12. CASE GetOpenIssues
    BY <1>12 DEF GetOpenIssues, github, Bounded
<1>13. CASE GetOpenIssuesFails
    BY <1>13 DEF GetOpenIssuesFails, github, Bounded
<1>14. ASSUME NEW i \in Ids, ReopenClosedIssue(i) PROVE Bounded'
    BY <1>14, <1>1, SameIdsLemma DEF ReopenClosedIssue
<1>15. CASE ReopenFails
    BY <1>15, <1>1, SameIdsLemma DEF ReopenFails
<1>16. CASE SuppressChurn
    BY <1>16 DEF SuppressChurn, github, Bounded
<1>17. CASE SkipDuplicate
    BY <1>17 DEF SkipDuplicate, github, Bounded
<1>18. ASSUME NEW k \in Keys, CreateIssue(k) PROVE Bounded'
    BY <1>18 DEF CreateIssue, Bounded, IssueShape, ScannerConstants
<1>19. ASSUME NEW k \in Keys, CreateIssueFails(k) PROVE Bounded'
    BY <1>19 DEF CreateIssueFails, Bounded, IssueShape, ScannerConstants
<1>20. CASE Record
    BY <1>20, <1>1, SameIdsLemma DEF Record, Mark
<1>21. CASE ListOrphans
    BY <1>21 DEF ListOrphans, github, Bounded
<1>22. CASE CloseResolved
    BY <1>22, <1>1, SameIdsLemma DEF CloseResolved, Closed
<1>23. CASE KeepOpen
    BY <1>23 DEF KeepOpen, github, Bounded
<1>24. ASSUME NEW F \in SUBSET Ids, ClassifyOrphans(F) PROVE Bounded'
    BY <1>24 DEF ClassifyOrphans, github, Bounded
<1>25. CASE BudgetExhausted
    BY <1>25 DEF BudgetExhausted, github, Bounded
<1>26. CASE CloseOrphan
    BY <1>26, <1>1, SameIdsLemma DEF CloseOrphan, Closed
<1>27. CASE CommentBlocked
    BY <1>27, <1>1, SameIdsLemma DEF CommentBlocked, Mark
<1>28. CASE LeaveOrphan
    BY <1>28 DEF LeaveOrphan, Drifting, github, Bounded
<1>29. CASE DriftDone
    BY <1>29 DEF DriftDone, github, Bounded
<1>30. CASE Finish
    BY <1>30, <1>1, SameIdsLemma DEF Finish, Mark
<1>31. CASE UNCHANGED vars
    BY <1>31 DEF vars, github, Bounded
<1> QED
    BY <1>2, <1>3, <1>4, <1>5, <1>6, <1>7, <1>8, <1>9, <1>10, <1>11,
       <1>12, <1>13, <1>14, <1>15, <1>16, <1>17, <1>18, <1>19, <1>20, <1>21,
       <1>22, <1>23, <1>24, <1>25, <1>26, <1>27, <1>28, <1>29, <1>30, <1>31
    DEF Next, TickStep, Others

TickType ==
    /\ tick \in Tick
    /\ pc \in {"idle", "fetch", "process", "fallback", "list", "close", "drift", "finish"}
    /\ pc = "idle" => tick = Idle /\ hist = NoHistory
    /\ pc = "fallback" => tick.todo # <<>>

LEMMA IdleLemma == Idle \in Tick
BY DEF Idle, Tick

\* The keys and the numbers of the issues are in range.
LEMMA RangeLemma ==
    ASSUME ScannerConstants, IssueShape, Bounded
    PROVE  /\ Ids \subseteq 1 .. MaxIssues
           /\ \A i \in Ids : issues[i].key \in Keys /\ issues[i] \in Issue
<1>1. Ids = 1 .. Len(issues) /\ Len(issues) \in Nat /\ \A i \in Ids : issues[i] \in Issue
    BY DEF IssueShape, Ids
<1>2. Ids \subseteq 1 .. MaxIssues
    BY <1>1 DEF Bounded, ScannerConstants
<1>3. \A i \in Ids : issues[i].key \in Keys
    BY <1>1 DEF Issue
<1> QED
    BY <1>1, <1>2, <1>3

LEMMA TickTypeStep ==
    ASSUME ScannerConstants, Counters, IssueShape, Bounded, VisitShape, TickType, [Next]_vars
    PROVE  TickType'
<1>1. Ids \subseteq 1 .. MaxIssues /\ \A i \in Ids : issues[i].key \in Keys
    BY RangeLemma
<1>2. tick.todo # <<>> => /\ Current \in Keys /\ Tail(tick.todo) \in Seq(Keys)
    BY HeadTailLemma DEF TickType, Tick, Current
<1> USE DEF TickType
<1>3. ASSUME NEW P \in SUBSET Keys, Commit(P) PROVE TickType'
    BY <1>3 DEF Commit, Tick
<1>4. ASSUME NEW i \in Ids, UserCloses(i) PROVE TickType'
    BY <1>4, <1>1 DEF UserCloses, Touched, Tick
<1>5. ASSUME NEW i \in Ids, UserReopens(i) PROVE TickType'
    BY <1>5, <1>1 DEF UserReopens, Touched, Tick
<1>6. ASSUME NEW i \in Ids, LinearReopens(i) PROVE TickType'
    BY <1>6, <1>1 DEF LinearReopens, Touched, Tick
<1>7. ASSUME NEW i \in Ids, FixMerges(i) PROVE TickType'
    BY <1>7 DEF FixMerges, Tick
<1>8. ASSUME NEW i \in Ids, LeavesWindow(i) PROVE TickType'
    BY <1>8 DEF LeavesWindow, Tick
<1>9. ASSUME NEW i \in Ids, NEW age \in {"72h", "7d"}, GrowsOld(i, age) PROVE TickType'
    BY <1>9 DEF GrowsOld, Tick
<1>10. CASE LoseHistory
    BY <1>10 DEF LoseHistory, Tick
<1>11. CASE Killed
    BY <1>11, IdleLemma DEF Killed
<1>12. ASSUME NEW F \in SUBSET Categories, Observe(F) PROVE TickType'
    <2>1. Reported(F) \in SUBSET Keys
        BY DEF Reported, Counters
    <2>2. Peeled(cache, Reported(F)) \in Seq(Keys)
        BY <2>1, PeeledLemma
    <2>3. tick' \in Tick
        BY <1>12, <2>1, <2>2 DEF Observe, Idle, Tick
    <2> QED
        BY <1>12, <2>3 DEF Observe
<1>13. CASE GetOpenIssues
    <2> DEFINE listed == {[id |-> i, key |-> issues[i].key] : i \in OpenIds}
               closed == {issues[i].key : i \in {j \in Ids \ OpenIds : issues[j].recent}}
               deduped == Deduplicate(hist, tick.found, {e.key : e \in listed} \cup closed)
               todo == WorkList(tick.peeled, deduped)
    <2>1. listed \in SUBSET [id : 1 .. MaxIssues, key : Keys] /\ closed \in SUBSET Keys
        BY <1>1 DEF OpenIds
    <2>2. tick.found \in SUBSET Keys /\ tick.peeled \in Seq(Keys)
        BY DEF Tick
    <2>3. deduped \in Seq(Keys)
        BY <2>2, DeduplicateLemma
    <2>4. todo \in Seq(Keys)
        <3> HIDE DEF deduped
        <3> QED
            BY <2>2, <2>3, WorkListLemma
    <2>5. /\ tick' = [tick EXCEPT !.listed = listed, !.closed = closed, !.deduped = deduped,
                                  !.touched = {}, !.todo = todo]
          /\ pc' = "process"
        BY <1>13 DEF GetOpenIssues
    <2> HIDE DEF listed, closed, deduped, todo
    <2>6. tick' \in Tick
        BY <2>1, <2>3, <2>4, <2>5 DEF Tick
    <2> QED
        BY <2>5, <2>6
<1>14. CASE GetOpenIssuesFails
    BY <1>14 DEF GetOpenIssuesFails, Tick
<1>15. ASSUME NEW i \in Ids, ReopenClosedIssue(i) PROVE TickType'
    BY <1>15, <1>2 DEF ReopenClosedIssue, InProcess, ToNext, Tick
<1>16. CASE ReopenFails
    <2>1. tick.todo # <<>> /\ pc' = "fallback"
        BY <1>16 DEF ReopenFails, InProcess
    <2>2. tick' = tick \/ tick' = [tick EXCEPT !.touched = @ \cup {Current}]
        BY <1>16 DEF ReopenFails
    <2>3. tick' \in Tick /\ tick'.todo = tick.todo
        <3> DEFINE c == Current
        <3>1. c \in Keys /\ (tick' = tick \/ tick' = [tick EXCEPT !.touched = @ \cup {c}])
            BY <1>2, <2>1, <2>2
        <3> HIDE DEF c
        <3>2. CASE tick' = tick
            BY <3>2
        <3>3. CASE tick' = [tick EXCEPT !.touched = @ \cup {c}]
            <4>1. tick.touched \cup {c} \in SUBSET Keys
                BY <3>1 DEF Tick
            <4> QED
                BY <3>3, <4>1 DEF Tick
        <3> QED
            BY <3>1, <3>2, <3>3
    <2> QED
        BY <2>1, <2>3
<1>17. CASE SuppressChurn
    BY <1>17, <1>2 DEF SuppressChurn, InProcess, ToNext, Tick
<1>18. CASE SkipDuplicate
    BY <1>18, <1>2 DEF SkipDuplicate, ToNext, Tick
<1>19. ASSUME NEW k \in Keys, CreateIssue(k) PROVE TickType'
    BY <1>19, <1>2 DEF CreateIssue, MayCreate, InProcess, ToNext, Tick
<1>20. ASSUME NEW k \in Keys, CreateIssueFails(k) PROVE TickType'
    BY <1>20, <1>2 DEF CreateIssueFails, MayCreate, InProcess, ToNext, Tick
<1>21. CASE Record
    BY <1>21, IdleLemma DEF Record
<1>22. CASE ListOrphans
    BY <1>22, <1>1 DEF ListOrphans, OpenIds, VisitShape, Tick
<1>23. CASE CloseResolved
    BY <1>23 DEF CloseResolved, Visited, Tick
<1>24. CASE KeepOpen
    BY <1>24 DEF KeepOpen, Visited, Tick
<1>25. ASSUME NEW F \in SUBSET Ids, ClassifyOrphans(F) PROVE TickType'
    <2> DEFINE orphans == IF SkipPartialOutput(hist, tick.found) THEN {}
                          ELSE {e.id : e \in {x \in tick.listed : x.key \notin tick.found}}
               ready == {i \in orphans \ F : ~Protected(i) /\ FixMerged(i)}
    <2>1. orphans \subseteq 1 .. MaxIssues
        BY <1>1 DEF VisitShape
    <2>2. tick' = tick \/ tick' = [tick EXCEPT !.visit = orphans, !.ready = ready]
        BY <1>25 DEF ClassifyOrphans
    <2>3. pc' = "drift"
        BY <1>25 DEF ClassifyOrphans
    <2>4. ready \subseteq 1 .. MaxIssues
        BY <2>1
    <2> HIDE DEF orphans, ready
    <2>5. tick' \in Tick
        BY <2>1, <2>2, <2>4 DEF Tick
    <2> QED
        BY <2>3, <2>5
<1>26. CASE BudgetExhausted
    BY <1>26 DEF BudgetExhausted, Tick
<1>27. CASE CloseOrphan
    BY <1>27 DEF CloseOrphan, Drifting, Visited, Tick
<1>28. CASE CommentBlocked
    <2>1. PICK i : tick' = [tick EXCEPT !.visit = @ \ {i}] /\ pc = "drift" /\ pc' = pc
        BY <1>28 DEF CommentBlocked, Drifting, Visited
    <2>2. tick' \in Tick
        BY <2>1 DEF Tick
    <2> QED
        BY <2>1, <2>2
<1>29. CASE LeaveOrphan
    BY <1>29 DEF LeaveOrphan, Drifting, Visited, Tick
<1>30. CASE DriftDone
    BY <1>30 DEF DriftDone, Tick
<1>31. CASE Finish
    BY <1>31, IdleLemma DEF Finish
<1>32. CASE UNCHANGED vars
    BY <1>32 DEF vars, Tick
<1> QED
    BY <1>3, <1>4, <1>5, <1>6, <1>7, <1>8, <1>9, <1>10, <1>11, <1>12,
       <1>13, <1>14, <1>15, <1>16, <1>17, <1>18, <1>19, <1>20, <1>21, <1>22,
       <1>23, <1>24, <1>25, <1>26, <1>27, <1>28, <1>29, <1>30, <1>31, <1>32
    DEF Next, TickStep, Others

TypeInv == ScanInv /\ Counters /\ HistoryType /\ Bounded /\ TickType

LEMMA TypeInit == ASSUME ScannerConstants, Init PROVE TypeInv
<1>1. ScanInv
    BY ScanInit
<1>2. Counters
    BY DEF Init, Counters, ScannerConstants
<1>3. HistoryType
    BY NoHistoryLemma DEF Init, HistoryType, ScannerConstants
<1>4. Bounded
    BY DEF Init, Bounded, ScannerConstants
<1>5. TickType
    BY IdleLemma DEF Init, TickType
<1> QED
    BY <1>1, <1>2, <1>3, <1>4, <1>5 DEF TypeInv

LEMMA TypeStep == ASSUME ScannerConstants, TypeInv, [Next]_vars PROVE TypeInv'
<1>1. ScanInv'
    BY ScanInvStep DEF TypeInv
<1>2. Counters'
    BY CountersStep DEF TypeInv
<1>3. HistoryType'
    BY HistoryTypeStep DEF TypeInv, TickType, Tick
<1>4. Bounded'
    BY BoundedStep DEF TypeInv, ScanInv
<1>5. TickType'
    BY TickTypeStep DEF TypeInv, ScanInv
<1> QED
    BY <1>1, <1>2, <1>3, <1>4, <1>5 DEF TypeInv

LEMMA TypeInvariant == ASSUME ScannerConstants PROVE Spec => []TypeInv
<1>1. Init => TypeInv
    BY TypeInit
<1>2. TypeInv /\ [Next]_vars => TypeInv'
    BY TypeStep
<1> QED
    BY <1>1, <1>2, PTL DEF Spec

\* The scanner's state stays in its types, and both histories, the reopen
\* counters and the issues within their limits (update_history, the reopen
\* limit); the work lists hold findings although they are sorted, sliced and
\* concatenated.
THEOREM ScannerTypes == ASSUME ScannerConstants PROVE Spec => []TypeOK
<1>1. TypeInv => TypeOK
    BY DEF TypeInv, ScanInv, Counters, HistoryType, IssueShape, Bounded, VisitShape, TickType, TypeOK
<1> QED
    BY <1>1, TypeInvariant, PTL

\* An audit comment is posted a second time only when a call failed
\* (execute_orphan_classifications, reconcile_in_progress).
THEOREM CommentsPostedOnce == ASSUME ScannerConstants PROVE Spec => []CommentsOnce
<1>1. TypeInv => CommentsOnce
    BY DEF TypeInv, Counters, CommentsOnce
<1> QED
    BY <1>1, TypeInvariant, PTL

(***************************************************************************)
(* The work of a tick.                                                     *)
(***************************************************************************)
ListedKeys == {e.key : e \in tick.listed}
Working == pc \in {"process", "fallback"}
Decided == pc \in {"list", "close", "drift", "finish"}

\* Before the issues are listed, the regressions are peeled and nothing is chosen.
InFetch ==
    pc = "fetch" => /\ tick.peeled = Peeled(hist, tick.found)
                    /\ tick.todo = <<>> /\ ~tick.ghFailed

\* Afterwards every finding is to be worked on, or has a recent issue, or is one
\* that only the daily audit reports.
Compared ==
    (Working \/ Decided) /\ ~tick.ghFailed =>
        \A k \in tick.found :
            \/ Category[k] = DailyAudit
            \/ k \in Elements(tick.peeled) \cup Elements(tick.deduped)
            \/ k \in ListedKeys \cup tick.closed

\* What left the work list has an outcome.
Handled ==
    (Working \/ Decided) /\ ~tick.ghFailed =>
        Elements(WorkList(tick.peeled, tick.deduped)) \subseteq
            Elements(tick.todo) \cup tick.issued \cup tick.limited \cup tick.hurt \cup ListedKeys

\* A tick goes on only when its list is empty, and a tick that could not compare
\* its findings with the issues only when it has none.
Over == Decided => tick.todo = <<>> /\ (tick.ghFailed => tick.found = {})

WorkInv == InFetch /\ Compared /\ Handled /\ Over

\* A step that leaves the findings, the list and what became of it.
SameWork ==
    /\ tick'.found = tick.found /\ tick'.peeled = tick.peeled /\ tick'.deduped = tick.deduped
    /\ tick'.listed = tick.listed /\ tick'.closed = tick.closed /\ tick'.todo = tick.todo
    /\ tick'.issued = tick.issued /\ tick'.limited = tick.limited /\ tick'.hurt = tick.hurt
    /\ tick'.ghFailed = tick.ghFailed
    /\ hist' = hist
    /\ \/ pc' = pc
       \/ pc = "process" /\ pc' = "fallback"
       \/ Decided /\ Decided'

\* A step that settles the first finding of the list.
Settles ==
    /\ Working /\ tick.todo # <<>>
    /\ pc' = "process" /\ tick'.todo = Tail(tick.todo)
    /\ tick'.found = tick.found /\ tick'.peeled = tick.peeled /\ tick'.deduped = tick.deduped
    /\ tick'.listed = tick.listed /\ tick'.closed = tick.closed
    /\ tick'.ghFailed = tick.ghFailed
    /\ tick.issued \cup tick.limited \cup tick.hurt
          \subseteq tick'.issued \cup tick'.limited \cup tick'.hurt
    /\ Current \in tick'.issued \cup tick'.limited \cup tick'.hurt \cup ListedKeys
    /\ ResolvedKeys(hist') = ResolvedKeys(hist)

Kinds ==
    \/ SameWork \/ Settles \/ pc' = "idle"
    \/ \E F \in SUBSET Categories : Observe(F)
    \/ GetOpenIssues \/ GetOpenIssuesFails
    \/ Record

LEMMA KindsLemma == ASSUME ScannerConstants, TypeInv, [Next]_vars PROVE Kinds
<1> USE DEF TypeInv, TickType, ScanInv, TickShape, Fields
<1>1. ASSUME NEW P \in SUBSET Keys, Commit(P) PROVE Kinds
    BY <1>1 DEF Commit, SameWork, Kinds
<1>2. ASSUME NEW i \in Ids, UserCloses(i) PROVE Kinds
    BY <1>2 DEF UserCloses, Touched, SameWork, Kinds
<1>3. ASSUME NEW i \in Ids, UserReopens(i) PROVE Kinds
    BY <1>3 DEF UserReopens, Touched, SameWork, Kinds
<1>4. ASSUME NEW i \in Ids, LinearReopens(i) PROVE Kinds
    BY <1>4 DEF LinearReopens, Touched, SameWork, Kinds
<1>5. ASSUME NEW i \in Ids, FixMerges(i) PROVE Kinds
    BY <1>5 DEF FixMerges, SameWork, Kinds
<1>6. ASSUME NEW i \in Ids, LeavesWindow(i) PROVE Kinds
    BY <1>6 DEF LeavesWindow, SameWork, Kinds
<1>7. ASSUME NEW i \in Ids, NEW age \in {"72h", "7d"}, GrowsOld(i, age) PROVE Kinds
    BY <1>7 DEF GrowsOld, SameWork, Kinds
<1>8. CASE LoseHistory
    BY <1>8 DEF LoseHistory, Kinds
<1>9. CASE Killed
    BY <1>9 DEF Killed, Kinds
<1>10. ASSUME NEW F \in SUBSET Categories, Observe(F) PROVE Kinds
    BY <1>10 DEF Kinds
<1>11. CASE GetOpenIssues
    BY <1>11 DEF Kinds
<1>12. CASE GetOpenIssuesFails
    BY <1>12 DEF Kinds
<1>13. ASSUME NEW i \in Ids, ReopenClosedIssue(i) PROVE Kinds
    <2>1. ResolvedKeys(hist') = ResolvedKeys(hist)
        <3>1. CASE UNCHANGED hist
            BY <3>1
        <3>2. CASE hist' = [hist EXCEPT !.resolved[EntryOf(hist, Current)].reopens = @ + 1]
            <4> DEFINE c == Current
            <4>1. /\ hist \in History /\ c \in ResolvedKeys(hist) /\ ~ReopenLimitReached(hist, c)
                  /\ hist' = [hist EXCEPT !.resolved[EntryOf(hist, c)].reopens = @ + 1]
                BY <1>13, <3>2 DEF ReopenClosedIssue, Regression, HistoryType
            <4> HIDE DEF c
            <4> QED
                BY <4>1, CountLemma
        <3> QED
            BY <1>13, <3>1, <3>2 DEF ReopenClosedIssue
    <2> QED
        BY <1>13, <2>1 DEF ReopenClosedIssue, InProcess, ToNext, Working, Settles, Kinds
<1>14. CASE ReopenFails
    BY <1>14 DEF ReopenFails, InProcess, SameWork, Kinds
<1>15. CASE SuppressChurn
    BY <1>15 DEF SuppressChurn, InProcess, ToNext, Working, Settles, Kinds
<1>16. CASE SkipDuplicate
    BY <1>16 DEF SkipDuplicate, ToNext, Working, ListedKeys, Settles, Kinds
<1>17. ASSUME NEW k \in Keys, CreateIssue(k) PROVE Kinds
    BY <1>17 DEF CreateIssue, MayCreate, InProcess, ToNext, Working, Settles, Kinds
<1>18. ASSUME NEW k \in Keys, CreateIssueFails(k) PROVE Kinds
    BY <1>18 DEF CreateIssueFails, MayCreate, InProcess, ToNext, Working, Settles, Kinds
<1>19. CASE Record
    BY <1>19 DEF Kinds
<1>20. CASE ListOrphans
    BY <1>20 DEF ListOrphans, SameWork, Kinds, Decided
<1>21. CASE CloseResolved
    BY <1>21 DEF CloseResolved, Visited, SameWork, Kinds
<1>22. CASE KeepOpen
    BY <1>22 DEF KeepOpen, Visited, SameWork, Kinds
<1>23. ASSUME NEW F \in SUBSET Ids, ClassifyOrphans(F) PROVE Kinds
    BY <1>23 DEF ClassifyOrphans, SameWork, Kinds, Decided
<1>24. CASE BudgetExhausted
    BY <1>24 DEF BudgetExhausted, SameWork, Kinds, Decided
<1>25. CASE CloseOrphan
    BY <1>25 DEF CloseOrphan, Drifting, Visited, SameWork, Kinds
<1>26. CASE CommentBlocked
    BY <1>26 DEF CommentBlocked, Drifting, Visited, SameWork, Kinds
<1>27. CASE LeaveOrphan
    BY <1>27 DEF LeaveOrphan, Drifting, Visited, SameWork, Kinds
<1>28. CASE DriftDone
    BY <1>28 DEF DriftDone, SameWork, Kinds, Decided
<1>29. CASE Finish
    BY <1>29 DEF Finish, Kinds
<1>30. CASE UNCHANGED vars
    BY <1>30 DEF vars, SameWork, Kinds
<1> QED
    BY <1>1, <1>2, <1>3, <1>4, <1>5, <1>6, <1>7, <1>8, <1>9, <1>10,
       <1>11, <1>12, <1>13, <1>14, <1>15, <1>16, <1>17, <1>18, <1>19, <1>20,
       <1>21, <1>22, <1>23, <1>24, <1>25, <1>26, <1>27, <1>28, <1>29, <1>30
    DEF Next, TickStep, Others

\* What the listing of the issues decides.
LEMMA ListedLemma ==
    ASSUME ScannerConstants, TypeInv, InFetch, GetOpenIssues
    PROVE  /\ tick' \in Tick /\ pc' = "process" /\ hist' = hist
           /\ tick'.found = tick.found /\ tick'.peeled = tick.peeled
           /\ tick'.deduped = Deduplicate(hist, tick.found, ListedKeys' \cup tick'.closed)
           /\ tick'.todo = WorkList(tick'.peeled, tick'.deduped)
           /\ Elements(tick'.peeled) = tick.found \cap ToPeel(hist)
           /\ Elements(tick'.deduped) = (tick.found \ (ListedKeys' \cup tick'.closed)) \ ToPeel(hist)
           /\ ListedKeys' = {issues[i].key : i \in OpenIds}
           /\ tick'.ghFailed = tick.ghFailed
<1> DEFINE listed == {[id |-> i, key |-> issues[i].key] : i \in OpenIds}
           closed == {issues[i].key : i \in {j \in Ids \ OpenIds : issues[j].recent}}
           keys == {e.key : e \in listed}
           deduped == Deduplicate(hist, tick.found, keys \cup closed)
           todo == WorkList(tick.peeled, deduped)
<1>1. /\ tick' = [tick EXCEPT !.listed = listed, !.closed = closed, !.deduped = deduped,
                              !.touched = {}, !.todo = todo]
      /\ pc' = "process" /\ hist' = hist /\ pc = "fetch"
    BY DEF GetOpenIssues
<1>2. keys = {issues[i].key : i \in OpenIds}
    <2>1. keys \subseteq {issues[i].key : i \in OpenIds}
        OBVIOUS
    <2>2. ASSUME NEW i \in OpenIds PROVE issues[i].key \in keys
        <3>1. [id |-> i, key |-> issues[i].key] \in listed
            OBVIOUS
        <3> HIDE DEF listed
        <3> QED
            BY <3>1
    <2> QED
        BY <2>1, <2>2
<1>3. tick' \in Tick
    <2>1. TickType'
        BY TickTypeStep DEF TypeInv, ScanInv, Next, TickStep
    <2> QED
        BY <2>1 DEF TickType
<1> HIDE DEF listed, closed, deduped, todo
<1>4. /\ tick'.listed = listed /\ tick'.closed = closed /\ tick'.deduped = deduped
      /\ tick'.todo = todo /\ tick'.found = tick.found /\ tick'.peeled = tick.peeled
      /\ tick'.ghFailed = tick.ghFailed
    BY <1>1 DEF TypeInv, TickType, Tick
<1>5. ListedKeys' = keys
    BY <1>4 DEF ListedKeys
<1>6. tick.found \in SUBSET Keys
    BY DEF TypeInv, TickType, Tick
<1>7. Elements(tick.peeled) = tick.found \cap ToPeel(hist)
    BY <1>1, <1>6, PeeledLemma DEF InFetch
<1>8. Elements(deduped) = (tick.found \ (keys \cup closed)) \ ToPeel(hist)
    <2> HIDE DEF keys
    <2> QED
        BY <1>6, DeduplicateLemma DEF deduped
<1> HIDE DEF keys
<1> QED
    BY <1>1, <1>2, <1>3, <1>4, <1>5, <1>7, <1>8 DEF deduped, todo

LEMMA WorkStep == ASSUME ScannerConstants, TypeInv, WorkInv, [Next]_vars PROVE WorkInv'
<1> USE DEF Working, Decided
<1>1. TypeInv'
    BY TypeStep
<1>2. CASE SameWork
    <2>1. ListedKeys' = ListedKeys
        BY <1>2 DEF SameWork, ListedKeys
    <2>2. InFetch'
        BY <1>2 DEF SameWork, WorkInv, InFetch
    <2>3. Compared'
        BY <1>2, <2>1 DEF SameWork, WorkInv, Compared
    <2>4. Handled'
        BY <1>2, <2>1 DEF SameWork, WorkInv, Handled
    <2>5. Over'
        BY <1>2 DEF SameWork, WorkInv, Over
    <2> QED
        BY <2>2, <2>3, <2>4, <2>5 DEF WorkInv
<1>3. CASE Settles
    <2>1. ListedKeys' = ListedKeys
        BY <1>3 DEF Settles, ListedKeys
    <2>2. Elements(tick.todo) = {Current} \cup Elements(tick'.todo)
        BY <1>3, HeadTailLemma DEF Settles, TypeInv, TickType, Tick, Current
    <2>3. InFetch' /\ Over'
        BY <1>3 DEF Settles, InFetch, Over
    <2>4. Compared'
        BY <1>3, <2>1 DEF Settles, WorkInv, Compared
    <2>5. Handled'
        BY <1>3, <2>1, <2>2 DEF Settles, WorkInv, Handled
    <2> QED
        BY <2>3, <2>4, <2>5 DEF WorkInv
<1>4. CASE pc' = "idle"
    BY <1>4 DEF WorkInv, InFetch, Compared, Handled, Over
<1>5. ASSUME NEW F \in SUBSET Categories, Observe(F) PROVE WorkInv'
    <2>1. /\ pc' = "fetch" /\ hist' = cache
          /\ tick'.found = Reported(F) /\ tick'.peeled = Peeled(cache, Reported(F))
          /\ tick'.todo = <<>> /\ tick'.ghFailed = FALSE
        BY <1>5 DEF Observe, Idle
    <2> QED
        BY <2>1 DEF WorkInv, InFetch, Compared, Handled, Over
<1>6. CASE GetOpenIssues
    <2>1. /\ pc' = "process" /\ tick'.found = tick.found
          /\ tick'.todo = WorkList(tick'.peeled, tick'.deduped)
          /\ Elements(tick'.peeled) = tick.found \cap ToPeel(hist)
          /\ Elements(tick'.deduped) = (tick.found \ (ListedKeys' \cup tick'.closed)) \ ToPeel(hist)
        BY <1>6, ListedLemma DEF WorkInv
    <2>2. InFetch' /\ Over'
        BY <2>1 DEF InFetch, Over
    <2>3. Compared'
        BY <2>1 DEF Compared
    <2>4. Handled'
        BY <2>1 DEF Handled
    <2> QED
        BY <2>2, <2>3, <2>4 DEF WorkInv
<1>7. CASE GetOpenIssuesFails
    <2>1. pc' = "process" /\ tick'.ghFailed
        BY <1>7 DEF GetOpenIssuesFails, TypeInv, TickType, Tick
    <2> QED
        BY <2>1 DEF WorkInv, InFetch, Compared, Handled, Over
<1>8. CASE Record
    <2>1. CASE EndsRed
        BY <1>4, <1>8, <2>1 DEF Record
    <2>2. CASE ~EndsRed
        <3>1. pc = "process" /\ tick.todo = <<>> /\ pc' = "list" /\ tick' = tick
            BY <1>8, <2>2 DEF Record
        <3>2. tick.ghFailed => tick.found = {}
            BY <2>2 DEF EndsRed
        <3>3. ListedKeys' = ListedKeys
            BY <3>1 DEF ListedKeys
        <3>4. InFetch' /\ Over'
            BY <3>1, <3>2 DEF InFetch, Over
        <3>5. Compared'
            BY <3>1, <3>3 DEF WorkInv, Compared
        <3>6. Handled'
            BY <3>1, <3>3 DEF WorkInv, Handled
        <3> QED
            BY <3>4, <3>5, <3>6 DEF WorkInv
    <2> QED
        BY <2>1, <2>2
<1> QED
    BY <1>2, <1>3, <1>4, <1>5, <1>6, <1>7, <1>8, KindsLemma DEF Kinds

LEMMA WorkInvariant == ASSUME ScannerConstants PROVE Spec => []WorkInv
<1>1. Init => WorkInv
    BY DEF Init, WorkInv, InFetch, Compared, Handled, Over, Working, Decided
<1>2. TypeInv /\ WorkInv /\ [Next]_vars => WorkInv'
    BY WorkStep
<1> QED
    BY <1>1, <1>2, TypeInvariant, PTL DEF Spec

\* forward_drift_watch reports only findings whose issue could not be created:
\* each of the others is listed, recently closed, deferred by a quota, at its
\* reopen limit, or got its issue.
THEOREM GhostsNeedFailure == ASSUME ScannerConstants PROVE Spec => []GhostNeedsFailure
<1>1. TypeInv /\ WorkInv => GhostNeedsFailure
    <2> SUFFICES ASSUME TypeInv, WorkInv, pc = "finish", NEW k \in Ghosts(tick)
                 PROVE  k \in tick.hurt
        BY DEF GhostNeedsFailure
    <2>1. /\ k \in tick.found /\ Category[k] # DailyAudit
          /\ k \notin ListedKeys /\ k \notin tick.issued
          /\ k \notin tick.limited /\ k \notin tick.closed
          /\ tick.ghFailed \/ k \notin QuotaDeferredKeys(tick.peeled, tick.deduped)
        BY DEF Ghosts, ListedKeys
    <2>2. tick.todo = <<>> /\ ~tick.ghFailed
        BY <2>1 DEF WorkInv, Over, Decided
    <2>3. k \in Elements(tick.peeled) \cup Elements(tick.deduped)
        BY <2>1, <2>2 DEF WorkInv, Compared, Decided
    <2>4. k \in Elements(WorkList(tick.peeled, tick.deduped))
        BY <2>1, <2>2, <2>3, WorkListLemma DEF TypeInv, TickType, Tick
    <2>5. Elements(tick.todo) = {}
        BY <2>2 DEF Elements
    <2> QED
        BY <2>1, <2>2, <2>4, <2>5 DEF WorkInv, Handled, Decided
<1> QED
    BY <1>1, TypeInvariant, WorkInvariant, PTL

(***************************************************************************)
(* Issues are created for findings that have none.                         *)
(***************************************************************************)
NoOpen(k) == \A i \in Ids : issues[i].key = k => ~issues[i].open

\* What is left of the work list: each finding once, and one that has an open
\* issue is a regression that was listed, or was touched since.
Untracked ==
    Working =>
        /\ Distinct(tick.todo)
        /\ \A k \in Elements(tick.todo) :
              /\ k \in ResolvedKeys(hist) \/ k \notin ListedKeys
              /\ k \in ListedKeys \cup tick.touched \/ NoOpen(k)

Grows == \E k \in Keys : CreateIssue(k) \/ CreateIssueFails(k)

\* Only the creation of an issue adds one.
LEMMA GrowthLemma == ASSUME IssueShape, VisitShape, [Next]_vars, ~Grows PROVE Ids' = Ids
<1> USE DEF Ids, IssueShape, VisitShape, Grows
<1>1. ASSUME NEW P \in SUBSET Keys, Commit(P) PROVE Ids' = Ids
    BY <1>1 DEF Commit, github
<1>2. ASSUME NEW i \in Ids, UserCloses(i) PROVE Ids' = Ids
    BY <1>2 DEF UserCloses, github
<1>3. ASSUME NEW i \in Ids, UserReopens(i) PROVE Ids' = Ids
    BY <1>3 DEF UserReopens, github
<1>4. ASSUME NEW i \in Ids, LinearReopens(i) PROVE Ids' = Ids
    BY <1>4 DEF LinearReopens, github
<1>5. ASSUME NEW i \in Ids, FixMerges(i) PROVE Ids' = Ids
    BY <1>5 DEF FixMerges, github
<1>6. ASSUME NEW i \in Ids, LeavesWindow(i) PROVE Ids' = Ids
    BY <1>6 DEF LeavesWindow, github
<1>7. ASSUME NEW i \in Ids, NEW age \in {"72h", "7d"}, GrowsOld(i, age) PROVE Ids' = Ids
    BY <1>7 DEF GrowsOld, github
<1>8. CASE LoseHistory
    BY <1>8 DEF LoseHistory, github
<1>9. CASE Killed
    BY <1>9 DEF Killed, github
<1>10. ASSUME NEW F \in SUBSET Categories, Observe(F) PROVE Ids' = Ids
    BY <1>10 DEF Observe, github
<1>11. CASE GetOpenIssues
    BY <1>11 DEF GetOpenIssues, github
<1>12. CASE GetOpenIssuesFails
    BY <1>12 DEF GetOpenIssuesFails, github
<1>13. ASSUME NEW i \in Ids, ReopenClosedIssue(i) PROVE Ids' = Ids
    BY <1>13 DEF ReopenClosedIssue, github
<1>14. CASE ReopenFails
    BY <1>14 DEF ReopenFails
<1>15. CASE SuppressChurn
    BY <1>15 DEF SuppressChurn, github
<1>16. CASE SkipDuplicate
    BY <1>16 DEF SkipDuplicate, github
<1>17. ASSUME NEW k \in Keys, CreateIssue(k) PROVE Ids' = Ids
    BY <1>17 DEF Grows
<1>18. ASSUME NEW k \in Keys, CreateIssueFails(k) PROVE Ids' = Ids
    BY <1>18 DEF Grows
<1>19. CASE Record
    BY <1>19 DEF Record, Mark
<1>20. CASE ListOrphans
    BY <1>20 DEF ListOrphans, github
<1>21. CASE CloseResolved
    BY <1>21 DEF CloseResolved, Closed
<1>22. CASE KeepOpen
    BY <1>22 DEF KeepOpen, github
<1>23. ASSUME NEW F \in SUBSET Ids, ClassifyOrphans(F) PROVE Ids' = Ids
    BY <1>23 DEF ClassifyOrphans, github
<1>24. CASE BudgetExhausted
    BY <1>24 DEF BudgetExhausted, github
<1>25. CASE CloseOrphan
    BY <1>25 DEF CloseOrphan, Closed
<1>26. CASE CommentBlocked
    BY <1>26 DEF CommentBlocked, Mark
<1>27. CASE LeaveOrphan
    BY <1>27 DEF LeaveOrphan, github
<1>28. CASE DriftDone
    BY <1>28 DEF DriftDone, github
<1>29. CASE Finish
    BY <1>29 DEF Finish, Mark
<1>30. CASE UNCHANGED vars
    BY <1>30 DEF vars, github
<1> QED
    BY <1>1, <1>2, <1>3, <1>4, <1>5, <1>6, <1>7, <1>8, <1>9, <1>10,
       <1>11, <1>12, <1>13, <1>14, <1>15, <1>16, <1>17, <1>18, <1>19, <1>20,
       <1>21, <1>22, <1>23, <1>24, <1>25, <1>26, <1>27, <1>28, <1>29, <1>30
    DEF Next, TickStep, Others

\* A step opens no issue but those of the keys in C.
OpensOnly(C) ==
    \A i \in Ids' : issues'[i].open =>
        \/ i \in Ids /\ issues[i].open /\ issues'[i].key = issues[i].key
        \/ issues'[i].key \in C

LEMMA OpensLemma ==
    ASSUME NEW k, NEW C, NoOpen(k), OpensOnly(C), k \notin C PROVE NoOpen(k)'
BY DEF NoOpen, OpensOnly

LEMMA SameOpensLemma == ASSUME UNCHANGED issues, NEW C PROVE OpensOnly(C)
BY DEF OpensOnly, Ids

LEMMA FlagOpensLemma ==
    ASSUME IssueShape, NEW i \in Ids, NEW o \in BOOLEAN, NEW r \in BOOLEAN,
           issues' = [issues EXCEPT ![i].open = o, ![i].recent = r],
           NEW C, issues[i].key \in C
    PROVE  OpensOnly(C)
<1>1. Ids' = Ids /\ \A j \in Ids : j # i => issues'[j] = issues[j]
    BY DEF Ids, IssueShape
<1>2. issues'[i].key = issues[i].key
    <2>1. issues[i] \in Issue
        BY DEF IssueShape, Ids
    <2> DEFINE new == [issues[i] EXCEPT !.open = o, !.recent = r]
    <2>2. new.key = issues[i].key
        BY <2>1 DEF Issue
    <2>3. issues' = [issues EXCEPT ![i] = new]
        OBVIOUS
    <2> HIDE DEF new
    <2>4. issues'[i] = new
        BY <2>3 DEF Ids
    <2> QED
        BY <2>2, <2>4
<1> QED
    BY <1>1, <1>2 DEF OpensOnly

LEMMA MergedOpensLemma ==
    ASSUME IssueShape, NEW i \in Ids, NEW e, issues' = [issues EXCEPT ![i].evidence = e], NEW C
    PROVE  OpensOnly(C)
<1>1. Ids' = Ids /\ \A j \in Ids : j # i => issues'[j] = issues[j]
    BY DEF Ids, IssueShape
<1>2. issues'[i].key = issues[i].key /\ issues'[i].open = issues[i].open
    <2>1. issues[i] \in Issue
        BY DEF IssueShape, Ids
    <2>2. issues'[i] = [issues[i] EXCEPT !.evidence = e]
        BY DEF Ids
    <2> QED
        BY <2>1, <2>2 DEF Issue
<1> QED
    BY <1>1, <1>2 DEF OpensOnly

LEMMA NewOpensLemma ==
    ASSUME IssueShape, NEW k, NEW e, issues' = Append(issues, NewIssue(k, e)), NEW C, k \in C
    PROVE  OpensOnly(C)
<1>1. \A i \in Ids' : (i \in Ids /\ issues'[i] = issues[i]) \/ issues'[i] = NewIssue(k, e)
    BY DEF Ids, IssueShape
<1>2. NewIssue(k, e).key = k
    BY DEF NewIssue
<1> QED
    BY <1>1, <1>2 DEF OpensOnly

\* While a tick works, an issue that someone else opens is touched, and the tick
\* itself opens issues of the finding it is at.
Opening ==
    /\ tick.touched \subseteq tick'.touched
    /\ \/ OpensOnly(tick'.touched)
       \/ OpensOnly({Current}) /\ tick'.todo = Tail(tick.todo)

LEMMA WorkOpensLemma ==
    ASSUME TypeInv, Working, Working', [Next]_vars PROVE Opening
<1>1. IssueShape
    BY DEF TypeInv, ScanInv
<1> USE DEF Working, TypeInv, TickType, ScanInv, TickShape, Fields, Opening
<1>2. ASSUME NEW P \in SUBSET Keys, Commit(P) PROVE Opening
    BY <1>2 DEF Commit
<1>3. ASSUME NEW i \in Ids, UserCloses(i) PROVE Opening
    <2>1. tick.touched \subseteq tick'.touched /\ issues[i].key \in tick'.touched
        BY <1>3 DEF UserCloses, Touched
    <2>2. OpensOnly(tick'.touched)
        BY <1>3, <1>1, <2>1, FlagOpensLemma DEF UserCloses
    <2> QED
        BY <2>1, <2>2
<1>4. ASSUME NEW i \in Ids, UserReopens(i) PROVE Opening
    <2>1. tick.touched \subseteq tick'.touched /\ issues[i].key \in tick'.touched
        BY <1>4 DEF UserReopens, Touched
    <2>2. OpensOnly(tick'.touched)
        BY <1>4, <1>1, <2>1, FlagOpensLemma DEF UserReopens
    <2> QED
        BY <2>1, <2>2
<1>5. ASSUME NEW i \in Ids, LinearReopens(i) PROVE Opening
    <2>1. tick.touched \subseteq tick'.touched /\ issues[i].key \in tick'.touched
        BY <1>5 DEF LinearReopens, Touched
    <2>2. OpensOnly(tick'.touched)
        BY <1>5, <1>1, <2>1, FlagOpensLemma DEF LinearReopens
    <2> QED
        BY <2>1, <2>2
<1>6. ASSUME NEW i \in Ids, FixMerges(i) PROVE Opening
    BY <1>6, <1>1, MergedOpensLemma DEF FixMerges
<1>7. ASSUME NEW i \in Ids, LeavesWindow(i) PROVE Opening
    BY <1>7 DEF LeavesWindow
<1>8. ASSUME NEW i \in Ids, NEW age \in {"72h", "7d"}, GrowsOld(i, age) PROVE Opening
    BY <1>8 DEF GrowsOld
<1>9. CASE LoseHistory
    BY <1>9 DEF LoseHistory
<1>10. CASE Killed
    BY <1>10 DEF Killed
<1>11. ASSUME NEW F \in SUBSET Categories, Observe(F) PROVE Opening
    BY <1>11 DEF Observe
<1>12. CASE GetOpenIssues
    BY <1>12 DEF GetOpenIssues
<1>13. CASE GetOpenIssuesFails
    BY <1>13 DEF GetOpenIssuesFails
<1>14. ASSUME NEW i \in Ids, ReopenClosedIssue(i) PROVE Opening
    <2>1. tick'.todo = Tail(tick.todo) /\ tick'.touched = tick.touched
        BY <1>14 DEF ReopenClosedIssue, InProcess, ToNext
    <2>2. issues[i].key \in {Current}
        BY <1>14 DEF ReopenClosedIssue, IdsOf
    <2>3. OpensOnly({Current})
        BY <1>14, <1>1, <2>2, FlagOpensLemma DEF ReopenClosedIssue
    <2> QED
        BY <2>1, <2>3
<1>15. CASE ReopenFails
    <2>1. CASE UNCHANGED <<issues, tick>>
        BY <2>1, SameOpensLemma
    <2>2. ASSUME NEW i \in IdsOf(Current) \ OpenIds,
                 issues' = [issues EXCEPT ![i].open = TRUE, ![i].recent = FALSE],
                 tick' = [tick EXCEPT !.touched = @ \cup {Current}]
          PROVE  Opening
        <3>1. tick.touched \subseteq tick'.touched /\ Current \in tick'.touched
            BY <2>2
        <3>2. i \in Ids /\ issues[i].key \in tick'.touched
            BY <3>1 DEF IdsOf
        <3>3. OpensOnly(tick'.touched)
            BY <1>1, <2>2, <3>2, FlagOpensLemma
        <3> QED
            BY <3>1, <3>3
    <2> QED
        BY <1>15, <2>1, <2>2 DEF ReopenFails
<1>16. CASE SuppressChurn
    BY <1>16, SameOpensLemma DEF SuppressChurn, ToNext, github
<1>17. CASE SkipDuplicate
    BY <1>17, SameOpensLemma DEF SkipDuplicate, ToNext, github
<1>18. ASSUME NEW k \in Keys, CreateIssue(k) PROVE Opening
    <2>1. tick'.todo = Tail(tick.todo) /\ tick'.touched = tick.touched /\ k \in {Current}
        BY <1>18 DEF CreateIssue, MayCreate, ToNext
    <2>2. PICK e : issues' = Append(issues, NewIssue(k, e))
        BY <1>18 DEF CreateIssue
    <2>3. OpensOnly({Current})
        BY <1>1, <2>1, <2>2, NewOpensLemma
    <2> QED
        BY <2>1, <2>3
<1>19. ASSUME NEW k \in Keys, CreateIssueFails(k) PROVE Opening
    <2>1. tick'.todo = Tail(tick.todo) /\ tick'.touched = tick.touched /\ k \in {Current}
        BY <1>19 DEF CreateIssueFails, MayCreate, ToNext
    <2>2. CASE UNCHANGED issues
        BY <2>1, <2>2, SameOpensLemma
    <2>3. ASSUME NEW e, issues' = Append(issues, NewIssue(k, e)) PROVE Opening
        <3>1. OpensOnly({Current})
            BY <1>1, <2>1, <2>3, NewOpensLemma
        <3> QED
            BY <2>1, <3>1
    <2> QED
        BY <1>19, <2>2, <2>3 DEF CreateIssueFails
<1>20. CASE Record
    BY <1>20 DEF Record, NoHistory
<1>21. CASE ListOrphans
    BY <1>21 DEF ListOrphans
<1>22. CASE CloseResolved
    BY <1>22 DEF CloseResolved
<1>23. CASE KeepOpen
    BY <1>23 DEF KeepOpen
<1>24. ASSUME NEW F \in SUBSET Ids, ClassifyOrphans(F) PROVE Opening
    BY <1>24 DEF ClassifyOrphans
<1>25. CASE BudgetExhausted
    BY <1>25 DEF BudgetExhausted
<1>26. CASE CloseOrphan
    BY <1>26 DEF CloseOrphan, Drifting
<1>27. CASE CommentBlocked
    BY <1>27 DEF CommentBlocked, Drifting
<1>28. CASE LeaveOrphan
    BY <1>28 DEF LeaveOrphan, Drifting
<1>29. CASE DriftDone
    BY <1>29 DEF DriftDone
<1>30. CASE Finish
    BY <1>30 DEF Finish
<1>31. CASE UNCHANGED vars
    BY <1>31, SameOpensLemma DEF vars
<1> QED
    BY <1>2, <1>3, <1>4, <1>5, <1>6, <1>7, <1>8, <1>9, <1>10, <1>11,
       <1>12, <1>13, <1>14, <1>15, <1>16, <1>17, <1>18, <1>19, <1>20, <1>21,
       <1>22, <1>23, <1>24, <1>25, <1>26, <1>27, <1>28, <1>29, <1>30, <1>31
    DEF Next, TickStep, Others

LEMMA UntrackedStep ==
    ASSUME ScannerConstants, OneFindingPerKey, TypeInv, WorkInv, Untracked, [Next]_vars
    PROVE  Untracked'
<1>1. tick.todo \in Seq(Keys)
    BY DEF TypeInv, TickType, Tick
<1>2. CASE SameWork /\ Working'
    <2>1. Working /\ ListedKeys' = ListedKeys /\ hist' = hist /\ tick'.todo = tick.todo
        BY <1>2 DEF SameWork, Working, Decided, ListedKeys
    <2>2. Opening
        BY <1>2, <2>1, WorkOpensLemma
    <2>3. tick.todo # <<>> => tick'.todo # Tail(tick.todo)
        <3> DEFINE t == tick.todo
        <3>1. t \in Seq(Keys) /\ tick'.todo = t
            BY <1>1, <2>1
        <3> HIDE DEF t
        <3>2. t # <<>> => Len(Tail(t)) = Len(t) - 1 /\ Len(t) \in Nat
            BY <3>1
        <3>3. t # <<>> => t # Tail(t)
            BY <3>2
        <3> QED
            BY <3>1, <3>3 DEF t
    <2>4. ASSUME NEW k \in Elements(tick.todo)
          PROVE  k \in ListedKeys \cup tick'.touched \/ NoOpen(k)'
        <3>1. tick.todo # <<>>
            BY <2>4 DEF Elements
        <3>2. OpensOnly(tick'.touched) /\ tick.touched \subseteq tick'.touched
            BY <2>2, <2>3, <3>1 DEF Opening
        <3> QED
            BY <2>1, <2>4, <3>2, OpensLemma DEF Untracked
    <2> QED
        BY <2>1, <2>4 DEF Untracked
<1>3. CASE Settles /\ Working'
    <2>1. /\ Working /\ tick.todo # <<>> /\ ListedKeys' = ListedKeys
          /\ ResolvedKeys(hist') = ResolvedKeys(hist) /\ tick'.todo = Tail(tick.todo)
        BY <1>3 DEF Settles, ListedKeys
    <2>2. Opening
        BY <1>3, <2>1, WorkOpensLemma
    <2>3. /\ Elements(tick.todo) = {Current} \cup Elements(tick'.todo)
          /\ Distinct(tick'.todo) /\ Current \notin Elements(tick'.todo)
        BY <1>1, <2>1, HeadTailLemma DEF Untracked, Current
    <2>4. ASSUME NEW k \in Elements(tick'.todo)
          PROVE  k \in ListedKeys \cup tick'.touched \/ NoOpen(k)'
        <3>1. k \in ListedKeys \cup tick.touched \/ NoOpen(k)
            BY <2>1, <2>3, <2>4 DEF Untracked
        <3>2. CASE OpensOnly(tick'.touched)
            BY <2>2, <3>1, <3>2, OpensLemma DEF Opening
        <3>3. CASE OpensOnly({Current})
            <4>1. k \notin {Current}
                BY <2>3, <2>4
            <4> QED
                BY <2>2, <3>1, <3>3, <4>1, OpensLemma DEF Opening
        <3> QED
            BY <2>2, <3>2, <3>3 DEF Opening
    <2> QED
        BY <2>1, <2>3, <2>4 DEF Untracked
<1>4. CASE GetOpenIssues
    <2>1. pc = "fetch" /\ InFetch /\ tick.found \in SUBSET Keys
        BY <1>4 DEF GetOpenIssues, WorkInv, TypeInv, TickType, Tick
    <2> DEFINE peeled == Peeled(hist, tick.found)
               known == ListedKeys' \cup tick'.closed
               deduped == Deduplicate(hist, tick.found, known)
    <2>2. /\ tick'.todo = WorkList(peeled, deduped) /\ hist' = hist
          /\ ListedKeys' = {issues[i].key : i \in OpenIds}
        BY <1>4, <2>1, ListedLemma DEF InFetch
    <2>3. /\ peeled \in Seq(Keys) /\ Distinct(peeled)
          /\ Elements(peeled) = tick.found \cap ToPeel(hist)
        BY <2>1, PeeledLemma DEF OneFindingPerKey
    <2>4. /\ deduped \in Seq(Keys) /\ Distinct(deduped)
          /\ Elements(deduped) = (tick.found \ known) \ ToPeel(hist)
        <3> HIDE DEF known
        <3> QED
            BY <2>1, DeduplicateLemma DEF OneFindingPerKey
    <2>5. ListedKeys' \subseteq known
        OBVIOUS
    <2> HIDE DEF peeled, known, deduped
    <2>6. /\ Distinct(tick'.todo)
          /\ Elements(tick'.todo) \subseteq Elements(peeled) \cup Elements(deduped)
        BY <2>2, <2>3, <2>4, WorkListLemma
    <2>7. ASSUME NEW k \in Elements(tick'.todo)
          PROVE  k \in ResolvedKeys(hist) \/ k \notin ListedKeys'
        BY <2>3, <2>4, <2>5, <2>6 DEF ToPeel
    <2>8. ASSUME NEW k \in Elements(tick'.todo)
          PROVE  k \in ListedKeys' \/ NoOpen(k)'
        <3>1. k \in ListedKeys' \/ NoOpen(k)
            BY <2>2 DEF NoOpen, OpenIds
        <3>2. UNCHANGED issues
            BY <1>4 DEF GetOpenIssues, github
        <3> QED
            BY <3>1, <3>2 DEF NoOpen, Ids
    <2> QED
        BY <2>2, <2>6, <2>7, <2>8 DEF Untracked
<1>5. CASE GetOpenIssuesFails
    <2>1. tick'.todo = <<>>
        BY <1>5 DEF GetOpenIssuesFails, WorkInv, InFetch, TypeInv, TickType, Tick
    <2> QED
        BY <2>1 DEF Untracked, Elements, Distinct
<1>6. CASE ~Working'
    BY <1>6 DEF Untracked
<1>7. ASSUME NEW F \in SUBSET Categories, Observe(F) PROVE ~Working'
    BY <1>7 DEF Observe, Working
<1>8. CASE Record
    <2>1. ~Working'
        BY <1>8 DEF Record, Working
    <2> QED
        BY <1>6, <2>1
<1>9. pc' = "idle" => ~Working'
    BY DEF Working
<1> QED
    BY <1>2, <1>3, <1>4, <1>5, <1>6, <1>7, <1>8, <1>9, KindsLemma DEF Kinds

LEMMA UntrackedInvariant ==
    ASSUME ScannerConstants, OneFindingPerKey PROVE Spec => []Untracked
<1>1. Init => Untracked
    BY DEF Init, Untracked, Working
<1>2. TypeInv /\ WorkInv /\ Untracked /\ [Next]_vars => Untracked'
    BY UntrackedStep
<1> QED
    BY <1>1, <1>2, TypeInvariant, WorkInvariant, PTL DEF Spec

\* The step that adds an issue finds none open for its key.
LEMMA CreatesLemma ==
    ASSUME ScannerConstants, TypeInv, Untracked, [Next]_vars, Len(issues') > Len(issues)
    PROVE  LET k == issues'[Len(issues')].key
           IN  k \in tick.touched \/ IdsOf(k) \cap OpenIds = {}
<1>1. IssueShape /\ IssueShape'
    BY IssueShapeStep DEF TypeInv, ScanInv
<1>2. Grows
    <2> SUFFICES ASSUME ~Grows PROVE FALSE
        OBVIOUS
    <2>1. Ids' = Ids
        BY GrowthLemma DEF TypeInv, ScanInv
    <2>2. Ids = 1 .. Len(issues) /\ Ids' = 1 .. Len(issues')
          /\ Len(issues) \in Nat /\ Len(issues') \in Nat
        BY <1>1 DEF IssueShape, Ids
    <2> QED
        BY <2>1, <2>2
<1>3. PICK k \in Keys : CreateIssue(k) \/ CreateIssueFails(k)
    BY <1>2 DEF Grows
<1>4. MayCreate(k)
    BY <1>3 DEF CreateIssue, CreateIssueFails
<1>5. PICK e : issues' = Append(issues, NewIssue(k, e))
    <2>1. ~(UNCHANGED issues)
        BY <1>1 DEF IssueShape
    <2> QED
        BY <1>3, <2>1 DEF CreateIssue, CreateIssueFails
<1>6. issues'[Len(issues')].key = k
    <2>1. Len(issues') = Len(issues) + 1 /\ issues'[Len(issues) + 1] = NewIssue(k, e)
        BY <1>1, <1>5 DEF IssueShape
    <2> QED
        BY <2>1 DEF NewIssue
<1>7. /\ Working /\ tick.todo # <<>> /\ k = Current
      /\ k \notin ResolvedKeys(hist) \/ k \notin ListedKeys
    BY <1>4 DEF MayCreate, InProcess, Regression, Working, ListedKeys, TypeInv, TickType
<1>8. k \in Elements(tick.todo)
    BY <1>7, HeadTailLemma DEF Current, TypeInv, TickType, Tick
<1>9. k \in tick.touched \/ NoOpen(k)
    BY <1>7, <1>8 DEF Untracked
<1>10. NoOpen(k) => IdsOf(k) \cap OpenIds = {}
    BY DEF NoOpen, IdsOf, OpenIds
<1> QED
    BY <1>6, <1>9, <1>10

\* A tick creates an issue only for a finding without an open one, unless someone
\* opened it, or a call was not answered, since the tick listed them (deduplicate,
\* _peel_critical_regressions, the pools and the fallback of a failed reopen).
THEOREM IssuesAreNew ==
    ASSUME ScannerConstants, OneFindingPerKey PROVE Spec => CreatesOnlyUntracked
<1>1. TypeInv /\ Untracked /\ [Next]_vars =>
          [Len(issues') > Len(issues) =>
              LET k == issues'[Len(issues')].key
              IN  k \in tick.touched \/ IdsOf(k) \cap OpenIds = {}]_vars
    BY CreatesLemma
<1> QED
    BY <1>1, TypeInvariant, UntrackedInvariant, PTL DEF Spec, CreatesOnlyUntracked
=============================================================================
