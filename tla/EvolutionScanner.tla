------------------------- MODULE EvolutionScanner -------------------------
(***************************************************************************)
(* The evolution scanner of src/infra_core/engine: a tick runs the audit   *)
(* tools, turns what they report into findings, keeps one GitHub issue per *)
(* finding (create, reopen, close, comment) and records a history that the *)
(* next tick decides from.                                                 *)
(*                                                                         *)
(* One tick is one job of evolution-scan.yml; jobs are serialised by its   *)
(* concurrency group.  The history file lives in the Actions cache: it is  *)
(* restored when the job starts and saved only when the job succeeds, so   *)
(* a tick that exits with 1 or is killed rolls its history back while the  *)
(* calls it made to GitHub stay.  Users, Linear's GitHub integration,      *)
(* commits and the passing of time act between any two steps of a tick.    *)
(***************************************************************************)
EXTENDS Naturals, Sequences, FiniteSets, Lists

CONSTANTS
    Keys,             \* identities of findings: (rule_id, location)
    Order,            \* a sequence of all keys: the order the tools emit them
    Category,         \* the category a key's tool reports, by key
    Severity,         \* the severity a key's tool reports, by key
    Quota,            \* issues per tick, by pool
    MaxIssues,        \* bound: issues ever created
    SnapshotLimit,    \* snapshot_limit of the configuration
    Grace,            \* GRACE_PERIOD_TICKS
    IsolationThreshold,
    ReopenLimit,      \* reopens of one resolved entry
    MaxMoves,         \* bound: commits, edits of suppress.json, user actions, evictions
    MaxFaults         \* bound: failed tools, failed calls and killed ticks

SelfAudit == "evolution_self_audit"
DailyAudit == "daily_audit"
CodeHygiene == "code_hygiene"
Categories == {Category[k] : k \in Keys}
Pools == {"regular", "self_audit", "code_hygiene"}
Severities == {"critical", "warning", "info"}
Evidence == {"none", "linked", "merged"}

ASSUME ScannerConstants ==
    /\ IsFiniteSet(Keys)
    /\ Order \in Seq(Keys)
    /\ \A k \in Keys : \E n \in DOMAIN Order : Order[n] = k
    /\ Category \in [Keys -> STRING]
    /\ Severity \in [Keys -> Severities]
    /\ Quota \in [Pools -> Nat]
    /\ MaxIssues \in Nat
    /\ SnapshotLimit \in Nat \ {0}
    /\ Grace \in Nat \ {0} /\ Grace <= SnapshotLimit
    /\ IsolationThreshold \in Nat \ {0}
    /\ ReopenLimit \in Nat
    /\ MaxMoves \in Nat
    /\ MaxFaults \in Nat

\* dedup_intra_tick keeps one finding, the most severe, of each key: Order holds
\* what it lets through.
ASSUME OneFindingPerKey == Distinct(Order)

VARIABLES
    present,    \* the keys whose defect is in the repository and that no
                \* unexpired entry of suppress.json matches
    issues,     \* the GitHub issues, by number
    cache,      \* the history in the Actions cache
    hist,       \* findings_over_time.json in the job's workspace
    pc,         \* where the running tick is
    tick,       \* what the running tick holds in memory
    unseen,     \* by key: saved ticks since one that reported it, up to Grace
    spam,       \* audit comments posted twice on one issue
    moves, faults

vars == <<present, issues, cache, hist, pc, tick, unseen, spam,
          moves, faults>>
github == <<issues, spam>>

Issue == [key : Keys, open : BOOLEAN,
          recent : BOOLEAN,              \* closed within DEDUP_CLOSED_WINDOW_DAYS
          evidence : Evidence,           \* no linkback, linked, fix verified
          age : {"fresh", "72h", "7d"},
          marks : SUBSET {"isolated", "blocked", "advised"}]

ResolvedEntry == [key : Keys, reopens : 0 .. ReopenLimit]
History == [snapshots : Seq(SUBSET Keys), resolved : Seq(ResolvedEntry)]
NoHistory == [snapshots |-> <<>>, resolved |-> <<>>]

Idle == [found |-> {}, failed |-> {}, peeled |-> <<>>, deduped |-> <<>>,
         listed |-> {}, closed |-> {}, todo |-> <<>>, issued |-> {},
         limited |-> {}, touched |-> {}, hurt |-> {}, made |-> FALSE, ghFailed |-> FALSE,
         visit |-> {}, ready |-> {}]

Ids == DOMAIN issues
OpenIds == {i \in Ids : issues[i].open}
IdsOf(k) == {i \in Ids : issues[i].key = k}

Init ==
    /\ present \in SUBSET Keys
    /\ issues = <<>>
    /\ cache = NoHistory /\ hist = NoHistory
    /\ pc = "idle" /\ tick = Idle
    /\ unseen = [k \in Keys |-> 0]
    /\ spam = 0 /\ moves = 0 /\ faults = 0

Fault == faults < MaxFaults /\ faults' = faults + 1
NoFault == UNCHANGED faults

(***************************************************************************)
(* What the tick decides, as operators.                                    *)
(***************************************************************************)
ResolvedKeys(h) == {h.resolved[n].key : n \in DOMAIN h.resolved}

\* The first entry of a key: later resolutions append entries behind it.
EntryOf(h, k) ==
    CHOOSE n \in DOMAIN h.resolved :
        /\ h.resolved[n].key = k
        /\ \A m \in DOMAIN h.resolved : h.resolved[m].key = k => n <= m

\* Variant: one reopen too many.
ReopenLimitReachedLate(h, k) ==
    /\ k \in ResolvedKeys(h)
    /\ h.resolved[EntryOf(h, k)].reopens > ReopenLimit

ReopenLimitReached(h, k) ==
    /\ k \in ResolvedKeys(h)
    /\ h.resolved[EntryOf(h, k)].reopens >= ReopenLimit

\* detect_regressions: whatever was resolved before is critical now.
SeverityNow(h, k) == IF k \in ResolvedKeys(h) THEN "critical" ELSE Severity[k]

Peeled(h, found) ==
    Select(Order, {k \in found : /\ SeverityNow(h, k) = "critical"
                                 /\ k \in ResolvedKeys(h)
                                 /\ Category[k] # DailyAudit})

\* sort_by_severity: a stable sort.
SortBySeverity(h, s) ==
    LET Of(severity) == Select(s, {k \in Keys : SeverityNow(h, k) = severity})
    IN  Of("critical") \o Of("warning") \o Of("info")

\* Variant: regressions stay in the list they were peeled from.
DeduplicateUnpeeled(h, found, known) ==
    SortBySeverity(h, Select(Order, found \ known))

\* deduplicate, over the open issues and those closed in the window.
Deduplicate(h, found, known) ==
    SortBySeverity(h, Select(Order, {k \in found \ known :
                                        ~(k \in ResolvedKeys(h) /\ Category[k] # DailyAudit)}))

PoolOf(k) ==
    CASE Category[k] = CodeHygiene -> "code_hygiene"
      [] Category[k] = SelfAudit   -> "self_audit"
      [] Category[k] = DailyAudit  -> "none"
      [] OTHER                     -> "regular"

Pool(s, p) == Select(s, {k \in Keys : PoolOf(k) = p})

\* Variant: the self-audit's pool is forgotten.
WorkListWithoutSelfAudit(peeled, deduped) ==
    Take(peeled, Quota["regular"])
      \o Take(Pool(deduped, "regular"), Quota["regular"])
      \o Take(Pool(deduped, "code_hygiene"), Quota["code_hygiene"])

WorkList(peeled, deduped) ==
    Take(peeled, Quota["regular"])
      \o Take(Pool(deduped, "regular"), Quota["regular"])
      \o Take(Pool(deduped, "self_audit"), Quota["self_audit"])
      \o Take(Pool(deduped, "code_hygiene"), Quota["code_hygiene"])

\* Variant: the peeled findings beyond the quota are forgotten.
QuotaDeferredKeysOfPools(peeled, deduped) ==
    UNION {Elements(Drop(Pool(deduped, p), Quota[p])) : p \in Pools}

QuotaDeferredKeys(peeled, deduped) ==
    Elements(Drop(peeled, Quota["regular"]))
      \cup UNION {Elements(Drop(Pool(deduped, p), Quota[p])) : p \in Pools}

\* update_history: what the last snapshot had and this tick lacks is resolved,
\* unless its tool failed; both lists keep their newest entries.
Newest(s) == Drop(s, IF Len(s) > SnapshotLimit THEN Len(s) - SnapshotLimit ELSE 0)

UpdateHistory(h, found, failed) ==
    LET last == IF h.snapshots = <<>> THEN {} ELSE h.snapshots[Len(h.snapshots)]
        gone == Select(Order, {k \in last \ found : Category[k] \notin failed})
    IN  [snapshots |-> Newest(Append(h.snapshots, found)),
         resolved |-> Newest(h.resolved \o
             [n \in DOMAIN gone |-> [key |-> gone[n], reopens |-> 0]])]

\* _count_consecutive_absences counts at least n: the newest n snapshots lack the
\* key, and the newest is the one of the current tick.
AbsentFor(snapshots, k, n) ==
    /\ n <= Len(snapshots)
    /\ \A m \in Len(snapshots) - n + 1 .. Len(snapshots) : k \notin snapshots[m]

\* _should_skip_partial_output: fewer than four fifths of the median of the
\* last five snapshots.  Twice the median keeps it an integer.
TwiceMedian(counts) ==
    LET N == Len(counts)
        Rank(n) == Cardinality({m \in 1 .. N :
                       \/ counts[m] < counts[n]
                       \/ counts[m] = counts[n] /\ m < n})
        At(r) == counts[CHOOSE n \in 1 .. N : Rank(n) = r]
    IN  IF N % 2 = 1 THEN 2 * At(N \div 2) ELSE At(N \div 2 - 1) + At(N \div 2)

SkipPartialOutput(h, found) ==
    LET S == h.snapshots
        L == Len(S)
        counts == [n \in 1 .. (IF L < 5 THEN L ELSE 5) |->
                      Cardinality(S[L - (IF L < 5 THEN L ELSE 5) + n])]
    IN  /\ L >= 2
        /\ 10 * Cardinality(found) < 4 * TwiceMedian(counts)

\* Variant: Linear is not asked.
FixMergedUnverified(i) == TRUE

\* _verify_fix_merged_via_linear when every call answers: no linkback lets an
\* environmental finding close, a linked issue needs its fix merged.
FixMerged(i) == issues[i].evidence # "linked"

\* forward_drift_watch: the findings with no issue and no recorded reason.
Ghosts(t) ==
    {k \in t.found :
        /\ Category[k] \notin {SelfAudit, DailyAudit}
        /\ k \notin {e.key : e \in t.listed} \cup t.issued
        /\ k \notin t.limited
        /\ k \notin t.closed
        /\ t.ghFailed \/ k \notin QuotaDeferredKeys(t.peeled, t.deduped)}

(***************************************************************************)
(* The repository, its users, Linear's GitHub integration and time.  What   *)
(* only the start of a tick or its listing of the issues reads changes      *)
(* between ticks: a change in the middle of one is a change after it.       *)
(***************************************************************************)
Move == moves < MaxMoves /\ moves' = moves + 1

\* A change that another actor makes to issue i during a tick.
Touched(i) == tick' = IF pc = "idle" THEN tick
                      ELSE [tick EXCEPT !.touched = @ \cup {issues[i].key}]

\* A commit, or an edit or the expiry of a suppression.
Commit(P) ==
    /\ Move
    /\ pc = "idle"
    /\ P # present
    /\ present' = P
    /\ UNCHANGED <<github, cache, hist, pc, tick, unseen, faults>>

UserCloses(i) ==
    /\ Move
    /\ issues[i].open
    /\ issues' = [issues EXCEPT ![i].open = FALSE, ![i].recent = TRUE]
    /\ Touched(i)
    /\ UNCHANGED <<present, spam, cache, hist, pc, unseen, faults>>

UserReopens(i) ==
    /\ Move
    /\ ~issues[i].open
    /\ issues' = [issues EXCEPT ![i].open = TRUE, ![i].recent = FALSE]
    /\ Touched(i)
    /\ UNCHANGED <<present, spam, cache, hist, pc, unseen, faults>>

\* The integration reopens a linked issue that is closed while its Linear issue
\* is not terminal.
LinearReopens(i) ==
    /\ ~issues[i].open /\ issues[i].evidence = "linked"
    /\ issues' = [issues EXCEPT ![i].open = TRUE, ![i].recent = FALSE]
    /\ Touched(i)
    /\ UNCHANGED <<present, spam, cache, hist, pc, unseen, moves, faults>>

\* The pull request of a linked issue merges and its Linear issue completes.
FixMerges(i) ==
    /\ issues[i].evidence = "linked"
    /\ issues' = [issues EXCEPT ![i].evidence = "merged"]
    /\ UNCHANGED <<present, spam, cache, hist, pc, tick, unseen, moves, faults>>

LeavesWindow(i) ==
    /\ pc = "idle"
    /\ ~issues[i].open /\ issues[i].recent
    /\ issues' = [issues EXCEPT ![i].recent = FALSE]
    /\ UNCHANGED <<present, spam, cache, hist, pc, tick, unseen, moves, faults>>

GrowsOld(i, age) ==
    /\ Move
    /\ pc = "idle"
    /\ issues[i].open
    /\ <<issues[i].age, age>> \in {<<"fresh", "72h">>, <<"fresh", "7d">>, <<"72h", "7d">>}
    /\ issues' = [issues EXCEPT ![i].age = age]
    /\ UNCHANGED <<present, spam, cache, hist, pc, tick, unseen, faults>>

\* The history is gone: the cache entry was evicted, or load_history found the
\* file unreadable and quarantined it.
LoseHistory ==
    /\ Move
    /\ pc = "idle"
    /\ cache # NoHistory
    /\ cache' = NoHistory
    /\ UNCHANGED <<present, github, hist, pc, tick, unseen, faults>>

(***************************************************************************)
(* The tick.                                                               *)
(***************************************************************************)
\* run_audit_tool: a tool that fails, times out or prints no JSON reports nothing.
Reported(F) == {k \in present : Category[k] \notin F}

\* The tools run; those of the categories in F fail.  All of them failing ends
\* the tick before it changed anything.
Observe(F) ==
    /\ pc = "idle"
    /\ F # Categories
    /\ faults + Cardinality(F) <= MaxFaults
    /\ faults' = faults + Cardinality(F)
    /\ tick' = [Idle EXCEPT !.found = Reported(F), !.failed = F,
                            !.peeled = Peeled(cache, Reported(F))]
    /\ hist' = cache
    /\ pc' = "fetch"
    /\ UNCHANGED <<present, github, cache, unseen, moves>>

\* get_open_issues: both queries must answer, or nothing is created.
GetOpenIssues ==
    /\ pc = "fetch"
    /\ LET listed == {[id |-> i, key |-> issues[i].key] : i \in OpenIds}
           closed == {issues[i].key : i \in {j \in Ids \ OpenIds : issues[j].recent}}
           deduped == Deduplicate(hist, tick.found, {e.key : e \in listed} \cup closed)
       IN  tick' = [tick EXCEPT !.listed = listed, !.closed = closed,
                                !.deduped = deduped, !.touched = {},
                                !.todo = WorkList(tick.peeled, deduped)]
    /\ pc' = "process"
    /\ UNCHANGED <<present, github, cache, hist, unseen, moves, faults>>

GetOpenIssuesFails ==
    /\ pc = "fetch"
    /\ Fault
    /\ tick' = [tick EXCEPT !.ghFailed = TRUE]
    /\ pc' = "process"
    /\ UNCHANGED <<present, github, cache, hist, unseen, moves>>

Current == Head(tick.todo)
Regression == Current \in ResolvedKeys(hist)
InProcess == pc = "process" /\ tick.todo # <<>>
ToNext(t) == tick' = [t EXCEPT !.todo = Tail(@)] /\ pc' = "process"

\* _reopen_closed_issue succeeds on a closed issue of the key; the counter of
\* the resolved entry is written after the call.
ReopenClosedIssue(i) ==
    /\ InProcess /\ Regression
    /\ ~ReopenLimitReached(hist, Current)
    /\ i \in IdsOf(Current) /\ ~issues[i].open
    /\ issues' = [issues EXCEPT ![i].open = TRUE, ![i].recent = FALSE]
    /\ \/ /\ NoFault
          /\ hist' = [hist EXCEPT !.resolved[EntryOf(hist, Current)].reopens = @ + 1]
       \/ Fault /\ UNCHANGED hist
    /\ ToNext([tick EXCEPT !.issued = @ \cup {Current}])
    /\ UNCHANGED <<present, spam, cache, unseen, moves>>

\* It fails: no closed issue matches, a call fails, or the call that reopened
\* the issue is not answered.
ReopenFails ==
    /\ InProcess /\ Regression
    /\ ~ReopenLimitReached(hist, Current)
    /\ \/ /\ IdsOf(Current) \subseteq OpenIds
          /\ NoFault /\ UNCHANGED <<issues, tick>>
       \/ Fault /\ UNCHANGED <<issues, tick>>
       \/ /\ Fault
          /\ \E i \in IdsOf(Current) \ OpenIds :
                issues' = [issues EXCEPT ![i].open = TRUE, ![i].recent = FALSE]
          /\ tick' = [tick EXCEPT !.touched = @ \cup {Current}]
    /\ pc' = "fallback"
    /\ UNCHANGED <<present, spam, cache, hist, unseen, moves>>

\* The reopen limit suppresses the finding.
SuppressChurn ==
    /\ InProcess /\ Regression
    /\ ReopenLimitReached(hist, Current)
    /\ ToNext([tick EXCEPT !.limited = @ \cup {Current}])
    /\ UNCHANGED <<present, github, cache, hist, unseen, moves, faults>>

\* An issue of the key was open when the tick listed them.
SkipDuplicate ==
    /\ pc = "fallback"
    /\ Current \in {e.key : e \in tick.listed}
    /\ ToNext(tick)
    /\ UNCHANGED <<present, github, cache, hist, unseen, moves, faults>>

\* Linear's integration links a new issue before the next tick, or fails to.
NewIssue(k, evidence) ==
               [key |-> k, open |-> TRUE, recent |-> FALSE,
                evidence |-> evidence, age |-> "fresh", marks |-> {}]

MayCreate(k) ==
    /\ \/ InProcess /\ ~Regression
       \/ pc = "fallback" /\ Current \notin {e.key : e \in tick.listed}
    /\ k = Current

CreateIssue(k) ==
    /\ MayCreate(k)
    /\ Len(issues) < MaxIssues
    /\ \E evidence \in {"none", "linked"} :
          issues' = Append(issues, NewIssue(k, evidence))
    /\ ToNext([tick EXCEPT !.issued = @ \cup {k}, !.made = TRUE])
    /\ UNCHANGED <<present, spam, cache, hist, unseen, moves, faults>>

\* gh refuses, or the call that created the issue is not answered.
CreateIssueFails(k) ==
    /\ MayCreate(k)
    /\ Fault
    /\ \/ UNCHANGED issues
       \/ /\ Len(issues) < MaxIssues
          /\ \E evidence \in {"none", "linked"} :
                issues' = Append(issues, NewIssue(k, evidence))
    /\ ToNext([tick EXCEPT !.hurt = @ \cup {k}])
    /\ UNCHANGED <<present, spam, cache, hist, unseen, moves>>

\* The two hard exits: findings without any new issue, and findings that could
\* not be compared with the issues.
EndsRed ==
    \/ ~tick.made /\ \E k \in Elements(tick.deduped) : Category[k] # DailyAudit
    \/ tick.ghFailed /\ tick.found # {}

\* check_isolation: the newest open issue of a finding that every snapshot of
\* the window has is labelled once it is seven days old.
Isolated(h) ==
    {i \in OpenIds :
               /\ issues[i].key \in tick.found /\ issues[i].age = "7d"
               /\ \A j \in IdsOf(issues[i].key) \cap OpenIds : j <= i
               /\ Len(h.snapshots) >= IsolationThreshold
               /\ \A n \in Len(h.snapshots) - IsolationThreshold + 1 .. Len(h.snapshots) :
                     issues[i].key \in h.snapshots[n]}

Mark(I, m) ==
    issues' = [i \in Ids |-> IF i \in I THEN [issues[i] EXCEPT !.marks = @ \cup {m}]
                             ELSE issues[i]]

\* update_history, write_heartbeat and check_isolation, then the hard exits: a
\* tick that ends red keeps what it did on GitHub and loses its history.
Record ==
    /\ pc = "process" /\ tick.todo = <<>>
    /\ LET h == UpdateHistory(hist, tick.found, tick.failed)
       IN  /\ \/ Mark(Isolated(h), "isolated") /\ NoFault
              \/ UNCHANGED issues /\ Fault
           /\ hist' = IF EndsRed THEN NoHistory ELSE h
    /\ pc' = IF EndsRed THEN "idle" ELSE "list"
    /\ tick' = IF EndsRed THEN Idle ELSE tick
    /\ UNCHANGED <<present, spam, cache, unseen, moves>>

\* auto_close_resolved: the open issues without a finding.
ListOrphans ==
    /\ pc = "list"
    /\ \/ /\ NoFault
          /\ tick' = [tick EXCEPT !.visit =
                IF SkipPartialOutput(hist, tick.found) THEN {}
                ELSE {i \in OpenIds : issues[i].key \notin tick.found}]
       \/ Fault /\ UNCHANGED tick
    /\ pc' = "close"
    /\ UNCHANGED <<present, github, cache, hist, unseen, moves>>

\* gh lists the newest issue first.
IsNext(i) == \A j \in tick.visit : j <= i
Visited(i) == tick' = [tick EXCEPT !.visit = @ \ {i}]

\* _should_skip_close, before it asks Linear.
Protected(i) == Category[issues[i].key] \in tick.failed \cup {SelfAudit}
\* Variant: the tick counts its own absence twice.
GraceDeferredShort(i) == ~AbsentFor(hist.snapshots, issues[i].key, Grace - 1)

GraceDeferred(i) == ~AbsentFor(hist.snapshots, issues[i].key, Grace)

Closed(i) ==
    issues' = [issues EXCEPT ![i].open = FALSE, ![i].recent = TRUE]

CloseResolved ==
    /\ pc = "close"
    /\ \E i \in tick.visit :
          /\ IsNext(i)
          /\ ~Protected(i) /\ ~GraceDeferred(i) /\ FixMerged(i)
          /\ Closed(i)
          /\ Visited(i)
    /\ UNCHANGED <<present, spam, cache, hist, pc, unseen, moves, faults>>

\* A gate holds the issue open, or a call on the way to closing it fails.
KeepOpen ==
    /\ pc = "close"
    /\ \E i \in tick.visit :
          /\ IsNext(i)
          /\ IF Protected(i) \/ GraceDeferred(i) \/ ~FixMerged(i)
             THEN NoFault ELSE Fault
          /\ Visited(i)
    /\ UNCHANGED <<present, github, cache, hist, pc, unseen, moves>>

\* reverse_drift_watch classifies what the tick listed as open and does not
\* report: ready to close, or blocked.  A verification that fails blocks.  The
\* partial output and the tick's budget may stop it.
ClassifyOrphans(F) ==
    /\ pc = "close" /\ tick.visit = {}
    /\ LET orphans == IF SkipPartialOutput(hist, tick.found) THEN {}
                      ELSE {e.id : e \in {x \in tick.listed : x.key \notin tick.found}}
       IN  /\ F \subseteq orphans /\ Cardinality(F) <= 1
           /\ IF F = {} THEN NoFault ELSE Fault
           /\ tick' = [tick EXCEPT
                 !.visit = orphans,
                 !.ready = {i \in orphans \ F : ~Protected(i) /\ FixMerged(i)}]
    /\ pc' = "drift"
    /\ UNCHANGED <<present, github, cache, hist, unseen, moves>>

BudgetExhausted ==
    /\ pc = "close" /\ tick.visit = {}
    /\ Fault
    /\ pc' = "drift"
    /\ UNCHANGED <<present, github, cache, hist, tick, unseen, moves>>

\* execute_orphan_classifications, one issue at a time.  An issue that is not
\* open any more, or whose state cannot be read, is left alone.
Drifting(i) ==
    /\ pc = "drift"
    /\ IsNext(i)
    /\ Visited(i)
    /\ UNCHANGED <<present, cache, hist, pc, unseen, moves>>

CloseOrphan ==
    \E i \in tick.visit :
        /\ Drifting(i)
        /\ issues[i].open
        /\ i \in tick.ready /\ ~GraceDeferred(i)
        /\ Closed(i)
        /\ UNCHANGED <<spam, faults>>

\* Variant: the comments on the issue are not read first.
CommentBlockedUnchecked ==
    \E i \in tick.visit :
        /\ Drifting(i)
        /\ issues[i].open
        /\ i \notin tick.ready
        /\ NoFault
        /\ spam' = IF "blocked" \in issues[i].marks THEN spam + 1 ELSE spam
        /\ Mark({i}, "blocked")

\* The audit comment, once per issue unless its comments cannot be read.
CommentBlocked ==
    \E i \in tick.visit :
        /\ Drifting(i)
        /\ issues[i].open
        /\ i \notin tick.ready
        /\ \/ /\ "blocked" \notin issues[i].marks
              /\ NoFault /\ UNCHANGED spam
           \/ /\ "blocked" \in issues[i].marks
              /\ Fault /\ spam' = spam + 1
        /\ Mark({i}, "blocked")

LeaveOrphan ==
    \E i \in tick.visit :
        /\ Drifting(i)
        /\ \/ NoFault /\ \/ ~issues[i].open
                         \/ i \in tick.ready /\ GraceDeferred(i)
                         \/ i \notin tick.ready /\ "blocked" \in issues[i].marks
           \/ Fault
        /\ UNCHANGED github

DriftDone ==
    /\ pc = "drift" /\ tick.visit = {}
    /\ pc' = "finish"
    /\ UNCHANGED <<present, github, cache, hist, tick, unseen, moves, faults>>

\* reconcile_in_progress comments on the open issues older than 72 hours
\* without a pull request, the job succeeds and saves its history.
Stuck == {i \in OpenIds : issues[i].age # "fresh" /\ issues[i].evidence # "merged"}

Seen(found) ==
    unseen' = [k \in Keys |-> IF k \in found THEN 0
                              ELSE IF unseen[k] < Grace THEN unseen[k] + 1 ELSE Grace]

Finish ==
    /\ pc = "finish"
    /\ \/ Mark(Stuck, "advised") /\ NoFault /\ UNCHANGED spam
       \/ /\ \E i \in Stuck : "advised" \in issues[i].marks
          /\ Fault /\ spam' = spam + 1
          /\ Mark(Stuck, "advised")
       \/ UNCHANGED <<issues, spam>> /\ Fault
    /\ cache' = hist
    /\ Seen(tick.found)
    /\ hist' = NoHistory
    /\ pc' = "idle" /\ tick' = Idle
    /\ UNCHANGED <<present, moves>>

\* The job is cancelled, times out or loses its runner.
Killed ==
    /\ pc # "idle"
    /\ Fault
    /\ pc' = "idle" /\ tick' = Idle /\ hist' = NoHistory
    /\ UNCHANGED <<present, github, cache, unseen, moves>>

(***************************************************************************)
(* The specification.                                                      *)
(***************************************************************************)
TickStep ==
    \/ \E F \in SUBSET Categories : Observe(F)
    \/ GetOpenIssues \/ GetOpenIssuesFails
    \/ \E i \in Ids : ReopenClosedIssue(i)
    \/ ReopenFails \/ SuppressChurn \/ SkipDuplicate
    \/ \E k \in Keys : CreateIssue(k) \/ CreateIssueFails(k)
    \/ Record \/ ListOrphans \/ CloseResolved \/ KeepOpen
    \/ \E F \in SUBSET Ids : ClassifyOrphans(F)
    \/ BudgetExhausted
    \/ CloseOrphan \/ CommentBlocked \/ LeaveOrphan \/ DriftDone
    \/ Finish

Others ==
    \/ \E P \in SUBSET Keys : Commit(P)
    \/ \E i \in Ids : \/ UserCloses(i) \/ UserReopens(i)
                      \/ LinearReopens(i) \/ FixMerges(i)
                      \/ LeavesWindow(i)
                      \/ GrowsOld(i, "72h") \/ GrowsOld(i, "7d")
    \/ LoseHistory
    \/ Killed

Next == TickStep \/ Others

Spec == Init /\ [][Next]_vars

\* The schedule starts a job every half hour and a job that is not killed runs
\* to its end; a closed issue leaves the window when seven days have passed.
Fairness ==
    /\ WF_vars(TickStep)
    /\ SF_vars(\E i \in Ids : LeavesWindow(i))

FairSpec == Spec /\ Fairness

(***************************************************************************)
(* Properties.                                                             *)
(***************************************************************************)
Tick == [found : SUBSET Keys, failed : SUBSET Categories,
         peeled : Seq(Keys), deduped : Seq(Keys),
         listed : SUBSET [id : 1 .. MaxIssues, key : Keys], closed : SUBSET Keys,
         todo : Seq(Keys), issued : SUBSET Keys, limited : SUBSET Keys,
         touched : SUBSET Keys, hurt : SUBSET Keys,
         made : BOOLEAN, ghFailed : BOOLEAN,
         visit : SUBSET (1 .. MaxIssues), ready : SUBSET (1 .. MaxIssues)]

TypeOK ==
    /\ present \in SUBSET Keys
    /\ issues \in Seq(Issue) /\ Len(issues) <= MaxIssues
    /\ cache \in History /\ hist \in History
    /\ Len(cache.snapshots) <= SnapshotLimit /\ Len(cache.resolved) <= SnapshotLimit
    /\ pc \in {"idle", "fetch", "process", "fallback", "list", "close", "drift", "finish"}
    /\ tick \in Tick
    /\ pc = "idle" => tick = Idle /\ hist = NoHistory
    /\ tick.visit \subseteq Ids
    /\ unseen \in [Keys -> 0 .. Grace]
    /\ spam \in Nat /\ moves \in 0 .. MaxMoves /\ faults \in 0 .. MaxFaults

\* Neither of the two closing paths closes an issue on fewer than Grace recorded
\* ticks without its finding, after a tick whose tool failed, for a self-audit
\* finding, or for a linked issue whose fix was not merged when the path asked:
\* history lost, rolled back or written by a red tick only delays a closure.
ClosedOnEvidence ==
    [][\A i \in Ids :
          (issues[i].open /\ i \in tick.visit \ tick'.visit /\ ~issues'[i].open) =>
              /\ unseen[issues[i].key] + 1 >= Grace
              /\ Category[issues[i].key] \notin tick.failed \cup {SelfAudit}
              /\ issues[i].evidence # "linked"]_vars

\* A tick never creates an issue for a finding that has an open one, unless
\* someone opened that one (or a call was not answered) since the tick listed
\* them: dedup, peeling, the pools and the reopen fallback leave no second path.
CreatesOnlyUntracked ==
    [][Len(issues') > Len(issues) =>
          LET k == issues'[Len(issues')].key
          IN  k \in tick.touched \/ IdsOf(k) \cap OpenIds = {}]_vars

\* forward_drift_watch reports a GHOST only for a finding whose issue could not
\* be created in this tick: quota, suppression, the reopen limit and the closed
\* window account for every other finding without an issue.
GhostNeedsFailure == pc = "finish" => Ghosts(tick) \subseteq tick.hurt

\* Audit comments are posted once per issue, whatever ticks repeat, end red or
\* are killed; each duplicate needs comments that could not be read.
CommentsOnce == spam <= faults

\* Once the repository and its users leave it alone, every finding is tracked by
\* an open issue, held back by the reopen limit, or one of more regressions than
\* max_issues_per_tick: those that precede it keep the slice although they have
\* their issues.
Starved(k) ==
    k \in Elements(Drop(Peeled(cache, present), Quota["regular"]))

EventuallyTracked ==
    <>[](\A k \in present :
            \/ Category[k] = DailyAudit
            \/ IdsOf(k) \cap OpenIds # {}
            \/ ReopenLimitReached(cache, k)
            \/ Starved(k))

\* The scanner, the state gate and Linear's reopening do not flap: with the
\* world at rest, no issue is opened or closed for ever.
EventuallyQuiet == <>[][UNCHANGED <<Ids, OpenIds>>]_vars

=============================================================================
