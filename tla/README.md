# A TLA+ verification of infraro-core

This directory models the two halves of infraro-core: the shell scripts in
`src/webhook-scripts/` that turn webhooks into droid sessions, keep at most one
of them running per team, tell a session how CI ended, and reconcile Linear,
GitHub and the host; and the Python jobs of `src/infra_core/` that scan the
repository, keep one issue per finding, watch each other, sync versions, review
pull requests and audit projects and machines. TLC checks the models on small instances; TLAPS proves the
main safety properties for every value of the constants.

`PROJECT.json` is the index: components, runs, mutants (for each property, a
plausible bug that breaks it), the source lines of every definition, findings,
hazards, theorems.

## 1. Inventory

In the tables a component's properties are what makes it correct; those in
`code` are stated in a module.

### Webhook scripts (shell, one host, many processes)

| Component | State | Operations | Hard part | Correct when |
|---|---|---|---|---|
| `trigger-droid.sh`, locking | `l2d-<issue>.lock`, `l2d-team-<team>.lock` (flock on 200 and 201, pid metadata), Linear states | delivery: guards, M2 advice, two flocks, fork; session: process an issue, ask Linear for the next one | processes inherit the descriptors and outlive each other; hygiene unlinks by age | `OneDroidPerTeam`, `ImplementsSerialExecutor`, `TurnedAwayByAHolder`, `MetaNamesHolder`, `EveryTriggerSettles` |
| `trigger-droid.sh`, status | `status/<issue>.json` and one shared `.tmp` name, heartbeat pid | atomic write, heartbeat every 30 s, terminal write, exit trap | two writers of one temporary name, a python child that outlives its loop | `NoTornStatus`, `UndisturbedTerminalIsFinal`, `CurrentIsRepaired`, `StatusNeverVanishes`, `HeartbeatsDrain` |
| `trigger-droid.sh`, Gate A and fallbacks | validators, circuit breaker, GitHub issue | verify what a droid claims, escalate | overrides, partial failure of the write-back | a failed gate is never reported as completed (planned) |
| `reconcile-evolution.sh` | stale-orphan counters and sentinels, infra-failed markers; reads status files, Linear, GitHub | tick: close mirrors of settled issues, GAP-A, sweep red pull requests, absorb, push, cancel, retrigger | everything it reads changes between its calls, and calls fail | `SweeperNeverSilent`, `InfraFrozenNeverCancelled`, `EventuallyConsistent`, `MirrorFollows` |
| `write-pending-ci.sh`, `trigger-ci-droid.sh`, `ci-timeout-watchdog.sh`, `lib/p0a-guard.sh` | `pending-ci-<pr>.json` (rewritten in place), `ci-fallback-<pr>.lock` (tested for age), `ci-complete-…lock` (flock and unlink) | register, inject, mark, fall back; time out and fall back | redelivery, timeouts racing late answers, torn files, kills | `RegistrationIsSettled`, `PendingDrains`, `TruncatedIsBeingWritten` |
| `webhook-hygiene.sh` | none; unlinks locks, archives terminal status files, compresses logs | daily pass, dry run by default | decides by age, then acts by name | the properties of the components whose files it removes |
| `trigger-error-droid.sh` | `posthog-error-<fp>.lock` | as trigger-droid without a queue | truncation of a lock file at the end | one droid per fingerprint (planned) |
| `poll-releases.sh`, `trigger-release.sh` | `release-announce-<tag>.json`, bootstrap sentinel | hook and poll announce a release to consumers | check-then-write lock, crash after the lock, skipped consumers | every release is announced once to each consumer (planned) |
| `sync-webhook-scripts.sh`, `drift-gate.sh` | deployed copies, backups | copy, verify, roll back | partial copy | the deployed set is one version (planned) |
| `ci-failed.sh`, `local_branch_cleanup.sh`, `wiki-refresh.sh`, `lib/posthog.sh`, `lib/op-mcp.sh` | none | one call, or git maintenance | I/O only | not modelled |

### Engine and packs (Python, jobs of GitHub Actions and session-start hooks)

| Component | State | Operations | Hard part | Correct when |
|---|---|---|---|---|
| `evolution_scanner.py`, `evolution_utils.py`, `evolution_adapters.py` | GitHub issues; `findings_over_time.json` in the Actions cache, saved only by a job that succeeds | a tick: run tools, deduplicate, reopen or create, record, close, classify orphans, advise | users, Linear and commits act between its calls; calls fail; a red or killed tick forgets its history but not its issues | `ClosedOnEvidence`, `CreatesOnlyUntracked`, `GhostNeedsFailure`, `CommentsOnce`, `EventuallyTracked`, `EventuallyQuiet` |
| `evolution_heartbeat.py`, `check_heartbeat_channel` of `evolution_self_audit.py`, `watch_heartbeat_channel` | run history, heartbeat marker, alert issues | probe, dispatch, alert, close alerts; report a stale marker | each of two jobs restarts the other, schedules drop slots, probes fail | `MutualHealing`, `DeadTicksReported`, `ClosedOnRecovery` |
| `version_sync.py` | three version files and `.sync.lock` of a project | probe, gate, lock, patch, resign | overlapping processes, stale locks, death between patches | `FilesAgree`, `NeverDowngraded` |
| `droid_review/` | comments of a pull request | plan shards, collect, post comments and a summary | repeated reviews, failing comments, limits | `ShardsPartition`, `FindingsShown` |
| `packs/memory/error_patterns.py` | `registry.jsonl` | detect and merge, resolve | two jobs rewrite one file without a lock | `ResolutionSurvives` |
| `packs/memory/daily_audit.py` | none (a report and an exit code) | check projects, servers, databases | checks that raise, names that collide | `ExitTellsCritical` |
| `packs/memory/layout_audit.py` | none (findings and a plan) | audit a tree, plan its migration | the tree changes between audit and plan | `PlanIsSafe` |
| `anchor_gate.py`, `extract_anchor.py`, `packs/memory/hygiene.py`, `pack.py`, `ownership_reader.py` | none | compare, read, register | parsing | not modelled |
| `governance.py`, `cli.py`, `substrate/gates/`, `scripts/` | none | rules over labels, files, workflows | parsing | not modelled |
| `shell/` (`branch_cleanup*.sh`, `auto_merge_triage.sh`) and workflows | branches, pull requests | delete merged branches, triage | order of checks against a moving repository | planned |
| `cf/gh-proxy` | none | a request filter | | not modelled |

### How they interact

Linear's webhook starts `trigger-droid.sh`; its session's pull request is
registered by `write-pending-ci.sh`; "CI complete" deliveries start
`trigger-ci-droid.sh`; the watchdog runs from launchd. `reconcile-evolution.sh`
(every half hour) reads what all of them leave behind, and may call
`trigger-droid.sh`. The scanner creates the GitHub issues that Linear mirrors; it
runs the daily audit, the layout audit and the error patterns as its tools, and
the self-audit that watches its own marker. Heartbeat and scanner dispatch each
other through `gh workflow run`. Version sync runs in every session start.
`webhook-hygiene.sh` removes old files under all of them. There is no message
queue: the processes communicate through lock files, status files, pending
files, Linear and GitHub, and every hazard of section 5 lies in a read of one of
them that is used later.

## 2. Modules

| Module | Role |
|---|---|
| `SerialExecutor` | abstract: one owner of a team at a time, only the owner runs a droid |
| `TriggerLocks` | the lock protocol and the session's life cycle; refines `SerialExecutor` |
| `SessionStatus` | the status file of a session under heartbeat, trap and hygiene |
| `Reconcile` | one tick after another over two findings, with the rest of the world between any two calls |
| `CiNotify` | registration, deliveries and watchdog of one pull request |
| `EvolutionScanner` | ticks of the scanner over the issues of a few findings |
| `PipelineHealth` | heartbeat and scanner watching each other |
| `VersionSync` | overlapping syncs of one project |
| `ErrorPatterns` | detector runs and resolve commands on one registry |
| `DroidReview` | reviews of one pull request, from the plan to the summary |
| `DailyAudit`, `LayoutAudit` | one run of each audit over chosen facts |
| `Lists` | list comprehension, slices, a loop over a list, and what lists of lists hold |
| `MCEngine` | the seven parts of the engine side by side; a behaviour runs one of them |
| other `MC…` | the sets of model values for TLC |
| `…Proofs` | theorems about the module of that name |
| `EngineProofs` | theorems about `PipelineHealth`, `VersionSync`, `ErrorPatterns`, `LayoutAudit` and `DailyAudit` |
| `ListProofs` | induction and recursion over lists, and the lemmas about `Lists` |

**`TriggerLocks`.** An inode is a number, a lock file a path to an inode;
`flock` belongs to the inode and lasts while any process of the trigger has it
open (`Live`: main process, session, or child). Main process: `Start`, `CheckLock`
(M2, decides from the metadata line), `Truncate`, `OpenIssue`, `FlockIssue`,
`WriteMeta` (by path, not descriptor), `OpenTeam`, `FlockTeam`,
`MoveToInProgress`, `Unrouted` or `Spawn`, `PostMeta` (appends the session's pid
as a second line). Session: `BeginIssue`, `SkipIssue`, `LaunchDroid`,
`DroidExit`, `FinishIssue`, `ChainPick`, `ChainStop`; children that outlive it:
`StrayExit`, `OrphanExit`. World: `CreateIssue`, `KillMain`, `KillSession`,
`Reboot`, `Age`, `HygieneReap`. The two steps open and flock are separate, since
that is where an unlink bites.

**`SessionStatus`.** The content of a file is its status and whether its pid is
this session's. A descriptor follows the inode through rename and unlink (`Follow`), so a
writer may write to a file that has been published or removed. `_write_status` is
four actions (`WriteRm`, `WriteOpen`, `WriteData`, `WriteMv`), the heartbeat five
(`BeatCheck`, `BeatRead`, `BeatOpen`, `BeatFlush`, `BeatRename`); the kill of a
loop (`StopTracked`) leaves a python child that has started, as `kill` of the
bash process does. `TrapStop` and `TrapRepair` are the EXIT trap.

**`Reconcile`.** A tick is a sequence of calls; `pc` says which is next, `it` for
which issue, `list` what is left of the one Linear query of the tick
(`snapStarted` and `snapFresh` remember what it said). `Fails(kind)` lets a call
fail as the code would see it: a failing `gh` reads as an empty list, a failing
Linear mutation as no change. World: webhooks, sessions, CI, merges, hygiene,
reopening, time, a text that names another issue. A mirror belongs to an issue by
its linkback (`link`), but is searched for by any text that names it (`mention`).
`newer` is the order of creation and `page` the size of the queries, 50 in the
code: `Newest` is what a query returns, here and of the settled issues
(`CloseTerminal`); `Listings` the same of the mirrors GAP-A lists. A sweep is about one pull
request: `same` says that the one it began with is still there, `said` that it
carries the comment of this sweep.

**`CiNotify`.** The pending file is a value of a small set (plain, injected,
overdue, torn, garbled); `MarkRead`, `MarkOpen`, `MarkFlush` are the python
that rewrites it in place, for all the places of the script that do so; `why` says
on behalf of which. `Key…` is the fingerprint lock, an inode named by the
delivery that created it. `Inject` covers token, session selection, probe and
POST with its retries, of which only the outcome matters. The watchdog
(`Dog…`) reads each field from the file anew, as the script does.
A file tested for its age may be young or stale whenever it exists, which
over-approximates every relation between the durations of the code.

**`EvolutionScanner`.** A finding is a key (rule and location), an issue is a
record with its key, state, age, the evidence Linear gives of a fix, and the
comments it carries. `pc` follows `main`: `Observe` (tools, suppressions,
regressions), `GetOpenIssues` (one listing, on which deduplication and the work
list of the four slices are computed), per finding `ReopenClosedIssue`,
`SuppressChurn`, `SkipDuplicate` or `CreateIssue` and their failures, `Record`
(history, isolation labels, the two red exits), `ListOrphans`, `CloseResolved`
and `KeepOpen` (`auto_close_resolved`), `ClassifyOrphans`, `CloseOrphan`,
`CommentBlocked`, `LeaveOrphan` (`reverse_drift_watch`) and `Finish` (stuck
issues, and the job's end, which saves the cache). A failing call either had its
effect or not. `unseen`, `spam`, and the fields `touched` and `hurt` of a tick
are history for the properties and decide nothing. The two copies of the
history, `cache` and `hist`, are the point: `Observe` restores one from the
other, `Finish` saves it, a red exit and `Killed` drop it.

**`PipelineHealth`.** `age` is what the run list says of each workflow; a
dispatch or a schedule lists a run and queues a job (one pending, as the
concurrency groups have it). The heartbeat probes, dispatches, queries coverage,
lists alerts, closes or creates; the scanner's tick starts (and reads the
marker), watches, succeeds or ends red. Only `TickSucceeds` renews the marker.
`uncovered` is about the ten newest issues, the only ones `check_pr_coverage`
looks at; issues, pull requests and the alerts change at any moment of a job, and
a run may grow stale before the job's eyes. `lasting` is history: the anomalies that have held
since the running heartbeat began.

**`VersionSync`.** A process reads the version, passes the gate, creates
`.sync.lock` or waits for it or breaks it, reads again, and patches ownership,
lock and adapter in three steps. The lock is removed by name.

**`ErrorPatterns`.** Reading, truncating and writing the registry are separate
steps, since nothing locks it.

**`DroidReview`.** Planning is three loops: files of a directory into chunks
(`Cut`), directories one after another (`Chunks`), chunks into shards, first-fit
(`PlanShards`). A shard ends with the set of
remarks of its droid or fails the review; `Deduplicated`, the inline loop and
`Detailed` choose among equals, where the code takes the order of a glob.

**`DailyAudit`.** What is at a path or answers at a server is a record chosen
once; every check is an operator from it to violations; the run goes over the
lists, any check may raise, the inventory or the index may be unreadable, and
records are stored by name.

**`LayoutAudit`.** The tree is the set of structures and pollution found by their
kinds; `AuditLayout` computes the findings under a filter, `Edit` changes the
tree, `MakePlan` combines the findings with its second look. The code compares
paths where the model compares kinds, so a second docs directory beside a reported one is not told
apart; `root_audit`, `root_plan` and `root_now` are treated as `root_report` is.

## 3. Runs

| Run | Instance | Shows |
|---|---|---|
| `trigger_locks_safety` | 3 deliveries, 2 issues, 1 kill or reboot, hygiene in its default dry run | lock safety and the refinement |
| `trigger_locks_live` | 2 deliveries on one issue, hygiene unlinking, 1 failing call, 1 kill | everything started ends; metadata and refusals stay sound under unlinking |
| `trigger_locks_reaped` | hygiene unlinking | violation: two droids of a team |
| `trigger_locks_lost_wakeup` | 1 delivery per issue | violation: a refused issue is forgotten |
| `status_protocol` | 2 issues, 2 calls of `process_one_issue`, 1 kill, hygiene archiving | files whole, terminal final until a child survives its loop, no file vanishes, heartbeats end |
| `status_stale_heartbeat` | 1 call | violation: a heartbeat undoes a terminal status |
| `reconcile_tick` | 1 synced and 1 unknown finding, pages of 1 and of 2, 1 webhook, threshold 2, any one of: gh, Linear, kill, refused trigger, reopening, a mention | no silent close, no cancellation of a frozen issue, consistency, mirrors follow |
| `reconcile_outage` | 1 finding, 1 failing gh call | violation: an open mirror counts as closed |
| `reconcile_lost_delivery` | 1 finding, no webhook | violation: never triggered, then cancelled |
| `ci_answer` | 2 deliveries, watchdog, every source, any one of: gh, token, kill | torn files have writers, registrations are settled, files drain |
| `ci_redelivery` | 2 deliveries | violation: the kept lock file does not stop a repeat |
| `evolution_engine` | the seven modules of the engine, each in behaviours of its own (below) | the eight invariants and eight temporal properties of the engine, and the scanner's types |

**Bounds.** A race on one lock needs two processes, and a third to hold what
the two others contend for: hence three deliveries, two of them on one issue.
`MaxInode` lets each lock file of the small instances be unlinked and created again (5), or
every lock be created once in a dry run (3). `MaxRuns = 2` covers the same issue
twice and two issues in a row. One fault of each kind is enough for every single
failure at every point; two failures are beyond these runs, except where a
theorem covers any number. `FallbackTicks = 2` separates "counted" from "at the
threshold", and the code does not tell other values apart. `Pages = {1, 2}`: with
two issues and two mirrors a page of one leaves the older out, as a page of 50
does with more, and a page of two is never full. Two deliveries
produce every pair of writers, holders and checkers of the CI files; the
watchdog is a third writer to the fallback lock.

`evolution_engine` chooses a `part` in its initial state and leaves the others
alone, so that one run reports on all of them and the state spaces add up
instead of multiplying (302,000 states). Scanner: three findings, two of one
tool, which compete for one pool of quota 1, and one of the self-audit; from an
empty repository, or from one whose issues were closed long ago with one entry
at its reopen limit; one fault (failed tool, failed or unanswered call, kill) and
one move (commit, user, ageing, eviction) at any point. History of two snapshots
and a grace of two keep the relation `Grace <= SnapshotLimit` of the code (3 and
100) and let an entry fall out of the window. Five issues: every finding twice,
less the one that cannot come back. Health: every combination of ages, marker
and coverage, one fault, endless schedules. Sync: two processes, four versions of
which the last is a new major, a missing ownership or adapter file, a changed
schema, a death or failed patch anywhere. Patterns: two jobs of either kind, one
real and one test log line. Review: four files in two directories, shards of
two, three remarks of which two share a line, a batch of two, two reviews, one
listing that fails. Daily audit: two projects and two servers that share a name,
one database, nine kinds of project and five of server, with every single
check, all, or none raising. Layout: every single structure or two of them, with
the documents that matter, every filter, one edit.

**Fairness.** Weak fairness, and strong fairness of time in the engine. `TriggerLocks`: the operating system runs every
live process, `with_timeout` bounds a droid and a heartbeat tests its session
every 30 s. `SessionStatus`: the session and its heartbeats. `Reconcile`:
launchd runs the ticks, time passes, a spawned session starts and ends; nothing
obliges webhooks, CI, merges or users. `CiNotify`: launchd runs the watchdog, a
delivery that has started goes on (every call has a timeout), time passes; no
delivery need ever arrive. `EvolutionScanner`: ticks start and go on (every
call has a timeout; that they start is what `PipelineHealth` is about), and a
closed issue leaves the deduplication window of seven days, a time that passes
although ticks come and go (strong). `PipelineHealth`: a queued job starts and
ends, runs and marker grow old (strong); nothing is assumed of the schedules, and
`MutualHealing` has as its hypothesis that one of the two fires now and then. The
other modules of the engine have no liveness. Kills and failures are never fair.

**Deadlock.** A `TriggerLocks`, `SessionStatus` or `CiNotify` system in which
everything has ended stops, so these runs set `CHECK_DEADLOCK FALSE`; `Reconcile`
always has a next tick and is checked for deadlock. `evolution_engine` stops
where an audit, a sync or a review has ended, and sets it too.

**Exceptions written into the properties.** `Undisturbed` (status): no python
child of a killed heartbeat is alive and no issue was processed twice; without it
the statements are false, which `status_stale_heartbeat` shows. `GivenUp`
(reconcile): infrastructure failures, sentinels, the comment of the deadlock
exit and a completed status without a session wait for a person, by design.
`i \notin Newest(...)` and `Mirror(i) # {About[i]}` (reconcile): the issue is
beyond the page, or the search has another hit (findings 17 and 18).
`lasting` (health): what held at every moment of the job; see finding 19.
`lost` (CI): a process was killed where only it would still start the fallback
(`Exposed` lists the places). `garbled` (CI): two writers overlapped in the
rewritten file, after an unlink of the fingerprint lock; the watchdog skips such a
file for ever. `broken` and `torn` (sync): a lock older than 10 s was broken, a
process died between two patches or a patch failed. `raced` and `cut` (patterns):
a job wrote over what another had written since, or died between truncation and
write. `touched` and `hurt` (scanner): a user, Linear or an unanswered call
opened the issue after the listing; the creation failed. `Starved` (scanner):
see finding 8. `Shadowed` and `raised` (daily audit): a later record of the same
name; a check that raised, an inventory or index that could not be read.
`appeared` and a filter of P0 (layout): the audit could
not have seen, or did not report, what the plan acts on. So `ResolutionSurvives`
and `PlanIsSafe` do not catch the race and the staleness of their hazards: there
the code is wrong, and they say that nothing else is.

## 4. Proofs

TLAPS checks 32 theorems; each holds for all constants that satisfy the
module's named assumptions. With them every safety property of a passing run, invariants
and action properties alike, is a theorem; its liveness properties are not.

* **`TriggerLocksProofs`.** `TypeCorrect`; with `HygieneDryRun`,
  `OneDroidPerTeamHolds` and `SerialExecutorImplemented`; without any such
  assumption, `MetaNamesHolderHolds` and `TurnedAwayByAHolderHolds`.
  `OneDroidPerTeam` is not inductive: it speaks of droids, while the code
  excludes holders. `TeamInv` adds that the team lock file keeps its inode
  (false once hygiene unlinks it, hence the assumption), that every descriptor
  201 refers to that inode, that whatever may start a droid holds the lock, and
  that holders are unique. The refinement maps each step to a step of
  `SerialExecutor` or a stutter from the same invariant. For the metadata,
  `FileInv` says that inodes are not shared and never come back, and `LineInv`
  that only a trigger that took the issue's lock has lines, only in that issue's file.
* **`SessionStatusProofs`.** `IInv` is `TypeInv /\ (Undisturbed => Calm)`: while
  nothing is disturbed, the running loop is the tracked one (`LoopCalm`), an
  open temporary file has one writer (`TmpCalm`), and what is published parses
  and is not terminal under a live heartbeat (`FileCalm`). From it:
  `NoTornStatusHolds`, `CurrentIsRepairedHolds`,
  `UndisturbedTerminalIsFinalHolds`; `StatusNeverVanishesHolds` needs types
  only.
* **`ReconcileProofs`.** `Guarded` carries what was tested to where it is
  used: at the close the comment of this sweep was made, if the pull request is
  still the one it began with; at the cancellation the issue is not
  frozen, and a frozen issue keeps its marker. From it
  `SweeperNeverSilentHolds` and `InfraFrozenNeverCancelledHolds`.
* **`CiNotifyProofs`.** `TruncatedIsBeingWritten` is inductive relative to
  `TypeOK`: a writer flushes a text it has read before, and a killed writer is
  exposed. `CiTypeCorrect` and `TruncatedIsBeingWrittenHolds`.
* **`EvolutionScannerProofs`.** `IssuesCloseOnEvidence`: the scanner closes on
  evidence for every set of findings, every grace period and any number of
  faults, kills and lost histories. The invariant `ScanInv` says, besides shapes
  (`TickShape`, `HistShape`, `IssueShape`, `VisitShape`): in the cache a key
  absent from the last n snapshots has been unseen for at least n saved ticks
  (`Saved`), the running tick's history is the cache with the tick appended once
  it is recorded (`Restored`), and an orphan judged ready is not linked or
  protected (`Ready`). `AbsentLemma` relates absence before and after a snapshot
  is appended and the list is cut to `SnapshotLimit`.
  `ScannerTypes`: the work list of a tick is a selection of what the tools
  reported, the pools' order included, so every list that `main` goes over holds
  keys only. `CommentsPostedOnce`: a comment that is repeated costs a fault.
  `GhostsNeedFailure` rests on `WorkInv`, which follows each finding from
  `Observe` to the drift watch: before the comparison nothing was lost
  (`InFetch`); after it a finding is on the work list, has a recent issue, or is
  the daily audit's own (`Compared`); what left the list has an outcome: issue,
  reopen limit, failure (`Handled`); and a tick that goes on has an empty list
  (`Over`). Without `Compared` the statement is not inductive: it speaks of the end
  of a tick, while findings go missing at its beginning. `IssuesAreNew` rests on
  `Untracked`: the rest of the list holds no key twice, and none that has
  an open issue the listing did not show, but for the ones touched since. This one
  needs `OneFindingPerKey`, that a tick's findings have different keys, which
  `dedup_intra_tick` ensures (`evolution_utils.py:149-165`, called at
  `evolution_scanner.py:1310-1312`): the comparison with the issues
  (`:473-475`) alone would give a key reported twice two issues.
* **`ListProofs`.** What a loop computes for every input is an induction over the
  list, which the library states for operators, where no installed prover can use
  it. These lemmas speak of sets and functions instead. `LeastNatural` (the order
  of the numbers is well-founded) gives `InductionUpTo`: a set that has 0 and with
  n - 1 also n has every number up to N; and `RecursionUpTo`: a function with
  given successive values exists. Hence `SelectLemma` (a selection holds what it
  should, nothing twice), `FoldLemma` (a loop keeps an invariant that may depend on
  how far it is), and what a list of lists holds when it or one of its lists grows.
* **`DroidReviewProofs`.** `ShardsAreAPartition`: for any files, directories and
  `MaxFiles`, the plan holds every changed file once, no shard is too long, no two
  fit into one. One loop invariant per loop: after n files of a directory exactly
  those are in chunks (`CutLemma`); after n files of the pull request those are,
  and directories are in or out as a whole (`Closed`), so that the next one is
  disjoint (`ChunksLemma`); after n chunks their files are in bins of which no two
  fit into one (`Tight`), since a chunk opens a bin only when it fits nowhere and
  bins only grow (`PackLemma`). `NoFindingVanishes`: `FindingsInv` says that a
  finding the inline loop has reached has a comment on its line or counts as
  failed, and that a summary that details fewer of a shard's findings than there
  are has as many as it may; two finite sets of one size, one in the other, are
  equal.
* **`EngineProofs`, heartbeat.** `HealthTypes`, and `AlertsCloseOnRecovery`: a
  heartbeat that closes alerts once saw a fresh run, or had one accepted, or saw
  nothing uncovered, so that the anomaly has not lasted (`Knows`). Nothing is
  assumed of what issues and pull requests do during the job, and a run may grow
  stale; only from stale to severely stale, which takes hours, it does not pass within one.
* **`EngineProofs`, version sync.** `SyncTypes`, `OneWriter`, `SyncFilesAgree`,
  `SyncNeverDowngraded`. `Exclusive` (the one in the critical section owns the
  lock, until a stale lock is broken) makes what was gated still true when it is
  written (`Gated`), and `Patching` says which files carry the target at each step.
* **`EngineProofs`, error patterns.** `PatTypes` and `ResolutionsSurvive`, for any number of
  jobs: until two of them race or one is cut off, what a job will write carries
  every resolution it read (`Carries`), and the registry holds those reported
  (`Held`).
* **`EngineProofs`, layout audit.** `PlansAreSafe`, however often the tree is
  edited: outside `appeared` the findings are those of the tree that the filter
  lets through (`LayoutReported`), and a plan is the one that its findings and the
  second look give.
* **`EngineProofs`, daily audit.** `ExitIsTruthful`, for any lists of projects,
  servers and databases in which names may collide and checks may raise. The
  records are a map by name: `AuditRecords` says that the last subject of a name
  among those done has its violations recorded, unless its check raised;
  `BrokenIsCritical` that what the property calls broken is a critical violation of
  the check; `ExitCounts` that code 0 means none is recorded.

Only model-checked: every liveness property (`EveryTriggerSettles`,
`HeartbeatsDrain`, `EventuallyConsistent`, `MirrorFollows`,
`RegistrationIsSettled`, `PendingDrains`, `EventuallyTracked`, `EventuallyQuiet`,
`MutualHealing`, `DeadTicksReported`), since fairness and ENABLED are out of the prover's
reach. No module uses RECURSIVE operators.

**Assumptions of the models.** A process id is not reused by an unrelated process.
No session lives as long as hygiene's seven days. One whitelisted team. flock is
released exactly when the last descriptor of an open file is closed; rename and
unlink are atomic; a write reaches the file at close. Linear and GitHub answer
from one state, apart from the modelled failures. GitHub lists a changed file
once (`PathOrder`). `CiNotify` registers its pull
request once, and its `cwd` leads to a repository: otherwise every query of the
watchdog would fail, and the file would stay. The listing of the scanner shows
every open issue: the code asks for 200 open and 100 closed ones
(`evolution_scanner.py:436-437`), and with more a finding whose issue is beyond
the limit would get another one.

## 5. Findings and hazards

Six runs show a violation of what the repository's own comments say:

1. Hygiene unlinks the team lock, whose mtime nothing refreshes, under its holder
   (`webhook-hygiene.sh:93` against `trigger-droid.sh:898`). Only with `DRY_RUN=0`.
2. An issue refused by the team lock after the holder's last look at the queue is
   not processed (`trigger-droid.sh:822`, `:1323`).
3. The python child of a stopped heartbeat puts "running" over a terminal status
   (`trigger-droid.sh:1202`).
4. A failing `gh` counts as a closed mirror, and the issue is cancelled
   (`reconcile-evolution.sh:656`).
5. An issue whose delivery was lost has no status file, is never triggered, and
   is cancelled in the end (`reconcile-evolution.sh:1250` against its header).
6. The lock file that is kept "for 60 minutes against repeated triggers" is never
   tested for existence (`trigger-ci-droid.sh:1164`).

What follows has no run of its own; the models contain it, and the properties
are stated with the exception it forces.

7. The scanner's history and its heartbeat marker are in the Actions cache, which
   a failing job does not save. A red exit therefore also loses the marker that
   `evolution_scanner.py:1659-1661` writes "BEFORE P1-2/P2-A hard-exit checks so
   the marker is always written".
8. The slice `findings[:quota]` (`evolution_scanner.py:742`) is taken before
   findings that have an issue are skipped: regressions in front of it can keep
   another from ever getting an issue.
9. A reopened closed issue may be older than one that is open, and a reopening
   whose answer is lost is followed by a creation: two open issues for a finding
   (`evolution_scanner.py:540-681`).
10. Absences count ticks in which the tool had failed (`evolution_utils.py:295-341`),
    and a suppressed finding counts as absent: it is closed, and comes back as a
    critical regression when the suppression expires.
11. `gh pr list` failing reads as "no pull request" in the heartbeat
    (`evolution_heartbeat.py:200-207`).
12. A process that dies between two patches leaves files that later syncs call
    "already up-to-date" (`version_sync.py:510-513`), since only ownership.toml is
    compared.
13. `error_patterns.py:398-412` rewrites the registry in place and without a lock,
    and `run_pipeline` swallows a failed write (`:735-739`).
14. When a review posts no summary (one exists, or the call fails), findings beyond
    the batch of inline comments are shown nowhere; neither are they when some
    inline comments failed (`publish_findings.py:408-420`).
15. Projects or servers of one name replace each other's record, an exception
    of the infrastructure checks is swallowed, and an index of projects that is
    missing or cannot be parsed counts as one without projects, so a critical violation may leave
    the exit code at 0 (`daily_audit.py:2085-2106`, `:1536-1570`, `:292-299` and
    `:2118-2135`); a disk check
    written as a plain path matches no mount point (`:1455-1462`).
16. The lists of what to back up and to commit together name the kind
    "legacy_memory", which no check reports; the adopted `memory/` is not backed up
    (`layout_audit.py:1057-1077`). Of the manual decisions only two kinds ask for
    confirmation (`:1024-1043` says "any"). A report that the filter P0 hid is
    listed again as an unknown Markdown file (`:1231-1236`).
17. Settled issues never leave the query of step 4b, which asks for the 50 newest
    by creation (`reconcile-evolution.sh:343-344`): the mirror of an issue that
    settles when 50 newer ones have is never closed. The other queries have the same limit: open
    issues beyond the 50 newest are not visited (`:288-289`), mirrors beyond 50
    are not compared (`:424`), and a mirror without linkback whose Linear issue
    is off the page looks unknown to GAP-A.
18. Step 4b takes the first hit of a search (`:384`). When that is another mirror,
    which names the issue in its text, its anchor disagrees (`:399-407`) and the
    issue's own mirror is left open, at every tick.
19. The heartbeat asks about the ten newest issues only
    (`evolution_heartbeat.py:27`, `:153-154`): an alert closes when the issue
    without pull request has merely been followed by ten newer ones. It also closes
    when the anomaly returned after the check, which the next heartbeat reports anew.

`PROJECT.json` lists the hazards at their lines with the properties that cover
them; those without one carry the reason. Smaller ones that it leaves out, all in
scripts a module already models or the release scripts: the counter of blocked
ticks is never reset (`reconcile-evolution.sh:1096`), issues are cancelled on the
state of the start of a tick (`:754`), a completed status without session id is
skipped for ever (`:1046`), a red pull request waits while an old lock file exists
(`:84`), field 2 of a two-line lock file (`:810`), the POST repeated after a
timeout (`trigger-ci-droid.sh:1015`), hygiene archiving what it read before
(`webhook-hygiene.sh:182`), more than 20 releases between two polls
(`poll-releases.sh:135`), the lock truncated by a late process
(`trigger-error-droid.sh:148`).

## 6. Not modelled, and what is left

Of the engine: report-only ticks, rule packs, proposals for suppress.json, expiry
of notification issues, the text handling of the adapters; the checks of the
self-audit other than the marker, which read files and APIs and report; anchors;
the shell around a shard's droid. Of the memory pack: `hygiene.py`, `pack.py`,
`ownership_reader.py`, which read and register. `governance.py`, `cli.py`, the
substrate gates and the repository guards are patterns over text without state.
Worth adding, in this order:

1. The release announcement (`poll-releases.sh`, `trigger-release.sh`): hook and
   poll over one tag, a crash between lock and dispatch.
2. `CiNotify` with a second registration, a count of fallbacks and the scanner's
   second result.
3. Gate A of `trigger-droid.sh` (348-617), with overrides and circuit breaker.
4. The composition of `Reconcile` and `TriggerLocks`, under an abstract pipeline
   ("every finding is tried, one at a time").
5. `branch_cleanup*.sh` and `auto_merge_triage.sh` against a moving repository.
