------------------------------ MODULE TriggerLocks ------------------------------
(***************************************************************************)
(* The locking protocol of webhook-scripts/trigger-droid.sh.               *)
(*                                                                         *)
(* Every Linear webhook starts one trigger process.  It looks at the lock  *)
(* file of its issue (M2, advisory), takes flock on it (M1, descriptor     *)
(* 200), takes flock on the lock file of the team (descriptor 201), forks  *)
(* a session in the background and exits.  The session runs the droid of   *)
(* the issue under a heartbeat loop and then works through the issues that *)
(* Linear still has queued.  Both descriptors are inherited by the session *)
(* and by everything the session starts, so a lock is released only when   *)
(* the last of those processes has gone.  webhook-hygiene.sh may meanwhile *)
(* unlink lock files by age.                                               *)
(*                                                                         *)
(* An inode is a number, 0 is "no file"; a lock file is reached by path    *)
(* (M2, the metadata write, hygiene) or by descriptor (flock, the second   *)
(* metadata line), and after an unlink the two may differ.  A process id   *)
(* is never reused by an unrelated process.                                *)
(***************************************************************************)
EXTENDS Naturals, Sequences

CONSTANTS
    Triggers,       \* webhook deliveries, one main process each
    Issues,         \* Linear issues of the (single whitelisted) team
    IssueOf,        \* the issue each delivery is about
    TeamLock,       \* stands for l2d-team-INFRA.lock
    None,           \* no issue
    HygieneDryRun,  \* DRY_RUN of webhook-hygiene.sh (its default is 1)
    MaxInode,       \* bound on the lock files ever created
    MaxFaults,      \* bound on failed calls of the Linear API
    MaxCrashes      \* bound on kills and reboots

ASSUME ConstAssumption ==
    /\ IssueOf \in [Triggers -> Issues]
    /\ TeamLock \notin Issues
    /\ None \notin Issues
    /\ HygieneDryRun \in BOOLEAN
    /\ MaxInode \in Nat
    /\ MaxFaults \in Nat
    /\ MaxCrashes \in Nat

VARIABLES
    \* --- the main process of each trigger
    pc,       \* where it is, or how it ended
    fd200,    \* inode behind descriptor 200 (lock file of the issue)
    fd201,    \* inode behind descriptor 201 (lock file of the team)
    held,     \* descriptors on which flock succeeded
    \* --- the background session it forked
    sess,     \* where the session is
    kids,     \* its children that are alive
    job,      \* the issue it is processing (_CURRENT_PROCESSING_REF)
    last,     \* _last_picked_uuid
    \* --- the lock directory
    path,     \* lock file -> inode
    lines,    \* inode -> the "timestamp:pid" lines in the file
    old,      \* inodes whose mtime is more than seven days back
    nextIno,
    \* --- Linear
    linear,   \* state of each issue
    tried,    \* issues process_one_issue was called for
    \* --- bounds
    faults, crashes

mainVars == <<pc, fd200, fd201, held>>
sessVars == <<sess, kids, job, last>>
fileVars == <<path, lines, old, nextIno>>
envVars  == <<linear, tried, faults, crashes>>
vars     == <<mainVars, sessVars, fileVars, envVars>>

---------------------------------------------------------------------------
Locks  == Issues \cup {TeamLock}
Inodes == 1 .. MaxInode
Line   == [by : Triggers, pid : {"main", "shell"}]

Working == {"check", "truncate", "openIssue", "flockIssue", "meta",
            "openTeam", "flockTeam", "dispatch", "post"}
\* "skipped": turned away by the issue lock; "queued": by the team lock.
Ended   == {"skipped", "queued", "unrouted", "spawned", "dead"}
SessPC  == {"none", "start", "exec", "run", "reexec", "rerun", "finish",
            "chain", "ended"}
\* "beat": the loop behind HEARTBEAT_PID; "stray": a heartbeat process the
\* session no longer tracks; "droid": droid exec under with_timeout.
Kids    == {"beat", "stray", "droid"}

MainUp(t) == pc[t] \in Working
SessUp(t) == sess[t] \notin {"none", "ended"}
\* Some process that has the trigger's descriptors open.
Live(t)   == MainUp(t) \/ SessUp(t) \/ kids[t] # {}

HoldsIssue(t) == Live(t) /\ "issue" \in held[t]
HoldsTeam(t)  == Live(t) /\ "team" \in held[t]

\* Fault: the process id is not probed, a leftover line counts as a holder.
PidUpUnchecked(line) == line.by \in Triggers

\* kill -0 on the process id of a metadata line.
PidUp(line) == IF line.pid = "main" THEN MainUp(line.by) ELSE SessUp(line.by)

Init ==
    /\ pc = [t \in Triggers |-> "idle"]
    /\ fd200 = [t \in Triggers |-> 0]
    /\ fd201 = [t \in Triggers |-> 0]
    /\ held = [t \in Triggers |-> {}]
    /\ sess = [t \in Triggers |-> "none"]
    /\ kids = [t \in Triggers |-> {}]
    /\ job = [t \in Triggers |-> None]
    /\ last = [t \in Triggers |-> None]
    /\ path = [l \in Locks |-> 0]
    /\ lines = [n \in Inodes |-> <<>>]
    /\ old = {}
    /\ nextIno = 1
    /\ linear = [i \in Issues |-> "none"]
    /\ tried = {}
    /\ faults = 0
    /\ crashes = 0

---------------------------------------------------------------------------
(* File operations.                                                        *)

\* The inode open(2) with O_CREAT returns for lock file l.
Opened(l) == IF path[l] # 0 THEN path[l] ELSE nextIno

\* Opening l, created when it is absent.
Create(l) ==
    /\ path[l] = 0 => nextIno <= MaxInode
    /\ path' = [path EXCEPT ![l] = Opened(l)]
    /\ nextIno' = IF path[l] = 0 THEN nextIno + 1 ELSE nextIno

\* Opening l with truncation and writing content: the mtime is now.
Overwrite(l, content) ==
    /\ Create(l)
    /\ lines' = [lines EXCEPT ![Opened(l)] = content]
    /\ old' = old \ {Opened(l)}

\* Fault: descriptors closed on exec, so children do not keep the team lock.
FreeTeamCloexec(t) ==
    \A u \in Triggers \ {t} :
        (MainUp(u) \/ SessUp(u)) /\ "team" \in held[u] => fd201[u] # fd201[t]

\* flock -n on descriptor d of trigger t: no other trigger has it.
FreeIssue(t) == \A u \in Triggers \ {t} : HoldsIssue(u) => fd200[u] # fd200[t]
FreeTeam(t)  == \A u \in Triggers \ {t} : HoldsTeam(u) => fd201[u] # fd201[t]

---------------------------------------------------------------------------
(* The main process.                                                       *)

Goto(t, where) == pc' = [pc EXCEPT ![t] = where]

\* A user or the scanner creates the issue, delegated to the agent.
CreateIssue(i) ==
    /\ linear[i] = "none"
    /\ linear' = [linear EXCEPT ![i] = "todo"]
    /\ UNCHANGED <<mainVars, sessVars, fileVars, tried, faults, crashes>>

\* A webhook delivery that passed the guards above the lock section.
Start(t) ==
    /\ pc[t] = "idle"
    /\ linear[IssueOf[t]] # "none"
    /\ Goto(t, "check")
    /\ UNCHANGED <<fd200, fd201, held, sessVars, fileVars, envVars>>

\* M2.  Only a file of exactly one line parses as timestamp and pid; an
\* empty one, or one of two lines, is judged corrupt.
CheckLock(t) ==
    /\ pc[t] = "check"
    /\ LET ino == path[IssueOf[t]]
       IN  \/ ino = 0 /\ Goto(t, "openIssue")
           \/ /\ ino # 0
              /\ Len(lines[ino]) = 1
              /\ Goto(t, IF PidUp(lines[ino][1]) THEN "skipped" ELSE "openIssue")
           \/ /\ ino # 0
              /\ Len(lines[ino]) # 1
              /\ Goto(t, "truncate")
    /\ UNCHANGED <<fd200, fd201, held, sessVars, fileVars, envVars>>

Truncate(t) ==
    /\ pc[t] = "truncate"
    /\ Overwrite(IssueOf[t], <<>>)
    /\ Goto(t, "openIssue")
    /\ UNCHANGED <<fd200, fd201, held, sessVars, envVars>>

OpenIssue(t) ==
    /\ pc[t] = "openIssue"
    /\ Create(IssueOf[t])
    /\ fd200' = [fd200 EXCEPT ![t] = Opened(IssueOf[t])]
    /\ Goto(t, "flockIssue")
    /\ UNCHANGED <<fd201, held, sessVars, lines, old, envVars>>

\* Fault: the exit after a refused flock is missing.
FlockIssueNoExit(t) ==
    /\ pc[t] = "flockIssue"
    /\ held' = [held EXCEPT ![t] = IF FreeIssue(t) THEN @ \cup {"issue"} ELSE @]
    /\ Goto(t, "meta")
    /\ UNCHANGED <<fd200, fd201, sessVars, fileVars, envVars>>

FlockIssue(t) ==
    /\ pc[t] = "flockIssue"
    /\ \/ /\ FreeIssue(t)
          /\ held' = [held EXCEPT ![t] = @ \cup {"issue"}]
          /\ Goto(t, "meta")
       \/ /\ ~FreeIssue(t)
          /\ held' = held
          /\ Goto(t, "skipped")
    /\ UNCHANGED <<fd200, fd201, sessVars, fileVars, envVars>>

\* The metadata goes to the path, not to the descriptor.
WriteMeta(t) ==
    /\ pc[t] = "meta"
    /\ Overwrite(IssueOf[t], <<[by |-> t, pid |-> "main"]>>)
    /\ Goto(t, "openTeam")
    /\ UNCHANGED <<fd200, fd201, held, sessVars, envVars>>

OpenTeam(t) ==
    /\ pc[t] = "openTeam"
    /\ Create(TeamLock)
    /\ fd201' = [fd201 EXCEPT ![t] = Opened(TeamLock)]
    /\ Goto(t, "flockTeam")
    /\ UNCHANGED <<fd200, held, sessVars, lines, old, envVars>>

FlockTeam(t) ==
    /\ pc[t] = "flockTeam"
    /\ \/ /\ FreeTeam(t)
          /\ held' = [held EXCEPT ![t] = @ \cup {"team"}]
          /\ Goto(t, "dispatch")
       \/ /\ ~FreeTeam(t)
          /\ held' = held
          /\ Goto(t, "queued")
    /\ UNCHANGED <<fd200, fd201, sessVars, fileVars, envVars>>

\* Fault: the state of the issue never changes.
MoveToInProgressLost(i) == linear' = linear /\ faults' = faults

\* Fault: the issue is moved to a state the queue knows nothing of.
MoveToInProgressUnknown(i) ==
    linear' = [linear EXCEPT ![i] = "backlog"] /\ faults' = faults

\* linear_move_to_in_progress; a failure is logged and ignored.
MoveToInProgress(i) ==
    \/ /\ linear' = [linear EXCEPT ![i] = "started"]
       /\ faults' = faults
    \/ /\ faults < MaxFaults
       /\ faults' = faults + 1
       /\ linear' = linear

\* route_repo fails: the process ends, its locks with it.
Unrouted(t) ==
    /\ pc[t] = "dispatch"
    /\ MoveToInProgress(IssueOf[t])
    /\ Goto(t, "unrouted")
    /\ UNCHANGED <<fd200, fd201, held, sessVars, fileVars, tried, crashes>>

Spawn(t) ==
    /\ pc[t] = "dispatch"
    /\ MoveToInProgress(IssueOf[t])
    /\ Goto(t, "post")
    /\ sess' = [sess EXCEPT ![t] = "start"]
    /\ job' = [job EXCEPT ![t] = IssueOf[t]]
    /\ UNCHANGED <<fd200, fd201, held, kids, last, fileVars, tried, crashes>>

\* The second metadata line, appended through the descriptor; then exit 0.
PostMeta(t) ==
    /\ pc[t] = "post"
    /\ lines' = [lines EXCEPT ![fd200[t]] =
                    Append(@, [by |-> t, pid |-> "shell"])]
    /\ old' = old \ {fd200[t]}
    /\ Goto(t, "spawned")
    /\ UNCHANGED <<fd200, fd201, held, sessVars, path, nextIno, envVars>>

Main(t) ==
    \/ CheckLock(t) \/ Truncate(t) \/ OpenIssue(t) \/ FlockIssue(t)
    \/ WriteMeta(t) \/ OpenTeam(t) \/ FlockTeam(t) \/ Unrouted(t)
    \/ Spawn(t) \/ PostMeta(t)

---------------------------------------------------------------------------
(* The background session.                                                 *)

\* _start_heartbeat overwrites HEARTBEAT_PID: a loop an earlier issue left
\* running is from then on untracked.
HeartbeatStarted(t) ==
    IF "beat" \in kids[t] THEN kids[t] \cup {"stray"} ELSE kids[t] \cup {"beat"}

\* _stop_heartbeat kills and reaps the bash loop; the sleep or python child
\* the loop was waiting for is not killed.
HeartbeatStopped(t) ==
    IF "beat" \in kids[t]
    THEN {kids[t] \ {"beat"}, (kids[t] \ {"beat"}) \cup {"stray"}}
    ELSE {kids[t]}

\* process_one_issue: status file, heartbeat, route and cd succeed.
BeginIssue(t) ==
    /\ sess[t] = "start"
    /\ kids' = [kids EXCEPT ![t] = HeartbeatStarted(t)]
    /\ tried' = tried \cup {job[t]}
    /\ sess' = [sess EXCEPT ![t] = "exec"]
    /\ UNCHANGED <<mainVars, job, last, fileVars, linear, faults, crashes>>

\* process_one_issue returns 1 (no route, or cd fails): the heartbeat it
\* started is left running.
SkipIssue(t) ==
    /\ sess[t] = "start"
    /\ kids' = [kids EXCEPT ![t] = HeartbeatStarted(t)]
    /\ tried' = tried \cup {job[t]}
    /\ sess' = [sess EXCEPT ![t] = "chain"]
    /\ UNCHANGED <<mainVars, job, last, fileVars, linear, faults, crashes>>

LaunchDroid(t) ==
    /\ sess[t] \in {"exec", "reexec"}
    /\ sess' = [sess EXCEPT ![t] = IF @ = "exec" THEN "run" ELSE "rerun"]
    /\ kids' = [kids EXCEPT ![t] = @ \cup {"droid"}]
    /\ UNCHANGED <<mainVars, job, last, fileVars, envVars>>

\* droid exec returns, or with_timeout kills it after 3600 s.  A first run
\* that crashed without a session id is retried once.
DroidExit(t) ==
    /\ sess[t] \in {"run", "rerun"}
    /\ \E next \in IF sess[t] = "run" THEN {"reexec", "finish"} ELSE {"finish"} :
          sess' = [sess EXCEPT ![t] = next]
    /\ kids' = [kids EXCEPT ![t] = @ \ {"droid"}]
    /\ UNCHANGED <<mainVars, job, last, fileVars, envVars>>

\* Stop the heartbeat, write the terminal status, write back to Linear.
FinishIssue(t) ==
    /\ sess[t] = "finish"
    /\ \E alive \in HeartbeatStopped(t) : kids' = [kids EXCEPT ![t] = alive]
    /\ sess' = [sess EXCEPT ![t] = "chain"]
    /\ UNCHANGED <<mainVars, job, last, fileVars, envVars>>

Queue == {i \in Issues : linear[i] = "todo"}

\* linear_query_next_queued returned an issue other than the last one.
ChainPick(t) ==
    /\ sess[t] = "chain"
    /\ \E i \in Queue \ {last[t]} :
          /\ last' = [last EXCEPT ![t] = i]
          /\ job' = [job EXCEPT ![t] = i]
          /\ MoveToInProgress(i)
    /\ sess' = [sess EXCEPT ![t] = "start"]
    /\ UNCHANGED <<mainVars, kids, fileVars, tried, crashes>>

\* The loop breaks: empty queue, unchanged head of the queue, or a failed
\* query.  The EXIT trap stops a heartbeat that still runs.
ChainStop(t) ==
    /\ sess[t] = "chain"
    /\ \/ (Queue = {} \/ last[t] \in Queue) /\ faults' = faults
       \/ faults < MaxFaults /\ faults' = faults + 1
    /\ \E alive \in HeartbeatStopped(t) : kids' = [kids EXCEPT ![t] = alive]
    /\ sess' = [sess EXCEPT ![t] = "ended"]
    /\ UNCHANGED <<mainVars, job, last, fileVars, linear, tried, crashes>>

Session(t) ==
    \/ BeginIssue(t) \/ SkipIssue(t) \/ LaunchDroid(t) \/ DroidExit(t)
    \/ FinishIssue(t) \/ ChainPick(t) \/ ChainStop(t)

\* An untracked heartbeat process ends: a surviving sleep after at most
\* 30 s, a loop when it finds its parent dead.
StrayExit(t) ==
    /\ "stray" \in kids[t]
    /\ kids' = [kids EXCEPT ![t] = @ \ {"stray"}]
    /\ UNCHANGED <<mainVars, sess, job, last, fileVars, envVars>>

\* After a SIGKILL of the session the loop sees its parent dead, and the
\* droid ends by itself or by its timeout.
OrphanExit(t) ==
    /\ ~SessUp(t)
    /\ \E k \in {"beat", "droid"} \cap kids[t] :
          kids' = [kids EXCEPT ![t] = @ \ {k}]
    /\ UNCHANGED <<mainVars, sess, job, last, fileVars, envVars>>

---------------------------------------------------------------------------
(* Crashes, time and hygiene.                                              *)

Crash == crashes < MaxCrashes /\ crashes' = crashes + 1

KillMain(t) ==
    /\ Crash
    /\ MainUp(t)
    /\ Goto(t, "dead")
    /\ UNCHANGED <<fd200, fd201, held, sessVars, fileVars, linear, tried, faults>>

\* SIGKILL of the session: no EXIT trap runs and its children live on.
KillSession(t) ==
    /\ Crash
    /\ SessUp(t)
    /\ sess' = [sess EXCEPT ![t] = "ended"]
    /\ UNCHANGED <<mainVars, kids, job, last, fileVars, linear, tried, faults>>

Reboot ==
    /\ Crash
    /\ \E t \in Triggers : Live(t)
    /\ pc' = [t \in Triggers |-> IF MainUp(t) THEN "dead" ELSE pc[t]]
    /\ sess' = [t \in Triggers |-> IF SessUp(t) THEN "ended" ELSE sess[t]]
    /\ kids' = [t \in Triggers |-> {}]
    /\ UNCHANGED <<fd200, fd201, held, job, last, fileVars, linear, tried, faults>>

\* Seven days pass.  No session lasts that long, so this happens only while
\* nothing runs; in a dry run the age of a file makes no difference.
Age ==
    /\ ~HygieneDryRun
    /\ \A t \in Triggers : ~Live(t)
    /\ old # 1 .. (nextIno - 1)
    /\ old' = 1 .. (nextIno - 1)
    /\ UNCHANGED <<mainVars, sessVars, path, lines, nextIno, envVars>>

\* webhook-hygiene.sh, Phase 1, one l2d-*.lock file.
HygieneReap(l) ==
    /\ ~HygieneDryRun
    /\ path[l] # 0 /\ path[l] \in old
    /\ path' = [path EXCEPT ![l] = 0]
    /\ UNCHANGED <<mainVars, sessVars, lines, old, nextIno, envVars>>

---------------------------------------------------------------------------
Next ==
    \/ \E i \in Issues : CreateIssue(i)
    \/ \E t \in Triggers :
          \/ Start(t) \/ Main(t) \/ Session(t) \/ StrayExit(t) \/ OrphanExit(t)
          \/ KillMain(t) \/ KillSession(t)
    \/ Reboot
    \/ Age
    \/ \E l \in Locks : HygieneReap(l)

Spec == Init /\ [][Next]_vars

\* The operating system schedules every live process; with_timeout bounds a
\* droid and the heartbeat's own checks bound its processes.
Fairness ==
    \A t \in Triggers :
        /\ WF_vars(Main(t))
        /\ WF_vars(Session(t))
        /\ WF_vars(StrayExit(t))
        /\ WF_vars(OrphanExit(t))

FairSpec == Spec /\ Fairness

---------------------------------------------------------------------------
(* Properties.                                                             *)

TypeOK ==
    /\ pc \in [Triggers -> {"idle"} \cup Working \cup Ended]
    /\ fd200 \in [Triggers -> {0} \cup Inodes]
    /\ fd201 \in [Triggers -> {0} \cup Inodes]
    /\ held \in [Triggers -> SUBSET {"issue", "team"}]
    /\ sess \in [Triggers -> SessPC]
    /\ kids \in [Triggers -> SUBSET Kids]
    /\ job \in [Triggers -> Issues \cup {None}]
    /\ last \in [Triggers -> Issues \cup {None}]
    /\ path \in [Locks -> {0} \cup Inodes]
    /\ lines \in [Inodes -> Seq(Line)]
    /\ old \subseteq Inodes
    /\ nextIno \in 1 .. MaxInode + 1
    /\ linear \in [Issues -> {"none", "todo", "started"}]
    /\ tried \subseteq Issues
    /\ faults \in 0 .. MaxFaults
    /\ crashes \in 0 .. MaxCrashes

\* Per-team serialization (trigger-droid.sh:810-826): droids of two triggers
\* never run at the same time, not even when one of them has outlived the
\* killed session that started it, or works on an issue picked from the queue.
OneDroidPerTeam ==
    \A t, u \in Triggers : "droid" \in kids[t] /\ "droid" \in kids[u] => t = u

\* The advice M2 takes from a lock file is sound (trigger-droid.sh:756-798): a
\* live process named by the only line of the file of an issue belongs to a
\* trigger of that issue that has the lock.
MetaNamesHolder ==
    \A i \in Issues :
        LET ino == path[i]
        IN  (ino # 0 /\ Len(lines[ino]) = 1 /\ PidUp(lines[ino][1]))
            => LET t == lines[ino][1].by
               IN  IssueOf[t] = i /\ HoldsIssue(t)

\* A delivery is turned away (trigger-droid.sh:788, :802, :821) only while
\* another trigger holds the lock it was refused, so a refusal never loses
\* the only trigger of an issue to a leftover file.
TurnedAwayByAHolder ==
    [][\A t \in Triggers :
         /\ pc[t] # "skipped" /\ pc'[t] = "skipped"
              => \E u \in Triggers \ {t} : HoldsIssue(u) /\ IssueOf[u] = IssueOf[t]
         /\ pc[t] # "queued" /\ pc'[t] = "queued"
              => \E u \in Triggers \ {t} : HoldsTeam(u)]_vars

\* Nothing of a trigger stays behind for ever (main process, session, droid,
\* heartbeat), so both locks always become free again.
EveryTriggerSettles == \A t \in Triggers : Live(t) ~> ~Live(t)

\* The phases SerialExecutor speaks of.
Phase == [t \in Triggers |->
            IF "droid" \in kids[t] THEN "running"
            ELSE IF HoldsTeam(t) THEN "owner" ELSE "idle"]

Executor == INSTANCE SerialExecutor WITH phase <- Phase

\* The locking protocol implements the serial executor.
ImplementsSerialExecutor == Executor!Spec

\* trigger-droid.sh:822 "Issue queued in Linear" and :1321-1323 "repeat until
\* queue is empty": an issue whose delivery the team lock refused is
\* processed in the end.
QueuedIssueIsTried ==
    \A t \in Triggers : pc[t] = "queued" ~> IssueOf[t] \in tried
================================================================================
