--------------------------- MODULE TriggerLocksProofs ---------------------------
(***************************************************************************)
(* Proofs about the locking protocol of trigger-droid.sh, for any number   *)
(* of deliveries, issues, faults and crashes.                              *)
(***************************************************************************)
EXTENDS TriggerLocks, TLAPS

---------------------------------------------------------------------------
(* Types.                                                                  *)

\* Opening a lock file, created or not, yields an inode and keeps the types
\* of the directory.
LEMMA CreateType ==
  ASSUME TypeOK, NEW l \in Locks, Create(l)
  PROVE  /\ Opened(l) \in Inodes
         /\ path' \in [Locks -> {0} \cup Inodes]
         /\ nextIno' \in 1 .. MaxInode + 1
  BY ConstAssumption DEF TypeOK, Create, Opened, Inodes

LEMMA LocksContain == TeamLock \in Locks /\ \A t \in Triggers : IssueOf[t] \in Locks
  BY ConstAssumption DEF Locks

\* The two metadata lines of a trigger.
LEMMA LineType ==
  \A t \in Triggers : /\ [by |-> t, pid |-> "main"] \in Line
                      /\ [by |-> t, pid |-> "shell"] \in Line
  BY DEF Line

\* Taking a lock and changing the set of children keep their types.
LEMMA HeldType ==
  ASSUME TypeOK, NEW t \in Triggers, NEW d \in {"issue", "team"}
  PROVE  [held EXCEPT ![t] = held[t] \cup {d}] \in [Triggers -> SUBSET {"issue", "team"}]
  <1>1. held[t] \cup {d} \in SUBSET {"issue", "team"}
    BY DEF TypeOK
  <1> QED
    BY <1>1 DEF TypeOK

LEMMA KidsType ==
  ASSUME TypeOK, NEW t \in Triggers, NEW K \in SUBSET Kids
  PROVE  [kids EXCEPT ![t] = K] \in [Triggers -> SUBSET Kids]
  BY DEF TypeOK

LEMMA HeartbeatType ==
  ASSUME TypeOK, NEW t \in Triggers
  PROVE  /\ HeartbeatStarted(t) \in SUBSET Kids
         /\ \A alive \in HeartbeatStopped(t) : alive \in SUBSET Kids
  <1>1. kids[t] \in SUBSET Kids
    BY DEF TypeOK
  <1> QED
    BY <1>1 DEF HeartbeatStarted, HeartbeatStopped, Kids

\* A call of the Linear API keeps the types of Linear and of the budget.
LEMMA MoveType ==
  ASSUME TypeOK, NEW i \in Issues, MoveToInProgress(i)
  PROVE  /\ linear' \in [Issues -> {"none", "todo", "started"}]
         /\ faults' \in 0 .. MaxFaults
  BY ConstAssumption DEF MoveToInProgress, TypeOK

\* Replacing the content of one file keeps the type of all files.
LEMMA OverwriteType ==
  ASSUME TypeOK, NEW l \in Locks, NEW content \in Seq(Line), Overwrite(l, content)
  PROVE  /\ path' \in [Locks -> {0} \cup Inodes]
         /\ nextIno' \in 1 .. MaxInode + 1
         /\ lines' \in [Inodes -> Seq(Line)]
         /\ old' \subseteq Inodes
  <1>1. Create(l)
    BY DEF Overwrite
  <1>2. Opened(l) \in Inodes
    BY <1>1, CreateType
  <1>3. lines' \in [Inodes -> Seq(Line)] /\ old' \subseteq Inodes
    BY <1>2 DEF Overwrite, TypeOK
  <1> QED
    BY <1>1, <1>3, CreateType

\* A descriptor that holds the lock of an issue refers to an inode.
FdInv ==
    \A t \in Triggers :
        pc[t] \in {"flockIssue", "meta", "openTeam", "flockTeam", "dispatch", "post"}
            => fd200[t] \in Inodes

\* A session works on an issue.
JobInv == \A t \in Triggers : sess[t] # "none" => job[t] \in Issues

TypeInv == TypeOK /\ FdInv /\ JobInv

USE DEF TypeInv, mainVars, sessVars, fileVars, envVars

LEMMA TypeInit == Init => TypeInv
  BY ConstAssumption DEF Init, TypeOK, FdInv, JobInv, Working, Ended, SessPC, Kids, Inodes, Locks

LEMMA MainType ==
  ASSUME TypeInv, NEW t \in Triggers, Main(t)
  PROVE  TypeInv'
  <1> USE DEF Goto
  <1>1. CASE CheckLock(t)
    BY <1>1 DEF CheckLock, TypeOK, FdInv, JobInv, Working, Ended
  <1>2. CASE Truncate(t)
    <2>1. <<>> \in Seq(Line)
      OBVIOUS
    <2>2. Overwrite(IssueOf[t], <<>>) /\ IssueOf[t] \in Locks
      BY <1>2, LocksContain DEF Truncate
    <2>3. /\ path' \in [Locks -> {0} \cup Inodes]
          /\ nextIno' \in 1 .. MaxInode + 1
          /\ lines' \in [Inodes -> Seq(Line)]
          /\ old' \subseteq Inodes
      BY <2>1, <2>2, OverwriteType
    <2> QED
      BY <1>2, <2>3 DEF Truncate, TypeOK, FdInv, JobInv, Working, Ended
  <1>3. CASE OpenIssue(t)
    <2>1. Create(IssueOf[t]) /\ IssueOf[t] \in Locks
      BY <1>3, LocksContain DEF OpenIssue
    <2>2. /\ Opened(IssueOf[t]) \in Inodes
          /\ path' \in [Locks -> {0} \cup Inodes]
          /\ nextIno' \in 1 .. MaxInode + 1
      BY <2>1, CreateType
    <2> QED
      BY <1>3, <2>2 DEF OpenIssue, TypeOK, FdInv, JobInv, Working, Ended
  <1>4. CASE FlockIssue(t)
    <2>1. held' \in [Triggers -> SUBSET {"issue", "team"}]
      BY <1>4, HeldType DEF FlockIssue, TypeOK
    <2> QED
      BY <1>4, <2>1 DEF FlockIssue, TypeOK, FdInv, JobInv, Working, Ended
  <1>5. CASE WriteMeta(t)
    <2>1. <<[by |-> t, pid |-> "main"]>> \in Seq(Line)
      <3>1. [by |-> t, pid |-> "main"] \in Line
        BY LineType
      <3>2. \A e \in Line : <<e>> \in Seq(Line)
        OBVIOUS
      <3> QED
        BY <3>1, <3>2
    <2>2. /\ Overwrite(IssueOf[t], <<[by |-> t, pid |-> "main"]>>)
          /\ IssueOf[t] \in Locks
      BY <1>5, LocksContain DEF WriteMeta
    <2>3. /\ path' \in [Locks -> {0} \cup Inodes]
          /\ nextIno' \in 1 .. MaxInode + 1
          /\ lines' \in [Inodes -> Seq(Line)]
          /\ old' \subseteq Inodes
      BY <2>1, <2>2, OverwriteType
    <2> QED
      BY <1>5, <2>3 DEF WriteMeta, TypeOK, FdInv, JobInv, Working, Ended
  <1>6. CASE OpenTeam(t)
    <2>1. Create(TeamLock) /\ TeamLock \in Locks
      BY <1>6, LocksContain DEF OpenTeam
    <2>2. /\ Opened(TeamLock) \in Inodes
          /\ path' \in [Locks -> {0} \cup Inodes]
          /\ nextIno' \in 1 .. MaxInode + 1
      BY <2>1, CreateType
    <2> QED
      BY <1>6, <2>2 DEF OpenTeam, TypeOK, FdInv, JobInv, Working, Ended
  <1>7. CASE FlockTeam(t)
    <2>1. held' \in [Triggers -> SUBSET {"issue", "team"}]
      BY <1>7, HeldType DEF FlockTeam, TypeOK
    <2> QED
      BY <1>7, <2>1 DEF FlockTeam, TypeOK, FdInv, JobInv, Working, Ended
  <1>8. CASE Unrouted(t)
    <2>1. IssueOf[t] \in Issues
      BY ConstAssumption
    <2> QED
      BY <1>8, <2>1, MoveType DEF Unrouted, TypeOK, FdInv, JobInv, Working, Ended
  <1>9. CASE Spawn(t)
    <2>1. IssueOf[t] \in Issues
      BY ConstAssumption
    <2> QED
      BY <1>9, <2>1, MoveType DEF Spawn, TypeOK, FdInv, JobInv, Working, Ended, SessPC
  <1>10. CASE PostMeta(t)
    <2>1. fd200[t] \in Inodes
      BY <1>10 DEF PostMeta, FdInv
    <2>2. lines[fd200[t]] \in Seq(Line)
      BY <2>1 DEF TypeOK
    <2>3. Append(lines[fd200[t]], [by |-> t, pid |-> "shell"]) \in Seq(Line)
      <3>1. [by |-> t, pid |-> "shell"] \in Line
        BY LineType
      <3>2. \A s \in Seq(Line), e \in Line : Append(s, e) \in Seq(Line)
        OBVIOUS
      <3> QED
        BY <2>2, <3>1, <3>2
    <2>4. lines' \in [Inodes -> Seq(Line)]
      BY <1>10, <2>3 DEF PostMeta, TypeOK
    <2> QED
      BY <1>10, <2>4 DEF PostMeta, TypeOK, FdInv, JobInv, Working, Ended
  <1> QED
    BY <1>1, <1>2, <1>3, <1>4, <1>5, <1>6, <1>7, <1>8, <1>9, <1>10 DEF Main

LEMMA SessionType ==
  ASSUME TypeInv, NEW t \in Triggers, Session(t)
  PROVE  TypeInv'
  <1> FdInv'
    BY DEF Session, BeginIssue, SkipIssue, LaunchDroid, DroidExit, FinishIssue,
           ChainPick, ChainStop, FdInv
  <1>1. CASE BeginIssue(t)
    <2>1. kids' \in [Triggers -> SUBSET Kids]
      BY <1>1, KidsType, HeartbeatType DEF BeginIssue
    <2>2. job[t] \in Issues
      BY <1>1 DEF BeginIssue, JobInv
    <2> QED
      BY <1>1, <2>1, <2>2 DEF BeginIssue, TypeOK, JobInv, SessPC
  <1>2. CASE SkipIssue(t)
    <2>1. kids' \in [Triggers -> SUBSET Kids]
      BY <1>2, KidsType, HeartbeatType DEF SkipIssue
    <2>2. job[t] \in Issues
      BY <1>2 DEF SkipIssue, JobInv
    <2> QED
      BY <1>2, <2>1, <2>2 DEF SkipIssue, TypeOK, JobInv, SessPC
  <1>3. CASE LaunchDroid(t)
    BY <1>3 DEF LaunchDroid, TypeOK, JobInv, Kids, SessPC
  <1>4. CASE DroidExit(t)
    BY <1>4 DEF DroidExit, TypeOK, JobInv, Kids, SessPC
  <1>5. CASE FinishIssue(t)
    <2>1. kids' \in [Triggers -> SUBSET Kids]
      BY <1>5, KidsType, HeartbeatType DEF FinishIssue
    <2> QED
      BY <1>5, <2>1 DEF FinishIssue, TypeOK, JobInv, SessPC
  <1>6. CASE ChainPick(t)
    <2>1. PICK i \in Issues : /\ last' = [last EXCEPT ![t] = i]
                              /\ job' = [job EXCEPT ![t] = i]
                              /\ MoveToInProgress(i)
      BY <1>6 DEF ChainPick, Queue
    <2> QED
      BY <1>6, <2>1, MoveType DEF ChainPick, TypeOK, JobInv, SessPC
  <1>7. CASE ChainStop(t)
    <2>1. kids' \in [Triggers -> SUBSET Kids]
      BY <1>7, KidsType, HeartbeatType DEF ChainStop
    <2>2. faults' \in 0 .. MaxFaults
      BY <1>7, ConstAssumption DEF ChainStop, TypeOK
    <2> QED
      BY <1>7, <2>1, <2>2 DEF ChainStop, TypeOK, JobInv, SessPC
  <1> QED
    BY <1>1, <1>2, <1>3, <1>4, <1>5, <1>6, <1>7 DEF Session

LEMMA TypeStep == TypeInv /\ [Next]_vars => TypeInv'
  <1> SUFFICES ASSUME TypeInv, [Next]_vars
               PROVE  TypeInv'
    OBVIOUS
  <1>1. ASSUME NEW i \in Issues, CreateIssue(i) PROVE TypeInv'
    BY <1>1 DEF CreateIssue, TypeOK, FdInv, JobInv
  <1>2. ASSUME NEW t \in Triggers, Start(t) PROVE TypeInv'
    BY <1>2 DEF Start, Goto, TypeOK, FdInv, JobInv, Working
  <1>3. ASSUME NEW t \in Triggers, Main(t) PROVE TypeInv'
    BY <1>3, MainType
  <1>4. ASSUME NEW t \in Triggers, Session(t) PROVE TypeInv'
    BY <1>4, SessionType
  <1>5. ASSUME NEW t \in Triggers, StrayExit(t) \/ OrphanExit(t) PROVE TypeInv'
    BY <1>5 DEF StrayExit, OrphanExit, TypeOK, FdInv, JobInv
  <1>6. ASSUME NEW t \in Triggers, KillMain(t) \/ KillSession(t) PROVE TypeInv'
    <2>1. crashes' \in 0 .. MaxCrashes
      BY <1>6, ConstAssumption DEF KillMain, KillSession, Crash, TypeOK
    <2>2. CASE KillMain(t)
      BY <2>1, <2>2 DEF KillMain, Goto, TypeOK, FdInv, JobInv, Ended
    <2>3. CASE KillSession(t)
      BY <2>1, <2>3 DEF KillSession, SessUp, TypeOK, FdInv, JobInv, SessPC
    <2> QED
      BY <1>6, <2>2, <2>3
  <1>7. CASE Reboot
    <2>1. crashes' \in 0 .. MaxCrashes
      BY <1>7, ConstAssumption DEF Reboot, Crash, TypeOK
    <2>2. sess' \in [Triggers -> SessPC] /\ JobInv'
      BY <1>7 DEF Reboot, SessUp, TypeOK, JobInv, SessPC
    <2>3. pc' \in [Triggers -> {"idle"} \cup Working \cup Ended] /\ FdInv'
      BY <1>7 DEF Reboot, MainUp, TypeOK, FdInv, Ended
    <2> QED
      BY <1>7, <2>1, <2>2, <2>3 DEF Reboot, TypeOK
  <1>8. CASE Age
    BY <1>8, ConstAssumption DEF Age, TypeOK, FdInv, JobInv, Inodes
  <1>9. ASSUME NEW l \in Locks, HygieneReap(l) PROVE TypeInv'
    BY <1>9 DEF HygieneReap, TypeOK, FdInv, JobInv
  <1>10. CASE UNCHANGED vars
    BY <1>10 DEF vars, TypeOK, FdInv, JobInv
  <1> QED
    BY <1>1, <1>2, <1>3, <1>4, <1>5, <1>6, <1>7, <1>8, <1>9, <1>10 DEF Next

\* The type invariant holds in every reachable state.
THEOREM TypeCorrect == Spec => []TypeOK
  <1>1. Init => TypeInv
    BY TypeInit
  <1>2. TypeInv /\ [Next]_vars => TypeInv'
    BY TypeStep
  <1>3. TypeInv => TypeOK
    OBVIOUS
  <1> QED
    BY <1>1, <1>2, <1>3, PTL DEF Spec

---------------------------------------------------------------------------
(* The team lock.                                                          *)

BeforeTeam == {"idle", "check", "truncate", "openIssue", "flockIssue", "meta",
               "openTeam", "flockTeam"}

\* As long as hygiene only reports, the team lock file keeps its inode, so
\* every descriptor 201 refers to the same file and flock on it excludes; and
\* whatever may start or be a droid belongs to a session, whose trigger took
\* the lock before it forked the session.
TeamInv ==
    /\ \A t \in Triggers : pc[t] \in BeforeTeam => "team" \notin held[t]
    /\ \A t \in Triggers : pc[t] = "flockTeam" \/ "team" \in held[t]
            => path[TeamLock] # 0 /\ fd201[t] = path[TeamLock]
    /\ \A t \in Triggers : pc[t] \in {"dispatch", "post"} \/ sess[t] # "none"
            => "team" \in held[t]
    /\ \A t \in Triggers : kids[t] # {} => sess[t] # "none"
    /\ \A t, u \in Triggers : HoldsTeam(t) /\ HoldsTeam(u) => t = u

USE DEF TeamInv, HoldsTeam, Live, MainUp, SessUp

LEMMA TeamInit == Init => TeamInv
  BY DEF Init, BeforeTeam

LEMMA TeamMain ==
  ASSUME TypeInv, TeamInv, NEW t \in Triggers, Main(t)
  PROVE  TeamInv'
  <1> USE DEF Goto, TypeOK, BeforeTeam, Working, Ended
  <1>1. CASE CheckLock(t)
    BY <1>1 DEF CheckLock
  <1>2. CASE Truncate(t)
    BY <1>2, ConstAssumption, LocksContain DEF Truncate, Overwrite, Create, Opened
  <1>3. CASE OpenIssue(t)
    BY <1>3, ConstAssumption, LocksContain DEF OpenIssue, Create, Opened
  <1>4. CASE FlockIssue(t)
    BY <1>4 DEF FlockIssue
  <1>5. CASE WriteMeta(t)
    BY <1>5, ConstAssumption, LocksContain DEF WriteMeta, Overwrite, Create, Opened
  <1>6. CASE OpenTeam(t)
    BY <1>6, ConstAssumption, LocksContain DEF OpenTeam, Create, Opened
  <1>7. CASE FlockTeam(t)
    <2>1. CASE FreeTeam(t) /\ held' = [held EXCEPT ![t] = held[t] \cup {"team"}]
                          /\ Goto(t, "dispatch")
      <3>1. \A u \in Triggers \ {t} : ~HoldsTeam(u)
        BY <1>7, <2>1 DEF FlockTeam, FreeTeam
      <3>2. \A u \in Triggers \ {t} : held'[u] = held[u] /\ pc'[u] = pc[u]
        BY <2>1
      <3>3. \A u \in Triggers \ {t} : ~HoldsTeam(u)'
        BY <1>7, <3>1, <3>2 DEF FlockTeam
      <3>4. held'[t] = held[t] \cup {"team"} /\ pc'[t] = "dispatch"
        BY <2>1
      <3> QED
        BY <1>7, <3>2, <3>3, <3>4 DEF FlockTeam
    <2>2. CASE held' = held /\ Goto(t, "queued")
      BY <1>7, <2>2 DEF FlockTeam
    <2> QED
      BY <1>7, <2>1, <2>2 DEF FlockTeam
  <1>8. CASE Unrouted(t)
    BY <1>8 DEF Unrouted
  <1>9. CASE Spawn(t)
    BY <1>9 DEF Spawn
  <1>10. CASE PostMeta(t)
    BY <1>10 DEF PostMeta
  <1> QED
    BY <1>1, <1>2, <1>3, <1>4, <1>5, <1>6, <1>7, <1>8, <1>9, <1>10 DEF Main

LEMMA TeamSession ==
  ASSUME TypeInv, TeamInv, NEW t \in Triggers, Session(t)
  PROVE  TeamInv'
  <1> USE DEF TypeOK, BeforeTeam
  <1>1. CASE BeginIssue(t)
    BY <1>1 DEF BeginIssue, HeartbeatStarted
  <1>2. CASE SkipIssue(t)
    BY <1>2 DEF SkipIssue, HeartbeatStarted
  <1>3. CASE LaunchDroid(t)
    BY <1>3 DEF LaunchDroid
  <1>4. CASE DroidExit(t)
    BY <1>4 DEF DroidExit
  <1>5. CASE FinishIssue(t)
    BY <1>5 DEF FinishIssue, HeartbeatStopped
  <1>6. CASE ChainPick(t)
    BY <1>6 DEF ChainPick
  <1>7. CASE ChainStop(t)
    BY <1>7 DEF ChainStop, HeartbeatStopped
  <1> QED
    BY <1>1, <1>2, <1>3, <1>4, <1>5, <1>6, <1>7 DEF Session

LEMMA TeamStep ==
  ASSUME HygieneDryRun, TypeInv, TeamInv, [Next]_vars
  PROVE  TeamInv'
  <1> USE DEF TypeOK, BeforeTeam
  <1>1. ASSUME NEW i \in Issues, CreateIssue(i) PROVE TeamInv'
    BY <1>1 DEF CreateIssue
  <1>2. ASSUME NEW t \in Triggers, Start(t) PROVE TeamInv'
    BY <1>2 DEF Start, Goto, Working
  <1>3. ASSUME NEW t \in Triggers, Main(t) PROVE TeamInv'
    BY <1>3, TeamMain
  <1>4. ASSUME NEW t \in Triggers, Session(t) PROVE TeamInv'
    BY <1>4, TeamSession
  <1>5. ASSUME NEW t \in Triggers, StrayExit(t) \/ OrphanExit(t) PROVE TeamInv'
    BY <1>5 DEF StrayExit, OrphanExit
  <1>6. ASSUME NEW t \in Triggers, KillMain(t) PROVE TeamInv'
    BY <1>6 DEF KillMain, Goto, Working
  <1>7. ASSUME NEW t \in Triggers, KillSession(t) PROVE TeamInv'
    BY <1>7 DEF KillSession
  <1>8. CASE Reboot
    BY <1>8 DEF Reboot, Working
  <1>9. CASE Age
    BY <1>9 DEF Age
  <1>10. ASSUME NEW l \in Locks, HygieneReap(l) PROVE TeamInv'
    BY <1>10 DEF HygieneReap
  <1>11. CASE UNCHANGED vars
    BY <1>11 DEF vars
  <1> QED
    BY <1>1, <1>2, <1>3, <1>4, <1>5, <1>6, <1>7, <1>8, <1>9, <1>10, <1>11 DEF Next

\* While webhook-hygiene.sh runs in its default dry-run mode, droids of two
\* triggers never run at the same time.
THEOREM OneDroidPerTeamHolds ==
  ASSUME HygieneDryRun
  PROVE  Spec => []OneDroidPerTeam
  <1>1. Init => TypeInv /\ TeamInv
    BY TypeInit, TeamInit
  <1>2. TypeInv /\ TeamInv /\ [Next]_vars => TypeInv' /\ TeamInv'
    BY TypeStep, TeamStep
  <1>3. TypeInv /\ TeamInv => OneDroidPerTeam
    BY DEF OneDroidPerTeam
  <1> QED
    BY <1>1, <1>2, <1>3, PTL DEF Spec

---------------------------------------------------------------------------
(* Refinement of SerialExecutor.                                           *)

\* A step of one trigger leaves the phases of the others alone.
Alone(t) == \A u \in Triggers \ {t} :
                pc'[u] = pc[u] /\ held'[u] = held[u] /\ sess'[u] = sess[u] /\ kids'[u] = kids[u]

LEMMA PhaseValue ==
  /\ Phase \in [Triggers -> {"idle", "owner", "running"}]
  /\ \A t \in Triggers : Phase[t] = IF "droid" \in kids[t] THEN "running"
                                    ELSE IF HoldsTeam(t) THEN "owner" ELSE "idle"
  BY DEF Phase

\* A step of one trigger is one of the executor's as long as it starts a
\* droid only as the owner, and becomes the owner only when nobody is.
LEMMA OneTrigger ==
  ASSUME NEW t \in Triggers, Alone(t),
         "droid" \in kids'[t] => "droid" \in kids[t] \/ HoldsTeam(t),
         HoldsTeam(t)' => HoldsTeam(t) \/ \A u \in Triggers : Phase[u] = "idle"
  PROVE  Executor!Next \/ Phase' = Phase
  <1>1. \A u \in Triggers \ {t} : Phase'[u] = Phase[u]
    BY DEF Alone, Phase
  <1>2. Phase' = [Phase EXCEPT ![t] = Phase'[t]]
    BY <1>1 DEF Phase
  <1>3. Phase[t] \in {"idle", "owner", "running"} /\ Phase'[t] \in {"idle", "owner", "running"}
    BY DEF Phase
  <1>4. CASE Phase'[t] = Phase[t]
    BY <1>2, <1>4 DEF Phase
  <1>5. CASE Phase[t] = "idle" /\ Phase'[t] = "owner"
    <2>1. HoldsTeam(t)' /\ ~HoldsTeam(t)
      BY <1>5 DEF Phase
    <2>2. \A u \in Triggers : Phase[u] = "idle"
      BY <2>1
    <2>3. Executor!Acquire(t)
      BY <1>2, <1>5, <2>2 DEF Executor!Acquire
    <2> QED
      BY <2>3 DEF Executor!Next
  <1>6. CASE Phase[t] = "idle" /\ Phase'[t] = "running"
    BY <1>6 DEF Phase
  <1>7. CASE Phase[t] = "owner" /\ Phase'[t] = "running"
    BY <1>2, <1>7 DEF Executor!Next, Executor!Begin
  <1>8. CASE Phase[t] = "owner" /\ Phase'[t] = "idle"
    BY <1>2, <1>8 DEF Executor!Next, Executor!Release
  <1>9. CASE Phase[t] = "running" /\ Phase'[t] = "owner"
    BY <1>2, <1>9 DEF Executor!Next, Executor!Finish
  <1>10. CASE Phase[t] = "running" /\ Phase'[t] = "idle"
    BY <1>2, <1>10 DEF Executor!Next, Executor!FinishAndRelease
  <1> QED
    BY <1>3, <1>4, <1>5, <1>6, <1>7, <1>8, <1>9, <1>10

LEMMA PhaseInit == Init => Executor!Init
  BY DEF Init, Executor!Init, Phase

LEMMA PhaseMain ==
  ASSUME TypeInv, TeamInv, NEW t \in Triggers, Main(t)
  PROVE  Executor!Next \/ Phase' = Phase
  <1> USE DEF Goto, TypeOK, BeforeTeam, Working
  <1>1. Alone(t) /\ kids' = kids
    BY DEF Alone, Main, CheckLock, Truncate, OpenIssue, FlockIssue, WriteMeta,
           OpenTeam, FlockTeam, Unrouted, Spawn, PostMeta
  <1>2. CASE FlockTeam(t) /\ FreeTeam(t)
    <2>1. \A u \in Triggers \ {t} : ~HoldsTeam(u)
      BY <1>2 DEF FlockTeam, FreeTeam
    <2>2. ~HoldsTeam(t)
      BY <1>2 DEF FlockTeam
    <2>3. \A u \in Triggers : Phase[u] = "idle"
      BY <2>1, <2>2, PhaseValue
    <2> QED
      BY <1>1, <2>3, OneTrigger
  <1>3. CASE ~(FlockTeam(t) /\ FreeTeam(t))
    <2>1. HoldsTeam(t)' => HoldsTeam(t)
      BY <1>3 DEF Main, CheckLock, Truncate, OpenIssue, FlockIssue, WriteMeta,
                  OpenTeam, FlockTeam, Unrouted, Spawn, PostMeta
    <2> QED
      BY <1>1, <2>1, OneTrigger
  <1> QED
    BY <1>2, <1>3

LEMMA PhaseSession ==
  ASSUME TypeInv, TeamInv, NEW t \in Triggers, Session(t)
  PROVE  Executor!Next \/ Phase' = Phase
  <1> USE DEF TypeOK
  <1>1. SessUp(t) /\ HoldsTeam(t)
    BY DEF Session, BeginIssue, SkipIssue, LaunchDroid, DroidExit, FinishIssue,
           ChainPick, ChainStop
  <1>2. Alone(t)
    BY DEF Session, BeginIssue, SkipIssue, LaunchDroid, DroidExit, FinishIssue,
           ChainPick, ChainStop, Alone
  <1> QED
    BY <1>1, <1>2, OneTrigger

LEMMA PhaseStep ==
  ASSUME HygieneDryRun, TypeInv, TeamInv, [Next]_vars
  PROVE  Executor!Next \/ Phase' = Phase
  <1> USE DEF TypeOK
  <1>1. ASSUME NEW i \in Issues, CreateIssue(i) PROVE Phase' = Phase
    BY <1>1 DEF CreateIssue, Phase
  <1>2. ASSUME NEW t \in Triggers, Start(t) PROVE Executor!Next \/ Phase' = Phase
    <2>1. Alone(t) /\ kids' = kids /\ (HoldsTeam(t)' => HoldsTeam(t))
      BY <1>2 DEF Start, Goto, Alone, BeforeTeam, Working
    <2> QED
      BY <2>1, OneTrigger
  <1>3. ASSUME NEW t \in Triggers, Main(t) PROVE Executor!Next \/ Phase' = Phase
    BY <1>3, PhaseMain
  <1>4. ASSUME NEW t \in Triggers, Session(t) PROVE Executor!Next \/ Phase' = Phase
    BY <1>4, PhaseSession
  <1>5. ASSUME NEW t \in Triggers, StrayExit(t) \/ OrphanExit(t)
        PROVE  Executor!Next \/ Phase' = Phase
    <2>1. /\ Alone(t) /\ (HoldsTeam(t)' => HoldsTeam(t))
          /\ "droid" \in kids'[t] => "droid" \in kids[t]
      BY <1>5 DEF StrayExit, OrphanExit, Alone
    <2> QED
      BY <2>1, OneTrigger
  <1>6. ASSUME NEW t \in Triggers, KillMain(t) PROVE Executor!Next \/ Phase' = Phase
    <2>1. Alone(t) /\ kids' = kids /\ (HoldsTeam(t)' => HoldsTeam(t))
      BY <1>6 DEF KillMain, Goto, Alone, Working
    <2> QED
      BY <2>1, OneTrigger
  <1>7. ASSUME NEW t \in Triggers, KillSession(t) PROVE Executor!Next \/ Phase' = Phase
    <2>1. Alone(t) /\ kids' = kids /\ (HoldsTeam(t)' => HoldsTeam(t))
      BY <1>7 DEF KillSession, Alone
    <2> QED
      BY <2>1, OneTrigger
  <1>8. CASE Reboot
    <2>1. \A t \in Triggers : kids'[t] = {} /\ ~HoldsTeam(t)'
      BY <1>8 DEF Reboot, Working
    <2>2. Phase' = [t \in Triggers |-> "idle"]
      BY <2>1 DEF Phase
    <2> QED
      BY <2>2 DEF Executor!Next, Executor!PowerLoss
  <1>9. CASE Age
    BY <1>9 DEF Age, Phase
  <1>10. ASSUME NEW l \in Locks, HygieneReap(l) PROVE Phase' = Phase
    BY <1>10 DEF HygieneReap, Phase
  <1>11. CASE UNCHANGED vars
    BY <1>11 DEF vars, Phase
  <1> QED
    BY <1>1, <1>2, <1>3, <1>4, <1>5, <1>6, <1>7, <1>8, <1>9, <1>10, <1>11 DEF Next

\* While hygiene only reports, the locking protocol implements the serial
\* executor: the team is released only when the droid of its owner is gone.
THEOREM SerialExecutorImplemented ==
  ASSUME HygieneDryRun
  PROVE  Spec => ImplementsSerialExecutor
  <1>1. Init => Executor!Init
    BY PhaseInit
  <1>2. TypeInv /\ TeamInv /\ [Next]_vars => [Executor!Next]_Phase
    BY PhaseStep
  <1>3. Spec => [](TypeInv /\ TeamInv)
    <2>1. Init => TypeInv /\ TeamInv
      BY TypeInit, TeamInit
    <2>2. TypeInv /\ TeamInv /\ [Next]_vars => TypeInv' /\ TeamInv'
      BY TypeStep, TeamStep
    <2> QED
      BY <2>1, <2>2, PTL DEF Spec
  <1> QED
    BY <1>1, <1>2, <1>3, PTL DEF Spec, ImplementsSerialExecutor, Executor!Spec

---------------------------------------------------------------------------
(* The lock file of an issue and its metadata.                             *)

BeforeIssue == {"idle", "check", "truncate", "openIssue", "flockIssue"}

\* Inodes are not shared between lock files, an unlinked one never comes
\* back, and a descriptor 200 that is still linked is linked where its
\* trigger opened it.
FileInv ==
    /\ \A l \in Locks : path[l] < nextIno
    /\ \A l, m \in Locks : path[l] # 0 /\ path[l] = path[m] => l = m
    /\ \A t \in Triggers : fd200[t] < nextIno
    /\ \A t \in Triggers, l \in Locks : fd200[t] # 0 /\ fd200[t] = path[l] => l = IssueOf[t]
    /\ \A t, u \in Triggers : fd200[t] # 0 /\ fd200[t] = fd200[u] => IssueOf[t] = IssueOf[u]

\* Only a trigger that took the lock of its issue has lines, and only in
\* the file of that issue.
LineInv ==
    /\ \A t \in Triggers : (pc[t] \in BeforeIssue) => "issue" \notin held[t]
    /\ \A t \in Triggers : pc[t] \in {"meta", "openTeam", "flockTeam", "dispatch", "post"}
            => "issue" \in held[t]
    /\ \A n \in Inodes : n >= nextIno => Len(lines[n]) = 0
    /\ \A n \in Inodes : \A k \in 1 .. Len(lines[n]) : "issue" \in held[lines[n][k].by]
    /\ \A i \in Issues : path[i] # 0 =>
          \A k \in 1 .. Len(lines[path[i]]) : IssueOf[lines[path[i]][k].by] = i

LEMMA FileInit == Init => FileInv /\ LineInv
  BY ConstAssumption DEF Init, FileInv, LineInv, BeforeIssue, Locks

LEMMA InodeNumbers ==
  ASSUME TypeInv
  PROVE  /\ nextIno \in Nat \ {0}
         /\ \A l \in Locks : path[l] \in Nat
         /\ \A t \in Triggers : fd200[t] \in Nat
  BY ConstAssumption DEF TypeOK, Inodes

\* Creating or opening a file keeps the inodes apart.
LEMMA CreatePaths ==
  ASSUME TypeInv, FileInv, NEW l \in Locks, Create(l)
  PROVE  /\ nextIno <= nextIno' /\ nextIno' \in Nat
         /\ path'[l] = Opened(l)
         /\ \A m \in Locks : path'[m] < nextIno'
         /\ \A m, k \in Locks : path'[m] # 0 /\ path'[m] = path'[k] => m = k
         /\ \A m \in Locks : path'[m] = path[m] \/ path'[m] = nextIno
  <1> USE InodeNumbers DEF FileInv, TypeOK
  <1>1. CASE path[l] # 0
    <2>1. path' = path /\ nextIno' = nextIno
      BY <1>1 DEF Create, Opened
    <2> QED
      BY <1>1, <2>1 DEF Opened
  <1>2. CASE path[l] = 0
    <2>1. /\ path'[l] = nextIno /\ \A m \in Locks \ {l} : path'[m] = path[m]
          /\ nextIno' = nextIno + 1
      BY <1>2 DEF Create, Opened
    <2>2. ASSUME NEW m \in Locks PROVE path'[m] < nextIno'
      <3>1. path[m] < nextIno /\ path[m] \in Nat /\ nextIno \in Nat
        BY InodeNumbers DEF FileInv
      <3>2. path'[m] = nextIno \/ path'[m] = path[m]
        BY <2>1
      <3> HIDE DEF FileInv, TypeOK
      <3> QED
        BY <2>1, <3>1, <3>2
    <2>3. \A m, k \in Locks : path'[m] # 0 /\ path'[m] = path'[k] => m = k
      BY <2>1
    <2> QED
      BY <1>2, <2>1, <2>2, <2>3 DEF Opened
  <1> QED
    BY <1>1, <1>2

LEMMA CreateFile ==
  ASSUME TypeInv, FileInv, NEW l \in Locks, Create(l), fd200' = fd200
  PROVE  FileInv'
  <1>1. \A t \in Triggers : fd200[t] < nextIno /\ fd200[t] \in Nat
    BY InodeNumbers DEF FileInv
  <1>2. \A t \in Triggers : fd200'[t] < nextIno'
    BY <1>1, CreatePaths, InodeNumbers
  <1>3. \A t \in Triggers, m \in Locks :
           fd200'[t] # 0 /\ fd200'[t] = path'[m] => m = IssueOf[t]
    BY <1>1, CreatePaths, InodeNumbers DEF FileInv
  <1> QED
    BY <1>2, <1>3, CreatePaths DEF FileInv

LEMMA LinesAreLines ==
  ASSUME TypeInv
  PROVE  /\ \A n \in Inodes : lines[n] \in Seq(Line) /\ Len(lines[n]) \in Nat
         /\ \A n \in Inodes : \A k \in 1 .. Len(lines[n]) :
               lines[n][k] \in Line /\ lines[n][k].by \in Triggers
  <1>1. \A n \in Inodes : lines[n] \in Seq(Line)
    BY DEF TypeOK
  <1>2. \A s \in Seq(Line) : Len(s) \in Nat /\ \A k \in 1 .. Len(s) : s[k] \in Line
    OBVIOUS
  <1>3. \A x \in Line : x.by \in Triggers
    BY DEF Line
  <1> QED
    BY <1>1, <1>2, <1>3

\* A file that was just created is empty, so what can be read through a path
\* after an open could be read before it.
LEMMA CreateLines ==
  ASSUME TypeInv, FileInv, LineInv, NEW l \in Locks, Create(l),
         lines' = lines, \A t \in Triggers : "issue" \in held[t] <=> "issue" \in held'[t]
  PROVE  /\ \A n \in Inodes : n >= nextIno' => Len(lines'[n]) = 0
         /\ \A n \in Inodes : \A k \in 1 .. Len(lines'[n]) : "issue" \in held'[lines'[n][k].by]
         /\ \A i \in Issues : path'[i] # 0 =>
               \A k \in 1 .. Len(lines'[path'[i]]) : IssueOf[lines'[path'[i]][k].by] = i
  <1>1. \A n \in Inodes : n >= nextIno' => Len(lines'[n]) = 0
    BY DEF LineInv, Create, TypeOK, Inodes
  <1>2. \A n \in Inodes : \A k \in 1 .. Len(lines'[n]) : "issue" \in held'[lines'[n][k].by]
    BY LinesAreLines DEF LineInv
  <1>3. ASSUME NEW i \in Issues, path'[i] # 0, NEW k \in 1 .. Len(lines'[path'[i]])
        PROVE  IssueOf[lines'[path'[i]][k].by] = i
    <2>1. CASE path'[i] = path[i]
      BY <1>3, <2>1 DEF LineInv
    <2>2. CASE path'[i] # path[i]
      <3>1. i \in Locks
        BY DEF Locks
      <3>2. path'[i] = nextIno /\ nextIno \in Inodes
        BY <2>2, <3>1 DEF Create, Opened, TypeOK, Inodes
      <3>3. Len(lines[nextIno]) = 0
        BY <3>2 DEF LineInv, TypeOK, Inodes
      <3> QED
        BY <1>3, <3>2, <3>3
    <2> QED
      BY <2>1, <2>2
  <1> QED
    BY <1>1, <1>2, <1>3

\* Overwriting the file of an issue with lines of a trigger that holds it.
LEMMA OverwriteLines ==
  ASSUME TypeInv, FileInv, LineInv, NEW t \in Triggers, NEW content \in Seq(Line),
         Overwrite(IssueOf[t], content), held' = held,
         Len(content) = 0 \/ (Len(content) = 1 /\ content[1].by = t /\ "issue" \in held[t])
  PROVE  /\ \A n \in Inodes : n >= nextIno' => Len(lines'[n]) = 0
         /\ \A n \in Inodes : \A k \in 1 .. Len(lines'[n]) : "issue" \in held'[lines'[n][k].by]
         /\ \A i \in Issues : path'[i] # 0 =>
               \A k \in 1 .. Len(lines'[path'[i]]) : IssueOf[lines'[path'[i]][k].by] = i
  <1> DEFINE ino == Opened(IssueOf[t])
  <1>0. IssueOf[t] \in Locks /\ IssueOf[t] \in Issues
    BY ConstAssumption, LocksContain
  <1>1. Create(IssueOf[t])
    BY DEF Overwrite
  <1>2. ino \in Inodes
    BY <1>0, <1>1, CreateType
  <1>3. lines'[ino] = content /\ \A n \in Inodes \ {ino} : lines'[n] = lines[n]
    BY <1>2 DEF Overwrite, TypeOK
  <1>4. path'[IssueOf[t]] = ino /\ \A m \in Locks \ {IssueOf[t]} : path'[m] = path[m]
    BY <1>0, <1>1 DEF Create, TypeOK
  <1>5. ASSUME NEW n \in Inodes, n >= nextIno' PROVE Len(lines'[n]) = 0
    <2>1. n # ino /\ n >= nextIno
      BY <1>0, <1>1, <1>5 DEF Create, Opened, FileInv, TypeOK, Inodes
    <2> QED
      BY <1>3, <2>1 DEF LineInv
  <1>6. ASSUME NEW n \in Inodes, NEW k \in 1 .. Len(lines'[n])
        PROVE  "issue" \in held'[lines'[n][k].by]
    <2>1. CASE n = ino
      BY <1>3, <1>6, <2>1
    <2>2. CASE n # ino
      BY <1>3, <1>6, <2>2 DEF LineInv
    <2> QED
      BY <2>1, <2>2
  <1>7. ASSUME NEW i \in Issues, path'[i] # 0, NEW k \in 1 .. Len(lines'[path'[i]])
        PROVE  IssueOf[lines'[path'[i]][k].by] = i
    <2>0. i \in Locks
      BY DEF Locks
    <2>1. CASE i = IssueOf[t]
      BY <1>3, <1>4, <1>7, <2>1
    <2>2. CASE i # IssueOf[t]
      <3>1. path'[i] = path[i] /\ path[i] \in Inodes
        BY <1>4, <1>7, <2>0, <2>2 DEF TypeOK
      <3>2. path[i] # ino
        BY <1>0, <1>1, <1>7, <2>0, <2>2, <3>1 DEF FileInv, Opened, TypeOK, Inodes
      <3> QED
        BY <1>3, <1>7, <3>1, <3>2 DEF LineInv
    <2> QED
      BY <2>1, <2>2
  <1> QED
    BY <1>5, <1>6, <1>7

LEMMA LinesMain ==
  ASSUME TypeInv, FileInv, LineInv, NEW t \in Triggers, Main(t), TypeInv'
  PROVE  FileInv' /\ LineInv'
  <1> USE DEF Goto, BeforeIssue, Working, Ended
  <1>0. IssueOf[t] \in Locks /\ IssueOf[t] \in Issues /\ TeamLock \in Locks
    BY ConstAssumption, LocksContain
  <1>1. CASE CheckLock(t)
    BY <1>1 DEF CheckLock, FileInv, LineInv, TypeOK
  <1>2. CASE Truncate(t)
    <2>1. Create(IssueOf[t]) /\ fd200' = fd200
      BY <1>2 DEF Truncate, Overwrite
    <2>2. FileInv'
      BY <1>0, <2>1, CreateFile
    <2>3. Overwrite(IssueOf[t], <<>>) /\ held' = held /\ <<>> \in Seq(Line)
      BY <1>2 DEF Truncate
    <2>4. Len(<<>>) = 0
      OBVIOUS
    <2> HIDE DEF Goto, BeforeIssue, Working, Ended
    <2>5. /\ \A n \in Inodes : n >= nextIno' => Len(lines'[n]) = 0
          /\ \A n \in Inodes : \A k \in 1 .. Len(lines'[n]) : "issue" \in held'[lines'[n][k].by]
          /\ \A i \in Issues : path'[i] # 0 =>
                \A k \in 1 .. Len(lines'[path'[i]]) : IssueOf[lines'[path'[i]][k].by] = i
      BY <2>3, <2>4, OverwriteLines
    <2>6. /\ \A u \in Triggers : pc'[u] \in BeforeIssue => "issue" \notin held'[u]
          /\ \A u \in Triggers : pc'[u] \in {"meta", "openTeam", "flockTeam", "dispatch", "post"}
                => "issue" \in held'[u]
      BY <1>2 DEF Truncate, Goto, BeforeIssue, LineInv, TypeOK
    <2> QED
      BY <2>2, <2>5, <2>6 DEF LineInv
  <1>3. CASE OpenIssue(t)
    <2>1. Create(IssueOf[t])
      BY <1>3 DEF OpenIssue
    <2>2. /\ \A n \in Inodes : n >= nextIno' => Len(lines'[n]) = 0
          /\ \A n \in Inodes : \A k \in 1 .. Len(lines'[n]) : "issue" \in held'[lines'[n][k].by]
          /\ \A i \in Issues : path'[i] # 0 =>
                \A k \in 1 .. Len(lines'[path'[i]]) : IssueOf[lines'[path'[i]][k].by] = i
      BY <1>0, <1>3, <2>1, CreateLines DEF OpenIssue
    <2>3. /\ \A u \in Triggers : pc'[u] \in BeforeIssue => "issue" \notin held'[u]
          /\ \A u \in Triggers : pc'[u] \in {"meta", "openTeam", "flockTeam", "dispatch", "post"}
                => "issue" \in held'[u]
      BY <1>3 DEF OpenIssue, LineInv, TypeOK
    <2>4. /\ fd200'[t] = Opened(IssueOf[t]) /\ Opened(IssueOf[t]) = path'[IssueOf[t]]
          /\ \A u \in Triggers \ {t} : fd200'[u] = fd200[u]
      BY <1>0, <1>3 DEF OpenIssue, Create, TypeOK
    <2>5. FileInv'
      <3>1. /\ \A l \in Locks : path'[l] < nextIno'
            /\ \A l, m \in Locks : path'[l] # 0 /\ path'[l] = path'[m] => l = m
        BY <1>0, <2>1, CreatePaths
      <3>2. nextIno <= nextIno' /\ Opened(IssueOf[t]) < nextIno'
        BY <1>0, <2>1, <2>4, <3>1, CreatePaths
      <3>3. \A u \in Triggers : fd200'[u] < nextIno'
        <4>1. \A u \in Triggers : fd200[u] < nextIno /\ fd200[u] \in Nat
          BY InodeNumbers DEF FileInv
        <4> QED
          BY <1>0, <2>1, <2>4, <3>2, <4>1, InodeNumbers, CreatePaths
      <3>4. \A u \in Triggers \ {t}, l \in Locks :
               fd200'[u] # 0 /\ fd200'[u] = path'[l] => l = IssueOf[u]
        BY <1>0, <2>1, <2>4, ConstAssumption DEF Create, Opened, FileInv, TypeOK, Inodes
      <3>5. \A l \in Locks : fd200'[t] # 0 /\ fd200'[t] = path'[l] => l = IssueOf[t]
        BY <1>0, <2>4, <3>1
      <3>6. \A u \in Triggers : fd200'[u] # 0 /\ fd200'[u] = fd200'[t] => IssueOf[u] = IssueOf[t]
        BY <1>0, <2>4, <3>4, <3>5
      <3>7. \A u, w \in Triggers : fd200'[u] # 0 /\ fd200'[u] = fd200'[w] => IssueOf[u] = IssueOf[w]
        BY <2>4, <3>6 DEF FileInv
      <3> QED
        BY <3>1, <3>3, <3>4, <3>5, <3>7 DEF FileInv
    <2> QED
      BY <2>2, <2>3, <2>5 DEF LineInv
  <1>4. CASE FlockIssue(t)
    <2>1. \A u \in Triggers : "issue" \in held[u] => "issue" \in held'[u]
      <3>1. held' = [held EXCEPT ![t] = held[t] \cup {"issue"}] \/ held' = held
        BY <1>4 DEF FlockIssue
      <3>2. ASSUME NEW u \in Triggers
            PROVE  held'[u] = held[u] \/ held'[u] = held[u] \cup {"issue"}
        BY <3>1 DEF TypeOK
      <3> QED
        BY <3>2
    <2>2. UNCHANGED <<path, nextIno, lines, fd200>>
      BY <1>4 DEF FlockIssue
    <2>3. \A n \in Inodes : \A k \in 1 .. Len(lines'[n]) : "issue" \in held'[lines'[n][k].by]
      BY <2>1, <2>2, LinesAreLines DEF LineInv
    <2>4. /\ \A u \in Triggers : pc'[u] \in BeforeIssue => "issue" \notin held'[u]
          /\ \A u \in Triggers : pc'[u] \in {"meta", "openTeam", "flockTeam", "dispatch", "post"}
                => "issue" \in held'[u]
      BY <1>4 DEF FlockIssue, LineInv, TypeOK
    <2> QED
      BY <2>2, <2>3, <2>4 DEF FileInv, LineInv
  <1>5. CASE WriteMeta(t)
    <2> DEFINE meta == [by |-> t, pid |-> "main"]
    <2>1. Create(IssueOf[t]) /\ fd200' = fd200
      BY <1>5 DEF WriteMeta, Overwrite
    <2>2. FileInv'
      BY <1>0, <2>1, CreateFile
    <2>3. <<meta>> \in Seq(Line)
      <3>1. meta \in Line
        BY LineType
      <3>2. \A e \in Line : <<e>> \in Seq(Line)
        OBVIOUS
      <3> QED
        BY <3>1, <3>2
    <2>4. Overwrite(IssueOf[t], <<meta>>) /\ held' = held /\ "issue" \in held[t]
      BY <1>5 DEF WriteMeta, LineInv
    <2>5. Len(<<meta>>) = 1 /\ <<meta>>[1].by = t
      OBVIOUS
    <2>6. /\ \A n \in Inodes : n >= nextIno' => Len(lines'[n]) = 0
          /\ \A n \in Inodes : \A k \in 1 .. Len(lines'[n]) : "issue" \in held'[lines'[n][k].by]
          /\ \A i \in Issues : path'[i] # 0 =>
                \A k \in 1 .. Len(lines'[path'[i]]) : IssueOf[lines'[path'[i]][k].by] = i
      BY <2>3, <2>4, <2>5, OverwriteLines
    <2>7. /\ \A u \in Triggers : pc'[u] \in BeforeIssue => "issue" \notin held'[u]
          /\ \A u \in Triggers : pc'[u] \in {"meta", "openTeam", "flockTeam", "dispatch", "post"}
                => "issue" \in held'[u]
      BY <1>5 DEF WriteMeta, LineInv, TypeOK
    <2> QED
      BY <2>2, <2>6, <2>7 DEF LineInv
  <1>6. CASE OpenTeam(t)
    <2>1. Create(TeamLock) /\ fd200' = fd200 /\ lines' = lines /\ held' = held
      BY <1>6 DEF OpenTeam
    <2>2. FileInv'
      BY <1>0, <2>1, CreateFile
    <2>3. /\ \A n \in Inodes : n >= nextIno' => Len(lines'[n]) = 0
          /\ \A n \in Inodes : \A k \in 1 .. Len(lines'[n]) : "issue" \in held'[lines'[n][k].by]
          /\ \A i \in Issues : path'[i] # 0 =>
                \A k \in 1 .. Len(lines'[path'[i]]) : IssueOf[lines'[path'[i]][k].by] = i
      BY <1>0, <2>1, CreateLines
    <2>4. /\ \A u \in Triggers : pc'[u] \in BeforeIssue => "issue" \notin held'[u]
          /\ \A u \in Triggers : pc'[u] \in {"meta", "openTeam", "flockTeam", "dispatch", "post"}
                => "issue" \in held'[u]
      BY <1>6 DEF OpenTeam, LineInv, TypeOK
    <2> QED
      BY <2>2, <2>3, <2>4 DEF LineInv
  <1>7. CASE FlockTeam(t)
    <2>1. \A u \in Triggers : "issue" \in held[u] <=> "issue" \in held'[u]
      <3>1. held' = [held EXCEPT ![t] = held[t] \cup {"team"}] \/ held' = held
        BY <1>7 DEF FlockTeam
      <3>2. ASSUME NEW u \in Triggers
            PROVE  held'[u] = held[u] \/ held'[u] = held[u] \cup {"team"}
        BY <3>1 DEF TypeOK
      <3> QED
        BY <3>2
    <2>2. UNCHANGED <<path, nextIno, lines, fd200>>
      BY <1>7 DEF FlockTeam
    <2>3. \A n \in Inodes : \A k \in 1 .. Len(lines'[n]) : "issue" \in held'[lines'[n][k].by]
      BY <2>1, <2>2, LinesAreLines DEF LineInv
    <2>4. /\ \A u \in Triggers : pc'[u] \in BeforeIssue => "issue" \notin held'[u]
          /\ \A u \in Triggers : pc'[u] \in {"meta", "openTeam", "flockTeam", "dispatch", "post"}
                => "issue" \in held'[u]
      BY <1>7, <2>1 DEF FlockTeam, LineInv, TypeOK
    <2> QED
      BY <2>2, <2>3, <2>4 DEF FileInv, LineInv
  <1>8. CASE Unrouted(t) \/ Spawn(t)
    BY <1>8 DEF Unrouted, Spawn, FileInv, LineInv, TypeOK
  <1>9. CASE PostMeta(t)
    <2> DEFINE n0 == fd200[t]
               more == [by |-> t, pid |-> "shell"]
    <2>1. n0 \in Inodes /\ "issue" \in held[t] /\ n0 < nextIno
      BY <1>9 DEF PostMeta, FdInv, LineInv, FileInv
    <2>2. UNCHANGED <<path, nextIno, fd200, held>>
      BY <1>9 DEF PostMeta
    <2>3. /\ lines'[n0] = Append(lines[n0], more)
          /\ \A n \in Inodes \ {n0} : lines'[n] = lines[n]
      BY <1>9, <2>1 DEF PostMeta, TypeOK
    <2>4. \A s \in Seq(Line), e \in Line : /\ Len(Append(s, e)) = Len(s) + 1
                                           /\ \A k \in 1 .. Len(s) : Append(s, e)[k] = s[k]
                                           /\ Append(s, e)[Len(s) + 1] = e
      OBVIOUS
    <2>5. /\ Len(lines'[n0]) = Len(lines[n0]) + 1
          /\ \A k \in 1 .. Len(lines[n0]) : lines'[n0][k] = lines[n0][k]
          /\ lines'[n0][Len(lines[n0]) + 1] = more
      <3>1. lines[n0] \in Seq(Line) /\ more \in Line
        BY <2>1, LinesAreLines, LineType
      <3> QED
        BY <2>3, <2>4, <3>1
    <2>6. \A k \in 1 .. Len(lines'[n0]) :
             k \in 1 .. Len(lines[n0]) \/ lines'[n0][k].by = t
      BY <2>1, <2>5, LinesAreLines
    <2>7. \A n \in Inodes : n >= nextIno' => Len(lines'[n]) = 0
      BY <2>1, <2>2, <2>3 DEF LineInv, TypeOK, Inodes
    <2>8. ASSUME NEW n \in Inodes, NEW k \in 1 .. Len(lines'[n])
          PROVE  "issue" \in held'[lines'[n][k].by]
      <3>1. CASE n = n0
        BY <2>1, <2>2, <2>5, <2>6, <2>8, <3>1 DEF LineInv
      <3>2. CASE n # n0
        BY <2>2, <2>3, <2>8, <3>2 DEF LineInv
      <3> QED
        BY <3>1, <3>2
    <2>9. ASSUME NEW i \in Issues, path'[i] # 0, NEW k \in 1 .. Len(lines'[path'[i]])
          PROVE  IssueOf[lines'[path'[i]][k].by] = i
      <3>0. i \in Locks /\ path[i] \in Inodes
        BY <2>2, <2>9 DEF Locks, TypeOK
      <3>1. CASE path[i] = n0
        <4>1. IssueOf[t] = i
          BY <2>1, <3>0, <3>1 DEF FileInv, Inodes
        <4>2. path'[i] = n0 /\ k \in 1 .. Len(lines'[n0])
          BY <2>2, <2>9, <3>1
        <4>3. CASE lines'[n0][k].by = t
          BY <4>1, <4>2, <4>3
        <4>4. CASE k \in 1 .. Len(lines[n0])
          <5>1. IssueOf[lines[n0][k].by] = i
            BY <2>1, <3>0, <3>1, <4>4 DEF LineInv, Inodes
          <5> QED
            BY <2>5, <4>2, <4>4, <5>1
        <4> QED
          BY <2>6, <4>2, <4>3, <4>4
      <3>2. CASE path[i] # n0
        BY <2>2, <2>3, <2>9, <3>0, <3>2 DEF LineInv
      <3> QED
        BY <3>1, <3>2
    <2>10. /\ \A u \in Triggers : pc'[u] \in BeforeIssue => "issue" \notin held'[u]
           /\ \A u \in Triggers : pc'[u] \in {"meta", "openTeam", "flockTeam", "dispatch", "post"}
                => "issue" \in held'[u]
      BY <1>9 DEF PostMeta, LineInv, TypeOK
    <2> QED
      BY <2>2, <2>7, <2>8, <2>9, <2>10 DEF FileInv, LineInv
  <1> QED
    BY <1>1, <1>2, <1>3, <1>4, <1>5, <1>6, <1>7, <1>8, <1>9 DEF Main

LEMMA LinesFrame ==
  ASSUME TypeInv, FileInv, LineInv, UNCHANGED <<path, nextIno, lines, fd200, held>>,
         \A t \in Triggers : pc'[t] = pc[t] \/ pc'[t] \in {"dead", "check"},
         \A t \in Triggers : pc'[t] = "check" => pc[t] \in BeforeIssue
  PROVE  FileInv' /\ LineInv'
  BY DEF FileInv, LineInv, BeforeIssue

LEMMA LinesStep ==
  ASSUME TypeInv, FileInv, LineInv, TypeInv', [Next]_vars
  PROVE  FileInv' /\ LineInv'
  <1> USE DEF BeforeIssue
  <1>1. ASSUME NEW i \in Issues, CreateIssue(i) PROVE FileInv' /\ LineInv'
    BY <1>1, LinesFrame DEF CreateIssue
  <1>2. ASSUME NEW t \in Triggers, Start(t) PROVE FileInv' /\ LineInv'
    BY <1>2, LinesFrame DEF Start, Goto, TypeOK
  <1>3. ASSUME NEW t \in Triggers, Main(t) PROVE FileInv' /\ LineInv'
    BY <1>3, LinesMain
  <1>4. ASSUME NEW t \in Triggers, Session(t) PROVE FileInv' /\ LineInv'
    <2>1. UNCHANGED <<pc, path, nextIno, lines, fd200, held>>
      BY <1>4 DEF Session, BeginIssue, SkipIssue, LaunchDroid, DroidExit, FinishIssue,
                  ChainPick, ChainStop
    <2> QED
      BY <2>1, LinesFrame
  <1>5. ASSUME NEW t \in Triggers, StrayExit(t) \/ OrphanExit(t) PROVE FileInv' /\ LineInv'
    BY <1>5, LinesFrame DEF StrayExit, OrphanExit
  <1>6. ASSUME NEW t \in Triggers, KillMain(t) \/ KillSession(t) PROVE FileInv' /\ LineInv'
    BY <1>6, LinesFrame DEF KillMain, KillSession, Goto, TypeOK
  <1>7. CASE Reboot
    BY <1>7, LinesFrame DEF Reboot, TypeOK
  <1>8. CASE Age
    BY <1>8, LinesFrame DEF Age
  <1>9. ASSUME NEW l \in Locks, HygieneReap(l) PROVE FileInv' /\ LineInv'
    <2>1. /\ UNCHANGED <<pc, nextIno, lines, fd200, held>>
          /\ \A m \in Locks : path'[m] = path[m] \/ path'[m] = 0
      BY <1>9 DEF HygieneReap, TypeOK
    <2>2. FileInv'
      BY <2>1, InodeNumbers DEF FileInv
    <2>3. \A i \in Issues : path'[i] # 0 => path'[i] = path[i]
      BY <2>1 DEF Locks
    <2> QED
      BY <2>1, <2>2, <2>3 DEF LineInv
  <1>10. CASE UNCHANGED vars
    BY <1>10, LinesFrame DEF vars
  <1> QED
    BY <1>1, <1>2, <1>3, <1>4, <1>5, <1>6, <1>7, <1>8, <1>9, <1>10 DEF Next

LEMMA LinesAlways == Spec => [](TypeInv /\ FileInv /\ LineInv)
  <1>1. Init => TypeInv /\ FileInv /\ LineInv
    BY TypeInit, FileInit
  <1>2. TypeInv /\ FileInv /\ LineInv /\ [Next]_vars => TypeInv' /\ FileInv' /\ LineInv'
    BY TypeStep, LinesStep
  <1> QED
    BY <1>1, <1>2, PTL DEF Spec

LEMMA MetaFromLines ==
  ASSUME TypeInv, LineInv
  PROVE  MetaNamesHolder
  <1> SUFFICES ASSUME NEW i \in Issues, path[i] # 0, Len(lines[path[i]]) = 1,
                      PidUp(lines[path[i]][1])
               PROVE  /\ IssueOf[lines[path[i]][1].by] = i
                      /\ HoldsIssue(lines[path[i]][1].by)
    BY DEF MetaNamesHolder
  <1>1. path[i] \in Inodes
    BY DEF TypeOK, Locks
  <1>2. 1 \in 1 .. Len(lines[path[i]])
    OBVIOUS
  <1>3. IssueOf[lines[path[i]][1].by] = i /\ "issue" \in held[lines[path[i]][1].by]
    BY <1>1, <1>2 DEF LineInv
  <1>4. Live(lines[path[i]][1].by)
    BY DEF PidUp
  <1> QED
    BY <1>3, <1>4 DEF HoldsIssue

\* The advice of M2 is sound, with hygiene or without: a live process named
\* by the only line of a lock file belongs to the holder of that lock.
THEOREM MetaNamesHolderHolds == Spec => []MetaNamesHolder
  BY LinesAlways, MetaFromLines, PTL

LEMMA TurnedAwayStep ==
  ASSUME TypeInv, FileInv, LineInv, [Next]_vars, NEW t \in Triggers
  PROVE  /\ pc[t] # "skipped" /\ pc'[t] = "skipped"
              => \E u \in Triggers \ {t} : HoldsIssue(u) /\ IssueOf[u] = IssueOf[t]
         /\ pc[t] # "queued" /\ pc'[t] = "queued"
              => \E u \in Triggers \ {t} : HoldsTeam(u)
  <1> USE DEF Goto
  <1> SUFFICES ASSUME pc'[t] \in {"skipped", "queued"}, pc'[t] # pc[t]
               PROVE  /\ pc'[t] = "skipped"
                         => \E u \in Triggers \ {t} : HoldsIssue(u) /\ IssueOf[u] = IssueOf[t]
                      /\ pc'[t] = "queued" => \E u \in Triggers \ {t} : HoldsTeam(u)
    OBVIOUS
  <1>1. ASSUME ~Main(t) PROVE pc'[t] = pc[t] \/ pc'[t] \in {"check", "dead"}
    <2>1. ASSUME NEW u \in Triggers, Main(u) PROVE pc'[t] = pc[t]
      BY <1>1, <2>1 DEF Main, CheckLock, Truncate, OpenIssue, FlockIssue, WriteMeta,
                        OpenTeam, FlockTeam, Unrouted, Spawn, PostMeta, TypeOK
    <2>2. ASSUME NEW u \in Triggers, Start(u) \/ KillMain(u)
          PROVE  pc'[t] = pc[t] \/ pc'[t] \in {"check", "dead"}
      BY <2>2 DEF Start, KillMain, TypeOK
    <2>3. ASSUME NEW u \in Triggers,
                 Session(u) \/ StrayExit(u) \/ OrphanExit(u) \/ KillSession(u)
          PROVE  pc' = pc
      BY <2>3 DEF Session, BeginIssue, SkipIssue, LaunchDroid, DroidExit, FinishIssue,
                  ChainPick, ChainStop, StrayExit, OrphanExit, KillSession
    <2>4. ASSUME NEW i \in Issues, CreateIssue(i) PROVE pc' = pc
      BY <2>4 DEF CreateIssue
    <2>5. ASSUME NEW l \in Locks, HygieneReap(l) PROVE pc' = pc
      BY <2>5 DEF HygieneReap
    <2>6. CASE Reboot
      BY <2>6 DEF Reboot
    <2>7. CASE Age \/ UNCHANGED vars
      BY <2>7 DEF Age, vars
    <2> QED
      BY <2>1, <2>2, <2>3, <2>4, <2>5, <2>6, <2>7 DEF Next
  <1>2. CASE CheckLock(t)
    <2> DEFINE u == lines[path[IssueOf[t]]][1].by
    <2>1. /\ path[IssueOf[t]] # 0 /\ Len(lines[path[IssueOf[t]]]) = 1
          /\ PidUp(lines[path[IssueOf[t]]][1]) /\ pc[t] = "check" /\ pc'[t] = "skipped"
      BY <1>2 DEF CheckLock, TypeOK
    <2>2. IssueOf[u] = IssueOf[t] /\ HoldsIssue(u) /\ IssueOf[t] \in Issues
      BY <2>1, MetaFromLines, ConstAssumption DEF MetaNamesHolder
    <2>3. u # t
      BY <2>1, <2>2 DEF HoldsIssue, LineInv, BeforeIssue
    <2>4. u \in Triggers
      BY <2>1, <2>2, LinesAreLines DEF TypeOK, Locks
    <2> QED
      BY <2>1, <2>2, <2>3, <2>4
  <1>3. CASE FlockIssue(t)
    <2>1. pc[t] = "flockIssue" /\ ~FreeIssue(t) /\ pc'[t] = "skipped"
      BY <1>3 DEF FlockIssue, TypeOK
    <2>2. PICK u \in Triggers \ {t} : HoldsIssue(u) /\ fd200[u] = fd200[t]
      BY <2>1 DEF FreeIssue
    <2>3. fd200[t] # 0
      BY <2>1 DEF FdInv, Inodes
    <2>4. IssueOf[u] = IssueOf[t]
      BY <2>2, <2>3 DEF FileInv
    <2> QED
      BY <2>1, <2>2, <2>4
  <1>4. CASE FlockTeam(t)
    <2>1. ~FreeTeam(t) /\ pc'[t] = "queued"
      BY <1>4 DEF FlockTeam, TypeOK
    <2> QED
      BY <2>1 DEF FreeTeam
  <1>5. CASE Main(t) /\ ~CheckLock(t) /\ ~FlockIssue(t) /\ ~FlockTeam(t)
    BY <1>5 DEF Main, Truncate, OpenIssue, WriteMeta, OpenTeam, Unrouted, Spawn,
                PostMeta, TypeOK
  <1> QED
    BY <1>1, <1>2, <1>3, <1>4, <1>5

\* A delivery is turned away only while another trigger holds the lock it was
\* refused, with hygiene or without.
THEOREM TurnedAwayByAHolderHolds == Spec => TurnedAwayByAHolder
  <1>1. TypeInv /\ FileInv /\ LineInv /\ [Next]_vars
        => [\A t \in Triggers :
              /\ pc[t] # "skipped" /\ pc'[t] = "skipped"
                   => \E u \in Triggers \ {t} : HoldsIssue(u) /\ IssueOf[u] = IssueOf[t]
              /\ pc[t] # "queued" /\ pc'[t] = "queued"
                   => \E u \in Triggers \ {t} : HoldsTeam(u)]_vars
    BY TurnedAwayStep
  <1> QED
    BY <1>1, LinesAlways, PTL DEF Spec, TurnedAwayByAHolder
================================================================================
