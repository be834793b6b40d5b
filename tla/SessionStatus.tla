----------------------------- MODULE SessionStatus -----------------------------
(***************************************************************************)
(* The status files status/<ref>.json of webhook-scripts/trigger-droid.sh. *)
(*                                                                         *)
(* One session (the team lock admits only one) processes issues one after  *)
(* the other.  For each it writes "running", starts a heartbeat loop that  *)
(* rewrites the file every 30 s, runs the droid, stops the loop and writes *)
(* the terminal status.  An EXIT trap repairs the file of the issue that   *)
(* was current.  Every writer goes through the same temporary file         *)
(* <ref>.json.tmp and renames it.  A file open for writing follows its     *)
(* inode, not its name: the descriptor of a writer is where that inode is  *)
(* now, under the temporary name, under the final name, or under none.     *)
(* webhook-hygiene.sh archives terminal files that have become old.        *)
(***************************************************************************)
EXTENDS Naturals, FiniteSets

CONSTANTS
    Refs,           \* issues the session may process
    MaxRuns,        \* bound on the calls of process_one_issue
    HygieneDryRun,  \* DRY_RUN of webhook-hygiene.sh
    MaxKills,       \* bound on SIGKILLs of the session
    None

Runs    == 1 .. MaxRuns
\* The fields the code tests: pid tells whether this session wrote it.
Content == [st : {"empty", "running", "completed", "failed"}, pid : {"mine", "other"}]
Fds     == {"closed", "tmp", "final", "unlinked"}
\* Empty or garbled: it does not parse.
Empty   == [st |-> "empty", pid |-> "other"]

ASSUME StatusAssumption ==
    /\ IsFiniteSet(Refs)
    /\ None \notin Refs \cup Content
    /\ MaxRuns \in Nat \ {0}
    /\ HygieneDryRun \in BOOLEAN
    /\ MaxKills \in Nat

VARIABLES
    \* --- the session
    sp,        \* where it is
    run,       \* calls of process_one_issue so far
    cur,       \* _CURRENT_PROCESSING_REF
    tracked,   \* the run whose loop is HEARTBEAT_PID, 0 when unset
    wr,        \* the _write_status in progress
    kills,
    \* --- the heartbeat loop of each run
    loop,      \* where it is
    killed,    \* its bash process is gone, only the python child is left
    beatRef,   \* the issue of the run
    got,       \* what the python child read
    \* --- the status directory and the descriptors open on it
    file,      \* ref -> content of <ref>.json, None when absent
    tmp,       \* ref -> content of <ref>.json.tmp, None when absent
    hfd,       \* run -> descriptor of the python child of its loop
    wfd,       \* descriptor of the session
    aged,      \* files not modified for 30 days
    \* --- hygiene
    listed,    \* old files hygiene's find has listed
    archiving  \* the file whose terminal status hygiene has read

sessionVars == <<sp, run, cur, tracked, wr, kills>>
beatVars    == <<loop, killed, beatRef, got>>
dirVars     == <<file, tmp, hfd, wfd, aged>>
hygieneVars == <<listed, archiving>>
vars        == <<sessionVars, beatVars, dirVars, hygieneVars>>

SessPC == {"next", "write", "beat", "work", "stop", "stamp", "trap", "repair",
           "ended", "dead"}
WrPC   == {"idle", "rm", "open", "data", "mv"}
LoopPC == {"off", "sleep", "read", "open", "flush", "rename"}

NoWrite == [pc |-> "idle", json |-> Empty, then |-> "next"]
OldDone == [st |-> "completed", pid |-> "other"]
OldRunning == [st |-> "running", pid |-> "other"]

Init ==
    /\ sp = "next" /\ run = 0 /\ cur = None /\ tracked = 0
    /\ wr = NoWrite /\ kills = 0
    /\ loop = [r \in Runs |-> "off"]
    /\ killed = [r \in Runs |-> FALSE]
    /\ beatRef = [r \in Runs |-> None]
    /\ got = [r \in Runs |-> Empty]
    /\ hfd = [r \in Runs |-> "closed"]
    /\ wfd = "closed"
    \* an issue may have a file from long ago, of a session that ended or died
    /\ aged \in {{}} \cup {{ref} : ref \in Refs}
    /\ \E old \in {OldDone, OldRunning} :
          file = [ref \in Refs |-> IF ref \in aged THEN old ELSE None]
    /\ tmp = [ref \in Refs |-> None]
    /\ listed = {} /\ archiving = None

---------------------------------------------------------------------------
(* Files.                                                                  *)

\* What a reader of <ref>.json gets; Empty also stands for "no such file".
Status(ref) == IF file[ref] = None THEN Empty ELSE file[ref]

Is(ref, st) == Status(ref).st = st

\* Every descriptor on a file of ref moves as the inode does.
Follow(ref, moved) ==
    /\ hfd' = [r \in Runs |-> IF beatRef[r] = ref THEN moved[hfd[r]] ELSE hfd[r]]
    /\ wfd' = IF cur = ref THEN moved[wfd] ELSE wfd

Stay     == [fd \in Fds |-> fd]
TmpGone  == [Stay EXCEPT !["tmp"] = "unlinked"]
FileGone == [Stay EXCEPT !["final"] = "unlinked"]
Renamed  == [FileGone EXCEPT !["tmp"] = "final"]

\* A write through fd shows up wherever the inode is now; over the longer
\* content of another writer it leaves a file that does not parse.
Put(ref, fd, json) ==
    \E mixed \in {json, Empty} :
        /\ file' = IF fd # "final" THEN file
                   ELSE [file EXCEPT ![ref] = IF @ = Empty THEN json ELSE mixed]
        /\ tmp' = IF fd # "tmp" THEN tmp
                  ELSE [tmp EXCEPT ![ref] = IF @ = Empty THEN json ELSE mixed]

\* Fault: the old file is removed before the new one is moved into place.
RenameAfterRemove(ref) ==
    /\ file' = [file EXCEPT ![ref] = tmp[ref]]
    /\ tmp' = [tmp EXCEPT ![ref] = None]
    /\ aged' = aged \ {ref}
    /\ Follow(ref, Renamed)

\* rename(<ref>.json.tmp, <ref>.json), which fails when there is no tmp.
Rename(ref) ==
    IF tmp[ref] = None
    THEN UNCHANGED dirVars
    ELSE /\ file' = [file EXCEPT ![ref] = tmp[ref]]
         /\ tmp' = [tmp EXCEPT ![ref] = None]
         /\ aged' = aged \ {ref}
         /\ Follow(ref, Renamed)

---------------------------------------------------------------------------
(* The session.                                                            *)

WriteStatus(json, then) ==
    wr' = [pc |-> "rm", json |-> json, then |-> then]

\* process_one_issue is called for ref and writes the "running" file.  The
\* chain loop does not pick one issue twice in a row; the first issue of the
\* session is not covered by that guard.
Begin(ref) ==
    /\ sp = "next" /\ run < MaxRuns
    /\ run >= 2 => ref # cur
    /\ run' = run + 1
    /\ cur' = ref
    /\ beatRef' = [beatRef EXCEPT ![run + 1] = ref]
    /\ sp' = "write"
    /\ WriteStatus([st |-> "running", pid |-> "mine"], "beat")
    /\ UNCHANGED <<tracked, kills, loop, killed, got, dirVars, hygieneVars>>

\* rm -f tmp
WriteRm ==
    /\ sp = "write" /\ wr.pc = "rm"
    /\ tmp' = [tmp EXCEPT ![cur] = None]
    /\ Follow(cur, TmpGone)
    /\ wr' = [wr EXCEPT !.pc = "open"]
    /\ UNCHANGED <<sp, run, cur, tracked, kills, beatVars, file, aged, hygieneVars>>

\* echo "$json" > tmp: the shell opens (creates or truncates) the file, then
\* echo writes
WriteOpen ==
    /\ sp = "write" /\ wr.pc = "open"
    /\ tmp' = [tmp EXCEPT ![cur] = Empty]
    /\ wfd' = "tmp"
    /\ wr' = [wr EXCEPT !.pc = "data"]
    /\ UNCHANGED <<sp, run, cur, tracked, kills, beatVars, file, hfd, aged, hygieneVars>>

WriteData ==
    /\ sp = "write" /\ wr.pc = "data"
    /\ Put(cur, wfd, wr.json)
    /\ wfd' = "closed"
    /\ wr' = [wr EXCEPT !.pc = "mv"]
    /\ UNCHANGED <<sp, run, cur, tracked, kills, beatVars, hfd, aged, hygieneVars>>

\* mv tmp status, whose failure is logged and ignored
WriteMv ==
    /\ sp = "write" /\ wr.pc = "mv"
    /\ Rename(cur)
    /\ sp' = wr.then
    /\ wr' = NoWrite
    /\ UNCHANGED <<run, cur, tracked, kills, beatVars, hygieneVars>>

\* A loop an earlier issue left running is no longer tracked.
StartHeartbeat ==
    /\ sp = "beat"
    /\ loop' = [loop EXCEPT ![run] = "sleep"]
    /\ tracked' = run
    /\ sp' = "work"
    /\ UNCHANGED <<run, cur, wr, kills, killed, beatRef, got, dirVars, hygieneVars>>

\* route_repo or cd fails: return 1, with the heartbeat left running.
SkipIssue ==
    /\ sp = "work"
    /\ sp' = "next"
    /\ UNCHANGED <<run, cur, tracked, wr, kills, beatVars, dirVars, hygieneVars>>

DroidDone ==
    /\ sp = "work"
    /\ sp' = "stop"
    /\ UNCHANGED <<run, cur, tracked, wr, kills, beatVars, dirVars, hygieneVars>>

\* Fault: the loop is forgotten, not stopped.
StopTrackedNot == tracked' = 0 /\ UNCHANGED <<loop, killed>>

\* kill and wait reach the bash loop.  A python child that is past the check
\* goes on by itself.
StopTracked ==
    /\ tracked' = 0
    /\ IF tracked = 0
       THEN UNCHANGED <<loop, killed>>
       ELSE IF loop[tracked] \in {"read", "open", "flush", "rename"}
       THEN /\ killed' = [killed EXCEPT ![tracked] = TRUE]
            /\ loop' = loop
       ELSE /\ loop' = [loop EXCEPT ![tracked] = "off"]
            /\ killed' = killed

StopHeartbeat ==
    /\ sp = "stop"
    /\ StopTracked
    /\ sp' = "stamp"
    /\ UNCHANGED <<run, cur, wr, kills, beatRef, got, dirVars, hygieneVars>>

\* The terminal status; startedAt is read back from the file.
WriteTerminal ==
    /\ sp = "stamp"
    /\ sp' = "write"
    /\ \E st \in {"completed", "failed"} :
          WriteStatus([st |-> st, pid |-> "mine"], "next")
    /\ UNCHANGED <<run, cur, tracked, kills, beatVars, dirVars, hygieneVars>>

\* The chain loop ends, or the session exits early (a signal, an unbound
\* variable): the EXIT trap takes over.
Exit ==
    /\ \/ sp = "next" /\ run > 0
       \/ sp \in {"write", "beat", "work", "stop", "stamp"}
    /\ wr.then # "ended"
    /\ sp' = "trap"
    /\ wr' = NoWrite /\ wfd' = "closed"
    /\ UNCHANGED <<run, cur, tracked, kills, beatVars, file, tmp, hfd, aged, hygieneVars>>

TrapStop ==
    /\ sp = "trap"
    /\ StopTracked
    /\ sp' = "repair"
    /\ UNCHANGED <<run, cur, wr, kills, beatRef, got, dirVars, hygieneVars>>

\* "failed" without a pid, and only over "running".
TrapRepair ==
    /\ sp = "repair"
    /\ IF Is(cur, "running")
       THEN /\ sp' = "write"
            /\ WriteStatus([st |-> "failed", pid |-> "other"], "ended")
       ELSE sp' = "ended" /\ wr' = wr
    /\ UNCHANGED <<run, cur, tracked, kills, beatVars, dirVars, hygieneVars>>

\* SIGKILL: no trap runs.
KillSession ==
    /\ sp \notin {"ended", "dead"} /\ run > 0
    /\ kills < MaxKills
    /\ kills' = kills + 1
    /\ sp' = "dead"
    /\ wr' = NoWrite /\ wfd' = "closed"
    /\ UNCHANGED <<run, cur, tracked, beatVars, file, tmp, hfd, aged, hygieneVars>>

Session ==
    \/ \E ref \in Refs : Begin(ref)
    \/ WriteRm \/ WriteOpen \/ WriteData \/ WriteMv
    \/ StartHeartbeat \/ SkipIssue \/ DroidDone \/ StopHeartbeat \/ WriteTerminal
    \/ Exit \/ TrapStop \/ TrapRepair

---------------------------------------------------------------------------
(* A heartbeat loop.                                                       *)

\* Fault: the loop goes on to a state it does not have.
BackNowhere(r) == IF killed[r] THEN "off" ELSE "check"

\* Where the python child returns to.
Back(r) == IF killed[r] THEN "off" ELSE "sleep"

\* Fault: the parent is not probed.
MayBeatOrphaned(r) ==
    Is(beatRef[r], "running") /\ Status(beatRef[r]).pid = "mine"

\* kill -0 of the parent, then the first python: the file must say running
\* with the pid of the session.
MayBeat(r) ==
    /\ sp \notin {"ended", "dead"}
    /\ Is(beatRef[r], "running")
    /\ Status(beatRef[r]).pid = "mine"

BeatCheck(r) ==
    /\ loop[r] = "sleep"
    /\ loop' = [loop EXCEPT ![r] = IF MayBeat(r) THEN "read" ELSE "off"]
    /\ UNCHANGED <<sessionVars, killed, beatRef, got, dirVars, hygieneVars>>

\* The second python reads the file again, without checking it again.
BeatRead(r) ==
    /\ loop[r] = "read"
    /\ got' = [got EXCEPT ![r] = Status(beatRef[r])]
    /\ loop' = [loop EXCEPT ![r] = IF Status(beatRef[r]) = Empty THEN Back(r) ELSE "open"]
    /\ UNCHANGED <<sessionVars, killed, beatRef, dirVars, hygieneVars>>

BeatOpen(r) ==
    /\ loop[r] = "open"
    /\ tmp' = [tmp EXCEPT ![beatRef[r]] = Empty]
    /\ hfd' = [hfd EXCEPT ![r] = "tmp"]
    /\ loop' = [loop EXCEPT ![r] = "flush"]
    /\ UNCHANGED <<sessionVars, killed, beatRef, got, file, wfd, aged, hygieneVars>>

\* json.dump is buffered: the content appears when the file is closed.
BeatFlush(r) ==
    /\ loop[r] = "flush"
    /\ Put(beatRef[r], hfd[r], got[r])
    /\ hfd' = [hfd EXCEPT ![r] = "closed"]
    /\ got' = [got EXCEPT ![r] = Empty]
    /\ loop' = [loop EXCEPT ![r] = "rename"]
    /\ UNCHANGED <<sessionVars, killed, beatRef, wfd, aged, hygieneVars>>

BeatRename(r) ==
    /\ loop[r] = "rename"
    /\ Rename(beatRef[r])
    /\ loop' = [loop EXCEPT ![r] = Back(r)]
    /\ UNCHANGED <<sessionVars, killed, beatRef, got, hygieneVars>>

Beat(r) == BeatCheck(r) \/ BeatRead(r) \/ BeatOpen(r) \/ BeatFlush(r) \/ BeatRename(r)

---------------------------------------------------------------------------
(* webhook-hygiene.sh, Phase 3.                                            *)

\* find -mtime +30
HygieneFind ==
    /\ ~HygieneDryRun
    /\ listed = {} /\ archiving = None
    /\ aged # {}
    /\ listed' = aged
    /\ UNCHANGED <<sessionVars, beatVars, dirVars, archiving>>

HygieneRead(ref) ==
    /\ archiving = None
    /\ ref \in listed
    /\ listed' = listed \ {ref}
    /\ archiving' = IF Is(ref, "completed") \/ Is(ref, "failed") THEN ref ELSE None
    /\ UNCHANGED <<sessionVars, beatVars, dirVars>>

\* mv into status/.archived-terminal, without looking again
HygieneArchive ==
    /\ archiving # None
    /\ file' = [file EXCEPT ![archiving] = None]
    /\ aged' = aged \ {archiving}
    /\ archiving' = None
    /\ Follow(archiving, FileGone)
    /\ UNCHANGED <<sessionVars, beatVars, tmp, listed>>

---------------------------------------------------------------------------
Next ==
    \/ Session
    \/ KillSession
    \/ \E r \in Runs : Beat(r)
    \/ HygieneFind
    \/ \E ref \in Refs : HygieneRead(ref)
    \/ HygieneArchive

Spec == Init /\ [][Next]_vars

\* A live process is scheduled; with_timeout ends every droid.  Whether the
\* chain loop finds another issue is not up to the session, but a bounded
\* number of calls keeps it from looping for ever.
Fairness ==
    /\ WF_vars(Session)
    /\ \A r \in Runs : WF_vars(Beat(r))

FairSpec == Spec /\ Fairness

---------------------------------------------------------------------------
(* Properties.                                                             *)

TypeOK ==
    /\ sp \in SessPC
    /\ run \in 0 .. MaxRuns
    /\ cur \in Refs \cup {None}
    /\ tracked \in 0 .. MaxRuns
    /\ wr \in [pc : WrPC, json : Content, then : {"next", "beat", "ended"}]
    /\ kills \in 0 .. MaxKills
    /\ loop \in [Runs -> LoopPC]
    /\ killed \in [Runs -> BOOLEAN]
    /\ beatRef \in [Runs -> Refs \cup {None}]
    /\ got \in [Runs -> Content]
    /\ file \in [Refs -> Content \cup {None}]
    /\ tmp \in [Refs -> Content \cup {None}]
    /\ hfd \in [Runs -> Fds]
    /\ wfd \in Fds
    /\ aged \subseteq Refs
    /\ listed \subseteq Refs
    /\ archiving \in Refs \cup {None}

\* No heartbeat's python child has survived the kill of its loop, and no issue
\* was processed twice, so that a loop forgotten by SkipIssue has no rival.
Undisturbed ==
    /\ \A r \in Runs : ~killed[r]
    /\ \A r1, r2 \in Runs : r1 # r2 /\ beatRef[r1] # None => beatRef[r1] # beatRef[r2]

\* trigger-droid.sh:34 "Atomic status file write (write-temp + rename)": a
\* reader never finds a status file without its content, although all writers
\* share one temporary name.
NoTornStatus ==
    Undisturbed => \A ref \in Refs : file[ref] # None => Status(ref) # Empty

\* A step that takes the file of ref from a terminal status to "running"
\* belongs to a new call of process_one_issue for ref.
RevertsOnlyAtStart(ref) ==
    (Is(ref, "completed") \/ Is(ref, "failed")) /\ Is(ref, "running")'
        => sp = "write" /\ cur = ref /\ wr.then = "beat"

\* trigger-droid.sh:1202 "Stop heartbeat BEFORE writing terminal status
\* (eliminates race)": no heartbeat undoes a terminal status.
TerminalIsFinal == [][\A ref \in Refs : RevertsOnlyAtStart(ref)]_vars

\* The part of it that the code keeps.
UndisturbedTerminalIsFinal ==
    [][Undisturbed => \A ref \in Refs : RevertsOnlyAtStart(ref)]_vars

\* After an orderly or early exit the issue that was current is not left
\* "running" (the EXIT trap, trigger-droid.sh:867-897).
CurrentIsRepaired ==
    Undisturbed /\ sp = "ended" => ~Is(cur, "running")

\* A status file, once published, is missing again only because hygiene has
\* archived it, whatever the order of the writers and whoever was killed.
StatusNeverVanishes ==
    [][\A ref \in Refs : file[ref] # None /\ ref # archiving => file'[ref] # None]_vars

\* Every heartbeat ends once its session is gone, killed or not
\* (trigger-droid.sh:60 "self-terminate if dead").
HeartbeatsDrain ==
    sp \in {"ended", "dead"} ~> \A r \in Runs : loop[r] = "off"
================================================================================
