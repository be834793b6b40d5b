-------------------------- MODULE SessionStatusProofs --------------------------
(***************************************************************************)
(* Proofs about the status files of trigger-droid.sh, for any set of       *)
(* issues, any number of calls of process_one_issue and any number of      *)
(* kills, with hygiene in or out of its dry run.                           *)
(***************************************************************************)
EXTENDS SessionStatus, TLAPS

---------------------------------------------------------------------------
(* The inductive invariant.                                                *)

\* What the session's program counter says about the runs and the write.
RunInv ==
    /\ \A r \in Runs : r > run => loop[r] = "off" /\ beatRef[r] = None
    /\ \A r \in Runs : r <= run => beatRef[r] \in Refs
    /\ run > 0 => beatRef[run] = cur
    /\ run = 0 => sp = "next"
    /\ tracked <= run
    /\ sp = "write" <=> wr.pc # "idle"
    /\ sp # "write" => wr = NoWrite
    /\ wr.then = "beat" <=> wr.json.st = "running"
    /\ wr.then = "ended" => wr.json.st = "failed"
    /\ sp = "write" => wr.json.st # "empty"
    /\ HygieneDryRun => listed = {} /\ archiving = None

TypeInv == TypeOK /\ RunInv

\* While nothing is disturbed, the loop of the current issue runs only where
\* the session has not stopped it, and is then the one the session tracks.
LoopCalm ==
    /\ \A r \in Runs :
          loop[r] # "off" /\ beatRef[r] = cur
             => sp \in {"work", "stop", "trap", "next", "dead"}
    /\ sp \in {"work", "stop", "trap", "next"} /\ run > 0 /\ loop[run] # "off"
          => tracked = run

\* What a heartbeat may publish.
Beating(json) == json # Empty /\ json.st \notin {"completed", "failed"}

\* Whoever has a temporary file open or is about to rename it is its only
\* writer.
TmpCalm ==
    /\ \A r \in Runs :
          /\ hfd[r] = IF loop[r] = "flush" THEN "tmp" ELSE "closed"
          /\ loop[r] = "flush" => tmp[beatRef[r]] = Empty
          /\ loop[r] = "rename" => Beating(tmp[beatRef[r]])
          /\ loop[r] \in {"open", "flush"} => Beating(got[r])
    /\ wfd = IF wr.pc = "data" THEN "tmp" ELSE "closed"
    /\ wr.pc = "data" => tmp[cur] = Empty
    /\ wr.pc = "mv" => tmp[cur] = wr.json

Terminal(ref) == Is(ref, "completed") \/ Is(ref, "failed")

\* Every file parses, and a file with a live heartbeat is not terminal.
FileCalm ==
    /\ \A ref \in Refs : file[ref] # Empty
    /\ \A r \in Runs : loop[r] # "off" => ~Terminal(beatRef[r])
    /\ sp = "beat" => ~Terminal(cur)
    /\ sp = "ended" => ~Is(cur, "running")

Calm == LoopCalm /\ TmpCalm /\ FileCalm

IInv == TypeInv /\ (Undisturbed => Calm)

---------------------------------------------------------------------------
(* Types.                                                                  *)

LEMMA FdMoves ==
  /\ TmpGone \in [Fds -> Fds] /\ FileGone \in [Fds -> Fds] /\ Renamed \in [Fds -> Fds]
  /\ TmpGone["tmp"] = "unlinked" /\ TmpGone["closed"] = "closed"
  /\ FileGone["tmp"] = "tmp" /\ FileGone["closed"] = "closed"
  /\ Renamed["tmp"] = "final" /\ Renamed["closed"] = "closed"
  BY DEF TmpGone, FileGone, Renamed, Stay, Fds

LEMMA EmptyType ==
  /\ Empty \in Content /\ NoWrite.json \in Content
  /\ NoWrite \in [pc : WrPC, json : Content, then : {"next", "beat", "ended"}]
  BY DEF Empty, Content, NoWrite, WrPC

\* Following an inode keeps the types of the descriptors.
LEMMA FollowType ==
  ASSUME TypeOK, NEW ref, NEW moved \in [Fds -> Fds], Follow(ref, moved)
  PROVE  hfd' \in [Runs -> Fds] /\ wfd' \in Fds
  BY DEF TypeOK, Follow

LEMMA PutType ==
  ASSUME TypeOK, NEW ref, NEW fd, NEW json \in Content, Put(ref, fd, json)
  PROVE  /\ file' \in [Refs -> Content \cup {None}]
         /\ tmp' \in [Refs -> Content \cup {None}]
  <1> PICK mixed \in {json, Empty} :
        /\ file' = IF fd # "final" THEN file
                   ELSE [file EXCEPT ![ref] = IF @ = Empty THEN json ELSE mixed]
        /\ tmp' = IF fd # "tmp" THEN tmp
                  ELSE [tmp EXCEPT ![ref] = IF @ = Empty THEN json ELSE mixed]
    BY DEF Put
  <1>1. mixed \in Content
    BY EmptyType
  <1> QED
    BY <1>1 DEF TypeOK

LEMMA RenameType ==
  ASSUME TypeOK, NEW ref \in Refs, Rename(ref)
  PROVE  /\ file' \in [Refs -> Content \cup {None}]
         /\ tmp' \in [Refs -> Content \cup {None}]
         /\ hfd' \in [Runs -> Fds] /\ wfd' \in Fds /\ aged' \subseteq Refs
  <1>1. CASE tmp[ref] = None
    BY <1>1 DEF Rename, dirVars, TypeOK
  <1>2. CASE tmp[ref] # None
    BY <1>2, FdMoves, FollowType DEF Rename, TypeOK
  <1> QED
    BY <1>1, <1>2

LEMMA StopType ==
  ASSUME TypeInv, StopTracked
  PROVE  /\ tracked' = 0
         /\ loop' \in [Runs -> LoopPC] /\ killed' \in [Runs -> BOOLEAN]
         /\ \A r \in Runs : loop[r] = "off" => loop'[r] = "off"
  <1>1. CASE tracked = 0
    BY <1>1 DEF TypeInv, TypeOK, StopTracked
  <1>2. CASE tracked # 0
    <2>1. tracked \in Runs
      BY <1>2 DEF TypeInv, TypeOK, Runs
    <2>2. "off" \in LoopPC /\ TRUE \in BOOLEAN
      BY DEF LoopPC
    <2> QED
      BY <1>2, <2>1, <2>2 DEF TypeInv, TypeOK, StopTracked
  <1> QED
    BY <1>1, <1>2

\* The current issue is one of Refs as soon as there is a run.
LEMMA CurIsRef ==
  ASSUME TypeInv, run > 0
  PROVE  cur \in Refs /\ run \in Runs /\ \A r \in Runs : r <= run => beatRef[r] \in Refs
  BY StatusAssumption DEF TypeInv, TypeOK, RunInv, Runs

LEMMA ActiveHasRef ==
  ASSUME TypeInv, NEW r \in Runs, loop[r] # "off"
  PROVE  beatRef[r] \in Refs /\ r <= run /\ run > 0
  BY StatusAssumption DEF TypeInv, TypeOK, RunInv, Runs

LEMMA TypeInit == Init => TypeInv
  <1> SUFFICES ASSUME Init PROVE TypeInv
    OBVIOUS
  <1>1. TypeOK
    <2>1. file \in [Refs -> Content \cup {None}]
      BY DEF Init, OldDone, OldRunning, Content
    <2>2. aged \subseteq Refs
      BY DEF Init
    <2> QED
      BY <2>1, <2>2, EmptyType, StatusAssumption DEF Init, TypeOK, Runs, SessPC, LoopPC, Fds
  <1>2. RunInv
    BY StatusAssumption DEF Init, RunInv, NoWrite, Empty, Runs
  <1> QED
    BY <1>1, <1>2 DEF TypeInv

LEMMA TypeStep == TypeInv /\ [Next]_vars => TypeInv'
  <1> SUFFICES ASSUME TypeInv, [Next]_vars PROVE TypeInv'
    OBVIOUS
  <1> USE StatusAssumption
  <1>t. TypeOK /\ RunInv
    BY DEF TypeInv
  <1>1. CASE \E ref \in Refs : Begin(ref)
    <2> PICK ref \in Refs : Begin(ref)
      BY <1>1
    <2>1. run \in Nat /\ run + 1 \in Runs /\ run < MaxRuns
      BY <1>t DEF TypeOK, Begin, Runs
    <2>2. TypeOK'
      BY <1>t, <2>1 DEF Begin, WriteStatus, TypeOK, SessPC, WrPC, Content, dirVars, hygieneVars
    <2>3. RunInv'
      BY <1>t, <2>1 DEF Begin, WriteStatus, TypeOK, RunInv, Runs, hygieneVars
    <2> QED
      BY <2>2, <2>3 DEF TypeInv
  <1>2. CASE WriteRm
    <2>1. TypeOK'
      BY <1>2, <1>t, FdMoves, FollowType DEF WriteRm, TypeOK, WrPC, beatVars, hygieneVars
    <2>2. RunInv'
      BY <1>2, <1>t DEF WriteRm, TypeOK, RunInv, beatVars, hygieneVars
    <2> QED
      BY <2>1, <2>2 DEF TypeInv
  <1>3. CASE WriteOpen
    <2>1. TypeOK'
      BY <1>3, <1>t, EmptyType DEF WriteOpen, TypeOK, WrPC, Fds, beatVars, hygieneVars
    <2>2. RunInv'
      BY <1>3, <1>t DEF WriteOpen, TypeOK, RunInv, beatVars, hygieneVars
    <2> QED
      BY <2>1, <2>2 DEF TypeInv
  <1>4. CASE WriteData
    <2>1. wr.json \in Content
      BY <1>t DEF TypeOK
    <2>2. TypeOK'
      BY <1>4, <1>t, <2>1, PutType DEF WriteData, TypeOK, WrPC, Fds, beatVars, hygieneVars
    <2>3. RunInv'
      BY <1>4, <1>t DEF WriteData, TypeOK, RunInv, beatVars, hygieneVars
    <2> QED
      BY <2>2, <2>3 DEF TypeInv
  <1>5. CASE WriteMv
    <2>1. cur \in Refs
      BY <1>5, <1>t, CurIsRef DEF WriteMv, TypeInv, RunInv, TypeOK
    <2>2. TypeOK'
      BY <1>5, <1>t, <2>1, EmptyType, RenameType DEF WriteMv, TypeOK, SessPC, beatVars, hygieneVars
    <2>3. RunInv'
      BY <1>5, <1>t DEF WriteMv, TypeOK, RunInv, NoWrite, Empty, beatVars, hygieneVars
    <2> QED
      BY <2>2, <2>3 DEF TypeInv
  <1>6. CASE StartHeartbeat
    BY <1>6, <1>t DEF StartHeartbeat, TypeInv, TypeOK, RunInv, Runs, SessPC, LoopPC, dirVars, hygieneVars
  <1>7. CASE SkipIssue \/ DroidDone
    BY <1>7, <1>t DEF SkipIssue, DroidDone, TypeInv, TypeOK, RunInv, SessPC, beatVars, dirVars, hygieneVars
  <1>8. CASE StopHeartbeat \/ TrapStop
    BY <1>8, <1>t, StopType DEF StopHeartbeat, TrapStop, TypeInv, TypeOK, RunInv, SessPC, dirVars, hygieneVars
  <1>9. CASE WriteTerminal
    BY <1>9, <1>t DEF WriteTerminal, WriteStatus, TypeInv, TypeOK, RunInv, SessPC, WrPC, Content, beatVars, dirVars, hygieneVars
  <1>10. CASE Exit
    BY <1>10, <1>t, EmptyType DEF Exit, TypeInv, TypeOK, RunInv, SessPC, NoWrite, Empty, Fds, beatVars, hygieneVars
  <1>11. CASE TrapRepair
    BY <1>11, <1>t DEF TrapRepair, WriteStatus, TypeInv, TypeOK, RunInv, SessPC, WrPC, Content, NoWrite, beatVars, dirVars, hygieneVars
  <1>12. CASE KillSession
    BY <1>12, <1>t, EmptyType DEF KillSession, TypeInv, TypeOK, RunInv, SessPC, NoWrite, Empty, Fds, beatVars, hygieneVars
  <1>13. CASE \E r \in Runs : Beat(r)
    <2> PICK r \in Runs : Beat(r)
      BY <1>13
    <2>1. Back(r) \in LoopPC
      BY DEF Back, LoopPC
    <2>2. ASSUME loop[r] # "off", loop' = [loop EXCEPT ![r] = loop'[r]],
                 UNCHANGED <<sessionVars, beatRef, hygieneVars>>
          PROVE  RunInv'
      BY <1>t, <2>2, ActiveHasRef DEF TypeInv, RunInv, TypeOK, Runs, sessionVars, hygieneVars
    <2>3. CASE BeatCheck(r)
      BY <1>t, <2>2, <2>3 DEF BeatCheck, TypeInv, TypeOK, LoopPC, sessionVars, dirVars, hygieneVars
    <2>4. CASE BeatRead(r)
      <3>1. Status(beatRef[r]) \in Content
        BY <1>t, <2>4, ActiveHasRef, EmptyType DEF BeatRead, Status, TypeOK
      <3> QED
        BY <1>t, <2>1, <2>2, <2>4, <3>1 DEF BeatRead, TypeInv, TypeOK, LoopPC, sessionVars, dirVars, hygieneVars
    <2>5. CASE BeatOpen(r)
      <3>1. TypeOK'
        BY <1>t, <2>5, EmptyType DEF BeatOpen, TypeOK, LoopPC, Fds, sessionVars, hygieneVars
      <3>2. RunInv'
        BY <2>2, <2>5 DEF BeatOpen
      <3> QED
        BY <3>1, <3>2 DEF TypeInv
    <2>6. CASE BeatFlush(r)
      BY <1>t, <2>2, <2>6, EmptyType, PutType DEF BeatFlush, TypeInv, TypeOK, LoopPC, Fds, sessionVars, hygieneVars
    <2>7. CASE BeatRename(r)
      BY <1>t, <2>1, <2>2, <2>7, ActiveHasRef, RenameType DEF BeatRename, TypeInv, TypeOK, sessionVars, hygieneVars
    <2> QED
      BY <2>3, <2>4, <2>5, <2>6, <2>7 DEF Beat
  <1>14. CASE HygieneFind
    BY <1>14, <1>t DEF HygieneFind, TypeInv, TypeOK, RunInv, sessionVars, beatVars, dirVars
  <1>15. CASE \E ref \in Refs : HygieneRead(ref)
    BY <1>15, <1>t DEF HygieneRead, TypeInv, TypeOK, RunInv, sessionVars, beatVars, dirVars
  <1>16. CASE HygieneArchive
    <2>1. TypeOK'
      BY <1>16, <1>t, FdMoves, FollowType DEF HygieneArchive, TypeOK, sessionVars, beatVars
    <2>2. RunInv'
      BY <1>16, <1>t DEF HygieneArchive, RunInv, sessionVars, beatVars
    <2> QED
      BY <2>1, <2>2 DEF TypeInv
  <1>17. CASE UNCHANGED vars
    BY <1>17, <1>t DEF TypeInv, TypeOK, RunInv, vars, sessionVars, beatVars, dirVars, hygieneVars
  <1> QED
    BY <1>1, <1>2, <1>3, <1>4, <1>5, <1>6, <1>7, <1>8, <1>9, <1>10, <1>11, <1>12,
       <1>13, <1>14, <1>15, <1>16, <1>17 DEF Next, Session

\* Type correctness of the status protocol, for all constants.
THEOREM StatusTypeCorrect == Spec => []TypeOK
  <1>1. TypeInv => TypeOK
    BY DEF TypeInv
  <1> QED
    BY <1>1, TypeInit, TypeStep, PTL DEF Spec

---------------------------------------------------------------------------
(* The protocol while nothing is disturbed.                                *)

\* An issue has one run.
LEMMA OneRun ==
  ASSUME TypeInv, Undisturbed, NEW r \in Runs, NEW q \in Runs,
         beatRef[r] = beatRef[q], beatRef[r] \in Refs
  PROVE  r = q
  BY StatusAssumption DEF Undisturbed

\* What an undisturbed stop does: the tracked loop ends.
LEMMA StopCalm ==
  ASSUME TypeInv, Undisturbed', StopTracked
  PROVE  /\ killed' = killed
         /\ \A r \in Runs : loop'[r] = IF r = tracked THEN "off" ELSE loop[r]
  <1>1. CASE tracked = 0
    BY <1>1 DEF StopTracked, Runs, TypeInv, TypeOK
  <1>2. CASE tracked # 0
    <2>1. tracked \in Runs
      BY <1>2 DEF TypeInv, TypeOK, Runs
    <2>2. killed' # [killed EXCEPT ![tracked] = TRUE]
      BY <2>1 DEF Undisturbed, TypeInv, TypeOK
    <2> QED
      BY <1>2, <2>1, <2>2 DEF TypeInv, TypeOK, StopTracked
  <1> QED
    BY <1>1, <1>2

\* Only the steps below touch killed or beatRef, and none of them repairs
\* a disturbance.
LEMMA CalmBefore == TypeInv /\ [Next]_vars /\ Undisturbed' => Undisturbed
  <1> SUFFICES ASSUME TypeInv, [Next]_vars, Undisturbed' PROVE Undisturbed
    OBVIOUS
  <1>1. CASE \E ref \in Refs : Begin(ref)
    <2> PICK ref \in Refs : Begin(ref)
      BY <1>1
    <2>1. run + 1 \in Runs /\ beatRef[run + 1] = None
      BY StatusAssumption DEF Begin, TypeInv, TypeOK, RunInv, Runs
    <2>2. \A r \in Runs : beatRef[r] # None => r # run + 1 /\ beatRef'[r] = beatRef[r]
      BY <2>1 DEF Begin, TypeInv, TypeOK
    <2>3. killed' = killed
      BY DEF Begin
    <2>4. ASSUME NEW r1 \in Runs, NEW r2 \in Runs, r1 # r2, beatRef[r1] # None
          PROVE  beatRef[r1] # beatRef[r2]
      BY <2>2, <2>4 DEF Undisturbed
    <2> QED
      BY <2>3, <2>4 DEF Undisturbed
  <1>2. CASE StopHeartbeat \/ TrapStop
    <2>1. beatRef' = beatRef /\ killed' = killed
      BY <1>2, StopCalm DEF StopHeartbeat, TrapStop
    <2> QED
      BY <2>1 DEF Undisturbed
  <1>3. CASE UNCHANGED <<killed, beatRef>>
    BY <1>3 DEF Undisturbed
  <1>4. [Next]_vars => \/ \E ref \in Refs : Begin(ref)
                       \/ StopHeartbeat \/ TrapStop
                       \/ UNCHANGED <<killed, beatRef>>
    BY DEF Next, Session, Beat, WriteRm, WriteOpen, WriteData, WriteMv, StartHeartbeat,
       SkipIssue, DroidDone, WriteTerminal, Exit, TrapRepair, KillSession, BeatCheck,
       BeatRead, BeatOpen, BeatFlush, BeatRename, HygieneFind, HygieneRead,
       HygieneArchive, vars, sessionVars, beatVars, dirVars, hygieneVars
  <1> QED
    BY <1>1, <1>2, <1>3, <1>4

\* While the session writes the file of the current issue, no heartbeat of it
\* is alive, so nobody else has its temporary file open.
LEMMA SoleWriter ==
  ASSUME TypeInv, Undisturbed, Calm, sp = "write"
  PROVE  /\ cur \in Refs
         /\ \A r \in Runs : loop[r] # "off" => beatRef[r] # cur /\ beatRef[r] \in Refs
         /\ \A r \in Runs : beatRef[r] = cur => hfd[r] = "closed"
         /\ \A r \in Runs : hfd[r] \in {"closed", "tmp"} /\ (hfd[r] # "closed" => loop[r] = "flush")
  <1>1. cur \in Refs
    BY CurIsRef DEF TypeInv, TypeOK, RunInv
  <1> QED
    BY <1>1, ActiveHasRef DEF Calm, LoopCalm, TmpCalm

\* Publishing a temporary file nobody has open.
LEMMA RenameCalm ==
  ASSUME TypeInv, Calm, NEW ref \in Refs, Rename(ref), tmp[ref] # None,
         cur = ref => wfd = "closed",
         \A r \in Runs : beatRef[r] = ref => hfd[r] = "closed"
  PROVE  /\ file' = [file EXCEPT ![ref] = tmp[ref]]
         /\ tmp' = [tmp EXCEPT ![ref] = None]
         /\ hfd' = hfd /\ wfd' = wfd
  BY FdMoves DEF Rename, Follow, TypeInv, TypeOK

LEMMA CalmInit == Init => (Undisturbed => Calm)
  <1> SUFFICES ASSUME Init PROVE Calm
    OBVIOUS
  <1>1. TypeInv
    BY TypeInit
  <1>2. \A ref \in Refs : file[ref] # Empty
    BY StatusAssumption, EmptyType DEF Init, OldDone, OldRunning, Empty
  <1> QED
    BY <1>1, <1>2 DEF Init, Calm, LoopCalm, TmpCalm, FileCalm, NoWrite

\* The steps of the session.
LEMMA CalmSession ==
  ASSUME TypeInv, TypeInv', Undisturbed, Undisturbed', Calm, Session
  PROVE  Calm'
  <1>t. TypeOK /\ RunInv /\ LoopCalm /\ TmpCalm /\ FileCalm
    BY DEF TypeInv, Calm
  <1>1. CASE \E ref \in Refs : Begin(ref)
    <2> PICK ref \in Refs : Begin(ref)
      BY <1>1
    <2>1. run + 1 \in Runs /\ run' = run + 1 /\ cur' = ref /\ loop' = loop
      BY StatusAssumption DEF Begin, TypeInv, TypeOK, Runs
    <2>2. \A r \in Runs : loop[r] # "off" => beatRef'[r] = beatRef[r] /\ beatRef'[r] # ref
      <3> SUFFICES ASSUME NEW r \in Runs, loop[r] # "off"
                   PROVE  beatRef'[r] = beatRef[r] /\ beatRef'[r] # ref
        OBVIOUS
      <3>1. beatRef[r] \in Refs /\ r <= run /\ r # run + 1
        BY ActiveHasRef DEF TypeInv, TypeOK, Runs
      <3>2. beatRef'[r] = beatRef[r] /\ beatRef'[run + 1] = ref
        BY <2>1, <3>1 DEF Begin, TypeInv, TypeOK
      <3> QED
        BY <2>1, <3>1, <3>2, StatusAssumption DEF Undisturbed
    <2>3. sp' = "write" /\ loop[run + 1] = "off" /\ wr'.pc = "rm" /\ wr.pc = "idle"
      BY <1>t, <2>1 DEF Begin, WriteStatus, RunInv, TypeOK, Runs
    <2>4. LoopCalm'
      BY <2>1, <2>2, <2>3 DEF LoopCalm
    <2>5. TmpCalm'
      BY <1>t, <2>1, <2>2, <2>3 DEF TmpCalm, Begin, dirVars
    <2>6. FileCalm'
      BY <1>t, <2>1, <2>2, <2>3 DEF FileCalm, Begin, dirVars, Terminal, Is, Status
    <2> QED
      BY <2>4, <2>5, <2>6 DEF Calm
  <1>2. CASE WriteRm
    <2>1. sp' = "write" /\ sp = "write" /\ wr.pc = "rm" /\ wr'.pc = "open" /\ wfd = "closed"
      BY <1>2, <1>t DEF WriteRm, TypeOK, TmpCalm
    <2>2. hfd' = hfd /\ wfd' = "closed"
      BY <1>2, <2>1, SoleWriter, FdMoves, <1>t DEF WriteRm, Follow, TypeOK
    <2>3. \A r \in Runs : loop[r] # "off" => tmp'[beatRef[r]] = tmp[beatRef[r]]
      BY <1>2, <2>1, SoleWriter, <1>t DEF WriteRm, TypeOK
    <2>4. LoopCalm' /\ FileCalm'
      BY <1>2, <1>t DEF WriteRm, LoopCalm, FileCalm, Terminal, Is, Status, beatVars
    <2>5. TmpCalm'
      BY <1>2, <1>t, <2>1, <2>2, <2>3 DEF WriteRm, TmpCalm, beatVars
    <2> QED
      BY <2>4, <2>5 DEF Calm
  <1>3. CASE WriteOpen
    <2>1. sp = "write" /\ wr'.pc = "data" /\ wfd' = "tmp" /\ tmp'[cur] = Empty
      BY <1>3, <1>t, SoleWriter DEF WriteOpen, TypeOK
    <2>2. \A r \in Runs : loop[r] # "off" => tmp'[beatRef[r]] = tmp[beatRef[r]]
      BY <1>3, <2>1, SoleWriter, <1>t DEF WriteOpen, TypeOK
    <2>3. LoopCalm' /\ FileCalm'
      BY <1>3, <1>t DEF WriteOpen, LoopCalm, FileCalm, Terminal, Is, Status, beatVars
    <2>4. TmpCalm'
      BY <1>3, <1>t, <2>1, <2>2 DEF WriteOpen, TmpCalm, beatVars
    <2> QED
      BY <2>3, <2>4 DEF Calm
  <1>4. CASE WriteData
    <2>1. /\ sp = "write" /\ wr'.pc = "mv" /\ wr'.json = wr.json /\ wfd' = "closed"
          /\ wfd = "tmp" /\ tmp[cur] = Empty
      BY <1>4, <1>t DEF WriteData, TypeOK, TmpCalm
    <2>2. file' = file /\ tmp' = [tmp EXCEPT ![cur] = wr.json]
      BY <1>4, <2>1 DEF WriteData, Put
    <2>3. tmp'[cur] = wr.json /\ \A r \in Runs : loop[r] # "off" => tmp'[beatRef[r]] = tmp[beatRef[r]]
      BY <2>1, <2>2, SoleWriter, <1>t DEF TypeOK
    <2>4. LoopCalm' /\ FileCalm'
      BY <1>4, <1>t, <2>2 DEF WriteData, LoopCalm, FileCalm, Terminal, Is, Status, beatVars
    <2>5. TmpCalm'
      BY <1>4, <1>t, <2>1, <2>3 DEF WriteData, TmpCalm, beatVars
    <2> QED
      BY <2>4, <2>5 DEF Calm
  <1>5. CASE WriteMv
    <2>1. sp = "write" /\ wr.pc = "mv" /\ tmp[cur] = wr.json /\ cur \in Refs /\ wfd = "closed"
      BY <1>5, <1>t, SoleWriter DEF WriteMv, TmpCalm
    <2>2. tmp[cur] # None /\ wr.json.st # "empty" /\ wr.json \in Content
      BY <1>t, <2>1, StatusAssumption DEF TypeOK, RunInv
    <2>3. file' = [file EXCEPT ![cur] = wr.json] /\ tmp' = [tmp EXCEPT ![cur] = None]
          /\ hfd' = hfd /\ wfd' = wfd
      BY <1>5, <2>1, <2>2, RenameCalm, SoleWriter DEF WriteMv
    <2>4. \A r \in Runs : loop[r] # "off" =>
             tmp'[beatRef[r]] = tmp[beatRef[r]] /\ file'[beatRef[r]] = file[beatRef[r]]
      BY <2>1, <2>3, SoleWriter, <1>t DEF TypeOK
    <2>5. file'[cur] = wr.json /\ file'[cur] # None /\ wr'.pc = "idle" /\ sp' = wr.then
      BY <1>5, <1>t, <2>1, <2>2, <2>3 DEF TypeOK, WriteMv, NoWrite
    <2>6. LoopCalm'
      <3>1. cur' = cur /\ run' = run /\ loop' = loop /\ beatRef' = beatRef /\ run > 0
        BY <1>5, <1>t, <2>1 DEF WriteMv, beatVars, RunInv, TypeOK
      <3>2. \A r \in Runs : loop[r] # "off" => beatRef[r] # cur
        BY <2>1, SoleWriter
      <3>3. beatRef[run] = cur /\ run \in Runs
        BY <3>1, CurIsRef, <1>t DEF RunInv
      <3> QED
        BY <3>1, <3>2, <3>3 DEF LoopCalm
    <2>7. TmpCalm'
      BY <1>5, <1>t, <2>1, <2>3, <2>4, <2>5 DEF WriteMv, TmpCalm, beatVars
    <2>8. FileCalm'
      <3>1. \A ref \in Refs : file'[ref] # Empty
        BY <1>t, <2>2, <2>3, <2>5 DEF FileCalm, TypeOK, Empty
      <3>2. \A r \in Runs : loop'[r] # "off" => ~Terminal(beatRef[r])'
        BY <1>5, <1>t, <2>4 DEF WriteMv, FileCalm, Terminal, Is, Status, beatVars
      <3>3. sp' = "beat" => ~Terminal(cur)'
        BY <1>5, <1>t, <2>5 DEF WriteMv, RunInv, Terminal, Is, Status
      <3>4. sp' = "ended" => ~Is(cur, "running")'
        BY <1>5, <1>t, <2>5 DEF WriteMv, RunInv, Is, Status
      <3> QED
        BY <3>1, <3>2, <3>3, <3>4 DEF FileCalm, Terminal, Is, Status
    <2> QED
      BY <2>6, <2>7, <2>8 DEF Calm
  <1>6. CASE StartHeartbeat
    <2>1. run > 0 /\ run \in Runs /\ cur \in Refs /\ beatRef[run] = cur
      BY <1>6, <1>t, CurIsRef DEF StartHeartbeat, RunInv, TypeOK
    <2>2. loop[run] = "off"
      BY <1>6, <1>t, <2>1 DEF StartHeartbeat, LoopCalm
    <2>3. LoopCalm'
      BY <1>6, <1>t, <2>1 DEF StartHeartbeat, LoopCalm, TypeOK
    <2>4. TmpCalm'
      BY <1>6, <1>t, <2>1, <2>2 DEF StartHeartbeat, TmpCalm, TypeOK, dirVars
    <2>5. FileCalm'
      BY <1>6, <1>t, <2>1 DEF StartHeartbeat, FileCalm, TypeOK, Terminal, Is, Status, dirVars
    <2> QED
      BY <2>3, <2>4, <2>5 DEF Calm
  <1>7. CASE SkipIssue \/ DroidDone \/ WriteTerminal \/ TrapRepair
    <2>1. LoopCalm'
      BY <1>7, <1>t DEF SkipIssue, DroidDone, WriteTerminal, TrapRepair, LoopCalm, beatVars
    <2>2. TmpCalm'
      BY <1>7, <1>t DEF SkipIssue, DroidDone, WriteTerminal, TrapRepair, WriteStatus, TmpCalm,
            RunInv, NoWrite, beatVars, dirVars
    <2>3. FileCalm'
      BY <1>7, <1>t DEF SkipIssue, DroidDone, WriteTerminal, TrapRepair, FileCalm, Terminal,
            Is, Status, beatVars, dirVars
    <2> QED
      BY <2>1, <2>2, <2>3 DEF Calm
  <1>8. CASE StopHeartbeat \/ TrapStop
    <2>1. \A r \in Runs : loop'[r] = IF r = tracked THEN "off" ELSE loop[r]
      BY <1>8, StopCalm DEF StopHeartbeat, TrapStop
    <2>2. \A r \in Runs : loop[r] # "off" /\ beatRef[r] = cur => r = tracked
      <3> SUFFICES ASSUME NEW r \in Runs, loop[r] # "off", beatRef[r] = cur PROVE r = tracked
        OBVIOUS
      <3>1. run > 0 /\ run \in Runs /\ beatRef[run] = cur /\ cur \in Refs
        BY <1>t, ActiveHasRef, CurIsRef DEF RunInv
      <3>2. r = run
        BY <3>1, OneRun
      <3> QED
        BY <1>8, <1>t, <3>1, <3>2 DEF LoopCalm, StopHeartbeat, TrapStop
    <2>3. tracked # 0 => tracked \in Runs /\ loop[tracked] \notin {"flush", "rename", "open"}
      <3> SUFFICES ASSUME tracked # 0
                   PROVE  tracked \in Runs /\ loop[tracked] \notin {"flush", "rename", "open"}
        OBVIOUS
      <3>1. tracked \in Runs
        BY <1>t DEF TypeOK, Runs
      <3>2. killed' = killed /\ killed[tracked] = FALSE
        BY <1>8, <3>1, StopCalm, <1>t DEF StopHeartbeat, TrapStop, Undisturbed, TypeOK
      <3> QED
        BY <1>8, <1>t, <3>1, <3>2 DEF StopHeartbeat, TrapStop, StopTracked, TypeOK
    <2>4. LoopCalm'
      <3>1. sp' \in {"stamp", "repair"} /\ cur' = cur /\ beatRef' = beatRef
        BY <1>8 DEF StopHeartbeat, TrapStop
      <3> QED
        BY <2>1, <2>2, <3>1 DEF LoopCalm
    <2>5. TmpCalm'
      <3>1. UNCHANGED <<tmp, hfd, wfd, wr, cur, got, beatRef>>
        BY <1>8 DEF StopHeartbeat, TrapStop, dirVars
      <3>2. \A r \in Runs : hfd[r] = IF loop'[r] = "flush" THEN "tmp" ELSE "closed"
        <4> SUFFICES ASSUME NEW r \in Runs
                     PROVE  hfd[r] = IF loop'[r] = "flush" THEN "tmp" ELSE "closed"
          OBVIOUS
        <4>1. hfd[r] = IF loop[r] = "flush" THEN "tmp" ELSE "closed"
          BY <1>t DEF TmpCalm
        <4>2. CASE r = tracked
          BY <2>1, <2>3, <4>1, <4>2 DEF Runs
        <4>3. CASE r # tracked
          BY <2>1, <4>1, <4>3
        <4> QED
          BY <4>2, <4>3
      <3>3. \A r \in Runs : loop'[r] # "off" => loop'[r] = loop[r]
        BY <2>1
      <3>4. \A r \in Runs : /\ loop'[r] = "flush" => tmp[beatRef[r]] = Empty
                            /\ loop'[r] = "rename" => Beating(tmp[beatRef[r]])
                            /\ loop'[r] \in {"open", "flush"} => Beating(got[r])
        BY <1>t, <3>3 DEF TmpCalm
      <3> QED
        BY <1>t, <3>1, <3>2, <3>4 DEF TmpCalm
    <2>6. FileCalm'
      BY <1>8, <1>t, <2>1 DEF StopHeartbeat, TrapStop, FileCalm, Terminal, Is, Status, dirVars
    <2> QED
      BY <2>4, <2>5, <2>6 DEF Calm
  <1>9. CASE Exit
    <2>1. LoopCalm'
      BY <1>9, <1>t, CurIsRef DEF Exit, LoopCalm, RunInv, beatVars
    <2>2. TmpCalm'
      BY <1>9, <1>t DEF Exit, TmpCalm, NoWrite, beatVars
    <2>3. FileCalm'
      BY <1>9, <1>t DEF Exit, FileCalm, Terminal, Is, Status, beatVars
    <2> QED
      BY <2>1, <2>2, <2>3 DEF Calm
  <1> QED
    BY <1>1, <1>2, <1>3, <1>4, <1>5, <1>6, <1>7, <1>8, <1>9 DEF Session

\* The steps of a heartbeat.
LEMMA CalmBeat ==
  ASSUME TypeInv, Undisturbed, Undisturbed', Calm, NEW r \in Runs, Beat(r)
  PROVE  Calm'
  <1>t. TypeOK /\ RunInv /\ LoopCalm /\ TmpCalm /\ FileCalm
    BY DEF TypeInv, Calm
  <1>1. loop[r] # "off" /\ UNCHANGED <<sessionVars, killed, beatRef, hygieneVars>>
    BY DEF Beat, BeatCheck, BeatRead, BeatOpen, BeatFlush, BeatRename
  <1>2. beatRef[r] \in Refs /\ ~Terminal(beatRef[r])
    BY <1>t, <1>1, ActiveHasRef DEF FileCalm
  <1>3. \A q \in Runs : loop'[q] # "off" => loop[q] # "off"
    BY <1>t, <1>1 DEF TypeOK, Beat, BeatCheck, BeatRead, BeatOpen, BeatFlush, BeatRename
  <1>4. \A q \in Runs : q # r => loop'[q] = loop[q] /\ got'[q] = got[q]
    BY <1>t DEF TypeOK, Beat, BeatCheck, BeatRead, BeatOpen, BeatFlush, BeatRename
  <1>5. \A q \in Runs : q # r /\ loop[q] # "off" => beatRef[q] # beatRef[r]
    BY <1>2, OneRun
  <1>6. cur = beatRef[r] => sp # "write" /\ wr.pc = "idle" /\ wfd = "closed"
    BY <1>t, <1>1 DEF LoopCalm, RunInv, TmpCalm
  <1>7. LoopCalm'
    <2>1. run > 0 /\ sp \in {"work", "stop", "trap", "next"} /\ loop'[run] # "off" => tracked = run
      BY <1>t, <1>3, CurIsRef DEF LoopCalm
    <2> QED
      BY <1>t, <1>1, <1>3, <2>1 DEF LoopCalm, sessionVars
  <1>8. killed[r] = FALSE /\ Back(r) = "sleep"
    BY DEF Undisturbed, Back
  <1>9. CASE BeatCheck(r)
    <2>1. loop'[r] \in {"read", "off"}
      BY <1>9, <1>t DEF BeatCheck, TypeOK
    <2>2. TmpCalm'
      <3>1. UNCHANGED <<tmp, hfd, wfd, wr, cur, got, beatRef>>
        BY <1>9 DEF BeatCheck, dirVars, sessionVars
      <3>2. \A q \in Runs : hfd[q] = IF loop'[q] = "flush" THEN "tmp" ELSE "closed"
        BY <1>9, <1>t, <1>4, <2>1 DEF TmpCalm, BeatCheck
      <3> QED
        BY <1>t, <1>4, <2>1, <3>1, <3>2 DEF TmpCalm
    <2>3. FileCalm'
      BY <1>9, <1>t, <1>3 DEF BeatCheck, FileCalm, Terminal, Is, Status, dirVars, sessionVars
    <2> QED
      BY <1>7, <2>2, <2>3 DEF Calm
  <1>10. CASE BeatRead(r)
    <2>1. loop[r] = "read" /\ loop'[r] \in {"sleep", "open"} /\ (loop'[r] = "open" => Beating(got'[r]))
      BY <1>10, <1>t, <1>2, <1>8 DEF BeatRead, TypeOK, Beating, Terminal, Is
    <2>2. TmpCalm'
      <3>1. UNCHANGED <<tmp, hfd, wfd, wr, cur, beatRef>>
        BY <1>10 DEF BeatRead, dirVars, sessionVars
      <3>2. \A q \in Runs : hfd[q] = IF loop'[q] = "flush" THEN "tmp" ELSE "closed"
        BY <1>t, <1>4, <2>1 DEF TmpCalm
      <3> QED
        BY <1>t, <1>4, <2>1, <3>1, <3>2 DEF TmpCalm
    <2>3. FileCalm'
      BY <1>10, <1>t, <1>3 DEF BeatRead, FileCalm, Terminal, Is, Status, dirVars, sessionVars
    <2> QED
      BY <1>7, <2>2, <2>3 DEF Calm
  <1>11. CASE BeatOpen(r)
    <2>1. loop[r] = "open" /\ loop'[r] = "flush" /\ hfd' = [hfd EXCEPT ![r] = "tmp"] /\ tmp'[beatRef[r]] = Empty
      BY <1>11, <1>t, <1>2 DEF BeatOpen, TypeOK
    <2>2. \A ref \in Refs : ref # beatRef[r] => tmp'[ref] = tmp[ref]
      BY <1>11, <1>t DEF BeatOpen, TypeOK
    <2>3. TmpCalm'
      <3>1. UNCHANGED <<wfd, wr, cur, got, beatRef>>
        BY <1>11 DEF BeatOpen, sessionVars
      <3>2. \A q \in Runs : hfd'[q] = IF loop'[q] = "flush" THEN "tmp" ELSE "closed"
        BY <1>t, <1>4, <2>1 DEF TmpCalm, TypeOK
      <3>3. \A q \in Runs : q # r /\ loop[q] # "off" => tmp'[beatRef[q]] = tmp[beatRef[q]]
        BY <1>5, <2>2, ActiveHasRef
      <3>4. wr.pc # "idle" => cur # beatRef[r] /\ cur \in Refs
        BY <1>6, <1>t, CurIsRef DEF RunInv, TypeOK
      <3>5. wr.pc # "idle" => tmp'[cur] = tmp[cur]
        BY <3>4, <2>2
      <3> QED
        BY <1>t, <1>4, <2>1, <3>1, <3>2, <3>3, <3>5 DEF TmpCalm
    <2>4. FileCalm'
      BY <1>11, <1>t, <1>3 DEF BeatOpen, FileCalm, Terminal, Is, Status, sessionVars
    <2> QED
      BY <1>7, <2>3, <2>4 DEF Calm
  <1>12. CASE BeatFlush(r)
    <2>1. loop[r] = "flush" /\ loop'[r] = "rename" /\ hfd' = [hfd EXCEPT ![r] = "closed"]
          /\ hfd[r] = "tmp" /\ tmp[beatRef[r]] = Empty /\ Beating(got[r])
      BY <1>12, <1>t, <1>2 DEF BeatFlush, TypeOK, TmpCalm
    <2>2. file' = file /\ tmp' = [tmp EXCEPT ![beatRef[r]] = got[r]]
      BY <1>12, <2>1 DEF BeatFlush, Put
    <2>3. Beating(tmp'[beatRef[r]]) /\ \A ref \in Refs : ref # beatRef[r] => tmp'[ref] = tmp[ref]
      BY <1>t, <1>2, <2>1, <2>2 DEF TypeOK
    <2>4. TmpCalm'
      <3>1. UNCHANGED <<wfd, wr, cur, beatRef>>
        BY <1>12 DEF BeatFlush, sessionVars
      <3>2. \A q \in Runs : hfd'[q] = IF loop'[q] = "flush" THEN "tmp" ELSE "closed"
        BY <1>t, <1>4, <2>1 DEF TmpCalm, TypeOK
      <3>3. \A q \in Runs : q # r /\ loop[q] # "off" => tmp'[beatRef[q]] = tmp[beatRef[q]]
        BY <1>5, <2>3, ActiveHasRef
      <3>4. wr.pc # "idle" => cur # beatRef[r] /\ cur \in Refs
        BY <1>6, <1>t, CurIsRef DEF RunInv, TypeOK
      <3>5. wr.pc # "idle" => tmp'[cur] = tmp[cur]
        BY <3>4, <2>3
      <3> QED
        BY <1>t, <1>4, <2>1, <2>3, <3>1, <3>2, <3>3, <3>5 DEF TmpCalm
    <2>5. FileCalm'
      BY <1>12, <1>t, <1>3, <2>2 DEF BeatFlush, FileCalm, Terminal, Is, Status, sessionVars
    <2> QED
      BY <1>7, <2>4, <2>5 DEF Calm
  <1>13. CASE BeatRename(r)
    <2>1. loop[r] = "rename" /\ loop'[r] = "sleep" /\ got' = got /\ Beating(tmp[beatRef[r]])
      BY <1>13, <1>t, <1>8 DEF BeatRename, TypeOK, TmpCalm
    <2> DEFINE ref == beatRef[r]
    <2>2. \A q \in Runs : beatRef[q] = ref => hfd[q] = "closed"
      BY <1>t, <1>2, <2>1, OneRun DEF TmpCalm
    <2>3. CASE tmp[ref] = None
      <3>1. UNCHANGED dirVars
        BY <1>13, <2>3 DEF BeatRename, Rename
      <3>2. \A q \in Runs : hfd[q] = IF loop'[q] = "flush" THEN "tmp" ELSE "closed"
        BY <1>t, <1>4, <2>1 DEF TmpCalm
      <3>3. TmpCalm'
        BY <1>t, <1>1, <1>4, <2>1, <3>1, <3>2 DEF TmpCalm, dirVars, sessionVars
      <3>4. FileCalm'
        BY <1>t, <1>1, <1>3, <3>1 DEF FileCalm, Terminal, Is, Status, dirVars, sessionVars
      <3> QED
        BY <1>7, <3>3, <3>4 DEF Calm
    <2>4. CASE tmp[ref] # None
      <3>1. /\ file' = [file EXCEPT ![ref] = tmp[ref]]
            /\ tmp' = [tmp EXCEPT ![ref] = None]
            /\ hfd' = hfd /\ wfd' = wfd
        BY <1>2, <1>6, <1>13, <2>2, <2>4, RenameCalm DEF BeatRename
      <3>2. \A q \in Runs : q # r /\ loop[q] # "off" =>
               tmp'[beatRef[q]] = tmp[beatRef[q]] /\ file'[beatRef[q]] = file[beatRef[q]]
        BY <1>5, <3>1, ActiveHasRef, <1>t DEF TypeOK
      <3>3. file'[ref] = tmp[ref] /\ file'[ref] # Empty /\ ~Terminal(ref)'
        <4>1. beatRef' = beatRef /\ file'[ref] = tmp[ref] /\ Beating(tmp[ref])
          BY <1>1, <1>2, <1>t, <2>1, <3>1 DEF TypeOK
        <4> QED
          BY <2>4, <4>1 DEF Beating, Terminal, Is, Status
      <3>4. wr.pc # "idle" => cur # ref /\ cur \in Refs
        BY <1>6, <1>t, CurIsRef DEF RunInv, TypeOK
      <3>5. wr.pc # "idle" => tmp'[cur] = tmp[cur]
        BY <3>1, <3>4, <1>t DEF TypeOK
      <3>6. \A q \in Runs : hfd[q] = IF loop'[q] = "flush" THEN "tmp" ELSE "closed"
        BY <1>t, <1>4, <2>1 DEF TmpCalm
      <3>7. TmpCalm'
        BY <1>t, <1>1, <1>4, <2>1, <3>1, <3>2, <3>5, <3>6 DEF TmpCalm, sessionVars
      <3>8. \A q \in Runs : loop'[q] # "off" => ~Terminal(beatRef[q])'
        BY <1>t, <1>1, <1>3, <3>2, <3>3 DEF FileCalm, Terminal, Is, Status
      <3>9. cur \in Refs \cup {None} /\ (cur # ref => Status(cur)' = Status(cur))
        BY <1>1, <1>2, <1>t, <3>1 DEF TypeOK, Status, sessionVars
      <3>10. cur = ref => sp \notin {"beat", "ended"}
        BY <1>t, <1>1 DEF LoopCalm
      <3>11. FileCalm'
        BY <1>t, <1>1, <3>1, <3>3, <3>8, <3>9, <3>10 DEF FileCalm, TypeOK, Terminal, Is, sessionVars
      <3> QED
        BY <1>7, <3>7, <3>11 DEF Calm
    <2> QED
      BY <2>3, <2>4
  <1> QED
    BY <1>9, <1>10, <1>11, <1>12, <1>13 DEF Beat

\* Everything else: a SIGKILL, hygiene, a stuttering step.
LEMMA CalmOther ==
  ASSUME TypeInv, Undisturbed, Calm,
         \/ KillSession \/ HygieneFind \/ HygieneArchive \/ UNCHANGED vars
         \/ \E ref \in Refs : HygieneRead(ref)
  PROVE  Calm'
  <1>t. TypeOK /\ RunInv /\ LoopCalm /\ TmpCalm /\ FileCalm
    BY DEF TypeInv, Calm
  <1>1. CASE KillSession
    <2>1. LoopCalm' /\ FileCalm'
      BY <1>1, <1>t DEF KillSession, LoopCalm, FileCalm, Terminal, Is, Status, beatVars
    <2>2. TmpCalm'
      BY <1>1, <1>t DEF KillSession, TmpCalm, NoWrite, beatVars
    <2> QED
      BY <2>1, <2>2 DEF Calm
  <1>2. CASE HygieneArchive
    <2>1. archiving \in Refs
      BY <1>2, <1>t DEF HygieneArchive, TypeOK
    <2>2. \A r \in Runs : hfd[r] \in {"tmp", "closed"} /\ wfd \in {"tmp", "closed"}
      BY <1>t DEF TmpCalm
    <2>3. hfd' = hfd /\ wfd' = wfd
      BY <1>2, <1>t, <2>2, FdMoves DEF HygieneArchive, Follow, TypeOK, TmpCalm
    <2>4. \A ref \in Refs : file'[ref] = file[ref] \/ file'[ref] = None
      BY <1>2, <1>t DEF HygieneArchive, TypeOK
    <2>5. LoopCalm' /\ TmpCalm'
      BY <1>2, <1>t, <2>3 DEF HygieneArchive, LoopCalm, TmpCalm, sessionVars, beatVars
    <2>6. \A ref \in Refs : Status(ref)' = Status(ref) \/ Status(ref)' = Empty
      BY <2>4 DEF Status
    <2>7. FileCalm'
      <3>1. \A ref \in Refs : file'[ref] # Empty
        BY <1>t, <2>4, EmptyType, StatusAssumption DEF FileCalm
      <3>2. UNCHANGED <<sp, cur, run, loop, beatRef>>
        BY <1>2 DEF HygieneArchive, sessionVars, beatVars
      <3>3. \A r \in Runs : loop[r] # "off" => ~Terminal(beatRef[r])'
        BY <1>t, <2>6, <3>2, ActiveHasRef DEF FileCalm, Terminal, Is, Empty
      <3>4. sp \in {"beat", "ended"} => cur \in Refs
        BY <1>t, CurIsRef DEF RunInv, TypeOK
      <3> QED
        BY <1>t, <2>6, <3>1, <3>2, <3>3, <3>4 DEF FileCalm, Terminal, Is, Empty
    <2> QED
      BY <2>5, <2>7 DEF Calm
  <1>3. CASE HygieneFind \/ UNCHANGED vars \/ \E ref \in Refs : HygieneRead(ref)
    <2>1. UNCHANGED <<sessionVars, beatVars, dirVars>>
      BY <1>3 DEF HygieneFind, HygieneRead, vars
    <2>2. LoopCalm' /\ TmpCalm' /\ FileCalm'
      BY <1>t, <2>1 DEF LoopCalm, TmpCalm, FileCalm, Terminal, Is, Status, sessionVars, beatVars, dirVars
    <2> QED
      BY <2>2 DEF Calm
  <1> QED
    BY <1>1, <1>2, <1>3

LEMMA InvStep == IInv /\ [Next]_vars => IInv'
  <1> SUFFICES ASSUME IInv, [Next]_vars PROVE IInv'
    OBVIOUS
  <1>1. TypeInv /\ TypeInv'
    BY TypeStep DEF IInv
  <1>2. ASSUME Undisturbed' PROVE Calm'
    <2>1. Undisturbed /\ Calm
      BY <1>1, <1>2, CalmBefore DEF IInv
    <2>2. CASE Session
      BY <1>1, <1>2, <2>1, <2>2, CalmSession
    <2>3. CASE \E r \in Runs : Beat(r)
      BY <1>1, <1>2, <2>1, <2>3, CalmBeat
    <2>4. CASE \/ KillSession \/ HygieneFind \/ HygieneArchive \/ UNCHANGED vars
               \/ \E ref \in Refs : HygieneRead(ref)
      BY <1>1, <2>1, <2>4, CalmOther
    <2> QED
      BY <2>2, <2>3, <2>4 DEF Next
  <1> QED
    BY <1>1, <1>2 DEF IInv

LEMMA InvInit == Init => IInv
  BY TypeInit, CalmInit DEF IInv

LEMMA InvHolds == Spec => []IInv
  BY InvInit, InvStep, PTL DEF Spec

---------------------------------------------------------------------------
(* The theorems.                                                           *)

\* Status files are whole: whatever the interleaving of the session, its
\* heartbeats and hygiene, a reader finds a parseable file as long as no
\* python child has outlived its loop and no issue is processed twice.
THEOREM NoTornStatusHolds == Spec => []NoTornStatus
  <1>1. IInv => NoTornStatus
    BY DEF IInv, Calm, FileCalm, NoTornStatus, Status
  <1> QED
    BY <1>1, InvHolds, PTL

\* The EXIT trap leaves no "running" behind for the current issue.
THEOREM CurrentIsRepairedHolds == Spec => []CurrentIsRepaired
  <1>1. IInv => CurrentIsRepaired
    BY DEF IInv, Calm, FileCalm, CurrentIsRepaired
  <1> QED
    BY <1>1, InvHolds, PTL

LEMMA FinalStep ==
  ASSUME IInv, [Next]_vars, Undisturbed, NEW ref \in Refs
  PROVE  RevertsOnlyAtStart(ref)
  <1>t. TypeInv /\ TypeOK /\ RunInv /\ Calm /\ LoopCalm /\ TmpCalm /\ FileCalm
    BY DEF IInv, TypeInv, Calm
  <1>1. CASE file' = file
    BY <1>1 DEF RevertsOnlyAtStart, Is, Status
  <1>2. CASE WriteData
    <2>1. wfd = "tmp"
      BY <1>2, <1>t DEF WriteData, TmpCalm
    <2> QED
      BY <1>1, <1>2, <2>1 DEF WriteData, Put
  <1>3. CASE WriteMv
    <2>1. sp = "write" /\ wr.pc = "mv" /\ tmp[cur] = wr.json
      BY <1>3, <1>t DEF WriteMv, TmpCalm
    <2>2. CASE ref = cur
      <3>1. file'[ref] = file[ref] \/ file'[ref] = wr.json
        BY <1>3, <1>t, <2>1, <2>2 DEF WriteMv, Rename, TypeOK, dirVars
      <3>2. Is(ref, "running")' /\ ~Is(ref, "running") => wr.json.st = "running"
        BY <3>1, EmptyType DEF Is, Status, Empty
      <3> QED
        BY <1>t, <2>1, <2>2, <3>2 DEF RevertsOnlyAtStart, RunInv, Is
    <2>3. CASE ref # cur
      <3>1. file'[ref] = file[ref]
        BY <1>3, <1>t, <2>3 DEF WriteMv, Rename, TypeOK, dirVars
      <3> QED
        BY <3>1 DEF RevertsOnlyAtStart, Is, Status
    <2> QED
      BY <2>2, <2>3
  <1>4. CASE \E r \in Runs : Beat(r)
    <2> PICK r \in Runs : Beat(r)
      BY <1>4
    <2>1. loop[r] # "off" /\ beatRef[r] \in Refs /\ ~Terminal(beatRef[r])
      BY <1>t, ActiveHasRef DEF Beat, BeatCheck, BeatRead, BeatOpen, BeatFlush, BeatRename, FileCalm
    <2>2. hfd[r] # "final"
      BY <1>t DEF TmpCalm
    <2>3. ref # beatRef[r] => file'[ref] = file[ref]
      BY <1>t, <2>1, <2>2 DEF TypeOK, Beat, BeatCheck, BeatRead, BeatOpen, BeatFlush, BeatRename,
         Rename, Put, dirVars
    <2> QED
      BY <2>1, <2>3 DEF RevertsOnlyAtStart, Terminal, Is, Status
  <1>5. CASE HygieneArchive
    <2>1. file'[ref] = file[ref] \/ file'[ref] = None
      BY <1>5, <1>t DEF HygieneArchive, TypeOK
    <2> QED
      BY <2>1 DEF RevertsOnlyAtStart, Is, Status, Empty
  <1>6. [Next]_vars => \/ file' = file \/ WriteData \/ WriteMv
                       \/ HygieneArchive
                       \/ \E r \in Runs : Beat(r)
    BY DEF Next, Session, Begin, WriteRm, WriteOpen, StartHeartbeat, SkipIssue, DroidDone,
       StopHeartbeat, WriteTerminal, Exit, TrapStop, TrapRepair, KillSession, HygieneFind,
       HygieneRead, vars, dirVars
  <1> QED
    BY <1>1, <1>2, <1>3, <1>4, <1>5, <1>6

\* "Stop heartbeat BEFORE writing terminal status (eliminates race)" does
\* what it says as long as the stop leaves no python child behind.
THEOREM UndisturbedTerminalIsFinalHolds == Spec => UndisturbedTerminalIsFinal
  <1>1. IInv /\ [Next]_vars => (Undisturbed => \A ref \in Refs : RevertsOnlyAtStart(ref))
    BY FinalStep
  <1> QED
    BY <1>1, InvHolds, PTL DEF UndisturbedTerminalIsFinal, Spec

\* A published status file stays until hygiene archives it, disturbed or not.
THEOREM StatusNeverVanishesHolds == Spec => StatusNeverVanishes
  <1>1. ASSUME TypeInv, [Next]_vars, NEW ref \in Refs, file[ref] # None, ref # archiving
        PROVE  file'[ref] # None
    <2>t. TypeOK /\ RunInv
      BY <1>1 DEF TypeInv
    <2>1. CASE file' = file
      BY <1>1, <2>1
    <2>2. CASE WriteMv \/ \E r \in Runs : BeatRename(r)
      BY <1>1, <2>t, <2>2 DEF WriteMv, BeatRename, Rename, TypeOK, dirVars
    <2>3. CASE WriteData
      <3>1. wr.json # None
        BY <2>t, StatusAssumption DEF TypeOK
      <3> QED
        BY <1>1, <2>t, <2>3, <3>1, EmptyType, StatusAssumption DEF WriteData, Put, TypeOK
    <2>4. CASE \E r \in Runs : BeatFlush(r)
      <3> PICK r \in Runs : BeatFlush(r)
        BY <2>4
      <3>1. got[r] # None
        BY <2>t, StatusAssumption DEF TypeOK
      <3> QED
        BY <1>1, <2>t, <3>1, EmptyType, StatusAssumption DEF BeatFlush, Put, TypeOK
    <2>5. CASE HygieneArchive
      BY <1>1, <2>t, <2>5 DEF HygieneArchive, TypeOK
    <2>6. \/ file' = file \/ WriteMv \/ WriteData \/ HygieneArchive
          \/ \E r \in Runs : BeatFlush(r) \/ BeatRename(r)
      BY <1>1 DEF Next, Session, Beat, Begin, WriteRm, WriteOpen, StartHeartbeat, SkipIssue,
         DroidDone, StopHeartbeat, WriteTerminal, Exit, TrapStop, TrapRepair, KillSession,
         BeatCheck, BeatRead, BeatOpen, HygieneFind, HygieneRead, vars, dirVars
    <2> QED
      BY <2>1, <2>2, <2>3, <2>4, <2>5, <2>6
  <1>2. TypeInv /\ [Next]_vars
          => \A ref \in Refs : file[ref] # None /\ ref # archiving => file'[ref] # None
    BY <1>1
  <1> QED
    BY <1>2, TypeInit, TypeStep, PTL DEF StatusNeverVanishes, Spec
================================================================================
