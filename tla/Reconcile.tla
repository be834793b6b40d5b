------------------------------- MODULE Reconcile -------------------------------
(***************************************************************************)
(* webhook-scripts/reconcile-evolution.sh: the pull side of the finding    *)
(* pipeline.  A tick queries Linear once, closes the GitHub mirrors of     *)
(* terminal issues, creates Linear issues for findings Linear does not     *)
(* know (GAP-A), and then decides issue by issue, from what GitHub, the    *)
(* status file and its own counters say, whether to leave it, sweep its    *)
(* pull request, absorb it, push it to completed, cancel it or start       *)
(* trigger-droid.sh for it again.  Linear, GitHub, the droid sessions and  *)
(* webhook-hygiene.sh change what it looks at between any two calls.       *)
(*                                                                         *)
(* The team lock check at the start of a tick is not modelled: it reads    *)
(* metadata from the team lock file, to which no script writes.            *)
(***************************************************************************)
EXTENDS Naturals, FiniteSets

CONSTANTS
    Issues,         \* Linear issues, existing or to be created by GAP-A
    Mirrors,        \* open evolution-found GitHub issues
    About,          \* Linear issue -> the mirror with its title
    Synced,         \* issues Linear's GitHub integration has created
    Pages,          \* the page size of the queries, one of these (50 in the code)
    FallbackTicks,  \* STALE_ORPHAN_FALLBACK_TICKS
    MaxWebhooks,    \* bound on the deliveries of the webhook
    FaultKinds,     \* the calls that may fail
    MaxFaults,      \* bound on those failures
    None

ASSUME ReconcileAssumption ==
    /\ IsFiniteSet(Issues) /\ IsFiniteSet(Mirrors)
    /\ About \in [Issues -> Mirrors]
    /\ Synced \subseteq Issues
    /\ \A i, j \in Synced : About[i] = About[j] => i = j
    /\ Pages \subseteq Nat \ {0}
    /\ FallbackTicks \in Nat \ {0}
    /\ MaxWebhooks \in Nat
    /\ FaultKinds \subseteq {"gh", "linear", "kill", "refuse", "reopen", "mention"}
    /\ MaxFaults \in Nat
    /\ None \notin Issues \cup Mirrors

VARIABLES
    \* --- Linear and GitHub
    lin,       \* issue -> state in Linear
    fresh,     \* issues updated less than 45 minutes ago
    exited,    \* issues with the comment of the deadlock exit
    mir,       \* mirror -> "open" or "closed"
    link,      \* mirror -> issue its linkback comment names
    mention,   \* mirror -> other issues its text names
    newer,     \* issue -> issues created after it
    page,      \* how many issues a query of Linear returns, never changing
    pr,        \* issue -> state of the pull request that names it
    \* --- the host
    droid,     \* issue -> trigger-droid.sh for it
    webhooks,  \* deliveries so far
    st,        \* issue -> what its status file says
    lockFile,  \* issues with a file l2d-<ref>.lock
    count,     \* issue -> stale-orphan-<ref>.count, 0 when absent
    sentinel,  \* issues with stale-orphan-<ref>.canceled
    marker,    \* issues with infra-failed-<ref>.marker
    \* --- the tick
    pc,        \* where it is
    it,        \* the issue or mirror it works on
    list,      \* what the loop has still to visit
    snapStarted, snapFresh,  \* from the query at the start
    same,      \* the pull request the sweep is about is the one still open
    faults,
    \* --- history
    said,      \* that pull request carries the comment of the running sweep
    frozen     \* issues whose last exit was 126 or 127, which a tick has read

refVars    == <<link, mention, newer, page>>
remoteVars == <<lin, fresh, exited, mir, refVars, pr>>
hostVars   == <<droid, webhooks, st, lockFile>>
memoVars   == <<count, sentinel, marker>>
sweepVars  == <<same, said>>
snapVars   == <<snapStarted, snapFresh, sweepVars>>
vars       == <<remoteVars, hostVars, memoVars, pc, it, list, snapVars, faults, frozen>>

LinState == {"absent", "todo", "started", "completed", "canceled"}
Exits    == {"completed", "noSession", "failed", "infra"}
TickPC   == {"idle", "terminal", "gap", "create", "loop", "pr", "sweep", "close",
             "mirror", "state", "absorb", "local", "exit", "push", "cancel", "verify", "trigger"}

Open(i)     == lin[i] \in {"todo", "started"}
Finished(i) == lin[i] \in {"completed", "canceled"}

Init ==
    /\ lin = [i \in Issues |-> IF i \in Synced THEN "todo" ELSE "absent"]
    /\ fresh = Synced /\ exited = {}
    /\ mir = [m \in Mirrors |-> "open"]
    /\ link = [m \in Mirrors |->
                IF \E i \in Synced : About[i] = m
                THEN CHOOSE i \in Synced : About[i] = m ELSE None]
    /\ mention = [m \in Mirrors |-> {}]
    /\ \E rank \in [Synced -> 1..Cardinality(Synced)] :
          /\ \A i, j \in Synced : rank[i] = rank[j] => i = j
          /\ newer = [i \in Issues |-> IF i \in Synced
                                      THEN {j \in Synced : rank[j] > rank[i]} ELSE {}]
    /\ page \in Pages
    /\ pr = [i \in Issues |-> "none"]
    /\ droid = [i \in Issues |-> "off"] /\ webhooks = 0
    /\ st = [i \in Issues |-> "none"] /\ lockFile = {}
    /\ count = [i \in Issues |-> 0] /\ sentinel = {} /\ marker = {}
    /\ pc = "idle" /\ it = None /\ list = {}
    /\ snapStarted = {} /\ snapFresh = {} /\ same = FALSE
    /\ faults = 0
    /\ said = FALSE /\ frozen = {}

\* A call of the kind fails.
Fails(kind) == kind \in FaultKinds /\ faults < MaxFaults /\ faults' = faults + 1
Works       == UNCHANGED faults

\* issueUpdate: Linear does not mind what the state was.
Move(i, state) == lin' = [lin EXCEPT ![i] = state] /\ fresh' = fresh \cup {i}

---------------------------------------------------------------------------
(* The tick: before the loop.                                              *)

Goto(where) == pc' = where

\* The loop goes on with the next issue.
Done == Goto("loop") /\ it' = None

\* A query of Linear (orderBy createdAt, first 50) returns the newest issues.
Newest(S) == {i \in S : Cardinality(S \cap newer[i]) < page}

\* The query of non-terminal issues; its failure ends the tick.
TickStart ==
    /\ pc = "idle"
    /\ Works
    /\ list' = Newest({i \in Issues : Open(i)})
    /\ snapStarted' = {i \in list' : lin[i] = "started"}
    /\ snapFresh' = list' \cap fresh
    /\ Goto("terminal")
    /\ UNCHANGED <<remoteVars, hostVars, memoVars, it, sweepVars, frozen>>

\* The open mirrors a search for the reference of the issue finds: its own,
\* and any other whose text names it.
Mirror(i) == {m \in Mirrors : mir[m] = "open" /\ (link[m] = i \/ i \in mention[m])}

\* Fault: 4b asks for completed issues only.
CloseTerminalCompleted ==
    /\ pc = "terminal"
    /\ mir' = [m \in Mirrors |->
                 IF link[m] \in Newest({i \in Issues : lin[i] = "completed"})
                 THEN "closed" ELSE mir[m]]
    /\ Goto("gap")
    /\ UNCHANGED <<lin, fresh, exited, refVars, pr, hostVars, memoVars, it, list,
                   snapVars, faults, frozen>>

\* 4b: of each terminal issue the query returns, the first hit of the search
\* (--limit 1) is closed when its anchor, the linkback, names the issue.  With
\* other hits the first may be another mirror, which is skipped.  Any of the
\* calls may fail, which leaves the mirror for the next tick.
CloseTerminal ==
    /\ pc = "terminal"
    /\ LET Finals   == Newest({i \in Issues : Finished(i)})
           Closable == {m \in Mirrors : mir[m] = "open" /\ link[m] \in Finals}
           Certain  == {m \in Closable : Mirror(link[m]) = {m}}
       IN \E C \in SUBSET Closable :
             /\ mir' = [m \in Mirrors |-> IF m \in C THEN "closed" ELSE mir[m]]
             /\ IF Certain \subseteq C THEN Works ELSE Fails("gh") \/ Fails("linear")
    /\ Goto("gap")
    /\ UNCHANGED <<lin, fresh, exited, refVars, pr, hostVars, memoVars, it, list,
                   snapVars, frozen>>

\* GAP-A lists the newest open mirrors (--limit 50; the model does not say
\* which they are) and looks among them for one without linkback whose title
\* the query at the start of the tick did not return.
Listings == {L \in SUBSET {m \in Mirrors : mir[m] = "open"} :
                \/ Cardinality(L) = page
                \/ Cardinality(L) < page /\ \A m \in Mirrors \ L : mir[m] = "closed"}

Orphans(L) == {m \in L : link[m] = None /\ \A i \in list : About[i] # m}

\* Fault: the orphan is dispatched under its GitHub number.
GapScanDispatch ==
    /\ pc = "gap"
    /\ \E L \in Listings :
          IF Orphans(L) # {} THEN it' \in Orphans(L) /\ Goto("local") ELSE Done
    /\ UNCHANGED <<remoteVars, hostVars, memoVars, list, snapVars, faults, frozen>>

GapScan ==
    /\ pc = "gap"
    /\ \/ /\ Works
          /\ \E L \in Listings :
                IF Orphans(L) # {} THEN it' \in Orphans(L) /\ Goto("create") ELSE Done
       \/ Fails("gh") /\ Done
    /\ UNCHANGED <<remoteVars, hostVars, memoVars, list, snapVars, frozen>>

\* issueCreate, then a comment on the Linear issue; GitHub is told nothing.
\* When the calls fail, or this model has no issue left, nothing is created.
GapCreate ==
    /\ pc = "create"
    /\ \/ /\ Works
          /\ \E i \in Issues :
                /\ lin[i] = "absent" /\ About[i] = it
                /\ lin' = [lin EXCEPT ![i] = "todo"]
                /\ newer' = [j \in Issues |-> IF lin[j] = "absent" THEN newer[j]
                                              ELSE newer[j] \cup {i}]
                /\ fresh' = fresh \cup {i}
       \/ /\ \/ Fails("linear")
             \/ Works /\ \A i \in Issues : About[i] = it => lin[i] # "absent"
          /\ UNCHANGED <<lin, newer, fresh>>
    /\ Done
    /\ UNCHANGED <<exited, mir, link, mention, page, pr, hostVars, memoVars, list, snapVars, frozen>>

---------------------------------------------------------------------------
(* The loop.                                                               *)

LoopEnd ==
    /\ pc = "loop" /\ list = {}
    /\ Goto("idle")
    /\ snapStarted' = {} /\ snapFresh' = {}
    /\ UNCHANGED <<remoteVars, hostVars, memoVars, it, list, sweepVars, faults, frozen>>

\* Fault: an issue in progress is left alone for ever.
VisitNotStarted(i) ==
    /\ pc = "loop" /\ i \in list
    /\ list' = list \ {i}
    /\ snapStarted' = snapStarted \ {i} /\ snapFresh' = snapFresh \cap list
    /\ IF i \in snapStarted
       THEN Done
       ELSE Goto("pr") /\ it' = i
    /\ UNCHANGED <<remoteVars, hostVars, memoVars, sweepVars, faults, frozen>>

\* 5t: an issue in progress is left alone for 45 minutes.
Visit(i) ==
    /\ pc = "loop" /\ i \in list
    /\ list' = list \ {i}
    /\ snapStarted' = snapStarted \ {i} /\ snapFresh' = snapFresh \cap list
    /\ IF i \in snapStarted /\ i \in snapFresh
       THEN Done
       ELSE Goto("pr") /\ it' = i
    /\ UNCHANGED <<remoteVars, hostVars, memoVars, sweepVars, faults, frozen>>

\* 5a: an open pull request ends the visit, after the sweeper.  A failing gh
\* counts as "no pull request".  The sweeper leaves a pull request alone while
\* the lock file of its issue exists, and unless it is old and red.
CheckPr ==
    /\ pc = "pr"
    /\ \/ /\ pr[it] # "none" /\ Works
          /\ IF pr[it] = "red" /\ it \notin lockFile
             THEN Goto("sweep") /\ it' = it /\ same' = TRUE
             ELSE Done /\ UNCHANGED same
       \/ /\ \/ pr[it] = "none" /\ Works
             \/ Fails("gh")
          /\ Goto("mirror") /\ UNCHANGED <<it, same>>
    /\ UNCHANGED <<remoteVars, hostVars, memoVars, list, snapStarted, snapFresh, said, frozen>>

\* The comment goes to the pull request the sweep is about.
Comment == said' = same

\* Fault: the sweeper goes on after a failed comment.
SweepCommentUnchecked ==
    /\ pc = "sweep"
    /\ \/ Works /\ Comment
       \/ Fails("gh") /\ UNCHANGED said
    /\ Goto("close")
    /\ UNCHANGED <<remoteVars, hostVars, memoVars, it, list, snapStarted, snapFresh, same, frozen>>

SweepComment ==
    /\ pc = "sweep"
    /\ \/ Works /\ Comment /\ Goto("close") /\ UNCHANGED <<it, same>>
       \/ Fails("gh") /\ Done /\ same' = FALSE /\ UNCHANGED said
    /\ UNCHANGED <<remoteVars, hostVars, memoVars, list, snapStarted, snapFresh, frozen>>

\* The close names the pull request by its number: it fails when that one has
\* been merged meanwhile, and never closes another.
SweepClose ==
    /\ pc = "close"
    /\ \/ Works /\ pr' = IF same THEN [pr EXCEPT ![it] = "none"] ELSE pr
       \/ Fails("gh") /\ pr' = pr
    /\ Done /\ same' = FALSE /\ said' = FALSE
    /\ UNCHANGED <<lin, fresh, exited, mir, refVars, hostVars, memoVars, list,
                   snapStarted, snapFresh, frozen>>

\* 5a2: is there an open GitHub issue with the reference?  A failing gh
\* counts as "closed".
CheckMirror ==
    /\ pc = "mirror"
    /\ \/ Mirror(it) # {} /\ Works /\ Goto("local")
       \/ /\ \/ Mirror(it) = {} /\ Works
             \/ Fails("gh")
          /\ Goto("state")
    /\ UNCHANGED <<remoteVars, hostVars, memoVars, it, list, snapVars, frozen>>

\* Terminal absorption asks for the present state first; when that fails the
\* state is "unknown", which is not terminal.
ReadState ==
    /\ pc = "state"
    /\ \/ Finished(it) /\ Works /\ Done
       \/ /\ \/ ~Finished(it) /\ Works
             \/ Fails("linear")
          /\ Goto("absorb") /\ it' = it
    /\ UNCHANGED <<remoteVars, hostVars, memoVars, list, snapVars, frozen>>

\* The move to canceled, whatever the state is by now, and a comment.
Absorb ==
    /\ pc = "absorb"
    /\ \/ /\ Works \/ Fails("linear")
          /\ Move(it, "canceled")
       \/ Fails("linear") /\ UNCHANGED <<lin, fresh>>
    /\ Done
    /\ UNCHANGED <<exited, mir, refVars, pr, hostVars, memoVars, list, snapVars, frozen>>

\* One more blocked tick: the counter file, and the fallback at the threshold
\* unless it has been executed before.
Blocked(i, n) ==
    /\ count' = [count EXCEPT ![i] = n]
    /\ IF n >= FallbackTicks /\ i \notin sentinel
       THEN Goto("cancel") /\ it' = i
       ELSE Done

\* The counter goes on growing in the code; beyond the threshold the model
\* does not tell its values apart.
Up(n) == IF n < FallbackTicks THEN n + 1 ELSE n

\* status=failed: exit codes 126 and 127 freeze the issue, others count.
StatusFailed(i) ==
    IF st[i] = "infra"
    THEN /\ marker' = marker \cup {i}
         /\ Done
         /\ UNCHANGED <<count, sentinel>>
    ELSE /\ Blocked(i, Up(count[i]))
         /\ UNCHANGED <<sentinel, marker>>

\* 5b and 5c: the lock file, then the status file.  The lock file names a live
\* process only until the session has been spawned.
CheckLocal ==
    /\ pc = "local"
    /\ \/ droid[it] = "starting" /\ Done /\ UNCHANGED <<memoVars, frozen>>
       \/ /\ droid[it] # "starting"
          /\ frozen' = IF st[it] = "infra" THEN frozen \cup {it} ELSE frozen
          /\ \/ /\ st[it] \in {"failed", "infra"}
                /\ StatusFailed(it)
             \/ /\ \/ st[it] = "running" /\ droid[it] = "working"
                   \/ st[it] = "noSession"
                   \/ st[it] = "completed" /\ it \in snapFresh
                /\ Done /\ UNCHANGED memoVars
             \/ /\ st[it] = "completed" /\ it \notin snapFresh
                /\ Goto("exit") /\ it' = it /\ UNCHANGED memoVars
             \/ /\ \/ st[it] = "running" /\ droid[it] # "working"
                   \/ st[it] = "none"
                /\ Goto("verify") /\ it' = it /\ UNCHANGED memoVars
    /\ UNCHANGED <<remoteVars, hostVars, list, snapVars, faults>>

\* Deadlock exit: the comment of an earlier one ends it; a failing query
\* counts as "no comment".
CheckExit ==
    /\ pc = "exit"
    /\ \/ it \in exited /\ Works /\ Done
       \/ /\ \/ it \notin exited /\ Works
             \/ Fails("linear")
          /\ Goto("push") /\ it' = it
    /\ UNCHANGED <<remoteVars, hostVars, memoVars, list, snapVars, frozen>>

\* The state is moved first; the comment may then fail.
PushCompleted ==
    /\ pc = "push"
    /\ \/ Works /\ Move(it, "completed") /\ exited' = exited \cup {it}
       \/ Fails("linear") /\ Move(it, "completed") /\ exited' = exited
       \/ Fails("linear") /\ UNCHANGED <<lin, fresh, exited>>
    /\ Done
    /\ UNCHANGED <<mir, refVars, pr, hostVars, memoVars, list, snapVars, frozen>>

\* Fallback: canceled, comment, sentinel file, counter removed.  Without the
\* comment the issue is canceled and the files are left as they are.
CancelFallback ==
    /\ pc = "cancel"
    /\ \/ /\ Works /\ Move(it, "canceled")
          /\ sentinel' = sentinel \cup {it}
          /\ count' = [count EXCEPT ![it] = 0]
       \/ Fails("linear") /\ Move(it, "canceled") /\ UNCHANGED <<sentinel, count>>
       \/ Fails("linear") /\ UNCHANGED <<lin, fresh, sentinel, count>>
    /\ Done
    /\ UNCHANGED <<exited, mir, refVars, pr, hostVars, marker, list, snapVars, frozen>>

\* Fault: the marker is not looked at once the status file is gone.
NoStatusUnguarded(i) ==
    /\ Blocked(i, Up(count[i]))
    /\ UNCHANGED <<sentinel, marker>>

\* No status file: frozen by the marker, else one more blocked tick.
NoStatus(i) ==
    /\ IF i \in marker
       THEN count' = [count EXCEPT ![i] = 0] /\ Done
       ELSE Blocked(i, Up(count[i]))
    /\ UNCHANGED <<sentinel, marker>>

\* 5d: retrigger needs an open mirror, asked for again, and a status file.
Verify ==
    /\ pc = "verify"
    /\ \/ /\ \/ Mirror(it) = {} /\ Works
             \/ Fails("gh")
          /\ Done /\ UNCHANGED memoVars
       \/ /\ Mirror(it) # {} /\ Works /\ st[it] = "none"
          /\ NoStatus(it)
       \/ /\ Mirror(it) # {} /\ Works /\ st[it] # "none"
          /\ Goto("trigger") /\ it' = it /\ UNCHANGED memoVars
    /\ UNCHANGED <<remoteVars, hostVars, list, snapVars, frozen>>

\* trigger-droid.sh is refused when the team is busy; it moves the issue to
\* In Progress.
StartDroid(i) ==
    IF \A j \in Issues : droid[j] = "off"
    THEN /\ droid' = [droid EXCEPT ![i] = "starting"]
         /\ lockFile' = lockFile \cup {i}
         /\ Move(i, IF lin[i] = "todo" THEN "started" ELSE lin[i])
    ELSE UNCHANGED <<droid, lockFile, lin, fresh>>

\* One trigger ends the tick.
Trigger ==
    /\ pc = "trigger"
    /\ StartDroid(it)
    /\ Goto("loop") /\ it' = None /\ list' = {}
    /\ UNCHANGED <<exited, mir, refVars, pr, webhooks, st, memoVars, snapVars, faults, frozen>>

Tick ==
    \/ TickStart \/ CloseTerminal \/ GapScan \/ GapCreate
    \/ LoopEnd \/ \E i \in Issues : Visit(i)
    \/ CheckPr \/ SweepComment \/ SweepClose \/ CheckMirror \/ ReadState \/ Absorb
    \/ CheckLocal \/ CheckExit \/ PushCompleted \/ CancelFallback
    \/ Verify \/ Trigger

---------------------------------------------------------------------------
(* What changes between the calls of a tick.                               *)

tickVars == <<pc, it, list, snapVars>>

\* Linear's webhook starts trigger-droid.sh.
Webhook(i) ==
    /\ Open(i) /\ droid[i] = "off" /\ webhooks < MaxWebhooks
    /\ webhooks' = webhooks + 1
    /\ StartDroid(i)
    /\ UNCHANGED <<exited, mir, refVars, pr, st, memoVars, tickVars, faults, frozen>>

\* The session begins with its status file, or does not begin.
Spawned(i) ==
    /\ droid[i] = "starting"
    /\ \/ Works /\ droid' = [droid EXCEPT ![i] = "working"]
          /\ st' = [st EXCEPT ![i] = "running"]
       \/ Fails("refuse") /\ droid' = [droid EXCEPT ![i] = "off"] /\ st' = st
    /\ UNCHANGED <<remoteVars, webhooks, lockFile, memoVars, tickVars, frozen>>

\* The session writes its terminal status, or is killed and leaves "running".
\* What it pushes goes to the open pull request, or to a new one.
SessionEnd(i) ==
    /\ droid[i] = "working"
    /\ droid' = [droid EXCEPT ![i] = "off"]
    /\ \/ /\ Works
          /\ \E e \in Exits :
                /\ st' = [st EXCEPT ![i] = e]
                /\ pr' \in {pr} \cup (IF e \in {"completed", "noSession"}
                                      THEN {[pr EXCEPT ![i] = "green"]} ELSE {})
          /\ frozen' = frozen \ {i}
       \/ Fails("kill") /\ UNCHANGED <<st, pr, frozen>>
    /\ UNCHANGED <<lin, fresh, exited, mir, refVars, webhooks, lockFile, memoVars, tickVars>>

\* CI fails, or the pull request is merged, which closes the mirror; Linear
\* may follow at once.
PrTurnsRed(i) ==
    /\ pr[i] = "green"
    /\ pr' = [pr EXCEPT ![i] = "red"]
    /\ UNCHANGED <<lin, fresh, exited, mir, refVars, hostVars, memoVars, tickVars, faults, frozen>>

PrMerged(i) ==
    /\ pr[i] = "green"
    /\ pr' = [pr EXCEPT ![i] = "none"]
    /\ mir' = [mir EXCEPT ![About[i]] = "closed"]
    /\ \/ Move(i, "completed")
       \/ UNCHANGED <<lin, fresh>>
    /\ same' = (same /\ it # i) /\ said' = (said /\ it # i)
    /\ UNCHANGED <<exited, refVars, hostVars, memoVars, pc, it, list, snapStarted, snapFresh,
                   faults, frozen>>

\* The text of another mirror names the issue from now on.
Mentioned(i) ==
    /\ lin[i] # "absent" /\ Fails("mention")
    /\ \E m \in Mirrors :
          /\ mir[m] = "open" /\ link[m] # i
          /\ mention' = [mention EXCEPT ![m] = @ \cup {i}]
    /\ UNCHANGED <<lin, fresh, exited, mir, link, newer, page, pr, hostVars, memoVars, tickVars, frozen>>

\* Somebody reopens the issue in Linear.
Reopened(i) ==
    /\ Finished(i) /\ Fails("reopen")
    /\ Move(i, "todo")
    /\ UNCHANGED <<exited, mir, refVars, pr, hostVars, memoVars, tickVars, frozen>>

\* 45 minutes pass without an update.
TimePasses ==
    /\ fresh # {}
    /\ fresh' = {}
    /\ UNCHANGED <<lin, exited, mir, refVars, pr, hostVars, memoVars, tickVars, faults, frozen>>

\* With DRY_RUN=0 webhook-hygiene.sh removes an aged lock file and archives
\* an aged terminal status.
HygieneLock(i) ==
    /\ droid[i] = "off" /\ i \notin fresh
    /\ i \in lockFile /\ lockFile' = lockFile \ {i}
    /\ UNCHANGED <<remoteVars, droid, webhooks, st, memoVars, tickVars, faults, frozen>>

HygieneStatus(i) ==
    /\ droid[i] = "off" /\ i \notin fresh
    /\ st[i] \in Exits /\ st' = [st EXCEPT ![i] = "none"]
    /\ UNCHANGED <<remoteVars, droid, webhooks, lockFile, memoVars, tickVars, faults, frozen>>

Others ==
    \E i \in Issues :
        \/ Webhook(i) \/ Spawned(i) \/ SessionEnd(i) \/ PrTurnsRed(i) \/ PrMerged(i)
        \/ Mentioned(i) \/ Reopened(i) \/ HygieneLock(i) \/ HygieneStatus(i)

Next == Tick \/ Others \/ TimePasses

Spec == Init /\ [][Next]_vars

\* launchd starts a tick every half hour and every call has a timeout;
\* sessions end; time passes.  Nothing else is certain to happen.
Fairness ==
    /\ WF_vars(Tick)
    /\ WF_vars(TimePasses)
    /\ \A i \in Issues : WF_vars(Spawned(i)) /\ WF_vars(SessionEnd(i))

FairSpec == Spec /\ Fairness
---------------------------------------------------------------------------
(* Properties.                                                             *)

TypeOK ==
    /\ lin \in [Issues -> LinState]
    /\ fresh \subseteq Issues /\ exited \subseteq Issues
    /\ mir \in [Mirrors -> {"open", "closed"}]
    /\ link \in [Mirrors -> Issues \cup {None}]
    /\ pr \in [Issues -> {"none", "green", "red"}]
    /\ mention \in [Mirrors -> SUBSET Issues]
    /\ newer \in [Issues -> SUBSET Issues]
    /\ page \in Pages
    /\ droid \in [Issues -> {"off", "starting", "working"}]
    /\ webhooks \in 0..MaxWebhooks
    /\ st \in [Issues -> Exits \cup {"none", "running"}]
    /\ lockFile \subseteq Issues
    /\ count \in [Issues -> 0..FallbackTicks]
    /\ sentinel \subseteq Issues /\ marker \subseteq Issues
    /\ pc \in TickPC
    /\ it \in Issues \cup Mirrors \cup {None}
    /\ pc \in {"pr", "sweep", "close", "mirror", "state", "absorb", "local", "exit",
               "push", "cancel", "verify", "trigger"} => it \in Issues
    /\ pc = "create" => it \in Mirrors
    /\ list \subseteq Issues
    /\ snapStarted \subseteq Issues /\ snapFresh \subseteq Issues
    /\ same \in BOOLEAN /\ said \in BOOLEAN
    /\ faults \in 0..MaxFaults
    /\ frozen \subseteq Issues

\* A pull request the sweeper closes carries a comment of that very sweep: one
\* of an earlier sweep, or on an earlier pull request of the issue, does not do.
SweeperNeverSilent ==
    [][pc = "close" /\ pc' # "close" /\ pr' # pr => said]_vars

\* An issue whose last session died of exit code 126 or 127, and of which a
\* tick has read that, is never cancelled by the fallback, not even after
\* hygiene has archived the status file.
InfraFrozenNeverCancelled ==
    [][\A i \in Issues :
          i \in frozen /\ pc = "cancel" /\ it = i => lin'[i] = lin[i]]_vars

\* Nothing the pipeline knows of stays open unattended: an open issue is
\* settled, or has a pull request, or was given up for a person to look at, or
\* is older than all the open issues of the page a tick looks at.
GivenUp(i) ==
    \/ st[i] \in {"noSession", "infra"} \/ i \in marker
    \/ i \in sentinel \/ i \in exited

EventuallyConsistent ==
    \A i \in Issues :
        Open(i) ~> \/ Finished(i) \/ pr[i] # "none" \/ GivenUp(i)
                   \/ i \notin Newest({j \in Issues : Open(j)})

\* The mirror whose linkback names a settled issue is closed sooner or later, unless the
\* issue is no longer among the newest settled ones, or the search for it has
\* another hit.
MirrorFollows ==
    \A i \in Synced :
        (mir[About[i]] = "open" /\ Finished(i))
            ~> \/ mir[About[i]] = "closed" \/ Open(i)
               \/ i \notin Newest({j \in Issues : Finished(j)})
               \/ Mirror(i) # {About[i]}

\* "GitHub mirror closed (no open issue found)" is the evidence of every
\* absorption.
AbsorbedMirrorIsClosed ==
    [][pc = "absorb" /\ lin' # lin => mir[About[it]] = "closed"]_vars

\* An issue that no delivery of the webhook ever started a droid for is found
\* by a tick, which starts one.
OrphanIsTriggered ==
    \A i \in Synced : lin[i] = "todo" ~> droid[i] # "off"
================================================================================
