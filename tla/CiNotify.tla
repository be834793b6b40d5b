-------------------------------- MODULE CiNotify --------------------------------
(***************************************************************************)
(* How the result of CI on a pull request reaches a droid session.         *)
(* write-pending-ci.sh registers the pull request; every "CI complete"     *)
(* delivery runs trigger-ci-droid.sh, which injects a message into the     *)
(* session or starts a fallback droid; ci-timeout-watchdog.sh scans the    *)
(* registrations that nobody answered.  The three share the pending file,  *)
(* which deliveries rewrite in place, the fallback lock, an ordinary file  *)
(* tested for its age, and the deliveries share a flock whose file they    *)
(* also unlink.                                                            *)
(*                                                                         *)
(* One pull request, registered once.  The registration and the injection  *)
(* age each on its own, and a lock file that is tested for its age may be  *)
(* found young or stale whenever it exists; so a process may be            *)
(* arbitrarily slow, and what holds here holds for the code's 30, 45, 60   *)
(* and 120 minutes.                                                        *)
(***************************************************************************)
EXTENDS Naturals, FiniteSets

CONSTANTS
    Deliveries,  \* runs of trigger-ci-droid.sh
    Watchdog,    \* ci-timeout-watchdog.sh
    Sources,     \* values of --source; a missing one is read as "session"
    FaultKinds,  \* what may go wrong
    MaxFaults    \* bound on that

ASSUME CiAssumption ==
    /\ IsFiniteSet(Deliveries) /\ Watchdog \notin Deliveries
    /\ Sources \subseteq {"session", "scanner", "runner"}
    /\ FaultKinds \subseteq {"gh", "token", "kill"}
    /\ MaxFaults \in Nat
    /\ "none" \notin Deliveries

Procs == Deliveries \cup {Watchdog}

VARIABLES
    pend,     \* pending-ci-<pr>.json: "none", "plain", "injected" (it has
              \* injected_at), "overdue" (for more than 45 minutes), "torn"
              \* (truncated by a writer), "garbled"
    fds,      \* deliveries with a descriptor of that file, open for writing
    source,   \* of the registration, "none" before it
    age,      \* of created_at: young, late (30 minutes), expired (2 hours)
    fb,       \* there is a ci-fallback-<pr>.lock
    key,      \* ci-complete-rebinding-<pr>.lock: the delivery that created it
    fd,       \* delivery -> what its descriptor 200 refers to
    pc, why, buf,  \* delivery: where it is, its fallback path, its copy
    mark, src, \* what the watchdog read as injected_at and source
    faults,
    \* --- history
    answers,  \* "injected": a message was sent; "settled": anything beyond it
    lost      \* a process was killed where nobody takes over

fileVars == <<pend, fds, source, age>>
keyVars  == <<key, fd>>
ownVars  == <<why, buf>>
wdVars   == <<mark, src>>
vars     == <<fileVars, fb, keyVars, pc, ownVars, wdVars, faults, answers, lost>>

None    == "none"
Text    == {"plain", "injected", "overdue"}
Whole   == pend \in Text
DelPC   == {"new", "read", "quarantine", "source", "scanner", "expire", "keyCheck", "keyRm",
            "keyOpen", "keyLock", "inject", "unlock", "fbCheck", "fbWrite",
            "markRead", "markOpen", "markFlush", "guard", "droid", "done"}
DogPC   == {"idle", "injected", "source", "state", "guard", "fbCheck", "spawn", "remove"}
Why     == {None, "missing", "corrupt", "expired", "rebind", "dead", "5xx", "ok"}

Init ==
    /\ pend = None /\ fds = {} /\ source = None /\ age = "young"
    /\ fb = FALSE
    /\ key = None /\ fd = [d \in Deliveries |-> None]
    /\ pc = [p \in Procs |-> IF p = Watchdog THEN "idle" ELSE "new"]
    /\ why = [d \in Deliveries |-> None] /\ buf = [d \in Deliveries |-> None]
    /\ mark = None /\ src = None
    /\ faults = 0
    /\ answers = {} /\ lost = FALSE

Fails(kind) == kind \in FaultKinds /\ faults < MaxFaults /\ faults' = faults + 1
Works       == UNCHANGED faults

At(p, where)   == pc[p] = where
Goto(p, where) == pc' = [pc EXCEPT ![p] = where]
Settled        == answers' = answers \cup {"settled"}

\* rm and mv leave the descriptors of writers on an unlinked inode.
TakeAway == pend' = None /\ fds' = {}

\* The end of a delivery closes descriptor 200, which releases the flock.
Exit(d) ==
    /\ Goto(d, "done")
    /\ fd' = [fd EXCEPT ![d] = None]
    /\ why' = [why EXCEPT ![d] = None]
    /\ buf' = [buf EXCEPT ![d] = None]

\* Fault: a source that cannot be read is left empty.
SourceReadEmpty == IF Whole THEN source ELSE ""

\* A file that cannot be parsed has no source, which counts as "session".
SourceRead == IF Whole THEN source ELSE "session"

---------------------------------------------------------------------------
(* write-pending-ci.sh: a temporary file renamed over the pending one.     *)

Register(s) ==
    /\ source = None
    /\ source' = s /\ pend' = "plain" /\ fds' = {} /\ age' = "young"
    /\ answers' = {}
    /\ UNCHANGED <<fb, keyVars, pc, ownVars, wdVars, faults, lost>>

---------------------------------------------------------------------------
(* trigger-ci-droid.sh.                                                    *)

Arrive(d) ==
    /\ At(d, "new")
    /\ IF pend = None
       THEN Goto(d, "fbCheck") /\ why' = [why EXCEPT ![d] = "missing"]
       ELSE Goto(d, "read") /\ UNCHANGED why
    /\ UNCHANGED <<fileVars, fb, keyVars, buf, wdVars, faults, answers, lost>>

ReadPending(d) ==
    /\ At(d, "read")
    /\ Goto(d, IF Whole THEN "source" ELSE "quarantine")
    /\ UNCHANGED <<fileVars, fb, keyVars, ownVars, wdVars, faults, answers, lost>>

\* The file is moved away, whatever it says by now, and a fallback follows
\* without a look at the fallback lock.
Quarantine(d) ==
    /\ At(d, "quarantine")
    /\ TakeAway
    /\ why' = [why EXCEPT ![d] = "corrupt"]
    /\ Goto(d, "guard")
    /\ UNCHANGED <<source, age, fb, keyVars, buf, wdVars, faults, answers, lost>>

ReadSource(d) ==
    /\ At(d, "source")
    /\ Goto(d, IF SourceRead = "scanner" THEN "scanner"
               ELSE IF age = "expired" THEN "expire" ELSE "keyCheck")
    /\ UNCHANGED <<fileVars, fb, keyVars, ownVars, wdVars, faults, answers, lost>>

\* A scanner's file is removed without a word when it is expired, or when gh
\* shows the pull request to be a scanner's; otherwise it is kept.
Scanner(d) ==
    /\ At(d, "scanner")
    /\ \/ TakeAway /\ Settled
       \/ age # "expired" /\ UNCHANGED <<pend, fds, answers>>
    /\ Exit(d)
    /\ UNCHANGED <<source, age, fb, key, wdVars, faults, lost>>

Expire(d) ==
    /\ At(d, "expire")
    /\ TakeAway
    /\ why' = [why EXCEPT ![d] = "expired"]
    /\ Goto(d, "fbCheck")
    /\ UNCHANGED <<source, age, fb, keyVars, buf, wdVars, faults, answers, lost>>

\* The fingerprint lock: a stale file is unlinked, the file opened or created,
\* the descriptor locked.
KeyCheck(d) ==
    /\ At(d, "keyCheck")
    /\ Goto(d, "keyOpen") \/ (key # None /\ Goto(d, "keyRm"))
    /\ UNCHANGED <<fileVars, fb, keyVars, ownVars, wdVars, faults, answers, lost>>

KeyRm(d) ==
    /\ At(d, "keyRm")
    /\ key' = None
    /\ Goto(d, "keyOpen")
    /\ UNCHANGED <<fileVars, fb, fd, ownVars, wdVars, faults, answers, lost>>

KeyOpen(d) ==
    /\ At(d, "keyOpen")
    /\ key' = IF key = None THEN d ELSE key
    /\ fd' = [fd EXCEPT ![d] = key']
    /\ Goto(d, "keyLock")
    /\ UNCHANGED <<fileVars, fb, ownVars, wdVars, faults, answers, lost>>

\* Who has the flock of the file that d has opened.
LockedBy(e, d) == e # d /\ fd[e] = fd[d] /\ pc[e] # "keyLock"

KeyLock(d) ==
    /\ At(d, "keyLock")
    /\ IF \E e \in Deliveries : LockedBy(e, d)
       THEN Exit(d)
       ELSE Goto(d, "inject") /\ UNCHANGED <<fd, ownVars>>
    /\ UNCHANGED <<fileVars, fb, key, wdVars, faults, answers, lost>>

\* The token, the session, the injection.  Without a token the lock file is
\* unlinked and the delivery ends; without a live session the file is marked
\* (rebinding_failed) and the fallback path follows.  Sessions API answers
\* with a message id, or without one, with a client error, or with a server
\* error at every attempt.
Inject(d) ==
    /\ At(d, "inject")
    /\ \/ Fails("token") /\ key' = None /\ Exit(d) /\ UNCHANGED answers
       \/ Works /\ Exit(d) /\ UNCHANGED <<key, answers>>
       \/ /\ Works /\ UNCHANGED <<key, fd, buf>>
          /\ \E w \in {"ok", "rebind", "dead", "5xx"} :
                /\ why' = [why EXCEPT ![d] = w]
                /\ answers' = IF w = "ok" THEN answers \cup {"injected"} ELSE answers
                /\ Goto(d, CASE w = "dead" -> "unlock" [] w = "5xx" -> "fbCheck"
                             [] OTHER -> "markRead")
    /\ UNCHANGED <<fileVars, fb, wdVars, lost>>

\* rm -f of the lock file, then the descriptor is closed.
Unlock(d) ==
    /\ At(d, "unlock")
    /\ key' = None
    /\ fd' = [fd EXCEPT ![d] = None]
    /\ Goto(d, "fbCheck")
    /\ UNCHANGED <<fileVars, fb, ownVars, wdVars, faults, answers, lost>>

\* Fault: an expired registration is removed, and that is all.
FbCheckNotExpired(d) ==
    /\ At(d, "fbCheck")
    /\ \/ (fb \/ why[d] = "expired") /\ Exit(d)
       \/ why[d] # "expired" /\ Goto(d, "fbWrite") /\ UNCHANGED <<fd, ownVars>>
    /\ UNCHANGED <<fileVars, fb, key, wdVars, faults, answers, lost>>

\* A young fallback lock ends the delivery; a stale one is replaced, like none.
FbCheck(d) ==
    /\ At(d, "fbCheck")
    /\ \/ fb /\ Exit(d) /\ Settled
       \/ Goto(d, "fbWrite") /\ UNCHANGED <<fd, ownVars, answers>>
    /\ UNCHANGED <<fileVars, fb, key, wdVars, faults, lost>>

FbWrite(d) ==
    /\ At(d, "fbWrite")
    /\ fb' = TRUE
    /\ Goto(d, IF why[d] \in {"missing", "expired"} THEN "guard" ELSE "markRead")
    /\ UNCHANGED <<fileVars, keyVars, ownVars, wdVars, faults, answers, lost>>

\* Where a delivery goes once it has marked the file, or failed to.
AfterMark(d) ==
    CASE why[d] = "ok"     -> Exit(d)
      [] why[d] = "rebind" -> /\ Goto(d, "unlock") /\ why' = [why EXCEPT ![d] = "dead"]
                              /\ buf' = [buf EXCEPT ![d] = None]
                              /\ UNCHANGED fd
      [] OTHER             -> /\ Goto(d, "guard")
                              /\ buf' = [buf EXCEPT ![d] = None]
                              /\ UNCHANGED <<why, fd>>

\* The mark: json.load, then open for writing, which truncates the file or
\* creates it again, then the buffer is flushed by close.
MarkRead(d) ==
    /\ At(d, "markRead")
    /\ IF Whole
       THEN /\ buf' = [buf EXCEPT ![d] = IF why[d] = "ok" THEN "injected" ELSE pend]
            /\ Goto(d, "markOpen")
            /\ UNCHANGED <<why, fd>>
       ELSE AfterMark(d)
    /\ UNCHANGED <<fileVars, fb, key, wdVars, faults, answers, lost>>

MarkOpen(d) ==
    /\ At(d, "markOpen")
    /\ pend' = "torn" /\ fds' = fds \cup {d}
    /\ Goto(d, "markFlush")
    /\ UNCHANGED <<source, age, fb, keyVars, ownVars, wdVars, faults, answers, lost>>

\* Fault: the descriptor is left open, with the text in its buffer.
MarkFlushBuffered(d) ==
    /\ At(d, "markFlush")
    /\ fds' = fds \ {d}
    /\ AfterMark(d)
    /\ UNCHANGED <<pend, source, age, fb, key, wdVars, faults, answers, lost>>

\* Of two writers of one inode the second may leave the tail of a longer text.
MarkFlush(d) ==
    /\ At(d, "markFlush")
    /\ fds' = fds \ {d}
    /\ IF d \in fds
       THEN pend' \in {buf[d]} \cup (IF pend = "torn" THEN {} ELSE {"garbled"})
       ELSE UNCHANGED pend
    /\ AfterMark(d)
    /\ UNCHANGED <<source, age, fb, key, wdVars, faults, answers, lost>>

\* lib/p0a-guard.sh: a runner's pull request is left alone, and so is any on
\* which gh shows an autofix comment, or with AUTOFIX_AUTO_ENABLED.
Proceed(s) == s # "runner"

\* spawn_fallback: the pull request is left to others, or a droid starts.
\* After a server error descriptor 200 is still open, and the droid inherits
\* it with the lock.
Guard(d) ==
    /\ At(d, "guard")
    /\ Settled
    /\ \/ Exit(d)
       \/ /\ Proceed(SourceRead) /\ why[d] = "5xx"
          /\ Goto(d, "droid") /\ UNCHANGED <<fd, ownVars>>
    /\ UNCHANGED <<fileVars, fb, key, wdVars, faults, lost>>

DroidEnds(d) ==
    /\ At(d, "droid") /\ Exit(d)
    /\ UNCHANGED <<fileVars, fb, key, wdVars, faults, answers, lost>>

Deliver(d) ==
    \/ ReadPending(d) \/ Quarantine(d) \/ ReadSource(d) \/ Scanner(d) \/ Expire(d)
    \/ KeyCheck(d) \/ KeyRm(d) \/ KeyOpen(d) \/ KeyLock(d)
    \/ Inject(d) \/ Unlock(d) \/ FbCheck(d) \/ FbWrite(d)
    \/ MarkRead(d) \/ MarkOpen(d) \/ MarkFlush(d) \/ Guard(d) \/ DroidEnds(d)

---------------------------------------------------------------------------
(* ci-timeout-watchdog.sh.  Every field is read from the file anew; a file *)
(* without pr_number or created_at is skipped.                             *)

dogFrame == <<source, age, keyVars, ownVars, lost>>

DogScan ==
    /\ At(Watchdog, "idle") /\ Whole
    /\ Goto(Watchdog, "injected")
    /\ UNCHANGED <<pend, fds, fb, wdVars, faults, answers, dogFrame>>

DogReadInjected ==
    /\ At(Watchdog, "injected")
    /\ mark' = IF Whole THEN pend ELSE "plain"
    /\ Goto(Watchdog, "source")
    /\ UNCHANGED <<pend, fds, fb, src, faults, answers, dogFrame>>

\* Fault: phase B is left out.
DogPhaseAOnly(s) ==
    IF mark = "plain" /\ age # "young"
    THEN IF s = "scanner" THEN "remove" ELSE "guard"
    ELSE "idle"

\* Fault: the watchdog leaves an expired registration to the next delivery.
DogPhaseUntilExpiry(s) ==
    IF mark = "plain" /\ age = "late" THEN IF s = "scanner" THEN "remove" ELSE "guard"
    ELSE IF mark = "overdue" THEN "state" ELSE "idle"

\* Phase B is for injections older than 45 minutes, phase A for registrations
\* without injection older than 30, unless they are a scanner's.
DogPhase(s) ==
    CASE mark = "overdue"                                 -> "state"
      [] mark = "plain" /\ age # "young" /\ s = "scanner" -> "remove"
      [] mark = "plain" /\ age # "young" /\ s # "scanner" -> "guard"
      [] OTHER                                            -> "idle"

DogReadSource ==
    /\ At(Watchdog, "source")
    /\ Goto(Watchdog, DogPhase(SourceRead))
    /\ src' = IF DogPhase(SourceRead) = "idle" THEN None ELSE SourceRead
    /\ mark' = None
    /\ IF DogPhase(SourceRead) = "remove" THEN Settled ELSE UNCHANGED answers
    /\ UNCHANGED <<pend, fds, fb, faults, dogFrame>>

\* gh pr view: a merged pull request needs nothing, an unknown state waits for
\* the next scan.
DogState ==
    /\ At(Watchdog, "state")
    /\ \/ Works /\ Settled /\ Goto(Watchdog, "remove")
       \/ Works /\ Goto(Watchdog, "guard") /\ UNCHANGED answers
       \/ Fails("gh") /\ Goto(Watchdog, "idle") /\ UNCHANGED answers
    /\ src' = IF pc'[Watchdog] = "idle" THEN None ELSE src
    /\ UNCHANGED <<pend, fds, fb, mark, dogFrame>>

DogGuard ==
    /\ At(Watchdog, "guard")
    /\ \/ Settled /\ Goto(Watchdog, "remove")
       \/ Proceed(src) /\ Goto(Watchdog, "fbCheck") /\ UNCHANGED answers
    /\ UNCHANGED <<pend, fds, fb, wdVars, faults, dogFrame>>

DogFbCheck ==
    /\ At(Watchdog, "fbCheck")
    /\ \/ fb /\ Settled /\ Goto(Watchdog, "remove") /\ UNCHANGED fb
       \/ fb' = TRUE /\ Goto(Watchdog, "spawn") /\ UNCHANGED answers
    /\ UNCHANGED <<pend, fds, wdVars, faults, dogFrame>>

\* A droid that is gone after two seconds is reported to PostHog.
DogSpawn ==
    /\ At(Watchdog, "spawn")
    /\ Settled
    /\ Goto(Watchdog, "remove")
    /\ UNCHANGED <<pend, fds, fb, wdVars, faults, dogFrame>>

DogRemove ==
    /\ At(Watchdog, "remove")
    /\ TakeAway
    /\ src' = None
    /\ Goto(Watchdog, "idle")
    /\ UNCHANGED <<fb, mark, faults, answers, dogFrame>>

Dog == DogScan \/ DogReadInjected \/ DogReadSource \/ DogState \/ DogGuard
       \/ DogFbCheck \/ DogSpawn \/ DogRemove

---------------------------------------------------------------------------
(* The rest of the world.                                                  *)

\* Where the file is gone, truncated, or locked out by a young fallback lock,
\* and only this process would still start a fallback.
Exposed(p) ==
    IF p = Watchdog THEN pc[p] = "spawn"
    ELSE \/ pc[p] \in {"markFlush", "guard"}
         \/ pc[p] \in {"markRead", "markOpen"} /\ why[p] \in {"dead", "5xx"}
         \/ pc[p] \in {"fbCheck", "fbWrite"} /\ why[p] = "expired"

Kill(p) ==
    /\ pc[p] \notin {"new", "done", "droid", "idle"}
    /\ Fails("kill")
    /\ IF p = Watchdog
       THEN Goto(p, "idle") /\ mark' = None /\ src' = None /\ UNCHANGED <<fds, fd, ownVars>>
       ELSE Exit(p) /\ fds' = fds \ {p} /\ UNCHANGED wdVars
    /\ lost' = (lost \/ Exposed(p))
    /\ UNCHANGED <<pend, source, age, fb, key, answers>>

RegistrationAges ==
    /\ source # None /\ age # "expired"
    /\ age' = IF age = "young" THEN "late" ELSE "expired"
    /\ UNCHANGED <<pend, fds, source, fb, keyVars, pc, ownVars, wdVars, faults,
                   answers, lost>>

InjectionAges ==
    /\ pend = "injected" /\ pend' = "overdue"
    /\ UNCHANGED <<fds, source, age, fb, keyVars, pc, ownVars, wdVars, faults,
                   answers, lost>>

TimePasses == RegistrationAges \/ InjectionAges

Next ==
    \/ \E s \in Sources : Register(s)
    \/ \E d \in Deliveries : Arrive(d) \/ Deliver(d)
    \/ Dog
    \/ \E p \in Procs : Kill(p)
    \/ TimePasses

Spec == Init /\ [][Next]_vars

\* launchd runs the watchdog every few minutes, a delivery that has started
\* goes on (every call has a timeout), time passes.  Deliveries need not
\* arrive.
Fairness ==
    /\ WF_vars(Dog)
    /\ \A d \in Deliveries : WF_vars(Deliver(d))
    /\ WF_vars(RegistrationAges) /\ WF_vars(InjectionAges)

FairSpec == Spec /\ Fairness
---------------------------------------------------------------------------
(* Properties.                                                             *)

TypeOK ==
    /\ pend \in Text \cup {None, "torn", "garbled"}
    /\ fds \subseteq Deliveries
    /\ source \in Sources \cup {None}
    /\ age \in {"young", "late", "expired"}
    /\ fb \in BOOLEAN
    /\ key \in Deliveries \cup {None}
    /\ fd \in [Deliveries -> Deliveries \cup {None}]
    /\ pc \in [Procs -> DelPC \cup DogPC]
    /\ why \in [Deliveries -> Why] /\ buf \in [Deliveries -> Text \cup {None}]
    /\ mark \in Text \cup {None} /\ src \in Sources \cup {None, "session"}
    /\ faults \in 0..MaxFaults
    /\ answers \subseteq {"injected", "settled"} /\ lost \in BOOLEAN

\* A truncated registration has a writer that will complete it, unless that
\* writer was killed: no reader is left with an empty file.
TruncatedIsBeingWritten ==
    pend = "torn" => lost \/ \E d \in fds : pc[d] = "markFlush"

\* However the scripts interleave, and whatever fails or is killed, a
\* registered pull request is settled: by a fallback droid, a decision to
\* leave it to others, or a report.  A message to the session is not enough,
\* except for a file that two writers have garbled, which the watchdog
\* skips.  Only kills in the places that Exposed names are excepted.
RegistrationIsSettled ==
    source # None ~> \/ "settled" \in answers \/ lost
                     \/ "injected" \in answers /\ pend = "garbled"

\* Pending files do not accumulate: each disappears, unless two writers have
\* garbled it or a kill truncated it.
PendingDrains ==
    pend # None ~> (pend \in {None, "garbled"} \/ lost)

\* "The lock file is kept, which prevents repeated triggers for 60 minutes":
\* after a message, no delivery that finds the lock file of another (and has
\* not removed it as stale) sends one more.
RepeatIsSuppressed ==
    [][\A d \in Deliveries :
          /\ "injected" \in answers
          /\ why[d] # "ok" /\ why'[d] = "ok"
          => fd[d] = d]_vars
================================================================================
