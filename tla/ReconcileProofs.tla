---------------------------- MODULE ReconcileProofs ----------------------------
(***************************************************************************)
(* Proofs about Reconcile, for every set of issues and mirrors and any     *)
(* number of failing calls.                                                *)
(***************************************************************************)
EXTENDS Reconcile, TLAPS

\* Between the sweeper's comment and its close, the comment is on the pull
\* request that is still there; a fallback is never about a frozen issue, and
\* what keeps it so: a frozen issue has its marker, and no other status than
\* that of the failure, or of a session started since, or none at all.
Guarded ==
    /\ pc = "close" /\ same => said
    /\ pc = "cancel" => it \notin frozen
    /\ frozen \subseteq marker
    /\ \A i \in frozen : st[i] \in {"infra", "running", "none"}

IInv == TypeOK /\ Guarded

LEMMA InitInv == ASSUME ReconcileAssumption, Init PROVE IInv
<1>1. newer \in [Issues -> SUBSET Issues]
    BY DEF ReconcileAssumption, Init
<1>2. said = FALSE /\ same = FALSE
    BY DEF Init
<1>3. link \in [Mirrors -> Issues \cup {None}]
    BY DEF ReconcileAssumption, Init
<1>4. same \in BOOLEAN /\ said \in BOOLEAN
    BY <1>2
<1>5. /\ lin \in [Issues -> LinState] /\ mir \in [Mirrors -> {"open", "closed"}]
      /\ mention \in [Mirrors -> SUBSET Issues]
      /\ pr \in [Issues -> {"none", "green", "red"}]
      /\ droid \in [Issues -> {"off", "starting", "working"}]
      /\ st \in [Issues -> Exits \cup {"none", "running"}]
      /\ count \in [Issues -> 0..FallbackTicks]
    BY DEF ReconcileAssumption, Init, LinState, Exits
<1>6. /\ fresh \subseteq Issues /\ exited = {} /\ page \in Pages /\ webhooks = 0
      /\ lockFile = {} /\ sentinel = {} /\ marker = {} /\ pc = "idle" /\ it = None
      /\ list = {} /\ snapStarted = {} /\ snapFresh = {} /\ faults = 0 /\ frozen = {}
    BY DEF ReconcileAssumption, Init
<1>7. webhooks \in 0..MaxWebhooks /\ faults \in 0..MaxFaults
    BY <1>6 DEF ReconcileAssumption
<1>8. TypeOK
    BY <1>1, <1>3, <1>4, <1>5, <1>6, <1>7 DEF TypeOK, TickPC
<1>9. Guarded
    BY DEF Init, Guarded
<1> QED
    BY <1>8, <1>9 DEF IInv

\* Every action preserves the types.
LEMMA TypeStep == ASSUME ReconcileAssumption, TypeOK, [Next]_vars PROVE TypeOK'
<1> USE DEF ReconcileAssumption, TypeOK, LinState, Exits, TickPC,
            refVars, remoteVars, hostVars, memoVars, sweepVars, snapVars, tickVars
<1>1. CASE TickStart
    BY <1>1 DEF TickStart, Newest, Goto, Works, Fails
<1>2. CASE CloseTerminal
    BY <1>2 DEF CloseTerminal, Goto, Works, Fails
<1>3. CASE GapScan
    BY <1>3 DEF GapScan, Listings, Orphans, Done, Goto, Works, Fails
<1>4. CASE GapCreate
    BY <1>4 DEF GapCreate, Done, Goto, Works, Fails
<1>5. CASE LoopEnd
    BY <1>5 DEF LoopEnd, Goto, Works, Fails
<1>6. ASSUME NEW i \in Issues, Visit(i) PROVE TypeOK'
    BY <1>6 DEF Visit, Done, Goto, Works, Fails
<1>7. CASE CheckPr
    <2>1. same' \in BOOLEAN /\ said' \in BOOLEAN
        BY <1>7, Zenon DEF CheckPr, Done, Goto
    <2> QED
        BY <2>1, <1>7 DEF CheckPr, Done, Goto, Works, Fails
<1>8. CASE SweepComment
    <2>1. same' \in BOOLEAN /\ said' \in BOOLEAN
        BY <1>8, Zenon DEF SweepComment, Comment, Done, Goto
    <2> QED
        BY <2>1, <1>8 DEF SweepComment, Comment, Done, Goto, Works, Fails
<1>9. CASE SweepClose
    <2>1. same' \in BOOLEAN /\ said' \in BOOLEAN
        BY <1>9, Zenon DEF SweepClose, Done, Goto
    <2> QED
        BY <2>1, <1>9 DEF SweepClose, Done, Goto, Works, Fails
<1>10. CASE CheckMirror
    BY <1>10 DEF CheckMirror, Goto, Works, Fails
<1>11. CASE ReadState
    BY <1>11 DEF ReadState, Done, Finished, Goto, Works, Fails
<1>12. CASE Absorb
    BY <1>12 DEF Absorb, Done, Move, Goto, Works, Fails
<1>13. CASE CheckLocal
    BY <1>13 DEF CheckLocal, Done, StatusFailed, Blocked, Up, Exits, Goto, Works, Fails
<1>14. CASE CheckExit
    BY <1>14 DEF CheckExit, Done, Goto, Works, Fails
<1>15. CASE PushCompleted
    BY <1>15 DEF PushCompleted, Done, Move, Goto, Works, Fails
<1>16. CASE CancelFallback
    BY <1>16 DEF CancelFallback, Done, Move, Goto, Works, Fails
<1>17. CASE Verify
    BY <1>17 DEF Verify, Done, NoStatus, Blocked, Up, Exits, Goto, Works, Fails
<1>18. CASE Trigger
    BY <1>18 DEF Trigger, StartDroid, Move, Goto, Works, Fails
<1>19. ASSUME NEW i \in Issues, Webhook(i) PROVE TypeOK'
    BY <1>19 DEF Webhook, StartDroid, Move, Goto, Works, Fails
<1>20. ASSUME NEW i \in Issues, Spawned(i) PROVE TypeOK'
    BY <1>20 DEF Spawned, Goto, Works, Fails
<1>21. ASSUME NEW i \in Issues, SessionEnd(i) PROVE TypeOK'
    BY <1>21 DEF SessionEnd, Exits, Goto, Works, Fails
<1>22. ASSUME NEW i \in Issues, PrTurnsRed(i) PROVE TypeOK'
    BY <1>22 DEF PrTurnsRed, Goto, Works, Fails
<1>23. ASSUME NEW i \in Issues, PrMerged(i) PROVE TypeOK'
    BY <1>23 DEF PrMerged, Move, Goto, Works, Fails
<1>24. ASSUME NEW i \in Issues, Reopened(i) PROVE TypeOK'
    BY <1>24 DEF Reopened, Move, Finished, Goto, Works, Fails
<1>25. ASSUME NEW i \in Issues, HygieneLock(i) PROVE TypeOK'
    BY <1>25 DEF HygieneLock, Goto, Works, Fails
<1>26. ASSUME NEW i \in Issues, HygieneStatus(i) PROVE TypeOK'
    BY <1>26 DEF HygieneStatus, Exits, Goto, Works, Fails
<1>27. ASSUME NEW i \in Issues, Mentioned(i) PROVE TypeOK'
    BY <1>27 DEF Mentioned, Goto, Works, Fails
<1>28. CASE TimePasses
    BY <1>28 DEF TimePasses, Goto, Works, Fails
<1>29. CASE UNCHANGED vars
    BY <1>29 DEF vars
<1> QED
    BY <1>1, <1>2, <1>3, <1>4, <1>5, <1>6, <1>7, <1>8, <1>9, <1>10, <1>11, <1>12, <1>13, <1>14, <1>15, <1>16, <1>17, <1>18, <1>19, <1>20, <1>21, <1>22, <1>23, <1>24, <1>25, <1>26, <1>27, <1>28, <1>29 DEF Next, Tick, Others

\* Every action preserves the guards.
LEMMA GuardedStep == ASSUME ReconcileAssumption, IInv, [Next]_vars PROVE Guarded'
<1> USE DEF ReconcileAssumption, IInv, TypeOK, Guarded, LinState, Exits, TickPC,
            refVars, remoteVars, hostVars, memoVars, sweepVars, snapVars, tickVars
<1>1. CASE TickStart
    BY <1>1 DEF TickStart, Newest, Goto, Works, Fails
<1>2. CASE CloseTerminal
    BY <1>2 DEF CloseTerminal, Goto, Works, Fails
<1>3. CASE GapScan
    BY <1>3 DEF GapScan, Listings, Orphans, Done, Goto, Works, Fails
<1>4. CASE GapCreate
    BY <1>4 DEF GapCreate, Done, Goto, Works, Fails
<1>5. CASE LoopEnd
    BY <1>5 DEF LoopEnd, Goto, Works, Fails
<1>6. ASSUME NEW i \in Issues, Visit(i) PROVE Guarded'
    BY <1>6 DEF Visit, Done, Goto, Works, Fails
<1>7. CASE CheckPr
    BY <1>7 DEF CheckPr, Done, Goto, Works, Fails
<1>8. CASE SweepComment
    BY <1>8 DEF SweepComment, Comment, Done, Goto, Works, Fails
<1>9. CASE SweepClose
    BY <1>9 DEF SweepClose, Done, Goto, Works, Fails
<1>10. CASE CheckMirror
    BY <1>10 DEF CheckMirror, Goto, Works, Fails
<1>11. CASE ReadState
    BY <1>11 DEF ReadState, Done, Finished, Goto, Works, Fails
<1>12. CASE Absorb
    BY <1>12 DEF Absorb, Done, Move, Goto, Works, Fails
<1>13. CASE CheckLocal
    BY <1>13 DEF CheckLocal, Done, StatusFailed, Blocked, Up, Exits, Goto, Works, Fails
<1>14. CASE CheckExit
    BY <1>14 DEF CheckExit, Done, Goto, Works, Fails
<1>15. CASE PushCompleted
    BY <1>15 DEF PushCompleted, Done, Move, Goto, Works, Fails
<1>16. CASE CancelFallback
    BY <1>16 DEF CancelFallback, Done, Move, Goto, Works, Fails
<1>17. CASE Verify
    BY <1>17 DEF Verify, Done, NoStatus, Blocked, Up, Exits, Goto, Works, Fails
<1>18. CASE Trigger
    BY <1>18 DEF Trigger, StartDroid, Move, Goto, Works, Fails
<1>19. ASSUME NEW i \in Issues, Webhook(i) PROVE Guarded'
    BY <1>19 DEF Webhook, StartDroid, Move, Goto, Works, Fails
<1>20. ASSUME NEW i \in Issues, Spawned(i) PROVE Guarded'
    BY <1>20 DEF Spawned, Goto, Works, Fails
<1>21. ASSUME NEW i \in Issues, SessionEnd(i) PROVE Guarded'
    BY <1>21 DEF SessionEnd, Exits, Goto, Works, Fails
<1>22. ASSUME NEW i \in Issues, PrTurnsRed(i) PROVE Guarded'
    BY <1>22 DEF PrTurnsRed, Goto, Works, Fails
<1>23. ASSUME NEW i \in Issues, PrMerged(i) PROVE Guarded'
    BY <1>23 DEF PrMerged, Move, Goto, Works, Fails
<1>24. ASSUME NEW i \in Issues, Reopened(i) PROVE Guarded'
    BY <1>24 DEF Reopened, Move, Finished, Goto, Works, Fails
<1>25. ASSUME NEW i \in Issues, HygieneLock(i) PROVE Guarded'
    BY <1>25 DEF HygieneLock, Goto, Works, Fails
<1>26. ASSUME NEW i \in Issues, HygieneStatus(i) PROVE Guarded'
    BY <1>26 DEF HygieneStatus, Exits, Goto, Works, Fails
<1>27. ASSUME NEW i \in Issues, Mentioned(i) PROVE Guarded'
    BY <1>27 DEF Mentioned, Goto, Works, Fails
<1>28. CASE TimePasses
    BY <1>28 DEF TimePasses, Goto, Works, Fails
<1>29. CASE UNCHANGED vars
    BY <1>29 DEF vars
<1> QED
    BY <1>1, <1>2, <1>3, <1>4, <1>5, <1>6, <1>7, <1>8, <1>9, <1>10, <1>11, <1>12, <1>13, <1>14, <1>15, <1>16, <1>17, <1>18, <1>19, <1>20, <1>21, <1>22, <1>23, <1>24, <1>25, <1>26, <1>27, <1>28, <1>29 DEF Next, Tick, Others

\* The inductive invariant holds of every behaviour.
LEMMA Invariance == ASSUME ReconcileAssumption PROVE Spec => []IInv
<1>1. Init => IInv
    BY InitInv
<1>2. IInv /\ [Next]_vars => IInv'
    BY TypeStep, GuardedStep DEF IInv
<1> QED
    BY <1>1, <1>2, PTL DEF Spec

\* Every variable keeps its type, whatever fails and whoever interferes.
THEOREM TickTypeCorrect == ASSUME ReconcileAssumption PROVE Spec => []TypeOK
BY Invariance, PTL DEF IInv

\* No other step than the sweeper's close leaves that place.
LEMMA CloseIsAnnounced ==
    ASSUME IInv, [Next]_vars, pc = "close", pc' # "close", pr' # pr
    PROVE  said
<1> USE DEF IInv, TypeOK, Guarded, refVars, remoteVars, hostVars, memoVars, sweepVars, snapVars, tickVars
<1>1. CASE SweepClose
    BY <1>1 DEF SweepClose, Works, Fails
<1>2. ASSUME ~SweepClose PROVE FALSE
    BY <1>2 DEF Next, vars, Tick, Others, TickStart, CloseTerminal, GapScan, GapCreate, LoopEnd,
                Visit, CheckPr, SweepComment, CheckMirror, ReadState, Absorb, CheckLocal,
                CheckExit, PushCompleted, CancelFallback, Verify, Trigger, Webhook, Spawned,
                SessionEnd, PrTurnsRed, PrMerged, Mentioned, Reopened, HygieneLock,
                HygieneStatus, TimePasses
<1> QED
    BY <1>1, <1>2

\* The sweeper closes no pull request without a comment of that very sweep.
THEOREM SweeperNeverSilentHolds == ASSUME ReconcileAssumption PROVE Spec => SweeperNeverSilent
<1>1. IInv /\ [Next]_vars => [pc = "close" /\ pc' # "close" /\ pr' # pr => said]_vars
    BY CloseIsAnnounced
<1> QED
    BY <1>1, Invariance, PTL DEF Spec, SweeperNeverSilent

\* The fallback cancels no issue whose infrastructure failure a tick has read.
THEOREM InfraFrozenNeverCancelledHolds ==
    ASSUME ReconcileAssumption PROVE Spec => InfraFrozenNeverCancelled
<1>1. IInv =>
        [\A i \in Issues : i \in frozen /\ pc = "cancel" /\ it = i => lin'[i] = lin[i]]_vars
    BY DEF IInv, Guarded
<1> QED
    BY <1>1, Invariance, PTL DEF Spec, InfraFrozenNeverCancelled
================================================================================
