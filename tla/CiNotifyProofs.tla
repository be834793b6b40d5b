---------------------------- MODULE CiNotifyProofs ----------------------------
(***************************************************************************)
(* Type correctness of CiNotify, and that a truncated registration always  *)
(* has a writer about to complete it, for any number of deliveries and     *)
(* faults.  TruncatedIsBeingWritten is inductive relative to TypeOK: what  *)
(* a writer flushes is a text that it has read before.                     *)
(***************************************************************************)
EXTENDS CiNotify, TLAPS

IInv == TypeOK /\ TruncatedIsBeingWritten

LEMMA InitIInv == Init => IInv
<1> SUFFICES ASSUME Init PROVE IInv
  OBVIOUS
<1>1. faults \in 0..MaxFaults
  BY CiAssumption DEF Init
<1>2. pc \in [Procs -> DelPC \cup DogPC]
  BY DEF Init, DelPC, DogPC
<1>3. /\ why \in [Deliveries -> Why] /\ buf \in [Deliveries -> Text \cup {None}]
      /\ fd \in [Deliveries -> Deliveries \cup {None}]
  BY DEF Init, Why
<1>4. TypeOK
  BY <1>1, <1>2, <1>3 DEF Init, TypeOK
<1> QED
  BY <1>4 DEF Init, IInv, TruncatedIsBeingWritten, None

\* A delivery that ends, or goes on after a mark, keeps the types.
LEMMA ExitTypes ==
    ASSUME TypeOK, NEW d \in Deliveries, Exit(d)
    PROVE  /\ pc' \in [Procs -> DelPC \cup DogPC]
           /\ fd' \in [Deliveries -> Deliveries \cup {None}]
           /\ why' \in [Deliveries -> Why]
           /\ buf' \in [Deliveries -> Text \cup {None}]
           /\ \A p \in Procs \ {d} : pc'[p] = pc[p]
BY DEF TypeOK, Exit, Goto, DelPC, DogPC, Procs, None, Why

LEMMA AfterMarkTypes ==
    ASSUME TypeOK, NEW d \in Deliveries, AfterMark(d)
    PROVE  /\ pc' \in [Procs -> DelPC \cup DogPC]
           /\ fd' \in [Deliveries -> Deliveries \cup {None}]
           /\ why' \in [Deliveries -> Why]
           /\ buf' \in [Deliveries -> Text \cup {None}]
           /\ \A p \in Procs \ {d} : pc'[p] = pc[p]
<1>1. CASE why[d] = "ok"
  BY <1>1, ExitTypes DEF AfterMark
<1>2. CASE why[d] = "rebind"
  BY <1>2 DEF AfterMark, TypeOK, Goto, DelPC, DogPC, Procs, None, Why
<1>3. CASE why[d] \notin {"ok", "rebind"}
  BY <1>3 DEF AfterMark, TypeOK, Goto, DelPC, DogPC, Procs, None, Why
<1> QED
  BY <1>1, <1>2, <1>3

\* A step that keeps pend, fds, lost and every writer's place keeps the
\* invariant.
LEMMA WritersStay ==
    ASSUME TruncatedIsBeingWritten, TypeOK,
           UNCHANGED <<pend, lost>>,
           \A d \in fds : pc[d] = "markFlush" => d \in fds' /\ pc'[d] = "markFlush"
    PROVE  TruncatedIsBeingWritten'
BY DEF TruncatedIsBeingWritten

LEMMA TakenAway ==
    ASSUME pend' = None PROVE TruncatedIsBeingWritten'
BY DEF TruncatedIsBeingWritten, None

\* The steps of a delivery before it writes to the pending file.
LEMMA ApproachSteps ==
    ASSUME IInv, NEW d \in Deliveries,
           \/ Arrive(d) \/ ReadPending(d) \/ ReadSource(d) \/ KeyCheck(d) \/ KeyRm(d)
           \/ KeyOpen(d) \/ KeyLock(d) \/ Unlock(d) \/ FbCheck(d) \/ FbWrite(d)
    PROVE  IInv'
<1> USE DEF IInv
<1>0. TypeOK /\ d \in Procs /\ fds \subseteq Procs
  BY DEF TypeOK, Procs
<1>1. CASE Arrive(d)
  <2>1. TypeOK'
    BY <1>0, <1>1 DEF Arrive, TypeOK, fileVars, keyVars, wdVars, Goto, At, DelPC, DogPC, Why
  <2>2. TruncatedIsBeingWritten'
    BY <1>0, <1>1, WritersStay DEF Arrive, TypeOK, fileVars, Goto, At
  <2> QED BY <2>1, <2>2
<1>2. CASE ReadPending(d)
  <2>1. TypeOK'
    BY <1>0, <1>2 DEF ReadPending, TypeOK, fileVars, keyVars, ownVars, wdVars, Goto, At, DelPC, DogPC
  <2>2. TruncatedIsBeingWritten'
    BY <1>0, <1>2, WritersStay DEF ReadPending, TypeOK, fileVars, Goto, At
  <2> QED BY <2>1, <2>2
<1>3. CASE ReadSource(d)
  <2>1. TypeOK'
    BY <1>0, <1>3 DEF ReadSource, TypeOK, fileVars, keyVars, ownVars, wdVars, Goto, At, DelPC, DogPC
  <2>2. TruncatedIsBeingWritten'
    BY <1>0, <1>3, WritersStay DEF ReadSource, TypeOK, fileVars, Goto, At
  <2> QED BY <2>1, <2>2
<1>4. CASE KeyCheck(d)
  <2>1. TypeOK'
    BY <1>0, <1>4 DEF KeyCheck, TypeOK, fileVars, keyVars, ownVars, wdVars, Goto, At, DelPC, DogPC
  <2>2. TruncatedIsBeingWritten'
    BY <1>0, <1>4, WritersStay DEF KeyCheck, TypeOK, fileVars, Goto, At
  <2> QED BY <2>1, <2>2
<1>5. CASE KeyRm(d)
  <2>1. TypeOK'
    BY <1>0, <1>5 DEF KeyRm, TypeOK, fileVars, ownVars, wdVars, Goto, At, DelPC, DogPC
  <2>2. TruncatedIsBeingWritten'
    BY <1>0, <1>5, WritersStay DEF KeyRm, TypeOK, fileVars, Goto, At
  <2> QED BY <2>1, <2>2
<1>6. CASE KeyOpen(d)
  <2>1. TypeOK'
    BY <1>0, <1>6 DEF KeyOpen, TypeOK, fileVars, ownVars, wdVars, Goto, At, DelPC, DogPC
  <2>2. TruncatedIsBeingWritten'
    BY <1>0, <1>6, WritersStay DEF KeyOpen, TypeOK, fileVars, Goto, At
  <2> QED BY <2>1, <2>2
<1>7. CASE KeyLock(d)
  <2>1. /\ pc' \in [Procs -> DelPC \cup DogPC]
        /\ fd' \in [Deliveries -> Deliveries \cup {None}]
        /\ why' \in [Deliveries -> Why] /\ buf' \in [Deliveries -> Text \cup {None}]
        /\ \A p \in Procs \ {d} : pc'[p] = pc[p]
    <3>1. CASE Exit(d)
      BY <1>0, <3>1, ExitTypes
    <3>2. CASE Goto(d, "inject") /\ UNCHANGED <<fd, ownVars>>
      BY <1>0, <3>2 DEF TypeOK, ownVars, Goto, DelPC, DogPC
    <3> QED BY <1>7, <3>1, <3>2 DEF KeyLock
  <2>2. TypeOK'
    BY <1>0, <1>7, <2>1 DEF KeyLock, TypeOK, fileVars, wdVars
  <2>3. TruncatedIsBeingWritten'
    BY <1>0, <1>7, <2>1, WritersStay DEF KeyLock, fileVars, At
  <2> QED BY <2>2, <2>3
<1>8. CASE Unlock(d)
  <2>1. TypeOK'
    BY <1>0, <1>8 DEF Unlock, TypeOK, fileVars, ownVars, wdVars, Goto, At, DelPC, DogPC
  <2>2. TruncatedIsBeingWritten'
    BY <1>0, <1>8, WritersStay DEF Unlock, TypeOK, fileVars, Goto, At
  <2> QED BY <2>1, <2>2
<1>9. CASE FbCheck(d)
  <2>1. /\ pc' \in [Procs -> DelPC \cup DogPC]
        /\ fd' \in [Deliveries -> Deliveries \cup {None}]
        /\ why' \in [Deliveries -> Why] /\ buf' \in [Deliveries -> Text \cup {None}]
        /\ \A p \in Procs \ {d} : pc'[p] = pc[p]
    <3>1. CASE Exit(d)
      BY <1>0, <3>1, ExitTypes
    <3>2. CASE Goto(d, "fbWrite") /\ UNCHANGED <<fd, ownVars>>
      BY <1>0, <3>2 DEF TypeOK, ownVars, Goto, DelPC, DogPC
    <3> QED BY <1>9, <3>1, <3>2 DEF FbCheck
  <2>2. TypeOK'
    BY <1>0, <1>9, <2>1 DEF FbCheck, TypeOK, fileVars, wdVars, Settled
  <2>3. TruncatedIsBeingWritten'
    BY <1>0, <1>9, <2>1, WritersStay DEF FbCheck, fileVars, At
  <2> QED BY <2>2, <2>3
<1>10. CASE FbWrite(d)
  <2>1. TypeOK'
    BY <1>0, <1>10 DEF FbWrite, TypeOK, fileVars, keyVars, ownVars, wdVars, Goto, At, DelPC, DogPC
  <2>2. TruncatedIsBeingWritten'
    BY <1>0, <1>10, WritersStay DEF FbWrite, TypeOK, fileVars, Goto, At
  <2> QED BY <2>1, <2>2
<1> QED
  BY <1>1, <1>2, <1>3, <1>4, <1>5, <1>6, <1>7, <1>8, <1>9, <1>10

\* The steps of a delivery that write, move or remove the pending file.
LEMMA FileSteps ==
    ASSUME IInv, NEW d \in Deliveries,
           Quarantine(d) \/ Scanner(d) \/ Expire(d) \/ MarkRead(d) \/ MarkOpen(d) \/ MarkFlush(d)
    PROVE  IInv'
<1> USE DEF IInv
<1>0. TypeOK /\ d \in Procs
  BY DEF TypeOK, Procs
<1>1. CASE Quarantine(d)
  <2>1. TypeOK'
    BY <1>0, <1>1 DEF Quarantine, TakeAway, TypeOK, keyVars, wdVars, Goto, At, DelPC, DogPC, Why
  <2> QED BY <1>1, <2>1, TakenAway DEF Quarantine, TakeAway
<1>2. CASE Scanner(d)
  <2>1. TypeOK'
    BY <1>0, <1>2, ExitTypes DEF Scanner, TakeAway, Settled, TypeOK, wdVars
  <2>2. CASE TakeAway
    BY <2>1, <2>2, TakenAway DEF TakeAway
  <2>3. CASE UNCHANGED <<pend, fds>>
    BY <1>0, <1>2, <2>1, <2>3, ExitTypes, WritersStay DEF Scanner, At, TypeOK, Procs
  <2> QED BY <1>2, <2>2, <2>3 DEF Scanner
<1>3. CASE Expire(d)
  <2>1. TypeOK'
    BY <1>0, <1>3 DEF Expire, TakeAway, TypeOK, keyVars, wdVars, Goto, At, DelPC, DogPC, Why
  <2> QED BY <1>3, <2>1, TakenAway DEF Expire, TakeAway
<1>4. CASE MarkRead(d)
  <2>1. /\ pc' \in [Procs -> DelPC \cup DogPC]
        /\ fd' \in [Deliveries -> Deliveries \cup {None}]
        /\ why' \in [Deliveries -> Why] /\ buf' \in [Deliveries -> Text \cup {None}]
        /\ \A p \in Procs \ {d} : pc'[p] = pc[p]
    <3>1. CASE Whole
      BY <1>0, <1>4, <3>1 DEF MarkRead, Whole, TypeOK, Goto, Text, DelPC, DogPC
    <3>2. CASE ~Whole
      BY <1>0, <1>4, <3>2, AfterMarkTypes DEF MarkRead
    <3> QED BY <3>1, <3>2
  <2>2. TypeOK'
    <3>1. UNCHANGED fd \/ AfterMark(d)
      BY <1>4 DEF MarkRead
    <3> QED BY <1>0, <1>4, <2>1 DEF MarkRead, TypeOK, fileVars, wdVars
  <2>3. TruncatedIsBeingWritten'
    BY <1>0, <1>4, <2>1, WritersStay DEF MarkRead, fileVars, At, TypeOK, Procs
  <2> QED BY <2>2, <2>3
<1>5. CASE MarkOpen(d)
  <2>1. TypeOK'
    BY <1>0, <1>5 DEF MarkOpen, TypeOK, keyVars, ownVars, wdVars, Goto, At, DelPC, DogPC
  <2>2. d \in fds' /\ pc'[d] = "markFlush"
    BY <1>0, <1>5 DEF MarkOpen, Goto, TypeOK
  <2> QED BY <2>1, <2>2 DEF TruncatedIsBeingWritten
<1>6. CASE MarkFlush(d)
  <2>1. /\ pc' \in [Procs -> DelPC \cup DogPC]
        /\ fd' \in [Deliveries -> Deliveries \cup {None}]
        /\ why' \in [Deliveries -> Why] /\ buf' \in [Deliveries -> Text \cup {None}]
        /\ \A p \in Procs \ {d} : pc'[p] = pc[p]
    BY <1>0, <1>6, AfterMarkTypes DEF MarkFlush
  <2>2. CASE d \in fds
    <3>1. pend' \in Text \cup {None, "garbled"}
      BY <1>0, <1>6, <2>2 DEF MarkFlush, TypeOK
    <3>2. pend' # "torn"
      BY <3>1 DEF Text, None
    <3>3. TypeOK'
      BY <1>0, <1>6, <2>1, <3>1 DEF MarkFlush, TypeOK, wdVars
    <3> QED BY <3>2, <3>3 DEF TruncatedIsBeingWritten
  <2>3. CASE d \notin fds
    <3>1. TypeOK'
      BY <1>0, <1>6, <2>1, <2>3 DEF MarkFlush, TypeOK, wdVars
    <3>2. TruncatedIsBeingWritten'
      BY <1>0, <1>6, <2>1, <2>3, WritersStay DEF MarkFlush, TypeOK, Procs
    <3> QED BY <3>1, <3>2
  <2> QED BY <2>2, <2>3
<1> QED
  BY <1>1, <1>2, <1>3, <1>4, <1>5, <1>6

\* The injection, and the end of a delivery.
LEMMA AnswerSteps ==
    ASSUME IInv, NEW d \in Deliveries, Inject(d) \/ Guard(d) \/ DroidEnds(d)
    PROVE  IInv'
<1> USE DEF IInv
<1>0. TypeOK /\ d \in Procs
  BY DEF TypeOK, Procs
<1>1. CASE Inject(d)
  <2>1. faults' \in 0..MaxFaults
    BY <1>0, <1>1, CiAssumption DEF Inject, Fails, Works, TypeOK
  <2>2. CASE Exit(d)
    <3>1. key' \in Deliveries \cup {None} /\ answers' = answers
      BY <1>0, <1>1, <2>2 DEF Inject, TypeOK, Goto, Exit
    <3>2. TypeOK'
      BY <1>0, <1>1, <2>1, <2>2, <3>1, ExitTypes DEF Inject, TypeOK, fileVars, wdVars
    <3>3. TruncatedIsBeingWritten'
      BY <1>0, <1>1, <2>2, ExitTypes, WritersStay DEF Inject, fileVars, At, TypeOK, Procs
    <3> QED BY <3>2, <3>3
  <2>3. CASE ~Exit(d)
    <3>1. PICK w \in {"ok", "rebind", "dead", "5xx"} :
            /\ UNCHANGED <<key, fd, buf>>
            /\ why' = [why EXCEPT ![d] = w]
            /\ answers' = IF w = "ok" THEN answers \cup {"injected"} ELSE answers
            /\ Goto(d, CASE w = "dead" -> "unlock" [] w = "5xx" -> "fbCheck"
                         [] OTHER -> "markRead")
      BY <1>1, <2>3 DEF Inject
    <3>2. PICK x \in DelPC : pc' = [pc EXCEPT ![d] = x]
      BY <3>1 DEF Goto, DelPC
    <3>3. TypeOK'
      BY <1>0, <1>1, <2>1, <3>1, <3>2 DEF Inject, TypeOK, fileVars, wdVars, Why
    <3>4. TruncatedIsBeingWritten'
      BY <1>0, <1>1, <3>2, WritersStay DEF Inject, fileVars, At, TypeOK, Procs
    <3> QED BY <3>3, <3>4
  <2> QED BY <2>2, <2>3
<1>2. CASE Guard(d)
  <2>1. /\ pc' \in [Procs -> DelPC \cup DogPC]
        /\ fd' \in [Deliveries -> Deliveries \cup {None}]
        /\ why' \in [Deliveries -> Why] /\ buf' \in [Deliveries -> Text \cup {None}]
        /\ \A p \in Procs \ {d} : pc'[p] = pc[p]
    <3>1. CASE Exit(d)
      BY <1>0, <3>1, ExitTypes
    <3>2. CASE Goto(d, "droid") /\ UNCHANGED <<fd, ownVars>>
      BY <1>0, <3>2 DEF TypeOK, ownVars, Goto, DelPC, DogPC
    <3> QED BY <1>2, <3>1, <3>2 DEF Guard
  <2>2. TypeOK'
    BY <1>0, <1>2, <2>1 DEF Guard, TypeOK, fileVars, wdVars, Settled
  <2>3. TruncatedIsBeingWritten'
    BY <1>0, <1>2, <2>1, WritersStay DEF Guard, fileVars, At, TypeOK, Procs
  <2> QED BY <2>2, <2>3
<1>3. CASE DroidEnds(d)
  <2>1. TypeOK'
    BY <1>0, <1>3, ExitTypes DEF DroidEnds, TypeOK, fileVars, wdVars
  <2>2. TruncatedIsBeingWritten'
    BY <1>0, <1>3, ExitTypes, WritersStay DEF DroidEnds, fileVars, At, TypeOK, Procs
  <2> QED BY <2>1, <2>2
<1> QED
  BY <1>1, <1>2, <1>3

\* The watchdog writes to no registration: it removes the file or leaves it.
LEMMA DogSteps ==
    ASSUME IInv, Dog
    PROVE  IInv'
<1> USE DEF IInv
<1>0. TypeOK /\ Watchdog \in Procs /\ Watchdog \notin fds
  BY CiAssumption DEF TypeOK, Procs
<1>1. /\ pc' \in [Procs -> DelPC \cup DogPC]
      /\ \A p \in Procs \ {Watchdog} : pc'[p] = pc[p]
  <2>1. \E x \in DogPC : pc' = [pc EXCEPT ![Watchdog] = x]
    BY DEF Dog, DogScan, DogReadInjected, DogReadSource, DogPhase, DogState, DogGuard,
           DogFbCheck, DogSpawn, DogRemove, Goto, DogPC
  <2> QED BY <1>0, <2>1 DEF TypeOK
<1>2. faults' \in 0..MaxFaults
  BY <1>0, CiAssumption
     DEF Dog, DogScan, DogReadInjected, DogReadSource, DogState, DogGuard, DogFbCheck, DogSpawn,
         DogRemove, Fails, Works, TypeOK
<1>3. mark' \in Text \cup {None} /\ src' \in Sources \cup {None, "session"}
  BY <1>0 DEF Dog, DogScan, DogReadInjected, DogReadSource, DogState, DogGuard, DogFbCheck,
              DogSpawn, DogRemove, TypeOK, wdVars, SourceRead, Whole, Text
<1>4. /\ fb' \in BOOLEAN
      /\ answers' \subseteq {"injected", "settled"}
      /\ UNCHANGED dogFrame
  BY <1>0 DEF Dog, DogScan, DogReadInjected, DogReadSource, DogState, DogGuard, DogFbCheck,
              DogSpawn, DogRemove, TypeOK, Settled
<1>5. TakeAway \/ UNCHANGED <<pend, fds>>
  BY DEF Dog, DogScan, DogReadInjected, DogReadSource, DogState, DogGuard, DogFbCheck,
         DogSpawn, DogRemove
<1>6. TypeOK'
  BY <1>0, <1>1, <1>2, <1>3, <1>4, <1>5
     DEF TypeOK, TakeAway, dogFrame, keyVars, ownVars
<1>7. TruncatedIsBeingWritten'
  <2>1. CASE TakeAway
    BY <2>1, TakenAway DEF TakeAway
  <2>2. CASE UNCHANGED <<pend, fds>>
    BY <1>0, <1>1, <1>4, <2>2, WritersStay DEF dogFrame, TypeOK, Procs
  <2> QED BY <1>5, <2>1, <2>2
<1> QED
  BY <1>6, <1>7

\* Registration, ageing and kills.
LEMMA WorldSteps ==
    ASSUME IInv,
           \/ \E s \in Sources : Register(s)
           \/ \E p \in Procs : Kill(p)
           \/ TimePasses
    PROVE  IInv'
<1> USE DEF IInv
<1>0. TypeOK
  OBVIOUS
<1>1. ASSUME NEW s \in Sources, Register(s) PROVE IInv'
  BY <1>0, <1>1 DEF Register, TypeOK, TruncatedIsBeingWritten, keyVars, ownVars, wdVars, Text
<1>2. ASSUME NEW p \in Procs, Kill(p) PROVE IInv'
  <2>1. faults' \in 0..MaxFaults
    BY <1>0, <1>2, CiAssumption DEF Kill, Fails, TypeOK
  <2>2. CASE p = Watchdog
    <3>1. /\ pc' \in [Procs -> DelPC \cup DogPC]
          /\ \A q \in Procs \ {p} : pc'[q] = pc[q]
          /\ UNCHANGED <<fds, fd, ownVars>> /\ mark' = None /\ src' = None
      BY <1>0, <1>2, <2>2 DEF Kill, Goto, TypeOK, DogPC
    <3>2. TypeOK'
      BY <1>0, <1>2, <2>1, <3>1 DEF Kill, TypeOK, ownVars, Text
    <3>3. TruncatedIsBeingWritten'
      BY <1>0, <1>2, <2>2, <3>1, CiAssumption DEF Kill, TruncatedIsBeingWritten, TypeOK, Procs
    <3> QED BY <3>2, <3>3
  <2>3. CASE p \in Deliveries
    <3>1. Exit(p) /\ fds' = fds \ {p} /\ UNCHANGED wdVars
      BY <1>2, <2>3, CiAssumption DEF Kill
    <3>2. TypeOK'
      BY <1>0, <1>2, <2>1, <2>3, <3>1, ExitTypes DEF Kill, TypeOK, wdVars
    <3>3. lost' = TRUE \/ pc[p] # "markFlush"
      BY <1>2, <2>3, CiAssumption DEF Kill, Exposed
    <3>4. TruncatedIsBeingWritten'
      BY <1>0, <1>2, <2>3, <3>1, <3>3, ExitTypes
         DEF Kill, TruncatedIsBeingWritten, TypeOK, Procs
    <3> QED BY <3>2, <3>4
  <2> QED BY <2>2, <2>3 DEF Procs
<1>3. CASE RegistrationAges
  <2>1. TypeOK'
    BY <1>0, <1>3 DEF RegistrationAges, TypeOK, keyVars, ownVars, wdVars
  <2> QED BY <1>0, <1>3, <2>1 DEF RegistrationAges, TruncatedIsBeingWritten
<1>4. CASE InjectionAges
  BY <1>0, <1>4 DEF InjectionAges, TypeOK, TruncatedIsBeingWritten, keyVars, ownVars, wdVars, Text
<1> QED
  BY <1>1, <1>2, <1>3, <1>4 DEF TimePasses

LEMMA StepIInv == IInv /\ [Next]_vars => IInv'
<1> SUFFICES ASSUME IInv, [Next]_vars PROVE IInv'
  OBVIOUS
<1>1. ASSUME NEW d \in Deliveries, Arrive(d) \/ Deliver(d) PROVE IInv'
  BY <1>1, ApproachSteps, FileSteps, AnswerSteps DEF Deliver
<1>2. CASE Dog
  BY <1>2, DogSteps
<1>3. CASE (\E s \in Sources : Register(s)) \/ (\E p \in Procs : Kill(p)) \/ TimePasses
  BY <1>3, WorldSteps
<1>4. CASE UNCHANGED vars
  BY <1>4 DEF vars, fileVars, keyVars, ownVars, wdVars, IInv, TypeOK, TruncatedIsBeingWritten
<1> QED
  BY <1>1, <1>2, <1>3, <1>4 DEF Next

\* Type correctness of the notification scripts' state.
THEOREM CiTypeCorrect == Spec => []TypeOK
<1>1. IInv => TypeOK
  BY DEF IInv
<1> QED
  BY InitIInv, StepIInv, <1>1, PTL DEF Spec

\* No pending file stays truncated while every writer lives (the mark of
\* trigger-ci-droid.sh, which rewrites the file in place).
THEOREM TruncatedIsBeingWrittenHolds == Spec => []TruncatedIsBeingWritten
<1>1. IInv => TruncatedIsBeingWritten
  BY DEF IInv
<1> QED
  BY InitIInv, StepIInv, <1>1, PTL DEF Spec
================================================================================
