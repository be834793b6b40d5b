---------------------------- MODULE EngineProofs ----------------------------
(***************************************************************************)
(* Proofs about the smaller parts of the engine and the memory pack: the    *)
(* heartbeat and its self-audit (PipelineHealth), the sync of the memory's   *)
(* version (VersionSync), the registry of error patterns (ErrorPatterns),   *)
(* the audit of the layout (LayoutAudit) and the daily audit (DailyAudit).  *)
(***************************************************************************)
EXTENDS PipelineHealth, VersionSync, ErrorPatterns, LayoutAudit, DailyAudit,
        FiniteSetTheorems, TLAPS

(***************************************************************************)
(* PipelineHealth, for any number of alerts and of failing calls.          *)
(***************************************************************************)
\* What the running job believes to be over has been over at some moment since
\* it began, so it is no lasting anomaly; it is about to close only alerts of
\* which everything has cleared.
Knows ==
    /\ hpc \in {"idle", "probe"} => ~beat.accepted
    /\ hpc # "resolve" => beat.visit = {}
    /\ hpc \notin {"idle", "probe"} => (beat.alive => "scanner_stale" \notin lasting)
    /\ beat.accepted => "scanner_stale" \notin lasting
    /\ hpc \in {"alerts", "resolve"} => ("issues_without_pr" \in lasting => beat.missing)
    /\ \A n \in beat.visit : Cleared(alerts[n], CurrentAnomalies(beat))

HealthInv == HealthTypeOK /\ Knows

\* What is left of a sequence without its n-th element.
LEMMA WithoutLemma ==
    ASSUME NEW S, NEW s \in Seq(S), NEW n \in 1 .. Len(s)
    PROVE  /\ Without(s, n) \in Seq(S)
           /\ Len(Without(s, n)) = Len(s) - 1
           /\ \A m \in 1 .. n - 1 : Without(s, n)[m] = s[m]
           /\ \A m \in n .. Len(s) - 1 : Without(s, n)[m] = s[m + 1]
<1> DEFINE before == SubSeq(s, 1, n - 1)
           after == SubSeq(s, n + 1, Len(s))
<1>1. before \in Seq(S) /\ Len(before) = n - 1
    OBVIOUS
<1>2. after \in Seq(S) /\ Len(after) = Len(s) - n
    OBVIOUS
<1>3. \A m \in 1 .. n - 1 : before[m] = s[m]
    OBVIOUS
<1>4. \A m \in 1 .. Len(s) - n : after[m] = s[n + m]
    OBVIOUS
<1>5. Without(s, n) = before \o after
    BY DEF Without
<1> HIDE DEF before, after
<1>6. Without(s, n) \in Seq(S) /\ Len(Without(s, n)) = Len(s) - 1
    BY <1>1, <1>2, <1>5
<1>7. \A m \in 1 .. n - 1 : (before \o after)[m] = before[m]
    BY <1>1, <1>2
<1>8. \A m \in n .. Len(s) - 1 : (before \o after)[m] = s[m + 1]
    <2>1. TAKE m \in n .. Len(s) - 1
    <2>2. (before \o after)[m] = after[m - (n - 1)]
        BY <1>1, <1>2
    <2>3. m - (n - 1) \in 1 .. Len(s) - n /\ n + (m - (n - 1)) = m + 1
        OBVIOUS
    <2> QED
        BY <1>4, <2>2, <2>3
<1> QED
    BY <1>3, <1>5, <1>6, <1>7, <1>8

LEMMA WithoutLater ==
    ASSUME NEW S, NEW s \in Seq(S), NEW n \in 1 .. Len(s), NEW m \in n .. Len(s) - 1
    PROVE  Without(s, n)[m] = s[m + 1]
BY WithoutLemma

\* A step either ends the history or only shortens it, to what holds after it.
Remembered ==
    /\ lasting' \subseteq Anomalies
    /\ hpc' \in {"idle", "decide", "create"} => lasting' = {}
    /\ hpc # "idle" => lasting' \subseteq lasting
    /\ "scanner_stale" \in lasting' => age'["scan"] # "fresh"
    /\ "issues_without_pr" \in lasting' => uncovered'

LEMMA RememberLemma == ASSUME lasting \subseteq Anomalies, Remember PROVE Remembered
<1>1. lasting' = {} \/ lasting' = Holding' \/ lasting' = lasting \cap Holding'
    BY DEF Remember
<1>2. lasting' \subseteq Holding'
    BY <1>1
<1>3. hpc' \in {"idle", "decide", "create"} => lasting' = {}
    BY DEF Remember
<1>4. hpc # "idle" => lasting' \subseteq lasting
    BY DEF Remember
<1> QED
    BY <1>2, <1>3, <1>4 DEF Remembered, Holding, Anomalies

LEMMA HealthInitInv == ASSUME HealthConstants, HealthInit PROVE HealthInv
<1>1. NoBeat \in [alive : BOOLEAN, severe : BOOLEAN, accepted : BOOLEAN, missing : BOOLEAN,
                  visit : SUBSET (1 .. Len(alerts))]
    BY DEF NoBeat
<1>2. alerts \in Seq(Alert)
    BY DEF HealthInit
<1>3. healthFaults \in 0 .. MaxHealthFaults
    BY DEF HealthConstants, HealthInit
<1>4. HealthTypeOK
    BY <1>1, <1>2, <1>3 DEF HealthInit, HealthTypeOK
<1>5. Knows
    BY DEF HealthInit, Knows, NoBeat
<1> QED
    BY <1>4, <1>5 DEF HealthInv

\* Every step preserves the types.
LEMMA HealthTypeStep ==
    ASSUME HealthConstants, HealthInv, HealthStep, Remembered PROVE HealthTypeOK'
<1> USE DEF HealthConstants, HealthInv, HealthTypeOK, Knows, Remembered, NoBeat, Workflows, Age
<1>1. ASSUME NEW w \in Workflows, CronFires(w) PROVE HealthTypeOK'
    BY <1>1 DEF CronFires, Listed
<1>2. ASSUME NEW w \in Workflows, GrowsStale(w) PROVE HealthTypeOK'
    BY <1>2 DEF GrowsStale
<1>3. CASE MarkerGrowsOld
    BY <1>3 DEF MarkerGrowsOld
<1>4. CASE CoverageChanges
    BY <1>4 DEF CoverageChanges
<1>5. ASSUME NEW n \in DOMAIN alerts, UserClosesAlert(n) PROVE HealthTypeOK'
    <2>1. alerts' \in Seq(Alert)
        BY <1>5, WithoutLemma DEF UserClosesAlert
    <2>2. beat' \in [alive : BOOLEAN, severe : BOOLEAN, accepted : BOOLEAN, missing : BOOLEAN,
                     visit : SUBSET (1 .. Len(alerts'))]
        BY <1>5, <2>1 DEF UserClosesAlert
    <2> QED
        BY <1>5, <2>1, <2>2 DEF UserClosesAlert
<1>6. CASE BeatStarts
    BY <1>6 DEF BeatStarts, NotTick, BeatTo
<1>7. CASE ProbeScanner
    <2>1. healthFaults' \in 0 .. MaxHealthFaults
        BY <1>7 DEF ProbeScanner, CallFails, CallAnswers
    <2>2. CASE beat' = [beat EXCEPT !.alive = Alive("scan"), !.severe = age["scan"] = "severe"]
        <3>1. beat' \in [alive : BOOLEAN, severe : BOOLEAN, accepted : BOOLEAN, missing : BOOLEAN,
                         visit : SUBSET (1 .. Len(alerts))]
            BY <2>2 DEF Alive
        <3> QED
            BY <1>7, <2>1, <3>1 DEF ProbeScanner, NotTick, BeatTo
    <2>3. CASE beat' = [beat EXCEPT !.alive = FALSE]
        <3>1. beat' \in [alive : BOOLEAN, severe : BOOLEAN, accepted : BOOLEAN, missing : BOOLEAN,
                         visit : SUBSET (1 .. Len(alerts))]
            BY <2>3
        <3> QED
            BY <1>7, <2>1, <3>1 DEF ProbeScanner, NotTick, BeatTo
    <2> QED
        BY <1>7, <2>2, <2>3 DEF ProbeScanner
<1>8. CASE DispatchScanner
    <2>1. healthFaults' \in 0 .. MaxHealthFaults
        BY <1>8 DEF DispatchScanner, CallFails, CallAnswers
    <2>2. age' \in [Workflows -> Age] /\ queued' \subseteq Workflows
        BY <1>8 DEF DispatchScanner, Listed, NothingListed
    <2>3. beat' \in [alive : BOOLEAN, severe : BOOLEAN, accepted : BOOLEAN, missing : BOOLEAN,
                     visit : SUBSET (1 .. Len(alerts))]
        BY <1>8 DEF DispatchScanner
    <2> QED
        BY <1>8, <2>1, <2>2, <2>3 DEF DispatchScanner, NotTick, BeatTo
<1>9. CASE CheckCoverage
    <2>1. healthFaults' \in 0 .. MaxHealthFaults
        BY <1>9 DEF CheckCoverage, CallFails, CallAnswers
    <2>2. beat' \in [alive : BOOLEAN, severe : BOOLEAN, accepted : BOOLEAN, missing : BOOLEAN,
                     visit : SUBSET (1 .. Len(alerts))]
        BY <1>9 DEF CheckCoverage
    <2> QED
        BY <1>9, <2>1, <2>2 DEF CheckCoverage, NotTick, BeatTo
<1>10. CASE ListAlerts
    BY <1>10 DEF ListAlerts, NotTick, BeatTo, CallFails, CallAnswers
<1>11. CASE CloseAlert
    <2>1. PICK n \in beat.visit :
              /\ \A m \in beat.visit : m <= n
              /\ beat' = [beat EXCEPT !.visit = @ \ {n}]
              /\ \/ CallAnswers /\ alerts' = Without(alerts, n)
                 \/ CallFails /\ \/ UNCHANGED alerts
                                 \/ alerts' = [alerts EXCEPT ![n].commented = TRUE]
        BY <1>11 DEF CloseAlert
    <2>2. n \in 1 .. Len(alerts) /\ alerts[n] \in Alert
        BY <2>1
    <2>3. alerts' \in Seq(Alert) /\ \A m \in beat'.visit : m \in 1 .. Len(alerts')
        <3>1. \A m \in beat'.visit : m \in 1 .. n - 1
            BY <2>1, <2>2
        <3>2. CASE alerts' = Without(alerts, n)
            BY <2>2, <3>1, <3>2, WithoutLemma
        <3>3. CASE UNCHANGED alerts
            BY <2>2, <3>1, <3>3
        <3>4. CASE alerts' = [alerts EXCEPT ![n].commented = TRUE]
            <4>1. [alerts[n] EXCEPT !.commented = TRUE] \in Alert
                BY <2>2 DEF Alert
            <4>2. alerts' \in Seq(Alert) /\ Len(alerts') = Len(alerts)
                BY <2>2, <3>4, <4>1
            <4> QED
                BY <2>2, <3>1, <4>2
        <3> QED
            BY <2>1, <3>2, <3>3, <3>4
    <2>4. beat' \in [alive : BOOLEAN, severe : BOOLEAN, accepted : BOOLEAN, missing : BOOLEAN,
                     visit : SUBSET (1 .. Len(alerts'))]
        BY <2>1, <2>3
    <2> QED
        BY <1>11, <2>1, <2>3, <2>4 DEF CloseAlert, CallAnswers, CallFails, NotTick
<1>12. CASE ResolveDone
    BY <1>12 DEF ResolveDone, NotTick, BeatTo
<1>13. CASE NoNewAlert
    BY <1>13 DEF NoNewAlert, NotTick, BeatTo, BeatEnds
<1>14. CASE NeedsAlert
    BY <1>14 DEF NeedsAlert, NotTick, BeatTo, CallFails, CallAnswers
<1>15. CASE CreateAlert
    <2>1. [recorded |-> CurrentAnomalies(beat), commented |-> FALSE] \in Alert
        BY DEF CurrentAnomalies, Alert
    <2>2. alerts' \in Seq(Alert)
        BY <1>15, <2>1 DEF CreateAlert
    <2> QED
        BY <1>15, <2>2 DEF CreateAlert, NotTick, BeatTo, BeatEnds, NoBeat, CallFails, CallAnswers
<1>16. CASE BeatDies
    BY <1>16 DEF BeatDies, NotTick, BeatTo, BeatEnds, CallFails
<1>17. CASE TickStarts
    <2>1. healthFaults' \in 0 .. MaxHealthFaults
        BY <1>17 DEF TickStarts, CallFails, CallAnswers
    <2>2. reported' \in BOOLEAN
        BY <1>17, Zenon DEF TickStarts
    <2> QED
        BY <1>17, <2>1, <2>2 DEF TickStarts, NotBeat, TickTo
<1>18. CASE TickAborts
    BY <1>18 DEF TickAborts, NotBeat, CallFails
<1>19. CASE Watch
    <2>1. healthFaults' \in 0 .. MaxHealthFaults
        BY <1>19 DEF Watch, CallFails, CallAnswers
    <2>2. age' \in [Workflows -> Age] /\ queued' \subseteq Workflows
        <3>1. UNCHANGED <<age, queued>> \/ Listed("beat")
            BY <1>19 DEF Watch, NothingListed
        <3> QED
            BY <3>1 DEF Listed
    <2> QED
        BY <1>19, <2>1, <2>2 DEF Watch, NotBeat, TickTo
<1>20. CASE TickSucceeds
    BY <1>20 DEF TickSucceeds, NotBeat, TickTo
<1>21. CASE TickEndsRed
    BY <1>21 DEF TickEndsRed, NotBeat, TickTo
<1>22. CASE TickDies
    <2>1. healthFaults' \in 0 .. MaxHealthFaults
        BY <1>22 DEF TickDies, CallFails, CallAnswers
    <2> QED
        BY <1>22, <2>1 DEF TickDies, NotBeat
<1> QED
    BY <1>1, <1>2, <1>3, <1>4, <1>5, <1>6, <1>7, <1>8,
       <1>9, <1>10, <1>11, <1>12, <1>13, <1>14, <1>15, <1>16,
       <1>17, <1>18, <1>19, <1>20, <1>21, <1>22
    DEF HealthStep, TimePasses, BeatStep, ScannerStep

\* While the job runs, time and users leave what it knows alone; each call that
\* fails only makes it more careful.
LEMMA KnowsStep ==
    ASSUME HealthConstants, HealthInv, HealthStep, Remembered PROVE Knows'
<1> USE DEF HealthConstants, HealthInv, HealthTypeOK, Knows, Remembered, NoBeat, Workflows, Age
<1>1. ASSUME NEW w \in Workflows, CronFires(w) PROVE Knows'
    BY <1>1 DEF CronFires, Listed
<1>2. ASSUME NEW w \in Workflows, GrowsStale(w) PROVE Knows'
    BY <1>2 DEF GrowsStale
<1>3. CASE MarkerGrowsOld
    BY <1>3 DEF MarkerGrowsOld
<1>4. CASE CoverageChanges
    BY <1>4 DEF CoverageChanges
<1>5. ASSUME NEW n \in DOMAIN alerts, UserClosesAlert(n) PROVE Knows'
    <2>1. /\ beat'.alive = beat.alive /\ beat'.severe = beat.severe
          /\ beat'.accepted = beat.accepted /\ beat'.missing = beat.missing
          /\ hpc' = hpc /\ age' = age /\ uncovered' = uncovered
        BY <1>5 DEF UserClosesAlert
    <2>2. CurrentAnomalies(beat') = CurrentAnomalies(beat)
        BY <2>1 DEF CurrentAnomalies
    <2>3. /\ n \in 1 .. Len(alerts) /\ alerts' = Without(alerts, n)
          /\ beat'.visit = {m \in DOMAIN alerts' : IF m < n THEN m \in beat.visit ELSE m + 1 \in beat.visit}
        BY <1>5 DEF UserClosesAlert
    <2>4. ASSUME NEW m \in beat'.visit PROVE Cleared(alerts'[m], CurrentAnomalies(beat'))
        <3>1. m \in 1 .. Len(alerts) - 1
            BY <2>3, <2>4, WithoutLemma
        <3>2. CASE m < n
            BY <2>2, <2>3, <2>4, <3>1, <3>2, WithoutLemma
        <3>3. CASE ~(m < n)
            <4>1. alerts \in Seq(Alert) /\ m \in n .. Len(alerts) - 1
                BY <2>3, <3>1, <3>3
            <4>2. Without(alerts, n)[m] = alerts[m + 1]
                BY <2>3, <4>1, WithoutLater
            <4>3. m + 1 \in beat.visit
                BY <2>3, <2>4, <3>3
            <4> QED
                BY <2>2, <2>3, <4>1, <4>2, <4>3
        <3> QED
            BY <3>2, <3>3
    <2>5. beat'.visit # {} => beat.visit # {}
        BY <2>3
    <2> QED
        BY <2>1, <2>4, <2>5
<1>6. CASE BeatStarts
    BY <1>6 DEF BeatStarts, NotTick, BeatTo
<1>7. CASE ProbeScanner
    BY <1>7 DEF ProbeScanner, NotTick, BeatTo, CallFails, CallAnswers, Alive
<1>8. CASE DispatchScanner
    BY <1>8 DEF DispatchScanner, NotTick, BeatTo, CallFails, CallAnswers, Listed, NothingListed
<1>9. CASE CheckCoverage
    BY <1>9 DEF CheckCoverage, NotTick, BeatTo, CallFails, CallAnswers
<1>10. CASE ListAlerts
    <2>1. CASE UNCHANGED beat
        BY <1>10, <2>1 DEF ListAlerts, BeatTo
    <2>2. CASE beat' = [beat EXCEPT !.visit =
                {n \in DOMAIN alerts : Cleared(alerts[n], CurrentAnomalies(beat))}]
        <3>1. CurrentAnomalies(beat') = CurrentAnomalies(beat)
            BY <2>2 DEF CurrentAnomalies
        <3> QED
            BY <1>10, <2>2, <3>1 DEF ListAlerts, BeatTo
    <2> QED
        BY <1>10, <2>1, <2>2 DEF ListAlerts
<1>11. CASE CloseAlert
    <2>1. PICK n \in beat.visit :
              /\ \A m \in beat.visit : m <= n
              /\ beat' = [beat EXCEPT !.visit = @ \ {n}]
              /\ \/ CallAnswers /\ alerts' = Without(alerts, n)
                 \/ CallFails /\ \/ UNCHANGED alerts
                                 \/ alerts' = [alerts EXCEPT ![n].commented = TRUE]
        BY <1>11 DEF CloseAlert
    <2>2. n \in 1 .. Len(alerts) /\ \A m \in beat'.visit : m \in 1 .. n - 1
        BY <2>1
    <2>3. \A m \in beat'.visit : m \in beat.visit /\ alerts'[m].recorded = alerts[m].recorded
        <3>1. CASE alerts' = Without(alerts, n)
            BY <2>1, <2>2, <3>1, WithoutLemma
        <3>2. CASE UNCHANGED alerts
            BY <2>1, <3>2
        <3>3. CASE alerts' = [alerts EXCEPT ![n].commented = TRUE]
            BY <2>1, <2>2, <3>3
        <3> QED
            BY <2>1, <3>1, <3>2, <3>3
    <2>4. beat'.alive = beat.alive /\ beat'.severe = beat.severe
          /\ beat'.accepted = beat.accepted /\ beat'.missing = beat.missing
        BY <2>1
    <2>5. hpc' = "resolve" /\ age' = age /\ uncovered' = uncovered /\ hpc = "resolve"
        BY <1>11 DEF CloseAlert
    <2>6. CurrentAnomalies(beat') = CurrentAnomalies(beat)
        BY <2>4 DEF CurrentAnomalies
    <2> QED
        BY <2>3, <2>4, <2>5, <2>6 DEF Cleared
<1>12. CASE ResolveDone
    BY <1>12 DEF ResolveDone, NotTick, BeatTo
<1>13. CASE NoNewAlert
    BY <1>13 DEF NoNewAlert, NotTick, BeatTo, BeatEnds
<1>14. CASE NeedsAlert
    BY <1>14 DEF NeedsAlert, NotTick, BeatTo, CallFails, CallAnswers
<1>15. CASE CreateAlert
    BY <1>15 DEF CreateAlert, NotTick, BeatTo, BeatEnds, CallFails, CallAnswers, CurrentAnomalies
<1>16. CASE BeatDies
    BY <1>16 DEF BeatDies, NotTick, BeatTo, BeatEnds, CallFails
<1>17. CASE TickStarts
    BY <1>17 DEF TickStarts, NotBeat, TickTo, CallFails, CallAnswers
<1>18. CASE TickAborts
    BY <1>18 DEF TickAborts, NotBeat, CallFails
<1>19. CASE Watch
    BY <1>19 DEF Watch, NotBeat, TickTo, CallFails, CallAnswers, Listed, NothingListed
<1>20. CASE TickSucceeds
    BY <1>20 DEF TickSucceeds, NotBeat, TickTo
<1>21. CASE TickEndsRed
    BY <1>21 DEF TickEndsRed, NotBeat, TickTo
<1>22. CASE TickDies
    BY <1>22 DEF TickDies, NotBeat, CallFails
<1> QED
    BY <1>1, <1>2, <1>3, <1>4, <1>5, <1>6, <1>7, <1>8,
       <1>9, <1>10, <1>11, <1>12, <1>13, <1>14, <1>15, <1>16,
       <1>17, <1>18, <1>19, <1>20, <1>21, <1>22
    DEF HealthStep, TimePasses, BeatStep, ScannerStep

LEMMA HealthInvariant == ASSUME HealthConstants PROVE HealthSpec => []HealthInv
<1>1. HealthInit => HealthInv
    BY HealthInitInv
<1>2. ASSUME HealthInv, HealthNext PROVE HealthInv'
    <2>1. HealthStep /\ Remembered
        BY <1>2, RememberLemma DEF HealthNext, HealthInv, HealthTypeOK
    <2> QED
        BY <1>2, <2>1, HealthTypeStep, KnowsStep DEF HealthInv
<1>3. HealthInv /\ UNCHANGED healthVars => HealthInv'
    BY DEF HealthInv, HealthTypeOK, Knows, healthVars, NoBeat, Cleared, CurrentAnomalies
<1> QED
    BY <1>1, <1>2, <1>3, PTL DEF HealthSpec

\* The variables keep their types (the heartbeat's and the scanner's jobs).
THEOREM HealthTypes == ASSUME HealthConstants PROVE HealthSpec => []HealthTypeOK
<1>1. HealthInv => HealthTypeOK
    BY DEF HealthInv
<1> QED
    BY <1>1, HealthInvariant, PTL

\* Whatever the job strikes off its list as an alert goes away records no
\* anomaly that has lasted since the job began (ClosedOnRecovery).
Recovered ==
    (hpc = "resolve" /\ Len(alerts') < Len(alerts)) =>
        \A n \in beat.visit \ beat'.visit : alerts[n].recorded \cap lasting = {}

LEMMA RecoveredStep == ASSUME HealthInv PROVE Recovered
<1>1. ASSUME hpc = "resolve", NEW n \in beat.visit, NEW a \in alerts[n].recorded \cap lasting
      PROVE  FALSE
    <2>1. a \notin CurrentAnomalies(beat)
        BY <1>1 DEF HealthInv, Knows, Cleared
    <2>2. a = "scanner_stale" \/ a = "issues_without_pr"
        BY DEF HealthInv, HealthTypeOK, Anomalies
    <2>3. CASE a = "scanner_stale"
        BY <1>1, <2>1, <2>3 DEF HealthInv, Knows, CurrentAnomalies, Anomalies
    <2>4. CASE a = "issues_without_pr"
        BY <1>1, <2>1, <2>4 DEF HealthInv, Knows, CurrentAnomalies, Anomalies
    <2> QED
        BY <2>2, <2>3, <2>4
<1> QED
    BY <1>1 DEF Recovered

THEOREM AlertsCloseOnRecovery == ASSUME HealthConstants PROVE HealthSpec => ClosedOnRecovery
<1>1. HealthInv => [Recovered]_healthVars
    BY RecoveredStep
<1> QED
    BY <1>1, HealthInvariant, PTL DEF ClosedOnRecovery, Recovered

(***************************************************************************)
(* VersionSync, for any number of processes and every set of versions.     *)
(***************************************************************************)
\* As long as no lock was broken, whoever is in the critical section holds it.
Exclusive == ~broken => \A p \in Syncs : spc[p] \in Critical => synclock = p

\* Behind the gate: there is an ownership file, and the target is no downgrade
\* of what was read from it.
Gated ==
    \A p \in Syncs :
        /\ spc[p] \in {"gate", "acquire", "break"} \cup Critical =>
              seen[p] \in Versions /\ version["ownership"] # NoFile
        /\ spc[p] \in {"acquire", "break"} \cup Critical =>
              seen[p] <= target[p] /\ Major[target[p]] <= Major[seen[p]]

\* The files that p has patched, and those it has not.
At(p, F) == \A f \in F : version[f] \in {NoFile, target[p]}
Untouched(p, F) == \A f \in F : version[f] \in {NoFile, seen[p]}
Agree == \A f, g \in VersionFiles :
            version[f] # NoFile /\ version[g] # NoFile => version[f] = version[g]

\* Between two patches the first files are at the target and the others at what
\* was read; at any other time the files agree.
Patching ==
    ~broken /\ ~torn =>
        /\ (\A p \in Syncs : spc[p] \notin {"lock", "adapter"}) => Agree
        /\ \A p \in Syncs :
              /\ spc[p] = "ownership" => Untouched(p, VersionFiles)
              /\ spc[p] = "lock" => At(p, {"ownership"}) /\ Untouched(p, {"lock", "adapter"})
              /\ spc[p] = "adapter" => At(p, {"ownership", "lock"}) /\ Untouched(p, {"adapter"})

SyncInv == SyncTypeOK /\ Exclusive /\ Gated /\ Patching

LEMMA SyncInitInv == ASSUME SyncConstants, SyncInit PROVE SyncInv
BY DEF SyncConstants, SyncInit, SyncInv, SyncTypeOK, Exclusive, Gated, Patching, Agree,
       At, Untouched, SyncPC, Critical, VersionFiles

\* Every step preserves the types.
LEMMA SyncTypeStep == ASSUME SyncConstants, SyncTypeOK, [SyncNext]_syncVars PROVE SyncTypeOK'
<1> USE DEF SyncConstants, SyncTypeOK, SyncPC, Critical, VersionFiles
<1>1. ASSUME NEW p \in Syncs, ReadCurrent(p) PROVE SyncTypeOK'
    BY <1>1 DEF ReadCurrent, Step
<1>2. ASSUME NEW p \in Syncs, ProbeUpToDate(p) PROVE SyncTypeOK'
    BY <1>2 DEF ProbeUpToDate, Step
<1>3. ASSUME NEW p \in Syncs, Gate(p) PROVE SyncTypeOK'
    BY <1>3 DEF Gate, Step
<1>4. ASSUME NEW p \in Syncs, Create(p) PROVE SyncTypeOK'
    BY <1>4 DEF Create, Step
<1>5. ASSUME NEW p \in Syncs, SeesStale(p) PROVE SyncTypeOK'
    BY <1>5 DEF SeesStale, Step
<1>6. ASSUME NEW p \in Syncs, BreakLock(p) PROVE SyncTypeOK'
    BY <1>6 DEF BreakLock, Step
<1>7. ASSUME NEW p \in Syncs, GiveUp(p) PROVE SyncTypeOK'
    BY <1>7 DEF GiveUp, Step
<1>8. ASSUME NEW p \in Syncs, Recheck(p) PROVE SyncTypeOK'
    BY <1>8 DEF Recheck, Step
<1>9. ASSUME NEW p \in Syncs, NEW f \in VersionFiles, Patch(p, f) PROVE SyncTypeOK'
    BY <1>9 DEF Patch, Step, After
<1>10. ASSUME NEW p \in Syncs, NEW f \in VersionFiles, PatchFails(p, f) PROVE SyncTypeOK'
    BY <1>10 DEF PatchFails, Step, After
<1>11. ASSUME NEW p \in Syncs, Resign(p) PROVE SyncTypeOK'
    BY <1>11 DEF Resign, Step
<1>12. ASSUME NEW p \in Syncs, Release(p) PROVE SyncTypeOK'
    BY <1>12 DEF Release, Step
<1>13. ASSUME NEW p \in Syncs, Dies(p) PROVE SyncTypeOK'
    BY <1>13 DEF Dies, Step
<1>14. CASE LockGrowsStale
    BY <1>14 DEF LockGrowsStale
<1>15. CASE UNCHANGED syncVars
    BY <1>15 DEF syncVars
<1> QED
    BY <1>1, <1>2, <1>3, <1>4, <1>5, <1>6, <1>7, <1>8,
       <1>9, <1>10, <1>11, <1>12, <1>13, <1>14, <1>15 DEF SyncNext

\* Only the creation of a free lock enters the critical section.
LEMMA ExclusiveStep ==
    ASSUME SyncConstants, SyncTypeOK, Exclusive, [SyncNext]_syncVars PROVE Exclusive'
<1> USE DEF SyncConstants, SyncTypeOK, Exclusive, SyncPC, Critical, VersionFiles
<1>1. ASSUME NEW p \in Syncs, ReadCurrent(p) PROVE Exclusive'
    BY <1>1 DEF ReadCurrent, Step
<1>2. ASSUME NEW p \in Syncs, ProbeUpToDate(p) PROVE Exclusive'
    BY <1>2 DEF ProbeUpToDate, Step
<1>3. ASSUME NEW p \in Syncs, Gate(p) PROVE Exclusive'
    BY <1>3 DEF Gate, Step
<1>4. ASSUME NEW p \in Syncs, Create(p) PROVE Exclusive'
    BY <1>4 DEF Create, Step
<1>5. ASSUME NEW p \in Syncs, SeesStale(p) PROVE Exclusive'
    BY <1>5 DEF SeesStale, Step
<1>6. ASSUME NEW p \in Syncs, BreakLock(p) PROVE Exclusive'
    BY <1>6 DEF BreakLock, Step
<1>7. ASSUME NEW p \in Syncs, GiveUp(p) PROVE Exclusive'
    BY <1>7 DEF GiveUp, Step
<1>8. ASSUME NEW p \in Syncs, Recheck(p) PROVE Exclusive'
    BY <1>8 DEF Recheck, Step
<1>9. ASSUME NEW p \in Syncs, NEW f \in VersionFiles, Patch(p, f) PROVE Exclusive'
    BY <1>9 DEF Patch, Step, After
<1>10. ASSUME NEW p \in Syncs, NEW f \in VersionFiles, PatchFails(p, f) PROVE Exclusive'
    BY <1>10 DEF PatchFails, Step, After
<1>11. ASSUME NEW p \in Syncs, Resign(p) PROVE Exclusive'
    BY <1>11 DEF Resign, Step
<1>12. ASSUME NEW p \in Syncs, Release(p) PROVE Exclusive'
    BY <1>12 DEF Release, Step
<1>13. ASSUME NEW p \in Syncs, Dies(p) PROVE Exclusive'
    BY <1>13 DEF Dies, Step
<1>14. CASE LockGrowsStale
    BY <1>14 DEF LockGrowsStale
<1>15. CASE UNCHANGED syncVars
    BY <1>15 DEF syncVars
<1> QED
    BY <1>1, <1>2, <1>3, <1>4, <1>5, <1>6, <1>7, <1>8,
       <1>9, <1>10, <1>11, <1>12, <1>13, <1>14, <1>15 DEF SyncNext

\* No step writes what a process read or was given, and none removes a file.
LEMMA GatedStep ==
    ASSUME SyncConstants, SyncTypeOK, Gated, [SyncNext]_syncVars PROVE Gated'
<1> USE DEF SyncConstants, SyncTypeOK, Gated, SyncPC, Critical, VersionFiles
<1>1. ASSUME NEW p \in Syncs, ReadCurrent(p) PROVE Gated'
    BY <1>1 DEF ReadCurrent, Step
<1>2. ASSUME NEW p \in Syncs, ProbeUpToDate(p) PROVE Gated'
    BY <1>2 DEF ProbeUpToDate, Step
<1>3. ASSUME NEW p \in Syncs, Gate(p) PROVE Gated'
    BY <1>3 DEF Gate, Step, Allowed
<1>4. ASSUME NEW p \in Syncs, Create(p) PROVE Gated'
    BY <1>4 DEF Create, Step
<1>5. ASSUME NEW p \in Syncs, SeesStale(p) PROVE Gated'
    BY <1>5 DEF SeesStale, Step
<1>6. ASSUME NEW p \in Syncs, BreakLock(p) PROVE Gated'
    BY <1>6 DEF BreakLock, Step
<1>7. ASSUME NEW p \in Syncs, GiveUp(p) PROVE Gated'
    BY <1>7 DEF GiveUp, Step
<1>8. ASSUME NEW p \in Syncs, Recheck(p) PROVE Gated'
    BY <1>8 DEF Recheck, Step
<1>9. ASSUME NEW p \in Syncs, NEW f \in VersionFiles, Patch(p, f) PROVE Gated'
    BY <1>9 DEF Patch, Step, After
<1>10. ASSUME NEW p \in Syncs, NEW f \in VersionFiles, PatchFails(p, f) PROVE Gated'
    BY <1>10 DEF PatchFails, Step, After
<1>11. ASSUME NEW p \in Syncs, Resign(p) PROVE Gated'
    BY <1>11 DEF Resign, Step
<1>12. ASSUME NEW p \in Syncs, Release(p) PROVE Gated'
    BY <1>12 DEF Release, Step
<1>13. ASSUME NEW p \in Syncs, Dies(p) PROVE Gated'
    BY <1>13 DEF Dies, Step
<1>14. CASE LockGrowsStale
    BY <1>14 DEF LockGrowsStale
<1>15. CASE UNCHANGED syncVars
    BY <1>15 DEF syncVars
<1> QED
    BY <1>1, <1>2, <1>3, <1>4, <1>5, <1>6, <1>7, <1>8,
       <1>9, <1>10, <1>11, <1>12, <1>13, <1>14, <1>15 DEF SyncNext

\* The one process in the critical section moves the files from what it read to
\* its target.
LEMMA PatchingStep == ASSUME SyncConstants, SyncInv, [SyncNext]_syncVars PROVE Patching'
<1> USE DEF SyncConstants, SyncInv, SyncTypeOK, Exclusive, Gated, Patching, Agree, At, Untouched, SyncPC, Critical, VersionFiles
<1>1. ASSUME NEW p \in Syncs, ReadCurrent(p) PROVE Patching'
    BY <1>1 DEF ReadCurrent, Step
<1>2. ASSUME NEW p \in Syncs, ProbeUpToDate(p) PROVE Patching'
    BY <1>2 DEF ProbeUpToDate, Step
<1>3. ASSUME NEW p \in Syncs, Gate(p) PROVE Patching'
    BY <1>3 DEF Gate, Step
<1>4. ASSUME NEW p \in Syncs, Create(p) PROVE Patching'
    BY <1>4 DEF Create, Step
<1>5. ASSUME NEW p \in Syncs, SeesStale(p) PROVE Patching'
    BY <1>5 DEF SeesStale, Step
<1>6. ASSUME NEW p \in Syncs, BreakLock(p) PROVE Patching'
    BY <1>6 DEF BreakLock, Step
<1>7. ASSUME NEW p \in Syncs, GiveUp(p) PROVE Patching'
    BY <1>7 DEF GiveUp, Step
<1>8. ASSUME NEW p \in Syncs, Recheck(p) PROVE Patching'
    BY <1>8 DEF Recheck, Step
<1>9. ASSUME NEW p \in Syncs, NEW f \in VersionFiles, Patch(p, f) PROVE Patching'
    BY <1>9 DEF Patch, Step, After
<1>10. ASSUME NEW p \in Syncs, NEW f \in VersionFiles, PatchFails(p, f) PROVE Patching'
    BY <1>10 DEF PatchFails, Step, After
<1>11. ASSUME NEW p \in Syncs, Resign(p) PROVE Patching'
    BY <1>11 DEF Resign, Step
<1>12. ASSUME NEW p \in Syncs, Release(p) PROVE Patching'
    BY <1>12 DEF Release, Step
<1>13. ASSUME NEW p \in Syncs, Dies(p) PROVE Patching'
    BY <1>13 DEF Dies, Step
<1>14. CASE LockGrowsStale
    BY <1>14 DEF LockGrowsStale
<1>15. CASE UNCHANGED syncVars
    BY <1>15 DEF syncVars
<1> QED
    BY <1>1, <1>2, <1>3, <1>4, <1>5, <1>6, <1>7, <1>8,
       <1>9, <1>10, <1>11, <1>12, <1>13, <1>14, <1>15 DEF SyncNext

LEMMA SyncInvStep == ASSUME SyncConstants, SyncInv, [SyncNext]_syncVars PROVE SyncInv'
BY SyncTypeStep, ExclusiveStep, GatedStep, PatchingStep DEF SyncInv

LEMMA SyncInvariant == ASSUME SyncConstants PROVE SyncSpec => []SyncInv
BY SyncInitInv, SyncInvStep, PTL DEF SyncSpec

\* The variables keep their types (read_ownership_memory_version, _sync_lock and
\* the patches of version_sync.py).
THEOREM SyncTypes == ASSUME SyncConstants PROVE SyncSpec => []SyncTypeOK
<1>1. SyncInv => SyncTypeOK
    BY DEF SyncInv
<1> QED
    BY <1>1, SyncInvariant, PTL

\* Only one process at a time patches the files, until a stale lock is broken.
THEOREM OneWriter == ASSUME SyncConstants PROVE SyncSpec => []Exclusive
<1>1. SyncInv => Exclusive
    BY DEF SyncInv
<1> QED
    BY <1>1, SyncInvariant, PTL

\* The files agree whenever nobody is between two patches (FilesAgree).
THEOREM SyncFilesAgree == ASSUME SyncConstants PROVE SyncSpec => []FilesAgree
<1>1. SyncInv => FilesAgree
    BY DEF SyncInv, Patching, FilesAgree, Agree, Critical
<1> QED
    BY <1>1, SyncInvariant, PTL

\* No patch takes a file back or across a major number (NeverDowngraded).
NoDowngrade ==
    \A f \in VersionFiles :
        version'[f] # version[f] =>
            \/ broken \/ torn
            \/ version'[f] >= version[f] /\ Major[version'[f]] <= Major[version[f]]

LEMMA DowngradeStep == ASSUME SyncConstants, SyncInv, [SyncNext]_syncVars PROVE NoDowngrade
<1> USE DEF NoDowngrade
<1>1. ASSUME NEW p \in Syncs, NEW f \in VersionFiles, Patch(p, f) PROVE NoDowngrade
    <2>1. CASE broken \/ torn
        BY <2>1
    <2>2. CASE ~broken /\ ~torn
        <3>1. version[f] \in {NoFile, seen[p]}
            BY <1>1, <2>2 DEF Patch, Step, SyncInv, SyncTypeOK, Patching, Untouched, VersionFiles
        <3>2. seen[p] \in Versions /\ seen[p] <= target[p] /\ Major[target[p]] <= Major[seen[p]]
            BY <1>1 DEF Patch, Step, SyncInv, Gated, Critical, VersionFiles
        <3>3. version' = [version EXCEPT ![f] = IF version[f] = NoFile THEN version[f] ELSE target[p]]
            BY <1>1 DEF Patch
        <3>4. target[p] \in Nat /\ seen[p] \in Nat
            BY <3>2 DEF SyncInv, SyncTypeOK, SyncConstants
        <3>5. \A g \in VersionFiles : g # f => version'[g] = version[g]
            BY <3>3 DEF SyncInv, SyncTypeOK
        <3>6. version'[f] # version[f] => version[f] = seen[p] /\ version'[f] = target[p]
            BY <3>1, <3>3 DEF SyncInv, SyncTypeOK
        <3> QED
            BY <3>2, <3>4, <3>5, <3>6
    <2> QED
        BY <2>1, <2>2
<1>2. CASE UNCHANGED version
    BY <1>2
<1>3. (\A p \in Syncs, f \in VersionFiles : ~Patch(p, f)) => UNCHANGED version
    BY DEF SyncNext, ReadCurrent, ProbeUpToDate, Gate, Create, SeesStale, BreakLock, GiveUp,
           Recheck, PatchFails, Resign, Release, Dies, LockGrowsStale, syncVars
<1> QED
    BY <1>1, <1>2, <1>3

THEOREM SyncNeverDowngraded == ASSUME SyncConstants PROVE SyncSpec => NeverDowngraded
<1>1. SyncInv /\ [SyncNext]_syncVars => [NoDowngrade]_syncVars
    BY DowngradeStep
<1> QED
    BY <1>1, SyncInvariant, PTL DEF SyncSpec, NeverDowngraded, NoDowngrade

(***************************************************************************)
(* ErrorPatterns, for any number of jobs and every log.                    *)
(***************************************************************************)
\* What a job is about to write holds every resolution it read and every one it
\* was asked for; a job that has read nothing was asked for nothing.
Carries ==
    \A j \in Jobs :
        /\ jpc[j] \in {"idle", "scanned"} => chosen[j] = {}
        /\ jpc[j] \in {"truncate", "write"} =>
              \A f \in Fingerprints :
                  base[j][f] = "resolved" \/ f \in chosen[j] => mine[j][f] = "resolved"

\* While jobs write, a resolution may be in none but the memory of one of them;
\* each may hold others, but all but one of them will then have raced.
Held ==
    raced \/ cut \/
        \A f \in resolvedOnce :
            \/ registry[f] = "resolved"
            \/ \E j \in Jobs : jpc[j] = "write" /\ mine[j][f] = "resolved"

PatInv == PatTypeOK /\ Carries /\ Held

LEMMA PatInitInv == ASSUME PatInit PROVE PatInv
BY DEF PatInit, PatInv, PatTypeOK, Carries, Held, NoRegistry, Status

\* Every step preserves the types.
LEMMA PatTypeStep == ASSUME PatternConstants, PatTypeOK, [PatNext]_patVars PROVE PatTypeOK'
<1> USE DEF PatTypeOK, Status
<1>1. ASSUME NEW L \in SUBSET Entries, LogChanges(L) PROVE PatTypeOK'
    BY <1>1 DEF LogChanges
<1>2. ASSUME NEW j \in Jobs, RunScan(j) PROVE PatTypeOK'
    BY <1>2 DEF RunScan, Goes, Detect
<1>3. ASSUME NEW j \in Jobs, RunRead(j) PROVE PatTypeOK'
    BY <1>3 DEF RunRead, Goes, MergePatterns
<1>4. ASSUME NEW j \in Jobs, NEW F \in SUBSET Fingerprints, ResolveRead(j, F) PROVE PatTypeOK'
    BY <1>4 DEF ResolveRead, Goes, Resolve
<1>5. ASSUME NEW j \in Jobs, Truncate(j) PROVE PatTypeOK'
    BY <1>5 DEF Truncate, Goes, NoRegistry
<1>6. ASSUME NEW j \in Jobs, Write(j) PROVE PatTypeOK'
    BY <1>6 DEF Write, Goes, Finished, NoRegistry
<1>7. ASSUME NEW j \in Jobs, JobDies(j) PROVE PatTypeOK'
    BY <1>7 DEF JobDies, Finished, NoRegistry
<1>8. CASE UNCHANGED patVars
    BY <1>8 DEF patVars
<1> QED
    BY <1>1, <1>2, <1>3, <1>4, <1>5, <1>6, <1>7, <1>8 DEF PatNext

\* The merge and the resolve command carry resolutions over, and nothing changes
\* what a job carries afterwards.
LEMMA CarriesStep ==
    ASSUME PatternConstants, PatTypeOK, Carries, [PatNext]_patVars PROVE Carries'
<1> USE DEF PatTypeOK, Carries, Status
<1>1. ASSUME NEW L \in SUBSET Entries, LogChanges(L) PROVE Carries'
    BY <1>1 DEF LogChanges
<1>2. ASSUME NEW j \in Jobs, RunScan(j) PROVE Carries'
    BY <1>2 DEF RunScan, Goes
<1>3. ASSUME NEW j \in Jobs, RunRead(j) PROVE Carries'
    BY <1>3 DEF RunRead, Goes, MergePatterns
<1>4. ASSUME NEW j \in Jobs, NEW F \in SUBSET Fingerprints, ResolveRead(j, F) PROVE Carries'
    BY <1>4 DEF ResolveRead, Goes, Resolve
<1>5. ASSUME NEW j \in Jobs, Truncate(j) PROVE Carries'
    BY <1>5 DEF Truncate, Goes
<1>6. ASSUME NEW j \in Jobs, Write(j) PROVE Carries'
    BY <1>6 DEF Write, Goes, Finished
<1>7. ASSUME NEW j \in Jobs, JobDies(j) PROVE Carries'
    BY <1>7 DEF JobDies, Finished
<1>8. CASE UNCHANGED patVars
    BY <1>8 DEF patVars
<1> QED
    BY <1>1, <1>2, <1>3, <1>4, <1>5, <1>6, <1>7, <1>8 DEF PatNext

\* A truncation moves the resolutions from the file to the job that truncates it,
\* and a write moves them back.
LEMMA HeldStep == ASSUME PatternConstants, PatInv, [PatNext]_patVars PROVE Held'
<1> USE DEF PatInv, PatTypeOK, Held, Status
<1>1. ASSUME NEW L \in SUBSET Entries, LogChanges(L) PROVE Held'
    BY <1>1 DEF LogChanges
<1>2. ASSUME NEW j \in Jobs, RunScan(j) PROVE Held'
    BY <1>2 DEF RunScan, Goes
<1>3. ASSUME NEW j \in Jobs, RunRead(j) PROVE Held'
    BY <1>3 DEF RunRead, Goes
<1>4. ASSUME NEW j \in Jobs, NEW F \in SUBSET Fingerprints, ResolveRead(j, F) PROVE Held'
    BY <1>4 DEF ResolveRead, Goes
<1>5. ASSUME NEW j \in Jobs, Truncate(j) PROVE Held'
    <2>1. CASE raced' \/ cut'
        BY <2>1
    <2>2. CASE ~raced' /\ ~cut'
        <3>1. registry = base[j] /\ ~raced /\ ~cut
            BY <1>5, <2>2 DEF Truncate
        <3>2. \A f \in Fingerprints : registry[f] = "resolved" => mine[j][f] = "resolved"
            BY <1>5, <3>1 DEF Truncate, Goes, Carries
        <3>3. jpc'[j] = "write" /\ \A k \in Jobs : jpc[k] = "write" => jpc'[k] = "write"
            BY <1>5 DEF Truncate, Goes
        <3>4. mine' = mine /\ resolvedOnce' = resolvedOnce
            BY <1>5 DEF Truncate
        <3> QED
            BY <3>1, <3>2, <3>3, <3>4
    <2> QED
        BY <2>1, <2>2
<1>6. ASSUME NEW j \in Jobs, Write(j) PROVE Held'
    <2>1. CASE raced' \/ cut'
        BY <2>1
    <2>2. CASE ~raced' /\ ~cut'
        <3>1. registry = NoRegistry /\ ~raced /\ ~cut
            BY <1>6, <2>2 DEF Write
        <3>2. \A f \in Fingerprints : registry[f] = "absent"
            BY <3>1 DEF NoRegistry
        <3>3. \A f \in Fingerprints : registry'[f] = mine[j][f]
            BY <1>6, <3>2 DEF Write
        <3>4. \A f \in chosen[j] : registry'[f] = "resolved"
            BY <1>6, <3>3 DEF Write, Goes, Carries
        <3>5. \A k \in Jobs \ {j} : jpc'[k] = jpc[k] /\ mine'[k] = mine[k]
            BY <1>6 DEF Write, Goes, Finished
        <3>6. \A f \in resolvedOnce : \/ registry'[f] = "resolved"
                                      \/ \E k \in Jobs : jpc'[k] = "write" /\ mine'[k][f] = "resolved"
            <4> TAKE f \in resolvedOnce
            <4>1. registry[f] # "resolved"
                BY <3>2
            <4>2. PICK k \in Jobs : jpc[k] = "write" /\ mine[k][f] = "resolved"
                BY <3>1, <4>1
            <4>3. CASE k = j
                BY <3>3, <4>2, <4>3
            <4>4. CASE k # j
                <5>1. jpc'[k] = "write" /\ mine'[k] = mine[k]
                    BY <3>5, <4>2, <4>4
                <5> QED
                    BY <4>2, <5>1
            <4> QED
                BY <4>3, <4>4
        <3>7. resolvedOnce' = resolvedOnce \cup chosen[j]
            BY <1>6 DEF Write
        <3> QED
            BY <3>4, <3>6, <3>7
    <2> QED
        BY <2>1, <2>2
<1>7. ASSUME NEW j \in Jobs, JobDies(j) PROVE Held'
    BY <1>7 DEF JobDies, Finished
<1>8. CASE UNCHANGED patVars
    BY <1>8 DEF patVars
<1> QED
    BY <1>1, <1>2, <1>3, <1>4, <1>5, <1>6, <1>7, <1>8 DEF PatNext

LEMMA PatInvariant == ASSUME PatternConstants PROVE PatSpec => []PatInv
<1>1. PatInit => PatInv
    BY PatInitInv
<1>2. PatInv /\ [PatNext]_patVars => PatInv'
    BY PatTypeStep, CarriesStep, HeldStep DEF PatInv
<1> QED
    BY <1>1, <1>2, PTL DEF PatSpec

\* The variables keep their types (the registry of error_patterns.py).
THEOREM PatTypes == ASSUME PatternConstants PROVE PatSpec => []PatTypeOK
<1>1. PatInv => PatTypeOK
    BY DEF PatInv
<1> QED
    BY <1>1, PatInvariant, PTL

\* A resolution survives every run and every other resolve command that did not
\* write over a changed registry and was not cut off (ResolutionSurvives).
THEOREM ResolutionsSurvive == ASSUME PatternConstants PROVE PatSpec => []ResolutionSurvives
<1>1. PatInv => ResolutionSurvives
    BY DEF PatInv, Held, ResolutionSurvives
<1> QED
    BY <1>1, PatInvariant, PTL

(***************************************************************************)
(* LayoutAudit, for every project and any number of edits.                 *)
(***************************************************************************)
\* The plan that plan_residue_migration makes of the findings and the tree.
PlanOfFindings ==
    [actions |-> {[kind |-> k, action |-> DetermineAction(k)] : k \in findings \cup SecondLook},
     risk |-> RiskLevel, confirm |-> RequiresConfirmation,
     backup |-> BackupPlan, rollback |-> RollbackPlan, together |-> CommitTogether]

\* What did not appear since the audit is reported exactly when it is there and
\* the filter lets it through.
LayoutReported ==
    \A k \in (Structures \cup Pollution) \ appeared :
        k \in findings <=> k \in tree /\ Level(k) \in AtLeast(filter)

LayoutInv ==
    /\ filter \in {"P0", "P1", "P2"}
    /\ lpc \in {"start", "audited", "planned"}
    /\ lpc = "start" => appeared = {}
    /\ lpc # "start" => LayoutReported
    /\ lpc = "planned" => plan = PlanOfFindings

LEMMA LayoutInvStep == ASSUME LayoutInv, [LayoutNext]_layoutVars PROVE LayoutInv'
<1> USE DEF LayoutInv
<1>1. ASSUME NEW f \in {"P0", "P1", "P2"}, AuditLayout(f) PROVE LayoutInv'
    <2>1. ASSUME NEW k \in Structures \cup Pollution
          PROVE  k \in findings' <=> k \in tree /\ Level(k) \in AtLeast(f)
        <3>1. k \in AllFindings <=> k \in tree
            BY DEF AllFindings, ManifestFinding, AgentsFinding, IndexFinding, OwnershipFinding,
                   Structures, RootStructures, WorkspaceStructures, Pollution, DocEntrypoints
        <3> QED
            BY <1>1, <3>1 DEF AuditLayout
    <2> QED
        BY <1>1, <2>1 DEF AuditLayout, LayoutReported, onDisk
<1>2. ASSUME NEW x \in Structures \cup Pollution, Edit(x) PROVE LayoutInv'
    BY <1>2 DEF Edit, LayoutReported
<1>3. CASE MakePlan
    <2>1. plan' = PlanOfFindings
        BY <1>3 DEF MakePlan, PlanOfFindings
    <2>2. UNCHANGED <<tree, otherMd, findings, filter, appeared>>
        BY <1>3 DEF MakePlan, onDisk
    <2>3. UNCHANGED <<SecondLook, RiskLevel, RequiresConfirmation>>
        BY <2>2 DEF SecondLook, RiskLevel, RequiresConfirmation, RootVsWorkspace
    <2>4. UNCHANGED <<BackupPlan, RollbackPlan, CommitTogether>>
        BY <2>2 DEF BackupPlan, RollbackPlan, CommitTogether
    <2>5. UNCHANGED PlanOfFindings
        BY <2>2, <2>3, <2>4 DEF PlanOfFindings
    <2> QED
        BY <1>3, <2>1, <2>2, <2>5 DEF MakePlan, LayoutReported
<1>4. CASE UNCHANGED layoutVars
    BY <1>4 DEF layoutVars, LayoutReported, PlanOfFindings, SecondLook, RiskLevel,
                RequiresConfirmation, RootVsWorkspace, BackupPlan, RollbackPlan, CommitTogether
<1> QED
    BY <1>1, <1>2, <1>3, <1>4 DEF LayoutNext

\* The plan is safe when it is made of the findings.
LEMMA LayoutPlanSafe == ASSUME LayoutInv, lpc = "planned" PROVE PlanIsSafe
<1> USE DEF LayoutInv
<1>1. ASSUME appeared = {}, filter # "P0", tree \cap RootStructures # {},
             tree \cap WorkspaceStructures # {}
      PROVE  plan.confirm /\ plan.risk = "critical"
    <2>1. ASSUME NEW k \in RootStructures \cup WorkspaceStructures PROVE Level(k) \in AtLeast(filter)
        BY <1>1 DEF Level, AtLeast, P0, P2, RootStructures, WorkspaceStructures
    <2>2. RootVsWorkspace
        BY <1>1, <2>1 DEF LayoutReported, RootVsWorkspace, Structures
    <2>3. plan.confirm = RequiresConfirmation /\ plan.risk = RiskLevel
        BY DEF PlanOfFindings
    <2>4. RequiresConfirmation
        BY <2>2 DEF RequiresConfirmation
    <2>5. RiskLevel = "critical"
        BY <2>2 DEF RiskLevel
    <2> QED
        BY <2>3, <2>4, <2>5
<1>2. ASSUME NEW action, NEW k \in Planned(action)
      PROVE  k \in findings \cup SecondLook /\ DetermineAction(k) = action
    BY <1>2 DEF Planned, PlanOfFindings
<1>3. ASSUME NEW k \in Planned("move_root_pollution")
      PROVE  k \in plan.rollback \/ k \in appeared \/ filter = "P0"
    <2>1. k \in MovedKinds
        BY <1>2, <1>3 DEF DetermineAction
    <2>2. CASE k \in findings
        BY <2>1, <2>2 DEF PlanOfFindings, RollbackPlan
    <2>3. CASE k \notin findings /\ filter # "P0"
        <3>1. k \in tree \cap DocEntrypoints
            BY <1>2, <1>3, <2>1, <2>3 DEF SecondLook, MovedKinds, DocEntrypoints
        <3>2. k \in Pollution /\ Level(k) \in AtLeast(filter)
            BY <2>3, <3>1 DEF Pollution, DocEntrypoints, Level, AtLeast, P0, P2
        <3> QED
            BY <2>3, <3>1, <3>2 DEF LayoutReported
    <2> QED
        BY <2>2, <2>3
<1>4. ASSUME NEW k \in Planned("adopt_existing_memory") \ {"current_memory"}
      PROVE  k \in plan.backup
    <2>1. k \in RootStructures \cup {"agents_md_marked", "index_md_business"}
        BY <1>2, <1>4 DEF DetermineAction
    <2>2. k \in findings
        BY <1>2, <1>4, <2>1 DEF SecondLook, DocEntrypoints, RootStructures
    <2> QED
        BY <1>4, <2>1, <2>2 DEF PlanOfFindings, BackupPlan, RootStructures
<1>5. ASSUME NEW g \in plan.together PROVE g \cap plan.backup # {}
    <2>1. g \in CommitTogether
        BY DEF PlanOfFindings
    <2>2. Cardinality({}) = 0 /\ Cardinality({"workspace_memory"}) = 1
        BY FS_EmptySet, FS_Singleton
    <2>3. g # {} /\ g # {"workspace_memory"}
        BY <2>1, <2>2 DEF CommitTogether
    <2>4. CASE g = findings \cap {"dot_memory", "legacy_memory", "workspace_memory"}
        BY <2>3, <2>4 DEF PlanOfFindings, BackupPlan
    <2>5. CASE g = findings \cap {"agents_md_marked", "agents_md_unmarked", "index_md_business"}
        BY <2>3, <2>5 DEF PlanOfFindings, BackupPlan
    <2> QED
        BY <2>1, <2>4, <2>5 DEF CommitTogether
<1> QED
    BY <1>1, <1>3, <1>4, <1>5 DEF PlanIsSafe

\* However the project is edited between its audit and its plan, what the plan
\* moves or adopts it can restore unless the audit could not see it, and two
\* generations of memory ask for a human (plan_residue_migration).
THEOREM PlansAreSafe == LayoutSpec => []PlanIsSafe
<1>1. LayoutInit => LayoutInv
    BY DEF LayoutInit, LayoutInv
<1>2. LayoutInv /\ [LayoutNext]_layoutVars => LayoutInv'
    BY LayoutInvStep
<1>3. LayoutInv => PlanIsSafe
    BY LayoutPlanSafe DEF PlanIsSafe
<1> QED
    BY <1>1, <1>2, <1>3, PTL DEF LayoutSpec

(***************************************************************************)
(* DailyAudit, for every inventory and whatever the checks find.           *)
(***************************************************************************)
\* How many subjects of the current list have been checked.
Done(list) == Len(list) - Len(todo)
Walks(list) ==
    /\ todo \in Seq(SeqElements(list)) /\ Len(todo) <= Len(list)
    /\ \A n \in 1 .. Len(todo) : todo[n] = list[Done(list) + n]

\* Of the first d subjects, the m-th is the last of its name.
LastOf(list, d, m) == m \in 1 .. d /\ \A n \in m + 1 .. d : NameOf[list[n]] # NameOf[list[m]]

\* Such a subject has the record its facts call for, or a check of it raised.
Recorded(list, d, records, expected, but) ==
    \A m \in 1 .. d :
        LastOf(list, d, m) => \/ list[m] \in but
                              \/ records[NameOf[list[m]]] = expected[list[m]]

\* Only the record of x's name is another one.
KeptElsewhere(list, d, x, records, new) ==
    \A m \in 1 .. d : NameOf[list[m]] # NameOf[x] =>
                          new[NameOf[list[m]]] = records[NameOf[list[m]]]

ServerRecords == [x \in SeqElements(Servers) |-> CheckServer(server[x])]
DatabaseRecords == [x \in SeqElements(Databases) |-> CheckDatabase(database[x])]
ProjectRecords == [x \in SeqElements(Roots) |-> AuditProject(project[x], {})]

ServersDone == IF apc = "servers" THEN Done(Servers) ELSE Len(Servers)
DatabasesDone == CASE apc = "servers"                -> 0
                   [] apc = "databases"              -> Done(Databases)
                   [] apc \in {"projects", "done"}   -> Len(Databases)
ProjectsDone == IF apc \in {"servers", "databases"} THEN 0 ELSE Done(Roots)

AuditShape ==
    /\ apc \in {"servers", "databases", "projects", "done"}
    /\ apc = "servers" => Walks(Servers)
    /\ apc = "databases" => Walks(Databases)
    /\ apc \in {"projects", "done"} => Walks(Roots)
    /\ apc = "done" => todo = <<>>
    /\ project \in [SeqElements(Roots) -> ProjectFacts]
    /\ infra = [servers |-> infra.servers, databases |-> infra.databases]
    /\ infra.servers = [n \in Names(Servers) |-> infra.servers[n]]
    /\ infra.databases = [n \in Names(Databases) |-> infra.databases[n]]
    /\ results = [n \in Names(Roots) |-> results[n]]

AuditRecords ==
    /\ Recorded(Servers, ServersDone, infra.servers, ServerRecords, raised)
    /\ Recorded(Databases, DatabasesDone, infra.databases, DatabaseRecords, raised)
    /\ Recorded(Roots, ProjectsDone, results, ProjectRecords, raised)

ExitCounts == apc = "done" /\ exit = 0 => ~SomeCritical(results) /\ ~CriticalInfra

AuditInv == AuditShape /\ AuditRecords /\ ExitCounts

\* The next subject of the walk is the one behind those that are done.
LEMMA WalkStep ==
    ASSUME NEW list, list \in Seq(SeqElements(list)), Walks(list), todo # <<>>, todo' = Tail(todo)
    PROVE  /\ Walks(list)' /\ Done(list)' = Done(list) + 1
           /\ Done(list) + 1 \in 1 .. Len(list)
           /\ Head(todo) = list[Done(list) + 1]
           /\ NameOf[Head(todo)] \in Names(list)
<1> USE DEF Walks, Done
<1>1. /\ Len(todo) \in Nat \ {0} /\ Len(list) \in Nat
      /\ Head(todo) = todo[1]
      /\ todo' \in Seq(SeqElements(list)) /\ Len(todo') = Len(todo) - 1
      /\ \A n \in 1 .. Len(todo') : todo'[n] = todo[n + 1]
    OBVIOUS
<1>2. Done(list)' = Done(list) + 1 /\ Done(list) + 1 \in 1 .. Len(list)
    BY <1>1
<1>3. Head(todo) = list[Done(list) + 1]
    BY <1>1
<1>4. ASSUME NEW n \in 1 .. Len(todo') PROVE todo'[n] = list[Len(list) - Len(todo') + n]
    <2>1. n + 1 \in 1 .. Len(todo) /\ todo'[n] = todo[n + 1]
        BY <1>1
    <2>2. Len(list) - Len(todo') + n = Len(list) - Len(todo) + (n + 1)
        BY <1>1
    <2> QED
        BY <2>1, <2>2
<1>5. list[Done(list) + 1] \in SeqElements(list)
    BY <1>2 DEF SeqElements
<1> QED
    BY <1>1, <1>2, <1>3, <1>4, <1>5 DEF Names

\* One more subject is recorded, in the place of an earlier one of its name.
LEMMA RecordStep ==
    ASSUME NEW list, NEW d \in Nat, NEW e, e = d + 1, NEW x, x = list[e],
           NEW records, NEW new, NEW expected, NEW but, NEW more, but \subseteq more,
           Recorded(list, d, records, expected, but),
           x \in more \/ new[NameOf[x]] = expected[x],
           KeptElsewhere(list, d, x, records, new)
    PROVE  Recorded(list, e, new, expected, more)
<1> SUFFICES ASSUME NEW m \in 1 .. d + 1, LastOf(list, d + 1, m)
             PROVE  list[m] \in more \/ new[NameOf[list[m]]] = expected[list[m]]
    BY DEF Recorded
<1>1. CASE m = d + 1
    BY <1>1
<1>2. CASE m # d + 1
    <2>1. m \in 1 .. d /\ d + 1 \in m + 1 .. d + 1
        BY <1>2
    <2>2. NameOf[list[d + 1]] # NameOf[list[m]] /\ LastOf(list, d, m)
        BY <2>1 DEF LastOf
    <2> QED
        BY <2>1, <2>2 DEF Recorded, KeptElsewhere
<1> QED
    BY <1>1, <1>2

\* More exceptions, nothing done yet, or no exception needed.
LEMMA RecordedMore ==
    ASSUME NEW list, NEW d, NEW records, NEW expected, NEW but, NEW more, but \subseteq more,
           Recorded(list, d, records, expected, but)
    PROVE  Recorded(list, d, records, expected, more)
BY DEF Recorded

LEMMA RecordedNone ==
    ASSUME NEW list, NEW records, NEW expected, NEW but
    PROVE  Recorded(list, 0, records, expected, but)
BY DEF Recorded

LEMMA RecordedExempt ==
    ASSUME NEW list, list \in Seq(SeqElements(list)), NEW records, NEW expected, NEW but,
           SeqElements(list) \subseteq but
    PROVE  Recorded(list, Len(list), records, expected, but)
BY DEF Recorded, SeqElements

LEMMA AuditInitInv == ASSUME AuditConstants, AuditInit PROVE AuditInv
<1>1. Servers \in Seq(SeqElements(Servers))
    BY DEF AuditConstants
<1>2. Walks(Servers) /\ Done(Servers) = 0
    BY <1>1 DEF AuditInit, Walks, Done
<1>3. AuditShape
    BY <1>2 DEF AuditInit, AuditShape, NoInfra
<1>4. AuditRecords
    BY <1>2, RecordedNone DEF AuditRecords, ServersDone, DatabasesDone, ProjectsDone, AuditInit
<1> QED
    BY <1>3, <1>4 DEF AuditInv, ExitCounts, AuditInit

LEMMA AuditInvStep == ASSUME AuditConstants, AuditInv, [AuditNext]_auditVars PROVE AuditInv'
<1> USE DEF AuditInv
<1>0. /\ Servers \in Seq(SeqElements(Servers)) /\ Len(Servers) \in Nat
      /\ Databases \in Seq(SeqElements(Databases)) /\ Len(Databases) \in Nat
      /\ Roots \in Seq(SeqElements(Roots)) /\ Len(Roots) \in Nat
    BY DEF AuditConstants
<1>same. UNCHANGED <<project, server, database>> =>
             UNCHANGED <<ServerRecords, DatabaseRecords, ProjectRecords>>
    BY DEF ServerRecords, DatabaseRecords, ProjectRecords
<1>1. CASE AuditServer
    <2>1. /\ Walks(Servers)' /\ Done(Servers)' = Done(Servers) + 1
          /\ Done(Servers) + 1 \in 1 .. Len(Servers)
          /\ Head(todo) = Servers[Done(Servers) + 1] /\ NameOf[Head(todo)] \in Names(Servers)
        BY <1>0, <1>1, WalkStep DEF AuditServer, AuditShape
    <2>2. Done(Servers) \in Nat
        BY <2>1 DEF Done, Walks, AuditShape
    <2> DEFINE x == Servers[Done(Servers) + 1]
               v == CheckServer(server[x])
    <2>3. infra'.servers = [infra.servers EXCEPT ![NameOf[x]] = v]
        BY <1>1, <2>1 DEF AuditServer, AuditShape
    <2>4. ServerRecords[x] = v
        BY <2>1 DEF ServerRecords, SeqElements
    <2>5. Recorded(Servers, Done(Servers), infra.servers, ServerRecords, raised)
        BY <1>1 DEF AuditRecords, ServersDone, AuditServer
    <2>6. Recorded(Servers, Done(Servers) + 1, infra'.servers, ServerRecords, raised)
        <3>1. \A m \in 1 .. Done(Servers) : NameOf[Servers[m]] \in Names(Servers)
            <4>1. ASSUME NEW m \in 1 .. Done(Servers) PROVE m \in DOMAIN Servers
                BY <2>1, <2>2, <1>0
            <4> QED
                BY <4>1 DEF Names, SeqElements
        <3>2. x \in raised \/ infra'.servers[NameOf[x]] = ServerRecords[x]
            BY <2>1, <2>3, <2>4 DEF AuditShape
        <3>3. KeptElsewhere(Servers, Done(Servers), x, infra.servers, infra'.servers)
            BY <2>1, <2>3, <2>4, <3>1 DEF AuditShape, KeptElsewhere
        <3> DEFINE e == Done(Servers) + 1
        <3>4. Done(Servers) \in Nat /\ e = Done(Servers) + 1 /\ x = Servers[e]
              /\ Recorded(Servers, Done(Servers), infra.servers, ServerRecords, raised)
            BY <2>2, <2>5
        <3>5. raised \subseteq raised
            OBVIOUS
        <3> HIDE DEF e, x
        <3>6. Recorded(Servers, e, infra'.servers, ServerRecords, raised)
            BY <3>2, <3>3, <3>4, <3>5, RecordStep
        <3> QED
            BY <3>6 DEF e
    <2>7. ServersDone' = Done(Servers) + 1 /\ DatabasesDone' = 0 /\ ProjectsDone' = 0
        BY <1>1, <2>1 DEF AuditServer, ServersDone, DatabasesDone, ProjectsDone
    <2>8. AuditRecords'
        BY <1>1, <1>same, <2>6, <2>7, RecordedNone DEF AuditServer, Facts, AuditRecords
    <2>9. AuditShape'
        BY <1>1, <2>1, <2>3 DEF AuditServer, Facts, AuditShape
    <2> QED
        BY <1>1, <2>8, <2>9 DEF AuditServer, ExitCounts
<1>2. CASE AuditDatabase
    <2>1. /\ Walks(Databases)' /\ Done(Databases)' = Done(Databases) + 1
          /\ Done(Databases) + 1 \in 1 .. Len(Databases)
          /\ Head(todo) = Databases[Done(Databases) + 1]
          /\ NameOf[Head(todo)] \in Names(Databases)
        BY <1>0, <1>2, WalkStep DEF AuditDatabase, AuditShape
    <2>2. Done(Databases) \in Nat
        BY <2>1 DEF Done, Walks, AuditShape
    <2> DEFINE x == Databases[Done(Databases) + 1]
               v == CheckDatabase(database[x])
    <2>3. infra'.databases = [infra.databases EXCEPT ![NameOf[x]] = v]
        BY <1>2, <2>1 DEF AuditDatabase, AuditShape
    <2>4. DatabaseRecords[x] = v
        BY <2>1 DEF DatabaseRecords, SeqElements
    <2>5. Recorded(Databases, Done(Databases), infra.databases, DatabaseRecords, raised)
        BY <1>2 DEF AuditRecords, DatabasesDone, AuditDatabase
    <2>6. Recorded(Databases, Done(Databases) + 1, infra'.databases, DatabaseRecords, raised)
        <3>1. \A m \in 1 .. Done(Databases) : NameOf[Databases[m]] \in Names(Databases)
            <4>1. ASSUME NEW m \in 1 .. Done(Databases) PROVE m \in DOMAIN Databases
                BY <2>1, <2>2, <1>0
            <4> QED
                BY <4>1 DEF Names, SeqElements
        <3>2. x \in raised \/ infra'.databases[NameOf[x]] = DatabaseRecords[x]
            BY <2>1, <2>3, <2>4 DEF AuditShape
        <3>3. KeptElsewhere(Databases, Done(Databases), x, infra.databases, infra'.databases)
            BY <2>1, <2>3, <2>4, <3>1 DEF AuditShape, KeptElsewhere
        <3> DEFINE e == Done(Databases) + 1
        <3>4. Done(Databases) \in Nat /\ e = Done(Databases) + 1 /\ x = Databases[e]
              /\ Recorded(Databases, Done(Databases), infra.databases, DatabaseRecords, raised)
            BY <2>2, <2>5
        <3>5. raised \subseteq raised
            OBVIOUS
        <3> HIDE DEF e, x
        <3>6. Recorded(Databases, e, infra'.databases, DatabaseRecords, raised)
            BY <3>2, <3>3, <3>4, <3>5, RecordStep
        <3> QED
            BY <3>6 DEF e
    <2>7. /\ ServersDone' = ServersDone /\ DatabasesDone' = Done(Databases) + 1
          /\ ProjectsDone' = 0 /\ infra'.servers = infra.servers
        BY <1>2, <2>1 DEF AuditDatabase, ServersDone, DatabasesDone, ProjectsDone, AuditShape
    <2>8. AuditRecords'
        BY <1>2, <1>same, <2>6, <2>7, RecordedNone DEF AuditDatabase, Facts, AuditRecords
    <2>9. AuditShape'
        BY <1>2, <2>1, <2>3 DEF AuditDatabase, Facts, AuditShape
    <2> QED
        BY <1>2, <2>8, <2>9 DEF AuditDatabase, ExitCounts
<1>3. CASE NextList
    <2>1. CASE apc = "servers"
        <3>1. ServersDone' = ServersDone /\ DatabasesDone' = 0 /\ ProjectsDone' = 0
            BY <1>0, <1>3, <2>1 DEF NextList, ServersDone, DatabasesDone, ProjectsDone, Done
        <3>2. AuditRecords'
            BY <1>3, <1>same, <2>1, <3>1, RecordedNone DEF NextList, Facts, AuditRecords
        <3>3. Walks(Databases)'
            BY <1>0, <1>3, <2>1 DEF NextList, Walks, Done
        <3> QED
            BY <1>3, <2>1, <3>2, <3>3 DEF NextList, Facts, AuditShape, ExitCounts
    <2>2. CASE apc = "databases"
        <3>1. /\ ServersDone' = ServersDone /\ DatabasesDone' = DatabasesDone
              /\ ProjectsDone' = 0
            BY <1>0, <1>3, <2>2 DEF NextList, ServersDone, DatabasesDone, ProjectsDone, Done
        <3>2. AuditRecords'
            BY <1>3, <1>same, <2>2, <3>1, RecordedNone DEF NextList, Facts, AuditRecords
        <3>3. Walks(Roots)'
            BY <1>0, <1>3, <2>2 DEF NextList, Walks, Done
        <3> QED
            BY <1>3, <2>2, <3>2, <3>3 DEF NextList, Facts, AuditShape, ExitCounts
    <2> QED
        BY <1>3, <2>1, <2>2 DEF NextList
<1>4. CASE InfraMissing
    <2>1. /\ ServersDone' = Len(Servers) /\ DatabasesDone' = Len(Databases)
          /\ ProjectsDone' = 0
        BY <1>0, <1>4 DEF InfraMissing, ServersDone, DatabasesDone, ProjectsDone, Done
    <2>2. SeqElements(Servers) \subseteq raised' /\ SeqElements(Databases) \subseteq raised'
        BY <1>4 DEF InfraMissing
    <2>3. AuditRecords'
        BY <1>0, <1>4, <1>same, <2>1, <2>2, RecordedExempt, RecordedNone
        DEF InfraMissing, Facts, AuditRecords
    <2>4. Walks(Roots)'
        BY <1>0, <1>4 DEF InfraMissing, Walks, Done
    <2> QED
        BY <1>4, <2>3, <2>4 DEF InfraMissing, Facts, AuditShape, NoInfra, ExitCounts
<1>project. ASSUME apc = "projects", todo # <<>>, todo' = Tail(todo), NEW v,
                   results' = [results EXCEPT ![NameOf[Head(todo)]] = v],
                   v = AuditProject(project[Head(todo)], {}) \/ Head(todo) \in raised',
                   raised \subseteq raised', UNCHANGED <<Facts, apc, infra, exit>>
            PROVE  AuditInv'
    <2>1. /\ Walks(Roots)' /\ Done(Roots)' = Done(Roots) + 1
          /\ Done(Roots) + 1 \in 1 .. Len(Roots)
          /\ Head(todo) = Roots[Done(Roots) + 1] /\ NameOf[Head(todo)] \in Names(Roots)
        BY <1>0, <1>project, WalkStep DEF AuditShape
    <2>2. Done(Roots) \in Nat
        BY <1>project, <2>1 DEF Done, Walks, AuditShape
    <2> DEFINE x == Roots[Done(Roots) + 1]
    <2>3. ProjectRecords[x] = AuditProject(project[x], {})
        BY <2>1 DEF ProjectRecords, SeqElements
    <2>4. Recorded(Roots, Done(Roots), results, ProjectRecords, raised)
        BY <1>project DEF AuditRecords, ProjectsDone
    <2>5. Recorded(Roots, Done(Roots) + 1, results', ProjectRecords, raised')
        <3>1. \A m \in 1 .. Done(Roots) : NameOf[Roots[m]] \in Names(Roots)
            <4>1. ASSUME NEW m \in 1 .. Done(Roots) PROVE m \in DOMAIN Roots
                BY <2>1, <2>2, <1>0
            <4> QED
                BY <4>1 DEF Names, SeqElements
        <3>2. x \in raised' \/ results'[NameOf[x]] = ProjectRecords[x]
            BY <1>project, <2>1, <2>3 DEF AuditShape
        <3>3. KeptElsewhere(Roots, Done(Roots), x, results, results')
            BY <1>project, <2>1, <2>3, <3>1 DEF AuditShape, KeptElsewhere
        <3> DEFINE e == Done(Roots) + 1
        <3>4. Done(Roots) \in Nat /\ e = Done(Roots) + 1 /\ x = Roots[e]
              /\ Recorded(Roots, Done(Roots), results, ProjectRecords, raised)
            BY <2>2, <2>4
        <3>5. raised \subseteq raised'
            BY <1>project
        <3> HIDE DEF e, x
        <3>6. Recorded(Roots, e, results', ProjectRecords, raised')
            BY <3>2, <3>3, <3>4, <3>5, RecordStep
        <3> QED
            BY <3>6 DEF e
    <2>6. /\ ServersDone' = ServersDone /\ DatabasesDone' = DatabasesDone
          /\ ProjectsDone' = Done(Roots) + 1
        BY <1>project, <2>1 DEF ServersDone, DatabasesDone, ProjectsDone
    <2>7. AuditRecords'
        BY <1>project, <1>same, <2>5, <2>6, RecordedMore DEF Facts, AuditRecords
    <2>8. AuditShape'
        BY <1>project, <2>1 DEF Facts, AuditShape
    <2> QED
        BY <1>project, <2>7, <2>8 DEF ExitCounts
<1>5. ASSUME NEW R, AuditNextProject(R) PROVE AuditInv'
    <2>1. CASE R = {}
        BY <1>5, <1>project, <2>1 DEF AuditNextProject, When
    <2>2. CASE R # {}
        BY <1>5, <1>project, <2>2 DEF AuditNextProject, When
    <2> QED
        BY <2>1, <2>2
<1>6. CASE ProjectRaises
    BY <1>6, <1>project DEF ProjectRaises
<1>7. CASE Exit
    <2>1. UNCHANGED <<ServersDone, DatabasesDone, ProjectsDone>>
        BY <1>7 DEF Exit, ServersDone, DatabasesDone, ProjectsDone, Done
    <2>2. AuditRecords'
        BY <1>7, <1>same, <2>1 DEF Exit, Facts, AuditRecords
    <2>3. AuditShape'
        BY <1>7 DEF Exit, Facts, AuditShape, Walks, Done
    <2>4. ExitCounts'
        BY <1>7 DEF Exit, ExitCounts, CriticalInfra, SomeCritical, HasCritical
    <2> QED
        BY <2>2, <2>3, <2>4
<1>8. CASE IndexUnreadable
    <2>1. /\ ServersDone' = ServersDone /\ DatabasesDone' = DatabasesDone
          /\ ProjectsDone' = Len(Roots)
        BY <1>0, <1>8 DEF IndexUnreadable, ServersDone, DatabasesDone, ProjectsDone, Done
    <2>2. SeqElements(Roots) \subseteq raised'
        BY <1>8 DEF IndexUnreadable
    <2>3. raised \subseteq raised'
        BY <1>8 DEF IndexUnreadable
    <2>4. AuditRecords'
        BY <1>0, <1>8, <1>same, <2>1, <2>2, <2>3, RecordedExempt, RecordedMore
        DEF IndexUnreadable, Facts, AuditRecords
    <2>5. Walks(Roots)'
        BY <1>0, <1>8 DEF IndexUnreadable, Walks, Done
    <2> QED
        BY <1>8, <2>4, <2>5 DEF IndexUnreadable, Facts, AuditShape, ExitCounts
<1>9. CASE UNCHANGED auditVars
    <2>1. UNCHANGED <<ServersDone, DatabasesDone, ProjectsDone>>
        BY <1>9 DEF auditVars, ServersDone, DatabasesDone, ProjectsDone, Done
    <2>2. AuditRecords'
        BY <1>9, <1>same, <2>1 DEF auditVars, AuditRecords
    <2>3. AuditShape'
        BY <1>9 DEF auditVars, AuditShape, Walks, Done
    <2>4. ExitCounts'
        BY <1>9 DEF auditVars, ExitCounts, CriticalInfra, SomeCritical, HasCritical
    <2> QED
        BY <2>2, <2>3, <2>4
<1> QED
    BY <1>1, <1>2, <1>3, <1>4, <1>5, <1>6, <1>7, <1>8, <1>9 DEF AuditNext

\* More than one element: two different ones.
LEMMA TwoElements == ASSUME NEW S, Cardinality(S) > 1 PROVE \E x, y \in S : x # y
<1>1. S # {}
    BY FS_EmptySet
<1>2. PICK x \in S : TRUE
    BY <1>1
<1>3. S # {x}
    <2>1. Cardinality({x}) = 1
        BY FS_Singleton
    <2> QED
        BY <2>1
<1> QED
    BY <1>2, <1>3

\* A project that is broken has a critical violation, unless its check raised.
LEMMA BrokenIsCritical ==
    ASSUME AuditConstants, NEW p \in ProjectFacts, Broken(p)
    PROVE  HasCritical(AuditProject(p, {}))
<1>1. AuditProject(p, {}) = UNION {Check(p, c) : c \in ProjectChecks}
    BY DEF AuditProject, Broken
<1>2. ASSUME NEW c \in ProjectChecks, Check(p, c) = Critical1(c)
      PROVE  HasCritical(AuditProject(p, {}))
    <2>1. Violation(c, "critical") \in AuditProject(p, {})
        BY <1>1, <1>2 DEF Critical1
    <2>2. Violation(c, "critical").severity = "critical"
        BY DEF Violation
    <2> QED
        BY <2>1, <2>2 DEF HasCritical
<1>3. CASE ~HasEntries(p)
    BY <1>2, <1>3 DEF Check, ManifestIntegrity, When, ProjectChecks
<1>4. ASSUME NEW f \in p.files, f.entry # "none", <<f.bytes, f.entry>> # <<"readable", "match">>
      PROVE  HasCritical(AuditProject(p, {}))
    <2>1. f.bytes # "readable" \/ f.entry = "differs"
        BY <1>4 DEF AuditConstants
    <2>2. Check(p, "hash_mismatch") = Critical1("hash_mismatch")
        BY <1>4, <2>1 DEF Check, ManifestIntegrity, When
    <2> QED
        BY <1>2, <2>2 DEF ProjectChecks
<1>5. ASSUME NEW f \in p.files, f.name = "database", f.dir # "excluded", f.bytes # "missing"
      PROVE  HasCritical(AuditProject(p, {}))
    <2>1. Check(p, "large_file") = Critical1("large_file")
        BY <1>5 DEF Check, LargeOrDbFiles, When
    <2> QED
        BY <1>2, <2>1 DEF ProjectChecks
<1>6. CASE Cardinality({p.versions[l] : l \in DOMAIN p.versions}) > 1
    <2>1. \E v, w \in {p.versions[l] : l \in DOMAIN p.versions} : v # w
        <3> DEFINE V == {p.versions[l] : l \in DOMAIN p.versions}
        <3>1. Cardinality(V) > 1
            BY <1>6
        <3> HIDE DEF V
        <3>2. \E v, w \in V : v # w
            BY <3>1, TwoElements
        <3> QED
            BY <3>2 DEF V
    <2>2. PICK l, m \in DOMAIN p.versions : p.versions[l] # p.versions[m]
        BY <2>1
    <2>3. Check(p, "version_mismatch") = Critical1("version_mismatch")
        BY <2>2 DEF Check, VersionConsistency, When
    <2> QED
        BY <1>2, <2>3 DEF ProjectChecks
<1> QED
    BY <1>3, <1>4, <1>5, <1>6 DEF Broken

\* Whoever is not shadowed is the last of its name.
LEMMA UnshadowedIsRecorded ==
    ASSUME NEW list, list \in Seq(SeqElements(list)), NEW records, NEW expected, NEW but,
           Recorded(list, Len(list), records, expected, but),
           NEW x \in SeqElements(list), ~Shadowed(list, x)
    PROVE  x \in but \/ (NameOf[x] \in Names(list) /\ records[NameOf[x]] = expected[x])
<1>1. PICK m \in DOMAIN list : list[m] = x
    BY DEF SeqElements
<1>2. \A n \in m + 1 .. Len(list) : n \in DOMAIN list /\ m < n
    BY <1>1
<1>3. LastOf(list, Len(list), m)
    BY <1>1, <1>2 DEF LastOf, Shadowed
<1> QED
    BY <1>1, <1>3 DEF Recorded, Names, LastOf

LEMMA ExitTells == ASSUME AuditConstants, AuditInv PROVE ExitTellsCritical
<1> USE DEF AuditInv
<1> SUFFICES ASSUME apc = "done", exit = 0
             PROVE  /\ \A x \in SeqElements(Roots) :
                          Broken(project[x]) => x \in raised \/ Shadowed(Roots, x)
                    /\ \A x \in SeqElements(Servers) :
                          server[x].ssh = "unreachable" \/ server[x].port = "closed" =>
                              x \in raised \/ Shadowed(Servers, x)
                    /\ \A x \in SeqElements(Databases) :
                          database[x] = "closed" => x \in raised \/ Shadowed(Databases, x)
    BY DEF ExitTellsCritical
<1>1. /\ Servers \in Seq(SeqElements(Servers)) /\ Databases \in Seq(SeqElements(Databases))
      /\ Roots \in Seq(SeqElements(Roots))
    BY DEF AuditConstants
<1>2. /\ Recorded(Servers, Len(Servers), infra.servers, ServerRecords, raised)
      /\ Recorded(Databases, Len(Databases), infra.databases, DatabaseRecords, raised)
    BY DEF AuditRecords, ServersDone, DatabasesDone
<1>3. Recorded(Roots, Len(Roots), results, ProjectRecords, raised)
    <2>1. Done(Roots) = Len(Roots)
        BY <1>1 DEF Done, AuditShape
    <2> QED
        BY <2>1 DEF AuditRecords, ProjectsDone
<1>4. ~SomeCritical(results) /\ ~SomeCritical(infra.servers) /\ ~SomeCritical(infra.databases)
    BY DEF ExitCounts, CriticalInfra
<1>5. ASSUME NEW x \in SeqElements(Roots), Broken(project[x]), x \notin raised,
             ~Shadowed(Roots, x)
      PROVE  FALSE
    <2>1. NameOf[x] \in Names(Roots) /\ results[NameOf[x]] = ProjectRecords[x]
        BY <1>1, <1>3, <1>5, UnshadowedIsRecorded
    <2>2. HasCritical(ProjectRecords[x])
        BY <1>5, BrokenIsCritical DEF ProjectRecords, AuditShape
    <2> QED
        BY <1>4, <2>1, <2>2 DEF SomeCritical, AuditShape
<1>6. ASSUME NEW x \in SeqElements(Servers), x \notin raised, ~Shadowed(Servers, x),
             server[x].ssh = "unreachable" \/ server[x].port = "closed"
      PROVE  FALSE
    <2>1. NameOf[x] \in Names(Servers) /\ infra.servers[NameOf[x]] = ServerRecords[x]
        BY <1>1, <1>2, <1>6, UnshadowedIsRecorded
    <2>2. \E type : Violation(type, "critical") \in CheckServer(server[x])
        BY <1>6 DEF CheckServer, Ssh, Ports, When, Critical1
    <2>3. HasCritical(ServerRecords[x])
        BY <2>2 DEF ServerRecords, HasCritical, Violation
    <2> QED
        BY <1>4, <2>1, <2>3 DEF SomeCritical, AuditShape
<1>7. ASSUME NEW x \in SeqElements(Databases), x \notin raised, ~Shadowed(Databases, x),
             database[x] = "closed"
      PROVE  FALSE
    <2>1. NameOf[x] \in Names(Databases) /\ infra.databases[NameOf[x]] = DatabaseRecords[x]
        BY <1>1, <1>2, <1>7, UnshadowedIsRecorded
    <2>2. Violation("db_unreachable", "critical") \in CheckDatabase(database[x])
        BY <1>7 DEF CheckDatabase, When, Critical1
    <2>3. HasCritical(DatabaseRecords[x])
        BY <2>2 DEF DatabaseRecords, HasCritical, Violation
    <2> QED
        BY <1>4, <2>1, <2>3 DEF SomeCritical, AuditShape
<1> QED
    BY <1>5, <1>6, <1>7

\* The exit code of the daily audit is 0 only if nothing critical was there to be
\* seen, whatever the inventory and whichever checks raise: only a check that
\* raised and a later subject of the same name hide one (_summarize_to_console).
THEOREM ExitIsTruthful == ASSUME AuditConstants PROVE AuditSpec => []ExitTellsCritical
<1>1. AuditInit => AuditInv
    BY AuditInitInv
<1>2. AuditInv /\ [AuditNext]_auditVars => AuditInv'
    BY AuditInvStep
<1>3. AuditInv => ExitTellsCritical
    BY ExitTells
<1> QED
    BY <1>1, <1>2, <1>3, PTL DEF AuditSpec
=============================================================================
