--------------------------- MODULE PipelineHealth ---------------------------
(***************************************************************************)
(* src/infra_core/engine/evolution_heartbeat.py and the scanner's side of    *)
(* it: the heartbeat job probes the runs of the scanner's workflow and        *)
(* dispatches one when it looks stopped, a scanner tick does the same for the *)
(* heartbeat's workflow, and the scanner's self-audit reads the marker that   *)
(* the last successful tick left in the Actions cache.  Anomalies become      *)
(* alert issues, which a later heartbeat closes.  GitHub may drop any slot of *)
(* the schedules.                                                             *)
(***************************************************************************)
EXTENDS Naturals, Sequences, FiniteSets

CONSTANT MaxHealthFaults    \* bound: calls that fail and jobs that die

ASSUME HealthConstants == MaxHealthFaults \in Nat

Workflows == {"scan", "beat"}
Anomalies == {"scanner_stale", "issues_without_pr"}

VARIABLES
    age,            \* of the newest listed run of a workflow, whatever became of it
    queued,         \* the workflows with a pending job
    uncovered,      \* one of the PR_CHECK_WINDOW_ISSUES newest open issues
                    \* with the label evolution-found has no pull request
    alerts,         \* the open alert issues, oldest first
    hpc,            \* where the heartbeat job is
    beat,           \* what it found out
    tpc,            \* where the scanner job is
    marker,         \* heartbeat.json in the Actions cache: "fresh", or over
                    \* HEARTBEAT_STALE_THRESHOLD_HOURS old, invalid or missing
    reported,       \* the self-audit of the tick reported the marker
    healthFaults,
    lasting         \* history: the anomalies that have held in every state
                    \* since the running heartbeat job began

healthVars == <<age, queued, uncovered, alerts, hpc, beat, tpc, marker,
                reported, healthFaults, lasting>>

\* "stale" is over the alert threshold, "severe" over SCANNER_SEVERE_STALENESS_HOURS.
Age == {"none", "fresh", "stale", "severe"}
Alert == [recorded : SUBSET Anomalies, commented : BOOLEAN]
NoBeat == [alive |-> TRUE, severe |-> FALSE, accepted |-> FALSE,
           missing |-> FALSE, visit |-> {}]

HealthInit ==
    /\ age \in [Workflows -> Age]
    /\ queued = {}
    /\ uncovered \in BOOLEAN
    /\ alerts = <<>>
    /\ hpc = "idle" /\ beat = NoBeat
    /\ tpc = "idle"
    /\ marker \in {"fresh", "old"}
    /\ reported = FALSE
    /\ healthFaults = 0
    /\ lasting = {}

\* What is wrong at this moment, whatever the job believes.
Holding ==
    {a \in Anomalies :
        \/ a = "scanner_stale" /\ age["scan"] # "fresh"
        \/ a = "issues_without_pr" /\ uncovered}

\* The history follows every step and restrains none.
Remember ==
    lasting' = IF hpc' \in {"idle", "decide", "create"} THEN {}
               ELSE IF hpc = "idle" THEN Holding'
               ELSE lasting \cap Holding'

CallFails == healthFaults < MaxHealthFaults /\ healthFaults' = healthFaults + 1
CallAnswers == UNCHANGED healthFaults

\* A run is listed as soon as it is requested.  The concurrency group runs one
\* job at a time and keeps one pending.
Listed(w) ==
    /\ age' = [age EXCEPT ![w] = "fresh"]
    /\ queued' = queued \cup {w}

NothingListed == UNCHANGED <<age, queued>>

(***************************************************************************)
(* The schedules, time and users.                                          *)
(***************************************************************************)
CronFires(w) ==
    /\ Listed(w)
    /\ UNCHANGED <<uncovered, alerts, hpc, beat, tpc, marker, reported, healthFaults>>

\* A run grows old, before the eyes of the heartbeat; the jobs take minutes and
\* do not see it grow older still, nor does a tick before it looks.
GrowsStale(w) ==
    /\ \/ w = "scan" /\ age[w] = "fresh" /\ age' = [age EXCEPT ![w] = "stale"]
       \/ w = "scan" /\ hpc = "idle" /\ age[w] = "stale" /\ age' = [age EXCEPT ![w] = "severe"]
       \/ w = "beat" /\ tpc = "idle" /\ age[w] = "fresh" /\ age' = [age EXCEPT ![w] = "stale"]
    /\ UNCHANGED <<queued, uncovered, alerts, hpc, beat, tpc, marker, reported, healthFaults>>

\* Or its cache entry is evicted; a tick reads what was restored as it started.
MarkerGrowsOld ==
    /\ tpc = "idle"
    /\ marker = "fresh" /\ marker' = "old"
    /\ UNCHANGED <<age, queued, uncovered, alerts, hpc, beat, tpc, reported, healthFaults>>

\* Issues and pull requests are opened and closed, under the eyes of the jobs;
\* an issue without a pull request also leaves the window as newer ones come.
CoverageChanges ==
    /\ uncovered' = ~uncovered
    /\ UNCHANGED <<age, queued, alerts, hpc, beat, tpc, marker, reported, healthFaults>>

Without(s, n) == SubSeq(s, 1, n - 1) \o SubSeq(s, n + 1, Len(s))

\* An alert the job is about to close as well needs no visit; the positions of
\* the later ones move up.
UserClosesAlert(n) ==
    /\ alerts' = Without(alerts, n)
    /\ beat' = [beat EXCEPT !.visit = {m \in DOMAIN alerts' : IF m < n THEN m \in @ ELSE m + 1 \in @}]
    /\ UNCHANGED <<age, queued, uncovered, hpc, tpc, marker, reported, healthFaults>>

(***************************************************************************)
(* The heartbeat job.                                                      *)
(***************************************************************************)
BeatTo(from, to) == hpc = from /\ hpc' = to
NotTick == UNCHANGED <<tpc, marker, reported>>

BeatStarts ==
    /\ "beat" \in queued /\ queued' = queued \ {"beat"}
    /\ BeatTo("idle", "probe")
    /\ UNCHANGED <<age, uncovered, alerts, beat, healthFaults>>
    /\ NotTick

\* Variant: any listed run counts.
AliveEver(w) == age[w] # "none"

\* _check_workflow_liveness: a probe that fails knows no age.
Alive(w) == age[w] = "fresh"

ProbeScanner ==
    /\ \/ /\ CallAnswers
          /\ beat' = [beat EXCEPT !.alive = Alive("scan"), !.severe = age["scan"] = "severe"]
       \/ CallFails /\ beat' = [beat EXCEPT !.alive = FALSE]
    /\ BeatTo("probe", IF beat'.alive THEN "coverage" ELSE "dispatch")
    /\ UNCHANGED <<age, queued, uncovered, alerts>>
    /\ NotTick

\* trigger_scanner_dispatch: accepted, refused, or accepted without an answer.
DispatchScanner ==
    /\ BeatTo("dispatch", "coverage")
    /\ \/ CallAnswers /\ Listed("scan") /\ beat' = [beat EXCEPT !.accepted = TRUE]
       \/ CallFails /\ (NothingListed \/ Listed("scan")) /\ UNCHANGED beat
    /\ UNCHANGED <<uncovered, alerts>>
    /\ NotTick

\* compute_current_anomalies over the effective liveness, which is also what
\* stale_alertable says.
CurrentAnomalies(b) ==
    {a \in Anomalies :
        \/ a = "scanner_stale" /\ ~(b.alive \/ (b.accepted /\ ~b.severe))
        \/ a = "issues_without_pr" /\ b.missing}

\* Variant: a failing query for the issues counts as none without a pull request.
CheckCoverageFailsOpen ==
    /\ \/ CallAnswers /\ beat' = [beat EXCEPT !.missing = uncovered]
       \/ CallFails /\ UNCHANGED beat
    /\ BeatTo("coverage", "alerts")
    /\ UNCHANGED <<age, queued, uncovered, alerts>>
    /\ NotTick

\* check_pr_coverage, of the newest issues only.  A failing query for the issues
\* leaves the alerts alone; a failing query for an issue's pull requests says
\* that it has none.
CheckCoverage ==
    /\ \/ /\ CallAnswers
          /\ beat' = [beat EXCEPT !.missing = uncovered]
          /\ BeatTo("coverage", "alerts")
       \/ /\ CallFails
          /\ beat' = [beat EXCEPT !.missing = TRUE]
          /\ BeatTo("coverage", "alerts")
       \/ CallFails /\ UNCHANGED beat /\ BeatTo("coverage", "decide")
    /\ UNCHANGED <<age, queued, uncovered, alerts>>
    /\ NotTick

\* resolve_cleared_alerts: those of which every recorded anomaly has cleared.
Cleared(alert, current) == alert.recorded # {} /\ alert.recorded \cap current = {}

ListAlerts ==
    /\ BeatTo("alerts", "resolve")
    /\ \/ /\ CallAnswers
          /\ beat' = [beat EXCEPT !.visit =
                {n \in DOMAIN alerts : Cleared(alerts[n], CurrentAnomalies(beat))}]
       \/ CallFails /\ UNCHANGED beat
    /\ UNCHANGED <<age, queued, uncovered, alerts>>
    /\ NotTick

\* The comment and then the close, of the newest; a failing comment leaves the
\* alert as it is, a failing close leaves it open with its comment.
CloseAlert ==
    /\ hpc = "resolve" /\ UNCHANGED hpc
    /\ \E n \in beat.visit :
          /\ \A m \in beat.visit : m <= n
          /\ beat' = [beat EXCEPT !.visit = @ \ {n}]
          /\ \/ CallAnswers /\ alerts' = Without(alerts, n)
             \/ CallFails /\ \/ UNCHANGED alerts
                             \/ alerts' = [alerts EXCEPT ![n].commented = TRUE]
    /\ UNCHANGED <<age, queued, uncovered>>
    /\ NotTick

ResolveDone ==
    /\ beat.visit = {}
    /\ BeatTo("resolve", "decide")
    /\ UNCHANGED <<age, queued, uncovered, alerts, beat, healthFaults>>
    /\ NotTick

BeatEnds(from) == BeatTo(from, "idle") /\ beat' = NoBeat

\* Nothing to alert, or alert_issue_exists found any open alert.
NoNewAlert ==
    /\ BeatEnds("decide")
    /\ CurrentAnomalies(beat) = {} \/ alerts # <<>>
    /\ UNCHANGED <<age, queued, uncovered, alerts, healthFaults>>
    /\ NotTick

\* A query that fails says that there is none.
NeedsAlert ==
    /\ CurrentAnomalies(beat) # {}
    /\ BeatTo("decide", "create")
    /\ IF alerts = <<>> THEN CallAnswers ELSE CallFails
    /\ UNCHANGED <<age, queued, uncovered, alerts, beat>>
    /\ NotTick

CreateAlert ==
    /\ BeatEnds("create")
    /\ \/ /\ CallAnswers
          /\ alerts' = Append(alerts, [recorded |-> CurrentAnomalies(beat), commented |-> FALSE])
       \/ CallFails /\ UNCHANGED alerts
    /\ UNCHANGED <<age, queued, uncovered>>
    /\ NotTick

BeatDies ==
    /\ hpc # "idle" /\ BeatEnds(hpc)
    /\ CallFails
    /\ UNCHANGED <<age, queued, uncovered, alerts>>
    /\ NotTick

(***************************************************************************)
(* The scanner job.                                                        *)
(***************************************************************************)
TickTo(from, to) == tpc = from /\ tpc' = to
NotBeat == UNCHANGED <<uncovered, alerts, hpc, beat>>

\* Variant: a missing marker is taken for that of a first run.
TickStartsFirstRun ==
    /\ "scan" \in queued
    /\ TickTo("idle", "watch")
    /\ queued' = queued \ {"scan"}
    /\ UNCHANGED healthFaults
    /\ reported' \in {FALSE, marker # "fresh"}
    /\ UNCHANGED <<age, marker>>
    /\ NotBeat

\* The self-audit is one of the tools, and reads what the cache restored.
TickStarts ==
    /\ "scan" \in queued
    /\ TickTo("idle", "watch")
    /\ queued' = queued \ {"scan"}
    /\ \/ CallAnswers /\ reported' = (marker # "fresh")
       \/ CallFails /\ reported' = FALSE
    /\ UNCHANGED <<age, marker>>
    /\ NotBeat

\* Every tool failed, or the kill switch is set: the tick ends at once.
TickAborts ==
    /\ "scan" \in queued /\ tpc = "idle"
    /\ queued' = queued \ {"scan"}
    /\ CallFails
    /\ UNCHANGED <<age, tpc, marker, reported>>
    /\ NotBeat

\* watch_heartbeat_channel.
Watch ==
    /\ TickTo("watch", "exit")
    /\ \/ CallAnswers /\ IF Alive("beat") THEN NothingListed ELSE Listed("beat")
       \/ CallFails /\ (NothingListed \/ Listed("beat"))
    /\ reported' = FALSE
    /\ UNCHANGED marker
    /\ NotBeat

\* The marker that write_heartbeat wrote reaches the cache when the job succeeds.
TickSucceeds ==
    /\ TickTo("exit", "idle")
    /\ marker' = "fresh"
    /\ UNCHANGED <<age, queued, reported, healthFaults>>
    /\ NotBeat

\* One of the hard exits, or an error behind them.
TickEndsRed ==
    /\ TickTo("exit", "idle")
    /\ UNCHANGED <<age, queued, marker, reported, healthFaults>>
    /\ NotBeat

TickDies ==
    /\ tpc # "idle" /\ tpc' = "idle"
    /\ CallFails
    /\ reported' = FALSE
    /\ UNCHANGED <<age, queued, marker>>
    /\ NotBeat

(***************************************************************************)
(* The specification.                                                      *)
(***************************************************************************)
BeatStep ==
    \/ BeatStarts \/ ProbeScanner \/ DispatchScanner \/ CheckCoverage
    \/ ListAlerts \/ CloseAlert \/ ResolveDone
    \/ NoNewAlert \/ NeedsAlert \/ CreateAlert

ScannerStep == TickStarts \/ TickAborts \/ Watch \/ TickSucceeds \/ TickEndsRed

TimePasses == MarkerGrowsOld \/ \E w \in Workflows : GrowsStale(w)

HealthStep ==
    \/ \E w \in Workflows : CronFires(w)
    \/ TimePasses
    \/ CoverageChanges
    \/ \E n \in DOMAIN alerts : UserClosesAlert(n)
    \/ BeatStep \/ BeatDies
    \/ ScannerStep \/ TickDies

HealthNext == HealthStep /\ Remember

\* A pending job starts and a job runs to its end; hours pass although jobs run
\* now and then.  Nothing is assumed of the schedules.
HealthFairness ==
    /\ WF_healthVars(BeatStep /\ Remember) /\ WF_healthVars(ScannerStep /\ Remember)
    /\ SF_healthVars(MarkerGrowsOld /\ Remember)
    /\ \A w \in Workflows : SF_healthVars(GrowsStale(w) /\ Remember)

HealthSpec == HealthInit /\ [][HealthNext]_healthVars /\ HealthFairness

(***************************************************************************)
(* Properties.                                                             *)
(***************************************************************************)
HealthTypeOK ==
    /\ age \in [Workflows -> Age]
    /\ queued \subseteq Workflows
    /\ uncovered \in BOOLEAN
    /\ alerts \in Seq(Alert)
    /\ hpc \in {"idle", "probe", "dispatch", "coverage", "alerts", "resolve", "decide", "create"}
    /\ beat \in [alive : BOOLEAN, severe : BOOLEAN, accepted : BOOLEAN, missing : BOOLEAN,
                 visit : SUBSET (1 .. Len(alerts))]
    /\ tpc \in {"idle", "watch", "exit"}
    /\ marker \in {"fresh", "old"}
    /\ reported \in BOOLEAN
    /\ healthFaults \in 0 .. MaxHealthFaults
    /\ lasting \subseteq Anomalies

\* An alert the heartbeat closes records nothing that has been wrong all the
\* time since the job began: at some moment of this very job a run of the
\* scanner was listed, or none of the newest issues lacked its pull request.
\* Neither a failing probe, a refused dispatch nor a query without an answer
\* closes one.  What becomes wrong again between the check and the close, and
\* an issue that merely leaves the window of the check, do not keep it open.
ClosedOnRecovery ==
    [][(hpc = "resolve" /\ Len(alerts') < Len(alerts)) =>
          \A n \in beat.visit \ beat'.visit : alerts[n].recorded \cap lasting = {}]_healthVars

\* However many slots GitHub drops, as long as one of the two schedules fires
\* now and then both jobs run for ever, red ticks included (INFRA-578, INFRA-588).
MutualHealing ==
    (\E w \in Workflows : []<><<CronFires(w)>>_healthVars) =>
        []<>(hpc = "probe") /\ []<>(tpc = "watch")

\* A scanner that keeps starting and does not complete a tick any more reports
\* it: the run history calls it alive, and only the marker tells (INFRA-204).
DeadTicksReported ==
    ([]<>(tpc = "watch") /\ <>[][~TickSucceeds]_healthVars) =>
        <>[](tpc = "watch" => reported)
=============================================================================
