--------------------------- MODULE ErrorPatterns ---------------------------
(***************************************************************************)
(* src/infra_core/packs/memory/error_patterns.py: runs of the detector scan  *)
(* the error logs of a project and rewrite memory/kb/patterns/registry.jsonl;*)
(* a person resolves patterns through the same file.  Neither locks it: both *)
(* read it, open it for writing (which truncates it) and write it whole.     *)
(***************************************************************************)
EXTENDS Naturals, FiniteSets

CONSTANTS
    Entries,        \* the lines the error logs may hold
    Pattern,        \* the fingerprint of a line
    TestArtifact,   \* the lines of manual testing
    Jobs            \* processes: runs of the detector and resolve commands

Fingerprints == {Pattern[e] : e \in Entries}

ASSUME PatternConstants ==
    /\ IsFiniteSet(Entries)
    /\ TestArtifact \subseteq Entries

VARIABLES
    log,            \* the lines in the error logs
    registry,       \* the registry, by fingerprint
    jpc,            \* where each job is
    base,           \* the registry a job read
    mine,           \* what a run detected, and after that what a job writes
    chosen,         \* the fingerprints a resolve command matched
    resolvedOnce,   \* the fingerprints reported to a user as resolved
    raced,          \* a job wrote over what another wrote since it read or truncated
    cut             \* a job died between truncating and writing, or could not write

patVars == <<log, registry, jpc, base, mine, chosen, resolvedOnce, raced, cut>>

Status == {"absent", "detected", "resolved"}
NoRegistry == [f \in Fingerprints |-> "absent"]

PatInit ==
    /\ log \in SUBSET Entries
    /\ registry = NoRegistry
    /\ jpc = [j \in Jobs |-> "idle"]
    /\ base = [j \in Jobs |-> NoRegistry]
    /\ mine = [j \in Jobs |-> NoRegistry]
    /\ chosen = [j \in Jobs |-> {}]
    /\ resolvedOnce = {}
    /\ raced = FALSE /\ cut = FALSE

\* group_by_fingerprint over the lines that _is_test_artifact lets through.
Detect(L) ==
    [f \in Fingerprints |->
        IF \E e \in L \ TestArtifact : Pattern[e] = f THEN "detected" ELSE "absent"]

\* Variant: a resolution is carried over only while its pattern is detected.
MergePatternsDetected(detected, existing) ==
    [f \in Fingerprints |->
        IF existing[f] = "resolved" /\ detected[f] # "absent" THEN "resolved" ELSE detected[f]]

\* A resolution outlives a new occurrence of its pattern and the pattern's
\* disappearance; anything else that is not detected any more is dropped.
MergePatterns(detected, existing) ==
    [f \in Fingerprints |->
        IF existing[f] = "resolved" THEN "resolved" ELSE detected[f]]

Resolve(F, existing) ==
    [f \in Fingerprints |-> IF f \in F THEN "resolved" ELSE existing[f]]

Goes(j, from, to) == jpc[j] = from /\ jpc' = [jpc EXCEPT ![j] = to]

\* Tools append to the logs and rotate them away.
LogChanges(L) ==
    /\ L # log
    /\ L \subseteq log \/ log \subseteq L
    /\ log' = L
    /\ UNCHANGED <<registry, jpc, base, mine, chosen, resolvedOnce, raced, cut>>

\* run_pipeline scans the logs and then reads the registry.
RunScan(j) ==
    /\ Goes(j, "idle", "scanned")
    /\ mine' = [mine EXCEPT ![j] = Detect(log)]
    /\ UNCHANGED <<log, registry, base, chosen, resolvedOnce, raced, cut>>

RunRead(j) ==
    /\ Goes(j, "scanned", "truncate")
    /\ base' = [base EXCEPT ![j] = registry]
    /\ mine' = [mine EXCEPT ![j] = MergePatterns(@, registry)]
    /\ UNCHANGED <<log, registry, chosen, resolvedOnce, raced, cut>>

\* resolve_patterns, for a fingerprint or for a type; without a match it ends.
ResolveRead(j, F) ==
    /\ F # {} /\ F \subseteq {f \in Fingerprints : registry[f] # "absent"}
    /\ Goes(j, "idle", "truncate")
    /\ base' = [base EXCEPT ![j] = registry]
    /\ mine' = [mine EXCEPT ![j] = Resolve(F, registry)]
    /\ chosen' = [chosen EXCEPT ![j] = F]
    /\ UNCHANGED <<log, registry, resolvedOnce, raced, cut>>

\* write_registry: open("w") truncates, and the text arrives later.
Truncate(j) ==
    /\ Goes(j, "truncate", "write")
    /\ registry' = NoRegistry
    /\ raced' = (raced \/ registry # base[j])
    /\ UNCHANGED <<log, base, mine, chosen, resolvedOnce, cut>>

Finished(j) ==
    /\ base' = [base EXCEPT ![j] = NoRegistry]
    /\ mine' = [mine EXCEPT ![j] = NoRegistry]
    /\ chosen' = [chosen EXCEPT ![j] = {}]

\* Of a longer text that another job wrote into the same file meanwhile, the
\* last lines stay, and the last line of a fingerprint counts.
Write(j) ==
    /\ Goes(j, "write", "idle")
    /\ \E F \in SUBSET {f \in Fingerprints : registry[f] # "absent"} :
          registry' = [f \in Fingerprints |-> IF f \in F THEN registry[f] ELSE mine[j][f]]
    /\ raced' = (raced \/ registry # NoRegistry)
    /\ resolvedOnce' = resolvedOnce \cup chosen[j]
    /\ Finished(j)
    /\ UNCHANGED <<log, cut>>

\* A failing write is swallowed by run_pipeline: the file stays truncated.
JobDies(j) ==
    /\ jpc[j] # "idle"
    /\ jpc' = [jpc EXCEPT ![j] = "idle"]
    /\ cut' = (cut \/ jpc[j] = "write")
    /\ Finished(j)
    /\ UNCHANGED <<log, registry, resolvedOnce, raced>>

PatNext ==
    \/ \E L \in SUBSET Entries : LogChanges(L)
    \/ \E j \in Jobs :
          \/ RunScan(j) \/ RunRead(j)
          \/ \E F \in SUBSET Fingerprints : ResolveRead(j, F)
          \/ Truncate(j) \/ Write(j) \/ JobDies(j)

PatSpec == PatInit /\ [][PatNext]_patVars

PatTypeOK ==
    /\ log \subseteq Entries
    /\ registry \in [Fingerprints -> Status]
    /\ jpc \in [Jobs -> {"idle", "scanned", "truncate", "write"}]
    /\ base \in [Jobs -> [Fingerprints -> Status]]
    /\ mine \in [Jobs -> [Fingerprints -> Status]]
    /\ chosen \in [Jobs -> SUBSET Fingerprints]
    /\ resolvedOnce \subseteq Fingerprints
    /\ raced \in BOOLEAN /\ cut \in BOOLEAN

\* What a user resolved stays resolved, through new occurrences of the pattern,
\* its disappearance and its return, unless a job rewrote a registry that had
\* changed since it read it, or was cut off while it wrote (merge_patterns, the
\* durability of INFRA-184 and INFRA-186).
ResolutionSurvives ==
    (\A j \in Jobs : jpc[j] # "write") =>
        \/ raced \/ cut
        \/ \A f \in resolvedOnce : registry[f] = "resolved"
=============================================================================
