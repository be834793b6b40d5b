------------------------------ MODULE MCEngine ------------------------------
(***************************************************************************)
(* Small instances of the modules of the engine and the memory pack, side by *)
(* side: every behaviour runs one part and leaves the others alone.          *)
(***************************************************************************)
EXTENDS EvolutionScanner, PipelineHealth, VersionSync, DailyAudit, LayoutAudit,
        ErrorPatterns, DroidReview, TLC

VARIABLE part

engineVars == <<part, vars, healthVars, syncVars, auditVars, layoutVars, patVars, reviewVars>>

(***************************************************************************)
(* The scanner: two findings of the consistency tool, one of the self-audit. *)
(***************************************************************************)
MCKeys == {"a", "b", "c"}
MCOrder == <<"a", "b", "c">>
MCCategory == ("a" :> "consistency") @@ ("b" :> "consistency") @@ ("c" :> "evolution_self_audit")
MCSeverity == ("a" :> "info") @@ ("b" :> "warning") @@ ("c" :> "critical")
MCQuota == [p \in Pools |-> 1]

\* A repository with a past: both issues were closed on merged fixes long ago,
\* and one resolved entry may have reached its reopen limit.
ClosedLongAgo(k) == [NewIssue(k, "merged") EXCEPT !.open = FALSE]

Fresh ==
    \/ Init /\ present = {"a", "c"}
    \/ /\ present = {"a", "b"} /\ moves = MaxMoves
       /\ issues = <<>> /\ cache = NoHistory /\ hist = NoHistory
       /\ pc = "idle" /\ tick = Idle
       /\ unseen = [k \in Keys |-> 0] /\ spam = 0 /\ faults = 0

Aged ==
    /\ present \in SUBSET {"a", "b"}
    /\ \E n \in 0 .. ReopenLimit :
          cache = [snapshots |-> <<{}, {}>>,
                   resolved |-> <<[key |-> "a", reopens |-> n], [key |-> "b", reopens |-> 0]>>]
    /\ issues = <<ClosedLongAgo("a"), ClosedLongAgo("b")>>
    /\ unseen = [k \in Keys |-> Grace]
    /\ hist = NoHistory /\ pc = "idle" /\ tick = Idle
    /\ spam = 0
    /\ \/ moves = MaxMoves /\ faults = 0
       \/ present = {} /\ moves = 0 /\ faults = MaxFaults

TickInit == Fresh \/ Aged

(***************************************************************************)
(* The other parts.                                                        *)
(***************************************************************************)
MCMajor == [v \in Versions |-> IF v = 4 THEN 2 ELSE 1]

\* The files start at the lowest version, and the processes are alike.
SomeSyncs ==
    /\ \E missing \in {{}, {"ownership"}, {"adapter"}} :
          version = [f \in VersionFiles |-> IF f \in missing THEN NoFile ELSE 1]
    /\ target \in [Syncs -> Versions] /\ target["p1"] <= target["p2"]

MCRoots == <<"/a", "/b">>
MCServers == <<"s1", "s2">>
MCDatabases == <<"d1">>
MCNameOf == ("/a" :> "app") @@ ("/b" :> "app") @@ ("s1" :> "web") @@ ("s2" :> "web")
              @@ ("d1" :> "db")
MCThreshold == [warn |-> 80, crit |-> 90]

File(dir, name, bytes, entry, global) ==
    [dir |-> dir, name |-> name, bytes |-> bytes, entry |-> entry, global |-> global]
Recorded(lock, others) ==
    [l \in {"memory.lock", "adapter.toml", "ownership.toml"} |->
        IF l = "memory.lock" THEN lock ELSE others]
ProjectAt(at, signed, files, versions) ==
    [at |-> at, manifest |-> signed, files |-> files, versions |-> versions]
Healthy == ProjectAt("project", "entries",
                     {File("kb", "md", "readable", "match", FALSE),
                      File("kb", "index", "readable", "none", FALSE)}, Recorded("v1", "v1"))
MCProjectFacts ==
    {Healthy,
     ProjectAt("nothing", "absent", {}, Recorded("none", "none")),
     ProjectAt("source_repo", "absent", {}, Recorded("v1", "v1")),
     ProjectAt("project", "absent", {}, Recorded("v1", "v1")),
     ProjectAt("project", "entries", {}, Recorded("v2", "v1")),
     [Healthy EXCEPT !.files = {File("kb", "md", "readable", "differs", FALSE)}],
     [Healthy EXCEPT !.files = {File("lessons", "index", "missing", "match", FALSE)}],
     [Healthy EXCEPT !.files = {File("elsewhere", "database", "readable", "none", FALSE)}],
     [Healthy EXCEPT !.files = {File("lessons", "md", "readable", "none", TRUE),
                                File("excluded", "database", "readable", "none", FALSE)}]}

Answers(ssh, container, service, disk, used, port, http) ==
    [ssh |-> ssh, container |-> container, service |-> service, disk |-> disk,
     used |-> used, port |-> port, http |-> http]
Up == Answers("ok", "running", "running", "matched", 50, "open", "ok")
MCServerFacts ==
    {Up,
     Answers("ok", "query_fails", "not_found", "df_fails", 50, "open", "ok"),
     Answers("unreachable", "absent", "failed", "matched", 95, "open", "ok"),
     Answers("ok", "unhealthy", "running", "plain_path", 95, "open", "other_status"),
     Answers("ok", "running", "running", "matched", 85, "closed", "timeout")}

\* Either the projects or the machines have problems.
SomeFacts ==
    \/ \A x \in SeqElements(Roots) : project[x] = Healthy
    \/ /\ \A x \in SeqElements(Servers) : server[x] = Up
       /\ \A x \in SeqElements(Databases) : database[x] = "open"

MCPattern == ("e1" :> "x") @@ ("e2" :> "y")

MCPathOrder == <<"a1", "b1", "a2", "a3">>
MCDir == [f \in {"a1", "a2", "a3", "b1"} |-> IF f = "b1" THEN "b" ELSE "a"]
MCLineOf == ("r1" :> 1) @@ ("r2" :> 1) @@ ("r3" :> 2)

\* At most one thing in the root, or two without documents, and few combinations
\* of the documents.
SmallLayouts ==
    /\ \/ Cardinality(tree) <= 1
       \/ Cardinality(tree) = 2 /\ agents = "none" /\ manifest = "none" /\ ownership = "none"
    /\ <<agents, index>> \in {<<"none", "none">>, <<"marked", "business">>,
                              <<"unmarked", "none">>, <<"unrelated", "memory">>}
    /\ <<manifest, ownership>> \in {<<"none", "none">>, <<"invalid", "weakened">>,
                                    <<"runtime", "deleted">>, <<"clean", "whole">>,
                                    <<"none", "unparsable">>}
    /\ otherMd => tree = {}

(***************************************************************************)
(* One part of them runs.                                                  *)
(***************************************************************************)
Parts == {"tick", "health", "sync", "audit", "layout", "patterns", "review"}

\* A part that does not run has one initial state.
EngineInit ==
    /\ part \in Parts
    /\ IF part = "tick" THEN TickInit ELSE present = {} /\ Init
    /\ IF part = "health" THEN TRUE
       ELSE age = [w \in Workflows |-> "none"] /\ uncovered = FALSE /\ marker = "old"
    /\ HealthInit
    /\ IF part = "sync" THEN SomeSyncs
       ELSE /\ version = [f \in VersionFiles |-> NoFile] /\ schemaChanged = FALSE
            /\ target = [p \in Syncs |-> 1]
    /\ SyncInit
    /\ IF part = "audit" THEN TRUE
       ELSE /\ project = [x \in SeqElements(Roots) |-> Healthy]
            /\ server = [x \in SeqElements(Servers) |-> Up]
            /\ database = [x \in SeqElements(Databases) |-> "open"]
    /\ AuditInit /\ SomeFacts
    /\ IF part = "layout" THEN TRUE
       ELSE /\ tree = {} /\ otherMd = FALSE /\ agents = "none" /\ index = "none"
            /\ manifest = "none" /\ ownership = "none"
    /\ LayoutInit /\ SmallLayouts
    /\ IF part = "patterns" THEN TRUE ELSE log = {}
    /\ PatInit
    /\ ReviewInit

Rest(p) ==
    /\ part = p /\ UNCHANGED part
    /\ p # "tick" => UNCHANGED vars
    /\ p # "health" => UNCHANGED healthVars
    /\ p # "sync" => UNCHANGED syncVars
    /\ p # "audit" => UNCHANGED auditVars
    /\ p # "layout" => UNCHANGED layoutVars
    /\ p # "patterns" => UNCHANGED patVars
    /\ p # "review" => UNCHANGED reviewVars

\* Bound: a later review is of one file.
ShortSecondReview == reviews' > reviews /\ reviews > 0 => Len(changed') = 1

EngineNext ==
    \/ Rest("tick") /\ Next
    \/ Rest("health") /\ HealthNext
    \/ Rest("sync") /\ SyncNext
    \/ Rest("audit") /\ AuditNext
    \/ Rest("layout") /\ LayoutNext
    \/ Rest("patterns") /\ PatNext
    \/ Rest("review") /\ ReviewNext /\ ShortSecondReview

EngineFairness ==
    /\ WF_vars(part = "tick" /\ TickStep)
    /\ SF_vars(part = "tick" /\ \E i \in Ids : LeavesWindow(i))
    /\ WF_healthVars(part = "health" /\ BeatStep /\ Remember)
    /\ WF_healthVars(part = "health" /\ ScannerStep /\ Remember)
    /\ SF_healthVars(part = "health" /\ MarkerGrowsOld /\ Remember)
    /\ \A w \in Workflows : SF_healthVars(part = "health" /\ GrowsStale(w) /\ Remember)

EngineSpec == EngineInit /\ [][EngineNext]_engineVars /\ EngineFairness
=============================================================================
