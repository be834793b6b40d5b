---------------------------- MODULE LayoutAudit ----------------------------
(***************************************************************************)
(* src/infra_core/packs/memory/layout_audit.py: an audit of a project's      *)
(* directories lists findings, and a plan is made from the findings and from *)
(* a second look at the project, which others change meanwhile.              *)
(***************************************************************************)
EXTENDS Naturals, FiniteSets

CONSTANTS
    MaxEdits        \* bound: changes of the project between audit and plan

ASSUME LayoutConstants == MaxEdits \in Nat

\* What the audit looks for in the root of the project, by the kind it gives it.
RootStructures == {"dot_memory", "current_memory", "project_map"}
WorkspaceStructures == {"workspace_memory", "workspace_project_map"}
Structures == RootStructures \cup WorkspaceStructures
                \cup {"history_projects", "artifacts_memory_hook"}
\* The code compares paths: here a directory docs and a link doc, one path of each
\* kind, and a report that is Markdown, a dump that is JSON, a backup *.bak.
DocEntrypoints == {"root_docs_dir", "root_docs_symlink"}
Pollution == {"root_report", "root_dump", "root_backup"} \cup DocEntrypoints

VARIABLES
    tree,           \* the structures and the pollution there are
    otherMd,        \* a Markdown file in the root that no pattern names
    agents,         \* AGENTS.md: "none", "marked", "unmarked" or "unrelated"
    index,          \* INDEX.md: "none", "business" or "memory"
    manifest,       \* "none", "invalid", "runtime" or "clean"
    ownership,      \* ownership.toml: "none", "unparsable", "weakened", "deleted", "whole"
    lpc,            \* "start", "audited" or "planned"
    filter,         \* the severity filter of the audit
    findings,       \* the kinds of its findings
    plan,           \* the plan
    appeared        \* what appeared since the audit

layoutVars == <<tree, otherMd, agents, index, manifest, ownership, lpc, filter,
                findings, plan, appeared>>
onDisk == <<tree, otherMd, agents, index, manifest, ownership>>

NoPlan == [actions |-> {}, risk |-> "low", confirm |-> FALSE, backup |-> {},
           rollback |-> {}, together |-> {}]

\* The hook's artifacts are below memory/, and so are manifest and ownership.
WellFormedTree(t) ==
    /\ "artifacts_memory_hook" \in t => "current_memory" \in t
    /\ manifest # "none" \/ ownership # "none" => "current_memory" \in t

LayoutInit ==
    /\ tree \in SUBSET (Structures \cup Pollution)
    /\ otherMd \in BOOLEAN
    /\ agents \in {"none", "marked", "unmarked", "unrelated"}
    /\ index \in {"none", "business", "memory"}
    /\ manifest \in {"none", "invalid", "runtime", "clean"}
    /\ ownership \in {"none", "unparsable", "weakened", "deleted", "whole"}
    /\ WellFormedTree(tree)
    /\ lpc = "start" /\ filter = "P2"
    /\ findings = {} /\ plan = NoPlan /\ appeared = {}

(***************************************************************************)
(* The audit.                                                              *)
(***************************************************************************)
\* _check_multi_generation_conflict looks at the directories.
MultiGeneration ==
    /\ tree \cap {"current_memory", "project_map"} # {}
    /\ tree \cap WorkspaceStructures # {}

AgentsFinding ==
    CASE agents = "marked"   -> {"agents_md_marked"}
      [] agents = "unmarked" -> {"agents_md_unmarked"}
      [] OTHER               -> {}

IndexFinding == IF index = "business" THEN {"index_md_business"} ELSE {}

ManifestFinding ==
    CASE manifest = "invalid" -> {"manifest_invalid"}
      [] manifest = "runtime" -> {"manifest_includes_runtime"}
      [] OTHER                -> {}

\* An ownership.toml that cannot be parsed reports nothing.
OwnershipFinding ==
    CASE ownership = "none"     -> {"ownership_missing"}
      [] ownership = "weakened" -> {"domain_weakened"}
      [] ownership = "deleted"  -> {"domain_missing"}
      [] OTHER                  -> {}

P0 == {"dot_memory", "multi_generation_conflict", "domain_weakened", "domain_missing"}
P2 == {"root_backup", "manifest_includes_runtime", "agents_md_marked", "index_md_business"}
Level(kind) == CASE kind \in P0 -> "P0" [] kind \in P2 -> "P2" [] OTHER -> "P1"

AtLeast(f) == CASE f = "P0" -> {"P0"} [] f = "P1" -> {"P0", "P1"} [] f = "P2" -> {"P0", "P1", "P2"}

AllFindings ==
    tree \cup (IF MultiGeneration THEN {"multi_generation_conflict"} ELSE {})
      \cup ManifestFinding \cup AgentsFinding \cup IndexFinding \cup OwnershipFinding

\* audit_project_layout.
AuditLayout(f) ==
    /\ lpc = "start" /\ lpc' = "audited"
    /\ filter' = f
    /\ findings' = {k \in AllFindings : Level(k) \in AtLeast(f)}
    /\ UNCHANGED <<onDisk, plan, appeared>>

\* Someone adds a report, a docs directory or a workspace meanwhile, or cleans up.
Edit(x) ==
    /\ lpc = "audited"
    /\ Cardinality(appeared) < MaxEdits
    /\ tree' = IF x \in tree THEN tree \ {x} ELSE tree \cup {x}
    /\ WellFormedTree(tree')
    /\ appeared' = appeared \cup {x}
    /\ UNCHANGED <<otherMd, agents, index, manifest, ownership, lpc, filter, findings, plan>>

(***************************************************************************)
(* The plan.                                                               *)
(***************************************************************************)
MovedKinds == {"root_report", "root_dump", "root_docs_dir", "root_docs_symlink"}

\* _determine_action.
DetermineAction(kind) ==
    CASE kind \in RootStructures \cup {"agents_md_marked", "index_md_business"}
                                      -> "adopt_existing_memory"
      [] kind \in WorkspaceStructures \cup {"history_projects"} -> "mark_legacy_readonly"
      [] kind \in {"artifacts_memory_hook", "manifest_includes_runtime", "root_backup"}
                                      -> "ignore_runtime_artifact"
      [] kind \in MovedKinds          -> "move_root_pollution"
      [] OTHER                        -> "manual_decision_required"

\* _scan_root_pollution looks at the root again, for what has no finding: a report
\* without one, filtered out or new, is only a Markdown file it does not know.
SecondLook ==
    ((tree \cap DocEntrypoints) \ findings)
      \cup (IF otherMd \/ "root_report" \in tree \ findings THEN {"unknown_md_file"} ELSE {})

RootVsWorkspace ==
    findings \cap RootStructures # {} /\ findings \cap WorkspaceStructures # {}

RiskLevel ==
    IF RootVsWorkspace \/ "multi_generation_conflict" \in findings THEN "critical"
    ELSE IF \E k \in findings : Level(k) = "P1" THEN "high"
    ELSE IF \E k \in findings : Level(k) = "P2" THEN "medium"
    ELSE "low"

RequiresConfirmation ==
    \/ RootVsWorkspace
    \/ findings \cap ({"multi_generation_conflict", "agents_md_unmarked"} \cup WorkspaceStructures) # {}

\* The lists name a kind "legacy_memory" that no check reports any more.
BackupPlan == findings \cap {"dot_memory", "legacy_memory", "project_map", "agents_md_marked",
                             "agents_md_unmarked", "index_md_business"}

\* Variant: only files are moved back.
RollbackPlanFiles == findings \cap ({"dot_memory"} \cup (MovedKinds \ DocEntrypoints))

RollbackPlan == findings \cap ({"dot_memory"} \cup MovedKinds)

CommitTogether ==
    {g \in {findings \cap {"dot_memory", "legacy_memory", "workspace_memory"},
            findings \cap {"agents_md_marked", "agents_md_unmarked", "index_md_business"}} :
        Cardinality(g) > 1}

\* plan_residue_migration.
MakePlan ==
    /\ lpc = "audited" /\ lpc' = "planned"
    /\ plan' = [actions |-> {[kind |-> k, action |-> DetermineAction(k)] :
                                 k \in findings \cup SecondLook},
                risk |-> RiskLevel, confirm |-> RequiresConfirmation,
                backup |-> BackupPlan, rollback |-> RollbackPlan,
                together |-> CommitTogether]
    /\ UNCHANGED <<onDisk, filter, findings, appeared>>

LayoutNext ==
    \/ \E f \in {"P0", "P1", "P2"} : AuditLayout(f)
    \/ \E x \in Structures \cup Pollution : Edit(x)
    \/ MakePlan

LayoutSpec == LayoutInit /\ [][LayoutNext]_layoutVars

(***************************************************************************)
(* Properties.                                                             *)
(***************************************************************************)
Planned(action) == {a.kind : a \in {b \in plan.actions : b.action = action}}

\* A plan for a project nobody touched since its audit, filtered at P1 or not at
\* all, asks for a human when both generations of memory exist; and whatever
\* happened, what it moves it can move back unless the audit did not see it, and
\* the documents and the .memory directory that it adopts are backed up.
PlanIsSafe ==
    lpc = "planned" =>
        /\ (appeared = {} /\ filter # "P0" /\ tree \cap RootStructures # {}
              /\ tree \cap WorkspaceStructures # {}) =>
                 plan.confirm /\ plan.risk = "critical"
        /\ \A k \in Planned("move_root_pollution") :
              k \in plan.rollback \/ k \in appeared \/ filter = "P0"
        /\ \A k \in Planned("adopt_existing_memory") \ {"current_memory"} : k \in plan.backup
        /\ \A g \in plan.together : g \cap plan.backup # {}
=============================================================================
