----------------------------- MODULE DailyAudit -----------------------------
(***************************************************************************)
(* src/infra_core/packs/memory/daily_audit.py: one run of the daily audit.   *)
(* It checks the servers and databases of the inventory and every registered *)
(* project, collects violations by name, writes a report and exits with 1    *)
(* when it counted a critical one.  What is on the disks and on the network  *)
(* is chosen once; a check may raise at any time.                            *)
(***************************************************************************)
EXTENDS Naturals, Sequences, FiniteSets

CONSTANTS
    Roots,          \* the registered project paths, in the order of the index
    ProjectFacts,   \* what may be at such a path
    Servers,        \* the servers of the inventory, in order
    ServerFacts,
    Databases,      \* the databases of the inventory, in order
    NameOf,         \* the name of a root, a server or a database
    Threshold,      \* warn_pct and crit_pct
    Expected        \* the expected version, or "any"

VARIABLES
    project,        \* what is at each registered path
    server,         \* what each server answers
    database,       \* "open", "closed", or "odd" for another kind of check
    apc,            \* where the run is
    todo,           \* what is left of the current list
    infra,          \* the records of the servers and databases, by name
    results,        \* the records of the projects, by name
    raised,         \* the subjects of which a check raised or was left out
    exit            \* the exit code

auditVars == <<project, server, database, apc, todo, infra, results, raised, exit>>

SeqElements(s) == {s[n] : n \in DOMAIN s}

\* A file has no entry in the manifest, or one that its sha256 matches or not.
ASSUME AuditConstants ==
    /\ \A list \in {Roots, Servers, Databases} : list \in Seq(SeqElements(list))
    /\ \A p \in ProjectFacts : \A f \in p.files : f.entry \in {"none", "match", "differs"}

Violation(type, severity) == [type |-> type, severity |-> severity]
Critical1(type) == {Violation(type, "critical")}
Warning1(type) == {Violation(type, "warning")}
When(condition, violations) == IF condition THEN violations ELSE {}

(***************************************************************************)
(* The five checks of a project p.  A file is [dir, name, bytes, entry,     *)
(* global]: its place, the kind of its name, whether it is there and        *)
(* readable, its sha256 against the manifest, and whether its text is that   *)
(* of a file of the global knowledge base.                                  *)
(***************************************************************************)
HasEntries(p) == p.manifest = "entries"

ManifestIntegrity(p) ==
    LET Bad(f) == f.entry # "none" /\ (f.bytes # "readable" \/ f.entry = "differs")
    IN  When(~HasEntries(p) \/ \E f \in p.files : Bad(f), Critical1("hash_mismatch"))

InKb(f) == f.dir \in {"kb", "lessons"} /\ f.name \in {"md", "index"} /\ f.bytes # "missing"

\* INDEX.md and README.md need no signature at the top of memory/kb, and none
\* anywhere else exempts them.
UnsignedFiles(p) ==
    LET Unsigned(f) == /\ InKb(f)
                       /\ ~(f.dir = "kb" /\ f.name = "index")
                       /\ ~(HasEntries(p) /\ f.entry # "none")
    IN  When(\E f \in p.files : Unsigned(f), Warning1("unsigned_file"))

GlobalResidue(p) ==
    LET Copied(f) == /\ InKb(f) /\ f.dir = "lessons" /\ f.name = "md"
                     /\ f.bytes = "readable" /\ f.global
    IN  When(\E f \in p.files : Copied(f), Warning1("residue"))

\* Build output and caches are not searched; a small .sql is no dump.
LargeOrDbFiles(p) ==
    LET Dump(f) == /\ f.dir # "excluded" /\ f.bytes # "missing"
                   /\ f.name \in {"database", "big_sql"} \/ f.dir = "backups"
    IN  When(\E f \in p.files : Dump(f), Critical1("large_file"))

VersionConsistency(p) ==
    LET known == {l \in DOMAIN p.versions : p.versions[l] # "none"}
    IN  When(\/ known # DOMAIN p.versions
             \/ Expected # "any" /\ \E l \in known : p.versions[l] # Expected
             \/ \E l, m \in known : p.versions[l] # p.versions[m],
             Critical1("version_mismatch"))

\* audit_project, with the checks in R raising: _safe_check turns an exception
\* into a warning of the check's own type.
ProjectChecks == {"hash_mismatch", "unsigned_file", "residue", "large_file", "version_mismatch"}

Check(p, type) ==
    CASE type = "hash_mismatch"    -> ManifestIntegrity(p)
      [] type = "unsigned_file"    -> UnsignedFiles(p)
      [] type = "residue"          -> GlobalResidue(p)
      [] type = "large_file"       -> LargeOrDbFiles(p)
      [] type = "version_mismatch" -> VersionConsistency(p)

AuditProject(p, R) ==
    CASE p.at = "nothing"     -> Warning1("hash_mismatch")
      [] p.at = "source_repo" -> {}
      [] OTHER -> UNION {IF c \in R THEN Warning1(c) ELSE Check(p, c) : c \in ProjectChecks}

(***************************************************************************)
(* The checks of a server s and of a database.                             *)
(***************************************************************************)
Ssh(s) == When(s.ssh \in {"unreachable", "no_alias"}, Critical1("server_unreachable"))

\* When docker ps fails every expected container counts as down.
Docker(s) ==
    When(s.ssh = "ok" /\ s.container # "not_expected",
         When(s.container = "query_fails", Warning1("container_down"))
           \cup When(s.container \in {"query_fails", "absent"}, Critical1("container_down"))
           \cup When(s.container = "unhealthy", Warning1("container_down")))

SystemdServices(s) ==
    When(s.ssh = "ok",
         When(s.service \in {"query_fails", "not_printed", "not_found"}, Warning1("service_down"))
           \cup When(s.service \in {"failed", "exited"}, Critical1("service_down")))

\* A check written as a plain path matches no mount point.
DiskSpace(s) ==
    When(s.ssh = "ok" /\ s.disk # "not_expected",
         IF s.disk \in {"df_fails", "plain_path"} THEN Warning1("disk_full")
         ELSE When(s.used >= Threshold.crit, Critical1("disk_full"))
                \cup When(s.used >= Threshold.warn /\ s.used < Threshold.crit,
                          Warning1("disk_full")))

Ports(s) == When(s.port = "closed", Critical1("port_closed"))

HttpEndpoints(s) ==
    When(s.http \in {"timeout", "no_connection"}, Critical1("http_error"))
      \cup When(s.http = "other_status", Warning1("http_error"))

CheckServer(s) ==
    Ssh(s) \cup Docker(s) \cup SystemdServices(s) \cup DiskSpace(s) \cup Ports(s)
      \cup HttpEndpoints(s)

CheckDatabase(d) ==
    When(d = "odd", Warning1("db_unreachable")) \cup When(d = "closed", Critical1("db_unreachable"))

(***************************************************************************)
(* The run.                                                                *)
(***************************************************************************)
NoRecord == {}
Names(s) == {NameOf[x] : x \in SeqElements(s)}
NoInfra == [servers |-> [n \in Names(Servers) |-> NoRecord],
            databases |-> [n \in Names(Databases) |-> NoRecord]]

AuditInit ==
    /\ project \in [SeqElements(Roots) -> ProjectFacts]
    /\ server \in [SeqElements(Servers) -> ServerFacts]
    /\ database \in [SeqElements(Databases) -> {"open", "closed", "odd"}]
    /\ apc = "servers" /\ todo = Servers
    /\ infra = NoInfra
    /\ results = [n \in Names(Roots) |-> NoRecord]
    /\ raised = {}
    /\ exit = 0

Facts == <<project, server, database>>

\* A record takes the place of an earlier one of the same name.
AuditServer ==
    /\ apc = "servers" /\ todo # <<>>
    /\ infra' = [infra EXCEPT !.servers[NameOf[Head(todo)]] = CheckServer(server[Head(todo)])]
    /\ todo' = Tail(todo)
    /\ UNCHANGED <<Facts, apc, results, raised, exit>>

AuditDatabase ==
    /\ apc = "databases" /\ todo # <<>>
    /\ infra' = [infra EXCEPT !.databases[NameOf[Head(todo)]] = CheckDatabase(database[Head(todo)])]
    /\ todo' = Tail(todo)
    /\ UNCHANGED <<Facts, apc, results, raised, exit>>

NextList ==
    /\ todo = <<>>
    /\ \/ apc = "servers" /\ apc' = "databases" /\ todo' = Databases
       \/ apc = "databases" /\ apc' = "projects" /\ todo' = Roots
    /\ UNCHANGED <<Facts, infra, results, raised, exit>>

\* --no-infra, no readable inventory, or _run_infra_check swallows an exception:
\* the part of the report is gone.
InfraMissing ==
    /\ apc \in {"servers", "databases"}
    /\ raised' = raised \cup SeqElements(Servers) \cup SeqElements(Databases)
    /\ infra' = NoInfra
    /\ apc' = "projects" /\ todo' = Roots
    /\ UNCHANGED <<Facts, results, exit>>

AuditNextProject(R) ==
    /\ apc = "projects" /\ todo # <<>>
    /\ results' = [results EXCEPT ![NameOf[Head(todo)]] = AuditProject(project[Head(todo)], R)]
    /\ raised' = raised \cup When(R # {}, {Head(todo)})
    /\ todo' = Tail(todo)
    /\ UNCHANGED <<Facts, apc, infra, exit>>

\* _audit_all_projects: an exception outside the checks.
ProjectRaises ==
    /\ apc = "projects" /\ todo # <<>>
    /\ results' = [results EXCEPT ![NameOf[Head(todo)]] = Warning1("hash_mismatch")]
    /\ raised' = raised \cup {Head(todo)}
    /\ todo' = Tail(todo)
    /\ UNCHANGED <<Facts, apc, infra, exit>>

\* load_registered_projects returns nothing for an index that is missing or cannot
\* be parsed, and _handle_no_projects ends by the infrastructure alone.
IndexUnreadable ==
    /\ apc = "projects" /\ todo = Roots /\ todo # <<>>
    /\ raised' = raised \cup SeqElements(Roots)
    /\ todo' = <<>>
    /\ UNCHANGED <<Facts, apc, infra, results, exit>>

HasCritical(record) == \E v \in record : v.severity = "critical"
SomeCritical(records) == \E n \in DOMAIN records : HasCritical(records[n])
\* Variant: the databases are not counted.
CriticalServers == SomeCritical(infra.servers)

CriticalInfra == SomeCritical(infra.servers) \/ SomeCritical(infra.databases)

\* _summarize_to_console counts over the records; the report that could not be
\* written ends the run with a traceback, which is 1 as well.
Exit ==
    /\ apc = "projects" /\ todo = <<>>
    /\ apc' = "done"
    /\ exit' = IF SomeCritical(results) \/ CriticalInfra THEN 1 ELSE 0
    /\ UNCHANGED <<Facts, todo, infra, results, raised>>

AuditNext ==
    \/ AuditServer \/ AuditDatabase \/ NextList \/ InfraMissing
    \/ \E c \in ProjectChecks : AuditNextProject({c})
    \/ AuditNextProject({}) \/ AuditNextProject(ProjectChecks)
    \/ ProjectRaises \/ IndexUnreadable
    \/ Exit

AuditSpec == AuditInit /\ [][AuditNext]_auditVars

(***************************************************************************)
(* Properties.                                                             *)
(***************************************************************************)
\* Of several subjects with one name only the last one's record is kept.
Shadowed(list, x) ==
    \E m, n \in DOMAIN list : list[m] = x /\ m < n /\ NameOf[list[n]] = NameOf[x]

Broken(p) ==
    /\ p.at = "project"
    /\ \/ ~HasEntries(p)
       \/ \E f \in p.files : f.entry # "none" /\ <<f.bytes, f.entry>> # <<"readable", "match">>
       \/ \E f \in p.files : f.name = "database" /\ f.dir # "excluded" /\ f.bytes # "missing"
       \/ Cardinality({p.versions[l] : l \in DOMAIN p.versions}) > 1

\* The exit code is 0 only if no project lost its signatures, holds a database or
\* records differing versions, and no server or database is unreachable, or the
\* audit did not see it: its check raised, the inventory or the index of projects
\* could not be read, or a later subject has its name.
ExitTellsCritical ==
    (apc = "done" /\ exit = 0) =>
        /\ \A x \in SeqElements(Roots) :
              Broken(project[x]) => x \in raised \/ Shadowed(Roots, x)
        /\ \A x \in SeqElements(Servers) :
              server[x].ssh = "unreachable" \/ server[x].port = "closed" =>
                  x \in raised \/ Shadowed(Servers, x)
        /\ \A x \in SeqElements(Databases) :
              database[x] = "closed" => x \in raised \/ Shadowed(Databases, x)
=============================================================================
