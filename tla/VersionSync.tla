---------------------------- MODULE VersionSync ----------------------------
(***************************************************************************)
(* src/infra_core/engine/version_sync.py: session-start probes, the cli and *)
(* the sweep over all known projects bring the memory version recorded in   *)
(* ownership.toml, memory.lock and adapter.toml of one project to the       *)
(* version each of them was given.  The files are patched one by one under  *)
(* .sync.lock, a file created with O_EXCL, removed by name, and broken when *)
(* it is older than SYNC_LOCK_STALE_SECONDS.                                *)
(***************************************************************************)
EXTENDS Naturals, FiniteSets

CONSTANTS
    Syncs,          \* the processes, each of which syncs once
    Versions,       \* a set of naturals, ordered as packaging.version orders
    Major,          \* the major number of a version
    NoFile          \* a file that is missing or has no version field

VersionFiles == {"ownership", "lock", "adapter"}

ASSUME SyncConstants ==
    /\ Versions \subseteq Nat
    /\ Major \in [Versions -> Nat]
    /\ NoFile \notin Versions
    /\ "none" \notin Syncs

VARIABLES
    version,        \* the version each file records
    schemaChanged,  \* memory.lock names a schema other than canonical_schema
    synclock,       \* .sync.lock: its creator, or "none"
    stale,          \* it is older than SYNC_LOCK_STALE_SECONDS
    spc,            \* where each process is
    target,         \* target_version of each process
    seen,           \* current_version each process read before it locked
    broken,         \* a stale lock was unlinked
    torn            \* a process died between two patches or a patch failed

syncVars == <<version, schemaChanged, synclock, stale, spc, target, seen, broken, torn>>

Critical == {"recheck", "ownership", "lock", "adapter", "resign", "release"}
SyncPC == {"start", "gate", "acquire", "break", "done"} \cup Critical

\* Every file that exists records one version at the start.
SyncInit ==
    /\ \E v \in Versions : version \in [VersionFiles -> {v, NoFile}]
    /\ schemaChanged \in BOOLEAN
    /\ synclock = "none" /\ stale = FALSE
    /\ spc = [p \in Syncs |-> "start"]
    /\ target \in [Syncs -> Versions]
    /\ seen = [p \in Syncs |-> NoFile]
    /\ broken = FALSE /\ torn = FALSE

Step(p, from, to) == spc[p] = from /\ spc' = [spc EXCEPT ![p] = to]

\* read_ownership_memory_version, before anything is locked.  A probe comes here
\* only when memory.lock records another version than its own.
ReadCurrent(p) ==
    /\ IF version["ownership"] \in {NoFile, target[p]}
       THEN Step(p, "start", "done")
       ELSE Step(p, "start", "gate")
    /\ seen' = [seen EXCEPT ![p] = version["ownership"]]
    /\ UNCHANGED <<version, schemaChanged, synclock, stale, target, broken, torn>>

ProbeUpToDate(p) ==
    /\ version["lock"] \in {NoFile, target[p]}
    /\ Step(p, "start", "done")
    /\ UNCHANGED <<version, schemaChanged, synclock, stale, target, seen, broken, torn>>

\* Variant: the gate lets an older version in.
AllowedDowngrade(current, wanted) ==
    /\ ~(schemaChanged /\ version["lock"] # NoFile)
    /\ Major[wanted] <= Major[current]

\* _gate_version_bump.
Allowed(current, wanted) ==
    /\ ~(schemaChanged /\ version["lock"] # NoFile)
    /\ Major[wanted] <= Major[current]
    /\ wanted >= current

Gate(p) ==
    /\ Step(p, "gate", IF Allowed(seen[p], target[p]) THEN "acquire" ELSE "done")
    /\ UNCHANGED <<version, schemaChanged, synclock, stale, target, seen, broken, torn>>

\* Variant: the lock file is opened without O_EXCL.
CreateShared(p) ==
    /\ Step(p, "acquire", "recheck")
    /\ synclock' = p /\ stale' = FALSE
    /\ UNCHANGED <<version, schemaChanged, target, seen, broken, torn>>

\* _sync_lock.
Create(p) ==
    /\ synclock = "none"
    /\ Step(p, "acquire", "recheck")
    /\ synclock' = p /\ stale' = FALSE
    /\ UNCHANGED <<version, schemaChanged, target, seen, broken, torn>>

SeesStale(p) ==
    /\ synclock # "none" /\ stale
    /\ Step(p, "acquire", "break")
    /\ UNCHANGED <<version, schemaChanged, synclock, stale, target, seen, broken, torn>>

\* It unlinks whatever has the name by now.
BreakLock(p) ==
    /\ Step(p, "break", "acquire")
    /\ synclock' = "none" /\ stale' = FALSE
    /\ broken' = TRUE
    /\ UNCHANGED <<version, schemaChanged, target, seen, torn>>

\* The budget of SYNC_LOCK_WAIT_SECONDS is spent, or the directory is missing.
GiveUp(p) ==
    /\ synclock # "none" /\ ~stale
    /\ Step(p, "acquire", "done")
    /\ UNCHANGED <<version, schemaChanged, synclock, stale, target, seen, broken, torn>>

\* _patch_three_files_under_lock.
Recheck(p) ==
    /\ Step(p, "recheck", IF version["ownership"] \in {NoFile, seen[p]}
                          THEN "ownership" ELSE "release")
    /\ UNCHANGED <<version, schemaChanged, synclock, stale, target, seen, broken, torn>>

After(f) == CASE f = "ownership" -> "lock" [] f = "lock" -> "adapter" [] f = "adapter" -> "resign"

\* A missing file, or one without the field, is skipped.
Patch(p, f) ==
    /\ Step(p, f, After(f))
    /\ version' = [version EXCEPT ![f] = IF @ = NoFile THEN @ ELSE target[p]]
    /\ UNCHANGED <<schemaChanged, synclock, stale, target, seen, broken, torn>>

\* An OSError is recorded, and the next file is patched all the same.
PatchFails(p, f) ==
    /\ Step(p, f, After(f))
    /\ torn' = TRUE
    /\ UNCHANGED <<version, schemaChanged, synclock, stale, target, seen, broken>>

\* The hook may fail: its result is only reported.
Resign(p) ==
    /\ Step(p, "resign", "release")
    /\ UNCHANGED <<version, schemaChanged, synclock, stale, target, seen, broken, torn>>

\* By name again: the lock may be another process's by now.
Release(p) ==
    /\ Step(p, "release", "done")
    /\ synclock' = "none" /\ stale' = FALSE
    /\ UNCHANGED <<version, schemaChanged, target, seen, broken, torn>>

\* Between two patches a death leaves the files apart.
Dies(p) ==
    /\ spc[p] # "done"
    /\ spc' = [spc EXCEPT ![p] = "done"]
    /\ torn' = (torn \/ spc[p] \in {"lock", "adapter"})
    /\ UNCHANGED <<version, schemaChanged, synclock, stale, target, seen, broken>>

\* Ten seconds pass, whether or not the holder still lives.
LockGrowsStale ==
    /\ synclock # "none" /\ ~stale
    /\ stale' = TRUE
    /\ UNCHANGED <<version, schemaChanged, synclock, spc, target, seen, broken, torn>>

SyncNext ==
    \/ \E p \in Syncs :
          \/ ReadCurrent(p) \/ ProbeUpToDate(p) \/ Gate(p)
          \/ Create(p) \/ SeesStale(p) \/ BreakLock(p) \/ GiveUp(p)
          \/ Recheck(p)
          \/ \E f \in VersionFiles : Patch(p, f) \/ PatchFails(p, f)
          \/ Resign(p) \/ Release(p) \/ Dies(p)
    \/ LockGrowsStale

SyncSpec == SyncInit /\ [][SyncNext]_syncVars

(***************************************************************************)
(* Properties.                                                             *)
(***************************************************************************)
SyncTypeOK ==
    /\ version \in [VersionFiles -> Versions \cup {NoFile}]
    /\ schemaChanged \in BOOLEAN
    /\ synclock \in Syncs \cup {"none"}
    /\ stale \in BOOLEAN
    /\ spc \in [Syncs -> SyncPC]
    /\ target \in [Syncs -> Versions]
    /\ seen \in [Syncs -> Versions \cup {NoFile}]
    /\ broken \in BOOLEAN /\ torn \in BOOLEAN

\* No file's version ever goes back or crosses a major number, whichever
\* processes with whichever targets overlap, as long as no stale lock was broken
\* and no sync was torn: the gate looks at ownership.toml only, and before the
\* lock is taken.
NeverDowngraded ==
    [][\A f \in VersionFiles :
          version'[f] # version[f] =>
              \/ broken \/ torn
              \/ version'[f] >= version[f] /\ Major[version'[f]] <= Major[version[f]]]_syncVars

\* Outside the critical section the files agree, unless a lock was broken, a
\* process died between two patches, or a patch failed.
FilesAgree ==
    (\A p \in Syncs : spc[p] \notin Critical) =>
        \/ broken \/ torn
        \/ \A f, g \in VersionFiles : version[f] # NoFile /\ version[g] # NoFile =>
                                   version[f] = version[g]
=============================================================================
