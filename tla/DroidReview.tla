---------------------------- MODULE DroidReview ----------------------------
(***************************************************************************)
(* src/infra_core/engine/droid_review and its workflow: a review of a pull  *)
(* request is planned into shards (plan_shards.py), every shard is reviewed *)
(* by a droid (run_shard.sh), and if all shards succeed their findings are  *)
(* published as inline comments and one summary (publish_findings.py).  A   *)
(* push or a rerun starts the next review of the same pull request.         *)
(***************************************************************************)
EXTENDS Naturals, Sequences, FiniteSets, Lists

CONSTANTS
    PathOrder,      \* a sequence of all paths: the order the API lists them
    Dir,            \* the parent directory of a path
    Remarks,        \* what a droid may report: a file, a line and a message
    LineOf,         \* the file and line of a remark
    MaxFiles,       \* SHARD_MAX_FILES
    InlineBatch,    \* inline comments per publication (50 in the code)
    PerShard,       \* findings a summary details per shard (20 in the code)
    MaxReviews,     \* bound: reviews of the pull request
    MaxReviewFaults \* bound: listings of comments that fail

Paths == Elements(PathOrder)
FileList == Seq(Paths)

ASSUME ReviewConstants ==
    /\ IsFiniteSet(Remarks)
    /\ PathOrder \in Seq(Paths) /\ Distinct(PathOrder)
    /\ MaxFiles \in Nat \ {0} /\ InlineBatch \in Nat /\ PerShard \in Nat
    /\ MaxReviews \in Nat /\ MaxReviewFaults \in Nat

VARIABLES
    changed,        \* the changed files, in the order the API lists them
    shards,         \* the planned shards
    stage,          \* where the workflow is
    reports,        \* by shard: the remarks of its droid, once it succeeded
    unique,         \* the findings after deduplication
    untried,        \* those the inline loop has not reached
    failedInline,   \* those whose inline comment failed
    inline,         \* the inline comments on the pull request
    summary,        \* what its summary comments detail
    summaries,      \* how many of them there are
    reviews, reviewFaults

reviewVars == <<changed, shards, stage, reports, unique, untried, failedInline,
                inline, summary, summaries, reviews, reviewFaults>>
onGitHub == <<inline, summary, summaries>>

ReviewInit ==
    /\ changed = <<>> /\ shards = <<>>
    /\ stage = "idle"
    /\ reports = <<>>
    /\ unique = {} /\ untried = {} /\ failedInline = {}
    /\ inline = {} /\ summary = {} /\ summaries = 0
    /\ reviews = 0 /\ reviewFaults = 0

(***************************************************************************)
(* plan_shards: group by directory, cut into chunks, pack first-fit.       *)
(***************************************************************************)
InDir(files, d) == Select(files, {f \in Paths : Dir[f] = d})

\* A chunk begins when the one before it has MaxFiles.
AddFile(chunks, f) ==
    IF chunks = <<>> \/ Len(chunks[Len(chunks)]) >= MaxFiles
    THEN Append(chunks, <<f>>)
    ELSE [chunks EXCEPT ![Len(chunks)] = @ \o <<f>>]

Cut(group) == FoldList(group, [f \in Paths |-> [c \in Seq(FileList) |-> AddFile(c, f)]], <<>>)

\* The first file of a directory brings all of its chunks.
AddDirectory(files, chunks, f) ==
    IF f \in Held(chunks) THEN chunks ELSE chunks \o Cut(InDir(files, Dir[f]))

Chunks(files) ==
    FoldList(files, [f \in Paths |-> [c \in Seq(FileList) |-> AddDirectory(files, c, f)]], <<>>)

\* Variant: the last place of a shard stays empty.
FitsBelow(shard, chunk) == Len(shard) + Len(chunk) < MaxFiles

Fits(shard, chunk) == Len(shard) + Len(chunk) <= MaxFiles

Pack(bins, chunk) ==
    IF \E s \in DOMAIN bins : Fits(bins[s], chunk)
    THEN LET first == CHOOSE s \in DOMAIN bins :
                          /\ Fits(bins[s], chunk)
                          /\ \A t \in DOMAIN bins : Fits(bins[t], chunk) => s <= t
         IN  [bins EXCEPT ![first] = @ \o chunk]
    ELSE Append(bins, chunk)

PlanShards(files) ==
    FoldList(Chunks(files), [c \in FileList |-> [bins \in Seq(FileList) |-> Pack(bins, c)]], <<>>)

(***************************************************************************)
(* The workflow.                                                           *)
(***************************************************************************)
Pending == {"pending"}

\* The jobs and their artifacts end with the review.
Ends ==
    /\ stage' = "idle"
    /\ changed' = <<>> /\ shards' = <<>> /\ reports' = <<>>
    /\ unique' = {} /\ untried' = {} /\ failedInline' = {}

Plan(F) ==
    /\ stage = "idle"
    /\ reviews < MaxReviews /\ reviews' = reviews + 1
    /\ changed' = Select(PathOrder, F)
    /\ changed' # <<>>
    /\ shards' = PlanShards(changed')
    /\ reports' = [s \in DOMAIN shards' |-> Pending]
    /\ stage' = "review"
    /\ UNCHANGED <<unique, untried, failedInline, onGitHub, reviewFaults>>

\* run_shard: the droid's output, its retry after a SIGKILL or its recovered
\* session yields valid findings.
ShardSucceeds(s, R) ==
    /\ stage = "review" /\ reports[s] = Pending
    /\ reports' = [reports EXCEPT ![s] = R]
    /\ UNCHANGED <<changed, shards, stage, unique, untried, failedInline,
                   onGitHub, reviews, reviewFaults>>

\* Neither does: the workflow fails closed.
ShardFails(s) ==
    /\ stage = "review" /\ reports[s] = Pending
    /\ Ends
    /\ UNCHANGED <<onGitHub, reviews, reviewFaults>>

\* load_findings_files reads the shards in the order of the glob, and the first
\* of equal findings stays.
Deduplicated(U) ==
    /\ U \subseteq {[remark |-> r, shard |-> s] : r \in Remarks, s \in DOMAIN shards}
    /\ \A u \in U : u.remark \in reports[u.shard]
    /\ {u.remark : u \in U} = UNION {reports[s] : s \in DOMAIN shards}
    /\ \A u, v \in U : u.remark = v.remark => u = v

LoadFindings(U) ==
    /\ stage = "review" /\ U # {}
    /\ \A s \in DOMAIN shards : reports[s] # Pending
    /\ Deduplicated(U)
    /\ unique' = U /\ untried' = U
    /\ stage' = "inline"
    /\ changed' = <<>> /\ shards' = <<>> /\ reports' = <<>>
    /\ UNCHANGED <<failedInline, onGitHub, reviews, reviewFaults>>

\* No droid found anything.
NoFindings ==
    /\ stage = "review"
    /\ \A s \in DOMAIN shards : reports[s] = {}
    /\ Ends
    /\ UNCHANGED <<onGitHub, reviews, reviewFaults>>

Commented(u) == \E r \in inline : LineOf[r] = LineOf[u.remark]
MoreInline == stage = "inline" /\ Cardinality(unique \ untried) < InlineBatch

\* post_inline_comment.  A line that has a comment counts as posted; when the
\* comments cannot be listed it posts all the same.
SkipInline(u) ==
    /\ MoreInline /\ u \in untried
    /\ Commented(u)
    /\ untried' = untried \ {u}
    /\ UNCHANGED <<changed, shards, stage, reports, unique, failedInline,
                   onGitHub, reviews, reviewFaults>>

PostInline(u) ==
    /\ MoreInline /\ u \in untried
    /\ IF Commented(u)
       THEN reviewFaults < MaxReviewFaults /\ reviewFaults' = reviewFaults + 1
       ELSE UNCHANGED reviewFaults
    /\ untried' = untried \ {u}
    /\ \/ inline' = inline \cup {u.remark} /\ UNCHANGED failedInline
       \/ failedInline' = failedInline \cup {u} /\ UNCHANGED inline
    /\ UNCHANGED <<changed, shards, stage, reports, unique, summary, summaries, reviews>>

InlineDone ==
    /\ stage = "inline"
    /\ untried = {} \/ Cardinality(unique \ untried) >= InlineBatch
    /\ stage' = "summary"
    /\ UNCHANGED <<changed, shards, reports, unique, untried, failedInline,
                   onGitHub, reviews, reviewFaults>>

\* Variant: the failed comments are taken for posted.
DegradedPosted == unique \ failedInline

\* What goes into the summary: the failed ones if there are any.
Degraded == IF failedInline # {} THEN failedInline ELSE unique

OfShard(U, s) == {u \in U : u.shard = s}

\* The first PerShard findings of each shard.
Detailed(D) ==
    /\ D \subseteq Degraded
    /\ \A s \in {u.shard : u \in unique} :
          LET all == Cardinality(OfShard(Degraded, s))
          IN  Cardinality(OfShard(D, s)) = IF all < PerShard THEN all ELSE PerShard

\* post_summary_comment skips when the marker is found; when the comments cannot
\* be listed it posts all the same.
PostSummary(D) ==
    /\ stage = "summary"
    /\ IF summaries > 0
       THEN reviewFaults < MaxReviewFaults /\ reviewFaults' = reviewFaults + 1
       ELSE UNCHANGED reviewFaults
    /\ Detailed(D)
    /\ summary' = summary \cup {u.remark : u \in D}
    /\ summaries' = summaries + 1
    /\ stage' = "posted"
    /\ UNCHANGED <<changed, shards, reports, unique, untried, failedInline, inline, reviews>>

\* It is skipped, or the call fails: the job succeeds all the same.
NoSummary ==
    /\ stage = "summary"
    /\ Ends
    /\ UNCHANGED <<onGitHub, reviews, reviewFaults>>

Published ==
    /\ stage = "posted"
    /\ Ends
    /\ UNCHANGED <<onGitHub, reviews, reviewFaults>>

\* A push cancels the review in progress.
Cancelled ==
    /\ stage \in {"review", "inline", "summary"}
    /\ Ends
    /\ UNCHANGED <<onGitHub, reviews, reviewFaults>>

ReviewNext ==
    \/ \E F \in SUBSET Paths : Plan(F)
    \/ \E s \in DOMAIN shards : \/ \E R \in SUBSET Remarks : ShardSucceeds(s, R)
                                \/ ShardFails(s)
    \/ \E U \in SUBSET {[remark |-> r, shard |-> s] : r \in Remarks, s \in DOMAIN shards} :
          LoadFindings(U)
    \/ NoFindings
    \/ \E u \in unique : SkipInline(u) \/ PostInline(u)
    \/ InlineDone
    \/ \E D \in SUBSET unique : PostSummary(D)
    \/ NoSummary \/ Published \/ Cancelled

ReviewSpec == ReviewInit /\ [][ReviewNext]_reviewVars

(***************************************************************************)
(* Properties.                                                             *)
(***************************************************************************)
\* The shards partition the changed files, none exceeds max_files, and no two of
\* them would fit into one.
ShardsPartition ==
    /\ Held(shards) = Elements(changed)
    /\ Apart(shards)
    /\ \A s \in DOMAIN shards : Len(shards[s]) <= MaxFiles
    /\ \A s, t \in DOMAIN shards : s # t => Len(shards[s]) + Len(shards[t]) > MaxFiles

\* When a summary is posted, every finding of the review can be read on the pull
\* request: in the summary, or in place of it by a comment on its line, unless
\* its shard has more than the summary details or a failed comment hid the
\* findings beyond the batch.
FindingsShown ==
    stage = "posted" =>
        \A u \in unique :
            \/ u.remark \in summary
            \/ Commented(u) /\ u \notin failedInline
            \/ Cardinality(OfShard(Degraded, u.shard)) > PerShard
            \/ u \in untried /\ failedInline # {}
=============================================================================
