------------------------------ MODULE Articles ------------------------------
(***************************************************************************)
(* The 立言文章 of each 任务版本 of one task: the runs that generate it once every  *)
(* 来源 and the 主题 have a report, and the Revisions its user saves or restores.  *)
(*                                                                          *)
(* A generation holds the task's row.  A save of a Revision does not: it reads  *)
(* the newest one and commits its successor, and the unique numbers and keys of  *)
(* liyan_revisions settle what two of them race for.                          *)
(***************************************************************************)
EXTENDS TaskVersions

CONSTANTS
    Writers,    \* requests that save a Revision
    Keys        \* their idempotency keys

ASSUME WritersAssumption == None \notin Keys /\ IsFiniteSet(Keys)

VARIABLES
    revisions,  \* liyan_revisions of each version's article
    writers     \* what a request has read and not yet committed

vars == <<taskVars, runs, revisions, writers>>
articleVars == <<revisions, writers>>

MaxRevisions == Cardinality(Keys)
Revisions == [key : Keys, number : 1 .. MaxRevisions + 1, base : 0 .. MaxRevisions,
              restored : BOOLEAN]
NotWriting == [version |-> 0, key |-> None, base |-> 0, restored |-> FALSE]

TypeOK ==
    /\ TypeOKVersions
    /\ revisions \in [1 .. MaxVersions -> SUBSET Revisions]
    /\ writers \in [Writers -> [version : 0 .. MaxVersions, key : Keys \cup {None},
                                base : 0 .. MaxRevisions, restored : BOOLEAN]]

Init ==
    /\ InitVersions
    /\ revisions = [v \in 1 .. MaxVersions |-> {}]
    /\ writers = [w \in Writers |-> NotWriting]

-----------------------------------------------------------------------------
(* Generation *)

\* complete_context: every 来源 of the version, and its 主题, has its report.
Complete(v) ==
    /\ versions[v].theme # 0 => themes[versions[v].theme].report # NoReport
    /\ \A i \in DOMAIN versions[v].sources : sources[versions[v].sources[i]].state = "reported"

\* start_liyan_run: a failed or stale run is retried with its input; after any
\* other a generation is a new input.  An active one refuses both.
Generate ==
    /\ ~deleted /\ Complete(current)
    /\ \/ /\ RunsOf("article", current) = {}
          /\ Queue("article", current, 1, 1, "initial")
       \/ \E r \in RunsOf("article", current) :
            /\ IsLatest(r, "article", current)
            /\ IF runs[r].status \in {"failed", "stale"}
               THEN /\ "retry" \in Events
                    /\ Queue("article", current, runs[r].input, runs[r].attempt + 1, "manual")
               ELSE Queue("article", current, runs[r].input + 1, 1, "initial")
    /\ UNCHANGED <<taskVars, articleVars>>

\* _target_is_current
TargetIsCurrent(run) == ~deleted /\ run.target = current

ClaimArticle(r) ==
    /\ runs[r].kind = "article" /\ runs[r].worker = "claiming"
    /\ runs' = [runs EXCEPT ![r] = Judged(@, TargetIsCurrent(@), <<>>)]
    /\ UNCHANGED <<taskVars, articleVars>>

\* _finish_succeeded of liyan/worker.py, under the task's row.
ArticleVerdict(run) ==
    CASE Surrendered(run.status) -> "stale"
      [] ~Surrendered(run.status) /\ IsAsked(run) -> "cancelled"
      [] OTHER -> IF TargetIsCurrent(run) THEN "succeeded" ELSE "stale"

SucceedArticle(r) ==
    /\ runs[r].kind = "article" /\ runs[r].worker = "asking"
    /\ runs' = [runs EXCEPT ![r] = Ended(@, ArticleVerdict(@))]
    /\ UNCHANGED <<taskVars, articleVars>>

-----------------------------------------------------------------------------
(* Revisions *)

\* load_history: the number of the current Revision, or 0.
CurrentNumber(v) == Max({0} \cup {revision.number : revision \in revisions[v]})

KeyUsed(key) == \E v \in DOMAIN revisions : \E revision \in revisions[v] : revision.key = key

\* savable_article, and what the request names as its base is the newest
\* Revision: another base is refused, a used key is answered with what it saved.
Reads(w, key, restored) ==
    /\ writers[w] = NotWriting
    /\ ~deleted /\ Complete(current)
    /\ ~KeyUsed(key)
    /\ writers' = [writers EXCEPT ![w] = [version |-> current, key |-> key,
                                          base |-> CurrentNumber(current),
                                          restored |-> restored]]
    /\ UNCHANGED <<taskVars, runs, revisions>>

\* save_liyan_revision
SaveRevision(w, key) == Reads(w, key, FALSE)

\* restore_liyan_revision: any Revision but the current one, saved again on top.
RestoreRevision(w, key) ==
    /\ CurrentNumber(current) > 1
    /\ Reads(w, key, TRUE)

\* new_revision
NewRevision(writer) == [key |-> writer.key, number |-> writer.base + 1, base |-> writer.base,
                        restored |-> writer.restored]

\* mutant of Conflicts: numbers are not unique in an article.
ConflictsOfKey(v, revision) == KeyUsed(revision.key)

\* uq_liyan_revisions_article_number and uq_liyan_revisions_owner_idempotency_key
Conflicts(v, revision) ==
    KeyUsed(revision.key) \/ \E other \in revisions[v] : other.number = revision.number

\* commit_revision: a conflict is rolled back and answered as a stale base.
CommitRevision(w) ==
    LET v == writers[w].version
        revision == NewRevision(writers[w])
    IN
    /\ writers[w] # NotWriting
    /\ revisions' = IF Conflicts(v, revision) THEN revisions
                    ELSE [revisions EXCEPT ![v] = @ \cup {revision}]
    /\ writers' = [writers EXCEPT ![w] = NotWriting]
    /\ UNCHANGED <<taskVars, runs>>

-----------------------------------------------------------------------------
EditStep ==
    \/ \E e \in Edits : CreateEdit(e) \/ Discard(e) \/ SaveCommits(e)
    \/ \E v \in DOMAIN versions : Restore(v)

AnalysisStep ==
    \/ \E id \in SourceIds : QueueSource(id) \/ SourceRunEnds(id) \/ RetrySource(id)
    \/ \E t \in DOMAIN versions : QueueTheme(t)
    \/ RetryTheme

RunStep ==
    \/ \E r \in DOMAIN runs : \/ Sweep(r) \/ Cancel(r) \/ ClaimReads(r) \/ ClaimCommits(r)
                              \/ FailReads(r) \/ FailCommits(r)
                              \/ ClaimTheme(r) \/ SucceedTheme(r)
    \/ Delete

ArticleStep ==
    \/ Generate
    \/ \E r \in DOMAIN runs : ClaimArticle(r) \/ SucceedArticle(r)

RevisionStep ==
    \/ \E w \in Writers, key \in Keys : SaveRevision(w, key) \/ RestoreRevision(w, key)
    \/ \E w \in Writers : CommitRevision(w)

Next ==
    \/ (EditStep \/ AnalysisStep \/ RunStep) /\ UNCHANGED articleVars
    \/ ArticleStep
    \/ RevisionStep

Spec == Init /\ [][Next]_vars

-----------------------------------------------------------------------------
(* Properties *)

\* A 主题 report was written about the very 来源 of every version that shows it,
\* however many versions share its snapshot and whichever of them is restored.
\* theme/worker.py:91-118, theme/revisions.py:74-107
ThemeAnswersItsSources ==
    \A v \in DOMAIN versions :
        LET t == versions[v].theme IN
        t # 0 => themes[t].report \in {NoReport, ContextOf(v)}

\* While a worker writes an article, the version it writes for stays the task's
\* current one and keeps every report it was promised: no save, restore, retry or
\* sweep, and no automatic attempt queued by a handler that waited for the task,
\* moves the ground under it, although the claim reads all of this without a lock
\* and commits `running` later.  Not of a run that was ended during its claim: the
\* claim brings it back, and then nothing has kept the version where it was.
\* liyan/worker.py:118-147, source_editing.py:117-153
GenerationKeepsItsVersion ==
    \A r \in DOMAIN runs :
        /\ runs[r].kind = "article" /\ ~runs[r].overtaken
        /\ \/ runs[r].status = "running"
           \/ runs[r].status = "cancel_requested" /\ ~deleted
        => runs[r].target = current /\ Complete(current) /\ ~deleted

\* The Revisions of an article are one line: each number is taken once, each
\* Revision was written on top of the one before it, and no key saved two.
\* liyan/api.py:642-739, database.py:509-546
RevisionsLinear ==
    /\ \A v \in DOMAIN revisions :
         {revision.number : revision \in revisions[v]} = 1 .. Cardinality(revisions[v])
    /\ \A v, u \in DOMAIN revisions : \A one \in revisions[v], other \in revisions[u] :
         one.key = other.key => v = u /\ one = other

=============================================================================
