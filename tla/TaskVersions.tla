---------------------------- MODULE TaskVersions ----------------------------
(***************************************************************************)
(* One 立言任务 and its 任务版本: the edit sessions that save new versions, the   *)
(* restores that make an old one current again, the 来源 Revisions and the 主题  *)
(* snapshots that versions share, and the 主题 runs.  Articles adds the 立言      *)
(* runs of each version and its saved Revisions; both kinds of run are rows of *)
(* one table, `runs`.  The 知言 runs of a 来源 Revision are ZhiyanRuns; here they  *)
(* are one state per Revision.                                               *)
(*                                                                          *)
(* A handler that holds the task's row from its first read to its commit is    *)
(* one action.  What is read before the row is taken may be old: a save reads   *)
(* its edit session first, a failed run its own status.  The first run of what  *)
(* a save made is queued after its commit, without the row, and again when the   *)
(* save is sent again: at any later time, or never.  Nothing says when, or       *)
(* whether, a process takes its next step: a dead one is one that never does.    *)
(***************************************************************************)
EXTENDS Naturals, Sequences, FiniteSets, SequencesExt

CONSTANTS
    Contents,       \* texts of a 来源
    Themes,         \* texts of a 主题
    Edits,          \* edit sessions
    MaxSources,     \* 来源 of one version (three in the code)
    MaxVersions,    \* bound: versions of the task
    MaxRuns,        \* bound: 主题 and 立言 runs of the task
    None,           \* no 主题, no edit base
    Events          \* which of PossibleEvents may happen

\* sweep: the stalled sweep, or a refused dispatch, ends a run.
PossibleEvents == {"sweep", "cancellation", "deletion", "retry"}

ASSUME ConstantsAssumption ==
    /\ MaxSources \in Nat \ {0} /\ MaxVersions \in Nat \ {0}
    /\ MaxRuns \in Nat \ {0}
    /\ None \notin Contents \cup Themes
    /\ Events \subseteq PossibleEvents

VARIABLES
    sources,    \* 来源 Revisions, named by the version and position they appeared at
    themes,     \* theme_revisions, named by the version they appeared with
    versions,   \* task_versions by number
    current,    \* tasks.current_version_id
    deleted,    \* tasks.deleted_at
    edits,      \* source_edit_sessions
    runs        \* the task's 主题 and 立言 executions, in order of creation: `asked` is
                \* cancellation_requested_at, `worker` how far the handler is, and
                \* `overtaken`, a mark of this model, that the run was ended while
                \* its handler was claiming it

taskVars == <<sources, themes, versions, current, deleted, edits>>

SourceIds == (1 .. MaxVersions) \X (1 .. MaxSources)
NoSource == [content |-> None, state |-> "absent"]
NoReport == <<>>
NoTheme == [content |-> None, context |-> <<>>, report |-> NoReport]
ContextTexts == BoundedSeq(Contents, MaxSources)

Active == {"queued", "running", "cancel_requested"}
Terminal == {"succeeded", "failed", "cancelled", "stale"}
Surrendered(status) == status \in Terminal

Executions ==
    [kind : {"theme", "article"}, target : 1 .. MaxVersions, input : 1 .. MaxRuns,
     attempt : 1 .. MaxRuns, origin : {"initial", "automatic", "manual"},
     status : Active \cup Terminal, asked : BOOLEAN, overtaken : BOOLEAN,
     worker : {"none", "claiming", "admitting", "refusing", "asking", "failing"},
     read : ContextTexts]

TypeOKVersions ==
    /\ sources \in [SourceIds -> [content : Contents \cup {None},
                                  state : {"absent", "none", "active", "ended", "reported"}]]
    /\ themes \in [1 .. MaxVersions -> [content : Themes \cup {None},
                                        context : ContextTexts, report : ContextTexts]]
    /\ versions \in Seq([sources : BoundedSeq(SourceIds, MaxSources),
                           theme : 0 .. MaxVersions])
    /\ Len(versions) <= MaxVersions
    /\ current \in DOMAIN versions
    /\ deleted \in BOOLEAN
    /\ edits \in [Edits -> [status : {"absent", "active", "saved", "discarded"},
                            base : 0 .. MaxVersions]]
    /\ runs \in Seq(Executions) /\ Len(runs) <= MaxRuns

-----------------------------------------------------------------------------
(* What the handlers share. *)

\* The texts of a list of 来源 Revisions, which source_context_hash digests.
TextsOf(ids) == [i \in DOMAIN ids |-> sources[ids[i]].content]
ContextOf(v) == TextsOf(versions[v].sources)

RunsOf(kind, target) == {r \in DOMAIN runs : runs[r].kind = kind /\ runs[r].target = target}

\* The latest run: by input, then by attempt.
IsLatest(r, kind, target) ==
    /\ r \in RunsOf(kind, target)
    /\ \A other \in RunsOf(kind, target) \ {r} :
         \/ runs[other].input < runs[r].input
         \/ runs[other].input = runs[r].input /\ runs[other].attempt < runs[r].attempt

\* One active run of a target, and one row per target, input and attempt.
Insertable(table, run) ==
    \A r \in DOMAIN table :
        table[r].kind = run.kind /\ table[r].target = run.target =>
            /\ table[r].status \notin Active
            /\ <<table[r].input, table[r].attempt>> # <<run.input, run.attempt>>

NewRun(kind, target, input, attempt, origin) ==
    [kind |-> kind, target |-> target, input |-> input, attempt |-> attempt,
     origin |-> origin, status |-> "queued", asked |-> FALSE, overtaken |-> FALSE,
     worker |-> "none", read |-> <<>>]

Queue(kind, target, input, attempt, origin) ==
    LET run == NewRun(kind, target, input, attempt, origin) IN
    /\ Len(runs) < MaxRuns /\ Insertable(runs, run)
    /\ runs' = Append(runs, run)

RunsAnalyses(v) ==
    \/ \E i \in DOMAIN versions[v].sources : sources[versions[v].sources[i]].state = "active"
    \/ \E r \in DOMAIN runs : /\ runs[r].kind = "theme" /\ runs[r].target = versions[v].theme
                              /\ runs[r].status \in Active

\* mutant of HasActiveRuns: a 立言 run does not block an edit.
HasActiveAnalyses(v) == RunsAnalyses(v)

\* _has_active_runs
HasActiveRuns(v) ==
    \/ RunsAnalyses(v)
    \/ \E r \in RunsOf("article", v) : runs[r].status \in Active

\* mutant of ThemeRevisionFor: a 主题 is looked up by its text alone.
ThemeRevisionByText(theme, context, n) ==
    LET same == {t \in DOMAIN themes : themes[t].content = theme} IN
    IF theme = None THEN 0 ELSE IF same = {} THEN n ELSE CHOOSE t \in same : TRUE

\* theme_revision_for: the snapshot of this text beside these 来源, or a new one.
ThemeRevisionFor(theme, context, n) ==
    LET same == {t \in DOMAIN themes : /\ themes[t].content = theme
                                       /\ themes[t].context = context}
    IN  IF theme = None THEN 0 ELSE IF same = {} THEN n ELSE CHOOSE t \in same : TRUE

ThemeText(v) == IF versions[v].theme = 0 THEN None ELSE themes[versions[v].theme].content

-----------------------------------------------------------------------------
(* Editing and restoring *)

\* A task as its confirmation leaves it.
InitVersions ==
    \E texts \in ContextTexts \ {<<>>}, theme \in Themes \cup {None} :
        LET ids == [i \in DOMAIN texts |-> <<1, i>>]
            row == IF theme = None THEN 0 ELSE 1
        IN
        /\ sources = [id \in SourceIds |->
             IF id \in ToSet(ids) THEN [content |-> texts[id[2]], state |-> "none"]
                                  ELSE NoSource]
        /\ themes = [n \in 1 .. MaxVersions |->
             IF n = row THEN [content |-> theme, context |-> texts, report |-> NoReport]
                        ELSE NoTheme]
        /\ versions = <<[sources |-> ids, theme |-> row]>>
        /\ current = 1 /\ deleted = FALSE
        /\ edits = [e \in Edits |-> [status |-> "absent", base |-> 0]]
        /\ runs = <<>>

\* create_edit_session
CreateEdit(e) ==
    /\ edits[e].status = "absent" /\ ~deleted
    /\ ~HasActiveRuns(current)
    /\ edits' = [edits EXCEPT ![e] = [status |-> "active", base |-> current]]
    /\ UNCHANGED <<sources, themes, versions, current, deleted, runs>>

\* discard_edit_session
Discard(e) ==
    /\ edits[e].status = "active" /\ ~deleted
    /\ edits' = [edits EXCEPT ![e].status = "discarded"]
    /\ UNCHANGED <<sources, themes, versions, current, deleted, runs>>

\* What a save asks for: the 来源 in order, each one of the base version's or a
\* new one (0), and its text; no 来源 of the base twice.
Items(v) ==
    {items \in BoundedSeq((0 .. Len(versions[v].sources)) \X Contents, MaxSources) \ {<<>>} :
        \A i, j \in DOMAIN items : items[i][1] = items[j][1] => i = j \/ items[i][1] = 0}

\* save_edit_session: the next version, which shares what did not change.  The
\* edit session was read as active before the task's row was taken, and by now it
\* may be saved or discarded.
SaveCommits(e) ==
    LET base == edits[e].base
        n == Len(versions) + 1
    IN
    /\ edits[e].status # "absent" /\ ~deleted
    /\ current = base /\ ~HasActiveRuns(base)
    /\ n <= MaxVersions
    /\ \E items \in Items(base), theme \in Themes \cup {None} :
        LET Kept(i) == /\ items[i][1] # 0
                       /\ items[i][2] = ContextOf(base)[items[i][1]]
            changed == {i \in DOMAIN items : ~Kept(i)}
            ids == [i \in DOMAIN items |->
                      IF Kept(i) THEN versions[base].sources[items[i][1]] ELSE <<n, i>>]
            texts == [i \in DOMAIN items |-> items[i][2]]
            row == ThemeRevisionFor(theme, texts, n)
        IN
        /\ \/ changed # {}
           \/ [i \in DOMAIN items |-> items[i][1]] # [i \in DOMAIN versions[base].sources |-> i]
           \/ theme # ThemeText(base)
        /\ sources' = [id \in SourceIds |->
             IF id[1] = n /\ id[2] \in changed
             THEN [content |-> texts[id[2]], state |-> "none"] ELSE sources[id]]
        /\ themes' = IF row = n THEN [themes EXCEPT ![n] =
                          [content |-> theme, context |-> texts, report |-> NoReport]]
                     ELSE themes
        /\ versions' = Append(versions, [sources |-> ids, theme |-> row])
    /\ current' = n
    /\ edits' = [edits EXCEPT ![e].status = "saved"]
    /\ UNCHANGED <<deleted, runs>>

\* restore_version
Restore(v) ==
    /\ v \in DOMAIN versions \ {current} /\ ~deleted
    /\ ~HasActiveRuns(current)
    /\ current' = v
    /\ UNCHANGED <<sources, themes, versions, deleted, edits, runs>>

-----------------------------------------------------------------------------
(* The analyses of a version's 来源 and 主题 *)

\* queue_initial_runs: a Revision with a report or with any run is left alone.
QueueSource(id) ==
    /\ sources[id].state = "none"
    /\ sources' = [sources EXCEPT ![id].state = "active"]
    /\ UNCHANGED <<themes, versions, current, deleted, edits, runs>>

\* queue_initial_run of a 主题, likewise.
QueueTheme(t) ==
    /\ themes[t] # NoTheme
    /\ themes[t].report = NoReport /\ RunsOf("theme", t) = {}
    /\ Queue("theme", t, 1, 1, "initial")
    /\ UNCHANGED taskVars

\* What ZhiyanRuns says of a Revision: its runs end, with a report or without.
SourceRunEnds(id) ==
    /\ sources[id].state = "active"
    /\ \E state \in {"ended", "reported"} :
        /\ state = "reported" => ~deleted
        /\ sources' = [sources EXCEPT ![id].state = state]
    /\ UNCHANGED <<themes, versions, current, deleted, edits, runs>>

\* start_zhiyan_run: only a Revision of the current version.
RetrySource(id) ==
    /\ "retry" \in Events
    /\ ~deleted /\ id \in ToSet(versions[current].sources)
    /\ sources[id].state \in {"none", "ended"}
    /\ sources' = [sources EXCEPT ![id].state = "active"]
    /\ UNCHANGED <<themes, versions, current, deleted, edits, runs>>

\* start_theme_zhiyan_run: only the 主题 of the current version.
RetryTheme ==
    LET t == versions[current].theme IN
    /\ "retry" \in Events
    /\ ~deleted /\ t # 0
    /\ themes[t].report = NoReport
    /\ \/ RunsOf("theme", t) = {} /\ Queue("theme", t, 1, 1, "initial")
       \/ \E r \in RunsOf("theme", t) :
            IsLatest(r, "theme", t) /\ Queue("theme", t, 1, runs[r].attempt + 1, "manual")
    /\ UNCHANGED taskVars

-----------------------------------------------------------------------------
(* What every run goes through *)

\* mutant of GivenUp: the sweep writes its error code where its status belongs.
GivenUpAsStalled(run) == [run EXCEPT !.status = "execution_stalled"]

\* recover_stalled_executions, and dispatch_or_fail of a run nobody claimed.
GivenUp(run) == [run EXCEPT !.status = "failed"]

Sweep(r) ==
    /\ "sweep" \in Events
    /\ runs[r].status \in {"queued", "running"}
    /\ runs' = [runs EXCEPT ![r] = GivenUp(@)]
    /\ UNCHANGED taskVars

\* A run that nobody has claimed ends at once; the others are asked to stop.
Asked(run) ==
    [run EXCEPT !.asked = TRUE,
                !.status = IF @ = "queued" THEN "cancelled" ELSE "cancel_requested"]
IsAsked(run) == run.asked \/ run.status \in {"cancel_requested", "cancelled"}

\* cancel_execution
Cancel(r) ==
    /\ "cancellation" \in Events
    /\ runs[r].status \in {"queued", "running"}
    /\ runs' = [runs EXCEPT ![r] = Asked(@)]
    /\ UNCHANGED taskVars

\* delete_task: 立言 runs are ended or asked to stop, 主题 runs are left alone.
Delete ==
    /\ "deletion" \in Events
    /\ ~deleted
    /\ deleted' = TRUE
    /\ runs' = [r \in DOMAIN runs |->
         IF runs[r].kind = "article" /\ runs[r].status \in Active
         THEN Asked(runs[r]) ELSE runs[r]]
    /\ UNCHANGED <<sources, themes, versions, current, edits>>

\* The handler is gone and writes nothing.
LetGo(run) == [run EXCEPT !.worker = "none", !.read = <<>>]

\* The handler ends the run; what only it would read again is forgotten.
Ended(run, status) == [run EXCEPT !.status = status, !.worker = "none", !.read = <<>>,
                                  !.asked = FALSE, !.overtaken = FALSE]

\* _fail_within: a run its user asked to stop is cancelled, not failed.
Failed(run) == Ended(run, IF IsAsked(run) THEN "cancelled" ELSE "failed")

\* _claim reads the run as queued, without a lock ...
ClaimReads(r) ==
    /\ runs[r].status = "queued" /\ runs[r].worker = "none"
    /\ runs' = [runs EXCEPT ![r].worker = "claiming"]
    /\ UNCHANGED taskVars

\* ... judges it by what it reads next ...
Judged(run, admitted, read) ==
    [run EXCEPT !.worker = IF admitted THEN "admitting" ELSE "refusing", !.read = read]

\* ... and commits what it judged, whatever the run has become by now.
Admitted(run) ==
    [run EXCEPT !.status = "running", !.worker = "asking",
                !.overtaken = run.status # "queued"]

\* Another active run of the target lets the commit fail, and nothing is written.
ClaimCommits(r) ==
    LET run == runs[r]
        others == RunsOf(run.kind, run.target) \ {r}
    IN
    /\ \/ /\ run.worker = "admitting"
          /\ runs' = [runs EXCEPT ![r] =
               IF \E other \in others : runs[other].status \in Active
               THEN LetGo(run) ELSE Admitted(run)]
       \/ /\ run.worker = "refusing"
          /\ runs' = [runs EXCEPT ![r] = Ended(run, "failed")]
    /\ UNCHANGED taskVars

\* The handler's call failed: it reads the run, and gives way if it has ended ...
FailReads(r) ==
    /\ runs[r].worker = "asking"
    /\ runs' = [runs EXCEPT ![r] = IF Surrendered(@.status) THEN LetGo(@)
                                  ELSE [@ EXCEPT !.worker = "failing"]]
    /\ UNCHANGED taskVars

\* ... waits for the task's row, reads the run again, ends it whatever it has
\* become, and queues the automatic attempt.  A unique index may refuse that
\* attempt, and then nothing is written.
FailCommits(r) ==
    LET run == runs[r]
        ended == [runs EXCEPT ![r] = Failed(IF deleted THEN [run EXCEPT !.asked = TRUE]
                                                       ELSE run)]
        next == NewRun(run.kind, run.target, run.input, run.attempt + 1, "automatic")
        due == ended[r].status = "failed" /\ run.origin = "initial" /\ run.attempt < 2
    IN
    /\ run.worker = "failing"
    /\ \E recoverable \in BOOLEAN :
         /\ recoverable => Len(runs) < MaxRuns
         /\ runs' = IF ~(due /\ recoverable) THEN ended
                    ELSE IF Insertable(ended, next) THEN Append(ended, next)
                    ELSE [runs EXCEPT ![r] = LetGo(run)]
    /\ UNCHANGED taskVars

-----------------------------------------------------------------------------
(* The 主题 run *)

\* _analysed_theme: the 来源 of the first version that points at the snapshot, if
\* they are what the snapshot was made beside.
Analysed(t) ==
    LET pointing == {v \in DOMAIN versions : versions[v].theme = t}
        first == CHOOSE v \in pointing : \A other \in pointing : v <= other
    IN  IF ~deleted /\ pointing # {} /\ ContextOf(first) = themes[t].context
        THEN {ContextOf(first)} ELSE {}

ClaimTheme(r) ==
    LET analysed == Analysed(runs[r].target) IN
    /\ runs[r].kind = "theme" /\ runs[r].worker = "claiming"
    /\ runs' = [runs EXCEPT ![r] =
         Judged(@, analysed # {},
                IF analysed = {} THEN <<>> ELSE CHOOSE texts \in analysed : TRUE)]
    /\ UNCHANGED taskVars

\* _finish_succeeded of theme/worker.py, under the task's row.
ThemeVerdict(run) ==
    CASE Surrendered(run.status) -> "stale"
      [] ~Surrendered(run.status) /\ (deleted \/ IsAsked(run)) -> "cancelled"
      [] OTHER -> IF themes[run.target].report # NoReport THEN "stale" ELSE "succeeded"

SucceedTheme(r) ==
    LET verdict == ThemeVerdict(runs[r]) IN
    /\ runs[r].kind = "theme" /\ runs[r].worker = "asking"
    /\ runs' = [runs EXCEPT ![r] = Ended(@, verdict)]
    /\ themes' = IF verdict = "succeeded"
                 THEN [themes EXCEPT ![runs[r].target].report = runs[r].read] ELSE themes
    /\ UNCHANGED <<sources, versions, current, deleted, edits>>

=============================================================================
