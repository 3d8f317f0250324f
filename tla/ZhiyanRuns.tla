----------------------------- MODULE ZhiyanRuns -----------------------------
(***************************************************************************)
(* The runs of 知言 (operation analyze_source) for the source Revisions of  *)
(* one task: the API that queues a run, the broker that carries its id, the *)
(* worker that claims it, calls the provider and admits the answer, the     *)
(* sweep that gives up on silent runs, a user's cancellation and the        *)
(* deletion of the task.  Nothing but the database row decides anything:    *)
(* the model's variables are columns of `executions`, `zhiyan_reports` and  *)
(* `tasks`, the broker's messages, and what each process has read and not   *)
(* yet written.                                                             *)
(*                                                                          *)
(* Sessions run at READ COMMITTED and the ORM writes the columns it changed *)
(* without comparing them first, so every read that a later commit relies   *)
(* on is a step of its own unless a row lock is held from one to the other. *)
(***************************************************************************)
EXTENDS Naturals, FiniteSets

CONSTANTS
    Revisions,      \* the source Revisions of the task's current version
    Workers,        \* handler slots of the provider-runs queue
    NoRun,          \* "no execution": a result_id or a worker slot that is empty
    MaxAttempt,     \* bound: how many runs one Revision may have
    Events          \* which of PossibleEvents may happen

Attempts == 1 .. MaxAttempt

\* A run is identified by its target and its attempt: unique(target_id,
\* input_version, attempt), and 知言 only ever runs against version 1.
Runs == Revisions \X Attempts

\* manual, cancellation, deletion: the user starts a run, stops one, deletes the
\* task; redelivery: the broker hands the same id out again; refusal: a dispatch
\* raises; crash: a process dies between two commits, or a message is lost.
PossibleEvents ==
    {"manual", "cancellation", "deletion", "redelivery", "refusal", "crash"}

ASSUME ConstantsAssumption ==
    /\ MaxAttempt \in Nat \ {0, 1}
    /\ NoRun \notin Runs
    /\ "api" \notin Workers
    /\ "free" \notin Workers
    /\ Events \subseteq PossibleEvents

RevisionOf(e) == e[1]
AttemptOf(e) == e[2]

Active == {"queued", "running", "cancel_requested"}
Terminal == {"succeeded", "failed", "cancelled", "stale"}
Statuses == Active \cup Terminal \cup {"absent"}     \* absent: no such row

\* mutant of Surrendered: a run asked to stop is taken for one that has ended.
SurrendersEarly(s) == s \in Terminal \cup {"cancel_requested"}

Surrendered(s) == s \in Terminal

\* What a provider call may fail with: a code zhiyan.recovery lists as
\* recoverable, or one it does not.
FailureCodes == {"recoverable", "unrecoverable"}

VARIABLES
    status, origin, \* columns of executions, by run
    asked,          \* runs whose cancellation_requested_at is set
    reports,        \* zhiyan_reports: the run behind each Revision's report
    deleted,        \* tasks.deleted_at is set
    outbox,         \* committed runs whose creator has not dispatched them yet
    refused,        \* dispatches that raised, with the row read as queued
    queue,          \* run ids the broker still holds
    worker,         \* what each handler is doing, and what it has read
    taskLock,       \* who holds the task row FOR UPDATE across steps
    deletion,       \* what delete_task has read and not yet committed
    sweep           \* the sweep's list of waiting rows, as its query read them

rows == <<status, origin, asked>>
transport == <<outbox, refused, queue>>
vars == <<rows, reports, deleted, transport, worker, taskLock, deletion, sweep>>

-----------------------------------------------------------------------------
(* Rows *)

RunsOf(r) == {e \in Runs : RevisionOf(e) = r /\ status[e] # "absent"}

\* RevisionRuns.latest: the largest attempt r has, 0 when it has no run.
IsLatestAttempt(r, n) ==
    /\ n = 0 \/ <<r, n>> \in RunsOf(r)
    /\ \A e \in RunsOf(r) : AttemptOf(e) <= n

\* uq_executions_one_active_per_target: the partial unique index every commit
\* is checked against.  A commit that breaks it is rolled back whole.
OneActive(st) ==
    \A e, f \in Runs :
        /\ RevisionOf(e) = RevisionOf(f)
        /\ st[e] \in Active
        /\ st[f] \in Active
        => e = f

\* The ORM emits only the columns whose value differs from the one it loaded:
\* assigning what was read leaves whatever the column holds now.
Written(read, new, now) == IF new = read THEN now ELSE new

Cancelled(e, s) == e \in asked \/ s \in {"cancel_requested", "cancelled"}

\* mutant of LockTask: the row is read without FOR UPDATE.
ReadTask(w) == UNCHANGED taskLock

\* _lock_task: a result is admitted under the task's row.
LockTask(w) ==
    /\ taskLock = "free"
    /\ taskLock' = w

\* A new queued row.
Insert(e, why) ==
    /\ status[e] = "absent"
    /\ status' = [status EXCEPT ![e] = "queued"]
    /\ OneActive(status')
    /\ origin' = [origin EXCEPT ![e] = why]
    /\ outbox' = outbox \cup {e}

Idle == [pc |-> "idle", run |-> NoRun, seen |-> "absent", why |-> "none"]
NotDeleting == [s \in Runs |-> "absent"]
NotSweeping == [waiting |-> {}, expired |-> FALSE, seen |-> [e \in Runs |-> "absent"]]

Init ==
    /\ status = [e \in Runs |-> "absent"]
    /\ origin = [e \in Runs |-> "initial"]
    /\ asked = {}
    /\ reports = [r \in Revisions |-> NoRun]
    /\ deleted = FALSE
    /\ outbox = {}
    /\ refused = {}
    /\ queue = {}
    /\ worker = [w \in Workers |-> Idle]
    /\ taskLock = "free"
    /\ deletion = NotDeleting
    /\ sweep = NotSweeping

-----------------------------------------------------------------------------
(* The API *)

\* queue_initial_runs: after the task transaction, outside it and without the
\* task lock; a Revision with a report or with any run is skipped.
QueueInitial(r) ==
    /\ reports[r] = NoRun
    /\ RunsOf(r) = {}
    /\ Insert(<<r, 1>>, "initial")
    /\ UNCHANGED <<asked, reports, deleted, refused, queue, worker,
                   taskLock, deletion, sweep>>

\* start_zhiyan_run: the task row is locked, so nobody may be holding it.  The
\* retry clock is abstract: any terminal run may be followed by a manual one.
StartManual(r) ==
    /\ "manual" \in Events
    /\ taskLock = "free"
    /\ ~deleted
    /\ reports[r] = NoRun
    /\ \E n \in 0 .. MaxAttempt - 1 :
        /\ IsLatestAttempt(r, n)
        /\ n > 0 => status[<<r, n>>] \notin Active
        /\ Insert(<<r, n + 1>>, IF n = 0 THEN "initial" ELSE "manual")
    /\ UNCHANGED <<asked, reports, deleted, refused, queue, worker,
                   taskLock, deletion, sweep>>

\* dispatch_or_fail when the broker takes the message.
Dispatch(e) ==
    /\ e \in outbox
    /\ outbox' = outbox \ {e}
    /\ queue' = queue \cup {e}
    /\ UNCHANGED <<rows, reports, deleted, refused, worker, taskLock, deletion,
                   sweep>>

\* dispatch_or_fail when the send raises, up to the read of the row; the
\* message may have got through all the same.
DispatchRaises(e) ==
    /\ "refusal" \in Events
    /\ e \in outbox
    /\ outbox' = outbox \ {e}
    /\ queue' \in {queue, queue \cup {e}}
    /\ refused' = IF status[e] = "queued" THEN refused \cup {e} ELSE refused
    /\ UNCHANGED <<rows, reports, deleted, worker, taskLock, deletion, sweep>>

\* ... and its commit.
FailDispatch(e) ==
    /\ e \in refused
    /\ refused' = refused \ {e}
    /\ status' = [status EXCEPT ![e] = "failed"]
    /\ UNCHANGED <<origin, asked, reports, deleted, outbox, queue, worker,
                   taskLock, deletion, sweep>>

\* The creator dies before it dispatches, or before it fails the run.
CreatorDies(e) ==
    /\ "crash" \in Events
    /\ e \in outbox \cup refused
    /\ outbox' = outbox \ {e}
    /\ refused' = refused \ {e}
    /\ UNCHANGED <<rows, reports, deleted, queue, worker, taskLock, deletion,
                   sweep>>

\* cancel_execution: the row is locked, read and written in one transaction.
Cancel(e) ==
    /\ "cancellation" \in Events
    /\ status[e] \in Active
    /\ asked' = asked \cup {e}
    /\ status' = [status EXCEPT ![e] =
         IF @ = "queued" THEN "cancelled" ELSE "cancel_requested"]
    /\ UNCHANGED <<origin, reports, deleted, transport, worker, taskLock,
                   deletion, sweep>>

\* delete_task locks the task and reads its unfinished runs ...
DeleteRead ==
    /\ "deletion" \in Events
    /\ taskLock = "free"
    /\ ~deleted
    /\ taskLock' = "api"
    /\ deletion' = [e \in Runs |-> IF status[e] \in Active THEN status[e] ELSE "absent"]
    /\ UNCHANGED <<rows, reports, deleted, transport, worker, sweep>>

\* ... ends the queued ones and asks the others to stop, from what it read.
DeleteCommit ==
    LET unfinished == {e \in Runs : deletion[e] # "absent"}
        after == [e \in Runs |->
            CASE deletion[e] = "absent" -> status[e]
              [] deletion[e] = "queued" -> "cancelled"
              [] OTHER -> Written(deletion[e], "cancel_requested", status[e])]
    IN
    /\ taskLock = "api"
    /\ taskLock' = "free"
    /\ deletion' = NotDeleting
    /\ IF OneActive(after)
       THEN /\ deleted' = TRUE
            /\ asked' = asked \cup unfinished
            /\ status' = after
       ELSE UNCHANGED <<deleted, asked, status>>
    /\ UNCHANGED <<origin, reports, transport, worker, sweep>>

-----------------------------------------------------------------------------
(* The worker *)

\* A message is delivered; _claim reads the row, and the task behind it.
Receive(w, e) ==
    /\ worker[w] = Idle
    /\ e \in queue
    /\ queue' = queue \ {e} \/ ("redelivery" \in Events /\ queue' = queue)
    /\ worker' = IF status[e] = "queued"
                 THEN [worker EXCEPT ![w] =
                         [pc |-> IF deleted THEN "voiding" ELSE "claiming", run |-> e,
                          seen |-> "queued", why |-> "none"]]
                 ELSE worker
    /\ UNCHANGED <<rows, reports, deleted, outbox, refused, taskLock, deletion,
                   sweep>>

\* The broker loses a message.
Lose(e) ==
    /\ "crash" \in Events
    /\ e \in queue
    /\ queue' = queue \ {e}
    /\ UNCHANGED <<rows, reports, deleted, outbox, refused, worker, taskLock,
                   deletion, sweep>>

\* _claim's commit.  The index refuses it when the run was ended meanwhile and
\* another one took its place; the exception ends the handler.
Claim(w) ==
    LET e == worker[w].run
        after == [status EXCEPT ![e] = "running"]
    IN
    /\ worker[w].pc = "claiming"
    /\ IF OneActive(after)
       THEN /\ status' = after
            /\ worker' = [worker EXCEPT ![w].pc = "calling"]
       ELSE /\ worker' = [worker EXCEPT ![w] = Idle]
            /\ UNCHANGED status
    /\ UNCHANGED <<origin, asked, reports, deleted, transport, taskLock,
                   deletion, sweep>>

\* The approved input is gone: _claim ends the run instead of starting it.  The
\* task may also have been deleted after the run was read as queued.
VoidClaim(w) ==
    LET e == worker[w].run IN
    /\ \/ worker[w].pc = "voiding"
       \/ worker[w].pc = "claiming" /\ deleted
    /\ status' = [status EXCEPT ![e] = "failed"]
    /\ worker' = [worker EXCEPT ![w] = Idle]
    /\ UNCHANGED <<origin, asked, reports, deleted, transport, taskLock,
                   deletion, sweep>>

\* mutant of AnswerMeans: the task may have been deleted meanwhile.
AnswerMeansUndeleted(e, s) ==
    CASE Surrendered(s) -> "late"
      [] ~Surrendered(s) /\ Cancelled(e, s) -> "dropping"
      [] OTHER -> IF reports[RevisionOf(e)] # NoRun THEN "outrun" ELSE "admitting"

\* mutant of AnswerMeans: nobody looks for a report that is already there.
AnswerMeansUnchecked(e, s) ==
    CASE Surrendered(s) -> "late"
      [] ~Surrendered(s) /\ (deleted \/ Cancelled(e, s)) -> "dropping"
      [] OTHER -> "admitting"

\* What _finish_succeeded makes of an answer to a run that reads s.
AnswerMeans(e, s) ==
    CASE Surrendered(s) -> "late"
      [] ~Surrendered(s) /\ (deleted \/ Cancelled(e, s)) -> "dropping"
      [] OTHER -> IF reports[RevisionOf(e)] # NoRun THEN "outrun" ELSE "admitting"

\* The provider answered: lock the task, read the run and the report, decide.
Answer(w) ==
    LET e == worker[w].run IN
    /\ worker[w].pc = "calling"
    /\ LockTask(w)
    /\ worker' = [worker EXCEPT ![w].seen = status[e], ![w].pc = AnswerMeans(e, status[e])]
    /\ UNCHANGED <<rows, reports, deleted, transport, deletion, sweep>>

\* mutant of Verdict: a word the status column does not know.
VerdictSuperseded == [late |-> "superseded", outrun |-> "stale", dropping |-> "cancelled",
                      admitting |-> "succeeded"]

\* The status each decision is committed as.
Verdict == [late |-> "stale", outrun |-> "stale", dropping |-> "cancelled",
            admitting |-> "succeeded"]

AnswerCommit(w) ==
    LET e == worker[w].run
        pc == worker[w].pc
    IN
    /\ pc \in DOMAIN Verdict
    /\ status' = [status EXCEPT ![e] = Written(worker[w].seen, Verdict[pc], @)]
    /\ reports' = IF pc = "admitting" THEN [reports EXCEPT ![RevisionOf(e)] = e]
                                      ELSE reports
    /\ taskLock' = "free"
    /\ worker' = [worker EXCEPT ![w] = Idle]
    /\ UNCHANGED <<origin, asked, deleted, transport, deletion, sweep>>

\* The call failed or its report was refused: _finish_failed reads the run
\* before it locks the task, and leaves one that has ended already.
Fail(w, c) ==
    /\ worker[w].pc = "calling"
    /\ worker' = IF Surrendered(status[worker[w].run])
                 THEN [worker EXCEPT ![w] = Idle]
                 ELSE [worker EXCEPT ![w].pc = "failing", ![w].why = c]
    /\ UNCHANGED <<rows, reports, deleted, transport, taskLock, deletion, sweep>>

\* mutant of FailureMeans: the task may have been deleted meanwhile.
FailureMeansUndeleted(e, s) == IF Cancelled(e, s) THEN "abandoning" ELSE "recording"

FailureMeans(e, s) == IF deleted \/ Cancelled(e, s) THEN "abandoning" ELSE "recording"

\* ... then waits for the task row, refreshes the run, and does not look again
\* at whether it has ended.
FailLocked(w) ==
    LET e == worker[w].run IN
    /\ worker[w].pc = "failing"
    /\ LockTask(w)
    /\ worker' = [worker EXCEPT ![w].seen = status[e], ![w].pc = FailureMeans(e, status[e])]
    /\ UNCHANGED <<rows, reports, deleted, transport, deletion, sweep>>

\* _fail_within of a run the user or the deletion asked to stop.
AbandonCommit(w) ==
    LET e == worker[w].run IN
    /\ worker[w].pc = "abandoning"
    /\ status' = [status EXCEPT ![e] = Written(worker[w].seen, "cancelled", @)]
    /\ asked' = IF deleted THEN asked \cup {e} ELSE asked
    /\ taskLock' = "free"
    /\ worker' = [worker EXCEPT ![w] = Idle]
    /\ UNCHANGED <<origin, reports, deleted, transport, deletion, sweep>>

\* zhiyan.recovery.automatic_attempt_permitted
InitialAttemptLimit == 2

\* mutant of AutomaticAttemptPermitted: a follow-up may have one of its own.
AutomaticAttemptsPermitted(e, c) ==
    /\ origin[e] # "manual"
    /\ AttemptOf(e) <= InitialAttemptLimit
    /\ c = "recoverable"

AutomaticAttemptPermitted(e, c) ==
    /\ origin[e] = "initial"
    /\ AttemptOf(e) < InitialAttemptLimit
    /\ c = "recoverable"

\* _fail_within of any other run, with the automatic attempt it may earn, in
\* one transaction: a follow-up the indexes refuse takes the failure with it.
FailCommit(w) ==
    LET e == worker[w].run
        c == worker[w].why
        next == <<RevisionOf(e), AttemptOf(e) + 1>>
        failed == [status EXCEPT ![e] = Written(worker[w].seen, "failed", @)]
        followed == [failed EXCEPT ![next] = "queued"]
    IN
    /\ worker[w].pc = "recording"
    /\ IF ~AutomaticAttemptPermitted(e, c)
       THEN /\ status' = failed
            /\ UNCHANGED <<origin, outbox>>
       ELSE IF status[next] = "absent" /\ OneActive(followed)
       THEN /\ status' = followed
            /\ origin' = [origin EXCEPT ![next] = "automatic"]
            /\ outbox' = outbox \cup {next}
       ELSE UNCHANGED <<status, origin, outbox>>
    /\ taskLock' = "free"
    /\ worker' = [worker EXCEPT ![w] = Idle]
    /\ UNCHANGED <<asked, reports, deleted, refused, queue, deletion, sweep>>

\* The process is killed, or an exception nobody catches ends the handler: its
\* transaction is rolled back and the row keeps saying what it said.
WorkerDies(w) ==
    /\ "crash" \in Events
    /\ worker[w] # Idle
    /\ worker' = [worker EXCEPT ![w] = Idle]
    /\ taskLock' = IF taskLock = w THEN "free" ELSE taskLock
    /\ UNCHANGED <<rows, reports, deleted, transport, deletion, sweep>>

-----------------------------------------------------------------------------
(* The sweep for runs nobody came back from *)

\* mutant of Waiting: runs nobody claimed are not looked at.
WaitingClaimed == {"running"}

Waiting == {"running", "queued"}

\* recover_stalled_executions: one query for every waiting row.
SweepSelect ==
    LET waiting == {e \in Runs : status[e] \in Waiting} IN
    /\ sweep = NotSweeping
    /\ waiting # {}
    /\ sweep' = [waiting |-> waiting, expired |-> FALSE,
                 seen |-> [e \in Runs |-> IF e \in waiting THEN status[e] ELSE "absent"]]
    /\ UNCHANGED <<rows, reports, deleted, transport, worker, taskLock,
                   deletion>>

\* What the session holds of a row: what the query loaded, until the first
\* commit expires every row and the next access loads it again.
SweepSees(e) == IF sweep.expired THEN status[e] ELSE sweep.seen[e]

Looked(e, ended) ==
    LET rest == sweep.waiting \ {e} IN
    sweep' = IF rest = {} THEN NotSweeping
             ELSE [sweep EXCEPT !.waiting = rest, !.expired = @ \/ ended]

\* A row of the list that has not waited long enough is left alone.
SweepSpares(e) ==
    /\ e \in sweep.waiting
    /\ Looked(e, FALSE)
    /\ UNCHANGED <<rows, reports, deleted, transport, worker, taskLock, deletion>>

\* A row that has is ended, in a commit of its own; nothing asks again whether
\* it is still waiting.  Time is abstract: a row may be overdue at any sweep,
\* but not by a started_at later than the sweep's own `now`.
SweepEnds(e) ==
    /\ e \in sweep.waiting
    /\ SweepSees(e) = "running" => sweep.seen[e] = "running"
    /\ status' = [status EXCEPT ![e] = Written(SweepSees(e), "failed", @)]
    /\ Looked(e, TRUE)
    /\ UNCHANGED <<origin, asked, reports, deleted, transport, worker, taskLock,
                   deletion>>

-----------------------------------------------------------------------------
Next ==
    \/ \E r \in Revisions : QueueInitial(r) \/ StartManual(r)
    \/ \E e \in Runs :
          \/ Dispatch(e) \/ DispatchRaises(e) \/ FailDispatch(e) \/ CreatorDies(e)
          \/ Cancel(e) \/ Lose(e) \/ SweepSpares(e) \/ SweepEnds(e)
    \/ DeleteRead \/ DeleteCommit \/ SweepSelect
    \/ \E w \in Workers :
          \/ \E e \in Runs : Receive(w, e)
          \/ \E c \in FailureCodes : Fail(w, c)
          \/ Claim(w) \/ VoidClaim(w) \/ Answer(w) \/ AnswerCommit(w)
          \/ FailLocked(w) \/ AbandonCommit(w) \/ FailCommit(w) \/ WorkerDies(w)

Spec == Init /\ [][Next]_vars

(***************************************************************************)
(* Beat schedules the sweep every few minutes and a sweep goes through its   *)
(* list.  A row that is in one sweep after another is overdue in the end, so *)
(* ending it is strongly fair.  Nothing is assumed of workers or the broker. *)
(***************************************************************************)
SweepFairness ==
    /\ WF_vars(SweepSelect)
    /\ \A e \in Runs :
        /\ WF_vars(SweepSpares(e) \/ SweepEnds(e))
        /\ SF_vars(SweepEnds(e))

FairSpec == Spec /\ SweepFairness

(***************************************************************************)
(* A live deployment besides: a handler that started a step finishes it.    *)
(* The task row's lock is granted in the order it was asked for, so waiting *)
(* for it is strongly fair.                                                 *)
(***************************************************************************)
WorkerFairness ==
    /\ WF_vars(DeleteCommit)
    /\ \A w \in Workers :
        /\ WF_vars(Claim(w) \/ VoidClaim(w))
        /\ WF_vars(Answer(w) \/ \E c \in FailureCodes : Fail(w, c))
        /\ SF_vars(FailLocked(w))
        /\ WF_vars(AnswerCommit(w) \/ AbandonCommit(w) \/ FailCommit(w))

LiveSpec == FairSpec /\ WorkerFairness

-----------------------------------------------------------------------------
(* Properties *)

WorkerStates ==
    [pc : {"idle", "claiming", "voiding", "calling", "late", "outrun", "dropping",
           "admitting", "failing", "recording", "abandoning"},
     run : Runs \cup {NoRun},
     seen : Statuses,
     why : FailureCodes \cup {"none"}]

\* Every variable holds a value its column, message or process can hold.
TypeOK ==
    /\ status \in [Runs -> Statuses]
    /\ origin \in [Runs -> {"initial", "automatic", "manual"}]
    /\ asked \subseteq Runs
    /\ reports \in [Revisions -> Runs \cup {NoRun}]
    /\ deleted \in BOOLEAN
    /\ outbox \subseteq Runs
    /\ refused \subseteq Runs
    /\ queue \subseteq Runs
    /\ worker \in [Workers -> WorkerStates]
    /\ taskLock \in Workers \cup {"api", "free"}
    /\ deletion \in [Runs -> Statuses]
    /\ sweep \in [waiting : SUBSET Runs, expired : BOOLEAN, seen : [Runs -> Statuses]]

\* ADR-0005: a report, once accepted, is never replaced, whichever of a
\* Revision's runs answers afterwards: a slow one the sweep gave up on, one
\* that was claimed twice, or a newer one.  uq_zhiyan_reports is therefore a
\* backstop that the lock and the check in _finish_succeeded never reach.
ReportImmutable ==
    [][\A r \in Revisions : reports[r] # NoRun => reports'[r] = reports[r]]_vars

\* A deleted task gains no content: _lock_task serializes the admission of a
\* result with the deletion of the task that owns it.
NoReportAfterDeletion == [][deleted => reports' = reports]_vars

\* ADR-0005: the initial operation runs at most twice.  However many handlers
\* hold the first run, and whatever the user starts beside it, a Revision
\* never has more than two runs its user did not ask for.
InitialBudget ==
    \A r \in Revisions :
        Cardinality({e \in RunsOf(r) : origin[e] # "manual"}) <= InitialAttemptLimit

\* No run waits for ever on a process that is gone: whatever the broker lost
\* and whichever worker died, every run stops being queued or running for good.
EveryRunEnds ==
    \A e \in Runs : <>[](status[e] \notin {"queued", "running"})

\* A requested cancellation ends the run, whichever way its handler comes back.
\* The one exception is a run that had been given up and claimed all the same
\* while a newer one was started: its follow-up is refused, and the refusal
\* rolls back its end.
CancellationHonoured ==
    \A e \in Runs : status[e] = "cancel_requested" ~>
        \/ status[e] \in Terminal
        \/ \E f \in RunsOf(RevisionOf(e)) : AttemptOf(f) > AttemptOf(e)

\* A run succeeds together with its report, in one transaction, and nothing
\* later takes the report away or hands the Revision to another run.
SuccessHasReport ==
    \A e \in Runs : status[e] = "succeeded" => reports[RevisionOf(e)] = e

\* The whole machinery implements the promise of ReportAdmission.
Admission == INSTANCE ReportAdmission WITH
    started <- {e \in Runs : status[e] # "absent"}

ImplementsAdmission == Admission!Spec

-----------------------------------------------------------------------------
(* What the source says and the code does not keep *)

\* stalled.py: the sweep ends the runs nobody came back from, so that none looks
\* like work in progress for ever.
NobodyWaitsForever ==
    \A e \in Runs : status[e] \in Active ~> status[e] \notin Active

\* execution_states.py: a verdict has been reached and written, and nothing may
\* change it afterwards, but for `stale`, which marks an answer not used.
VerdictIsFinal ==
    [][\A e \in Runs : status[e] \in Terminal => status'[e] \in {status[e], "stale"}]_vars

\* ADR-0005: a cancelled run never triggers the automatic attempt.
CancelledRunSpendsNothing ==
    \A e \in asked : <<RevisionOf(e), AttemptOf(e) + 1>> \in Runs =>
        origin[<<RevisionOf(e), AttemptOf(e) + 1>>] # "automatic"
=============================================================================
