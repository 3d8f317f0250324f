---------------------------- MODULE SourceCapture ----------------------------
(***************************************************************************)
(* One URL or file 来源 of a 任务创建会话: the row, the runs that fetch or    *)
(* parse it, and the flat fee it is charged.  The user retries, replaces,    *)
(* edits and cancels; a handler fills the row; the stalled sweep and the      *)
(* reconciliation of credits go over whatever a handler left behind.         *)
(*                                                                          *)
(* The API's handlers lock the 来源 (or, to cancel, the run) from their first *)
(* read to their commit, so each is one step.  The worker and the two sweeps  *)
(* lock nothing and are split where they read and where they commit.         *)
(***************************************************************************)
EXTENDS Integers, Functions

CONSTANTS
    MaxRun,         \* bound: runs of this 来源
    MaxVersion,     \* bound: input versions of this 来源
    Events          \* which of PossibleEvents may happen

\* crash: a process dies or a message is lost; refusal: a dispatch raises, and
\* its message may have got through all the same.
PossibleEvents == {"crash", "refusal"}

ASSUME ConstantsAssumption ==
    /\ MaxRun \in Nat \ {0}
    /\ MaxVersion \in Nat \ {0}
    /\ Events \subseteq PossibleEvents

Runs == 1 .. MaxRun
Versions == 0 .. MaxVersion
NoRun == 0

\* A capture is never cancel_requested: cancel_execution ends it at once.
Active == {"queued", "running"}
Terminal == {"succeeded", "failed", "cancelled", "stale"}
RunStatuses == {"absent"} \cup Active \cup Terminal

\* The amount of CAPTURE_CREDITS, as the unit of account.
Fee == 1

VARIABLES
    source,         \* status, input_version, active_execution_id and text of the row
    confirmed,      \* confirmed_task_id is set
    run,            \* executions, in the order they were inserted
    undelivered,    \* run ids on their way from their request to a handler
    worker,         \* what the handler is doing, for which run, and what it has read
    sweep,          \* the run the stalled sweep found waiting, and as what
    intake,         \* the credit entry of kind capture that intake writes
    adjustment,     \* the capture or capture_refund entry of each run, 0 for none
    reconciler,     \* the adjustment the reconciliation is about to commit
    overtaken       \* ghost: some commit rested on a status or a sum that had changed since it was read

vars == <<source, confirmed, run, undelivered, worker, sweep, intake,
          adjustment, reconciler, overtaken>>

NoRow == [status |-> "none", version |-> 0, active |-> NoRun, content |-> 0]
NoExecution == [status |-> "absent", version |-> 0, attempt |-> 0, asked |-> FALSE]
Idle == [pc |-> "idle", run |-> NoRun, seen |-> NoExecution, row |-> NoRow, answer |-> FALSE]
NoSweep == [run |-> NoRun, seen |-> "absent"]
NoEntry == [run |-> NoRun, amount |-> 0, seen |-> 0]

Sources == [status : {"none", "processing", "prepared", "failure"},
            version : Versions, active : {NoRun} \cup Runs, content : Versions]
Executions == [status : RunStatuses, version : Versions, attempt : 0 .. MaxRun, asked : BOOLEAN]

TypeOK ==
    /\ source \in Sources
    /\ confirmed \in BOOLEAN
    /\ run \in [Runs -> Executions]
    /\ undelivered \subseteq Runs
    /\ worker \in [pc : {"idle", "claiming", "working", "committing"}, run : {NoRun} \cup Runs,
                   seen : Executions, row : Sources, answer : BOOLEAN]
    /\ sweep \in [run : {NoRun} \cup Runs, seen : {"absent"} \cup Active]
    /\ intake \in {-Fee, 0}
    /\ adjustment \in [Runs -> Int]
    /\ reconciler \in [run : {NoRun} \cup Runs, amount : Int, seen : Int]
    /\ overtaken \in BOOLEAN

Init ==
    /\ source = NoRow
    /\ confirmed = FALSE
    /\ run = [e \in Runs |-> NoExecution]
    /\ undelivered = {}
    /\ worker = Idle /\ sweep = NoSweep
    /\ intake = 0 /\ adjustment = [e \in Runs |-> 0] /\ reconciler = NoEntry
    /\ overtaken = FALSE

-----------------------------------------------------------------------------
(* What the handlers share. *)

\* The row takes the result of this run: it is its active run, of its version.
Matches(row, e) == row.active = e /\ row.version = run[e].version

\* SQLAlchemy's UPDATE names a column only where the new value differs from the
\* loaded one; the row then keeps what another transaction wrote.
Written(loaded, new, now) == IF loaded = new THEN now ELSE new

\* execution_states.surrendered: the run has been ended by somebody else.
Surrendered(execution) == execution.status \in Terminal

\* uq_executions_one_active_per_target
NoneActive(but) == \A e \in Runs \ but : run[e].status \notin Active

\* What the ledger holds against this 来源, refunds included.
Position == intake + SumFunctionOnSet(adjustment, Runs)

\* reconcile_capture: the entry that brings the position to what run e produced,
\* 0 where none is missing or e already has one.
Correction(e, succeeded) ==
    IF adjustment[e] # 0 THEN 0
    ELSE (IF succeeded THEN -Fee ELSE 0) - Position

-----------------------------------------------------------------------------
(* The API. *)

\* The row as a retry or a new input leaves it: only a new version drops the text.
Restarted(version, e) ==
    [status |-> "processing", version |-> version, active |-> e,
     content |-> IF version = source.version THEN source.content ELSE 0]

\* new_url_fetch_execution, _new_file_execution: the next run, of this version.
\* uq_executions_one_active_per_target refuses it while another is active.
Queue(version, attempt) ==
    \E e \in Runs :
        /\ run[e].status = "absent"
        /\ \A earlier \in 1 .. e - 1 : run[earlier].status # "absent"
        /\ NoneActive({})
        /\ run' = [run EXCEPT ![e] = [status |-> "queued", version |-> version,
                                      attempt |-> attempt, asked |-> FALSE]]
        /\ undelivered' = undelivered \cup {e}
        /\ source' = Restarted(version, e)

\* charge_capture: once per 来源, however often intake is replayed.
\* mutant of Charged: a replacement is charged although the 来源 has been.
ChargedAgain == intake - Fee
Charged == IF intake = 0 /\ \A e \in Runs : adjustment[e] # -Fee THEN -Fee ELSE intake

\* owned_source finds no 来源 that a 立言任务 has taken.
InSession == source.status # "none" /\ ~ confirmed

Create ==
    /\ source.status = "none"
    /\ Queue(1, 1)
    /\ intake' = Charged
    /\ UNCHANGED <<confirmed, worker, sweep, adjustment, reconciler, overtaken>>


\* The failed version is tried again; the fee waits for what comes of it.
Retry ==
    /\ InSession
    /\ source.status = "failure"
    /\ Queue(source.version, run[source.active].attempt + 1)
    /\ UNCHANGED <<confirmed, worker, sweep, intake, adjustment, reconciler, overtaken>>


\* Another URL or file under the same 来源: a new version, and no text until
\* its first run succeeds.
Replace ==
    /\ InSession
    /\ run[source.active].status \notin Active
    /\ source.version < MaxVersion
    /\ Queue(source.version + 1, 1)
    /\ intake' = Charged
    /\ UNCHANGED <<confirmed, worker, sweep, adjustment, reconciler, overtaken>>


\* mutant of Edit: any 来源 may be edited.
EditAny ==
    /\ InSession
    /\ source.version < MaxVersion
    /\ source' = [source EXCEPT !.status = "prepared", !.version = @ + 1,
                                !.content = source.version + 1]
    /\ UNCHANGED <<confirmed, run, undelivered, worker, sweep, intake, adjustment, reconciler,
                   overtaken>>
\* The user's own text, under a version of its own; the run stays the one it was.
Edit ==
    /\ InSession
    /\ source.status = "prepared"
    /\ source.version < MaxVersion
    /\ source' = [source EXCEPT !.version = @ + 1, !.content = source.version + 1]
    /\ UNCHANGED <<confirmed, run, undelivered, worker, sweep, intake, adjustment,
                   reconciler, overtaken>>


\* cancel_execution locks the run; it ends a capture at once, whoever works on it.
Cancel(e) ==
    /\ run[e].status \in Active
    /\ run' = [run EXCEPT ![e].status = "cancelled", ![e].asked = TRUE]
    /\ source' = IF Matches(source, e) THEN [source EXCEPT !.status = "failure"] ELSE source
    /\ UNCHANGED <<confirmed, undelivered, worker, sweep, intake, adjustment, reconciler,
                   overtaken>>

\* confirm_task_creation locks the session's 来源 and takes the prepared text.
Confirm ==
    /\ InSession
    /\ source.status = "prepared"
    /\ confirmed' = TRUE
    /\ UNCHANGED <<source, run, undelivered, worker, sweep, intake, adjustment, reconciler,
                   overtaken>>

-----------------------------------------------------------------------------
(* Between the request's commit and a handler. *)

\* The send raised: the request ends the run it has just queued, if it is still
\* queued, and the 来源 that waits for it.
DispatchFails(e) ==
    /\ "refusal" \in Events
    /\ e \in undelivered
    /\ undelivered' \in {undelivered, undelivered \ {e}}
    /\ run[e].status = "queued"
    /\ run' = [run EXCEPT ![e].status = "failed"]
    /\ source' = IF source.active = e THEN [source EXCEPT !.status = "failure"] ELSE source
    /\ UNCHANGED <<confirmed, worker, sweep, intake, adjustment, reconciler, overtaken>>

\* The request or the broker died with the message.
Lose(e) ==
    /\ "crash" \in Events
    /\ e \in undelivered
    /\ undelivered' = undelivered \ {e}
    /\ UNCHANGED <<source, confirmed, run, worker, sweep, intake, adjustment, reconciler, overtaken>>

-----------------------------------------------------------------------------
(* The handler: process_url_fetch, process_file_parse. *)

Receive(e) ==
    /\ e \in undelivered
    /\ worker.pc = "idle"
    /\ undelivered' = undelivered \ {e}
    /\ worker' = IF run[e].status = "queued"
                 THEN [Idle EXCEPT !.pc = "claiming", !.run = e, !.seen = run[e]]
                 ELSE Idle
    /\ UNCHANGED <<source, confirmed, run, sweep, intake, adjustment, reconciler,
                   overtaken>>

\* The claim's commit; the index rolls it back where another run became active.
Claim ==
    LET e == worker.run IN
    /\ worker.pc = "claiming"
    /\ IF NoneActive({e})
       THEN /\ run' = [run EXCEPT ![e].status = "running"]
            /\ worker' = [worker EXCEPT !.pc = "working"]
            /\ overtaken' = (overtaken \/ run[e].status # worker.seen.status)
       ELSE worker' = Idle /\ UNCHANGED <<run, overtaken>>
    /\ UNCHANGED <<source, confirmed, undelivered, sweep, intake, adjustment, reconciler>>

\* The page or the document is read, or it is not; then the run and the 来源
\* are read again.
Answer(ok) ==
    /\ worker.pc = "working"
    /\ worker' = IF Surrendered(run[worker.run])
                 THEN Idle
                 ELSE [worker EXCEPT !.pc = "committing", !.answer = ok,
                                     !.seen = run[worker.run], !.row = source]
    /\ UNCHANGED <<source, confirmed, run, undelivered, sweep, intake, adjustment,
                   reconciler, overtaken>>

\* What becomes of the run, from what was read.
\* mutant of Verdict: a run that was asked to stop is left asked to stop.
VerdictPostponed ==
    IF worker.seen.asked THEN "cancel_requested"
    ELSE IF ~ worker.answer THEN "failed"
    ELSE IF ~ Matches(worker.row, worker.run) THEN "stale"
    ELSE "succeeded"
Verdict ==
    IF worker.seen.asked THEN "cancelled"
    ELSE IF ~ worker.answer THEN "failed"
    ELSE IF ~ Matches(worker.row, worker.run) THEN "stale"
    ELSE "succeeded"

\* What becomes of the 来源: the text, the failure, or nothing.
Filled ==
    LET row == worker.row IN
    IF ~ Matches(row, worker.run) THEN source
    ELSE IF Verdict = "succeeded"
         THEN [source EXCEPT !.status = Written(row.status, "prepared", @),
                             !.content = Written(row.content, run[worker.run].version, @)]
         ELSE [source EXCEPT !.status = Written(row.status, "failure", @)]

\* The commit, with record_execution_cost in its transaction.
Finish ==
    LET e == worker.run IN
    /\ worker.pc = "committing"
    /\ run' = [run EXCEPT ![e].status = Verdict]
    /\ source' = Filled
    /\ adjustment' = [adjustment EXCEPT ![e] = @ + Correction(e, Verdict = "succeeded")]
    /\ overtaken' = (overtaken \/ run[e].status # worker.seen.status)
    /\ worker' = Idle
    /\ UNCHANGED <<confirmed, undelivered, sweep, intake, reconciler>>

Succeed == worker.answer /\ Finish
MarkFailed == ~ worker.answer /\ Finish

WorkerDies ==
    /\ "crash" \in Events
    /\ worker.pc # "idle"
    /\ worker' = Idle
    /\ UNCHANGED <<source, confirmed, run, undelivered, sweep, intake, adjustment,
                   reconciler, overtaken>>

-----------------------------------------------------------------------------
(* recover_stalled_executions, and reconcile_settlements after it. *)

SweepSelect(e) ==
    /\ sweep = NoSweep
    /\ run[e].status \in Active
    /\ sweep' = [run |-> e, seen |-> run[e].status]
    /\ UNCHANGED <<source, confirmed, run, undelivered, worker, intake, adjustment,
                   reconciler, overtaken>>

\* mutant of Released: the 来源 is not told.
ReleasedNothing(e) == source
Released(e) == IF Matches(source, e) THEN [source EXCEPT !.status = "failure"] ELSE source

\* The run is overdue and given up; _release_source tells the 来源 that waits for it.
SweepEnds ==
    LET e == sweep.run IN
    /\ sweep # NoSweep
    /\ run' = [run EXCEPT ![e].status = "failed"]
    /\ source' = Released(e)
    /\ overtaken' = (overtaken \/ run[e].status # sweep.seen)
    /\ sweep' = NoSweep
    /\ UNCHANGED <<confirmed, undelivered, worker, intake, adjustment, reconciler>>

\* _captures_to_reconcile: the last run by version and attempt, once none is active.
\* mutant of Latest: a cancelled run is not one that ended.
LatestUncancelled == {e \in Runs :
    /\ run[e].status \in Terminal \ {"cancelled"}
    /\ NoneActive({})
    /\ \A f \in Runs : run[f].status \in Terminal =>
         \/ run[f].version < run[e].version
         \/ run[f].version = run[e].version /\ run[f].attempt <= run[e].attempt}
Latest == {e \in Runs :
    /\ run[e].status \in Terminal
    /\ NoneActive({})
    /\ \A f \in Runs : run[f].status \in Terminal =>
         \/ run[f].version < run[e].version
         \/ run[f].version = run[e].version /\ run[f].attempt <= run[e].attempt}

ReconcileRead(e) ==
    LET entry == [run |-> e, amount |-> Correction(e, run[e].status = "succeeded"),
                  seen |-> Position] IN
    /\ reconciler = NoEntry
    /\ e \in Latest
    /\ Position # 0 \/ run[e].status = "succeeded"
    /\ entry.amount # 0
    /\ reconciler' = entry
    /\ UNCHANGED <<source, confirmed, run, undelivered, worker, sweep, intake, adjustment,
                   overtaken>>

\* uq_credit_entries_capture_adjustment: a second entry of the run rolls it back.
ReconcileCommit ==
    /\ reconciler # NoEntry
    /\ adjustment' = [adjustment EXCEPT ![reconciler.run] = IF @ = 0 THEN reconciler.amount ELSE @]
    /\ overtaken' = (overtaken \/ Position # reconciler.seen)
    /\ reconciler' = NoEntry
    /\ UNCHANGED <<source, confirmed, run, undelivered, worker, sweep, intake>>

-----------------------------------------------------------------------------
User ==
    \/ Create \/ Retry \/ Replace \/ Edit \/ Confirm
    \/ \E e \in Runs : Cancel(e)

Broker == \E e \in Runs : DispatchFails(e) \/ Lose(e)

Handler ==
    \/ \E e \in Runs : Receive(e)
    \/ Claim
    \/ \E ok \in BOOLEAN : Answer(ok)
    \/ Succeed \/ MarkFailed
    \/ WorkerDies

Sweeps ==
    \/ \E e \in Runs : SweepSelect(e) \/ ReconcileRead(e)
    \/ SweepEnds
    \/ ReconcileCommit

Next == User \/ Broker \/ Handler \/ Sweeps

Spec == Init /\ [][Next]_vars

\* Beat goes round, and nothing else is assumed: handlers may be dead and the
\* broker may lose everything.
FairSpec ==
    /\ Spec
    /\ \A e \in Runs : SF_vars(SweepSelect(e)) /\ WF_vars(ReconcileRead(e))
    /\ WF_vars(SweepEnds)
    /\ WF_vars(ReconcileCommit)

-----------------------------------------------------------------------------
(* Properties. *)

\* The fee of a 来源 is taken once at most and given back once at most for each
\* time it was taken, whichever of intake, handler and reconciliation writes
\* (reconcile_capture: charged the flat fee for as long as it has content).
FeeTakenOnce == overtaken \/ Position \in {-Fee, 0}

\* Nobody watches a spinner for work nobody is doing (stalled.py, _release_source):
\* with beat alone alive, a 来源 that is processing comes to an end.
SpinnerStops == source.status = "processing" ~> source.status # "processing"

\* Who is left without a text is not charged for it (reconcile_capture, 使用条款
\* 3.1), also when the run was cancelled, lost or given up and no handler ever
\* recorded a cost.
NothingForNothing ==
    source.status = "failure" ~>
        \/ source.status # "failure"
        \/ Position = 0
        \/ overtaken

\* The fee is never given back more often than it was taken: a 来源 is "charged
\* nothing when it does not" have content, which is not less than nothing
\* (credits.py:204, reconcile_capture).
FeeGivenBackOnce == Position <= 0

\* The row implements what the rest of task creation relies on, unless a commit
\* was overtaken: no cancellation, replacement, retry, sweep or late answer leaves
\* the text of one input under another (url_fetch_worker.py:170-224, the guards
\* before its commit).
Promised == INSTANCE PreparedSource
    WITH status <- source.status, version <- source.version, content <- source.content

ImplementsPreparedSource == [][overtaken' \/ Promised!Next]_<<source>>
=============================================================================
