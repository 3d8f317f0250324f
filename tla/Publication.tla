---------------------------- MODULE Publication ----------------------------
(***************************************************************************)
(* The publication of one 立言任务 on one 发布目标 (operation               *)
(* publish_preview): the user saves Revisions of the article, confirms a     *)
(* 发布任务 for the newest one and retries a failed one; a handler claims    *)
(* the run, posts the snapshot to Blog and records the answer; the sweep     *)
(* gives up on silent runs.  Blog can neither be asked what it holds nor     *)
(* told that a request repeats another.                                      *)
(*                                                                          *)
(* confirm_publication locks the task's row and retry_publication the 发布   *)
(* 任务's, so each is one step; handlers and dispatch_publication lock       *)
(* nothing and are split where they read and where they commit.             *)
(***************************************************************************)
EXTENDS Naturals, FiniteSets

CONSTANTS
    MaxRevision,    \* bound: how many Revisions are saved
    MaxAttempt,     \* bound: how many runs one 发布任务 may have
    Workers,        \* handler slots of the provider-runs queue
    NoRun,          \* a handler slot that is empty
    Events          \* which of PossibleEvents may happen

Revisions == 1 .. MaxRevision
Attempts == 1 .. MaxAttempt

\* A run by its target, the 发布任务 of a Revision, and its attempt.
Runs == Revisions \X Attempts

\* cancellation: the user stops a run; refusal: a dispatch raises and sends
\* nothing; through: it raises although the message got through; redelivery: the
\* broker hands an id out again; crash: a process dies, or a message is lost.
PossibleEvents == {"cancellation", "refusal", "through", "redelivery", "crash"}

ASSUME ConstantsAssumption ==
    /\ MaxRevision \in Nat
    /\ MaxAttempt \in Nat
    /\ NoRun \notin Runs
    /\ Events \subseteq PossibleEvents

RevisionOf(e) == e[1]

Active == {"queued", "running", "cancel_requested"}
RunStatuses == Active \cup {"absent", "succeeded", "failed", "cancelled"}
Outcomes == {"succeeded", "failed", "outcome_unknown"}
TaskStatuses == Outcomes \cup {"absent", "pending"}

VARIABLES
    saved,          \* number of the newest saved Revision, 0 before the first
    publishTask,    \* publish_tasks.status by Revision
    status,         \* executions.status by run
    knowing,        \* runs started with acknowledge_existing_preview
    previews,       \* Previews Blog has created from each Revision
    outbox,         \* committed runs whose request has not dispatched them yet
    refused,        \* dispatches that raised: the run, and whether its 发布任务 read pending
    queue,          \* run ids the broker still holds
    worker,         \* what each handler is doing, and what it has read
    sweep           \* runs the sweep's query found waiting

requests == <<saved, knowing>>
transport == <<outbox, refused, queue>>
vars == <<requests, publishTask, status, previews, transport, worker, sweep>>

-----------------------------------------------------------------------------
(* Rows *)

RunsOf(r) == {e \in Runs : RevisionOf(e) = r /\ status[e] # "absent"}

\* uq_executions_one_active_per_target
OneActive(st) ==
    \A e, f \in Runs :
        /\ RevisionOf(e) = RevisionOf(f)
        /\ st[e] \in Active
        /\ st[f] \in Active
        => e = f

\* The ORM leaves a column whose new value is the one it read as it is now.
Written(read, new, now) == IF new = read THEN now ELSE new

\* The next run of r's 发布任务, queued and committed.
Queue(r, aware) ==
    LET e == <<r, Cardinality(RunsOf(r)) + 1>> IN
    /\ e \in Runs
    /\ status' = [status EXCEPT ![e] = "queued"]
    /\ OneActive(status')
    /\ outbox' = outbox \cup {e}
    /\ knowing' = IF aware THEN knowing \cup {e} ELSE knowing

Idle == [pc |-> "idle", run |-> NoRun, outcome |-> "none", pending |-> FALSE, seen |-> "absent"]

Init ==
    /\ saved = 0
    /\ publishTask = [r \in Revisions |-> "absent"]
    /\ status = [e \in Runs |-> "absent"]
    /\ knowing = {}
    /\ previews = [r \in Revisions |-> 0]
    /\ outbox = {}
    /\ refused = {}
    /\ queue = {}
    /\ worker = [w \in Workers |-> Idle]
    /\ sweep = {}

-----------------------------------------------------------------------------
(* The API *)

\* save_liyan_revision: the next number, under the task's lock.
Save ==
    /\ saved < MaxRevision
    /\ saved' = saved + 1
    /\ UNCHANGED <<publishTask, status, knowing, previews, transport, worker, sweep>>

MayExistOnBlog == {"succeeded", "outcome_unknown"}

\* _reached_target: may the target hold something of this task already?
ReachedTarget == \E r \in Revisions : publishTask[r] \in MayExistOnBlog

\* confirm_publication: the newest saved Revision, which has no 发布任务 yet, by a
\* user who need not be warned or has been.
Confirm(r, aware) ==
    /\ r = saved
    /\ publishTask[r] = "absent"
    /\ aware \/ ~ReachedTarget
    /\ publishTask' = [publishTask EXCEPT ![r] = "pending"]
    /\ Queue(r, aware)
    /\ UNCHANGED <<saved, previews, refused, queue, worker, sweep>>

\* mutant of Retryable: whatever is not certain may be sent again.
RetryableUnlessPreviewed == {"failed", "outcome_unknown"}

Retryable == {"failed"}

\* retry_publication: the snapshot again.
Retry(r, aware) ==
    /\ publishTask[r] \in Retryable
    /\ aware \/ ~ReachedTarget
    /\ publishTask' = [publishTask EXCEPT ![r] = "pending"]
    /\ Queue(r, aware)
    /\ UNCHANGED <<saved, previews, refused, queue, worker, sweep>>

\* dispatch_publication when the broker takes the message.
Dispatch(e) ==
    /\ e \in outbox
    /\ outbox' = outbox \ {e}
    /\ queue' = queue \cup {e}
    /\ UNCHANGED <<requests, publishTask, status, previews, refused, worker, sweep>>

\* dispatch_publication when the send raises: it reads the run and the 发布任务 ...
DispatchRaises(e) ==
    /\ {"refusal", "through"} \cap Events # {}
    /\ e \in outbox
    /\ outbox' = outbox \ {e}
    /\ queue' \in (IF "refusal" \in Events THEN {queue} ELSE {})
                    \cup (IF "through" \in Events THEN {queue \cup {e}} ELSE {})
    /\ refused' = IF status[e] = "queued"
                  THEN refused \cup {<<e, publishTask[RevisionOf(e)] = "pending">>}
                  ELSE refused
    /\ UNCHANGED <<requests, publishTask, status, previews, worker, sweep>>

\* ... and fails both.
FailDispatch(e, pending) ==
    /\ <<e, pending>> \in refused
    /\ refused' = refused \ {<<e, pending>>}
    /\ status' = [status EXCEPT ![e] = "failed"]
    /\ publishTask' = IF pending THEN [publishTask EXCEPT ![RevisionOf(e)] = "failed"]
                                 ELSE publishTask
    /\ UNCHANGED <<requests, previews, outbox, queue, worker, sweep>>

\* The request dies before it dispatches, or before it fails the run.
CreatorDies(e) ==
    /\ "crash" \in Events
    /\ e \in outbox \cup {f[1] : f \in refused}
    /\ outbox' = outbox \ {e}
    /\ refused' = {f \in refused : f[1] # e}
    /\ UNCHANGED <<requests, publishTask, status, previews, queue, worker, sweep>>

\* cancel_execution knows nothing of 发布任务.
Cancel(e) ==
    /\ "cancellation" \in Events
    /\ status[e] \in Active
    /\ status' = [status EXCEPT ![e] =
         IF @ = "queued" THEN "cancelled" ELSE "cancel_requested"]
    /\ UNCHANGED <<requests, publishTask, previews, transport, worker, sweep>>

-----------------------------------------------------------------------------
(* The worker and Blog *)

\* A message is delivered; _claim reads the run and its 发布任务.
Receive(w, e) ==
    /\ worker[w] = Idle
    /\ e \in queue
    /\ queue' \in {queue \ {e}} \cup (IF "redelivery" \in Events THEN {queue} ELSE {})
    /\ worker' = IF status[e] = "queued" /\ publishTask[RevisionOf(e)] = "pending"
                 THEN [worker EXCEPT ![w] = [Idle EXCEPT !.pc = "claiming", !.run = e]]
                 ELSE worker
    /\ UNCHANGED <<requests, publishTask, status, previews, outbox, refused, sweep>>

\* The broker loses a message.
Lose(e) ==
    /\ "crash" \in Events
    /\ e \in queue
    /\ queue' = queue \ {e}
    /\ UNCHANGED <<requests, publishTask, status, previews, outbox, refused, worker,
                   sweep>>

\* _claim's commit, unless the index refuses it.
Claim(w) ==
    LET after == [status EXCEPT ![worker[w].run] = "running"] IN
    /\ worker[w].pc = "claiming"
    /\ IF OneActive(after)
       THEN /\ status' = after
            /\ worker' = [worker EXCEPT ![w].pc = "posting"]
       ELSE /\ worker' = [worker EXCEPT ![w] = Idle]
            /\ UNCHANGED status
    /\ UNCHANGED <<requests, publishTask, previews, transport, sweep>>

\* mutant of Answers: an answer that never came is taken for a refusal.
AnswersOrRefusals ==
    {<<"succeeded", 1>>, <<"failed", 0>>, <<"failed", 1>>, <<"outcome_unknown", 0>>}

\* mutant of Answers: a request given up on the way is a cancellation.
AnswersOrCancellations == {<<"succeeded", 1>>, <<"failed", 0>>, <<"cancelled", 0>>}

\* What submit makes of a post, and how many Previews Blog has created by then.
\* A connection that failed and a 4xx created nothing; anything else that is not
\* a confirmed Preview may have.
Answers ==
    {<<"succeeded", 1>>, <<"failed", 0>>, <<"outcome_unknown", 0>>, <<"outcome_unknown", 1>>}

Post(w, answer) ==
    LET r == RevisionOf(worker[w].run) IN
    /\ worker[w].pc = "posting"
    /\ previews' = [previews EXCEPT ![r] = @ + answer[2]]
    /\ worker' = [worker EXCEPT ![w].pc = "answered", ![w].outcome = answer[1]]
    /\ UNCHANGED <<requests, publishTask, status, transport, sweep>>

\* _succeed and _finish read the run and its 发布任务.  A Preview of a 发布任务
\* that is no longer pending is recorded nowhere.
FinishRead(w) ==
    LET e == worker[w].run
        pending == publishTask[RevisionOf(e)] = "pending"
    IN
    /\ worker[w].pc = "answered"
    /\ worker' = IF worker[w].outcome = "succeeded" /\ ~pending
                 THEN [worker EXCEPT ![w] = Idle]
                 ELSE [worker EXCEPT ![w].pc = "finishing", ![w].pending = pending,
                                     ![w].seen = status[e]]
    /\ UNCHANGED <<requests, publishTask, status, previews, transport, sweep>>

\* ... and commit.
FinishCommit(w) ==
    LET e == worker[w].run
        outcome == worker[w].outcome
        ended == IF outcome = "succeeded" THEN "succeeded" ELSE "failed"
    IN
    /\ worker[w].pc = "finishing"
    /\ status' = [status EXCEPT ![e] = Written(worker[w].seen, ended, @)]
    /\ publishTask' = IF worker[w].pending
                      THEN [publishTask EXCEPT ![RevisionOf(e)] = outcome]
                      ELSE publishTask
    /\ worker' = [worker EXCEPT ![w] = Idle]
    /\ UNCHANGED <<requests, previews, transport, sweep>>

\* The process is killed, before or after Blog has what it sent.
WorkerDies(w) ==
    /\ "crash" \in Events
    /\ worker[w] # Idle
    /\ worker' = [worker EXCEPT ![w] = Idle]
    /\ UNCHANGED <<requests, publishTask, status, previews, transport, sweep>>

-----------------------------------------------------------------------------
(* The sweep *)

SweepSelect ==
    LET waiting == {e \in Runs : status[e] \in {"running", "queued"}} IN
    /\ sweep = {}
    /\ waiting # {}
    /\ sweep' = waiting
    /\ UNCHANGED <<requests, publishTask, status, previews, transport, worker>>

SweepSpares(e) ==
    /\ e \in sweep
    /\ sweep' = sweep \ {e}
    /\ UNCHANGED <<requests, publishTask, status, previews, transport, worker>>

\* mutant of Released: the 发布任务 of a run that is given up is failed with it.
ReleasedAsFailed(r) ==
    [publishTask EXCEPT ![r] = IF @ = "pending" THEN "failed" ELSE @]

\* _release_source: only a prepared source is told, a 发布任务 is not.
Released(r) == publishTask

\* Whatever became of the run since the query, it is written as failed.
SweepEnds(e) ==
    /\ e \in sweep
    /\ sweep' = sweep \ {e}
    /\ status' = [status EXCEPT ![e] = "failed"]
    /\ publishTask' = Released(RevisionOf(e))
    /\ UNCHANGED <<requests, previews, transport, worker>>

-----------------------------------------------------------------------------
Next ==
    \/ Save
    \/ \E r \in Revisions, aware \in BOOLEAN : Confirm(r, aware) \/ Retry(r, aware)
    \/ \E e \in Runs :
          \/ Dispatch(e) \/ DispatchRaises(e) \/ CreatorDies(e) \/ Cancel(e) \/ Lose(e)
          \/ SweepSpares(e) \/ SweepEnds(e)
          \/ \E pending \in BOOLEAN : FailDispatch(e, pending)
    \/ \E w \in Workers :
          \/ \E e \in Runs : Receive(w, e)
          \/ Claim(w) \/ FinishRead(w) \/ FinishCommit(w) \/ WorkerDies(w)
          \/ \E answer \in Answers : Post(w, answer)
    \/ SweepSelect

Spec == Init /\ [][Next]_vars

(***************************************************************************)
(* A deployment whose processes are up: a request dispatches what it         *)
(* committed, a handler finishes what it started and takes what is queued,   *)
(* and the sweep goes round.                                                *)
(***************************************************************************)
Fairness ==
    /\ WF_vars(SweepSelect)
    /\ \A e \in Runs :
        /\ WF_vars(SweepSpares(e) \/ SweepEnds(e))
        /\ SF_vars(SweepEnds(e))
        /\ WF_vars(Dispatch(e) \/ DispatchRaises(e))
        /\ WF_vars(\E pending \in BOOLEAN : FailDispatch(e, pending))
        /\ SF_vars(\E w \in Workers : Receive(w, e))
    /\ \A w \in Workers :
        /\ WF_vars(Claim(w))
        /\ WF_vars(\E answer \in Answers : Post(w, answer))
        /\ WF_vars(FinishRead(w))
        /\ WF_vars(FinishCommit(w))

FairSpec == Spec /\ Fairness

-----------------------------------------------------------------------------
(* Properties *)

WorkerStates ==
    [pc : {"idle", "claiming", "posting", "answered", "finishing"},
     run : Runs \cup {NoRun},
     outcome : Outcomes \cup {"none"},
     pending : BOOLEAN,
     seen : RunStatuses]

\* Every variable holds a value its column, message or process can hold.
TypeOK ==
    /\ saved \in 0 .. MaxRevision
    /\ publishTask \in [Revisions -> TaskStatuses]
    /\ status \in [Runs -> RunStatuses]
    /\ knowing \subseteq Runs
    /\ previews \in [Revisions -> Nat]
    /\ outbox \subseteq Runs
    /\ refused \subseteq Runs \X BOOLEAN
    /\ queue \subseteq Runs
    /\ worker \in [Workers -> WorkerStates]
    /\ sweep \subseteq Runs

\* A 发布任务 tells the truth about Blog: one that failed created nothing, so it may
\* be sent again, and one that succeeded created exactly one Preview.
OutcomeIsTrue ==
    \A r \in Revisions :
        /\ publishTask[r] \in {"absent", "failed"} => previews[r] = 0
        /\ publishTask[r] = "succeeded" => previews[r] = 1

\* ADR-0001: what may have created a Preview is never tried again, by anyone.
SettledIsFinal ==
    [][\A r \in Revisions :
         publishTask[r] \in MayExistOnBlog => publishTask'[r] = publishTask[r]]_vars

\* Handlers, sweep, retries and cancellations together keep what OnePreview
\* promises of each Revision.
Promise == INSTANCE OnePreview WITH outcome <- publishTask

ImplementsOnePreview == Promise!Spec

-----------------------------------------------------------------------------
(* What the source says and the code does not keep *)

\* One Revision and target pair can never create a second Preview.
PairPreviewedOnce == \A r \in Revisions : previews[r] <= 1

\* _reached_target: of the Revisions of a task that Blog holds, at most one got there
\* without its user having been warned.
Unwarned(r) == \A e \in knowing : RevisionOf(e) # r

SecondPreviewIsKnowing ==
    Cardinality({r \in Revisions : previews[r] > 0 /\ Unwarned(r)}) <= 1

\* A 发布任务 is not left pending for ever.
NobodyPollsForever ==
    \A r \in Revisions : publishTask[r] = "pending" ~> publishTask[r] # "pending"
=============================================================================
