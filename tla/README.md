# 立言阁 in TLA+

立言阁 (`liyan`) turns sources a user collects into analysed reports (知言), then into
articles (立言), and publishes those as Blog previews. One FastAPI server, one PostgreSQL
database, one Redis broker, Celery workers on several queues, a beat process that
schedules sweeps, an object store, and four outside parties: an LLM provider,
the web, the Blog and Stripe. This directory models the part where those meet: the rows
several processes read and write without seeing one another.

Paths below are relative to `src/apps/server/src/liyan_server/`.

## 1. Inventory

| Component | State | Operations | Works with |
|---|---|---|---|
| Executions (`database.py`, `execution_states.py`, `execution_dispatch.py`, `celery_worker.py`) | `executions`: target, attempt, origin, status, cancellation time; broker messages | insert + dispatch, claim, finish, cancel | every asynchronous component |
| 知言 runs (`zhiyan/`) | `zhiyan_reports`, one per source Revision, immutable | `queue_initial_runs`, `start_zhiyan_run`, `process_zhiyan_run`, `dispatch_or_fail` | task row (lock), provider, sweep, credits |
| Stalled sweep (`stalled.py`) | none of its own | `recover_stalled_executions`, `_release_source` | every run, prepared sources |
| Cancellation and deletion (`task_creation/url_api.py`, `task_api.py`) | `cancellation_requested_at`, `tasks.deleted_at` | `cancel_execution`, `delete_task` | runs, 发布任务 |
| Publication (`publication/`) | `publish_tasks`: one per Revision and target, snapshot, status | `confirm_publication`, `retry_publication`, `process_publication_run`, `dispatch_publication` | Blog, runs, sweep |
| Source capture (`task_creation/file_api.py`, `url_api.py`, `url_fetch_worker.py`, `file_parse_worker.py`) | `source_preparations`: status, active run, input version | create, replace, retry, fetch/parse, cancel | runs, object store, sweep, credits |
| Task creation (`task_creation/confirmation.py`, `session_api.py`) | `tasks`, `task_versions`, `sources`, `source_revisions` | confirm a session once | prepared sources, 知言, credits |
| Source editing (`source_editing.py`) | edit sessions, task versions | begin, checkpoint, save, discard | tasks, 知言 |
| 立言 articles (`liyan/`) | `liyan_articles`, `liyan_run_results`, numbered Revisions | generate, save, restore | task versions, runs, credits |
| 主题 reports (`theme/`) | `theme_revisions` shared by versions, `theme_reports` | choose, analyse | runs, task versions |
| 提炼主题 (`theme/api.py`, `theme/proposal_worker.py`) | `theme_proposals`, one per press | press, answer, poll | sittings, runs, credits |
| Credits (`credits.py`, `credit_limits.py`, `metering.py`, `credit_reconciliation.py`) | append-only `credit_entries`; `execution_costs` | hold, settle, reconcile, capture fee | runs, billing |
| Billing (`billing/`) | `credit_entries` of kind purchase and clawback | webhook fulfilment, refund, dispute | Stripe, credits |
| Admission limits (`execution_limits.py`) | none | refuse at capacity | runs |
| Retry allowance (`zhiyan/recovery.py`) | creation times of manual runs | `retry_state`, `automatic_attempt_permitted` | runs |
| Cleanup (`cleanup.py`, `object_storage.py`) | objects | expire, purge, collect | everything that ages |
| Health and progress (`worker_health.py`, `run_progress.py`) | heartbeats, progress notes | record | readiness only |
| Adapters and prompts (`zhiyan/deepseek.py`, `zhiyan/acceptance.py`, ...) | none | text to result | workers |
| Web client, extension, migrations | — | — | clients and schema |

What is hard in it:

* **No process is told anything.** A run is a row. The API that queues it, the handler that
  claims it, the sweep that gives it up and the user who stops it all read that row, decide,
  and commit later, at READ COMMITTED, mostly without locking it. The ORM writes the columns
  it changed and compares nothing.
* **Delivery is at least once, or never.** A message may be lost, repeated, or got
  through although the send raised.
* **A dead worker and a slow one look the same.** The sweep guesses, and the guess may be
  wrong: an answer may arrive for a run that was ended.
* **Two locks that do not meet.** Admission of a result and deletion of the task serialize on
  the task's row; cancellation locks the run's.
* **Outside effects cannot be undone.** A Blog preview has no idempotency key; a provider
  call is paid for whether or not its report is used.
* **Money follows runs.** Credits are held before a run and settled after it, by whichever of
  three writers gets there.

What makes each component correct, in a sentence:

| Component | Must hold |
|---|---|
| 知言 runs | one immutable report per Revision; a success has its report; at most two runs nobody asked for; a deleted task gains nothing; every run ends |
| Sweep | every run that waits is ended; a late answer changes no content |
| Cancellation | a requested stop ends the run and spends nothing more |
| Publication | a Preview is never posted twice without the user's knowledge; every 发布任务 is settled |
| Capture | a source shows the answer to its newest input; none stays `processing` |
| Task creation | one task per session; each source analysed once |
| Credits | a hold is settled exactly once; work that failed is free; the balance is the sum of its entries |
| Billing | a payment is credited once; never more is reclaimed than was refunded |
| Articles | a generation has its ground under it while it runs, unless it was ended before; Revisions are one line |
| 主题 | a shared report is about the 来源 of every version that shows it |
| 提炼主题 | a press that shows nothing costs nothing; one press waits in a sitting, and no more than the ceiling, but for requests that race |
| Adapters | every invoiced call of a run that is recorded is billed; a report is judged by what its run opened |
| Retry allowance | at most two manual runs in any 30 minutes |
| Cleanup | nothing alive is removed; no object outlives its row for ever |

## 2. Plan

| Order | Module | What | Composes / implements |
|---|---|---|---|
| 1 (done) | `ReportAdmission`, `ZhiyanRuns`, `ZhiyanRuns_proofs` | 知言 runs, broker, sweep, cancellation, deletion | `ZhiyanRuns` implements `ReportAdmission` |
| 2 (done) | `OnePreview`, `Publication`, `Publication_proofs` | confirm, retry, submit, sweep | `Publication` implements `OnePreview` |
| 3 (done) | `PreparedSource`, `SourceCapture`, `SourceCapture_proofs` | a prepared 来源, its runs, its fee, the sweep's `_release_source`, the reconciliation | `SourceCapture` implements `PreparedSource` |
| 4 (done) | `CreationSession`, `CreationSession_proofs` | the session's requests, uploads, confirmation, cleanup and bucket | a 来源 moves in it as `PreparedSource` says |
| 5 (done) | `CreditLedger`, `CreditLedger_proofs`, with `SumLemmas` | 预扣, 结算, reconciliation, purchases and clawbacks | the money of every run |
| 6 (done) | `TaskVersions`, `Articles`, `Articles_proofs` | versions, 主题 and 立言 runs, Revisions under concurrent saves | `Articles` extends `TaskVersions` |
| 7 (done) | `ThemeProposals`, `ThemeProposals_proofs` | presses of 提炼主题, with the ceiling on active runs | — |
| 8 (done) | `ProviderCalls`, proofs in `ZhiyanRuns_proofs` | the calls of one run, their bill, their evidence | the answers the runs' modules abstract |
| 9 (done) | `RetryPolicy`, proofs in `ZhiyanRuns_proofs` | `retry_state` over a clock | what the retries of the runs' modules abstract |

One passing run per component, two where safety and liveness need different instances.
Theorems, in order: for each component its type invariant and the invariant its users rely
on; the refinements; the window bound of the retry policy. All of these are proved, and every
safety property of every run is stated by a theorem. Modules under proof use no
recursive operator, and keep their parameters as constants with named assumptions.

## 3. The modules

| Module | Role |
|---|---|
| `ReportAdmission` | abstract specification: what 知言 promises a task |
| `ZhiyanRuns` | the runs of 知言: API, broker, handlers, sweep, cancellation, deletion |
| `OnePreview` | abstract specification: what a 发布任务 promises about one Revision on one 发布目标 |
| `Publication` | confirmation, retry, dispatch, handlers, Blog, sweep of one 立言任务 on one 发布目标 |
| `PreparedSource` | abstract specification: what a prepared 来源 promises a session |
| `SourceCapture` | one URL or file 来源: requests, runs, handler, sweep, fee, reconciliation |
| `CreationSession` | one user's session of 来源, its confirmation, its task's end, cleanup and bucket |
| `CreditLedger` | one user's 额度: ledger, admissions, settlements, one Stripe payment |
| `TaskVersions` | one task: edit sessions, versions, 来源 Revisions, 主题 snapshots and runs |
| `Articles` | extends `TaskVersions` with 立言 runs and saved Revisions |
| `ThemeProposals` | presses of 提炼主题 |
| `ProviderCalls` | what one run says to its provider and owes for it |
| `RetryPolicy` | operators only: when a target may be run again |
| `MC*` | the module of that name for TLC: symmetry, and the state constraint where there is one |
| `*_proofs` | the theorems about the module of that name; those about `RetryPolicy` and `ProviderCalls`, on which the runs rest, are in `ZhiyanRuns_proofs` |
| `SumLemmas` | what the sums of the community modules compute, for the proofs about money |

### ZhiyanRuns

State, and the columns it stands for:

| Variable | Code |
|---|---|
| `status`, `origin` | `executions.status`, `.origin`, by run (Revision, attempt); `absent` when there is no row |
| `asked` | `executions.cancellation_requested_at` is set |
| `reports` | `zhiyan_reports` by Revision, as the run behind it |
| `deleted` | `tasks.deleted_at` |
| `outbox`, `refused` | what the creator of a run still has to do after its commit: dispatch it, or fail it because the dispatch raised |
| `queue` | messages in the broker |
| `worker` | what each handler is doing (`pc`), for which run, and what it read (`seen`, `why`) |
| `taskLock` | the task row's `FOR UPDATE`, where a handler holds it across steps |
| `deletion`, `sweep` | what `delete_task` and the sweep have read and not yet written |

A step is what one transaction does atomically, or what it reads before a decision it
commits later. Where the code locks a row from the read to the commit the two are one step
(`Cancel`, `StartManual`); where it does not they are two, and anything may happen between
(`Receive`/`Claim`, `Fail`/`FailLocked`/`FailCommit`, `SweepSelect`/`SweepEnds`). The write
of a column is `Written(read, new, now)`: the ORM leaves the column out of the UPDATE when
the new value equals the one it loaded. A commit that would break
`uq_executions_one_active_per_target` is rolled back whole, and with it everything else its
transaction wrote.

| Action | Code |
|---|---|
| `QueueInitial`, `StartManual` | `queue_initial_runs`, `start_zhiyan_run` |
| `Dispatch`, `DispatchRaises`, `FailDispatch`, `CreatorDies` | `dispatch_or_fail` |
| `Cancel`, `DeleteRead`, `DeleteCommit` | `cancel_execution`, `delete_task` |
| `Receive`, `Claim`, `VoidClaim` | `_claim` |
| `Answer`, `AnswerCommit` | the provider's answer, `_finish_succeeded` |
| `Fail`, `FailLocked`, `AbandonCommit`, `FailCommit` | `_finish_failed`, `_fail_within`, `_automatic_attempt` |
| `SweepSelect`, `SweepSpares`, `SweepEnds` | `recover_stalled_executions` |
| `Lose`, `WorkerDies` | a lost message; a dead process or an uncaught exception |

Abstracted: the provider and the acceptance of its report are an answer, a recoverable
failure or another one; time is the freedom of the sweep to find any waiting row overdue;
the manual-retry clock is a free choice; texts, costs and progress are left out; source
Revisions are always there (nothing deletes one while its task lives).

### Publication

| Variable | Code |
|---|---|
| `saved` | the newest saved Revision (`load_history(...).current`) |
| `publishTask` | `publish_tasks.status` by Revision; `absent` when there is no row |
| `status` | `executions.status` by run (Revision, attempt) |
| `knowing` | the runs started with `acknowledge_existing_preview` |
| `previews` | how many Previews Blog has created; no column holds it |
| `outbox`, `refused`, `queue`, `sweep` | as in `ZhiyanRuns`; a refused dispatch also remembers whether it read a pending 发布任务 |
| `worker` | what each handler is doing, for which run, Blog's answer, and the two statuses it read |

| Action | Code |
|---|---|
| `Save` | `save_liyan_revision` |
| `Confirm`, `Retry` | `confirm_publication`, `retry_publication` up to their commit |
| `Dispatch`, `DispatchRaises`, `FailDispatch`, `CreatorDies` | `dispatch_publication` |
| `Receive`, `Claim` | `_claim` |
| `Post` | `LsforumBlogSubmitter.submit` and `accept_preview_response`: the answer, and what Blog has created by then |
| `FinishRead`, `FinishCommit` | `_succeed`, `_finish`, `_unknown` |
| `Cancel` | `cancel_execution`, which ends or marks the run and leaves the 发布任务 alone |
| `SweepSelect`, `SweepSpares`, `SweepEnds` | `recover_stalled_executions`; `Released` is what `_release_source` does to a 发布任务: nothing |

`confirm_publication` holds the task's row and `retry_publication` the 发布任务's from the
first read to the commit, so each is one step; what `_reached_target` reads besides is
unlocked, but a status that becomes `succeeded` in between might as well have become so
afterwards. Taken from Blog: a refused connection and a 4xx created nothing, everything
else that is not a confirmed Preview may have.

Left out: replays of an idempotent request, the capacity check, which targets are offered to
whom, a new task version and the deletion of the task.

### SourceCapture

One 来源, so that retries, replacements, edits, cancellation, sweep and reconciliation all
meet on one row. A file 来源 takes the same steps as a URL.

| Variable | Code |
|---|---|
| `source` | `source_preparations.status`, `.input_version`, `.active_execution_id`, and the version whose text the row holds |
| `confirmed` | `confirmed_task_id` is set |
| `run` | `executions` of the 来源, in the order they were inserted |
| `undelivered`, `worker` | ids on their way to a handler; what the handler read and has not written |
| `sweep`, `reconciler` | what the two beat tasks have read and not yet written |
| `intake`, `adjustment` | `credit_entries` of kind capture and capture_refund |

| Action | Code |
|---|---|
| `Create`, `Retry`, `Replace`, `Edit`, `Cancel`, `Confirm` | the handlers of `url_api.py`, `confirm_task_creation` |
| `DispatchFails`, `Lose`, `WorkerDies` | a send that raised, a lost message or sender, a dead process |
| `Receive`, `Claim`, `Answer`, `Succeed`, `MarkFailed` | `process_url_fetch` and `process_file_parse`, split where they read and where they commit |
| `SweepSelect`, `SweepEnds` | `recover_stalled_executions` with `_release_source` |
| `ReconcileRead`, `ReconcileCommit` | `_captures_to_reconcile`, `reconcile_capture` |

A request locks the 来源 (a cancellation: the run) from its first read to its commit and is
one step. Fetching and parsing give a text or do not. `overtaken` is a ghost: some commit
rested on a run's status, or on a sum of entries, that had changed since it was read. It is
in the properties because the code does not keep them when that happens (section 5), and
the run shows that nothing else breaks them.

### CreationSession

| Variable | Code |
|---|---|
| `row` | `source_preparations`: status, version, identity (normalised URL or hash), object key, task |
| `objects` | keys in the bucket |
| `upload` | the async handler that holds the owner's row, and its 来源's, while it awaits its file |
| `loopWaits` | the row the event loop is blocked on: the owner's, or that of the file to be replaced |
| `refused` | for each request that was refused after it had locked rows: those rows, until its session closes |
| `removal` | a `delete` handler between emptying the bucket and its commit |
| `task` | the 立言任务 made under each idempotency key: live, deleted or purged |
| `cleaner` | what `run_cleanup` has read and not yet written |

| Action | Code |
|---|---|
| `CreatePasted`, `EditPasted`, `CreateUrl`, `ReplaceUrl`, `Retry`, `EditContent` | `session_api.py`, `url_api.py` |
| `CreateFileStores`/`CreateFileCommits`, `ReplaceFileReads`/`ReplaceFileStores`/`ReplaceFileCommits` | `file_api.py`: bytes, then bucket, then row |
| `CreateFileCollides` | the `IntegrityError` of that insert: rolled back, the object deleted, the 来源 that has the identity answered |
| `ReplaceFileWaits`, `ReplaceFileGoesOn` | `owned_source(..., lock=True)` of a replacement finds the 来源's row taken, and the event loop stands until it gets it |
| `UploadArrives` | any upload's `lock_owner`, from the event loop, while the owner's row is kept by another upload or by a refused request |
| `Refuse`, `RefusedExits` | a request of a thread raises, or answers without a commit, with rows locked; the event loop closes its session (`Database.session`) |
| `DeleteForgets`/`DeleteCommits`, `Confirm`, `DeleteTask` | the deletion of a 来源, `confirm_task_creation`, `delete_task` |
| `ExpireJudges`/`ExpireForgets`/`ExpireCommits`, `PurgeForgets`/`PurgeCommits`, `CollectReads`/`CollectDeletes` | the three sweeps of `run_cleanup`, object before row |
| `CaptureEnds` | what `SourceCapture` makes of a 来源 that is processing |
| `ApiDies`, `CleanupDies` | a process dies between two of those |
| `HungApiRestarts` | a deployment that no longer answers its health check is restarted (`docs/operations/environments.md:82`) |

A handler that keeps the owner's row to its commit is one step. One that is refused keeps
the rows it has locked until its session dependency exits, and for a handler of a thread that
is work for the event loop: the loop may be blocked by an upload just then, which takes its own
locks on the loop itself. Then it waits for what only it would let go of, and `Hung` says so:
on the owner's row in any case, on a 来源's when a refused request keeps it (a removal or a
cleanup that keeps it commits without the loop). A refused request takes
all of its rows at once (`Lockable`), and a refused upload, whose own coroutine lets go, keeps
none. The age of rows and objects
is the freedom of the cleanup to find any row old enough, and `Young` is what the age of an
object is for: what an upload has written and not yet committed. `overtaken`: the cleanup
removed what had changed since it judged.

### CreditLedger

| Variable | Code |
|---|---|
| `holds`, `settles`, `money` | `credit_entries` by kind; append-only, so a set or a flag for each reference |
| `run`, `cost` | `executions.status`, and `execution_costs.charge_credits`, as far as money depends on them |
| `toQueue`, `batch`, `starting` | a confirmation or a request between reading the balance and its commit, and between its commit and the queueing |
| `settling` | the reconciliation between its read and its commit |
| `payment`, `pending` | the payment at Stripe, and the webhooks it still repeats |
| `missed` | ghost: a reversal was acknowledged before its purchase |

`BatchChecks`/`BatchCommits` and `StartChecks`/`StartCommits` are the admissions of
`credit_limits.py`, split because two kinds of admission hold no lock in common.
`Succeed`, `Fail` and `LateAnswer` end a run with `record_execution_cost`, which may swallow
its own failure; `SweepEnds` ends one without. `ReconcileReads`/`ReconcileCommits` are
`reconcile_settlements`. A webhook is one step (`Deliver`): its handler awaits nothing
between reading the ledger and its commit. What a refund of so many units takes back is the
constant `Shares`: `_reclaim` computes it in floats and rounds it down, and the module only
asks that a larger refund takes no less and none more than the pack; the runs give it the
exact share, rounded down. The rate card's arithmetic is left out.

### TaskVersions and Articles

| Variable | Code |
|---|---|
| `versions`, `current`, `deleted` | `task_versions`, `tasks.current_version_id`, `tasks.deleted_at` |
| `sources`, `themes` | `source_revisions` with the state of their 知言, and `theme_revisions` with their report; versions share both |
| `edits` | `source_edit_sessions` with the base they were opened on |
| `runs` | 主题 and 立言 `executions` in order of creation, each with what its handler has read |
| `revisions`, `writers` | `liyan_revisions` by version, and requests between reading the newest one and committing |

`CreateEdit`, `Discard`, `SaveCommits`, `Restore`, `Delete`, `Generate`,
`RetrySource`, `RetryTheme` are the requests; those that hold the task's row from the first
read are one step. A save reads its edit session before the row, so `SaveCommits` takes one
that may have been saved or discarded since. What follows a save after
its commit, `QueueSource` and `QueueTheme`, comes at any later time, any number of times or
never. `ClaimReads`, `ClaimTheme`/`ClaimArticle` and `ClaimCommits` are `_claim` of the two
workers, which locks nothing: it reads the run as queued, judges it by what it reads next, and
commits `running` or `failed` over whatever the run has become, unless another active run of
the target lets the index refuse the commit. `Succeed*` and `FailReads`/`FailCommits` are the
rest of the handlers; a success takes the task's row and is one step, a failure reads its run
before it waits for the row. `overtaken`, a ghost in each run, says that a cancellation or a
sweep ended the run between the read and the commit of its claim.
`SaveRevision`, `RestoreRevision` and `CommitRevision` are the requests of `liyan/api.py`
that write a Revision: they lock nothing, and the unique numbers and keys decide. The 知言
runs of a 来源 Revision are one state here (`SourceRunEnds`); `ZhiyanRuns` has their life.

### ThemeProposals

`shown` is what the 来源 of a sitting read as; `presses` is `theme_proposals`, each with its
run and its 预扣; `request`, `handler` and `sweep` hold what was read and not yet written.
`PressReads`/`PressCommits` are `propose_session_themes`; `ClaimReads`/`ClaimCommits`,
`FinishReads`/`FinishCommits` are `process_theme_proposal_run`, by several handlers of a
redelivered message; `Cancel`, `SweepReads`/`SweepEnds`, `Reconcile` are whoever else ends a
run or settles it; `Shown` is what a client that polls is told. The ceiling on active runs
is `AtCapacity`; a ceiling of 0, which means none, is not modelled.

### ProviderCalls

One run's conversation. `CallFails`, `Unusable`, `StopsSearching` (the provider stopped in
the middle of its searching and is asked again, the last time without tools) and
`WritesReport` are the answers `DeepSeekZhiyanProvider.analyze` tells apart; `WritesArticle`
is `process_liyan_run` with `_repaired`. `tally` and `actions` are `_RunTally`, `bill` is the
usage `record_execution_cost` is given. `trail` and `invoiced` are ghosts: what the provider
did, and which calls reported a usage, kept beside the code so that what the code kept can
be compared. `SweepsCall` is the sweep, which ends a run that has been calling for too long and
tells its handler nothing; `Recorded` is what is left of a bill then: `_finish_failed` returns
before it records anything when the run was ended by somebody else, and `_finish_succeeded`
records what the late answer cost. The JSON of a response is data.

### RetryPolicy

The operators of `zhiyan/recovery.py`, over histories of creation times in seconds; `liyan`
and `theme` share them. No state, no run: the theorems are what is shown of it. In the
runs' modules a retry may be asked for at any time, which allows more than the clock does.

## 4. The runs

| Run | Instance | Shows |
|---|---|---|
| `zhiyan_admission` | 1 Revision, 2 handlers, 3 attempts; manual runs, deletion, redelivery, crashes | the safety properties and the refinement |
| `zhiyan_ends` | 2 Revisions, 1 handler, 2 attempts; crashes, deletion; sweep fairness only | `EveryRunEnds` |
| `zhiyan_cancellation` | 1 Revision, 2 handlers, 2 attempts; manual runs, cancellation, refused dispatches; live handlers | `CancellationHonoured` |
| `publication_preview` | 2 Revisions, 2 handlers, 2 attempts; cancellations, refusals, crashes | `OutcomeIsTrue`, `SettledIsFinal`, `ImplementsOnePreview` |
| `captures` | 2 runs, 3 versions; crashes, refused dispatches; beat fairness only | `FeeTakenOnce`, `SpinnerStops`, `NothingForNothing`, `ImplementsPreparedSource` |
| `session` | a pasted 来源, 2 URLs, a file, a session of 2; crashes, overlapping uploads | `SessionBounded`, `ConfirmedKept`, `FileKept` |
| `session_cleanup` | a pasted 来源 and a file; crashes, overlapping uploads, refused requests | `OrphansGo`, `DeletedPurged`, `OwnerComesFree` |
| `ledger_money` | a report and an article of 2 generations; a payment refundable in 2 parts | `PaymentCountedOnce`, `DebtBounded` |
| `ledger_settles` | a report and an article, 2 attempts each, 3 runs; no payment | `SettledAtCost`, `EveryHoldSettles` |
| `provider_calls` | 2 pages, 2 continuations; a sweep | `EveryCallBilled`, `EvidenceIsOfTheRun` |
| `articles` | 2 versions of 1 来源 with 2 texts and a 主题, 3 runs, 2 writers, 3 keys | `ThemeAnswersItsSources`, `GenerationKeepsItsVersion`, `RevisionsLinear` |
| `proposals` | a session of each kind, 2 requests, 2 handlers, ceiling 2, 4 presses | `EmptyPressesAreFree`, `PressesUnderCeiling`, `OnePressAtATime` |

Safety runs also check the type invariant. Each cfg switches deadlock checking off because
the system may really stop: every attempt used up, a user who asks for nothing more.

**Bounds, and why they are enough.**

* `zhiyan_*`: `MaxAttempt` is the only bound. Three is what the budget needs, two runs nobody
  asked for and a third that would break it. Two handlers are what a race of two claims
  needs, two Revisions what the sweep's list needs, whose second row is read again after the
  first one's commit; runs of different Revisions share nothing else but the task's lock.
* `publication_preview`: the warning is about a second Revision, a second attempt is what a
  retry is. That no Revision is posted twice is part of `ImplementsOnePreview` here, and a
  theorem of its own (`PreviewedOnce`). It excludes two events under which the code breaks what it promises, a send that
  raises after its message got through (`through`) and one message delivered twice
  (`redelivery`); section 5 has both. With these excluded it shows that nothing else does.
* `captures`: a second run is what a retry, a replacement and a late answer need; the third
  version is an edit after a replacement.
* `session`: four 来源 of three kinds for two places, two of them of one kind with one
  identity, so that capacity and uniqueness both refuse; one replacement of the file. Without
  refused requests: they write nothing, and only keep others waiting; the theorems have them.
* `session_cleanup`: each sweep has one row or object to lose to a crash; without URLs,
  which leave no objects. One file is enough for a replacement to meet a refused request, a
  removal or a cleanup on its row, and for a second upload to meet it on the owner's.
* `ledger_money`: two admissions that share no lock on a balance that admits one; a
  refund in two parts and a dispute reach every order of three reversals around a purchase
  that two events report. `ledger_settles`: an automatic second attempt and a second
  target; costs below, above and without a number.
* `provider_calls`: `MAX_SEARCH_CONTINUATIONS` in the code is 2 as well; two pages tell
  "opened in another call" from "opened in none".
* `articles`: a version that shares its 来源 or its 主题 with the other, or changes either,
  and a run beside its retry and an automatic attempt. `Bounded` (a state constraint, in
  `MCArticles`) lets any two runs meet at every step of their handlers, and a third only follow
  a 主题 run that succeeded, with no other handler at work: that is how an article, which needs
  the report, gets its second attempt. Revisions are saved beside one run at most and no
  handler, and three of them: a save of a Revision and a run touch no row in common.
* `proposals`: two requests are a race, the ceiling of 2 lets three presses wait and not the
  fourth, and the two sittings tell the rule for each from the rule for all. `Bounded`
  (`MCThemeProposals`) lets two handlers work while there is one press and asks that a third
  and a fourth press find the others unclaimed: handlers of different presses share no row.

**Fairness.** No fairness is ever assumed of a user, of a redelivery or of a crash.

* `ZhiyanRuns!FairSpec`: beat and nothing else. A sweep starts when something waits
  (`beat_schedule`), goes through its list, and finds a row overdue in the end if it is in
  one sweep after another, hence strong fairness of `SweepEnds(e)`. Workers may all be dead
  and the broker may lose everything. `LiveSpec` adds handlers that finish what they
  started, and a row lock that is granted in the end to one who waits.
* `SourceCapture!FairSpec`: beat's stalled sweep and reconciliation, nothing else.
* `CreationSession!FairSpec`: beat starts a cleanup every so often and some cleanup reaches
  each of its sweeps alive (strong fairness, since a crash may end any one of them); a
  handler that waits for nobody goes on to its commit, and an event loop that waits for
  nobody closes the sessions it has to close. What no code in the server does is to end a loop
  that waits for itself: `WF_vars(HungApiRestarts)` is the deployment's doing, whose health
  check is a request to that same loop (`render.yaml`, `docs/operations/environments.md:82`,
  "a deployment that cannot serve is restarted"). `OwnerComesFree` holds by it in that case,
  and by the handlers' own steps in every other.
* `CreditLedger!FairSpec`: a request's transaction commits, the queueing after a
  confirmation runs or is given up, the stalled sweep and the reconciliation go round, Stripe
  repeats a webhook until it is answered.

## 5. Where the source says one thing and does another

Each is in `PROJECT.json` under `findings`, with the line it is quoted from. The passing runs
and the theorems hold with these behaviours in the models, or say which event they exclude.
Some of the sentences are properties of their own, under "What the source says and the code
does not keep" in `ZhiyanRuns` and `Publication` and at the end of `SourceCapture` and
`CreditLedger`; no run states them. To see one fail, add it to the cfg of its module with the
events in brackets.

知言 runs:

* A verdict is not final: `_claim` can put an ended run back to `running`
  (`VerdictIsFinal`; one handler is enough).
* A cancelled run can trigger the automatic attempt, when the cancellation commits between
  the refresh and the commit of `_finish_failed` (`CancelledRunSpendsNothing`; `cancellation`).
* A run in `cancel_requested` whose handler died waits for ever (`NobodyWaitsForever`;
  `cancellation`, `crash`, `FairSpec`).

Publication:

* A dispatch that raised is taken for one that sent nothing, and makes the 发布任务
  retryable while a handler posts it (`PairPreviewedOnce`; `through`). Two handlers of one
  redelivered message both post (`redelivery`).
* `_MAY_EXIST_ON_BLOG` leaves out `pending`, so nobody is warned of a Preview on its way
  (`SecondPreviewIsKnowing`; no event).
* The sweep fails the run of a dead handler and leaves its 发布任务 pending for ever
  (`NobodyPollsForever`; `crash`, `FairSpec`).

Capture and sessions:

* The fee of a 来源 can be given back twice, when the reconciliation computed a refund from a
  sum that a late failure changed (`FeeGivenBackOnce`; no event).
* A late fetch writes `succeeded` over `cancelled` (the `overtaken` of
  `ImplementsPreparedSource`).
* A 来源 that was refunded and is retried or replaced is charged again without
  `refuse_when_short` being asked.
* Uploads stop the API's event loop: a second one of the same user asks on the loop for the row
  that the first keeps (`overlap`), and one alone is enough when a refused request keeps the
  owner's row or the 来源's (`refusal`), although `file_api.py` says it holds the row "whatever
  else its user does meanwhile". Nothing but the restart of the API ends it: `OwnerComesFree`
  is false without `WF_vars(HungApiRestarts)`.
* An expiry empties the bucket before its row: a confirmation in between keeps the row and
  loses the file, and the foreign key then ends the whole cleanup. `cleanup.py:161-164`
  judges by rows read once: a retry that queues a run after that loses its 来源. A purge
  leaves the executions of the task's 主题 runs.

Credits:

* A report whose first attempt failed is free when the automatic second succeeds
  (`ReportPaidOnce`).
* Racing admissions overspend (`DebtBounded` says by how much), though `credits.py:38` says
  only a clawback does.
* A refund told before its purchase is answered and forgotten (`missed`).

Versions, articles, 主题:

* `delete_task` leaves 主题 runs queued or running.
* A late `queue_initial_runs`, or the automatic attempt of a failed handler, can be queued
  for a version that is no longer current; its claim refuses it. But the claim reads the run and
  the current version without a lock, and commits `running` later: when a cancellation or a
  sweep ends the run in between, a save or a restoration finds no active run and moves the
  task on, and the claim then brings the run back for a version that is no longer current; or
  it brings back what the deletion of the task has just ended (the `overtaken` of `GenerationKeepsItsVersion`; `cancellation` or `sweep`). A
  redelivered 立言 run that answers twice turns its own `succeeded` into
  `stale`; the article stays. One edit session saved twice queues its first runs twice, and
  the index drops the second.
* Two presses of one sitting can both wait, and the ceiling on active runs is exceeded by a
  batch for each request that overlaps, not by one batch.

Provider:

* A run that the sweep ended while it was calling, and whose next call fails, records nothing
  of any of its calls (the `swept` of `EveryCallBilled`), although `theme/proposal_worker.py:11`
  says that every call is costed "whatever became of it". Three calls of fifteen minutes each
  outlast the sweep's half hour.
* A repair of an article that raises is billed for the first call only: what the second came to
  before it failed is dropped (`EveryCallBilled` is about reports and presses for this reason).
  A third call of a report is told what the second did and not the first.
* `Retry-After` is rounded down (`zhiyan/api.py:667`, `liyan/api.py:877`): who waits exactly
  that long may come a fraction of a second before the `allowed_at` of `MomentIsKept` and be
  refused once more.

## 6. The proofs

### ZhiyanRuns_proofs

For every set of Revisions and workers, every `MaxAttempt` and every
set of events, from `ConstantsAssumption` alone:

| Theorem | Property |
|---|---|
| `TypeCorrect` | `TypeOK` |
| `ReportsImmutable` | `ReportImmutable` |
| `DeletedGainsNoReport` | `NoReportAfterDeletion` |
| `SuccessKeepsReport` | `SuccessHasReport` |
| `BudgetKept` | `InitialBudget` |
| `Refinement` | `ImplementsAdmission` |

None of these is inductive. A handler decides in one step and commits in another, and the
commit is right only because what the decision rested on still holds. The invariant `Inv`
says so: `Types` (the types, and that a busy handler has a run and an idle one none) and
`Decided`: whoever is between decision and commit holds the task's lock (`LockHeld`); a
handler about to admit still finds no report and no deletion (`AdmissionStands`); one about
to record a failure and its follow-up still finds the task undeleted (`FollowUpStands`); a
deletion that is under way has not happened (`DeletionStands`). `ReportsImmutable`,
`DeletedGainsNoReport` and `Refinement` follow step by step from it. The budget needs one
more fact, `AutomaticIsSecond`: an automatic run is a second attempt; then the runs nobody
asked for are within {first, second} and there are at most two.

### Publication_proofs

For every `MaxRevision`, `MaxAttempt` and set of workers, from `ConstantsAssumption` and
`Reliable`: the events do not include `through` and `redelivery`, under which the properties
are false (section 5).

| Theorem | Property |
|---|---|
| `TypeCorrect` | `TypeOK` |
| `OutcomesAreTrue` | `OutcomeIsTrue` |
| `PreviewedOnce` | `PairPreviewedOnce` |
| `SettledStaysSettled` | `SettledIsFinal` |
| `Refinement` | `ImplementsOnePreview` |

A handler reads the 发布任务, posts, reads again and writes, and locks nothing; nor does a
refused dispatch. What makes that right is not in any row: there is never anyone else. The
invariant `Inv` says it as `Carried`: a pending 发布任务 is carried towards Blog by one thing at
most (a request about to dispatch, a refused dispatch, a message, a handler), and a settled
one by nothing (`CarriedIsPending`, `OneKind`, `OneOfAKind`). Only a confirmation or a retry
makes a carrier, and both find the 发布任务 absent or failed, hence uncarried. `Accounted` then
says how many Previews Blog holds at each stage, and the properties are read off it. The
statuses of the runs play no part in the argument: the sweep and a cancellation may write
them as they like. That is also why both of the excluded events break it, each by making a
second carrier.

### ProviderCalls (in ZhiyanRuns_proofs)

For every set of pages and every `MaxContinuations`, from `CallsAssumption`:

| Theorem | Property |
|---|---|
| `CallTypesCorrect` | `TypeOKCalls` |
| `ReportsBilledWhole` | `EveryCallBilled` |
| `EvidenceJudgedByRun` | `EvidenceIsOfTheRun` |

The properties speak of runs that have ended. The invariant says what must be true of one
that is still calling for them to come true: the tally holds exactly the calls that reported
a usage, the actions it keeps are what the provider did in all calls but the reasoning, and
nothing has been billed. Each way of ending then hands over the tally whole, and it is recorded
unless the run failed and the sweep had ended it before; `ReportsBilledWhole` says nothing of
such a run.

### ThemeProposals_proofs

For any sittings, texts, requests (finitely many), handlers, ceiling and number of presses,
from `ConstantsAssumption`; the state constraint of the run plays no part here:

| Theorem | Property |
|---|---|
| `TypeCorrect` | `TypeOK` |
| `EmptyIsFree` | `EmptyPressesAreFree` |
| `CeilingIsKept` | `PressesUnderCeiling` |
| `SittingsPressOnce` | `OnePressAtATime` |

A press goes wrong only through a handler that writes what it read before: the invariant
`Inv` says of each press that one nobody has claimed has no candidates and was not asked to
stop (`Sound`), and of each handler that what it is about to write rests on a claim
(`Grounded`). So nobody holds candidates for a press that can still be cancelled unclaimed.
The bounds need another invariant, `Room`: it counts the presses that wait together with the
requests that have looked and not committed. A request adds itself only when it finds room,
a commit turns one that was coming into one that waits, and nothing else ever queues a press.

### SourceCapture_proofs

For every number of runs and of input versions and every set of events, from
`ConstantsAssumption`:

| Theorem | Property |
|---|---|
| `TypeCorrect` | `TypeOK` |
| `FeeOnce` | `FeeTakenOnce` |
| `RowImplements` | `Promised!Init` and `ImplementsPreparedSource` |

Two parts of the invariant `Inv` hold always: runs come one after the other (`RunsInOrder`),
and whoever is at work is at work on a run that there is (`Grounded`). Two hold until a commit
is overtaken: the row is processing exactly while a run is active, that run is the one the row
waits for, and so the row a handler has read is still the row (`InStep`); and the entries add
up to the fee or to nothing, an adjustment under way leading from the one to the other
(`Money`). `FeeTakenOnce` is a sum over all runs, so `Money` rests on `SumLemmas`: an entry of
one run moves the position by that entry.

### CreationSession_proofs

For any 来源, identities, keys and bounds, from `ConstantsAssumption`:

| Theorem | Property |
|---|---|
| `TypeCorrect` | `TypeOK` |
| `Bounded` | `SessionBounded` |
| `ConfirmedStays` | `ConfirmedKept` |
| `FilesStay` | `FileKept` |

The bound is not inductive: an upload decides that there is room, awaits the bucket and only
then adds its row. The invariant `IInv` therefore counts its place from then on (`Room`), which
the owner's row keeps free of others: an upload holds it, and a refused request that keeps it
adds nothing. `UploadsSound`, `RemovalSound` and `TargetSound` say what
whoever is at work was let in for, so that it never commits over a confirmed 来源;
`DoomedSound` and `StoredKept`, that nothing the orphan sweep is about to collect is named or
about to be, unless the cleanup was overtaken.

### SumLemmas

`SumFunctionOnSet` of the community modules is a fold. What it computes, over any finite set
and any function with integer values: its type, that one more element adds its value, that one
written element moves it by the difference, that it is monotone. Each is an induction over
finite sets. The library's induction theorems take an operator and cannot be used here, so the
induction is done on sets of sets: a set of subsets of a finite set that is not empty has a
smallest member (`SmallestSubset`, from `WFMin`), and a smallest counterexample is refuted.

### CreditLedger_proofs

For every number of targets (finite, at least one), versions, attempts and runs, every 预扣,
price, pack and `Shares`, from `ConstantsAssumption` and `SharesAssumption`:

| Theorem | Property |
|---|---|
| `TypeCorrect` | `TypeOK` |
| `SettledCorrectly` | `SettledAtCost` |
| `DebtStaysBounded` | `DebtBounded` |
| `PaymentOnce` | `PaymentCountedOnce` |

The invariant `Inv` has a part for each. `OneLife`: a target has one request under way and one
active run at most, which is its last, so an ended run stays as it ended. `Settlement`: what
the reconciliation computed for a run that was executed is still right when it commits,
because of that. `Flight`: the balance, but for what a clawback or a shortfall took, is
counted together with the 预扣 of every admission that has read it and not committed, a
request's or a confirmation's. An admission that reads adds its own 预扣, but had found the
balance to cover it, and the others in flight are of other targets; its commit moves the 预扣
from the one side to the other; a settlement gives back or is a shortfall.
`Payment`: what is pending has happened, and each reversal that happened and is answered has
been taken back, the largest one deciding (`Shares` being monotone), in any order.

### Articles_proofs

For any texts, 主题, edit sessions, requests and idempotency keys, and any number of versions
and runs, from the assumptions of `TaskVersions` and `WritersAssumption` (finitely many keys);
the state constraint of the run plays no part here:

| Theorem | Property |
|---|---|
| `TypeCorrect` | `TypeOK` |
| `ThemeAnswers` | `ThemeAnswersItsSources` |
| `GenerationKept` | `GenerationKeepsItsVersion` |
| `RevisionsInLine` | `RevisionsLinear` |
| `HistoryStands` | `[][Stands]_vars`, stated beside it |

`Stored`: what a version refers to is there, and its 主题 snapshot was made beside its own
texts; two versions share a snapshot only when they share those. `Table`: a 主题 run read
nothing or what its snapshot was made beside, so whichever run answers, the report is about
the 来源 of every version that shows it; an article is written of a complete version only.
The ground of an article is `RunOK`: a claim that found its run queued and the version
current leads to `running` only while that is still so, since a save and a restoration refuse
while a run of the version is active, which a queued one is, and a deletion ends it; and a run
that was ended in between carries `overtaken` from the claim's commit on. `Lines`: each request that is about to save a Revision holds a base that is in the
line. `HistoryStands` is what the comments of `database.py` and `source_editing.py` call
immutable: no step changes a version, the texts under it, an accepted 主题 report or a saved
Revision, whatever answers late.

### RetryPolicy (in ZhiyanRuns_proofs)

For every history of manual runs whose times are in order, of which no three are within half
an hour, and that is asked about no earlier than its last run (`Good`):

| Theorem | Says |
|---|---|
| `AllowanceKept` | a run that `retry_state` admits leaves the history `Good`, so every history that starts empty stays so |
| `RefusalNamesAMoment` | whoever is refused is told a moment |
| `MomentIsKept` | whoever comes back at that moment or later is admitted |

The lemma they rest on is `InsideIsLast`: only the last two manual runs can be inside the
window, so the minimum the code takes is the time of the last but one. The times must be in
order because they are the database clock of requests that held the target's row, one after
another; a clock that is set back is not covered.

### With TLC only

`EveryRunEnds`, `CancellationHonoured`, `SpinnerStops`, `NothingForNothing`, `OrphansGo`,
`DeletedPurged`, `OwnerComesFree` and `EveryHoldSettles`: liveness under fairness, which is out of
the prover's reach. Every other property of every run is also the statement of a theorem.

## 7. Not modelled

See the notes of the components in `PROJECT.json`. For good: parsing, prompting and
validating text (data, no shared state), authentication and settings, the clients, the
migrations and scripts, heartbeats and progress notes. Left out of modelled components:
the routing of messages to queues, replays of an idempotent request and the hashes that
recognise them, instruction capsules of an article, renaming and listing tasks, the
rate card's arithmetic, malformed or unsigned webhooks, a ceiling of 0, what a purge leaves
of analyses and articles, the acceptance of warnings at a confirmation, and the JSON of
answers. The 知言 runs of a 来源 Revision and the versions of a task are not composed in one
module: a Revision's report is one state in `TaskVersions`, because nothing a version does
touches a 知言 run except its deletion, which `ZhiyanRuns` has.
