----------------------------- MODULE CreditLedger -----------------------------
(***************************************************************************)
(* One user's 额度: the append-only ledger, the 预扣 that admit runs and the   *)
(* 结算 that correct them, the sweep that settles what workers missed, and    *)
(* one payment with its refunds and its dispute, told by Stripe's webhooks.   *)
(*                                                                          *)
(* A 来源 or a 主题 is a report target (input version 1, several attempts); a   *)
(* 立言文章 or a press of 提炼主题 is an article target (a version for each       *)
(* generation).  Runs are seen here only as far as money depends on them:      *)
(* ZhiyanRuns has their lives, SourceCapture has the flat fee of a capture.    *)
(*                                                                          *)
(* An admission reads the balance and commits later, holding no lock that     *)
(* another kind of admission would wait for.  A webhook is handled whole: its  *)
(* handler awaits nothing between reading the ledger and committing.           *)
(***************************************************************************)
EXTENDS Integers, FiniteSets, Functions

CONSTANTS
    Reports, Articles,      \* targets of runs
    MaxVersion,             \* bound: generations of one article
    MaxAttempt,             \* bound: attempts at one input version
    MaxRuns,                \* bound: runs and requests for them, of all targets
    Estimate,               \* 预扣 of one run
    Charges,                \* what a measured run may cost
    Unknown,                \* a charge nobody can put a number to
    SignupGrant, Pack,      \* 赠送额度, and the 额度 of one 额度包
    Price,                  \* the payment, in units a refund can split; 0 when none is made
    Shares,                 \* the 额度 a refund of so many units takes back, as floats round it
    None                    \* no cost row

ASSUME ConstantsAssumption ==
    /\ Reports \cap Articles = {}
    /\ IsFiniteSet(Reports \cup Articles) /\ Reports \cup Articles # {}
    /\ MaxVersion \in Nat \ {0} /\ MaxAttempt \in Nat \ {0} /\ MaxRuns \in Nat
    /\ Estimate \in Nat \ {0} /\ Charges \subseteq Nat
    /\ SignupGrant \in Nat /\ Pack \in Nat \ {0} /\ Price \in Nat
    /\ {Unknown, None} \cap (Charges \cup {0}) = {} /\ Unknown # None

\* A larger refund takes back no less, and none more than the pack.
ASSUME SharesAssumption ==
    /\ Shares \in [0 .. Price -> 0 .. Pack] /\ Shares[0] = 0
    /\ \A m, n \in 0 .. Price : m <= n => Shares[m] <= Shares[n]

Targets == Reports \cup Articles
Run(t, v, n) == [target |-> t, version |-> v, attempt |-> n]
RunKeys == [target : Reports, version : {1}, attempt : 1 .. MaxAttempt]
             \cup [target : Articles, version : 1 .. MaxVersion, attempt : 1 .. MaxAttempt]
Costs == Charges \cup {0, Unknown, None}

Event(type, amount) == [type |-> type, amount |-> amount]
Purchases == {Event("completed", 0), Event("async_payment_succeeded", 0)}
Reversals == {Event("refunded", n) : n \in 1 .. Price} \cup {Event("dispute", 0)}
Events == Purchases \cup Reversals
\* The reference of a purchase is the PaymentIntent, whichever event reported it.
PaymentIntent == Event("payment_intent", 0)

\* What the confirmation of a session admits at once.
Batch == {Run(r, 1, 1) : r \in Reports}

VARIABLES
    holds,      \* 预扣 by run: TRUE when taken
    settles,    \* 结算 by run: the correction and whether an Execution caused it
    money,      \* purchase and clawback entries, by Stripe reference
    run,        \* executions: their status, by run
    cost,       \* charge_credits of execution_costs, by run
    toQueue,    \* report targets confirmed and not yet reached by queue_initial_runs
    batch,      \* the confirmation: whether it has read the balance, and committed
    starting,   \* runs whose request has read the balance and not committed
    settling,   \* the sweep's decision, between its reads and its commit
    payment,    \* the payment at Stripe
    pending,    \* webhooks Stripe has to deliver until it is answered with success
    missed      \* ghost: a reversal was acknowledged before its purchase

ledger == <<holds, settles, money>>
stripe == <<payment, pending, missed>>
vars == <<ledger, run, cost, toQueue, batch, starting, settling, stripe>>

NoSettle == [written |-> FALSE, amount |-> 0, executed |-> FALSE]
Settles == [written : BOOLEAN, amount : Int, executed : BOOLEAN]
Entry(kind, reference, amount) == [kind |-> kind, reference |-> reference, amount |-> amount]
NoDecision == [run |-> None, actual |-> 0, executed |-> FALSE]

TypeOK ==
    /\ holds \subseteq RunKeys
    /\ settles \in [RunKeys -> Settles]
    /\ \A k \in RunKeys : settles[k].written => k \in holds
    /\ money \subseteq [kind : {"purchase"}, reference : {PaymentIntent}, amount : {Pack}]
                 \cup [kind : {"clawback"}, reference : Reversals, amount : -Pack .. -1]
    /\ run \in [RunKeys -> {"none", "active", "succeeded", "failed"}]
    /\ cost \in [RunKeys -> Costs]
    /\ toQueue \subseteq Reports
    /\ batch \in {"open", "checked", "confirmed"} /\ starting \subseteq RunKeys
    /\ settling \in {NoDecision} \cup [run : RunKeys, actual : Costs \ {None}, executed : BOOLEAN]
    /\ payment \in [paid : BOOLEAN, refunded : 0 .. Price,
                    disputed : BOOLEAN]
    /\ pending \subseteq Events
    /\ missed \in BOOLEAN

Init ==
    /\ holds = {} /\ settles = [k \in RunKeys |-> NoSettle] /\ money = {}
    /\ run = [k \in RunKeys |-> "none"] /\ cost = [k \in RunKeys |-> None]
    /\ toQueue = {} /\ batch = "open" /\ starting = {} /\ settling = NoDecision
    /\ payment = [paid |-> FALSE, refunded |-> 0, disputed |-> FALSE]
    /\ pending = {} /\ missed = FALSE

-----------------------------------------------------------------------------
(* The ledger. *)

Moved(kind) == SumFunctionOnSet([e \in money |-> e.amount], {e \in money : e.kind = kind})
Correction == SumFunctionOnSet([k \in RunKeys |-> settles[k].amount], RunKeys)
Remaining == SignupGrant + Moved("purchase") + Moved("clawback")
               - Estimate * Cardinality(holds) + Correction

Found(reference) == \E e \in money : e.reference = reference
ReclaimedAgainst == -Moved("clawback")

\* A 预扣 is dropped when its run already has one.
Hold(K) == holds' = holds \cup K

\* What 结算 makes of a run's 预扣; an unknown charge lets it stand.
Settle(k, actual, executed) ==
    settles' = IF k \in holds /\ ~settles[k].written
               THEN [settles EXCEPT ![k] =
                       [written |-> TRUE, executed |-> executed,
                        amount |-> IF actual = Unknown THEN 0 ELSE Estimate - actual]]
               ELSE settles

-----------------------------------------------------------------------------
(* Admission. *)

Needed(K) == Estimate * Cardinality(K)
\* Mutant: a 预扣 counts only once it is settled.
EnoughForSettled(K) ==
    Remaining + Estimate * Cardinality({k \in holds : ~settles[k].written}) >= Needed(K)

EnoughFor(K) == Remaining >= Needed(K)
Made == Cardinality(holds \cup starting \cup {k \in RunKeys : run[k] # "none"})

Active(t) == \E k \in RunKeys : k.target = t /\ run[k] = "active"
Reported(r) == \E k \in RunKeys : k.target = r /\ run[k] = "succeeded"
Ran(t) == {k \in RunKeys : k.target = t /\ run[k] # "none"}
Latest(t) == CHOOSE k \in Ran(t) : \A j \in Ran(t) :
                j.version < k.version \/ (j.version = k.version /\ j.attempt <= k.attempt)

\* The run a user's own request would start: the first, the next attempt after a
\* failure, or the next generation of an article.
NextRun(t) ==
    IF Ran(t) = {} THEN Run(t, 1, 1)
    ELSE IF run[Latest(t)] = "failed" THEN [Latest(t) EXCEPT !.attempt = @ + 1]
    ELSE Run(t, Latest(t).version + 1, 1)

\* confirm_task_creation holds the owner's row; nothing else here waits for it.
BatchChecks ==
    /\ batch = "open" /\ EnoughFor(Batch)
    /\ batch' = "checked"
    /\ UNCHANGED <<ledger, run, cost, toQueue, starting, settling, stripe>>

BatchCommits ==
    /\ batch = "checked" /\ batch' = "confirmed"
    /\ Hold(Batch)
    /\ toQueue' = Reports
    /\ UNCHANGED <<settles, money, run, cost, starting, settling, stripe>>

\* queue_initial_runs runs after that commit and swallows its own trouble.
QueueInitial(r) ==
    /\ r \in toQueue
    /\ toQueue' = toQueue \ {r}
    /\ run' = IF Ran(r) = {} THEN [run EXCEPT ![Run(r, 1, 1)] = "active"] ELSE run
    /\ UNCHANGED <<ledger, cost, batch, starting, settling, stripe>>

QueueFails ==
    /\ toQueue # {}
    /\ toQueue' = {}
    /\ UNCHANGED <<ledger, run, cost, batch, starting, settling, stripe>>

\* A request for one run: serial for its target, whose row it holds.
StartChecks(t) ==
    /\ t \in Reports => batch = "confirmed" /\ ~Reported(t)
    /\ ~Active(t) /\ \A k \in starting : k.target # t
    /\ NextRun(t) \in RunKeys /\ Made < MaxRuns
    /\ EnoughFor({NextRun(t)})
    /\ starting' = starting \cup {NextRun(t)}
    /\ UNCHANGED <<ledger, run, cost, toQueue, batch, settling, stripe>>

\* Unique indexes refuse a second active run of a target and a second row of a run.
StartCommits(k) ==
    /\ k \in starting /\ starting' = starting \ {k}
    /\ IF Active(k.target) \/ run[k] # "none"
       THEN UNCHANGED <<holds, run>>
       ELSE Hold({k}) /\ run' = [run EXCEPT ![k] = "active"]
    /\ UNCHANGED <<settles, money, cost, toQueue, batch, settling, stripe>>

-----------------------------------------------------------------------------
(* The end of a run, and what it costs. *)

\* A run that produced nothing is free however much it cost.
Charge(succeeded, measured) == IF succeeded THEN measured ELSE 0

\* record_execution_cost, in the transaction that ends the run: settles and leaves
\* the cost row, or swallows its own failure and leaves neither.
Record(k, charged) ==
    \/ cost[k] = None /\ cost' = [cost EXCEPT ![k] = charged] /\ Settle(k, charged, TRUE)
    \/ UNCHANGED <<settles, cost>>

\* The worker ends a run.  A failed first attempt queues the automatic second.
Succeed(k) ==
    /\ run[k] = "active"
    /\ run' = [run EXCEPT ![k] = "succeeded"]
    /\ \E c \in Charges \cup {Unknown} : Record(k, Charge(TRUE, c))
    /\ UNCHANGED <<holds, money, toQueue, batch, starting, settling, stripe>>

AutomaticAttempt(k) == [k EXCEPT !.attempt = @ + 1]

Fail(k) ==
    /\ run[k] = "active"
    /\ \/ run' = [run EXCEPT ![k] = "failed"]
       \/ k.attempt = 1 /\ AutomaticAttempt(k) \in RunKeys /\ Made < MaxRuns
          /\ run' = [run EXCEPT ![k] = "failed", ![AutomaticAttempt(k)] = "active"]
    /\ Record(k, Charge(FALSE, Unknown))
    /\ UNCHANGED <<holds, money, toQueue, batch, starting, settling, stripe>>

\* The stalled sweep ends a run without its cost; the run's own answer may follow.
SweepEnds(k) ==
    /\ run[k] = "active"
    /\ run' = [run EXCEPT ![k] = "failed"]
    /\ UNCHANGED <<ledger, cost, toQueue, batch, starting, settling, stripe>>

LateAnswer(k) ==
    /\ run[k] = "failed" /\ cost[k] = None
    /\ Record(k, Charge(FALSE, Unknown))
    /\ UNCHANGED <<holds, money, run, toQueue, batch, starting, settling, stripe>>

-----------------------------------------------------------------------------
(* reconcile_settlements, one 预扣 at a time. *)

Unsettled == {k \in holds : ~settles[k].written}
\* Mutant: whatever has not been settled yet is settled, running or not.
EndedOrRunning(k) == run[k] # "none"

Ended(k) == run[k] \in {"succeeded", "failed"}

\* Long enough with no Execution that none can be on its way.
\* Mutant: every 预扣 is thought to be on its way to a run.
OrphanedNever(k) == FALSE

Orphaned(k) == run[k] = "none" /\ k.target \notin toQueue

\* A run that did not succeed is free, and so is one whose cost was never written.
Actual(k) == IF run[k] # "succeeded" \/ cost[k] = None THEN 0 ELSE cost[k]

ReconcileReads(k) ==
    /\ settling = NoDecision
    /\ k \in Unsettled /\ (Orphaned(k) \/ Ended(k))
    /\ settling' = [run |-> k, actual |-> Actual(k), executed |-> Ended(k)]
    /\ UNCHANGED <<ledger, run, cost, toQueue, batch, starting, stripe>>

ReconcileCommits ==
    /\ settling # NoDecision /\ settling' = NoDecision
    /\ Settle(settling.run, settling.actual, settling.executed)
    /\ UNCHANGED <<holds, money, run, cost, toQueue, batch, starting, stripe>>

-----------------------------------------------------------------------------
(* Stripe: what happens to the payment, and the webhooks that tell of it. *)

\* A card pays as its Session completes; Alipay and WeChat Pay pay later, the completed
\* event then says "unpaid" and is ignored; one payment may be reported by both events.
Checkout ==
    /\ Price > 0 /\ ~payment.paid /\ payment' = [payment EXCEPT !.paid = TRUE]
    /\ \E E \in {{Event("completed", 0)}, Purchases} : pending' = pending \cup E
    /\ UNCHANGED <<ledger, run, cost, toQueue, batch, starting, settling, missed>>

\* charge.refunded reports the amount refunded so far.
Refund ==
    /\ payment.paid /\ payment.refunded < Price
    /\ payment' = [payment EXCEPT !.refunded = @ + 1]
    /\ pending' = pending \cup {Event("refunded", payment.refunded + 1)}
    /\ UNCHANGED <<ledger, run, cost, toQueue, batch, starting, settling, missed>>

Dispute ==
    /\ payment.paid /\ ~payment.disputed
    /\ payment' = [payment EXCEPT !.disputed = TRUE]
    /\ pending' = pending \cup {Event("dispute", 0)}
    /\ UNCHANGED <<ledger, run, cost, toQueue, batch, starting, settling, missed>>

\* Mutant: a purchase is keyed to the event that reported it.
EventReference(e) == e

\* Both events of one payment carry one PaymentIntent.
PaymentReference(e) == PaymentIntent

Fulfill(e) ==
    money' = IF Found(PaymentReference(e)) THEN money
             ELSE money \cup {Entry("purchase", PaymentReference(e), Pack)}

\* What a reversal takes back of the pack: all of it, or the share refunded so far.
Owed(e) == IF e.type = "dispute" THEN Pack ELSE Shares[e.amount]
Outstanding(e) == Owed(e) - ReclaimedAgainst

\* Mutant: a reversal with nothing left to take back writes its entry all the same.
ReclaimAlways(e) ==
    money' = IF Found(PaymentIntent) /\ ~Found(e)
             THEN money \cup {Entry("clawback", e, -Outstanding(e))}
             ELSE money

Reclaim(e) ==
    money' = IF Found(PaymentIntent) /\ Outstanding(e) > 0 /\ ~Found(e)
             THEN money \cup {Entry("clawback", e, -Outstanding(e))}
             ELSE money

\* Delivered at least once, in any order: an answer that gets lost is one more delivery.
Deliver(e) ==
    /\ e \in pending
    /\ \/ e \in Purchases /\ Fulfill(e) /\ UNCHANGED missed
       \/ e \in Reversals /\ Reclaim(e) /\ missed' = (missed \/ ~Found(PaymentIntent))
    /\ pending' \in {pending, pending \ {e}}
    /\ UNCHANGED <<holds, settles, run, cost, toQueue, batch, starting, settling, payment>>

-----------------------------------------------------------------------------

Next ==
    \/ BatchChecks \/ BatchCommits \/ QueueFails \/ ReconcileCommits
    \/ \E r \in Reports : QueueInitial(r)
    \/ \E t \in Targets : StartChecks(t)
    \/ \E k \in RunKeys : \/ StartCommits(k) \/ Succeed(k) \/ Fail(k) \/ SweepEnds(k)
                          \/ LateAnswer(k) \/ ReconcileReads(k)
    \/ Checkout \/ Refund \/ Dispute
    \/ \E e \in Events : Deliver(e)

\* A request's transaction commits; the queueing after a confirmation runs or is given
\* up; the sweep ends every stalled run; the cleanup cron settles what it finds; Stripe
\* delivers until it is answered.
Fairness ==
    /\ WF_vars(BatchCommits) /\ WF_vars(QueueFails) /\ WF_vars(ReconcileCommits)
    /\ \A k \in RunKeys : /\ WF_vars(StartCommits(k)) /\ WF_vars(SweepEnds(k))
                          /\ SF_vars(ReconcileReads(k))
    /\ \A e \in Events : SF_vars(Deliver(e) /\ e \notin pending')

Spec == Init /\ [][Next]_vars
FairSpec == Spec /\ Fairness

-----------------------------------------------------------------------------
(* Properties. *)

\* One payment is credited once however its events repeat, reorder and overlap, never
\* reclaimed beyond the share refunded or disputed; and once every event is answered
\* exactly that share is back, unless a reversal was answered before its purchase.
PaymentCountedOnce ==
    LET reversed == IF payment.disputed THEN Pack ELSE Shares[payment.refunded]
    IN  /\ Moved("purchase") <= (IF payment.paid THEN Pack ELSE 0)
        /\ ReclaimedAgainst <= reversed
        /\ pending = {} /\ ~missed =>
              /\ Moved("purchase") = IF payment.paid THEN Pack ELSE 0
              /\ ReclaimedAgainst = reversed

Paid(k) == IF k \in holds THEN Estimate - settles[k].amount ELSE 0
Due(k) == IF run[k] = "failed" \/ cost[k] = None THEN 0
          ELSE IF cost[k] = Unknown THEN Estimate ELSE cost[k]

\* Whichever of the worker, its late answer and the sweep settles a run, the user is left
\* paying what a successful run cost, the 预扣 when that is unknown, and nothing for a run
\* that failed or whose cost was lost.
SettledAtCost ==
    \A k \in RunKeys : settles[k].written /\ settles[k].executed =>
        /\ Ended(k)
        /\ Paid(k) = Due(k)

Shortfall ==
    SumFunctionOnSet([k \in RunKeys |-> IF settles[k].amount < 0 THEN -settles[k].amount ELSE 0],
                     RunKeys)

\* However many admissions read one balance together, they overspend it by no more than
\* the runs of all but one of the acts that can be in flight at once, and the debt never
\* grows from one round of them to the next: whatever else takes a balance below zero is
\* a clawback or the shortfall of a settlement.
DebtBounded ==
    Remaining + ReclaimedAgainst + Shortfall >= Estimate - Estimate * Cardinality(Targets)

\* No 预扣 stands forever: its run never came, or ended, and somebody settles it.
EveryHoldSettles == \A k \in RunKeys : k \in holds ~> settles[k].written

\* credit_limits.py: "A user pays once for one 知言报告 however many tries it took to get
\* one."  Once every 预扣 is settled, a measured report has been paid for.
ReportPaidOnce ==
    \A k \in RunKeys :
        (/\ k.target \in Reports /\ run[k] = "succeeded" /\ cost[k] \in Charges
         /\ Unsettled = {} /\ \A j \in holds : settles[j].executed)
        => SumFunctionOnSet([j \in RunKeys |-> Paid(j)], Ran(k.target)) = cost[k]
=============================================================================
