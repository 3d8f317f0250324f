--------------------------- MODULE ThemeProposals ---------------------------
(***************************************************************************)
(* 提炼主题: the presses of one user's sittings and the runs that answer them.  *)
(* A sitting is a 任务创建会话, whose 来源 the server holds, or a 来源编辑会话, whose   *)
(* 来源 arrive with the press.  Every press is a row of its own with its one run  *)
(* and its own 预扣, so no unique index stands between two of them.              *)
(*                                                                          *)
(* Nothing here takes a lock but a cancellation: a request, a handler and a      *)
(* sweep read, and commit what they made of it over whatever the row is by then. *)
(***************************************************************************)
EXTENDS Naturals, Sequences, FiniteSets

CONSTANTS
    Creations,      \* 任务创建会话
    Editings,       \* 来源编辑会话
    Texts,          \* what the 来源 of a sitting read as
    None,           \* no 来源 to read, no candidates
    Requests,       \* presses the server is handling at once
    Handlers,       \* runs its workers are handling at once
    Capacity,       \* max_active_executions_per_user
    MaxPresses      \* bound: presses

ASSUME ConstantsAssumption ==
    /\ Creations \cap Editings = {} /\ None \notin Texts
    /\ Capacity \in Nat \ {0} /\ MaxPresses \in Nat /\ IsFiniteSet(Requests)

VARIABLES
    shown,      \* the 来源 of each sitting, None while they cannot be read
    presses,    \* theme_proposals, each with its execution and its 预扣
    request,    \* what a request has read and not yet committed
    handler,    \* what a handler holds of the run it was handed
    sweep       \* the run the stalled sweep or a refused dispatch is about to end, or 0

vars == <<shown, presses, request, handler, sweep>>

Sittings == Creations \cup Editings

Active == {"queued", "running", "cancel_requested"}
Terminal == {"succeeded", "failed", "cancelled", "stale"}
Surrendered(status) == status \in Terminal

\* asked: cancellation_requested_at, and whether a worker had claimed the run by then.
Presses ==
    [sitting : Sittings, read : Texts, status : Active \cup Terminal,
     asked : {"no", "unclaimed", "claimed"}, candidates : Texts \cup {None},
     charge : {"held", "free", "paid"}]

NotPressing == [sitting |-> None, read |-> None]
Idle == [step |-> "idle", press |-> 0, verdict |-> "none"]

TypeOK ==
    /\ shown \in [Sittings -> Texts \cup {None}]
    /\ presses \in Seq(Presses) /\ Len(presses) <= MaxPresses
    /\ request \in [Requests -> [sitting : Sittings, read : Texts] \cup {NotPressing}]
    /\ handler \in [Handlers ->
         [step : {"idle", "starting", "asking", "finishing"}, press : 0 .. MaxPresses,
          verdict : Terminal \cup {"none"}]]
    /\ \A h \in Handlers : handler[h].press \in DOMAIN presses \cup {0}
    /\ sweep \in DOMAIN presses \cup {0}

Init ==
    /\ shown \in [Sittings -> Texts \cup {None}]
    /\ presses = <<>>
    /\ request = [q \in Requests |-> NotPressing]
    /\ handler = [h \in Handlers |-> Idle]
    /\ sweep = 0

ActivePresses == {p \in DOMAIN presses : presses[p].status \in Active}
ActiveIn(s) == {p \in ActivePresses : presses[p].sitting = s}

-----------------------------------------------------------------------------
(* Pressing *)

\* The user adds, edits, replaces or removes a 来源, or a capture of one ends: a
\* 创建会话 with no 来源, or one not yet captured, cannot be read.  A 编辑会话 that
\* is saved or discarded is gone.
Change(s) ==
    /\ s \in Editings => shown[s] # None
    /\ \E text \in (Texts \cup {None}) \ {shown[s]} : shown' = [shown EXCEPT ![s] = text]
    /\ UNCHANGED <<presses, request, handler, sweep>>

\* mutant of Pressing: a run that waits for a worker is not one in progress.
PressRunning(s) == \E p \in ActiveIn(s) : presses[p].status # "queued"
Pressing(s) == ActiveIn(s) # {}
\* mutant of AtCapacity: the ceiling may be reached and one more started.
AboveCapacity == Cardinality(ActivePresses) > Capacity
AtCapacity == Cardinality(ActivePresses) >= Capacity

\* propose_session_themes reads the 来源 and looks for an active press ...
PressReads(q, s) ==
    /\ request[q] = NotPressing
    /\ shown[s] # None
    /\ ~Pressing(s) /\ ~AtCapacity
    /\ request' = [request EXCEPT ![q] = [sitting |-> s, read |-> shown[s]]]
    /\ UNCHANGED <<shown, presses, handler, sweep>>

\* new_proposal_execution: the 来源 travel in the run, and its 预扣 is on the press.
NewPress(q) ==
    [sitting |-> request[q].sitting, read |-> request[q].read, status |-> "queued",
     asked |-> "no", candidates |-> None, charge |-> "held"]

\* ... and commits a press of its own.
PressCommits(q) ==
    /\ request[q] # NotPressing
    /\ Len(presses) < MaxPresses
    /\ presses' = Append(presses, NewPress(q))
    /\ request' = [request EXCEPT ![q] = NotPressing]
    /\ UNCHANGED <<shown, handler, sweep>>

-----------------------------------------------------------------------------
(* The run *)

\* proposed_sources: what a 创建会话 holds now, which must be what the press read.
Readable(p) ==
    LET s == presses[p].sitting IN s \in Editings \/ shown[s] = presses[p].read

\* _claim: any handler the message of a run has reached, once or again, makes it
\* running, or failed when its 来源 are gone.
ClaimReads(h, p) ==
    /\ handler[h] = Idle
    /\ presses[p].status = "queued"
    /\ handler' = [handler EXCEPT ![h] =
         [step |-> "starting", press |-> p,
          verdict |-> IF Readable(p) THEN "none" ELSE "failed"]]
    /\ UNCHANGED <<shown, presses, request, sweep>>

ClaimCommits(h) ==
    LET started == handler[h].verdict = "none" IN
    /\ handler[h].step = "starting"
    /\ presses' = [presses EXCEPT
         ![handler[h].press].status = IF started THEN "running" ELSE "failed"]
    /\ handler' = [handler EXCEPT ![h] = IF started THEN [@ EXCEPT !.step = "asking"] ELSE Idle]
    /\ UNCHANGED <<shown, request, sweep>>

\* accept_candidates_text: three short lines, or the answer is refused.
Answers == {"candidates", "failure"}

Asked(press) == press.asked # "no"

\* mutant of Verdict: an answer is an answer, whoever has ended the run meanwhile.
VerdictOfAnswer(press, answer) == IF answer = "candidates" THEN "succeeded" ELSE "failed"

\* What _finish_succeeded and _finish_failed make of the run, as they read it.  A
\* status that is not a new one is not written.
Verdict(press, answer) ==
    CASE Surrendered(press.status) -> IF press.status = "stale" THEN "none" ELSE "stale"
      [] ~Surrendered(press.status) /\ Asked(press) -> "cancelled"
      [] OTHER -> IF answer = "candidates" THEN "succeeded" ELSE "failed"

FinishReads(h) ==
    LET press == presses[handler[h].press] IN
    /\ handler[h].step = "asking"
    /\ \E answer \in Answers :
         handler' = [handler EXCEPT ![h] =
           IF answer = "failure" /\ Surrendered(press.status) THEN Idle
           ELSE [@ EXCEPT !.step = "finishing", !.verdict = Verdict(press, answer)]]
    /\ UNCHANGED <<shown, presses, request, sweep>>

\* record_execution_cost settles what nobody has settled.
Settled(press, chargeable) ==
    [press EXCEPT !.charge = IF @ # "held" THEN @ ELSE IF chargeable THEN "paid" ELSE "free"]

\* One commit for the candidates, the run's end and its cost.  The cost may fail to
\* be recorded, which is swallowed; a 结算 that another process committed meanwhile
\* is found in time or refuses the whole of it.
FinishCommits(h) ==
    LET p == handler[h].press
        verdict == handler[h].verdict
        delivers == verdict = "succeeded"
        ended == [presses[p] EXCEPT !.status = IF verdict = "none" THEN @ ELSE verdict,
                                    !.candidates = IF delivers THEN presses[p].read ELSE @]
    IN
    /\ handler[h].step = "finishing"
    /\ \/ presses' = [presses EXCEPT ![p] = Settled(ended, delivers)]
       \/ presses' = [presses EXCEPT ![p] = ended]
       \/ presses[p].charge # "held" /\ UNCHANGED presses
    /\ handler' = [handler EXCEPT ![h] = Idle]
    /\ UNCHANGED <<shown, request, sweep>>

-----------------------------------------------------------------------------
(* Whoever else ends a run *)

\* cancel_execution, which holds the run's row.
Cancel(p) ==
    /\ presses[p].status \in Active
    /\ presses' = [presses EXCEPT
         ![p].status = IF @ = "queued" THEN "cancelled" ELSE "cancel_requested",
         ![p].asked = IF @ # "no" THEN @
                      ELSE IF presses[p].status = "queued" THEN "unclaimed" ELSE "claimed"]
    /\ UNCHANGED <<shown, request, handler, sweep>>

\* mutant of GivenUp: the sweep writes its error code where its status belongs.
GivenUpAsStalled(press) == [press EXCEPT !.status = "execution_stalled"]
GivenUp(press) == [press EXCEPT !.status = "failed"]

\* recover_stalled_executions; dispatch_or_fail does the same to a queued run.
SweepReads(p) ==
    /\ sweep = 0
    /\ presses[p].status \in {"queued", "running"}
    /\ sweep' = p
    /\ UNCHANGED <<shown, presses, request, handler>>

SweepEnds ==
    /\ sweep # 0
    /\ presses' = [presses EXCEPT ![sweep] = GivenUp(@)]
    /\ sweep' = 0
    /\ UNCHANGED <<shown, request, handler>>

\* reconcile_settlements: a run that has ended and that nobody settled left no
\* cost either, and is free.
Reconcile(p) ==
    /\ presses[p].status \in Terminal /\ presses[p].charge = "held"
    /\ presses' = [presses EXCEPT ![p].charge = "free"]
    /\ UNCHANGED <<shown, request, handler, sweep>>

-----------------------------------------------------------------------------
Next ==
    \/ \E s \in Sittings : Change(s)
    \/ \E q \in Requests : PressCommits(q) \/ \E s \in Sittings : PressReads(q, s)
    \/ \E h \in Handlers : \/ \E p \in DOMAIN presses : ClaimReads(h, p)
                           \/ ClaimCommits(h) \/ FinishReads(h) \/ FinishCommits(h)
    \/ \E p \in DOMAIN presses : Cancel(p) \/ SweepReads(p) \/ Reconcile(p)
    \/ SweepEnds

Spec == Init /\ [][Next]_vars

-----------------------------------------------------------------------------
(* Properties *)

\* What a client that polls a press is told of it: candidates outlive any verdict.
Shown(press) ==
    CASE press.candidates # None -> "succeeded"
      [] press.candidates = None /\ press.status \in Active -> "running"
      [] OTHER -> IF press.status = "cancelled" THEN "cancelled" ELSE "failed"

\* Only a press that shows candidates is paid for, whoever settled it: a handler
\* that answers late, twice or beside the sweep, or the reconciliation.  And one its
\* user cancelled before any worker had claimed it shows none, though a handler
\* that had read it as queued claims it all the same.
\* theme/proposal_worker.py:199-261, theme/api.py:119-129
EmptyPressesAreFree ==
    \A p \in DOMAIN presses :
        /\ presses[p].charge = "paid" => Shown(presses[p]) = "succeeded"
        /\ presses[p].asked = "unclaimed" => Shown(presses[p]) # "succeeded"

Waiting == {p \in DOMAIN presses : presses[p].status = "queued"}

\* The ceiling on a user's runs is passed by no more than the requests that looked
\* before one another's commit, whatever ends a run and whatever a late claim revives:
\* no more presses ever wait for a worker.  execution_limits.py:61-80
PressesUnderCeiling == Cardinality(Waiting) < Capacity + Cardinality(Requests)

\* One press at a time in a sitting, but for the same requests, over all the sittings of
\* a user: a press that has ended, or that a late claim revives, lets no more wait.
\* theme/api.py:269-284
OnePressAtATime ==
    \A s \in Sittings : Cardinality(Waiting \cap ActiveIn(s)) <= Cardinality(Requests)

=============================================================================
