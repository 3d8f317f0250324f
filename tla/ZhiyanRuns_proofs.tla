-------------------------- MODULE ZhiyanRuns_proofs --------------------------
(***************************************************************************)
(* Proofs about ZhiyanRuns, for any number of Revisions, handlers and       *)
(* attempts and any set of events.  The inductive invariant is Inv: the     *)
(* types, and that whatever a handler decided from what it read still holds *)
(* when it commits, because it holds the task's row in between.  RowsExist  *)
(* adds that an id in flight always has its row.                            *)
(*                                                                          *)
(* Two sections follow about what the runs leave out.  RetryPolicy is their  *)
(* clock: the policy keeps its allowance, and its word, for every history of *)
(* manual runs and every clock that does not go back.  ProviderCalls is what *)
(* one run says to its provider: it is billed for every call of its report,  *)
(* and judged by them, for any pages and any number of continuations.        *)
(***************************************************************************)
EXTENDS ZhiyanRuns, RetryPolicy, ProviderCalls, FiniteSetTheorems, TLAPS

\* A handler that is at work is at work on a run.
Busy == \A w \in Workers : worker[w].pc # "idle" => worker[w].run \in Runs

Types == TypeOK /\ Busy

\* A handler at rest is a handler.
LEMMA IdleType == Idle \in WorkerStates /\ Idle.pc = "idle"
  BY DEF Idle, WorkerStates, Statuses

\* An ORM write leaves the new value or the one already there.
LEMMA WrittenEither ==
  ASSUME NEW read, NEW new, NEW now
  PROVE  Written(read, new, now) \in {new, now}
  BY DEF Written

\* What every action on handlers does to `worker` keeps its type.
LEMMA WorkerRests ==
  ASSUME Types, NEW w \in Workers, worker' = [worker EXCEPT ![w] = Idle]
  PROVE  worker' \in [Workers -> WorkerStates] /\ (Busy)'
  <1>1. worker \in [Workers -> WorkerStates]
    BY DEF Types, TypeOK
  <1>2. worker' \in [Workers -> WorkerStates]
    BY <1>1, IdleType
  <1>3. ASSUME NEW v \in Workers PROVE worker'[v].pc # "idle" => worker'[v].run \in Runs
    BY <1>1, IdleType DEF Types, Busy
  <1> QED
    BY <1>2, <1>3 DEF Busy, Runs, Attempts

\* Writing a terminal status over a row of executions.
LEMMA WrittenStatus ==
  ASSUME TypeOK, NEW e, NEW read, NEW new \in Terminal,
         status' = [status EXCEPT ![e] = Written(read, new, @)]
  PROVE  status' \in [Runs -> Statuses]
  <1>1. \A f \in Runs : Written(read, new, status[f]) \in Statuses
    BY DEF Written, TypeOK, Statuses
  <1> QED
    BY <1>1 DEF TypeOK

\* A decision of _finish_succeeded commits a terminal status.
LEMMA VerdictType ==
  /\ DOMAIN Verdict = {"late", "outrun", "dropping", "admitting"}
  /\ \A place \in DOMAIN Verdict : Verdict[place] \in Terminal
  BY DEF Verdict, Terminal

\* A new row keeps the types.
LEMMA InsertTypes ==
  ASSUME Types, NEW e \in Runs, NEW why \in {"initial", "automatic", "manual"},
         Insert(e, why)
  PROVE  /\ status' \in [Runs -> Statuses]
         /\ origin' \in [Runs -> {"initial", "automatic", "manual"}]
         /\ outbox' \subseteq Runs
  BY DEF Types, TypeOK, Insert, Statuses, Active

\* Types holds at the start.
LEMMA TypesInit == Init => Types
  <1> SUFFICES ASSUME Init PROVE Types
    OBVIOUS
  <1> USE DEF Init
  <1>1. /\ status \in [Runs -> Statuses]
        /\ origin \in [Runs -> {"initial", "automatic", "manual"}]
        /\ deletion \in [Runs -> Statuses]
    BY DEF Statuses, NotDeleting
  <1>2. worker \in [Workers -> WorkerStates] /\ Busy
    BY IdleType DEF Busy
  <1>3. sweep \in [waiting : SUBSET Runs, expired : BOOLEAN, seen : [Runs -> Statuses]]
    BY DEF NotSweeping, Statuses
  <1> QED
    BY <1>1, <1>2, <1>3 DEF Types, TypeOK

\* Every step keeps Types.
LEMMA TypesNext == Types /\ [Next]_vars => Types'
  <1> SUFFICES ASSUME Types, [Next]_vars PROVE Types'
    OBVIOUS
  <1> USE DEF Types
  <1>a. TypeOK
    OBVIOUS
  <1>b. UNCHANGED worker => (Busy)'
    BY DEF Busy, Runs, Attempts
  <1>1. ASSUME NEW r \in Revisions, QueueInitial(r) PROVE Types'
    <2>1. <<r, 1>> \in Runs
      BY ConstantsAssumption DEF Runs, Attempts
    <2>2. Insert(<<r, 1>>, "initial")
      BY <1>1 DEF QueueInitial
    <2> QED
      BY <1>1, <1>b, <2>1, <2>2, InsertTypes DEF TypeOK, QueueInitial
  <1>2. ASSUME NEW r \in Revisions, StartManual(r) PROVE Types'
    <2>1. PICK n \in 0 .. MaxAttempt - 1 :
            Insert(<<r, n + 1>>, IF n = 0 THEN "initial" ELSE "manual")
      BY <1>2 DEF StartManual
    <2>2. <<r, n + 1>> \in Runs
      BY ConstantsAssumption DEF Runs, Attempts
    <2>3. (IF n = 0 THEN "initial" ELSE "manual") \in {"initial", "automatic", "manual"}
      OBVIOUS
    <2> QED
      BY <1>2, <1>b, <2>1, <2>2, <2>3, InsertTypes DEF TypeOK, StartManual
  <1>3. ASSUME NEW e \in Runs, Dispatch(e) PROVE Types'
    BY <1>3, <1>b DEF TypeOK, Dispatch, rows
  <1>4. ASSUME NEW e \in Runs, DispatchRaises(e) PROVE Types'
    BY <1>4, <1>b DEF TypeOK, DispatchRaises, rows
  <1>5. ASSUME NEW e \in Runs, FailDispatch(e) PROVE Types'
    BY <1>5, <1>b DEF TypeOK, FailDispatch, Statuses, Terminal
  <1>6. ASSUME NEW e \in Runs, CreatorDies(e) PROVE Types'
    BY <1>6, <1>b DEF TypeOK, CreatorDies, rows
  <1>7. ASSUME NEW e \in Runs, Lose(e) PROVE Types'
    BY <1>7, <1>b DEF TypeOK, Lose, rows
  <1>8. CASE DeleteRead
    BY <1>8, <1>b DEF TypeOK, DeleteRead, rows, transport, Statuses
  <1>9. CASE SweepSelect
    BY <1>9, <1>b DEF TypeOK, SweepSelect, rows, transport, Statuses
  <1>10. ASSUME NEW e \in Runs, SweepSpares(e) PROVE Types'
    BY <1>10, <1>b DEF TypeOK, SweepSpares, Looked, NotSweeping, rows, transport, Statuses
  <1>11. ASSUME NEW e \in Runs, Cancel(e) PROVE Types'
    <2>1. status' \in [Runs -> Statuses]
      BY <1>11, <1>a DEF Cancel, TypeOK, Statuses, Terminal, Active
    <2> QED
      BY <1>11, <1>b, <2>1 DEF TypeOK, Cancel, transport
  <1>12. ASSUME NEW e \in Runs, SweepEnds(e) PROVE Types'
    <2>1. status' \in [Runs -> Statuses]
      BY <1>12, <1>a, WrittenEither DEF SweepEnds, TypeOK, Statuses, Terminal
    <2>2. sweep' \in [waiting : SUBSET Runs, expired : BOOLEAN, seen : [Runs -> Statuses]]
      BY <1>12, <1>a DEF SweepEnds, Looked, NotSweeping, TypeOK, Statuses
    <2> QED
      BY <1>12, <1>b, <2>1, <2>2 DEF TypeOK, SweepEnds, transport
  <1>13. CASE DeleteCommit
    <2>1. status' \in [Runs -> Statuses]
      BY <1>13, <1>a, WrittenEither DEF DeleteCommit, TypeOK, Statuses, Terminal, Active
    <2>2. asked' \subseteq Runs /\ deleted' \in BOOLEAN
      BY <1>13, <1>a DEF DeleteCommit, TypeOK
    <2>3. deletion' \in [Runs -> Statuses]
      BY <1>13 DEF DeleteCommit, NotDeleting, Statuses
    <2> QED
      BY <1>13, <1>b, <2>1, <2>2, <2>3 DEF TypeOK, DeleteCommit, transport
  <1>14. ASSUME NEW w \in Workers, NEW e \in Runs, Receive(w, e) PROVE Types'
    <2>1. worker' \in [Workers -> WorkerStates] /\ (Busy)'
      BY <1>14, <1>a DEF Receive, TypeOK, WorkerStates, Statuses, Active, Busy
    <2> QED
      BY <1>14, <2>1 DEF TypeOK, Receive, rows
  <1>15. ASSUME NEW w \in Workers, Claim(w) PROVE Types'
    <2>1. status' \in [Runs -> Statuses]
      BY <1>15, <1>a DEF Claim, TypeOK, Statuses, Active
    <2>2. CASE worker' = [worker EXCEPT ![w] = Idle]
      BY <1>15, <2>1, <2>2, WorkerRests DEF TypeOK, Claim, transport
    <2>3. CASE worker' = [worker EXCEPT ![w].pc = "calling"]
      <3>1. worker' \in [Workers -> WorkerStates] /\ (Busy)'
        BY <1>15, <1>a, <2>3 DEF Claim, TypeOK, WorkerStates, Busy
      <3> QED
        BY <1>15, <2>1, <3>1 DEF TypeOK, Claim, transport
    <2> QED
      BY <1>15, <2>2, <2>3 DEF Claim
  <1>16. ASSUME NEW w \in Workers, VoidClaim(w) PROVE Types'
    <2>1. status' \in [Runs -> Statuses]
      BY <1>16, <1>a DEF VoidClaim, TypeOK, Statuses, Terminal
    <2> QED
      BY <1>16, <2>1, WorkerRests DEF TypeOK, VoidClaim, transport
  <1>17. ASSUME NEW w \in Workers, Answer(w) PROVE Types'
    <2>1. AnswerMeans(worker[w].run, status[worker[w].run]) \in
            {"late", "dropping", "outrun", "admitting"}
      BY DEF AnswerMeans
    <2>2. worker[w].run \in Runs /\ status[worker[w].run] \in Statuses
      BY <1>17, <1>a DEF Answer, Busy, TypeOK
    <2>3. worker' \in [Workers -> WorkerStates] /\ (Busy)'
      BY <1>17, <1>a, <2>1, <2>2 DEF Answer, TypeOK, WorkerStates, Busy
    <2> QED
      BY <1>17, <2>3 DEF TypeOK, Answer, LockTask, rows, transport
  <1>18. ASSUME NEW w \in Workers, AnswerCommit(w) PROVE Types'
    <2>1. status' \in [Runs -> Statuses]
      BY <1>18, <1>a, WrittenStatus, VerdictType DEF AnswerCommit, TypeOK
    <2>2. reports' \in [Revisions -> Runs \cup {NoRun}]
      BY <1>18, <1>a DEF AnswerCommit, Verdict, Busy, TypeOK
    <2> QED
      BY <1>18, <2>1, <2>2, WorkerRests DEF TypeOK, AnswerCommit, transport
  <1>19. ASSUME NEW w \in Workers, NEW c \in FailureCodes, Fail(w, c) PROVE Types'
    <2>1. CASE worker' = [worker EXCEPT ![w] = Idle]
      BY <1>19, <2>1, WorkerRests DEF TypeOK, Fail, rows, transport
    <2>2. CASE worker' = [worker EXCEPT ![w].pc = "failing", ![w].why = c]
      <3> DEFINE x == [worker[w] EXCEPT !.pc = "failing", !.why = c]
      <3>a. worker[w] \in WorkerStates /\ worker[w].run \in Runs
        BY <1>19, <1>a DEF Fail, TypeOK, Busy
      <3>0. x \in WorkerStates /\ x.pc # "idle" /\ x.run \in Runs
        BY <3>a DEF WorkerStates
      <3>1. worker' \in [Workers -> WorkerStates]
        BY <1>a, <2>2, <3>0 DEF TypeOK
      <3>2. (Busy)'
        BY <1>19, <1>a, <2>2, <3>0 DEF Fail, TypeOK, Busy
      <3> QED
        BY <1>19, <3>1, <3>2 DEF TypeOK, Fail, rows, transport
    <2> QED
      BY <1>19, <2>1, <2>2 DEF Fail
  <1>20. ASSUME NEW w \in Workers, FailLocked(w) PROVE Types'
    <2>1. FailureMeans(worker[w].run, status[worker[w].run]) \in {"abandoning", "recording"}
      BY DEF FailureMeans
    <2>2. worker[w].run \in Runs /\ status[worker[w].run] \in Statuses
      BY <1>20, <1>a DEF FailLocked, Busy, TypeOK
    <2>3. worker' \in [Workers -> WorkerStates] /\ (Busy)'
      BY <1>20, <1>a, <2>1, <2>2 DEF FailLocked, TypeOK, WorkerStates, Busy
    <2> QED
      BY <1>20, <2>3 DEF TypeOK, FailLocked, LockTask, rows, transport
  <1>21. ASSUME NEW w \in Workers, AbandonCommit(w) PROVE Types'
    <2>1. status' \in [Runs -> Statuses]
      BY <1>21, <1>a, WrittenStatus DEF AbandonCommit, TypeOK, Terminal
    <2>2. asked' \subseteq Runs
      BY <1>21, <1>a DEF AbandonCommit, Busy, TypeOK
    <2> QED
      BY <1>21, <2>1, <2>2, WorkerRests DEF TypeOK, AbandonCommit, transport
  <1>22. ASSUME NEW w \in Workers, FailCommit(w) PROVE Types'
    <2> DEFINE e == worker[w].run
               c == worker[w].why
               next == <<RevisionOf(e), AttemptOf(e) + 1>>
    <2>1. e \in Runs
      BY <1>22, <1>a DEF FailCommit, Busy, TypeOK
    <2>2. AutomaticAttemptPermitted(e, c) => next \in Runs
      BY <2>1, ConstantsAssumption
         DEF AutomaticAttemptPermitted, InitialAttemptLimit, Runs, Attempts, RevisionOf, AttemptOf
    <2>3. status' \in [Runs -> Statuses]
      BY <1>22, <1>a, WrittenEither DEF FailCommit, TypeOK, Statuses, Terminal, Active
    <2>4. /\ origin' \in [Runs -> {"initial", "automatic", "manual"}]
          /\ outbox' \subseteq Runs
      BY <1>22, <1>a, <2>2 DEF FailCommit, TypeOK
    <2> HIDE DEF e, c, next
    <2>5. worker' = [worker EXCEPT ![w] = Idle] /\ taskLock' = "free"
      BY <1>22 DEF FailCommit
    <2> QED
      BY <1>22, <2>3, <2>4, <2>5, WorkerRests DEF TypeOK, FailCommit
  <1>23. ASSUME NEW w \in Workers, WorkerDies(w) PROVE Types'
    BY <1>23, WorkerRests DEF TypeOK, WorkerDies, rows, transport
  <1>24. CASE UNCHANGED vars
    BY <1>24, <1>b DEF TypeOK, vars, rows, transport
  <1> QED
    BY <1>1, <1>2, <1>3, <1>4, <1>5, <1>6, <1>7, <1>8, <1>9, <1>10, <1>11, <1>12,
       <1>13, <1>14, <1>15, <1>16, <1>17, <1>18, <1>19, <1>20, <1>21, <1>22, <1>23,
       <1>24
       DEF Next

\* Every variable of the system always holds a value of its type.
THEOREM TypeCorrect == Spec => []TypeOK
  <1>1. Init => Types
    BY TypesInit
  <1>2. Types /\ [Next]_vars => Types'
    BY TypesNext
  <1>3. Types => TypeOK
    BY DEF Types
  <1> QED
    BY <1>1, <1>2, <1>3, PTL DEF Spec

-----------------------------------------------------------------------------
(* Admission.  A handler decides what an answer becomes while it holds the   *)
(* task's row, so the decision is still right when it is committed.          *)

Holding == {"late", "outrun", "dropping", "admitting", "recording", "abandoning"}

\* What a handler has read and decided from, it holds the task's lock for.
LockHeld == \A w \in Workers : worker[w].pc \in Holding => taskLock = w

AdmissionStands == \A w \in Workers : worker[w].pc = "admitting" =>
    reports[RevisionOf(worker[w].run)] = NoRun /\ ~deleted

FollowUpStands == \A w \in Workers : worker[w].pc = "recording" => ~deleted

DeletionStands == taskLock = "api" => ~deleted

Decided == LockHeld /\ AdmissionStands /\ FollowUpStands /\ DeletionStands

Inv == Types /\ Decided

\* While no handler has the task's row, none has decided anything.
LEMMA NobodyHolds ==
  ASSUME LockHeld, taskLock \notin Workers, NEW w \in Workers
  PROVE  worker[w].pc \notin Holding
  BY DEF LockHeld

\* No two handlers have decided something at once.
LEMMA OneHolds ==
  ASSUME LockHeld, NEW w \in Workers, worker[w].pc \in Holding,
         NEW v \in Workers, v # w
  PROVE  worker[v].pc \notin Holding
  BY DEF LockHeld

\* A handler that lets go of the lock, or never had it, disturbs nobody else.
LEMMA OthersUndisturbed ==
  ASSUME Types, Decided, NEW w \in Workers, NEW x,
         worker' = [worker EXCEPT ![w] = x], x.pc \notin Holding,
         UNCHANGED <<reports, deleted>>,
         \/ UNCHANGED taskLock
         \/ worker[w].pc \in Holding /\ taskLock' = "free"
         \/ taskLock = w /\ taskLock' = "free"
  PROVE  Decided'
  <1>1. \A v \in Workers : v # w => worker'[v] = worker[v]
    BY DEF Types, TypeOK
  <1>2. worker'[w].pc \notin Holding
    BY DEF Types, TypeOK
  <1>3. (LockHeld)'
    BY <1>1, <1>2, OneHolds, ConstantsAssumption DEF Decided, LockHeld
  <1>4. (AdmissionStands)' /\ (FollowUpStands)'
    BY <1>1, <1>2 DEF Decided, AdmissionStands, FollowUpStands, Holding
  <1>5. (DeletionStands)'
    BY DEF Decided, DeletionStands
  <1> QED
    BY <1>3, <1>4, <1>5 DEF Decided

\* Decided holds at the start.
LEMMA DecidedInit == Init => Decided
  <1> SUFFICES ASSUME Init PROVE Decided
    OBVIOUS
  <1>1. \A w \in Workers : worker[w].pc = "idle"
    BY DEF Init, Idle
  <1> QED
    BY <1>1 DEF Init, Decided, LockHeld, AdmissionStands, FollowUpStands,
       DeletionStands, Holding

\* Every step keeps Decided.
LEMMA DecidedNext == Types /\ Decided /\ [Next]_vars => Decided'
  <1> SUFFICES ASSUME Types, Decided, [Next]_vars PROVE Decided'
    OBVIOUS
  <1>a. TypeOK /\ ConstantsAssumption
    BY ConstantsAssumption DEF Types
  <1>b. UNCHANGED <<worker, taskLock, reports, deleted>> => Decided'
    BY DEF Decided, LockHeld, AdmissionStands, FollowUpStands, DeletionStands
  <1>1. ASSUME NEW r \in Revisions, QueueInitial(r) PROVE Decided'
    BY <1>1, <1>b DEF QueueInitial, rows, transport
  <1>2. ASSUME NEW r \in Revisions, StartManual(r) PROVE Decided'
    BY <1>2, <1>b DEF StartManual, rows, transport
  <1>3. ASSUME NEW e \in Runs, Dispatch(e) PROVE Decided'
    BY <1>3, <1>b DEF Dispatch, rows, transport
  <1>4. ASSUME NEW e \in Runs, DispatchRaises(e) PROVE Decided'
    BY <1>4, <1>b DEF DispatchRaises, rows, transport
  <1>5. ASSUME NEW e \in Runs, FailDispatch(e) PROVE Decided'
    BY <1>5, <1>b DEF FailDispatch, rows, transport
  <1>6. ASSUME NEW e \in Runs, CreatorDies(e) PROVE Decided'
    BY <1>6, <1>b DEF CreatorDies, rows, transport
  <1>7. ASSUME NEW e \in Runs, Cancel(e) PROVE Decided'
    BY <1>7, <1>b DEF Cancel, rows, transport
  <1>8. ASSUME NEW e \in Runs, Lose(e) PROVE Decided'
    BY <1>8, <1>b DEF Lose, rows, transport
  <1>9. ASSUME NEW e \in Runs, SweepSpares(e) PROVE Decided'
    BY <1>9, <1>b DEF SweepSpares, rows, transport
  <1>10. ASSUME NEW e \in Runs, SweepEnds(e) PROVE Decided'
    BY <1>10, <1>b DEF SweepEnds, rows, transport
  <1>11. CASE SweepSelect
    BY <1>11, <1>b DEF SweepSelect
  <1>12. CASE UNCHANGED vars
    BY <1>12, <1>b DEF vars
  <1>13. CASE DeleteRead
    <2>1. \A w \in Workers : worker[w].pc \notin Holding
      BY <1>13, <1>a, NobodyHolds DEF DeleteRead, Decided
    <2> QED
      BY <1>13, <2>1 DEF DeleteRead, Decided, LockHeld, AdmissionStands, FollowUpStands,
         DeletionStands, Holding
  <1>14. CASE DeleteCommit
    <2>1. \A w \in Workers : worker[w].pc \notin Holding
      BY <1>14, <1>a, NobodyHolds DEF DeleteCommit, Decided
    <2>2. UNCHANGED <<worker, reports>> /\ taskLock' = "free"
      BY <1>14 DEF DeleteCommit
    <2> QED
      BY <2>1, <2>2 DEF Decided, LockHeld, AdmissionStands, FollowUpStands,
         DeletionStands, Holding
  <1>15. ASSUME NEW w \in Workers, NEW e \in Runs, Receive(w, e) PROVE Decided'
    <2>1. CASE UNCHANGED worker
      BY <1>15, <1>b, <2>1 DEF Receive
    <2>2. CASE ~UNCHANGED worker
      <3> DEFINE x == [pc |-> IF deleted THEN "voiding" ELSE "claiming", run |-> e,
                       seen |-> "queued", why |-> "none"]
      <3>1. worker' = [worker EXCEPT ![w] = x] /\ x.pc \notin Holding
        BY <1>15, <2>2 DEF Receive, Holding
      <3> HIDE DEF x
      <3> QED
        BY <1>15, <3>1, OthersUndisturbed DEF Receive
    <2> QED
      BY <2>1, <2>2
  <1>16. ASSUME NEW w \in Workers, Claim(w) PROVE Decided'
    <2> DEFINE x == [worker[w] EXCEPT !.pc = "calling"]
    <2>1. worker[w] \in WorkerStates
      BY <1>a DEF TypeOK
    <2>2. x.pc = "calling"
      BY <2>1 DEF WorkerStates
    <2>3. worker' = [worker EXCEPT ![w] = Idle] \/ worker' = [worker EXCEPT ![w] = x]
      BY <1>16 DEF Claim
    <2>4. Idle.pc \notin Holding /\ x.pc \notin Holding
      BY <2>2 DEF Idle, Holding
    <2> HIDE DEF x
    <2> QED
      BY <1>16, <2>3, <2>4, OthersUndisturbed DEF Claim
  <1>17. ASSUME NEW w \in Workers, VoidClaim(w) PROVE Decided'
    BY <1>17, OthersUndisturbed DEF VoidClaim, Idle, Holding
  <1>18. ASSUME NEW w \in Workers, NEW c \in FailureCodes, Fail(w, c) PROVE Decided'
    <2> DEFINE x == [worker[w] EXCEPT !.pc = "failing", !.why = c]
    <2>1. worker[w] \in WorkerStates
      BY <1>a DEF TypeOK
    <2>2. x.pc = "failing"
      BY <2>1 DEF WorkerStates
    <2>3. worker' = [worker EXCEPT ![w] = Idle] \/ worker' = [worker EXCEPT ![w] = x]
      BY <1>18 DEF Fail
    <2>4. Idle.pc \notin Holding /\ x.pc \notin Holding
      BY <2>2 DEF Idle, Holding
    <2> HIDE DEF x
    <2> QED
      BY <1>18, <2>3, <2>4, OthersUndisturbed DEF Fail
  <1>19. ASSUME NEW w \in Workers, Answer(w) PROVE Decided'
    <2> DEFINE e == worker[w].run
               p == AnswerMeans(e, status[e])
    <2>1. \A v \in Workers : worker[v].pc \notin Holding
      BY <1>19, <1>a, NobodyHolds DEF Answer, LockTask, Decided
    <2>2. /\ worker'[w].pc = p
          /\ worker'[w].run = e
          /\ \A v \in Workers : v # w => worker'[v] = worker[v]
      <3>1. worker[w] \in WorkerStates
        BY <1>a DEF TypeOK
      <3> HIDE DEF p
      <3> QED
        BY <1>19, <1>a, <3>1 DEF Answer, TypeOK, WorkerStates, p
    <2>3. p # "recording" /\ (p = "admitting" => reports[RevisionOf(e)] = NoRun /\ ~deleted)
      BY DEF AnswerMeans
    <2>4. /\ \A v \in Workers : worker'[v].pc \in Holding => v = w
          /\ taskLock' = w
          /\ UNCHANGED <<reports, deleted>>
      BY <1>19, <2>1, <2>2 DEF Answer, LockTask
    <2> HIDE DEF e, p
    <2> QED
      BY <1>a, <2>2, <2>3, <2>4 DEF Decided, LockHeld, AdmissionStands, FollowUpStands,
         DeletionStands, Holding
  <1>20. ASSUME NEW w \in Workers, FailLocked(w) PROVE Decided'
    <2> DEFINE e == worker[w].run
               p == FailureMeans(e, status[e])
    <2>1. \A v \in Workers : worker[v].pc \notin Holding
      BY <1>20, <1>a, NobodyHolds DEF FailLocked, LockTask, Decided
    <2>2. /\ worker'[w].pc = p
          /\ worker'[w].run = e
          /\ \A v \in Workers : v # w => worker'[v] = worker[v]
      <3>1. worker[w] \in WorkerStates
        BY <1>a DEF TypeOK
      <3> HIDE DEF p
      <3> QED
        BY <1>20, <1>a, <3>1 DEF FailLocked, TypeOK, WorkerStates, p
    <2>3. p # "admitting" /\ (p = "recording" => ~deleted)
      BY DEF FailureMeans
    <2>4. /\ \A v \in Workers : worker'[v].pc \in Holding => v = w
          /\ taskLock' = w
          /\ UNCHANGED <<reports, deleted>>
      BY <1>20, <2>1, <2>2 DEF FailLocked, LockTask
    <2> HIDE DEF e, p
    <2> QED
      BY <1>a, <2>2, <2>3, <2>4 DEF Decided, LockHeld, AdmissionStands, FollowUpStands,
         DeletionStands, Holding
  <1>21. ASSUME NEW w \in Workers, AnswerCommit(w) PROVE Decided'
    <2>1. worker[w].pc \in Holding
      BY <1>21, VerdictType DEF AnswerCommit, Holding
    <2>2. /\ \A v \in Workers : worker'[v].pc \notin Holding
          /\ taskLock' = "free"
      <3>1. \A v \in Workers : v # w => worker'[v].pc \notin Holding
        BY <1>21, <1>a, <2>1, OneHolds DEF AnswerCommit, TypeOK, Decided
      <3> QED
        BY <1>21, <1>a, <3>1 DEF AnswerCommit, TypeOK, Idle, Holding
    <2> QED
      BY <2>2 DEF Decided, LockHeld, AdmissionStands, FollowUpStands, DeletionStands, Holding
  <1>22. ASSUME NEW w \in Workers, AbandonCommit(w) PROVE Decided'
    BY <1>22, OthersUndisturbed DEF AbandonCommit, Idle, Holding
  <1>23. ASSUME NEW w \in Workers, FailCommit(w) PROVE Decided'
    <2>1. /\ worker' = [worker EXCEPT ![w] = Idle]
          /\ UNCHANGED <<reports, deleted>>
          /\ worker[w].pc = "recording"
          /\ taskLock' = "free"
      BY <1>23 DEF FailCommit
    <2> QED
      BY <2>1, OthersUndisturbed DEF Idle, Holding
  <1>24. ASSUME NEW w \in Workers, WorkerDies(w) PROVE Decided'
    BY <1>24, OthersUndisturbed DEF WorkerDies, Idle, Holding
  <1> QED
    BY <1>1, <1>2, <1>3, <1>4, <1>5, <1>6, <1>7, <1>8, <1>9, <1>10, <1>11, <1>12,
       <1>13, <1>14, <1>15, <1>16, <1>17, <1>18, <1>19, <1>20, <1>21, <1>22, <1>23,
       <1>24
       DEF Next

\* Inv is an invariant of the specification.
LEMMA Invariance == Spec => []Inv
  <1>1. Init => Inv
    BY TypesInit, DecidedInit DEF Inv
  <1>2. Inv /\ [Next]_vars => Inv'
    BY TypesNext, DecidedNext DEF Inv
  <1> QED
    BY <1>1, <1>2, PTL DEF Spec

\* Only the commit of an admission touches a report, and it fills a gap of a
\* task that is not deleted.
LEMMA OnlyAdmission ==
  ASSUME Inv, [Next]_vars, ~UNCHANGED reports
  PROVE  \E w \in Workers :
            /\ AnswerCommit(w)
            /\ worker[w].pc = "admitting"
            /\ worker[w].run \in Runs
            /\ reports[RevisionOf(worker[w].run)] = NoRun
            /\ ~deleted
            /\ reports' = [reports EXCEPT ![RevisionOf(worker[w].run)] = worker[w].run]
  <1>1. \E w \in Workers : AnswerCommit(w)
    BY DEF Next, vars, QueueInitial, StartManual, Dispatch, DispatchRaises, FailDispatch,
       CreatorDies, Cancel, Lose, SweepSpares, SweepEnds, SweepSelect, DeleteRead,
       DeleteCommit, Receive, Claim, VoidClaim, Answer, Fail, FailLocked, AbandonCommit,
       FailCommit, WorkerDies
  <1>2. PICK w \in Workers : AnswerCommit(w)
    BY <1>1
  <1>3. worker[w].pc = "admitting"
    BY <1>2 DEF AnswerCommit
  <1> QED
    BY <1>2, <1>3 DEF AnswerCommit, Inv, Types, Busy, Decided, AdmissionStands

\* A report once accepted is never replaced, for any number of handlers.
THEOREM ReportsImmutable == Spec => ReportImmutable
  <1>1. Inv /\ [Next]_vars =>
          [\A r \in Revisions : reports[r] # NoRun => reports'[r] = reports[r]]_vars
    <2> SUFFICES ASSUME Inv, [Next]_vars, NEW r \in Revisions, reports[r] # NoRun
                 PROVE  reports'[r] = reports[r]
      OBVIOUS
    <2>1. CASE UNCHANGED reports
      BY <2>1
    <2>2. CASE ~UNCHANGED reports
      BY <2>2, OnlyAdmission DEF Inv, Types, TypeOK
    <2> QED
      BY <2>1, <2>2
  <1> QED
    BY <1>1, Invariance, PTL DEF Spec, ReportImmutable

\* A deleted task gains no report.
THEOREM DeletedGainsNoReport == Spec => NoReportAfterDeletion
  <1>1. Inv /\ [Next]_vars => [deleted => reports' = reports]_vars
    BY OnlyAdmission
  <1> QED
    BY <1>1, Invariance, PTL DEF Spec, NoReportAfterDeletion

\* What a run is made of.
LEMMA RunsAreRuns ==
  /\ \A e \in Runs : RevisionOf(e) \in Revisions /\ AttemptOf(e) \in Attempts
  /\ \A e \in Runs : e = <<RevisionOf(e), AttemptOf(e)>>
  /\ NoRun \notin Runs
  BY ConstantsAssumption DEF Runs, RevisionOf, AttemptOf

\* No action but an admission lets a run succeed.
LEMMA OnlySuccess ==
  ASSUME Inv, [Next]_vars, NEW e \in Runs, status[e] # "succeeded", status'[e] = "succeeded"
  PROVE  reports'[RevisionOf(e)] = e
  <1>a. TypeOK /\ Busy
    BY DEF Inv, Types
  <1>b. UNCHANGED status => FALSE
    OBVIOUS
  <1>1. ASSUME NEW r \in Revisions, QueueInitial(r) PROVE FALSE
    BY <1>1, <1>a, <1>b DEF QueueInitial, Insert, TypeOK
  <1>2. ASSUME NEW r \in Revisions, StartManual(r) PROVE FALSE
    BY <1>2, <1>a, <1>b DEF StartManual, Insert, TypeOK
  <1>3. ASSUME NEW f \in Runs, Dispatch(f) PROVE FALSE
    BY <1>3, <1>a, <1>b DEF Dispatch, rows
  <1>4. ASSUME NEW f \in Runs, DispatchRaises(f) PROVE FALSE
    BY <1>4, <1>a, <1>b DEF DispatchRaises, rows
  <1>5. ASSUME NEW f \in Runs, FailDispatch(f) PROVE FALSE
    BY <1>5, <1>a, <1>b DEF FailDispatch, TypeOK
  <1>6. ASSUME NEW f \in Runs, CreatorDies(f) PROVE FALSE
    BY <1>6, <1>a, <1>b DEF CreatorDies, rows
  <1>7. ASSUME NEW f \in Runs, Cancel(f) PROVE FALSE
    BY <1>7, <1>a, <1>b DEF Cancel, TypeOK
  <1>8. ASSUME NEW f \in Runs, Lose(f) PROVE FALSE
    BY <1>8, <1>a, <1>b DEF Lose, rows
  <1>9. ASSUME NEW f \in Runs, SweepSpares(f) PROVE FALSE
    BY <1>9, <1>a, <1>b DEF SweepSpares, rows
  <1>10. ASSUME NEW f \in Runs, SweepEnds(f) PROVE FALSE
    BY <1>10, <1>a, <1>b DEF SweepEnds, Written, TypeOK
  <1>11. ASSUME NEW w \in Workers, Claim(w) PROVE FALSE
    BY <1>11, <1>a, <1>b DEF Claim, TypeOK
  <1>12. ASSUME NEW w \in Workers, VoidClaim(w) PROVE FALSE
    BY <1>12, <1>a, <1>b DEF VoidClaim, TypeOK
  <1>13. ASSUME NEW w \in Workers, Answer(w) PROVE FALSE
    BY <1>13, <1>a, <1>b DEF Answer, rows
  <1>14. ASSUME NEW w \in Workers, FailLocked(w) PROVE FALSE
    BY <1>14, <1>a, <1>b DEF FailLocked, rows
  <1>15. ASSUME NEW w \in Workers, AbandonCommit(w) PROVE FALSE
    BY <1>15, <1>a, <1>b DEF AbandonCommit, Written, TypeOK
  <1>16. ASSUME NEW w \in Workers, WorkerDies(w) PROVE FALSE
    BY <1>16, <1>a, <1>b DEF WorkerDies, rows
  <1>17. ASSUME NEW w \in Workers, NEW f \in Runs, Receive(w, f) PROVE FALSE
    BY <1>17, <1>a, <1>b DEF Receive, rows
  <1>18. ASSUME NEW w \in Workers, NEW c \in FailureCodes, Fail(w, c) PROVE FALSE
    BY <1>18, <1>a, <1>b DEF Fail, rows
  <1>19. ASSUME NEW w \in Workers, FailCommit(w) PROVE FALSE
    BY <1>19, <1>a, <1>b DEF FailCommit, Written, TypeOK
  <1>20. ASSUME NEW w \in Workers, AnswerCommit(w) PROVE reports'[RevisionOf(e)] = e
    <2>1. e = worker[w].run /\ Verdict[worker[w].pc] = "succeeded"
      BY <1>20, <1>a DEF AnswerCommit, Written, TypeOK
    <2>2. worker[w].pc = "admitting"
      BY <1>20, <2>1 DEF AnswerCommit, Verdict
    <2> QED
      BY <1>20, <1>a, <2>1, <2>2, RunsAreRuns DEF AnswerCommit, TypeOK
  <1>21. CASE DeleteRead
    BY <1>21, <1>b DEF DeleteRead, rows
  <1>22. CASE SweepSelect
    BY <1>22, <1>b DEF SweepSelect, rows
  <1>23. CASE DeleteCommit
    BY <1>23, <1>a, <1>b DEF DeleteCommit, Written, TypeOK
  <1>24. CASE UNCHANGED vars
    BY <1>24, <1>b DEF vars, rows
  <1> QED
    BY <1>1, <1>2, <1>3, <1>4, <1>5, <1>6, <1>7, <1>8, <1>9, <1>10, <1>11, <1>12,
       <1>13, <1>14, <1>15, <1>16, <1>17, <1>18, <1>19, <1>20, <1>21, <1>22, <1>23,
       <1>24
       DEF Next

\* A run succeeds with its report and keeps it.
THEOREM SuccessKeepsReport == Spec => []SuccessHasReport
  <1>1. Init => SuccessHasReport
    BY DEF Init, SuccessHasReport
  <1>2. SuccessHasReport /\ Inv /\ [Next]_vars => SuccessHasReport'
    <2> SUFFICES ASSUME SuccessHasReport, Inv, [Next]_vars, NEW e \in Runs,
                        status'[e] = "succeeded"
                 PROVE  reports'[RevisionOf(e)] = e
      BY DEF SuccessHasReport, Runs, Attempts, RevisionOf
    <2>1. CASE status[e] # "succeeded"
      BY <2>1, OnlySuccess
    <2>2. CASE status[e] = "succeeded"
      <3>1. reports[RevisionOf(e)] = e /\ e # NoRun
        BY <2>2, RunsAreRuns DEF SuccessHasReport
      <3>2. CASE UNCHANGED reports
        BY <3>1, <3>2
      <3>3. CASE ~UNCHANGED reports
        BY <3>1, <3>3, OnlyAdmission, RunsAreRuns DEF Inv, Types, TypeOK
      <3> QED
        BY <3>2, <3>3
    <2> QED
      BY <2>1, <2>2
  <1> QED
    BY <1>1, <1>2, Invariance, PTL DEF Spec

-----------------------------------------------------------------------------
(* Refinement: every step is a step of ReportAdmission or leaves it alone.   *)

\* Whatever holds the id of a run, the run's row exists.
RowsExist ==
    /\ \A e \in outbox \cup refused \cup queue \cup sweep.waiting : status[e] # "absent"
    /\ \A w \in Workers : worker[w].pc # "idle" => status[worker[w].run] # "absent"
    /\ \A e \in Runs : deletion[e] # "absent" => status[e] # "absent"

StaysPresent == \A e \in Runs : status[e] # "absent" => status'[e] # "absent"

\* A handler whose call failed keeps its run.
LEMMA SameRun ==
  ASSUME NEW x \in WorkerStates, NEW c
  PROVE  [x EXCEPT !.pc = "failing", !.why = c].run = x.run
  BY DEF WorkerStates

\* The automatic attempt that a failure may earn is a run of the same Revision.
LEMMA NextAttempt ==
  ASSUME NEW e \in Runs, NEW c, AutomaticAttemptPermitted(e, c)
  PROVE  /\ <<RevisionOf(e), AttemptOf(e) + 1>> \in Runs
         /\ AttemptOf(e) \in Nat /\ AttemptOf(e) >= 1
  BY ConstantsAssumption
     DEF AutomaticAttemptPermitted, InitialAttemptLimit, Runs, Attempts, RevisionOf, AttemptOf

\* No action deletes a row.
LEMMA RowsStay ==
  ASSUME Types, [Next]_vars
  PROVE  StaysPresent
  <1>a. TypeOK
    BY DEF Types
  <1>b. UNCHANGED status => StaysPresent
    BY DEF StaysPresent
  <1>1. ASSUME NEW r \in Revisions, QueueInitial(r) PROVE StaysPresent
    BY <1>1, <1>a DEF QueueInitial, Insert, TypeOK, StaysPresent
  <1>2. ASSUME NEW r \in Revisions, StartManual(r) PROVE StaysPresent
    BY <1>2, <1>a DEF StartManual, Insert, TypeOK, StaysPresent
  <1>3. ASSUME NEW e \in Runs, Dispatch(e) PROVE StaysPresent
    BY <1>3, <1>b DEF Dispatch, rows
  <1>4. ASSUME NEW e \in Runs, DispatchRaises(e) PROVE StaysPresent
    BY <1>4, <1>b DEF DispatchRaises, rows
  <1>5. ASSUME NEW e \in Runs, FailDispatch(e) PROVE StaysPresent
    BY <1>5, <1>a DEF FailDispatch, TypeOK, StaysPresent
  <1>6. ASSUME NEW e \in Runs, CreatorDies(e) PROVE StaysPresent
    BY <1>6, <1>b DEF CreatorDies, rows
  <1>7. ASSUME NEW e \in Runs, Cancel(e) PROVE StaysPresent
    BY <1>7, <1>a DEF Cancel, TypeOK, StaysPresent
  <1>8. ASSUME NEW e \in Runs, Lose(e) PROVE StaysPresent
    BY <1>8, <1>b DEF Lose, rows
  <1>9. ASSUME NEW e \in Runs, SweepSpares(e) PROVE StaysPresent
    BY <1>9, <1>b DEF SweepSpares, rows
  <1>10. ASSUME NEW e \in Runs, SweepEnds(e) PROVE StaysPresent
    BY <1>10, <1>a DEF SweepEnds, Written, TypeOK, StaysPresent
  <1>11. ASSUME NEW w \in Workers, Claim(w) PROVE StaysPresent
    BY <1>11, <1>a DEF Claim, TypeOK, StaysPresent
  <1>12. ASSUME NEW w \in Workers, VoidClaim(w) PROVE StaysPresent
    BY <1>12, <1>a DEF VoidClaim, TypeOK, StaysPresent
  <1>13. ASSUME NEW w \in Workers, Answer(w) PROVE StaysPresent
    BY <1>13, <1>b DEF Answer, rows
  <1>14. ASSUME NEW w \in Workers, AnswerCommit(w) PROVE StaysPresent
    <2>1. Verdict[worker[w].pc] # "absent"
      BY <1>14, VerdictType DEF AnswerCommit, Terminal
    <2> QED
      BY <1>14, <1>a, <2>1 DEF AnswerCommit, Written, TypeOK, StaysPresent
  <1>15. ASSUME NEW w \in Workers, FailLocked(w) PROVE StaysPresent
    BY <1>15, <1>b DEF FailLocked, rows
  <1>16. ASSUME NEW w \in Workers, AbandonCommit(w) PROVE StaysPresent
    BY <1>16, <1>a DEF AbandonCommit, Written, TypeOK, StaysPresent
  <1>17. ASSUME NEW w \in Workers, FailCommit(w) PROVE StaysPresent
    BY <1>17, <1>a DEF FailCommit, Written, TypeOK, StaysPresent
  <1>18. ASSUME NEW w \in Workers, WorkerDies(w) PROVE StaysPresent
    BY <1>18, <1>b DEF WorkerDies, rows
  <1>19. ASSUME NEW w \in Workers, NEW e \in Runs, Receive(w, e) PROVE StaysPresent
    BY <1>19, <1>b DEF Receive, rows
  <1>20. ASSUME NEW w \in Workers, NEW c \in FailureCodes, Fail(w, c) PROVE StaysPresent
    BY <1>20, <1>b DEF Fail, rows
  <1>21. CASE DeleteRead
    BY <1>21, <1>b DEF DeleteRead, rows
  <1>22. CASE DeleteCommit
    BY <1>22, <1>a DEF DeleteCommit, Written, TypeOK, StaysPresent
  <1>23. CASE SweepSelect
    BY <1>23, <1>b DEF SweepSelect, rows
  <1>24. CASE UNCHANGED vars
    BY <1>24, <1>b DEF vars, rows
  <1> QED
    BY <1>1, <1>2, <1>3, <1>4, <1>5, <1>6, <1>7, <1>8, <1>9, <1>10, <1>11, <1>12,
       <1>13, <1>14, <1>15, <1>16, <1>17, <1>18, <1>19, <1>20, <1>21, <1>22, <1>23,
       <1>24
       DEF Next

\* RowsExist holds at the start.
LEMMA RowsExistInit == Init => RowsExist
  BY DEF Init, RowsExist, Idle, NotDeleting, NotSweeping

\* Every step keeps RowsExist.
LEMMA RowsExistNext == Types /\ RowsExist /\ [Next]_vars => RowsExist'
  <1> SUFFICES ASSUME Types, RowsExist, [Next]_vars PROVE RowsExist'
    OBVIOUS
  <1>a. TypeOK /\ Busy /\ StaysPresent
    BY RowsStay DEF Types
  <1> USE DEF RowsExist, StaysPresent
  <1>1. ASSUME NEW r \in Revisions, QueueInitial(r) PROVE RowsExist'
    <2>1. <<r, 1>> \in Runs
      BY ConstantsAssumption DEF Runs, Attempts
    <2> QED
      BY <1>1, <1>a, <2>1 DEF QueueInitial, Insert, TypeOK, Busy
  <1>2. ASSUME NEW r \in Revisions, StartManual(r) PROVE RowsExist'
    <2>1. PICK m \in 0 .. MaxAttempt - 1 :
            Insert(<<r, m + 1>>, IF m = 0 THEN "initial" ELSE "manual")
      BY <1>2 DEF StartManual
    <2>2. <<r, m + 1>> \in Runs
      BY ConstantsAssumption DEF Runs, Attempts
    <2> QED
      BY <1>2, <1>a, <2>1, <2>2 DEF StartManual, Insert, TypeOK, Busy
  <1>3. ASSUME NEW e \in Runs, Dispatch(e) PROVE RowsExist'
    BY <1>3, <1>a DEF Dispatch, rows, transport, TypeOK, Busy
  <1>4. ASSUME NEW e \in Runs, DispatchRaises(e) PROVE RowsExist'
    BY <1>4, <1>a DEF DispatchRaises, rows, transport, TypeOK, Busy
  <1>5. ASSUME NEW e \in Runs, FailDispatch(e) PROVE RowsExist'
    BY <1>5, <1>a DEF FailDispatch, rows, transport, TypeOK, Busy
  <1>6. ASSUME NEW e \in Runs, CreatorDies(e) PROVE RowsExist'
    BY <1>6, <1>a DEF CreatorDies, rows, transport, TypeOK, Busy
  <1>7. ASSUME NEW e \in Runs, Cancel(e) PROVE RowsExist'
    BY <1>7, <1>a DEF Cancel, rows, transport, TypeOK, Busy
  <1>8. ASSUME NEW e \in Runs, Lose(e) PROVE RowsExist'
    BY <1>8, <1>a DEF Lose, rows, transport, TypeOK, Busy
  <1>9. ASSUME NEW e \in Runs, SweepSpares(e) PROVE RowsExist'
    <2>1. sweep'.waiting \subseteq sweep.waiting
      BY <1>9, <1>a DEF SweepSpares, Looked, NotSweeping, TypeOK
    <2> QED
      BY <1>9, <1>a, <2>1 DEF SweepSpares, rows, transport, TypeOK, Busy
  <1>10. ASSUME NEW e \in Runs, SweepEnds(e) PROVE RowsExist'
    <2>1. sweep'.waiting \subseteq sweep.waiting
      BY <1>10, <1>a DEF SweepEnds, Looked, NotSweeping, TypeOK
    <2> QED
      BY <1>10, <1>a, <2>1 DEF SweepEnds, rows, transport, TypeOK, Busy
  <1>11. ASSUME NEW w \in Workers, Claim(w) PROVE RowsExist'
    BY <1>11, <1>a DEF Claim, Idle, WorkerStates, rows, transport, TypeOK, Busy
  <1>12. ASSUME NEW w \in Workers, VoidClaim(w) PROVE RowsExist'
    BY <1>12, <1>a DEF VoidClaim, Idle, rows, transport, TypeOK, Busy
  <1>13. ASSUME NEW w \in Workers, Answer(w) PROVE RowsExist'
    BY <1>13, <1>a DEF Answer, LockTask, WorkerStates, rows, transport, TypeOK, Busy
  <1>14. ASSUME NEW w \in Workers, AnswerCommit(w) PROVE RowsExist'
    BY <1>14, <1>a DEF AnswerCommit, Idle, rows, transport, TypeOK, Busy
  <1>15. ASSUME NEW w \in Workers, FailLocked(w) PROVE RowsExist'
    BY <1>15, <1>a DEF FailLocked, LockTask, WorkerStates, rows, transport, TypeOK, Busy
  <1>16. ASSUME NEW w \in Workers, AbandonCommit(w) PROVE RowsExist'
    BY <1>16, <1>a DEF AbandonCommit, Idle, rows, transport, TypeOK, Busy
  <1>17. ASSUME NEW w \in Workers, FailCommit(w) PROVE RowsExist'
    <2> DEFINE e == worker[w].run
               next == <<RevisionOf(e), AttemptOf(e) + 1>>
    <2>1. /\ outbox' \subseteq outbox \cup {next}
          /\ next \in outbox' /\ next \notin outbox => status'[next] # "absent"
      BY <1>17, <1>a, NextAttempt DEF FailCommit, TypeOK, Busy, WorkerStates
    <2>2. UNCHANGED <<refused, queue, deletion, sweep>> /\ worker' = [worker EXCEPT ![w] = Idle]
      BY <1>17 DEF FailCommit
    <2> HIDE DEF e, next
    <2> QED
      BY <1>a, <2>1, <2>2 DEF TypeOK, Busy, Idle
  <1>18. ASSUME NEW w \in Workers, WorkerDies(w) PROVE RowsExist'
    BY <1>18, <1>a DEF WorkerDies, Idle, rows, transport, TypeOK, Busy
  <1>19. ASSUME NEW w \in Workers, NEW e \in Runs, Receive(w, e) PROVE RowsExist'
    BY <1>19, <1>a DEF Receive, WorkerStates, Idle, rows, transport, TypeOK, Busy
  <1>20. ASSUME NEW w \in Workers, NEW c \in FailureCodes, Fail(w, c) PROVE RowsExist'
    <2> DEFINE x == [worker[w] EXCEPT !.pc = "failing", !.why = c]
    <2>1. /\ \A v \in Workers : v # w => worker'[v] = worker[v]
          /\ worker'[w] = Idle \/ worker'[w] = x
      BY <1>20, <1>a DEF Fail, TypeOK
    <2>2. worker[w] \in WorkerStates
      BY <1>a DEF TypeOK
    <2>3. worker'[w].pc = "idle" \/ worker'[w].run = worker[w].run
      <3>1. x.run = worker[w].run
        BY <2>2, SameRun
      <3> HIDE DEF x
      <3> QED
        BY <2>1, <3>1 DEF Idle
    <2>4. worker[w].pc # "idle" /\ UNCHANGED <<status, outbox, refused, queue, deletion, sweep>>
      BY <1>20 DEF Fail, rows, transport
    <2> QED
      BY <2>1, <2>3, <2>4
  <1>21. CASE DeleteRead
    BY <1>21, <1>a DEF DeleteRead, rows, transport, TypeOK, Busy
  <1>22. CASE DeleteCommit
    BY <1>22, <1>a DEF DeleteCommit, NotDeleting, rows, transport, TypeOK, Busy
  <1>23. CASE SweepSelect
    BY <1>23, <1>a DEF SweepSelect, Waiting, rows, transport, TypeOK, Busy
  <1>24. CASE UNCHANGED vars
    BY <1>24 DEF vars, rows, transport
  <1> QED
    BY <1>1, <1>2, <1>3, <1>4, <1>5, <1>6, <1>7, <1>8, <1>9, <1>10, <1>11, <1>12,
       <1>13, <1>14, <1>15, <1>16, <1>17, <1>18, <1>19, <1>20, <1>21, <1>22, <1>23,
       <1>24
       DEF Next

Started == {e \in Runs : status[e] # "absent"}

\* A step that inserts no row, admits no report and deletes no task is a
\* stutter of the promise.
LEMMA StutterStep ==
  ASSUME Started' = Started, UNCHANGED <<reports, deleted>>
  PROVE  [Admission!Next]_(Admission!vars)
  BY DEF Admission!vars, Started

\* A new row starts exactly one run.
LEMMA InsertStep ==
  ASSUME TypeOK, NEW e \in Runs, NEW why, Insert(e, why)
  PROVE  e \notin Started /\ Started' = Started \cup {e}
  BY DEF Insert, TypeOK, Started

\* Queueing the next attempt is a Start of the promise.
LEMMA StartStep ==
  ASSUME NEW r \in Revisions, NEW m \in Attempts, <<r, m>> \notin Started,
         Started' = Started \cup {<<r, m>>},
         m > 1 => <<r, m - 1>> \in Started,
         deleted => m = 1,
         UNCHANGED <<reports, deleted>>
  PROVE  Admission!Next
  <1>1. Admission!Start(r, m)
    BY DEF Admission!Start, Started
  <1> QED
    BY <1>1 DEF Admission!Next

\* The initial state maps to the promise's.
LEMMA RefinementInit == Init => Admission!Init
  BY DEF Init, Admission!Init

\* Every step maps to a step of the promise or to a stutter.
LEMMA RefinementNext ==
  Inv /\ RowsExist /\ [Next]_vars => [Admission!Next]_(Admission!vars)
  <1> SUFFICES ASSUME Inv, RowsExist, [Next]_vars
               PROVE  [Admission!Next]_(Admission!vars)
    OBVIOUS
  <1>a. TypeOK /\ Busy /\ Decided
    BY DEF Inv, Types
  <1>b. UNCHANGED <<status, reports, deleted>> => [Admission!Next]_(Admission!vars)
    BY StutterStep DEF Started
  <1>1. ASSUME NEW r \in Revisions, QueueInitial(r) PROVE [Admission!Next]_(Admission!vars)
    <2>1. <<r, 1>> \in Runs /\ 1 \in Attempts
      BY ConstantsAssumption DEF Runs, Attempts
    <2>2. Insert(<<r, 1>>, "initial") /\ UNCHANGED <<reports, deleted>>
      BY <1>1 DEF QueueInitial
    <2>3. <<r, 1>> \notin Started /\ Started' = Started \cup {<<r, 1>>}
      BY <1>a, <2>1, <2>2, InsertStep
    <2> QED
      <3>1. Admission!Start(r, 1)
        BY <2>2, <2>3 DEF Admission!Start, Started
      <3> QED
        BY <2>1, <3>1 DEF Admission!Next
  <1>2. ASSUME NEW r \in Revisions, StartManual(r) PROVE [Admission!Next]_(Admission!vars)
    <2>1. PICK m \in 0 .. MaxAttempt - 1 :
            /\ IsLatestAttempt(r, m)
            /\ Insert(<<r, m + 1>>, IF m = 0 THEN "initial" ELSE "manual")
      BY <1>2 DEF StartManual
    <2>2. <<r, m + 1>> \in Runs /\ m + 1 \in Attempts
      BY ConstantsAssumption DEF Runs, Attempts
    <2>3. m + 1 > 1 => <<r, m + 1 - 1>> \in Started
      BY <2>1 DEF IsLatestAttempt, RunsOf, Started
    <2>4. ~deleted /\ UNCHANGED <<reports, deleted>>
      BY <1>2 DEF StartManual
    <2> QED
      BY <1>a, <2>1, <2>2, <2>3, <2>4, InsertStep, StartStep
  <1>3. ASSUME NEW e \in Runs, Dispatch(e) PROVE [Admission!Next]_(Admission!vars)
    BY <1>3, <1>b DEF Dispatch, rows
  <1>4. ASSUME NEW e \in Runs, DispatchRaises(e) PROVE [Admission!Next]_(Admission!vars)
    BY <1>4, <1>b DEF DispatchRaises, rows
  <1>5. ASSUME NEW e \in Runs, FailDispatch(e) PROVE [Admission!Next]_(Admission!vars)
    <2>1. Started' = Started /\ UNCHANGED <<reports, deleted>>
      BY <1>5, <1>a DEF FailDispatch, RowsExist, Started, TypeOK
    <2> QED
      BY <2>1, StutterStep
  <1>6. ASSUME NEW e \in Runs, CreatorDies(e) PROVE [Admission!Next]_(Admission!vars)
    BY <1>6, <1>b DEF CreatorDies, rows
  <1>7. ASSUME NEW e \in Runs, Cancel(e) PROVE [Admission!Next]_(Admission!vars)
    <2>1. Started' = Started /\ UNCHANGED <<reports, deleted>>
      BY <1>7, <1>a DEF Cancel, Active, RowsExist, Started, TypeOK
    <2> QED
      BY <2>1, StutterStep
  <1>8. ASSUME NEW e \in Runs, Lose(e) PROVE [Admission!Next]_(Admission!vars)
    BY <1>8, <1>b DEF Lose, rows
  <1>9. ASSUME NEW e \in Runs, SweepSpares(e) PROVE [Admission!Next]_(Admission!vars)
    BY <1>9, <1>b DEF SweepSpares, rows
  <1>10. ASSUME NEW e \in Runs, SweepEnds(e) PROVE [Admission!Next]_(Admission!vars)
    <2>1. Started' = Started /\ UNCHANGED <<reports, deleted>>
      BY <1>10, <1>a DEF SweepEnds, Written, RowsExist, Started, TypeOK
    <2> QED
      BY <2>1, StutterStep
  <1>11. ASSUME NEW w \in Workers, Claim(w) PROVE [Admission!Next]_(Admission!vars)
    <2>1. Started' = Started /\ UNCHANGED <<reports, deleted>>
      BY <1>11, <1>a DEF Claim, Busy, RowsExist, Started, TypeOK
    <2> QED
      BY <2>1, StutterStep
  <1>12. ASSUME NEW w \in Workers, VoidClaim(w) PROVE [Admission!Next]_(Admission!vars)
    <2>1. Started' = Started /\ UNCHANGED <<reports, deleted>>
      BY <1>12, <1>a DEF VoidClaim, Busy, RowsExist, Started, TypeOK
    <2> QED
      BY <2>1, StutterStep
  <1>13. ASSUME NEW w \in Workers, Answer(w) PROVE [Admission!Next]_(Admission!vars)
    BY <1>13, <1>b DEF Answer, rows
  <1>14. ASSUME NEW w \in Workers, AnswerCommit(w) PROVE [Admission!Next]_(Admission!vars)
    <2> DEFINE e == worker[w].run
    <2>1. e \in Runs /\ status[e] # "absent"
      BY <1>14, <1>a, VerdictType DEF AnswerCommit, Busy, RowsExist
    <2>2. Started' = Started /\ UNCHANGED deleted
      BY <1>14, <1>a, <2>1, VerdictType DEF AnswerCommit, Started, Written, TypeOK, Terminal
    <2>3. CASE UNCHANGED reports
      BY <2>2, <2>3, StutterStep
    <2>4. CASE ~UNCHANGED reports
      <3>1. /\ worker[w].pc = "admitting"
            /\ reports' = [reports EXCEPT ![RevisionOf(e)] = e]
        BY <1>14, <2>4 DEF AnswerCommit
      <3>2. reports[RevisionOf(e)] = NoRun /\ ~deleted
        BY <1>a, <3>1 DEF Decided, AdmissionStands
      <3>3. Admission!Admit(RevisionOf(e), AttemptOf(e))
        BY <2>1, <2>2, <3>1, <3>2, RunsAreRuns DEF Admission!Admit, Started
      <3> QED
        BY <2>1, <3>3, RunsAreRuns DEF Admission!Next
    <2> QED
      BY <2>3, <2>4
  <1>15. ASSUME NEW w \in Workers, FailLocked(w) PROVE [Admission!Next]_(Admission!vars)
    BY <1>15, <1>b DEF FailLocked, rows
  <1>16. ASSUME NEW w \in Workers, AbandonCommit(w) PROVE [Admission!Next]_(Admission!vars)
    <2>1. Started' = Started /\ UNCHANGED <<reports, deleted>>
      BY <1>16, <1>a DEF AbandonCommit, Busy, Written, RowsExist, Started, TypeOK
    <2> QED
      BY <2>1, StutterStep
  <1>17. ASSUME NEW w \in Workers, FailCommit(w) PROVE [Admission!Next]_(Admission!vars)
    <2> DEFINE e == worker[w].run
               next == <<RevisionOf(e), AttemptOf(e) + 1>>
    <2>1. /\ e \in Runs /\ status[e] # "absent" /\ ~deleted
          /\ UNCHANGED <<reports, deleted>>
      BY <1>17, <1>a DEF FailCommit, Busy, RowsExist, Decided, FollowUpStands
    <2> DEFINE x == Written(worker[w].seen, "failed", status[e])
    <2>2. x # "absent"
      BY <2>1 DEF Written
    <2>3. \/ status' = [status EXCEPT ![e] = x]
          \/ UNCHANGED status
          \/ /\ AutomaticAttemptPermitted(e, worker[w].why)
             /\ status[next] = "absent"
             /\ status' = [status EXCEPT ![e] = x, ![next] = "queued"]
      BY <1>17, <1>a, <2>1 DEF FailCommit, TypeOK
    <2> HIDE DEF x
    <2>4. CASE status' = [status EXCEPT ![e] = x]
      <3>1. Started' = Started
        BY <1>a, <2>1, <2>4, <2>2 DEF Started, TypeOK
      <3> QED
        BY <2>1, <3>1, StutterStep
    <2>5. CASE UNCHANGED status
      BY <1>b, <2>1, <2>5
    <2>6. CASE /\ AutomaticAttemptPermitted(e, worker[w].why)
               /\ status[next] = "absent"
               /\ status' = [status EXCEPT ![e] = x, ![next] = "queued"]
      <3>1. /\ next \in Runs
            /\ AttemptOf(e) \in Nat
            /\ RevisionOf(e) \in Revisions
            /\ AttemptOf(e) + 1 \in Attempts
        BY <2>1, <2>6, NextAttempt, RunsAreRuns DEF Runs
      <3>2. next \notin Started /\ Started' = Started \cup {next}
        BY <1>a, <2>1, <2>6, <2>2, <3>1 DEF Started, TypeOK
      <3>3. <<RevisionOf(e), AttemptOf(e) + 1 - 1>> = e
        BY <2>1, <3>1, RunsAreRuns
      <3>4. <<RevisionOf(e), AttemptOf(e) + 1 - 1>> \in Started
        BY <2>1, <3>3 DEF Started
      <3> QED
        BY <2>1, <3>1, <3>2, <3>4, StartStep
    <2> QED
      BY <2>4, <2>5, <2>6, <2>3
  <1>18. ASSUME NEW w \in Workers, WorkerDies(w) PROVE [Admission!Next]_(Admission!vars)
    BY <1>18, <1>b DEF WorkerDies, rows
  <1>19. ASSUME NEW w \in Workers, NEW e \in Runs, Receive(w, e) PROVE [Admission!Next]_(Admission!vars)
    BY <1>19, <1>b DEF Receive, rows
  <1>20. ASSUME NEW w \in Workers, NEW c \in FailureCodes, Fail(w, c) PROVE [Admission!Next]_(Admission!vars)
    BY <1>20, <1>b DEF Fail, rows
  <1>21. CASE DeleteRead
    BY <1>21, <1>b DEF DeleteRead, rows
  <1>22. CASE DeleteCommit
    <2>1. Started' = Started /\ UNCHANGED reports
      BY <1>22, <1>a DEF DeleteCommit, RowsExist, Started, Written, TypeOK
    <2>2. ~deleted
      BY <1>22, <1>a DEF DeleteCommit, Decided, DeletionStands
    <2>3. CASE deleted'
      <3>1. deleted' = TRUE
        BY <1>22, <2>2, <2>3 DEF DeleteCommit
      <3>2. Admission!Delete
        BY <2>1, <2>2, <3>1 DEF Admission!Delete, Started
      <3> QED
        BY <3>2 DEF Admission!Next
    <2>4. CASE UNCHANGED deleted
      BY <2>1, <2>4, StutterStep
    <2> QED
      BY <1>22, <2>3, <2>4 DEF DeleteCommit
  <1>23. CASE SweepSelect
    BY <1>23, <1>b DEF SweepSelect, rows
  <1>24. CASE UNCHANGED vars
    BY <1>24, <1>b DEF vars, rows
  <1> QED
    BY <1>1, <1>2, <1>3, <1>4, <1>5, <1>6, <1>7, <1>8, <1>9, <1>10, <1>11, <1>12,
       <1>13, <1>14, <1>15, <1>16, <1>17, <1>18, <1>19, <1>20, <1>21, <1>22, <1>23,
       <1>24
       DEF Next

\* The queue, the workers, the sweep and the deletion together keep the
\* promise of ReportAdmission: one report a Revision, from a run of its own,
\* runs numbered without a gap, nothing new once the task is deleted.
THEOREM Refinement == Spec => ImplementsAdmission
  <1>1. Init => RowsExist
    BY RowsExistInit
  <1>2. Inv /\ RowsExist /\ [Next]_vars => RowsExist'
    BY RowsExistNext DEF Inv
  <1> QED
    BY <1>1, <1>2, Invariance, RefinementInit, RefinementNext, PTL
       DEF Spec, ImplementsAdmission, Admission!Spec

-----------------------------------------------------------------------------
(* The automatic attempt is spent once.                                      *)

\* Only the first two attempts of a Revision are ever not asked for.
AutomaticIsSecond == \A e \in Runs :
    status[e] # "absent" /\ origin[e] # "manual" => AttemptOf(e) \in 1 .. InitialAttemptLimit

\* The attempt a failure earns is the second at most.
LEMMA AutomaticNext ==
  ASSUME NEW e \in Runs, NEW c, AutomaticAttemptPermitted(e, c)
  PROVE  /\ <<RevisionOf(e), AttemptOf(e) + 1>> \in Runs
         /\ AttemptOf(<<RevisionOf(e), AttemptOf(e) + 1>>) \in 1 .. InitialAttemptLimit
  <1>1. AttemptOf(e) \in Nat /\ AttemptOf(e) >= 1 /\ AttemptOf(e) < InitialAttemptLimit
    BY NextAttempt DEF AutomaticAttemptPermitted
  <1> QED
    BY <1>1, NextAttempt DEF InitialAttemptLimit, AttemptOf

\* A set of at most two elements has at most two.
LEMMA PairCardinality ==
  ASSUME NEW a, NEW b, NEW S, S \subseteq {a, b}
  PROVE  Cardinality(S) <= 2
  <1>1. IsFiniteSet({a}) /\ Cardinality({a}) = 1
    BY FS_Singleton
  <1>2. /\ IsFiniteSet({a} \cup {b})
        /\ Cardinality({a} \cup {b}) = 1 \/ Cardinality({a} \cup {b}) = 2
    BY <1>1, FS_AddElement
  <1>3. {a, b} = {a} \cup {b}
    OBVIOUS
  <1>4. Cardinality(S) <= Cardinality({a, b}) /\ Cardinality(S) \in Nat
    BY <1>2, <1>3, FS_Subset, FS_CardinalityType
  <1> QED
    BY <1>2, <1>3, <1>4

\* Every step keeps AutomaticIsSecond.
LEMMA BudgetNext == Inv /\ RowsExist /\ AutomaticIsSecond /\ [Next]_vars => AutomaticIsSecond'
  <1> SUFFICES ASSUME Inv, RowsExist, AutomaticIsSecond, [Next]_vars
               PROVE  AutomaticIsSecond'
    OBVIOUS
  <1>a. TypeOK /\ Busy
    BY DEF Inv, Types
  <1>b. Started' = Started /\ UNCHANGED origin => AutomaticIsSecond'
    BY DEF Started, AutomaticIsSecond
  <1>1. ASSUME NEW r \in Revisions, QueueInitial(r) PROVE AutomaticIsSecond'
    <2>1. Insert(<<r, 1>>, "initial")
      BY <1>1 DEF QueueInitial
    <2>2. AttemptOf(<<r, 1>>) \in 1 .. InitialAttemptLimit
      BY DEF AttemptOf, InitialAttemptLimit
    <2> QED
      BY <1>a, <2>1, <2>2 DEF Insert, TypeOK, AutomaticIsSecond
  <1>2. ASSUME NEW r \in Revisions, StartManual(r) PROVE AutomaticIsSecond'
    <2>1. PICK m \in 0 .. MaxAttempt - 1 :
            Insert(<<r, m + 1>>, IF m = 0 THEN "initial" ELSE "manual")
      BY <1>2 DEF StartManual
    <2>2. m = 0 => AttemptOf(<<r, m + 1>>) \in 1 .. InitialAttemptLimit
      BY DEF AttemptOf, InitialAttemptLimit
    <2> QED
      BY <1>a, <2>1, <2>2 DEF Insert, TypeOK, AutomaticIsSecond
  <1>3. ASSUME NEW e \in Runs, Dispatch(e) PROVE AutomaticIsSecond'
    BY <1>3, <1>b DEF Dispatch, rows, Started
  <1>4. ASSUME NEW e \in Runs, DispatchRaises(e) PROVE AutomaticIsSecond'
    BY <1>4, <1>b DEF DispatchRaises, rows, Started
  <1>5. ASSUME NEW e \in Runs, FailDispatch(e) PROVE AutomaticIsSecond'
    <2>1. Started' = Started /\ UNCHANGED origin
      BY <1>5, <1>a DEF FailDispatch, RowsExist, Started, TypeOK
    <2> QED
      BY <1>b, <2>1
  <1>6. ASSUME NEW e \in Runs, CreatorDies(e) PROVE AutomaticIsSecond'
    BY <1>6, <1>b DEF CreatorDies, rows, Started
  <1>7. ASSUME NEW e \in Runs, Cancel(e) PROVE AutomaticIsSecond'
    <2>1. Started' = Started /\ UNCHANGED origin
      BY <1>7, <1>a DEF Cancel, Active, RowsExist, Started, TypeOK
    <2> QED
      BY <1>b, <2>1
  <1>8. ASSUME NEW e \in Runs, Lose(e) PROVE AutomaticIsSecond'
    BY <1>8, <1>b DEF Lose, rows, Started
  <1>9. ASSUME NEW e \in Runs, SweepSpares(e) PROVE AutomaticIsSecond'
    BY <1>9, <1>b DEF SweepSpares, rows, Started
  <1>10. ASSUME NEW e \in Runs, SweepEnds(e) PROVE AutomaticIsSecond'
    <2>1. Started' = Started /\ UNCHANGED origin
      BY <1>10, <1>a DEF SweepEnds, Written, RowsExist, Started, TypeOK
    <2> QED
      BY <1>b, <2>1
  <1>11. ASSUME NEW w \in Workers, Claim(w) PROVE AutomaticIsSecond'
    <2>1. Started' = Started /\ UNCHANGED origin
      BY <1>11, <1>a DEF Claim, Busy, RowsExist, Started, TypeOK
    <2> QED
      BY <1>b, <2>1
  <1>12. ASSUME NEW w \in Workers, VoidClaim(w) PROVE AutomaticIsSecond'
    <2>1. Started' = Started /\ UNCHANGED origin
      BY <1>12, <1>a DEF VoidClaim, Busy, RowsExist, Started, TypeOK
    <2> QED
      BY <1>b, <2>1
  <1>13. ASSUME NEW w \in Workers, Answer(w) PROVE AutomaticIsSecond'
    BY <1>13, <1>b DEF Answer, rows, Started
  <1>14. ASSUME NEW w \in Workers, AnswerCommit(w) PROVE AutomaticIsSecond'
    <2>1. worker[w].run \in Runs /\ status[worker[w].run] # "absent"
      BY <1>14, <1>a, VerdictType DEF AnswerCommit, Busy, RowsExist
    <2>2. Started' = Started /\ UNCHANGED origin
      BY <1>14, <1>a, <2>1, VerdictType DEF AnswerCommit, Started, Written, TypeOK, Terminal
    <2> QED
      BY <1>b, <2>2
  <1>15. ASSUME NEW w \in Workers, FailLocked(w) PROVE AutomaticIsSecond'
    BY <1>15, <1>b DEF FailLocked, rows, Started
  <1>16. ASSUME NEW w \in Workers, AbandonCommit(w) PROVE AutomaticIsSecond'
    <2>1. Started' = Started /\ UNCHANGED origin
      BY <1>16, <1>a DEF AbandonCommit, Busy, Written, RowsExist, Started, TypeOK
    <2> QED
      BY <1>b, <2>1
  <1>17. ASSUME NEW w \in Workers, FailCommit(w) PROVE AutomaticIsSecond'
    <2> DEFINE e == worker[w].run
               next == <<RevisionOf(e), AttemptOf(e) + 1>>
    <2>1. e \in Runs /\ status[e] # "absent"
      BY <1>17, <1>a DEF FailCommit, Busy, RowsExist
    <2>2. CASE UNCHANGED origin
      <3>1. \A f \in Runs : f # next /\ status'[f] # "absent" => status[f] # "absent"
        BY <1>17, <1>a, <2>1 DEF FailCommit, TypeOK
      <3>2. AutomaticAttemptPermitted(e, worker[w].why) /\ status[next] = "absent" =>
              UNCHANGED status \/ origin' = [origin EXCEPT ![next] = "automatic"]
        BY <1>17 DEF FailCommit
      <3>3. CASE AutomaticAttemptPermitted(e, worker[w].why)
        <4>1. next \in Runs /\ AttemptOf(next) \in 1 .. InitialAttemptLimit
          BY <2>1, <3>3, AutomaticNext
        <4> HIDE DEF next
        <4> QED
          BY <2>2, <3>1, <4>1 DEF AutomaticIsSecond
      <3>4. CASE ~AutomaticAttemptPermitted(e, worker[w].why)
        <4>1. Started' = Started
          BY <1>17, <1>a, <2>1, <3>4 DEF FailCommit, Started, Written, TypeOK
        <4> QED
          BY <1>b, <2>2, <4>1
      <3> QED
        BY <3>3, <3>4
    <2>3. CASE ~UNCHANGED origin
      <3>1. /\ AutomaticAttemptPermitted(e, worker[w].why)
            /\ origin' = [origin EXCEPT ![next] = "automatic"]
            /\ \A f \in Runs : f # next /\ status'[f] # "absent" => status[f] # "absent"
        BY <1>17, <1>a, <2>1, <2>3 DEF FailCommit, TypeOK
      <3>2. next \in Runs /\ AttemptOf(next) \in 1 .. InitialAttemptLimit
        BY <2>1, <3>1, AutomaticNext
      <3> HIDE DEF next
      <3> QED
        BY <1>a, <3>1, <3>2 DEF AutomaticIsSecond, TypeOK
    <2> QED
      BY <2>2, <2>3
  <1>18. ASSUME NEW w \in Workers, WorkerDies(w) PROVE AutomaticIsSecond'
    BY <1>18, <1>b DEF WorkerDies, rows, Started
  <1>19. ASSUME NEW w \in Workers, NEW e \in Runs, Receive(w, e) PROVE AutomaticIsSecond'
    BY <1>19, <1>b DEF Receive, rows, Started
  <1>20. ASSUME NEW w \in Workers, NEW c \in FailureCodes, Fail(w, c) PROVE AutomaticIsSecond'
    BY <1>20, <1>b DEF Fail, rows, Started
  <1>21. CASE DeleteRead
    BY <1>21, <1>b DEF DeleteRead, rows, Started
  <1>22. CASE DeleteCommit
    <2>1. Started' = Started /\ UNCHANGED origin
      BY <1>22, <1>a DEF DeleteCommit, Written, RowsExist, Started, TypeOK
    <2> QED
      BY <1>b, <2>1
  <1>23. CASE SweepSelect
    BY <1>23, <1>b DEF SweepSelect, rows, Started
  <1>24. CASE UNCHANGED vars
    BY <1>24, <1>b DEF vars, rows, Started
  <1> QED
    BY <1>1, <1>2, <1>3, <1>4, <1>5, <1>6, <1>7, <1>8, <1>9, <1>10, <1>11, <1>12,
       <1>13, <1>14, <1>15, <1>16, <1>17, <1>18, <1>19, <1>20, <1>21, <1>22, <1>23,
       <1>24
       DEF Next

\* However many handlers hold its runs, a Revision is never run more than twice
\* without its user asking.
THEOREM BudgetKept == Spec => []InitialBudget
  <1>1. Init => RowsExist /\ AutomaticIsSecond
    BY RowsExistInit DEF Init, AutomaticIsSecond
  <1>2. Inv /\ RowsExist /\ [Next]_vars => RowsExist'
    BY RowsExistNext DEF Inv
  <1>3. AutomaticIsSecond => InitialBudget
    <2> SUFFICES ASSUME AutomaticIsSecond, NEW r \in Revisions
                 PROVE  Cardinality({e \in RunsOf(r) : origin[e] # "manual"}) <= 2
      BY DEF InitialBudget, InitialAttemptLimit
    <2>1. \A e \in RunsOf(r) : origin[e] # "manual" => e \in {<<r, 1>>, <<r, 2>>}
      BY RunsAreRuns DEF AutomaticIsSecond, RunsOf, InitialAttemptLimit
    <2>2. {e \in RunsOf(r) : origin[e] # "manual"} \subseteq {<<r, 1>>, <<r, 2>>}
      BY <2>1
    <2> QED
      BY <2>2, PairCardinality
  <1> QED
    BY <1>1, <1>2, <1>3, Invariance, BudgetNext, PTL DEF Spec

-----------------------------------------------------------------------------
(* When a run may be started by hand. *)

\* A history as the policy leaves it, seen no earlier than its last run.
Good(manual, now) ==
    /\ InOrder(manual) /\ AtMostTwoAWindow(manual)
    /\ \A i \in DOMAIN manual : manual[i] <= now

LEMMA PairIsTwo ==
    ASSUME NEW a \in Int, NEW b \in Int, a # b
    PROVE  IsFiniteSet({a, b}) /\ Cardinality({a, b}) = 2
<1>1. IsFiniteSet({a}) /\ Cardinality({a}) = 1
  BY FS_Singleton
<1>2. IsFiniteSet({a} \cup {b}) /\ Cardinality({a} \cup {b}) = 2
  BY <1>1, FS_AddElement
<1>3. {a} \cup {b} = {a, b}
  OBVIOUS
<1> QED
  BY <1>2, <1>3

\* The third of three manual runs waits for the window of the first.
LEMMA ThirdWaits ==
    ASSUME NEW manual, NEW now, Good(manual, now),
           NEW i \in DOMAIN manual, i + 2 \in DOMAIN manual
    PROVE  manual[i] + 1800 <= manual[i + 2]
<1>1. i + MANUAL_RETRY_LIMIT \in DOMAIN manual
  BY DEF MANUAL_RETRY_LIMIT
<1>2. manual[i] + MANUAL_RETRY_WINDOW <= manual[i + MANUAL_RETRY_LIMIT]
  BY <1>1, Zenon DEF Good, AtMostTwoAWindow
<1> QED
  BY <1>2 DEF MANUAL_RETRY_LIMIT, MANUAL_RETRY_WINDOW

\* Only the last two manual runs can be inside the window.
LEMMA InsideIsLast ==
    ASSUME NEW manual \in Histories, NEW now \in Nat, Good(manual, now)
    PROVE  /\ InsideWindow(manual, now) \subseteq {Len(manual), Len(manual) - 1}
           /\ IsFiniteSet(InsideWindow(manual, now))
           /\ Cardinality(InsideWindow(manual, now)) <= 2
<1> DEFINE n == Len(manual)
<1>1. n \in Nat /\ DOMAIN manual = 1 .. n /\ \A i \in 1 .. n : manual[i] \in Nat
  BY DEF Histories
<1>n. n = Len(manual)
  OBVIOUS
<1> HIDE DEF n
<1>2. ASSUME NEW i \in InsideWindow(manual, now) PROVE i \in {n, n - 1}
  <2>1. i \in 1 .. n /\ manual[i] + 1800 > now
    BY <1>1 DEF InsideWindow, MANUAL_RETRY_WINDOW
  <2>2. i + 2 \notin 1 .. n
    <3>1. SUFFICES ASSUME i + 2 \in 1 .. n PROVE FALSE
      OBVIOUS
    <3>2. manual[i] + 1800 <= manual[i + 2]
      <4>1. i \in DOMAIN manual /\ i + 2 \in DOMAIN manual
        BY <1>1, <2>1, <3>1
      <4> QED
        BY <4>1, ThirdWaits
    <3>3. manual[i + 2] <= now
      BY <1>1, <3>1 DEF Good
    <3> QED
      BY <1>1, <2>1, <3>1, <3>2, <3>3
  <2> QED
    BY <1>1, <2>1, <2>2
<1>3. IsFiniteSet({n, n - 1}) /\ Cardinality({n, n - 1}) <= 2
  <2>1. CASE n = 0
    <3>1. InsideWindow(manual, now) = {}
      BY <1>1, <2>1 DEF InsideWindow
    <3>2. n # n - 1 /\ n \in Int /\ n - 1 \in Int
      BY <1>1
    <3>3. IsFiniteSet({n}) /\ Cardinality({n}) = 1
      BY FS_Singleton
    <3>4. IsFiniteSet({n} \cup {n - 1}) /\ Cardinality({n} \cup {n - 1}) = 2
      BY <3>2, <3>3, FS_AddElement
    <3>5. {n} \cup {n - 1} = {n, n - 1}
      OBVIOUS
    <3> QED
      BY <3>4, <3>5
  <2>2. CASE n # 0
    <3>1. n - 1 \in Nat /\ n # n - 1
      BY <1>1, <2>2
    <3> QED
      BY <1>1, <3>1, PairIsTwo
  <2> QED
    BY <2>1, <2>2
<1>4. InsideWindow(manual, now) \subseteq {n, n - 1}
  BY <1>2
<1>5. /\ IsFiniteSet(InsideWindow(manual, now))
      /\ Cardinality(InsideWindow(manual, now)) <= Cardinality({n, n - 1})
      /\ Cardinality(InsideWindow(manual, now)) \in Nat
  BY <1>3, <1>4, FS_Subset, FS_CardinalityType
<1>6. Cardinality({n, n - 1}) \in Nat
  BY <1>3, FS_CardinalityType
<1> QED
  BY <1>n, <1>3, <1>4, <1>5, <1>6

\* When the allowance is used up, both of the last two runs are inside the window and
\* the older of them decides when the next one opens.
LEMMA UsedUp ==
    ASSUME NEW manual \in Histories, NEW now \in Nat, Good(manual, now),
           Remaining(manual, now) = 0
    PROVE  /\ Len(manual) - 1 \in InsideWindow(manual, now)
           /\ WindowRelease(manual, now) = manual[Len(manual) - 1] + MANUAL_RETRY_WINDOW
<1> DEFINE n == Len(manual)
           inside == InsideWindow(manual, now)
<1>1. n \in Nat /\ DOMAIN manual = 1 .. n /\ \A i \in 1 .. n : manual[i] \in Nat
  BY DEF Histories
<1>n. n = Len(manual)
  OBVIOUS
<1> HIDE DEF n
<1>2. /\ inside \subseteq {n, n - 1}
      /\ IsFiniteSet(inside) /\ Cardinality(inside) <= 2 /\ Cardinality(inside) \in Nat
  BY <1>n, InsideIsLast, FS_CardinalityType
<1>3. Cardinality(inside) = 2
  BY <1>2 DEF Remaining, MANUAL_RETRY_LIMIT
<1>4. ASSUME NEW i \in inside PROVE inside # {i}
  <2>1. Cardinality({i}) = 1
    BY FS_Singleton
  <2> QED
    BY <1>3, <2>1
<1>5. inside # {}
  BY <1>3, FS_EmptySet
<1>6. n - 1 \in inside /\ n \in inside
  <2>1. PICK i \in inside : TRUE
    BY <1>5
  <2>2. PICK j \in inside : j # i
    BY <1>4
  <2> QED
    BY <1>1, <1>2, <2>1, <2>2
<1>7. n - 1 \in 1 .. n /\ n \in 1 .. n
  BY <1>1, <1>6 DEF InsideWindow
<1>8. manual[n - 1] <= manual[n]
  BY <1>1, <1>7 DEF Good, InOrder
<1> DEFINE times == {manual[i] : i \in inside}
           oldest == CHOOSE t \in times : \A other \in times : t <= other
<1>9. oldest = manual[n - 1]
  <2>1. manual[n - 1] \in times /\ \A other \in times : manual[n - 1] <= other
    BY <1>1, <1>2, <1>6, <1>7, <1>8
  <2>2. oldest \in times /\ \A other \in times : oldest <= other
    BY <2>1
  <2>3. \A t \in times : t \in Nat
    BY <1>1 DEF InsideWindow
  <2>4. oldest <= manual[n - 1] /\ manual[n - 1] <= oldest
    BY <2>1, <2>2
  <2> QED
    BY <2>1, <2>2, <2>3, <2>4
<1>10. WindowRelease(manual, now) = oldest + MANUAL_RETRY_WINDOW
  BY DEF WindowRelease
<1> QED
  BY <1>n, <1>6, <1>9, <1>10

-----------------------------------------------------------------------------
\* A manual run that retry_state admits leaves the history as it was found: of any
\* three in a row the last is half an hour after the first.  The rolling window of
\* zhiyan/recovery.py:121 lets no third run through at its edge.
THEOREM AllowanceKept ==
    ASSUME NEW manual \in Histories, NEW earliest \in Nat, NEW now \in Nat,
           Good(manual, now), Allowed(manual, earliest, now)
    PROVE  Good(Append(manual, now), now)
<1> DEFINE n == Len(manual)
           longer == Append(manual, now)
<1>1. n \in Nat /\ DOMAIN manual = 1 .. n /\ \A i \in 1 .. n : manual[i] \in Nat
  BY DEF Histories
<1>n. n = Len(manual)
  OBVIOUS
<1> HIDE DEF n
<1>2. /\ DOMAIN longer = 1 .. n + 1
      /\ longer[n + 1] = now
      /\ \A i \in 1 .. n : longer[i] = manual[i]
  BY <1>1 DEF Histories
<1>3. \A i \in 1 .. n : manual[i] <= now
  BY <1>1 DEF Good
<1>4. \A i \in DOMAIN longer : longer[i] <= now /\ longer[i] \in Nat
  BY <1>1, <1>2, <1>3
<1>5. InOrder(longer)
  <2>1. SUFFICES ASSUME NEW i \in 1 .. n + 1, NEW j \in 1 .. n + 1, i <= j
                 PROVE  longer[i] <= longer[j]
    BY <1>2 DEF InOrder
  <2>2. CASE j = n + 1
    BY <1>2, <1>4, <2>1, <2>2
  <2>3. CASE j # n + 1
    <3>1. i \in 1 .. n /\ j \in 1 .. n
      BY <1>1, <2>1, <2>3
    <3> QED
      BY <1>1, <1>2, <2>1, <3>1 DEF Good, InOrder
  <2> QED
    BY <2>2, <2>3
<1>6. n - 1 \in 1 .. n => manual[n - 1] + 1800 <= now
  <2>1. SUFFICES ASSUME n - 1 \in 1 .. n, ~(manual[n - 1] + 1800 <= now) PROVE FALSE
    OBVIOUS
  <2>2. manual[n - 1] \in Nat /\ manual[n] \in Nat /\ n \in 1 .. n
    BY <1>1, <2>1
  <2>3. manual[n - 1] <= manual[n]
    <3>1. n - 1 <= n
      BY <1>1
    <3>2. n - 1 \in DOMAIN manual /\ n \in DOMAIN manual
      BY <1>1, <2>1, <2>2
    <3> QED
      BY <3>1, <3>2, Zenon DEF Good, InOrder
  <2>4. n \in InsideWindow(manual, now) /\ n - 1 \in InsideWindow(manual, now)
    BY <1>1, <2>1, <2>2, <2>3 DEF InsideWindow, MANUAL_RETRY_WINDOW
  <2>5. {n, n - 1} \subseteq InsideWindow(manual, now)
    BY <2>4
  <2>6. IsFiniteSet(InsideWindow(manual, now)) /\ Cardinality(InsideWindow(manual, now)) \in Nat
    BY InsideIsLast, FS_CardinalityType
  <2>7. Cardinality({n, n - 1}) = 2
    <3>1. n # n - 1 /\ n \in Int /\ n - 1 \in Int
      BY <1>1
    <3> QED
      BY <3>1, PairIsTwo
  <2>8. Cardinality(InsideWindow(manual, now)) >= 2
    BY <2>5, <2>6, <2>7, FS_Subset
  <2>9. Remaining(manual, now) = 0
    BY <2>6, <2>8 DEF Remaining, MANUAL_RETRY_LIMIT
  <2> QED
    BY <2>9 DEF Allowed
<1>7. AtMostTwoAWindow(longer)
  <2> SUFFICES ASSUME NEW i \in DOMAIN longer, i + MANUAL_RETRY_LIMIT \in DOMAIN longer
               PROVE  longer[i] + MANUAL_RETRY_WINDOW <= longer[i + MANUAL_RETRY_LIMIT]
    BY DEF AtMostTwoAWindow
  <2> HIDE DEF longer
  <2> USE DEF MANUAL_RETRY_LIMIT, MANUAL_RETRY_WINDOW
  <2>1. i \in 1 .. n + 1 /\ i + 2 \in 1 .. n + 1
    BY <1>2
  <2>2. CASE i + 2 = n + 1
    <3>1. i = n - 1 /\ i \in 1 .. n
      BY <1>1, <2>1, <2>2
    <3> QED
      BY <1>2, <1>6, <2>2, <3>1
  <2>3. CASE i + 2 # n + 1
    <3>1. i \in 1 .. n /\ i + 2 \in 1 .. n
      BY <1>1, <2>1, <2>3
    <3>2. manual[i] + 1800 <= manual[i + 2]
      <4>1. i \in DOMAIN manual /\ i + 2 \in DOMAIN manual
        BY <1>1, <3>1
      <4> QED
        BY <4>1, ThirdWaits
    <3>3. longer[i] = manual[i] /\ longer[i + 2] = manual[i + 2]
      BY <1>2, <3>1
    <3> QED
      BY <3>2, <3>3
  <2> QED
    BY <2>2, <2>3
<1> QED
  BY <1>4, <1>5, <1>7 DEF Good

\* Who is refused is told when: the refusal of zhiyan/api.py:473 always has a moment
\* for its Retry-After.
THEOREM RefusalNamesAMoment ==
    ASSUME NEW manual \in Histories, NEW earliest \in Nat, NEW now \in Nat,
           Good(manual, now), ~Allowed(manual, earliest, now)
    PROVE  AllowedAt(manual, earliest, now) # Never
<1> DEFINE n == Len(manual)
<1>1. n \in Nat /\ DOMAIN manual = 1 .. n /\ \A i \in 1 .. n : manual[i] \in Nat
  BY DEF Histories
<1>n. n = Len(manual)
  OBVIOUS
<1> HIDE DEF n
<1>2. Remaining(manual, now) \in Nat
  <2>1. Cardinality(InsideWindow(manual, now)) \in Nat
    BY InsideIsLast, FS_CardinalityType
  <2> QED
    BY <2>1 DEF Remaining, MANUAL_RETRY_LIMIT
<1>3. CASE Remaining(manual, now) > 0
  BY <1>3 DEF Allowed
<1>4. CASE Remaining(manual, now) = 0
  <2>1. /\ n - 1 \in 1 .. n /\ manual[n - 1] + 1800 > now
        /\ WindowRelease(manual, now) = manual[n - 1] + 1800
    BY <1>1, <1>4, <1>n, UsedUp DEF InsideWindow, MANUAL_RETRY_WINDOW
  <2>2. WindowRelease(manual, now) \in Nat /\ WindowRelease(manual, now) > now
    BY <1>1, <2>1
  <2> QED
    BY <1>4, <2>2 DEF AllowedAt, Never
<1> QED
  BY <1>2, <1>3, <1>4

\* And the moment is kept: who comes back then, or later, is admitted, as long as the
\* target has had no other run meanwhile.
THEOREM MomentIsKept ==
    ASSUME NEW manual \in Histories, NEW earliest \in Nat, NEW now \in Nat, NEW later \in Nat,
           Good(manual, now), AllowedAt(manual, earliest, now) # Never,
           AllowedAt(manual, earliest, now) <= later
    PROVE  Allowed(manual, earliest, later)
<1> DEFINE n == Len(manual)
           inside == InsideWindow(manual, now)
           insideLater == InsideWindow(manual, later)
<1>1. n \in Nat /\ DOMAIN manual = 1 .. n /\ \A i \in 1 .. n : manual[i] \in Nat
  BY DEF Histories
<1>n. n = Len(manual)
  OBVIOUS
<1> HIDE DEF n
<1>2. IsFiniteSet(inside) /\ Cardinality(inside) \in Nat /\ inside \subseteq {n, n - 1}
  BY <1>n, InsideIsLast, FS_CardinalityType
<1>3. earliest <= later /\ now < later
  <2>1. CASE Remaining(manual, now) = 0
    <3>1. /\ n - 1 \in 1 .. n
          /\ WindowRelease(manual, now) = manual[n - 1] + 1800
      BY <1>1, <2>1, <1>n, UsedUp DEF InsideWindow, MANUAL_RETRY_WINDOW
    <3>2. WindowRelease(manual, now) \in Nat
      BY <1>1, <3>1
    <3> QED
      BY <2>1, <3>2 DEF AllowedAt
  <2>2. CASE Remaining(manual, now) # 0
    BY <2>2 DEF AllowedAt
  <2> QED
    BY <2>1, <2>2
<1>4. insideLater \subseteq inside
  BY <1>1, <1>3 DEF InsideWindow, MANUAL_RETRY_WINDOW
<1>5. /\ IsFiniteSet(insideLater) /\ Cardinality(insideLater) \in Nat
      /\ Cardinality(insideLater) <= Cardinality(inside)
  BY <1>2, <1>4, FS_Subset, FS_CardinalityType
<1>6. Cardinality(insideLater) < 2
  <2>1. CASE Remaining(manual, now) = 0
    <3>1. /\ n - 1 \in 1 .. n
          /\ WindowRelease(manual, now) = manual[n - 1] + 1800
      BY <1>1, <2>1, <1>n, UsedUp DEF InsideWindow, MANUAL_RETRY_WINDOW
    <3>2. manual[n - 1] + 1800 <= later
      BY <1>1, <2>1, <3>1 DEF AllowedAt
    <3>3. n - 1 \notin insideLater
      BY <1>1, <3>1, <3>2 DEF InsideWindow, MANUAL_RETRY_WINDOW
    <3>4. insideLater \subseteq {n}
      BY <1>2, <1>4, <3>3
    <3>5. IsFiniteSet({n}) /\ Cardinality({n}) = 1
      BY FS_Singleton
    <3>6. Cardinality(insideLater) <= 1
      BY <3>4, <3>5, FS_Subset
    <3> QED
      BY <1>5, <3>6
  <2>2. CASE Remaining(manual, now) # 0
    <3>1. Cardinality(inside) < 2
      BY <1>2, <2>2 DEF Remaining, MANUAL_RETRY_LIMIT
    <3> QED
      BY <1>2, <1>5, <3>1
  <2> QED
    BY <2>1, <2>2
<1>7. Remaining(manual, later) > 0
  BY <1>5, <1>6 DEF Remaining, MANUAL_RETRY_LIMIT
<1>8. AllowedAt(manual, earliest, later) = Never
  BY <1>3, <1>7 DEF AllowedAt
<1> QED
  BY <1>7, <1>8 DEF Allowed

-----------------------------------------------------------------------------
(* The calls of one run. *)

\* There is always a call left for the run that waits: a report stops at its last one and
\* an article is repaired once.
Rounds ==
    /\ operation \in {"report", "proposal"} /\ InCall => pc = "calling" /\ round \in Calls
    /\ operation = "article" /\ pc = "calling" => round = 0
    /\ operation = "article" /\ pc = "repairing" => round = 1

\* Until a report ends, its tally holds what the provider invoiced and what it did.
Tallied ==
    operation # "article" /\ pc = "calling" =>
        tally = invoiced /\ result = None /\ actions = trail \cap Actions

InvCalls == TypeOKCalls /\ Rounds /\ Tallied /\ EveryCallBilled /\ EvidenceIsOfTheRun
        /\ (pc # "done" => cites = {})

\* Whatever a waiting run is answered is one of the calls it may make.
LEMMA CallInFlight ==
    ASSUME TypeOKCalls, Rounds, InCall
    PROVE  round \in Calls /\ round + 1 \in 0 .. MaxContinuations + 1
BY CallsAssumption DEF TypeOKCalls, Rounds, InCall, Calls, Operations

\* A usage is of that call or of none.
LEMMA UsageTyped ==
    ASSUME TypeOKCalls, Rounds, InCall, NEW said \in BOOLEAN
    PROVE  Usage(said) \subseteq Calls
BY CallInFlight DEF Usage

LEMMA InitiallyCalls == InitCalls => InvCalls
<1> SUFFICES ASSUME InitCalls PROVE InvCalls
    OBVIOUS
<1>1. TypeOKCalls
    <2>1. round \in 0 .. MaxContinuations + 1
        BY CallsAssumption DEF InitCalls
    <2>2. tools \in BOOLEAN /\ swept \in BOOLEAN /\ code \in Codes /\ operation \in Operations
        BY DEF InitCalls, WebSearchEnabled, Codes
    <2> QED
        BY <2>1, <2>2 DEF InitCalls, TypeOKCalls
<1>2. Rounds
    BY CallsAssumption DEF InitCalls, Rounds, Calls
<1>3. Tallied /\ EveryCallBilled /\ EvidenceIsOfTheRun /\ cites = {}
    BY DEF InitCalls, Tallied, EveryCallBilled, EvidenceIsOfTheRun, Done
<1> QED
    BY <1>1, <1>2, <1>3 DEF InvCalls

\* A call without a readable answer ends the run with what the tally holds.
LEMMA CallFailsKeeps == InvCalls /\ CallFails => InvCalls'
<1> SUFFICES ASSUME InvCalls, CallFails PROVE InvCalls'
    OBVIOUS
<1> USE DEF InvCalls, CallFails, Answered, Ended, Recorded
<1>1. round + 1 \in 0 .. MaxContinuations + 1
    BY CallInFlight
<1>2. TypeOKCalls'
    <2>1. bill' \in SUBSET Calls
        BY DEF TypeOKCalls, Owed
    <2>2. invoiced' \subseteq Calls /\ trail' \subseteq Items
        BY DEF TypeOKCalls, Usage
    <2> QED
        BY <1>1, <2>1, <2>2 DEF TypeOKCalls, Codes
<1>3. EveryCallBilled'
    BY DEF EveryCallBilled, Done, Rounds, Tallied, Owed, Usage, TypeOKCalls, Operations
<1>4. EvidenceIsOfTheRun' /\ Rounds' /\ Tallied'
    BY DEF EvidenceIsOfTheRun, Rounds, Tallied, InCall
<1> QED
    BY <1>2, <1>3, <1>4

\* An unusable answer is billed with the calls before it.
LEMMA UnusableKeeps ==
    ASSUME NEW did \in SUBSET Items, NEW said \in BOOLEAN
    PROVE  InvCalls /\ Unusable(did, said) => InvCalls'
<1> SUFFICES ASSUME InvCalls, Unusable(did, said) PROVE InvCalls'
    OBVIOUS
<1> USE DEF InvCalls, Unusable, Answered, Ended, Recorded
<1>1. round + 1 \in 0 .. MaxContinuations + 1 /\ Usage(said) \subseteq Calls
    BY CallInFlight, UsageTyped
<1>2. TypeOKCalls'
    <2>1. bill' \in SUBSET Calls
        BY <1>1 DEF TypeOKCalls, Owed, WithTally
    <2>2. invoiced' \subseteq Calls /\ trail' \subseteq Items
        BY <1>1 DEF TypeOKCalls
    <2> QED
        BY <1>1, <2>1, <2>2 DEF TypeOKCalls, Codes
<1>3. EveryCallBilled'
    BY DEF EveryCallBilled, Done, Rounds, Tallied, Owed, WithTally, TypeOKCalls, Operations
<1>4. EvidenceIsOfTheRun' /\ Rounds' /\ Tallied'
    BY DEF EvidenceIsOfTheRun, Rounds, Tallied, InCall
<1> QED
    BY <1>2, <1>3, <1>4

\* What a call did without writing is kept, whether it is asked again or not.
LEMMA StopsSearchingKeeps ==
    ASSUME NEW did \in SUBSET Items, NEW said \in BOOLEAN
    PROVE  InvCalls /\ StopsSearching(did, said) => InvCalls'
<1> SUFFICES ASSUME InvCalls, StopsSearching(did, said) PROVE InvCalls'
    OBVIOUS
<1> USE DEF InvCalls, StopsSearching, Answered, Ended
<1>1. /\ round \in Calls /\ round + 1 \in 0 .. MaxContinuations + 1
      /\ Usage(said) \subseteq Calls
    BY CallInFlight, UsageTyped DEF InCall
<1>2. tally' = invoiced' /\ actions' = trail' \cap Actions /\ result' = None
    BY DEF Tallied, Added
<1>3. tally' \subseteq Calls /\ invoiced' \subseteq Calls /\ trail' \subseteq Items
      /\ actions' \subseteq Actions
    BY <1>1, <1>2 DEF TypeOKCalls
<1>4. CASE pc' = "calling" /\ UNCHANGED <<pc, code, bill>> /\ ~Final
           /\ carried' = Carries(did) /\ tools' = (round + 1 # MaxContinuations)
    <2>1. TypeOKCalls'
        BY <1>1, <1>2, <1>3, <1>4 DEF TypeOKCalls, Carries
    <2>2. round' \in Calls
        BY <1>1, <1>4, CallsAssumption DEF Calls, Final
    <2>3. Rounds' /\ Tallied' /\ EveryCallBilled' /\ EvidenceIsOfTheRun'
        BY <1>2, <1>4, <2>2 DEF Rounds, Tallied, EveryCallBilled, EvidenceIsOfTheRun, Done,
           TypeOKCalls, InCall
    <2> QED
        BY <1>4, <2>1, <2>3
<1>5. CASE /\ pc' = "done" /\ code' = "no_text" /\ bill' = Recorded("no_text", Owed(tally'))
           /\ UNCHANGED <<carried, tools>>
    <2>1. bill' = IF swept THEN {} ELSE tally'
        BY <1>5 DEF Owed, Tallied, Recorded
    <2>2. TypeOKCalls'
        BY <1>1, <1>2, <1>3, <1>5, <2>1 DEF TypeOKCalls, Codes
    <2>3. Rounds' /\ Tallied' /\ EveryCallBilled' /\ EvidenceIsOfTheRun'
        BY <1>2, <1>5, <2>1 DEF Rounds, Tallied, EveryCallBilled, EvidenceIsOfTheRun, InCall
    <2> QED
        BY <1>5, <2>2, <2>3
<1> QED
    BY <1>4, <1>5

\* A report is judged by what all its calls opened, and billed for them.
LEMMA WritesReportKeeps ==
    ASSUME NEW did \in SUBSET Items, NEW said \in BOOLEAN, NEW evidence \in SUBSET Pages
    PROVE  InvCalls /\ WritesReport(did, said, evidence) => InvCalls'
<1> SUFFICES ASSUME InvCalls, WritesReport(did, said, evidence) PROVE InvCalls'
    OBVIOUS
<1> USE DEF InvCalls, WritesReport, Answered
<1>1. /\ round + 1 \in 0 .. MaxContinuations + 1
      /\ Usage(said) \subseteq Calls
    BY CallInFlight, UsageTyped DEF InCall
<1>2. tally' = invoiced' /\ actions' = trail' \cap Actions
    BY DEF Tallied, Added
<1>3. tally' \subseteq Calls /\ invoiced' \subseteq Calls /\ trail' \subseteq Items
      /\ actions' \subseteq Actions
    BY <1>1, <1>2 DEF TypeOKCalls
<1>4. CASE Ended("did_not_search", tally') /\ UNCHANGED <<result, cites>>
    <2>1. bill' = IF swept THEN {} ELSE tally'
        BY <1>4 DEF Ended, Owed, Tallied, Recorded
    <2> QED
        BY <1>1, <1>2, <1>3, <1>4, <2>1 DEF Ended, TypeOKCalls, Codes, Rounds, Tallied, EveryCallBilled,
           EvidenceIsOfTheRun, InCall
<1>5. CASE /\ result' = tally' /\ cites' = evidence /\ pc' = "done"
           /\ code' \in {Refusal(evidence, actions'), "rejected"}
           /\ bill' = Recorded(code', tally')
    <2>1. code' \in {"succeeded", "unopened_evidence", "rejected"}
        BY <1>5 DEF Refusal
    <2>2. EvidenceIsOfTheRun'
        BY <1>2, <1>5 DEF EvidenceIsOfTheRun, Refusal, Actions
    <2>3. TypeOKCalls'
        <3>1. bill' \in SUBSET Calls
            BY <1>3, <1>5 DEF Recorded
        <3> QED
            BY <1>1, <1>2, <1>3, <1>5, <2>1, <3>1 DEF TypeOKCalls, Codes
    <2> QED
        BY <1>2, <1>5, <2>2, <2>3 DEF Rounds, Tallied, EveryCallBilled, InCall, Recorded
<1> QED
    BY <1>4, <1>5

\* An article and its repair stay within the calls a run may make.
LEMMA WritesArticleKeeps ==
    ASSUME NEW said \in BOOLEAN
    PROVE  InvCalls /\ WritesArticle(said) => InvCalls'
<1> SUFFICES ASSUME InvCalls, WritesArticle(said) PROVE InvCalls'
    OBVIOUS
<1> USE DEF InvCalls, WritesArticle, Answered
<1>1. /\ round + 1 \in 0 .. MaxContinuations + 1
      /\ Usage(said) \subseteq Calls
    BY CallInFlight, UsageTyped
<1>2. result' \in SUBSET Calls /\ invoiced' \subseteq Calls /\ trail' \subseteq Items
    BY <1>1 DEF TypeOKCalls, Combined
<1>3. cites' = {}
    BY DEF InCall
<1>4. CASE /\ pc' = "done" /\ code' \in {"succeeded", "rejected"}
           /\ bill' = Recorded(code', result')
    <2>1. bill' \in SUBSET Calls
        BY <1>2, <1>4 DEF Recorded
    <2> QED
        BY <1>1, <1>2, <1>3, <1>4, <2>1 DEF TypeOKCalls, Codes, Rounds, Tallied, EveryCallBilled,
       EvidenceIsOfTheRun, InCall
<1>5. CASE pc = "calling" /\ pc' = "repairing" /\ UNCHANGED <<code, bill>>
    BY <1>1, <1>2, <1>3, <1>5 DEF TypeOKCalls, Codes, Rounds, Tallied, EveryCallBilled,
       EvidenceIsOfTheRun, InCall, Done
<1> QED
    BY <1>4, <1>5

\* The sweep ends a run that is still calling, and nothing of its calls is lost yet.
LEMMA SweepsCallKeeps == InvCalls /\ SweepsCall => InvCalls'
BY DEF InvCalls, SweepsCall, TypeOKCalls, Rounds, Tallied, EveryCallBilled, EvidenceIsOfTheRun,
   InCall, Done

LEMMA InductiveCalls == InvCalls /\ [NextCalls]_callVars => InvCalls'
<1> SUFFICES ASSUME InvCalls, [NextCalls]_callVars PROVE InvCalls'
    OBVIOUS
<1>1. CASE CallFails
    BY <1>1, CallFailsKeeps
<1>2. ASSUME NEW said \in BOOLEAN, WritesArticle(said) PROVE InvCalls'
    BY <1>2, WritesArticleKeeps
<1>3. ASSUME NEW said \in BOOLEAN, NEW did \in SUBSET Items, Unusable(did, said) PROVE InvCalls'
    BY <1>3, UnusableKeeps
<1>4. ASSUME NEW said \in BOOLEAN, NEW did \in SUBSET Items, StopsSearching(did, said) PROVE InvCalls'
    BY <1>4, StopsSearchingKeeps
<1>5. ASSUME NEW said \in BOOLEAN, NEW did \in SUBSET Items, NEW evidence \in SUBSET Pages,
             WritesReport(did, said, evidence)
      PROVE  InvCalls'
    BY <1>5, WritesReportKeeps
<1>6. CASE UNCHANGED callVars
    BY <1>6 DEF callVars, InvCalls, TypeOKCalls, Rounds, Tallied, EveryCallBilled, EvidenceIsOfTheRun, InCall, Done
<1>7. CASE SweepsCall
    BY <1>7, SweepsCallKeeps
<1> QED
    BY <1>1, <1>2, <1>3, <1>4, <1>5, <1>6, <1>7 DEF NextCalls

\* A run's record keeps its type for any number of continuations.
THEOREM CallTypesCorrect == SpecCalls => []TypeOKCalls
<1>1. InvCalls => TypeOKCalls
    BY DEF InvCalls
<1> QED
    BY InitiallyCalls, InductiveCalls, <1>1, PTL DEF SpecCalls

\* record_execution_cost is given every usage the provider reported for a report or a
\* press, whichever call of it failed and however late its text came, unless the sweep
\* had ended the run before it failed.
THEOREM ReportsBilledWhole == SpecCalls => []EveryCallBilled
<1>1. InvCalls => EveryCallBilled
    BY DEF InvCalls
<1> QED
    BY InitiallyCalls, InductiveCalls, <1>1, PTL DEF SpecCalls

\* accept_report_text judges evidence by the pages of all the run's calls.
THEOREM EvidenceJudgedByRun == SpecCalls => []EvidenceIsOfTheRun
<1>1. InvCalls => EvidenceIsOfTheRun
    BY DEF InvCalls
<1> QED
    BY InitiallyCalls, InductiveCalls, <1>1, PTL DEF SpecCalls

=============================================================================
