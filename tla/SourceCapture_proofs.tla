------------------------ MODULE SourceCapture_proofs ------------------------
(***************************************************************************)
(* What one 来源 keeps for every number of runs and of input versions: the   *)
(* types, the flat fee, and the row as the rest of task creation relies on    *)
(* it.  The fee and the row are kept until a commit is overtaken, and Inv     *)
(* says what a commit that is not overtaken may rely on: the one active run   *)
(* is the one the row waits for, and the row a handler has read is still the  *)
(* row.                                                                      *)
(***************************************************************************)
EXTENDS SourceCapture, SumLemmas

Exists(e) == e \in Runs /\ run[e].status # "absent"

\* The runs come into being one after the other, and no attempt is counted
\* further than the runs there are.
RunsInOrder ==
    \A e \in Runs : Exists(e) =>
        /\ run[e].attempt <= e
        /\ \A f \in 1 .. e - 1 : run[f].status # "absent"

\* The row has a run from its first moment, and whoever is at work on one is at
\* work on one that there is.
Grounded ==
    /\ source.status = "none" => source = NoRow /\ \A e \in Runs : ~ Exists(e)
    /\ source.status # "none" => Exists(source.active)
    /\ worker.pc # "idle" => Exists(worker.run)
    /\ worker.pc = "claiming" => worker.seen.status = "queued"
    /\ worker.pc = "committing" => worker.seen.status \in Active
    /\ sweep # NoSweep => Exists(sweep.run) /\ sweep.seen \in Active
    /\ reconciler # NoEntry => reconciler.run \in Runs

\* The row is processing exactly while a run is active, and that run is the one
\* it waits for; so nothing has touched the row a handler has read.
InStep ==
    /\ \A e \in Runs : run[e].status \in Active =>
          Matches(source, e) /\ source.status = "processing"
    /\ source.status = "processing" => run[source.active].status \in Active
    /\ worker.pc = "committing" /\ run[worker.run].status = worker.seen.status
          => worker.row = source

\* The fee is taken or it is not, no run has more than one of it to its name,
\* and an adjustment under way leads from the sum it was computed from to one
\* of the two.
Money ==
    /\ Position \in {-Fee, 0}
    /\ \A e \in Runs : adjustment[e] \in {-Fee, 0, Fee}
    /\ reconciler # NoEntry => /\ reconciler.amount \in {-Fee, 0, Fee}
                               /\ reconciler.amount + reconciler.seen \in {-Fee, 0}

Inv == TypeOK /\ RunsInOrder /\ Grounded /\ (overtaken \/ (InStep /\ Money))

-----------------------------------------------------------------------------
(* The sum of the entries. *)

LEMMA RunsFinite == IsFiniteSet(Runs)
BY FS_Interval, ConstantsAssumption DEF Runs

LEMMA PositionType == ASSUME TypeOK PROVE Position \in Int
<1>1. adjustment \in [Runs -> Int] /\ intake \in Int
  BY DEF TypeOK, Fee
<1>2. SumFunctionOnSet(adjustment, Runs) \in Int
  BY <1>1, RunsFinite, SumType
<1> QED
  BY <1>1, <1>2 DEF Position

\* An entry of one run moves the position by that entry.
LEMMA PositionMoves ==
    ASSUME TypeOK, intake' = intake, NEW e \in Runs, NEW amount \in Int,
           adjustment' = [adjustment EXCEPT ![e] = amount]
    PROVE  Position' = Position - adjustment[e] + amount
<1>0. PICK before, after : before = adjustment /\ after = adjustment'
  OBVIOUS
<1>1. /\ \A f \in Runs : before[f] \in Int /\ after[f] \in Int
      /\ \A f \in Runs : f # e => after[f] = before[f]
      /\ after[e] = amount
  BY <1>0 DEF TypeOK
<1>2. SumFunctionOnSet(after, Runs) = SumFunctionOnSet(before, Runs) - before[e] + after[e]
  BY <1>1, RunsFinite, SumWritten
<1>3. SumFunctionOnSet(before, Runs) \in Int /\ intake \in Int /\ before[e] \in Int
  BY <1>1, RunsFinite, SumType DEF TypeOK, Fee
<1>4. Position = intake + SumFunctionOnSet(before, Runs)
  BY <1>0 DEF Position
<1>5. Position' = intake + SumFunctionOnSet(after, Runs)
  BY <1>0 DEF Position, Runs
<1> QED
  BY <1>0, <1>1, <1>2, <1>3, <1>4, <1>5

\* The entry reconcile_capture would write brings the position to the fee or to
\* nothing, unless the run has one.
LEMMA CorrectionType ==
    ASSUME TypeOK, NEW e \in Runs, NEW succeeded \in BOOLEAN
    PROVE  /\ Correction(e, succeeded) \in Int
           /\ adjustment[e] # 0 => Correction(e, succeeded) = 0
           /\ adjustment[e] = 0 => Position + Correction(e, succeeded) \in {-Fee, 0}
<1>1. Position \in Int
  BY PositionType
<1> QED
  BY <1>1 DEF Correction, Fee

-----------------------------------------------------------------------------
(* What several handlers do. *)

\* A handler that queues a run makes the next one, of the version it names, and
\* the row waits for it.
LEMMA QueueMakes ==
    ASSUME TypeOK, RunsInOrder, Grounded,
           NEW version \in Versions, NEW attempt, Queue(version, attempt),
           attempt = 1 \/ (source.status # "none" /\ attempt = run[source.active].attempt + 1)
    PROVE  \E e \in Runs :
             /\ run[e].status = "absent"
             /\ \A f \in 1 .. e - 1 : run[f].status # "absent"
             /\ \A f \in Runs : run[f].status \notin Active
             /\ run' = [run EXCEPT ![e] = [status |-> "queued", version |-> version,
                                           attempt |-> attempt, asked |-> FALSE]]
             /\ undelivered' = undelivered \cup {e}
             /\ source' = Restarted(version, e)
             /\ attempt \in 1 .. e
             /\ run' \in [Runs -> Executions]
             /\ source' \in Sources
<1>1. PICK e \in Runs :
             /\ run[e].status = "absent"
             /\ \A f \in 1 .. e - 1 : run[f].status # "absent"
             /\ NoneActive({})
             /\ run' = [run EXCEPT ![e] = [status |-> "queued", version |-> version,
                                           attempt |-> attempt, asked |-> FALSE]]
             /\ undelivered' = undelivered \cup {e}
             /\ source' = Restarted(version, e)
  BY DEF Queue
<1>2. \A f \in Runs : run[f].status \notin Active
  BY <1>1 DEF NoneActive
<1>3. attempt \in 1 .. e
  <2>1. CASE attempt = 1
    BY <2>1, <1>1 DEF Runs
  <2>2. CASE source.status # "none" /\ attempt = run[source.active].attempt + 1
    <3>1. PICK a : a = source.active
      OBVIOUS
    <3>2. a \in Runs /\ run[a].status # "absent"
      BY <2>2, <3>1 DEF Grounded, Exists
    <3>3. run[a].attempt <= a /\ \A f \in 1 .. a - 1 : run[f].status # "absent"
      BY <3>2 DEF RunsInOrder, Exists
    <3>4. run[a].attempt \in Nat
      BY <3>2, ConstantsAssumption DEF TypeOK, Executions
    <3>5. a < e
      BY <3>2, <3>3, <1>1 DEF Runs
    <3> QED
      BY <2>2, <3>1, <3>2, <3>3, <3>4, <3>5, <1>1 DEF Runs
  <2> QED
    BY <2>1, <2>2
<1>4. run' \in [Runs -> Executions]
  <2>1. [status |-> "queued", version |-> version, attempt |-> attempt, asked |-> FALSE]
          \in Executions
    BY <1>3, ConstantsAssumption DEF Executions, RunStatuses, Active, Runs
  <2> QED
    BY <1>1, <2>1 DEF TypeOK
<1>5. source' \in Sources
  BY <1>1, ConstantsAssumption DEF Restarted, Sources, TypeOK, Versions, Runs
<1> QED
  BY <1>1, <1>2, <1>3, <1>4, <1>5

LEMMA ReleasedType ==
    ASSUME TypeOK, NEW e \in Runs
    PROVE  [source EXCEPT !.status = "failure"] \in Sources
BY DEF TypeOK, Sources

\* A run that is given another status stays what it is otherwise.
LEMMA EndedType ==
    ASSUME TypeOK, NEW e \in Runs, NEW st \in RunStatuses
    PROVE  /\ [run EXCEPT ![e].status = st] \in [Runs -> Executions]
           /\ [run EXCEPT ![e].status = st, ![e].asked = TRUE] \in [Runs -> Executions]
BY DEF TypeOK, Executions

LEMMA VerdictType ==
    /\ Verdict \in {"cancelled", "failed", "stale", "succeeded"}
    /\ Verdict \in Terminal
    /\ Verdict \in RunStatuses /\ Verdict # "absent" /\ Verdict \notin Active
BY DEF Verdict, Terminal, RunStatuses, Active

LEMMA FilledType == ASSUME TypeOK, Exists(worker.run) PROVE Filled \in Sources
<1>1. worker.run \in Runs /\ run[worker.run].version \in Versions
  BY DEF TypeOK, Exists, Executions
<1>2. source \in Sources /\ worker.row \in Sources
  BY DEF TypeOK
<1> QED
  BY <1>1, <1>2 DEF Filled, Written, Sources

-----------------------------------------------------------------------------
(* The initial states. *)

LEMMA Initially == Init => Inv
<1> SUFFICES ASSUME Init PROVE Inv
  OBVIOUS
<1>1. TypeOK
  <2>1. NoRow \in Sources /\ NoExecution \in Executions
    BY ConstantsAssumption DEF NoRow, NoExecution, Sources, Executions, RunStatuses, Versions
  <2>2. worker \in [pc : {"idle", "claiming", "working", "committing"}, run : {NoRun} \cup Runs,
                    seen : Executions, row : Sources, answer : BOOLEAN]
    BY <2>1 DEF Init, Idle
  <2>3. sweep \in [run : {NoRun} \cup Runs, seen : {"absent"} \cup Active]
    BY DEF Init, NoSweep
  <2>4. reconciler \in [run : {NoRun} \cup Runs, amount : Int, seen : Int]
    BY DEF Init, NoEntry
  <2>5. run \in [Runs -> Executions] /\ adjustment \in [Runs -> Int]
    BY <2>1 DEF Init
  <2> QED
    BY <2>1, <2>2, <2>3, <2>4, <2>5 DEF Init, TypeOK, Fee
<1>2. RunsInOrder /\ Grounded
  BY DEF Init, RunsInOrder, Grounded, Exists, NoExecution, NoRow, Idle
<1>3. InStep
  BY DEF Init, InStep, NoExecution, NoRow, Idle, Active
<1>4. Money
  <2>1. \A e \in Runs : adjustment[e] = 0
    BY DEF Init
  <2>2. SumFunctionOnSet(adjustment, Runs) = 0
    BY <2>1, RunsFinite, SumZero
  <2> QED
    BY <2>1, <2>2 DEF Init, Money, Position
<1> QED
  BY <1>1, <1>2, <1>3, <1>4 DEF Inv

-----------------------------------------------------------------------------
(* Types. *)

\* No step of anybody takes a variable out of its type, overtaken or not.
LEMMA TypeStep == TypeOK /\ RunsInOrder /\ Grounded /\ Next => TypeOK'
<1> SUFFICES ASSUME TypeOK, RunsInOrder, Grounded, Next PROVE TypeOK'
  OBVIOUS
<1>c. Charged \in {-Fee, 0}
  BY DEF Charged, TypeOK
<1>t. /\ {"queued", "running"} \subseteq RunStatuses
      /\ {"failed", "cancelled"} \subseteq RunStatuses
  BY DEF RunStatuses, Active, Terminal
<1>i. Idle \in [pc : {"idle", "claiming", "working", "committing"}, run : {NoRun} \cup Runs,
                seen : Executions, row : Sources, answer : BOOLEAN]
  BY ConstantsAssumption DEF Idle, Sources, Executions, NoRow, NoExecution, RunStatuses, Versions
<1>1. CASE Create
  <2>1. 1 \in Versions
    BY ConstantsAssumption DEF Versions
  <2>2. run' \in [Runs -> Executions] /\ source' \in Sources /\ undelivered' \subseteq Runs
    <3>1. PICK v, a : v = 1 /\ a = 1
      OBVIOUS
    <3>2. Queue(v, a) /\ v \in Versions
      BY <1>1, <2>1, <3>1 DEF Create
    <3>3. a = 1 \/ (source.status # "none" /\ a = run[source.active].attempt + 1)
      BY <3>1
    <3>4. run' \in [Runs -> Executions] /\ source' \in Sources
          /\ \E e \in Runs : undelivered' = undelivered \cup {e}
      BY <3>2, <3>3, QueueMakes
    <3> QED
      BY <3>4 DEF TypeOK
  <2> QED
    BY <1>1, <1>c, <2>2 DEF Create, TypeOK
<1>2. CASE Retry
  <2>1. source.version \in Versions /\ source.status # "none"
    BY <1>2 DEF Retry, TypeOK, Sources
  <2>2. run' \in [Runs -> Executions] /\ source' \in Sources /\ undelivered' \subseteq Runs
    BY <1>2, <2>1, QueueMakes DEF Retry, TypeOK
  <2> QED
    BY <1>2, <2>2 DEF Retry, TypeOK
<1>3. CASE Replace
  <2>1. source.version + 1 \in Versions
    BY <1>3, ConstantsAssumption DEF Replace, TypeOK, Sources, Versions
  <2>2. run' \in [Runs -> Executions] /\ source' \in Sources /\ undelivered' \subseteq Runs
    <3>1. PICK v, a : v = source.version + 1 /\ a = 1
      OBVIOUS
    <3>2. Queue(v, a) /\ v \in Versions
      BY <1>3, <2>1, <3>1 DEF Replace
    <3>3. a = 1 \/ (source.status # "none" /\ a = run[source.active].attempt + 1)
      BY <3>1
    <3>4. run' \in [Runs -> Executions] /\ source' \in Sources
          /\ \E e \in Runs : undelivered' = undelivered \cup {e}
      BY <3>2, <3>3, QueueMakes
    <3> QED
      BY <3>4 DEF TypeOK
  <2> QED
    BY <1>3, <1>c, <2>2 DEF Replace, TypeOK
<1>4. CASE Edit
  <2>1. source' \in Sources
    <3>1. source.version + 1 \in Versions
      BY <1>4, ConstantsAssumption DEF Edit, TypeOK, Sources, Versions
    <3> QED
      BY <1>4, <3>1 DEF Edit, TypeOK, Sources
  <2> QED
    BY <1>4, <2>1 DEF Edit, TypeOK
<1>5. CASE Confirm
  BY <1>5 DEF Confirm, TypeOK
<1>6. ASSUME NEW e \in Runs, Cancel(e) PROVE TypeOK'
  <2>1. run' \in [Runs -> Executions]
    BY <1>6, <1>t, EndedType DEF Cancel
  <2>2. source' \in Sources
    BY <1>6, ReleasedType DEF Cancel, TypeOK
  <2> QED
    BY <1>6, <2>1, <2>2 DEF Cancel, TypeOK
<1>7. ASSUME NEW e \in Runs, DispatchFails(e) PROVE TypeOK'
  <2>1. run' \in [Runs -> Executions]
    BY <1>7, <1>t, EndedType DEF DispatchFails
  <2>2. source' \in Sources
    BY <1>7, ReleasedType DEF DispatchFails, TypeOK
  <2> QED
    BY <1>7, <2>1, <2>2 DEF DispatchFails, TypeOK
<1>8. ASSUME NEW e \in Runs, Lose(e) PROVE TypeOK'
  BY <1>8 DEF Lose, TypeOK
<1>9. ASSUME NEW e \in Runs, Receive(e) PROVE TypeOK'
  <2>1. [Idle EXCEPT !.pc = "claiming", !.run = e, !.seen = run[e]]
          \in [pc : {"idle", "claiming", "working", "committing"}, run : {NoRun} \cup Runs,
               seen : Executions, row : Sources, answer : BOOLEAN]
    BY <1>i DEF TypeOK
  <2> QED
    BY <1>9, <2>1, <1>i DEF Receive, TypeOK
<1>10. CASE Claim
  <2>1. worker.run \in Runs
    BY <1>10 DEF Claim, Grounded, Exists
  <2>2. run' \in [Runs -> Executions]
    <3>1. [run EXCEPT ![worker.run].status = "running"] \in [Runs -> Executions]
      BY <1>t, <2>1, EndedType
    <3> QED
      BY <1>10, <3>1 DEF Claim, TypeOK
  <2>3. [worker EXCEPT !.pc = "working"]
          \in [pc : {"idle", "claiming", "working", "committing"}, run : {NoRun} \cup Runs,
               seen : Executions, row : Sources, answer : BOOLEAN]
    BY DEF TypeOK
  <2>4. overtaken' \in BOOLEAN
    BY <1>10 DEF Claim, TypeOK
  <2> QED
    BY <1>10, <1>i, <2>2, <2>3, <2>4 DEF Claim, TypeOK
<1>11. ASSUME NEW ok \in BOOLEAN, Answer(ok) PROVE TypeOK'
  <2>1. run[worker.run] \in Executions
    BY <1>11 DEF Answer, Grounded, Exists, TypeOK
  <2>2. [worker EXCEPT !.pc = "committing", !.answer = ok, !.seen = run[worker.run], !.row = source]
          \in [pc : {"idle", "claiming", "working", "committing"}, run : {NoRun} \cup Runs,
               seen : Executions, row : Sources, answer : BOOLEAN]
    BY <2>1 DEF TypeOK
  <2> QED
    BY <1>11, <1>i, <2>2 DEF Answer, TypeOK
<1>12. CASE Finish
  <2>1. Exists(worker.run) /\ worker.run \in Runs
    BY <1>12 DEF Finish, Grounded, Exists
  <2>2. run' \in [Runs -> Executions]
    BY <1>12, <2>1, VerdictType, EndedType DEF Finish
  <2>3. source' \in Sources
    BY <1>12, <2>1, FilledType DEF Finish
  <2>4. adjustment' \in [Runs -> Int]
    <3>1. PICK amount : amount = Correction(worker.run, Verdict = "succeeded")
      OBVIOUS
    <3>2. amount \in Int
      BY <2>1, <3>1, CorrectionType
    <3>3. adjustment' = [adjustment EXCEPT ![worker.run] = @ + amount]
      BY <1>12, <3>1 DEF Finish
    <3> QED
      BY <2>1, <3>2, <3>3 DEF TypeOK
  <2>5. overtaken' \in BOOLEAN
    BY <1>12 DEF Finish, TypeOK
  <2> QED
    BY <1>12, <1>i, <2>2, <2>3, <2>4, <2>5 DEF Finish, TypeOK
<1>13. CASE WorkerDies
  BY <1>13, <1>i DEF WorkerDies, TypeOK
<1>14. ASSUME NEW e \in Runs, SweepSelect(e) PROVE TypeOK'
  BY <1>14 DEF SweepSelect, TypeOK
<1>15. CASE SweepEnds
  <2>1. sweep.run \in Runs
    BY <1>15 DEF SweepEnds, Grounded, Exists
  <2>2. run' \in [Runs -> Executions]
    BY <1>15, <1>t, <2>1, EndedType DEF SweepEnds
  <2>3. source' \in Sources
    BY <1>15, <2>1, ReleasedType DEF SweepEnds, Released, TypeOK
  <2>4. overtaken' \in BOOLEAN
    BY <1>15 DEF SweepEnds, TypeOK
  <2> QED
    BY <1>15, <2>2, <2>3, <2>4 DEF SweepEnds, TypeOK, NoSweep
<1>16. ASSUME NEW e \in Runs, ReconcileRead(e) PROVE TypeOK'
  <2>1. Position \in Int /\ Correction(e, run[e].status = "succeeded") \in Int
    BY PositionType, CorrectionType
  <2> QED
    BY <1>16, <2>1 DEF ReconcileRead, TypeOK
<1>17. CASE ReconcileCommit
  <2>1. reconciler.run \in Runs /\ reconciler.amount \in Int
    BY <1>17 DEF ReconcileCommit, Grounded, TypeOK
  <2>2. adjustment' \in [Runs -> Int]
    BY <1>17, <2>1 DEF ReconcileCommit, TypeOK
  <2>3. overtaken' \in BOOLEAN
    BY <1>17 DEF ReconcileCommit, TypeOK
  <2> QED
    BY <1>17, <2>2, <2>3 DEF ReconcileCommit, TypeOK, NoEntry
<1> QED
  BY <1>1, <1>2, <1>3, <1>4, <1>5, <1>6, <1>7, <1>8, <1>9, <1>10, <1>11, <1>12, <1>13, <1>14,
     <1>15, <1>16, <1>17
     DEF Next, User, Broker, Handler, Sweeps, Succeed, MarkFailed

-----------------------------------------------------------------------------
(* The runs there are, and who has hold of them. *)

\* A step that makes no run and removes none.
SameRuns ==
    \A e \in Runs : /\ run'[e].attempt = run[e].attempt
                    /\ run'[e].version = run[e].version
                    /\ run'[e].status = "absent" <=> run[e].status = "absent"

\* Only Create, Retry and Replace make runs.
LEMMA RunsStep ==
    TypeOK /\ RunsInOrder /\ Grounded /\ Next => SameRuns \/ Create \/ Retry \/ Replace
<1> SUFFICES ASSUME TypeOK, RunsInOrder, Grounded, Next PROVE SameRuns \/ Create \/ Retry \/ Replace
  OBVIOUS
<1>e. ASSUME NEW e \in Runs, NEW st, st # "absent", run[e].status # "absent",
             run' = [run EXCEPT ![e].status = st]
               \/ run' = [run EXCEPT ![e].status = st, ![e].asked = TRUE]
      PROVE  SameRuns
  BY <1>e DEF SameRuns, TypeOK, Executions
<1>n. ASSUME run' = run PROVE SameRuns
  BY <1>n DEF SameRuns
<1>6. ASSUME NEW e \in Runs, Cancel(e) PROVE SameRuns
  BY <1>6, <1>e DEF Cancel, Active
<1>7. ASSUME NEW e \in Runs, DispatchFails(e) PROVE SameRuns
  BY <1>7, <1>e DEF DispatchFails
<1>10. CASE Claim
  BY <1>10, <1>e, <1>n DEF Claim, Grounded, Exists
<1>12. CASE Finish
  BY <1>12, <1>e, VerdictType DEF Finish, Grounded, Exists
<1>15. CASE SweepEnds
  BY <1>15, <1>e DEF SweepEnds, Grounded, Exists
<1>r. CASE run' = run
  BY <1>r, <1>n
<1>q. Create \/ Retry \/ Replace \/ Claim \/ Finish \/ SweepEnds \/ run' = run
        \/ \E e \in Runs : Cancel(e) \/ DispatchFails(e)
  BY DEF Next, User, Broker, Handler, Sweeps, Succeed, MarkFailed, Edit, Confirm, Lose, Receive,
         Answer, WorkerDies, SweepSelect, ReconcileRead, ReconcileCommit
<1> QED
  BY <1>6, <1>7, <1>10, <1>12, <1>15, <1>r, <1>q

\* The three of them make the next run.
LEMMA Makes ==
    ASSUME TypeOK, RunsInOrder, Grounded, Create \/ Retry \/ Replace
    PROVE  \E e \in Runs, version \in Versions, attempt \in Nat :
             /\ run[e].status = "absent"
             /\ \A f \in 1 .. e - 1 : run[f].status # "absent"
             /\ \A f \in Runs : run[f].status \notin Active
             /\ attempt <= e
             /\ run' = [run EXCEPT ![e] = [status |-> "queued", version |-> version,
                                           attempt |-> attempt, asked |-> FALSE]]
             /\ source' = Restarted(version, e)
             /\ \/ source.status # "none" /\ version = source.version + 1
                \/ source.status = "none" /\ version = 1
                \/ source.status = "failure" /\ version = source.version
<1>1. PICK version \in Versions, attempt \in Nat :
         /\ Queue(version, attempt)
         /\ attempt = 1 \/ (source.status # "none" /\ attempt = run[source.active].attempt + 1)
         /\ \/ source.status # "none" /\ version = source.version + 1
            \/ source.status = "none" /\ version = 1
            \/ source.status = "failure" /\ version = source.version
  <2>1. CASE Create
    BY <2>1, ConstantsAssumption DEF Create, Versions
  <2>2. CASE Retry
    <3>1. PICK v, a : v = source.version /\ a = run[source.active].attempt + 1
      OBVIOUS
    <3>2. /\ Queue(v, a) /\ v \in Versions /\ source.status = "failure"
          /\ source.status # "none"
      BY <2>2, <3>1 DEF Retry, TypeOK, Sources
    <3>3. a \in Nat
      BY <3>1, <3>2, ConstantsAssumption DEF Grounded, Exists, TypeOK, Executions
    <3> QED
      BY <3>1, <3>2, <3>3
  <2>3. CASE Replace
    <3>1. PICK v, a : v = source.version + 1 /\ a = 1
      OBVIOUS
    <3>2. Queue(v, a) /\ v \in Versions /\ source.status # "none"
      BY <2>3, <3>1, ConstantsAssumption DEF Replace, InSession, TypeOK, Sources, Versions
    <3> QED
      BY <3>1, <3>2
  <2> QED
    BY <2>1, <2>2, <2>3
<1>2. PICK e \in Runs :
         /\ run[e].status = "absent"
         /\ \A f \in 1 .. e - 1 : run[f].status # "absent"
         /\ \A f \in Runs : run[f].status \notin Active
         /\ run' = [run EXCEPT ![e] = [status |-> "queued", version |-> version,
                                       attempt |-> attempt, asked |-> FALSE]]
         /\ source' = Restarted(version, e)
         /\ attempt \in 1 .. e
  BY <1>1, QueueMakes
<1>3. attempt \in Nat /\ attempt <= e
  BY <1>2 DEF Runs
<1> QED
  BY <1>1, <1>2, <1>3

LEMMA OrderStep == TypeOK /\ RunsInOrder /\ Grounded /\ Next => RunsInOrder'
<1> SUFFICES ASSUME TypeOK, RunsInOrder, Grounded, Next PROVE RunsInOrder'
  OBVIOUS
<1>1. CASE SameRuns
  <2> SUFFICES ASSUME NEW e \in Runs, run'[e].status # "absent"
               PROVE  /\ run'[e].attempt <= e
                      /\ \A f \in 1 .. e - 1 : run'[f].status # "absent"
    BY DEF RunsInOrder, Exists, Runs
  <2>1. run[e].attempt <= e /\ \A f \in 1 .. e - 1 : run[f].status # "absent"
    BY <1>1 DEF SameRuns, RunsInOrder, Exists
  <2>2. \A f \in 1 .. e - 1 : f \in Runs
    BY ConstantsAssumption DEF Runs
  <2> QED
    BY <1>1, <2>1, <2>2 DEF SameRuns
<1>2. CASE Create \/ Retry \/ Replace
  <2>1. PICK n \in Runs, version \in Versions, attempt \in Nat :
             /\ \A f \in 1 .. n - 1 : run[f].status # "absent"
             /\ attempt <= n
             /\ run' = [run EXCEPT ![n] = [status |-> "queued", version |-> version,
                                           attempt |-> attempt, asked |-> FALSE]]
    BY <1>2, Makes
  <2>2. DOMAIN run = Runs
    BY DEF TypeOK
  <2> SUFFICES ASSUME NEW e \in Runs, run'[e].status # "absent"
               PROVE  /\ run'[e].attempt <= e
                      /\ \A f \in 1 .. e - 1 : run'[f].status # "absent"
    BY DEF RunsInOrder, Exists, Runs
  <2>3. /\ \A f \in Runs : f # n => run'[f] = run[f]
        /\ run'[n].status # "absent" /\ run'[n].attempt = attempt
    BY <2>1, <2>2
  <2>4. \A f \in 1 .. e - 1 : f \in Runs
    BY ConstantsAssumption DEF Runs
  <2>5. CASE e = n
    BY <2>1, <2>3, <2>4, <2>5 DEF Runs
  <2>6. CASE e # n
    BY <2>3, <2>4, <2>6 DEF RunsInOrder, Exists
  <2> QED
    BY <2>5, <2>6
<1> QED
  BY <1>1, <1>2, RunsStep

\* A step that leaves the row waiting for the run it waits for.
SameRow ==
    \/ source' = source
    \/ source'.active = source.active /\ source'.status # "none" /\ source.status # "none"

\* Only Create, Retry and Replace give the row another run.
LEMMA RowStep ==
    TypeOK /\ Grounded /\ Next => SameRow \/ Create \/ Retry \/ Replace
<1> SUFFICES ASSUME TypeOK, Grounded, Next PROVE SameRow \/ Create \/ Retry \/ Replace
  OBVIOUS
<1>e. ASSUME NEW e \in Runs, source.active = e, source' = [source EXCEPT !.status = "failure"]
      PROVE  SameRow
  <2>1. source.status # "none"
    BY <1>e DEF Grounded, NoRow, NoRun, Runs
  <2> QED
    BY <1>e, <2>1 DEF SameRow, TypeOK, Sources
<1>n. ASSUME source' = source PROVE SameRow
  BY <1>n DEF SameRow
<1>4. CASE Edit
  BY <1>4 DEF Edit, SameRow, TypeOK, Sources
<1>6. ASSUME NEW e \in Runs, Cancel(e) PROVE SameRow
  BY <1>6, <1>e, <1>n DEF Cancel, Matches
<1>7. ASSUME NEW e \in Runs, DispatchFails(e) PROVE SameRow
  BY <1>7, <1>e, <1>n DEF DispatchFails
<1>12. CASE Finish
  <2>1. source.status # "none"
    BY <1>12 DEF Finish, Grounded, Exists
  <2> QED
    BY <1>12, <2>1 DEF Finish, Filled, Written, SameRow, TypeOK, Sources
<1>15. CASE SweepEnds
  <2>1. sweep.run \in Runs
    BY <1>15 DEF SweepEnds, Grounded, Exists
  <2> QED
    BY <1>15, <2>1, <1>e, <1>n DEF SweepEnds, Released, Matches
<1>r. CASE source' = source
  BY <1>r, <1>n
<1>q. Create \/ Retry \/ Replace \/ Edit \/ Finish \/ SweepEnds \/ source' = source
        \/ \E e \in Runs : Cancel(e) \/ DispatchFails(e)
  BY DEF Next, User, Broker, Handler, Sweeps, Succeed, MarkFailed, Confirm, Lose, Receive, Claim,
         Answer, WorkerDies, SweepSelect, ReconcileRead, ReconcileCommit
<1> QED
  BY <1>4, <1>6, <1>7, <1>12, <1>15, <1>r, <1>q

LEMMA GroundedStep == TypeOK /\ RunsInOrder /\ Grounded /\ Next => Grounded'
<1> SUFFICES ASSUME TypeOK, RunsInOrder, Grounded, Next PROVE Grounded'
  OBVIOUS
<1>1. \A e \in Runs : run[e].status # "absent" => run'[e].status # "absent"
  <2>1. CASE SameRuns
    BY <2>1 DEF SameRuns
  <2>2. CASE Create \/ Retry \/ Replace
    BY <2>2, Makes DEF TypeOK
  <2> QED
    BY <2>1, <2>2, RunsStep
<1>2. /\ source'.status = "none" => source' = NoRow /\ \A e \in Runs : run'[e].status = "absent"
      /\ source'.status # "none" => source'.active \in Runs /\ run'[source'.active].status # "absent"
  <2>1. CASE Create \/ Retry \/ Replace
    <3>1. PICK n \in Runs, version \in Versions, attempt \in Nat :
             /\ run' = [run EXCEPT ![n] = [status |-> "queued", version |-> version,
                                           attempt |-> attempt, asked |-> FALSE]]
             /\ source' = Restarted(version, n)
      BY <2>1, Makes
    <3>2. source'.status = "processing" /\ source'.active = n
      BY <3>1 DEF Restarted
    <3>3. run'[n].status = "queued"
      BY <3>1 DEF TypeOK
    <3> QED
      BY <3>2, <3>3
  <2>2. CASE SameRow /\ ~ (Create \/ Retry \/ Replace)
    <3>1. SameRuns
      BY <2>2, RunsStep
    <3> QED
      BY <2>2, <3>1 DEF SameRow, SameRuns, Grounded, Exists
  <2> QED
    BY <2>1, <2>2, RowStep
<1>w. \/ worker' = worker \/ worker' = Idle \/ Claim
      \/ \E e \in Runs : Receive(e)
      \/ \E ok \in BOOLEAN : Answer(ok)
  BY DEF Next, User, Broker, Handler, Sweeps, Succeed, MarkFailed, Create, Retry, Replace, Edit,
         Cancel, Confirm, DispatchFails, Lose, Finish, WorkerDies, SweepSelect, SweepEnds,
         ReconcileRead, ReconcileCommit
<1>3. worker'.pc # "idle" => worker'.run \in Runs /\ run'[worker'.run].status # "absent"
  <2>1. ASSUME NEW e \in Runs, Receive(e)
        PROVE  worker'.pc # "idle" => worker'.run \in Runs /\ run'[worker'.run].status # "absent"
    BY <2>1 DEF Receive, Idle
  <2>2. worker' = worker \/ worker'.pc = "idle" \/ (worker.pc # "idle" /\ worker'.run = worker.run)
          \/ \E e \in Runs : Receive(e)
    <3>1. ASSUME Claim PROVE worker'.pc = "idle" \/ (worker.pc # "idle" /\ worker'.run = worker.run)
      BY <3>1 DEF Claim, Idle, TypeOK
    <3>2. ASSUME NEW ok \in BOOLEAN, Answer(ok)
          PROVE  worker'.pc = "idle" \/ (worker.pc # "idle" /\ worker'.run = worker.run)
      BY <3>2 DEF Answer, Idle, TypeOK
    <3>3. Idle.pc = "idle"
      BY DEF Idle
    <3> QED
      BY <1>w, <3>1, <3>2, <3>3
  <2> QED
    BY <1>1, <2>1, <2>2 DEF Grounded, Exists
<1>4. worker'.pc = "committing" => worker'.seen.status \in Active
  <2>1. ASSUME NEW ok \in BOOLEAN, Answer(ok)
        PROVE  worker'.pc = "committing" => worker'.seen.status \in Active
    <3>1. worker.run \in Runs /\ run[worker.run].status \in RunStatuses \ {"absent"}
      BY <2>1 DEF Answer, Grounded, Exists, TypeOK, Executions
    <3>2. ~ Surrendered(run[worker.run]) => run[worker.run].status \in Active
      BY <3>1 DEF Surrendered, RunStatuses
    <3> QED
      BY <2>1, <3>2 DEF Answer, Idle, TypeOK
  <2>2. worker' = worker \/ worker'.pc # "committing" \/ \E ok \in BOOLEAN : Answer(ok)
    <3>1. ASSUME Claim PROVE worker'.pc # "committing"
      BY <3>1 DEF Claim, Idle, TypeOK
    <3>2. ASSUME NEW e \in Runs, Receive(e) PROVE worker'.pc # "committing"
      BY <3>2 DEF Receive, Idle
    <3>3. Idle.pc = "idle"
      BY DEF Idle
    <3> QED
      BY <1>w, <3>1, <3>2, <3>3
  <2> QED
    BY <2>1, <2>2 DEF Grounded
<1>8. worker'.pc = "claiming" => worker'.seen.status = "queued"
  <2>1. ASSUME Claim PROVE worker'.pc # "claiming"
    BY <2>1 DEF Claim, Idle, TypeOK
  <2>2. ASSUME NEW e \in Runs, Receive(e) PROVE worker'.pc = "claiming" => worker'.seen.status = "queued"
    BY <2>2 DEF Receive, Idle
  <2>3. ASSUME NEW ok \in BOOLEAN, Answer(ok) PROVE worker'.pc # "claiming"
    BY <2>3 DEF Answer, Idle, TypeOK
  <2>4. Idle.pc = "idle"
    BY DEF Idle
  <2> QED
    BY <1>w, <2>1, <2>2, <2>3, <2>4 DEF Grounded
<1>5. sweep' # NoSweep =>
         sweep'.run \in Runs /\ run'[sweep'.run].status # "absent" /\ sweep'.seen \in Active
  <2>1. ASSUME NEW e \in Runs, SweepSelect(e)
        PROVE  sweep'.run \in Runs /\ run'[sweep'.run].status # "absent" /\ sweep'.seen \in Active
    BY <2>1 DEF SweepSelect, Active
  <2>2. sweep' = sweep \/ sweep' = NoSweep \/ \E e \in Runs : SweepSelect(e)
    BY DEF Next, User, Broker, Handler, Sweeps, Succeed, MarkFailed, Create, Retry, Replace, Edit,
           Cancel, Confirm, DispatchFails, Lose, Receive, Claim, Answer, Finish, WorkerDies,
           SweepEnds, ReconcileRead, ReconcileCommit
  <2> QED
    BY <1>1, <2>1, <2>2 DEF Grounded, Exists
<1>6. reconciler' # NoEntry => reconciler'.run \in Runs
  <2>1. ASSUME NEW e \in Runs, ReconcileRead(e) PROVE reconciler'.run \in Runs
    BY <2>1 DEF ReconcileRead
  <2>2. reconciler' = reconciler \/ reconciler' = NoEntry \/ \E e \in Runs : ReconcileRead(e)
    BY DEF Next, User, Broker, Handler, Sweeps, Succeed, MarkFailed, Create, Retry, Replace, Edit,
           Cancel, Confirm, DispatchFails, Lose, Receive, Claim, Answer, Finish, WorkerDies,
           SweepSelect, SweepEnds, ReconcileCommit
  <2> QED
    BY <2>1, <2>2 DEF Grounded
<1>7. /\ Active' = Active /\ NoRow' = NoRow /\ NoSweep' = NoSweep /\ NoEntry' = NoEntry
      /\ Runs' = Runs
  BY DEF Active, NoRow, NoSweep, NoEntry, Runs
<1> QED
  BY <1>2, <1>3, <1>4, <1>5, <1>6, <1>7, <1>8 DEF Grounded, Exists

-----------------------------------------------------------------------------
(* The row. *)

\* When no run is active the row waits for none, and whatever a handler has
\* read it can no longer commit.
LEMMA Quiet ==
    ASSUME Grounded', \A e \in Runs : run'[e].status \notin Active, source'.status # "processing"
    PROVE  InStep'
<1>1. Runs' = Runs /\ Active' = Active
  BY DEF Runs, Active
<1>2. worker'.pc = "committing" => worker'.run \in Runs /\ worker'.seen.status \in Active
  BY <1>1 DEF Grounded, Exists
<1> QED
  BY <1>1, <1>2 DEF InStep

\* The one active run ends, and the row that waited for it is told.
LEMMA Ends ==
    ASSUME TypeOK, InStep, Grounded', NEW e \in Runs, run[e].status \in Active,
           NEW st, st \notin Active,
           \/ run' = [run EXCEPT ![e].status = st]
           \/ run' = [run EXCEPT ![e].status = st, ![e].asked = TRUE],
           source'.status # "processing"
    PROVE  InStep'
<1>1. \A f \in Runs : run[f].status \in Active => f = e
  BY DEF InStep, Matches
<1>2. \A f \in Runs : run'[f].status \notin Active
  BY <1>1 DEF TypeOK, Executions
<1> QED
  BY <1>2, Quiet

\* PreparedSource's steps, as the row takes them.
LEMMA FailsPromised ==
    ASSUME TypeOK, source.status = "processing", source' = [source EXCEPT !.status = "failure"]
    PROVE  Promised!Next
BY DEF Promised!Next, Promised!Fails, TypeOK, Sources

\* A commit that overtakes nothing leaves the row in step with the runs, and
\* the row takes a step that PreparedSource promises or none.
LEMMA InStepStep ==
    ASSUME TypeOK, RunsInOrder, Grounded, Grounded', InStep, Next, ~ overtaken'
    PROVE  InStep' /\ (source' = source \/ Promised!Next)
<1>a. \A e \in Runs : run[e].status \in Active =>
         /\ source.active = e /\ source.version = run[e].version /\ Matches(source, e)
         /\ source.status = "processing"
  BY DEF InStep, Matches
<1>r. Runs' = Runs /\ Active' = Active /\ Active = {"queued", "running"}
  BY DEF Runs, Active
<1>n. ASSUME run' = run, source' = source, worker' = worker \/ worker'.pc # "committing"
      PROVE  InStep' /\ (source' = source \/ Promised!Next)
  BY <1>n, <1>r DEF InStep, Matches
<1>1. CASE Create \/ Retry \/ Replace
  <2>1. PICK n \in Runs, version \in Versions, attempt \in Nat :
             /\ run[n].status = "absent"
             /\ \A f \in Runs : run[f].status \notin Active
             /\ run' = [run EXCEPT ![n] = [status |-> "queued", version |-> version,
                                           attempt |-> attempt, asked |-> FALSE]]
             /\ source' = Restarted(version, n)
             /\ \/ source.status # "none" /\ version = source.version + 1
                \/ source.status = "none" /\ version = 1
                \/ source.status = "failure" /\ version = source.version
    BY <1>1, Makes
  <2>2. /\ run'[n].status = "queued" /\ run'[n].version = version
        /\ \A f \in Runs : f # n => run'[f] = run[f]
    BY <2>1 DEF TypeOK
  <2>3. /\ source'.status = "processing" /\ source'.active = n /\ source'.version = version
        /\ source'.content = IF version = source.version THEN source.content ELSE 0
    BY <2>1 DEF Restarted
  <2>4. \A e \in Runs : run'[e].status \in Active => e = n
    BY <2>1, <2>2
  <2>5. worker'.pc = "committing" => run'[worker'.run].status # worker'.seen.status
    <3>1. worker' = worker
      BY <1>1 DEF Create, Retry, Replace
    <3> QED
      BY <3>1, <2>1, <2>2 DEF Grounded, Exists
  <2>6. InStep'
    BY <1>r, <2>2, <2>3, <2>4, <2>5 DEF InStep, Matches
  <2>7. source.status # "processing"
    BY <2>1 DEF InStep, Grounded, Exists
  <2>8. source.status = "none" => source.version = 0
    BY DEF Grounded, NoRow
  <2>9. source.version \in Nat
    BY DEF TypeOK, Sources, Versions
  <2>10. Promised!Next
    BY <2>1, <2>3, <2>7, <2>8, <2>9 DEF Promised!Next, Promised!Begin, Promised!Retry
  <2> QED
    BY <2>6, <2>10
<1>4. CASE Edit
  <2>1. \A e \in Runs : run'[e].status \notin Active
    BY <1>4, <1>a DEF Edit
  <2>2. source'.status = "prepared"
    BY <1>4 DEF Edit, TypeOK, Sources
  <2>3. Promised!Next
    BY <1>4 DEF Edit, Promised!Next, Promised!Edit, TypeOK, Sources
  <2> QED
    BY <2>1, <2>2, <2>3, Quiet
<1>6. ASSUME NEW e \in Runs, Cancel(e) PROVE InStep' /\ Promised!Next
  <2>1. run[e].status \in Active /\ source.status = "processing" /\ Matches(source, e)
    BY <1>6, <1>a DEF Cancel
  <2>2. source' = [source EXCEPT !.status = "failure"] /\ source'.status = "failure"
    BY <1>6, <2>1 DEF Cancel, TypeOK, Sources
  <2>3. PICK st : st = "cancelled"
    OBVIOUS
  <2>4. run' = [run EXCEPT ![e].status = st, ![e].asked = TRUE] /\ st \notin Active
    BY <1>6, <1>r, <2>3 DEF Cancel
  <2>5. InStep'
    BY <2>1, <2>2, <2>4, Ends
  <2> QED
    BY <2>1, <2>2, <2>5, FailsPromised
<1>7. ASSUME NEW e \in Runs, DispatchFails(e) PROVE InStep' /\ Promised!Next
  <2>1. run[e].status \in Active /\ source.status = "processing" /\ source.active = e
    BY <1>7, <1>a, <1>r DEF DispatchFails
  <2>2. source' = [source EXCEPT !.status = "failure"] /\ source'.status = "failure"
    BY <1>7, <2>1 DEF DispatchFails, TypeOK, Sources
  <2>3. run' = [run EXCEPT ![e].status = "failed"]
    BY <1>7 DEF DispatchFails
  <2>5. PICK st : st = "failed"
    OBVIOUS
  <2>6. run' = [run EXCEPT ![e].status = st] /\ st \notin Active
    BY <1>r, <2>3, <2>5
  <2>7. InStep'
    BY <2>1, <2>2, <2>6, Ends
  <2> QED
    BY <1>a, <2>1, <2>2, <2>7, FailsPromised
<1>10. CASE Claim
  <2>1. CASE NoneActive({worker.run})
    <3>1. PICK e \in Runs : e = worker.run
      BY <1>10 DEF Claim, Grounded, Exists
    <3>2. run[e].status = "queued"
      BY <1>10, <2>1, <3>1 DEF Claim, Grounded
    <3>3. run' = [run EXCEPT ![e].status = "running"] /\ source' = source
      BY <1>10, <2>1, <3>1 DEF Claim
    <3>4. /\ run'[e].status = "running" /\ run'[e].version = run[e].version
          /\ \A f \in Runs : f # e => run'[f] = run[f]
      BY <3>3 DEF TypeOK, Executions
    <3>5. worker'.pc = "working"
      BY <1>10, <2>1 DEF Claim, TypeOK
    <3>6. \A f \in Runs : run'[f].status \in Active <=> run[f].status \in Active
      BY <3>2, <3>4, <1>r
    <3>7. \A f \in Runs : run'[f].version = run[f].version
      BY <3>4
    <3>8. source.status = "processing" => source.active \in Runs
      BY DEF Grounded, Exists
    <3> QED
      BY <1>r, <3>3, <3>5, <3>6, <3>7, <3>8 DEF InStep, Matches
  <2>2. CASE ~ NoneActive({worker.run})
    BY <1>10, <2>2, <1>n DEF Claim, Idle
  <2> QED
    BY <2>1, <2>2
<1>11. ASSUME NEW ok \in BOOLEAN, Answer(ok) PROVE InStep' /\ source' = source
  <2>1. worker'.pc = "committing" => worker'.row = source
    BY <1>11 DEF Answer, Idle, TypeOK
  <2>2. run' = run /\ source' = source
    BY <1>11 DEF Answer
  <2> QED
    BY <1>r, <2>1, <2>2 DEF InStep, Matches
<1>12. CASE Finish
  <2>1. PICK e \in Runs : e = worker.run
    BY <1>12 DEF Finish, Grounded, Exists
  <2>2. run[e].status = worker.seen.status /\ run[e].status \in Active
    BY <1>12, <2>1 DEF Finish, Grounded
  <2>3. worker.row = source /\ Matches(source, e) /\ source.status = "processing"
    BY <1>12, <2>1, <2>2, <1>a DEF Finish, InStep
  <2>4. \/ source' = [source EXCEPT !.status = "failure"]
        \/ source' = [source EXCEPT !.status = "prepared", !.content = source.version]
    BY <1>12, <2>1, <2>3 DEF Finish, Filled, Written, Matches, TypeOK, Sources
  <2>5. source'.status \in {"failure", "prepared"}
    BY <2>4 DEF TypeOK, Sources
  <2>6. InStep'
    BY <1>12, <2>1, <2>2, <2>5, VerdictType, Ends DEF Finish
  <2>7. Promised!Next
    <3>1. CASE source' = [source EXCEPT !.status = "failure"]
      BY <2>3, <3>1, FailsPromised
    <3>2. CASE source' = [source EXCEPT !.status = "prepared", !.content = source.version]
      BY <2>3, <3>2 DEF Promised!Next, Promised!Prepared, TypeOK, Sources
    <3> QED
      BY <2>4, <3>1, <3>2
  <2> QED
    BY <2>6, <2>7
<1>15. CASE SweepEnds
  <2>1. PICK e \in Runs : e = sweep.run
    BY <1>15 DEF SweepEnds, Grounded, Exists
  <2>2. run[e].status \in Active
    BY <1>15, <2>1 DEF SweepEnds, Grounded
  <2>3. source' = [source EXCEPT !.status = "failure"] /\ source'.status = "failure"
    BY <1>15, <1>a, <2>1, <2>2 DEF SweepEnds, Released, TypeOK, Sources
  <2>4. run' = [run EXCEPT ![e].status = "failed"]
    BY <1>15, <2>1 DEF SweepEnds
  <2>5. PICK st : st = "failed"
    OBVIOUS
  <2>6. run' = [run EXCEPT ![e].status = st] /\ st \notin Active
    BY <1>r, <2>4, <2>5
  <2>7. InStep'
    BY <2>2, <2>3, <2>6, Ends
  <2> QED
    BY <1>a, <2>2, <2>3, <2>7, FailsPromised
<1>16. CASE run' = run /\ source' = source /\ (worker' = worker \/ worker'.pc # "committing")
  BY <1>16, <1>n
<1>q. \/ Create \/ Retry \/ Replace \/ Edit \/ Claim \/ Finish \/ SweepEnds
      \/ \E e \in Runs : Cancel(e) \/ DispatchFails(e)
      \/ \E ok \in BOOLEAN : Answer(ok)
      \/ run' = run /\ source' = source /\ (worker' = worker \/ worker'.pc # "committing")
  <2>1. ASSUME NEW e \in Runs, Receive(e) PROVE worker'.pc # "committing"
    BY <2>1 DEF Receive, Idle
  <2>2. ASSUME WorkerDies PROVE worker'.pc # "committing"
    BY <2>2 DEF WorkerDies, Idle
  <2> QED
    BY <2>1, <2>2 DEF Next, User, Broker, Handler, Sweeps, Succeed, MarkFailed, Confirm, Lose,
       Receive, WorkerDies, SweepSelect, ReconcileRead, ReconcileCommit
<1> QED
  BY <1>1, <1>4, <1>6, <1>7, <1>10, <1>11, <1>12, <1>15, <1>16, <1>q

-----------------------------------------------------------------------------
(* The fee. *)

\* Intake charges a 来源 that is charged nothing, and no other.
LEMMA ChargedOnce ==
    ASSUME TypeOK, Money
    PROVE  \/ Charged = intake
           \/ Charged = intake - Fee /\ Position = 0
<1>1. CASE intake = 0 /\ \A e \in Runs : adjustment[e] # -Fee
  <2>1. \A e \in Runs : adjustment[e] \in Nat
    BY <1>1 DEF Money, Fee
  <2>2. SumFunctionOnSet(adjustment, Runs) \in Nat
    BY <2>1, RunsFinite, SumNatural
  <2>3. Position = 0
    BY <1>1, <2>2 DEF Position, Money, Fee
  <2> QED
    BY <1>1, <2>3 DEF Charged, Fee
<1>2. CASE ~ (intake = 0 /\ \A e \in Runs : adjustment[e] # -Fee)
  BY <1>2 DEF Charged
<1> QED
  BY <1>1, <1>2

\* A commit that overtakes nothing leaves the fee taken or given back, whoever
\* writes: intake, the handler that ends the run, or the reconciliation.
LEMMA MoneyStep ==
    ASSUME TypeOK, Grounded, Money, Next, ~ overtaken'
    PROVE  Money'
<1>p. Position \in Int /\ Position \in {-Fee, 0}
  BY PositionType DEF Money
<1>r. Runs' = Runs /\ Fee' = Fee /\ NoEntry' = NoEntry
  BY DEF Runs, Fee, NoEntry
<1>n. ASSUME intake' = intake, adjustment' = adjustment PROVE Position' = Position
  BY <1>n DEF Position, Runs
<1>1. CASE Create \/ Replace
  <2>1. intake' = Charged /\ adjustment' = adjustment /\ reconciler' = reconciler
    BY <1>1 DEF Create, Replace
  <2>2. PICK sum : sum = SumFunctionOnSet(adjustment, Runs)
    OBVIOUS
  <2>3. Position = intake + sum /\ Position' = Charged + sum /\ sum \in Int /\ intake \in Int
    <3>1. \A e \in Runs : adjustment[e] \in Int
      BY DEF TypeOK
    <3>2. sum \in Int
      BY <2>2, <3>1, RunsFinite, SumType
    <3> QED
      BY <2>1, <2>2, <3>2 DEF Position, Runs, TypeOK, Fee
  <2>4. Position' \in {-Fee, 0}
    BY <1>p, <2>3, ChargedOnce DEF Fee
  <2> QED
    BY <1>r, <2>1, <2>4 DEF Money
<1>12. CASE Finish
  <2>1. PICK e \in Runs : e = worker.run
    BY <1>12 DEF Finish, Grounded, Exists
  <2>2. PICK amount : amount = Correction(e, Verdict = "succeeded")
    OBVIOUS
  <2>3. /\ amount \in Int
        /\ adjustment[e] # 0 => amount = 0
        /\ adjustment[e] = 0 => Position + amount \in {-Fee, 0}
    BY <2>2, CorrectionType
  <2>4. PICK entry \in Int : entry = adjustment[e] + amount
    BY <2>3 DEF TypeOK
  <2>5. adjustment' = [adjustment EXCEPT ![e] = entry] /\ intake' = intake
          /\ reconciler' = reconciler
    BY <1>12, <2>1, <2>2, <2>4 DEF Finish
  <2>6. Position' = Position - adjustment[e] + entry
    BY <2>4, <2>5, PositionMoves
  <2>7. adjustment[e] \in {-Fee, 0, Fee}
    BY DEF Money
  <2>8. Position' \in {-Fee, 0} /\ entry \in {-Fee, 0, Fee}
    BY <1>p, <2>3, <2>4, <2>6, <2>7 DEF Fee
  <2>9. \A f \in Runs : adjustment'[f] \in {-Fee, 0, Fee}
    BY <2>5, <2>8 DEF Money, TypeOK
  <2> QED
    BY <1>r, <2>5, <2>8, <2>9 DEF Money
<1>16. ASSUME NEW e \in Runs, ReconcileRead(e) PROVE Money'
  <2>1. PICK amount : amount = Correction(e, run[e].status = "succeeded")
    OBVIOUS
  <2>2. reconciler' = [run |-> e, amount |-> amount, seen |-> Position] /\ amount # 0
    BY <1>16, <2>1 DEF ReconcileRead
  <2>3. amount \in Int /\ Position + amount \in {-Fee, 0}
    BY <2>1, <2>2, CorrectionType
  <2>4. intake' = intake /\ adjustment' = adjustment
    BY <1>16 DEF ReconcileRead
  <2> QED
    BY <1>p, <1>r, <1>n, <2>2, <2>3, <2>4 DEF Money, Fee
<1>17. CASE ReconcileCommit
  <2>1. PICK e \in Runs : e = reconciler.run
    BY <1>17 DEF ReconcileCommit, Grounded
  <2>2. /\ reconciler.amount \in {-Fee, 0, Fee}
        /\ Position + reconciler.amount \in {-Fee, 0}
    <3>1. Position = reconciler.seen
      BY <1>17, Zenon DEF ReconcileCommit
    <3>2. reconciler # NoEntry
      BY <1>17 DEF ReconcileCommit
    <3> QED
      BY <3>1, <3>2 DEF Money, Fee, TypeOK
  <2>3. PICK entry : entry = IF adjustment[e] = 0 THEN reconciler.amount ELSE adjustment[e]
    OBVIOUS
  <2>4. entry \in {-Fee, 0, Fee} /\ entry \in Int
    BY <2>2, <2>3 DEF Money, Fee
  <2>5. adjustment' = [adjustment EXCEPT ![e] = entry] /\ intake' = intake
          /\ reconciler' = NoEntry
    BY <1>17, <2>1, <2>3 DEF ReconcileCommit
  <2>6. Position' = Position - adjustment[e] + entry
    BY <2>4, <2>5, PositionMoves
  <2>7. Position' \in {-Fee, 0}
    BY <1>p, <2>2, <2>3, <2>6 DEF Money, Fee
  <2>8. \A f \in Runs : adjustment'[f] \in {-Fee, 0, Fee}
    BY <2>4, <2>5 DEF Money, TypeOK
  <2> QED
    BY <1>r, <2>5, <2>7, <2>8 DEF Money
<1>18. CASE intake' = intake /\ adjustment' = adjustment /\ reconciler' = reconciler
  BY <1>18, <1>r, <1>n DEF Money
<1>q. \/ Create \/ Replace \/ Finish \/ ReconcileCommit
      \/ \E e \in Runs : ReconcileRead(e)
      \/ intake' = intake /\ adjustment' = adjustment /\ reconciler' = reconciler
  BY DEF Next, User, Broker, Handler, Sweeps, Succeed, MarkFailed, Retry, Edit, Cancel, Confirm,
         DispatchFails, Lose, Receive, Claim, Answer, WorkerDies, SweepSelect, SweepEnds
<1> QED
  BY <1>1, <1>12, <1>16, <1>17, <1>18, <1>q

-----------------------------------------------------------------------------
(* The invariant. *)

\* What has been overtaken stays so.
LEMMA OvertakenStays == TypeOK /\ Next => (overtaken => overtaken')
BY DEF TypeOK, Next, User, Broker, Handler, Sweeps, Succeed, MarkFailed, Create, Retry, Replace,
       Edit, Cancel, Confirm, DispatchFails, Lose, Receive, Claim, Answer, Finish, WorkerDies,
       SweepSelect, SweepEnds, ReconcileRead, ReconcileCommit

LEMMA Inductive == Inv /\ [Next]_vars => Inv'
<1>1. ASSUME Inv, Next PROVE Inv'
  <2>1. TypeOK' /\ RunsInOrder' /\ Grounded'
    BY <1>1, TypeStep, OrderStep, GroundedStep DEF Inv
  <2>2. CASE overtaken'
    BY <2>1, <2>2 DEF Inv
  <2>3. CASE ~ overtaken'
    <3>1. InStep /\ Money
      BY <1>1, <2>3, OvertakenStays DEF Inv
    <3>2. InStep' /\ Money'
      BY <1>1, <2>1, <2>3, <3>1, InStepStep, MoneyStep DEF Inv
    <3> QED
      BY <2>1, <3>2 DEF Inv
  <2> QED
    BY <2>2, <2>3
<1>2. ASSUME Inv, UNCHANGED vars PROVE Inv'
  <2>1. TypeOK'
    BY <1>2 DEF Inv, TypeOK, vars, Runs, Sources, Executions, RunStatuses, Active, Terminal,
                Versions, Fee, NoRun
  <2>2. RunsInOrder' /\ Grounded'
    BY <1>2 DEF Inv, RunsInOrder, Grounded, Exists, vars, Runs, Active, NoRow, NoSweep, NoEntry
  <2>3. InStep => InStep'
    BY <1>2 DEF InStep, Matches, vars, Runs, Active
  <2>4. Money => Money'
    BY <1>2 DEF Money, Position, vars, Runs, Fee, NoEntry
  <2> QED
    BY <1>2, <2>1, <2>2, <2>3, <2>4 DEF Inv, vars
<1> QED
  BY <1>1, <1>2

LEMMA Invariant == Spec => []Inv
BY Initially, Inductive, PTL DEF Spec

-----------------------------------------------------------------------------
(* The theorems. *)

\* Every row, run, handler, sweep and entry keeps its type, for every number of
\* runs and versions, whatever crashes and whatever is overtaken
\* (database.py, the columns of source_preparations, executions and credit_entries).
THEOREM TypeCorrect == Spec => []TypeOK
BY Invariant, PTL DEF Inv

\* Until a commit is overtaken, the entries of a 来源 add up to the fee or to
\* nothing after every step: however its runs follow one another, intake never
\* charges twice and no refund follows a refund (charge_capture, reconcile_capture).
THEOREM FeeOnce == Spec => []FeeTakenOnce
<1>1. Inv => FeeTakenOnce
  BY DEF Inv, Money, FeeTakenOnce
<1> QED
  BY <1>1, Invariant, PTL

\* Until a commit is overtaken, the row starts as and takes only the steps of
\* PreparedSource: no retry, replacement, cancellation, sweep or late answer
\* leaves the text of one version under another.
THEOREM RowImplements == Spec => Promised!Init /\ ImplementsPreparedSource
<1>1. Init => Promised!Init
  BY DEF Init, Promised!Init, NoRow
<1>2. Inv /\ Inv' /\ [Next]_vars => [overtaken' \/ Promised!Next]_<<source>>
  <2>1. ASSUME Inv, Inv', Next, ~ overtaken' PROVE source' = source \/ Promised!Next
    <3>1. InStep
      BY <2>1, OvertakenStays DEF Inv
    <3> QED
      BY <2>1, <3>1, InStepStep DEF Inv
  <2> QED
    BY <2>1 DEF vars
<1> QED
  BY <1>1, <1>2, Invariant, PTL DEF Spec, ImplementsPreparedSource
=============================================================================
