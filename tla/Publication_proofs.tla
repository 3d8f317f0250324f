-------------------------- MODULE Publication_proofs --------------------------
(***************************************************************************)
(* Proofs about Publication, for any number of Revisions, handlers and     *)
(* attempts, as long as a send that raises has sent nothing and a message   *)
(* is delivered once (Reliable; Publication_once shows what happens          *)
(* otherwise).  A pending 发布任务 is carried by one thing at most: a request *)
(* about to dispatch it, a refused dispatch, a message, or a handler; one     *)
(* that is settled is carried by nothing.  Hence nobody posts it twice.       *)
(***************************************************************************)
EXTENDS Publication, TLAPS

Reliable == Events \cap {"through", "redelivery"} = {}

\* What each handler is about: a handler at work has a run, and the answer it holds
\* once Blog has answered is one a 发布任务 may end in.
Busy ==
    \A w \in Workers :
        /\ worker[w].pc = "idle" <=> worker[w] = Idle
        /\ worker[w].pc # "idle" => worker[w].run \in Runs
        /\ worker[w].pc \in {"answered", "finishing"} => worker[w].outcome \in Outcomes

InOutbox(r) == \E e \in outbox : RevisionOf(e) = r
InRefused(r) == \E f \in refused : RevisionOf(f[1]) = r
InQueue(r) == \E e \in queue : RevisionOf(e) = r
InHand(r) == \E w \in Workers : worker[w].pc # "idle" /\ RevisionOf(worker[w].run) = r

\* Whatever carries a run towards Blog, or its answer back, carries a pending 发布任务,
\* and has read it as such.
CarriedIsPending ==
    /\ \A r \in Revisions :
         InOutbox(r) \/ InRefused(r) \/ InQueue(r) \/ InHand(r) => publishTask[r] = "pending"
    /\ \A f \in refused : f[2] = TRUE
    /\ \A w \in Workers : worker[w].pc = "finishing" => worker[w].pending = TRUE

\* A 发布任务 is carried by one kind of thing, and by one of that kind.
OneKind ==
    \A r \in Revisions :
        /\ InOutbox(r) => ~InRefused(r) /\ ~InQueue(r) /\ ~InHand(r)
        /\ InRefused(r) => ~InQueue(r) /\ ~InHand(r)
        /\ InQueue(r) => ~InHand(r)

OneOfAKind ==
    /\ \A e, f \in outbox : RevisionOf(e) = RevisionOf(f) => e = f
    /\ \A e, f \in refused : RevisionOf(e[1]) = RevisionOf(f[1]) => e = f
    /\ \A e, f \in queue : RevisionOf(e) = RevisionOf(f) => e = f
    /\ \A v, w \in Workers :
         /\ worker[v].pc # "idle"
         /\ worker[w].pc # "idle"
         /\ RevisionOf(worker[v].run) = RevisionOf(worker[w].run)
         => v = w

\* What Blog holds of a Revision, by how far its 发布任务 has come.
Accounted ==
    /\ \A r \in Revisions :
         /\ previews[r] \in {0, 1}
         /\ publishTask[r] \in {"absent", "failed"} => previews[r] = 0
         /\ publishTask[r] = "succeeded" => previews[r] = 1
         /\ InOutbox(r) \/ InRefused(r) \/ InQueue(r) => previews[r] = 0
    /\ \A w \in Workers :
         LET r == RevisionOf(worker[w].run) IN
         /\ worker[w].pc \in {"claiming", "posting"} => previews[r] = 0
         /\ worker[w].pc \in {"answered", "finishing"} =>
              /\ worker[w].outcome = "succeeded" => previews[r] = 1
              /\ worker[w].outcome = "failed" => previews[r] = 0

Types == TypeOK /\ Busy
Carried == CarriedIsPending /\ OneKind /\ OneOfAKind
Inv == Reliable /\ Types /\ Carried /\ Accounted

\* A handler that has read a queued run of a pending 发布任务.
Claiming(e) == [Idle EXCEPT !.pc = "claiming", !.run = e]

\* A run belongs to a Revision.
LEMMA RevisionType == \A e \in Runs : RevisionOf(e) \in Revisions
  BY DEF RevisionOf, Runs

\* A handler at rest is a handler.
LEMMA IdleFacts ==
  /\ Idle.pc = "idle"
  /\ Idle \in WorkerStates
  BY DEF Idle, WorkerStates, RunStatuses

\* A handler about to claim is at work on its run.
LEMMA ClaimingFacts ==
  ASSUME NEW e \in Runs
  PROVE  /\ Claiming(e) \in WorkerStates
         /\ Claiming(e).pc = "claiming"
         /\ Claiming(e).run = e
         /\ Claiming(e) # Idle
  BY DEF Idle, Claiming, WorkerStates, RunStatuses

\* A new run is one more in the outbox.
LEMMA QueueEffect ==
  ASSUME NEW r \in Revisions, NEW aware \in BOOLEAN, Queue(r, aware)
  PROVE  \E e \in Runs :
           /\ RevisionOf(e) = r
           /\ status' = [status EXCEPT ![e] = "queued"]
           /\ outbox' = outbox \cup {e}
           /\ knowing' \in {knowing, knowing \cup {e}}
  BY DEF Queue, RevisionOf

\* A refused dispatch left no message.
LEMMA RefusalEffect ==
  ASSUME Reliable, NEW e, DispatchRaises(e)
  PROVE  /\ e \in outbox
         /\ outbox' = outbox \ {e}
         /\ queue' = queue
         /\ \/ refused' = refused
            \/ refused' = refused \cup {<<e, publishTask[RevisionOf(e)] = "pending">>}
         /\ UNCHANGED <<requests, publishTask, status, previews, worker, sweep>>
  BY DEF Reliable, DispatchRaises

\* A delivered message is gone, and the handler that has it is about to claim its run.
LEMMA DeliveryEffect ==
  ASSUME Reliable, NEW w, NEW e, Receive(w, e)
  PROVE  /\ e \in queue
         /\ queue' = queue \ {e}
         /\ worker[w] = Idle
         /\ \/ worker' = worker
            \/ worker' = [worker EXCEPT ![w] = Claiming(e)]
         /\ UNCHANGED <<requests, publishTask, status, previews, outbox, refused, sweep>>
  BY DEF Reliable, Receive, Claiming

\* The index refuses the claim, or the handler goes on to post.
LEMMA ClaimEffect ==
  ASSUME NEW w, Claim(w)
  PROVE  /\ worker[w].pc = "claiming"
         /\ \/ /\ status' = [status EXCEPT ![worker[w].run] = "running"]
               /\ worker' = [worker EXCEPT ![w].pc = "posting"]
            \/ /\ status' = status
               /\ worker' = [worker EXCEPT ![w] = Idle]
         /\ UNCHANGED <<requests, publishTask, previews, transport, sweep>>
  BY DEF Claim

\* The types are kept.
LEMMA TypesNext == Reliable /\ Types /\ [Next]_vars => Types'
  <1> SUFFICES ASSUME Reliable /\ Types, [Next]_vars PROVE Types'
    OBVIOUS
  <1> USE RevisionType, IdleFacts DEF Types, requests, transport
  <1>1. ASSUME NEW r \in Revisions, NEW aware \in BOOLEAN, Confirm(r, aware) PROVE Types'
    <2>e. PICK e \in Runs :
            /\ RevisionOf(e) = r
            /\ status' = [status EXCEPT ![e] = "queued"]
            /\ outbox' = outbox \cup {e}
            /\ knowing' \in {knowing, knowing \cup {e}}
      BY <1>1, QueueEffect DEF Confirm
    <2>1. TypeOK'
      BY <1>1, <2>e DEF Confirm, TypeOK, TaskStatuses, RunStatuses, Active
    <2>2. Busy'
      BY <1>1, <2>e DEF Confirm, Busy
    <2> QED
      BY <2>1, <2>2
  <1>2. ASSUME NEW r \in Revisions, NEW aware \in BOOLEAN, Retry(r, aware) PROVE Types'
    <2>e. PICK e \in Runs :
            /\ RevisionOf(e) = r
            /\ status' = [status EXCEPT ![e] = "queued"]
            /\ outbox' = outbox \cup {e}
            /\ knowing' \in {knowing, knowing \cup {e}}
      BY <1>2, QueueEffect DEF Retry
    <2>1. TypeOK'
      BY <1>2, <2>e DEF Retry, TypeOK, TaskStatuses, RunStatuses, Active
    <2>2. Busy'
      BY <1>2, <2>e DEF Retry, Busy
    <2> QED
      BY <2>1, <2>2
  <1>3. ASSUME NEW e \in Runs, Dispatch(e) PROVE Types'
    <2>1. TypeOK'
      BY <1>3 DEF Dispatch, TypeOK
    <2>2. Busy'
      BY <1>3 DEF Dispatch, Busy
    <2> QED
      BY <2>1, <2>2
  <1>4. ASSUME NEW e \in Runs, DispatchRaises(e) PROVE Types'
    <2>1. TypeOK'
      <3>1. \A b \in BOOLEAN : refused \cup {<<e, b>>} \subseteq Runs \X BOOLEAN
        BY DEF TypeOK
      <3> QED
        BY <1>4, <3>1, RefusalEffect DEF TypeOK
    <2>2. Busy'
      BY <1>4, RefusalEffect DEF Busy
    <2> QED
      BY <2>1, <2>2
  <1>5. ASSUME NEW e \in Runs, NEW pending \in BOOLEAN, FailDispatch(e, pending) PROVE Types'
    <2>1. TypeOK'
      BY <1>5 DEF FailDispatch, TypeOK, TaskStatuses, RunStatuses, Outcomes
    <2>2. Busy'
      BY <1>5 DEF FailDispatch, Busy
    <2> QED
      BY <2>1, <2>2
  <1>6. ASSUME NEW e \in Runs, CreatorDies(e) PROVE Types'
    <2>1. TypeOK'
      BY <1>6 DEF CreatorDies, TypeOK
    <2>2. Busy'
      BY <1>6 DEF CreatorDies, Busy
    <2> QED
      BY <2>1, <2>2
  <1>7. ASSUME NEW e \in Runs, Cancel(e) PROVE Types'
    <2>1. TypeOK'
      BY <1>7 DEF Cancel, TypeOK, RunStatuses, Active
    <2>2. Busy'
      BY <1>7 DEF Cancel, Busy
    <2> QED
      BY <2>1, <2>2
  <1>8. ASSUME NEW e \in Runs, Lose(e) PROVE Types'
    <2>1. TypeOK'
      BY <1>8 DEF Lose, TypeOK
    <2>2. Busy'
      BY <1>8 DEF Lose, Busy
    <2> QED
      BY <2>1, <2>2
  <1>9. ASSUME NEW e \in Runs, SweepSpares(e) PROVE Types'
    <2>1. TypeOK'
      BY <1>9 DEF SweepSpares, TypeOK
    <2>2. Busy'
      BY <1>9 DEF SweepSpares, Busy
    <2> QED
      BY <2>1, <2>2
  <1>10. ASSUME NEW e \in Runs, SweepEnds(e) PROVE Types'
    <2>1. TypeOK'
      BY <1>10 DEF SweepEnds, Released, TypeOK, RunStatuses
    <2>2. Busy'
      BY <1>10 DEF SweepEnds, Released, Busy
    <2> QED
      BY <2>1, <2>2
  <1>11. ASSUME NEW w \in Workers, NEW e \in Runs, Receive(w, e) PROVE Types'
    <2>1. TypeOK'
      BY <1>11, DeliveryEffect, ClaimingFacts DEF TypeOK
    <2>2. Busy'
      BY <1>11, DeliveryEffect, ClaimingFacts DEF TypeOK, Busy
    <2> QED
      BY <2>1, <2>2
  <1>12. ASSUME NEW w \in Workers, Claim(w) PROVE Types'
    <2>1. TypeOK'
      BY <1>12, ClaimEffect DEF TypeOK, RunStatuses, Active, WorkerStates
    <2>2. Busy'
      BY <1>12, ClaimEffect DEF TypeOK, Busy, WorkerStates
    <2> QED
      BY <2>1, <2>2
  <1>13. ASSUME NEW w \in Workers, NEW answer \in Answers, Post(w, answer) PROVE Types'
    <2>1. TypeOK'
      <3>1. previews' \in [Revisions -> Nat]
        <4>1. answer[2] \in Nat
          BY DEF Answers
        <4>2. \A r \in Revisions : previews[r] + answer[2] \in Nat
          BY <4>1 DEF TypeOK
        <4>3. previews' = [previews EXCEPT ![RevisionOf(worker[w].run)] =
                             previews[RevisionOf(worker[w].run)] + answer[2]]
          BY <1>13 DEF Post
        <4>4. RevisionOf(worker[w].run) \in Revisions
          BY <1>13 DEF Busy, Post
        <4> QED
          BY <4>2, <4>3, <4>4 DEF TypeOK
      <3>2. worker' \in [Workers -> WorkerStates]
        <4>1. answer[1] \in Outcomes
          BY DEF Answers, Outcomes
        <4>2. worker' = [worker EXCEPT ![w].pc = "answered", ![w].outcome = answer[1]]
          BY <1>13 DEF Post
        <4> QED
          BY <4>1, <4>2 DEF TypeOK, WorkerStates
      <3> QED
        BY <1>13, <3>1, <3>2 DEF TypeOK, Post
    <2>2. Busy'
      BY <1>13 DEF Post, Answers, TypeOK, Busy, WorkerStates
    <2> QED
      BY <2>1, <2>2
  <1>14. ASSUME NEW w \in Workers, FinishRead(w) PROVE Types'
    <2>1. TypeOK'
      <3>1. worker' \in [Workers -> WorkerStates]
        <4>1. /\ worker[w].run \in Runs
              /\ (publishTask[RevisionOf(worker[w].run)] = "pending") \in BOOLEAN
              /\ status[worker[w].run] \in RunStatuses
          BY <1>14 DEF TypeOK, Busy, FinishRead
        <4>2. worker' \in {[worker EXCEPT ![w] = Idle],
                         [worker EXCEPT ![w].pc = "finishing",
                            ![w].pending = (publishTask[RevisionOf(worker[w].run)] = "pending"),
                            ![w].seen = status[worker[w].run]]}
          BY <1>14 DEF FinishRead
        <4> QED
          BY <4>1, <4>2 DEF TypeOK, WorkerStates
      <3> QED
        BY <1>14, <3>1 DEF TypeOK, FinishRead
    <2>2. Busy'
      BY <1>14 DEF FinishRead, TypeOK, Busy, WorkerStates
    <2> QED
      BY <2>1, <2>2
  <1>15. ASSUME NEW w \in Workers, FinishCommit(w) PROVE Types'
    <2>1. TypeOK'
      <3>1. worker[w].outcome \in Outcomes /\ worker[w].run \in Runs
        BY <1>15 DEF Busy, FinishCommit
      <3>2. publishTask' \in [Revisions -> TaskStatuses]
        BY <1>15, <3>1 DEF TypeOK, FinishCommit, TaskStatuses
      <3>3. status' \in [Runs -> RunStatuses]
        BY <1>15, <3>1 DEF TypeOK, FinishCommit, RunStatuses, Written
      <3> QED
        BY <1>15, <3>2, <3>3 DEF TypeOK, FinishCommit
    <2>2. Busy'
      BY <1>15 DEF FinishCommit, Busy
    <2> QED
      BY <2>1, <2>2
  <1>16. ASSUME NEW w \in Workers, WorkerDies(w) PROVE Types'
    <2>1. TypeOK'
      BY <1>16 DEF WorkerDies, TypeOK
    <2>2. Busy'
      BY <1>16 DEF WorkerDies, Busy
    <2> QED
      BY <2>1, <2>2
  <1>17. CASE Save
    <2>1. TypeOK'
      BY <1>17, ConstantsAssumption DEF TypeOK, Save
    <2>2. Busy'
      BY <1>17 DEF Save, Busy
    <2> QED
      BY <2>1, <2>2
  <1>18. CASE SweepSelect
    <2>1. TypeOK'
      BY <1>18 DEF SweepSelect, TypeOK
    <2>2. Busy'
      BY <1>18 DEF SweepSelect, Busy
    <2> QED
      BY <2>1, <2>2
  <1>19. CASE UNCHANGED vars
    <2>1. TypeOK'
      BY <1>19 DEF vars, TypeOK
    <2>2. Busy'
      BY <1>19 DEF vars, Busy
    <2> QED
      BY <2>1, <2>2
  <1> QED
    BY <1>1, <1>2, <1>3, <1>4, <1>5, <1>6, <1>7, <1>8, <1>9, <1>10, <1>11, <1>12, <1>13, <1>14,
       <1>15, <1>16, <1>17, <1>18, <1>19 DEF Next

\* A step leaves no 发布任务 with two carriers, and no settled one with any.
LEMMA CarriedNext == Reliable /\ Types /\ Carried /\ [Next]_vars => Carried'
  <1> SUFFICES ASSUME Reliable /\ Types /\ Carried, [Next]_vars PROVE Carried'
    OBVIOUS
  <1> USE RevisionType, IdleFacts DEF Types, Carried, requests, transport
  <1>1. ASSUME NEW r \in Revisions, NEW aware \in BOOLEAN, Confirm(r, aware) PROVE Carried'
    <2>e. PICK e \in Runs :
            /\ RevisionOf(e) = r
            /\ status' = [status EXCEPT ![e] = "queued"]
            /\ outbox' = outbox \cup {e}
            /\ knowing' \in {knowing, knowing \cup {e}}
      BY <1>1, QueueEffect DEF Confirm
    <2>1. CarriedIsPending'
      BY <1>1, <2>e DEF Confirm, InOutbox, InRefused, InQueue, InHand, TypeOK, CarriedIsPending
    <2>2. OneKind'
      BY <1>1, <2>e DEF Confirm, InOutbox, InRefused, InQueue, InHand, CarriedIsPending, OneKind
    <2>3. OneOfAKind'
      BY <1>1, <2>e DEF Confirm, InOutbox, CarriedIsPending, OneOfAKind
    <2> QED
      BY <2>1, <2>2, <2>3
  <1>2. ASSUME NEW r \in Revisions, NEW aware \in BOOLEAN, Retry(r, aware) PROVE Carried'
    <2>e. PICK e \in Runs :
            /\ RevisionOf(e) = r
            /\ status' = [status EXCEPT ![e] = "queued"]
            /\ outbox' = outbox \cup {e}
            /\ knowing' \in {knowing, knowing \cup {e}}
      BY <1>2, QueueEffect DEF Retry
    <2>1. CarriedIsPending'
      BY <1>2, <2>e DEF Retry, InOutbox, InRefused, InQueue, InHand, TypeOK, CarriedIsPending
    <2>2. OneKind'
      BY <1>2, <2>e
         DEF Retry, Retryable, InOutbox, InRefused, InQueue, InHand, CarriedIsPending, OneKind
    <2>3. OneOfAKind'
      BY <1>2, <2>e DEF Retry, Retryable, InOutbox, CarriedIsPending, OneOfAKind
    <2> QED
      BY <2>1, <2>2, <2>3
  <1>3. ASSUME NEW e \in Runs, Dispatch(e) PROVE Carried'
    <2>1. CarriedIsPending'
      BY <1>3 DEF Dispatch, InOutbox, InRefused, InQueue, InHand, CarriedIsPending
    <2>2. OneKind'
      BY <1>3 DEF Dispatch, InOutbox, InRefused, InQueue, InHand, OneKind, OneOfAKind
    <2>3. OneOfAKind'
      BY <1>3 DEF Dispatch, InOutbox, InQueue, OneKind, OneOfAKind
    <2> QED
      BY <2>1, <2>2, <2>3
  <1>4. ASSUME NEW e \in Runs, DispatchRaises(e) PROVE Carried'
    <2>1. CarriedIsPending'
      <3>1. InOutbox(RevisionOf(e)) /\ RevisionOf(e) \in Revisions
        BY <1>4, RefusalEffect DEF InOutbox
      <3>2. publishTask[RevisionOf(e)] = "pending"
        BY <3>1 DEF CarriedIsPending
      <3>3. refused' = refused \/ refused' = refused \cup {<<e, TRUE>>}
        BY <1>4, <3>2, RefusalEffect
      <3>4. /\ <<e, TRUE>>[1] = e
            /\ <<e, TRUE>>[2] = TRUE
            /\ \A f \in refused' : f \in refused \/ f = <<e, TRUE>>
        BY <3>3
      <3>5. \A f \in refused' : f[2] = TRUE
        BY <3>4, Zenon DEF CarriedIsPending
      <3>6. \A r \in Revisions : InRefused(r)' => InRefused(r) \/ r = RevisionOf(e)
        BY <3>4, Zenon DEF InRefused
      <3>7. /\ \A r \in Revisions : InOutbox(r)' => InOutbox(r)
            /\ UNCHANGED <<publishTask, worker, queue>>
        BY <1>4, RefusalEffect DEF InOutbox
      <3> QED
        BY <3>2, <3>5, <3>6, <3>7 DEF CarriedIsPending, InQueue, InHand
    <2>2. OneKind'
      BY <1>4, RefusalEffect DEF InOutbox, InRefused, InQueue, InHand, OneKind, OneOfAKind
    <2>3. OneOfAKind'
      BY <1>4, RefusalEffect DEF InOutbox, InRefused, OneKind, OneOfAKind
    <2> QED
      BY <2>1, <2>2, <2>3
  <1>5. ASSUME NEW e \in Runs, NEW pending \in BOOLEAN, FailDispatch(e, pending) PROVE Carried'
    <2>1. CarriedIsPending'
      BY <1>5
         DEF FailDispatch, InOutbox, InRefused, InQueue, InHand, CarriedIsPending, OneKind,
             OneOfAKind
    <2>2. OneKind'
      BY <1>5 DEF FailDispatch, InOutbox, InRefused, InQueue, InHand, OneKind
    <2>3. OneOfAKind'
      BY <1>5 DEF FailDispatch, OneOfAKind
    <2> QED
      BY <2>1, <2>2, <2>3
  <1>6. ASSUME NEW e \in Runs, CreatorDies(e) PROVE Carried'
    BY <1>6
       DEF CreatorDies, InOutbox, InRefused, InQueue, InHand, CarriedIsPending, OneKind,
           OneOfAKind
  <1>7. ASSUME NEW e \in Runs, Cancel(e) PROVE Carried'
    BY <1>7
       DEF Cancel, InOutbox, InRefused, InQueue, InHand, CarriedIsPending, OneKind, OneOfAKind
  <1>8. ASSUME NEW e \in Runs, Lose(e) PROVE Carried'
    BY <1>8
       DEF Lose, InOutbox, InRefused, InQueue, InHand, CarriedIsPending, OneKind, OneOfAKind
  <1>9. ASSUME NEW e \in Runs, SweepSpares(e) PROVE Carried'
    BY <1>9
       DEF SweepSpares, InOutbox, InRefused, InQueue, InHand, CarriedIsPending, OneKind,
           OneOfAKind
  <1>10. ASSUME NEW e \in Runs, SweepEnds(e) PROVE Carried'
    BY <1>10
       DEF SweepEnds, Released, InOutbox, InRefused, InQueue, InHand, CarriedIsPending, OneKind,
           OneOfAKind
  <1>11. ASSUME NEW w \in Workers, NEW e \in Runs, Receive(w, e) PROVE Carried'
    <2>1. CarriedIsPending'
      BY <1>11, DeliveryEffect, ClaimingFacts
         DEF InOutbox, InRefused, InQueue, InHand, TypeOK, CarriedIsPending
    <2>2. OneKind'
      BY <1>11, DeliveryEffect, ClaimingFacts
         DEF InOutbox, InRefused, InQueue, InHand, TypeOK, OneKind, OneOfAKind
    <2>3. OneOfAKind'
      BY <1>11, DeliveryEffect, ClaimingFacts DEF InQueue, InHand, TypeOK, OneKind, OneOfAKind
    <2> QED
      BY <2>1, <2>2, <2>3
  <1>12. ASSUME NEW w \in Workers, Claim(w) PROVE Carried'
    <2>1. CarriedIsPending'
      BY <1>12, ClaimEffect
         DEF InOutbox, InRefused, InQueue, InHand, TypeOK, WorkerStates, Busy, CarriedIsPending
    <2>2. OneKind'
      BY <1>12, ClaimEffect
         DEF InOutbox, InRefused, InQueue, InHand, TypeOK, WorkerStates, OneKind
    <2>3. OneOfAKind'
      BY <1>12, ClaimEffect DEF TypeOK, WorkerStates, OneKind, OneOfAKind
    <2> QED
      BY <2>1, <2>2, <2>3
  <1>13. ASSUME NEW w \in Workers, NEW answer \in Answers, Post(w, answer) PROVE Carried'
    <2>1. CarriedIsPending'
      BY <1>13 DEF Post, InOutbox, InRefused, InQueue, InHand, TypeOK, CarriedIsPending
    <2>2. OneKind'
      BY <1>13 DEF Post, InOutbox, InRefused, InQueue, InHand, TypeOK, OneKind
    <2>3. OneOfAKind'
      BY <1>13 DEF Post, TypeOK, OneOfAKind
    <2> QED
      BY <2>1, <2>2, <2>3
  <1>14. ASSUME NEW w \in Workers, FinishRead(w) PROVE Carried'
    <2>1. CarriedIsPending'
      <3>1. InHand(RevisionOf(worker[w].run)) /\ RevisionOf(worker[w].run) \in Revisions
        BY <1>14 DEF FinishRead, InHand, Busy
      <3>2. publishTask[RevisionOf(worker[w].run)] = "pending"
        BY <3>1 DEF CarriedIsPending
      <3>3. worker' = [worker EXCEPT ![w].pc = "finishing", ![w].pending = TRUE,
                                     ![w].seen = status[worker[w].run]]
        BY <1>14, <3>2 DEF FinishRead
      <3> QED
        BY <1>14, <3>1, <3>2, <3>3
           DEF FinishRead, TypeOK, WorkerStates, CarriedIsPending, InOutbox, InRefused, InQueue, InHand
    <2>2. OneKind'
      BY <1>14 DEF FinishRead, InOutbox, InRefused, InQueue, InHand, TypeOK, OneKind
    <2>3. OneOfAKind'
      BY <1>14 DEF FinishRead, TypeOK, OneOfAKind
    <2> QED
      BY <2>1, <2>2, <2>3
  <1>15. ASSUME NEW w \in Workers, FinishCommit(w) PROVE Carried'
    <2>1. CarriedIsPending'
      BY <1>15
         DEF FinishCommit, InOutbox, InRefused, InQueue, InHand, TypeOK, CarriedIsPending,
             OneKind, OneOfAKind
    <2>2. OneKind'
      BY <1>15 DEF FinishCommit, InOutbox, InRefused, InQueue, InHand, OneKind
    <2>3. OneOfAKind'
      BY <1>15 DEF FinishCommit, OneOfAKind
    <2> QED
      BY <2>1, <2>2, <2>3
  <1>16. ASSUME NEW w \in Workers, WorkerDies(w) PROVE Carried'
    <2>1. CarriedIsPending'
      BY <1>16 DEF WorkerDies, InOutbox, InRefused, InQueue, InHand, CarriedIsPending
    <2>2. OneKind'
      BY <1>16 DEF WorkerDies, InOutbox, InRefused, InQueue, InHand, OneKind
    <2>3. OneOfAKind'
      BY <1>16 DEF WorkerDies, OneOfAKind
    <2> QED
      BY <2>1, <2>2, <2>3
  <1>17. CASE Save
    BY <1>17
       DEF Save, InOutbox, InRefused, InQueue, InHand, CarriedIsPending, OneKind, OneOfAKind
  <1>18. CASE SweepSelect
    BY <1>18
       DEF SweepSelect, InOutbox, InRefused, InQueue, InHand, CarriedIsPending, OneKind,
           OneOfAKind
  <1>19. CASE UNCHANGED vars
    BY <1>19
       DEF vars, InOutbox, InRefused, InQueue, InHand, CarriedIsPending, OneKind, OneOfAKind
  <1> QED
    BY <1>1, <1>2, <1>3, <1>4, <1>5, <1>6, <1>7, <1>8, <1>9, <1>10, <1>11, <1>12, <1>13, <1>14,
       <1>15, <1>16, <1>17, <1>18, <1>19 DEF Next

\* A step that has Blog create a Preview, or that settles a 发布任务, keeps the accounts.
LEMMA AccountedNext == Inv /\ [Next]_vars => Accounted'
  <1> SUFFICES ASSUME Inv, [Next]_vars PROVE Accounted'
    OBVIOUS
  <1> USE RevisionType, IdleFacts DEF Inv, Types, Carried, requests, transport
  <1>1. ASSUME NEW r \in Revisions, NEW aware \in BOOLEAN, Confirm(r, aware) PROVE Accounted'
    <2>e. PICK e \in Runs :
            /\ RevisionOf(e) = r
            /\ status' = [status EXCEPT ![e] = "queued"]
            /\ outbox' = outbox \cup {e}
            /\ knowing' \in {knowing, knowing \cup {e}}
      BY <1>1, QueueEffect DEF Confirm
    <2>1. Accounted'
      BY <1>1, <2>e DEF Confirm, InOutbox, InRefused, InQueue, Accounted
    <2> QED
      BY <2>1
  <1>2. ASSUME NEW r \in Revisions, NEW aware \in BOOLEAN, Retry(r, aware) PROVE Accounted'
    <2>e. PICK e \in Runs :
            /\ RevisionOf(e) = r
            /\ status' = [status EXCEPT ![e] = "queued"]
            /\ outbox' = outbox \cup {e}
            /\ knowing' \in {knowing, knowing \cup {e}}
      BY <1>2, QueueEffect DEF Retry
    <2>1. Accounted'
      BY <1>2, <2>e DEF Retry, Retryable, InOutbox, InRefused, InQueue, Accounted
    <2> QED
      BY <2>1
  <1>3. ASSUME NEW e \in Runs, Dispatch(e) PROVE Accounted'
    BY <1>3 DEF Dispatch, InOutbox, InRefused, InQueue, Accounted
  <1>4. ASSUME NEW e \in Runs, DispatchRaises(e) PROVE Accounted'
    BY <1>4, RefusalEffect DEF InOutbox, InRefused, InQueue, Accounted
  <1>5. ASSUME NEW e \in Runs, NEW pending \in BOOLEAN, FailDispatch(e, pending) PROVE Accounted'
    BY <1>5 DEF FailDispatch, InOutbox, InRefused, InQueue, Accounted
  <1>6. ASSUME NEW e \in Runs, CreatorDies(e) PROVE Accounted'
    BY <1>6 DEF CreatorDies, InOutbox, InRefused, InQueue, Accounted
  <1>7. ASSUME NEW e \in Runs, Cancel(e) PROVE Accounted'
    BY <1>7 DEF Cancel, InOutbox, InRefused, InQueue, Accounted
  <1>8. ASSUME NEW e \in Runs, Lose(e) PROVE Accounted'
    BY <1>8 DEF Lose, InOutbox, InRefused, InQueue, Accounted
  <1>9. ASSUME NEW e \in Runs, SweepSpares(e) PROVE Accounted'
    BY <1>9 DEF SweepSpares, InOutbox, InRefused, InQueue, Accounted
  <1>10. ASSUME NEW e \in Runs, SweepEnds(e) PROVE Accounted'
    BY <1>10 DEF SweepEnds, Released, InOutbox, InRefused, InQueue, Accounted
  <1>11. ASSUME NEW w \in Workers, NEW e \in Runs, Receive(w, e) PROVE Accounted'
    BY <1>11, DeliveryEffect, ClaimingFacts DEF InOutbox, InRefused, InQueue, TypeOK, Accounted
  <1>12. ASSUME NEW w \in Workers, Claim(w) PROVE Accounted'
    BY <1>12, ClaimEffect DEF InOutbox, InRefused, InQueue, TypeOK, WorkerStates, Accounted
  <1>13. ASSUME NEW w \in Workers, NEW answer \in Answers, Post(w, answer) PROVE Accounted'
    BY <1>13
       DEF Post, Answers, CarriedIsPending, OneKind, OneOfAKind, InOutbox, InRefused, InQueue,
           InHand, TypeOK, Busy, Accounted
  <1>14. ASSUME NEW w \in Workers, FinishRead(w) PROVE Accounted'
    BY <1>14 DEF FinishRead, InOutbox, InRefused, InQueue, TypeOK, Accounted
  <1>15. ASSUME NEW w \in Workers, FinishCommit(w) PROVE Accounted'
    <2>1. Accounted'
      <3>1. /\ worker[w].pc = "finishing"
            /\ worker[w].pending = TRUE
            /\ worker[w].outcome \in {"succeeded", "failed", "outcome_unknown"}
            /\ RevisionOf(worker[w].run) \in Revisions
        BY <1>15 DEF FinishCommit, CarriedIsPending, Busy, Outcomes
      <3>2. /\ publishTask' = [publishTask EXCEPT ![RevisionOf(worker[w].run)] = worker[w].outcome]
            /\ worker' = [worker EXCEPT ![w] = Idle]
            /\ UNCHANGED <<previews, outbox, refused, queue>>
        BY <1>15, <3>1 DEF FinishCommit
      <3>3. /\ worker[w].outcome = "succeeded" => previews[RevisionOf(worker[w].run)] = 1
            /\ worker[w].outcome = "failed" => previews[RevisionOf(worker[w].run)] = 0
        BY <3>1 DEF Accounted
      <3> QED
        BY <3>1, <3>2, <3>3 DEF Accounted, InOutbox, InRefused, InQueue
    <2> QED
      BY <2>1
  <1>16. ASSUME NEW w \in Workers, WorkerDies(w) PROVE Accounted'
    BY <1>16 DEF WorkerDies, InOutbox, InRefused, InQueue, Accounted
  <1>17. CASE Save
    BY <1>17 DEF Save, InOutbox, InRefused, InQueue, Accounted
  <1>18. CASE SweepSelect
    BY <1>18 DEF SweepSelect, InOutbox, InRefused, InQueue, Accounted
  <1>19. CASE UNCHANGED vars
    BY <1>19 DEF vars, InOutbox, InRefused, InQueue, Accounted
  <1> QED
    BY <1>1, <1>2, <1>3, <1>4, <1>5, <1>6, <1>7, <1>8, <1>9, <1>10, <1>11, <1>12, <1>13, <1>14,
       <1>15, <1>16, <1>17, <1>18, <1>19 DEF Next

\* Nothing is carried at the start.
LEMMA InvInit == Reliable /\ Init => Inv
  <1> SUFFICES ASSUME Reliable, Init PROVE Inv
    OBVIOUS
  <1> USE IdleFacts DEF Init
  <1>1. TypeOK
    BY ConstantsAssumption DEF TypeOK, TaskStatuses, RunStatuses
  <1>2. Busy
    BY DEF Busy
  <1>3. \A r \in Revisions : ~InOutbox(r) /\ ~InRefused(r) /\ ~InQueue(r) /\ ~InHand(r)
    BY DEF InOutbox, InRefused, InQueue, InHand
  <1>4. Carried
    BY <1>3 DEF Carried, CarriedIsPending, OneKind, OneOfAKind
  <1>5. Accounted
    BY <1>3 DEF Accounted
  <1> QED
    BY <1>1, <1>2, <1>4, <1>5 DEF Inv, Types

\* Every step keeps Inv.
LEMMA InvNext == Inv /\ [Next]_vars => Inv'
  BY TypesNext, CarriedNext, AccountedNext DEF Inv, Reliable

\* Inv holds in every state.
LEMMA Invariance == Reliable /\ Spec => []Inv
  BY InvInit, InvNext, PTL DEF Spec

\* Every variable keeps its type.
THEOREM TypeCorrect == Reliable /\ Spec => []TypeOK
  <1>1. Inv => TypeOK
    BY DEF Inv, Types
  <1> QED
    BY <1>1, Invariance, PTL

\* A 发布任务 that failed has created nothing, one that succeeded exactly one Preview,
\* whatever requests, handlers, sweeps and crashes do (_finish, _succeed).
THEOREM OutcomesAreTrue == Reliable /\ Spec => []OutcomeIsTrue
  <1>1. Inv => OutcomeIsTrue
    BY DEF Inv, Accounted, OutcomeIsTrue
  <1> QED
    BY <1>1, Invariance, PTL

\* No Revision reaches Blog twice (uq_publish_tasks_revision_target), unless a dispatch
\* raises after its message got through or a message is delivered twice.
THEOREM PreviewedOnce == Reliable /\ Spec => []PairPreviewedOnce
  <1>1. Inv => PairPreviewedOnce
    BY DEF Inv, Accounted, PairPreviewedOnce
  <1> QED
    BY <1>1, Invariance, PTL

-----------------------------------------------------------------------------
\* Every step is one that OnePreview promises of each Revision.
LEMMA StepKeepsPromise == Inv /\ [Next]_vars => [Promise!Next]_(Promise!vars)
  <1> SUFFICES ASSUME Inv, [Next]_vars PROVE [Promise!Next]_(Promise!vars)
    OBVIOUS
  <1> USE RevisionType DEF Inv, Types, Carried, requests, transport
  <1>1. ASSUME NEW r \in Revisions, NEW aware \in BOOLEAN, Confirm(r, aware)
        PROVE  Promise!Submit(r)
    BY <1>1 DEF Confirm, Promise!Submit
  <1>2. ASSUME NEW r \in Revisions, NEW aware \in BOOLEAN, Retry(r, aware)
        PROVE  Promise!Submit(r)
    BY <1>2 DEF Retry, Retryable, Promise!Submit
  <1>3. ASSUME NEW e \in Runs, NEW pending \in BOOLEAN, FailDispatch(e, pending)
        PROVE  \E r \in Revisions : Promise!Settle(r, "failed")
    <2>1. pending = TRUE /\ InRefused(RevisionOf(e)) /\ RevisionOf(e) \in Revisions
      BY <1>3 DEF FailDispatch, CarriedIsPending, InRefused
    <2>2. /\ publishTask[RevisionOf(e)] = "pending"
          /\ previews[RevisionOf(e)] = 0
      BY <2>1 DEF CarriedIsPending, Accounted
    <2> QED
      BY <1>3, <2>1, <2>2 DEF FailDispatch, Promise!Settle, Promise!Claims
  <1>4. ASSUME NEW w \in Workers, NEW answer \in Answers, Post(w, answer)
        PROVE  (\E r \in Revisions : Promise!Create(r)) \/ UNCHANGED Promise!vars
    <2>1. RevisionOf(worker[w].run) \in Revisions /\ InHand(RevisionOf(worker[w].run))
      BY <1>4 DEF Post, Busy, InHand
    <2>2. /\ publishTask[RevisionOf(worker[w].run)] = "pending"
          /\ previews[RevisionOf(worker[w].run)] = 0
      BY <1>4, <2>1 DEF CarriedIsPending, Accounted, Post
    <2>3. answer[2] \in {0, 1}
      BY DEF Answers
    <2>4. /\ previews' = [previews EXCEPT ![RevisionOf(worker[w].run)] = answer[2]]
          /\ UNCHANGED publishTask
      <3>1. previews[RevisionOf(worker[w].run)] + answer[2] = answer[2]
        BY <2>2, <2>3
      <3>2. /\ previews' = [previews EXCEPT ![RevisionOf(worker[w].run)] =
                              previews[RevisionOf(worker[w].run)] + answer[2]]
            /\ UNCHANGED publishTask
        BY <1>4 DEF Post
      <3> QED
        BY <3>1, <3>2
    <2>5. CASE answer[2] = 0
      <3>1. previews' = previews
        BY <2>2, <2>4, <2>5 DEF TypeOK
      <3> QED
        BY <2>4, <3>1 DEF Promise!vars
    <2>6. CASE answer[2] = 1
      BY <2>1, <2>2, <2>4, <2>6 DEF Promise!Create
    <2> QED
      BY <2>3, <2>5, <2>6
  <1>5. ASSUME NEW w \in Workers, FinishCommit(w)
        PROVE  \E r \in Revisions, s \in DOMAIN Promise!Claims : Promise!Settle(r, s)
    <2>1. /\ RevisionOf(worker[w].run) \in Revisions
          /\ InHand(RevisionOf(worker[w].run))
          /\ worker[w].pending = TRUE
          /\ worker[w].outcome \in Outcomes
      BY <1>5 DEF FinishCommit, Busy, InHand, CarriedIsPending
    <2>2. publishTask[RevisionOf(worker[w].run)] = "pending"
      BY <2>1 DEF CarriedIsPending
    <2>3. /\ worker[w].outcome \in DOMAIN Promise!Claims
          /\ previews[RevisionOf(worker[w].run)] \in Promise!Claims[worker[w].outcome]
      BY <1>5, <2>1 DEF FinishCommit, Accounted, Outcomes, Promise!Claims
    <2>4. /\ publishTask' = [publishTask EXCEPT ![RevisionOf(worker[w].run)] = worker[w].outcome]
          /\ UNCHANGED previews
      BY <1>5, <2>1 DEF FinishCommit
    <2> QED
      BY <2>1, <2>2, <2>3, <2>4 DEF Promise!Settle
  <1>6. ASSUME NEW e \in Runs,
               \/ Dispatch(e) \/ DispatchRaises(e) \/ CreatorDies(e) \/ Cancel(e) \/ Lose(e)
               \/ SweepSpares(e) \/ SweepEnds(e)
        PROVE  UNCHANGED Promise!vars
    BY <1>6 DEF Dispatch, DispatchRaises, CreatorDies, Cancel, Lose, SweepSpares, SweepEnds,
                Released, Promise!vars
  <1>7. ASSUME NEW w \in Workers,
               \/ \E e \in Runs : Receive(w, e)
               \/ Claim(w) \/ FinishRead(w) \/ WorkerDies(w)
        PROVE  UNCHANGED Promise!vars
    BY <1>7 DEF Receive, Claim, FinishRead, WorkerDies, Promise!vars
  <1>8. Save \/ SweepSelect \/ UNCHANGED vars => UNCHANGED Promise!vars
    BY DEF Save, SweepSelect, vars, Promise!vars
  <1> QED
    BY <1>1, <1>2, <1>3, <1>4, <1>5, <1>6, <1>7, <1>8 DEF Next, Promise!Next, Promise!Claims

\* Requests, handlers, sweeps and crashes together keep what OnePreview promises.
THEOREM Refinement == Reliable /\ Spec => ImplementsOnePreview
  <1>1. Init => Promise!Init
    BY DEF Init, Promise!Init
  <1> QED
    BY <1>1, StepKeepsPromise, Invariance, PTL DEF Spec, ImplementsOnePreview, Promise!Spec

\* ADR-0001: a 发布任务 that may have created a Preview is never written again, hence
\* never retried (retry_publication, _finish, _succeed).
THEOREM SettledStaysSettled == Reliable /\ Spec => SettledIsFinal
  <1>1. ASSUME [Promise!Next]_(Promise!vars), TypeOK, NEW r \in Revisions,
               publishTask[r] \in MayExistOnBlog
        PROVE  publishTask'[r] = publishTask[r]
    BY <1>1
       DEF TypeOK, Promise!Next, Promise!vars, Promise!Submit, Promise!Create, Promise!Settle,
                MayExistOnBlog
  <1>2. Inv /\ [Next]_vars =>
          [\A r \in Revisions :
             publishTask[r] \in MayExistOnBlog => publishTask'[r] = publishTask[r]]_vars
    BY <1>1, StepKeepsPromise DEF Inv, Types
  <1> QED
    BY <1>2, Invariance, PTL DEF Spec, SettledIsFinal

=============================================================================
