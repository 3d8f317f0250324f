------------------------ MODULE ThemeProposals_proofs ------------------------
(***************************************************************************)
(* The types of the presses, that one without candidates is free, and how many  *)
(* of them wait, for any number of sittings, requests, handlers and presses.    *)
(***************************************************************************)
EXTENDS ThemeProposals, SequenceTheorems, FiniteSetTheorems, TLAPS

\* A press nobody has claimed has no candidates and was not asked to stop; one that
\* was stopped then never gets any; and only candidates are paid for.
Sound(press) ==
    /\ press.status = "queued" => press.asked = "no" /\ press.candidates = None
    /\ press.asked = "unclaimed" => press.candidates = None
    /\ press.charge = "paid" => press.candidates # None

\* What a handler is about to write rests on a claim.
Grounded(hand, press) ==
    /\ press.status = "queued" => hand.step = "starting"
    /\ press.asked = "unclaimed" /\ hand.step = "finishing" => hand.verdict # "succeeded"

Inv ==
    /\ TypeOK
    /\ \A p \in DOMAIN presses : Sound(presses[p])
    /\ \A h \in Handlers : handler[h].step # "idle" =>
         /\ handler[h].press \in DOMAIN presses
         /\ Grounded(handler[h], presses[handler[h].press])

-----------------------------------------------------------------------------

LEMMA PressFields ==
    ASSUME TypeOK, NEW p \in DOMAIN presses
    PROVE  presses[p] \in Presses
BY ElementOfSeq DEF TypeOK

\* A step that writes one press.
LEMMA Written ==
    ASSUME TypeOK, NEW p \in DOMAIN presses, NEW e \in Presses,
           presses' = [presses EXCEPT ![p] = e]
    PROVE  /\ presses' \in Seq(Presses) /\ Len(presses') <= MaxPresses
           /\ DOMAIN presses' = DOMAIN presses
           /\ presses'[p] = e
           /\ \A q \in DOMAIN presses : q # p => presses'[q] = presses[q]
<1>1. presses \in Seq(Presses) /\ Len(presses) <= MaxPresses /\ p \in 1 .. Len(presses)
  BY DEF TypeOK
<1>2. presses' \in Seq(Presses) /\ Len(presses') = Len(presses)
  BY <1>1, ExceptSeq
<1> QED
  BY <1>1, <1>2

Hands == [step : {"idle", "starting", "asking", "finishing"},
          press : 0 .. MaxPresses, verdict : Terminal \cup {"none"}]

\* Such a step by a handler keeps the invariant when the press stays sound, whoever
\* else holds it keeps its ground, and the handler has ground for what it does next.
LEMMA WrittenKeeps ==
    ASSUME Inv, NEW p \in DOMAIN presses, NEW e \in Presses,
           presses' = [presses EXCEPT ![p] = e], Sound(e),
           shown' = shown, request' = request, sweep' = sweep,
           NEW k \in Handlers, NEW hand \in Hands,
           handler' = [handler EXCEPT ![k] = hand],
           hand.press \in DOMAIN presses \cup {0},
           hand.step # "idle" => hand.press = p /\ Grounded(hand, e),
           \A h \in Handlers : handler[h].step # "idle" /\ handler[h].press = p
               => Grounded(handler[h], e)
    PROVE  Inv'
<1>1. TypeOK
  BY DEF Inv
<1>2. /\ presses' \in Seq(Presses) /\ Len(presses') <= MaxPresses
      /\ DOMAIN presses' = DOMAIN presses
      /\ presses'[p] = e
      /\ \A q \in DOMAIN presses : q # p => presses'[q] = presses[q]
  BY <1>1, Written
<1>3. /\ handler' \in [Handlers -> Hands]
      /\ \A h \in Handlers : handler'[h].press \in DOMAIN presses \cup {0}
      /\ handler'[k] = hand /\ \A h \in Handlers : h # k => handler'[h] = handler[h]
  <2>1. handler \in [Handlers -> Hands]
        /\ \A h \in Handlers : handler[h].press \in DOMAIN presses \cup {0}
    BY <1>1 DEF TypeOK, Hands
  <2> QED
    BY <2>1
<1>4. TypeOK'
  BY <1>1, <1>2, <1>3 DEF TypeOK, Hands
<1>5. \A q \in DOMAIN presses' : Sound(presses'[q])
  BY <1>2 DEF Inv
<1>6. ASSUME NEW h \in Handlers, handler'[h].step # "idle"
      PROVE  /\ handler'[h].press \in DOMAIN presses'
             /\ Grounded(handler'[h], presses'[handler'[h].press])
  <2>1. CASE h = k
    BY <1>2, <1>3, <1>6, <2>1
  <2>2. CASE h # k
    BY <1>2, <1>3, <1>6, <2>2 DEF Inv
  <2> QED
    BY <2>1, <2>2
<1> QED
  BY <1>4, <1>5, <1>6 DEF Inv

\* The same where no handler takes the step.
LEMMA Untouched ==
    ASSUME Inv, NEW p \in DOMAIN presses, NEW e \in Presses,
           presses' = [presses EXCEPT ![p] = e], Sound(e),
           shown' = shown, request' = request, handler' = handler,
           sweep' = sweep \/ sweep' = 0,
           \A h \in Handlers : handler[h].step # "idle" /\ handler[h].press = p
               => Grounded(handler[h], e)
    PROVE  Inv'
<1>1. TypeOK
  BY DEF Inv
<1>2. /\ presses' \in Seq(Presses) /\ Len(presses') <= MaxPresses
      /\ DOMAIN presses' = DOMAIN presses
      /\ presses'[p] = e
      /\ \A q \in DOMAIN presses : q # p => presses'[q] = presses[q]
  BY <1>1, Written
<1>3. TypeOK'
  BY <1>1, <1>2 DEF TypeOK
<1>4. \A q \in DOMAIN presses' : Sound(presses'[q])
  BY <1>2 DEF Inv
<1> QED
  BY <1>2, <1>3, <1>4 DEF Inv

-----------------------------------------------------------------------------
LEMMA InvInit == Init => Inv
<1> SUFFICES ASSUME Init PROVE Inv
  OBVIOUS
<1>1. presses \in Seq(Presses) /\ Len(presses) = 0 /\ DOMAIN presses = {}
  BY EmptySeq DEF Init
<1>2. \A h \in Handlers : handler[h] = Idle
  BY DEF Init
<1>3. TypeOK
  BY <1>1, <1>2, ConstantsAssumption DEF Init, TypeOK, Idle
<1> QED
  BY <1>1, <1>2, <1>3 DEF Inv, Idle

LEMMA InvNext == Inv /\ [Next]_vars => Inv'
<1> SUFFICES ASSUME Inv, [Next]_vars PROVE Inv'
  OBVIOUS
<1> USE ConstantsAssumption
<1>0. TypeOK
  BY DEF Inv
<1>1. ASSUME NEW s \in Sittings, Change(s) PROVE Inv'
  BY <1>0, <1>1 DEF Inv, Change, TypeOK, Sound, Grounded
<1>2. ASSUME NEW q \in Requests, NEW s \in Sittings, PressReads(q, s) PROVE Inv'
  BY <1>0, <1>2 DEF Inv, PressReads, TypeOK, Sound, Grounded
<1>3. ASSUME NEW q \in Requests, PressCommits(q) PROVE Inv'
  <2> DEFINE press == NewPress(q)
             n == Len(presses)
  <2>1. press \in Presses /\ Sound(press)
    BY <1>0, <1>3 DEF TypeOK, PressCommits, NewPress, Presses, Active, NotPressing, Sound
  <2>2. presses \in Seq(Presses) /\ n \in Nat /\ DOMAIN presses = 1 .. n /\ n < MaxPresses
    BY <1>0, <1>3 DEF TypeOK, PressCommits
  <2>3. presses' = Append(presses, press)
    BY <1>3 DEF PressCommits
  <2> HIDE DEF press
  <2>4. /\ presses' \in Seq(Presses) /\ Len(presses') = n + 1
        /\ \A p \in DOMAIN presses : presses'[p] = presses[p]
        /\ presses'[n + 1] = press
    BY <2>1, <2>2, <2>3, AppendProperties
  <2>5. DOMAIN presses' = DOMAIN presses \cup {n + 1} /\ Len(presses') <= MaxPresses
    BY <2>2, <2>4
  <2>6. TypeOK'
    BY <1>0, <1>3, <2>4, <2>5 DEF TypeOK, PressCommits
  <2>7. \A p \in DOMAIN presses' : Sound(presses'[p])
    BY <2>1, <2>4, <2>5 DEF Inv
  <2>8. \A h \in Handlers : handler'[h] = handler[h]
    BY <1>3 DEF PressCommits
  <2> QED
    BY <2>4, <2>5, <2>6, <2>7, <2>8 DEF Inv
<1>4. ASSUME NEW h \in Handlers, NEW p \in DOMAIN presses, ClaimReads(h, p) PROVE Inv'
  <2>1. handler' = [handler EXCEPT ![h] = [step |-> "starting", press |-> p,
                      verdict |-> IF Readable(p) THEN "none" ELSE "failed"]]
    BY <1>4 DEF ClaimReads
  <2>2. p \in 0 .. MaxPresses
    BY <1>0 DEF TypeOK
  <2>3. TypeOK'
    BY <1>0, <1>4, <2>1, <2>2 DEF TypeOK, ClaimReads, Terminal
  <2>4. \A g \in Handlers : g # h => handler'[g] = handler[g]
    BY <1>0, <2>1 DEF TypeOK
  <2>5. handler'[h].step = "starting" /\ handler'[h].press = p
    BY <1>0, <2>1 DEF TypeOK
  <2>6. presses' = presses
    BY <1>4 DEF ClaimReads
  <2> QED
    BY <2>3, <2>4, <2>5, <2>6 DEF Inv, Grounded
<1>5. ASSUME NEW h \in Handlers, ClaimCommits(h) PROVE Inv'
  <2> DEFINE p == handler[h].press
             started == handler[h].verdict = "none"
             e == [presses[p] EXCEPT !.status = IF started THEN "running" ELSE "failed"]
             idle == IF started THEN [handler[h] EXCEPT !.step = "asking"] ELSE Idle
  <2>1. /\ handler[h].step = "starting" /\ p \in DOMAIN presses
        /\ Sound(presses[p]) /\ Grounded(handler[h], presses[p])
    BY <1>5 DEF ClaimCommits, Inv
  <2>2. presses[p] \in Presses
    BY <1>0, <2>1, PressFields
  <2>3. e \in Presses /\ e.status # "queued" /\ e.asked = presses[p].asked
        /\ e.candidates = presses[p].candidates /\ e.charge = presses[p].charge
    BY <2>2 DEF Presses, Active, Terminal
  <2>4. presses' = [presses EXCEPT ![p] = e]
    BY <1>5 DEF ClaimCommits
  <2>5. handler' = [handler EXCEPT ![h] = idle]
    BY <1>5 DEF ClaimCommits
  <2>6. /\ idle \in Hands /\ idle.press \in DOMAIN presses \cup {0}
        /\ idle.step # "idle" => idle.press = p /\ idle.step = "asking"
    <3>1. handler[h] \in Hands
      BY <1>0 DEF TypeOK, Hands
    <3> QED
      BY <2>1, <3>1 DEF Hands, Idle
  <2>7. \A g \in Handlers : handler[g].step # "idle" /\ handler[g].press = p
            => Grounded(handler[g], e)
    BY <2>1, <2>3 DEF Grounded, Inv
  <2>8. Sound(e)
    BY <2>1, <2>3 DEF Sound
  <2>9. shown' = shown /\ request' = request /\ sweep' = sweep
    BY <1>5 DEF ClaimCommits
  <2>10. idle.step # "idle" => idle.press = p /\ Grounded(idle, e)
    BY <2>3, <2>6 DEF Grounded
  <2> HIDE DEF e, idle, p
  <2> QED
    BY <2>1, <2>3, <2>4, <2>5, <2>6, <2>7, <2>8, <2>9, <2>10, WrittenKeeps
<1>6. ASSUME NEW h \in Handlers, FinishReads(h) PROVE Inv'
  <2> DEFINE p == handler[h].press
  <2>1. /\ handler[h].step = "asking" /\ p \in DOMAIN presses
        /\ Grounded(handler[h], presses[p])
    BY <1>6 DEF FinishReads, Inv
  <2>2. PICK answer \in Answers : handler' = [handler EXCEPT ![h] =
           IF answer = "failure" /\ Surrendered(presses[p].status) THEN Idle
           ELSE [@ EXCEPT !.step = "finishing", !.verdict = Verdict(presses[p], answer)]]
    BY <1>6 DEF FinishReads
  <2>3. Verdict(presses[p], answer) \in Terminal \cup {"none"}
    BY DEF Verdict, Terminal
  <2>4. presses[p].asked = "unclaimed" => Verdict(presses[p], answer) # "succeeded"
    BY DEF Verdict, Asked
  <2>5. \/ handler'[h] = Idle
        \/ /\ handler'[h] = [handler[h] EXCEPT !.step = "finishing",
                                              !.verdict = Verdict(presses[p], answer)]
           /\ handler'[h].step = "finishing" /\ handler'[h].press = p
           /\ handler'[h].verdict = Verdict(presses[p], answer)
    BY <1>0, <2>2 DEF TypeOK
  <2>6. TypeOK'
    <3> DEFINE hand == IF answer = "failure" /\ Surrendered(presses[p].status) THEN Idle
                       ELSE [handler[h] EXCEPT !.step = "finishing",
                                               !.verdict = Verdict(presses[p], answer)]
    <3>1. /\ handler \in [Handlers -> Hands]
          /\ \A g \in Handlers : handler[g].press \in DOMAIN presses \cup {0}
      BY <1>0 DEF TypeOK, Hands
    <3>2. hand \in Hands /\ hand.press \in DOMAIN presses \cup {0}
      <4>1. CASE answer = "failure" /\ Surrendered(presses[p].status)
        BY <4>1 DEF Idle, Hands
      <4>2. CASE ~(answer = "failure" /\ Surrendered(presses[p].status))
        <5>1. handler[h] \in Hands /\ handler[h].press \in DOMAIN presses \cup {0}
          BY <3>1
        <5>2. hand = [handler[h] EXCEPT !.step = "finishing",
                                        !.verdict = Verdict(presses[p], answer)]
          BY <4>2
        <5> QED
          BY <2>3, <5>1, <5>2 DEF Hands
      <4> QED
        BY <4>1, <4>2
    <3>3. handler' = [handler EXCEPT ![h] = hand]
      BY <2>2
    <3> HIDE DEF hand
    <3>4. /\ handler' \in [Handlers -> Hands]
          /\ \A g \in Handlers : handler'[g].press \in DOMAIN presses \cup {0}
      BY <3>1, <3>2, <3>3
    <3> QED
      BY <1>0, <1>6, <3>4 DEF TypeOK, FinishReads, Hands
  <2>7. \A g \in Handlers : g # h => handler'[g] = handler[g]
    BY <1>0, <2>2 DEF TypeOK
  <2>8. presses' = presses
    BY <1>6 DEF FinishReads
  <2>9. handler'[h].step # "idle" => /\ handler'[h].press \in DOMAIN presses
                                    /\ Grounded(handler'[h], presses[handler'[h].press])
    BY <2>1, <2>4, <2>5 DEF Grounded, Idle
  <2> QED
    BY <2>6, <2>7, <2>8, <2>9 DEF Inv
<1>7. ASSUME NEW h \in Handlers, FinishCommits(h) PROVE Inv'
  <2> DEFINE p == handler[h].press
             verdict == handler[h].verdict
             delivers == verdict = "succeeded"
             ended == [presses[p] EXCEPT !.status = IF verdict = "none" THEN @ ELSE verdict,
                                    !.candidates = IF delivers THEN presses[p].read ELSE @]
             settled == Settled(ended, delivers)
  <2>1. /\ handler[h].step = "finishing" /\ p \in DOMAIN presses
        /\ Sound(presses[p]) /\ Grounded(handler[h], presses[p])
        /\ verdict \in Terminal \cup {"none"}
    BY <1>0, <1>7 DEF FinishCommits, Inv, TypeOK
  <2>2. presses[p] \in Presses
    BY <1>0, <2>1, PressFields
  <2>3. presses[p].status # "queued"
    BY <2>1 DEF Grounded
  <2>4. /\ ended \in Presses /\ ended.status # "queued" /\ ended.asked = presses[p].asked
        /\ ended.charge = presses[p].charge
        /\ ended.candidates = IF delivers THEN presses[p].read ELSE presses[p].candidates
    BY <2>1, <2>2, <2>3 DEF Presses, Active, Terminal
  <2>5. Sound(ended) /\ (delivers => ended.candidates # None /\ ended.asked # "unclaimed")
    BY <2>1, <2>2, <2>4 DEF Sound, Grounded, Presses
  <2> HIDE DEF ended
  <2>6. /\ settled \in Presses /\ settled.status = ended.status
        /\ settled.asked = ended.asked /\ settled.candidates = ended.candidates
        /\ settled.charge \in {ended.charge, IF delivers THEN "paid" ELSE "free"}
    BY <2>4 DEF Settled, Presses
  <2>7. Sound(settled)
    BY <2>5, <2>6 DEF Sound
  <2> DEFINE Rest == /\ handler' = [handler EXCEPT ![h] = Idle]
                     /\ shown' = shown /\ request' = request /\ sweep' = sweep
  <2>8. Rest
    BY <1>7 DEF FinishCommits
  <2>9. ASSUME NEW e \in {settled, ended}, presses' = [presses EXCEPT ![p] = e] PROVE Inv'
    <3>1. e \in Presses /\ Sound(e) /\ e.status # "queued" /\ e.asked = presses[p].asked
      BY <2>4, <2>5, <2>6, <2>7, <2>9
    <3>2. \A g \in Handlers : handler[g].step # "idle" /\ handler[g].press = p
            => Grounded(handler[g], e)
      BY <2>1, <3>1 DEF Grounded, Inv
    <3>3. Idle \in Hands /\ Idle.press = 0 /\ Idle.step = "idle"
      BY DEF Idle, Hands
    <3> HIDE DEF settled, p
    <3> QED
      BY <2>1, <2>8, <2>9, <3>1, <3>2, <3>3, WrittenKeeps
  <2>10. ASSUME presses' = presses PROVE Inv'
    <3>1. TypeOK'
      BY <1>0, <2>8, <2>10 DEF TypeOK, Idle
    <3>2. \A g \in Handlers : handler'[g] = handler[g] \/ handler'[g] = Idle
      BY <1>0, <2>8 DEF TypeOK
    <3> QED
      BY <2>10, <3>1, <3>2 DEF Inv, Idle
  <2>11. \/ presses' = [presses EXCEPT ![p] = settled]
         \/ presses' = [presses EXCEPT ![p] = ended]
         \/ presses' = presses
    BY <1>7 DEF FinishCommits, ended
  <2> QED
    BY <2>9, <2>10, <2>11
<1>8. ASSUME NEW p \in DOMAIN presses, Cancel(p) PROVE Inv'
  <2> DEFINE old == presses[p]
             e == [old EXCEPT
                     !.status = IF @ = "queued" THEN "cancelled" ELSE "cancel_requested",
                     !.asked = IF @ # "no" THEN @
                               ELSE IF old.status = "queued" THEN "unclaimed" ELSE "claimed"]
  <2>1. old \in Presses /\ Sound(old)
    BY <1>0, PressFields DEF Inv
  <2>2. /\ e \in Presses /\ e.status # "queued" /\ Sound(e)
        /\ e.asked = "unclaimed" => old.asked = "unclaimed" \/ old.status = "queued"
    BY <2>1 DEF Presses, Active, Terminal, Sound
  <2>3. presses' = [presses EXCEPT ![p] = e]
    BY <1>0, <1>8 DEF Cancel
  <2>4. \A g \in Handlers : handler[g].step # "idle" /\ handler[g].press = p
          => Grounded(handler[g], e)
    BY <2>2 DEF Grounded, Inv
  <2> HIDE DEF e
  <2> QED
    BY <1>8, <2>2, <2>3, <2>4, Untouched DEF Cancel
<1>9. ASSUME NEW p \in DOMAIN presses, SweepReads(p) PROVE Inv'
  BY <1>0, <1>9 DEF Inv, SweepReads, TypeOK, Sound, Grounded
<1>10. ASSUME SweepEnds PROVE Inv'
  <2> DEFINE e == GivenUp(presses[sweep])
  <2>1. sweep \in DOMAIN presses
    BY <1>0, <1>10 DEF SweepEnds, TypeOK
  <2>2. presses[sweep] \in Presses /\ Sound(presses[sweep])
    BY <1>0, <2>1, PressFields DEF Inv
  <2>3. e \in Presses /\ e.status # "queued" /\ e.asked = presses[sweep].asked /\ Sound(e)
    BY <2>2 DEF GivenUp, Presses, Terminal, Sound
  <2>4. \A g \in Handlers : handler[g].step # "idle" /\ handler[g].press = sweep
          => Grounded(handler[g], e)
    BY <2>3 DEF Grounded, Inv
  <2>5. presses' = [presses EXCEPT ![sweep] = e]
    BY <1>10 DEF SweepEnds
  <2> HIDE DEF e
  <2> QED
    BY <1>10, <2>1, <2>3, <2>4, <2>5, Untouched DEF SweepEnds
<1>11. ASSUME NEW p \in DOMAIN presses, Reconcile(p) PROVE Inv'
  <2> DEFINE e == [presses[p] EXCEPT !.charge = "free"]
  <2>1. presses[p] \in Presses /\ Sound(presses[p])
    BY <1>0, PressFields DEF Inv
  <2>2. /\ e \in Presses /\ Sound(e)
        /\ e.status = presses[p].status /\ e.asked = presses[p].asked
    BY <2>1 DEF Presses, Sound
  <2>3. \A g \in Handlers : handler[g].step # "idle" /\ handler[g].press = p
          => Grounded(handler[g], e)
    BY <2>2 DEF Grounded, Inv
  <2>4. presses' = [presses EXCEPT ![p] = e]
    BY <1>11 DEF Reconcile
  <2> HIDE DEF e
  <2> QED
    BY <1>11, <2>2, <2>3, <2>4, Untouched DEF Reconcile
<1>12. CASE UNCHANGED vars
  BY <1>0, <1>12 DEF Inv, vars, TypeOK, Sound, Grounded
<1> QED
  BY <1>1, <1>2, <1>3, <1>4, <1>5, <1>6, <1>7, <1>8, <1>9, <1>10, <1>11, <1>12 DEF Next

-----------------------------------------------------------------------------
\* Every variable of the presses keeps its type: no end that a handler, a
\* cancellation or the sweep writes is anything but a status.
THEOREM TypeCorrect == Spec => []TypeOK
<1>1. Inv => TypeOK
  BY DEF Inv
<1> QED
  BY <1>1, InvInit, InvNext, PTL DEF Spec

\* A press that shows no candidates costs nothing, whoever settled it, and one that
\* was cancelled before any claim shows none (theme/proposal_worker.py:199-261).
THEOREM EmptyIsFree == Spec => []EmptyPressesAreFree
<1>1. Inv => EmptyPressesAreFree
  <2> SUFFICES ASSUME Inv, NEW p \in DOMAIN presses
               PROVE  /\ presses[p].charge = "paid" => Shown(presses[p]) = "succeeded"
                      /\ presses[p].asked = "unclaimed" => Shown(presses[p]) # "succeeded"
    BY DEF EmptyPressesAreFree
  <2>1. Sound(presses[p])
    BY DEF Inv
  <2> QED
    BY <2>1 DEF Sound, Shown
<1> QED
  BY <1>1, InvInit, InvNext, PTL DEF Spec

-----------------------------------------------------------------------------
(* How many presses wait: those that do, and those about to, leave room for no   *)
(* more than the requests that looked while there was room.                  *)

WaitingIn(s) == {p \in Waiting : presses[p].sitting = s}
Coming == {q \in Requests : request[q] # NotPressing}
ComingTo(s) == {q \in Coming : request[q].sitting = s}

Room ==
    /\ Cardinality(Waiting) + Cardinality(Coming) < Capacity + Cardinality(Requests)
    /\ \A s \in Sittings :
         Cardinality(WaitingIn(s)) + Cardinality(ComingTo(s)) <= Cardinality(Requests)

\* All of them are finite.
LEMMA Finite ==
    ASSUME TypeOK
    PROVE  /\ IsFiniteSet(Waiting) /\ IsFiniteSet(Coming) /\ IsFiniteSet(ActivePresses)
           /\ Cardinality(Waiting) \in Nat /\ Cardinality(Coming) \in Nat
           /\ Cardinality(Waiting) <= Cardinality(ActivePresses)
           /\ Cardinality(ActivePresses) \in Nat
           /\ Cardinality(Requests) \in Nat
           /\ Cardinality(Coming) <= Cardinality(Requests)
           /\ \A s : /\ IsFiniteSet(WaitingIn(s)) /\ Cardinality(WaitingIn(s)) \in Nat
                     /\ IsFiniteSet(ComingTo(s)) /\ Cardinality(ComingTo(s)) \in Nat
                     /\ Cardinality(ComingTo(s)) <= Cardinality(Requests)
<1>1. IsFiniteSet(DOMAIN presses)
  <2>1. DOMAIN presses = 1 .. Len(presses) /\ Len(presses) \in Nat
    BY DEF TypeOK
  <2> QED
    BY <2>1, FS_Interval
<1>2. ActivePresses \subseteq DOMAIN presses /\ Waiting \subseteq ActivePresses
  BY DEF ActivePresses, Waiting, Active
<1>3. IsFiniteSet(ActivePresses)
  BY <1>1, <1>2, FS_Subset
<1>4. IsFiniteSet(Waiting) /\ Cardinality(Waiting) <= Cardinality(ActivePresses)
  BY <1>2, <1>3, FS_Subset
<1>5. IsFiniteSet(Requests) /\ Coming \subseteq Requests
  BY ConstantsAssumption DEF Coming
<1>6. IsFiniteSet(Coming) /\ Cardinality(Coming) <= Cardinality(Requests)
  BY <1>5, FS_Subset
<1>7. ASSUME NEW s
      PROVE  /\ IsFiniteSet(WaitingIn(s))
             /\ IsFiniteSet(ComingTo(s)) /\ Cardinality(ComingTo(s)) <= Cardinality(Requests)
  <2>1. WaitingIn(s) \subseteq Waiting /\ ComingTo(s) \subseteq Requests
    BY <1>5 DEF WaitingIn, ComingTo
  <2> QED
    BY <1>4, <1>5, <2>1, FS_Subset
<1> QED
  BY <1>3, <1>4, <1>5, <1>6, <1>7, FS_CardinalityType

\* A step that queues no press and reads for none keeps the room.
LEMMA QuietKeepsRoom ==
    ASSUME TypeOK, Room, request' = request, DOMAIN presses' = DOMAIN presses,
           \A p \in DOMAIN presses :
              presses'[p].status = "queued" =>
                presses[p].status = "queued" /\ presses'[p].sitting = presses[p].sitting
    PROVE  Room'
<1>1. Coming' = Coming /\ \A s : ComingTo(s)' = ComingTo(s)
  BY DEF Coming, ComingTo
<1>2. Waiting' \subseteq Waiting /\ \A s : WaitingIn(s)' \subseteq WaitingIn(s)
  BY DEF Waiting, WaitingIn
<1>3. /\ Cardinality(Waiting') \in Nat /\ Cardinality(Waiting') <= Cardinality(Waiting)
      /\ \A s : /\ Cardinality(WaitingIn(s)') \in Nat
                /\ Cardinality(WaitingIn(s)') <= Cardinality(WaitingIn(s))
  BY <1>2, Finite, FS_Subset, FS_CardinalityType
<1>4. Cardinality(Waiting') + Cardinality(Coming') < Capacity + Cardinality(Requests)
  BY <1>1, <1>3, Finite, ConstantsAssumption DEF Room
<1>5. ASSUME NEW s \in Sittings
      PROVE  Cardinality(WaitingIn(s)') + Cardinality(ComingTo(s)') <= Cardinality(Requests)
  BY <1>1, <1>3, Finite DEF Room
<1> QED
  BY <1>4, <1>5 DEF Room

LEMMA RoomNext == Inv /\ Room /\ [Next]_vars => Room'
<1> SUFFICES ASSUME Inv, Room, [Next]_vars PROVE Room'
  OBVIOUS
<1>0. TypeOK
  BY DEF Inv
<1>1. ASSUME NEW s \in Sittings, Change(s) PROVE Room'
  BY <1>0, <1>1, QuietKeepsRoom DEF Change
<1>2. ASSUME NEW q \in Requests, NEW s \in Sittings, PressReads(q, s) PROVE Room'
  <2>1. /\ q \notin Coming /\ q \in Requests
        /\ Cardinality(ActivePresses) < Capacity /\ ActiveIn(s) = {}
    BY <1>0, <1>2, Finite, ConstantsAssumption DEF PressReads, Coming, AtCapacity, Pressing
  <2>2. /\ request'[q].sitting = s /\ request'[q] # NotPressing
        /\ \A r \in Requests : r # q => request'[r] = request[r]
    BY <1>0, <1>2 DEF PressReads, TypeOK, NotPressing
  <2>3. Waiting' = Waiting /\ \A t : WaitingIn(t)' = WaitingIn(t)
    BY <1>2 DEF PressReads, Waiting, WaitingIn
  <2>4. TypeOK'
    BY InvNext DEF Inv
  <2>5. Coming' = Coming \cup {q}
    BY <2>1, <2>2 DEF Coming
  <2>6. /\ Cardinality(Coming') <= Cardinality(Requests) /\ Cardinality(Coming') \in Nat
        /\ \A t : /\ Cardinality(ComingTo(t)') <= Cardinality(Requests)
                  /\ Cardinality(ComingTo(t)') \in Nat
    <3>1. Coming' \subseteq Requests /\ \A t : ComingTo(t)' \subseteq Requests
      BY DEF Coming, ComingTo
    <3> QED
      BY <3>1, FS_Subset, FS_CardinalityType, ConstantsAssumption
  <2>7. Cardinality(Waiting') + Cardinality(Coming') < Capacity + Cardinality(Requests)
    BY <1>0, <2>1, <2>3, <2>6, Finite, ConstantsAssumption
  <2>8. ASSUME NEW t \in Sittings
        PROVE  Cardinality(WaitingIn(t)') + Cardinality(ComingTo(t)') <= Cardinality(Requests)
    <3>1. CASE t = s
      <4>1. WaitingIn(s) = {}
        BY <2>1 DEF WaitingIn, Waiting, ActiveIn, ActivePresses, Active
      <4>2. Cardinality(WaitingIn(t)') = 0
        BY <2>3, <3>1, <4>1, FS_EmptySet
      <4> QED
        BY <2>6, <4>2
    <3>2. CASE t # s
      <4>1. ComingTo(t)' = ComingTo(t)
        BY <2>1, <2>2, <2>5, <3>2 DEF ComingTo, Coming
      <4> QED
        BY <2>3, <4>1 DEF Room
    <3> QED
      BY <3>1, <3>2
  <2> QED
    BY <2>7, <2>8 DEF Room
<1>3. ASSUME NEW q \in Requests, PressCommits(q) PROVE Room'
  <2> DEFINE n == Len(presses)
             s == request[q].sitting
  <2>1. q \in Coming
    BY <1>3 DEF PressCommits, Coming
  <2>2. /\ presses' = Append(presses, NewPress(q)) /\ n \in Nat
        /\ DOMAIN presses = 1 .. n /\ DOMAIN presses' = 1 .. n + 1
        /\ presses'[n + 1] = NewPress(q)
        /\ \A p \in 1 .. n : presses'[p] = presses[p]
    BY <1>0, <1>3 DEF PressCommits, TypeOK
  <2>3. NewPress(q).status = "queued" /\ NewPress(q).sitting = s
    BY DEF NewPress
  <2>4. Waiting' = Waiting \cup {n + 1} /\ n + 1 \notin Waiting
    BY <2>2, <2>3 DEF Waiting
  <2>5. /\ request'[q] = NotPressing
        /\ \A r \in Requests : r # q => request'[r] = request[r]
    BY <1>0, <1>3 DEF PressCommits, TypeOK
  <2>6. Coming' = Coming \ {q}
    BY <2>5 DEF Coming
  <2>7. /\ Cardinality(Waiting') = Cardinality(Waiting) + 1
        /\ Cardinality(Coming') = Cardinality(Coming) - 1
    BY <1>0, <2>1, <2>4, <2>6, Finite, FS_AddElement, FS_RemoveElement
  <2>8. Cardinality(Waiting') + Cardinality(Coming') < Capacity + Cardinality(Requests)
    BY <1>0, <2>7, Finite, ConstantsAssumption DEF Room
  <2>9. ASSUME NEW t \in Sittings
        PROVE  Cardinality(WaitingIn(t)') + Cardinality(ComingTo(t)') <= Cardinality(Requests)
    <3>1. CASE t = s
      <4>1. /\ WaitingIn(t)' = WaitingIn(t) \cup {n + 1} /\ n + 1 \notin WaitingIn(t)
        BY <2>2, <2>3, <2>4, <3>1 DEF WaitingIn, Waiting
      <4>2. ComingTo(t)' = ComingTo(t) \ {q} /\ q \in ComingTo(t)
        BY <2>1, <2>5, <2>6, <3>1 DEF ComingTo, Coming
      <4>3. /\ Cardinality(WaitingIn(t)') = Cardinality(WaitingIn(t)) + 1
            /\ Cardinality(ComingTo(t)') = Cardinality(ComingTo(t)) - 1
        <5>1. IsFiniteSet(WaitingIn(t)) /\ IsFiniteSet(ComingTo(t))
          BY <1>0, Finite
        <5>2. Cardinality(WaitingIn(t) \cup {n + 1}) = Cardinality(WaitingIn(t)) + 1
          BY <4>1, <5>1, FS_AddElement
        <5>3. Cardinality(ComingTo(t) \ {q}) = Cardinality(ComingTo(t)) - 1
          BY <4>2, <5>1, FS_RemoveElement
        <5> QED
          BY <4>1, <4>2, <5>2, <5>3
      <4> QED
        BY <1>0, <4>3, Finite DEF Room
    <3>2. CASE t # s
      <4>1. WaitingIn(t)' = WaitingIn(t)
        BY <2>2, <2>3, <2>4, <3>2 DEF WaitingIn, Waiting
      <4>2. ComingTo(t)' = ComingTo(t)
        BY <2>1, <2>5, <2>6, <3>2 DEF ComingTo, Coming
      <4> QED
        BY <4>1, <4>2 DEF Room
    <3> QED
      BY <3>1, <3>2
  <2> QED
    BY <2>8, <2>9 DEF Room
<1>4. ASSUME NEW h \in Handlers, NEW p \in DOMAIN presses, ClaimReads(h, p) PROVE Room'
  BY <1>0, <1>4, QuietKeepsRoom DEF ClaimReads
<1>5. ASSUME NEW h \in Handlers, ClaimCommits(h) PROVE Room'
  BY <1>0, <1>5, QuietKeepsRoom, PressFields DEF ClaimCommits, Presses
<1>6. ASSUME NEW h \in Handlers, FinishReads(h) PROVE Room'
  BY <1>0, <1>6, QuietKeepsRoom DEF FinishReads
<1>7. ASSUME NEW h \in Handlers, FinishCommits(h) PROVE Room'
  <2> DEFINE p == handler[h].press
  <2>1. /\ p \in DOMAIN presses /\ presses[p].status # "queued"
        /\ presses[p] \in Presses /\ handler[h].verdict # "queued"
    BY <1>0, <1>7, PressFields DEF FinishCommits, Inv, Grounded, TypeOK, Terminal
  <2>2. /\ request' = request /\ DOMAIN presses' = DOMAIN presses
        /\ presses'[p].status # "queued"
        /\ \A r \in DOMAIN presses : r # p => presses'[r] = presses[r]
    <3> DEFINE ended == [presses[p] EXCEPT
                   !.status = IF handler[h].verdict = "none" THEN @ ELSE handler[h].verdict,
                   !.candidates = IF handler[h].verdict = "succeeded" THEN presses[p].read ELSE @]
               settled == Settled(ended, handler[h].verdict = "succeeded")
    <3>1. ended.status # "queued" /\ settled.status # "queued"
      BY <2>1 DEF Settled, Presses
    <3>2. request' = request
      BY <1>7 DEF FinishCommits
    <3>3. \/ presses' = [presses EXCEPT ![p] = settled]
          \/ presses' = [presses EXCEPT ![p] = ended]
          \/ presses' = presses
      BY <1>7 DEF FinishCommits
    <3> HIDE DEF ended, settled
    <3>4. \A e : presses' = [presses EXCEPT ![p] = e] =>
             /\ DOMAIN presses' = DOMAIN presses /\ presses'[p] = e
             /\ \A r \in DOMAIN presses : r # p => presses'[r] = presses[r]
      BY <1>0, <2>1 DEF TypeOK
    <3> QED
      BY <2>1, <3>1, <3>2, <3>3, <3>4
  <2> QED
    BY <1>0, <2>1, <2>2, QuietKeepsRoom
<1>8. ASSUME NEW p \in DOMAIN presses, Cancel(p) PROVE Room'
  <2>1. presses[p] \in Presses
    BY <1>0, PressFields
  <2>2. /\ request' = request /\ DOMAIN presses' = DOMAIN presses
        /\ presses'[p].status # "queued"
        /\ \A r \in DOMAIN presses : r # p => presses'[r] = presses[r]
    BY <1>0, <1>8, <2>1 DEF Cancel, Presses, TypeOK
  <2> QED
    BY <1>0, <2>2, QuietKeepsRoom
<1>9. ASSUME NEW p \in DOMAIN presses, SweepReads(p) PROVE Room'
  BY <1>0, <1>9, QuietKeepsRoom DEF SweepReads
<1>10. ASSUME SweepEnds PROVE Room'
  <2>1. sweep \in DOMAIN presses /\ presses[sweep] \in Presses
    BY <1>0, <1>10, PressFields DEF SweepEnds, TypeOK
  <2>2. /\ request' = request /\ DOMAIN presses' = DOMAIN presses
        /\ presses'[sweep].status # "queued"
        /\ \A r \in DOMAIN presses : r # sweep => presses'[r] = presses[r]
    BY <1>0, <1>10, <2>1 DEF SweepEnds, GivenUp, Presses, TypeOK
  <2> QED
    BY <1>0, <2>2, QuietKeepsRoom
<1>11. ASSUME NEW p \in DOMAIN presses, Reconcile(p) PROVE Room'
  <2>1. presses[p] \in Presses
    BY <1>0, PressFields
  <2>2. /\ request' = request /\ DOMAIN presses' = DOMAIN presses
        /\ presses'[p].status = presses[p].status /\ presses'[p].sitting = presses[p].sitting
        /\ \A r \in DOMAIN presses : r # p => presses'[r] = presses[r]
    BY <1>0, <1>11, <2>1 DEF Reconcile, Presses, TypeOK
  <2> QED
    BY <1>0, <2>2, QuietKeepsRoom
<1>12. CASE UNCHANGED vars
  BY <1>0, <1>12, QuietKeepsRoom DEF vars
<1> QED
  BY <1>1, <1>2, <1>3, <1>4, <1>5, <1>6, <1>7, <1>8, <1>9, <1>10, <1>11, <1>12 DEF Next

LEMMA RoomInit == Init => Room
<1> SUFFICES ASSUME Init PROVE Room
  OBVIOUS
<1>1. Waiting = {} /\ \A s : WaitingIn(s) = {}
  BY DEF Init, Waiting, WaitingIn
<1>2. Coming = {} /\ \A s : ComingTo(s) = {}
  BY DEF Init, Coming, ComingTo
<1>3. Cardinality({}) = 0
  BY FS_EmptySet
<1>4. Cardinality(Requests) \in Nat
  BY ConstantsAssumption, FS_CardinalityType
<1>5. Cardinality(Waiting) + Cardinality(Coming) < Capacity + Cardinality(Requests)
  BY <1>1, <1>2, <1>3, <1>4, ConstantsAssumption
<1>6. ASSUME NEW s \in Sittings
      PROVE  Cardinality(WaitingIn(s)) + Cardinality(ComingTo(s)) <= Cardinality(Requests)
  <2>1. Cardinality(WaitingIn(s)) = 0 /\ Cardinality(ComingTo(s)) = 0
    BY <1>1, <1>2, <1>3
  <2> QED
    BY <1>4, <2>1
<1> QED
  BY <1>5, <1>6 DEF Room

\* The ceiling, but for the requests that looked before one another's commit
\* (execution_limits.py:61-80).
THEOREM CeilingIsKept == Spec => []PressesUnderCeiling
<1>1. Inv /\ Room => PressesUnderCeiling
  <2> SUFFICES ASSUME Inv, Room PROVE PressesUnderCeiling
    OBVIOUS
  <2>1. TypeOK
    BY DEF Inv
  <2> QED
    BY <2>1, Finite, ConstantsAssumption DEF Room, PressesUnderCeiling
<1> QED
  BY <1>1, InvInit, InvNext, RoomInit, RoomNext, PTL DEF Spec

\* One press at a time in a sitting, but for the same requests (theme/api.py:269-284).
THEOREM SittingsPressOnce == Spec => []OnePressAtATime
<1>1. Inv /\ Room => OnePressAtATime
  <2> SUFFICES ASSUME Inv, Room PROVE OnePressAtATime
    OBVIOUS
  <2>1. TypeOK
    BY DEF Inv
  <2>2. ASSUME NEW s \in Sittings
        PROVE  Cardinality(Waiting \cap ActiveIn(s)) <= Cardinality(Requests)
    <3>1. Waiting \cap ActiveIn(s) = WaitingIn(s)
      BY DEF Waiting, WaitingIn, ActiveIn, ActivePresses, Active
    <3>2. /\ Cardinality(WaitingIn(s)) + Cardinality(ComingTo(s)) <= Cardinality(Requests)
          /\ Cardinality(WaitingIn(s)) \in Nat /\ Cardinality(ComingTo(s)) \in Nat
          /\ Cardinality(Requests) \in Nat
      BY <2>1, Finite DEF Room
    <3>3. Cardinality(WaitingIn(s)) <= Cardinality(Requests)
      BY <3>2
    <3> QED
      BY <3>1, <3>3
  <2> QED
    BY <2>2 DEF OnePressAtATime
<1> QED
  BY <1>1, InvInit, InvNext, RoomInit, RoomNext, PTL DEF Spec
=============================================================================
