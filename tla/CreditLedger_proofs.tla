------------------------ MODULE CreditLedger_proofs -------------------------
(***************************************************************************)
(* One user's 额度 for every number of targets, versions, attempts and runs,  *)
(* every 预扣, price and pack.                                               *)
(***************************************************************************)
EXTENDS CreditLedger, SumLemmas

\* j comes no later than k among the runs of one target.
Before(j, k) == j.version < k.version \/ (j.version = k.version /\ j.attempt <= k.attempt)

-----------------------------------------------------------------------------
(* The runs. *)

\* A run is its target, its version and its attempt.
LEMMA KeyFields ==
    ASSUME NEW k \in RunKeys
    PROVE  /\ k.target \in Targets
           /\ k.version \in 1 .. MaxVersion /\ k.attempt \in 1 .. MaxAttempt
           /\ k = Run(k.target, k.version, k.attempt)
           /\ k.target \in Reports => k.version = 1
           /\ k.target \in Articles => k.target \notin Reports
BY ConstantsAssumption DEF RunKeys, Targets, Run

LEMMA FirstRun ==
    ASSUME NEW t \in Targets
    PROVE  Run(t, 1, 1) \in RunKeys /\ Run(t, 1, 1).target = t
                /\ Run(t, 1, 1).version = 1 /\ Run(t, 1, 1).attempt = 1
BY ConstantsAssumption DEF RunKeys, Targets, Run

\* Two runs of one target come in some order, and only one run in both.
LEMMA InOrder ==
    ASSUME NEW j \in RunKeys, NEW k \in RunKeys, j.target = k.target
    PROVE  /\ Before(j, k) \/ Before(k, j)
           /\ Before(j, k) /\ Before(k, j) => j = k
<1>1. /\ j.version \in Int /\ k.version \in Int /\ j.attempt \in Int /\ k.attempt \in Int
      /\ j = Run(j.target, j.version, j.attempt) /\ k = Run(k.target, k.version, k.attempt)
  BY KeyFields
<1> QED
  BY <1>1 DEF Before

LEMMA RunKeysFinite == IsFiniteSet(RunKeys)
<1> DEFINE V == 1 .. MaxVersion
           N == 1 .. MaxAttempt
           P == (Targets \X V) \X N
           K == [target : Targets, version : V, attempt : N]
           f == [p \in P |-> Run(p[1][1], p[1][2], p[2])]
<1>1. IsFiniteSet(Targets) /\ IsFiniteSet(V) /\ IsFiniteSet(N)
  BY FS_Interval, ConstantsAssumption DEF Targets
<1>2. IsFiniteSet(Targets \X V)
  BY <1>1, FS_Product
<1>3. IsFiniteSet(P)
  BY <1>1, <1>2, FS_Product
<1>4. f \in Surjection(P, K)
  <2>1. f \in [P -> K]
    BY DEF Run
  <2>2. ASSUME NEW k \in K PROVE \E p \in P : f[p] = k
    <3>1. PICK p : p = << <<k.target, k.version>>, k.attempt >>
      OBVIOUS
    <3>2. p \in P /\ Run(p[1][1], p[1][2], p[2]) = k
      BY <3>1 DEF Run
    <3> QED
      BY <3>2
  <2> QED
    BY <2>1, <2>2 DEF Surjection
<1>5. IsFiniteSet(K)
  BY <1>3, <1>4, FS_Surjection
<1>6. RunKeys \subseteq K
  BY KeyFields DEF Run
<1> QED
  BY <1>5, <1>6, FS_Subset

\* A bounded set of numbers has a greatest one.
LEMMA Greatest ==
    ASSUME NEW n \in Nat, NEW S \in SUBSET (1 .. n), S # {}
    PROVE  \E m \in S : \A x \in S : x <= m
<1> DEFINE D == {n - x : x \in S}
<1>1. D \subseteq Nat /\ D # {}
  OBVIOUS
<1>2. PICK d \in D : \A e \in D : ~ (<<e, d>> \in OpToRel(<, Nat))
  BY <1>1, NatLessThanWellFounded, WFMin
<1>3. PICK m \in S : d = n - m
  BY <1>2
<1>4. \A x \in S : n - x \in D
  OBVIOUS
<1>5. \A x \in S : ~ (n - x < n - m)
  BY <1>1, <1>2, <1>3, <1>4 DEF OpToRel
<1> QED
  BY <1>5

\* The last run of a target is one it has, and no other comes after it.
LEMMA LatestIs ==
    ASSUME NEW t, Ran(t) # {}
    PROVE  Latest(t) \in Ran(t) /\ \A j \in Ran(t) : Before(j, Latest(t))
<1>1. MaxVersion \in Nat /\ MaxAttempt \in Nat
  BY ConstantsAssumption
<1>2. PICK V : V = {j.version : j \in Ran(t)}
  OBVIOUS
<1>3. V \in SUBSET (1 .. MaxVersion) /\ V # {}
  BY <1>2, KeyFields DEF Ran
<1>i. \A x \in V : x \in Int
  BY <1>1, <1>3
<1>4. PICK v \in V : \A x \in V : x <= v
  BY <1>1, <1>3, Greatest
<1>5. PICK A : A = {j.attempt : j \in {i \in Ran(t) : i.version = v}}
  OBVIOUS
<1>6. A \in SUBSET (1 .. MaxAttempt) /\ A # {}
  BY <1>2, <1>4, <1>5, KeyFields DEF Ran
<1>7. PICK a \in A : \A x \in A : x <= a
  BY <1>1, <1>6, Greatest
<1>8. PICK k \in Ran(t) : k.version = v /\ k.attempt = a
  BY <1>5, <1>7
<1>9. \A j \in Ran(t) : Before(j, k)
  <2> SUFFICES ASSUME NEW j \in Ran(t) PROVE Before(j, k)
    OBVIOUS
  <2>1. j.version \in V /\ j.version <= v /\ (j.version = v => j.attempt \in A)
    BY <1>2, <1>4, <1>5
  <2>2. j.version \in Int /\ v \in Int
    BY <1>i, <2>1
  <2> QED
    BY <1>7, <1>8, <2>1, <2>2 DEF Before
<1> QED
  BY <1>8, <1>9 DEF Latest, Before

\* The run a request would start is of its target, and none comes after it.
LEMMA NextRunIs ==
    ASSUME NEW t \in Targets, NextRun(t) \in RunKeys
    PROVE  /\ NextRun(t).target = t
           /\ \A j \in Ran(t) : Before(j, NextRun(t))
<1>1. CASE Ran(t) = {}
  BY <1>1, FirstRun DEF NextRun
<1>2. CASE Ran(t) # {}
  <2>1. PICK l : l = Latest(t)
    OBVIOUS
  <2>2. l \in Ran(t) /\ \A j \in Ran(t) : Before(j, l)
    BY <1>2, <2>1, LatestIs
  <2>3. l \in RunKeys /\ l.target = t /\ l.version \in Int /\ l.attempt \in Int
    BY <2>2, KeyFields DEF Ran
  <2>4. NextRun(t) = [l EXCEPT !.attempt = @ + 1] \/ NextRun(t) = Run(t, l.version + 1, 1)
    BY <1>2, <2>1 DEF NextRun
  <2>5. l = Run(l.target, l.version, l.attempt)
    BY <2>3, KeyFields
  <2>6. /\ NextRun(t).target = t
        /\ \/ NextRun(t).version = l.version /\ NextRun(t).attempt = l.attempt + 1
           \/ NextRun(t).version = l.version + 1
    BY <2>3, <2>4, <2>5 DEF Run
  <2>7. ASSUME NEW j \in Ran(t) PROVE Before(j, NextRun(t))
    <3>1. Before(j, l) /\ j.version \in Int /\ j.attempt \in Int
      BY <2>2, KeyFields DEF Ran
    <3> QED
      BY <2>3, <2>6, <3>1 DEF Before
  <2> QED
    BY <2>6, <2>7
<1> QED
  BY <1>1, <1>2

\* What a request would start, and whether the target is busy, depends on the
\* runs of that target only.
LEMMA TargetSame ==
    ASSUME NEW t \in Targets, \A j \in RunKeys : j.target = t => run'[j] = run[j]
    PROVE  /\ NextRun(t)' = NextRun(t)
           /\ Active(t)' <=> Active(t)
           /\ Ran(t)' = Ran(t)
<1>1. RunKeys' = RunKeys
  BY DEF RunKeys
<1>2. Ran(t)' = Ran(t)
  BY <1>1 DEF Ran
<1>3. Active(t)' <=> Active(t)
  BY <1>1 DEF Active
<1>4. Latest(t)' = Latest(t)
  BY <1>2 DEF Latest
<1>5. Ran(t) # {} => run'[Latest(t)] = run[Latest(t)]
  BY LatestIs DEF Ran
<1>6. NextRun(t)' = NextRun(t)
  BY <1>2, <1>4, <1>5 DEF NextRun, Run
<1> QED
  BY <1>2, <1>3, <1>6

-----------------------------------------------------------------------------
(* Products. *)

LEMMA Products ==
    ASSUME NEW a \in Nat, NEW m \in Nat, NEW n \in Nat, m <= n
    PROVE  a * m \in Nat /\ a * m <= a * n
OBVIOUS

-----------------------------------------------------------------------------
(* The sums of the ledger. *)

\* What kinds of entries there are.
LEMMA MoneyEntries ==
    ASSUME TypeOK, NEW e \in money
    PROVE  /\ e.amount \in Int
           /\ e.kind = "purchase" => e = Entry("purchase", PaymentIntent, Pack) /\ e.amount = Pack
           /\ e.kind = "purchase" => e.reference = PaymentIntent
           /\ e.kind # "purchase" => e.kind = "clawback" /\ e.reference \in Reversals /\ e.amount <= 0
BY ConstantsAssumption DEF TypeOK, Entry

LEMMA MovedType ==
    ASSUME TypeOK, IsFiniteSet(money), NEW kind
    PROVE  Moved(kind) \in Int
<1>1. PICK f, S : f = [e \in money |-> e.amount] /\ S = {e \in money : e.kind = kind}
  OBVIOUS
<1>2. IsFiniteSet(S)
  BY <1>1, FS_Subset
<1>3. \A e \in S : f[e] \in Int
  BY <1>1, MoneyEntries
<1>4. SumFunctionOnSet(f, S) \in Int
  BY <1>2, <1>3, SumType
<1> QED
  BY <1>1, <1>4 DEF Moved

LEMMA ReclaimedType ==
    ASSUME TypeOK, IsFiniteSet(money)
    PROVE  ReclaimedAgainst \in Nat
<1>1. PICK f, S, z : /\ f = [e \in money |-> e.amount]
                     /\ S = {e \in money : e.kind = "clawback"}
                     /\ z = [e \in S |-> 0]
  OBVIOUS
<1>2. IsFiniteSet(S)
  BY <1>1, FS_Subset
<1>3. \A e \in S : f[e] \in Int /\ z[e] \in Int /\ f[e] <= z[e] /\ z[e] = 0
  BY <1>1, MoneyEntries
<1>4. SumFunctionOnSet(f, S) <= SumFunctionOnSet(z, S)
  BY <1>2, <1>3, SumMonotone
<1>5. SumFunctionOnSet(z, S) = 0
  BY <1>2, <1>3, SumZero
<1>6. SumFunctionOnSet(f, S) \in Int
  BY <1>2, <1>3, SumType
<1> QED
  BY <1>1, <1>4, <1>5, <1>6 DEF ReclaimedAgainst, Moved

\* An entry moves the sum of its kind by its amount, and no other sum.
LEMMA EntryMoves ==
    ASSUME TypeOK, IsFiniteSet(money), NEW x, x \notin money, x.amount \in Int,
           money' = money \cup {x}, NEW kind
    PROVE  Moved(kind)' = Moved(kind) + IF x.kind = kind THEN x.amount ELSE 0
<1>1. PICK f, g, S : /\ f = [e \in money |-> e.amount]
                     /\ g = [e \in money \cup {x} |-> e.amount]
                     /\ S = {e \in money : e.kind = kind}
  OBVIOUS
<1>2. IsFiniteSet(S) /\ x \notin S
  BY <1>1, FS_Subset
<1>3. \A e \in S : f[e] \in Int /\ f[e] = g[e]
  BY <1>1, MoneyEntries
<1>4. SumFunctionOnSet(g, S) = SumFunctionOnSet(f, S) /\ SumFunctionOnSet(f, S) \in Int
  BY <1>2, <1>3, SumSame, SumType
<1>5. PICK T : T = {e \in money \cup {x} : e.kind = kind}
  OBVIOUS
<1>6. Moved(kind) = SumFunctionOnSet(f, S)
  BY <1>1 DEF Moved
<1>7. Moved(kind)' = SumFunctionOnSet(g, T)
  BY <1>1, <1>5 DEF Moved
<1>8. CASE x.kind = kind
  <2>1. T = S \cup {x}
    BY <1>1, <1>5, <1>8
  <2>2. \A e \in S \cup {x} : g[e] \in Int
    BY <1>1, <1>3
  <2>3. SumFunctionOnSet(g, S \cup {x}) = g[x] + SumFunctionOnSet(g, S)
    BY <1>2, <2>2, SumOneMore
  <2>4. g[x] = x.amount
    BY <1>1
  <2> QED
    BY <1>4, <1>6, <1>7, <1>8, <2>1, <2>3, <2>4
<1>9. CASE x.kind # kind
  <2>1. T = S
    BY <1>1, <1>5, <1>9
  <2> QED
    BY <1>4, <1>6, <1>7, <1>9, <2>1
<1> QED
  BY <1>8, <1>9

\* The sum over all runs, and how a 结算 moves it.
LEMMA CorrectionType ==
    ASSUME TypeOK
    PROVE  Correction \in Int /\ Shortfall \in Nat
<1>1. PICK f, g : /\ f = [k \in RunKeys |-> settles[k].amount]
                  /\ g = [k \in RunKeys |-> IF settles[k].amount < 0 THEN -settles[k].amount ELSE 0]
  OBVIOUS
<1>2. \A k \in RunKeys : f[k] \in Int /\ g[k] \in Nat
  BY <1>1 DEF TypeOK, Settles
<1>3. SumFunctionOnSet(f, RunKeys) \in Int /\ SumFunctionOnSet(g, RunKeys) \in Nat
  BY <1>2, RunKeysFinite, SumType, SumNatural
<1> QED
  BY <1>1, <1>3 DEF Correction, Shortfall

\* What is written to one 结算 that moved nothing yet moves the balance and the
\* shortfall together by no less than nothing.
LEMMA SettlementMoves ==
    ASSUME TypeOK, NEW k \in RunKeys, settles[k].amount = 0,
           NEW s \in Settles, settles' = [settles EXCEPT ![k] = s]
    PROVE  Correction' + Shortfall' >= Correction + Shortfall
             /\ Correction' \in Int /\ Shortfall' \in Int
<1>1. PICK f, g, ff, gg :
        /\ f = [j \in RunKeys |-> settles[j].amount]
        /\ g = [j \in RunKeys |-> IF settles[j].amount < 0 THEN -settles[j].amount ELSE 0]
        /\ ff = [j \in RunKeys |-> settles'[j].amount]
        /\ gg = [j \in RunKeys |-> IF settles'[j].amount < 0 THEN -settles'[j].amount ELSE 0]
  OBVIOUS
<1>2. /\ settles \in [RunKeys -> Settles] /\ settles' \in [RunKeys -> Settles]
      /\ settles'[k] = s /\ \A j \in RunKeys : j # k => settles'[j] = settles[j]
  BY DEF TypeOK
<1>3. \A j \in RunKeys : settles[j].amount \in Int /\ settles'[j].amount \in Int
  BY <1>2 DEF Settles
<1>4. \A j \in RunKeys : f[j] \in Int /\ ff[j] \in Int /\ g[j] \in Int /\ gg[j] \in Int
  BY <1>1, <1>3
<1>5. \A j \in RunKeys : j # k => ff[j] = f[j] /\ gg[j] = g[j]
  BY <1>1, <1>2
<1>6. f[k] = 0 /\ g[k] = 0 /\ ff[k] + gg[k] >= 0
  BY <1>1, <1>2, <1>3
<1>7. SumFunctionOnSet(ff, RunKeys) = SumFunctionOnSet(f, RunKeys) - f[k] + ff[k]
  BY <1>4, <1>5, RunKeysFinite, SumWritten
<1>8. SumFunctionOnSet(gg, RunKeys) = SumFunctionOnSet(g, RunKeys) - g[k] + gg[k]
  BY <1>4, <1>5, RunKeysFinite, SumWritten
<1>9. SumFunctionOnSet(f, RunKeys) \in Int /\ SumFunctionOnSet(g, RunKeys) \in Int
  BY <1>4, RunKeysFinite, SumType
<1>10. Correction = SumFunctionOnSet(f, RunKeys) /\ Shortfall = SumFunctionOnSet(g, RunKeys)
  BY <1>1 DEF Correction, Shortfall
<1>11. Correction' = SumFunctionOnSet(ff, RunKeys) /\ Shortfall' = SumFunctionOnSet(gg, RunKeys)
  BY <1>1 DEF Correction, Shortfall, RunKeys
<1> QED
  BY <1>4, <1>6, <1>7, <1>8, <1>9, <1>10, <1>11

-----------------------------------------------------------------------------
(* Types. *)

\* A charge is unknown or an amount.
LEMMA ChargeType ==
    ASSUME NEW charge \in Costs \ {None}
    PROVE  Estimate \in Int /\ (charge = Unknown \/ charge \in Int)
BY ConstantsAssumption DEF Costs

\* 结算 touches the run's own entry, once, and only where there is a 预扣.
LEMMA SettleType ==
    ASSUME TypeOK, NEW k \in RunKeys, NEW actual \in Costs \ {None}, NEW executed \in BOOLEAN,
           Settle(k, actual, executed), holds' = holds
    PROVE  /\ settles' \in [RunKeys -> Settles]
           /\ \A j \in RunKeys : settles'[j].written => j \in holds'
<1>1. actual = Unknown \/ actual \in Int
  BY ChargeType
<1>2. PICK s : s = [written |-> TRUE, executed |-> executed,
                    amount |-> IF actual = Unknown THEN 0 ELSE Estimate - actual]
  OBVIOUS
<1>3. s \in Settles
  BY <1>1, <1>2, ConstantsAssumption DEF Settles
<1>4. settles' = IF k \in holds /\ ~settles[k].written THEN [settles EXCEPT ![k] = s] ELSE settles
  BY <1>2 DEF Settle
<1> QED
  BY <1>3, <1>4 DEF TypeOK

\* What a worker or a late answer records of a run.
LEMMA RecordType ==
    ASSUME TypeOK, NEW k \in RunKeys, NEW charged \in Costs \ {None}, Record(k, charged),
           holds' = holds
    PROVE  /\ settles' \in [RunKeys -> Settles]
           /\ \A j \in RunKeys : settles'[j].written => j \in holds'
           /\ cost' \in [RunKeys -> Costs]
<1>1. CASE cost' = [cost EXCEPT ![k] = charged] /\ Settle(k, charged, TRUE)
  BY <1>1, SettleType DEF TypeOK
<1>2. CASE UNCHANGED <<settles, cost>>
  BY <1>2 DEF TypeOK
<1> QED
  BY <1>1, <1>2 DEF Record

\* Every event is a purchase or a reversal, never both, and none is the payment.
LEMMA EventKinds ==
    /\ Events = Purchases \cup Reversals /\ Purchases \cap Reversals = {}
    /\ PaymentIntent \notin Reversals
    /\ Event("completed", 0) \in Purchases
    /\ \A e \in Purchases : e.type \notin {"refunded", "dispute"}
    /\ \A e \in Reversals :
          \/ /\ e.type = "refunded" /\ e.amount \in 1 .. Price
             /\ e = Event("refunded", e.amount)
          \/ e.type = "dispute" /\ e = Event("dispute", 0)
<1>1. \A e \in Purchases : e.type \notin {"refunded", "dispute", "payment_intent"}
  BY DEF Purchases, Event
<1>2. \A e \in Reversals :
          \/ /\ e.type = "refunded" /\ e.amount \in 1 .. Price
             /\ e = Event("refunded", e.amount)
          \/ e.type = "dispute" /\ e = Event("dispute", 0)
  BY DEF Reversals, Event
<1>3. PaymentIntent.type = "payment_intent"
  BY DEF PaymentIntent, Event
<1>4. Event("completed", 0) \in Purchases
  BY DEF Purchases
<1> QED
  BY <1>1, <1>2, <1>3, <1>4 DEF Events

\* A reversal owes no more than the pack.
LEMMA OwedBounds ==
    ASSUME NEW e \in Reversals
    PROVE  Owed(e) \in 0 .. Pack
<1>1. CASE e.type = "refunded" /\ e.amount \in 1 .. Price
  BY <1>1, SharesAssumption, ConstantsAssumption DEF Owed
<1>2. CASE e.type = "dispute"
  BY <1>2, ConstantsAssumption DEF Owed
<1> QED
  BY <1>1, <1>2, EventKinds

LEMMA MoneyStep ==
    ASSUME TypeOK, IsFiniteSet(money), NEW e \in Events, Deliver(e)
    PROVE  /\ money' \subseteq [kind : {"purchase"}, reference : {PaymentIntent}, amount : {Pack}]
                 \cup [kind : {"clawback"}, reference : Reversals, amount : -Pack .. -1]
           /\ IsFiniteSet(money')
<1>1. CASE e \in Purchases /\ Fulfill(e)
  <2>1. PICK x : x = Entry("purchase", PaymentIntent, Pack)
    OBVIOUS
  <2>2. money' = money \/ money' = money \cup {x}
    BY <1>1, <2>1 DEF Fulfill, PaymentReference
  <2>3. x \in [kind : {"purchase"}, reference : {PaymentIntent}, amount : {Pack}]
    BY <2>1 DEF Entry
  <2> QED
    BY <2>2, <2>3, FS_AddElement DEF TypeOK
<1>2. CASE e \in Reversals /\ Reclaim(e)
  <2>1. PICK x : x = Entry("clawback", e, -Outstanding(e))
    OBVIOUS
  <2>2. money' = money \/ (money' = money \cup {x} /\ Outstanding(e) > 0)
    BY <1>2, <2>1 DEF Reclaim
  <2>3. Outstanding(e) \in Int /\ Outstanding(e) <= Pack /\ Pack \in Nat
    BY <1>2, ReclaimedType, OwedBounds, ConstantsAssumption DEF Outstanding
  <2>4. Outstanding(e) > 0 =>
           x \in [kind : {"clawback"}, reference : Reversals, amount : -Pack .. -1]
    BY <1>2, <2>1, <2>3 DEF Entry
  <2> QED
    BY <2>2, <2>4, FS_AddElement DEF TypeOK
<1> QED
  BY <1>1, <1>2 DEF Deliver

LEMMA BatchRuns == Batch \subseteq RunKeys /\ \A k \in Batch : k.target \in Reports
BY ConstantsAssumption DEF Batch, RunKeys, Run

LEMMA TypeStep == TypeOK /\ IsFiniteSet(money) /\ Next => TypeOK' /\ IsFiniteSet(money')
<1> SUFFICES ASSUME TypeOK, IsFiniteSet(money), Next PROVE TypeOK' /\ IsFiniteSet(money')
  OBVIOUS
<1>c. RunKeys' = RunKeys
  BY DEF RunKeys
<1>1. CASE BatchChecks
  BY <1>1 DEF BatchChecks, TypeOK, ledger, stripe
<1>2. CASE BatchCommits
  BY <1>2, BatchRuns DEF BatchCommits, Hold, TypeOK, stripe
<1>3. CASE QueueFails
  BY <1>3 DEF QueueFails, TypeOK, ledger, stripe
<1>4. CASE ReconcileCommits
  <2>1. settling.run \in RunKeys /\ settling.actual \in Costs \ {None} /\ settling.executed \in BOOLEAN
    BY <1>4 DEF ReconcileCommits, TypeOK
  <2>2. /\ settles' \in [RunKeys -> Settles]
        /\ \A j \in RunKeys : settles'[j].written => j \in holds'
    BY <1>4, <2>1, SettleType DEF ReconcileCommits
  <2> QED
    BY <1>4, <2>2 DEF ReconcileCommits, TypeOK, stripe
<1>5. ASSUME NEW r \in Reports, QueueInitial(r) PROVE TypeOK' /\ IsFiniteSet(money')
  <2>1. run' \in [RunKeys -> {"none", "active", "succeeded", "failed"}]
    BY <1>5, FirstRun DEF QueueInitial, TypeOK, Targets
  <2> QED
    BY <1>5, <2>1 DEF QueueInitial, TypeOK, ledger, stripe
<1>6. ASSUME NEW t \in Targets, StartChecks(t) PROVE TypeOK' /\ IsFiniteSet(money')
  BY <1>6 DEF StartChecks, TypeOK, ledger, stripe
<1>7. ASSUME NEW k \in RunKeys, StartCommits(k) PROVE TypeOK' /\ IsFiniteSet(money')
  <2>1. /\ run' \in [RunKeys -> {"none", "active", "succeeded", "failed"}]
        /\ holds \subseteq holds' /\ holds' \subseteq RunKeys
    BY <1>7 DEF StartCommits, Hold, TypeOK
  <2> QED
    BY <1>7, <2>1 DEF StartCommits, TypeOK, stripe
<1>8. ASSUME NEW k \in RunKeys, Succeed(k) PROVE TypeOK' /\ IsFiniteSet(money')
  <2>1. PICK c \in Charges \cup {Unknown} : Record(k, Charge(TRUE, c))
    BY <1>8 DEF Succeed
  <2>2. Charge(TRUE, c) \in Costs \ {None} /\ holds' = holds
    BY <1>8, ConstantsAssumption DEF Charge, Costs, Succeed
  <2>3. /\ settles' \in [RunKeys -> Settles]
        /\ \A j \in RunKeys : settles'[j].written => j \in holds'
        /\ cost' \in [RunKeys -> Costs]
    BY <2>1, <2>2, RecordType
  <2> QED
    BY <1>8, <2>3 DEF Succeed, TypeOK, stripe
<1>9. ASSUME NEW k \in RunKeys, Fail(k) PROVE TypeOK' /\ IsFiniteSet(money')
  <2>1. Charge(FALSE, Unknown) \in Costs \ {None} /\ holds' = holds
    BY <1>9, ConstantsAssumption DEF Charge, Costs, Fail
  <2>2. /\ settles' \in [RunKeys -> Settles]
        /\ \A j \in RunKeys : settles'[j].written => j \in holds'
        /\ cost' \in [RunKeys -> Costs]
    BY <1>9, <2>1, RecordType DEF Fail
  <2>3. run' \in [RunKeys -> {"none", "active", "succeeded", "failed"}]
    BY <1>9 DEF Fail, TypeOK
  <2> QED
    BY <1>9, <2>2, <2>3 DEF Fail, TypeOK, stripe
<1>10. ASSUME NEW k \in RunKeys, SweepEnds(k) PROVE TypeOK' /\ IsFiniteSet(money')
  BY <1>10 DEF SweepEnds, TypeOK, ledger, stripe
<1>11. ASSUME NEW k \in RunKeys, LateAnswer(k) PROVE TypeOK' /\ IsFiniteSet(money')
  <2>1. Charge(FALSE, Unknown) \in Costs \ {None} /\ holds' = holds
    BY <1>11, ConstantsAssumption DEF Charge, Costs, LateAnswer
  <2>2. /\ settles' \in [RunKeys -> Settles]
        /\ \A j \in RunKeys : settles'[j].written => j \in holds'
        /\ cost' \in [RunKeys -> Costs]
    BY <1>11, <2>1, RecordType DEF LateAnswer
  <2> QED
    BY <1>11, <2>2 DEF LateAnswer, TypeOK, stripe
<1>12. ASSUME NEW k \in RunKeys, ReconcileReads(k) PROVE TypeOK' /\ IsFiniteSet(money')
  <2>1. Actual(k) \in Costs \ {None} /\ Ended(k) \in BOOLEAN
    BY ConstantsAssumption DEF Actual, Costs, TypeOK, Ended
  <2> QED
    BY <1>12, <2>1 DEF ReconcileReads, TypeOK, ledger, stripe
<1>13. CASE Checkout
  <2>1. pending' \subseteq Events
    BY <1>13, EventKinds DEF Checkout, TypeOK
  <2>2. payment' \in [paid : BOOLEAN, refunded : 0 .. Price, disputed : BOOLEAN]
    BY <1>13 DEF Checkout, TypeOK
  <2> QED
    BY <1>13, <2>1, <2>2 DEF Checkout, TypeOK, ledger
<1>14. CASE Refund
  <2>1. payment.refunded + 1 \in 1 .. Price
    BY <1>14, ConstantsAssumption DEF Refund, TypeOK
  <2>2. Event("refunded", payment.refunded + 1) \in Events
    BY <2>1 DEF Events, Reversals
  <2>3. payment' \in [paid : BOOLEAN, refunded : 0 .. Price, disputed : BOOLEAN]
    BY <1>14, <2>1 DEF Refund, TypeOK
  <2> QED
    BY <1>14, <2>2, <2>3 DEF Refund, TypeOK, ledger
<1>15. CASE Dispute
  <2>1. Event("dispute", 0) \in Events
    BY DEF Events, Reversals
  <2>2. payment' \in [paid : BOOLEAN, refunded : 0 .. Price, disputed : BOOLEAN]
    BY <1>15 DEF Dispute, TypeOK
  <2>3. pending' \subseteq Events
    BY <1>15, <2>1 DEF Dispute, TypeOK
  <2> QED
    BY <1>15, <2>2, <2>3 DEF Dispute, TypeOK, ledger
<1>16. ASSUME NEW e \in Events, Deliver(e) PROVE TypeOK' /\ IsFiniteSet(money')
  <2>1. missed' \in BOOLEAN
    BY <1>16 DEF Deliver, TypeOK
  <2>2. pending' \subseteq Events
    BY <1>16 DEF Deliver, TypeOK
  <2> QED
    BY <1>16, <2>1, <2>2, MoneyStep DEF Deliver, TypeOK
<1> QED
  BY <1>1, <1>2, <1>3, <1>4, <1>5, <1>6, <1>7, <1>8, <1>9, <1>10, <1>11, <1>12, <1>13, <1>14,
     <1>15, <1>16 DEF Next

-----------------------------------------------------------------------------
(* The runs of a target. *)

\* An active run is the last of its target; a target has one request under way
\* at most, and the run that request would start is still the next one, unless
\* somebody else has started it.
OneLife ==
    /\ \A j, k \in RunKeys :
          j.target = k.target /\ run[k] = "active" /\ run[j] # "none" => Before(j, k)
    /\ \A j, k \in starting : j.target = k.target => j = k
    /\ \A k \in starting : run[k] # "none" \/ (~ Active(k.target) /\ k = NextRun(k.target))

\* A run that becomes active leaves the rest in order where it is the next one
\* of a target that is not busy.
LEMMA OrderKept ==
    ASSUME TypeOK, OneLife, NEW k \in RunKeys, ~ Active(k.target),
           \A j \in Ran(k.target) : Before(j, k),
           run' = [run EXCEPT ![k] = "active"]
    PROVE  \A i, j \in RunKeys :
              i.target = j.target /\ run'[j] = "active" /\ run'[i] # "none" => Before(i, j)
<1> SUFFICES ASSUME NEW i \in RunKeys, NEW j \in RunKeys, i.target = j.target,
                    run'[j] = "active", run'[i] # "none"
             PROVE  Before(i, j)
  OBVIOUS
<1>1. \A h \in RunKeys : h # k => run'[h] = run[h]
  BY DEF TypeOK
<1>2. Before(k, k)
  BY KeyFields DEF Before
<1>3. CASE j = k
  BY <1>1, <1>2, <1>3 DEF Ran
<1>4. CASE j # k
  <2>1. run[j] = "active" /\ j.target # k.target
    BY <1>1, <1>4 DEF Active
  <2>2. run[i] # "none"
    BY <1>1, <2>1
  <2> QED
    BY <2>1, <2>2 DEF OneLife
<1> QED
  BY <1>3, <1>4

\* A run that ends leaves the rest in order.
LEMMA OrderEnds ==
    ASSUME TypeOK, OneLife, NEW k \in RunKeys, run[k] = "active",
           NEW st \in {"succeeded", "failed"}, run' = [run EXCEPT ![k] = st]
    PROVE  \A i, j \in RunKeys :
              i.target = j.target /\ run'[j] = "active" /\ run'[i] # "none" => Before(i, j)
<1>1. /\ \A h \in RunKeys : h # k => run'[h] = run[h]
      /\ run'[k] = st
  BY DEF TypeOK
<1>2. \A h \in RunKeys : /\ run'[h] = "active" => run[h] = "active"
                         /\ run'[h] # "none" => run[h] # "none"
  BY <1>1
<1> QED
  BY <1>2 DEF OneLife

\* A request under way stays what it is while the runs of its target do, and
\* where they do not, its own run has been started.
LEMMA RequestsKept ==
    ASSUME TypeOK, OneLife, starting' \subseteq starting,
           \A k \in starting' : \/ run'[k] # "none"
                                \/ \A j \in RunKeys : j.target = k.target => run'[j] = run[j]
    PROVE  /\ \A j, k \in starting' : j.target = k.target => j = k
           /\ \A k \in starting' :
                 run'[k] # "none" \/ (~ Active(k.target)' /\ k = NextRun(k.target)')
<1>1. \A j, k \in starting' : j.target = k.target => j = k
  BY DEF OneLife
<1>2. ASSUME NEW k \in starting', run'[k] = "none"
      PROVE  ~ Active(k.target)' /\ k = NextRun(k.target)'
  <2>1. k \in RunKeys /\ k \in starting
    BY DEF TypeOK
  <2>2. PICK t \in Targets : t = k.target
    BY <2>1, KeyFields
  <2>3. \A j \in RunKeys : j.target = t => run'[j] = run[j]
    BY <1>2, <2>2
  <2>4. run[k] = "none"
    BY <1>2, <2>1, <2>2, <2>3
  <2>5. ~ Active(t) /\ k = NextRun(t)
    BY <2>1, <2>2, <2>4 DEF OneLife
  <2>6. ~ Active(t)' /\ k = NextRun(t)'
    BY <2>3, <2>5, TargetSame
  <2> QED
    BY <2>2, <2>6
<1> QED
  BY <1>1, <1>2

LEMMA SameRuns ==
    ASSUME TypeOK, OneLife, run' = run, starting' \subseteq starting
    PROVE  OneLife'
<1>1. RunKeys' = RunKeys
  BY DEF RunKeys
<1>2. /\ \A j, k \in starting' : j.target = k.target => j = k
      /\ \A k \in starting' :
            run'[k] # "none" \/ (~ Active(k.target)' /\ k = NextRun(k.target)')
  BY RequestsKept
<1>3. \A j, k \in RunKeys :
          j.target = k.target /\ run'[k] = "active" /\ run'[j] # "none" => Before(j, k)
  BY DEF OneLife
<1> QED
  BY <1>1, <1>2, <1>3 DEF OneLife, Before

\* The run that a failed first attempt is followed by has not been there.
LEMMA AutomaticIsNew ==
    ASSUME TypeOK, OneLife, NEW k \in RunKeys, run[k] = "active",
           AutomaticAttempt(k) \in RunKeys
    PROVE  /\ AutomaticAttempt(k).target = k.target /\ AutomaticAttempt(k) # k
           /\ run[AutomaticAttempt(k)] = "none"
           /\ \A j \in RunKeys : Before(j, k) => Before(j, AutomaticAttempt(k))
<1>1. PICK a : a = AutomaticAttempt(k)
  OBVIOUS
<1>2. /\ k = Run(k.target, k.version, k.attempt)
      /\ k.version \in Int /\ k.attempt \in Int
  BY KeyFields
<1>3. a.target = k.target /\ a.version = k.version /\ a.attempt = k.attempt + 1
  BY <1>1, <1>2 DEF AutomaticAttempt, Run
<1>4. ~ Before(a, k)
  BY <1>2, <1>3 DEF Before
<1>5. \A j \in RunKeys : Before(j, k) => Before(j, a)
  <2>1. \A j \in RunKeys : j.version \in Int /\ j.attempt \in Int
    BY KeyFields
  <2> QED
    BY <1>2, <1>3, <2>1 DEF Before
<1>6. run[a] = "none"
  BY <1>1, <1>3, <1>4 DEF OneLife
<1> QED
  BY <1>1, <1>2, <1>3, <1>5, <1>6

\* Whoever starts, ends or gives up a run, the runs of a target follow one another.
LEMMA OneLifeStep == TypeOK /\ TypeOK' /\ OneLife /\ Next => OneLife'
<1> SUFFICES ASSUME TypeOK, TypeOK', OneLife, Next PROVE OneLife'
  OBVIOUS
<1>c. RunKeys' = RunKeys
  BY DEF RunKeys
<1>d. ASSUME \A i, j \in RunKeys :
                i.target = j.target /\ run'[j] = "active" /\ run'[i] # "none" => Before(i, j),
             \A j, k \in starting' : j.target = k.target => j = k,
             \A k \in starting' :
                run'[k] # "none" \/ (~ Active(k.target)' /\ k = NextRun(k.target)')
      PROVE  OneLife'
  BY <1>c, <1>d DEF OneLife, Before
<1>f. \A k \in starting : k \in RunKeys
  BY DEF TypeOK
<1>1. ASSUME NEW k \in RunKeys, run[k] = "active", NEW st \in {"succeeded", "failed"},
             run' = [run EXCEPT ![k] = st], starting' = starting
      PROVE  OneLife'
  <2>1. \A j \in RunKeys : j # k => run'[j] = run[j]
    BY <1>1 DEF TypeOK
  <2>2. ASSUME NEW j \in starting, run'[j] = "none"
        PROVE  \A i \in RunKeys : i.target = j.target => run'[i] = run[i]
    <3>1. j \in RunKeys /\ (run[j] # "none" \/ ~ Active(j.target))
      BY <1>f DEF OneLife
    <3>2. run'[k] # "none"
      BY <1>1 DEF TypeOK
    <3>3. j # k /\ run[j] = "none"
      BY <2>1, <2>2, <3>1, <3>2
    <3>4. j.target # k.target
      BY <1>1, <3>1, <3>3 DEF Active
    <3> QED
      BY <2>1, <3>4
  <2> QED
    BY <1>1, <1>d, <2>2, OrderEnds, RequestsKept
<1>2. ASSUME NEW r \in Reports, QueueInitial(r) PROVE OneLife'
  <2>1. PICK k \in RunKeys : k = Run(r, 1, 1) /\ k.target = r
    BY FirstRun DEF Targets
  <2>2. CASE Ran(r) = {}
    <3>1. run' = [run EXCEPT ![k] = "active"] /\ starting' = starting
      BY <1>2, <2>1, <2>2 DEF QueueInitial
    <3>2. \A j \in RunKeys : j.target = r => run[j] = "none"
      BY <2>2 DEF Ran
    <3>3. ~ Active(k.target) /\ \A j \in Ran(k.target) : Before(j, k)
      BY <2>1, <2>2, <3>2 DEF Active
    <3>4. \A j \in starting : j.target = r => j = k
      BY <1>f, <2>1, <2>2, <3>2 DEF OneLife, NextRun
    <3>5. /\ run'[k] = "active" /\ \A j \in RunKeys : j # k => run'[j] = run[j]
      BY <3>1 DEF TypeOK
    <3>6. \A j \in starting' : \/ run'[j] # "none"
                               \/ \A i \in RunKeys : i.target = j.target => run'[i] = run[i]
      BY <2>1, <3>1, <3>4, <3>5
    <3>7. /\ \A j, i \in starting' : j.target = i.target => j = i
          /\ \A j \in starting' :
                run'[j] # "none" \/ (~ Active(j.target)' /\ j = NextRun(j.target)')
      BY <3>1, <3>6, RequestsKept
    <3> QED
      BY <1>d, <3>1, <3>3, <3>7, OrderKept
  <2>3. CASE Ran(r) # {}
    BY <1>2, <2>3, SameRuns DEF QueueInitial
  <2> QED
    BY <2>2, <2>3
<1>3. ASSUME NEW t \in Targets, StartChecks(t) PROVE OneLife'
  <2>1. PICK n \in RunKeys : n = NextRun(t)
    BY <1>3 DEF StartChecks
  <2>2. n.target = t
    BY <2>1, NextRunIs
  <2>3. /\ run' = run /\ starting' = starting \cup {n}
        /\ ~ Active(t) /\ \A k \in starting : k.target # t
    BY <1>3, <2>1 DEF StartChecks
  <2>4. \A k \in starting' : run[k] # "none" \/ (~ Active(k.target) /\ k = NextRun(k.target))
    BY <2>1, <2>2, <2>3 DEF OneLife
  <2>5. \A k \in starting' : k.target \in Targets
    BY <1>f, <2>3, KeyFields
  <2>6. \A k \in starting' :
           run'[k] # "none" \/ (~ Active(k.target)' /\ k = NextRun(k.target)')
    BY <2>3, <2>4, <2>5, TargetSame
  <2>7. \A j, k \in starting' : j.target = k.target => j = k
    BY <2>2, <2>3 DEF OneLife
  <2>8. \A i, j \in RunKeys :
          i.target = j.target /\ run'[j] = "active" /\ run'[i] # "none" => Before(i, j)
    BY <2>3 DEF OneLife
  <2> QED
    BY <1>d, <2>6, <2>7, <2>8
<1>4. ASSUME NEW k \in RunKeys, StartCommits(k) PROVE OneLife'
  <2>1. k \in starting /\ starting' = starting \ {k} /\ starting' \subseteq starting
    BY <1>4 DEF StartCommits
  <2>2. CASE Active(k.target) \/ run[k] # "none"
    BY <1>4, <2>1, <2>2, SameRuns DEF StartCommits
  <2>3. CASE ~ Active(k.target) /\ run[k] = "none"
    <3>1. run' = [run EXCEPT ![k] = "active"]
      BY <1>4, <2>3 DEF StartCommits
    <3>2. k = NextRun(k.target) /\ k.target \in Targets
      BY <2>1, <2>3, KeyFields DEF OneLife
    <3>3. \A j \in Ran(k.target) : Before(j, k)
      BY <3>2, NextRunIs
    <3>4. \A j \in starting' : j.target # k.target
      BY <2>1 DEF OneLife
    <3>5. \A j \in RunKeys : j # k => run'[j] = run[j]
      BY <3>1 DEF TypeOK
    <3>6. \A j \in starting' : \A i \in RunKeys : i.target = j.target => run'[i] = run[i]
      BY <3>4, <3>5
    <3>7. /\ \A j, i \in starting' : j.target = i.target => j = i
          /\ \A j \in starting' :
                run'[j] # "none" \/ (~ Active(j.target)' /\ j = NextRun(j.target)')
      BY <2>1, <3>6, RequestsKept
    <3> QED
      BY <1>d, <2>3, <3>1, <3>3, <3>7, OrderKept
  <2> QED
    BY <2>2, <2>3
<1>5. ASSUME NEW k \in RunKeys, Succeed(k) PROVE OneLife'
  BY <1>1, <1>5 DEF Succeed
<1>6. ASSUME NEW k \in RunKeys, SweepEnds(k) PROVE OneLife'
  BY <1>1, <1>6 DEF SweepEnds
<1>7. ASSUME NEW k \in RunKeys, Fail(k) PROVE OneLife'
  <2>1. run[k] = "active" /\ starting' = starting
    BY <1>7 DEF Fail
  <2>2. CASE run' = [run EXCEPT ![k] = "failed"]
    BY <1>1, <2>1, <2>2
  <2>3. CASE /\ AutomaticAttempt(k) \in RunKeys
             /\ run' = [run EXCEPT ![k] = "failed", ![AutomaticAttempt(k)] = "active"]
    <3>1. PICK a \in RunKeys : a = AutomaticAttempt(k)
      BY <2>3
    <3>2. /\ a.target = k.target /\ a # k /\ run[a] = "none"
          /\ \A j \in RunKeys : Before(j, k) => Before(j, a)
      BY <2>1, <3>1, AutomaticIsNew
    <3>3. /\ run'[k] = "failed" /\ run'[a] = "active"
          /\ \A j \in RunKeys : j # k /\ j # a => run'[j] = run[j]
      BY <2>3, <3>1, <3>2 DEF TypeOK
    <3>4. ASSUME NEW i \in RunKeys, NEW j \in RunKeys, i.target = j.target,
                 run'[j] = "active", run'[i] # "none"
          PROVE  Before(i, j)
      <4>1. Before(a, a) /\ (i # a => run[i] # "none")
        BY <2>1, <3>3, <3>4, KeyFields DEF Before
      <4>2. CASE j = a
        <5>1. i # a => Before(i, k)
          BY <2>1, <3>2, <3>4, <4>1, <4>2 DEF OneLife
        <5> QED
          BY <3>2, <4>1, <4>2, <5>1
      <4>3. CASE j # a
        <5>1. j # k /\ run[j] = "active"
          BY <3>3, <3>4, <4>3
        <5>2. j.target # k.target
          BY <2>1, <5>1, InOrder DEF OneLife
        <5> QED
          BY <3>2, <3>4, <4>1, <5>1, <5>2 DEF OneLife
      <4> QED
        BY <4>2, <4>3
    <3>5. ASSUME NEW j \in starting, run'[j] = "none"
          PROVE  \A i \in RunKeys : i.target = j.target => run'[i] = run[i]
      <4>1. j \in RunKeys /\ (run[j] # "none" \/ ~ Active(j.target))
        BY <1>f DEF OneLife
      <4>2. j # k /\ j # a /\ run[j] = "none"
        BY <3>3, <3>5, <4>1
      <4>3. j.target # k.target
        BY <2>1, <4>1, <4>2 DEF Active
      <4> QED
        BY <3>2, <3>3, <4>3
    <3>6. /\ \A j, i \in starting' : j.target = i.target => j = i
          /\ \A j \in starting' :
                run'[j] # "none" \/ (~ Active(j.target)' /\ j = NextRun(j.target)')
      BY <2>1, <3>5, RequestsKept
    <3> QED
      BY <1>d, <3>4, <3>6
  <2> QED
    BY <1>7, <2>2, <2>3 DEF Fail
<1>8. CASE run' = run /\ starting' \subseteq starting
  BY <1>8, SameRuns
<1>q. \/ \E r \in Reports : QueueInitial(r)
      \/ \E t \in Targets : StartChecks(t)
      \/ \E k \in RunKeys : StartCommits(k) \/ Succeed(k) \/ Fail(k) \/ SweepEnds(k)
      \/ run' = run /\ starting' \subseteq starting
  BY DEF Next, BatchChecks, BatchCommits, QueueFails, ReconcileCommits, LateAnswer, ReconcileReads,
         Checkout, Refund, Dispute, Deliver
<1> QED
  BY <1>2, <1>3, <1>4, <1>5, <1>6, <1>7, <1>8, <1>q

-----------------------------------------------------------------------------
(* 结算. *)

\* What the sweep has read of a run that ended still holds.
Decided ==
    settling # NoDecision /\ settling.executed =>
        Ended(settling.run) /\ settling.actual = Actual(settling.run)

\* Every 结算 that a run caused has it at its cost, and nothing is moved by one
\* that is not written.
Settlement ==
    /\ SettledAtCost
    /\ \A k \in RunKeys : ~ settles[k].written => settles[k].amount = 0
    /\ Decided

\* A run that ended stays as it ended, and its cost is not written over: only
\* that of a failed run may still come.
LEMMA EndedStays ==
    ASSUME TypeOK, OneLife, Next, NEW k \in RunKeys, Ended(k)
    PROVE  run'[k] = run[k] /\ (cost'[k] = cost[k] \/ run[k] = "failed")
<1>r. ASSUME NEW j \in RunKeys, NEW charged, Record(j, charged), Ended(j) => run[j] = "failed"
      PROVE  cost'[k] = cost[k] \/ run[k] = "failed"
  BY <1>r DEF Record, TypeOK
<1>1. ASSUME NEW r \in Reports, QueueInitial(r) PROVE run'[k] = run[k] /\ cost'[k] = cost[k]
  <2>1. Ran(r) = {} => k # Run(r, 1, 1)
    BY FirstRun DEF Ran, Ended, Targets
  <2> QED
    BY <1>1, <2>1 DEF QueueInitial, TypeOK
<1>2. ASSUME NEW j \in RunKeys, StartCommits(j) PROVE run'[k] = run[k] /\ cost'[k] = cost[k]
  BY <1>2 DEF StartCommits, Ended, TypeOK
<1>3. ASSUME NEW j \in RunKeys, Succeed(j)
      PROVE  run'[k] = run[k] /\ (cost'[k] = cost[k] \/ run[k] = "failed")
  <2>1. j # k
    BY <1>3 DEF Succeed, Ended
  <2> QED
    BY <1>3, <1>r, <2>1 DEF Succeed, TypeOK, Ended
<1>4. ASSUME NEW j \in RunKeys, Fail(j)
      PROVE  run'[k] = run[k] /\ (cost'[k] = cost[k] \/ run[k] = "failed")
  <2>1. j # k /\ (AutomaticAttempt(j) \in RunKeys => k # AutomaticAttempt(j))
    BY <1>4, AutomaticIsNew DEF Fail, Ended
  <2>2. run'[k] = run[k]
    BY <1>4, <2>1 DEF Fail, TypeOK
  <2> QED
    BY <1>4, <1>r, <2>2 DEF Fail, Ended
<1>5. ASSUME NEW j \in RunKeys, SweepEnds(j) PROVE run'[k] = run[k] /\ cost'[k] = cost[k]
  BY <1>5 DEF SweepEnds, Ended, TypeOK
<1>6. ASSUME NEW j \in RunKeys, LateAnswer(j)
      PROVE  run'[k] = run[k] /\ (cost'[k] = cost[k] \/ run[k] = "failed")
  BY <1>6, <1>r DEF LateAnswer
<1>7. CASE run' = run /\ cost' = cost
  BY <1>7
<1>q. \/ \E r \in Reports : QueueInitial(r)
      \/ \E j \in RunKeys : \/ StartCommits(j) \/ Succeed(j) \/ Fail(j) \/ SweepEnds(j)
                            \/ LateAnswer(j)
      \/ run' = run /\ cost' = cost
  BY DEF Next, BatchChecks, BatchCommits, QueueFails, StartChecks, ReconcileCommits, ReconcileReads,
         Checkout, Refund, Dispute, Deliver
<1> QED
  BY <1>1, <1>2, <1>3, <1>4, <1>5, <1>6, <1>7, <1>q

\* So what is due for it stays, and so does what the sweep would charge.
LEMMA DueStays ==
    ASSUME TypeOK, OneLife, Next, NEW k \in RunKeys, Ended(k)
    PROVE  /\ Ended(k)' /\ Due(k)' = Due(k)
           /\ Actual(k)' = Actual(k)
<1>1. run'[k] = run[k] /\ (cost'[k] = cost[k] \/ run[k] = "failed")
  BY EndedStays
<1>2. Ended(k)'
  BY <1>1 DEF Ended
<1>3. Due(k)' = Due(k)
  <2>1. CASE run[k] = "failed"
    BY <1>1, <2>1 DEF Due
  <2>2. CASE run[k] # "failed"
    BY <1>1, <2>2 DEF Due
  <2> QED
    BY <2>1, <2>2
<1>4. Actual(k)' = Actual(k)
  <2>1. CASE run[k] = "failed"
    BY <1>1, <2>1 DEF Actual
  <2>2. CASE run[k] # "failed"
    BY <1>1, <2>2 DEF Actual
  <2> QED
    BY <2>1, <2>2
<1> QED
  BY <1>2, <1>3, <1>4

\* A 结算 at what the sweep reads, and one at what a worker records, is at cost.
LEMMA ActualIsDue ==
    ASSUME TypeOK, NEW k \in RunKeys, Ended(k)
    PROVE  /\ Actual(k) = Unknown => Due(k) = Estimate
           /\ Actual(k) # Unknown =>
                 Actual(k) \in Int /\ Due(k) = Actual(k)
<1>c. Unknown # 0 /\ Unknown # None /\ \A c \in Charges : c \in Int
  BY ConstantsAssumption
<1>1. CASE run[k] = "failed" \/ cost[k] = None
  BY <1>1, <1>c DEF Actual, Due
<1>2. CASE run[k] = "succeeded" /\ cost[k] # None
  <2>1. cost[k] \in Charges \cup {0, Unknown}
    BY <1>2 DEF TypeOK, Costs
  <2>2. Actual(k) = cost[k]
    BY <1>2 DEF Actual
  <2>3. CASE cost[k] = Unknown
    BY <1>2, <2>2, <2>3 DEF Due
  <2>4. CASE cost[k] # Unknown
    BY <1>2, <1>c, <2>1, <2>2, <2>4 DEF Due
  <2> QED
    BY <2>3, <2>4
<1> QED
  BY <1>1, <1>2 DEF Ended

LEMMA SettledIs ==
    SettledAtCost <=> \A k \in RunKeys : settles[k].written /\ settles[k].executed =>
                         Ended(k) /\ Paid(k) = Due(k)
BY DEF SettledAtCost, Due

\* A step that settles one run at most, and at cost if a run caused it, leaves
\* every other 结算 at the cost of its run.
LEMMA SettlementKept ==
    ASSUME TypeOK, TypeOK', OneLife, Settlement, Next, NEW k \in RunKeys, holds \subseteq holds',
           NEW actual \in Costs \ {None}, NEW executed \in BOOLEAN,
           settles' = settles \/ (holds' = holds /\ Settle(k, actual, executed)),
           executed => /\ Ended(k)'
                       /\ actual = Unknown => Due(k)' = Estimate
                       /\ actual # Unknown => Due(k)' = actual
    PROVE  SettledAtCost' /\ \A j \in RunKeys : ~ settles'[j].written => settles'[j].amount = 0
<1>1. Estimate \in Int /\ (actual = Unknown \/ actual \in Int)
  BY ChargeType
<1>2. PICK s : s = [written |-> TRUE, executed |-> executed,
                    amount |-> IF actual = Unknown THEN 0 ELSE Estimate - actual]
  OBVIOUS
<1>3. \/ settles' = settles
      \/ /\ settles' = [settles EXCEPT ![k] = s] /\ holds' = holds /\ k \in holds
         /\ ~ settles[k].written
  BY <1>2 DEF Settle
<1>4. \A j \in RunKeys :
         settles'[j] = settles[j] \/ (j = k /\ settles'[j] = s /\ j \in holds')
  BY <1>3 DEF TypeOK
<1>5. ASSUME NEW j \in RunKeys, settles'[j].written, settles'[j].executed
      PROVE  Ended(j)' /\ Paid(j)' = Due(j)'
  <2>0. j \in holds'
    BY <1>5 DEF TypeOK, RunKeys
  <2>1. CASE settles'[j] = settles[j]
    <3>1. j \in holds
      BY <1>5, <2>1 DEF TypeOK
    <3>2. Ended(j) /\ Paid(j) = Due(j)
      BY <1>5, <2>1, SettledIs DEF Settlement
    <3>3. Paid(j)' = Paid(j)
      BY <2>0, <2>1, <3>1 DEF Paid
    <3> QED
      BY <3>2, <3>3, DueStays
  <2>2. CASE j = k /\ settles'[j] = s
    <3>1. executed
      BY <1>2, <1>5, <2>2
    <3>2. Paid(j)' = IF actual = Unknown THEN Estimate ELSE actual
      BY <1>1, <1>2, <2>0, <2>2 DEF Paid
    <3> QED
      BY <2>2, <3>1, <3>2
  <2> QED
    BY <1>4, <2>1, <2>2
<1>6. RunKeys' = RunKeys
  BY DEF RunKeys
<1>7. SettledAtCost'
  BY <1>5, <1>6 DEF SettledAtCost, Due
<1>8. \A j \in RunKeys : ~ settles'[j].written => settles'[j].amount = 0
  BY <1>2, <1>4 DEF Settlement
<1> QED
  BY <1>7, <1>8

\* Worker, late answer and sweep settle at cost, in whatever order they come.
LEMMA SettlementStep == TypeOK /\ TypeOK' /\ OneLife /\ Settlement /\ Next => Settlement'
<1> SUFFICES ASSUME TypeOK, TypeOK', OneLife, Settlement, Next PROVE Settlement'
  OBVIOUS
<1> DEFINE AtCost == SettledAtCost' /\ \A j \in RunKeys : ~ settles'[j].written => settles'[j].amount = 0
<1> HIDE DEF AtCost
<1>c. RunKeys' = RunKeys /\ NoDecision' = NoDecision
  BY DEF RunKeys, NoDecision
<1>h. holds \subseteq holds'
  BY DEF Next, BatchChecks, BatchCommits, QueueFails, ReconcileCommits, QueueInitial, StartChecks,
         StartCommits, Succeed, Fail, SweepEnds, LateAnswer, ReconcileReads, Checkout, Refund,
         Dispute, Deliver, Hold, ledger
<1>z. /\ Charge(FALSE, Unknown) = 0 /\ 0 \in Costs \ {None} /\ 0 # Unknown
      /\ \A c \in Charges \cup {Unknown} :
            Charge(TRUE, c) = c /\ c \in Costs \ {None}
  BY ConstantsAssumption DEF Charge, Costs
<1>n. ASSUME settles' = settles PROVE AtCost
  <2>1. PICK k \in RunKeys : TRUE
    BY FirstRun, ConstantsAssumption DEF Targets
  <2>2. PICK executed \in BOOLEAN : executed = FALSE
    OBVIOUS
  <2> QED
    BY <1>h, <1>n, <1>z, <2>1, <2>2, SettlementKept DEF AtCost
<1>1. ASSUME NEW k \in RunKeys, Succeed(k) PROVE AtCost
  <2>1. PICK c \in Charges \cup {Unknown} : Record(k, Charge(TRUE, c))
    BY <1>1 DEF Succeed
  <2>2. c \in Costs \ {None} /\ Record(k, c) /\ holds' = holds
    BY <1>1, <1>z, <2>1 DEF Succeed
  <2>3. CASE settles' = settles
    BY <1>n, <2>3
  <2>4. CASE cost' = [cost EXCEPT ![k] = c] /\ Settle(k, c, TRUE)
    <3>1. cost'[k] = c /\ run'[k] = "succeeded"
      BY <1>1, <2>4 DEF Succeed, TypeOK
    <3>2. /\ Ended(k)'
          /\ c = Unknown => Due(k)' = Estimate
          /\ c # Unknown => Due(k)' = c
      BY <2>2, <3>1 DEF Ended, Due
    <3>3. PICK executed \in BOOLEAN : executed = TRUE
      OBVIOUS
    <3> QED
      BY <1>h, <2>2, <2>4, <3>2, <3>3, SettlementKept DEF AtCost
  <2> QED
    BY <2>2, <2>3, <2>4 DEF Record
<1>2. ASSUME NEW k \in RunKeys, Record(k, 0), holds' = holds, run'[k] = "failed" PROVE AtCost
  <2>1. CASE settles' = settles
    BY <1>n, <2>1
  <2>2. CASE Settle(k, 0, TRUE)
    <3>1. Ended(k)' /\ Due(k)' = 0
      BY <1>2 DEF Ended, Due
    <3>2. PICK executed \in BOOLEAN, c \in Costs \ {None} : executed = TRUE /\ c = 0
      BY <1>z
    <3> QED
      BY <1>2, <1>h, <1>z, <2>2, <3>1, <3>2, SettlementKept DEF AtCost
  <2> QED
    BY <1>2, <2>1, <2>2 DEF Record
<1>3. ASSUME NEW k \in RunKeys, Fail(k) PROVE AtCost
  <2>1. AutomaticAttempt(k) \in RunKeys => AutomaticAttempt(k) # k
    BY <1>3, AutomaticIsNew DEF Fail
  <2>2. run'[k] = "failed"
    BY <1>3, <2>1 DEF Fail, TypeOK
  <2> QED
    BY <1>2, <1>3, <1>z, <2>2 DEF Fail
<1>4. ASSUME NEW k \in RunKeys, LateAnswer(k) PROVE AtCost
  <2>1. run'[k] = "failed"
    BY <1>4 DEF LateAnswer
  <2> QED
    BY <1>2, <1>4, <1>z, <2>1 DEF LateAnswer
<1>5. ASSUME ReconcileCommits PROVE AtCost
  <2>1. PICK k \in RunKeys, actual \in Costs \ {None}, executed \in BOOLEAN :
           k = settling.run /\ actual = settling.actual /\ executed = settling.executed
    BY <1>5 DEF ReconcileCommits, TypeOK
  <2>2. Settle(k, actual, executed) /\ holds' = holds /\ run' = run /\ cost' = cost
    BY <1>5, <2>1 DEF ReconcileCommits
  <2>3. executed => Ended(k) /\ actual = Actual(k)
    BY <1>5, <2>1 DEF ReconcileCommits, Settlement, Decided
  <2>4. executed => /\ Ended(k)
                    /\ actual = Unknown => Due(k) = Estimate
                    /\ actual # Unknown => Due(k) = actual
    BY <2>3, ActualIsDue
  <2>5. Ended(k)' = Ended(k) /\ Due(k)' = Due(k)
    BY <2>2 DEF Ended, Due
  <2>6. executed => /\ Ended(k)'
                    /\ actual = Unknown => Due(k)' = Estimate
                    /\ actual # Unknown => Due(k)' = actual
    BY <2>4, <2>5
  <2>7. settles' = settles \/ (holds' = holds /\ Settle(k, actual, executed))
    BY <2>2
  <2> QED
    BY <1>h, <2>6, <2>7, SettlementKept DEF AtCost
<1>6. AtCost
  <2>1. \/ ReconcileCommits
        \/ \E k \in RunKeys : Succeed(k) \/ Fail(k) \/ LateAnswer(k)
        \/ settles' = settles
    BY DEF Next, BatchChecks, BatchCommits, QueueFails, QueueInitial, StartChecks, StartCommits,
           SweepEnds, ReconcileReads, Checkout, Refund, Dispute, Deliver, ledger
  <2>2. CASE \E k \in RunKeys : Succeed(k) \/ Fail(k) \/ LateAnswer(k)
    BY <1>1, <1>3, <1>4, <2>2
  <2> QED
    BY <1>n, <1>5, <2>1, <2>2
<1>7. Decided'
  <2>1. ASSUME NEW k \in RunKeys, settling'.run = k, settling'.executed,
               Ended(k)' /\ settling'.actual = Actual(k)'
        PROVE  Decided'
    BY <2>1 DEF Decided, Ended, Actual
  <2>2. ASSUME NEW k \in RunKeys, ReconcileReads(k) PROVE Decided'
    <3>1. /\ settling'.run = k /\ settling'.actual = Actual(k) /\ settling'.executed = Ended(k)
          /\ run' = run /\ cost' = cost
      BY <2>2 DEF ReconcileReads, ledger
    <3>2. (Ended(k)' <=> Ended(k)) /\ Actual(k)' = Actual(k)
      BY <3>1 DEF Ended, Actual
    <3>3. CASE settling'.executed
      BY <2>1, <3>1, <3>2, <3>3
    <3>4. CASE ~ settling'.executed
      BY <3>4 DEF Decided
    <3> QED
      BY <3>3, <3>4
  <2>3. CASE settling' = settling /\ settling # NoDecision /\ settling.executed
    <3>1. PICK k \in RunKeys : k = settling.run
      BY <2>3 DEF TypeOK
    <3>2. Ended(k) /\ settling.actual = Actual(k)
      BY <2>3, <3>1 DEF Settlement, Decided
    <3>3. Ended(k)' /\ Actual(k)' = Actual(k)
      BY <3>2, DueStays
    <3> QED
      BY <2>1, <2>3, <3>1, <3>2, <3>3
  <2>4. CASE settling' = NoDecision \/ (settling' = settling /\ ~ (settling # NoDecision /\ settling.executed))
    BY <1>c, <2>4 DEF Decided
  <2>5. settling' = NoDecision \/ settling' = settling \/ \E k \in RunKeys : ReconcileReads(k)
    BY DEF Next, BatchChecks, BatchCommits, QueueFails, ReconcileCommits, QueueInitial, StartChecks,
           StartCommits, Succeed, Fail, SweepEnds, LateAnswer, Checkout, Refund, Dispute, Deliver
  <2> QED
    BY <2>2, <2>3, <2>4, <2>5
<1> QED
  BY <1>c, <1>6, <1>7 DEF Settlement, AtCost

-----------------------------------------------------------------------------
(* The debt. *)

\* The runs whose admission has read the balance and not committed its 预扣.
InFlight == starting \cup (IF batch = "checked" THEN Batch ELSE {})

\* The balance but for what only a clawback or a shortfall took.
Sound == Remaining + ReclaimedAgainst + Shortfall

\* Requests for 来源 and 主题 wait for the confirmation, and what is in flight is
\* still covered but for the runs of all targets but one.
Flight ==
    /\ batch # "confirmed" => \A k \in starting : k.target \in Articles
    /\ Sound - Estimate * Cardinality(InFlight) >= Estimate - Estimate * Cardinality(Targets)

LEMMA Scale ==
    ASSUME NEW m \in Nat, NEW n \in Nat
    PROVE  /\ Estimate * (m + n) = Estimate * m + Estimate * n
           /\ Estimate * m \in Nat /\ Estimate * 1 = Estimate /\ Estimate * 0 = 0
           /\ m <= n => Estimate * m <= Estimate * n
<1>1. Estimate \in Nat
  BY ConstantsAssumption
<1>2. /\ Estimate * (m + n) = Estimate * m + Estimate * n
      /\ Estimate * m \in Nat /\ Estimate * 1 = Estimate /\ Estimate * 0 = 0
  BY <1>1
<1> QED
  BY <1>1, <1>2, Products

\* The runs in flight are of different targets, so there are no more of them
\* than targets, and a batch shares none with the requests before it.
LEMMA InFlightBounds ==
    ASSUME NEW S \in SUBSET RunKeys, \A j, k \in S : j.target = k.target => j = k,
           NEW B \in {{}, Batch}, B # {} => \A k \in S : k.target \in Articles
    PROVE  /\ IsFiniteSet(S \cup B) /\ Cardinality(S \cup B) <= Cardinality(Targets)
           /\ Cardinality(S \cup B) = Cardinality(S) + Cardinality(B)
           /\ IsFiniteSet(S) /\ IsFiniteSet(B)
<1>1. S \cup B \in SUBSET RunKeys
  BY BatchRuns
<1>2. IsFiniteSet(S) /\ IsFiniteSet(B) /\ IsFiniteSet(S \cup B)
  BY <1>1, RunKeysFinite, FS_Subset
<1>3. S \cap B = {}
  BY BatchRuns, ConstantsAssumption
<1>4. \A j, k \in B : j.target = k.target => j = k
  BY DEF Batch, Run
<1>5. PICK f : f = [k \in S \cup B |-> k.target]
  OBVIOUS
<1>6. f \in Injection(S \cup B, Targets)
  <2>1. f \in [S \cup B -> Targets]
    BY <1>1, <1>5, KeyFields
  <2>2. ASSUME NEW j \in S \cup B, NEW k \in S \cup B, j.target = k.target PROVE j = k
    BY <1>4, <2>2, BatchRuns, ConstantsAssumption
  <2>3. \A j, k \in S \cup B : f[j] = f[k] => j = k
    BY <1>5, <2>2
  <2> QED
    BY <2>1, <2>3 DEF Injection, IsInjective
<1>7. IsFiniteSet(Targets)
  BY ConstantsAssumption DEF Targets
<1>8. Cardinality(S \cup B) <= Cardinality(Targets)
  BY <1>6, <1>7, FS_Injection
<1>9. Cardinality(S \cup B) = Cardinality(S) + Cardinality(B) - Cardinality(S \cap B)
  BY <1>2, FS_Union
<1>10. Cardinality(S \cap B) = 0 /\ Cardinality(S) \in Nat /\ Cardinality(B) \in Nat
  BY <1>2, <1>3, FS_EmptySet, FS_CardinalityType
<1> QED
  BY <1>2, <1>8, <1>9, <1>10

\* A clawback moves nothing of it.
SoundSum ==
    /\ Sound = SignupGrant + Moved("purchase") + (Correction + Shortfall)
                 - Estimate * Cardinality(holds)
    /\ Sound >= Remaining /\ Sound \in Int /\ Remaining \in Int
    /\ Moved("purchase") \in Int /\ Correction \in Int /\ Shortfall \in Int
    /\ Cardinality(holds) \in Nat /\ SignupGrant \in Int

LEMMA SoundIs == TypeOK /\ IsFiniteSet(money) => SoundSum
<1> SUFFICES ASSUME TypeOK, IsFiniteSet(money) PROVE SoundSum
  OBVIOUS
<1>1. Moved("purchase") \in Int /\ Moved("clawback") \in Int /\ ReclaimedAgainst \in Nat
  BY MovedType, ReclaimedType
<1>2. Correction \in Int /\ Shortfall \in Nat
  BY CorrectionType
<1>3. IsFiniteSet(holds) /\ Cardinality(holds) \in Nat
  BY RunKeysFinite, FS_Subset, FS_CardinalityType DEF TypeOK
<1>4. Estimate * Cardinality(holds) \in Nat
  BY <1>3, Scale
<1>5. SignupGrant \in Int
  BY ConstantsAssumption
<1> QED
  BY <1>1, <1>2, <1>3, <1>4, <1>5 DEF SoundSum, Sound, Remaining, ReclaimedAgainst

LEMMA SoundNext == (TypeOK /\ IsFiniteSet(money))' => SoundSum'
BY SoundIs, PTL

LEMMA SettleMoves ==
    ASSUME TypeOK, Settlement, NEW k \in RunKeys, NEW actual \in Costs \ {None},
           NEW executed \in BOOLEAN, Settle(k, actual, executed)
    PROVE  Correction' + Shortfall' >= Correction + Shortfall
<1>1. Estimate \in Int /\ (actual = Unknown \/ actual \in Int)
  BY ChargeType
<1>2. PICK s : s = [written |-> TRUE, executed |-> executed,
                    amount |-> IF actual = Unknown THEN 0 ELSE Estimate - actual]
  OBVIOUS
<1>3. s \in Settles
  BY <1>1, <1>2 DEF Settles
<1>4. CASE settles' = settles
  <2>1. Correction' = Correction /\ Shortfall' = Shortfall
    BY <1>4 DEF Correction, Shortfall, RunKeys
  <2> QED
    BY <2>1, CorrectionType
<1>5. CASE settles' = [settles EXCEPT ![k] = s] /\ ~ settles[k].written
  <2>1. settles[k].amount = 0
    BY <1>5 DEF Settlement
  <2> QED
    BY <1>3, <1>5, <2>1, SettlementMoves
<1> QED
  BY <1>2, <1>4, <1>5 DEF Settle

\* Only 预扣 take from what is sound: a purchase adds to it, a clawback leaves it,
\* and a 结算 gives back or is a shortfall.
LEMMA OnlyHoldsTake ==
    ASSUME TypeOK, IsFiniteSet(money), TypeOK', IsFiniteSet(money'), Settlement, Next
    PROVE  Moved("purchase")' + (Correction' + Shortfall')
              >= Moved("purchase") + (Correction + Shortfall)
<1>0. PICK p, q, pp, qq : /\ p = Moved("purchase") /\ q = Correction + Shortfall
                          /\ pp = Moved("purchase")' /\ qq = Correction' + Shortfall'
  OBVIOUS
<1>t. p \in Int /\ q \in Int /\ pp \in Int /\ qq \in Int
  BY <1>0, SoundIs, SoundNext DEF SoundSum
<1>m. money' = money => pp = p
  BY <1>0 DEF Moved
<1>s. settles' = settles => qq = q
  BY <1>0 DEF Correction, Shortfall, RunKeys
<1>z. /\ Charge(FALSE, Unknown) \in Costs \ {None}
      /\ \A c \in Charges \cup {Unknown} : Charge(TRUE, c) \in Costs \ {None}
  BY ConstantsAssumption DEF Charge, Costs
<1>r. ASSUME NEW k \in RunKeys, NEW c \in Costs \ {None}, Record(k, c) PROVE qq >= q
  <2>1. CASE Settle(k, c, TRUE)
    BY <1>0, <2>1, SettleMoves
  <2>2. CASE settles' = settles
    BY <1>s, <1>t, <2>2
  <2> QED
    BY <1>r, <2>1, <2>2 DEF Record
<1>1. qq >= q
  <2>1. ASSUME NEW k \in RunKeys, Succeed(k) PROVE qq >= q
    BY <1>r, <1>z, <2>1 DEF Succeed
  <2>2. ASSUME NEW k \in RunKeys, Fail(k) PROVE qq >= q
    BY <1>r, <1>z, <2>2 DEF Fail
  <2>3. ASSUME NEW k \in RunKeys, LateAnswer(k) PROVE qq >= q
    BY <1>r, <1>z, <2>3 DEF LateAnswer
  <2>4. ASSUME ReconcileCommits PROVE qq >= q
    <3>1. /\ settling.run \in RunKeys /\ settling.actual \in Costs \ {None}
          /\ settling.executed \in BOOLEAN
          /\ Settle(settling.run, settling.actual, settling.executed)
      BY <2>4 DEF ReconcileCommits, TypeOK
    <3> QED
      BY <1>0, <3>1, SettleMoves
  <2>5. CASE settles' = settles
    BY <1>s, <1>t, <2>5
  <2>6. \/ ReconcileCommits
        \/ \E k \in RunKeys : Succeed(k) \/ Fail(k) \/ LateAnswer(k)
        \/ settles' = settles
    BY DEF Next, BatchChecks, BatchCommits, QueueFails, QueueInitial, StartChecks, StartCommits,
           SweepEnds, ReconcileReads, Checkout, Refund, Dispute, Deliver, ledger
  <2>7. CASE \E k \in RunKeys : Succeed(k) \/ Fail(k) \/ LateAnswer(k)
    BY <2>1, <2>2, <2>3, <2>7
  <2> QED
    BY <2>4, <2>5, <2>6, <2>7
<1>2. pp >= p
  <2>1. ASSUME NEW x, x \notin money, x.amount \in Int, money' = money \cup {x},
               x.kind = "purchase" => x.amount >= 0
        PROVE  pp >= p
    <3>1. pp = p + IF x.kind = "purchase" THEN x.amount ELSE 0
      BY <1>0, <2>1, EntryMoves
    <3> QED
      BY <1>t, <2>1, <3>1
  <2>2. ASSUME NEW e \in Events, Deliver(e) PROVE pp >= p
    <3>1. CASE money' = money
      BY <1>m, <1>t, <3>1
    <3>2. CASE money' = money \cup {Entry("purchase", PaymentIntent, Pack)} /\ ~ Found(PaymentIntent)
      <4>1. PICK x : x = Entry("purchase", PaymentIntent, Pack)
        OBVIOUS
      <4>2. x \notin money /\ x.amount = Pack /\ Pack \in Nat
        BY <3>2, <4>1, ConstantsAssumption DEF Found, Entry
      <4> QED
        BY <2>1, <3>2, <4>1, <4>2
    <3>3. CASE /\ money' = money \cup {Entry("clawback", e, -Outstanding(e))} /\ ~ Found(e)
               /\ e \in Reversals
      <4>1. PICK x : x = Entry("clawback", e, -Outstanding(e))
        OBVIOUS
      <4>2. Outstanding(e) \in Int
        BY <3>3, ReclaimedType, OwedBounds, ConstantsAssumption DEF Outstanding
      <4>3. x \notin money /\ x.kind = "clawback" /\ x.amount \in Int
        BY <3>3, <4>1, <4>2 DEF Found, Entry
      <4> QED
        BY <2>1, <3>3, <4>1, <4>3
    <3> QED
      BY <2>2, <3>1, <3>2, <3>3 DEF Deliver, Fulfill, Reclaim, PaymentReference
  <2>3. CASE money' = money
    BY <1>m, <1>t, <2>3
  <2>4. money' = money \/ \E e \in Events : Deliver(e)
    BY DEF Next, BatchChecks, BatchCommits, QueueFails, ReconcileCommits, QueueInitial, StartChecks,
           StartCommits, Succeed, Fail, SweepEnds, LateAnswer, ReconcileReads, Checkout, Refund,
           Dispute, ledger
  <2> QED
    BY <2>2, <2>3, <2>4
<1> QED
  BY <1>0, <1>t, <1>1, <1>2

\* An admission reads a balance that covers its own runs; whatever commits after
\* that was in flight with it, and takes no more than what is in flight.
LEMMA FlightStep ==
    ASSUME TypeOK, IsFiniteSet(money), TypeOK', IsFiniteSet(money'), OneLife, OneLife',
           Settlement, Flight, Next
    PROVE  Flight'
<1>1. batch' # "confirmed" => \A k \in starting' : k.target \in Articles
  <2>1. ASSUME NEW t \in Targets, StartChecks(t), batch' # "confirmed"
        PROVE  \A k \in starting' : k.target \in Articles
    <3>1. batch # "confirmed" /\ t \in Articles /\ starting' = starting \cup {NextRun(t)}
      BY <2>1 DEF StartChecks, Targets
    <3>2. NextRun(t).target = t
      BY <2>1, NextRunIs DEF StartChecks
    <3> QED
      BY <3>1, <3>2 DEF Flight
  <2>2. CASE starting' \subseteq starting /\ (batch' = "confirmed" \/ batch # "confirmed")
    BY <2>2 DEF Flight
  <2>3. \/ \E t \in Targets : StartChecks(t)
        \/ starting' \subseteq starting /\ (batch' = "confirmed" \/ batch # "confirmed")
    BY DEF Next, BatchChecks, BatchCommits, QueueFails, ReconcileCommits, QueueInitial,
           StartCommits, Succeed, Fail, SweepEnds, LateAnswer, ReconcileReads, Checkout, Refund,
           Dispute, Deliver, TypeOK
  <2> QED
    BY <2>1, <2>2, <2>3
<1>2. PICK B, BB : /\ B = (IF batch = "checked" THEN Batch ELSE {})
                   /\ BB = (IF batch' = "checked" THEN Batch ELSE {})
  OBVIOUS
<1>3. InFlight = starting \cup B /\ InFlight' = starting' \cup BB
  BY <1>2 DEF InFlight, Batch, Run
<1>4. /\ IsFiniteSet(starting) /\ IsFiniteSet(B)
      /\ Cardinality(starting \cup B) = Cardinality(starting) + Cardinality(B)
  <2>1. starting \in SUBSET RunKeys /\ \A j, k \in starting : j.target = k.target => j = k
    BY DEF TypeOK, OneLife
  <2>2. B \in {{}, Batch} /\ (B # {} => \A k \in starting : k.target \in Articles)
    BY <1>2 DEF Flight
  <2> QED
    BY <2>1, <2>2, InFlightBounds
<1>5. /\ IsFiniteSet(starting') /\ IsFiniteSet(BB)
      /\ Cardinality(starting' \cup BB) = Cardinality(starting') + Cardinality(BB)
      /\ Cardinality(starting' \cup BB) <= Cardinality(Targets)
  <2>1. starting' \in SUBSET RunKeys /\ \A j, k \in starting' : j.target = k.target => j = k
    BY DEF TypeOK, OneLife, RunKeys
  <2>2. BB \in {{}, Batch} /\ (BB # {} => \A k \in starting' : k.target \in Articles)
    BY <1>1, <1>2
  <2> QED
    BY <2>1, <2>2, InFlightBounds
<1>6. PICK h, hh, s, ss, b, bb, t : /\ h = Cardinality(holds) /\ hh = Cardinality(holds')
                                   /\ s = Cardinality(starting) /\ ss = Cardinality(starting')
                                   /\ b = Cardinality(B) /\ bb = Cardinality(BB)
                                   /\ t = Cardinality(Targets)
  OBVIOUS
<1>7. /\ h \in Nat /\ hh \in Nat /\ s \in Nat /\ ss \in Nat /\ b \in Nat /\ bb \in Nat
      /\ t \in Nat
  BY <1>4, <1>5, <1>6, FS_CardinalityType, SoundIs, SoundNext, ConstantsAssumption
     DEF SoundSum, Targets
<1>8. Cardinality(InFlight) = s + b /\ Cardinality(InFlight') = ss + bb /\ ss + bb <= t
  BY <1>3, <1>4, <1>5, <1>6
<1>9. PICK x, xx : x = Sound /\ xx = Sound'
  OBVIOUS
<1>10. x \in Int /\ xx \in Int /\ x >= Remaining /\ Remaining \in Int
  BY <1>9, SoundIs, SoundNext DEF SoundSum
<1>11. xx >= x + Estimate * h - Estimate * hh
  <2>1. PICK p, pp : /\ p = Moved("purchase") + (Correction + Shortfall)
                     /\ pp = Moved("purchase")' + (Correction' + Shortfall')
    OBVIOUS
  <2>2. p \in Int /\ pp \in Int /\ SignupGrant \in Int
    BY <2>1, SoundIs, SoundNext DEF SoundSum
  <2>3. pp >= p
    BY <2>1, OnlyHoldsTake
  <2>4. /\ x = SignupGrant + Moved("purchase") + (Correction + Shortfall) - Estimate * h
        /\ Moved("purchase") \in Int /\ Correction + Shortfall \in Int
    BY <1>6, <1>9, SoundIs DEF SoundSum
  <2>5. /\ xx = SignupGrant + Moved("purchase")' + (Correction' + Shortfall') - Estimate * hh
        /\ Moved("purchase")' \in Int /\ Correction' + Shortfall' \in Int
    BY <1>6, <1>9, SoundNext DEF SoundSum
  <2>6. Estimate * h \in Int /\ Estimate * hh \in Int
    BY <1>7, Scale
  <2>7. x = SignupGrant + p - Estimate * h
    BY <2>1, <2>2, <2>4, <2>6
  <2>8. xx = SignupGrant + pp - Estimate * hh
    BY <2>1, <2>2, <2>5, <2>6
  <2> QED
    BY <2>2, <2>3, <2>6, <2>7, <2>8
<1>12. x - Estimate * (s + b) >= Estimate - Estimate * t
  BY <1>6, <1>8, <1>9 DEF Flight
<1>e. Estimate \in Nat /\ Estimate * h \in Nat /\ Estimate * hh \in Nat /\ Estimate * t \in Nat
        /\ Estimate * (s + b) \in Nat /\ Estimate * (ss + bb) \in Nat
  BY <1>7, ConstantsAssumption, Scale
<1>13. ASSUME hh + (ss + bb) <= h + (s + b)
       PROVE  xx - Estimate * (ss + bb) >= Estimate - Estimate * t
  <2>1. Estimate * (hh + (ss + bb)) = Estimate * hh + Estimate * (ss + bb)
    BY <1>7, Scale
  <2>2. Estimate * (h + (s + b)) = Estimate * h + Estimate * (s + b)
    BY <1>7, Scale
  <2>3. Estimate * (hh + (ss + bb)) <= Estimate * (h + (s + b))
    BY <1>7, <1>13, Scale
  <2> QED
    BY <1>10, <1>11, <1>12, <1>e, <2>1, <2>2, <2>3
<1>14. ASSUME hh = h, Remaining >= Estimate
       PROVE  xx - Estimate * (ss + bb) >= Estimate - Estimate * t
  <2>1. Estimate * (ss + bb) <= Estimate * t
    BY <1>7, <1>8, Scale
  <2> QED
    BY <1>10, <1>11, <1>14, <1>e, <2>1
<1>15. xx - Estimate * (ss + bb) >= Estimate - Estimate * t
  <2>1. CASE BatchChecks
    <3>1. holds' = holds /\ starting' = starting /\ BB = Batch /\ B = {} /\ EnoughFor(Batch)
      BY <2>1, <1>2 DEF BatchChecks, ledger
    <3>2. b = 0 /\ (Batch = {} => bb = 0) /\ (Batch # {} => bb >= 1)
      BY <1>5, <1>6, <1>7, <3>1, FS_EmptySet
    <3>3. CASE Batch = {}
      BY <1>6, <1>7, <1>13, <3>1, <3>2, <3>3
    <3>4. CASE Batch # {}
      <4>1. Estimate * 1 <= Estimate * bb /\ Estimate * 1 = Estimate
        BY <1>7, <3>2, <3>4, Scale
      <4>2. Remaining >= Estimate * bb /\ Estimate * bb \in Nat
        BY <1>6, <1>7, <3>1, Scale DEF EnoughFor, Needed
      <4> QED
        BY <1>6, <1>10, <1>14, <1>e, <3>1, <4>1, <4>2
    <3> QED
      BY <3>3, <3>4
  <2>2. CASE BatchCommits
    <3>1. holds' = holds \cup Batch /\ starting' = starting /\ BB = {} /\ B = Batch
      BY <2>2, <1>2 DEF BatchCommits, Hold
    <3>2. bb = 0
      BY <1>6, <3>1, FS_EmptySet
    <3>3. IsFiniteSet(holds)
      BY RunKeysFinite, FS_Subset DEF TypeOK
    <3>4. /\ hh = h + b - Cardinality(holds \cap B)
          /\ Cardinality(holds \cap B) \in Nat
      BY <1>4, <1>6, <3>1, <3>3, FS_Union, FS_Intersection, FS_CardinalityType
    <3> QED
      BY <1>6, <1>7, <1>13, <3>1, <3>2, <3>4
  <2>3. ASSUME NEW u \in Targets, StartChecks(u)
        PROVE  xx - Estimate * (ss + bb) >= Estimate - Estimate * t
    <3>1. holds' = holds /\ Remaining >= Estimate * Cardinality({NextRun(u)})
      BY <2>3 DEF StartChecks, EnoughFor, Needed, ledger
    <3>2. PICK z : z = NextRun(u)
      OBVIOUS
    <3>3. Cardinality({z}) = 1
      BY FS_Singleton
    <3>4. Estimate * 1 = Estimate
      BY ConstantsAssumption
    <3> QED
      BY <1>6, <1>14, <3>1, <3>2, <3>3, <3>4
  <2>4. ASSUME NEW k \in RunKeys, StartCommits(k)
        PROVE  xx - Estimate * (ss + bb) >= Estimate - Estimate * t
    <3>1. k \in starting /\ starting' = starting \ {k} /\ BB = B
            /\ (holds' = holds \/ holds' = holds \cup {k})
      BY <2>4, <1>2 DEF StartCommits, Hold
    <3>2. ss = s - 1
      BY <1>4, <1>6, <3>1, FS_RemoveElement
    <3>3. IsFiniteSet(holds)
      BY RunKeysFinite, FS_Subset DEF TypeOK
    <3>4. hh <= h + 1
      <4>1. PICK H : H = holds
        OBVIOUS
      <4>2. IsFiniteSet(H) /\ Cardinality(H) = h
        BY <1>6, <3>3, <4>1
      <4>3. Cardinality(H \cup {k}) = IF k \in H THEN h ELSE h + 1
        BY <4>2, FS_AddElement
      <4>4. holds' = H \/ holds' = H \cup {k}
        BY <3>1, <4>1
      <4>5. hh = h \/ hh = Cardinality(H \cup {k})
        BY <1>6, <4>2, <4>4
      <4> QED
        BY <1>7, <4>3, <4>5
    <3> QED
      BY <1>6, <1>7, <1>13, <3>1, <3>2, <3>4
  <2>5. CASE holds' = holds /\ starting' = starting /\ batch' = batch
    BY <1>2, <1>6, <1>7, <1>13, <2>5
  <2>6. \/ BatchChecks \/ BatchCommits
        \/ \E u \in Targets : StartChecks(u)
        \/ \E k \in RunKeys : StartCommits(k)
        \/ holds' = holds /\ starting' = starting /\ batch' = batch
    BY DEF Next, QueueFails, ReconcileCommits, QueueInitial, Succeed, Fail, SweepEnds, LateAnswer,
           ReconcileReads, Checkout, Refund, Dispute, Deliver, ledger
  <2> QED
    BY <2>1, <2>2, <2>3, <2>4, <2>5, <2>6
<1>16. Targets' = Targets
  BY DEF Targets
<1> QED
  BY <1>1, <1>6, <1>8, <1>9, <1>15, <1>16 DEF Flight

-----------------------------------------------------------------------------
(* The payment. *)

\* What an event tells of has happened to the payment.
Happened(e) == IF e.type = "refunded" THEN e.amount <= payment.refunded
               ELSE IF e.type = "dispute" THEN payment.disputed ELSE payment.paid

\* The share of the pack that its refunds and its dispute take back.
Reversed == IF payment.disputed THEN Pack ELSE Shares[payment.refunded]

\* The purchase is in the ledger once, or Stripe still has to report it.
Credited ==
    /\ Moved("purchase") = IF Found(PaymentIntent) THEN Pack ELSE 0
    /\ Found(PaymentIntent) => payment.paid
    /\ payment.paid => Found(PaymentIntent) \/ pending \cap Purchases # {}

\* No more is back than what happened takes, no less than what each entry was
\* written for, and, if no reversal was missed, than what each answered one asked.
Reclaimed ==
    /\ ReclaimedAgainst <= Reversed
    /\ \A e \in Reversals : Found(e) => ReclaimedAgainst >= Owed(e)
    /\ ~ missed =>
          \A e \in Reversals : Happened(e) => e \in pending \/ ReclaimedAgainst >= Owed(e)

Payment == (\A e \in pending : Happened(e)) /\ Credited /\ Reclaimed

\* What happened takes back no less than any event that tells of it.
LEMMA OwedOfHappened ==
    ASSUME TypeOK, NEW e \in Reversals, Happened(e)
    PROVE  Owed(e) <= Reversed
<1>1. payment.refunded \in 0 .. Price /\ payment.disputed \in BOOLEAN /\ Price \in Nat /\ Pack \in Nat
  BY ConstantsAssumption DEF TypeOK
<1>2. Owed(e) <= Pack /\ Owed(e) \in Int
  BY <1>1, OwedBounds
<1>3. CASE payment.disputed
  BY <1>2, <1>3 DEF Reversed
<1>4. CASE ~ payment.disputed
  <2>1. e.type = "refunded" /\ e.amount \in 1 .. Price /\ e.amount <= payment.refunded
    BY <1>4, EventKinds DEF Happened
  <2>2. e.amount \in 0 .. Price
    BY <1>1, <2>1
  <2>3. Shares[e.amount] <= Shares[payment.refunded]
    BY <1>1, <2>1, <2>2, SharesAssumption
  <2> QED
    BY <1>4, <2>1, <2>3 DEF Reversed, Owed
<1> QED
  BY <1>3, <1>4

LEMMA ReversedType ==
    ASSUME TypeOK
    PROVE  Reversed \in 0 .. Pack
<1>1. payment.refunded \in 0 .. Price /\ Price \in Nat /\ Pack \in Nat
  BY ConstantsAssumption DEF TypeOK
<1>2. Shares[payment.refunded] \in 0 .. Pack
  BY <1>1, SharesAssumption
<1> QED
  BY <1>1, <1>2 DEF Reversed

\* Once an entry is written its reference, and no other, is found too.
LEMMA FoundMoves ==
    ASSUME NEW x, money' = money \cup {x}, NEW reference
    PROVE  Found(reference)' <=> Found(reference) \/ x.reference = reference
BY DEF Found

\* A refund or a dispute asks for more and is to be told of.
LEMMA StripeActs ==
    ASSUME TypeOK, IsFiniteSet(money), Payment, Checkout \/ Refund \/ Dispute
    PROVE  Payment'
<1>t. /\ payment.refunded \in 0 .. Price /\ payment.refunded \in Int
      /\ payment.disputed \in BOOLEAN /\ payment.paid \in BOOLEAN
      /\ payment \in [paid : BOOLEAN, refunded : 0 .. Price, disputed : BOOLEAN]
      /\ Price \in Nat /\ Pack \in Nat
  BY ConstantsAssumption DEF TypeOK
<1>m. money' = money /\ missed' = missed /\ pending \subseteq pending'
  BY DEF Checkout, Refund, Dispute, ledger
<1>c. /\ Moved("purchase")' = Moved("purchase") /\ ReclaimedAgainst' = ReclaimedAgainst
      /\ \A r : Found(r)' <=> Found(r)
  BY <1>m DEF Moved, ReclaimedAgainst, Found
<1>r. ReclaimedAgainst \in Int /\ Reversed \in 0 .. Pack
  BY ReclaimedType, ReversedType
\* What each act changes.
<1>1. /\ payment'.paid \in BOOLEAN /\ (payment.paid => payment'.paid)
      /\ (payment'.paid => payment.paid \/ Event("completed", 0) \in pending')
      /\ payment'.refunded \in Int /\ payment.refunded <= payment'.refunded
      /\ payment.disputed => payment'.disputed
  <2>1. CASE Checkout
    <3>1. payment' = [payment EXCEPT !.paid = TRUE] /\ Event("completed", 0) \in pending'
      BY <2>1 DEF Checkout, Purchases
    <3> QED
      BY <1>t, <3>1
  <2>2. CASE Refund
    BY <1>t, <2>2 DEF Refund
  <2>3. CASE Dispute
    BY <1>t, <2>3 DEF Dispute
  <2> QED
    BY <2>1, <2>2, <2>3
<1>2. \A e \in pending' : e \in pending \/ Happened(e)'
  <2>1. CASE Checkout
    <3>1. payment'.paid /\ \A e \in pending' : e \in pending \/ e \in Purchases
      BY <1>t, <2>1 DEF Checkout, Purchases
    <3> QED
      BY <3>1, EventKinds DEF Happened
  <2>2. CASE Refund
    <3>1. /\ payment'.refunded = payment.refunded + 1
          /\ \A e \in pending' : e \in pending \/ e = Event("refunded", payment.refunded + 1)
      BY <1>t, <2>2 DEF Refund
    <3> QED
      BY <1>t, <3>1 DEF Happened, Event
  <2>3. CASE Dispute
    <3>1. payment'.disputed /\ \A e \in pending' : e \in pending \/ e = Event("dispute", 0)
      BY <1>t, <2>3 DEF Dispute
    <3> QED
      BY <3>1 DEF Happened, Event
  <2> QED
    BY <2>1, <2>2, <2>3
<1>3. \A e \in Reversals : Happened(e)' => Happened(e) \/ e \in pending'
  <2> SUFFICES ASSUME NEW e \in Reversals, Happened(e)' PROVE Happened(e) \/ e \in pending'
    OBVIOUS
  <2>1. CASE Checkout
    <3>1. payment'.refunded = payment.refunded /\ payment'.disputed = payment.disputed
      BY <1>t, <2>1 DEF Checkout
    <3> QED
      BY <3>1, EventKinds DEF Happened
  <2>2. CASE Refund
    <3>1. /\ payment'.refunded = payment.refunded + 1 /\ payment'.disputed = payment.disputed
          /\ Event("refunded", payment.refunded + 1) \in pending'
      BY <1>t, <2>2 DEF Refund
    <3>2. CASE e.type = "dispute"
      BY <3>1, <3>2 DEF Happened
    <3>3. CASE e.type = "refunded" /\ e.amount \in 1 .. Price /\ e = Event("refunded", e.amount)
      <4>1. e.amount <= payment.refunded + 1
        BY <3>1, <3>3 DEF Happened
      <4>2. e.amount <= payment.refunded \/ e.amount = payment.refunded + 1
        BY <1>t, <3>3, <4>1
      <4> QED
        BY <3>1, <3>3, <4>2 DEF Happened
    <3> QED
      BY <3>2, <3>3, EventKinds
  <2>3. CASE Dispute
    <3>1. payment'.refunded = payment.refunded /\ Event("dispute", 0) \in pending'
      BY <1>t, <2>3 DEF Dispute
    <3> QED
      BY <3>1, EventKinds DEF Happened
  <2> QED
    BY <2>1, <2>2, <2>3
<1>4. Reversed <= Reversed' /\ Reversed' \in Int
  <2>1. CASE Checkout
    <3>1. payment'.refunded = payment.refunded /\ payment'.disputed = payment.disputed
      BY <1>t, <2>1 DEF Checkout
    <3> QED
      BY <1>r, <3>1 DEF Reversed
  <2>2. CASE Refund
    <3>1. PICK m, n : m = payment.refunded /\ n = m + 1
      OBVIOUS
    <3>2. payment'.refunded = n /\ payment'.disputed = payment.disputed /\ m < Price
      BY <1>t, <2>2, <3>1 DEF Refund
    <3>3. m \in 0 .. Price /\ n \in 0 .. Price /\ m <= n
      BY <1>t, <3>1, <3>2
    <3>4. Shares[m] <= Shares[n] /\ Shares[m] \in 0 .. Pack /\ Shares[n] \in 0 .. Pack
      BY <3>3, SharesAssumption
    <3>5. Reversed = IF payment.disputed THEN Pack ELSE Shares[m]
      BY <3>1 DEF Reversed
    <3>6. Reversed' = IF payment.disputed THEN Pack ELSE Shares[n]
      BY <3>2 DEF Reversed
    <3> QED
      BY <1>t, <3>4, <3>5, <3>6
  <2>3. CASE Dispute
    <3>1. Reversed' = Pack
      BY <1>t, <2>3 DEF Dispute, Reversed
    <3> QED
      BY <1>r, <1>t, <3>1
  <2> QED
    BY <2>1, <2>2, <2>3
<1>5. /\ Reversals' = Reversals /\ Purchases' = Purchases /\ PaymentIntent' = PaymentIntent
      /\ \A e : Owed(e)' = Owed(e)
  BY DEF Reversals, Purchases, Owed
<1>6. \A e \in pending' : Happened(e)'
  <2> SUFFICES ASSUME NEW e \in pending, Happened(e) PROVE Happened(e)'
    BY <1>2 DEF Payment
  <2>1. CASE e.type = "refunded"
    <3>1. e \in Events
      BY DEF TypeOK
    <3>2. e.amount \in Int
      BY <2>1, <3>1, EventKinds
    <3> QED
      BY <1>1, <1>t, <2>1, <3>2 DEF Happened
  <2>2. CASE e.type # "refunded"
    BY <1>1, <2>2 DEF Happened
  <2> QED
    BY <2>1, <2>2
<1>7. Credited'
  <2>1. Credited /\ Event("completed", 0) \in Purchases
    BY EventKinds DEF Payment
  <2> QED
    BY <1>1, <1>5, <1>c, <1>m, <2>1 DEF Credited
<1>8. Reclaimed'
  <2>1. Reclaimed
    BY DEF Payment
  <2>2. ReclaimedAgainst' <= Reversed'
    BY <1>4, <1>c, <1>r, <2>1 DEF Reclaimed
  <2> QED
    BY <1>3, <1>5, <1>c, <1>m, <2>1, <2>2 DEF Reclaimed
<1> QED
  BY <1>6, <1>7, <1>8 DEF Payment

\* A delivered event writes what it is owed once, and leaves nothing owed to it
\* unless its purchase was not there.
LEMMA Delivered ==
    ASSUME TypeOK, IsFiniteSet(money), Payment, NEW e \in Events, Deliver(e)
    PROVE  Payment'
<1>t. ReclaimedAgainst \in Int /\ Pack \in Nat /\ Pack > 0
  BY ReclaimedType, ConstantsAssumption
<1>p. /\ payment' = payment /\ e \in pending /\ pending' \subseteq pending
      /\ pending \ {e} \subseteq pending'
  BY DEF Deliver
<1>c. /\ Reversals' = Reversals /\ Purchases' = Purchases /\ PaymentIntent' = PaymentIntent
      /\ Reversed' = Reversed /\ Pack' = Pack
      /\ \A d : Owed(d)' = Owed(d) /\ (Happened(d)' <=> Happened(d))
  BY <1>p DEF Reversals, Purchases, Owed, Reversed, Happened
<1>h. Happened(e) /\ Credited /\ Reclaimed /\ \A d \in pending' : Happened(d)'
  BY <1>p, <1>c DEF Payment
<1>s. money' = money =>
        /\ Moved("purchase")' = Moved("purchase") /\ ReclaimedAgainst' = ReclaimedAgainst
        /\ \A r : Found(r)' <=> Found(r)
  BY DEF Moved, ReclaimedAgainst, Found
<1>x. ASSUME NEW x, money' = money \cup {x}, x \notin money, x.amount \in Int
      PROVE  /\ Moved("purchase")' =
                  Moved("purchase") + IF x.kind = "purchase" THEN x.amount ELSE 0
             /\ ReclaimedAgainst' =
                  ReclaimedAgainst - IF x.kind = "clawback" THEN x.amount ELSE 0
             /\ \A r : Found(r)' <=> Found(r) \/ x.reference = r
  <2>1. PICK c, p : c = "clawback" /\ p = "purchase"
    OBVIOUS
  <2>2. /\ Moved(c)' = Moved(c) + IF x.kind = c THEN x.amount ELSE 0
        /\ Moved(p)' = Moved(p) + IF x.kind = p THEN x.amount ELSE 0
    BY <1>x, EntryMoves
  <2>3. Moved(c) \in Int
    BY MovedType
  <2>4. ReclaimedAgainst = -Moved(c) /\ ReclaimedAgainst' = -Moved(c)'
    BY <2>1 DEF ReclaimedAgainst
  <2>5. ReclaimedAgainst' = ReclaimedAgainst - IF x.kind = c THEN x.amount ELSE 0
    BY <1>x, <2>2, <2>3, <2>4
  <2> QED
    BY <1>x, <2>1, <2>2, <2>5, FoundMoves
<1>1. CASE e \in Purchases /\ Fulfill(e) /\ UNCHANGED missed
  <2>1. payment.paid
    BY <1>1, <1>h, EventKinds DEF Happened
  <2>2. \A d \in Reversals : d \in pending => d \in pending'
    BY <1>1, <1>p, EventKinds
  <2>3. CASE Found(PaymentIntent)
    <3>1. money' = money
      BY <1>1, <2>3 DEF Fulfill, PaymentReference
    <3> QED
      BY <1>1, <1>c, <1>h, <1>p, <1>s, <2>2, <2>3, <3>1 DEF Payment, Credited, Reclaimed
  <2>4. CASE ~ Found(PaymentIntent)
    <3>1. PICK x : x = Entry("purchase", PaymentIntent, Pack)
      OBVIOUS
    <3>2. /\ money' = money \cup {x} /\ x.kind = "purchase" /\ x.amount = Pack
          /\ x.reference = PaymentIntent /\ x \notin money
      BY <1>1, <2>4, <3>1 DEF Fulfill, PaymentReference, Entry, Found
    <3>3. /\ Moved("purchase")' = Moved("purchase") + Pack /\ Found(PaymentIntent)'
          /\ ReclaimedAgainst' = ReclaimedAgainst - 0
          /\ \A d \in Reversals : Found(d)' <=> Found(d)
      BY <1>t, <1>x, <3>2, EventKinds
    <3>4. Moved("purchase")' = Pack /\ ReclaimedAgainst' = ReclaimedAgainst
      BY <1>h, <1>t, <2>4, <3>3 DEF Credited
    <3>5. Credited'
      BY <1>c, <1>p, <2>1, <3>3, <3>4 DEF Credited
    <3>6. Reclaimed'
      BY <1>1, <1>c, <1>h, <2>2, <3>3, <3>4 DEF Reclaimed
    <3> QED
      BY <1>h, <3>5, <3>6 DEF Payment
  <2> QED
    BY <2>3, <2>4
<1>2. CASE e \in Reversals /\ Reclaim(e) /\ missed' = (missed \/ ~ Found(PaymentIntent))
  <2>1. pending \cap Purchases \subseteq pending'
    BY <1>2, <1>p, EventKinds
  <2>o. Owed(e) \in Int /\ Owed(e) <= Reversed
    BY <1>2, <1>h, OwedBounds, OwedOfHappened
  <2>2. CASE money' = money /\ (Found(PaymentIntent) => Owed(e) <= ReclaimedAgainst)
    <3>1. Credited'
      BY <1>c, <1>h, <1>p, <1>s, <2>1, <2>2 DEF Credited
    <3>2. Reclaimed'
      <4>1. ~ missed' => ~ missed /\ Found(PaymentIntent)
        BY <1>2
      <4> QED
        BY <1>c, <1>h, <1>p, <1>s, <2>2, <4>1 DEF Reclaimed
    <3> QED
      BY <1>h, <3>1, <3>2 DEF Payment
  <2>3. CASE /\ Found(PaymentIntent) /\ Outstanding(e) > 0 /\ ~ Found(e)
             /\ money' = money \cup {Entry("clawback", e, -Outstanding(e))}
    <3>1. PICK x, a : x = Entry("clawback", e, -Outstanding(e)) /\ a = Outstanding(e)
      OBVIOUS
    <3>2. a = Owed(e) - ReclaimedAgainst /\ a \in Int /\ a > 0
      BY <1>t, <2>3, <2>o, <3>1 DEF Outstanding
    <3>3. /\ money' = money \cup {x} /\ x.kind = "clawback" /\ x.amount = -a
          /\ x.reference = e /\ x \notin money
      BY <2>3, <3>1 DEF Entry, Found
    <3>4. /\ Moved("purchase")' = Moved("purchase") + 0
          /\ ReclaimedAgainst' = ReclaimedAgainst - (-a)
          /\ \A r : Found(r)' <=> Found(r) \/ r = e
      BY <1>x, <3>2, <3>3
    <3>5. Moved("purchase") \in Int
      BY <1>h, <1>t DEF Credited
    <3>6. /\ Moved("purchase")' = Moved("purchase") /\ ReclaimedAgainst' = Owed(e)
          /\ ReclaimedAgainst < ReclaimedAgainst' /\ (Found(PaymentIntent)' <=> Found(PaymentIntent))
      BY <1>2, <1>t, <2>o, <3>2, <3>4, <3>5, EventKinds
    <3>7. Credited'
      BY <1>c, <1>h, <1>p, <2>1, <3>6 DEF Credited
    <3>8. \A d \in Reversals : ReclaimedAgainst >= Owed(d) => ReclaimedAgainst' >= Owed(d)
      <4> SUFFICES ASSUME NEW d \in Reversals, ReclaimedAgainst >= Owed(d)
                   PROVE  ReclaimedAgainst' >= Owed(d)
        OBVIOUS
      <4>1. Owed(d) \in Int
        BY OwedBounds, <1>t
      <4> QED
        BY <1>t, <2>o, <3>6, <4>1
    <3>9. ReclaimedAgainst' >= Owed(e)
      BY <2>o, <3>6
    <3>m. ~ missed' => ~ missed
      BY <1>2
    <3>10. Reclaimed'
      BY <1>c, <1>h, <1>p, <2>o, <3>4, <3>6, <3>8, <3>9, <3>m DEF Reclaimed
    <3> QED
      BY <1>h, <3>7, <3>10 DEF Payment
  <2>4. \/ money' = money /\ (Found(PaymentIntent) => ~ (Outstanding(e) > 0) \/ Found(e))
        \/ /\ Found(PaymentIntent) /\ Outstanding(e) > 0 /\ ~ Found(e)
           /\ money' = money \cup {Entry("clawback", e, -Outstanding(e))}
    BY <1>2 DEF Reclaim
  <2>5. ~ (Outstanding(e) > 0) \/ Found(e) => Owed(e) <= ReclaimedAgainst
    BY <1>2, <1>h, <1>t, <2>o DEF Outstanding, Reclaimed
  <2> QED
    BY <2>2, <2>3, <2>4, <2>5
<1> QED
  BY <1>1, <1>2 DEF Deliver

LEMMA PaymentStep ==
    ASSUME TypeOK, IsFiniteSet(money), Payment, Next
    PROVE  Payment'
<1>1. CASE Checkout \/ Refund \/ Dispute
  BY <1>1, StripeActs
<1>2. ASSUME NEW e \in Events, Deliver(e) PROVE Payment'
  BY <1>2, Delivered
<1>3. CASE UNCHANGED <<money, stripe>>
  BY <1>3 DEF Payment, Credited, Reclaimed, Happened, Reversed, Reversals, Purchases, Moved,
              ReclaimedAgainst, Found, Owed, stripe
<1>4. \/ Checkout \/ Refund \/ Dispute \/ \E e \in Events : Deliver(e)
      \/ UNCHANGED <<money, stripe>>
  BY DEF Next, BatchChecks, BatchCommits, QueueFails, ReconcileCommits, QueueInitial, StartChecks,
         StartCommits, Succeed, Fail, SweepEnds, LateAnswer, ReconcileReads, ledger, stripe
<1> QED
  BY <1>1, <1>2, <1>3, <1>4

-----------------------------------------------------------------------------
(* The inductive invariant. *)

Inv == TypeOK /\ IsFiniteSet(money) /\ OneLife /\ Settlement /\ Flight /\ Payment

LEMMA Initially == Init => Inv
<1> SUFFICES ASSUME Init PROVE Inv
  OBVIOUS
<1>1. TypeOK /\ IsFiniteSet(money)
  <2>1. NoSettle \in Settles
    BY DEF NoSettle, Settles
  <2>2. settles \in [RunKeys -> Settles] /\ \A k \in RunKeys : ~ settles[k].written
    BY <2>1 DEF Init, NoSettle
  <2>3. payment \in [paid : BOOLEAN, refunded : 0 .. Price, disputed : BOOLEAN]
    BY ConstantsAssumption DEF Init
  <2> QED
    BY <2>2, <2>3, FS_EmptySet DEF Init, TypeOK, Costs
<1>2. OneLife
  BY DEF Init, OneLife
<1>3. Settlement
  BY DEF Init, Settlement, SettledAtCost, Decided, NoSettle
<1>4. Correction = 0 /\ Shortfall = 0
  <2>1. PICK f, g : /\ f = [k \in RunKeys |-> settles[k].amount]
                    /\ g = [k \in RunKeys |-> IF settles[k].amount < 0 THEN -settles[k].amount ELSE 0]
    OBVIOUS
  <2>2. \A k \in RunKeys : f[k] = 0 /\ g[k] = 0
    BY <2>1 DEF Init, NoSettle
  <2>3. SumFunctionOnSet(f, RunKeys) = 0 /\ SumFunctionOnSet(g, RunKeys) = 0
    BY <2>2, RunKeysFinite, SumZero
  <2> QED
    BY <2>1, <2>3 DEF Correction, Shortfall
<1>5. \A kind : Moved(kind) = 0
  <2> TAKE kind
  <2>1. PICK f : f = [e \in money |-> e.amount]
    OBVIOUS
  <2>2. SumFunctionOnSet(f, {}) = 0
    BY SumEmpty
  <2>3. {e \in money : e.kind = kind} = {}
    BY DEF Init
  <2> QED
    BY <2>1, <2>2, <2>3 DEF Moved
<1>6. Flight
  <2>1. InFlight = {} /\ holds = {}
    BY DEF Init, InFlight
  <2>2. PICK n : n = Cardinality(Targets)
    OBVIOUS
  <2>3. n \in Nat /\ 1 <= n
    BY <2>2, FS_CardinalityType, FS_EmptySet, ConstantsAssumption DEF Targets
  <2>4. Estimate * 1 <= Estimate * n /\ Estimate * 1 = Estimate /\ Estimate * n \in Nat
    BY <2>3, Scale
  <2>5. Cardinality(InFlight) = 0 /\ Cardinality(holds) = 0 /\ Estimate * 0 = 0
    BY <2>1, FS_EmptySet, Scale
  <2>6. Sound = SignupGrant + Moved("purchase") + (Correction + Shortfall)
                  - Estimate * Cardinality(holds)
    BY <1>1, SoundIs DEF SoundSum
  <2>7. SignupGrant \in Nat /\ Estimate \in Nat
    BY ConstantsAssumption
  <2>8. Sound = SignupGrant
    BY <1>4, <1>5, <2>5, <2>6, <2>7
  <2>9. Sound - Estimate * Cardinality(InFlight) >= Estimate - Estimate * n
    BY <2>4, <2>5, <2>7, <2>8
  <2> QED
    BY <2>2, <2>9 DEF Flight, Init
<1>7. Payment
  <2>1. ~ Found(PaymentIntent) /\ \A e : ~ Found(e)
    BY DEF Init, Found
  <2>2. payment.paid = FALSE /\ payment.disputed = FALSE /\ payment.refunded = 0 /\ pending = {}
    BY DEF Init
  <2>3. \A e \in Reversals : ~ Happened(e)
    BY <2>2, EventKinds, ConstantsAssumption DEF Happened
  <2>4. ReclaimedAgainst = 0 /\ Reversed = 0
    BY <1>5, <2>2, SharesAssumption DEF ReclaimedAgainst, Reversed
  <2> QED
    BY <1>5, <2>1, <2>2, <2>3, <2>4 DEF Payment, Credited, Reclaimed
<1> QED
  BY <1>1, <1>2, <1>3, <1>6, <1>7 DEF Inv

\* Nothing of it depends on anything but the variables.
LEMMA Stutters == Inv /\ UNCHANGED vars => Inv'
<1> SUFFICES ASSUME Inv, UNCHANGED vars PROVE Inv'
  OBVIOUS
<1>1. TypeOK' /\ IsFiniteSet(money')
  BY DEF Inv, vars, ledger, stripe, TypeOK, RunKeys, Settles, Costs, Events, Purchases, Reversals,
         PaymentIntent
<1>2. OneLife'
  BY DEF Inv, vars, OneLife, RunKeys, Active, NextRun, Latest, Ran, Run, Before
<1>3. Settlement'
  BY DEF Inv, vars, ledger, Settlement, SettledAtCost, Decided, RunKeys, Ended, Actual, Paid, Due
<1>4. Flight'
  BY DEF Inv, vars, ledger, Flight, Sound, Remaining, ReclaimedAgainst, Shortfall, Correction,
         Moved, RunKeys, InFlight, Batch, Run, Targets
<1>5. Payment'
  BY DEF Inv, vars, ledger, stripe, Payment, Credited, Reclaimed, Happened, Reversed, Reversals,
         Purchases, Moved, ReclaimedAgainst, Found, Owed
<1> QED
  BY <1>1, <1>2, <1>3, <1>4, <1>5 DEF Inv

LEMMA Inductive == Inv /\ [Next]_vars => Inv'
<1> SUFFICES ASSUME Inv, Next PROVE Inv'
  BY Stutters
<1>1. TypeOK' /\ IsFiniteSet(money')
  BY TypeStep DEF Inv
<1>2. OneLife'
  BY <1>1, OneLifeStep DEF Inv
<1>3. Settlement'
  BY <1>1, SettlementStep DEF Inv
<1>4. Flight'
  BY <1>1, <1>2, FlightStep DEF Inv
<1>5. Payment'
  BY PaymentStep DEF Inv
<1> QED
  BY <1>1, <1>2, <1>3, <1>4, <1>5 DEF Inv

LEMMA Invariant == Spec => []Inv
BY Initially, Inductive, PTL DEF Spec

-----------------------------------------------------------------------------
(* The theorems. *)

\* Every 预扣, 结算, entry, run, cost, decision and event keeps its type, and no run
\* is settled without a 预扣 (credits.py, the columns of credit_entries and
\* execution_costs).
THEOREM TypeCorrect == Spec => []TypeOK
BY Invariant, PTL DEF Inv

\* Whoever settles a run that was executed, and whatever the sweep had read before,
\* the user is left paying its Due: what a success cost, the 预扣 if that is unknown,
\* nothing for a failure or a lost cost (settle, reconcile_settlements).
THEOREM SettledCorrectly == Spec => []SettledAtCost
<1>1. Inv => SettledAtCost
  BY DEF Inv, Settlement
<1> QED
  BY <1>1, Invariant, PTL

\* The admissions that read one balance together never take it further below zero
\* than 预扣 for every target but one, however many rounds of them follow and whatever
\* settles, is bought or is clawed back between them (require_credits, hold_credits).
THEOREM DebtStaysBounded == Spec => []DebtBounded
<1>1. Inv => DebtBounded
  <2> SUFFICES ASSUME Inv PROVE DebtBounded
    OBVIOUS
  <2>1. Sound \in Int
    BY SoundIs DEF Inv, SoundSum
  <2>2. IsFiniteSet(InFlight)
    <3>1. InFlight \subseteq RunKeys
      BY BatchRuns DEF Inv, TypeOK, InFlight
    <3> QED
      BY <3>1, RunKeysFinite, FS_Subset
  <2>3. PICK c, n : c = Cardinality(InFlight) /\ n = Cardinality(Targets)
    OBVIOUS
  <2>4. c \in Nat /\ n \in Nat
    BY <2>2, <2>3, FS_CardinalityType, ConstantsAssumption DEF Targets
  <2>5. Estimate * c \in Nat /\ Estimate * n \in Nat /\ Estimate \in Nat
    BY <2>4, Scale, ConstantsAssumption
  <2>6. Sound - Estimate * c >= Estimate - Estimate * n
    BY <2>3 DEF Inv, Flight
  <2>7. Sound >= Estimate - Estimate * n
    BY <2>1, <2>5, <2>6
  <2> QED
    BY <2>3, <2>7 DEF DebtBounded, Sound
<1> QED
  BY <1>1, Invariant, PTL

\* However its webhooks repeat and reorder, one payment is credited once, no more
\* than its reversed share is ever back, and once all are answered exactly that,
\* unless one was answered before the purchase (fulfill, reclaim).
THEOREM PaymentOnce == Spec => []PaymentCountedOnce
<1>1. Inv => PaymentCountedOnce
  <2> SUFFICES ASSUME Inv PROVE PaymentCountedOnce
    OBVIOUS
  <2>1. PICK p, r, a : p = Moved("purchase") /\ r = Reversed /\ a = ReclaimedAgainst
    OBVIOUS
  <2>2. /\ a \in Nat /\ r \in Int /\ Pack \in Nat
        /\ p = (IF Found(PaymentIntent) THEN Pack ELSE 0) /\ a <= r
        /\ Found(PaymentIntent) => payment.paid
        /\ payment.paid => Found(PaymentIntent) \/ pending \cap Purchases # {}
    BY <2>1, ReclaimedType, ReversedType, ConstantsAssumption
       DEF Inv, Payment, Credited, Reclaimed
  <2>3. p <= (IF payment.paid THEN Pack ELSE 0)
    BY <2>2
  <2>4. ASSUME pending = {}, ~ missed PROVE p = (IF payment.paid THEN Pack ELSE 0) /\ a = r
    <3>1. p = (IF payment.paid THEN Pack ELSE 0)
      BY <2>2, <2>4
    <3>2. \A e \in Reversals : Happened(e) => a >= Owed(e)
      BY <2>1, <2>4 DEF Inv, Payment, Reclaimed
    <3>3. CASE payment.disputed
      <4>1. PICK e : e = Event("dispute", 0)
        OBVIOUS
      <4>2. e \in Reversals /\ Happened(e) /\ Owed(e) = Pack
        BY <3>3, <4>1 DEF Reversals, Happened, Owed, Event
      <4> QED
        BY <2>1, <2>2, <3>1, <3>2, <3>3, <4>2 DEF Reversed
    <3>4. CASE ~ payment.disputed /\ payment.refunded # 0
      <4>1. PICK e : e = Event("refunded", payment.refunded)
        OBVIOUS
      <4>2. payment.refunded \in 1 .. Price /\ payment.refunded <= payment.refunded
        BY <3>4, ConstantsAssumption DEF Inv, TypeOK
      <4>3. e \in Reversals /\ Happened(e) /\ Owed(e) = Shares[payment.refunded]
        BY <4>1, <4>2 DEF Reversals, Happened, Owed, Event
      <4> QED
        BY <2>1, <2>2, <3>1, <3>2, <3>4, <4>3 DEF Reversed
    <3>5. CASE ~ payment.disputed /\ payment.refunded = 0
      BY <2>1, <2>2, <3>1, <3>5, SharesAssumption DEF Reversed
    <3> QED
      BY <3>3, <3>4, <3>5
  <2> QED
    BY <2>1, <2>2, <2>3, <2>4 DEF PaymentCountedOnce, Reversed
<1> QED
  BY <1>1, Invariant, PTL
=============================================================================
